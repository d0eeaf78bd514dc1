------------------------------ MODULE Account ------------------------------
(***************************************************************************)
(* One account of the integration: its config entry, the flows that edit   *)
(* it (config_flow.py), the set-up that reads it (__init__.py, the         *)
(* coordinator's _async_setup, https_client.py) and the selection of       *)
(* devices it stores (selection.py).                                       *)
(*                                                                         *)
(* Home Assistant is external: it runs one set-up or unload of an entry at *)
(* a time, calls the update listener when an entry really changed, retries *)
(* ConfigEntryNotReady, and opens the re-authentication flow on            *)
(* ConfigEntryAuthFailed.  The cloud is external too: the family lives in  *)
(* one of two partitions, any request may fail, a device table may be      *)
(* incomplete, and only the SSL login looks at the password.               *)
(***************************************************************************)
EXTENDS Naturals, FiniteSets

CONSTANTS
    Home,         \* the partition of the family
    Device,       \* the devices of the family
    GroupOf,      \* infer_group, per device
    Password,     \* password digests
    MaxEdits,     \* bound: accepted submissions of flows
    MaxLate       \* bound: set-ups that fail after their session was opened

ASSUME AccountAssumption ==
    /\ MaxEdits \in Nat /\ MaxLate \in Nat
    /\ Password # {}
    /\ DOMAIN GroupOf = Device
    /\ Home \in {"china", "global"}

Group == {GroupOf[d] : d \in Device}
Region == {"china", "global"}
Mode == {"auto", "lan_only"}     \* stands for the options that only a set-up reads

VARIABLES
    entry,      \* the config entry: data and options
    ha,         \* where Home Assistant is with the entry
    setup,      \* where async_setup_entry is
    coord,      \* the coordinator it builds, or the one in hass.data
    listener,   \* the update listener is registered
    reload,     \* a reload of the entry is waiting for its turn
    form,       \* the new password that a flow is validating
    exposed,    \* devices with entities
    alive,      \* coordinators with open sessions
    late,       \* history: set-ups that failed after opening their sessions
    wanted,     \* history: what the user submitted last
    missed,     \* history: the entry changed while a set-up ran that had read it already
    owed,       \* history: a re-authentication was accepted and awaits its reload
    refusal,    \* history: the server refused the login of the last set-up
    edits

accountVars == <<entry, ha, setup, coord, listener, reload, form, exposed, alive,
                 late, wanted, missed, owed, refusal, edits>>

Entry == [region : Region, password : Password, mode : Mode,
          picked : BOOLEAN,            \* CONF_SELECTED_DEVICE_IDS in options
          ids : SUBSET Device, groups : SUBSET Group]

Coordinator == [password : Password, mode : Mode, cloud : Region, status : BOOLEAN,
                devices : SUBSET Device, live : BOOLEAN]

Form == [pc : {"closed", "relogin", "reauth"}, password : Password]

Other(r) == CHOOSE q \in Region : q # r

AccountTypeOK ==
    /\ entry \in Entry
    /\ ha \in {"none", "setup", "loaded", "retry", "auth_error", "unloading"}
    /\ setup \in {"off", "detect", "discover", "fallback", "ssl", "store", "forward", "end"}
    /\ coord \in Coordinator /\ form \in Form
    /\ listener \in BOOLEAN /\ reload \in BOOLEAN
    /\ missed \in BOOLEAN /\ owed \in BOOLEAN /\ refusal \in BOOLEAN
    /\ exposed \subseteq Device /\ alive \in 0 .. MaxLate + 1 /\ late \in 0 .. MaxLate
    /\ wanted \in Entry /\ edits \in 0 .. MaxEdits

-----------------------------------------------------------------------------
(* selection.py *)

\* Mutant of SelectedIds: the stored ids alone, as device_is_selected reads them.
SelectedIdsOnly(e, available) == IF e.picked THEN e.ids \cap available ELSE available

\* selected_device_ids
SelectedIds(e, available) ==
    IF e.picked THEN (e.ids \cup {d \in Device : GroupOf[d] \in e.groups}) \cap available
                ELSE available

\* cleaned_selection_options
Cleaned(e, available) == IF e.picked THEN [e EXCEPT !.ids = @ \cap available] ELSE e

\* _selection_plan and _merge_custom_selection: whole groups, and devices of the others.
Plan(devices, groups, custom) ==
    {d \in devices : GroupOf[d] \in groups} \cup (custom \cap devices)

-----------------------------------------------------------------------------
(* What Home Assistant does with an entry *)

Closed == [pc |-> "closed", password |-> CHOOSE p \in Password : TRUE]

NoCoordinator == [password |-> Closed.password, mode |-> "auto", cloud |-> "china",
                  status |-> FALSE, devices |-> {}, live |-> FALSE]

\* async_update_entry: the listeners run when something changed.
Update(e) ==
    /\ entry' = e
    /\ reload' = (reload \/ (e # entry /\ listener))
    /\ missed' = (missed \/ (e # entry /\ ~listener /\ ha = "setup"))

\* A set-up starts: async_setup_entry up to its first await.
Starts ==
    /\ ha' = "setup" /\ setup' = "detect" /\ listener' = FALSE
    /\ coord' = [password |-> entry.password, mode |-> entry.mode, cloud |-> entry.region,
                 status |-> FALSE, devices |-> {}, live |-> FALSE]
    /\ exposed' = {} /\ missed' = FALSE /\ owed' = FALSE /\ refusal' = FALSE

\* ConfigEntryNotReady, ConfigEntryAuthFailed: the coordinator is dropped as it is.
Fails(state) ==
    /\ ha' = state /\ setup' = "off" /\ coord' = NoCoordinator
    /\ UNCHANGED <<entry, listener, reload, form, exposed, alive, wanted,
                   missed, owed, edits>>

\* The timer of ConfigEntryNotReady.
Retry ==
    /\ ha = "retry" /\ Starts
    /\ UNCHANGED <<entry, reload, form, alive, late, wanted, edits>>

\* async_reload, of an entry that is not loaded
ReloadFailed ==
    /\ reload /\ ha \in {"retry", "auth_error"} /\ reload' = FALSE /\ Starts
    /\ UNCHANGED <<entry, form, alive, late, wanted, edits>>

\* async_reload of a loaded entry: async_unload_entry removes the entities first.
UnloadStart ==
    /\ reload /\ ha = "loaded"
    /\ ha' = "unloading" /\ exposed' = {} /\ reload' = FALSE
    /\ UNCHANGED <<entry, setup, coord, listener, form, alive, late, wanted,
                   missed, owed, refusal, edits>>

\* Mutant of UnloadEnd: the coordinator is popped without its clean-up.
UnloadEndUncleaned ==
    /\ ha = "unloading" /\ Starts
    /\ UNCHANGED <<entry, reload, form, alive, late, wanted, edits>>

\* async_cleanup has closed the sessions; hass.data forgets the coordinator; set up again.
UnloadEnd ==
    /\ ha = "unloading" /\ Starts
    /\ alive' = alive - (IF coord.live THEN 1 ELSE 0)
    /\ UNCHANGED <<entry, reload, form, late, wanted, edits>>

\* Home Assistant is stopped and started: only the entry is left.
Restart ==
    /\ ha # "none" /\ Starts
    /\ reload' = FALSE /\ alive' = 0 /\ late' = 0 /\ form' = Closed
    /\ UNCHANGED <<entry, wanted, edits>>

-----------------------------------------------------------------------------
(* The cloud client *)

(***************************************************************************)
(* async_detect_cloud with the family of the entry: the partitions where   *)
(* it may stop.  ensure_login is content with a token once a family id is  *)
(* set, and either partition may hand out a token or fail to.              *)
(***************************************************************************)
Detected(preferred) == {preferred, Other(preferred)}

\* discover: what the table, the descriptions or the home page list of the family.
Tables(cloud) == IF cloud = Home THEN SUBSET Device ELSE {{}}

-----------------------------------------------------------------------------
(* _async_setup and the rest of async_setup_entry *)

Setting(step) == ha = "setup" /\ setup = step

Detect(cloud) ==
    /\ Setting("detect") /\ cloud \in Detected(coord.cloud)
    /\ setup' = "discover" /\ coord' = [coord EXCEPT !.cloud = cloud]
    /\ UNCHANGED <<entry, ha, listener, reload, form, exposed, alive, late,
                   wanted, missed, owed, refusal, edits>>

\* No partition answers: ConfigEntryAuthFailed, whatever the reason.
DetectFails ==
    /\ Setting("detect") /\ Fails("auth_error") /\ UNCHANGED <<late, refusal>>

\* Devices are listed, or the table holds none, or the request failed (status is None).
Discover(listed, status) ==
    /\ Setting("discover") /\ listed \in Tables(coord.cloud) /\ (listed # {} => status)
    /\ coord' = [coord EXCEPT !.devices = listed, !.status = status /\ listed = {}]
    /\ setup' = IF listed = {} THEN "fallback" ELSE "ssl"
    /\ UNCHANGED <<entry, ha, listener, reload, form, exposed, alive, late,
                   wanted, missed, owed, refusal, edits>>

(***************************************************************************)
(* The other partition is tried; the client stays there even when its      *)
(* login fails, and the set-up goes on when either table was read.         *)
(***************************************************************************)
Fallback(login, listed, status) ==
    LET cloud == Other(coord.cloud)
        known == IF login THEN status ELSE coord.status IN
    /\ Setting("fallback")
    /\ listed \in (IF login THEN Tables(cloud) ELSE {{}}) /\ (listed # {} => status)
    /\ IF known \/ listed # {}
         THEN /\ setup' = "ssl"
              /\ coord' = [coord EXCEPT !.cloud = cloud, !.devices = listed, !.status = FALSE]
              /\ UNCHANGED <<entry, ha, listener, reload, form, exposed, alive,
                             late, wanted, missed, owed, refusal, edits>>
         ELSE Fails("retry") /\ UNCHANGED <<late, refusal>>

\* The SSL login is refused: a wrong password, or a partition that does not know the account.
SslRefused ==
    /\ Setting("ssl") /\ coord.mode # "lan_only"
    /\ Fails("auth_error") /\ refusal' = TRUE /\ UNCHANGED late

\* The SSL login succeeds or stays without an answer; the LAN gateways are connected.
Connected ==
    /\ Setting("ssl")
    /\ setup' = "store" /\ coord' = [coord EXCEPT !.live = TRUE] /\ alive' = alive + 1
    /\ UNCHANGED <<entry, ha, listener, reload, form, exposed, late, wanted,
                   missed, owed, refusal, edits>>

\* A query or a parser raises after that: the coordinator is dropped, its sessions stay.
LateFailure ==
    /\ Setting("store") /\ late < MaxLate
    /\ Fails("retry") /\ late' = late + 1 /\ UNCHANGED refusal

\* Mutant of Store: the data read when the set-up began are written back.
StoreStale ==
    /\ Setting("store") /\ setup' = "forward"
    /\ entry' = [Cleaned(entry, coord.devices) EXCEPT !.region = coord.cloud,
                                                      !.password = coord.password]
    /\ UNCHANGED <<ha, coord, listener, reload, form, exposed, alive, late,
                   wanted, missed, owed, refusal, edits>>

\* The detected region and the cleaned selection go into the entry.
Store ==
    /\ Setting("store") /\ setup' = "forward"
    /\ entry' = [Cleaned(entry, coord.devices) EXCEPT !.region = coord.cloud]
    /\ UNCHANGED <<ha, coord, listener, reload, form, exposed, alive, late,
                   wanted, missed, owed, refusal, edits>>

\* The platforms create the entities of the selected devices.
Forward ==
    /\ Setting("forward") /\ setup' = "end"
    /\ exposed' = SelectedIds(entry, coord.devices)
    /\ UNCHANGED <<entry, ha, coord, listener, reload, form, alive, late, wanted,
                   missed, owed, refusal, edits>>

\* Mutant of SetupEnd: the listener is not registered.
SetupEndDeaf ==
    /\ Setting("end") /\ ha' = "loaded" /\ setup' = "off"
    /\ UNCHANGED <<entry, coord, listener, reload, form, exposed, alive, late,
                   wanted, missed, owed, refusal, edits>>

\* The registries are brought in line and the update listener is registered.
SetupEnd ==
    /\ Setting("end") /\ ha' = "loaded" /\ setup' = "off" /\ listener' = TRUE
    /\ UNCHANGED <<entry, coord, reload, form, exposed, alive, late, wanted,
                   missed, owed, refusal, edits>>

-----------------------------------------------------------------------------
(* The flows *)

Submitted(e) == wanted' = e /\ edits < MaxEdits /\ edits' = edits + 1

\* The groups a form could show.
Shown(listed, groups) == {g \in groups : \E d \in listed : GroupOf[d] = g}

(***************************************************************************)
(* The steps of the config flow up to _create_entry: detection without a   *)
(* family stops at the partition that lists one, the SSL probe is not      *)
(* refused (no answer counts as acceptance, so any password may pass), and *)
(* _fetch_devices gives the list to choose from.  They touch nothing but   *)
(* the flow's own attributes.                                              *)
(***************************************************************************)
Create(p, listed, groups, custom) ==
    LET ids == Plan(listed, groups, custom)
        e == [region |-> Home, password |-> p, mode |-> "auto", picked |-> TRUE,
              ids |-> ids, groups |-> Shown(listed, groups)] IN
    /\ ha = "none" /\ ids # {}
    /\ Submitted(e) /\ entry' = e /\ ha' = "retry"
    /\ UNCHANGED <<setup, coord, listener, reload, form, exposed, alive, late, missed,
                   owed, refusal>>

\* async_step_devices and async_step_custom_devices of the options flow, on a list of its own.
SubmitDevices(listed, groups, custom) ==
    LET ids == Plan(listed, groups, custom)
        With(e) == [e EXCEPT !.picked = TRUE, !.ids = ids, !.groups = Shown(listed, groups)] IN
    /\ ha # "none" /\ ids # {}
    /\ Update(With(entry)) /\ Submitted(With(wanted))
    /\ UNCHANGED <<ha, setup, coord, listener, form, exposed, alive, late, owed, refusal>>

\* transport_mode, polling, lan_credentials, lock_users: one key of the options.
SubmitOption(m) ==
    /\ ha # "none" /\ m # entry.mode
    /\ Update([entry EXCEPT !.mode = m]) /\ Submitted([wanted EXCEPT !.mode = m])
    /\ UNCHANGED <<ha, setup, coord, listener, form, exposed, alive, late, owed,
                   refusal>>

\* custom_profiles: a reload is scheduled, the options stay.
ReloadProfiles ==
    /\ ha # "none" /\ ~reload /\ reload' = TRUE
    /\ UNCHANGED <<entry, ha, setup, coord, listener, form, exposed, alive, late,
                   wanted, missed, owed, refusal, edits>>

\* A new password is typed; f is the options flow's step or the flow Home Assistant opened.
EnterPassword(f, p) ==
    /\ form.pc = "closed"
    /\ \/ f = "relogin" /\ ha # "none"
       \/ f = "reauth" /\ ha = "auth_error"
    /\ form' = [pc |-> f, password |-> p]
    /\ UNCHANGED <<entry, ha, setup, coord, listener, reload, exposed, alive,
                   late, wanted, missed, owed, refusal, edits>>

\* _validate_updated_credentials rejects it.
PasswordRejected ==
    /\ form.pc # "closed" /\ form' = Closed
    /\ UNCHANGED <<entry, ha, setup, coord, listener, reload, exposed, alive,
                   late, wanted, missed, owed, refusal, edits>>

\* The entry with a validated password and the partition that validated it.
Validated(cloud) == [entry EXCEPT !.password = form.password, !.region = cloud]

\* The server did not refuse the password; silence counts as acceptance.
Accepted(f, cloud) ==
    /\ form.pc = f /\ cloud \in Detected(entry.region)
    /\ form' = Closed
    /\ Submitted([wanted EXCEPT !.password = form.password])
    /\ UNCHANGED <<ha, setup, coord, listener, exposed, alive, late, refusal>>

\* The options flow's reauth step: the listener, where there is one, reloads.
Relogin(cloud) ==
    Accepted("relogin", cloud) /\ Update(Validated(cloud)) /\ UNCHANGED owed

\* Mutant of Reauth: the reload is left to a listener that a failed set-up never registered.
ReauthByListener(cloud) ==
    Accepted("reauth", cloud) /\ Update(Validated(cloud)) /\ owed' = TRUE

\* reauth_confirm: async_update_reload_and_abort
Reauth(cloud) ==
    /\ Accepted("reauth", cloud) /\ owed' = TRUE
    /\ entry' = Validated(cloud) /\ reload' = TRUE
    /\ missed' = (missed \/ (entry' # entry /\ ~listener /\ ha = "setup"))

-----------------------------------------------------------------------------
Fresh == [region |-> "china", password |-> Closed.password, mode |-> "auto", picked |-> FALSE,
          ids |-> {}, groups |-> {}]

\* No entry yet, or an entry of a version without a selection, at the start of Home Assistant.
AccountInit ==
    /\ entry = Fresh /\ wanted = Fresh
    /\ ha \in {"none", "retry"} /\ setup = "off" /\ coord = NoCoordinator
    /\ listener = FALSE /\ reload = FALSE /\ form = Closed
    /\ exposed = {} /\ alive = 0 /\ late = 0 /\ edits = 0
    /\ missed = FALSE /\ owed = FALSE /\ refusal = FALSE

SetupStep ==
    \/ \E cloud \in Region : Detect(cloud)
    \/ DetectFails
    \/ \E listed \in SUBSET Device, status \in BOOLEAN :
          \/ Discover(listed, status)
          \/ \E login \in BOOLEAN : Fallback(login, listed, status)
    \/ SslRefused \/ Connected \/ LateFailure \/ Store \/ Forward \/ SetupEnd

FlowStep ==
    \/ \E p \in Password : EnterPassword("relogin", p) \/ EnterPassword("reauth", p)
    \/ \E listed, custom \in SUBSET Device, groups \in SUBSET Group :
          \/ SubmitDevices(listed, groups, custom)
          \/ \E p \in Password : Create(p, listed, groups, custom)
    \/ \E m \in Mode : SubmitOption(m)
    \/ ReloadProfiles \/ PasswordRejected
    \/ \E cloud \in Region : Relogin(cloud) \/ Reauth(cloud)

AccountNext ==
    \/ SetupStep \/ FlowStep
    \/ Retry \/ ReloadFailed \/ UnloadStart \/ UnloadEnd \/ Restart

\* Every await of a set-up has a timeout, and Home Assistant serves reloads and retries.
AccountFairness ==
    /\ WF_accountVars(SetupStep) /\ WF_accountVars(UnloadStart) /\ WF_accountVars(UnloadEnd)
    /\ WF_accountVars(ReloadFailed) /\ WF_accountVars(Retry)

AccountSpec == AccountInit /\ [][AccountNext]_accountVars /\ AccountFairness

-----------------------------------------------------------------------------
(* Properties *)

Settled == ha = "loaded" /\ ~reload /\ ~missed

(***************************************************************************)
(* A loaded entry runs with what it stores: password, options and selected *)
(* devices.  Left out are the changes stored while a set-up was running,   *)
(* before its listener existed: those wait for the next reload.            *)
(***************************************************************************)
LoadedRunsLatest ==
    Settled => /\ coord.password = entry.password /\ coord.mode = entry.mode
               /\ exposed = SelectedIds(entry, coord.devices)

(***************************************************************************)
(* What the user last submitted stays stored, whatever set-ups and flows   *)
(* interleave: nobody writes back a copy of the entry read before an       *)
(* await.  Only ids of unlisted devices may go.                            *)
(***************************************************************************)
SubmittedIsStored ==
    /\ entry.password = wanted.password /\ entry.mode = wanted.mode
    /\ entry.picked = wanted.picked /\ entry.groups = wanted.groups
    /\ entry.ids \subseteq wanted.ids

(***************************************************************************)
(* Who chose a whole group has every listed device of it, also after an    *)
(* incomplete table made a set-up forget their ids.                        *)
(***************************************************************************)
WholeGroupsReturn ==
    Settled => \A d \in coord.devices : GroupOf[d] \in wanted.groups => d \in exposed

\* Reloads leave no coordinator behind, except those of set-ups that failed late.
OneLiveCoordinator == alive = late + (IF coord.live /\ ha \in {"setup", "loaded", "unloading"} THEN 1 ELSE 0)

\* An accepted re-authentication is followed by a new set-up.
ReauthRestarts == owed ~> ~owed

(***************************************************************************)
(* "凭据失效时由 Home Assistant 自动触发" (config_flow.py): the user is asked for a    *)
(* password only after the server refused the stored one.                  *)
(***************************************************************************)
ReauthOnlyWhenRefused == ha = "auth_error" => refusal

=============================================================================
