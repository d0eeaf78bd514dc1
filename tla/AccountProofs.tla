---------------------------- MODULE AccountProofs ----------------------------
(***************************************************************************)
(* Proofs about an account: what the user submitted stays stored, a loaded *)
(* entry runs with it, whole groups come back, and no reload leaves a      *)
(* coordinator behind; for any devices, groups, passwords and partition.   *)
(* And about its cloud session: the flag promises a stream, for any tasks, *)
(* streams and limits and stacks of calls of any depth; and when no call   *)
(* expires and no write is lost late, it is never left unsupervised.       *)
(***************************************************************************)
EXTENDS Account, SslSession, SequenceTheorems, TLAPS

\* The steps of a set-up before and after its sessions are opened.
Before == {"detect", "discover", "fallback", "ssl"}
After == {"store", "forward", "end"}

\* A set-up has no listener, a loaded entry has one; sessions are opened by
\* the step between Before and After.
Phases ==
    /\ ha = "setup" <=> setup # "off"
    /\ ha = "setup" => ~listener
    /\ ha = "loaded" => listener
    /\ setup \in Before => ~coord.live
    /\ setup \in After => coord.live

\* What a set-up has read is what the entry holds, unless a change since then
\* is on record, as missed or as a reload to come.
ReadIsLatest ==
    (ha = "setup" \/ (ha = "loaded" /\ ~reload)) /\ ~missed =>
        coord.password = entry.password /\ coord.mode = entry.mode

\* The same for the entities it made.
ExposedIsSelected ==
    (setup = "end" \/ (ha = "loaded" /\ ~reload)) /\ ~missed =>
        exposed = SelectedIds(entry, coord.devices)

\* The inductive invariant.
AccountInv ==
    /\ AccountTypeOK /\ Phases /\ ReadIsLatest /\ ExposedIsSelected
    /\ SubmittedIsStored /\ OneLiveCoordinator

-----------------------------------------------------------------------------
\* The values the operations start from are well formed.
LEMMA Defaults ==
    /\ Closed \in Form /\ NoCoordinator \in Coordinator /\ Fresh \in Entry
    /\ NoCoordinator.live = FALSE
    /\ \A r \in Region : Other(r) \in Region
<1>1. PICK p \in Password : p = CHOOSE q \in Password : TRUE
  BY AccountAssumption
<1>2. Closed \in Form /\ Closed.password \in Password
  BY <1>1 DEF Closed, Form
<1>3. NoCoordinator \in Coordinator /\ NoCoordinator.live = FALSE
  BY <1>2 DEF NoCoordinator, Coordinator, Mode, Region
<1>4. Fresh \in Entry
  BY <1>2 DEF Fresh, Entry, Mode, Region
<1>5. ASSUME NEW r \in Region PROVE Other(r) \in Region
  <2>1. \E q \in Region : q # r
    BY DEF Region
  <2> QED BY <2>1 DEF Other
<1> QED BY <1>2, <1>3, <1>4, <1>5

\* Selection: what is selected is available, and the plan only lists devices.
LEMMA SelectionTypes ==
    /\ \A e \in Entry, available \in SUBSET Device :
          /\ SelectedIds(e, available) \subseteq available
          /\ Cleaned(e, available) \in Entry
          /\ Cleaned(e, available).ids \subseteq e.ids
          /\ Cleaned(e, available).region = e.region
          /\ Cleaned(e, available).password = e.password
          /\ Cleaned(e, available).mode = e.mode
          /\ Cleaned(e, available).picked = e.picked
          /\ Cleaned(e, available).groups = e.groups
    /\ \A listed, custom \in SUBSET Device, groups \in SUBSET Group :
          /\ Plan(listed, groups, custom) \in SUBSET Device
          /\ Shown(listed, groups) \in SUBSET Group
<1>1. ASSUME NEW e \in Entry, NEW available \in SUBSET Device
      PROVE  /\ SelectedIds(e, available) \subseteq available
             /\ Cleaned(e, available) \in Entry
             /\ Cleaned(e, available).ids \subseteq e.ids
             /\ Cleaned(e, available).region = e.region
             /\ Cleaned(e, available).password = e.password
             /\ Cleaned(e, available).mode = e.mode
             /\ Cleaned(e, available).picked = e.picked
             /\ Cleaned(e, available).groups = e.groups
  <2>1. SelectedIds(e, available) \subseteq available
    BY DEF SelectedIds
  <2>2. CASE e.picked
    BY <2>1, <2>2 DEF Cleaned, Entry
  <2>3. CASE ~e.picked
    BY <2>1, <2>3 DEF Cleaned
  <2> QED BY <2>2, <2>3
<1>2. \A listed, custom \in SUBSET Device, groups \in SUBSET Group :
          /\ Plan(listed, groups, custom) \in SUBSET Device
          /\ Shown(listed, groups) \in SUBSET Group
  BY DEF Plan, Shown
<1> QED BY <1>1, <1>2

\* The ranges of the counters.
LEMMA Bounds ==
    /\ MaxLate \in Nat /\ 0 \in 0 .. MaxLate /\ 0 \in 0 .. MaxEdits
    /\ \A n \in 0 .. MaxLate : n \in Nat /\ n \in 0 .. MaxLate + 1 /\ n + 0 = n
BY AccountAssumption

\* Nothing is set up and nothing was submitted.
LEMMA InitAccount == AccountInit => AccountInv
<1> SUFFICES ASSUME AccountInit PROVE AccountInv
  OBVIOUS
<1>1. AccountTypeOK
  BY Defaults, Bounds DEF AccountInit, AccountTypeOK
<1>2. Phases /\ ReadIsLatest /\ ExposedIsSelected
  BY DEF AccountInit, Phases, ReadIsLatest, ExposedIsSelected, Before, After
<1>3. SubmittedIsStored /\ OneLiveCoordinator
  BY Defaults DEF AccountInit, SubmittedIsStored, OneLiveCoordinator
<1> QED BY <1>1, <1>2, <1>3 DEF AccountInv

-----------------------------------------------------------------------------
(* The shapes of a step *)

\* A set-up that starts has read the entry as it is.
LEMMA StartsAccount ==
    ASSUME AccountInv, Starts, UNCHANGED <<entry, wanted, edits>>,
           reload' \in BOOLEAN, form' \in Form, late' \in 0 .. MaxLate, alive' = late'
    PROVE  AccountInv'
<1>0. AccountTypeOK /\ SubmittedIsStored /\ entry \in Entry
  BY DEF AccountInv, AccountTypeOK
<1>1. /\ coord' \in Coordinator /\ coord'.live = FALSE
      /\ coord'.password = entry.password /\ coord'.mode = entry.mode
  BY <1>0 DEF Starts, Entry, Coordinator
<1>2. ha' = "setup" /\ setup' = "detect" /\ listener' = FALSE /\ exposed' = {}
      /\ missed' = FALSE /\ owed' = FALSE /\ refusal' = FALSE
  BY DEF Starts
<1>3. AccountTypeOK'
  BY <1>0, <1>1, <1>2, Bounds DEF AccountTypeOK
<1>4. Phases' /\ ReadIsLatest' /\ ExposedIsSelected'
  BY <1>1, <1>2 DEF Phases, ReadIsLatest, ExposedIsSelected, Before, After
<1>5. SubmittedIsStored'
  BY <1>0 DEF SubmittedIsStored
<1>6. OneLiveCoordinator'
  BY <1>1, <1>2, Bounds DEF OneLiveCoordinator
<1> QED BY <1>3, <1>4, <1>5, <1>6 DEF AccountInv

\* A set-up that fails leaves its sessions open only when it is late.
LEMMA FailsAccount ==
    ASSUME AccountInv, NEW state \in {"retry", "auth_error"}, Fails(state),
           late' \in 0 .. MaxLate, alive = late', refusal' \in BOOLEAN
    PROVE  AccountInv'
<1>0. AccountTypeOK /\ SubmittedIsStored
  BY DEF AccountInv
<1>1. /\ ha' = state /\ setup' = "off" /\ coord' = NoCoordinator
      /\ UNCHANGED <<entry, listener, reload, form, exposed, alive, wanted, missed, owed, edits>>
  BY DEF Fails
<1>2. AccountTypeOK'
  BY <1>0, <1>1, Defaults DEF AccountTypeOK
<1>3. Phases' /\ ReadIsLatest' /\ ExposedIsSelected'
  BY <1>1 DEF Phases, ReadIsLatest, ExposedIsSelected, Before, After
<1>4. SubmittedIsStored'
  BY <1>0, <1>1 DEF SubmittedIsStored
<1>5. OneLiveCoordinator'
  BY <1>1, Bounds DEF OneLiveCoordinator
<1> QED BY <1>2, <1>3, <1>4, <1>5 DEF AccountInv

\* A flow stores what the user submitted; the change is recorded where a
\* set-up has read the entry already.
LEMMA EditAccount ==
    ASSUME AccountInv, NEW e \in Entry, NEW w \in Entry, entry' = e, wanted' = w,
           e.password = w.password, e.mode = w.mode, e.picked = w.picked,
           e.groups = w.groups, e.ids \subseteq w.ids,
           reload' \in BOOLEAN, missed' \in BOOLEAN, reload => reload', missed => missed',
           e # entry => (listener => reload') /\ (~listener /\ ha = "setup" => missed'),
           form' \in Form, owed' \in BOOLEAN, edits' \in 0 .. MaxEdits,
           UNCHANGED <<ha, setup, coord, listener, exposed, alive, late, refusal>>
    PROVE  AccountInv'
<1>0. /\ AccountTypeOK /\ Phases /\ ReadIsLatest /\ ExposedIsSelected /\ OneLiveCoordinator
  BY DEF AccountInv
<1>1. AccountTypeOK'
  BY <1>0 DEF AccountTypeOK
<1>2. Phases'
  BY <1>0 DEF Phases
<1>3. ReadIsLatest'
  BY <1>0 DEF ReadIsLatest, Phases
<1>4. ExposedIsSelected'
  BY <1>0 DEF ExposedIsSelected, Phases
<1>5. SubmittedIsStored' /\ OneLiveCoordinator'
  BY <1>0 DEF SubmittedIsStored, OneLiveCoordinator
<1> QED BY <1>1, <1>2, <1>3, <1>4, <1>5 DEF AccountInv

-----------------------------------------------------------------------------
(* The operations *)

\* What Home Assistant does with the entry.
LEMMA HostAccount ==
    ASSUME AccountInv, Retry \/ ReloadFailed \/ UnloadStart \/ UnloadEnd \/ Restart
    PROVE  AccountInv'
<1>0. /\ AccountTypeOK /\ Phases /\ ReadIsLatest /\ ExposedIsSelected
      /\ SubmittedIsStored /\ OneLiveCoordinator
  BY DEF AccountInv
<1>1. /\ reload \in BOOLEAN /\ form \in Form /\ late \in 0 .. MaxLate /\ late \in Nat
      /\ alive \in Nat /\ coord.live \in BOOLEAN
  BY <1>0, AccountAssumption DEF AccountTypeOK, Coordinator
<1>2. CASE Retry \/ ReloadFailed
  <2>1. alive = late
    BY <1>0, <1>1, <1>2 DEF OneLiveCoordinator, Retry, ReloadFailed
  <2> QED BY <1>1, <1>2, <2>1, StartsAccount DEF Retry, ReloadFailed
<1>3. CASE UnloadStart
  <2>1. /\ reload /\ ha = "loaded" /\ ha' = "unloading" /\ exposed' = {} /\ reload' = FALSE
        /\ UNCHANGED <<entry, setup, coord, listener, form, alive, late, wanted, missed,
                       owed, refusal, edits>>
    BY <1>3 DEF UnloadStart
  <2>2. AccountTypeOK' /\ SubmittedIsStored' /\ OneLiveCoordinator'
    BY <1>0, <2>1 DEF AccountTypeOK, SubmittedIsStored, OneLiveCoordinator
  <2>3. Phases' /\ ReadIsLatest' /\ ExposedIsSelected'
    BY <1>0, <2>1 DEF Phases, ReadIsLatest, ExposedIsSelected, Before, After
  <2> QED BY <2>2, <2>3 DEF AccountInv
<1>4. CASE UnloadEnd
  <2>1. /\ ha = "unloading" /\ Starts /\ alive' = alive - (IF coord.live THEN 1 ELSE 0)
        /\ UNCHANGED <<entry, reload, form, late, wanted, edits>>
    BY <1>4 DEF UnloadEnd
  <2>2. alive' = late'
    BY <1>0, <1>1, <2>1 DEF OneLiveCoordinator
  <2> QED BY <1>1, <2>1, <2>2, StartsAccount
<1>5. CASE Restart
  <2>1. /\ Starts /\ reload' = FALSE /\ alive' = 0 /\ late' = 0 /\ form' = Closed
        /\ UNCHANGED <<entry, wanted, edits>>
    BY <1>5 DEF Restart
  <2> QED BY <2>1, Defaults, Bounds, StartsAccount
<1> QED BY <1>2, <1>3, <1>4, <1>5

\* The steps of a set-up.
LEMMA SetupAccount ==
    ASSUME AccountInv, SetupStep
    PROVE  AccountInv'
<1>0. /\ AccountTypeOK /\ Phases /\ ReadIsLatest /\ ExposedIsSelected
      /\ SubmittedIsStored /\ OneLiveCoordinator
  BY DEF AccountInv
<1>1. /\ late \in 0 .. MaxLate /\ late \in Nat /\ alive \in Nat
      /\ coord \in Coordinator /\ entry \in Entry /\ refusal \in BOOLEAN
      /\ coord.devices \in SUBSET Device /\ coord.cloud \in Region
  BY <1>0, AccountAssumption DEF AccountTypeOK, Coordinator
<1>2. \A step \in Before : Setting(step) => alive = late /\ ~coord.live
  BY <1>0, <1>1 DEF Setting, Phases, OneLiveCoordinator
<1>s. \A step \in {"detect", "discover", "fallback", "ssl"} : step \in Before
  BY DEF Before
\* A step on the way that reads nothing of the entry.
<1>w. ASSUME ha = "setup", setup' # "off", UNCHANGED <<entry, ha, listener, reload, form,
                 exposed, alive, late, wanted, missed, owed, refusal, edits>>,
             coord' \in Coordinator, coord'.live = coord.live, setup' \in Before,
             setup \in Before,
             coord'.password = coord.password, coord'.mode = coord.mode
      PROVE  AccountInv'
  <2>1. AccountTypeOK'
    BY <1>0, <1>w DEF AccountTypeOK, Before
  <2>2. Phases' /\ ReadIsLatest' /\ ExposedIsSelected'
    BY <1>0, <1>w DEF Phases, ReadIsLatest, ExposedIsSelected, Before, After
  <2>3. SubmittedIsStored' /\ OneLiveCoordinator'
    BY <1>0, <1>w DEF SubmittedIsStored, OneLiveCoordinator
  <2> QED BY <2>1, <2>2, <2>3 DEF AccountInv
<1>3. ASSUME NEW cloud \in Region, Detect(cloud)
      PROVE  AccountInv'
  <2>1. /\ ha = "setup" /\ setup = "detect" /\ setup' = "discover"
        /\ coord' = [coord EXCEPT !.cloud = cloud]
        /\ UNCHANGED <<entry, ha, listener, reload, form, exposed, alive, late,
                       wanted, missed, owed, refusal, edits>>
    BY <1>3 DEF Detect, Setting
  <2>2. /\ coord' \in Coordinator /\ coord'.live = coord.live
        /\ coord'.password = coord.password /\ coord'.mode = coord.mode
    BY <1>1, <2>1 DEF Coordinator
  <2> QED BY <1>w, <2>1, <2>2 DEF Before
<1>4. CASE DetectFails
  BY <1>1, <1>2, <1>s, <1>4, FailsAccount DEF DetectFails
<1>5. ASSUME NEW listed \in SUBSET Device, NEW status \in BOOLEAN, Discover(listed, status)
      PROVE  AccountInv'
  <2>1. /\ ha = "setup" /\ setup = "discover" /\ setup' \in {"fallback", "ssl"}
        /\ coord' = [coord EXCEPT !.devices = listed, !.status = status /\ listed = {}]
        /\ UNCHANGED <<entry, ha, listener, reload, form, exposed, alive, late,
                       wanted, missed, owed, refusal, edits>>
    BY <1>5 DEF Discover, Setting
  <2>2. /\ coord' \in Coordinator /\ coord'.live = coord.live
        /\ coord'.password = coord.password /\ coord'.mode = coord.mode
    BY <1>1, <2>1 DEF Coordinator
  <2> QED BY <1>w, <2>1, <2>2 DEF Before
<1>6. ASSUME NEW ok \in BOOLEAN, NEW listed \in SUBSET Device, NEW status \in BOOLEAN,
             Fallback(ok, listed, status)
      PROVE  AccountInv'
  <2>1. CASE Fails("retry") /\ UNCHANGED <<late, refusal>>
    <3>1. Setting("fallback")
      BY <1>6 DEF Fallback
    <3> QED BY <1>1, <1>2, <1>s, <2>1, <3>1, FailsAccount
  <2>2. CASE ~(Fails("retry") /\ UNCHANGED <<late, refusal>>)
    <3>1. /\ ha = "setup" /\ setup = "fallback" /\ setup' = "ssl"
          /\ coord' = [coord EXCEPT !.cloud = Other(coord.cloud), !.devices = listed,
                                    !.status = FALSE]
          /\ UNCHANGED <<entry, ha, listener, reload, form, exposed, alive, late,
                         wanted, missed, owed, refusal, edits>>
      BY <1>6, <2>2 DEF Fallback, Setting
    <3>2. Other(coord.cloud) \in Region
      BY <1>1, Defaults
    <3>3. /\ coord' \in Coordinator /\ coord'.live = coord.live
          /\ coord'.password = coord.password /\ coord'.mode = coord.mode
      BY <1>1, <3>1, <3>2 DEF Coordinator
    <3> QED BY <1>w, <3>1, <3>3 DEF Before
  <2> QED BY <2>1, <2>2
<1>7. CASE SslRefused
  BY <1>1, <1>2, <1>s, <1>7, FailsAccount DEF SslRefused
<1>8. CASE Connected
  <2>1. /\ ha = "setup" /\ setup = "ssl" /\ setup' = "store"
        /\ coord' = [coord EXCEPT !.live = TRUE] /\ alive' = alive + 1
        /\ UNCHANGED <<entry, ha, listener, reload, form, exposed, late, wanted, missed,
                       owed, refusal, edits>>
    BY <1>8 DEF Connected, Setting
  <2>2. /\ coord' \in Coordinator /\ coord'.live = TRUE
        /\ coord'.password = coord.password /\ coord'.mode = coord.mode
    BY <1>1, <2>1 DEF Coordinator
  <2>3. alive = late
    BY <1>2, <1>s, <2>1 DEF Setting
  <2>4. OneLiveCoordinator'
    BY <1>1, <2>1, <2>2, <2>3 DEF OneLiveCoordinator
  <2>5. AccountTypeOK'
    BY <1>0, <1>1, <2>1, <2>2, <2>3, AccountAssumption DEF AccountTypeOK
  <2>6. Phases' /\ ReadIsLatest' /\ ExposedIsSelected' /\ SubmittedIsStored'
    BY <1>0, <2>1, <2>2
       DEF Phases, ReadIsLatest, ExposedIsSelected, SubmittedIsStored, Before, After
  <2> QED BY <2>4, <2>5, <2>6 DEF AccountInv
<1>9. CASE LateFailure
  <2>1. Setting("store") /\ late < MaxLate /\ Fails("retry") /\ late' = late + 1
        /\ refusal' = refusal
    BY <1>9 DEF LateFailure
  <2>2. alive = late + 1
    BY <1>0, <1>1, <2>1 DEF Setting, Phases, After, OneLiveCoordinator
  <2>3. late' \in 0 .. MaxLate
    BY <1>1, <2>1, AccountAssumption
  <2> QED BY <1>1, <2>1, <2>2, <2>3, FailsAccount
<1>10. CASE Store
  <2> DEFINE cleaned == Cleaned(entry, coord.devices)
  <2>1. /\ ha = "setup" /\ setup = "store" /\ setup' = "forward"
        /\ entry' = [cleaned EXCEPT !.region = coord.cloud]
        /\ UNCHANGED <<ha, coord, listener, reload, form, exposed, alive, late,
                       wanted, missed, owed, refusal, edits>>
    BY <1>10 DEF Store, Setting
  <2>2. /\ cleaned \in Entry /\ cleaned.ids \subseteq entry.ids
        /\ cleaned.password = entry.password /\ cleaned.mode = entry.mode
        /\ cleaned.picked = entry.picked /\ cleaned.groups = entry.groups
    BY <1>1, SelectionTypes
  <2> HIDE DEF cleaned
  <2>3. /\ entry' \in Entry /\ entry'.ids \subseteq entry.ids
        /\ entry'.password = entry.password /\ entry'.mode = entry.mode
        /\ entry'.picked = entry.picked /\ entry'.groups = entry.groups
    BY <1>1, <2>1, <2>2 DEF Entry
  <2>4. AccountTypeOK' /\ SubmittedIsStored' /\ OneLiveCoordinator'
    BY <1>0, <2>1, <2>3 DEF AccountTypeOK, SubmittedIsStored, OneLiveCoordinator
  <2>5. Phases' /\ ReadIsLatest' /\ ExposedIsSelected'
    BY <1>0, <2>1, <2>3 DEF Phases, ReadIsLatest, ExposedIsSelected, Before, After
  <2> QED BY <2>4, <2>5 DEF AccountInv
<1>11. CASE Forward
  <2>1. /\ ha = "setup" /\ setup = "forward" /\ setup' = "end"
        /\ exposed' = SelectedIds(entry, coord.devices)
        /\ UNCHANGED <<entry, ha, coord, listener, reload, form, alive, late, wanted,
                       missed, owed, refusal, edits>>
    BY <1>11 DEF Forward, Setting
  <2>2. exposed' \subseteq Device
    <3>1. SelectedIds(entry, coord.devices) \subseteq coord.devices
      BY <1>1, SelectionTypes
    <3> QED BY <1>1, <2>1, <3>1
  <2>3. AccountTypeOK' /\ SubmittedIsStored' /\ OneLiveCoordinator'
    BY <1>0, <2>1, <2>2 DEF AccountTypeOK, SubmittedIsStored, OneLiveCoordinator
  <2>4. Phases' /\ ReadIsLatest'
    BY <1>0, <2>1 DEF Phases, ReadIsLatest, Before, After
  <2>5. SelectedIds(entry, coord.devices)' = SelectedIds(entry, coord.devices)
    BY <2>1 DEF SelectedIds
  <2>6. ExposedIsSelected'
    BY <2>1, <2>5 DEF ExposedIsSelected
  <2> QED BY <2>3, <2>4, <2>6 DEF AccountInv
<1>12. CASE SetupEnd
  <2>1. /\ ha = "setup" /\ setup = "end" /\ ha' = "loaded" /\ setup' = "off" /\ listener' = TRUE
        /\ UNCHANGED <<entry, coord, reload, form, exposed, alive, late, wanted,
                       missed, owed, refusal, edits>>
    BY <1>12 DEF SetupEnd, Setting
  <2>2. AccountTypeOK' /\ SubmittedIsStored' /\ OneLiveCoordinator'
    BY <1>0, <2>1 DEF AccountTypeOK, SubmittedIsStored, OneLiveCoordinator
  <2>3. Phases' /\ ReadIsLatest'
    BY <1>0, <2>1 DEF Phases, ReadIsLatest, Before, After
  <2>4. SelectedIds(entry, coord.devices)' = SelectedIds(entry, coord.devices)
    BY <2>1 DEF SelectedIds
  <2>5. ExposedIsSelected'
    BY <1>0, <2>1, <2>4 DEF ExposedIsSelected
  <2> QED BY <2>2, <2>3, <2>5 DEF AccountInv
<1> QED BY <1>3, <1>4, <1>5, <1>6, <1>7, <1>8, <1>9, <1>10, <1>11, <1>12 DEF SetupStep

\* The flows.
LEMMA FlowAccount ==
    ASSUME AccountInv, FlowStep
    PROVE  AccountInv'
<1>0. /\ AccountTypeOK /\ Phases /\ ReadIsLatest /\ ExposedIsSelected
      /\ SubmittedIsStored /\ OneLiveCoordinator
  BY DEF AccountInv
<1>1. /\ entry \in Entry /\ wanted \in Entry /\ form \in Form /\ form.password \in Password
      /\ edits \in 0 .. MaxEdits /\ owed \in BOOLEAN /\ reload \in BOOLEAN /\ missed \in BOOLEAN
  BY <1>0 DEF AccountTypeOK, Form
<1>2. /\ entry.password = wanted.password /\ entry.mode = wanted.mode
      /\ entry.picked = wanted.picked /\ entry.groups = wanted.groups
      /\ entry.ids \subseteq wanted.ids
  BY <1>0 DEF SubmittedIsStored
<1>e. ASSUME NEW w, Submitted(w) PROVE wanted' = w /\ edits' \in 0 .. MaxEdits
  BY <1>1, <1>e, AccountAssumption DEF Submitted
<1>u. ASSUME NEW e, Update(e)
      PROVE  /\ entry' = e /\ reload' \in BOOLEAN /\ missed' \in BOOLEAN
             /\ (reload => reload') /\ (missed => missed')
             /\ e # entry => (listener => reload') /\ (~listener /\ ha = "setup" => missed')
  BY <1>u DEF Update
\* The flow's own form, or a reload it asks for.
<1>3. ASSUME form' \in Form, reload' \in BOOLEAN, reload => reload',
             UNCHANGED <<entry, ha, setup, coord, listener, exposed, alive, late, wanted,
                         missed, owed, refusal, edits>>
      PROVE  AccountInv'
  BY <1>1, <1>2, <1>3, EditAccount
<1>4. ASSUME NEW f \in {"relogin", "reauth"}, NEW p \in Password, EnterPassword(f, p)
      PROVE  AccountInv'
  <2>1. form' \in Form
    BY <1>4 DEF EnterPassword, Form
  <2> QED BY <1>1, <1>3, <1>4, <2>1 DEF EnterPassword
<1>5. CASE PasswordRejected
  BY <1>1, <1>3, <1>5, Defaults DEF PasswordRejected
<1>6. CASE ReloadProfiles
  BY <1>1, <1>3, <1>6 DEF ReloadProfiles
<1>7. ASSUME NEW listed \in SUBSET Device, NEW custom \in SUBSET Device,
             NEW groups \in SUBSET Group, SubmitDevices(listed, groups, custom)
      PROVE  AccountInv'
  <2> DEFINE ids == Plan(listed, groups, custom)
             shown == Shown(listed, groups)
             e == [entry EXCEPT !.picked = TRUE, !.ids = ids, !.groups = shown]
             w == [wanted EXCEPT !.picked = TRUE, !.ids = ids, !.groups = shown]
  <2>1. ids \in SUBSET Device /\ shown \in SUBSET Group
    BY SelectionTypes
  <2>2. /\ Update(e) /\ Submitted(w)
        /\ UNCHANGED <<ha, setup, coord, listener, form, exposed, alive, late, owed, refusal>>
    BY <1>7 DEF SubmitDevices
  <2> HIDE DEF ids, shown
  <2>3. /\ e \in Entry /\ w \in Entry
        /\ e.password = w.password /\ e.mode = w.mode /\ e.picked = w.picked
        /\ e.groups = w.groups /\ e.ids \subseteq w.ids
    BY <1>1, <1>2, <2>1 DEF Entry
  <2> HIDE DEF e, w
  <2>4. /\ entry' = e /\ reload' \in BOOLEAN /\ missed' \in BOOLEAN
        /\ (reload => reload') /\ (missed => missed')
        /\ e # entry => (listener => reload') /\ (~listener /\ ha = "setup" => missed')
    BY <1>u, <2>2
  <2>5. wanted' = w /\ edits' \in 0 .. MaxEdits
    BY <1>e, <2>2
  <2>6. owed' \in BOOLEAN /\ form' \in Form
    BY <1>1, <2>2
  <2> QED BY <2>2, <2>3, <2>4, <2>5, <2>6, EditAccount
<1>8. ASSUME NEW m \in Mode, SubmitOption(m)
      PROVE  AccountInv'
  <2> DEFINE e == [entry EXCEPT !.mode = m]
             w == [wanted EXCEPT !.mode = m]
  <2>1. /\ Update(e) /\ Submitted(w)
        /\ UNCHANGED <<ha, setup, coord, listener, form, exposed, alive, late, owed, refusal>>
    BY <1>8 DEF SubmitOption
  <2>2. /\ e \in Entry /\ w \in Entry
        /\ e.password = w.password /\ e.mode = w.mode /\ e.picked = w.picked
        /\ e.groups = w.groups /\ e.ids \subseteq w.ids
    BY <1>1, <1>2 DEF Entry
  <2> HIDE DEF e, w
  <2>3. /\ entry' = e /\ reload' \in BOOLEAN /\ missed' \in BOOLEAN
        /\ (reload => reload') /\ (missed => missed')
        /\ e # entry => (listener => reload') /\ (~listener /\ ha = "setup" => missed')
    BY <1>u, <2>1
  <2>4. wanted' = w /\ edits' \in 0 .. MaxEdits
    BY <1>e, <2>1
  <2>5. owed' \in BOOLEAN /\ form' \in Form
    BY <1>1, <2>1
  <2> QED BY <2>1, <2>2, <2>3, <2>4, <2>5, EditAccount
<1>9. ASSUME NEW cloud \in Region, Relogin(cloud) \/ Reauth(cloud)
      PROVE  AccountInv'
  <2> DEFINE e == Validated(cloud)
             w == [wanted EXCEPT !.password = form.password]
  <2>1. /\ e \in Entry /\ w \in Entry
        /\ e.password = w.password /\ e.mode = w.mode /\ e.picked = w.picked
        /\ e.groups = w.groups /\ e.ids \subseteq w.ids
    BY <1>1, <1>2 DEF Entry, Validated
  <2>2. /\ form' = Closed /\ Submitted(w)
        /\ UNCHANGED <<ha, setup, coord, listener, exposed, alive, late, refusal>>
    BY <1>9 DEF Relogin, Reauth, Accepted
  <2>3. CASE Relogin(cloud)
    <3>1. Update(e) /\ owed' = owed
      BY <2>3 DEF Relogin
    <3> HIDE DEF e, w
    <3>2. /\ entry' = e /\ reload' \in BOOLEAN /\ missed' \in BOOLEAN
          /\ (reload => reload') /\ (missed => missed')
          /\ e # entry => (listener => reload') /\ (~listener /\ ha = "setup" => missed')
      BY <1>u, <3>1
    <3>3. wanted' = w /\ edits' \in 0 .. MaxEdits
      BY <1>e, <2>2
    <3>4. owed' \in BOOLEAN /\ form' \in Form
      BY <1>1, <2>2, <3>1, Defaults
    <3> QED BY <2>1, <2>2, <3>2, <3>3, <3>4, EditAccount
  <2>4. CASE Reauth(cloud)
    <3>1. /\ entry' = e /\ reload' = TRUE /\ owed' = TRUE
          /\ missed' = (missed \/ (e # entry /\ ~listener /\ ha = "setup"))
      BY <2>4 DEF Reauth
    <3> HIDE DEF e, w
    <3>2. /\ missed' \in BOOLEAN /\ missed => missed'
          /\ e # entry => (listener => reload') /\ (~listener /\ ha = "setup" => missed')
          /\ reload' \in BOOLEAN /\ owed' \in BOOLEAN /\ reload => reload'
      BY <3>1
    <3> QED BY <1>e, <2>1, <2>2, <3>1, <3>2, Defaults, EditAccount
  <2> QED BY <1>9, <2>3, <2>4
<1>10. ASSUME NEW p \in Password, NEW listed \in SUBSET Device, NEW custom \in SUBSET Device,
              NEW groups \in SUBSET Group, Create(p, listed, groups, custom)
       PROVE  AccountInv'
  <2> DEFINE ids == Plan(listed, groups, custom)
             shown == Shown(listed, groups)
             e == [region |-> Home, password |-> p, mode |-> "auto", picked |-> TRUE,
                   ids |-> ids, groups |-> shown]
  <2>1. ids \in SUBSET Device /\ shown \in SUBSET Group
    BY SelectionTypes
  <2>2. /\ ha = "none" /\ Submitted(e) /\ entry' = e /\ ha' = "retry"
        /\ UNCHANGED <<setup, coord, listener, reload, form, exposed, alive, late, missed,
                       owed, refusal>>
    BY <1>10 DEF Create
  <2> HIDE DEF ids, shown
  <2>3. e \in Entry
    BY <2>1, AccountAssumption DEF Entry, Region, Mode
  <2> HIDE DEF e
  <2>4. AccountTypeOK'
    BY <1>0, <1>e, <2>2, <2>3 DEF AccountTypeOK
  <2>5. SubmittedIsStored'
    BY <1>e, <2>2 DEF SubmittedIsStored
  <2>6. Phases' /\ ReadIsLatest' /\ ExposedIsSelected' /\ OneLiveCoordinator'
    BY <1>0, <2>2 DEF Phases, ReadIsLatest, ExposedIsSelected, OneLiveCoordinator, Before, After
  <2> QED BY <2>4, <2>5, <2>6 DEF AccountInv
<1> QED BY <1>4, <1>5, <1>6, <1>7, <1>8, <1>9, <1>10 DEF FlowStep

\* Every step keeps the invariant.
LEMMA NextAccount == AccountInv /\ [AccountNext]_accountVars => AccountInv'
<1> SUFFICES ASSUME AccountInv, [AccountNext]_accountVars PROVE AccountInv'
  OBVIOUS
<1>1. CASE UNCHANGED accountVars
  <2>1. AccountTypeOK' /\ Phases' /\ ReadIsLatest' /\ SubmittedIsStored' /\ OneLiveCoordinator'
    BY <1>1 DEF accountVars, AccountInv, AccountTypeOK, Phases, ReadIsLatest,
                SubmittedIsStored, OneLiveCoordinator
  <2>2. ExposedIsSelected'
    BY <1>1 DEF accountVars, AccountInv, ExposedIsSelected, SelectedIds
  <2> QED BY <2>1, <2>2 DEF AccountInv
<1> QED BY <1>1, HostAccount, SetupAccount, FlowAccount DEF AccountNext

\* The inductive invariant holds in every behaviour of the account.
LEMMA AccountInvariant == AccountSpec => []AccountInv
BY InitAccount, NextAccount, PTL DEF AccountSpec

-----------------------------------------------------------------------------
(* Theorems *)

(***************************************************************************)
(* What the user submitted last stays stored, whatever flows, set-ups,     *)
(* reloads and restarts interleave (Store of async_setup_entry and every   *)
(* flow start from the entry as it is, not from a copy).                   *)
(***************************************************************************)
THEOREM SubmissionsKept == AccountSpec => []SubmittedIsStored
<1>1. AccountInv => SubmittedIsStored
  BY DEF AccountInv
<1> QED BY <1>1, AccountInvariant, PTL

\* A loaded entry runs with what it stores.
THEOREM RunsLatest == AccountSpec => []LoadedRunsLatest
<1>1. AccountInv => LoadedRunsLatest
  BY DEF AccountInv, ReadIsLatest, ExposedIsSelected, LoadedRunsLatest, Settled
<1> QED BY <1>1, AccountInvariant, PTL

(***************************************************************************)
(* Every listed device of a chosen group has its entities, although Store  *)
(* drops the ids of devices that an incomplete table left out: the groups  *)
(* are kept and selected_device_ids reads both.                            *)
(***************************************************************************)
THEOREM GroupsReturn == AccountSpec => []WholeGroupsReturn
<1>1. ASSUME AccountInv PROVE WholeGroupsReturn
  <2> SUFFICES ASSUME Settled, NEW d \in coord.devices, GroupOf[d] \in wanted.groups
               PROVE  d \in exposed
    BY DEF WholeGroupsReturn
  <2>1. coord.devices \subseteq Device
    BY <1>1 DEF AccountInv, AccountTypeOK, Coordinator
  <2>2. exposed = SelectedIds(entry, coord.devices) /\ entry.groups = wanted.groups
    BY <1>1 DEF AccountInv, ExposedIsSelected, Settled, SubmittedIsStored
  <2>3. d \in SelectedIds(entry, coord.devices)
    BY <2>1, <2>2 DEF SelectedIds
  <2> QED BY <2>2, <2>3
<1> QED BY <1>1, AccountInvariant, PTL

\* Reloads leave no coordinator behind but those of set-ups that failed late.
THEOREM CoordinatorsCounted == AccountSpec => []OneLiveCoordinator
<1>1. AccountInv => OneLiveCoordinator
  BY DEF AccountInv
<1> QED BY <1>1, AccountInvariant, PTL

-----------------------------------------------------------------------------
(* The cloud session *)

\* Places of an attempt that has begun: connect_and_login has one to spare.
Attempting == {"opening", "hello", "helloLost", "helloWait", "loginLost", "loginWait",
               "failing", "clBackoff"}

GoodFrame == {f \in FrameType : f.pc \in Attempting => f.n < MaxAttempts}

StackOK == stack \in [Task -> Seq(GoodFrame)]

RunOK == running \in [task : Task \cup {None}, value : {"none", "call", "ok", "no", "raise"}]

FlagsOK == connected \in BOOLEAN /\ closed \in BOOLEAN

SlotsOK == listening \in Listener \cup {None} /\ beating \in Beat \cup {None}

ClientOK ==
    /\ stream \in Stream \cup {None}
    /\ net \in [Stream -> {"unused", "open", "down"}]
    /\ key \in {"none", "default", "session"}
    /\ lock \in Task \cup {None}
    /\ login \in [event : Task \cup {None}, set : SUBSET Task, result : BOOLEAN]
    /\ pong \in [future : Beat \cup {None}, set : SUBSET Beat]
    /\ failures \in 0 .. MaxFailures - 1

(***************************************************************************)
(* Types, with frames whose attempt can be counted up once more; and the   *)
(* flag goes with the stream.                                              *)
(***************************************************************************)
SessionInv ==
    /\ StackOK /\ RunOK /\ FlagsOK /\ SlotsOK /\ ClientOK
    /\ FlagPromisesStream

\* Frames as calls push them.
LEMMA NewFrames ==
    ASSUME NEW pc \in Awaiting \cup Passing
    PROVE  Frame(pc) \in GoodFrame
BY SessionAssumption DEF Frame, GoodFrame, FrameType

\* Short sequences of frames.
LEMMA FrameSeqs ==
    /\ <<>> \in Seq(GoodFrame)
    /\ \A x \in GoodFrame : <<x>> \in Seq(GoodFrame)
    /\ \A x, y \in GoodFrame : <<x, y>> \in Seq(GoodFrame)
OBVIOUS

\* The innermost frame of a task, and the ones below it.
LEMMA TopFrame ==
    ASSUME StackOK, NEW t \in Task, Alive(t)
    PROVE  /\ Top(t) \in GoodFrame /\ Tail(stack[t]) \in Seq(GoodFrame)
           /\ stack[t] \in Seq(GoodFrame) /\ stack[t] # <<>>
<1>1. stack[t] \in Seq(GoodFrame) /\ stack[t] # <<>>
  BY DEF StackOK, Alive
<1>2. \A s \in Seq(GoodFrame) : s # <<>> => Head(s) \in GoodFrame /\ Tail(s) \in Seq(GoodFrame)
  OBVIOUS
<1> QED BY <1>1, <1>2 DEF Top

\* The innermost frame moved on, at the same attempt.
LEMMA MovedFrame ==
    ASSUME StackOK, NEW t \in Task, Alive(t), NEW pc \in Awaiting \cup Passing,
           pc \in Attempting => Top(t).pc \in Attempting \/ Top(t).n # MaxAttempts
    PROVE  Moved(t, pc) \in GoodFrame
<1>1. Top(t) \in FrameType /\ (Top(t).pc \in Attempting => Top(t).n < MaxAttempts)
  BY TopFrame DEF GoodFrame
<1>2. Top(t).n \in 0 .. MaxAttempts
  BY <1>1 DEF FrameType
<1>3. Moved(t, pc) \in FrameType /\ Moved(t, pc).pc = pc /\ Moved(t, pc).n = Top(t).n
  BY <1>1 DEF Moved, FrameType
<1>4. pc \in Attempting => Top(t).n < MaxAttempts
  BY <1>1, <1>2, SessionAssumption
<1> QED BY <1>3, <1>4 DEF GoodFrame

\* The innermost frame back at the head of the loop, one attempt later.
LEMMA NextFrame ==
    ASSUME StackOK, NEW t \in Task, Alive(t), Top(t).pc \in Attempting
    PROVE  [Moved(t, "tryOpen") EXCEPT !.n = @ + 1] \in GoodFrame
<1>1. Top(t) \in FrameType /\ Top(t).n < MaxAttempts
  BY TopFrame DEF GoodFrame
<1>2. Top(t).n + 1 \in 0 .. MaxAttempts
  BY <1>1, SessionAssumption DEF FrameType
<1>3. "tryOpen" \in Awaiting \cup Passing /\ "tryOpen" \notin Attempting
  BY DEF Awaiting, Passing, Attempting
<1>4. [Moved(t, "tryOpen") EXCEPT !.n = @ + 1] \in FrameType
  BY <1>1, <1>2, <1>3 DEF Moved, FrameType
<1>5. [Moved(t, "tryOpen") EXCEPT !.n = @ + 1].pc = "tryOpen"
  BY <1>1 DEF Moved, FrameType
<1> QED BY <1>3, <1>4, <1>5 DEF GoodFrame

\* t's innermost frame replaced by others.
LEMMA StackReplaced ==
    ASSUME StackOK, NEW t \in Task, Alive(t), NEW frames \in Seq(GoodFrame)
    PROVE  With(t, frames) \in [Task -> Seq(GoodFrame)]
<1>1. frames \o Tail(stack[t]) \in Seq(GoodFrame)
  BY TopFrame, ConcatProperties
<1> QED BY <1>1 DEF With, StackOK

\* t waits or goes on with other frames.
LEMMA StackGoes ==
    ASSUME StackOK, NEW t \in Task, Alive(t), NEW frames \in Seq(GoodFrame),
           Waits(With(t, frames)) \/ Goes(t, With(t, frames))
    PROVE  StackOK' /\ RunOK'
BY StackReplaced DEF StackOK, RunOK, Waits, Goes, RunsOn, Nobody

\* t waits or goes on in its innermost frame.
LEMMA FrameGoes ==
    ASSUME StackOK, NEW t \in Task, Alive(t), NEW f \in GoodFrame,
           Waits(With(t, <<f>>)) \/ Goes(t, With(t, <<f>>))
    PROVE  StackOK' /\ RunOK'
BY StackGoes, FrameSeqs

\* t calls.
LEMMA FrameCalls ==
    ASSUME StackOK, NEW t \in Task, Alive(t), NEW pc, NEW callee \in GoodFrame,
           Moved(t, pc) \in GoodFrame, Calls(t, pc, callee)
    PROVE  StackOK' /\ RunOK'
BY StackGoes, FrameSeqs DEF Calls

\* t's innermost call returns.
LEMMA FrameReturns ==
    ASSUME StackOK, NEW t \in Task, Alive(t), NEW value \in {"ok", "no", "raise"},
           Returns(t, value)
    PROVE  StackOK' /\ RunOK'
<1>1. StackOK'
  BY StackReplaced, FrameSeqs DEF StackOK, Returns
<1>2. RunOK'
  BY DEF RunOK, Returns, RunsOn, Nobody
<1> QED BY <1>1, <1>2

\* A cancelled task closes what it was closing.
LEMMA UnwindsOK ==
    ASSUME SessionInv, NEW u, Unwinds(u), UNCHANGED <<net, key, failures>>
    PROVE  connected' \in BOOLEAN /\ ClientOK' /\ FlagPromisesStream'
<1>1. /\ stream' \in Stream \cup {None} /\ lock' \in Task \cup {None}
      /\ login' \in [event : Task \cup {None}, set : SUBSET Task, result : BOOLEAN]
      /\ pong' \in [future : Beat \cup {None}, set : SUBSET Beat]
  BY DEF SessionInv, ClientOK, Unwinds, LoginLeft
<1>2. connected' \in BOOLEAN
  BY DEF Unwinds
<1>3. FlagPromisesStream'
  BY DEF SessionInv, FlagPromisesStream, Unwinds
<1> QED BY <1>1, <1>2, <1>3 DEF SessionInv, ClientOK

\* Cancelling a task, or the one it joins, keeps the types and the promise.
LEMMA CancelsOK ==
    ASSUME SessionInv, NEW t \in Task, Alive(t), NEW u, NEW frame,
           [frame EXCEPT !.who = u] \in GoodFrame, Cancels(t, u, frame),
           UNCHANGED <<net, key, failures>>
    PROVE  StackOK' /\ RunOK' /\ connected' \in BOOLEAN /\ ClientOK' /\ FlagPromisesStream'
<1> DEFINE stk == With(t, <<[frame EXCEPT !.who = u]>>)
<1>1. StackOK /\ stk \in [Task -> Seq(GoodFrame)] /\ <<>> \in Seq(GoodFrame)
  BY FrameSeqs, StackReplaced DEF SessionInv
<1>2. \/ Waits(stk) /\ UNCHANGED <<connected, stream, lock, login, pong>>
      \/ \E v : Unwinds(v) /\ Waits([stk EXCEPT ![v] = <<>>])
  BY DEF Cancels
<1> HIDE DEF stk
<1>3. CASE Waits(stk) /\ UNCHANGED <<connected, stream, lock, login, pong>>
  BY <1>1, <1>3 DEF Waits, Nobody, SessionInv, StackOK, RunOK, FlagsOK, ClientOK, FlagPromisesStream
<1>4. ASSUME NEW v, Unwinds(v), Waits([stk EXCEPT ![v] = <<>>])
      PROVE  StackOK' /\ RunOK' /\ connected' \in BOOLEAN /\ ClientOK' /\ FlagPromisesStream'
  <2>1. connected' \in BOOLEAN /\ ClientOK' /\ FlagPromisesStream'
    BY <1>4, UnwindsOK
  <2>2. [stk EXCEPT ![v] = <<>>] \in [Task -> Seq(GoodFrame)]
    BY <1>1
  <2> QED BY <1>4, <2>1, <2>2 DEF Waits, Nobody, StackOK, RunOK
<1> QED BY <1>2, <1>3, <1>4

\* A frame that waits for a task in one of the slots.
LEMMA JoinFrame ==
    ASSUME NEW f \in GoodFrame, NEW u \in Listener \cup Beat
    PROVE  [f EXCEPT !.who = u] \in GoodFrame
BY DEF GoodFrame, FrameType

\* What a step leaves alone keeps its type.
LEMMA SessionFrame ==
    ASSUME SessionInv, StackOK', RunOK', UNCHANGED <<transportVars, clientVars, slotVars>>
    PROVE  SessionInv'
BY DEF SessionInv, FlagsOK, SlotsOK, ClientOK, FlagPromisesStream, transportVars, clientVars,
       slotVars

\* A task that stands or runs at a place is alive and stands there.
LEMMA Stands ==
    ASSUME NEW t, NEW pc, Now(t, pc) \/ At(t, pc)
    PROVE  Alive(t) /\ Top(t).pc = pc
BY DEF Now, At

\* _disconnect keeps the invariant.
LEMMA DisconnectOK ==
    ASSUME SessionInv, NEW t \in Task, Disconnect(t)
    PROVE  SessionInv'
<1>0. StackOK
  BY DEF SessionInv
<1>1. ASSUME DisconnectStarts(t)
      PROVE  SessionInv'
  <2> DEFINE frame == [Moved(t, "dcBeatCheck") EXCEPT !.beat = beating]
  <2>1. Alive(t)
    BY <1>1, Stands DEF DisconnectStarts
  <2>2. Moved(t, "dcBeatCheck") \in GoodFrame
    BY <1>0, <2>1, MovedFrame DEF Awaiting, Passing, Attempting
  <2>3. frame \in GoodFrame
    BY <2>2 DEF SessionInv, SlotsOK, GoodFrame, FrameType
  <2>4. [frame EXCEPT !.pc = "dcListener"] \in GoodFrame
    BY <2>3 DEF GoodFrame, FrameType, Awaiting, Attempting
  <2>5. UNCHANGED <<net, key, closed, listening, beating, failures>>
    BY <1>1 DEF DisconnectStarts
  <2>6. CASE Alive(listening) /\ listening # t
    <3>1. Cancels(t, listening, [frame EXCEPT !.pc = "dcListener"])
      BY <1>1, <2>6 DEF DisconnectStarts
    <3>2. listening \in Listener
      BY <2>6 DEF SessionInv, SlotsOK, Alive
    <3>3. [[frame EXCEPT !.pc = "dcListener"] EXCEPT !.who = listening] \in GoodFrame
      BY <2>4, <3>2, JoinFrame
    <3> HIDE DEF frame
    <3>4. StackOK' /\ RunOK' /\ connected' \in BOOLEAN /\ ClientOK' /\ FlagPromisesStream'
      BY <2>1, <2>5, <3>1, <3>3, CancelsOK
    <3> QED BY <2>5, <3>4 DEF SessionInv, FlagsOK, SlotsOK
  <2>7. CASE ~(Alive(listening) /\ listening # t)
    <3>1. Goes(t, With(t, <<frame>>)) /\ UNCHANGED <<connected, stream, lock, login, pong>>
      BY <1>1, <2>7 DEF DisconnectStarts
    <3> HIDE DEF frame
    <3> QED BY <1>0, <2>1, <2>3, <2>5, <3>1, FrameGoes, SessionFrame
            DEF transportVars, clientVars, slotVars
  <2> QED BY <2>6, <2>7
<1>2. ASSUME DisconnectBeat(t)
      PROVE  SessionInv'
  <2>1. Alive(t)
    BY <1>2, Stands DEF DisconnectBeat
  <2>2. Moved(t, "dcBeat") \in GoodFrame /\ Moved(t, "dcRest") \in GoodFrame
    BY <1>0, <2>1, MovedFrame DEF Awaiting, Passing, Attempting
  <2>3. UNCHANGED <<net, key, closed, listening, beating, failures>>
    BY <1>2 DEF DisconnectBeat
  <2>4. CASE Alive(Top(t).beat) /\ Top(t).beat # t
    <3>1. Cancels(t, Top(t).beat, Moved(t, "dcBeat"))
      BY <1>2, <2>4 DEF DisconnectBeat
    <3>2. Top(t).beat \in Beat
      BY <1>0, <2>1, <2>4, TopFrame DEF GoodFrame, FrameType, Alive
    <3>3. [Moved(t, "dcBeat") EXCEPT !.who = Top(t).beat] \in GoodFrame
      BY <2>2, <3>2, JoinFrame
    <3>4. StackOK' /\ RunOK' /\ connected' \in BOOLEAN /\ ClientOK' /\ FlagPromisesStream'
      BY <2>1, <2>3, <3>1, <3>3, CancelsOK
    <3> QED BY <2>3, <3>4 DEF SessionInv, FlagsOK, SlotsOK
  <2>5. CASE ~(Alive(Top(t).beat) /\ Top(t).beat # t)
    <3>1. /\ Goes(t, With(t, <<Moved(t, "dcRest")>>))
          /\ UNCHANGED <<connected, stream, lock, login, pong>>
      BY <1>2, <2>5 DEF DisconnectBeat
    <3> QED BY <1>0, <2>1, <2>2, <2>3, <3>1, FrameGoes, SessionFrame
            DEF transportVars, clientVars, slotVars
  <2> QED BY <2>4, <2>5
<1>3. ASSUME DisconnectCloses(t)
      PROVE  SessionInv'
  <2>1. Alive(t)
    BY <1>3, Stands DEF DisconnectCloses
  <2>2. Moved(t, "dcClosing") \in GoodFrame
    BY <1>0, <2>1, MovedFrame DEF Awaiting, Passing, Attempting
  <2>3. StackOK' /\ RunOK'
    BY <1>0, <1>3, <2>1, <2>2, FrameGoes, FrameReturns DEF DisconnectCloses
  <2>4. ClientOK' /\ SlotsOK'
    BY <1>3 DEF DisconnectCloses, SessionInv, ClientOK, SlotsOK
  <2>5. FlagsOK' /\ FlagPromisesStream'
    BY <1>3 DEF DisconnectCloses, SessionInv, FlagsOK, FlagPromisesStream
  <2> QED BY <2>3, <2>4, <2>5 DEF SessionInv
<1>4. ASSUME DisconnectEnds(t)
      PROVE  SessionInv'
  <2>1. Alive(t)
    BY <1>4, Stands DEF DisconnectEnds
  <2>2. StackOK' /\ RunOK'
    BY <1>0, <1>4, <2>1, FrameReturns DEF DisconnectEnds
  <2>3. ClientOK' /\ SlotsOK'
    BY <1>4 DEF DisconnectEnds, SessionInv, ClientOK, SlotsOK, slotVars
  <2>4. FlagsOK' /\ FlagPromisesStream'
    BY <1>4 DEF DisconnectEnds, FlagsOK, FlagPromisesStream
  <2> QED BY <2>2, <2>3, <2>4 DEF SessionInv
<1> QED BY <1>1, <1>2, <1>3, <1>4 DEF Disconnect

\* _reconnect keeps the invariant.
LEMMA ReconnectOK ==
    ASSUME SessionInv, NEW t \in Task, Reconnect(t)
    PROVE  SessionInv'
<1>0. StackOK
  BY DEF SessionInv
<1>1. Alive(t)
  BY Stands DEF Reconnect, ReconnectEnters, ReconnectBlocks, ReconnectSleeps, ReconnectConnects,
                ReconnectEnds
<1>2. /\ Frame("disconnect") \in GoodFrame /\ Connect \in GoodFrame
      /\ Moved(t, "rcDisconnect") \in GoodFrame /\ Moved(t, "rcConnect") \in GoodFrame
      /\ Moved(t, "lockWait") \in GoodFrame /\ Moved(t, "rcSleep") \in GoodFrame
  BY <1>0, <1>1, NewFrames, MovedFrame DEF Connect, Awaiting, Passing, Attempting
<1>3. CASE ReconnectBlocks(t)
  BY <1>0, <1>1, <1>2, <1>3, FrameGoes, SessionFrame DEF ReconnectBlocks
<1>4. CASE ReconnectSleeps(t)
  BY <1>0, <1>1, <1>2, <1>4, FrameGoes, SessionFrame DEF ReconnectSleeps
<1>5. CASE ReconnectConnects(t)
  BY <1>0, <1>1, <1>2, <1>5, FrameCalls, SessionFrame DEF ReconnectConnects
<1>6. CASE ReconnectEnters(t) \/ ReconnectEnds(t)
  <2>1. StackOK' /\ RunOK'
    BY <1>0, <1>1, <1>2, <1>6, FrameCalls, FrameReturns DEF ReconnectEnters, ReconnectEnds
  <2>2. lock' \in {lock, t, None} /\ UNCHANGED <<transportVars, clientVars, listening, beating>>
    BY <1>6 DEF ReconnectEnters, ReconnectEnds
  <2> QED BY <2>1, <2>2 DEF SessionInv, FlagsOK, SlotsOK, ClientOK, FlagPromisesStream,
                            transportVars, clientVars
<1> QED BY <1>3, <1>4, <1>5, <1>6 DEF Reconnect

\* A task is created in a free identity while t goes on.
LEMMA TaskCreated ==
    ASSUME StackOK, NEW t \in Task, Alive(t), NEW frames \in Seq(GoodFrame), NEW u,
           NEW f \in GoodFrame,
           stack' = [With(t, frames) EXCEPT ![u] = <<f>>]
    PROVE  StackOK'
<1>1. With(t, frames) \in [Task -> Seq(GoodFrame)] /\ <<f>> \in Seq(GoodFrame)
  BY StackReplaced, FrameSeqs
<1> QED BY <1>1 DEF StackOK

\* A stream is lost under t, which calls _reconnect.
LEMMA LosesOK ==
    ASSUME SessionInv, NEW t \in Task, Alive(t), NEW pc, Moved(t, pc) \in GoodFrame,
           Loses(t, pc), UNCHANGED <<key, closed, pong, failures, slotVars>>,
           login' \in [event : Task \cup {None}, set : SUBSET Task, result : BOOLEAN]
    PROVE  SessionInv'
<1>0. StackOK /\ Frame("reconnect") \in GoodFrame
  BY NewFrames DEF SessionInv, Passing
<1>1. StackOK' /\ RunOK'
  BY <1>0, FrameCalls DEF Loses
<1>2. net' \in [Stream -> {"unused", "open", "down"}] /\ UNCHANGED <<connected, stream>>
  BY DEF Loses, SessionInv, ClientOK
<1> QED BY <1>1, <1>2 DEF SessionInv, FlagsOK, SlotsOK, ClientOK, FlagPromisesStream, slotVars

\* connect_and_login up to its attempts keeps the invariant.
LEMMA ConnectOK ==
    ASSUME SessionInv, NEW t \in Task, ConnectStarts(t) \/ ConnectBeat(t) \/ ConnectJoined(t)
    PROVE  SessionInv'
<1>0. StackOK
  BY DEF SessionInv
<1>1. Alive(t)
  BY Stands DEF ConnectStarts, ConnectBeat, ConnectJoined
<1>2. /\ Moved(t, "joinListener") \in GoodFrame /\ Moved(t, "joinBeat") \in GoodFrame
      /\ Moved(t, "beatCheck") \in GoodFrame /\ Moved(t, "tryOpen") \in GoodFrame
  BY <1>0, <1>1, MovedFrame DEF Awaiting, Passing, Attempting
<1>3. CASE ConnectStarts(t)
  <2>1. UNCHANGED <<net, key, listening, beating, failures>>
    BY <1>3 DEF ConnectStarts
  <2>2. closed' \in BOOLEAN
    BY <1>3 DEF ConnectStarts, SessionInv, FlagsOK
  <2>3. \/ Returns(t, "ok") /\ UNCHANGED <<connected, stream, lock, login, pong>>
        \/ /\ Goes(t, With(t, <<Moved(t, "beatCheck")>>))
           /\ UNCHANGED <<connected, stream, lock, login, pong>>
        \/ Alive(listening) /\ Cancels(t, listening, Moved(t, "joinListener"))
    BY <1>3 DEF ConnectStarts
  <2>4. StackOK' /\ RunOK' /\ connected' \in BOOLEAN /\ ClientOK' /\ FlagPromisesStream'
    <3>1. CASE UNCHANGED <<connected, stream, lock, login, pong>>
               /\ (Returns(t, "ok") \/ Goes(t, With(t, <<Moved(t, "beatCheck")>>)))
      <4>1. StackOK' /\ RunOK'
        BY <1>0, <1>1, <1>2, <3>1, FrameReturns, FrameGoes
      <4> QED BY <2>1, <3>1, <4>1 DEF SessionInv, FlagsOK, ClientOK, FlagPromisesStream
    <3>2. CASE Alive(listening) /\ Cancels(t, listening, Moved(t, "joinListener"))
      <4>1. listening \in Listener
        BY <3>2 DEF SessionInv, SlotsOK, Alive
      <4>2. [Moved(t, "joinListener") EXCEPT !.who = listening] \in GoodFrame
        BY <1>2, <4>1, JoinFrame
      <4> QED BY <1>1, <2>1, <3>2, <4>2, CancelsOK
    <3> QED BY <2>3, <3>1, <3>2
  <2> QED BY <2>1, <2>2, <2>4 DEF SessionInv, FlagsOK, SlotsOK
<1>4. CASE ConnectBeat(t)
  <2>1. UNCHANGED <<net, key, closed, beating, failures>> /\ listening' \in {listening, None}
    BY <1>4 DEF ConnectBeat
  <2>2. \/ /\ Goes(t, With(t, <<Moved(t, "tryOpen")>>))
           /\ UNCHANGED <<connected, stream, lock, login, pong>>
        \/ Alive(beating) /\ Cancels(t, beating, Moved(t, "joinBeat"))
    BY <1>4 DEF ConnectBeat
  <2>3. StackOK' /\ RunOK' /\ connected' \in BOOLEAN /\ ClientOK' /\ FlagPromisesStream'
    <3>1. CASE UNCHANGED <<connected, stream, lock, login, pong>>
               /\ Goes(t, With(t, <<Moved(t, "tryOpen")>>))
      <4>1. StackOK' /\ RunOK'
        BY <1>0, <1>1, <1>2, <3>1, FrameGoes
      <4> QED BY <2>1, <3>1, <4>1 DEF SessionInv, FlagsOK, ClientOK, FlagPromisesStream
    <3>2. CASE Alive(beating) /\ Cancels(t, beating, Moved(t, "joinBeat"))
      <4>1. beating \in Beat
        BY <3>2 DEF SessionInv, SlotsOK, Alive
      <4>2. [Moved(t, "joinBeat") EXCEPT !.who = beating] \in GoodFrame
        BY <1>2, <4>1, JoinFrame
      <4> QED BY <1>1, <2>1, <3>2, <4>2, CancelsOK
    <3> QED BY <2>2, <3>1, <3>2
  <2> QED BY <2>1, <2>3 DEF SessionInv, FlagsOK, SlotsOK
<1>5. CASE ConnectJoined(t)
  <2>1. StackOK' /\ RunOK'
    BY <1>0, <1>1, <1>2, <1>5, FrameGoes DEF ConnectJoined
  <2> QED BY <1>5, <2>1 DEF ConnectJoined, SessionInv, FlagsOK, SlotsOK, ClientOK,
                            FlagPromisesStream, transportVars, clientVars
<1> QED BY <1>3, <1>4, <1>5

\* An attempt of connect_and_login keeps the invariant.
LEMMA AttemptOK ==
    ASSUME SessionInv, NEW t \in Task, ConnectAndLogin(t),
           ~(ConnectStarts(t) \/ ConnectBeat(t) \/ ConnectJoined(t))
    PROVE  SessionInv'
<1>0. StackOK
  BY DEF SessionInv
<1>1. ASSUME ConnectTries(t)
      PROVE  SessionInv'
  <2>1. Alive(t)
    BY <1>1, Stands DEF ConnectTries
  <2>2. CASE Top(t).n = MaxAttempts
    BY <1>0, <1>1, <2>1, <2>2, FrameReturns, SessionFrame DEF ConnectTries
  <2>3. CASE Top(t).n # MaxAttempts
    <3>1. Moved(t, "hello") \in GoodFrame /\ Moved(t, "opening") \in GoodFrame
      BY <1>0, <2>1, <2>3, MovedFrame DEF Awaiting, Passing
    <3>2. UNCHANGED <<transportVars, clientVars, slotVars>>
      BY <1>1 DEF ConnectTries
    <3>3. StackOK' /\ RunOK'
      BY <1>0, <1>1, <2>1, <2>3, <3>1, FrameGoes DEF ConnectTries
    <3> QED BY <3>2, <3>3, SessionFrame
  <2> QED BY <2>2, <2>3
<1>2. SUFFICES ASSUME Alive(t), Top(t).pc \in Attempting
               PROVE  SessionInv'
  BY <1>1, Stands DEF ConnectAndLogin, Opened, OpenFails, HelloDone, HelloLost, LoginSent,
         LoginNotSent, LoginResumes, LoginSucceeds, LoginFails, AttemptFails, NextAttempt,
         Given, Now, At, Attempting
<1>3. /\ Moved(t, "hello") \in GoodFrame /\ Moved(t, "helloWait") \in GoodFrame
      /\ Moved(t, "helloLost") \in GoodFrame /\ Moved(t, "loginWait") \in GoodFrame
      /\ Moved(t, "loginLost") \in GoodFrame /\ Moved(t, "failing") \in GoodFrame
      /\ Moved(t, "clBackoff") \in GoodFrame
  BY <1>0, <1>2, MovedFrame DEF Awaiting, Passing
<1>4. Frame("disconnect") \in GoodFrame /\ Frame("retrying") \in GoodFrame
      /\ Frame("sleeping") \in GoodFrame
  BY NewFrames DEF Awaiting, Passing
<1>5. ASSUME NEW s \in Stream, Opened(t, s)
      PROVE  SessionInv'
  <2>1. StackOK' /\ RunOK'
    BY <1>0, <1>2, <1>3, <1>5, FrameGoes DEF Opened
  <2>2. /\ net' \in [Stream -> {"unused", "open", "down"}] /\ stream' = s
        /\ UNCHANGED <<clientVars, slotVars>>
    BY <1>5 DEF Opened, SessionInv, ClientOK
  <2>3. FlagsOK' /\ FlagPromisesStream'
    BY <1>5, SessionAssumption DEF Opened, SessionInv, FlagsOK, FlagPromisesStream, clientVars
  <2> QED BY <2>1, <2>2, <2>3 DEF SessionInv, SlotsOK, ClientOK, clientVars, slotVars
<1>6. ASSUME OpenFails(t)
      PROVE  SessionInv'
  <2>1. StackOK' /\ RunOK'
    BY <1>0, <1>2, <1>6, NextFrame, FrameGoes DEF OpenFails
  <2>2. FlagsOK' /\ FlagPromisesStream'
    BY <1>6 DEF OpenFails, SessionInv, FlagsOK, FlagPromisesStream, clientVars
  <2> QED BY <1>6, <2>1, <2>2 DEF OpenFails, SessionInv, SlotsOK, ClientOK, clientVars, slotVars
<1>7. ASSUME HelloDone(t)
      PROVE  SessionInv'
  <2>1. PICK l \in FreeTask(Listener) :
           /\ listening' = l
           /\ Waits([With(t, <<Moved(t, "helloWait")>>) EXCEPT ![l] = <<Frame("retrying")>>])
    BY <1>7 DEF HelloDone
  <2>2. <<Moved(t, "helloWait")>> \in Seq(GoodFrame)
    BY <1>3, FrameSeqs
  <2>3. StackOK' /\ RunOK'
    BY <1>0, <1>2, <1>4, <2>1, <2>2, TaskCreated DEF Waits, RunOK, Nobody
  <2>4. listening' \in Listener /\ UNCHANGED <<connected, stream, net, clientVars, lock, beating>>
    BY <1>7, <2>1 DEF HelloDone, FreeTask
  <2> QED BY <2>3, <2>4 DEF SessionInv, FlagsOK, SlotsOK, ClientOK, FlagPromisesStream, clientVars
<1>8. ASSUME HelloLost(t)
      PROVE  SessionInv'
  <2>1. login' \in [event : Task \cup {None}, set : SUBSET Task, result : BOOLEAN]
    BY <1>8 DEF HelloLost, SessionInv, ClientOK, clientVars
  <2> QED BY <1>2, <1>3, <1>8, <2>1, LosesOK DEF HelloLost, clientVars
<1>9. ASSUME LoginSent(t)
      PROVE  SessionInv'
  <2>1. login' \in [event : Task \cup {None}, set : SUBSET Task, result : BOOLEAN]
    BY <1>9 DEF LoginSent, SessionInv, ClientOK
  <2>2. CASE Loses(t, "loginLost")
    BY <1>2, <1>3, <1>9, <2>1, <2>2, LosesOK DEF LoginSent
  <2>3. CASE /\ Waits(With(t, <<Moved(t, "loginWait")>>))
             /\ UNCHANGED <<connected, stream, net>>
    <3>1. StackOK' /\ RunOK'
      BY <1>0, <1>2, <1>3, <2>3, FrameGoes
    <3> QED BY <1>9, <2>1, <2>3, <3>1 DEF LoginSent, SessionInv, FlagsOK, SlotsOK, ClientOK,
                                          FlagPromisesStream, slotVars
  <2> QED BY <1>9, <2>2, <2>3 DEF LoginSent
<1>10. ASSUME LoginNotSent(t)
       PROVE  SessionInv'
  BY <1>0, <1>2, <1>3, <1>4, <1>10, FrameCalls, SessionFrame DEF LoginNotSent
<1>11. ASSUME LoginResumes(t) \/ AttemptFails(t)
       PROVE  SessionInv'
  BY <1>0, <1>2, <1>3, <1>11, FrameGoes, SessionFrame DEF LoginResumes, AttemptFails
<1>12. ASSUME NextAttempt(t)
       PROVE  SessionInv'
  BY <1>0, <1>2, <1>12, NextFrame, FrameGoes, SessionFrame DEF NextAttempt
<1>13. LoginLeft(t) \in [event : Task \cup {None}, set : SUBSET Task, result : BOOLEAN]
  BY DEF LoginLeft, SessionInv, ClientOK
<1>14. ASSUME LoginSucceeds(t)
       PROVE  SessionInv'
  <2>1. PICK b \in FreeTask(Beat) :
           /\ beating' = b
           /\ stack' = [With(t, <<>>) EXCEPT ![b] = <<Frame("sleeping")>>]
    BY <1>14 DEF LoginSucceeds
  <2>2. StackOK'
    BY <1>0, <1>2, <1>4, <2>1, FrameSeqs, TaskCreated
  <2>3. RunOK' /\ beating' \in Beat
    BY <1>14, <2>1 DEF LoginSucceeds, RunsOn, RunOK, FreeTask
  <2> QED BY <1>13, <1>14, <2>2, <2>3
          DEF LoginSucceeds, SessionInv, FlagsOK, SlotsOK, ClientOK, FlagPromisesStream,
              transportVars
<1>15. ASSUME LoginFails(t)
       PROVE  SessionInv'
  <2>1. StackOK' /\ RunOK'
    BY <1>0, <1>2, <1>3, <1>4, <1>15, FrameCalls DEF LoginFails
  <2> QED BY <1>13, <1>15, <2>1
          DEF LoginFails, SessionInv, FlagsOK, SlotsOK, ClientOK, FlagPromisesStream,
              transportVars, slotVars
<1> QED BY <1>1, <1>5, <1>6, <1>7, <1>8, <1>9, <1>10, <1>11, <1>12, <1>14, <1>15
        DEF ConnectAndLogin

\* _listen_loop keeps the invariant.
LEMMA ListenOK ==
    ASSUME SessionInv, NEW l \in Listener, Listen(l)
    PROVE  SessionInv'
<1>0. StackOK /\ l \in Task
  BY DEF SessionInv, Task
<1>1. Alive(l)
  BY Stands DEF Listen, ReadNext, ReadTimesOut, ReceivesHello, ReceivesLogin, ReceivesBeat,
         Receives, StreamEnds, Relisten, Reconnected, ReconnectFailed, Given
<1>2. /\ Moved(l, "relisten") \in GoodFrame /\ Moved(l, "retrying") \in GoodFrame
      /\ Moved(l, "reading") \in GoodFrame /\ Moved(l, "readNext") \in GoodFrame
      /\ Moved(l, "reconnecting") \in GoodFrame /\ Moved(l, "backoff") \in GoodFrame
      /\ Frame("reconnect") \in GoodFrame
  BY <1>0, <1>1, MovedFrame, NewFrames DEF Awaiting, Passing, Attempting
<1>3. CASE ReadNext(l)
  <2>1. CASE stream = None
    BY <1>0, <1>1, <1>2, <1>3, <2>1, FrameGoes, SessionFrame DEF ReadNext
  <2>2. CASE stream # None
    <3>1. [Moved(l, "reading") EXCEPT !.who = stream] \in GoodFrame
      BY <1>2 DEF SessionInv, ClientOK, GoodFrame, FrameType
    <3>2. StackOK' /\ RunOK'
      BY <1>0, <1>1, <1>2, <1>3, <2>2, <3>1, FrameGoes DEF ReadNext
    <3> QED BY <1>3, <3>2, SessionFrame DEF ReadNext
  <2> QED BY <2>1, <2>2
<1>4. CASE ReadTimesOut(l) \/ StreamEnds(l)
  BY <1>0, <1>1, <1>2, <1>4, FrameGoes, SessionFrame DEF ReadTimesOut, StreamEnds
<1>5. ASSUME Receives(l), key' \in {"none", "default", "session"},
             login' \in [event : Task \cup {None}, set : SUBSET Task, result : BOOLEAN],
             pong' \in [future : Beat \cup {None}, set : SUBSET Beat]
      PROVE  SessionInv'
  <2>1. StackOK' /\ RunOK'
    BY <1>0, <1>1, <1>2, <1>5, FrameGoes DEF Receives
  <2> QED BY <1>5, <2>1 DEF Receives, SessionInv, FlagsOK, SlotsOK, ClientOK,
                            FlagPromisesStream, transportVars, slotVars
<1>6. CASE ReceivesHello(l)
  BY <1>5, <1>6 DEF ReceivesHello, SessionInv, ClientOK
<1>7. KeyRead \in {"none", "default", "session"}
  BY DEF KeyRead, SessionInv, ClientOK
<1>8. ASSUME NEW result \in BOOLEAN, ReceivesLogin(l, result)
      PROVE  SessionInv'
  <2>1. [login EXCEPT !.result = result, !.set = @ \cup {login.event}]
           \in [event : Task \cup {None}, set : SUBSET Task, result : BOOLEAN]
    BY <1>8 DEF ReceivesLogin, SessionInv, ClientOK
  <2> QED BY <1>5, <1>7, <1>8, <2>1 DEF ReceivesLogin, SessionInv, ClientOK
<1>9. CASE ReceivesBeat(l)
  <2>1. [pong EXCEPT !.set = @ \cup {pong.future}]
            \in [future : Beat \cup {None}, set : SUBSET Beat]
    BY <1>9 DEF ReceivesBeat, SessionInv, ClientOK
  <2> QED BY <1>5, <1>7, <1>9, <2>1 DEF ReceivesBeat, SessionInv, ClientOK
<1>10. CASE Relisten(l)
  BY <1>0, <1>1, <1>2, <1>10, FrameReturns, FrameCalls, SessionFrame DEF Relisten
<1>11. CASE Reconnected(l)
  BY <1>0, <1>1, <1>11, FrameReturns, SessionFrame DEF Reconnected
<1>12. CASE ReconnectFailed(l)
  BY <1>0, <1>1, <1>2, <1>12, FrameGoes, SessionFrame DEF ReconnectFailed
<1> QED BY <1>3, <1>4, <1>6, <1>8, <1>9, <1>10, <1>11, <1>12 DEF Listen

\* _heartbeat_loop keeps the invariant.
LEMMA HeartbeatOK ==
    ASSUME SessionInv, NEW b \in Beat, Heartbeat(b)
    PROVE  SessionInv'
<1>0. StackOK /\ b \in Task
  BY DEF SessionInv, Task
<1>1. Alive(b)
  BY Stands DEF Heartbeat, BeatStops, BeatIdles, BeatSends, BeatAnswered, BeatFails, BeatResumes,
         BeatClosed
<1>2. /\ Moved(b, "ponging") \in GoodFrame /\ Moved(b, "sleeping") \in GoodFrame
      /\ Moved(b, "pausing") \in GoodFrame /\ Moved(b, "beatClosing") \in GoodFrame
      /\ Moved(b, "beatLost") \in GoodFrame
  BY <1>0, <1>1, MovedFrame DEF Awaiting, Passing, Attempting
<1>3. CASE BeatStops(b)
  BY <1>0, <1>1, <1>3, FrameReturns, SessionFrame DEF BeatStops
<1>4. CASE BeatIdles(b)
  BY <1>4 DEF BeatIdles, vars, SessionInv, StackOK, RunOK, FlagsOK, SlotsOK, ClientOK,
              FlagPromisesStream
<1>5. CASE BeatResumes(b)
  BY <1>0, <1>1, <1>2, <1>5, FrameGoes, SessionFrame DEF BeatResumes
<1>6. [future |-> None, set |-> pong.set \ {b}] \in [future : Beat \cup {None}, set : SUBSET Beat]
      /\ [future |-> b, set |-> pong.set \ {b}] \in [future : Beat \cup {None}, set : SUBSET Beat]
      /\ [pong EXCEPT !.future = None] \in [future : Beat \cup {None}, set : SUBSET Beat]
  BY DEF SessionInv, ClientOK
<1>7. CASE BeatSends(b)
  <2>1. CASE Loses(b, "beatLost") /\ UNCHANGED pong
    <3>1. login' \in [event : Task \cup {None}, set : SUBSET Task, result : BOOLEAN]
      BY <1>7 DEF BeatSends, SessionInv, ClientOK
    <3> QED BY <1>0, <1>1, <1>2, <1>7, <2>1, <3>1, LosesOK DEF BeatSends
  <2>2. CASE /\ pong' = [future |-> b, set |-> pong.set \ {b}]
             /\ Waits(With(b, <<Moved(b, "ponging")>>))
             /\ UNCHANGED <<connected, stream, net>>
    <3>1. StackOK' /\ RunOK'
      BY <1>0, <1>1, <1>2, <2>2, FrameGoes
    <3> QED BY <1>6, <1>7, <2>2, <3>1 DEF BeatSends, SessionInv, FlagsOK, SlotsOK, ClientOK,
                                          FlagPromisesStream, slotVars
  <2> QED BY <1>7, <2>1, <2>2 DEF BeatSends
<1>8. CASE BeatAnswered(b)
  <2>1. StackOK' /\ RunOK'
    BY <1>0, <1>1, <1>2, <1>8, FrameGoes, FrameReturns DEF BeatAnswered
  <2>2. failures' \in 0 .. MaxFailures - 1
    BY <1>8, SessionAssumption DEF BeatAnswered
  <2> QED BY <1>6, <1>8, <2>1, <2>2 DEF BeatAnswered, SessionInv, FlagsOK, SlotsOK, ClientOK,
                                        FlagPromisesStream, transportVars, slotVars
<1>9. CASE BeatFails(b)
  <2>1. StackOK' /\ RunOK'
    BY <1>0, <1>1, <1>2, <1>9, FrameSeqs, StackGoes DEF BeatFails
  <2>2. failures' \in 0 .. MaxFailures - 1
    BY <1>9, SessionAssumption DEF BeatFails, SessionInv, ClientOK
  <2>3. pong' \in [future : Beat \cup {None}, set : SUBSET Beat]
    BY <1>6, <1>9 DEF BeatFails, SessionInv, ClientOK
  <2>4. stream' \in Stream \cup {None} /\ net' \in [Stream -> {"unused", "open", "down"}]
    BY <1>9 DEF BeatFails, SessionInv, ClientOK, transportVars
  <2>5. connected' \in BOOLEAN /\ FlagPromisesStream'
    BY <1>9 DEF BeatFails, SessionInv, FlagsOK, FlagPromisesStream, transportVars
  <2>6. UNCHANGED <<key, closed, login, slotVars>>
    BY <1>9 DEF BeatFails
  <2> QED BY <2>1, <2>2, <2>3, <2>4, <2>5, <2>6 DEF SessionInv, FlagsOK, SlotsOK, ClientOK, slotVars
<1>10. CASE BeatClosed(b)
  <2>1. StackOK' /\ RunOK'
    BY <1>0, <1>1, <1>10, FrameReturns DEF BeatClosed
  <2>2. FlagsOK' /\ FlagPromisesStream'
    BY <1>10 DEF BeatClosed, SessionInv, FlagsOK, FlagPromisesStream, clientVars
  <2> QED BY <1>10, <2>1, <2>2 DEF BeatClosed, SessionInv, SlotsOK, ClientOK, clientVars, slotVars
<1> QED BY <1>3, <1>4, <1>5, <1>7, <1>8, <1>9, <1>10 DEF Heartbeat

\* What the coordinator calls keeps the invariant.
LEMMA CallOK ==
    ASSUME SessionInv, NEW t \in Task, Call(t)
    PROVE  SessionInv'
<1>0. StackOK
  BY DEF SessionInv
<1>1. Alive(t)
  BY Stands DEF Call, CommandSends, CallEnds
<1>2. Moved(t, "sending") \in GoodFrame /\ Frame("reconnect") \in GoodFrame
  BY <1>0, <1>1, MovedFrame, NewFrames DEF Awaiting, Passing, Attempting
<1>3. CASE CallEnds(t)
  BY <1>0, <1>1, <1>3, FrameReturns, SessionFrame DEF CallEnds
<1>4. CASE CommandSends(t)
  <2>1. CASE Returns(t, "ok") /\ UNCHANGED transportVars
    BY <1>0, <1>1, <1>4, <2>1, FrameReturns, SessionFrame DEF CommandSends
  <2>2. CASE Calls(t, "sending", Frame("reconnect")) /\ UNCHANGED transportVars
    BY <1>0, <1>1, <1>2, <1>4, <2>2, FrameCalls, SessionFrame DEF CommandSends
  <2>3. CASE Loses(t, "sending")
    <3>1. UNCHANGED <<key, closed, pong, failures, slotVars, login>>
      BY <1>4 DEF CommandSends, clientVars
    <3>2. login' \in [event : Task \cup {None}, set : SUBSET Task, result : BOOLEAN]
      BY <3>1 DEF SessionInv, ClientOK
    <3> QED BY <1>1, <1>2, <2>3, <3>1, <3>2, LosesOK
  <2> QED BY <1>4, <2>1, <2>2, <2>3 DEF CommandSends
<1> QED BY <1>3, <1>4 DEF Call

\* A new call from the coordinator keeps the invariant.
LEMMA CallsInOK ==
    ASSUME SessionInv, NEW t \in Task, NEW x \in GoodFrame, NEW y \in GoodFrame,
           CallsIn(t, <<x, y>>)
    PROVE  SessionInv'
<1>1. [stack EXCEPT ![t] = <<x, y>>] \in [Task -> Seq(GoodFrame)]
  BY FrameSeqs DEF SessionInv, StackOK
<1>2. StackOK' /\ RunOK'
  BY <1>1 DEF CallsIn, Goes, RunsOn, StackOK, RunOK
<1> QED BY <1>2, SessionFrame DEF CallsIn

\* A timeout keeps the invariant.
LEMMA ExpiresOK ==
    ASSUME SessionInv, NEW t \in Task, NEW i \in 1 .. Len(stack[t]), Expires(t, i)
    PROVE  SessionInv'
<1> DEFINE rest == SubSeq(stack[t], i + 1, Len(stack[t]))
<1>1. stack[t] \in Seq(GoodFrame)
  BY DEF SessionInv, StackOK
<1>2. rest \in Seq(GoodFrame)
  BY <1>1, SubSeqProperties
<1>3. StackOK' /\ RunOK'
  BY <1>2 DEF Expires, SessionInv, StackOK, RunOK, Nobody, RunsOn
<1>4. Unwinds(t) /\ UNCHANGED <<net, key, closed, listening, beating, failures>>
  BY DEF Expires
<1>5. connected' \in BOOLEAN /\ ClientOK' /\ FlagPromisesStream'
  BY <1>4, UnwindsOK
<1> QED BY <1>3, <1>4, <1>5 DEF SessionInv, FlagsOK, SlotsOK

\* Every step of the session keeps the invariant.
LEMMA SessionStep == SessionInv /\ [Next]_vars => SessionInv'
<1> SUFFICES ASSUME SessionInv, [Next]_vars PROVE SessionInv'
  OBVIOUS
<1>0. /\ Connect \in GoodFrame /\ Frame("watching") \in GoodFrame
      /\ Frame("disconnect") \in GoodFrame /\ Frame("unloading") \in GoodFrame
      /\ Frame("commanding") \in GoodFrame
  BY NewFrames DEF Connect, Awaiting, Passing
<1>1. CASE UNCHANGED vars
  BY <1>1 DEF vars, SessionInv, StackOK, RunOK, FlagsOK, SlotsOK, ClientOK, FlagPromisesStream
<1>2. CASE "watchdog" \in Driver /\ WatchdogStarts
  BY <1>0, <1>2, CallsInOK DEF WatchdogStarts, Task
<1>3. CASE "unload" \in Driver /\ UnloadStarts
  BY <1>0, <1>3, CallsInOK DEF UnloadStarts, Task
<1>4. CASE \E t \in Driver \ {"watchdog", "unload"} : CommandStarts(t)
  BY <1>0, <1>4, CallsInOK DEF CommandStarts, Task
<1>5. CASE \E t \in Task : Progress(t)
  BY <1>5, DisconnectOK, ReconnectOK, ConnectOK, AttemptOK, CallOK, ListenOK, HeartbeatOK
     DEF Progress
<1>6. CASE \E t \in Task : Timeout(t)
  BY <1>6, ExpiresOK DEF Timeout
<1>7. CASE \E s \in Stream : StreamLost(s)
  BY <1>7 DEF StreamLost, SessionInv, StackOK, RunOK, FlagsOK, SlotsOK, ClientOK,
              FlagPromisesStream, clientVars, slotVars
<1> QED BY <1>1, <1>2, <1>3, <1>4, <1>5, <1>6, <1>7 DEF Next

\* The inductive invariant of the session.
THEOREM SessionInvariant == Spec => []SessionInv
<1>1. Init => SessionInv
  <2> SUFFICES ASSUME Init PROVE SessionInv
    OBVIOUS
  <2>1. StackOK /\ RunOK
    BY FrameSeqs DEF Init, Nobody, StackOK, RunOK
  <2>2. FlagsOK /\ FlagPromisesStream
    BY DEF Init, FlagsOK, FlagPromisesStream
  <2>3. SlotsOK /\ ClientOK
    BY SessionAssumption DEF Init, SlotsOK, ClientOK
  <2> QED BY <2>1, <2>2, <2>3 DEF SessionInv
<1> QED BY <1>1, SessionStep, PTL DEF Spec

(***************************************************************************)
(* SSLTransport.connected promises a writer: for any number of calls,      *)
(* listeners, beats and streams, however they cancel each other and        *)
(* whatever the server and the drains do, a sender that sees the flag set  *)
(* finds a stream to write to.                                             *)
(***************************************************************************)
THEOREM FlagKeepsPromise == Spec => []FlagPromisesStream
<1>1. SessionInv => FlagPromisesStream
  BY DEF SessionInv
<1> QED BY <1>1, SessionInvariant, PTL

\* The types of the session, from the stronger invariant.
THEOREM SessionTypes == Spec => []SessionTypeOK
<1>1. SessionInv => SessionTypeOK
  <2> SUFFICES ASSUME SessionInv PROVE SessionTypeOK
    OBVIOUS
  <2>1. \A t \in Task : \A i \in 1 .. Len(stack[t]) : stack[t][i] \in FrameType
    <3> SUFFICES ASSUME NEW t \in Task, NEW i \in 1 .. Len(stack[t])
                 PROVE  stack[t][i] \in FrameType
      OBVIOUS
    <3>1. stack[t] \in Seq(GoodFrame)
      BY DEF SessionInv, StackOK
    <3>2. stack[t][i] \in GoodFrame
      BY <3>1, ElementOfSeq
    <3> QED BY <3>2 DEF GoodFrame
  <2> QED BY <2>1 DEF SessionInv, RunOK, FlagsOK, SlotsOK, ClientOK, SessionTypeOK
<1> QED BY <1>1, SessionInvariant, PTL

-----------------------------------------------------------------------------
(* Supervision of the flag, with a server that answers in time *)

\* The outermost places of a task, those of _disconnect, of _reconnect and of
\* connect_and_login before its attempts, and those of a heartbeat.
Ground == {"watching", "commanding", "sending", "unloading", "reading", "retrying",
           "reconnecting", "backoff", "sleeping", "ponging", "pausing", "beatClosing",
           "readNext", "relisten"}
Closing == {"disconnect", "dcBeatCheck", "dcListener", "dcBeat", "dcRest", "dcClosing"}
Renewing == {"reconnect", "lockWait", "rcDisconnect", "rcSleep", "rcConnect"}
Starting == {"connect", "beatCheck", "joinListener", "joinBeat"}
Beating == {"sleeping", "ponging", "pausing", "beatClosing"}

\* A frame without a lost write, that counts attempts only once they have begun.
CalmFrame(f) ==
    /\ f.pc \notin {"helloLost", "loginLost", "beatLost"}
    /\ f.pc \in Starting => f.n = 0

(***************************************************************************)
(* How calls nest: the outermost frame is the task's own, _reconnect is    *)
(* called from there, and a failed attempt waits for its _disconnect.      *)
(***************************************************************************)
CalmStack(s) ==
    \A i \in 1 .. Len(s) :
        /\ CalmFrame(s[i])
        /\ s[i].pc \in Ground <=> i = Len(s)
        /\ s[i].pc \in Renewing =>
              i = Len(s) - 1 /\ s[i + 1].pc \in {"reconnecting", "sending"}
        /\ s[i].pc = "failing" /\ i > 1 => s[i - 1].pc \in Closing

\* Tasks stand where tasks of their kind stand, and pass only while they run.
TasksCalm ==
    /\ \A t \in Task : CalmStack(stack[t])
    /\ \A t \in Task : \A i \in 1 .. Len(stack[t]) :
          stack[t][i].pc \in Passing => i = 1 /\ running.task = t
    /\ \A b \in Beat : \A i \in 1 .. Len(stack[b]) : stack[b][i].pc \in Beating

\* _disconnect has returned to the attempt that failed.
FailedIsDown ==
    \A t \in Task :
        Alive(t) /\ running.task = t /\ Top(t).pc = "failing" => ~connected

\* A frame that will see to the channel, whatever key there is.
SeesTo(f) ==
    \/ f.pc \in {"joinBeat", "hello", "helloWait", "failing",
                 "dcBeatCheck", "dcListener", "dcBeat", "dcRest", "dcClosing"}
    \/ f.pc = "tryOpen" /\ f.n = 0

SeenTo == \E t \in Task : \E i \in 1 .. Len(stack[t]) : SeesTo(stack[t][i])
LoggingIn == \E t \in Task : \E i \in 1 .. Len(stack[t]) : stack[t][i].pc = "loginWait"

\* The flag has a beat, a login or a frame that sees to it; without a session
\* key, the latter.
FlagSeenTo ==
    connected =>
        /\ SeenTo \/ LoggingIn \/ \E b \in Beat : Alive(b)
        /\ key # "session" => SeenTo

CalmInv == TasksCalm /\ FailedIsDown /\ FlagSeenTo


-----------------------------------------------------------------------------
(* Stacks *)

\* A stack whose innermost frame was replaced, has called, or has returned.
LEMMA SeqMoves ==
    ASSUME NEW S, NEW s \in Seq(S), s # <<>>, NEW f \in S, NEW m \in S
    PROVE  /\ Len(s) \in Nat /\ Len(s) >= 1
           /\ Len(<<f>> \o Tail(s)) = Len(s) /\ (<<f>> \o Tail(s))[1] = f
           /\ \A i \in 2 .. Len(s) : (<<f>> \o Tail(s))[i] = s[i]
           /\ Len(<<f, m>> \o Tail(s)) = Len(s) + 1
           /\ (<<f, m>> \o Tail(s))[1] = f /\ (<<f, m>> \o Tail(s))[2] = m
           /\ \A i \in 3 .. Len(s) + 1 : (<<f, m>> \o Tail(s))[i] = s[i - 1]
           /\ Len(<<>> \o Tail(s)) = Len(s) - 1
           /\ \A i \in 1 .. Len(s) - 1 : (<<>> \o Tail(s))[i] = s[i + 1]
<1>1. Len(s) \in Nat /\ Len(s) >= 1
  OBVIOUS
<1>2. Tail(s) \in Seq(S) /\ Len(Tail(s)) = Len(s) - 1
      /\ \A i \in 1 .. Len(s) - 1 : Tail(s)[i] = s[i + 1]
  OBVIOUS
<1>3. <<f>> \in Seq(S) /\ <<f, m>> \in Seq(S) /\ Len(<<f>>) = 1 /\ Len(<<f, m>>) = 2
  OBVIOUS
<1> DEFINE r == Tail(s)
<1>4. r \in Seq(S) /\ Len(r) = Len(s) - 1
  BY <1>2
<1>5. /\ Len(<<f>> \o r) = Len(s) /\ (<<f>> \o r)[1] = f
      /\ \A i \in 2 .. Len(s) : (<<f>> \o r)[i] = r[i - 1]
  BY <1>1, <1>3, <1>4, ConcatProperties
<1>6. /\ Len(<<f, m>> \o r) = Len(s) + 1 /\ (<<f, m>> \o r)[1] = f /\ (<<f, m>> \o r)[2] = m
      /\ \A i \in 3 .. Len(s) + 1 : (<<f, m>> \o r)[i] = r[i - 2]
  BY <1>1, <1>3, <1>4, ConcatProperties
<1>7. <<>> \o r = r
  BY <1>4, ConcatEmptySeq
<1>8. \A i \in 2 .. Len(s) : r[i - 1] = s[i]
  BY <1>1, <1>2
<1>9. \A i \in 3 .. Len(s) + 1 : r[i - 2] = s[i - 1]
  BY <1>1, <1>2
<1> QED BY <1>1, <1>2, <1>4, <1>5, <1>6, <1>7, <1>8, <1>9

\* What the innermost frame says of the depth.
LEMMA CalmTop ==
    ASSUME NEW s \in Seq(GoodFrame), s # <<>>, CalmStack(s)
    PROVE  /\ CalmFrame(s[1])
           /\ s[1].pc \in Ground <=> Len(s) = 1
           /\ s[1].pc \in Renewing => Len(s) = 2 /\ s[2].pc \in {"reconnecting", "sending"}
<1>1. 1 \in 1 .. Len(s) /\ Len(s) \in Nat
  OBVIOUS
<1>2. /\ CalmFrame(s[1])
      /\ s[1].pc \in Ground <=> 1 = Len(s)
      /\ s[1].pc \in Renewing => 1 = Len(s) - 1 /\ s[1 + 1].pc \in {"reconnecting", "sending"}
  BY <1>1, Zenon DEF CalmStack
<1> QED BY <1>1, <1>2

\* Where the innermost frame may go.
Follows(p, q) ==
    /\ q \in Ground <=> p \in Ground
    /\ q \in Renewing => p \in Renewing
    /\ p \in Closing => q \in Closing
    /\ p \in Beating => q \in Beating

\* The innermost frame moves.
LEMMA CalmMoves ==
    ASSUME NEW s \in Seq(GoodFrame), s # <<>>, CalmStack(s), NEW f \in GoodFrame,
           CalmFrame(f), Follows(s[1].pc, f.pc)
    PROVE  CalmStack(<<f>> \o Tail(s))
<1> DEFINE r == <<f>> \o Tail(s)
<1>1. /\ Len(s) \in Nat /\ Len(s) >= 1 /\ Len(r) = Len(s) /\ r[1] = f
      /\ \A i \in 2 .. Len(s) : r[i] = s[i]
  BY SeqMoves
<1> HIDE DEF r
<1> SUFFICES ASSUME NEW i \in 1 .. Len(s)
             PROVE  /\ CalmFrame(r[i])
                    /\ r[i].pc \in Ground <=> i = Len(s)
                    /\ r[i].pc \in Renewing =>
                          i = Len(s) - 1 /\ r[i + 1].pc \in {"reconnecting", "sending"}
                    /\ r[i].pc = "failing" /\ i > 1 => r[i - 1].pc \in Closing
  BY <1>1 DEF CalmStack, r
<1>2. CASE i = 1
  <2>1. CalmFrame(r[i]) /\ (r[i].pc \in Ground <=> i = Len(s))
    BY <1>1, <1>2 DEF CalmStack, Follows
  <2>2. ASSUME r[i].pc \in Renewing
        PROVE  i = Len(s) - 1 /\ r[i + 1].pc \in {"reconnecting", "sending"}
    <3>1. s[1].pc \in Renewing
      BY <1>1, <1>2, <2>2 DEF Follows
    <3>2. 1 = Len(s) - 1 /\ s[2].pc \in {"reconnecting", "sending"}
      BY <1>1, <3>1 DEF CalmStack
    <3> QED BY <1>1, <1>2, <3>2
  <2> QED BY <1>2, <2>1, <2>2
<1>3. CASE i >= 2
  <2>1. r[i] = s[i] /\ (i + 1 \in 2 .. Len(s) => r[i + 1] = s[i + 1])
    BY <1>1, <1>3
  <2>2. CalmFrame(r[i]) /\ (r[i].pc \in Ground <=> i = Len(s))
    BY <1>1, <2>1 DEF CalmStack
  <2>3. r[i].pc \in Renewing => i = Len(s) - 1 /\ r[i + 1].pc \in {"reconnecting", "sending"}
    BY <1>1, <1>3, <2>1 DEF CalmStack
  <2>4. ASSUME r[i].pc = "failing"
        PROVE  r[i - 1].pc \in Closing
    <3>1. s[i - 1].pc \in Closing
      BY <1>1, <1>3, <2>1, <2>4 DEF CalmStack
    <3>2. CASE i = 2
      BY <1>1, <3>1, <3>2 DEF Follows
    <3>3. CASE i > 2
      <4>1. r[i - 1] = s[i - 1]
        BY <1>1, <3>3
      <4> QED BY <3>1, <4>1
    <3> QED BY <1>3, <3>2, <3>3
  <2> QED BY <2>2, <2>3, <2>4
<1> QED BY <1>1, <1>2, <1>3

\* The innermost frame moves and calls.
LEMMA CalmCalls ==
    ASSUME NEW s \in Seq(GoodFrame), s # <<>>, CalmStack(s),
           NEW c \in GoodFrame, NEW m \in GoodFrame, CalmFrame(c), CalmFrame(m),
           m.pc \in Ground <=> s[1].pc \in Ground, m.pc \in Renewing => s[1].pc \in Renewing,
           s[1].pc \notin Closing, c.pc \notin Ground,
           c.pc \in Renewing => m.pc \in {"reconnecting", "sending"},
           m.pc = "failing" => c.pc \in Closing
    PROVE  CalmStack(<<c, m>> \o Tail(s))
<1> DEFINE r == <<c, m>> \o Tail(s)
<1>1. /\ Len(s) \in Nat /\ Len(s) >= 1 /\ Len(r) = Len(s) + 1 /\ r[1] = c /\ r[2] = m
      /\ \A i \in 3 .. Len(s) + 1 : r[i] = s[i - 1]
  BY SeqMoves
<1> HIDE DEF r
<1> SUFFICES ASSUME NEW i \in 1 .. Len(s) + 1
             PROVE  /\ CalmFrame(r[i])
                    /\ r[i].pc \in Ground <=> i = Len(s) + 1
                    /\ r[i].pc \in Renewing =>
                          i = Len(s) /\ r[i + 1].pc \in {"reconnecting", "sending"}
                    /\ r[i].pc = "failing" /\ i > 1 => r[i - 1].pc \in Closing
  BY <1>1 DEF CalmStack, r
<1>2. CASE i = 1
  <2>1. CalmFrame(r[i]) /\ (r[i].pc \in Ground <=> i = Len(s) + 1)
    BY <1>1, <1>2
  <2>2. ASSUME r[i].pc \in Renewing
        PROVE  i = Len(s) /\ r[i + 1].pc \in {"reconnecting", "sending"}
    <3>1. m.pc \in {"reconnecting", "sending"}
      BY <1>1, <1>2, <2>2
    <3>2. s[1].pc \in Ground
      BY <3>1 DEF Ground
    <3>3. 1 = Len(s)
      BY <3>2, CalmTop
    <3>4. r[i + 1] = m
      BY <1>1, <1>2
    <3> QED BY <1>2, <3>1, <3>3, <3>4
  <2> QED BY <1>2, <2>1, <2>2
<1>3. CASE i = 2
  <2>1. CalmFrame(r[i]) /\ (r[i].pc \in Ground <=> i = Len(s) + 1)
    BY <1>1, <1>3 DEF CalmStack
  <2>2. ASSUME r[i].pc \in Renewing
        PROVE  i = Len(s) /\ r[i + 1].pc \in {"reconnecting", "sending"}
    <3>1. s[1].pc \in Renewing
      BY <1>1, <1>3, <2>2
    <3>2. 1 = Len(s) - 1 /\ s[2].pc \in {"reconnecting", "sending"}
      BY <3>1, CalmTop
    <3>3. r[i + 1] = s[2]
      BY <1>1, <1>3, <3>2
    <3> QED BY <1>3, <3>2, <3>3
  <2>3. r[i].pc = "failing" => r[i - 1].pc \in Closing
    BY <1>1, <1>3
  <2> QED BY <2>1, <2>2, <2>3
<1>4. CASE i >= 3
  <2>1. r[i] = s[i - 1] /\ i - 1 \in 2 .. Len(s)
    BY <1>1, <1>4
  <2>2. CalmFrame(r[i]) /\ (r[i].pc \in Ground <=> i = Len(s) + 1)
    BY <1>1, <2>1 DEF CalmStack
  <2>3. ASSUME r[i].pc \in Renewing
        PROVE  i = Len(s) /\ r[i + 1].pc \in {"reconnecting", "sending"}
    <3>1. i - 1 = Len(s) - 1 /\ s[i].pc \in {"reconnecting", "sending"}
      BY <1>1, <2>1, <2>3 DEF CalmStack
    <3>2. r[i + 1] = s[i]
      BY <1>1, <1>4, <3>1
    <3> QED BY <1>1, <3>1, <3>2
  <2>4. ASSUME r[i].pc = "failing"
        PROVE  r[i - 1].pc \in Closing
    <3>1. s[i - 2].pc \in Closing
      BY <1>1, <1>4, <2>1, <2>4 DEF CalmStack
    <3>2. i # 3
      BY <3>1
    <3>3. r[i - 1] = s[i - 2]
      BY <1>1, <1>4, <3>2
    <3> QED BY <3>1, <3>3
  <2> QED BY <2>2, <2>3, <2>4
<1> QED BY <1>2, <1>3, <1>4

\* The innermost frame returns.
LEMMA CalmReturns ==
    ASSUME NEW s \in Seq(GoodFrame), s # <<>>, CalmStack(s)
    PROVE  CalmStack(<<>> \o Tail(s))
<1> DEFINE r == <<>> \o Tail(s)
<1>1. /\ Len(s) \in Nat /\ Len(s) >= 1 /\ Len(r) = Len(s) - 1
      /\ \A i \in 1 .. Len(s) - 1 : r[i] = s[i + 1]
  BY SeqMoves
<1> HIDE DEF r
<1> SUFFICES ASSUME NEW i \in 1 .. Len(r)
             PROVE  /\ CalmFrame(r[i])
                    /\ r[i].pc \in Ground <=> i = Len(r)
                    /\ r[i].pc \in Renewing =>
                          i = Len(r) - 1 /\ r[i + 1].pc \in {"reconnecting", "sending"}
                    /\ r[i].pc = "failing" /\ i > 1 => r[i - 1].pc \in Closing
  BY DEF CalmStack, r
<1>2. r[i] = s[i + 1] /\ i + 1 \in 2 .. Len(s)
  BY <1>1
<1>3. CalmFrame(r[i]) /\ (r[i].pc \in Ground <=> i = Len(r))
  BY <1>1, <1>2 DEF CalmStack
<1>4. ASSUME r[i].pc \in Renewing
      PROVE  i = Len(r) - 1 /\ r[i + 1].pc \in {"reconnecting", "sending"}
  <2>1. i + 1 = Len(s) - 1 /\ s[i + 2].pc \in {"reconnecting", "sending"}
    BY <1>1, <1>2, <1>4 DEF CalmStack
  <2> QED BY <1>1, <2>1
<1>5. ASSUME r[i].pc = "failing", i > 1
      PROVE  r[i - 1].pc \in Closing
  <2>1. s[i].pc \in Closing
    BY <1>1, <1>2, <1>5 DEF CalmStack
  <2> QED BY <1>1, <1>5, <2>1
<1> QED BY <1>3, <1>4, <1>5


-----------------------------------------------------------------------------
(* Steps *)

\* What a step of t may do to the other tasks, and what it does to them when
\* it cancels none.
Aside(t) ==
    \A u \in Task \ {t} :
        \/ stack'[u] = stack[u] \/ stack'[u] = <<>>
        \/ u \in Beat /\ stack'[u] = <<Frame("sleeping")>>
        \/ u \notin Beat /\ stack'[u] = <<Frame("retrying")>>
Spares(t) == \A u \in Task \ {t} : stack'[u] = stack[u] \/ stack[u] = <<>>

\* t, whose turn it is, replaces its innermost frame.
Turns(t, frames) ==
    /\ Alive(t)
    /\ running.task \in {t, None} /\ running'.task \in {t, None}
    /\ stack'[t] = frames \o Tail(stack[t])
    /\ Aside(t)

\* The stacks after a step that replaces t's innermost frame.
LEMMA WithAt ==
    ASSUME StackOK, NEW t \in Task, NEW frames
    PROVE  /\ With(t, frames)[t] = frames \o Tail(stack[t])
           /\ \A u \in Task \ {t} : With(t, frames)[u] = stack[u]
BY DEF StackOK, With

\* Waiting and going on are such steps.
LEMMA TurnsOf ==
    ASSUME StackOK, NEW t \in Task, NEW frames, NEW p, Now(t, p) \/ At(t, p),
           Waits(With(t, frames)) \/ Goes(t, With(t, frames))
    PROVE  Turns(t, frames) /\ Spares(t)
<1>1. Alive(t) /\ running.task \in {t, None}
  BY DEF Now, At, Nobody
<1>2. stack' = With(t, frames) /\ running'.task \in {t, None}
  BY DEF Waits, Goes, RunsOn, Nobody
<1> QED BY <1>1, <1>2, WithAt DEF Turns, Aside, Spares

\* So is returning.
LEMMA ReturnTurns ==
    ASSUME StackOK, NEW t \in Task, NEW p, Now(t, p) \/ At(t, p), NEW value, Returns(t, value)
    PROVE  Turns(t, <<>>) /\ Spares(t)
<1>1. Alive(t) /\ running.task \in {t, None}
  BY DEF Now, At, Nobody
<1>2. stack' = With(t, <<>>) /\ running'.task \in {t, None}
  BY DEF Returns, RunsOn, Nobody
<1> QED BY <1>1, <1>2, WithAt DEF Turns, Aside, Spares

\* And cancelling, which may end one other task.
LEMMA CancelTurns ==
    ASSUME StackOK, FlagsOK, NEW t \in Task, NEW p, Now(t, p) \/ At(t, p), NEW u, NEW frame,
           Cancels(t, u, frame)
    PROVE  Turns(t, <<[frame EXCEPT !.who = u]>>) /\ (connected' => connected)
<1> DEFINE frames == <<[frame EXCEPT !.who = u]>>
<1>1. Alive(t) /\ running.task \in {t, None}
  BY DEF Now, At, Nobody
<1>2. running' = Nobody
      /\ \/ stack' = With(t, frames) /\ connected' = connected
         \/ \E v : v # t /\ stack' = [With(t, frames) EXCEPT ![v] = <<>>]
                   /\ (connected' => connected)
  BY DEF Cancels, Waits, Unwinds, FlagsOK
<1>3. \A v : v # t => /\ [With(t, frames) EXCEPT ![v] = <<>>][t] = With(t, frames)[t]
                      /\ \A x \in Task \ {t} :
                            [With(t, frames) EXCEPT ![v] = <<>>][x] \in {With(t, frames)[x], <<>>}
  BY DEF StackOK, With
<1>4. /\ With(t, frames)[t] = frames \o Tail(stack[t])
      /\ \A x \in Task \ {t} : With(t, frames)[x] = stack[x]
  BY WithAt
<1> HIDE DEF frames
<1>5. stack'[t] = frames \o Tail(stack[t]) /\ \A x \in Task \ {t} : stack'[x] \in {stack[x], <<>>}
  BY <1>2, <1>3, <1>4
<1>6. Turns(t, frames)
  BY <1>1, <1>2, <1>5 DEF Turns, Aside, Nobody
<1> QED BY <1>2, <1>6 DEF frames

\* A task that was just created is calm.
LEMMA FreshCalm == CalmStack(<<Frame("sleeping")>>) /\ CalmStack(<<Frame("retrying")>>)
BY DEF CalmStack, CalmFrame, Frame, Ground, Renewing

\* A step is calm when the stack of the task that takes it is.
LEMMA StepCalm ==
    ASSUME StackOK', CalmInv, NEW t \in Task, Aside(t),
           running.task \in {t, None}, running'.task \in {t, None},
           CalmStack(stack'[t]),
           \A i \in 1 .. Len(stack'[t]) :
               /\ stack'[t][i].pc \in Passing => i = 1 /\ running'.task = t
               /\ t \in Beat => stack'[t][i].pc \in Beating
               /\ i = 1 /\ stack'[t][i].pc = "failing" /\ running'.task = t => ~connected'
    PROVE  TasksCalm' /\ FailedIsDown'
<1>1. None \notin Task
  BY SessionAssumption DEF Task
<1>2. ASSUME NEW u \in Task, u # t
      PROVE  /\ CalmStack(stack'[u])
             /\ \A i \in 1 .. Len(stack'[u]) :
                   /\ stack'[u][i].pc \notin Passing
                   /\ u \in Beat => stack'[u][i].pc \in Beating
  <2>1. /\ CalmStack(stack[u])
        /\ \A i \in 1 .. Len(stack[u]) :
              /\ stack[u][i].pc \notin Passing
              /\ u \in Beat => stack[u][i].pc \in Beating
    BY <1>1, <1>2 DEF CalmInv, TasksCalm
  <2>2. CASE stack'[u] = stack[u]
    BY <2>1, <2>2
  <2>3. CASE stack'[u] = <<>>
    BY <2>3 DEF CalmStack
  <2>4. CASE u \in Beat /\ stack'[u] = <<Frame("sleeping")>>
    BY <2>4, FreshCalm DEF Frame, Passing, Beating
  <2>5. CASE u \notin Beat /\ stack'[u] = <<Frame("retrying")>>
    BY <2>5, FreshCalm DEF Frame, Passing
  <2> QED BY <1>2, <2>2, <2>3, <2>4, <2>5 DEF Aside
<1>3. \A u \in Task : CalmStack(stack'[u])
  BY <1>2
<1>4. \A u \in Task : \A i \in 1 .. Len(stack'[u]) :
          stack'[u][i].pc \in Passing => i = 1 /\ running'.task = u
  BY <1>2
<1>5. \A b \in Beat : \A i \in 1 .. Len(stack'[b]) : stack'[b][i].pc \in Beating
  BY <1>2 DEF Task
<1>6. TasksCalm'
  BY <1>3, <1>4, <1>5 DEF TasksCalm
<1>7. FailedIsDown'
  <2> SUFFICES ASSUME NEW u \in Task, Alive(u)', running'.task = u, Top(u)'.pc = "failing"
               PROVE  ~connected'
    BY DEF FailedIsDown
  <2>1. u = t
    BY <1>1
  <2>2. stack'[t] \in Seq(GoodFrame) /\ stack'[t] # <<>>
    BY <2>1 DEF StackOK, Alive
  <2>3. Top(u)' = stack'[t][1] /\ 1 \in 1 .. Len(stack'[t])
    BY <2>1, <2>2 DEF Top
  <2> QED BY <2>1, <2>3
<1> QED BY <1>6, <1>7


\* What t held below its innermost frame is still there.
Carried(t) ==
    \A i \in 2 .. Len(stack[t]) : \E j \in 1 .. Len(stack'[t]) : stack'[t][j] = stack[t][i]

\* What a calm task that is not passing holds below its innermost frame.
LEMMA Below ==
    ASSUME StackOK, CalmInv, NEW t \in Task, Alive(t)
    PROVE  /\ stack[t] \in Seq(GoodFrame) /\ stack[t] # <<>> /\ CalmStack(stack[t])
           /\ Len(stack[t]) \in Nat /\ Len(stack[t]) >= 1
           /\ Top(t) = stack[t][1] /\ Top(t) \in GoodFrame /\ CalmFrame(Top(t))
           /\ t \in Beat => Top(t).pc \in Beating
           /\ \A i \in 2 .. Len(stack[t]) :
                 /\ stack[t][i].pc \notin Passing
                 /\ t \in Beat => stack[t][i].pc \in Beating
<1>1. stack[t] \in Seq(GoodFrame) /\ stack[t] # <<>> /\ CalmStack(stack[t])
  BY DEF StackOK, Alive, CalmInv, TasksCalm
<1>2. Len(stack[t]) \in Nat /\ Len(stack[t]) >= 1 /\ Top(t) = stack[t][1] /\ Top(t) \in GoodFrame
  BY <1>1 DEF Top
<1>3. CalmFrame(Top(t))
  BY <1>1, <1>2, CalmTop
<1>4. 1 \in 1 .. Len(stack[t])
  BY <1>2
<1>5. t \in Beat => Top(t).pc \in Beating
  BY <1>2, <1>4 DEF CalmInv, TasksCalm
<1>6. \A i \in 2 .. Len(stack[t]) : i \in 1 .. Len(stack[t]) /\ i # 1
  BY <1>2
<1>7. \A i \in 2 .. Len(stack[t]) :
          stack[t][i].pc \notin Passing /\ (t \in Beat => stack[t][i].pc \in Beating)
  BY <1>6 DEF CalmInv, TasksCalm
<1> QED BY <1>1, <1>2, <1>3, <1>5, <1>7

\* t's innermost frame moves.
LEMMA MoveCalm ==
    ASSUME StackOK, StackOK', CalmInv, NEW t \in Task, NEW f \in GoodFrame, Turns(t, <<f>>),
           CalmFrame(f), Follows(Top(t).pc, f.pc), f.pc # "failing",
           f.pc \in Passing => running'.task = t
    PROVE  /\ TasksCalm' /\ FailedIsDown' /\ Carried(t)
           /\ 1 \in 1 .. Len(stack'[t]) /\ stack'[t][1] = f
<1>1. /\ stack[t] \in Seq(GoodFrame) /\ stack[t] # <<>> /\ CalmStack(stack[t])
      /\ Len(stack[t]) \in Nat /\ Len(stack[t]) >= 1
      /\ Top(t) = stack[t][1] /\ (t \in Beat => Top(t).pc \in Beating)
      /\ \A i \in 2 .. Len(stack[t]) :
            stack[t][i].pc \notin Passing /\ (t \in Beat => stack[t][i].pc \in Beating)
  BY Below DEF Turns
<1>2. stack'[t] = <<f>> \o Tail(stack[t])
  BY DEF Turns
<1>3. CalmStack(stack'[t])
  BY <1>1, <1>2, CalmMoves
<1>4. /\ Len(stack'[t]) = Len(stack[t]) /\ stack'[t][1] = f
      /\ \A i \in 2 .. Len(stack[t]) : stack'[t][i] = stack[t][i]
  BY <1>1, <1>2, SeqMoves
<1>5. ASSUME NEW i \in 1 .. Len(stack'[t])
      PROVE  /\ stack'[t][i].pc \in Passing => i = 1 /\ running'.task = t
             /\ t \in Beat => stack'[t][i].pc \in Beating
             /\ i = 1 /\ stack'[t][i].pc = "failing" /\ running'.task = t => ~connected'
  <2>1. CASE i = 1
    BY <1>1, <1>4, <2>1 DEF Follows
  <2>2. CASE i # 1
    <3>1. i \in 2 .. Len(stack[t])
      BY <1>1, <1>4, <2>2
    <3> QED BY <1>1, <1>4, <2>2, <3>1
  <2> QED BY <2>1, <2>2
<1>6. TasksCalm' /\ FailedIsDown'
  BY <1>3, <1>5, StepCalm DEF Turns
<1>7. Carried(t)
  BY <1>1, <1>4 DEF Carried
<1> QED BY <1>1, <1>4, <1>6, <1>7

\* Which frame may call which.
MayCall(p, m, c) ==
    /\ p \notin Closing \cup Beating /\ m \notin Passing /\ c \notin Ground \cup {"failing"}
    /\ m \in Ground <=> p \in Ground
    /\ m \in Renewing => p \in Renewing
    /\ c \in Renewing => m \in {"reconnecting", "sending"}
    /\ m = "failing" => c \in Closing

\* t's innermost frame moves and calls.
LEMMA CallCalm ==
    ASSUME StackOK, StackOK', CalmInv, NEW t \in Task, NEW c \in GoodFrame, NEW m \in GoodFrame,
           Turns(t, <<c, m>>), CalmFrame(c), CalmFrame(m), MayCall(Top(t).pc, m.pc, c.pc),
           running'.task = t
    PROVE  /\ TasksCalm' /\ FailedIsDown' /\ Carried(t)
           /\ 2 \in 1 .. Len(stack'[t]) /\ stack'[t][2] = m
<1>1. /\ stack[t] \in Seq(GoodFrame) /\ stack[t] # <<>> /\ CalmStack(stack[t])
      /\ Len(stack[t]) \in Nat /\ Len(stack[t]) >= 1
      /\ Top(t) = stack[t][1] /\ (t \in Beat => Top(t).pc \in Beating)
      /\ \A i \in 2 .. Len(stack[t]) :
            stack[t][i].pc \notin Passing /\ (t \in Beat => stack[t][i].pc \in Beating)
  BY Below DEF Turns
<1>2. stack'[t] = <<c, m>> \o Tail(stack[t])
  BY DEF Turns
<1>3. CalmStack(<<c, m>> \o Tail(stack[t]))
  BY <1>1, CalmCalls DEF MayCall
<1>4. /\ Len(stack'[t]) = Len(stack[t]) + 1 /\ stack'[t][1] = c /\ stack'[t][2] = m
      /\ \A i \in 3 .. Len(stack[t]) + 1 : stack'[t][i] = stack[t][i - 1]
  BY <1>1, <1>2, SeqMoves
<1>5. ASSUME NEW i \in 1 .. Len(stack'[t])
      PROVE  /\ stack'[t][i].pc \in Passing => i = 1 /\ running'.task = t
             /\ t \in Beat => stack'[t][i].pc \in Beating
             /\ i = 1 /\ stack'[t][i].pc = "failing" /\ running'.task = t => ~connected'
  <2>1. CASE i = 1
    BY <1>1, <1>4, <2>1 DEF MayCall
  <2>2. CASE i = 2
    BY <1>1, <1>4, <2>2 DEF MayCall
  <2>3. CASE i >= 3
    <3>1. i - 1 \in 2 .. Len(stack[t]) /\ i \in 3 .. Len(stack[t]) + 1
      BY <1>1, <1>4, <2>3
    <3>2. stack'[t][i] = stack[t][i - 1]
      BY <1>4, <3>1
    <3> QED BY <1>1, <2>3, <3>1, <3>2
  <2> QED BY <2>1, <2>2, <2>3
<1>6. TasksCalm' /\ FailedIsDown'
  BY <1>2, <1>3, <1>5, StepCalm DEF Turns
<1>7. Carried(t)
  <2> SUFFICES ASSUME NEW i \in 2 .. Len(stack[t])
               PROVE  i + 1 \in 1 .. Len(stack'[t]) /\ stack'[t][i + 1] = stack[t][i]
    BY DEF Carried
  <2>1. i + 1 \in 3 .. Len(stack[t]) + 1 /\ (i + 1) - 1 = i
    BY <1>1
  <2>2. stack'[t][i + 1] = stack[t][(i + 1) - 1]
    BY <1>4, <2>1
  <2>3. i + 1 \in 1 .. Len(stack'[t])
    BY <1>1, <1>4
  <2> QED BY <2>1, <2>2, <2>3
<1> QED BY <1>1, <1>4, <1>6, <1>7

\* t's innermost frame returns.
LEMMA ReturnCalm ==
    ASSUME StackOK, StackOK', CalmInv, NEW t \in Task, Turns(t, <<>>),
           Top(t).pc \in Closing => ~connected'
    PROVE  TasksCalm' /\ FailedIsDown' /\ Carried(t)
<1>1. /\ stack[t] \in Seq(GoodFrame) /\ stack[t] # <<>> /\ CalmStack(stack[t])
      /\ Len(stack[t]) \in Nat /\ Len(stack[t]) >= 1
      /\ Top(t) = stack[t][1] /\ Top(t) \in GoodFrame
      /\ \A i \in 2 .. Len(stack[t]) :
            stack[t][i].pc \notin Passing /\ (t \in Beat => stack[t][i].pc \in Beating)
  BY Below DEF Turns
<1>2. stack'[t] = <<>> \o Tail(stack[t])
  BY DEF Turns
<1>3. CalmStack(<<>> \o Tail(stack[t]))
  BY <1>1, CalmReturns
<1>4. /\ Len(stack'[t]) = Len(stack[t]) - 1
      /\ \A i \in 1 .. Len(stack[t]) - 1 : stack'[t][i] = stack[t][i + 1]
  BY <1>1, <1>2, SeqMoves
<1>5. ASSUME NEW i \in 1 .. Len(stack'[t])
      PROVE  /\ stack'[t][i].pc \in Passing => i = 1 /\ running'.task = t
             /\ t \in Beat => stack'[t][i].pc \in Beating
             /\ i = 1 /\ stack'[t][i].pc = "failing" /\ running'.task = t => ~connected'
  <2>1. i + 1 \in 2 .. Len(stack[t]) /\ i \in 1 .. Len(stack[t]) - 1
    BY <1>1, <1>4
  <2>2. stack'[t][i] = stack[t][i + 1]
    BY <1>4, <2>1
  <2>3. ASSUME i = 1, stack'[t][i].pc = "failing"
        PROVE  ~connected'
    <3>1. 2 \in 1 .. Len(stack[t]) /\ stack[t][2].pc = "failing" /\ 2 > 1
      BY <1>1, <2>1, <2>2, <2>3
    <3>2. stack[t][2 - 1].pc \in Closing
      BY <1>1, <3>1 DEF CalmStack
    <3> QED BY <1>1, <3>2
  <2> QED BY <1>1, <2>1, <2>2, <2>3
<1>6. TasksCalm' /\ FailedIsDown'
  BY <1>2, <1>3, <1>5, StepCalm DEF Turns
<1>7. Carried(t)
  <2> SUFFICES ASSUME NEW i \in 2 .. Len(stack[t])
               PROVE  i - 1 \in 1 .. Len(stack'[t]) /\ stack'[t][i - 1] = stack[t][i]
    BY DEF Carried
  <2>1. i - 1 \in 1 .. Len(stack[t]) - 1 /\ (i - 1) + 1 = i
    BY <1>1
  <2>2. stack'[t][i - 1] = stack[t][(i - 1) + 1]
    BY <1>4, <2>1
  <2>3. i - 1 \in 1 .. Len(stack'[t])
    BY <1>1, <1>4
  <2> QED BY <2>1, <2>2, <2>3
<1> QED BY <1>6, <1>7

\* Who sees to the channel goes on doing so, but for t's innermost frame.
LEMMA SeenKept ==
    ASSUME StackOK, NEW t \in Task, Spares(t), Carried(t), SeenTo,
           Alive(t) => ~SeesTo(Top(t))
    PROVE  SeenTo'
<1>0. PICK u \in Task : \E i \in 1 .. Len(stack[u]) : SeesTo(stack[u][i])
  BY DEF SeenTo
<1>1. PICK i \in 1 .. Len(stack[u]) : SeesTo(stack[u][i])
  BY <1>0
<1>2. stack[u] \in Seq(GoodFrame) /\ stack[u] # <<>>
  BY DEF StackOK
<1>3. CASE u # t
  <2>1. stack'[u] = stack[u]
    BY <1>2, <1>3 DEF Spares
  <2> QED BY <1>1, <2>1 DEF SeenTo, SeesTo
<1>4. CASE u = t
  <2>1. Alive(t) /\ Top(t) = stack[t][1]
    BY <1>2, <1>4, SessionAssumption DEF Alive, Top, Task
  <2>2. i \in 2 .. Len(stack[t])
    BY <1>1, <1>2, <1>4, <2>1
  <2>3. PICK j \in 1 .. Len(stack'[t]) : stack'[t][j] = stack[t][i]
    BY <2>2 DEF Carried
  <2>4. SeesTo(stack'[t][j])
    BY <1>1, <1>4, <2>3
  <2> QED BY <2>4 DEF SeenTo, SeesTo
<1> QED BY <1>3, <1>4

\* So do logins and beats.
LEMMA OthersKept ==
    ASSUME StackOK, NEW t \in Task, Spares(t), Carried(t),
           Alive(t) => Top(t).pc # "loginWait", t \in Beat /\ Alive(t) => stack'[t] # <<>>
    PROVE  /\ LoggingIn => LoggingIn'
           /\ (\E b \in Beat : Alive(b)) => \E b \in Beat : Alive(b)'
<1>1. ASSUME LoggingIn
      PROVE  LoggingIn'
  <2>0. PICK u \in Task : \E i \in 1 .. Len(stack[u]) : stack[u][i].pc = "loginWait"
    BY <1>1 DEF LoggingIn
  <2>1. PICK i \in 1 .. Len(stack[u]) : stack[u][i].pc = "loginWait"
    BY <2>0
  <2>2. stack[u] \in Seq(GoodFrame) /\ stack[u] # <<>>
    BY DEF StackOK
  <2>3. CASE u # t
    <3>1. stack'[u] = stack[u]
      BY <2>2, <2>3 DEF Spares
    <3> QED BY <2>1, <3>1 DEF LoggingIn
  <2>4. CASE u = t
    <3>1. Alive(t) /\ Top(t) = stack[t][1]
      BY <2>2, <2>4, SessionAssumption DEF Alive, Top, Task
    <3>2. i \in 2 .. Len(stack[t])
      BY <2>1, <2>2, <2>4, <3>1
    <3>3. PICK j \in 1 .. Len(stack'[t]) : stack'[t][j] = stack[t][i]
      BY <3>2 DEF Carried
    <3>4. stack'[t][j].pc = "loginWait"
      BY <2>1, <2>4, <3>3
    <3> QED BY <3>4 DEF LoggingIn
  <2> QED BY <2>3, <2>4
<1>2. ASSUME NEW b \in Beat, Alive(b)
      PROVE  Alive(b)'
  BY <1>2 DEF Alive, Spares, Task
<1> QED BY <1>1, <1>2

\* The flag stays seen to when t's innermost frame has no part in it.
LEMMA FlagKept ==
    ASSUME StackOK, CalmInv, NEW t \in Task, Spares(t), Carried(t),
           Alive(t) => ~SeesTo(Top(t)) /\ Top(t).pc # "loginWait",
           t \in Beat /\ Alive(t) => stack'[t] # <<>>,
           connected' => connected, key' # "session" => key # "session" \/ SeenTo
    PROVE  FlagSeenTo'
<1> SUFFICES ASSUME connected'
             PROVE  /\ SeenTo' \/ LoggingIn' \/ \E b \in Beat : Alive(b)'
                    /\ key' # "session" => SeenTo'
  BY DEF FlagSeenTo
<1>1. /\ SeenTo \/ LoggingIn \/ \E b \in Beat : Alive(b)
      /\ key # "session" => SeenTo
  BY DEF CalmInv, FlagSeenTo
<1>2. SeenTo => SeenTo'
  BY SeenKept
<1>3. /\ LoggingIn => LoggingIn'
      /\ (\E b \in Beat : Alive(b)) => \E b \in Beat : Alive(b)'
  BY OthersKept
<1> QED BY <1>1, <1>2, <1>3

\* The flag is seen to by a frame of t.
LEMMA FlagTaken ==
    ASSUME NEW t \in Task, NEW i \in 1 .. Len(stack'[t]), connected' => SeesTo(stack'[t][i])
    PROVE  FlagSeenTo'
<1>1. connected' => SeenTo'
  BY DEF SeenTo, SeesTo
<1> QED BY <1>1 DEF FlagSeenTo


-----------------------------------------------------------------------------
(* Steps that stay calm *)

\* Places whose frame has, or may have, a part in keeping the flag.
Heeding == {"joinBeat", "hello", "helloWait", "failing", "dcBeatCheck", "dcListener", "dcBeat",
            "dcRest", "dcClosing", "tryOpen", "loginWait"}

\* Where a frame may go that keeps its attempt.
Leads(p, q) ==
    /\ q \in (Awaiting \cup Passing) \ {"helloLost", "loginLost", "beatLost", "failing"}
    /\ Follows(p, q)
    /\ q \in Starting => p \in Starting
    /\ q \in Attempting => p \in Attempting

\* A frame that moves so is calm.
LEMMA MovedCalm ==
    ASSUME StackOK, CalmInv, NEW t \in Task, Alive(t), NEW q, Leads(Top(t).pc, q)
    PROVE  /\ Moved(t, q) \in GoodFrame /\ CalmFrame(Moved(t, q))
           /\ Moved(t, q).pc = q /\ Moved(t, q).n = Top(t).n
<1>1. Top(t) \in FrameType /\ CalmFrame(Top(t))
  BY Below DEF GoodFrame
<1>2. Moved(t, q) \in GoodFrame
  BY MovedFrame DEF Leads
<1>3. Moved(t, q).pc = q /\ Moved(t, q).n = Top(t).n
  BY <1>1 DEF Moved, FrameType
<1>4. CalmFrame(Moved(t, q))
  BY <1>1, <1>3 DEF CalmFrame, Leads
<1> QED BY <1>2, <1>3, <1>4

\* t's innermost frame moves to a place where the flag is seen to or down.
LEMMA MoveTaken ==
    ASSUME StackOK, StackOK', CalmInv, NEW t \in Task, NEW f \in GoodFrame, Turns(t, <<f>>),
           CalmFrame(f), Follows(Top(t).pc, f.pc), f.pc # "failing",
           f.pc \in Passing => running'.task = t,
           connected' => SeesTo(f)
    PROVE  CalmInv'
<1>1. TasksCalm' /\ FailedIsDown' /\ 1 \in 1 .. Len(stack'[t]) /\ stack'[t][1] = f
  BY MoveCalm
<1>2. FlagSeenTo'
  BY <1>1, FlagTaken
<1> QED BY <1>1, <1>2 DEF CalmInv

\* It moves from a place that has no part in the flag.
LEMMA MoveKept ==
    ASSUME StackOK, StackOK', CalmInv, NEW t \in Task, NEW f \in GoodFrame, Turns(t, <<f>>),
           CalmFrame(f), Follows(Top(t).pc, f.pc), f.pc # "failing",
           f.pc \in Passing => running'.task = t,
           Spares(t), Top(t).pc \notin Heeding,
           connected' => connected, key' # "session" => key # "session" \/ SeenTo
    PROVE  CalmInv'
<1>1. /\ TasksCalm' /\ FailedIsDown' /\ Carried(t)
      /\ 1 \in 1 .. Len(stack'[t])
  BY MoveCalm
<1>2. stack'[t] # <<>>
  BY <1>1
<1>3. ~SeesTo(Top(t)) /\ Top(t).pc # "loginWait"
  BY DEF SeesTo, Heeding
<1>4. FlagSeenTo'
  BY <1>1, <1>2, <1>3, FlagKept
<1> QED BY <1>1, <1>4 DEF CalmInv

\* It calls; the frame it leaves behind sees to the flag, or the flag is down.
LEMMA CallTaken ==
    ASSUME StackOK, StackOK', CalmInv, NEW t \in Task, NEW c \in GoodFrame, NEW m \in GoodFrame,
           Turns(t, <<c, m>>), CalmFrame(c), CalmFrame(m), MayCall(Top(t).pc, m.pc, c.pc),
           running'.task = t, connected' => SeesTo(m)
    PROVE  CalmInv'
<1>1. TasksCalm' /\ FailedIsDown' /\ 2 \in 1 .. Len(stack'[t]) /\ stack'[t][2] = m
  BY CallCalm
<1>2. FlagSeenTo'
  BY <1>1, FlagTaken
<1> QED BY <1>1, <1>2 DEF CalmInv

\* It calls from a place that has no part in the flag.
LEMMA CallKept ==
    ASSUME StackOK, StackOK', CalmInv, NEW t \in Task, NEW c \in GoodFrame, NEW m \in GoodFrame,
           Turns(t, <<c, m>>), CalmFrame(c), CalmFrame(m), MayCall(Top(t).pc, m.pc, c.pc),
           running'.task = t, Spares(t), Top(t).pc \notin Heeding, UNCHANGED <<connected, key>>
    PROVE  CalmInv'
<1>1. /\ TasksCalm' /\ FailedIsDown' /\ Carried(t)
      /\ 2 \in 1 .. Len(stack'[t])
  BY CallCalm
<1>2. stack'[t] # <<>>
  BY <1>1
<1>3. ~SeesTo(Top(t)) /\ Top(t).pc # "loginWait"
  BY DEF SeesTo, Heeding
<1>4. FlagSeenTo'
  BY <1>1, <1>2, <1>3, FlagKept
<1> QED BY <1>1, <1>4 DEF CalmInv

\* It returns, and the flag is down.
LEMMA ReturnDown ==
    ASSUME StackOK, StackOK', CalmInv, NEW t \in Task, Turns(t, <<>>), ~connected'
    PROVE  CalmInv'
<1>1. TasksCalm' /\ FailedIsDown'
  BY ReturnCalm
<1> QED BY <1>1 DEF CalmInv, FlagSeenTo

\* It returns from a place that has no part in the flag.
LEMMA ReturnKept ==
    ASSUME StackOK, StackOK', CalmInv, NEW t \in Task, Turns(t, <<>>), Spares(t),
           Top(t).pc \notin Closing \cup Beating, ~SeesTo(Top(t)), Top(t).pc # "loginWait",
           UNCHANGED <<connected, key>>
    PROVE  CalmInv'
<1>1. TasksCalm' /\ FailedIsDown' /\ Carried(t)
  BY ReturnCalm
<1>2. Alive(t) /\ t \notin Beat
  BY Below DEF Turns
<1>3. FlagSeenTo'
  BY <1>1, <1>2, FlagKept
<1> QED BY <1>1, <1>3 DEF CalmInv

\* The moves of the calls, one by one.
LEMMA Ways ==
    /\ Leads("disconnect", "dcBeatCheck") /\ Leads("disconnect", "dcListener")
    /\ \A p \in {"dcBeatCheck", "dcListener"} : Leads(p, "dcBeat") /\ Leads(p, "dcRest")
    /\ \A p \in {"dcRest", "dcBeat"} : Leads(p, "dcClosing")
    /\ Leads("reconnect", "lockWait") /\ Leads("rcDisconnect", "rcSleep")
    /\ Leads("connect", "joinListener") /\ Leads("connect", "beatCheck")
    /\ \A p \in {"beatCheck", "joinListener"} : Leads(p, "joinBeat") /\ Leads(p, "tryOpen")
    /\ Leads("joinBeat", "tryOpen") /\ Leads("opening", "hello") /\ Leads("opening", "tryOpen")
    /\ Leads("hello", "helloWait") /\ Leads("helloWait", "loginWait")
    /\ Leads("failing", "clBackoff") /\ Leads("clBackoff", "tryOpen")
    /\ \A p \in {"retrying", "readNext"} :
          \A q \in {"relisten", "retrying", "reading"} : Leads(p, q)
    /\ Leads("reading", "readNext") /\ Leads("reading", "relisten")
    /\ Leads("reconnecting", "backoff")
    /\ Leads("sleeping", "ponging") /\ Leads("ponging", "sleeping") /\ Leads("pausing", "sleeping")
    /\ \A p \in {"sleeping", "ponging"} : Leads(p, "pausing") /\ Leads(p, "beatClosing")
BY DEF Leads, Follows, Awaiting, Passing, Ground, Closing, Renewing, Starting, Beating, Attempting


\* _disconnect stays calm: it sees to the flag until it has lowered it.
LEMMA DisconnectCalm ==
    ASSUME SessionInv, SessionInv', CalmInv, NEW t \in Task, Disconnect(t)
    PROVE  CalmInv'
<1>0. StackOK /\ StackOK' /\ FlagsOK
  BY DEF SessionInv
<1>1. CASE DisconnectStarts(t)
  <2> DEFINE frame == [Moved(t, "dcBeatCheck") EXCEPT !.beat = beating]
             join == [[frame EXCEPT !.pc = "dcListener"] EXCEPT !.who = listening]
  <2>1. Now(t, "disconnect") /\ Alive(t) /\ Top(t).pc = "disconnect"
    BY <1>1, Stands DEF DisconnectStarts
  <2>2. /\ Moved(t, "dcBeatCheck") \in GoodFrame /\ CalmFrame(Moved(t, "dcBeatCheck"))
        /\ Moved(t, "dcBeatCheck").pc = "dcBeatCheck"
    BY <1>0, <2>1, Ways, MovedCalm
  <2>3. CASE Alive(listening) /\ listening # t
    <3>1. listening \in Listener
      BY <2>3 DEF SessionInv, SlotsOK, Alive
    <3>2. join \in GoodFrame /\ join.pc = "dcListener"
      BY <2>2, <3>1 DEF GoodFrame, FrameType, Awaiting, Attempting, SessionInv, SlotsOK
    <3>3. Cancels(t, listening, [frame EXCEPT !.pc = "dcListener"])
      BY <1>1, <2>3 DEF DisconnectStarts
    <3> HIDE DEF frame
    <3>4. Turns(t, <<join>>)
      BY <1>0, <2>1, <3>3, CancelTurns
    <3> HIDE DEF join
    <3> QED BY <1>0, <2>1, <3>2, <3>4, Ways, MoveTaken
            DEF Leads, CalmFrame, SeesTo, Starting, Passing
  <2>4. CASE ~(Alive(listening) /\ listening # t)
    <3>1. frame \in GoodFrame /\ frame.pc = "dcBeatCheck"
      BY <2>2 DEF GoodFrame, FrameType, SessionInv, SlotsOK
    <3>2. Goes(t, With(t, <<frame>>))
      BY <1>1, <2>4 DEF DisconnectStarts
    <3> HIDE DEF frame
    <3>3. Turns(t, <<frame>>) /\ running'.task = t
      BY <1>0, <2>1, <3>2, TurnsOf DEF Goes, RunsOn
    <3> QED BY <1>0, <2>1, <3>1, <3>3, Ways, MoveTaken DEF Leads, CalmFrame, SeesTo, Starting
  <2> QED BY <2>3, <2>4
<1>2. CASE DisconnectBeat(t)
  <2>1. PICK p \in {"dcBeatCheck", "dcListener"} : Now(t, p) \/ At(t, p)
    BY <1>2 DEF DisconnectBeat
  <2>2. Alive(t) /\ Top(t).pc = p
    BY <2>1, Stands
  <2>3. /\ \A q \in {"dcBeat", "dcRest"} : /\ Moved(t, q) \in GoodFrame
                                           /\ Moved(t, q).pc = q
        /\ Leads(p, "dcBeat") /\ Leads(p, "dcRest")
    BY <1>0, <2>2, Ways, MovedCalm
  <2>4. CASE Alive(Top(t).beat) /\ Top(t).beat # t
    <3> DEFINE join == [Moved(t, "dcBeat") EXCEPT !.who = Top(t).beat]
    <3>1. Top(t).beat \in Beat
      BY <1>0, <2>2, <2>4, TopFrame DEF GoodFrame, FrameType, Alive
    <3>2. join \in GoodFrame /\ join.pc = "dcBeat"
      BY <2>3, <3>1 DEF GoodFrame, FrameType
    <3>3. Turns(t, <<join>>)
      BY <1>0, <1>2, <2>1, <2>4, CancelTurns DEF DisconnectBeat
    <3> HIDE DEF join
    <3> QED BY <1>0, <2>2, <2>3, <3>2, <3>3, MoveTaken
            DEF Leads, CalmFrame, SeesTo, Starting, Passing
  <2>5. CASE ~(Alive(Top(t).beat) /\ Top(t).beat # t)
    <3>1. Goes(t, With(t, <<Moved(t, "dcRest")>>))
      BY <1>2, <2>5 DEF DisconnectBeat
    <3>2. Turns(t, <<Moved(t, "dcRest")>>) /\ running'.task = t
      BY <1>0, <2>1, <3>1, TurnsOf DEF Goes, RunsOn
    <3> QED BY <1>0, <2>2, <2>3, <3>2, MoveTaken DEF Leads, CalmFrame, SeesTo, Starting
  <2> QED BY <2>4, <2>5
<1>3. CASE DisconnectCloses(t)
  <2>1. PICK p \in {"dcRest", "dcBeat"} : Now(t, p) \/ At(t, p)
    BY <1>3 DEF DisconnectCloses
  <2>2. Alive(t) /\ Top(t).pc = p
    BY <2>1, Stands
  <2>3. Moved(t, "dcClosing") \in GoodFrame /\ Moved(t, "dcClosing").pc = "dcClosing"
        /\ Leads(p, "dcClosing")
    BY <1>0, <2>2, Ways, MovedCalm
  <2>4. CASE Waits(With(t, <<Moved(t, "dcClosing")>>))
    <3>1. Turns(t, <<Moved(t, "dcClosing")>>)
      BY <1>0, <2>1, <2>4, TurnsOf
    <3> QED BY <1>0, <2>2, <2>3, <3>1, MoveTaken
            DEF Leads, CalmFrame, SeesTo, Starting, Passing
  <2>5. CASE ~connected' /\ Returns(t, "ok")
    BY <1>0, <2>1, <2>5, ReturnTurns, ReturnDown
  <2> QED BY <1>3, <2>4, <2>5 DEF DisconnectCloses
<1>4. CASE DisconnectEnds(t)
  BY <1>0, <1>4, ReturnTurns, ReturnDown DEF DisconnectEnds
<1> QED BY <1>1, <1>2, <1>3, <1>4 DEF Disconnect

\* A frame as a call pushes it.
LEMMA CalleeCalm ==
    ASSUME NEW q \in {"disconnect", "connect", "reconnect"}
    PROVE  Frame(q) \in GoodFrame /\ CalmFrame(Frame(q)) /\ Frame(q).pc = q
<1>1. Frame(q) \in GoodFrame
  BY NewFrames DEF Passing
<1> QED BY <1>1 DEF Frame, CalmFrame

\* _reconnect stays calm: it acts only while the flag is down.
LEMMA ReconnectCalm ==
    ASSUME SessionInv, SessionInv', CalmInv, NEW t \in Task, Reconnect(t)
    PROVE  CalmInv'
<1>0. StackOK /\ StackOK'
  BY DEF SessionInv
<1>c. Frame("disconnect") \in GoodFrame /\ CalmFrame(Frame("disconnect"))
      /\ Frame("disconnect").pc = "disconnect"
      /\ Connect \in GoodFrame /\ CalmFrame(Connect) /\ Connect.pc = "connect"
  BY CalleeCalm DEF Connect
<1>1. CASE ReconnectEnters(t)
  <2>1. PICK p \in {"reconnect", "lockWait"} : Now(t, p) \/ At(t, p)
    BY <1>1 DEF ReconnectEnters
  <2>2. Alive(t) /\ Top(t).pc = p /\ UNCHANGED <<connected, key>>
    BY <1>1, <2>1, Stands DEF ReconnectEnters, transportVars, clientVars
  <2>3. CASE Returns(t, "ok")
    BY <1>0, <2>1, <2>2, <2>3, ReturnTurns, ReturnKept DEF Closing, Beating, SeesTo
  <2>4. CASE ~connected /\ Calls(t, "rcDisconnect", Frame("disconnect"))
    <3>1. Turns(t, <<Frame("disconnect"), Moved(t, "rcDisconnect")>>) /\ running'.task = t
      BY <1>0, <2>1, <2>4, TurnsOf DEF Calls, Goes, RunsOn
    <3>2. Leads(p, "rcDisconnect") /\ MayCall(p, "rcDisconnect", "disconnect")
      BY DEF Leads, Follows, MayCall, Awaiting, Passing, Ground, Closing, Renewing, Starting,
             Beating, Attempting
    <3>3. /\ Moved(t, "rcDisconnect") \in GoodFrame /\ CalmFrame(Moved(t, "rcDisconnect"))
          /\ Moved(t, "rcDisconnect").pc = "rcDisconnect"
      BY <1>0, <2>2, <3>2, MovedCalm
    <3> QED BY <1>0, <1>c, <2>2, <2>4, <3>1, <3>2, <3>3, CallTaken
  <2> QED BY <1>1, <2>3, <2>4 DEF ReconnectEnters
<1>2. CASE ReconnectBlocks(t) \/ ReconnectSleeps(t)
  <2>1. PICK p, q : /\ Now(t, p) /\ Waits(With(t, <<Moved(t, q)>>))
                    /\ <<p, q>> \in {<<"reconnect", "lockWait">>, <<"rcDisconnect", "rcSleep">>}
    BY <1>2 DEF ReconnectBlocks, ReconnectSleeps
  <2>2. Alive(t) /\ Top(t).pc = p /\ Leads(p, q) /\ UNCHANGED <<connected, key>>
    BY <1>2, <2>1, Stands, Ways DEF ReconnectBlocks, ReconnectSleeps, transportVars, clientVars
  <2>3. Moved(t, q) \in GoodFrame /\ CalmFrame(Moved(t, q)) /\ Moved(t, q).pc = q
    BY <1>0, <2>2, MovedCalm
  <2>4. Turns(t, <<Moved(t, q)>>) /\ Spares(t)
    BY <1>0, <2>1, TurnsOf
  <2>5. p \notin Heeding /\ q \notin Passing /\ q # "failing" /\ Follows(p, q)
    BY <2>1, <2>2 DEF Heeding, Passing, Leads
  <2> QED BY <1>0, <2>2, <2>3, <2>4, <2>5, MoveKept
<1>3. CASE ReconnectConnects(t)
  <2>1. At(t, "rcSleep") /\ Calls(t, "rcConnect", Connect) /\ UNCHANGED <<connected, key>>
    BY <1>3 DEF ReconnectConnects, transportVars, clientVars
  <2>2. Alive(t) /\ Top(t).pc = "rcSleep"
    BY <2>1, Stands
  <2>3. Turns(t, <<Connect, Moved(t, "rcConnect")>>) /\ Spares(t) /\ running'.task = t
    BY <1>0, <2>1, TurnsOf DEF Calls, Goes, RunsOn
  <2>4. Leads("rcSleep", "rcConnect") /\ MayCall("rcSleep", "rcConnect", "connect")
    BY DEF Leads, Follows, MayCall, Awaiting, Passing, Ground, Closing, Renewing, Starting,
           Beating, Attempting
  <2>5. /\ Moved(t, "rcConnect") \in GoodFrame /\ CalmFrame(Moved(t, "rcConnect"))
        /\ Moved(t, "rcConnect").pc = "rcConnect"
    BY <1>0, <2>2, <2>4, MovedCalm
  <2> QED BY <1>0, <1>c, <2>1, <2>2, <2>3, <2>4, <2>5, CallKept DEF Heeding
<1>4. CASE ReconnectEnds(t)
  <2>1. /\ Now(t, "rcConnect") /\ UNCHANGED <<connected, key>>
        /\ \E value : Returns(t, value)
    BY <1>4 DEF ReconnectEnds, transportVars, clientVars
  <2>2. Alive(t) /\ Top(t).pc = "rcConnect"
    BY <2>1, Stands
  <2> QED BY <1>0, <2>1, <2>2, ReturnTurns, ReturnKept DEF Closing, Beating, SeesTo
<1> QED BY <1>1, <1>2, <1>3, <1>4 DEF Reconnect


\* connect_and_login up to its attempts stays calm.
LEMMA ConnectCalm ==
    ASSUME SessionInv, SessionInv', CalmInv, NEW t \in Task,
           ConnectStarts(t) \/ ConnectBeat(t) \/ ConnectJoined(t)
    PROVE  CalmInv'
<1>0. StackOK /\ StackOK' /\ FlagsOK
  BY DEF SessionInv
<1>1. CASE ConnectStarts(t)
  <2>1. Now(t, "connect") /\ Alive(t) /\ Top(t).pc = "connect"
    BY <1>1, Stands DEF ConnectStarts
  <2>2. /\ \A q \in {"joinListener", "beatCheck"} :
              /\ Moved(t, q) \in GoodFrame /\ CalmFrame(Moved(t, q)) /\ Moved(t, q).pc = q
              /\ Moved(t, q).n = Top(t).n /\ Leads("connect", q)
    BY <1>0, <2>1, Ways, MovedCalm
  <2>3. CASE connected
    <3>1. Returns(t, "ok") /\ UNCHANGED <<connected, key>>
      BY <1>1, <2>3 DEF ConnectStarts
    <3> QED BY <1>0, <2>1, <3>1, ReturnTurns, ReturnKept DEF Closing, Beating, SeesTo
  <2>4. CASE ~connected /\ Alive(listening)
    <3> DEFINE join == [Moved(t, "joinListener") EXCEPT !.who = listening]
    <3>1. listening \in Listener
      BY <2>4 DEF SessionInv, SlotsOK, Alive
    <3>2. join \in GoodFrame /\ join.pc = "joinListener" /\ join.n = Moved(t, "joinListener").n
      BY <2>2, <3>1 DEF GoodFrame, FrameType
    <3>3. CalmFrame(join)
      BY <2>2, <3>2 DEF CalmFrame, Starting
    <3>4. Turns(t, <<join>>) /\ ~connected'
      BY <1>0, <1>1, <2>1, <2>4, CancelTurns DEF ConnectStarts
    <3> HIDE DEF join
    <3> QED BY <1>0, <2>1, <2>2, <3>2, <3>3, <3>4, MoveTaken DEF Leads, Passing
  <2>5. CASE ~connected /\ ~Alive(listening)
    <3>1. Goes(t, With(t, <<Moved(t, "beatCheck")>>)) /\ ~connected'
      BY <1>1, <2>5 DEF ConnectStarts
    <3>2. Turns(t, <<Moved(t, "beatCheck")>>) /\ running'.task = t
      BY <1>0, <2>1, <3>1, TurnsOf DEF Goes, RunsOn
    <3> QED BY <1>0, <2>1, <2>2, <3>1, <3>2, MoveTaken DEF Leads
  <2> QED BY <2>3, <2>4, <2>5
<1>2. CASE ConnectBeat(t)
  <2>1. PICK p \in {"beatCheck", "joinListener"} : Now(t, p) \/ At(t, p)
    BY <1>2 DEF ConnectBeat
  <2>2. Alive(t) /\ Top(t).pc = p /\ Top(t).n = 0
    BY <1>0, <2>1, Stands, Below DEF CalmFrame, Starting
  <2>3. \A q \in {"joinBeat", "tryOpen"} :
              /\ Moved(t, q) \in GoodFrame /\ CalmFrame(Moved(t, q)) /\ Moved(t, q).pc = q
              /\ Moved(t, q).n = 0 /\ Leads(p, q)
    BY <1>0, <2>2, Ways, MovedCalm
  <2>4. CASE Alive(beating)
    <3> DEFINE join == [Moved(t, "joinBeat") EXCEPT !.who = beating]
    <3>1. beating \in Beat
      BY <2>4 DEF SessionInv, SlotsOK, Alive
    <3>2. join \in GoodFrame /\ join.pc = "joinBeat" /\ join.n = 0
      BY <2>3, <3>1 DEF GoodFrame, FrameType
    <3>3. Turns(t, <<join>>)
      BY <1>0, <1>2, <2>1, <2>4, CancelTurns DEF ConnectBeat
    <3> HIDE DEF join
    <3> QED BY <1>0, <2>2, <2>3, <3>2, <3>3, MoveTaken
            DEF Leads, CalmFrame, SeesTo, Passing
  <2>5. CASE ~Alive(beating)
    <3>1. Goes(t, With(t, <<Moved(t, "tryOpen")>>))
      BY <1>2, <2>5 DEF ConnectBeat
    <3>2. Turns(t, <<Moved(t, "tryOpen")>>) /\ running'.task = t
      BY <1>0, <2>1, <3>1, TurnsOf DEF Goes, RunsOn
    <3> QED BY <1>0, <2>2, <2>3, <3>2, MoveTaken DEF Leads, SeesTo
  <2> QED BY <2>4, <2>5
<1>3. CASE ConnectJoined(t)
  <2>1. At(t, "joinBeat") /\ Goes(t, With(t, <<Moved(t, "tryOpen")>>))
    BY <1>3 DEF ConnectJoined
  <2>2. Alive(t) /\ Top(t).pc = "joinBeat" /\ Top(t).n = 0
    BY <1>0, <2>1, Stands, Below DEF CalmFrame, Starting
  <2>3. /\ Moved(t, "tryOpen") \in GoodFrame /\ CalmFrame(Moved(t, "tryOpen"))
        /\ Moved(t, "tryOpen").pc = "tryOpen" /\ Moved(t, "tryOpen").n = 0
        /\ Leads("joinBeat", "tryOpen")
    BY <1>0, <2>2, Ways, MovedCalm
  <2>4. Turns(t, <<Moved(t, "tryOpen")>>) /\ running'.task = t
    BY <1>0, <2>1, TurnsOf DEF Goes, RunsOn
  <2> QED BY <1>0, <2>2, <2>3, <2>4, MoveTaken DEF Leads, SeesTo
<1> QED BY <1>1, <1>2, <1>3

\* t's frame counts up its attempt.
LEMMA RetryCalm ==
    ASSUME StackOK, CalmInv, NEW t \in Task, Alive(t), Top(t).pc \in {"opening", "clBackoff"},
           NEW f, f = [Moved(t, "tryOpen") EXCEPT !.n = @ + 1]
    PROVE  f \in GoodFrame /\ CalmFrame(f) /\ f.pc = "tryOpen" /\ Follows(Top(t).pc, f.pc)
<1>1. f \in GoodFrame
  BY NextFrame DEF Attempting
<1>2. f.pc = "tryOpen"
  BY TopFrame DEF GoodFrame, FrameType, Moved
<1>3. Follows(Top(t).pc, "tryOpen")
  BY Ways DEF Leads
<1> QED BY <1>1, <1>2, <1>3 DEF CalmFrame, Starting

\* A task is created beside t.
LEMMA CreateTurns ==
    ASSUME StackOK, NEW t \in Task, NEW frames, NEW p, Now(t, p) \/ At(t, p),
           NEW u \in Task, ~Alive(u), running'.task \in {t, None},
           NEW f, stack' = [With(t, frames) EXCEPT ![u] = <<f>>],
           f = Frame(IF u \in Beat THEN "sleeping" ELSE "retrying")
    PROVE  Turns(t, frames) /\ Spares(t) /\ u # t
<1>1. Alive(t) /\ running.task \in {t, None} /\ u # t
  BY DEF Now, At, Nobody
<1>2. stack[u] = <<>>
  BY SessionAssumption DEF Alive, Task
<1>3. /\ stack'[t] = With(t, frames)[t] /\ stack'[u] = <<f>>
      /\ \A x \in Task \ {t, u} : stack'[x] = With(t, frames)[x]
  BY <1>1 DEF With, StackOK
<1> QED BY <1>1, <1>2, <1>3, WithAt DEF Turns, Aside, Spares

\* The attempts stay calm when no write is lost.
LEMMA AttemptCalm ==
    ASSUME SessionInv, SessionInv', CalmInv, ~DrainMayFail, NEW t \in Task,
           \/ ConnectTries(t) \/ OpenFails(t) \/ HelloDone(t) \/ HelloLost(t) \/ LoginSent(t)
           \/ LoginNotSent(t) \/ LoginResumes(t) \/ LoginSucceeds(t) \/ LoginFails(t)
           \/ AttemptFails(t) \/ NextAttempt(t) \/ \E s \in Stream : Opened(t, s)
    PROVE  CalmInv'
<1>0. StackOK /\ StackOK' /\ FlagsOK
  BY DEF SessionInv
<1>c. Frame("disconnect") \in GoodFrame /\ CalmFrame(Frame("disconnect"))
      /\ Frame("disconnect").pc = "disconnect"
  BY CalleeCalm
<1>f. Alive(t) => Top(t).pc \notin {"helloLost", "loginLost"}
  BY <1>0, Below DEF CalmFrame
<1>1. CASE ConnectTries(t)
  <2>1. Now(t, "tryOpen") /\ Alive(t) /\ Top(t).pc = "tryOpen" /\ UNCHANGED <<connected, key>>
    BY <1>1, Stands DEF ConnectTries, transportVars, clientVars
  <2>2. CASE Top(t).n = MaxAttempts
    <3>1. Returns(t, "no")
      BY <1>1, <2>2 DEF ConnectTries
    <3>2. ~SeesTo(Top(t))
      BY <2>1, <2>2, SessionAssumption DEF SeesTo
    <3> QED BY <1>0, <2>1, <3>1, <3>2, ReturnTurns, ReturnKept DEF Closing, Beating
  <2>3. CASE Top(t).n # MaxAttempts
    <3>1. ASSUME NEW q \in {"hello", "opening"}
          PROVE  /\ Moved(t, q) \in GoodFrame /\ CalmFrame(Moved(t, q)) /\ Moved(t, q).pc = q
                 /\ Follows("tryOpen", q)
      <4>1. Moved(t, q) \in GoodFrame
        BY <1>0, <2>1, <2>3, MovedFrame DEF Awaiting, Passing
      <4>2. Moved(t, q).pc = q
        BY <1>0, <2>1, TopFrame DEF Moved, GoodFrame, FrameType
      <4>3. Follows("tryOpen", q)
        BY DEF Follows, Ground, Renewing, Closing, Beating
      <4> QED BY <4>1, <4>2, <4>3 DEF CalmFrame, Starting
    <3>2. CASE connected
      <4>1. Goes(t, With(t, <<Moved(t, "hello")>>))
        BY <1>1, <2>3, <3>2 DEF ConnectTries
      <4>2. Turns(t, <<Moved(t, "hello")>>) /\ running'.task = t
        BY <1>0, <2>1, <4>1, TurnsOf DEF Goes, RunsOn
      <4> QED BY <1>0, <2>1, <3>1, <4>2, MoveTaken DEF SeesTo
    <3>3. CASE ~connected
      <4>1. Waits(With(t, <<Moved(t, "opening")>>))
        BY <1>1, <2>3, <3>3 DEF ConnectTries
      <4>2. Turns(t, <<Moved(t, "opening")>>)
        BY <1>0, <2>1, <4>1, TurnsOf
      <4> QED BY <1>0, <2>1, <3>1, <3>3, <4>2, MoveTaken DEF Passing
    <3> QED BY <3>2, <3>3
  <2> QED BY <2>2, <2>3
<1>2. ASSUME NEW s \in Stream, Opened(t, s)
      PROVE  CalmInv'
  <2>1. At(t, "opening") /\ Goes(t, With(t, <<Moved(t, "hello")>>))
    BY <1>2 DEF Opened
  <2>2. Alive(t) /\ Top(t).pc = "opening"
    BY <2>1, Stands
  <2>3. /\ Moved(t, "hello") \in GoodFrame /\ CalmFrame(Moved(t, "hello"))
        /\ Moved(t, "hello").pc = "hello" /\ Leads("opening", "hello")
    BY <1>0, <2>2, Ways, MovedCalm
  <2>4. Turns(t, <<Moved(t, "hello")>>) /\ running'.task = t
    BY <1>0, <2>1, TurnsOf DEF Goes, RunsOn
  <2> QED BY <1>0, <2>2, <2>3, <2>4, MoveTaken DEF SeesTo, Leads
<1>3. CASE OpenFails(t)
  <2> DEFINE f == [Moved(t, "tryOpen") EXCEPT !.n = @ + 1]
  <2>1. At(t, "opening") /\ Goes(t, With(t, <<f>>)) /\ ~connected'
    BY <1>3 DEF OpenFails
  <2>2. Alive(t) /\ Top(t).pc = "opening"
    BY <2>1, Stands
  <2>3. f \in GoodFrame /\ CalmFrame(f) /\ f.pc = "tryOpen" /\ Follows(Top(t).pc, f.pc)
    BY <1>0, <2>2, RetryCalm
  <2> HIDE DEF f
  <2>4. Turns(t, <<f>>) /\ running'.task = t
    BY <1>0, <2>1, TurnsOf DEF Goes, RunsOn
  <2> QED BY <1>0, <2>1, <2>3, <2>4, MoveTaken
<1>4. CASE HelloDone(t)
  <2>1. Now(t, "hello")
    BY <1>4, <1>f DEF HelloDone, Given, Now
  <2>2. Alive(t) /\ Top(t).pc = "hello"
    BY <2>1, Stands
  <2>3. /\ Moved(t, "helloWait") \in GoodFrame /\ CalmFrame(Moved(t, "helloWait"))
        /\ Moved(t, "helloWait").pc = "helloWait" /\ Leads("hello", "helloWait")
    BY <1>0, <2>2, Ways, MovedCalm
  <2>4. PICK l \in FreeTask(Listener) :
            Waits([With(t, <<Moved(t, "helloWait")>>) EXCEPT ![l] = <<Frame("retrying")>>])
    BY <1>4 DEF HelloDone
  <2>5. l \in Task /\ ~Alive(l) /\ l \notin Beat
    BY SessionAssumption DEF FreeTask, Task
  <2>6. Turns(t, <<Moved(t, "helloWait")>>)
    BY <1>0, <2>1, <2>4, <2>5, CreateTurns DEF Waits, Nobody
  <2> QED BY <1>0, <2>2, <2>3, <2>6, MoveTaken DEF SeesTo, Leads, Passing
<1>5. CASE HelloLost(t)
  BY <1>5 DEF HelloLost, Loses
<1>6. CASE LoginSent(t)
  <2>1. /\ At(t, "helloWait") /\ Waits(With(t, <<Moved(t, "loginWait")>>))
        /\ key = "session" /\ UNCHANGED key
    BY <1>6 DEF LoginSent, Loses
  <2>2. Alive(t) /\ Top(t).pc = "helloWait"
    BY <2>1, Stands
  <2>3. /\ Moved(t, "loginWait") \in GoodFrame /\ CalmFrame(Moved(t, "loginWait"))
        /\ Moved(t, "loginWait").pc = "loginWait" /\ Leads("helloWait", "loginWait")
    BY <1>0, <2>2, Ways, MovedCalm
  <2>4. Turns(t, <<Moved(t, "loginWait")>>)
    BY <1>0, <2>1, TurnsOf
  <2>5. /\ TasksCalm' /\ FailedIsDown'
        /\ 1 \in 1 .. Len(stack'[t]) /\ stack'[t][1] = Moved(t, "loginWait")
    BY <1>0, <2>2, <2>3, <2>4, MoveCalm DEF Leads, Passing
  <2>6. LoggingIn'
    BY <2>3, <2>5 DEF LoggingIn
  <2> QED BY <2>1, <2>5, <2>6 DEF CalmInv, FlagSeenTo
<1>7. CASE LoginNotSent(t) \/ LoginFails(t)
  <2>1. PICK p \in {"helloWait", "loginWait"} : At(t, p)
    BY <1>7 DEF LoginNotSent, LoginFails
  <2>2. Calls(t, "failing", Frame("disconnect")) /\ Alive(t) /\ Top(t).pc = p
    BY <1>7, <2>1, Stands DEF LoginNotSent, LoginFails
  <2>3. MayCall(p, "failing", "disconnect")
    BY DEF MayCall, Passing, Ground, Closing, Renewing, Beating
  <2>4. Moved(t, "failing") \in GoodFrame
    BY <1>0, <2>2, MovedFrame DEF Awaiting, Attempting
  <2>5. Moved(t, "failing").pc = "failing"
    BY <1>0, <2>2, TopFrame DEF Moved, GoodFrame, FrameType
  <2>6. Turns(t, <<Frame("disconnect"), Moved(t, "failing")>>) /\ running'.task = t
    BY <1>0, <2>1, <2>2, TurnsOf DEF Calls, Goes, RunsOn
  <2> QED BY <1>0, <1>c, <2>2, <2>3, <2>4, <2>5, <2>6, CallTaken DEF SeesTo, CalmFrame, Starting
<1>8. CASE LoginResumes(t)
  BY <1>8, <1>f DEF LoginResumes, Given, Now
<1>9. CASE LoginSucceeds(t)
  <2>1. At(t, "loginWait") /\ Alive(t) /\ Top(t).pc = "loginWait" /\ UNCHANGED <<connected, key>>
    BY <1>9, Stands DEF LoginSucceeds, transportVars
  <2>2. PICK b \in FreeTask(Beat) :
            stack' = [With(t, <<>>) EXCEPT ![b] = <<Frame("sleeping")>>]
    BY <1>9 DEF LoginSucceeds
  <2>3. b \in Beat /\ b \in Task /\ ~Alive(b) /\ b # None
    BY SessionAssumption DEF FreeTask, Task
  <2>4. Turns(t, <<>>) /\ Spares(t)
    BY <1>0, <1>9, <2>1, <2>2, <2>3, CreateTurns DEF LoginSucceeds, RunsOn
  <2>5. TasksCalm' /\ FailedIsDown' /\ Carried(t)
    BY <1>0, <2>1, <2>4, ReturnCalm DEF Closing
  <2>6. Alive(b)'
    BY <1>0, <2>2, <2>3 DEF Alive, With, StackOK
  <2>7. SeenTo => SeenTo'
    BY <1>0, <2>1, <2>4, <2>5, SeenKept DEF SeesTo
  <2> QED BY <2>1, <2>3, <2>5, <2>6, <2>7 DEF CalmInv, FlagSeenTo
<1>10. CASE AttemptFails(t)
  <2>1. Now(t, "failing") /\ Waits(With(t, <<Moved(t, "clBackoff")>>)) /\ UNCHANGED connected
    BY <1>10, <1>f DEF AttemptFails, Given, Now, transportVars
  <2>2. Alive(t) /\ Top(t).pc = "failing"
    BY <2>1, Stands
  <2>3. ~connected
    BY <2>1, <2>2 DEF CalmInv, FailedIsDown, Now
  <2>4. /\ Moved(t, "clBackoff") \in GoodFrame /\ CalmFrame(Moved(t, "clBackoff"))
        /\ Moved(t, "clBackoff").pc = "clBackoff" /\ Leads("failing", "clBackoff")
    BY <1>0, <2>2, Ways, MovedCalm
  <2>5. Turns(t, <<Moved(t, "clBackoff")>>)
    BY <1>0, <2>1, TurnsOf
  <2> QED BY <1>0, <2>1, <2>2, <2>3, <2>4, <2>5, MoveTaken DEF Leads, Passing
<1>11. CASE NextAttempt(t)
  <2> DEFINE f == [Moved(t, "tryOpen") EXCEPT !.n = @ + 1]
  <2>1. At(t, "clBackoff") /\ Goes(t, With(t, <<f>>)) /\ UNCHANGED <<connected, key>>
    BY <1>11 DEF NextAttempt, transportVars, clientVars
  <2>2. Alive(t) /\ Top(t).pc = "clBackoff"
    BY <2>1, Stands
  <2>3. f \in GoodFrame /\ CalmFrame(f) /\ f.pc = "tryOpen" /\ Follows(Top(t).pc, f.pc)
    BY <1>0, <2>2, RetryCalm
  <2> HIDE DEF f
  <2>4. Turns(t, <<f>>) /\ running'.task = t /\ Spares(t)
    BY <1>0, <2>1, TurnsOf DEF Goes, RunsOn
  <2> QED BY <1>0, <2>1, <2>2, <2>3, <2>4, MoveKept DEF Heeding
<1> QED BY <1>1, <1>2, <1>3, <1>4, <1>5, <1>6, <1>7, <1>8, <1>9, <1>10, <1>11


\* _listen_loop stays calm: it neither raises the flag nor keeps it.
LEMMA ListenCalm ==
    ASSUME SessionInv, SessionInv', CalmInv, NEW t \in Task, Listen(t)
    PROVE  CalmInv'
<1>0. StackOK /\ StackOK'
  BY DEF SessionInv
<1>1. ASSUME NEW p, NEW q, Now(t, p) \/ At(t, p), Leads(p, q), p \notin Heeding,
             NEW f \in GoodFrame, CalmFrame(f), f.pc = q,
             (Waits(With(t, <<f>>)) /\ q \notin Passing) \/ Goes(t, With(t, <<f>>)),
             UNCHANGED connected, key' # "session" => key # "session" \/ SeenTo
      PROVE  CalmInv'
  <2>1. Alive(t) /\ Top(t).pc = p
    BY <1>1, Stands
  <2>2. Turns(t, <<f>>) /\ Spares(t) /\ (q \in Passing => running'.task = t)
    BY <1>0, <1>1, TurnsOf DEF Goes, RunsOn
  <2> QED BY <1>0, <1>1, <2>1, <2>2, MoveKept DEF Leads
<1>2. CASE ReadNext(t)
  <2>1. PICK p \in {"retrying", "readNext"} : Now(t, p) \/ At(t, p)
    BY <1>2 DEF ReadNext
  <2>2. Alive(t) /\ Top(t).pc = p /\ UNCHANGED <<connected, key>> /\ p \notin Heeding
    BY <1>2, <2>1, Stands DEF ReadNext, transportVars, clientVars, Heeding
  <2>3. \A q \in {"relisten", "retrying", "reading"} :
           /\ Moved(t, q) \in GoodFrame /\ CalmFrame(Moved(t, q)) /\ Moved(t, q).pc = q
           /\ Leads(p, q)
    BY <1>0, <2>2, Ways, MovedCalm
  <2>4. CASE stream = None
    BY <1>1, <1>2, <2>1, <2>2, <2>3, <2>4 DEF ReadNext
  <2>5. CASE stream # None
    <3> DEFINE f == [Moved(t, "reading") EXCEPT !.who = stream]
    <3>1. stream \in Stream
      BY <2>5 DEF SessionInv, ClientOK
    <3>2. f \in GoodFrame /\ f.pc = "reading"
      BY <2>3, <3>1 DEF GoodFrame, FrameType
    <3>3. CalmFrame(f)
      BY <3>2 DEF CalmFrame, Starting
    <3>4. \/ Waits(With(t, <<Moved(t, "retrying")>>))
          \/ Waits(With(t, <<f>>))
      BY <1>2, <2>5 DEF ReadNext
    <3>5. "retrying" \notin Passing /\ "reading" \notin Passing
      BY DEF Passing
    <3> HIDE DEF f
    <3>6. CASE Waits(With(t, <<Moved(t, "retrying")>>))
      BY <1>1, <2>1, <2>2, <2>3, <3>5, <3>6
    <3>7. CASE Waits(With(t, <<f>>))
      BY <1>1, <2>1, <2>2, <2>3, <3>2, <3>3, <3>5, <3>7
    <3> QED BY <3>4, <3>6, <3>7
  <2> QED BY <2>4, <2>5
<1>3. ASSUME At(t, "reading"), NEW q \in {"readNext", "relisten"},
             Goes(t, With(t, <<Moved(t, q)>>)), UNCHANGED connected,
             key' # "session" => key # "session" \/ SeenTo
      PROVE  CalmInv'
  <2>1. Alive(t) /\ Top(t).pc = "reading" /\ "reading" \notin Heeding
    BY <1>3, Stands DEF Heeding
  <2>2. /\ Moved(t, q) \in GoodFrame /\ CalmFrame(Moved(t, q)) /\ Moved(t, q).pc = q
        /\ Leads("reading", q)
    BY <1>0, <2>1, Ways, MovedCalm
  <2> QED BY <1>1, <1>3, <2>1, <2>2
<1>4. CASE ReadTimesOut(t) \/ StreamEnds(t)
  BY <1>3, <1>4 DEF ReadTimesOut, StreamEnds, transportVars, clientVars
<1>5. CASE ReceivesHello(t)
  <2>1. SeenTo
    BY <1>5 DEF ReceivesHello, SeenTo, SeesTo
  <2> QED BY <1>3, <1>5, <2>1 DEF ReceivesHello, Receives, transportVars
<1>6. CASE ReceivesBeat(t) \/ \E result \in BOOLEAN : ReceivesLogin(t, result)
  <2>1. Receives(t) /\ key' = KeyRead
    BY <1>6 DEF ReceivesBeat, ReceivesLogin
  <2> QED BY <1>3, <2>1 DEF Receives, KeyRead, transportVars
<1>7. CASE Relisten(t)
  <2>1. PICK p \in {"relisten", "backoff"} : Now(t, p) \/ At(t, p)
    BY <1>7 DEF Relisten
  <2>2. Alive(t) /\ Top(t).pc = p /\ UNCHANGED <<connected, key>>
    BY <1>7, <2>1, Stands DEF Relisten, transportVars, clientVars
  <2>3. CASE Returns(t, "ok")
    BY <1>0, <2>1, <2>2, <2>3, ReturnTurns, ReturnKept DEF Closing, Beating, SeesTo
  <2>4. CASE Calls(t, "reconnecting", Frame("reconnect"))
    <3>1. Turns(t, <<Frame("reconnect"), Moved(t, "reconnecting")>>) /\ running'.task = t
          /\ Spares(t)
      BY <1>0, <2>1, <2>4, TurnsOf DEF Calls, Goes, RunsOn
    <3>2. Leads(p, "reconnecting") /\ MayCall(p, "reconnecting", "reconnect")
      BY DEF Leads, Follows, MayCall, Awaiting, Passing, Ground, Closing, Renewing, Starting,
             Beating, Attempting
    <3>3. /\ Moved(t, "reconnecting") \in GoodFrame /\ CalmFrame(Moved(t, "reconnecting"))
          /\ Moved(t, "reconnecting").pc = "reconnecting"
      BY <1>0, <2>2, <3>2, MovedCalm
    <3>4. Frame("reconnect") \in GoodFrame /\ CalmFrame(Frame("reconnect"))
          /\ Frame("reconnect").pc = "reconnect"
      BY CalleeCalm
    <3> QED BY <1>0, <2>2, <3>1, <3>2, <3>3, <3>4, CallKept DEF Heeding
  <2> QED BY <1>7, <2>3, <2>4 DEF Relisten
<1>8. CASE Reconnected(t)
  <2>1. /\ Now(t, "reconnecting") /\ Returns(t, "ok") /\ Alive(t) /\ Top(t).pc = "reconnecting"
        /\ UNCHANGED <<connected, key>>
    BY <1>8 DEF Reconnected, Given, Now, transportVars, clientVars
  <2> QED BY <1>0, <2>1, ReturnTurns, ReturnKept DEF Closing, Beating, SeesTo
<1>9. CASE ReconnectFailed(t)
  <2>1. /\ Now(t, "reconnecting") /\ Waits(With(t, <<Moved(t, "backoff")>>))
        /\ Alive(t) /\ Top(t).pc = "reconnecting" /\ UNCHANGED <<connected, key>>
    BY <1>9 DEF ReconnectFailed, Given, Now, transportVars, clientVars
  <2>2. /\ Moved(t, "backoff") \in GoodFrame /\ CalmFrame(Moved(t, "backoff"))
        /\ Moved(t, "backoff").pc = "backoff" /\ Leads("reconnecting", "backoff")
        /\ "reconnecting" \notin Heeding /\ "backoff" \notin Passing
    BY <1>0, <2>1, Ways, MovedCalm DEF Heeding, Passing
  <2> QED BY <1>1, <2>1, <2>2
<1> QED BY <1>2, <1>4, <1>5, <1>6, <1>7, <1>8, <1>9 DEF Listen

\* _heartbeat_loop stays calm when no write is lost: a beat ends with the flag.
LEMMA HeartbeatCalm ==
    ASSUME SessionInv, SessionInv', CalmInv, ~DrainMayFail, NEW t \in Task, Heartbeat(t)
    PROVE  CalmInv'
<1>0. StackOK /\ StackOK'
  BY DEF SessionInv
<1>f. Alive(t) => Top(t).pc # "beatLost"
  BY <1>0, Below DEF CalmFrame
<1>1. ASSUME NEW p, NEW q, At(t, p), Leads(p, q), p \notin Heeding, q \notin Passing,
             Waits(With(t, <<Moved(t, q)>>)), connected' => connected /\ key' = key
      PROVE  CalmInv'
  <2>1. Alive(t) /\ Top(t).pc = p
    BY <1>1, Stands
  <2>2. Turns(t, <<Moved(t, q)>>) /\ Spares(t)
    BY <1>0, <1>1, TurnsOf
  <2>3. Moved(t, q) \in GoodFrame /\ CalmFrame(Moved(t, q)) /\ Moved(t, q).pc = q
    BY <1>0, <1>1, <2>1, MovedCalm
  <2>4. CASE connected'
    BY <1>0, <1>1, <2>1, <2>2, <2>3, <2>4, MoveKept DEF Leads
  <2>5. CASE ~connected'
    BY <1>0, <1>1, <2>1, <2>2, <2>3, <2>5, MoveTaken DEF Leads
  <2> QED BY <2>4, <2>5
<1>2. /\ \A p \in {"sleeping", "ponging", "pausing"} : p \notin Heeding
      /\ \A q \in {"sleeping", "ponging", "pausing", "beatClosing"} : q \notin Passing
  BY DEF Heeding, Passing
<1>3. CASE BeatStops(t)
  BY <1>0, <1>3, ReturnTurns, ReturnDown DEF BeatStops, transportVars
<1>4. CASE BeatIdles(t)
  BY <1>4 DEF BeatIdles, vars, CalmInv, TasksCalm, FailedIsDown, FlagSeenTo, SeenTo, SeesTo,
              LoggingIn, Alive, Top, CalmStack, CalmFrame
<1>5. CASE BeatSends(t)
  <2>1. At(t, "sleeping") /\ Waits(With(t, <<Moved(t, "ponging")>>)) /\ UNCHANGED <<connected, key>>
    BY <1>5 DEF BeatSends, Loses
  <2> QED BY <1>1, <1>2, <2>1, Ways
<1>6. CASE BeatAnswered(t)
  <2>1. At(t, "ponging") /\ UNCHANGED <<connected, key>>
    BY <1>6 DEF BeatAnswered, transportVars
  <2>2. CASE connected
    <3>1. Waits(With(t, <<Moved(t, "sleeping")>>))
      BY <1>6, <2>2 DEF BeatAnswered
    <3> QED BY <1>1, <1>2, <2>1, <3>1, Ways
  <2>3. CASE ~connected
    BY <1>0, <1>6, <2>1, <2>3, ReturnTurns, ReturnDown DEF BeatAnswered
  <2> QED BY <2>2, <2>3
<1>7. CASE BeatFails(t)
  <2>1. PICK p \in {"sleeping", "ponging"} : At(t, p)
    BY <1>7, <1>f DEF BeatFails, Now
  <2>2. CASE UNCHANGED connected /\ Waits(With(t, <<Moved(t, "pausing")>>))
    <3>1. UNCHANGED <<connected, key>>
      BY <1>7, <2>2 DEF BeatFails
    <3> QED BY <1>1, <1>2, <2>1, <2>2, <3>1, Ways
  <2>3. CASE ~connected' /\ Waits(With(t, <<Moved(t, "beatClosing")>>))
    BY <1>1, <1>2, <2>1, <2>3, Ways
  <2>4. CASE ~connected' /\ Waits(With(t, <<>>))
    BY <1>0, <2>1, <2>4, TurnsOf, ReturnDown
  <2> QED BY <1>7, <2>2, <2>3, <2>4 DEF BeatFails, transportVars
<1>8. CASE BeatResumes(t)
  <2>1. At(t, "pausing") /\ Waits(With(t, <<Moved(t, "sleeping")>>)) /\ UNCHANGED <<connected, key>>
    BY <1>8 DEF BeatResumes, transportVars, clientVars
  <2> QED BY <1>1, <1>2, <2>1, Ways
<1>9. CASE BeatClosed(t)
  BY <1>0, <1>9, ReturnTurns, ReturnDown DEF BeatClosed
<1> QED BY <1>3, <1>4, <1>5, <1>6, <1>7, <1>8, <1>9 DEF Heartbeat

\* The calls of the coordinator stay calm.
LEMMA CommandCalm ==
    ASSUME SessionInv, SessionInv', CalmInv, ~DrainMayFail, NEW t \in Task, Call(t)
    PROVE  CalmInv'
<1>0. StackOK /\ StackOK'
  BY DEF SessionInv
<1>1. PICK p \in {"commanding", "watching", "sending", "unloading"} : Now(t, p)
  BY DEF Call, CommandSends, CallEnds
<1>2. Alive(t) /\ Top(t).pc = p /\ UNCHANGED <<connected, key>>
  BY <1>1, Stands DEF Call, CommandSends, CallEnds, Loses, transportVars, clientVars
<1>3. CASE Returns(t, "ok")
  BY <1>0, <1>1, <1>2, <1>3, ReturnTurns, ReturnKept DEF Closing, Beating, SeesTo
<1>4. CASE p = "commanding" /\ Calls(t, "sending", Frame("reconnect"))
  <2>1. Turns(t, <<Frame("reconnect"), Moved(t, "sending")>>) /\ running'.task = t /\ Spares(t)
    BY <1>0, <1>1, <1>4, TurnsOf DEF Calls, Goes, RunsOn
  <2>2. Leads(p, "sending") /\ MayCall(p, "sending", "reconnect")
    BY <1>4 DEF Leads, Follows, MayCall, Awaiting, Passing, Ground, Closing, Renewing, Starting,
                Beating, Attempting
  <2>3. /\ Moved(t, "sending") \in GoodFrame /\ CalmFrame(Moved(t, "sending"))
        /\ Moved(t, "sending").pc = "sending"
    BY <1>0, <1>2, <2>2, MovedCalm
  <2>4. Frame("reconnect") \in GoodFrame /\ CalmFrame(Frame("reconnect"))
        /\ Frame("reconnect").pc = "reconnect"
    BY CalleeCalm
  <2> QED BY <1>0, <1>2, <1>4, <2>1, <2>2, <2>3, <2>4, CallKept DEF Heeding
<1>5. \/ Returns(t, "ok")
      \/ p = "commanding" /\ Calls(t, "sending", Frame("reconnect"))
  <2>1. CASE CommandSends(t)
    BY <1>1, <2>1 DEF CommandSends, Loses, Now
  <2>2. CASE CallEnds(t)
    BY <2>2 DEF CallEnds
  <2> QED BY <2>1, <2>2 DEF Call
<1> QED BY <1>3, <1>4, <1>5

\* A call that comes in is calm.
LEMMA CallsInCalm ==
    ASSUME SessionInv, SessionInv', CalmInv, NEW t \in Driver,
           NEW p \in {"connect", "disconnect"}, NEW q \in {"watching", "commanding", "unloading"},
           CallsIn(t, <<Frame(p), Frame(q)>>)
    PROVE  CalmInv'
<1>0. StackOK /\ StackOK' /\ t \in Task /\ t \notin Beat
  BY SessionAssumption DEF SessionInv, Task
<1>1. /\ ~Alive(t) /\ stack[t] = <<>> /\ running = Nobody /\ running'.task = t
      /\ stack'[t] = <<Frame(p), Frame(q)>> /\ \A u \in Task \ {t} : stack'[u] = stack[u]
      /\ UNCHANGED <<connected, key>>
  BY <1>0, SessionAssumption
     DEF CallsIn, Goes, RunsOn, StackOK, Alive, Task, transportVars, clientVars
<1>2. /\ Frame(p).pc = p /\ Frame(q).pc = q /\ CalmFrame(Frame(p)) /\ CalmFrame(Frame(q))
      /\ p \notin Ground \cup Renewing \cup {"failing"}
      /\ q \in Ground /\ q \notin Renewing \cup Passing \cup {"failing"}
  BY DEF Frame, CalmFrame, Ground, Renewing, Passing
<1>3. CalmStack(stack'[t])
  <2> DEFINE s == <<Frame(p), Frame(q)>>
  <2>1. Len(s) = 2 /\ s[1] = Frame(p) /\ s[2] = Frame(q)
    OBVIOUS
  <2> HIDE DEF s
  <2> SUFFICES ASSUME NEW i \in 1 .. Len(s)
               PROVE  /\ CalmFrame(s[i])
                      /\ s[i].pc \in Ground <=> i = Len(s)
                      /\ s[i].pc \notin Renewing /\ s[i].pc # "failing"
    BY <1>1 DEF CalmStack, s
  <2>2. i = 1 \/ i = 2
    BY <2>1
  <2> QED BY <1>2, <2>1, <2>2
<1>4. ASSUME NEW i \in 1 .. Len(stack'[t])
      PROVE  /\ stack'[t][i].pc \in Passing => i = 1
             /\ stack'[t][i].pc # "failing"
  <2>1. i \in 1 .. Len(<<Frame(p), Frame(q)>>)
    BY <1>1
  <2>2. \/ i = 1 /\ stack'[t][i] = Frame(p)
        \/ i = 2 /\ stack'[t][i] = Frame(q)
    BY <1>1, <2>1
  <2> QED BY <1>2, <2>2
<1>5. Aside(t) /\ running.task \in {t, None} /\ Spares(t) /\ Carried(t)
  BY <1>1 DEF Aside, Spares, Carried, Nobody
<1>6. TasksCalm' /\ FailedIsDown'
  BY <1>0, <1>1, <1>3, <1>4, <1>5, StepCalm
<1>7. FlagSeenTo'
  BY <1>0, <1>1, <1>5, FlagKept
<1> QED BY <1>6, <1>7 DEF CalmInv

\* Without a slow server no call expires: whoever waits for the lock was not
\* called under a limit.
LEMMA NothingExpires ==
    ASSUME StackOK, CalmInv, ~SlowServer, NEW t \in Task, NEW i \in 1 .. Len(stack[t])
    PROVE  ~Expires(t, i)
<1> SUFFICES ASSUME Expires(t, i)
             PROVE  FALSE
  OBVIOUS
<1>1. /\ i \in 2 .. Len(stack[t]) /\ stack[t][i].pc \in {"watching", "rcConnect"}
      /\ Top(t).pc = "lockWait"
  BY DEF Expires
<1>2. stack[t] \in Seq(GoodFrame) /\ stack[t] # <<>> /\ CalmStack(stack[t])
  BY <1>1 DEF StackOK, CalmInv, TasksCalm
<1>3. stack[t][1].pc = "lockWait"
  BY <1>1, <1>2 DEF Top
<1>4. Len(stack[t]) = 2 /\ stack[t][2].pc \in {"reconnecting", "sending"}
  BY <1>2, <1>3, CalmTop DEF Renewing
<1> QED BY <1>1, <1>4

\* The supervision of the flag is an invariant under both hypotheses.
LEMMA CalmStep ==
    ~SlowServer /\ ~DrainMayFail /\ SessionInv /\ SessionInv' /\ CalmInv /\ [Next]_vars => CalmInv'
<1> SUFFICES ASSUME ~SlowServer, ~DrainMayFail, SessionInv, SessionInv', CalmInv, [Next]_vars
             PROVE  CalmInv'
  OBVIOUS
<1>1. ASSUME UNCHANGED <<connected, key, stack, running>>
      PROVE  CalmInv'
  BY <1>1 DEF CalmInv, TasksCalm, FailedIsDown, FlagSeenTo, SeenTo, SeesTo, LoggingIn, Alive, Top,
              CalmStack, CalmFrame
<1>2. CASE "watchdog" \in Driver /\ WatchdogStarts
  BY <1>2, CallsInCalm DEF WatchdogStarts, Connect
<1>3. CASE "unload" \in Driver /\ UnloadStarts
  BY <1>3, CallsInCalm DEF UnloadStarts
<1>4. ASSUME NEW t \in Driver, CommandStarts(t)
      PROVE  CalmInv'
  BY <1>4, CallsInCalm DEF CommandStarts, Connect
<1>5. ASSUME NEW t \in Task, Progress(t)
      PROVE  CalmInv'
  <2>1. CASE Disconnect(t)
    BY <2>1, DisconnectCalm
  <2>2. CASE Reconnect(t)
    BY <2>2, ReconnectCalm
  <2>3. CASE ConnectAndLogin(t)
    BY <2>3, ConnectCalm, AttemptCalm DEF ConnectAndLogin
  <2>4. CASE Call(t)
    BY <2>4, CommandCalm
  <2>5. CASE Listen(t)
    BY <2>5, ListenCalm
  <2>6. CASE Heartbeat(t)
    BY <2>6, HeartbeatCalm
  <2> QED BY <1>5, <2>1, <2>2, <2>3, <2>4, <2>5, <2>6 DEF Progress
<1>6. ASSUME NEW t \in Task, Timeout(t)
      PROVE  CalmInv'
  BY <1>6, NothingExpires DEF Timeout, SessionInv
<1>7. ASSUME NEW s \in Stream, StreamLost(s)
      PROVE  CalmInv'
  BY <1>1, <1>7 DEF StreamLost, clientVars
<1>8. CASE UNCHANGED vars
  BY <1>1, <1>8 DEF vars
<1> QED BY <1>2, <1>3, <1>4, <1>5, <1>6, <1>7, <1>8 DEF Next

(***************************************************************************)
(* With a server that answers in time and writes that do not fail late,    *)
(* the flag is supervised whenever the event loop rests: there is a beat   *)
(* with a session key, or a call still bringing the channel up or down;    *)
(* for any number of callers, listeners, beats and streams.                *)
(***************************************************************************)
THEOREM FlagIsSupervised ==
    ASSUME ~SlowServer, ~DrainMayFail
    PROVE  Spec => []FlagSupervised
<1>1. Init => CalmInv
  BY DEF Init, CalmInv, TasksCalm, FailedIsDown, FlagSeenTo, Alive, CalmStack, Task
<1>2. SessionInv /\ CalmInv => FlagSupervised
  <2> SUFFICES ASSUME SessionInv, CalmInv, connected, running = Nobody
               PROVE  /\ failures < MaxFailures
                      /\ \/ key = "session" /\ \E b \in Beat : Alive(b)
                         \/ \E t \in Task : \E i \in 1 .. Len(stack[t]) :
                               stack[t][i].pc \in Responsible
    BY DEF FlagSupervised
  <2>1. failures < MaxFailures
    BY SessionAssumption DEF SessionInv, ClientOK
  <2>2. /\ SeenTo \/ LoggingIn \/ \E b \in Beat : Alive(b)
        /\ key # "session" => SeenTo
    BY DEF CalmInv, FlagSeenTo
  <2>3. ASSUME SeenTo
        PROVE  \E t \in Task : \E i \in 1 .. Len(stack[t]) : stack[t][i].pc \in Responsible
    <3>1. PICK t \in Task : \E i \in 1 .. Len(stack[t]) : SeesTo(stack[t][i])
      BY <2>3 DEF SeenTo
    <3>2. PICK i \in 1 .. Len(stack[t]) : SeesTo(stack[t][i])
      BY <3>1
    <3>3. stack[t][i].pc \notin Passing
      BY SessionAssumption DEF CalmInv, TasksCalm, Nobody, Task
    <3>4. stack[t][i].pc \in Responsible
      BY <3>2, <3>3 DEF SeesTo, Responsible, Passing
    <3> QED BY <3>4
  <2>4. LoggingIn => \E t \in Task : \E i \in 1 .. Len(stack[t]) : stack[t][i].pc \in Responsible
    BY DEF LoggingIn, Responsible
  <2> QED BY <2>1, <2>2, <2>3, <2>4
<1>3. SessionInv /\ SessionInv' /\ CalmInv /\ [Next]_vars => CalmInv'
  BY CalmStep
<1> QED BY <1>1, <1>2, <1>3, SessionInvariant, PTL DEF Spec

=============================================================================
