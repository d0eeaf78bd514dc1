---------------------------- MODULE CameraInventory ----------------------------
(***************************************************************************)
(* How a camera entity finds its camera (meari_live.py, meari_channels.py, *)
(* meari_probe_context.py).  Entities are made once, from the vendor's     *)
(* inventory at that time; every later connection fetches the inventory    *)
(* again and has to find the same camera in it, although rows move,        *)
(* duplicate, change type or lose channels.  Rows are addressed by index,  *)
(* and three functions count those indexes, each for itself.               *)
(***************************************************************************)
EXTENDS Naturals, Sequences, FiniteSets, SequencesExt

CONSTANTS
    Vendor,    \* vendor IDs (CameraInfo.deviceID)
    Selected,  \* uids of the devices selected in this entry
    Serial,    \* serial numbers
    Channel,   \* channel numbers of recorders
    MaxRows,   \* bound of the model: rows of the inventory
    MaxNvrs    \* MAX_NVRS

ASSUME InventoryAssumption ==
    /\ Selected \subseteq Vendor /\ Channel \subseteq Nat /\ 0 \in Channel
    /\ MaxRows \in Nat /\ MaxNvrs \in Nat

VARIABLES
    rows,       \* the inventory: its groups one after the other
    online,     \* per serial: channels with state 1 and p2p 2
    described   \* LiveCameraDescription of the entities, once they are made

inventoryVars == <<rows, online, described>>

\* An item that is not an object, and a device: 2 an IPC, 11 a recorder, 17 a
\* base station.
Junk == [map |-> FALSE]
Device == [map : {TRUE}, id : Vendor, type : {2, 11, 17}, sn : Serial]

Description == [vendor : Vendor, channel : Channel, nvr : BOOLEAN]

InventoryTypeOK ==
    /\ rows \in Seq(Device \cup {Junk}) /\ Len(rows) <= MaxRows
    /\ online \in [Serial -> SUBSET Channel]
    /\ described \subseteq Description
    \* an IPC has channel 0 only, and an ID has one type
    /\ \A d \in described : (~d.nvr => d.channel = 0)
                         /\ \A e \in described : e.vendor = d.vendor => e.nvr = d.nvr

InventoryInit ==
    /\ rows = <<>> /\ online = [s \in Serial |-> {}]
    /\ described = {}

-----------------------------------------------------------------------------
(* Reading an inventory *)

\* Objects are counted in the order of the groups; an item that is none gets no
\* index.  _devices, _nvr_snapshot and _selected_device each keep that count.
Objects(inv) == {k \in 1..Len(inv) : inv[k].map}
Index(inv, k) == Cardinality({j \in Objects(inv) : j <= k})

\* _nvr_snapshot: the first row of every serial, MAX_NVRS at most.
Snapshot(inv) ==
    LET recorders == {k \in Objects(inv) : inv[k].type \in {11, 17}}
        firsts == {k \in recorders : \A j \in recorders : j < k => inv[j].sn # inv[k].sn}
    IN  {Index(inv, k) : k \in {i \in firsts : Cardinality({j \in firsts : j <= i}) <= MaxNvrs}}

\* Mutant of SelectedDevice: items that are no objects are counted.
SelectedDeviceRaw(inv, i) ==
    IF inv[i].map THEN inv[i] ELSE inv[CHOOSE k \in Objects(inv) : Index(inv, k) = i]

\* _selected_device: the row with an index.
SelectedDevice(inv, i) == inv[CHOOSE k \in Objects(inv) : Index(inv, k) = i]

\* The rows of _devices with an ID.
Matches(inv, vendor) == {k \in Objects(inv) : inv[k].id = vendor}

\* build_probe_context: an IPC or a recorder; a recorder's channel is looked up
\* under its serial and must not be off line, an IPC's is 0.
Buildable(inv, chans, i, channel) ==
    LET device == SelectedDevice(inv, i)
    IN  \/ device.type = 2 /\ channel = 0
        \/ device.type = 11 /\ channel \in chans[device.sn]

-----------------------------------------------------------------------------
(* Operations *)

\* describe_live_cameras for one selected device.
DescriptionsOf(uid) ==
    {d \in Description :
        /\ d.vendor = uid
        /\ \E k \in Matches(rows, uid) :
              /\ Matches(rows, uid) = {k}
              /\ d.nvr = (rows[k].type = 11)
              /\ IF d.nvr THEN Index(rows, k) \in Snapshot(rows) /\ d.channel \in online[rows[k].sn]
                          ELSE d.channel = 0
              /\ Buildable(rows, online, Index(rows, k), d.channel)}

\* The platform is set up once.
Discover ==
    /\ described = {}
    /\ described' = UNION {DescriptionsOf(uid) : uid \in Selected}
    /\ described' # {}
    /\ UNCHANGED <<rows, online>>

\* The vendor's cloud: a row appears or goes (rows that move or change do both);
\* channels come and go.
CloudChanges ==
    /\ \/ /\ Len(rows) < MaxRows
          /\ \E r \in Device \cup {Junk} : rows' = Append(rows, r)
          /\ UNCHANGED online
       \/ (\E i \in 1..Len(rows) : rows' = RemoveAt(rows, i)) /\ UNCHANGED online
       \/ /\ \E s \in Serial, c \in Channel :
                online' = [online EXCEPT ![s] = IF c \in @ THEN @ \ {c} ELSE @ \cup {c}]
          /\ UNCHANGED rows
    /\ UNCHANGED described

InventoryNext == Discover \/ CloudChanges

InventorySpec == InventoryInit /\ [][InventoryNext]_inventoryVars

\* LiveCameraBootstrap.context: the device a connection for d goes to, if any.
Resolved(d) ==
    {SelectedDevice(rows, Index(rows, k)) :
        k \in {j \in Matches(rows, d.vendor) :
                  /\ Matches(rows, d.vendor) = {j}
                  /\ (rows[j].type = 11) = d.nvr
                  /\ Buildable(rows, online, Index(rows, j), d.channel)}}

-----------------------------------------------------------------------------
(* Properties *)

(***************************************************************************)
(* A connection goes to the camera the entity was made for, or fails: the  *)
(* device resolved later has the entity's vendor ID, the same type and the *)
(* entity's channel on line, is the only one with that ID, and carries the *)
(* serial whose channels were looked at, whatever the cloud has changed    *)
(* since the entity was made.                                              *)
(***************************************************************************)
CameraKeepsIdentity ==
    \A d \in described : \A device \in Resolved(d) :
        /\ device.id = d.vendor
        /\ device.type = IF d.nvr THEN 11 ELSE 2
        /\ d.nvr => d.channel \in online[device.sn]
        /\ Cardinality({i \in 1..Len(rows) : rows[i].map /\ rows[i].id = d.vendor}) = 1

=============================================================================
