------------------------ MODULE LegacyCutoverProofs ------------------------
(***************************************************************************)
(* The move to the cloud: what is deleted was kept, a device marked as     *)
(* moved holds nothing, and a company's catalogue is imported once.        *)
(***************************************************************************)
EXTENDS LegacyCutover, FiniteSetTheorems, TLAPS

-----------------------------------------------------------------------------
(* The invariant: what an action knows stays true of the database it is    *)
(* about, whatever the other tabs do to it.                                *)

HoldsNothing(d) == disk[d] # None => IsEmpty(disk[d].data)

\* What justifies that the database goes for a task.
Justified(d, task) ==
    disk[d] # None =>
        /\ task = "migrate" => disk[d].data.rows \subseteq held
        /\ task = "retire" => IsEmpty(disk[d].data) \/ disk[d].data \in delivered[d]
        /\ task = "empty" => IsEmpty(disk[d].data)

\* What protects its upgrade.
Protected(d) ==
    (disk[d] # None /\ disk[d].version = "old" /\ ~IsEmpty(disk[d].data))
      => [kind |-> "PRE_MIGRATION", data |-> disk[d].data] \in disk[d].snapshots

\* The database is what the action has read of it, or is gone, or is new.
AsRead(t) == MyDisk(t) # None => MyDisk(t).data \in {tab[t].data, Nothing}

TaskFits(t) ==
    /\ tab[t].pc \in {"version", "openOld", "keep", "open", "read"} =>
         tab[t].task \in {"inspect", "migrate", "retire"}
    /\ tab[t].pc \in {"snapshot", "export"} => tab[t].task \in {"migrate", "retire"}
    /\ tab[t].pc \in {"compare", "again", "verify", "await"} => tab[t].task = "migrate"
    /\ tab[t].pc \in {"retire", "gone", "mark"} => tab[t].task \in {"migrate", "retire", "empty"}

ActionInv(t) ==
    /\ TaskFits(t)
    /\ tab[t].seen \subseteq held
    /\ tab[t].pc = "open" /\ ~tab[t].unsure => Protected(DeviceOf(t))
    /\ tab[t].pc \in {"snapshot", "export", "compare", "again", "verify", "await"} => AsRead(t)
    /\ tab[t].pc = "retire" => Justified(DeviceOf(t), tab[t].task)
    /\ tab[t].pc = "mark" => HoldsNothing(DeviceOf(t))

\* A request that waits for connections is as justified as when it was made.
WaitingInv(d) ==
    pending[d] # None =>
        /\ pending[d].kind = "upgrade" =>
             disk[d] # None /\ (~pending[d].unsure => Protected(d))
        /\ pending[d].kind = "delete" => Justified(d, pending[d].task)

ConnectedInv == \A t \in Tabs : conn[t] # "none" => MyDisk(t) # None

\* One import is at work at a time, and only while none has been made.
AtWork == {c \in calls : c.stage \in {"empty", "counted"}}
ImportInv ==
    /\ cloud \subseteq held
    /\ \A c \in calls : c.payload.rows # {}
    /\ imports # {} => cloud # {}
    /\ \A c, e \in AtWork : c = e
    /\ AtWork # {} => imports = {}
    /\ ImportedOnce

CutoverInv ==
    /\ CutoverTypeOK /\ ConnectedInv /\ ImportInv /\ MarkedDevicesHoldNothing
    /\ \A t \in Tabs : ActionInv(t)
    /\ \A d \in Devices : WaitingInv(d)

-----------------------------------------------------------------------------
(* Types.                                                                  *)

LEMMA SceneFacts ==
    ASSUME CutoverTypeOK
    PROVE  /\ \A t \in Tabs : DeviceOf(t) \in Devices /\ MyDisk(t) \in Disks \cup {None}
           /\ Part.disk \in [Devices -> Disks \cup {None}] /\ Part.clouds \subseteq SUBSET Row
  BY SceneAssumption DEF CutoverTypeOK, DeviceOf, MyDisk, Part

LEMMA NothingIsEmpty == Nothing \in Contents /\ IsEmpty(Nothing) /\ Nothing.rows = {}
  BY DEF Nothing, Content, Contents, IsEmpty

LEMMA DiskIsDisk ==
    ASSUME NEW v \in {"old", "current"}
    PROVE  /\ Disk(v, Nothing) \in Disks /\ Disk(v, Nothing) # None
           /\ Disk(v, Nothing).data = Nothing /\ Disk(v, Nothing).version = v
           /\ Disk(v, Nothing).snapshots = {}
  <1>1. Disk(v, Nothing) \in Disks
    BY NothingIsEmpty DEF Disk, Disks, Copies
  <1> QED
    BY <1>1, NoneIsNothing DEF Disk

LEMMA BecomesTyped ==
    ASSUME CutoverTypeOK, NEW t \in Tabs, NEW r \in Actions, Becomes(t, r)
    PROVE  /\ tab' \in [Tabs -> Actions] /\ tab'[t] = r
           /\ \A u \in Tabs \ {t} : tab'[u] = tab[u]
  BY DEF CutoverTypeOK, Becomes

\* An action goes on at pc, and is otherwise as it was.
LEMMA GoesTyped ==
    ASSUME CutoverTypeOK, NEW t \in Tabs, NEW pc \in Pcs, Goes(t, pc)
    PROVE  /\ tab' \in [Tabs -> Actions] /\ tab'[t].pc = pc
           /\ tab'[t].task = tab[t].task /\ tab'[t].unsure = tab[t].unsure
           /\ tab'[t].data = tab[t].data /\ tab'[t].seen = tab[t].seen
           /\ \A u \in Tabs \ {t} : tab'[u] = tab[u]
  <1>1. tab[t] \in Actions
    BY DEF CutoverTypeOK
  <1>2. [tab[t] EXCEPT !.pc = pc] \in Actions
    BY <1>1 DEF Actions
  <1>3. /\ tab' \in [Tabs -> Actions] /\ tab'[t] = [tab[t] EXCEPT !.pc = pc]
        /\ \A u \in Tabs \ {t} : tab'[u] = tab[u]
    BY <1>2, BecomesTyped DEF Goes
  <1> QED
    BY <1>1, <1>3 DEF Actions

LEMMA IdleIsAction == Idle \in Actions /\ Idle.pc = "idle" /\ Idle.seen = {}
  BY NothingIsEmpty DEF Idle, Actions, Pcs, Tasks

LEMMA FailsTyped ==
    ASSUME CutoverTypeOK, NEW t \in Tabs, FailsWith(t)
    PROVE  /\ tab' \in [Tabs -> Actions] /\ tab'[t] = Idle
           /\ \A u \in Tabs \ {t} : tab'[u] = tab[u]
           /\ shows' \in [Tabs -> {"closed", "inspecting", "required", "ready", "failed",
                                  "inspection failed"}]
  <1>1. /\ tab' \in [Tabs -> Actions] /\ tab'[t] = Idle
        /\ \A u \in Tabs \ {t} : tab'[u] = tab[u]
    BY IdleIsAction, BecomesTyped DEF FailsWith
  <1> QED
    BY <1>1 DEF CutoverTypeOK, FailsWith, Shows

LEMMA ComparesTyped ==
    ASSUME CutoverTypeOK, NEW t \in Tabs, NEW pc \in Pcs, Compares(t, pc)
    PROVE  /\ tab' \in [Tabs -> Actions] /\ tab'[t].pc = pc
           /\ tab'[t].task = tab[t].task /\ tab'[t].unsure = tab[t].unsure
           /\ tab'[t].data = tab[t].data /\ tab'[t].seen = {}
           /\ \A u \in Tabs \ {t} : tab'[u] = tab[u]
  <1>1. tab[t] \in Actions
    BY DEF CutoverTypeOK
  <1> DEFINE r == [tab[t] EXCEPT !.pc = pc, !.seen = {}, !.unread = Lists, !.call = 0]
  <1>2. /\ r \in Actions /\ r.pc = pc /\ r.task = tab[t].task /\ r.unsure = tab[t].unsure
        /\ r.data = tab[t].data /\ r.seen = {}
    BY <1>1 DEF Actions
  <1>3. Becomes(t, r)
    BY DEF Compares
  <1> HIDE DEF r
  <1> QED
    BY <1>2, <1>3, BecomesTyped

LEMMA ConnectsTyped ==
    ASSUME CutoverTypeOK, NEW t \in Tabs, NEW how \in {"none", "open", "closing"},
           Connects(t, how)
    PROVE  /\ conn' \in [Tabs -> {"none", "open", "closing"}] /\ conn'[t] = how
           /\ \A u \in Tabs \ {t} : conn'[u] = conn[u]
  BY DEF CutoverTypeOK, Connects

LEMMA SnapshotTyped ==
    ASSUME CutoverTypeOK, NEW t \in Tabs, NEW kind \in {"PRE_MIGRATION", "PRE_IMPORT"},
           TakesSnapshot(t, kind), MyDisk(t) # None
    PROVE  /\ disk' \in [Devices -> Disks \cup {None}]
           /\ disk'[DeviceOf(t)] \in Disks /\ disk'[DeviceOf(t)] # None
           /\ disk'[DeviceOf(t)].version = MyDisk(t).version
           /\ disk'[DeviceOf(t)].data = MyDisk(t).data
           /\ disk'[DeviceOf(t)].snapshots
                = MyDisk(t).snapshots \cup {[kind |-> kind, data |-> MyDisk(t).data]}
           /\ \A d \in Devices \ {DeviceOf(t)} : disk'[d] = disk[d]
  <1>1. DeviceOf(t) \in Devices /\ MyDisk(t) \in Disks /\ MyDisk(t) = disk[DeviceOf(t)]
    BY SceneFacts DEF MyDisk
  <1> DEFINE d == DeviceOf(t)
             copy == [kind |-> kind, data |-> MyDisk(t).data]
             kept == [disk[d] EXCEPT !.snapshots = @ \cup {copy}]
  <1>2. copy \in Copies
    BY <1>1 DEF Disks, Copies
  <1>3. disk' = [disk EXCEPT ![d] = kept]
    BY DEF TakesSnapshot
  <1> HIDE DEF copy
  <1>4. /\ kept \in Disks /\ kept.version = disk[d].version /\ kept.data = disk[d].data
        /\ kept.snapshots = disk[d].snapshots \cup {copy}
    BY <1>1, <1>2 DEF Disks
  <1> HIDE DEF kept
  <1>5. disk \in [Devices -> Disks \cup {None}] /\ d \in Devices
    BY <1>1 DEF CutoverTypeOK
  <1> HIDE DEF d
  <1>6. /\ disk' \in [Devices -> Disks \cup {None}] /\ disk'[d] = kept
        /\ \A x \in Devices \ {d} : disk'[x] = disk[x]
    BY <1>3, <1>4, <1>5
  <1> QED
    BY <1>1, <1>4, <1>6, NoneIsNothing DEF d, copy

-----------------------------------------------------------------------------
(* What a step may do to a database, and what stays true of it.            *)

\* A database is gone, or new, or holds what it held, upgraded or not.
Evolves(d) ==
    \/ disk'[d] = None
    \/ disk'[d] # None /\ disk'[d].data = Nothing
    \/ /\ disk[d] # None /\ disk'[d] # None
       /\ disk'[d].data = disk[d].data
       /\ disk'[d].version \in {disk[d].version, "current"}
       /\ disk[d].snapshots \subseteq disk'[d].snapshots

Onward ==
    /\ scene' = scene
    /\ held \subseteq held'
    /\ \A d \in Devices : delivered[d] \subseteq delivered'[d]
    /\ \A d \in Devices : Evolves(d)

LEMMA DisksStay ==
    ASSUME CutoverTypeOK, UNCHANGED disk
    PROVE  \A d \in Devices : Evolves(d)
  BY DEF Evolves, CutoverTypeOK

LEMMA UpgradedEvolves ==
    ASSUME CutoverTypeOK, NEW d \in Devices, disk[d] # None, disk' = Upgraded(d)
    PROVE  /\ disk' \in [Devices -> Disks \cup {None}]
           /\ disk'[d] # None /\ disk'[d].version = "current" /\ disk'[d].data = disk[d].data
           /\ \A e \in Devices \ {d} : disk'[e] = disk[e]
           /\ \A e \in Devices : Evolves(e)
  <1> DEFINE now == [disk[d] EXCEPT !.version = "current"]
  <1>1. disk[d] \in Disks /\ disk \in [Devices -> Disks \cup {None}]
    BY DEF CutoverTypeOK
  <1>2. disk' = [disk EXCEPT ![d] = now]
    BY DEF Upgraded
  <1>3. /\ now \in Disks /\ now.version = "current" /\ now.data = disk[d].data
        /\ now.snapshots = disk[d].snapshots
    BY <1>1 DEF Disks
  <1> HIDE DEF now
  <1>4. disk'[d] = now /\ \A e \in Devices \ {d} : disk'[e] = disk[e]
    BY <1>1, <1>2
  <1>5. now # None
    BY <1>3, NoneIsNothing
  <1>6. disk' \in [Devices -> Disks \cup {None}]
    BY <1>1, <1>2, <1>3
  <1>7. \A e \in Devices : Evolves(e)
    BY <1>3, <1>4, <1>5 DEF Evolves
  <1> QED
    BY <1>3, <1>4, <1>5, <1>6, <1>7

LEMMA RemovedEvolves ==
    ASSUME CutoverTypeOK, NEW d \in Devices, disk' = Removed(d)
    PROVE  /\ disk' \in [Devices -> Disks \cup {None}]
           /\ disk'[d] = None /\ \A e \in Devices \ {d} : disk'[e] = disk[e]
           /\ \A e \in Devices : Evolves(e)
  BY DEF CutoverTypeOK, Removed, Evolves

LEMMA CreatedEvolves ==
    ASSUME CutoverTypeOK, NEW d \in Devices, NEW v \in {"old", "current"},
           disk' = IF disk[d] = None THEN [disk EXCEPT ![d] = Disk(v, Nothing)] ELSE disk
    PROVE  /\ disk' \in [Devices -> Disks \cup {None}]
           /\ disk'[d] # None
           /\ \A e \in Devices : disk[e] # None => disk'[e] = disk[e]
           /\ \A e \in Devices : Evolves(e)
  <1> DEFINE fresh == Disk(v, Nothing)
  <1>1. fresh \in Disks /\ fresh # None /\ fresh.data = Nothing
    BY DiskIsDisk
  <1>2. disk' = IF disk[d] = None THEN [disk EXCEPT ![d] = fresh] ELSE disk
    OBVIOUS
  <1> HIDE DEF fresh
  <1> QED
    BY <1>1, <1>2 DEF CutoverTypeOK, Evolves

LEMMA SnapshotEvolves ==
    ASSUME CutoverTypeOK, NEW t \in Tabs, NEW kind \in {"PRE_MIGRATION", "PRE_IMPORT"},
           TakesSnapshot(t, kind), MyDisk(t) # None
    PROVE  \A e \in Devices : Evolves(e)
  <1>1. MyDisk(t) = disk[DeviceOf(t)]
    BY DEF MyDisk
  <1> QED
    BY <1>1, SnapshotTyped DEF Evolves

LEMMA StaysTrue ==
    ASSUME CutoverTypeOK, CutoverTypeOK', Onward, NEW d \in Devices
    PROVE  /\ HoldsNothing(d) => HoldsNothing(d)'
           /\ \A task \in Tasks : Justified(d, task) => Justified(d, task)'
           /\ Protected(d) => Protected(d)'
  <1>1. Evolves(d) /\ held \subseteq held' /\ delivered[d] \subseteq delivered'[d]
    BY DEF Onward
  <1>2. CASE disk'[d] = None
    BY <1>2 DEF HoldsNothing, Justified, Protected
  <1>3. CASE disk'[d] # None /\ disk'[d].data = Nothing
    BY <1>3, NothingIsEmpty DEF HoldsNothing, Justified, Protected
  <1>4. CASE /\ disk[d] # None /\ disk'[d] # None
             /\ disk'[d].data = disk[d].data
             /\ disk'[d].version \in {disk[d].version, "current"}
             /\ disk[d].snapshots \subseteq disk'[d].snapshots
    BY <1>1, <1>4 DEF HoldsNothing, Justified, Protected
  <1> QED
    BY <1>1, <1>2, <1>3, <1>4 DEF Evolves

LEMMA SameDevice ==
    ASSUME scene' = scene, NEW t \in Tabs
    PROVE  DeviceOf(t)' = DeviceOf(t) /\ MyDisk(t)' = disk'[DeviceOf(t)]
  BY DEF DeviceOf, MyDisk, Part

LEMMA StillAsRead ==
    ASSUME CutoverTypeOK, Onward, NEW t \in Tabs, tab'[t].data = tab[t].data, AsRead(t)
    PROVE  AsRead(t)'
  <1>1. /\ DeviceOf(t) \in Devices /\ MyDisk(t) = disk[DeviceOf(t)]
        /\ MyDisk(t)' = disk'[DeviceOf(t)] /\ Evolves(DeviceOf(t))
    BY SceneFacts, SameDevice DEF Onward, MyDisk
  <1> QED
    BY <1>1 DEF AsRead, Evolves

\* What holds of an action holds on while other tabs and the server go on.
LEMMA ActionStays ==
    ASSUME CutoverTypeOK, CutoverTypeOK', Onward, NEW t \in Tabs, ActionInv(t), tab'[t] = tab[t]
    PROVE  ActionInv(t)'
  <1>1. DeviceOf(t) \in Devices /\ DeviceOf(t)' = DeviceOf(t) /\ tab[t].task \in Tasks
    BY SceneFacts, SameDevice DEF Onward, CutoverTypeOK, Actions
  <1>2. TaskFits(t)' /\ (tab'[t].seen \subseteq held')
    BY DEF ActionInv, TaskFits, Onward
  <1>3. /\ tab'[t].pc = "open" /\ ~tab'[t].unsure => Protected(DeviceOf(t))'
        /\ tab'[t].pc = "retire" => Justified(DeviceOf(t), tab[t].task)'
        /\ tab'[t].pc = "mark" => HoldsNothing(DeviceOf(t))'
    <2>1. PICK d \in Devices : d = DeviceOf(t)
      BY <1>1
    <2>2. /\ HoldsNothing(d) => HoldsNothing(d)'
          /\ Justified(d, tab[t].task) => Justified(d, tab[t].task)'
          /\ Protected(d) => Protected(d)'
      <3>1. PICK task \in Tasks : task = tab[t].task
        BY <1>1
      <3>2. task = tab'[t].task
        BY <3>1
      <3>3. Justified(d, task) => Justified(d, task)'
        BY StaysTrue
      <3>4. Justified(d, tab[t].task) => Justified(d, tab[t].task)'
        BY <3>1, <3>2, <3>3 DEF Justified
      <3> QED
        BY <3>4, StaysTrue
    <2>3. /\ ActionInv(t)
          /\ tab'[t].pc = tab[t].pc /\ tab'[t].unsure = tab[t].unsure /\ d = DeviceOf(t)'
      BY <1>1, <2>1
    <2>4. /\ tab[t].pc = "open" /\ ~tab[t].unsure => Protected(d)
          /\ tab[t].pc = "retire" => Justified(d, tab[t].task)
          /\ tab[t].pc = "mark" => HoldsNothing(d)
      BY <2>1, <2>3 DEF ActionInv
    <2> QED
      BY <2>1, <2>2, <2>3, <2>4 DEF HoldsNothing, Protected, Justified
  <1>4. AsRead(t) => AsRead(t)'
    BY StillAsRead
  <1> QED
    BY <1>1, <1>2, <1>3, <1>4 DEF ActionInv

-----------------------------------------------------------------------------
(* What a step has to show.                                                *)

LEMMA ImportsStay ==
    ASSUME ImportInv, UNCHANGED server, held \subseteq held'
    PROVE  ImportInv'
  BY DEF ImportInv, AtWork, ImportedOnce, server

LEMMA WaitingStays ==
    ASSUME CutoverTypeOK, CutoverTypeOK', Onward, NEW d \in Devices, WaitingInv(d),
           pending'[d] = pending[d], disk[d] # None => disk'[d] # None
    PROVE  WaitingInv(d)'
  <1>1. CASE pending[d] = None
    BY <1>1 DEF WaitingInv
  <1>2. CASE pending[d] # None
    <2>1. PICK task \in Tasks : task = pending[d].task
      BY <1>2 DEF CutoverTypeOK, Waiting
    <2>2. /\ Justified(d, task) => Justified(d, task)'
          /\ Protected(d) => Protected(d)'
      BY StaysTrue
    <2> QED
      BY <1>2, <2>1, <2>2 DEF WaitingInv, Justified
  <1> QED
    BY <1>1, <1>2

\* Nothing waits behind a step but what it has justified; what it marks holds
\* nothing; and a database that goes had no request waiting.
LEMMA StepHolds ==
    ASSUME CutoverInv, CutoverTypeOK', Onward, ConnectedInv', ImportInv',
           \A u \in Tabs : ActionInv(u)' \/ tab'[u] = tab[u],
           \A d \in Devices : WaitingInv(d)' \/ pending'[d] = pending[d],
           \A d \in Devices : disk[d] # None /\ disk'[d] = None => pending'[d] = None,
           \A d \in Devices : marker'[d] = marker[d] \/ HoldsNothing(d)'
    PROVE  CutoverInv'
  <1>1. \A u \in Tabs : ActionInv(u)'
    BY ActionStays DEF CutoverInv
  <1>2. \A d \in Devices : WaitingInv(d)'
    <2> SUFFICES ASSUME NEW d \in Devices, pending'[d] = pending[d] PROVE WaitingInv(d)'
      OBVIOUS
    <2>1. CASE pending'[d] = None
      BY <2>1 DEF WaitingInv
    <2>2. CASE disk[d] # None => disk'[d] # None
      BY <2>2, WaitingStays DEF CutoverInv
    <2> QED
      BY <2>1, <2>2
  <1>3. MarkedDevicesHoldNothing'
    <2> SUFFICES ASSUME NEW d \in Devices, marker'[d] # None PROVE HoldsNothing(d)'
      BY DEF MarkedDevicesHoldNothing, HoldsNothing
    <2>1. CASE marker'[d] = marker[d]
      <3>1. HoldsNothing(d)
        BY <2>1 DEF CutoverInv, MarkedDevicesHoldNothing, HoldsNothing
      <3> QED
        BY <3>1, StaysTrue DEF CutoverInv
    <2> QED
      BY <2>1
  <1> QED
    BY <1>1, <1>2, <1>3 DEF CutoverInv

LEMMA StepOfOne ==
    ASSUME CutoverInv, CutoverTypeOK', Onward, ConnectedInv', ImportInv',
           NEW t \in Tabs, ActionInv(t)', \A u \in Tabs \ {t} : tab'[u] = tab[u],
           \A d \in Devices : WaitingInv(d)' \/ pending'[d] = pending[d],
           \A d \in Devices : disk[d] # None /\ disk'[d] = None => pending'[d] = None,
           \A d \in Devices : marker'[d] = marker[d] \/ HoldsNothing(d)'
    PROVE  CutoverInv'
  <1>1. \A u \in Tabs : ActionInv(u)' \/ tab'[u] = tab[u]
    OBVIOUS
  <1> QED
    BY <1>1, StepHolds

\* A step that only takes one action further.
LEMMA OnlyTheAction ==
    ASSUME CutoverInv, NEW t \in Tabs, UNCHANGED <<local, shows, stored, server, scene, held, delivered>>,
           tab' \in [Tabs -> Actions], \A u \in Tabs \ {t} : tab'[u] = tab[u],
           CutoverTypeOK' /\ Onward => ActionInv(t)'
    PROVE  CutoverInv'
  <1>1. CutoverTypeOK'
    BY DEF CutoverInv, CutoverTypeOK, local, stored, server
  <1>2. Onward
    BY DisksStay DEF Onward, CutoverInv, local
  <1>3. ConnectedInv'
    BY SameDevice DEF CutoverInv, ConnectedInv, local, MyDisk
  <1>4. ImportInv'
    BY ImportsStay DEF CutoverInv
  <1>5. ActionInv(t)'
    BY <1>1, <1>2
  <1>6. pending' = pending /\ marker' = marker /\ disk' = disk
    BY DEF local, stored
  <1> QED
    BY <1>1, <1>2, <1>3, <1>4, <1>5, <1>6, StepOfOne

LEMMA IdleHolds ==
    ASSUME NEW t \in Tabs, tab[t].pc = "idle", tab[t].seen = {}
    PROVE  ActionInv(t)
  BY DEF ActionInv, TaskFits

\* A step that ends one action, with its connection.
LEMMA OnlyEnds ==
    ASSUME CutoverInv, NEW t \in Tabs, FailsWith(t), Connects(t, "none"),
           UNCHANGED <<disk, strays, pending, stored, server, scene, held, delivered>>
    PROVE  CutoverInv'
  <1>1. /\ tab' \in [Tabs -> Actions] /\ tab'[t] = Idle
        /\ \A u \in Tabs \ {t} : tab'[u] = tab[u]
        /\ shows' \in [Tabs -> {"closed", "inspecting", "required", "ready", "failed",
                               "inspection failed"}]
    BY FailsTyped DEF CutoverInv
  <1>2. /\ conn' \in [Tabs -> {"none", "open", "closing"}] /\ conn'[t] = "none"
        /\ \A u \in Tabs \ {t} : conn'[u] = conn[u]
    BY ConnectsTyped DEF CutoverInv
  <1>3. CutoverTypeOK'
    BY <1>1, <1>2 DEF CutoverInv, CutoverTypeOK, stored, server
  <1>4. Onward
    BY DisksStay DEF Onward, CutoverInv
  <1>5. ConnectedInv'
    BY <1>2, SameDevice DEF CutoverInv, ConnectedInv, MyDisk
  <1>6. ImportInv'
    BY ImportsStay DEF CutoverInv
  <1>7. ActionInv(t)'
    BY <1>1, IdleIsAction DEF ActionInv, TaskFits
  <1>8. marker' = marker
    BY DEF stored
  <1> QED
    BY <1>1, <1>3, <1>4, <1>5, <1>6, <1>7, <1>8, StepOfOne

-----------------------------------------------------------------------------
(* The actions' steps.                                                     *)

LEMMA ReadVersionStep ==
    ASSUME CutoverInv, NEW t \in Tabs, ReadVersion(t)
    PROVE  CutoverInv'
  <1>1. tab[t] \in Actions /\ tab \in [Tabs -> Actions] /\ CutoverTypeOK /\ ActionInv(t)
    BY DEF CutoverInv, CutoverTypeOK
  <1>2. /\ scene' = scene /\ disk' = disk /\ At(t, "version")
        /\ DeviceOf(t)' = DeviceOf(t) /\ MyDisk(t) = disk[DeviceOf(t)]
        /\ UNCHANGED <<local, shows, stored, server, scene, held, delivered>>
    BY SameDevice DEF ReadVersion, local, counters, MyDisk
  <1>3. CASE Goes(t, IF MyDisk(t) # None /\ MyDisk(t).version = "old" THEN "openOld" ELSE "open")
    <2> DEFINE pc == IF MyDisk(t) # None /\ MyDisk(t).version = "old" THEN "openOld" ELSE "open"
    <2>1. pc \in Pcs /\ pc \in {"openOld", "open"}
      BY DEF Pcs
    <2>2. pc = "open" => Protected(DeviceOf(t))
      BY <1>2 DEF Protected
    <2> HIDE DEF pc
    <2>3. Goes(t, pc)
      BY <1>3 DEF pc
    <2>4. /\ tab' \in [Tabs -> Actions] /\ tab'[t].pc = pc
          /\ tab'[t].task = tab[t].task /\ tab'[t].seen = tab[t].seen
          /\ \A u \in Tabs \ {t} : tab'[u] = tab[u]
      BY <1>1, <2>1, <2>3, GoesTyped
    <2>5. ActionInv(t)'
      BY <1>1, <1>2, <2>1, <2>2, <2>4 DEF ActionInv, TaskFits, At, Protected
    <2> QED
      BY <1>2, <2>4, <2>5, OnlyTheAction
  <1>4. CASE Becomes(t, [tab[t] EXCEPT !.pc = "open", !.unsure = TRUE])
    <2> DEFINE r == [tab[t] EXCEPT !.pc = "open", !.unsure = TRUE]
    <2>1. /\ r \in Actions /\ r.pc = "open" /\ r.unsure /\ r.task = tab[t].task
          /\ r.seen = tab[t].seen
      BY <1>1 DEF Actions, Pcs
    <2> HIDE DEF r
    <2>2. Becomes(t, r)
      BY <1>4 DEF r
    <2>3. /\ tab' \in [Tabs -> Actions] /\ tab'[t] = r
          /\ \A u \in Tabs \ {t} : tab'[u] = tab[u]
      BY <1>1, <2>1, <2>2, BecomesTyped
    <2>4. ActionInv(t)'
      BY <1>1, <1>2, <2>1, <2>3 DEF ActionInv, TaskFits, At
    <2> QED
      BY <1>2, <2>3, <2>4, OnlyTheAction
  <1> QED
    BY <1>3, <1>4 DEF ReadVersion

LEMMA ReadListStep ==
    ASSUME CutoverInv, NEW t \in Tabs, ReadList(t)
    PROVE  CutoverInv'
  <1>1. tab[t] \in Actions /\ CutoverTypeOK /\ ActionInv(t) /\ cloud \subseteq held
    BY DEF CutoverInv, CutoverTypeOK, ImportInv
  <1>2. PICK list \in tab[t].unread :
          Becomes(t, [tab[t] EXCEPT !.unread = @ \ {list},
                                    !.seen = @ \cup {r \in cloud : ListOf[r.id] = list}])
    BY DEF ReadList
  <1>3. /\ tab[t].pc \in {"compare", "again", "verify"}
        /\ UNCHANGED <<local, shows, stored, server, scene, held, delivered>>
    BY DEF ReadList, counters
  <1> DEFINE fresh == {r \in cloud : ListOf[r.id] = list}
  <1>4. fresh \subseteq held /\ fresh \subseteq Row
    BY <1>1 DEF CutoverTypeOK
  <1> HIDE DEF fresh
  <1> DEFINE next == [tab[t] EXCEPT !.unread = @ \ {list}, !.seen = @ \cup fresh]
  <1>5. /\ next \in Actions /\ next.pc = tab[t].pc /\ next.task = tab[t].task
        /\ next.data = tab[t].data /\ next.seen = tab[t].seen \cup fresh
    BY <1>1, <1>4 DEF Actions
  <1>6. Becomes(t, next)
    BY <1>2 DEF fresh
  <1> HIDE DEF next
  <1>7. /\ tab' \in [Tabs -> Actions] /\ tab'[t] = next
        /\ \A u \in Tabs \ {t} : tab'[u] = tab[u]
    BY <1>1, <1>5, <1>6, BecomesTyped
  <1>8. ASSUME Onward PROVE ActionInv(t)'
    <2>1. AsRead(t)'
      BY <1>1, <1>3, <1>5, <1>7, <1>8, StillAsRead DEF ActionInv
    <2>2. (tab'[t].seen \subseteq held') /\ TaskFits(t)'
      BY <1>1, <1>3, <1>4, <1>5, <1>7 DEF ActionInv, TaskFits
    <2> QED
      BY <1>3, <1>5, <1>7, <2>1, <2>2 DEF ActionInv
  <1> QED
    BY <1>3, <1>7, <1>8, OnlyTheAction

\* A comparison begins, on what has been read of the database.
LEMMA CompareBegins ==
    ASSUME CutoverTypeOK, Onward, NEW t \in Tabs, NEW pc \in {"compare", "again", "verify"},
           Compares(t, pc), ActionInv(t), tab[t].task = "migrate", AsRead(t)
    PROVE  ActionInv(t)'
  <1>1. /\ tab'[t].pc = pc /\ tab'[t].task = tab[t].task /\ tab'[t].data = tab[t].data
        /\ tab'[t].seen = {}
    BY ComparesTyped DEF Pcs
  <1>2. AsRead(t)'
    BY <1>1, StillAsRead
  <1> QED
    BY <1>1, <1>2 DEF ActionInv, TaskFits

LEMMA ComparisonStep ==
    ASSUME CutoverInv, NEW t \in Tabs, ProvenAgain(t) \/ ImportAnswered(t) \/ ImportRefused(t)
    PROVE  CutoverInv'
  <1>1. CutoverTypeOK /\ ActionInv(t)
    BY DEF CutoverInv
  <1>2. /\ tab[t].pc \in {"again", "await"}
        /\ Compares(t, "verify") \/ Compares(t, "again")
        /\ UNCHANGED <<local, shows, stored, server, scene, held, delivered>>
    BY DEF ProvenAgain, ImportAnswered, ImportRefused, Answered, Compared, At, counters
  <1>3. tab[t].task = "migrate" /\ AsRead(t)
    BY <1>1, <1>2 DEF ActionInv, TaskFits
  <1>4. Onward => ActionInv(t)'
    BY <1>1, <1>2, <1>3, CompareBegins
  <1>5. tab' \in [Tabs -> Actions] /\ \A u \in Tabs \ {t} : tab'[u] = tab[u]
    BY <1>1, <1>2, ComparesTyped DEF Pcs
  <1> QED
    BY <1>2, <1>4, <1>5, OnlyTheAction

\* "Every legacy record is PRESENT": each was in the catalogue in that form.
LEMMA ProvenStep ==
    ASSUME CutoverInv, NEW t \in Tabs, Proven(t)
    PROVE  CutoverInv'
  <1>1. CutoverTypeOK /\ ActionInv(t) /\ tab[t] \in Actions
    BY DEF CutoverInv, CutoverTypeOK
  <1>2. /\ tab[t].pc \in {"compare", "verify"} /\ Fits(t) /\ Goes(t, "retire")
        /\ UNCHANGED <<local, shows, stored, server, scene, held, delivered>>
        /\ disk' = disk /\ DeviceOf(t)' = DeviceOf(t) /\ MyDisk(t) = disk[DeviceOf(t)]
    BY SameDevice DEF Proven, Compared, At, counters, local, MyDisk
  <1>3. tab[t].data.rows \subseteq held
    BY <1>1, <1>2 DEF Fits, Missing, Conflicts, Present, ActionInv
  <1>4. /\ tab' \in [Tabs -> Actions] /\ tab'[t].pc = "retire" /\ tab'[t].task = tab[t].task
        /\ tab'[t].seen = tab[t].seen /\ \A u \in Tabs \ {t} : tab'[u] = tab[u]
    BY <1>1, <1>2, GoesTyped DEF Pcs
  <1>5. tab[t].task = "migrate" /\ AsRead(t)
    BY <1>1, <1>2 DEF ActionInv, TaskFits
  <1>6. MyDisk(t) # None => MyDisk(t).data.rows \subseteq held
    BY <1>3, <1>5, NothingIsEmpty DEF AsRead
  <1>7. Justified(DeviceOf(t), tab[t].task)'
    BY <1>2, <1>4, <1>5, <1>6 DEF Justified
  <1>8. ActionInv(t)'
    BY <1>1, <1>2, <1>4, <1>5, <1>7 DEF ActionInv, TaskFits, Justified
  <1> QED
    BY <1>2, <1>4, <1>8, OnlyTheAction

LEMMA ConfirmRetiredStep ==
    ASSUME CutoverInv, NEW t \in Tabs, ConfirmRetired(t)
    PROVE  CutoverInv'
  <1>1. CutoverTypeOK /\ ActionInv(t)
    BY DEF CutoverInv
  <1>2. /\ tab[t].pc = "gone" /\ MyDisk(t) = None /\ Goes(t, "mark")
        /\ UNCHANGED <<local, shows, stored, server, scene, held, delivered>>
        /\ disk' = disk /\ DeviceOf(t)' = DeviceOf(t) /\ MyDisk(t) = disk[DeviceOf(t)]
    BY SameDevice DEF ConfirmRetired, At, counters, local, MyDisk
  <1>3. /\ tab' \in [Tabs -> Actions] /\ tab'[t].pc = "mark" /\ tab'[t].task = tab[t].task
        /\ tab'[t].seen = tab[t].seen /\ \A u \in Tabs \ {t} : tab'[u] = tab[u]
    BY <1>1, <1>2, GoesTyped DEF Pcs
  <1>4. ActionInv(t)'
    BY <1>1, <1>2, <1>3 DEF ActionInv, TaskFits, HoldsNothing
  <1> QED
    BY <1>2, <1>3, <1>4, OnlyTheAction

LEMMA EndingStep ==
    ASSUME CutoverInv, NEW t \in Tabs, NotProven(t) \/ Throws(t) \/ MayFail(t)
    PROVE  CutoverInv'
  BY OnlyEnds DEF NotProven, Throws, MayFail, Fails, Faulty, counters

\* An action is begun: nothing is known yet.
LEMMA BeginStep ==
    ASSUME CutoverInv, NEW t \in Tabs, Boot(t) \/ Migrate(t) \/ RetireLocal(t)
    PROVE  CutoverInv'
  <1>1. PICK pc \in {"idle", "version"}, task \in {"inspect", "migrate", "retire"} :
          Becomes(t, [Idle EXCEPT !.pc = pc, !.task = task])
    BY DEF Boot, Migrate, RetireLocal, Begins
  <1>2. /\ UNCHANGED <<local, stored, server, scene, held, delivered>>
        /\ shows' = shows \/ Shows(t, "ready") \/ Shows(t, "inspecting")
    BY DEF Boot, Migrate, RetireLocal, Begins
  <1> DEFINE begun1 == [Idle EXCEPT !.pc = pc, !.task = task]
  <1>3. /\ begun1 \in Actions /\ begun1.pc = pc /\ begun1.task = task /\ begun1.seen = {}
    BY NothingIsEmpty DEF Idle, Actions, Pcs, Tasks
  <1> HIDE DEF begun1
  <1>4. /\ tab' \in [Tabs -> Actions] /\ tab'[t] = begun1
        /\ \A u \in Tabs \ {t} : tab'[u] = tab[u]
    BY <1>1, <1>3, BecomesTyped DEF CutoverInv, begun1
  <1>5. CutoverTypeOK'
    BY <1>2, <1>4 DEF CutoverInv, CutoverTypeOK, local, stored, server, Shows
  <1>6. Onward
    BY <1>2, DisksStay DEF Onward, CutoverInv, local
  <1>7. ConnectedInv'
    BY <1>2, SameDevice DEF CutoverInv, ConnectedInv, local, MyDisk
  <1>8. ImportInv'
    BY <1>2, ImportsStay DEF CutoverInv
  <1>9. ActionInv(t)'
    BY <1>3, <1>4 DEF ActionInv, TaskFits
  <1>10. pending' = pending /\ marker' = marker /\ disk' = disk
    BY <1>2 DEF local, stored
  <1> QED
    BY <1>4, <1>5, <1>6, <1>7, <1>8, <1>9, <1>10, StepOfOne

\* Opening a database creates what is not there.
LEMMA OpeningStep ==
    ASSUME CutoverInv, NEW t \in Tabs, OpenOld(t) \/ Open(t)
    PROVE  CutoverInv'
  <1>1. CutoverTypeOK /\ ActionInv(t) /\ DeviceOf(t) \in Devices /\ MyDisk(t) = disk[DeviceOf(t)]
    BY SceneFacts DEF CutoverInv, MyDisk
  <1>2. PICK v \in {"old", "current"}, pc \in {"keep", "read"} :
          /\ disk' = IF disk[DeviceOf(t)] = None
                     THEN [disk EXCEPT ![DeviceOf(t)] = Disk(v, Nothing)] ELSE disk
          /\ Connects(t, "open") /\ Goes(t, pc) /\ tab[t].pc \in {"openOld", "open"}
          /\ UNCHANGED <<strays, pending, shows, stored, server, scene, held, delivered>>
    BY <1>1 DEF OpenOld, Open, At, counters
  <1>3. /\ disk' \in [Devices -> Disks \cup {None}] /\ disk'[DeviceOf(t)] # None
        /\ \A e \in Devices : disk[e] # None => disk'[e] = disk[e]
        /\ \A e \in Devices : Evolves(e)
    BY <1>1, <1>2, CreatedEvolves
  <1>4. /\ tab' \in [Tabs -> Actions] /\ tab'[t].pc = pc /\ tab'[t].task = tab[t].task
        /\ tab'[t].seen = tab[t].seen /\ \A u \in Tabs \ {t} : tab'[u] = tab[u]
    BY <1>1, <1>2, GoesTyped DEF Pcs
  <1>5. /\ conn' \in [Tabs -> {"none", "open", "closing"}] /\ conn'[t] = "open"
        /\ \A u \in Tabs \ {t} : conn'[u] = conn[u]
    BY <1>1, <1>2, ConnectsTyped
  <1>6. CutoverTypeOK'
    BY <1>1, <1>2, <1>3, <1>4, <1>5 DEF CutoverTypeOK, stored, server
  <1>7. Onward
    BY <1>2, <1>3 DEF Onward
  <1>8. ConnectedInv'
    <2> SUFFICES ASSUME NEW u \in Tabs, conn'[u] # "none" PROVE MyDisk(u)' # None
      BY DEF ConnectedInv
    <2>1. DeviceOf(u) \in Devices /\ MyDisk(u)' = disk'[DeviceOf(u)] /\ MyDisk(u) = disk[DeviceOf(u)]
      BY <1>1, <1>2, SceneFacts, SameDevice DEF MyDisk
    <2>2. u # t => MyDisk(u) # None
      BY <1>5 DEF CutoverInv, ConnectedInv
    <2> QED
      BY <1>3, <2>1, <2>2
  <1>9. ImportInv'
    BY <1>2, ImportsStay DEF CutoverInv
  <1>10. ActionInv(t)'
    BY <1>1, <1>2, <1>4 DEF ActionInv, TaskFits
  <1>11. pending' = pending /\ marker' = marker
    BY <1>2 DEF stored
  <1> QED
    BY <1>3, <1>4, <1>6, <1>7, <1>8, <1>9, <1>10, <1>11, StepOfOne

\* A database that is not removed keeps its connections' ground.
LEMMA ConnectionsHold ==
    ASSUME CutoverInv, scene' = scene,
           \A d \in Devices : disk[d] # None => disk'[d] # None,
           \A u \in Tabs : conn'[u] # "none" => conn[u] # "none" \/ MyDisk(u) # None
    PROVE  ConnectedInv'
  <1> SUFFICES ASSUME NEW u \in Tabs, conn'[u] # "none" PROVE MyDisk(u)' # None
    BY DEF ConnectedInv
  <1>1. DeviceOf(u) \in Devices /\ MyDisk(u)' = disk'[DeviceOf(u)] /\ MyDisk(u) = disk[DeviceOf(u)]
    BY SceneFacts, SameDevice DEF MyDisk, CutoverInv
  <1>2. MyDisk(u) # None
    BY DEF CutoverInv, ConnectedInv
  <1> QED
    BY <1>1, <1>2

\* The snapshot before the upgrade is what protects it.
LEMMA SnapshotStep ==
    ASSUME CutoverInv, NEW t \in Tabs, KeepBeforeUpgrade(t) \/ PreImportSnapshot(t)
    PROVE  CutoverInv'
  <1>1. /\ CutoverTypeOK /\ ActionInv(t) /\ DeviceOf(t) \in Devices
        /\ MyDisk(t) = disk[DeviceOf(t)]
    BY SceneFacts DEF CutoverInv, MyDisk
  <1>2. Usable(t) /\ MyDisk(t) # None
    BY DEF KeepBeforeUpgrade, PreImportSnapshot, Usable, CutoverInv, ConnectedInv
  <1>3. PICK kind \in {"PRE_MIGRATION", "PRE_IMPORT"}, how \in {"none", "open"},
             pc \in {"open", "export"} :
          /\ TakesSnapshot(t, kind) /\ Connects(t, how) /\ Goes(t, pc)
          /\ pc = "open" => kind = "PRE_MIGRATION" /\ tab[t].pc = "keep"
          /\ pc = "export" => tab[t].pc = "snapshot"
          /\ UNCHANGED <<strays, pending, shows, stored, server, scene, held, delivered>>
    BY DEF KeepBeforeUpgrade, PreImportSnapshot, At, After, counters
  <1>4. /\ disk' \in [Devices -> Disks \cup {None}]
        /\ disk'[DeviceOf(t)] # None
        /\ disk'[DeviceOf(t)].data = MyDisk(t).data
        /\ disk'[DeviceOf(t)].snapshots
             = MyDisk(t).snapshots \cup {[kind |-> kind, data |-> MyDisk(t).data]}
        /\ \A d \in Devices \ {DeviceOf(t)} : disk'[d] = disk[d]
        /\ \A d \in Devices : Evolves(d)
    BY <1>1, <1>2, <1>3, SnapshotTyped, SnapshotEvolves
  <1>5. /\ tab' \in [Tabs -> Actions] /\ tab'[t].pc = pc /\ tab'[t].task = tab[t].task
        /\ tab'[t].seen = tab[t].seen /\ tab'[t].data = tab[t].data
        /\ \A u \in Tabs \ {t} : tab'[u] = tab[u]
    BY <1>1, <1>3, GoesTyped DEF Pcs
  <1>6. /\ conn' \in [Tabs -> {"none", "open", "closing"}]
        /\ \A u \in Tabs \ {t} : conn'[u] = conn[u]
    BY <1>1, <1>3, ConnectsTyped
  <1>7. CutoverTypeOK'
    BY <1>1, <1>3, <1>4, <1>5, <1>6 DEF CutoverTypeOK, stored, server
  <1>8. Onward
    BY <1>3, <1>4 DEF Onward
  <1>9. \A d \in Devices : disk[d] # None => disk'[d] # None
    BY <1>4
  <1>10. ConnectedInv'
    BY <1>2, <1>3, <1>6, <1>9, ConnectionsHold
  <1>11. ImportInv'
    BY <1>3, ImportsStay DEF CutoverInv
  <1>12. DeviceOf(t)' = DeviceOf(t)
    BY <1>3, SameDevice
  <1>13. ActionInv(t)'
    <2>1. (tab'[t].seen \subseteq held') /\ TaskFits(t)'
      BY <1>1, <1>3, <1>5 DEF ActionInv, TaskFits
    <2>2. CASE pc = "open"
      <3>1. Protected(DeviceOf(t))'
        BY <1>3, <1>4, <1>12, <2>2 DEF Protected
      <3> QED
        BY <1>5, <2>1, <2>2, <3>1 DEF ActionInv
    <2>3. CASE pc = "export"
      <3>1. AsRead(t)'
        BY <1>1, <1>3, <1>5, <1>8, <2>3, StillAsRead DEF ActionInv
      <3> QED
        BY <1>5, <2>1, <2>3, <3>1 DEF ActionInv
    <2> QED
      BY <2>2, <2>3
  <1>14. pending' = pending /\ marker' = marker
    BY <1>3 DEF stored
  <1> QED
    BY <1>5, <1>7, <1>8, <1>9, <1>10, <1>11, <1>13, <1>14, StepOfOne

\* What asking for the database does to the connections to it.
LEMMA UnblockedTyped ==
    ASSUME CutoverTypeOK, NEW t \in Tabs, NEW how \in {"none", "open"}, Unblocked(t, how)
    PROVE  /\ conn' \in [Tabs -> {"none", "open", "closing"}] /\ conn'[t] = how
           /\ \A u \in Tabs \ {t} :
                /\ DeviceOf(u) = DeviceOf(t) => conn'[u] = "none"
                /\ DeviceOf(u) # DeviceOf(t) => conn'[u] = conn[u]
  <1> DEFINE closed == ClosedFor(t, {})
  <1>1. /\ closed \in [Tabs -> {"none", "open", "closing"}]
        /\ \A u \in Tabs \ {t} :
             /\ DeviceOf(u) = DeviceOf(t) => closed[u] = "none"
             /\ DeviceOf(u) # DeviceOf(t) => closed[u] = conn[u]
    BY DEF CutoverTypeOK, ClosedFor, Mates
  <1>2. conn' = [closed EXCEPT ![t] = how]
    BY DEF Unblocked
  <1> HIDE DEF closed
  <1> QED
    BY <1>1, <1>2

LEMMA BlockedTyped ==
    ASSUME CutoverTypeOK, NEW t \in Tabs, NEW request \in Waiting, Blocked(t, request)
    PROVE  /\ conn' \in [Tabs -> {"none", "open", "closing"}] /\ conn'[t] = "none"
           /\ \A u \in Tabs : conn'[u] # "none" => conn[u] # "none"
           /\ pending' \in [Devices -> Waiting \cup {None}]
           /\ pending'[DeviceOf(t)] = request
           /\ \A d \in Devices \ {DeviceOf(t)} : pending'[d] = pending[d]
  <1>1. PICK busy \in SUBSET {u \in Mates(t) : Transacting(u)} :
          conn' = [ClosedFor(t, busy) EXCEPT ![t] = "none"]
    BY DEF Blocked
  <1> DEFINE closed == ClosedFor(t, busy)
  <1>2. /\ closed \in [Tabs -> {"none", "open", "closing"}]
        /\ \A u \in Tabs : closed[u] # "none" => conn[u] # "none"
    BY DEF CutoverTypeOK, ClosedFor, Mates, Transacting
  <1>3. conn' = [closed EXCEPT ![t] = "none"]
    BY <1>1
  <1> HIDE DEF closed
  <1>4. DeviceOf(t) \in Devices /\ pending' = [pending EXCEPT ![DeviceOf(t)] = request]
    BY SceneFacts DEF Blocked
  <1> QED
    BY <1>2, <1>3, <1>4 DEF CutoverTypeOK

LEMMA UpgradeStep ==
    ASSUME CutoverInv, NEW t \in Tabs, Upgrade(t)
    PROVE  CutoverInv'
  <1>1. /\ CutoverTypeOK /\ ActionInv(t) /\ DeviceOf(t) \in Devices
        /\ MyDisk(t) = disk[DeviceOf(t)] /\ MyDisk(t) # None /\ tab[t].pc = "open"
    BY SceneFacts DEF CutoverInv, MyDisk, Upgrade, Upgrades, At
  <1>2. /\ Unblocked(t, "open") /\ disk' = Upgraded(DeviceOf(t)) /\ Goes(t, "read")
        /\ UNCHANGED <<strays, pending, shows, stored, server, scene, held, delivered>>
    BY DEF Upgrade, counters
  <1>3. /\ disk' \in [Devices -> Disks \cup {None}] /\ disk'[DeviceOf(t)] # None
        /\ \A e \in Devices \ {DeviceOf(t)} : disk'[e] = disk[e]
        /\ \A e \in Devices : Evolves(e)
    BY <1>1, <1>2, UpgradedEvolves
  <1>4. /\ tab' \in [Tabs -> Actions] /\ tab'[t].pc = "read" /\ tab'[t].task = tab[t].task
        /\ tab'[t].seen = tab[t].seen /\ \A u \in Tabs \ {t} : tab'[u] = tab[u]
    BY <1>1, <1>2, GoesTyped DEF Pcs
  <1>5. /\ conn' \in [Tabs -> {"none", "open", "closing"}]
        /\ \A u \in Tabs \ {t} : conn'[u] # "none" => conn[u] # "none"
    BY <1>1, <1>2, UnblockedTyped
  <1>6. CutoverTypeOK'
    BY <1>1, <1>2, <1>3, <1>4, <1>5 DEF CutoverTypeOK, stored, server
  <1>7. Onward
    BY <1>2, <1>3 DEF Onward
  <1>8. \A d \in Devices : disk[d] # None => disk'[d] # None
    BY <1>3
  <1>9. ConnectedInv'
    BY <1>1, <1>2, <1>5, <1>8, ConnectionsHold
  <1>10. ImportInv'
    BY <1>2, ImportsStay DEF CutoverInv
  <1>11. ActionInv(t)'
    BY <1>1, <1>2, <1>4 DEF ActionInv, TaskFits
  <1>12. pending' = pending /\ marker' = marker
    BY <1>2 DEF stored
  <1> QED
    BY <1>4, <1>6, <1>7, <1>8, <1>9, <1>10, <1>11, <1>12, StepOfOne

\* A blocked upgrade waits, as protected as its action knew it to be.
LEMMA UpgradeBlockedStep ==
    ASSUME CutoverInv, NEW t \in Tabs, UpgradeBlocked(t)
    PROVE  CutoverInv'
  <1> DEFINE request == [kind |-> "upgrade", tab |-> t, task |-> tab[t].task,
                         unsure |-> tab[t].unsure]
             d == DeviceOf(t)
  <1>1. /\ CutoverTypeOK /\ ActionInv(t) /\ d \in Devices /\ tab[t] \in Actions
        /\ disk[d] # None /\ tab[t].pc = "open"
    BY SceneFacts DEF CutoverInv, CutoverTypeOK, MyDisk, UpgradeBlocked, Upgrades, At
  <1>2. /\ Blocked(t, request) /\ FailsWith(t)
        /\ UNCHANGED <<disk, strays, stored, server, scene, held, delivered>>
    BY DEF UpgradeBlocked, counters
  <1>3. /\ request \in Waiting /\ request.kind = "upgrade" /\ request.unsure = tab[t].unsure
        /\ request # None
    BY <1>1, NoneIsNothing DEF Waiting, Actions
  <1>4. ~request.unsure => Protected(d)
    BY <1>1, <1>3 DEF ActionInv
  <1> HIDE DEF request
  <1>5. /\ conn' \in [Tabs -> {"none", "open", "closing"}]
        /\ \A u \in Tabs : conn'[u] # "none" => conn[u] # "none"
        /\ pending' \in [Devices -> Waiting \cup {None}]
        /\ pending'[d] = request
        /\ \A e \in Devices \ {d} : pending'[e] = pending[e]
    BY <1>1, <1>2, <1>3, BlockedTyped
  <1>6. /\ tab' \in [Tabs -> Actions] /\ tab'[t] = Idle
        /\ \A u \in Tabs \ {t} : tab'[u] = tab[u]
        /\ shows' \in [Tabs -> {"closed", "inspecting", "required", "ready", "failed",
                               "inspection failed"}]
    BY <1>1, <1>2, FailsTyped
  <1>7. CutoverTypeOK'
    BY <1>1, <1>2, <1>5, <1>6 DEF CutoverTypeOK, stored, server
  <1>8. Onward
    BY <1>1, <1>2, DisksStay DEF Onward
  <1>9. ConnectedInv'
    BY <1>2, <1>5, ConnectionsHold
  <1>10. ImportInv'
    BY <1>2, ImportsStay DEF CutoverInv
  <1>11. ActionInv(t)'
    BY <1>6, IdleIsAction DEF ActionInv, TaskFits
  <1>12. ASSUME NEW e \in Devices PROVE WaitingInv(e)' \/ pending'[e] = pending[e]
    <2>1. PICK own \in Devices : own = d
      BY <1>1
    <2>2. CASE e = own
      <3>1. ~request.unsure => Protected(own)'
        BY <1>2, <1>4, <2>1 DEF Protected
      <3>2. disk'[own] # None /\ pending'[own] = request
        BY <1>1, <1>2, <1>5, <2>1
      <3> QED
        BY <1>3, <2>2, <3>1, <3>2 DEF WaitingInv
    <2> QED
      BY <1>5, <2>1, <2>2
  <1>13. marker' = marker /\ disk' = disk
    BY <1>2 DEF stored
  <1> QED
    BY <1>6, <1>7, <1>8, <1>9, <1>10, <1>11, <1>12, <1>13, StepOfOne

\* What is read decides how the action goes on.
LEMMA ReadStep ==
    ASSUME CutoverInv, NEW t \in Tabs, Read(t)
    PROVE  CutoverInv'
  <1>1. /\ CutoverTypeOK /\ ActionInv(t) /\ DeviceOf(t) \in Devices /\ tab[t] \in Actions
        /\ MyDisk(t) = disk[DeviceOf(t)] /\ tab[t].pc = "read" /\ conn[t] # "none"
    BY SceneFacts DEF CutoverInv, CutoverTypeOK, MyDisk, Read, At, Usable
  <1>2. MyDisk(t) # None /\ MyDisk(t) \in Disks
    BY <1>1, SceneFacts DEF CutoverInv, ConnectedInv
  <1>3. /\ UNCHANGED <<disk, strays, pending, stored, server, scene, held, delivered>>
        /\ DeviceOf(t)' = DeviceOf(t) /\ MyDisk(t)' = MyDisk(t) /\ marker' = marker
    BY <1>1, SameDevice DEF Read, counters, stored
  <1>4. CASE FailsWith(t) /\ Connects(t, "none")
    BY <1>3, <1>4, OnlyEnds
  <1>5. CASE \/ /\ tab[t].task = "inspect" /\ IsEmpty(MyDisk(t).data)
                /\ Becomes(t, [tab[t] EXCEPT !.data = MyDisk(t).data, !.pc = "retire",
                                             !.task = "empty"])
                /\ Connects(t, "none") /\ UNCHANGED shows
             \/ /\ Becomes(t, Idle) /\ Shows(t, "required") /\ Connects(t, "none")
             \/ /\ tab[t].task # "inspect"
                /\ Becomes(t, [tab[t] EXCEPT !.data = MyDisk(t).data, !.pc = "snapshot"])
                /\ Connects(t, After(t)) /\ UNCHANGED shows
    <2> DEFINE empty == [tab[t] EXCEPT !.data = MyDisk(t).data, !.pc = "retire",
                                       !.task = "empty"]
               onward == [tab[t] EXCEPT !.data = MyDisk(t).data, !.pc = "snapshot"]
    <2>1. /\ empty \in Actions /\ empty.pc = "retire" /\ empty.task = "empty"
          /\ empty.seen = tab[t].seen
          /\ onward \in Actions /\ onward.pc = "snapshot" /\ onward.task = tab[t].task
          /\ onward.seen = tab[t].seen /\ onward.data = MyDisk(t).data
      BY <1>1, <1>2 DEF Actions, Disks, Pcs, Tasks
    <2>2. PICK r \in Actions, how \in {"none", "open"} :
            /\ Becomes(t, r) /\ Connects(t, how)
            /\ shows' = shows \/ Shows(t, "required")
            /\ \/ r = empty /\ IsEmpty(MyDisk(t).data)
               \/ r = Idle
               \/ r = onward /\ tab[t].task # "inspect"
      <3>1. CASE Becomes(t, empty) /\ Connects(t, "none") /\ UNCHANGED shows
                   /\ IsEmpty(MyDisk(t).data)
        BY <2>1, <3>1
      <3>2. CASE Becomes(t, Idle) /\ Shows(t, "required") /\ Connects(t, "none")
        BY <3>2, IdleIsAction
      <3>3. CASE tab[t].task # "inspect" /\ Becomes(t, onward) /\ Connects(t, After(t))
                   /\ UNCHANGED shows
        BY <2>1, <3>3 DEF After
      <3> QED
        BY <1>5, <3>1, <3>2, <3>3
    <2> HIDE DEF empty, onward
    <2>3. /\ tab' \in [Tabs -> Actions] /\ tab'[t] = r
          /\ \A u \in Tabs \ {t} : tab'[u] = tab[u]
      BY <1>1, <2>2, BecomesTyped
    <2>4. /\ conn' \in [Tabs -> {"none", "open", "closing"}]
          /\ \A u \in Tabs \ {t} : conn'[u] = conn[u]
      BY <1>1, <2>2, ConnectsTyped
    <2>5. CutoverTypeOK'
      BY <1>1, <1>3, <2>2, <2>3, <2>4 DEF CutoverTypeOK, stored, server, Shows
    <2>6. Onward
      BY <1>1, <1>3, DisksStay DEF Onward
    <2>7. ConnectedInv'
      BY <1>2, <1>3, <2>4, ConnectionsHold
    <2>8. ImportInv'
      BY <1>3, ImportsStay DEF CutoverInv
    <2>9. ActionInv(t)'
      <3>1. CASE r = empty /\ IsEmpty(MyDisk(t).data)
        <4>1. Justified(DeviceOf(t), "empty")'
          BY <1>1, <1>3, <3>1 DEF Justified
        <4>2. tab'[t].pc = "retire" /\ tab'[t].task = "empty" /\ tab'[t].seen = tab[t].seen
          BY <2>1, <2>3, <3>1
        <4> QED
          BY <1>1, <1>3, <4>1, <4>2 DEF ActionInv, TaskFits, Justified
      <3>2. CASE r = Idle
        BY <2>3, <3>2, IdleIsAction DEF ActionInv, TaskFits
      <3>3. CASE r = onward /\ tab[t].task # "inspect"
        BY <1>1, <1>3, <2>1, <2>3, <3>3 DEF ActionInv, TaskFits, AsRead
      <3> QED
        BY <2>2, <3>1, <3>2, <3>3
    <2> QED
      BY <1>3, <2>3, <2>5, <2>6, <2>7, <2>8, <2>9, StepOfOne
  <1> QED
    BY <1>4, <1>5 DEF Read

\* The file is delivered before the action goes on: it justifies the deletion.
LEMMA ExportStep ==
    ASSUME CutoverInv, NEW t \in Tabs, Export(t)
    PROVE  CutoverInv'
  <1> DEFINE d == DeviceOf(t)
  <1>1. /\ CutoverTypeOK /\ ActionInv(t) /\ d \in Devices /\ MyDisk(t) = disk[d]
        /\ tab[t].pc = "export" /\ conn[t] # "none"
    BY SceneFacts DEF CutoverInv, CutoverTypeOK, MyDisk, Export, At, Usable
  <1>2. MyDisk(t) # None /\ MyDisk(t) \in Disks
    BY <1>1, SceneFacts DEF CutoverInv, ConnectedInv
  <1>3. /\ UNCHANGED <<disk, strays, pending, shows, stored, server, scene, held>>
        /\ d' = d /\ MyDisk(t)' = MyDisk(t) /\ marker' = marker
        /\ delivered' = [delivered EXCEPT ![d] = @ \cup {disk[d].data}]
        /\ Connects(t, After(t)) /\ After(t) \in {"none", "open", "closing"}
        /\ IF tab[t].task = "migrate" THEN Compares(t, "compare") ELSE Goes(t, "retire")
    BY <1>1, SameDevice DEF Export, counters, stored, After
  <1>4. /\ delivered' \in [Devices -> SUBSET Contents]
        /\ disk[d].data \in delivered'[d]
        /\ \A e \in Devices : delivered[e] \subseteq delivered'[e]
    BY ZenonT(40), <1>1, <1>2, <1>3 DEF CutoverTypeOK, Disks
  <1>5. Onward
    BY <1>1, <1>3, <1>4, DisksStay DEF Onward
  <1>6. AsRead(t) /\ tab[t].task \in {"migrate", "retire"}
    BY <1>1 DEF ActionInv, TaskFits
  <1>7. /\ tab' \in [Tabs -> Actions] /\ \A u \in Tabs \ {t} : tab'[u] = tab[u]
        /\ ActionInv(t)'
    <2>1. CASE Compares(t, "compare") /\ tab[t].task = "migrate"
      BY <1>1, <1>5, <1>6, <2>1, ComparesTyped, CompareBegins DEF Pcs
    <2>2. CASE Goes(t, "retire") /\ tab[t].task # "migrate"
      <3>1. /\ tab' \in [Tabs -> Actions] /\ tab'[t].pc = "retire" /\ tab'[t].task = "retire"
            /\ tab'[t].seen = tab[t].seen /\ \A u \in Tabs \ {t} : tab'[u] = tab[u]
        BY <1>1, <1>6, <2>2, GoesTyped DEF Pcs
      <3>2. Justified(d, "retire")'
        BY <1>3, <1>4 DEF Justified
      <3>3. ActionInv(t)'
        BY <1>1, <1>3, <3>1, <3>2 DEF ActionInv, TaskFits, Justified
      <3> QED
        BY <3>1, <3>3
    <2> QED
      BY <1>3, <2>1, <2>2
  <1>8. /\ conn' \in [Tabs -> {"none", "open", "closing"}]
        /\ \A u \in Tabs \ {t} : conn'[u] = conn[u]
    BY <1>1, <1>3, ConnectsTyped
  <1>9. CutoverTypeOK'
    BY <1>1, <1>3, <1>4, <1>7, <1>8 DEF CutoverTypeOK, stored, server
  <1>10. ConnectedInv'
    BY <1>2, <1>3, <1>8, ConnectionsHold
  <1>11. ImportInv'
    BY <1>3, ImportsStay DEF CutoverInv
  <1> QED
    BY <1>3, <1>5, <1>7, <1>9, <1>10, <1>11, StepOfOne

\* The database goes with no connection left to it and no request behind it.
LEMMA DeleteStep ==
    ASSUME CutoverInv, NEW t \in Tabs, Delete(t)
    PROVE  CutoverInv'
  <1> DEFINE d == DeviceOf(t)
  <1>1. /\ CutoverTypeOK /\ ActionInv(t) /\ d \in Devices /\ tab[t].pc = "retire"
        /\ pending[d] = None
    BY SceneFacts DEF CutoverInv, Delete, Retires, Served, At
  <1>2. /\ Unblocked(t, "none") /\ disk' = Removed(d) /\ Goes(t, "gone")
        /\ UNCHANGED <<strays, pending, shows, stored, server, scene, held, delivered>>
        /\ marker' = marker
    BY DEF Delete, counters, stored
  <1>3. /\ disk' \in [Devices -> Disks \cup {None}]
        /\ disk'[d] = None /\ \A e \in Devices \ {d} : disk'[e] = disk[e]
        /\ \A e \in Devices : Evolves(e)
    BY <1>1, <1>2, RemovedEvolves
  <1>4. /\ tab' \in [Tabs -> Actions] /\ tab'[t].pc = "gone" /\ tab'[t].task = tab[t].task
        /\ tab'[t].seen = tab[t].seen /\ \A u \in Tabs \ {t} : tab'[u] = tab[u]
    BY <1>1, <1>2, GoesTyped DEF Pcs
  <1>5. /\ conn' \in [Tabs -> {"none", "open", "closing"}] /\ conn'[t] = "none"
        /\ \A u \in Tabs \ {t} :
             /\ DeviceOf(u) = d => conn'[u] = "none"
             /\ DeviceOf(u) # d => conn'[u] = conn[u]
    BY <1>1, <1>2, UnblockedTyped
  <1>6. CutoverTypeOK'
    BY <1>1, <1>2, <1>3, <1>4, <1>5 DEF CutoverTypeOK, stored, server
  <1>7. Onward
    BY <1>2, <1>3 DEF Onward
  <1>8. ConnectedInv'
    <2> SUFFICES ASSUME NEW u \in Tabs, conn'[u] # "none" PROVE MyDisk(u)' # None
      BY DEF ConnectedInv
    <2>1. DeviceOf(u) # d /\ conn[u] # "none"
      BY <1>5
    <2>2. DeviceOf(u) \in Devices /\ MyDisk(u)' = disk'[DeviceOf(u)] /\ MyDisk(u) = disk[DeviceOf(u)]
      BY <1>1, <1>2, SceneFacts, SameDevice DEF MyDisk
    <2> QED
      BY <1>3, <2>1, <2>2 DEF CutoverInv, ConnectedInv
  <1>9. ImportInv'
    BY <1>2, ImportsStay DEF CutoverInv
  <1>10. ActionInv(t)'
    BY <1>1, <1>2, <1>4 DEF ActionInv, TaskFits
  <1>11. \A e \in Devices : disk[e] # None /\ disk'[e] = None => pending'[e] = None
    BY <1>1, <1>2, <1>3
  <1> QED
    BY <1>2, <1>4, <1>6, <1>7, <1>8, <1>9, <1>10, <1>11, StepOfOne

\* A blocked deletion waits, as justified as its action knew it to be.
LEMMA DeleteBlockedStep ==
    ASSUME CutoverInv, NEW t \in Tabs, DeleteBlocked(t)
    PROVE  CutoverInv'
  <1> DEFINE request == [kind |-> "delete", tab |-> t, task |-> tab[t].task,
                         unsure |-> tab[t].unsure]
             d == DeviceOf(t)
  <1>1. /\ CutoverTypeOK /\ ActionInv(t) /\ d \in Devices /\ tab[t] \in Actions
        /\ tab[t].pc = "retire"
    BY SceneFacts DEF CutoverInv, CutoverTypeOK, DeleteBlocked, Retires, At
  <1>2. /\ Blocked(t, request) /\ Goes(t, "gone")
        /\ UNCHANGED <<disk, strays, shows, stored, server, scene, held, delivered>>
        /\ marker' = marker
    BY DEF DeleteBlocked, counters, stored
  <1>3. /\ request \in Waiting /\ request.kind = "delete" /\ request.task = tab[t].task
        /\ request # None
    BY <1>1, NoneIsNothing DEF Waiting, Actions
  <1>4. Justified(d, tab[t].task)
    BY <1>1 DEF ActionInv
  <1> HIDE DEF request
  <1>5. /\ conn' \in [Tabs -> {"none", "open", "closing"}]
        /\ \A u \in Tabs : conn'[u] # "none" => conn[u] # "none"
        /\ pending' \in [Devices -> Waiting \cup {None}]
        /\ pending'[d] = request
        /\ \A e \in Devices \ {d} : pending'[e] = pending[e]
    BY <1>1, <1>2, <1>3, BlockedTyped
  <1>6. /\ tab' \in [Tabs -> Actions] /\ tab'[t].pc = "gone" /\ tab'[t].task = tab[t].task
        /\ tab'[t].seen = tab[t].seen /\ \A u \in Tabs \ {t} : tab'[u] = tab[u]
    BY <1>1, <1>2, GoesTyped DEF Pcs
  <1>7. CutoverTypeOK'
    BY <1>1, <1>2, <1>5, <1>6 DEF CutoverTypeOK, stored, server
  <1>8. Onward
    BY <1>1, <1>2, DisksStay DEF Onward
  <1>9. ConnectedInv'
    BY <1>2, <1>5, ConnectionsHold
  <1>10. ImportInv'
    BY <1>2, ImportsStay DEF CutoverInv
  <1>11. ActionInv(t)'
    BY <1>1, <1>2, <1>6 DEF ActionInv, TaskFits
  <1>12. ASSUME NEW e \in Devices PROVE WaitingInv(e)' \/ pending'[e] = pending[e]
    <2>1. PICK own \in Devices : own = d
      BY <1>1
    <2>2. CASE e = own
      <3>1. PICK task \in Tasks : task = tab[t].task
        BY <1>1 DEF Actions
      <3>2. Justified(own, task)'
        BY <1>2, <1>4, <2>1, <3>1 DEF Justified
      <3>3. pending'[own] = request /\ request.task = task
        BY <1>3, <1>5, <2>1, <3>1
      <3> QED
        BY <1>3, <2>2, <3>2, <3>3 DEF WaitingInv, Justified
    <2> QED
      BY <1>5, <2>1, <2>2
  <1> QED
    BY <1>2, <1>6, <1>7, <1>8, <1>9, <1>10, <1>11, <1>12, StepOfOne

\* The device is marked when its database was seen to be gone.
LEMMA MarkCompleteStep ==
    ASSUME CutoverInv, NEW t \in Tabs, MarkComplete(t)
    PROVE  CutoverInv'
  <1> DEFINE d == DeviceOf(t)
             mark == [resolution |-> Resolution(tab[t].task), checksum |-> tab[t].data]
  <1>1. /\ CutoverTypeOK /\ ActionInv(t) /\ d \in Devices /\ tab[t] \in Actions
        /\ tab[t].pc = "mark"
    BY SceneFacts DEF CutoverInv, CutoverTypeOK, MarkComplete, At
  <1>2. tab[t].task \in {"migrate", "retire", "empty"} /\ HoldsNothing(d)
    BY <1>1 DEF ActionInv, TaskFits
  <1>3. mark \in Marks
    <2>1. Resolution(tab[t].task)
            \in {"VERIFIED_IN_CLOUD", "EMPTY_DATABASE", "RETIRED_WITH_BACKUP"}
      BY <1>2 DEF Resolution
    <2> QED
      BY <1>1, <2>1 DEF Marks, Actions
  <1>4. /\ marker' = [marker EXCEPT ![d] = mark] /\ attempt' = [attempt EXCEPT ![d] = None]
        /\ Becomes(t, Idle) /\ Shows(t, "ready")
        /\ UNCHANGED <<local, server, scene, held, delivered>>
        /\ disk' = disk /\ pending' = pending
    BY DEF MarkComplete, counters, local
  <1> HIDE DEF mark
  <1>5. /\ tab' \in [Tabs -> Actions] /\ tab'[t] = Idle
        /\ \A u \in Tabs \ {t} : tab'[u] = tab[u]
    BY <1>1, <1>4, IdleIsAction, BecomesTyped
  <1>6. CutoverTypeOK'
    BY <1>1, <1>3, <1>4, <1>5 DEF CutoverTypeOK, local, server, Shows
  <1>7. Onward
    BY <1>1, <1>4, DisksStay DEF Onward
  <1>8. ConnectedInv'
    BY <1>4, SameDevice DEF CutoverInv, ConnectedInv, local, MyDisk
  <1>9. ImportInv'
    BY <1>4, ImportsStay DEF CutoverInv
  <1>10. ActionInv(t)'
    BY <1>5, IdleIsAction DEF ActionInv, TaskFits
  <1>11. ASSUME NEW e \in Devices PROVE marker'[e] = marker[e] \/ HoldsNothing(e)'
    <2>1. PICK own \in Devices : own = d
      BY <1>1
    <2>2. HoldsNothing(own)'
      BY <1>2, <1>4, <2>1 DEF HoldsNothing
    <2>3. e # own => marker'[e] = marker[e]
      BY <1>1, <1>4, <2>1 DEF CutoverTypeOK
    <2> QED
      BY <2>2, <2>3
  <1> QED
    BY <1>4, <1>5, <1>6, <1>7, <1>8, <1>9, <1>10, <1>11, StepOfOne

\* A page that goes takes its requests with it, or leaves its deletion behind.
LEMMA LeaveStep ==
    ASSUME CutoverInv, NEW t \in Tabs, Leave(t)
    PROVE  CutoverInv'
  <1>1. CutoverTypeOK /\ DeviceOf(t) \in Devices
    BY SceneFacts DEF CutoverInv
  <1>2. /\ Becomes(t, Idle) /\ Shows(t, "closed") /\ Connects(t, "none")
        /\ strays' = strays \ {t}
        /\ pending' = [pending EXCEPT ![DeviceOf(t)] = None] \/ pending' = pending
        /\ UNCHANGED <<disk, stored, server, scene, held, delivered>>
        /\ marker' = marker
    BY DEF Leave, stored
  <1>3. /\ tab' \in [Tabs -> Actions] /\ tab'[t] = Idle
        /\ \A u \in Tabs \ {t} : tab'[u] = tab[u]
    BY <1>1, <1>2, IdleIsAction, BecomesTyped
  <1>4. /\ conn' \in [Tabs -> {"none", "open", "closing"}] /\ conn'[t] = "none"
        /\ \A u \in Tabs \ {t} : conn'[u] = conn[u]
    BY <1>1, <1>2, ConnectsTyped
  <1>5. /\ pending' \in [Devices -> Waiting \cup {None}]
        /\ \A d \in Devices : pending'[d] = None \/ pending'[d] = pending[d]
    BY <1>1, <1>2 DEF CutoverTypeOK
  <1>6. CutoverTypeOK'
    BY <1>1, <1>2, <1>3, <1>4, <1>5 DEF CutoverTypeOK, stored, server, Shows
  <1>7. Onward
    BY <1>1, <1>2, DisksStay DEF Onward
  <1>8. ConnectedInv'
    BY <1>2, <1>4, ConnectionsHold
  <1>9. ImportInv'
    BY <1>2, ImportsStay DEF CutoverInv
  <1>10. ActionInv(t)'
    BY <1>3, IdleIsAction DEF ActionInv, TaskFits
  <1>11. \A d \in Devices : WaitingInv(d)' \/ pending'[d] = pending[d]
    BY <1>5 DEF WaitingInv
  <1> QED
    BY <1>2, <1>3, <1>6, <1>7, <1>8, <1>9, <1>10, <1>11, StepOfOne

\* A new call asks for an import of records there are, and none is at work in it.
LEMMA ImportStep ==
    ASSUME CutoverInv, NEW t \in Tabs, Import(t)
    PROVE  CutoverInv'
  <1>1. /\ CutoverTypeOK /\ ActionInv(t) /\ DeviceOf(t) \in Devices /\ tab[t] \in Actions
        /\ tab[t].pc = "compare" /\ Missing(t) # {}
    BY SceneFacts DEF CutoverInv, CutoverTypeOK, Import, Compared, At
  <1>2. PICK n \in Nat, request \in Nat :
          /\ calls' = calls \cup {[n |-> n, request |-> request, payload |-> tab[t].data,
                                   stage |-> "sent"]}
          /\ attempt' = [attempt EXCEPT ![DeviceOf(t)] =
                           [request |-> request, checksum |-> tab[t].data]]
          /\ Becomes(t, [tab[t] EXCEPT !.pc = "await", !.call = n])
    <2> DEFINE n == Cardinality(calls) + 1
               request == RequestOf(t, n)
    <2>1. n \in Nat
      <3>1. IsFiniteSet(calls)
        BY <1>1 DEF CutoverTypeOK
      <3>2. Cardinality(calls) \in Nat
        BY <3>1, FS_CardinalityType
      <3> QED
        BY <3>2
    <2>2. attempt[DeviceOf(t)] \in Attempts \cup {None}
      BY <1>1 DEF CutoverTypeOK
    <2> HIDE DEF n
    <2>3. request \in Nat
      BY <2>1, <2>2 DEF RequestOf, Attempts
    <2> HIDE DEF request
    <2> QED
      BY <2>1, <2>3 DEF Import, n, request
  <1>3. /\ UNCHANGED <<local, shows, marker, cloud, imports, scene, held, delivered>>
        /\ disk' = disk /\ pending' = pending
    BY DEF Import, counters, local
  <1> DEFINE call == [n |-> n, request |-> request, payload |-> tab[t].data, stage |-> "sent"]
             next == [tab[t] EXCEPT !.pc = "await", !.call = n]
  <1>4. /\ call \in [n : Nat, request : Nat, payload : Contents, stage : Stages]
        /\ call.stage = "sent" /\ call.payload = tab[t].data
    BY <1>1 DEF Stages, Actions
  <1>5. /\ next \in Actions /\ next.pc = "await" /\ next.task = tab[t].task
        /\ next.data = tab[t].data /\ next.seen = tab[t].seen
    BY <1>1 DEF Actions, Pcs
  <1>6. calls' = calls \cup {call} /\ Becomes(t, next)
    BY <1>2
  <1>7. [request |-> request, checksum |-> tab[t].data] \in Attempts
    BY <1>1 DEF Attempts, Actions
  <1>8. attempt' \in [Devices -> Attempts \cup {None}]
    BY <1>1, <1>2, <1>7 DEF CutoverTypeOK
  <1> HIDE DEF call, next
  <1>9. /\ tab' \in [Tabs -> Actions] /\ tab'[t] = next
        /\ \A u \in Tabs \ {t} : tab'[u] = tab[u]
    BY <1>1, <1>5, <1>6, BecomesTyped
  <1>10. IsFiniteSet(calls')
    BY <1>1, <1>6, FS_AddElement DEF CutoverTypeOK
  <1>11. CutoverTypeOK'
    BY <1>1, <1>3, <1>4, <1>6, <1>8, <1>9, <1>10 DEF CutoverTypeOK, local
  <1>12. Onward
    BY <1>1, <1>3, DisksStay DEF Onward
  <1>13. ConnectedInv'
    BY <1>3, SameDevice DEF CutoverInv, ConnectedInv, local, MyDisk
  <1>14. ImportInv'
    <2>1. call.payload.rows # {}
      BY <1>1, <1>4 DEF Missing
    <2>2. AtWork' = AtWork
      BY <1>4, <1>6 DEF AtWork
    <2> QED
      BY <1>3, <1>6, <2>1, <2>2 DEF CutoverInv, ImportInv, ImportedOnce
  <1>15. ActionInv(t)'
    <2>1. AsRead(t) /\ tab[t].task = "migrate"
      BY <1>1 DEF ActionInv, TaskFits
    <2>2. AsRead(t)'
      BY <1>1, <1>5, <1>9, <1>12, <2>1, StillAsRead
    <2> QED
      BY <1>1, <1>3, <1>5, <1>9, <2>1, <2>2 DEF ActionInv, TaskFits
  <1> QED
    BY <1>3, <1>9, <1>11, <1>12, <1>13, <1>14, <1>15, StepOfOne

\* A request that waited goes on as what justified it.
LEMMA PendingRunsStep ==
    ASSUME CutoverInv, NEW d \in Devices, PendingRuns(d)
    PROVE  CutoverInv'
  <1>1. /\ CutoverTypeOK /\ WaitingInv(d) /\ pending[d] # None /\ pending[d] \in Waiting
        /\ \A t \in Tabs : DeviceOf(t) = d => conn[t] = "none"
        /\ pending' = [pending EXCEPT ![d] = None]
        /\ UNCHANGED <<conn, tab, shows, stored, server, scene, held, delivered>>
        /\ marker' = marker
    BY DEF CutoverInv, CutoverTypeOK, PendingRuns, counters, stored
  <1>2. /\ pending' \in [Devices -> Waiting \cup {None}] /\ pending'[d] = None
        /\ \A e \in Devices \ {d} : pending'[e] = pending[e]
    BY <1>1 DEF CutoverTypeOK
  <1>3. /\ disk' \in [Devices -> Disks \cup {None}] /\ strays' \subseteq Tabs
        /\ \A e \in Devices \ {d} : disk'[e] = disk[e]
        /\ \A e \in Devices : Evolves(e)
    <2>1. CASE pending[d].kind = "upgrade" /\ disk' = Upgraded(d)
                 /\ strays' = strays \cup {pending[d].tab}
      <3>1. disk[d] # None
        BY <1>1, <2>1 DEF WaitingInv
      <3>2. strays' \subseteq Tabs
        BY <1>1, <2>1 DEF CutoverTypeOK, Waiting
      <3> QED
        BY <1>1, <2>1, <3>1, <3>2, UpgradedEvolves
    <2>2. CASE disk' = Removed(d) /\ UNCHANGED strays
      <3>1. strays' \subseteq Tabs
        BY <1>1, <2>2 DEF CutoverTypeOK
      <3> QED
        BY <1>1, <2>2, <3>1, RemovedEvolves
    <2> QED
      BY <2>1, <2>2 DEF PendingRuns
  <1>4. CutoverTypeOK'
    BY <1>1, <1>2, <1>3 DEF CutoverTypeOK, stored, server
  <1>5. Onward
    BY <1>1, <1>3 DEF Onward
  <1>6. ConnectedInv'
    <2> SUFFICES ASSUME NEW u \in Tabs, conn'[u] # "none" PROVE MyDisk(u)' # None
      BY DEF ConnectedInv
    <2>1. DeviceOf(u) # d /\ conn[u] # "none"
      BY <1>1
    <2>2. DeviceOf(u) \in Devices /\ MyDisk(u)' = disk'[DeviceOf(u)] /\ MyDisk(u) = disk[DeviceOf(u)]
      BY <1>1, SceneFacts, SameDevice DEF MyDisk
    <2> QED
      BY <1>3, <2>1, <2>2 DEF CutoverInv, ConnectedInv
  <1>7. ImportInv'
    BY <1>1, ImportsStay DEF CutoverInv
  <1>8. \A u \in Tabs : tab'[u] = tab[u]
    BY <1>1
  <1>9. \A e \in Devices : WaitingInv(e)' \/ pending'[e] = pending[e]
    BY <1>2 DEF WaitingInv
  <1>10. \A e \in Devices : disk[e] # None /\ disk'[e] = None => pending'[e] = None
    BY <1>2, <1>3
  <1> QED
    BY <1>1, <1>4, <1>5, <1>6, <1>7, <1>8, <1>9, <1>10, StepHolds

-----------------------------------------------------------------------------
(* The server's steps.                                                     *)

LEMMA OnlyTheCloud ==
    ASSUME CutoverInv, UNCHANGED <<local, tab, shows, stored, scene, delivered>>,
           held \subseteq held', CutoverTypeOK', ImportInv'
    PROVE  CutoverInv'
  <1>1. /\ disk' = disk /\ pending' = pending /\ marker' = marker /\ conn' = conn
    BY DEF local, stored
  <1>2. Onward
    BY <1>1, DisksStay DEF Onward, CutoverInv
  <1>3. ConnectedInv'
    BY <1>1, SameDevice DEF CutoverInv, ConnectedInv, MyDisk
  <1>4. \A u \in Tabs : tab'[u] = tab[u]
    OBVIOUS
  <1> QED
    BY <1>1, <1>2, <1>3, <1>4, StepHolds

\* A call that goes on asks for what it asked for.
LEMMA MovesTyped ==
    ASSUME CutoverInv, NEW c \in calls, NEW stage \in Stages, Moves(c, stage)
    PROVE  /\ calls' \subseteq [n : Nat, request : Nat, payload : Contents, stage : Stages]
           /\ IsFiniteSet(calls')
           /\ \A e \in calls' : e.payload.rows # {}
           /\ stage \notin {"empty", "counted"} => AtWork' = AtWork \ {c}
           /\ AtWork \subseteq {c} => \A e, f \in AtWork' : e = f
  <1> DEFINE moved == [c EXCEPT !.stage = stage]
  <1>1. /\ CutoverTypeOK /\ c \in [n : Nat, request : Nat, payload : Contents, stage : Stages]
        /\ c.payload.rows # {}
    BY DEF CutoverInv, CutoverTypeOK, ImportInv
  <1>2. /\ moved \in [n : Nat, request : Nat, payload : Contents, stage : Stages]
        /\ moved.payload = c.payload /\ moved.stage = stage
    BY <1>1
  <1>3. calls' = (calls \ {c}) \cup {moved}
    BY DEF Moves
  <1> HIDE DEF moved
  <1>4. IsFiniteSet(calls')
    BY <1>1, <1>3, FS_AddElement, FS_RemoveElement DEF CutoverTypeOK
  <1>5. \A e \in calls' : e.payload.rows # {}
    BY <1>1, <1>2, <1>3 DEF CutoverInv, ImportInv
  <1>6. stage \notin {"empty", "counted"} => AtWork' = AtWork \ {c}
    BY <1>2, <1>3 DEF AtWork
  <1>7. AtWork \subseteq {c} => \A e, f \in AtWork' : e = f
    BY <1>2, <1>3 DEF AtWork
  <1> QED
    BY <1>1, <1>2, <1>3, <1>4, <1>5, <1>6, <1>7 DEF CutoverTypeOK

LEMMA CallIsTyped ==
    ASSUME CutoverInv, NEW c \in calls
    PROVE  /\ c \in [n : Nat, request : Nat, payload : Contents, stage : Stages]
           /\ c.payload.rows # {} /\ c.payload.rows \subseteq Row
  BY DEF CutoverInv, CutoverTypeOK, ImportInv, Contents

\* The check under the lock: nothing is at work, and nothing has been imported
\* when the catalogue is empty.
LEMMA ImportChecksStep ==
    ASSUME CutoverInv, NEW c \in calls, ImportChecks(c)
    PROVE  CutoverInv'
  <1>1. /\ AtWork = {} /\ UNCHANGED <<local, tab, shows, stored, cloud, imports, scene, held, delivered>>
    BY DEF ImportChecks, Locked, AtWork, counters
  <1>2. PICK stage \in {"done", "DUPLICATE_KEY", "empty"} :
          Moves(c, stage) /\ (stage = "empty" => cloud = {})
    BY DEF ImportChecks
  <1>3. stage \in Stages
    BY DEF Stages
  <1>4. /\ calls' \subseteq [n : Nat, request : Nat, payload : Contents, stage : Stages]
        /\ IsFiniteSet(calls') /\ \A e \in calls' : e.payload.rows # {}
        /\ stage # "empty" => AtWork' = {}
        /\ \A e, f \in AtWork' : e = f
    BY <1>1, <1>2, <1>3, MovesTyped
  <1>5. CutoverTypeOK'
    BY <1>1, <1>4 DEF CutoverInv, CutoverTypeOK, local, stored
  <1>6. ImportInv'
    BY <1>1, <1>2, <1>4 DEF CutoverInv, ImportInv, ImportedOnce
  <1> QED
    BY <1>1, <1>5, <1>6, OnlyTheCloud

LEMMA ImportForbiddenStep ==
    ASSUME CutoverInv, NEW c \in calls, ImportForbidden(c)
    PROVE  CutoverInv'
  <1>1. /\ Moves(c, "FORBIDDEN") /\ "FORBIDDEN" \in Stages
        /\ UNCHANGED <<local, tab, shows, stored, cloud, imports, scene, held, delivered>>
    BY DEF ImportForbidden, Stages
  <1>2. /\ calls' \subseteq [n : Nat, request : Nat, payload : Contents, stage : Stages]
        /\ IsFiniteSet(calls') /\ \A e \in calls' : e.payload.rows # {}
        /\ AtWork' \subseteq AtWork
    BY <1>1, MovesTyped
  <1>3. CutoverTypeOK'
    BY <1>1, <1>2 DEF CutoverInv, CutoverTypeOK, local, stored
  <1>4. ImportInv'
    BY <1>1, <1>2 DEF CutoverInv, ImportInv, ImportedOnce
  <1> QED
    BY <1>1, <1>3, <1>4, OnlyTheCloud

LEMMA ImportCountsStep ==
    ASSUME CutoverInv, NEW c \in calls, ImportCounts(c)
    PROVE  CutoverInv'
  <1>1. UNCHANGED <<local, tab, shows, stored, cloud, imports, scene, held, delivered>>
    BY DEF ImportCounts, counters
  <1>2. c \in AtWork /\ AtWork \subseteq {c} /\ imports = {}
    BY DEF ImportCounts, CutoverInv, ImportInv, AtWork
  <1>3. PICK stage \in Stages : Moves(c, stage)
    BY DEF ImportCounts, Stages
  <1>4. /\ calls' \subseteq [n : Nat, request : Nat, payload : Contents, stage : Stages]
        /\ IsFiniteSet(calls') /\ \A e \in calls' : e.payload.rows # {}
        /\ \A e, f \in AtWork' : e = f
    BY <1>2, <1>3, MovesTyped
  <1>5. CutoverTypeOK'
    BY <1>1, <1>4 DEF CutoverInv, CutoverTypeOK, local, stored
  <1>6. ImportInv'
    BY <1>1, <1>2, <1>4 DEF CutoverInv, ImportInv, ImportedOnce
  <1> QED
    BY <1>1, <1>5, <1>6, OnlyTheCloud

\* What commits is the one import at work, and the first; it leaves records.
LEMMA ImportCommitsStep ==
    ASSUME CutoverInv, NEW c \in calls, ImportCommits(c)
    PROVE  CutoverInv'
  <1>1. /\ UNCHANGED <<local, tab, shows, stored, scene, delivered>>
        /\ cloud' = cloud \cup c.payload.rows /\ held' = held \cup cloud'
        /\ imports' = imports \cup {[request |-> c.request, payload |-> c.payload]}
        /\ Moves(c, "done") /\ "done" \in Stages
    BY DEF ImportCommits, counters, Stages
  <1>2. c \in AtWork /\ AtWork \subseteq {c} /\ imports = {}
    BY DEF ImportCommits, CutoverInv, ImportInv, AtWork
  <1>3. /\ calls' \subseteq [n : Nat, request : Nat, payload : Contents, stage : Stages]
        /\ IsFiniteSet(calls') /\ \A e \in calls' : e.payload.rows # {}
        /\ AtWork' = {}
    BY <1>1, <1>2, MovesTyped
  <1>4. /\ c \in [n : Nat, request : Nat, payload : Contents, stage : Stages]
        /\ c.payload.rows # {} /\ c.payload.rows \subseteq Row
    BY CallIsTyped
  <1>5. cloud' \subseteq Row /\ held' \subseteq Row /\ cloud' # {}
    BY <1>1, <1>4 DEF CutoverInv, CutoverTypeOK
  <1>6. imports' \subseteq [request : Nat, payload : Contents] /\ \A i, j \in imports' : i = j
    BY <1>1, <1>2, <1>4
  <1>7. CutoverTypeOK'
    BY <1>1, <1>3, <1>5, <1>6 DEF CutoverInv, CutoverTypeOK, local, stored
  <1>8. ImportInv'
    BY <1>1, <1>3, <1>5, <1>6 DEF ImportInv, ImportedOnce
  <1> QED
    BY <1>1, <1>7, <1>8, OnlyTheCloud

\* A colleague's save leaves the catalogue no emptier.
LEMMA ColleagueStep ==
    ASSUME CutoverInv, Colleague
    PROVE  CutoverInv'
  <1>1. PICK r \in Row : cloud' = Saved(r)
    BY DEF Colleague
  <1>2. /\ UNCHANGED <<local, tab, shows, stored, calls, imports, scene, delivered>>
        /\ held' = held \cup cloud'
    BY DEF Colleague
  <1>3. cloud' \subseteq Row /\ held' \subseteq Row /\ cloud' # {}
    BY <1>1, <1>2 DEF Saved, CutoverInv, CutoverTypeOK
  <1>4. CutoverTypeOK'
    BY <1>2, <1>3 DEF CutoverInv, CutoverTypeOK, local, stored
  <1>5. ImportInv'
    BY <1>2, <1>3 DEF CutoverInv, ImportInv, ImportedOnce, AtWork
  <1> QED
    BY <1>2, <1>4, <1>5, OnlyTheCloud

-----------------------------------------------------------------------------
(* The invariant of the specification.                                     *)

LEMMA InitHolds == Init => CutoverInv
  <1> SUFFICES ASSUME Init PROVE CutoverInv
    OBVIOUS
  <1>1. /\ scene \in DOMAIN Scenes /\ disk = Scenes[scene].disk /\ cloud \in Scenes[scene].clouds
        /\ conn = [t \in Tabs |-> "none"] /\ strays = {}
        /\ pending = [d \in Devices |-> None] /\ tab = [t \in Tabs |-> Idle]
        /\ shows = [t \in Tabs |-> "closed"]
        /\ marker = [d \in Devices |-> None] /\ attempt = [d \in Devices |-> None]
        /\ calls = {} /\ imports = {} /\ held = cloud
        /\ delivered = [d \in Devices |-> {}]
    BY DEF Init, Part
  <1>2. /\ disk \in [Devices -> Disks \cup {None}] /\ cloud \subseteq Row
    BY <1>1, SceneAssumption
  <1>3. CutoverTypeOK
    BY <1>1, <1>2, IdleIsAction, FS_EmptySet DEF CutoverTypeOK
  <1>4. ConnectedInv /\ ImportInv /\ MarkedDevicesHoldNothing
    BY <1>1 DEF ConnectedInv, ImportInv, AtWork, ImportedOnce, MarkedDevicesHoldNothing
  <1>5. \A t \in Tabs : ActionInv(t)
    BY <1>1, IdleIsAction, IdleHolds
  <1>6. \A d \in Devices : WaitingInv(d)
    BY <1>1 DEF WaitingInv
  <1> QED
    BY <1>3, <1>4, <1>5, <1>6 DEF CutoverInv

LEMMA NextHolds == CutoverInv /\ [Next]_vars => CutoverInv'
  <1> SUFFICES ASSUME CutoverInv, [Next]_vars PROVE CutoverInv'
    BY SMTT(30)
  <1>1. CASE UNCHANGED vars
    BY ZenonT(40), <1>1
       DEF vars, local, stored, server, counters, CutoverInv, CutoverTypeOK, ConnectedInv,
         ImportInv, AtWork, ImportedOnce, MarkedDevicesHoldNothing, ActionInv, TaskFits,
         WaitingInv, Justified, Protected, HoldsNothing, AsRead, MyDisk, DeviceOf, Part
  <1>2. ASSUME NEW t \in Tabs, Boot(t) \/ Migrate(t) \/ RetireLocal(t) PROVE CutoverInv'
    BY <1>2, BeginStep
  <1>3. ASSUME NEW t \in Tabs, Step(t) PROVE CutoverInv'
    BY <1>3, ReadVersionStep, OpeningStep, SnapshotStep, UpgradeStep, UpgradeBlockedStep,
       ReadStep, ExportStep, ReadListStep, ProvenStep, ComparisonStep, EndingStep, ImportStep,
       DeleteStep, DeleteBlockedStep, ConfirmRetiredStep, MarkCompleteStep DEF Step
  <1>4. ASSUME NEW t \in Tabs, MayFail(t) \/ Leave(t) PROVE CutoverInv'
    BY <1>4, EndingStep, LeaveStep
  <1>5. ASSUME NEW d \in Devices, PendingRuns(d) PROVE CutoverInv'
    BY <1>5, PendingRunsStep
  <1>6. ASSUME NEW c \in calls,
               ImportChecks(c) \/ ImportCounts(c) \/ ImportCommits(c) \/ ImportForbidden(c)
        PROVE  CutoverInv'
    BY <1>6, ImportChecksStep, ImportCountsStep, ImportCommitsStep, ImportForbiddenStep
  <1>7. CASE Colleague
    BY <1>7, ColleagueStep
  <1> QED
    BY <1>1, <1>2, <1>3, <1>4, <1>5, <1>6, <1>7 DEF Next, ServerStep

LEMMA CutoverInvariant == Spec => []CutoverInv
  BY InitHolds, NextHolds, PTL DEF Spec

\* A device that is marked as moved, and so is never inspected again, holds no
\* record, however many tabs opened, upgraded or deleted its database meanwhile.
THEOREM MarkedDevices == Spec => []MarkedDevicesHoldNothing
  <1>1. CutoverInv => MarkedDevicesHoldNothing
    BY DEF CutoverInv
  <1> QED
    BY <1>1, CutoverInvariant, PTL

\* The server makes one import for the company, whatever is tried and retried.
THEOREM OneImport == Spec => []ImportedOnce
  <1>1. CutoverInv => ImportedOnce
    BY DEF CutoverInv, ImportInv
  <1> QED
    BY <1>1, CutoverInvariant, PTL

-----------------------------------------------------------------------------
(* The steps that take a database away, or upgrade it.                     *)

LEMMA WhoTouches ==
    ASSUME CutoverInv, Next, NEW d \in Devices, disk[d] # None
    PROVE  \/ disk'[d] # None /\ disk'[d].version = disk[d].version
           \/ PendingRuns(d)
           \/ \E t \in Tabs : DeviceOf(t) = d /\ (Delete(t) \/ Upgrade(t))
  <1> DEFINE Kept == disk'[d] # None /\ disk'[d].version = disk[d].version
  <1>0. CutoverTypeOK
    BY DEF CutoverInv
  <1>1. CASE UNCHANGED disk
    BY <1>1
  <1>2. ASSUME NEW t \in Tabs, Delete(t) \/ Upgrade(t) PROVE Kept \/ DeviceOf(t) = d
    <2>1. DeviceOf(t) \in Devices /\ (disk' = Removed(DeviceOf(t)) \/ disk' = Upgraded(DeviceOf(t)))
      BY <1>0, <1>2, SceneFacts DEF Delete, Upgrade
    <2>2. PICK e \in Devices : e = DeviceOf(t)
      BY <2>1
    <2>3. e # d => disk'[d] = disk[d]
      BY <1>0, <2>1, <2>2 DEF Removed, Upgraded, CutoverTypeOK
    <2> QED
      BY <2>2, <2>3
  <1>3. ASSUME NEW t \in Tabs, OpenOld(t) \/ Open(t) PROVE Kept
    <2>1. /\ DeviceOf(t) \in Devices /\ MyDisk(t) = disk[DeviceOf(t)]
      BY <1>0, SceneFacts DEF MyDisk
    <2>2. PICK v \in {"old", "current"} :
            disk' = IF disk[DeviceOf(t)] = None
                    THEN [disk EXCEPT ![DeviceOf(t)] = Disk(v, Nothing)] ELSE disk
      BY <1>3, <2>1 DEF OpenOld, Open
    <2>3. disk'[d] = disk[d]
      BY <1>0, <2>1, <2>2, CreatedEvolves
    <2> QED
      BY <2>3
  <1>4. ASSUME NEW t \in Tabs, KeepBeforeUpgrade(t) \/ PreImportSnapshot(t) PROVE Kept
    <2>1. PICK kind \in {"PRE_MIGRATION", "PRE_IMPORT"} : TakesSnapshot(t, kind)
      BY <1>4 DEF KeepBeforeUpgrade, PreImportSnapshot
    <2>2. MyDisk(t) # None /\ MyDisk(t) = disk[DeviceOf(t)] /\ DeviceOf(t) \in Devices
      BY <1>0, <1>4, SceneFacts
         DEF KeepBeforeUpgrade, PreImportSnapshot, Usable, MyDisk, CutoverInv, ConnectedInv
    <2> QED
      BY <1>0, <2>1, <2>2, SnapshotTyped
  <1>5. ASSUME NEW e \in Devices, PendingRuns(e) PROVE Kept \/ e = d
    BY <1>0, <1>5 DEF PendingRuns, Removed, Upgraded, CutoverTypeOK
  <1>6. ASSUME NEW t \in Tabs,
               \/ Boot(t) \/ Migrate(t) \/ RetireLocal(t) \/ MayFail(t) \/ Leave(t)
               \/ ReadVersion(t) \/ UpgradeBlocked(t) \/ Read(t) \/ Export(t)
               \/ ReadList(t) \/ Proven(t) \/ ProvenAgain(t) \/ NotProven(t)
        PROVE  Kept
    <2>1. UNCHANGED disk
      BY <1>6 DEF Boot, Migrate, RetireLocal, Begins, MayFail, Fails, Leave, ReadVersion,
           UpgradeBlocked, Read, Export, ReadList, Proven, ProvenAgain, NotProven, local
    <2> QED
      BY <1>1, <2>1
  <1>7. ASSUME NEW t \in Tabs,
               \/ Import(t) \/ ImportAnswered(t) \/ ImportRefused(t)
               \/ DeleteBlocked(t) \/ ConfirmRetired(t) \/ MarkComplete(t) \/ Throws(t)
        PROVE  Kept
    <2>1. UNCHANGED disk
      BY <1>7 DEF Import, ImportAnswered, ImportRefused, DeleteBlocked, ConfirmRetired,
           MarkComplete, Throws, Fails, local
    <2> QED
      BY <1>1, <2>1
  <1>8. ASSUME \/ Colleague
               \/ \E c \in calls : \/ ImportChecks(c) \/ ImportCounts(c)
                                   \/ ImportCommits(c) \/ ImportForbidden(c)
        PROVE  Kept
    <2>1. CASE Colleague
      BY <1>1, <2>1 DEF Colleague, local
    <2>2. CASE \E c \in calls : \/ ImportChecks(c) \/ ImportCounts(c)
                               \/ ImportCommits(c) \/ ImportForbidden(c)
      BY <1>1, <2>2 DEF ImportChecks, ImportCounts, ImportCommits, ImportForbidden, local
    <2> QED
      BY <1>8, <2>1, <2>2
  <1> QED
    BY <1>2, <1>3, <1>4, <1>5, <1>6, <1>7, <1>8 DEF Next, Step, ServerStep

\* Only the tab of a step changes its action.
LEMMA OthersStay ==
    ASSUME CutoverInv, NEW t \in Tabs, Delete(t) \/ Upgrade(t)
    PROVE  \A u \in Tabs \ {t} : tab'[u] = tab[u]
  BY GoesTyped DEF CutoverInv, Delete, Upgrade, Pcs

LEMMA GoingIsJustified ==
    ASSUME CutoverInv, Next, NEW d \in Devices, NEW task \in Tasks, GoesFor(d, task)
    PROVE  Justified(d, task)
  <1>1. disk[d] # None /\ disk'[d] = None /\ CutoverTypeOK
    BY DEF GoesFor, CutoverInv
  <1>2. CASE PendingRuns(d)
    <2>1. /\ pending[d] # None /\ pending[d].kind \in {"upgrade", "delete"} /\ UNCHANGED tab
          /\ pending[d].kind = "upgrade" => disk' = Upgraded(d)
      BY <1>2 DEF PendingRuns
    <2>2. pending[d].kind = "delete"
      BY <1>1, <2>1, UpgradedEvolves
    <2>3. pending[d].task = task
      BY <2>1 DEF GoesFor, At
    <2> QED
      BY <2>1, <2>2, <2>3 DEF CutoverInv, WaitingInv
  <1>3. ASSUME NEW t \in Tabs, DeviceOf(t) = d, Delete(t) \/ Upgrade(t) PROVE Justified(d, task)
    <2>1. pending[d] = None /\ \A u \in Tabs \ {t} : tab'[u] = tab[u]
      BY <1>3, OthersStay DEF Delete, Retires, Upgrade, Upgrades, Served
    <2>2. tab[t].task = task /\ tab[t].pc = "retire"
      BY <1>3, <2>1 DEF GoesFor, At
    <2> QED
      BY <1>3, <2>2 DEF CutoverInv, ActionInv
  <1> QED
    BY <1>1, <1>2, <1>3, WhoTouches

\* "The local database is retired only when EVERY legacy record is PRESENT", or
\* by decision when a file of it was delivered, or when it is empty: of every
\* step that takes a database away, whichever tab asked for it and when.
THEOREM WhatGoesIsKept == Spec => RetiresOnlyWhatIsKept
  <1>1. CutoverInv /\ [Next]_vars =>
          [\A d \in Devices :
             /\ GoesFor(d, "migrate") => disk[d].data.rows \subseteq held
             /\ GoesFor(d, "retire") => IsEmpty(disk[d].data) \/ disk[d].data \in delivered[d]
             /\ GoesFor(d, "empty") => IsEmpty(disk[d].data)]_vars
    <2> SUFFICES ASSUME CutoverInv, Next, NEW d \in Devices
                 PROVE  /\ GoesFor(d, "migrate") => disk[d].data.rows \subseteq held
                        /\ GoesFor(d, "retire") =>
                             IsEmpty(disk[d].data) \/ disk[d].data \in delivered[d]
                        /\ GoesFor(d, "empty") => IsEmpty(disk[d].data)
      OBVIOUS
    <2>1. ASSUME NEW task \in {"migrate", "retire", "empty"}, GoesFor(d, task)
          PROVE  disk[d] # None /\ Justified(d, task)
      BY <2>1, GoingIsJustified DEF GoesFor, Tasks
    <2> QED
      BY <2>1 DEF Justified
  <1> QED
    BY <1>1, CutoverInvariant, PTL DEF Spec, RetiresOnlyWhatIsKept

\* "An old one must be snapshotted before its upgrade": of every step that
\* upgrades, the request that was blocked and ran later included.
THEOREM UpgradesAreProtected == Spec => UpgradeIsProtected
  <1>1. CutoverInv /\ [Next]_vars =>
          [\A d \in Devices :
             (/\ disk[d] # None /\ disk[d].version = "old" /\ ~IsEmpty(disk[d].data)
              /\ disk'[d] # None /\ disk'[d].version = "current"
              /\ KnewTheVersion(d))
               => [kind |-> "PRE_MIGRATION", data |-> disk[d].data] \in disk[d].snapshots]_vars
    <2> SUFFICES ASSUME CutoverInv, Next, NEW d \in Devices,
                        disk[d] # None, disk[d].version = "old", ~IsEmpty(disk[d].data),
                        disk'[d] # None, disk'[d].version = "current", KnewTheVersion(d)
                 PROVE  [kind |-> "PRE_MIGRATION", data |-> disk[d].data] \in disk[d].snapshots
      OBVIOUS
    <2>1. Protected(d)
      <3>0. CutoverTypeOK
        BY DEF CutoverInv
      <3>1. CASE PendingRuns(d)
        <4>1. pending[d] # None /\ pending[d].kind = "upgrade" /\ ~pending[d].unsure
          BY <3>0, <3>1, RemovedEvolves DEF PendingRuns, KnewTheVersion
        <4> QED
          BY <4>1 DEF CutoverInv, WaitingInv
      <3>2. ASSUME NEW t \in Tabs, DeviceOf(t) = d, Delete(t) \/ Upgrade(t) PROVE Protected(d)
        <4>1. pending[d] = None /\ \A u \in Tabs \ {t} : tab'[u] = tab[u]
          BY <3>2, OthersStay DEF Delete, Retires, Upgrade, Upgrades, Served
        <4>2. ~tab[t].unsure /\ tab[t].pc = "open"
          BY <4>1 DEF KnewTheVersion, At
        <4> QED
          BY <3>2, <4>2 DEF CutoverInv, ActionInv
      <3> QED
        BY <3>1, <3>2, WhoTouches
    <2> QED
      BY <2>1 DEF Protected
  <1> QED
    BY <1>1, CutoverInvariant, PTL DEF Spec, UpgradeIsProtected
=============================================================================
