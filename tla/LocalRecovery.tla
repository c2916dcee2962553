--------------------------- MODULE LocalRecovery ----------------------------
(***************************************************************************)
(* The recovery layer beside the editors: tabs that open the application   *)
(* take the day's snapshot and prune (app/bootstrap.ts,                    *)
(* backup/maintenance.ts), and restore the database from a snapshot or a   *)
(* file (backup/restore.ts).  Each step is one IndexedDB transaction, or   *)
(* what the tab does between two of them; another tab may act in between.  *)
(***************************************************************************)
EXTENDS BackupFile, Retention

CONSTANTS
    Files,    \* the backup files at hand
    Start,    \* the instant the device is looked at first
    Scenes    \* a function: what the device holds and who does what

ASSUME StartIsNat == Start \in Nat

\* What a snapshot or a file may hold that was not made here: no two changes
\* share an instant, so it is the project as it was in the beginning.
Beginnings == [project : {None, First}, supplier : BOOLEAN]

ASSUME ScenesAssumption ==
    \A name \in DOMAIN Scenes : \A old \in Scenes[name].snapshots :
      IsFiniteSet(old) /\ \A s \in old : s.data \in Beginnings /\ s.at \in Nat

VARIABLES
    scene,      \* which of the scenes this is
    snapshots,
    quota,
    opening,    \* how far each tab has opened, the clock it read, what it listed
    restores,   \* the restore of each tab
    begun,      \* how many restores were begun
    held        \* history: what the database has ever held

vars == <<database, editors, typed, clock, scene, snapshots, quota, opening, restores, begun,
          held>>

SizeOf(content) ==
    1 + (IF content.project = None THEN 0 ELSE 1 + Cardinality(content.project.edits))

Snapshot(kind, at, content) ==
    [kind |-> kind, at |-> at, size |-> SizeOf(content), data |-> content]

\* A snapshot before a migration is of the schema the device was at.
SchemaOf(snapshot) ==
    IF snapshot.kind = "PRE_MIGRATION" THEN SchemaVersion - 1 ELSE SchemaVersion

NotOpen == [pc |-> "closed", now |-> 0, listed |-> {}]

Restore ==
    [pc : {"none", "planned", "applied", "kept", "replaced"}, plan : Database \cup {None},
     createdAt : Nat, outcome : {"none", "refused", "unchanged", "restored", "unverifiable"}]

NoRestore == [pc |-> "none", plan |-> None, createdAt |-> 0, outcome |-> "none"]

\* A scene names the tabs that edit, that restore and that are still to open,
\* the edits to be typed and the number of restores, the snapshots the device
\* may hold, and what its browser may say of the quota, 0 when it does not.
Part == Scenes[scene]

RecoveryInit ==
    /\ EditingInit
    /\ scene \in DOMAIN Scenes
    /\ snapshots \in Part.snapshots
    /\ quota \in Part.quotas
    /\ opening = [t \in Tabs |-> [NotOpen EXCEPT !.pc = IF t \in Part.open THEN "closed"
                                                      ELSE "ready"]]
    /\ restores = [t \in Tabs |-> NoRestore]
    /\ begun = 0
    /\ held = {database} \cup {s.data : s \in snapshots}

recoveryVars == <<scene, snapshots, quota, opening, restores, begun>>

Now == Start + clock

Ready(t) == opening[t].pc = "ready"

At(t, pc) == opening[t].pc = pc

Opens(t, pc, now, listed) ==
    opening' = [opening EXCEPT ![t] = [pc |-> pc, now |-> now, listed |-> listed]]

\* A clock is read when a transaction is asked for, which may be well before
\* it runs; no two readings that become a snapshot's instant are the same.
ReadsTheClock ==
    /\ clock' = clock + 1
    /\ UNCHANGED <<database, editors, typed>>

-----------------------------------------------------------------------------
(* runSnapshotMaintenance() on open; a failure of it is only a warning.    *)

Open(t) ==
    /\ At(t, "closed")
    /\ ReadsTheClock
    /\ Opens(t, "daily", Now + 1, {})
    /\ UNCHANGED <<scene, snapshots, quota, restores, begun, held>>

HasDay(listed, now) == \E s \in OfKind(listed, "DAILY") : DayOf(s.at) = DayOf(now)

ListForDaily(t) ==
    /\ At(t, "daily")
    /\ IF HasDay(snapshots, opening[t].now) THEN Opens(t, "list", Now, {})
       ELSE Opens(t, "create", opening[t].now, {})
    /\ UNCHANGED <<editingVars, scene, snapshots, quota, restores, begun, held>>

\* createSnapshot(): every store is read and the copy added in one transaction.
Takes(kind, createdAt) ==
    /\ HasCanonicalForm(ReadBusinessData(database))
    /\ snapshots' = snapshots \cup {Snapshot(kind, createdAt, database)}
    /\ UNCHANGED <<editingVars, scene, quota>>

CreateDaily(t) ==
    /\ At(t, "create")
    /\ Takes("DAILY", opening[t].now)
    /\ Opens(t, "list", Now, {})
    /\ UNCHANGED <<restores, begun, held>>

ListForRetention(t) ==
    /\ At(t, "list")
    /\ Opens(t, "prune", opening[t].now, snapshots)
    /\ UNCHANGED <<editingVars, scene, snapshots, quota, restores, begun, held>>

\* fault: what is not in the plan is deleted, whenever it was added.
PrunesTheRest(t) ==
    /\ At(t, "prune")
    /\ snapshots' = snapshots \cap Retained(opening[t].listed, opening[t].now, quota)
    /\ Opens(t, "ready", 0, {})
    /\ UNCHANGED <<editingVars, scene, quota, restores, begun, held>>

\* applyRetention(): what the list calls for is deleted by its ids.
Prune(t) ==
    /\ At(t, "prune")
    /\ snapshots' =
         snapshots \ (opening[t].listed \ Retained(opening[t].listed, opening[t].now, quota))
    /\ Opens(t, "ready", 0, {})
    /\ UNCHANGED <<editingVars, scene, quota, restores, begun, held>>

MaintenanceFails(t) ==
    /\ opening[t].pc \in {"daily", "create", "list", "prune"}
    /\ Opens(t, "ready", 0, {})
    /\ UNCHANGED <<editingVars, scene, snapshots, quota, restores, begun, held>>

-----------------------------------------------------------------------------
(* A restore.                                                              *)

Restores(t, r) == restores' = [restores EXCEPT ![t] = r]

Begins(t) ==
    /\ t \in Part.restore /\ Ready(t) /\ restores[t].pc = "none"
    /\ begun < Part.restores
    /\ begun' = begun + 1
    /\ UNCHANGED <<editingVars, scene, snapshots, quota, opening, held>>

Planned(refusal, content) ==
    IF refusal = "NONE" THEN [NoRestore EXCEPT !.pc = "planned", !.plan = content]
    ELSE [NoRestore EXCEPT !.outcome = "refused"]

\* fault: a digest that does not match is offered for confirmation.
OffersWhatWasAltered(file) ==
    LET refusal == RefusalOfFile(file)
    IN Planned(IF refusal = "BACKUP_CHECKSUM_MISMATCH" THEN "NONE" ELSE refusal,
               ContentOf(file.data))

PlanOfFile(file) == Planned(RefusalOfFile(file), ContentOf(file.data))

Plans == {PlanOfFile(f) : f \in Files}

\* What the parsers let through is what this build writes.
ASSUME FilesAssumption ==
    \A f \in Files :
      /\ f.text \in Texts /\ {f.magic, f.keysKnown, f.provenance, f.integrity.form} \subseteq BOOLEAN
      /\ RefusalOfFile(f) = "NONE" =>
           \E content \in Beginnings : f.data = ReadBusinessData(content)

PrepareFromFile(t) ==
    /\ Begins(t)
    /\ \E plan \in Plans : Restores(t, plan)

PlanOfPayload(payload, schemaVersion) ==
    Planned(RefusalOfSnapshot(payload, schemaVersion), ContentOf(payload))

PrepareFromSnapshot(t) ==
    /\ Begins(t)
    /\ \E s \in snapshots :
         Restores(t, PlanOfPayload(ReadBusinessData(s.data), SchemaOf(s)))

Ends(t, outcome) == Restores(t, [NoRestore EXCEPT !.outcome = outcome])

\* applyRestore(), confirmed by the person.
ApplyRestore(t) ==
    /\ restores[t].pc = "planned"
    /\ ReadsTheClock
    /\ Restores(t, [restores[t] EXCEPT !.pc = "applied", !.createdAt = Now + 1])
    /\ UNCHANGED <<scene, snapshots, quota, opening, begun, held>>

\* The snapshot of what is about to go commits before anything is cleared.
TakePreRestore(t) ==
    /\ restores[t].pc = "applied"
    /\ Takes("PRE_RESTORE", restores[t].createdAt)
    /\ Restores(t, [restores[t] EXCEPT !.pc = "kept"])
    /\ UNCHANGED <<opening, begun, held>>

\* clear, add and verify: one transaction over the business stores.
Replace(t) ==
    /\ restores[t].pc = "kept"
    /\ database' = restores[t].plan
    /\ Restores(t, [restores[t] EXCEPT !.pc = "replaced"])
    /\ UNCHANGED <<editors, typed, clock, scene, snapshots, quota, opening, begun, held>>

\* The snapshot cannot be written, or the replacing transaction aborts.
RestoreAborts(t) ==
    /\ restores[t].pc \in {"applied", "kept"}
    /\ Ends(t, "unchanged")
    /\ UNCHANGED <<editingVars, scene, snapshots, quota, opening, begun, held>>

\* confirmAfterCommit(): the counts are read back; the read itself may fail.
Confirm(t) ==
    /\ restores[t].pc = "replaced"
    /\ \/ /\ CountEntities(StoredRecords(database)) = CountEntities(StoredRecords(restores[t].plan))
          /\ Ends(t, "restored")
       \/ Ends(t, "unverifiable")
    /\ UNCHANGED <<editingVars, scene, snapshots, quota, opening, begun, held>>

-----------------------------------------------------------------------------

\* An editor's step, in a tab that has opened.
EditorStep(t) ==
    \/ /\ Ready(t)
       /\ OpenEditor(t) \/ Change(t) \/ TimerFires(t) \/ Flush(t) \/ Retry(t) \/ Dispose(t)
    \/ Commit(t) \/ Refuse(t) \/ Abort(t) \/ Settle(t)

\* What the database comes to hold is remembered.
Alongside ==
    /\ held' = held \cup {database'}
    /\ UNCHANGED recoveryVars

Edit(t) ==
    /\ t \in Part.edit
    /\ EditorStep(t)
    /\ typed' \subseteq Part.edits
    /\ Alongside

OtherScreens ==
    /\ \E t \in Part.edit : Ready(t)
    /\ SaveSupplier \/ DeleteProject
    /\ Alongside

\* The tab is closed or crashes: its transactions committed or never will.
\* Opened again, it is another tab.
Leave(t) ==
    /\ Ready(t)
    /\ Becomes(t, Closed)
    /\ Opens(t, "gone", 0, {})
    /\ Restores(t, NoRestore)
    /\ UNCHANGED <<database, typed, clock, scene, snapshots, quota, begun, held>>

Next ==
    \/ \E t \in Tabs :
         \/ Open(t) \/ ListForDaily(t) \/ CreateDaily(t) \/ ListForRetention(t) \/ Prune(t)
         \/ MaintenanceFails(t)
         \/ PrepareFromFile(t) \/ PrepareFromSnapshot(t) \/ ApplyRestore(t) \/ TakePreRestore(t)
         \/ Replace(t)
         \/ RestoreAborts(t) \/ Confirm(t)
         \/ Edit(t) \/ Leave(t)
    \/ OtherScreens

Fairness == \A t \in Tabs :
    /\ WF_vars(Ready(t) /\ TimerFires(t) /\ Alongside)
    /\ WF_vars((Commit(t) \/ Refuse(t)) /\ Alongside)
    /\ WF_vars(Settle(t) /\ Alongside)

Spec == RecoveryInit /\ [][Next]_vars /\ Fairness

-----------------------------------------------------------------------------
(* What the recovery layer promises.                                       *)

RecoveryTypeOK ==
    /\ EditingTypeOK
    /\ \A s \in snapshots : s.data \in Database
    /\ restores \in [Tabs -> Restore]
    /\ \A t \in Tabs : restores[t].pc # "none" => restores[t].plan \in Database

\* No step ever removes the newest snapshot taken before a restore: whatever
\* list a tab pruned by, and however little room there is.
NewestPreRestoreIsKept ==
    [][\A s \in NewestOf(OfKind(snapshots, "PRE_RESTORE"), 1) : s \in snapshots']_vars

\* The states whose export the digest of a file is of.
Exported == {content \in {ContentOf(f.integrity.value) : f \in {g \in Files : g.integrity.form}} :
               \E f \in Files : f.integrity.value = ReadBusinessData(content)}

\* A restore installs a whole state that the database once held, or that was
\* exported: never a mixture, never a file that was altered, and never records
\* whose parser refuses them, whoever computed the digest.
RestoresAStateThatWas ==
    [][\A t \in Tabs : Replace(t) => database' \in held \cup Exported]_vars

\* Whatever is kept can be put back: every snapshot the device has kept, of
\* this schema or the one before, and a file written of what the database
\* holds now, are accepted by the readers that refuse so much, and give back
\* what was kept, all of it.
WhatIsKeptCanBeRestored ==
    /\ \A s \in snapshots :
         \A payload \in {ReadBusinessData(s.data)} :
           /\ RefusalOfSnapshot(payload, SchemaOf(s)) = "NONE"
           /\ ContentOf(payload) = s.data
    /\ \A data \in {ReadBusinessData(database)} :
         /\ HasCanonicalForm(data)
         /\ RefusalOfFile(BuildBackupEnvelope(data)) = "NONE"
         /\ ContentOf(data) = database

\* "The only route back is the pre-restore snapshot": what a restore replaces
\* is in a snapshot.
WhatIsReplacedIsKept ==
    [][\A t \in Tabs : Replace(t) => database \in {s.data : s \in snapshots}]_vars
=============================================================================
