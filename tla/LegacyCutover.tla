--------------------------- MODULE LegacyCutover ----------------------------
(***************************************************************************)
(* The one-time move of a device's own catalogue into the company's cloud  *)
(* catalogue (cloud/legacyMigration.ts), run from the boot of the          *)
(* application (app/useApplicationBoot.ts) over a database that is opened, *)
(* upgraded and deleted while other tabs of the device use it              *)
(* (persistence/database.ts, backup/preMigration.ts), against a catalogue  *)
(* colleagues write to and a server that imports it as a whole             *)
(* (api.import_catalog).                                                   *)
(***************************************************************************)
EXTENDS FiniteSets, Integers

CONSTANTS
    Tabs, Devices,
    Ids, Forms,    \* what identifies a record, and what it may say
    Lists, ListOf, \* the lists of the cloud's gateway, and the one an id is in
    SameSku,       \* the pairs of distinct products with one SKU
    None,
    Scenes,        \* a function: who has which device, what it holds, and how much is tried
    MaxFaults

VARIABLES
    scene,
    disk,      \* what each device's database holds, None while there is none
    conn,      \* the connection of each tab's action
    strays,    \* the tabs with a connection nobody owns
    pending,   \* the request of each device that waits for connections to close
    tab,       \* the action of each tab
    shows,     \* what each tab shows between two actions
    marker,    \* each device's record that the move is over
    attempt,   \* each device's record of the import it asked for
    cloud,     \* the rows of the company's catalogue
    calls,     \* the imports on their way, at the server and answered
    imports,   \* the server's record of the imports it made
    begun, writes, faults,
    held,      \* history: the rows the cloud's catalogue ever held
    delivered  \* history: what each device's backup files hold

local == <<disk, conn, strays, pending>>
stored == <<marker, attempt>>
server == <<cloud, calls, imports>>
counters == <<scene, begun, writes, faults>>
vars == <<local, tab, shows, stored, server, counters, held, delivered>>

Row == [id : Ids, form : Forms]

\* later: it also holds records of later modules; legal: the server's rules hold.
Content(rows, later, legal) == [rows |-> rows, later |-> later, legal |-> legal]
Nothing == Content({}, FALSE, TRUE)

\* A database before and after the upgrade of its schema.
Disk(version, content) == [version |-> version, data |-> content, snapshots |-> {}]

Contents == [rows : SUBSET Row, later : BOOLEAN, legal : BOOLEAN]
Copies == [kind : {"PRE_MIGRATION", "PRE_IMPORT"}, data : Contents]
Disks == [version : {"old", "current"}, data : Contents, snapshots : SUBSET Copies]

Tasks == {"none", "inspect", "migrate", "retire", "empty"}
Waiting == [kind : {"upgrade", "delete"}, tab : Tabs, task : Tasks, unsure : BOOLEAN]
Marks ==
    [resolution : {"VERIFIED_IN_CLOUD", "EMPTY_DATABASE", "RETIRED_WITH_BACKUP"},
     checksum : Contents]
Attempts == [request : Nat, checksum : Contents]

ASSUME SceneAssumption ==
    \A i \in DOMAIN Scenes : /\ Scenes[i].device \in [Tabs -> Devices]
                             /\ Scenes[i].disk \in [Devices -> Disks \cup {None}]
                             /\ Scenes[i].clouds \subseteq SUBSET Row
ASSUME NoneIsNothing ==
    None \notin Disks /\ None \notin Waiting /\ None \notin Marks /\ None \notin Attempts

Part == Scenes[scene]
DeviceOf(t) == Part.device[t]
Role(t) == Part.role[t]
MyDisk(t) == disk[DeviceOf(t)]

\* unsure: the version of the database could not be read.
Idle == [pc |-> "idle", task |-> "none", unsure |-> FALSE, data |-> Nothing, seen |-> {},
         unread |-> {}, call |-> 0]

Init ==
    /\ scene \in DOMAIN Scenes
    /\ disk \in {Part.disk}
    /\ conn = [t \in Tabs |-> "none"]
    /\ strays = {}
    /\ pending = [d \in Devices |-> None]
    /\ tab = [t \in Tabs |-> Idle]
    /\ shows = [t \in Tabs |-> "closed"]
    /\ marker = [d \in Devices |-> None]
    /\ attempt = [d \in Devices |-> None]
    /\ cloud \in Part.clouds
    /\ calls = {}
    /\ imports = {}
    /\ begun = 0 /\ writes = 0 /\ faults = 0
    /\ held = cloud
    /\ delivered = [d \in Devices |-> {}]

At(t, pc) == tab[t].pc = pc

Becomes(t, r) == tab' = [tab EXCEPT ![t] = r]
Goes(t, pc) == Becomes(t, [tab[t] EXCEPT !.pc = pc])

Shows(t, phase) == shows' = [shows EXCEPT ![t] = phase]

Connects(t, how) == conn' = [conn EXCEPT ![t] = how]

Faulty == faults < MaxFaults /\ faults' = faults + 1

FailsWith(t) ==
    /\ Becomes(t, Idle)
    /\ Shows(t, IF tab[t].task \in {"inspect", "empty"} THEN "inspection failed" ELSE "failed")

-----------------------------------------------------------------------------
(* The connections to a device's database.                                 *)

Mates(t) == {u \in Tabs \ {t} : DeviceOf(u) = DeviceOf(t)}

\* A transaction of theirs may be running when another tab asks to upgrade or
\* to delete; every other connection closes on versionchange.
Transacting(u) == conn[u] = "open" /\ tab[u].pc \in {"keep", "read", "snapshot", "export"}

ClosedFor(t, busy) ==
    [u \in Tabs |-> IF u \notin Mates(t) THEN conn[u]
                    ELSE IF u \in busy THEN "closing" ELSE "none"]

StraysOn(d) == {u \in strays : DeviceOf(u) = d}

Unblocked(t, how) ==
    /\ StraysOn(DeviceOf(t)) = {}
    /\ conn' = [ClosedFor(t, {}) EXCEPT ![t] = how]

Blocked(t, request) ==
    /\ \E busy \in SUBSET {u \in Mates(t) : Transacting(u)} :
         /\ busy # {} \/ StraysOn(DeviceOf(t)) # {}
         /\ conn' = [ClosedFor(t, busy) EXCEPT ![t] = "none"]
    /\ pending' = [pending EXCEPT ![DeviceOf(t)] = request]

\* Requests on one database are served in turn.
Served(t) == pending[DeviceOf(t)] = None

\* A connection that is closing serves the transaction it runs, then is gone.
After(t) == IF conn[t] = "closing" THEN "none" ELSE "open"
Usable(t) == conn[t] # "none"

Upgraded(d) == [disk EXCEPT ![d].version = "current"]
Removed(d) == [disk EXCEPT ![d] = None]

\* A blocked request goes on when the connections have closed, though its
\* promise was settled: an upgrade leaves a connection that nobody closes.
PendingRuns(d) ==
    /\ pending[d] # None
    /\ StraysOn(d) = {}
    /\ \A t \in Tabs : DeviceOf(t) = d => conn[t] = "none"
    /\ pending' = [pending EXCEPT ![d] = None]
    /\ \/ /\ pending[d].kind = "upgrade"
          /\ disk' = Upgraded(d)
          /\ strays' = strays \cup {pending[d].tab}
       \/ /\ pending[d].kind = "delete"
          /\ disk' = Removed(d)
          /\ UNCHANGED strays
    /\ UNCHANGED <<conn, tab, shows, stored, server, counters, held, delivered>>

-----------------------------------------------------------------------------
(* An action begins: the boot inspects, the person migrates or retires.    *)

Begins(t, task, pc) ==
    /\ At(t, "idle")
    /\ begun < Part.tasks
    /\ begun' = begun + 1
    /\ Becomes(t, [Idle EXCEPT !.pc = pc, !.task = task])
    /\ UNCHANGED <<local, stored, server, scene, writes, faults, held, delivered>>

\* inspectLegacyCatalog(): COMPLETE, NO_LEGACY_DATABASE, or there is one to read.
Boot(t) ==
    LET over == marker[DeviceOf(t)] # None \/ MyDisk(t) = None
    IN  /\ Begins(t, "inspect", IF over THEN "idle" ELSE "version")
        /\ Shows(t, IF over THEN "ready" ELSE "inspecting")

Migrate(t) ==
    /\ shows[t] \in {"required", "failed"}
    /\ Begins(t, "migrate", "version")
    /\ UNCHANGED shows

RetireLocal(t) ==
    /\ shows[t] = "failed" /\ Role(t) = "OWNER"
    /\ Begins(t, "retire", "version")
    /\ UNCHANGED shows

-----------------------------------------------------------------------------
(* validatedLegacyData(): the snapshot before an upgrade, and the opening. *)

\* fault: the database is opened without looking at its version.
OpensAtOnce(t) ==
    /\ At(t, "version")
    /\ Goes(t, "open")
    /\ UNCHANGED <<local, shows, stored, server, counters, held, delivered>>

\* readStoredSchemaVersion(): the enumeration may fail, which reads as "none".
ReadVersion(t) ==
    /\ At(t, "version")
    /\ \/ /\ Goes(t, IF MyDisk(t) # None /\ MyDisk(t).version = "old" THEN "openOld" ELSE "open")
          /\ UNCHANGED faults
       \/ Becomes(t, [tab[t] EXCEPT !.pc = "open", !.unsure = TRUE]) /\ Faulty
    /\ UNCHANGED <<local, shows, stored, server, scene, begun, writes, held, delivered>>

\* Opening creates what is not there; an open at the version it was at is
\* refused when another tab has upgraded it by then.
OpenOld(t) ==
    /\ At(t, "openOld") /\ Served(t)
    /\ MyDisk(t) # None => MyDisk(t).version = "old"
    /\ disk' = IF MyDisk(t) = None
               THEN [disk EXCEPT ![DeviceOf(t)] = Disk("old", Nothing)] ELSE disk
    /\ Connects(t, "open")
    /\ Goes(t, "keep")
    /\ UNCHANGED <<strays, pending, shows, stored, server, counters, held, delivered>>

TakesSnapshot(t, kind) ==
    disk' = [disk EXCEPT ![DeviceOf(t)].snapshots =
               @ \cup {[kind |-> kind, data |-> MyDisk(t).data]}]

KeepBeforeUpgrade(t) ==
    /\ At(t, "keep") /\ Usable(t)
    /\ TakesSnapshot(t, "PRE_MIGRATION")
    /\ Connects(t, "none")
    /\ Goes(t, "open")
    /\ UNCHANGED <<strays, pending, shows, stored, server, counters, held, delivered>>

Open(t) ==
    /\ At(t, "open") /\ Served(t)
    /\ MyDisk(t) # None => MyDisk(t).version = "current"
    /\ disk' = IF MyDisk(t) = None
               THEN [disk EXCEPT ![DeviceOf(t)] = Disk("current", Nothing)] ELSE disk
    /\ Connects(t, "open")
    /\ Goes(t, "read")
    /\ UNCHANGED <<strays, pending, shows, stored, server, counters, held, delivered>>

Upgrades(t) == At(t, "open") /\ Served(t) /\ MyDisk(t) # None /\ MyDisk(t).version = "old"

Upgrade(t) ==
    /\ Upgrades(t)
    /\ Unblocked(t, "open")
    /\ disk' = Upgraded(DeviceOf(t))
    /\ Goes(t, "read")
    /\ UNCHANGED <<strays, pending, shows, stored, server, counters, held, delivered>>

\* DATABASE_UPGRADE_BLOCKED
UpgradeBlocked(t) ==
    /\ Upgrades(t)
    /\ Blocked(t, [kind |-> "upgrade", tab |-> t, task |-> tab[t].task,
                  unsure |-> tab[t].unsure])
    /\ FailsWith(t)
    /\ UNCHANGED <<disk, strays, stored, server, counters, held, delivered>>

IsEmpty(data) == data.rows = {} /\ ~data.later

\* What is read decides: an inspection closes the database and ends, or goes on
\* to retire an empty one; the other two refuse what they cannot move whole.
Read(t) ==
    /\ At(t, "read") /\ Usable(t)
    /\ LET data == MyDisk(t).data
           next == [tab[t] EXCEPT !.data = data]
       IN  \/ /\ tab[t].task = "inspect" /\ IsEmpty(data)
              /\ Becomes(t, [next EXCEPT !.pc = "retire", !.task = "empty"])
              /\ Connects(t, "none")
              /\ UNCHANGED shows
           \/ /\ tab[t].task = "inspect" /\ ~IsEmpty(data)
              /\ Becomes(t, Idle)
              /\ Shows(t, "required")
              /\ Connects(t, "none")
           \/ /\ tab[t].task # "inspect"
              /\ ~data.later /\ (tab[t].task = "migrate" => data.legal)
              /\ Becomes(t, [next EXCEPT !.pc = "snapshot"])
              /\ Connects(t, After(t))
              /\ UNCHANGED shows
           \/ /\ tab[t].task # "inspect"
              /\ data.later \/ (tab[t].task = "migrate" /\ ~data.legal)
              /\ FailsWith(t)
              /\ Connects(t, "none")
    /\ UNCHANGED <<disk, strays, pending, stored, server, counters, held, delivered>>

-----------------------------------------------------------------------------
(* The copies made first, and the comparison with the cloud.               *)

PreImportSnapshot(t) ==
    /\ At(t, "snapshot") /\ Usable(t)
    /\ TakesSnapshot(t, "PRE_IMPORT")
    /\ Connects(t, After(t))
    /\ Goes(t, "export")
    /\ UNCHANGED <<strays, pending, shows, stored, server, counters, held, delivered>>

Compares(t, pc) ==
    Becomes(t, [tab[t] EXCEPT !.pc = pc, !.seen = {}, !.unread = Lists, !.call = 0])

\* exportBackup(): the file is in the person's hands before it goes on.
Export(t) ==
    /\ At(t, "export") /\ Usable(t)
    /\ delivered' = [delivered EXCEPT ![DeviceOf(t)] = @ \cup {MyDisk(t).data}]
    /\ Connects(t, After(t))
    /\ IF tab[t].task = "migrate" THEN Compares(t, "compare") ELSE Goes(t, "retire")
    /\ UNCHANGED <<disk, strays, pending, shows, stored, server, counters, held>>

\* Each list is read complete, the lists beside one another.
ReadList(t) ==
    /\ tab[t].pc \in {"compare", "again", "verify"}
    /\ \E list \in tab[t].unread :
         Becomes(t, [tab[t] EXCEPT
                       !.unread = @ \ {list},
                       !.seen = @ \cup {r \in cloud : ListOf[r.id] = list}])
    /\ UNCHANGED <<local, shows, stored, server, counters, held, delivered>>

\* fault: a row is taken for PRESENT by its id, whatever it says.
FoundById(r, seen) == \E c \in seen : c.id = r.id

Present(r, seen) == r \in seen

Known(r, seen) == \E c \in seen : c.id = r.id \/ {c.id, r.id} \in SameSku

Missing(t) == {r \in tab[t].data.rows : ~Known(r, tab[t].seen)}
Conflicts(t) == {r \in tab[t].data.rows : ~Present(r, tab[t].seen)} \ Missing(t)

\* blocked(): LEGACY_CONFLICT or CLOUD_NOT_EMPTY.
IsBlocked(t) == Conflicts(t) # {} \/ (Missing(t) # {} /\ tab[t].seen # {})

Compared(t, pc) == At(t, pc) /\ tab[t].unread = {}

Fits(t) == Missing(t) = {} /\ Conflicts(t) = {}

\* Every legacy record is PRESENT.
Proven(t) ==
    /\ Compared(t, "compare") \/ Compared(t, "verify")
    /\ Fits(t)
    /\ Goes(t, "retire")
    /\ UNCHANGED <<local, shows, stored, server, counters, held, delivered>>

\* The refusal is decided from the records themselves.
ProvenAgain(t) ==
    /\ Compared(t, "again")
    /\ Fits(t)
    /\ Compares(t, "verify")
    /\ UNCHANGED <<local, shows, stored, server, counters, held, delivered>>

\* Blocked, IMPORT_REQUIRES_OWNER, the refusal again, or VERIFICATION_FAILED.
IsNotProven(t) ==
    \/ Compared(t, "compare") /\ (IsBlocked(t) \/ (Missing(t) # {} /\ Role(t) # "OWNER"))
    \/ Compared(t, "again") /\ ~Fits(t)
    \/ Compared(t, "verify") /\ ~Fits(t)

\* fault: a refusal is compared with the cloud until it fits.
KeepsComparing(t) ==
    /\ IsNotProven(t)
    /\ \/ ~At(t, "again") /\ FailsWith(t) /\ Connects(t, "none")
       \/ At(t, "again") /\ Compares(t, "again") /\ UNCHANGED <<shows, conn>>
    /\ UNCHANGED <<disk, strays, pending, stored, server, counters, held, delivered>>

NotProven(t) ==
    /\ IsNotProven(t)
    /\ FailsWith(t)
    /\ Connects(t, "none")
    /\ UNCHANGED <<disk, strays, pending, stored, server, counters, held, delivered>>

-----------------------------------------------------------------------------
(* The import: asked for, made by the server, answered, or not.            *)

\* The request of an earlier try with the same content is used again.
RequestOf(t, fresh) ==
    LET earlier == attempt[DeviceOf(t)]
    IN  IF earlier # None /\ earlier.checksum = tab[t].data THEN earlier.request ELSE fresh

Import(t) ==
    /\ Compared(t, "compare")
    /\ Missing(t) # {} /\ ~IsBlocked(t) /\ Role(t) = "OWNER"
    /\ LET n == Cardinality(calls) + 1
           request == RequestOf(t, n)
       IN  /\ calls' = calls \cup {[n |-> n, request |-> request, payload |-> tab[t].data,
                                    stage |-> "sent"]}
           /\ attempt' = [attempt EXCEPT ![DeviceOf(t)] =
                            [request |-> request, checksum |-> tab[t].data]]
           /\ Becomes(t, [tab[t] EXCEPT !.pc = "await", !.call = n])
    /\ UNCHANGED <<local, shows, marker, cloud, imports, counters, held, delivered>>

Moves(c, stage) == calls' = (calls \ {c}) \cup {[c EXCEPT !.stage = stage]}

\* pg_advisory_xact_lock: one import of the company at a time.
Locked == \E c \in calls : c.stage \in {"empty", "counted"}

\* fault: the check without the lock.
ChecksUnlocked(c) ==
    /\ c.stage = "sent"
    /\ \/ c.request \in {i.request : i \in imports}
          /\ Moves(c, IF [request |-> c.request, payload |-> c.payload] \in imports
                      THEN "done" ELSE "DUPLICATE_KEY")
       \/ c.request \notin {i.request : i \in imports}
          /\ Moves(c, IF cloud = {} THEN "empty" ELSE "DUPLICATE_KEY")
    /\ UNCHANGED <<local, tab, shows, stored, cloud, imports, counters, held, delivered>>

\* A request already served answers as it did; otherwise nothing may be there.
ImportChecks(c) ==
    /\ c.stage = "sent" /\ ~Locked
    /\ \/ c.request \in {i.request : i \in imports}
          /\ Moves(c, IF [request |-> c.request, payload |-> c.payload] \in imports
                      THEN "done" ELSE "DUPLICATE_KEY")
       \/ c.request \notin {i.request : i \in imports}
          /\ Moves(c, IF cloud = {} THEN "empty" ELSE "DUPLICATE_KEY")
    /\ UNCHANGED <<local, tab, shows, stored, cloud, imports, counters, held, delivered>>

\* The role was taken meanwhile.
ImportForbidden(c) ==
    /\ c.stage = "sent"
    /\ Moves(c, "FORBIDDEN")
    /\ Faulty
    /\ UNCHANGED <<local, tab, shows, stored, cloud, imports, scene, begun, writes, held,
                   delivered>>

\* The rows are inserted, and all of the company's rows counted again: those of
\* a colleague who saved meanwhile are too many, or meet the unique index.
ImportCounts(c) ==
    /\ c.stage = "empty"
    /\ Moves(c, IF cloud = {} THEN "counted"
                ELSE IF \E r \in cloud, p \in c.payload.rows : {r.id, p.id} \in SameSku
                THEN "DUPLICATE_KEY" ELSE "RECORD_INVALID")
    /\ UNCHANGED <<local, tab, shows, stored, cloud, imports, counters, held, delivered>>

ImportCommits(c) ==
    /\ c.stage = "counted"
    /\ cloud' = cloud \cup c.payload.rows
    /\ held' = held \cup cloud'
    /\ imports' = imports \cup {[request |-> c.request, payload |-> c.payload]}
    /\ Moves(c, "done")
    /\ UNCHANGED <<local, tab, shows, stored, counters, delivered>>

Answered(t, answers) ==
    At(t, "await") /\ \E c \in calls : c.n = tab[t].call /\ c.stage \in answers

ImportAnswered(t) ==
    /\ Answered(t, {"done"})
    /\ Compares(t, "verify")
    /\ UNCHANGED <<local, shows, stored, server, counters, held, delivered>>

\* DUPLICATE_KEY means the target stopped being empty.
ImportRefused(t) ==
    /\ Answered(t, {"DUPLICATE_KEY"})
    /\ Compares(t, "again")
    /\ UNCHANGED <<local, shows, stored, server, counters, held, delivered>>

-----------------------------------------------------------------------------
(* The end of it: the local copy goes, then the device is marked.          *)

\* confirmAuthority() has just said yes; the action's connection is closed.
Retires(t) == At(t, "retire") /\ Served(t)

Delete(t) ==
    /\ Retires(t)
    /\ Unblocked(t, "none")
    /\ disk' = Removed(DeviceOf(t))
    /\ Goes(t, "gone")
    /\ UNCHANGED <<strays, pending, shows, stored, server, counters, held, delivered>>

\* deleteDatabase() resolves when it is blocked, and the deletion waits.
DeleteBlocked(t) ==
    /\ Retires(t)
    /\ Blocked(t, [kind |-> "delete", tab |-> t, task |-> tab[t].task, unsure |-> tab[t].unsure])
    /\ Goes(t, "gone")
    /\ UNCHANGED <<disk, strays, shows, stored, server, counters, held, delivered>>

\* fault: that the deletion was asked for is enough.
TakesItForGone(t) ==
    /\ At(t, "gone")
    /\ Goes(t, "mark")
    /\ UNCHANGED <<local, shows, stored, server, counters, held, delivered>>

\* confirmDatabaseRetired(); LOCAL_DATABASE_STILL_OPEN is one of the failures.
ConfirmRetired(t) ==
    /\ At(t, "gone")
    /\ MyDisk(t) = None
    /\ Goes(t, "mark")
    /\ UNCHANGED <<local, shows, stored, server, counters, held, delivered>>

Resolution(task) ==
    CASE task = "migrate" -> "VERIFIED_IN_CLOUD"
      [] task = "empty" -> "EMPTY_DATABASE"
      [] task = "retire" -> "RETIRED_WITH_BACKUP"

MarkComplete(t) ==
    /\ At(t, "mark")
    /\ marker' = [marker EXCEPT ![DeviceOf(t)] =
                    [resolution |-> Resolution(tab[t].task), checksum |-> tab[t].data]]
    /\ attempt' = [attempt EXCEPT ![DeviceOf(t)] = None]
    /\ Becomes(t, Idle)
    /\ Shows(t, "ready")
    /\ UNCHANGED <<local, server, counters, held, delivered>>

Fails(t) ==
    /\ FailsWith(t)
    /\ Connects(t, "none")
    /\ UNCHANGED <<disk, strays, pending, stored, server, scene, begun, writes, held, delivered>>

\* What cannot go on: another tab's request has closed the connection, another
\* tab has upgraded, the import is refused, LOCAL_DATABASE_STILL_OPEN.
Throws(t) ==
    /\ \/ tab[t].pc \in {"keep", "read", "snapshot", "export"} /\ ~Usable(t)
       \/ At(t, "openOld") /\ Served(t) /\ MyDisk(t) # None /\ MyDisk(t).version # "old"
       \/ Answered(t, {"RECORD_INVALID", "FORBIDDEN"})
       \/ At(t, "gone") /\ MyDisk(t) # None
    /\ Fails(t)
    /\ UNCHANGED faults

\* Any step may fail: a storage or network error, an answer that never comes, a
\* backup not delivered, a session or a role that has changed meanwhile.
MayFail(t) == ~At(t, "idle") /\ Fails(t) /\ Faulty

\* The page goes, with its connections; what it asked the server goes on.
Leave(t) ==
    /\ ~At(t, "idle") \/ t \in strays
    /\ Faulty
    /\ Becomes(t, Idle)
    /\ Shows(t, "closed")
    /\ Connects(t, "none")
    /\ strays' = strays \ {t}
    /\ LET mine == pending[DeviceOf(t)]
           drops == mine # None /\ mine.tab = t
       IN  \/ drops /\ pending' = [pending EXCEPT ![DeviceOf(t)] = None]
           \/ (drops => mine.kind = "delete") /\ UNCHANGED pending
    /\ UNCHANGED <<disk, stored, server, scene, begun, writes, held, delivered>>

-----------------------------------------------------------------------------
(* A colleague saves, in the cloud, a new record or a changed one.         *)

\* fault: the changed row is added to the one it replaces.
Appended(r) == cloud \cup {r}

Saved(r) == {c \in cloud : c.id # r.id} \cup {r}

Colleague ==
    /\ writes < Part.writes
    /\ writes' = writes + 1
    /\ \E r \in Row :
         /\ \/ FoundById(r, cloud)
            \/ /\ r.id \in Part.others
               /\ \A c \in cloud : {r.id, c.id} \notin SameSku
               \* The unique index waits for a transaction that has its row.
               /\ \A c \in calls : c.stage = "counted" =>
                    \A p \in c.payload.rows : {r.id, p.id} \notin SameSku
         /\ cloud' = Saved(r)
    /\ held' = held \cup cloud'
    /\ UNCHANGED <<local, tab, shows, stored, calls, imports, scene, begun, faults, delivered>>

Step(t) ==
    \/ ReadVersion(t) \/ OpenOld(t) \/ KeepBeforeUpgrade(t) \/ Open(t) \/ Upgrade(t)
    \/ UpgradeBlocked(t) \/ Read(t) \/ PreImportSnapshot(t) \/ Export(t) \/ ReadList(t)
    \/ Proven(t) \/ ProvenAgain(t) \/ NotProven(t) \/ Import(t) \/ ImportAnswered(t)
    \/ ImportRefused(t) \/ Delete(t) \/ DeleteBlocked(t) \/ ConfirmRetired(t)
    \/ MarkComplete(t) \/ Throws(t)

ServerStep == \E c \in calls : ImportChecks(c) \/ ImportCounts(c) \/ ImportCommits(c)

Next ==
    \/ \E t \in Tabs : Boot(t) \/ Migrate(t) \/ RetireLocal(t) \/ Step(t) \/ MayFail(t) \/ Leave(t)
    \/ \E d \in Devices : PendingRuns(d)
    \/ ServerStep \/ \E c \in calls : ImportForbidden(c)
    \/ Colleague

\* The promises of an action settle, the browser serves its requests, and the
\* server ends its transactions.
Fairness ==
    /\ \A t \in Tabs : WF_vars(Step(t))
    /\ \A d \in Devices : WF_vars(PendingRuns(d))
    /\ WF_vars(ServerStep)

Spec == Init /\ [][Next]_vars /\ Fairness

-----------------------------------------------------------------------------
(* What the move promises.                                                 *)

Pcs == {"idle", "version", "openOld", "keep", "open", "read", "snapshot", "export", "compare",
        "again", "verify", "await", "retire", "gone", "mark"}
Actions ==
    [pc : Pcs, task : Tasks, unsure : BOOLEAN, data : Contents, seen : SUBSET Row,
     unread : SUBSET Lists, call : Nat]
Stages == {"sent", "empty", "counted", "done", "DUPLICATE_KEY", "RECORD_INVALID", "FORBIDDEN"}

CutoverTypeOK ==
    /\ scene \in DOMAIN Scenes
    /\ disk \in [Devices -> Disks \cup {None}]
    /\ conn \in [Tabs -> {"none", "open", "closing"}]
    /\ strays \subseteq Tabs
    /\ pending \in [Devices -> Waiting \cup {None}]
    /\ tab \in [Tabs -> Actions]
    /\ shows \in [Tabs -> {"closed", "inspecting", "required", "ready", "failed",
                           "inspection failed"}]
    /\ marker \in [Devices -> Marks \cup {None}]
    /\ attempt \in [Devices -> Attempts \cup {None}]
    /\ cloud \subseteq Row /\ held \subseteq Row
    /\ calls \subseteq [n : Nat, request : Nat, payload : Contents, stage : Stages]
    /\ IsFiniteSet(calls)
    /\ imports \subseteq [request : Nat, payload : Contents]
    /\ delivered \in [Devices -> SUBSET Contents]

\* Why a database goes in this step.
GoesFor(d, task) ==
    /\ disk[d] # None /\ disk'[d] = None
    /\ \/ pending[d] # None /\ pending[d].task = task
       \/ \E t \in Tabs : /\ DeviceOf(t) = d /\ tab[t].task = task
                         /\ At(t, "retire") /\ tab'[t].pc = "gone"

\* "The local database is retired only when EVERY legacy record is PRESENT": as
\* verified when each row it holds at that moment was in the cloud in that form,
\* by decision when just that is in a delivered file, and as empty when it is,
\* also when the deletion was blocked and ran later.  (By decision an empty one
\* goes too: another tab opened the database again after a third retired it.)
RetiresOnlyWhatIsKept ==
    [][\A d \in Devices :
         /\ GoesFor(d, "migrate") => disk[d].data.rows \subseteq held
         /\ GoesFor(d, "retire") => IsEmpty(disk[d].data) \/ disk[d].data \in delivered[d]
         /\ GoesFor(d, "empty") => IsEmpty(disk[d].data)]_vars

\* A device marked as moved, which is never inspected again, keeps no record
\* behind: also when a deletion was blocked or another tab opened it again.
MarkedDevicesHoldNothing ==
    \A d \in Devices : marker[d] # None /\ disk[d] # None => IsEmpty(disk[d].data)

\* The company's catalogue is imported once, whatever devices try, retry after a
\* lost answer, or ask again while the first request still runs.
ImportedOnce == \A i, j \in imports : i = j

\* An action ends, whatever it waits for, unless a connection that nobody owns
\* holds the database.
EveryActionEnds ==
    \A t \in Tabs : ~At(t, "idle") ~> (At(t, "idle") \/ strays # {})

\* Whether who upgrades in this step had been told the version it opened.
KnewTheVersion(d) ==
    IF pending[d] # None THEN ~pending[d].unsure
    ELSE \E t \in Tabs : /\ DeviceOf(t) = d /\ ~tab[t].unsure
                        /\ At(t, "open") /\ tab'[t].pc = "read"

\* "An old one must be snapshotted before its upgrade": the records an upgrade
\* rewrites are in a snapshot of the database, whichever tab upgrades and when,
\* unless the tab was not told the version.
UpgradeIsProtected ==
    [][\A d \in Devices :
         (/\ disk[d] # None /\ disk[d].version = "old" /\ ~IsEmpty(disk[d].data)
          /\ disk'[d] # None /\ disk'[d].version = "current"
          /\ KnewTheVersion(d))
           => [kind |-> "PRE_MIGRATION", data |-> disk[d].data] \in disk[d].snapshots]_vars
=============================================================================
