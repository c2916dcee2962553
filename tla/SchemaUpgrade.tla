---------------------------- MODULE SchemaUpgrade ----------------------------
(***************************************************************************)
(* Opening the device's database (persistence/database.ts) from pages whose *)
(* builds declare different versions of its schema, and the version-change  *)
(* transaction in which a build creates what its schema declares, stamps    *)
(* the meta record and runs the numbered migrations over the stored records *)
(* (persistence/migrations.ts), one IndexedDB request at a time.            *)
(*                                                                          *)
(* A record is abstracted to the version of the schema it was written in    *)
(* and the migrations that have rewritten it since.                         *)
(***************************************************************************)
EXTENDS FiniteSets, FiniteSetsExt, Integers

CONSTANTS
    Pages,
    BuildOf,        \* the schema version each page's build declares
    Latest,         \* the newest of the released versions
    Keys, StoreOf,  \* the keys of the records and the store each is in
    Indexes,
    Declared,       \* STORE_DEFINITIONS: the indexes each version declares
    Rewrites,       \* the stores each migration rewrites
    Drops,          \* the indexes each migration deletes
    Missing,        \* no database, no record, no transaction
    MaxOpenings, MaxFailures

VARIABLES
    stored,      \* the committed database
    upgrade,     \* the request at work that opens a newer version
    connection,  \* the connection each page holds
    strays,      \* the pages with a connection whose opening was given up
    page,        \* where each page's opening is, or how it ended
    openings, failures

upgradeVars == <<stored, upgrade, connection, strays, page, openings, failures>>

Versions == 1 .. Latest

Steps == 2 .. Latest

ASSUME UpgradeAssumption ==
    /\ Latest \in Nat \ {0}
    /\ BuildOf \in [Pages -> Versions]
    /\ Declared \in [Versions -> SUBSET Indexes]
    /\ Drops \in [Steps -> SUBSET Indexes]
    /\ Rewrites \in [Steps -> SUBSET {StoreOf[k] : k \in Keys}]

\* A released migration is frozen, and what a version no longer declares its
\* migration deletes.
ASSUME DropsAssumption ==
    \A v \in Steps :
        /\ Declared[v - 1] \ Declared[v] \subseteq Drops[v]
        /\ \A later \in v .. Latest : Drops[v] \cap Declared[later] = {}

WrittenAt(version) == [born |-> version, steps |-> {}, inOrder |-> TRUE]

\* transform(record) of a migration.
Transformed(record, step) ==
    [born |-> record.born, steps |-> record.steps \cup {step},
     inOrder |-> record.inOrder /\ \A earlier \in record.steps : earlier < step]

Records == [born : Versions, steps : SUBSET Steps, inOrder : BOOLEAN]
Metas == [schemaVersion : Versions, installId : Nat]
Databases ==
    [version : Versions, meta : Metas, indexes : SUBSET Indexes,
     records : [Keys -> Records \cup {Missing}]]
CursorTypes ==
    [step : Steps, store : {StoreOf[k] : k \in Keys}, left : SUBSET Keys,
     key : Keys \cup {Missing}, value : Records \cup {Missing}]
Upgrades ==
    [page : Pages, abandoned : BOOLEAN, running : BOOLEAN, level : 0 .. Latest,
     records : [Keys -> Records \cup {Missing}], indexes : SUBSET Indexes,
     cursors : SUBSET CursorTypes, stamp : {"get", "put", "done"}, meta : Metas \cup {Missing}]

Places == {"closed", "queued", "upgrading", "checking", "open"}
OpenErrors == {"SCHEMA_VERSION_TOO_NEW", "DATABASE_OPEN_FAILED", "DATABASE_UPGRADE_BLOCKED",
            "MIGRATION_FAILED", "SCHEMA_METADATA_INVALID", "TRANSACTION_ABORTED"}
PageTypes == [pc : Places, answer : OpenErrors \cup {"none"}]

ASSUME MissingIsNothing ==
    /\ Missing \notin Keys /\ Missing \notin Records /\ Missing \notin Metas
    /\ Missing \notin Databases /\ Missing \notin Upgrades

NoRecords == [k \in Keys |-> Missing]

KeysIn(records, store) == {k \in Keys : StoreOf[k] = store /\ records[k] # Missing}

DatabaseAt(version, records) ==
    [version |-> version, meta |-> [schemaVersion |-> version, installId |-> 0],
     indexes |-> Declared[version], records |-> records]

SchemaInit ==
    /\ stored \in {Missing} \cup
         {DatabaseAt(1, records) : records \in [Keys -> {Missing, WrittenAt(1)}]}
    /\ upgrade = Missing
    /\ connection = [p \in Pages |-> "none"]
    /\ strays = {}
    /\ page = [p \in Pages |-> [pc |-> "closed", answer |-> "none"]]
    /\ openings = 0 /\ failures = 0

-----------------------------------------------------------------------------
(* openDatabase() up to the request.                                       *)

On(p, pc) == page[p].pc = pc

PageGoes(p, pc) == page' = [page EXCEPT ![p].pc = pc]

Answers(p, answer) == page' = [page EXCEPT ![p] = [pc |-> "closed", answer |-> answer]]

Breaks == failures < MaxFailures /\ failures' = failures + 1

IsNewer(p) == stored # Missing /\ stored.version > BuildOf[p]

\* assertNotNewerThanSupported(): where the databases can be enumerated.
OpenDatabase(p) ==
    /\ On(p, "closed") /\ openings < MaxOpenings
    /\ openings' = openings + 1
    /\ \/ IsNewer(p) /\ Answers(p, "SCHEMA_VERSION_TOO_NEW")
       \/ PageGoes(p, "queued")
    /\ UNCHANGED <<stored, upgrade, connection, strays, failures>>

\* The requests on a database are processed one after another.
IsServed(p) == On(p, "queued") /\ upgrade = Missing

\* VersionError
OpenNewer(p) ==
    /\ IsServed(p) /\ IsNewer(p)
    /\ Answers(p, "SCHEMA_VERSION_TOO_NEW")
    /\ UNCHANGED <<stored, upgrade, connection, strays, openings, failures>>

OpenFails(p) ==
    /\ IsServed(p) /\ Breaks
    /\ Answers(p, "DATABASE_OPEN_FAILED")
    /\ UNCHANGED <<stored, upgrade, connection, strays, openings>>

OpenCurrent(p) ==
    /\ IsServed(p) /\ stored # Missing /\ stored.version = BuildOf[p]
    /\ connection' = [connection EXCEPT ![p] = "open"]
    /\ PageGoes(p, "checking")
    /\ UNCHANGED <<stored, upgrade, strays, openings, failures>>

NeedsUpgrade(p) == IsServed(p) /\ (stored # Missing => stored.version < BuildOf[p])

Asked(p, abandoned) ==
    [page |-> p, abandoned |-> abandoned, running |-> FALSE, level |-> 0,
     records |-> NoRecords, indexes |-> {}, cursors |-> {}, stamp |-> "get",
     meta |-> Missing]

\* onversionchange closes the other connections, those in a transaction when it
\* has ended.  A request that is blocked is given up, and stays.
RequestUpgrade(p) ==
    /\ NeedsUpgrade(p)
    /\ \E busy \in SUBSET {q \in Pages : connection[q] # "none"} :
         /\ connection' = [q \in Pages |-> IF q \in busy THEN "closing" ELSE "none"]
         /\ LET blocked == busy # {} \/ strays # {}
            IN  /\ upgrade' = Asked(p, blocked)
                /\ IF blocked THEN Answers(p, "DATABASE_UPGRADE_BLOCKED")
                   ELSE PageGoes(p, "upgrading")
    /\ UNCHANGED <<stored, strays, openings, failures>>

FinishClosing(p) ==
    /\ connection[p] = "closing"
    /\ connection' = [connection EXCEPT ![p] = "none"]
    /\ UNCHANGED <<stored, upgrade, strays, page, openings, failures>>

-----------------------------------------------------------------------------
(* onupgradeneeded: the stores, the meta record, the migrations.           *)

OldVersion == IF stored = Missing THEN 0 ELSE stored.version
NewVersion == BuildOf[upgrade.page]

IndexesThere == IF stored = Missing THEN {} ELSE stored.indexes

\* fault: the stores are created anew.
CreatesEveryStore == NoRecords

\* Stores that exist are kept; the indexes they lack are created.
RecordsThere == IF stored = Missing THEN NoRecords ELSE stored.records
CreateMissingStores == IndexesThere \cup Declared[NewVersion]

SelectMigrations(oldVersion, newVersion) == {s \in Steps : oldVersion < s /\ s <= newVersion}

\* rewriteStore(): a cursor over the records of a store.
Cursor(records, step, store) ==
    [step |-> step, store |-> store, left |-> KeysIn(records, store), key |-> Missing,
     value |-> Missing]

Cursors(records, step) == {Cursor(records, step, store) : store \in Rewrites[step]}

\* fault: the next migration starts when migrate() has returned.
RunStepsAtOnce(u, done) ==
    [u EXCEPT !.level = NewVersion,
              !.indexes = @ \ UNION {Drops[s] : s \in SelectMigrations(done, NewVersion)},
              !.cursors = UNION {Cursors(u.records, s) : s \in SelectMigrations(done, NewVersion)}]

\* runStep(): migrations that issue no request are over at once; the first that
\* does goes on in the callbacks of its requests.
RunSteps(u, done) ==
    LET due == {s \in SelectMigrations(done, NewVersion) : Rewrites[s] # {}}
        last == IF due = {} THEN NewVersion ELSE Min(due)
    IN  [u EXCEPT !.level = last,
                  !.indexes = @ \ UNION {Drops[s] : s \in SelectMigrations(done, last)},
                  !.cursors = IF due = {} THEN {} ELSE Cursors(u.records, last)]

IsRunning == upgrade # Missing /\ upgrade.running

\* The transaction begins when every connection is closed; a new database has
\* nothing to migrate.
StartUpgrade ==
    /\ upgrade # Missing /\ ~upgrade.running
    /\ strays = {} /\ \A p \in Pages : connection[p] = "none"
    /\ LET begun == [upgrade EXCEPT !.running = TRUE, !.level = NewVersion,
                                    !.records = RecordsThere,
                                    !.indexes = CreateMissingStores]
       IN  upgrade' = IF OldVersion > 0 THEN RunSteps(begun, OldVersion) ELSE begun
    /\ UNCHANGED <<stored, connection, strays, page, openings, failures>>

\* stampMeta(): the installation keeps its id.
StampMeta ==
    /\ IsRunning /\ upgrade.stamp # "done"
    /\ upgrade' =
         IF upgrade.stamp = "get" THEN [upgrade EXCEPT !.stamp = "put"]
         ELSE [upgrade EXCEPT
                 !.stamp = "done",
                 !.meta = [schemaVersion |-> NewVersion,
                           installId |-> IF stored = Missing THEN openings
                                         ELSE stored.meta.installId]]
    /\ UNCHANGED <<stored, connection, strays, page, openings, failures>>

Moved(cursor, new) == (upgrade.cursors \ {cursor}) \cup {new}

\* The cursor's callback: it asks for the write and for the next record.
CursorReads(c, k) ==
    /\ c.key = Missing /\ k \in c.left
    /\ upgrade' = [upgrade EXCEPT
                     !.cursors = Moved(c, [c EXCEPT !.left = @ \ {k}, !.key = k,
                                           !.value = Transformed(upgrade.records[k], c.step)])]
    /\ UNCHANGED <<stored, connection, strays, page, openings, failures>>

CursorWrites(c) ==
    /\ c.key # Missing
    /\ upgrade' = [upgrade EXCEPT
                     !.records[c.key] = c.value,
                     !.cursors = Moved(c, [c EXCEPT !.key = Missing, !.value = Missing])]
    /\ UNCHANGED <<stored, connection, strays, page, openings, failures>>

\* The step is applied when the last of its requests has ended.
CursorEnds(c) ==
    /\ c.key = Missing /\ c.left = {}
    /\ LET rest == [upgrade EXCEPT !.cursors = @ \ {c}]
       IN  upgrade' = IF rest.cursors = {} THEN RunSteps(rest, c.step) ELSE rest
    /\ UNCHANGED <<stored, connection, strays, page, openings, failures>>

\* The transaction commits when no request is outstanding.
CommitUpgrade ==
    /\ IsRunning /\ upgrade.stamp = "done" /\ upgrade.cursors = {}
    /\ LET p == upgrade.page
       IN  /\ stored' = [version |-> NewVersion, meta |-> upgrade.meta,
                         indexes |-> upgrade.indexes, records |-> upgrade.records]
           /\ IF upgrade.abandoned
              THEN strays' = strays \cup {p} /\ UNCHANGED <<connection, page>>
              ELSE /\ connection' = [connection EXCEPT ![p] = "open"]
                   /\ PageGoes(p, "checking")
                   /\ UNCHANGED strays
    /\ upgrade' = Missing
    /\ UNCHANGED <<openings, failures>>

\* A store cannot be created, a transform throws or its cursor fails; a write or
\* the commit fails, which is no migration's failure.
AbortUpgrade(answer) ==
    /\ IsRunning /\ Breaks
    /\ answer = "MIGRATION_FAILED" => upgrade.cursors # {} \/ upgrade.stamp = "get"
    /\ IF upgrade.abandoned THEN UNCHANGED page ELSE Answers(upgrade.page, answer)
    /\ upgrade' = Missing
    /\ UNCHANGED <<stored, connection, strays, openings>>

-----------------------------------------------------------------------------
(* The connection is checked, used and lost.                               *)

\* assertSchemaVersionConsistency()
IsConsistent(p) ==
    stored.meta.schemaVersion = BuildOf[p] /\ stored.version = BuildOf[p]

CheckMeta(p) ==
    /\ On(p, "checking")
    /\ \/ /\ connection[p] = "open" /\ IsConsistent(p)
          /\ PageGoes(p, "open") /\ UNCHANGED <<connection, failures>>
       \/ /\ connection[p] = "open" /\ ~IsConsistent(p)
          /\ Answers(p, "SCHEMA_METADATA_INVALID")
          /\ connection' = [connection EXCEPT ![p] = "none"] /\ UNCHANGED failures
       \/ /\ connection[p] # "open"
          /\ Answers(p, "TRANSACTION_ABORTED") /\ UNCHANGED <<connection, failures>>
       \/ /\ Breaks /\ Answers(p, "TRANSACTION_ABORTED")
          /\ connection' = [connection EXCEPT ![p] = "none"]
    /\ UNCHANGED <<stored, upgrade, strays, openings>>

\* A transaction of the page's: a record in the shape of its build.
WriteRecord(p, k) ==
    /\ On(p, "open") /\ connection[p] # "none"
    /\ stored' = [stored EXCEPT !.records[k] = WrittenAt(BuildOf[p])]
    /\ UNCHANGED <<upgrade, connection, strays, page, openings, failures>>

\* The page goes, with its connections, its request and its transaction.
Unload(p) ==
    /\ ~On(p, "closed") \/ p \in strays \/ (upgrade # Missing /\ upgrade.page = p)
    /\ PageGoes(p, "closed")
    /\ connection' = [connection EXCEPT ![p] = "none"]
    /\ strays' = strays \ {p}
    /\ upgrade' = IF upgrade # Missing /\ upgrade.page = p THEN Missing ELSE upgrade
    /\ UNCHANGED <<stored, openings, failures>>

Request ==
    \/ StartUpgrade \/ StampMeta \/ CommitUpgrade
    \/ \E answer \in {"MIGRATION_FAILED", "DATABASE_OPEN_FAILED"} : AbortUpgrade(answer)
    \/ IsRunning /\ \E c \in upgrade.cursors :
         CursorWrites(c) \/ CursorEnds(c) \/ \E k \in Keys : CursorReads(c, k)

SchemaNext ==
    \/ \E p \in Pages :
         \/ OpenDatabase(p) \/ OpenNewer(p) \/ OpenFails(p) \/ OpenCurrent(p)
         \/ RequestUpgrade(p) \/ FinishClosing(p) \/ CheckMeta(p) \/ Unload(p)
         \/ \E k \in Keys : WriteRecord(p, k)
    \/ Request

SchemaSpec == SchemaInit /\ [][SchemaNext]_upgradeVars

-----------------------------------------------------------------------------
(* What opening promises.                                                  *)

UpgradeTypeOK ==
    /\ stored \in Databases \cup {Missing}
    /\ upgrade \in Upgrades \cup {Missing}
    /\ connection \in [Pages -> {"none", "open", "closing"}]
    /\ strays \subseteq Pages
    /\ page \in [Pages -> PageTypes]
    /\ openings \in Nat /\ failures \in Nat

\* A record of a database at a version has been rewritten by each migration
\* from the version it was written in, once and in their order.
HasShape(k, record, version) ==
    record # Missing =>
        /\ record.born <= version /\ record.inOrder
        /\ record.steps = {s \in Steps : /\ record.born < s /\ s <= version
                                         /\ StoreOf[k] \in Rewrites[s]}

\* Whatever builds open, write, block one another, fail and go away, the
\* database says of itself what it is: every record went through every step
\* from the version it was written in, meta names the version, the indexes are
\* those this version declares, and a page that can write is of that version.
DatabaseIsOfItsVersion ==
    /\ stored # Missing =>
         /\ stored.meta.schemaVersion = stored.version
         /\ stored.indexes = Declared[stored.version]
         /\ \A k \in Keys : HasShape(k, stored.records[k], stored.version)
    /\ \A p \in Pages : connection[p] # "none" =>
         stored # Missing /\ stored.version = BuildOf[p]

\* Opening loses nothing and goes back nowhere: a committed upgrade keeps every
\* record and the installation's id, and a failed one leaves all as it was.
OpeningLosesNothing ==
    [][stored # Missing =>
         /\ stored' # Missing /\ stored.version <= stored'.version
         /\ stored'.meta.installId = stored.meta.installId
         /\ \A k \in Keys : stored.records[k] # Missing =>
              /\ stored'.records[k] # Missing
              /\ stored'.version # stored.version =>
                   /\ stored'.records[k].born = stored.records[k].born
                   /\ stored.records[k].steps \subseteq stored'.records[k].steps]_upgradeVars
=============================================================================
