----------------------------- MODULE BackupFile -----------------------------
(***************************************************************************)
(* What the local database writes into a backup and reads out of one       *)
(* (backup/businessData.ts, envelope.ts, payloadMigrations.ts), and what a *)
(* restore refuses, in its order (backup/restore.ts, snapshots.ts).        *)
(*                                                                         *)
(* The records are those of ProjectEditing, each with a key, a value,      *)
(* whether a field of it is there and undefined, and whether its parser    *)
(* accepts it.  A payload is its own digest.                               *)
(***************************************************************************)
EXTENDS ProjectEditing, Refusals, SequencesExt

CONSTANTS
    SchemaVersion,   \* of this build
    MaxBytes,        \* MAX_BACKUP_BYTES
    MaxPerStore,     \* MAX_RECORDS_PER_STORE
    MaxInAll         \* MAX_TOTAL_RECORDS

ASSUME LimitsAssumption ==
    /\ SchemaVersion \in {2, 3}
    /\ MaxBytes \in Nat
    /\ MaxPerStore \in Nat \ {0}
    /\ MaxInAll \in Nat \ {0, 1}

\* The business stores in their order.  The last stands for those that hold no
\* record yet, and whose records this build cannot prove.
Stores == <<"suppliers", "projects", "purchaseOrders">>
StoreNames == ToSet(Stores)
Provable == {"suppliers", "projects"}

Record(key, value, undefined) ==
    [key |-> key, value |-> value, undefined |-> undefined, sound |-> TRUE]

-----------------------------------------------------------------------------
(* Writing.                                                                *)

\* getAll() of every store in one transaction.  A supplier without a note that
\* was read and saved has the note, undefined.
StoredRecords(content) == [
    suppliers |-> IF content.supplier THEN <<Record("supplier", None, TRUE)>> ELSE <<>>,
    projects |-> IF content.project = None THEN <<>>
                 ELSE <<Record("project", content.project, FALSE)>>,
    purchaseOrders |-> <<>>]

AsItIsStored(record) == record                      \* fault: the key stays
Normalised(record) == [record EXCEPT !.undefined = FALSE]

ReadBusinessData(content) ==
    LET stored == StoredRecords(content) IN
    [s \in StoreNames |-> [i \in DOMAIN stored[s] |-> Normalised(stored[s][i])]]

CountEntities(data) == [s \in StoreNames |-> Len(data[s])]

\* canonicalize() has no form for an undefined field and throws.
HasCanonicalForm(data) ==
    \A s \in StoreNames : \A i \in DOMAIN data[s] : ~data[s][i].undefined

BuildBackupEnvelope(data) ==
    [bytes |-> MaxBytes, text |-> "JSON", magic |-> TRUE, keysKnown |-> TRUE,
     formatVersion |-> 1, schemaVersion |-> SchemaVersion, provenance |-> TRUE,
     counts |-> CountEntities(data), integrity |-> [form |-> TRUE, value |-> data],
     data |-> data]

FileOf(content) == BuildBackupEnvelope(ReadBusinessData(content))

-----------------------------------------------------------------------------
(* Reading.                                                                *)

\* What the text of a file turns out to be.
Texts == {"JSON", "BACKUP_TOO_DEEP", "BACKUP_MALFORMED_JSON", "BACKUP_FORBIDDEN_KEY"}

\* The size is asked before the text is read, and the nesting before it is
\* parsed; text names what is found.
TextTests(file) == <<
    Test(file.bytes <= MaxBytes, "BACKUP_TOO_LARGE"),
    Test(file.text = "JSON", file.text)>>

CountsHold(counts) ==
    DOMAIN counts = StoreNames /\ \A s \in StoreNames : counts[s] >= 0

\* The algorithm and the scope are the ones there are, and the value has the
\* form of a digest.
IntegrityHolds(integrity) == integrity.form

ListsEveryStore(data) == DOMAIN data = StoreNames

EnvelopeTests(file) == <<
    Test(file.magic, "BACKUP_NOT_RECOGNISED"),
    Test(file.keysKnown, "BACKUP_ENVELOPE_INVALID"),
    Test(file.formatVersion = 1, "BACKUP_FORMAT_UNSUPPORTED"),
    Test(file.schemaVersion >= 1 /\ file.provenance, "BACKUP_ENVELOPE_INVALID"),
    Test(CountsHold(file.counts), "BACKUP_ENVELOPE_INVALID"),
    Test(IntegrityHolds(file.integrity), "BACKUP_ENVELOPE_INVALID"),
    Test(ListsEveryStore(file.data), "BACKUP_ENVELOPE_INVALID")>>

VerifyBackupChecksum(file) == file.integrity.value = file.data

VerifyEntityCounts(file) == file.counts = CountEntities(file.data)

\* The steps released so far.  None changes a record, so a payload is migrated
\* by there being a step for every version between.
PayloadMigrations == {2, 3}
HasMigrationPath(from) == from + 1 .. SchemaVersion \subseteq PayloadMigrations

VersionTests(from) == <<
    Test(from <= SchemaVersion, "BACKUP_SCHEMA_TOO_NEW"),
    Test(HasMigrationPath(from), "BACKUP_SCHEMA_UNSUPPORTED")>>

RecordsUpTo(data, last) ==
    Cardinality(UNION {{n} \X DOMAIN data[Stores[n]] : n \in 1 .. last})

RecordsHold(records) ==
    /\ \A i \in DOMAIN records : records[i].sound
    /\ Cardinality({records[i].key : i \in DOMAIN records}) = Len(records)

StoreTests(data, n) ==
    LET records == data[Stores[n]] IN <<
        Test(Len(records) <= MaxPerStore, "BACKUP_TOO_LARGE"),
        Test(RecordsUpTo(data, n) <= MaxInAll, "BACKUP_TOO_LARGE"),
        Test(Stores[n] \in Provable \/ records = <<>>, "BACKUP_STORE_UNSUPPORTED"),
        Test(RecordsHold(records), "BACKUP_RECORD_INVALID")>>

ValidateBackupData(data) ==
    StoreTests(data, 1) \o StoreTests(data, 2) \o StoreTests(data, 3)

\* prepareRestore()
RefusalOfFile(file) ==
    LET envelope == FirstRefusal(TextTests(file) \o EnvelopeTests(file)) IN
    IF envelope # "NONE" THEN envelope
    ELSE FirstRefusal(
           <<Test(file.schemaVersion <= SchemaVersion, "BACKUP_SCHEMA_TOO_NEW"),
             Test(VerifyBackupChecksum(file), "BACKUP_CHECKSUM_MISMATCH"),
             Test(VerifyEntityCounts(file), "BACKUP_COUNT_MISMATCH")>>
           \o VersionTests(file.schemaVersion) \o ValidateBackupData(file.data))

\* readSnapshot() proves the payload before its version is looked at; and since
\* no step changes it, it holds afterwards.
RefusalOfSnapshot(payload, schemaVersion) ==
    FirstRefusal(ValidateBackupData(payload) \o VersionTests(schemaVersion))

\* What the records are once they are written back.
ContentOf(data) ==
    [project |-> IF data["projects"] = <<>> THEN None ELSE data["projects"][1].value,
     supplier |-> data["suppliers"] # <<>>]
=============================================================================
