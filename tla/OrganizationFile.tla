-------------------------- MODULE OrganizationFile --------------------------
(***************************************************************************)
(* The company's backup file: how it is built, and how its reader proves a *)
(* file complete and well formed or refuses it, test after test in a fixed *)
(* order.  The texts of a record are those of CatalogRules; an id is its   *)
(* place in the order of the ids, and 0 is what is no id.                  *)
(***************************************************************************)
EXTENDS CatalogRules, SequencesExt, Refusals

CONSTANTS
    RecordIds,          \* ids of records and of users, in their order
    MaxRecords          \* MAX_RECORDS_PER_STORE

ASSUME FileAssumption == RecordIds \subseteq Nat \ {0} /\ MaxRecords \in Nat

\* The sections, in the order the envelope lists them.
Sections == <<"customerStatuses", "customers", "members", "products", "suppliers">>
SectionNames == ToSet(Sections)

\* One record of any section.  keysKnown: it has no field of another name;
\* stamped: its instants are instants and its authors are ids.
RecordWith(id, organization, version, fields, reference) ==
    [keysKnown |-> TRUE, id |-> id, organization |-> organization, stamped |-> TRUE,
     version |-> version, fields |-> fields, reference |-> reference]

-----------------------------------------------------------------------------
(* Writing.                                                                *)

\* By id; two records of one id, which the reader refuses, in either order.
SortedById(records) ==
    CHOOSE f \in [1 .. Cardinality(records) -> records] :
        \A i, j \in DOMAIN f : i < j => f[i].id <= f[j].id /\ f[i] # f[j]

\* SHA-256 over the canonical form of the data, which is the same for the same
\* data: the digest of a value is taken to be the value.
Digest(data) == data

CountSections(data) == [s \in SectionNames |-> Len(data[s])]

BuildEnvelope(organization, read, exportedBy) ==
    LET data == [organization |-> organization,
                 section |-> [s \in SectionNames |-> SortedById(read[s])]]
    IN  [text |-> "OBJECT", magic |-> TRUE, formatVersion |-> 2, keysKnown |-> TRUE,
         kind |-> TRUE, schemaVersion |-> 1, provenance |-> TRUE,
         source |-> [organization |-> organization.id, exportedBy |-> exportedBy],
         counts |-> CountSections(data.section), integrity |-> Digest(data), data |-> data]

-----------------------------------------------------------------------------
(* Reading.                                                                *)

RequiredAudit(r, organization) ==
    /\ r.id # 0 /\ r.organization = organization
    /\ r.stamped /\ r.version >= 1

\* A member is not audited, names no organisation, and may have no name.
MemberHolds(r) ==
    /\ r.id # 0 /\ r.stamped /\ r.version >= 1
    /\ r.fields.identifier = Absent \/ ServerTrim(r.fields.identifier) # Empty

RecordHolds(section, r, organization) ==
    /\ r.keysKnown
    /\ IF section = "members" THEN MemberHolds(r)
       ELSE RequiredAudit(r, organization) /\ FileAccepts(r.fields)

NeverOutOfOrder(records) == TRUE                    \* fault: the order is not asked
InOrder(records) == \A i \in 1 .. Len(records) - 1 : records[i].id <= records[i + 1].id

SectionHolds(section, records, organization) ==
    /\ \A i \in 1 .. Len(records) : RecordHolds(section, records[i], organization)
    /\ Cardinality({records[i].id : i \in 1 .. Len(records)}) = Len(records)
    /\ InOrder(records)

OrganizationHolds(organization, id) ==
    /\ organization.id = id /\ organization.version >= 1
    /\ organization.keysKnown /\ ServerTrim(organization.name) # Empty

ReferencesHold(data) ==
    LET statuses == data["customerStatuses"] IN
    \A i \in 1 .. Len(data["customers"]) :
        \/ data["customers"][i].reference = Absent
        \/ \E j \in 1 .. Len(statuses) : statuses[j].id = data["customers"][i].reference

ParseCloudBackup(file) ==
    LET data == file.data.section
        Every(Holds(_)) == \A i \in DOMAIN Sections : Holds(Sections[i])
        Bounded(s) == Len(data[s]) <= MaxRecords
        Counted(s) == file.counts[s] = Len(data[s])
        Sound(s) == SectionHolds(s, data[s], file.source.organization)
    IN  FirstRefusal(<<
            Test(file.text = "OBJECT", file.text),
            Test(file.magic, "BACKUP_NOT_RECOGNISED"),
            Test(file.formatVersion = 2, "BACKUP_FORMAT_UNSUPPORTED"),
            Test(file.keysKnown /\ file.kind /\ file.schemaVersion >= 1,
                 "BACKUP_ENVELOPE_INVALID"),
            Test(file.schemaVersion <= 1, "BACKUP_SCHEMA_TOO_NEW"),
            Test(file.provenance, "BACKUP_ENVELOPE_INVALID"),
            Test(OrganizationHolds(file.data.organization, file.source.organization),
                 "BACKUP_ENVELOPE_INVALID"),
            Test(Every(Bounded), "BACKUP_TOO_LARGE"),
            Test(Every(Counted), "BACKUP_COUNT_MISMATCH"),
            Test(Digest(file.data) = file.integrity, "BACKUP_CHECKSUM_MISMATCH"),
            Test(Every(Sound) /\ ReferencesHold(data), "BACKUP_RECORD_INVALID")>>)
=============================================================================
