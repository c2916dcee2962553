------------------------- MODULE OrganizationExport -------------------------
(***************************************************************************)
(* exportOrganizationBackup from the screen's backup card, through the     *)
(* guarded gateway: the reads one after the other, the rechecks, and the   *)
(* file that is handed over only if it reads back.  Meanwhile colleagues   *)
(* write the catalogue, administrators write the memberships (each         *)
(* administration call is one such write: OrganizationAuthority), and      *)
(* other tabs sign in and out.  A list is answered as CompleteReads        *)
(* promises: the rows that could be seen at the instant of its count, or   *)
(* an error.                                                               *)
(***************************************************************************)
EXTENDS OrganizationFile, OrganizationScreen

CONSTANTS
    Accounts,           \* the users who sign in on the device
    Administered,       \* the users whose memberships are written meanwhile
    IdOf,               \* user -> the place of the user's id in the order
    InitialStores,      \* what the company may hold when it begins
    Creations,          \* the rows colleagues create meanwhile: section and id
    Details,            \* texts and numbers a stored row may hold
    MaxVersion,         \* bound: the versions of a membership
    MaxEdits            \* bound: the changes made to a file

ASSUME ExportAssumption ==
    /\ Person \in Accounts /\ Accounts \subseteq Users /\ IsFiniteSet(Users)
    /\ IdOf \in Injection(Users, RecordIds)
    /\ Administered \subseteq Users /\ MaxVersion \in Nat /\ MaxEdits \in Nat

VARIABLES
    stored,             \* section -> the rows of the company
    session,            \* whose session the tabs share; None is nobody's
    export,             \* how far the export has got, and what it has read
    file                \* the file in somebody's hands, and what its reader says

exportVars == <<stored, session, export, file>>

CatalogSections == SectionNames \ {"members"}

\* customers strictly before customer statuses
StatusesFirst == <<"products", "suppliers", "customerStatuses", "customers", "members">>
                                                    \* fault: in another order
ReadingOrder == <<"products", "suppliers", "customers", "customerStatuses", "members">>

TheOrganization ==
    [id |-> Company, version |-> 1, keysKnown |-> TRUE,
     name |-> [pad |-> "none", padLong |-> FALSE, body |-> "visible", long |-> FALSE]]

\* A row as the export copies it: field by field, an absent field left out.  Its
\* version, which only the forms compare, stays at the first.
StoredRow(id, fields, reference) == RecordWith(id, Company, 1, fields, reference)

\* The rows the tables can hold: every text and number as the constraints leave
\* it (CatalogRecords: what is stored can be exported), one row of an id, and
\* references to rows that are there.
StoredRows ==
    {StoredRow(id, fields, reference) :
        id \in RecordIds, fields \in Details, reference \in RecordIds \cup {Absent}}

IsReferred(reference, statuses) == reference = Absent \/ \E t \in statuses : t.id = reference

ASSUME StoresAssumption ==
    /\ \A fields \in Details : FileAccepts(fields)
    /\ InitialStores \subseteq [CatalogSections -> SUBSET StoredRows]
    /\ \A store \in InitialStores :
         /\ \A s \in CatalogSections :
              /\ IsFiniteSet(store[s])
              /\ \A q, r \in store[s] : q.id = r.id => q = r
         /\ \A c \in store["customers"] : IsReferred(c.reference, store["customerStatuses"])
    /\ Creations \subseteq CatalogSections \X RecordIds

\* The members manifest: one JSON value.
Manifest ==
    {RecordWith(IdOf[u], Absent, memberships[Company][u].version,
                [identifier |-> Absent], Absent) :
        u \in {v \in Users : IsMember(memberships, Company, v)}}

IsActive(u) == u \in Users /\ ActiveRole(memberships, Company, u) # "NONE"

\* The policies show a row of the company to its ACTIVE members.
Visible(s) == IF IsActive(session) THEN stored[s] ELSE {}

-----------------------------------------------------------------------------
(* The export.                                                             *)

NotExporting ==
    [pc |-> "idle", next |-> 1, read |-> [s \in SectionNames |-> {}],
     whole |-> SectionNames, away |-> {}, outcome |-> "NONE"]

NoFile == [verdict |-> "UNREAD", edits |-> 0, contents |-> {}]

ExportInit ==
    /\ stored \in InitialStores
    /\ session = Person
    /\ export = NotExporting
    /\ file = NoFile

Ends(what) == export' = [NotExporting EXCEPT !.pc = "done", !.outcome = what]
Goes(pc) == export' = [export EXCEPT !.pc = pc]
Untouched == UNCHANGED <<stored, session, file, organizationVars>>

\* gateway.currentUserId, then requireOrganization.
Export ==
    /\ export.pc = "idle"
    /\ IF session = None THEN Ends("SESSION_EXPIRED")
       ELSE export' = [export EXCEPT !.pc = "organization"]
    /\ Untouched

\* assertIdentity, on either side of every call of the guarded gateway.
Identified(pc) == IF session = Person THEN Goes(pc) ELSE Ends("SESSION_EXPIRED")

\* requireOrganization: the guard before, the read, the guard after.
RequireOrganization(before, read, after, next) ==
    /\ \/ export.pc = before /\ Identified(read)
       \/ /\ export.pc = read
          /\ IF IsActive(session) THEN Goes(after) ELSE Ends("NO_MEMBERSHIP")
       \/ export.pc = after /\ Identified(next)
    /\ Untouched

Section == ReadingOrder[export.next]

GuardBefore == export.pc = "section" /\ Identified("count") /\ Untouched

\* A catalogue list as CompleteReads answers it, at the instant of its count.
Count ==
    /\ export.pc = "count" /\ Section # "members"
    /\ \E rows \in {Visible(Section)} :
        export' = [export EXCEPT !.pc = IF rows = {} THEN "visible" ELSE "guard",
                                 !.read[Section] = rows,
                                 !.whole = IF rows = stored[Section] THEN @ ELSE @ \ {Section},
                                 !.away = IF IsActive(session) THEN @ ELSE @ \cup {Section}]
    /\ Untouched

\* assertStillMember, when the list is empty.
TrustsAnEmptyList(u) == TRUE                        \* fault: not asked
OrganizationVisible(u) == IsActive(u)

StillMember ==
    /\ export.pc = "visible"
    /\ IF OrganizationVisible(session)
       THEN export' = [export EXCEPT !.pc = "guard",
                                     !.away = IF IsActive(session) THEN @ ELSE @ \ {Section}]
       ELSE Ends("NO_MEMBERSHIP")
    /\ Untouched

\* list_organization_members refuses anybody but an ACTIVE OWNER or ADMIN.
ReadMembers ==
    /\ export.pc = "count" /\ Section = "members"
    /\ IF session \in Users /\ IsAdministrator(memberships, Company, session)
       THEN export' = [export EXCEPT !.pc = "guard", !.read["members"] = Manifest]
       ELSE Ends("FORBIDDEN")
    /\ Untouched

GuardAfter ==
    /\ export.pc = "guard"
    /\ IF session # Person THEN Ends("SESSION_EXPIRED")
       ELSE IF export.next = Len(ReadingOrder) THEN Goes("recheck")
       ELSE export' = [export EXCEPT !.pc = "section", !.next = @ + 1]
    /\ Untouched

\* Any request may fail.
ExportFails ==
    /\ export.pc \notin {"idle", "done"}
    /\ Ends("SERVER_UNAVAILABLE")
    /\ Untouched

\* The last look at the session; then the file is built and read back, and
\* only what reads back is downloaded.
HandOver ==
    /\ export.pc = "session"
    /\ IF session # Person THEN Ends("SESSION_EXPIRED") /\ UNCHANGED file
       ELSE \E built \in {BuildEnvelope(TheOrganization, export.read, IdOf[Person])} :
            \E verdict \in {ParseCloudBackup(built)} :
              /\ export' = [export EXCEPT !.pc = "done",
                                 !.outcome = IF verdict = "NONE" THEN "FILE" ELSE verdict]
              /\ file' = IF verdict = "NONE"
                         THEN [verdict |-> verdict, edits |-> 0, contents |-> {built}] ELSE file
    /\ UNCHANGED <<stored, session, organizationVars>>

ExportStep ==
    \/ RequireOrganization("organization", "readOnce", "guardOnce", "section")
    \/ GuardBefore \/ Count \/ StillMember \/ ReadMembers \/ GuardAfter
    \/ RequireOrganization("recheck", "readAgain", "guardAgain", "session")
    \/ ExportFails \/ HandOver

-----------------------------------------------------------------------------
(* The others.                                                             *)

NoFileYet == file.contents = {} /\ UNCHANGED <<export, file>>

\* A colleague creates a row, or gives a customer a status; rows are never
\* deleted.
Create(s, id, fields, reference) ==
    /\ \A row \in stored[s] : row.id # id
    /\ reference # Absent => s = "customers" /\ \E row \in stored["customerStatuses"] : row.id = reference
    /\ stored' = [stored EXCEPT ![s] = @ \cup {StoredRow(id, fields, reference)}]
    /\ NoFileYet /\ UNCHANGED <<session, organizationVars>>

Assign(customer, status) ==
    /\ \E row \in stored["customerStatuses"] : row.id = status
    /\ stored' = [stored EXCEPT !["customers"] =
                     (@ \ {customer}) \cup {[customer EXCEPT !.reference = status]}]
    /\ NoFileYet /\ UNCHANGED <<session, organizationVars>>

Administer ==
    /\ \E actor \in Users, subject \in Administered, role \in Roles, status \in Statuses :
        /\ memberships[Company][subject].version < MaxVersion
        /\ Authority!Write(Company, actor, subject, role, status)
    /\ NoFileYet /\ UNCHANGED <<stored, session, adminLock, administrationVars, screenVars>>

\* Another tab signs in or out.
ChangeSession(u) ==
    /\ session # u /\ session' = u
    /\ NoFileYet /\ UNCHANGED <<stored, organizationVars>>

Others ==
    \/ \E c \in Creations, fields \in Details, reference \in RecordIds \cup {Absent} :
          Create(c[1], c[2], fields, reference)
    \/ \E customer \in stored["customers"], status \in RecordIds : Assign(customer, status)
    \/ Administer
    \/ \E u \in Accounts \cup {None} : ChangeSession(u)

-----------------------------------------------------------------------------
(* What becomes of a file, and its reader.                                 *)

Spoilt(content) ==
    {[content EXCEPT !.text = t] :
        t \in {"BACKUP_TOO_LARGE", "BACKUP_TOO_DEEP", "BACKUP_FORBIDDEN_KEY",
               "BACKUP_MALFORMED_JSON", "BACKUP_ENVELOPE_INVALID"}}
    \cup {[content EXCEPT !.magic = FALSE], [content EXCEPT !.formatVersion = 1],
          [content EXCEPT !.keysKnown = FALSE], [content EXCEPT !.kind = FALSE],
          [content EXCEPT !.schemaVersion = 0], [content EXCEPT !.schemaVersion = 2],
          [content EXCEPT !.provenance = FALSE],
          [content EXCEPT !.source.organization = Absent],
          [content EXCEPT !.data.organization.version = 0]}
    \cup {[content EXCEPT !.counts[s] = @ + 1] : s \in SectionNames}

\* Records lost, doubled, moved, or changed.
SpoiltRecord(r) ==
    {[r EXCEPT !.keysKnown = FALSE], [r EXCEPT !.id = 0], [r EXCEPT !.stamped = FALSE],
     [r EXCEPT !.version = 0], [r EXCEPT !.organization = Absent]}
    \cup {[r EXCEPT !.reference = id] : id \in RecordIds}

SpoiltSection(records) ==
    {Front(records), <<Head(records)>> \o records, Reverse(records)}
    \cup {<<r>> \o Tail(records) : r \in SpoiltRecord(Head(records))}

SpoiltData(content) ==
    UNION {{[content EXCEPT !.data.section[s] = records] :
              records \in SpoiltSection(content.data.section[s])} :
              s \in {n \in SectionNames : content.data.section[n] # <<>>}}

\* Whoever edits a file can count and seal it again.
Sealed(content) ==
    [content EXCEPT !.counts = CountSections(content.data.section),
                    !.integrity = Digest(content.data)]

Edit ==
    /\ file.edits < MaxEdits
    /\ \E content \in file.contents :
       \E edited \in Spoilt(content) \cup SpoiltData(content) \cup {Sealed(content)} :
        file' = [verdict |-> "UNREAD", edits |-> file.edits + 1, contents |-> {edited}]
    /\ UNCHANGED <<stored, session, export, organizationVars>>

ReadFile ==
    /\ \E content \in file.contents : file' = [file EXCEPT !.verdict = ParseCloudBackup(content)]
    /\ UNCHANGED <<stored, session, export, organizationVars>>

ExportNext == Export \/ ExportStep \/ Others \/ Edit \/ ReadFile

ExportSpec == Init /\ ScreenInit /\ ExportInit /\ [][ExportNext]_<<organizationVars, exportVars>>

-----------------------------------------------------------------------------
(* Properties.                                                             *)

\* A section of a file is what was stored at one instant of the export.  Only
\* a membership, or a session, that was away for the count of an empty list
\* and back for the check of it can make a section empty that is not.
FilesAreComplete ==
    export.outcome = "FILE" =>
        \A s \in SectionNames :
            s \in export.whole \/ (s \in export.away /\ export.read[s] = {})

\* An export whose reads all succeeded is refused by its own reader only for a
\* section past the limit, or for customers whose statuses were read as none:
\* every reference is closed although nothing keeps the sections together.
ExportsReadBack ==
    (export.pc = "done" /\ export.next = Len(ReadingOrder)) =>
        \/ export.outcome = "FILE"
        \/ \E s \in SectionNames : Cardinality(export.read[s]) > MaxRecords
        \/ "customerStatuses" \in export.away

\* What the reader accepts, however it came about, is what the writer would
\* write of it: reading a file and writing it again gives the same file, and
\* every status a customer has is in it.
ReadingIsWritingBack ==
    file.verdict = "NONE" =>
        \A content \in file.contents :
            LET section == content.data.section
                read == [s \in SectionNames |-> ToSet(section[s])]
            IN  /\ content = BuildEnvelope(content.data.organization, read,
                                           content.source.exportedBy)
                /\ {c.reference : c \in read["customers"]} \ {Absent}
                      \subseteq {t.id : t \in read["customerStatuses"]}
=============================================================================
