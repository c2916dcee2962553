--------------------------- MODULE CatalogRecords ---------------------------
(***************************************************************************)
(* One catalogue record's life: imported or created, opened in a form in   *)
(* one language or the other, saved, changed by a colleague meanwhile,     *)
(* reloaded.  The form is ProductForm, PartyForm or StatusForm over its    *)
(* service and the gateway; each call to the server is one transaction.    *)
(***************************************************************************)
EXTENDS CatalogRules

CONSTANTS
    Drafts,             \* what a person types
    Inputs,             \* what another client sends
    LegacyRecords,      \* what the device's database may hold of the record
    Status,             \* the customer status somebody else may deactivate
    MaxWrites           \* bound: the row's version

ASSUME DraftsAssumption ==
    /\ Drafts \cup Inputs \subseteq
                        [identifier : Texts, optional : Texts,
                         factor : Decimals \cup {Absent, Unreadable},
                         status : {Absent, Status}, order : SortOrders]
    /\ LegacyRecords \subseteq [identifier : Texts, optional : Texts \cup {Absent},
                                factor : Decimals \cup {Absent, Unreadable},
                                status : {Absent}, order : {"inRange"}, active : BOOLEAN]
ASSUME AbsentAssumption ==
    /\ Absent \notin Texts \cup Decimals \cup {Status} \cup Values
    /\ Unreadable \notin Decimals \cup {Absent}
ASSUME MaxWritesAssumption == MaxWrites \in Nat

VARIABLES
    record,             \* the row, version 0 while there is none
    statusActive,       \* whether the status can still be assigned
    edit,               \* the open form
    migration           \* the import: its source and what became of it

recordVars == <<record, statusActive, edit, migration>>

NoStored ==
    [identifier |-> Empty, optional |-> Absent, factor |-> Absent, status |-> Absent,
     order |-> "inRange", active |-> TRUE, version |-> 0]
Exists == record.version > 0

EmptyDraft ==
    [identifier |-> Empty, optional |-> Empty, factor |-> Absent, status |-> Absent,
     order |-> "inRange"]

CatalogRows ==
    [identifier : Texts, optional : Texts \cup {Absent}, factor : Decimals \cup {Absent},
     status : {Absent, Status}, order : SortOrders, active : BOOLEAN, version : Nat]

\* "TYPED" names what the form itself objects to, the others the server's reply.
Failures ==
    {"NONE", "TYPED", "RECORD_INVALID", "STALE_WRITE", "RECORD_NOT_FOUND",
     "RELOAD_FAILED"}

EditStates ==
    [pc : {"closed", "open", "reloading"}, locale : Locales, reloadLocale : Locales,
     draft : [identifier : Texts, optional : Texts,
              factor : Decimals \cup {Absent, Unreadable},
              status : {Absent, Status}, order : SortOrders],
     version : Nat,             \* of the row it was opened or reloaded with
     statuses : SUBSET {Status},\* the assignable statuses it has loaded
     meant : Values \cup {Absent},  \* the number the typed factor was read as
     touched : BOOLEAN,         \* whether anything was typed
     failure : Failures]

Closed ==
    [pc |-> "closed", locale |-> "tr", reloadLocale |-> "tr", draft |-> EmptyDraft,
     version |-> 0, statuses |-> {}, meant |-> Absent,
     touched |-> FALSE, failure |-> "NONE"]

NoMigration == [outcome |-> "NONE", source |-> EmptyDraft]

RecordsTypeOK ==
    /\ record \in CatalogRows
    /\ statusActive \in BOOLEAN
    /\ edit \in EditStates
    /\ migration.outcome \in {"NONE", "PRECHECK", "REFUSED", "STORED", "EDITED"}

RecordsInit ==
    /\ record = NoStored
    /\ statusActive = TRUE
    /\ edit = Closed
    /\ migration = NoMigration

-----------------------------------------------------------------------------
(* The server.                                                             *)

Row(columns, active, version) ==
    [identifier |-> columns.identifier, optional |-> columns.optional,
     factor |-> columns.factor, status |-> columns.status, order |-> columns.order,
     active |-> active, version |-> version]

\* A create or an update that went through.  `same` says that nobody meant to
\* change the record: the row should still be what the import made it.
Store(columns, active, same) ==
    /\ record' = Row(columns, active, record.version + 1)
    /\ record.version < MaxWrites
    /\ migration' = IF migration.outcome = "STORED" /\ ~same
                    THEN [NoMigration EXCEPT !.outcome = "EDITED"]
                    ELSE migration

\* assert_assignable_customer_status, asked only when the status changes.
Assignable(status, before) == status = before \/ status = Absent \/ statusActive

Verdict(parameters, version) ==
    IF version # 0 /\ ~Exists THEN "RECORD_NOT_FOUND"
    ELSE IF ~(/\ Assignable(parameters.status, IF version = 0 THEN Absent ELSE record.status)
              /\ Accepts(parameters))
         THEN "RECORD_INVALID"
    ELSE IF version \notin {0, record.version} THEN "STALE_WRITE"
    ELSE "NONE"

-----------------------------------------------------------------------------
(* The form.                                                               *)

ReadAs(factor, locale) ==
    IF factor # Absent /\ ReadsDecimal(factor, locale) THEN factor.value ELSE Absent

\* New, or edit with the row the list holds; the statuses are read beside it.
Open(locale) ==
    /\ edit.pc = "closed"
    /\ edit' = [Closed EXCEPT !.pc = "open", !.locale = locale, !.version = record.version,
                              !.draft = IF Exists THEN DraftFrom(record, locale) ELSE @,
                              !.statuses = IF statusActive THEN {Status} ELSE {},
                              !.meant = IF record.factor = Absent THEN Absent
                                        ELSE record.factor.value]
    /\ UNCHANGED <<record, statusActive, migration>>

\* The status field offers the active ones and the one the form holds.
Type(draft) ==
    /\ edit.pc # "closed"
    /\ draft.status \in {Absent, edit.draft.status} \cup edit.statuses
    /\ edit' = [edit EXCEPT !.draft = draft, !.touched = TRUE,
                            !.meant = ReadAs(draft.factor, edit.locale)]
    /\ UNCHANGED <<record, statusActive, migration>>

\* The form's effect on a change of language: a factor it can read in the
\* language it was typed in is written again in the new one.
LeftAsTyped(factor, before, after) == factor        \* fault: no effect
Reexpressed(factor, before, after) ==
    IF factor # Absent /\ ReadsDecimal(factor, before)
    THEN FormatDecimalForInput(Canonical(factor), after) ELSE factor

SwitchLocale(locale) ==
    /\ edit.pc # "closed" /\ locale # edit.locale
    /\ edit' = [edit EXCEPT !.locale = locale,
                            !.draft.factor = Reexpressed(@, edit.locale, locale)]
    /\ UNCHANGED <<record, statusActive, migration>>

\* Save: the service builds the input or names the field, then the server
\* decides.  A rejected form stays open with what was typed.  A create beside
\* this record makes another one, or is refused for its SKU or code.
SubmitRecord ==
    /\ edit.pc = "open"
    /\ \E failure \in {IF ~PassesForm(edit.draft, edit.locale) THEN "TYPED"
                       ELSE Verdict(Parameters(BuildInput(edit.draft)), edit.version)} :
        \/ /\ failure = "NONE" /\ edit.version = record.version
           /\ Store(Columns(Parameters(BuildInput(edit.draft))), record.active, ~edit.touched)
           /\ edit' = Closed
        \/ /\ failure = "NONE" /\ edit.version # record.version
           /\ edit' \in {Closed, [edit EXCEPT !.failure = "TYPED"]}
           /\ UNCHANGED <<record, migration>>
        \/ /\ failure # "NONE"
           /\ edit' = [edit EXCEPT !.failure = failure]
           /\ UNCHANGED <<record, migration>>
    /\ UNCHANGED statusActive

\* The banner of a stale save offers the stored copy; the answer is put into
\* the form in the language it had at the click.
ReadStored ==
    /\ edit.pc = "open" /\ edit.failure = "STALE_WRITE"
    /\ edit' = [edit EXCEPT !.pc = "reloading", !.reloadLocale = edit.locale]
    /\ UNCHANGED <<record, statusActive, migration>>

StoredRead ==
    /\ edit.pc = "reloading"
    /\ \/ \E draft \in {DraftFrom(record, edit.reloadLocale)} :
             edit' = [edit EXCEPT !.pc = "open", !.draft = draft, !.failure = "NONE",
                                  !.version = record.version, !.reloadLocale = "tr",
                                  !.touched = FALSE,
                                  !.meant = ReadAs(draft.factor, edit.locale)]
       \/ edit' = [edit EXCEPT !.pc = "open", !.failure = "RELOAD_FAILED",
                                !.reloadLocale = "tr"]
    /\ UNCHANGED <<record, statusActive, migration>>

CloseForm ==
    /\ edit.pc = "open"
    /\ edit' = Closed
    /\ UNCHANGED <<record, statusActive, migration>>

-----------------------------------------------------------------------------
(* The others, and the import.                                             *)

\* A member who calls the create or update function, with the version of now.
\* The function takes whatever texts it is given.
Colleague(input) ==
    /\ Verdict(input, record.version) = "NONE"
    /\ Store(Columns(input), record.active, FALSE)
    /\ UNCHANGED <<statusActive, edit>>

SetActive ==
    /\ Exists
    /\ Store(record, ~record.active, FALSE)
    /\ UNCHANGED <<statusActive, edit>>

SetStatusActive ==
    /\ statusActive' = ~statusActive
    /\ UNCHANGED <<record, edit, migration>>

\* The import of a device that holds this record, into an empty catalogue:
\* the client's check first, then import_catalog.
Import(local) ==
    /\ ~Exists /\ edit.pc = "closed" /\ migration.outcome = "NONE"
    /\ \E outcome \in {IF FindImportProblem(local) THEN "PRECHECK"
                       ELSE IF ImportAccepts(local) THEN "STORED" ELSE "REFUSED"} :
        /\ migration' = [outcome |-> outcome,
                         source |-> IF outcome = "STORED" THEN local ELSE EmptyDraft]
        /\ record' = IF outcome = "STORED"
                     THEN Row(Columns(Parameters(local)), local.active, 1)
                     ELSE record
    /\ UNCHANGED <<statusActive, edit>>

RecordsNext ==
    \/ \E locale \in Locales : Open(locale) \/ SwitchLocale(locale)
    \/ \E draft \in Drafts : Type(draft)
    \/ \E input \in Inputs : Colleague(input)
    \/ \E local \in LegacyRecords : Import(local)
    \/ SubmitRecord \/ ReadStored \/ StoredRead \/ CloseForm \/ SetActive \/ SetStatusActive

RecordsSpec == RecordsInit /\ [][RecordsNext]_recordVars

-----------------------------------------------------------------------------
(* Properties.                                                             *)

\* Whatever was stored, by a form, a direct call or the import, the reader of
\* the company's backup file accepts: no row can make every export fail.
StoredRowsAreExportable == Exists => FileAccepts(record)

\* A form that its own rules let through is refused by the server only for a
\* text longer than its column (the fields have no limit), a sort order out of
\* range, or a status that has been deactivated under the form.
FormsSayFirst ==
    [][(edit'.failure = "RECORD_INVALID" /\ edit.failure # "RECORD_INVALID") =>
          \/ TooLong(Trim(edit.draft.identifier))
          \/ TooLong(Trim(edit.draft.optional))
          \/ edit.draft.order = "outOfRange"
          \/ edit.draft.status = Status /\ ~statusActive]_recordVars

\* The import stores whatever the client's check lets through, and the row
\* proves to be the record it was made from, so that the device's copy can be
\* retired: also after a form was opened and saved with nothing typed, which
\* rewrites the factor in its shortest form.  (A text padded with blanks the
\* server kept is the exception: the form trims them away.)
ImportsMatchTheirSource ==
    /\ migration.outcome # "REFUSED"
    /\ migration.outcome = "STORED" =>
        \/ SameRecord(migration.source, record)
        \/ record.version > 1 /\ \/ migration.source.identifier.pad = "blanks"
                                 \/ /\ migration.source.optional # Absent
                                    /\ migration.source.optional.pad = "blanks"

\* A factor the form could read when it was typed or loaded is read as the
\* same number in whatever language the form is saved.
FactorsStayReadable ==
    (edit.pc # "closed" /\ edit.meant # Absent) =>
        /\ edit.draft.factor # Absent
        /\ ReadsDecimal(edit.draft.factor, edit.locale)
        /\ PackFactor(edit.draft.factor).value = edit.meant
=============================================================================
