---------------------------- MODULE CatalogRules ----------------------------
(***************************************************************************)
(* What a catalogue record may hold, as five places each decide it: the    *)
(* forms' services, the database's functions and constraints, the one-time *)
(* import, its check on the client, and the reader of the company's file.  *)
(*                                                                         *)
(* The four kinds of record follow the same rules field by field, so one   *)
(* record stands for all: an identifier (sku, name, stock unit, display    *)
(* name, code), an optional text (description, reference, note, ...), and  *)
(* where the kind has them a pack factor, a status and a sort order.       *)
(*                                                                         *)
(* A text is what the rules tell apart of it: what surrounds it, whether   *)
(* it holds a visible character, and whether the text or what surrounds it *)
(* passes the column's limit.  "spaces" are ASCII spaces; "blanks" are a   *)
(* tab or a no-break space, which trim() removes and btrim() does not;     *)
(* "hidden" is made of zero-width characters, which neither removes.       *)
(***************************************************************************)
EXTENDS Integers

CONSTANTS
    Absent,             \* no value
    Unreadable,         \* a typed factor that is no number: letters, two marks
    Values, Zero,       \* the numbers a factor can stand for
    Scale               \* number -> the digits it needs after the mark

ASSUME ValuesAssumption == Zero \in Values /\ Scale \in [Values -> Nat]

Texts ==
    {t \in [pad : {"none", "spaces", "blanks"}, padLong : BOOLEAN,
            body : {"nothing", "hidden", "visible"}, long : BOOLEAN] :
        /\ t.pad = "none" => ~t.padLong
        /\ t.body = "nothing" => ~t.long}

Empty == [pad |-> "none", padLong |-> FALSE, body |-> "nothing", long |-> FALSE]

\* A number as it is written: with zeros before it, with a mark, and with
\* zeros after the digits it needs.
Marks == {"none", "dot", "comma"}
Places(d) == Scale[d.value] + d.slack
Decimals ==
    {d \in [value : Values, leading : BOOLEAN, mark : Marks, slack : Nat] :
        d.mark = "none" <=> Places(d) = 0}

SortOrders == {"blank", "notAnInteger", "inRange", "outOfRange"}

-----------------------------------------------------------------------------
(* Texts.                                                                  *)

HasVisibleText(t) == t.body = "visible"
TooLong(t) == t.long \/ t.padLong
Trim(t) == [t EXCEPT !.pad = "none", !.padLong = FALSE]
ServerTrim(t) == IF t.pad = "spaces" THEN Trim(t) ELSE t

\* The forms: requiredText and optionalText.
NonEmptyOnly(t) == Trim(t) # Empty                  \* fault: before Audit A
PassesRequired(t) == Trim(t) # Empty /\ HasVisibleText(t)
OptionalText(t) == IF Trim(t) = Empty THEN Absent ELSE Trim(t)

\* The gateway sends an absent text as ''; the server keeps '' as null.
OptionalParameter(t) == IF t = Absent THEN Empty ELSE t
ServerOptional(t) == IF ServerTrim(t) = Empty THEN Absent ELSE ServerTrim(t)
SameOptional(local, cloud) ==
    (IF local = Absent THEN Absent ELSE ServerOptional(local)) = cloud

\* The columns: not blank, within the limit, and visible where required.
NotBlankOnly(t) == ServerTrim(t) # Empty /\ ~TooLong(t)    \* fault: before Audit A
IdentifierHolds(t) == ServerTrim(t) # Empty /\ ~TooLong(t) /\ HasVisibleText(t)
OptionalHolds(t) == t = Absent \/ (ServerTrim(t) # Empty /\ ~TooLong(t))

\* The import measures a text before it trims it (catalog_import_text), and so
\* does the check on the client (textProblem).
ImportText(t, required) ==
    /\ ~TooLong(t)
    /\ required => ServerTrim(t) # Empty /\ HasVisibleText(t)
TextProblem(t, required) ==
    \/ TooLong(t)
    \/ required /\ (ServerTrim(t) = Empty \/ ~HasVisibleText(t))

\* The file's reader: requiredIdentifier and optionalText of format.ts.
FileIdentifier(t) == HasVisibleText(t) /\ ~TooLong(t)
BlankToTheEye(t) == t = Absent \/ (Trim(t) # Empty /\ ~TooLong(t))  \* fault: trim()
FileOptional(t) == t = Absent \/ (ServerTrim(t) # Empty /\ ~TooLong(t))

-----------------------------------------------------------------------------
(* Pack factors.                                                           *)

Locales == {"tr", "en"}
DecimalMark(locale) == IF locale = "tr" THEN "comma" ELSE "dot"
GroupingMark(locale) == IF locale = "tr" THEN "dot" ELSE "comma"

\* parseDecimalInput: one mark is the decimal point, unless it is the
\* language's grouping mark with three digits after it.
Ambiguous(d, locale) == d.mark = GroupingMark(locale) /\ Places(d) = 3
ReadsDecimal(d, locale) == d # Unreadable /\ ~Ambiguous(d, locale)
Marked(d, mark) == IF d.mark = "none" THEN d ELSE [d EXCEPT !.mark = mark]
Canonical(d) == Marked(d, "dot")
AsItIsStored(d, locale) == d                        \* fault: no localisation
FormatDecimalForInput(d, locale) == Marked(d, DecimalMark(locale))

\* Quantity: the shortest form of the number.
QuantityText(d) ==
    [value |-> d.value, leading |-> FALSE, slack |-> 0,
     mark |-> IF Scale[d.value] = 0 THEN "none" ELSE "dot"]

\* packFactor: an empty field is no factor, and a factor is positive.
PassesFactor(d, locale) ==
    d = Absent \/ (ReadsDecimal(d, locale) /\ d.value # Zero)
PackFactor(d) == IF d = Absent THEN Absent ELSE QuantityText(Canonical(d))

\* catalog_decimal, and isCanonicalPositiveDecimal beside it.
CanonicalPositive(d) ==
    d = Absent \/ (d # Unreadable /\ ~d.leading /\ d.mark # "comma" /\ d.value # Zero)
SameSpelling(left, right) == left = right           \* fault: compares the digits
SameExactDecimal(left, right) ==
    \/ left = Absent /\ right = Absent
    \/ left # Absent /\ right # Absent /\ left.value = right.value

-----------------------------------------------------------------------------
(* Records.                                                                *)

\* What the person types into the form, and the input built from it.
PassesForm(draft, locale) ==
    /\ PassesRequired(draft.identifier)
    /\ PassesFactor(draft.factor, locale)
    /\ draft.order \in {"inRange", "outOfRange"}

BuildInput(draft) ==
    [identifier |-> Trim(draft.identifier), optional |-> OptionalText(draft.optional),
     factor |-> PackFactor(draft.factor), status |-> draft.status, order |-> draft.order]

DraftFrom(row, locale) ==
    [identifier |-> row.identifier, optional |-> OptionalParameter(row.optional),
     factor |-> IF row.factor = Absent THEN Absent
                ELSE FormatDecimalForInput(row.factor, locale),
     status |-> row.status, order |-> row.order]

\* The parameters the gateway sends, what the create and update functions make
\* of them, and what the table's constraints then hold it to.
Parameters(input) ==
    [identifier |-> input.identifier, optional |-> OptionalParameter(input.optional),
     factor |-> input.factor, status |-> input.status, order |-> input.order]

Columns(parameters) ==
    [identifier |-> ServerTrim(parameters.identifier),
     optional |-> ServerOptional(parameters.optional),
     factor |-> parameters.factor, status |-> parameters.status, order |-> parameters.order]

ConstraintsHold(columns) ==
    /\ IdentifierHolds(columns.identifier)
    /\ OptionalHolds(columns.optional)
    /\ columns.order = "inRange"

Accepts(parameters) ==
    CanonicalPositive(parameters.factor) /\ ConstraintsHold(Columns(parameters))

\* import_catalog for one record, the client's findImportProblem for it, and
\* the field-by-field proof that a cloud row is what the import stored.
ImportAccepts(local) ==
    /\ ImportText(local.identifier, TRUE)
    /\ local.optional # Absent => ImportText(local.optional, FALSE)
    /\ CanonicalPositive(local.factor)
    /\ ConstraintsHold(Columns(Parameters(local)))

FindImportProblem(local) ==
    \/ TextProblem(local.identifier, TRUE)
    \/ local.optional # Absent /\ TextProblem(local.optional, FALSE)
    \/ ~CanonicalPositive(local.factor)

SameRecord(local, row) ==
    /\ ServerTrim(local.identifier) = row.identifier
    /\ SameOptional(local.optional, row.optional)
    /\ SameExactDecimal(local.factor, row.factor)
    /\ local.active = row.active

\* What the file's reader refuses a record for.
FileAccepts(row) ==
    /\ FileIdentifier(row.identifier)
    /\ FileOptional(row.optional)
    /\ CanonicalPositive(row.factor)
    /\ row.order = "inRange"
=============================================================================
