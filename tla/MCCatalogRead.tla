---------------------------- MODULE MCCatalogRead ----------------------------
(* One list read while its rows change, or one record written and shown in a *)
(* form: each behaviour has one of the two scenes, and the other rests.      *)
EXTENDS CatalogRead, CatalogRecords

CONSTANT s1

Text(pad, padLong, body, long) ==
    [pad |-> pad, padLong |-> padLong, body |-> body, long |-> long]
Plain == Text("none", FALSE, "visible", FALSE)
Padded == Text("spaces", TRUE, "visible", FALSE)
BlankTexts == {Empty, Text("spaces", FALSE, "nothing", FALSE),
               Text("blanks", FALSE, "nothing", FALSE), Text("none", FALSE, "hidden", FALSE)}
Unseen == {t \in BlankTexts : t.pad = "blanks" \/ t.body = "hidden"}
SomeTexts == BlankTexts \cup
    {Plain, Text("spaces", FALSE, "visible", FALSE), Text("blanks", FALSE, "visible", FALSE),
     Padded, Text("none", FALSE, "visible", TRUE)}

MCScale == [v \in Values |-> CASE v = "1.5" -> 1 [] v = "1.125" -> 3 [] OTHER -> 0]
Number(value, leading, mark, slack) ==
    [value |-> value, leading |-> leading, mark |-> mark, slack |-> slack]
SomeFactors ==
    {Absent, Unreadable, Number("0", FALSE, "none", 0), Number("7", TRUE, "none", 0)}
    \cup {Number("1.5", FALSE, m, s) : m \in {"dot", "comma"}, s \in {0, 2}}
    \cup {Number("1.125", FALSE, m, 0) : m \in {"dot", "comma"}}

\* One field at a time leaves the ordinary, in a form and on the device.
Fields(i, o, f, s, n) ==
    [identifier |-> i, optional |-> o, factor |-> f, status |-> s, order |-> n]
MCDrafts ==
    {Fields(t, Empty, Absent, Absent, "inRange") : t \in SomeTexts \ {Empty}}
    \cup {Fields(Plain, t, Absent, Absent, "inRange") : t \in Unseen \cup {Padded}}
    \cup {Fields(Plain, Empty, f, Absent, "inRange") : f \in SomeFactors}
    \cup {Fields(Plain, Empty, Absent, s1, n) : n \in SortOrders \ {"blank"}}
OnDevice(i, o, f, active) ==
    [identifier |-> i, optional |-> o, factor |-> f, status |-> Absent,
     order |-> "inRange", active |-> active]
MCLegacy ==
    {OnDevice(t, Absent, Absent, TRUE) : t \in SomeTexts}
    \cup {OnDevice(Plain, t, Absent, TRUE) : t \in BlankTexts \cup {Padded}}
    \cup {OnDevice(Plain, Empty, f, TRUE) : f \in SomeFactors}
    \cup {OnDevice(Plain, Absent, Absent, FALSE)}

\* A client that does not trim, does not shorten and does not look.
MCInputs ==
    {Fields(t, Empty, Absent, Absent, "inRange") :
        t \in Unseen \cup {Text("blanks", FALSE, "visible", FALSE)}}
    \cup {Fields(Plain, t, Absent, s1, "inRange") : t \in Unseen}
    \cup {Fields(Plain, Empty, f, Absent, "inRange") :
            f \in {Number("1.5", FALSE, "dot", 2), Number("1.125", FALSE, "dot", 0)}}

Resting == row = Unread /\ members = {Reader} /\ \A r \in Reads : At(r, "idle")

Untouched ==
    record = NoStored /\ edit = Closed /\ migration = NoMigration /\ statusActive

MCInit == ReadInit /\ RecordsInit
MCNext ==
    \/ Untouched /\ ReadNext /\ UNCHANGED recordVars
    \/ Resting /\ ~lost /\ session = Reader /\ RecordsNext /\ UNCHANGED readVars
MCSpec ==
    /\ MCInit /\ [][MCNext]_<<readVars, recordVars>>
    /\ \A r \in Reads : WF_readVars(ReadStep(r))

CatalogTypeOK == ReadTypeOK /\ RecordsTypeOK
=============================================================================
