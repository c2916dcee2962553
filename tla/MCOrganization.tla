--------------------------- MODULE MCOrganization ---------------------------
(* Four scenes: any two calls; the screen's call beside another; the        *)
(* invitation card while a call takes the person's role; the export.        *)
EXTENDS OrganizationExport

CONSTANTS c1, c2, x, u1, u2, u3

Text(body) == [pad |-> "none", padLong |-> FALSE, body |-> body, long |-> FALSE]
Tab == [pad |-> "blanks", padLong |-> FALSE, body |-> "nothing", long |-> FALSE]
MCScale == [v \in Values |-> 0]
MCIdOf == (u1 :> 2) @@ (u2 :> 1) @@ (u3 :> 3)
MCDetails ==
    {[identifier |-> Text("visible"), optional |-> Tab, factor |-> Absent,
      status |-> Absent, order |-> "inRange"]}

\* More products than a file may hold, or none; the rest is written meanwhile.
MCInitialStores ==
    {[s \in CatalogSections |->
        IF s = "products" THEN {StoredRow(id, fields, Absent) : id \in ids, fields \in MCDetails}
        ELSE {}] : ids \in {{}, RecordIds}}
MCCreations ==
    {<<"customerStatuses", 1>>, <<"customerStatuses", 2>>, <<"customers", 3>>}

CallsRest == \A c \in Calls : callPc[c] = "unsent"
ScreenRests == ScreenInit
CardRests == sent = {} /\ invite = NewCard(0, 0)
ExportRests == export.pc = "idle" /\ session = Person /\ file = NoFile /\ stored["products"] = {}
Two == memberships[x][u3] = NoRow
Alone == callPc[c2] = "unsent" /\ memberships[x][u2].role = "ADMIN" /\ memberships[x][u3].role = "MEMBER"

MCInit == Init /\ ScreenInit /\ ExportInit

\* The file of an undisturbed export is edited: a customer and two statuses.
Edited ==
    /\ session = Person /\ memberships[x][u2].version = 1
    /\ \A s \in CatalogSections : stored[s] = export.read[s]
    /\ \E c \in stored["customers"] : c.reference = 1
    /\ Cardinality(stored["customerStatuses"]) = 2

MCNext ==
    \/ ScreenRests /\ ExportRests /\ Next /\ UNCHANGED <<screenVars, exportVars>>
    \/ CardRests /\ ExportRests /\ (callPc[c1] = "unsent" \/ offered[c1] # "NONE")
       /\ (Two \/ Alone) /\ PeopleNext /\ UNCHANGED exportVars
    \/ Two /\ busy = None /\ pending = {} /\ callPc[c1] = "unsent" /\ ExportRests /\ InviteNext /\ UNCHANGED exportVars
    \/ Two /\ CallsRest /\ ScreenRests /\ ExportNext
       /\ memberships[x][u1].role = "OWNER" /\ memberships[x][u2].role = "OWNER"
       /\ memberships'[x][u2].role = "OWNER"
       /\ (\/ export.pc \notin {"idle", "done"} /\ stored["products"] = {}
           \/ UNCHANGED <<memberships, stored, session>>)
       /\ (file = NoFile \/ Edited)
MCSpec == MCInit /\ [][MCNext]_<<organizationVars, exportVars>>
=============================================================================
