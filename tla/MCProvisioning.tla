--------------------------- MODULE MCProvisioning ---------------------------
(***************************************************************************)
(* OWNERs ann and ben, a colleague cem, and the two ids uma and vic that   *)
(* an account of the invited address can have, one after the other.        *)
(***************************************************************************)
EXTENDS Provisioning, TLC

CONSTANTS ann, ben, cem, uma, vic, x, y, e1, e2, r1, r2, aMail, bMail, cMail, newMail

MCEmailOf ==
    [w \in Users |-> CASE w = ann -> aMail [] w = ben -> bMail [] w = cem -> cMail
                      [] OTHER -> newMail]

Draft(org, email, role, caller) ==
    [org |-> org, email |-> email, role |-> role, caller |-> caller]

\* Colleagues re-inviting each other: OWNERs who demote each other and one who
\* is demoted while granting OWNER.
ColleaguesDrafts ==
    {Draft(x, bMail, "ADMIN", ann), Draft(x, aMail, "ADMIN", ben), Draft(x, cMail, "OWNER", ann)}

\* Two companies inviting the same new address.
CompaniesDrafts == {Draft(x, newMail, "MEMBER", ann), Draft(y, newMail, "ADMIN", ann)}

Row(role, status) == [role |-> role, status |-> status, version |-> 1, by |-> "NOBODY"]

Beginning ==
    \A o \in Organizations, w \in Users :
        memberships[o][w] =
            CASE w \in {ann, ben} -> Row("OWNER", "ACTIVE")
              [] w = cem -> Row("MEMBER", "DISABLED")
              [] OTHER -> NoRow

Symmetry == Permutations(Runs) \cup Permutations(Requests) \cup Permutations(Calls)

MCInit == ProvisioningInit /\ Beginning
MCSpec == MCInit /\ [][ProvisioningNext]_allVars /\ ProvisioningFairness
=============================================================================
