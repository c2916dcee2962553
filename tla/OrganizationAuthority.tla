----------------------- MODULE OrganizationAuthority -----------------------
(***************************************************************************)
(* What the membership tables promise, whatever the transactions that      *)
(* write them do: a row changes only by the act of somebody who holds the  *)
(* authority for that change at that instant, and nobody changes their own *)
(* role or status.  There are no locks, calls or requests here.            *)
(* MembershipAdministration and Provisioning are shown to implement it.    *)
(***************************************************************************)
EXTENDS Memberships

VARIABLE memberships

Init == memberships \in InitialTables

\* actor, who goes on record, writes subject's row in o.  A row written about oneself may only be
\* rewritten as it stands (re-inviting one's own address moves its version).
Write(o, actor, subject, role, status) ==
    LET row == memberships[o][subject] IN
    /\ IsAdministrator(memberships, o, actor)
    /\ MayWrite(ActiveRole(memberships, o, actor), row, role)
    /\ actor = subject => row.role = role /\ row.status = status
    /\ row = NoRow => status = "ACTIVE"
    /\ memberships' = Written(memberships, o, subject, role, status, actor)

Next ==
    \E o \in Organizations, actor, subject \in Users,
       role \in Roles, status \in Statuses : Write(o, actor, subject, role, status)

Spec == Init /\ [][Next]_memberships

-----------------------------------------------------------------------------
TypeOK == memberships \in Tables

\* No organisation is ever left without an ACTIVE OWNER.  It follows from who
\* may write what, without any count of the owners.
KeepsAnActiveOwner ==
    \A o \in Organizations : \E u \in Users : IsActiveOwner(memberships, o, u)
=============================================================================
