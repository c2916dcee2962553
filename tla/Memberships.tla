---------------------------- MODULE Memberships ----------------------------
(***************************************************************************)
(* The table app_data.memberships and the rules the SQL reads off it.      *)
(* No state: every operator takes the table as its first argument, so the  *)
(* same rule is used by the abstract specification, by the administration  *)
(* RPCs and by the provisioning workflow.                                  *)
(***************************************************************************)
EXTENDS Naturals

CONSTANTS
    Organizations,      \* app_data.organizations
    Users               \* ids of auth.users, those still to be created included

Roles == {"OWNER", "ADMIN", "MEMBER"}
Statuses == {"ACTIVE", "DISABLED"}
AdministratorRoles == {"OWNER", "ADMIN"}

\* updated_by: who is on record for the row as it stands.
Authors == Users \cup {"NOBODY"}

Rows == [role : Roles, status : Statuses, version : Nat \ {0}, by : Authors]

\* The primary key (organization_id, user_id) has no row.  Its version is 0 so
\* that stamping it is an INSERT, which writes version 1.
NoRow == [role |-> "NONE", status |-> "NONE", version |-> 0, by |-> "NOBODY"]

Tables == [Organizations -> [Users -> Rows \cup {NoRow}]]

IsMember(table, o, u) == table[o][u] # NoRow

\* The role assert_org_administrator reads: a DISABLED membership has none.
ActiveRole(table, o, u) ==
    IF table[o][u].status = "ACTIVE" THEN table[o][u].role ELSE "NONE"

IsAdministrator(table, o, u) == ActiveRole(table, o, u) \in AdministratorRoles

IsActiveOwner(table, o, u) == ActiveRole(table, o, u) = "OWNER"

OtherActiveOwner(table, o, u) ==
    \E v \in Users \ {u} : IsActiveOwner(table, o, v)

\* Tables a run may begin with: bootstrap_organization has installed an OWNER,
\* and earlier administration has left whatever other rows it left.  A version
\* matters only by comparison, so each row's is counted from here.
InitialTables ==
    {t \in [Organizations ->
               [Users -> [role : Roles, status : Statuses, version : {1}, by : {"NOBODY"}]
                           \cup {NoRow}]] :
        \A o \in Organizations : \E u \in Users : IsActiveOwner(t, o, u)}

\* Only an OWNER touches an OWNER's row or grants OWNER.
MayWrite(actorRole, row, newRole) ==
    actorRole = "OWNER" \/ (row.role # "OWNER" /\ newRole # "OWNER")

NotStamped(row, role, status, actor) ==             \* fault: no trigger on the table
    [role |-> role, status |-> status, version |-> row.version, by |-> row.by]

\* The stamp_row trigger: version 1 on INSERT, one more on every UPDATE, and
\* the acting user as its author.
Stamped(row, role, status, actor) ==
    [role |-> role, status |-> status, version |-> row.version + 1, by |-> actor]

\* The table after one row of it is inserted or updated.
Written(table, o, u, role, status, actor) ==
    [table EXCEPT ![o][u] = Stamped(@, role, status, actor)]
=============================================================================
