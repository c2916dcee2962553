------------------- MODULE MembershipAdministrationProofs -------------------
(***************************************************************************)
(* For every set of organisations, users and calls: an organisation keeps  *)
(* an ACTIVE OWNER, the count of owners never refuses a call, and the two  *)
(* functions implement OrganizationAuthority.                              *)
(***************************************************************************)
EXTENDS MembershipAdministration, TLAPS

\* A call that is past its first check has its arguments, and one that is past
\* the lock holds it.
CallsAreFormed ==
    /\ \A c \in Calls : callPc[c] # "unsent" => call[c] \in Arguments
    /\ \A c \in Calls : callPc[c] \in {"locked", "checked"} => adminLock[call[c].org] = c

\* What the checks established still holds when the row is written, because
\* the lock is still held.
CheckedStandsUntilWritten ==
    \A c \in Calls : callPc[c] = "checked" => Verdict(memberships, call[c]) = "CHANGED"

\* A row only moves on from what a caller saw, so an equal version is an equal
\* row.
SeenIsPast(k) ==
    LET row == memberships[k.org][k.subject] IN
    /\ k.seen.version <= row.version
    /\ k.seen.version = row.version => k.seen = row

SeenRowsArePast == \A c \in Calls : callPc[c] # "unsent" => SeenIsPast(call[c])

\* The inductive invariant.
IInv ==
    /\ TypeOK
    /\ CallsAreFormed
    /\ SeenRowsArePast
    /\ CheckedStandsUntilWritten
    /\ KeepsAnActiveOwner
    /\ LastOwnerGuardIsUnreachable

-----------------------------------------------------------------------------
\* Writing one row leaves a table, and every other row as it was.
LEMMA WrittenTable ==
    ASSUME NEW table \in Tables, NEW o \in Organizations, NEW u \in Users,
           NEW role \in Roles, NEW status \in Statuses, NEW actor \in Authors
    PROVE  /\ Written(table, o, u, role, status, actor) \in Tables
           /\ Written(table, o, u, role, status, actor)[o][u] = Stamped(table[o][u], role, status, actor)
           /\ \A p \in Organizations, v \in Users :
                p # o \/ v # u => Written(table, o, u, role, status, actor)[p][v] = table[p][v]
<1>1. Stamped(table[o][u], role, status, actor) \in Rows
  BY DEF Stamped, Rows, Tables, NoRow, Authors
<1>. QED
  BY <1>1 DEF Written, Tables

\* A write under authority keeps an ACTIVE OWNER: an OWNER's row is written by
\* another ACTIVE OWNER, who stays one.
LEMMA AuthorityKeepsAnActiveOwner ==
    ASSUME NEW table \in Tables, NEW o \in Organizations,
           NEW actor \in Users, NEW u \in Users,
           NEW role \in Roles, NEW status \in Statuses,
           \A p \in Organizations : \E v \in Users : IsActiveOwner(table, p, v),
           MayWrite(ActiveRole(table, o, actor), table[o][u], role),
           actor = u => role = table[o][u].role /\ status = table[o][u].status
    PROVE  \A p \in Organizations : \E v \in Users :
             IsActiveOwner(Written(table, o, u, role, status, actor), p, v)
<1>. DEFINE new == Written(table, o, u, role, status, actor)
<1>. SUFFICES ASSUME NEW p \in Organizations
              PROVE  \E v \in Users : IsActiveOwner(new, p, v)
  OBVIOUS
<1>. PICK v \in Users : IsActiveOwner(table, p, v)
  OBVIOUS
<1>1. CASE p # o \/ v # u
  <2>1. new[p][v] = table[p][v]
    BY <1>1, WrittenTable DEF Authors
  <2>. QED
    BY <2>1 DEF IsActiveOwner, ActiveRole
<1>2. CASE p = o /\ v = u
  <2>1. table[o][u].role = "OWNER" /\ table[o][u].status = "ACTIVE"
    BY <1>2 DEF IsActiveOwner, ActiveRole
  <2>2. ActiveRole(table, o, actor) = "OWNER"
    BY <2>1 DEF MayWrite
  <2>3. CASE actor = u
    <3>1. new[o][u] = Stamped(table[o][u], role, status, actor)
      BY WrittenTable DEF Authors
    <3>. QED
      BY <3>1, <2>1, <2>3, <1>2 DEF Stamped, IsActiveOwner, ActiveRole
  <2>4. CASE actor # u
    <3>1. new[o][actor] = table[o][actor]
      BY <2>4, WrittenTable DEF Authors
    <3>. QED
      BY <3>1, <2>2, <1>2 DEF IsActiveOwner, ActiveRole
  <2>. QED
    BY <2>3, <2>4
<1>. QED
  BY <1>1, <1>2

\* The owners need no counting: whoever reaches that guard about an OWNER is
\* another ACTIVE OWNER.
LEMMA VerdictIsNeverLastOwner ==
    ASSUME NEW table \in Tables, NEW k \in Arguments
    PROVE  Verdict(table, k) # "LAST_OWNER"
<1>. SUFFICES ASSUME Verdict(table, k) = "LAST_OWNER"
              PROVE  FALSE
  OBVIOUS
<1>1. /\ k.subject # k.actor
      /\ MayWrite(ActiveRole(table, k.org, k.actor), table[k.org][k.subject],
                  NewRole(table[k.org][k.subject], k.change))
      /\ IsActiveOwner(table, k.org, k.subject)
      /\ ~OtherActiveOwner(table, k.org, k.subject)
  BY DEF Verdict, OwnMembership
<1>2. table[k.org][k.subject].role = "OWNER"
  BY <1>1 DEF IsActiveOwner, ActiveRole
<1>3. IsActiveOwner(table, k.org, k.actor)
  BY <1>1, <1>2 DEF MayWrite, IsActiveOwner
<1>. QED
  BY <1>1, <1>3 DEF OtherActiveOwner, Arguments

\* What a CHANGED verdict says, in the terms of OrganizationAuthority.
LEMMA VerdictGivesAuthority ==
    ASSUME NEW table \in Tables, NEW k \in Arguments,
           Verdict(table, k) = "CHANGED"
    PROVE  LET row == table[k.org][k.subject] IN
           /\ row \in Rows
           /\ NewRole(row, k.change) \in Roles
           /\ NewStatus(row, k.change) \in Statuses
           /\ IsAdministrator(table, k.org, k.actor)
           /\ k.actor # k.subject
           /\ MayWrite(ActiveRole(table, k.org, k.actor), row, NewRole(row, k.change))
<1>. DEFINE row == table[k.org][k.subject]
<1>1. /\ ActiveRole(table, k.org, k.actor) \in AdministratorRoles
      /\ k.actor # k.subject
      /\ row # NoRow
      /\ MayWrite(ActiveRole(table, k.org, k.actor), row, NewRole(row, k.change))
  BY DEF Verdict, OwnMembership, StillAdministrator
<1>2. row \in Rows
  BY <1>1 DEF Tables, Arguments
<1>3. NewRole(row, k.change) \in Roles /\ NewStatus(row, k.change) \in Statuses
  BY <1>2 DEF NewRole, NewStatus, Rows, Arguments, Changes
<1>. QED
  BY <1>1, <1>2, <1>3 DEF IsAdministrator

-----------------------------------------------------------------------------
\* The tables and the calls begin as the invariant says.
LEMMA InitEstablishes == Init => IInv
<1>. SUFFICES ASSUME Init
              PROVE  IInv
  OBVIOUS
<1>1. TypeOK
  BY DEF Init, TypeOK, InitialTables, Tables, Rows, Authors, CallPcs
<1>2. CallsAreFormed /\ CheckedStandsUntilWritten /\ LastOwnerGuardIsUnreachable
  BY DEF Init, CallsAreFormed, CheckedStandsUntilWritten, LastOwnerGuardIsUnreachable
<1>4. SeenRowsArePast
  BY DEF Init, SeenRowsArePast
<1>3. KeepsAnActiveOwner
  BY DEF Init, InitialTables, KeepsAnActiveOwner
<1>. QED
  BY <1>1, <1>2, <1>3, <1>4 DEF IInv

\* What was seen stays in the past while neither the table nor a call changes.
LEMMA SeenStaysPast ==
    ASSUME SeenRowsArePast, UNCHANGED <<memberships, call>>,
           \A d \in Calls : callPc[d] = "unsent" => callPc'[d] = "unsent"
    PROVE  SeenRowsArePast'
BY DEF SeenRowsArePast, SeenIsPast

\* A call sent with a row of the past, however old.
LEMMA SendingPreserves ==
    ASSUME IInv, NEW c \in Calls, callPc[c] = "unsent", NEW k \in Arguments, SeenIsPast(k),
           call' = [call EXCEPT ![c] = k], callPc' = [callPc EXCEPT ![c] = "listed"],
           UNCHANGED <<memberships, adminLock, outcome>>
    PROVE  IInv'
<1>. USE DEF IInv
<1>1. TypeOK'
  BY DEF TypeOK, CallPcs
<1>2. CallsAreFormed'
  BY DEF TypeOK, CallsAreFormed
<1>3. CheckedStandsUntilWritten'
  BY DEF TypeOK, CheckedStandsUntilWritten
<1>4. KeepsAnActiveOwner' /\ LastOwnerGuardIsUnreachable'
  BY DEF KeepsAnActiveOwner, LastOwnerGuardIsUnreachable
<1>5. SeenRowsArePast'
  BY DEF TypeOK, SeenRowsArePast, SeenIsPast
<1>. QED
  BY <1>1, <1>2, <1>3, <1>4, <1>5

\* Reading the list records the row as it is now.
LEMMA ListPreserves ==
    ASSUME IInv, NEW c \in Calls, List(c)
    PROVE  IInv'
<1>1. PICK o \in Organizations, actor \in Users, subject \in Users, change \in Changes :
        call' = [call EXCEPT ![c] =
                   [org |-> o, actor |-> actor, subject |-> subject,
                    change |-> change, seen |-> memberships[o][subject]]]
  BY DEF List
<1>. DEFINE k == [org |-> o, actor |-> actor, subject |-> subject,
                  change |-> change, seen |-> memberships[o][subject]]
<1>2. k \in Arguments
  BY DEF IInv, TypeOK, Tables, Arguments
<1>3. SeenIsPast(k)
  BY DEF IInv, TypeOK, Tables, Rows, NoRow, SeenIsPast
<1>. HIDE DEF k
<1>. QED
  BY <1>1, <1>2, <1>3, SendingPreserves DEF List, k

\* The check before the lock decides nothing the invariant relies on.
LEMMA AuthorisePreserves ==
    ASSUME IInv, NEW c \in Calls, Authorise(c)
    PROVE  IInv'
<1>5. SeenRowsArePast'
  BY SeenStaysPast DEF IInv, Authorise, Answer, TypeOK
<1>. USE DEF IInv, Authorise, Answer
<1>1. TypeOK'
  BY DEF TypeOK, CallPcs, Refusals
<1>2. CallsAreFormed'
  BY DEF TypeOK, CallsAreFormed
<1>3. CheckedStandsUntilWritten'
  BY DEF TypeOK, CheckedStandsUntilWritten
<1>4. KeepsAnActiveOwner' /\ LastOwnerGuardIsUnreachable'
  BY DEF TypeOK, KeepsAnActiveOwner, LastOwnerGuardIsUnreachable
<1>. QED
  BY <1>1, <1>2, <1>3, <1>4, <1>5

\* A free lock is taken from nobody.
LEMMA LockPreserves ==
    ASSUME IInv, NEW c \in Calls, Lock(c)
    PROVE  IInv'
<1>5. SeenRowsArePast'
  BY SeenStaysPast DEF IInv, Lock, TypeOK
<1>. USE DEF IInv, Lock, TakeAdminLock, LockFree
<1>0. call[c] \in Arguments /\ call[c].org \in Organizations
  BY DEF CallsAreFormed, Arguments
<1>1. TypeOK'
  BY <1>0, TransactionsAssumption DEF TypeOK, CallPcs
<1>2. CallsAreFormed'
  BY <1>0, TransactionsAssumption DEF TypeOK, CallsAreFormed, Arguments
<1>3. CheckedStandsUntilWritten'
  BY DEF TypeOK, CheckedStandsUntilWritten
<1>4. KeepsAnActiveOwner' /\ LastOwnerGuardIsUnreachable'
  BY DEF KeepsAnActiveOwner, LastOwnerGuardIsUnreachable
<1>. QED
  BY <1>1, <1>2, <1>3, <1>4, <1>5

\* Only c is inside the lock of its organisation, so releasing it takes it
\* from nobody else.
LEMMA ReleaseTakesNothing ==
    ASSUME IInv, NEW c \in Calls, callPc[c] \in {"locked", "checked"},
           callPc' = [callPc EXCEPT ![c] = "answered"],
           ReleaseAdminLock(call[c].org), UNCHANGED call
    PROVE  CallsAreFormed'
<1>. USE DEF IInv, ReleaseAdminLock
<1>1. SUFFICES ASSUME NEW d \in Calls, callPc'[d] \in {"locked", "checked"}
               PROVE  adminLock'[call[d].org] = d
  BY DEF TypeOK, CallsAreFormed
<1>2. d # c /\ callPc[d] = callPc'[d]
  BY <1>1 DEF TypeOK
<1>3. adminLock[call[d].org] = d /\ adminLock[call[c].org] = c
  BY <1>1, <1>2 DEF CallsAreFormed
<1>4. call[d].org # call[c].org
  BY <1>2, <1>3
<1>. QED
  BY <1>3, <1>4 DEF TypeOK

\* The checks are made under the lock, on the table as it is.
LEMMA CheckPreserves ==
    ASSUME IInv, NEW c \in Calls, Check(c)
    PROVE  IInv'
<1>. DEFINE verdict == Verdict(memberships, call[c])
<1>0. /\ call[c] \in Arguments
      /\ call[c].org \in Organizations
      /\ memberships \in Tables
  BY DEF IInv, Check, CallsAreFormed, Arguments, TypeOK
<1>1. verdict \in (Refusals \ {"LAST_OWNER"}) \cup {"UNCHANGED", "CHANGED"}
  <2>1. verdict \in Refusals \cup {"UNCHANGED", "CHANGED"}
    BY DEF Verdict, Refusals
  <2>. QED
    BY <2>1, <1>0, VerdictIsNeverLastOwner
<1>4. SeenRowsArePast'
  BY SeenStaysPast DEF IInv, Check, Answer, TypeOK
<1>2. CASE verdict = "CHANGED"
  <2>1. /\ callPc' = [callPc EXCEPT ![c] = "checked"]
        /\ UNCHANGED <<memberships, adminLock, call, outcome>>
        /\ callPc[c] = "locked"
    BY <1>2 DEF Check
  <2>2. TypeOK'
    BY <2>1 DEF IInv, TypeOK, CallPcs
  <2>3. CallsAreFormed'
    BY <2>1 DEF IInv, TypeOK, CallsAreFormed
  <2>4. CheckedStandsUntilWritten'
    <3>1. SUFFICES ASSUME NEW d \in Calls, callPc'[d] = "checked"
                   PROVE  Verdict(memberships, call[d]) = "CHANGED"
      BY <2>1 DEF CheckedStandsUntilWritten, Verdict
    <3>. QED
      BY <3>1, <2>1, <1>2 DEF IInv, TypeOK, CheckedStandsUntilWritten
  <2>5. KeepsAnActiveOwner' /\ LastOwnerGuardIsUnreachable'
    BY <2>1 DEF IInv, KeepsAnActiveOwner, LastOwnerGuardIsUnreachable
  <2>. QED
    BY <2>2, <2>3, <2>4, <2>5, <1>4 DEF IInv
<1>3. CASE verdict # "CHANGED"
  <2>1. /\ callPc' = [callPc EXCEPT ![c] = "answered"]
        /\ outcome' = [outcome EXCEPT ![c] = verdict]
        /\ ReleaseAdminLock(call[c].org)
        /\ UNCHANGED <<memberships, call>>
        /\ callPc[c] = "locked"
    BY <1>3 DEF Check, Answer
  <2>2. TypeOK'
    BY <2>1, <1>0, <1>1 DEF IInv, TypeOK, CallPcs, ReleaseAdminLock, Refusals
  <2>3. CallsAreFormed'
    BY <2>1, ReleaseTakesNothing
  <2>4. CheckedStandsUntilWritten'
    <3>1. SUFFICES ASSUME NEW d \in Calls, callPc'[d] = "checked"
                   PROVE  Verdict(memberships, call[d]) = "CHANGED"
      BY <2>1 DEF CheckedStandsUntilWritten, Verdict
    <3>. QED
      BY <3>1, <2>1 DEF IInv, TypeOK, CheckedStandsUntilWritten
  <2>5. KeepsAnActiveOwner' /\ LastOwnerGuardIsUnreachable'
    BY <2>1, <1>1 DEF IInv, TypeOK, KeepsAnActiveOwner, LastOwnerGuardIsUnreachable
  <2>. QED
    BY <2>2, <2>3, <2>4, <2>5, <1>4 DEF IInv
<1>. QED
  BY <1>2, <1>3

\* The one write: it is made under the lock, so what was checked still holds, and
\* no other call of the organisation is past its own checks.
LEMMA UpdatePreserves ==
    ASSUME IInv, NEW c \in Calls, Update(c)
    PROVE  IInv'
<1>. DEFINE k == call[c]
            row == memberships[k.org][k.subject]
            newRole == NewRole(row, k.change)
            newStatus == NewStatus(row, k.change)
<1>1. /\ k \in Arguments
      /\ k.org \in Organizations /\ k.actor \in Users /\ k.subject \in Users
      /\ k.actor \in Authors
      /\ memberships \in Tables
      /\ callPc[c] = "checked"
      /\ Verdict(memberships, k) = "CHANGED"
      /\ adminLock[k.org] = c
  BY DEF IInv, Update, CallsAreFormed, Arguments, TypeOK, CheckedStandsUntilWritten, Authors
<1>2. /\ row \in Rows
      /\ newRole \in Roles /\ newStatus \in Statuses
      /\ k.actor # k.subject
      /\ MayWrite(ActiveRole(memberships, k.org, k.actor), row, newRole)
  BY <1>1, VerdictGivesAuthority
<1>3. /\ callPc' = [callPc EXCEPT ![c] = "answered"]
      /\ ReleaseAdminLock(k.org)
      /\ UNCHANGED call
      /\ \E what \in {"CHANGED", "STALE_WRITE"} : outcome' = [outcome EXCEPT ![c] = what]
      /\ \/ memberships' = Written(memberships, k.org, k.subject, newRole, newStatus, k.actor)
         \/ UNCHANGED memberships
  BY DEF Update, Answer
<1>4. memberships' \in Tables
  BY <1>1, <1>2, <1>3, WrittenTable
<1>5. TypeOK'
  BY <1>1, <1>3, <1>4 DEF IInv, TypeOK, CallPcs, ReleaseAdminLock, Refusals
<1>6. CallsAreFormed'
  BY <1>1, <1>3, ReleaseTakesNothing
<1>7. KeepsAnActiveOwner'
  <2>1. CASE UNCHANGED memberships
    BY <2>1 DEF IInv, KeepsAnActiveOwner, IsActiveOwner
  <2>2. CASE memberships' = Written(memberships, k.org, k.subject, newRole, newStatus, k.actor)
    <3>1. \A p \in Organizations : \E v \in Users :
            IsActiveOwner(Written(memberships, k.org, k.subject, newRole, newStatus, k.actor), p, v)
      BY <1>1, <1>2, AuthorityKeepsAnActiveOwner DEF IInv, KeepsAnActiveOwner
    <3>. QED
      BY <3>1, <2>2 DEF KeepsAnActiveOwner, IsActiveOwner
  <2>. QED
    BY <1>3, <2>1, <2>2
<1>8. LastOwnerGuardIsUnreachable'
  BY <1>3 DEF IInv, TypeOK, LastOwnerGuardIsUnreachable
<1>9. SeenRowsArePast'
  <2>1. SUFFICES ASSUME NEW d \in Calls, callPc'[d] # "unsent"
                 PROVE  SeenIsPast(call[d])'
    BY DEF SeenRowsArePast
  <2>2. SeenIsPast(call[d]) /\ call[d] \in Arguments
    BY <2>1, <1>3, <1>1 DEF IInv, TypeOK, SeenRowsArePast, CallsAreFormed
  <2>3. CASE memberships'[call[d].org][call[d].subject] = memberships[call[d].org][call[d].subject]
    <3>1. UNCHANGED call
      BY <1>3
    <3>. QED
      BY <2>2, <2>3, <3>1 DEF SeenIsPast
  <2>4. CASE memberships'[call[d].org][call[d].subject] # memberships[call[d].org][call[d].subject]
    <3>0. call[d].org \in Organizations /\ call[d].subject \in Users
      BY <2>2 DEF Arguments
    <3>. HIDE DEF k, newRole, newStatus
    <3>a. memberships' = Written(memberships, k.org, k.subject, newRole, newStatus, k.actor)
      BY <2>4, <1>3
    <3>b. \A p \in Organizations, v \in Users :
            p # k.org \/ v # k.subject => memberships'[p][v] = memberships[p][v]
      BY <3>a, <1>1, <1>2, WrittenTable
    <3>1. /\ memberships' = Written(memberships, k.org, k.subject, newRole, newStatus, k.actor)
          /\ call[d].org = k.org /\ call[d].subject = k.subject
      BY <2>4, <3>0, <3>a, <3>b
    <3>2. memberships'[k.org][k.subject] = Stamped(row, newRole, newStatus, k.actor)
      BY <3>1, <1>1, <1>2, WrittenTable
    <3>3. /\ memberships'[k.org][k.subject].version = row.version + 1
          /\ row.version \in Nat /\ call[d].seen.version \in Nat
      BY <3>2, <1>2, <2>2 DEF Stamped, Rows, NoRow, Arguments
    <3>4. call[d].seen.version <= row.version
      BY <3>1, <2>2 DEF SeenIsPast
    <3>5. memberships'[call[d].org][call[d].subject].version = row.version + 1
      BY <3>1, <3>3
    <3>6. \A m, n \in Nat : m <= n => m <= n + 1 /\ m # n + 1
      OBVIOUS
    <3>7. /\ call[d].seen.version <= row.version + 1
          /\ call[d].seen.version # row.version + 1
      BY SMTT(30), <3>3, <3>4, <3>6
    <3>. QED
      BY <3>5, <3>7, <1>3 DEF SeenIsPast
  <2>. QED
    BY <2>3, <2>4
<1>10. CheckedStandsUntilWritten'
  <2>1. SUFFICES ASSUME NEW d \in Calls, callPc'[d] = "checked"
                 PROVE  (Verdict(memberships, call[d]) = "CHANGED")'
    BY DEF CheckedStandsUntilWritten
  <2>2. /\ d # c /\ callPc[d] = "checked" /\ call[d] \in Arguments
        /\ adminLock[call[d].org] = d
        /\ Verdict(memberships, call[d]) = "CHANGED"
    BY <2>1, <1>3 DEF IInv, TypeOK, CallsAreFormed, CheckedStandsUntilWritten
  <2>3. call[d].org # k.org
    BY <2>2, <1>1
  <2>4. \A u \in Users : memberships'[call[d].org][u] = memberships[call[d].org][u]
    BY SMTT(30), <2>2, <2>3, <1>1, <1>2, <1>3, WrittenTable DEF Arguments
  <2>5. Verdict(memberships', call[d]) = Verdict(memberships, call[d])
    BY <2>4, <2>2 DEF Verdict, ActiveRole, IsActiveOwner, OtherActiveOwner, Arguments
  <2>. QED
    BY <2>2, <2>5, <1>3 DEF Verdict
<1>. QED
  BY <1>5, <1>6, <1>7, <1>8, <1>9, <1>10 DEF IInv

\* Every action preserves the invariant.
LEMMA StepPreserves == IInv /\ [Next]_vars => IInv'
<1>. SUFFICES ASSUME IInv, [Next]_vars
              PROVE  IInv'
  OBVIOUS
<1>1. ASSUME NEW c \in Calls, List(c)
      PROVE  IInv'
  BY <1>1, ListPreserves
<1>2. ASSUME NEW c \in Calls, Authorise(c)
      PROVE  IInv'
  BY <1>2, AuthorisePreserves
<1>3. ASSUME NEW c \in Calls, Lock(c)
      PROVE  IInv'
  BY <1>3, LockPreserves
<1>4. ASSUME NEW c \in Calls, Check(c)
      PROVE  IInv'
  BY <1>4, CheckPreserves
<1>5. ASSUME NEW c \in Calls, Update(c)
      PROVE  IInv'
  BY <1>5, UpdatePreserves
<1>6. CASE UNCHANGED vars
  BY <1>6 DEF vars, administrationVars, IInv, TypeOK, CallsAreFormed, SeenRowsArePast,
       SeenIsPast, CheckedStandsUntilWritten, Verdict, KeepsAnActiveOwner, IsActiveOwner,
       LastOwnerGuardIsUnreachable
<1>. QED
  BY <1>1, <1>2, <1>3, <1>4, <1>5, <1>6 DEF Next, Step

-----------------------------------------------------------------------------
\* The invariant the theorems below are read off.
THEOREM Invariance == Spec => []IInv
<1>1. Init => IInv
  BY InitEstablishes
<1>2. IInv /\ [Next]_vars => IInv'
  BY StepPreserves
<1>. QED
  BY <1>1, <1>2, PTL DEF Spec

\* Every variable of the two functions keeps its type.
THEOREM TypeCorrectness == Spec => []TypeOK
<1>1. IInv => TypeOK
  BY DEF IInv
<1>. QED
  BY <1>1, Invariance, PTL

\* However many calls run at once, in however many organisations, each keeps an
\* ACTIVE OWNER.
THEOREM OwnerRemains == Spec => []KeepsAnActiveOwner
<1>1. IInv => KeepsAnActiveOwner
  BY DEF IInv
<1>. QED
  BY <1>1, Invariance, PTL

\* The count of the remaining owners in change_member_role and
\* change_member_status refuses nothing the other rules let through.
THEOREM LastOwnerGuardIsSecondLine == Spec => []LastOwnerGuardIsUnreachable
<1>1. IInv => LastOwnerGuardIsUnreachable
  BY DEF IInv
<1>. QED
  BY <1>1, Invariance, PTL

\* A write by the two functions is a write under authority.
LEMMA UpdateIsAWrite ==
    ASSUME IInv, NEW c \in Calls, Update(c)
    PROVE  [Authority!Next]_memberships
<1>. DEFINE k == call[c]
            row == memberships[k.org][k.subject]
<1>1. /\ k \in Arguments
      /\ k.org \in Organizations /\ k.actor \in Users /\ k.subject \in Users
      /\ memberships \in Tables
      /\ Verdict(memberships, k) = "CHANGED"
  BY DEF IInv, Update, CallsAreFormed, Arguments, TypeOK, CheckedStandsUntilWritten
<1>2. /\ row \in Rows
      /\ NewRole(row, k.change) \in Roles /\ NewStatus(row, k.change) \in Statuses
      /\ IsAdministrator(memberships, k.org, k.actor)
      /\ k.actor # k.subject
      /\ MayWrite(ActiveRole(memberships, k.org, k.actor), row, NewRole(row, k.change))
  BY <1>1, VerdictGivesAuthority
<1>3. row # NoRow
  BY <1>2 DEF Rows, NoRow
<1>4. CASE memberships' = Written(memberships, k.org, k.subject,
                                  NewRole(row, k.change), NewStatus(row, k.change), k.actor)
  <2>1. Authority!Write(k.org, k.actor, k.subject,
                        NewRole(row, k.change), NewStatus(row, k.change))
    BY <1>2, <1>3, <1>4 DEF Authority!Write, Authority!IsAdministrator, IsAdministrator,
       Authority!ActiveRole, ActiveRole, Authority!MayWrite, MayWrite, Authority!NoRow, NoRow,
       Authority!Written, Written, Authority!Stamped, Stamped,
       Authority!AdministratorRoles, AdministratorRoles
  <2>. QED
    BY SMTT(30), <2>1, <1>1, <1>2
       DEF Authority!Next, Authority!Roles, Roles, Authority!Statuses, Statuses
<1>5. CASE UNCHANGED memberships
  BY <1>5
<1>. QED
  BY <1>4, <1>5 DEF Update

\* The two functions implement OrganizationAuthority: every step writes a row
\* under authority or leaves the table alone.
THEOREM ImplementsAuthority == Spec => WritesUnderAuthority
<1>1. Init => Authority!Init
  BY DEF Init, Authority!Init, InitialTables, Authority!InitialTables, Roles, Authority!Roles,
     Statuses, Authority!Statuses, NoRow, Authority!NoRow, IsActiveOwner,
     Authority!IsActiveOwner, ActiveRole, Authority!ActiveRole
<1>2. IInv /\ [Next]_vars => [Authority!Next]_memberships
  <2>. SUFFICES ASSUME IInv, [Next]_vars
                PROVE  [Authority!Next]_memberships
    OBVIOUS
  <2>1. ASSUME NEW c \in Calls, Update(c)
        PROVE  [Authority!Next]_memberships
    BY <2>1, UpdateIsAWrite
  <2>2. ASSUME NEW c \in Calls, List(c) \/ Authorise(c) \/ Lock(c) \/ Check(c)
        PROVE  UNCHANGED memberships
    BY <2>2 DEF List, Authorise, Lock, Check
  <2>. QED
    BY <2>1, <2>2 DEF Next, Step, vars
<1>. QED
  BY <1>1, <1>2, Invariance, PTL DEF Spec, WritesUnderAuthority, Authority!Spec

\* A call answers CHANGED only in the step that replaces the row it was sent with.
LEMMA OnlyWhatWasSeen ==
    ASSUME IInv, NEW d \in Calls, Step(d), NEW c \in Calls,
           outcome[c] = "NONE", outcome'[c] = "CHANGED"
    PROVE  memberships[call[c].org][call[c].subject] = call[c].seen
<1>1. CASE Lock(d)
  BY <1>1 DEF Lock
<1>2. CASE Authorise(d)
  BY <1>2 DEF IInv, TypeOK, Authorise, Answer
<1>3. CASE Check(d)
  BY <1>3 DEF IInv, TypeOK, Check, Answer
<1>4. CASE Update(d)
  <2>1. d = c /\ callPc[c] = "checked"
    BY <1>4 DEF IInv, TypeOK, Update, Answer
  <2>2. VersionMatches(memberships[call[c].org][call[c].subject], call[c])
    BY <2>1, <1>4 DEF IInv, TypeOK, Update, Answer
  <2>. QED
    BY <2>1, <2>2 DEF IInv, SeenRowsArePast, SeenIsPast, VersionMatches
<1>. QED
  BY <1>1, <1>2, <1>3, <1>4 DEF Step

\* No lost update, for any number of callers and any age of the lists they act
\* on.
THEOREM NoLostUpdate == Spec => ChangesOnlyWhatWasSeen
<1>. DEFINE Act == \A c \in Calls :
              outcome[c] = "NONE" /\ outcome'[c] = "CHANGED"
                => memberships[call[c].org][call[c].subject] = call[c].seen
<1>1. IInv /\ [Next]_vars => [Act]_vars
  <2>. SUFFICES ASSUME IInv, Next, NEW c \in Calls,
                       outcome[c] = "NONE", outcome'[c] = "CHANGED"
                PROVE  memberships[call[c].org][call[c].subject] = call[c].seen
    OBVIOUS
  <2>1. ASSUME NEW d \in Calls, List(d)
        PROVE  FALSE
    BY <2>1 DEF List
  <2>. QED
    BY <2>1, OnlyWhatWasSeen DEF Next
<1>. QED
  BY <1>1, Invariance, PTL DEF Spec, ChangesOnlyWhatWasSeen
=============================================================================
