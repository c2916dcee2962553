---------------------- MODULE MembershipAdministration ----------------------
(***************************************************************************)
(* change_member_role and change_member_status (Phase 12 migration): each  *)
(* call is one READ COMMITTED transaction whose statements see the newest  *)
(* committed rows, so a call is split at every statement between which     *)
(* another transaction can commit.                                         *)
(***************************************************************************)
EXTENDS Memberships

CONSTANTS
    Calls,              \* invocations of the two RPCs, each made once
    Transactions,       \* everything that can hold the advisory lock
    None                \* no holder

ASSUME TransactionsAssumption ==
    /\ Calls \subseteq Transactions
    /\ None \notin Transactions

VARIABLES
    memberships,        \* app_data.memberships
    adminLock,          \* organisation -> transaction holding its advisory lock
    callPc,             \* where each call has got to
    call,               \* its arguments, and the row its caller had on the screen
    outcome             \* what it answered

administrationVars == <<callPc, call, outcome>>
vars == <<memberships, adminLock, administrationVars>>

\* The new value of the role or of the status column; which of the two RPCs is
\* called follows from it.
Changes == Roles \cup Statuses

Arguments ==
    [org : Organizations, actor : Users, subject : Users,
     change : Changes, seen : Rows \cup {NoRow}]

Unsent == [org |-> None]

Refusals ==
    {"NOT_ADMINISTRATOR", "OWN_MEMBERSHIP", "RECORD_NOT_FOUND", "OWNER_ONLY",
     "STALE_WRITE", "LAST_OWNER"}

CallPcs == {"unsent", "listed", "waiting", "locked", "checked", "answered"}

RoleColumnAlways(row, change) == change            \* fault: the RPCs share one UPDATE
NewRole(row, change) == IF change \in Roles THEN change ELSE row.role
NewStatus(row, change) == IF change \in Statuses THEN change ELSE row.status

-----------------------------------------------------------------------------
TypeOK ==
    /\ memberships \in Tables
    /\ adminLock \in [Organizations -> Transactions \cup {None}]
    /\ callPc \in [Calls -> CallPcs]
    /\ call \in [Calls -> Arguments \cup {Unsent}]
    /\ outcome \in [Calls -> Refusals \cup {"NONE", "UNCHANGED", "CHANGED"}]

Init ==
    /\ memberships \in InitialTables
    /\ adminLock = [o \in Organizations |-> None]
    /\ callPc = [c \in Calls |-> "unsent"]
    /\ call = [c \in Calls |-> Unsent]
    /\ outcome = [c \in Calls |-> "NONE"]

-----------------------------------------------------------------------------
(* The administrator's screen: organization_members, then a click.         *)

\* An administrator reads the member list and decides on a change to one row.
\* A caller of the RPC is not held to what the screen offers, so the subject
\* may be anybody, the caller included.
List(c) ==
    /\ callPc[c] = "unsent"
    /\ \E o \in Organizations, actor, subject \in Users, change \in Changes :
        /\ IsAdministrator(memberships, o, actor)
        /\ call' = [call EXCEPT ![c] =
                       [org |-> o, actor |-> actor, subject |-> subject,
                        change |-> change, seen |-> memberships[o][subject]]]
    /\ callPc' = [callPc EXCEPT ![c] = "listed"]
    /\ UNCHANGED <<memberships, adminLock, outcome>>

(* The transaction.                                                        *)

Answer(c, what) ==
    /\ callPc' = [callPc EXCEPT ![c] = "answered"]
    /\ outcome' = [outcome EXCEPT ![c] = what]

\* pg_advisory_xact_lock: taken when free, held to the end of the transaction.
NeverWaits(o) == TRUE                               \* fault: no lock taken
LockFree(o) == adminLock[o] = None
TakeAdminLock(o, t) == LockFree(o) /\ adminLock' = [adminLock EXCEPT ![o] = t]
HeldBySession(o) == UNCHANGED adminLock             \* fault: a session-level lock
ReleaseAdminLock(o) == adminLock' = [adminLock EXCEPT ![o] = None]

\* The first authority check, before the lock.
Authorise(c) ==
    /\ callPc[c] = "listed"
    /\ IF IsAdministrator(memberships, call[c].org, call[c].actor)
       THEN callPc' = [callPc EXCEPT ![c] = "waiting"] /\ UNCHANGED outcome
       ELSE Answer(c, "NOT_ADMINISTRATOR")
    /\ UNCHANGED <<memberships, adminLock, call>>

Lock(c) ==
    /\ callPc[c] = "waiting"
    /\ TakeAdminLock(call[c].org, c)
    /\ callPc' = [callPc EXCEPT ![c] = "locked"]
    /\ UNCHANGED <<memberships, call, outcome>>

\* The checks after the lock, in the order the functions make them, on the
\* role the actor has now.
RoleFromBefore(role) == TRUE                        \* fault: not asked again
StillAdministrator(role) == role \in AdministratorRoles

SelfAllowed(k) == FALSE                             \* fault: the rule is missing
OwnMembership(k) == k.subject = k.actor

VersionIgnored(row, k) == TRUE                      \* fault: last writer wins
VersionMatches(row, k) == row.version = k.seen.version

Verdict(table, k) ==
    LET row == table[k.org][k.subject]
        actorRole == ActiveRole(table, k.org, k.actor)
        newRole == NewRole(row, k.change)
        newStatus == NewStatus(row, k.change)
    IN  IF ~StillAdministrator(actorRole) THEN "NOT_ADMINISTRATOR"
        ELSE IF OwnMembership(k) THEN "OWN_MEMBERSHIP"
        ELSE IF row = NoRow THEN "RECORD_NOT_FOUND"
        ELSE IF ~MayWrite(actorRole, row, newRole) THEN "OWNER_ONLY"
        ELSE IF ~VersionMatches(row, k) THEN "STALE_WRITE"
        ELSE IF newRole = row.role /\ newStatus = row.status THEN "UNCHANGED"
        ELSE IF /\ IsActiveOwner(table, k.org, k.subject)
                /\ newRole # "OWNER" \/ newStatus # "ACTIVE"
                /\ ~OtherActiveOwner(table, k.org, k.subject)
             THEN "LAST_OWNER"
        ELSE "CHANGED"

Check(c) ==
    /\ callPc[c] = "locked"
    /\ LET verdict == Verdict(memberships, call[c]) IN
       IF verdict = "CHANGED"
       THEN callPc' = [callPc EXCEPT ![c] = "checked"] /\ UNCHANGED <<adminLock, outcome>>
       ELSE Answer(c, verdict) /\ ReleaseAdminLock(call[c].org)
    /\ UNCHANGED <<memberships, call>>

\* UPDATE ... WHERE version = p_expected_version, and the commit.
Update(c) ==
    LET k == call[c]
        row == memberships[k.org][k.subject]
    IN  /\ callPc[c] = "checked"
        /\ ReleaseAdminLock(k.org)
        /\ IF VersionMatches(row, k)
           THEN /\ memberships' = Written(memberships, k.org, k.subject,
                                          NewRole(row, k.change), NewStatus(row, k.change),
                                          k.actor)
                /\ Answer(c, "CHANGED")
           ELSE Answer(c, "STALE_WRITE") /\ UNCHANGED memberships
        /\ UNCHANGED call

Step(c) == Authorise(c) \/ Lock(c) \/ Check(c) \/ Update(c)

Next == \E c \in Calls : List(c) \/ Step(c)

\* A person may stop before calling; a transaction that has begun runs on, and
\* PostgreSQL hands a freed advisory lock to somebody who waits for it.
Fairness == \A c \in Calls : WF_vars(Step(c))

Spec == Init /\ [][Next]_vars /\ Fairness

-----------------------------------------------------------------------------
\* No organisation is ever left without an ACTIVE OWNER, whatever the two
\* functions are asked at the same moment (two OWNERs demoting each other).
KeepsAnActiveOwner ==
    \A o \in Organizations : \E u \in Users : IsActiveOwner(memberships, o, u)

\* The advisory lock makes the count of the remaining owners a second line
\* only: no call is ever refused by it.
LastOwnerGuardIsUnreachable == \A c \in Calls : outcome[c] # "LAST_OWNER"

\* No lost update: a call that answers CHANGED has replaced exactly the row its
\* caller was looking at, however long ago the list was read.
ChangesOnlyWhatWasSeen ==
    [][\A c \in Calls :
         outcome[c] = "NONE" /\ outcome'[c] = "CHANGED"
           => memberships[call[c].org][call[c].subject] = call[c].seen]_vars

\* Whoever is on record for a row held the authority for that change at
\* the instant of the write, never about themselves.
Authority == INSTANCE OrganizationAuthority
WritesUnderAuthority == Authority!Spec

\* A call that has been sent is answered: the lock is always given back.
EveryCallIsAnswered ==
    \A c \in Calls : callPc[c] = "listed" ~> callPc[c] = "answered"
=============================================================================
