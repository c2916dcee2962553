---------------------------- MODULE Provisioning ----------------------------
(***************************************************************************)
(* admin-provision-user and what it works on: the provisioning attempts,   *)
(* the Auth identities, the profiles, and the memberships it shares with   *)
(* MembershipAdministration, whose calls run beside it.                    *)
(*                                                                         *)
(* A run of the Edge Function is split at every call it awaits, and a call *)
(* of the database at every statement that may wait for a lock.  A run may *)
(* be killed anywhere; a statement the database has begun still finishes.  *)
(***************************************************************************)
EXTENDS MembershipAdministration

CONSTANTS
    Emails,
    EmailOf,            \* the address each identity is, or would be, created for
    Drafts,             \* what invitation forms can be submitted
    Requests,           \* request_ids
    Runs,               \* invocations of the Edge Function, each made once
    PurgeTargets        \* identities the operator tries to purge

ASSUME ProvisioningAssumption ==
    /\ Runs \subseteq Transactions
    /\ Calls \cap Runs = {}
    /\ EmailOf \in [Users -> Emails]
    /\ Drafts \subseteq [org : Organizations, email : Emails, role : Roles, caller : Users]
    /\ PurgeTargets \subseteq Users
    /\ None \notin Users

VARIABLES
    attempt,            \* app_data.provisioning_attempts
    attemptLock,        \* request -> the run that holds its row FOR UPDATE
    identity,           \* auth.users
    profile,            \* app_data.profiles: absent, or its must_change_password
    runPc, run, runOutcome,
    abandoned,          \* runs killed while the database works for them
    purge               \* the operator's purge_orphaned_auth_identity

provisioningVars ==
    <<attempt, attemptLock, identity, profile, runPc, run, runOutcome, abandoned, purge>>
allVars == <<vars, provisioningVars>>

AttemptRows ==
    [status : {"IN_FLIGHT", "SUCCEEDED", "FAILED"}, org : Organizations, email : Emails,
     role : Roles, actor : Users, subject : Users \cup {None}]
NoAttempt == [status |-> "NONE"]

\* invited_at and email_confirmed_at, and whether the person has ever chosen a
\* password.  An id is never given out twice.
Identities ==
    [state : {"ABSENT", "UNCONFIRMED", "CONFIRMED", "DELETED"},
     invited : BOOLEAN, password : BOOLEAN]
NoIdentity == [state |-> "ABSENT", invited |-> FALSE, password |-> FALSE]

Exists(u) == identity[u].state \in {"UNCONFIRMED", "CONFIRMED"}
Accounts(email) == {u \in Users : EmailOf[u] = email /\ Exists(u)}

RunArguments ==
    [request : Requests, draft : Drafts, user : Users \cup {None}, created : BOOLEAN]
NotStarted == [request |-> None]

InDatabase == {"claim", "linkwait", "linkheld", "linkchecked"}
InFunction == {"begin", "find", "invite", "refind", "link", "fail"}
RunPcs == InDatabase \cup InFunction \cup {"idle", "answered", "dead"}
RunOutcomes ==
    {"NONE", "FORBIDDEN", "DUPLICATE_KEY", "ALREADY_SUCCEEDED", "PROVISIONING_IN_FLIGHT",
     "SERVER_UNAVAILABLE", "FAILED", "SUCCEEDED"}

ProvisioningTypeOK ==
    /\ TypeOK
    /\ attempt \in [Requests -> AttemptRows \cup {NoAttempt}]
    /\ attemptLock \in [Requests -> Runs \cup {None}]
    /\ identity \in [Users -> Identities]
    /\ profile \in [Users -> {"ABSENT", "MUST_CHANGE_PASSWORD", "SETTLED"}]
    /\ runPc \in [Runs -> RunPcs]
    /\ run \in [Runs -> RunArguments \cup {NotStarted}]
    /\ runOutcome \in [Runs -> RunOutcomes]
    /\ abandoned \subseteq Runs
    /\ purge \in [pc : {"none", "locked", "checked"}, user : Users \cup {None}]

\* Everybody with a membership has a settled account.  Anybody else has none
\* yet, or one that another way in has created; an address has at most one.
ProvisioningInit ==
    /\ Init
    /\ attempt = [r \in Requests |-> NoAttempt]
    /\ attemptLock = [r \in Requests |-> None]
    /\ identity \in [Users -> {NoIdentity,
                               [state |-> "CONFIRMED", invited |-> FALSE, password |-> TRUE]}]
    /\ \A o \in Organizations, u \in Users : IsMember(memberships, o, u) => Exists(u)
    /\ \A u, v \in Users : Exists(u) /\ Exists(v) /\ EmailOf[u] = EmailOf[v] => u = v
    /\ profile = [u \in Users |->
                    IF \E o \in Organizations : IsMember(memberships, o, u)
                    THEN "SETTLED" ELSE "ABSENT"]
    /\ runPc = [e \in Runs |-> "idle"]
    /\ run = [e \in Runs |-> NotStarted]
    /\ runOutcome = [e \in Runs |-> "NONE"]
    /\ abandoned = {}
    /\ purge = [pc |-> "none", user |-> None]

-----------------------------------------------------------------------------
(* How a run gets on.                                                      *)

\* A killed run's statement finishes, and nobody is there to take its answer.
Proceed(e, pc, what) ==
    /\ abandoned' = abandoned \ {e}
    /\ IF e \in abandoned
       THEN runPc' = [runPc EXCEPT ![e] = "dead"] /\ UNCHANGED runOutcome
       ELSE /\ runPc' = [runPc EXCEPT ![e] = pc]
            /\ runOutcome' = [runOutcome EXCEPT ![e] = what]
Go(e, pc) == Proceed(e, pc, "NONE")
Respond(e, what) == Proceed(e, "answered", what)

\* To the next statement of the transaction the database is in.
Continue(e, pc) ==
    /\ runPc' = [runPc EXCEPT ![e] = pc]
    /\ UNCHANGED <<runOutcome, abandoned>>

AttemptRowFree(r) == attemptLock[r] = None
Release(r) == attemptLock' = [attemptLock EXCEPT ![r] = None]

(* The form, and 1 CLAIM THE ATTEMPT.                                      *)

\* Any caller may send any invitation under any request_id, again included.
Press(e) ==
    /\ runPc[e] = "idle"
    /\ \E r \in Requests, d \in Drafts :
        run' = [run EXCEPT ![e] = [request |-> r, draft |-> d, user |-> None,
                                   created |-> FALSE]]
    /\ Go(e, "begin")
    /\ UNCHANGED <<memberships, adminLock, attempt, attemptLock, identity, profile, purge>>

\* The two role checks begin_provisioning makes before it touches the attempt.
AuthoriseRun(e) ==
    LET d == run[e].draft
        role == ActiveRole(memberships, d.org, d.caller)
    IN  /\ runPc[e] = "begin"
        /\ IF role \in AdministratorRoles /\ (d.role = "OWNER" => role = "OWNER")
           THEN Continue(e, "claim")
           ELSE Respond(e, "FORBIDDEN")
        /\ UNCHANGED <<memberships, adminLock, attempt, attemptLock, identity, profile, run, purge>>

SameAddressOnly(a, d) == a.email = d.email         \* fault: the organisation is not compared
SameInvitation(a, d) == a.org = d.org /\ a.email = d.email

ClaimVerdict(a, d) ==
    IF a = NoAttempt THEN "CLAIMED"
    ELSE IF ~SameInvitation(a, d) THEN "DUPLICATE_KEY"
    ELSE CASE a.status = "SUCCEEDED" -> "ALREADY_SUCCEEDED"
           [] a.status = "IN_FLIGHT" -> "PROVISIONING_IN_FLIGHT"
           [] a.status = "FAILED" -> "CLAIMED"

\* INSERT ON CONFLICT DO NOTHING, or the existing row FOR UPDATE.  The answer
\* may be lost after the claim has committed.
Claim(e) ==
    LET r == run[e].request
        d == run[e].draft
        verdict == ClaimVerdict(attempt[r], d)
    IN  /\ runPc[e] = "claim"
        /\ AttemptRowFree(r)
        /\ IF verdict = "CLAIMED"
           THEN /\ attempt' = [attempt EXCEPT ![r] =
                      [status |-> "IN_FLIGHT", org |-> d.org, email |-> d.email,
                       role |-> d.role, actor |-> d.caller, subject |-> None]]
                /\ Go(e, "find") \/ Respond(e, "SERVER_UNAVAILABLE")
           ELSE Respond(e, verdict) /\ UNCHANGED attempt
        /\ UNCHANGED <<memberships, adminLock, attemptLock, identity, profile, run, purge>>

(* 2 RESOLVE THE AUTH USER.                                                *)

\* The directory may be unavailable: the function throws and the attempt stays
\* IN_FLIGHT.
DirectoryUnavailable(e) == Respond(e, "SERVER_UNAVAILABLE") /\ UNCHANGED run

Find(e) ==
    LET found == Accounts(run[e].draft.email) IN
    /\ runPc[e] = "find"
    /\ \/ DirectoryUnavailable(e)
       \/ \E u \in found :
            IF identity[u].state = "CONFIRMED"
            THEN run' = [run EXCEPT ![e].user = u] /\ Go(e, "link")
            ELSE UNCHANGED run /\ Go(e, "invite")
       \/ found = {} /\ run' = [run EXCEPT ![e].created = TRUE] /\ Go(e, "invite")
    /\ UNCHANGED <<memberships, adminLock, attempt, attemptLock, identity, profile, purge>>

UserRowFree(u) == purge.user # u

\* inviteUserByEmail: Auth creates the account, or sends the mail again to one
\* that is not confirmed, or refuses.  Its answer may be lost.
Invitable(u, email) ==
    /\ EmailOf[u] = email
    /\ UserRowFree(u)
    /\ \/ identity[u].state = "UNCONFIRMED"
       \/ identity[u] = NoIdentity /\ Accounts(email) = {}

Invite(e) ==
    /\ runPc[e] = "invite"
    /\ \/ Go(e, "refind") /\ UNCHANGED <<identity, run>>
       \/ \E u \in Users :
            /\ Invitable(u, run[e].draft.email)
            /\ identity' = [identity EXCEPT ![u].state = "UNCONFIRMED", ![u].invited = TRUE]
            /\ \/ run' = [run EXCEPT ![e].user = u] /\ Go(e, "link")
               \/ UNCHANGED run /\ Go(e, "refind")
    /\ UNCHANGED <<memberships, adminLock, attempt, attemptLock, profile, purge>>

\* After a refused invitation: link what exists by now.
Refind(e) ==
    LET found == Accounts(run[e].draft.email) IN
    /\ runPc[e] = "refind"
    /\ \/ DirectoryUnavailable(e)
       \/ \E u \in found : /\ run' = [run EXCEPT ![e].user = u, ![e].created = FALSE]
                           /\ Go(e, "link")
       \/ found = {} /\ Go(e, "fail") /\ UNCHANGED run
    /\ UNCHANGED <<memberships, adminLock, attempt, attemptLock, identity, profile, purge>>

(* 3 LINK: complete_provisioning.                                          *)

ClearedStands(a) == TRUE                            \* fault: only SUCCEEDED is asked about
AttemptStands(a) == a.status = "IN_FLIGHT"

\* The attempt's row FOR UPDATE.  The call may not arrive.
LinkLock(e) ==
    LET r == run[e].request IN
    /\ runPc[e] = "link"
    /\ \/ Go(e, "fail") /\ UNCHANGED attemptLock
       \/ /\ AttemptRowFree(r)
          /\ IF attempt[r].status = "SUCCEEDED"
             THEN Respond(e, "SUCCEEDED") /\ UNCHANGED attemptLock
             ELSE IF AttemptStands(attempt[r])
             THEN Continue(e, "linkwait") /\ attemptLock' = [attemptLock EXCEPT ![r] = e]
             ELSE Go(e, "fail") /\ UNCHANGED attemptLock
    /\ UNCHANGED <<memberships, adminLock, attempt, identity, profile, run, purge>>

LinkAdmin(e) ==
    /\ runPc[e] = "linkwait"
    /\ TakeAdminLock(attempt[run[e].request].org, e)
    /\ Continue(e, "linkheld")
    /\ UNCHANGED <<memberships, attempt, attemptLock, identity, profile, run, purge>>

\* The checks on the roles as they are now.
GrantedAtTheClaim(role, a) == TRUE                  \* fault: OWNER grant not asked again
MayGrant(role, a) == a.role = "OWNER" => role = "OWNER"

MayLink(table, a, u) ==
    LET role == ActiveRole(table, a.org, a.actor)
        row == table[a.org][u]
    IN  /\ StillAdministrator(role)
        /\ MayGrant(role, a)
        /\ row.role = "OWNER" => role = "OWNER"
        /\ row # NoRow /\ u = a.actor => row.role = a.role /\ row.status = "ACTIVE"
        /\ ~(/\ IsActiveOwner(table, a.org, u)
             /\ a.role # "OWNER"
             /\ ~OtherActiveOwner(table, a.org, u))

LinkCheck(e) ==
    LET r == run[e].request IN
    /\ runPc[e] = "linkheld"
    /\ IF MayLink(memberships, attempt[r], run[e].user)
       THEN Continue(e, "linkchecked") /\ UNCHANGED <<adminLock, attemptLock>>
       ELSE ReleaseAdminLock(attempt[r].org) /\ Release(r) /\ Go(e, "fail")
    /\ UNCHANGED <<memberships, attempt, identity, profile, run, purge>>

CreatedHere(u, created) == created                  \* fault: onboarding from created_here
RequiresPasswordSetup(u, created) == identity[u].state = "UNCONFIRMED" \/ identity[u].invited

NoForeignKey(u) == TRUE                             \* fault: the identity is not asked about
IdentityIsThere(u) == Exists(u)

\* The writes and the commit.  Their foreign keys wait for a purge that holds
\* the identity's row.  The answer may be lost.
LinkCommit(e) ==
    LET r == run[e].request
        a == attempt[r]
        u == run[e].user
    IN  /\ runPc[e] = "linkchecked"
        /\ UserRowFree(u)
        /\ ReleaseAdminLock(a.org)
        /\ Release(r)
        /\ IF IdentityIsThere(u)
           THEN /\ profile' = [profile EXCEPT ![u] =
                      IF @ # "ABSENT" THEN @
                      ELSE IF RequiresPasswordSetup(u, run[e].created)
                           THEN "MUST_CHANGE_PASSWORD" ELSE "SETTLED"]
                /\ memberships' = Written(memberships, a.org, u, a.role, "ACTIVE", a.actor)
                /\ attempt' = [attempt EXCEPT ![r].status = "SUCCEEDED", ![r].subject = u]
                /\ Respond(e, "SUCCEEDED") \/ Go(e, "fail")
           ELSE Go(e, "fail") /\ UNCHANGED <<profile, memberships, attempt>>
        /\ UNCHANGED <<identity, run, purge>>

(* 4 ON FAILURE, and the other things that happen to an attempt.           *)

Failed(r) ==
    attempt' = [attempt EXCEPT ![r].status = IF @ = "IN_FLIGHT" THEN "FAILED" ELSE @]

\* failAttempt: fail_provisioning may itself fail, and the function answers all
\* the same.
Fail(e) ==
    /\ runPc[e] = "fail"
    /\ Respond(e, "FAILED")
    /\ \/ UNCHANGED attempt
       \/ AttemptRowFree(run[e].request) /\ Failed(run[e].request)
    /\ UNCHANGED <<memberships, adminLock, attemptLock, identity, profile, run, purge>>

Kill(e) ==
    /\ \/ runPc[e] \in InFunction
          /\ runPc' = [runPc EXCEPT ![e] = "dead"] /\ UNCHANGED abandoned
       \/ runPc[e] \in InDatabase
          /\ abandoned' = abandoned \cup {e} /\ UNCHANGED runPc
    /\ UNCHANGED <<memberships, adminLock, attempt, attemptLock, identity, profile, run,
                   runOutcome, purge>>

\* clear_provisioning_attempt, by an OWNER who thinks the run is dead.
Clear(r) ==
    /\ attempt[r].status = "IN_FLIGHT"
    /\ AttemptRowFree(r)
    /\ \E u \in Users : IsActiveOwner(memberships, attempt[r].org, u)
    /\ Failed(r)
    /\ UNCHANGED <<memberships, adminLock, attemptLock, identity, profile, runPc, run,
                   runOutcome, abandoned, purge>>

(* The person, and the operator.                                           *)

\* The invitation's link is opened.
Accept(u) ==
    /\ identity[u].state = "UNCONFIRMED"
    /\ UserRowFree(u)
    /\ identity' = [identity EXCEPT ![u].state = "CONFIRMED"]
    /\ UNCHANGED <<memberships, adminLock, attempt, attemptLock, profile, runPc, run,
                   runOutcome, abandoned, purge>>

\* changePassword: Auth takes the new password, and then the flag is cleared.
SetPassword(u) ==
    /\ identity[u].state = "CONFIRMED" /\ ~identity[u].password
    /\ UserRowFree(u)
    /\ identity' = [identity EXCEPT ![u].password = TRUE]
    /\ UNCHANGED <<memberships, adminLock, attempt, attemptLock, profile, runPc, run,
                   runOutcome, abandoned, purge>>

AcknowledgePasswordChange(u) ==
    /\ identity[u].state = "CONFIRMED" /\ identity[u].password
    /\ profile[u] = "MUST_CHANGE_PASSWORD"
    /\ profile' = [profile EXCEPT ![u] = "SETTLED"]
    /\ UNCHANGED <<memberships, adminLock, attempt, attemptLock, identity, runPc, run,
                   runOutcome, abandoned, purge>>

\* purge_orphaned_auth_identity: the identity's row FOR UPDATE, then the checks.
PurgeLock(u) ==
    /\ purge.pc = "none"
    /\ Exists(u)
    /\ purge' = [pc |-> "locked", user |-> u]
    /\ UNCHANGED <<memberships, adminLock, attempt, attemptLock, identity, profile, runPc,
                   run, runOutcome, abandoned>>

NoMembership(u) == \A o \in Organizations : ~IsMember(memberships, o, u)

Purgeable(u) ==
    /\ NoMembership(u)
    /\ \A r \in Requests :
         attempt[r].status = "IN_FLIGHT" => attempt[r].email # EmailOf[u]

PurgeCheck ==
    /\ purge.pc = "locked"
    /\ purge' = IF Purgeable(purge.user) THEN [purge EXCEPT !.pc = "checked"]
                ELSE [pc |-> "none", user |-> None]
    /\ UNCHANGED <<memberships, adminLock, attempt, attemptLock, identity, profile, runPc,
                   run, runOutcome, abandoned>>

\* DELETE FROM auth.users: profile and memberships cascade, and an attempt that
\* SUCCEEDED with this subject cannot lose it.
PurgeDelete ==
    LET u == purge.user IN
    /\ purge.pc = "checked"
    /\ purge' = [pc |-> "none", user |-> None]
    /\ IF \E r \in Requests : attempt[r].status = "SUCCEEDED" /\ attempt[r].subject = u
       THEN UNCHANGED <<identity, profile, memberships>>
       ELSE /\ identity' = [identity EXCEPT ![u].state = "DELETED"]
            /\ profile' = [profile EXCEPT ![u] = "ABSENT"]
            /\ memberships' = [o \in Organizations |-> [memberships[o] EXCEPT ![u] = NoRow]]
    /\ UNCHANGED <<adminLock, attempt, attemptLock, runPc, run, runOutcome, abandoned>>

-----------------------------------------------------------------------------
RunStep(e) ==
    \/ AuthoriseRun(e) \/ Claim(e) \/ Find(e) \/ Invite(e) \/ Refind(e)
    \/ LinkLock(e) \/ LinkAdmin(e) \/ LinkCheck(e) \/ LinkCommit(e) \/ Fail(e)

ProvisioningStep ==
    \/ \E e \in Runs : Press(e) \/ RunStep(e) \/ Kill(e)
    \/ \E r \in Requests : Clear(r)
    \/ \E u \in Users : Accept(u) \/ SetPassword(u) \/ AcknowledgePasswordChange(u)
    \/ \E u \in PurgeTargets : PurgeLock(u)
    \/ PurgeCheck \/ PurgeDelete

ProvisioningNext ==
    \/ Next /\ UNCHANGED provisioningVars
    \/ ProvisioningStep /\ UNCHANGED administrationVars

\* People and the platform may stop; a function that has begun runs on until it
\* is killed, and a transaction that has begun until it ends.  PostgreSQL hands a
\* row to those who wait for it in turn, so no purge keeps a run out for ever.
ProvisioningFairness ==
    /\ \A c \in Calls : WF_allVars(Step(c) /\ UNCHANGED provisioningVars)
    /\ \A e \in Runs : SF_allVars(RunStep(e) /\ UNCHANGED administrationVars)
    /\ WF_allVars((PurgeCheck \/ PurgeDelete) /\ UNCHANGED administrationVars)

ProvisioningSpec == ProvisioningInit /\ [][ProvisioningNext]_allVars /\ ProvisioningFairness

-----------------------------------------------------------------------------
\* Whatever was purged, killed, cleared or retried, every membership belongs to
\* a live account with a profile, and every attempt that SUCCEEDED names a live
\* account of the address it was for, a member of its organisation.
LinkedToLiveAccounts ==
    /\ \A o \in Organizations, u \in Users :
         IsMember(memberships, o, u) => Exists(u) /\ profile[u] # "ABSENT"
    /\ \A r \in Requests : attempt[r].status = "SUCCEEDED" =>
         /\ attempt[r].subject # None
         /\ EmailOf[attempt[r].subject] = attempt[r].email
         /\ IsMember(memberships, attempt[r].org, attempt[r].subject)

\* A membership is granted by the step that turns an attempt from IN_FLIGHT to
\* SUCCEEDED, once: a retry, a late run or a run that was cleared never grants
\* again, so it never undoes what administrators have changed since.
GrantsOncePerRequest ==
    [][/\ \A r \in Requests : attempt[r].status = "SUCCEEDED" => attempt'[r] = attempt[r]
       /\ UNCHANGED administrationVars /\ memberships' # memberships =>
            \E r \in Requests :
              /\ attempt[r].status = "IN_FLIGHT" /\ attempt'[r].status = "SUCCEEDED"
              /\ memberships' = Written(memberships, attempt[r].org, attempt'[r].subject,
                                        attempt[r].role, "ACTIVE", attempt[r].actor)]_allVars

\* An answer of success is true of the invitation that was sent: its address
\* belongs to a member of its organisation, whichever run did the work.
SuccessIsOfThisInvitation ==
    \A e \in Runs : runOutcome[e] \in {"SUCCEEDED", "ALREADY_SUCCEEDED"} =>
      \E u \in Users : /\ EmailOf[u] = run[e].draft.email
                      /\ IsMember(memberships, run[e].draft.org, u)

\* Somebody who came by invitation and has not chosen a password yet is still
\* asked to, even when an earlier attempt had created the account.
OnboardingIsOwed ==
    \A u \in Users :
      Exists(u) /\ identity[u].invited /\ ~identity[u].password /\ profile[u] # "ABSENT"
        => profile[u] = "MUST_CHANGE_PASSWORD"

\* A run that has begun answers or is killed: nothing it waits for is held for
\* ever.
RunsAreAnswered ==
    \A e \in Runs : runPc[e] = "begin" ~> runPc[e] \in {"answered", "dead"}

\* Beside one another, neither the calls nor the runs wait for ever.
EveryoneIsAnswered == EveryCallIsAnswered /\ RunsAreAnswered

\* "4 ON FAILURE mark the attempt FAILED": a run whose claim it is and that
\* answers an error asks for that first.  (Not so: README.md.)
FailuresAreRecorded ==
    [][\A e \in Runs : runPc[e] \in {"find", "invite", "refind", "link"} /\ runPc'[e] = "answered"
         => runOutcome'[e] = "SUCCEEDED"]_allVars

\* "CLAIMED: this call owns the attempt": no other run works on it too.
\* (Not so: README.md.)
ClaimIsExclusive ==
    \A e, f \in Runs :
      /\ e # f /\ run[e] # NotStarted /\ run[f] # NotStarted
      /\ run[e].request = run[f].request
      => ~({runPc[e], runPc[f]} \subseteq {"find", "invite", "refind", "link"})
=============================================================================
