------------------------- MODULE ProvisioningProofs -------------------------
(***************************************************************************)
(* Runs of admin-provision-user beside the administration calls, the       *)
(* operator and the invited person: for any sets of them, killed, cleared  *)
(* and retried in any way, a membership belongs to a live account, an      *)
(* answer of success is true, and a request grants once.                   *)
(***************************************************************************)
EXTENDS Provisioning, MembershipAdministrationProofs

-----------------------------------------------------------------------------
(* The invariant.                                                          *)

\* The stations of a run whose claim has committed, that has an account to
\* link, and that holds the attempt's row.
Claimed == {"find", "invite", "refind", "link", "fail", "linkwait", "linkheld", "linkchecked"}
Linking == {"link", "linkwait", "linkheld", "linkchecked"}
Holding == {"linkwait", "linkheld", "linkchecked"}

RunsHaveArguments ==
    \A e \in Runs : IF runPc[e] = "idle" THEN runOutcome[e] = "NONE"
                    ELSE run[e] \in RunArguments

\* An attempt, once there, is always of the one invitation.
ClaimsStand ==
    \A e \in Runs : runPc[e] \in Claimed =>
      /\ attempt[run[e].request] # NoAttempt
      /\ SameInvitation(attempt[run[e].request], run[e].draft)

RunsLinkTheirAddress ==
    \A e \in Runs : runPc[e] \in Linking =>
      run[e].user \in Users /\ EmailOf[run[e].user] = run[e].draft.email

LinkingHoldsTheAttempt ==
    \A e \in Runs : runPc[e] \in Holding =>
      attemptLock[run[e].request] = e /\ attempt[run[e].request].status = "IN_FLIGHT"

Succeeds == {"SUCCEEDED", "ALREADY_SUCCEEDED"}

AnswersStand ==
    \A e \in Runs : runOutcome[e] \in Succeeds =>
      /\ attempt[run[e].request].status = "SUCCEEDED"
      /\ SameInvitation(attempt[run[e].request], run[e].draft)

InvitedAndThere ==
    \A u \in Users :
      /\ identity[u].state = "UNCONFIRMED" => identity[u].invited
      /\ profile[u] # "ABSENT" => Exists(u)

\* What the purge has checked still stands when it deletes: it holds the row a
\* link has to wait for.
PurgesOutsiders ==
    /\ purge.pc # "none" => purge.user \in Users
    /\ purge.pc = "checked" => NoMembership(purge.user)

RunsInv ==
    /\ RunsHaveArguments /\ ClaimsStand /\ RunsLinkTheirAddress /\ LinkingHoldsTheAttempt
    /\ AnswersStand

PeopleInv == LinkedToLiveAccounts /\ OnboardingIsOwed /\ InvitedAndThere /\ PurgesOutsiders

ProvisioningInv == ProvisioningTypeOK /\ RunsInv /\ PeopleInv

-----------------------------------------------------------------------------
(* How a run gets on.                                                      *)

\* An attempt stays of its invitation, and one that succeeded stays so.
AttemptsMoveOn ==
    \A r \in Requests : attempt[r] # NoAttempt =>
      /\ attempt'[r] # NoAttempt
      /\ attempt'[r].org = attempt[r].org /\ attempt'[r].email = attempt[r].email
      /\ attempt[r].status = "SUCCEEDED" => attempt'[r].status = "SUCCEEDED"

\* The rows that other runs hold are left to them.
LeavesHeldRows(e) ==
    \A f \in Runs : f # e /\ runPc[f] \in Holding =>
      /\ attemptLock'[run[f].request] = f
      /\ attempt'[run[f].request].status = attempt[run[f].request].status

LEMMA RowsAreAttempts ==
    ASSUME ProvisioningTypeOK, NEW r \in Requests
    PROVE  /\ attempt[r] # NoAttempt => attempt[r] \in AttemptRows
           /\ attempt[r].status \in {"IN_FLIGHT", "SUCCEEDED", "FAILED"} => attempt[r] \in AttemptRows
           /\ attempt[r] \in AttemptRows => attempt[r] # NoAttempt
  BY DEF ProvisioningTypeOK, AttemptRows, NoAttempt

LEMMA Proceeds ==
    ASSUME ProvisioningTypeOK, NEW e \in Runs, NEW pc \in RunPcs, NEW what \in RunOutcomes,
           Proceed(e, pc, what) \/ (Continue(e, pc) /\ what = "NONE")
    PROVE  /\ runPc' \in [Runs -> RunPcs] /\ runOutcome' \in [Runs -> RunOutcomes]
           /\ abandoned' \subseteq Runs
           /\ \A f \in Runs : f # e => runPc'[f] = runPc[f] /\ runOutcome'[f] = runOutcome[f]
           /\ runPc'[e] \in {pc, "dead"}
           /\ runOutcome'[e] \in {what, runOutcome[e]}
  BY DEF Proceed, Continue, ProvisioningTypeOK, RunPcs

\* A run of which one step is taken.
LEMMA RunMoves ==
    ASSUME ProvisioningTypeOK, RunsInv, NEW e \in Runs, NEW pc \in RunPcs \ {"idle"},
           NEW what \in RunOutcomes,
           Proceed(e, pc, what) \/ (Continue(e, pc) /\ what = "NONE"),
           NEW new \in RunArguments,
           \A f \in Runs : run'[f] = IF f = e THEN new ELSE run[f],
           runOutcome[e] \in Succeeds =>
             new.request = run[e].request /\ new.draft = run[e].draft,
           AttemptsMoveOn, LeavesHeldRows(e),
           pc \in Claimed => /\ attempt'[new.request] # NoAttempt
                             /\ SameInvitation(attempt'[new.request], new.draft),
           pc \in Linking => new.user \in Users /\ EmailOf[new.user] = new.draft.email,
           pc \in Holding => /\ attemptLock'[new.request] = e
                             /\ attempt'[new.request].status = "IN_FLIGHT",
           what \in Succeeds => /\ attempt'[new.request].status = "SUCCEEDED"
                                /\ SameInvitation(attempt'[new.request], new.draft)
    PROVE  RunsInv'
  <1>1. /\ \A f \in Runs : f # e => runPc'[f] = runPc[f] /\ runOutcome'[f] = runOutcome[f]
        /\ runPc'[e] \in {pc, "dead"} /\ runOutcome'[e] \in {what, runOutcome[e]}
    BY Proceeds
  <1>2. "dead" \notin Claimed \cup {"idle"} /\ Holding \subseteq Linking /\ Linking \subseteq Claimed
    BY DEF Claimed, Linking, Holding
  <1>3. \A f \in Runs : runPc[f] # "idle" => run[f] \in RunArguments /\ run[f].request \in Requests
    BY DEF RunsInv, RunsHaveArguments, RunArguments
  <1>4. "idle" \notin Claimed /\ "NONE" \notin Succeeds
    BY DEF Claimed, Succeeds
  <1>5. RunsHaveArguments'
    BY <1>1, <1>2 DEF RunsInv, RunsHaveArguments
  <1>6. ClaimsStand'
    <2> SUFFICES ASSUME NEW f \in Runs, runPc'[f] \in Claimed
                 PROVE  /\ attempt'[run'[f].request] # NoAttempt
                        /\ SameInvitation(attempt'[run'[f].request], run'[f].draft)
      BY DEF ClaimsStand, SameInvitation
    <2>1. CASE f = e
      BY <1>1, <1>2, <2>1
    <2>2. CASE f # e
      BY <1>1, <1>3, <1>4, <2>2 DEF RunsInv, ClaimsStand, SameInvitation, AttemptsMoveOn
    <2> QED
      BY <2>1, <2>2
  <1>7. RunsLinkTheirAddress'
    <2> SUFFICES ASSUME NEW f \in Runs, runPc'[f] \in Linking
                 PROVE  run'[f].user \in Users /\ EmailOf[run'[f].user] = run'[f].draft.email
      BY DEF RunsLinkTheirAddress
    <2>1. CASE f = e
      BY <1>1, <1>2, <2>1
    <2>2. CASE f # e
      BY <1>1, <2>2 DEF RunsInv, RunsLinkTheirAddress
    <2> QED
      BY <2>1, <2>2
  <1>8. LinkingHoldsTheAttempt'
    <2> SUFFICES ASSUME NEW f \in Runs, runPc'[f] \in Holding
                 PROVE  /\ attemptLock'[run'[f].request] = f
                        /\ attempt'[run'[f].request].status = "IN_FLIGHT"
      BY DEF LinkingHoldsTheAttempt
    <2>1. CASE f = e
      BY <1>1, <1>2, <2>1
    <2>2. CASE f # e
      BY <1>1, <2>2 DEF RunsInv, LinkingHoldsTheAttempt, LeavesHeldRows
    <2> QED
      BY <2>1, <2>2
  <1>9. AnswersStand'
    <2> SUFFICES ASSUME NEW f \in Runs, runOutcome'[f] \in Succeeds
                 PROVE  /\ attempt'[run'[f].request].status = "SUCCEEDED"
                        /\ SameInvitation(attempt'[run'[f].request], run'[f].draft)
      BY DEF AnswersStand, SameInvitation
    <2>1. CASE f = e /\ runOutcome'[e] = what
      BY <2>1
    <2>2. CASE runOutcome'[f] = runOutcome[f]
      <3>1. runPc[f] # "idle"
        BY <1>4, <2>2 DEF RunsInv, RunsHaveArguments
      <3>2. run'[f].request = run[f].request /\ run'[f].draft = run[f].draft
        BY <2>2
      <3>3. attempt[run[f].request].status = "SUCCEEDED"
            /\ SameInvitation(attempt[run[f].request], run[f].draft)
        BY <2>2 DEF RunsInv, AnswersStand
      <3>4. attempt[run[f].request] # NoAttempt
        BY <1>3, <3>1, <3>3, RowsAreAttempts
      <3> QED
        BY <1>3, <3>1, <3>2, <3>3, <3>4 DEF AttemptsMoveOn, SameInvitation
    <2> QED
      BY <1>1, <2>1, <2>2
  <1> QED
    BY <1>5, <1>6, <1>7, <1>8, <1>9 DEF RunsInv

\* A step that touches neither people nor memberships, and makes nothing succeed.
LEMMA PeopleStay ==
    ASSUME PeopleInv, UNCHANGED <<memberships, identity, profile, purge>>,
           \A r \in Requests : attempt'[r].status = "SUCCEEDED" => attempt'[r] = attempt[r]
    PROVE  PeopleInv'
  <1>1. LinkedToLiveAccounts'
    BY DEF PeopleInv, LinkedToLiveAccounts, Exists
  <1>2. OnboardingIsOwed' /\ InvitedAndThere' /\ PurgesOutsiders'
    BY DEF PeopleInv, OnboardingIsOwed, InvitedAndThere, PurgesOutsiders, Exists, NoMembership
  <1> QED
    BY <1>1, <1>2 DEF PeopleInv

\* A step of a run that waits, asks or takes locks.
LEMMA QuietRunKeeps ==
    ASSUME ProvisioningInv, NEW e \in Runs, NEW pc \in RunPcs, NEW what \in RunOutcomes,
           Proceed(e, pc, what) \/ (Continue(e, pc) /\ what = "NONE"),
           UNCHANGED <<memberships, identity, profile, purge, administrationVars>>,
           adminLock' \in [Organizations -> Transactions \cup {None}],
           attempt' \in [Requests -> AttemptRows \cup {NoAttempt}],
           attemptLock' \in [Requests -> Runs \cup {None}],
           run' \in [Runs -> RunArguments \cup {NotStarted}],
           \A r \in Requests : attempt'[r].status = "SUCCEEDED" => attempt'[r] = attempt[r],
           RunsInv'
    PROVE  ProvisioningInv'
  <1>1. /\ runPc' \in [Runs -> RunPcs] /\ runOutcome' \in [Runs -> RunOutcomes]
        /\ abandoned' \subseteq Runs
    BY Proceeds DEF ProvisioningInv
  <1>2. PeopleInv'
    BY PeopleStay DEF ProvisioningInv
  <1>3. ProvisioningTypeOK'
    BY <1>1 DEF ProvisioningInv, ProvisioningTypeOK, TypeOK, administrationVars
  <1> QED
    BY <1>2, <1>3 DEF ProvisioningInv

LEMMA UntouchedAttempts ==
    ASSUME ProvisioningTypeOK, RunsInv, NEW e \in Runs, UNCHANGED <<attempt, attemptLock>>
    PROVE  AttemptsMoveOn /\ LeavesHeldRows(e)
  BY DEF AttemptsMoveOn, LeavesHeldRows, RunsInv, LinkingHoldsTheAttempt

\* The run in hand.
LEMMA TheRun ==
    ASSUME ProvisioningInv, NEW e \in Runs, runPc[e] # "idle"
    PROVE  /\ run[e] \in RunArguments /\ run[e].request \in Requests
           /\ run[e].draft \in Drafts /\ run[e].draft.org \in Organizations
           /\ run[e].draft.email \in Emails /\ run[e].draft.role \in Roles
           /\ run[e].draft.caller \in Users
           /\ run \in [Runs -> RunArguments \cup {NotStarted}]
           /\ \A f \in Runs : run[f] = IF f = e THEN run[e] ELSE run[f]
  BY ProvisioningAssumption
     DEF ProvisioningInv, ProvisioningTypeOK, RunsInv, RunsHaveArguments, RunArguments

\* A step of a run whose attempt, request and invitation stay.
LEMMA AskingKeeps ==
    ASSUME ProvisioningInv, NEW e \in Runs, runPc[e] # "idle",
           NEW pc \in RunPcs \ {"idle"}, NEW what \in RunOutcomes,
           Proceed(e, pc, what) \/ (Continue(e, pc) /\ what = "NONE"),
           UNCHANGED <<memberships, attempt, attemptLock, identity, profile, purge,
                       administrationVars>>,
           adminLock' \in [Organizations -> Transactions \cup {None}],
           NEW new \in RunArguments, new.request = run[e].request, new.draft = run[e].draft,
           run' = [run EXCEPT ![e] = new],
           pc \in Claimed => runPc[e] \in Claimed,
           pc \in Linking => new.user \in Users /\ EmailOf[new.user] = new.draft.email,
           pc \in Holding => runPc[e] \in Holding,
           what \notin Succeeds
    PROVE  ProvisioningInv'
  <1>1. /\ ProvisioningTypeOK /\ RunsInv
        /\ \A f \in Runs : run'[f] = IF f = e THEN new ELSE run[f]
        /\ run' \in [Runs -> RunArguments \cup {NotStarted}]
    BY DEF ProvisioningInv, ProvisioningTypeOK
  <1>2. AttemptsMoveOn /\ LeavesHeldRows(e)
    BY <1>1, UntouchedAttempts
  <1>3. pc \in Claimed => /\ attempt'[new.request] # NoAttempt
                          /\ SameInvitation(attempt'[new.request], new.draft)
    BY <1>1 DEF RunsInv, ClaimsStand
  <1>4. pc \in Holding => /\ attemptLock'[new.request] = e
                          /\ attempt'[new.request].status = "IN_FLIGHT"
    BY <1>1 DEF RunsInv, LinkingHoldsTheAttempt
  <1>5. RunsInv'
    BY <1>1, <1>2, <1>3, <1>4, RunMoves
  <1> QED
    BY <1>1, <1>5, QuietRunKeeps DEF ProvisioningTypeOK

\* The same, of a run that is not changed.
LEMMA WaitingKeeps ==
    ASSUME ProvisioningInv, NEW e \in Runs, runPc[e] # "idle",
           NEW pc \in RunPcs \ {"idle"}, NEW what \in RunOutcomes,
           Proceed(e, pc, what) \/ (Continue(e, pc) /\ what = "NONE"),
           UNCHANGED <<memberships, attempt, attemptLock, identity, profile, purge, run,
                       administrationVars>>,
           adminLock' \in [Organizations -> Transactions \cup {None}],
           pc \in Claimed => runPc[e] \in Claimed,
           pc \in Linking => runPc[e] \in Linking,
           pc \in Holding => runPc[e] \in Holding,
           what \notin Succeeds
    PROVE  ProvisioningInv'
  <1>1. run[e] \in RunArguments /\ run \in [Runs -> RunArguments \cup {NotStarted}]
    BY TheRun
  <1>2. run' = [run EXCEPT ![e] = run[e]]
    BY <1>1
  <1>3. pc \in Linking => run[e].user \in Users /\ EmailOf[run[e].user] = run[e].draft.email
    BY DEF ProvisioningInv, RunsInv, RunsLinkTheirAddress
  <1> QED
    BY <1>1, <1>2, <1>3, AskingKeeps

-----------------------------------------------------------------------------
(* Each step of a run.                                                     *)

LEMMA Stations ==
    /\ Claimed \subseteq RunPcs \ {"idle"} /\ Linking \subseteq Claimed /\ Holding \subseteq Linking
    /\ {"begin", "claim", "answered", "dead"} \subseteq RunPcs \ {"idle"}
    /\ {"begin", "claim", "answered", "dead", "idle"} \cap Claimed = {}
    /\ {"find", "invite", "refind", "fail"} \cap Linking = {} /\ "link" \notin Holding
    /\ {"find", "invite", "refind", "fail", "link"} \subseteq Claimed /\ "link" \in Linking
    /\ Holding = {"linkwait", "linkheld", "linkchecked"}
    /\ {"NONE", "FORBIDDEN", "DUPLICATE_KEY", "PROVISIONING_IN_FLIGHT", "SERVER_UNAVAILABLE",
        "FAILED"} \subseteq RunOutcomes \ Succeeds
    /\ Succeeds \subseteq RunOutcomes
  BY DEF Claimed, Linking, Holding, RunPcs, InDatabase, InFunction, RunOutcomes, Succeeds

LEMMA PressKeeps ==
    ASSUME ProvisioningInv, NEW e \in Runs, Press(e), UNCHANGED administrationVars
    PROVE  ProvisioningInv'
  <1>1. PICK r \in Requests, d \in Drafts :
          run' = [run EXCEPT ![e] = [request |-> r, draft |-> d, user |-> None,
                                     created |-> FALSE]]
    BY DEF Press
  <1> DEFINE new == [request |-> r, draft |-> d, user |-> None, created |-> FALSE]
  <1>2. new \in RunArguments
    BY DEF RunArguments
  <1>3. /\ runPc[e] = "idle" /\ Proceed(e, "begin", "NONE")
        /\ UNCHANGED <<memberships, adminLock, attempt, attemptLock, identity, profile, purge>>
        /\ run' = [run EXCEPT ![e] = new]
    BY <1>1 DEF Press, Go
  <1> HIDE DEF new
  <1>4. /\ ProvisioningTypeOK /\ RunsInv
        /\ \A f \in Runs : run'[f] = IF f = e THEN new ELSE run[f]
        /\ run' \in [Runs -> RunArguments \cup {NotStarted}]
    BY <1>2, <1>3 DEF ProvisioningInv, ProvisioningTypeOK
  <1>5. runOutcome[e] \notin Succeeds
    BY <1>3, <1>4, Stations DEF RunsInv, RunsHaveArguments
  <1>6. AttemptsMoveOn /\ LeavesHeldRows(e)
    BY <1>3, <1>4, UntouchedAttempts
  <1>7. RunsInv'
    BY <1>2, <1>3, <1>4, <1>5, <1>6, RunMoves, Stations
  <1> QED
    BY <1>3, <1>4, <1>7, QuietRunKeeps, Stations DEF ProvisioningTypeOK, TypeOK

LEMMA AuthoriseRunKeeps ==
    ASSUME ProvisioningInv, NEW e \in Runs, AuthoriseRun(e), UNCHANGED administrationVars
    PROVE  ProvisioningInv'
  <1>1. \/ Continue(e, "claim") \/ Proceed(e, "answered", "FORBIDDEN")
    BY DEF AuthoriseRun, Respond
  <1>2. /\ runPc[e] = "begin"
        /\ UNCHANGED <<memberships, adminLock, attempt, attemptLock, identity, profile, run, purge>>
        /\ adminLock \in [Organizations -> Transactions \cup {None}]
    BY DEF AuthoriseRun, ProvisioningInv, ProvisioningTypeOK, TypeOK
  <1> QED
    BY <1>1, <1>2, WaitingKeeps, Stations

LEMMA ClaimKeeps ==
    ASSUME ProvisioningInv, NEW e \in Runs, Claim(e), UNCHANGED administrationVars
    PROVE  ProvisioningInv'
  <1> DEFINE r == run[e].request
             d == run[e].draft
             verdict == ClaimVerdict(attempt[r], d)
             row == [status |-> "IN_FLIGHT", org |-> d.org, email |-> d.email,
                     role |-> d.role, actor |-> d.caller, subject |-> None]
  <1>1. /\ runPc[e] = "claim" /\ AttemptRowFree(r) /\ runPc[e] # "idle"
        /\ UNCHANGED <<memberships, adminLock, attemptLock, identity, profile, run, purge>>
    BY DEF Claim
  <1>2. /\ run[e] \in RunArguments /\ r \in Requests /\ d \in Drafts
        /\ run \in [Runs -> RunArguments \cup {NotStarted}]
        /\ \A f \in Runs : run'[f] = IF f = e THEN run[e] ELSE run[f]
        /\ row \in AttemptRows
    BY <1>1, TheRun DEF AttemptRows
  <1>3. ProvisioningTypeOK /\ RunsInv
        /\ attempt \in [Requests -> AttemptRows \cup {NoAttempt}]
    BY DEF ProvisioningInv, ProvisioningTypeOK
  <1>4. CASE verdict = "CLAIMED"
    <2>1. /\ attempt' = [attempt EXCEPT ![r] = row]
          /\ Proceed(e, "find", "NONE") \/ Proceed(e, "answered", "SERVER_UNAVAILABLE")
      BY <1>4 DEF Claim, Go, Respond
    <2>2. attempt[r] = NoAttempt \/ (SameInvitation(attempt[r], d) /\ attempt[r].status # "SUCCEEDED"
                                     /\ attempt[r].status # "IN_FLIGHT")
      BY <1>2, <1>3, <1>4 DEF ClaimVerdict, AttemptRows
    <2>3. /\ row.status = "IN_FLIGHT" /\ row.org = d.org /\ row.email = d.email
          /\ row # NoAttempt
      BY DEF NoAttempt
    <2> HIDE DEF row
    <2>4. /\ attempt' \in [Requests -> AttemptRows \cup {NoAttempt}]
          /\ attempt'[r] = row /\ \A q \in Requests : q # r => attempt'[q] = attempt[q]
      BY <1>2, <1>3, <2>1
    <2>5. AttemptsMoveOn
      BY <1>2, <2>2, <2>3, <2>4 DEF AttemptsMoveOn, SameInvitation
    <2>6. LeavesHeldRows(e)
      <3> SUFFICES ASSUME NEW f \in Runs, f # e, runPc[f] \in Holding
                   PROVE  /\ attemptLock'[run[f].request] = f
                          /\ attempt'[run[f].request].status = attempt[run[f].request].status
        BY DEF LeavesHeldRows
      <3>1. attemptLock[run[f].request] = f /\ run[f].request \in Requests
        BY <1>3, Stations, TheRun DEF RunsInv, LinkingHoldsTheAttempt
      <3>2. f # None
        BY ProvisioningAssumption, TransactionsAssumption
      <3>3. run[f].request # r
        BY <1>1, <3>1, <3>2 DEF AttemptRowFree
      <3> QED
        BY <1>1, <2>4, <3>1, <3>3
    <2>7. attempt'[r] # NoAttempt /\ SameInvitation(attempt'[r], d)
      BY <2>3, <2>4 DEF SameInvitation
    <2>8. RunsInv'
      <3>1. CASE Proceed(e, "find", "NONE")
        BY <1>2, <1>3, <2>5, <2>6, <2>7, <3>1, RunMoves, Stations
      <3>2. CASE Proceed(e, "answered", "SERVER_UNAVAILABLE")
        BY <1>2, <1>3, <2>5, <2>6, <2>7, <3>2, RunMoves, Stations
      <3> QED
        BY <2>1, <3>1, <3>2
    <2>9. \A q \in Requests : attempt'[q].status = "SUCCEEDED" => attempt'[q] = attempt[q]
      BY <2>3, <2>4
    <2> QED
      BY <1>1, <1>2, <1>3, <2>1, <2>4, <2>8, <2>9, QuietRunKeeps, Stations
         DEF ProvisioningTypeOK, TypeOK
  <1>5. CASE verdict # "CLAIMED"
    <2>1. Proceed(e, "answered", verdict) /\ UNCHANGED attempt
      BY <1>5 DEF Claim, Respond
    <2>2. /\ verdict \in {"DUPLICATE_KEY", "ALREADY_SUCCEEDED", "PROVISIONING_IN_FLIGHT"}
          /\ verdict = "ALREADY_SUCCEEDED" =>
               attempt[r].status = "SUCCEEDED" /\ SameInvitation(attempt[r], d)
      BY <1>2, <1>3, <1>5 DEF ClaimVerdict, AttemptRows
    <2> HIDE DEF verdict
    <2>3. verdict \in RunOutcomes /\ (verdict \in Succeeds => verdict = "ALREADY_SUCCEEDED")
      BY <2>2 DEF RunOutcomes, Succeeds
    <2>4. AttemptsMoveOn /\ LeavesHeldRows(e)
      BY <1>1, <1>3, <2>1, UntouchedAttempts
    <2>5. RunsInv'
      BY <1>2, <1>3, <2>1, <2>2, <2>3, <2>4, RunMoves, Stations
    <2> QED
      BY <1>1, <1>2, <1>3, <2>1, <2>3, <2>5, QuietRunKeeps, Stations
         DEF ProvisioningTypeOK, TypeOK
  <1> QED
    BY <1>4, <1>5

\* A run that goes on with an account.
LEMMA WithAnAccount ==
    ASSUME NEW a \in RunArguments, NEW u \in Users, NEW b \in BOOLEAN
    PROVE  /\ [a EXCEPT !.user = u] \in RunArguments
           /\ [a EXCEPT !.user = u].request = a.request /\ [a EXCEPT !.user = u].draft = a.draft
           /\ [a EXCEPT !.user = u].user = u
           /\ [a EXCEPT !.created = b] \in RunArguments
           /\ [a EXCEPT !.created = b].request = a.request
           /\ [a EXCEPT !.created = b].draft = a.draft
           /\ [a EXCEPT !.user = u, !.created = b] \in RunArguments
           /\ [a EXCEPT !.user = u, !.created = b].request = a.request
           /\ [a EXCEPT !.user = u, !.created = b].draft = a.draft
           /\ [a EXCEPT !.user = u, !.created = b].user = u
  BY DEF RunArguments

LEMMA FindKeeps ==
    ASSUME ProvisioningInv, NEW e \in Runs, Find(e), UNCHANGED administrationVars
    PROVE  ProvisioningInv'
  <1>1. /\ runPc[e] = "find" /\ runPc[e] # "idle" /\ runPc[e] \in Claimed
        /\ UNCHANGED <<memberships, adminLock, attempt, attemptLock, identity, profile, purge>>
        /\ adminLock' \in [Organizations -> Transactions \cup {None}]
    BY Stations DEF Find, ProvisioningInv, ProvisioningTypeOK, TypeOK
  <1>2. run[e] \in RunArguments /\ run \in [Runs -> RunArguments \cup {NotStarted}]
    BY <1>1, TheRun
  <1>3. CASE DirectoryUnavailable(e)
    <2>1. Proceed(e, "answered", "SERVER_UNAVAILABLE") /\ UNCHANGED run
      BY <1>3 DEF DirectoryUnavailable, Respond
    <2> QED
      BY <1>1, <2>1, WaitingKeeps, Stations
  <1>4. ASSUME NEW u \in Accounts(run[e].draft.email),
               IF identity[u].state = "CONFIRMED"
               THEN run' = [run EXCEPT ![e].user = u] /\ Go(e, "link")
               ELSE UNCHANGED run /\ Go(e, "invite")
        PROVE  ProvisioningInv'
    <2>1. CASE identity[u].state = "CONFIRMED"
      <3> DEFINE new == [run[e] EXCEPT !.user = u]
      <3>1. /\ new \in RunArguments /\ new.request = run[e].request /\ new.draft = run[e].draft
            /\ new.user \in Users /\ EmailOf[new.user] = new.draft.email
        BY <1>2, WithAnAccount DEF Accounts
      <3>2. run' = [run EXCEPT ![e] = new] /\ Proceed(e, "link", "NONE")
        BY <1>2, <1>4, <2>1 DEF Go
      <3> HIDE DEF new
      <3> QED
        BY <1>1, <3>1, <3>2, AskingKeeps, Stations
    <2>2. CASE identity[u].state # "CONFIRMED"
      <3>1. UNCHANGED run /\ Proceed(e, "invite", "NONE")
        BY <1>4, <2>2 DEF Go
      <3> QED
        BY <1>1, <3>1, WaitingKeeps, Stations
    <2> QED
      BY <2>1, <2>2
  <1>5. CASE run' = [run EXCEPT ![e].created = TRUE] /\ Go(e, "invite")
    <2> DEFINE new == [run[e] EXCEPT !.created = TRUE]
    <2>1. new \in RunArguments /\ new.request = run[e].request /\ new.draft = run[e].draft
      BY <1>2 DEF RunArguments
    <2>2. run' = [run EXCEPT ![e] = new] /\ Proceed(e, "invite", "NONE")
      BY <1>2, <1>5 DEF Go
    <2> HIDE DEF new
    <2> QED
      BY <1>1, <2>1, <2>2, AskingKeeps, Stations
  <1> QED
    BY <1>3, <1>4, <1>5 DEF Find

LEMMA RefindKeeps ==
    ASSUME ProvisioningInv, NEW e \in Runs, Refind(e), UNCHANGED administrationVars
    PROVE  ProvisioningInv'
  <1>1. /\ runPc[e] = "refind" /\ runPc[e] # "idle" /\ runPc[e] \in Claimed
        /\ UNCHANGED <<memberships, adminLock, attempt, attemptLock, identity, profile, purge>>
        /\ adminLock' \in [Organizations -> Transactions \cup {None}]
    BY Stations DEF Refind, ProvisioningInv, ProvisioningTypeOK, TypeOK
  <1>2. run[e] \in RunArguments /\ run \in [Runs -> RunArguments \cup {NotStarted}]
    BY <1>1, TheRun
  <1>3. CASE DirectoryUnavailable(e)
    <2>1. Proceed(e, "answered", "SERVER_UNAVAILABLE") /\ UNCHANGED run
      BY <1>3 DEF DirectoryUnavailable, Respond
    <2> QED
      BY <1>1, <2>1, WaitingKeeps, Stations
  <1>4. ASSUME NEW u \in Accounts(run[e].draft.email),
               run' = [run EXCEPT ![e].user = u, ![e].created = FALSE], Go(e, "link")
        PROVE  ProvisioningInv'
    <2> DEFINE new == [run[e] EXCEPT !.user = u, !.created = FALSE]
    <2>1. /\ new \in RunArguments /\ new.request = run[e].request /\ new.draft = run[e].draft
          /\ new.user \in Users /\ EmailOf[new.user] = new.draft.email
      BY <1>2, WithAnAccount DEF Accounts
    <2>2. run' = [run EXCEPT ![e] = new] /\ Proceed(e, "link", "NONE")
      BY <1>2, <1>4 DEF Go
    <2> HIDE DEF new
    <2> QED
      BY <1>1, <2>1, <2>2, AskingKeeps, Stations
  <1>5. CASE Go(e, "fail") /\ UNCHANGED run
    <2>1. Proceed(e, "fail", "NONE") /\ UNCHANGED run
      BY <1>5 DEF Go
    <2> QED
      BY <1>1, <2>1, WaitingKeeps, Stations
  <1> QED
    BY <1>3, <1>4, <1>5 DEF Refind

\* An invitation makes an account, or makes an unconfirmed one an invited one.
LEMMA InvitedPeople ==
    ASSUME ProvisioningInv, NEW u \in Users, NEW email, Invitable(u, email),
           identity' = [identity EXCEPT ![u].state = "UNCONFIRMED", ![u].invited = TRUE],
           UNCHANGED <<memberships, attempt, profile, purge>>
    PROVE  PeopleInv' /\ identity' \in [Users -> Identities]
  <1>1. identity \in [Users -> Identities] /\ identity[u] \in Identities
    BY DEF ProvisioningInv, ProvisioningTypeOK
  <1>2. identity[u].state = "UNCONFIRMED" \/ identity[u].state = "ABSENT"
    BY DEF Invitable, NoIdentity
  <1> DEFINE new == [identity[u] EXCEPT !.state = "UNCONFIRMED", !.invited = TRUE]
  <1>3. /\ new \in Identities /\ new.state = "UNCONFIRMED" /\ new.invited = TRUE
        /\ new.password = identity[u].password
    BY <1>1 DEF Identities
  <1>4. identity' = [identity EXCEPT ![u] = new]
    BY <1>1
  <1> HIDE DEF new
  <1>5. /\ identity'[u] = new /\ \A v \in Users : v # u => identity'[v] = identity[v]
        /\ identity' \in [Users -> Identities]
    BY <1>1, <1>3, <1>4
  <1>6. \A v \in Users : Exists(v) => Exists(v)'
    BY <1>3, <1>5 DEF Exists
  <1>7. LinkedToLiveAccounts'
    BY <1>6 DEF ProvisioningInv, PeopleInv, LinkedToLiveAccounts
  <1>8. identity[u].state = "ABSENT" => profile[u] = "ABSENT"
    BY DEF ProvisioningInv, PeopleInv, InvitedAndThere, Exists
  <1>9. OnboardingIsOwed'
    <2> SUFFICES ASSUME NEW v \in Users, Exists(v)', identity'[v].invited,
                        ~identity'[v].password, profile'[v] # "ABSENT"
                 PROVE  profile'[v] = "MUST_CHANGE_PASSWORD"
      BY DEF OnboardingIsOwed
    <2>1. CASE v = u
      <3>1. identity[u].state = "UNCONFIRMED" /\ identity[u].invited /\ ~identity[u].password
        BY <1>2, <1>3, <1>5, <1>8, <2>1 DEF ProvisioningInv, PeopleInv, InvitedAndThere
      <3> QED
        BY <2>1, <3>1 DEF ProvisioningInv, PeopleInv, OnboardingIsOwed, Exists
    <2>2. CASE v # u
      BY <1>5, <2>2 DEF ProvisioningInv, PeopleInv, OnboardingIsOwed, Exists
    <2> QED
      BY <2>1, <2>2
  <1>10. InvitedAndThere'
    BY <1>3, <1>5, <1>6 DEF ProvisioningInv, PeopleInv, InvitedAndThere
  <1>11. PurgesOutsiders'
    BY DEF ProvisioningInv, PeopleInv, PurgesOutsiders, NoMembership
  <1> QED
    BY <1>5, <1>7, <1>9, <1>10, <1>11 DEF PeopleInv

LEMMA InviteKeeps ==
    ASSUME ProvisioningInv, NEW e \in Runs, Invite(e), UNCHANGED administrationVars
    PROVE  ProvisioningInv'
  <1>1. /\ runPc[e] = "invite" /\ runPc[e] # "idle" /\ runPc[e] \in Claimed
        /\ UNCHANGED <<memberships, adminLock, attempt, attemptLock, profile, purge>>
        /\ adminLock' \in [Organizations -> Transactions \cup {None}]
    BY Stations DEF Invite, ProvisioningInv, ProvisioningTypeOK, TypeOK
  <1>2. run[e] \in RunArguments /\ run \in [Runs -> RunArguments \cup {NotStarted}]
    BY <1>1, TheRun
  <1>3. CASE Go(e, "refind") /\ UNCHANGED <<identity, run>>
    <2>1. Proceed(e, "refind", "NONE") /\ UNCHANGED <<identity, run>>
      BY <1>3 DEF Go
    <2> QED
      BY <1>1, <2>1, WaitingKeeps, Stations
  <1>4. ASSUME NEW u \in Users, Invitable(u, run[e].draft.email),
               identity' = [identity EXCEPT ![u].state = "UNCONFIRMED", ![u].invited = TRUE],
               \/ run' = [run EXCEPT ![e].user = u] /\ Go(e, "link")
               \/ UNCHANGED run /\ Go(e, "refind")
        PROVE  ProvisioningInv'
    <2>1. PeopleInv' /\ identity' \in [Users -> Identities]
      BY <1>1, <1>4, InvitedPeople
    <2>2. ProvisioningTypeOK /\ RunsInv /\ AttemptsMoveOn /\ LeavesHeldRows(e)
      BY <1>1, UntouchedAttempts DEF ProvisioningInv
    <2>3. attempt'[run[e].request] # NoAttempt /\ SameInvitation(attempt'[run[e].request], run[e].draft)
      BY <1>1 DEF ProvisioningInv, RunsInv, ClaimsStand
    <2>4. /\ RunsInv' /\ run' \in [Runs -> RunArguments \cup {NotStarted}]
          /\ runPc' \in [Runs -> RunPcs] /\ runOutcome' \in [Runs -> RunOutcomes]
          /\ abandoned' \subseteq Runs
      <3>1. CASE run' = [run EXCEPT ![e].user = u] /\ Go(e, "link")
        <4> DEFINE new == [run[e] EXCEPT !.user = u]
        <4>1. /\ new \in RunArguments /\ new.request = run[e].request /\ new.draft = run[e].draft
              /\ new.user \in Users /\ EmailOf[new.user] = new.draft.email
          BY <1>2, <1>4, WithAnAccount DEF Invitable
        <4>2. run' = [run EXCEPT ![e] = new] /\ Proceed(e, "link", "NONE")
          BY <1>2, <3>1 DEF Go
        <4> HIDE DEF new
        <4>3. /\ \A f \in Runs : run'[f] = IF f = e THEN new ELSE run[f]
              /\ run' \in [Runs -> RunArguments \cup {NotStarted}]
          BY <1>2, <4>1, <4>2
        <4>4. RunsInv'
          BY <2>2, <2>3, <4>1, <4>2, <4>3, RunMoves, Stations
        <4> QED
          BY <2>2, <4>2, <4>3, <4>4, Proceeds, Stations
      <3>2. CASE UNCHANGED run /\ Go(e, "refind")
        <4>1. Proceed(e, "refind", "NONE") /\ UNCHANGED run
          BY <3>2 DEF Go
        <4>2. RunsInv'
          BY <1>2, <2>2, <2>3, <4>1, RunMoves, Stations
        <4> QED
          BY <1>2, <2>2, <4>1, <4>2, Proceeds, Stations
      <3> QED
        BY <1>4, <3>1, <3>2
    <2>5. ProvisioningTypeOK'
      BY <1>1, <2>1, <2>2, <2>4 DEF ProvisioningTypeOK, TypeOK, administrationVars
    <2> QED
      BY <2>1, <2>4, <2>5 DEF ProvisioningInv
  <1> QED
    BY <1>3, <1>4 DEF Invite

LEMMA LinkLockKeeps ==
    ASSUME ProvisioningInv, NEW e \in Runs, LinkLock(e), UNCHANGED administrationVars
    PROVE  ProvisioningInv'
  <1> DEFINE r == run[e].request
  <1>1. /\ runPc[e] = "link" /\ runPc[e] # "idle" /\ runPc[e] \in Linking /\ runPc[e] \in Claimed
        /\ UNCHANGED <<memberships, adminLock, attempt, identity, profile, run, purge>>
        /\ adminLock' \in [Organizations -> Transactions \cup {None}]
        /\ attempt' \in [Requests -> AttemptRows \cup {NoAttempt}]
    BY Stations DEF LinkLock, ProvisioningInv, ProvisioningTypeOK, TypeOK
  <1>2. /\ run[e] \in RunArguments /\ r \in Requests
        /\ run \in [Runs -> RunArguments \cup {NotStarted}]
        /\ \A f \in Runs : run'[f] = IF f = e THEN run[e] ELSE run[f]
    BY <1>1, TheRun
  <1>3. ProvisioningTypeOK /\ RunsInv
    BY DEF ProvisioningInv
  <1>4. /\ attempt'[r] # NoAttempt /\ SameInvitation(attempt'[r], run[e].draft)
        /\ run[e].user \in Users /\ EmailOf[run[e].user] = run[e].draft.email
    BY <1>1, <1>3 DEF RunsInv, ClaimsStand, RunsLinkTheirAddress
  <1>5. CASE Go(e, "fail") /\ UNCHANGED attemptLock
    <2>1. Proceed(e, "fail", "NONE") /\ UNCHANGED attemptLock
      BY <1>5 DEF Go
    <2> QED
      BY <1>1, <2>1, WaitingKeeps, Stations
  <1>6. CASE attempt[r].status = "SUCCEEDED" /\ Respond(e, "SUCCEEDED") /\ UNCHANGED attemptLock
    <2>1. Proceed(e, "answered", "SUCCEEDED")
      BY <1>6 DEF Respond
    <2>2. AttemptsMoveOn /\ LeavesHeldRows(e)
      BY <1>1, <1>3, <1>6, UntouchedAttempts
    <2>3. RunsInv'
      BY <1>1, <1>2, <1>3, <1>4, <1>6, <2>1, <2>2, RunMoves, Stations DEF Succeeds
    <2> QED
      BY <1>1, <1>2, <1>3, <1>6, <2>1, <2>3, QuietRunKeeps, Stations
         DEF ProvisioningTypeOK, Succeeds
  <1>7. CASE /\ AttemptRowFree(r) /\ attempt[r].status # "SUCCEEDED" /\ AttemptStands(attempt[r])
             /\ Continue(e, "linkwait") /\ attemptLock' = [attemptLock EXCEPT ![r] = e]
    <2>1. /\ attemptLock' \in [Requests -> Runs \cup {None}] /\ attemptLock'[r] = e
          /\ \A q \in Requests : q # r => attemptLock'[q] = attemptLock[q]
      BY <1>2, <1>3, <1>7 DEF ProvisioningTypeOK
    <2>2. AttemptsMoveOn
      BY <1>1 DEF AttemptsMoveOn
    <2>3. LeavesHeldRows(e)
      <3> SUFFICES ASSUME NEW f \in Runs, f # e, runPc[f] \in Holding
                   PROVE  /\ attemptLock'[run[f].request] = f
                          /\ attempt'[run[f].request].status = attempt[run[f].request].status
        BY DEF LeavesHeldRows
      <3>1. attemptLock[run[f].request] = f /\ run[f].request \in Requests
        BY <1>3, Stations, TheRun DEF RunsInv, LinkingHoldsTheAttempt
      <3>2. f # None
        BY ProvisioningAssumption, TransactionsAssumption
      <3>3. run[f].request # r
        BY <1>7, <3>1, <3>2 DEF AttemptRowFree
      <3> QED
        BY <1>1, <2>1, <3>1, <3>3
    <2>4. attempt'[r].status = "IN_FLIGHT"
      BY <1>1, <1>7 DEF AttemptStands
    <2>5. RunsInv'
      BY <1>2, <1>3, <1>4, <1>7, <2>1, <2>2, <2>3, <2>4, RunMoves, Stations
    <2> QED
      BY <1>1, <1>2, <1>7, <2>1, <2>5, QuietRunKeeps, Stations
  <1> QED
    BY <1>1, <1>5, <1>6, <1>7 DEF LinkLock

LEMMA LinkAdminKeeps ==
    ASSUME ProvisioningInv, NEW e \in Runs, LinkAdmin(e), UNCHANGED administrationVars
    PROVE  ProvisioningInv'
  <1>1. /\ runPc[e] = "linkwait" /\ runPc[e] # "idle" /\ runPc[e] \in Holding
        /\ Continue(e, "linkheld") /\ TakeAdminLock(attempt[run[e].request].org, e)
        /\ UNCHANGED <<memberships, attempt, attemptLock, identity, profile, run, purge>>
    BY Stations DEF LinkAdmin
  <1>2. e \in Transactions \cup {None} /\ adminLock \in [Organizations -> Transactions \cup {None}]
    BY ProvisioningAssumption DEF ProvisioningInv, ProvisioningTypeOK, TypeOK
  <1>3. adminLock' \in [Organizations -> Transactions \cup {None}]
    BY <1>1, <1>2 DEF TakeAdminLock
  <1> QED
    BY <1>1, <1>3, WaitingKeeps, Stations

\* A run that ends its transaction leaves the rows of the others.
LEMMA ReleasesItsOwn ==
    ASSUME ProvisioningInv, NEW e \in Runs, runPc[e] \in Holding, Release(run[e].request),
           \A r \in Requests : r # run[e].request => attempt'[r] = attempt[r]
    PROVE  LeavesHeldRows(e) /\ attemptLock' \in [Requests -> Runs \cup {None}]
  <1>1. /\ run[e].request \in Requests /\ attemptLock \in [Requests -> Runs \cup {None}]
        /\ attemptLock[run[e].request] = e
    BY TheRun, Stations
       DEF ProvisioningInv, ProvisioningTypeOK, RunsInv, LinkingHoldsTheAttempt
  <1>2. /\ attemptLock' \in [Requests -> Runs \cup {None}]
        /\ \A q \in Requests : q # run[e].request => attemptLock'[q] = attemptLock[q]
    BY <1>1 DEF Release
  <1>3. ASSUME NEW f \in Runs, f # e, runPc[f] \in Holding
        PROVE  run[f].request \in Requests /\ attemptLock[run[f].request] = f
    BY <1>3, TheRun, Stations DEF ProvisioningInv, RunsInv, LinkingHoldsTheAttempt
  <1> QED
    BY <1>1, <1>2, <1>3 DEF LeavesHeldRows

LEMMA LinkCheckKeeps ==
    ASSUME ProvisioningInv, NEW e \in Runs, LinkCheck(e), UNCHANGED administrationVars
    PROVE  ProvisioningInv'
  <1> DEFINE r == run[e].request
  <1>1. /\ runPc[e] = "linkheld" /\ runPc[e] # "idle"
        /\ runPc[e] \in Holding /\ runPc[e] \in Linking /\ runPc[e] \in Claimed
        /\ UNCHANGED <<memberships, attempt, identity, profile, run, purge>>
        /\ attempt' \in [Requests -> AttemptRows \cup {NoAttempt}]
    BY Stations DEF LinkCheck, ProvisioningInv, ProvisioningTypeOK, TypeOK
  <1>2. /\ run[e] \in RunArguments /\ r \in Requests
        /\ run \in [Runs -> RunArguments \cup {NotStarted}]
        /\ \A f \in Runs : run'[f] = IF f = e THEN run[e] ELSE run[f]
    BY <1>1, TheRun
  <1>3. ProvisioningTypeOK /\ RunsInv /\ adminLock \in [Organizations -> Transactions \cup {None}]
    BY DEF ProvisioningInv, ProvisioningTypeOK, TypeOK
  <1>4. CASE Continue(e, "linkchecked") /\ UNCHANGED <<adminLock, attemptLock>>
    BY <1>1, <1>3, <1>4, WaitingKeeps, Stations
  <1>5. CASE ReleaseAdminLock(attempt[r].org) /\ Release(r) /\ Go(e, "fail")
    <2>1. Proceed(e, "fail", "NONE")
      BY <1>5 DEF Go
    <2>2. AttemptsMoveOn /\ LeavesHeldRows(e) /\ attemptLock' \in [Requests -> Runs \cup {None}]
      BY <1>1, <1>5, ReleasesItsOwn DEF AttemptsMoveOn
    <2>3. attempt'[r] # NoAttempt /\ SameInvitation(attempt'[r], run[e].draft)
      BY <1>1, <1>3 DEF RunsInv, ClaimsStand
    <2>4. RunsInv'
      BY <1>1, <1>2, <1>3, <2>1, <2>2, <2>3, RunMoves, Stations
    <2>5. adminLock' \in [Organizations -> Transactions \cup {None}]
      BY <1>3, <1>5 DEF ReleaseAdminLock
    <2> QED
      BY <1>1, <1>2, <2>1, <2>2, <2>4, <2>5, QuietRunKeeps, Stations
  <1> QED
    BY <1>4, <1>5 DEF LinkCheck

\* The attempt that a commit marks done, and the profile it leaves.
Done(table, r, u) == [table EXCEPT ![r].status = "SUCCEEDED", ![r].subject = u]

LEMMA DoneAttempt ==
    ASSUME NEW table \in [Requests -> AttemptRows \cup {NoAttempt}], NEW r \in Requests,
           table[r] \in AttemptRows, NEW u \in Users
    PROVE  LET after == Done(table, r, u) IN
           /\ after \in [Requests -> AttemptRows \cup {NoAttempt}]
           /\ after[r] \in AttemptRows
           /\ after[r].status = "SUCCEEDED" /\ after[r].subject = u
           /\ after[r].org = table[r].org /\ after[r].email = table[r].email
           /\ \A q \in Requests : q # r => after[q] = table[q]
  <1> DEFINE new == [table[r] EXCEPT !.status = "SUCCEEDED", !.subject = u]
             after == [table EXCEPT ![r] = new]
  <1>1. /\ new \in AttemptRows /\ new.status = "SUCCEEDED" /\ new.subject = u
        /\ new.org = table[r].org /\ new.email = table[r].email
    BY DEF AttemptRows
  <1>2. Done(table, r, u) = after
    BY DEF Done
  <1> HIDE DEF new
  <1>3. /\ after[r] = new /\ after \in [Requests -> AttemptRows \cup {NoAttempt}]
        /\ \A q \in Requests : q # r => after[q] = table[q]
    BY <1>1
  <1> HIDE DEF after
  <1> QED
    BY <1>1, <1>2, <1>3

LEMMA LinkedProfile ==
    ASSUME NEW before \in [Users -> {"ABSENT", "MUST_CHANGE_PASSWORD", "SETTLED"}],
           NEW u \in Users, NEW must \in BOOLEAN
    PROVE  LET after == [before EXCEPT ![u] =
                           IF @ # "ABSENT" THEN @
                           ELSE IF must THEN "MUST_CHANGE_PASSWORD" ELSE "SETTLED"] IN
           /\ after \in [Users -> {"ABSENT", "MUST_CHANGE_PASSWORD", "SETTLED"}]
           /\ after[u] # "ABSENT" /\ \A v \in Users : v # u => after[v] = before[v]
           /\ before[u] # "ABSENT" => after[u] = before[u]
           /\ before[u] = "ABSENT" /\ must => after[u] = "MUST_CHANGE_PASSWORD"
  OBVIOUS

\* The commit: a member with an account and a profile, and the attempt is done.
LEMMA LinkedPeople ==
    ASSUME ProvisioningInv, NEW r \in Requests, NEW u \in Users, NEW o \in Organizations,
           UserRowFree(u), IdentityIsThere(u), UNCHANGED <<identity, purge>>,
           profile'[u] # "ABSENT", \A v \in Users : v # u => profile'[v] = profile[v],
           profile[u] # "ABSENT" => profile'[u] = profile[u],
           profile[u] = "ABSENT" /\ identity[u].invited => profile'[u] = "MUST_CHANGE_PASSWORD",
           IsMember(memberships', o, u),
           \A p \in Organizations, v \in Users :
             p # o \/ v # u => memberships'[p][v] = memberships[p][v],
           attempt'[r].subject = u, attempt'[r].org = o, attempt'[r].email = EmailOf[u],
           \A q \in Requests : q # r => attempt'[q] = attempt[q]
    PROVE  PeopleInv'
  <1>1. \A p \in Organizations, v \in Users :
          /\ IsMember(memberships, p, v) => IsMember(memberships', p, v)
          /\ v # u /\ IsMember(memberships', p, v) => IsMember(memberships, p, v)
    BY DEF IsMember
  <1>2. Exists(u) /\ \A v \in Users : Exists(v)' <=> Exists(v)
    BY DEF Exists, IdentityIsThere
  <1>3. ASSUME NEW p \in Organizations, NEW v \in Users, IsMember(memberships', p, v)
        PROVE  Exists(v)' /\ profile'[v] # "ABSENT"
    <2>1. CASE v = u
      BY <1>2, <2>1
    <2>2. CASE v # u
      BY <1>1, <1>2, <1>3, <2>2 DEF ProvisioningInv, PeopleInv, LinkedToLiveAccounts
    <2> QED
      BY <2>1, <2>2
  <1>4. ASSUME NEW q \in Requests, attempt'[q].status = "SUCCEEDED"
        PROVE  /\ attempt'[q].subject # None
               /\ EmailOf[attempt'[q].subject] = attempt'[q].email
               /\ IsMember(memberships', attempt'[q].org, attempt'[q].subject)
    <2>1. CASE q = r
      BY <2>1, ProvisioningAssumption
    <2>2. CASE q # r
      <3>1. attempt[q] \in AttemptRows
        BY <1>4, <2>2, RowsAreAttempts DEF ProvisioningInv
      <3>2. /\ attempt'[q] = attempt[q] /\ attempt[q].subject # None
            /\ EmailOf[attempt[q].subject] = attempt[q].email
            /\ IsMember(memberships, attempt[q].org, attempt[q].subject)
        BY <1>4, <2>2 DEF ProvisioningInv, PeopleInv, LinkedToLiveAccounts
      <3>3. attempt[q].org \in Organizations /\ attempt[q].subject \in Users
        BY <3>1, <3>2 DEF AttemptRows
      <3> QED
        BY <1>1, <3>2, <3>3
    <2> QED
      BY <2>1, <2>2
  <1>5. LinkedToLiveAccounts'
    BY <1>3, <1>4 DEF LinkedToLiveAccounts
  <1>6. OnboardingIsOwed'
    <2> SUFFICES ASSUME NEW v \in Users, Exists(v)', identity'[v].invited,
                        ~identity'[v].password, profile'[v] # "ABSENT"
                 PROVE  profile'[v] = "MUST_CHANGE_PASSWORD"
      BY DEF OnboardingIsOwed
    <2>1. Exists(v) /\ identity[v].invited /\ ~identity[v].password
      BY <1>2
    <2>2. CASE profile[v] # "ABSENT"
      BY <2>1, <2>2 DEF ProvisioningInv, PeopleInv, OnboardingIsOwed
    <2>3. CASE profile[v] = "ABSENT"
      BY <2>1, <2>3
    <2> QED
      BY <2>2, <2>3
  <1>7. InvitedAndThere'
    BY <1>2 DEF ProvisioningInv, PeopleInv, InvitedAndThere
  <1>8. PurgesOutsiders'
    BY <1>1 DEF ProvisioningInv, PeopleInv, PurgesOutsiders, NoMembership, UserRowFree
  <1> QED
    BY <1>5, <1>6, <1>7, <1>8 DEF PeopleInv

LEMMA LinkCommitKeeps ==
    ASSUME ProvisioningInv, NEW e \in Runs, LinkCommit(e), UNCHANGED administrationVars
    PROVE  ProvisioningInv'
  <1> DEFINE r == run[e].request
             a == attempt[r]
             u == run[e].user
  <1>1. /\ runPc[e] = "linkchecked" /\ runPc[e] # "idle"
        /\ runPc[e] \in Holding /\ runPc[e] \in Linking /\ runPc[e] \in Claimed
        /\ UserRowFree(u) /\ ReleaseAdminLock(a.org) /\ Release(r)
        /\ UNCHANGED <<identity, run, purge>>
    BY Stations DEF LinkCommit
  <1>2. /\ run[e] \in RunArguments /\ r \in Requests
        /\ run \in [Runs -> RunArguments \cup {NotStarted}]
        /\ \A f \in Runs : run'[f] = IF f = e THEN run[e] ELSE run[f]
    BY <1>1, TheRun
  <1>3. /\ ProvisioningTypeOK /\ RunsInv
        /\ attempt \in [Requests -> AttemptRows \cup {NoAttempt}]
        /\ adminLock \in [Organizations -> Transactions \cup {None}]
    BY DEF ProvisioningInv, ProvisioningTypeOK, TypeOK
  <1>4. a # NoAttempt /\ SameInvitation(a, run[e].draft) /\ a.status = "IN_FLIGHT"
    BY <1>1, <1>3 DEF RunsInv, ClaimsStand, LinkingHoldsTheAttempt
  <1>5. adminLock' \in [Organizations -> Transactions \cup {None}]
    BY <1>1, <1>3 DEF ReleaseAdminLock
  <1>7. CASE IdentityIsThere(u)
    <2>1. /\ profile' = [profile EXCEPT ![u] =
                           IF @ # "ABSENT" THEN @
                           ELSE IF RequiresPasswordSetup(u, run[e].created)
                                THEN "MUST_CHANGE_PASSWORD" ELSE "SETTLED"]
          /\ memberships' = Written(memberships, a.org, u, a.role, "ACTIVE", a.actor)
          /\ attempt' = [attempt EXCEPT ![r].status = "SUCCEEDED", ![r].subject = u]
          /\ Proceed(e, "answered", "SUCCEEDED") \/ Proceed(e, "fail", "NONE")
      BY <1>7 DEF LinkCommit, Respond, Go
    <2>2. /\ PeopleInv' /\ memberships' \in Tables
          /\ profile' \in [Users -> {"ABSENT", "MUST_CHANGE_PASSWORD", "SETTLED"}]
          /\ attempt' \in [Requests -> AttemptRows \cup {NoAttempt}]
          /\ attempt'[r].status = "SUCCEEDED" /\ attempt'[r] # NoAttempt
          /\ attempt'[r].org = a.org /\ attempt'[r].email = a.email
          /\ \A q \in Requests : q # r => attempt'[q] = attempt[q]
      <3>1. a \in AttemptRows
        BY <1>2, <1>3, <1>4, RowsAreAttempts
      <3>2. u \in Users /\ EmailOf[u] = a.email
        BY <1>1, <1>3, <1>4 DEF RunsInv, RunsLinkTheirAddress, SameInvitation
      <3>3. /\ a.org \in Organizations /\ a.role \in Roles /\ a.actor \in Authors
            /\ "ACTIVE" \in Statuses
        BY <3>1 DEF AttemptRows, Authors, Statuses
      <3>4. /\ memberships' \in Tables
            /\ memberships'[a.org][u] = Stamped(memberships[a.org][u], a.role, "ACTIVE", a.actor)
            /\ \A p \in Organizations, v \in Users :
                 p # a.org \/ v # u => memberships'[p][v] = memberships[p][v]
        <4>1. memberships \in Tables
          BY <1>3 DEF ProvisioningTypeOK, TypeOK
        <4>2. PICK o \in Organizations, user \in Users, role \in Roles, actor \in Authors :
                o = a.org /\ user = u /\ role = a.role /\ actor = a.actor
          BY <3>2, <3>3
        <4>3. memberships' = Written(memberships, o, user, role, "ACTIVE", actor)
          BY <2>1, <4>2
        <4>4. /\ memberships' \in Tables
              /\ memberships'[o][user] = Stamped(memberships[o][user], role, "ACTIVE", actor)
              /\ \A p \in Organizations, v \in Users :
                   p # o \/ v # user => memberships'[p][v] = memberships[p][v]
          BY <3>3, <4>1, <4>3, WrittenTable
        <4> QED
          BY <4>2, <4>4
      <3>5. IsMember(memberships', a.org, u)
        BY <3>3, <3>4 DEF IsMember, Stamped, NoRow, Roles
      <3>6. /\ attempt' \in [Requests -> AttemptRows \cup {NoAttempt}]
            /\ attempt'[r] \in AttemptRows
            /\ attempt'[r].status = "SUCCEEDED" /\ attempt'[r].subject = u
            /\ attempt'[r].org = a.org /\ attempt'[r].email = a.email
            /\ \A q \in Requests : q # r => attempt'[q] = attempt[q]
        <4>1. attempt' = Done(attempt, r, u)
          BY <2>1 DEF Done
        <4>2. r \in Requests /\ attempt[r] \in AttemptRows /\ u \in Users
          BY <1>2, <3>1, <3>2
        <4> HIDE DEF r, u
        <4> QED
          BY <1>3, <4>1, <4>2, DoneAttempt
      <3>7. attempt'[r] # NoAttempt
        BY <3>6 DEF NoAttempt
      <3>8. RequiresPasswordSetup(u, run[e].created) \in BOOLEAN
        BY DEF RequiresPasswordSetup
      <3>9. /\ profile' \in [Users -> {"ABSENT", "MUST_CHANGE_PASSWORD", "SETTLED"}]
            /\ profile'[u] # "ABSENT" /\ \A v \in Users : v # u => profile'[v] = profile[v]
            /\ profile[u] # "ABSENT" => profile'[u] = profile[u]
            /\ profile[u] = "ABSENT" /\ RequiresPasswordSetup(u, run[e].created)
                 => profile'[u] = "MUST_CHANGE_PASSWORD"
        BY <1>3, <2>1, <3>2, <3>8, LinkedProfile DEF ProvisioningTypeOK
      <3>10. profile[u] = "ABSENT" /\ identity[u].invited => profile'[u] = "MUST_CHANGE_PASSWORD"
        BY <3>9 DEF RequiresPasswordSetup
      <3> HIDE DEF r, a, u
      <3>11. PeopleInv'
        BY <1>1, <1>2, <1>7, <3>2, <3>3, <3>4, <3>5, <3>6, <3>9, <3>10, LinkedPeople
      <3> QED
        BY <3>4, <3>6, <3>7, <3>9, <3>11
    <2>3. SameInvitation(attempt'[r], run[e].draft)
      BY <1>4, <2>2 DEF SameInvitation
    <2>4. AttemptsMoveOn /\ LeavesHeldRows(e) /\ attemptLock' \in [Requests -> Runs \cup {None}]
      BY <1>1, <1>2, <1>4, <2>2, ReleasesItsOwn DEF AttemptsMoveOn
    <2>5. /\ RunsInv' /\ runPc' \in [Runs -> RunPcs] /\ runOutcome' \in [Runs -> RunOutcomes]
          /\ abandoned' \subseteq Runs
      <3>1. CASE Proceed(e, "answered", "SUCCEEDED")
        <4>1. "answered" \in RunPcs \ {"idle"} /\ "answered" \notin Claimed
              /\ "answered" \notin Linking /\ "answered" \notin Holding
              /\ "SUCCEEDED" \in RunOutcomes
          BY DEF Claimed, Linking, Holding, RunPcs, InDatabase, InFunction, RunOutcomes
        <4>2. RunsInv'
          BY <1>2, <1>3, <2>2, <2>3, <2>4, <3>1, <4>1, RunMoves
        <4> QED
          BY <1>3, <3>1, <4>1, <4>2, Proceeds
      <3>2. CASE Proceed(e, "fail", "NONE")
        <4>1. RunsInv'
          BY <1>2, <1>3, <2>2, <2>3, <2>4, <3>2, RunMoves, Stations
        <4> QED
          BY <1>3, <3>2, <4>1, Proceeds, Stations
      <3> QED
        BY <2>1, <3>1, <3>2
    <2>6. ProvisioningTypeOK'
      BY <1>1, <1>2, <1>3, <1>5, <2>2, <2>4, <2>5 DEF ProvisioningTypeOK, TypeOK, administrationVars
    <2> QED
      BY <2>2, <2>5, <2>6 DEF ProvisioningInv
  <1>8. CASE ~IdentityIsThere(u)
    <2>1. Proceed(e, "fail", "NONE") /\ UNCHANGED <<profile, memberships, attempt>>
      BY <1>8 DEF LinkCommit, Go
    <2>2. AttemptsMoveOn /\ LeavesHeldRows(e) /\ attemptLock' \in [Requests -> Runs \cup {None}]
      BY <1>1, <2>1, ReleasesItsOwn DEF AttemptsMoveOn
    <2>3. RunsInv'
      BY <1>1, <1>2, <1>3, <1>4, <2>1, <2>2, RunMoves, Stations
    <2> QED
      BY <1>1, <1>2, <1>3, <1>5, <2>1, <2>2, <2>3, QuietRunKeeps, Stations
  <1> QED
    BY <1>7, <1>8

-----------------------------------------------------------------------------
(* What happens to an attempt, and the people.                             *)

\* A run that rests, or dies, while attempts move on.
LEMMA RunsRest ==
    ASSUME ProvisioningTypeOK, RunsInv, UNCHANGED <<run, runOutcome, attemptLock>>,
           \A f \in Runs : \/ runPc'[f] = runPc[f]
                           \/ runPc'[f] = "dead" /\ runPc[f] # "idle",
           AttemptsMoveOn,
           \A f \in Runs : runPc[f] \in Holding =>
             attempt'[run[f].request].status = attempt[run[f].request].status
    PROVE  RunsInv'
  <1>1. "dead" \notin Claimed \cup {"idle"} /\ Holding \subseteq Claimed /\ Linking \subseteq Claimed
        /\ "idle" \notin Claimed /\ "NONE" \notin Succeeds
    BY Stations DEF Succeeds
  <1>2. \A f \in Runs : runPc[f] # "idle" => run[f].request \in Requests
    BY DEF RunsInv, RunsHaveArguments, RunArguments
  <1>3. RunsHaveArguments'
    BY <1>1 DEF RunsInv, RunsHaveArguments
  <1>4. ClaimsStand'
    BY <1>1, <1>2 DEF RunsInv, ClaimsStand, AttemptsMoveOn, SameInvitation
  <1>5. RunsLinkTheirAddress'
    BY <1>1 DEF RunsInv, RunsLinkTheirAddress
  <1>6. LinkingHoldsTheAttempt'
    BY <1>1 DEF RunsInv, LinkingHoldsTheAttempt
  <1>7. AnswersStand'
    <2> SUFFICES ASSUME NEW f \in Runs, runOutcome[f] \in Succeeds
                 PROVE  /\ attempt'[run[f].request].status = "SUCCEEDED"
                        /\ SameInvitation(attempt'[run[f].request], run[f].draft)
      BY DEF AnswersStand, SameInvitation
    <2>1. /\ attempt[run[f].request].status = "SUCCEEDED" /\ run[f].request \in Requests
          /\ SameInvitation(attempt[run[f].request], run[f].draft)
      BY <1>1, <1>2 DEF RunsInv, AnswersStand, RunsHaveArguments
    <2>2. attempt[run[f].request] # NoAttempt
      BY <2>1, RowsAreAttempts
    <2> QED
      BY <2>1, <2>2 DEF AttemptsMoveOn, SameInvitation
  <1> QED
    BY <1>3, <1>4, <1>5, <1>6, <1>7 DEF RunsInv

\* An attempt that is marked FAILED if nobody holds it.
LEMMA FailedAttempt ==
    ASSUME ProvisioningInv, NEW r \in Requests, attempt[r] # NoAttempt,
           Failed(r)
    PROVE  /\ attempt' \in [Requests -> AttemptRows \cup {NoAttempt}] /\ AttemptsMoveOn
           /\ \A q \in Requests : attempt'[q].status = "SUCCEEDED" => attempt'[q] = attempt[q]
           /\ \A q \in Requests : q # r => attempt'[q] = attempt[q]
  <1> DEFINE new == [attempt[r] EXCEPT !.status = IF @ = "IN_FLIGHT" THEN "FAILED" ELSE @]
  <1>1. attempt[r] \in AttemptRows /\ attempt \in [Requests -> AttemptRows \cup {NoAttempt}]
    BY DEF ProvisioningInv, ProvisioningTypeOK
  <1>2. /\ new \in AttemptRows /\ new.org = attempt[r].org /\ new.email = attempt[r].email
        /\ attempt[r].status = "SUCCEEDED" => new.status = "SUCCEEDED"
        /\ new.status = "SUCCEEDED" => new = attempt[r]
    <2>1. CASE attempt[r].status = "IN_FLIGHT"
      BY <1>1, <2>1 DEF AttemptRows
    <2>2. CASE attempt[r].status # "IN_FLIGHT"
      BY <1>1, <2>2 DEF AttemptRows
    <2> QED
      BY <2>1, <2>2
  <1>3. attempt' = [attempt EXCEPT ![r] = new]
    BY <1>1 DEF Failed
  <1> HIDE DEF new
  <1>4. /\ attempt'[r] = new /\ \A q \in Requests : q # r => attempt'[q] = attempt[q]
        /\ attempt' \in [Requests -> AttemptRows \cup {NoAttempt}]
    BY <1>1, <1>2, <1>3
  <1>5. new # NoAttempt
    BY <1>2 DEF AttemptRows, NoAttempt
  <1>6. AttemptsMoveOn
    BY <1>2, <1>4, <1>5 DEF AttemptsMoveOn
  <1> QED
    BY <1>2, <1>4, <1>6

\* Those who hold an attempt hold one that is not free.
LEMMA FreeRowsAreNobodys ==
    ASSUME ProvisioningInv, NEW r, AttemptRowFree(r), NEW f \in Runs, runPc[f] \in Holding
    PROVE  run[f].request \in Requests /\ run[f].request # r
  <1>1. attemptLock[run[f].request] = f /\ run[f].request \in Requests
    BY Stations, TheRun DEF ProvisioningInv, RunsInv, LinkingHoldsTheAttempt
  <1>2. f # None
    BY ProvisioningAssumption, TransactionsAssumption
  <1> QED
    BY <1>1, <1>2 DEF AttemptRowFree

LEMMA FailKeeps ==
    ASSUME ProvisioningInv, NEW e \in Runs, Fail(e), UNCHANGED administrationVars
    PROVE  ProvisioningInv'
  <1> DEFINE r == run[e].request
  <1>1. /\ runPc[e] = "fail" /\ runPc[e] # "idle" /\ runPc[e] \in Claimed
        /\ Proceed(e, "answered", "FAILED")
        /\ UNCHANGED <<memberships, adminLock, attemptLock, identity, profile, run, purge>>
    BY Stations DEF Fail, Respond
  <1>2. /\ run[e] \in RunArguments /\ r \in Requests
        /\ run \in [Runs -> RunArguments \cup {NotStarted}]
        /\ \A f \in Runs : run'[f] = IF f = e THEN run[e] ELSE run[f]
    BY <1>1, TheRun
  <1>3. /\ ProvisioningTypeOK /\ RunsInv
        /\ adminLock' \in [Organizations -> Transactions \cup {None}]
        /\ attemptLock' \in [Requests -> Runs \cup {None}]
    BY <1>1 DEF ProvisioningInv, ProvisioningTypeOK, TypeOK
  <1>4. CASE UNCHANGED attempt
    BY <1>1, <1>3, <1>4, WaitingKeeps, Stations
  <1>5. CASE AttemptRowFree(r) /\ Failed(r)
    <2>1. /\ attempt' \in [Requests -> AttemptRows \cup {NoAttempt}] /\ AttemptsMoveOn
          /\ \A q \in Requests : attempt'[q].status = "SUCCEEDED" => attempt'[q] = attempt[q]
          /\ \A q \in Requests : q # r => attempt'[q] = attempt[q]
      BY <1>1, <1>2, <1>3, <1>5, FailedAttempt DEF RunsInv, ClaimsStand
    <2>2. LeavesHeldRows(e)
      BY <1>1, <1>3, <1>5, <2>1, FreeRowsAreNobodys DEF LeavesHeldRows, RunsInv, LinkingHoldsTheAttempt
    <2>3. RunsInv'
      BY <1>1, <1>2, <1>3, <2>1, <2>2, RunMoves, Stations
    <2> QED
      BY <1>1, <1>2, <1>3, <2>1, <2>3, QuietRunKeeps, Stations
  <1> QED
    BY <1>4, <1>5 DEF Fail

LEMMA KillKeeps ==
    ASSUME ProvisioningInv, NEW e \in Runs, Kill(e), UNCHANGED administrationVars
    PROVE  ProvisioningInv'
  <1>1. /\ UNCHANGED <<memberships, adminLock, attempt, attemptLock, identity, profile, run,
                       runOutcome, purge>>
        /\ runPc' \in [Runs -> RunPcs] /\ abandoned' \subseteq Runs
        /\ \A f \in Runs : \/ runPc'[f] = runPc[f]
                           \/ runPc'[f] = "dead" /\ runPc[f] # "idle"
    BY DEF Kill, ProvisioningInv, ProvisioningTypeOK, InFunction, RunPcs
  <1>2. RunsInv'
    BY <1>1, RunsRest DEF ProvisioningInv, AttemptsMoveOn
  <1>3. PeopleInv'
    BY <1>1, PeopleStay DEF ProvisioningInv
  <1>4. ProvisioningTypeOK'
    BY <1>1 DEF ProvisioningInv, ProvisioningTypeOK, TypeOK, administrationVars
  <1> QED
    BY <1>2, <1>3, <1>4 DEF ProvisioningInv

LEMMA ClearKeeps ==
    ASSUME ProvisioningInv, NEW r \in Requests, Clear(r), UNCHANGED administrationVars
    PROVE  ProvisioningInv'
  <1>1. /\ attempt[r].status = "IN_FLIGHT" /\ AttemptRowFree(r) /\ Failed(r)
        /\ UNCHANGED <<memberships, adminLock, attemptLock, identity, profile, runPc, run,
                       runOutcome, abandoned, purge>>
    BY DEF Clear
  <1>2. attempt[r] # NoAttempt
    BY <1>1 DEF NoAttempt
  <1>3. /\ attempt' \in [Requests -> AttemptRows \cup {NoAttempt}] /\ AttemptsMoveOn
        /\ \A q \in Requests : attempt'[q].status = "SUCCEEDED" => attempt'[q] = attempt[q]
        /\ \A q \in Requests : q # r => attempt'[q] = attempt[q]
    BY <1>1, <1>2, FailedAttempt
  <1>4. RunsInv'
    BY <1>1, <1>3, FreeRowsAreNobodys, RunsRest DEF ProvisioningInv
  <1>5. PeopleInv'
    BY <1>1, <1>3, PeopleStay DEF ProvisioningInv
  <1>6. ProvisioningTypeOK'
    BY <1>1, <1>3 DEF ProvisioningInv, ProvisioningTypeOK, TypeOK, administrationVars
  <1> QED
    BY <1>4, <1>5, <1>6 DEF ProvisioningInv

\* A step of the person or of the operator.
LEMMA PersonKeeps ==
    ASSUME ProvisioningInv,
           UNCHANGED <<adminLock, attempt, attemptLock, runPc, run, runOutcome, abandoned,
                       administrationVars>>,
           memberships' \in Tables, identity' \in [Users -> Identities],
           profile' \in [Users -> {"ABSENT", "MUST_CHANGE_PASSWORD", "SETTLED"}],
           purge' \in [pc : {"none", "locked", "checked"}, user : Users \cup {None}],
           PeopleInv'
    PROVE  ProvisioningInv'
  <1>1. RunsInv'
    BY RunsRest DEF ProvisioningInv, AttemptsMoveOn
  <1>2. ProvisioningTypeOK'
    BY DEF ProvisioningInv, ProvisioningTypeOK, TypeOK, administrationVars
  <1> QED
    BY <1>1, <1>2 DEF ProvisioningInv

LEMMA AcceptKeeps ==
    ASSUME ProvisioningInv, NEW u \in Users, Accept(u), UNCHANGED administrationVars
    PROVE  ProvisioningInv'
  <1> DEFINE new == [identity[u] EXCEPT !.state = "CONFIRMED"]
  <1>1. /\ identity \in [Users -> Identities] /\ memberships \in Tables
        /\ profile \in [Users -> {"ABSENT", "MUST_CHANGE_PASSWORD", "SETTLED"}]
        /\ purge \in [pc : {"none", "locked", "checked"}, user : Users \cup {None}]
    BY DEF ProvisioningInv, ProvisioningTypeOK, TypeOK
  <1>2. identity' = [identity EXCEPT ![u] = new] /\ identity[u].state = "UNCONFIRMED"
    BY <1>1 DEF Accept
  <1>3. /\ new \in Identities /\ new.state = "CONFIRMED"
        /\ new.invited = identity[u].invited /\ new.password = identity[u].password
    BY <1>1 DEF Identities
  <1> HIDE DEF new
  <1>4. /\ identity'[u] = new /\ \A v \in Users : v # u => identity'[v] = identity[v]
        /\ identity' \in [Users -> Identities]
    BY <1>1, <1>2, <1>3
  <1>5. \A v \in Users : Exists(v)' <=> Exists(v)
    BY <1>2, <1>3, <1>4 DEF Exists
  <1>6. UNCHANGED <<memberships, adminLock, attempt, attemptLock, profile, runPc, run,
                    runOutcome, abandoned, purge>>
    BY DEF Accept
  <1>7. LinkedToLiveAccounts'
    BY <1>5, <1>6 DEF ProvisioningInv, PeopleInv, LinkedToLiveAccounts
  <1>8. OnboardingIsOwed'
    BY <1>3, <1>4, <1>5, <1>6 DEF ProvisioningInv, PeopleInv, OnboardingIsOwed
  <1>9. InvitedAndThere'
    BY <1>3, <1>4, <1>5, <1>6 DEF ProvisioningInv, PeopleInv, InvitedAndThere
  <1>10. PurgesOutsiders'
    BY <1>6 DEF ProvisioningInv, PeopleInv, PurgesOutsiders, NoMembership
  <1> QED
    BY <1>1, <1>4, <1>6, <1>7, <1>8, <1>9, <1>10, PersonKeeps DEF PeopleInv

LEMMA SetPasswordKeeps ==
    ASSUME ProvisioningInv, NEW u \in Users, SetPassword(u), UNCHANGED administrationVars
    PROVE  ProvisioningInv'
  <1> DEFINE new == [identity[u] EXCEPT !.password = TRUE]
  <1>1. /\ identity \in [Users -> Identities] /\ memberships \in Tables
        /\ profile \in [Users -> {"ABSENT", "MUST_CHANGE_PASSWORD", "SETTLED"}]
        /\ purge \in [pc : {"none", "locked", "checked"}, user : Users \cup {None}]
    BY DEF ProvisioningInv, ProvisioningTypeOK, TypeOK
  <1>2. identity' = [identity EXCEPT ![u] = new]
    BY <1>1 DEF SetPassword
  <1>3. /\ new \in Identities /\ new.state = identity[u].state
        /\ new.invited = identity[u].invited /\ new.password
    BY <1>1 DEF Identities
  <1> HIDE DEF new
  <1>4. /\ identity'[u] = new /\ \A v \in Users : v # u => identity'[v] = identity[v]
        /\ identity' \in [Users -> Identities]
    BY <1>1, <1>2, <1>3
  <1>5. \A v \in Users : Exists(v)' <=> Exists(v)
    BY <1>3, <1>4 DEF Exists
  <1>6. UNCHANGED <<memberships, adminLock, attempt, attemptLock, profile, runPc, run,
                    runOutcome, abandoned, purge>>
    BY DEF SetPassword
  <1>7. LinkedToLiveAccounts'
    BY <1>5, <1>6 DEF ProvisioningInv, PeopleInv, LinkedToLiveAccounts
  <1>8. OnboardingIsOwed'
    BY <1>3, <1>4, <1>5, <1>6 DEF ProvisioningInv, PeopleInv, OnboardingIsOwed
  <1>9. InvitedAndThere'
    BY <1>3, <1>4, <1>5, <1>6 DEF ProvisioningInv, PeopleInv, InvitedAndThere
  <1>10. PurgesOutsiders'
    BY <1>6 DEF ProvisioningInv, PeopleInv, PurgesOutsiders, NoMembership
  <1> QED
    BY <1>1, <1>4, <1>6, <1>7, <1>8, <1>9, <1>10, PersonKeeps DEF PeopleInv

LEMMA AcknowledgeKeeps ==
    ASSUME ProvisioningInv, NEW u \in Users, AcknowledgePasswordChange(u),
           UNCHANGED administrationVars
    PROVE  ProvisioningInv'
  <1>1. /\ identity \in [Users -> Identities] /\ memberships \in Tables
        /\ profile \in [Users -> {"ABSENT", "MUST_CHANGE_PASSWORD", "SETTLED"}]
        /\ purge \in [pc : {"none", "locked", "checked"}, user : Users \cup {None}]
    BY DEF ProvisioningInv, ProvisioningTypeOK, TypeOK
  <1>2. /\ identity[u].state = "CONFIRMED" /\ identity[u].password
        /\ profile[u] = "MUST_CHANGE_PASSWORD"
        /\ UNCHANGED <<memberships, adminLock, attempt, attemptLock, identity, runPc, run,
                       runOutcome, abandoned, purge>>
    BY DEF AcknowledgePasswordChange
  <1>3. /\ profile'[u] = "SETTLED" /\ \A v \in Users : v # u => profile'[v] = profile[v]
        /\ profile' \in [Users -> {"ABSENT", "MUST_CHANGE_PASSWORD", "SETTLED"}]
    BY <1>1 DEF AcknowledgePasswordChange
  <1>4. \A v \in Users : Exists(v)' <=> Exists(v)
    BY <1>2 DEF Exists
  <1>5. LinkedToLiveAccounts'
    BY <1>2, <1>3, <1>4 DEF ProvisioningInv, PeopleInv, LinkedToLiveAccounts
  <1>6. OnboardingIsOwed'
    BY <1>2, <1>3, <1>4 DEF ProvisioningInv, PeopleInv, OnboardingIsOwed
  <1>7. InvitedAndThere'
    BY <1>2, <1>3, <1>4 DEF ProvisioningInv, PeopleInv, InvitedAndThere
  <1>8. PurgesOutsiders'
    BY <1>2 DEF ProvisioningInv, PeopleInv, PurgesOutsiders, NoMembership
  <1> QED
    BY <1>1, <1>2, <1>3, <1>5, <1>6, <1>7, <1>8, PersonKeeps DEF PeopleInv

LEMMA PurgeLockKeeps ==
    ASSUME ProvisioningInv, NEW u \in PurgeTargets, PurgeLock(u), UNCHANGED administrationVars
    PROVE  ProvisioningInv'
  <1>1. /\ u \in Users /\ purge' = [pc |-> "locked", user |-> u]
        /\ UNCHANGED <<memberships, adminLock, attempt, attemptLock, identity, profile, runPc,
                       run, runOutcome, abandoned>>
    BY ProvisioningAssumption DEF PurgeLock
  <1>2. /\ identity \in [Users -> Identities] /\ memberships \in Tables
        /\ profile \in [Users -> {"ABSENT", "MUST_CHANGE_PASSWORD", "SETTLED"}]
    BY DEF ProvisioningInv, ProvisioningTypeOK, TypeOK
  <1>3. LinkedToLiveAccounts' /\ OnboardingIsOwed' /\ InvitedAndThere'
    BY <1>1 DEF ProvisioningInv, PeopleInv, LinkedToLiveAccounts, OnboardingIsOwed,
                InvitedAndThere, Exists
  <1>4. PurgesOutsiders'
    BY <1>1 DEF PurgesOutsiders
  <1> QED
    BY <1>1, <1>2, <1>3, <1>4, PersonKeeps DEF PeopleInv

LEMMA PurgeCheckKeeps ==
    ASSUME ProvisioningInv, PurgeCheck, UNCHANGED administrationVars
    PROVE  ProvisioningInv'
  <1>1. /\ identity \in [Users -> Identities] /\ memberships \in Tables
        /\ profile \in [Users -> {"ABSENT", "MUST_CHANGE_PASSWORD", "SETTLED"}]
        /\ purge \in [pc : {"none", "locked", "checked"}, user : Users \cup {None}]
    BY DEF ProvisioningInv, ProvisioningTypeOK, TypeOK
  <1>2. /\ purge.pc = "locked" /\ purge.user \in Users
        /\ UNCHANGED <<memberships, adminLock, attempt, attemptLock, identity, profile, runPc,
                       run, runOutcome, abandoned>>
    BY DEF PurgeCheck, ProvisioningInv, PeopleInv, PurgesOutsiders
  <1>3. /\ purge' \in [pc : {"none", "locked", "checked"}, user : Users \cup {None}]
        /\ purge'.pc # "none" =>
             purge'.pc = "checked" /\ purge'.user = purge.user /\ NoMembership(purge.user)
    BY <1>1, <1>2 DEF PurgeCheck, Purgeable
  <1>4. LinkedToLiveAccounts' /\ OnboardingIsOwed' /\ InvitedAndThere'
    BY <1>2 DEF ProvisioningInv, PeopleInv, LinkedToLiveAccounts, OnboardingIsOwed,
                InvitedAndThere, Exists
  <1>5. PurgesOutsiders'
    BY <1>2, <1>3 DEF PurgesOutsiders, NoMembership
  <1> QED
    BY <1>1, <1>2, <1>3, <1>4, <1>5, PersonKeeps DEF PeopleInv

\* A purge takes no membership with it: there is none.
LEMMA PurgeTakesNoRow ==
    ASSUME ProvisioningInv, PurgeDelete
    PROVE  UNCHANGED memberships /\ purge.user \in Users
  <1> DEFINE u == purge.user
             after == [o \in Organizations |-> [memberships[o] EXCEPT ![u] = NoRow]]
  <1>1. u \in Users /\ memberships \in [Organizations -> [Users -> Rows \cup {NoRow}]]
    BY DEF PurgeDelete, ProvisioningInv, ProvisioningTypeOK, TypeOK, Tables, PeopleInv, PurgesOutsiders
  <1>2. ASSUME NEW o \in Organizations
        PROVE  [memberships[o] EXCEPT ![u] = NoRow] = memberships[o]
    <2>1. memberships[o][u] = NoRow
      BY <1>2 DEF PurgeDelete, ProvisioningInv, PeopleInv, PurgesOutsiders, NoMembership, IsMember
    <2>2. memberships[o] \in [Users -> Rows \cup {NoRow}]
      BY <1>1
    <2> QED
      BY <2>1, <2>2
  <1>3. after = memberships
    BY <1>1, <1>2
  <1>4. memberships' = after \/ UNCHANGED memberships
    BY DEF PurgeDelete
  <1> QED
    BY <1>1, <1>3, <1>4

LEMMA PurgeDeleteKeeps ==
    ASSUME ProvisioningInv, PurgeDelete, UNCHANGED administrationVars
    PROVE  ProvisioningInv'
  <1> DEFINE u == purge.user
             new == [identity[u] EXCEPT !.state = "DELETED"]
  <1>1. /\ identity \in [Users -> Identities] /\ memberships \in Tables
        /\ profile \in [Users -> {"ABSENT", "MUST_CHANGE_PASSWORD", "SETTLED"}]
        /\ purge' \in [pc : {"none", "locked", "checked"}, user : Users \cup {None}]
    BY DEF PurgeDelete, ProvisioningInv, ProvisioningTypeOK, TypeOK
  <1>2. /\ UNCHANGED memberships /\ u \in Users /\ purge'.pc = "none"
        /\ UNCHANGED <<adminLock, attempt, attemptLock, runPc, run, runOutcome, abandoned>>
        /\ purge.pc = "checked"
    BY PurgeTakesNoRow DEF PurgeDelete
  <1>3. PurgesOutsiders'
    BY <1>2 DEF PurgesOutsiders
  <1>4. CASE UNCHANGED <<identity, profile>>
    <2>1. LinkedToLiveAccounts' /\ OnboardingIsOwed' /\ InvitedAndThere'
      BY <1>2, <1>4 DEF ProvisioningInv, PeopleInv, LinkedToLiveAccounts, OnboardingIsOwed,
                        InvitedAndThere, Exists
    <2> QED
      BY <1>1, <1>2, <1>3, <1>4, <2>1, PersonKeeps DEF PeopleInv
  <1>5. CASE identity' = [identity EXCEPT ![u] = new] /\ profile' = [profile EXCEPT ![u] = "ABSENT"]
    <2>1. new \in Identities /\ new.state = "DELETED"
      BY <1>1, <1>2 DEF Identities
    <2> HIDE DEF new
    <2>2. /\ identity'[u] = new /\ \A v \in Users : v # u => identity'[v] = identity[v]
          /\ identity' \in [Users -> Identities]
          /\ profile'[u] = "ABSENT" /\ \A v \in Users : v # u => profile'[v] = profile[v]
          /\ profile' \in [Users -> {"ABSENT", "MUST_CHANGE_PASSWORD", "SETTLED"}]
      BY <1>1, <1>2, <1>5, <2>1
    <2>3. \A v \in Users : Exists(v)' <=> Exists(v) /\ v # u
      BY <2>1, <2>2 DEF Exists
    <2>4. \A o \in Organizations : ~IsMember(memberships, o, u)
      BY <1>2 DEF ProvisioningInv, PeopleInv, PurgesOutsiders, NoMembership
    <2>5. LinkedToLiveAccounts'
      BY <1>2, <2>2, <2>3, <2>4 DEF ProvisioningInv, PeopleInv, LinkedToLiveAccounts
    <2>6. OnboardingIsOwed' /\ InvitedAndThere'
      BY <2>1, <2>2, <2>3 DEF ProvisioningInv, PeopleInv, OnboardingIsOwed, InvitedAndThere
    <2> QED
      BY <1>1, <1>2, <1>3, <2>2, <2>5, <2>6, PersonKeeps DEF PeopleInv
  <1>6. \/ UNCHANGED <<identity, profile>>
        \/ identity' = [identity EXCEPT ![u].state = "DELETED"] /\ profile' = [profile EXCEPT ![u] = "ABSENT"]
    BY DEF PurgeDelete
  <1>7. [identity EXCEPT ![u].state = "DELETED"] = [identity EXCEPT ![u] = new]
    BY <1>1, <1>2
  <1> QED
    BY <1>4, <1>5, <1>6, <1>7

-----------------------------------------------------------------------------
(* Runs beside the administration calls.                                   *)

\* A run in the lock is the one who has it, and what it checked still stands.
GrantsStand ==
    \A e \in Runs :
      /\ runPc[e] \in {"linkheld", "linkchecked"} => adminLock[attempt[run[e].request].org] = e
      /\ runPc[e] = "linkchecked" => MayLink(memberships, attempt[run[e].request], run[e].user)

BesideInv == ProvisioningInv /\ IInv /\ GrantsStand

\* A lock somebody else has is left to them.
LeavesLocks(t) == \A o \in Organizations : adminLock[o] \notin {None, t} => adminLock'[o] = adminLock[o]

LeavesHeldAttempts(e) ==
    \A f \in Runs : f # e /\ runPc[f] \in Holding =>
      attempt'[run[f].request] = attempt[run[f].request]

\* An attempt that is held is a row.
LEMMA HeldAttempt ==
    ASSUME ProvisioningInv, NEW e \in Runs, runPc[e] \in Holding
    PROVE  /\ run[e].request \in Requests /\ attempt[run[e].request] \in AttemptRows
           /\ attempt[run[e].request].org \in Organizations
           /\ attempt[run[e].request].actor \in Users
           /\ attempt[run[e].request].status = "IN_FLIGHT" /\ run[e].user \in Users
           /\ EmailOf[run[e].user] = attempt[run[e].request].email
  <1>1. run[e].request \in Requests /\ runPc[e] \in Linking /\ runPc[e] \in Claimed
    BY TheRun, Stations
  <1>2. attempt[run[e].request].status = "IN_FLIGHT" /\ run[e].user \in Users
        /\ SameInvitation(attempt[run[e].request], run[e].draft)
        /\ EmailOf[run[e].user] = run[e].draft.email
    BY <1>1 DEF ProvisioningInv, RunsInv, LinkingHoldsTheAttempt, RunsLinkTheirAddress, ClaimsStand
  <1>3. attempt[run[e].request] \in AttemptRows
    BY <1>1, <1>2, RowsAreAttempts DEF ProvisioningInv
  <1> QED
    BY <1>1, <1>2, <1>3 DEF AttemptRows, SameInvitation

\* A decision reads one organisation's rows.
LEMMA MayLinkIsLocal ==
    ASSUME NEW s, NEW t, NEW a \in AttemptRows, NEW u \in Users,
           \A v \in Users : s[a.org][v] = t[a.org][v]
    PROVE  MayLink(s, a, u) <=> MayLink(t, a, u)
  <1>1. a.actor \in Users
    BY DEF AttemptRows
  <1>2. /\ ActiveRole(s, a.org, a.actor) = ActiveRole(t, a.org, a.actor)
        /\ s[a.org][u] = t[a.org][u]
        /\ IsActiveOwner(s, a.org, u) <=> IsActiveOwner(t, a.org, u)
        /\ OtherActiveOwner(s, a.org, u) <=> OtherActiveOwner(t, a.org, u)
    BY <1>1 DEF ActiveRole, IsActiveOwner, OtherActiveOwner
  <1> QED
    BY <1>2 DEF MayLink

LEMMA VerdictIsLocal ==
    ASSUME NEW s, NEW t, NEW k \in Arguments, \A v \in Users : s[k.org][v] = t[k.org][v]
    PROVE  Verdict(s, k) = Verdict(t, k)
  <1>1. /\ ActiveRole(s, k.org, k.actor) = ActiveRole(t, k.org, k.actor)
        /\ s[k.org][k.subject] = t[k.org][k.subject]
        /\ IsActiveOwner(s, k.org, k.subject) <=> IsActiveOwner(t, k.org, k.subject)
        /\ OtherActiveOwner(s, k.org, k.subject) <=> OtherActiveOwner(t, k.org, k.subject)
    BY DEF ActiveRole, IsActiveOwner, OtherActiveOwner, Arguments
  <1> QED
    BY <1>1 DEF Verdict

\* The calls go on as they were while nobody writes and nobody takes their lock.
LEMMA CallsAreLeft ==
    ASSUME IInv, TypeOK', UNCHANGED <<memberships, administrationVars>>, NEW t, t \notin Calls,
           LeavesLocks(t)
    PROVE  IInv'
  <1>1. CallsAreFormed'
    BY TransactionsAssumption
       DEF IInv, CallsAreFormed, LeavesLocks, administrationVars, Arguments
  <1>2. /\ SeenRowsArePast' /\ CheckedStandsUntilWritten' /\ KeepsAnActiveOwner'
        /\ LastOwnerGuardIsUnreachable'
    BY DEF IInv, SeenRowsArePast, SeenIsPast, CheckedStandsUntilWritten, Verdict,
           KeepsAnActiveOwner, IsActiveOwner, LastOwnerGuardIsUnreachable, administrationVars
  <1> QED
    BY <1>1, <1>2 DEF IInv

\* A step of a run that writes no membership.
LEMMA RunLeavesTheRest ==
    ASSUME BesideInv, NEW e \in Runs, ProvisioningInv', UNCHANGED <<memberships, administrationVars>>,
           \A f \in Runs : f # e => runPc'[f] = runPc[f] /\ run'[f] = run[f],
           LeavesHeldAttempts(e), LeavesLocks(e),
           runPc'[e] \in {"linkheld", "linkchecked"} =>
             adminLock'[attempt'[run'[e].request].org] = e,
           runPc'[e] = "linkchecked" =>
             MayLink(memberships, attempt'[run'[e].request], run'[e].user)
    PROVE  BesideInv'
  <1>1. e \notin Calls /\ \A f \in Runs : f # None
    BY ProvisioningAssumption, TransactionsAssumption
  <1>2. IInv'
    BY <1>1, CallsAreLeft DEF BesideInv, ProvisioningInv, ProvisioningTypeOK
  <1>3. ASSUME NEW f \in Runs, f # e, runPc[f] \in {"linkheld", "linkchecked"}
        PROVE  /\ attempt'[run'[f].request] = attempt[run[f].request] /\ run'[f] = run[f]
               /\ attempt[run[f].request].org \in Organizations
               /\ adminLock'[attempt[run[f].request].org] = f
    <2>1. runPc[f] \in Holding
      BY <1>3, Stations
    <2> QED
      BY <1>1, <1>3, <2>1, HeldAttempt DEF BesideInv, GrantsStand, LeavesHeldAttempts, LeavesLocks
  <1>4. ASSUME NEW f \in Runs, runPc'[f] \in {"linkheld", "linkchecked"}
        PROVE  adminLock'[attempt'[run'[f].request].org] = f
    BY <1>3, <1>4
  <1>5. ASSUME NEW f \in Runs, runPc'[f] = "linkchecked"
        PROVE  MayLink(memberships, attempt'[run'[f].request], run'[f].user)
    BY SMTT(30), <1>3, <1>5 DEF BesideInv, GrantsStand
  <1>6. GrantsStand'
    <2>1. memberships' = memberships
      OBVIOUS
    <2> QED
      BY ZenonT(40), <1>4, <1>5, <2>1 DEF GrantsStand, MayLink
  <1> QED
    BY <1>2, <1>6 DEF BesideInv

\* The steps of a run outside the lock.
OutsideTheLock(e) ==
    \/ Press(e) \/ AuthoriseRun(e) \/ Claim(e) \/ Find(e) \/ Invite(e) \/ Refind(e)
    \/ LinkLock(e) \/ Fail(e) \/ Kill(e)

LEMMA OutsideKeeps ==
    ASSUME ProvisioningInv, NEW e \in Runs, OutsideTheLock(e), UNCHANGED administrationVars
    PROVE  ProvisioningInv'
  BY PressKeeps, AuthoriseRunKeeps, ClaimKeeps, FindKeeps, InviteKeeps, RefindKeeps,
     LinkLockKeeps, FailKeeps, KillKeeps DEF OutsideTheLock

LEMMA OutsideMoves ==
    ASSUME ProvisioningInv, NEW e \in Runs, OutsideTheLock(e)
    PROVE  /\ UNCHANGED <<memberships, adminLock>>
           /\ \A f \in Runs : f # e => runPc'[f] = runPc[f] /\ run'[f] = run[f]
           /\ \/ runPc'[e] \notin {"linkheld", "linkchecked"}
              \/ runPc'[e] = runPc[e] /\ run' = run /\ attempt' = attempt
  <1>1. runPc \in [Runs -> RunPcs] /\ run \in [Runs -> RunArguments \cup {NotStarted}]
    BY DEF ProvisioningInv, ProvisioningTypeOK
  <1>2. CASE Press(e)
    BY <1>1, <1>2 DEF Press, Go, Proceed
  <1>3. CASE AuthoriseRun(e)
    BY <1>1, <1>3 DEF AuthoriseRun, Respond, Continue, Proceed
  <1>4. CASE Claim(e)
    <2> DEFINE verdict == ClaimVerdict(attempt[run[e].request], run[e].draft)
    <2>1. /\ UNCHANGED <<memberships, adminLock, run>>
          /\ \/ Proceed(e, "find", "NONE") \/ Proceed(e, "answered", "SERVER_UNAVAILABLE")
             \/ Proceed(e, "answered", verdict)
      BY <1>4 DEF Claim, Go, Respond
    <2> HIDE DEF verdict
    <2> QED
      BY <1>1, <2>1 DEF Proceed
  <1>5. CASE Find(e)
    <2>1. /\ UNCHANGED <<memberships, adminLock>> /\ \A f \in Runs : f # e => run'[f] = run[f]
          /\ \/ Proceed(e, "answered", "SERVER_UNAVAILABLE") \/ Proceed(e, "link", "NONE")
             \/ Proceed(e, "invite", "NONE")
      BY <1>1, <1>5 DEF Find, DirectoryUnavailable, Go, Respond
    <2> QED
      BY <1>1, <2>1 DEF Proceed
  <1>6. CASE Invite(e)
    <2>1. /\ UNCHANGED <<memberships, adminLock>> /\ \A f \in Runs : f # e => run'[f] = run[f]
          /\ Proceed(e, "link", "NONE") \/ Proceed(e, "refind", "NONE")
      BY <1>1, <1>6 DEF Invite, Go
    <2> QED
      BY <1>1, <2>1 DEF Proceed
  <1>7. CASE Refind(e)
    <2>1. /\ UNCHANGED <<memberships, adminLock>> /\ \A f \in Runs : f # e => run'[f] = run[f]
          /\ \/ Proceed(e, "answered", "SERVER_UNAVAILABLE") \/ Proceed(e, "link", "NONE")
             \/ Proceed(e, "fail", "NONE")
      BY <1>1, <1>7 DEF Refind, DirectoryUnavailable, Go, Respond
    <2> QED
      BY <1>1, <2>1 DEF Proceed
  <1>8. CASE LinkLock(e)
    BY <1>1, <1>8 DEF LinkLock, Go, Respond, Continue, Proceed
  <1>9. CASE Fail(e)
    BY <1>1, <1>9 DEF Fail, Respond, Proceed
  <1>10. CASE Kill(e)
    BY <1>1, <1>10 DEF Kill
  <1> QED
    BY <1>2, <1>3, <1>4, <1>5, <1>6, <1>7, <1>8, <1>9, <1>10 DEF OutsideTheLock

\* Nobody writes an attempt another run has locked.
LEMMA OutsideLeavesHeld ==
    ASSUME ProvisioningInv, NEW e \in Runs, OutsideTheLock(e)
    PROVE  LeavesHeldAttempts(e)
  <1> DEFINE r == run[e].request
  <1>1. attempt \in [Requests -> AttemptRows \cup {NoAttempt}]
    BY DEF ProvisioningInv, ProvisioningTypeOK
  <1>2. UNCHANGED attempt \/ (AttemptRowFree(r) /\ \A q \in Requests : q # r => attempt'[q] = attempt[q])
    <2>1. CASE Claim(e)
      BY <1>1, <2>1 DEF Claim
    <2>2. CASE Fail(e)
      BY <1>1, <2>2 DEF Fail, Failed
    <2>3. CASE ~Claim(e) /\ ~Fail(e)
      BY <2>3 DEF OutsideTheLock, Press, AuthoriseRun, Find, Invite, Refind, LinkLock, Kill
    <2> QED
      BY <2>1, <2>2, <2>3
  <1> HIDE DEF r
  <1>3. CASE UNCHANGED attempt
    BY <1>3 DEF LeavesHeldAttempts
  <1>4. CASE AttemptRowFree(r) /\ \A q \in Requests : q # r => attempt'[q] = attempt[q]
    BY <1>4, FreeRowsAreNobodys DEF LeavesHeldAttempts
  <1> QED
    BY <1>2, <1>3, <1>4

LEMMA OutsideBeside ==
    ASSUME BesideInv, NEW e \in Runs, OutsideTheLock(e), UNCHANGED administrationVars
    PROVE  BesideInv'
  <1>1. ProvisioningInv /\ ProvisioningInv' /\ LeavesHeldAttempts(e)
    BY OutsideKeeps, OutsideLeavesHeld DEF BesideInv
  <1>2. /\ UNCHANGED <<memberships, adminLock>>
        /\ \A f \in Runs : f # e => runPc'[f] = runPc[f] /\ run'[f] = run[f]
        /\ \/ runPc'[e] \notin {"linkheld", "linkchecked"}
           \/ runPc'[e] = runPc[e] /\ run' = run /\ attempt' = attempt
    BY <1>1, OutsideMoves
  <1>3. LeavesLocks(e)
    BY <1>2 DEF LeavesLocks
  <1>4. /\ runPc'[e] \in {"linkheld", "linkchecked"} =>
             adminLock'[attempt'[run'[e].request].org] = e
        /\ runPc'[e] = "linkchecked" =>
             MayLink(memberships, attempt'[run'[e].request], run'[e].user)
    BY <1>2 DEF BesideInv, GrantsStand
  <1> QED
    BY <1>1, <1>2, <1>3, <1>4, RunLeavesTheRest

LEMMA LinkAdminBeside ==
    ASSUME BesideInv, NEW e \in Runs, LinkAdmin(e), UNCHANGED administrationVars
    PROVE  BesideInv'
  <1>1. /\ ProvisioningInv /\ ProvisioningInv' /\ runPc[e] \in Holding
        /\ runPc' = [runPc EXCEPT ![e] = "linkheld"]
        /\ UNCHANGED <<memberships, attempt, run>>
        /\ TakeAdminLock(attempt[run[e].request].org, e)
    BY LinkAdminKeeps, Stations DEF BesideInv, LinkAdmin, Continue
  <1>2. /\ runPc \in [Runs -> RunPcs] /\ adminLock \in [Organizations -> Transactions \cup {None}]
        /\ attempt[run[e].request].org \in Organizations
    BY <1>1, HeldAttempt DEF ProvisioningInv, ProvisioningTypeOK, TypeOK
  <1>3. runPc'[e] = "linkheld" /\ \A f \in Runs : f # e => runPc'[f] = runPc[f] /\ run'[f] = run[f]
    BY <1>1, <1>2
  <1>4. LeavesLocks(e) /\ adminLock'[attempt'[run'[e].request].org] = e
    BY <1>1, <1>2 DEF LeavesLocks, TakeAdminLock, LockFree
  <1>5. LeavesHeldAttempts(e)
    BY <1>1 DEF LeavesHeldAttempts
  <1> QED
    BY <1>1, <1>3, <1>4, <1>5, RunLeavesTheRest

LEMMA LinkCheckBeside ==
    ASSUME BesideInv, NEW e \in Runs, LinkCheck(e), UNCHANGED administrationVars
    PROVE  BesideInv'
  <1> DEFINE a == attempt[run[e].request]
  <1>1. /\ ProvisioningInv /\ ProvisioningInv' /\ runPc[e] = "linkheld" /\ runPc[e] \in Holding
        /\ UNCHANGED <<memberships, attempt, run>>
    BY LinkCheckKeeps, Stations DEF BesideInv, LinkCheck
  <1>2. /\ runPc \in [Runs -> RunPcs] /\ adminLock \in [Organizations -> Transactions \cup {None}]
        /\ a.org \in Organizations
    BY <1>1, HeldAttempt DEF ProvisioningInv, ProvisioningTypeOK, TypeOK
  <1>3. adminLock[a.org] = e
    BY <1>1 DEF BesideInv, GrantsStand
  <1>4. LeavesHeldAttempts(e)
    BY <1>1 DEF LeavesHeldAttempts
  <1>5. CASE MayLink(memberships, a, run[e].user)
    <2>1. runPc' = [runPc EXCEPT ![e] = "linkchecked"] /\ UNCHANGED adminLock
      BY <1>5 DEF LinkCheck, Continue
    <2>2. runPc'[e] = "linkchecked" /\ \A f \in Runs : f # e => runPc'[f] = runPc[f] /\ run'[f] = run[f]
      BY <1>1, <1>2, <2>1
    <2>3. LeavesLocks(e) /\ adminLock'[attempt'[run'[e].request].org] = e
      BY <1>1, <1>3, <2>1 DEF LeavesLocks
    <2>4. MayLink(memberships, attempt'[run'[e].request], run'[e].user)
      BY <1>1, <1>5
    <2> QED
      BY <1>1, <1>4, <2>2, <2>3, <2>4, RunLeavesTheRest
  <1>6. CASE ~MayLink(memberships, a, run[e].user)
    <2>1. Proceed(e, "fail", "NONE") /\ ReleaseAdminLock(a.org)
      BY <1>6 DEF LinkCheck, Go
    <2>2. /\ runPc'[e] \notin {"linkheld", "linkchecked"}
          /\ \A f \in Runs : f # e => runPc'[f] = runPc[f] /\ run'[f] = run[f]
      BY <1>1, <1>2, <2>1 DEF Proceed
    <2>3. LeavesLocks(e)
      BY <1>2, <1>3, <2>1 DEF LeavesLocks, ReleaseAdminLock
    <2> QED
      BY <1>1, <1>4, <2>2, <2>3, RunLeavesTheRest
  <1> QED
    BY <1>5, <1>6

\* The authority of a grant that was checked.
LEMMA GrantHasAuthority ==
    ASSUME NEW table \in Tables, NEW a \in AttemptRows, NEW u \in Users, MayLink(table, a, u)
    PROVE  /\ IsAdministrator(table, a.org, a.actor)
           /\ MayWrite(ActiveRole(table, a.org, a.actor), table[a.org][u], a.role)
           /\ a.actor = u => a.role = table[a.org][u].role /\ table[a.org][u].status = "ACTIVE"
  <1>1. a.actor \in Users /\ a.org \in Organizations
    BY DEF AttemptRows
  <1>2. /\ IsAdministrator(table, a.org, a.actor)
        /\ MayWrite(ActiveRole(table, a.org, a.actor), table[a.org][u], a.role)
    BY DEF MayLink, StillAdministrator, MayGrant, IsAdministrator, MayWrite
  <1>3. ASSUME a.actor = u
        PROVE  a.role = table[a.org][u].role /\ table[a.org][u].status = "ACTIVE"
    <2>1. table[a.org][u].status = "ACTIVE"
      BY <1>2, <1>3 DEF IsAdministrator, ActiveRole, AdministratorRoles
    <2>2. table[a.org][u] # NoRow
      BY <2>1 DEF NoRow
    <2> QED
      BY <1>3, <2>1, <2>2 DEF MayLink
  <1> QED
    BY <1>2, <1>3

\* A row written under the organisation's lock leaves what the calls have seen
\* and checked as it was.
LEMMA GrantLeavesCalls ==
    ASSUME IInv, TypeOK', UNCHANGED administrationVars, NEW t, t \notin Calls, LeavesLocks(t),
           NEW o \in Organizations, adminLock[o] = t, NEW u \in Users, NEW actor \in Users,
           NEW role \in Roles, NEW status \in Statuses,
           memberships' = Written(memberships, o, u, role, status, actor),
           MayWrite(ActiveRole(memberships, o, actor), memberships[o][u], role),
           actor = u => role = memberships[o][u].role /\ status = memberships[o][u].status
    PROVE  IInv'
  <1>1. actor \in Authors /\ memberships \in Tables
    BY DEF Authors, IInv, TypeOK
  <1>2. /\ memberships'[o][u] = Stamped(memberships[o][u], role, status, actor)
        /\ \A p \in Organizations, v \in Users :
             p # o \/ v # u => memberships'[p][v] = memberships[p][v]
    BY <1>1, WrittenTable
  <1>3. CallsAreFormed'
    BY TransactionsAssumption
       DEF IInv, CallsAreFormed, LeavesLocks, administrationVars, Arguments
  <1>4. KeepsAnActiveOwner'
    <2>1. \A p \in Organizations : \E v \in Users :
            IsActiveOwner(Written(memberships, o, u, role, status, actor), p, v)
      BY <1>1, AuthorityKeepsAnActiveOwner DEF IInv, KeepsAnActiveOwner
    <2> QED
      BY <2>1 DEF KeepsAnActiveOwner, IsActiveOwner
  <1>5. LastOwnerGuardIsUnreachable'
    BY DEF IInv, LastOwnerGuardIsUnreachable, administrationVars
  <1>6. SeenRowsArePast'
    <2> SUFFICES ASSUME NEW d \in Calls, callPc[d] # "unsent"
                 PROVE  SeenIsPast(call[d])'
      BY DEF SeenRowsArePast, administrationVars
    <2>1. SeenIsPast(call[d]) /\ call[d] \in Arguments /\ UNCHANGED call
      BY DEF IInv, SeenRowsArePast, CallsAreFormed, administrationVars
    <2>2. CASE call[d].org # o \/ call[d].subject # u
      BY <1>2, <2>1, <2>2 DEF SeenIsPast, Arguments
    <2>3. CASE call[d].org = o /\ call[d].subject = u
      <3>1. /\ memberships'[o][u].version = memberships[o][u].version + 1
            /\ memberships[o][u].version \in Nat /\ call[d].seen.version \in Nat
        BY <1>1, <1>2, <2>1 DEF Stamped, Tables, Rows, NoRow, Arguments
      <3>2. call[d].seen.version <= memberships[o][u].version
        BY <2>1, <2>3 DEF SeenIsPast
      <3>3. \A m, n \in Nat : m <= n => m <= n + 1 /\ m # n + 1
        OBVIOUS
      <3>4. /\ call[d].seen.version <= memberships[o][u].version + 1
            /\ call[d].seen.version # memberships[o][u].version + 1
        BY <3>1, <3>2, <3>3
      <3>5. /\ call[d].seen.version <= memberships'[o][u].version
            /\ call[d].seen.version # memberships'[o][u].version
        BY SMTT(30), <3>1, <3>4
      <3> QED
        BY <2>1, <2>3, <3>5 DEF SeenIsPast
    <2> QED
      BY <2>2, <2>3
  <1>7. CheckedStandsUntilWritten'
    <2> SUFFICES ASSUME NEW d \in Calls, callPc[d] = "checked"
                 PROVE  (Verdict(memberships, call[d]) = "CHANGED")'
      BY DEF CheckedStandsUntilWritten, administrationVars
    <2>1. /\ call[d] \in Arguments /\ UNCHANGED call
          /\ adminLock[call[d].org] = d
          /\ Verdict(memberships, call[d]) = "CHANGED"
      BY DEF IInv, CallsAreFormed, CheckedStandsUntilWritten, administrationVars
    <2>2. call[d].org # o
      BY <2>1
    <2>3. \A v \in Users : memberships'[call[d].org][v] = memberships[call[d].org][v]
      BY <1>2, <2>1, <2>2 DEF Arguments
    <2>4. Verdict(memberships', call[d]) = Verdict(memberships, call[d])
      BY <2>1, <2>3, VerdictIsLocal
    <2> QED
      BY <2>1, <2>4 DEF Verdict
  <1> QED
    BY <1>3, <1>4, <1>5, <1>6, <1>7 DEF IInv

\* ... and what other runs have checked.
LEMMA WriteLeavesGrants ==
    ASSUME ProvisioningInv, GrantsStand, NEW o \in Organizations, NEW t, adminLock[o] = t,
           LeavesLocks(t), t # None, NEW f \in Runs, f # t, runPc'[f] = runPc[f], run'[f] = run[f],
           runPc[f] \in Holding => attempt'[run[f].request] = attempt[run[f].request],
           \A p \in Organizations, v \in Users :
             p # o => memberships'[p][v] = memberships[p][v]
    PROVE  /\ runPc'[f] \in {"linkheld", "linkchecked"} =>
                adminLock'[attempt'[run'[f].request].org] = f
           /\ runPc'[f] = "linkchecked" =>
                MayLink(memberships', attempt'[run'[f].request], run'[f].user)
  <1> SUFFICES ASSUME runPc[f] \in {"linkheld", "linkchecked"}
               PROVE  /\ adminLock'[attempt[run[f].request].org] = f
                      /\ runPc[f] = "linkchecked" =>
                           MayLink(memberships', attempt[run[f].request], run[f].user)
    BY Stations
  <1> DEFINE a == attempt[run[f].request]
  <1>1. runPc[f] \in Holding /\ f # None
    BY Stations, ProvisioningAssumption, TransactionsAssumption
  <1>2. a \in AttemptRows /\ a.org \in Organizations /\ run[f].user \in Users
    BY <1>1, HeldAttempt
  <1>3. adminLock[a.org] = f
    BY DEF GrantsStand
  <1>4. a.org # o
    BY <1>3
  <1>5. adminLock'[a.org] = f
    BY <1>1, <1>2, <1>3 DEF LeavesLocks
  <1>6. ASSUME runPc[f] = "linkchecked"
        PROVE  MayLink(memberships', a, run[f].user)
    <2>1. MayLink(memberships, a, run[f].user)
      BY <1>6 DEF GrantsStand
    <2>2. \A v \in Users : memberships'[a.org][v] = memberships[a.org][v]
      BY <1>2, <1>4
    <2> HIDE DEF a
    <2> QED
      BY <1>2, <2>1, <2>2, MayLinkIsLocal
  <1> QED
    BY <1>5, <1>6

LEMMA LinkCommitBeside ==
    ASSUME BesideInv, NEW e \in Runs, LinkCommit(e), UNCHANGED administrationVars
    PROVE  BesideInv'
  <1> DEFINE r == run[e].request
             a == attempt[r]
             u == run[e].user
  <1>1. /\ ProvisioningInv /\ ProvisioningInv' /\ runPc[e] = "linkchecked" /\ runPc[e] \in Holding
        /\ ReleaseAdminLock(a.org) /\ UNCHANGED run
        /\ Proceed(e, "answered", "SUCCEEDED") \/ Proceed(e, "fail", "NONE")
    BY LinkCommitKeeps, Stations DEF BesideInv, LinkCommit, Respond, Go
  <1>2. /\ runPc \in [Runs -> RunPcs] /\ adminLock \in [Organizations -> Transactions \cup {None}]
        /\ a \in AttemptRows /\ a.org \in Organizations /\ u \in Users /\ r \in Requests
        /\ attempt \in [Requests -> AttemptRows \cup {NoAttempt}]
        /\ a.actor \in Users /\ a.role \in Roles /\ "ACTIVE" \in Statuses /\ memberships \in Tables
    BY <1>1, HeldAttempt
       DEF ProvisioningInv, ProvisioningTypeOK, TypeOK, AttemptRows, Statuses
  <1>3. adminLock[a.org] = e /\ MayLink(memberships, a, u) /\ e \notin Calls /\ e # None
    BY <1>1, ProvisioningAssumption, TransactionsAssumption DEF BesideInv, GrantsStand
  <1>4. LeavesLocks(e)
    BY <1>2, <1>3, <1>1 DEF LeavesLocks, ReleaseAdminLock
  <1>5. /\ runPc'[e] \notin {"linkheld", "linkchecked"}
        /\ \A f \in Runs : f # e => runPc'[f] = runPc[f] /\ run'[f] = run[f]
    BY <1>1, <1>2 DEF Proceed
  <1>6. /\ \A q \in Requests : q # r => attempt'[q] = attempt[q]
        /\ \A f \in Runs : f # e /\ runPc[f] \in Holding => run[f].request # r
    <2>1. \A q \in Requests : q # r => attempt'[q] = attempt[q]
      BY <1>2 DEF LinkCommit
    <2>2. ASSUME NEW f \in Runs, f # e, runPc[f] \in Holding
          PROVE  run[f].request # r
      BY <1>1, <2>2 DEF ProvisioningInv, RunsInv, LinkingHoldsTheAttempt
    <2> QED
      BY <2>1, <2>2
  <1>7. LeavesHeldAttempts(e)
    BY <1>1, <1>6, HeldAttempt DEF LeavesHeldAttempts
  <1>8. CASE UNCHANGED memberships
    BY <1>1, <1>4, <1>5, <1>7, <1>8, RunLeavesTheRest DEF administrationVars
  <1>9. CASE memberships' = Written(memberships, a.org, u, a.role, "ACTIVE", a.actor)
    <2>1. /\ MayWrite(ActiveRole(memberships, a.org, a.actor), memberships[a.org][u], a.role)
          /\ a.actor = u => a.role = memberships[a.org][u].role
                            /\ memberships[a.org][u].status = "ACTIVE"
      BY <1>2, <1>3, GrantHasAuthority
    <2>2. TypeOK' /\ IInv
      BY <1>1 DEF ProvisioningInv, ProvisioningTypeOK, BesideInv
    <2>3. \A p \in Organizations, v \in Users :
            p # a.org => memberships'[p][v] = memberships[p][v]
      BY <1>2, <1>9, WrittenTable DEF Authors
    <2> HIDE DEF r, a, u
    <2>4. IInv'
      BY <1>2, <1>3, <1>4, <1>9, <2>1, <2>2, GrantLeavesCalls
    <2>5. ASSUME NEW f \in Runs
          PROVE  /\ runPc'[f] \in {"linkheld", "linkchecked"} =>
                      adminLock'[attempt'[run'[f].request].org] = f
                 /\ runPc'[f] = "linkchecked" =>
                      MayLink(memberships', attempt'[run'[f].request], run'[f].user)
      <3>1. CASE f = e
        BY <1>5, <3>1
      <3>2. CASE f # e
        BY <1>1, <1>2, <1>3, <1>4, <1>5, <1>7, <2>3, <3>2, WriteLeavesGrants
           DEF BesideInv, LeavesHeldAttempts
      <3> QED
        BY <3>1, <3>2
    <2>6. GrantsStand'
      BY <2>5 DEF GrantsStand
    <2> QED
      BY SMTT(30), <1>1, <2>4, <2>6 DEF BesideInv
  <1> QED
    BY <1>8, <1>9 DEF LinkCommit

\* What the invited person, an OWNER who clears, and the operator do.
Elsewhere ==
    \/ \E r \in Requests : Clear(r)
    \/ \E u \in Users : Accept(u) \/ SetPassword(u) \/ AcknowledgePasswordChange(u)
    \/ \E u \in PurgeTargets : PurgeLock(u)
    \/ PurgeCheck \/ PurgeDelete

LEMMA ElsewhereBeside ==
    ASSUME BesideInv, Elsewhere, UNCHANGED administrationVars
    PROVE  BesideInv'
  <1>1. ProvisioningInv /\ IInv /\ GrantsStand
    BY DEF BesideInv
  <1>2. ProvisioningInv'
    BY <1>1, ClearKeeps, AcceptKeeps, SetPasswordKeeps, AcknowledgeKeeps, PurgeLockKeeps,
       PurgeCheckKeeps, PurgeDeleteKeeps DEF Elsewhere
  <1>3. UNCHANGED <<memberships, adminLock, runPc, run>>
    BY <1>1, PurgeTakesNoRow
       DEF Elsewhere, Clear, Accept, SetPassword, AcknowledgePasswordChange, PurgeLock,
           PurgeCheck, PurgeDelete
  <1>4. ASSUME NEW f \in Runs, runPc[f] \in Holding
        PROVE  attempt'[run[f].request] = attempt[run[f].request]
    <2>1. CASE \E r \in Requests : Clear(r)
      <3>1. PICK r \in Requests : Clear(r)
        BY <2>1
      <3>2. run[f].request \in Requests /\ run[f].request # r
        BY <1>1, <1>4, <3>1, FreeRowsAreNobodys DEF Clear
      <3>3. attempt \in [Requests -> AttemptRows \cup {NoAttempt}]
        BY <1>1 DEF ProvisioningInv, ProvisioningTypeOK
      <3> QED
        BY <3>1, <3>2, <3>3 DEF Clear, Failed
    <2>2. CASE ~\E r \in Requests : Clear(r)
      BY <2>2 DEF Elsewhere, Accept, SetPassword, AcknowledgePasswordChange, PurgeLock,
                  PurgeCheck, PurgeDelete
    <2> QED
      BY <2>1, <2>2
  <1>5. None \notin Calls /\ LeavesLocks(None)
    BY <1>3, TransactionsAssumption DEF LeavesLocks
  <1>6. IInv'
    BY <1>1, <1>2, <1>3, <1>5, CallsAreLeft DEF ProvisioningInv, ProvisioningTypeOK
  <1>7. GrantsStand'
    <2> SUFFICES ASSUME NEW f \in Runs, runPc[f] \in {"linkheld", "linkchecked"}
                 PROVE  /\ adminLock[attempt'[run[f].request].org] = f
                        /\ runPc[f] = "linkchecked" =>
                             MayLink(memberships, attempt'[run[f].request], run[f].user)
      BY <1>3 DEF GrantsStand, MayLink
    <2> QED
      BY SMTT(30), <1>1, <1>4, Stations DEF GrantsStand
  <1> QED
    BY <1>2, <1>6, <1>7 DEF BesideInv

\* A call writes one row that is there, under the lock, and takes no lock that
\* somebody has.
LEMMA CallsWriteRows ==
    ASSUME IInv, NEW c \in Calls, List(c) \/ Step(c)
    PROVE  /\ LeavesLocks(c)
           /\ \/ UNCHANGED memberships
              \/ \E o \in Organizations :
                   /\ adminLock[o] = c
                   /\ \A p \in Organizations, v \in Users :
                        p # o => memberships'[p][v] = memberships[p][v]
                   /\ \A p \in Organizations, v \in Users :
                        IsMember(memberships', p, v) <=> IsMember(memberships, p, v)
  <1>1. /\ adminLock \in [Organizations -> Transactions \cup {None}] /\ memberships \in Tables
        /\ callPc[c] # "unsent" => call[c] \in Arguments /\ call[c].org \in Organizations
    BY DEF IInv, TypeOK, CallsAreFormed, Arguments
  <1>2. CASE List(c) \/ Authorise(c)
    BY <1>2 DEF List, Authorise, LeavesLocks
  <1>3. CASE Lock(c)
    BY <1>1, <1>3 DEF Lock, TakeAdminLock, LockFree, LeavesLocks
  <1>4. CASE Check(c)
    <2>1. adminLock[call[c].org] = c /\ call[c].org \in Organizations
      BY <1>1, <1>4 DEF IInv, CallsAreFormed, Check
    <2>2. UNCHANGED memberships /\ (UNCHANGED adminLock \/ ReleaseAdminLock(call[c].org))
      BY <1>4 DEF Check
    <2> QED
      BY <1>1, <2>1, <2>2 DEF LeavesLocks, ReleaseAdminLock
  <1>5. CASE Update(c)
    <2> DEFINE k == call[c]
               row == memberships[k.org][k.subject]
    <2>1. /\ adminLock[k.org] = c /\ k \in Arguments /\ k.org \in Organizations
          /\ k.subject \in Users /\ k.actor \in Users /\ k.actor \in Authors
          /\ Verdict(memberships, k) = "CHANGED" /\ ReleaseAdminLock(k.org)
      BY <1>1, <1>5 DEF IInv, CallsAreFormed, CheckedStandsUntilWritten, Update, Arguments, Authors
    <2>2. LeavesLocks(c)
      BY <1>1, <2>1 DEF LeavesLocks, ReleaseAdminLock
    <2>3. /\ row \in Rows /\ NewRole(row, k.change) \in Roles /\ NewStatus(row, k.change) \in Statuses
      BY <1>1, <2>1, VerdictGivesAuthority
    <2>4. CASE memberships' = Written(memberships, k.org, k.subject, NewRole(row, k.change),
                                      NewStatus(row, k.change), k.actor)
      <3> DEFINE role == NewRole(row, k.change)
                 status == NewStatus(row, k.change)
      <3>0. /\ role \in Roles /\ status \in Statuses
            /\ memberships' = Written(memberships, k.org, k.subject, role, status, k.actor)
        BY <2>3, <2>4
      <3> HIDE DEF role, status
      <3>1. /\ memberships'[k.org][k.subject] = Stamped(row, role, status, k.actor)
            /\ \A p \in Organizations, v \in Users :
                 p # k.org \/ v # k.subject => memberships'[p][v] = memberships[p][v]
        BY <1>1, <2>1, <3>0, WrittenTable
      <3>2. memberships'[k.org][k.subject] # NoRow /\ row # NoRow
        BY <2>3, <3>0, <3>1 DEF Stamped, NoRow, Roles, Rows
      <3> QED
        BY <2>1, <2>2, <3>1, <3>2 DEF IsMember
    <2>5. CASE UNCHANGED memberships
      BY <2>2, <2>5
    <2> QED
      BY <1>5, <2>4, <2>5 DEF Update
  <1> QED
    BY <1>2, <1>3, <1>4, <1>5 DEF Step

LEMMA CallBeside ==
    ASSUME BesideInv, NEW c \in Calls, List(c) \/ Step(c), UNCHANGED provisioningVars
    PROVE  BesideInv'
  <1>1. ProvisioningInv /\ IInv /\ GrantsStand /\ IInv' /\ TypeOK'
    BY StepPreserves DEF BesideInv, Next, IInv
  <1>2. LeavesLocks(c) /\ c # None /\ \A f \in Runs : f # c
    BY <1>1, CallsWriteRows, ProvisioningAssumption, TransactionsAssumption
  <1>3. UNCHANGED <<attempt, attemptLock, identity, profile, runPc, run, runOutcome, abandoned, purge>>
    BY DEF provisioningVars
  <1>4. \A p \in Organizations, v \in Users :
          IsMember(memberships', p, v) <=> IsMember(memberships, p, v)
    BY <1>1, CallsWriteRows
  <1>5. PeopleInv'
    <2>1. LinkedToLiveAccounts'
      <3> SUFFICES ASSUME NEW q \in Requests, attempt[q].status = "SUCCEEDED"
                   PROVE  /\ attempt[q].subject # None
                          /\ EmailOf[attempt[q].subject] = attempt[q].email
                          /\ IsMember(memberships', attempt[q].org, attempt[q].subject)
        BY <1>1, <1>3, <1>4 DEF ProvisioningInv, PeopleInv, LinkedToLiveAccounts, Exists
      <3>1. /\ attempt[q].subject # None
            /\ EmailOf[attempt[q].subject] = attempt[q].email
            /\ IsMember(memberships, attempt[q].org, attempt[q].subject)
            /\ attempt[q] \in AttemptRows
        BY <1>1, RowsAreAttempts DEF ProvisioningInv, PeopleInv, LinkedToLiveAccounts
      <3> QED
        BY <1>4, <3>1 DEF AttemptRows
    <2>2. OnboardingIsOwed' /\ InvitedAndThere'
      BY <1>1, <1>3 DEF ProvisioningInv, PeopleInv, OnboardingIsOwed, InvitedAndThere, Exists
    <2>3. PurgesOutsiders'
      BY <1>1, <1>3, <1>4 DEF ProvisioningInv, PeopleInv, PurgesOutsiders, NoMembership
    <2> QED
      BY <2>1, <2>2, <2>3 DEF PeopleInv
  <1>6. RunsInv'
    BY <1>1, <1>3, RunsRest DEF ProvisioningInv, AttemptsMoveOn
  <1>7. ProvisioningTypeOK'
    BY <1>1, <1>3 DEF ProvisioningInv, ProvisioningTypeOK
  <1>8. GrantsStand'
    <2>1. CASE UNCHANGED memberships
      <3> SUFFICES ASSUME NEW f \in Runs, runPc[f] \in {"linkheld", "linkchecked"}
                   PROVE  adminLock'[attempt[run[f].request].org] = f
        BY <1>1, <1>3, <2>1 DEF GrantsStand, MayLink
      <3>1. attempt[run[f].request].org \in Organizations /\ f # None
        BY <1>1, HeldAttempt, Stations, ProvisioningAssumption, TransactionsAssumption
      <3> QED
        BY SMTT(30), <1>1, <1>2, <3>1 DEF GrantsStand, LeavesLocks
    <2>2. ASSUME NEW o \in Organizations, adminLock[o] = c,
                 \A p \in Organizations, v \in Users :
                   p # o => memberships'[p][v] = memberships[p][v]
          PROVE  GrantsStand'
      <3>1. \A f \in Runs :
              /\ runPc'[f] \in {"linkheld", "linkchecked"} =>
                   adminLock'[attempt'[run'[f].request].org] = f
              /\ runPc'[f] = "linkchecked" =>
                   MayLink(memberships', attempt'[run'[f].request], run'[f].user)
        BY <1>1, <1>2, <1>3, <2>2, WriteLeavesGrants
      <3> QED
        BY <3>1 DEF GrantsStand
    <2> QED
      BY <1>1, <2>1, <2>2, CallsWriteRows
  <1> QED
    BY <1>1, <1>5, <1>6, <1>7, <1>8 DEF BesideInv, ProvisioningInv

-----------------------------------------------------------------------------
LEMMA ProvisioningBegins == ProvisioningInit => BesideInv
  <1> SUFFICES ASSUME ProvisioningInit
               PROVE  BesideInv
    OBVIOUS
  <1>1. IInv /\ TypeOK
    BY InitEstablishes DEF ProvisioningInit, IInv
  <1>2. identity \in [Users -> Identities]
    <2>1. {NoIdentity, [state |-> "CONFIRMED", invited |-> FALSE, password |-> TRUE]}
            \subseteq Identities
      BY DEF NoIdentity, Identities
    <2>2. identity \in [Users -> {NoIdentity,
                                  [state |-> "CONFIRMED", invited |-> FALSE,
                                   password |-> TRUE]}]
      BY DEF ProvisioningInit
    <2> QED
      BY <2>1, <2>2, Zenon
  <1>3. ProvisioningTypeOK
    BY <1>1, <1>2 DEF ProvisioningInit, ProvisioningTypeOK, RunPcs, RunOutcomes
  <1>4. RunsInv
    BY Stations
       DEF ProvisioningInit, RunsInv, RunsHaveArguments, ClaimsStand, RunsLinkTheirAddress,
           LinkingHoldsTheAttempt, AnswersStand
  <1>5. LinkedToLiveAccounts
    BY DEF ProvisioningInit, LinkedToLiveAccounts, NoAttempt
  <1>6. OnboardingIsOwed
    <2>1. \A u \in Users : ~identity[u].invited
      BY DEF ProvisioningInit, NoIdentity
    <2> QED
      BY <2>1 DEF OnboardingIsOwed
  <1>7. InvitedAndThere /\ PurgesOutsiders
    <2>1. \A u \in Users : identity[u].state # "UNCONFIRMED"
      BY DEF ProvisioningInit, NoIdentity
    <2>2. ASSUME NEW u \in Users, profile[u] # "ABSENT"
          PROVE  Exists(u)
      BY <2>2 DEF ProvisioningInit
    <2>3. purge.pc = "none"
      BY DEF ProvisioningInit
    <2> QED
      BY <2>1, <2>2, <2>3 DEF InvitedAndThere, PurgesOutsiders
  <1>8. GrantsStand
    BY DEF ProvisioningInit, GrantsStand
  <1> QED
    BY <1>1, <1>3, <1>4, <1>5, <1>6, <1>7, <1>8 DEF BesideInv, ProvisioningInv, PeopleInv

\* Every step is one of the lemmas above.
LEMMA StepsOfProvisioning ==
    ASSUME ProvisioningStep
    PROVE  \/ \E e \in Runs : \/ OutsideTheLock(e) \/ LinkAdmin(e) \/ LinkCheck(e) \/ LinkCommit(e)
           \/ Elsewhere
  BY DEF ProvisioningStep, RunStep, OutsideTheLock, Elsewhere

LEMMA ProvisioningKeeps ==
    BesideInv /\ [ProvisioningNext]_allVars => BesideInv'
  <1> SUFFICES ASSUME BesideInv, [ProvisioningNext]_allVars
               PROVE  BesideInv'
    OBVIOUS
  <1>1. CASE Next /\ UNCHANGED provisioningVars
    BY <1>1, CallBeside DEF Next
  <1>2. CASE ProvisioningStep /\ UNCHANGED administrationVars
    <2>1. ASSUME NEW e \in Runs, OutsideTheLock(e)
          PROVE  BesideInv'
      BY <1>2, <2>1, OutsideBeside
    <2>2. ASSUME NEW e \in Runs, LinkAdmin(e) \/ LinkCheck(e) \/ LinkCommit(e)
          PROVE  BesideInv'
      BY <1>2, <2>2, LinkAdminBeside, LinkCheckBeside, LinkCommitBeside
    <2>3. CASE Elsewhere
      BY <1>2, <2>3, ElsewhereBeside
    <2> QED
      BY <1>2, <2>1, <2>2, <2>3, StepsOfProvisioning
  <1>3. CASE UNCHANGED allVars
    <2>1. UNCHANGED <<memberships, adminLock, administrationVars, attempt, attemptLock, identity,
                      profile, runPc, run, runOutcome, abandoned, purge>>
      BY <1>3 DEF allVars, vars, provisioningVars
    <2>2. IInv'
      BY <1>3, StepPreserves DEF allVars, BesideInv
    <2>3. PeopleInv'
      BY <2>1, PeopleStay DEF BesideInv, ProvisioningInv
    <2>4. RunsInv'
      BY <2>1, RunsRest DEF BesideInv, ProvisioningInv, AttemptsMoveOn
    <2>5. ProvisioningTypeOK'
      BY SMTT(30), <2>1, <2>2 DEF BesideInv, ProvisioningInv, ProvisioningTypeOK, IInv
    <2>6. GrantsStand'
      BY <2>1 DEF BesideInv, GrantsStand, MayLink
    <2> QED
      BY <2>2, <2>3, <2>4, <2>5, <2>6 DEF BesideInv, ProvisioningInv
  <1> QED
    BY <1>1, <1>2, <1>3 DEF ProvisioningNext

\* The invariant of the runs beside the calls.
THEOREM ProvisioningIsSound == ProvisioningSpec => []BesideInv
  <1> QED
    BY ProvisioningBegins, ProvisioningKeeps, PTL DEF ProvisioningSpec

\* Every variable of the workflow keeps its type.
THEOREM ProvisioningIsTyped == ProvisioningSpec => []ProvisioningTypeOK
  <1>1. BesideInv => ProvisioningTypeOK
    BY DEF BesideInv, ProvisioningInv
  <1> QED
    BY <1>1, ProvisioningIsSound, PTL

\* Whatever is invited, killed, cleared, retried or purged, a membership and an
\* attempt that SUCCEEDED belong to a live account.
THEOREM MembersHaveAccounts == ProvisioningSpec => []LinkedToLiveAccounts
  <1>1. BesideInv => LinkedToLiveAccounts
    BY DEF BesideInv, ProvisioningInv, PeopleInv
  <1> QED
    BY <1>1, ProvisioningIsSound, PTL

\* A password that was never chosen is never forgotten about.
THEOREM OnboardingStaysOwed == ProvisioningSpec => []OnboardingIsOwed
  <1>1. BesideInv => OnboardingIsOwed
    BY DEF BesideInv, ProvisioningInv, PeopleInv
  <1> QED
    BY <1>1, ProvisioningIsSound, PTL

\* Whichever run did the work, an answer of success is true of its invitation.
THEOREM SuccessIsTrue == ProvisioningSpec => []SuccessIsOfThisInvitation
  <1>1. BesideInv => SuccessIsOfThisInvitation
    <2> SUFFICES ASSUME BesideInv, NEW e \in Runs,
                        runOutcome[e] \in {"SUCCEEDED", "ALREADY_SUCCEEDED"}
                 PROVE  \E u \in Users : /\ EmailOf[u] = run[e].draft.email
                                         /\ IsMember(memberships, run[e].draft.org, u)
      BY DEF SuccessIsOfThisInvitation
    <2> DEFINE a == attempt[run[e].request]
    <2>1. a.status = "SUCCEEDED" /\ SameInvitation(a, run[e].draft)
      BY DEF BesideInv, ProvisioningInv, RunsInv, AnswersStand, Succeeds
    <2>2. run[e].request \in Requests
      BY Stations DEF BesideInv, ProvisioningInv, RunsInv, RunsHaveArguments, RunArguments
    <2>3. a \in AttemptRows
      BY <2>1, <2>2, RowsAreAttempts DEF BesideInv, ProvisioningInv
    <2>4. /\ a.subject # None /\ EmailOf[a.subject] = a.email
          /\ IsMember(memberships, a.org, a.subject)
      BY <2>1, <2>2 DEF BesideInv, ProvisioningInv, PeopleInv, LinkedToLiveAccounts
    <2>5. a.subject \in Users
      BY <2>3, <2>4 DEF AttemptRows
    <2> QED
      BY <2>1, <2>4, <2>5 DEF SameInvitation
  <1> QED
    BY <1>1, ProvisioningIsSound, PTL

\* Runs and calls together leave each organisation an ACTIVE OWNER.
THEOREM OwnerRemainsBesideRuns == ProvisioningSpec => []KeepsAnActiveOwner
  <1>1. BesideInv => KeepsAnActiveOwner
    BY DEF BesideInv, IInv
  <1> QED
    BY <1>1, ProvisioningIsSound, PTL

-----------------------------------------------------------------------------
\* Who writes memberships, and what becomes of attempts, in one step.
LEMMA OnlyCommitsGrant ==
    ASSUME BesideInv, ProvisioningStep
    PROVE  UNCHANGED memberships \/ \E e \in Runs : LinkCommit(e)
  <1>1. ASSUME NEW e \in Runs, OutsideTheLock(e)
        PROVE  UNCHANGED memberships
    BY <1>1, OutsideMoves DEF BesideInv
  <1>2. ASSUME NEW e \in Runs, LinkAdmin(e) \/ LinkCheck(e)
        PROVE  UNCHANGED memberships
    BY <1>2 DEF LinkAdmin, LinkCheck
  <1>3. CASE Elsewhere
    BY <1>3, PurgeTakesNoRow
       DEF BesideInv, Elsewhere, Clear, Accept, SetPassword, AcknowledgePasswordChange, PurgeLock,
           PurgeCheck
  <1> QED
    BY <1>1, <1>2, <1>3, StepsOfProvisioning

LEMMA SucceededStays ==
    ASSUME BesideInv, ProvisioningStep, NEW r \in Requests, attempt[r].status = "SUCCEEDED"
    PROVE  attempt'[r] = attempt[r]
  <1>1. /\ attempt \in [Requests -> AttemptRows \cup {NoAttempt}] /\ attempt[r] \in AttemptRows
        /\ ProvisioningInv
    BY RowsAreAttempts DEF BesideInv, ProvisioningInv, ProvisioningTypeOK
  <1>2. ASSUME NEW e \in Runs, Claim(e)
        PROVE  attempt'[r] = attempt[r]
    <2>1. CASE r # run[e].request
      BY <1>1, <1>2, <2>1 DEF Claim
    <2>2. CASE r = run[e].request
      BY <1>1, <1>2, <2>2 DEF Claim, ClaimVerdict, NoAttempt
    <2> QED
      BY <2>1, <2>2
  <1>3. ASSUME NEW q, Failed(q)
        PROVE  attempt'[r] = attempt[r]
    <2>1. CASE r # q
      BY <1>1, <1>3, <2>1 DEF Failed
    <2>2. CASE r = q
      <3>1. attempt'[r] = [attempt[r] EXCEPT !.status = attempt[r].status]
        BY <1>1, <1>3, <2>2 DEF Failed
      <3>2. [attempt[r] EXCEPT !.status = attempt[r].status] = attempt[r]
        BY <1>1 DEF AttemptRows
      <3> QED
        BY <3>1, <3>2
    <2> QED
      BY <2>1, <2>2
  <1>4. ASSUME NEW e \in Runs, LinkCommit(e)
        PROVE  attempt'[r] = attempt[r]
    <2>1. attempt[run[e].request].status = "IN_FLIGHT"
      BY <1>1, <1>4, HeldAttempt, Stations DEF LinkCommit
    <2>2. r # run[e].request
      BY <2>1
    <2> QED
      BY <1>1, <1>4, <2>2 DEF LinkCommit
  <1>5. ASSUME NEW e \in Runs, OutsideTheLock(e)
        PROVE  attempt'[r] = attempt[r]
    BY <1>2, <1>3, <1>5
       DEF OutsideTheLock, Press, AuthoriseRun, Find, Invite, Refind, LinkLock, Kill, Fail
  <1>6. ASSUME NEW e \in Runs, LinkAdmin(e) \/ LinkCheck(e)
        PROVE  attempt'[r] = attempt[r]
    BY <1>6 DEF LinkAdmin, LinkCheck
  <1>7. CASE Elsewhere
    BY <1>3, <1>7
       DEF Elsewhere, Clear, Accept, SetPassword, AcknowledgePasswordChange, PurgeLock,
           PurgeCheck, PurgeDelete
  <1> QED
    BY <1>4, <1>5, <1>6, <1>7, StepsOfProvisioning

\* What a commit grants, and to whom.
LEMMA CommitGrants ==
    ASSUME BesideInv, NEW e \in Runs, LinkCommit(e), memberships' # memberships
    PROVE  LET r == run[e].request
               a == attempt[r]
               u == run[e].user
           IN  /\ r \in Requests /\ a \in AttemptRows /\ u \in Users /\ memberships \in Tables
               /\ a.status = "IN_FLIGHT" /\ attempt'[r].status = "SUCCEEDED"
               /\ attempt'[r].subject = u /\ MayLink(memberships, a, u)
               /\ memberships' = Written(memberships, a.org, u, a.role, "ACTIVE", a.actor)
  <1> DEFINE r == run[e].request
             a == attempt[r]
             u == run[e].user
  <1>1. runPc[e] = "linkchecked" /\ runPc[e] \in Holding
    BY Stations DEF LinkCommit
  <1>2. /\ r \in Requests /\ a \in AttemptRows /\ u \in Users /\ a.status = "IN_FLIGHT"
        /\ attempt \in [Requests -> AttemptRows \cup {NoAttempt}] /\ memberships \in Tables
        /\ MayLink(memberships, a, u)
    BY <1>1, HeldAttempt
       DEF BesideInv, ProvisioningInv, ProvisioningTypeOK, TypeOK, GrantsStand
  <1>3. /\ memberships' = Written(memberships, a.org, u, a.role, "ACTIVE", a.actor)
        /\ attempt' = Done(attempt, r, u)
    BY DEF LinkCommit, Done
  <1> HIDE DEF r, u
  <1>4. attempt'[r].status = "SUCCEEDED" /\ attempt'[r].subject = u
    BY <1>2, <1>3, DoneAttempt
  <1> QED
    BY <1>2, <1>3, <1>4 DEF r, u

\* One request grants once, and nothing else grants.
THEOREM GrantedOnce == ProvisioningSpec => GrantsOncePerRequest
  <1> DEFINE Act ==
        /\ \A r \in Requests : attempt[r].status = "SUCCEEDED" => attempt'[r] = attempt[r]
        /\ UNCHANGED administrationVars /\ memberships' # memberships =>
             \E r \in Requests :
               /\ attempt[r].status = "IN_FLIGHT" /\ attempt'[r].status = "SUCCEEDED"
               /\ memberships' = Written(memberships, attempt[r].org, attempt'[r].subject,
                                         attempt[r].role, "ACTIVE", attempt[r].actor)
  <1>1. BesideInv /\ [ProvisioningNext]_allVars => [Act]_allVars
    <2> SUFFICES ASSUME BesideInv, ProvisioningNext
                 PROVE  Act
      OBVIOUS
    <2>1. CASE Next /\ UNCHANGED provisioningVars
      <3>1. UNCHANGED attempt
        BY <2>1 DEF provisioningVars
      <3>2. ASSUME UNCHANGED administrationVars
            PROVE  UNCHANGED memberships
        <4>1. ASSUME NEW c \in Calls, Update(c)
              PROVE  FALSE
          BY <3>2, <4>1 DEF administrationVars, Update, Answer, BesideInv, IInv, TypeOK
        <4>2. ASSUME NEW c \in Calls, List(c) \/ Authorise(c) \/ Lock(c) \/ Check(c)
              PROVE  UNCHANGED memberships
          BY <4>2 DEF List, Authorise, Lock, Check
        <4> QED
          BY <2>1, <4>1, <4>2 DEF Next, Step
      <3> QED
        BY <3>1, <3>2
    <2>2. CASE ProvisioningStep /\ UNCHANGED administrationVars
      <3>1. \A r \in Requests : attempt[r].status = "SUCCEEDED" => attempt'[r] = attempt[r]
        BY <2>2, SucceededStays
      <3>2. ASSUME memberships' # memberships
            PROVE  \E r \in Requests :
                     /\ attempt[r].status = "IN_FLIGHT" /\ attempt'[r].status = "SUCCEEDED"
                     /\ memberships' = Written(memberships, attempt[r].org, attempt'[r].subject,
                                               attempt[r].role, "ACTIVE", attempt[r].actor)
        <4>1. PICK e \in Runs : LinkCommit(e)
          BY <2>2, <3>2, OnlyCommitsGrant
        <4> QED
          BY <3>2, <4>1, CommitGrants
      <3> QED
        BY <3>1, <3>2
    <2> QED
      BY <2>1, <2>2 DEF ProvisioningNext
  <1> QED
    BY <1>1, ProvisioningIsSound, PTL DEF ProvisioningSpec, GrantsOncePerRequest

\* The runs too implement OrganizationAuthority: a commit is a write by the
\* caller on record, whose authority was asked about under the lock.
LEMMA CommitIsAWrite ==
    ASSUME BesideInv, NEW e \in Runs, LinkCommit(e)
    PROVE  [Authority!Next]_memberships
  <1> SUFFICES ASSUME memberships' # memberships
               PROVE  Authority!Next
    OBVIOUS
  <1> DEFINE a == attempt[run[e].request]
             u == run[e].user
  <1>1. /\ a \in AttemptRows /\ u \in Users /\ memberships \in Tables
        /\ MayLink(memberships, a, u)
        /\ memberships' = Written(memberships, a.org, u, a.role, "ACTIVE", a.actor)
    BY CommitGrants
  <1> HIDE DEF a, u
  <1>2. /\ IsAdministrator(memberships, a.org, a.actor)
        /\ MayWrite(ActiveRole(memberships, a.org, a.actor), memberships[a.org][u], a.role)
        /\ a.actor = u => a.role = memberships[a.org][u].role
                          /\ memberships[a.org][u].status = "ACTIVE"
    BY <1>1, GrantHasAuthority
  <1>3. Authority!Write(a.org, a.actor, u, a.role, "ACTIVE")
    BY <1>1, <1>2 DEF Authority!Write, Authority!IsAdministrator, IsAdministrator,
       Authority!ActiveRole, ActiveRole, Authority!MayWrite, MayWrite, Authority!NoRow, NoRow,
       Authority!Written, Written, Authority!Stamped, Stamped,
       Authority!AdministratorRoles, AdministratorRoles
  <1>4. a.org \in Organizations /\ a.actor \in Users /\ a.role \in Roles /\ "ACTIVE" \in Statuses
    BY <1>1 DEF AttemptRows, Statuses
  <1> QED
    BY <1>1, <1>3, <1>4 DEF Authority!Next, Authority!Roles, Roles, Authority!Statuses, Statuses

\* Calls, runs and purges together write memberships only under authority.
THEOREM EveryWriterHasAuthority == ProvisioningSpec => WritesUnderAuthority
  <1>1. ProvisioningInit => Authority!Init
    BY DEF ProvisioningInit, Init, Authority!Init, InitialTables, Authority!InitialTables, Roles,
       Authority!Roles, Statuses, Authority!Statuses, NoRow, Authority!NoRow, IsActiveOwner,
       Authority!IsActiveOwner, ActiveRole, Authority!ActiveRole
  <1>2. BesideInv /\ [ProvisioningNext]_allVars => [Authority!Next]_memberships
    <2> SUFFICES ASSUME BesideInv, [ProvisioningNext]_allVars
                 PROVE  [Authority!Next]_memberships
      OBVIOUS
    <2>1. CASE Next
      <3>1. ASSUME NEW c \in Calls, Update(c)
            PROVE  [Authority!Next]_memberships
        BY <3>1, UpdateIsAWrite DEF BesideInv
      <3>2. ASSUME NEW c \in Calls, List(c) \/ Authorise(c) \/ Lock(c) \/ Check(c)
            PROVE  UNCHANGED memberships
        BY <3>2 DEF List, Authorise, Lock, Check
      <3> QED
        BY <2>1, <3>1, <3>2 DEF Next, Step
    <2>2. CASE ProvisioningStep
      BY <2>2, OnlyCommitsGrant, CommitIsAWrite
    <2>3. CASE UNCHANGED allVars
      BY <2>3 DEF allVars, vars
    <2> QED
      BY <2>1, <2>2, <2>3 DEF ProvisioningNext
  <1> QED
    BY <1>1, <1>2, ProvisioningIsSound, PTL
       DEF ProvisioningSpec, WritesUnderAuthority, Authority!Spec
=============================================================================
