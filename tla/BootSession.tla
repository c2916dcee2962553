----------------------------- MODULE BootSession -----------------------------
(***************************************************************************)
(* useApplicationBoot and bootstrapCloudSession: how the tabs of one       *)
(* browser decide whose session and which company they show.               *)
(*                                                                         *)
(* The session and the remembered company live in localStorage, which all  *)
(* tabs read and write at once; a tab hears of the others only by events   *)
(* (auth changes, storage events), each in a queue of its own.  A boot     *)
(* runs over several awaits; invalidate drops the screen at once and asks  *)
(* React for a new boot, but the old boot is cancelled only when React     *)
(* re-renders (rerender), and goes on until then.                          *)
(***************************************************************************)
EXTENDS Naturals, Sequences, FiniteSets

CONSTANTS
    Tabs, People, Organizations,
    Nobody,                     \* null: nobody is signed in, or no such value
    Undecided,                  \* undefined: who the tab is built for is not decided yet
    Companies,                  \* the organisations a person may be a member of
    Links,                      \* the account a tab's invitation link belongs to, or Nobody
    BootIdentityAttempts,       \* BOOT_IDENTITY_ATTEMPTS
    RequestsFail,               \* whether requests may fail
    MaxActs,                    \* bound: what people do at these tabs
    MaxChanges,                 \* bound: what the server changes of its own
    MaxTurns                    \* bound: the two together, a change counted twice

ASSUME CompaniesAssumption == Companies \in [People -> SUBSET Organizations]
ASSUME LinksAssumption == Links \in [Tabs -> People \cup {Nobody}]
ASSUME NobodyAssumption == Nobody \notin People /\ Undecided \notin People \cup {Nobody}
ASSUME BoundsAssumption == BootIdentityAttempts \in Nat \ {0} /\ MaxActs \in Nat /\ MaxChanges \in Nat /\ MaxTurns \in Nat
                           /\ RequestsFail \in BOOLEAN

VARIABLES
    session,        \* who the stored session belongs to
    preference,     \* landedcompare.selectedOrganization
    active,         \* the server's ACTIVE memberships
    authEvents, storageEvents,  \* what a tab has been sent and not yet heard
    screen,         \* BootState
    booted,         \* bootedIdentity
    force,          \* forceSelection
    rerender,       \* attempt has been counted up and the effect has not run yet
    boot,           \* the boot that runs, or has run, in the tab
    link,           \* pendingInvitation
    underway,       \* the request to Auth the tab is waiting for
    acts,           \* how much people have done
    changes         \* and the server

counts == <<acts, changes>>
shared == <<session, preference, active>>
events == <<authEvents, storageEvents>>
tabVars == <<screen, booted, force, rerender, boot, link, underway>>
vars == <<shared, events, tabVars, counts>>

-----------------------------------------------------------------------------
Phases == {"INITIALIZING", "SIGNED_OUT", "UNAVAILABLE", "NO_MEMBERSHIP", "READY",
           "ORGANIZATION_SELECTION", "INVITATION_CONFIRMATION", "INVITATION_CHECK_FAILED"}
BootSteps == {"link", "whose", "session", "profile", "memberships", "organizations",
              "recheck", "inspect", "done"}
\* "adopt": nobody was signed in; "replace": the person confirmed.
Requests == {"none", "signIn", "signOut", "adopt", "replace"}

\* user is whom the screen is for; of the sign-in form, whose session was refused.
Screen(phase, user) ==
    [phase |-> phase, user |-> user, org |-> Nobody, choices |-> {}, profile |-> Nobody]
Blank == Screen("INITIALIZING", Nobody)

Idle == [what |-> "none", of |-> Nobody]
Preference(u, o) == [user |-> u, org |-> o]
NoPreference == Preference(Nobody, Nobody)

\* crossed counts, up to two, the changes of person since the boot's user was read.
Booted ==
    [pc |-> "done", try |-> 1, user |-> Nobody, crossed |-> 0, forced |-> FALSE,
     profile |-> Nobody, choices |-> {}, outcome |-> "INITIALIZING", org |-> Nobody]

\* A boot at its first step: an invitation link is looked at first.
NewBoot(t) == [Booted EXCEPT !.pc = IF link[t] # Nobody THEN "link" ELSE "session"]

Init ==
    /\ session \in People \cup {Nobody}
    /\ preference \in {NoPreference} \cup
         UNION {{Preference(u, o) : o \in Companies[u]} : u \in People}
    /\ active = Companies
    /\ authEvents = [t \in Tabs |-> <<>>]
    /\ storageEvents = [t \in Tabs |-> <<>>]
    /\ screen = [t \in Tabs |-> Blank]
    /\ booted = [t \in Tabs |-> Undecided]
    /\ force = [t \in Tabs |-> FALSE]
    /\ rerender = [t \in Tabs |-> FALSE]
    /\ link = Links
    /\ boot = [t \in Tabs |-> NewBoot(t)]
    /\ underway = [t \in Tabs |-> Idle]
    /\ acts = 0 /\ changes = 0

-----------------------------------------------------------------------------
\* What the tab shows, and for whom.
Show(t, s, who) ==
    /\ screen' = [screen EXCEPT ![t] = s]
    /\ booted' = [booted EXCEPT ![t] = who]

Retries(t) == rerender' = [rerender EXCEPT ![t] = TRUE]
Invalidate(t) == Show(t, Blank, Undecided) /\ Retries(t)

\* The auth listener.
DeafWhileBooting(t, change) ==                      \* fault: a boot is never restarted
    booted[t] # Undecided /\ change.user # booted[t]
Notices(t, change) ==
    IF change.event = "SIGNED_OUT" THEN booted[t] # Nobody
    ELSE booted[t] = Undecided \/ change.user # booted[t]

Hear(t, change) ==
    IF Notices(t, change) THEN Invalidate(t) ELSE UNCHANGED <<screen, booted, rerender>>

\* A session is stored or removed by a request of tab t: its own listener hears
\* of it before the request ends, the other tabs when the event reaches them.
Change(who) == [event |-> IF who = Nobody THEN "SIGNED_OUT" ELSE "SIGNED_IN", user |-> who]

Cross(who) ==
    boot' = [t \in Tabs |->
      IF who # session /\ boot[t].crossed < 2
         /\ boot[t].pc \in {"profile", "memberships", "organizations", "recheck"}
      THEN [boot[t] EXCEPT !.crossed = @ + 1] ELSE boot[t]]

Store(t, who) ==
    /\ session' = who
    /\ authEvents' = [s \in Tabs |-> IF s = t THEN authEvents[s]
                                     ELSE Append(authEvents[s], Change(who))]
    /\ Cross(who)

\* writeOrganizationPreference: the storage event fires in the other tabs only,
\* and only when the value changes.
Remember(t, p) ==
    /\ preference' = p
    /\ storageEvents' = [s \in Tabs |-> IF s = t \/ preference = p THEN storageEvents[s]
                                        ELSE Append(storageEvents[s], p)]

Remembered(u) == IF preference.user = u THEN {preference.org} ELSE {}

-----------------------------------------------------------------------------
(* The boot.                                                               *)

\* React re-renders: the old boot is cancelled and a new one starts.
Rerender(t) ==
    /\ rerender[t]
    /\ rerender' = [rerender EXCEPT ![t] = FALSE]
    /\ Show(t, Blank, Undecided)
    /\ boot' = [boot EXCEPT ![t] = NewBoot(t)]
    /\ UNCHANGED <<shared, events, force, link, underway, counts>>

At(t, pc) == boot[t].pc = pc
Advance(t, pc) == boot' = [boot EXCEPT ![t].pc = pc]
Finish(t) == boot' = [boot EXCEPT ![t] = Booted]

\* An invitation link: adopted when nobody is signed in, otherwise the person
\* is asked, and held when Auth cannot be asked.
CheckLink(t) ==
    /\ At(t, "link")
    /\ \/ /\ RequestsFail
          /\ Show(t, Screen("INVITATION_CHECK_FAILED", Nobody), booted[t])
          /\ Finish(t)
          /\ UNCHANGED <<link, underway>>
       \/ /\ session # Nobody
          /\ Advance(t, "whose")
          /\ UNCHANGED <<screen, booted, link, underway>>
       \/ /\ session = Nobody
          /\ link' = [link EXCEPT ![t] = Nobody]
          /\ underway' = [underway EXCEPT ![t] = [what |-> "adopt", of |-> link[t]]]
          /\ Advance(t, "session")
          /\ UNCHANGED <<screen, booted>>
    /\ UNCHANGED <<shared, events, force, rerender, counts>>

AskAboutLink(t) ==
    /\ At(t, "whose")
    /\ Show(t, Screen("INVITATION_CONFIRMATION", session), booted[t])
    /\ Finish(t)
    /\ UNCHANGED <<shared, events, force, rerender, link, underway, counts>>

\* stopped(): a question to Auth is refused as of an expired session, or fails;
\* a read of the server may be forbidden besides.
SessionFailures == {"SIGNED_OUT", "UNAVAILABLE"}
ReadFailures == SessionFailures \cup {"NO_MEMBERSHIP"}

\* A boot that stops short of a company; bootedIdentity is who it got to know,
\* and null with the sign-in form, whoever's session was refused.
Stop(t, phase, who) ==
    /\ Show(t, Screen(phase, who), IF phase = "SIGNED_OUT" THEN Nobody ELSE who)
    /\ Finish(t)
    /\ force' = [force EXCEPT ![t] = FALSE]

ReadSession(t) ==
    /\ At(t, "session")
    /\ underway[t].what \notin {"adopt", "replace"}
    /\ \/ RequestsFail /\ Stop(t, "UNAVAILABLE", Nobody)
       \/ RequestsFail /\ Stop(t, "SIGNED_OUT", session)        \* refused
       \/ session = Nobody /\ Stop(t, "SIGNED_OUT", Nobody)
       \/ /\ session # Nobody
          /\ boot' = [boot EXCEPT ![t] =
               [@ EXCEPT !.pc = "profile", !.user = session, !.crossed = 0,
                         !.forced = IF boot[t].try = 1 THEN force[t] ELSE boot[t].forced]]
          /\ UNCHANGED <<screen, booted, force>>
    /\ UNCHANGED <<shared, events, rerender, link, underway, counts>>

\* Each read of bootFor is answered for whoever the session belongs to when it
\* is sent, or fails.
StopsWith(t, outcome) ==
    boot' = [boot EXCEPT ![t] = [@ EXCEPT !.pc = "recheck", !.outcome = outcome,
                                          !.profile = Nobody, !.choices = {}]]
Fails(t) == \E outcome \in ReadFailures : StopsWith(t, outcome)
\* A request without a session is the anonymous role's, which may read nothing:
\* FORBIDDEN, the same phase as belonging nowhere.
Forbidden(t) == StopsWith(t, "NO_MEMBERSHIP")

ReadProfile(t) ==
    /\ At(t, "profile")
    /\ \/ RequestsFail /\ Fails(t)
       \/ session = Nobody /\ Forbidden(t)
       \/ /\ session # Nobody
          /\ boot' = [boot EXCEPT ![t] = [@ EXCEPT !.pc = "memberships", !.profile = session]]
    /\ UNCHANGED <<shared, events, screen, booted, force, rerender, link, underway, counts>>

\* The caller's own ACTIVE memberships; the boot keeps those of its user.
OwnMemberships(user, reader) == IF reader = user THEN active[reader] ELSE {}

ReadMemberships(t) ==
    /\ At(t, "memberships")
    /\ \/ RequestsFail /\ Fails(t)
       \/ session = Nobody /\ Forbidden(t)
       \/ /\ session # Nobody
          /\ boot' = [boot EXCEPT ![t] =
               [@ EXCEPT !.pc = "organizations", !.choices = OwnMemberships(boot[t].user, session)]]
    /\ UNCHANGED <<shared, events, screen, booted, force, rerender, link, underway, counts>>

\* The selection: the only company, or the remembered one unless the person
\* asked to switch, or a question.
Decide(choices, remembered, forced) ==
    IF choices = {} THEN [outcome |-> "NO_MEMBERSHIP", org |-> Nobody]
    ELSE IF Cardinality(choices) = 1
    THEN [outcome |-> "READY", org |-> CHOOSE o \in choices : TRUE]
    ELSE IF ~forced /\ remembered \cap choices # {}
    THEN [outcome |-> "READY", org |-> CHOOSE o \in remembered : TRUE]
    ELSE [outcome |-> "ORGANIZATION_SELECTION", org |-> Nobody]

\* The organisations the server lets the session's user see must hold every
\* choice; memberships may have ended since they were read.
ReadOrganizations(t) ==
    LET d == Decide(boot[t].choices, Remembered(boot[t].user), boot[t].forced) IN
    /\ At(t, "organizations")
    /\ \/ RequestsFail /\ Fails(t)
       \/ session = Nobody /\ Forbidden(t)
       \/ /\ session # Nobody
          /\ ~(boot[t].choices \subseteq active[session])
          /\ StopsWith(t, "UNAVAILABLE")
       \/ /\ session # Nobody
          /\ boot[t].choices \subseteq active[session]
          /\ boot' = [boot EXCEPT ![t] =
               [@ EXCEPT !.pc = "recheck", !.outcome = d.outcome, !.org = d.org]]
    /\ UNCHANGED <<shared, events, screen, booted, force, rerender, link, underway, counts>>

\* The result is published only if the session still belongs to its user.
NotRechecked(user, now) == TRUE                     \* fault: published whatever happened since
StillTheSession(user, now) == user = now

Publish(t) ==
    LET b == boot[t] IN
    CASE b.outcome = "ORGANIZATION_SELECTION" ->
           /\ Show(t, [Screen(b.outcome, b.user) EXCEPT !.choices = b.choices], b.user)
           /\ Finish(t)
           /\ UNCHANGED <<force, preference, storageEvents>>
      [] b.outcome = "READY" ->
           /\ Show(t, screen[t], b.user)
           /\ Remember(t, Preference(b.user, b.org))
           /\ Advance(t, "inspect")
           /\ force' = [force EXCEPT ![t] = FALSE]
      [] OTHER ->
           Stop(t, b.outcome, b.user) /\ UNCHANGED <<preference, storageEvents>>

MayTryAgain(t) == boot[t].try < BootIdentityAttempts

Recheck(t) ==
    /\ At(t, "recheck")
    /\ \/ \* Auth cannot be asked, or refuses the session
          /\ RequestsFail
          /\ Stop(t, "UNAVAILABLE", boot[t].user) \/ Stop(t, "SIGNED_OUT", session)
          /\ UNCHANGED <<preference, storageEvents>>
       \/ StillTheSession(boot[t].user, session) /\ Publish(t)
       \/ /\ ~StillTheSession(boot[t].user, session)
          /\ MayTryAgain(t)
          /\ boot' = [boot EXCEPT ![t] = [@ EXCEPT !.pc = "session", !.try = boot[t].try + 1]]
          /\ UNCHANGED <<screen, booted, force, preference, storageEvents>>
       \/ /\ ~StillTheSession(boot[t].user, session)
          /\ ~MayTryAgain(t)
          /\ Stop(t, "UNAVAILABLE", Nobody)
          /\ UNCHANGED <<preference, storageEvents>>
    /\ UNCHANGED <<session, active, authEvents, rerender, link, underway, counts>>

\* The legacy database was inspected and has nothing to move.
Inspect(t) ==
    /\ At(t, "inspect")
    /\ Show(t, [phase |-> "READY", user |-> boot[t].user, org |-> boot[t].org,
                choices |-> boot[t].choices, profile |-> boot[t].profile], booted[t])
    /\ Finish(t)
    /\ UNCHANGED <<shared, events, force, rerender, link, underway, counts>>

BootStep(t) ==
    \/ Rerender(t) \/ CheckLink(t) \/ AskAboutLink(t) \/ ReadSession(t) \/ ReadProfile(t)
    \/ ReadMemberships(t) \/ ReadOrganizations(t) \/ Recheck(t) \/ Inspect(t)

-----------------------------------------------------------------------------
(* What a tab hears of the others.                                         *)

HearAuth(t) ==
    /\ authEvents[t] # <<>>
    /\ authEvents' = [authEvents EXCEPT ![t] = Tail(@)]
    /\ Hear(t, Head(authEvents[t]))
    /\ UNCHANGED <<shared, storageEvents, force, boot, link, underway, counts>>

\* onStorage: a READY tab in another company of the same person reboots, and
\* so does a tab that waits on the selector; any other tab lets it pass.
HearStorage(t) ==
    LET p == Head(storageEvents[t])
        here == screen[t]
    IN  /\ storageEvents[t] # <<>>
        /\ storageEvents' = [storageEvents EXCEPT ![t] = Tail(@)]
        /\ IF here.user = p.user /\ here.phase = "READY" /\ here.org # p.org
           THEN Invalidate(t) /\ UNCHANGED force
           ELSE IF here.user = p.user /\ here.phase = "ORGANIZATION_SELECTION"
           THEN Invalidate(t) /\ force' = [force EXCEPT ![t] = FALSE]
           ELSE UNCHANGED <<screen, booted, rerender, force>>
        /\ UNCHANGED <<shared, authEvents, boot, link, underway, counts>>

(* The answers of Auth.                                                    *)

Ends(t) == underway' = [underway EXCEPT ![t] = Idle]

\* signIn: the listener hears of the session, and then the boot is retried.
NoRetry(t) == UNCHANGED rerender                    \* fault: the end is left to the listener
EndsWithBoot(t) == Retries(t)

SignInEnds(t) ==
    LET u == underway[t].of IN
    /\ underway[t].what = "signIn"
    /\ Ends(t)
    /\ \/ RequestsFail /\ UNCHANGED <<session, authEvents, boot, screen, booted, rerender>>  \* refused
       \/ /\ Store(t, u)
          /\ EndsWithBoot(t)
          /\ IF Notices(t, Change(u)) THEN Show(t, Blank, Undecided)
             ELSE UNCHANGED <<screen, booted>>
    /\ UNCHANGED <<preference, active, storageEvents, force, link, counts>>

\* signOut clears whichever session is stored, or cannot; the boot decides from
\* what is left.
SignOutEnds(t) ==
    /\ underway[t].what = "signOut"
    /\ Ends(t)
    /\ EndsWithBoot(t)
    /\ \/ RequestsFail /\ UNCHANGED <<session, authEvents, boot, screen, booted>>
       \/ /\ Store(t, Nobody)
          /\ IF Notices(t, Change(Nobody)) THEN Show(t, Blank, Undecided)
             ELSE UNCHANGED <<screen, booted>>
    /\ UNCHANGED <<preference, active, storageEvents, force, link, counts>>

\* adoptInvitationSession: a link that no longer works leaves everything as it is.
AdoptionEnds(t) ==
    LET u == underway[t].of IN
    /\ underway[t].what \in {"adopt", "replace"}
    /\ Ends(t)
    /\ \/ RequestsFail /\ UNCHANGED <<session, authEvents, boot, screen, booted, rerender>>
       \/ Store(t, u) /\ Hear(t, Change(u))
    /\ UNCHANGED <<preference, active, storageEvents, force, link, counts>>

Outside(t) ==
    \/ HearAuth(t) \/ HearStorage(t) \/ SignInEnds(t) \/ SignOutEnds(t) \/ AdoptionEnds(t)

-----------------------------------------------------------------------------
(* What people do, and the server of its own.                              *)

Turn(n) == acts + 2 * changes + n <= MaxTurns
Act == Turn(1) /\ acts < MaxActs /\ acts' = acts + 1 /\ UNCHANGED changes
ServerActs == Turn(2) /\ changes < MaxChanges /\ changes' = changes + 1 /\ UNCHANGED acts
Sees(t, phases) == screen[t].phase \in phases
Asks(t, what, of) ==
    /\ underway[t] = Idle
    /\ underway' = [underway EXCEPT ![t] = [what |-> what, of |-> of]]

SignIn(t, u) ==
    /\ Act
    /\ Sees(t, {"SIGNED_OUT"})
    /\ Asks(t, "signIn", u)
    /\ UNCHANGED <<shared, events, screen, booted, force, rerender, boot, link>>

\* The screens are taken down before the network is involved.
SignOut(t) ==
    /\ Act
    /\ Sees(t, {"READY", "ORGANIZATION_SELECTION", "NO_MEMBERSHIP"})
    /\ Asks(t, "signOut", Nobody)
    /\ Show(t, Blank, booted[t])
    /\ UNCHANGED <<shared, events, force, rerender, boot, link>>

Retry(t) ==
    /\ Act
    /\ Sees(t, {"UNAVAILABLE", "NO_MEMBERSHIP", "INVITATION_CHECK_FAILED"})
    /\ Retries(t)
    /\ UNCHANGED <<shared, events, screen, booted, force, boot, link, underway>>

SelectOrganization(t, o) ==
    /\ Act
    /\ Sees(t, {"ORGANIZATION_SELECTION"})
    /\ o \in screen[t].choices
    /\ Remember(t, Preference(screen[t].user, o))
    /\ force' = [force EXCEPT ![t] = FALSE]
    /\ Invalidate(t)
    /\ UNCHANGED <<session, active, authEvents, boot, link, underway>>

SwitchOrganization(t) ==
    /\ Act
    /\ Sees(t, {"READY"})
    /\ Cardinality(screen[t].choices) > 1
    /\ force' = [force EXCEPT ![t] = TRUE]
    /\ Invalidate(t)
    /\ UNCHANGED <<shared, events, boot, link, underway>>

AcceptInvitation(t) ==
    /\ Act
    /\ Sees(t, {"INVITATION_CONFIRMATION"})
    /\ link[t] # Nobody
    /\ Asks(t, "replace", link[t])
    /\ link' = [link EXCEPT ![t] = Nobody]
    /\ Invalidate(t)
    /\ UNCHANGED <<shared, events, force, boot>>

DeclineInvitation(t) ==
    /\ Act
    /\ Sees(t, {"INVITATION_CONFIRMATION", "INVITATION_CHECK_FAILED"})
    /\ link' = [link EXCEPT ![t] = Nobody]
    /\ Invalidate(t)
    /\ UNCHANGED <<shared, events, force, boot, underway>>

\* An administrator ends a membership or gives it back.
ChangeMembership(u, o) ==
    /\ ServerActs
    /\ o \in Companies[u]
    /\ active' = [active EXCEPT ![u] = IF o \in @ THEN @ \ {o} ELSE @ \cup {o}]
    /\ UNCHANGED <<session, preference, events, tabVars>>

\* Auth refuses to refresh the session: it is removed, and every tab hears so.
Expire ==
    /\ ServerActs
    /\ session # Nobody
    /\ session' = Nobody
    /\ authEvents' = [t \in Tabs |-> Append(authEvents[t], Change(Nobody))]
    /\ Cross(Nobody)
    /\ UNCHANGED <<preference, active, storageEvents, screen, booted, force, rerender, link,
                   underway>>

Acts ==
    \/ \E t \in Tabs :
         \/ \E u \in People : SignIn(t, u)
         \/ \E o \in Organizations : SelectOrganization(t, o)
         \/ SignOut(t) \/ Retry(t) \/ SwitchOrganization(t)
         \/ AcceptInvitation(t) \/ DeclineInvitation(t)
    \/ \E u \in People, o \in Organizations : ChangeMembership(u, o)
    \/ Expire

-----------------------------------------------------------------------------
Next == Acts \/ \E t \in Tabs : BootStep(t) \/ Outside(t)

\* Nobody has to press anything; a tab whose boot can go on, or for which an event
\* or an answer waits, does one of these things in the end.
Fairness == \A t \in Tabs : WF_vars(BootStep(t) \/ Outside(t))

Spec == Init /\ [][Next]_vars /\ Fairness
-----------------------------------------------------------------------------
Who == People \cup {Nobody}
Screens ==
    [phase : Phases, user : Who, org : Organizations \cup {Nobody},
     choices : SUBSET Organizations, profile : Who]
\* What a boot has come to: nothing yet, or the phase it will publish.
Outcomes == {"INITIALIZING", "READY", "ORGANIZATION_SELECTION"} \cup ReadFailures
Boots ==
    [pc : BootSteps, try : 1 .. BootIdentityAttempts, user : Who, crossed : 0 .. 2,
     forced : BOOLEAN, profile : Who, choices : SUBSET Organizations,
     outcome : Outcomes, org : Organizations \cup {Nobody}]
Preferences == [user : Who, org : Organizations \cup {Nobody}]
AuthChanges == {Change(who) : who \in Who}

TypeOK ==
    /\ session \in Who
    /\ preference \in Preferences
    /\ active \in [People -> SUBSET Organizations]
    /\ authEvents \in [Tabs -> Seq(AuthChanges)]
    /\ storageEvents \in [Tabs -> Seq(Preferences)]
    /\ screen \in [Tabs -> Screens]
    /\ booted \in [Tabs -> Who \cup {Undecided}]
    /\ force \in [Tabs -> BOOLEAN] /\ rerender \in [Tabs -> BOOLEAN]
    /\ boot \in [Tabs -> Boots]
    /\ link \in [Tabs -> Who]
    /\ underway \in [Tabs -> [what : Requests, of : Who]]

Settled(t) ==
    /\ authEvents[t] = <<>> /\ storageEvents[t] = <<>>
    /\ ~rerender[t] /\ boot[t].pc = "done" /\ underway[t] = Idle

\* Whatever the other tabs did while this one booted and whichever requests
\* failed, a tab that has heard it all shows the signed-in person, with that
\* person's own profile; and the sign-in form only when nobody is signed in, or
\* to the person whose stored session this tab's boot was refused for: never to
\* somebody who has signed in since.
SettledTabsShowTheSession ==
    \A t \in Tabs : Settled(t) =>
      /\ Sees(t, {"READY", "ORGANIZATION_SELECTION", "NO_MEMBERSHIP", "INVITATION_CONFIRMATION"})
           => screen[t].user = session
      /\ Sees(t, {"READY"}) => screen[t].profile = session
      /\ Sees(t, {"SIGNED_OUT"}) => session \in {Nobody, screen[t].user}

\* Nobody enters, is offered or is remembered in a company they never belonged
\* to, though another person's session may have answered some of the reads.
EntersOnlyOwnCompanies ==
    /\ \A t \in Tabs :
         Sees(t, {"READY", "ORGANIZATION_SELECTION"}) =>
           /\ screen[t].choices \subseteq Companies[screen[t].user]
           /\ Sees(t, {"READY"}) => screen[t].org \in screen[t].choices
    /\ preference # NoPreference => preference.org \in Companies[preference.user]

\* A change of person while a boot reads is noticed: what is published for a
\* person was read with no such change or with two, never with one.  (A recheck
\* that is itself refused or fails publishes nothing that was read.)
OneChangeIsNoticed ==
    [][\A t \in Tabs :
         /\ boot[t].pc = "recheck"
         /\ \/ boot'[t].pc = "inspect"
            \/ screen'[t].phase \in {"ORGANIZATION_SELECTION", "NO_MEMBERSHIP"}
         => boot[t].crossed # 1]_vars

\* A tab that drops its screen shows another one in the end.
EveryTabDecides ==
    \A t \in Tabs : screen[t] = Blank ~> screen[t] # Blank

\* "A device shows one company at a time rather than different companies in
\* tabs that look identical".  (Not so: README.md.)
TabsAgree ==
    \A s, t \in Tabs :
      Settled(s) /\ Settled(t) /\ Sees(s, {"READY"}) /\ Sees(t, {"READY"})
      /\ screen[s].user = screen[t].user /\ screen[s].choices = screen[t].choices
        => screen[s].org = screen[t].org

\* "The result is published only if the session still belongs to the user it
\* was built for": no screen shows one person's profile as another's.
\* (Not so: README.md.)
OnePersonPerScreen ==
    \A t \in Tabs : Sees(t, {"READY"}) => screen[t].profile = screen[t].user
=============================================================================
