-------------------------- MODULE DeviceTabsProofs --------------------------
(***************************************************************************)
(* The tabs of one device, for any tabs, people, companies and limits: a   *)
(* tab that has heard everything shows the signed-in person, nothing is    *)
(* published across one change of person, and nobody enters a company they *)
(* never belonged to.  And their database, for any released versions,      *)
(* pages and builds: it is of the version it names, and opening it loses   *)
(* nothing.                                                                *)
(***************************************************************************)
EXTENDS BootSession, SchemaUpgrade, WellFoundedInduction, TLAPS

-----------------------------------------------------------------------------
(* The session and the screens.                                            *)

Reading == {"profile", "memberships", "organizations", "recheck"}

\* The screens that say who is signed in.
Claims == {"READY", "ORGANIZATION_SELECTION", "NO_MEMBERSHIP", "INVITATION_CONFIRMATION",
           "SIGNED_OUT"}

SaysOther(queue, who) == \E i \in 1 .. Len(queue) : queue[i].user # who

\* An event waits that says another person than who.
Warned(t, who) == SaysOther(authEvents[t], who)

\* A boot whose reads were not of its user's session has an event waiting.
BootKnows(t) ==
    /\ boot[t].pc \notin {"inspect", "done"} => booted[t] = Undecided
    /\ boot[t].pc \in Reading /\ boot[t].user # session => Warned(t, boot[t].user)
    /\ /\ \/ boot[t].pc \in {"memberships", "organizations"}
          \/ boot[t].pc = "recheck" /\ boot[t].outcome = "READY"
       /\ boot[t].profile # boot[t].user
       => Warned(t, boot[t].user)
    /\ boot[t].pc = "inspect" =>
         /\ booted[t] = boot[t].user
         /\ boot[t].user # session \/ boot[t].profile # boot[t].user => Warned(t, booted[t])

\* Whose session a screen is right for: its person's, and, of the sign-in form,
\* nobody's as well as that of whoever was refused.
RightFor(t, who) == who = screen[t].user \/ (Sees(t, {"SIGNED_OUT"}) /\ who = Nobody)

\* A screen that is not right for the session's person has an event waiting too.
ScreenKnows(t) ==
    /\ Sees(t, Claims \ {"INVITATION_CONFIRMATION", "SIGNED_OUT"}) => booted[t] = screen[t].user
    /\ Sees(t, {"SIGNED_OUT"}) => booted[t] = Nobody
    /\ Sees(t, {"INVITATION_CONFIRMATION"}) => booted[t] = Undecided
    /\ Sees(t, Claims) /\ ~RightFor(t, session) => Warned(t, booted[t])
    /\ Sees(t, {"READY"}) /\ screen[t].profile # screen[t].user => Warned(t, booted[t])

\* Unless React is about to begin a new boot.
Knows(t) == ~rerender[t] => BootKnows(t) /\ ScreenKnows(t)

\* A boot shows nothing while it runs.
BlankWhileBooting(t) == boot[t].pc # "done" => screen[t] = Blank

\* The session is the user's before the first change of person, and not after it.
CountsCrossings(t) ==
    boot[t].pc \in Reading =>
      /\ boot[t].crossed = 0 => session = boot[t].user
      /\ boot[t].crossed = 1 => session # boot[t].user

\* What a boot chooses from, and what a screen offers, are companies of its user.
BootsOwnCompanies(t) ==
    /\ boot[t].pc \in Reading \cup {"inspect"} => boot[t].user \in People
    /\ boot[t].pc \in {"organizations", "recheck", "inspect"} =>
         boot[t].choices \subseteq Companies[boot[t].user]
    /\ (boot[t].pc = "recheck" /\ boot[t].outcome = "READY") \/ boot[t].pc = "inspect" =>
         boot[t].org \in boot[t].choices
    /\ boot[t].pc = "recheck" /\ boot[t].outcome = "ORGANIZATION_SELECTION" =>
         boot[t].choices # {}

\* So is what a screen offers and shows.
ShowsOwnCompanies(t) ==
    Sees(t, {"READY", "ORGANIZATION_SELECTION"}) =>
      /\ screen[t].user \in People
      /\ screen[t].choices \subseteq Companies[screen[t].user]
      /\ Sees(t, {"READY"}) => screen[t].org \in screen[t].choices

\* The remembered company is one the remembered person belonged to.
RemembersOwnCompany ==
    preference # NoPreference =>
      preference.user \in People /\ preference.org \in Companies[preference.user]

\* Whose companies are remembered, chosen and shown.
CompaniesInv ==
    /\ \A u \in People : active[u] \subseteq Companies[u]
    /\ RemembersOwnCompany
    /\ \A t \in Tabs : BootsOwnCompanies(t) /\ ShowsOwnCompanies(t)

\* What the tabs know of the session.
SessionInv == \A t \in Tabs : BlankWhileBooting(t) /\ CountsCrossings(t) /\ Knows(t)

\* The inductive invariant.
BootInv == TypeOK /\ SessionInv /\ CompaniesInv

-----------------------------------------------------------------------------
(* Events and what a tab makes of them.                                    *)

\* An event says who is signed in now, and is SIGNED_OUT when nobody is.
LEMMA ChangesAreTyped ==
    ASSUME NEW who \in Who
    PROVE  /\ Change(who) \in AuthChanges
           /\ Change(who).user = who
           /\ Change(who).event = "SIGNED_OUT" <=> who = Nobody
  BY DEF AuthChanges, Change

\* An event names a person, or nobody when it is SIGNED_OUT.
LEMMA EventsAreTyped ==
    ASSUME NEW e \in AuthChanges
    PROVE  e.user \in Who /\ (e.event = "SIGNED_OUT" <=> e.user = Nobody)
  BY ChangesAreTyped DEF AuthChanges

\* The listener (onAuthChange) notices whoever the tab is not built for.
LEMMA NoticesAnother ==
    ASSUME NEW t \in Tabs, NEW e \in AuthChanges, booted[t] \in Who \cup {Undecided}
    PROVE  Notices(t, e) <=> e.user # booted[t]
  BY EventsAreTyped, NobodyAssumption DEF Notices, Who

\* A queue that is added to says what it said, and what is added.
LEMMA AppendedSays ==
    ASSUME NEW queue \in Seq(AuthChanges), NEW e \in AuthChanges, NEW who,
           SaysOther(queue, who) \/ e.user # who
    PROVE  SaysOther(Append(queue, e), who)
  <1>1. Len(Append(queue, e)) = Len(queue) + 1 /\ Len(queue) \in Nat
    OBVIOUS
  <1>2. CASE e.user # who
    <2>1. Append(queue, e)[Len(queue) + 1] = e
      OBVIOUS
    <2>2. Len(queue) + 1 \in 1 .. Len(Append(queue, e))
      BY <1>1
    <2> QED
      BY <1>2, <2>1, <2>2 DEF SaysOther
  <1>3. CASE SaysOther(queue, who)
    <2>1. PICK i \in 1 .. Len(queue) : queue[i].user # who
      BY <1>3 DEF SaysOther
    <2>2. Append(queue, e)[i] = queue[i] /\ i \in 1 .. Len(Append(queue, e))
      BY <1>1
    <2> QED
      BY <2>1, <2>2 DEF SaysOther
  <1> QED
    BY <1>2, <1>3

\* An event that named the same person takes no warning with it.
LEMMA TailSays ==
    ASSUME NEW queue \in Seq(AuthChanges), queue # <<>>, NEW who,
           SaysOther(queue, who), Head(queue).user = who
    PROVE  SaysOther(Tail(queue), who)
  <1>1. PICK i \in 1 .. Len(queue) : queue[i].user # who
    BY DEF SaysOther
  <1>2. i # 1 /\ Len(queue) \in Nat
    BY <1>1
  <1>3. Len(Tail(queue)) = Len(queue) - 1 /\ Tail(queue)[i - 1] = queue[i]
    BY <1>2
  <1>4. i - 1 \in 1 .. Len(Tail(queue))
    BY <1>2, <1>3
  <1> QED
    BY <1>1, <1>3, <1>4 DEF SaysOther

-----------------------------------------------------------------------------
(* Types.                                                                  *)

\* The empty screen is one that claims nothing.
LEMMA BlankTyped == Blank \in Screens /\ Blank.phase = "INITIALIZING"
  BY DEF Blank, Screen, Screens, Phases, Who

\* A screen is of its phase and person.
LEMMA ScreenTyped ==
    ASSUME NEW phase \in Phases, NEW u \in Who
    PROVE  /\ Screen(phase, u) \in Screens
           /\ Screen(phase, u).phase = phase /\ Screen(phase, u).user = u
  BY DEF Screen, Screens, Who

\* A boot that is over is a boot.
LEMMA BootedTyped == Booted \in Boots /\ Booted.pc = "done"
  BY BoundsAssumption DEF Booted, Boots, BootSteps, Outcomes, Who

\* A boot begins at the link, or at the session.
LEMMA NewBootTyped ==
    ASSUME NEW t \in Tabs
    PROVE  NewBoot(t) \in Boots /\ NewBoot(t).pc \in {"link", "session"}
  <1>1. PICK pc \in {"link", "session"} : pc = IF link[t] # Nobody THEN "link" ELSE "session"
    OBVIOUS
  <1>2. NewBoot(t) = [Booted EXCEPT !.pc = pc]
    BY <1>1 DEF NewBoot
  <1> QED
    BY <1>2, BootedTyped DEF Boots, BootSteps

\* Showing a screen is a matter of one tab.
LEMMA ShowTyped ==
    ASSUME TypeOK, NEW t \in Tabs, NEW s \in Screens, NEW who \in Who \cup {Undecided},
           Show(t, s, who)
    PROVE  /\ screen' \in [Tabs -> Screens] /\ booted' \in [Tabs -> Who \cup {Undecided}]
           /\ screen'[t] = s /\ booted'[t] = who
           /\ \A u \in Tabs \ {t} : screen'[u] = screen[u] /\ booted'[u] = booted[u]
  BY DEF TypeOK, Show

\* So is ending its boot.
LEMMA FinishTyped ==
    ASSUME TypeOK, NEW t \in Tabs, Finish(t)
    PROVE  /\ boot' \in [Tabs -> Boots] /\ boot'[t] = Booted
           /\ \A u \in Tabs \ {t} : boot'[u] = boot[u]
  BY BootedTyped DEF TypeOK, Finish

\* A boot goes on: only what is named changes.
LEMMA AdvanceTyped ==
    ASSUME TypeOK, NEW t \in Tabs, NEW pc \in BootSteps, Advance(t, pc)
    PROVE  /\ boot' \in [Tabs -> Boots] /\ boot'[t] = [boot[t] EXCEPT !.pc = pc]
           /\ \A u \in Tabs \ {t} : boot'[u] = boot[u]
  <1>1. boot[t] \in Boots
    BY DEF TypeOK
  <1>2. [boot[t] EXCEPT !.pc = pc] \in Boots
    BY <1>1 DEF Boots
  <1> QED
    BY <1>2 DEF TypeOK, Advance

\* A read that is forbidden fails, and so does one whose answers disagree.
LEMMA FailuresFail ==
    ASSUME NEW t \in Tabs, Fails(t) \/ Forbidden(t) \/ StopsWith(t, "UNAVAILABLE")
    PROVE  Fails(t)
  BY DEF Fails, Forbidden, ReadFailures, SessionFailures

\* A read that fails ends in the recheck.
LEMMA StopsTyped ==
    ASSUME TypeOK, NEW t \in Tabs, NEW outcome \in ReadFailures, StopsWith(t, outcome)
    PROVE  /\ boot' \in [Tabs -> Boots]
           /\ boot'[t] = [boot[t] EXCEPT !.pc = "recheck", !.outcome = outcome,
                                         !.profile = Nobody, !.choices = {}]
           /\ \A u \in Tabs \ {t} : boot'[u] = boot[u]
  <1>1. boot[t] \in Boots
    BY DEF TypeOK
  <1>2. [boot[t] EXCEPT !.pc = "recheck", !.outcome = outcome,
                        !.profile = Nobody, !.choices = {}] \in Boots
    BY <1>1 DEF Boots, BootSteps, Outcomes, ReadFailures, SessionFailures, Who
  <1> QED
    BY <1>2 DEF TypeOK, StopsWith

\* Another person's session: boots count it, and other tabs are sent word.
LEMMA CrossTyped ==
    ASSUME TypeOK, NEW who \in Who, Cross(who)
    PROVE  /\ boot' \in [Tabs -> Boots]
           /\ \A t \in Tabs :
                /\ boot'[t].pc = boot[t].pc /\ boot'[t].user = boot[t].user
                /\ boot'[t].profile = boot[t].profile /\ boot'[t].outcome = boot[t].outcome
                /\ boot'[t].choices = boot[t].choices /\ boot'[t].org = boot[t].org
                /\ boot'[t].crossed =
                     IF who # session /\ boot[t].crossed < 2 /\ boot[t].pc \in Reading
                     THEN boot[t].crossed + 1 ELSE boot[t].crossed
  <1>1. ASSUME NEW t \in Tabs, boot[t].crossed < 2
        PROVE  [boot[t] EXCEPT !.crossed = @ + 1] \in Boots
    <2>1. boot[t] \in Boots /\ boot[t].crossed \in {0, 1}
      BY <1>1 DEF TypeOK, Boots
    <2>2. boot[t].crossed + 1 \in 0 .. 2
      BY <2>1
    <2> QED
      BY <2>1, <2>2 DEF Boots
  <1>2. boot' \in [Tabs -> Boots]
    BY <1>1 DEF TypeOK, Cross
  <1> QED
    BY ZenonT(40), <1>2 DEF TypeOK, Cross, Reading, Boots

\* A stored session is an event for every other tab.
LEMMA StoreTyped ==
    ASSUME TypeOK, NEW t \in Tabs, NEW who \in Who, Store(t, who)
    PROVE  /\ session' = who
           /\ authEvents' \in [Tabs -> Seq(AuthChanges)] /\ authEvents'[t] = authEvents[t]
           /\ \A u \in Tabs \ {t} : authEvents'[u] = Append(authEvents[u], Change(who))
           /\ Cross(who)
  <1>1. \A u \in Tabs : Append(authEvents[u], Change(who)) \in Seq(AuthChanges)
    BY ChangesAreTyped DEF TypeOK
  <1> QED
    BY <1>1 DEF TypeOK, Store

\* The remembered company is one for the other tabs to hear of.
LEMMA RememberTyped ==
    ASSUME TypeOK, NEW t \in Tabs, NEW p \in Preferences, Remember(t, p)
    PROVE  preference' = p /\ storageEvents' \in [Tabs -> Seq(Preferences)]
  BY DEF TypeOK, Remember

\* The listener drops a screen of another person, and leaves one of this person.
LEMMA HearTyped ==
    ASSUME TypeOK, NEW t \in Tabs, NEW e \in AuthChanges, Hear(t, e)
    PROVE  /\ screen' \in [Tabs -> Screens] /\ booted' \in [Tabs -> Who \cup {Undecided}]
           /\ rerender' \in [Tabs -> BOOLEAN]
           /\ \A u \in Tabs \ {t} : /\ screen'[u] = screen[u] /\ booted'[u] = booted[u]
                                    /\ rerender'[u] = rerender[u]
           /\ \/ screen'[t] = Blank /\ rerender'[t]
              \/ UNCHANGED <<screen, booted, rerender>> /\ booted[t] = e.user
  <1>1. CASE Notices(t, e)
    BY ZenonT(40), <1>1, ShowTyped, BlankTyped DEF Hear, Invalidate, Retries, TypeOK
  <1>2. CASE ~Notices(t, e)
    BY <1>2, NoticesAnother DEF Hear, TypeOK
  <1> QED
    BY <1>1, <1>2

\* A boot that stops shows the phase it stopped with.
LEMMA StopTyped ==
    ASSUME TypeOK, NEW t \in Tabs, NEW phase \in Phases, NEW who \in Who, Stop(t, phase, who)
    PROVE  /\ screen' \in [Tabs -> Screens] /\ screen'[t] = Screen(phase, who)
           /\ booted' \in [Tabs -> Who \cup {Undecided}]
           /\ booted'[t] = IF phase = "SIGNED_OUT" THEN Nobody ELSE who
           /\ boot' \in [Tabs -> Boots] /\ boot'[t] = Booted
           /\ force' \in [Tabs -> BOOLEAN]
  <1> DEFINE known == IF phase = "SIGNED_OUT" THEN Nobody ELSE who
  <1>1. known \in Who \cup {Undecided}
    BY DEF Who
  <1>2. Show(t, Screen(phase, who), known) /\ Finish(t) /\ force' = [force EXCEPT ![t] = FALSE]
    BY DEF Stop
  <1> HIDE DEF known
  <1>3. /\ screen' \in [Tabs -> Screens] /\ screen'[t] = Screen(phase, who)
        /\ booted' \in [Tabs -> Who \cup {Undecided}] /\ booted'[t] = known
    BY <1>1, <1>2, ScreenTyped, ShowTyped
  <1>4. boot' \in [Tabs -> Boots] /\ boot'[t] = Booted
    BY <1>2, FinishTyped
  <1> QED
    BY <1>2, <1>3, <1>4 DEF known, TypeOK

\* What a read of a boot finds for the next step.
LEMMA DecideTyped ==
    ASSUME NEW choices \in SUBSET Organizations, NEW u \in Who, NEW forced \in BOOLEAN,
           preference \in Preferences
    PROVE  LET d == Decide(choices, Remembered(u), forced)
           IN  /\ d.outcome \in {"NO_MEMBERSHIP", "READY", "ORGANIZATION_SELECTION"}
               /\ d.org \in Organizations \cup {Nobody}
               /\ d.outcome = "READY" => d.org \in choices
               /\ d.outcome = "ORGANIZATION_SELECTION" => choices # {}
  <1> DEFINE d == Decide(choices, Remembered(u), forced)
  <1>1. CASE choices = {}
    BY <1>1 DEF Decide
  <1>2. CASE choices # {} /\ Cardinality(choices) = 1
    <2>1. d = [outcome |-> "READY", org |-> CHOOSE o \in choices : TRUE]
      BY <1>2 DEF Decide
    <2>2. (CHOOSE o \in choices : TRUE) \in choices
      BY <1>2
    <2> QED
      BY <2>1, <2>2
  <1>3. CASE choices # {} /\ Cardinality(choices) # 1
    <2>1. CASE ~forced /\ Remembered(u) \cap choices # {}
      <3>1. d = [outcome |-> "READY", org |-> CHOOSE o \in Remembered(u) : TRUE]
        BY <1>3, <2>1 DEF Decide
      <3>2. Remembered(u) = {preference.org} /\ preference.org \in choices
        BY <2>1 DEF Remembered
      <3>3. (CHOOSE o \in Remembered(u) : TRUE) = preference.org
        BY <3>2
      <3> QED
        BY <3>1, <3>2, <3>3
    <2>2. CASE ~(~forced /\ Remembered(u) \cap choices # {})
      <3>1. d = [outcome |-> "ORGANIZATION_SELECTION", org |-> Nobody]
        BY <1>3, <2>2 DEF Decide
      <3> QED
        BY <1>3, <3>1
    <2> QED
      BY <2>1, <2>2
  <1> QED
    BY <1>1, <1>2, <1>3

\* The browser begins in a state of its type.
LEMMA InitTyped == Init => TypeOK
  <1> SUFFICES ASSUME Init PROVE TypeOK
    OBVIOUS
  <1>1. preference \in Preferences
    BY CompaniesAssumption DEF Init, Preferences, Preference, NoPreference, Who
  <1>2. \A t \in Tabs : NewBoot(t) \in Boots
    BY NewBootTyped
  <1>3. <<>> \in Seq(AuthChanges) /\ <<>> \in Seq(Preferences)
    OBVIOUS
  <1> QED
    BY <1>1, <1>2, <1>3, BlankTyped, CompaniesAssumption, LinksAssumption
       DEF Init, TypeOK, Who, Idle, Requests

\* Every step of a boot keeps the types.
LEMMA BootStepTyped ==
    ASSUME TypeOK, NEW t \in Tabs, BootStep(t)
    PROVE  TypeOK'
  <1> USE DEF shared, events, counts
  <1>1. boot[t] \in Boots /\ session \in Who /\ link[t] \in Who
    BY DEF TypeOK
  <1>2. CASE Rerender(t)
    <2>1. boot' \in [Tabs -> Boots] /\ rerender' \in [Tabs -> BOOLEAN]
      BY <1>2, NewBootTyped DEF Rerender, TypeOK
    <2>2. screen' \in [Tabs -> Screens] /\ booted' \in [Tabs -> Who \cup {Undecided}]
      BY <1>2, BlankTyped, ShowTyped DEF Rerender
    <2> QED
      BY <1>2, <2>1, <2>2 DEF Rerender, TypeOK
  <1>3. CASE CheckLink(t)
    <2>1. CASE Show(t, Screen("INVITATION_CHECK_FAILED", Nobody), booted[t]) /\ Finish(t)
               /\ UNCHANGED <<link, underway>>
      <3>1. /\ booted[t] \in Who \cup {Undecided}
            /\ Screen("INVITATION_CHECK_FAILED", Nobody) \in Screens
        BY ScreenTyped DEF TypeOK, Phases, Who
      <3> QED
        BY <1>3, <2>1, <3>1, ShowTyped, FinishTyped DEF CheckLink, TypeOK
    <2>2. CASE Advance(t, "whose") /\ UNCHANGED <<screen, booted, link, underway>>
      BY <1>3, <2>2, AdvanceTyped DEF CheckLink, TypeOK, BootSteps
    <2>3. CASE /\ link' = [link EXCEPT ![t] = Nobody]
               /\ underway' = [underway EXCEPT ![t] = [what |-> "adopt", of |-> link[t]]]
               /\ Advance(t, "session")
               /\ UNCHANGED <<screen, booted>>
      <3>1. link' \in [Tabs -> Who] /\ underway' \in [Tabs -> [what : Requests, of : Who]]
        BY <1>1, <2>3 DEF TypeOK, Who, Requests
      <3> QED
        BY <1>3, <2>3, <3>1, AdvanceTyped DEF CheckLink, TypeOK, BootSteps
    <2> QED
      BY <1>3, <2>1, <2>2, <2>3 DEF CheckLink
  <1>4. CASE AskAboutLink(t)
    <2>1. /\ booted[t] \in Who \cup {Undecided}
          /\ Screen("INVITATION_CONFIRMATION", session) \in Screens
      BY <1>1, ScreenTyped DEF TypeOK, Phases
    <2> QED
      BY <1>4, <2>1, ShowTyped, FinishTyped DEF AskAboutLink, TypeOK
  <1>5. CASE ReadSession(t)
    <2>1. CASE \/ Stop(t, "UNAVAILABLE", Nobody) \/ Stop(t, "SIGNED_OUT", session)
               \/ Stop(t, "SIGNED_OUT", Nobody)
      BY <1>1, <1>5, <2>1, StopTyped DEF ReadSession, TypeOK, Phases, Who
    <2>2. CASE /\ session # Nobody
               /\ boot' = [boot EXCEPT ![t] =
                    [@ EXCEPT !.pc = "profile", !.user = session, !.crossed = 0,
                              !.forced = IF boot[t].try = 1 THEN force[t] ELSE boot[t].forced]]
               /\ UNCHANGED <<screen, booted, force>>
      <3>1. PICK forced \in BOOLEAN :
              boot' = [boot EXCEPT ![t] = [boot[t] EXCEPT !.pc = "profile", !.user = session,
                                                          !.crossed = 0, !.forced = forced]]
        <4>1. CASE boot[t].try = 1
          <5>1. force[t] \in BOOLEAN
            BY DEF TypeOK
          <5> QED
            BY <2>2, <4>1, <5>1
        <4>2. CASE boot[t].try # 1
          <5>1. boot[t].forced \in BOOLEAN
            BY <1>1 DEF Boots
          <5> QED
            BY <2>2, <4>2, <5>1
        <4> QED
          BY <4>1, <4>2
      <3>2. "profile" \in BootSteps /\ 0 \in 0 .. 2
        BY DEF BootSteps
      <3>3. [boot[t] EXCEPT !.pc = "profile", !.user = session, !.crossed = 0,
                            !.forced = forced] \in Boots
        BY <1>1, <3>2 DEF Boots
      <3>4. boot' \in [Tabs -> Boots]
        BY <3>1, <3>3 DEF TypeOK
      <3> QED
        BY <1>5, <2>2, <3>4 DEF ReadSession, TypeOK
    <2> QED
      BY <1>5, <2>1, <2>2 DEF ReadSession
  <1>6. CASE ReadProfile(t)
    <2>1. CASE Fails(t)
      BY <1>6, <2>1, StopsTyped DEF ReadProfile, TypeOK, Fails
    <2>2. CASE boot' = [boot EXCEPT ![t] = [@ EXCEPT !.pc = "memberships", !.profile = session]]
      <3>1. [boot[t] EXCEPT !.pc = "memberships", !.profile = session] \in Boots
        BY <1>1 DEF Boots, BootSteps
      <3> QED
        BY <1>6, <2>2, <3>1 DEF ReadProfile, TypeOK
    <2> QED
      BY <1>6, <2>1, <2>2, FailuresFail DEF ReadProfile
  <1>7. CASE ReadMemberships(t)
    <2>1. CASE Fails(t)
      BY <1>7, <2>1, StopsTyped DEF ReadMemberships, TypeOK, Fails
    <2>2. CASE /\ session # Nobody
               /\ boot' = [boot EXCEPT ![t] =
                    [@ EXCEPT !.pc = "organizations",
                              !.choices = OwnMemberships(boot[t].user, session)]]
      <3>1. OwnMemberships(boot[t].user, session) \in SUBSET Organizations
        BY <1>1, <2>2 DEF OwnMemberships, TypeOK, Who
      <3>2. [boot[t] EXCEPT !.pc = "organizations",
                            !.choices = OwnMemberships(boot[t].user, session)] \in Boots
        BY <1>1, <3>1 DEF Boots, BootSteps
      <3> QED
        BY <1>7, <2>2, <3>2 DEF ReadMemberships, TypeOK
    <2> QED
      BY <1>7, <2>1, <2>2, FailuresFail DEF ReadMemberships
  <1>8. CASE ReadOrganizations(t)
    <2> DEFINE d == Decide(boot[t].choices, Remembered(boot[t].user), boot[t].forced)
    <2>1. CASE Fails(t)
      BY <1>8, <2>1, StopsTyped DEF ReadOrganizations, TypeOK, Fails
    <2>2. CASE boot' = [boot EXCEPT ![t] =
                 [@ EXCEPT !.pc = "recheck", !.outcome = d.outcome, !.org = d.org]]
      <3>1. d.outcome \in Outcomes /\ d.org \in Organizations \cup {Nobody}
        BY <1>1, DecideTyped DEF TypeOK, Boots, Outcomes, ReadFailures
      <3> HIDE DEF d
      <3>2. [boot[t] EXCEPT !.pc = "recheck", !.outcome = d.outcome, !.org = d.org] \in Boots
        BY <1>1, <3>1 DEF Boots, BootSteps
      <3> QED
        BY <1>8, <2>2, <3>2 DEF ReadOrganizations, TypeOK
    <2> QED
      BY <1>8, <2>1, <2>2, FailuresFail DEF ReadOrganizations
  <1>9. CASE Recheck(t)
    <2>1. CASE /\ \/ Stop(t, "UNAVAILABLE", boot[t].user) \/ Stop(t, "UNAVAILABLE", Nobody)
                  \/ Stop(t, "SIGNED_OUT", session)
               /\ UNCHANGED <<preference, storageEvents>>
      <3>1. /\ boot[t].user \in Who /\ Nobody \in Who
            /\ "UNAVAILABLE" \in Phases /\ "SIGNED_OUT" \in Phases
        BY <1>1 DEF Boots, Who, Phases
      <3> QED
        BY <1>1, <1>9, <2>1, <3>1, StopTyped DEF Recheck, TypeOK
    <2>2. CASE Publish(t)
      <3>1. /\ boot[t].user \in Who /\ boot[t].outcome \in Phases
            /\ boot[t].choices \in SUBSET Organizations
        BY <1>1 DEF Boots, Outcomes, ReadFailures, SessionFailures, Phases
      <3>2. CASE boot[t].outcome = "ORGANIZATION_SELECTION"
        <4>1. [Screen(boot[t].outcome, boot[t].user) EXCEPT !.choices = boot[t].choices] \in Screens
          BY <3>1, ScreenTyped DEF Screens
        <4> QED
          BY <1>9, <2>2, <3>1, <3>2, <4>1, ShowTyped, FinishTyped DEF Publish, Recheck, TypeOK
      <3>3. CASE boot[t].outcome = "READY"
        <4>1. Preference(boot[t].user, boot[t].org) \in Preferences /\ screen[t] \in Screens
          BY <1>1 DEF Preference, Preferences, Boots, TypeOK
        <4>2. /\ Show(t, screen[t], boot[t].user)
              /\ Remember(t, Preference(boot[t].user, boot[t].org))
              /\ Advance(t, "inspect")
              /\ force' = [force EXCEPT ![t] = FALSE]
          BY <2>2, <3>3 DEF Publish
        <4> QED
          BY <1>9, <3>1, <4>1, <4>2, ShowTyped, RememberTyped, AdvanceTyped
             DEF Recheck, TypeOK, BootSteps
      <3>4. CASE boot[t].outcome \notin {"READY", "ORGANIZATION_SELECTION"}
        <4>1. Stop(t, boot[t].outcome, boot[t].user) /\ UNCHANGED <<preference, storageEvents>>
          BY <2>2, <3>4 DEF Publish
        <4> QED
          BY <1>9, <3>1, <4>1, StopTyped DEF Recheck, TypeOK
      <3> QED
        BY <3>2, <3>3, <3>4
    <2>3. CASE /\ MayTryAgain(t)
               /\ boot' = [boot EXCEPT ![t] = [@ EXCEPT !.pc = "session", !.try = boot[t].try + 1]]
               /\ UNCHANGED <<screen, booted, force, preference, storageEvents>>
      <3>1. boot[t].try + 1 \in 1 .. BootIdentityAttempts
        BY <1>1, <2>3, BoundsAssumption DEF MayTryAgain, Boots
      <3>2. [boot[t] EXCEPT !.pc = "session", !.try = boot[t].try + 1] \in Boots
        BY <1>1, <3>1 DEF Boots, BootSteps
      <3>3. boot' = [boot EXCEPT ![t] = [boot[t] EXCEPT !.pc = "session", !.try = boot[t].try + 1]]
        BY <2>3
      <3>4. boot' \in [Tabs -> Boots]
        BY <3>3, <3>2 DEF TypeOK
      <3> QED
        BY <1>9, <2>3, <3>4 DEF Recheck, TypeOK
    <2> QED
      BY <1>9, <2>1, <2>2, <2>3 DEF Recheck
  <1>10. CASE Inspect(t)
    <2>1. /\ [phase |-> "READY", user |-> boot[t].user, org |-> boot[t].org,
              choices |-> boot[t].choices, profile |-> boot[t].profile] \in Screens
          /\ booted[t] \in Who \cup {Undecided}
      BY <1>1 DEF Screens, Boots, Phases, TypeOK
    <2> QED
      BY <1>10, <2>1, ShowTyped, FinishTyped DEF Inspect, TypeOK
  <1> QED
    BY <1>2, <1>3, <1>4, <1>5, <1>6, <1>7, <1>8, <1>9, <1>10 DEF BootStep

\* The request of a tab ends.
LEMMA EndsTyped ==
    ASSUME TypeOK, NEW t \in Tabs, Ends(t)
    PROVE  underway' \in [Tabs -> [what : Requests, of : Who]]
  BY DEF TypeOK, Ends, Idle, Requests, Who

\* Auth stored another session.
LEMMA SuccessTyped ==
    ASSUME TypeOK, NEW t \in Tabs, NEW who \in Who, Store(t, who)
    PROVE  /\ session' \in Who /\ authEvents' \in [Tabs -> Seq(AuthChanges)]
           /\ boot' \in [Tabs -> Boots]
  BY StoreTyped, CrossTyped

\* So does every event and answer.
LEMMA OutsideTyped ==
    ASSUME TypeOK, NEW t \in Tabs, Outside(t)
    PROVE  TypeOK'
  <1> USE DEF shared, events, counts
  <1>1. CASE HearAuth(t)
    <2>1. authEvents[t] \in Seq(AuthChanges) /\ authEvents[t] # <<>>
      BY <1>1 DEF HearAuth, TypeOK
    <2>2. Head(authEvents[t]) \in AuthChanges /\ Tail(authEvents[t]) \in Seq(AuthChanges)
      BY <2>1
    <2>3. Hear(t, Head(authEvents[t])) /\ authEvents' \in [Tabs -> Seq(AuthChanges)]
      BY <1>1, <2>2 DEF HearAuth, TypeOK
    <2> QED
      BY <1>1, <2>2, <2>3, HearTyped DEF HearAuth, TypeOK
  <1>2. CASE HearStorage(t)
    <2>1. storageEvents[t] \in Seq(Preferences) /\ storageEvents[t] # <<>>
      BY <1>2 DEF HearStorage, TypeOK
    <2>2. Tail(storageEvents[t]) \in Seq(Preferences)
      BY <2>1
    <2>3. storageEvents' \in [Tabs -> Seq(Preferences)]
      BY <1>2, <2>2 DEF HearStorage, TypeOK
    <2>4. CASE Invalidate(t)
      <3>1. force' \in [Tabs -> BOOLEAN]
        BY <1>2 DEF HearStorage, TypeOK
      <3> QED
        BY <1>2, <2>3, <2>4, <3>1, ShowTyped, BlankTyped
           DEF HearStorage, Invalidate, Retries, TypeOK
    <2>5. CASE UNCHANGED <<screen, booted, rerender, force>>
      BY <1>2, <2>3, <2>5 DEF HearStorage, TypeOK
    <2> QED
      BY <1>2, <2>4, <2>5 DEF HearStorage
  <1>3. CASE SignInEnds(t)
    <2>1. underway[t].of \in Who
      BY DEF TypeOK
    <2>2. CASE UNCHANGED <<session, authEvents, boot, screen, booted, rerender>>
      BY <1>3, <2>2, EndsTyped DEF SignInEnds, TypeOK
    <2>3. CASE /\ Store(t, underway[t].of) /\ EndsWithBoot(t)
               /\ IF Notices(t, Change(underway[t].of)) THEN Show(t, Blank, Undecided)
                  ELSE UNCHANGED <<screen, booted>>
      <3>1. screen' \in [Tabs -> Screens] /\ booted' \in [Tabs -> Who \cup {Undecided}]
        BY <2>3, ShowTyped, BlankTyped DEF TypeOK
      <3> QED
        BY <1>3, <2>1, <2>3, <3>1, EndsTyped, SuccessTyped
           DEF SignInEnds, EndsWithBoot, Retries, TypeOK
    <2> QED
      BY <1>3, <2>2, <2>3 DEF SignInEnds
  <1>4. CASE SignOutEnds(t)
    <2>1. Nobody \in Who
      BY DEF Who
    <2>2. CASE UNCHANGED <<session, authEvents, boot, screen, booted>>
      BY <1>4, <2>2, EndsTyped DEF SignOutEnds, EndsWithBoot, Retries, TypeOK
    <2>3. CASE /\ Store(t, Nobody)
               /\ IF Notices(t, Change(Nobody)) THEN Show(t, Blank, Undecided)
                  ELSE UNCHANGED <<screen, booted>>
      <3>1. screen' \in [Tabs -> Screens] /\ booted' \in [Tabs -> Who \cup {Undecided}]
        BY <2>3, ShowTyped, BlankTyped DEF TypeOK
      <3> QED
        BY <1>4, <2>1, <2>3, <3>1, EndsTyped, SuccessTyped
           DEF SignOutEnds, EndsWithBoot, Retries, TypeOK
    <2> QED
      BY <1>4, <2>2, <2>3 DEF SignOutEnds
  <1>5. CASE AdoptionEnds(t)
    <2>1. underway[t].of \in Who /\ Change(underway[t].of) \in AuthChanges
      BY ChangesAreTyped DEF TypeOK
    <2>2. CASE UNCHANGED <<session, authEvents, boot, screen, booted, rerender>>
      BY <1>5, <2>2, EndsTyped DEF AdoptionEnds, TypeOK
    <2>3. CASE Store(t, underway[t].of) /\ Hear(t, Change(underway[t].of))
      BY <1>5, <2>1, <2>3, EndsTyped, SuccessTyped, HearTyped DEF AdoptionEnds, TypeOK
    <2> QED
      BY <1>5, <2>2, <2>3 DEF AdoptionEnds
  <1> QED
    BY <1>1, <1>2, <1>3, <1>4, <1>5 DEF Outside

\* A tab begins a request.
LEMMA AsksTyped ==
    ASSUME TypeOK, NEW t \in Tabs, NEW what \in Requests, NEW of \in Who, Asks(t, what, of)
    PROVE  underway' \in [Tabs -> [what : Requests, of : Who]]
  BY DEF TypeOK, Asks

\* A tab drops its screen and will boot again.
LEMMA InvalidateTyped ==
    ASSUME TypeOK, NEW t \in Tabs, Invalidate(t)
    PROVE  /\ screen' \in [Tabs -> Screens] /\ booted' \in [Tabs -> Who \cup {Undecided}]
           /\ rerender' \in [Tabs -> BOOLEAN]
  BY ShowTyped, BlankTyped DEF Invalidate, Retries, TypeOK

\* The acts of a person at a tab.
ActsAt(t) ==
    \/ \E u \in People : SignIn(t, u)
    \/ \E o \in Organizations : SelectOrganization(t, o)
    \/ SignOut(t) \/ Retry(t) \/ SwitchOrganization(t)
    \/ AcceptInvitation(t) \/ DeclineInvitation(t)

\* People keep the types.
LEMMA ActsTyped ==
    ASSUME TypeOK, NEW t \in Tabs, ActsAt(t)
    PROVE  TypeOK'
  <1> USE DEF shared, events, counts
  <1>1. ASSUME NEW u \in People, SignIn(t, u) PROVE TypeOK'
    BY <1>1, AsksTyped DEF SignIn, TypeOK, Requests, Who
  <1>2. ASSUME NEW o \in Organizations, SelectOrganization(t, o) PROVE TypeOK'
    <2>1. Preference(screen[t].user, o) \in Preferences
      BY DEF TypeOK, Preference, Preferences, Screens
    <2>2. force' \in [Tabs -> BOOLEAN]
      BY <1>2 DEF SelectOrganization, TypeOK
    <2> QED
      BY <1>2, <2>1, <2>2, RememberTyped, InvalidateTyped DEF SelectOrganization, TypeOK
  <1>3. CASE SignOut(t)
    <2>1. booted[t] \in Who \cup {Undecided} /\ Nobody \in Who /\ "signOut" \in Requests
      BY DEF TypeOK, Who, Requests
    <2> QED
      BY <1>3, <2>1, AsksTyped, ShowTyped, BlankTyped DEF SignOut, TypeOK
  <1>4. CASE Retry(t)
    BY <1>4 DEF Retry, Retries, TypeOK
  <1>5. CASE SwitchOrganization(t)
    <2>1. force' \in [Tabs -> BOOLEAN]
      BY <1>5 DEF SwitchOrganization, TypeOK
    <2> QED
      BY <1>5, <2>1, InvalidateTyped DEF SwitchOrganization, TypeOK
  <1>6. CASE AcceptInvitation(t)
    <2>1. link[t] \in Who /\ "replace" \in Requests
      BY DEF TypeOK, Requests
    <2>2. link' \in [Tabs -> Who]
      BY <1>6 DEF AcceptInvitation, TypeOK, Who
    <2> QED
      BY <1>6, <2>1, <2>2, AsksTyped, InvalidateTyped DEF AcceptInvitation, TypeOK
  <1>7. CASE DeclineInvitation(t)
    <2>1. link' \in [Tabs -> Who]
      BY <1>7 DEF DeclineInvitation, TypeOK, Who
    <2> QED
      BY <1>7, <2>1, InvalidateTyped DEF DeclineInvitation, TypeOK
  <1> QED
    BY <1>1, <1>2, <1>3, <1>4, <1>5, <1>6, <1>7 DEF ActsAt

\* And so does the server.
LEMMA ServerTyped ==
    ASSUME TypeOK, Expire \/ \E u \in People, o \in Organizations : ChangeMembership(u, o)
    PROVE  TypeOK'
  <1> USE DEF shared, events, counts, tabVars
  <1>1. ASSUME NEW u \in People, NEW o \in Organizations, ChangeMembership(u, o) PROVE TypeOK'
    <2>1. active' \in [People -> SUBSET Organizations]
      BY <1>1 DEF ChangeMembership, TypeOK
    <2> QED
      BY <1>1, <2>1 DEF ChangeMembership, TypeOK
  <1>2. CASE Expire
    <2>1. Nobody \in Who /\ Change(Nobody) \in AuthChanges
      BY ChangesAreTyped DEF Who
    <2>2. authEvents' \in [Tabs -> Seq(AuthChanges)]
      BY <1>2, <2>1 DEF Expire, TypeOK
    <2> QED
      BY <1>2, <2>1, <2>2, CrossTyped DEF Expire, TypeOK
  <1> QED
    BY <1>1, <1>2

\* Every step is a boot's, an event's or an answer's at a tab, a person's act there,
\* or the server's.
LEMMA StepKinds ==
    ASSUME Next
    PROVE  \/ \E t \in Tabs : BootStep(t) \/ Outside(t) \/ ActsAt(t)
           \/ Expire \/ \E u \in People, o \in Organizations : ChangeMembership(u, o)
  BY DEF Next, Acts, ActsAt

\* Every step keeps the types.
LEMMA StepTyped ==
    ASSUME TypeOK, [Next]_vars
    PROVE  TypeOK'
  <1>1. CASE UNCHANGED vars
    BY <1>1 DEF vars, shared, events, tabVars, counts, TypeOK
  <1>2. CASE Next
    BY <1>2, StepKinds, BootStepTyped, OutsideTyped, ActsTyped, ServerTyped
  <1> QED
    BY <1>1, <1>2

-----------------------------------------------------------------------------
(* What a tab does not do itself.                                          *)

\* A tab's screen and boot stay as they are, but for the count of changes.
Rests(s) ==
    /\ screen'[s] = screen[s] /\ booted'[s] = booted[s] /\ rerender'[s] = rerender[s]
    /\ boot'[s].pc = boot[s].pc /\ boot'[s].user = boot[s].user
    /\ boot'[s].profile = boot[s].profile /\ boot'[s].outcome = boot[s].outcome
    /\ boot'[s].choices = boot[s].choices /\ boot'[s].org = boot[s].org

\* A change of the session is an event for the tab.
IsSent(s) ==
    \/ session' = session /\ authEvents'[s] = authEvents[s]
    \/ session' \in Who /\ authEvents'[s] = Append(authEvents[s], Change(session'))

\* And counted by its boot.
IsCounted(s) ==
    \/ session' = session /\ boot'[s].crossed = boot[s].crossed
    \/ session' \in Who /\ Cross(session')

\* A store counts as a change of person exactly when it is one.
LEMMA CrossingsOfStores ==
    ASSUME TypeOK, NEW s \in Tabs, CountsCrossings(s), NEW who \in Who, session' = who, Cross(who)
    PROVE  CountsCrossings(s)'
  <1>1. boot[s].crossed \in 0 .. 2
    BY DEF TypeOK, Boots
  <1>2. /\ boot'[s].pc = boot[s].pc /\ boot'[s].user = boot[s].user
        /\ boot'[s].crossed = IF who # session /\ boot[s].crossed < 2 /\ boot[s].pc \in Reading
                             THEN boot[s].crossed + 1 ELSE boot[s].crossed
    BY CrossTyped
  <1>3. SUFFICES ASSUME boot[s].pc \in Reading
                 PROVE  /\ boot'[s].crossed = 0 => session' = boot[s].user
                        /\ boot'[s].crossed = 1 => session' # boot[s].user
    BY <1>2 DEF CountsCrossings
  <1> QED
    BY <1>1, <1>2, <1>3 DEF CountsCrossings

\* The count of a tab that rests stays right.
LEMMA CrossingsAreCounted ==
    ASSUME TypeOK, NEW s \in Tabs, CountsCrossings(s), Rests(s), IsCounted(s)
    PROVE  CountsCrossings(s)'
  <1>1. CASE session' = session /\ boot'[s].crossed = boot[s].crossed
    BY <1>1 DEF CountsCrossings, Rests
  <1>2. CASE session' \in Who /\ Cross(session')
    <2>1. PICK who \in Who : who = session'
      BY <1>2
    <2> QED
      BY <1>2, <2>1, CrossingsOfStores
  <1> QED
    BY <1>1, <1>2 DEF IsCounted

\* A tab that rests goes on knowing: a new person is an event that waits.
LEMMA RestingTabsKnow ==
    ASSUME TypeOK, NEW s \in Tabs, BlankWhileBooting(s), Knows(s), Rests(s), IsSent(s)
    PROVE  BlankWhileBooting(s)' /\ Knows(s)'
  <1>1. BlankWhileBooting(s)'
    BY DEF BlankWhileBooting, Rests
  <1>2. ASSUME NEW who, Warned(s, who) PROVE Warned(s, who)'
    <2>1. CASE session' = session /\ authEvents'[s] = authEvents[s]
      BY <1>2, <2>1 DEF Warned
    <2>2. CASE session' \in Who /\ authEvents'[s] = Append(authEvents[s], Change(session'))
      BY <1>2, <2>2, AppendedSays, ChangesAreTyped DEF Warned, TypeOK
    <2> QED
      BY <2>1, <2>2 DEF IsSent
  <1>3. ASSUME NEW who, who # session' PROVE session' = session \/ Warned(s, who)'
    <2>1. CASE session' \in Who /\ authEvents'[s] = Append(authEvents[s], Change(session'))
      <3>1. PICK e \in AuthChanges : e = Change(session') /\ e.user = session'
        BY <2>1, ChangesAreTyped
      <3>2. authEvents[s] \in Seq(AuthChanges) /\ e.user # who
        BY <1>3, <3>1 DEF TypeOK
      <3>3. SaysOther(Append(authEvents[s], e), who)
        BY <3>2, AppendedSays
      <3> QED
        BY <2>1, <3>1, <3>3 DEF Warned
    <2> QED
      BY <2>1 DEF IsSent
  <1>4. session' \in Who /\ session \in Who /\ Undecided \notin Who
    BY NobodyAssumption DEF IsSent, TypeOK, Who
  <1>5. SUFFICES ASSUME ~rerender[s] PROVE BootKnows(s)' /\ ScreenKnows(s)'
    BY <1>1 DEF Knows, Rests
  <1>6. BootKnows(s) /\ ScreenKnows(s)
    BY <1>5 DEF Knows
  <1>7. BootKnows(s)'
    BY <1>2, <1>3, <1>6 DEF BootKnows, Rests
  <1>8. ScreenKnows(s)'
    <2>1. Sees(s, Claims)' /\ ~RightFor(s, session)' => Warned(s, booted[s])'
      <3>1. CASE Sees(s, {"INVITATION_CONFIRMATION"})
        <4>1. booted[s] = Undecided
          BY <1>6, <3>1 DEF ScreenKnows
        <4>2. CASE session' = session
          BY <1>2, <1>6, <3>1, <4>2 DEF ScreenKnows, RightFor, Sees, Claims, Rests
        <4>3. CASE Warned(s, Undecided)'
          BY <4>1, <4>3 DEF Rests, Warned
        <4> QED
          BY <1>3, <1>4, <4>2, <4>3
      <3>2. CASE Sees(s, Claims \ {"INVITATION_CONFIRMATION"})
        BY <1>2, <1>3, <1>6, <3>2 DEF ScreenKnows, RightFor, Sees, Claims, Rests
      <3> QED
        BY <3>1, <3>2 DEF Sees, Claims, Rests
    <2> QED
      BY <1>2, <1>6, <2>1 DEF ScreenKnows, RightFor, Sees, Rests
  <1> QED
    BY <1>1, <1>5, <1>7, <1>8

\* A tab about to boot again need not know anything.
LEMMA RestartedTabsKnow ==
    ASSUME NEW s \in Tabs, BlankWhileBooting(s), rerender'[s],
           screen'[s] \in {Blank, screen[s]}, boot'[s].pc = boot[s].pc
    PROVE  BlankWhileBooting(s)' /\ Knows(s)'
  BY DEF BlankWhileBooting, Knows

-----------------------------------------------------------------------------
(* The boot, step by step.                                                 *)

\* A step of one tab's boot leaves the others' screens and boots alone.
LEMMA OthersRestInBoot ==
    ASSUME TypeOK, NEW t \in Tabs, BootStep(t), NEW s \in Tabs, s # t
    PROVE  Rests(s) /\ IsSent(s) /\ IsCounted(s)
  <1> USE DEF shared, events
  <1>1. UNCHANGED <<session, authEvents>>
    BY DEF BootStep, Rerender, CheckLink, AskAboutLink, ReadSession, ReadProfile,
       ReadMemberships, ReadOrganizations, Recheck, Inspect
  <1>2. screen'[s] = screen[s] /\ booted'[s] = booted[s] /\ rerender'[s] = rerender[s]
    BY DEF BootStep, Rerender, CheckLink, AskAboutLink, ReadSession, ReadProfile,
       ReadMemberships, ReadOrganizations, Recheck, Inspect, Publish, Stop, Show, TypeOK
  <1>3. boot'[s] = boot[s]
    BY DEF BootStep, Rerender, CheckLink, AskAboutLink, ReadSession, ReadProfile,
       ReadMemberships, ReadOrganizations, Recheck, Inspect, Publish, Stop, Finish, Advance,
       Fails, Forbidden, StopsWith, TypeOK
  <1> QED
    BY <1>1, <1>2, <1>3 DEF Rests, IsSent, IsCounted

\* A tab that shows nothing and whose boot is over, or has not read anything yet.
LEMMA FreshTabsKnow ==
    ASSUME NEW s \in Tabs, screen'[s].phase \notin Claims,
           \/ boot'[s] = Booted
           \/ boot'[s].pc \in {"link", "whose", "session"} /\ booted'[s] = Undecided
              /\ screen'[s] = Blank
    PROVE  BlankWhileBooting(s)' /\ Knows(s)' /\ CountsCrossings(s)'
  <1>1. /\ BlankWhileBooting(s)'
        /\ boot'[s].pc \notin {"inspect", "done"} => booted'[s] = Undecided
        /\ boot'[s].pc \notin Reading \cup {"inspect"}
    BY DEF BlankWhileBooting, Booted, Reading
  <1>2. ScreenKnows(s)'
    BY DEF ScreenKnows, RightFor, Sees, Claims
  <1>3. BootKnows(s)'
    BY <1>1 DEF BootKnows, Reading
  <1> QED
    BY <1>1, <1>2, <1>3 DEF Knows, CountsCrossings

\* Whatever a boot reads or publishes, its tab knows the session or will be told.
LEMMA BootsKnow ==
    ASSUME TypeOK, NEW t \in Tabs, BootStep(t),
           BlankWhileBooting(t), CountsCrossings(t), Knows(t)
    PROVE  BlankWhileBooting(t)' /\ CountsCrossings(t)' /\ Knows(t)'
  <1> USE DEF shared, events
  <1>1. /\ UNCHANGED <<session, authEvents>>
        /\ \A who : Warned(t, who)' <=> Warned(t, who)
    BY DEF BootStep, Rerender, CheckLink, AskAboutLink, ReadSession, ReadProfile,
       ReadMemberships, ReadOrganizations, Recheck, Inspect, Warned
  <1>2. /\ boot[t] \in Boots /\ session \in Who /\ booted[t] \in Who \cup {Undecided}
        /\ screen[t] \in Screens
    BY DEF TypeOK
  <1>3. ASSUME rerender'[t] = rerender[t], screen'[t] = screen[t], booted'[t] = booted[t],
               boot'[t].pc # "done", boot[t].pc \notin {"inspect", "done"},
               ~rerender[t] => BootKnows(t)', CountsCrossings(t)'
        PROVE  BlankWhileBooting(t)' /\ CountsCrossings(t)' /\ Knows(t)'
    <2>1. screen'[t] = Blank
      BY <1>3 DEF BlankWhileBooting
    <2>2. ScreenKnows(t)'
      BY <2>1, BlankTyped DEF ScreenKnows, RightFor, Sees, Claims
    <2> QED
      BY <1>3, <2>1, <2>2 DEF BlankWhileBooting, Knows
  <1>4. CASE Rerender(t)
    <2>1. boot'[t] = NewBoot(t) /\ screen'[t] = Blank /\ booted'[t] = Undecided
      BY <1>4, ShowTyped, BlankTyped DEF Rerender, TypeOK
    <2> QED
      BY <2>1, NewBootTyped, BlankTyped, FreshTabsKnow DEF Claims
  <1>5. CASE CheckLink(t)
    <2>1. CASE Show(t, Screen("INVITATION_CHECK_FAILED", Nobody), booted[t]) /\ Finish(t)
      <3>1. Screen("INVITATION_CHECK_FAILED", Nobody) \in Screens
            /\ Screen("INVITATION_CHECK_FAILED", Nobody).phase \notin Claims
        BY ScreenTyped DEF Phases, Who, Claims
      <3> QED
        BY <1>2, <2>1, <3>1, ShowTyped, FinishTyped, FreshTabsKnow
    <2>2. CASE UNCHANGED <<screen, booted>> /\ \E pc \in {"whose", "session"} : Advance(t, pc)
      <3>1. boot[t].pc = "link" /\ rerender'[t] = rerender[t]
        BY <1>5 DEF CheckLink, At
      <3>2. PICK pc \in {"whose", "session"} : boot'[t] = [boot[t] EXCEPT !.pc = pc]
        BY <2>2, AdvanceTyped DEF BootSteps
      <3>3. boot'[t].pc = pc
        BY <1>2, <3>2 DEF Boots
      <3>4. CountsCrossings(t)' /\ (~rerender[t] => BootKnows(t)')
        BY <2>2, <3>1, <3>3 DEF CountsCrossings, Knows, BootKnows, Reading
      <3> QED
        BY <1>3, <2>2, <3>1, <3>3, <3>4
    <2> QED
      BY <1>5, <2>1, <2>2 DEF CheckLink
  <1>6. CASE AskAboutLink(t)
    <2>1. /\ screen'[t] = Screen("INVITATION_CONFIRMATION", session) /\ booted'[t] = booted[t]
          /\ boot'[t] = Booted /\ boot[t].pc = "whose" /\ rerender'[t] = rerender[t]
      BY <1>2, <1>6, ScreenTyped, ShowTyped, FinishTyped DEF AskAboutLink, At, Phases
    <2>2. screen'[t].phase = "INVITATION_CONFIRMATION" /\ screen'[t].user = session
      BY <1>2, <2>1, ScreenTyped DEF Phases
    <2>3. BlankWhileBooting(t)' /\ CountsCrossings(t)' /\ BootKnows(t)'
      BY <2>1 DEF BlankWhileBooting, CountsCrossings, BootKnows, Booted, Reading
    <2>4. ~rerender[t] => booted'[t] = Undecided
      BY <2>1 DEF Knows, BootKnows
    <2>5. ~rerender[t] => ScreenKnows(t)'
      BY <1>1, <2>2, <2>4 DEF ScreenKnows, RightFor, Sees, Claims
    <2> QED
      BY <2>1, <2>3, <2>5 DEF Knows
  <1>7. ASSUME NEW phase \in {"INITIALIZING", "UNAVAILABLE", "SIGNED_OUT", "NO_MEMBERSHIP"},
               NEW who \in Who, Stop(t, phase, who),
               phase \in Claims => who = session
        PROVE  BlankWhileBooting(t)' /\ CountsCrossings(t)' /\ Knows(t)'
    <2>1. /\ screen'[t] = Screen(phase, who) /\ boot'[t] = Booted
          /\ booted'[t] = IF phase = "SIGNED_OUT" THEN Nobody ELSE who
      BY <1>7, StopTyped DEF Phases
    <2>2. screen'[t].phase = phase /\ screen'[t].user = who
      BY <2>1, ScreenTyped DEF Phases
    <2>3. BlankWhileBooting(t)' /\ CountsCrossings(t)' /\ BootKnows(t)'
      BY <2>1 DEF BlankWhileBooting, CountsCrossings, BootKnows, Booted, Reading
    <2>4. ScreenKnows(t)'
      BY <1>1, <1>7, <2>1, <2>2 DEF ScreenKnows, RightFor, Sees, Claims
    <2> QED
      BY <2>3, <2>4 DEF Knows
  <1>8. CASE ReadSession(t)
    <2>1. CASE \/ Stop(t, "UNAVAILABLE", Nobody) \/ Stop(t, "SIGNED_OUT", session)
               \/ session = Nobody /\ Stop(t, "SIGNED_OUT", Nobody)
      BY <1>2, <1>7, <2>1 DEF Who, Claims
    <2>2. CASE /\ UNCHANGED <<screen, booted, force>>
               /\ boot' = [boot EXCEPT ![t] =
                    [@ EXCEPT !.pc = "profile", !.user = session, !.crossed = 0,
                              !.forced = IF boot[t].try = 1 THEN force[t] ELSE boot[t].forced]]
      <3>1. boot'[t].pc = "profile" /\ boot'[t].user = session /\ boot'[t].crossed = 0
        BY <1>2, <2>2 DEF TypeOK, Boots
      <3>2. boot[t].pc = "session" /\ rerender'[t] = rerender[t]
        BY <1>8 DEF ReadSession, At
      <3>3. CountsCrossings(t)' /\ (~rerender[t] => BootKnows(t)')
        BY <1>1, <2>2, <3>1, <3>2 DEF CountsCrossings, Knows, BootKnows, Reading
      <3> QED
        BY <1>3, <2>2, <3>1, <3>2, <3>3
    <2> QED
      BY <1>8, <2>1, <2>2 DEF ReadSession
  <1>9. ASSUME Fails(t),
               boot[t].pc \in Reading,
               rerender'[t] = rerender[t], screen'[t] = screen[t], booted'[t] = booted[t]
        PROVE  BlankWhileBooting(t)' /\ CountsCrossings(t)' /\ Knows(t)'
    <2>1. PICK outcome \in ReadFailures :
            boot'[t] = [boot[t] EXCEPT !.pc = "recheck", !.outcome = outcome,
                                       !.profile = Nobody, !.choices = {}]
      BY <1>9, StopsTyped DEF Fails
    <2>2. /\ boot'[t].pc = "recheck" /\ boot'[t].outcome = outcome
          /\ boot'[t].user = boot[t].user /\ boot'[t].crossed = boot[t].crossed
      BY <1>2, <2>1 DEF Boots
    <2>3. CountsCrossings(t)' /\ (~rerender[t] => BootKnows(t)')
      BY <1>1, <1>9, <2>2
         DEF CountsCrossings, Knows, BootKnows, Reading, ReadFailures, SessionFailures
    <2> QED
      BY SMTT(30), <1>3, <1>9, <2>2, <2>3 DEF Reading
  <1>10. CASE ReadProfile(t)
    <2>1. /\ rerender'[t] = rerender[t] /\ screen'[t] = screen[t] /\ booted'[t] = booted[t]
          /\ boot[t].pc = "profile"
      BY <1>10 DEF ReadProfile, At
    <2>2. CASE Fails(t)
      BY <1>9, <2>1, <2>2 DEF Reading
    <2>3. CASE boot' = [boot EXCEPT ![t] = [@ EXCEPT !.pc = "memberships", !.profile = session]]
      <3>1. /\ boot'[t].pc = "memberships" /\ boot'[t].profile = session
            /\ boot'[t].user = boot[t].user /\ boot'[t].crossed = boot[t].crossed
        BY <1>2, <2>3 DEF TypeOK, Boots
      <3>2. CountsCrossings(t)' /\ (~rerender[t] => BootKnows(t)')
        BY <1>1, <2>1, <3>1 DEF CountsCrossings, Knows, BootKnows, Reading
      <3> QED
        BY <1>3, <2>1, <3>1, <3>2
    <2> QED
      BY <1>10, <2>2, <2>3, FailuresFail DEF ReadProfile
  <1>11. CASE ReadMemberships(t)
    <2>1. /\ rerender'[t] = rerender[t] /\ screen'[t] = screen[t] /\ booted'[t] = booted[t]
          /\ boot[t].pc = "memberships"
      BY <1>11 DEF ReadMemberships, At
    <2>2. CASE Fails(t)
      BY <1>9, <2>1, <2>2 DEF Reading
    <2>3. CASE boot' = [boot EXCEPT ![t] =
                 [@ EXCEPT !.pc = "organizations",
                           !.choices = OwnMemberships(boot[t].user, session)]]
      <3>1. /\ boot'[t].pc = "organizations" /\ boot'[t].profile = boot[t].profile
            /\ boot'[t].user = boot[t].user /\ boot'[t].crossed = boot[t].crossed
        BY <1>2, <2>3 DEF TypeOK, Boots
      <3>2. CountsCrossings(t)' /\ (~rerender[t] => BootKnows(t)')
        BY <1>1, <2>1, <3>1 DEF CountsCrossings, Knows, BootKnows, Reading
      <3> QED
        BY <1>3, <2>1, <3>1, <3>2
    <2> QED
      BY <1>11, <2>2, <2>3, FailuresFail DEF ReadMemberships
  <1>12. CASE ReadOrganizations(t)
    <2> DEFINE d == Decide(boot[t].choices, Remembered(boot[t].user), boot[t].forced)
    <2>1. /\ rerender'[t] = rerender[t] /\ screen'[t] = screen[t] /\ booted'[t] = booted[t]
          /\ boot[t].pc = "organizations"
      BY <1>12 DEF ReadOrganizations, At
    <2>2. CASE Fails(t)
      BY <1>9, <2>1, <2>2 DEF Reading
    <2>3. CASE boot' = [boot EXCEPT ![t] =
                 [@ EXCEPT !.pc = "recheck", !.outcome = d.outcome, !.org = d.org]]
      <3> HIDE DEF d
      <3>1. /\ boot'[t].pc = "recheck" /\ boot'[t].profile = boot[t].profile
            /\ boot'[t].user = boot[t].user /\ boot'[t].crossed = boot[t].crossed
        BY <1>2, <2>3 DEF TypeOK, Boots
      <3>2. CountsCrossings(t)' /\ (~rerender[t] => BootKnows(t)')
        BY <1>1, <2>1, <3>1 DEF CountsCrossings, Knows, BootKnows, Reading
      <3> QED
        BY <1>3, <2>1, <3>1, <3>2
    <2> QED
      BY <1>12, <2>2, <2>3, FailuresFail DEF ReadOrganizations
  <1>13. CASE Recheck(t)
    <2>1. boot[t].pc = "recheck" /\ rerender'[t] = rerender[t] /\ boot[t].user \in Who
      BY <1>2, <1>13 DEF Recheck, At, Boots
    <2>2. CASE \/ Stop(t, "UNAVAILABLE", boot[t].user) \/ Stop(t, "UNAVAILABLE", Nobody)
               \/ Stop(t, "SIGNED_OUT", session)
      BY <1>2, <1>7, <2>1, <2>2 DEF Who, Claims
    <2>3. CASE /\ MayTryAgain(t) /\ UNCHANGED <<screen, booted>>
               /\ boot' = [boot EXCEPT ![t] = [@ EXCEPT !.pc = "session", !.try = boot[t].try + 1]]
      <3>1. boot'[t].pc = "session"
        BY <1>2, <2>3 DEF TypeOK, Boots
      <3>2. CountsCrossings(t)' /\ (~rerender[t] => BootKnows(t)')
        BY <1>1, <2>1, <2>3, <3>1 DEF CountsCrossings, Knows, BootKnows, Reading
      <3> QED
        BY <1>3, <2>1, <2>3, <3>1, <3>2
    <2>4. CASE StillTheSession(boot[t].user, session) /\ Publish(t)
      <3>1. boot[t].user = session /\ screen[t] = Blank
        BY <2>1, <2>4 DEF StillTheSession, BlankWhileBooting
      <3>2. CASE boot[t].outcome = "ORGANIZATION_SELECTION"
        <4> DEFINE s == [Screen(boot[t].outcome, boot[t].user) EXCEPT !.choices = boot[t].choices]
        <4>1. /\ s \in Screens /\ s.phase = "ORGANIZATION_SELECTION" /\ s.user = session
          BY <1>2, <3>1, <3>2, ScreenTyped DEF Screens, Boots, Phases
        <4>2. Show(t, s, boot[t].user) /\ Finish(t)
          BY <2>4, <3>2 DEF Publish
        <4> HIDE DEF s
        <4>3. screen'[t] = s /\ booted'[t] = boot[t].user /\ boot'[t] = Booted
          BY <2>1, <4>1, <4>2, ShowTyped, FinishTyped
        <4>4. BlankWhileBooting(t)' /\ CountsCrossings(t)' /\ BootKnows(t)'
          BY <4>3 DEF BlankWhileBooting, CountsCrossings, BootKnows, Booted, Reading
        <4>5. ScreenKnows(t)'
          BY <1>1, <3>1, <4>1, <4>3 DEF ScreenKnows, RightFor, Sees, Claims
        <4> QED
          BY <4>4, <4>5 DEF Knows
      <3>3. CASE boot[t].outcome = "READY"
        <4>1. Show(t, screen[t], boot[t].user) /\ Advance(t, "inspect")
          BY <2>4, <3>3 DEF Publish
        <4>a. screen'[t] = Blank /\ booted'[t] = boot[t].user
          BY <2>1, <3>1, <4>1, BlankTyped, ShowTyped
        <4>b. boot'[t] = [boot[t] EXCEPT !.pc = "inspect"]
          BY <4>1, AdvanceTyped DEF BootSteps
        <4>2. /\ screen'[t] = Blank /\ booted'[t] = boot[t].user
              /\ boot'[t] = [boot[t] EXCEPT !.pc = "inspect"]
          BY <4>a, <4>b
        <4>3. /\ boot'[t].pc = "inspect" /\ boot'[t].user = boot[t].user
              /\ boot'[t].profile = boot[t].profile
          BY <1>2, <4>2 DEF Boots
        <4>4. BlankWhileBooting(t)' /\ CountsCrossings(t)' /\ ScreenKnows(t)'
          BY <4>2, <4>3, BlankTyped
             DEF BlankWhileBooting, CountsCrossings, ScreenKnows, RightFor, Sees, Claims, Reading
        <4>5. ~rerender[t] => BootKnows(t)'
          BY <1>1, <2>1, <3>1, <3>3, <4>2, <4>3 DEF Knows, BootKnows, Reading
        <4> QED
          BY <2>1, <4>4, <4>5 DEF Knows
      <3>4. CASE boot[t].outcome \notin {"READY", "ORGANIZATION_SELECTION"}
        <4>1. Stop(t, boot[t].outcome, boot[t].user)
          BY <2>4, <3>4 DEF Publish
        <4>2. boot[t].outcome \in {"INITIALIZING", "NO_MEMBERSHIP", "UNAVAILABLE", "SIGNED_OUT"}
          BY <1>2, <3>4 DEF Boots, Outcomes, ReadFailures, SessionFailures
        <4> QED
          BY <1>7, <2>1, <3>1, <4>1, <4>2
      <3> QED
        BY <3>2, <3>3, <3>4
    <2> QED
      BY <1>13, <2>2, <2>3, <2>4 DEF Recheck
  <1>14. CASE Inspect(t)
    <2> DEFINE s == [phase |-> "READY", user |-> boot[t].user, org |-> boot[t].org,
                     choices |-> boot[t].choices, profile |-> boot[t].profile]
    <2>1. s \in Screens /\ Show(t, s, booted[t]) /\ Finish(t)
      BY <1>2, <1>14 DEF Inspect, Screens, Boots, Phases
    <2>2. s.phase = "READY" /\ s.user = boot[t].user /\ s.profile = boot[t].profile
      OBVIOUS
    <2> HIDE DEF s
    <2>3. /\ screen'[t] = s /\ booted'[t] = booted[t] /\ boot'[t] = Booted
          /\ boot[t].pc = "inspect" /\ rerender'[t] = rerender[t]
      BY <1>2, <1>14, <2>1, ShowTyped, FinishTyped DEF Inspect, At
    <2>4. BlankWhileBooting(t)' /\ CountsCrossings(t)' /\ BootKnows(t)'
      BY <2>3 DEF BlankWhileBooting, CountsCrossings, BootKnows, Booted, Reading
    <2>5. ~rerender[t] => ScreenKnows(t)'
      BY <1>1, <2>2, <2>3 DEF Knows, BootKnows, ScreenKnows, RightFor, Sees, Claims
    <2> QED
      BY <2>3, <2>4, <2>5 DEF Knows
  <1> QED
    BY <1>4, <1>5, <1>6, <1>8, <1>10, <1>11, <1>12, <1>13, <1>14 DEF BootStep

-----------------------------------------------------------------------------
(* Events, answers, people and the server.                                 *)

\* A change of the session at one tab is sent to the others and counted by all.
LEMMA StoresAreSent ==
    ASSUME TypeOK, NEW t \in Tabs, NEW who \in Who, Store(t, who)
    PROVE  /\ session' = who
           /\ \A s \in Tabs : IsCounted(s)
           /\ \A s \in Tabs \ {t} : IsSent(s)
           /\ authEvents'[t] = authEvents[t]
  BY StoreTyped DEF IsCounted, IsSent

\* What one tab hears, or is answered, reaches the others as events only.
LEMMA OthersRestOutside ==
    ASSUME TypeOK, NEW t \in Tabs, Outside(t), NEW s \in Tabs, s # t
    PROVE  Rests(s) /\ IsSent(s) /\ IsCounted(s)
  <1> USE DEF shared
  <1>1. CASE HearAuth(t)
    <2>1. authEvents[t] \in Seq(AuthChanges) /\ authEvents[t] # <<>>
      BY <1>1 DEF HearAuth, TypeOK
    <2>2. Head(authEvents[t]) \in AuthChanges
      BY <2>1
    <2>3. /\ screen'[s] = screen[s] /\ booted'[s] = booted[s] /\ rerender'[s] = rerender[s]
      BY <1>1, <2>2, HearTyped DEF HearAuth
    <2> QED
      BY <1>1, <2>3 DEF HearAuth, Rests, IsSent, IsCounted, TypeOK
  <1>2. CASE HearStorage(t)
    <2>1. /\ screen'[s] = screen[s] /\ booted'[s] = booted[s] /\ rerender'[s] = rerender[s]
      BY <1>2 DEF HearStorage, Invalidate, Show, Retries, TypeOK
    <2> QED
      BY <1>2, <2>1 DEF HearStorage, Rests, IsSent, IsCounted
  <1>3. CASE UNCHANGED <<session, authEvents, boot>> /\ (SignInEnds(t) \/ SignOutEnds(t) \/ AdoptionEnds(t))
    <2>1. /\ screen'[s] = screen[s] /\ booted'[s] = booted[s] /\ rerender'[s] = rerender[s]
      BY <1>3 DEF SignInEnds, SignOutEnds, AdoptionEnds, Hear, Invalidate, EndsWithBoot, Show,
         Retries, TypeOK
    <2> QED
      BY <1>3, <2>1 DEF Rests, IsSent, IsCounted
  <1>4. ASSUME NEW who \in Who, Store(t, who), SignInEnds(t) \/ SignOutEnds(t) \/ AdoptionEnds(t)
        PROVE  Rests(s) /\ IsSent(s) /\ IsCounted(s)
    <2>1. /\ screen'[s] = screen[s] /\ booted'[s] = booted[s] /\ rerender'[s] = rerender[s]
      BY <1>4 DEF SignInEnds, SignOutEnds, AdoptionEnds, Hear, Invalidate, EndsWithBoot, Show,
         Retries, TypeOK
    <2>2. Cross(who)
      BY <1>4 DEF Store
    <2> QED
      BY <1>4, <2>1, <2>2, StoresAreSent, CrossTyped DEF Rests
  <1>5. underway[t].of \in Who /\ Nobody \in Who
    BY DEF TypeOK, Who
  <1> QED
    BY <1>1, <1>2, <1>3, <1>4, <1>5 DEF Outside, SignInEnds, SignOutEnds, AdoptionEnds

\* A tab that hears of another person starts anew, and one that hears of its own stays right.
LEMMA ListenersKnow ==
    ASSUME TypeOK, NEW t \in Tabs, Outside(t),
           BlankWhileBooting(t), CountsCrossings(t), Knows(t)
    PROVE  BlankWhileBooting(t)' /\ CountsCrossings(t)' /\ Knows(t)'
  <1> USE DEF shared
  <1>0. booted[t] \in Who \cup {Undecided} /\ underway[t].of \in Who /\ Nobody \in Who
    BY DEF TypeOK, Who
  <1>1. CASE HearAuth(t)
    <2>1. authEvents[t] \in Seq(AuthChanges) /\ authEvents[t] # <<>>
      BY <1>1 DEF HearAuth, TypeOK
    <2>2. PICK e \in AuthChanges : e = Head(authEvents[t])
      BY <2>1
    <2>3. Hear(t, e) /\ UNCHANGED <<session, boot>> /\ authEvents'[t] = Tail(authEvents[t])
      BY <1>1, <2>2 DEF HearAuth, TypeOK
    <2>4. CountsCrossings(t)'
      BY <2>3 DEF CountsCrossings
    <2>5. CASE screen'[t] = Blank /\ rerender'[t]
      BY <2>3, <2>4, <2>5, RestartedTabsKnow
    <2>6. CASE UNCHANGED <<screen, booted, rerender>> /\ booted[t] = e.user
      <3>1. BlankWhileBooting(t)'
        BY <2>3, <2>6 DEF BlankWhileBooting
      <3>2. Warned(t, booted[t]) => Warned(t, booted[t])'
        BY <2>1, <2>2, <2>3, <2>6, TailSays DEF Warned
      <3>3. booted[t] # Undecided
        BY <2>6, EventsAreTyped, NobodyAssumption DEF Who
      <3>4. ASSUME ~rerender[t] PROVE BootKnows(t)' /\ ScreenKnows(t)'
        <4>1. BootKnows(t) /\ ScreenKnows(t)
          BY <3>4 DEF Knows
        <4>2. BootKnows(t)'
          BY <2>3, <2>6, <3>2, <3>3, <4>1 DEF BootKnows, Reading
        <4>3. ScreenKnows(t)'
          BY <2>3, <2>6, <3>2, <4>1 DEF ScreenKnows, RightFor, Sees
        <4> QED
          BY <4>2, <4>3
      <3> QED
        BY <2>4, <2>6, <3>1, <3>4 DEF Knows
    <2> QED
      BY <2>3, <2>5, <2>6, HearTyped
  <1>2. CASE HearStorage(t)
    <2>1. UNCHANGED <<session, authEvents, boot>>
      BY <1>2 DEF HearStorage
    <2>2. CASE Invalidate(t)
      <3>1. screen'[t] = Blank /\ rerender'[t]
        BY <2>2, ShowTyped, BlankTyped DEF Invalidate, Retries, TypeOK
      <3> QED
        BY <2>1, <3>1, RestartedTabsKnow DEF CountsCrossings
    <2>3. CASE UNCHANGED <<screen, booted, rerender>>
      BY <2>1, <2>3, RestingTabsKnow, CrossingsAreCounted DEF Rests, IsSent, IsCounted
    <2> QED
      BY <1>2, <2>2, <2>3 DEF HearStorage
  <1>3. CASE /\ UNCHANGED <<session, authEvents, boot, screen, booted>>
             /\ rerender'[t] \/ UNCHANGED rerender
    <2>1. CountsCrossings(t)'
      BY <1>3 DEF CountsCrossings
    <2>2. CASE rerender'[t]
      BY <1>3, <2>1, <2>2, RestartedTabsKnow
    <2>3. CASE UNCHANGED rerender
      BY <1>3, <2>1, <2>3, RestingTabsKnow DEF Rests, IsSent
    <2> QED
      BY <1>3, <2>2, <2>3
  <1>4. ASSUME NEW who \in Who, Store(t, who), rerender'[t], screen'[t] \in {Blank, screen[t]}
        PROVE  BlankWhileBooting(t)' /\ CountsCrossings(t)' /\ Knows(t)'
    <2>1. Cross(who) /\ session' = who
      BY <1>4, StoreTyped
    <2>2. boot'[t].pc = boot[t].pc /\ boot'[t].user = boot[t].user
      BY <2>1, CrossTyped
    <2>3. BlankWhileBooting(t)' /\ Knows(t)'
      BY <1>4, <2>2, RestartedTabsKnow
    <2>4. CountsCrossings(t)'
      BY <2>1, CrossingsOfStores
    <2> QED
      BY <2>3, <2>4
  <1>5. CASE SignInEnds(t)
    <2>1. CASE /\ Store(t, underway[t].of) /\ EndsWithBoot(t)
               /\ IF Notices(t, Change(underway[t].of)) THEN Show(t, Blank, Undecided)
                  ELSE UNCHANGED <<screen, booted>>
      <3>1. rerender'[t] /\ screen'[t] \in {Blank, screen[t]}
        BY <2>1, ShowTyped, BlankTyped DEF EndsWithBoot, Retries, TypeOK
      <3> QED
        BY <1>0, <1>4, <2>1, <3>1
    <2> QED
      BY <1>3, <1>5, <2>1 DEF SignInEnds
  <1>6. CASE SignOutEnds(t)
    <2>1. rerender'[t]
      BY <1>6 DEF SignOutEnds, EndsWithBoot, Retries, TypeOK
    <2>2. CASE /\ Store(t, Nobody)
               /\ IF Notices(t, Change(Nobody)) THEN Show(t, Blank, Undecided)
                  ELSE UNCHANGED <<screen, booted>>
      <3>1. screen'[t] \in {Blank, screen[t]}
        BY <2>2, ShowTyped, BlankTyped
      <3> QED
        BY <1>0, <1>4, <2>1, <2>2, <3>1
    <2> QED
      BY <1>3, <1>6, <2>1, <2>2 DEF SignOutEnds
  <1>7. CASE AdoptionEnds(t)
    <2>1. PICK who \in Who : who = underway[t].of
      BY <1>0
    <2>2. CASE Store(t, who) /\ Hear(t, Change(who))
      <3>1. PICK e \in AuthChanges : e = Change(who) /\ e.user = who
        BY ChangesAreTyped
      <3>2. \/ screen'[t] = Blank /\ rerender'[t]
            \/ UNCHANGED <<screen, booted, rerender>> /\ booted[t] = who
        BY <2>2, <3>1, HearTyped
      <3>3. CASE screen'[t] = Blank /\ rerender'[t]
        BY <1>4, <2>2, <3>3
      <3>4. CASE UNCHANGED <<screen, booted, rerender>> /\ booted[t] = who
        <4>1. Cross(who) /\ session' = who /\ authEvents'[t] = authEvents[t]
          BY <2>2, StoreTyped
        <4>2. /\ boot'[t].pc = boot[t].pc /\ boot'[t].user = boot[t].user
              /\ boot'[t].profile = boot[t].profile
          BY <4>1, CrossTyped
        <4>3. BlankWhileBooting(t)'
          BY <3>4, <4>2 DEF BlankWhileBooting
        <4>4. booted[t] # Undecided
          BY <3>4, NobodyAssumption DEF Who
        <4>5. ASSUME ~rerender[t] PROVE BootKnows(t)' /\ ScreenKnows(t)'
          <5>1. BootKnows(t) /\ ScreenKnows(t)
            BY <4>5 DEF Knows
          <5>2. BootKnows(t)'
            BY <3>4, <4>1, <4>2, <4>4, <5>1 DEF BootKnows, Reading, Warned
          <5>3. ScreenKnows(t)'
            BY <3>4, <4>1, <4>4, <5>1 DEF ScreenKnows, RightFor, Sees, Claims, Warned
          <5> QED
            BY <5>2, <5>3
        <4> QED
          BY <3>4, <4>1, <4>3, <4>5, CrossingsOfStores DEF Knows
      <3> QED
        BY <3>2, <3>3, <3>4
    <2> QED
      BY <1>3, <1>7, <2>1, <2>2 DEF AdoptionEnds
  <1> QED
    BY <1>1, <1>2, <1>5, <1>6, <1>7 DEF Outside

\* What a person does at a tab leaves its claim to know, or starts it anew.
LEMMA ActsKnow ==
    ASSUME TypeOK, NEW t \in Tabs, ActsAt(t), NEW s \in Tabs,
           BlankWhileBooting(s), CountsCrossings(s), Knows(s)
    PROVE  BlankWhileBooting(s)' /\ CountsCrossings(s)' /\ Knows(s)'
  <1> USE DEF shared, events
  <1>1. UNCHANGED <<session, authEvents, boot>> /\ IsSent(s) /\ IsCounted(s)
    BY DEF ActsAt, SignIn, SelectOrganization, SignOut, Retry, SwitchOrganization,
       AcceptInvitation, DeclineInvitation, IsSent, IsCounted
  <1>2. CountsCrossings(s)'
    BY <1>1 DEF CountsCrossings
  <1>3. ASSUME UNCHANGED <<screen[s], booted[s], rerender[s]>>
        PROVE  BlankWhileBooting(s)' /\ Knows(s)'
    BY <1>1, <1>3, RestingTabsKnow DEF Rests
  <1>4. CASE s # t
    <2>1. UNCHANGED <<screen[s], booted[s], rerender[s]>>
      BY <1>4 DEF ActsAt, SignIn, SelectOrganization, SignOut, Retry, SwitchOrganization,
         AcceptInvitation, DeclineInvitation, Invalidate, Show, Retries, TypeOK
    <2> QED
      BY <1>2, <1>3, <2>1
  <1>5. CASE s = t
    <2>1. CASE SignOut(t)
      <3>1. /\ screen'[t] = Blank /\ booted'[t] = booted[t] /\ rerender'[t] = rerender[t]
        BY <2>1, ShowTyped, BlankTyped DEF SignOut, TypeOK
      <3>2. ScreenKnows(t)' /\ BlankWhileBooting(t)'
        BY <3>1, BlankTyped DEF ScreenKnows, RightFor, Sees, Claims, BlankWhileBooting
      <3>3. ~rerender[t] => BootKnows(t)'
        BY <1>1, <1>5, <3>1 DEF Knows, BootKnows, Warned
      <3> QED
        BY <1>2, <1>5, <3>1, <3>2, <3>3 DEF Knows
    <2>2. CASE \E u \in People : SignIn(t, u)
      BY <1>2, <1>3, <1>5, <2>2 DEF SignIn
    <2>3. CASE Retry(t)
      <3>1. rerender'[t] /\ screen'[t] = screen[t]
        BY <2>3 DEF Retry, Retries, TypeOK
      <3> QED
        BY <1>1, <1>2, <1>5, <3>1, RestartedTabsKnow
    <2>4. CASE Invalidate(t)
      <3>1. rerender'[t] /\ screen'[t] = Blank
        BY <2>4, ShowTyped, BlankTyped DEF Invalidate, Retries, TypeOK
      <3> QED
        BY <1>1, <1>2, <1>5, <3>1, RestartedTabsKnow
    <2> QED
      BY <2>1, <2>2, <2>3, <2>4
         DEF ActsAt, SelectOrganization, SwitchOrganization, AcceptInvitation, DeclineInvitation
  <1> QED
    BY <1>4, <1>5

\* An expired session is an event for every tab.
LEMMA ServerKnows ==
    ASSUME TypeOK, NEW s \in Tabs, BlankWhileBooting(s), CountsCrossings(s), Knows(s),
           Expire \/ \E u \in People, o \in Organizations : ChangeMembership(u, o)
    PROVE  BlankWhileBooting(s)' /\ CountsCrossings(s)' /\ Knows(s)'
  <1>1. CASE \E u \in People, o \in Organizations : ChangeMembership(u, o)
    <2>1. Rests(s) /\ IsSent(s) /\ IsCounted(s)
      BY <1>1 DEF ChangeMembership, events, tabVars, Rests, IsSent, IsCounted
    <2> QED
      BY <2>1, RestingTabsKnow, CrossingsAreCounted
  <1>2. CASE Expire
    <2>1. session' = Nobody /\ Nobody \in Who /\ Cross(Nobody)
          /\ UNCHANGED <<screen, booted, rerender>>
      BY <1>2 DEF Expire, Who
    <2>2. authEvents'[s] = Append(authEvents[s], Change(session'))
      BY <1>2, <2>1 DEF Expire
    <2>3. Rests(s) /\ IsSent(s) /\ IsCounted(s)
      BY <2>1, <2>2, CrossTyped DEF Rests, IsSent, IsCounted
    <2> QED
      BY <2>3, RestingTabsKnow, CrossingsAreCounted
  <1> QED
    BY <1>1, <1>2

\* What tabs know of the session survives every step.
LEMMA SessionInvHolds ==
    ASSUME TypeOK, SessionInv, [Next]_vars
    PROVE  SessionInv'
  <1>1. SUFFICES ASSUME NEW s \in Tabs
                 PROVE  BlankWhileBooting(s)' /\ CountsCrossings(s)' /\ Knows(s)'
    BY DEF SessionInv
  <1>2. BlankWhileBooting(s) /\ CountsCrossings(s) /\ Knows(s)
    BY DEF SessionInv
  <1>3. CASE UNCHANGED vars
    BY <1>2, <1>3 DEF vars, shared, events, tabVars, BlankWhileBooting, CountsCrossings, Knows,
       BootKnows, ScreenKnows, RightFor, Sees, Warned
  <1>4. ASSUME NEW t \in Tabs, BootStep(t)
        PROVE BlankWhileBooting(s)' /\ CountsCrossings(s)' /\ Knows(s)'
    BY <1>2, <1>4, BootsKnow, OthersRestInBoot, RestingTabsKnow, CrossingsAreCounted
  <1>5. ASSUME NEW t \in Tabs, Outside(t)
        PROVE BlankWhileBooting(s)' /\ CountsCrossings(s)' /\ Knows(s)'
    BY <1>2, <1>5, ListenersKnow, OthersRestOutside, RestingTabsKnow, CrossingsAreCounted
  <1> QED
    BY <1>2, <1>3, <1>4, <1>5, StepKinds, ActsKnow, ServerKnows

\* And is true at first, when nothing is shown.
LEMMA InitKnows == Init => SessionInv
  <1> SUFFICES ASSUME Init, NEW t \in Tabs
               PROVE  BlankWhileBooting(t) /\ CountsCrossings(t) /\ Knows(t)
    BY DEF SessionInv
  <1>1. screen[t] = Blank /\ booted[t] = Undecided /\ boot[t] = NewBoot(t)
    BY DEF Init
  <1>2. boot[t].pc \in {"link", "session"}
    BY <1>1, NewBootTyped
  <1>3. ScreenKnows(t) /\ BootKnows(t)
    BY <1>1, <1>2, BlankTyped DEF ScreenKnows, BootKnows, RightFor, Sees, Claims, Reading
  <1> QED
    BY <1>1, <1>2, <1>3 DEF BlankWhileBooting, CountsCrossings, Knows, Reading

-----------------------------------------------------------------------------
(* Companies.                                                              *)

\* At first people are in their companies, and nothing is shown.
LEMMA InitOwns == Init => CompaniesInv
  <1> SUFFICES ASSUME Init PROVE CompaniesInv
    OBVIOUS
  <1>1. \A u \in People : active[u] \subseteq Companies[u]
    BY DEF Init
  <1>2. RemembersOwnCompany
    BY DEF Init, RemembersOwnCompany, Preference
  <1>3. ASSUME NEW t \in Tabs PROVE BootsOwnCompanies(t) /\ ShowsOwnCompanies(t)
    <2>1. screen[t] = Blank /\ boot[t].pc \in {"link", "session"}
      BY NewBootTyped DEF Init
    <2> QED
      BY <2>1, BlankTyped DEF BootsOwnCompanies, ShowsOwnCompanies, Sees, Reading
  <1> QED
    BY <1>1, <1>2, <1>3 DEF CompaniesInv

\* A tab that rests, or has been emptied, still shows only its person's companies.
LEMMA RestingTabsOwn ==
    ASSUME NEW s \in Tabs, BootsOwnCompanies(s), ShowsOwnCompanies(s),
           boot'[s].pc = boot[s].pc, boot'[s].user = boot[s].user,
           boot'[s].outcome = boot[s].outcome, boot'[s].choices = boot[s].choices,
           boot'[s].org = boot[s].org, screen'[s] \in {screen[s], Blank}
    PROVE  BootsOwnCompanies(s)' /\ ShowsOwnCompanies(s)'
  BY BlankTyped DEF BootsOwnCompanies, ShowsOwnCompanies, Sees

\* A tab without a company shows nobody else's.
LEMMA FreshTabsOwn ==
    ASSUME NEW s \in Tabs, screen'[s].phase \notin {"READY", "ORGANIZATION_SELECTION"},
           boot'[s].pc \in {"link", "whose", "session", "done"}
    PROVE  BootsOwnCompanies(s)' /\ ShowsOwnCompanies(s)'
  BY DEF BootsOwnCompanies, ShowsOwnCompanies, Sees, Reading

\* What a boot may choose from and publish belongs to its user.
LEMMA BootsOwn ==
    ASSUME BootInv, NEW t \in Tabs, BootStep(t)
    PROVE  BootsOwnCompanies(t)' /\ ShowsOwnCompanies(t)' /\ RemembersOwnCompany'
  <1> USE DEF shared, events
  <1>0. /\ TypeOK /\ RemembersOwnCompany
        /\ boot[t] \in Boots /\ session \in Who /\ screen[t] \in Screens
        /\ BootsOwnCompanies(t) /\ ShowsOwnCompanies(t) /\ BlankWhileBooting(t)
        /\ \A u \in People : active[u] \in SUBSET Organizations /\ active[u] \subseteq Companies[u]
    BY DEF BootInv, TypeOK, CompaniesInv, SessionInv
  <1>a. UNCHANGED preference => RemembersOwnCompany'
    BY <1>0 DEF RemembersOwnCompany
  <1>1. CASE Rerender(t)
    <2>1. screen'[t] = Blank /\ boot'[t] = NewBoot(t) /\ UNCHANGED preference
      BY <1>0, <1>1, ShowTyped, BlankTyped DEF Rerender, TypeOK
    <2> QED
      BY <1>a, <2>1, NewBootTyped, BlankTyped, FreshTabsOwn
  <1>2. CASE CheckLink(t)
    <2>1. CASE Show(t, Screen("INVITATION_CHECK_FAILED", Nobody), booted[t]) /\ Finish(t)
      <3>1. /\ Screen("INVITATION_CHECK_FAILED", Nobody) \in Screens
            /\ Screen("INVITATION_CHECK_FAILED", Nobody).phase = "INVITATION_CHECK_FAILED"
            /\ booted[t] \in Who \cup {Undecided}
        BY <1>0, ScreenTyped DEF Phases, Who, TypeOK
      <3> QED
        BY <1>0, <1>2, <1>a, <2>1, <3>1, ShowTyped, FinishTyped, BootedTyped, FreshTabsOwn
           DEF CheckLink
    <2>2. CASE UNCHANGED <<screen, booted>> /\ \E pc \in {"whose", "session"} : Advance(t, pc)
      <3>1. PICK pc \in {"whose", "session"} : boot'[t] = [boot[t] EXCEPT !.pc = pc]
        BY <1>0, <2>2, AdvanceTyped DEF BootSteps
      <3>2. boot'[t].pc = pc
        BY <1>0, <3>1 DEF Boots
      <3>3. screen'[t] = Blank
        BY <1>0, <1>2, <2>2 DEF BlankWhileBooting, CheckLink, At
      <3> QED
        BY <1>2, <1>a, <3>2, <3>3, BlankTyped, FreshTabsOwn DEF CheckLink
    <2> QED
      BY <1>2, <2>1, <2>2 DEF CheckLink
  <1>3. CASE AskAboutLink(t)
    <2>1. /\ Screen("INVITATION_CONFIRMATION", session) \in Screens
          /\ Screen("INVITATION_CONFIRMATION", session).phase = "INVITATION_CONFIRMATION"
          /\ booted[t] \in Who \cup {Undecided}
      BY <1>0, ScreenTyped DEF Phases, TypeOK
    <2> QED
      BY <1>0, <1>3, <1>a, <2>1, ShowTyped, FinishTyped, BootedTyped, FreshTabsOwn
         DEF AskAboutLink
  <1>4. ASSUME NEW phase \in Phases \ {"READY", "ORGANIZATION_SELECTION"}, NEW who \in Who,
               Stop(t, phase, who)
        PROVE  BootsOwnCompanies(t)' /\ ShowsOwnCompanies(t)'
    <2>1. screen'[t] = Screen(phase, who) /\ boot'[t] = Booted
      BY <1>0, <1>4, StopTyped
    <2> QED
      BY <2>1, ScreenTyped, BootedTyped, FreshTabsOwn
  <1>5. CASE ReadSession(t)
    <2>1. CASE \/ Stop(t, "UNAVAILABLE", Nobody) \/ Stop(t, "SIGNED_OUT", session)
               \/ Stop(t, "SIGNED_OUT", Nobody)
      BY <1>0, <1>4, <1>5, <1>a, <2>1 DEF Who, Phases, ReadSession
    <2>2. CASE /\ session # Nobody /\ UNCHANGED <<screen, booted, force>>
               /\ boot' = [boot EXCEPT ![t] =
                    [@ EXCEPT !.pc = "profile", !.user = session, !.crossed = 0,
                              !.forced = IF boot[t].try = 1 THEN force[t] ELSE boot[t].forced]]
      <3>1. boot'[t].pc = "profile" /\ boot'[t].user = session /\ session \in People
        BY <1>0, <2>2 DEF TypeOK, Boots, Who
      <3>2. screen'[t] = Blank
        BY <1>0, <1>5, <2>2 DEF BlankWhileBooting, ReadSession, At
      <3> QED
        BY <1>5, <1>a, <3>1, <3>2, BlankTyped
           DEF BootsOwnCompanies, ShowsOwnCompanies, Sees, ReadSession
    <2> QED
      BY <1>5, <2>1, <2>2 DEF ReadSession
  <1>6. ASSUME Fails(t),
               boot[t].pc \in Reading, screen'[t] = screen[t]
        PROVE  BootsOwnCompanies(t)' /\ ShowsOwnCompanies(t)'
    <2>1. PICK outcome \in ReadFailures :
            boot'[t] = [boot[t] EXCEPT !.pc = "recheck", !.outcome = outcome,
                                       !.profile = Nobody, !.choices = {}]
      BY <1>0, <1>6, StopsTyped DEF Fails
    <2>2. /\ boot'[t].pc = "recheck" /\ boot'[t].outcome = outcome
          /\ boot'[t].user = boot[t].user /\ boot'[t].choices = {}
      BY <1>0, <2>1 DEF Boots
    <2>3. screen'[t] = Blank
      BY <1>0, <1>6 DEF BlankWhileBooting, Reading
    <2> QED
      BY SMTT(30), <1>0, <1>6, <2>2, <2>3, BlankTyped
         DEF BootsOwnCompanies, ShowsOwnCompanies, Sees, Reading, ReadFailures, SessionFailures
  <1>7. CASE ReadProfile(t)
    <2>1. boot[t].pc = "profile" /\ screen'[t] = screen[t] /\ UNCHANGED preference
      BY <1>7 DEF ReadProfile, At
    <2>2. CASE Fails(t)
      BY <1>6, <1>a, <2>1, <2>2 DEF Reading
    <2>3. CASE boot' = [boot EXCEPT ![t] = [@ EXCEPT !.pc = "memberships", !.profile = session]]
      <3>1. boot'[t].pc = "memberships" /\ boot'[t].user = boot[t].user
        BY <1>0, <2>3 DEF TypeOK, Boots
      <3>2. screen'[t] = Blank
        BY <1>0, <2>1 DEF BlankWhileBooting
      <3> QED
        BY <1>0, <1>a, <2>1, <3>1, <3>2, BlankTyped
           DEF BootsOwnCompanies, ShowsOwnCompanies, Sees, Reading
    <2> QED
      BY <1>7, <2>2, <2>3, FailuresFail DEF ReadProfile
  <1>8. CASE ReadMemberships(t)
    <2>1. boot[t].pc = "memberships" /\ screen'[t] = screen[t] /\ UNCHANGED preference
      BY <1>8 DEF ReadMemberships, At
    <2>2. CASE Fails(t)
      BY <1>6, <1>a, <2>1, <2>2 DEF Reading
    <2>3. CASE boot' = [boot EXCEPT ![t] =
                 [@ EXCEPT !.pc = "organizations",
                           !.choices = OwnMemberships(boot[t].user, session)]]
      <3>1. /\ boot'[t].pc = "organizations" /\ boot'[t].user = boot[t].user
            /\ boot'[t].choices = OwnMemberships(boot[t].user, session)
        BY <1>0, <2>3 DEF TypeOK, Boots
      <3>2. boot[t].user \in People
        BY <1>0, <2>1 DEF BootsOwnCompanies, Reading
      <3>3. OwnMemberships(boot[t].user, session) \subseteq Companies[boot[t].user]
        BY <1>0, <3>2 DEF OwnMemberships
      <3>4. screen'[t] = Blank
        BY <1>0, <2>1 DEF BlankWhileBooting
      <3> QED
        BY <1>a, <2>1, <3>1, <3>2, <3>3, <3>4, BlankTyped
           DEF BootsOwnCompanies, ShowsOwnCompanies, Sees
    <2> QED
      BY <1>8, <2>2, <2>3, FailuresFail DEF ReadMemberships
  <1>9. CASE ReadOrganizations(t)
    <2> DEFINE d == Decide(boot[t].choices, Remembered(boot[t].user), boot[t].forced)
    <2>1. boot[t].pc = "organizations" /\ screen'[t] = screen[t] /\ UNCHANGED preference
      BY <1>9 DEF ReadOrganizations, At
    <2>2. CASE Fails(t)
      BY <1>6, <1>a, <2>1, <2>2 DEF Reading
    <2>3. CASE boot' = [boot EXCEPT ![t] =
                 [@ EXCEPT !.pc = "recheck", !.outcome = d.outcome, !.org = d.org]]
      <3>0. /\ d.outcome = "READY" => d.org \in boot[t].choices
            /\ d.outcome = "ORGANIZATION_SELECTION" => boot[t].choices # {}
        BY <1>0, DecideTyped DEF TypeOK, Boots
      <3> HIDE DEF d
      <3>1. /\ boot'[t].pc = "recheck" /\ boot'[t].user = boot[t].user
            /\ boot'[t].choices = boot[t].choices
            /\ boot'[t].outcome = d.outcome /\ boot'[t].org = d.org
        BY <1>0, <2>3 DEF TypeOK, Boots
      <3>2. screen'[t] = Blank
        BY <1>0, <2>1 DEF BlankWhileBooting
      <3> QED
        BY <1>0, <1>a, <2>1, <3>0, <3>1, <3>2, BlankTyped
           DEF BootsOwnCompanies, ShowsOwnCompanies, Sees, Reading
    <2> QED
      BY <1>9, <2>2, <2>3, FailuresFail DEF ReadOrganizations
  <1>10. CASE Recheck(t)
    <2>1. /\ boot[t].pc = "recheck" /\ boot[t].user \in People
          /\ boot[t].choices \subseteq Companies[boot[t].user] /\ screen[t] = Blank
      BY <1>0, <1>10 DEF Recheck, At, BootsOwnCompanies, BlankWhileBooting, Reading
    <2>2. CASE /\ \/ Stop(t, "UNAVAILABLE", boot[t].user) \/ Stop(t, "UNAVAILABLE", Nobody)
                  \/ Stop(t, "SIGNED_OUT", session)
               /\ UNCHANGED preference
      BY <1>0, <1>4, <1>a, <2>1, <2>2 DEF Who, Phases
    <2>3. CASE /\ MayTryAgain(t) /\ UNCHANGED <<screen, preference>>
               /\ boot' = [boot EXCEPT ![t] = [@ EXCEPT !.pc = "session", !.try = boot[t].try + 1]]
      <3>1. boot'[t].pc = "session"
        BY <1>0, <2>3 DEF TypeOK, Boots
      <3> QED
        BY <1>a, <2>1, <2>3, <3>1, BlankTyped, FreshTabsOwn
    <2>4. CASE Publish(t)
      <3>1. CASE boot[t].outcome = "ORGANIZATION_SELECTION"
        <4> DEFINE s == [Screen(boot[t].outcome, boot[t].user) EXCEPT !.choices = boot[t].choices]
        <4>1. /\ s \in Screens /\ s.phase = "ORGANIZATION_SELECTION" /\ s.user = boot[t].user
              /\ s.choices = boot[t].choices
          BY <1>0, <2>1, <3>1, ScreenTyped DEF Screens, Boots, Phases, Who
        <4>2. Show(t, s, boot[t].user) /\ Finish(t) /\ UNCHANGED preference
          BY <2>4, <3>1 DEF Publish
        <4> HIDE DEF s
        <4>3. screen'[t] = s /\ boot'[t].pc = "done"
          BY <1>0, <2>1, <4>1, <4>2, ShowTyped, FinishTyped, BootedTyped DEF Who
        <4> QED
          BY <1>a, <2>1, <4>1, <4>2, <4>3 DEF BootsOwnCompanies, ShowsOwnCompanies, Sees, Reading
      <3>2. CASE boot[t].outcome = "READY"
        <4>1. /\ Show(t, Blank, boot[t].user) /\ Advance(t, "inspect")
              /\ preference' = Preference(boot[t].user, boot[t].org)
          BY <2>1, <2>4, <3>2 DEF Publish, Remember
        <4>2. boot[t].org \in boot[t].choices
          BY <1>0, <2>1, <3>2 DEF BootsOwnCompanies
        <4>3. screen'[t] = Blank
          BY <1>0, <2>1, <4>1, ShowTyped, BlankTyped DEF Who
        <4>4. boot'[t] = [boot[t] EXCEPT !.pc = "inspect"]
          BY <1>0, <4>1, AdvanceTyped DEF BootSteps
        <4>5. /\ boot'[t].pc = "inspect" /\ boot'[t].user = boot[t].user
              /\ boot'[t].choices = boot[t].choices /\ boot'[t].org = boot[t].org
          BY <1>0, <4>4 DEF Boots
        <4>6. RemembersOwnCompany'
          BY <2>1, <4>1, <4>2 DEF RemembersOwnCompany, Preference
        <4> QED
          BY <2>1, <4>2, <4>3, <4>5, <4>6, BlankTyped
             DEF BootsOwnCompanies, ShowsOwnCompanies, Sees
      <3>3. CASE boot[t].outcome \notin {"READY", "ORGANIZATION_SELECTION"}
        <4>1. Stop(t, boot[t].outcome, boot[t].user) /\ UNCHANGED preference
          BY <2>4, <3>3 DEF Publish
        <4>2. /\ boot[t].outcome \in Phases \ {"READY", "ORGANIZATION_SELECTION"}
              /\ boot[t].user \in Who
          BY <1>0, <2>1, <3>3 DEF Boots, Outcomes, ReadFailures, SessionFailures, Phases, Who
        <4> QED
          BY <1>4, <1>a, <4>1, <4>2
      <3> QED
        BY <3>1, <3>2, <3>3
    <2> QED
      BY <1>10, <2>2, <2>3, <2>4 DEF Recheck
  <1>11. CASE Inspect(t)
    <2> DEFINE s == [phase |-> "READY", user |-> boot[t].user, org |-> boot[t].org,
                     choices |-> boot[t].choices, profile |-> boot[t].profile]
    <2>1. s \in Screens /\ Show(t, s, booted[t]) /\ Finish(t) /\ UNCHANGED preference
      BY <1>0, <1>11 DEF Inspect, Screens, Boots, Phases
    <2>2. /\ s.phase = "READY" /\ s.user = boot[t].user
          /\ s.org = boot[t].org /\ s.choices = boot[t].choices
      OBVIOUS
    <2>3. booted[t] \in Who \cup {Undecided} /\ boot[t].pc = "inspect"
      BY <1>0, <1>11 DEF TypeOK, Inspect, At
    <2> HIDE DEF s
    <2>4. screen'[t] = s /\ boot'[t].pc = "done"
      BY <1>0, <2>1, <2>3, ShowTyped, FinishTyped, BootedTyped
    <2> QED
      BY <1>0, <1>a, <2>1, <2>2, <2>3, <2>4 DEF BootsOwnCompanies, ShowsOwnCompanies, Sees, Reading
  <1> QED
    BY <1>1, <1>2, <1>3, <1>5, <1>7, <1>8, <1>9, <1>10, <1>11 DEF BootStep

\* Whose companies are chosen and shown survives every step.
LEMMA CompaniesInvHolds ==
    ASSUME BootInv, [Next]_vars
    PROVE  CompaniesInv'
  <1> USE DEF shared, events, tabVars, counts
  <1>0. /\ TypeOK /\ RemembersOwnCompany
        /\ \A s \in Tabs : BootsOwnCompanies(s) /\ ShowsOwnCompanies(s)
        /\ \A u \in People : active[u] \subseteq Companies[u]
    BY DEF BootInv, CompaniesInv
  <1>1. ASSUME UNCHANGED <<active, preference>>,
               \A s \in Tabs : BootsOwnCompanies(s)' /\ ShowsOwnCompanies(s)'
        PROVE  CompaniesInv'
    BY <1>0, <1>1 DEF CompaniesInv, RemembersOwnCompany
  <1>2. CASE UNCHANGED vars
    BY <1>0, <1>1, <1>2 DEF vars, BootsOwnCompanies, ShowsOwnCompanies, Sees
  <1>3. ASSUME NEW t \in Tabs, BootStep(t) PROVE CompaniesInv'
    <2>1. UNCHANGED active
      BY <1>3 DEF BootStep, Rerender, CheckLink, AskAboutLink, ReadSession, ReadProfile,
         ReadMemberships, ReadOrganizations, Recheck, Inspect
    <2>2. BootsOwnCompanies(t)' /\ ShowsOwnCompanies(t)' /\ RemembersOwnCompany'
      BY <1>3, BootsOwn
    <2>3. ASSUME NEW s \in Tabs, s # t PROVE BootsOwnCompanies(s)' /\ ShowsOwnCompanies(s)'
      BY <1>0, <1>3, <2>3, OthersRestInBoot, RestingTabsOwn DEF Rests
    <2> QED
      BY <1>0, <2>1, <2>2, <2>3 DEF CompaniesInv
  <1>4. ASSUME NEW t \in Tabs, Outside(t) PROVE CompaniesInv'
    <2>1. UNCHANGED <<active, preference>>
      BY <1>4 DEF Outside, HearAuth, HearStorage, SignInEnds, SignOutEnds, AdoptionEnds
    <2>2. ASSUME NEW s \in Tabs, s # t PROVE BootsOwnCompanies(s)' /\ ShowsOwnCompanies(s)'
      BY <1>0, <1>4, <2>2, OthersRestOutside, RestingTabsOwn DEF Rests
    <2>3. screen'[t] \in {screen[t], Blank}
      BY <1>0, <1>4 DEF Outside, HearAuth, HearStorage, SignInEnds, SignOutEnds, AdoptionEnds,
         Hear, Invalidate, Show, TypeOK
    <2>4. /\ boot'[t].pc = boot[t].pc /\ boot'[t].user = boot[t].user
          /\ boot'[t].outcome = boot[t].outcome /\ boot'[t].choices = boot[t].choices
          /\ boot'[t].org = boot[t].org
      <3>1. CASE UNCHANGED boot
        BY <3>1
      <3>2. ASSUME NEW who \in Who, Store(t, who)
            PROVE  /\ boot'[t].pc = boot[t].pc /\ boot'[t].user = boot[t].user
                   /\ boot'[t].outcome = boot[t].outcome /\ boot'[t].choices = boot[t].choices
                   /\ boot'[t].org = boot[t].org
        BY <1>0, <3>2, StoreTyped, CrossTyped
      <3>3. underway[t].of \in Who /\ Nobody \in Who
        BY <1>0 DEF TypeOK, Who
      <3> QED
        BY <1>4, <3>1, <3>2, <3>3
           DEF Outside, HearAuth, HearStorage, SignInEnds, SignOutEnds, AdoptionEnds
    <2>5. BootsOwnCompanies(t)' /\ ShowsOwnCompanies(t)'
      BY <1>0, <2>3, <2>4, RestingTabsOwn
    <2> QED
      BY <1>1, <2>1, <2>2, <2>5
  <1>5. ASSUME NEW t \in Tabs, ActsAt(t) PROVE CompaniesInv'
    <2>1. UNCHANGED <<active, boot>>
      BY <1>5 DEF ActsAt, SignIn, SelectOrganization, SignOut, Retry, SwitchOrganization,
         AcceptInvitation, DeclineInvitation
    <2>2. ASSUME NEW s \in Tabs PROVE screen'[s] \in {screen[s], Blank}
      BY <1>0, <1>5 DEF ActsAt, SignIn, SelectOrganization, SignOut, Retry, SwitchOrganization,
         AcceptInvitation, DeclineInvitation, Invalidate, Show, TypeOK
    <2>3. \A s \in Tabs : BootsOwnCompanies(s)' /\ ShowsOwnCompanies(s)'
      BY <1>0, <2>1, <2>2, RestingTabsOwn
    <2>4. RemembersOwnCompany'
      <3>1. ASSUME NEW o \in Organizations, SelectOrganization(t, o) PROVE RemembersOwnCompany'
        <4>1. /\ screen[t].user \in People /\ o \in Companies[screen[t].user]
              /\ preference' = Preference(screen[t].user, o)
          BY <1>0, <3>1 DEF SelectOrganization, Remember, ShowsOwnCompanies, Sees
        <4> QED
          BY <4>1 DEF RemembersOwnCompany, Preference
      <3>2. CASE UNCHANGED preference
        BY <1>0, <3>2 DEF RemembersOwnCompany
      <3> QED
        BY <1>5, <3>1, <3>2 DEF ActsAt, SignIn, SignOut, Retry, SwitchOrganization,
           AcceptInvitation, DeclineInvitation
    <2> QED
      BY <1>0, <2>1, <2>3, <2>4 DEF CompaniesInv
  <1>6. CASE Expire
    <2>1. UNCHANGED <<active, preference, screen>> /\ Cross(Nobody) /\ Nobody \in Who
      BY <1>6 DEF Expire, Who
    <2>2. ASSUME NEW s \in Tabs PROVE BootsOwnCompanies(s)' /\ ShowsOwnCompanies(s)'
      BY <1>0, <2>1, CrossTyped, RestingTabsOwn
    <2> QED
      BY <1>1, <2>1, <2>2
  <1>7. ASSUME NEW u \in People, NEW o \in Organizations, ChangeMembership(u, o) PROVE CompaniesInv'
    <2>1. UNCHANGED <<preference, screen, boot>> /\ o \in Companies[u]
      BY <1>7 DEF ChangeMembership
    <2>2. \A v \in People : active'[v] \subseteq Companies[v]
      BY <1>0, <1>7, <2>1 DEF ChangeMembership, TypeOK
    <2>3. \A s \in Tabs : BootsOwnCompanies(s)' /\ ShowsOwnCompanies(s)'
      BY <1>0, <2>1, RestingTabsOwn
    <2> QED
      BY <1>0, <2>1, <2>2, <2>3 DEF CompaniesInv, RemembersOwnCompany
  <1> QED
    BY <1>2, <1>3, <1>4, <1>5, <1>6, <1>7, StepKinds

-----------------------------------------------------------------------------
(* The theorems.                                                           *)

\* The invariant of the tabs: types, what a boot and a screen know of the session,
\* and whose companies they are of (useApplicationBoot, bootstrapCloudSession).
THEOREM TabsAreSound == Spec => []BootInv
  <1>1. Init => BootInv
    BY InitTyped, InitKnows, InitOwns DEF BootInv
  <1>2. BootInv /\ [Next]_vars => BootInv'
    BY StepTyped, SessionInvHolds, CompaniesInvHolds DEF BootInv
  <1> QED
    BY <1>1, <1>2, PTL DEF Spec

\* A tab that has heard everything shows the person who is signed in, with that
\* person's profile, and the sign-in form to nobody but whoever its boot was refused
\* for: only what waits can be of somebody else.
THEOREM SettledTabsAreRight == Spec => []SettledTabsShowTheSession
  <1>1. BootInv => SettledTabsShowTheSession
    <2>1. SUFFICES ASSUME BootInv, NEW t \in Tabs, Settled(t)
                   PROVE  /\ Sees(t, {"READY", "ORGANIZATION_SELECTION", "NO_MEMBERSHIP",
                                      "INVITATION_CONFIRMATION"}) => screen[t].user = session
                          /\ Sees(t, {"READY"}) => screen[t].profile = session
                          /\ Sees(t, {"SIGNED_OUT"}) => session \in {Nobody, screen[t].user}
      BY DEF SettledTabsShowTheSession
    <2>2. ScreenKnows(t)
      BY <2>1 DEF BootInv, SessionInv, Knows, Settled
    <2>3. \A who : ~Warned(t, who)
      BY <2>1 DEF Settled, Warned, SaysOther
    <2> QED
      BY <2>2, <2>3 DEF ScreenKnows, RightFor, Sees, Claims
  <1> QED
    BY <1>1, TabsAreSound, PTL

\* What the recheck (boot.ts) lets pass was read across no change of person, or
\* across more than one.
THEOREM RecheckNoticesOneChange == Spec => OneChangeIsNoticed
  <1> DEFINE Noticed == \A t \in Tabs :
                 /\ boot[t].pc = "recheck"
                 /\ \/ boot'[t].pc = "inspect"
                    \/ screen'[t].phase \in {"ORGANIZATION_SELECTION", "NO_MEMBERSHIP"}
                 => boot[t].crossed # 1
  <1>1. BootInv /\ [Next]_vars => [Noticed]_vars
    <2>1. SUFFICES ASSUME BootInv, Next, NEW t \in Tabs,
                          boot[t].pc = "recheck", boot[t].crossed = 1,
                          \/ boot'[t].pc = "inspect"
                          \/ screen'[t].phase \in {"ORGANIZATION_SELECTION", "NO_MEMBERSHIP"}
                   PROVE  FALSE
      BY DEF Noticed
    <2>2. /\ TypeOK /\ BlankWhileBooting(t) /\ CountsCrossings(t) /\ BootInv
      BY <2>1 DEF BootInv, SessionInv
    <2>3. screen[t] = Blank /\ session # boot[t].user /\ boot[t] \in Boots
      BY <2>1, <2>2 DEF BlankWhileBooting, CountsCrossings, Reading, TypeOK
    <2>4. ASSUME screen'[t] = Blank, boot'[t].pc = "recheck" PROVE FALSE
      BY <2>1, <2>4, BlankTyped
    <2>5. ASSUME NEW s \in Tabs, BootStep(s), s # t PROVE FALSE
      BY <2>1, <2>2, <2>3, <2>4, <2>5, OthersRestInBoot DEF Rests
    <2>6. CASE Recheck(t)
      <3>1. CASE \/ Stop(t, "UNAVAILABLE", boot[t].user) \/ Stop(t, "UNAVAILABLE", Nobody)
                 \/ Stop(t, "SIGNED_OUT", session)
        <4>1. /\ boot[t].user \in Who /\ Nobody \in Who /\ session \in Who
              /\ "UNAVAILABLE" \in Phases /\ "SIGNED_OUT" \in Phases
          BY <2>2, <2>3 DEF Boots, Who, Phases, TypeOK
        <4>2. screen'[t].phase \in {"UNAVAILABLE", "SIGNED_OUT"} /\ boot'[t].pc = "done"
          BY <2>2, <3>1, <4>1, StopTyped, ScreenTyped, BootedTyped
        <4> QED
          BY <2>1, <4>2
      <3>2. CASE UNCHANGED screen /\ boot' = [boot EXCEPT ![t] =
                   [@ EXCEPT !.pc = "session", !.try = boot[t].try + 1]]
        <4>1. boot'[t].pc = "session" /\ screen'[t] = Blank
          BY <2>2, <2>3, <3>2 DEF TypeOK, Boots
        <4> QED
          BY <2>1, <4>1, BlankTyped
      <3> QED
        BY <2>3, <2>6, <3>1, <3>2 DEF Recheck, StillTheSession
    <2>7. CASE Rerender(t)
      <3>1. screen'[t] = Blank /\ boot'[t].pc \in {"link", "session"}
        BY <2>2, <2>7, ShowTyped, BlankTyped, NewBootTyped DEF Rerender, TypeOK
      <3> QED
        BY <2>1, <3>1, BlankTyped
    <2>8. CASE BootStep(t)
      BY <2>1, <2>6, <2>7, <2>8 DEF BootStep, CheckLink, AskAboutLink, ReadSession, ReadProfile,
         ReadMemberships, ReadOrganizations, Inspect, At
    <2>9. ASSUME NEW s \in Tabs, Outside(s) \/ ActsAt(s) PROVE FALSE
      <3>1. screen'[t] \in {screen[t], Blank}
        BY <2>2, <2>9 DEF Outside, HearAuth, HearStorage, SignInEnds, SignOutEnds, AdoptionEnds,
           Hear, ActsAt, SignIn, SelectOrganization, SignOut, Retry, SwitchOrganization,
           AcceptInvitation, DeclineInvitation, Invalidate, Show, TypeOK
      <3>2. boot'[t].pc = boot[t].pc
        <4>1. CASE UNCHANGED boot
          BY <4>1
        <4>2. ASSUME NEW who \in Who, Store(s, who) PROVE boot'[t].pc = boot[t].pc
          BY <2>2, <4>2, StoreTyped, CrossTyped
        <4>3. underway[s].of \in Who /\ Nobody \in Who
          BY <2>2 DEF TypeOK, Who
        <4> QED
          BY <2>9, <4>1, <4>2, <4>3
             DEF Outside, HearAuth, HearStorage, SignInEnds, SignOutEnds, AdoptionEnds,
             ActsAt, SignIn, SelectOrganization, SignOut, Retry, SwitchOrganization,
             AcceptInvitation, DeclineInvitation
      <3> QED
        BY <2>1, <2>3, <2>4, <3>1, <3>2
    <2>10. CASE Expire \/ \E u \in People, o \in Organizations : ChangeMembership(u, o)
      <3>1. screen'[t] = screen[t]
        BY <2>10 DEF Expire, ChangeMembership, tabVars
      <3>2. boot'[t].pc = boot[t].pc
        BY <2>2, <2>10, CrossTyped DEF Expire, ChangeMembership, tabVars, Who
      <3> QED
        BY <2>1, <2>3, <2>4, <3>1, <3>2
    <2> QED
      BY <2>1, <2>5, <2>8, <2>9, <2>10, StepKinds
  <1> QED
    BY <1>1, TabsAreSound, PTL DEF Spec, OneChangeIsNoticed

\* Nobody enters, is offered or is remembered in a company they never belonged to.
THEOREM NobodyEntersElsewhere == Spec => []EntersOnlyOwnCompanies
  <1>1. BootInv => EntersOnlyOwnCompanies
    BY DEF BootInv, CompaniesInv, ShowsOwnCompanies, RemembersOwnCompany, EntersOnlyOwnCompanies,
       Sees
  <1> QED
    BY <1>1, TabsAreSound, PTL

-----------------------------------------------------------------------------
(* The database and its upgrades.                                          *)

VersionOf(db) == IF db = Missing THEN 0 ELSE db.version
RecordsOf(db) == IF db = Missing THEN NoRecords ELSE db.records
IndexesOf(db) == IF db = Missing THEN {} ELSE db.indexes

\* What the migrations have done so far, from a version to another.
Dropped(from, to) == UNION {Drops[s] : s \in SelectMigrations(from, to)}

\* A record is rewritten, and no longer the one that was stored.
IsKept(old, new) ==
    /\ old = Missing <=> new = Missing
    /\ old # Missing => new.born = old.born /\ old.steps \subseteq new.steps

\* The records a migration has still to rewrite.
Ahead(cursors) == UNION {c.left \cup ({c.key} \ {Missing}) : c \in cursors}

CursorInv(c, u) ==
    /\ c.step = u.level /\ c.store \in Rewrites[u.level] /\ c.key \notin c.left
    /\ \A k \in c.left : StoreOf[k] = c.store /\ u.records[k] # Missing
    /\ c.key # Missing =>
         /\ StoreOf[c.key] = c.store /\ u.records[c.key] # Missing
         /\ c.value = Transformed(u.records[c.key], c.step)

CursorsInv(u) ==
    /\ \A c \in u.cursors : CursorInv(c, u)
    /\ \A c, d \in u.cursors : c.store = d.store => c = d

\* The version each record of a draft is at.
ShapesInv(u) ==
    \A k \in Keys :
        HasShape(k, u.records[k], IF k \in Ahead(u.cursors) THEN u.level - 1 ELSE u.level)

\* What a draft takes from the database it is of.
DerivedFrom(u, db) ==
    /\ \A k \in Keys : IsKept(RecordsOf(db)[k], u.records[k])
    /\ u.indexes = (IndexesOf(db) \cup Declared[BuildOf[u.page]]) \ Dropped(VersionOf(db), u.level)
    /\ u.stamp = "done" =>
         /\ u.meta # Missing /\ u.meta.schemaVersion = BuildOf[u.page]
         /\ db # Missing => u.meta.installId = db.meta.installId

Draft(u, db) ==
    /\ u.level \in VersionOf(db) + 1 .. BuildOf[u.page]
    /\ u.cursors = {} => u.level = BuildOf[u.page]
    /\ CursorsInv(u) /\ ShapesInv(u) /\ DerivedFrom(u, db)

DraftInv == IsRunning => Draft(upgrade, stored)

\* An upgrade goes up, and has the database for itself.
AloneInv ==
    upgrade # Missing =>
        /\ VersionOf(stored) < NewVersion
        /\ upgrade.running => strays = {} /\ \A p \in Pages : connection[p] = "none"
        /\ ~upgrade.running => upgrade.cursors = {} /\ upgrade.stamp = "get"

SchemaInv == UpgradeTypeOK /\ DatabaseIsOfItsVersion /\ AloneInv /\ DraftInv

-----------------------------------------------------------------------------
(* Versions, migrations and indexes.                                       *)

LEMMA LeastOf ==
    ASSUME NEW S \in SUBSET Nat, S # {}
    PROVE  Min(S) \in S /\ \A n \in S : Min(S) <= n
  <1> DEFINE R == OpToRel(<, Nat)
  <1>1. PICK m \in S : \A n \in S : ~(<<n, m>> \in R)
    <2> HIDE DEF R
    <2>1. IsWellFoundedOn(R, Nat)
      BY NatLessThanWellFounded DEF R
    <2> QED  BY <2>1, WFMin
  <1>2. \A n \in S : m <= n
    <2> TAKE n \in S
    <2>1. n \in Nat /\ m \in Nat
      OBVIOUS
    <2>2. <<n, m>> \in R <=> n < m
      BY <2>1 DEF OpToRel
    <2> HIDE DEF R
    <2> QED  BY <1>1, <2>1, <2>2
  <1> QED  BY <1>1, <1>2 DEF Min

LEMMA VersionFacts ==
    /\ Latest \in Nat /\ \A v \in Versions : v \in Nat /\ 1 <= v /\ v <= Latest
    /\ \A s \in Steps : s \in Nat /\ 2 <= s /\ s <= Latest /\ s \in Versions /\ s - 1 \in Versions
    /\ \A p \in Pages : BuildOf[p] \in Versions
    /\ \A s \in Steps : Drops[s] \subseteq Indexes /\ Rewrites[s] \subseteq {StoreOf[k] : k \in Keys}
    /\ \A v \in Versions : Declared[v] \subseteq Indexes
  BY UpgradeAssumption DEF Versions, Steps

\* The indexes a version no longer declares have been dropped on the way to it.
LEMMA DroppedOnTheWay ==
    ASSUME NEW from \in Versions, NEW to \in Versions, from <= to
    PROVE  /\ Declared[from] \ Declared[to] \subseteq Dropped(from, to)
           /\ Dropped(from, to) \cap Declared[to] = {}
  <1>1. ASSUME NEW i \in Declared[from] \ Declared[to] PROVE i \in Dropped(from, to)
    <2> DEFINE without == {v \in from .. to : i \notin Declared[v]}
    <2>1. to \in without /\ without \in SUBSET Nat
      BY <1>1, VersionFacts
    <2> DEFINE v == Min(without)
    <2>2. v \in without /\ \A n \in without : v <= n
      BY <2>1, LeastOf
    <2> HIDE DEF v
    <2>3. v \in from .. to /\ i \notin Declared[v] /\ v # from
      BY <1>1, <2>2
    <2>4. v \in Steps /\ v - 1 \in from .. to /\ v \in SelectMigrations(from, to)
      BY <2>3, VersionFacts DEF Steps, Versions, SelectMigrations
    <2>5. i \in Declared[v - 1]
      BY <2>2, <2>4, VersionFacts
    <2>6. i \in Drops[v]
      BY <2>3, <2>4, <2>5, DropsAssumption
    <2> QED  BY <2>4, <2>6 DEF Dropped
  <1>2. ASSUME NEW i \in Dropped(from, to) PROVE i \notin Declared[to]
    <2>1. PICK s \in SelectMigrations(from, to) : i \in Drops[s]
      BY <1>2 DEF Dropped
    <2>2. s \in Steps /\ to \in s .. Latest
      BY <2>1, VersionFacts DEF SelectMigrations, Versions
    <2> QED  BY <2>1, <2>2, DropsAssumption
  <1> QED  BY <1>1, <1>2

\* A new database has nothing to drop that its version declares.
LEMMA NothingDeclaredIsDropped ==
    ASSUME NEW to \in Versions
    PROVE  Dropped(0, to) \cap Declared[to] = {}
  <1> SUFFICES ASSUME NEW i \in Dropped(0, to) PROVE i \notin Declared[to]
    OBVIOUS
  <1>1. PICK s \in SelectMigrations(0, to) : i \in Drops[s]
    BY DEF Dropped
  <1>2. s \in Steps /\ to \in s .. Latest
    BY <1>1, VersionFacts DEF SelectMigrations, Versions
  <1> QED  BY <1>1, <1>2, DropsAssumption

LEMMA DroppedAdds ==
    ASSUME NEW from \in Nat, NEW done \in Nat, NEW to \in Nat, from <= done, done <= to
    PROVE  Dropped(from, to) = Dropped(from, done) \cup Dropped(done, to)
  <1>1. SelectMigrations(from, to) = SelectMigrations(from, done) \cup SelectMigrations(done, to)
    BY VersionFacts DEF SelectMigrations
  <1> QED  BY <1>1 DEF Dropped

-----------------------------------------------------------------------------
(* Shapes.                                                                 *)

\* Migrations that leave a store alone leave its records in shape.
LEMMA ShapeHolds ==
    ASSUME NEW k \in Keys, NEW record, record # Missing => record \in Records,
           NEW from \in Nat, NEW to \in Nat, from <= to,
           HasShape(k, record, from),
           \A s \in Steps : from < s /\ s <= to => StoreOf[k] \notin Rewrites[s]
    PROVE  HasShape(k, record, to)
  BY VersionFacts DEF HasShape, Records, Versions

\* A migration brings a record to its version.
LEMMA ShapeAdvances ==
    ASSUME NEW k \in Keys, NEW record \in Records, NEW s \in Steps,
           HasShape(k, record, s - 1), StoreOf[k] \in Rewrites[s]
    PROVE  /\ Transformed(record, s) \in Records
           /\ Transformed(record, s) # Missing
           /\ HasShape(k, Transformed(record, s), s)
           /\ IsKept(record, Transformed(record, s))
  <1> DEFINE new == Transformed(record, s)
  <1>1. /\ record # Missing
        /\ record.born \in Versions /\ record.steps \subseteq Steps /\ record.inOrder \in BOOLEAN
    BY MissingIsNothing DEF Records
  <1>2. /\ record.born <= s - 1 /\ record.inOrder
        /\ record.steps = {t \in Steps : /\ record.born < t /\ t <= s - 1
                                         /\ StoreOf[k] \in Rewrites[t]}
    BY <1>1 DEF HasShape
  <1>3. \A earlier \in record.steps : earlier < s
    BY <1>2, VersionFacts
  <1>4. /\ new.born = record.born /\ new.steps = record.steps \cup {s}
        /\ new.inOrder = (record.inOrder /\ \A earlier \in record.steps : earlier < s)
        /\ new = [born |-> new.born, steps |-> new.steps, inOrder |-> new.inOrder]
    BY DEF Transformed
  <1>5. new.inOrder
    BY <1>2, <1>3, <1>4
  <1>6. new \in Records
    <2>1. new.inOrder \in BOOLEAN
      BY <1>1, <1>2, <1>3, <1>4
    <2>2. new.born \in Versions /\ new.steps \in SUBSET Steps
      BY <1>1, <1>4
    <2> HIDE DEF new
    <2> QED  BY <1>4, <2>1, <2>2 DEF Records
  <1>7. new # Missing
    BY <1>6, MissingIsNothing
  <1> HIDE DEF new
  <1>8. new.steps = {t \in Steps : /\ new.born < t /\ t <= s /\ StoreOf[k] \in Rewrites[t]}
    BY <1>1, <1>2, <1>4, VersionFacts
  <1>9. new.born <= s
    BY <1>1, <1>2, <1>4, VersionFacts
  <1>10. HasShape(k, new, s)
    BY <1>5, <1>8, <1>9 DEF HasShape
  <1>11. IsKept(record, new)
    BY <1>1, <1>4, <1>7 DEF IsKept
  <1> QED  BY <1>6, <1>7, <1>10, <1>11 DEF new

LEMMA KeptOnAndOn ==
    ASSUME NEW a, NEW b, NEW c, IsKept(a, b), IsKept(b, c)
    PROVE  IsKept(a, c)
  BY DEF IsKept

-----------------------------------------------------------------------------
(* runStep().                                                              *)

\* What a draft is when the migrations up to a version have been applied.
AppliedUpTo(u, db, done) ==
    /\ done \in VersionOf(db) .. BuildOf[u.page] /\ done \in Versions
    /\ \A k \in Keys : HasShape(k, u.records[k], done)
    /\ \A k \in Keys : IsKept(RecordsOf(db)[k], u.records[k])
    /\ u.indexes = (IndexesOf(db) \cup Declared[BuildOf[u.page]]) \ Dropped(VersionOf(db), done)
    /\ u.stamp = "done" =>
         /\ u.meta # Missing /\ u.meta.schemaVersion = BuildOf[u.page]
         /\ db # Missing => u.meta.installId = db.meta.installId

LEMMA RunStepsResult ==
    ASSUME NEW u \in Upgrades, NEW db \in Databases \cup {Missing}, NEW done \in Versions,
           upgrade # Missing, upgrade.page = u.page, u.cursors = {},
           VersionOf(db) < BuildOf[u.page], AppliedUpTo(u, db, done)
    PROVE  /\ RunSteps(u, done) \in Upgrades
           /\ RunSteps(u, done).page = u.page /\ RunSteps(u, done).running = u.running
           /\ Draft(RunSteps(u, done), db)
  <1> DEFINE new == BuildOf[u.page]
             due == {s \in SelectMigrations(done, new) : Rewrites[s] # {}}
             last == IF due = {} THEN new ELSE Min(due)
             r == RunSteps(u, done)
  <1>1. NewVersion = new /\ u.page \in Pages /\ new \in Versions /\ Versions \subseteq Nat
    BY VersionFacts DEF NewVersion, Upgrades
  <1>2. /\ last \in Versions /\ done <= last /\ last <= new
        /\ \A s \in Steps : done < s /\ s < last => Rewrites[s] = {}
        /\ due = {} => \A s \in Steps : done < s /\ s <= new => Rewrites[s] = {}
        /\ due # {} => last \in Steps /\ done < last /\ Rewrites[last] # {}
    <2>1. /\ \A s : s \in due <=> s \in Steps /\ done < s /\ s <= new /\ Rewrites[s] # {}
          /\ due = {} => last = new
          /\ due # {} => last = Min(due)
      BY DEF SelectMigrations
    <2> HIDE DEF new, due, last
    <2>2. CASE due = {}
      <3>1. \A s \in Steps : done < s /\ s <= new => Rewrites[s] = {}
        BY <2>1, <2>2
      <3>2. done <= new /\ last = new
        BY <1>1, <2>1, <2>2 DEF AppliedUpTo, new
      <3>3. \A s \in Steps : done < s /\ s < last => Rewrites[s] = {}
        BY <1>1, <3>1, <3>2, VersionFacts
      <3> QED  BY <1>1, <2>2, <3>1, <3>2, <3>3
    <2>3. CASE due # {}
      <3>1. due \in SUBSET Nat
        BY <2>1, VersionFacts
      <3>2. last \in due /\ \A n \in due : last <= n
        BY <2>1, <2>3, <3>1, LeastOf
      <3>3. last \in Steps /\ done < last /\ last <= new /\ Rewrites[last] # {}
        BY <2>1, <3>2
      <3>4. \A s \in Steps : done < s /\ s < last => Rewrites[s] = {}
        <4> SUFFICES ASSUME NEW s \in Steps, done < s, s < last, Rewrites[s] # {} PROVE FALSE
          OBVIOUS
        <4>1. s <= new
          BY <1>1, <3>3, VersionFacts
        <4>2. s \in due
          BY <2>1, <4>1
        <4> QED  BY <3>2, <3>3, <4>2, VersionFacts
      <3>5. last \in Versions /\ done <= last
        BY <1>1, <3>3, VersionFacts
      <3> QED  BY <2>3, <3>3, <3>4, <3>5
    <2> QED  BY <2>2, <2>3
  <1>3. r = [u EXCEPT !.level = last, !.indexes = u.indexes \ Dropped(done, last),
                      !.cursors = IF due = {} THEN {} ELSE Cursors(u.records, last)]
    BY <1>1 DEF RunSteps, Dropped
  <1> HIDE DEF new, due, last, r
  <1>4. /\ r.level = last /\ r.indexes = u.indexes \ Dropped(done, last)
        /\ r.cursors = IF due = {} THEN {} ELSE Cursors(u.records, last)
        /\ r.records = u.records /\ r.page = u.page /\ r.running = u.running
        /\ r.stamp = u.stamp /\ r.meta = u.meta
    BY <1>3 DEF Upgrades
  <1>5. /\ u.records \in [Keys -> Records \cup {Missing}] /\ u.indexes \subseteq Indexes
        /\ \A k \in Keys : u.records[k] # Missing => u.records[k] \in Records
    BY DEF Upgrades
  <1>6. \A s \in Steps : \A store \in Rewrites[s] :
          /\ Cursor(u.records, s, store) \in CursorTypes
          /\ Cursor(u.records, s, store).step = s /\ Cursor(u.records, s, store).store = store
          /\ Cursor(u.records, s, store).left = KeysIn(u.records, store)
          /\ Cursor(u.records, s, store).key = Missing
    BY VersionFacts DEF Cursor, CursorTypes, KeysIn
  <1>7. due # {} => Cursors(u.records, last) \in SUBSET CursorTypes
    BY <1>2, <1>6 DEF Cursors
  <1>8. r \in Upgrades
    <2>1. last \in 0 .. Latest
      BY <1>2, VersionFacts DEF Versions
    <2>2. r.cursors \in SUBSET CursorTypes
      BY <1>4, <1>7
    <2>3. u.indexes \ Dropped(done, last) \in SUBSET Indexes
      BY <1>5
    <2>4. (IF due = {} THEN {} ELSE Cursors(u.records, last)) \in SUBSET CursorTypes
      BY <1>4, <2>2
    <2> QED  BY <1>3, <2>1, <2>3, <2>4 DEF Upgrades
  <1>9. \A c \in r.cursors :
          /\ due # {} /\ c.step = last /\ c.store \in Rewrites[last] /\ c.key = Missing
          /\ c.left = KeysIn(u.records, c.store)
    BY <1>2, <1>4, <1>6 DEF Cursors
  <1>10. CursorsInv(r)
    <2>1. \A c \in r.cursors : CursorInv(c, r)
      BY <1>4, <1>9, MissingIsNothing DEF CursorInv, KeysIn
    <2>2. \A c, d \in r.cursors : c.store = d.store => c = d
      <3>1. \A c \in r.cursors : c = Cursor(u.records, last, c.store)
        BY <1>2, <1>4, <1>6 DEF Cursors
      <3> QED  BY <3>1
    <2> QED  BY <2>1, <2>2 DEF CursorsInv
  <1>11. ShapesInv(r)
    <2> SUFFICES ASSUME NEW k \in Keys
                 PROVE  HasShape(k, r.records[k],
                                 IF k \in Ahead(r.cursors) THEN r.level - 1 ELSE r.level)
      BY DEF ShapesInv
    <2>1. HasShape(k, u.records[k], done)
      BY DEF AppliedUpTo
    <2>2. k \in Ahead(r.cursors) <=>
            due # {} /\ StoreOf[k] \in Rewrites[last] /\ u.records[k] # Missing
      <3>1. k \in Ahead(r.cursors) =>
              due # {} /\ StoreOf[k] \in Rewrites[last] /\ u.records[k] # Missing
        BY <1>9 DEF Ahead, KeysIn
      <3>2. ASSUME due # {}, StoreOf[k] \in Rewrites[last], u.records[k] # Missing
            PROVE  k \in Ahead(r.cursors)
        <4> DEFINE c == Cursor(u.records, last, StoreOf[k])
        <4>1. c \in r.cursors /\ k \in c.left
          BY <1>2, <1>4, <1>6, <3>2 DEF Cursors, KeysIn
        <4> HIDE DEF c
        <4> QED  BY <4>1 DEF Ahead
      <3> QED  BY <3>1, <3>2
    <2>3. CASE k \in Ahead(r.cursors)
      <3>1. last - 1 \in Nat /\ done <= last - 1 /\ done \in Nat
        BY <1>1, <1>2, <2>2, <2>3, VersionFacts
      <3>2. \A s \in Steps : done < s /\ s <= last - 1 => StoreOf[k] \notin Rewrites[s]
        BY <1>2, <3>1, VersionFacts
      <3>3. HasShape(k, u.records[k], last - 1)
        BY <1>5, <2>1, <3>1, <3>2, ShapeHolds
      <3> QED  BY <1>4, <2>3, <3>3
    <2>4. CASE k \notin Ahead(r.cursors)
      <3>1. CASE u.records[k] = Missing
        BY <1>4, <3>1 DEF HasShape
      <3>2. CASE u.records[k] # Missing
        <4>1. \A s \in Steps : done < s /\ s <= last => StoreOf[k] \notin Rewrites[s]
          <5>1. due = {} => last = new
            BY DEF last
          <5> QED  BY <1>1, <1>2, <2>2, <2>4, <3>2, <5>1, VersionFacts
        <4>2. HasShape(k, u.records[k], last)
          BY <1>1, <1>2, <1>5, <2>1, <4>1, ShapeHolds
        <4> QED  BY <1>4, <2>4, <4>2
      <3> QED  BY <3>1, <3>2
    <2> QED  BY <2>3, <2>4
  <1>12. VersionOf(db) \in Nat /\ VersionOf(db) <= done
    BY <1>1 DEF VersionOf, AppliedUpTo, Databases
  <1>13. DerivedFrom(r, db)
    <2>1. Dropped(VersionOf(db), last) = Dropped(VersionOf(db), done) \cup Dropped(done, last)
      BY <1>1, <1>2, <1>12, DroppedAdds
    <2>2. r.indexes = (IndexesOf(db) \cup Declared[BuildOf[r.page]]) \ Dropped(VersionOf(db), last)
      BY <1>4, <2>1 DEF AppliedUpTo
    <2> QED  BY <1>4, <2>2 DEF AppliedUpTo, DerivedFrom
  <1>14. /\ r.level \in VersionOf(db) + 1 .. BuildOf[r.page]
         /\ r.cursors = {} => r.level = BuildOf[r.page]
    <2>1. r.cursors = {} => due = {}
      <3>1. ASSUME due # {} PROVE r.cursors # {}
        <4>1. PICK store \in Rewrites[last] : TRUE
          BY <1>2, <3>1
        <4>2. Cursor(u.records, last, store) \in r.cursors
          BY <1>4, <3>1, <4>1 DEF Cursors
        <4> QED  BY <4>2
      <3> QED  BY <3>1
    <2>2. due = {} => last = new
      BY DEF last
    <2>3. VersionOf(db) < last
      BY <1>1, <1>2, <1>12, <2>2, VersionFacts DEF new
    <2> QED  BY <1>1, <1>2, <1>4, <1>12, <2>1, <2>2, <2>3, VersionFacts DEF new
  <1>15. Draft(r, db)
    BY <1>10, <1>11, <1>13, <1>14 DEF Draft
  <1> QED  BY <1>4, <1>8, <1>15 DEF r
-----------------------------------------------------------------------------
(* The requests of the version-change transaction.                         *)

UpgradeUnchanged == <<stored, connection, strays, page, openings, failures>>

LEMMA DraftIsTyped ==
    ASSUME SchemaInv, IsRunning
    PROVE  /\ upgrade \in Upgrades /\ upgrade # Missing
           /\ upgrade.page \in Pages /\ NewVersion \in Versions
           /\ upgrade.records \in [Keys -> Records \cup {Missing}]
           /\ upgrade.cursors \subseteq CursorTypes
           /\ Draft(upgrade, stored) /\ stored \in Databases \cup {Missing}
           /\ VersionOf(stored) \in Nat /\ VersionOf(stored) < NewVersion
  BY VersionFacts DEF SchemaInv, UpgradeTypeOK, IsRunning, DraftInv, AloneInv, Upgrades,
     NewVersion, VersionOf, Databases

\* A step that changes only the draft keeps the invariant if it keeps the
\* draft's.
LEMMA DraftSteps ==
    ASSUME SchemaInv, IsRunning, UNCHANGED UpgradeUnchanged,
           upgrade' \in Upgrades, upgrade'.page = upgrade.page, upgrade'.running,
           Draft(upgrade', stored)
    PROVE  SchemaInv'
  <1>1. UpgradeTypeOK'
    BY DEF SchemaInv, UpgradeTypeOK, UpgradeUnchanged
  <1>2. DatabaseIsOfItsVersion'
    BY DEF SchemaInv, DatabaseIsOfItsVersion, UpgradeUnchanged
  <1>3. AloneInv'
    BY DEF SchemaInv, AloneInv, UpgradeUnchanged, NewVersion, IsRunning
  <1>4. DraftInv'
    BY DEF DraftInv, UpgradeUnchanged
  <1> QED  BY <1>1, <1>2, <1>3, <1>4 DEF SchemaInv

LEMMA StampMetaStep ==
    ASSUME SchemaInv, StampMeta
    PROVE  SchemaInv'
  <1>1. IsRunning /\ UNCHANGED UpgradeUnchanged
    BY DEF StampMeta, UpgradeUnchanged
  <1>2. /\ upgrade' \in Upgrades /\ upgrade'.page = upgrade.page /\ upgrade'.running
        /\ upgrade'.level = upgrade.level /\ upgrade'.records = upgrade.records
        /\ upgrade'.indexes = upgrade.indexes /\ upgrade'.cursors = upgrade.cursors
        /\ upgrade'.stamp = "done" =>
             /\ upgrade'.meta # Missing /\ upgrade'.meta.schemaVersion = NewVersion
             /\ stored # Missing => upgrade'.meta.installId = stored.meta.installId
    <2>1. upgrade \in Upgrades /\ upgrade.running /\ NewVersion \in Versions
      BY <1>1, DraftIsTyped DEF IsRunning
    <2>2. CASE upgrade.stamp = "get"
      <3>1. upgrade' = [upgrade EXCEPT !.stamp = "put"]
        BY <2>2 DEF StampMeta
      <3> QED  BY <2>1, <3>1 DEF Upgrades
    <2>3. CASE upgrade.stamp # "get"
      <3> DEFINE meta == [schemaVersion |-> NewVersion,
                          installId |-> IF stored = Missing THEN openings
                                        ELSE stored.meta.installId]
      <3>1. upgrade' = [upgrade EXCEPT !.stamp = "done", !.meta = meta]
        BY <2>3 DEF StampMeta
      <3>2. /\ openings \in Nat
            /\ stored # Missing => stored \in Databases /\ stored.meta \in Metas
        BY DEF SchemaInv, UpgradeTypeOK, Databases
      <3>3. /\ meta \in Metas /\ meta.schemaVersion = NewVersion
            /\ stored # Missing => meta.installId = stored.meta.installId
        BY <2>1, <3>2 DEF Metas
      <3>4. meta # Missing
        BY <3>3, MissingIsNothing
      <3> HIDE DEF meta
      <3> QED  BY <2>1, <3>1, <3>3, <3>4 DEF Upgrades
    <2> QED  BY <2>2, <2>3
  <1>3. Draft(upgrade', stored)
    <2>1. Draft(upgrade, stored)
      BY <1>1, DraftIsTyped
    <2>2. CursorsInv(upgrade') /\ ShapesInv(upgrade')
      BY <1>2, <2>1 DEF Draft, CursorsInv, CursorInv, ShapesInv
    <2>3. DerivedFrom(upgrade', stored)
      BY <1>2, <2>1 DEF Draft, DerivedFrom, NewVersion
    <2> QED  BY <1>2, <2>1, <2>2, <2>3 DEF Draft
  <1> QED  BY <1>1, <1>2, <1>3, DraftSteps
LEMMA PageGoesOn ==
    ASSUME page \in [Pages -> PageTypes]
    PROVE  /\ \A p \in Pages, pc \in Places :
                PageGoes(p, pc) => page' \in [Pages -> PageTypes]
           /\ \A p \in Pages, answer \in OpenErrors :
                Answers(p, answer) => page' \in [Pages -> PageTypes]
  BY DEF PageTypes, Places, OpenErrors, PageGoes, Answers

\* An upgrade begins when no connection is left.
LEMMA BeginsDraft ==
    ASSUME SchemaInv, upgrade # Missing, UNCHANGED UpgradeUnchanged, strays = {},
           \A p \in Pages : connection[p] = "none",
           upgrade' \in Upgrades, upgrade'.page = upgrade.page, upgrade'.running,
           Draft(upgrade', stored)
    PROVE  SchemaInv'
  <1>1. UpgradeTypeOK'
    BY DEF SchemaInv, UpgradeTypeOK, UpgradeUnchanged
  <1>2. DatabaseIsOfItsVersion'
    BY DEF SchemaInv, DatabaseIsOfItsVersion, UpgradeUnchanged
  <1>3. AloneInv'
    BY DEF SchemaInv, AloneInv, UpgradeUnchanged, NewVersion
  <1>4. DraftInv'
    BY DEF DraftInv, UpgradeUnchanged
  <1> QED  BY <1>1, <1>2, <1>3, <1>4 DEF SchemaInv

\* What a cursor at work is.
LEMMA CursorFacts ==
    ASSUME SchemaInv, IsRunning, NEW c \in upgrade.cursors
    PROVE  /\ c \in CursorTypes /\ CursorInv(c, upgrade)
           /\ c.step \in Steps /\ c.step = upgrade.level /\ c.left \in SUBSET Keys
           /\ c.key \in Keys \cup {Missing} /\ c.store \in {StoreOf[k] : k \in Keys}
           /\ \A d \in upgrade.cursors : d.store = c.store => d = c
           /\ \A k \in c.left : k \in Ahead(upgrade.cursors)
           /\ c.key # Missing => c.key \in Ahead(upgrade.cursors)
  BY DraftIsTyped DEF Draft, CursorsInv, CursorInv, CursorTypes, Ahead

LEMMA CursorReadsStep ==
    ASSUME SchemaInv, IsRunning, NEW c \in upgrade.cursors, NEW k \in Keys, CursorReads(c, k)
    PROVE  SchemaInv'
  <1> DEFINE value == Transformed(upgrade.records[k], c.step)
             new == [c EXCEPT !.left = c.left \ {k}, !.key = k, !.value = value]
             cursors == (upgrade.cursors \ {c}) \cup {new}
  <1>1. /\ c.key = Missing /\ k \in c.left /\ UNCHANGED UpgradeUnchanged
        /\ upgrade' = [upgrade EXCEPT !.cursors = cursors]
    BY DEF CursorReads, Moved, UpgradeUnchanged
  <1>2. /\ upgrade \in Upgrades /\ upgrade.running /\ Draft(upgrade, stored)
        /\ upgrade.cursors \subseteq CursorTypes
        /\ upgrade.records[k] \in Records \cup {Missing}
    BY DraftIsTyped DEF IsRunning
  <1>3. /\ CursorInv(c, upgrade) /\ c \in CursorTypes /\ c.step \in Steps
        /\ c.step = upgrade.level /\ k \in Ahead(upgrade.cursors)
        /\ StoreOf[k] = c.store /\ upgrade.records[k] # Missing /\ c.store \in Rewrites[c.step]
    BY <1>1, CursorFacts DEF CursorInv
  <1>4. HasShape(k, upgrade.records[k], c.step - 1)
    BY <1>2, <1>3 DEF Draft, ShapesInv
  <1>5. value \in Records
    BY <1>2, <1>3, <1>4, ShapeAdvances
  <1> HIDE DEF value
  <1>6. /\ new \in CursorTypes /\ new.step = c.step /\ new.store = c.store /\ new.key = k
        /\ new.left = c.left \ {k} /\ new.value = value
    BY <1>3, <1>5 DEF CursorTypes
  <1> HIDE DEF new
  <1>7. cursors \in SUBSET CursorTypes
    BY <1>2, <1>6
  <1>8. k # Missing
    BY MissingIsNothing
  <1>9. new.left \cup ({new.key} \ {Missing}) = c.left \cup ({c.key} \ {Missing})
    BY <1>1, <1>6, <1>8
  <1>10. Ahead(cursors) = Ahead(upgrade.cursors)
    BY <1>9 DEF Ahead
  <1> HIDE DEF cursors
  <1>11. /\ upgrade' \in Upgrades /\ upgrade'.page = upgrade.page /\ upgrade'.running
         /\ upgrade'.level = upgrade.level /\ upgrade'.records = upgrade.records
         /\ upgrade'.indexes = upgrade.indexes /\ upgrade'.cursors = cursors
         /\ upgrade'.stamp = upgrade.stamp /\ upgrade'.meta = upgrade.meta
    BY <1>1, <1>2, <1>7 DEF Upgrades
  <1>12. CursorInv(new, upgrade')
    BY <1>1, <1>3, <1>6, <1>8, <1>11 DEF CursorInv, value
  <1>13. CursorsInv(upgrade')
    <2>1. \A d \in cursors : CursorInv(d, upgrade')
      BY <1>2, <1>11, <1>12 DEF cursors, Draft, CursorsInv, CursorInv
    <2>2. \A d, e \in cursors : d.store = e.store => d = e
      BY <1>2, <1>6 DEF cursors, Draft, CursorsInv
    <2> QED  BY <1>11, <2>1, <2>2 DEF CursorsInv
  <1>14. ShapesInv(upgrade')
    BY <1>2, <1>10, <1>11 DEF Draft, ShapesInv
  <1>15. cursors # {}
    BY DEF cursors
  <1>16. Draft(upgrade', stored)
    BY <1>2, <1>11, <1>13, <1>14, <1>15 DEF Draft, DerivedFrom
  <1> QED  BY <1>1, <1>11, <1>16, DraftSteps

LEMMA CursorWritesStep ==
    ASSUME SchemaInv, IsRunning, NEW c \in upgrade.cursors, CursorWrites(c)
    PROVE  SchemaInv'
  <1> DEFINE k == c.key
             new == [c EXCEPT !.key = Missing, !.value = Missing]
             cursors == (upgrade.cursors \ {c}) \cup {new}
             records == [upgrade.records EXCEPT ![k] = c.value]
             old == upgrade.records[k]
  <1>1. /\ k # Missing /\ UNCHANGED UpgradeUnchanged
        /\ upgrade' = [upgrade EXCEPT !.records[k] = c.value, !.cursors = cursors]
    BY DEF CursorWrites, Moved, UpgradeUnchanged
  <1>2. /\ upgrade \in Upgrades /\ upgrade.running /\ Draft(upgrade, stored)
        /\ upgrade.cursors \subseteq CursorTypes
        /\ upgrade.records \in [Keys -> Records \cup {Missing}]
    BY DraftIsTyped DEF IsRunning
  <1>3. /\ CursorInv(c, upgrade) /\ c \in CursorTypes /\ c.step \in Steps /\ k \in Keys
        /\ c.step = upgrade.level /\ k \in Ahead(upgrade.cursors) /\ k \notin c.left
        /\ StoreOf[k] = c.store /\ old # Missing /\ c.store \in Rewrites[c.step]
        /\ c.value = Transformed(old, c.step)
    BY <1>1, CursorFacts DEF CursorInv
  <1>4. HasShape(k, old, c.step - 1) /\ old \in Records
    BY <1>2, <1>3 DEF Draft, ShapesInv
  <1>5. /\ c.value \in Records /\ c.value # Missing /\ HasShape(k, c.value, c.step)
        /\ IsKept(old, c.value)
    BY <1>3, <1>4, ShapeAdvances
  <1>6. /\ new \in CursorTypes /\ new.step = c.step /\ new.store = c.store /\ new.key = Missing
        /\ new.left = c.left
    BY <1>3 DEF CursorTypes
  <1>7. /\ records \in [Keys -> Records \cup {Missing}] /\ records[k] = c.value
        /\ \A j \in Keys : j # k => records[j] = upgrade.records[j]
    BY <1>2, <1>3, <1>5
  <1> HIDE DEF new, records
  <1>8. cursors \in SUBSET CursorTypes
    BY <1>2, <1>6
  <1>9. \A d \in upgrade.cursors : d # c => k \notin d.left /\ k # d.key /\ d.store # c.store
    <2> SUFFICES ASSUME NEW d \in upgrade.cursors, d # c
                 PROVE  k \notin d.left /\ k # d.key /\ d.store # c.store
      OBVIOUS
    <2>1. d.store # c.store /\ CursorInv(d, upgrade)
      BY CursorFacts
    <2> QED  BY <1>1, <1>3, <2>1 DEF CursorInv
  <1>10. Ahead(cursors) = Ahead(upgrade.cursors) \ {k}
    <2>1. Ahead(cursors) = Ahead(upgrade.cursors \ {c}) \cup c.left
      BY <1>6 DEF Ahead
    <2>2. Ahead(upgrade.cursors) = Ahead(upgrade.cursors \ {c}) \cup c.left \cup {k}
      BY <1>1 DEF Ahead
    <2>3. k \notin Ahead(upgrade.cursors \ {c}) /\ k \notin c.left
      BY <1>3, <1>9 DEF Ahead
    <2> QED  BY <2>1, <2>2, <2>3
  <1> HIDE DEF cursors
  <1>11. upgrade' = [upgrade EXCEPT !.records = records, !.cursors = cursors]
    BY <1>1, <1>2 DEF records, Upgrades
  <1>12. /\ upgrade' \in Upgrades /\ upgrade'.page = upgrade.page /\ upgrade'.running
         /\ upgrade'.level = upgrade.level /\ upgrade'.records = records
         /\ upgrade'.indexes = upgrade.indexes /\ upgrade'.cursors = cursors
         /\ upgrade'.stamp = upgrade.stamp /\ upgrade'.meta = upgrade.meta
    BY <1>2, <1>7, <1>8, <1>11 DEF Upgrades
  <1> HIDE DEF k, old
  <1>13. CursorsInv(upgrade')
    <2>1. \A d \in upgrade.cursors : d # c => CursorInv(d, upgrade')
      <3> SUFFICES ASSUME NEW d \in upgrade.cursors, d # c PROVE CursorInv(d, upgrade')
        OBVIOUS
      <3>1. CursorInv(d, upgrade) /\ d.left \in SUBSET Keys /\ d.key \in Keys \cup {Missing}
        BY CursorFacts
      <3>2. \A j \in d.left : records[j] = upgrade.records[j]
        BY <1>7, <1>9, <3>1
      <3>3. d.key # Missing => records[d.key] = upgrade.records[d.key]
        BY <1>7, <1>9, <3>1
      <3> QED  BY <1>12, <3>1, <3>2, <3>3 DEF CursorInv
    <2>2. CursorInv(new, upgrade')
      <3>1. \A j \in c.left : j \in Keys /\ records[j] = upgrade.records[j]
        BY <1>3, <1>7 DEF CursorTypes
      <3> QED  BY <1>3, <1>6, <1>12, <3>1, MissingIsNothing DEF CursorInv, CursorTypes
    <2>3. \A d, e \in cursors : d.store = e.store => d = e
      BY <1>2, <1>6, <1>9 DEF cursors, Draft, CursorsInv
    <2> QED  BY <1>12, <2>1, <2>2, <2>3 DEF CursorsInv, cursors
  <1>14. ShapesInv(upgrade')
    <2> SUFFICES ASSUME NEW j \in Keys
                 PROVE  HasShape(j, records[j], IF j \in Ahead(cursors) THEN upgrade.level - 1
                                                ELSE upgrade.level)
      BY <1>12 DEF ShapesInv
    <2>1. CASE j = k
      BY <1>3, <1>5, <1>7, <1>10, <2>1
    <2>2. CASE j # k
      BY <1>2, <1>7, <1>10, <2>2 DEF Draft, ShapesInv
    <2> QED  BY <2>1, <2>2
  <1>15. DerivedFrom(upgrade', stored)
    <2>1. \A j \in Keys : IsKept(RecordsOf(stored)[j], records[j])
      <3> SUFFICES ASSUME NEW j \in Keys PROVE IsKept(RecordsOf(stored)[j], records[j])
        OBVIOUS
      <3>1. IsKept(RecordsOf(stored)[j], upgrade.records[j])
        BY <1>2 DEF Draft, DerivedFrom
      <3>2. CASE j = k
        BY <1>5, <1>7, <3>1, <3>2, KeptOnAndOn DEF old
      <3>3. CASE j # k
        BY <1>7, <3>1, <3>3
      <3> QED  BY <3>2, <3>3
    <2> QED  BY <1>2, <1>12, <2>1 DEF Draft, DerivedFrom
  <1>16. cursors # {}
    BY DEF cursors
  <1>17. Draft(upgrade', stored)
    BY <1>2, <1>12, <1>13, <1>14, <1>15, <1>16 DEF Draft
  <1> QED  BY <1>1, <1>12, <1>17, DraftSteps
LEMMA CursorEndsStep ==
    ASSUME SchemaInv, IsRunning, NEW c \in upgrade.cursors, CursorEnds(c)
    PROVE  SchemaInv'
  <1> DEFINE rest == [upgrade EXCEPT !.cursors = upgrade.cursors \ {c}]
  <1>1. /\ c.key = Missing /\ c.left = {} /\ UNCHANGED UpgradeUnchanged
        /\ upgrade' = IF rest.cursors = {} THEN RunSteps(rest, c.step) ELSE rest
    BY DEF CursorEnds, UpgradeUnchanged
  <1>2. /\ upgrade \in Upgrades /\ upgrade # Missing /\ upgrade.running
        /\ upgrade.cursors \subseteq CursorTypes /\ Draft(upgrade, stored)
        /\ stored \in Databases \cup {Missing} /\ NewVersion \in Versions
        /\ VersionOf(stored) \in Nat /\ VersionOf(stored) < NewVersion
    BY DraftIsTyped DEF IsRunning
  <1>3. c.step \in Steps /\ c.step = upgrade.level
    BY CursorFacts
  <1>4. /\ rest \in Upgrades /\ rest.page = upgrade.page /\ rest.running
        /\ rest.level = upgrade.level /\ rest.records = upgrade.records
        /\ rest.indexes = upgrade.indexes /\ rest.cursors = upgrade.cursors \ {c}
        /\ rest.stamp = upgrade.stamp /\ rest.meta = upgrade.meta
    BY <1>2 DEF Upgrades
  <1>5. Ahead(rest.cursors) = Ahead(upgrade.cursors)
    BY <1>1, <1>4 DEF Ahead
  <1> HIDE DEF rest
  <1>6. CASE rest.cursors = {}
    <2>1. Ahead(upgrade.cursors) = {}
      BY <1>5, <1>6 DEF Ahead
    <2>2. \A k \in Keys : HasShape(k, rest.records[k], c.step)
      BY <1>2, <1>3, <1>4, <2>1 DEF Draft, ShapesInv
    <2>3. c.step \in VersionOf(stored) .. BuildOf[rest.page] /\ c.step \in Versions
      BY <1>2, <1>3, <1>4, VersionFacts DEF Draft
    <2>4. AppliedUpTo(rest, stored, c.step)
      BY <1>2, <1>3, <1>4, <2>2, <2>3 DEF AppliedUpTo, Draft, DerivedFrom
    <2>5. VersionOf(stored) < BuildOf[rest.page]
      BY <1>2, <1>4 DEF NewVersion
    <2>6. /\ RunSteps(rest, c.step) \in Upgrades
          /\ RunSteps(rest, c.step).page = rest.page
          /\ RunSteps(rest, c.step).running = rest.running
          /\ Draft(RunSteps(rest, c.step), stored)
      BY <1>2, <1>4, <1>6, <2>3, <2>4, <2>5, RunStepsResult
    <2> QED  BY <1>1, <1>4, <1>6, <2>6, DraftSteps
  <1>7. CASE rest.cursors # {}
    <2>1. CursorsInv(rest)
      BY <1>2, <1>4 DEF Draft, CursorsInv, CursorInv
    <2>2. ShapesInv(rest)
      BY <1>2, <1>4, <1>5 DEF Draft, ShapesInv
    <2>3. Draft(rest, stored)
      BY <1>2, <1>4, <1>7, <2>1, <2>2 DEF Draft, DerivedFrom
    <2> QED  BY <1>1, <1>4, <1>7, <2>3, DraftSteps
  <1> QED  BY <1>6, <1>7

LEMMA StoredFacts ==
    ASSUME SchemaInv, stored # Missing
    PROVE  /\ stored \in Databases /\ stored.version \in Versions /\ stored.meta \in Metas
           /\ stored.indexes \in SUBSET Indexes
           /\ stored.records \in [Keys -> Records \cup {Missing}]
           /\ stored.meta.schemaVersion = stored.version
           /\ stored.indexes = Declared[stored.version]
           /\ \A k \in Keys : HasShape(k, stored.records[k], stored.version)
  BY DEF SchemaInv, UpgradeTypeOK, Databases, DatabaseIsOfItsVersion

LEMMA StartUpgradeStep ==
    ASSUME SchemaInv, StartUpgrade
    PROVE  SchemaInv'
  <1> DEFINE begun == [upgrade EXCEPT !.running = TRUE, !.level = NewVersion,
                                      !.records = RecordsThere, !.indexes = CreateMissingStores]
  <1>1. /\ upgrade # Missing /\ ~upgrade.running /\ strays = {}
        /\ \A p \in Pages : connection[p] = "none"
        /\ UNCHANGED UpgradeUnchanged
        /\ upgrade' = IF OldVersion > 0 THEN RunSteps(begun, OldVersion) ELSE begun
    BY DEF StartUpgrade, UpgradeUnchanged
  <1>2. /\ upgrade \in Upgrades /\ upgrade.page \in Pages /\ NewVersion \in Versions
        /\ NewVersion = BuildOf[upgrade.page] /\ OldVersion = VersionOf(stored)
        /\ VersionOf(stored) < NewVersion /\ stored \in Databases \cup {Missing}
        /\ upgrade.cursors = {} /\ upgrade.stamp = "get"
    BY <1>1, VersionFacts DEF SchemaInv, UpgradeTypeOK, AloneInv, Upgrades, NewVersion,
       OldVersion, VersionOf
  <1>3. /\ RecordsThere = RecordsOf(stored) /\ RecordsThere \in [Keys -> Records \cup {Missing}]
        /\ CreateMissingStores = IndexesOf(stored) \cup Declared[NewVersion]
        /\ CreateMissingStores \in SUBSET Indexes
    <2>1. NoRecords \in [Keys -> Records \cup {Missing}]
      BY DEF NoRecords
    <2> QED  BY <1>2, <2>1, StoredFacts, VersionFacts DEF RecordsThere, RecordsOf,
             CreateMissingStores, IndexesThere, IndexesOf
  <1>4. NewVersion \in 0 .. Latest
    BY <1>2, VersionFacts DEF Versions
  <1>5. /\ begun \in Upgrades /\ begun.page = upgrade.page /\ begun.running
        /\ begun.level = NewVersion /\ begun.records = RecordsOf(stored)
        /\ begun.indexes = IndexesOf(stored) \cup Declared[NewVersion]
        /\ begun.cursors = {} /\ begun.stamp = "get"
    <2> HIDE DEF begun
    <2>1. /\ begun \in Upgrades /\ begun.page = upgrade.page /\ begun.running
          /\ begun.level = NewVersion /\ begun.records = RecordsThere
          /\ begun.indexes = CreateMissingStores
          /\ begun.cursors = upgrade.cursors /\ begun.stamp = upgrade.stamp
      BY <1>2, <1>3, <1>4 DEF begun, Upgrades
    <2> QED  BY <1>2, <1>3, <2>1
  <1> HIDE DEF begun
  <1>6. \A k \in Keys : IsKept(RecordsOf(stored)[k], begun.records[k])
    BY <1>5 DEF IsKept
  <1>7. CASE stored # Missing
    <2>1. /\ stored.version \in Versions /\ OldVersion = stored.version /\ OldVersion > 0
          /\ VersionOf(stored) = stored.version
      BY <1>2, <1>7, StoredFacts, VersionFacts DEF OldVersion
    <2>2. \A k \in Keys : HasShape(k, begun.records[k], stored.version)
      BY <1>5, <1>7, StoredFacts DEF RecordsOf
    <2>3. SelectMigrations(stored.version, stored.version) = {}
      BY <2>1, VersionFacts DEF SelectMigrations
    <2>4. Dropped(stored.version, stored.version) = {}
      BY <2>3 DEF Dropped
    <2>5. stored.version \in VersionOf(stored) .. BuildOf[begun.page]
      BY <1>2, <1>5, <2>1, VersionFacts
    <2>6. AppliedUpTo(begun, stored, stored.version)
      BY <1>2, <1>5, <1>6, <2>1, <2>2, <2>4, <2>5 DEF AppliedUpTo
    <2>7. /\ RunSteps(begun, OldVersion) \in Upgrades
          /\ RunSteps(begun, OldVersion).page = begun.page
          /\ RunSteps(begun, OldVersion).running = begun.running
          /\ Draft(RunSteps(begun, OldVersion), stored)
      <3>1. /\ AppliedUpTo(begun, stored, OldVersion) /\ OldVersion \in Versions
            /\ VersionOf(stored) < BuildOf[begun.page] /\ upgrade.page = begun.page
        BY <1>2, <1>5, <2>1, <2>6
      <3> HIDE DEF begun
      <3> QED  BY <1>1, <1>2, <1>5, <3>1, RunStepsResult
    <2>8. upgrade' = RunSteps(begun, OldVersion)
      BY <1>1, <2>1
    <2> HIDE DEF begun
    <2>9. /\ upgrade' \in Upgrades /\ upgrade'.page = upgrade.page /\ upgrade'.running
          /\ Draft(upgrade', stored)
      BY <1>5, <2>7, <2>8
    <2> QED  BY <1>1, <2>9, BeginsDraft
  <1>8. CASE stored = Missing
    <2>1. upgrade' = begun /\ VersionOf(stored) = 0
      BY <1>1, <1>8 DEF OldVersion, VersionOf
    <2>2. CursorsInv(begun) /\ Ahead(begun.cursors) = {}
      BY <1>5 DEF CursorsInv, Ahead
    <2>3. ShapesInv(begun)
      BY <1>5, <1>8, <2>2 DEF ShapesInv, HasShape, RecordsOf, NoRecords
    <2>4. begun.indexes = (IndexesOf(stored) \cup Declared[BuildOf[begun.page]])
                            \ Dropped(VersionOf(stored), begun.level)
      <3>1. Dropped(0, NewVersion) \cap Declared[NewVersion] = {}
        BY <1>2, NothingDeclaredIsDropped
      <3>2. IndexesOf(stored) = {}
        BY <1>8 DEF IndexesOf
      <3> QED  BY <1>2, <1>5, <2>1, <3>1, <3>2
    <2>5. begun.level \in VersionOf(stored) + 1 .. BuildOf[begun.page]
      BY <1>2, <1>5, <2>1, VersionFacts
    <2>6. Draft(begun, stored)
      BY <1>2, <1>5, <1>6, <2>2, <2>3, <2>4, <2>5 DEF Draft, DerivedFrom
    <2> QED  BY <1>1, <1>5, <2>1, <2>6, BeginsDraft
  <1> QED  BY <1>7, <1>8
\* The transaction is over, or its page is gone.
LEMMA UpgradeIsOver ==
    ASSUME SchemaInv, upgrade' = Missing, UNCHANGED stored,
           connection' \in [Pages -> {"none", "open", "closing"}],
           \A p \in Pages : connection'[p] # "none" => connection[p] # "none",
           strays' \subseteq Pages, page' \in [Pages -> PageTypes], openings' \in Nat, failures' \in Nat
    PROVE  SchemaInv'
  <1>1. UpgradeTypeOK'
    BY DEF SchemaInv, UpgradeTypeOK, PageTypes
  <1>2. DatabaseIsOfItsVersion'
    BY DEF SchemaInv, DatabaseIsOfItsVersion
  <1>3. AloneInv' /\ DraftInv'
    BY DEF AloneInv, DraftInv, IsRunning
  <1> QED  BY <1>1, <1>2, <1>3 DEF SchemaInv

LEMMA CommitUpgradeStep ==
    ASSUME SchemaInv, CommitUpgrade
    PROVE  /\ SchemaInv'
           /\ stored' # Missing /\ VersionOf(stored) <= stored'.version
           /\ stored # Missing => stored'.meta.installId = stored.meta.installId
           /\ \A k \in Keys : IsKept(RecordsOf(stored)[k], stored'.records[k])
  <1> DEFINE p == upgrade.page
             new == [version |-> NewVersion, meta |-> upgrade.meta,
                     indexes |-> upgrade.indexes, records |-> upgrade.records]
  <1>1. /\ IsRunning /\ upgrade.stamp = "done" /\ upgrade.cursors = {}
        /\ stored' = new /\ upgrade' = Missing /\ UNCHANGED <<openings, failures>>
        /\ \/ strays' = strays \cup {p} /\ UNCHANGED <<connection, page>>
           \/ /\ connection' = [connection EXCEPT ![p] = "open"]
              /\ PageGoes(p, "checking") /\ UNCHANGED strays
    BY DEF CommitUpgrade
  <1>2. /\ upgrade \in Upgrades /\ p \in Pages /\ NewVersion \in Versions
        /\ NewVersion = BuildOf[p] /\ Draft(upgrade, stored)
        /\ upgrade.meta \in Metas \cup {Missing} /\ upgrade.indexes \in SUBSET Indexes
        /\ upgrade.records \in [Keys -> Records \cup {Missing}]
        /\ VersionOf(stored) \in Nat /\ VersionOf(stored) < NewVersion
        /\ \A q \in Pages : connection[q] = "none"
    <2>1. \A q \in Pages : connection[q] = "none"
      BY <1>1 DEF SchemaInv, AloneInv, IsRunning
    <2> QED  BY <1>1, <2>1, DraftIsTyped DEF Upgrades, NewVersion
  <1>3. /\ upgrade.level = NewVersion /\ DerivedFrom(upgrade, stored)
        /\ \A k \in Keys : HasShape(k, upgrade.records[k], NewVersion)
    <2>1. Ahead(upgrade.cursors) = {}
      BY <1>1 DEF Ahead
    <2> QED  BY <1>1, <1>2, <2>1 DEF Draft, ShapesInv
  <1>4. /\ upgrade.meta \in Metas /\ upgrade.meta.schemaVersion = NewVersion
        /\ stored # Missing => upgrade.meta.installId = stored.meta.installId
    BY <1>1, <1>2, <1>3 DEF DerivedFrom
  <1>5. upgrade.indexes = Declared[NewVersion]
    <2>1. upgrade.indexes = (IndexesOf(stored) \cup Declared[NewVersion])
                              \ Dropped(VersionOf(stored), NewVersion)
      BY <1>2, <1>3 DEF DerivedFrom
    <2>2. CASE stored = Missing
      <3>1. IndexesOf(stored) = {} /\ VersionOf(stored) = 0
        BY <2>2 DEF IndexesOf, VersionOf
      <3>2. Dropped(0, NewVersion) \cap Declared[NewVersion] = {}
        BY <1>2, NothingDeclaredIsDropped
      <3> QED  BY <2>1, <3>1, <3>2
    <2>3. CASE stored # Missing
      <3>1. /\ IndexesOf(stored) = Declared[stored.version] /\ stored.version \in Versions
            /\ VersionOf(stored) = stored.version /\ stored.version <= NewVersion
        BY <1>2, <2>3, StoredFacts, VersionFacts DEF IndexesOf, VersionOf
      <3>2. /\ Declared[stored.version] \ Declared[NewVersion]
                 \subseteq Dropped(stored.version, NewVersion)
            /\ Dropped(stored.version, NewVersion) \cap Declared[NewVersion] = {}
        BY <1>2, <3>1, DroppedOnTheWay
      <3> QED  BY <2>1, <3>1, <3>2
    <2> QED  BY <2>2, <2>3
  <1>6. /\ new \in Databases /\ new.version = NewVersion /\ new.meta = upgrade.meta
        /\ new.indexes = Declared[NewVersion] /\ new.records = upgrade.records
    BY <1>2, <1>4, <1>5 DEF Databases
  <1> HIDE DEF new
  <1>7. stored' \in Databases /\ stored' # Missing
    BY <1>1, <1>6, MissingIsNothing
  <1>8. /\ connection' \in [Pages -> {"none", "open", "closing"}]
        /\ \A q \in Pages : connection'[q] # "none" => q = p
    BY <1>1, <1>2 DEF SchemaInv, UpgradeTypeOK
  <1>9. page' \in [Pages -> PageTypes] /\ strays' \subseteq Pages
    <2>1. page \in [Pages -> PageTypes] /\ strays \subseteq Pages
      BY DEF SchemaInv, UpgradeTypeOK, PageTypes
    <2>2. PageGoes(p, "checking") => page' \in [Pages -> PageTypes]
      BY <1>2, <2>1 DEF PageGoes, PageTypes, Places
    <2> QED  BY <1>1, <1>2, <2>1, <2>2
  <1>10. UpgradeTypeOK'
    BY <1>1, <1>7, <1>8, <1>9 DEF SchemaInv, UpgradeTypeOK, PageTypes
  <1>11. DatabaseIsOfItsVersion'
    BY <1>1, <1>2, <1>3, <1>4, <1>6, <1>7, <1>8 DEF DatabaseIsOfItsVersion
  <1>12. AloneInv' /\ DraftInv'
    BY <1>1 DEF AloneInv, DraftInv, IsRunning
  <1>13. VersionOf(stored) <= stored'.version
    BY <1>1, <1>2, <1>6, VersionFacts
  <1>14. \A k \in Keys : IsKept(RecordsOf(stored)[k], stored'.records[k])
    BY <1>1, <1>3, <1>6 DEF DerivedFrom
  <1> QED  BY <1>1, <1>4, <1>6, <1>7, <1>10, <1>11, <1>12, <1>13, <1>14 DEF SchemaInv
LEMMA AbortUpgradeStep ==
    ASSUME SchemaInv, NEW answer \in {"MIGRATION_FAILED", "DATABASE_OPEN_FAILED"},
           AbortUpgrade(answer)
    PROVE  SchemaInv'
  <1>1. /\ IsRunning /\ failures' = failures + 1 /\ upgrade' = Missing
        /\ UNCHANGED <<stored, connection, strays, openings>>
        /\ UNCHANGED page \/ Answers(upgrade.page, answer)
    BY DEF AbortUpgrade, Breaks
  <1>2. UpgradeTypeOK /\ upgrade.page \in Pages
    BY <1>1, DraftIsTyped DEF SchemaInv
  <1>3. answer \in OpenErrors
    BY DEF OpenErrors
  <1>4. page' \in [Pages -> PageTypes]
    BY <1>1, <1>2, <1>3, PageGoesOn DEF UpgradeTypeOK
  <1> QED  BY <1>1, <1>2, <1>4, UpgradeIsOver DEF UpgradeTypeOK

\* A step of a page that touches neither the database nor the upgrade.
LEMMA PageSteps ==
    ASSUME SchemaInv, UNCHANGED <<stored, upgrade, strays>>,
           page' \in [Pages -> PageTypes], openings' \in Nat, failures' \in Nat,
           connection' \in [Pages -> {"none", "open", "closing"}],
           \A p \in Pages : connection'[p] # "none" =>
             \/ connection[p] # "none"
             \/ upgrade = Missing /\ stored # Missing /\ stored.version = BuildOf[p]
    PROVE  SchemaInv'
  <1>1. UpgradeTypeOK'
    BY DEF SchemaInv, UpgradeTypeOK
  <1>2. DatabaseIsOfItsVersion'
    BY DEF SchemaInv, DatabaseIsOfItsVersion
  <1>3. AloneInv'
    BY DEF SchemaInv, AloneInv, VersionOf, NewVersion
  <1>4. DraftInv'
    BY DEF SchemaInv, DraftInv, IsRunning
  <1> QED  BY <1>1, <1>2, <1>3, <1>4 DEF SchemaInv

LEMMA RequestUpgradeStep ==
    ASSUME SchemaInv, NEW p \in Pages, RequestUpgrade(p)
    PROVE  SchemaInv'
  <1>1. PICK busy \in SUBSET {q \in Pages : connection[q] # "none"} :
          /\ connection' = [q \in Pages |-> IF q \in busy THEN "closing" ELSE "none"]
          /\ \E blocked \in BOOLEAN :
               /\ upgrade' = Asked(p, blocked)
               /\ IF blocked THEN Answers(p, "DATABASE_UPGRADE_BLOCKED")
                  ELSE PageGoes(p, "upgrading")
    BY DEF RequestUpgrade
  <1>2. PICK blocked \in BOOLEAN :
          /\ upgrade' = Asked(p, blocked)
          /\ IF blocked THEN Answers(p, "DATABASE_UPGRADE_BLOCKED") ELSE PageGoes(p, "upgrading")
    BY <1>1
  <1>3. /\ UNCHANGED <<stored, strays, openings, failures>> /\ upgrade = Missing
        /\ stored # Missing => stored.version < BuildOf[p]
    BY DEF RequestUpgrade, NeedsUpgrade, IsServed
  <1>4. UpgradeTypeOK /\ BuildOf[p] \in Versions
    BY VersionFacts DEF SchemaInv
  <1>5. /\ upgrade' \in Upgrades /\ upgrade'.page = p /\ ~upgrade'.running
        /\ upgrade'.cursors = {} /\ upgrade'.stamp = "get"
    <2>1. NoRecords \in [Keys -> Records \cup {Missing}] /\ 0 \in 0 .. Latest
      BY VersionFacts DEF NoRecords
    <2> QED  BY <1>2, <2>1 DEF Asked, Upgrades
  <1>6. page' \in [Pages -> PageTypes]
    BY <1>2, <1>4 DEF UpgradeTypeOK, PageTypes, Places, OpenErrors, PageGoes, Answers
  <1>7. UpgradeTypeOK'
    BY <1>1, <1>3, <1>4, <1>5, <1>6 DEF UpgradeTypeOK
  <1>8. DatabaseIsOfItsVersion'
    BY <1>1, <1>3 DEF SchemaInv, DatabaseIsOfItsVersion
  <1>9. AloneInv'
    <2>1. VersionOf(stored) < BuildOf[p]
      BY <1>3, <1>4, VersionFacts DEF VersionOf
    <2>2. VersionOf(stored)' = VersionOf(stored) /\ NewVersion' = BuildOf[p]
      BY <1>3, <1>5 DEF VersionOf, NewVersion
    <2> QED  BY <1>5, <2>1, <2>2 DEF AloneInv
  <1>10. DraftInv'
    BY <1>5 DEF DraftInv, IsRunning
  <1> QED  BY <1>7, <1>8, <1>9, <1>10 DEF SchemaInv

LEMMA UnloadStep ==
    ASSUME SchemaInv, NEW p \in Pages, Unload(p)
    PROVE  SchemaInv'
  <1>1. /\ PageGoes(p, "closed") /\ connection' = [connection EXCEPT ![p] = "none"]
        /\ strays' = strays \ {p} /\ UNCHANGED <<stored, openings, failures>>
        /\ upgrade' = Missing \/ upgrade' = upgrade
    BY DEF Unload
  <1>2. /\ UpgradeTypeOK /\ page' \in [Pages -> PageTypes]
        /\ connection' \in [Pages -> {"none", "open", "closing"}]
        /\ \A q \in Pages : connection'[q] # "none" => connection[q] # "none"
    BY <1>1 DEF SchemaInv, UpgradeTypeOK, PageTypes, Places, PageGoes
  <1>3. CASE upgrade' = Missing
    BY <1>1, <1>2, <1>3, UpgradeIsOver DEF UpgradeTypeOK
  <1>4. CASE upgrade' = upgrade
    <2>1. UpgradeTypeOK'
      BY <1>1, <1>2, <1>4 DEF UpgradeTypeOK
    <2>2. DatabaseIsOfItsVersion'
      BY <1>1, <1>2 DEF SchemaInv, DatabaseIsOfItsVersion
    <2>3. AloneInv'
      BY <1>1, <1>2, <1>4 DEF SchemaInv, AloneInv, VersionOf, NewVersion
    <2>4. DraftInv'
      BY <1>1, <1>4 DEF SchemaInv, DraftInv, IsRunning
    <2> QED  BY <2>1, <2>2, <2>3, <2>4 DEF SchemaInv
  <1> QED  BY <1>1, <1>3, <1>4

LEMMA WriteRecordStep ==
    ASSUME SchemaInv, NEW p \in Pages, NEW k \in Keys, WriteRecord(p, k)
    PROVE  /\ SchemaInv'
           /\ stored # Missing /\ stored' # Missing /\ stored'.version = stored.version
           /\ stored'.meta = stored.meta
           /\ \A j \in Keys : stored.records[j] # Missing => stored'.records[j] # Missing
  <1> DEFINE new == WrittenAt(BuildOf[p])
  <1>1. /\ stored' = [stored EXCEPT !.records[k] = new] /\ connection[p] # "none"
        /\ UNCHANGED <<upgrade, connection, strays, page, openings, failures>>
    BY DEF WriteRecord
  <1>2. stored # Missing /\ stored.version = BuildOf[p] /\ UpgradeTypeOK
    BY <1>1 DEF SchemaInv, DatabaseIsOfItsVersion
  <1>3. stored \in Databases /\ stored.version \in Versions
    BY <1>2, StoredFacts
  <1>4. new \in Records /\ new # Missing /\ HasShape(k, new, stored.version)
    <2>1. new \in Records
      BY <1>2, <1>3 DEF WrittenAt, Records
    <2>2. HasShape(k, new, stored.version)
      BY <1>2, <1>3, VersionFacts DEF WrittenAt, HasShape
    <2> QED  BY <2>1, <2>2, MissingIsNothing
  <1> HIDE DEF new
  <1>5. /\ stored' \in Databases /\ stored'.version = stored.version /\ stored'.meta = stored.meta
        /\ stored'.indexes = stored.indexes /\ stored'.records[k] = new
        /\ \A j \in Keys : j # k => stored'.records[j] = stored.records[j]
    BY <1>1, <1>3, <1>4 DEF Databases
  <1>6. stored' # Missing
    BY <1>5, MissingIsNothing
  <1>7. UpgradeTypeOK'
    BY <1>1, <1>2, <1>5 DEF UpgradeTypeOK
  <1>8. DatabaseIsOfItsVersion'
    <2>1. \A j \in Keys : HasShape(j, stored'.records[j], stored'.version)
      BY <1>2, <1>4, <1>5, StoredFacts
    <2> QED  BY <1>1, <1>2, <1>5, <1>6, <2>1, StoredFacts DEF SchemaInv, DatabaseIsOfItsVersion
  <1>9. AloneInv' /\ DraftInv'
    <2>1. VersionOf(stored)' = VersionOf(stored) /\ NewVersion' = NewVersion
      BY <1>1, <1>2, <1>5, <1>6 DEF VersionOf, NewVersion
    <2>2. ~IsRunning
      BY <1>1 DEF SchemaInv, AloneInv, IsRunning
    <2> QED  BY <1>1, <2>1, <2>2 DEF SchemaInv, AloneInv, DraftInv, IsRunning
  <1> QED  BY <1>2, <1>4, <1>5, <1>6, <1>7, <1>8, <1>9 DEF SchemaInv

-----------------------------------------------------------------------------
(* Every step.                                                             *)

LEMMA SchemaInitially == SchemaInit => SchemaInv
  <1> SUFFICES ASSUME SchemaInit PROVE SchemaInv
    OBVIOUS
  <1>1. /\ upgrade = Missing /\ connection = [p \in Pages |-> "none"] /\ strays = {}
        /\ page = [p \in Pages |-> [pc |-> "closed", answer |-> "none"]]
        /\ openings = 0 /\ failures = 0
    BY DEF SchemaInit
  <1>2. CASE stored = Missing
    BY <1>1, <1>2 DEF SchemaInv, UpgradeTypeOK, DatabaseIsOfItsVersion, AloneInv, DraftInv,
       IsRunning, PageTypes, Places
  <1>3. CASE stored # Missing
    <2>1. PICK records \in [Keys -> {Missing, WrittenAt(1)}] : stored = DatabaseAt(1, records)
      BY <1>3 DEF SchemaInit
    <2>2. 1 \in Versions /\ Declared[1] \in SUBSET Indexes
      BY VersionFacts, UpgradeAssumption DEF Versions
    <2>3. WrittenAt(1) \in Records
      BY <2>2 DEF WrittenAt, Records
    <2>4. records \in [Keys -> Records \cup {Missing}]
      BY <2>1, <2>3
    <2>5. /\ stored.version = 1 /\ stored.meta = [schemaVersion |-> 1, installId |-> 0]
          /\ stored.indexes = Declared[1] /\ stored.records = records
      BY <2>1 DEF DatabaseAt
    <2>6. stored \in Databases
      BY <2>1, <2>2, <2>4 DEF DatabaseAt, Databases, Metas
    <2>7. \A k \in Keys : HasShape(k, records[k], 1)
      BY <2>1, VersionFacts DEF HasShape, WrittenAt
    <2> QED  BY <1>1, <2>5, <2>6, <2>7 DEF SchemaInv, UpgradeTypeOK, DatabaseIsOfItsVersion,
             AloneInv, DraftInv, IsRunning, PageTypes, Places
  <1> QED  BY <1>2, <1>3

LEMMA OpeningSteps ==
    ASSUME SchemaInv, NEW p \in Pages,
           \/ OpenDatabase(p) \/ OpenNewer(p) \/ OpenFails(p) \/ OpenCurrent(p)
           \/ FinishClosing(p) \/ CheckMeta(p)
    PROVE  SchemaInv' /\ UNCHANGED stored
  <1> USE DEF Places, OpenErrors
  <1>1. /\ UpgradeTypeOK /\ page \in [Pages -> PageTypes] /\ openings \in Nat /\ failures \in Nat
        /\ connection \in [Pages -> {"none", "open", "closing"}]
    BY DEF SchemaInv, UpgradeTypeOK
  <1>2. CASE OpenDatabase(p)
    <2>1. page' \in [Pages -> PageTypes]
      BY <1>1, <1>2, PageGoesOn DEF OpenDatabase
    <2> QED  BY <1>1, <1>2, <2>1, PageSteps DEF OpenDatabase
  <1>3. CASE OpenNewer(p)
    <2>1. page' \in [Pages -> PageTypes]
      BY <1>1, <1>3, PageGoesOn DEF OpenNewer
    <2> QED  BY <1>1, <1>3, <2>1, PageSteps DEF OpenNewer
  <1>4. CASE OpenFails(p)
    <2>1. page' \in [Pages -> PageTypes]
      BY <1>1, <1>4, PageGoesOn DEF OpenFails
    <2> QED  BY <1>1, <1>4, <2>1, PageSteps DEF OpenFails, Breaks
  <1>5. CASE OpenCurrent(p)
    <2>1. page' \in [Pages -> PageTypes]
      BY <1>1, <1>5, PageGoesOn DEF OpenCurrent
    <2>2. /\ connection' \in [Pages -> {"none", "open", "closing"}]
          /\ \A q \in Pages : connection'[q] # "none" =>
               \/ connection[q] # "none"
               \/ upgrade = Missing /\ stored # Missing /\ stored.version = BuildOf[q]
      BY <1>1, <1>5 DEF OpenCurrent, IsServed
    <2> QED  BY <1>1, <1>5, <2>1, <2>2, PageSteps DEF OpenCurrent
  <1>6. CASE FinishClosing(p)
    <2>1. /\ connection' \in [Pages -> {"none", "open", "closing"}]
          /\ \A q \in Pages : connection'[q] # "none" => connection[q] # "none"
      BY <1>1, <1>6 DEF FinishClosing
    <2> QED  BY <1>1, <1>6, <2>1, PageSteps DEF FinishClosing
  <1>7. CASE CheckMeta(p)
    <2>1. page' \in [Pages -> PageTypes]
      BY <1>1, <1>7, PageGoesOn DEF CheckMeta
    <2>2. /\ connection' \in [Pages -> {"none", "open", "closing"}]
          /\ \A q \in Pages : connection'[q] # "none" => connection[q] # "none"
          /\ UNCHANGED <<stored, upgrade, strays, openings>> /\ failures' \in Nat
      BY <1>1, <1>7 DEF CheckMeta, Breaks
    <2> QED  BY <1>1, <1>7, <2>1, <2>2, PageSteps
  <1> QED  BY <1>2, <1>3, <1>4, <1>5, <1>6, <1>7

\* What a step may do to the database.
KeepsWhatIsStored ==
    stored # Missing =>
        /\ stored' # Missing /\ stored.version <= stored'.version
        /\ stored'.meta.installId = stored.meta.installId
        /\ \A k \in Keys : stored.records[k] # Missing =>
             /\ stored'.records[k] # Missing
             /\ stored'.version # stored.version =>
                  /\ stored'.records[k].born = stored.records[k].born
                  /\ stored.records[k].steps \subseteq stored'.records[k].steps

LEMMA UnchangedKeeps ==
    ASSUME SchemaInv, UNCHANGED stored
    PROVE  KeepsWhatIsStored
  BY StoredFacts, VersionFacts DEF KeepsWhatIsStored

LEMMA SchemaSteps ==
    ASSUME SchemaInv, [SchemaNext]_upgradeVars
    PROVE  SchemaInv' /\ KeepsWhatIsStored
  <1>1. CASE UNCHANGED upgradeVars
    <2>1. /\ UNCHANGED <<stored, upgrade, strays>> /\ UNCHANGED <<connection, page, openings, failures>>
      BY <1>1 DEF upgradeVars
    <2>2. SchemaInv'
      BY <2>1, PageSteps DEF SchemaInv, UpgradeTypeOK
    <2> QED  BY <2>1, <2>2, UnchangedKeeps
  <1>2. ASSUME NEW p \in Pages,
               \/ OpenDatabase(p) \/ OpenNewer(p) \/ OpenFails(p) \/ OpenCurrent(p)
               \/ FinishClosing(p) \/ CheckMeta(p)
        PROVE  SchemaInv' /\ KeepsWhatIsStored
    BY <1>2, OpeningSteps, UnchangedKeeps
  <1>3. ASSUME NEW p \in Pages, RequestUpgrade(p)
        PROVE  SchemaInv' /\ KeepsWhatIsStored
    <2>1. UNCHANGED stored
      BY <1>3 DEF RequestUpgrade
    <2> QED  BY <1>3, <2>1, RequestUpgradeStep, UnchangedKeeps
  <1>4. ASSUME NEW p \in Pages, Unload(p)
        PROVE  SchemaInv' /\ KeepsWhatIsStored
    <2>1. UNCHANGED stored
      BY <1>4 DEF Unload
    <2> QED  BY <1>4, <2>1, UnloadStep, UnchangedKeeps
  <1>5. ASSUME NEW p \in Pages, NEW k \in Keys, WriteRecord(p, k)
        PROVE  SchemaInv' /\ KeepsWhatIsStored
    <2>1. /\ SchemaInv'
          /\ stored # Missing /\ stored' # Missing /\ stored'.version = stored.version
          /\ stored'.meta = stored.meta
          /\ \A j \in Keys : stored.records[j] # Missing => stored'.records[j] # Missing
      BY <1>5, WriteRecordStep
    <2>2. stored.version <= stored'.version
      BY <2>1, StoredFacts, VersionFacts
    <2> QED  BY <2>1, <2>2 DEF KeepsWhatIsStored
  <1>6. CASE StartUpgrade
    <2>1. UNCHANGED stored
      BY <1>6 DEF StartUpgrade
    <2> QED  BY <1>6, <2>1, StartUpgradeStep, UnchangedKeeps
  <1>7. CASE StampMeta
    <2>1. UNCHANGED stored
      BY <1>7 DEF StampMeta
    <2> QED  BY <1>7, <2>1, StampMetaStep, UnchangedKeeps
  <1>8. CASE CommitUpgrade
    <2>1. /\ SchemaInv'
          /\ stored' # Missing /\ VersionOf(stored) <= stored'.version
          /\ stored # Missing => stored'.meta.installId = stored.meta.installId
          /\ \A k \in Keys : IsKept(RecordsOf(stored)[k], stored'.records[k])
      BY <1>8, CommitUpgradeStep
    <2> QED  BY <2>1 DEF KeepsWhatIsStored, VersionOf, RecordsOf, IsKept
  <1>9. ASSUME NEW answer \in {"MIGRATION_FAILED", "DATABASE_OPEN_FAILED"}, AbortUpgrade(answer)
        PROVE  SchemaInv' /\ KeepsWhatIsStored
    <2>1. UNCHANGED stored
      BY <1>9 DEF AbortUpgrade
    <2> QED  BY <1>9, <2>1, AbortUpgradeStep, UnchangedKeeps
  <1>10. ASSUME IsRunning, NEW c \in upgrade.cursors,
                CursorWrites(c) \/ CursorEnds(c) \/ \E k \in Keys : CursorReads(c, k)
         PROVE  SchemaInv' /\ KeepsWhatIsStored
    <2>1. UNCHANGED stored
      BY <1>10 DEF CursorWrites, CursorEnds, CursorReads
    <2> QED  BY <1>10, <2>1, CursorWritesStep, CursorEndsStep, CursorReadsStep, UnchangedKeeps
  <1> QED  BY <1>1, <1>2, <1>3, <1>4, <1>5, <1>6, <1>7, <1>8, <1>9, <1>10 DEF SchemaNext, Request

\* Whatever builds of a frozen chain open the database, write, block one
\* another, fail and go away (persistence/database.ts, migrations.ts): at every
\* committed version the records have been through the steps of that version,
\* once and in order, the meta record and the indexes are that version's, and
\* only pages of that version are connected.
THEOREM EveryVersionIsWhole == SchemaSpec => []DatabaseIsOfItsVersion
  <1>1. SchemaInit => SchemaInv
    BY SchemaInitially
  <1>2. SchemaInv /\ [SchemaNext]_upgradeVars => SchemaInv'
    BY SchemaSteps
  <1>3. SchemaInv => DatabaseIsOfItsVersion
    BY DEF SchemaInv
  <1> QED  BY <1>1, <1>2, <1>3, PTL DEF SchemaSpec

\* No step takes a record or the installation's id away, or a database to an
\* older version: an upgrade that fails, wherever, has changed nothing.
THEOREM UpgradesLoseNothing == SchemaSpec => OpeningLosesNothing
  <1>1. SchemaInit => SchemaInv
    BY SchemaInitially
  <1>2. SchemaInv /\ [SchemaNext]_upgradeVars => SchemaInv' /\ KeepsWhatIsStored
    BY SchemaSteps
  <1> QED  BY <1>1, <1>2, PTL DEF SchemaSpec, OpeningLosesNothing, KeepsWhatIsStored
=============================================================================
