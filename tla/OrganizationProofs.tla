-------------------------- MODULE OrganizationProofs --------------------------
(***************************************************************************)
(* The company screen beside the membership functions, for any people,     *)
(* companies, calls, loads and invitations: what it sends carries a row of *)
(* the past, what it offers is accepted, a request id is one invitation's. *)
(* And the export, for any rows, statuses and colleagues: every section of *)
(* a file is a whole one, its own reader accepts it, and what the reader   *)
(* accepts is what the writer would write.                                 *)
(***************************************************************************)
EXTENDS OrganizationExport, MembershipAdministrationProofs, FiniteSetTheorems,
        FunctionTheorems, WellFoundedInduction

\* A row that was the subject's once: it only moves on, so an equal version is
\* an equal row.
IsPast(u, row) ==
    /\ row.version <= memberships[Company][u].version
    /\ row.version = memberships[Company][u].version => row = memberships[Company][u]

AllPast(members) == \A u \in Users : IsPast(u, members[u])

\* However old what the screen shows, waits for or asks about, it was so once.
ScreenRowsArePast ==
    /\ AllPast(shown.members)
    /\ \A l \in Loads : AllPast(load[l].members)
    /\ \A p \in pending : IsPast(p.subject, p.row)

\* A change the functions accept of this role on this row.
IsAccepted(role, subject, change, row) ==
    /\ role \in AdministratorRoles /\ row \in Rows /\ subject # Person
    /\ role = "OWNER" \/ (row.role # "OWNER" /\ change # "OWNER")

OffersAreSound ==
    /\ \A p \in pending : IsAccepted(p.role, p.subject, p.change, p.row)
    /\ \A c \in ScreenCalls : offered[c] # "NONE" =>
         /\ callPc[c] # "unsent"
         /\ call[c].org = Company /\ call[c].actor = Person
         /\ IsAccepted(offered[c], call[c].subject, call[c].change, call[c].seen)

\* The card's invitation among those sent: its id is its own, and no other's.
CardIsOfItsEdition ==
    /\ invite.request <= invite.lastRequest
    /\ \A a \in sent :
         /\ a.request <= invite.lastRequest /\ a.edition <= invite.edition
         /\ a.request = invite.request <=> a.edition = invite.edition
         /\ a.request = invite.request => a.draft = invite.draft

\* The inductive invariant of the screen beside the two functions.
ScreenInv ==
    /\ ScreenTypeOK /\ ScreenRowsArePast /\ OffersAreSound
    /\ CardIsOfItsEdition /\ InvitationsKeepTheirId

-----------------------------------------------------------------------------
(* The table moves on, and what the screen holds stays in the past.        *)

\* A step of a call leaves a row, or gives it the next version.
LEMMA RowsMoveOn ==
    ASSUME IInv, NEW c \in Calls, Step(c) \/ List(c), NEW o \in Organizations, NEW u \in Users
    PROVE  \/ memberships'[o][u] = memberships[o][u]
           \/ memberships'[o][u].version = memberships[o][u].version + 1
<1>1. CASE UNCHANGED memberships
  BY <1>1
<1>2. CASE ~UNCHANGED memberships
  <2>. DEFINE k == call[c]
              row == memberships[k.org][k.subject]
              role == NewRole(row, k.change)
              status == NewStatus(row, k.change)
  <2>1. Update(c)
    BY <1>2 DEF Step, List, Authorise, Lock, Check
  <2>2. memberships' = Written(memberships, k.org, k.subject, role, status, k.actor)
    BY <2>1, <1>2 DEF Update
  <2>3. /\ k \in Arguments /\ memberships \in Tables
        /\ Verdict(memberships, k) = "CHANGED"
    BY <2>1 DEF IInv, Update, CallsAreFormed, TypeOK, CheckedStandsUntilWritten
  <2>4. /\ k.org \in Organizations /\ k.subject \in Users /\ k.actor \in Authors
        /\ role \in Roles /\ status \in Statuses
    BY <2>3, VerdictGivesAuthority DEF Arguments, Authors
  <2>. HIDE DEF k, role, status
  <2>5. /\ memberships'[k.org][k.subject] = Stamped(row, role, status, k.actor)
        /\ \A p \in Organizations, v \in Users :
             p # k.org \/ v # k.subject => memberships'[p][v] = memberships[p][v]
    BY <2>2, <2>3, <2>4, WrittenTable
  <2>6. memberships'[k.org][k.subject].version = memberships[k.org][k.subject].version + 1
    BY <2>5 DEF Stamped
  <2>. QED
    BY <2>5, <2>6
<1>. QED
  BY <1>1, <1>2

\* A row of the past stays one.
LEMMA PastStaysPast ==
    ASSUME IInv, NEW c \in Calls, Step(c) \/ List(c), NEW u \in Users,
           NEW row \in Rows \cup {NoRow}, IsPast(u, row)
    PROVE  IsPast(u, row)'
<1>. PICK now : now = memberships[Company][u]
  OBVIOUS
<1>. PICK later : later = memberships'[Company][u]
  OBVIOUS
<1>1. Company \in Organizations
  BY ScreenAssumption
<1>2. now \in Rows \cup {NoRow}
  BY <1>1 DEF IInv, TypeOK, Tables
<1>3. now.version \in Nat /\ row.version \in Nat
  BY <1>2 DEF Rows, NoRow
<1>4. row.version <= now.version /\ (row.version = now.version => row = now)
  BY DEF IsPast
<1>5. later = now \/ later.version = now.version + 1
  BY <1>1, RowsMoveOn
<1>6. row.version <= later.version /\ (row.version = later.version => row = later)
  <2>1. CASE later = now
    BY <2>1, <1>4
  <2>2. CASE later.version = now.version + 1
    <3>1. \A m, n \in Nat : m <= n => m <= n + 1 /\ m # n + 1
      OBVIOUS
    <3>. QED
      BY <3>1, <2>2, <1>3, <1>4
  <2>. QED
    BY <1>5, <2>1, <2>2
<1>. QED
  BY <1>6 DEF IsPast

\* The screen's part stands while only a call takes a step.
LEMMA ScreenStands ==
    ASSUME IInv, ScreenInv, NEW c \in Calls,
           Step(c) \/ (c \notin ScreenCalls /\ List(c)), UNCHANGED screenVars
    PROVE  ScreenInv'
<1>1. ScreenTypeOK' /\ CardIsOfItsEdition' /\ InvitationsKeepTheirId'
  BY DEF ScreenInv, screenVars, ScreenTypeOK, CardIsOfItsEdition, InvitationsKeepTheirId
<1>2. \A u \in Users, row \in Rows \cup {NoRow} : IsPast(u, row) => IsPast(u, row)'
  BY PastStaysPast
<1>3. ScreenRowsArePast'
  <2>1. /\ \A u \in Users : shown.members[u] \in Rows \cup {NoRow}
        /\ \A l \in Loads, u \in Users : load[l].members[u] \in Rows \cup {NoRow}
        /\ \A p \in pending : p.subject \in Users /\ p.row \in Rows
    BY DEF ScreenInv, ScreenTypeOK, Members
  <2>2. AllPast(shown.members)'
    BY <2>1, <1>2 DEF ScreenInv, ScreenRowsArePast, AllPast, screenVars, IsPast
  <2>3. ASSUME NEW l \in Loads
        PROVE  AllPast(load[l].members)'
    BY <2>1, <1>2 DEF ScreenInv, ScreenRowsArePast, AllPast, screenVars, IsPast
  <2>4. ASSUME NEW p \in pending
        PROVE  IsPast(p.subject, p.row)'
    BY <2>1, <1>2 DEF ScreenInv, ScreenRowsArePast, screenVars, IsPast
  <2>. QED
    BY <2>2, <2>3, <2>4 DEF ScreenRowsArePast, screenVars
<1>4. OffersAreSound'
  <2>1. \A d \in Calls : callPc[d] # "unsent" => callPc'[d] # "unsent" /\ call'[d] = call[d]
    BY DEF IInv, TypeOK, Step, List, Authorise, Lock, Check, Update, Answer
  <2>. QED
    BY <2>1, ScreenAssumption DEF ScreenInv, OffersAreSound, IsAccepted, screenVars
<1>. QED
  BY <1>1, <1>3, <1>4 DEF ScreenInv

-----------------------------------------------------------------------------
(* What a load does to what the screen shows, and to the card.             *)

\* A card that is begun anew has no id yet, and an edition nobody has sent.
LEMMA NewCardIsFresh ==
    ASSUME ScreenInv, invite' = NewCard(invite.edition + 1, invite.lastRequest), sent' = sent
    PROVE  CardIsOfItsEdition' /\ InvitationsKeepTheirId'
<1>. PICK card : card = invite
  OBVIOUS
<1>1. /\ card.edition \in Nat /\ card.lastRequest \in Nat /\ card.request <= card.lastRequest
      /\ \A a \in sent : /\ a.request \in Nat \ {0} /\ a.edition \in Nat
                         /\ a.request <= card.lastRequest /\ a.edition <= card.edition
  BY DEF ScreenInv, ScreenTypeOK, CardIsOfItsEdition
<1>2. /\ invite'.request = 0 /\ invite'.edition = card.edition + 1
      /\ invite'.lastRequest = card.lastRequest
  BY DEF NewCard
<1>3. \A m, n \in Nat : m <= n => m <= n + 1 /\ m # n + 1
  OBVIOUS
<1>4. CardIsOfItsEdition'
  BY <1>1, <1>2, <1>3 DEF CardIsOfItsEdition
<1>. QED
  BY <1>4 DEF ScreenInv, InvitationsKeepTheirId

\* NewCard has the card's type.
LEMMA NewCardType ==
    ASSUME NEW edition \in Nat, NEW lastRequest \in Nat
    PROVE  NewCard(edition, lastRequest) \in
             [draft : Invitations, request : Nat, busy : BOOLEAN, edition : Nat, lastRequest : Nat]
BY ScreenAssumption DEF NewCard

LoadRecords ==
    [pc : {"idle", "own", "members", "attempts"}, role : Roles \cup {"NONE"}, members : Members]

\* A load goes on, or ends and presents what it has read; the card stays or is
\* begun anew.
LEMMA LoadingPreserves ==
    ASSUME ScreenInv, NEW l \in Loads, NEW r \in LoadRecords, AllPast(r.members),
           load' = [load EXCEPT ![l] = r],
           NEW answer \in [role : Roles \cup {"NONE"}, members : Members],
           AllPast(answer.members), shown' = answer,
           busy' \in ScreenCalls \cup {None},
           invite' = invite \/ invite' = NewCard(invite.edition + 1, invite.lastRequest),
           UNCHANGED <<vars, pending, offered, sent>>
    PROVE  ScreenInv'
<1>1. ScreenTypeOK'
  <2>1. invite' \in [draft : Invitations, request : Nat, busy : BOOLEAN, edition : Nat,
                     lastRequest : Nat]
    <3>. PICK new : new = NewCard(invite.edition + 1, invite.lastRequest)
      OBVIOUS
    <3>1. invite.edition + 1 \in Nat /\ invite.lastRequest \in Nat
      BY DEF ScreenInv, ScreenTypeOK
    <3>2. new \in [draft : Invitations, request : Nat, busy : BOOLEAN, edition : Nat,
                   lastRequest : Nat]
      BY <3>1, NewCardType
    <3>3. invite' = invite \/ invite' = new
      OBVIOUS
    <3>. QED
      BY <3>2, <3>3 DEF ScreenInv, ScreenTypeOK
  <2>2. load' \in [Loads -> LoadRecords]
    BY DEF ScreenInv, ScreenTypeOK, LoadRecords
  <2>. QED
    BY <2>1, <2>2 DEF ScreenInv, ScreenTypeOK, LoadRecords
<1>2. ScreenRowsArePast'
  <2>1. UNCHANGED memberships
    BY DEF vars
  <2>2. AllPast(shown.members)'
    BY <2>1 DEF AllPast, IsPast
  <2>3. ASSUME NEW m \in Loads
        PROVE  AllPast(load[m].members)'
    BY <2>1 DEF ScreenInv, ScreenTypeOK, ScreenRowsArePast, AllPast, IsPast
  <2>4. ASSUME NEW p \in pending
        PROVE  IsPast(p.subject, p.row)'
    BY <2>1 DEF ScreenInv, ScreenRowsArePast, IsPast
  <2>. QED
    BY <2>2, <2>3, <2>4 DEF ScreenRowsArePast
<1>3. OffersAreSound'
  BY DEF ScreenInv, OffersAreSound, IsAccepted, vars, administrationVars
<1>4. CardIsOfItsEdition' /\ InvitationsKeepTheirId'
  BY NewCardIsFresh DEF ScreenInv, CardIsOfItsEdition, InvitationsKeepTheirId
<1>. QED
  BY <1>1, <1>2, <1>3, <1>4 DEF ScreenInv

\* Nothing read, nothing shown: nobody's row is that.
LEMMA NothingIsPast ==
    ASSUME IInv
    PROVE  /\ NotLoading \in LoadRecords /\ AllPast(NotLoading.members)
           /\ NothingShown \in [role : Roles \cup {"NONE"}, members : Members]
           /\ AllPast(NothingShown.members)
<1>1. \A u \in Users : IsPast(u, NoRow)
  <2>1. memberships \in Tables /\ Company \in Organizations
    BY ScreenAssumption DEF IInv, TypeOK
  <2>. QED
    BY <2>1 DEF IsPast, NoRow, Tables, Rows
<1>. QED
  BY <1>1 DEF NotLoading, NothingShown, LoadRecords, Members, AllPast

\* Every step of a load.
LEMMA LoadNextPreserves ==
    ASSUME IInv, ScreenInv, NEW l \in Loads, LoadNext(l)
    PROVE  ScreenInv'
<1>0. /\ load[l] \in LoadRecords /\ AllPast(load[l].members)
      /\ shown \in [role : Roles \cup {"NONE"}, members : Members] /\ AllPast(shown.members)
      /\ busy \in ScreenCalls \cup {None}
  BY DEF ScreenInv, ScreenTypeOK, ScreenRowsArePast, LoadRecords
<1>1. CASE Load(l)
  <2>. PICK r : r = [load[l] EXCEPT !.pc = "own"]
    OBVIOUS
  <2>1. r \in LoadRecords /\ r.members = load[l].members
    BY <1>0 DEF LoadRecords
  <2>2. load' = [load EXCEPT ![l] = r]
    BY <1>1 DEF Load, BeginsToLoad
  <2>. QED
    BY <1>0, <1>1, <2>1, <2>2, LoadingPreserves DEF Load
<1>2. CASE LoadOwn(l)
  <2>. PICK role : role = ActiveRole(memberships, Company, Person)
    OBVIOUS
  <2>1. CASE role \in AdministratorRoles
    <3>. PICK r : r = [load[l] EXCEPT !.pc = "members", !.role = role]
      OBVIOUS
    <3>1. r \in LoadRecords /\ r.members = load[l].members
      BY <1>0, <2>1 DEF LoadRecords, AdministratorRoles, Roles
    <3>2. load' = [load EXCEPT ![l] = r]
      BY <1>2, <2>1 DEF LoadOwn
    <3>. QED
      BY <1>0, <1>2, <2>1, <3>1, <3>2, LoadingPreserves DEF LoadOwn
  <2>2. CASE role \notin AdministratorRoles
    <3>. PICK answer : answer = [role |-> role, members |-> NothingShown.members]
      OBVIOUS
    <3>1. role \in Roles \cup {"NONE"}
      <4>1. memberships[Company][Person] \in Rows \cup {NoRow}
        BY ScreenAssumption DEF IInv, TypeOK, Tables
      <4>. QED
        BY <4>1 DEF ActiveRole, Rows, NoRow
    <3>2. /\ answer \in [role : Roles \cup {"NONE"}, members : Members]
          /\ AllPast(answer.members)
      BY <3>1, NothingIsPast DEF NothingShown
    <3>3. /\ load' = [load EXCEPT ![l] = NotLoading] /\ shown' = answer
          /\ invite' = invite \/ invite' = NewCard(invite.edition + 1, invite.lastRequest)
          /\ UNCHANGED <<vars, pending, busy, offered, sent>>
      BY <1>2, <2>2 DEF LoadOwn, Present
    <3>. QED
      BY <1>0, <3>2, <3>3, NothingIsPast, LoadingPreserves
  <2>. QED
    BY <2>1, <2>2
<1>3. CASE LoadMembers(l)
  <2>1. CASE IsAdministrator(memberships, Company, Person)
    <3>. PICK r : r = [load[l] EXCEPT !.pc = "attempts", !.members = memberships[Company]]
      OBVIOUS
    <3>1. memberships[Company] \in Members
      BY ScreenAssumption DEF IInv, TypeOK, Tables, Members
    <3>2. r \in LoadRecords /\ r.members = memberships[Company]
      BY <1>0, <3>1 DEF LoadRecords
    <3>3. AllPast(r.members)
      <4>1. \A u \in Users : memberships[Company][u].version \in Nat
        BY <3>1 DEF Members, Rows, NoRow
      <4>. QED
        BY <3>2, <4>1 DEF AllPast, IsPast
    <3>4. load' = [load EXCEPT ![l] = r]
      BY <1>3, <2>1 DEF LoadMembers
    <3>. QED
      BY <1>0, <1>3, <3>2, <3>3, <3>4, LoadingPreserves DEF LoadMembers
  <2>2. CASE ~IsAdministrator(memberships, Company, Person)
    <3>1. load' = [load EXCEPT ![l] = NotLoading]
      BY <1>3, <2>2 DEF LoadMembers
    <3>. QED
      BY <1>0, <1>3, <3>1, NothingIsPast, LoadingPreserves DEF LoadMembers
  <2>. QED
    BY <2>1, <2>2
<1>4. CASE LoadEnds(l)
  <2>. PICK answer : answer = [role |-> load[l].role, members |-> load[l].members]
    OBVIOUS
  <2>1. /\ answer \in [role : Roles \cup {"NONE"}, members : Members]
        /\ AllPast(answer.members)
    BY <1>0 DEF LoadRecords
  <2>2. /\ load' = [load EXCEPT ![l] = NotLoading] /\ shown' = answer
        /\ invite' = invite \/ invite' = NewCard(invite.edition + 1, invite.lastRequest)
        /\ UNCHANGED <<vars, pending, busy, offered, sent>>
    BY <1>4 DEF LoadEnds, Present
  <2>. QED
    BY <1>0, <2>1, <2>2, NothingIsPast, LoadingPreserves
<1>5. CASE LoadFails(l)
  BY <1>0, <1>5, NothingIsPast, LoadingPreserves DEF LoadFails
<1>. QED
  BY <1>1, <1>2, <1>3, <1>4, <1>5 DEF LoadNext

\* A call's answer and an invitation's success begin a load.
LEMMA BeginningPreserves ==
    ASSUME ScreenInv, NEW l \in Loads, RunEnds(l) \/ InvitationSucceeds(l)
    PROVE  ScreenInv'
<1>0. /\ load[l] \in LoadRecords /\ AllPast(load[l].members)
      /\ shown \in [role : Roles \cup {"NONE"}, members : Members] /\ AllPast(shown.members)
      /\ busy \in ScreenCalls \cup {None}
  BY DEF ScreenInv, ScreenTypeOK, ScreenRowsArePast, LoadRecords
<1>. PICK r : r = [load[l] EXCEPT !.pc = "own"]
  OBVIOUS
<1>1. r \in LoadRecords /\ r.members = load[l].members
  BY <1>0 DEF LoadRecords
<1>2. load' = [load EXCEPT ![l] = r] /\ shown' = shown
  BY DEF RunEnds, InvitationSucceeds, BeginsToLoad
<1>3. CASE RunEnds(l)
  BY <1>0, <1>1, <1>2, <1>3, LoadingPreserves DEF RunEnds
<1>4. CASE InvitationSucceeds(l)
  BY <1>0, <1>1, <1>2, <1>4, LoadingPreserves DEF InvitationSucceeds
<1>. QED
  BY <1>3, <1>4

-----------------------------------------------------------------------------
(* The dialog.                                                             *)

\* What canManage and assignableRoles offer is accepted.
LEMMA ChoosePreserves ==
    ASSUME ScreenInv, NEW subject \in Users, NEW change \in Changes, Choose(subject, change)
    PROVE  ScreenInv'
<1>. PICK row : row = shown.members[subject]
  OBVIOUS
<1>. PICK role : role = shown.role
  OBVIOUS
<1>. PICK p : p = [subject |-> subject, change |-> change, row |-> row, role |-> role]
  OBVIOUS
<1>1. pending' = {p} /\ row # NoRow /\ CanManage(role, subject, row)
  BY DEF Choose
<1>2. row \in Rows
  BY <1>1 DEF ScreenInv, ScreenTypeOK, Members
<1>3. IsAccepted(role, subject, change, row)
  <2>1. change \in AssignableRoles(role) \ {row.role} \/ change = Opposite(row.status)
    BY DEF Choose
  <2>2. role = "OWNER" \/ change # "OWNER"
    BY <1>1, <2>1 DEF CanManage, AdministratorRoles, AssignableRoles, Opposite
  <2>. QED
    BY <1>1, <1>2, <2>2 DEF CanManage, IsAccepted
<1>4. ScreenTypeOK'
  BY <1>1, <1>2, <1>3 DEF ScreenInv, ScreenTypeOK, Choose, IsAccepted
<1>5. ScreenRowsArePast'
  BY <1>1 DEF ScreenInv, ScreenRowsArePast, AllPast, IsPast, Choose, vars
<1>6. OffersAreSound'
  BY <1>1, <1>3 DEF ScreenInv, OffersAreSound, IsAccepted, Choose, vars, administrationVars
<1>7. CardIsOfItsEdition' /\ InvitationsKeepTheirId'
  BY DEF ScreenInv, CardIsOfItsEdition, InvitationsKeepTheirId, Choose
<1>. QED
  BY <1>4, <1>5, <1>6, <1>7 DEF ScreenInv

\* A dialog that is put away leaves nothing behind.
LEMMA CancelPreserves ==
    ASSUME ScreenInv, CancelPending
    PROVE  ScreenInv'
<1>1. ScreenTypeOK'
  BY DEF ScreenInv, ScreenTypeOK, CancelPending
<1>2. ScreenRowsArePast'
  BY DEF ScreenInv, ScreenRowsArePast, AllPast, IsPast, CancelPending, vars
<1>3. OffersAreSound'
  BY DEF ScreenInv, OffersAreSound, IsAccepted, CancelPending, vars, administrationVars
<1>4. CardIsOfItsEdition' /\ InvitationsKeepTheirId'
  BY DEF ScreenInv, CardIsOfItsEdition, InvitationsKeepTheirId, CancelPending
<1>. QED
  BY <1>1, <1>2, <1>3, <1>4 DEF ScreenInv

\* The call is sent with the row of the dialog, however old it is.
LEMMA ConfirmPreserves ==
    ASSUME IInv, ScreenInv, NEW c \in ScreenCalls, ConfirmPending(c)
    PROVE  IInv' /\ ScreenInv'
<1>. PICK p \in pending :
        /\ call' = [call EXCEPT ![c] =
                       [org |-> Company, actor |-> Person, subject |-> p.subject,
                        change |-> p.change, seen |-> p.row]]
        /\ offered' = [offered EXCEPT ![c] = p.role]
  BY DEF ConfirmPending
<1>. DEFINE k == [org |-> Company, actor |-> Person, subject |-> p.subject,
                  change |-> p.change, seen |-> p.row]
<1>1. /\ p.subject \in Users /\ p.change \in Changes /\ p.row \in Rows
      /\ p.role \in AdministratorRoles
      /\ IsAccepted(p.role, p.subject, p.change, p.row) /\ IsPast(p.subject, p.row)
  BY DEF ScreenInv, ScreenTypeOK, ScreenRowsArePast, OffersAreSound
<1>2. k \in Arguments /\ SeenIsPast(k)
  BY <1>1, ScreenAssumption DEF Arguments, SeenIsPast, IsPast
<1>3. /\ k.org = Company /\ k.actor = Person /\ k.subject = p.subject
      /\ k.change = p.change /\ k.seen = p.row
  OBVIOUS
<1>4. call' = [call EXCEPT ![c] = k]
  OBVIOUS
<1>. HIDE DEF k
<1>5. c \in Calls /\ callPc[c] = "unsent"
  BY ScreenAssumption DEF ConfirmPending
<1>6. IInv'
  BY <1>2, <1>4, <1>5, SendingPreserves DEF ConfirmPending
<1>7. ScreenTypeOK'
  BY <1>1 DEF ScreenInv, ScreenTypeOK, ConfirmPending
<1>8. ScreenRowsArePast'
  BY DEF ScreenInv, ScreenRowsArePast, AllPast, IsPast, ConfirmPending
<1>9. OffersAreSound'
  <2>1. pending' = {}
    BY DEF ConfirmPending
  <2>2. ASSUME NEW d \in ScreenCalls, offered'[d] # "NONE"
        PROVE  /\ callPc'[d] # "unsent"
               /\ call'[d].org = Company /\ call'[d].actor = Person
               /\ IsAccepted(offered'[d], call'[d].subject, call'[d].change, call'[d].seen)
    <3>1. CASE d = c
      <4>1. call'[d] = k /\ offered'[d] = p.role /\ callPc'[d] = "listed"
        BY <1>4, <1>5, <3>1 DEF IInv, TypeOK, ScreenInv, ScreenTypeOK, ConfirmPending
      <4>. QED
        BY <4>1, <1>1, <1>3
    <3>2. CASE d # c
      <4>1. call'[d] = call[d] /\ offered'[d] = offered[d] /\ callPc'[d] = callPc[d]
        BY <1>4, <1>5, <3>2, ScreenAssumption
        DEF IInv, TypeOK, ScreenInv, ScreenTypeOK, ConfirmPending
      <4>. QED
        BY <4>1, <2>2 DEF ScreenInv, OffersAreSound
    <3>. QED
      BY <3>1, <3>2
  <2>. QED
    BY <2>1, <2>2 DEF OffersAreSound, IsAccepted
<1>10. CardIsOfItsEdition' /\ InvitationsKeepTheirId'
  BY DEF ScreenInv, CardIsOfItsEdition, InvitationsKeepTheirId, ConfirmPending
<1>. QED
  BY <1>6, <1>7, <1>8, <1>9, <1>10 DEF ScreenInv

-----------------------------------------------------------------------------
(* The invitation card.                                                    *)

\* What a step of the card leaves alone.
LEMMA CardAlone ==
    ASSUME ScreenInv, UNCHANGED <<vars, load, shown, pending, busy, offered>>
    PROVE  ScreenRowsArePast' /\ OffersAreSound'
<1>1. ScreenRowsArePast'
  BY DEF ScreenInv, ScreenRowsArePast, AllPast, IsPast, vars
<1>. QED
  BY <1>1 DEF ScreenInv, OffersAreSound, IsAccepted, vars, administrationVars

\* A changed draft is another edition, without an id.
LEMMA UpdateInvitationPreserves ==
    ASSUME ScreenInv, NEW draft \in Invitations, UpdateInvitation(draft)
    PROVE  ScreenInv'
<1>. PICK card : card = invite
  OBVIOUS
<1>1. /\ card.edition \in Nat /\ card.lastRequest \in Nat /\ card.request <= card.lastRequest
      /\ \A a \in sent : /\ a.request \in Nat \ {0} /\ a.edition \in Nat
                         /\ a.request <= card.lastRequest /\ a.edition <= card.edition
  BY DEF ScreenInv, ScreenTypeOK, CardIsOfItsEdition
<1>2. /\ invite'.request = 0 /\ invite'.edition = card.edition + 1
      /\ invite'.lastRequest = card.lastRequest /\ sent' = sent
  BY DEF UpdateInvitation, AfterUpdate, ScreenInv, ScreenTypeOK
<1>3. ScreenTypeOK'
  <2>1. invite' = [draft |-> draft, request |-> 0, busy |-> card.busy,
                   edition |-> card.edition + 1, lastRequest |-> card.lastRequest]
    BY DEF UpdateInvitation, AfterUpdate, ScreenInv, ScreenTypeOK
  <2>2. card.busy \in BOOLEAN /\ card.edition + 1 \in Nat
    BY <1>1 DEF ScreenInv, ScreenTypeOK
  <2>3. invite' \in [draft : Invitations, request : Nat, busy : BOOLEAN, edition : Nat,
                     lastRequest : Nat]
    BY <1>1, <2>1, <2>2
  <2>. QED
    BY <2>3 DEF UpdateInvitation, ScreenInv, ScreenTypeOK
<1>4. CardIsOfItsEdition'
  <2>1. \A m, n \in Nat : m <= n => m <= n + 1 /\ m # n + 1
    OBVIOUS
  <2>. QED
    BY <1>1, <1>2, <2>1 DEF CardIsOfItsEdition
<1>5. InvitationsKeepTheirId'
  BY <1>2 DEF ScreenInv, InvitationsKeepTheirId
<1>. QED
  BY <1>3, <1>4, <1>5, CardAlone DEF ScreenInv, UpdateInvitation

\* The first submit of an edition takes an id nobody has; a retry takes its own.
LEMMA SubmitPreserves ==
    ASSUME ScreenInv, Submit
    PROVE  ScreenInv'
<1>. PICK card : card = invite
  OBVIOUS
<1>. PICK request : request = IF card.request = 0 THEN card.lastRequest + 1 ELSE card.request
  OBVIOUS
<1>. PICK lastRequest : lastRequest = IF card.lastRequest < request THEN request
                                      ELSE card.lastRequest
  OBVIOUS
<1>. PICK new : new = [request |-> request, draft |-> card.draft, edition |-> card.edition]
  OBVIOUS
<1>1. /\ card.edition \in Nat /\ card.request \in Nat /\ card.lastRequest \in Nat
      /\ card.draft \in Invitations /\ card.request <= card.lastRequest
      /\ \A a \in sent :
           /\ a.request \in Nat \ {0} /\ a.edition \in Nat
           /\ a.request <= card.lastRequest /\ a.edition <= card.edition
           /\ a.request = card.request <=> a.edition = card.edition
           /\ a.request = card.request => a.draft = card.draft
  BY DEF ScreenInv, ScreenTypeOK, CardIsOfItsEdition
<1>2. /\ invite' = [card EXCEPT !.request = request, !.busy = card.draft \notin Malformed,
                                !.lastRequest = lastRequest]
      /\ sent' = sent \/ sent' = sent \cup {new}
  BY DEF Submit
<1>3. request \in Nat \ {0} /\ lastRequest \in Nat /\ request <= lastRequest
  BY <1>1
<1>4. \A a \in sent :
        /\ a.request <= lastRequest
        /\ a.request = request <=> a.edition = card.edition
        /\ a.request = request => a.draft = card.draft
  <2>1. CASE card.request = 0
    BY <1>1, <2>1
  <2>2. CASE card.request # 0
    BY <1>1, <2>2
  <2>. QED
    BY <2>1, <2>2
<1>5. /\ invite'.request = request /\ invite'.edition = card.edition
      /\ invite'.lastRequest = lastRequest /\ invite'.draft = card.draft
  BY <1>2 DEF ScreenInv, ScreenTypeOK
<1>6. ScreenTypeOK'
  <2>1. invite' \in [draft : Invitations, request : Nat, busy : BOOLEAN, edition : Nat,
                     lastRequest : Nat]
    BY <1>2, <1>3 DEF ScreenInv, ScreenTypeOK
  <2>2. sent' \subseteq [request : Nat \ {0}, draft : Invitations, edition : Nat]
    BY <1>1, <1>2, <1>3 DEF ScreenInv, ScreenTypeOK
  <2>. QED
    BY <2>1, <2>2 DEF ScreenInv, ScreenTypeOK, Submit
<1>7. new.request = request /\ new.edition = card.edition /\ new.draft = card.draft
  OBVIOUS
<1>8. CardIsOfItsEdition'
  BY <1>1, <1>2, <1>3, <1>4, <1>5, <1>7 DEF CardIsOfItsEdition
<1>9. InvitationsKeepTheirId'
  <2>1. SUFFICES ASSUME NEW a \in sent', NEW b \in sent'
                 PROVE  /\ a.request = b.request <=> a.edition = b.edition
                        /\ a.request = b.request => a.draft = b.draft
    BY DEF InvitationsKeepTheirId
  <2>2. (a \in sent \/ a = new) /\ (b \in sent \/ b = new)
    BY <1>2
  <2>3. CASE a \in sent /\ b \in sent
    BY <2>3 DEF ScreenInv, InvitationsKeepTheirId
  <2>4. CASE a = new \/ b = new
    BY <1>4, <1>7, <2>2, <2>4
  <2>. QED
    BY <2>2, <2>3, <2>4
<1>. QED
  BY <1>6, <1>8, <1>9, CardAlone DEF ScreenInv, Submit

\* What failed keeps its draft and its id.
LEMMA FailurePreserves ==
    ASSUME ScreenInv, InvitationFails
    PROVE  ScreenInv'
<1>1. ScreenTypeOK'
  BY DEF ScreenInv, ScreenTypeOK, InvitationFails
<1>2. CardIsOfItsEdition' /\ InvitationsKeepTheirId'
  BY DEF ScreenInv, ScreenTypeOK, CardIsOfItsEdition, InvitationsKeepTheirId, InvitationFails
<1>. QED
  BY <1>1, <1>2, CardAlone DEF ScreenInv, InvitationFails

-----------------------------------------------------------------------------
(* The screen's specification.                                             *)

\* Nothing is loaded, asked or typed.
LEMMA ScreenInitEstablishes == Init /\ ScreenInit => IInv /\ ScreenInv
<1>. SUFFICES ASSUME Init, ScreenInit
              PROVE  IInv /\ ScreenInv
  OBVIOUS
<1>1. IInv
  BY InitEstablishes
<1>2. /\ NotLoading \in LoadRecords /\ AllPast(NotLoading.members)
      /\ NothingShown \in [role : Roles \cup {"NONE"}, members : Members]
      /\ AllPast(NothingShown.members)
  BY <1>1, NothingIsPast
<1>3. ScreenTypeOK
  <2>1. load \in [Loads -> LoadRecords]
    BY <1>2 DEF ScreenInit
  <2>2. invite \in [draft : Invitations, request : Nat, busy : BOOLEAN, edition : Nat,
                    lastRequest : Nat]
    BY NewCardType DEF ScreenInit
  <2>. QED
    BY <1>2, <2>1, <2>2 DEF ScreenInit, ScreenTypeOK, LoadRecords
<1>4. ScreenRowsArePast
  BY <1>2 DEF ScreenInit, ScreenRowsArePast
<1>5. OffersAreSound
  BY DEF ScreenInit, OffersAreSound
<1>6. CardIsOfItsEdition /\ InvitationsKeepTheirId
  BY DEF ScreenInit, CardIsOfItsEdition, InvitationsKeepTheirId, NewCard
<1>. QED
  BY <1>1, <1>3, <1>4, <1>5, <1>6 DEF ScreenInv

\* A step of a call keeps the invariant of the two functions.
LEMMA CallsPreserve ==
    ASSUME IInv, NEW c \in Calls, Step(c) \/ List(c)
    PROVE  IInv'
BY StepPreserves DEF Next

\* The two functions' variables are left alone.
LEMMA FunctionsStand == ASSUME IInv, UNCHANGED vars PROVE IInv'
BY StepPreserves

\* Every action of the screen and of the others preserves both invariants.
LEMMA OrganizationPreserves ==
    IInv /\ ScreenInv /\ [PeopleNext \/ InviteNext]_organizationVars => IInv' /\ ScreenInv'
<1>. SUFFICES ASSUME IInv, ScreenInv, [PeopleNext \/ InviteNext]_organizationVars
              PROVE  IInv' /\ ScreenInv'
  OBVIOUS
<1>1. ASSUME NEW l \in Loads, LoadNext(l)
      PROVE  IInv' /\ ScreenInv'
  <2>1. UNCHANGED vars
    BY <1>1 DEF LoadNext, Load, LoadOwn, LoadMembers, LoadEnds, LoadFails
  <2>. QED
    BY <1>1, <2>1, FunctionsStand, LoadNextPreserves
<1>2. ASSUME NEW l \in Loads, RunEnds(l) \/ InvitationSucceeds(l)
      PROVE  IInv' /\ ScreenInv'
  <2>1. UNCHANGED vars
    BY <1>2 DEF RunEnds, InvitationSucceeds
  <2>. QED
    BY <1>2, <2>1, FunctionsStand, BeginningPreserves
<1>3. ASSUME NEW subject \in Users, NEW change \in Changes, Choose(subject, change)
      PROVE  IInv' /\ ScreenInv'
  BY <1>3, FunctionsStand, ChoosePreserves DEF Choose
<1>4. ASSUME CancelPending
      PROVE  IInv' /\ ScreenInv'
  BY <1>4, FunctionsStand, CancelPreserves DEF CancelPending
<1>5. ASSUME NEW c \in ScreenCalls, ConfirmPending(c)
      PROVE  IInv' /\ ScreenInv'
  BY <1>5, ConfirmPreserves
<1>6. ASSUME NEW c \in Calls \ ScreenCalls, List(c), UNCHANGED screenVars
      PROVE  IInv' /\ ScreenInv'
  BY <1>6, CallsPreserve, ScreenStands
<1>7. ASSUME NEW c \in Calls, Step(c), UNCHANGED screenVars
      PROVE  IInv' /\ ScreenInv'
  BY <1>7, CallsPreserve, ScreenStands
<1>8. ASSUME NEW draft \in Invitations, UpdateInvitation(draft)
      PROVE  IInv' /\ ScreenInv'
  BY <1>8, FunctionsStand, UpdateInvitationPreserves DEF UpdateInvitation
<1>9. ASSUME Submit
      PROVE  IInv' /\ ScreenInv'
  BY <1>9, FunctionsStand, SubmitPreserves DEF Submit
<1>10. ASSUME InvitationFails
       PROVE  IInv' /\ ScreenInv'
  BY <1>10, FunctionsStand, FailurePreserves DEF InvitationFails
<1>11. ASSUME UNCHANGED organizationVars
       PROVE  IInv' /\ ScreenInv'
  <2>1. UNCHANGED vars /\ UNCHANGED screenVars
    BY <1>11 DEF organizationVars
  <2>2. ScreenTypeOK' /\ CardIsOfItsEdition' /\ InvitationsKeepTheirId'
    BY <2>1 DEF ScreenInv, screenVars, ScreenTypeOK, CardIsOfItsEdition, InvitationsKeepTheirId
  <2>. QED
    BY <2>1, <2>2, FunctionsStand, CardAlone DEF ScreenInv, screenVars
<1>12. CASE PeopleNext
  BY <1>1, <1>2, <1>3, <1>4, <1>5, <1>6, <1>7, <1>12 DEF PeopleNext
<1>13. CASE InviteNext
  BY <1>1, <1>2, <1>6, <1>7, <1>8, <1>9, <1>10, <1>13 DEF InviteNext
<1>. QED
  BY <1>11, <1>12, <1>13

\* The invariant the theorems below are read off.
LEMMA ScreenInvariance == OrganizationSpec => [](IInv /\ ScreenInv)
<1>1. Init /\ ScreenInit => IInv /\ ScreenInv
  BY ScreenInitEstablishes
<1>. QED
  BY <1>1, OrganizationPreserves, PTL DEF OrganizationSpec

\* Every variable of the screen keeps its type.
THEOREM ScreenTypeCorrectness == OrganizationSpec => []ScreenTypeOK
<1>1. ScreenInv => ScreenTypeOK
  BY DEF ScreenInv
<1>. QED
  BY <1>1, ScreenInvariance, PTL

\* However often an invitation is retried, typed anew or given up, and whatever
\* is loaded meanwhile: a request id stands for one of them.
THEOREM InvitationsKeepId == OrganizationSpec => []InvitationsKeepTheirId
<1>1. ScreenInv => InvitationsKeepTheirId
  BY DEF ScreenInv
<1>. QED
  BY <1>1, ScreenInvariance, PTL

\* A call answers with its outcome only in its own steps.
LEMMA OnlyStepsAnswer ==
    ASSUME IInv, PeopleNext \/ InviteNext \/ UNCHANGED organizationVars, NEW c \in Calls,
           outcome'[c] # outcome[c]
    PROVE  Step(c)
<1>1. PICK d \in Calls : Step(d)
  BY DEF PeopleNext, InviteNext, LoadNext, Load, LoadOwn, LoadMembers, LoadEnds, LoadFails,
     RunEnds, InvitationSucceeds, Choose, CancelPending, ConfirmPending, List,
     UpdateInvitation, Submit, InvitationFails, organizationVars, vars, administrationVars
<1>2. d = c
  BY <1>1 DEF IInv, TypeOK, Step, Authorise, Lock, Check, Update, Answer
<1>. QED
  BY SMTT(30), <1>1, <1>2

\* The screen sends what may be minutes old, and the two functions still lose no
\* update of it, and keep an ACTIVE OWNER.
THEOREM ScreenLosesNothing == OrganizationSpec => []KeepsAnActiveOwner /\ ChangesOnlyWhatWasSeen
<1>. DEFINE Act == \A c \in Calls :
              outcome[c] = "NONE" /\ outcome'[c] = "CHANGED"
                => memberships[call[c].org][call[c].subject] = call[c].seen
<1>1. IInv => KeepsAnActiveOwner
  BY DEF IInv
<1>2. IInv /\ [PeopleNext \/ InviteNext]_organizationVars => [Act]_vars
  <2>. SUFFICES ASSUME IInv, PeopleNext \/ InviteNext, NEW c \in Calls,
                       outcome[c] = "NONE", outcome'[c] = "CHANGED"
                PROVE  memberships[call[c].org][call[c].subject] = call[c].seen
    BY DEF organizationVars
  <2>. QED
    BY OnlyStepsAnswer, OnlyWhatWasSeen
<1>. QED
  BY <1>1, <1>2, ScreenInvariance, PTL DEF OrganizationSpec, ChangesOnlyWhatWasSeen

\* Who sends a change that the screen offered, with the role and the row it was
\* offered on still there, is answered for its version or its sense only.
LEMMA OfferedIsAccepted ==
    ASSUME IInv, ScreenInv, NEW c \in ScreenCalls, offered[c] # "NONE",
           ActiveRole(memberships, Company, Person) = offered[c],
           memberships[Company][call[c].subject] = call[c].seen
    PROVE  Verdict(memberships, call[c]) \notin
             {"OWN_MEMBERSHIP", "NOT_ADMINISTRATOR", "OWNER_ONLY", "RECORD_NOT_FOUND"}
<1>. DEFINE k == call[c]
<1>1. /\ k.org = Company /\ k.actor = Person
      /\ IsAccepted(offered[c], k.subject, k.change, k.seen)
  BY DEF ScreenInv, OffersAreSound
<1>2. MayWrite(offered[c], k.seen, NewRole(k.seen, k.change))
  BY <1>1 DEF IsAccepted, MayWrite, NewRole
<1>3. /\ offered[c] \in AdministratorRoles /\ k.subject # k.actor /\ k.seen # NoRow
  BY <1>1 DEF IsAccepted, Rows, NoRow
<1>. HIDE DEF k
<1>4. memberships[k.org][k.subject] = k.seen /\ ActiveRole(memberships, k.org, k.actor) = offered[c]
  BY <1>1 DEF k
<1>5. Verdict(memberships, k) \notin
        {"OWN_MEMBERSHIP", "NOT_ADMINISTRATOR", "OWNER_ONLY", "RECORD_NOT_FOUND"}
  BY <1>2, <1>3, <1>4 DEF Verdict, StillAdministrator, OwnMembership
<1>. QED
  BY <1>5 DEF k

\* A person is never refused, for what they are or for whom they ask about, a
\* change their screen offered, unless their row or the subject's has moved on.
THEOREM OffersAreAccepted == OrganizationSpec => OffersWhatIsAccepted
<1>. DEFINE Refused == {"OWN_MEMBERSHIP", "NOT_ADMINISTRATOR", "OWNER_ONLY", "RECORD_NOT_FOUND"}
            Act == \A c \in ScreenCalls :
         /\ offered[c] # "NONE" /\ outcome[c] = "NONE"
         /\ outcome'[c] \in {"OWN_MEMBERSHIP", "NOT_ADMINISTRATOR", "OWNER_ONLY",
                             "RECORD_NOT_FOUND"}
         => /\ outcome'[c] # "OWN_MEMBERSHIP"
            /\ \/ ActiveRole(memberships, Company, Person) # offered[c]
               \/ memberships[Company][call[c].subject] # call[c].seen
<1>1. IInv /\ ScreenInv /\ [PeopleNext \/ InviteNext]_organizationVars => [Act]_organizationVars
  <2>. SUFFICES ASSUME IInv, ScreenInv, PeopleNext \/ InviteNext, NEW c \in ScreenCalls,
                       offered[c] # "NONE", outcome[c] = "NONE", outcome'[c] \in Refused
                PROVE  /\ outcome'[c] # "OWN_MEMBERSHIP"
                       /\ \/ ActiveRole(memberships, Company, Person) # offered[c]
                          \/ memberships[Company][call[c].subject] # call[c].seen
    OBVIOUS
  <2>0. c \in Calls /\ Step(c)
    BY ScreenAssumption, OnlyStepsAnswer
  <2>1. /\ call[c].org = Company /\ call[c].actor = Person
        /\ call[c].subject # Person /\ offered[c] \in AdministratorRoles
    BY DEF ScreenInv, OffersAreSound, IsAccepted
  <2>2. CASE Authorise(c)
    <3>1. /\ outcome'[c] = "NOT_ADMINISTRATOR"
          /\ ~IsAdministrator(memberships, Company, Person)
      BY <2>0, <2>1, <2>2 DEF Authorise, Answer, IInv, TypeOK
    <3>. QED
      BY <3>1, <2>1 DEF IsAdministrator
  <2>3. CASE Check(c)
    <3>1. outcome'[c] = Verdict(memberships, call[c])
      BY <2>0, <2>3 DEF Check, Answer, IInv, TypeOK
    <3>2. Verdict(memberships, call[c]) # "OWN_MEMBERSHIP"
      BY <2>1 DEF Verdict, OwnMembership
    <3>. QED
      BY <3>1, <3>2, OfferedIsAccepted
  <2>4. CASE Lock(c)
    BY <2>4 DEF Lock
  <2>5. CASE Update(c)
    BY <2>0, <2>5 DEF Update, Answer, IInv, TypeOK
  <2>. QED
    BY <2>0, <2>2, <2>3, <2>4, <2>5 DEF Step
<1>. QED
  BY <1>1, ScreenInvariance, PTL DEF OrganizationSpec, OffersWhatIsAccepted

-----------------------------------------------------------------------------
(* The export.                                                             *)

BeforeCount == {"idle", "organization", "readOnce", "guardOnce", "section", "count"}

\* The record of an export, whatever rows it has read, and where it is.
ExportIsFormed ==
    /\ DOMAIN export = {"pc", "next", "read", "whole", "away", "outcome"}
    /\ DOMAIN export.read = SectionNames
    /\ export.next \in 1 .. 5

\* The sections still to be counted are whole: the order names none twice.
UncountedAreWhole ==
    \A n \in 1 .. 5 :
        (n > export.next \/ (n = export.next /\ export.pc \in BeforeCount))
            => ReadingOrder[n] \in export.whole

\* Whatever has been counted is whole, or was read as nothing by somebody away.
CountedAreWhole ==
    \A s \in SectionNames : s \in export.whole \/ (s \in export.away /\ export.read[s] = {})

\* The inductive invariant of the export.
ExportInv == ExportIsFormed /\ UncountedAreWhole /\ CountedAreWhole

\* The five sections, each once in either order.
LEMMA TheSections ==
    /\ SectionNames = {"customerStatuses", "customers", "members", "products", "suppliers"}
    /\ Len(ReadingOrder) = 5
    /\ \A n \in 1 .. 5 : ReadingOrder[n] \in SectionNames
    /\ \A m, n \in 1 .. 5 : ReadingOrder[m] = ReadingOrder[n] => m = n
<1>1. SectionNames = {"customerStatuses", "customers", "members", "products", "suppliers"}
  <2>1. DOMAIN Sections = 1 .. 5
    BY DEF Sections
  <2>2. /\ Sections[1] = "customerStatuses" /\ Sections[2] = "customers"
        /\ Sections[3] = "members" /\ Sections[4] = "products" /\ Sections[5] = "suppliers"
    BY DEF Sections
  <2>3. \A i \in 1 .. 5 : i = 1 \/ i = 2 \/ i = 3 \/ i = 4 \/ i = 5
    OBVIOUS
  <2>. HIDE DEF Sections
  <2>. QED
    BY <2>1, <2>2, <2>3 DEF SectionNames, ToSet
<1>2. /\ ReadingOrder[1] = "products" /\ ReadingOrder[2] = "suppliers"
      /\ ReadingOrder[3] = "customers" /\ ReadingOrder[4] = "customerStatuses"
      /\ ReadingOrder[5] = "members" /\ Len(ReadingOrder) = 5
  BY DEF ReadingOrder
<1>3. \A i \in 1 .. 5 : i = 1 \/ i = 2 \/ i = 3 \/ i = 4 \/ i = 5
  OBVIOUS
<1>. QED
  BY <1>1, <1>2, <1>3

\* An export that has not begun, and one that has ended, has counted nothing.
LEMMA FreshIsSound ==
    ASSUME NEW pc, NEW what,
           export' = [NotExporting EXCEPT !.pc = pc, !.outcome = what]
    PROVE  ExportInv'
<1>1. export' = [pc |-> pc, next |-> 1, read |-> [s \in SectionNames |-> {}],
                 whole |-> SectionNames, away |-> {}, outcome |-> what]
  BY DEF NotExporting
<1>2. /\ export'.pc = pc /\ export'.next = 1 /\ export'.read = [s \in SectionNames |-> {}]
      /\ export'.whole = SectionNames /\ export'.away = {}
  BY DEF NotExporting
<1>3. ExportIsFormed'
  <2>1. DOMAIN export' = {"pc", "next", "read", "whole", "away", "outcome"}
    BY <1>1
  <2>. QED
    BY <1>2, <2>1 DEF ExportIsFormed
<1>4. UncountedAreWhole'
  BY <1>2, TheSections DEF UncountedAreWhole
<1>5. CountedAreWhole'
  BY <1>2 DEF CountedAreWhole
<1>. QED
  BY <1>3, <1>4, <1>5 DEF ExportInv

\* Nothing of the export has changed.
LEMMA ExportStands == ASSUME ExportInv, UNCHANGED export PROVE ExportInv'
BY DEF ExportInv, ExportIsFormed, UncountedAreWhole, CountedAreWhole

\* The export goes on without counting: not back to before the count.
LEMMA GoingPreserves ==
    ASSUME ExportInv, NEW pc, Goes(pc), pc \notin BeforeCount \/ export.pc \in BeforeCount
    PROVE  ExportInv'
<1>1. /\ export'.pc = pc /\ export'.next = export.next /\ export'.read = export.read
      /\ export'.whole = export.whole /\ export'.away = export.away
      /\ DOMAIN export' = DOMAIN export
  BY DEF ExportInv, ExportIsFormed, Goes
<1>. QED
  BY <1>1 DEF ExportInv, ExportIsFormed, UncountedAreWhole, CountedAreWhole

\* The export ends.
LEMMA EndingPreserves == ASSUME NEW what, Ends(what) PROVE ExportInv'
BY FreshIsSound DEF Ends

\* The guard's look at the session.
LEMMA IdentifiedPreserves ==
    ASSUME ExportInv, NEW pc, Identified(pc), pc \notin BeforeCount \/ export.pc \in BeforeCount
    PROVE  ExportInv'
BY GoingPreserves, EndingPreserves DEF Identified

\* requireOrganization, before the lists and after them.
LEMMA RequirePreserves ==
    ASSUME ExportInv, NEW before, NEW read, NEW after, NEW next,
           RequireOrganization(before, read, after, next),
           \/ {before, read, after} \subseteq BeforeCount
           \/ {read, after, next} \cap BeforeCount = {}
    PROVE  ExportInv'
<1>1. CASE export.pc = before /\ Identified(read)
  BY <1>1, IdentifiedPreserves
<1>2. CASE export.pc = read /\ IF IsActive(session) THEN Goes(after) ELSE Ends("NO_MEMBERSHIP")
  BY <1>2, GoingPreserves, EndingPreserves
<1>3. CASE export.pc = after /\ Identified(next)
  BY <1>3, IdentifiedPreserves
<1>. QED
  BY <1>1, <1>2, <1>3 DEF RequireOrganization

\* A list is counted.  Whoever reads less than there is is away, and reads
\* nothing.
LEMMA CountPreserves ==
    ASSUME ExportInv, Count
    PROVE  ExportInv'
<1>. PICK name : name = Section
  OBVIOUS
<1>. PICK rows \in {Visible(name)} :
       export' = [export EXCEPT !.pc = IF rows = {} THEN "visible" ELSE "guard",
                                !.read[name] = rows,
                                !.whole = IF rows = stored[name] THEN @ ELSE @ \ {name},
                                !.away = IF IsActive(session) THEN @ ELSE @ \cup {name}]
  BY DEF Count
<1>1. name \in SectionNames /\ name \in export.whole
  BY TheSections DEF ExportInv, ExportIsFormed, UncountedAreWhole, Count, BeforeCount, Section
<1>2. /\ export'.pc \in {"visible", "guard"} /\ export'.next = export.next
      /\ DOMAIN export' = DOMAIN export /\ DOMAIN export'.read = SectionNames
  BY <1>1 DEF ExportInv, ExportIsFormed
<1>3. /\ export'.read[name] = rows
      /\ \A s \in SectionNames : s # name => export'.read[s] = export.read[s]
  BY <1>1 DEF ExportInv, ExportIsFormed
<1>4. /\ \A s \in SectionNames : s # name => (s \in export.whole <=> s \in export'.whole)
      /\ \A s \in SectionNames : s # name => (s \in export.away <=> s \in export'.away)
      /\ rows = stored[name] => name \in export'.whole
      /\ ~IsActive(session) => name \in export'.away
  BY <1>1 DEF ExportInv, ExportIsFormed
<1>5. name \in export'.whole \/ (name \in export'.away /\ export'.read[name] = {})
  BY <1>3, <1>4 DEF Visible
<1>6. ExportIsFormed'
  BY <1>2 DEF ExportInv, ExportIsFormed
<1>7. UncountedAreWhole'
  <2>1. SUFFICES ASSUME NEW n \in 1 .. 5, n > export.next
                 PROVE  ReadingOrder[n] \in export'.whole
    BY <1>2 DEF UncountedAreWhole, BeforeCount
  <2>2. ReadingOrder[n] \in SectionNames /\ ReadingOrder[n] # name
    BY <2>1, TheSections DEF Section, ExportInv, ExportIsFormed
  <2>. QED
    BY <2>1, <2>2, <1>4 DEF ExportInv, UncountedAreWhole
<1>8. CountedAreWhole'
  BY <1>3, <1>4, <1>5 DEF ExportInv, CountedAreWhole
<1>. QED
  BY <1>6, <1>7, <1>8 DEF ExportInv

\* The check of an empty list forgives nobody who was away for its count.
LEMMA StillMemberPreserves ==
    ASSUME ExportInv, StillMember
    PROVE  ExportInv'
<1>1. CASE OrganizationVisible(session)
  <2>1. export' = [export EXCEPT !.pc = "guard", !.away = export.away]
    BY <1>1 DEF StillMember, OrganizationVisible
  <2>2. /\ export'.pc = "guard" /\ export'.next = export.next /\ export'.read = export.read
        /\ export'.whole = export.whole /\ export'.away = export.away
        /\ DOMAIN export' = DOMAIN export
    BY <2>1 DEF ExportInv, ExportIsFormed
  <2>. QED
    BY <2>2 DEF ExportInv, ExportIsFormed, UncountedAreWhole, CountedAreWhole, BeforeCount
<1>2. CASE ~OrganizationVisible(session)
  BY <1>2, EndingPreserves DEF StillMember
<1>. QED
  BY <1>1, <1>2

\* The members are one answer, read by an administrator or not at all.
LEMMA ReadMembersPreserves ==
    ASSUME ExportInv, ReadMembers
    PROVE  ExportInv'
<1>1. CASE session \in Users /\ IsAdministrator(memberships, Company, session)
  <2>. PICK rows : rows = Manifest
    OBVIOUS
  <2>1. export' = [export EXCEPT !.pc = "guard", !.read["members"] = rows]
    BY <1>1 DEF ReadMembers
  <2>2. "members" \in SectionNames /\ "members" \in export.whole
    BY TheSections
    DEF ExportInv, ExportIsFormed, UncountedAreWhole, ReadMembers, BeforeCount, Section
  <2>3. /\ export'.pc = "guard" /\ export'.next = export.next
        /\ export'.whole = export.whole /\ export'.away = export.away
        /\ DOMAIN export' = DOMAIN export /\ DOMAIN export'.read = SectionNames
    BY <2>1, <2>2 DEF ExportInv, ExportIsFormed
  <2>4. \A s \in SectionNames : s # "members" => export'.read[s] = export.read[s]
    BY <2>1, <2>2 DEF ExportInv, ExportIsFormed
  <2>. QED
    BY <2>2, <2>3, <2>4
    DEF ExportInv, ExportIsFormed, UncountedAreWhole, CountedAreWhole, BeforeCount
<1>2. CASE ~(session \in Users /\ IsAdministrator(memberships, Company, session))
  BY <1>2, EndingPreserves DEF ReadMembers
<1>. QED
  BY <1>1, <1>2

\* On to the next section, or to the recheck after the last.
LEMMA GuardAfterPreserves ==
    ASSUME ExportInv, GuardAfter
    PROVE  ExportInv'
<1>1. CASE session # Person
  BY <1>1, EndingPreserves DEF GuardAfter
<1>2. CASE session = Person /\ export.next = Len(ReadingOrder)
  BY <1>2, GoingPreserves DEF GuardAfter, BeforeCount
<1>3. CASE session = Person /\ export.next # Len(ReadingOrder)
  <2>. PICK n : n = export.next + 1
    OBVIOUS
  <2>1. export' = [export EXCEPT !.pc = "section", !.next = n]
    BY <1>3 DEF GuardAfter
  <2>2. /\ export'.pc = "section" /\ export'.next = n /\ export'.read = export.read
        /\ export'.whole = export.whole /\ export'.away = export.away
        /\ DOMAIN export' = DOMAIN export
    BY <2>1 DEF ExportInv, ExportIsFormed
  <2>3. n \in 1 .. 5 /\ \A m \in 1 .. 5 : m >= n => m > export.next
    BY <1>3, TheSections DEF ExportInv, ExportIsFormed
  <2>4. ExportIsFormed'
    BY <2>2, <2>3 DEF ExportInv, ExportIsFormed
  <2>5. UncountedAreWhole'
    BY <2>2, <2>3 DEF ExportInv, UncountedAreWhole
  <2>6. CountedAreWhole'
    BY <2>2 DEF ExportInv, CountedAreWhole
  <2>. QED
    BY <2>4, <2>5, <2>6 DEF ExportInv
<1>. QED
  BY <1>1, <1>2, <1>3

\* The file is built of what has been read, or nothing is handed over.
LEMMA HandOverPreserves ==
    ASSUME ExportInv, HandOver
    PROVE  ExportInv'
<1>1. CASE session # Person
  BY <1>1, EndingPreserves DEF HandOver
<1>2. CASE session = Person
  <2>. PICK built, verdict :
         export' = [export EXCEPT !.pc = "done",
                                  !.outcome = IF verdict = "NONE" THEN "FILE" ELSE verdict]
    BY <1>2 DEF HandOver
  <2>1. /\ export'.pc = "done" /\ export'.next = export.next /\ export'.read = export.read
        /\ export'.whole = export.whole /\ export'.away = export.away
        /\ DOMAIN export' = DOMAIN export
    BY DEF ExportInv, ExportIsFormed
  <2>. QED
    BY <2>1 DEF ExportInv, ExportIsFormed, UncountedAreWhole, CountedAreWhole, BeforeCount
<1>. QED
  BY <1>1, <1>2

\* Every step of the export, whatever the others do between two of them.
LEMMA ExportPreserves == ExportInv /\ [ExportNext]_<<organizationVars, exportVars>> => ExportInv'
<1>. SUFFICES ASSUME ExportInv, [ExportNext]_<<organizationVars, exportVars>>
              PROVE  ExportInv'
  OBVIOUS
<1>1. CASE Export
  BY <1>1, GoingPreserves, EndingPreserves DEF Export, BeforeCount, Goes
<1>2. CASE RequireOrganization("organization", "readOnce", "guardOnce", "section")
  BY <1>2, RequirePreserves DEF BeforeCount
<1>3. CASE RequireOrganization("recheck", "readAgain", "guardAgain", "session")
  BY <1>3, RequirePreserves DEF BeforeCount
<1>4. CASE GuardBefore
  BY <1>4, IdentifiedPreserves DEF GuardBefore, BeforeCount
<1>5. CASE Count
  BY <1>5, CountPreserves
<1>6. CASE StillMember
  BY <1>6, StillMemberPreserves
<1>7. CASE ReadMembers
  BY <1>7, ReadMembersPreserves
<1>8. CASE GuardAfter
  BY <1>8, GuardAfterPreserves
<1>9. CASE ExportFails
  BY <1>9, EndingPreserves DEF ExportFails
<1>10. CASE HandOver
  BY <1>10, HandOverPreserves
<1>11. CASE Others
  BY <1>11, ExportStands DEF Others, Create, Assign, Administer, ChangeSession, NoFileYet
<1>12. CASE Edit \/ ReadFile
  BY <1>12, ExportStands DEF Edit, ReadFile
<1>13. CASE UNCHANGED <<organizationVars, exportVars>>
  BY <1>13, ExportStands DEF exportVars
<1>. QED
  BY <1>1, <1>2, <1>3, <1>4, <1>5, <1>6, <1>7, <1>8, <1>9, <1>10, <1>11, <1>12, <1>13
  DEF ExportNext, ExportStep

\* Nothing is counted.
LEMMA ExportInitEstablishes == ExportInit => ExportInv
<1>. SUFFICES ASSUME ExportInit
              PROVE  ExportInv
  OBVIOUS
<1>1. /\ export.pc = "idle" /\ export.next = 1 /\ export.whole = SectionNames
      /\ export.read = [s \in SectionNames |-> {}]
  BY DEF ExportInit, NotExporting
<1>2. DOMAIN export = {"pc", "next", "read", "whole", "away", "outcome"}
  BY DEF ExportInit, NotExporting
<1>3. ExportIsFormed
  BY <1>1, <1>2 DEF ExportIsFormed
<1>4. UncountedAreWhole
  BY <1>1, TheSections DEF UncountedAreWhole
<1>5. CountedAreWhole
  BY <1>1 DEF CountedAreWhole
<1>. QED
  BY <1>3, <1>4, <1>5 DEF ExportInv

\* Whatever colleagues write and whoever comes and goes meanwhile, a section of a
\* file is all there was at one instant, unless the reader was away for its count
\* and read nothing.
THEOREM FilesAreWhole == ExportSpec => []FilesAreComplete
<1>1. ExportInv => FilesAreComplete
  BY DEF ExportInv, CountedAreWhole, FilesAreComplete
<1>. QED
  BY <1>1, ExportInitEstablishes, ExportPreserves, PTL DEF ExportSpec

-----------------------------------------------------------------------------
(* Sorting.                                                                *)

\* What SortedById chooses.
Sorted(f) == \A i, j \in DOMAIN f : i < j => f[i].id <= f[j].id /\ f[i] # f[j]

\* Among some numbers one is the least.
LEMMA LeastOf ==
    ASSUME NEW T \in SUBSET Nat, T # {}
    PROVE  \E n \in T : \A m \in T : n <= m
<1>. DEFINE R == OpToRel(<, Nat)
<1>1. IsWellFoundedOn(R, Nat)
  BY NatLessThanWellFounded
<1>. HIDE DEF R
<1>2. PICK n \in T : \A m \in T : ~(<<m, n>> \in R)
  BY <1>1, WFMin
<1>3. \A m \in T : ~(m < n)
  BY <1>2 DEF R, OpToRel
<1>. QED
  BY <1>3

\* A set of records that has as many ids as records, in a sequence.
LEMMA AscendingInOrder ==
    ASSUME NEW n \in Nat, NEW rec, DOMAIN rec = 1 .. n,
           \A i \in 1 .. n : rec[i].id \in Nat,
           \A i, j \in 1 .. n : rec[i].id = rec[j].id => i = j,
           \A i \in 1 .. n - 1 : rec[i].id <= rec[i + 1].id
    PROVE  \A i, j \in 1 .. n : i < j => rec[i].id < rec[j].id
<1>. DEFINE T == {j \in 1 .. n : \E i \in 1 .. n : i < j /\ ~(rec[i].id < rec[j].id)}
<1>1. SUFFICES ASSUME T # {} PROVE FALSE
  OBVIOUS
<1>2. PICK j \in T : \A k \in T : j <= k
  <2>1. T \in SUBSET Nat
    OBVIOUS
  <2>. HIDE DEF T
  <2>. QED
    BY <1>1, <2>1, LeastOf
<1>3. PICK i \in 1 .. n : i < j /\ ~(rec[i].id < rec[j].id)
  OBVIOUS
<1>4. j - 1 \in 1 .. n - 1 /\ j - 1 \in 1 .. n /\ j \in 1 .. n /\ (j - 1) + 1 = j
  BY <1>3
<1>. PICK k : k = j - 1
  OBVIOUS
<1>5. k \in 1 .. n /\ k # j /\ i <= k /\ rec[k].id <= rec[j].id /\ rec[k].id # rec[j].id
  BY <1>3, <1>4
<1>6. k \notin T
  BY <1>2, <1>4
<1>7. i = k \/ rec[i].id < rec[k].id
  BY <1>3, <1>5, <1>6
<1>. QED
  BY <1>3, <1>5, <1>7

\* What the SMT solver needs told of numbers that are ids of records.
LEMMA LessIsStrict == \A a, b \in Nat : a < b => a # b /\ ~(b < a)
  OBVIOUS

\* n records in the order of their ids, and every one of them among others.
Ascend(f, n) ==
    /\ DOMAIN f = 1 .. n /\ \A i \in 1 .. n : f[i].id \in Nat
    /\ \A i, j \in 1 .. n : i < j => f[i].id < f[j].id

AreAmong(f, g, n) == \A i \in 1 .. n : \E k \in 1 .. n : f[i] = g[k]

\* Two ascending sequences of the same records are the same.
LEMMA AscendingIsUnique ==
    ASSUME NEW n \in Nat, NEW f, NEW g, Ascend(f, n), Ascend(g, n),
           AreAmong(f, g, n), AreAmong(g, f, n)
    PROVE  \A i \in 1 .. n : f[i] = g[i]
<1>. USE DEF Ascend, AreAmong
<1>. DEFINE T == {i \in 1 .. n : f[i] # g[i]}
<1>1. SUFFICES ASSUME T # {} PROVE FALSE
  OBVIOUS
<1>2. PICK i \in T : \A m \in T : i <= m
  <2>1. T \in SUBSET Nat
    OBVIOUS
  <2>. HIDE DEF T
  <2>. QED
    BY <1>1, <2>1, LeastOf
<1>3. \A m \in 1 .. n : m < i => f[m] = g[m]
  BY <1>2
<1>4. PICK k \in 1 .. n : f[i] = g[k]
  OBVIOUS
<1>5. PICK m \in 1 .. n : g[i] = f[m]
  OBVIOUS
<1>6. i \in 1 .. n /\ f[i] # g[i] /\ k # i /\ m # i
  BY <1>4, <1>5
<1>a. \A a \in 1 .. n : g[a].id \in Nat
  OBVIOUS
<1>7. k > i
  <2>1. CASE k < i
    <3>1. f[k] = f[i]
      BY <1>3, <1>4, <2>1
    <3>2. f[k].id < f[i].id
      BY <1>6, <2>1
    <3>. QED
      BY <1>6, LessIsStrict, <3>1, <3>2
  <2>. QED
    BY <1>6, <2>1
<1>8. m > i
  <2>1. CASE m < i
    <3>1. g[m] = g[i]
      BY <1>3, <1>5, <2>1
    <3>2. g[m].id < g[i].id
      BY <1>6, <2>1
    <3>. QED
      BY <1>6, <1>a, LessIsStrict, <3>1, <3>2
  <2>. QED
    BY <1>6, <2>1
<1>9. f[i].id < f[m].id
  BY <1>6, <1>8
<1>10. g[i].id < g[k].id
  BY <1>6, <1>7
<1>. QED
  BY <1>4, <1>5, <1>6, <1>9, <1>10, <1>a, LessIsStrict

\* A finite set of records in which no two have the same id.
HasIds(records) ==
    /\ IsFiniteSet(records)
    /\ \A r \in records : r.id \in Nat
    /\ \A q, r \in records : q.id = r.id => q = r

\* Such a set can be sorted: a record's place is how many do not come after it.
LEMMA ASortingExists ==
    ASSUME NEW records, HasIds(records)
    PROVE  \E f \in [1 .. Cardinality(records) -> records] : Sorted(f)
<1>. DEFINE n == Cardinality(records)
            upTo(r) == {q \in records : q.id <= r.id}
            rank == [r \in records |-> Cardinality(upTo(r))]
<1>1. n \in Nat
  BY FS_CardinalityType DEF HasIds
<1>2. \A r \in records : upTo(r) \subseteq records /\ r \in upTo(r)
  BY DEF HasIds
<1>3. \A r \in records : IsFiniteSet(upTo(r)) /\ Cardinality(upTo(r)) \in 1 .. n
  <2>1. SUFFICES ASSUME NEW r \in records
                 PROVE  IsFiniteSet(upTo(r)) /\ Cardinality(upTo(r)) \in 1 .. n
    OBVIOUS
  <2>2. upTo(r) \in SUBSET records /\ upTo(r) # {}
    BY <1>2
  <2>. HIDE DEF upTo
  <2>3. IsFiniteSet(upTo(r)) /\ Cardinality(upTo(r)) <= n
    BY <2>2, FS_Subset DEF HasIds
  <2>4. Cardinality(upTo(r)) \in Nat /\ Cardinality(upTo(r)) # 0
    BY <2>2, <2>3, FS_CardinalityType, FS_EmptySet
  <2>. QED
    BY <1>1, <2>3, <2>4
<1>4. \A q, r \in records : q.id < r.id => Cardinality(upTo(q)) < Cardinality(upTo(r))
  <2>1. SUFFICES ASSUME NEW q \in records, NEW r \in records, q.id < r.id
                 PROVE  Cardinality(upTo(q)) < Cardinality(upTo(r))
    OBVIOUS
  <2>2. upTo(q) \in SUBSET upTo(r) /\ r \in upTo(r) /\ r \notin upTo(q)
    BY <2>1 DEF HasIds
  <2>3. IsFiniteSet(upTo(r)) /\ Cardinality(upTo(r)) \in 1 .. n /\ Cardinality(upTo(q)) \in 1 .. n
    BY <1>3
  <2>. HIDE DEF upTo
  <2>4. Cardinality(upTo(q)) <= Cardinality(upTo(r))
    BY <2>2, <2>3, FS_Subset
  <2>5. Cardinality(upTo(r)) # Cardinality(upTo(q))
    BY <2>2, <2>3, FS_Subset
  <2>. QED
    BY <1>1, <2>3, <2>4, <2>5
<1>. HIDE DEF upTo
<1>5. rank \in [records -> 1 .. n]
  BY <1>3
<1>6. \A q, r \in records : q.id < r.id => rank[q] < rank[r]
  BY <1>4
<1>. HIDE DEF rank
<1>7. \A q, r \in records : rank[q] = rank[r] => q = r
  <2>1. SUFFICES ASSUME NEW q \in records, NEW r \in records, rank[q] = rank[r]
                 PROVE  q = r
    OBVIOUS
  <2>2. rank[q] \in Nat /\ rank[r] \in Nat /\ q.id \in Nat /\ r.id \in Nat
    BY <1>5 DEF HasIds
  <2>3. ~(rank[q] < rank[r]) /\ ~(rank[r] < rank[q])
    BY <2>1, <2>2
  <2>4. ~(q.id < r.id) /\ ~(r.id < q.id)
    BY <1>6, <2>3
  <2>5. q.id = r.id
    BY <2>2, <2>4
  <2>. QED
    BY <2>5 DEF HasIds
<1>8. rank \in Injection(records, 1 .. n)
  BY <1>5, <1>7, Fun_IsInj
<1>9. IsFiniteSet(1 .. n) /\ Cardinality(1 .. n) = n
  BY <1>1, FS_Interval
<1>10. rank \in Surjection(records, 1 .. n)
  <2>. HIDE DEF n
  <2>1. Cardinality(records) = Cardinality(1 .. n)
    BY <1>9 DEF n
  <2>. QED
    BY <1>8, <1>9, <2>1, FS_Injection
<1>11. \A i \in 1 .. n : \E r \in records : rank[r] = i
  BY <1>10, Fun_SurjectionProperties
<1>. DEFINE f == [i \in 1 .. n |-> CHOOSE r \in records : rank[r] = i]
<1>12. \A i \in 1 .. n : f[i] \in records /\ rank[f[i]] = i
  BY <1>11
<1>13. f \in [1 .. n -> records]
  BY <1>12
<1>. HIDE DEF f, n
<1>14. \A i, j \in 1 .. n : i < j => f[i].id <= f[j].id /\ f[i] # f[j]
  <2>1. SUFFICES ASSUME NEW i \in 1 .. n, NEW j \in 1 .. n, i < j
                 PROVE  f[i].id <= f[j].id /\ f[i] # f[j]
    OBVIOUS
  <2>2. f[i] \in records /\ f[j] \in records /\ rank[f[i]] = i /\ rank[f[j]] = j
    BY <1>12
  <2>3. ~(rank[f[j]] < rank[f[i]])
    BY <2>1, <2>2, <1>1
  <2>4. ~(f[j].id < f[i].id)
    BY <1>6, <2>2, <2>3
  <2>. QED
    BY <2>1, <2>2, <2>4, <1>1 DEF HasIds
<1>. QED
  BY <1>13, <1>14 DEF Sorted, n

\* What sorting such a set gives: a sequence of every record, ascending.
LEMMA SortingSorts ==
    ASSUME NEW records, HasIds(records)
    PROVE  LET f == SortedById(records)
               n == Cardinality(records)
           IN  /\ n \in Nat /\ f \in [1 .. n -> records]
               /\ \A i, j \in 1 .. n : i < j => f[i].id < f[j].id
               /\ \A r \in records : \E i \in 1 .. n : r = f[i]
<1>. DEFINE f == SortedById(records)
            n == Cardinality(records)
<1>1. f \in [1 .. n -> records] /\ Sorted(f)
  BY ASortingExists DEF SortedById, Sorted
<1>2. n \in Nat
  BY FS_CardinalityType DEF HasIds
<1>. HIDE DEF f
<1>3. \A i, j \in 1 .. n : i < j => f[i].id < f[j].id
  <2>. HIDE DEF n
  <2>1. SUFFICES ASSUME NEW i \in 1 .. n, NEW j \in 1 .. n, i < j
                 PROVE  f[i].id < f[j].id
    OBVIOUS
  <2>2. f[i] \in records /\ f[j] \in records /\ f[i].id <= f[j].id /\ f[i] # f[j]
    BY <1>1, <2>1 DEF Sorted
  <2>3. f[i].id \in Nat /\ f[j].id \in Nat /\ f[i].id # f[j].id
    BY <2>2 DEF HasIds
  <2>. QED
    BY <2>2, <2>3
<1>4. f \in Surjection(1 .. n, records)
  <2>1. IsFiniteSet(1 .. n) /\ Cardinality(1 .. n) = n
    BY <1>2, FS_Interval
  <2>2. \A i, j \in 1 .. n : f[i] = f[j] => i = j
    <3>1. \A i, j \in 1 .. n : f[i] = f[j] => ~(i < j)
      BY <1>1 DEF Sorted
    <3>. HIDE DEF n
    <3>. QED
      BY <1>2, <3>1
  <2>3. f \in Injection(1 .. n, records)
    BY <1>1, <2>2, Fun_IsInj
  <2>4. Cardinality(1 .. n) = Cardinality(records) /\ IsFiniteSet(records)
    BY <2>1 DEF HasIds
  <2>. HIDE DEF n
  <2>. QED
    BY <2>1, <2>3, <2>4, FS_Injection
<1>5. \A r \in records : \E i \in 1 .. n : r = f[i]
  <2>1. \A r \in records : \E i \in 1 .. n : f[i] = r
    BY <1>4 DEF Surjection
  <2>. QED
    BY <2>1
<1>. QED
  BY <1>1, <1>2, <1>3, <1>5 DEF f

\* A section as its reader accepts it is what its writer makes of its records.
LEMMA SortingIsUndone ==
    ASSUME NEW S, NEW records \in Seq(S),
           \A i \in 1 .. Len(records) : records[i].id \in Nat,
           \A i, j \in 1 .. Len(records) : records[i].id = records[j].id => i = j,
           InOrder(records)
    PROVE  SortedById(ToSet(records)) = records
<1>. DEFINE n == Len(records)
            set == ToSet(records)
            f == SortedById(set)
<1>1. DOMAIN records = 1 .. n
  OBVIOUS
<1>0. n \in Nat
  OBVIOUS
<1>2. \A i, j \in 1 .. n : i < j => records[i].id < records[j].id
  <2>1. /\ \A i \in 1 .. n : records[i].id \in Nat
        /\ \A i, j \in 1 .. n : records[i].id = records[j].id => i = j
        /\ \A i \in 1 .. n - 1 : records[i].id <= records[i + 1].id
    BY DEF InOrder
  <2>. HIDE DEF n
  <2>. QED
    BY <1>0, <1>1, <2>1, AscendingInOrder
<1>3. /\ \A i \in 1 .. n : records[i] \in set
      /\ \A r \in set : \E i \in 1 .. n : r = records[i]
  BY <1>1 DEF ToSet
<1>4. IsFiniteSet(set) /\ Cardinality(set) = n
  <2>. HIDE DEF set, n
  <2>1. records \in [1 .. n -> set]
    BY <1>1, <1>3 DEF n
  <2>2. records \in Bijection(1 .. n, set)
    <3>1. \A i, j \in 1 .. n : records[i] = records[j] => i = j
      BY DEF n
    <3>. QED
      BY <1>3, <2>1, <3>1, Fun_IsBij
  <2>3. IsFiniteSet(1 .. n) /\ Cardinality(1 .. n) = n
    BY <1>0, FS_Interval
  <2>4. ExistsBijection(1 .. n, set)
    BY <2>2 DEF ExistsBijection
  <2>. QED
    BY <1>0, <2>3, <2>4, FS_Bijection
<1>5. HasIds(set)
  BY <1>3, <1>4 DEF HasIds
<1>. HIDE DEF set
<1>6. /\ f \in [1 .. n -> set]
      /\ \A i, j \in 1 .. n : i < j => f[i].id < f[j].id
      /\ \A r \in set : \E i \in 1 .. n : r = f[i]
  BY <1>4, <1>5, SortingSorts
<1>. HIDE DEF f, n
<1>7. \A i \in 1 .. n : records[i] = f[i]
  <2>1. Ascend(records, n)
    BY <1>1, <1>2 DEF Ascend, n
  <2>2. Ascend(f, n)
    BY <1>5, <1>6 DEF Ascend, HasIds
  <2>3. AreAmong(records, f, n) /\ AreAmong(f, records, n)
    BY <1>3, <1>6 DEF AreAmong
  <2>. QED
    BY <1>0, <2>1, <2>2, <2>3, AscendingIsUnique
<1>8. f = records
  <2>1. records = [i \in 1 .. n |-> records[i]]
    BY <1>1
  <2>2. f = [i \in 1 .. n |-> f[i]]
    BY <1>6
  <2>. QED
    BY <1>7, <2>1, <2>2
<1>. QED
  BY <1>8 DEF f, set

-----------------------------------------------------------------------------
(* The reader of a file.                                                   *)

\* A file whose tests all hold is not refused, and only that one.
LEMMA NothingIsRefused ==
    ASSUME NEW tests, DOMAIN tests \in SUBSET Nat,
           \A i \in DOMAIN tests : tests[i].holds \in BOOLEAN /\ tests[i].refusal # "NONE"
    PROVE  FirstRefusal(tests) = "NONE" <=> \A i \in DOMAIN tests : tests[i].holds
<1>. DEFINE failed == {i \in DOMAIN tests : ~tests[i].holds}
<1>1. failed \in SUBSET Nat
  OBVIOUS
<1>2. CASE failed = {}
  BY <1>2 DEF FirstRefusal
<1>3. CASE failed # {}
  <2>1. PICK m \in failed : \A i \in failed : m <= i
    <3>. HIDE DEF failed
    <3>. QED
      BY <1>1, <1>3, LeastOf
  <2>2. Min(failed) \in failed
    <3>. HIDE DEF failed
    <3>. QED
      BY <2>1 DEF Min
  <2>3. FirstRefusal(tests) = tests[Min(failed)].refusal
    BY <1>3 DEF FirstRefusal
  <2>4. Min(failed) \in DOMAIN tests
    BY <2>2
  <2>. HIDE DEF failed
  <2>5. FirstRefusal(tests) # "NONE"
    BY <2>3, <2>4
  <2>. QED
    BY <2>1, <2>5 DEF failed
<1>. QED
  BY <1>2, <1>3

\* What a file may hold, whatever has been done to it since it was written.
FileRecords ==
    [keysKnown : BOOLEAN, id : RecordIds \cup {0}, organization : {Company, Absent},
     stamped : BOOLEAN, version : Nat, fields : Details \cup {[identifier |-> Absent]},
     reference : RecordIds \cup {Absent}]

Contents ==
    [organization : {TheOrganization, [TheOrganization EXCEPT !.version = 0]},
     section : [SectionNames -> Seq(FileRecords)]]

Files ==
    [text : {"OBJECT", "BACKUP_TOO_LARGE", "BACKUP_TOO_DEEP", "BACKUP_FORBIDDEN_KEY",
             "BACKUP_MALFORMED_JSON", "BACKUP_ENVELOPE_INVALID"},
     magic : BOOLEAN, formatVersion : Nat, keysKnown : BOOLEAN, kind : BOOLEAN,
     schemaVersion : Nat, provenance : BOOLEAN,
     source : [organization : {Company, Absent}, exportedBy : RecordIds],
     counts : [SectionNames -> Int], integrity : Contents, data : Contents]

\* What the reader asks of the envelope, and of every section.
EnvelopeHolds(c) ==
    /\ c.text = "OBJECT" /\ c.magic /\ c.formatVersion = 2
    /\ c.keysKnown /\ c.kind /\ c.schemaVersion >= 1 /\ c.schemaVersion <= 1 /\ c.provenance
    /\ OrganizationHolds(c.data.organization, c.source.organization)
    /\ Digest(c.data) = c.integrity
    /\ ReferencesHold(c.data.section)

SectionsHold(c) ==
    \A s \in SectionNames :
        /\ Len(c.data.section[s]) <= MaxRecords
        /\ c.counts[s] = Len(c.data.section[s])
        /\ SectionHolds(s, c.data.section[s], c.source.organization)

\* The reader accepts the files for which every test holds, and no others.
LEMMA ReaderAccepts ==
    ASSUME NEW c \in Files
    PROVE  ParseCloudBackup(c) = "NONE" <=> EnvelopeHolds(c) /\ SectionsHold(c)
<1>. DEFINE h1 == c.text = "OBJECT"
            h2 == c.magic
            h3 == c.formatVersion = 2
            h4 == c.keysKnown /\ c.kind /\ c.schemaVersion >= 1
            h5 == c.schemaVersion <= 1
            h6 == c.provenance
            h7 == OrganizationHolds(c.data.organization, c.source.organization)
            h8 == \A i \in DOMAIN Sections : Len(c.data.section[Sections[i]]) <= MaxRecords
            h9 == \A i \in DOMAIN Sections : c.counts[Sections[i]] = Len(c.data.section[Sections[i]])
            h10 == Digest(c.data) = c.integrity
            h11 == /\ \A i \in DOMAIN Sections :
                        SectionHolds(Sections[i], c.data.section[Sections[i]], c.source.organization)
                   /\ ReferencesHold(c.data.section)
            tests == <<Test(h1, c.text), Test(h2, "BACKUP_NOT_RECOGNISED"),
                Test(h3, "BACKUP_FORMAT_UNSUPPORTED"), Test(h4, "BACKUP_ENVELOPE_INVALID"),
                Test(h5, "BACKUP_SCHEMA_TOO_NEW"), Test(h6, "BACKUP_ENVELOPE_INVALID"),
                Test(h7, "BACKUP_ENVELOPE_INVALID"), Test(h8, "BACKUP_TOO_LARGE"),
                Test(h9, "BACKUP_COUNT_MISMATCH"), Test(h10, "BACKUP_CHECKSUM_MISMATCH"),
                Test(h11, "BACKUP_RECORD_INVALID")>>
<1>1. ParseCloudBackup(c) = FirstRefusal(tests)
  BY DEF ParseCloudBackup
<1>2. /\ h1 \in BOOLEAN /\ h2 \in BOOLEAN /\ h3 \in BOOLEAN /\ h4 \in BOOLEAN
      /\ h5 \in BOOLEAN /\ h6 \in BOOLEAN /\ h7 \in BOOLEAN /\ h8 \in BOOLEAN
      /\ h9 \in BOOLEAN /\ h10 \in BOOLEAN /\ h11 \in BOOLEAN
  <2>1. h2 \in BOOLEAN /\ h6 \in BOOLEAN
    BY DEF Files
  <2>2. h7 \in BOOLEAN
    BY DEF OrganizationHolds
  <2>. QED
    BY <2>1, <2>2
<1>3. /\ h4 <=> c.keysKnown /\ c.kind /\ c.schemaVersion >= 1
      /\ h8 <=> \A s \in SectionNames : Len(c.data.section[s]) <= MaxRecords
      /\ h9 <=> \A s \in SectionNames : c.counts[s] = Len(c.data.section[s])
      /\ h11 <=> /\ \A s \in SectionNames :
                       SectionHolds(s, c.data.section[s], c.source.organization)
                 /\ ReferencesHold(c.data.section)
  <2>1. \A s : s \in SectionNames <=> \E i \in DOMAIN Sections : s = Sections[i]
    BY DEF SectionNames, ToSet
  <2>. QED
    BY <2>1
<1>. HIDE DEF h4, h8, h9, h11
<1>4. EnvelopeHolds(c) /\ SectionsHold(c) <=>
        h1 /\ h2 /\ h3 /\ h4 /\ h5 /\ h6 /\ h7 /\ h8 /\ h9 /\ h10 /\ h11
  BY <1>3 DEF EnvelopeHolds, SectionsHold
<1>. HIDE DEF h1, h2, h3, h5, h6, h7, h10
<1>5. DOMAIN tests = 1 .. 11
  OBVIOUS
<1>6. /\ tests[1].holds = h1 /\ tests[2].holds = h2 /\ tests[3].holds = h3
      /\ tests[4].holds = h4 /\ tests[5].holds = h5 /\ tests[6].holds = h6
      /\ tests[7].holds = h7 /\ tests[8].holds = h8 /\ tests[9].holds = h9
      /\ tests[10].holds = h10 /\ tests[11].holds = h11
  BY DEF Test
<1>7. \A i \in 1 .. 11 : tests[i].refusal # "NONE"
  BY DEF Test, Files
<1>8. \A i \in 1 .. 11 : i = 1 \/ i = 2 \/ i = 3 \/ i = 4 \/ i = 5 \/ i = 6
                        \/ i = 7 \/ i = 8 \/ i = 9 \/ i = 10 \/ i = 11
  OBVIOUS
<1>. HIDE DEF tests
<1>9. \A i \in 1 .. 11 : tests[i].holds \in BOOLEAN
  BY <1>2, <1>6, <1>8
<1>10. FirstRefusal(tests) = "NONE" <=> \A i \in 1 .. 11 : tests[i].holds
  <2>1. DOMAIN tests \in SUBSET Nat
    BY <1>5
  <2>2. \A i \in DOMAIN tests : tests[i].holds \in BOOLEAN /\ tests[i].refusal # "NONE"
    BY <1>5, <1>7, <1>9
  <2>. QED
    BY <1>5, <2>1, <2>2, NothingIsRefused
<1>11. (\A i \in 1 .. 11 : tests[i].holds) <=>
        h1 /\ h2 /\ h3 /\ h4 /\ h5 /\ h6 /\ h7 /\ h8 /\ h9 /\ h10 /\ h11
  <2>1. (\A i \in 1 .. 11 : tests[i].holds) <=>
          /\ tests[1].holds /\ tests[2].holds /\ tests[3].holds /\ tests[4].holds
          /\ tests[5].holds /\ tests[6].holds /\ tests[7].holds /\ tests[8].holds
          /\ tests[9].holds /\ tests[10].holds /\ tests[11].holds
    BY <1>8
  <2>. QED
    BY <1>2, <1>6, <2>1
<1>. QED
  BY <1>1, <1>4, <1>10, <1>11

\* A section that its reader accepts has as many ids as records.
LEMMA IdsAreDistinct ==
    ASSUME NEW n \in Nat, NEW records, Cardinality({records[i].id : i \in 1 .. n}) = n
    PROVE  \A i, j \in 1 .. n : records[i].id = records[j].id => i = j
<1>. DEFINE ids == {records[i].id : i \in 1 .. n}
            g == [i \in 1 .. n |-> records[i].id]
<1>2. g \in [1 .. n -> ids] /\ \A t \in ids : \E i \in 1 .. n : g[i] = t
  OBVIOUS
<1>3. \A i \in 1 .. n : g[i] = records[i].id
  OBVIOUS
<1>4. Cardinality(ids) = n
  OBVIOUS
<1>. HIDE DEF g, ids
<1>5. g \in Surjection(1 .. n, ids)
  BY <1>2, Fun_IsSurj
<1>6. IsFiniteSet(1 .. n) /\ Cardinality(1 .. n) = n
  BY FS_Interval
<1>7. g \in Injection(1 .. n, ids)
  BY <1>4, <1>5, <1>6, FS_Surjection
<1>. QED
  BY <1>3, <1>7 DEF Injection, IsInjective

\* An id is a number, or 0 where none is.
LEMMA RecordsHaveIds == \A r \in FileRecords : r.id \in Nat
<1>1. \A r \in FileRecords : r.id \in RecordIds \cup {0}
  BY DEF FileRecords
<1>2. RecordIds \cup {0} \subseteq Nat
  BY FileAssumption
<1>. QED
  BY <1>1, <1>2

\* What the reader accepts is what the writer makes of it.
LEMMA AcceptedIsWritten ==
    ASSUME NEW c \in Files, ParseCloudBackup(c) = "NONE"
    PROVE  LET section == c.data.section
               read == [s \in SectionNames |-> ToSet(section[s])]
           IN  /\ c = BuildEnvelope(c.data.organization, read, c.source.exportedBy)
               /\ {r.reference : r \in read["customers"]} \ {Absent}
                      \subseteq {t.id : t \in read["customerStatuses"]}
<1>. DEFINE section == c.data.section
            read == [s \in SectionNames |-> ToSet(section[s])]
<1>1. EnvelopeHolds(c) /\ SectionsHold(c)
  BY ReaderAccepts
<1>2. section \in [SectionNames -> Seq(FileRecords)]
  BY DEF Files, Contents
<1>3. ASSUME NEW s \in SectionNames
      PROVE  SortedById(ToSet(section[s])) = section[s]
  <2>1. section[s] \in Seq(FileRecords)
    BY <1>2
  <2>2. SectionHolds(s, section[s], c.source.organization)
    BY <1>1 DEF SectionsHold
  <2>. DEFINE records == section[s]
  <2>. HIDE DEF records, section
  <2>3. \A i \in 1 .. Len(records) : records[i].id \in Nat
    <3>1. \A i \in 1 .. Len(records) : records[i] \in FileRecords
      BY <2>1 DEF records
    <3>. QED
      BY <3>1, RecordsHaveIds
  <2>4. records \in Seq(FileRecords) /\ InOrder(records)
    BY SMTT(30), <2>1, <2>2 DEF records, SectionHolds
  <2>5. \A i, j \in 1 .. Len(records) : records[i].id = records[j].id => i = j
    <3>1. Len(records) \in Nat
      BY <2>4
    <3>2. Cardinality({records[i].id : i \in 1 .. Len(records)}) = Len(records)
      BY <2>2 DEF records, SectionHolds
    <3>. QED
      BY <3>1, <3>2, IdsAreDistinct
  <2>6. SortedById(ToSet(records)) = records
    BY <2>3, <2>4, <2>5, SortingIsUndone
  <2>. QED
    BY <2>6 DEF records
<1>4. [s \in SectionNames |-> SortedById(read[s])] = section
  BY <1>2, <1>3
<1>5. CountSections(section) = c.counts
  BY <1>1 DEF SectionsHold, CountSections, Files
<1>6. c = BuildEnvelope(c.data.organization, read, c.source.exportedBy)
  <2>. HIDE DEF read, section
  <2>1. c.data = [organization |-> c.data.organization, section |-> section]
    BY DEF Files, Contents, section
  <2>2. c.source = [organization |-> c.data.organization.id, exportedBy |-> c.source.exportedBy]
    BY <1>1 DEF EnvelopeHolds, OrganizationHolds, Files
  <2>3. /\ c.text = "OBJECT" /\ c.magic = TRUE /\ c.formatVersion = 2 /\ c.keysKnown = TRUE
        /\ c.kind = TRUE /\ c.schemaVersion = 1 /\ c.provenance = TRUE
        /\ c.integrity = Digest(c.data)
    BY <1>1 DEF EnvelopeHolds, Files
  <2>4. BuildEnvelope(c.data.organization, read, c.source.exportedBy) =
          [text |-> "OBJECT", magic |-> TRUE, formatVersion |-> 2, keysKnown |-> TRUE,
           kind |-> TRUE, schemaVersion |-> 1, provenance |-> TRUE,
           source |-> c.source, counts |-> c.counts,
           integrity |-> Digest(c.data), data |-> c.data]
    BY <1>4, <1>5, <2>1, <2>2 DEF BuildEnvelope
  <2>5. c = [text |-> c.text, magic |-> c.magic, formatVersion |-> c.formatVersion,
             keysKnown |-> c.keysKnown, kind |-> c.kind, schemaVersion |-> c.schemaVersion,
             provenance |-> c.provenance, source |-> c.source, counts |-> c.counts,
             integrity |-> c.integrity, data |-> c.data]
    BY DEF Files
  <2>. QED
    BY <2>3, <2>4, <2>5
<1>7. ASSUME NEW r \in read["customers"], r.reference # Absent
      PROVE  \E t \in read["customerStatuses"] : t.id = r.reference
  <2>1. /\ "customers" \in SectionNames /\ "customerStatuses" \in SectionNames
    BY TheSections
  <2>2. /\ section["customers"] \in Seq(FileRecords)
        /\ section["customerStatuses"] \in Seq(FileRecords)
        /\ read["customers"] = ToSet(section["customers"])
        /\ read["customerStatuses"] = ToSet(section["customerStatuses"])
    BY <1>2, <2>1
  <2>3. ReferencesHold(section)
    BY <1>1 DEF EnvelopeHolds
  <2>. HIDE DEF read, section
  <2>4. PICK i \in 1 .. Len(section["customers"]) : r = section["customers"][i]
    BY <2>2 DEF ToSet
  <2>5. PICK j \in 1 .. Len(section["customerStatuses"]) :
          section["customerStatuses"][j].id = r.reference
    BY <1>7, <2>3, <2>4 DEF ReferencesHold
  <2>6. section["customerStatuses"][j] \in read["customerStatuses"]
    BY <2>2 DEF ToSet
  <2>. QED
    BY <2>5, <2>6
<1>. QED
  BY <1>6, <1>7

-----------------------------------------------------------------------------
(* What an export reads.                                                   *)

\* The rows an export can read of a section.
MemberRows ==
    {RecordWith(id, Absent, version, [identifier |-> Absent], Absent) :
        id \in RecordIds, version \in Nat \ {0}}
RowsOf(s) == IF s = "members" THEN MemberRows ELSE StoredRows

\* What the tables hold, at every instant.
StoreIsSound ==
    /\ memberships \in Tables
    /\ stored \in [CatalogSections -> SUBSET StoredRows]
    /\ \A s \in CatalogSections : HasIds(stored[s])
    /\ \A c \in stored["customers"] : IsReferred(c.reference, stored["customerStatuses"])

ReadsAreSound ==
    \A s \in SectionNames : export.read[s] \subseteq RowsOf(s) /\ HasIds(export.read[s])

\* The status of a customer that has been read was there before, stays, and so
\* is among the statuses, which are counted later.
StatusesAreCounted == export.next = 5 \/ (export.next = 4 /\ export.pc \notin BeforeCount)

ReferencesAreClosed ==
    \A c \in export.read["customers"] :
        /\ IsReferred(c.reference, stored["customerStatuses"])
        /\ StatusesAreCounted /\ "customerStatuses" \notin export.away
             => IsReferred(c.reference, export.read["customerStatuses"])

\* Only an export that has been through the sections gets to the recheck.
AfterLists == {"recheck", "readAgain", "guardAgain", "session"}
RechecksComeLast == export.pc \in AfterLists => export.next = 5

\* The inductive invariant of what is read.
ReadInv ==
    /\ StoreIsSound
    /\ ReadsAreSound /\ ReferencesAreClosed /\ RechecksComeLast
    /\ ExportsReadBack

\* The sections of the catalogue; customers are read before their statuses.
LEMMA TheOrder ==
    /\ CatalogSections = {"customerStatuses", "customers", "products", "suppliers"}
    /\ \A n \in 1 .. 5 : /\ ReadingOrder[n] = "customers" <=> n = 3
                         /\ ReadingOrder[n] = "customerStatuses" <=> n = 4
                         /\ ReadingOrder[n] = "members" <=> n = 5
<1>1. CatalogSections = {"customerStatuses", "customers", "products", "suppliers"}
  BY TheSections DEF CatalogSections
<1>2. /\ ReadingOrder[1] = "products" /\ ReadingOrder[2] = "suppliers"
      /\ ReadingOrder[3] = "customers" /\ ReadingOrder[4] = "customerStatuses"
      /\ ReadingOrder[5] = "members"
  BY DEF ReadingOrder
<1>3. \A i \in 1 .. 5 : i = 1 \/ i = 2 \/ i = 3 \/ i = 4 \/ i = 5
  OBVIOUS
<1>. QED
  BY <1>1, <1>2, <1>3

\* No record, no id twice.
LEMMA NothingHasIds == HasIds({})
BY FS_EmptySet DEF HasIds

\* An export that has not begun, and one that has ended, has read nothing.
LEMMA FreshReads ==
    ASSUME ReadInv, UNCHANGED <<stored, memberships>>, NEW pc \in {"idle", "done"}, NEW what,
           export' = [NotExporting EXCEPT !.pc = pc, !.outcome = what]
    PROVE  ReadInv'
<1>1. /\ export'.pc = pc /\ export'.next = 1 /\ export'.read = [s \in SectionNames |-> {}]
  BY DEF NotExporting
<1>2. StoreIsSound'
  BY DEF ReadInv, StoreIsSound
<1>3. ReadsAreSound'
  BY <1>1, NothingHasIds DEF ReadsAreSound
<1>4. ReferencesAreClosed'
  BY <1>1, TheSections DEF ReferencesAreClosed
<1>5. RechecksComeLast'
  BY <1>1 DEF RechecksComeLast, AfterLists
<1>6. ExportsReadBack'
  BY <1>1, TheSections DEF ExportsReadBack
<1>. QED
  BY <1>2, <1>3, <1>4, <1>5, <1>6 DEF ReadInv

\* The export ends without a file.
LEMMA EndingReads ==
    ASSUME ReadInv, UNCHANGED <<stored, memberships>>, NEW what, Ends(what)
    PROVE  ReadInv'
BY FreshReads DEF Ends

\* The export goes on with what it has read: not to its end, not back to before
\* a count, and not past the lists but after the last.
LEMMA GoingReads ==
    ASSUME ReadInv, UNCHANGED <<stored, memberships>>, NEW pc, pc # "done",
           export'.pc = pc, export'.next = export.next, export'.read = export.read,
           export'.away = export.away,
           pc \in BeforeCount \/ export.pc \notin BeforeCount,
           pc \in AfterLists => export.next = 5
    PROVE  ReadInv'
<1>2. StoreIsSound'
  BY DEF ReadInv, StoreIsSound
<1>3. ReadsAreSound'
  BY DEF ReadInv, ReadsAreSound
<1>4. ReferencesAreClosed'
  BY DEF ReadInv, ReferencesAreClosed, StatusesAreCounted
<1>5. RechecksComeLast'
  BY DEF RechecksComeLast
<1>6. ExportsReadBack'
  BY DEF ExportsReadBack
<1>. QED
  BY <1>2, <1>3, <1>4, <1>5, <1>6 DEF ReadInv

\* The same of a step that moves only the counter.
LEMMA GoesReads ==
    ASSUME ReadInv, ExportInv, UNCHANGED <<stored, memberships>>, NEW pc, pc # "done", Goes(pc),
           pc \in BeforeCount \/ export.pc \notin BeforeCount,
           pc \in AfterLists => export.next = 5
    PROVE  ReadInv'
<1>1. /\ export'.pc = pc /\ export'.next = export.next /\ export'.read = export.read
      /\ export'.away = export.away
  BY DEF ExportInv, ExportIsFormed, Goes
<1>. QED
  BY <1>1, GoingReads

\* The guard's look at the session.
LEMMA IdentifiedReads ==
    ASSUME ReadInv, ExportInv, UNCHANGED <<stored, memberships>>, NEW pc, pc # "done",
           Identified(pc),
           pc \in BeforeCount \/ export.pc \notin BeforeCount,
           pc \in AfterLists => export.next = 5
    PROVE  ReadInv'
BY GoesReads, EndingReads DEF Identified

\* requireOrganization, before the lists and after them.
LEMMA RequireReads ==
    ASSUME ReadInv, ExportInv, UNCHANGED <<stored, memberships>>
    PROVE  /\ RequireOrganization("organization", "readOnce", "guardOnce", "section") => ReadInv'
           /\ RequireOrganization("recheck", "readAgain", "guardAgain", "session") => ReadInv'
<1>1. ASSUME RequireOrganization("organization", "readOnce", "guardOnce", "section")
      PROVE  ReadInv'
  <2>1. CASE export.pc = "organization" /\ Identified("readOnce")
    BY <2>1, IdentifiedReads DEF BeforeCount, AfterLists
  <2>2. CASE /\ export.pc = "readOnce"
             /\ IF IsActive(session) THEN Goes("guardOnce") ELSE Ends("NO_MEMBERSHIP")
    BY <2>2, GoesReads, EndingReads DEF BeforeCount, AfterLists
  <2>3. CASE export.pc = "guardOnce" /\ Identified("section")
    BY <2>3, IdentifiedReads DEF BeforeCount, AfterLists
  <2>. QED
    BY <1>1, <2>1, <2>2, <2>3 DEF RequireOrganization
<1>2. ASSUME RequireOrganization("recheck", "readAgain", "guardAgain", "session")
      PROVE  ReadInv'
  <2>. export.pc \in AfterLists => export.next = 5
    BY DEF ReadInv, RechecksComeLast
  <2>1. CASE export.pc = "recheck" /\ Identified("readAgain")
    BY <2>1, IdentifiedReads DEF BeforeCount, AfterLists
  <2>2. CASE /\ export.pc = "readAgain"
             /\ IF IsActive(session) THEN Goes("guardAgain") ELSE Ends("NO_MEMBERSHIP")
    BY <2>2, GoesReads, EndingReads DEF BeforeCount, AfterLists
  <2>3. CASE export.pc = "guardAgain" /\ Identified("session")
    BY <2>3, IdentifiedReads DEF BeforeCount, AfterLists
  <2>. QED
    BY <1>2, <2>1, <2>2, <2>3 DEF RequireOrganization
<1>. QED
  BY <1>1, <1>2

\* A list is counted.
LEMMA CountReads ==
    ASSUME ReadInv, ExportInv, Count
    PROVE  ReadInv'
<1>. PICK name : name = Section
  OBVIOUS
<1>. PICK rows \in {Visible(name)} :
       export' = [export EXCEPT !.pc = IF rows = {} THEN "visible" ELSE "guard",
                                !.read[name] = rows,
                                !.whole = IF rows = stored[name] THEN @ ELSE @ \ {name},
                                !.away = IF IsActive(session) THEN @ ELSE @ \cup {name}]
  BY DEF Count
<1>1. /\ name \in SectionNames /\ name \in CatalogSections
      /\ export.next \in 1 .. 5 /\ name = ReadingOrder[export.next]
      /\ export.pc = "count"
      /\ UNCHANGED <<stored, memberships>>
  BY TheSections DEF ExportInv, ExportIsFormed, Count, Section, CatalogSections,
     Untouched, organizationVars, vars
<1>2. /\ export'.pc \in {"visible", "guard"} /\ export'.next = export.next
      /\ export'.read[name] = rows
      /\ \A s \in SectionNames : s # name => export'.read[s] = export.read[s]
      /\ \A s : s \in export.away => s \in export'.away
      /\ ~IsActive(session) => name \in export'.away
  BY <1>1 DEF ExportInv, ExportIsFormed
<1>3. rows = {} \/ rows = stored[name]
  BY DEF Visible
<1>4. rows = stored[name] \/ name \in export'.away
  BY <1>2 DEF Visible
<1>5. StoreIsSound'
  BY <1>1 DEF ReadInv, StoreIsSound
<1>6. ReadsAreSound'
  <2>1. rows \subseteq RowsOf(name) /\ HasIds(rows)
    BY <1>1, <1>3, NothingHasIds DEF ReadInv, StoreIsSound, RowsOf, CatalogSections
  <2>. QED
    BY <1>2, <2>1 DEF ReadInv, ReadsAreSound
<1>7. ReferencesAreClosed'
  <2>1. SUFFICES ASSUME NEW c \in export'.read["customers"]
                 PROVE  /\ IsReferred(c.reference, stored["customerStatuses"])
                        /\ StatusesAreCounted' /\ "customerStatuses" \notin export'.away
                             => IsReferred(c.reference, export'.read["customerStatuses"])
    BY <1>1 DEF ReferencesAreClosed
  <2>2. CASE name = "customers"
    <3>1. export.next = 3
      BY <1>1, <2>2, TheOrder
    <3>2. ~StatusesAreCounted'
      BY <1>2, <3>1 DEF StatusesAreCounted
    <3>. QED
      BY <1>2, <1>3, <2>1, <2>2, <3>2 DEF ReadInv, StoreIsSound
  <2>3. CASE name # "customers"
    <3>1. IsReferred(c.reference, stored["customerStatuses"])
      BY <1>2, <2>1, <2>3, TheSections DEF ReadInv, ReferencesAreClosed
    <3>2. CASE name = "customerStatuses"
      BY <1>2, <1>4, <3>1, <3>2
    <3>3. CASE name # "customerStatuses"
      <4>1. export.next # 4
        BY <1>1, <3>3, TheOrder
      <4>2. export.next # 5
        BY <1>1, TheOrder DEF CatalogSections
      <4>. QED
        BY <1>2, <3>1, <4>1, <4>2 DEF StatusesAreCounted
    <3>. QED
      BY <3>2, <3>3
  <2>. QED
    BY <2>2, <2>3
<1>8. RechecksComeLast' /\ ExportsReadBack'
  BY <1>2 DEF RechecksComeLast, AfterLists, ExportsReadBack
<1>. QED
  BY <1>5, <1>6, <1>7, <1>8 DEF ReadInv

\* The check of an empty list changes nothing that is read.
LEMMA StillMemberReads ==
    ASSUME ReadInv, ExportInv, StillMember
    PROVE  ReadInv'
<1>0. UNCHANGED <<stored, memberships>> /\ export.pc = "visible"
  BY DEF StillMember, Untouched, organizationVars, vars
<1>1. CASE OrganizationVisible(session)
  <2>1. export' = [export EXCEPT !.pc = "guard", !.away = export.away]
    BY <1>1 DEF StillMember, OrganizationVisible
  <2>2. /\ export'.pc = "guard" /\ export'.next = export.next /\ export'.read = export.read
        /\ export'.away = export.away
    BY <2>1 DEF ExportInv, ExportIsFormed
  <2>. QED
    BY <1>0, <2>2, GoingReads DEF BeforeCount, AfterLists
<1>2. CASE ~OrganizationVisible(session)
  BY <1>0, <1>2, EndingReads DEF StillMember
<1>. QED
  BY <1>1, <1>2

\* The members of the company, one row of each.
LEMMA TheManifest ==
    ASSUME memberships \in Tables
    PROVE  Manifest \subseteq MemberRows /\ HasIds(Manifest)
<1>. DEFINE them == {v \in Users : IsMember(memberships, Company, v)}
            rowOf(u) == RecordWith(IdOf[u], Absent, memberships[Company][u].version,
                                   [identifier |-> Absent], Absent)
            g == [u \in them |-> rowOf(u)]
<1>1. /\ them \in SUBSET Users /\ IsFiniteSet(Users)
      /\ IdOf \in [Users -> RecordIds]
      /\ \A u, v \in Users : IdOf[u] = IdOf[v] => u = v
  BY ExportAssumption DEF Injection, IsInjective
<1>2. \A u \in them : memberships[Company][u].version \in Nat \ {0}
  BY ScreenAssumption DEF Tables, IsMember, Rows
<1>3. \A u \in them : rowOf(u) \in MemberRows /\ rowOf(u).id = IdOf[u]
  <2>1. SUFFICES ASSUME NEW u \in them
                 PROVE  rowOf(u) \in MemberRows /\ rowOf(u).id = IdOf[u]
    OBVIOUS
  <2>2. IdOf[u] \in RecordIds /\ memberships[Company][u].version \in Nat \ {0}
    BY <1>1, <1>2
  <2>3. rowOf(u) \in MemberRows
    BY <2>2 DEF MemberRows
  <2>4. rowOf(u).id = IdOf[u]
    BY DEF RecordWith
  <2>. QED
    BY <2>3, <2>4
<1>4. Manifest = {rowOf(u) : u \in them}
  BY DEF Manifest
<1>. HIDE DEF them, rowOf
<1>5. IsFiniteSet(Manifest)
  <2>1. g \in [them -> Manifest] /\ \A t \in Manifest : \E u \in them : g[u] = t
    BY <1>4
  <2>. HIDE DEF g
  <2>2. g \in Surjection(them, Manifest)
    BY <2>1, Fun_IsSurj
  <2>3. IsFiniteSet(them)
    BY <1>1, FS_Subset
  <2>. QED
    BY <2>2, <2>3, FS_Surjection
<1>6. \A r \in Manifest : r.id \in Nat
  BY <1>1, <1>3, <1>4, FileAssumption
<1>7. \A q, r \in Manifest : q.id = r.id => q = r
  BY <1>1, <1>3, <1>4
<1>. QED
  BY <1>3, <1>4, <1>5, <1>6, <1>7 DEF HasIds

\* The members are one answer, read by an administrator or not at all.
LEMMA MembersReads ==
    ASSUME ReadInv, ExportInv, ReadMembers
    PROVE  ReadInv'
<1>0. /\ UNCHANGED <<stored, memberships>> /\ export.pc = "count"
      /\ export.next \in 1 .. 5 /\ ReadingOrder[export.next] = "members"
  BY DEF ReadMembers, Untouched, organizationVars, vars, ExportInv, ExportIsFormed, Section
<1>1. CASE session \in Users /\ IsAdministrator(memberships, Company, session)
  <2>. PICK rows : rows = Manifest
    OBVIOUS
  <2>1. export' = [export EXCEPT !.pc = "guard", !.read["members"] = rows]
    BY <1>1 DEF ReadMembers
  <2>2. "members" \in SectionNames /\ export.next = 5
    BY <1>0, TheSections, TheOrder
  <2>3. /\ export'.pc = "guard" /\ export'.next = export.next /\ export'.away = export.away
        /\ export'.read["members"] = rows
        /\ \A s \in SectionNames : s # "members" => export'.read[s] = export.read[s]
    BY <2>1, <2>2 DEF ExportInv, ExportIsFormed
  <2>4. StoreIsSound'
    BY <1>0 DEF ReadInv, StoreIsSound
  <2>5. ReadsAreSound'
    <3>1. rows \subseteq RowsOf("members") /\ HasIds(rows)
      BY TheManifest DEF ReadInv, StoreIsSound, RowsOf
    <3>. QED
      BY <2>3, <3>1 DEF ReadInv, ReadsAreSound
  <2>6. ReferencesAreClosed'
    <3>1. StatusesAreCounted
      BY <2>2 DEF StatusesAreCounted
    <3>2. /\ export'.read["customers"] = export.read["customers"]
          /\ export'.read["customerStatuses"] = export.read["customerStatuses"]
      BY <2>3, TheSections
    <3>. QED
      BY <1>0, <2>3, <3>1, <3>2 DEF ReadInv, ReferencesAreClosed
  <2>7. RechecksComeLast' /\ ExportsReadBack'
    BY <2>3 DEF RechecksComeLast, AfterLists, ExportsReadBack
  <2>. QED
    BY <2>4, <2>5, <2>6, <2>7 DEF ReadInv
<1>2. CASE ~(session \in Users /\ IsAdministrator(memberships, Company, session))
  BY <1>0, <1>2, EndingReads DEF ReadMembers
<1>. QED
  BY <1>1, <1>2

\* On to the next section, or to the recheck after the last.
LEMMA GuardAfterReads ==
    ASSUME ReadInv, ExportInv, GuardAfter
    PROVE  ReadInv'
<1>0. UNCHANGED <<stored, memberships>> /\ export.pc = "guard"
  BY DEF GuardAfter, Untouched, organizationVars, vars
<1>1. CASE session # Person
  BY <1>0, <1>1, EndingReads DEF GuardAfter
<1>2. CASE session = Person /\ export.next = Len(ReadingOrder)
  BY <1>0, <1>2, GoesReads, TheSections DEF GuardAfter, BeforeCount
<1>3. CASE session = Person /\ export.next # Len(ReadingOrder)
  <2>. PICK n : n = export.next + 1
    OBVIOUS
  <2>1. export' = [export EXCEPT !.pc = "section", !.next = n]
    BY <1>3 DEF GuardAfter
  <2>2. /\ export'.pc = "section" /\ export'.next = n /\ export'.read = export.read
        /\ export'.away = export.away
    BY <2>1 DEF ExportInv, ExportIsFormed
  <2>3. StoreIsSound' /\ ReadsAreSound'
    BY <1>0, <2>2 DEF ReadInv, StoreIsSound, ReadsAreSound
  <2>4. StatusesAreCounted' => StatusesAreCounted
    BY <1>0, <1>3, <2>2, TheSections DEF StatusesAreCounted, BeforeCount, ExportInv, ExportIsFormed
  <2>5. ReferencesAreClosed'
    BY <1>0, <2>2, <2>4 DEF ReadInv, ReferencesAreClosed
  <2>6. RechecksComeLast' /\ ExportsReadBack'
    BY <2>2 DEF RechecksComeLast, AfterLists, ExportsReadBack
  <2>. QED
    BY <2>3, <2>5, <2>6 DEF ReadInv
<1>. QED
  BY <1>1, <1>2, <1>3

\* A row as it is created, or as it is given a status.
LEMMA RowsAreStoredRows ==
    ASSUME NEW id \in RecordIds, NEW fields \in Details, NEW reference \in RecordIds \cup {Absent}
    PROVE  LET row == StoredRow(id, fields, reference)
           IN  row \in StoredRows /\ row.id = id /\ row.reference = reference
<1>1. StoredRow(id, fields, reference) \in StoredRows
  BY DEF StoredRows
<1>2. /\ StoredRow(id, fields, reference).id = id
      /\ StoredRow(id, fields, reference).reference = reference
  BY DEF StoredRow, RecordWith
<1>. QED
  BY <1>1, <1>2

\* Nobody else's step takes a status away, or anything that has been read.
LEMMA OthersReads ==
    ASSUME ReadInv, Others
    PROVE  ReadInv'
<1>0. UNCHANGED export
  BY DEF Others, Create, Assign, Administer, ChangeSession, NoFileYet
<1>1. SUFFICES StoreIsSound' /\ \A t \in stored["customerStatuses"] :
                  \E u \in stored'["customerStatuses"] : u.id = t.id
  <2>1. SUFFICES ASSUME StoreIsSound', \A t \in stored["customerStatuses"] :
                          \E u \in stored'["customerStatuses"] : u.id = t.id
                 PROVE  ReadInv'
    OBVIOUS
  <2>2. ReadsAreSound' /\ RechecksComeLast' /\ ExportsReadBack'
    BY <1>0 DEF ReadInv, ReadsAreSound, RechecksComeLast, ExportsReadBack
  <2>3. ReferencesAreClosed'
    BY <1>0, <2>1 DEF ReadInv, ReferencesAreClosed, StatusesAreCounted, IsReferred
  <2>. QED
    BY <2>1, <2>2, <2>3 DEF ReadInv
<1>2. ASSUME NEW n \in Creations, NEW fields \in Details, NEW reference \in RecordIds \cup {Absent},
             Create(n[1], n[2], fields, reference)
      PROVE  StoreIsSound' /\ \A t \in stored["customerStatuses"] :
                \E u \in stored'["customerStatuses"] : u.id = t.id
  <2>. PICK s, id, new : s = n[1] /\ id = n[2] /\ new = StoredRow(id, fields, reference)
    OBVIOUS
  <2>1. s \in CatalogSections /\ id \in RecordIds
    BY StoresAssumption
  <2>2. new \in StoredRows /\ new.id = id /\ new.reference = reference
    BY <2>1, RowsAreStoredRows
  <2>3. /\ \A row \in stored[s] : row.id # id
        /\ reference # Absent =>
             s = "customers" /\ \E row \in stored["customerStatuses"] : row.id = reference
        /\ stored' = [stored EXCEPT ![s] = @ \cup {new}]
        /\ UNCHANGED memberships
    BY <1>2 DEF Create, organizationVars, vars
  <2>. HIDE DEF StoredRows
  <2>4. /\ stored' \in [CatalogSections -> SUBSET StoredRows] /\ memberships' \in Tables
        /\ stored'[s] = stored[s] \cup {new}
        /\ \A x \in CatalogSections : x # s => stored'[x] = stored[x]
    BY <2>1, <2>2, <2>3 DEF ReadInv, StoreIsSound
  <2>5. \A x \in CatalogSections : HasIds(stored'[x])
    <3>1. HasIds(stored[s] \cup {new})
      <4>1. HasIds(stored[s])
        BY <2>1 DEF ReadInv, StoreIsSound
      <4>2. IsFiniteSet(stored[s] \cup {new})
        BY <4>1, FS_AddElement DEF HasIds
      <4>3. new.id \in Nat
        BY <2>1, <2>2, FileAssumption
      <4>. QED
        BY <2>2, <2>3, <4>1, <4>2, <4>3 DEF HasIds
    <3>. QED
      BY <2>4, <3>1 DEF ReadInv, StoreIsSound
  <2>6. \A t \in stored["customerStatuses"] : \E u \in stored'["customerStatuses"] : u.id = t.id
    BY <2>4, TheOrder
  <2>7. \A c \in stored'["customers"] : c \in stored["customers"] \/ c.reference = reference
    BY <2>2, <2>4, TheOrder
  <2>8. \A c \in stored'["customers"] : IsReferred(c.reference, stored'["customerStatuses"])
    BY <2>3, <2>6, <2>7 DEF ReadInv, StoreIsSound, IsReferred
  <2>. QED
    BY <2>4, <2>5, <2>6, <2>8 DEF StoreIsSound
<1>3. ASSUME NEW customer \in stored["customers"], NEW status \in RecordIds,
             Assign(customer, status)
      PROVE  StoreIsSound' /\ \A t \in stored["customerStatuses"] :
                \E u \in stored'["customerStatuses"] : u.id = t.id
  <2>. PICK new : new = [customer EXCEPT !.reference = status]
    OBVIOUS
  <2>1. customer \in StoredRows /\ HasIds(stored["customers"])
    BY TheOrder DEF ReadInv, StoreIsSound
  <2>2. new \in StoredRows /\ new.id = customer.id /\ new.reference = status
    <3>1. PICK id \in RecordIds, fields \in Details, reference \in RecordIds \cup {Absent} :
            customer = StoredRow(id, fields, reference)
      BY <2>1 DEF StoredRows
    <3>2. new = StoredRow(id, fields, status) /\ customer.id = id
      BY <3>1 DEF StoredRow, RecordWith
    <3>. QED
      BY <3>2, RowsAreStoredRows
  <2>. PICK rest : rest = stored["customers"] \ {customer}
    OBVIOUS
  <2>3. /\ \E row \in stored["customerStatuses"] : row.id = status
        /\ stored' = [stored EXCEPT !["customers"] = rest \cup {new}]
        /\ UNCHANGED memberships
    BY <1>3 DEF Assign, organizationVars, vars
  <2>4. /\ stored' \in [CatalogSections -> SUBSET StoredRows] /\ memberships' \in Tables
        /\ stored'["customers"] = rest \cup {new}
        /\ \A x \in CatalogSections : x # "customers" => stored'[x] = stored[x]
    <3>1. "customers" \in CatalogSections
      BY TheOrder
    <3>. QED
      BY <2>2, <2>3, <3>1 DEF ReadInv, StoreIsSound
  <2>5. \A x \in CatalogSections : HasIds(stored'[x])
    <3>1. HasIds(rest \cup {new})
      <4>1. IsFiniteSet(rest)
        BY <2>1, FS_RemoveElement DEF HasIds
      <4>2. IsFiniteSet(rest \cup {new})
        BY <4>1, FS_AddElement
      <4>3. \A r \in rest : r.id \in Nat /\ r.id # new.id
        BY <2>1, <2>2 DEF HasIds
      <4>4. new.id \in Nat
        BY <2>1, <2>2 DEF HasIds
      <4>5. \A q, r \in rest : q.id = r.id => q = r
        BY <2>1 DEF HasIds
      <4>. QED
        BY ZenonT(40), <4>2, <4>3, <4>4, <4>5 DEF HasIds
    <3>. QED
      BY <2>4, <3>1 DEF ReadInv, StoreIsSound
  <2>6. stored'["customerStatuses"] = stored["customerStatuses"]
    BY <2>4, TheOrder
  <2>8. \A c \in stored'["customers"] : IsReferred(c.reference, stored'["customerStatuses"])
    BY <2>2, <2>3, <2>4, <2>6 DEF ReadInv, StoreIsSound, IsReferred
  <2>. QED
    BY <2>4, <2>5, <2>6, <2>8 DEF StoreIsSound
<1>4. ASSUME Administer
      PROVE  StoreIsSound' /\ \A t \in stored["customerStatuses"] :
                \E u \in stored'["customerStatuses"] : u.id = t.id
  <2>1. PICK actor \in Users, subject \in Administered, role \in Roles, status \in Statuses :
          Authority!Write(Company, actor, subject, role, status)
    BY <1>4 DEF Administer
  <2>2. memberships' = Written(memberships, Company, subject, role, status, actor)
    BY <2>1 DEF Authority!Write, Authority!Written, Written, Authority!Stamped, Stamped
  <2>3. memberships' \in Tables
    BY <2>2, WrittenTable, ScreenAssumption, ExportAssumption DEF Authors, ReadInv, StoreIsSound
  <2>4. UNCHANGED stored
    BY <1>4 DEF Administer
  <2>. QED
    BY <2>3, <2>4 DEF ReadInv, StoreIsSound
<1>5. ASSUME NEW u, ChangeSession(u)
      PROVE  StoreIsSound' /\ \A t \in stored["customerStatuses"] :
                \E v \in stored'["customerStatuses"] : v.id = t.id
  BY <1>5 DEF ChangeSession, ReadInv, StoreIsSound, organizationVars, vars
<1>. QED
  BY <1>2, <1>3, <1>4, <1>5 DEF Others

-----------------------------------------------------------------------------
(* What an export writes.                                                  *)

\* A row that is read is a record of the file, and one its reader accepts.
LEMMA RowsAreAccepted ==
    ASSUME NEW s, NEW r \in RowsOf(s)
    PROVE  r \in FileRecords /\ RecordHolds(s, r, Company)
<1>1. CASE s = "members"
  <2>1. PICK id \in RecordIds, version \in Nat \ {0} :
          r = RecordWith(id, Absent, version, [identifier |-> Absent], Absent)
    BY <1>1 DEF RowsOf, MemberRows
  <2>2. /\ r = [keysKnown |-> TRUE, id |-> id, organization |-> Absent, stamped |-> TRUE,
                version |-> version, fields |-> [identifier |-> Absent], reference |-> Absent]
        /\ id \in Nat \ {0}
    BY <2>1, FileAssumption DEF RecordWith
  <2>3. r \in FileRecords
    BY <2>2 DEF FileRecords
  <2>4. r.keysKnown /\ r.id # 0 /\ r.stamped /\ r.version >= 1 /\ r.fields.identifier = Absent
    BY <2>2
  <2>. QED
    BY <1>1, <2>3, <2>4 DEF RecordHolds, MemberHolds
<1>2. CASE s # "members"
  <2>1. PICK id \in RecordIds, fields \in Details, reference \in RecordIds \cup {Absent} :
          r = StoredRow(id, fields, reference)
    BY <1>2 DEF RowsOf, StoredRows
  <2>2. /\ r = [keysKnown |-> TRUE, id |-> id, organization |-> Company, stamped |-> TRUE,
                version |-> 1, fields |-> fields, reference |-> reference]
        /\ id \in Nat \ {0}
    BY <2>1, FileAssumption DEF StoredRow, RecordWith
  <2>3. r \in FileRecords
    BY <2>2 DEF FileRecords
  <2>4. /\ r.keysKnown /\ r.id # 0 /\ r.organization = Company /\ r.stamped /\ r.version >= 1
        /\ r.fields \in Details
    BY <2>2
  <2>5. FileAccepts(r.fields)
    BY <2>4, StoresAssumption
  <2>. QED
    BY <1>2, <2>3, <2>4, <2>5 DEF RecordHolds, RequiredAudit
<1>. QED
  BY <1>1, <1>2

\* A section as it is written.
LEMMA WrittenSection ==
    ASSUME NEW s, NEW rows \in SUBSET RowsOf(s), HasIds(rows)
    PROVE  LET records == SortedById(rows)
           IN  /\ records \in Seq(FileRecords) /\ Len(records) = Cardinality(rows)
               /\ SectionHolds(s, records, Company)
               /\ \A r \in rows : \E i \in 1 .. Len(records) : r = records[i]
               /\ \A i \in 1 .. Len(records) : records[i] \in rows
<1>. DEFINE records == SortedById(rows)
            n == Cardinality(rows)
<1>1. /\ n \in Nat /\ records \in [1 .. n -> rows]
      /\ \A i, j \in 1 .. n : i < j => records[i].id < records[j].id
      /\ \A r \in rows : \E i \in 1 .. n : r = records[i]
  BY SortingSorts
<1>. HIDE DEF records, n
<1>2. /\ \A i \in 1 .. n : records[i] \in rows /\ records[i].id \in Nat
      /\ \A i \in 1 .. n : records[i] \in FileRecords /\ RecordHolds(s, records[i], Company)
  BY <1>1, RowsAreAccepted DEF HasIds
<1>3. records \in Seq(FileRecords) /\ Len(records) = n
  <2>1. records \in Seq(rows)
    BY <1>1
  <2>2. Len(records) = n
    BY <1>1
  <2>3. records \in [1 .. n -> FileRecords]
    BY <1>1, <1>2
  <2>. QED
    BY <1>1, <2>2, <2>3
<1>4. Cardinality({records[i].id : i \in 1 .. n}) = n
  <2>. DEFINE ids == {records[i].id : i \in 1 .. n}
              g == [i \in 1 .. n |-> records[i].id]
  <2>1. g \in [1 .. n -> ids] /\ \A t \in ids : \E i \in 1 .. n : g[i] = t
    OBVIOUS
  <2>2. \A i, j \in 1 .. n : g[i] = g[j] => i = j
    <3>1. \A i, j \in 1 .. n : g[i] = g[j] => ~(i < j)
      <4>1. SUFFICES ASSUME NEW i \in 1 .. n, NEW j \in 1 .. n, g[i] = g[j], i < j
                     PROVE  FALSE
        OBVIOUS
      <4>2. records[i].id < records[j].id /\ records[i].id = records[j].id
        BY <1>1, <4>1
      <4>3. records[i].id \in Nat
        BY <1>2
      <4>. QED
        BY <4>2, <4>3
    <3>. HIDE DEF g
    <3>. QED
      BY <1>1, <3>1
  <2>. HIDE DEF g, ids
  <2>3. g \in Bijection(1 .. n, ids)
    BY <2>1, <2>2, Fun_IsBij
  <2>4. IsFiniteSet(1 .. n) /\ Cardinality(1 .. n) = n
    BY <1>1, FS_Interval
  <2>5. ExistsBijection(1 .. n, ids)
    BY <2>3 DEF ExistsBijection
  <2>6. Cardinality(ids) = n
    BY <2>4, <2>5, FS_Bijection
  <2>. QED
    BY <2>6 DEF ids
<1>5. InOrder(records)
  <2>1. SUFFICES ASSUME NEW i \in 1 .. n - 1
                 PROVE  records[i].id <= records[i + 1].id
    BY <1>3 DEF InOrder
  <2>2. i \in 1 .. n /\ i + 1 \in 1 .. n /\ i < i + 1
    BY <1>1
  <2>3. records[i].id < records[i + 1].id
    BY <1>1, <2>2
  <2>4. records[i].id \in Nat /\ records[i + 1].id \in Nat
    BY <1>2, <2>2
  <2>. QED
    BY <2>3, <2>4
<1>6. SectionHolds(s, records, Company)
  BY <1>2, <1>3, <1>4, <1>5 DEF SectionHolds
<1>. QED
  BY <1>1, <1>2, <1>3, <1>6 DEF records, n

\* What is built of such reads is a file, and its reader accepts it unless a
\* section is past the limit or a status is missing.
LEMMA BuiltIsAccepted ==
    ASSUME NEW read, \A s \in SectionNames : read[s] \subseteq RowsOf(s) /\ HasIds(read[s])
    PROVE  LET built == BuildEnvelope(TheOrganization, read, IdOf[Person]) IN
           /\ built \in Files
           /\ (/\ \A s \in SectionNames : ~(Cardinality(read[s]) > MaxRecords)
               /\ \A c \in read["customers"] : IsReferred(c.reference, read["customerStatuses"]))
                => ParseCloudBackup(built) = "NONE"
<1>. DEFINE section == [s \in SectionNames |-> SortedById(read[s])]
            data == [organization |-> TheOrganization, section |-> section]
            counts == [s \in SectionNames |-> Len(section[s])]
            built == BuildEnvelope(TheOrganization, read, IdOf[Person])
<1>1. ASSUME NEW s \in SectionNames
      PROVE  /\ section[s] \in Seq(FileRecords) /\ Len(section[s]) = Cardinality(read[s])
             /\ SectionHolds(s, section[s], Company)
             /\ \A r \in read[s] : \E i \in 1 .. Len(section[s]) : r = section[s][i]
             /\ \A i \in 1 .. Len(section[s]) : section[s][i] \in read[s]
  <2>1. section[s] = SortedById(read[s])
    OBVIOUS
  <2>. HIDE DEF section
  <2>. PICK rows : rows = read[s]
    OBVIOUS
  <2>2. rows \in SUBSET RowsOf(s) /\ HasIds(rows)
    OBVIOUS
  <2>3. /\ SortedById(rows) \in Seq(FileRecords)
        /\ Len(SortedById(rows)) = Cardinality(rows)
        /\ SectionHolds(s, SortedById(rows), Company)
        /\ \A r \in rows : \E i \in 1 .. Len(SortedById(rows)) : r = SortedById(rows)[i]
        /\ \A i \in 1 .. Len(SortedById(rows)) : SortedById(rows)[i] \in rows
    BY <2>2, WrittenSection
  <2>. QED
    BY <2>1, <2>3
<1>2. section \in [SectionNames -> Seq(FileRecords)]
  <2>1. \A s \in SectionNames : SortedById(read[s]) \in Seq(FileRecords)
    BY <1>1
  <2>. QED
    BY <2>1
<1>3. built = [text |-> "OBJECT", magic |-> TRUE, formatVersion |-> 2, keysKnown |-> TRUE,
               kind |-> TRUE, schemaVersion |-> 1, provenance |-> TRUE,
               source |-> [organization |-> Company, exportedBy |-> IdOf[Person]],
               counts |-> counts, integrity |-> data, data |-> data]
  BY DEF BuildEnvelope, CountSections, Digest, TheOrganization
<1>. HIDE DEF section, built
<1>5. data \in Contents
  BY <1>2 DEF Contents
<1>6. counts \in [SectionNames -> Int]
  BY <1>1
<1>. DEFINE source == [organization |-> Company, exportedBy |-> IdOf[Person]]
<1>7. source \in [organization : {Company, Absent}, exportedBy : RecordIds]
  BY ScreenAssumption, ExportAssumption DEF Injection
<1>8. /\ built.text = "OBJECT" /\ built.magic /\ built.formatVersion = 2 /\ built.keysKnown
      /\ built.kind /\ built.schemaVersion = 1 /\ built.provenance
      /\ built.source.organization = Company /\ built.counts = counts
      /\ built.integrity = data /\ built.data = data
  BY <1>3
<1>9. data.section = section /\ data.organization = TheOrganization
      /\ \A s \in SectionNames : counts[s] = Len(section[s])
  OBVIOUS
<1>. HIDE DEF data, counts, source
<1>10. built \in Files
  BY <1>3, <1>5, <1>6, <1>7 DEF Files, source
<1>11. ASSUME \A s \in SectionNames : ~(Cardinality(read[s]) > MaxRecords),
              \A c \in read["customers"] : IsReferred(c.reference, read["customerStatuses"])
       PROVE  ParseCloudBackup(built) = "NONE"
  <2>1. OrganizationHolds(TheOrganization, Company)
    BY DEF OrganizationHolds, TheOrganization, ServerTrim, Empty
  <2>2. ReferencesHold(section)
    <3>1. "customers" \in SectionNames /\ "customerStatuses" \in SectionNames
      BY TheSections
    <3>2. SUFFICES ASSUME NEW i \in 1 .. Len(section["customers"]),
                          section["customers"][i].reference # Absent
                   PROVE  \E j \in 1 .. Len(section["customerStatuses"]) :
                            section["customerStatuses"][j].id = section["customers"][i].reference
      BY DEF ReferencesHold
    <3>3. section["customers"][i] \in read["customers"]
      BY <1>1, <3>1
    <3>4. PICK t \in read["customerStatuses"] : t.id = section["customers"][i].reference
      BY <1>11, <3>2, <3>3 DEF IsReferred
    <3>. QED
      BY SMTT(30), <1>1, <3>1, <3>4
  <2>3. EnvelopeHolds(built)
    BY <1>8, <1>9, <2>1, <2>2 DEF EnvelopeHolds, Digest
  <2>4. SectionsHold(built)
    <3>1. \A s \in SectionNames : Len(section[s]) <= MaxRecords
      BY <1>1, <1>11, FileAssumption
    <3>. QED
      BY <1>1, <1>8, <1>9, <3>1 DEF SectionsHold
  <2>. QED
    BY <1>10, <2>3, <2>4, ReaderAccepts
<1>. QED
  BY <1>10, <1>11 DEF built

\* Only what reads back is handed over, and all that was read does.
LEMMA HandOverReads ==
    ASSUME ReadInv, ExportInv, HandOver
    PROVE  ReadInv'
<1>0. UNCHANGED <<stored, memberships>> /\ export.next = 5
  BY DEF HandOver, organizationVars, vars, ReadInv, RechecksComeLast, AfterLists
<1>1. CASE session # Person
  BY <1>0, <1>1, EndingReads DEF HandOver
<1>2. CASE session = Person
  <2>1. PICK built, verdict :
         /\ built = BuildEnvelope(TheOrganization, export.read, IdOf[Person])
         /\ verdict = ParseCloudBackup(built)
         /\ export' = [export EXCEPT !.pc = "done",
                                  !.outcome = IF verdict = "NONE" THEN "FILE" ELSE verdict]
    BY <1>2 DEF HandOver
  <2>2. /\ export'.pc = "done" /\ export'.next = export.next /\ export'.read = export.read
        /\ export'.away = export.away
        /\ verdict = "NONE" => export'.outcome = "FILE"
    BY <2>1 DEF ExportInv, ExportIsFormed
  <2>3. \/ verdict = "NONE"
        \/ \E s \in SectionNames : Cardinality(export.read[s]) > MaxRecords
        \/ \E c \in export.read["customers"] :
              ~IsReferred(c.reference, export.read["customerStatuses"])
    BY <2>1, BuiltIsAccepted DEF ReadInv, ReadsAreSound
  <2>4. ExportsReadBack'
    BY <1>0, <2>2, <2>3 DEF ExportsReadBack, ReadInv, ReferencesAreClosed, StatusesAreCounted
  <2>5. StoreIsSound' /\ ReadsAreSound' /\ RechecksComeLast'
    BY <1>0, <2>2 DEF ReadInv, StoreIsSound, ReadsAreSound, RechecksComeLast, AfterLists
  <2>6. ReferencesAreClosed'
    BY <1>0, <2>2 DEF ReadInv, ReferencesAreClosed, StatusesAreCounted
  <2>. QED
    BY <2>4, <2>5, <2>6 DEF ReadInv
<1>. QED
  BY <1>1, <1>2

-----------------------------------------------------------------------------
(* What becomes of a file.                                                 *)

\* A file in somebody's hands is one, and accepted only if it was.
FileInv ==
    /\ DOMAIN file = {"verdict", "edits", "contents"}
    /\ file.contents \subseteq Files /\ \A b, c \in file.contents : b = c
    /\ file.verdict = "NONE" => \A c \in file.contents : ParseCloudBackup(c) = "NONE"

\* Whatever is done to one record of a section leaves a section of records.
LEMMA SpoiltSectionsAreSections ==
    ASSUME NEW records \in Seq(FileRecords), records # <<>>
    PROVE  SpoiltSection(records) \subseteq Seq(FileRecords)
<1>1. Head(records) \in FileRecords /\ Tail(records) \in Seq(FileRecords)
  OBVIOUS
<1>2. Front(records) \in Seq(FileRecords)
  <2>1. Len(records) - 1 \in Nat /\ Len(records) - 1 <= Len(records)
    OBVIOUS
  <2>. QED
    BY <2>1 DEF Front
<1>3. <<Head(records)>> \o records \in Seq(FileRecords)
  BY <1>1
<1>4. Reverse(records) \in Seq(FileRecords)
  <2>1. \A i \in 1 .. Len(records) : records[(Len(records) - i) + 1] \in FileRecords
    OBVIOUS
  <2>. QED
    BY <2>1 DEF Reverse
<1>5. ASSUME NEW r \in SpoiltRecord(Head(records))
      PROVE  <<r>> \o Tail(records) \in Seq(FileRecords)
  <2>. PICK h \in FileRecords : h = Head(records)
    BY <1>1
  <2>1. /\ [h EXCEPT !.keysKnown = FALSE] \in FileRecords
        /\ [h EXCEPT !.id = 0] \in FileRecords
        /\ [h EXCEPT !.stamped = FALSE] \in FileRecords
        /\ [h EXCEPT !.version = 0] \in FileRecords
        /\ [h EXCEPT !.organization = Absent] \in FileRecords
    BY DEF FileRecords
  <2>2. ASSUME NEW id \in RecordIds
        PROVE  [h EXCEPT !.reference = id] \in FileRecords
    BY DEF FileRecords
  <2>3. r \in FileRecords
    BY <2>1, <2>2 DEF SpoiltRecord
  <2>. QED
    BY <1>1, <2>3
<1>. QED
  BY <1>2, <1>3, <1>4, <1>5 DEF SpoiltSection

\* A file stays one whatever is done to it.
LEMMA SpoiltFilesAreFiles ==
    ASSUME NEW content \in Files
    PROVE  Spoilt(content) \cup SpoiltData(content) \cup {Sealed(content)} \subseteq Files
<1>. PICK source, data : source = content.source /\ data = content.data
  OBVIOUS
<1>1. /\ source \in [organization : {Company, Absent}, exportedBy : RecordIds]
      /\ data \in Contents /\ data.section \in [SectionNames -> Seq(FileRecords)]
      /\ content.counts \in [SectionNames -> Int]
  BY DEF Files, Contents
<1>2. Spoilt(content) \subseteq Files
  <2>1. ASSUME NEW t \in {"BACKUP_TOO_LARGE", "BACKUP_TOO_DEEP", "BACKUP_FORBIDDEN_KEY",
                          "BACKUP_MALFORMED_JSON", "BACKUP_ENVELOPE_INVALID"}
        PROVE  [content EXCEPT !.text = t] \in Files
    BY DEF Files
  <2>2. /\ [content EXCEPT !.magic = FALSE] \in Files
        /\ [content EXCEPT !.formatVersion = 1] \in Files
        /\ [content EXCEPT !.keysKnown = FALSE] \in Files
        /\ [content EXCEPT !.kind = FALSE] \in Files
        /\ [content EXCEPT !.schemaVersion = 0] \in Files
        /\ [content EXCEPT !.schemaVersion = 2] \in Files
        /\ [content EXCEPT !.provenance = FALSE] \in Files
    BY DEF Files
  <2>3. [content EXCEPT !.source.organization = Absent] \in Files
    BY <1>1 DEF Files
  <2>4. [content EXCEPT !.data.organization.version = 0] \in Files
    BY <1>1 DEF Files, Contents, TheOrganization
  <2>5. ASSUME NEW s \in SectionNames
        PROVE  [content EXCEPT !.counts[s] = @ + 1] \in Files
    <3>. PICK counts : counts = [content.counts EXCEPT ![s] = @ + 1]
      OBVIOUS
    <3>1. counts \in [SectionNames -> Int]
      BY <1>1
    <3>2. [content EXCEPT !.counts = counts] \in Files
      BY <3>1 DEF Files
    <3>3. [content EXCEPT !.counts[s] = @ + 1] = [content EXCEPT !.counts = counts]
      OBVIOUS
    <3>. QED
      BY <3>2, <3>3
  <2>. QED
    BY <2>1, <2>2, <2>3, <2>4, <2>5 DEF Spoilt
<1>3. SpoiltData(content) \subseteq Files
  <2>1. ASSUME NEW s \in SectionNames, content.data.section[s] # <<>>,
               NEW records \in SpoiltSection(content.data.section[s])
        PROVE  [content EXCEPT !.data.section[s] = records] \in Files
    <3>1. content.data.section[s] \in Seq(FileRecords)
      BY <1>1
    <3>2. records \in Seq(FileRecords)
      BY <2>1, <3>1, SpoiltSectionsAreSections
    <3>. QED
      BY <3>2 DEF Files, Contents
  <2>. QED
    BY <2>1 DEF SpoiltData
<1>4. Sealed(content) \in Files
  <2>1. CountSections(content.data.section) \in [SectionNames -> Int]
    BY <1>1 DEF CountSections
  <2>2. Digest(content.data) \in Contents
    BY <1>1 DEF Digest
  <2>. QED
    BY <2>1, <2>2 DEF Sealed, Files
<1>. QED
  BY <1>2, <1>3, <1>4

\* The steps that touch a file.
LEMMA FilePreserves ==
    FileInv /\ ReadInv /\ [ExportNext]_<<organizationVars, exportVars>> => FileInv'
<1>. SUFFICES ASSUME FileInv, ReadInv, [ExportNext]_<<organizationVars, exportVars>>
              PROVE  FileInv'
  OBVIOUS
<1>1. CASE UNCHANGED file
  BY <1>1 DEF FileInv
<1>2. CASE HandOver
  <2>1. ASSUME NEW built, built = BuildEnvelope(TheOrganization, export.read, IdOf[Person]),
               ParseCloudBackup(built) = "NONE",
               file' = [verdict |-> "NONE", edits |-> 0, contents |-> {built}]
        PROVE  FileInv'
    <3>1. built \in Files
      BY <2>1, BuiltIsAccepted DEF ReadInv, ReadsAreSound
    <3>. QED
      BY <2>1, <3>1 DEF FileInv
  <2>. QED
    BY <1>1, <1>2, <2>1 DEF HandOver
<1>3. CASE Edit
  <2>1. PICK content \in file.contents :
        \E edited \in Spoilt(content) \cup SpoiltData(content) \cup {Sealed(content)} :
          file' = [verdict |-> "UNREAD", edits |-> file.edits + 1, contents |-> {edited}]
    BY <1>3 DEF Edit
  <2>2. PICK edited \in Files :
          file' = [verdict |-> "UNREAD", edits |-> file.edits + 1, contents |-> {edited}]
    BY <2>1, SpoiltFilesAreFiles DEF FileInv
  <2>. QED
    BY <2>2 DEF FileInv
<1>4. CASE ReadFile
  <2>1. PICK content \in file.contents :
          file' = [file EXCEPT !.verdict = ParseCloudBackup(content)]
    BY <1>4 DEF ReadFile
  <2>2. /\ file'.contents = file.contents /\ DOMAIN file' = DOMAIN file
        /\ file'.verdict = ParseCloudBackup(content)
    BY <2>1 DEF FileInv
  <2>. QED
    BY <2>2 DEF FileInv
<1>5. CASE Export \/ (ExportStep /\ ~HandOver)
  BY <1>1, <1>5 DEF Export, ExportStep, RequireOrganization, GuardBefore, Count, StillMember,
     ReadMembers, GuardAfter, ExportFails, Untouched
<1>6. CASE Others
  BY <1>1, <1>6 DEF Others, Create, Assign, Administer, ChangeSession, NoFileYet
<1>7. CASE UNCHANGED <<organizationVars, exportVars>>
  BY <1>1, <1>7 DEF exportVars
<1>. QED
  BY <1>2, <1>3, <1>4, <1>5, <1>6, <1>7 DEF ExportNext

\* Every step keeps what is stored and what is read sound.
LEMMA ReadPreserves ==
    ReadInv /\ ExportInv /\ [ExportNext]_<<organizationVars, exportVars>> => ReadInv'
<1>. SUFFICES ASSUME ReadInv, ExportInv, [ExportNext]_<<organizationVars, exportVars>>
              PROVE  ReadInv'
  OBVIOUS
<1>1. CASE Export
  <2>1. UNCHANGED <<stored, memberships>> /\ export.pc = "idle"
    BY <1>1 DEF Export, Untouched, organizationVars, vars
  <2>2. export' = [export EXCEPT !.pc = "organization"] => Goes("organization")
    BY DEF Goes
  <2>. QED
    BY <1>1, <2>1, <2>2, GoesReads, EndingReads DEF Export, BeforeCount, AfterLists
<1>2. CASE \/ RequireOrganization("organization", "readOnce", "guardOnce", "section")
           \/ RequireOrganization("recheck", "readAgain", "guardAgain", "session")
  <2>1. UNCHANGED <<stored, memberships>>
    BY <1>2 DEF RequireOrganization, Untouched, organizationVars, vars
  <2>. QED
    BY <1>2, <2>1, RequireReads
<1>4. CASE GuardBefore
  <2>1. UNCHANGED <<stored, memberships>>
    BY <1>4 DEF GuardBefore, Untouched, organizationVars, vars
  <2>. QED
    BY <1>4, <2>1, IdentifiedReads DEF GuardBefore, BeforeCount, AfterLists
<1>5. CASE Count
  BY <1>5, CountReads
<1>6. CASE StillMember
  BY <1>6, StillMemberReads
<1>7. CASE ReadMembers
  BY <1>7, MembersReads
<1>8. CASE GuardAfter
  BY <1>8, GuardAfterReads
<1>9. CASE ExportFails
  <2>1. UNCHANGED <<stored, memberships>>
    BY <1>9 DEF ExportFails, Untouched, organizationVars, vars
  <2>. QED
    BY <1>9, <2>1, EndingReads DEF ExportFails
<1>10. CASE HandOver
  BY <1>10, HandOverReads
<1>11. CASE Others
  BY <1>11, OthersReads
<1>12. CASE UNCHANGED <<stored, memberships, export>>
  BY <1>12 DEF ReadInv, StoreIsSound, ReadsAreSound, ReferencesAreClosed, StatusesAreCounted,
     RechecksComeLast, ExportsReadBack
<1>13. CASE Edit \/ ReadFile \/ UNCHANGED <<organizationVars, exportVars>>
  BY <1>12, <1>13 DEF Edit, ReadFile, exportVars, organizationVars, vars
<1>. QED
  BY <1>1, <1>2, <1>4, <1>5, <1>6, <1>7, <1>8, <1>9, <1>10, <1>11, <1>13
  DEF ExportNext, ExportStep

\* What the company holds when it begins, and nothing read.
LEMMA ReadInitEstablishes == Init /\ ScreenInit /\ ExportInit => ReadInv /\ FileInv
<1>. SUFFICES ASSUME Init, ScreenInit, ExportInit
              PROVE  ReadInv /\ FileInv
  OBVIOUS
<1>1. StoreIsSound
  <2>1. memberships \in Tables
    BY InitEstablishes DEF IInv, TypeOK
  <2>2. stored \in InitialStores
    BY DEF ExportInit
  <2>3. /\ stored \in [CatalogSections -> SUBSET StoredRows]
        /\ \A s \in CatalogSections :
              /\ IsFiniteSet(stored[s])
              /\ \A q, r \in stored[s] : q.id = r.id => q = r
        /\ \A c \in stored["customers"] : IsReferred(c.reference, stored["customerStatuses"])
    BY <2>2, StoresAssumption
  <2>4. ASSUME NEW s \in CatalogSections
        PROVE  HasIds(stored[s])
    <3>1. \A r \in stored[s] : r.id \in RecordIds
      BY <2>3 DEF StoredRows, StoredRow, RecordWith
    <3>. QED
      BY <2>3, <3>1, FileAssumption DEF HasIds
  <2>. QED
    BY <2>1, <2>3, <2>4 DEF StoreIsSound
<1>2. export.pc = "idle" /\ export.read = [s \in SectionNames |-> {}]
  BY DEF ExportInit, NotExporting
<1>3. ReadsAreSound
  BY <1>2, NothingHasIds DEF ReadsAreSound
<1>4. ReferencesAreClosed
  BY <1>2, TheSections DEF ReferencesAreClosed
<1>5. RechecksComeLast /\ ExportsReadBack
  BY <1>2 DEF RechecksComeLast, AfterLists, ExportsReadBack
<1>6. FileInv
  BY DEF ExportInit, NoFile, FileInv
<1>. QED
  BY <1>1, <1>3, <1>4, <1>5, <1>6 DEF ReadInv

\* The three invariants the next two theorems are read off.
LEMMA ExportInvariance == ExportSpec => [](ExportInv /\ ReadInv /\ FileInv)
  BY ExportInitEstablishes, ReadInitEstablishes, ExportPreserves, ReadPreserves, FilePreserves, PTL
  DEF ExportSpec

\* For any rows, statuses and colleagues: the export builds only files its own
\* reader accepts, but for a section past the limit and for customers whose
\* statuses were read as none by somebody away.
THEOREM ExportsAreReadable == ExportSpec => []ExportsReadBack
<1>1. ReadInv => ExportsReadBack
  BY DEF ReadInv
<1>. QED
  BY <1>1, ExportInvariance, PTL

\* A file the reader accepts, however often it has been spoilt and sealed, is what
\* the writer makes of the rows in it, and every status a customer has is there.
THEOREM ReadingWritesBack == ExportSpec => []ReadingIsWritingBack
<1>1. FileInv => ReadingIsWritingBack
  BY AcceptedIsWritten DEF FileInv, ReadingIsWritingBack
<1>. QED
  BY <1>1, ExportInvariance, PTL
=============================================================================
