------------------------ MODULE OrganizationScreen ------------------------
(***************************************************************************)
(* The company screen of one person: what it loads, which changes it       *)
(* offers on the rows it shows, and the invitation card.  What the person  *)
(* confirms is sent as a call of MembershipAdministration; the other calls *)
(* are made by other people.  An invitation's request is answered by the   *)
(* function that Provisioning models: here it succeeds, or it fails or its *)
(* answer is lost.                                                         *)
(***************************************************************************)
EXTENDS MembershipAdministration

CONSTANTS
    Company, Person,    \* runtime.organization and runtime.userId
    ScreenCalls,        \* the calls made from this screen
    Loads,              \* loads that can be under way at once
    Invitations,        \* what the card's three fields may hold
    EmptyInvitation,    \* nothing typed: the button is disabled
    Malformed,          \* the drafts inviteMember refuses by itself
    MaxEditions         \* bound: invitations typed, sent or discarded

ASSUME ScreenAssumption ==
    /\ Company \in Organizations /\ Person \in Users /\ ScreenCalls \subseteq Calls
    /\ EmptyInvitation \in Invitations /\ Malformed \subseteq Invitations
    /\ MaxEditions \in Nat

VARIABLES
    load,               \* what each load is waiting for, and what it has read
    shown,              \* the last load's answer: administration
    pending,            \* the change in the confirmation dialog
    busy,               \* the call that run() awaits
    offered,            \* the role under which each change was offered
    invite,             \* the invitation card
    sent                \* the invitation requests that have left the screen

screenVars == <<load, shown, pending, busy, offered, invite, sent>>
organizationVars == <<vars, screenVars>>

NotLoading == [pc |-> "idle", role |-> "NONE", members |-> [u \in Users |-> NoRow]]
NothingShown == [role |-> "NONE", members |-> [u \in Users |-> NoRow]]

\* edition counts the invitations: every change of a field, every success and
\* every new card begins another.  request is requestId.current, which stays 0
\* until the first submit; lastRequest is the newest id ever generated.
NewCard(edition, lastRequest) ==
    [draft |-> EmptyInvitation, request |-> 0, busy |-> FALSE,
     edition |-> edition, lastRequest |-> lastRequest]

ScreenInit ==
    /\ load = [l \in Loads |-> NotLoading]
    /\ shown = NothingShown
    /\ pending = {}
    /\ busy = None
    /\ offered = [c \in ScreenCalls |-> "NONE"]
    /\ invite = NewCard(0, 0)
    /\ sent = {}

-----------------------------------------------------------------------------
(* Loading: own membership, then the members, then the attempts.           *)

BeginsToLoad(l) ==
    /\ load[l].pc = "idle"
    /\ load' = [load EXCEPT ![l].pc = "own"]

\* On mount, and the retry of a load that failed.
Load(l) ==
    /\ BeginsToLoad(l)
    /\ UNCHANGED <<vars, shown, pending, busy, offered, invite, sent>>

\* The invitation card is there for administrators: when a load finds that the
\* person is none, the card goes, with what was typed and its request id.
Present(role, members) ==
    /\ shown' = [role |-> role, members |-> members]
    /\ invite' = IF role \in AdministratorRoles THEN invite
                 ELSE IF invite = NewCard(invite.edition, invite.lastRequest) THEN invite
                 ELSE NewCard(invite.edition + 1, invite.lastRequest)

LoadOwn(l) ==
    LET role == ActiveRole(memberships, Company, Person) IN
    /\ load[l].pc = "own"
    /\ IF role \in AdministratorRoles
       THEN /\ load' = [load EXCEPT ![l] = [load[l] EXCEPT !.pc = "members", !.role = role]]
            /\ UNCHANGED <<shown, invite>>
       ELSE /\ load' = [load EXCEPT ![l] = NotLoading]
            /\ Present(role, NothingShown.members)
    /\ UNCHANGED <<vars, pending, busy, offered, sent>>

\* list_organization_members is refused to anybody who is no administrator now.
LoadMembers(l) ==
    /\ load[l].pc = "members"
    /\ load' = IF IsAdministrator(memberships, Company, Person)
               THEN [load EXCEPT ![l] = [load[l] EXCEPT !.pc = "attempts",
                                                        !.members = memberships[Company]]]
               ELSE [load EXCEPT ![l] = NotLoading]
    /\ UNCHANGED <<vars, shown, pending, busy, offered, invite, sent>>

LoadEnds(l) ==
    /\ load[l].pc = "attempts"
    /\ load' = [load EXCEPT ![l] = NotLoading]
    /\ Present(load[l].role, load[l].members)
    /\ UNCHANGED <<vars, pending, busy, offered, sent>>

\* Any read may fail; the screen keeps what it showed, beside the error.
LoadFails(l) ==
    /\ load[l].pc # "idle"
    /\ load' = [load EXCEPT ![l] = NotLoading]
    /\ UNCHANGED <<vars, shown, pending, busy, offered, invite, sent>>

-----------------------------------------------------------------------------
(* What the screen offers on a row.                                        *)

EveryRole(role) == Roles                            \* fault: OWNER offered to an ADMIN
AssignableRoles(role) ==
    CASE role = "OWNER" -> Roles [] role = "ADMIN" -> Roles \ {"OWNER"} [] OTHER -> {}

CanManage(role, subject, row) ==
    /\ role \in AdministratorRoles /\ subject # Person
    /\ role = "OWNER" \/ row.role # "OWNER"

Opposite(status) == IF status = "ACTIVE" THEN "DISABLED" ELSE "ACTIVE"

\* The select or the button of a row; the dialog keeps the row as it was then,
\* whatever is loaded meanwhile.
Choose(subject, change) ==
    LET row == shown.members[subject] IN
    /\ pending = {} /\ busy = None
    /\ row # NoRow /\ CanManage(shown.role, subject, row)
    /\ \/ change \in AssignableRoles(shown.role) \ {row.role}
       \/ change = Opposite(row.status)
    /\ pending' = {[subject |-> subject, change |-> change, row |-> row, role |-> shown.role]}
    /\ UNCHANGED <<vars, load, shown, busy, offered, invite, sent>>

CancelPending ==
    /\ pending # {}
    /\ pending' = {}
    /\ UNCHANGED <<vars, load, shown, busy, offered, invite, sent>>

\* Confirmed: the call carries the version of the row in the dialog.
ConfirmPending(c) ==
    /\ callPc[c] = "unsent"
    /\ \E p \in pending :
        /\ call' = [call EXCEPT ![c] =
                       [org |-> Company, actor |-> Person, subject |-> p.subject,
                        change |-> p.change, seen |-> p.row]]
        /\ offered' = [offered EXCEPT ![c] = p.role]
    /\ busy' = c
    /\ callPc' = [callPc EXCEPT ![c] = "listed"]
    /\ pending' = {}
    /\ UNCHANGED <<memberships, adminLock, outcome, load, shown, invite, sent>>

\* The answer, or an error while the transaction may still run: run() is no
\* longer busy, and loads.
RunEnds(l) ==
    /\ busy # None
    /\ busy' = None
    /\ BeginsToLoad(l)
    /\ UNCHANGED <<vars, shown, pending, offered, invite, sent>>

-----------------------------------------------------------------------------
(* The invitation card.                                                    *)

KeepsTheId(card) == card.request                    \* fault: the id outlives its draft
AfterUpdate(card) == 0

\* The fields can be changed while a request is under way.
UpdateInvitation(draft) ==
    /\ shown.role \in AdministratorRoles
    /\ draft # invite.draft /\ invite.edition < MaxEditions
    /\ invite' = [invite EXCEPT !.draft = draft, !.request = AfterUpdate(invite),
                                !.edition = @ + 1]
    /\ UNCHANGED <<vars, load, shown, pending, busy, offered, sent>>

\* requestId.current ??= ...; a draft that inviteMember refuses is not sent.
Submit ==
    /\ shown.role \in AdministratorRoles
    /\ ~invite.busy /\ invite.draft # EmptyInvitation
    /\ \E request \in {IF invite.request = 0 THEN invite.lastRequest + 1 ELSE invite.request} :
        /\ invite' = [invite EXCEPT !.request = request, !.busy = invite.draft \notin Malformed,
                                    !.lastRequest = IF @ < request THEN request ELSE @]
        /\ sent' = IF invite.draft \in Malformed THEN sent
                   ELSE sent \cup {[request |-> request, draft |-> invite.draft,
                                    edition |-> invite.edition]}
    /\ UNCHANGED <<vars, load, shown, pending, busy, offered>>

\* SUCCEEDED: the card is emptied, whatever has been typed since, and the
\* screen loads.
InvitationSucceeds(l) ==
    /\ invite.busy
    /\ invite' = NewCard(invite.edition + 1, invite.lastRequest)
    /\ BeginsToLoad(l)
    /\ UNCHANGED <<vars, shown, pending, busy, offered, sent>>

\* Refused, failed, or the answer lost: what was typed stays, with its id.
InvitationFails ==
    /\ invite.busy
    /\ invite' = [invite EXCEPT !.busy = FALSE]
    /\ UNCHANGED <<vars, load, shown, pending, busy, offered, sent>>

-----------------------------------------------------------------------------
LoadNext(l) ==
    \/ Load(l) \/ LoadOwn(l) \/ LoadMembers(l) \/ LoadEnds(l) \/ LoadFails(l)

\* What the screen does, and what the transactions do.
PeopleNext ==
    \/ \E l \in Loads : LoadNext(l) \/ RunEnds(l)
    \/ \E subject \in Users, change \in Changes : Choose(subject, change)
    \/ CancelPending
    \/ \E c \in ScreenCalls : ConfirmPending(c)
    \/ \E c \in Calls \ ScreenCalls : List(c) /\ UNCHANGED screenVars
    \/ \E c \in Calls : Step(c) /\ UNCHANGED screenVars

InviteNext ==
    \/ \E l \in Loads : LoadNext(l) \/ InvitationSucceeds(l)
    \/ \E draft \in Invitations : UpdateInvitation(draft)
    \/ Submit \/ InvitationFails
    \/ \E c \in Calls \ ScreenCalls : List(c) /\ UNCHANGED screenVars
    \/ \E c \in Calls \ ScreenCalls : Step(c) /\ UNCHANGED screenVars

OrganizationSpec == Init /\ ScreenInit /\ [][PeopleNext \/ InviteNext]_organizationVars

-----------------------------------------------------------------------------
(* Properties.                                                             *)

Members == [Users -> Rows \cup {NoRow}]

ScreenTypeOK ==
    /\ load \in [Loads -> [pc : {"idle", "own", "members", "attempts"}, role : Roles \cup {"NONE"},
                            members : Members]]
    /\ shown \in [role : Roles \cup {"NONE"}, members : Members]
    /\ pending \subseteq [subject : Users, change : Changes, row : Rows, role : AdministratorRoles]
    /\ busy \in ScreenCalls \cup {None}
    /\ offered \in [ScreenCalls -> AdministratorRoles \cup {"NONE"}]
    /\ invite \in [draft : Invitations, request : Nat, busy : BOOLEAN, edition : Nat,
                    lastRequest : Nat]
    /\ sent \subseteq [request : Nat \ {0}, draft : Invitations, edition : Nat]

\* The screen offers only what the server would accept of the rows it shows
\* (canManage and assignableRoles mirror the functions' rules): a change it
\* sent is refused for lack of authority only when the person's own row or
\* the subject's is no longer what the screen showed, and never as one's own.
OffersWhatIsAccepted ==
    [][\A c \in ScreenCalls :
         /\ offered[c] # "NONE" /\ outcome[c] = "NONE"
         /\ outcome'[c] \in {"OWN_MEMBERSHIP", "NOT_ADMINISTRATOR", "OWNER_ONLY",
                             "RECORD_NOT_FOUND"}
         => /\ outcome'[c] # "OWN_MEMBERSHIP"
            /\ \/ ActiveRole(memberships, Company, Person) # offered[c]
               \/ memberships[Company][call[c].subject] # call[c].seen]_organizationVars

\* One request id stands for one invitation: a retry of it carries the same
\* id, and an invitation that was changed, succeeded or begun anew never does.
InvitationsKeepTheirId ==
    \A a, b \in sent :
        /\ a.request = b.request <=> a.edition = b.edition
        /\ a.request = b.request => a.draft = b.draft
=============================================================================
