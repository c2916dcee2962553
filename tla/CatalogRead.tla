----------------------------- MODULE CatalogRead -----------------------------
(***************************************************************************)
(* One list of the catalogue, read by a screen: the bracket of             *)
(* guardedGateway.ts around readAll of gateway.ts, which reads keyset      *)
(* pages and reconciles them against one count.                            *)
(*                                                                         *)
(* Ids are the row ids in their order.  Rows are written, never deleted;   *)
(* `row` holds each row's version, 0 for one that does not exist.  The     *)
(* server answers for whoever's session is stored when a request is sent.  *)
(***************************************************************************)
EXTENDS Integers, FiniteSets

CONSTANTS
    Ids,                \* row ids
    People, Nobody,     \* Nobody: no session
    Reader,             \* the person the screen's runtime was built for
    Reads,              \* the calls a screen makes, each used again when ended
    PageSize, MaxRows,  \* what a page asks for, and the server's cap
    MaxPages,           \* MAX_PAGES
    MaxTraversals,      \* MAX_CATALOG_TRAVERSALS
    RequestsFail,       \* whether requests may fail
    MaxVersion          \* bound: writes of one row

ASSUME IdsAssumption == Ids \subseteq Int /\ IsFiniteSet(Ids)
ASSUME PeopleAssumption == Nobody \notin People /\ Reader \in People
ASSUME LimitsAssumption == PageSize \in Nat \ {0} /\ MaxRows \in Nat
                           /\ MaxPages \in Nat /\ MaxTraversals \in Nat \ {0}
ASSUME BoundsAssumption == RequestsFail \in BOOLEAN /\ MaxVersion \in Nat

VARIABLES
    row,        \* the list's rows on the server
    session,    \* whose session the browser holds
    members,    \* the organisation's ACTIVE members
    lost,       \* whether the screen's runtime has been dropped (onLoss)
    read        \* the calls

readVars == <<row, session, members, lost, read>>
server == <<row, session, members>>

Existing == {i \in Ids : row[i] > 0}
Visible == IF session \in members THEN Existing ELSE {}

Unread == [i \in Ids |-> 0]
Steps == {"idle", "before", "page", "count", "member", "after", "done"}
ReadStates ==
    [pc : Steps, got : [Ids -> Nat], length : Nat, ahead : SUBSET Ids, page : 0..MaxPages,
     traversal : 1..MaxTraversals, outcome : {"NONE", "ANSWERED", "REFUSED"}]

Fresh(pc, outcome) ==
    [pc |-> pc, got |-> Unread, length |-> 0, ahead |-> Ids, page |-> 0,
     traversal |-> 1, outcome |-> outcome]

Got(r) == {i \in Ids : read[r].got[i] > 0}

ReadInit ==
    /\ row \in [Ids -> 0..1]
    /\ session = Reader
    /\ members \in {m \in SUBSET People : Reader \in m}
    /\ lost = FALSE
    /\ read = [r \in Reads |-> Fresh("idle", "NONE")]

At(r, pc) == read[r].pc = pc
Goes(r, pc) == read' = [read EXCEPT ![r].pc = pc]
Begin(r) ==
    /\ read[r].pc \in {"idle", "done"} /\ ~lost
    /\ read' = [read EXCEPT ![r] = Fresh("before", "NONE")]
    /\ UNCHANGED <<row, session, members, lost>>

\* A call that ends without an answer, with the runtime or without it.
Ends(r) == read' = [read EXCEPT ![r] = Fresh("done", "REFUSED")]
Refuses(r) == Ends(r) /\ UNCHANGED lost
Loses(r) == Ends(r) /\ lost' = TRUE

\* assertIdentity, before the request and after the answer: the signed-in
\* person is still the one the runtime was built for.
SameIdentity == session = Reader

CheckBefore(r) ==
    /\ At(r, "before")
    /\ \/ RequestsFail /\ (Refuses(r) \/ Loses(r))
       \/ ~SameIdentity /\ Loses(r)
       \/ SameIdentity /\ Goes(r, "page") /\ UNCHANGED lost
    /\ UNCHANGED server

\* A request that fails, or is sent without a session and refused; the guard
\* drops the runtime when the code says the session has expired.
Fails(r) == (RequestsFail \/ session = Nobody) /\ (Refuses(r) \/ Loses(r))

-----------------------------------------------------------------------------
(* traverse: one page after the other until none remain.                   *)

Limit == IF PageSize < MaxRows THEN PageSize ELSE MaxRows

\* The first n of a set of ids, in their order.
First(n, s) == {i \in s : Cardinality({j \in s : j < i}) < n}

FromTheStart(r, data) == read[r].ahead              \* fault: the cursor stays
Behind(r, data) == {i \in Ids : \A j \in data : j < i}

OnePageMore(r) == read[r].page <= MaxPages          \* fault: off by one
AnotherPage(r) == read[r].page < MaxPages

ReadPage(r) ==
    LET waiting == Visible \cap read[r].ahead
        data == First(Limit, waiting)
        next == [read[r] EXCEPT
                   !.got = [i \in Ids |-> IF i \in data THEN row[i] ELSE @[i]],
                   !.length = @ + Cardinality(data),
                   !.page = @ + 1,
                   !.ahead = Behind(r, data)]
    IN
    /\ At(r, "page")
    /\ \/ Fails(r)
       \/ ~AnotherPage(r) /\ Refuses(r)             \* did not converge
       \/ /\ AnotherPage(r) /\ session # Nobody
          /\ IF waiting = data
             THEN IF Cardinality({i \in Ids : next.got[i] > 0}) # next.length
                  THEN Refuses(r)                   \* a row twice
                  ELSE read' = [read EXCEPT ![r] = [next EXCEPT !.pc = "count"]] /\ UNCHANGED lost
             ELSE IF data = {}
                  THEN Refuses(r)                   \* rows reported, none returned
                  ELSE read' = [read EXCEPT ![r] = next] /\ UNCHANGED lost
    /\ UNCHANGED server

-----------------------------------------------------------------------------
(* readAll: traversals reconciled against one exact count.                 *)

SameTraversal(n) == n                               \* fault: never counted
NextTraversal(n) == n + 1

TraversesAgain(r) ==
    IF read[r].traversal < MaxTraversals
    THEN /\ read' = [read EXCEPT ![r] =
              [Fresh("page", "NONE") EXCEPT !.traversal = NextTraversal(read[r].traversal)]]
         /\ UNCHANGED lost
    ELSE Refuses(r)

NotReconciled(total, length) == TRUE                \* fault: the pages are believed
Reconciled(total, length) == total = length

Count(r) ==
    LET total == Cardinality(Visible)
        length == read[r].length
    IN
    /\ At(r, "count")
    /\ \/ Fails(r)
       \/ /\ session # Nobody /\ Reconciled(total, length)
          /\ Goes(r, IF length = 0 THEN "member" ELSE "after")
          /\ UNCHANGED lost
       \/ /\ session # Nobody /\ ~Reconciled(total, length) /\ total < length
          /\ Goes(r, "member")
          /\ UNCHANGED lost
       \/ /\ session # Nobody /\ ~Reconciled(total, length) /\ total >= length
          /\ TraversesAgain(r)
    /\ UNCHANGED server

\* assertStillMember: asked when nothing was read, or rows have disappeared.
AskMember(r) ==
    /\ At(r, "member")
    /\ \/ Fails(r)
       \/ session # Nobody /\ session \notin members /\ Loses(r)
       \/ session \in members /\ read[r].length = 0 /\ Goes(r, "after") /\ UNCHANGED lost
       \/ session \in members /\ read[r].length > 0 /\ TraversesAgain(r)
    /\ UNCHANGED server

CheckAfter(r) ==
    /\ At(r, "after")
    /\ \/ RequestsFail /\ (Refuses(r) \/ Loses(r))
       \/ ~SameIdentity /\ Loses(r)
       \/ /\ SameIdentity
          /\ read' = [read EXCEPT ![r].pc = "done", ![r].outcome = "ANSWERED"]
          /\ UNCHANGED lost
    /\ UNCHANGED server

ReadStep(r) == CheckBefore(r) \/ ReadPage(r) \/ Count(r) \/ AskMember(r) \/ CheckAfter(r)

-----------------------------------------------------------------------------
(* What changes meanwhile: rows are created and updated by members, other  *)
(* tabs sign in and out, members come and go.                              *)

Write(i) ==
    /\ row[i] < MaxVersion
    /\ row' = [row EXCEPT ![i] = @ + 1]
    /\ UNCHANGED <<session, members, lost, read>>

ChangeSession ==
    /\ session' \in People \cup {Nobody}
    /\ UNCHANGED <<row, members, lost, read>>

ChangeMembers ==
    /\ members' \in SUBSET People
    /\ UNCHANGED <<row, session, lost, read>>

\* Another call, or the auth listener, drops the runtime.
Drop ==
    /\ lost' = TRUE
    /\ UNCHANGED <<row, session, members, read>>

Around == ChangeSession \/ ChangeMembers \/ Drop \/ \E i \in Ids : Write(i)

ReadNext ==
    \/ Around
    \/ \E r \in Reads : ReadStep(r)
    \/ \E r \in Reads : Begin(r)

ReadSpec == ReadInit /\ [][ReadNext]_readVars

\* Every request is answered or fails, and a settled promise runs on.
FairReadSpec == ReadSpec /\ \A r \in Reads : WF_readVars(ReadStep(r))

-----------------------------------------------------------------------------
(* Properties.                                                             *)

ReadTypeOK ==
    /\ row \in [Ids -> Nat]
    /\ session \in People \cup {Nobody}
    /\ members \subseteq People
    /\ lost \in BOOLEAN
    /\ read \in [Reads -> ReadStates]

\* No row is counted twice in a traversal: the refusal of a read that returned
\* a row twice is never reached (readAll, gateway.ts).
RowsReadOnce ==
    \A r \in Reads : read[r].pc # "done" => Cardinality(Got(r)) = read[r].length

\* What a call has settled on: the pages, once a count has agreed with them.
Settled(r) ==
    \/ At(r, "after")
    \/ At(r, "member") /\ read[r].length = 0
    \/ At(r, "done") /\ read[r].outcome = "ANSWERED"

Answer(r) == [taken |-> Settled(r), ids |-> IF Settled(r) THEN Got(r) ELSE {}]

Complete == INSTANCE CompleteReads WITH
    visible <- Visible,
    answer <- [r \in Reads |-> Answer(r)],
    ended <- {r \in Reads : read[r].pc \in {"idle", "done"}}

\* The ids an answer returns are all the rows that could be seen at one instant
\* of the call, whatever is written, whoever signs in and whoever is a member
\* between its pages (readAll's comment in gateway.ts).
ReadsAreComplete == Complete!Spec

\* Every call ends, however often rows are written and memberships come and go
\* between its requests (MAX_CATALOG_TRAVERSALS, MAX_PAGES).
EveryReadEnds == \A r \in Reads : [](read[r].pc # "idle" => <>At(r, "done"))
=============================================================================
