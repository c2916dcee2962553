--------------------------- MODULE CatalogProofs ---------------------------
(***************************************************************************)
(* The catalogue.  Its reads, for any rows, limits, people and number of   *)
(* calls: no row is read twice, and an answer is the whole list at one     *)
(* instant.  Its screen: the reads are those of CatalogRead, and the saves *)
(* overwrite nothing that was not read.  And the life of one record, for   *)
(* any numbers, drafts and imported records: what is stored can be         *)
(* exported, a form says first what is wrong, a factor keeps its meaning,  *)
(* an import matches its source.                                           *)
(***************************************************************************)
EXTENDS CatalogScreen, CatalogRecords, FiniteSetTheorems, TLAPS

\* What has been read lies before what is still to be read.
GotIsBehind ==
    \A r \in Reads : At(r, "before") \/ At(r, "page") => \A i \in Got(r), j \in read[r].ahead : i < j

\* Rows are never deleted, so what has been read is still there.
GotExists == \A r \in Reads : Got(r) \subseteq Existing

\* The inductive invariant.
ReadInv == ReadTypeOK /\ RowsReadOnce /\ GotIsBehind /\ GotExists

-----------------------------------------------------------------------------

\* A set of ids is finite, and its size a natural number (IdsAssumption).
LEMMA IdsFinite ==
    ASSUME NEW S \in SUBSET Ids
    PROVE  IsFiniteSet(S) /\ Cardinality(S) \in Nat
  BY IdsAssumption, FS_Subset, FS_CardinalityType

\* Two sets of ids of which one includes the other and that are of one size are
\* one set: the argument of readAll's comment (gateway.ts).
LEMMA SameSize ==
    ASSUME NEW S \in SUBSET Ids, NEW T \in SUBSET S, Cardinality(S) = Cardinality(T)
    PROVE  S = T
  BY IdsFinite, FS_Subset

\* Disjoint sets of ids: the size of the union is the sum of the sizes.
LEMMA DisjointSize ==
    ASSUME NEW S \in SUBSET Ids, NEW T \in SUBSET Ids, S \cap T = {}
    PROVE  Cardinality(S \cup T) = Cardinality(S) + Cardinality(T)
  <1>1. IsFiniteSet(S) /\ IsFiniteSet(T) /\ Cardinality(S) \in Nat /\ Cardinality(T) \in Nat
    BY IdsFinite
  <1>2. Cardinality(S \cup T) = Cardinality(S) + Cardinality(T) - Cardinality(S \cap T)
    BY <1>1, FS_Union
  <1>3. Cardinality(S \cap T) = 0
    BY FS_EmptySet
  <1> QED
    BY <1>1, <1>2, <1>3

\* A call that begins, begins again or has been refused has read nothing.
LEMMA FreshRead ==
    ASSUME NEW pc \in Steps, NEW outcome \in {"NONE", "ANSWERED", "REFUSED"},
           NEW n \in 1..MaxTraversals
    PROVE  LET f == [Fresh(pc, outcome) EXCEPT !.traversal = n]
           IN  /\ f \in ReadStates /\ Fresh(pc, outcome) \in ReadStates
               /\ f.pc = pc /\ f.length = 0
               /\ Fresh(pc, outcome).pc = pc /\ Fresh(pc, outcome).length = 0
               /\ \A i \in Ids : f.got[i] = 0 /\ Fresh(pc, outcome).got[i] = 0
  BY LimitsAssumption DEF Fresh, ReadStates, Unread

-----------------------------------------------------------------------------

LEMMA InitInv == ReadInit => ReadInv
  <1> SUFFICES ASSUME ReadInit PROVE ReadInv
    OBVIOUS
  <1>1. 1 \in 1..MaxTraversals
    BY LimitsAssumption
  <1>2. Fresh("idle", "NONE") \in ReadStates
    BY <1>1, FreshRead DEF Steps
  <1>3. \A r \in Reads : At(r, "idle") /\ read[r].length = 0 /\ Got(r) = {}
    BY <1>1, FreshRead DEF ReadInit, At, Got, Steps, Fresh, Unread
  <1>4. ReadTypeOK
    <2>1. row \in [Ids -> Nat]
      BY DEF ReadInit
    <2>2. read \in [Reads -> ReadStates]
      BY <1>2 DEF ReadInit
    <2>3. session \in People \cup {Nobody} /\ members \subseteq People /\ lost \in BOOLEAN
      BY PeopleAssumption DEF ReadInit
    <2> QED
      BY <2>1, <2>2, <2>3 DEF ReadTypeOK
  <1>5. RowsReadOnce
    BY <1>3, FS_EmptySet DEF RowsReadOnce
  <1>6. GotIsBehind /\ GotExists
    BY <1>3 DEF GotIsBehind, GotExists, At
  <1> QED
    BY <1>4, <1>5, <1>6 DEF ReadInv

\* A step of one call, of which the new state of the call is well-formed,
\* preserves the invariant: nothing else of it is about that step.
LEMMA OneCall ==
    ASSUME ReadInv, NEW r \in Reads, NEW s \in ReadStates,
           read' = [read EXCEPT ![r] = s], UNCHANGED server, lost' \in BOOLEAN,
           s.pc # "done" => Cardinality({i \in Ids : s.got[i] > 0}) = s.length,
           s.pc \in {"before", "page"} => \A i \in {k \in Ids : s.got[k] > 0}, j \in s.ahead : i < j,
           {i \in Ids : s.got[i] > 0} \subseteq Existing
    PROVE  ReadInv'
  <1>1. read'[r] = s /\ \A q \in Reads \ {r} : read'[q] = read[q]
    BY DEF ReadInv, ReadTypeOK
  <1>2. Existing' = Existing
    BY DEF Existing, server
  <1>3. Got(r)' = {i \in Ids : s.got[i] > 0} /\ \A q \in Reads \ {r} : Got(q)' = Got(q)
    BY <1>1 DEF Got
  <1>4. ReadTypeOK'
    BY DEF ReadInv, ReadTypeOK, server
  <1>5. RowsReadOnce'
    BY <1>1, <1>3 DEF ReadInv, RowsReadOnce
  <1>6. GotIsBehind'
    BY <1>1, <1>3 DEF ReadInv, GotIsBehind, At
  <1>7. GotExists'
    BY <1>1, <1>2, <1>3 DEF ReadInv, GotExists
  <1> QED
    BY <1>4, <1>5, <1>6, <1>7 DEF ReadInv

\* A refused call preserves it.
LEMMA RefusedCall ==
    ASSUME ReadInv, NEW r \in Reads, UNCHANGED server, Refuses(r) \/ Loses(r)
    PROVE  ReadInv'
  <1>1. 1 \in 1..MaxTraversals
    BY LimitsAssumption
  <1>2. Fresh("done", "REFUSED") \in ReadStates
    BY <1>1, FreshRead DEF Steps
  <1>3. Fresh("done", "REFUSED").pc = "done" /\ {i \in Ids : Fresh("done", "REFUSED").got[i] > 0} = {}
    BY DEF Fresh, Unread
  <1>4. read' = [read EXCEPT ![r] = Fresh("done", "REFUSED")] /\ lost' \in BOOLEAN
    BY DEF ReadInv, ReadTypeOK, Refuses, Loses, Ends
  <1> QED
    BY <1>2, <1>3, <1>4, OneCall

\* A call that only goes on to another request keeps what it has read.
LEMMA CallGoesOn ==
    ASSUME ReadInv, NEW r \in Reads, UNCHANGED server, lost' = lost,
           NEW pc \in Steps \ {"before", "page"}, NEW outcome \in {"NONE", "ANSWERED"},
           ~At(r, "done"),
           read' = [read EXCEPT ![r].pc = pc, ![r].outcome = outcome]
    PROVE  ReadInv'
  <1> DEFINE s == [read[r] EXCEPT !.pc = pc, !.outcome = outcome]
  <1>1. read[r] \in ReadStates
    BY DEF ReadInv, ReadTypeOK
  <1>2. s \in ReadStates /\ s.pc = pc /\ s.got = read[r].got /\ s.length = read[r].length
    BY <1>1 DEF ReadStates
  <1>3. read' = [read EXCEPT ![r] = s]
    BY <1>1 DEF ReadInv, ReadTypeOK, ReadStates
  <1>4. Cardinality({i \in Ids : s.got[i] > 0}) = s.length /\ {i \in Ids : s.got[i] > 0} \subseteq Existing
    BY <1>2 DEF ReadInv, RowsReadOnce, GotExists, Got, At
  <1>5. lost' \in BOOLEAN
    BY DEF ReadInv, ReadTypeOK
  <1> QED
    BY <1>2, <1>3, <1>4, <1>5, OneCall

LEMMA OnlyGoesOn ==
    ASSUME ReadInv, NEW r \in Reads, UNCHANGED server, lost' = lost,
           NEW pc \in {"member", "after"}, read[r].pc \in {"count", "member"},
           Goes(r, pc)
    PROVE  ReadInv'
  <1> DEFINE s == [read[r] EXCEPT !.pc = pc]
  <1>1. read[r] \in ReadStates
    BY DEF ReadInv, ReadTypeOK
  <1>2. s \in ReadStates /\ s.pc = pc /\ s.got = read[r].got /\ s.length = read[r].length
    BY <1>1 DEF ReadStates, Steps
  <1>3. read' = [read EXCEPT ![r] = s] /\ lost' \in BOOLEAN
    BY DEF Goes, ReadInv, ReadTypeOK
  <1>4. {i \in Ids : s.got[i] > 0} = Got(r)
    BY <1>2 DEF Got
  <1> HIDE DEF s
  <1>5. Cardinality(Got(r)) = s.length /\ Got(r) \subseteq Existing
    BY <1>2 DEF ReadInv, RowsReadOnce, GotExists
  <1> QED
    BY <1>2, <1>3, <1>4, <1>5, OneCall

-----------------------------------------------------------------------------

LEMMA BeginInv == ASSUME ReadInv, NEW r \in Reads, Begin(r) PROVE ReadInv'
  <1>1. 1 \in 1..MaxTraversals
    BY LimitsAssumption
  <1>2. Fresh("before", "NONE") \in ReadStates
    BY <1>1, FreshRead DEF Steps
  <1>3. {i \in Ids : Fresh("before", "NONE").got[i] > 0} = {}
    BY DEF Fresh, Unread
  <1>4. Fresh("before", "NONE").pc = "before" /\ Fresh("before", "NONE").length = 0
    BY DEF Fresh
  <1>5. read' = [read EXCEPT ![r] = Fresh("before", "NONE")] /\ UNCHANGED server /\ lost' \in BOOLEAN
    BY DEF Begin, ReadInv, ReadTypeOK, server
  <1> QED
    BY <1>2, <1>3, <1>4, <1>5, OneCall, FS_EmptySet

LEMMA AgainInv ==
    ASSUME ReadInv, NEW r \in Reads, UNCHANGED server, TraversesAgain(r)
    PROVE  ReadInv'
  <1>1. CASE read[r].traversal < MaxTraversals
    <2> DEFINE n == read[r].traversal + 1
               s == [Fresh("page", "NONE") EXCEPT !.traversal = n]
    <2>1. read[r] \in ReadStates
      BY DEF ReadInv, ReadTypeOK
    <2>2. n \in 1..MaxTraversals
      BY <1>1, <2>1, LimitsAssumption DEF ReadStates
    <2>3. s \in ReadStates /\ s.length = 0 /\ {i \in Ids : s.got[i] > 0} = {}
      BY <2>2, FreshRead DEF Steps
    <2>4. read' = [read EXCEPT ![r] = s] /\ lost' \in BOOLEAN
      BY <1>1 DEF TraversesAgain, NextTraversal, ReadInv, ReadTypeOK
    <2> QED
      BY <2>3, <2>4, OneCall, FS_EmptySet
  <1>2. CASE ~(read[r].traversal < MaxTraversals)
    BY <1>2, RefusedCall DEF TraversesAgain
  <1> QED
    BY <1>1, <1>2

\* A page: its rows are new, exist, and lie before all that is still ahead.
LEMMA PageInv == ASSUME ReadInv, NEW r \in Reads, ReadPage(r) PROVE ReadInv'
  <1> DEFINE waiting == Visible \cap read[r].ahead
             data == First(Limit, waiting)
             next == [read[r] EXCEPT
                        !.got = [i \in Ids |-> IF i \in data THEN row[i] ELSE @[i]],
                        !.length = @ + Cardinality(data),
                        !.page = @ + 1,
                        !.ahead = Behind(r, data)]
             onward == [next EXCEPT !.pc = "count"]
             got == {i \in Ids : next.got[i] > 0}
  <1>1. UNCHANGED server /\ At(r, "page")
    BY DEF ReadPage
  <1>2. read[r] \in ReadStates /\ row \in [Ids -> Nat]
    BY DEF ReadInv, ReadTypeOK
  <1>3. data \subseteq waiting /\ waiting \subseteq Existing /\ waiting \subseteq read[r].ahead
    BY DEF First, Visible
  <1>4. data \subseteq Ids /\ Got(r) \subseteq Ids /\ Existing \subseteq Ids
    BY <1>3 DEF Got, Existing
  <1>5. \A i \in Got(r), j \in read[r].ahead : i < j
    BY <1>1 DEF ReadInv, GotIsBehind
  <1>6. Got(r) \cap data = {}
    <2> SUFFICES ASSUME NEW i \in Got(r), i \in data PROVE FALSE
      OBVIOUS
    <2>1. i \in Int
      BY <1>4, IdsAssumption
    <2>2. i \in read[r].ahead
      BY <1>3
    <2>3. i < i
      BY <1>5, <2>2
    <2> QED
      BY <2>1, <2>3
  <1>7. Cardinality(data) \in Nat /\ Cardinality(Got(r)) \in Nat
    <2> HIDE DEF data
    <2> QED
      BY <1>4, IdsFinite
  <1>8. next.got = [i \in Ids |-> IF i \in data THEN row[i] ELSE read[r].got[i]]
    BY <1>2 DEF ReadStates
  <1>9. got = Got(r) \cup data
    BY <1>2, <1>3, <1>8 DEF Got, Existing
  <1>10. Cardinality(Got(r)) = read[r].length
    BY <1>1 DEF ReadInv, RowsReadOnce, At
  <1>11. next.length = read[r].length + Cardinality(data)
    BY <1>2 DEF ReadStates
  <1>12. Cardinality(got) = next.length
    BY <1>4, <1>6, <1>9, <1>10, <1>11, DisjointSize
  <1>13. got \subseteq Existing
    BY <1>3, <1>9 DEF ReadInv, GotExists
  <1>14. ASSUME AnotherPage(r)
         PROVE  next \in ReadStates /\ onward \in ReadStates
    <2>1. Behind(r, data) \in SUBSET Ids
      BY DEF Behind
    <2>2. read[r].page + 1 \in 0..MaxPages
      BY <1>2, <1>14, LimitsAssumption DEF AnotherPage, ReadStates
    <2>3. next.got \in [Ids -> Nat]
      BY <1>2, <1>8 DEF ReadStates
    <2>4. next.length \in Nat
      BY <1>2, <1>7, <1>11 DEF ReadStates
    <2> QED
      BY <1>2, <2>1, <2>2, <2>3, <2>4 DEF ReadStates, Steps
  <1>15. next.ahead = Behind(r, data) /\ next.pc = "page"
    BY <1>1, <1>2 DEF ReadStates, At
  <1>16. onward.pc = "count" /\ onward.got = next.got /\ onward.length = next.length
    BY <1>2 DEF ReadStates
  <1>17. lost \in BOOLEAN
    BY DEF ReadInv, ReadTypeOK
  <1>18. \/ Refuses(r) \/ Loses(r)
         \/ AnotherPage(r) /\ read' = [read EXCEPT ![r] = onward] /\ UNCHANGED lost
         \/ AnotherPage(r) /\ data # {} /\ read' = [read EXCEPT ![r] = next] /\ UNCHANGED lost
    BY DEF ReadPage, Fails
  <1>19. \A i : i \in got <=> i \in Ids /\ next.got[i] > 0
    OBVIOUS
  <1> HIDE DEF waiting, data, next, onward, got
  <1>20. CASE Refuses(r) \/ Loses(r)
    BY <1>1, <1>20, RefusedCall
  <1>21. CASE AnotherPage(r) /\ read' = [read EXCEPT ![r] = onward] /\ UNCHANGED lost
    <2>1. got = {i \in Ids : onward.got[i] > 0}
      BY <1>16, <1>19
    <2> QED
      BY <1>1, <1>12, <1>13, <1>14, <1>16, <1>17, <1>21, <2>1, OneCall
  <1>22. CASE AnotherPage(r) /\ data # {} /\ read' = [read EXCEPT ![r] = next] /\ UNCHANGED lost
    <2>1. got = {i \in Ids : next.got[i] > 0}
      BY <1>19
    <2>2. \A i \in got, j \in Behind(r, data) : i < j
      <3> SUFFICES ASSUME NEW i \in got, NEW j \in Behind(r, data) PROVE i < j
        OBVIOUS
      <3>1. PICK k \in data : TRUE
        BY <1>22
      <3>2. k < j /\ (i \in data => i < j)
        BY DEF Behind
      <3>3. i \in Got(r) => i < k
        BY <1>3, <1>5
      <3>4. i \in Int /\ j \in Int /\ k \in Int
        BY <1>4, <1>9, IdsAssumption DEF Behind
      <3>5. i \in Got(r) \/ i \in data
        BY <1>9
      <3> QED
        BY <3>2, <3>3, <3>4, <3>5
    <2> QED
      BY <1>1, <1>12, <1>13, <1>14, <1>15, <1>17, <1>22, <2>1, <2>2, OneCall
  <1> QED
    BY <1>18, <1>20, <1>21, <1>22

LEMMA CheckBeforeInv == ASSUME ReadInv, NEW r \in Reads, CheckBefore(r) PROVE ReadInv'
  <1>1. UNCHANGED server /\ At(r, "before")
    BY DEF CheckBefore
  <1>2. CASE Refuses(r) \/ Loses(r)
    BY <1>1, <1>2, RefusedCall
  <1>3. CASE Goes(r, "page") /\ UNCHANGED lost
    <2> DEFINE s == [read[r] EXCEPT !.pc = "page"]
    <2>1. read[r] \in ReadStates
      BY DEF ReadInv, ReadTypeOK
    <2>2. /\ s \in ReadStates /\ s.pc = "page" /\ s.got = read[r].got
          /\ s.length = read[r].length /\ s.ahead = read[r].ahead
      BY <2>1 DEF ReadStates, Steps
    <2>3. read' = [read EXCEPT ![r] = s] /\ lost' \in BOOLEAN
      BY <1>3 DEF Goes, ReadInv, ReadTypeOK
    <2>4. {i \in Ids : s.got[i] > 0} = Got(r)
      BY <2>2 DEF Got
    <2> HIDE DEF s
    <2>5. Cardinality(Got(r)) = s.length /\ Got(r) \subseteq Existing
      BY <1>1, <2>2 DEF ReadInv, RowsReadOnce, GotExists, At
    <2>6. \A i \in Got(r), j \in s.ahead : i < j
      BY <1>1, <2>2 DEF ReadInv, GotIsBehind
    <2> QED
      BY <1>1, <2>2, <2>3, <2>4, <2>5, <2>6, OneCall
  <1> QED
    BY <1>2, <1>3 DEF CheckBefore

LEMMA CountInv == ASSUME ReadInv, NEW r \in Reads, Count(r) PROVE ReadInv'
  <1>1. UNCHANGED server /\ At(r, "count")
    BY DEF Count
  <1>2. CASE Refuses(r) \/ Loses(r)
    BY <1>1, <1>2, RefusedCall
  <1>3. CASE TraversesAgain(r)
    BY <1>1, <1>3, AgainInv
  <1>4. ASSUME NEW pc \in {"member", "after"}, Goes(r, pc), UNCHANGED lost
        PROVE  ReadInv'
    BY <1>1, <1>4, OnlyGoesOn DEF At
  <1> QED
    BY <1>2, <1>3, <1>4 DEF Count, Fails

LEMMA AskMemberInv == ASSUME ReadInv, NEW r \in Reads, AskMember(r) PROVE ReadInv'
  <1>1. UNCHANGED server /\ At(r, "member")
    BY DEF AskMember
  <1>2. CASE Refuses(r) \/ Loses(r)
    BY <1>1, <1>2, RefusedCall
  <1>3. CASE TraversesAgain(r)
    BY <1>1, <1>3, AgainInv
  <1>4. CASE Goes(r, "after") /\ UNCHANGED lost
    BY <1>1, <1>4, OnlyGoesOn DEF At
  <1> QED
    BY <1>2, <1>3, <1>4 DEF AskMember, Fails

LEMMA CheckAfterInv == ASSUME ReadInv, NEW r \in Reads, CheckAfter(r) PROVE ReadInv'
  <1>1. UNCHANGED server /\ At(r, "after")
    BY DEF CheckAfter
  <1>2. CASE Refuses(r) \/ Loses(r)
    BY <1>1, <1>2, RefusedCall
  <1>3. CASE /\ read' = [read EXCEPT ![r].pc = "done", ![r].outcome = "ANSWERED"]
             /\ UNCHANGED lost
    BY <1>1, <1>3, CallGoesOn DEF At, Steps
  <1> QED
    BY <1>2, <1>3 DEF CheckAfter

\* Rows only gain versions; nothing else that changes around the calls is read
\* by the invariant.
LEMMA AroundInv == ASSUME ReadInv, Around PROVE ReadInv'
  <1>1. UNCHANGED read
    BY DEF Around, Write, ChangeSession, ChangeMembers, Drop
  <1>2. row' \in [Ids -> Nat] /\ \A i \in Ids : row'[i] >= row[i]
    BY DEF Around, Write, ChangeSession, ChangeMembers, Drop, ReadInv, ReadTypeOK
  <1>3. session' \in People \cup {Nobody} /\ members' \subseteq People /\ lost' \in BOOLEAN
    BY DEF Around, Write, ChangeSession, ChangeMembers, Drop, ReadInv, ReadTypeOK
  <1>4. row \in [Ids -> Nat]
    BY DEF ReadInv, ReadTypeOK
  <1>5. Existing \subseteq Existing'
    BY <1>2, <1>4 DEF Existing
  <1>6. \A r \in Reads : Got(r)' = Got(r)
    BY <1>1 DEF Got
  <1>7. ReadTypeOK'
    BY <1>1, <1>2, <1>3 DEF ReadInv, ReadTypeOK
  <1>8. RowsReadOnce' /\ GotIsBehind'
    BY <1>1, <1>6 DEF ReadInv, RowsReadOnce, GotIsBehind, At
  <1>9. GotExists'
    BY <1>5, <1>6 DEF ReadInv, GotExists
  <1> QED
    BY <1>7, <1>8, <1>9 DEF ReadInv

LEMMA NextInv == ReadInv /\ [ReadNext]_readVars => ReadInv'
  <1> SUFFICES ASSUME ReadInv, [ReadNext]_readVars PROVE ReadInv'
    OBVIOUS
  <1>1. CASE Around
    BY <1>1, AroundInv
  <1>2. ASSUME NEW r \in Reads, ReadStep(r) PROVE ReadInv'
    BY <1>2, CheckBeforeInv, PageInv, CountInv, AskMemberInv, CheckAfterInv DEF ReadStep
  <1>3. ASSUME NEW r \in Reads, Begin(r) PROVE ReadInv'
    BY <1>3, BeginInv
  <1>4. CASE UNCHANGED readVars
    BY <1>4 DEF readVars, ReadInv, ReadTypeOK, RowsReadOnce, GotIsBehind, GotExists,
                Existing, Got, At
  <1> QED
    BY <1>1, <1>2, <1>3, <1>4 DEF ReadNext

\* The inductive invariant holds throughout.
THEOREM InvariantHolds == ReadSpec => []ReadInv
  BY InitInv, NextInv, PTL DEF ReadSpec

\* Every call is in a state of its type, within its limits.
THEOREM ReadsAreTyped == ReadSpec => []ReadTypeOK
  BY InvariantHolds, PTL DEF ReadInv

\* No row is counted twice in one traversal, whatever is written between its
\* pages: the keyset cursor of traverse (gateway.ts) never goes back.
THEOREM NoRowTwice == ReadSpec => []RowsReadOnce
  BY InvariantHolds, PTL DEF ReadInv

-----------------------------------------------------------------------------
(* ReadSpec implements CompleteReads.                                      *)

Answers == [q \in Reads |-> Answer(q)]
Ended == {q \in Reads : read[q].pc \in {"idle", "done"}}

\* A step of one call leaves the answers of the others, and what can be seen.
LEMMA OthersAsTheyWere ==
    ASSUME ReadInv, NEW r \in Reads, NEW s, read' = [read EXCEPT ![r] = s], UNCHANGED server
    PROVE  /\ read'[r] = s
           /\ Answers' = [Answers EXCEPT ![r] = Answer(r)']
           /\ Ended' = IF s.pc \in {"idle", "done"} THEN Ended \cup {r} ELSE Ended \ {r}
           /\ UNCHANGED Visible
  <1>1. read'[r] = s /\ \A q \in Reads \ {r} : read'[q] = read[q]
    BY DEF ReadInv, ReadTypeOK
  <1>2. \A q \in Reads \ {r} : Answer(q)' = Answer(q)
    BY <1>1 DEF Answer, Settled, At, Got
  <1>3. Answers' = [Answers EXCEPT ![r] = Answer(r)']
    BY <1>2 DEF Answers
  <1>4. Ended' = IF s.pc \in {"idle", "done"} THEN Ended \cup {r} ELSE Ended \ {r}
    BY <1>1 DEF Ended
  <1>5. UNCHANGED Visible
    BY DEF Visible, Existing, server
  <1> QED
    BY <1>1, <1>3, <1>4, <1>5

\* The abstract actions, over the mapped state.
AbstractChange == Visible' \in SUBSET Ids /\ Answers' = Answers /\ Ended' = Ended
AbstractRefuse(r) ==
    /\ r \notin Ended
    /\ Ended' = Ended \cup {r}
    /\ Answers' = [Answers EXCEPT ![r] = Complete!Nothing]
    /\ Visible' = Visible
AbstractTake(r) ==
    /\ r \notin Ended /\ ~Answers[r].taken
    /\ Answers' = [Answers EXCEPT ![r] = [taken |-> TRUE, ids |-> Visible]]
    /\ Visible' = Visible /\ Ended' = Ended

LEMMA RefuseImplements ==
    ASSUME ReadInv, NEW r \in Reads, UNCHANGED server, r \notin Ended, Refuses(r) \/ Loses(r)
    PROVE  AbstractRefuse(r)
  <1> DEFINE s == Fresh("done", "REFUSED")
  <1>1. read' = [read EXCEPT ![r] = s]
    BY DEF Refuses, Loses, Ends
  <1>2. s.pc = "done" /\ s.outcome = "REFUSED"
    BY DEF Fresh
  <1> HIDE DEF s
  <1>3. Answer(r)' = Complete!Nothing
    BY <1>1, <1>2, OthersAsTheyWere DEF Answer, Settled, At, Complete!Nothing
  <1>4. /\ Answers' = [Answers EXCEPT ![r] = Answer(r)']
        /\ Ended' = IF s.pc \in {"idle", "done"} THEN Ended \cup {r} ELSE Ended \ {r}
        /\ UNCHANGED Visible
    BY <1>1, OthersAsTheyWere
  <1> QED
    BY <1>2, <1>3, <1>4 DEF AbstractRefuse

\* A step after which a call has settled on what it had settled on, and is
\* still under way, is none of the abstract specification.
LEMMA StutterImplements ==
    ASSUME ReadInv, NEW r \in Reads, NEW s, read' = [read EXCEPT ![r] = s],
           UNCHANGED server, r \notin Ended, s.pc \notin {"idle", "done"}, Answer(r)' = Answer(r)
    PROVE  Answers' = Answers /\ Ended' = Ended /\ Visible' = Visible
  <1>1. /\ Answers' = [Answers EXCEPT ![r] = Answer(r)']
        /\ Ended' = IF s.pc \in {"idle", "done"} THEN Ended \cup {r} ELSE Ended \ {r}
        /\ UNCHANGED Visible
    BY OthersAsTheyWere
  <1>2. Answers' = Answers
    BY <1>1 DEF Answers
  <1>3. Ended' = Ended
    BY <1>1 DEF Ended
  <1> QED
    BY <1>1, <1>2, <1>3

LEMMA AgainImplements ==
    ASSUME ReadInv, NEW r \in Reads, UNCHANGED server, r \notin Ended,
           Answer(r) = Complete!Nothing,
           TraversesAgain(r), read[r].traversal < MaxTraversals
    PROVE  Answers' = Answers /\ Ended' = Ended /\ Visible' = Visible
  <1> DEFINE s == [Fresh("page", "NONE") EXCEPT !.traversal = NextTraversal(read[r].traversal)]
  <1>1. read' = [read EXCEPT ![r] = s]
    BY DEF TraversesAgain
  <1>2. s.pc = "page"
    BY DEF Fresh
  <1> HIDE DEF s
  <1>3. Answer(r)' = Complete!Nothing
    BY <1>1, <1>2, OthersAsTheyWere DEF Answer, Settled, At, Complete!Nothing
  <1> QED
    BY <1>1, <1>2, <1>3, StutterImplements

\* The argument of readAll: what was read exists still; if a count of what can
\* be seen is its size, it is what can be seen.
LEMMA CountedIsVisible ==
    ASSUME ReadInv, NEW r \in Reads, At(r, "count"),
           read[r].length = Cardinality(Visible)
    PROVE  Got(r) = Visible
  <1>1. Cardinality(Got(r)) = Cardinality(Visible)
    BY DEF ReadInv, RowsReadOnce, At
  <1>2. Got(r) \subseteq Existing /\ Existing \subseteq Ids
    BY DEF ReadInv, GotExists, Existing
  <1>3. CASE session \in members
    BY <1>1, <1>2, <1>3, SameSize DEF Visible
  <1>4. CASE session \notin members
    <2>1. Visible = {} /\ Cardinality(Visible) = 0
      BY <1>4, FS_EmptySet DEF Visible
    <2>2. IsFiniteSet(Got(r))
      BY <1>2, IdsFinite
    <2> QED
      BY <1>1, <2>1, <2>2, FS_EmptySet
  <1> QED
    BY <1>3, <1>4

LEMMA BeginImplements ==
    ASSUME ReadInv, NEW r \in Reads, Begin(r)
    PROVE  /\ r \in Ended /\ Ended' = Ended \ {r}
           /\ Answers' = [Answers EXCEPT ![r] = Complete!Nothing]
           /\ Visible' = Visible
  <1> DEFINE s == Fresh("before", "NONE")
  <1>1. read' = [read EXCEPT ![r] = s] /\ UNCHANGED server /\ r \in Ended
    BY DEF Begin, server, Ended
  <1>2. s.pc = "before"
    BY DEF Fresh
  <1> HIDE DEF s
  <1>3. Answer(r)' = Complete!Nothing
    BY <1>1, <1>2, OthersAsTheyWere DEF Answer, Settled, At, Complete!Nothing
  <1> QED
    BY <1>1, <1>2, <1>3, OthersAsTheyWere

\* The count that agrees with the pages settles the answer.
LEMMA CountImplements ==
    ASSUME ReadInv, NEW r \in Reads, Count(r)
    PROVE  \/ AbstractRefuse(r) \/ AbstractTake(r)
           \/ Answers' = Answers /\ Ended' = Ended /\ Visible' = Visible
  <1>1. UNCHANGED server /\ At(r, "count") /\ r \notin Ended
    BY DEF Count, Ended, At
  <1>2. read[r] \in ReadStates /\ Answer(r) = Complete!Nothing /\ Answers[r] = Answer(r)
    BY <1>1 DEF ReadInv, ReadTypeOK, Answer, Answers, Settled, At, Complete!Nothing
  <1>3. CASE Refuses(r) \/ Loses(r)
    BY <1>1, <1>3, RefuseImplements
  <1>4. CASE TraversesAgain(r) /\ read[r].traversal < MaxTraversals
    BY <1>1, <1>2, <1>4, AgainImplements
  <1>5. CASE TraversesAgain(r) /\ ~(read[r].traversal < MaxTraversals)
    BY <1>3, <1>5 DEF TraversesAgain
  <1>6. CASE Cardinality(Visible) = read[r].length
             /\ Goes(r, IF read[r].length = 0 THEN "member" ELSE "after")
    <2> DEFINE pc == IF read[r].length = 0 THEN "member" ELSE "after"
               s == [read[r] EXCEPT !.pc = pc]
    <2>1. s.pc = pc /\ s.got = read[r].got /\ s.length = read[r].length
      BY <1>2 DEF ReadStates
    <2>2. read' = [read EXCEPT ![r] = s]
      BY <1>6 DEF Goes, ReadInv, ReadTypeOK
    <2>3. pc \notin {"idle", "done"} /\ (pc = "after" \/ (pc = "member" /\ read[r].length = 0))
      OBVIOUS
    <2> HIDE DEF s, pc
    <2>4. /\ read'[r] = s /\ Visible' = Visible
          /\ Answers' = [Answers EXCEPT ![r] = Answer(r)']
          /\ Ended' = Ended
      BY <1>1, <2>1, <2>2, <2>3, OthersAsTheyWere DEF Ended
    <2>5. Got(r)' = Got(r) /\ Got(r) = Visible
      BY <1>1, <1>6, <2>1, <2>4, CountedIsVisible DEF Got
    <2>6. Answer(r)' = [taken |-> TRUE, ids |-> Visible]
      BY <2>1, <2>3, <2>4, <2>5 DEF Answer, Settled, At
    <2> QED
      BY <1>1, <1>2, <2>4, <2>6 DEF AbstractTake, Complete!Nothing
  <1>7. CASE Cardinality(Visible) < read[r].length /\ Goes(r, "member")
    <2> DEFINE s == [read[r] EXCEPT !.pc = "member"]
    <2>1. s.pc = "member" /\ s.length = read[r].length /\ read[r].length \in Nat
      BY <1>2 DEF ReadStates
    <2>2. read' = [read EXCEPT ![r] = s]
      BY <1>7 DEF Goes, ReadInv, ReadTypeOK
    <2> HIDE DEF s
    <2>3. read'[r] = s
      BY <1>1, <2>2, OthersAsTheyWere
    <2>4. Cardinality(Visible) \in Nat
      BY IdsFinite DEF Visible, Existing
    <2>5. s.length # 0
      BY <1>7, <2>1, <2>4
    <2>6. Answer(r)' = Complete!Nothing
      BY <2>1, <2>3, <2>5 DEF Answer, Settled, At, Complete!Nothing
    <2> QED
      BY <1>1, <1>2, <2>1, <2>2, <2>6, StutterImplements
  <1> QED
    BY <1>3, <1>4, <1>5, <1>6, <1>7 DEF Count, Fails, Reconciled

LEMMA AskMemberImplements ==
    ASSUME ReadInv, NEW r \in Reads, AskMember(r)
    PROVE  \/ AbstractRefuse(r)
           \/ Answers' = Answers /\ Ended' = Ended /\ Visible' = Visible
  <1>1. UNCHANGED server /\ At(r, "member") /\ r \notin Ended
    BY DEF AskMember, Ended, At
  <1>2. read[r] \in ReadStates
    BY DEF ReadInv, ReadTypeOK
  <1>3. CASE Refuses(r) \/ Loses(r)
    BY <1>1, <1>3, RefuseImplements
  <1>4. CASE read[r].length > 0 /\ TraversesAgain(r) /\ read[r].traversal < MaxTraversals
    <2>1. read[r].length # 0 /\ read[r].pc = "member"
      BY <1>1, <1>2, <1>4 DEF ReadStates, At
    <2>2. Answer(r) = Complete!Nothing
      BY <2>1 DEF Answer, Settled, At, Complete!Nothing
    <2> QED
      BY <1>1, <1>4, <2>2, AgainImplements
  <1>5. CASE TraversesAgain(r) /\ ~(read[r].traversal < MaxTraversals)
    BY <1>3, <1>5 DEF TraversesAgain
  <1>6. CASE read[r].length = 0 /\ Goes(r, "after")
    <2> DEFINE s == [read[r] EXCEPT !.pc = "after"]
    <2>1. s.pc = "after" /\ s.got = read[r].got
      BY <1>2 DEF ReadStates
    <2>2. read' = [read EXCEPT ![r] = s]
      BY <1>6 DEF Goes, ReadInv, ReadTypeOK
    <2> HIDE DEF s
    <2>3. read'[r] = s
      BY <1>1, <2>2, OthersAsTheyWere
    <2>4. Answer(r)' = Answer(r)
      BY <1>1, <1>6, <2>1, <2>3 DEF Answer, Settled, At, Got
    <2> QED
      BY <1>1, <2>1, <2>2, <2>4, StutterImplements
  <1> QED
    BY <1>3, <1>4, <1>5, <1>6 DEF AskMember, Fails

LEMMA CheckBeforeImplements ==
    ASSUME ReadInv, NEW r \in Reads, CheckBefore(r)
    PROVE  \/ AbstractRefuse(r)
           \/ Answers' = Answers /\ Ended' = Ended /\ Visible' = Visible
  <1>1. UNCHANGED server /\ At(r, "before") /\ r \notin Ended
    BY DEF CheckBefore, Ended, At
  <1>2. CASE Refuses(r) \/ Loses(r)
    BY <1>1, <1>2, RefuseImplements
  <1>3. CASE Goes(r, "page")
    <2> DEFINE s == [read[r] EXCEPT !.pc = "page"]
    <2>1. s.pc = "page"
      BY DEF ReadInv, ReadTypeOK, ReadStates
    <2>2. read' = [read EXCEPT ![r] = s]
      BY <1>3 DEF Goes, ReadInv, ReadTypeOK
    <2> HIDE DEF s
    <2>3. Answer(r)' = Answer(r)
      BY <1>1, <2>1, <2>2, OthersAsTheyWere DEF Answer, Settled, At
    <2> QED
      BY <1>1, <2>1, <2>2, <2>3, StutterImplements
  <1> QED
    BY <1>2, <1>3 DEF CheckBefore

\* A page settles nothing.
LEMMA PageImplements ==
    ASSUME ReadInv, NEW r \in Reads, ReadPage(r)
    PROVE  \/ AbstractRefuse(r)
           \/ Answers' = Answers /\ Ended' = Ended /\ Visible' = Visible
  <1>1. UNCHANGED server /\ At(r, "page") /\ r \notin Ended
    BY DEF ReadPage, Ended, At
  <1>2. read[r] \in ReadStates
    BY DEF ReadInv, ReadTypeOK
  <1>3. CASE Refuses(r) \/ Loses(r)
    BY <1>1, <1>3, RefuseImplements
  <1>4. ASSUME NEW s, s.pc \in {"page", "count"}, read' = [read EXCEPT ![r] = s]
        PROVE  Answers' = Answers /\ Ended' = Ended /\ Visible' = Visible
    <2>1. Answer(r)' = Answer(r)
      BY <1>1, <1>4, OthersAsTheyWere DEF Answer, Settled, At
    <2> QED
      BY <1>1, <1>4, <2>1, StutterImplements
  <1>5. \/ Refuses(r) \/ Loses(r)
        \/ \E s : s.pc \in {"page", "count"} /\ read' = [read EXCEPT ![r] = s]
    <2> DEFINE waiting == Visible \cap read[r].ahead
               data == First(Limit, waiting)
               next == [read[r] EXCEPT
                          !.got = [i \in Ids |-> IF i \in data THEN row[i] ELSE @[i]],
                          !.length = @ + Cardinality(data),
                          !.page = @ + 1,
                          !.ahead = Behind(r, data)]
               onward == [next EXCEPT !.pc = "count"]
    <2>1. next.pc = "page" /\ onward.pc = "count"
      BY <1>1, <1>2 DEF ReadStates, At
    <2>2. \/ Refuses(r) \/ Loses(r)
          \/ read' = [read EXCEPT ![r] = onward]
          \/ read' = [read EXCEPT ![r] = next]
      BY DEF ReadPage, Fails
    <2> HIDE DEF waiting, data, next, onward
    <2> QED
      BY <2>1, <2>2
  <1> QED
    BY <1>3, <1>4, <1>5

LEMMA CheckAfterImplements ==
    ASSUME ReadInv, NEW r \in Reads, CheckAfter(r)
    PROVE  \/ AbstractRefuse(r)
           \/ /\ r \notin Ended /\ Answers[r].taken
              /\ Answers' = Answers /\ Ended' = Ended \cup {r} /\ Visible' = Visible
  <1>1. UNCHANGED server /\ At(r, "after") /\ r \notin Ended
    BY DEF CheckAfter, Ended, At
  <1>2. CASE Refuses(r) \/ Loses(r)
    BY <1>1, <1>2, RefuseImplements
  <1>3. CASE read' = [read EXCEPT ![r].pc = "done", ![r].outcome = "ANSWERED"]
    <2> DEFINE s == [read[r] EXCEPT !.pc = "done", !.outcome = "ANSWERED"]
    <2>1. s.pc = "done" /\ s.outcome = "ANSWERED" /\ s.got = read[r].got
      BY DEF ReadInv, ReadTypeOK, ReadStates
    <2>2. read' = [read EXCEPT ![r] = s]
      BY <1>3 DEF ReadInv, ReadTypeOK, ReadStates
    <2> HIDE DEF s
    <2>3. /\ read'[r] = s /\ Visible' = Visible
          /\ Answers' = [Answers EXCEPT ![r] = Answer(r)']
          /\ Ended' = Ended \cup {r}
      BY <1>1, <2>1, <2>2, OthersAsTheyWere
    <2>4. Answer(r)' = Answer(r)
      BY <1>1, <2>1, <2>3 DEF Answer, Settled, At, Got
    <2>5. Answers[r].taken /\ Answers[r] = Answer(r)
      BY <1>1 DEF Answers, Answer, Settled, At
    <2>6. Answers' = Answers
      BY <2>3, <2>4, <2>5 DEF Answers
    <2> QED
      BY <1>1, <2>3, <2>5, <2>6
  <1> QED
    BY <1>2, <1>3 DEF CheckAfter

LEMMA AroundImplements == ASSUME Around PROVE AbstractChange
  <1>1. UNCHANGED read
    BY DEF Around, Write, ChangeSession, ChangeMembers, Drop
  <1>2. Answers' = Answers /\ Ended' = Ended
    BY <1>1 DEF Answers, Answer, Settled, At, Got, Ended
  <1>3. Visible' \in SUBSET Ids
    BY DEF Visible, Existing
  <1> QED
    BY <1>2, <1>3 DEF AbstractChange

LEMMA InitImplements == ReadInit => Complete!Init
  <1> SUFFICES ASSUME ReadInit PROVE Complete!Init
    OBVIOUS
  <1>1. \A r \in Reads : Answer(r) = Complete!Nothing
    BY DEF ReadInit, Fresh, Answer, Settled, At, Complete!Nothing
  <1>2. Visible \in SUBSET Ids
    BY DEF Visible, Existing
  <1> QED
    BY <1>1, <1>2 DEF Complete!Init

LEMMA NextImplements == ReadInv /\ [ReadNext]_readVars => [Complete!Next]_(Complete!vars)
  <1> SUFFICES ASSUME ReadInv, [ReadNext]_readVars PROVE [Complete!Next]_(Complete!vars)
    OBVIOUS
  <1>1. CASE UNCHANGED readVars
    BY <1>1 DEF readVars, Visible, Existing, Answer, Settled, At, Got, Complete!vars
  <1>2. CASE Around
    BY <1>2, AroundImplements DEF AbstractChange, Answers, Ended, Complete!Next, Complete!Change
  <1>3. ASSUME NEW r \in Reads, Begin(r) PROVE Complete!Begin(r)
    BY <1>3, BeginImplements DEF Answers, Ended, Complete!Begin
  <1>4. ASSUME NEW r \in Reads, AbstractRefuse(r) PROVE Complete!Refuse(r)
    BY <1>4 DEF AbstractRefuse, Answers, Ended, Complete!Refuse
  <1>5. ASSUME NEW r \in Reads, AbstractTake(r) PROVE Complete!Take(r)
    BY <1>5 DEF AbstractTake, Answers, Ended, Complete!Take
  <1>6. ASSUME Answers' = Answers /\ Ended' = Ended /\ Visible' = Visible
        PROVE  UNCHANGED Complete!vars
    BY <1>6 DEF Answers, Ended, Complete!vars
  <1>7. ASSUME NEW r \in Reads, r \notin Ended, Answers[r].taken,
               Answers' = Answers, Ended' = Ended \cup {r}, Visible' = Visible
        PROVE  Complete!Give(r)
    BY <1>7 DEF Answers, Ended, Complete!Give
  <1>8. ASSUME NEW r \in Reads, ReadStep(r) PROVE [Complete!Next]_(Complete!vars)
    <2>1. \/ AbstractRefuse(r) \/ AbstractTake(r)
          \/ Answers' = Answers /\ Ended' = Ended /\ Visible' = Visible
          \/ /\ r \notin Ended /\ Answers[r].taken
             /\ Answers' = Answers /\ Ended' = Ended \cup {r} /\ Visible' = Visible
      BY <1>8, CheckBeforeImplements, PageImplements, CountImplements,
         AskMemberImplements, CheckAfterImplements DEF ReadStep
    <2> QED
      BY <2>1, <1>4, <1>5, <1>6, <1>7 DEF Complete!Next
  <1> QED
    BY <1>1, <1>2, <1>3, <1>8 DEF ReadNext, Complete!Next

\* An answer is the whole list as it could be seen at one instant of the call,
\* whatever is written, whoever signs in and whoever is a member meanwhile.
THEOREM AnswersAreComplete == ReadSpec => ReadsAreComplete
  BY InitImplements, NextImplements, InvariantHolds, PTL DEF ReadSpec, ReadsAreComplete, Complete!Spec

-----------------------------------------------------------------------------
(* The screen.                                                             *)


\* A draft belongs to the version that is sent with it.
DraftsOfTheirVersion ==
    /\ form.record.draft = form.record.version
    /\ pending.draft = pending.version
    /\ \A c \in Callers : call[c].record.draft = call[c].record.version

\* What is edited, asked about, updated or reloaded is a row.
RowsAreNamed ==
    /\ form.mode = "EDIT" => form.record.id \in Ids
    /\ pending # NoRecord => pending.id \in Ids
    /\ \A c \in Callers : call[c].op \in {"update", "reload"} => call[c].record.id \in Ids

\* Only an edit updates or reloads through the form.
FormsMatchTheirCall ==
    ~CallAt("form", "idle") /\ call["form"].op \in {"update", "reload"} => form.mode = "EDIT"

\* What the form, the dialog and their calls need to be inductive.
CallInv ==
    /\ form \in Forms
    /\ pending \in Records
    /\ call \in [Callers -> Calls]
    /\ form.stale => form.mode = "EDIT"
    /\ ~CallAt("form", "idle") => form.mode # "NONE"
    /\ DraftsOfTheirVersion
    /\ RowsAreNamed
    /\ FormsMatchTheirCall

-----------------------------------------------------------------------------
(* ScreenSpec implements ReadSpec.                                         *)

\* What a call does to the server and the runtime is a write, a loss of the
\* runtime, a new read, or nothing.
LEMMA CallStepReads ==
    ASSUME NEW c \in Callers, CallStep(c)
    PROVE  [ReadNext]_readVars
  <1>1. CASE CallCheckBefore(c) \/ RequestRefused(c) \/ CallCheckAfter(c)
    <2>1. UNCHANGED <<row, session, members, read>> /\ (lost' = TRUE \/ UNCHANGED lost)
      BY <1>1 DEF CallCheckBefore, RequestRefused, CallCheckAfter, CallRefused, CallLoses
    <2> QED
      BY <2>1 DEF ReadNext, Around, Drop, readVars
  <1>2. ASSUME NEW i \in Ids, Create(c, i) \/ Update(c, i) PROVE Write(i)
    <2>1. row[i] < MaxVersion /\ row' = [row EXCEPT ![i] = row[i] + 1]
      BY <1>2 DEF Create, Update
    <2>2. UNCHANGED <<session, members, read, lost>>
      BY <1>2 DEF Create, Update, Arrives, Answered, CallRefused
    <2> QED
      BY <2>1, <2>2 DEF Write
  <1>3. ASSUME NEW r \in Reads, Saved(c, r) PROVE Begin(r) \/ UNCHANGED readVars
    BY <1>3 DEF Saved
  <1>4. CASE StaleWrite(c) \/ ReadRecord(c)
    BY <1>4 DEF StaleWrite, ReadRecord, Answered, readVars
  <1> QED
    BY <1>1, <1>2, <1>3, <1>4 DEF CallStep, ReadNext, Around

LEMMA PersonReads == Person \/ Reloaded => UNCHANGED surroundings
  BY DEF Person, New, Cancel, Submit, ReloadRecord, Dismiss, Confirm, Edit, Ask, Reloaded

\* The screen, its dialogs and its saves make no step that the reads of
\* CatalogRead do not allow around them.
THEOREM ScreenReads == ScreenSpec => ReadSpec
  <1>1. ScreenInit => ReadInit
    BY DEF ScreenInit
  <1>2. [ScreenNext]_screenVars => [ReadNext]_readVars
    <2> SUFFICES ASSUME [ScreenNext]_screenVars PROVE [ReadNext]_readVars
      OBVIOUS
    <2>1. CASE UNCHANGED screenVars
      BY <2>1 DEF screenVars, readVars
    <2>2. CASE Around
      BY <2>2 DEF ReadNext
    <2>3. ASSUME NEW r \in Reads, ReloadStep(r) \/ Reload(r) PROVE ReadNext
      BY <2>3 DEF ReloadStep, Reload, ReadNext
    <2>4. CASE Person \/ Reloaded
      BY <2>4, PersonReads DEF surroundings, readVars
    <2>5. CASE \E c \in Callers : CallStep(c)
      BY <2>5, CallStepReads
    <2> QED
      BY <2>1, <2>2, <2>3, <2>4, <2>5 DEF ScreenNext
  <1> QED
    BY <1>1, <1>2, PTL DEF ScreenSpec, ReadSpec

\* Every list the screen reads is whole.
THEOREM ScreenListsAreWhole == ScreenSpec => ReadsAreComplete
  BY ScreenReads, AnswersAreComplete

-----------------------------------------------------------------------------
(* The form, the dialog and their calls.                                   *)

LEMMA NewRecord ==
    ASSUME NEW i \in Ids \cup {NoRow}, NEW version \in Nat
    PROVE  /\ Record(i, version) \in Records
           /\ Record(i, version).id = i
           /\ Record(i, version).draft = Record(i, version).version
  BY DEF Record, Records

LEMMA EmptyRecord == NoRecord \in Records /\ NoRecord.draft = NoRecord.version
  BY NewRecord DEF NoRecord

LEMMA NewForm ==
    ASSUME NEW mode \in {"NONE", "CREATE", "EDIT"}, NEW held \in Records
    PROVE  /\ Form(mode, held) \in Forms
           /\ Form(mode, held).mode = mode
           /\ Form(mode, held).record = held
           /\ Form(mode, held).stale = FALSE
  BY DEF Form, Forms

LEMMA NewCall ==
    ASSUME NEW pc \in {"idle", "before"}, NEW op \in {"none", "create", "update", "reload"},
           NEW held \in Records
    PROVE  /\ Call(pc, op, held) \in Calls
           /\ Call(pc, op, held).op = op
           /\ Call(pc, op, held).pc = pc
           /\ Call(pc, op, held).record = held
  BY DEF Call, Calls

LEMMA EmptyCall ==
    NoCall \in Calls /\ NoCall.op = "none" /\ NoCall.pc = "idle"
    /\ NoCall.record.draft = NoCall.record.version
  BY NewCall, EmptyRecord DEF NoCall

LEMMA EmptyForm ==
    NoForm \in Forms /\ NoForm.mode = "NONE" /\ NoForm.stale = FALSE
    /\ NoForm.record.draft = NoForm.record.version
  BY NewForm, EmptyRecord DEF NoForm

\* A call that failed.
LEMMA FailedCall ==
    ASSUME CallInv, NEW c \in Callers, NEW stale \in BOOLEAN, CallFails(c, stale),
           (c = "form" /\ stale) => form.mode = "EDIT"
    PROVE  CallInv'
  <1>1. call' \in [Callers -> Calls] /\ call'[c] = NoCall
        /\ \A d \in Callers \ {c} : call'[d] = call[d]
    BY EmptyCall DEF CallFails, CallInv
  <1>2. form' \in Forms /\ form'.record = form.record /\ form'.mode = form.mode
        /\ (form'.stale => form'.mode = "EDIT")
    BY DEF CallFails, CallInv, Forms
  <1>3. pending' \in {pending, NoRecord} /\ pending' \in Records
        /\ pending'.draft = pending'.version
    BY EmptyRecord DEF CallFails, CallInv, DraftsOfTheirVersion
  <1>4. DraftsOfTheirVersion'
    BY <1>1, <1>2, <1>3, EmptyCall DEF CallInv, DraftsOfTheirVersion
  <1>5. RowsAreNamed'
    BY <1>1, <1>2, <1>3, EmptyCall DEF CallInv, RowsAreNamed
  <1>6. FormsMatchTheirCall' /\ (~CallAt("form", "idle") => form.mode # "NONE")'
    BY <1>1, <1>2, EmptyCall DEF CallInv, FormsMatchTheirCall, CallAt, Callers
  <1> QED
    BY <1>1, <1>2, <1>3, <1>4, <1>5, <1>6 DEF CallInv

\* A call that goes on, for the same record and the same operation.
LEMMA RunningCall ==
    ASSUME CallInv, NEW c \in Callers, NEW next \in Calls, ~CallAt(c, "idle"),
           call' = [call EXCEPT ![c] = next], UNCHANGED <<form, pending>>,
           next.op = call[c].op, next.record.draft = next.record.version,
           next.record.id \in Ids \cup {call[c].record.id}
    PROVE  CallInv'
  <1>0. form' = form /\ pending' = pending
    OBVIOUS
  <1>1. call' \in [Callers -> Calls] /\ call'[c] = next
        /\ \A d \in Callers \ {c} : call'[d] = call[d]
    BY DEF CallInv
  <1>2. DraftsOfTheirVersion'
    BY <1>0, <1>1 DEF CallInv, DraftsOfTheirVersion
  <1>3. RowsAreNamed'
    BY <1>0, <1>1 DEF CallInv, RowsAreNamed
  <1>4. FormsMatchTheirCall' /\ (~CallAt("form", "idle") => form.mode # "NONE")'
    BY <1>0, <1>1 DEF CallInv, FormsMatchTheirCall, CallAt, Callers
  <1> QED
    BY <1>0, <1>1, <1>2, <1>3, <1>4 DEF CallInv

\* A call that begins.
LEMMA CallBegins ==
    ASSUME CallInv, NEW c \in Callers, NEW op \in {"create", "update", "reload"},
           NEW held \in Records, held.draft = held.version,
           op # "create" => held.id \in Ids,
           call' = [call EXCEPT ![c] = Call("before", op, held)], UNCHANGED pending,
           form' = form \/ form' = [form EXCEPT !.stale = FALSE],
           c = "form" => form.mode # "NONE" /\ (op # "create" => form.mode = "EDIT")
    PROVE  CallInv'
  <1> DEFINE new == Call("before", op, held)
  <1>1. new \in Calls /\ new.op = op /\ new.pc = "before" /\ new.record = held
    BY NewCall
  <1>2. call' \in [Callers -> Calls] /\ call'[c] = new
        /\ \A d \in Callers \ {c} : call'[d] = call[d]
    BY <1>1 DEF CallInv
  <1>3. form' \in Forms /\ form'.record = form.record /\ form'.mode = form.mode
        /\ (form'.stale => form'.mode = "EDIT")
    BY DEF CallInv, Forms
  <1> HIDE DEF new
  <1>4. DraftsOfTheirVersion'
    BY <1>1, <1>2, <1>3 DEF CallInv, DraftsOfTheirVersion
  <1>5. RowsAreNamed'
    BY <1>1, <1>2, <1>3 DEF CallInv, RowsAreNamed
  <1>6. FormsMatchTheirCall' /\ (~CallAt("form", "idle") => form.mode # "NONE")'
    BY <1>1, <1>2, <1>3 DEF CallInv, FormsMatchTheirCall, CallAt, Callers
  <1> QED
    BY <1>2, <1>3, <1>4, <1>5, <1>6 DEF CallInv

\* A form or a dialog that opens or closes while no call of the form runs.
LEMMA FormChanges ==
    ASSUME CallInv, UNCHANGED call, form' \in Forms, pending' \in Records,
           form'.record.draft = form'.record.version, pending'.draft = pending'.version,
           form'.mode = "EDIT" => form'.record.id \in Ids,
           pending' # NoRecord => pending'.id \in Ids,
           form'.stale => form'.mode = "EDIT",
           form' = form \/ CallAt("form", "idle")
    PROVE  CallInv'
  BY DEF CallInv, DraftsOfTheirVersion, RowsAreNamed, FormsMatchTheirCall, CallAt

LEMMA PersonInv ==
    ASSUME CallInv, list \in Lists, Person
    PROVE  CallInv'
  <1> USE DEF CallAt
  <1>1. CASE New
    BY <1>1, NewForm, EmptyRecord, FormChanges DEF New, CallInv, DraftsOfTheirVersion, RowsAreNamed
  <1>2. CASE Cancel
    BY <1>2, EmptyForm, FormChanges DEF Cancel, MayCancel, CallInv, DraftsOfTheirVersion,
                                        RowsAreNamed
  <1>3. CASE Submit
    <2>1. form.record \in Records /\ form.mode \in {"CREATE", "EDIT"}
          /\ form.record.draft = form.record.version
          /\ (form.mode = "EDIT" => form.record.id \in Ids)
      BY <1>3 DEF Submit, CallInv, Forms, DraftsOfTheirVersion, RowsAreNamed
    <2>2. CASE UNCHANGED call
      BY <1>3, <2>1, <2>2 DEF Submit, CallInv, Forms, DraftsOfTheirVersion, RowsAreNamed,
                              FormsMatchTheirCall
    <2>3. CASE call' = [call EXCEPT !["form"] = Call("before",
                 IF form.mode = "CREATE" THEN "create" ELSE "update", form.record)]
      <3>1. CASE form.mode = "CREATE"
        BY <1>3, <2>1, <2>3, <3>1, CallBegins DEF Submit, Callers
      <3>2. CASE form.mode = "EDIT"
        BY <1>3, <2>1, <2>3, <3>2, CallBegins DEF Submit, Callers
      <3> QED
        BY <2>1, <3>1, <3>2
    <2> QED
      BY <1>3, <2>2, <2>3 DEF Submit
  <1>4. CASE ReloadRecord
    <2>1. form.mode = "EDIT" /\ form.record \in Records
          /\ form.record.draft = form.record.version /\ form.record.id \in Ids
      BY <1>4 DEF ReloadRecord, CallInv, Forms, DraftsOfTheirVersion, RowsAreNamed
    <2> QED
      BY <1>4, <2>1, CallBegins DEF ReloadRecord, Callers
  <1>5. CASE Dismiss
    BY <1>5, EmptyRecord, FormChanges DEF Dismiss, CallInv, DraftsOfTheirVersion, RowsAreNamed
  <1>6. CASE Confirm
    BY <1>6, CallBegins DEF Confirm, Callers, CallInv, DraftsOfTheirVersion, RowsAreNamed
  <1>7. ASSUME NEW i \in Ids, Edit(i) PROVE CallInv'
    <2> DEFINE held == Record(i, list.all[i])
    <2>1. held \in Records /\ held.id = i /\ held.draft = held.version
      BY NewRecord DEF Lists
    <2>2. form' = Form("EDIT", held)
      BY <1>7 DEF Edit
    <2> HIDE DEF held
    <2>3. form' \in Forms /\ form'.record = held /\ form'.stale = FALSE
      BY <2>1, <2>2, NewForm
    <2> QED
      BY <1>7, <2>1, <2>3, FormChanges DEF Edit, CallInv, DraftsOfTheirVersion, RowsAreNamed
  <1>8. ASSUME NEW i \in Ids, Ask(i) PROVE CallInv'
    <2>1. list.all[i] \in Nat
      BY DEF Lists
    <2> QED
      BY <1>8, <2>1, NewRecord, FormChanges DEF Ask, CallInv, DraftsOfTheirVersion, RowsAreNamed
  <1> QED
    BY <1>1, <1>2, <1>3, <1>4, <1>5, <1>6, <1>7, <1>8 DEF Person

LEMMA AnsweredCall ==
    ASSUME CallInv, NEW c \in Callers, NEW i \in Ids, row'[i] \in Nat, ~CallAt(c, "idle"),
           Answered(c, i)
    PROVE  CallInv'
  <1> DEFINE new == [call[c] EXCEPT !.pc = "after", !.record.id = i, !.answer = row'[i]]
  <1>1. call[c] \in Calls /\ call[c].record.draft = call[c].record.version
    BY DEF CallInv, DraftsOfTheirVersion
  <1>2. new \in Calls /\ new.op = call[c].op /\ new.record.id = i
        /\ new.record.draft = new.record.version
    BY <1>1 DEF Calls, Records
  <1>3. call' = [call EXCEPT ![c] = new]
    BY DEF Answered
  <1> HIDE DEF new
  <1> QED
    BY <1>2, <1>3, RunningCall DEF Answered

LEMMA CallStepInv ==
    ASSUME CallInv, ReadTypeOK, ReadTypeOK', NEW c \in Callers, CallStep(c)
    PROVE  CallInv'
  <1>1. ASSUME CallGoes(c, "request"), CallAt(c, "before") PROVE CallInv'
    <2> DEFINE new == [call[c] EXCEPT !.pc = "request"]
    <2>1. call[c] \in Calls /\ call[c].record.draft = call[c].record.version
      BY DEF CallInv, DraftsOfTheirVersion
    <2>2. new \in Calls /\ new.op = call[c].op /\ new.record = call[c].record
      BY <2>1 DEF Calls
    <2>3. call' = [call EXCEPT ![c] = new] /\ ~CallAt(c, "idle")
      BY <1>1 DEF CallGoes, CallAt
    <2> HIDE DEF new
    <2> QED
      BY <1>1, <2>1, <2>2, <2>3, RunningCall DEF CallGoes
  <1>2. CASE CallRefused(c) \/ CallLoses(c)
    BY <1>2, FailedCall DEF CallRefused, CallLoses
  <1>3. CASE CallCheckBefore(c) \/ RequestRefused(c) \/ CallCheckAfter(c)
    BY <1>1, <1>2, <1>3 DEF CallCheckBefore, RequestRefused, CallCheckAfter
  <1>4. CASE StaleWrite(c)
    <2>1. c = "form" => form.mode = "EDIT"
      BY <1>4 DEF StaleWrite, CallInv, FormsMatchTheirCall, CallAt
    <2> QED
      BY <1>4, <2>1, FailedCall DEF StaleWrite
  <1>5. ASSUME NEW i \in Ids, Create(c, i) \/ Update(c, i) PROVE CallInv'
    <2>1. row'[i] \in Nat /\ ~CallAt(c, "idle")
      BY <1>5 DEF Create, Update, CallAt, ReadTypeOK
    <2>2. Answered(c, i) \/ CallRefused(c)
      BY <1>5 DEF Create, Update, Arrives
    <2> QED
      BY <1>2, <2>1, <2>2, AnsweredCall
  <1>6. CASE ReadRecord(c)
    <2>1. call[c].record.id \in Ids /\ ~CallAt(c, "idle")
      BY <1>6 DEF ReadRecord, CallInv, RowsAreNamed, CallAt
    <2>2. row'[call[c].record.id] \in Nat
      BY <2>1 DEF ReadTypeOK
    <2> QED
      BY <1>6, <2>1, <2>2, AnsweredCall DEF ReadRecord
  <1>7. ASSUME NEW r \in Reads, Saved(c, r) PROVE CallInv'
    <2> DEFINE new == IF c = "dialog" /\ ~lost
                      THEN [NoCall EXCEPT !.pc = "list", !.list = r] ELSE NoCall
    <2>1. new \in Calls /\ new.op = "none" /\ new.record.draft = new.record.version
          /\ (c = "form" => new.pc = "idle")
      BY EmptyCall DEF Calls
    <2>2. call' = [call EXCEPT ![c] = new]
      BY <1>7 DEF Saved
    <2> HIDE DEF new
    <2>3. call' \in [Callers -> Calls] /\ call'[c] = new
          /\ \A d \in Callers \ {c} : call'[d] = call[d]
      BY <2>1, <2>2 DEF CallInv
    <2>4. form' = (IF c = "form" THEN NoForm ELSE form)
          /\ pending' = (IF c = "dialog" THEN NoRecord ELSE pending)
      BY <1>7 DEF Saved
    <2>5. DraftsOfTheirVersion'
      BY <2>1, <2>3, <2>4, EmptyForm, EmptyRecord DEF CallInv, DraftsOfTheirVersion
    <2>6. RowsAreNamed'
      BY <2>1, <2>3, <2>4, EmptyForm DEF CallInv, RowsAreNamed
    <2>7. FormsMatchTheirCall' /\ (~CallAt("form", "idle") => form.mode # "NONE")'
      BY <2>1, <2>3, <2>4 DEF CallInv, FormsMatchTheirCall, CallAt, Callers
    <2> QED
      BY <2>3, <2>4, <2>5, <2>6, <2>7, EmptyForm, EmptyRecord DEF CallInv
  <1> QED
    BY <1>3, <1>4, <1>5, <1>6, <1>7 DEF CallStep

LEMMA ReloadedInv ==
    ASSUME CallInv, Reloaded
    PROVE  CallInv'
  <1>1. form.record.id \in Ids /\ call["form"].answer \in Nat
    BY DEF Reloaded, CallInv, FormsMatchTheirCall, CallAt, RowsAreNamed, Callers, Calls
  <1>2. form' \in Forms /\ form'.mode = "EDIT" /\ form'.stale = FALSE
        /\ form'.record.id \in Ids /\ form'.record.draft = form'.record.version
    <2> DEFINE fresh == Record(form.record.id, call["form"].answer)
    <2>1. fresh \in Records /\ fresh.id = form.record.id /\ fresh.draft = fresh.version
      BY <1>1, NewRecord
    <2>2. form' = Form("EDIT", fresh)
      BY DEF Reloaded, FreshRecord
    <2> HIDE DEF fresh
    <2> QED
      BY <1>1, <2>1, <2>2, NewForm
  <1>3. call' \in [Callers -> Calls] /\ call'["form"] = NoCall
        /\ call'["dialog"] = call["dialog"] /\ pending' = pending
    BY EmptyCall DEF Reloaded, CallInv, Callers
  <1>4. DraftsOfTheirVersion' /\ RowsAreNamed'
    BY <1>2, <1>3, EmptyCall DEF CallInv, DraftsOfTheirVersion, RowsAreNamed, Callers
  <1>5. FormsMatchTheirCall' /\ (~CallAt("form", "idle") => form.mode # "NONE")'
    BY <1>2, <1>3, EmptyCall DEF FormsMatchTheirCall, CallAt
  <1> QED
    BY <1>2, <1>3, <1>4, <1>5 DEF CallInv

-----------------------------------------------------------------------------
(* The screen.                                                             *)

ScreenInv == ReadInv /\ ScreenTypeOK /\ CallInv

\* What a read that ends puts into the list.
LEMMA ListStep ==
    ASSUME ScreenInv, ReadTypeOK', NEW r \in Reads, ReloadStep(r)
    PROVE  list' \in Lists /\ CallInv'
  <1>1. list \in Lists /\ read'[r] \in ReadStates /\ CallInv
    BY DEF ScreenInv, ScreenTypeOK, ReadTypeOK
  <1>2. Presented(r) \in Lists
    BY <1>1 DEF Presented, Lists, ReadStates
  <1>3. ASSUME UNCHANGED call PROVE CallInv'
    BY <1>1, <1>3 DEF ReloadStep, CallInv, DraftsOfTheirVersion, RowsAreNamed,
                      FormsMatchTheirCall, CallAt
  <1>4. ASSUME call' = [call EXCEPT !["dialog"] = NoCall] PROVE CallInv'
    <2>1. call' \in [Callers -> Calls] /\ call'["dialog"] = NoCall
          /\ call'["form"] = call["form"] /\ UNCHANGED <<form, pending>>
      BY <1>1, <1>4, EmptyCall DEF ReloadStep, CallInv, Callers
    <2> QED
      BY <1>1, <2>1, EmptyCall DEF CallInv, DraftsOfTheirVersion, RowsAreNamed,
                                   FormsMatchTheirCall, CallAt, Callers
  <1> QED
    BY <1>1, <1>2, <1>3, <1>4 DEF ReloadStep

LEMMA ScreenStepInv == ScreenInv /\ [ScreenNext]_screenVars => ScreenInv'
  <1> SUFFICES ASSUME ScreenInv, [ScreenNext]_screenVars PROVE ScreenInv'
    OBVIOUS
  <1>1. [ReadNext]_readVars
    <2>1. CASE UNCHANGED screenVars
      BY <2>1 DEF screenVars, readVars
    <2>2. CASE Person \/ Reloaded
      BY <2>2, PersonReads DEF surroundings, readVars
    <2>3. CASE \E c \in Callers : CallStep(c)
      BY <2>3, CallStepReads
    <2> QED
      BY <2>1, <2>2, <2>3 DEF ScreenNext, ReadNext, ReloadStep, Reload
  <1>2. ReadInv' /\ ReadTypeOK'
    BY <1>1, NextInv DEF ScreenInv, ReadInv
  <1>3. list \in Lists /\ saved \in [Ids -> Nat] /\ CallInv /\ ReadTypeOK
    BY DEF ScreenInv, ScreenTypeOK
  <1>4. ASSUME list' \in Lists, saved' \in [Ids -> Nat], CallInv' PROVE ScreenInv'
    BY <1>2, <1>4 DEF ScreenInv, ScreenTypeOK, CallInv
  <1>5. CASE UNCHANGED <<list, form, pending, call, saved>>
    BY <1>3, <1>4, <1>5 DEF CallInv, DraftsOfTheirVersion, RowsAreNamed, FormsMatchTheirCall,
                            CallAt
  <1>6. ASSUME NEW r \in Reads, ReloadStep(r) PROVE ScreenInv'
    BY <1>2, <1>3, <1>4, <1>6, ListStep DEF ReloadStep
  <1>7. CASE Person
    BY <1>3, <1>4, <1>7, PersonInv, PersonReads DEF surroundings, Person, New, Cancel, Submit,
          ReloadRecord, Dismiss, Confirm, Edit, Ask
  <1>8. CASE Reloaded
    BY <1>3, <1>4, <1>8, ReloadedInv DEF Reloaded, surroundings
  <1>9. ASSUME NEW c \in Callers, CallStep(c) PROVE ScreenInv'
    <2>1. CallInv'
      BY SMTT(30), <1>2, <1>3, <1>9, CallStepInv
    <2>2. UNCHANGED list
      BY <1>9 DEF CallStep, CallCheckBefore, RequestRefused, StaleWrite, ReadRecord, Create,
                  Update, CallCheckAfter, Saved
    <2>3. saved' \in [Ids -> Nat]
      <3>1. ASSUME NEW r \in Reads, Saved(c, r) PROVE saved' \in [Ids -> Nat]
        <4>1. call[c].answer \in Nat
          BY <1>3 DEF CallInv, Calls
        <4> QED
          BY <1>3, <3>1, <4>1 DEF Saved
      <3> QED
        BY <1>3, <1>9, <3>1 DEF CallStep, CallCheckBefore, RequestRefused, StaleWrite,
                                ReadRecord, Create, Update, CallCheckAfter
    <2> QED
      BY <1>3, <1>4, <2>1, <2>2, <2>3
  <1> QED
    BY <1>5, <1>6, <1>7, <1>8, <1>9 DEF ScreenNext, Reload, screenVars

LEMMA ScreenInitInv == ScreenInit => ScreenInv
  <1> SUFFICES ASSUME ScreenInit PROVE ScreenInv
    OBVIOUS
  <1>1. ReadInv
    BY InitInv DEF ScreenInit
  <1>2. CallInv
    BY EmptyForm, EmptyRecord, EmptyCall DEF ScreenInit, CallInv, DraftsOfTheirVersion,
                                             RowsAreNamed, FormsMatchTheirCall, CallAt, Callers
  <1>3. list \in Lists /\ saved \in [Ids -> Nat]
    BY DEF ScreenInit, Lists, Unread
  <1> QED
    BY <1>1, <1>2, <1>3 DEF ScreenInv, ScreenTypeOK, ReadInv, CallInv

THEOREM ScreenInvariantHolds == ScreenSpec => []ScreenInv
  BY ScreenInitInv, ScreenStepInv, PTL DEF ScreenSpec

\* The state of the screen is of its type; only an edit is ever called stale,
\* and no call outlives its form.
THEOREM ScreenIsTyped == ScreenSpec => []ScreenTypeOK
  BY ScreenInvariantHolds, PTL DEF ScreenInv

\* A save never replaces a version other than the one its draft was filled
\* from: the version sent is the draft's, and the WHERE clause compares it.
THEOREM NothingOverwrittenUnread == ScreenSpec => OverwritesOnlyWhatWasRead
  <1> DEFINE Overwrite ==
        \A c \in Callers, i \in Ids :
          row[i] > 0 /\ row'[i] # row[i] /\ call'[c] # call[c] => call[c].record.draft = row[i]
  <1>1. ScreenInv /\ [ScreenNext]_screenVars => [Overwrite]_screenVars
    <2> SUFFICES ASSUME ScreenInv, ScreenNext, NEW c \in Callers, NEW i \in Ids, row[i] > 0,
                        row'[i] # row[i], call'[c] # call[c]
                 PROVE  call[c].record.draft = row[i]
      BY DEF screenVars
    <2>1. ~Person /\ ~Reloaded /\ ~UNCHANGED call
      BY PersonReads DEF surroundings
    <2>2. ASSUME NEW r \in Reads PROVE ~(ReloadStep(r) \/ Reload(r))
      BY <2>2 DEF ReloadStep, Reload, Begin, ReadStep, CheckBefore, ReadPage, Count, AskMember,
                  CheckAfter, server
    <2>3. PICK d \in Callers : CallStep(d)
      BY <2>1, <2>2 DEF ScreenNext
    <2>4. ASSUME NEW r \in Reads PROVE ~Saved(d, r)
      BY <2>4 DEF Saved, Begin, readVars
    <2>5. PICK j \in Ids : Create(d, j) \/ Update(d, j)
      BY <2>3, <2>4 DEF CallStep, CallCheckBefore, RequestRefused, StaleWrite, ReadRecord,
                        Answered, CallCheckAfter
    <2>6. j = i
      BY <2>5 DEF Create, Update, ScreenInv, ReadInv, ReadTypeOK
    <2>7. d = c
      BY <2>5 DEF Create, Update, Arrives, Answered, CallRefused, CallFails, ScreenInv, CallInv
    <2>8. Update(c, i)
      BY <2>5, <2>6, <2>7 DEF Create
    <2> QED
      BY <2>8 DEF Update, ExpectedVersion, ScreenInv, CallInv, DraftsOfTheirVersion
  <1> QED
    BY <1>1, ScreenInvariantHolds, PTL DEF ScreenSpec, OverwritesOnlyWhatWasRead

-----------------------------------------------------------------------------
(* Texts.                                                                  *)

LEMMA EmptyIsText == Empty \in Texts
  BY DEF Empty, Texts

\* A text is what its four fields say.
LEMMA TextsAreTheirFields ==
    ASSUME NEW s \in Texts, NEW t \in Texts, s.pad = t.pad, s.padLong = t.padLong,
           s.body = t.body, s.long = t.long
    PROVE  s = t
  BY DEF Texts

LEMMA TrimmedFields ==
    ASSUME NEW t \in Texts
    PROVE  /\ Trim(t) \in Texts /\ Trim(t).pad = "none" /\ ~Trim(t).padLong
           /\ Trim(t).body = t.body /\ Trim(t).long = t.long
  BY DEF Texts, Trim

LEMMA Trimming ==
    ASSUME NEW t \in Texts
    PROVE  /\ ServerTrim(t) \in Texts
           /\ ServerTrim(Trim(t)) = Trim(t)
           /\ ServerTrim(ServerTrim(t)) = ServerTrim(t)
           /\ ServerTrim(t).body = t.body
           /\ TooLong(ServerTrim(t)) => TooLong(t)
           /\ t.pad = "none" => Trim(t) = t
           /\ t.pad # "blanks" => ServerTrim(t) = Trim(t)
  <1>1. t.pad = "none" => Trim(t) = t
    BY TrimmedFields, TextsAreTheirFields DEF Texts
  <1>2. t.pad \in {"none", "spaces", "blanks"}
    BY DEF Texts
  <1> QED
    BY <1>1, <1>2, TrimmedFields DEF ServerTrim, TooLong

LEMMA OptionalTexts ==
    ASSUME NEW t \in Texts \cup {Absent}
    PROVE  /\ OptionalParameter(t) \in Texts
           /\ t # Absent => OptionalText(t) \in Texts \cup {Absent}
           /\ t # Absent => ServerOptional(t) \in Texts \cup {Absent}
  BY EmptyIsText, TrimmedFields, Trimming
     DEF OptionalParameter, OptionalText, ServerOptional

-----------------------------------------------------------------------------
(* Factors.                                                                *)

LEMMA MarkedIsDecimal ==
    ASSUME NEW d \in Decimals, NEW mark \in {"dot", "comma"}
    PROVE  /\ Marked(d, mark) \in Decimals /\ Marked(d, mark).value = d.value
           /\ Marked(d, mark).leading = d.leading
           /\ Marked(d, mark).mark \in {"none", mark}
  <1>1. CASE d.mark = "none"
    BY <1>1 DEF Marked
  <1>2. CASE d.mark # "none"
    BY <1>2 DEF Marked, Decimals, Places, Marks
  <1> QED
    BY <1>1, <1>2

\* What is put into a field is read back in the same language as it was meant.
LEMMA FormattedIsRead ==
    ASSUME NEW d \in Decimals, NEW locale \in Locales
    PROVE  /\ FormatDecimalForInput(d, locale) \in Decimals
           /\ FormatDecimalForInput(d, locale).value = d.value
           /\ ReadsDecimal(FormatDecimalForInput(d, locale), locale)
  BY MarkedIsDecimal, AbsentAssumption
     DEF FormatDecimalForInput, DecimalMark, ReadsDecimal, Ambiguous, GroupingMark, Locales

LEMMA PackedFactor ==
    ASSUME NEW d \in Decimals
    PROVE  /\ PackFactor(d) \in Decimals /\ PackFactor(d).value = d.value
           /\ ~PackFactor(d).leading /\ PackFactor(d).mark # "comma"
  <1>1. d # Absent
    BY AbsentAssumption
  <1>2. Canonical(d).value = d.value /\ d.value \in Values /\ Scale[d.value] \in Nat
    BY MarkedIsDecimal, ValuesAssumption DEF Canonical, Decimals
  <1> QED
    BY <1>1, <1>2 DEF PackFactor, QuantityText, Decimals, Marks, Places

LEMMA ReexpressedIsRead ==
    ASSUME NEW d \in Decimals \cup {Absent, Unreadable}, NEW before \in Locales,
           NEW after \in Locales
    PROVE  /\ Reexpressed(d, before, after) \in Decimals \cup {Absent, Unreadable}
           /\ Reexpressed(d, before, after) = Absent <=> d = Absent
           /\ d # Absent /\ ReadsDecimal(d, before) =>
                /\ ReadsDecimal(Reexpressed(d, before, after), after)
                /\ Reexpressed(d, before, after).value = d.value
  <1>1. CASE d # Absent /\ ReadsDecimal(d, before)
    <2>1. d \in Decimals
      BY <1>1 DEF ReadsDecimal
    <2>2. Canonical(d) \in Decimals /\ Canonical(d).value = d.value
      BY <2>1, MarkedIsDecimal DEF Canonical
    <2>3. Reexpressed(d, before, after) = FormatDecimalForInput(Canonical(d), after)
      BY <1>1 DEF Reexpressed
    <2> QED
      BY <1>1, <2>1, <2>2, <2>3, FormattedIsRead, AbsentAssumption
  <1>2. CASE ~(d # Absent /\ ReadsDecimal(d, before))
    BY <1>2 DEF Reexpressed
  <1> QED
    BY <1>1, <1>2

-----------------------------------------------------------------------------
(* Records.                                                                *)

\* What a form holds, and what a client sends.
FormDrafts ==
    [identifier : Texts, optional : Texts, factor : Decimals \cup {Absent, Unreadable},
     status : {Absent, Status}, order : SortOrders]

LEMMA EmptyDraftIsADraft == EmptyDraft \in FormDrafts
  BY EmptyIsText DEF EmptyDraft, FormDrafts, SortOrders

\* What is accepted becomes a row that the file's reader accepts.
LEMMA AcceptedIsExportable ==
    ASSUME NEW p \in FormDrafts, Accepts(p), NEW active \in BOOLEAN, NEW version \in Nat
    PROVE  /\ Row(Columns(p), active, version) \in CatalogRows
           /\ FileAccepts(Row(Columns(p), active, version))
  <1> DEFINE c == Columns(p)
             r == Row(c, active, version)
  <1>1. /\ c.identifier = ServerTrim(p.identifier) /\ c.optional = ServerOptional(p.optional)
        /\ c.factor = p.factor /\ c.status = p.status /\ c.order = p.order
    BY DEF Columns
  <1>2. /\ r.identifier = c.identifier /\ r.optional = c.optional /\ r.factor = c.factor
        /\ r.order = c.order
    BY DEF Row
  <1>3. p.optional # Absent /\ p.optional \in Texts
    BY AbsentAssumption DEF FormDrafts
  <1>4. c.identifier \in Texts /\ c.optional \in Texts \cup {Absent}
    BY <1>1, <1>3, Trimming, OptionalTexts DEF FormDrafts
  <1>5. p.factor \in Decimals \cup {Absent} /\ p.order \in SortOrders /\ p.status \in {Absent, Status}
    BY DEF FormDrafts, Accepts, CanonicalPositive
  <1>6. r \in CatalogRows
    BY <1>1, <1>4, <1>5 DEF Row, CatalogRows
  <1>7. FileAccepts(r)
    BY <1>1, <1>2 DEF FileAccepts, Accepts, ConstraintsHold, IdentifierHolds, OptionalHolds,
                      FileIdentifier, FileOptional
  <1> QED
    BY <1>6, <1>7

LEMMA BuiltInput ==
    ASSUME NEW d \in FormDrafts, NEW locale \in Locales, PassesForm(d, locale)
    PROVE  /\ Parameters(BuildInput(d)) \in FormDrafts
           /\ CanonicalPositive(Parameters(BuildInput(d)).factor)
           /\ ~TooLong(Trim(d.identifier)) => IdentifierHolds(ServerTrim(Trim(d.identifier)))
           /\ ~TooLong(Trim(d.optional)) =>
                OptionalHolds(ServerOptional(OptionalParameter(OptionalText(d.optional))))
  <1> DEFINE b == BuildInput(d)
             p == Parameters(b)
  <1>1. /\ b.identifier = Trim(d.identifier) /\ b.optional = OptionalText(d.optional)
        /\ b.factor = PackFactor(d.factor) /\ b.status = d.status /\ b.order = d.order
    BY DEF BuildInput
  <1>2. /\ p.identifier = b.identifier /\ p.optional = OptionalParameter(b.optional)
        /\ p.factor = b.factor /\ p.status = b.status /\ p.order = b.order
    BY DEF Parameters
  <1>3. d.identifier \in Texts /\ d.optional \in Texts /\ d.optional # Absent
    BY AbsentAssumption DEF FormDrafts
  <1>4. /\ Trim(d.identifier) \in Texts /\ Trim(d.optional) \in Texts
        /\ OptionalText(d.optional) \in Texts \cup {Absent}
        /\ OptionalParameter(OptionalText(d.optional)) \in Texts
    BY <1>3, TrimmedFields, OptionalTexts
  <1>5. PackFactor(d.factor) \in Decimals \cup {Absent} /\ CanonicalPositive(PackFactor(d.factor))
    <2>1. CASE d.factor = Absent
      BY <2>1 DEF PackFactor, CanonicalPositive
    <2>2. CASE d.factor # Absent
      <3>1. d.factor \in Decimals /\ d.factor.value # Zero
        BY <2>2 DEF PassesForm, PassesFactor, ReadsDecimal, FormDrafts
      <3> QED
        BY <3>1, PackedFactor, AbsentAssumption DEF CanonicalPositive
    <2> QED
      BY <2>1, <2>2
  <1>6. p \in FormDrafts
    BY <1>1, <1>4, <1>5 DEF Parameters, FormDrafts
  <1>7. ServerTrim(Trim(d.identifier)) = Trim(d.identifier) /\ Trim(d.identifier).body = "visible"
    BY <1>3, Trimming, TrimmedFields DEF PassesForm, PassesRequired, HasVisibleText
  <1>8. ~TooLong(Trim(d.identifier)) => IdentifierHolds(ServerTrim(Trim(d.identifier)))
    BY <1>7 DEF IdentifierHolds, HasVisibleText, Empty
  <1>9. ~TooLong(Trim(d.optional)) =>
          OptionalHolds(ServerOptional(OptionalParameter(OptionalText(d.optional))))
    <2>1. CASE Trim(d.optional) = Empty
      <3>1. ServerTrim(Empty) = Empty
        BY EmptyIsText, Trimming, <1>3, <2>1
      <3> QED
        BY <2>1, <3>1 DEF OptionalText, OptionalParameter, ServerOptional, OptionalHolds
    <2>2. CASE Trim(d.optional) # Empty
      <3>1. Trim(d.optional) # Absent /\ ServerTrim(Trim(d.optional)) = Trim(d.optional)
        BY <1>3, <1>4, Trimming, AbsentAssumption
      <3> QED
        BY <2>2, <3>1 DEF OptionalText, OptionalParameter, ServerOptional, OptionalHolds
    <2> QED
      BY <2>1, <2>2
  <1> QED
    BY <1>1, <1>2, <1>5, <1>6, <1>8, <1>9

\* What is put into a form.
LEMMA DraftOfARow ==
    ASSUME NEW r \in CatalogRows, NEW locale \in Locales
    PROVE  /\ DraftFrom(r, locale) \in FormDrafts
           /\ r.factor # Absent =>
                /\ DraftFrom(r, locale).factor \in Decimals
                /\ DraftFrom(r, locale).factor # Absent
                /\ ReadsDecimal(DraftFrom(r, locale).factor, locale)
                /\ DraftFrom(r, locale).factor.value = r.factor.value
           /\ r.factor = Absent => DraftFrom(r, locale).factor = Absent
           /\ DraftFrom(r, locale).identifier = r.identifier
           /\ DraftFrom(r, locale).optional = OptionalParameter(r.optional)
  <1>1. OptionalParameter(r.optional) \in Texts
    BY OptionalTexts DEF CatalogRows
  <1>2. r.factor # Absent => r.factor \in Decimals
    BY DEF CatalogRows
  <1>3. CASE r.factor = Absent
    BY <1>1, <1>3 DEF DraftFrom, FormDrafts, CatalogRows
  <1>4. CASE r.factor # Absent
    <2>1. FormatDecimalForInput(r.factor, locale) \in Decimals \ {Absent}
      BY <1>2, <1>4, FormattedIsRead, AbsentAssumption
    <2> QED
      BY <1>1, <1>2, <1>4, <2>1, FormattedIsRead DEF DraftFrom, FormDrafts, CatalogRows
  <1> QED
    BY <1>3, <1>4

LEMMA ImportedIsAccepted ==
    ASSUME NEW local \in LegacyRecords, ~FindImportProblem(local)
    PROVE  /\ ImportAccepts(local) /\ Parameters(local) \in FormDrafts
           /\ Accepts(Parameters(local))
  <1> DEFINE p == Parameters(local)
  <1>1. /\ local.identifier \in Texts /\ local.optional \in Texts \cup {Absent}
        /\ local.factor \in Decimals \cup {Absent, Unreadable}
        /\ local.status = Absent /\ local.order = "inRange" /\ local.active \in BOOLEAN
    BY DraftsAssumption
  <1>2. /\ p.identifier = local.identifier /\ p.optional = OptionalParameter(local.optional)
        /\ p.factor = local.factor /\ p.order = local.order
    BY DEF Parameters
  <1>3. p \in FormDrafts
    BY <1>1, OptionalTexts DEF Parameters, FormDrafts, SortOrders
  <1>4. ImportText(local.identifier, TRUE) /\ CanonicalPositive(local.factor)
        /\ (local.optional # Absent => ImportText(local.optional, FALSE))
    BY DEF FindImportProblem, TextProblem, ImportText
  <1>5. IdentifierHolds(ServerTrim(local.identifier))
    BY <1>1, <1>4, Trimming DEF IdentifierHolds, ImportText, HasVisibleText
  <1>6. OptionalHolds(ServerOptional(OptionalParameter(local.optional)))
    <2>1. CASE local.optional = Absent
      <3>1. ServerTrim(Empty) = Empty
        BY EmptyIsText DEF ServerTrim, Empty
      <3> QED
        BY <2>1, <3>1 DEF OptionalParameter, ServerOptional, OptionalHolds
    <2>2. CASE local.optional # Absent
      BY <1>1, <1>4, <2>2, Trimming
         DEF OptionalParameter, ServerOptional, OptionalHolds, ImportText
    <2> QED
      BY <2>1, <2>2
  <1>7. ConstraintsHold(Columns(p))
    BY <1>1, <1>2, <1>5, <1>6 DEF ConstraintsHold, Columns
  <1> QED
    BY <1>2, <1>3, <1>4, <1>7 DEF ImportAccepts, Accepts

-----------------------------------------------------------------------------
(* The invariant.                                                          *)

NothingBeforeTheFirstWrite == ~Exists => record = NoStored

FormsAreOfAKnownVersion == edit.version <= record.version

\* A form in which nothing was typed and that the row has not outrun holds the row.
UntouchedFormsHoldTheRow ==
    (edit.pc # "closed" /\ ~edit.touched /\ Exists /\ edit.version = record.version) =>
        /\ edit.draft.identifier = record.identifier
        /\ edit.draft.optional = OptionalParameter(record.optional)
        /\ (edit.draft.factor = Absent) <=> (record.factor = Absent)
        /\ record.factor # Absent => edit.draft.factor.value = record.factor.value

ImportsAreOfTheDevice ==
    migration.outcome = "STORED" => migration.source \in LegacyRecords /\ Exists

RecordsInv ==
    /\ RecordsTypeOK
    /\ StoredRowsAreExportable
    /\ NothingBeforeTheFirstWrite
    /\ FormsAreOfAKnownVersion
    /\ FactorsStayReadable
    /\ UntouchedFormsHoldTheRow
    /\ ImportsAreOfTheDevice
    /\ ImportsMatchTheirSource

LEMMA ClosedForm == Closed \in EditStates /\ Closed.pc = "closed" /\ Closed.version = 0
  <1>1. EmptyDraft \in FormDrafts
    BY EmptyDraftIsADraft
  <1> QED
    BY <1>1 DEF Closed, EditStates, FormDrafts, Locales, Failures

LEMMA RecordsInit_Inv == RecordsInit => RecordsInv
  <1> SUFFICES ASSUME RecordsInit PROVE RecordsInv
    OBVIOUS
  <1>1. /\ record = NoStored /\ edit = Closed /\ statusActive = TRUE
        /\ migration.outcome = "NONE" /\ NoStored.version = 0
    BY DEF RecordsInit, NoMigration, NoStored
  <1>2. NoStored \in CatalogRows
    BY EmptyIsText DEF NoStored, CatalogRows, SortOrders
  <1> QED
    BY <1>1, <1>2, ClosedForm
       DEF RecordsInv, RecordsTypeOK, StoredRowsAreExportable, NothingBeforeTheFirstWrite,
           FormsAreOfAKnownVersion, FactorsStayReadable, UntouchedFormsHoldTheRow,
           ImportsAreOfTheDevice, ImportsMatchTheirSource, Exists

LEMMA TheDraftIsTyped ==
    ASSUME RecordsInv
    PROVE  edit.draft \in FormDrafts /\ edit.locale \in Locales /\ edit.reloadLocale \in Locales
  BY DEF RecordsInv, RecordsTypeOK, EditStates, FormDrafts

\* What SubmitRecord does: a write of what was typed, or nothing to the row.
LEMMA SubmitWritesOrNot ==
    ASSUME RecordsInv, SubmitRecord
    PROVE  \/ /\ edit' = Closed /\ edit.version = record.version
              /\ PassesForm(edit.draft, edit.locale)
              /\ Accepts(Parameters(BuildInput(edit.draft)))
              /\ Store(Columns(Parameters(BuildInput(edit.draft))), record.active, ~edit.touched)
           \/ /\ UNCHANGED <<record, migration>>
              /\ edit' = Closed \/ \E f \in Failures : edit' = [edit EXCEPT !.failure = f]
  <1> DEFINE p == Parameters(BuildInput(edit.draft))
             failed == IF ~PassesForm(edit.draft, edit.locale) THEN "TYPED"
                       ELSE Verdict(p, edit.version)
  <1>1. failed \in Failures
    BY DEF Verdict, Failures
  <1>2. failed = "NONE" => PassesForm(edit.draft, edit.locale) /\ Accepts(p)
    BY DEF Verdict
  <1>3. "TYPED" \in Failures
    BY DEF Failures
  <1>4. \/ /\ failed = "NONE" /\ edit.version = record.version
           /\ Store(Columns(p), record.active, ~edit.touched) /\ edit' = Closed
        \/ /\ edit' \in {Closed, [edit EXCEPT !.failure = "TYPED"]}
           /\ UNCHANGED <<record, migration>>
        \/ /\ edit' = [edit EXCEPT !.failure = failed] /\ UNCHANGED <<record, migration>>
    BY DEF SubmitRecord
  <1> HIDE DEF failed, p
  <1>5. CASE /\ failed = "NONE" /\ edit.version = record.version
             /\ Store(Columns(p), record.active, ~edit.touched) /\ edit' = Closed
    BY <1>2, <1>5 DEF p
  <1>6. CASE /\ edit' \in {Closed, [edit EXCEPT !.failure = "TYPED"]}
             /\ UNCHANGED <<record, migration>>
    BY <1>3, <1>6
  <1>7. CASE edit' = [edit EXCEPT !.failure = failed] /\ UNCHANGED <<record, migration>>
    BY <1>1, <1>7
  <1> QED
    BY <1>4, <1>5, <1>6, <1>7

-----------------------------------------------------------------------------
(* The row.                                                                *)

LEMMA StoreKeepsTheRow ==
    ASSUME RecordsInv, NEW p \in FormDrafts, Accepts(p), NEW active \in BOOLEAN,
           NEW same, Store(Columns(p), active, same)
    PROVE  /\ record' \in CatalogRows /\ FileAccepts(record')
           /\ record'.version = record.version + 1 /\ Exists' /\ record.version \in Nat
           /\ record' = Row(Columns(p), active, record.version + 1)
           /\ migration'.outcome \in {"NONE", "PRECHECK", "REFUSED", "STORED", "EDITED"}
  <1>1. record.version \in Nat /\ migration.outcome \in {"NONE", "PRECHECK", "REFUSED", "STORED", "EDITED"}
    BY DEF RecordsInv, RecordsTypeOK, CatalogRows
  <1>2. record' = Row(Columns(p), active, record.version + 1)
    BY DEF Store
  <1>3. record'.version = record.version + 1
    BY <1>2 DEF Row
  <1>4. migration'.outcome \in {migration.outcome, "EDITED"}
    BY DEF Store, NoMigration
  <1> QED
    BY <1>1, <1>2, <1>3, <1>4, AcceptedIsExportable DEF Exists

\* A write by somebody else, or a change of status: the row and nothing of the form.
LEMMA OthersKeepTheRow ==
    ASSUME RecordsInv, SetActive \/ \E input \in Inputs : Colleague(input)
    PROVE  /\ record' \in CatalogRows /\ FileAccepts(record') /\ Exists'
           /\ record'.version = record.version + 1 /\ record.version \in Nat
           /\ UNCHANGED <<statusActive, edit>>
           /\ (migration' = migration /\ migration.outcome # "STORED")
              \/ migration'.outcome = "EDITED"
  <1>1. record.version \in Nat /\ record \in CatalogRows
    BY DEF RecordsInv, RecordsTypeOK, CatalogRows
  <1>2. CASE SetActive
    <2>1. /\ record' = Row(record, ~record.active, record.version + 1)
          /\ UNCHANGED <<statusActive, edit>> /\ Exists
          /\ (migration' = migration /\ migration.outcome # "STORED")
             \/ migration'.outcome = "EDITED"
      BY <1>2 DEF SetActive, Store, NoMigration
    <2>2. record' \in CatalogRows
      BY <1>1, <2>1 DEF Row, CatalogRows
    <2>3. FileAccepts(record)
      BY <2>1 DEF RecordsInv, StoredRowsAreExportable
    <2>4. FileAccepts(record')
      BY <2>1, <2>3 DEF FileAccepts, Row
    <2>5. record'.version = record.version + 1
      BY <2>1 DEF Row
    <2> QED
      BY <1>1, <2>1, <2>2, <2>4, <2>5 DEF Exists
  <1>3. ASSUME NEW input \in Inputs, Colleague(input)
        PROVE  /\ record' \in CatalogRows /\ FileAccepts(record') /\ Exists'
               /\ record'.version = record.version + 1
               /\ UNCHANGED <<statusActive, edit>>
               /\ (migration' = migration /\ migration.outcome # "STORED")
                  \/ migration'.outcome = "EDITED"
    <2>1. input \in FormDrafts
      BY DraftsAssumption DEF FormDrafts
    <2>2. Accepts(input) /\ Store(Columns(input), record.active, FALSE)
          /\ UNCHANGED <<statusActive, edit>>
      BY <1>3 DEF Colleague, Verdict
    <2>3. record.active \in BOOLEAN
      BY <1>1 DEF CatalogRows
    <2>4. (migration' = migration /\ migration.outcome # "STORED") \/ migration'.outcome = "EDITED"
      BY <2>2 DEF Store, NoMigration
    <2> QED
      BY <2>1, <2>2, <2>3, <2>4, StoreKeepsTheRow
  <1> QED
    BY <1>1, <1>2, <1>3

-----------------------------------------------------------------------------
(* The form.                                                               *)

\* A step that leaves the row alone.
LEMMA FormStep ==
    ASSUME RecordsInv, UNCHANGED <<record, migration>>, statusActive' \in BOOLEAN,
           edit' \in EditStates, edit'.version <= record.version,
           FactorsStayReadable', UntouchedFormsHoldTheRow'
    PROVE  RecordsInv'
  BY DEF RecordsInv, RecordsTypeOK, StoredRowsAreExportable, NothingBeforeTheFirstWrite,
         FormsAreOfAKnownVersion, ImportsAreOfTheDevice, ImportsMatchTheirSource, Exists

\* A form that is closed, or that only says what went wrong.
LEMMA SayingKeeps ==
    ASSUME RecordsInv, UNCHANGED <<record, migration, statusActive>>,
           edit' = Closed \/ \E f \in Failures : edit' = [edit EXCEPT !.failure = f]
    PROVE  RecordsInv'
  <1>1. CASE edit' = Closed
    BY <1>1, ClosedForm, FormStep
       DEF FactorsStayReadable, UntouchedFormsHoldTheRow, RecordsInv, RecordsTypeOK, CatalogRows
  <1>2. ASSUME NEW f \in Failures, edit' = [edit EXCEPT !.failure = f] PROVE RecordsInv'
    <2>1. edit \in EditStates /\ statusActive' \in BOOLEAN
      BY DEF RecordsInv, RecordsTypeOK
    <2>2. /\ edit' \in EditStates /\ edit'.version = edit.version /\ edit'.pc = edit.pc
          /\ edit'.meant = edit.meant /\ edit'.draft = edit.draft /\ edit'.locale = edit.locale
          /\ edit'.touched = edit.touched
      BY <1>2, <2>1 DEF EditStates
    <2> QED
      BY <2>1, <2>2, FormStep
         DEF RecordsInv, FormsAreOfAKnownVersion, FactorsStayReadable,
             UntouchedFormsHoldTheRow, Exists
  <1> QED
    BY <1>1, <1>2

\* A number that was read is a decimal, and reading is what the field says.
LEMMA ReadIsMeant ==
    ASSUME NEW d \in Decimals \cup {Absent, Unreadable}, NEW locale \in Locales
    PROVE  /\ ReadAs(d, locale) \in Values \cup {Absent}
           /\ ReadAs(d, locale) # Absent =>
                /\ d # Absent /\ ReadsDecimal(d, locale) /\ PackFactor(d).value = ReadAs(d, locale)
  <1>1. CASE d # Absent /\ ReadsDecimal(d, locale)
    <2>1. d \in Decimals
      BY <1>1 DEF ReadsDecimal
    <2> QED
      BY <1>1, <2>1, PackedFactor DEF ReadAs, Decimals
  <1> QED
    BY <1>1 DEF ReadAs

LEMMA OpenKeeps ==
    ASSUME RecordsInv, NEW locale \in Locales, Open(locale)
    PROVE  RecordsInv'
  <1> DEFINE draft == IF Exists THEN DraftFrom(record, locale) ELSE EmptyDraft
             meant == IF record.factor = Absent THEN Absent ELSE record.factor.value
             statuses == IF statusActive THEN {Status} ELSE {}
  <1>1. record \in CatalogRows /\ edit \in EditStates /\ statusActive \in BOOLEAN
    BY DEF RecordsInv, RecordsTypeOK
  <1>2. edit' = [Closed EXCEPT !.pc = "open", !.locale = locale, !.version = record.version,
                               !.draft = draft, !.statuses = statuses, !.meant = meant]
    BY DEF Open, Closed
  <1>3. /\ draft \in FormDrafts /\ meant \in Values \cup {Absent} /\ statuses \in SUBSET {Status}
        /\ record.version \in Nat
    BY <1>1, DraftOfARow, EmptyDraftIsADraft DEF CatalogRows, Decimals
  <1>4. meant # Absent =>
          /\ draft \in FormDrafts /\ draft.factor # Absent /\ ReadsDecimal(draft.factor, locale)
          /\ PackFactor(draft.factor).value = meant
    <2>1. SUFFICES ASSUME meant # Absent PROVE
            /\ draft.factor # Absent /\ ReadsDecimal(draft.factor, locale)
            /\ PackFactor(draft.factor).value = meant
      BY <1>3
    <2>2. record.factor # Absent /\ meant = record.factor.value
      BY <2>1
    <2>3. Exists
      BY <2>2 DEF RecordsInv, NothingBeforeTheFirstWrite, NoStored
    <2> QED
      BY <1>1, <2>2, <2>3, DraftOfARow, PackedFactor
  <1>5. Exists =>
          /\ draft.identifier = record.identifier
          /\ draft.optional = OptionalParameter(record.optional)
          /\ (draft.factor = Absent) <=> (record.factor = Absent)
          /\ record.factor # Absent => draft.factor.value = record.factor.value
    BY <1>1, DraftOfARow
  <1> HIDE DEF draft, meant, statuses
  <1>6. /\ edit'.pc = "open" /\ edit'.locale = locale /\ edit'.version = record.version
        /\ edit'.draft = draft /\ edit'.meant = meant
    BY <1>2 DEF Closed
  <1>7. edit' \in EditStates
    BY <1>2, <1>3, ClosedForm DEF EditStates, FormDrafts
  <1>8. UNCHANGED <<record, statusActive, migration>>
    BY DEF Open
  <1>9. FactorsStayReadable' /\ UntouchedFormsHoldTheRow'
    BY <1>4, <1>5, <1>6, <1>8 DEF FactorsStayReadable, UntouchedFormsHoldTheRow, Exists
  <1> QED
    BY <1>1, <1>3, <1>6, <1>7, <1>8, <1>9, FormStep DEF CatalogRows

LEMMA TypeKeeps ==
    ASSUME RecordsInv, NEW draft \in Drafts, Type(draft)
    PROVE  RecordsInv'
  <1> DEFINE meant == ReadAs(draft.factor, edit.locale)
  <1>1. /\ edit \in EditStates /\ edit.locale \in Locales /\ draft \in FormDrafts
        /\ statusActive \in BOOLEAN
    BY TheDraftIsTyped, DraftsAssumption DEF RecordsInv, RecordsTypeOK, FormDrafts
  <1>2. /\ edit' = [edit EXCEPT !.draft = draft, !.touched = TRUE, !.meant = meant]
        /\ UNCHANGED <<record, statusActive, migration>>
    BY DEF Type
  <1>3. draft.factor \in Decimals \cup {Absent, Unreadable}
    BY <1>1 DEF FormDrafts
  <1>4. meant \in Values \cup {Absent}
    BY <1>1, <1>3, ReadIsMeant
  <1>5. meant # Absent => /\ draft.factor # Absent /\ ReadsDecimal(draft.factor, edit.locale)
                          /\ PackFactor(draft.factor).value = meant
    BY <1>1, <1>3, ReadIsMeant
  <1> HIDE DEF meant
  <1>6. /\ edit' \in EditStates /\ edit'.draft = draft /\ edit'.meant = meant /\ edit'.touched
        /\ edit'.version = edit.version /\ edit'.locale = edit.locale
    BY <1>1, <1>2, <1>4 DEF EditStates, FormDrafts
  <1>7. FactorsStayReadable' /\ UntouchedFormsHoldTheRow'
    BY <1>5, <1>6 DEF FactorsStayReadable, UntouchedFormsHoldTheRow
  <1> QED
    BY <1>1, <1>2, <1>6, <1>7, FormStep DEF RecordsInv, FormsAreOfAKnownVersion

LEMMA SwitchLocaleKeeps ==
    ASSUME RecordsInv, NEW locale \in Locales, SwitchLocale(locale)
    PROVE  RecordsInv'
  <1> DEFINE factor == Reexpressed(edit.draft.factor, edit.locale, locale)
             draft == [edit.draft EXCEPT !.factor = factor]
  <1>1. /\ edit \in EditStates /\ edit.locale \in Locales /\ edit.draft \in FormDrafts
        /\ statusActive \in BOOLEAN
        /\ edit.draft.factor \in Decimals \cup {Absent, Unreadable}
    BY TheDraftIsTyped DEF RecordsInv, RecordsTypeOK, FormDrafts
  <1>2. /\ edit' = [edit EXCEPT !.locale = locale, !.draft = draft]
        /\ UNCHANGED <<record, statusActive, migration>>
    BY <1>1 DEF SwitchLocale, EditStates
  <1>3. /\ factor \in Decimals \cup {Absent, Unreadable}
        /\ factor = Absent <=> edit.draft.factor = Absent
        /\ edit.draft.factor # Absent /\ ReadsDecimal(edit.draft.factor, edit.locale) =>
             ReadsDecimal(factor, locale) /\ factor.value = edit.draft.factor.value
    BY <1>1, ReexpressedIsRead
  <1>4. factor # edit.draft.factor => factor.value = edit.draft.factor.value
    BY <1>3 DEF Reexpressed
  <1> HIDE DEF factor
  <1>5. /\ draft \in FormDrafts /\ draft.factor = factor
        /\ draft.identifier = edit.draft.identifier /\ draft.optional = edit.draft.optional
    BY <1>1, <1>3 DEF FormDrafts
  <1> HIDE DEF draft
  <1>6. /\ edit' \in EditStates /\ edit'.draft = draft /\ edit'.locale = locale
        /\ edit'.meant = edit.meant /\ edit'.touched = edit.touched
        /\ edit'.version = edit.version /\ edit'.pc = edit.pc
    BY <1>1, <1>2, <1>5 DEF EditStates, FormDrafts
  <1>7. FactorsStayReadable'
    <2> SUFFICES ASSUME edit'.pc # "closed", edit'.meant # Absent
                 PROVE  /\ factor # Absent /\ ReadsDecimal(factor, locale)
                        /\ PackFactor(factor).value = edit.meant
      BY <1>5, <1>6 DEF FactorsStayReadable
    <2>1. /\ edit.draft.factor # Absent /\ ReadsDecimal(edit.draft.factor, edit.locale)
          /\ PackFactor(edit.draft.factor).value = edit.meant
      BY <1>6 DEF RecordsInv, FactorsStayReadable
    <2>2. edit.draft.factor \in Decimals
      BY <1>1, <2>1 DEF ReadsDecimal
    <2>3. factor \in Decimals
      BY <1>3, <2>1 DEF ReadsDecimal
    <2> QED
      BY <1>3, <2>1, <2>2, <2>3, PackedFactor
  <1>8. UntouchedFormsHoldTheRow'
    BY <1>2, <1>3, <1>4, <1>5, <1>6 DEF RecordsInv, UntouchedFormsHoldTheRow, Exists
  <1> QED
    BY <1>1, <1>2, <1>6, <1>7, <1>8, FormStep DEF RecordsInv, FormsAreOfAKnownVersion

LEMMA ReloadKeeps ==
    ASSUME RecordsInv, ReadStored
    PROVE  RecordsInv'
  <1>1. edit \in EditStates /\ statusActive \in BOOLEAN
    BY DEF RecordsInv, RecordsTypeOK
  <1>2. /\ edit' \in EditStates /\ edit'.draft = edit.draft /\ edit'.locale = edit.locale
        /\ edit'.meant = edit.meant /\ edit'.touched = edit.touched
        /\ edit'.version = edit.version /\ edit.pc = "open"
    BY <1>1 DEF ReadStored, EditStates
  <1>3. UNCHANGED <<record, statusActive, migration>>
    BY DEF ReadStored
  <1> QED
    BY <1>1, <1>2, <1>3, FormStep
       DEF RecordsInv, FormsAreOfAKnownVersion, FactorsStayReadable, UntouchedFormsHoldTheRow,
           Exists

LEMMA ReloadedKeeps ==
    ASSUME RecordsInv, StoredRead
    PROVE  RecordsInv'
  <1>1. /\ edit \in EditStates /\ edit.locale \in Locales /\ edit.reloadLocale \in Locales
        /\ statusActive \in BOOLEAN /\ record \in CatalogRows
        /\ record.version \in Nat
    BY TheDraftIsTyped DEF RecordsInv, RecordsTypeOK, CatalogRows
  <1>2. UNCHANGED <<record, statusActive, migration>> /\ edit.pc = "reloading"
    BY DEF StoredRead
  <1>3. ASSUME NEW draft, draft = DraftFrom(record, edit.reloadLocale),
               edit' = [edit EXCEPT !.pc = "open", !.draft = draft, !.failure = "NONE",
                                    !.version = record.version, !.reloadLocale = "tr",
                                    !.touched = FALSE,
                                    !.meant = ReadAs(draft.factor, edit.locale)]
        PROVE  RecordsInv'
    <2> DEFINE meant == ReadAs(draft.factor, edit.locale)
    <2>1. draft \in FormDrafts /\ draft.factor \in Decimals \cup {Absent, Unreadable}
      BY <1>1, <1>3, DraftOfARow DEF FormDrafts
    <2>2. /\ meant \in Values \cup {Absent}
          /\ meant # Absent => /\ draft.factor # Absent
                               /\ ReadsDecimal(draft.factor, edit.locale)
                               /\ PackFactor(draft.factor).value = meant
      BY <1>1, <2>1, ReadIsMeant
    <2>3. edit' = [edit EXCEPT !.pc = "open", !.draft = draft, !.failure = "NONE",
                               !.version = record.version, !.reloadLocale = "tr",
                               !.touched = FALSE, !.meant = meant]
      BY <1>3
    <2> HIDE DEF meant
    <2>4. /\ edit' \in EditStates /\ edit'.draft = draft /\ edit'.meant = meant
          /\ edit'.version = record.version /\ edit'.locale = edit.locale
      BY <1>1, <2>1, <2>2, <2>3 DEF EditStates, FormDrafts, Failures, Locales
    <2>5. FactorsStayReadable'
      BY <2>2, <2>4 DEF FactorsStayReadable
    <2>6. UntouchedFormsHoldTheRow'
      BY <1>1, <1>2, <1>3, <2>4, DraftOfARow DEF UntouchedFormsHoldTheRow
    <2> QED
      BY <1>1, <1>2, <2>4, <2>5, <2>6, FormStep
  <1>4. ASSUME edit' = [edit EXCEPT !.pc = "open", !.failure = "RELOAD_FAILED",
                                    !.reloadLocale = "tr"]
        PROVE  RecordsInv'
    <2>1. /\ edit' \in EditStates /\ edit'.draft = edit.draft /\ edit'.locale = edit.locale
          /\ edit'.meant = edit.meant /\ edit'.touched = edit.touched
          /\ edit'.version = edit.version
      BY <1>1, <1>4 DEF EditStates, Failures, Locales
    <2> QED
      BY <1>1, <1>2, <2>1, FormStep
         DEF RecordsInv, FormsAreOfAKnownVersion, FactorsStayReadable,
             UntouchedFormsHoldTheRow, Exists
  <1> QED
    BY <1>3, <1>4 DEF StoredRead

-----------------------------------------------------------------------------
(* The import, and the writes after it.                                    *)

BlanksInTheSource ==
    \/ migration.source.identifier.pad = "blanks"
    \/ migration.source.optional # Absent /\ migration.source.optional.pad = "blanks"

\* What the form makes of a row that the import stored without blanks around
\* its texts is that row.
LEMMA SavingChangesNothing ==
    ASSUME NEW local \in LegacyRecords, NEW stored \in CatalogRows, NEW d \in FormDrafts,
           SameRecord(local, stored), local.identifier.pad # "blanks",
           local.optional # Absent => local.optional.pad # "blanks",
           d.identifier = stored.identifier, d.optional = OptionalParameter(stored.optional),
           (d.factor = Absent) <=> (stored.factor = Absent),
           stored.factor # Absent => d.factor.value = stored.factor.value,
           NEW locale \in Locales, PassesForm(d, locale), NEW version
    PROVE  SameRecord(local, Row(Columns(Parameters(BuildInput(d))), stored.active, version))
  <1> DEFINE new == Row(Columns(Parameters(BuildInput(d))), stored.active, version)
             optional == OptionalParameter(OptionalText(d.optional))
  <1>1. /\ new.identifier = ServerTrim(Trim(d.identifier))
        /\ new.optional = ServerOptional(optional)
        /\ new.factor = PackFactor(d.factor) /\ new.active = stored.active
    BY DEF Row, Columns, Parameters, BuildInput
  <1>2. /\ local.identifier \in Texts /\ local.optional \in Texts \cup {Absent}
        /\ stored.optional \in Texts \cup {Absent}
        /\ Absent \notin Texts
    BY DraftsAssumption, AbsentAssumption DEF CatalogRows
  <1>3. ASSUME NEW t \in Texts, t.pad # "blanks"
        PROVE  ServerTrim(Trim(ServerTrim(t))) = ServerTrim(t)
    BY <1>3, Trimming, TrimmedFields
  <1>4. new.identifier = ServerTrim(local.identifier)
    BY <1>1, <1>2, <1>3 DEF SameRecord
  <1>5. SameOptional(local.optional, new.optional)
    <2>1. Trim(Empty) = Empty /\ ServerTrim(Empty) = Empty
      BY EmptyIsText, Trimming DEF Empty
    <2>2. CASE stored.optional = Absent
      <3>1. new.optional = Absent
        BY <1>1, <2>1, <2>2 DEF OptionalParameter, OptionalText, ServerOptional
      <3> QED
        BY <2>2, <3>1 DEF SameRecord, SameOptional
    <2>3. CASE stored.optional # Absent
      <3>1. /\ local.optional # Absent /\ stored.optional = ServerTrim(local.optional)
            /\ stored.optional # Empty
        BY <2>3 DEF SameRecord, SameOptional, ServerOptional
      <3>2. Trim(stored.optional) = stored.optional /\ ServerTrim(stored.optional) = stored.optional
        BY <1>2, <3>1, Trimming, TrimmedFields
      <3>3. new.optional = stored.optional
        BY <1>1, <2>3, <3>1, <3>2 DEF OptionalParameter, OptionalText, ServerOptional
      <3> QED
        BY <3>3 DEF SameRecord
    <2> QED
      BY <2>2, <2>3
  <1>6. SameExactDecimal(local.factor, new.factor)
    <2>1. CASE stored.factor = Absent
      BY <1>1, <2>1 DEF SameRecord, SameExactDecimal, PackFactor
    <2>2. CASE stored.factor # Absent
      <3>1. d.factor \in Decimals
        BY <2>2 DEF PassesForm, PassesFactor, ReadsDecimal, FormDrafts
      <3>2. new.factor # Absent /\ new.factor.value = stored.factor.value
        BY <1>1, <2>2, <3>1, PackedFactor, AbsentAssumption
      <3> QED
        BY <2>2, <3>2 DEF SameRecord, SameExactDecimal
    <2> QED
      BY <2>1, <2>2
  <1> HIDE DEF new
  <1>7. SameRecord(local, new)
    BY <1>1, <1>4, <1>5, <1>6 DEF SameRecord
  <1> QED
    BY <1>7 DEF new

\* What import_catalog stores is what it was given.
LEMMA ImportedIsTheSame ==
    ASSUME NEW local \in LegacyRecords, ~FindImportProblem(local)
    PROVE  SameRecord(local, Row(Columns(Parameters(local)), local.active, 1))
  <1> DEFINE new == Row(Columns(Parameters(local)), local.active, 1)
  <1>1. /\ new.identifier = ServerTrim(local.identifier)
        /\ new.optional = ServerOptional(OptionalParameter(local.optional))
        /\ new.factor = local.factor /\ new.active = local.active
    BY DEF Row, Columns, Parameters
  <1>2. SameOptional(local.optional, new.optional)
    <2>1. ServerTrim(Empty) = Empty
      BY DEF ServerTrim, Empty
    <2> QED
      BY <1>1, <2>1 DEF SameOptional, OptionalParameter, ServerOptional
  <1>3. SameExactDecimal(local.factor, new.factor)
    BY <1>1 DEF SameExactDecimal
  <1> HIDE DEF new
  <1>4. SameRecord(local, new)
    BY <1>1, <1>2, <1>3 DEF SameRecord
  <1> QED
    BY <1>4 DEF new

LEMMA ImportKeeps ==
    ASSUME RecordsInv, NEW local \in LegacyRecords, Import(local)
    PROVE  RecordsInv'
  <1> DEFINE outcome == IF FindImportProblem(local) THEN "PRECHECK"
                        ELSE IF ImportAccepts(local) THEN "STORED" ELSE "REFUSED"
  <1>1. /\ edit \in EditStates /\ statusActive \in BOOLEAN /\ record \in CatalogRows /\ ~Exists
        /\ edit.pc = "closed" /\ UNCHANGED <<statusActive, edit>>
        /\ edit.version <= record.version /\ edit.version \in Nat /\ record.version \in Nat
    BY DEF RecordsInv, RecordsTypeOK, FormsAreOfAKnownVersion, Import, EditStates, CatalogRows
  <1>2. outcome = IF FindImportProblem(local) THEN "PRECHECK" ELSE "STORED"
    BY ImportedIsAccepted
  <1>3. /\ migration' = [outcome |-> outcome,
                         source |-> IF outcome = "STORED" THEN local ELSE EmptyDraft]
        /\ record' = IF outcome = "STORED"
                     THEN Row(Columns(Parameters(local)), local.active, 1) ELSE record
    BY DEF Import
  <1> HIDE DEF outcome
  <1>4. migration'.outcome = outcome /\ outcome \in {"PRECHECK", "STORED"}
    BY <1>2, <1>3
  <1>5. CASE outcome = "PRECHECK"
    <2>1. record' = record
      BY <1>3, <1>5
    <2> QED
      BY <1>1, <1>4, <1>5, <2>1
         DEF RecordsInv, RecordsTypeOK, StoredRowsAreExportable, NothingBeforeTheFirstWrite,
             FormsAreOfAKnownVersion, FactorsStayReadable, UntouchedFormsHoldTheRow,
             ImportsAreOfTheDevice, ImportsMatchTheirSource, Exists
  <1>6. CASE outcome = "STORED"
    <2>1. ~FindImportProblem(local)
      BY <1>2, <1>6
    <2>2. /\ record' = Row(Columns(Parameters(local)), local.active, 1)
          /\ migration'.source = local
      BY <1>3, <1>6
    <2>3. record'.version = 1 /\ local.active \in BOOLEAN
      BY <2>2, DraftsAssumption DEF Row
    <2>4. record' \in CatalogRows /\ FileAccepts(record')
      BY <2>1, <2>2, <2>3, ImportedIsAccepted, AcceptedIsExportable
    <2>5. SameRecord(local, record')
      BY <2>1, <2>2, ImportedIsTheSame
    <2>6. Exists' /\ edit'.version <= record'.version
      BY <1>1, <2>3 DEF Exists
    <2> QED
      BY <1>1, <1>4, <1>6, <2>2, <2>4, <2>5, <2>6
         DEF RecordsInv, RecordsTypeOK, StoredRowsAreExportable, NothingBeforeTheFirstWrite,
             FormsAreOfAKnownVersion, FactorsStayReadable, UntouchedFormsHoldTheRow,
             ImportsAreOfTheDevice, ImportsMatchTheirSource
  <1> QED
    BY <1>4, <1>5, <1>6

LEMMA OthersKeep ==
    ASSUME RecordsInv, SetActive \/ \E input \in Inputs : Colleague(input)
    PROVE  RecordsInv'
  <1>1. /\ record' \in CatalogRows /\ FileAccepts(record') /\ Exists'
        /\ record'.version = record.version + 1 /\ record.version \in Nat
        /\ UNCHANGED <<statusActive, edit>>
        /\ (migration' = migration /\ migration.outcome # "STORED") \/ migration'.outcome = "EDITED"
    BY OthersKeepTheRow
  <1>2. edit \in EditStates /\ edit.version \in Nat /\ edit.version <= record.version
    BY DEF RecordsInv, RecordsTypeOK, FormsAreOfAKnownVersion, EditStates
  <1>3. edit'.version # record'.version /\ edit'.version <= record'.version
    BY <1>1, <1>2
  <1>4. RecordsTypeOK'
    BY <1>1 DEF RecordsInv, RecordsTypeOK
  <1>5. FactorsStayReadable'
    BY <1>1 DEF RecordsInv, FactorsStayReadable
  <1>6. ImportsAreOfTheDevice' /\ ImportsMatchTheirSource'
    BY <1>1 DEF RecordsInv, ImportsMatchTheirSource, ImportsAreOfTheDevice
  <1> QED
    BY <1>1, <1>3, <1>4, <1>5, <1>6
       DEF RecordsInv, StoredRowsAreExportable, NothingBeforeTheFirstWrite,
           FormsAreOfAKnownVersion, UntouchedFormsHoldTheRow

LEMMA SubmitKeeps ==
    ASSUME RecordsInv, SubmitRecord
    PROVE  RecordsInv'
  <1>1. UNCHANGED statusActive
    BY DEF SubmitRecord
  <1>2. CASE /\ UNCHANGED <<record, migration>>
             /\ edit' = Closed \/ \E f \in Failures : edit' = [edit EXCEPT !.failure = f]
    BY <1>1, <1>2, SayingKeeps
  <1>3. CASE /\ edit' = Closed /\ edit.version = record.version
             /\ PassesForm(edit.draft, edit.locale)
             /\ Accepts(Parameters(BuildInput(edit.draft)))
             /\ Store(Columns(Parameters(BuildInput(edit.draft))), record.active, ~edit.touched)
    <2> DEFINE p == Parameters(BuildInput(edit.draft))
    <2>1. /\ edit.draft \in FormDrafts /\ edit.locale \in Locales /\ p \in FormDrafts
          /\ edit.pc # "closed"
      BY <1>3, TheDraftIsTyped, BuiltInput DEF SubmitRecord
    <2>2. record \in CatalogRows /\ record.active \in BOOLEAN /\ statusActive \in BOOLEAN
      BY DEF RecordsInv, RecordsTypeOK, CatalogRows
    <2>3. Accepts(p) /\ Store(Columns(p), record.active, ~edit.touched)
      BY <1>3
    <2>4. /\ record' \in CatalogRows /\ FileAccepts(record') /\ Exists'
          /\ record'.version = record.version + 1 /\ record.version \in Nat
          /\ record' = Row(Columns(p), record.active, record.version + 1)
          /\ migration'.outcome \in {"NONE", "PRECHECK", "REFUSED", "STORED", "EDITED"}
      BY <2>1, <2>2, <2>3, StoreKeepsTheRow
    <2>5. /\ RecordsTypeOK' /\ StoredRowsAreExportable' /\ NothingBeforeTheFirstWrite'
          /\ FormsAreOfAKnownVersion' /\ FactorsStayReadable' /\ UntouchedFormsHoldTheRow'
      BY <1>1, <1>3, <2>2, <2>4, ClosedForm
         DEF RecordsTypeOK, StoredRowsAreExportable, NothingBeforeTheFirstWrite,
             FormsAreOfAKnownVersion, FactorsStayReadable, UntouchedFormsHoldTheRow
    <2>6. CASE migration.outcome = "STORED" /\ ~edit.touched
      <3>1. migration' = migration /\ Exists /\ migration.source \in LegacyRecords
        BY <2>3, <2>6 DEF Store, RecordsInv, ImportsAreOfTheDevice
      <3>2. SameRecord(migration.source, record) \/ (record.version > 1 /\ BlanksInTheSource)
        BY <2>6 DEF RecordsInv, ImportsMatchTheirSource, BlanksInTheSource
      <3>3. record'.version > 1
        BY <2>4, <3>1 DEF Exists
      <3>4. CASE BlanksInTheSource
        BY <2>4, <2>5, <2>6, <3>1, <3>3, <3>4
           DEF RecordsInv, ImportsAreOfTheDevice, ImportsMatchTheirSource, BlanksInTheSource
      <3>5. CASE ~BlanksInTheSource
        <4>1. /\ edit.draft.identifier = record.identifier
              /\ edit.draft.optional = OptionalParameter(record.optional)
              /\ (edit.draft.factor = Absent) <=> (record.factor = Absent)
              /\ record.factor # Absent => edit.draft.factor.value = record.factor.value
          BY <1>3, <2>1, <2>6, <3>1 DEF RecordsInv, UntouchedFormsHoldTheRow
        <4>2. SameRecord(migration.source, record')
          BY <1>3, <2>1, <2>2, <2>4, <3>1, <3>2, <3>5, <4>1, SavingChangesNothing
             DEF BlanksInTheSource
        <4> QED
          BY <2>4, <2>5, <2>6, <3>1, <4>2
             DEF RecordsInv, ImportsAreOfTheDevice, ImportsMatchTheirSource
      <3> QED
        BY <3>4, <3>5
    <2>7. CASE ~(migration.outcome = "STORED" /\ ~edit.touched)
      <3>1. migration'.outcome \notin {"STORED", "REFUSED"}
        BY <2>3, <2>7 DEF Store, NoMigration, RecordsInv, ImportsMatchTheirSource
      <3> QED
        BY <2>5, <3>1 DEF RecordsInv, ImportsAreOfTheDevice, ImportsMatchTheirSource
    <2> QED
      BY <2>6, <2>7
  <1> QED
    BY <1>2, <1>3, SubmitWritesOrNot

LEMMA RecordsStep == RecordsInv /\ [RecordsNext]_recordVars => RecordsInv'
  <1> SUFFICES ASSUME RecordsInv, [RecordsNext]_recordVars PROVE RecordsInv'
    OBVIOUS
  <1>1. CASE UNCHANGED recordVars
    BY <1>1 DEF recordVars, RecordsInv, RecordsTypeOK, StoredRowsAreExportable,
                NothingBeforeTheFirstWrite, FormsAreOfAKnownVersion, FactorsStayReadable,
                UntouchedFormsHoldTheRow, ImportsAreOfTheDevice, ImportsMatchTheirSource, Exists
  <1>2. CASE CloseForm
    BY <1>2, SayingKeeps DEF CloseForm
  <1>3. CASE SetStatusActive
    <2>1. /\ UNCHANGED <<record, edit, migration>> /\ statusActive' \in BOOLEAN
      BY <1>3 DEF SetStatusActive
    <2> QED
      BY <2>1, FormStep DEF RecordsInv, RecordsTypeOK, FormsAreOfAKnownVersion,
         FactorsStayReadable, UntouchedFormsHoldTheRow, Exists
  <1> QED
    BY <1>1, <1>2, <1>3, OpenKeeps, TypeKeeps, SwitchLocaleKeeps, ReloadKeeps, ReloadedKeeps,
       SubmitKeeps, OthersKeep, ImportKeeps DEF RecordsNext

\* The record, the form and the import have their types, and everything the
\* other theorems need, whatever is typed, sent and imported.
THEOREM RecordsAreSound == RecordsSpec => []RecordsInv
  <1> QED
    BY RecordsInit_Inv, RecordsStep, PTL DEF RecordsSpec

\* No row that a form, a direct call of the functions or the import stored is
\* refused by the reader of the company's file, which would make every export
\* fail.
THEOREM RowsCanBeExported == RecordsSpec => []StoredRowsAreExportable
  <1>1. RecordsInv => StoredRowsAreExportable
    BY DEF RecordsInv
  <1> QED
    BY <1>1, RecordsAreSound, PTL

\* A pack factor means the same number in whatever language its form is saved.
THEOREM FactorsKeepTheirMeaning == RecordsSpec => []FactorsStayReadable
  <1>1. RecordsInv => FactorsStayReadable
    BY DEF RecordsInv
  <1> QED
    BY <1>1, RecordsAreSound, PTL

\* The client's check lets nothing through that import_catalog refuses, and the
\* field-by-field proof recognises what was imported.
THEOREM ImportsAreRecognised == RecordsSpec => []ImportsMatchTheirSource
  <1>1. RecordsInv => ImportsMatchTheirSource
    BY DEF RecordsInv
  <1> QED
    BY <1>1, RecordsAreSound, PTL

-----------------------------------------------------------------------------
(* What the forms say.                                                     *)

LEMMA OnlyTheServerCallsItInvalid ==
    ASSUME RecordsInv, RecordsNext, edit'.failure = "RECORD_INVALID",
           edit.failure # "RECORD_INVALID"
    PROVE  /\ SubmitRecord /\ PassesForm(edit.draft, edit.locale)
           /\ Verdict(Parameters(BuildInput(edit.draft)), edit.version) = "RECORD_INVALID"
  <1>1. edit \in EditStates
    BY DEF RecordsInv, RecordsTypeOK
  <1>2. SubmitRecord
    <2>1. \A locale : ~Open(locale) /\ ~SwitchLocale(locale)
      BY ZenonT(40), <1>1 DEF Open, SwitchLocale, Closed, EditStates
    <2>2. \A draft : ~Type(draft)
      BY <1>1 DEF Type, EditStates
    <2>3. ~ReadStored /\ ~CloseForm
      <3>1. ASSUME ReadStored PROVE FALSE
        <4>1. edit'.failure = edit.failure
          BY <1>1, <3>1 DEF ReadStored, EditStates
        <4> QED
          BY <4>1
      <3>2. ASSUME CloseForm PROVE FALSE
        BY <3>2 DEF CloseForm, Closed
      <3> QED
        BY <3>1, <3>2
    <2>4. ~StoredRead
      <3>1. ASSUME NEW draft, edit' = [edit EXCEPT !.pc = "open", !.draft = draft,
                     !.failure = "NONE", !.version = record.version, !.reloadLocale = "tr",
                     !.touched = FALSE, !.meant = ReadAs(draft.factor, edit.locale)]
            PROVE  FALSE
        BY <1>1, <3>1 DEF EditStates
      <3>2. ASSUME edit' = [edit EXCEPT !.pc = "open", !.failure = "RELOAD_FAILED",
                                        !.reloadLocale = "tr"]
            PROVE  FALSE
        BY <1>1, <3>2 DEF EditStates
      <3> QED
        BY <3>1, <3>2 DEF StoredRead
    <2>5. ~SetActive /\ ~SetStatusActive /\ \A x : ~Colleague(x) /\ ~Import(x)
      BY DEF SetActive, SetStatusActive, Colleague, Import
    <2> QED
      BY <2>1, <2>2, <2>3, <2>4, <2>5 DEF RecordsNext
  <1> DEFINE failed == IF ~PassesForm(edit.draft, edit.locale) THEN "TYPED"
                       ELSE Verdict(Parameters(BuildInput(edit.draft)), edit.version)
  <1>3. \/ edit' = Closed \/ edit' = [edit EXCEPT !.failure = "TYPED"]
        \/ edit' = [edit EXCEPT !.failure = failed]
    BY <1>2 DEF SubmitRecord
  <1> HIDE DEF failed
  <1>4. failed = "RECORD_INVALID"
    BY <1>1, <1>3 DEF Closed, EditStates
  <1> QED
    BY <1>2, <1>4 DEF failed

\* What a form lets through, the server refuses only for a text that is too
\* long, a sort order out of range or a status that is no longer active.
THEOREM TheFormSaysFirst == RecordsSpec => FormsSayFirst
  <1>1. RecordsInv /\ [RecordsNext]_recordVars =>
          [(edit'.failure = "RECORD_INVALID" /\ edit.failure # "RECORD_INVALID") =>
              \/ TooLong(Trim(edit.draft.identifier))
              \/ TooLong(Trim(edit.draft.optional))
              \/ edit.draft.order = "outOfRange"
              \/ edit.draft.status = Status /\ ~statusActive]_recordVars
    <2> SUFFICES ASSUME RecordsInv, RecordsNext, edit'.failure = "RECORD_INVALID",
                        edit.failure # "RECORD_INVALID",
                        ~TooLong(Trim(edit.draft.identifier)),
                        ~TooLong(Trim(edit.draft.optional)), edit.draft.order # "outOfRange"
                 PROVE  edit.draft.status = Status /\ ~statusActive
      BY DEF recordVars
    <2> DEFINE d == edit.draft
               p == Parameters(BuildInput(d))
    <2>1. /\ PassesForm(d, edit.locale) /\ Verdict(p, edit.version) = "RECORD_INVALID"
          /\ d \in FormDrafts /\ edit.locale \in Locales
      BY OnlyTheServerCallsItInvalid, TheDraftIsTyped
    <2>2. /\ CanonicalPositive(p.factor) /\ IdentifierHolds(ServerTrim(Trim(d.identifier)))
          /\ OptionalHolds(ServerOptional(OptionalParameter(OptionalText(d.optional))))
      BY <2>1, BuiltInput
    <2>3. d.order = "inRange"
      BY <2>1 DEF PassesForm
    <2>4. Accepts(p)
      BY <2>2, <2>3 DEF Accepts, ConstraintsHold, Columns, Parameters, BuildInput
    <2>5. ~Assignable(p.status, IF edit.version = 0 THEN Absent ELSE record.status)
      BY <2>1, <2>4 DEF Verdict
    <2>6. p.status = d.status /\ d.status \in {Absent, Status}
      BY <2>1 DEF Parameters, BuildInput, FormDrafts
    <2> QED
      BY <2>5, <2>6 DEF Assignable
  <1> QED
    BY <1>1, RecordsAreSound, PTL DEF RecordsSpec, FormsSayFirst
=============================================================================
