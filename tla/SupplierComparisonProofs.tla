---------------------- MODULE SupplierComparisonProofs ----------------------
(***************************************************************************)
(* The comparison of suppliers, for any projects, currencies, rates and    *)
(* precision: no assertion of the engines fails, settling keeps the sign   *)
(* and nearly the size of every cost, leaving a cost out moves only the    *)
(* total, and the order the costs were entered in changes nothing.         *)
(*                                                                         *)
(* In this order: sums and orders; minor units handed out by the largest   *)
(* remainder; a supplier's costs, their settlement, and their allocation   *)
(* to the lines; the comparison and its invariant; costs in another order. *)
(***************************************************************************)
EXTENDS SupplierComparison, FiniteSetTheorems, FunctionTheorems, WellFoundedInduction, TLAPS

-----------------------------------------------------------------------------
(* Numbers and finite sets.                                                *)

\* Among some numbers one is the least.
LEMMA LeastNumber ==
    ASSUME NEW T \in SUBSET Nat, T # {}
    PROVE  \E n \in T : \A m \in T : n <= m
<1>. DEFINE R == OpToRel(<, Nat)
<1>1. IsWellFoundedOn(R, Nat)
  BY NatLessThanWellFounded
<1>. HIDE DEF R
<1>2. PICK n \in T : \A m \in T : ~(<<m, n>> \in R)
  BY <1>1, WFMin
<1>3. \A m \in T : ~(m < n)
  BY <1>2 DEF R, OpToRel
<1>. QED
  BY <1>3

\* A set of numbers that has 0 and, with a number, the next one has them all.
LEMMA Counting ==
    ASSUME NEW P, 0 \in P, \A k \in Nat : k \in P => k + 1 \in P
    PROVE  \A k \in Nat : k \in P
<1>. DEFINE T == Nat \ P
<1>. SUFFICES ASSUME T # {} PROVE FALSE
  OBVIOUS
<1>1. PICK n \in T : \A m \in T : n <= m
  <2>1. T \in SUBSET Nat
    OBVIOUS
  <2>. HIDE DEF T
  <2>. QED
    BY <2>1, LeastNumber
<1>2. n # 0 /\ n - 1 \in Nat /\ n - 1 \notin T /\ (n - 1) + 1 = n
  BY <1>1
<1>. QED
  BY <1>1, <1>2

\* Parts of a finite set that can be built up element by element.
LEMMA Gathering ==
    ASSUME NEW S, IsFiniteSet(S), NEW P, {} \in P,
           \A s \in P : \A x \in S : s \subseteq S /\ x \notin s => s \cup {x} \in P
    PROVE  S \in P
<1>. DEFINE K == {k \in Nat : \E s \in P : s \subseteq S /\ Cardinality(s) = k}
            T == {n \in Nat : \E k \in K : n = Cardinality(S) - k}
<1>1. Cardinality(S) \in Nat
  BY FS_CardinalityType
<1>2. 0 \in K /\ \A k \in K : k <= Cardinality(S)
  BY FS_EmptySet, FS_Subset
<1>3. T \in SUBSET Nat /\ T # {}
  BY <1>1, <1>2
<1>4. PICK n \in T : \A m \in T : n <= m
  <2>. HIDE DEF T
  <2>. QED
    BY <1>3, LeastNumber
<1>5. PICK k \in K : n = Cardinality(S) - k
  BY <1>4
<1>6. PICK s \in P : s \subseteq S /\ Cardinality(s) = k
  BY <1>5
<1>7. CASE s = S
  BY <1>6, <1>7
<1>8. CASE s # S
  <2>1. PICK x \in S : x \notin s
    BY <1>6, <1>8
  <2>2. IsFiniteSet(s)
    BY <1>6, FS_Subset
  <2>3. s \cup {x} \in P /\ s \cup {x} \subseteq S /\ Cardinality(s \cup {x}) = k + 1
    BY <1>6, <2>1, <2>2, FS_AddElement
  <2>4. k + 1 \in K
    BY <2>3, <1>5
  <2>5. n - 1 = Cardinality(S) - (k + 1) /\ k + 1 <= Cardinality(S)
    BY <1>1, <1>2, <1>5, <2>4
  <2>6. n - 1 \in T
    BY <1>1, <2>4, <2>5
  <2>. QED
    BY <1>4, <2>6
<1>. QED
  BY <1>7, <1>8

\* A value is built over a finite set by taking its members off one by one.
Picks(pick, S) == \A t \in SUBSET S : t # {} => pick[t] \in t
StepsWithin(step, S, V) == \A v \in V : \A x \in S : step[<<v, x>>] \in V
Folds(it, base, pick, step, S) ==
    it = [t \in SUBSET S |-> IF t = {} THEN base ELSE step[<<it[t \ {pick[t]}], pick[t]>>]]

\* Such a value exists, and stays within any set its steps do not leave.
LEMMA Folding ==
    ASSUME NEW S, IsFiniteSet(S), NEW V, NEW base, base \in V,
           NEW pick, Picks(pick, S), NEW step, StepsWithin(step, S, V)
    PROVE  \E it \in [SUBSET S -> V] : Folds(it, base, pick, step, S)
<1>. DEFINE Rec(g, t) == IF t = {} THEN base ELSE step[<<g[t \ {pick[t]}], pick[t]>>]
            Reaches(g, k) == \A t \in SUBSET S : Cardinality(t) <= k => g[t] = Rec(g, t)
            P == {k \in Nat : \E g \in [SUBSET S -> V] : Reaches(g, k)}
<1>1. \A t \in SUBSET S : /\ Cardinality(t) \in Nat /\ Cardinality(t) <= Cardinality(S)
                          /\ (Cardinality(t) = 0 <=> t = {})
  BY FS_Subset, FS_CardinalityType, FS_EmptySet
<1>2. \A t \in SUBSET S : t # {} => /\ t \ {pick[t]} \in SUBSET S
                                    /\ Cardinality(t \ {pick[t]}) = Cardinality(t) - 1
  BY FS_Subset, FS_RemoveElement DEF Picks
<1>3. \A g \in [SUBSET S -> V] : \A t \in SUBSET S : Rec(g, t) \in V
  BY <1>2 DEF Picks, StepsWithin
<1>4. 0 \in P
  <2>. DEFINE g == [t \in SUBSET S |-> base]
  <2>1. g \in [SUBSET S -> V] /\ \A t \in SUBSET S : Cardinality(t) <= 0 => t = {}
    BY <1>1
  <2>. QED
    BY <2>1
<1>5. ASSUME NEW k \in Nat, k \in P PROVE k + 1 \in P
  <2>1. PICK g \in [SUBSET S -> V] : Reaches(g, k)
    BY <1>5
  <2>. DEFINE h == [t \in SUBSET S |-> IF Cardinality(t) <= k THEN g[t] ELSE Rec(g, t)]
  <2>2. h \in [SUBSET S -> V]
    <3>. HIDE DEF Rec
    <3>. QED
      BY <1>3
  <2>3. ASSUME NEW t \in SUBSET S, Cardinality(t) <= k + 1 PROVE h[t] = Rec(h, t)
    <3>1. h[t] = Rec(g, t)
      <4>1. h[t] = IF Cardinality(t) <= k THEN g[t] ELSE Rec(g, t)
        OBVIOUS
      <4>2. Cardinality(t) <= k => g[t] = Rec(g, t)
        BY <2>1
      <4>. QED
        BY <4>1, <4>2
    <3>2. CASE t = {}
      BY SMTT(30), <3>1, <3>2
    <3>3. CASE t # {}
      <4>. PICK u : u = t \ {pick[t]}
        OBVIOUS
      <4>1. u \in SUBSET S /\ Cardinality(u) <= k
        BY <1>1, <1>2, <2>3, <3>3
      <4>2. h[u] = g[u]
        <5>. HIDE DEF Rec
        <5>. QED
          BY <4>1
      <4>3. Rec(h, t) = step[<<h[u], pick[t]>>] /\ Rec(g, t) = step[<<g[u], pick[t]>>]
        BY <3>3
      <4>. QED
        BY <3>1, <4>2, <4>3
    <3>. QED
      BY <3>2, <3>3
  <2>. HIDE DEF Rec, h
  <2>4. Reaches(h, k + 1)
    BY <2>3
  <2>. HIDE DEF Reaches
  <2>. QED
    BY <2>2, <2>4
<1>6. Cardinality(S) \in P
  <2>1. Cardinality(S) \in Nat
    BY FS_CardinalityType
  <2>. HIDE DEF P
  <2>. QED
    BY <1>4, <1>5, <2>1, Counting
<1>7. PICK g \in [SUBSET S -> V] : \A t \in SUBSET S : g[t] = Rec(g, t)
  BY <1>1, <1>6
<1>8. g = [t \in SUBSET S |-> Rec(g, t)]
  <2>. HIDE DEF Rec
  <2>. QED
    BY <1>7
<1>. QED
  BY <1>8 DEF Folds
\* A property of the parts of a finite set that each part has once the parts of
\* it have it.
LEMMA PartByPart ==
    ASSUME NEW S, IsFiniteSet(S), NEW P,
           \A t \in SUBSET S : (\A u \in SUBSET t : u # t => u \in P) => t \in P
    PROVE  \A t \in SUBSET S : t \in P
<1>. DEFINE K == {k \in Nat : \A t \in SUBSET S : Cardinality(t) <= k => t \in P}
<1>1. \A t \in SUBSET S : /\ IsFiniteSet(t) /\ Cardinality(t) \in Nat
                          /\ Cardinality(t) <= Cardinality(S)
                          /\ (Cardinality(t) = 0 <=> t = {})
  BY FS_Subset, FS_CardinalityType, FS_EmptySet
<1>2. \A t \in SUBSET S : \A u \in SUBSET t : u # t => Cardinality(u) < Cardinality(t)
  <2>. TAKE t \in SUBSET S
  <2>. TAKE u \in SUBSET t
  <2>1. IsFiniteSet(t) /\ Cardinality(u) \in Nat /\ Cardinality(t) \in Nat
    BY <1>1
  <2>. QED
    BY <2>1, FS_Subset
<1>3. 0 \in K
  BY <1>1
<1>4. ASSUME NEW k \in Nat, k \in K PROVE k + 1 \in K
  <2>1. ASSUME NEW t \in SUBSET S, Cardinality(t) <= k + 1 PROVE t \in P
    <3>1. \A u \in SUBSET t : u # t => u \in SUBSET S /\ Cardinality(u) <= k
      BY <1>1, <1>2, <2>1
    <3>. QED
      BY <1>4, <3>1
  <2>. QED
    BY <2>1
<1>5. Cardinality(S) \in K
  <2>1. Cardinality(S) \in Nat
    BY FS_CardinalityType
  <2>. HIDE DEF K
  <2>. QED
    BY <1>3, <1>4, <2>1, Counting
<1>. QED
  BY <1>1, <1>5

-----------------------------------------------------------------------------
(* Sums.                                                                   *)

\* The sum of f over S; Total is the sum over a whole domain.
SumOn(f, S) == SumFunctionOnSet(f, S)

\* A table of the sums over the subsets of S, each with one member taken off.
AddsUp(it, f, S) ==
    it = [t \in SUBSET S |-> IF t = {} THEN 0
                             ELSE LET x == CHOOSE x \in t : TRUE IN f[x] + it[t \ {x}]]

\* Numbers that can be summed over S.
Whole(f, S) == IsFiniteSet(S) /\ \A x \in S : f[x] \in Int

\* The total of a function is its sum over everything it is defined on.
LEMMA TotalIsSum == \A f : Total(f) = SumOn(f, DOMAIN f)
  BY DEF Total, FoldFunction, SumOn, SumFunctionOnSet

\* There is one sum only, whatever it is of beyond its set.
LEMMA SumsAreUnique ==
    ASSUME NEW f, NEW S, IsFiniteSet(S), NEW T \in SUBSET S, NEW g, NEW h,
           AddsUp(g, f, S), AddsUp(h, f, T)
    PROVE  g[T] = h[T]
<1>. DEFINE P == {t \in SUBSET T : g[t] = h[t]}
<1>1. ASSUME NEW t \in SUBSET T, \A u \in SUBSET t : u # t => u \in P PROVE t \in P
  <2>1. CASE t = {}
    BY <2>1 DEF AddsUp
  <2>2. CASE t # {}
    <3>. PICK x : x = CHOOSE y \in t : TRUE
      OBVIOUS
    <3>1. x \in t /\ t \in SUBSET S
      BY <2>2
    <3>2. g[t] = f[x] + g[t \ {x}] /\ h[t] = f[x] + h[t \ {x}]
      BY <2>2, <3>1 DEF AddsUp
    <3>3. g[t \ {x}] = h[t \ {x}]
      BY <1>1, <3>1
    <3>. QED
      BY <3>2, <3>3
  <2>. QED
    BY <2>1, <2>2
<1>2. IsFiniteSet(T)
  BY FS_Subset
<1>. HIDE DEF P
<1>3. \A t \in SUBSET T : t \in P
  BY <1>1, <1>2, PartByPart
<1>. QED
  BY <1>3 DEF P

\* Numbers over a finite set have such a table.
LEMMA SumsExist ==
    ASSUME NEW f, NEW S, Whole(f, S)
    PROVE  \E it \in [SUBSET S -> Int] : AddsUp(it, f, S)
<1>. DEFINE pick == [t \in SUBSET S |-> CHOOSE x \in t : TRUE]
            step == [p \in Int \X S |-> f[p[2]] + p[1]]
<1>1. Picks(pick, S)
  BY DEF Picks
<1>2. \A v \in Int : \A x \in S : step[<<v, x>>] = f[x] + v /\ step[<<v, x>>] \in Int
  BY DEF Whole
<1>3. IsFiniteSet(S) /\ 0 \in Int /\ StepsWithin(step, S, Int)
  BY <1>2 DEF Whole, StepsWithin
<1>4. \A t \in SUBSET S : pick[t] = CHOOSE x \in t : TRUE
  OBVIOUS
<1>. HIDE DEF pick, step
<1>5. PICK it \in [SUBSET S -> Int] : Folds(it, 0, pick, step, S)
  BY <1>1, <1>2, <1>3, Folding
<1>6. ASSUME NEW t \in SUBSET S, t # {}
      PROVE  it[t] = LET x == CHOOSE x \in t : TRUE IN f[x] + it[t \ {x}]
  <2>. PICK x : x = CHOOSE y \in t : TRUE
    OBVIOUS
  <2>1. x \in t /\ x = pick[t] /\ t \ {x} \in SUBSET S
    BY <1>1, <1>4, <1>6 DEF Picks
  <2>2. it[t] = step[<<it[t \ {x}], x>>]
    BY <1>5, <1>6, <2>1 DEF Folds
  <2>3. it[t] = f[x] + it[t \ {x}]
    BY <1>2, <2>1, <2>2
  <2>. QED
    BY <2>3
<1>7. it[{}] = 0
  BY <1>5 DEF Folds
<1>. DEFINE Rec(t) == IF t = {} THEN 0 ELSE LET x == CHOOSE x \in t : TRUE IN f[x] + it[t \ {x}]
<1>8. \A t \in SUBSET S : it[t] = Rec(t)
  BY <1>6, <1>7
<1>9. it = [t \in SUBSET S |-> Rec(t)]
  <2>. HIDE DEF Rec
  <2>. QED
    BY <1>8
<1>. QED
  BY <1>9 DEF AddsUp

\* The sum the model takes is the one in the table.
LEMMA SumIsFold ==
    ASSUME NEW f, NEW S, Whole(f, S), NEW it, AddsUp(it, f, S)
    PROVE  SumOn(f, S) = it[S]
<1>. DEFINE c == CHOOSE g : AddsUp(g, f, S)
<1>1. AddsUp(c, f, S)
  OBVIOUS
<1>2. SumOn(f, S) = c[S]
  BY DEF SumOn, SumFunctionOnSet, FoldFunctionOnSet, MapThenFoldSet, AddsUp
<1>. HIDE DEF c
<1>3. IsFiniteSet(S) /\ S \in SUBSET S
  BY DEF Whole
<1>4. c[S] = it[S]
  BY <1>1, <1>3, SumsAreUnique
<1>. QED
  BY <1>2, <1>4

\* A part of a sum is the sum of a part.
LEMMA SumOfPart ==
    ASSUME NEW f, NEW S, Whole(f, S), NEW it, AddsUp(it, f, S), NEW T \in SUBSET S
    PROVE  Whole(f, T) /\ SumOn(f, T) = it[T]
<1>1. Whole(f, T)
  BY FS_Subset DEF Whole
<1>2. PICK g : AddsUp(g, f, T)
  BY <1>1, SumsExist
<1>3. IsFiniteSet(S)
  BY DEF Whole
<1>4. it[T] = g[T]
  BY <1>2, <1>3, SumsAreUnique
<1>5. SumOn(f, T) = g[T]
  BY <1>1, <1>2, SumIsFold
<1>. QED
  BY <1>1, <1>4, <1>5

\* The sum over nothing.
LEMMA SumOfNothing == \A f : SumOn(f, {}) = 0
<1>. TAKE f
<1>1. Whole(f, {})
  BY FS_EmptySet DEF Whole
<1>2. PICK it : AddsUp(it, f, {})
  BY <1>1, SumsExist
<1>3. it[{}] = 0
  BY <1>2 DEF AddsUp
<1>. QED
  BY <1>1, <1>2, <1>3, SumIsFold

\* Any member may be taken off first.
LEMMA SumTakeOff ==
    ASSUME NEW f, NEW S, Whole(f, S)
    PROVE  /\ SumOn(f, S) \in Int
           /\ \A x \in S : SumOn(f, S) = f[x] + SumOn(f, S \ {x})
<1>1. PICK it \in [SUBSET S -> Int] : AddsUp(it, f, S)
  BY SumsExist
<1>. DEFINE P == {t \in SUBSET S : \A x \in t : it[t] = f[x] + it[t \ {x}]}
<1>2. ASSUME NEW t \in SUBSET S, \A u \in SUBSET t : u # t => u \in P PROVE t \in P
  <2>. SUFFICES ASSUME NEW x \in t PROVE it[t] = f[x] + it[t \ {x}]
    OBVIOUS
  <2>. PICK y : y = CHOOSE z \in t : TRUE
    OBVIOUS
  <2>1. y \in t /\ it[t] = f[y] + it[t \ {y}]
    BY <1>1 DEF AddsUp
  <2>2. CASE x = y
    BY <2>1, <2>2
  <2>3. CASE x # y
    <3>. PICK tx : tx = t \ {x}
      OBVIOUS
    <3>. PICK ty : ty = t \ {y}
      OBVIOUS
    <3>. PICK txy : txy = t \ {x, y}
      OBVIOUS
    <3>1. tx \in P /\ ty \in P /\ y \in tx /\ x \in ty /\ tx \ {y} = txy /\ ty \ {x} = txy
      BY <1>2, <2>1, <2>3
    <3>2. it[tx] = f[y] + it[txy] /\ it[ty] = f[x] + it[txy]
      BY <3>1
    <3>3. f[x] \in Int /\ f[y] \in Int /\ it[txy] \in Int
      BY <2>1 DEF Whole
    <3>. QED
      BY <2>1, <3>2, <3>3
  <2>. QED
    BY <2>2, <2>3
<1>3. S \in P
  <2>1. IsFiniteSet(S) /\ S \in SUBSET S
    BY DEF Whole
  <2>. HIDE DEF P
  <2>. QED
    BY <1>2, <2>1, PartByPart
<1>4. SumOn(f, S) = it[S] /\ \A x \in S : SumOn(f, S \ {x}) = it[S \ {x}]
  BY <1>1, SumOfPart
<1>. QED
  BY <1>3, <1>4

\* What can be summed over a set can be summed over a part of it.
LEMMA WholePart ==
    ASSUME NEW f, NEW S, Whole(f, S), NEW T \in SUBSET S
    PROVE  Whole(f, T)
  BY FS_Subset DEF Whole

\* One more member adds its number.
LEMMA SumPutOn ==
    ASSUME NEW f, NEW S, Whole(f, S), NEW s \in SUBSET S, NEW x \in S, x \notin s
    PROVE  /\ SumOn(f, s \cup {x}) = f[x] + SumOn(f, s)
           /\ f[x] \in Int /\ SumOn(f, s) \in Int
<1>1. s \cup {x} \in SUBSET S /\ (s \cup {x}) \ {x} = s /\ x \in s \cup {x}
  OBVIOUS
<1>2. Whole(f, s) /\ Whole(f, s \cup {x})
  BY <1>1, WholePart
<1>. PICK t : t = s \cup {x}
  OBVIOUS
<1>3. SumOn(f, t) = f[x] + SumOn(f, t \ {x})
  BY <1>1, <1>2, SumTakeOff
<1>4. SumOn(f, s) \in Int
  BY <1>2, SumTakeOff
<1>. QED
  BY <1>1, <1>3, <1>4 DEF Whole

\* Equal numbers have equal sums.
LEMMA SumSame ==
    ASSUME NEW f, NEW g, NEW S, Whole(f, S), \A x \in S : f[x] = g[x]
    PROVE  Whole(g, S) /\ SumOn(f, S) = SumOn(g, S)
<1>. DEFINE P == {s \in SUBSET S : SumOn(f, s) = SumOn(g, s)}
<1>1. Whole(g, S) /\ IsFiniteSet(S)
  BY DEF Whole
<1>2. {} \in P
  BY SumOfNothing
<1>3. \A s \in P : \A x \in S : s \subseteq S /\ x \notin s => s \cup {x} \in P
  <2>. SUFFICES ASSUME NEW s \in P, NEW x \in S, x \notin s PROVE s \cup {x} \in P
    OBVIOUS
  <2>1. SumOn(f, s \cup {x}) = f[x] + SumOn(f, s) /\ SumOn(g, s \cup {x}) = g[x] + SumOn(g, s)
    BY <1>1, SumPutOn
  <2>. QED
    BY <2>1
<1>. HIDE DEF P
<1>4. S \in P
  BY <1>1, <1>2, <1>3, Gathering
<1>. QED
  BY <1>1, <1>4 DEF P

\* Numbers that are all the same, a multiple of others, or the sums of others.
Alike(f, c, S) == \A x \in S : f[x] = c
IsTimes(h, c, f, S) == \A x \in S : h[x] = c * f[x]
IsPlus(h, f, g, S) == \A x \in S : h[x] = f[x] + g[x]

\* The sum of sums.
LEMMA SumPlus ==
    ASSUME NEW f, NEW g, NEW h, NEW S, Whole(f, S), Whole(g, S), IsPlus(h, f, g, S)
    PROVE  /\ Whole(h, S) /\ SumOn(h, S) = SumOn(f, S) + SumOn(g, S)
<1>. DEFINE P == {s \in SUBSET S : SumOn(h, s) = SumOn(f, s) + SumOn(g, s)}
<1>1. Whole(h, S) /\ IsFiniteSet(S)
  BY DEF Whole, IsPlus
<1>2. {} \in P
  BY SumOfNothing
<1>3. \A s \in P : \A x \in S : s \subseteq S /\ x \notin s => s \cup {x} \in P
  <2>. SUFFICES ASSUME NEW s \in P, NEW x \in S, x \notin s PROVE s \cup {x} \in P
    OBVIOUS
  <2>1. /\ SumOn(f, s \cup {x}) = f[x] + SumOn(f, s) /\ SumOn(f, s) \in Int /\ f[x] \in Int
        /\ SumOn(g, s \cup {x}) = g[x] + SumOn(g, s) /\ SumOn(g, s) \in Int /\ g[x] \in Int
        /\ SumOn(h, s \cup {x}) = h[x] + SumOn(h, s) /\ SumOn(h, s) \in Int /\ h[x] \in Int
    BY <1>1, SumPutOn
  <2>. QED
    BY <2>1 DEF IsPlus
<1>. HIDE DEF P
<1>4. S \in P
  BY <1>1, <1>2, <1>3, Gathering
<1>. QED
  BY <1>1, <1>4 DEF P

\* What the SMT solver needs told of a product over a sum.
LEMMA Distributes ==
    ASSUME NEW c \in Int, NEW a \in Int, NEW b \in Int
    PROVE  c * (a + b) = c * a + c * b /\ c * a \in Int /\ c * b \in Int
  OBVIOUS

\* The sum of multiples.
LEMMA SumTimes ==
    ASSUME NEW f, NEW h, NEW S, NEW c \in Int, Whole(f, S), IsTimes(h, c, f, S)
    PROVE  Whole(h, S) /\ SumOn(h, S) = c * SumOn(f, S)
<1>. DEFINE P == {s \in SUBSET S : SumOn(h, s) = c * SumOn(f, s)}
<1>1. Whole(h, S) /\ IsFiniteSet(S)
  BY DEF Whole, IsTimes
<1>2. {} \in P
  BY SumOfNothing
<1>3. \A s \in P : \A x \in S : s \subseteq S /\ x \notin s => s \cup {x} \in P
  <2>. SUFFICES ASSUME NEW s \in P, NEW x \in S, x \notin s PROVE s \cup {x} \in P
    OBVIOUS
  <2>1. SumOn(f, s \cup {x}) = f[x] + SumOn(f, s) /\ SumOn(f, s) \in Int /\ f[x] \in Int
    BY <1>1, SumPutOn
  <2>2. SumOn(h, s \cup {x}) = h[x] + SumOn(h, s) /\ SumOn(h, s) \in Int /\ h[x] \in Int
    BY <1>1, SumPutOn
  <2>3. /\ SumOn(f, s \cup {x}) = f[x] + SumOn(f, s) /\ SumOn(f, s) \in Int /\ f[x] \in Int
        /\ SumOn(h, s \cup {x}) = h[x] + SumOn(h, s) /\ SumOn(h, s) \in Int /\ h[x] \in Int
    BY <2>1, <2>2
  <2>4. SumOn(h, s) = c * SumOn(f, s) /\ h[x] = c * f[x]
    BY DEF IsTimes
  <2>5. c * (f[x] + SumOn(f, s)) = c * f[x] + c * SumOn(f, s)
    BY <2>3, Distributes
  <2>6. SumOn(h, s \cup {x}) = c * SumOn(f, s \cup {x})
    BY <2>3, <2>4, <2>5
  <2>. QED
    BY <2>6
<1>. HIDE DEF P
<1>4. S \in P
  BY <1>1, <1>2, <1>3, Gathering
<1>. QED
  BY <1>1, <1>4 DEF P

\* Numbers none of which is larger have no larger sum.
LEMMA SumAtMost ==
    ASSUME NEW f, NEW g, NEW S, Whole(f, S), Whole(g, S), \A x \in S : f[x] <= g[x]
    PROVE  SumOn(f, S) <= SumOn(g, S)
<1>. DEFINE P == {s \in SUBSET S : SumOn(f, s) <= SumOn(g, s)}
<1>1. IsFiniteSet(S)
  BY DEF Whole
<1>2. {} \in P
  BY SumOfNothing
<1>3. \A s \in P : \A x \in S : s \subseteq S /\ x \notin s => s \cup {x} \in P
  <2>. SUFFICES ASSUME NEW s \in P, NEW x \in S, x \notin s PROVE s \cup {x} \in P
    OBVIOUS
  <2>1. /\ SumOn(f, s \cup {x}) = f[x] + SumOn(f, s) /\ SumOn(f, s) \in Int /\ f[x] \in Int
        /\ SumOn(g, s \cup {x}) = g[x] + SumOn(g, s) /\ SumOn(g, s) \in Int /\ g[x] \in Int
    BY SumPutOn
  <2>. QED
    BY <2>1
<1>. HIDE DEF P
<1>4. S \in P
  BY <1>1, <1>2, <1>3, Gathering
<1>. QED
  BY <1>4 DEF P

\* The same number for each member.
LEMMA SumOfConstant ==
    ASSUME NEW f, NEW S, NEW c \in Int, IsFiniteSet(S), Alike(f, c, S)
    PROVE  Whole(f, S) /\ SumOn(f, S) = c * Cardinality(S)
<1>. DEFINE P == {s \in SUBSET S : SumOn(f, s) = c * Cardinality(s)}
<1>1. Whole(f, S)
  BY DEF Whole, Alike
<1>2. {} \in P
  BY SumOfNothing, FS_EmptySet
<1>3. \A s \in P : \A x \in S : s \subseteq S /\ x \notin s => s \cup {x} \in P
  <2>. SUFFICES ASSUME NEW s \in P, NEW x \in S, x \notin s PROVE s \cup {x} \in P
    OBVIOUS
  <2>1. SumOn(f, s \cup {x}) = f[x] + SumOn(f, s)
    BY <1>1, SumPutOn
  <2>2. IsFiniteSet(s)
    BY FS_Subset
  <2>5. Cardinality(s) \in Nat /\ x \notin s
    BY <2>2, FS_CardinalityType
  <2>3. Cardinality(s \cup {x}) = 1 + Cardinality(s) /\ Cardinality(s) \in Nat
    <3>. HIDE DEF P
    <3>1. Cardinality(s \cup {x}) = Cardinality(s) + 1
      BY <2>2, <2>5, FS_AddElement
    <3>. QED
      BY <2>5, <3>1
  <2>4. c * (1 + Cardinality(s)) = c * 1 + c * Cardinality(s) /\ c * 1 = c
    BY <2>3, Distributes
  <2>. QED
    BY <2>1, <2>3, <2>4 DEF Alike
<1>. HIDE DEF P
<1>4. S \in P
  BY <1>2, <1>3, Gathering
<1>. QED
  BY <1>1, <1>4 DEF P

\* The sum of zeros.
LEMMA SumOfZeros ==
    ASSUME NEW f, NEW S, IsFiniteSet(S), \A x \in S : f[x] = 0
    PROVE  Whole(f, S) /\ SumOn(f, S) = 0
<1>. PICK c \in Int : c = 0
  OBVIOUS
<1>2. Whole(f, S) /\ SumOn(f, S) = c * Cardinality(S)
  BY SumOfConstant DEF Alike
<1>1. Cardinality(S) \in Nat
  BY FS_CardinalityType
<1>. QED
  BY <1>1, <1>2

\* Two parts that share nothing.
LEMMA SumOfTwo ==
    ASSUME NEW f, NEW S, NEW A \in SUBSET S, Whole(f, S)
    PROVE  SumOn(f, S) = SumOn(f, A) + SumOn(f, S \ A) /\ SumOn(f, A) \in Int /\ SumOn(f, S \ A) \in Int
<1>. DEFINE B == S \ A
            P == {s \in SUBSET B : SumOn(f, A \cup s) = SumOn(f, A) + SumOn(f, s)}
<1>1. Whole(f, A) /\ Whole(f, B)
  BY WholePart
<1>2. SumOn(f, A) \in Int /\ SumOn(f, B) \in Int
  BY <1>1, SumTakeOff
<1>3. {} \in P
  <2>1. A \cup {} = A
    OBVIOUS
  <2>. QED
    BY <1>2, <2>1, SumOfNothing
<1>4. \A s \in P : \A x \in B : s \subseteq B /\ x \notin s => s \cup {x} \in P
  <2>. SUFFICES ASSUME NEW s \in P, NEW x \in B, x \notin s PROVE s \cup {x} \in P
    OBVIOUS
  <2>0. PICK u : u = A \cup s
    OBVIOUS
  <2>1. u \in SUBSET S /\ x \notin u /\ x \in S /\ A \cup (s \cup {x}) = u \cup {x} /\ s \in SUBSET S
    BY <2>0
  <2>4. SumOn(f, u) = SumOn(f, A) + SumOn(f, s) /\ s \cup {x} \in SUBSET B
    BY <2>0
  <2>5. (SumOn(f, u \cup {x}) = SumOn(f, A) + SumOn(f, s \cup {x})) => s \cup {x} \in P
    BY <2>1, <2>4
  <2>. HIDE DEF P, B
  <2>2. SumOn(f, u \cup {x}) = f[x] + SumOn(f, u) /\ f[x] \in Int /\ SumOn(f, u) \in Int
    BY <2>1, SumPutOn
  <2>6. s \in SUBSET S /\ x \in S /\ x \notin s
    BY <2>1
  <2>3. SumOn(f, s \cup {x}) = f[x] + SumOn(f, s) /\ SumOn(f, s) \in Int
    BY <2>6, SumPutOn
  <2>. QED
    BY <1>2, <2>2, <2>3, <2>4, <2>5
<1>5. IsFiniteSet(B)
  BY <1>1 DEF Whole
<1>. HIDE DEF P
<1>6. B \in P
  BY <1>3, <1>4, <1>5, Gathering
<1>7. A \cup B = S
  OBVIOUS
<1>. QED
  BY <1>2, <1>6, <1>7 DEF P

\* One function's values, under other names.
Renames(f, g, b, S) == \A x \in S : g[b[x]] = f[x]

\* The same numbers under other names add up to the same.
LEMMA SumRenamed ==
    ASSUME NEW f, NEW S, NEW g, NEW T, Whole(f, S), NEW b, b \in Bijection(S, T),
           Renames(f, g, b, S)
    PROVE  Whole(g, T) /\ SumOn(g, T) = SumOn(f, S)
<1>0. b \in Bijection(S, T) /\ \A x \in S : g[b[x]] = f[x]
  BY DEF Renames
<1>. DEFINE I(s) == {b[x] : x \in s}
            P == {s \in SUBSET S : SumOn(g, I(s)) = SumOn(f, s)}
<1>1. b \in [S -> T] /\ (\A x, y \in S : b[x] = b[y] => x = y) /\ I(S) = T
  BY <1>0 DEF Bijection, Injection, Surjection, IsInjective
<1>2. IsFiniteSet(S) /\ IsFiniteSet(T)
  <2>1. ExistsBijection(S, T)
    BY DEF ExistsBijection
  <2>. QED
    BY <2>1, FS_Bijection DEF Whole
<1>3. Whole(g, T)
  BY <1>0, <1>1, <1>2 DEF Whole
<1>4. {} \in P
  <2>1. I({}) = {}
    OBVIOUS
  <2>. QED
    BY <2>1, SumOfNothing
<1>5. \A s \in P : \A x \in S : s \subseteq S /\ x \notin s => s \cup {x} \in P
  <2>. SUFFICES ASSUME NEW s \in P, NEW x \in S, x \notin s PROVE s \cup {x} \in P
    OBVIOUS
  <2>1. SumOn(f, s \cup {x}) = f[x] + SumOn(f, s)
    BY SumPutOn
  <2>2. PICK t : t = I(s)
    OBVIOUS
  <2>3. PICK y : y = b[x]
    OBVIOUS
  <2>4. t \in SUBSET T /\ y \in T /\ y \notin t /\ I(s \cup {x}) = t \cup {y}
    BY <1>1, <2>2, <2>3
  <2>5. SumOn(g, t \cup {y}) = g[y] + SumOn(g, t)
    BY <1>3, <2>4, SumPutOn
  <2>. QED
    BY <1>0, <2>1, <2>2, <2>3, <2>4, <2>5
<1>. HIDE DEF P
<1>6. S \in P
  BY <1>2, <1>4, <1>5, Gathering
<1>. QED
  BY <1>1, <1>3, <1>6 DEF P

-----------------------------------------------------------------------------
(* Orders.                                                                 *)

\* What InOrder arranges: the members of S, by a relation between them.
Arranges(o, S, R) ==
    o = [k \in 1 .. Cardinality(S) |->
            CHOOSE x \in S : Cardinality({y \in S : <<y, x>> \in R}) = k - 1]

\* R puts any two members of S in one order.
StrictlyOrders(R, S) ==
    /\ \A x \in S : <<x, x>> \notin R
    /\ \A x, y, z \in S : <<x, y>> \in R /\ <<y, z>> \in R => <<x, z>> \in R
    /\ \A x, y \in S : x = y \/ <<x, y>> \in R \/ <<y, x>> \in R

\* How many come before each.
Before(S, R) == [x \in S |-> Cardinality({y \in S : <<y, x>> \in R})]

\* In a strict order the number of those before a member is its place, and
\* every place is taken once.
LEMMA Ranks ==
    ASSUME NEW S, IsFiniteSet(S), NEW R, StrictlyOrders(R, S)
    PROVE  /\ Before(S, R) \in [S -> 0 .. Cardinality(S) - 1]
           /\ \A x, y \in S : <<x, y>> \in R <=> Before(S, R)[x] < Before(S, R)[y]
           /\ \A x, y \in S : Before(S, R)[x] = Before(S, R)[y] => x = y
           /\ \A k \in 0 .. Cardinality(S) - 1 : \E x \in S : Before(S, R)[x] = k
<1>. DEFINE below(x) == {y \in S : <<y, x>> \in R}
<1>1. Cardinality(S) \in Nat
  BY FS_CardinalityType
<1>2. \A x \in S : IsFiniteSet(below(x)) /\ Cardinality(below(x)) \in Nat
  BY FS_Subset, FS_CardinalityType
<1>3. ASSUME NEW x \in S, NEW y \in S, <<x, y>> \in R
      PROVE  Cardinality(below(x)) < Cardinality(below(y))
  <2>1. below(x) \in SUBSET below(y) /\ x \in below(y) /\ x \notin below(x)
    BY <1>3 DEF StrictlyOrders
  <2>. PICK a : a = below(x)
    OBVIOUS
  <2>. PICK b : b = below(y)
    OBVIOUS
  <2>2. IsFiniteSet(b) /\ Cardinality(a) \in Nat /\ Cardinality(b) \in Nat
    BY <1>2
  <2>3. Cardinality(a) <= Cardinality(b) /\ (Cardinality(b) = Cardinality(a) => b = a)
    BY <2>1, <2>2, FS_Subset
  <2>4. Cardinality(a) < Cardinality(b)
    BY <2>1, <2>2, <2>3
  <2>. QED
    BY <2>4
<1>4. ASSUME NEW x \in S PROVE Cardinality(below(x)) \in 0 .. Cardinality(S) - 1
  <2>1. below(x) \in SUBSET (S \ {x})
    BY DEF StrictlyOrders
  <2>2. IsFiniteSet(S \ {x}) /\ Cardinality(S \ {x}) = Cardinality(S) - 1
    BY FS_RemoveElement
  <2>. PICK T : T = S \ {x}
    OBVIOUS
  <2>. PICK a : a = below(x)
    OBVIOUS
  <2>3. Cardinality(a) <= Cardinality(T)
    BY <2>1, <2>2, FS_Subset
  <2>4. Cardinality(a) \in Nat /\ Cardinality(T) = Cardinality(S) - 1
    BY <1>2, <2>2
  <2>5. Cardinality(a) \in 0 .. Cardinality(S) - 1
    BY <1>1, <2>3, <2>4
  <2>. QED
    BY <2>5
<1>. PICK r : r = Before(S, R)
  OBVIOUS
<1>5. \A x \in S : r[x] = Cardinality(below(x))
  BY DEF Before
<1>6. r \in [S -> 0 .. Cardinality(S) - 1]
  <2>1. r = [x \in S |-> Cardinality(below(x))]
    BY DEF Before
  <2>. HIDE DEF below
  <2>. QED
    BY <1>4, <2>1
<1>. HIDE DEF below
<1>. PICK n : n = Cardinality(S)
  OBVIOUS
<1>7. \A x, y \in S : <<x, y>> \in R => r[x] < r[y]
  BY <1>3, <1>5
<1>8. \A x, y \in S : r[x] = r[y] => x = y
  <2>. TAKE x, y \in S
  <2>1. r[x] \in Int /\ r[y] \in Int
    BY <1>1, <1>6
  <2>2. x = y \/ <<x, y>> \in R \/ <<y, x>> \in R
    BY DEF StrictlyOrders
  <2>. QED
    BY <1>7, <2>1, <2>2
<1>9. \A x, y \in S : <<x, y>> \in R <=> r[x] < r[y]
  <2>. TAKE x, y \in S
  <2>1. r[x] \in Int /\ r[y] \in Int
    BY <1>1, <1>6
  <2>2. x = y \/ <<x, y>> \in R \/ <<y, x>> \in R
    BY DEF StrictlyOrders
  <2>. QED
    BY <1>7, <2>1, <2>2
<1>10. \A k \in 0 .. n - 1 : \E x \in S : r[x] = k
  <2>. PICK D : D = 0 .. n - 1
    OBVIOUS
  <2>1. IsFiniteSet(D) /\ Cardinality(D) = n
    BY <1>1, FS_Interval
  <2>2. r \in Injection(S, D)
    BY <1>6, <1>8 DEF Injection, IsInjective
  <2>3. r \in Surjection(S, D)
    BY <2>1, <2>2, FS_Injection
  <2>. QED
    BY <2>3 DEF Surjection
<1>. QED
  BY <1>6, <1>8, <1>9, <1>10

\* o has every member of S once, and earlier ones first.
Queues(o, S, R) ==
    /\ Cardinality(S) \in Nat
    /\ o \in Bijection(1 .. Cardinality(S), S)
    /\ o \in [1 .. Cardinality(S) -> S]
    /\ \A i, j \in 1 .. Cardinality(S) : i < j => <<o[i], o[j]>> \in R
    /\ \A i, j \in 1 .. Cardinality(S) : o[i] = o[j] => i = j
    /\ \A x \in S : \E i \in 1 .. Cardinality(S) : o[i] = x
    /\ \A k \in 1 .. Cardinality(S) : Before(S, R)[o[k]] = k - 1

\* A sequence in a strict order has every member once, earlier ones first.
LEMMA Arranged ==
    ASSUME NEW S, IsFiniteSet(S), NEW R, StrictlyOrders(R, S), NEW o, Arranges(o, S, R)
    PROVE  Queues(o, S, R)
<1>1. Cardinality(S) \in Nat
  BY FS_CardinalityType
<1>. PICK n \in Nat : n = Cardinality(S)
  BY <1>1
<1>. PICK r : r = Before(S, R)
  OBVIOUS
<1>2. \A x \in S : r[x] = Cardinality({y \in S : <<y, x>> \in R})
  BY DEF Before
<1>3. ASSUME NEW k \in 1 .. n PROVE o[k] \in S /\ r[o[k]] = k - 1
  <2>1. o[k] = CHOOSE x \in S : Cardinality({y \in S : <<y, x>> \in R}) = k - 1
    BY DEF Arranges
  <2>2. PICK x \in S : r[x] = k - 1
    <3>1. k - 1 \in 0 .. n - 1
      OBVIOUS
    <3>. QED
      BY <3>1, Ranks
  <2>3. Cardinality({y \in S : <<y, x>> \in R}) = k - 1
    BY <1>2, <2>2
  <2>4. o[k] \in S /\ Cardinality({y \in S : <<y, o[k]>> \in R}) = k - 1
    BY <2>1, <2>3
  <2>. QED
    BY <1>2, <2>4
<1>4. o \in [1 .. n -> S]
  <2>. DEFINE at(k) == CHOOSE x \in S : Cardinality({y \in S : <<y, x>> \in R}) = k - 1
  <2>1. o = [k \in 1 .. n |-> at(k)]
    BY DEF Arranges
  <2>. HIDE DEF at
  <2>2. \A k \in 1 .. n : at(k) \in S
    BY <1>3, <2>1
  <2>. QED
    BY <2>1, <2>2
<1>5. \A i, j \in 1 .. n : o[i] = o[j] => i = j
  BY <1>3
<1>6. \A x \in S : \E i \in 1 .. n : o[i] = x
  <2>. TAKE x \in S
  <2>1. r[x] \in 0 .. n - 1
    BY Ranks
  <2>2. r[x] + 1 \in 1 .. n /\ (r[x] + 1) - 1 = r[x]
    BY <2>1
  <2>3. o[r[x] + 1] = x
    BY <1>3, <2>2, Ranks
  <2>. QED
    BY <2>2, <2>3
<1>7. \A i, j \in 1 .. n : i < j => <<o[i], o[j]>> \in R
  <2>. TAKE i, j \in 1 .. n
  <2>1. o[i] \in S /\ o[j] \in S /\ r[o[i]] = i - 1 /\ r[o[j]] = j - 1
    BY <1>3
  <2>2. i < j => r[o[i]] < r[o[j]]
    BY <2>1
  <2>. QED
    BY <2>1, <2>2, Ranks
<1>8. o \in Bijection(1 .. n, S)
  BY <1>4, <1>5, <1>6 DEF Bijection, Injection, Surjection, IsInjective
<1>9. \A k \in 1 .. n : Before(S, R)[o[k]] = k - 1
  BY <1>3
<1>. QED
  BY <1>1, <1>4, <1>5, <1>6, <1>7, <1>8, <1>9 DEF Queues

\* There is one ascending arrangement.
LEMMA ArrangedOnce ==
    ASSUME NEW S, IsFiniteSet(S), NEW R, StrictlyOrders(R, S), NEW o, Arranges(o, S, R),
           NEW n \in Nat, NEW p \in Bijection(1 .. n, S),
           \A i, j \in 1 .. n : i < j => <<p[i], p[j]>> \in R
    PROVE  n = Cardinality(S) /\ o = p
<1>1. p \in [1 .. n -> S] /\ (\A i, j \in 1 .. n : p[i] = p[j] => i = j)
      /\ \A x \in S : \E i \in 1 .. n : p[i] = x
  BY DEF Bijection, Injection, Surjection, IsInjective
<1>2. n = Cardinality(S)
  <2>1. IsFiniteSet(1 .. n) /\ Cardinality(1 .. n) = n
    BY FS_Interval
  <2>2. ExistsBijection(1 .. n, S)
    BY DEF ExistsBijection
  <2>. PICK D : D = 1 .. n
    OBVIOUS
  <2>. QED
    BY <2>1, <2>2, FS_Bijection
<1>. PICK r : r = Before(S, R)
  OBVIOUS
<1>3. ASSUME NEW k \in 1 .. n PROVE r[p[k]] = k - 1
  <2>. DEFINE B == {y \in S : <<y, p[k]>> \in R}
              D == 1 .. k - 1
              q == [i \in D |-> p[i]]
  <2>1. r[p[k]] = Cardinality(B)
    BY <1>1 DEF Before
  <2>2. \A i \in D : i \in 1 .. n /\ i < k
    OBVIOUS
  <2>3. \A i \in D : p[i] \in B
    BY <1>1, <2>2
  <2>4. \A y \in B : \E i \in D : p[i] = y
    <3>. TAKE y \in B
    <3>1. PICK i \in 1 .. n : p[i] = y
      BY <1>1
    <3>2. p[i] \in S /\ p[k] \in S /\ <<p[i], p[k]>> \in R
      BY <1>1, <3>1
    <3>3. i # k /\ ~(k < i)
      <4>1. <<p[k], p[k]>> \notin R
        BY <3>2 DEF StrictlyOrders
      <4>2. ~(<<p[k], p[i]>> \in R)
        BY <3>2, <4>1 DEF StrictlyOrders
      <4>. QED
        BY <3>2, <4>1, <4>2
    <3>4. i \in D
      BY <3>3
    <3>. QED
      BY <3>1, <3>4
  <2>5. q \in Bijection(D, B)
    <3>. HIDE DEF B, D
    <3>1. q \in [D -> B] /\ \A i \in D : q[i] = p[i]
      BY <2>3
    <3>. HIDE DEF q
    <3>. QED
      BY <1>1, <2>2, <2>3, <2>4, <3>1 DEF Bijection, Injection, Surjection, IsInjective
  <2>6. IsFiniteSet(D) /\ Cardinality(D) = k - 1
    <3>1. 1 \in Int /\ k - 1 \in Int /\ (~(1 > k - 1) \/ k = 1)
      OBVIOUS
    <3>2. IsFiniteSet(1 .. k - 1) /\ Cardinality(1 .. k - 1) = IF 1 > k - 1 THEN 0 ELSE (k - 1) - 1 + 1
      BY FS_Interval
    <3>. QED
      BY <3>1, <3>2
  <2>. HIDE DEF B, D, q
  <2>7. ExistsBijection(D, B)
    BY <2>5 DEF ExistsBijection
  <2>. QED
    BY <2>1, <2>6, <2>7, FS_Bijection
<1>4. \A k \in 1 .. n : o[k] = p[k]
  <2>. TAKE k \in 1 .. n
  <2>1. p[k] \in S /\ r[p[k]] = k - 1
    BY <1>1, <1>3
  <2>2. Queues(o, S, R)
    BY Arranged
  <2>3. o \in [1 .. n -> S] /\ r[o[k]] = k - 1
    BY <1>2, <2>2 DEF Queues
  <2>. QED
    BY <2>1, <2>3, Ranks
<1>5. o \in [1 .. n -> S]
  <2>1. Queues(o, S, R)
    BY Arranged
  <2>. QED
    BY <1>2, <2>1 DEF Queues
<1>. QED
  BY <1>1, <1>2, <1>4, <1>5

-----------------------------------------------------------------------------
(* Folds over sequences.                                                   *)

\* The last of each part of 1 .. n.
LastOf(n) == [t \in SUBSET (1 .. n) |-> Max(t)]

\* The largest of some of the first n numbers.
LEMMA MaxOf ==
    ASSUME NEW n \in Nat, NEW t \in SUBSET (1 .. n), t # {}
    PROVE  Max(t) \in t /\ \A y \in t : y <= Max(t)
<1>. DEFINE T == {m \in Nat : \E x \in t : m = n - x}
<1>1. T \in SUBSET Nat /\ T # {}
  <2>1. PICK x \in t : TRUE
    OBVIOUS
  <2>2. \A y \in t : n - y \in Nat
    OBVIOUS
  <2>3. n - x \in T
    BY <2>2
  <2>. QED
    BY <2>3
<1>2. PICK m \in T : \A k \in T : m <= k
  <2>. HIDE DEF T
  <2>. QED
    BY <1>1, LeastNumber
<1>3. PICK x \in t : m = n - x
  BY <1>2
<1>4. \A y \in t : y <= x
  <2>. TAKE y \in t
  <2>1. n - y \in T /\ x \in Int /\ y \in Int
    OBVIOUS
  <2>2. m <= n - y
    BY <1>2, <2>1
  <2>. QED
    BY <1>3, <2>1, <2>2
<1>5. \A y \in t : x >= y
  BY <1>4
<1>. QED
  BY <1>3, <1>5 DEF Max

\* The last of a part is one of it.
LEMMA LastOfPicks == \A n \in Nat : Picks(LastOf(n), 1 .. n)
  BY MaxOf DEF Picks, LastOf

\* The first k of n numbers.
LEMMA Initials ==
    ASSUME NEW n \in Nat
    PROVE  /\ 1 .. 0 = {} /\ IsFiniteSet(1 .. n)
           /\ \A k \in 0 .. n : 1 .. k \in SUBSET (1 .. n)
           /\ \A k \in 1 .. n : /\ Max(1 .. k) = k /\ (1 .. k) \ {k} = 1 .. k - 1
                                /\ 1 .. k # {} /\ k - 1 \in 0 .. n
<1>1. IsFiniteSet(1 .. n)
  BY FS_Interval
<1>2. ASSUME NEW k \in 1 .. n PROVE Max(1 .. k) = k
  <2>. PICK t : t = 1 .. k
    OBVIOUS
  <2>1. t \in SUBSET (1 .. n) /\ k \in t /\ \A y \in t : y \in Int /\ y <= k
    OBVIOUS
  <2>2. Max(t) \in t /\ \A y \in t : y <= Max(t)
    BY <2>1, MaxOf
  <2>3. k <= Max(t) /\ Max(t) <= k /\ Max(t) \in Int
    BY <2>1, <2>2
  <2>. QED
    BY <2>3
<1>3. \A k \in 0 .. n : 1 .. k \in SUBSET (1 .. n)
  OBVIOUS
<1>4. \A k \in 1 .. n : (1 .. k) \ {k} = 1 .. k - 1 /\ 1 .. k # {} /\ k - 1 \in 0 .. n
  <2>. TAKE k \in 1 .. n
  <2>1. k \in 1 .. k /\ k - 1 \in 0 .. n
    OBVIOUS
  <2>2. \A x : x \in (1 .. k) \ {k} <=> x \in 1 .. k - 1
    OBVIOUS
  <2>. QED
    BY <2>1, <2>2
<1>5. 1 .. 0 = {}
  OBVIOUS
<1>. QED
  BY <1>1, <1>2, <1>3, <1>4, <1>5

\* Each pass over an order is a run of steps.
Runs(a, split, limit, order, n) ==
    /\ DOMAIN a = 0 .. n /\ a[0] = split
    /\ \A k \in 1 .. n : a[k] = PlaceOne(a[k - 1], limit, order[k])

\* Amounts partly handed out to the lines of D.
Splits(D) == [parts : [D -> Int], left : Int]

\* One line at a time keeps the types.
LEMMA PlaceOneType ==
    ASSUME NEW D, NEW s \in Splits(D), NEW limit, NEW l \in D
    PROVE  PlaceOne(s, limit, l) \in Splits(D)
<1>1. Minor \in Int
  BY PrecisionAssumption
<1>2. s.parts \in [D -> Int] /\ s.left \in Int
  BY DEF Splits
<1>3. s.left - Minor \in Int
  BY <1>1, <1>2
<1>4. [s.parts EXCEPT ![l] = @ + Minor] \in [D -> Int]
  BY <1>1, <1>2
<1>. QED
  BY <1>3, <1>4 DEF PlaceOne, Splits

\* The fold of PlaceOne over an order, as a table.
HandingOut(it, split, limit, order) ==
    it = [s \in SUBSET DOMAIN order |-> IF s = {} THEN split
                                        ELSE LET x == Max(s) IN PlaceOne(it[s \ {x}], limit, order[x])]

\* HandOut is where such a run ends.
LEMMA HandOutRuns ==
    ASSUME NEW D, NEW split \in Splits(D), NEW limit, NEW n \in Nat, NEW order \in [1 .. n -> D]
    PROVE  \E a : Runs(a, split, limit, order, n) /\ HandOut(split, limit, order) = a[n]
<1>. DEFINE c == CHOOSE it : HandingOut(it, split, limit, order)
            step == [p \in Splits(D) \X (1 .. n) |-> PlaceOne(p[1], limit, order[p[2]])]
<1>1. \A v \in Splits(D) : \A k \in 1 .. n :
            step[<<v, k>>] = PlaceOne(v, limit, order[k]) /\ step[<<v, k>>] \in Splits(D)
  BY PlaceOneType
<1>2. StepsWithin(step, 1 .. n, Splits(D)) /\ Picks(LastOf(n), 1 .. n) /\ IsFiniteSet(1 .. n)
  BY <1>1, LastOfPicks, Initials DEF StepsWithin
<1>. HIDE DEF step
<1>3. PICK it \in [SUBSET (1 .. n) -> Splits(D)] : Folds(it, split, LastOf(n), step, 1 .. n)
  <2>. PICK S : S = 1 .. n
    OBVIOUS
  <2>. QED
    BY <1>2, Folding
<1>4. HandingOut(it, split, limit, order)
  <2>. DEFINE Rec(s) == IF s = {} THEN split
                        ELSE LET x == Max(s) IN PlaceOne(it[s \ {x}], limit, order[x])
  <2>1. ASSUME NEW s \in SUBSET (1 .. n) PROVE it[s] = Rec(s)
    <3>1. CASE s = {}
      BY <1>3, <3>1 DEF Folds
    <3>2. CASE s # {}
      <4>. PICK x : x = Max(s)
        OBVIOUS
      <4>1. x \in s /\ LastOf(n)[s] = x
        BY <3>2, MaxOf DEF LastOf
      <4>2. it[s] = step[<<it[s \ {x}], x>>]
        BY <1>3, <3>2, <4>1 DEF Folds
      <4>3. it[s \ {x}] \in Splits(D) /\ x \in 1 .. n
        BY <1>3, <4>1
      <4>4. it[s] = PlaceOne(it[s \ {x}], limit, order[x])
        BY <1>1, <4>2, <4>3
      <4>. QED
        BY <3>2, <4>4
    <3>. QED
      BY <3>1, <3>2
  <2>2. it = [s \in SUBSET (1 .. n) |-> Rec(s)]
    <3>. HIDE DEF Rec
    <3>. QED
      BY <1>3, <2>1
  <2>. QED
    BY <2>2 DEF HandingOut
<1>5. HandingOut(c, split, limit, order)
  BY <1>4
<1>6. HandOut(split, limit, order) = c[1 .. n]
  BY DEF HandOut, FoldLeft, MapThenFoldSet, HandingOut
<1>. HIDE DEF c
<1>. PICK a : a = [k \in 0 .. n |-> c[1 .. k]]
  OBVIOUS
<1>7. DOMAIN a = 0 .. n /\ a[0] = split /\ a[n] = c[1 .. n]
  BY <1>5, Initials DEF HandingOut
<1>8. ASSUME NEW k \in 1 .. n PROVE a[k] = PlaceOne(a[k - 1], limit, order[k])
  <2>. PICK t : t = 1 .. k
    OBVIOUS
  <2>1. /\ t # {} /\ Max(t) = k /\ t \ {k} = 1 .. k - 1 /\ k - 1 \in 0 .. n
        /\ k \in 0 .. n /\ t \in SUBSET DOMAIN order
    <3>1. /\ \A j \in 0 .. n : 1 .. j \in SUBSET (1 .. n)
          /\ \A j \in 1 .. n : /\ Max(1 .. j) = j /\ (1 .. j) \ {j} = 1 .. j - 1
                               /\ 1 .. j # {} /\ j - 1 \in 0 .. n
      BY Initials
    <3>2. k \in 0 .. n /\ DOMAIN order = 1 .. n
      OBVIOUS
    <3>. QED
      BY <3>1, <3>2
  <2>2. c[t] = PlaceOne(c[t \ {k}], limit, order[k])
    BY <1>5, <2>1 DEF HandingOut
  <2>3. a[k] = c[t] /\ a[k - 1] = c[t \ {k}]
    BY <2>1
  <2>. QED
    BY <2>2, <2>3
<1>. QED
  BY <1>6, <1>7, <1>8 DEF Runs

-----------------------------------------------------------------------------
(* Handing out minor units.                                                *)

\* A whole number of minor units.
Settles(x) == x \in Int /\ \E q \in Int : x = Minor * q

\* A multiple of the minor unit is settled.
LEMMA SettlesBy == \A x, q \in Int : x = Minor * q => Settles(x)
  BY DEF Settles

\* The minor unit and zero are settled amounts (PrecisionAssumption).
LEMMA MinorType == Minor \in Int /\ Minor > 0 /\ Settles(Minor) /\ Settles(0)
<1>1. Minor \in Int /\ Minor > 0
  BY PrecisionAssumption
<1>2. Minor = Minor * 1 /\ 0 = Minor * 0
  BY <1>1
<1>. QED
  BY <1>1, <1>2 DEF Settles

\* Sums, differences and opposites of settled amounts are settled.
LEMMA SettlesPlus ==
    ASSUME NEW x, NEW y, Settles(x), Settles(y)
    PROVE  Settles(x + y) /\ Settles(x - y) /\ Settles(-x)
<1>1. PICK p \in Int : x = Minor * p
  BY DEF Settles
<1>2. PICK q \in Int : y = Minor * q
  BY DEF Settles
<1>3. Minor \in Int /\ x \in Int /\ y \in Int
  BY MinorType DEF Settles
<1>12. PICK M \in Int : M = Minor
  BY <1>3
<1>7. \A a, b \in Int : /\ M * (a + b) = M * a + M * b /\ M * (a - b) = M * a - M * b
                        /\ M * (-a) = -(M * a)
  OBVIOUS
<1>4. x + y = Minor * (p + q) /\ p + q \in Int
  BY <1>1, <1>2, <1>7, <1>12
<1>5. x - y = Minor * (p - q) /\ p - q \in Int
  BY <1>1, <1>2, <1>7, <1>12
<1>6. -x = Minor * (-p) /\ -p \in Int
  BY <1>1, <1>7, <1>12
<1>8. x + y \in Int /\ x - y \in Int /\ -x \in Int
  BY <1>3
<1>9. Settles(x + y)
  BY <1>4, <1>8, SettlesBy
<1>10. Settles(x - y)
  BY <1>5, <1>8, SettlesBy
<1>11. Settles(-x)
  BY <1>6, <1>8, SettlesBy
<1>. QED
  BY <1>9, <1>10, <1>11

\* Two settled amounts that differ are a minor unit apart.
LEMMA SettledApart ==
    ASSUME NEW x, NEW y, Settles(x), Settles(y), x < y
    PROVE  x + Minor <= y
<1>1. PICK p \in Int : x = Minor * p
  BY DEF Settles
<1>2. PICK q \in Int : y = Minor * q
  BY DEF Settles
<1>3. Minor \in Int /\ Minor > 0
  BY MinorType
<1>12. PICK M \in Int : M = Minor
  BY <1>3
<1>7. \A a, b \in Int : b <= a => M * b <= M * a
  <2>. TAKE a, b \in Int
  <2>1. M * a = M * b + M * (a - b)
    OBVIOUS
  <2>2. b <= a => M * (a - b) >= 0
    BY <1>3, <1>12
  <2>. QED
    BY <2>1, <2>2
<1>8. \A a \in Int : \A b \in Nat : M * (a + 1 + b) = M * a + M + M * b /\ M * b >= 0
  BY <1>3, <1>12
<1>13. x = M * p /\ y = M * q
  BY <1>1, <1>2, <1>12
<1>4. p < q
  <2>. PICK a : a = M * p
    OBVIOUS
  <2>. PICK b : b = M * q
    OBVIOUS
  <2>1. a < b /\ a \in Int /\ b \in Int
    BY <1>13 DEF Settles
  <2>2. q <= p => b <= a
    BY <1>7
  <2>. QED
    BY <2>1, <2>2
<1>5. PICK d \in Nat : q = p + 1 + d
  <2>1. q - p - 1 \in Nat /\ q = p + 1 + (q - p - 1)
    BY <1>4
  <2>. QED
    BY <2>1
<1>6. M * q = M * p + M + M * d /\ M * d >= 0
  BY <1>5, <1>8
<1>. QED
  BY <1>6, <1>12, <1>13

\* A split on its way: what is placed and what is left add up, in minor units,
\* within the capacities.
Placing(s, D, limit, settled) ==
    /\ s \in Splits(D) /\ s.left >= 0 /\ Settles(s.left)
    /\ \A l \in D : /\ s.parts[l] >= 0 /\ Settles(s.parts[l])
                    /\ limit # NoLimit => s.parts[l] <= limit[l]
    /\ SumOn(s.parts, D) + s.left = settled

\* Settled limits, or none.
Limits(limit, D) ==
    limit # NoLimit => limit \in [D -> Int] /\ \A l \in D : Settles(limit[l])

\* One line at a time keeps a placing, and takes one minor unit or none.
LEMMA PlaceOneKeeps ==
    ASSUME NEW D, IsFiniteSet(D), NEW limit, Limits(limit, D), NEW settled \in Int,
           NEW s, Placing(s, D, limit, settled), NEW l \in D,
           NEW t, t = PlaceOne(s, limit, l)
    PROVE  /\ Placing(t, D, limit, settled)
           /\ s.left = 0 \/ ~TakesOne(s.parts, limit, l) => t = s
           /\ s.left # 0 /\ TakesOne(s.parts, limit, l) =>
                /\ t.left = s.left - Minor
                /\ t.parts[l] = s.parts[l] + Minor
                /\ \A k \in D : k # l => t.parts[k] = s.parts[k]
<1>1. CASE s.left = 0 \/ ~TakesOne(s.parts, limit, l)
  BY <1>1 DEF PlaceOne
<1>2. CASE s.left # 0 /\ TakesOne(s.parts, limit, l)
  <2>1. t = [parts |-> [s.parts EXCEPT ![l] = @ + Minor], left |-> s.left - Minor]
    BY <1>2 DEF PlaceOne
  <2>. PICK p : p = s.parts
    OBVIOUS
  <2>. PICK q : q = t.parts
    OBVIOUS
  <2>2. p \in [D -> Int] /\ s.left \in Int /\ Minor \in Int /\ Minor > 0
    BY MinorType DEF Placing, Splits
  <2>3. t \in Splits(D)
    BY PlaceOneType DEF Placing
  <2>4. q = [p EXCEPT ![l] = @ + Minor] /\ t.left = s.left - Minor
    BY <2>1
  <2>5. q[l] = p[l] + Minor /\ (\A k \in D : k # l => q[k] = p[k]) /\ q \in [D -> Int]
    BY <2>2, <2>4
  <2>6. t.left >= 0 /\ Settles(t.left)
    <3>1. Settles(s.left) /\ s.left >= 0
      BY DEF Placing
    <3>3. 0 < s.left /\ Settles(0)
      BY <1>2, <2>2, <3>1, MinorType
    <3>2. 0 + Minor <= s.left
      BY <3>1, <3>3, SettledApart
    <3>. QED
      BY <2>2, <2>4, <3>1, <3>2, SettlesPlus, MinorType
  <2>7. ASSUME NEW k \in D
        PROVE  q[k] >= 0 /\ Settles(q[k]) /\ (limit # NoLimit => q[k] <= limit[k])
    <3>1. p[k] >= 0 /\ Settles(p[k]) /\ (limit # NoLimit => p[k] <= limit[k])
      BY DEF Placing
    <3>2. CASE k # l
      BY <2>5, <3>1, <3>2
    <3>3. CASE k = l
      <4>1. Settles(p[k] + Minor)
        BY <3>1, SettlesPlus, MinorType
      <4>2. p[k] \in Int /\ (limit # NoLimit => p[k] + Minor <= limit[k])
        BY <1>2, <2>2, <3>3 DEF TakesOne
      <4>. QED
        BY <2>2, <2>5, <3>1, <3>3, <4>1, <4>2
    <3>. QED
      BY <3>2, <3>3
  <2>8. SumOn(q, D) = SumOn(p, D) + Minor
    <3>1. Whole(p, D) /\ Whole(q, D) /\ IsFiniteSet(D \ {l})
      BY <2>2, <2>5, FS_RemoveElement DEF Whole
    <3>2. SumOn(p, D) = p[l] + SumOn(p, D \ {l}) /\ SumOn(q, D) = q[l] + SumOn(q, D \ {l})
      BY <3>1, SumTakeOff
    <3>. PICK E : E = D \ {l}
      OBVIOUS
    <3>3. Whole(p, E) /\ \A k \in E : p[k] = q[k]
      BY <2>5, <3>1 DEF Whole
    <3>4. SumOn(p, E) = SumOn(q, E) /\ SumOn(p, E) \in Int
      BY <3>3, SumSame, SumTakeOff
    <3>5. p[l] \in Int
      BY <2>2
    <3>. QED
      BY <2>2, <2>5, <3>2, <3>4, <3>5
  <2>9. SumOn(q, D) + t.left = settled
    <3>1. SumOn(p, D) + s.left = settled
      BY DEF Placing
    <3>2. SumOn(p, D) \in Int
      BY <2>2, SumTakeOff DEF Whole
    <3>. QED
      BY <2>2, <2>4, <2>8, <3>1, <3>2
  <2>10. Placing(t, D, limit, settled)
    BY <2>3, <2>6, <2>7, <2>9 DEF Placing
  <2>. QED
    BY <1>2, <2>4, <2>5, <2>10
<1>. QED
  BY <1>1, <1>2

\* What a pass over every line does.
LEMMA PassKeeps ==
    ASSUME NEW D, IsFiniteSet(D), NEW limit, Limits(limit, D), NEW settled \in Int,
           NEW s, Placing(s, D, limit, settled),
           NEW n \in Nat, NEW order \in Bijection(1 .. n, D),
           NEW t, t = HandOut(s, limit, order)
    PROVE  /\ Placing(t, D, limit, settled) /\ t.left <= s.left
           /\ \A l \in D : t.parts[l] \in {s.parts[l], s.parts[l] + Minor}
           /\ limit = NoLimit /\ s.left <= Minor * n => t.left = 0
           /\ \A l \in D : s.left > 0 /\ TakesOne(s.parts, limit, l) => t.left <= s.left - Minor
<1>1. order \in [1 .. n -> D] /\ (\A i, j \in 1 .. n : order[i] = order[j] => i = j)
      /\ \A l \in D : \E i \in 1 .. n : order[i] = l
  BY DEF Bijection, Injection, Surjection, IsInjective
<1>2. s \in Splits(D) /\ s.left \in Int /\ s.left >= 0 /\ Minor \in Int /\ Minor > 0
      /\ s.parts \in [D -> Int]
  BY MinorType DEF Placing, Splits
<1>3. PICK a : Runs(a, s, limit, order, n) /\ t = a[n]
  <2>1. order \in [1 .. n -> D] /\ s \in Splits(D)
    BY <1>1, <1>2
  <2>2. \E a : Runs(a, s, limit, order, n) /\ HandOut(s, limit, order) = a[n]
    BY <2>1, HandOutRuns
  <2>. QED
    BY <2>2
<1>. DEFINE Kept(k) ==
                /\ Placing(a[k], D, limit, settled)
                /\ a[k].left <= s.left
                /\ \A l \in D : /\ a[k].parts[l] \in {s.parts[l], s.parts[l] + Minor}
                                /\ (\A j \in 1 .. k : order[j] # l) => a[k].parts[l] = s.parts[l]
                /\ limit = NoLimit => a[k].left = 0 \/ a[k].left = s.left - Minor * k
                /\ \A j \in 1 .. k : s.left > 0 /\ TakesOne(s.parts, limit, order[j])
                                        => a[k].left <= s.left - Minor
            P == {k \in Nat : k \in 0 .. n => Kept(k)}
<1>4. 0 \in P
  <2>1. a[0] = s
    BY <1>3 DEF Runs
  <2>2. Minor * 0 = 0
    BY <1>2
  <2>. QED
    BY <1>2, <2>1, <2>2
<1>5. ASSUME NEW k \in Nat, k \in P PROVE k + 1 \in P
  <2>. SUFFICES ASSUME k + 1 \in 0 .. n PROVE Kept(k + 1)
    OBVIOUS
  <2>1. k \in 0 .. n /\ Kept(k) /\ k + 1 \in 1 .. n
    BY <1>5
  <2>2. PICK m : m = k + 1
    OBVIOUS
  <2>3. PICK u : u = a[k]
    OBVIOUS
  <2>4. PICK v : v = a[m]
    OBVIOUS
  <2>5. PICK o : o = order[m]
    OBVIOUS
  <2>6. v = PlaceOne(u, limit, o) /\ o \in D /\ m \in 1 .. n /\ m - 1 = k
    BY <1>1, <1>3, <2>1, <2>2, <2>3, <2>4, <2>5 DEF Runs
  <2>7. Placing(u, D, limit, settled) /\ u.left <= s.left
    BY <2>1, <2>3
  <2>8. /\ Placing(v, D, limit, settled)
        /\ u.left = 0 \/ ~TakesOne(u.parts, limit, o) => v = u
        /\ u.left # 0 /\ TakesOne(u.parts, limit, o) =>
             /\ v.left = u.left - Minor
             /\ v.parts[o] = u.parts[o] + Minor
             /\ \A l \in D : l # o => v.parts[l] = u.parts[l]
    BY <2>6, <2>7, PlaceOneKeeps
  <2>9. /\ u.left \in Int /\ u.left >= 0 /\ v.left \in Int /\ v.left >= 0
        /\ u.parts \in [D -> Int] /\ v.parts \in [D -> Int]
    BY <2>7, <2>8 DEF Placing, Splits
  <2>10. \A j \in 1 .. k : order[j] # o
    BY <1>1, <2>1, <2>2, <2>5
  <2>11. u.parts[o] = s.parts[o]
    BY <2>1, <2>3, <2>6, <2>10
  <2>12. v.left <= s.left
    BY <1>2, <2>7, <2>8, <2>9
  <2>13. ASSUME NEW l \in D
         PROVE  /\ v.parts[l] \in {s.parts[l], s.parts[l] + Minor}
                /\ (\A j \in 1 .. m : order[j] # l) => v.parts[l] = s.parts[l]
    <3>1. /\ u.parts[l] \in {s.parts[l], s.parts[l] + Minor}
          /\ (\A j \in 1 .. k : order[j] # l) => u.parts[l] = s.parts[l]
      BY <2>1, <2>3
    <3>2. \A j \in 1 .. k : j \in 1 .. m
      BY <2>2
    <3>3. m \in 1 .. m
      BY <2>6
    <3>. QED
      BY <2>5, <2>8, <2>11, <3>1, <3>2, <3>3
  <2>14. limit = NoLimit => v.left = 0 \/ v.left = s.left - Minor * m
    <3>. SUFFICES ASSUME limit = NoLimit PROVE v.left = 0 \/ v.left = s.left - Minor * m
      OBVIOUS
    <3>1. u.left = 0 \/ u.left = s.left - Minor * k
      BY <2>1, <2>3
    <3>2. TakesOne(u.parts, limit, o)
      BY DEF TakesOne
    <3>3. Minor * m = Minor * k + Minor
      BY <1>2, <2>2, Distributes
    <3>. PICK x : x = Minor * k
      OBVIOUS
    <3>4. x \in Int
      BY <1>2
    <3>. QED
      BY <1>2, <2>8, <2>9, <3>1, <3>2, <3>3, <3>4
  <2>15. ASSUME NEW j \in 1 .. m, s.left > 0, TakesOne(s.parts, limit, order[j])
         PROVE  v.left <= s.left - Minor
    <3>1. CASE j = m
      <4>1. TakesOne(u.parts, limit, o)
        BY <2>5, <2>11, <2>15, <3>1 DEF TakesOne
      <4>2. CASE u.left = 0
        <5>1. 0 + Minor <= s.left
          <6>1. Settles(0) /\ Settles(s.left) /\ 0 < s.left
            BY <1>2, <2>15, MinorType DEF Placing
          <6>. QED
            BY <6>1, SettledApart
        <5>. QED
          BY <1>2, <2>8, <2>9, <4>2, <5>1
      <4>3. CASE u.left # 0
        BY <1>2, <2>7, <2>8, <2>9, <4>1, <4>3
      <4>. QED
        BY <4>2, <4>3
    <3>2. CASE j # m
      <4>1. j \in 1 .. k
        BY <2>2, <3>2
      <4>2. u.left <= s.left - Minor
        BY <2>1, <2>3, <2>15, <4>1
      <4>. QED
        BY <1>2, <2>8, <2>9, <4>2
    <3>. QED
      BY <3>1, <3>2
  <2>. QED
    BY <2>2, <2>4, <2>8, <2>12, <2>13, <2>14, <2>15
<1>6. Kept(n)
  <2>. HIDE DEF Kept
  <2>1. n \in P /\ n \in 0 .. n
    <3>. HIDE DEF P
    <3>. QED
      BY <1>4, <1>5, Counting
  <2>. QED
    BY <2>1
<1>7. limit = NoLimit /\ s.left <= Minor * n => t.left = 0
  <2>. SUFFICES ASSUME limit = NoLimit, s.left <= Minor * n PROVE t.left = 0
    OBVIOUS
  <2>1. t.left = 0 \/ t.left = s.left - Minor * n
    BY <1>3, <1>6
  <2>2. t.left >= 0 /\ t.left \in Int
    BY <1>3, <1>6 DEF Placing, Splits
  <2>. PICK x : x = Minor * n
    OBVIOUS
  <2>3. x \in Int
    BY <1>2
  <2>. QED
    BY <1>2, <2>1, <2>2, <2>3
<1>. QED
  BY <1>1, <1>3, <1>6, <1>7

\* Division leaves a remainder below the divisor.
LEMMA Division ==
    ASSUME NEW a \in Int, NEW b \in Int, b > 0
    PROVE  a \div b \in Int /\ b * (a \div b) <= a /\ a < b * (a \div b) + b
  OBVIOUS

\* The quotient is the only number that is it.
LEMMA Quotient ==
    ASSUME NEW a \in Int, NEW b \in Int, b > 0, NEW q \in Int, b * q <= a, a < b * q + b
    PROVE  a \div b = q
<1>. PICK d \in Int : d = a \div b
  BY Division
<1>1. b * d <= a /\ a < b * d + b
  BY Division
<1>2. \A x, y \in Int : x < y => b * x + b <= b * y
  <2>. SUFFICES ASSUME NEW x \in Int, NEW y \in Int, x < y PROVE b * x + b <= b * y
    OBVIOUS
  <2>1. b * y = b * x + b + b * (y - x - 1)
    OBVIOUS
  <2>2. b * (y - x - 1) >= 0
    OBVIOUS
  <2>. QED
    BY <2>1, <2>2
<1>3. ~(d < q) /\ ~(q < d)
  <2>. PICK x \in Int : x = b * d
    OBVIOUS
  <2>. PICK y \in Int : y = b * q
    OBVIOUS
  <2>1. (d < q => x + b <= y) /\ (q < d => y + b <= x)
    BY <1>2
  <2>. QED
    BY <1>1, <2>1
<1>. QED
  BY <1>3

\* The fold of HandOut over the passes, as a table.
Passing(it, split, limit, order, N) ==
    it = [s \in SUBSET (1 .. N) |->
            IF s = {} THEN split ELSE LET x == Max(s) IN HandOut(it[s \ {x}], limit, order)]

\* The splits that are placings.
Placings(D, limit, settled) == {s \in Splits(D) : Placing(s, D, limit, settled)}

\* Passed is where a run of passes ends.
LEMMA PassedRuns ==
    ASSUME NEW D, IsFiniteSet(D), NEW limit, Limits(limit, D), NEW settled \in Int,
           NEW split, Placing(split, D, limit, settled),
           NEW n \in Nat, NEW order \in Bijection(1 .. n, D), NEW N \in Nat
    PROVE  \E a : /\ DOMAIN a = 0 .. N /\ a[0] = split
                  /\ \A k \in 1 .. N : a[k] = HandOut(a[k - 1], limit, order)
                  /\ Passed(split, limit, order, N) = a[N]
<1>. DEFINE c == CHOOSE it : Passing(it, split, limit, order, N)
            V == Placings(D, limit, settled)
            step == [p \in V \X (1 .. N) |-> HandOut(p[1], limit, order)]
<1>1. \A v \in V : HandOut(v, limit, order) \in V
  <2>. TAKE v \in V
  <2>1. Placing(v, D, limit, settled)
    BY DEF Placings
  <2>. PICK t : t = HandOut(v, limit, order)
    OBVIOUS
  <2>2. Placing(t, D, limit, settled)
    BY <2>1, PassKeeps
  <2>. QED
    BY <2>2 DEF Placings, Placing
<1>2. \A v \in V : \A k \in 1 .. N :
            step[<<v, k>>] = HandOut(v, limit, order) /\ step[<<v, k>>] \in V
  <2>. HIDE DEF V
  <2>. QED
    BY <1>1
<1>3. /\ StepsWithin(step, 1 .. N, V) /\ Picks(LastOf(N), 1 .. N) /\ IsFiniteSet(1 .. N)
      /\ split \in V
  <2>1. split \in V
    BY DEF Placings, Placing
  <2>. HIDE DEF step, V
  <2>. QED
    BY <1>2, <2>1, LastOfPicks, Initials DEF StepsWithin
<1>. HIDE DEF step, V
<1>4. PICK it \in [SUBSET (1 .. N) -> V] : Folds(it, split, LastOf(N), step, 1 .. N)
  <2>. PICK S : S = 1 .. N
    OBVIOUS
  <2>. QED
    BY <1>3, Folding
<1>5. Passing(it, split, limit, order, N)
  <2>. DEFINE Rec(s) == IF s = {} THEN split
                        ELSE LET x == Max(s) IN HandOut(it[s \ {x}], limit, order)
  <2>1. ASSUME NEW s \in SUBSET (1 .. N) PROVE it[s] = Rec(s)
    <3>1. CASE s = {}
      BY <1>4, <3>1 DEF Folds
    <3>2. CASE s # {}
      <4>. PICK x : x = Max(s)
        OBVIOUS
      <4>1. x \in s /\ LastOf(N)[s] = x
        BY <3>2, MaxOf DEF LastOf
      <4>2. it[s] = step[<<it[s \ {x}], x>>]
        BY <1>4, <3>2, <4>1 DEF Folds
      <4>3. it[s \ {x}] \in V /\ x \in 1 .. N
        BY <1>4, <4>1
      <4>4. it[s] = HandOut(it[s \ {x}], limit, order)
        BY <1>2, <4>2, <4>3
      <4>. QED
        BY <3>2, <4>4
    <3>. QED
      BY <3>1, <3>2
  <2>2. it = [s \in SUBSET (1 .. N) |-> Rec(s)]
    <3>. HIDE DEF Rec
    <3>. QED
      BY <1>4, <2>1
  <2>. QED
    BY <2>2 DEF Passing
<1>6. Passing(c, split, limit, order, N)
  BY <1>5
<1>7. Passed(split, limit, order, N) = c[1 .. N]
  BY DEF Passed, FoldLeft, MapThenFoldSet, Passing
<1>. HIDE DEF c
<1>. PICK a : a = [k \in 0 .. N |-> c[1 .. k]]
  OBVIOUS
<1>8. DOMAIN a = 0 .. N /\ a[0] = split /\ a[N] = c[1 .. N]
  <2>1. c[{}] = split
    BY <1>6 DEF Passing
  <2>2. 1 .. 0 = {} /\ 0 \in 0 .. N /\ N \in 0 .. N
    OBVIOUS
  <2>3. a[0] = c[1 .. 0] /\ a[N] = c[1 .. N]
    BY <2>2
  <2>4. c[1 .. 0] = c[{}]
    BY <2>2
  <2>. QED
    BY <2>1, <2>3, <2>4
<1>9. ASSUME NEW k \in 1 .. N PROVE a[k] = HandOut(a[k - 1], limit, order)
  <2>. PICK t : t = 1 .. k
    OBVIOUS
  <2>1. /\ t # {} /\ Max(t) = k /\ t \ {k} = 1 .. k - 1 /\ k - 1 \in 0 .. N
        /\ k \in 0 .. N /\ t \in SUBSET (1 .. N)
    <3>1. /\ \A j \in 0 .. N : 1 .. j \in SUBSET (1 .. N)
          /\ \A j \in 1 .. N : /\ Max(1 .. j) = j /\ (1 .. j) \ {j} = 1 .. j - 1
                               /\ 1 .. j # {} /\ j - 1 \in 0 .. N
      BY Initials
    <3>2. k \in 0 .. N
      OBVIOUS
    <3>. QED
      BY <3>1, <3>2
  <2>2. c[t] = HandOut(c[t \ {k}], limit, order)
    BY <1>6, <2>1 DEF Passing
  <2>3. a[k] = c[t] /\ a[k - 1] = c[t \ {k}]
    BY <2>1
  <2>. QED
    BY <2>2, <2>3
<1>. QED
  BY <1>7, <1>8, <1>9

\* While the capacities leave room for what is left, some line takes one more.
LEMMA SomeLineTakesOne ==
    ASSUME NEW D, IsFiniteSet(D), NEW limit, limit # NoLimit, Limits(limit, D),
           NEW settled \in Int, NEW s, Placing(s, D, limit, settled), s.left > 0,
           settled <= SumOn(limit, D)
    PROVE  \E l \in D : TakesOne(s.parts, limit, l)
<1>. SUFFICES ASSUME \A l \in D : ~TakesOne(s.parts, limit, l) PROVE FALSE
  OBVIOUS
<1>. PICK p : p = s.parts
  OBVIOUS
<1>1. /\ p \in [D -> Int] /\ limit \in [D -> Int] /\ s.left \in Int /\ Minor \in Int
      /\ SumOn(p, D) + s.left = settled
  BY MinorType DEF Placing, Splits, Limits
<1>2. \A l \in D : limit[l] <= p[l]
  <2>. TAKE l \in D
  <2>1. ~(p[l] + Minor <= limit[l]) /\ Settles(p[l]) /\ Settles(limit[l])
    BY DEF TakesOne, Placing, Limits
  <2>2. ~(p[l] < limit[l])
    BY <2>1, SettledApart
  <2>. QED
    BY <1>1, <2>2
<1>3. Whole(p, D) /\ Whole(limit, D)
  BY <1>1 DEF Whole
<1>4. SumOn(limit, D) <= SumOn(p, D) /\ SumOn(limit, D) \in Int /\ SumOn(p, D) \in Int
  BY <1>2, <1>3, SumAtMost, SumTakeOff
<1>. QED
  BY <1>1, <1>4

\* Two steps down make one.
LEMMA StepsDown ==
    ASSUME NEW a \in Int, NEW b \in Int, NEW c \in Int, NEW x \in Int, NEW y \in Int,
           a <= b - x, b <= c - y
    PROVE  a <= c - (y + x)
  OBVIOUS

\* A settled number is its quotient's multiple.
LEMMA SettledQuotient ==
    ASSUME NEW x, Settles(x), x >= 0
    PROVE  x \div Minor \in Nat /\ Minor * (x \div Minor) = x
<1>. PICK M \in Int : M = Minor /\ M > 0
  BY MinorType
<1>1. x \in Int
  BY DEF Settles
<1>2. PICK q \in Int : x = M * q
  BY DEF Settles
<1>3. x \div M = q
  BY <1>1, <1>2, Quotient
<1>4. q >= 0
  <2>1. q < 0 => M * q < 0
    OBVIOUS
  <2>. QED
    BY <1>2, <2>1
<1>. QED
  BY <1>2, <1>3, <1>4

\* What is placed when every pass is done: each part a whole number of minor
\* units within its line's capacity, and the parts the settled amount when
\* nothing is left.
LEMMA HandOutAllPlaces ==
    ASSUME NEW D, IsFiniteSet(D), NEW limit, Limits(limit, D), NEW settled \in Int,
           NEW split, Placing(split, D, limit, settled),
           NEW n \in Nat, NEW order \in Bijection(1 .. n, D),
           NEW r, r = HandOutAll(split, limit, order)
    PROVE  /\ r.parts \in [D -> Int] /\ r = [error |-> r.error, parts |-> r.parts]
           /\ \A l \in D : /\ r.parts[l] >= 0 /\ Settles(r.parts[l])
                           /\ limit # NoLimit => r.parts[l] <= limit[l]
           /\ r.error = "NONE" => SumOn(r.parts, D) = settled
           /\ limit = NoLimit =>
                \A l \in D : r.parts[l] \in {split.parts[l], split.parts[l] + Minor}
           /\ limit = NoLimit /\ split.left <= Minor * n => r.error = "NONE"
           /\ limit # NoLimit /\ settled <= SumOn(limit, D) => r.error = "NONE"
<1>. PICK N : N = Passes(split.left, limit)
  OBVIOUS
<1>. PICK t : t = Passed(split, limit, order, N)
  OBVIOUS
<1>1. split.left \in Int /\ split.left >= 0 /\ Settles(split.left)
  BY DEF Placing, Splits
<1>2. /\ N \in Nat
      /\ limit = NoLimit => N = 1
      /\ limit # NoLimit => Minor * N = split.left
  <2>1. CASE limit = NoLimit
    BY <2>1 DEF Passes
  <2>2. CASE limit # NoLimit
    <3>1. N = split.left \div Minor
      BY <2>2 DEF Passes
    <3>. QED
      BY <1>1, <2>2, <3>1, SettledQuotient
  <2>. QED
    BY <2>1, <2>2
<1>3. r = [error |-> PlacedAll(t.left, limit), parts |-> t.parts]
  BY <1>1 DEF HandOutAll
<1>4. PICK a : /\ DOMAIN a = 0 .. N /\ a[0] = split
               /\ \A k \in 1 .. N : a[k] = HandOut(a[k - 1], limit, order)
               /\ t = a[N]
  BY <1>2, PassedRuns
<1>5. ASSUME NEW k \in 1 .. N, Placing(a[k - 1], D, limit, settled)
      PROVE  /\ Placing(a[k], D, limit, settled) /\ a[k].left <= a[k - 1].left
             /\ \A l \in D : a[k].parts[l] \in {a[k - 1].parts[l], a[k - 1].parts[l] + Minor}
             /\ limit = NoLimit /\ a[k - 1].left <= Minor * n => a[k].left = 0
             /\ \A l \in D : a[k - 1].left > 0 /\ TakesOne(a[k - 1].parts, limit, l)
                                => a[k].left <= a[k - 1].left - Minor
  <2>1. a[k] = HandOut(a[k - 1], limit, order)
    BY <1>4
  <2>. PICK s : s = a[k - 1]
    OBVIOUS
  <2>. PICK u : u = a[k]
    OBVIOUS
  <2>2. Placing(s, D, limit, settled) /\ u = HandOut(s, limit, order)
    BY <1>5, <2>1
  <2>3. /\ Placing(u, D, limit, settled) /\ u.left <= s.left
        /\ \A l \in D : u.parts[l] \in {s.parts[l], s.parts[l] + Minor}
        /\ limit = NoLimit /\ s.left <= Minor * n => u.left = 0
        /\ \A l \in D : s.left > 0 /\ TakesOne(s.parts, limit, l) => u.left <= s.left - Minor
    BY <2>2, PassKeeps
  <2>. QED
    BY <2>3
<1>. DEFINE Room == limit # NoLimit /\ settled <= SumOn(limit, D)
            Kept(k) == /\ Placing(a[k], D, limit, settled)
                       /\ Room => a[k].left = 0 \/ a[k].left <= split.left - Minor * k
            P == {k \in Nat : k \in 0 .. N => Kept(k)}
<1>6. 0 \in P
  <2>1. Minor * 0 = 0 /\ a[0] = split
    BY <1>4, MinorType
  <2>. QED
    BY <1>1, <2>1
<1>7. ASSUME NEW k \in Nat, k \in P PROVE k + 1 \in P
  <2>. SUFFICES ASSUME k + 1 \in 0 .. N PROVE Kept(k + 1)
    OBVIOUS
  <2>. PICK m : m = k + 1
    OBVIOUS
  <2>1. k \in 0 .. N /\ Kept(k) /\ m \in 1 .. N /\ m - 1 = k
    BY <1>2, <1>7
  <2>. PICK s : s = a[k]
    OBVIOUS
  <2>. PICK u : u = a[m]
    OBVIOUS
  <2>2. /\ Placing(s, D, limit, settled) /\ Placing(u, D, limit, settled) /\ u.left <= s.left
        /\ \A l \in D : s.left > 0 /\ TakesOne(s.parts, limit, l) => u.left <= s.left - Minor
    BY <1>5, <2>1
  <2>3. s.left \in Int /\ s.left >= 0 /\ u.left \in Int /\ u.left >= 0 /\ Minor \in Int
    BY <2>2, MinorType DEF Placing, Splits
  <2>4. Room => u.left = 0 \/ u.left <= split.left - Minor * m
    <3>. SUFFICES ASSUME Room PROVE u.left = 0 \/ u.left <= split.left - Minor * m
      OBVIOUS
    <3>1. CASE s.left = 0
      BY <2>2, <2>3, <3>1
    <3>2. CASE s.left # 0
      <4>1. s.left > 0
        BY <2>3, <3>2
      <4>2. PICK l \in D : TakesOne(s.parts, limit, l)
        BY <2>2, <4>1, SomeLineTakesOne
      <4>3. u.left <= s.left - Minor
        BY <2>2, <4>1, <4>2
      <4>4. s.left <= split.left - Minor * k
        BY <2>1, <3>2
      <4>5. Minor * m = Minor * k + Minor
        BY <2>3, Distributes
      <4>. PICK x : x = Minor * k
        OBVIOUS
      <4>. PICK y : y = Minor * m
        OBVIOUS
      <4>6. x \in Int
        BY <2>3
      <4>7. y = x + Minor /\ s.left <= split.left - x
        BY <4>4, <4>5
      <4>8. u.left <= split.left - (x + Minor)
        BY <1>1, <2>3, <4>3, <4>6, <4>7, StepsDown
      <4>. QED
        BY <4>7, <4>8
    <3>. QED
      BY <3>1, <3>2
  <2>. QED
    BY <2>2, <2>4
<1>8. Kept(N)
  <2>1. N \in P /\ N \in 0 .. N
    <3>. HIDE DEF P
    <3>. QED
      BY <1>2, <1>6, <1>7, Counting
  <2>. HIDE DEF Kept
  <2>. QED
    BY <2>1
<1>9. Placing(t, D, limit, settled)
  BY <1>4, <1>8
<1>10. t.left \in Int /\ t.left >= 0 /\ t.parts \in [D -> Int] /\ SumOn(t.parts, D) + t.left = settled
       /\ \A l \in D : /\ t.parts[l] >= 0 /\ Settles(t.parts[l])
                       /\ limit # NoLimit => t.parts[l] <= limit[l]
  BY <1>9 DEF Placing, Splits
<1>11. SumOn(t.parts, D) \in Int
  BY <1>10, SumTakeOff DEF Whole
<1>12. limit = NoLimit =>
          /\ \A l \in D : t.parts[l] \in {split.parts[l], split.parts[l] + Minor}
          /\ split.left <= Minor * n => t.left = 0
  <2>. SUFFICES ASSUME limit = NoLimit
                PROVE  /\ \A l \in D : t.parts[l] \in {split.parts[l], split.parts[l] + Minor}
                       /\ split.left <= Minor * n => t.left = 0
    OBVIOUS
  <2>1. N = 1 /\ 1 \in 1 .. N /\ 1 - 1 = 0
    BY <1>2
  <2>2. a[0] = split /\ a[1] = t
    BY <1>4, <2>1
  <2>. QED
    BY <1>5, <2>1, <2>2
<1>13. Room => t.left = 0
  <2>. SUFFICES ASSUME Room PROVE t.left = 0
    OBVIOUS
  <2>1. Minor * N = split.left
    BY <1>2
  <2>2. t.left = 0 \/ t.left <= split.left - Minor * N
    BY <1>4, <1>8
  <2>. QED
    BY <1>1, <1>10, <2>1, <2>2
<1>14. t.left = 0 <=> r.error = "NONE"
  BY <1>3 DEF PlacedAll
<1>. QED
  BY <1>3, <1>10, <1>11, <1>12, <1>13, <1>14

-----------------------------------------------------------------------------
(* Shares.                                                                 *)

\* A common factor above zero may be left out.
LEMMA Cancel ==
    ASSUME NEW c \in Int, c > 0, NEW a \in Int, NEW b \in Int
    PROVE  (c * a <= c * b => a <= b) /\ (c * a < c * b => a < b)
           /\ (a <= b => c * a <= c * b) /\ c * a \in Int /\ c * b \in Int
<1>1. c * a \in Int /\ c * b \in Int
  OBVIOUS
<1>2. ASSUME NEW x \in Int, NEW y \in Int, x < y PROVE c * x < c * y
  <2>1. c * y = c * x + c * (y - x)
    OBVIOUS
  <2>2. c * (y - x) > 0
    BY <1>2
  <2>3. c * x \in Int /\ c * y \in Int /\ c * (y - x) \in Int
    OBVIOUS
  <2>. QED
    BY <2>1, <2>2, <2>3
<1>3. (b < a => c * b < c * a) /\ (a < b => c * a < c * b)
  BY <1>2
<1>. PICK x : x = c * a
  OBVIOUS
<1>. PICK y : y = c * b
  OBVIOUS
<1>4. (b < a => y < x) /\ (a < b => x < y) /\ (a = b => x = y) /\ x \in Int /\ y \in Int
  BY <1>1, <1>3
<1>5. (x <= y => a <= b) /\ (x < y => a < b) /\ (a <= b => x <= y)
  BY <1>4
<1>. QED
  BY <1>1, <1>5

\* A product regrouped.
LEMMA Regroup ==
    ASSUME NEW a \in Int, NEW b \in Int, NEW c \in Int
    PROVE  a * b = b * a /\ (a * b) * c = a * (b * c) /\ a * b \in Int
  OBVIOUS

\* The weights of a split: none below zero, and not all zero.
Weighting(w, D) ==
    /\ IsFiniteSet(D) /\ w \in [D -> Int] /\ SumOn(w, D) > 0
    /\ \A l \in D : w[l] >= 0

\* Twice a magnitude, in the steps of a share.
Steps(m) == 2 * m * ShareScale

\* An exact share is within half a step of the proportional part.
LEMMA SharesOf ==
    ASSUME NEW D, NEW w, Weighting(w, D), NEW m \in Nat,
           NEW s, s = ExactShares(m, w), NEW W, W = SumOn(w, D), NEW A, A = Steps(m)
    PROVE  /\ s \in [D -> Int] /\ W \in Int /\ W > 0 /\ A \in Int /\ A >= 0
           /\ \A l \in D : /\ s[l] >= 0
                           /\ (2 * W) * s[l] <= A * w[l] + W
                           /\ A * w[l] + W < (2 * W) * s[l] + 2 * W
<1>1. W \in Int /\ W > 0 /\ Total(w) = W /\ DOMAIN w = D
  <2>1. Whole(w, D) /\ DOMAIN w = D /\ SumOn(w, D) > 0
    BY DEF Weighting, Whole
  <2>. QED
    BY <2>1, SumTakeOff, TotalIsSum
<1>2. A \in Int /\ A >= 0 /\ ShareScale \in Int /\ ShareScale > 0
  <2>1. ShareScale \in Nat
    BY PrecisionAssumption
  <2>2. 2 * m \in Nat
    OBVIOUS
  <2>3. (2 * m) * ShareScale \in Nat
    BY <2>1, <2>2
  <2>. QED
    BY <2>3, PrecisionAssumption DEF Steps
<1>. DEFINE share(l) == (2 * m * w[l] * ShareScale + W) \div (2 * W)
<1>3. s = [l \in D |-> share(l)]
  BY <1>1 DEF ExactShares
<1>4. ASSUME NEW l \in D
      PROVE  /\ share(l) \in Int /\ share(l) >= 0
             /\ (2 * W) * share(l) <= A * w[l] + W
             /\ A * w[l] + W < (2 * W) * share(l) + 2 * W
  <2>1. w[l] \in Int /\ w[l] >= 0
    BY DEF Weighting
  <2>. PICK v : v = w[l]
    OBVIOUS
  <2>2. 2 * m * v * ShareScale = A * v
    <3>0. A = 2 * m * ShareScale
      BY DEF Steps
    <3>. PICK x \in Int : x = 2 * m
      OBVIOUS
    <3>. PICK S \in Int : S = ShareScale
      BY <1>2
    <3>1. x * v * S = x * S * v
      <4>1. (x * v) * S = x * (v * S) /\ v * S = S * v /\ x * (S * v) = (x * S) * v
        BY <2>1, Regroup
      <4>. QED
        BY <4>1
    <3>. QED
      BY <3>0, <3>1
  <2>. PICK a : a = A * v
    OBVIOUS
  <2>3. a \in Int /\ a >= 0
    <3>1. A \in Nat /\ v \in Nat
      BY <1>2, <2>1
    <3>2. A * v \in Nat
      BY <3>1
    <3>. QED
      BY <3>2
  <2>4. share(l) = (a + W) \div (2 * W)
    BY <2>2
  <2>. PICK d : d = 2 * W
    OBVIOUS
  <2>5. d \in Int /\ d > 0 /\ a + W \in Int /\ a + W >= 0
    BY <1>1, <2>3
  <2>6. /\ (a + W) \div d \in Int
        /\ d * ((a + W) \div d) <= a + W /\ a + W < d * ((a + W) \div d) + d
    BY <2>5, Division
  <2>7. (a + W) \div d >= 0
    BY <2>5
  <2>. QED
    BY <2>4, <2>6, <2>7
<1>. HIDE DEF share
<1>5. s \in [D -> Int] /\ \A l \in D : s[l] = share(l)
  BY <1>3, <1>4
<1>. QED
  BY <1>1, <1>2, <1>4, <1>5

\* The shares of a magnitude add up to it within half a step of each line.
LEMMA SharesAddUp ==
    ASSUME NEW D, NEW w, Weighting(w, D), NEW m \in Nat, NEW s, s = ExactShares(m, w)
    PROVE  /\ SumOn(s, D) \in Int /\ Cardinality(D) \in Nat
           /\ 2 * SumOn(s, D) <= 2 * m * ShareScale + Cardinality(D)
           /\ 2 * m * ShareScale <= 2 * SumOn(s, D) + Cardinality(D)
<1>. PICK W : W = SumOn(w, D)
  OBVIOUS
<1>. PICK A : A = Steps(m)
  OBVIOUS
<1>1. /\ s \in [D -> Int] /\ W \in Int /\ W > 0 /\ A \in Int /\ A >= 0
      /\ \A l \in D : /\ s[l] >= 0
                      /\ (2 * W) * s[l] <= A * w[l] + W
                      /\ A * w[l] + W < (2 * W) * s[l] + 2 * W
  BY SharesOf
<1>2. IsFiniteSet(D) /\ w \in [D -> Int] /\ Whole(w, D) /\ Whole(s, D)
  BY <1>1 DEF Weighting, Whole
<1>. PICK n : n = Cardinality(D)
  OBVIOUS
<1>3. n \in Nat
  BY <1>2, FS_CardinalityType
<1>. PICK S : S = SumOn(s, D)
  OBVIOUS
<1>4. S \in Int
  BY <1>2, SumTakeOff
<1>. PICK V \in Int : V = 2 * W
  BY <1>1
<1>. DEFINE fs == [l \in D |-> V * s[l]]
            fw == [l \in D |-> A * w[l]]
            c == [l \in D |-> W]
            e == [l \in D |-> V]
            lo == [l \in D |-> fw[l] + c[l]]
            hi == [l \in D |-> fs[l] + e[l]]
<1>5. (\A l \in D : fs[l] = V * s[l]) /\ (\A l \in D : fw[l] = A * w[l])
      /\ (\A l \in D : c[l] = W) /\ (\A l \in D : e[l] = V)
      /\ (\A l \in D : lo[l] = fw[l] + c[l]) /\ (\A l \in D : hi[l] = fs[l] + e[l])
  OBVIOUS
<1>0. /\ IsTimes(fs, V, s, D) /\ IsTimes(fw, A, w, D) /\ Alike(c, W, D) /\ Alike(e, V, D)
      /\ IsPlus(lo, fw, c, D) /\ IsPlus(hi, fs, e, D)
  BY <1>5 DEF IsTimes, Alike, IsPlus
<1>. HIDE DEF fs, fw, c, e, lo, hi
<1>6. Whole(fs, D) /\ SumOn(fs, D) = V * S
  BY <1>2, <1>0, SumTimes
<1>7. Whole(fw, D) /\ SumOn(fw, D) = A * W
  BY <1>1, <1>2, <1>0, SumTimes
<1>8. Whole(c, D) /\ SumOn(c, D) = W * n
  BY <1>1, <1>2, <1>0, SumOfConstant
<1>9. Whole(e, D) /\ SumOn(e, D) = V * n
  BY <1>2, <1>0, SumOfConstant
<1>10. Whole(lo, D) /\ SumOn(lo, D) = A * W + W * n
  BY <1>0, <1>7, <1>8, SumPlus
<1>11. Whole(hi, D) /\ SumOn(hi, D) = V * S + V * n
  BY <1>0, <1>6, <1>9, SumPlus
<1>12. \A l \in D : fs[l] <= lo[l] /\ lo[l] <= hi[l]
  <2>. TAKE l \in D
  <2>1. fs[l] \in Int /\ lo[l] \in Int /\ hi[l] \in Int
    BY <1>6, <1>10, <1>11 DEF Whole
  <2>2. fs[l] <= lo[l] /\ lo[l] < hi[l]
    BY <1>1, <1>5
  <2>. QED
    BY <2>1, <2>2
<1>13. V * S <= A * W + W * n /\ A * W + W * n <= V * S + V * n
  BY <1>6, <1>10, <1>11, <1>12, SumAtMost
<1>14. /\ V * S = W * (2 * S) /\ V * n = W * (2 * n) /\ A * W = W * A
  <2>1. \A x, y \in Int : (2 * x) * y = x * (2 * y) /\ x * y = y * x
    OBVIOUS
  <2>2. (2 * W) * S = W * (2 * S) /\ (2 * W) * n = W * (2 * n)
    BY <1>1, <1>3, <1>4
  <2>. QED
    BY <1>1, <2>1, <2>2
<1>15. /\ W * A + W * n = W * (A + n) /\ W * (2 * S) + W * (2 * n) = W * (2 * S + 2 * n)
  BY <1>1, <1>3, <1>4, Distributes
<1>16. W * (2 * S) <= W * (A + n) /\ W * (A + n) <= W * (2 * S + 2 * n)
  BY <1>13, <1>14, <1>15
<1>17. 2 * S <= A + n /\ A + n <= 2 * S + 2 * n
  <2>. PICK x \in Int : x = 2 * S
    BY <1>4
  <2>. PICK y \in Int : y = A + n
    BY <1>1, <1>3
  <2>. PICK z \in Int : z = 2 * S + 2 * n
    BY <1>3, <1>4
  <2>1. W * x <= W * y /\ W * y <= W * z
    BY <1>16
  <2>2. x <= y /\ y <= z
    BY <1>1, <2>1, Cancel
  <2>. QED
    BY <2>2
<1>. QED
  BY <1>1, <1>3, <1>4, <1>17 DEF Steps

\* A share cut down to whole minor units.
LEMMA CutDown ==
    ASSUME NEW s \in Int, s >= 0
    PROVE  /\ Settles(TruncateToMinorUnit(s)) /\ TruncateToMinorUnit(s) >= 0
           /\ ShareScale * TruncateToMinorUnit(s) <= s
           /\ s + 1 <= ShareScale * TruncateToMinorUnit(s) + ShareScale * Minor
<1>. PICK M \in Int : M = Minor /\ M > 0
  BY MinorType
<1>. PICK S \in Int : S = ShareScale /\ S > 0
  BY PrecisionAssumption
<1>. PICK q : q = s \div (M * S)
  OBVIOUS
<1>1. M * S \in Int /\ M * S > 0
  OBVIOUS
<1>. PICK c \in Int : c = M * S
  BY <1>1
<1>2. q \in Int /\ c * q <= s /\ s < c * q + c /\ q >= 0
  <2>1. c > 0 /\ q = s \div c
    BY <1>1
  <2>2. q \in Int /\ c * q <= s /\ s < c * q + c
    BY <2>1, Division
  <2>3. q >= 0
    BY <2>1
  <2>. QED
    BY <2>2, <2>3
<1>. PICK t : t = q * M
  OBVIOUS
<1>3. t = TruncateToMinorUnit(s) /\ t = M * q /\ t \in Int
  BY <1>2, Regroup DEF TruncateToMinorUnit
<1>4. t >= 0
  <2>1. M \in Nat /\ q \in Nat
    BY <1>2
  <2>2. M * q \in Nat
    BY <2>1
  <2>. QED
    BY <1>3, <2>2
<1>5. S * t = c * q /\ S * M = c
  <2>1. \A x, y, z \in Int : x * (y * z) = (y * x) * z /\ x * y = y * x
    OBVIOUS
  <2>2. S * (M * q) = (M * S) * q
    <3>. PICK z \in Int : z = q
      BY <1>2
    <3>1. S * (M * z) = (M * S) * z
      OBVIOUS
    <3>. QED
      BY <3>1
  <2>. QED
    BY <1>3, <2>1, <2>2
<1>6. Settles(t)
  BY <1>2, <1>3, SettlesBy
<1>. PICK x : x = c * q
  OBVIOUS
<1>7. x \in Int
  BY <1>2
<1>. QED
  BY <1>2, <1>3, <1>4, <1>5, <1>6, <1>7

\* The members of a relation that says which of two parts comes first.
ByRemainder(rem, D) ==
    {p \in D \X D : \/ rem[p[1]] > rem[p[2]]
                    \/ rem[p[1]] = rem[p[2]] /\ p[1] < p[2]}

\* Parts are numbered from 1.
Numbered(D, n) == n \in Nat /\ D = 1 .. n

\* What being numbered says.
LEMMA NumberedType ==
    ASSUME NEW D, NEW n, Numbered(D, n)
    PROVE  /\ n \in Nat /\ IsFiniteSet(D) /\ Cardinality(D) = n /\ D = 1 .. n
           /\ \A l \in D : l \in Int
<1>1. n \in Nat /\ D = 1 .. n
  BY DEF Numbered
<1>. QED
  BY <1>1, FS_Interval

\* The order by remainders has every line once.
LEMMA RemaindersOrder ==
    ASSUME NEW D, NEW n, Numbered(D, n), NEW rem \in [D -> Int],
           NEW o, o = OrderByLargestRemainder(rem)
    PROVE  o \in Bijection(1 .. n, D)
<1>0. PICK R : R = ByRemainder(rem, D)
  OBVIOUS
<1>1. \A k, l \in D : <<k, l>> \in R <=> \/ rem[k] > rem[l]
                                         \/ rem[k] = rem[l] /\ k < l
  BY <1>0 DEF ByRemainder
<1>2. StrictlyOrders(R, D)
  <2>1. \A k \in D : k \in Int /\ rem[k] \in Int
    BY NumberedType
  <2>. QED
    BY <1>1, <2>1 DEF StrictlyOrders
<1>3. Arranges(o, D, R)
  <2>1. DOMAIN rem = D
    OBVIOUS
  <2>. DEFINE before(l) == {k \in D : rem[k] > rem[l] \/ (rem[k] = rem[l] /\ k < l)}
              below(l) == {k \in D : <<k, l>> \in R}
  <2>2. \A l \in D : below(l) = before(l)
    BY <1>1
  <2>3. o = [i \in 1 .. Cardinality(D) |-> CHOOSE l \in D : Cardinality(before(l)) = i - 1]
    BY <2>1 DEF OrderByLargestRemainder, InOrder
  <2>4. \A i : (CHOOSE l \in D : Cardinality(before(l)) = i - 1)
                 = CHOOSE l \in D : Cardinality(below(l)) = i - 1
    <3>. HIDE DEF before, below
    <3>. QED
      BY <2>2
  <2>5. o = [i \in 1 .. Cardinality(D) |-> CHOOSE l \in D : Cardinality(below(l)) = i - 1]
    <3>. HIDE DEF before, below
    <3>. QED
      BY <2>3, <2>4
  <2>. QED
    BY <2>5 DEF Arranges
<1>4. IsFiniteSet(D) /\ Cardinality(D) = n
  BY NumberedType
<1>5. Queues(o, D, R)
  BY <1>2, <1>3, <1>4, Arranged
<1>. QED
  BY <1>2, <1>3, <1>4, <1>5 DEF Queues

\* What a split hands out starts with no more than the amount.
LEMMA CutSharesFit ==
    ASSUME NEW D, NEW n, Numbered(D, n), FewParts(n), NEW w, Weighting(w, D),
           NEW m \in Nat, Settles(m), NEW s, s = ExactShares(m, w),
           NEW t, t = [l \in D |-> TruncateToMinorUnit(s[l])]
    PROVE  /\ t \in [D -> Int] /\ Whole(t, D) /\ SumOn(t, D) \in Int
           /\ \A l \in D : t[l] >= 0 /\ Settles(t[l])
           /\ SumOn(t, D) < m + Minor
           /\ m <= SumOn(t, D) + Minor * n
<1>1. /\ s \in [D -> Int] /\ \A l \in D : s[l] \in Int /\ s[l] >= 0
  <2>. PICK W : W = SumOn(w, D)
    OBVIOUS
  <2>. PICK A : A = Steps(m)
    OBVIOUS
  <2>1. /\ s \in [D -> Int] /\ W \in Int /\ W > 0 /\ A \in Int /\ A >= 0
        /\ \A l \in D : /\ s[l] >= 0
                        /\ (2 * W) * s[l] <= A * w[l] + W
                        /\ A * w[l] + W < (2 * W) * s[l] + 2 * W
    BY SharesOf
  <2>. QED
    BY <2>1
<1>2. IsFiniteSet(D) /\ Cardinality(D) = n /\ n \in Nat
  BY NumberedType
<1>. PICK M \in Int : M = Minor /\ M > 0
  BY MinorType
<1>. PICK S \in Int : S = ShareScale /\ S > 0
  BY PrecisionAssumption
<1>3. ASSUME NEW l \in D
      PROVE  /\ Settles(TruncateToMinorUnit(s[l])) /\ TruncateToMinorUnit(s[l]) >= 0
             /\ S * TruncateToMinorUnit(s[l]) <= s[l]
             /\ s[l] + 1 <= S * TruncateToMinorUnit(s[l]) + S * M
             /\ t[l] = TruncateToMinorUnit(s[l])
  BY <1>1, CutDown
<1>4. t \in [D -> Int] /\ \A l \in D : t[l] >= 0 /\ Settles(t[l])
  <2>1. \A l \in D : t[l] \in Int
    BY <1>3 DEF Settles
  <2>2. t = [l \in D |-> t[l]]
    OBVIOUS
  <2>. QED
    BY <1>3, <2>1, <2>2
<1>5. Whole(t, D) /\ Whole(s, D)
  BY <1>1, <1>2, <1>4 DEF Whole
<1>. PICK T : T = SumOn(t, D)
  OBVIOUS
<1>. PICK U : U = SumOn(s, D)
  OBVIOUS
<1>6. T \in Int /\ U \in Int
  BY <1>5, SumTakeOff
<1>7. 2 * U <= Steps(m) + n /\ Steps(m) <= 2 * U + n
  BY <1>2, SharesAddUp DEF Steps
<1>. PICK c \in Int : c = S * M
  OBVIOUS
<1>. DEFINE f == [l \in D |-> S * t[l]]
            e == [l \in D |-> c]
            hi == [l \in D |-> f[l] + e[l]]
            one == [l \in D |-> 1]
            lo == [l \in D |-> s[l] + one[l]]
<1>8. IsTimes(f, S, t, D) /\ Alike(e, c, D) /\ IsPlus(hi, f, e, D) /\ Alike(one, 1, D)
      /\ IsPlus(lo, s, one, D) /\ (\A l \in D : f[l] = S * t[l] /\ e[l] = c /\ one[l] = 1
                                                /\ hi[l] = f[l] + e[l] /\ lo[l] = s[l] + one[l])
  BY DEF IsTimes, Alike, IsPlus
<1>. HIDE DEF f, e, hi, one, lo
<1>9. Whole(f, D) /\ SumOn(f, D) = S * T
  BY <1>5, <1>8, SumTimes
<1>10. Whole(e, D) /\ SumOn(e, D) = c * n
  BY <1>2, <1>8, SumOfConstant
<1>11. Whole(hi, D) /\ SumOn(hi, D) = S * T + c * n
  BY <1>8, <1>9, <1>10, SumPlus
<1>12. Whole(one, D) /\ SumOn(one, D) = n
  <2>. PICK k \in Int : k = 1
    OBVIOUS
  <2>1. Whole(one, D) /\ SumOn(one, D) = k * Cardinality(D)
    BY <1>2, <1>8, SumOfConstant
  <2>. QED
    BY <1>2, <2>1
<1>13. Whole(lo, D) /\ SumOn(lo, D) = U + n
  BY <1>5, <1>8, <1>12, SumPlus
<1>14. S * T <= U
  <2>1. \A l \in D : f[l] <= s[l]
    BY <1>3, <1>8
  <2>. QED
    BY <1>5, <1>9, <2>1, SumAtMost
<1>15. U + n <= S * T + c * n
  <2>1. \A l \in D : lo[l] <= hi[l]
    BY <1>3, <1>8
  <2>. QED
    BY <1>11, <1>13, <2>1, SumAtMost
<1>. PICK x \in Int : x = S * T
  BY <1>6
<1>. PICK y \in Int : y = S * m
  OBVIOUS
<1>. PICK z \in Int : z = c * n
  BY <1>2
<1>16. Steps(m) = 2 * y
  <2>1. 2 * m * S = 2 * (S * m)
    OBVIOUS
  <2>. QED
    BY <2>1 DEF Steps
<1>17. n < 2 * c
  <2>1. 2 * M * S = 2 * (S * M)
    OBVIOUS
  <2>. QED
    BY <2>1 DEF FewParts
<1>18. x < y + c /\ y <= x + z
  <2>1. 2 * U <= 2 * y + n /\ 2 * y <= 2 * U + n
    BY <1>7, <1>16
  <2>2. x <= U /\ U + n <= x + z
    BY <1>14, <1>15
  <2>3. U \in Int /\ x \in Int /\ y \in Int /\ z \in Int /\ c \in Int
    BY <1>6
  <2>4. \A a, b, d, e_, g \in Int :
            2 * b <= 2 * d + n /\ 2 * d <= 2 * b + n /\ a <= b /\ b + n <= a + e_ /\ n < 2 * g
              => a < d + g /\ d <= a + e_
    BY <1>2
  <2>. QED
    BY <1>17, <2>1, <2>2, <2>3, <2>4
<1>19. T < m + M
  <2>1. S * (m + M) = S * m + S * M
    OBVIOUS
  <2>. PICK k \in Int : k = m + M
    OBVIOUS
  <2>2. S * T < S * k
    BY <1>18, <2>1
  <2>3. T < k
    BY <1>6, <2>2, Cancel
  <2>. QED
    BY <2>3
<1>20. m <= T + M * n
  <2>1. S * (T + M * n) = S * T + S * (M * n) /\ S * (M * n) = (S * M) * n /\ M * n \in Int
    BY <1>2, <1>6
  <2>. PICK k : k = T + M * n
    OBVIOUS
  <2>0. k \in Int
    BY <1>6, <2>1
  <2>2. S * m <= S * k
    BY <1>18, <2>1
  <2>3. m <= k
    BY <2>0, <2>2, Cancel
  <2>. QED
    BY <2>3
<1>. QED
  BY <1>4, <1>5, <1>6, <1>19, <1>20

\* What a line is given: whole minor units, none below zero, and with nothing
\* to limit it less than one away from its exact share.
NearShare(part, share) ==
    ShareScale * (part - Minor) <= share /\ share < ShareScale * (part + Minor)

\* DistributeByLargestRemainder hands out the whole amount that way, whenever the
\* limits leave room for it.
LEMMA DistributePlaces ==
    ASSUME NEW D, NEW n, Numbered(D, n), FewParts(n), NEW w, Weighting(w, D),
           NEW m, Settles(m), m >= 0, NEW limit, Limits(limit, D),
           limit # NoLimit => \A l \in D : limit[l] >= 0,
           NEW s, s = ExactShares(m, w), NEW r, r = DistributeByLargestRemainder(m, s, limit)
    PROVE  /\ r.parts \in [D -> Int] /\ r = [error |-> r.error, parts |-> r.parts]
           /\ \A l \in D : /\ r.parts[l] >= 0 /\ Settles(r.parts[l])
                           /\ limit # NoLimit => r.parts[l] <= limit[l]
           /\ r.error = "NONE" => SumOn(r.parts, D) = m
           /\ limit = NoLimit => /\ r.error = "NONE"
                                 /\ \A l \in D : NearShare(r.parts[l], s[l])
           /\ limit # NoLimit /\ m <= SumOn(limit, D) => r.error = "NONE"
<1>1. m \in Nat /\ Minor \in Int /\ Minor > 0 /\ IsFiniteSet(D) /\ Cardinality(D) = n
      /\ n \in Nat
  <2>1. IsFiniteSet(D) /\ Cardinality(D) = n /\ n \in Nat
    BY NumberedType
  <2>. QED
    BY <2>1, MinorType DEF Settles
<1>2. s \in [D -> Int] /\ \A l \in D : s[l] \in Int /\ s[l] >= 0
  <2>. PICK W : W = SumOn(w, D)
    OBVIOUS
  <2>. PICK A : A = Steps(m)
    OBVIOUS
  <2>1. /\ s \in [D -> Int] /\ W \in Int /\ W > 0 /\ A \in Int /\ A >= 0
        /\ \A l \in D : /\ s[l] >= 0
                        /\ (2 * W) * s[l] <= A * w[l] + W
                        /\ A * w[l] + W < (2 * W) * s[l] + 2 * W
    BY <1>1, SharesOf
  <2>. QED
    BY <2>1
<1>. PICK t : t = [l \in D |-> TruncateToMinorUnit(s[l])]
  OBVIOUS
<1>3. /\ t \in [D -> Int] /\ Whole(t, D) /\ SumOn(t, D) \in Int
      /\ \A l \in D : t[l] >= 0 /\ Settles(t[l])
      /\ SumOn(t, D) < m + Minor
      /\ m <= SumOn(t, D) + Minor * n
  BY <1>1, CutSharesFit
<1>. DEFINE cut(l) == IF limit # NoLimit /\ t[l] > limit[l] THEN limit[l] ELSE t[l]
            rest(l) == s[l] - t[l] * ShareScale
<1>. PICK p : p = [l \in D |-> cut(l)]
  OBVIOUS
<1>. PICK rem : rem = [l \in D |-> rest(l)]
  OBVIOUS
<1>16. PICK split : split = [parts |-> p, left |-> m - SumOn(p, D)]
  OBVIOUS
<1>17. PICK order : order = OrderByLargestRemainder(rem)
  OBVIOUS
<1>4. ASSUME NEW l \in D
      PROVE  /\ cut(l) \in Int /\ cut(l) >= 0 /\ Settles(cut(l)) /\ cut(l) <= t[l]
             /\ limit # NoLimit => cut(l) <= limit[l]
             /\ limit = NoLimit => cut(l) = t[l]
             /\ rest(l) \in Int
  <2>1. t[l] \in Int /\ t[l] >= 0 /\ Settles(t[l]) /\ s[l] \in Int
    BY <1>2, <1>3
  <2>2. limit # NoLimit => limit[l] \in Int /\ Settles(limit[l]) /\ limit[l] >= 0
    BY DEF Limits
  <2>3. ShareScale \in Int
    BY PrecisionAssumption
  <2>4. rest(l) \in Int
    <3>. PICK a \in Int : a = t[l]
      BY <2>1
    <3>. PICK b \in Int : b = ShareScale
      BY <2>3
    <3>1. a * b \in Int
      OBVIOUS
    <3>. QED
      BY <2>1, <3>1
  <2>. HIDE DEF rest
  <2>. QED
    BY <2>1, <2>2, <2>4
<1>5. p \in [D -> Int] /\ rem \in [D -> Int] /\ (\A l \in D : p[l] = cut(l) /\ rem[l] = rest(l))
  <2>. HIDE DEF cut, rest
  <2>. QED
    BY <1>4
<1>6. /\ r = HandOutAll(split, limit, order)
      /\ limit = NoLimit => p = t
  <2>1. DOMAIN s = D /\ SumOn(p, D) = Total(p)
    BY <1>2, <1>5, TotalIsSum
  <2>2. \A l \in D : t[l] = TruncateToMinorUnit(s[l])
    OBVIOUS
  <2>. DEFINE whole == [l \in DOMAIN s |-> TruncateToMinorUnit(s[l])]
  <2>3. t = whole
    BY <2>1
  <2>4. p = [l \in DOMAIN s |-> IF limit # NoLimit /\ whole[l] > limit[l] THEN limit[l] ELSE whole[l]]
    <3>. HIDE DEF whole
    <3>. QED
      BY <2>1, <2>3
  <2>5. rem = [l \in DOMAIN s |-> s[l] - whole[l] * ShareScale]
    <3>. HIDE DEF whole
    <3>. QED
      BY <2>1, <2>3
  <2>6. r = HandOutAll([parts |-> p, left |-> m - Total(p)], limit, OrderByLargestRemainder(rem))
    BY <2>4, <2>5 DEF DistributeByLargestRemainder
  <2>7. limit = NoLimit => p = t
    <3>. HIDE DEF cut
    <3>. QED
      BY <1>3, <1>4, <1>5
  <2>. QED
    BY <1>16, <1>17, <2>1, <2>6, <2>7
<1>. HIDE DEF cut, rest
<1>7. Whole(p, D) /\ SumOn(p, D) <= SumOn(t, D) /\ SumOn(p, D) \in Int
  <2>1. Whole(p, D)
    BY <1>1, <1>5 DEF Whole
  <2>. QED
    BY <1>3, <1>4, <1>5, <2>1, SumAtMost, SumTakeOff
<1>8. Settles(SumOn(p, D))
  <2>. DEFINE P == {u \in SUBSET D : Settles(SumOn(p, u))}
  <2>1. {} \in P
    BY SumOfNothing, MinorType
  <2>2. \A u \in P : \A l \in D : u \subseteq D /\ l \notin u => u \cup {l} \in P
    <3>. SUFFICES ASSUME NEW u \in P, NEW l \in D, l \notin u PROVE Settles(SumOn(p, u \cup {l}))
      OBVIOUS
    <3>1. SumOn(p, u \cup {l}) = p[l] + SumOn(p, u)
      BY <1>7, SumPutOn
    <3>2. Settles(p[l])
      BY <1>4, <1>5
    <3>3. Settles(SumOn(p, u))
      OBVIOUS
    <3>4. Settles(p[l] + SumOn(p, u))
      BY <3>2, <3>3, SettlesPlus
    <3>. QED
      BY <3>1, <3>4
  <2>3. D \in P
    <3>. HIDE DEF P
    <3>. QED
      BY <1>1, <2>1, <2>2, Gathering
  <2>. QED
    BY <2>3
<1>9. split.left >= 0 /\ Settles(split.left) /\ split.left \in Int
  <2>1. Settles(m - SumOn(p, D))
    BY <1>8, SettlesPlus
  <2>2. ~(m < SumOn(p, D))
    <3>. SUFFICES ASSUME m < SumOn(p, D) PROVE FALSE
      OBVIOUS
    <3>1. m + Minor <= SumOn(p, D)
      BY <1>8, SettledApart
    <3>. QED
      BY <1>1, <1>3, <1>7, <3>1
  <2>. QED
    BY <1>1, <1>7, <1>16, <2>1, <2>2
<1>10. Placing(split, D, limit, m)
  <2>1. split \in Splits(D) /\ split.parts = p
    BY <1>5, <1>9, <1>16 DEF Splits
  <2>2. SumOn(split.parts, D) + split.left = m
    BY <1>1, <1>7, <1>16, <2>1
  <2>3. \A l \in D : /\ p[l] >= 0 /\ Settles(p[l])
                     /\ limit # NoLimit => p[l] <= limit[l]
    BY <1>4, <1>5
  <2>. QED
    BY <1>9, <2>1, <2>2, <2>3 DEF Placing
<1>11. order \in Bijection(1 .. n, D)
  BY <1>5, <1>17, RemaindersOrder
<1>12. limit = NoLimit => split.left <= Minor * n
  <2>. PICK x \in Int : x = Minor * n
    BY <1>1
  <2>. QED
    BY <1>1, <1>3, <1>6, <1>7, <1>16
<1>13. /\ r.parts \in [D -> Int] /\ r = [error |-> r.error, parts |-> r.parts]
       /\ \A l \in D : /\ r.parts[l] >= 0 /\ Settles(r.parts[l])
                       /\ limit # NoLimit => r.parts[l] <= limit[l]
       /\ r.error = "NONE" => SumOn(r.parts, D) = m
       /\ limit = NoLimit =>
            \A l \in D : r.parts[l] \in {split.parts[l], split.parts[l] + Minor}
       /\ limit = NoLimit /\ split.left <= Minor * n => r.error = "NONE"
       /\ limit # NoLimit /\ m <= SumOn(limit, D) => r.error = "NONE"
  BY <1>1, <1>6, <1>10, <1>11, HandOutAllPlaces
<1>14. ASSUME limit = NoLimit, NEW l \in D PROVE NearShare(r.parts[l], s[l])
  <2>. PICK a : a = r.parts[l]
    OBVIOUS
  <2>. PICK b : b = t[l]
    OBVIOUS
  <2>. PICK M \in Int : M = Minor /\ M > 0
    BY MinorType
  <2>. PICK S \in Int : S = ShareScale /\ S > 0
    BY PrecisionAssumption
  <2>1. a \in {b, b + M} /\ b \in Int /\ a \in Int
    BY <1>3, <1>6, <1>13, <1>14, <1>16
  <2>2. S * b <= s[l] /\ s[l] + 1 <= S * b + S * M /\ s[l] \in Int
    BY <1>2, CutDown
  <2>3. /\ S * (b - M) = S * b - S * M /\ S * (b + M) = S * b + S * M
        /\ S * (b + M - M) = S * b /\ S * (b + M + M) = S * b + 2 * (S * M)
        /\ S * M > 0 /\ S * b \in Int /\ S * M \in Int
    <3>. PICK k \in Int : k = b
      BY <2>1
    <3>1. S * M > 0 /\ S * M \in Int /\ S * k \in Int
      OBVIOUS
    <3>2. S * (k - M) = S * k - S * M /\ S * (k + M) = S * k + S * M
      OBVIOUS
    <3>3. k + M - M = k /\ S * (k + M + M) = S * k + 2 * (S * M)
      OBVIOUS
    <3>. QED
      BY <3>1, <3>2, <3>3
  <2>4. CASE a = b
    <3>1. S * (a - M) <= s[l] /\ s[l] < S * (a + M)
      BY <2>2, <2>3, <2>4
    <3>. QED
      BY <3>1 DEF NearShare
  <2>5. CASE a = b + M
    <3>1. S * (a - M) = S * b /\ S * (a + M) = S * b + 2 * (S * M)
      <4>1. a - M = b /\ a + M = b + M + M
        BY <2>1, <2>5
      <4>. QED
        BY <2>3, <4>1
    <3>2. S * (a - M) <= s[l] /\ s[l] < S * (a + M)
      BY <2>2, <2>3, <3>1
    <3>. QED
      BY <3>2 DEF NearShare
  <2>. QED
    BY <2>1, <2>4, <2>5
<1>. QED
  BY <1>12, <1>13, <1>14

-----------------------------------------------------------------------------
(* Rounding and the two callers.                                           *)

\* Rounding goes to the nearest minor unit, away from zero from the middle.
LEMMA Rounds ==
    ASSUME NEW x \in Int
    PROVE  /\ Settles(RoundToMinorUnit(x)) /\ RoundToMinorUnit(x) \in Int
           /\ 2 * RoundToMinorUnit(x) <= 2 * x + Minor
           /\ 2 * x <= 2 * RoundToMinorUnit(x) + Minor
           /\ x >= 0 => RoundToMinorUnit(x) >= 0 /\ 2 * x < 2 * RoundToMinorUnit(x) + Minor
           /\ x < 0 => 2 * RoundToMinorUnit(x) < 2 * x + Minor
           /\ x = 0 => RoundToMinorUnit(x) = 0
<1>. PICK M \in Int : M = Minor /\ M > 0
  BY MinorType
<1>1. PICK a \in Int : a = Magnitude(x) /\ a >= 0 /\ (x >= 0 => a = x) /\ (x < 0 => a = -x)
  BY DEF Magnitude
<1>. PICK d \in Int : d = 2 * M
  OBVIOUS
<1>2. PICK q : q = (2 * a + M) \div d
  OBVIOUS
<1>3. d > 0 /\ 2 * a + M \in Int /\ 2 * a + M >= 0
  BY <1>1
<1>4. q \in Int /\ d * q <= 2 * a + M /\ 2 * a + M < d * q + d /\ q >= 0
  <2>. PICK b \in Int : b = 2 * a + M
    OBVIOUS
  <2>1. b \div d \in Int /\ d * (b \div d) <= b /\ b < d * (b \div d) + d
    BY <1>3, Division
  <2>2. b \div d >= 0
    BY <1>3
  <2>. QED
    BY <1>2, <2>1, <2>2
<1>5. PICK m : m = q * M
  OBVIOUS
<1>6. m \in Int /\ d * q = 2 * m /\ m = M * q /\ m >= 0
  <2>. PICK z \in Int : z = q
    BY <1>4
  <2>1. (2 * M) * z = 2 * (z * M) /\ z * M = M * z /\ z * M \in Int
    OBVIOUS
  <2>2. z \in Nat /\ M \in Nat
    BY <1>4
  <2>3. z * M \in Nat
    BY <2>2
  <2>. QED
    BY <1>5, <2>1, <2>3
<1>7. Settles(m) /\ Settles(-m)
  <2>1. Settles(m)
    BY <1>4, <1>6, SettlesBy
  <2>. QED
    BY <2>1, SettlesPlus
<1>8. RoundToMinorUnit(x) = IF x < 0 THEN -m ELSE m
  BY <1>1, <1>2, <1>5 DEF RoundToMinorUnit
<1>9. 2 * m <= 2 * a + M /\ 2 * a < 2 * m + M
  BY <1>4, <1>6
<1>10. x = 0 => m = 0
  <2>. SUFFICES ASSUME x = 0 PROVE m = 0
    OBVIOUS
  <2>1. 2 * m <= M /\ Settles(m) /\ Settles(0)
    BY <1>1, <1>7, <1>9, MinorType
  <2>2. 0 < m => 0 + M <= m
    BY <2>1, SettledApart
  <2>. QED
    BY <1>6, <2>1, <2>2
<1>. QED
  BY <1>1, <1>6, <1>7, <1>8, <1>9, <1>10

\* A split of nothing gives nothing.
LEMMA PartsOfNothing ==
    ASSUME NEW f, NEW D, Whole(f, D), \A l \in D : f[l] >= 0, SumOn(f, D) = 0
    PROVE  \A l \in D : f[l] = 0
<1>. SUFFICES ASSUME NEW l \in D, f[l] # 0 PROVE FALSE
  OBVIOUS
<1>1. SumOn(f, D) = f[l] + SumOn(f, D \ {l}) /\ f[l] \in Int
  BY SumTakeOff DEF Whole
<1>. DEFINE z == [k \in D |-> 0]
<1>2. Whole(f, D \ {l}) /\ IsFiniteSet(D \ {l})
  BY WholePart DEF Whole
<1>3. \A k \in D \ {l} : z[k] = 0 /\ z[k] <= f[k]
  OBVIOUS
<1>. HIDE DEF z
<1>4. Whole(z, D \ {l}) /\ SumOn(z, D \ {l}) = 0
  BY <1>2, <1>3, SumOfZeros
<1>. PICK E : E = D \ {l}
  OBVIOUS
<1>5. 0 <= SumOn(f, E) /\ SumOn(f, E) \in Int
  <2>1. SumOn(z, E) <= SumOn(f, E)
    BY <1>2, <1>3, <1>4, SumAtMost
  <2>. QED
    BY <1>2, <1>4, <2>1, SumTakeOff
<1>. QED
  BY <1>1, <1>5

\* Exact parts none of which is below zero.
Parts(x, D) == IsFiniteSet(D) /\ x \in [D -> Int] /\ \A l \in D : x[l] >= 0

\* Such parts have a sum not below zero, which no one of them exceeds.
LEMMA PartsAddUp ==
    ASSUME NEW x, NEW D, Parts(x, D)
    PROVE  /\ Whole(x, D) /\ SumOn(x, D) \in Int /\ SumOn(x, D) >= 0 /\ Total(x) = SumOn(x, D)
           /\ SumOn(x, D) # 0 => Weighting(x, D)
           /\ \A l \in D : x[l] <= SumOn(x, D)
<1>1. Whole(x, D) /\ IsFiniteSet(D) /\ x \in [D -> Int]
  BY DEF Parts, Whole
<1>2. SumOn(x, D) \in Int /\ Total(x) = SumOn(x, D)
  <2>1. DOMAIN x = D
    BY <1>1
  <2>. QED
    BY <1>1, <2>1, SumTakeOff, TotalIsSum
<1>. DEFINE z == [k \in D |-> 0]
<1>3. \A k \in D : z[k] = 0 /\ z[k] <= x[k]
  BY DEF Parts
<1>. HIDE DEF z
<1>4. ASSUME NEW E \in SUBSET D PROVE SumOn(x, E) \in Int /\ SumOn(x, E) >= 0
  <2>1. Whole(x, E) /\ IsFiniteSet(E)
    BY <1>1, WholePart DEF Whole
  <2>2. Whole(z, E) /\ SumOn(z, E) = 0
    BY <1>3, <2>1, SumOfZeros
  <2>3. SumOn(z, E) <= SumOn(x, E)
    BY <1>3, <2>1, <2>2, SumAtMost
  <2>. QED
    BY <2>1, <2>2, <2>3, SumTakeOff
<1>5. SumOn(x, D) >= 0
  BY <1>4
<1>6. ASSUME NEW l \in D PROVE x[l] <= SumOn(x, D)
  <2>1. SumOn(x, D) = x[l] + SumOn(x, D \ {l}) /\ x[l] \in Int
    BY <1>1, SumTakeOff
  <2>2. SumOn(x, D \ {l}) \in Int /\ SumOn(x, D \ {l}) >= 0
    BY <1>4
  <2>. QED
    BY <2>1, <2>2
<1>. QED
  BY <1>1, <1>2, <1>5, <1>6 DEF Weighting, Parts

\* A settled part is within a minor unit of its exact part and what the whole
\* was moved by.
LEMMA PartStaysNear ==
    ASSUME NEW W \in Int, W > 0, NEW m \in Int, NEW x \in Int, x >= 0, x <= W,
           NEW s \in Int, NEW part \in Int, NEW A, A = Steps(m),
           (2 * W) * s <= A * x + W, A * x + W < (2 * W) * s + 2 * W,
           NearShare(part, s), NEW d \in Int, m - W <= d, W - m <= d, d >= 0
    PROVE  part - x <= Minor + d /\ x - part <= Minor + d
<1>. PICK M \in Int : M = Minor /\ M > 0
  BY MinorType
<1>. PICK S \in Int : S = ShareScale /\ S > 0
  BY PrecisionAssumption
<1>. PICK V \in Int : V = 2 * W /\ V > 0
  OBVIOUS
<1>. PICK B \in Int : B = 2 * S /\ B > 0
  OBVIOUS
<1>0. A = B * m
  <2>1. 2 * m * S = (2 * S) * m
    OBVIOUS
  <2>. QED
    BY <2>1 DEF Steps
<1>1. S * (part - M) <= s /\ s + 1 <= S * (part + M)
  <2>1. S * (part - M) <= s /\ s < S * (part + M) /\ S * (part + M) \in Int
    BY DEF NearShare
  <2>. QED
    BY <2>1
<1>2. ASSUME NEW k \in Int, B * k <= 1 PROVE k <= 0
  <2>. SUFFICES ASSUME k >= 1 PROVE FALSE
    OBVIOUS
  <2>1. B * k = B + B * (k - 1) /\ B * (k - 1) >= 0 /\ B >= 2
    OBVIOUS
  <2>. QED
    BY <1>2, <2>1
\* x * (m - W) is between -W * d and W * d
<1>3. x * (m - W) <= W * d /\ -(W * d) <= x * (m - W)
  <2>. PICK y \in Int : y = m - W
    OBVIOUS
  <2>1. W * d = x * d + (W - x) * d /\ x * d = x * y + x * (d - y) /\ x * d = x * (d + y) - x * y
    OBVIOUS
  <2>2. (W - x) * d >= 0 /\ x * (d - y) >= 0 /\ x * (d + y) >= 0
    <3>1. \A a, b \in Nat : a * b \in Nat
      OBVIOUS
    <3>2. W - x \in Nat /\ d \in Nat /\ x \in Nat /\ d - y \in Nat /\ d + y \in Nat
      OBVIOUS
    <3>3. (W - x) * d \in Nat /\ x * (d - y) \in Nat /\ x * (d + y) \in Nat
      BY <3>1, <3>2
    <3>. QED
      BY <3>3
  <2>. QED
    BY <2>1, <2>2
<1>4. V * s <= B * m * x + W /\ B * m * x + W < V * s + V
  BY <1>0
<1>. PICK u \in Int : u = part - M - x - d
  OBVIOUS
<1>. PICK v \in Int : v = x - part - M - d
  OBVIOUS
<1>5. W * (B * u) <= W * 1
  <2>1. W * (B * u) = V * (S * (part - M)) - W * B * x - W * B * d
    OBVIOUS
  <2>2. V * (S * (part - M)) <= V * s
    <3>. PICK e \in Int : e = S * (part - M)
      OBVIOUS
    <3>. QED
      BY <1>1, Cancel
  <2>3. B * m * x = B * (x * (m - W)) + W * B * x
    OBVIOUS
  <2>4. B * (x * (m - W)) <= B * (W * d)
    <3>. PICK e \in Int : e = x * (m - W)
      OBVIOUS
    <3>. PICK g \in Int : g = W * d
      OBVIOUS
    <3>. QED
      BY <1>3, Cancel
  <2>5. B * (W * d) = W * B * d
    OBVIOUS
  <2>. QED
    BY <1>4, <2>1, <2>2, <2>3, <2>4, <2>5
<1>6. W * (B * v) <= W * 1
  <2>1. W * (B * v) = W * B * x - W * B * d - V * (S * (part + M))
    OBVIOUS
  <2>2. V * (s + 1) <= V * (S * (part + M)) /\ V * (s + 1) = V * s + V
    <3>. PICK e \in Int : e = S * (part + M)
      OBVIOUS
    <3>. PICK g \in Int : g = s + 1
      OBVIOUS
    <3>1. V * g <= V * e
      BY <1>1, Cancel
    <3>2. V * (s + 1) = V * s + V
      OBVIOUS
    <3>. QED
      BY <3>1, <3>2
  <2>3. B * m * x = B * (x * (m - W)) + W * B * x
    OBVIOUS
  <2>4. B * (-(W * d)) <= B * (x * (m - W)) /\ B * (-(W * d)) = -(B * (W * d))
    <3>. PICK e \in Int : e = x * (m - W)
      OBVIOUS
    <3>. PICK g \in Int : g = -(W * d)
      OBVIOUS
    <3>1. B * g <= B * e
      BY <1>3, Cancel
    <3>2. B * (-(W * d)) = -(B * (W * d))
      OBVIOUS
    <3>. QED
      BY <3>1, <3>2
  <2>5. B * (W * d) = W * B * d
    OBVIOUS
  <2>. QED
    BY <1>4, <2>1, <2>2, <2>3, <2>4, <2>5
<1>7. B * u <= 1 /\ B * v <= 1
  <2>. PICK e \in Int : e = B * u
    OBVIOUS
  <2>. PICK g \in Int : g = B * v
    OBVIOUS
  <2>. PICK one \in Int : one = 1
    OBVIOUS
  <2>1. W * e <= W * one /\ W * g <= W * one
    BY <1>5, <1>6
  <2>2. e <= one /\ g <= one
    BY <2>1, Cancel
  <2>. QED
    BY <2>2
<1>8. u <= 0 /\ v <= 0
  BY <1>2, <1>7
<1>. QED
  BY <1>8

\* The parts of a settled total.
LEMMA SettlesAcross ==
    ASSUME NEW D, NEW n, Numbered(D, n), FewParts(n), NEW x, Parts(x, D),
           NEW T, Settles(T), T >= 0, NEW r, r = SettleTotalAcrossParts(T, x)
    PROVE  /\ r.parts \in [D -> Int] /\ r = [error |-> r.error, parts |-> r.parts]
           /\ SumOn(x, D) # 0 \/ T = 0 => r.error = "NONE"
           /\ r.error = "NONE" =>
                /\ SumOn(r.parts, D) = T
                /\ \A l \in D : /\ r.parts[l] >= 0 /\ Settles(r.parts[l])
                                /\ \A d \in Int :
                                    T - SumOn(x, D) <= d /\ SumOn(x, D) - T <= d /\ d >= 0 =>
                                        /\ r.parts[l] - x[l] <= Minor + d
                                        /\ x[l] - r.parts[l] <= Minor + d
<1>. PICK W : W = SumOn(x, D)
  OBVIOUS
<1>1. /\ Whole(x, D) /\ W \in Int /\ W >= 0 /\ Total(x) = W
      /\ W # 0 => Weighting(x, D)
      /\ \A l \in D : x[l] <= W
  BY PartsAddUp
<1>2. x \in [D -> Int] /\ DOMAIN x = D /\ (\A l \in D : x[l] \in Int /\ x[l] >= 0)
      /\ IsFiniteSet(D)
  BY DEF Parts
<1>3. T \in Int /\ Magnitude(T) = T /\ Minor \in Int /\ Minor > 0
  BY MinorType DEF Settles, Magnitude
<1>4. CASE W = 0
  <2>1. r = [error |-> IF T = 0 THEN "NONE" ELSE "ALLOCATION_INVARIANT",
             parts |-> [p \in D |-> 0]]
    BY <1>1, <1>2, <1>4 DEF SettleTotalAcrossParts
  <2>2. \A l \in D : r.parts[l] = 0 /\ x[l] = 0
    BY <1>1, <1>4, <2>1, PartsOfNothing DEF Parts
  <2>. PICK q : q = r.parts
    OBVIOUS
  <2>3. SumOn(q, D) = 0
    BY <1>2, <2>2, SumOfZeros
  <2>. QED
    BY <1>3, <1>4, <2>1, <2>2, <2>3, MinorType
<1>5. CASE W # 0
  <2>1. PICK s : s = ExactShares(T, x)
    OBVIOUS
  <2>2. r = DistributeByLargestRemainder(T, s, NoLimit)
    BY <1>1, <1>3, <1>5, <2>1 DEF SettleTotalAcrossParts, Signed
  <2>3. PICK no : no = NoLimit /\ Limits(no, D)
    BY DEF Limits
  <2>4. /\ r.parts \in [D -> Int] /\ r = [error |-> r.error, parts |-> r.parts]
        /\ \A l \in D : /\ r.parts[l] >= 0 /\ Settles(r.parts[l])
                        /\ no # NoLimit => r.parts[l] <= no[l]
        /\ r.error = "NONE" => SumOn(r.parts, D) = T
        /\ no = NoLimit => /\ r.error = "NONE"
                           /\ \A l \in D : NearShare(r.parts[l], s[l])
        /\ no # NoLimit /\ T <= SumOn(no, D) => r.error = "NONE"
    BY <1>1, <1>5, <2>1, <2>2, <2>3, DistributePlaces
  <2>5. PICK A : A = Steps(T)
    OBVIOUS
  <2>6. /\ s \in [D -> Int] /\ W \in Int /\ W > 0 /\ A \in Int /\ A >= 0
        /\ \A l \in D : /\ s[l] >= 0
                        /\ (2 * W) * s[l] <= A * x[l] + W
                        /\ A * x[l] + W < (2 * W) * s[l] + 2 * W
    BY <1>1, <1>3, <1>5, <2>1, <2>5, SharesOf
  <2>7. ASSUME NEW l \in D, NEW d \in Int, T - W <= d, W - T <= d, d >= 0
        PROVE  r.parts[l] - x[l] <= Minor + d /\ x[l] - r.parts[l] <= Minor + d
    <3>. PICK part : part = r.parts[l]
      OBVIOUS
    <3>. PICK y : y = x[l]
      OBVIOUS
    <3>. PICK sh : sh = s[l]
      OBVIOUS
    <3>1. part \in Int /\ y \in Int /\ y >= 0 /\ y <= W /\ sh \in Int /\ NearShare(part, sh)
      BY <1>1, <1>2, <2>3, <2>4, <2>6
    <3>2. (2 * W) * sh <= A * y + W /\ A * y + W < (2 * W) * sh + 2 * W
      BY <2>6
    <3>3. part - y <= Minor + d /\ y - part <= Minor + d
      BY <1>3, <2>5, <2>6, <2>7, <3>1, <3>2, PartStaysNear
    <3>. QED
      BY <3>3
  <2>. QED
    BY <2>3, <2>4, <2>7
<1>. QED
  BY <1>4, <1>5

-----------------------------------------------------------------------------
(* Weights of lines, and what their parts come to.                         *)

\* A settled amount leaves no remainder.
LEMMA SettledRemainder ==
    ASSUME NEW x, Settles(x)
    PROVE  x % Minor = 0 /\ (x \div Minor) * Minor = x
<1>. PICK M \in Int : M = Minor /\ M > 0
  BY MinorType
<1>1. PICK q \in Int : x = M * q
  BY DEF Settles
<1>. PICK y \in Int : y = x
  BY DEF Settles
<1>2. y \div M = q
  BY <1>1, Quotient
<1>3. y = M * (y \div M) + (y % M) /\ y % M \in Int
  OBVIOUS
<1>4. M * q = q * M
  OBVIOUS
<1>. PICK z \in Int : z = M * q
  BY <1>1
<1>. QED
  BY <1>1, <1>2, <1>3, <1>4

\* Lines an amount can be put on.
Carries(lines, D) ==
    /\ DOMAIN lines = D
    /\ \A l \in D : lines[l].value \in Nat /\ lines[l].quantity \in Nat

\* The weights of lines are not below zero, nor all zero when they can be used.
LEMMA WeightsType ==
    ASSUME NEW D, IsFiniteSet(D), NEW lines, Carries(lines, D), NEW method \in Methods
    PROVE  /\ Parts(Weights(lines, method), D)
           /\ WeightingError(lines, method) = "NONE" => Weighting(Weights(lines, method), D)
<1>. DEFINE weight(l) == CASE method = "EQUAL_PER_LINE" -> 1
                           [] method = "BY_MERCHANDISE_VALUE" -> lines[l].value
                           [] method = "BY_QUANTITY" -> lines[l].quantity
<1>1. PICK w : w = Weights(lines, method)
  OBVIOUS
<1>2. w = [l \in D |-> weight(l)]
  BY <1>1 DEF Weights, Carries
<1>3. \A l \in D : weight(l) \in Nat
  BY DEF Carries, Methods
<1>. HIDE DEF weight
<1>4. Parts(w, D)
  <2>1. w \in [D -> Int] /\ \A l \in D : w[l] >= 0
    BY <1>2, <1>3
  <2>. QED
    BY <2>1 DEF Parts
<1>5. WeightingError(lines, method) = "NONE" => SumOn(w, D) # 0
  BY <1>1, <1>4, PartsAddUp DEF WeightingError
<1>. QED
  BY <1>1, <1>4, <1>5, PartsAddUp

\* What the lines can still give back.
Room(capacity, D) ==
    capacity # NoLimit => /\ capacity \in [D -> Int]
                          /\ \A l \in D : capacity[l] >= 0 /\ Settles(capacity[l])

\* A target the allocator takes.
SameSide(amount, target) ==
    /\ amount \in Int /\ Settles(target)
    /\ target > 0 => amount > 0
    /\ target < 0 => amount < 0

\* The parts of an amount: whole minor units, on its side of zero, adding up to
\* the target, within what the lines can give back; and nothing but a weighting
\* without a base or too little room stands in the way.
LEMMA AllocatesAmount ==
    ASSUME NEW D, NEW n, Numbered(D, n), FewParts(n), NEW lines, Carries(lines, D),
           NEW method \in Methods, NEW amount, NEW target, SameSide(amount, target),
           NEW capacity, Room(capacity, D),
           NEW r, r = AllocateAmount(amount, lines, method, target, capacity)
    PROVE  /\ r.parts \in [D -> Int] /\ r = [error |-> r.error, parts |-> r.parts]
           /\ WeightingError(lines, method) # "NONE" => r.error = WeightingError(lines, method)
           /\ WeightingError(lines, method) = "NONE" =>
                /\ capacity = NoLimit \/ Magnitude(target) <= SumOn(capacity, D) => r.error = "NONE"
                /\ r.error = "NONE" =>
                    /\ SumOn(r.parts, D) = target
                    /\ \A l \in D :
                        /\ Settles(r.parts[l])
                        /\ target >= 0 => r.parts[l] >= 0
                        /\ target <= 0 => r.parts[l] <= 0
                        /\ capacity # NoLimit => -r.parts[l] <= capacity[l]
<1>. PICK e : e = WeightingError(lines, method)
  OBVIOUS
<1>0. DOMAIN lines = D /\ IsFiniteSet(D)
  BY NumberedType DEF Carries
<1>1. CASE e # "NONE"
  <2>1. r = [error |-> e, parts |-> [l \in D |-> 0]]
    BY <1>0, <1>1 DEF AllocateAmount
  <2>. QED
    BY <1>1, <2>1
<1>2. CASE e = "NONE"
  <2>1. PICK m : m = Magnitude(target)
    OBVIOUS
  <2>2. target \in Int /\ amount \in Int /\ m \in Int /\ m >= 0 /\ Settles(m)
        /\ (target >= 0 => m = target) /\ (target < 0 => m = -target)
    <3>1. target \in Int /\ amount \in Int /\ Settles(target)
      BY DEF SameSide, Settles
    <3>2. Settles(-target)
      BY <3>1, SettlesPlus
    <3>. QED
      BY <2>1, <3>1, <3>2 DEF Magnitude
  <2>3. TargetFits(amount, target)
    <3>1. target % Minor = 0
      BY SettledRemainder DEF SameSide
    <3>2. target = 0 \/ (amount # 0 /\ (target < 0) = (amount < 0))
      BY <2>2 DEF SameSide
    <3>. QED
      BY <3>1, <3>2 DEF TargetFits
  <2>4. ~\E l \in DOMAIN capacity : capacity[l] < 0
    <3>1. CASE capacity = NoLimit
      BY <3>1 DEF NoLimit
    <3>2. CASE capacity # NoLimit
      BY <3>2 DEF Room
    <3>. QED
      BY <3>1, <3>2
  <2>5. Limits(capacity, D) /\ (capacity # NoLimit => \A l \in D : capacity[l] >= 0)
    BY DEF Limits, Room
  <2>6. capacity # NoLimit =>
            capacity = [l \in DOMAIN capacity |-> (capacity[l] \div Minor) * Minor]
    <3>. SUFFICES ASSUME capacity # NoLimit
                  PROVE  capacity = [l \in DOMAIN capacity |-> (capacity[l] \div Minor) * Minor]
      OBVIOUS
    <3>1. capacity \in [D -> Int] /\ \A l \in D : (capacity[l] \div Minor) * Minor = capacity[l]
      BY SettledRemainder DEF Room
    <3>. DEFINE floor(l) == (capacity[l] \div Minor) * Minor
    <3>2. \A l \in D : floor(l) = capacity[l]
      BY <3>1
    <3>3. capacity = [l \in DOMAIN capacity |-> floor(l)]
      <4>. HIDE DEF floor
      <4>. QED
        BY <3>1, <3>2
    <3>. QED
      BY <3>3
  <2>7. PICK w : w = Weights(lines, method) /\ Weighting(w, D)
    BY <1>0, <1>2, WeightsType
  <2>8. PICK s : s = ExactShares(m, w)
    OBVIOUS
  <2>9. PICK q : q = DistributeByLargestRemainder(m, s, capacity)
    OBVIOUS
  <2>10. r = Signed(q, amount)
    <3>. DEFINE limit == IF capacity = NoLimit THEN NoLimit
                         ELSE [l \in DOMAIN capacity |-> (capacity[l] \div Minor) * Minor]
    <3>1. limit = capacity
      BY <2>6
    <3>2. r = Signed(DistributeByLargestRemainder(m, s, limit), amount)
      BY <1>2, <2>1, <2>3, <2>4, <2>7, <2>8 DEF AllocateAmount
    <3>. HIDE DEF limit
    <3>. QED
      BY <2>9, <3>1, <3>2
  <2>11. /\ q.parts \in [D -> Int] /\ q = [error |-> q.error, parts |-> q.parts]
         /\ \A l \in D : /\ q.parts[l] >= 0 /\ Settles(q.parts[l])
                         /\ capacity # NoLimit => q.parts[l] <= capacity[l]
         /\ q.error = "NONE" => SumOn(q.parts, D) = m
         /\ capacity = NoLimit => /\ q.error = "NONE"
                                  /\ \A l \in D : NearShare(q.parts[l], s[l])
         /\ capacity # NoLimit /\ m <= SumOn(capacity, D) => q.error = "NONE"
    BY <2>2, <2>5, <2>7, <2>8, <2>9, DistributePlaces
  <2>12. CASE amount >= 0
    <3>1. r = q /\ target >= 0 /\ m = target
      BY <2>2, <2>10, <2>12 DEF Signed, SameSide
    <3>2. \A l \in D : target <= 0 /\ q.error = "NONE" => q.parts[l] = 0
      <4>. SUFFICES ASSUME target <= 0, q.error = "NONE" PROVE \A l \in D : q.parts[l] = 0
        OBVIOUS
      <4>. PICK p : p = q.parts
        OBVIOUS
      <4>1. Whole(p, D) /\ (\A l \in D : p[l] >= 0) /\ SumOn(p, D) = 0
        BY <1>0, <2>2, <2>11, <3>1 DEF Whole
      <4>2. \A l \in D : p[l] = 0
        BY <4>1, PartsOfNothing
      <4>. QED
        BY <4>2
    <3>3. \A l \in D : capacity # NoLimit => capacity[l] >= 0 /\ capacity[l] \in Int
      BY DEF Room
    <3>4. \A l \in D : q.parts[l] \in Int
      BY <2>11
    <3>. QED
      BY <1>2, <2>1, <2>11, <3>1, <3>2, <3>3, <3>4
  <2>13. CASE amount < 0
    <3>. DEFINE neg == [l \in D |-> -q.parts[l]]
    <3>1. r = [error |-> q.error, parts |-> neg] /\ target <= 0 /\ m = -target
      <4>1. DOMAIN q.parts = D /\ q = [error |-> q.error, parts |-> q.parts]
        BY <2>11
      <4>2. Signed(q, amount) = [q EXCEPT !.parts = [l \in DOMAIN q.parts |-> -q.parts[l]]]
        BY <2>13 DEF Signed
      <4>3. r = [q EXCEPT !.parts = neg]
        BY <2>10, <4>1, <4>2
      <4>. HIDE DEF neg
      <4>4. r = [error |-> q.error, parts |-> neg]
        BY <4>1, <4>3
      <4>. QED
        BY <2>2, <2>13, <4>4 DEF SameSide
    <3>2. \A l \in D : neg[l] = -q.parts[l] /\ q.parts[l] \in Int /\ q.parts[l] >= 0
      BY <2>11
    <3>3. neg \in [D -> Int]
      BY <3>2
    <3>4. PICK c \in Int : c = -1
      OBVIOUS
    <3>. PICK p : p = q.parts
      OBVIOUS
    <3>5. IsTimes(neg, c, p, D) /\ Whole(p, D)
      BY <1>0, <3>2, <3>4 DEF IsTimes, Whole
    <3>. HIDE DEF neg
    <3>6. SumOn(neg, D) = c * SumOn(p, D) /\ SumOn(p, D) \in Int
      BY <3>5, SumTimes, SumTakeOff
    <3>7. q.error = "NONE" => SumOn(neg, D) = target
      <4>1. q.error = "NONE" => SumOn(p, D) = m
        BY <2>11
      <4>2. c * SumOn(p, D) = -SumOn(p, D)
        BY <3>4, <3>6
      <4>. QED
        BY <2>2, <3>1, <3>6, <4>1, <4>2
    <3>8. ASSUME NEW l \in D
          PROVE  /\ Settles(neg[l]) /\ neg[l] <= 0 /\ (capacity # NoLimit => -neg[l] <= capacity[l])
                 /\ q.error = "NONE" /\ target >= 0 => neg[l] >= 0
      <4>1. Settles(-q.parts[l]) /\ -(-q.parts[l]) = q.parts[l]
        BY <2>11, <3>2, SettlesPlus
      <4>2. q.error = "NONE" /\ target >= 0 => q.parts[l] = 0
        <5>. SUFFICES ASSUME q.error = "NONE", target >= 0 PROVE p[l] = 0
          OBVIOUS
        <5>1. SumOn(p, D) = 0
          BY <2>2, <2>11, <3>1
        <5>2. \A k \in D : p[k] >= 0
          BY <3>2
        <5>. QED
          BY <3>5, <5>1, <5>2, PartsOfNothing
      <4>. QED
        BY <2>11, <3>2, <4>1, <4>2
    <3>9. r.parts = neg /\ r.error = q.error /\ r = [error |-> r.error, parts |-> r.parts]
      BY <3>1
    <3>. QED
      BY <1>2, <2>1, <2>11, <3>3, <3>7, <3>8, <3>9
  <2>. QED
    BY <2>2, <2>12, <2>13
<1>. QED
  BY <1>1, <1>2

-----------------------------------------------------------------------------
(* What a supplier's costs come to.                                        *)

\* A supplier's costs, few enough to be shared out.
CostList(costs, D, n) == Numbered(D, n) /\ FewParts(n) /\ costs \in [D -> Cost]

\* No cost says what it may not.
Sound(costs, D) == \A i \in D : CostError(costs[i]) = "NONE"

\* The stages of a calculation, and the bases a percentage may use in each.
Stages == {"DISCOUNT", "FREIGHT_INSURANCE", "OTHER_COST", "SURCHARGE"}
FirstBases == {"MERCHANDISE"}
SecondBases == {"MERCHANDISE", "MERCHANDISE_AFTER_DISCOUNT"}
AllBases == {"MERCHANDISE", "MERCHANDISE_AFTER_DISCOUNT", "MERCHANDISE_PLUS_FREIGHT_INSURANCE"}

\* Every cost is of one stage, a discount of the first.
LEMMA StageOf ==
    ASSUME NEW c \in Cost
    PROVE  /\ EvaluationStage(c) \in Stages
           /\ EvaluationStage(c) = "DISCOUNT" <=> c.kind = "DISCOUNT"
  BY DEF Cost, EvaluationStage, Stages

\* The bases a percentage may use, stage by stage.
LEMMA BasesAllowed ==
    /\ AllowedBases("DISCOUNT") = FirstBases
    /\ AllowedBases("FREIGHT_INSURANCE") = SecondBases
    /\ AllowedBases("OTHER_COST") = AllBases
    /\ AllowedBases("SURCHARGE") = AllBases
  BY DEF AllowedBases, FirstBases, SecondBases, AllBases

\* The magnitude of a sound cost, the bases of its stage being resolved.
LEMMA MagnitudeOfOne ==
    ASSUME NEW c \in Cost, CostError(c) = "NONE", NEW b, NEW B,
           \A a \in B : b[a] \in Nat, AllowedBases(EvaluationStage(c)) \subseteq B
    PROVE  BaseCurrencyAmount(c, b) \in Nat
<1>1. CASE c.basis = "FIXED"
  <2>1. c.amount \in Nat
    BY <1>1 DEF CostError, Cost
  <2>2. c.currency \in Currencies
    BY DEF Cost
  <2>. PICK a \in Nat : a = c.amount
    BY <2>1
  <2>. PICK r \in Nat : r = Rate[c.currency]
    BY <2>2, RatesAssumption
  <2>3. a * r \in Nat
    OBVIOUS
  <2>. QED
    BY <1>1, <2>3 DEF BaseCurrencyAmount, ConvertToBaseCurrency
<1>2. CASE c.basis # "FIXED"
  <2>1. c.base \in B
    BY <1>2 DEF CostError
  <2>. PICK a \in Nat : a = b[c.base]
    BY <2>1
  <2>. PICK r \in Nat : r = c.rate
    BY DEF Cost
  <2>2. a * r \in Nat
    OBVIOUS
  <2>. PICK x \in Nat : x = a * r
    BY <2>2
  <2>3. x \div 100 \in Nat
    OBVIOUS
  <2>. QED
    BY <1>2, <2>3 DEF BaseCurrencyAmount, ApplyRate
<1>. QED
  BY <1>1, <1>2

\* The costs of a stage that count towards a base.
InStage(costs, stage) ==
    {j \in DOMAIN costs : EvaluationStage(costs[j]) = stage /\ AffectsPercentageBases(costs[j])}

\* What a stage contributes to the next base is the sum of its magnitudes.
LEMMA StageAddsUp ==
    ASSUME NEW D, NEW n, NEW costs, CostList(costs, D, n), Sound(costs, D), NEW stage \in Stages,
           NEW b, \A a \in AllowedBases(stage) : b[a] \in Nat,
           NEW f, f = [i \in InStage(costs, stage) |-> BaseCurrencyAmount(costs[i], b)]
    PROVE  /\ Parts(f, InStage(costs, stage))
           /\ SumMagnitudes(costs, stage, b) = SumOn(f, InStage(costs, stage))
           /\ SumMagnitudes(costs, stage, b) \in Nat
<1>1. costs \in [D -> Cost] /\ DOMAIN costs = D /\ IsFiniteSet(D)
  BY NumberedType DEF CostList
<1>. PICK E : E = InStage(costs, stage)
  OBVIOUS
<1>2. E \in SUBSET D /\ IsFiniteSet(E)
  BY <1>1, FS_Subset DEF InStage
<1>3. ASSUME NEW i \in E PROVE BaseCurrencyAmount(costs[i], b) \in Nat
  <2>. PICK B : B = AllowedBases(stage)
    OBVIOUS
  <2>. PICK c \in Cost : c = costs[i]
    BY <1>1, <1>2
  <2>1. EvaluationStage(c) = stage /\ CostError(c) = "NONE" /\ \A a \in B : b[a] \in Nat
    BY <1>2 DEF InStage, Sound
  <2>2. AllowedBases(EvaluationStage(c)) \subseteq B
    BY <2>1
  <2>. QED
    BY <2>1, <2>2, MagnitudeOfOne
<1>4. f \in [E -> Int] /\ \A i \in E : f[i] >= 0
  <2>. DEFINE at(i) == BaseCurrencyAmount(costs[i], b)
  <2>1. f = [i \in E |-> at(i)] /\ \A i \in E : at(i) \in Nat
    BY <1>3
  <2>. HIDE DEF at
  <2>. QED
    BY <2>1
<1>5. Parts(f, E)
  BY <1>2, <1>4 DEF Parts
<1>6. SumMagnitudes(costs, stage, b) = Total(f)
  BY DEF SumMagnitudes, InStage
<1>7. SumMagnitudes(costs, stage, b) = SumOn(f, E) /\ SumOn(f, E) \in Int /\ SumOn(f, E) >= 0
  BY <1>5, <1>6, PartsAddUp
<1>. QED
  BY <1>5, <1>7

\* What a discount is a percentage of.
FirstBase(m) == [a \in {"MERCHANDISE"} |-> m]

\* The bases of each stage.
LEMMA BasesOf ==
    ASSUME NEW D, NEW n, NEW costs, CostList(costs, D, n), Sound(costs, D), NEW m \in Nat,
           NEW b, b = PercentageBases(m, costs)
    PROVE  /\ DOMAIN b = AllBases /\ b["MERCHANDISE"] = m
           /\ b["MERCHANDISE_AFTER_DISCOUNT"]
                = m - SumMagnitudes(costs, "DISCOUNT", FirstBase(m))
           /\ b["MERCHANDISE_AFTER_DISCOUNT"] \in Int
           /\ b["MERCHANDISE_AFTER_DISCOUNT"] >= 0 => \A a \in AllBases : b[a] \in Nat
<1>1. PICK first : first = FirstBase(m)
  OBVIOUS
<1>2. PICK after : after = m - SumMagnitudes(costs, "DISCOUNT", first)
  OBVIOUS
<1>3. PICK second : second = [a \in {"MERCHANDISE", "MERCHANDISE_AFTER_DISCOUNT"} |->
                                IF a = "MERCHANDISE" THEN m ELSE after]
  OBVIOUS
<1>4. PICK plus : plus = after + SumMagnitudes(costs, "FREIGHT_INSURANCE", second)
  OBVIOUS
<1>5. b = [a \in AllBases |-> CASE a = "MERCHANDISE" -> m
                                [] a = "MERCHANDISE_AFTER_DISCOUNT" -> after
                                [] OTHER -> plus]
  BY <1>1, <1>2, <1>3, <1>4, BasesAllowed DEF PercentageBases, FirstBase
<1>6. /\ DOMAIN b = AllBases /\ b["MERCHANDISE"] = m /\ b["MERCHANDISE_AFTER_DISCOUNT"] = after
      /\ b["MERCHANDISE_PLUS_FREIGHT_INSURANCE"] = plus
  BY <1>5 DEF AllBases
<1>7. SumMagnitudes(costs, "DISCOUNT", first) \in Nat
  <2>1. \A a \in AllowedBases("DISCOUNT") : first[a] \in Nat
    BY <1>1, BasesAllowed DEF FirstBases, FirstBase
  <2>. QED
    BY <2>1, StageAddsUp DEF Stages
<1>8. after >= 0 => SumMagnitudes(costs, "FREIGHT_INSURANCE", second) \in Nat
  <2>. SUFFICES ASSUME after >= 0 PROVE SumMagnitudes(costs, "FREIGHT_INSURANCE", second) \in Nat
    OBVIOUS
  <2>1. \A a \in AllowedBases("FREIGHT_INSURANCE") : second[a] \in Nat
    BY <1>2, <1>3, <1>7, BasesAllowed DEF SecondBases
  <2>. QED
    BY <2>1, StageAddsUp DEF Stages
<1>9. after >= 0 => \A a \in AllBases : b[a] \in Nat
  BY <1>2, <1>4, <1>6, <1>7, <1>8 DEF AllBases
<1>. QED
  BY <1>1, <1>2, <1>6, <1>7, <1>9

\* What every cost comes to.
LEMMA MagnitudesOf ==
    ASSUME NEW D, NEW n, NEW costs, CostList(costs, D, n), Sound(costs, D), NEW m \in Nat,
           NEW b, b = PercentageBases(m, costs), b["MERCHANDISE_AFTER_DISCOUNT"] >= 0
    PROVE  \A i \in D : BaseCurrencyAmount(costs[i], b) \in Nat
<1>. TAKE i \in D
<1>1. \A a \in AllBases : b[a] \in Nat
  BY BasesOf
<1>. PICK B : B = AllBases
  OBVIOUS
<1>2. PICK c \in Cost : c = costs[i]
  BY DEF CostList
<1>3. EvaluationStage(c) \in Stages /\ CostError(c) = "NONE"
  BY <1>2, StageOf DEF Sound
<1>4. AllowedBases(EvaluationStage(c)) \subseteq B
  BY <1>3, BasesAllowed DEF Stages, FirstBases, SecondBases, AllBases
<1>. QED
  BY <1>1, <1>2, <1>3, <1>4, MagnitudeOfOne

\* No two costs have the same id.
DifferentIds(costs, D) == \A i, j \in D : costs[i].id = costs[j].id => i = j

\* Costs what each comes to can be told of.
Ready(costs, D, n, m) ==
    /\ CostList(costs, D, n) /\ Sound(costs, D) /\ m \in Nat
    /\ PercentageBases(m, costs)["MERCHANDISE_AFTER_DISCOUNT"] >= 0
    /\ DifferentIds(costs, D)

\* Costs that nothing is refused for are ready.
LEMMA AcceptedAreReady ==
    ASSUME NEW D, NEW n, NEW costs, CostList(costs, D, n), NEW m \in Int,
           InputError(m, costs) = "NONE"
    PROVE  Ready(costs, D, n, m)
<1>1. DOMAIN costs = D /\ D \in SUBSET Nat
  BY NumberedType DEF CostList, Numbered
<1>. PICK faulty : faulty = {i \in D : CostError(costs[i]) # "NONE"}
  OBVIOUS
<1>. PICK first : first = CHOOSE i \in faulty : \A j \in faulty : i <= j
  OBVIOUS
<1>2. faulty # {} => InputError(m, costs) = CostError(costs[first])
  BY <1>1 DEF InputError
<1>3. faulty # {} => first \in faulty
  <2>. SUFFICES ASSUME faulty # {} PROVE first \in faulty
    OBVIOUS
  <2>1. \E i \in faulty : \A j \in faulty : i <= j
    BY <1>1, LeastNumber
  <2>. QED
    BY <2>1
<1>4. faulty = {}
  BY <1>2, <1>3
<1>5. Sound(costs, D)
  BY <1>4 DEF Sound
<1>6. InputError(m, costs) = "NONE" =>
        /\ ~\E i, j \in DOMAIN costs : i # j /\ costs[i].id = costs[j].id
        /\ ~(m < 0)
        /\ ~(PercentageBases(m, costs)["MERCHANDISE_AFTER_DISCOUNT"] < 0)
  BY <1>1, <1>4 DEF InputError
<1>7. DifferentIds(costs, D) /\ m \in Nat
  BY <1>1, <1>6 DEF DifferentIds
<1>8. PercentageBases(m, costs)["MERCHANDISE_AFTER_DISCOUNT"] >= 0
  <2>. PICK b : b = PercentageBases(m, costs)
    OBVIOUS
  <2>1. b["MERCHANDISE_AFTER_DISCOUNT"] \in Int
    BY <1>5, <1>7, BasesOf
  <2>. QED
    BY <1>6, <2>1
<1>. QED
  BY <1>5, <1>7, <1>8 DEF Ready

\* What the entries say of each cost.
EntriesSay(E, costs, D, m, b) ==
    /\ E.magnitudes \in [D -> Int] /\ E.effects \in [D -> Int]
    /\ \A i \in D : /\ E.magnitudes[i] = BaseCurrencyAmount(costs[i], b) /\ E.magnitudes[i] >= 0
                    /\ E.effects[i] = SignedEffect(costs[i], E.magnitudes[i])
    /\ E.bases = b
    /\ E.landed \in Int /\ E.landed = m + SumOn(E.effects, D)
    /\ E.settledMerchandise = RoundToMinorUnit(m)
    /\ E.settledLanded = RoundToMinorUnit(E.landed)

\* The entries of costs that can be calculated say what they should.
LEMMA EntriesOfReady ==
    ASSUME NEW D, NEW n, NEW costs, NEW m, Ready(costs, D, n, m),
           NEW b, b = PercentageBases(m, costs), NEW E, E = Entries(m, costs, b)
    PROVE  EntriesSay(E, costs, D, m, b)
<1>1. /\ CostList(costs, D, n) /\ Sound(costs, D) /\ m \in Nat
      /\ b["MERCHANDISE_AFTER_DISCOUNT"] >= 0
  BY DEF Ready
<1>2. DOMAIN costs = D /\ IsFiniteSet(D)
  BY <1>1, NumberedType DEF CostList
<1>3. \A i \in D : BaseCurrencyAmount(costs[i], b) \in Nat
  BY <1>1, MagnitudesOf
<1>. DEFINE magnitude(i) == BaseCurrencyAmount(costs[i], b)
            effect(i) == SignedEffect(costs[i], magnitude(i))
            ms == [i \in D |-> magnitude(i)]
            es == [i \in D |-> effect(i)]
<1>4. ms \in [D -> Int] /\ \A i \in D : ms[i] = magnitude(i) /\ ms[i] >= 0
  <2>. HIDE DEF magnitude
  <2>1. \A i \in D : magnitude(i) \in Nat
    BY <1>3 DEF magnitude
  <2>. QED
    BY <2>1
<1>5. \A i \in D : effect(i) \in Int
  BY <1>3 DEF SignedEffect
<1>6. es \in [D -> Int] /\ \A i \in D : es[i] = effect(i)
  <2>. HIDE DEF effect
  <2>. QED
    BY <1>5
<1>7. es = [i \in D |-> SignedEffect(costs[i], ms[i])]
  OBVIOUS
<1>8. /\ E.magnitudes = ms /\ E.effects = es /\ E.bases = b
      /\ E.landed = m + Total(es) /\ E.settledMerchandise = RoundToMinorUnit(m)
      /\ E.settledLanded = RoundToMinorUnit(E.landed)
  BY <1>2, <1>7 DEF Entries
<1>9. \A i \in D : es[i] = SignedEffect(costs[i], ms[i]) /\ ms[i] = BaseCurrencyAmount(costs[i], b)
  BY <1>4, <1>6
<1>. HIDE DEF ms, es
<1>10. Total(es) = SumOn(es, D) /\ SumOn(es, D) \in Int
  <2>1. Whole(es, D) /\ DOMAIN es = D
    BY <1>2, <1>6 DEF Whole
  <2>. QED
    BY <2>1, SumTakeOff, TotalIsSum
<1>. QED
  BY <1>1, <1>4, <1>6, <1>8, <1>9, <1>10 DEF EntriesSay

\* Which side of the ledger an entry is on.
LEMMA EffectSides ==
    ASSUME NEW D, NEW n, NEW costs, NEW m, Ready(costs, D, n, m),
           NEW b, NEW E, EntriesSay(E, costs, D, m, b), NEW i \in D
    PROVE  /\ E.effects[i] \in Int
           /\ E.effects[i] > 0 => costs[i].kind # "DISCOUNT" /\ Contributes(costs[i])
           /\ E.effects[i] < 0 => costs[i].kind = "DISCOUNT" /\ Contributes(costs[i])
           /\ E.effects[i] # 0 => Magnitude(E.effects[i]) = E.magnitudes[i]
  BY DEF EntriesSay, SignedEffect, Magnitude

\* The discounts together take no more than the merchandise.
LEMMA LandedIsNotBelowZero ==
    ASSUME NEW D, NEW n, NEW costs, NEW m, Ready(costs, D, n, m),
           NEW b, b = PercentageBases(m, costs), NEW E, EntriesSay(E, costs, D, m, b)
    PROVE  E.landed \in Int /\ E.landed >= 0
<1>. DEFINE K == InStage(costs, "DISCOUNT")
            first == FirstBase(m)
            f == [i \in K |-> BaseCurrencyAmount(costs[i], first)]
<1>1. /\ CostList(costs, D, n) /\ Sound(costs, D) /\ m \in Nat
      /\ b["MERCHANDISE_AFTER_DISCOUNT"] >= 0
  BY DEF Ready
<1>2. DOMAIN costs = D /\ IsFiniteSet(D) /\ costs \in [D -> Cost]
  BY <1>1, NumberedType DEF CostList
<1>3. /\ DOMAIN b = AllBases /\ b["MERCHANDISE"] = m
      /\ b["MERCHANDISE_AFTER_DISCOUNT"] = m - SumMagnitudes(costs, "DISCOUNT", first)
      /\ b["MERCHANDISE_AFTER_DISCOUNT"] \in Int
      /\ b["MERCHANDISE_AFTER_DISCOUNT"] >= 0 => \A a \in AllBases : b[a] \in Nat
  <2>. HIDE DEF K
  <2>1. /\ DOMAIN b = AllBases /\ b["MERCHANDISE"] = m
        /\ b["MERCHANDISE_AFTER_DISCOUNT"]
             = m - SumMagnitudes(costs, "DISCOUNT", FirstBase(m))
        /\ b["MERCHANDISE_AFTER_DISCOUNT"] \in Int
        /\ b["MERCHANDISE_AFTER_DISCOUNT"] >= 0 => \A a \in AllBases : b[a] \in Nat
    BY <1>1, BasesOf
  <2>. QED
    BY <2>1
<1>4. /\ Parts(f, K) /\ SumMagnitudes(costs, "DISCOUNT", first) = SumOn(f, K)
      /\ SumMagnitudes(costs, "DISCOUNT", first) \in Nat
  <2>1. \A a \in AllowedBases("DISCOUNT") : first[a] \in Nat
    BY <1>1, BasesAllowed DEF FirstBases, FirstBase
  <2>2. "DISCOUNT" \in Stages
    BY DEF Stages
  <2>. PICK g : g = f
    OBVIOUS
  <2>. PICK fb : fb = first
    OBVIOUS
  <2>3. g = [i \in InStage(costs, "DISCOUNT") |-> BaseCurrencyAmount(costs[i], fb)]
    OBVIOUS
  <2>4. \A a \in AllowedBases("DISCOUNT") : fb[a] \in Nat
    BY <2>1
  <2>. HIDE DEF f, first
  <2>5. /\ Parts(g, InStage(costs, "DISCOUNT"))
        /\ SumMagnitudes(costs, "DISCOUNT", fb) = SumOn(g, InStage(costs, "DISCOUNT"))
        /\ SumMagnitudes(costs, "DISCOUNT", fb) \in Nat
    BY <1>1, <2>2, <2>3, <2>4, StageAddsUp
  <2>. QED
    BY <2>5
<1>5. SumOn(f, K) <= m /\ SumOn(f, K) \in Int
  BY <1>1, <1>3, <1>4
<1>6. ASSUME NEW i \in K PROVE i \in D /\ f[i] = E.magnitudes[i] /\ E.effects[i] >= -f[i]
  <2>1. i \in D /\ costs[i] \in Cost /\ EvaluationStage(costs[i]) = "DISCOUNT"
        /\ CostError(costs[i]) = "NONE"
    BY <1>1, <1>2 DEF InStage, Sound
  <2>2. costs[i].kind = "DISCOUNT"
    BY <2>1, StageOf
  <2>3. costs[i].basis # "FIXED" => costs[i].base = "MERCHANDISE"
    BY <2>1, BasesAllowed DEF CostError, FirstBases
  <2>4. BaseCurrencyAmount(costs[i], first) = BaseCurrencyAmount(costs[i], b)
    BY <1>3, <2>3 DEF BaseCurrencyAmount, FirstBase
  <2>5. f[i] = BaseCurrencyAmount(costs[i], first)
    OBVIOUS
  <2>. QED
    BY <2>1, <2>2, <2>4, <2>5 DEF EntriesSay, SignedEffect
<1>7. ASSUME NEW i \in D, i \notin K PROVE E.effects[i] >= 0
  <2>1. costs[i] \in Cost
    BY <1>2
  <2>2. costs[i].kind = "DISCOUNT" => costs[i].included
    BY <1>2, <1>7, <2>1, StageOf DEF InStage, AffectsPercentageBases
  <2>. QED
    BY <2>2 DEF EntriesSay, SignedEffect, Contributes
<1>. PICK e : e = E.effects
  OBVIOUS
<1>8. Whole(e, D) /\ K \in SUBSET D
  BY <1>2, <1>6 DEF EntriesSay, Whole
<1>9. SumOn(e, D) = SumOn(e, K) + SumOn(e, D \ K) /\ SumOn(e, K) \in Int /\ SumOn(e, D \ K) \in Int
  BY <1>8, SumOfTwo
<1>. PICK g : g = f
  OBVIOUS
<1>. PICK L : L = K
  OBVIOUS
<1>. DEFINE neg == [i \in L |-> -g[i]]
<1>10. SumOn(e, L) >= -SumOn(g, L)
  <2>1. Whole(g, L) /\ \A i \in L : g[i] \in Int
    BY <1>4, PartsAddUp DEF Parts
  <2>2. PICK c \in Int : c = -1
    OBVIOUS
  <2>3. IsTimes(neg, c, g, L)
    BY <2>1, <2>2 DEF IsTimes
  <2>4. \A i \in L : neg[i] <= e[i]
    BY <1>6
  <2>. HIDE DEF neg, f, K
  <2>5. Whole(neg, L) /\ SumOn(neg, L) = c * SumOn(g, L)
    BY <2>1, <2>3, SumTimes
  <2>6. Whole(e, L)
    BY <1>8, WholePart
  <2>7. SumOn(neg, L) <= SumOn(e, L)
    BY <2>4, <2>5, <2>6, SumAtMost
  <2>8. c * SumOn(g, L) = -SumOn(g, L)
    BY <1>5, <2>2
  <2>. QED
    BY <2>5, <2>7, <2>8
<1>11. SumOn(e, D \ L) >= 0
  <2>. PICK F : F = D \ L
    OBVIOUS
  <2>. DEFINE z == [i \in F |-> 0]
  <2>1. IsFiniteSet(F) /\ Whole(e, F)
    BY <1>2, <1>8, FS_Subset, WholePart
  <2>2. \A i \in F : z[i] = 0 /\ z[i] <= e[i]
    BY <1>7
  <2>. HIDE DEF z
  <2>3. Whole(z, F) /\ SumOn(z, F) = 0
    BY <2>1, <2>2, SumOfZeros
  <2>4. SumOn(z, F) <= SumOn(e, F)
    BY <2>1, <2>2, <2>3, SumAtMost
  <2>. QED
    BY <2>3, <2>4
<1>12. E.landed = m + SumOn(e, D)
  BY DEF EntriesSay
<1>. HIDE DEF K, f
<1>. QED
  BY <1>1, <1>5, <1>9, <1>10, <1>11, <1>12

-----------------------------------------------------------------------------
(* Leaving a cost out of the comparison.                                   *)

\* The same costs, of which one is compared in the one and not in the other.
Toggled(o, costs, D, i) ==
    /\ o \in [D -> Cost]
    /\ \A j \in D : j # i => o[j] = costs[j]
    /\ o[i].compared = ~costs[i].compared
    /\ \A j \in D : /\ o[j].id = costs[j].id /\ o[j].kind = costs[j].kind
                    /\ o[j].category = costs[j].category /\ o[j].basis = costs[j].basis
                    /\ o[j].currency = costs[j].currency /\ o[j].amount = costs[j].amount
                    /\ o[j].rate = costs[j].rate /\ o[j].base = costs[j].base
                    /\ o[j].included = costs[j].included /\ o[j].method = costs[j].method

\* A cost with the other answer is a cost.
LEMMA ToggledCosts ==
    ASSUME NEW D, NEW costs \in [D -> Cost], NEW i \in D,
           NEW o, o = [costs EXCEPT ![i].compared = ~@]
    PROVE  Toggled(o, costs, D, i)
<1>1. PICK c \in Cost : c = costs[i]
  OBVIOUS
<1>2. PICK u : u = [c EXCEPT !.compared = ~c.compared]
  OBVIOUS
<1>3. c.compared \in BOOLEAN
  BY DEF Cost
<1>4. /\ u \in Cost /\ u.compared = ~c.compared
      /\ u.id = c.id /\ u.kind = c.kind /\ u.category = c.category /\ u.basis = c.basis
      /\ u.currency = c.currency /\ u.amount = c.amount /\ u.rate = c.rate /\ u.base = c.base
      /\ u.included = c.included /\ u.method = c.method
  BY <1>2, <1>3 DEF Cost
<1>5. o = [costs EXCEPT ![i] = u]
  BY <1>1, <1>2
<1>6. o \in [D -> Cost] /\ o[i] = u /\ \A j \in D : j # i => o[j] = costs[j]
  BY <1>4, <1>5
<1>. QED
  BY <1>1, <1>4, <1>6 DEF Toggled

\* What is left out still comes to what it came to, and so does every base.
LEMMA ToggledMagnitudes ==
    ASSUME NEW D, NEW costs \in [D -> Cost], NEW i \in D, NEW o, Toggled(o, costs, D, i)
    PROVE  /\ \A j \in D : \A b : BaseCurrencyAmount(o[j], b) = BaseCurrencyAmount(costs[j], b)
           /\ \A stage, b : SumMagnitudes(o, stage, b) = SumMagnitudes(costs, stage, b)
           /\ \A m : PercentageBases(m, o) = PercentageBases(m, costs)
<1>1. DOMAIN o = D /\ DOMAIN costs = D
  BY DEF Toggled
<1>2. \A j \in D : \A b : BaseCurrencyAmount(o[j], b) = BaseCurrencyAmount(costs[j], b)
  BY DEF Toggled, BaseCurrencyAmount
<1>3. ASSUME NEW stage, NEW b
      PROVE  SumMagnitudes(o, stage, b) = SumMagnitudes(costs, stage, b)
  <2>. PICK S : S = InStage(costs, stage)
    OBVIOUS
  <2>1. InStage(o, stage) = S /\ S \subseteq D
    BY <1>1 DEF InStage, Toggled, EvaluationStage, AffectsPercentageBases
  <2>. DEFINE here(j) == BaseCurrencyAmount(costs[j], b)
              there(j) == BaseCurrencyAmount(o[j], b)
  <2>2. SumMagnitudes(costs, stage, b) = Total([j \in S |-> here(j)])
    BY DEF SumMagnitudes, InStage
  <2>3. SumMagnitudes(o, stage, b) = Total([j \in S |-> there(j)])
    BY <2>1 DEF SumMagnitudes, InStage
  <2>4. \A j \in S : here(j) = there(j)
    BY <1>2, <2>1
  <2>. HIDE DEF here, there
  <2>5. [j \in S |-> here(j)] = [j \in S |-> there(j)]
    BY <2>4
  <2>. QED
    BY <2>2, <2>3, <2>5
<1>4. ASSUME NEW m PROVE PercentageBases(m, o) = PercentageBases(m, costs)
  <2>. DEFINE first == [b \in {"MERCHANDISE"} |-> m]
  <2>1. PICK after : /\ after = m - SumMagnitudes(costs, "DISCOUNT", first)
                     /\ after = m - SumMagnitudes(o, "DISCOUNT", first)
    BY <1>3
  <2>. DEFINE second == [b \in {"MERCHANDISE", "MERCHANDISE_AFTER_DISCOUNT"} |->
                            IF b = "MERCHANDISE" THEN m ELSE after]
  <2>2. PICK plus : /\ plus = after + SumMagnitudes(costs, "FREIGHT_INSURANCE", second)
                    /\ plus = after + SumMagnitudes(o, "FREIGHT_INSURANCE", second)
    BY <1>3
  <2>. DEFINE all == [b \in AllowedBases("OTHER_COST") |->
                        CASE b = "MERCHANDISE" -> m
                          [] b = "MERCHANDISE_AFTER_DISCOUNT" -> after
                          [] OTHER -> plus]
  <2>3. PercentageBases(m, costs) = all
    BY <2>1, <2>2 DEF PercentageBases
  <2>4. PercentageBases(m, o) = all
    BY <2>1, <2>2 DEF PercentageBases
  <2>. HIDE DEF all
  <2>. QED
    BY <2>3, <2>4
<1>. QED
  BY <1>2, <1>3, <1>4

\* Costs that are ready are ready with one left out.
LEMMA ToggledReady ==
    ASSUME NEW D, NEW n, NEW costs, NEW m, Ready(costs, D, n, m), NEW i \in D,
           NEW o, Toggled(o, costs, D, i)
    PROVE  Ready(o, D, n, m) /\ PercentageBases(m, o) = PercentageBases(m, costs)
<1>1. costs \in [D -> Cost] /\ PercentageBases(m, o) = PercentageBases(m, costs)
  BY ToggledMagnitudes DEF Ready, CostList
<1>2. CostList(o, D, n) /\ DifferentIds(o, D)
  BY DEF Ready, CostList, DifferentIds, Toggled
<1>3. Sound(o, D)
  BY DEF Ready, Sound, Toggled, CostError, EvaluationStage
<1>. QED
  BY <1>1, <1>2, <1>3 DEF Ready

\* The magnitudes stay, and the total moves by that one.
LEMMA ToggledEntries ==
    ASSUME NEW D, NEW n, NEW costs, NEW m, Ready(costs, D, n, m), NEW i \in D,
           NEW o, Toggled(o, costs, D, i), NEW b, b = PercentageBases(m, costs),
           NEW E, EntriesSay(E, costs, D, m, b), NEW F, EntriesSay(F, o, D, m, b)
    PROVE  /\ F.magnitudes = E.magnitudes
           /\ Magnitude(F.landed - E.landed) = IF costs[i].included THEN 0 ELSE E.magnitudes[i]
<1>0. costs \in [D -> Cost] /\ IsFiniteSet(D)
  BY NumberedType DEF Ready, CostList
<1>1. \A j \in D : F.magnitudes[j] = E.magnitudes[j]
  <2>1. \A j \in D : \A a : BaseCurrencyAmount(o[j], a) = BaseCurrencyAmount(costs[j], a)
    BY <1>0, ToggledMagnitudes
  <2>2. \A j \in D : BaseCurrencyAmount(o[j], b) = BaseCurrencyAmount(costs[j], b)
    BY <2>1
  <2>. QED
    BY <2>2 DEF EntriesSay
<1>2. F.magnitudes = E.magnitudes
  BY <1>1 DEF EntriesSay
<1>3. \A j \in D : j # i => F.effects[j] = E.effects[j]
  BY <1>1 DEF EntriesSay, Toggled
<1>. PICK e : e = E.effects
  OBVIOUS
<1>. PICK f : f = F.effects
  OBVIOUS
<1>4. Whole(e, D) /\ Whole(f, D) /\ e[i] \in Int /\ f[i] \in Int
  BY <1>0 DEF EntriesSay, Whole
<1>. PICK R : R = D \ {i}
  OBVIOUS
<1>5. SumOn(e, D) = e[i] + SumOn(e, R) /\ SumOn(f, D) = f[i] + SumOn(f, R)
  BY <1>4, SumTakeOff
<1>6. SumOn(f, R) = SumOn(e, R) /\ SumOn(e, R) \in Int
  <2>1. Whole(e, R) /\ \A j \in R : e[j] = f[j]
    BY <1>3, <1>4, WholePart
  <2>. QED
    BY <2>1, SumSame, SumTakeOff
<1>. PICK x \in Int : x = e[i]
  BY <1>4
<1>. PICK y \in Int : y = f[i]
  BY <1>4
<1>. PICK s \in Int : s = SumOn(e, R)
  BY <1>6
<1>7. E.landed = m + (x + s) /\ F.landed = m + (y + s) /\ m \in Int
  BY <1>5, <1>6 DEF EntriesSay, Ready
<1>8. F.landed - E.landed = y - x
  BY <1>7
<1>. PICK a \in Int : a = E.magnitudes[i] /\ a >= 0
  BY DEF EntriesSay
<1>9. Magnitude(y - x) = IF costs[i].included THEN 0 ELSE a
  <2>1. /\ x = SignedEffect(costs[i], a) /\ y = SignedEffect(o[i], a)
        /\ o[i].included = costs[i].included /\ o[i].kind = costs[i].kind
        /\ o[i].compared = ~costs[i].compared
    BY <1>1 DEF EntriesSay, Toggled
  <2>2. CASE costs[i].included
    BY <2>1, <2>2 DEF SignedEffect, Contributes, Magnitude
  <2>3. CASE ~costs[i].included
    <3>1. CASE costs[i].compared
      <4>1. y = 0 /\ (x = a \/ x = -a)
        BY <2>1, <2>3, <3>1 DEF SignedEffect, Contributes
      <4>. QED
        BY <2>3, <4>1 DEF Magnitude
    <3>2. CASE ~costs[i].compared
      <4>1. x = 0 /\ (y = a \/ y = -a)
        BY <2>1, <2>3, <3>2 DEF SignedEffect, Contributes
      <4>. QED
        BY <2>3, <4>1 DEF Magnitude
    <3>. QED
      BY <3>1, <3>2
  <2>. QED
    BY <2>2, <2>3
<1>. QED
  BY <1>2, <1>8, <1>9

\* What a calculation keeps of its entries.
LEMMA CalculatedKeeps ==
    ASSUME NEW m, NEW costs, NEW E, E = Entries(m, costs, PercentageBases(m, costs)),
           NEW c, c = Calculated(m, costs)
    PROVE  LET r == ReconcileSettledEffects(costs, E.effects,
                                            E.settledLanded - E.settledMerchandise)
           IN
           /\ c.bases = E.bases /\ c.magnitudes = E.magnitudes /\ c.effects = E.effects
           /\ c.landed = E.landed /\ c.settledMerchandise = E.settledMerchandise
           /\ c.settledLanded = E.settledLanded /\ c.settledEffects = r.effects
           /\ c.error = IF /\ r.error = "NONE"
                           /\ ~(E.settledMerchandise + Total(r.effects) = E.settledLanded)
                        THEN "SETTLEMENT_RECONCILIATION" ELSE r.error
  BY DEF Calculated, Settled, WithSettledEffects

\* Leaving a cost out moves the total by what it comes to and nothing else.
LEMMA LeavingOneOut ==
    ASSUME NEW D, NEW n, NEW costs, NEW m, Ready(costs, D, n, m), NEW i \in D,
           NEW o, Toggled(o, costs, D, i),
           NEW c, c = Calculated(m, costs), NEW d, d = Calculated(m, o)
    PROVE  /\ c.bases["MERCHANDISE"] = m /\ d.magnitudes = c.magnitudes
           /\ Magnitude(d.landed - c.landed) = IF costs[i].included THEN 0 ELSE c.magnitudes[i]
<1>1. Toggled(o, costs, D, i)
  OBVIOUS
<1>2. Ready(o, D, n, m) /\ PercentageBases(m, o) = PercentageBases(m, costs)
  BY <1>1, ToggledReady
<1>3. PICK b : b = PercentageBases(m, costs) /\ b = PercentageBases(m, o)
  BY <1>2
<1>4. PICK E : E = Entries(m, costs, b)
  OBVIOUS
<1>5. PICK F : F = Entries(m, o, b)
  OBVIOUS
<1>6. EntriesSay(E, costs, D, m, b)
  BY <1>3, <1>4, EntriesOfReady
<1>7. EntriesSay(F, o, D, m, b)
  BY <1>2, <1>3, <1>5, EntriesOfReady
<1>8. /\ F.magnitudes = E.magnitudes
      /\ Magnitude(F.landed - E.landed) = IF costs[i].included THEN 0 ELSE E.magnitudes[i]
  <2>1. b = PercentageBases(m, costs)
    BY <1>3
  <2>. QED
    BY <1>1, <1>6, <1>7, <2>1, ToggledEntries
<1>9. c.bases = b /\ c.magnitudes = E.magnitudes /\ c.landed = E.landed
  <2>1. E = Entries(m, costs, PercentageBases(m, costs)) /\ E.bases = b
    BY <1>3, <1>4, <1>6 DEF EntriesSay
  <2>2. c.bases = E.bases /\ c.magnitudes = E.magnitudes /\ c.landed = E.landed
    BY <2>1, CalculatedKeeps
  <2>. QED
    BY <2>1, <2>2
<1>10. d.magnitudes = F.magnitudes /\ d.landed = F.landed
  <2>1. F = Entries(m, o, PercentageBases(m, o))
    BY <1>3, <1>5
  <2>. QED
    BY <2>1, CalculatedKeeps
<1>11. b["MERCHANDISE"] = m
  <2>1. CostList(costs, D, n) /\ Sound(costs, D) /\ m \in Nat
    BY DEF Ready
  <2>2. b = PercentageBases(m, costs)
    BY <1>3
  <2>. QED
    BY <2>1, <2>2, BasesOf
<1>. QED
  BY <1>8, <1>9, <1>10, <1>11

-----------------------------------------------------------------------------
(* The two sides of the ledger.                                            *)

\* Which of two entries comes first on its side.
ById(costs, K) == {p \in K \X K : costs[p[1]].id < costs[p[2]].id}

\* A side is listed by the ids of its entries.
LEMMA PoolArranged ==
    ASSUME NEW D, NEW n, NEW costs, CostList(costs, D, n), DifferentIds(costs, D),
           NEW K \in SUBSET D, NEW pool, pool = EffectPool(costs, K), NEW R, R = ById(costs, K)
    PROVE  StrictlyOrders(R, K) /\ Arranges(pool, K, R)
<1>1. costs \in [D -> Cost]
  BY DEF CostList
<1>5. \A i, j \in K : <<i, j>> \in R <=> costs[i].id < costs[j].id
  BY DEF ById
<1>6. StrictlyOrders(R, K)
  <2>1. \A i \in K : costs[i].id \in Nat
    BY <1>1 DEF Cost
  <2>2. \A i, j \in K : costs[i].id = costs[j].id => i = j
    BY DEF DifferentIds
  <2>. QED
    BY <1>5, <2>1, <2>2 DEF StrictlyOrders
<1>7. Arranges(pool, K, R)
  <2>. DEFINE before(i) == {j \in K : costs[j].id < costs[i].id}
              below(i) == {j \in K : <<j, i>> \in R}
  <2>1. \A i \in K : below(i) = before(i)
    BY <1>5
  <2>2. pool = [k \in 1 .. Cardinality(K) |-> CHOOSE i \in K : Cardinality(before(i)) = k - 1]
    BY DEF EffectPool, InOrder
  <2>3. \A k : (CHOOSE i \in K : Cardinality(before(i)) = k - 1)
                 = CHOOSE i \in K : Cardinality(below(i)) = k - 1
    <3>. HIDE DEF before, below
    <3>. QED
      BY <2>1
  <2>4. pool = [k \in 1 .. Cardinality(K) |-> CHOOSE i \in K : Cardinality(below(i)) = k - 1]
    <3>. HIDE DEF before, below
    <3>. QED
      BY <2>2, <2>3
  <2>. QED
    BY <2>4 DEF Arranges
<1>. QED
  BY <1>6, <1>7

\* The entries of a side, each once.
Lists(pool, K, I, c) ==
    /\ IsFiniteSet(K) /\ Numbered(I, c) /\ FewParts(c) /\ pool \in [I -> K]
    /\ pool \in Bijection(I, K)
    /\ \A k, l \in I : pool[k] = pool[l] => k = l
    /\ \A i \in K : \E k \in I : pool[k] = i
    /\ pool = <<>> <=> K = {}

\* The pool of a side has each of its entries once.
LEMMA PoolLists ==
    ASSUME NEW D, NEW n, NEW costs, CostList(costs, D, n), DifferentIds(costs, D),
           NEW K \in SUBSET D, NEW pool, pool = EffectPool(costs, K),
           NEW c, c = Cardinality(K), NEW I, I = 1 .. c
    PROVE  Lists(pool, K, I, c)
<1>1. IsFiniteSet(D) /\ Cardinality(D) = n /\ n \in Nat /\ D = 1 .. n /\ costs \in [D -> Cost]
  BY NumberedType DEF CostList
<1>2. IsFiniteSet(K) /\ c \in Nat /\ c <= n
  BY <1>1, FS_Subset, FS_CardinalityType
<1>3. FewParts(c)
  <2>. PICK S \in Int : S = ShareScale
    BY PrecisionAssumption
  <2>. PICK M \in Int : M = Minor
    BY PrecisionAssumption
  <2>. PICK x \in Int : x = 2 * M * S
    OBVIOUS
  <2>. QED
    BY <1>1, <1>2 DEF FewParts, CostList
<1>4. PICK R : R = ById(costs, K)
  OBVIOUS
<1>6. StrictlyOrders(R, K) /\ Arranges(pool, K, R)
  BY <1>4, PoolArranged
<1>8. /\ pool \in Bijection(1 .. c, K) /\ pool \in [1 .. c -> K]
      /\ \A i, j \in 1 .. c : pool[i] = pool[j] => i = j
      /\ \A x \in K : \E i \in 1 .. c : pool[i] = x
  <2>1. Queues(pool, K, R)
    BY <1>2, <1>6, Arranged
  <2>. QED
    BY <2>1 DEF Queues
<1>9. pool = <<>> <=> K = {}
  <2>1. ASSUME pool = <<>> PROVE K = {}
    <3>1. DOMAIN pool = {} /\ DOMAIN pool = 1 .. c
      BY <1>8, <2>1
    <3>. QED
      BY <1>8, <3>1
  <2>2. ASSUME K = {} PROVE pool = <<>>
    <3>1. c = 0
      BY <2>2, FS_EmptySet
    <3>2. pool \in Seq(K) /\ Len(pool) = 0
      BY <1>8, <3>1
    <3>. QED
      BY <3>2
  <2>. QED
    BY <2>1, <2>2
<1>10. Numbered(I, c)
  BY <1>2 DEF Numbered
<1>. QED
  BY <1>2, <1>3, <1>8, <1>9, <1>10 DEF Lists

\* What the entries of a side come to.
LEMMA PoolAddsUp ==
    ASSUME NEW K, NEW pool, NEW I, NEW c, Lists(pool, K, I, c), NEW effects,
           \A i \in K : effects[i] \in Int,
           NEW mag, mag = [i \in K |-> Magnitude(effects[i])],
           NEW x, x = PoolMagnitudes(pool, effects)
    PROVE  /\ Parts(x, I) /\ Total(x) = SumOn(mag, K) /\ SumOn(x, I) = SumOn(mag, K)
           /\ Parts(mag, K) /\ \A k \in I : x[k] = mag[pool[k]]
<1>1. \A i \in K : mag[i] = Magnitude(effects[i]) /\ mag[i] \in Int /\ mag[i] >= 0
  BY DEF Magnitude
<1>2. mag \in [K -> Int] /\ IsFiniteSet(K)
  <2>. DEFINE at(i) == Magnitude(effects[i])
  <2>1. mag = [i \in K |-> at(i)] /\ \A i \in K : at(i) \in Int
    BY DEF Magnitude
  <2>. HIDE DEF at
  <2>. QED
    BY <2>1 DEF Lists
<1>3. Parts(mag, K)
  BY <1>1, <1>2 DEF Parts
<1>4. pool \in [I -> K] /\ IsFiniteSet(I) /\ DOMAIN pool = I
  BY NumberedType DEF Lists
<1>5. /\ x \in [I -> Int]
      /\ \A k \in I : x[k] = mag[pool[k]] /\ x[k] >= 0
  <2>. DEFINE at(k) == Magnitude(effects[pool[k]])
  <2>1. x = [k \in I |-> at(k)]
    BY <1>4 DEF PoolMagnitudes
  <2>2. \A k \in I : at(k) = mag[pool[k]] /\ mag[pool[k]] \in Int /\ mag[pool[k]] >= 0
    BY <1>1, <1>4
  <2>. HIDE DEF at
  <2>. QED
    BY <2>1, <2>2
<1>6. Parts(x, I)
  BY <1>4, <1>5 DEF Parts
<1>7. Whole(x, I) /\ Total(x) = SumOn(x, I)
  BY <1>6, PartsAddUp
<1>8. Whole(mag, K) /\ SumOn(mag, K) = SumOn(x, I)
  <2>1. pool \in Bijection(I, K) /\ Renames(x, mag, pool, I)
    BY <1>5 DEF Lists, Renames
  <2>. QED
    BY <1>7, <2>1, SumRenamed
<1>. QED
  BY <1>3, <1>5, <1>6, <1>7, <1>8

\* What the entries of a side are settled to.
PutOnPool(part, mag, K, T, d) ==
    /\ part \in [K -> Int] /\ SumOn(part, K) = T
    /\ \A i \in K : /\ part[i] >= 0 /\ Settles(part[i])
                    /\ part[i] - mag[i] <= Minor + d /\ mag[i] - part[i] <= Minor + d

\* Settling a side over its pool succeeds, and leaves each entry near what it is.
LEMMA PoolSettles ==
    ASSUME NEW K, NEW pool, NEW I, NEW c, Lists(pool, K, I, c), NEW effects,
           \A i \in K : effects[i] \in Int,
           NEW mag, mag = [i \in K |-> Magnitude(effects[i])],
           NEW T, Settles(T), T >= 0, SumOn(mag, K) # 0 \/ T = 0,
           NEW d \in Int, d >= 0, T - SumOn(mag, K) <= d, SumOn(mag, K) - T <= d,
           NEW r, r = SettleTotalAcrossParts(T, PoolMagnitudes(pool, effects)),
           NEW part, part = [i \in K |-> r.parts[IndexIn(pool, i)]]
    PROVE  r.error = "NONE" /\ PutOnPool(part, mag, K, T, d)
<1>0. PICK x : x = PoolMagnitudes(pool, effects)
  OBVIOUS
<1>1. /\ Parts(x, I) /\ SumOn(x, I) = SumOn(mag, K)
      /\ Parts(mag, K) /\ \A k \in I : x[k] = mag[pool[k]]
  BY <1>0, PoolAddsUp
<1>2. Numbered(I, c) /\ FewParts(c) /\ pool \in [I -> K] /\ DOMAIN pool = I /\ IsFiniteSet(I)
  BY NumberedType DEF Lists
<1>3. /\ r.parts \in [I -> Int] /\ r = [error |-> r.error, parts |-> r.parts]
      /\ SumOn(x, I) # 0 \/ T = 0 => r.error = "NONE"
      /\ r.error = "NONE" =>
           /\ SumOn(r.parts, I) = T
           /\ \A l \in I : /\ r.parts[l] >= 0 /\ Settles(r.parts[l])
                           /\ \A e \in Int :
                               T - SumOn(x, I) <= e /\ SumOn(x, I) - T <= e /\ e >= 0 =>
                                   /\ r.parts[l] - x[l] <= Minor + e
                                   /\ x[l] - r.parts[l] <= Minor + e
  <2>1. r = SettleTotalAcrossParts(T, x) /\ Parts(x, I)
    BY <1>0, <1>1
  <2>2. Numbered(I, c) /\ FewParts(c)
    BY <1>2
  <2>. QED
    BY <2>1, <2>2, SettlesAcross
<1>4. r.error = "NONE"
  BY <1>1, <1>3
<1>5. ASSUME NEW i \in K
      PROVE  IndexIn(pool, i) \in I /\ pool[IndexIn(pool, i)] = i
  <2>1. \E k \in DOMAIN pool : pool[k] = i
    BY <1>2 DEF Lists
  <2>. QED
    BY <1>2, <2>1 DEF IndexIn
<1>6. \A k \in I : IndexIn(pool, pool[k]) = k
  <2>. TAKE k \in I
  <2>1. pool[k] \in K
    BY <1>2
  <2>2. IndexIn(pool, pool[k]) \in I /\ pool[IndexIn(pool, pool[k])] = pool[k]
    BY <1>5, <2>1
  <2>. QED
    BY <2>2 DEF Lists
<1>7. part \in [K -> Int] /\ \A i \in K : part[i] = r.parts[IndexIn(pool, i)]
  <2>. DEFINE at(i) == r.parts[IndexIn(pool, i)]
  <2>1. part = [i \in K |-> at(i)] /\ \A i \in K : at(i) \in Int
    BY <1>3, <1>5
  <2>. HIDE DEF at
  <2>2. part \in [K -> Int] /\ \A i \in K : part[i] = at(i)
    BY <2>1
  <2>. QED
    BY <2>2 DEF at
<1>. PICK q : q = r.parts
  OBVIOUS
<1>8. SumOn(part, K) = T
  <2>1. Whole(q, I)
    BY <1>2, <1>3 DEF Whole
  <2>2. Renames(q, part, pool, I)
    BY <1>2, <1>6, <1>7 DEF Renames
  <2>3. pool \in Bijection(I, K)
    BY DEF Lists
  <2>4. Whole(part, K) /\ SumOn(part, K) = SumOn(q, I)
    BY <2>1, <2>2, <2>3, SumRenamed
  <2>. QED
    BY <1>3, <1>4, <2>4
<1>9. ASSUME NEW i \in K
      PROVE  /\ part[i] >= 0 /\ Settles(part[i])
             /\ part[i] - mag[i] <= Minor + d /\ mag[i] - part[i] <= Minor + d
  <2>. PICK k : k = IndexIn(pool, i)
    OBVIOUS
  <2>1. k \in I /\ part[i] = q[k] /\ x[k] = mag[i]
    BY <1>1, <1>5, <1>7
  <2>2. /\ q[k] >= 0 /\ Settles(q[k])
        /\ q[k] - x[k] <= Minor + d /\ x[k] - q[k] <= Minor + d
    BY <1>1, <1>3, <1>4, <2>1
  <2>. QED
    BY <2>1, <2>2
<1>. QED
  BY <1>4, <1>7, <1>8, <1>9 DEF PutOnPool

\* What one side puts on the ledger and the other takes off it.
Sides(f, D, P, N, u, v) ==
    /\ P \in SUBSET D /\ N \in SUBSET D /\ P \cap N = {} /\ IsFiniteSet(D)
    /\ \A i \in P : u[i] \in Int /\ f[i] = u[i]
    /\ \A i \in N : v[i] \in Int /\ f[i] = -v[i]
    /\ \A i \in D : i \notin P /\ i \notin N => f[i] = 0

\* The ledger comes to the one less the other.
LEMMA SidesAddUp ==
    ASSUME NEW f, NEW D, NEW P, NEW N, NEW u, NEW v, Sides(f, D, P, N, u, v)
    PROVE  /\ SumOn(u, P) \in Int /\ SumOn(v, N) \in Int
           /\ SumOn(f, D) = SumOn(u, P) - SumOn(v, N)
<1>1. /\ P \in SUBSET D /\ N \in SUBSET D /\ P \cap N = {} /\ IsFiniteSet(D)
      /\ \A i \in P : u[i] \in Int /\ f[i] = u[i]
      /\ \A i \in N : v[i] \in Int /\ f[i] = -v[i]
      /\ \A i \in D : i \notin P /\ i \notin N => f[i] = 0
  BY DEF Sides
<1>2. Whole(f, D)
  <2>1. \A i \in D : f[i] \in Int
    BY <1>1
  <2>. QED
    BY <1>1, <2>1 DEF Whole
<1>3. Whole(u, P) /\ Whole(v, N)
  BY <1>1, FS_Subset DEF Whole
<1>4. PICK R : R = D \ P
  OBVIOUS
<1>5. PICK Z : Z = R \ N
  OBVIOUS
<1>6. Whole(f, R) /\ N \in SUBSET R /\ Whole(f, P) /\ IsFiniteSet(Z)
  BY <1>1, <1>2, <1>4, <1>5, WholePart, FS_Subset
<1>7. SumOn(f, D) = SumOn(f, P) + SumOn(f, R) /\ SumOn(f, P) \in Int /\ SumOn(f, R) \in Int
  BY <1>1, <1>2, <1>4, SumOfTwo
<1>8. SumOn(f, R) = SumOn(f, N) + SumOn(f, Z) /\ SumOn(f, N) \in Int /\ SumOn(f, Z) \in Int
  BY <1>5, <1>6, SumOfTwo
<1>9. Whole(f, Z) /\ SumOn(f, Z) = 0
  <2>1. \A i \in Z : f[i] = 0
    BY <1>1, <1>4, <1>5
  <2>. QED
    BY <1>6, <2>1, SumOfZeros
<1>10. SumOn(u, P) = SumOn(f, P) /\ SumOn(u, P) \in Int
  <2>1. \A i \in P : f[i] = u[i]
    BY <1>1
  <2>2. Whole(u, P) /\ SumOn(f, P) = SumOn(u, P)
    BY <1>6, <2>1, SumSame
  <2>. QED
    BY <1>7, <2>2
<1>11. SumOn(f, N) = -SumOn(v, N) /\ SumOn(v, N) \in Int
  <2>1. PICK c \in Int : c = -1
    OBVIOUS
  <2>2. IsTimes(f, c, v, N)
    BY <1>1, <2>1 DEF IsTimes
  <2>3. Whole(f, N) /\ SumOn(f, N) = c * SumOn(v, N)
    BY <1>3, <2>2, SumTimes
  <2>4. SumOn(v, N) \in Int
    BY <1>3, SumTakeOff
  <2>. QED
    BY <2>1, <2>3, <2>4
<1>. QED
  BY <1>7, <1>8, <1>9, <1>10, <1>11

\* What the two sides settle to, and how far from their sums.
LEMMA TargetsFit ==
    ASSUME NEW m \in Int, m >= 0, NEW P \in Int, P >= 0, NEW N \in Int, N >= 0,
           m + (P - N) >= 0, NEW costPool, NEW discountPool,
           costPool = <<>> <=> P = 0, discountPool = <<>> <=> N = 0,
           NEW t, t = RoundToMinorUnit(m + (P - N)) - RoundToMinorUnit(m),
           NEW target, target = PoolTargets(t, P, N, costPool, discountPool)
    PROVE  /\ Settles(target.positive) /\ target.positive >= 0
           /\ Settles(target.negative) /\ target.negative >= 0
           /\ target.positive - target.negative = t
           /\ 2 * Magnitude(target.positive - P) <= 3 * Minor
           /\ 2 * Magnitude(target.negative - N) <= 3 * Minor
           /\ P = 0 => target.positive = 0
           /\ N = 0 => target.negative = 0
<1>. PICK M \in Int : M = Minor /\ M > 0 /\ Settles(M)
  BY MinorType
<1>1. PICK p : p = RoundToMinorUnit(P)
  OBVIOUS
<1>2. PICK n : n = RoundToMinorUnit(N)
  OBVIOUS
<1>3. PICK k : k = RoundToMinorUnit(m)
  OBVIOUS
<1>4. PICK x \in Int : x = m + (P - N) /\ x >= 0
  OBVIOUS
<1>5. PICK L : L = RoundToMinorUnit(x)
  OBVIOUS
<1>6. /\ Settles(p) /\ p \in Int /\ p >= 0 /\ 2 * p <= 2 * P + M /\ 2 * P < 2 * p + M
      /\ P = 0 => p = 0
  BY <1>1, Rounds
<1>7. /\ Settles(n) /\ n \in Int /\ n >= 0 /\ 2 * n <= 2 * N + M /\ 2 * N < 2 * n + M
      /\ N = 0 => n = 0
  BY <1>2, Rounds
<1>8. Settles(k) /\ k \in Int /\ k >= 0 /\ 2 * k <= 2 * m + M /\ 2 * m < 2 * k + M
  BY <1>3, Rounds
<1>9. Settles(L) /\ L \in Int /\ L >= 0 /\ 2 * L <= 2 * x + M /\ 2 * x < 2 * L + M
  BY <1>4, <1>5, Rounds
<1>10. t = L - k /\ Settles(t) /\ t \in Int
  <2>1. t = L - k
    BY <1>3, <1>4, <1>5
  <2>2. Settles(L - k)
    BY <1>8, <1>9, SettlesPlus
  <2>. QED
    BY <1>8, <1>9, <2>1, <2>2
<1>11. PICK residual : residual = t - (p - n)
  OBVIOUS
<1>12. Settles(residual) /\ residual \in Int
  <2>1. Settles(p - n)
    BY <1>6, <1>7, SettlesPlus
  <2>2. Settles(t - (p - n))
    BY <1>10, <2>1, SettlesPlus
  <2>. QED
    BY <1>6, <1>7, <1>10, <1>11, <2>2
<1>13. residual <= M /\ -M <= residual
  <2>1. residual = L - k - p + n
    BY <1>6, <1>7, <1>8, <1>9, <1>10, <1>11
  <2>2. 2 * L <= 2 * m + 2 * P - 2 * N + M /\ 2 * m + 2 * P - 2 * N < 2 * L + M
    BY <1>4, <1>9
  <2>3. 2 * residual < 4 * M /\ -(2 * residual) < 4 * M
    BY <1>6, <1>7, <1>8, <1>9, <2>1, <2>2
  <2>4. residual < M + M /\ -residual < M + M
    BY <1>12, <2>3
  <2>5. Settles(M + M) /\ Settles(-residual)
    BY <1>12, SettlesPlus
  <2>6. residual + M <= M + M
    BY <1>12, <2>4, <2>5, SettledApart
  <2>7. -residual + M <= M + M
    BY <1>12, <2>4, <2>5, SettledApart
  <2>. QED
    BY <1>12, <2>6, <2>7
<1>14. P = 0 => t <= 0
  <2>. SUFFICES ASSUME P = 0 PROVE t <= 0
    OBVIOUS
  <2>1. t < M
    BY <1>4, <1>8, <1>9, <1>10
  <2>2. t + M <= M
    BY <1>10, <2>1, SettledApart
  <2>. QED
    BY <1>10, <2>2
<1>15. N = 0 => t >= 0
  <2>. SUFFICES ASSUME N = 0 PROVE t >= 0
    OBVIOUS
  <2>1. -t < M /\ Settles(-t)
    BY <1>4, <1>8, <1>9, <1>10, SettlesPlus
  <2>2. -t + M <= M
    BY <2>1, SettledApart
  <2>. QED
    BY <1>10, <2>2
<1>16. P = 0 /\ N = 0 => residual = 0
  BY <1>6, <1>7, <1>10, <1>11, <1>14, <1>15
<1>17. PICK onCosts : onCosts = IF residual > 0 THEN ~(P = 0) ELSE N = 0
  OBVIOUS
<1>18. target = IF residual = 0 THEN [positive |-> p, negative |-> n]
                ELSE IF onCosts THEN [positive |-> p + residual, negative |-> n]
                ELSE [positive |-> p, negative |-> n - residual]
  BY <1>1, <1>2, <1>11, <1>17 DEF PoolTargets
<1>19. 2 * Magnitude(p - P) <= 3 * M /\ 2 * Magnitude(n - N) <= 3 * M
  BY <1>6, <1>7 DEF Magnitude
<1>20. CASE residual = 0
  <2>1. target.positive = p /\ target.negative = n
    BY <1>18, <1>20
  <2>2. p - n = t
    BY <1>6, <1>7, <1>10, <1>11, <1>20
  <2>. QED
    BY <1>6, <1>7, <1>19, <2>1, <2>2
<1>21. CASE residual # 0 /\ onCosts
  <2>1. PICK a \in Int : a = p + residual
    BY <1>6, <1>12
  <2>2. target.positive = a /\ target.negative = n
    BY <1>18, <1>21, <2>1
  <2>3. P # 0
    BY <1>16, <1>17, <1>21
  <2>4. a >= 0
    <3>1. CASE residual > 0
      BY <1>6, <1>12, <2>1, <3>1
    <3>2. CASE ~(residual > 0)
      <4>1. N = 0
        BY <1>17, <1>21, <3>2
      <4>. QED
        BY <1>6, <1>7, <1>10, <1>11, <1>15, <2>1, <4>1
    <3>. QED
      BY <3>1, <3>2
  <2>5. Settles(a)
    BY <1>6, <1>12, <2>1, SettlesPlus
  <2>6. 2 * Magnitude(a - P) <= 3 * M
    <3>1. 2 * p <= 2 * P + M /\ 2 * P <= 2 * p + M /\ p \in Int
      BY <1>6
    <3>2. residual <= M /\ -M <= residual /\ residual \in Int
      BY <1>12, <1>13
    <3>3. 2 * a <= 2 * P + 3 * M /\ 2 * P <= 2 * a + 3 * M
      BY <2>1, <3>1, <3>2
    <3>. QED
      BY SMTT(30), <2>1, <3>3 DEF Magnitude
  <2>7. a - n = t
    BY SMTT(30), <1>6, <1>7, <1>10, <1>11, <2>1
  <2>. QED
    BY <1>7, <1>19, <2>2, <2>3, <2>4, <2>5, <2>6, <2>7
<1>22. CASE residual # 0 /\ ~onCosts
  <2>1. target.positive = p /\ target.negative = n - residual
    BY <1>18, <1>22
  <2>2. N # 0
    BY <1>16, <1>17, <1>22
  <2>3. n - residual >= 0
    <3>1. CASE residual > 0
      <4>1. P = 0
        BY <1>17, <1>22, <3>1
      <4>. QED
        BY <1>6, <1>7, <1>10, <1>11, <1>14, <4>1
    <3>2. CASE ~(residual > 0)
      BY <1>7, <1>12, <3>2
    <3>. QED
      BY <3>1, <3>2
  <2>4. Settles(n - residual)
    BY <1>7, <1>12, SettlesPlus
  <2>5. 2 * Magnitude(n - residual - N) <= 3 * M
    BY <1>7, <1>12, <1>13 DEF Magnitude
  <2>6. p - (n - residual) = t
    BY <1>6, <1>7, <1>10, <1>11
  <2>. QED
    BY <1>6, <1>7, <1>19, <2>1, <2>2, <2>3, <2>4, <2>5, <2>6
<1>. QED
  BY <1>20, <1>21, <1>22

\* What a reconciliation keeps of the entries' effects.
KeepsSides(effects, settled, D) ==
    /\ settled \in [D -> Int]
    /\ \A i \in D : /\ Settles(settled[i])
                    /\ effects[i] >= 0 => settled[i] >= 0
                    /\ effects[i] <= 0 => settled[i] <= 0
                    /\ 2 * Magnitude(settled[i] - effects[i]) <= 5 * Minor

\* The distance between two numbers.
LEMMA Apart ==
    ASSUME NEW a \in Int, NEW b \in Int, NEW d, d = Magnitude(a - b)
    PROVE  d \in Int /\ d >= 0 /\ a - b <= d /\ b - a <= d
  BY DEF Magnitude

\* The settled effects reconcile to their total.
LEMMA Reconciles ==
    ASSUME NEW D, NEW n, NEW costs, NEW m, Ready(costs, D, n, m),
           NEW effects \in [D -> Int], m + SumOn(effects, D) >= 0,
           NEW t, t = RoundToMinorUnit(m + SumOn(effects, D)) - RoundToMinorUnit(m),
           NEW r, r = ReconcileSettledEffects(costs, effects, t)
    PROVE  /\ r.error = "NONE" /\ KeepsSides(effects, r.effects, D)
           /\ SumOn(r.effects, D) = t
<1>0. /\ CostList(costs, D, n) /\ DifferentIds(costs, D) /\ m \in Int /\ m >= 0
      /\ DOMAIN costs = D /\ IsFiniteSet(D) /\ DOMAIN effects = D
  BY NumberedType DEF Ready, CostList
<1>1. PICK P : P = {i \in D : effects[i] > 0}
  OBVIOUS
<1>2. PICK N : N = {i \in D : effects[i] < 0}
  OBVIOUS
<1>3. PICK costPool : costPool = EffectPool(costs, P)
  OBVIOUS
<1>4. PICK discountPool : discountPool = EffectPool(costs, N)
  OBVIOUS
<1>5. PICK c : c = Cardinality(P)
  OBVIOUS
<1>6. PICK k : k = Cardinality(N)
  OBVIOUS
<1>7. PICK I : I = 1 .. c
  OBVIOUS
<1>8. PICK J : J = 1 .. k
  OBVIOUS
<1>9. Lists(costPool, P, I, c)
  <2>1. P \in SUBSET D
    BY <1>1
  <2>. QED
    BY <1>0, <1>3, <1>5, <1>7, <2>1, PoolLists
<1>10. Lists(discountPool, N, J, k)
  <2>1. N \in SUBSET D
    BY <1>2
  <2>. QED
    BY <1>0, <1>4, <1>6, <1>8, <2>1, PoolLists
<1>11. PICK u : u = [i \in P |-> Magnitude(effects[i])]
  OBVIOUS
<1>12. PICK v : v = [i \in N |-> Magnitude(effects[i])]
  OBVIOUS
<1>13. PICK x : x = PoolMagnitudes(costPool, effects)
  OBVIOUS
<1>14. PICK y : y = PoolMagnitudes(discountPool, effects)
  OBVIOUS
<1>15. /\ \A i \in P : effects[i] \in Int /\ effects[i] > 0 /\ i \in D
       /\ \A i \in N : effects[i] \in Int /\ effects[i] < 0 /\ i \in D
  BY <1>1, <1>2
<1>16. /\ Total(x) = SumOn(u, P) /\ Parts(u, P)
  BY <1>9, <1>11, <1>13, <1>15, PoolAddsUp
<1>17. /\ Total(y) = SumOn(v, N) /\ Parts(v, N)
  BY <1>10, <1>12, <1>14, <1>15, PoolAddsUp
<1>18. /\ \A i \in P : u[i] = effects[i] /\ u[i] > 0
       /\ \A i \in N : v[i] = -effects[i] /\ v[i] > 0
  BY <1>11, <1>12, <1>15 DEF Magnitude
<1>19. /\ SumOn(u, P) \in Int /\ SumOn(v, N) \in Int
       /\ SumOn(effects, D) = SumOn(u, P) - SumOn(v, N)
  <2>1. Sides(effects, D, P, N, u, v)
    BY <1>0, <1>1, <1>2, <1>15, <1>18 DEF Sides
  <2>. QED
    BY <2>1, SidesAddUp
<1>20. SumOn(u, P) >= 0 /\ (costPool = <<>> <=> SumOn(u, P) = 0)
  <2>1. SumOn(u, P) >= 0 /\ Whole(u, P)
    BY <1>16, PartsAddUp
  <2>2. costPool = <<>> <=> P = {}
    BY <1>9 DEF Lists
  <2>3. P = {} => SumOn(u, P) = 0
    BY SumOfNothing
  <2>4. SumOn(u, P) = 0 => \A i \in P : u[i] = 0
    <3>1. \A i \in P : u[i] >= 0
      BY <1>15, <1>18
    <3>. QED
      BY <2>1, <3>1, PartsOfNothing
  <2>5. SumOn(u, P) = 0 => P = {}
    BY <1>18, <2>4
  <2>. QED
    BY <2>1, <2>2, <2>3, <2>5
<1>21. SumOn(v, N) >= 0 /\ (discountPool = <<>> <=> SumOn(v, N) = 0)
  <2>1. SumOn(v, N) >= 0 /\ Whole(v, N)
    BY <1>17, PartsAddUp
  <2>2. discountPool = <<>> <=> N = {}
    BY <1>10 DEF Lists
  <2>3. N = {} => SumOn(v, N) = 0
    BY SumOfNothing
  <2>4. SumOn(v, N) = 0 => \A i \in N : v[i] = 0
    <3>1. \A i \in N : v[i] >= 0
      BY <1>15, <1>18
    <3>. QED
      BY <2>1, <3>1, PartsOfNothing
  <2>5. SumOn(v, N) = 0 => N = {}
    BY <1>18, <2>4
  <2>. QED
    BY <2>1, <2>2, <2>3, <2>5
<1>22. PICK A \in Int : A = SumOn(u, P)
  BY <1>19
<1>23. PICK B \in Int : B = SumOn(v, N)
  BY <1>19
<1>24. PICK target : target = PoolTargets(t, A, B, costPool, discountPool)
  OBVIOUS
<1>25. /\ Settles(target.positive) /\ target.positive >= 0
       /\ Settles(target.negative) /\ target.negative >= 0
       /\ target.positive - target.negative = t
       /\ 2 * Magnitude(target.positive - A) <= 3 * Minor
       /\ 2 * Magnitude(target.negative - B) <= 3 * Minor
       /\ A = 0 => target.positive = 0
       /\ B = 0 => target.negative = 0
  <2>1. A >= 0 /\ B >= 0 /\ (costPool = <<>> <=> A = 0) /\ (discountPool = <<>> <=> B = 0)
    BY <1>20, <1>21, <1>22, <1>23
  <2>2. /\ m + (A - B) >= 0
        /\ t = RoundToMinorUnit(m + (A - B)) - RoundToMinorUnit(m)
    BY <1>19, <1>22, <1>23
  <2>. QED
    BY <1>0, <1>24, <2>1, <2>2, TargetsFit
<1>26. PICK T \in Int : T = target.positive
  BY <1>25 DEF Settles
<1>27. PICK U \in Int : U = target.negative
  BY <1>25 DEF Settles
<1>28. PICK d : d = Magnitude(T - A)
  OBVIOUS
<1>29. PICK e : e = Magnitude(U - B)
  OBVIOUS
<1>30. d \in Int /\ d >= 0 /\ T - A <= d /\ A - T <= d /\ 2 * d <= 3 * Minor
  BY <1>25, <1>26, <1>28, Apart
<1>31. e \in Int /\ e >= 0 /\ U - B <= e /\ B - U <= e /\ 2 * e <= 3 * Minor
  BY <1>25, <1>27, <1>29, Apart
<1>32. PICK up : up = SettleTotalAcrossParts(T, PoolMagnitudes(costPool, effects))
  OBVIOUS
<1>33. PICK down : down = SettleTotalAcrossParts(U, PoolMagnitudes(discountPool, effects))
  OBVIOUS
<1>34. PICK a : a = [i \in P |-> up.parts[IndexIn(costPool, i)]]
  OBVIOUS
<1>35. PICK b : b = [i \in N |-> down.parts[IndexIn(discountPool, i)]]
  OBVIOUS
<1>36. up.error = "NONE" /\ PutOnPool(a, u, P, T, d)
  <2>1. Settles(T) /\ T >= 0 /\ (SumOn(u, P) # 0 \/ T = 0)
    BY <1>22, <1>25, <1>26
  <2>2. T - SumOn(u, P) <= d /\ SumOn(u, P) - T <= d /\ d \in Int /\ d >= 0
    BY <1>22, <1>30
  <2>3. \A i \in P : effects[i] \in Int
    BY <1>15
  <2>. QED
    BY <1>9, <1>11, <1>32, <1>34, <2>1, <2>2, <2>3, PoolSettles
<1>37. down.error = "NONE" /\ PutOnPool(b, v, N, U, e)
  <2>1. Settles(U) /\ U >= 0 /\ (SumOn(v, N) # 0 \/ U = 0)
    BY <1>23, <1>25, <1>27
  <2>2. U - SumOn(v, N) <= e /\ SumOn(v, N) - U <= e /\ e \in Int /\ e >= 0
    BY <1>23, <1>31
  <2>3. \A i \in N : effects[i] \in Int
    BY <1>15
  <2>. QED
    BY <1>10, <1>12, <1>33, <1>35, <2>1, <2>2, <2>3, PoolSettles
<1>38. r = EntriesOf(up, down, costPool, discountPool, effects)
  <2>1. r = SettlePools(target, costPool, discountPool, effects)
    <3>1. target = PoolTargets(t, Total(x), Total(y), costPool, discountPool)
      BY <1>16, <1>17, <1>22, <1>23, <1>24
    <3>. QED
      BY <1>0, <1>1, <1>2, <1>3, <1>4, <1>13, <1>14, <3>1 DEF ReconcileSettledEffects
  <2>2. ~(target.positive < 0 \/ target.negative < 0)
    BY <1>25, <1>26, <1>27
  <2>. QED
    BY <1>26, <1>27, <1>32, <1>33, <2>1, <2>2 DEF SettlePools
<1>39. PICK s : s = r.effects
  OBVIOUS
<1>40. /\ r.error = "NONE" /\ DOMAIN s = D
       /\ \A i \in P : s[i] = a[i]
       /\ \A i \in N : s[i] = -b[i]
       /\ \A i \in D : i \notin P /\ i \notin N => s[i] = 0
  <2>. DEFINE entry(i) == CASE effects[i] > 0 -> up.parts[IndexIn(costPool, i)]
                            [] effects[i] < 0 -> -down.parts[IndexIn(discountPool, i)]
                            [] OTHER -> 0
  <2>1. r.error = "NONE" /\ s = [i \in D |-> entry(i)]
    BY <1>0, <1>36, <1>37, <1>38, <1>39 DEF EntriesOf
  <2>2. \A i \in P : entry(i) = a[i]
    BY <1>15, <1>34
  <2>3. \A i \in N : entry(i) = -b[i]
    BY <1>15, <1>35
  <2>4. \A i \in D : i \notin P /\ i \notin N => entry(i) = 0
    BY <1>1, <1>2
  <2>. HIDE DEF entry
  <2>. QED
    BY <1>15, <2>1, <2>2, <2>3, <2>4
<1>41. /\ a \in [P -> Int] /\ SumOn(a, P) = T
       /\ \A i \in P : /\ a[i] >= 0 /\ Settles(a[i])
                       /\ a[i] - u[i] <= Minor + d /\ u[i] - a[i] <= Minor + d
  BY <1>36 DEF PutOnPool
<1>42. /\ b \in [N -> Int] /\ SumOn(b, N) = U
       /\ \A i \in N : /\ b[i] >= 0 /\ Settles(b[i])
                       /\ b[i] - v[i] <= Minor + e /\ v[i] - b[i] <= Minor + e
  BY <1>37 DEF PutOnPool
<1>43. SumOn(s, D) = T - U
  <2>1. Sides(s, D, P, N, a, b)
    BY <1>0, <1>1, <1>2, <1>15, <1>40, <1>41, <1>42 DEF Sides
  <2>2. SumOn(s, D) = SumOn(a, P) - SumOn(b, N)
    BY <2>1, SidesAddUp
  <2>. QED
    BY <1>41, <1>42, <2>2
<1>44. ASSUME NEW i \in D
       PROVE  /\ s[i] \in Int /\ Settles(s[i])
              /\ effects[i] >= 0 => s[i] >= 0
              /\ effects[i] <= 0 => s[i] <= 0
              /\ 2 * Magnitude(s[i] - effects[i]) <= 5 * Minor
  <2>1. CASE i \in P
    <3>. PICK w \in Int : w = a[i]
      BY <1>41, <2>1
    <3>. PICK z \in Int : z = effects[i]
      OBVIOUS
    <3>1. s[i] = w /\ u[i] = z /\ z > 0 /\ w >= 0 /\ Settles(w)
      BY <1>15, <1>18, <1>40, <1>41, <2>1
    <3>2. w - z <= Minor + d /\ z - w <= Minor + d
      BY <1>41, <2>1, <3>1
    <3>3. 2 * Magnitude(w - z) <= 5 * Minor
      BY <1>30, <3>2, MinorType DEF Magnitude
    <3>. QED
      BY <3>1, <3>3
  <2>2. CASE i \in N
    <3>. PICK w \in Int : w = b[i]
      BY <1>42, <2>2
    <3>. PICK z \in Int : z = effects[i]
      OBVIOUS
    <3>1. s[i] = -w /\ v[i] = -z /\ z < 0 /\ w >= 0 /\ Settles(w)
      BY <1>15, <1>18, <1>40, <1>42, <2>2
    <3>2. w + z <= Minor + e /\ -z - w <= Minor + e
      BY <1>42, <2>2, <3>1
    <3>3. 2 * Magnitude(-w - z) <= 5 * Minor
      BY <1>31, <3>2, MinorType DEF Magnitude
    <3>4. Settles(-w)
      BY <3>1, SettlesPlus
    <3>. QED
      BY <3>1, <3>3, <3>4
  <2>3. CASE i \notin P /\ i \notin N
    <3>1. s[i] = 0 /\ effects[i] = 0
      BY <1>1, <1>2, <1>40, <2>3
    <3>. QED
      BY <3>1, MinorType DEF Magnitude
  <2>. QED
    BY <2>1, <2>2, <2>3
<1>45. s \in [D -> Int]
  <2>1. s = [i \in D |-> s[i]]
    <3>1. s = [i \in DOMAIN s |-> s[i]]
      BY <1>0, <1>38, <1>39 DEF EntriesOf
    <3>. QED
      BY <1>40, <3>1
  <2>. QED
    BY <1>44, <2>1
<1>. QED
  BY <1>25, <1>26, <1>27, <1>39, <1>40, <1>43, <1>44, <1>45 DEF KeepsSides

\* What a calculation that is not refused has come to.
CalculationFits(c, costs, D, m) ==
    /\ c.error = "NONE" /\ c.effects \in [D -> Int] /\ c.magnitudes \in [D -> Int]
    /\ KeepsSides(c.effects, c.settledEffects, D)
    /\ \A i \in D :
        /\ c.magnitudes[i] >= 0
        /\ c.effects[i] > 0 => costs[i].kind # "DISCOUNT" /\ Contributes(costs[i])
        /\ c.effects[i] < 0 => costs[i].kind = "DISCOUNT" /\ Contributes(costs[i])
    /\ c.settledMerchandise = RoundToMinorUnit(m)
    /\ c.settledMerchandise \in Int /\ c.settledMerchandise >= 0 /\ Settles(c.settledMerchandise)
    /\ c.settledLanded \in Int /\ c.settledLanded >= 0 /\ Settles(c.settledLanded)
    /\ SumOn(c.settledEffects, D) = c.settledLanded - c.settledMerchandise

\* What is calculated fits its costs: the settled effects add up to the settled
\* total, and each keeps the side and nearly the size of its exact effect.
LEMMA CalculatedFits ==
    ASSUME NEW D, NEW n, NEW costs, NEW m, Ready(costs, D, n, m),
           NEW c, c = Calculated(m, costs)
    PROVE  CalculationFits(c, costs, D, m)
<1>1. PICK b : b = PercentageBases(m, costs)
  OBVIOUS
<1>2. PICK E : E = Entries(m, costs, b)
  OBVIOUS
<1>3. EntriesSay(E, costs, D, m, b)
  BY <1>1, <1>2, EntriesOfReady
<1>4. E.landed \in Int /\ E.landed >= 0
  BY <1>1, <1>3, LandedIsNotBelowZero
<1>5. PICK e : e = E.effects
  OBVIOUS
<1>6. /\ e \in [D -> Int] /\ E.landed = m + SumOn(e, D)
      /\ E.settledMerchandise = RoundToMinorUnit(m)
      /\ E.settledLanded = RoundToMinorUnit(E.landed)
      /\ E.magnitudes \in [D -> Int] /\ \A i \in D : E.magnitudes[i] >= 0
  BY <1>3, <1>5 DEF EntriesSay
<1>7. PICK t : t = E.settledLanded - E.settledMerchandise
  OBVIOUS
<1>8. PICK r : r = ReconcileSettledEffects(costs, e, t)
  OBVIOUS
<1>9. /\ r.error = "NONE" /\ KeepsSides(e, r.effects, D) /\ SumOn(r.effects, D) = t
  <2>1. /\ m + SumOn(e, D) >= 0
        /\ t = RoundToMinorUnit(m + SumOn(e, D)) - RoundToMinorUnit(m)
    BY <1>4, <1>6, <1>7
  <2>. QED
    BY <1>6, <1>8, <2>1, Reconciles
<1>10. /\ RoundToMinorUnit(m) \in Int /\ RoundToMinorUnit(m) >= 0 /\ Settles(RoundToMinorUnit(m))
  <2>1. m \in Int /\ m >= 0
    BY DEF Ready
  <2>. QED
    BY <2>1, Rounds
<1>11. /\ E.settledLanded \in Int /\ E.settledLanded >= 0 /\ Settles(E.settledLanded)
  <2>. PICK x \in Int : x = E.landed /\ x >= 0
    BY <1>4
  <2>1. /\ RoundToMinorUnit(x) \in Int /\ RoundToMinorUnit(x) >= 0 /\ Settles(RoundToMinorUnit(x))
    BY Rounds
  <2>. QED
    BY <1>6, <2>1
<1>12. Total(r.effects) = t
  <2>. PICK s : s = r.effects
    OBVIOUS
  <2>1. IsFiniteSet(D) /\ s \in [D -> Int]
    BY <1>9, NumberedType DEF KeepsSides, Ready, CostList
  <2>2. Total(s) = SumOn(s, D)
    BY <2>1, TotalIsSum
  <2>. QED
    BY <1>9, <2>2
<1>13. /\ c.magnitudes = E.magnitudes /\ c.effects = e
       /\ c.settledMerchandise = E.settledMerchandise
       /\ c.settledLanded = E.settledLanded /\ c.settledEffects = r.effects
       /\ c.error = "NONE"
  <2>1. E = Entries(m, costs, PercentageBases(m, costs))
    BY <1>1, <1>2
  <2>2. LET s == ReconcileSettledEffects(costs, E.effects, E.settledLanded - E.settledMerchandise)
        IN /\ c.bases = E.bases /\ c.magnitudes = E.magnitudes /\ c.effects = E.effects
           /\ c.landed = E.landed /\ c.settledMerchandise = E.settledMerchandise
           /\ c.settledLanded = E.settledLanded /\ c.settledEffects = s.effects
           /\ c.error = IF /\ s.error = "NONE"
                           /\ ~(E.settledMerchandise + Total(s.effects) = E.settledLanded)
                        THEN "SETTLEMENT_RECONCILIATION" ELSE s.error
    BY <2>1, CalculatedKeeps
  <2>3. r = ReconcileSettledEffects(costs, E.effects, E.settledLanded - E.settledMerchandise)
    BY <1>5, <1>7, <1>8
  <2>4. E.settledMerchandise + Total(r.effects) = E.settledLanded
    BY <1>6, <1>7, <1>10, <1>11, <1>12
  <2>5. c.error = "NONE"
    BY <1>9, <2>2, <2>3, <2>4
  <2>. QED
    BY <1>5, <2>2, <2>3, <2>5
<1>14. \A i \in D :
        /\ e[i] > 0 => costs[i].kind # "DISCOUNT" /\ Contributes(costs[i])
        /\ e[i] < 0 => costs[i].kind = "DISCOUNT" /\ Contributes(costs[i])
  BY <1>3, <1>5, EffectSides
<1>. QED
  BY <1>6, <1>7, <1>9, <1>10, <1>11, <1>13, <1>14 DEF CalculationFits

-----------------------------------------------------------------------------
(* The lines of a quote.                                                   *)

\* An order covers what is required, in whole packs, or is refused.
LEMMA OrderCoversIt ==
    ASSUME NEW required \in Nat, NEW moq \in Nat \cup {Unset}, NEW pack \in Nat \cup {Unset},
           NEW r, r = ResolveOrderQuantity(required, moq, pack)
    PROVE  /\ r.error \in {"INVALID_MOQ", "INVALID_PACK_SIZE", "NONE"}
           /\ r.error = "NONE" => r.quoted \in Nat /\ r.resolved \in Nat
<1>1. PICK minimum \in Nat : minimum = IF moq # Unset /\ moq > required THEN moq ELSE required
  BY DEF Unset
<1>2. PICK quoted : quoted = IF pack = Unset THEN minimum ELSE (minimum + pack - 1) \div pack
  OBVIOUS
<1>3. PICK resolved : resolved = IF pack = Unset THEN minimum ELSE quoted * pack
  OBVIOUS
<1>4. r = IF moq = 0 THEN [error |-> "INVALID_MOQ"]
          ELSE IF pack = 0 THEN [error |-> "INVALID_PACK_SIZE"]
          ELSE IF resolved < minimum THEN [error |-> "QUANTITY_INVARIANT"]
          ELSE [error |-> "NONE", quoted |-> quoted, resolved |-> resolved]
  BY <1>1, <1>2, <1>3 DEF ResolveOrderQuantity
<1>5. pack # 0 => quoted \in Nat /\ resolved \in Nat /\ resolved >= minimum
  <2>1. CASE pack = Unset
    BY <1>1, <1>2, <1>3, <2>1
  <2>2. CASE pack # Unset /\ pack # 0
    <3>1. pack \in Int /\ pack > 0
      BY <2>2
    <3>2. PICK a \in Int : a = minimum + pack - 1 /\ a >= 0
      BY <1>1, <3>1
    <3>3. a \div pack \in Int /\ pack * (a \div pack) <= a /\ a < pack * (a \div pack) + pack
      BY <3>1, <3>2, Division
    <3>4. quoted = a \div pack
      BY <1>2, <2>2, <3>2
    <3>5. quoted \in Nat
      BY <3>1, <3>2, <3>4
    <3>6. PICK q \in Nat : q = quoted
      BY <3>5
    <3>7. PICK k \in Nat : k = pack
      BY <3>1
    <3>8. q * k \in Nat /\ q * k = k * q
      OBVIOUS
    <3>9. PICK x \in Nat : x = q * k /\ x = k * q
      BY <3>8
    <3>10. a < x + k
      BY <3>3, <3>4, <3>6, <3>7, <3>9
    <3>11. x >= minimum
      BY <1>1, <3>2, <3>7, <3>10
    <3>12. resolved = x
      BY <1>3, <2>2, <3>6, <3>7, <3>9
    <3>. QED
      BY <3>5, <3>11, <3>12
  <2>. QED
    BY <2>1, <2>2
<1>. QED
  BY <1>1, <1>4, <1>5

\* A quote one can reckon with.
QuoteFits(quote) ==
    /\ quote.currency \in Currencies
    /\ \A item \in Range(quote.items) :
        item.price \in Nat /\ {item.moq, item.pack} \subseteq Nat \cup {Unset}

\* Requirements, few enough to share out over.
Requires(requirements, D, n) ==
    /\ Numbered(D, n) /\ FewParts(n) /\ DOMAIN requirements = D
    /\ \A r \in D : requirements[r].quantity \in Nat

\* Every requirement has an item.
Asks(quote, requirements) ==
    \A r \in DOMAIN requirements :
        \E i \in DOMAIN quote.items : quote.items[i].requirement = requirements[r].id

\* The lines of a quote that asks for everything.
LEMMA LinesOfQuote ==
    ASSUME NEW quote, QuoteFits(quote), NEW requirements, NEW D, NEW n,
           Requires(requirements, D, n), Asks(quote, requirements),
           NEW raw, raw = QuoteLines(quote, requirements)
    PROVE  /\ DOMAIN raw = D
           /\ \A r \in D : /\ raw[r].error \in {"INVALID_MOQ", "INVALID_PACK_SIZE", "NONE"}
                           /\ raw[r].value \in Nat /\ raw[r].quantity \in Nat
<1>. DEFINE item(r) == ItemFor(quote, requirements[r].id)
            order(r) == ResolveOrderQuantity(requirements[r].quantity, item(r).moq, item(r).pack)
            line(r) == [error |-> order(r).error, currency |-> item(r).currency,
                        unit |-> requirements[r].unit,
                        value |-> IF order(r).error = "NONE" THEN item(r).price * order(r).quoted ELSE 0,
                        quantity |-> IF order(r).error = "NONE" THEN order(r).resolved ELSE 0]
<1>1. raw = [r \in D |-> line(r)]
  BY DEF QuoteLines, Requires
<1>2. ASSUME NEW r \in D
      PROVE  /\ line(r).error \in {"INVALID_MOQ", "INVALID_PACK_SIZE", "NONE"}
             /\ line(r).value \in Nat /\ line(r).quantity \in Nat
  <2>1. item(r) \in Range(quote.items)
    <3>1. \E i \in DOMAIN quote.items : quote.items[i].requirement = requirements[r].id
      BY DEF Asks, Requires
    <3>. QED
      BY <3>1 DEF ItemFor, Range
  <2>. PICK it : it = item(r)
    OBVIOUS
  <2>. PICK o : o = order(r)
    OBVIOUS
  <2>2. it.price \in Nat /\ it.moq \in Nat \cup {Unset} /\ it.pack \in Nat \cup {Unset}
    BY <2>1 DEF QuoteFits
  <2>3. requirements[r].quantity \in Nat
    BY DEF Requires
  <2>4. /\ o.error \in {"INVALID_MOQ", "INVALID_PACK_SIZE", "NONE"}
        /\ o.error = "NONE" => o.quoted \in Nat /\ o.resolved \in Nat
    <3>1. o = ResolveOrderQuantity(requirements[r].quantity, it.moq, it.pack)
      OBVIOUS
    <3>. HIDE DEF order, item
    <3>. QED
      BY <2>2, <2>3, <3>1, OrderCoversIt
  <2>5. o.error = "NONE" => it.price * o.quoted \in Nat
    BY <2>2, <2>4
  <2>6. /\ line(r).error = o.error
        /\ line(r).value = IF o.error = "NONE" THEN it.price * o.quoted ELSE 0
        /\ line(r).quantity = IF o.error = "NONE" THEN o.resolved ELSE 0
    OBVIOUS
  <2>. HIDE DEF line, order, item
  <2>. QED
    BY <2>4, <2>5, <2>6
<1>. HIDE DEF line
<1>. QED
  BY <1>1, <1>2

\* Why the lines of a quote cannot be reckoned with.
LEMMA WhyLinesFail ==
    ASSUME NEW lines, NEW D, NEW n, Numbered(D, n), DOMAIN lines = D,
           \A r \in D : lines[r].error \in {"INVALID_MOQ", "INVALID_PACK_SIZE", "NONE"},
           NEW currency
    PROVE  LineError(lines, currency) \in {"INVALID_MOQ", "INVALID_PACK_SIZE", "CURRENCY_MISMATCH",
                                           "MISSING_EXCHANGE_RATE", "NONE"}
<1>1. D \in SUBSET Nat
  BY NumberedType DEF Numbered
<1>2. PICK failed : failed = {l \in D : lines[l].error # "NONE"}
  OBVIOUS
<1>3. PICK first : first = CHOOSE l \in failed : \A k \in failed : l <= k
  OBVIOUS
<1>4. failed # {} => first \in failed
  <2>. SUFFICES ASSUME failed # {} PROVE first \in failed
    OBVIOUS
  <2>1. failed \in SUBSET Nat
    BY <1>1, <1>2
  <2>2. \E l \in failed : \A k \in failed : l <= k
    BY <2>1, LeastNumber
  <2>. QED
    BY <1>3, <2>2
<1>5. failed # {} => LineError(lines, currency) = lines[first].error
  BY <1>2, <1>3 DEF LineError
<1>6. failed = {} => LineError(lines, currency) \in {"CURRENCY_MISMATCH", "MISSING_EXCHANGE_RATE", "NONE"}
  BY <1>2 DEF LineError
<1>. QED
  BY <1>2, <1>4, <1>5, <1>6

\* The lines in the base currency, and what they come to.
LEMMA LinesInBase ==
    ASSUME NEW raw, NEW D, IsFiniteSet(D), DOMAIN raw = D,
           \A r \in D : raw[r].value \in Nat /\ raw[r].quantity \in Nat,
           NEW currency \in Currencies, NEW lines, lines = InBaseCurrency(raw, currency),
           NEW x, x = [l \in DOMAIN lines |-> lines[l].baseValue]
    PROVE  /\ Carries(lines, D) /\ Parts(x, D) /\ \A l \in D : x[l] = lines[l].baseValue
           /\ Total(x) = SumOn(x, D) /\ Total(x) \in Nat
<1>. DEFINE base(l) == ConvertToBaseCurrency(raw[l].value, currency)
            line(l) == [unit |-> raw[l].unit, value |-> raw[l].value,
                        quantity |-> raw[l].quantity, baseValue |-> base(l)]
<1>1. \A l \in D : base(l) \in Nat
  <2>. TAKE l \in D
  <2>. PICK a \in Nat : a = raw[l].value
    OBVIOUS
  <2>. PICK r \in Nat : r = Rate[currency]
    BY RatesAssumption
  <2>1. a * r \in Nat
    OBVIOUS
  <2>. QED
    BY <2>1 DEF ConvertToBaseCurrency
<1>2. lines = [l \in D |-> line(l)]
  BY DEF InBaseCurrency
<1>3. \A l \in D : line(l).value \in Nat /\ line(l).quantity \in Nat /\ line(l).baseValue \in Nat
  BY <1>1
<1>. HIDE DEF line
<1>4. /\ DOMAIN lines = D
      /\ \A l \in D : lines[l].value \in Nat /\ lines[l].quantity \in Nat /\ lines[l].baseValue \in Nat
  BY <1>2, <1>3
<1>5. Carries(lines, D)
  BY <1>4 DEF Carries
<1>6. x \in [D -> Int] /\ \A l \in D : x[l] = lines[l].baseValue /\ x[l] >= 0
  BY <1>4
<1>7. Parts(x, D)
  BY <1>6 DEF Parts
<1>8. Total(x) = SumOn(x, D) /\ SumOn(x, D) \in Int /\ SumOn(x, D) >= 0
  BY <1>7, PartsAddUp
<1>. QED
  BY <1>5, <1>6, <1>7, <1>8

-----------------------------------------------------------------------------
(* The costs put on the lines, one after another.                          *)

\* Costs and surcharges before discounts, each side by id.
SideBefore(side, id, C) ==
    {p \in C \X C : \/ side[p[1]] < side[p[2]]
                    \/ side[p[1]] = side[p[2]] /\ id[p[1]] < id[p[2]]}

\* The costs that are put on the lines.
Partakes(C, costs, D) == C = {i \in D : Contributes(costs[i])}

\* The costs that are put on the lines, in their order.
Settling(o, costs, D, C, I, k) ==
    /\ Partakes(C, costs, D) /\ IsFiniteSet(C) /\ k \in Nat /\ I = 1 .. k
    /\ o \in [I -> C]
    /\ \A x, y \in I : o[x] = o[y] => x = y
    /\ \A i \in C : \E x \in I : o[x] = i
    /\ \A x, y \in I : x < y /\ costs[o[x]].kind = "DISCOUNT" => costs[o[y]].kind = "DISCOUNT"

\* The side of an entry, and its id, as numbers.
Sided(side, id, costs, C) ==
    /\ \A i \in C : id[i] \in Int /\ side[i] \in Int
    /\ \A i, j \in C : id[i] = id[j] => i = j
    /\ \A i \in C : costs[i].kind = "DISCOUNT" <=> side[i] = 1
    /\ \A i \in C : side[i] \in {0, 1} /\ id[i] = costs[i].id

\* The costs put on the lines are arranged by side and id.
LEMMA SidesArranged ==
    ASSUME NEW D, NEW n, NEW costs, CostList(costs, D, n), DifferentIds(costs, D),
           NEW C, Partakes(C, costs, D), NEW o, o = SettlementOrder(costs)
    PROVE  \E side, id : /\ Sided(side, id, costs, C)
                         /\ StrictlyOrders(SideBefore(side, id, C), C)
                         /\ Arranges(o, C, SideBefore(side, id, C))
<1>1. DOMAIN costs = D /\ costs \in [D -> Cost]
  BY DEF CostList
<1>2. C \in SUBSET D
  BY DEF Partakes
<1>3. PICK side : side = [i \in C |-> IF costs[i].kind = "DISCOUNT" THEN 1 ELSE 0]
  OBVIOUS
<1>4. PICK id : id = [i \in C |-> costs[i].id]
  OBVIOUS
<1>5. Sided(side, id, costs, C)
  <2>1. \A i \in C : costs[i] \in Cost
    BY <1>1, <1>2
  <2>2. \A i, j \in C : costs[i].id = costs[j].id => i = j
    BY <1>2 DEF DifferentIds
  <2>. QED
    BY <1>3, <1>4, <2>1, <2>2 DEF Cost, Sided
<1>6. PICK R : R = SideBefore(side, id, C)
  OBVIOUS
<1>9. \A i, j \in C : <<i, j>> \in R <=> \/ side[i] < side[j]
                                         \/ side[i] = side[j] /\ id[i] < id[j]
  BY <1>6 DEF SideBefore
<1>10. StrictlyOrders(R, C)
  <2>1. \A i \in C : <<i, i>> \notin R
    BY <1>5, <1>9 DEF Sided
  <2>2. \A i, j, l \in C : <<i, j>> \in R /\ <<j, l>> \in R => <<i, l>> \in R
    BY <1>5, <1>9 DEF Sided
  <2>3. \A i, j \in C : i = j \/ <<i, j>> \in R \/ <<j, i>> \in R
    <3>. SUFFICES ASSUME NEW i \in C, NEW j \in C, i # j
                  PROVE  <<i, j>> \in R \/ <<j, i>> \in R
      OBVIOUS
    <3>1. /\ id[i] \in Int /\ id[j] \in Int /\ side[i] \in Int /\ side[j] \in Int
          /\ id[i] # id[j]
      BY <1>5 DEF Sided
    <3>. QED
      BY <1>9, <3>1
  <2>. QED
    BY <2>1, <2>2, <2>3 DEF StrictlyOrders
<1>11. Arranges(o, C, R)
  <2>. DEFINE before(i) == {j \in C : \/ costs[j].kind # "DISCOUNT" /\ costs[i].kind = "DISCOUNT"
                                      \/ /\ (costs[j].kind = "DISCOUNT") = (costs[i].kind = "DISCOUNT")
                                         /\ costs[j].id < costs[i].id}
              below(i) == {j \in C : <<j, i>> \in R}
  <2>1. \A i \in C : below(i) = before(i)
    <3>. SUFFICES ASSUME NEW i \in C, NEW j \in C
                  PROVE  <<j, i>> \in R <=>
                            \/ costs[j].kind # "DISCOUNT" /\ costs[i].kind = "DISCOUNT"
                            \/ /\ (costs[j].kind = "DISCOUNT") = (costs[i].kind = "DISCOUNT")
                               /\ costs[j].id < costs[i].id
      OBVIOUS
    <3>1. /\ side[i] \in {0, 1} /\ side[j] \in {0, 1}
          /\ costs[i].kind = "DISCOUNT" <=> side[i] = 1
          /\ costs[j].kind = "DISCOUNT" <=> side[j] = 1
          /\ id[i] = costs[i].id /\ id[j] = costs[j].id
      BY <1>5 DEF Sided
    <3>2. <<j, i>> \in R <=> side[j] < side[i] \/ (side[j] = side[i] /\ id[j] < id[i])
      BY <1>9
    <3>. QED
      BY <3>1, <3>2
  <2>2. o = SidesById(costs, C)
    BY <1>1 DEF SettlementOrder, Partakes
  <2>3. o = [x \in 1 .. Cardinality(C) |-> CHOOSE i \in C : Cardinality(before(i)) = x - 1]
    BY <2>2 DEF SidesById, InOrder
  <2>4. \A x : (CHOOSE i \in C : Cardinality(before(i)) = x - 1)
                 = CHOOSE i \in C : Cardinality(below(i)) = x - 1
    <3>. HIDE DEF before, below
    <3>. QED
      BY <2>1
  <2>5. o = [x \in 1 .. Cardinality(C) |-> CHOOSE i \in C : Cardinality(below(i)) = x - 1]
    <3>. HIDE DEF before, below
    <3>. QED
      BY <2>3, <2>4
  <2>. QED
    BY <2>5 DEF Arranges
<1>. QED
  BY <1>5, <1>6, <1>10, <1>11

\* The settlement order has each contributing cost once, discounts last.
LEMMA SettlesInOrder ==
    ASSUME NEW D, NEW n, NEW costs, CostList(costs, D, n), DifferentIds(costs, D),
           NEW C, Partakes(C, costs, D), NEW o, o = SettlementOrder(costs),
           NEW k, k = Cardinality(C), NEW I, I = 1 .. k
    PROVE  Settling(o, costs, D, C, I, k)
<1>1. IsFiniteSet(D) /\ DOMAIN costs = D /\ costs \in [D -> Cost]
  BY NumberedType DEF CostList
<1>2. IsFiniteSet(C) /\ k \in Nat /\ C \in SUBSET D
  BY <1>1, FS_Subset, FS_CardinalityType DEF Partakes
<1>3. PICK side, id : /\ Sided(side, id, costs, C)
                       /\ StrictlyOrders(SideBefore(side, id, C), C)
                       /\ Arranges(o, C, SideBefore(side, id, C))
  BY SidesArranged
<1>6. PICK R : R = SideBefore(side, id, C)
  OBVIOUS
<1>5. /\ \A i \in C : id[i] \in Int /\ side[i] \in Int
      /\ \A i \in C : costs[i].kind = "DISCOUNT" <=> side[i] = 1
      /\ \A i \in C : side[i] \in {0, 1}
  BY <1>3 DEF Sided
<1>9. \A i, j \in C : <<i, j>> \in R <=> \/ side[i] < side[j]
                                         \/ side[i] = side[j] /\ id[i] < id[j]
  BY <1>6 DEF SideBefore
<1>10. StrictlyOrders(R, C)
  BY <1>3, <1>6
<1>11. Arranges(o, C, R)
  BY <1>3, <1>6
<1>7. /\ o \in [I -> C]
      /\ \A x, y \in I : x < y => <<o[x], o[y]>> \in R
      /\ \A x, y \in I : o[x] = o[y] => x = y
      /\ \A i \in C : \E x \in I : o[x] = i
  <2>1. Queues(o, C, R)
    BY <1>2, <1>10, <1>11, Arranged
  <2>. QED
    BY <2>1 DEF Queues
<1>8. \A x, y \in I : x < y /\ costs[o[x]].kind = "DISCOUNT" => costs[o[y]].kind = "DISCOUNT"
  <2>. SUFFICES ASSUME NEW x \in I, NEW y \in I, x < y, costs[o[x]].kind = "DISCOUNT"
                PROVE  costs[o[y]].kind = "DISCOUNT"
    OBVIOUS
  <2>1. o[x] \in C /\ o[y] \in C /\ <<o[x], o[y]>> \in R
    BY <1>7
  <2>. QED
    BY <1>5, <1>9, <2>1
<1>. QED
  BY <1>2, <1>7, <1>8 DEF Settling

\* What keeps an amount from being put on the lines.
AllocationErrors ==
    UnusableWeightings \cup {"NONE", "ALLOCATION_INVARIANT", "ALLOCATION_CAPACITY"}

\* AllocateAmount fails only for one of these.
LEMMA WhyNotAllocated ==
    ASSUME NEW amount, NEW lines, NEW method, NEW target, NEW capacity
    PROVE  AllocateAmount(amount, lines, method, target, capacity).error \in AllocationErrors
<1>1. \A s, l, o : HandOutAll(s, l, o).error \in {"NONE", "ALLOCATION_INVARIANT", "ALLOCATION_CAPACITY"}
                   /\ HandOutAll(s, l, o) = [error |-> HandOutAll(s, l, o).error,
                                             parts |-> HandOutAll(s, l, o).parts]
  BY DEF HandOutAll, PlacedAll
<1>2. \A m, s, l : /\ DistributeByLargestRemainder(m, s, l).error
                        \in {"NONE", "ALLOCATION_INVARIANT", "ALLOCATION_CAPACITY"}
                   /\ DistributeByLargestRemainder(m, s, l)
                        = [error |-> DistributeByLargestRemainder(m, s, l).error,
                           parts |-> DistributeByLargestRemainder(m, s, l).parts]
  BY <1>1 DEF DistributeByLargestRemainder
<1>3. \A m, s, l : Signed(DistributeByLargestRemainder(m, s, l), amount).error
                        \in {"NONE", "ALLOCATION_INVARIANT", "ALLOCATION_CAPACITY"}
  <2>. TAKE m, s, l
  <2>. PICK q : q = DistributeByLargestRemainder(m, s, l)
    OBVIOUS
  <2>1. /\ q.error \in {"NONE", "ALLOCATION_INVARIANT", "ALLOCATION_CAPACITY"}
        /\ q = [error |-> q.error, parts |-> q.parts]
    BY <1>2
  <2>2. \A v : [q EXCEPT !.parts = v].error = q.error
    BY <2>1
  <2>. QED
    BY <2>1, <2>2 DEF Signed
<1>4. WeightingError(lines, method) \in UnusableWeightings \cup {"NONE"}
  BY DEF WeightingError, UnusableWeightings
<1>. QED
  BY <1>3, <1>4 DEF AllocateAmount, AllocationErrors

\* Only the empty function is of nothing.
LEMMA OfNothing ==
    ASSUME NEW D, NEW f \in [D -> Int]
    PROVE  f = NoLimit <=> D = {}
<1>1. ASSUME f = NoLimit PROVE D = {}
  BY <1>1 DEF NoLimit
<1>2. ASSUME D = {} PROVE f = NoLimit
  <2>1. f \in Seq(Int) /\ Len(f) = 0
    <3>1. D = 1 .. 0
      BY <1>2
    <3>. QED
      BY <3>1
  <2>. QED
    BY <2>1 DEF NoLimit
<1>. QED
  BY <1>1, <1>2

\* What has been put on the lines so far, and what they can still give back.
Ledgers(D) ==
    {d \in [error : AllocationErrors, byLine : [D -> Int], capacity : [D -> Int] \cup {NoLimit}] :
        Room(d.capacity, D)}

\* An entry the lines can take.
EntryFits(costs, result, i) ==
    /\ costs[i].method \in Methods
    /\ SameSide(result.effects[i], result.settledEffects[i])
    /\ costs[i].kind # "DISCOUNT" => result.settledEffects[i] >= 0
    /\ costs[i].kind = "DISCOUNT" => result.settledEffects[i] <= 0

\* One more entry on the lines.
LEMMA AllocateEntryKeeps ==
    ASSUME NEW D, NEW n, Numbered(D, n), FewParts(n), NEW lines, Carries(lines, D),
           NEW costs, NEW result, NEW i, EntryFits(costs, result, i),
           NEW d \in Ledgers(D), NEW e, e = AllocateEntry(d, i, costs, result, lines)
    PROVE  /\ e \in Ledgers(D)
           /\ d.error # "NONE" => e = d
           /\ d.error = "NONE" =>
                /\ \/ costs[i].kind # "DISCOUNT" \/ d.capacity = NoLimit
                   \/ -result.settledEffects[i] <= SumOn(d.capacity, D)
                   => e.error \in UnusableWeightings \cup {"NONE"}
                /\ e.error = "NONE" =>
                    /\ SumOn(e.byLine, D) = SumOn(d.byLine, D) + result.settledEffects[i]
                    /\ d.capacity = NoLimit => e.capacity = NoLimit
                    /\ d.capacity # NoLimit =>
                        /\ e.capacity # NoLimit
                        /\ \A l \in D : e.capacity[l] - d.capacity[l] = e.byLine[l] - d.byLine[l]
                    /\ result.settledEffects[i] >= 0 => \A l \in D : e.byLine[l] >= d.byLine[l]
<1>1. PICK cap : cap = IF costs[i].kind = "DISCOUNT" THEN d.capacity ELSE NoLimit
  OBVIOUS
<1>2. PICK t : t = result.settledEffects[i]
  OBVIOUS
<1>3. PICK s : s = AllocateAmount(result.effects[i], lines, costs[i].method, t, cap)
  OBVIOUS
<1>4. /\ d.byLine \in [D -> Int] /\ d.capacity \in [D -> Int] \cup {NoLimit} /\ Room(d.capacity, D)
      /\ d = [error |-> d.error, byLine |-> d.byLine, capacity |-> d.capacity]
      /\ d.error \in AllocationErrors
  BY DEF Ledgers
<1>5. Room(cap, D) /\ t \in Int
  BY <1>1, <1>2, <1>4 DEF Room, EntryFits, SameSide, Settles
<1>6. /\ s.parts \in [D -> Int] /\ s = [error |-> s.error, parts |-> s.parts]
      /\ WeightingError(lines, costs[i].method) # "NONE"
            => s.error = WeightingError(lines, costs[i].method)
      /\ WeightingError(lines, costs[i].method) = "NONE" =>
           /\ cap = NoLimit \/ Magnitude(t) <= SumOn(cap, D) => s.error = "NONE"
           /\ s.error = "NONE" =>
               /\ SumOn(s.parts, D) = t
               /\ \A l \in D :
                   /\ Settles(s.parts[l])
                   /\ t >= 0 => s.parts[l] >= 0
                   /\ t <= 0 => s.parts[l] <= 0
                   /\ cap # NoLimit => -s.parts[l] <= cap[l]
  <2>1. PICK amount : amount = result.effects[i]
    OBVIOUS
  <2>2. PICK method : method = costs[i].method
    OBVIOUS
  <2>3. method \in Methods /\ SameSide(amount, t)
    BY <1>2, <2>1, <2>2 DEF EntryFits
  <2>4. s = AllocateAmount(amount, lines, method, t, cap)
    BY <1>3, <2>1, <2>2
  <2>5. /\ s.parts \in [D -> Int] /\ s = [error |-> s.error, parts |-> s.parts]
        /\ WeightingError(lines, method) # "NONE" => s.error = WeightingError(lines, method)
        /\ WeightingError(lines, method) = "NONE" =>
             /\ cap = NoLimit \/ Magnitude(t) <= SumOn(cap, D) => s.error = "NONE"
             /\ s.error = "NONE" =>
                 /\ SumOn(s.parts, D) = t
                 /\ \A l \in D :
                     /\ Settles(s.parts[l])
                     /\ t >= 0 => s.parts[l] >= 0
                     /\ t <= 0 => s.parts[l] <= 0
                     /\ cap # NoLimit => -s.parts[l] <= cap[l]
    BY <1>5, <2>3, <2>4, AllocatesAmount
  <2>. QED
    BY <2>2, <2>5
<1>7. s.error \in AllocationErrors
  BY <1>3, WhyNotAllocated
<1>8. WeightingError(lines, costs[i].method) \in UnusableWeightings \cup {"NONE"}
  BY DEF WeightingError, UnusableWeightings
<1>9. s.error = "NONE" => WeightingError(lines, costs[i].method) = "NONE"
  BY <1>6
<1>10. e = IF d.error # "NONE" THEN d ELSE PutOnLines(d, s)
  BY <1>1, <1>2, <1>3 DEF AllocateEntry
<1>11. CASE d.error # "NONE"
  BY <1>10, <1>11
<1>12. CASE d.error = "NONE" /\ s.error # "NONE"
  <2>1. e = [d EXCEPT !.error = s.error]
    BY <1>10, <1>12 DEF PutOnLines
  <2>2. e = [error |-> s.error, byLine |-> d.byLine, capacity |-> d.capacity]
    BY <1>4, <2>1
  <2>3. e \in Ledgers(D) /\ e.error = s.error
    BY <1>4, <1>7, <2>2 DEF Ledgers
  <2>4. costs[i].kind # "DISCOUNT" \/ d.capacity = NoLimit \/ -t <= SumOn(d.capacity, D)
            => s.error \in UnusableWeightings \cup {"NONE"}
    <3>. SUFFICES ASSUME costs[i].kind # "DISCOUNT" \/ d.capacity = NoLimit
                            \/ -t <= SumOn(d.capacity, D)
                  PROVE  s.error \in UnusableWeightings \cup {"NONE"}
      OBVIOUS
    <3>1. cap = NoLimit \/ Magnitude(t) <= SumOn(cap, D)
      <4>1. CASE costs[i].kind # "DISCOUNT" \/ d.capacity = NoLimit
        BY <1>1, <4>1
      <4>2. CASE costs[i].kind = "DISCOUNT" /\ -t <= SumOn(d.capacity, D)
        <5>1. t <= 0 /\ t \in Int
          BY <1>2, <1>5, <4>2 DEF EntryFits
        <5>2. Magnitude(t) = -t
          BY <5>1 DEF Magnitude
        <5>. QED
          BY <1>1, <4>2, <5>2
      <4>. QED
        BY <4>1, <4>2
    <3>. QED
      BY <1>6, <1>8, <3>1
  <2>. QED
    BY <1>2, <1>12, <2>3, <2>4
<1>13. CASE d.error = "NONE" /\ s.error = "NONE"
  <2>1. PICK p : p = s.parts
    OBVIOUS
  <2>2. /\ p \in [D -> Int] /\ SumOn(p, D) = t
        /\ \A l \in D : /\ p[l] \in Int /\ Settles(p[l])
                        /\ t >= 0 => p[l] >= 0
                        /\ cap # NoLimit => -p[l] <= cap[l]
    BY <1>6, <1>9, <1>13, <2>1
  <2>3. PICK by : by = [l \in D |-> d.byLine[l] + p[l]]
    OBVIOUS
  <2>4. PICK left : left = [l \in DOMAIN d.capacity |-> d.capacity[l] + p[l]]
    OBVIOUS
  <2>5. e = [error |-> "NONE", byLine |-> by, capacity |-> left]
    <3>1. DOMAIN d.byLine = D
      BY <1>4
    <3>2. e = [d EXCEPT !.byLine = [l \in DOMAIN @ |-> @[l] + s.parts[l]],
                        !.capacity = [l \in DOMAIN @ |-> @[l] + s.parts[l]]]
      BY <1>10, <1>13 DEF PutOnLines
    <3>3. e = [d EXCEPT !.byLine = by, !.capacity = left]
      BY <2>1, <2>3, <2>4, <3>1, <3>2
    <3>. QED
      BY <1>4, <1>13, <3>3
  <2>6. by \in [D -> Int] /\ \A l \in D : by[l] = d.byLine[l] + p[l]
    <3>1. \A l \in D : d.byLine[l] + p[l] \in Int
      BY <1>4, <2>2
    <3>. QED
      BY <2>3, <3>1
  <2>7. /\ d.capacity = NoLimit => left = NoLimit
        /\ d.capacity # NoLimit => /\ left \in [D -> Int] /\ left # NoLimit
                                   /\ \A l \in D : left[l] = d.capacity[l] + p[l]
    <3>1. ASSUME d.capacity = NoLimit PROVE left = NoLimit
      <4>1. DOMAIN d.capacity = {}
        BY <3>1 DEF NoLimit
      <4>2. left \in [{} -> Int]
        BY <2>4, <4>1
      <4>. QED
        BY <4>2, OfNothing
    <3>2. ASSUME d.capacity # NoLimit
          PROVE  /\ left \in [D -> Int] /\ left # NoLimit
                 /\ \A l \in D : left[l] = d.capacity[l] + p[l]
      <4>1. d.capacity \in [D -> Int]
        BY <1>4, <3>2
      <4>2. D # {}
        BY <3>2, <4>1, OfNothing
      <4>3. \A l \in D : d.capacity[l] + p[l] \in Int
        BY <2>2, <4>1
      <4>4. left \in [D -> Int] /\ \A l \in D : left[l] = d.capacity[l] + p[l]
        BY <2>4, <4>1, <4>3
      <4>. QED
        BY <4>2, <4>4, OfNothing
    <3>. QED
      BY <3>1, <3>2
  <2>8. Room(left, D)
    <3>. SUFFICES ASSUME left # NoLimit
                  PROVE  /\ left \in [D -> Int]
                         /\ \A l \in D : left[l] >= 0 /\ Settles(left[l])
      BY DEF Room
    <3>1. /\ d.capacity # NoLimit /\ left \in [D -> Int]
          /\ \A l \in D : left[l] = d.capacity[l] + p[l]
      BY <2>7
    <3>2. ASSUME NEW l \in D PROVE left[l] >= 0 /\ Settles(left[l])
      <4>1. d.capacity[l] >= 0 /\ Settles(d.capacity[l]) /\ d.capacity[l] \in Int
        BY <1>4, <3>1 DEF Room
      <4>2. Settles(d.capacity[l] + p[l])
        BY <2>2, <4>1, SettlesPlus
      <4>3. d.capacity[l] + p[l] >= 0
        <5>1. CASE costs[i].kind = "DISCOUNT"
          <6>1. -p[l] <= d.capacity[l]
            BY <1>1, <2>2, <3>1, <5>1
          <6>. QED
            BY <2>2, <4>1, <6>1
        <5>2. CASE costs[i].kind # "DISCOUNT"
          <6>1. p[l] >= 0
            BY <1>2, <2>2, <5>2 DEF EntryFits
          <6>. QED
            BY <2>2, <4>1, <6>1
        <5>. QED
          BY <5>1, <5>2
      <4>. QED
        BY <3>1, <4>2, <4>3
    <3>. QED
      BY <3>1, <3>2
  <2>9. e \in Ledgers(D) /\ e.error = "NONE" /\ e.byLine = by /\ e.capacity = left
    <3>1. left \in [D -> Int] \cup {NoLimit} /\ "NONE" \in AllocationErrors
      BY <2>7 DEF AllocationErrors
    <3>. QED
      BY <2>5, <2>6, <2>8, <3>1 DEF Ledgers
  <2>10. SumOn(by, D) = SumOn(d.byLine, D) + t
    <3>1. PICK b : b = d.byLine
      OBVIOUS
    <3>2. Whole(b, D) /\ Whole(p, D) /\ IsPlus(by, b, p, D)
      BY <1>4, <2>2, <2>6, <3>1, NumberedType DEF Whole, IsPlus
    <3>3. Whole(by, D) /\ SumOn(by, D) = SumOn(b, D) + SumOn(p, D)
      BY <3>2, SumPlus
    <3>. QED
      BY <2>2, <3>1, <3>3
  <2>11. d.capacity # NoLimit => \A l \in D : left[l] - d.capacity[l] = by[l] - d.byLine[l]
    <3>. SUFFICES ASSUME d.capacity # NoLimit, NEW l \in D
                  PROVE  left[l] - d.capacity[l] = by[l] - d.byLine[l]
      OBVIOUS
    <3>1. d.capacity[l] \in Int /\ d.byLine[l] \in Int /\ p[l] \in Int
      BY <1>4, <2>2
    <3>. QED
      BY <2>6, <2>7, <3>1
  <2>12. t >= 0 => \A l \in D : by[l] >= d.byLine[l]
    BY <1>4, <2>2, <2>6
  <2>. QED
    BY <1>2, <1>13, <2>7, <2>9, <2>10, <2>11, <2>12
<1>. QED
  BY <1>11, <1>12, <1>13

\* What the lines are opened with.
Opening(open, lines) ==
    [error |-> open.error, byLine |-> [l \in DOMAIN lines |-> 0], capacity |-> open.parts]

\* Putting the entries on the lines, set by set of places in their order.
PuttingOn(it, base, o, costs, result, lines) ==
    it = [s \in SUBSET DOMAIN o |->
            IF s = {} THEN base
            ELSE LET x == Max(s) IN AllocateEntry(it[s \ {x}], o[x], costs, result, lines)]

\* What the ledger is after each entry.
LedgerRuns(a, base, o, k, costs, result, lines) ==
    /\ DOMAIN a = 0 .. k /\ a[0] = base
    /\ \A x \in 1 .. k : a[x] = AllocateEntry(a[x - 1], o[x], costs, result, lines)

\* The lines can take every entry.
AllFit(C, costs, result) == \A i \in C : EntryFits(costs, result, i)

\* AllocateInOrder is where such a run ends.
LEMMA AllocationRuns ==
    ASSUME NEW D, NEW n, Numbered(D, n), FewParts(n), NEW lines, Carries(lines, D),
           NEW costs, NEW result, NEW C, NEW k \in Nat, NEW o, o \in [1 .. k -> C],
           o = SettlementOrder(costs), AllFit(C, costs, result),
           NEW open, NEW base, base = Opening(open, lines), base \in Ledgers(D)
    PROVE  \E a : /\ LedgerRuns(a, base, o, k, costs, result, lines)
                  /\ AllocateInOrder(open, costs, result, lines) = a[k]
<1>. DEFINE c == CHOOSE it : PuttingOn(it, base, o, costs, result, lines)
            step == [p \in Ledgers(D) \X (1 .. k) |->
                        AllocateEntry(p[1], o[p[2]], costs, result, lines)]
<1>1. \A v \in Ledgers(D) : \A x \in 1 .. k :
            /\ step[<<v, x>>] = AllocateEntry(v, o[x], costs, result, lines)
            /\ step[<<v, x>>] \in Ledgers(D)
  <2>1. ASSUME NEW v \in Ledgers(D), NEW x \in 1 .. k
        PROVE  AllocateEntry(v, o[x], costs, result, lines) \in Ledgers(D)
    <3>1. PICK i : i = o[x] /\ EntryFits(costs, result, i)
      BY DEF AllFit
    <3>2. PICK e : e = AllocateEntry(v, i, costs, result, lines)
      OBVIOUS
    <3>3. e \in Ledgers(D)
      BY <3>1, <3>2, AllocateEntryKeeps
    <3>. QED
      BY <3>1, <3>2, <3>3
  <2>. QED
    BY <2>1
<1>2. StepsWithin(step, 1 .. k, Ledgers(D)) /\ Picks(LastOf(k), 1 .. k) /\ IsFiniteSet(1 .. k)
  BY <1>1, LastOfPicks, Initials DEF StepsWithin
<1>. HIDE DEF step
<1>3. PICK it \in [SUBSET (1 .. k) -> Ledgers(D)] : Folds(it, base, LastOf(k), step, 1 .. k)
  <2>1. PICK S : S = 1 .. k
    OBVIOUS
  <2>2. PICK V : V = Ledgers(D)
    OBVIOUS
  <2>3. StepsWithin(step, S, V) /\ Picks(LastOf(k), S) /\ IsFiniteSet(S) /\ base \in V
    BY <1>2, <2>1, <2>2
  <2>4. \E it \in [SUBSET S -> V] : Folds(it, base, LastOf(k), step, S)
    BY <2>3, Folding
  <2>. QED
    BY <2>1, <2>2, <2>4
<1>4. PuttingOn(it, base, o, costs, result, lines)
  <2>. DEFINE Rec(s) == IF s = {} THEN base
                        ELSE LET x == Max(s)
                             IN AllocateEntry(it[s \ {x}], o[x], costs, result, lines)
  <2>1. ASSUME NEW s \in SUBSET (1 .. k) PROVE it[s] = Rec(s)
    <3>1. CASE s = {}
      BY <1>3, <3>1 DEF Folds
    <3>2. CASE s # {}
      <4>. PICK x : x = Max(s)
        OBVIOUS
      <4>1. x \in s /\ LastOf(k)[s] = x
        BY <3>2, MaxOf DEF LastOf
      <4>2. it[s] = step[<<it[s \ {x}], x>>]
        BY <1>3, <3>2, <4>1 DEF Folds
      <4>3. it[s \ {x}] \in Ledgers(D) /\ x \in 1 .. k
        BY <1>3, <4>1
      <4>4. it[s] = AllocateEntry(it[s \ {x}], o[x], costs, result, lines)
        BY <1>1, <4>2, <4>3
      <4>. QED
        BY <3>2, <4>4
    <3>. QED
      BY <3>1, <3>2
  <2>2. it = [s \in SUBSET (1 .. k) |-> Rec(s)]
    <3>. HIDE DEF Rec
    <3>. QED
      BY <1>3, <2>1
  <2>3. DOMAIN o = 1 .. k
    OBVIOUS
  <2>. QED
    BY <2>2, <2>3 DEF PuttingOn
<1>5. PuttingOn(c, base, o, costs, result, lines)
  BY <1>4
<1>6. AllocateInOrder(open, costs, result, lines) = c[1 .. k]
  <2>1. DOMAIN o = 1 .. k
    OBVIOUS
  <2>. QED
    BY <2>1 DEF AllocateInOrder, FoldLeft, MapThenFoldSet, PuttingOn, Opening
<1>. HIDE DEF c
<1>7. PICK a : a = [x \in 0 .. k |-> c[1 .. x]]
  OBVIOUS
<1>8. DOMAIN a = 0 .. k /\ a[0] = base /\ a[k] = c[1 .. k]
  BY <1>5, <1>7, Initials DEF PuttingOn
<1>9. ASSUME NEW x \in 1 .. k
      PROVE  a[x] = AllocateEntry(a[x - 1], o[x], costs, result, lines)
  <2>. PICK t : t = 1 .. x
    OBVIOUS
  <2>1. /\ t # {} /\ Max(t) = x /\ t \ {x} = 1 .. x - 1 /\ x - 1 \in 0 .. k
        /\ x \in 0 .. k /\ t \in SUBSET DOMAIN o
    <3>1. /\ \A j \in 0 .. k : 1 .. j \in SUBSET (1 .. k)
          /\ \A j \in 1 .. k : /\ Max(1 .. j) = j /\ (1 .. j) \ {j} = 1 .. j - 1
                               /\ 1 .. j # {} /\ j - 1 \in 0 .. k
      BY Initials
    <3>2. x \in 0 .. k /\ DOMAIN o = 1 .. k
      OBVIOUS
    <3>. QED
      BY <3>1, <3>2
  <2>2. c[t] = AllocateEntry(c[t \ {x}], o[x], costs, result, lines)
    BY <1>5, <2>1 DEF PuttingOn
  <2>3. a[x] = c[t] /\ a[x - 1] = c[t \ {x}]
    BY <1>7, <2>1
  <2>. QED
    BY <2>2, <2>3
<1>. QED
  BY <1>6, <1>8, <1>9 DEF LedgerRuns

\* What the lines are opened with: what each can give back, or nothing when no
\* discount takes anything.
OpensWith(open, costs, result, F, D) ==
    /\ open.error = "NONE" /\ open.parts \in [D -> Int] \cup {NoLimit} /\ Room(open.parts, D)
    /\ open.parts # NoLimit => SumOn(open.parts, D) = result.settledMerchandise
    /\ open.parts = NoLimit => \/ D = {}
                               \/ \A i \in F : costs[i].kind = "DISCOUNT"
                                                => result.settledEffects[i] = 0

\* What a settled entry is.
LEMMA EntriesFit ==
    ASSUME NEW F, NEW costs \in [F -> Cost], NEW m, NEW result, CalculationFits(result, costs, F, m),
           NEW i \in F
    PROVE  /\ EntryFits(costs, result, i) /\ result.settledEffects[i] \in Int
           /\ ~Contributes(costs[i]) => result.settledEffects[i] = 0
<1>1. /\ result.effects[i] \in Int /\ KeepsSides(result.effects, result.settledEffects, F)
      /\ result.effects[i] > 0 => costs[i].kind # "DISCOUNT" /\ Contributes(costs[i])
      /\ result.effects[i] < 0 => costs[i].kind = "DISCOUNT" /\ Contributes(costs[i])
  BY DEF CalculationFits
<1>2. PICK e \in Int : e = result.effects[i]
  BY <1>1
<1>3. PICK s : s = result.settledEffects[i]
  OBVIOUS
<1>4. s \in Int /\ Settles(s) /\ (e >= 0 => s >= 0) /\ (e <= 0 => s <= 0)
  BY <1>1, <1>2, <1>3 DEF KeepsSides
<1>5. costs[i].method \in Methods
  BY DEF Cost
<1>6. SameSide(e, s)
  BY <1>2, <1>4 DEF SameSide
<1>. QED
  BY <1>1, <1>2, <1>3, <1>4, <1>5, <1>6 DEF EntryFits

\* The entries of the first x places.
FirstOf(o, x) == {o[y] : y \in 1 .. x}

\* No entry has two places.
OnceEach(o, k) == \A x, y \in 1 .. k : o[x] = o[y] => x = y

\* Each entry after those before it.
LEMMA OneMore ==
    ASSUME NEW C, IsFiniteSet(C), NEW k \in Nat, NEW o, o \in [1 .. k -> C],
           OnceEach(o, k), NEW f, Whole(f, C),
           NEW y \in 1 .. k
    PROVE  /\ SumOn(f, FirstOf(o, y)) = SumOn(f, FirstOf(o, y - 1)) + f[o[y]]
           /\ SumOn(f, FirstOf(o, y - 1)) \in Int /\ f[o[y]] \in Int
           /\ FirstOf(o, y) \in SUBSET C
<1>1. PICK A : A = FirstOf(o, y - 1)
  OBVIOUS
<1>2. PICK i : i = o[y]
  OBVIOUS
<1>3. A \in SUBSET C /\ i \in C /\ i \notin A /\ FirstOf(o, y) = A \cup {i}
  BY <1>1, <1>2 DEF FirstOf, OnceEach
<1>4. /\ SumOn(f, A \cup {i}) = f[i] + SumOn(f, A)
      /\ f[i] \in Int /\ SumOn(f, A) \in Int
  BY <1>3, SumPutOn
<1>5. SumOn(f, A \cup {i}) = SumOn(f, A) + f[i]
  BY <1>4
<1>. QED
  BY <1>1, <1>2, <1>3, <1>4, <1>5

\* The discounts still to come do not take more than is left.
LEMMA RestFits ==
    ASSUME NEW F, IsFiniteSet(F), NEW costs \in [F -> Cost], NEW m, NEW result,
           CalculationFits(result, costs, F, m), NEW C, NEW I, NEW k, NEW o,
           Settling(o, costs, F, C, I, k), NEW y \in 1 .. k, costs[o[y]].kind = "DISCOUNT"
    PROVE  -result.settledEffects[o[y]]
             <= result.settledMerchandise + SumOn(result.settledEffects, FirstOf(o, y - 1))
<1>1. PICK s : s = result.settledEffects
  OBVIOUS
<1>2. /\ C = {i \in F : Contributes(costs[i])} /\ IsFiniteSet(C) /\ k \in Nat
      /\ o \in [1 .. k -> C]
      /\ OnceEach(o, k)
      /\ \A i \in C : \E x \in 1 .. k : o[x] = i
      /\ \A x, z \in 1 .. k : x < z /\ costs[o[x]].kind = "DISCOUNT" => costs[o[z]].kind = "DISCOUNT"
  BY DEF Settling, Partakes, OnceEach
<1>3. /\ \A i \in F : s[i] \in Int /\ EntryFits(costs, result, i)
                      /\ (~Contributes(costs[i]) => s[i] = 0)
  BY <1>1, EntriesFit
<1>4. Whole(s, F) /\ Whole(s, C)
  BY <1>2, <1>3 DEF Whole
<1>5. /\ SumOn(s, FirstOf(o, y)) = SumOn(s, FirstOf(o, y - 1)) + s[o[y]]
      /\ SumOn(s, FirstOf(o, y - 1)) \in Int /\ s[o[y]] \in Int
      /\ FirstOf(o, y) \in SUBSET C
  <2>1. IsFiniteSet(C) /\ k \in Nat /\ o \in [1 .. k -> C] /\ OnceEach(o, k)
    BY <1>2
  <2>2. Whole(s, C)
    BY <1>4
  <2>. QED
    BY <2>1, <2>2, OneMore
<1>6. PICK A : A = FirstOf(o, y)
  OBVIOUS
<1>7. PICK R : R = F \ A
  OBVIOUS
<1>8. /\ SumOn(s, F) = SumOn(s, A) + SumOn(s, R) /\ SumOn(s, A) \in Int /\ SumOn(s, R) \in Int
      /\ Whole(s, R) /\ IsFiniteSet(R)
  <2>1. A \in SUBSET F /\ R \in SUBSET F
    BY <1>2, <1>5, <1>6, <1>7
  <2>2. SumOn(s, F) = SumOn(s, A) + SumOn(s, F \ A) /\ SumOn(s, A) \in Int /\ SumOn(s, F \ A) \in Int
    BY <1>4, <2>1, SumOfTwo
  <2>3. Whole(s, R) /\ IsFiniteSet(R)
    BY <1>4, <2>1, WholePart, FS_Subset
  <2>. QED
    BY <1>7, <2>2, <2>3
<1>9. \A i \in R : s[i] <= 0
  <2>. SUFFICES ASSUME NEW i \in R PROVE s[i] <= 0
    OBVIOUS
  <2>1. CASE ~Contributes(costs[i])
    BY <1>3, <1>7, <2>1
  <2>2. CASE Contributes(costs[i])
    <3>1. PICK z \in 1 .. k : o[z] = i
      BY <1>2, <1>7, <2>2
    <3>2. ~(z \in 1 .. y)
      BY <1>6, <1>7, <3>1 DEF FirstOf
    <3>3. y < z
      BY <1>2, <3>2
    <3>4. costs[i].kind = "DISCOUNT"
      BY <1>2, <3>1, <3>3
    <3>. QED
      BY <1>1, <1>3, <1>7, <3>4 DEF EntryFits
  <2>. QED
    BY <2>1, <2>2
<1>10. SumOn(s, R) <= 0
  <2>. DEFINE z == [i \in R |-> 0]
  <2>1. \A i \in R : z[i] = 0 /\ s[i] <= z[i]
    BY <1>9
  <2>. HIDE DEF z
  <2>2. Whole(z, R) /\ SumOn(z, R) = 0
    BY <1>8, <2>1, SumOfZeros
  <2>3. SumOn(s, R) <= SumOn(z, R)
    BY <1>8, <2>1, <2>2, SumAtMost
  <2>. QED
    BY <2>2, <2>3
<1>11. /\ SumOn(s, F) = result.settledLanded - result.settledMerchandise
       /\ result.settledLanded \in Int /\ result.settledLanded >= 0
       /\ result.settledMerchandise \in Int
  BY <1>1 DEF CalculationFits
<1>. QED
  BY <1>1, <1>5, <1>6, <1>8, <1>10, <1>11

\* What the ledger is after the entries of the first x places.
Held(d, x, open, o, result, D) ==
    /\ d \in Ledgers(D) /\ d.error \in UnusableWeightings \cup {"NONE"}
    /\ d.error = "NONE" =>
        /\ SumOn(d.byLine, D) = SumOn(result.settledEffects, FirstOf(o, x))
        /\ open.parts = NoLimit => d.capacity = NoLimit /\ \A l \in D : d.byLine[l] >= 0
        /\ open.parts # NoLimit =>
            /\ d.capacity # NoLimit
            /\ \A l \in D : d.capacity[l] = open.parts[l] + d.byLine[l]

\* One more entry keeps what a ledger holds.
LEMMA HeldOn ==
    ASSUME NEW D, NEW n, Numbered(D, n), FewParts(n), NEW lines, Carries(lines, D),
           NEW F, IsFiniteSet(F), NEW costs \in [F -> Cost], NEW m, NEW result,
           CalculationFits(result, costs, F, m), NEW C, NEW I, NEW k, NEW o,
           Settling(o, costs, F, C, I, k), NEW open, OpensWith(open, costs, result, F, D),
           NEW y \in 1 .. k, NEW d, Held(d, y - 1, open, o, result, D),
           NEW e, e = AllocateEntry(d, o[y], costs, result, lines)
    PROVE  Held(e, y, open, o, result, D)
<1>1. PICK s : s = result.settledEffects
  OBVIOUS
<1>2. PICK i : i = o[y]
  OBVIOUS
<1>3. /\ C = {j \in F : Contributes(costs[j])} /\ IsFiniteSet(C) /\ k \in Nat
      /\ o \in [1 .. k -> C] /\ OnceEach(o, k)
  BY DEF Settling, Partakes, OnceEach
<1>4. i \in F /\ s[i] \in Int /\ EntryFits(costs, result, i)
  <2>1. i \in F
    BY <1>2, <1>3
  <2>2. EntryFits(costs, result, i) /\ result.settledEffects[i] \in Int
    BY <2>1, EntriesFit
  <2>. QED
    BY <1>1, <2>1, <2>2
<1>5. \A j \in F : s[j] \in Int
  BY <1>1 DEF CalculationFits, KeepsSides
<1>6. /\ SumOn(s, FirstOf(o, y)) = SumOn(s, FirstOf(o, y - 1)) + s[i]
      /\ SumOn(s, FirstOf(o, y - 1)) \in Int
  <2>1. Whole(s, C)
    BY <1>3, <1>5 DEF Whole
  <2>2. IsFiniteSet(C) /\ k \in Nat /\ o \in [1 .. k -> C] /\ OnceEach(o, k)
    BY <1>3
  <2>3. /\ SumOn(s, FirstOf(o, y)) = SumOn(s, FirstOf(o, y - 1)) + s[o[y]]
        /\ SumOn(s, FirstOf(o, y - 1)) \in Int /\ s[o[y]] \in Int
        /\ FirstOf(o, y) \in SUBSET C
    BY <2>1, <2>2, OneMore
  <2>. QED
    BY <1>2, <2>3
<1>7. d \in Ledgers(D) /\ d.error \in UnusableWeightings \cup {"NONE"}
  BY DEF Held
<1>8. d.byLine \in [D -> Int] /\ d.capacity \in [D -> Int] \cup {NoLimit}
  BY <1>7 DEF Ledgers
<1>9. /\ e \in Ledgers(D)
      /\ d.error # "NONE" => e = d
      /\ d.error = "NONE" =>
           /\ \/ costs[i].kind # "DISCOUNT" \/ d.capacity = NoLimit
              \/ -s[i] <= SumOn(d.capacity, D)
              => e.error \in UnusableWeightings \cup {"NONE"}
           /\ e.error = "NONE" =>
               /\ SumOn(e.byLine, D) = SumOn(d.byLine, D) + s[i]
               /\ d.capacity = NoLimit => e.capacity = NoLimit
               /\ d.capacity # NoLimit =>
                   /\ e.capacity # NoLimit
                   /\ \A l \in D : e.capacity[l] - d.capacity[l] = e.byLine[l] - d.byLine[l]
               /\ s[i] >= 0 => \A l \in D : e.byLine[l] >= d.byLine[l]
  <2>1. e = AllocateEntry(d, i, costs, result, lines)
    BY <1>2
  <2>2. /\ e \in Ledgers(D)
        /\ d.error # "NONE" => e = d
        /\ d.error = "NONE" =>
             /\ \/ costs[i].kind # "DISCOUNT" \/ d.capacity = NoLimit
                \/ -result.settledEffects[i] <= SumOn(d.capacity, D)
                => e.error \in UnusableWeightings \cup {"NONE"}
             /\ e.error = "NONE" =>
                 /\ SumOn(e.byLine, D) = SumOn(d.byLine, D) + result.settledEffects[i]
                 /\ d.capacity = NoLimit => e.capacity = NoLimit
                 /\ d.capacity # NoLimit =>
                     /\ e.capacity # NoLimit
                     /\ \A l \in D : e.capacity[l] - d.capacity[l] = e.byLine[l] - d.byLine[l]
                 /\ result.settledEffects[i] >= 0 => \A l \in D : e.byLine[l] >= d.byLine[l]
    BY <1>4, <1>7, <2>1, AllocateEntryKeeps
  <2>. QED
    BY <1>1, <2>2
<1>10. CASE d.error # "NONE"
  BY <1>7, <1>9, <1>10 DEF Held
<1>11. CASE d.error = "NONE"
  <2>1. /\ SumOn(d.byLine, D) = SumOn(s, FirstOf(o, y - 1))
        /\ open.parts = NoLimit => d.capacity = NoLimit /\ \A l \in D : d.byLine[l] >= 0
        /\ open.parts # NoLimit =>
            /\ d.capacity # NoLimit
            /\ \A l \in D : d.capacity[l] = open.parts[l] + d.byLine[l]
    BY <1>1, <1>11 DEF Held
  <2>2. \/ costs[i].kind # "DISCOUNT" \/ d.capacity = NoLimit
        \/ -s[i] <= SumOn(d.capacity, D)
    <3>. SUFFICES ASSUME costs[i].kind = "DISCOUNT", d.capacity # NoLimit
                  PROVE  -s[i] <= SumOn(d.capacity, D)
      OBVIOUS
    <3>1. PICK p : p = open.parts
      OBVIOUS
    <3>2. PICK c : c = d.capacity
      OBVIOUS
    <3>3. PICK b : b = d.byLine
      OBVIOUS
    <3>4. p # NoLimit /\ p \in [D -> Int] /\ SumOn(p, D) = result.settledMerchandise
      BY <2>1, <3>1 DEF OpensWith
    <3>5. Whole(p, D) /\ Whole(b, D) /\ IsPlus(c, p, b, D)
      BY <1>8, <2>1, <3>1, <3>2, <3>3, <3>4, NumberedType DEF Whole, IsPlus
    <3>6. Whole(c, D) /\ SumOn(c, D) = SumOn(p, D) + SumOn(b, D)
      BY <3>5, SumPlus
    <3>7. -s[i] <= result.settledMerchandise + SumOn(s, FirstOf(o, y - 1))
      BY <1>1, <1>2, RestFits
    <3>. QED
      BY <2>1, <3>2, <3>3, <3>4, <3>6, <3>7
  <2>3. e.error \in UnusableWeightings \cup {"NONE"}
    BY <1>9, <1>11, <2>2
  <2>4. ASSUME e.error = "NONE"
        PROVE  /\ SumOn(e.byLine, D) = SumOn(s, FirstOf(o, y))
               /\ open.parts = NoLimit => e.capacity = NoLimit /\ \A l \in D : e.byLine[l] >= 0
               /\ open.parts # NoLimit =>
                   /\ e.capacity # NoLimit
                   /\ \A l \in D : e.capacity[l] = open.parts[l] + e.byLine[l]
    <3>1. e.byLine \in [D -> Int] /\ e.capacity \in [D -> Int] \cup {NoLimit}
      BY <1>9 DEF Ledgers
    <3>2. SumOn(e.byLine, D) = SumOn(s, FirstOf(o, y))
      BY <1>6, <1>9, <1>11, <2>1, <2>4
    <3>3. ASSUME open.parts = NoLimit
          PROVE  e.capacity = NoLimit /\ \A l \in D : e.byLine[l] >= 0
      <4>1. D = {} \/ s[i] >= 0
        <5>1. CASE costs[i].kind # "DISCOUNT"
          BY <1>1, <1>4, <5>1 DEF EntryFits
        <5>2. CASE costs[i].kind = "DISCOUNT"
          BY <1>1, <1>4, <3>3, <5>2 DEF OpensWith
        <5>. QED
          BY <5>1, <5>2
      <4>. QED
        BY <1>8, <1>9, <1>11, <2>1, <2>4, <3>1, <3>3, <4>1
    <3>4. ASSUME open.parts # NoLimit
          PROVE  /\ e.capacity # NoLimit
                 /\ \A l \in D : e.capacity[l] = open.parts[l] + e.byLine[l]
      <4>1. /\ e.capacity # NoLimit /\ d.capacity # NoLimit
            /\ \A l \in D : e.capacity[l] - d.capacity[l] = e.byLine[l] - d.byLine[l]
            /\ \A l \in D : d.capacity[l] = open.parts[l] + d.byLine[l]
        BY <1>9, <1>11, <2>1, <2>4, <3>4
      <4>2. open.parts \in [D -> Int] /\ e.capacity \in [D -> Int] /\ d.capacity \in [D -> Int]
        BY <1>8, <3>1, <3>4, <4>1 DEF OpensWith
      <4>3. ASSUME NEW l \in D PROVE e.capacity[l] = open.parts[l] + e.byLine[l]
        <5>1. /\ e.capacity[l] \in Int /\ d.capacity[l] \in Int /\ open.parts[l] \in Int
              /\ e.byLine[l] \in Int /\ d.byLine[l] \in Int
          BY <1>8, <3>1, <4>2
        <5>. QED
          BY <4>1, <5>1
      <4>. QED
        BY <4>1, <4>3
    <3>. QED
      BY <3>2, <3>3, <3>4
  <2>. QED
    BY <1>1, <1>9, <2>3, <2>4 DEF Held
<1>. QED
  BY <1>10, <1>11

\* A line of each worth, and what they are worth together.
Worth(lines, D, m) ==
    /\ Carries(lines, D) /\ \A l \in D : lines[l].baseValue \in Nat
    /\ m = SumOn([l \in D |-> lines[l].baseValue], D)

\* The settled merchandise of each line: nothing below zero, the total in all.
LEMMA MerchandiseSettles ==
    ASSUME NEW D, NEW n, Numbered(D, n), FewParts(n), NEW lines, NEW m, Worth(lines, D, m),
           NEW T, T = RoundToMinorUnit(m), NEW r, r = SettleLineMerchandise(lines, T)
    PROVE  /\ r.error = "NONE" /\ r.parts \in [D -> Int] /\ SumOn(r.parts, D) = T
           /\ Room(r.parts, D) /\ m \in Nat /\ r = [error |-> r.error, parts |-> r.parts]
<1>1. PICK x : x = [l \in D |-> lines[l].baseValue]
  OBVIOUS
<1>2. Parts(x, D) /\ DOMAIN lines = D
  <2>1. IsFiniteSet(D)
    BY NumberedType
  <2>2. x \in [D -> Int] /\ \A l \in D : x[l] >= 0
    BY <1>1 DEF Worth
  <2>. QED
    BY <2>1, <2>2 DEF Parts, Worth, Carries
<1>3. m = SumOn(x, D) /\ m \in Int /\ m >= 0
  <2>1. SumOn(x, D) \in Int /\ SumOn(x, D) >= 0
    BY <1>2, PartsAddUp
  <2>. QED
    BY <1>1, <2>1 DEF Worth
<1>4. T \in Int /\ T >= 0 /\ Settles(T) /\ (m = 0 => T = 0)
  <2>1. RoundToMinorUnit(m) \in Int /\ RoundToMinorUnit(m) >= 0 /\ Settles(RoundToMinorUnit(m))
        /\ (m = 0 => RoundToMinorUnit(m) = 0)
    BY <1>3, Rounds
  <2>. QED
    BY <2>1
<1>5. r = SettleTotalAcrossParts(T, x)
  BY <1>1, <1>2 DEF SettleLineMerchandise
<1>6. /\ r.parts \in [D -> Int] /\ r = [error |-> r.error, parts |-> r.parts]
      /\ SumOn(x, D) # 0 \/ T = 0 => r.error = "NONE"
      /\ r.error = "NONE" =>
           /\ SumOn(r.parts, D) = T
           /\ \A l \in D : /\ r.parts[l] >= 0 /\ Settles(r.parts[l])
                           /\ \A d \in Int :
                               T - SumOn(x, D) <= d /\ SumOn(x, D) - T <= d /\ d >= 0 =>
                                   /\ r.parts[l] - x[l] <= Minor + d
                                   /\ x[l] - r.parts[l] <= Minor + d
  BY <1>2, <1>4, <1>5, SettlesAcross
<1>7. r.error = "NONE"
  BY <1>3, <1>4, <1>6
<1>8. Room(r.parts, D)
  BY <1>6, <1>7 DEF Room
<1>. QED
  BY <1>3, <1>6, <1>7, <1>8

\* What the lines are opened with is theirs to give.
LEMMA OpensLines ==
    ASSUME NEW D, NEW n, Numbered(D, n), FewParts(n), NEW lines, NEW m, Worth(lines, D, m),
           NEW F, NEW costs \in [F -> Cost], NEW result, CalculationFits(result, costs, F, m),
           NEW open, open = OpenLineCapacity(costs, result, lines)
    PROVE  OpensWith(open, costs, result, F, D)
<1>1. PICK T : T = result.settledMerchandise
  OBVIOUS
<1>2. PICK r : r = SettleLineMerchandise(lines, T)
  OBVIOUS
<1>3. T = RoundToMinorUnit(m)
  BY <1>1 DEF CalculationFits
<1>4. /\ r.error = "NONE" /\ r.parts \in [D -> Int] /\ SumOn(r.parts, D) = T
      /\ Room(r.parts, D) /\ m \in Nat /\ r = [error |-> r.error, parts |-> r.parts]
  BY <1>2, <1>3, MerchandiseSettles
<1>5. CASE \E i \in F : costs[i].kind = "DISCOUNT" /\ result.settledEffects[i] # 0
  <2>1. open = r
    BY <1>1, <1>2, <1>5 DEF OpenLineCapacity
  <2>2. r.parts = NoLimit => D = {}
    BY <1>4, OfNothing
  <2>. QED
    BY <1>1, <1>4, <2>1, <2>2 DEF OpensWith
<1>6. CASE ~\E i \in F : costs[i].kind = "DISCOUNT" /\ result.settledEffects[i] # 0
  <2>1. open = [error |-> "NONE", parts |-> NoLimit]
    BY <1>6 DEF OpenLineCapacity
  <2>2. Room(NoLimit, D)
    BY DEF Room
  <2>. QED
    BY <1>6, <2>1, <2>2 DEF OpensWith
<1>. QED
  BY <1>5, <1>6

\* What the costs put on the lines come to.
Placed(d, result, D, open) ==
    /\ d \in Ledgers(D) /\ d.byLine \in [D -> Int] /\ d.error \in UnusableWeightings \cup {"NONE"}
    /\ d.error = "NONE" =>
        /\ SumOn(d.byLine, D) = result.settledLanded - result.settledMerchandise
        /\ open.parts = NoLimit => \A l \in D : d.byLine[l] >= 0
        /\ open.parts # NoLimit => \A l \in D : open.parts[l] + d.byLine[l] >= 0

\* When every entry has been put on, the lines hold the difference between the
\* settled total and the settled merchandise, and no line is below zero.
LEMMA AllPlaced ==
    ASSUME NEW D, NEW n, Numbered(D, n), FewParts(n), NEW lines, Carries(lines, D),
           NEW F, NEW f, NEW costs, CostList(costs, F, f), DifferentIds(costs, F), NEW m, NEW result,
           CalculationFits(result, costs, F, m),
           NEW open, OpensWith(open, costs, result, F, D),
           NEW d, d = AllocateInOrder(open, costs, result, lines)
    PROVE  Placed(d, result, D, open)
<1>1. PICK C : Partakes(C, costs, F)
  BY DEF Partakes
<1>2. PICK k : k = Cardinality(C)
  OBVIOUS
<1>3. PICK I : I = 1 .. k
  OBVIOUS
<1>4. PICK o : o = SettlementOrder(costs)
  OBVIOUS
<1>5. Settling(o, costs, F, C, I, k)
  BY <1>1, <1>2, <1>3, <1>4, SettlesInOrder
<1>6. costs \in [F -> Cost] /\ IsFiniteSet(F)
  BY NumberedType DEF CostList
<1>7. /\ k \in Nat /\ o \in [1 .. k -> C] /\ IsFiniteSet(C) /\ C \in SUBSET F
      /\ \A i \in C : \E x \in 1 .. k : o[x] = i
      /\ \A i \in F : i \notin C => ~Contributes(costs[i])
  BY <1>3, <1>5 DEF Settling, Partakes
<1>8. AllFit(C, costs, result)
  <2>. SUFFICES ASSUME NEW i \in C PROVE EntryFits(costs, result, i)
    BY DEF AllFit
  <2>1. i \in F
    BY <1>7
  <2>2. EntryFits(costs, result, i) /\ result.settledEffects[i] \in Int
    BY <1>6, <2>1, EntriesFit
  <2>. QED
    BY <2>2
<1>9. PICK base : base = Opening(open, lines)
  OBVIOUS
<1>10. PICK z : z = [l \in D |-> 0]
  OBVIOUS
<1>11. /\ z \in [D -> Int] /\ (\A l \in D : z[l] = 0) /\ SumOn(z, D) = 0
  <2>1. z \in [D -> Int] /\ (\A l \in D : z[l] = 0) /\ IsFiniteSet(D)
    BY <1>10, NumberedType
  <2>. QED
    BY <2>1, SumOfZeros
<1>12. /\ base = [error |-> "NONE", byLine |-> z, capacity |-> open.parts]
       /\ open.parts \in [D -> Int] \cup {NoLimit} /\ Room(open.parts, D)
  BY <1>9, <1>10 DEF Opening, OpensWith, Carries
<1>13. base \in Ledgers(D)
  BY <1>11, <1>12 DEF Ledgers, AllocationErrors
<1>14. Held(base, 0, open, o, result, D)
  <2>1. FirstOf(o, 0) = {}
    BY DEF FirstOf
  <2>2. SumOn(z, D) = SumOn(result.settledEffects, FirstOf(o, 0))
    BY <1>11, <2>1, SumOfNothing
  <2>3. open.parts # NoLimit => \A l \in D : open.parts[l] = open.parts[l] + z[l]
    BY <1>11, <1>12
  <2>. QED
    BY <1>11, <1>12, <1>13, <2>2, <2>3 DEF Held
<1>15. PICK a : /\ LedgerRuns(a, base, o, k, costs, result, lines)
                /\ d = a[k]
  <2>1. \E a : /\ LedgerRuns(a, base, o, k, costs, result, lines)
               /\ AllocateInOrder(open, costs, result, lines) = a[k]
    <3>1. k \in Nat /\ o \in [1 .. k -> C]
      BY <1>7
    <3>. QED
      BY <3>1, <1>4, <1>8, <1>9, <1>13, AllocationRuns
  <2>. QED
    BY <2>1
<1>16. Held(a[k], k, open, o, result, D)
  <2>. DEFINE P == {x \in Nat : x <= k => Held(a[x], x, open, o, result, D)}
  <2>1. 0 \in P
    BY <1>14, <1>15 DEF LedgerRuns
  <2>2. ASSUME NEW x \in Nat, x \in P PROVE x + 1 \in P
    <3>. SUFFICES ASSUME x + 1 <= k PROVE Held(a[x + 1], x + 1, open, o, result, D)
      OBVIOUS
    <3>1. PICK y : y = x + 1
      OBVIOUS
    <3>2. y \in 1 .. k /\ y - 1 = x /\ x <= k
      BY <1>7, <3>1
    <3>3. Held(a[y - 1], y - 1, open, o, result, D)
      BY <2>2, <3>2
    <3>4. a[y] = AllocateEntry(a[y - 1], o[y], costs, result, lines)
      BY <1>15, <3>2 DEF LedgerRuns
    <3>5. Held(a[y], y, open, o, result, D)
      <4>1. PICK v : v = a[y - 1]
        OBVIOUS
      <4>2. PICK e : e = a[y]
        OBVIOUS
      <4>3. Held(v, y - 1, open, o, result, D) /\ e = AllocateEntry(v, o[y], costs, result, lines)
        BY <3>3, <3>4, <4>1, <4>2
      <4>4. Held(e, y, open, o, result, D)
        BY <1>5, <1>6, <3>2, <4>3, HeldOn
      <4>. QED
        BY <4>2, <4>4
    <3>. QED
      BY <3>1, <3>5
  <2>3. \A x \in Nat : x \in P => x + 1 \in P
    BY <2>2
  <2>4. k \in P
    <3>. HIDE DEF P
    <3>. QED
      BY <1>7, <2>1, <2>3, Counting
  <2>. QED
    BY <1>7, <2>4
<1>17. PICK s : s = result.settledEffects
  OBVIOUS
<1>18. SumOn(s, FirstOf(o, k)) = result.settledLanded - result.settledMerchandise
  <2>1. FirstOf(o, k) = C
    BY <1>7 DEF FirstOf
  <2>2. \A i \in F : s[i] \in Int /\ (~Contributes(costs[i]) => s[i] = 0)
    BY <1>6, <1>17, EntriesFit
  <2>3. PICK R : R = F \ C
    OBVIOUS
  <2>4. Whole(s, F) /\ IsFiniteSet(R) /\ \A i \in R : s[i] = 0
    BY <1>6, <1>7, <2>2, <2>3, FS_Subset DEF Whole
  <2>5. SumOn(s, R) = 0
    BY <2>4, SumOfZeros
  <2>6. SumOn(s, F) = SumOn(s, C) + SumOn(s, F \ C) /\ SumOn(s, C) \in Int /\ SumOn(s, F \ C) \in Int
    BY <1>7, <2>4, SumOfTwo
  <2>7. SumOn(s, F) = result.settledLanded - result.settledMerchandise
    BY <1>17 DEF CalculationFits
  <2>. QED
    BY <2>1, <2>3, <2>5, <2>6, <2>7
<1>19. Held(d, k, open, o, result, D)
  BY <1>15, <1>16
<1>20. d \in Ledgers(D) /\ d.error \in UnusableWeightings \cup {"NONE"}
  BY <1>19 DEF Held
<1>21. d.byLine \in [D -> Int] /\ Room(d.capacity, D)
  BY <1>20 DEF Ledgers
<1>22. ASSUME d.error = "NONE"
       PROVE  /\ SumOn(d.byLine, D) = result.settledLanded - result.settledMerchandise
              /\ open.parts = NoLimit => \A l \in D : d.byLine[l] >= 0
              /\ open.parts # NoLimit => \A l \in D : open.parts[l] + d.byLine[l] >= 0
  <2>1. /\ SumOn(d.byLine, D) = SumOn(result.settledEffects, FirstOf(o, k))
        /\ open.parts = NoLimit => d.capacity = NoLimit /\ \A l \in D : d.byLine[l] >= 0
        /\ open.parts # NoLimit =>
            /\ d.capacity # NoLimit
            /\ \A l \in D : d.capacity[l] = open.parts[l] + d.byLine[l]
    BY <1>19, <1>22 DEF Held
  <2>. QED
    BY <1>17, <1>18, <1>21, <2>1 DEF Room
<1>. QED
  BY <1>20, <1>21, <1>22 DEF Placed

\* A supplier whose costs are put on its lines: complete, or a discount does not
\* fit a line; no assertion of the engine fails.
LEMMA Completes ==
    ASSUME NEW D, NEW n, Numbered(D, n), FewParts(n), NEW lines, NEW m, Worth(lines, D, m),
           NEW F, NEW f, NEW costs, CostList(costs, F, f), DifferentIds(costs, F), NEW result,
           CalculationFits(result, costs, F, m),
           NEW settled, settled = SettleLineMerchandise(lines, result.settledMerchandise),
           NEW given, given = AllocateSupplierCosts(costs, result, lines),
           NEW e, e = Completed(lines, result, settled, given)
    PROVE  /\ e.status \in {"COMPLETE", "INVALID"}
           /\ e.status = "COMPLETE" => /\ e.result = result
                                       /\ e.rankingAmount = result.settledLanded
<1>1. PICK T : T = result.settledMerchandise
  OBVIOUS
<1>2. T = RoundToMinorUnit(m) /\ T \in Int /\ result.settledLanded \in Int
  BY <1>1 DEF CalculationFits
<1>3. /\ settled.error = "NONE" /\ settled.parts \in [D -> Int] /\ SumOn(settled.parts, D) = T
      /\ Room(settled.parts, D)
  <2>1. settled = SettleLineMerchandise(lines, T)
    BY <1>1
  <2>2. /\ settled.error = "NONE" /\ settled.parts \in [D -> Int] /\ SumOn(settled.parts, D) = T
        /\ Room(settled.parts, D) /\ m \in Nat
        /\ settled = [error |-> settled.error, parts |-> settled.parts]
    BY <1>2, <2>1, MerchandiseSettles
  <2>. QED
    BY <2>2
<1>4. PICK open : open = OpenLineCapacity(costs, result, lines)
  OBVIOUS
<1>5. costs \in [F -> Cost] /\ Carries(lines, D) /\ IsFiniteSet(D)
  BY NumberedType DEF CostList, Worth
<1>6. OpensWith(open, costs, result, F, D)
  BY <1>4, <1>5, OpensLines
<1>7. open.parts = settled.parts \/ open.parts = NoLimit
  BY <1>4 DEF OpenLineCapacity
<1>8. PICK d : d = AllocateInOrder(open, costs, result, lines)
  OBVIOUS
<1>9. Placed(d, result, D, open)
  BY <1>5, <1>6, <1>8, AllPlaced
<1>10. d = [error |-> d.error, byLine |-> d.byLine, capacity |-> d.capacity]
  BY <1>9 DEF Placed, Ledgers
<1>11. given = CheckedAgainstLines(d, costs, result, lines)
  BY <1>4, <1>8 DEF AllocateSupplierCosts
<1>12. given = d \/ given.error = "INVALID_DISCOUNT"
  <2>1. [d EXCEPT !.error = "INVALID_DISCOUNT"].error = "INVALID_DISCOUNT"
    BY <1>10
  <2>. QED
    BY <1>11, <2>1 DEF CheckedAgainstLines
<1>13. PICK landed : landed = LandedLines(settled.parts, given)
  OBVIOUS
<1>14. PICK error : error = CompletionError(settled, landed, given, result)
  OBVIOUS
<1>15. /\ error # "NONE" => e = Failed(error)
       /\ error = "NONE" => /\ e.status = "COMPLETE" /\ e.result = result
                            /\ e.rankingAmount = result.settledLanded
  BY <1>13, <1>14 DEF Completed
<1>16. CASE given.error = "INVALID_DISCOUNT"
  <2>1. error = "INVALID_DISCOUNT"
    BY <1>14, <1>16 DEF CompletionError, UnusableWeightings
  <2>2. e.status = "INVALID"
    BY <1>15, <2>1 DEF Failed, ExpectedErrors, Invalid
  <2>. QED
    BY <2>2
<1>17. CASE given = d
  <2>1. given.error \in UnusableWeightings \cup {"NONE"}
    BY <1>9, <1>17 DEF Placed
  <2>2. CASE given.error # "NONE"
    <3>1. landed = <<>>
      BY <1>13, <2>2 DEF LandedLines
    <3>2. error = "NONE"
      BY <1>3, <1>14, <2>1, <3>1 DEF CompletionError
    <3>. QED
      BY <1>15, <3>2
  <2>3. CASE given.error = "NONE"
    <3>1. PICK p : p = settled.parts
      OBVIOUS
    <3>2. PICK b : b = d.byLine
      OBVIOUS
    <3>3. /\ p \in [D -> Int] /\ b \in [D -> Int] /\ SumOn(p, D) = T
          /\ SumOn(b, D) = result.settledLanded - T
          /\ open.parts = NoLimit => \A l \in D : b[l] >= 0
          /\ open.parts # NoLimit => \A l \in D : open.parts[l] + b[l] >= 0
      BY <1>1, <1>3, <1>9, <1>17, <2>3, <3>1, <3>2 DEF Placed
    <3>4. \A l \in D : p[l] \in Int /\ b[l] \in Int /\ p[l] >= 0
      <4>. TAKE l \in D
      <4>1. p # NoLimit
        BY <3>3, OfNothing
      <4>. QED
        BY <1>3, <3>1, <3>3, <4>1 DEF Room
    <3>5. landed = [l \in D |-> p[l] + b[l]]
      BY <1>13, <1>17, <2>3, <3>1, <3>2, <3>3 DEF LandedLines
    <3>6. DOMAIN landed = D /\ \A l \in D : landed[l] = p[l] + b[l] /\ landed[l] \in Int
      BY <3>4, <3>5
    <3>7. Total(landed) = result.settledLanded
      <4>1. Whole(p, D) /\ Whole(b, D) /\ IsPlus(landed, p, b, D)
        BY <1>5, <3>4, <3>6 DEF Whole, IsPlus
      <4>2. Whole(landed, D) /\ SumOn(landed, D) = SumOn(p, D) + SumOn(b, D)
        BY <4>1, SumPlus
      <4>3. Total(landed) = SumOn(landed, D)
        BY <3>6, TotalIsSum
      <4>. QED
        BY <1>2, <3>3, <4>2, <4>3
    <3>8. \A l \in D : ~(landed[l] < 0)
      <4>. TAKE l \in D
      <4>1. CASE open.parts = NoLimit
        BY <3>3, <3>4, <3>6, <4>1
      <4>2. CASE open.parts = p /\ open.parts # NoLimit
        <5>1. open.parts[l] + b[l] >= 0
          BY <3>3, <4>2
        <5>. QED
          BY <3>6, <4>2, <5>1
      <4>. QED
        BY <1>7, <3>1, <4>1, <4>2
    <3>9. error = "NONE"
      BY <1>3, <1>14, <2>1, <3>6, <3>7, <3>8 DEF CompletionError
    <3>. QED
      BY <1>15, <3>9
  <2>. QED
    BY <2>1, <2>2, <2>3
<1>. QED
  BY <1>12, <1>16, <1>17

\* Whatever is refused before anything is settled is a refusal of the input.
LEMMA InputErrors ==
    ASSUME NEW m, NEW costs
    PROVE  InputError(m, costs) \in ExpectedErrors \cup {"NONE"}
<1>1. \A c : CostError(c) \in ExpectedErrors \cup {"NONE"}
  BY DEF CostError, ExpectedErrors
<1>. QED
  BY <1>1 DEF InputError, ExpectedErrors

\* What a supplier is evaluated to: no assertion of the engine has failed, and
\* a complete one has what its costs were calculated to.
Trusted(e, costs) ==
    /\ e.status \in {"COMPLETE", "INCOMPLETE", "INVALID"}
    /\ e.status = "COMPLETE" =>
        \E D, n, m : /\ Ready(costs, D, n, m) /\ e.result = Calculated(m, costs)
                     /\ e.rankingAmount = e.result.settledLanded

\* From the lines of a quote on.
LEMMA CalculatesAndAllocates ==
    ASSUME NEW D, NEW n, Numbered(D, n), FewParts(n), NEW lines, NEW m, Worth(lines, D, m),
           NEW F, NEW f, NEW costs, CostList(costs, F, f), NEW e, e = CalculateAndAllocate(lines, costs)
    PROVE  Trusted(e, costs)
<1>1. DOMAIN lines = D /\ IsFiniteSet(D) /\ \A l \in D : lines[l].baseValue \in Nat
  BY NumberedType DEF Worth, Carries
<1>2. m \in Int /\ Total([l \in DOMAIN lines |-> lines[l].baseValue]) = m
  <2>1. PICK x : x = [l \in D |-> lines[l].baseValue]
    OBVIOUS
  <2>2. Parts(x, D)
    <3>1. x \in [D -> Int] /\ \A l \in D : x[l] >= 0
      BY <1>1, <2>1
    <3>. QED
      BY <1>1, <3>1 DEF Parts
  <2>3. SumOn(x, D) \in Int /\ Total(x) = SumOn(x, D)
    BY <2>2, PartsAddUp
  <2>. QED
    BY <1>1, <2>1, <2>3 DEF Worth
<1>3. PICK r : r = CalculateSupplierCosts(m, costs)
  OBVIOUS
<1>4. e = AllocateAndComplete(lines, costs, r)
  BY <1>2, <1>3 DEF CalculateAndAllocate
<1>5. \A x \in ExpectedErrors : Failed(x).status = "INVALID"
  BY DEF Failed, Invalid
<1>6. CASE InputError(m, costs) # "NONE"
  <2>1. r.error = InputError(m, costs)
    BY <1>3, <1>6 DEF CalculateSupplierCosts
  <2>2. e = Failed(r.error) /\ r.error \in ExpectedErrors
    BY <1>4, <1>6, <2>1, InputErrors DEF AllocateAndComplete
  <2>. QED
    BY <1>5, <2>2 DEF Trusted
<1>7. CASE InputError(m, costs) = "NONE"
  <2>1. Ready(costs, F, f, m)
    BY <1>2, <1>7, AcceptedAreReady
  <2>2. r = Calculated(m, costs)
    BY <1>3, <1>7 DEF CalculateSupplierCosts
  <2>3. CalculationFits(r, costs, F, m) /\ DifferentIds(costs, F) /\ r.error = "NONE"
    <3>1. CalculationFits(r, costs, F, m)
      BY <2>1, <2>2, CalculatedFits
    <3>. QED
      BY <2>1, <3>1 DEF CalculationFits, Ready
  <2>4. DiscountError(costs, r, lines) \in {"NONE", "DISCOUNT_ALLOCATION_VALIDATION", "INVALID_DISCOUNT"}
    BY DEF DiscountError
  <2>5. CASE DiscountError(costs, r, lines) # "NONE"
    <3>1. e = Failed(DiscountError(costs, r, lines)) /\ DiscountError(costs, r, lines) \in ExpectedErrors
      BY <1>4, <2>3, <2>4, <2>5 DEF AllocateAndComplete, ExpectedErrors
    <3>. QED
      BY <1>5, <3>1 DEF Trusted
  <2>6. CASE DiscountError(costs, r, lines) = "NONE"
    <3>1. PICK settled : settled = SettleLineMerchandise(lines, r.settledMerchandise)
      OBVIOUS
    <3>2. PICK given : given = AllocateSupplierCosts(costs, r, lines)
      OBVIOUS
    <3>3. e = Completed(lines, r, settled, given)
      BY <1>4, <2>3, <2>6, <3>1, <3>2 DEF AllocateAndComplete
    <3>4. /\ e.status \in {"COMPLETE", "INVALID"}
          /\ e.status = "COMPLETE" => /\ e.result = r
                                      /\ e.rankingAmount = r.settledLanded
      BY <2>3, <3>1, <3>2, <3>3, Completes
    <3>. QED
      BY <2>1, <2>2, <3>4 DEF Trusted
  <2>. QED
    BY <2>5, <2>6
<1>. QED
  BY <1>6, <1>7

\* From a quote that asks for everything on.
LEMMA RunsPipeline ==
    ASSUME NEW quote, QuoteFits(quote), NEW requirements, NEW D, NEW n,
           Requires(requirements, D, n), Asks(quote, requirements),
           NEW F, NEW f, NEW costs, CostList(costs, F, f),
           NEW e, e = RunCalculationPipeline(quote, requirements, costs)
    PROVE  Trusted(e, costs)
<1>1. PICK raw : raw = QuoteLines(quote, requirements)
  OBVIOUS
<1>2. PICK c : c = quote.currency
  OBVIOUS
<1>3. PICK early : early = LineError(raw, c)
  OBVIOUS
<1>4. Numbered(D, n) /\ FewParts(n) /\ IsFiniteSet(D) /\ c \in Currencies
  BY <1>2, NumberedType DEF Requires, QuoteFits
<1>5. /\ DOMAIN raw = D
      /\ \A r \in D : /\ raw[r].error \in {"INVALID_MOQ", "INVALID_PACK_SIZE", "NONE"}
                      /\ raw[r].value \in Nat /\ raw[r].quantity \in Nat
  BY <1>1, LinesOfQuote
<1>6. early \in {"INVALID_MOQ", "INVALID_PACK_SIZE", "CURRENCY_MISMATCH",
                 "MISSING_EXCHANGE_RATE", "NONE"}
  <2>1. \A r \in D : raw[r].error \in {"INVALID_MOQ", "INVALID_PACK_SIZE", "NONE"}
    BY <1>5
  <2>. QED
    BY <1>3, <1>4, <1>5, <2>1, WhyLinesFail
<1>7. CASE early # "NONE"
  <2>1. e = Failed(early) /\ early \in ExpectedErrors
    BY <1>1, <1>2, <1>3, <1>6, <1>7 DEF RunCalculationPipeline, ExpectedErrors
  <2>. QED
    BY <2>1 DEF Failed, Invalid, Trusted
<1>8. CASE early = "NONE"
  <2>1. PICK lines : lines = InBaseCurrency(raw, c)
    OBVIOUS
  <2>2. e = CalculateAndAllocate(lines, costs)
    BY <1>1, <1>2, <1>3, <1>8, <2>1 DEF RunCalculationPipeline
  <2>3. PICK x : x = [l \in DOMAIN lines |-> lines[l].baseValue]
    OBVIOUS
  <2>4. /\ Carries(lines, D) /\ Parts(x, D) /\ \A l \in D : x[l] = lines[l].baseValue
        /\ Total(x) = SumOn(x, D) /\ Total(x) \in Nat
    <3>1. \A r \in D : raw[r].value \in Nat /\ raw[r].quantity \in Nat
      BY <1>5
    <3>. QED
      BY <1>4, <1>5, <2>1, <2>3, <3>1, LinesInBase
  <2>5. Worth(lines, D, SumOn(x, D))
    <3>1. DOMAIN lines = D
      BY <2>4 DEF Carries
    <3>2. \A l \in D : lines[l].baseValue \in Nat
      <4>1. \A l \in D : x[l] \in Int /\ x[l] >= 0
        BY <2>4 DEF Parts
      <4>. QED
        BY <2>4, <4>1
    <3>3. x = [l \in D |-> lines[l].baseValue]
      BY <2>3, <3>1
    <3>. QED
      BY <2>4, <3>2, <3>3 DEF Worth
  <2>6. PICK m : m = SumOn(x, D)
    OBVIOUS
  <2>7. Worth(lines, D, m)
    BY <2>5, <2>6
  <2>. QED
    BY <1>4, <2>2, <2>7, CalculatesAndAllocates
<1>. QED
  BY <1>7, <1>8

\* No parts at all are few.
LEMMA NoneAreFew == FewParts(0)
<1>1. \A a, b \in Nat : a > 0 /\ b > 0 => 2 * a * b > 0
  <2>. TAKE a \in Nat, b \in Nat
  <2>. HAVE a > 0 /\ b > 0
  <2>1. a * b > 0
    OBVIOUS
  <2>2. 2 * a * b = 2 * (a * b)
    OBVIOUS
  <2>. QED
    BY <2>1, <2>2
<1>. QED
  BY <1>1, PrecisionAssumption DEF FewParts

\* The costs of a supplier, entered or none.
LEMMA CostsOfSupplier ==
    ASSUME NEW p, WellFormed(p), NEW s, NEW costs, costs = CostsForSupplier(p, s)
    PROVE  CostList(costs, 1 .. Len(costs), Len(costs)) /\ DOMAIN costs = 1 .. Len(costs)
<1>1. costs \in Seq(Cost) /\ FewParts(Len(costs))
  <2>1. CASE s \in DOMAIN p.costs
    BY <2>1 DEF CostsForSupplier, WellFormed
  <2>2. CASE s \notin DOMAIN p.costs
    BY <2>2, NoneAreFew DEF CostsForSupplier
  <2>. QED
    BY <2>1, <2>2
<1>. QED
  BY <1>1 DEF CostList, Numbered

\* The members of a set of numbers, listed upwards.
Upwards(S) ==
    [x \in 1 .. Cardinality(S) |-> CHOOSE i \in S : Cardinality({j \in S : j < i}) = x - 1]

\* They are listed each once.
LEMMA ListedOnce ==
    ASSUME NEW S, IsFiniteSet(S), S \in SUBSET Nat, NEW c, c = Cardinality(S),
           NEW own, own = Upwards(S)
    PROVE  /\ c \in Nat /\ own \in [1 .. c -> S] /\ DOMAIN own = 1 .. c
           /\ \A i \in S : \E x \in 1 .. c : own[x] = i
<1>1. PICK R : R = {x \in S \X S : x[1] < x[2]}
  OBVIOUS
<1>2. \A i, j \in S : <<i, j>> \in R <=> i < j
  BY <1>1
<1>3. StrictlyOrders(R, S)
  <2>1. \A i \in S : <<i, i>> \notin R
    BY <1>2
  <2>2. \A i, j, l \in S : <<i, j>> \in R /\ <<j, l>> \in R => <<i, l>> \in R
    BY <1>2
  <2>3. \A i, j \in S : i = j \/ <<i, j>> \in R \/ <<j, i>> \in R
    <3>. SUFFICES ASSUME NEW i \in S, NEW j \in S, i # j
                  PROVE  <<i, j>> \in R \/ <<j, i>> \in R
      OBVIOUS
    <3>1. i \in Nat /\ j \in Nat
      OBVIOUS
    <3>. QED
      BY <1>2, <3>1
  <2>. QED
    BY <2>1, <2>2, <2>3 DEF StrictlyOrders
<1>4. Arranges(own, S, R)
  <2>. DEFINE before(i) == {j \in S : j < i}
              below(i) == {j \in S : <<j, i>> \in R}
  <2>1. \A i \in S : below(i) = before(i)
    BY <1>2
  <2>2. own = [x \in 1 .. Cardinality(S) |-> CHOOSE i \in S : Cardinality(before(i)) = x - 1]
    BY DEF Upwards
  <2>3. \A x : (CHOOSE i \in S : Cardinality(before(i)) = x - 1)
                 = CHOOSE i \in S : Cardinality(below(i)) = x - 1
    <3>. HIDE DEF before, below
    <3>. QED
      BY <2>1
  <2>4. own = [x \in 1 .. Cardinality(S) |-> CHOOSE i \in S : Cardinality(below(i)) = x - 1]
    <3>. HIDE DEF before, below
    <3>. QED
      BY <2>2, <2>3
  <2>. QED
    BY <2>4 DEF Arranges
<1>5. Queues(own, S, R)
  BY <1>3, <1>4, Arranged
<1>. QED
  BY <1>5 DEF Queues

\* The first of a supplier's quotes is one of the project's.
LEMMA FirstQuote ==
    ASSUME NEW p, WellFormed(p), NEW s, QuotesOf(p, s) # <<>>
    PROVE  \E q \in DOMAIN p.quotes : QuotesOf(p, s)[1] = p.quotes[q]
<1>1. PICK S : S = {q \in DOMAIN p.quotes : p.quotes[q].supplier = s}
  OBVIOUS
<1>2. PICK own : own = InOrder(S, <)
  OBVIOUS
<1>3. PICK c : c = Cardinality(S)
  OBVIOUS
<1>4. IsFiniteSet(S) /\ c \in Nat /\ S \in SUBSET Nat /\ S \in SUBSET DOMAIN p.quotes
  <2>1. DOMAIN p.quotes = 1 .. Len(p.quotes) /\ Len(p.quotes) \in Nat
    BY DEF WellFormed
  <2>2. IsFiniteSet(DOMAIN p.quotes)
    BY <2>1, FS_Interval
  <2>. QED
    BY <1>1, <1>3, <2>1, <2>2, FS_Subset, FS_CardinalityType
<1>5. QuotesOf(p, s) = [k \in DOMAIN own |-> p.quotes[own[k]]]
  BY <1>1, <1>2 DEF QuotesOf
<1>6. own = Upwards(S)
  BY <1>2 DEF InOrder, Upwards
<1>7. own \in [1 .. c -> S]
  BY <1>3, <1>4, <1>6, ListedOnce
<1>8. c # 0
  <2>. SUFFICES ASSUME c = 0 PROVE FALSE
    OBVIOUS
  <2>1. DOMAIN own = {}
    BY <1>7
  <2>2. QuotesOf(p, s) = [k \in {} |-> p.quotes[own[k]]]
    BY <1>5, <2>1
  <2>3. QuotesOf(p, s) \in [{} -> Int]
    BY <2>2
  <2>4. QuotesOf(p, s) = NoLimit
    BY <2>3, OfNothing
  <2>. QED
    BY <2>4 DEF NoLimit
<1>9. 1 \in 1 .. c
  BY <1>4, <1>8
<1>. QED
  BY <1>4, <1>5, <1>7, <1>9

\* A supplier is evaluated without an assertion failing.
LEMMA Evaluates ==
    ASSUME NEW p, WellFormed(p), NEW s, NEW costs, costs = CostsForSupplier(p, s),
           NEW e, e = EvaluateSupplier(QuotesOf(p, s), p.requirements, costs)
    PROVE  Trusted(e, costs)
<1>1. PICK quotes : quotes = QuotesOf(p, s)
  OBVIOUS
<1>2. PICK quote : quote = quotes[1]
  OBVIOUS
<1>3. PICK requirements : requirements = p.requirements
  OBVIOUS
<1>4. PICK asked : asked = {quote.items[i].requirement : i \in DOMAIN quote.items}
  OBVIOUS
<1>5. e = IF quotes = <<>> THEN Incomplete("MISSING_QUOTE", Ids(requirements))
          ELSE IF QuoteIssues(quote, requirements) # {}
          THEN Invalid(QuoteIssues(quote, requirements))
          ELSE IF quote.items = <<>> THEN Incomplete("EMPTY_QUOTE", Ids(requirements))
          ELSE IF Ids(requirements) \ asked # {}
          THEN Incomplete("MISSING_REQUIRED_ITEMS", Ids(requirements) \ asked)
          ELSE RunCalculationPipeline(quote, requirements, costs)
  BY <1>1, <1>2, <1>3, <1>4 DEF EvaluateSupplier
<1>6. CASE quotes # <<>> /\ Ids(requirements) \ asked = {}
           /\ e = RunCalculationPipeline(quote, requirements, costs)
  <2>1. QuoteFits(quote)
    <3>1. \E q \in DOMAIN p.quotes : quote = p.quotes[q]
      BY <1>1, <1>2, <1>6, FirstQuote
    <3>. QED
      BY <3>1 DEF WellFormed, QuoteFits
  <2>2. Asks(quote, requirements)
    BY <1>4, <1>6 DEF Asks, Ids
  <2>3. Requires(requirements, 1 .. Len(requirements), Len(requirements))
    BY <1>3 DEF Requires, WellFormed, Numbered
  <2>4. PICK D : Requires(requirements, D, Len(requirements))
    BY <2>3
  <2>5. PICK F : CostList(costs, F, Len(costs))
    BY CostsOfSupplier
  <2>. QED
    BY <1>6, <2>1, <2>2, <2>4, <2>5, RunsPipeline
<1>7. CASE e.status \in {"INCOMPLETE", "INVALID"}
  BY <1>7 DEF Trusted
<1>. QED
  BY <1>5, <1>6, <1>7 DEF Incomplete, Invalid

-----------------------------------------------------------------------------
(* The ranking.                                                            *)

\* The complete suppliers of those evaluated, each with a whole amount.
Rankable(S, suppliers, results) ==
    /\ S = {s \in DOMAIN suppliers : results[s].status = "COMPLETE"}
    /\ IsFiniteSet(S) /\ S \in SUBSET Nat
    /\ \A s \in S : results[s].rankingAmount \in Int

\* The cheaper first, and of two that tie the one that came first.
CheaperFirst(S, results) ==
    {x \in S \X S : \/ results[x[1]].rankingAmount < results[x[2]].rankingAmount
                    \/ /\ results[x[1]].rankingAmount = results[x[2]].rankingAmount
                       /\ x[1] < x[2]}

\* Every complete supplier has one place, after those it may not precede.
RanksInOrder(o, c, S, results) ==
    /\ c = Cardinality(S) /\ c \in Nat /\ o \in [1 .. c -> S] /\ DOMAIN o = 1 .. c
    /\ \A x, y \in 1 .. c : o[x] = o[y] => x = y
    /\ \A s \in S : \E x \in 1 .. c : o[x] = s
    /\ \A x, y \in 1 .. c : x < y =>
        \/ results[o[x]].rankingAmount < results[o[y]].rankingAmount
        \/ /\ results[o[x]].rankingAmount = results[o[y]].rankingAmount
           /\ o[x] < o[y]

\* The ranking lists each complete supplier once, the cheaper first and equal
\* totals as the suppliers are listed.
LEMMA RankedInOrder ==
    ASSUME NEW suppliers, NEW results, NEW S, Rankable(S, suppliers, results),
           NEW o, o = RankedOrder(suppliers, results), NEW c, c = Cardinality(S)
    PROVE  RanksInOrder(o, c, S, results)
<1>1. PICK a : a = [s \in S |-> results[s].rankingAmount]
  OBVIOUS
<1>2. PICK R : R = CheaperFirst(S, results)
  OBVIOUS
<1>3. \A s \in S : a[s] \in Int /\ s \in Nat /\ a[s] = results[s].rankingAmount
  BY <1>1 DEF Rankable
<1>4. \A s, t \in S : <<s, t>> \in R <=> a[s] < a[t] \/ (a[s] = a[t] /\ s < t)
  BY <1>2, <1>3 DEF CheaperFirst
<1>5. StrictlyOrders(R, S)
  <2>1. \A s \in S : <<s, s>> \notin R
    BY <1>3, <1>4
  <2>2. \A s, t, u \in S : <<s, t>> \in R /\ <<t, u>> \in R => <<s, u>> \in R
    <3>. SUFFICES ASSUME NEW s \in S, NEW t \in S, NEW u \in S, <<s, t>> \in R, <<t, u>> \in R
                  PROVE  <<s, u>> \in R
      OBVIOUS
    <3>1. /\ a[s] \in Int /\ a[t] \in Int /\ a[u] \in Int
          /\ s \in Nat /\ t \in Nat /\ u \in Nat
      BY <1>3
    <3>2. /\ a[s] < a[t] \/ (a[s] = a[t] /\ s < t)
          /\ a[t] < a[u] \/ (a[t] = a[u] /\ t < u)
      BY <1>4
    <3>3. a[s] < a[u] \/ (a[s] = a[u] /\ s < u)
      BY <3>1, <3>2
    <3>. QED
      BY <1>4, <3>3
  <2>3. \A s, t \in S : s = t \/ <<s, t>> \in R \/ <<t, s>> \in R
    <3>. SUFFICES ASSUME NEW s \in S, NEW t \in S, s # t
                  PROVE  <<s, t>> \in R \/ <<t, s>> \in R
      OBVIOUS
    <3>1. a[s] \in Int /\ a[t] \in Int /\ s \in Nat /\ t \in Nat
      BY <1>3
    <3>. QED
      BY <1>4, <3>1
  <2>. QED
    BY <2>1, <2>2, <2>3 DEF StrictlyOrders
<1>6. Arranges(o, S, R)
  <2>. DEFINE before(s) == {t \in S : \/ results[t].rankingAmount < results[s].rankingAmount
                                      \/ /\ results[t].rankingAmount = results[s].rankingAmount
                                         /\ t < s}
              below(s) == {t \in S : <<t, s>> \in R}
  <2>1. \A s \in S : below(s) = before(s)
    BY <1>3, <1>4
  <2>2. o = [x \in 1 .. Cardinality(S) |-> CHOOSE s \in S : Cardinality(before(s)) = x - 1]
    BY DEF RankedOrder, InOrder, Rankable
  <2>3. \A x : (CHOOSE s \in S : Cardinality(before(s)) = x - 1)
                 = CHOOSE s \in S : Cardinality(below(s)) = x - 1
    <3>. HIDE DEF before, below
    <3>. QED
      BY <2>1
  <2>4. o = [x \in 1 .. Cardinality(S) |-> CHOOSE s \in S : Cardinality(below(s)) = x - 1]
    <3>. HIDE DEF before, below
    <3>. QED
      BY <2>2, <2>3
  <2>. QED
    BY <2>4 DEF Arranges
<1>7. IsFiniteSet(S)
  BY DEF Rankable
<1>8. /\ Cardinality(S) \in Nat /\ o \in [1 .. Cardinality(S) -> S]
      /\ \A i, j \in 1 .. Cardinality(S) : i < j => <<o[i], o[j]>> \in R
      /\ \A i, j \in 1 .. Cardinality(S) : o[i] = o[j] => i = j
      /\ \A s \in S : \E i \in 1 .. Cardinality(S) : o[i] = s
  <2>1. Queues(o, S, R)
    BY <1>5, <1>6, <1>7, Arranged
  <2>. QED
    BY <2>1 DEF Queues
<1>9. \A i, j \in 1 .. Cardinality(S) : i < j =>
        \/ results[o[i]].rankingAmount < results[o[j]].rankingAmount
        \/ results[o[i]].rankingAmount = results[o[j]].rankingAmount /\ o[i] < o[j]
  <2>. SUFFICES ASSUME NEW i \in 1 .. Cardinality(S), NEW j \in 1 .. Cardinality(S), i < j
                PROVE  \/ results[o[i]].rankingAmount < results[o[j]].rankingAmount
                       \/ results[o[i]].rankingAmount = results[o[j]].rankingAmount /\ o[i] < o[j]
    OBVIOUS
  <2>1. o[i] \in S /\ o[j] \in S /\ <<o[i], o[j]>> \in R
    BY <1>8
  <2>. QED
    BY <1>3, <1>4, <2>1
<1>. QED
  BY <1>8, <1>9 DEF RanksInOrder

-----------------------------------------------------------------------------
(* The comparison.                                                         *)

\* What the supplier at a place of a project is evaluated to.
Evaluated(p, s) ==
    EvaluateSupplier(QuotesOf(p, p.suppliers[s]), p.requirements,
                     CostsForSupplier(p, p.suppliers[s]))

\* What the suppliers of a project can be evaluated to.
Evaluations(p) == {Evaluated(p, s) : s \in DOMAIN p.suppliers}

\* The suppliers evaluated so far, each on its own.
EachOnItsOwn ==
    /\ project \in Projects
    /\ evaluations \in Seq(Evaluations(project))
    /\ Len(evaluations) <= Len(project.suppliers)
    /\ \A s \in DOMAIN evaluations : evaluations[s] = Evaluated(project, s)

\* What goes with each phase.
PhasesFit ==
    /\ phase \in {"STRUCTURE", "EVALUATION", "REFUSED", "DONE"}
    /\ (phase = "REFUSED") = (refusal # "NONE")
    /\ phase = "STRUCTURE" => evaluations = <<>>
    /\ phase # "DONE" => ranking = <<>> /\ insights = <<>>

\* The inductive invariant.
ComparisonInvariant == EachOnItsOwn /\ PhasesFit

\* A supplier evaluated so far is trusted.
LEMMA EvaluatedIsTrusted ==
    ASSUME EachOnItsOwn, NEW s \in DOMAIN evaluations
    PROVE  Trusted(evaluations[s], CostsOf(s)) /\ s \in DOMAIN project.suppliers
<1>1. WellFormed(project)
  BY ProjectsAssumption DEF EachOnItsOwn
<1>2. s \in DOMAIN project.suppliers
  <2>1. DOMAIN project.suppliers = 1 .. Len(project.suppliers) /\ Len(project.suppliers) \in Nat
    BY <1>1 DEF WellFormed
  <2>2. DOMAIN evaluations = 1 .. Len(evaluations) /\ Len(evaluations) \in Nat
    BY DEF EachOnItsOwn
  <2>. QED
    BY <2>1, <2>2 DEF EachOnItsOwn
<1>3. evaluations[s] = Evaluated(project, s)
  BY DEF EachOnItsOwn
<1>4. Trusted(evaluations[s], CostsOf(s))
  BY <1>1, <1>3, Evaluates DEF Evaluated, CostsOf
<1>. QED
  BY <1>2, <1>4

\* A complete supplier has a total of its own, not below zero.
LEMMA CompleteHasTotal ==
    ASSUME NEW e, NEW costs, Trusted(e, costs), e.status = "COMPLETE"
    PROVE  e.rankingAmount \in Int /\ e.rankingAmount >= 0
<1>1. PICK D, n, m : /\ Ready(costs, D, n, m) /\ e.result = Calculated(m, costs)
                     /\ e.rankingAmount = e.result.settledLanded
  BY DEF Trusted
<1>2. PICK c : c = Calculated(m, costs)
  OBVIOUS
<1>3. CalculationFits(c, costs, D, m)
  BY <1>1, <1>2, CalculatedFits
<1>. QED
  BY <1>1, <1>2, <1>3 DEF CalculationFits

\* Once every supplier is evaluated, the complete ones can be ranked.
LEMMA CompleteAreRankable ==
    ASSUME EachOnItsOwn, Len(evaluations) = Len(project.suppliers)
    PROVE  \E S : /\ Rankable(S, project.suppliers, evaluations)
                  /\ S = CompleteSuppliers
                  /\ \A s \in S : evaluations[s].rankingAmount >= 0
<1>1. WellFormed(project)
  BY ProjectsAssumption DEF EachOnItsOwn
<1>2. /\ DOMAIN project.suppliers = 1 .. Len(evaluations) /\ Len(evaluations) \in Nat
      /\ DOMAIN evaluations = 1 .. Len(evaluations)
  BY <1>1 DEF WellFormed, EachOnItsOwn
<1>3. PICK S : S = CompleteSuppliers
  OBVIOUS
<1>4. /\ S = {s \in DOMAIN project.suppliers : evaluations[s].status = "COMPLETE"}
      /\ S \in SUBSET DOMAIN evaluations
  BY <1>2, <1>3 DEF CompleteSuppliers
<1>5. IsFiniteSet(S) /\ S \in SUBSET Nat
  <2>1. IsFiniteSet(DOMAIN evaluations)
    <3>0. PICK k \in Nat : k = Len(evaluations)
      BY <1>2
    <3>1. IsFiniteSet(1 .. k)
      BY FS_Interval
    <3>. QED
      BY <1>2, <3>0, <3>1
  <2>. QED
    BY <1>2, <1>4, <2>1, FS_Subset
<1>6. \A s \in S : evaluations[s].rankingAmount \in Int /\ evaluations[s].rankingAmount >= 0
  <2>. SUFFICES ASSUME NEW s \in S
                PROVE  evaluations[s].rankingAmount \in Int /\ evaluations[s].rankingAmount >= 0
    OBVIOUS
  <2>1. s \in DOMAIN evaluations /\ evaluations[s].status = "COMPLETE"
    BY <1>4
  <2>2. PICK e : e = evaluations[s]
    OBVIOUS
  <2>3. PICK costs : costs = CostsOf(s)
    OBVIOUS
  <2>4. Trusted(e, costs)
    BY <2>1, <2>2, <2>3, EvaluatedIsTrusted
  <2>5. e.rankingAmount \in Int /\ e.rankingAmount >= 0
    BY <2>1, <2>2, <2>4, CompleteHasTotal
  <2>. QED
    BY <2>2, <2>5
<1>. QED
  BY <1>3, <1>4, <1>5, <1>6 DEF Rankable

\* A comparison starts in the invariant.
LEMMA ComparisonStarts == Init => ComparisonInvariant
  BY DEF Init, ComparisonInvariant, EachOnItsOwn, PhasesFit

\* Every step keeps the invariant.
LEMMA ComparisonGoesOn == ComparisonInvariant /\ [Next]_vars => ComparisonInvariant'
<1>. SUFFICES ASSUME ComparisonInvariant, [Next]_vars PROVE ComparisonInvariant'
  OBVIOUS
<1>1. EachOnItsOwn /\ PhasesFit
  BY DEF ComparisonInvariant
<1>2. CASE ValidateComparisonStructure
  <2>1. EachOnItsOwn'
    BY <1>1, <1>2 DEF ValidateComparisonStructure, EachOnItsOwn
  <2>2. PhasesFit'
    BY <1>1, <1>2 DEF ValidateComparisonStructure, PhasesFit
  <2>. QED
    BY <2>1, <2>2 DEF ComparisonInvariant
<1>3. CASE EvaluateNext
  <2>1. PICK e : e = Evaluated(project, Len(evaluations) + 1)
    OBVIOUS
  <2>2. /\ evaluations' = Append(evaluations, e) /\ phase = "EVALUATION"
        /\ phase' = IF Last(evaluations').status = "THROWN" THEN "THROWN" ELSE phase
        /\ Len(evaluations) < Len(project.suppliers)
        /\ UNCHANGED <<project, refusal, ranking, insights>>
    BY <1>3, <2>1 DEF EvaluateNext, Evaluated
  <2>3. WellFormed(project)
    BY <1>1, ProjectsAssumption DEF EachOnItsOwn
  <2>4. e \in Evaluations(project)
    <3>1. DOMAIN project.suppliers = 1 .. Len(project.suppliers) /\ Len(project.suppliers) \in Nat
      BY <2>3 DEF WellFormed
    <3>2. Len(evaluations) \in Nat
      BY <1>1 DEF EachOnItsOwn
    <3>3. Len(evaluations) + 1 \in DOMAIN project.suppliers
      BY <2>2, <3>1, <3>2
    <3>. QED
      BY <2>1, <3>3 DEF Evaluations
  <2>5. /\ evaluations' \in Seq(Evaluations(project))
        /\ Len(evaluations') = Len(evaluations) + 1
        /\ \A s \in DOMAIN evaluations' :
            evaluations'[s] = IF s = Len(evaluations) + 1 THEN e ELSE evaluations[s]
        /\ \A s \in DOMAIN evaluations' : s # Len(evaluations) + 1 => s \in DOMAIN evaluations
        /\ Last(evaluations') = e
    <3>. PICK V : V = Evaluations(project)
      OBVIOUS
    <3>1. evaluations \in Seq(V) /\ e \in V
      BY <1>1, <2>4 DEF EachOnItsOwn
    <3>. QED
      BY <2>2, <3>1 DEF Last
  <2>6. EachOnItsOwn'
    <3>1. Len(evaluations) \in Nat /\ Len(project.suppliers) \in Nat
      BY <1>1, <2>3 DEF EachOnItsOwn, WellFormed
    <3>2. Len(evaluations') <= Len(project.suppliers)
      BY <2>2, <2>5, <3>1
    <3>3. \A s \in DOMAIN evaluations' : evaluations'[s] = Evaluated(project, s)
      BY <1>1, <2>1, <2>5 DEF EachOnItsOwn
    <3>4. project' = project
      BY <2>2
    <3>. QED
      BY <1>1, <2>5, <3>2, <3>3, <3>4 DEF EachOnItsOwn
  <2>7. e.status # "THROWN"
    <3>1. PICK costs : costs = CostsForSupplier(project, project.suppliers[Len(evaluations) + 1])
      OBVIOUS
    <3>2. Trusted(e, costs)
      BY <2>1, <2>3, <3>1, Evaluates DEF Evaluated
    <3>. QED
      BY <3>2 DEF Trusted
  <2>8. PhasesFit'
    BY <1>1, <2>2, <2>5, <2>7 DEF PhasesFit
  <2>. QED
    BY <2>6, <2>8 DEF ComparisonInvariant
<1>4. CASE RankAndExplain
  <2>1. EachOnItsOwn'
    BY <1>1, <1>4 DEF RankAndExplain, EachOnItsOwn
  <2>2. ASSUME NEW k \in DOMAIN ranking' PROVE ~(ranking'[k].rankingAmount < 0)
    <3>1. PICK S : Rankable(S, project.suppliers, evaluations)
                   /\ \A s \in S : evaluations[s].rankingAmount >= 0
      BY <1>1, <1>4, CompleteAreRankable DEF RankAndExplain
    <3>2. PICK o : o = RankedOrder(project.suppliers, evaluations)
      OBVIOUS
    <3>3. RanksInOrder(o, Cardinality(S), S, evaluations)
      BY <3>1, <3>2, RankedInOrder
    <3>4. ranking' = RankCompleteSuppliers(project.suppliers, evaluations)
      BY <1>4 DEF RankAndExplain
    <3>5. k \in DOMAIN o /\ ranking'[k].rankingAmount = evaluations[o[k]].rankingAmount
      BY <3>2, <3>4 DEF RankCompleteSuppliers
    <3>6. o[k] \in S
      BY <3>3, <3>5 DEF RanksInOrder
    <3>7. evaluations[o[k]].rankingAmount \in Int
      BY <3>1, <3>6 DEF Rankable
    <3>. QED
      BY <3>1, <3>5, <3>6, <3>7
  <2>3. PhasesFit'
    BY <1>1, <1>4, <2>2 DEF RankAndExplain, PhasesFit
  <2>. QED
    BY <2>1, <2>3 DEF ComparisonInvariant
<1>5. CASE UNCHANGED vars
  BY <1>1, <1>5 DEF vars, ComparisonInvariant, EachOnItsOwn, PhasesFit
<1>. QED
  BY <1>2, <1>3, <1>4, <1>5 DEF Next

\* At every step each evaluation is what its supplier alone comes to, and the
\* phase, the refusal, the ranking and the insights go with each other: no
\* supplier's figures depend on who was evaluated before.
THEOREM ComparisonGoesAsItShould == Spec => []ComparisonInvariant
  BY ComparisonStarts, ComparisonGoesOn, PTL DEF Spec

\* No internal assertion of CostCalculation.ts, AllocationCalculation.ts or the
\* ranking in compareSuppliers fails, whatever the projects hold.
THEOREM NoAssertionFails == Spec => []NoEngineAssertion
<1>1. ComparisonInvariant => NoEngineAssertion
  BY DEF ComparisonInvariant, PhasesFit, NoEngineAssertion
<1>. QED
  BY <1>1, ComparisonGoesAsItShould, PTL

\* The comparison's phases, evaluations and refusals have their types.
THEOREM ComparisonIsTyped == Spec => []ComparisonTypeOK
<1>1. ComparisonInvariant => ComparisonTypeOK
  <2>. SUFFICES ASSUME ComparisonInvariant PROVE ComparisonTypeOK
    OBVIOUS
  <2>1. ASSUME NEW s \in DOMAIN evaluations PROVE evaluations[s].status \in Statuses
    <3>1. Trusted(evaluations[s], CostsOf(s))
      BY EvaluatedIsTrusted DEF ComparisonInvariant
    <3>. QED
      BY <3>1 DEF Trusted, Statuses
  <2>. QED
    BY <2>1 DEF ComparisonInvariant, PhasesFit, EachOnItsOwn, ComparisonTypeOK
<1>. QED
  BY <1>1, ComparisonGoesAsItShould, PTL

\* Settling the total over the costs (settleTotalAcrossParts on both pools) turns
\* no charge into a reduction or back, and moves no cost by more than two and a
\* half minor units, whatever the residual and whoever absorbs it.
THEOREM SettledEffectsKeepSignAndSize == Spec => []EffectsKeepSignAndSize
<1>1. ComparisonInvariant => EffectsKeepSignAndSize
  <2>. SUFFICES ASSUME ComparisonInvariant, NEW s \in CompleteSuppliers,
                       NEW i \in DOMAIN evaluations[s].result.effects
                PROVE  LET result == evaluations[s].result
                       IN /\ result.effects[i] >= 0 => result.settledEffects[i] >= 0
                          /\ result.effects[i] <= 0 => result.settledEffects[i] <= 0
                          /\ 2 * Magnitude(result.settledEffects[i] - result.effects[i]) <= 5 * Minor
    BY DEF EffectsKeepSignAndSize
  <2>1. EachOnItsOwn /\ s \in DOMAIN evaluations /\ evaluations[s].status = "COMPLETE"
    BY DEF ComparisonInvariant, CompleteSuppliers
  <2>2. PICK costs : costs = CostsOf(s)
    OBVIOUS
  <2>3. Trusted(evaluations[s], costs)
    BY <2>1, <2>2, EvaluatedIsTrusted
  <2>4. PICK D, n, m : Ready(costs, D, n, m) /\ evaluations[s].result = Calculated(m, costs)
    BY <2>1, <2>3 DEF Trusted
  <2>5. PICK c : c = Calculated(m, costs)
    OBVIOUS
  <2>6. CalculationFits(c, costs, D, m)
    BY <2>4, <2>5, CalculatedFits
  <2>7. c.effects \in [D -> Int] /\ KeepsSides(c.effects, c.settledEffects, D)
    BY <2>6 DEF CalculationFits
  <2>8. i \in D /\ evaluations[s].result = c
    BY <2>4, <2>5, <2>7
  <2>. QED
    BY <2>7, <2>8 DEF KeepsSides
<1>. QED
  BY <1>1, ComparisonGoesAsItShould, PTL

\* Leaving a cost out of the comparison, or taking it back in, changes no other
\* cost's magnitude, and the landed total by that cost's own or by nothing.
THEOREM LeavingOutMovesOnlyTheTotal == Spec => []LeavingACostOutMovesOnlyTheTotal
<1>1. ComparisonInvariant => LeavingACostOutMovesOnlyTheTotal
  <2>. SUFFICES ASSUME ComparisonInvariant, NEW s \in CompleteSuppliers, NEW i \in DOMAIN CostsOf(s)
                PROVE  LET costs == CostsOf(s)
                           result == evaluations[s].result
                       IN \E other \in {Calculated(result.bases["MERCHANDISE"],
                                                   [costs EXCEPT ![i].compared = ~@])} :
                            /\ other.magnitudes = result.magnitudes
                            /\ Magnitude(other.landed - result.landed)
                                = IF costs[i].included THEN 0 ELSE result.magnitudes[i]
    BY DEF LeavingACostOutMovesOnlyTheTotal
  <2>1. EachOnItsOwn /\ s \in DOMAIN evaluations /\ evaluations[s].status = "COMPLETE"
    BY DEF ComparisonInvariant, CompleteSuppliers
  <2>2. PICK costs : costs = CostsOf(s)
    OBVIOUS
  <2>3. Trusted(evaluations[s], costs)
    BY <2>1, <2>2, EvaluatedIsTrusted
  <2>4. PICK D, n, m : Ready(costs, D, n, m) /\ evaluations[s].result = Calculated(m, costs)
    BY <2>1, <2>3 DEF Trusted
  <2>5. i \in D
    BY <2>2, <2>4 DEF Ready, CostList
  <2>6. PICK o : o = [costs EXCEPT ![i].compared = ~@]
    OBVIOUS
  <2>7. PICK c : c = Calculated(m, costs)
    OBVIOUS
  <2>8. PICK d : d = Calculated(m, o)
    OBVIOUS
  <2>9. /\ c.bases["MERCHANDISE"] = m /\ d.magnitudes = c.magnitudes
        /\ Magnitude(d.landed - c.landed) = IF costs[i].included THEN 0 ELSE c.magnitudes[i]
    <3>1. Ready(costs, D, n, m)
      BY <2>4
    <3>2. costs \in [D -> Cost]
      BY <3>1 DEF Ready, CostList
    <3>3. Toggled(o, costs, D, i)
      BY <2>5, <2>6, <3>2, ToggledCosts
    <3>. QED
      BY <2>5, <2>7, <2>8, <3>1, <3>3, LeavingOneOut
  <2>. QED
    BY <2>2, <2>4, <2>6, <2>7, <2>8, <2>9
<1>. QED
  BY <1>1, ComparisonGoesAsItShould, PTL

-----------------------------------------------------------------------------
(* The ranks.                                                              *)

\* Amounts from the lowest to the highest.
Rising(a, c) ==
    /\ c \in Nat /\ a \in [1 .. c -> Int] /\ DOMAIN a = 1 .. c
    /\ \A x, y \in 1 .. c : x < y => a[x] <= a[y]

\* The amounts below that of a place.
Below(a, k) == {a[j] : j \in {i \in DOMAIN a : a[i] < a[k]}}

\* Ranks that go up at each amount that is not the one before it.
RanksFrom(r, a) ==
    r = [k \in DOMAIN a |-> IF k = 1 THEN 1
                            ELSE r[k - 1] + (IF a[k] = a[k - 1] THEN 0 ELSE 1)]

\* The amounts below a place are finitely many.
LEMMA BelowIsFinite ==
    ASSUME NEW a, NEW c, Rising(a, c), NEW k \in 1 .. c
    PROVE  IsFiniteSet(Below(a, k)) /\ Cardinality(Below(a, k)) \in Nat
<1>1. c \in Nat /\ DOMAIN a = 1 .. c
  BY DEF Rising
<1>2. PICK I : I = {i \in DOMAIN a : a[i] < a[k]}
  OBVIOUS
<1>3. IsFiniteSet(I)
  <2>1. IsFiniteSet(1 .. c) /\ I \in SUBSET (1 .. c)
    BY <1>1, <1>2, FS_Interval
  <2>. QED
    BY <2>1, FS_Subset
<1>4. PICK f : f = [i \in I |-> a[i]]
  OBVIOUS
<1>5. f \in Surjection(I, Below(a, k))
  BY <1>2, <1>4 DEF Below, Surjection
<1>. QED
  BY <1>3, <1>5, FS_Surjection, FS_CardinalityType

\* There is one list of ranks.
LEMMA RanksOnce ==
    ASSUME NEW a, NEW c, Rising(a, c), NEW r, NEW q, RanksFrom(r, a), RanksFrom(q, a)
    PROVE  r = q
<1>. DEFINE P == {k \in Nat : k \in 1 .. c => r[k] = q[k]}
<1>1. c \in Nat /\ DOMAIN a = 1 .. c
  BY DEF Rising
<1>2. /\ DOMAIN r = 1 .. c /\ DOMAIN q = 1 .. c
      /\ r = [k \in 1 .. c |-> r[k]] /\ q = [k \in 1 .. c |-> q[k]]
  BY <1>1 DEF RanksFrom
<1>3. 0 \in P
  OBVIOUS
<1>4. ASSUME NEW k \in Nat, k \in P PROVE k + 1 \in P
  <2>1. CASE k + 1 \notin 1 .. c
    BY <2>1
  <2>2. CASE k + 1 \in 1 .. c /\ k = 0
    <3>1. 1 \in DOMAIN a
      BY <1>1, <2>2
    <3>2. r[1] = 1 /\ q[1] = 1
      BY <3>1 DEF RanksFrom
    <3>. QED
      BY <2>2, <3>2
  <2>3. CASE k + 1 \in 1 .. c /\ k # 0
    <3>1. k + 1 \in DOMAIN a /\ k + 1 # 1 /\ k \in 1 .. c /\ (k + 1) - 1 = k
      BY <1>1, <2>3
    <3>2. PICK m : m = k + 1
      OBVIOUS
    <3>3. /\ r[m] = r[m - 1] + (IF a[m] = a[m - 1] THEN 0 ELSE 1)
          /\ q[m] = q[m - 1] + (IF a[m] = a[m - 1] THEN 0 ELSE 1)
      BY <3>1, <3>2 DEF RanksFrom
    <3>4. r[m - 1] = q[m - 1]
      BY <1>4, <3>1, <3>2
    <3>. QED
      BY <3>2, <3>3, <3>4
  <2>. QED
    BY <2>1, <2>2, <2>3
<1>5. \A k \in Nat : k \in P
  <2>. HIDE DEF P
  <2>. QED
    BY <1>3, <1>4, Counting
<1>6. \A k \in 1 .. c : r[k] = q[k]
  BY <1>5
<1>. QED
  BY <1>2, <1>6

\* The number of amounts below, and one, is such a list.
LEMMA BelowRanks ==
    ASSUME NEW a, NEW c, Rising(a, c),
           NEW g, g = [k \in 1 .. c |-> 1 + Cardinality(Below(a, k))]
    PROVE  RanksFrom(g, a)
<1>1. /\ c \in Nat /\ a \in [1 .. c -> Int] /\ DOMAIN a = 1 .. c
      /\ \A x, y \in 1 .. c : x < y => a[x] <= a[y]
  BY DEF Rising
<1>2. ASSUME NEW k \in 1 .. c, k = 1 PROVE g[k] = 1
  <2>1. Below(a, k) = {}
    <3>1. \A i \in 1 .. c : ~(a[i] < a[k])
      <4>. TAKE i \in 1 .. c
      <4>1. i = 1 \/ 1 < i
        OBVIOUS
      <4>. QED
        BY <1>1, <1>2, <4>1
    <3>. QED
      BY <1>1, <3>1 DEF Below
  <2>2. Cardinality(Below(a, k)) = 0
    BY <2>1, FS_EmptySet
  <2>. QED
    BY <2>2
<1>3. ASSUME NEW k \in 1 .. c, k # 1, a[k] = a[k - 1] PROVE g[k] = g[k - 1]
  <2>1. k - 1 \in 1 .. c
    BY <1>1, <1>3
  <2>2. Below(a, k) = Below(a, k - 1)
    BY <1>3 DEF Below
  <2>. QED
    BY <2>1, <2>2
<1>4. ASSUME NEW k \in 1 .. c, k # 1, a[k] # a[k - 1] PROVE g[k] = g[k - 1] + 1
  <2>0. PICK m : m = k - 1
    OBVIOUS
  <2>1. m \in 1 .. c /\ m < k /\ a[m] < a[k] /\ a[m] \in Int /\ a[k] \in Int
    BY <1>1, <1>4, <2>0
  <2>2. \A i \in 1 .. c : a[i] < a[k] <=> a[i] < a[m] \/ a[i] = a[m]
    <3>. TAKE i \in 1 .. c
    <3>1. a[i] \in Int
      BY <1>1
    <3>2. i <= m \/ k <= i
      BY <2>0
    <3>3. i <= m => a[i] <= a[m]
      <4>1. i = m \/ i < m \/ m < i
        BY <2>1
      <4>. QED
        BY <1>1, <2>1, <3>1, <4>1
    <3>4. k <= i => a[k] <= a[i]
      <4>1. i = k \/ k < i \/ i < k
        OBVIOUS
      <4>. QED
        BY <1>1, <2>1, <3>1, <4>1
    <3>. QED
      BY <2>1, <3>1, <3>2, <3>3, <3>4
  <2>3. Below(a, k) = Below(a, m) \cup {a[m]}
    BY <1>1, <2>1, <2>2 DEF Below
  <2>4. a[m] \notin Below(a, m)
    <3>1. \A i \in 1 .. c : a[i] < a[m] => a[i] # a[m]
      BY <1>1, <2>1
    <3>. QED
      BY <1>1, <3>1 DEF Below
  <2>5. IsFiniteSet(Below(a, m)) /\ Cardinality(Below(a, m)) \in Nat
    BY <2>1, BelowIsFinite
  <2>6. Cardinality(Below(a, k)) = Cardinality(Below(a, m)) + 1
    BY <2>3, <2>4, <2>5, FS_AddElement
  <2>7. g[k] = 1 + Cardinality(Below(a, k)) /\ g[m] = 1 + Cardinality(Below(a, m))
    BY <2>1
  <2>. QED
    BY <2>0, <2>5, <2>6, <2>7
<1>5. ASSUME NEW k \in 1 .. c
      PROVE  g[k] = IF k = 1 THEN 1 ELSE g[k - 1] + (IF a[k] = a[k - 1] THEN 0 ELSE 1)
  <2>1. k # 1 => k - 1 \in 1 .. c
    BY <1>1
  <2>2. k # 1 => g[k - 1] \in Int
    <3>. SUFFICES ASSUME k # 1 PROVE g[k - 1] \in Int
      OBVIOUS
    <3>1. Cardinality(Below(a, k - 1)) \in Nat
      BY <2>1, BelowIsFinite
    <3>. QED
      BY <2>1, <3>1
  <2>3. CASE k = 1
    BY <1>2, <2>3
  <2>4. CASE k # 1 /\ a[k] = a[k - 1]
    BY <1>3, <2>2, <2>4
  <2>5. CASE k # 1 /\ a[k] # a[k - 1]
    BY <1>4, <2>5
  <2>. QED
    BY <2>3, <2>4, <2>5
<1>. QED
  BY <1>1, <1>5 DEF RanksFrom

\* A rank is one more than the number of different amounts below.
LEMMA RanksCountBelow ==
    ASSUME NEW a, NEW c, Rising(a, c)
    PROVE  DenseRanks(a) = [k \in 1 .. c |-> 1 + Cardinality(Below(a, k))]
<1>. DEFINE r == CHOOSE rank : RanksFrom(rank, a)
<1>1. PICK g : g = [k \in 1 .. c |-> 1 + Cardinality(Below(a, k))]
  OBVIOUS
<1>2. RanksFrom(g, a)
  BY <1>1, BelowRanks
<1>3. RanksFrom(r, a)
  BY <1>2
<1>4. DenseRanks(a) = [k \in DOMAIN a |-> r[k]]
  BY DEF DenseRanks, RanksFrom
<1>. HIDE DEF r
<1>5. r = g
  BY <1>2, <1>3, RanksOnce
<1>6. DOMAIN a = 1 .. c
  BY DEF Rising
<1>. QED
  BY <1>1, <1>4, <1>5, <1>6

\* What a comparison that goes on has checked, and a finished one has drawn.
RankedAndExplained ==
    /\ phase \in {"EVALUATION", "DONE"} => ~Repeats(project.suppliers)
    /\ phase = "DONE" =>
        /\ Len(evaluations) = Len(project.suppliers)
        /\ ranking = RankCompleteSuppliers(project.suppliers, evaluations)
        /\ insights = BuildComparisonInsights(project.suppliers, evaluations, ranking)

\* Every step keeps that.
LEMMA RankedStepByStep ==
    RankedAndExplained /\ [Next]_vars => RankedAndExplained'
<1>. SUFFICES ASSUME RankedAndExplained, [Next]_vars PROVE RankedAndExplained'
  OBVIOUS
<1>1. CASE ValidateComparisonStructure
  <2>1. /\ phase' = IF StructuralIssue(project) = "NONE" THEN "EVALUATION" ELSE "REFUSED"
        /\ project' = project
    BY <1>1 DEF ValidateComparisonStructure
  <2>2. StructuralIssue(project) = "NONE" => ~Repeats(project.suppliers)
    BY DEF StructuralIssue
  <2>. QED
    BY <2>1, <2>2 DEF RankedAndExplained
<1>2. CASE EvaluateNext
  BY <1>2 DEF EvaluateNext, RankedAndExplained
<1>3. CASE RankAndExplain
  BY <1>3 DEF RankAndExplain, RankedAndExplained
<1>4. CASE UNCHANGED vars
  BY <1>4 DEF vars, RankedAndExplained
<1>. QED
  BY <1>1, <1>2, <1>3, <1>4 DEF Next

\* The amounts below that of a supplier.
AmountsBelow(results, S, s) ==
    {results[t].rankingAmount : t \in {u \in S : results[u].rankingAmount < results[s].rankingAmount}}

\* Each complete supplier's place and rank in the ranking.
RankingFits(ranked, suppliers, results, S, o, c) ==
    /\ Rankable(S, suppliers, results) /\ RanksInOrder(o, c, S, results)
    /\ DOMAIN ranked = 1 .. c /\ Len(ranked) = c
    /\ \A k \in 1 .. c :
        /\ ranked[k].supplier = suppliers[o[k]]
        /\ ranked[k].rank = 1 + Cardinality(AmountsBelow(results, S, o[k]))

\* The ranking of suppliers that can be ranked.
LEMMA RankingIsFitting ==
    ASSUME NEW suppliers, NEW results, NEW S, Rankable(S, suppliers, results),
           NEW ranked, ranked = RankCompleteSuppliers(suppliers, results)
    PROVE  \E o, c : RankingFits(ranked, suppliers, results, S, o, c)
<1>1. PICK o : o = RankedOrder(suppliers, results)
  OBVIOUS
<1>2. PICK c : c = Cardinality(S)
  OBVIOUS
<1>3. RanksInOrder(o, c, S, results)
  BY <1>1, <1>2, RankedInOrder
<1>4. PICK a : a = [k \in DOMAIN o |-> results[o[k]].rankingAmount]
  OBVIOUS
<1>5. c \in Nat /\ DOMAIN o = 1 .. c /\ o \in [1 .. c -> S]
  BY <1>3 DEF RanksInOrder
<1>6. \A s \in S : results[s].rankingAmount \in Int
  BY DEF Rankable
<1>7. Rising(a, c)
  <2>1. a \in [1 .. c -> Int] /\ DOMAIN a = 1 .. c
    BY <1>4, <1>5, <1>6
  <2>2. \A x, y \in 1 .. c : x < y => a[x] <= a[y]
    <3>. SUFFICES ASSUME NEW x \in 1 .. c, NEW y \in 1 .. c, x < y PROVE a[x] <= a[y]
      OBVIOUS
    <3>1. \/ results[o[x]].rankingAmount < results[o[y]].rankingAmount
          \/ results[o[x]].rankingAmount = results[o[y]].rankingAmount
      BY <1>3 DEF RanksInOrder
    <3>2. a[x] < a[y] \/ a[x] = a[y]
      BY <1>4, <1>5, <3>1
    <3>3. a[x] \in Int /\ a[y] \in Int
      BY <2>1
    <3>. QED
      BY <3>2, <3>3
  <2>. QED
    BY <1>5, <2>1, <2>2 DEF Rising
<1>8. DenseRanks(a) = [k \in 1 .. c |-> 1 + Cardinality(Below(a, k))]
  BY <1>7, RanksCountBelow
<1>9. ASSUME NEW k \in 1 .. c
      PROVE  Below(a, k) = AmountsBelow(results, S, o[k])
  <2>1. \A j \in 1 .. c : a[j] = results[o[j]].rankingAmount
    BY <1>4, <1>5
  <2>2. Below(a, k) = {a[j] : j \in {i \in 1 .. c : a[i] < a[k]}}
    BY <1>4, <1>5 DEF Below
  <2>3. \A u \in S : \E i \in 1 .. c : o[i] = u
    BY <1>3 DEF RanksInOrder
  <2>. QED
    BY <1>5, <2>1, <2>2, <2>3 DEF AmountsBelow
<1>10. ranked = [k \in DOMAIN o |->
            [supplier |-> suppliers[o[k]], rankingAmount |-> a[k], rank |-> DenseRanks(a)[k],
             difference |-> a[k] - a[1],
             percentage |-> PercentageDifference(a[k] - a[1], a[1])]]
  BY <1>1, <1>4 DEF RankCompleteSuppliers
<1>11. DOMAIN ranked = 1 .. c /\ Len(ranked) = c
  BY <1>5, <1>10
<1>12. ASSUME NEW k \in 1 .. c
       PROVE  /\ ranked[k].supplier = suppliers[o[k]]
              /\ ranked[k].rank = 1 + Cardinality(Below(a, k))
  BY <1>5, <1>8, <1>10
<1>13. \A k \in 1 .. c :
        /\ ranked[k].supplier = suppliers[o[k]]
        /\ ranked[k].rank = 1 + Cardinality(AmountsBelow(results, S, o[k]))
  BY <1>9, <1>12
<1>. QED
  BY <1>3, <1>11, <1>13 DEF RankingFits

\* What a list holds.
LEMMA RangeHolds == ASSUME NEW f, NEW y PROVE y \in Range(f) <=> \E x \in DOMAIN f : f[x] = y
  BY DEF Range

\* A list of a length, and of what it holds.
LEMMA ListOf ==
    ASSUME NEW c \in Nat, NEW f, f = [k \in 1 .. c |-> f[k]]
    PROVE  f \in Seq(Range(f)) /\ DOMAIN f = 1 .. c /\ Len(f) = c
<1>1. PICK Y : Y = Range(f)
  OBVIOUS
<1>2. DOMAIN f = 1 .. c
  OBVIOUS
<1>3. \A k \in 1 .. c : f[k] \in Y
  BY <1>1, <1>2, RangeHolds
<1>4. f \in [1 .. c -> Y]
  BY <1>3
<1>5. f \in Seq(Y) /\ Len(f) = c
  BY <1>4
<1>. QED
  BY <1>1, <1>2, <1>5

\* A list of one.
LEMMA OnlyOne == ASSUME NEW y PROVE Range(<<y>>) = {y}
<1>1. PICK f : f = <<y>>
  OBVIOUS
<1>2. DOMAIN f = {1} /\ f[1] = y
  BY <1>1
<1>3. \A z : z \in Range(f) <=> z = y
  BY <1>2, RangeHolds
<1>. QED
  BY <1>1, <1>3

\* A list and another after it have the members of both.
LEMMA Joined ==
    ASSUME NEW X, NEW s \in Seq(X), NEW t \in Seq(X)
    PROVE  s \o t \in Seq(X) /\ Range(s \o t) = Range(s) \cup Range(t)
<1>1. PICK r : r = s \o t
  OBVIOUS
<1>2. PICK m : m = Len(s)
  OBVIOUS
<1>3. PICK n : n = Len(t)
  OBVIOUS
<1>4. /\ r \in Seq(X) /\ m \in Nat /\ n \in Nat /\ DOMAIN r = 1 .. m + n
      /\ DOMAIN s = 1 .. m /\ DOMAIN t = 1 .. n
      /\ \A i \in 1 .. m + n : r[i] = IF i <= m THEN s[i] ELSE t[i - m]
  BY <1>1, <1>2, <1>3
<1>5. \A i \in 1 .. m : i \in 1 .. m + n /\ r[i] = s[i]
  <2>. TAKE i \in 1 .. m
  <2>1. i \in 1 .. m + n /\ i <= m
    BY <1>4
  <2>. QED
    BY <1>4, <2>1
<1>6. \A i \in 1 .. n : m + i \in 1 .. m + n /\ r[m + i] = t[i]
  <2>. TAKE i \in 1 .. n
  <2>1. m + i \in 1 .. m + n /\ ~(m + i <= m) /\ (m + i) - m = i
    BY <1>4
  <2>. QED
    BY <1>4, <2>1
<1>7. \A i \in 1 .. m + n : i \in 1 .. m \/ \E j \in 1 .. n : i = m + j
  <2>. TAKE i \in 1 .. m + n
  <2>1. CASE i <= m
    BY <1>4, <2>1
  <2>2. CASE ~(i <= m)
    <3>1. i - m \in 1 .. n /\ i = m + (i - m)
      BY <1>4, <2>2
    <3>. QED
      BY <3>1
  <2>. QED
    BY <2>1, <2>2
<1>8. Range(r) = Range(s) \cup Range(t)
  <2>1. ASSUME NEW y PROVE y \in Range(r) <=> y \in Range(s) \/ y \in Range(t)
    <3>1. y \in Range(r) <=> \E i \in 1 .. m + n : r[i] = y
      BY <1>4, RangeHolds
    <3>2. y \in Range(s) <=> \E i \in 1 .. m : s[i] = y
      BY <1>4, RangeHolds
    <3>3. y \in Range(t) <=> \E i \in 1 .. n : t[i] = y
      BY <1>4, RangeHolds
    <3>. QED
      BY <1>5, <1>6, <1>7, <3>1, <3>2, <3>3
  <2>. QED
    BY <2>1
<1>. QED
  BY <1>1, <1>4, <1>8

\* The insight of one supplier, and the suppliers of a status.
Explains(code, who) == [code |-> code, suppliers |-> {who}]
OfStatus(suppliers, results, status) == {s \in DOMAIN suppliers : results[s].status = status}

\* Each supplier of a status is explained once, by an insight of its own.
LEMMA StatusExplained ==
    ASSUME NEW suppliers, NEW n \in Nat, DOMAIN suppliers = 1 .. n, NEW results,
           NEW status, NEW S, S = OfStatus(suppliers, results, status),
           NEW code, NEW list, list = StatusInsights(suppliers, results, status, code)
    PROVE  /\ list \in Seq(Range(list))
           /\ Range(list) = {Explains(code, suppliers[s]) : s \in S}
<1>1. IsFiniteSet(S) /\ S \in SUBSET Nat
  <2>1. IsFiniteSet(1 .. n)
    BY FS_Interval
  <2>. QED
    BY <2>1, FS_Subset DEF OfStatus
<1>2. PICK own : own = Upwards(S)
  OBVIOUS
<1>3. PICK c : c = Cardinality(S)
  OBVIOUS
<1>4. /\ c \in Nat /\ own \in [1 .. c -> S] /\ DOMAIN own = 1 .. c
      /\ \A i \in S : \E x \in 1 .. c : own[x] = i
  BY <1>1, <1>2, <1>3, ListedOnce
<1>5. list = [k \in DOMAIN own |-> Explains(code, suppliers[own[k]])]
  BY <1>2 DEF StatusInsights, InOrder, Upwards, OfStatus, Explains
<1>6. DOMAIN list = 1 .. c
  BY <1>4, <1>5
<1>7. Range(list) = {Explains(code, suppliers[s]) : s \in S}
  <2>1. ASSUME NEW y
        PROVE  y \in Range(list) <=> \E s \in S : y = Explains(code, suppliers[s])
    <3>1. y \in Range(list) <=> \E k \in 1 .. c : list[k] = y
      BY <1>6, RangeHolds
    <3>2. \A k \in 1 .. c : list[k] = Explains(code, suppliers[own[k]])
      BY <1>4, <1>5
    <3>. QED
      BY <1>4, <3>1, <3>2
  <2>. QED
    BY <2>1
<1>8. list \in Seq(Range(list))
  <2>1. list = [k \in 1 .. c |-> list[k]]
    BY <1>4, <1>5
  <2>. QED
    BY <1>4, <2>1, ListOf
<1>. QED
  BY <1>7, <1>8

\* The insights name every supplier that is not complete, each on its own.
LEMMA OthersExplained ==
    ASSUME NEW suppliers, NEW n \in Nat, DOMAIN suppliers = 1 .. n, NEW results,
           NEW ranked, NEW list, list = BuildComparisonInsights(suppliers, results, ranked)
    PROVE  {i.suppliers : i \in {j \in Range(list) : j.code \in {"INCOMPLETE_QUOTE", "INVALID_QUOTE"}}}
            = {{suppliers[s]} : s \in {t \in DOMAIN suppliers :
                                         results[t].status \in {"INCOMPLETE", "INVALID"}}}
<1>. DEFINE complete == {s \in DOMAIN suppliers : results[s].status = "COMPLETE"}
            amountOf == [s \in {suppliers[t] : t \in complete} |->
                results[CHOOSE t \in complete : suppliers[t] = s].merchandiseRankingAmount]
<1>1. PICK w : w = WinnerInsight(ranked)
  OBVIOUS
<1>2. PICK f : f = FlipInsight(ranked, amountOf)
  OBVIOUS
<1>3. PICK a : a = StatusInsights(suppliers, results, "INCOMPLETE", "INCOMPLETE_QUOTE")
  OBVIOUS
<1>4. PICK b : b = StatusInsights(suppliers, results, "INVALID", "INVALID_QUOTE")
  OBVIOUS
<1>5. list = <<w>> \o f \o a \o b
  BY <1>1, <1>2, <1>3, <1>4 DEF BuildComparisonInsights
<1>6. w.code \notin {"INCOMPLETE_QUOTE", "INVALID_QUOTE"}
  BY <1>1 DEF WinnerInsight
<1>7. /\ f \in Seq(Range(f))
      /\ \A i \in Range(f) : i.code \notin {"INCOMPLETE_QUOTE", "INVALID_QUOTE"}
  <2>1. PICK l : l = MerchandiseLeaders(ranked, amountOf)
    OBVIOUS
  <2>2. f = <<>> \/ f = <<[code |-> "LOWEST_MERCHANDISE_NOT_LOWEST_LANDED_COST", suppliers |-> l]>>
    <3>. HIDE DEF amountOf
    <3>. QED
      BY <1>2, <2>1 DEF FlipInsight
  <2>3. CASE f = <<>>
    BY <2>3, RangeHolds
  <2>4. CASE f = <<[code |-> "LOWEST_MERCHANDISE_NOT_LOWEST_LANDED_COST", suppliers |-> l]>>
    <3>1. PICK i : i = [code |-> "LOWEST_MERCHANDISE_NOT_LOWEST_LANDED_COST", suppliers |-> l]
      OBVIOUS
    <3>2. f = <<i>> /\ i.code = "LOWEST_MERCHANDISE_NOT_LOWEST_LANDED_COST"
      BY <2>4, <3>1
    <3>3. Range(f) = {i}
      BY <3>2, OnlyOne
    <3>4. f \in Seq({i})
      BY <3>2
    <3>. QED
      BY <3>2, <3>3, <3>4
  <2>. QED
    BY <2>2, <2>3, <2>4
<1>. HIDE DEF complete, amountOf
<1>8. PICK S : S = OfStatus(suppliers, results, "INCOMPLETE")
  OBVIOUS
<1>9. PICK T : T = OfStatus(suppliers, results, "INVALID")
  OBVIOUS
<1>10. /\ a \in Seq(Range(a))
       /\ Range(a) = {Explains("INCOMPLETE_QUOTE", suppliers[s]) : s \in S}
  BY <1>3, <1>8, StatusExplained
<1>11. /\ b \in Seq(Range(b))
       /\ Range(b) = {Explains("INVALID_QUOTE", suppliers[s]) : s \in T}
  BY <1>4, <1>9, StatusExplained
<1>12. PICK X : X = {w} \cup Range(f) \cup Range(a) \cup Range(b)
  OBVIOUS
<1>13. <<w>> \in Seq(X) /\ f \in Seq(X) /\ a \in Seq(X) /\ b \in Seq(X) /\ Range(<<w>>) = {w}
  <2>1. <<w>> \in Seq(X) /\ Range(<<w>>) = {w}
    BY <1>12, OnlyOne
  <2>2. \A Y : Y \subseteq X => \A s \in Seq(Y) : s \in Seq(X)
    OBVIOUS
  <2>. QED
    BY <1>7, <1>10, <1>11, <1>12, <2>1, <2>2
<1>14. Range(list) = {w} \cup Range(f) \cup Range(a) \cup Range(b)
  <2>1. PICK g : g = <<w>> \o f
    OBVIOUS
  <2>2. PICK v : v = <<w>>
    OBVIOUS
  <2>3. v \in Seq(X) /\ Range(v) = {w} /\ g = v \o f
    BY <1>13, <2>1, <2>2
  <2>4. g \in Seq(X) /\ Range(g) = {w} \cup Range(f)
    BY <1>13, <2>3, Joined
  <2>5. PICK h : h = g \o a
    OBVIOUS
  <2>6. h \in Seq(X) /\ Range(h) = Range(g) \cup Range(a)
    BY <1>13, <2>4, <2>5, Joined
  <2>7. list = h \o b
    BY <1>5, <2>1, <2>5
  <2>8. Range(list) = Range(h) \cup Range(b)
    BY <1>13, <2>6, <2>7, Joined
  <2>. QED
    BY <2>4, <2>6, <2>8
<1>15. {j \in Range(list) : j.code \in {"INCOMPLETE_QUOTE", "INVALID_QUOTE"}} = Range(a) \cup Range(b)
  <2>1. \A i \in Range(a) : i.code = "INCOMPLETE_QUOTE"
    BY <1>10 DEF Explains
  <2>2. \A i \in Range(b) : i.code = "INVALID_QUOTE"
    BY <1>11 DEF Explains
  <2>. QED
    BY <1>6, <1>7, <1>14, <2>1, <2>2
<1>16. {i.suppliers : i \in Range(a) \cup Range(b)} = {{suppliers[s]} : s \in S \cup T}
  <2>1. \A x : /\ Explains("INCOMPLETE_QUOTE", x).suppliers = {x}
                /\ Explains("INVALID_QUOTE", x).suppliers = {x}
    BY DEF Explains
  <2>2. ASSUME NEW i \in Range(a) PROVE \E s \in S : i.suppliers = {suppliers[s]}
    BY <1>10, <2>1
  <2>3. ASSUME NEW i \in Range(b) PROVE \E s \in T : i.suppliers = {suppliers[s]}
    BY <1>11, <2>1
  <2>4. ASSUME NEW s \in S PROVE \E i \in Range(a) : i.suppliers = {suppliers[s]}
    <3>1. Explains("INCOMPLETE_QUOTE", suppliers[s]) \in Range(a)
      BY <1>10
    <3>. QED
      BY <2>1, <3>1
  <2>5. ASSUME NEW s \in T PROVE \E i \in Range(b) : i.suppliers = {suppliers[s]}
    <3>1. Explains("INVALID_QUOTE", suppliers[s]) \in Range(b)
      BY <1>11
    <3>. QED
      BY <2>1, <3>1
  <2>6. \A i \in Range(a) \cup Range(b) : i.suppliers \in {{suppliers[s]} : s \in S \cup T}
    BY <2>2, <2>3
  <2>7. \A s \in S \cup T : \E i \in Range(a) \cup Range(b) : {suppliers[s]} = i.suppliers
    BY <2>4, <2>5
  <2>8. PICK Y : Y = {i.suppliers : i \in Range(a) \cup Range(b)}
    OBVIOUS
  <2>9. PICK Z : Z = {{suppliers[s]} : s \in S \cup T}
    OBVIOUS
  <2>10. \A y \in Y : y \in Z
    BY <2>6, <2>8, <2>9
  <2>11. \A z \in Z : z \in Y
    BY <2>7, <2>8, <2>9
  <2>. QED
    BY <2>8, <2>9, <2>10, <2>11
<1>17. S \cup T = {t \in DOMAIN suppliers : results[t].status \in {"INCOMPLETE", "INVALID"}}
  BY <1>8, <1>9 DEF OfStatus
<1>. QED
  BY <1>15, <1>16, <1>17

\* What RankingIsDense says of a finished comparison, given each part of it.
RankingFound ==
    LET amount(s) == evaluations[s].rankingAmount
        place(s) == CHOOSE k \in DOMAIN ranking :
                        ranking[k].supplier = project.suppliers[s]
    IN /\ {ranking[k].supplier : k \in DOMAIN ranking}
            = {project.suppliers[s] : s \in CompleteSuppliers}
       /\ Len(ranking) = Cardinality(CompleteSuppliers)
       /\ \A s \in CompleteSuppliers :
            ranking[place(s)].rank = 1 + Cardinality(
                {amount(t) : t \in {u \in CompleteSuppliers : amount(u) < amount(s)}})
       /\ \A s, t \in CompleteSuppliers :
            amount(s) < amount(t) \/ (amount(s) = amount(t) /\ s < t)
                => place(s) < place(t)

\* The ranking of a project whose suppliers do not repeat: each complete supplier
\* has one place, its rank counts the amounts below its own, and places follow
\* amounts and then the project's order.
LEMMA EachHasAPlace ==
    ASSUME EachOnItsOwn, Len(evaluations) = Len(project.suppliers), ~Repeats(project.suppliers),
           ranking = RankCompleteSuppliers(project.suppliers, evaluations)
    PROVE  RankingFound
<1>1. PICK S : Rankable(S, project.suppliers, evaluations) /\ S = CompleteSuppliers
  BY CompleteAreRankable
<1>2. PICK o, c : RankingFits(ranking, project.suppliers, evaluations, S, o, c)
  BY <1>1, RankingIsFitting
<1>3. /\ c \in Nat /\ c = Cardinality(S) /\ o \in [1 .. c -> S]
      /\ \A x, y \in 1 .. c : o[x] = o[y] => x = y
      /\ \A s \in S : \E x \in 1 .. c : o[x] = s
      /\ \A x, y \in 1 .. c : x < y =>
          \/ evaluations[o[x]].rankingAmount < evaluations[o[y]].rankingAmount
          \/ evaluations[o[x]].rankingAmount = evaluations[o[y]].rankingAmount /\ o[x] < o[y]
  BY <1>2 DEF RankingFits, RanksInOrder
<1>4. /\ DOMAIN ranking = 1 .. c /\ Len(ranking) = c
      /\ \A k \in 1 .. c :
          /\ ranking[k].supplier = project.suppliers[o[k]]
          /\ ranking[k].rank = 1 + Cardinality(AmountsBelow(evaluations, S, o[k]))
  BY <1>2 DEF RankingFits
<1>5. S \in SUBSET DOMAIN project.suppliers /\ S \in SUBSET Nat
      /\ \A s \in S : evaluations[s].rankingAmount \in Int
  BY <1>1 DEF Rankable
<1>. DEFINE place(s) == CHOOSE k \in DOMAIN ranking :
                            ranking[k].supplier = project.suppliers[s]
<1>6. ASSUME NEW s \in S PROVE place(s) \in 1 .. c /\ o[place(s)] = s
  <2>1. PICK k \in 1 .. c : o[k] = s
    BY <1>3
  <2>2. ranking[k].supplier = project.suppliers[s]
    BY <1>4, <2>1
  <2>3. place(s) \in 1 .. c /\ ranking[place(s)].supplier = project.suppliers[s]
    BY <1>4, <2>2
  <2>. PICK p : p = place(s)
    OBVIOUS
  <2>. HIDE DEF place
  <2>4. project.suppliers[o[p]] = project.suppliers[s] /\ o[p] \in S
    BY <1>3, <1>4, <2>3
  <2>5. o[p] = s
    BY <1>5, <2>4 DEF Repeats
  <2>. QED
    BY <2>3, <2>5
<1>. HIDE DEF place
<1>7. {ranking[k].supplier : k \in DOMAIN ranking} = {project.suppliers[s] : s \in S}
  BY <1>3, <1>4
<1>8. ASSUME NEW s \in S
      PROVE  ranking[place(s)].rank = 1 + Cardinality(
                {evaluations[t].rankingAmount : t \in
                    {u \in S : evaluations[u].rankingAmount < evaluations[s].rankingAmount}})
  <2>1. ranking[place(s)].rank = 1 + Cardinality(AmountsBelow(evaluations, S, s))
    BY <1>4, <1>6
  <2>. QED
    BY <2>1 DEF AmountsBelow
<1>9. ASSUME NEW s \in S, NEW t \in S,
             \/ evaluations[s].rankingAmount < evaluations[t].rankingAmount
             \/ evaluations[s].rankingAmount = evaluations[t].rankingAmount /\ s < t
      PROVE  place(s) < place(t)
  <2>. PICK x : x = place(s)
    OBVIOUS
  <2>. PICK y : y = place(t)
    OBVIOUS
  <2>1. x \in 1 .. c /\ y \in 1 .. c /\ o[x] = s /\ o[y] = t
    BY <1>6
  <2>2. PICK a \in Int : a = evaluations[s].rankingAmount
    BY <1>5
  <2>3. PICK b \in Int : b = evaluations[t].rankingAmount
    BY <1>5
  <2>4. a < b \/ (a = b /\ s < t)
    BY <1>9, <2>2, <2>3
  <2>5. y < x => b < a \/ (b = a /\ t < s)
    BY <1>3, <2>1, <2>2, <2>3
  <2>6. s \in Nat /\ t \in Nat
    BY <1>5
  <2>7. x # y /\ ~(y < x)
    BY <2>1, <2>2, <2>3, <2>4, <2>5, <2>6
  <2>. QED
    BY <2>1, <2>7
<1>10. Len(ranking) = Cardinality(S)
  BY <1>3, <1>4
<1>. QED
  BY <1>1, <1>7, <1>8, <1>9, <1>10 DEF RankingFound, place

\* rankCompleteSuppliers and buildComparisonInsights: a supplier's rank is one
\* more than the number of different totals below its own, places follow totals
\* and then the project's order, and who is not ranked is explained.
THEOREM RanksAreDense == Spec => []RankingIsDense
<1>1. Init => RankedAndExplained
  BY DEF Init, RankedAndExplained
<1>2. ComparisonInvariant /\ RankedAndExplained => RankingIsDense
  <2>. SUFFICES ASSUME ComparisonInvariant, RankedAndExplained, phase = "DONE"
                PROVE  RankingIsDense
    BY DEF RankingIsDense
  <2>1. /\ EachOnItsOwn /\ Len(evaluations) = Len(project.suppliers) /\ ~Repeats(project.suppliers)
        /\ ranking = RankCompleteSuppliers(project.suppliers, evaluations)
        /\ insights = BuildComparisonInsights(project.suppliers, evaluations, ranking)
    BY DEF ComparisonInvariant, RankedAndExplained
  <2>2. RankingFound
    BY <2>1, EachHasAPlace
  <2>3. PICK n \in Nat : DOMAIN project.suppliers = 1 .. n /\ DOMAIN evaluations = 1 .. n
    <3>1. WellFormed(project)
      BY <2>1, ProjectsAssumption DEF EachOnItsOwn
    <3>2. /\ DOMAIN project.suppliers = 1 .. Len(evaluations) /\ Len(evaluations) \in Nat
          /\ DOMAIN evaluations = 1 .. Len(evaluations)
      BY <2>1, <3>1 DEF WellFormed, EachOnItsOwn
    <3>. QED
      BY <3>2
  <2>4. {i.suppliers : i \in {j \in Range(insights) : j.code \in {"INCOMPLETE_QUOTE", "INVALID_QUOTE"}}}
          = {{project.suppliers[s]} : s \in {t \in DOMAIN project.suppliers :
                                         evaluations[t].status \in {"INCOMPLETE", "INVALID"}}}
    BY <2>1, <2>3, OthersExplained
  <2>5. {t \in DOMAIN project.suppliers : evaluations[t].status \in {"INCOMPLETE", "INVALID"}}
          = DOMAIN evaluations \ CompleteSuppliers
    <3>1. \A s \in DOMAIN evaluations : evaluations[s].status \in {"COMPLETE", "INCOMPLETE", "INVALID"}
      <4>. TAKE s \in DOMAIN evaluations
      <4>1. Trusted(evaluations[s], CostsOf(s))
        BY <2>1, EvaluatedIsTrusted
      <4>. QED
        BY <4>1 DEF Trusted
    <3>. QED
      BY <2>3, <3>1 DEF CompleteSuppliers
  <2>. QED
    BY <2>2, <2>4, <2>5 DEF RankingIsDense, RankingFound
<1>. QED
  BY <1>1, <1>2, RankedStepByStep, ComparisonGoesAsItShould, PTL DEF Spec

-----------------------------------------------------------------------------
(* The costs in another order.                                             *)

\* Every place has another, and no two the same.
Turns(b, D) ==
    /\ IsFiniteSet(D) /\ b \in [D -> D]
    /\ \A i, j \in D : b[i] = b[j] => i = j
    /\ \A j \in D : \E i \in D : b[i] = j

\* The places whose others are in T.
TurnsInto(S, T, b, D) == S = {i \in D : b[i] \in T} /\ T \in SUBSET D

\* Part of the places turns into part of the others.
LEMMA TurnedPart ==
    ASSUME NEW D, NEW b, Turns(b, D), NEW S, NEW T, TurnsInto(S, T, b, D)
    PROVE  /\ S \in SUBSET D /\ IsFiniteSet(S) /\ IsFiniteSet(T)
           /\ \E r \in Bijection(S, T) : \A i \in S : r[i] = b[i]
<1>1. S \in SUBSET D /\ T \in SUBSET D /\ IsFiniteSet(D)
  BY DEF TurnsInto, Turns
<1>2. PICK r : r = [i \in S |-> b[i]]
  OBVIOUS
<1>3. r \in [S -> T] /\ \A i \in S : r[i] = b[i]
  BY <1>2 DEF TurnsInto
<1>4. r \in Bijection(S, T)
  <2>1. \A i, j \in S : r[i] = r[j] => i = j
    BY <1>1, <1>3 DEF Turns
  <2>2. \A j \in T : \E i \in S : r[i] = j
    <3>. SUFFICES ASSUME NEW j \in T PROVE \E i \in S : r[i] = j
      OBVIOUS
    <3>1. PICK i \in D : b[i] = j
      BY <1>1 DEF Turns
    <3>. QED
      BY <1>3, <3>1 DEF TurnsInto
  <2>. QED
    BY <1>3, <2>1, <2>2 DEF Bijection, Injection, Surjection, IsInjective
<1>. QED
  BY <1>1, <1>3, <1>4, FS_Subset

\* Numbers in another order add up to the same.
LEMMA SumTurned ==
    ASSUME NEW D, NEW b, Turns(b, D), NEW S, NEW T, TurnsInto(S, T, b, D),
           NEW g, Whole(g, T), NEW f, Renames(f, g, b, S)
    PROVE  Whole(f, S) /\ SumOn(f, S) = SumOn(g, T)
<1>1. PICK r \in Bijection(S, T) : \A i \in S : r[i] = b[i]
  BY TurnedPart
<1>2. IsFiniteSet(S)
  BY TurnedPart
<1>3. Renames(f, g, r, S)
  BY <1>1 DEF Renames
<1>4. Whole(f, S)
  <2>1. \A i \in S : f[i] \in Int
    BY DEF TurnsInto, Renames, Whole
  <2>. QED
    BY <1>2, <2>1 DEF Whole
<1>5. SumOn(g, T) = SumOn(f, S)
  BY <1>1, <1>3, <1>4, SumRenamed
<1>. QED
  BY <1>4, <1>5

\* The same ones in the same order, each under its other name.
LEMMA OrderTurned ==
    ASSUME NEW D, NEW b, Turns(b, D), NEW S, NEW T, TurnsInto(S, T, b, D),
           NEW R, StrictlyOrders(R, T), NEW q, Arranges(q, T, R),
           NEW Q, StrictlyOrders(Q, S), NEW p, Arranges(p, S, Q),
           \A i, j \in S : <<i, j>> \in Q => <<b[i], b[j]>> \in R
    PROVE  /\ Cardinality(S) = Cardinality(T) /\ Cardinality(S) \in Nat
           /\ q \in [1 .. Cardinality(S) -> T] /\ p \in [1 .. Cardinality(S) -> S]
           /\ \A k \in 1 .. Cardinality(S) : q[k] = b[p[k]]
<1>1. PICK r \in Bijection(S, T) : \A i \in S : r[i] = b[i]
  BY TurnedPart
<1>2. IsFiniteSet(S) /\ IsFiniteSet(T)
  BY TurnedPart
<1>3. PICK n : n = Cardinality(S)
  OBVIOUS
<1>4. n \in Nat
  BY <1>2, <1>3, FS_CardinalityType
<1>5. /\ p \in Bijection(1 .. n, S) /\ p \in [1 .. n -> S]
      /\ \A i, j \in 1 .. n : i < j => <<p[i], p[j]>> \in Q
  <2>1. Queues(p, S, Q)
    BY <1>2, Arranged
  <2>. QED
    BY <1>3, <2>1 DEF Queues
<1>6. PICK I : I = 1 .. n
  OBVIOUS
<1>7. PICK u : u = [k \in I |-> r[p[k]]]
  OBVIOUS
<1>8. r \in [S -> T] /\ (\A i, j \in S : r[i] = r[j] => i = j) /\ \A j \in T : \E i \in S : r[i] = j
  BY <1>1 DEF Bijection, Injection, Surjection, IsInjective
<1>9. p \in [I -> S] /\ (\A i, j \in I : p[i] = p[j] => i = j) /\ \A j \in S : \E i \in I : p[i] = j
  BY <1>5, <1>6 DEF Bijection, Injection, Surjection, IsInjective
<1>10. u \in [I -> T] /\ \A k \in I : u[k] = r[p[k]]
  BY <1>7, <1>8, <1>9
<1>11. u \in Bijection(I, T)
  <2>1. \A i, j \in I : u[i] = u[j] => i = j
    BY <1>8, <1>9, <1>10
  <2>2. \A j \in T : \E i \in I : u[i] = j
    <3>. SUFFICES ASSUME NEW j \in T PROVE \E i \in I : u[i] = j
      OBVIOUS
    <3>1. PICK s \in S : r[s] = j
      BY <1>8
    <3>2. PICK i \in I : p[i] = s
      BY <1>9
    <3>. QED
      BY <1>10, <3>1, <3>2
  <2>. QED
    BY <1>10, <2>1, <2>2 DEF Bijection, Injection, Surjection, IsInjective
<1>12. \A i, j \in I : i < j => <<u[i], u[j]>> \in R
  <2>. SUFFICES ASSUME NEW i \in I, NEW j \in I, i < j PROVE <<u[i], u[j]>> \in R
    OBVIOUS
  <2>1. p[i] \in S /\ p[j] \in S /\ <<p[i], p[j]>> \in Q
    BY <1>5, <1>6, <1>9
  <2>2. <<b[p[i]], b[p[j]]>> \in R
    BY <2>1
  <2>3. u[i] = b[p[i]] /\ u[j] = b[p[j]]
    BY <1>1, <1>10, <2>1
  <2>. QED
    BY <2>2, <2>3
<1>13. n = Cardinality(T) /\ q = u
  <2>1. u \in Bijection(1 .. n, T) /\ \A i, j \in 1 .. n : i < j => <<u[i], u[j]>> \in R
    BY <1>6, <1>11, <1>12
  <2>. HIDE DEF Arranges, StrictlyOrders
  <2>. QED
    BY <1>2, <1>4, <2>1, ArrangedOnce
<1>14. \A k \in I : q[k] = b[p[k]]
  BY <1>1, <1>9, <1>10, <1>13
<1>15. q \in [I -> T] /\ p \in [I -> S]
  BY <1>9, <1>10, <1>13
<1>. QED
  BY <1>3, <1>4, <1>6, <1>13, <1>14, <1>15

\* A supplier's costs, in another order.
Reordered(o, costs, D, n, b) ==
    /\ CostList(o, D, n) /\ CostList(costs, D, n) /\ Turns(b, D)
    /\ \A i \in D : o[i] = costs[b[i]]

\* What being reordered says of each place.
LEMMA ReorderedEach ==
    ASSUME NEW D, NEW n, NEW b, NEW costs, NEW o, Reordered(o, costs, D, n, b)
    PROVE  /\ DOMAIN o = D /\ DOMAIN costs = D /\ b \in [D -> D] /\ IsFiniteSet(D)
           /\ \A i \in D : o[i] = costs[b[i]] /\ b[i] \in D /\ costs[i] \in Cost
           /\ \A j \in D : \E i \in D : b[i] = j
           /\ \A i, j \in D : b[i] = b[j] => i = j
  BY DEF Reordered, CostList, Turns

\* What the costs of a stage come to.
LEMMA StageReordered ==
    ASSUME NEW D, NEW n, NEW b, NEW costs, NEW o, Reordered(o, costs, D, n, b),
           Sound(costs, D), NEW stage \in Stages,
           NEW base, \A a \in AllowedBases(stage) : base[a] \in Nat
    PROVE  SumMagnitudes(o, stage, base) = SumMagnitudes(costs, stage, base)
<1>1. /\ DOMAIN o = D /\ DOMAIN costs = D /\ b \in [D -> D] /\ IsFiniteSet(D)
      /\ \A i \in D : o[i] = costs[b[i]] /\ b[i] \in D
  BY ReorderedEach
<1>2. PICK T : T = InStage(costs, stage)
  OBVIOUS
<1>3. PICK S : S = InStage(o, stage)
  OBVIOUS
<1>4. TurnsInto(S, T, b, D)
  BY <1>1, <1>2, <1>3 DEF TurnsInto, InStage
<1>. DEFINE here(i) == BaseCurrencyAmount(costs[i], base)
            there(i) == BaseCurrencyAmount(o[i], base)
<1>5. PICK g : g = [i \in T |-> here(i)]
  OBVIOUS
<1>6. PICK f : f = [i \in S |-> there(i)]
  OBVIOUS
<1>7. Parts(g, T) /\ SumMagnitudes(costs, stage, base) = SumOn(g, T)
  <2>1. CostList(costs, D, n)
    BY DEF Reordered
  <2>2. g = [i \in InStage(costs, stage) |-> BaseCurrencyAmount(costs[i], base)]
    BY <1>2, <1>5
  <2>3. Parts(g, InStage(costs, stage)) /\ SumMagnitudes(costs, stage, base) = SumOn(g, InStage(costs, stage))
    BY <2>1, <2>2, StageAddsUp
  <2>. QED
    BY <1>2, <2>3
<1>8. Renames(f, g, b, S)
  <2>1. \A i \in S : b[i] \in T /\ i \in D
    BY <1>4 DEF TurnsInto
  <2>2. \A i \in S : there(i) = here(b[i])
    BY <1>1, <2>1
  <2>. HIDE DEF here, there
  <2>. QED
    BY <1>5, <1>6, <2>1, <2>2 DEF Renames
<1>9. Whole(g, T) /\ Turns(b, D)
  BY <1>7, PartsAddUp DEF Reordered
<1>10. SumOn(f, S) = SumOn(g, T)
  BY <1>4, <1>8, <1>9, SumTurned
<1>11. SumMagnitudes(o, stage, base) = SumOn(f, S)
  <2>1. SumMagnitudes(o, stage, base) = Total([i \in S |-> there(i)])
    BY <1>3 DEF SumMagnitudes, InStage
  <2>. HIDE DEF here, there
  <2>2. DOMAIN f = S
    BY <1>6
  <2>. QED
    BY <1>6, <2>1, <2>2, TotalIsSum
<1>. QED
  BY <1>7, <1>10, <1>11

\* The costs' bases.
LEMMA ReadyReordered ==
    ASSUME NEW D, NEW n, NEW b, NEW costs, NEW o, Reordered(o, costs, D, n, b),
           NEW m, Ready(costs, D, n, m)
    PROVE  Ready(o, D, n, m) /\ PercentageBases(m, o) = PercentageBases(m, costs)
<1>1. /\ DOMAIN o = D /\ DOMAIN costs = D
      /\ \A i \in D : o[i] = costs[b[i]] /\ b[i] \in D
      /\ \A i, j \in D : b[i] = b[j] => i = j
  BY ReorderedEach
<1>2. /\ CostList(o, D, n) /\ CostList(costs, D, n) /\ Sound(costs, D) /\ m \in Nat
      /\ DifferentIds(costs, D)
      /\ PercentageBases(m, costs)["MERCHANDISE_AFTER_DISCOUNT"] >= 0
  BY DEF Reordered, Ready
<1>3. Sound(o, D) /\ DifferentIds(o, D)
  BY <1>1, <1>2 DEF Sound, DifferentIds
<1>4. PICK first : first = FirstBase(m)
  OBVIOUS
<1>5. PICK after : after = m - SumMagnitudes(costs, "DISCOUNT", first)
  OBVIOUS
<1>6. SumMagnitudes(o, "DISCOUNT", first) = SumMagnitudes(costs, "DISCOUNT", first)
  <2>1. \A a \in AllowedBases("DISCOUNT") : first[a] \in Nat
    BY <1>2, <1>4, BasesAllowed DEF FirstBases, FirstBase
  <2>. QED
    BY <1>2, <2>1, StageReordered DEF Stages
<1>7. after \in Int /\ after >= 0
  <2>1. PICK x : x = PercentageBases(m, costs)
    OBVIOUS
  <2>2. /\ x["MERCHANDISE_AFTER_DISCOUNT"] = m - SumMagnitudes(costs, "DISCOUNT", FirstBase(m))
        /\ x["MERCHANDISE_AFTER_DISCOUNT"] \in Int
    BY <1>2, <2>1, BasesOf
  <2>. QED
    BY <1>2, <1>4, <1>5, <2>1, <2>2
<1>8. PICK second : second = [a \in {"MERCHANDISE", "MERCHANDISE_AFTER_DISCOUNT"} |->
                                IF a = "MERCHANDISE" THEN m ELSE after]
  OBVIOUS
<1>9. SumMagnitudes(o, "FREIGHT_INSURANCE", second) = SumMagnitudes(costs, "FREIGHT_INSURANCE", second)
  <2>1. \A a \in AllowedBases("FREIGHT_INSURANCE") : second[a] \in Nat
    BY <1>2, <1>7, <1>8, BasesAllowed DEF SecondBases
  <2>. QED
    BY <1>2, <2>1, StageReordered DEF Stages
<1>10. PICK plus : plus = after + SumMagnitudes(costs, "FREIGHT_INSURANCE", second)
  OBVIOUS
<1>. DEFINE all == [a \in AllowedBases("OTHER_COST") |->
                      CASE a = "MERCHANDISE" -> m
                        [] a = "MERCHANDISE_AFTER_DISCOUNT" -> after
                        [] OTHER -> plus]
<1>11. PercentageBases(m, costs) = all
  BY <1>4, <1>5, <1>8, <1>10 DEF PercentageBases, FirstBase
<1>12. PercentageBases(m, o) = all
  <2>1. after = m - SumMagnitudes(o, "DISCOUNT", first)
    BY <1>5, <1>6
  <2>2. plus = after + SumMagnitudes(o, "FREIGHT_INSURANCE", second)
    BY <1>9, <1>10
  <2>. QED
    BY <1>4, <1>8, <2>1, <2>2 DEF PercentageBases, FirstBase
<1>. HIDE DEF all
<1>13. PercentageBases(m, o) = PercentageBases(m, costs)
  BY <1>11, <1>12
<1>. QED
  BY <1>2, <1>3, <1>13 DEF Ready

\* What is not refused in one order is not refused in another.
LEMMA AcceptedReordered ==
    ASSUME NEW D, NEW n, NEW b, NEW costs, NEW o, Reordered(o, costs, D, n, b),
           NEW m, Ready(costs, D, n, m), InputError(m, costs) = "NONE"
    PROVE  InputError(m, o) = "NONE"
<1>1. /\ DOMAIN o = D /\ DOMAIN costs = D
      /\ \A i \in D : o[i] = costs[b[i]] /\ b[i] \in D
  BY ReorderedEach
<1>2. /\ \A i \in D : CostError(costs[i]) = "NONE"
      /\ m \in Nat /\ PercentageBases(m, costs)["MERCHANDISE_AFTER_DISCOUNT"] >= 0
  BY DEF Ready, Sound
<1>3. PICK x \in Int : x = PercentageBases(m, costs)["MERCHANDISE_AFTER_DISCOUNT"] /\ x >= 0
  <2>1. PICK y : y = PercentageBases(m, costs)
    OBVIOUS
  <2>2. y["MERCHANDISE_AFTER_DISCOUNT"] \in Int
    BY <2>1, BasesOf DEF Ready
  <2>. QED
    BY <1>2, <2>1, <2>2
<1>4. \A i \in D : ~(costs[i].basis = "FIXED" /\ ~HasRate(costs[i].currency))
  <2>. SUFFICES ASSUME NEW i \in D, costs[i].basis = "FIXED", ~HasRate(costs[i].currency) PROVE FALSE
    OBVIOUS
  <2>1. PICK unpriced : unpriced = {j \in D : costs[j].basis = "FIXED" /\ ~HasRate(costs[j].currency)}
    OBVIOUS
  <2>2. unpriced # {}
    BY <2>1
  <2>3. {j \in D : CostError(costs[j]) # "NONE"} = {}
    BY <1>2
  <2>4. ~(m < 0) /\ ~(PercentageBases(m, costs)["MERCHANDISE_AFTER_DISCOUNT"] < 0)
    BY <1>2, <1>3
  <2>5. ~\E j, k \in DOMAIN costs : j # k /\ costs[j].id = costs[k].id
    BY <1>1 DEF Ready, DifferentIds
  <2>6. InputError(m, costs) = "MISSING_EXCHANGE_RATE"
    BY <1>1, <2>1, <2>2, <2>3, <2>4, <2>5 DEF InputError
  <2>. QED
    BY <2>6
<1>5. Ready(o, D, n, m) /\ PercentageBases(m, o) = PercentageBases(m, costs)
  BY ReadyReordered
<1>6. {i \in D : CostError(o[i]) # "NONE"} = {}
  BY <1>1, <1>2
<1>7. {i \in D : o[i].basis = "FIXED" /\ ~HasRate(o[i].currency)} = {}
  BY <1>1, <1>4
<1>8. ~\E i, j \in DOMAIN o : i # j /\ o[i].id = o[j].id
  BY <1>1, <1>5 DEF Ready, DifferentIds
<1>9. ~(m < 0) /\ ~(PercentageBases(m, o)["MERCHANDISE_AFTER_DISCOUNT"] < 0)
  BY <1>2, <1>3, <1>5
<1>. QED
  BY <1>1, <1>6, <1>7, <1>8, <1>9 DEF InputError

\* What each entry comes to, in another order.
LEMMA EntriesReordered ==
    ASSUME NEW D, NEW n, NEW b, NEW costs, NEW o, Reordered(o, costs, D, n, b), NEW m, NEW base,
           NEW E, EntriesSay(E, costs, D, m, base), NEW F, EntriesSay(F, o, D, m, base)
    PROVE  /\ \A i \in D : /\ F.magnitudes[i] = E.magnitudes[b[i]]
                           /\ F.effects[i] = E.effects[b[i]]
           /\ F.landed = E.landed /\ F.bases = E.bases
           /\ F.settledMerchandise = E.settledMerchandise /\ F.settledLanded = E.settledLanded
<1>1. /\ IsFiniteSet(D) /\ \A i \in D : o[i] = costs[b[i]] /\ b[i] \in D
  BY ReorderedEach
<1>2. \A i \in D : F.magnitudes[i] = E.magnitudes[b[i]]
  BY <1>1 DEF EntriesSay
<1>3. \A i \in D : F.effects[i] = E.effects[b[i]]
  BY <1>1, <1>2 DEF EntriesSay
<1>4. PICK e : e = E.effects
  OBVIOUS
<1>5. PICK f : f = F.effects
  OBVIOUS
<1>6. SumOn(f, D) = SumOn(e, D)
  <2>1. Whole(e, D)
    BY <1>1, <1>4 DEF EntriesSay, Whole
  <2>2. Renames(f, e, b, D)
    BY <1>3, <1>4, <1>5 DEF Renames
  <2>3. Turns(b, D) /\ TurnsInto(D, D, b, D)
    BY <1>1 DEF Reordered, TurnsInto
  <2>. QED
    BY <2>1, <2>2, <2>3, SumTurned
<1>7. F.landed = E.landed
  BY <1>4, <1>5, <1>6 DEF EntriesSay
<1>. QED
  BY <1>2, <1>3, <1>7 DEF EntriesSay

\* The entries of a side, each at the place of its other.
SamePlaces(p, q, S, T, b, c, I) ==
    /\ c \in Nat /\ I = 1 .. c /\ p \in [I -> S] /\ q \in [I -> T]
    /\ \A k \in I : q[k] = b[p[k]]

\* The pools of two orders list the same costs.
LEMMA PoolReordered ==
    ASSUME NEW D, NEW n, NEW b, NEW costs, NEW o, Reordered(o, costs, D, n, b),
           DifferentIds(costs, D), DifferentIds(o, D), NEW S, NEW T, TurnsInto(S, T, b, D),
           NEW p, p = EffectPool(o, S), NEW q, q = EffectPool(costs, T)
    PROVE  \E c, I : SamePlaces(p, q, S, T, b, c, I)
<1>1. /\ CostList(o, D, n) /\ CostList(costs, D, n) /\ Turns(b, D)
      /\ \A i \in D : o[i] = costs[b[i]]
  BY DEF Reordered
<1>2. S \in SUBSET D /\ T \in SUBSET D /\ \A i \in S : b[i] \in T
  BY DEF TurnsInto
<1>3. PICK R : R = ById(costs, T)
  OBVIOUS
<1>4. PICK Q : Q = ById(o, S)
  OBVIOUS
<1>5. StrictlyOrders(R, T) /\ Arranges(q, T, R)
  BY <1>1, <1>2, <1>3, PoolArranged
<1>6. StrictlyOrders(Q, S) /\ Arranges(p, S, Q)
  BY <1>1, <1>2, <1>4, PoolArranged
<1>7. \A i, j \in S : <<i, j>> \in Q => <<b[i], b[j]>> \in R
  BY <1>1, <1>2, <1>3, <1>4 DEF ById
<1>8. /\ Cardinality(S) = Cardinality(T) /\ Cardinality(S) \in Nat
      /\ q \in [1 .. Cardinality(S) -> T] /\ p \in [1 .. Cardinality(S) -> S]
      /\ \A k \in 1 .. Cardinality(S) : q[k] = b[p[k]]
  <2>. HIDE DEF Arranges, StrictlyOrders
  <2>. QED
    BY <1>1, <1>5, <1>6, <1>7, OrderTurned
<1>9. SamePlaces(p, q, S, T, b, Cardinality(S), 1 .. Cardinality(S))
  BY <1>8 DEF SamePlaces
<1>. QED
  BY <1>9

\* Each entry has the place its other has.
SameIndex(p, q, D, b) == \A i \in D : IndexIn(p, i) = IndexIn(q, b[i])

\* What the entries of a side are worth, at each place.
LEMMA PlacesReordered ==
    ASSUME NEW D, NEW n, Numbered(D, n), NEW b, Turns(b, D), NEW S \in SUBSET D, NEW T \in SUBSET D,
           NEW p, NEW q, NEW c, NEW I, SamePlaces(p, q, S, T, b, c, I),
           NEW e, NEW f, Renames(f, e, b, D)
    PROVE  /\ PoolMagnitudes(p, f) = PoolMagnitudes(q, e)
           /\ p = <<>> <=> q = <<>>
           /\ SameIndex(p, q, D, b)
<1>0. \A i \in D : f[i] = e[b[i]]
  BY DEF Renames, Turns
<1>1. /\ DOMAIN p = I /\ DOMAIN q = I /\ \A k \in I : q[k] = b[p[k]] /\ p[k] \in D /\ q[k] \in D
  BY DEF SamePlaces
<1>2. PoolMagnitudes(p, f) = PoolMagnitudes(q, e)
  <2>. DEFINE here(k) == Magnitude(f[p[k]])
              there(k) == Magnitude(e[q[k]])
  <2>1. \A k \in I : here(k) = there(k)
    BY <1>0, <1>1
  <2>2. PoolMagnitudes(p, f) = [k \in I |-> here(k)] /\ PoolMagnitudes(q, e) = [k \in I |-> there(k)]
    BY <1>1 DEF PoolMagnitudes
  <2>. HIDE DEF here, there
  <2>. QED
    BY <2>1, <2>2
<1>3. p = <<>> <=> q = <<>>
  <2>1. \A i \in D : i \in Int
    BY NumberedType
  <2>2. p \in [I -> Int] /\ q \in [I -> Int]
    BY <1>1, <2>1 DEF SamePlaces
  <2>3. (p = NoLimit <=> I = {}) /\ (q = NoLimit <=> I = {})
    BY <2>2, OfNothing
  <2>. QED
    BY <2>3 DEF NoLimit
<1>4. ASSUME NEW i \in D PROVE IndexIn(p, i) = IndexIn(q, b[i])
  <2>1. \A k \in I : p[k] = i <=> q[k] = b[i]
    BY <1>1 DEF Turns
  <2>. QED
    BY <1>1, <2>1 DEF IndexIn
<1>. QED
  BY <1>2, <1>3, <1>4 DEF SameIndex

\* The two sides put back on the entries, each on its own.
LEMMA EntriesOfReordered ==
    ASSUME NEW D, NEW b, Turns(b, D), NEW up, NEW down, NEW p, NEW q, NEW r, NEW s,
           NEW e \in [D -> Int], NEW f \in [D -> Int], Renames(f, e, b, D),
           SameIndex(p, q, D, b), SameIndex(r, s, D, b),
           NEW x, x = EntriesOf(up, down, q, s, e), NEW y, y = EntriesOf(up, down, p, r, f)
    PROVE  /\ y.error = x.error /\ DOMAIN x.effects = D /\ DOMAIN y.effects = D
           /\ \A i \in D : y.effects[i] = x.effects[b[i]]
<1>. DEFINE here(i) == CASE f[i] > 0 -> up.parts[IndexIn(p, i)]
                         [] f[i] < 0 -> -down.parts[IndexIn(r, i)]
                         [] OTHER -> 0
            there(i) == CASE e[i] > 0 -> up.parts[IndexIn(q, i)]
                          [] e[i] < 0 -> -down.parts[IndexIn(s, i)]
                          [] OTHER -> 0
<1>1. b \in [D -> D]
  BY DEF Turns
<1>2. \A i \in D : here(i) = there(b[i])
  <2>. SUFFICES ASSUME NEW i \in D PROVE here(i) = there(b[i])
    OBVIOUS
  <2>1. /\ f[i] = e[b[i]] /\ IndexIn(p, i) = IndexIn(q, b[i]) /\ IndexIn(r, i) = IndexIn(s, b[i])
        /\ b[i] \in D
    BY <1>1 DEF Renames, SameIndex
  <2>. QED
    BY <2>1
<1>3. x.effects = [i \in D |-> there(i)] /\ y.effects = [i \in D |-> here(i)] /\ y.error = x.error
  BY DEF EntriesOf
<1>. HIDE DEF here, there
<1>. QED
  BY <1>1, <1>2, <1>3

\* What each entry is settled to, in another order.
LEMMA ReconciledReordered ==
    ASSUME NEW D, NEW n, NEW b, NEW costs, NEW o, Reordered(o, costs, D, n, b),
           DifferentIds(costs, D), DifferentIds(o, D),
           NEW e \in [D -> Int], NEW f \in [D -> Int], Renames(f, e, b, D),
           NEW t, NEW x, x = ReconcileSettledEffects(costs, e, t),
           NEW y, y = ReconcileSettledEffects(o, f, t)
    PROVE  /\ y.error = x.error /\ \A i \in D : y.effects[i] = x.effects[b[i]]
<1>1. /\ DOMAIN o = D /\ DOMAIN costs = D /\ Turns(b, D) /\ Numbered(D, n)
      /\ \A i \in D : b[i] \in D
  BY ReorderedEach DEF Reordered, CostList
<1>2. PICK P : P = {i \in D : e[i] > 0}
  OBVIOUS
<1>3. PICK N : N = {i \in D : e[i] < 0}
  OBVIOUS
<1>4. PICK U : U = {i \in D : f[i] > 0}
  OBVIOUS
<1>5. PICK V : V = {i \in D : f[i] < 0}
  OBVIOUS
<1>6. /\ TurnsInto(U, P, b, D) /\ TurnsInto(V, N, b, D)
      /\ P \in SUBSET D /\ N \in SUBSET D /\ U \in SUBSET D /\ V \in SUBSET D
  BY <1>1, <1>2, <1>3, <1>4, <1>5 DEF TurnsInto, Renames
<1>7. PICK q : q = EffectPool(costs, P)
  OBVIOUS
<1>8. PICK s : s = EffectPool(costs, N)
  OBVIOUS
<1>9. PICK p : p = EffectPool(o, U)
  OBVIOUS
<1>10. PICK r : r = EffectPool(o, V)
  OBVIOUS
<1>11. /\ PoolMagnitudes(p, f) = PoolMagnitudes(q, e) /\ (p = <<>> <=> q = <<>>)
       /\ SameIndex(p, q, D, b)
  <2>1. PICK c, I : SamePlaces(p, q, U, P, b, c, I)
    BY <1>6, <1>7, <1>9, PoolReordered
  <2>. QED
    BY <1>1, <1>6, <2>1, PlacesReordered
<1>12. /\ PoolMagnitudes(r, f) = PoolMagnitudes(s, e) /\ (r = <<>> <=> s = <<>>)
       /\ SameIndex(r, s, D, b)
  <2>1. PICK c, I : SamePlaces(r, s, V, N, b, c, I)
    BY <1>6, <1>8, <1>10, PoolReordered
  <2>. QED
    BY <1>1, <1>6, <2>1, PlacesReordered
<1>13. PICK pm : pm = PoolMagnitudes(q, e)
  OBVIOUS
<1>14. PICK nm : nm = PoolMagnitudes(s, e)
  OBVIOUS
<1>15. PICK target : target = PoolTargets(t, Total(pm), Total(nm), q, s)
  OBVIOUS
<1>16. target = PoolTargets(t, Total(pm), Total(nm), p, r)
  BY <1>11, <1>12, <1>15 DEF PoolTargets
<1>17. x = SettlePools(target, q, s, e)
  BY <1>1, <1>2, <1>3, <1>7, <1>8, <1>13, <1>14, <1>15 DEF ReconcileSettledEffects
<1>18. y = SettlePools(target, p, r, f)
  <2>1. y = SettlePools(PoolTargets(t, Total(PoolMagnitudes(p, f)), Total(PoolMagnitudes(r, f)), p, r),
                        p, r, f)
    BY <1>1, <1>4, <1>5, <1>9, <1>10 DEF ReconcileSettledEffects
  <2>. QED
    BY <1>11, <1>12, <1>13, <1>14, <1>16, <2>1
<1>19. PICK up : up = SettleTotalAcrossParts(target.positive, pm)
  OBVIOUS
<1>20. PICK down : down = SettleTotalAcrossParts(target.negative, nm)
  OBVIOUS
<1>21. CASE target.positive < 0 \/ target.negative < 0
  <2>1. /\ x = [error |-> "SETTLEMENT_RECONCILIATION", effects |-> e]
        /\ y = [error |-> "SETTLEMENT_RECONCILIATION", effects |-> f]
    BY <1>17, <1>18, <1>21 DEF SettlePools
  <2>. QED
    BY <2>1 DEF Renames
<1>22. CASE ~(target.positive < 0 \/ target.negative < 0)
  <2>1. x = EntriesOf(up, down, q, s, e)
    BY <1>13, <1>14, <1>17, <1>19, <1>20, <1>22 DEF SettlePools
  <2>2. y = EntriesOf(up, down, p, r, f)
    BY <1>11, <1>12, <1>13, <1>14, <1>18, <1>19, <1>20, <1>22 DEF SettlePools
  <2>3. SameIndex(p, q, D, b) /\ SameIndex(r, s, D, b)
    BY <1>11, <1>12
  <2>4. /\ y.error = x.error /\ DOMAIN x.effects = D /\ DOMAIN y.effects = D
        /\ \A i \in D : y.effects[i] = x.effects[b[i]]
    BY <1>1, <2>1, <2>2, <2>3, EntriesOfReordered
  <2>. QED
    BY <2>4
<1>. QED
  BY <1>21, <1>22

\* The figures of one result are another's, each entry's under its other place.
SameFigures(d, c, D, b) ==
    /\ \A i \in D : /\ d.magnitudes[i] = c.magnitudes[b[i]] /\ d.effects[i] = c.effects[b[i]]
                    /\ d.settledEffects[i] = c.settledEffects[b[i]]
    /\ d.settledLanded = c.settledLanded /\ d.settledMerchandise = c.settledMerchandise

\* The figures calculated from two orders are the same, cost by cost.
LEMMA CalculatedReordered ==
    ASSUME NEW D, NEW n, NEW b, NEW costs, NEW o, Reordered(o, costs, D, n, b),
           NEW m, Ready(costs, D, n, m),
           NEW c, c = Calculated(m, costs), NEW d, d = Calculated(m, o)
    PROVE  SameFigures(d, c, D, b)
<1>1. Ready(o, D, n, m) /\ PercentageBases(m, o) = PercentageBases(m, costs)
  BY ReadyReordered
<1>2. PICK base : base = PercentageBases(m, costs)
  OBVIOUS
<1>3. PICK E : E = Entries(m, costs, base)
  OBVIOUS
<1>4. PICK F : F = Entries(m, o, base)
  OBVIOUS
<1>5. EntriesSay(E, costs, D, m, base)
  BY <1>2, <1>3, EntriesOfReady
<1>6. EntriesSay(F, o, D, m, base)
  <2>1. base = PercentageBases(m, o) /\ Ready(o, D, n, m)
    BY <1>1, <1>2
  <2>. QED
    BY <1>4, <2>1, EntriesOfReady
<1>7. /\ \A i \in D : /\ F.magnitudes[i] = E.magnitudes[b[i]]
                      /\ F.effects[i] = E.effects[b[i]]
      /\ F.landed = E.landed /\ F.bases = E.bases
      /\ F.settledMerchandise = E.settledMerchandise /\ F.settledLanded = E.settledLanded
  BY <1>5, <1>6, EntriesReordered
<1>8. PICK e : e = E.effects
  OBVIOUS
<1>9. PICK f : f = F.effects
  OBVIOUS
<1>10. PICK t : t = E.settledLanded - E.settledMerchandise
  OBVIOUS
<1>11. PICK x : x = ReconcileSettledEffects(costs, e, t)
  OBVIOUS
<1>12. PICK y : y = ReconcileSettledEffects(o, f, t)
  OBVIOUS
<1>13. y.error = x.error /\ \A i \in D : y.effects[i] = x.effects[b[i]]
  <2>1. e \in [D -> Int] /\ f \in [D -> Int]
    BY <1>5, <1>6, <1>8, <1>9 DEF EntriesSay
  <2>2. Renames(f, e, b, D)
    BY <1>7, <1>8, <1>9 DEF Renames
  <2>3. DifferentIds(costs, D) /\ DifferentIds(o, D)
    BY <1>1 DEF Ready
  <2>. QED
    BY <1>11, <1>12, <2>1, <2>2, <2>3, ReconciledReordered
<1>14. /\ c.magnitudes = E.magnitudes /\ c.effects = E.effects /\ c.settledLanded = E.settledLanded
       /\ c.settledMerchandise = E.settledMerchandise /\ c.settledEffects = x.effects
  <2>1. E = Entries(m, costs, PercentageBases(m, costs))
    BY <1>2, <1>3
  <2>2. LET r == ReconcileSettledEffects(costs, E.effects, E.settledLanded - E.settledMerchandise)
        IN /\ c.bases = E.bases /\ c.magnitudes = E.magnitudes /\ c.effects = E.effects
           /\ c.landed = E.landed /\ c.settledMerchandise = E.settledMerchandise
           /\ c.settledLanded = E.settledLanded /\ c.settledEffects = r.effects
           /\ c.error = IF /\ r.error = "NONE"
                           /\ ~(E.settledMerchandise + Total(r.effects) = E.settledLanded)
                        THEN "SETTLEMENT_RECONCILIATION" ELSE r.error
    BY <2>1, CalculatedKeeps
  <2>. QED
    BY <1>8, <1>10, <1>11, <2>2
<1>15. /\ d.magnitudes = F.magnitudes /\ d.effects = F.effects /\ d.settledLanded = F.settledLanded
       /\ d.settledMerchandise = F.settledMerchandise /\ d.settledEffects = y.effects
  <2>1. F = Entries(m, o, PercentageBases(m, o))
    BY <1>1, <1>2, <1>4
  <2>2. LET r == ReconcileSettledEffects(o, F.effects, F.settledLanded - F.settledMerchandise)
        IN /\ d.bases = F.bases /\ d.magnitudes = F.magnitudes /\ d.effects = F.effects
           /\ d.landed = F.landed /\ d.settledMerchandise = F.settledMerchandise
           /\ d.settledLanded = F.settledLanded /\ d.settledEffects = r.effects
           /\ d.error = IF /\ r.error = "NONE"
                           /\ ~(F.settledMerchandise + Total(r.effects) = F.settledLanded)
                        THEN "SETTLEMENT_RECONCILIATION" ELSE r.error
    BY <2>1, CalculatedKeeps
  <2>. QED
    BY <1>7, <1>9, <1>10, <1>12, <2>2
<1>. QED
  BY <1>7, <1>13, <1>14, <1>15 DEF SameFigures

\* Every share that is taken of the lines has a defensible split.
AllWeigh(costs, T, lines) == \A i \in T : WeightingError(lines, costs[i].method) = "NONE"

\* The same amounts, each under its other place.
LEMMA LineGivesUpTheSame ==
    ASSUME NEW D, IsFiniteSet(D), NEW lines, Carries(lines, D),
           NEW F, NEW n, NEW b, NEW costs, NEW o, Reordered(o, costs, F, n, b),
           NEW S, NEW T, TurnsInto(S, T, b, F), AllWeigh(costs, T, lines),
           NEW x \in [F -> Int], NEW y \in [F -> Int], Renames(y, x, b, F), NEW l \in D
    PROVE  DiscountOnLine(S, y, o, lines, l) = DiscountOnLine(T, x, costs, lines, l)
<1>1. /\ b \in [F -> F] /\ \A i \in F : o[i] = costs[b[i]] /\ b[i] \in F /\ costs[i] \in Cost
  BY ReorderedEach
<1>2. T \in SUBSET F /\ S \in SUBSET F /\ (\A i \in S : b[i] \in T) /\ \A i \in F : y[i] = x[b[i]]
  BY DEF TurnsInto, Renames
<1>. DEFINE there(i) == ExactShares(Magnitude(x[i]), Weights(lines, costs[i].method))[l]
            here(i) == ExactShares(Magnitude(y[i]), Weights(lines, o[i].method))[l]
<1>3. \A i \in T : there(i) \in Int
  <2>. SUFFICES ASSUME NEW i \in T PROVE there(i) \in Int
    OBVIOUS
  <2>1. costs[i].method \in Methods /\ WeightingError(lines, costs[i].method) = "NONE"
    BY <1>1, <1>2 DEF Cost, AllWeigh
  <2>2. PICK method : method = costs[i].method
    OBVIOUS
  <2>3. PICK w : w = Weights(lines, method)
    OBVIOUS
  <2>4. Weighting(w, D)
    BY <2>1, <2>2, <2>3, WeightsType
  <2>5. PICK a \in Nat : a = Magnitude(x[i])
    <3>1. x[i] \in Int
      BY <1>2
    <3>. QED
      BY <3>1 DEF Magnitude
  <2>6. PICK s : s = ExactShares(a, w)
    OBVIOUS
  <2>7. s \in [D -> Int]
    BY <2>4, <2>6, SharesOf
  <2>. QED
    BY <2>2, <2>3, <2>5, <2>6, <2>7
<1>4. \A i \in S : here(i) = there(b[i])
  BY <1>1, <1>2
<1>5. /\ DiscountOnLine(T, x, costs, lines, l) = Total([i \in T |-> there(i)])
      /\ DiscountOnLine(S, y, o, lines, l) = Total([i \in S |-> here(i)])
  BY DEF DiscountOnLine
<1>. HIDE DEF here, there
<1>6. PICK g : g = [i \in T |-> there(i)]
  OBVIOUS
<1>7. PICK f : f = [i \in S |-> here(i)]
  OBVIOUS
<1>8. Turns(b, F)
  BY DEF Reordered
<1>9. Whole(g, T)
  <2>1. IsFiniteSet(T)
    BY <1>8, TurnedPart
  <2>. QED
    BY <1>3, <1>6, <2>1 DEF Whole
<1>10. Renames(f, g, b, S)
  BY <1>2, <1>4, <1>6, <1>7 DEF Renames
<1>11. SumOn(f, S) = SumOn(g, T)
  BY <1>8, <1>9, <1>10, SumTurned
<1>12. DOMAIN f = S /\ DOMAIN g = T
  BY <1>6, <1>7
<1>. QED
  BY <1>5, <1>6, <1>7, <1>11, <1>12, TotalIsSum

\* Discounts that fit the lines in one order fit them in another.
LEMMA FitsReordered ==
    ASSUME NEW D, IsFiniteSet(D), NEW lines, Carries(lines, D),
           NEW F, NEW n, NEW b, NEW costs, NEW o, Reordered(o, costs, F, n, b),
           NEW S, NEW T, TurnsInto(S, T, b, F), AllWeigh(costs, T, lines),
           NEW x \in [F -> Int], NEW y \in [F -> Int], Renames(y, x, b, F),
           DiscountsFitEachLine(T, x, costs, lines)
    PROVE  DiscountsFitEachLine(S, y, o, lines)
<1>1. DOMAIN lines = D
  BY DEF Carries
<1>2. \A l \in D : DiscountOnLine(S, y, o, lines, l) = DiscountOnLine(T, x, costs, lines, l)
  <2>. TAKE l \in D
  <2>. QED
    BY LineGivesUpTheSame
<1>. QED
  BY <1>1, <1>2 DEF DiscountsFitEachLine

\* The figures two calculations go by.
Figures(c, F) ==
    /\ c.magnitudes \in [F -> Int] /\ c.effects \in [F -> Int] /\ c.settledEffects \in [F -> Int]

\* Discounts that fit every line do so in another order.
LEMMA DiscountsPassReordered ==
    ASSUME NEW D, IsFiniteSet(D), NEW lines, Carries(lines, D),
           NEW F, NEW n, NEW b, NEW costs, NEW o, Reordered(o, costs, F, n, b),
           NEW c, NEW d, Figures(c, F), Figures(d, F), SameFigures(d, c, F, b),
           DiscountError(costs, c, lines) = "NONE"
    PROVE  DiscountError(o, d, lines) = "NONE"
<1>1. /\ DOMAIN o = F /\ DOMAIN costs = F /\ b \in [F -> F]
      /\ \A i \in F : o[i] = costs[b[i]] /\ b[i] \in F
  BY ReorderedEach
<1>2. PICK T : T = LineDiscounts(costs, c)
  OBVIOUS
<1>3. PICK S : S = LineDiscounts(o, d)
  OBVIOUS
<1>4. PICK x : x = c.magnitudes
  OBVIOUS
<1>5. PICK y : y = d.magnitudes
  OBVIOUS
<1>6. x \in [F -> Int] /\ y \in [F -> Int] /\ Renames(y, x, b, F)
  BY <1>4, <1>5 DEF Figures, SameFigures, Renames
<1>7. TurnsInto(S, T, b, F)
  BY <1>1, <1>2, <1>3, <1>4, <1>5, <1>6 DEF TurnsInto, LineDiscounts, Renames
<1>8. AllWeigh(costs, T, lines) /\ DiscountsFitEachLine(T, x, costs, lines)
  BY <1>2, <1>4 DEF DiscountError, AllWeigh
<1>9. DiscountsFitEachLine(S, y, o, lines)
  BY <1>6, <1>7, <1>8, FitsReordered
<1>10. \A i \in S : WeightingError(lines, o[i].method) = "NONE"
  <2>. SUFFICES ASSUME NEW i \in S PROVE WeightingError(lines, o[i].method) = "NONE"
    OBVIOUS
  <2>1. i \in F /\ b[i] \in T
    BY <1>7 DEF TurnsInto
  <2>. QED
    BY <1>1, <1>8, <2>1 DEF AllWeigh
<1>. QED
  BY <1>3, <1>5, <1>9, <1>10 DEF DiscountError

\* The costs put on the lines, in the same order.
LEMMA OrderReordered ==
    ASSUME NEW F, NEW f, NEW b, NEW costs, NEW o, Reordered(o, costs, F, f, b),
           DifferentIds(costs, F), DifferentIds(o, F),
           NEW S, Partakes(S, o, F), NEW T, Partakes(T, costs, F),
           NEW p, p = SettlementOrder(o), NEW q, q = SettlementOrder(costs)
    PROVE  TurnsInto(S, T, b, F) /\ \E k, I : SamePlaces(p, q, S, T, b, k, I)
<1>1. /\ CostList(o, F, f) /\ CostList(costs, F, f) /\ Turns(b, F)
      /\ \A i \in F : o[i] = costs[b[i]] /\ b[i] \in F
  BY ReorderedEach DEF Reordered
<1>2. TurnsInto(S, T, b, F)
  BY <1>1 DEF TurnsInto, Partakes
<1>3. PICK side, id : /\ Sided(side, id, costs, T)
                      /\ StrictlyOrders(SideBefore(side, id, T), T)
                      /\ Arranges(q, T, SideBefore(side, id, T))
  BY <1>1, SidesArranged
<1>4. PICK sideO, idO : /\ Sided(sideO, idO, o, S)
                        /\ StrictlyOrders(SideBefore(sideO, idO, S), S)
                        /\ Arranges(p, S, SideBefore(sideO, idO, S))
  BY <1>1, SidesArranged
<1>5. PICK R : R = SideBefore(side, id, T)
  OBVIOUS
<1>6. PICK Q : Q = SideBefore(sideO, idO, S)
  OBVIOUS
<1>7. \A i \in S : b[i] \in T /\ o[i] = costs[b[i]]
  BY <1>1, <1>2 DEF TurnsInto
<1>8. \A i \in S : sideO[i] = side[b[i]] /\ idO[i] = id[b[i]]
  <2>. SUFFICES ASSUME NEW i \in S PROVE sideO[i] = side[b[i]] /\ idO[i] = id[b[i]]
    OBVIOUS
  <2>1. b[i] \in T /\ o[i] = costs[b[i]]
    BY <1>7
  <2>2. /\ sideO[i] \in {0, 1} /\ side[b[i]] \in {0, 1}
        /\ o[i].kind = "DISCOUNT" <=> sideO[i] = 1
        /\ costs[b[i]].kind = "DISCOUNT" <=> side[b[i]] = 1
        /\ idO[i] = o[i].id /\ id[b[i]] = costs[b[i]].id
    BY <1>3, <1>4, <2>1 DEF Sided
  <2>. QED
    BY <2>1, <2>2
<1>9. \A i, j \in S : <<i, j>> \in Q => <<b[i], b[j]>> \in R
  BY <1>5, <1>6, <1>7, <1>8 DEF SideBefore
<1>10. /\ StrictlyOrders(R, T) /\ Arranges(q, T, R) /\ StrictlyOrders(Q, S) /\ Arranges(p, S, Q)
  BY <1>3, <1>4, <1>5, <1>6
<1>11. /\ Cardinality(S) = Cardinality(T) /\ Cardinality(S) \in Nat
       /\ q \in [1 .. Cardinality(S) -> T] /\ p \in [1 .. Cardinality(S) -> S]
       /\ \A k \in 1 .. Cardinality(S) : q[k] = b[p[k]]
  <2>. HIDE DEF Arranges, StrictlyOrders
  <2>. QED
    BY <1>1, <1>2, <1>9, <1>10, OrderTurned
<1>12. SamePlaces(p, q, S, T, b, Cardinality(S), 1 .. Cardinality(S))
  BY <1>11 DEF SamePlaces
<1>. QED
  BY <1>2, <1>12

\* The lines are open with the same.
LEMMA OpenReordered ==
    ASSUME NEW F, NEW f, NEW b, NEW costs, NEW o, Reordered(o, costs, F, f, b),
           NEW c, NEW d, SameFigures(d, c, F, b), NEW lines
    PROVE  OpenLineCapacity(o, d, lines) = OpenLineCapacity(costs, c, lines)
<1>1. /\ DOMAIN o = F /\ DOMAIN costs = F
      /\ \A i \in F : o[i] = costs[b[i]] /\ b[i] \in F
      /\ \A j \in F : \E i \in F : b[i] = j
  BY ReorderedEach
<1>2. /\ \A i \in F : d.settledEffects[i] = c.settledEffects[b[i]]
      /\ d.settledMerchandise = c.settledMerchandise
  BY DEF SameFigures
<1>3. (\E i \in F : o[i].kind = "DISCOUNT" /\ d.settledEffects[i] # 0)
        <=> \E i \in F : costs[i].kind = "DISCOUNT" /\ c.settledEffects[i] # 0
  <2>1. ASSUME NEW i \in F, o[i].kind = "DISCOUNT", d.settledEffects[i] # 0
        PROVE  \E j \in F : costs[j].kind = "DISCOUNT" /\ c.settledEffects[j] # 0
    <3>1. b[i] \in F /\ costs[b[i]].kind = "DISCOUNT" /\ c.settledEffects[b[i]] # 0
      BY <1>1, <1>2, <2>1
    <3>. QED
      BY <3>1
  <2>2. ASSUME NEW j \in F, costs[j].kind = "DISCOUNT", c.settledEffects[j] # 0
        PROVE  \E i \in F : o[i].kind = "DISCOUNT" /\ d.settledEffects[i] # 0
    <3>1. PICK i \in F : b[i] = j
      BY <1>1
    <3>. QED
      BY <1>1, <1>2, <2>2, <3>1
  <2>. QED
    BY <2>1, <2>2
<1>. QED
  BY <1>1, <1>2, <1>3 DEF OpenLineCapacity

\* An entry is put on the lines as its other is.
LEMMA EntryReordered ==
    ASSUME NEW F, NEW f, NEW b, NEW costs, NEW o, Reordered(o, costs, F, f, b),
           NEW c, NEW d, SameFigures(d, c, F, b), NEW lines, NEW v, NEW i \in F
    PROVE  AllocateEntry(v, i, o, d, lines) = AllocateEntry(v, b[i], costs, c, lines)
<1>1. o[i] = costs[b[i]]
  BY ReorderedEach
<1>2. d.effects[i] = c.effects[b[i]] /\ d.settledEffects[i] = c.settledEffects[b[i]]
  BY DEF SameFigures
<1>. QED
  BY <1>1, <1>2 DEF AllocateEntry

\* The ledger the lines are opened with.
LEMMA OpensALedger ==
    ASSUME NEW D, NEW n, Numbered(D, n), NEW lines, Carries(lines, D),
           NEW F, NEW costs, NEW result, NEW open, OpensWith(open, costs, result, F, D)
    PROVE  Opening(open, lines) \in Ledgers(D)
<1>1. PICK z : z = [l \in D |-> 0]
  OBVIOUS
<1>2. z \in [D -> Int]
  BY <1>1
<1>3. /\ Opening(open, lines) = [error |-> "NONE", byLine |-> z, capacity |-> open.parts]
      /\ open.parts \in [D -> Int] \cup {NoLimit} /\ Room(open.parts, D)
  BY <1>1 DEF Opening, OpensWith, Carries
<1>. QED
  BY <1>2, <1>3 DEF Ledgers, AllocationErrors

\* Every entry that is put on the lines fits them.
LEMMA PartakersFit ==
    ASSUME NEW F, NEW f, NEW costs, CostList(costs, F, f), NEW m, NEW result,
           CalculationFits(result, costs, F, m), NEW C, Partakes(C, costs, F)
    PROVE  AllFit(C, costs, result)
<1>. SUFFICES ASSUME NEW i \in C PROVE EntryFits(costs, result, i)
  BY DEF AllFit
<1>1. i \in F /\ costs \in [F -> Cost]
  BY DEF Partakes, CostList
<1>2. EntryFits(costs, result, i) /\ result.settledEffects[i] \in Int
  BY <1>1, EntriesFit
<1>. QED
  BY <1>2

\* What the costs put on the lines is the same, whatever their order.
LEMMA AllocationReordered ==
    ASSUME NEW D, NEW n, Numbered(D, n), FewParts(n), NEW lines, Carries(lines, D),
           NEW F, NEW f, NEW b, NEW costs, NEW o, Reordered(o, costs, F, f, b),
           DifferentIds(costs, F), DifferentIds(o, F), NEW m,
           NEW c, CalculationFits(c, costs, F, m), NEW d, CalculationFits(d, o, F, m),
           SameFigures(d, c, F, b), NEW open, OpensWith(open, costs, c, F, D)
    PROVE  AllocateInOrder(open, o, d, lines) = AllocateInOrder(open, costs, c, lines)
<1>1. PICK S : Partakes(S, o, F)
  BY DEF Partakes
<1>2. PICK T : Partakes(T, costs, F)
  BY DEF Partakes
<1>3. PICK p : p = SettlementOrder(o)
  OBVIOUS
<1>4. PICK q : q = SettlementOrder(costs)
  OBVIOUS
<1>5. PICK k, I : SamePlaces(p, q, S, T, b, k, I)
  BY <1>1, <1>2, <1>3, <1>4, OrderReordered
<1>6. /\ k \in Nat /\ p \in [1 .. k -> S] /\ q \in [1 .. k -> T]
      /\ \A x \in 1 .. k : q[x] = b[p[x]] /\ p[x] \in F
  BY <1>1, <1>5 DEF SamePlaces, Partakes
<1>7. PICK base : base = Opening(open, lines)
  OBVIOUS
<1>8. base \in Ledgers(D)
  BY <1>7, OpensALedger
<1>9. AllFit(S, o, d) /\ AllFit(T, costs, c)
  <2>1. CostList(o, F, f) /\ CostList(costs, F, f)
    BY DEF Reordered
  <2>. QED
    BY <1>1, <1>2, <2>1, PartakersFit
<1>10. PICK a : /\ LedgerRuns(a, base, q, k, costs, c, lines)
                /\ AllocateInOrder(open, costs, c, lines) = a[k]
  BY <1>4, <1>6, <1>7, <1>8, <1>9, AllocationRuns
<1>11. PICK e : /\ LedgerRuns(e, base, p, k, o, d, lines)
                /\ AllocateInOrder(open, o, d, lines) = e[k]
  BY <1>3, <1>6, <1>7, <1>8, <1>9, AllocationRuns
<1>. DEFINE P == {x \in Nat : x <= k => e[x] = a[x]}
<1>12. 0 \in P
  BY <1>10, <1>11 DEF LedgerRuns
<1>13. ASSUME NEW x \in Nat, x \in P PROVE x + 1 \in P
  <2>. SUFFICES ASSUME x + 1 <= k PROVE e[x + 1] = a[x + 1]
    OBVIOUS
  <2>1. PICK y : y = x + 1
    OBVIOUS
  <2>2. y \in 1 .. k /\ y - 1 = x /\ x <= k
    BY <1>6, <2>1
  <2>3. /\ a[y] = AllocateEntry(a[y - 1], q[y], costs, c, lines)
        /\ e[y] = AllocateEntry(e[y - 1], p[y], o, d, lines)
    BY <1>10, <1>11, <2>2 DEF LedgerRuns
  <2>4. e[y - 1] = a[y - 1]
    BY <1>13, <2>2
  <2>5. p[y] \in F /\ q[y] = b[p[y]]
    BY <1>6, <2>2
  <2>6. AllocateEntry(e[y - 1], p[y], o, d, lines) = AllocateEntry(e[y - 1], b[p[y]], costs, c, lines)
    BY <2>5, EntryReordered
  <2>. QED
    BY <2>1, <2>3, <2>4, <2>5, <2>6
<1>14. \A x \in Nat : x \in P => x + 1 \in P
  BY <1>13
<1>15. k \in P
  <2>. HIDE DEF P
  <2>. QED
    BY <1>6, <1>12, <1>14, Counting
<1>. QED
  BY <1>6, <1>10, <1>11, <1>15

\* An entry that is put on the lines has a defensible split, and those before
\* it were put on them.
LEMMA EntryWeighs ==
    ASSUME NEW D, NEW lines, NEW costs, NEW result, NEW i, NEW v \in Ledgers(D),
           NEW e, e = AllocateEntry(v, i, costs, result, lines), e.error = "NONE"
    PROVE  v.error = "NONE" /\ WeightingError(lines, costs[i].method) = "NONE"
<1>1. v.error = "NONE"
  BY DEF AllocateEntry
<1>2. PICK cap : cap = IF costs[i].kind = "DISCOUNT" THEN v.capacity ELSE NoLimit
  OBVIOUS
<1>3. PICK s : s = AllocateAmount(result.effects[i], lines, costs[i].method,
                                  result.settledEffects[i], cap)
  OBVIOUS
<1>4. e = PutOnLines(v, s)
  BY <1>1, <1>2, <1>3 DEF AllocateEntry
<1>5. s.error = "NONE"
  <2>. SUFFICES ASSUME s.error # "NONE" PROVE FALSE
    OBVIOUS
  <2>1. e = [v EXCEPT !.error = s.error]
    BY <1>4 DEF PutOnLines
  <2>2. v = [error |-> v.error, byLine |-> v.byLine, capacity |-> v.capacity]
    BY DEF Ledgers
  <2>3. e.error = s.error
    BY <2>1, <2>2
  <2>. QED
    BY <2>3
<1>6. ASSUME WeightingError(lines, costs[i].method) # "NONE"
      PROVE  s.error = WeightingError(lines, costs[i].method)
  BY <1>3, <1>6 DEF AllocateAmount
<1>. QED
  BY <1>1, <1>5, <1>6

\* When all are put on the lines, each has a defensible split.
LEMMA AllocatedWeigh ==
    ASSUME NEW D, NEW n, Numbered(D, n), FewParts(n), NEW lines, Carries(lines, D),
           NEW F, NEW f, NEW costs, CostList(costs, F, f), DifferentIds(costs, F), NEW m,
           NEW c, CalculationFits(c, costs, F, m), NEW open, OpensWith(open, costs, c, F, D),
           NEW T, Partakes(T, costs, F), AllocateInOrder(open, costs, c, lines).error = "NONE"
    PROVE  AllWeigh(costs, T, lines)
<1>1. PICK q : q = SettlementOrder(costs)
  OBVIOUS
<1>2. PICK k : k = Cardinality(T)
  OBVIOUS
<1>3. PICK I : I = 1 .. k
  OBVIOUS
<1>4. Settling(q, costs, F, T, I, k)
  BY <1>1, <1>2, <1>3, SettlesInOrder
<1>5. k \in Nat /\ q \in [1 .. k -> T] /\ \A i \in T : \E x \in 1 .. k : q[x] = i
  BY <1>4 DEF Settling
<1>6. PICK base : base = Opening(open, lines)
  OBVIOUS
<1>7. base \in Ledgers(D)
  BY <1>6, OpensALedger
<1>8. AllFit(T, costs, c)
  BY PartakersFit
<1>9. PICK a : /\ LedgerRuns(a, base, q, k, costs, c, lines)
               /\ AllocateInOrder(open, costs, c, lines) = a[k]
  BY <1>1, <1>5, <1>6, <1>7, <1>8, AllocationRuns
<1>. DEFINE weighs(x) == WeightingError(lines, costs[q[x]].method) = "NONE"
            P == {x \in Nat : x <= k => /\ a[x] \in Ledgers(D)
                                        /\ a[x].error = "NONE" => \A y \in 1 .. x : weighs(y)}
<1>10. 0 \in P
  BY <1>7, <1>9 DEF LedgerRuns
<1>11. ASSUME NEW x \in Nat, x \in P PROVE x + 1 \in P
  <2>. SUFFICES ASSUME x + 1 <= k
                PROVE  /\ a[x + 1] \in Ledgers(D)
                       /\ a[x + 1].error = "NONE" => \A z \in 1 .. x + 1 : weighs(z)
    OBVIOUS
  <2>1. PICK y : y = x + 1
    OBVIOUS
  <2>2. y \in 1 .. k /\ y - 1 = x /\ x <= k
    BY <1>5, <2>1
  <2>3. PICK v : v = a[y - 1]
    OBVIOUS
  <2>4. v \in Ledgers(D) /\ (v.error = "NONE" => \A z \in 1 .. x : weighs(z))
    BY <1>11, <2>2, <2>3
  <2>5. PICK i \in T : i = q[y]
    BY <1>5, <2>2
  <2>6. PICK e : e = a[y]
    OBVIOUS
  <2>7. e = AllocateEntry(v, i, costs, c, lines)
    BY <1>9, <2>2, <2>3, <2>5, <2>6 DEF LedgerRuns
  <2>8. e \in Ledgers(D)
    <3>1. EntryFits(costs, c, i)
      BY <1>8 DEF AllFit
    <3>. QED
      BY <2>4, <2>7, <3>1, AllocateEntryKeeps
  <2>9. e.error = "NONE" => v.error = "NONE" /\ weighs(y)
    BY <2>4, <2>5, <2>7, EntryWeighs
  <2>10. \A z \in 1 .. y : z \in 1 .. x \/ z = y
    BY <2>1
  <2>. HIDE DEF weighs
  <2>. QED
    BY <2>1, <2>4, <2>6, <2>8, <2>9, <2>10
<1>12. \A x \in Nat : x \in P => x + 1 \in P
  BY <1>11
<1>13. k \in P
  <2>. HIDE DEF P
  <2>. QED
    BY <1>5, <1>10, <1>12, Counting
<1>14. \A y \in 1 .. k : weighs(y)
  BY <1>5, <1>9, <1>13
<1>. QED
  BY <1>5, <1>14 DEF AllWeigh

\* The discounts that are compared, checked against the lines once more.
LEMMA CheckedReordered ==
    ASSUME NEW D, NEW n, Numbered(D, n), FewParts(n), NEW lines, Carries(lines, D),
           NEW F, NEW f, NEW b, NEW costs, NEW o, Reordered(o, costs, F, f, b),
           DifferentIds(costs, F), DifferentIds(o, F), NEW m,
           NEW c, CalculationFits(c, costs, F, m), NEW d, CalculationFits(d, o, F, m),
           SameFigures(d, c, F, b), NEW open, OpensWith(open, costs, c, F, D),
           NEW v, v = AllocateInOrder(open, costs, c, lines),
           CheckedAgainstLines(v, costs, c, lines) = v
    PROVE  CheckedAgainstLines(v, o, d, lines) = v
<1>1. /\ DOMAIN o = F /\ DOMAIN costs = F
      /\ \A i \in F : o[i] = costs[b[i]] /\ b[i] \in F
  BY ReorderedEach
<1>2. PICK T : T = {i \in F : Contributes(costs[i]) /\ costs[i].kind = "DISCOUNT"}
  OBVIOUS
<1>3. PICK S : S = {i \in F : Contributes(o[i]) /\ o[i].kind = "DISCOUNT"}
  OBVIOUS
<1>4. TurnsInto(S, T, b, F)
  BY <1>1, <1>2, <1>3 DEF TurnsInto
<1>5. CASE v.error # "NONE"
  BY <1>5 DEF CheckedAgainstLines
<1>6. CASE v.error = "NONE"
  <2>1. v \in Ledgers(D)
    <3>1. CostList(costs, F, f)
      BY DEF Reordered
    <3>2. Placed(v, c, D, open)
      BY <3>1, AllPlaced
    <3>. QED
      BY <3>2 DEF Placed
  <2>2. [v EXCEPT !.error = "INVALID_DISCOUNT"].error = "INVALID_DISCOUNT"
    <3>1. v = [error |-> v.error, byLine |-> v.byLine, capacity |-> v.capacity]
      BY <2>1 DEF Ledgers
    <3>. QED
      BY <3>1
  <2>3. PICK x : x = c.effects
    OBVIOUS
  <2>4. PICK y : y = d.effects
    OBVIOUS
  <2>5. DiscountsFitEachLine(T, x, costs, lines)
    <3>. SUFFICES ASSUME ~DiscountsFitEachLine(T, x, costs, lines) PROVE FALSE
      OBVIOUS
    <3>1. CheckedAgainstLines(v, costs, c, lines) = [v EXCEPT !.error = "INVALID_DISCOUNT"]
      BY <1>1, <1>2, <1>6, <2>3 DEF CheckedAgainstLines
    <3>. QED
      BY <1>6, <2>2, <3>1
  <2>6. AllWeigh(costs, T, lines)
    <3>1. PICK A : Partakes(A, costs, F)
      BY DEF Partakes
    <3>2. CostList(costs, F, f)
      BY DEF Reordered
    <3>3. AllWeigh(costs, A, lines)
      BY <1>6, <3>1, <3>2, AllocatedWeigh
    <3>4. T \in SUBSET A
      BY <1>2, <3>1 DEF Partakes
    <3>. QED
      BY <3>3, <3>4 DEF AllWeigh
  <2>7. x \in [F -> Int] /\ y \in [F -> Int] /\ Renames(y, x, b, F)
    BY <2>3, <2>4 DEF CalculationFits, SameFigures, Renames
  <2>8. DiscountsFitEachLine(S, y, o, lines)
    <3>1. IsFiniteSet(D)
      BY NumberedType
    <3>. QED
      BY <1>4, <2>5, <2>6, <2>7, <3>1, FitsReordered
  <2>. QED
    BY <1>1, <1>3, <1>6, <2>4, <2>8 DEF CheckedAgainstLines
<1>. QED
  BY <1>5, <1>6

\* What a supplier is evaluated to in one order is what it is in another.
SameEvaluation(g, e, F, b) ==
    /\ g.status = "COMPLETE" /\ g.rankingAmount = e.rankingAmount
    /\ g.landedLines = e.landedLines
    /\ SameFigures(g.result, e.result, F, b) /\ Figures(g.result, F) /\ Figures(e.result, F)

\* A supplier that is complete had every discount fit its lines.
LEMMA CompletedFits ==
    ASSUME NEW D, NEW lines, NEW costs, NEW c, NEW v \in Ledgers(D), NEW settled,
           NEW given, given = CheckedAgainstLines(v, costs, c, lines),
           Completed(lines, c, settled, given).status = "COMPLETE"
    PROVE  given = v
<1>. SUFFICES ASSUME given # v PROVE FALSE
  OBVIOUS
<1>1. given = [v EXCEPT !.error = "INVALID_DISCOUNT"]
  BY DEF CheckedAgainstLines
<1>2. v = [error |-> v.error, byLine |-> v.byLine, capacity |-> v.capacity]
  BY DEF Ledgers
<1>3. given.error = "INVALID_DISCOUNT"
  BY <1>1, <1>2
<1>4. CompletionError(settled, LandedLines(settled.parts, given), given, c) = "INVALID_DISCOUNT"
  BY <1>3 DEF CompletionError, UnusableWeightings
<1>5. Completed(lines, c, settled, given) = Failed("INVALID_DISCOUNT")
  BY <1>4 DEF Completed
<1>. QED
  BY <1>5 DEF Failed, ExpectedErrors, Invalid

\* A refusal is not complete.
LEMMA FailedIsNotComplete == \A error : Failed(error).status # "COMPLETE"
  BY DEF Failed, Invalid, Thrown

\* What the lines and the costs come to is the same, whatever the order of the
\* costs.
LEMMA EvaluationReordered ==
    ASSUME NEW D, NEW n, Numbered(D, n), FewParts(n), NEW lines, NEW m, Worth(lines, D, m),
           NEW F, NEW f, NEW b, NEW costs, NEW o, Reordered(o, costs, F, f, b),
           NEW e, e = CalculateAndAllocate(lines, costs), e.status = "COMPLETE",
           NEW g, g = CalculateAndAllocate(lines, o)
    PROVE  SameEvaluation(g, e, F, b)
<1>1. DOMAIN lines = D /\ IsFiniteSet(D) /\ (\A l \in D : lines[l].baseValue \in Nat)
      /\ Carries(lines, D)
  BY NumberedType DEF Worth, Carries
<1>2. m \in Int /\ Total([l \in DOMAIN lines |-> lines[l].baseValue]) = m
  <2>1. PICK x : x = [l \in D |-> lines[l].baseValue]
    OBVIOUS
  <2>2. Parts(x, D)
    <3>1. x \in [D -> Int] /\ \A l \in D : x[l] >= 0
      BY <1>1, <2>1
    <3>. QED
      BY <1>1, <3>1 DEF Parts
  <2>3. SumOn(x, D) \in Int /\ Total(x) = SumOn(x, D)
    BY <2>2, PartsAddUp
  <2>. QED
    BY <1>1, <2>1, <2>3 DEF Worth
<1>3. CostList(costs, F, f) /\ CostList(o, F, f)
  BY DEF Reordered
<1>4. PICK r : r = CalculateSupplierCosts(m, costs)
  OBVIOUS
<1>5. e = AllocateAndComplete(lines, costs, r)
  BY <1>2, <1>4 DEF CalculateAndAllocate
<1>6. InputError(m, costs) = "NONE"
  <2>. SUFFICES ASSUME InputError(m, costs) # "NONE" PROVE FALSE
    OBVIOUS
  <2>1. r.error = InputError(m, costs)
    BY <1>4 DEF CalculateSupplierCosts
  <2>2. e = Failed(r.error)
    BY <1>5, <2>1 DEF AllocateAndComplete
  <2>. QED
    BY <2>2, FailedIsNotComplete
<1>7. Ready(costs, F, f, m)
  BY <1>2, <1>3, <1>6, AcceptedAreReady
<1>8. Ready(o, F, f, m) /\ InputError(m, o) = "NONE"
  BY <1>6, <1>7, ReadyReordered, AcceptedReordered
<1>9. PICK c : c = Calculated(m, costs)
  OBVIOUS
<1>10. PICK d : d = Calculated(m, o)
  OBVIOUS
<1>11. CalculationFits(c, costs, F, m) /\ CalculationFits(d, o, F, m)
  BY <1>7, <1>8, <1>9, <1>10, CalculatedFits
<1>12. SameFigures(d, c, F, b)
  BY <1>7, <1>9, <1>10, CalculatedReordered
<1>13. Figures(c, F) /\ Figures(d, F) /\ c.error = "NONE" /\ d.error = "NONE"
  BY <1>11 DEF CalculationFits, KeepsSides, Figures
<1>14. DifferentIds(costs, F) /\ DifferentIds(o, F)
  BY <1>7, <1>8 DEF Ready
<1>15. e = AllocateAndComplete(lines, costs, c) /\ g = AllocateAndComplete(lines, o, d)
  <2>1. r = c /\ d = CalculateSupplierCosts(m, o)
    BY <1>4, <1>6, <1>8, <1>9, <1>10 DEF CalculateSupplierCosts
  <2>. QED
    BY <1>2, <1>5, <2>1 DEF CalculateAndAllocate
<1>16. DiscountError(costs, c, lines) = "NONE"
  <2>. SUFFICES ASSUME DiscountError(costs, c, lines) # "NONE" PROVE FALSE
    OBVIOUS
  <2>1. e = Failed(DiscountError(costs, c, lines))
    BY <1>13, <1>15 DEF AllocateAndComplete
  <2>. QED
    BY <2>1, FailedIsNotComplete
<1>17. DiscountError(o, d, lines) = "NONE"
  BY <1>1, <1>12, <1>13, <1>16, DiscountsPassReordered
<1>18. PICK settled : settled = SettleLineMerchandise(lines, c.settledMerchandise)
  OBVIOUS
<1>19. settled = SettleLineMerchandise(lines, d.settledMerchandise)
       /\ d.settledLanded = c.settledLanded
  BY <1>12, <1>18 DEF SameFigures
<1>20. PICK open : open = OpenLineCapacity(costs, c, lines)
  OBVIOUS
<1>21. open = OpenLineCapacity(o, d, lines)
  BY <1>12, <1>20, OpenReordered
<1>22. OpensWith(open, costs, c, F, D)
  <2>1. costs \in [F -> Cost]
    BY <1>3 DEF CostList
  <2>. QED
    BY <1>11, <1>20, <2>1, OpensLines
<1>23. PICK v : v = AllocateInOrder(open, costs, c, lines)
  OBVIOUS
<1>24. v = AllocateInOrder(open, o, d, lines)
  BY <1>1, <1>11, <1>12, <1>14, <1>22, <1>23, AllocationReordered
<1>25. v \in Ledgers(D)
  <2>1. Placed(v, c, D, open)
    BY <1>1, <1>3, <1>11, <1>14, <1>22, <1>23, AllPlaced
  <2>. QED
    BY <2>1 DEF Placed
<1>26. e = Completed(lines, c, settled, CheckedAgainstLines(v, costs, c, lines))
  BY <1>13, <1>15, <1>16, <1>18, <1>20, <1>23 DEF AllocateAndComplete, AllocateSupplierCosts
<1>27. CheckedAgainstLines(v, costs, c, lines) = v
  BY <1>25, <1>26, CompletedFits
<1>28. CheckedAgainstLines(v, o, d, lines) = v
  BY <1>1, <1>11, <1>12, <1>14, <1>22, <1>23, <1>27, CheckedReordered
<1>29. e = Completed(lines, c, settled, v) /\ g = Completed(lines, d, settled, v)
  <2>1. g = Completed(lines, d, settled, CheckedAgainstLines(v, o, d, lines))
    BY <1>13, <1>15, <1>17, <1>19, <1>21, <1>24 DEF AllocateAndComplete, AllocateSupplierCosts
  <2>. QED
    BY <1>26, <1>27, <1>28, <2>1
<1>30. PICK landed : landed = LandedLines(settled.parts, v)
  OBVIOUS
<1>31. CompletionError(settled, landed, v, d) = CompletionError(settled, landed, v, c)
  BY <1>19 DEF CompletionError
<1>32. CompletionError(settled, landed, v, c) = "NONE"
  <2>. SUFFICES ASSUME CompletionError(settled, landed, v, c) # "NONE" PROVE FALSE
    OBVIOUS
  <2>1. e = Failed(CompletionError(settled, landed, v, c))
    BY <1>29, <1>30 DEF Completed
  <2>. QED
    BY <2>1, FailedIsNotComplete
<1>33. /\ e.result = c /\ e.landedLines = landed /\ e.rankingAmount = c.settledLanded
       /\ g.result = d /\ g.landedLines = landed /\ g.rankingAmount = d.settledLanded
       /\ g.status = "COMPLETE"
  BY <1>29, <1>30, <1>31, <1>32 DEF Completed
<1>. QED
  BY <1>12, <1>13, <1>19, <1>33 DEF SameEvaluation

\* A quote's lines are worth something, and whatever the costs it is they that
\* are calculated with.
Reckons(quotes, requirements, lines, D, n, m) ==
    /\ Numbered(D, n) /\ FewParts(n) /\ Worth(lines, D, m)
    /\ \A costs : EvaluateSupplier(quotes, requirements, costs) = CalculateAndAllocate(lines, costs)

\* A complete supplier's quote asks for everything.
LEMMA CompleteReckons ==
    ASSUME NEW p, WellFormed(p), NEW s, NEW costs,
           EvaluateSupplier(QuotesOf(p, s), p.requirements, costs).status = "COMPLETE"
    PROVE  \E lines, D, n, m : Reckons(QuotesOf(p, s), p.requirements, lines, D, n, m)
<1>1. PICK quotes : quotes = QuotesOf(p, s)
  OBVIOUS
<1>2. PICK quote : quote = quotes[1]
  OBVIOUS
<1>3. PICK requirements : requirements = p.requirements
  OBVIOUS
<1>4. PICK asked : asked = {quote.items[i].requirement : i \in DOMAIN quote.items}
  OBVIOUS
<1>5. \A cs : EvaluateSupplier(quotes, requirements, cs)
        = IF quotes = <<>> THEN Incomplete("MISSING_QUOTE", Ids(requirements))
          ELSE IF QuoteIssues(quote, requirements) # {}
          THEN Invalid(QuoteIssues(quote, requirements))
          ELSE IF quote.items = <<>> THEN Incomplete("EMPTY_QUOTE", Ids(requirements))
          ELSE IF Ids(requirements) \ asked # {}
          THEN Incomplete("MISSING_REQUIRED_ITEMS", Ids(requirements) \ asked)
          ELSE RunCalculationPipeline(quote, requirements, cs)
  BY <1>2, <1>4 DEF EvaluateSupplier
<1>6. /\ quotes # <<>> /\ QuoteIssues(quote, requirements) = {} /\ quote.items # <<>>
      /\ Ids(requirements) \ asked = {}
  BY <1>1, <1>3, <1>5 DEF Incomplete, Invalid
<1>7. \A cs : EvaluateSupplier(quotes, requirements, cs) = RunCalculationPipeline(quote, requirements, cs)
  BY <1>5, <1>6
<1>8. QuoteFits(quote)
  <2>1. \E q \in DOMAIN p.quotes : quote = p.quotes[q]
    BY <1>1, <1>2, <1>6, FirstQuote
  <2>. QED
    BY <2>1 DEF WellFormed, QuoteFits
<1>9. Asks(quote, requirements)
  BY <1>4, <1>6 DEF Asks, Ids
<1>10. PICK D, n : Requires(requirements, D, n)
  <2>1. Requires(requirements, 1 .. Len(requirements), Len(requirements))
    BY <1>3 DEF Requires, WellFormed, Numbered
  <2>. QED
    BY <2>1
<1>11. PICK raw : raw = QuoteLines(quote, requirements)
  OBVIOUS
<1>12. PICK c : c = quote.currency
  OBVIOUS
<1>13. LineError(raw, c) = "NONE"
  <2>. SUFFICES ASSUME LineError(raw, c) # "NONE" PROVE FALSE
    OBVIOUS
  <2>1. RunCalculationPipeline(quote, requirements, costs) = Failed(LineError(raw, c))
    BY <1>11, <1>12 DEF RunCalculationPipeline
  <2>. QED
    BY <1>1, <1>3, <1>7, <2>1, FailedIsNotComplete
<1>14. PICK lines : lines = InBaseCurrency(raw, c)
  OBVIOUS
<1>15. \A cs : RunCalculationPipeline(quote, requirements, cs) = CalculateAndAllocate(lines, cs)
  BY <1>11, <1>12, <1>13, <1>14 DEF RunCalculationPipeline
<1>16. Numbered(D, n) /\ FewParts(n) /\ IsFiniteSet(D) /\ c \in Currencies
  BY <1>8, <1>10, <1>12, NumberedType DEF Requires, QuoteFits
<1>17. PICK m : Worth(lines, D, m)
  <2>1. PICK x : x = [l \in DOMAIN lines |-> lines[l].baseValue]
    OBVIOUS
  <2>2. DOMAIN raw = D /\ \A r \in D : raw[r].value \in Nat /\ raw[r].quantity \in Nat
    <3>1. /\ DOMAIN raw = D
          /\ \A r \in D : /\ raw[r].error \in {"INVALID_MOQ", "INVALID_PACK_SIZE", "NONE"}
                          /\ raw[r].value \in Nat /\ raw[r].quantity \in Nat
      BY <1>8, <1>9, <1>10, <1>11, LinesOfQuote
    <3>. QED
      BY <3>1
  <2>3. /\ Carries(lines, D) /\ Parts(x, D) /\ \A l \in D : x[l] = lines[l].baseValue
        /\ Total(x) = SumOn(x, D) /\ Total(x) \in Nat
    BY <1>14, <1>16, <2>1, <2>2, LinesInBase
  <2>4. Worth(lines, D, SumOn(x, D))
    <3>1. DOMAIN lines = D
      BY <2>3 DEF Carries
    <3>2. \A l \in D : lines[l].baseValue \in Nat
      <4>1. \A l \in D : x[l] \in Int /\ x[l] >= 0
        BY <2>3 DEF Parts
      <4>. QED
        BY <2>3, <4>1
    <3>3. x = [l \in D |-> lines[l].baseValue]
      BY <2>1, <3>1
    <3>. QED
      BY <2>3, <3>2, <3>3 DEF Worth
  <2>. QED
    BY <2>4
<1>18. Reckons(quotes, requirements, lines, D, n, m)
  BY <1>7, <1>15, <1>16, <1>17 DEF Reckons
<1>. QED
  BY <1>1, <1>3, <1>18

\* Costs from the last to the first are the same costs in another order.
LEMMA ReversedIsReordered ==
    ASSUME NEW costs, NEW n, CostList(costs, 1 .. n, n), NEW b, b = [i \in 1 .. n |-> n - i + 1],
           NEW o, o = Reverse(costs)
    PROVE  Reordered(o, costs, 1 .. n, n, b)
<1>1. n \in Nat /\ costs \in [1 .. n -> Cost] /\ FewParts(n) /\ Len(costs) = n
  BY DEF CostList, Numbered
<1>2. o = [i \in 1 .. n |-> costs[(n - i) + 1]]
  BY <1>1 DEF Reverse
<1>3. \A i \in 1 .. n : n - i + 1 \in 1 .. n
  BY <1>1
<1>4. o \in [1 .. n -> Cost] /\ \A i \in 1 .. n : o[i] = costs[b[i]]
  BY <1>1, <1>2, <1>3
<1>5. Turns(b, 1 .. n)
  <2>1. b \in [1 .. n -> 1 .. n] /\ IsFiniteSet(1 .. n)
    BY <1>1, <1>3, FS_Interval
  <2>2. \A i, j \in 1 .. n : b[i] = b[j] => i = j
    BY <1>1
  <2>3. ASSUME NEW j \in 1 .. n PROVE \E i \in 1 .. n : b[i] = j
    <3>1. n - j + 1 \in 1 .. n /\ b[n - j + 1] = j
      BY <1>1, <1>3
    <3>. QED
      BY <3>1
  <2>. QED
    BY <2>1, <2>2, <2>3 DEF Turns
<1>. QED
  BY <1>1, <1>4, <1>5 DEF Reordered, CostList

\* A supplier's costs entered in the opposite order give the same total, the same
\* amounts on every line and the same settled effect of each cost.
THEOREM CostsInAnyOrder == Spec => []CostOrderChangesNothing
<1>1. ComparisonInvariant => CostOrderChangesNothing
  <2>. SUFFICES ASSUME ComparisonInvariant, NEW s \in CompleteSuppliers
                PROVE  \E again \in {EvaluateSupplier(QuotesOf(project, project.suppliers[s]),
                                                      project.requirements, Reverse(CostsOf(s)))} :
                            /\ again.status = "COMPLETE"
                            /\ again.rankingAmount = evaluations[s].rankingAmount
                            /\ again.landedLines = evaluations[s].landedLines
                            /\ again.result.settledEffects
                                = Reverse(evaluations[s].result.settledEffects)
    BY DEF CostOrderChangesNothing
  <2>1. EachOnItsOwn /\ s \in DOMAIN evaluations /\ evaluations[s].status = "COMPLETE"
    BY DEF ComparisonInvariant, CompleteSuppliers
  <2>2. WellFormed(project)
    BY <2>1, ProjectsAssumption DEF EachOnItsOwn
  <2>3. PICK p : p = project
    OBVIOUS
  <2>4. PICK t : t = project.suppliers[s]
    OBVIOUS
  <2>5. PICK costs : costs = CostsOf(s)
    OBVIOUS
  <2>6. PICK o : o = Reverse(costs)
    OBVIOUS
  <2>7. PICK e : e = evaluations[s]
    OBVIOUS
  <2>8. costs = CostsForSupplier(p, t) /\ e = EvaluateSupplier(QuotesOf(p, t), p.requirements, costs)
    BY <2>1, <2>3, <2>4, <2>5, <2>7 DEF EachOnItsOwn, Evaluated, CostsOf
  <2>9. PICK lines, D, n, m : Reckons(QuotesOf(p, t), p.requirements, lines, D, n, m)
    BY <2>1, <2>2, <2>3, <2>7, <2>8, CompleteReckons
  <2>10. PICK g : g = EvaluateSupplier(QuotesOf(p, t), p.requirements, o)
    OBVIOUS
  <2>11. e = CalculateAndAllocate(lines, costs) /\ g = CalculateAndAllocate(lines, o)
         /\ Numbered(D, n) /\ FewParts(n) /\ Worth(lines, D, m)
    BY <2>8, <2>9, <2>10 DEF Reckons
  <2>12. PICK f : f = Len(costs)
    OBVIOUS
  <2>13. CostList(costs, 1 .. f, f) /\ f \in Nat
    <3>1. CostList(costs, 1 .. Len(costs), Len(costs)) /\ DOMAIN costs = 1 .. Len(costs)
      BY <2>2, <2>3, <2>8, CostsOfSupplier
    <3>. QED
      BY <2>12, <3>1 DEF CostList, Numbered
  <2>14. PICK b : b = [i \in 1 .. f |-> f - i + 1]
    OBVIOUS
  <2>15. Reordered(o, costs, 1 .. f, f, b)
    BY <2>6, <2>13, <2>14, ReversedIsReordered
  <2>16. PICK F : F = 1 .. f
    OBVIOUS
  <2>17. SameEvaluation(g, e, F, b)
    <3>1. Reordered(o, costs, F, f, b)
      BY <2>15, <2>16
    <3>2. e.status = "COMPLETE"
      BY <2>1, <2>7
    <3>. QED
      BY <2>11, <3>1, <3>2, EvaluationReordered
  <2>18. PICK x : x = e.result.settledEffects
    OBVIOUS
  <2>19. PICK y : y = g.result.settledEffects
    OBVIOUS
  <2>20. x \in [1 .. f -> Int] /\ y \in [1 .. f -> Int] /\ \A i \in 1 .. f : y[i] = x[b[i]]
    BY <2>16, <2>17, <2>18, <2>19 DEF SameEvaluation, SameFigures, Figures
  <2>21. y = Reverse(x)
    <3>1. Len(x) = f
      BY <2>13, <2>20
    <3>2. Reverse(x) = [i \in 1 .. f |-> x[(f - i) + 1]]
      BY <3>1 DEF Reverse
    <3>3. \A i \in 1 .. f : y[i] = x[(f - i) + 1]
      BY <2>14, <2>20
    <3>. QED
      BY <2>20, <3>2, <3>3
  <2>. QED
    BY <2>3, <2>4, <2>5, <2>6, <2>7, <2>10, <2>17, <2>18, <2>19, <2>21 DEF SameEvaluation
<1>. QED
  BY <1>1, ComparisonGoesAsItShould, PTL

=============================================================================
