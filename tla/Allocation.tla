----------------------------- MODULE Allocation -----------------------------
(***************************************************************************)
(* calculation/Allocation.ts: how a shared amount is split over lines by    *)
(* largest remainder, and the rounding it rests on.                         *)
(*                                                                          *)
(* An exact amount is a whole number of ticks, and Minor ticks make one     *)
(* minor unit of the currency.  A proportional share is a decimal with a    *)
(* fixed number of digits: a whole number of 1/ShareScale ticks, rounded    *)
(* half up, as proportionalShare rounds it.                                 *)
(***************************************************************************)
EXTENDS Integers, Sequences, SequencesExt

CONSTANTS
    Minor,          \* ticks in a minor unit
    ShareScale      \* the steps of a tick a share is rounded to

ASSUME PrecisionAssumption == Minor \in Nat \ {0} /\ ShareScale \in Nat \ {0}

Total(f) == FoldFunction(+, 0, f)
Magnitude(x) == IF x < 0 THEN -x ELSE x

\* The members of S in an order no two of them share: each after as many as
\* come before it
InOrder(S, Before(_, _)) ==
    [k \in 1 .. Cardinality(S) |->
        CHOOSE x \in S : Cardinality({y \in S : Before(y, x)}) = k - 1]

\* roundToMinorUnit: half away from zero; truncateToMinorUnit of a share
RoundToMinorUnit(x) ==
    LET m == ((2 * Magnitude(x) + Minor) \div (2 * Minor)) * Minor
    IN IF x < 0 THEN -m ELSE m
TruncateToMinorUnit(share) == (share \div (Minor * ShareScale)) * Minor

(* The weighting ----------------------------------------------------------*)
Methods == {"BY_MERCHANDISE_VALUE", "EQUAL_PER_LINE", "BY_QUANTITY"}

Weights(lines, method) ==
    [l \in DOMAIN lines |->
        CASE method = "EQUAL_PER_LINE" -> 1
          [] method = "BY_MERCHANDISE_VALUE" -> lines[l].value
          [] method = "BY_QUANTITY" -> lines[l].quantity]

MixedUnits(lines) == \E k, l \in DOMAIN lines : lines[k].unit # lines[l].unit

\* Why a weighting has no defensible split, "NONE" when it has one
WeightingError(lines, method) ==
    IF method = "BY_QUANTITY" /\ MixedUnits(lines) THEN "INCOMPATIBLE_ALLOCATION_UNITS"
    ELSE IF Total(Weights(lines, method)) = 0 THEN "INVALID_ALLOCATION_BASE"
    ELSE "NONE"

\* Each part's share of a magnitude, in 1/ShareScale ticks
ExactShares(magnitude, weights) ==
    LET whole == Total(weights)
    IN [l \in DOMAIN weights |->
            (2 * magnitude * weights[l] * ShareScale + whole) \div (2 * whole)]

\* So few parts that rounding their shares adds up to less than a minor unit
FewParts(n) == n < 2 * Minor * ShareScale

(* Largest remainder ------------------------------------------------------*)
OrderByLargestRemainder(remainder) ==
    InOrder(DOMAIN remainder,
            LAMBDA k, l : \/ remainder[k] > remainder[l]
                          \/ remainder[k] = remainder[l] /\ k < l)

NoLimit == <<>>     \* the capacities of a split nothing limits

TakesOne(parts, limit, l) == limit = NoLimit \/ parts[l] + Minor <= limit[l]

\* A minor unit for one line, while there is one to place
PlaceOne(split, limit, l) ==
    IF split.left = 0 \/ ~TakesOne(split.parts, limit, l) THEN split
    ELSE [parts |-> [split.parts EXCEPT ![l] = @ + Minor], left |-> split.left - Minor]

\* One pass over the lines
HandOut(split, limit, order) ==
    FoldLeft(LAMBDA s, l : PlaceOne(s, limit, l), split, order)

\* The passes it takes to place what is left: one when nothing limits a line
Passes(left, limit) == IF limit = NoLimit THEN 1 ELSE left \div Minor

PlacedAll(left, limit) ==
    IF left = 0 THEN "NONE"
    ELSE IF limit = NoLimit THEN "ALLOCATION_INVARIANT" ELSE "ALLOCATION_CAPACITY"

\* That many passes, one after another
Passed(split, limit, order, n) ==
    FoldLeft(LAMBDA s, pass : HandOut(s, limit, order), split, [pass \in 1 .. n |-> pass])

HandOutAll(split, limit, order) ==
    LET passed == Passed(split, limit, order, Passes(split.left, limit))
    IN IF split.left < 0 THEN [error |-> "ALLOCATION_INVARIANT", parts |-> split.parts]
       ELSE [error |-> PlacedAll(passed.left, limit), parts |-> passed.parts]

DistributeByLargestRemainder(settled, shares, limit) ==
    LET whole == [l \in DOMAIN shares |-> TruncateToMinorUnit(shares[l])]
        parts == [l \in DOMAIN shares |->
                    IF limit # NoLimit /\ whole[l] > limit[l] THEN limit[l] ELSE whole[l]]
    IN HandOutAll([parts |-> parts, left |-> settled - Total(parts)], limit,
                  OrderByLargestRemainder(
                    [l \in DOMAIN shares |-> shares[l] - whole[l] * ShareScale]))

(* The two callers of the distribution ------------------------------------*)
\* The parts, with the sign of what they split
Signed(split, total) ==
    IF total < 0 THEN [split EXCEPT !.parts = [l \in DOMAIN @ |-> -@[l]]] ELSE split

\* Signed parts of a settled total over the exact, non-negative parts it sums
SettleTotalAcrossParts(settledTotal, exactParts) ==
    IF Total(exactParts) = 0
    THEN [error |-> IF settledTotal = 0 THEN "NONE" ELSE "ALLOCATION_INVARIANT",
          parts |-> [p \in DOMAIN exactParts |-> 0]]
    ELSE Signed(DistributeByLargestRemainder(
                    Magnitude(settledTotal),
                    ExactShares(Magnitude(settledTotal), exactParts), NoLimit),
                settledTotal)

\* A target may be zero; otherwise it is settled and has the amount's sign
TargetFits(amount, target) ==
    /\ target = 0 \/ (amount # 0 /\ (target < 0) = (amount < 0))
    /\ target % Minor = 0

\* The signed parts of `amount` over the lines, adding up to `target`
AllocateAmount(amount, lines, method, target, capacity) ==
    LET limit == IF capacity = NoLimit THEN NoLimit
                 ELSE [l \in DOMAIN capacity |-> (capacity[l] \div Minor) * Minor]
        failed(error) == [error |-> error, parts |-> [l \in DOMAIN lines |-> 0]]
    IN IF WeightingError(lines, method) # "NONE" THEN failed(WeightingError(lines, method))
       ELSE IF ~TargetFits(amount, target) THEN failed("ALLOCATION_INVARIANT")
       ELSE IF \E l \in DOMAIN capacity : capacity[l] < 0 THEN failed("ALLOCATION_CAPACITY")
       ELSE Signed(DistributeByLargestRemainder(
                        Magnitude(target),
                        ExactShares(Magnitude(target), Weights(lines, method)), limit),
                   amount)
=============================================================================
