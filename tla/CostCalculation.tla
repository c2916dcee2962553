--------------------------- MODULE CostCalculation ---------------------------
(***************************************************************************)
(* calculation/CostCalculation.ts, AdditionalCost.ts and what they convert  *)
(* with: a supplier's costs evaluated in fixed stages, the landed total     *)
(* settled once, and the settled parts reconciled to it.                    *)
(*                                                                          *)
(* A cost is a record: id, kind, category, basis, currency and amount (of a *)
(* FIXED one), rate in per cent and base (of a PERCENTAGE one), included    *)
(* (alreadyIncludedInQuote), compared (includeInComparison) and method.     *)
(* Money is in ticks of its currency; Rate gives the ticks of the base      *)
(* currency for one of another, 0 when the table has no rate.               *)
(***************************************************************************)
EXTENDS Allocation

CONSTANTS Currencies, Base, Rate

ASSUME RatesAssumption == Base \in Currencies /\ Rate \in [Currencies -> Nat]

(* Conversion -------------------------------------------------------------*)
HasRate(currency) == currency = Base \/ Rate[currency] > 0
ConvertToBaseCurrency(amount, currency) ==
    IF currency = Base THEN amount ELSE amount * Rate[currency]
ApplyRate(rate, base) == (base * rate) \div 100

(* What a cost may say ----------------------------------------------------*)
Cost ==
    [id : Nat, kind : {"COST", "DISCOUNT", "SURCHARGE"}, category : STRING, basis : STRING,
     currency : Currencies, amount : Int, rate : Nat, base : STRING,
     included : BOOLEAN, compared : BOOLEAN, method : Methods]

EvaluationStage(cost) ==
    IF cost.kind \in {"DISCOUNT", "SURCHARGE"} THEN cost.kind
    ELSE IF cost.category \in {"FREIGHT", "INSURANCE"} THEN "FREIGHT_INSURANCE"
    ELSE "OTHER_COST"

AllowedBases(stage) ==
    CASE stage = "DISCOUNT" -> {"MERCHANDISE"}
      [] stage = "FREIGHT_INSURANCE" -> {"MERCHANDISE", "MERCHANDISE_AFTER_DISCOUNT"}
      [] OTHER -> {"MERCHANDISE", "MERCHANDISE_AFTER_DISCOUNT",
                   "MERCHANDISE_PLUS_FREIGHT_INSURANCE"}

CostError(cost) ==
    IF cost.basis \notin {"FIXED", "PERCENTAGE"} THEN "INVALID_COST_DEFINITION"
    ELSE IF cost.basis = "FIXED"
    THEN IF cost.amount < 0 THEN "INVALID_COST_AMOUNT" ELSE "NONE"
    ELSE IF cost.kind = "DISCOUNT" /\ cost.rate > 100 THEN "INVALID_DISCOUNT"
    ELSE IF cost.base \notin AllowedBases(EvaluationStage(cost)) THEN "INVALID_PERCENTAGE_BASE"
    ELSE "NONE"

Contributes(cost) == ~cost.included /\ cost.compared
OnlyWhatIsCompared(cost) == Contributes(cost)          \* fault: no longer money
AffectsPercentageBases(cost) == ~cost.included

(* The costs of a supplier ------------------------------------------------*)
\* The magnitude of each cost, given the resolved percentage bases
BaseCurrencyAmount(cost, bases) ==
    IF cost.basis = "FIXED" THEN ConvertToBaseCurrency(cost.amount, cost.currency)
    ELSE ApplyRate(cost.rate, bases[cost.base])

SumMagnitudes(costs, stage, bases) ==
    Total([i \in {j \in DOMAIN costs : /\ EvaluationStage(costs[j]) = stage
                                      /\ AffectsPercentageBases(costs[j])}
            |-> BaseCurrencyAmount(costs[i], bases)])

\* The three percentage bases, each resolved from the stages before it
PercentageBases(merchandise, costs) ==
    LET first == [b \in {"MERCHANDISE"} |-> merchandise]
        discounted == merchandise
                      - SumMagnitudes(costs, "DISCOUNT", first)
        second == [b \in {"MERCHANDISE", "MERCHANDISE_AFTER_DISCOUNT"} |->
                    IF b = "MERCHANDISE" THEN merchandise ELSE discounted]
        shipped == discounted
                   + SumMagnitudes(costs, "FREIGHT_INSURANCE", second)
    IN [b \in AllowedBases("OTHER_COST") |->
            CASE b = "MERCHANDISE" -> merchandise
              [] b = "MERCHANDISE_AFTER_DISCOUNT" -> discounted
              [] OTHER -> shipped]

SignedEffect(cost, magnitude) ==
    IF ~Contributes(cost) THEN 0 ELSE IF cost.kind = "DISCOUNT" THEN -magnitude ELSE magnitude

(* Reconciling the settled parts to the settled total ---------------------*)
\* The members of one side of the ledger, in the order of their ids
EffectPool(costs, members) ==
    InOrder(members, LAMBDA i, j : costs[i].id < costs[j].id)

PoolMagnitudes(pool, effects) == [k \in DOMAIN pool |-> Magnitude(effects[pool[k]])]

\* What each side settles to: its own sum, and the residual on one of them
PoolTargets(settledEffectTotal, costTotal, discountTotal, costPool, discountPool) ==
    LET p == RoundToMinorUnit(costTotal)
        n == RoundToMinorUnit(discountTotal)
        residual == settledEffectTotal - (p - n)
        onCosts == IF residual > 0 THEN costPool # <<>> ELSE discountPool = <<>>
    IN IF residual = 0 THEN [positive |-> p, negative |-> n]
       ELSE IF onCosts THEN [positive |-> p + residual, negative |-> n]
       ELSE [positive |-> p, negative |-> n - residual]

IndexIn(pool, i) == CHOOSE k \in DOMAIN pool : pool[k] = i

TheFirstTakesTheRest(costs, effects, settledEffectTotal) ==   \* fault: not shared out
    LET down == [i \in DOMAIN costs |-> (effects[i] \div Minor) * Minor]
    IN [error |-> "NONE",
        effects |-> [i \in DOMAIN costs |->
            IF costs[i].id > 1 THEN down[i]
            ELSE down[i] + settledEffectTotal - Total(down)]]
\* The two settled pools put back on the entries they were made of
EntriesOf(up, down, costPool, discountPool, effects) ==
    [error |-> IF up.error # "NONE" THEN up.error ELSE down.error,
     effects |-> [i \in DOMAIN effects |->
        CASE effects[i] > 0 -> up.parts[IndexIn(costPool, i)]
          [] effects[i] < 0 -> -down.parts[IndexIn(discountPool, i)]
          [] OTHER -> 0]]

SettlePools(target, costPool, discountPool, effects) ==
    IF target.positive < 0 \/ target.negative < 0
    THEN [error |-> "SETTLEMENT_RECONCILIATION", effects |-> effects]
    ELSE EntriesOf(SettleTotalAcrossParts(target.positive, PoolMagnitudes(costPool, effects)),
                   SettleTotalAcrossParts(target.negative, PoolMagnitudes(discountPool, effects)),
                   costPool, discountPool, effects)

ReconcileSettledEffects(costs, effects, settledEffectTotal) ==
    LET costPool == EffectPool(costs, {i \in DOMAIN costs : effects[i] > 0})
        discountPool == EffectPool(costs, {i \in DOMAIN costs : effects[i] < 0})
    IN SettlePools(PoolTargets(settledEffectTotal, Total(PoolMagnitudes(costPool, effects)),
                               Total(PoolMagnitudes(discountPool, effects)),
                               costPool, discountPool),
                   costPool, discountPool, effects)

(* calculateSupplierCosts -------------------------------------------------*)
\* The entries, exact: what each is worth and what it does to the total
Entries(merchandise, costs, bases) ==
    LET magnitudes == [i \in DOMAIN costs |-> BaseCurrencyAmount(costs[i], bases)]
        effects == [i \in DOMAIN costs |-> SignedEffect(costs[i], magnitudes[i])]
    IN [bases |-> bases, magnitudes |-> magnitudes, effects |-> effects,
        landed |-> merchandise + Total(effects),
        settledMerchandise |-> RoundToMinorUnit(merchandise),
        settledLanded |-> RoundToMinorUnit(merchandise + Total(effects))]

WithSettledEffects(entries, settled) ==
    LET reconciles == entries.settledMerchandise + Total(settled.effects) = entries.settledLanded
    IN [error |-> IF settled.error = "NONE" /\ ~reconciles THEN "SETTLEMENT_RECONCILIATION"
                  ELSE settled.error,
        bases |-> entries.bases, magnitudes |-> entries.magnitudes,
        effects |-> entries.effects, settledEffects |-> settled.effects,
        landed |-> entries.landed,
        settledMerchandise |-> entries.settledMerchandise,
        settledLanded |-> entries.settledLanded]

Settled(costs, entries) ==
    WithSettledEffects(entries,
        ReconcileSettledEffects(costs, entries.effects,
                                entries.settledLanded - entries.settledMerchandise))

Calculated(merchandise, costs) ==
    Settled(costs, Entries(merchandise, costs, PercentageBases(merchandise, costs)))

\* What is refused before anything is settled
InputError(merchandise, costs) ==
    LET faulty == {i \in DOMAIN costs : CostError(costs[i]) # "NONE"}
        repeated == \E i, j \in DOMAIN costs : i # j /\ costs[i].id = costs[j].id
        unpriced == {i \in DOMAIN costs :
                        costs[i].basis = "FIXED" /\ ~HasRate(costs[i].currency)}
    IN IF faulty # {} THEN CostError(costs[CHOOSE i \in faulty : \A j \in faulty : i <= j])
       ELSE IF repeated THEN "INVALID_COST_DEFINITION"
       ELSE IF merchandise < 0 THEN "INVALID_PERCENTAGE_BASE"
       ELSE IF \E i \in unpriced : costs[i].kind = "DISCOUNT" THEN "MISSING_EXCHANGE_RATE"
       ELSE IF PercentageBases(merchandise, costs)["MERCHANDISE_AFTER_DISCOUNT"] < 0
       THEN "INVALID_DISCOUNT"
       ELSE IF unpriced # {} THEN "MISSING_EXCHANGE_RATE"
       ELSE "NONE"

CalculateSupplierCosts(merchandise, costs) ==
    IF InputError(merchandise, costs) # "NONE"
    THEN [error |-> InputError(merchandise, costs)]
    ELSE Calculated(merchandise, costs)

(* validateDiscountLineAllocations ----------------------------------------*)
\* The discounts that take money off the lines, compared or not
LineDiscounts(costs, result) ==
    {i \in DOMAIN costs : /\ costs[i].kind = "DISCOUNT"
                          /\ AffectsPercentageBases(costs[i])
                          /\ result.magnitudes[i] # 0}

\* What one line gives up, in 1/ShareScale ticks, over the discounts D
DiscountOnLine(D, amounts, costs, lines, l) ==
    Total([i \in D |->
            ExactShares(Magnitude(amounts[i]), Weights(lines, costs[i].method))[l]])

DiscountsFitEachLine(D, amounts, costs, lines) ==
    \A l \in DOMAIN lines :
        DiscountOnLine(D, amounts, costs, lines, l) <= lines[l].baseValue * ShareScale

DiscountError(costs, result, lines) ==
    LET D == LineDiscounts(costs, result)
    IN IF \E i \in D : WeightingError(lines, costs[i].method) # "NONE"
       THEN "DISCOUNT_ALLOCATION_VALIDATION"
       ELSE IF ~DiscountsFitEachLine(D, result.magnitudes, costs, lines)
       THEN "INVALID_DISCOUNT"
       ELSE "NONE"

(* allocateSupplierCosts --------------------------------------------------*)
SettleLineMerchandise(lines, settledMerchandise) ==
    SettleTotalAcrossParts(settledMerchandise, [l \in DOMAIN lines |-> lines[l].baseValue])

AsTheyWereEntered(costs) ==                            \* fault: ids do not matter
    InOrder({i \in DOMAIN costs : Contributes(costs[i])},
            LAMBDA i, j :
                \/ costs[i].kind # "DISCOUNT" /\ costs[j].kind = "DISCOUNT"
                \/ (costs[i].kind = "DISCOUNT") = (costs[j].kind = "DISCOUNT") /\ i < j)

\* Costs and surcharges before discounts, each side by id
SidesById(costs, members) ==
    InOrder(members,
            LAMBDA i, j :
                \/ costs[i].kind # "DISCOUNT" /\ costs[j].kind = "DISCOUNT"
                \/ /\ (costs[i].kind = "DISCOUNT") = (costs[j].kind = "DISCOUNT")
                   /\ costs[i].id < costs[j].id)

SettlementOrder(costs) == SidesById(costs, {i \in DOMAIN costs : Contributes(costs[i])})

NothingLimits(costs, result, lines) ==                 \* fault: no capacities
    [error |-> "NONE", parts |-> NoLimit]

\* What the lines can still give back; NoLimit when no discount is placed
OpenLineCapacity(costs, result, lines) ==
    IF \E i \in DOMAIN costs : costs[i].kind = "DISCOUNT" /\ result.settledEffects[i] # 0
    THEN SettleLineMerchandise(lines, result.settledMerchandise)
    ELSE [error |-> "NONE", parts |-> NoLimit]

\* One cost put on the lines, after those before it
PutOnLines(done, split) ==
    IF split.error # "NONE" THEN [done EXCEPT !.error = split.error]
    ELSE [done EXCEPT
            !.byLine = [l \in DOMAIN @ |-> @[l] + split.parts[l]],
            !.capacity = [l \in DOMAIN @ |-> @[l] + split.parts[l]]]

AllocateEntry(done, i, costs, result, lines) ==
    IF done.error # "NONE" THEN done
    ELSE PutOnLines(done,
            AllocateAmount(result.effects[i], lines, costs[i].method, result.settledEffects[i],
                           IF costs[i].kind = "DISCOUNT" THEN done.capacity ELSE NoLimit))

\* The fold over the costs, from the capacity the lines are open with
AllocateInOrder(open, costs, result, lines) ==
    FoldLeft(LAMBDA done, i : AllocateEntry(done, i, costs, result, lines),
             [error |-> open.error, byLine |-> [l \in DOMAIN lines |-> 0],
              capacity |-> open.parts],
             SettlementOrder(costs))

CheckedAgainstLines(done, costs, result, lines) ==
    LET D == {i \in DOMAIN costs : Contributes(costs[i]) /\ costs[i].kind = "DISCOUNT"}
    IN IF done.error = "NONE" /\ ~DiscountsFitEachLine(D, result.effects, costs, lines)
       THEN [done EXCEPT !.error = "INVALID_DISCOUNT"]
       ELSE done

AllocateSupplierCosts(costs, result, lines) ==
    CheckedAgainstLines(
        AllocateInOrder(OpenLineCapacity(costs, result, lines), costs, result, lines),
        costs, result, lines)
=============================================================================
