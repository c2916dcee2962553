------------------------- MODULE SupplierComparison -------------------------
(***************************************************************************)
(* comparison/: one comparison of a project's suppliers.  The structure is  *)
(* checked, each supplier evaluated on its own through the engines, the     *)
(* complete ones ranked, and the insights drawn.                            *)
(*                                                                          *)
(* A project has a currency, requirements (id, quantity, unit), suppliers,  *)
(* quotes (supplier, currency, items) and each supplier's costs; a quote's  *)
(* item has a requirement, a price with its currency, and moq and pack      *)
(* (unitsPerQuotedUnit), either of which may be unset.  Quantities are      *)
(* whole numbers of the comparison unit.                                    *)
(***************************************************************************)
EXTENDS CostCalculation

CONSTANT Projects

VARIABLES project, phase, refusal, evaluations, ranking, insights

vars == <<project, phase, refusal, evaluations, ranking, insights>>

Unset == -1
Ids(s) == {s[i].id : i \in DOMAIN s}
Repeats(s) == \E i, j \in DOMAIN s : i # j /\ s[i] = s[j]

(* What a project holds ---------------------------------------------------*)
WellFormed(p) ==
    /\ p.requirements \in Seq(Range(p.requirements)) /\ FewParts(Len(p.requirements))
    /\ p.suppliers \in Seq(Range(p.suppliers)) /\ p.quotes \in Seq(Range(p.quotes))
    /\ \A r \in DOMAIN p.requirements : p.requirements[r].quantity \in Nat
    /\ \A q \in DOMAIN p.quotes :
        /\ p.quotes[q].currency \in Currencies
        /\ \A item \in Range(p.quotes[q].items) :
            item.price \in Nat /\ {item.moq, item.pack} \subseteq Nat \cup {Unset}
    /\ \A s \in DOMAIN p.costs : p.costs[s] \in Seq(Cost) /\ FewParts(Len(p.costs[s]))

ASSUME ProjectsAssumption == \A p \in Projects : WellFormed(p)

(* What the comparison cannot do without ----------------------------------*)
StructuralIssue(p) ==
    IF p.base # Base THEN "BASE_CURRENCY_MISMATCH"
    ELSE IF p.requirements = <<>> THEN "EMPTY_REQUIREMENTS"
    ELSE IF Cardinality(Ids(p.requirements)) < Len(p.requirements)
    THEN "DUPLICATE_REQUIREMENT_ID"
    ELSE IF \E r \in DOMAIN p.requirements : p.requirements[r].quantity = 0
    THEN "ZERO_REQUIRED_QUANTITY"
    ELSE IF Repeats(p.suppliers) THEN "DUPLICATE_SUPPLIER_ID"
    ELSE IF \E q \in DOMAIN p.quotes : p.quotes[q].supplier \notin Range(p.suppliers)
    THEN "ORPHAN_QUOTE"
    ELSE IF \E q, r \in DOMAIN p.quotes :
                q # r /\ p.quotes[q].supplier = p.quotes[r].supplier
    THEN "DUPLICATE_QUOTE_FOR_SUPPLIER"
    ELSE "NONE"

(* The order quantity of a line -------------------------------------------*)
ResolveOrderQuantity(required, moq, pack) ==
    LET minimum == IF moq # Unset /\ moq > required THEN moq ELSE required
        quoted == IF pack = Unset THEN minimum ELSE (minimum + pack - 1) \div pack
        resolved == IF pack = Unset THEN minimum ELSE quoted * pack
    IN IF moq = 0 THEN [error |-> "INVALID_MOQ"]
       ELSE IF pack = 0 THEN [error |-> "INVALID_PACK_SIZE"]
       ELSE IF resolved < minimum THEN [error |-> "QUANTITY_INVARIANT"]
       ELSE [error |-> "NONE", quoted |-> quoted, resolved |-> resolved]

(* One supplier -----------------------------------------------------------*)
ExpectedErrors ==
    {"INVALID_MOQ", "INVALID_PACK_SIZE", "MISSING_EXCHANGE_RATE", "CURRENCY_MISMATCH",
     "INVALID_PERCENTAGE_BASE", "INVALID_DISCOUNT", "DISCOUNT_ALLOCATION_VALIDATION",
     "INVALID_COST_DEFINITION", "INVALID_COST_AMOUNT"}
UnusableWeightings == {"INVALID_ALLOCATION_BASE", "INCOMPATIBLE_ALLOCATION_UNITS"}

Incomplete(issue, missing) ==
    [status |-> "INCOMPLETE", issues |-> {issue}, missing |-> missing]
Invalid(issues) == [status |-> "INVALID", issues |-> issues]
Thrown(error) == [status |-> "THROWN", issues |-> {error}]

QuoteIssues(quote, requirements) ==
    LET asked == [i \in DOMAIN quote.items |-> quote.items[i].requirement]
    IN (IF Repeats(asked) THEN {"DUPLICATE_QUOTE_ITEM"} ELSE {})
       \cup (IF Range(asked) \subseteq Ids(requirements) THEN {}
             ELSE {"UNKNOWN_REQUIREMENT_REFERENCE"})

ItemFor(quote, requirement) ==
    quote.items[CHOOSE i \in DOMAIN quote.items : quote.items[i].requirement = requirement]

\* The lines of a complete quote: allocation targets with both their values
QuoteLines(quote, requirements) ==
    [r \in DOMAIN requirements |->
        LET item == ItemFor(quote, requirements[r].id)
            order == ResolveOrderQuantity(requirements[r].quantity, item.moq, item.pack)
        IN [error |-> order.error, currency |-> item.currency, unit |-> requirements[r].unit,
            value |-> IF order.error = "NONE" THEN item.price * order.quoted ELSE 0,
            quantity |-> IF order.error = "NONE" THEN order.resolved ELSE 0]]

LineError(lines, currency) ==
    LET failed == {l \in DOMAIN lines : lines[l].error # "NONE"}
    IN IF failed # {} THEN lines[CHOOSE l \in failed : \A k \in failed : l <= k].error
       ELSE IF \E l \in DOMAIN lines : lines[l].currency # currency THEN "CURRENCY_MISMATCH"
       ELSE IF ~HasRate(currency) THEN "MISSING_EXCHANGE_RATE"
       ELSE "NONE"

\* Each line's settled landed value, when the costs could be put on the lines
LandedLines(settled, allocation) ==
    IF allocation.error # "NONE" THEN <<>>
    ELSE [l \in DOMAIN settled |-> settled[l] + allocation.byLine[l]]

Failed(error) == IF error \in ExpectedErrors THEN Invalid({error}) ELSE Thrown(error)

\* The reconciliation a complete evaluation asserts of itself
CompletionError(settled, landed, allocation, result) ==
    IF allocation.error \notin UnusableWeightings \cup {"NONE"} THEN allocation.error
    ELSE IF settled.error # "NONE" THEN settled.error
    ELSE IF landed # <<>> /\ ( \/ Total(landed) # result.settledLanded
                               \/ \E l \in DOMAIN landed : landed[l] < 0 )
    THEN "SETTLEMENT_RECONCILIATION"
    ELSE "NONE"

Completed(lines, result, settled, allocation) ==
    LET landed == LandedLines(settled.parts, allocation)
        error == CompletionError(settled, landed, allocation, result)
    IN IF error # "NONE" THEN Failed(error)
       ELSE [status |-> "COMPLETE", issues |-> {}, lines |-> lines, result |-> result,
             warning |-> allocation.error, landedLines |-> landed,
             merchandiseRankingAmount |-> result.settledMerchandise,
             rankingAmount |-> result.settledLanded]

\* From a supplier's calculated costs on: the discounts, the lines, the end
AllocateAndComplete(lines, costs, result) ==
    LET discounts == IF result.error # "NONE" THEN result.error
                     ELSE DiscountError(costs, result, lines)
    IN IF discounts # "NONE" THEN Failed(discounts)
       ELSE Completed(lines, result, SettleLineMerchandise(lines, result.settledMerchandise),
                      AllocateSupplierCosts(costs, result, lines))

CalculateAndAllocate(lines, costs) ==
    AllocateAndComplete(lines, costs,
        CalculateSupplierCosts(Total([l \in DOMAIN lines |-> lines[l].baseValue]), costs))

InBaseCurrency(lines, currency) ==
    [l \in DOMAIN lines |->
        [unit |-> lines[l].unit, value |-> lines[l].value, quantity |-> lines[l].quantity,
         baseValue |-> ConvertToBaseCurrency(lines[l].value, currency)]]

RunCalculationPipeline(quote, requirements, costs) ==
    LET raw == QuoteLines(quote, requirements)
        early == LineError(raw, quote.currency)
    IN IF early # "NONE" THEN Failed(early)
       ELSE CalculateAndAllocate(InBaseCurrency(raw, quote.currency), costs)

EvaluateSupplier(quotes, requirements, costs) ==
    LET quote == quotes[1]
        asked == {quote.items[i].requirement : i \in DOMAIN quote.items}
    IN IF quotes = <<>> THEN Incomplete("MISSING_QUOTE", Ids(requirements))
       ELSE IF QuoteIssues(quote, requirements) # {}
       THEN Invalid(QuoteIssues(quote, requirements))
       ELSE IF quote.items = <<>> THEN Incomplete("EMPTY_QUOTE", Ids(requirements))
       ELSE IF Ids(requirements) \ asked # {}
       THEN Incomplete("MISSING_REQUIRED_ITEMS", Ids(requirements) \ asked)
       ELSE RunCalculationPipeline(quote, requirements, costs)

(* Ranking ----------------------------------------------------------------*)
\* Complete suppliers, cheapest first, those that tie in their input order
RankedOrder(suppliers, results) ==
    InOrder({s \in DOMAIN suppliers : results[s].status = "COMPLETE"},
            LAMBDA s, t : \/ results[s].rankingAmount < results[t].rankingAmount
                          \/ /\ results[s].rankingAmount = results[t].rankingAmount
                             /\ s < t)

CompetitionRanks(amounts) ==                           \* fault: 1, 1, 3
    [k \in DOMAIN amounts |-> 1 + Cardinality({j \in DOMAIN amounts : amounts[j] < amounts[k]})]

\* The rank goes up at each amount that is not the one before it
DenseRanks(amounts) ==
    LET rank[k \in DOMAIN amounts] ==
            IF k = 1 THEN 1
            ELSE rank[k - 1] + (IF amounts[k] = amounts[k - 1] THEN 0 ELSE 1)
    IN [k \in DOMAIN amounts |-> rank[k]]

\* In hundredths of a per cent, half up; undefined above a lowest of zero
PercentageDifference(difference, lowest) ==
    IF lowest = 0 THEN IF difference = 0 THEN 0 ELSE Unset
    ELSE (20000 * difference + lowest) \div (2 * lowest)

RankCompleteSuppliers(suppliers, results) ==
    LET order == RankedOrder(suppliers, results)
        amounts == [k \in DOMAIN order |-> results[order[k]].rankingAmount]
        ranks == DenseRanks(amounts)
    IN [k \in DOMAIN order |->
            [supplier |-> suppliers[order[k]], rankingAmount |-> amounts[k], rank |-> ranks[k],
             difference |-> amounts[k] - amounts[1],
             percentage |-> PercentageDifference(amounts[k] - amounts[1], amounts[1])]]

Lowest(ranked) == {ranked[k].supplier : k \in {j \in DOMAIN ranked : ranked[j].rank = 1}}

(* Insights ---------------------------------------------------------------*)
MerchandiseLeaders(ranked, amountOf) ==
    {s \in {ranked[k].supplier : k \in DOMAIN ranked} :
        \A k \in DOMAIN ranked : amountOf[s] <= amountOf[ranked[k].supplier]}

WinnerInsight(ranked) ==
    CASE ranked = <<>> -> [code |-> "NO_COMPARABLE_SUPPLIERS", suppliers |-> {}]
      [] Len(ranked) = 1 -> [code |-> "ONLY_COMPARABLE_SUPPLIER", suppliers |-> Lowest(ranked)]
      [] OTHER -> [code |-> IF Cardinality(Lowest(ranked)) = 1
                            THEN "LOWEST_CALCULATED_LANDED_COST"
                            ELSE "TIED_LOWEST_CALCULATED_LANDED_COST",
                   suppliers |-> Lowest(ranked)]

FlipInsight(ranked, amountOf) ==
    LET leaders == MerchandiseLeaders(ranked, amountOf)
    IN IF Len(ranked) >= 2 /\ Cardinality(leaders) = 1 /\ leaders \cap Lowest(ranked) = {}
       THEN <<[code |-> "LOWEST_MERCHANDISE_NOT_LOWEST_LANDED_COST", suppliers |-> leaders]>>
       ELSE <<>>

\* One insight for each supplier of a status, in the project's order
StatusInsights(suppliers, results, status, code) ==
    LET order == InOrder({s \in DOMAIN suppliers : results[s].status = status}, <)
    IN [k \in DOMAIN order |-> [code |-> code, suppliers |-> {suppliers[order[k]]}]]

BuildComparisonInsights(suppliers, results, ranked) ==
    LET complete == {s \in DOMAIN suppliers : results[s].status = "COMPLETE"}
        amountOf == [s \in {suppliers[t] : t \in complete} |->
                        results[CHOOSE t \in complete : suppliers[t] = s].merchandiseRankingAmount]
    IN <<WinnerInsight(ranked)>> \o FlipInsight(ranked, amountOf)
       \o StatusInsights(suppliers, results, "INCOMPLETE", "INCOMPLETE_QUOTE")
       \o StatusInsights(suppliers, results, "INVALID", "INVALID_QUOTE")

(* compareSuppliers -------------------------------------------------------*)
QuotesOf(p, supplier) ==
    LET own == InOrder({q \in DOMAIN p.quotes : p.quotes[q].supplier = supplier}, <)
    IN [k \in DOMAIN own |-> p.quotes[own[k]]]
CostsForSupplier(p, supplier) ==
    IF supplier \in DOMAIN p.costs THEN p.costs[supplier] ELSE <<>>

Init ==
    /\ project \in Projects
    /\ phase = "STRUCTURE" /\ refusal = "NONE"
    /\ evaluations = <<>> /\ ranking = <<>> /\ insights = <<>>

OnlyWarns ==                                           \* fault: goes on
    /\ phase = "STRUCTURE"
    /\ refusal' = StructuralIssue(project) /\ phase' = "EVALUATION"
    /\ UNCHANGED <<project, evaluations, ranking, insights>>

ValidateComparisonStructure ==
    /\ phase = "STRUCTURE"
    /\ refusal' = StructuralIssue(project)
    /\ phase' = IF refusal' = "NONE" THEN "EVALUATION" ELSE "REFUSED"
    /\ UNCHANGED <<project, evaluations, ranking, insights>>

EvaluateNext ==
    /\ phase = "EVALUATION" /\ Len(evaluations) < Len(project.suppliers)
    /\ LET supplier == project.suppliers[Len(evaluations) + 1]
       IN evaluations' = Append(evaluations,
            EvaluateSupplier(QuotesOf(project, supplier), project.requirements,
                             CostsForSupplier(project, supplier)))
    /\ phase' = IF Last(evaluations').status = "THROWN" THEN "THROWN" ELSE phase
    /\ UNCHANGED <<project, refusal, ranking, insights>>

RankAndExplain ==
    /\ phase = "EVALUATION" /\ Len(evaluations) = Len(project.suppliers)
    /\ ranking' = RankCompleteSuppliers(project.suppliers, evaluations)
    /\ insights' = BuildComparisonInsights(project.suppliers, evaluations, ranking')
    /\ phase' = IF \E k \in DOMAIN ranking' : ranking'[k].rankingAmount < 0 THEN "THROWN"
                ELSE "DONE"
    /\ UNCHANGED <<project, refusal, evaluations>>

Next == ValidateComparisonStructure \/ EvaluateNext \/ RankAndExplain
Spec == Init /\ [][Next]_vars

(* Properties -------------------------------------------------------------*)
Statuses == {"COMPLETE", "INCOMPLETE", "INVALID", "THROWN"}
CompleteSuppliers == {s \in DOMAIN evaluations : evaluations[s].status = "COMPLETE"}
CostsOf(s) == CostsForSupplier(project, project.suppliers[s])

\* The comparison is in one of its phases and has evaluated a prefix of its
\* suppliers; only a finished one has a ranking and insights.
ComparisonTypeOK ==
    /\ phase \in {"STRUCTURE", "EVALUATION", "REFUSED", "THROWN", "DONE"}
    /\ (phase = "REFUSED") = (refusal # "NONE")
    /\ Len(evaluations) <= Len(project.suppliers)
    /\ \A s \in DOMAIN evaluations : evaluations[s].status \in Statuses
    /\ ranking # <<>> \/ insights # <<>> => phase \in {"DONE", "THROWN"}

\* The assertions the engine makes of itself never fail on a legal project:
\* the allocator places every minor unit within the lines' capacity, the
\* reconciled parts add up to the header, no line settles below zero and no
\* total is negative (AllocationInvariantError, AllocationCapacityError,
\* SettlementReconciliationError, RankingInvariantError).
NoEngineAssertion == phase # "THROWN"

\* Reconciling never turns a cost into a credit nor a discount into a cost,
\* gives nothing to an entry that does not contribute, and moves no entry by
\* more than two and a half minor units from what it is exactly, whatever it
\* absorbs of the others' residual.
EffectsKeepSignAndSize ==
    \A s \in CompleteSuppliers :
        LET result == evaluations[s].result
        IN \A i \in DOMAIN result.effects :
            /\ result.effects[i] >= 0 => result.settledEffects[i] >= 0
            /\ result.effects[i] <= 0 => result.settledEffects[i] <= 0
            /\ 2 * Magnitude(result.settledEffects[i] - result.effects[i]) <= 5 * Minor

\* The order in which a supplier's costs were entered changes no figure: not
\* the header, not an entry's settled effect, not which line absorbed a
\* remainder.
CostOrderChangesNothing ==
    \A s \in CompleteSuppliers :
        \E again \in {EvaluateSupplier(QuotesOf(project, project.suppliers[s]),
                                       project.requirements, Reverse(CostsOf(s)))} :
            /\ again.status = "COMPLETE"
            /\ again.rankingAmount = evaluations[s].rankingAmount
            /\ again.landedLines = evaluations[s].landedLines
            /\ again.result.settledEffects
                = Reverse(evaluations[s].result.settledEffects)

\* Leaving a cost out of the comparison changes the total by that cost and by
\* nothing else: what every other cost comes to, a percentage of a base the
\* left-out cost is part of included, stays as it was.
LeavingACostOutMovesOnlyTheTotal ==
    \A s \in CompleteSuppliers :
        LET costs == CostsOf(s)
            result == evaluations[s].result
        IN \A i \in DOMAIN costs :
            \E other \in {Calculated(result.bases["MERCHANDISE"],
                                     [costs EXCEPT ![i].compared = ~@])} :
                /\ other.magnitudes = result.magnitudes
                /\ Magnitude(other.landed - result.landed)
                    = IF costs[i].included THEN 0 ELSE result.magnitudes[i]

\* A supplier's rank is one more than the number of different amounts below
\* its own, suppliers without a trusted total neither take a rank nor push
\* another's, a tie shares its rank and keeps the project's order, and every
\* supplier is either ranked or explained by an insight of its own.
RankingIsDense ==
    phase = "DONE" =>
        LET amount(s) == evaluations[s].rankingAmount
            place(s) == CHOOSE k \in DOMAIN ranking :
                            ranking[k].supplier = project.suppliers[s]
            explained == {i.suppliers : i \in {j \in Range(insights) :
                                j.code \in {"INCOMPLETE_QUOTE", "INVALID_QUOTE"}}}
        IN /\ {ranking[k].supplier : k \in DOMAIN ranking}
                = {project.suppliers[s] : s \in CompleteSuppliers}
           /\ Len(ranking) = Cardinality(CompleteSuppliers)
           /\ \A s \in CompleteSuppliers :
                ranking[place(s)].rank = 1 + Cardinality(
                    {amount(t) : t \in {u \in CompleteSuppliers : amount(u) < amount(s)}})
           /\ \A s, t \in CompleteSuppliers :
                amount(s) < amount(t) \/ (amount(s) = amount(t) /\ s < t)
                    => place(s) < place(t)
           /\ explained = {{project.suppliers[s]} :
                                s \in (DOMAIN evaluations) \ CompleteSuppliers}

\* What the documentation promises of a settled entry: it stays within a minor
\* unit of the entry's own rounded effect.  (Not so: README.md.)
SettledEffectsStayNear ==
    \A s \in CompleteSuppliers :
        LET result == evaluations[s].result
        IN \A i \in DOMAIN result.effects :
            Magnitude(result.settledEffects[i] - RoundToMinorUnit(result.effects[i])) <= Minor

\* What the comment on assertDiscountsFitEachLine says of proportional
\* discounts: once they fit the merchandise total they fit every line.
ProportionalDiscountsFit ==
    \A s \in DOMAIN evaluations :
        LET costs == CostsOf(s)
            discounts == {i \in DOMAIN costs :
                            costs[i].kind = "DISCOUNT" /\ AffectsPercentageBases(costs[i])}
            quote == QuotesOf(project, project.suppliers[s])[1]
            lines == QuoteLines(quote, project.requirements)
            merchandise == ConvertToBaseCurrency(
                                Total([l \in DOMAIN lines |-> lines[l].value]), quote.currency)
        IN ( /\ evaluations[s].issues = {"INVALID_DISCOUNT"}
             /\ \A i \in DOMAIN costs : CostError(costs[i]) = "NONE"
             /\ \A i \in discounts : costs[i].method = "BY_MERCHANDISE_VALUE" )
           => PercentageBases(merchandise, costs)["MERCHANDISE_AFTER_DISCOUNT"] < 0
=============================================================================
