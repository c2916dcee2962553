------------------------ MODULE MCSupplierComparison ------------------------
(* Small families of projects, each aimed at one part of the comparison.     *)
EXTENDS SupplierComparison

MCRate == [c \in Currencies |-> IF c = "USD" THEN 3 ELSE 0]

(* Pieces of a project ----------------------------------------------------*)
Requirement(id, quantity, unit) == [id |-> id, quantity |-> quantity, unit |-> unit]
Item(requirement, price) ==
    [requirement |-> requirement, price |-> price, currency |-> "TRY",
     moq |-> Unset, pack |-> Unset]
Quote(supplier, items) == [supplier |-> supplier, currency |-> "TRY", items |-> items]
Fixed(id, kind, amount, method) ==
    [id |-> id, kind |-> kind, category |-> "FREIGHT", basis |-> "FIXED",
     currency |-> "TRY", amount |-> amount, rate |-> 0, base |-> "MERCHANDISE",
     included |-> FALSE, compared |-> TRUE, method |-> method]
Rated(id, kind, category, rate, base) ==
    [Fixed(id, kind, 0, "EQUAL_PER_LINE") EXCEPT
        !.category = category, !.basis = "PERCENTAGE", !.rate = rate, !.base = base]

\* One supplier "s" offering a unit of each line at the given prices
OneSupplier(prices, units, costs) ==
    [base |-> "TRY",
     requirements |-> [l \in DOMAIN prices |-> Requirement(l, l, units[l])],
     suppliers |-> <<"s">>,
     quotes |-> <<Quote("s", [l \in DOMAIN prices |->
                                [Item(l, prices[l]) EXCEPT !.pack = l]])>>,
     costs |-> [s \in {"s"} |-> costs]]

SameUnit == <<"pcs", "pcs", "pcs">>
TwoUnits == <<"pcs", "kg", "pcs">>

(* Settlement: one line, up to four fixed entries -------------------------*)
Kinds == {"COST", "DISCOUNT", "SURCHARGE"}
SettlementCosts ==
    {<<Fixed(1, k, a, "BY_MERCHANDISE_VALUE"), Fixed(2, j, b, "BY_MERCHANDISE_VALUE"),
       Fixed(3, "COST", c, "BY_MERCHANDISE_VALUE"),
       Fixed(4, "DISCOUNT", d, "BY_MERCHANDISE_VALUE")>> :
        k \in {"COST", "DISCOUNT"}, j \in {"SURCHARGE", "DISCOUNT"},
        a \in {3, 5, 94}, b \in {0, 3, 4}, c \in {3, 15}, d \in {0, 5, 9}}
SettlementProjects ==
    {OneSupplier(<<m>>, SameUnit, costs) : m \in {4, 5, 14, 20}, costs \in SettlementCosts}

\* Settlement: a large entry that absorbs what three small ones were rounded by
ResidualProjects ==
    {OneSupplier(<<m>>, SameUnit,
                 <<Fixed(1, "COST", a, "BY_MERCHANDISE_VALUE"),
                   Fixed(2, "COST", b, "BY_MERCHANDISE_VALUE"),
                   Fixed(3, "COST", b, "BY_MERCHANDISE_VALUE"),
                   Fixed(4, "DISCOUNT", 5, "BY_MERCHANDISE_VALUE")>>) :
        m \in {14, 24}, a \in {200, 300}, b \in {2, 3, 4}}

(* Lines: up to three lines, two costs, every method and flag -------------*)
LineCosts ==
    {<<[Fixed(1, "DISCOUNT", a, m) EXCEPT !.compared = c], Fixed(2, k, b, n)>> :
        a \in {0, 4, 6, 9}, b \in {3, 5}, k \in {"COST", "DISCOUNT"},
        m \in Methods, n \in Methods, c \in BOOLEAN}
LineProjects ==
    {OneSupplier(prices, units, costs) :
        prices \in {<<0>>, <<4, 4>>, <<0, 9>>, <<4, 4, 4>>, <<5, 1, 14>>},
        units \in {SameUnit, TwoUnits}, costs \in LineCosts}

(* Capacity: discounts on lines whose settled values are below them -------*)
CapacityProjects ==
    {OneSupplier(<<p, q, r>>, SameUnit,
                 <<Fixed(1, "DISCOUNT", a, m), Fixed(2, "DISCOUNT", b, n),
                   Fixed(3, "SURCHARGE", c, "EQUAL_PER_LINE")>>) :
        p \in {4, 6, 15}, q \in {5, 14}, r \in {4, 16}, a \in {3, 8, 14}, b \in {4, 5, 15},
        c \in {2, 6}, m \in {"BY_MERCHANDISE_VALUE", "EQUAL_PER_LINE"},
        n \in {"BY_MERCHANDISE_VALUE", "BY_QUANTITY"}}

(* Bases: percentages of each stage, included and left out ----------------*)
BaseCosts ==
    {<<Rated(1, "DISCOUNT", "OTHER", r, base),
       [Rated(2, "COST", category, 50, from) EXCEPT !.included = i, !.compared = c],
       Rated(3, "SURCHARGE", "OTHER", 10, "MERCHANDISE_PLUS_FREIGHT_INSURANCE")>> :
        r \in {50, 110}, base \in {"MERCHANDISE", "MERCHANDISE_AFTER_DISCOUNT"},
        category \in {"FREIGHT", "DUTY"},
        from \in {"MERCHANDISE", "MERCHANDISE_AFTER_DISCOUNT",
                  "MERCHANDISE_PLUS_FREIGHT_INSURANCE"},
        i \in BOOLEAN, c \in BOOLEAN}
BaseProjects == {OneSupplier(<<40, 80>>, SameUnit, costs) : costs \in BaseCosts}

(* Suppliers: three suppliers, each with a quote of some quality ----------*)
TwoRequirements == <<Requirement("r", 3, "pcs"), Requirement("t", 2, "kg")>>
ItemsOf ==
    {<<>>, <<Item("r", 4)>>, <<Item("r", 4), Item("r", 4)>>,
     <<Item("r", 4), Item("u", 4)>>,
     <<Item("r", 4), Item("t", 9)>>, <<Item("r", 2), Item("t", 6)>>,
     <<Item("r", 0), Item("t", 0)>>,
     <<[Item("r", 1) EXCEPT !.moq = 5, !.pack = 2], Item("t", 9)>>,
     <<[Item("r", 4) EXCEPT !.moq = 0], Item("t", 9)>>,
     <<[Item("r", 4) EXCEPT !.currency = "USD"], Item("t", 9)>>}
QuotesOfSupplier(s) ==
    {<<>>} \cup {<<Quote(s, items)>> : items \in ItemsOf}
           \cup {<<[supplier |-> s, currency |-> c,
                    items |-> <<[Item("r", 2) EXCEPT !.currency = c],
                                [Item("t", 1) EXCEPT !.currency = c]>>]>> :
                 c \in {"USD", "EUR"}}
SupplierProjects ==
    {[base |-> "TRY", requirements |-> TwoRequirements, suppliers |-> <<"s", "t", "u">>,
      quotes |-> a \o b \o c,
      costs |-> [s \in {"t"} |-> <<Fixed(1, "COST", 5, "BY_QUANTITY")>>]] :
        a \in QuotesOfSupplier("s"), b \in QuotesOfSupplier("t"), c \in QuotesOfSupplier("u")}

(* Structure: what the comparison refuses ---------------------------------*)
StructureProjects ==
    LET sound == OneSupplier(<<4>>, SameUnit, <<>>)
    IN {sound, [sound EXCEPT !.base = "USD"], [sound EXCEPT !.requirements = <<>>],
        [sound EXCEPT !.requirements = @ \o @],
        [sound EXCEPT !.requirements[1].quantity = 0],
        [sound EXCEPT !.suppliers = @ \o @], [sound EXCEPT !.quotes = @ \o @],
        [sound EXCEPT !.quotes[1].supplier = "x"],
        OneSupplier(<<4>>, SameUnit, <<Fixed(1, "COST", -1, "BY_QUANTITY")>>),
        OneSupplier(<<4>>, SameUnit, <<[Fixed(1, "COST", 4, "BY_QUANTITY") EXCEPT
                                          !.currency = "EUR"]>>),
        OneSupplier(<<4>>, SameUnit, <<Fixed(1, "COST", 4, "BY_QUANTITY"),
                                       Fixed(1, "COST", 4, "BY_QUANTITY")>>)}

AllProjects ==
    SettlementProjects \cup ResidualProjects \cup LineProjects \cup CapacityProjects
        \cup BaseProjects \cup SupplierProjects
    \cup StructureProjects

\* Three lines worth the same and three discounts that take all of it
WholeDiscounts ==
    {OneSupplier(<<a, a, a>>, SameUnit,
                 [i \in 1..3 |-> Fixed(i, "DISCOUNT", a, "BY_MERCHANDISE_VALUE")]) :
        a \in 1..20}
=============================================================================
