------------------------------- MODULE Solver -------------------------------
(***************************************************************************)
(* From the books of one group of contracts to priced trades: the closed   *)
(* checks (src/src/solver/fast.rs), the gate and the costing               *)
(* (src/src/solver/costing.rs) and their order (src/src/solver/mod.rs).    *)
(*                                                                         *)
(* A group is [kind, members, verified, resolves, inferred].  A book is    *)
(* [venue, live, recent, bids]: bids["yes"] and bids["no"] list the        *)
(* resting levels [price, size] best first, and a bid for one outcome at p *)
(* offers the other at 100 - p.  Prices are cents, times whole hours.  The *)
(* annualized return is a float in the code and compared here by exact     *)
(* cross multiplication.                                                   *)
(***************************************************************************)
EXTENDS Fees, Relations, Places, SequencesExt

CONSTANTS
    MaxPosition,              \* max_position_size, contracts per leg
    MinEdge,                  \* min_net_edge_cents
    ReturnNumer, ReturnDenom  \* min_annualized_return, as a ratio

ASSUME SolverAssumption ==
    /\ MaxPosition \in Nat \ {0} /\ MinEdge \in Nat \ {0}
    /\ ReturnNumer \in Nat /\ ReturnDenom \in Nat \ {0}

(* A ladder of bids or of offers, level by level.                          *)
Level == [price : 0 .. Dollar, size : Nat \ {0}]

BestFirst(bids) ==
    bids \in Seq(Level) /\ \A i \in 2 .. Len(bids) : bids[i].price <= bids[i - 1].price

Other(side) == IF side = "yes" THEN "no" ELSE "yes"

(* Levels on offer of an outcome, cheapest first.                          *)
Asks(book, side) ==
    [i \in DOMAIN book.bids[Other(side)] |->
        [price |-> Dollar - book.bids[Other(side)][i].price,
         size  |-> book.bids[Other(side)][i].size]]

-----------------------------------------------------------------------------
(* Walking a ladder from its cheapest level.                               *)

DepthBefore(ladder, i) == SumFunction([j \in 1 .. i - 1 |-> ladder[j].size])
DepthOf(ladder)        == DepthBefore(ladder, Len(ladder) + 1)

(* Contracts a walk to qty takes at the i-th level.                        *)
Taken(ladder, qty, i) == Max({0, Min({ladder[i].size, qty - DepthBefore(ladder, i)})})

Consumed(ladder, qty) == {i \in DOMAIN ladder : Taken(ladder, qty, i) > 0}

Walk(ladder, want) ==
    [i \in Consumed(ladder, want) |->
        [price |-> ladder[i].price, size |-> Taken(ladder, want, i)]]

TotalCost(ladder, qty) ==
    SumFunction([i \in DOMAIN ladder |-> ladder[i].price * Taken(ladder, qty, i)])

(* The dearest level a walk to qty reaches: the limit its order carries.   *)
WorstPrice(ladder, qty) == ladder[Max(Consumed(ladder, qty))].price

(* The fee is rounded up once for every level.                             *)
FeePerLevel(venue, table, c, ladder, qty) ==
    SumFunction([i \in DOMAIN ladder |->
                    TakerFee(venue, table, c, ladder[i].price, Taken(ladder, qty, i))])

-----------------------------------------------------------------------------
(* The closed checks: legs that are sure to pay a dollar and whose best    *)
(* prices add to less than one.                                            *)

Buy(c, side) == [contract |-> c, side |-> side]

TopCost(books, legs) ==
    SumFunction([i \in DOMAIN legs |-> Asks(books[legs[i].contract], legs[i].side)[1].price])

IfUnderpriced(books, legs) ==
    IF /\ \A i \in DOMAIN legs : Asks(books[legs[i].contract], legs[i].side) # <<>>
       /\ TopCost(books, legs) < Dollar
    THEN <<legs>> ELSE <<>>

Hedge(long, short) == <<Buy(long, "yes"), Buy(short, "no")>>

(* Of a ladder, every neighbouring pair: the weaker claim bought and the   *)
(* stronger one sold.                                                      *)
Inversions(books, ordered) ==
    FlattenSeq([i \in 1 .. Len(ordered) - 1 |->
                   IfUnderpriced(books, Hedge(ordered[i], ordered[i + 1]))])

SoldTheWeaker(g, books) ==            \* mutant: an implication read backwards
    Inversions(books, g.members)

ImplicationCheck(g, books) == Inversions(books, Reverse(g.members))

Candidates(g, books) ==
    LET m == g.members IN
    CASE g.kind = "complement" -> IfUnderpriced(books, Hedge(m[1], m[1]))
      [] g.kind = "exhaustive" ->
             IfUnderpriced(books, [i \in DOMAIN m |-> Buy(m[i], "yes")])
      [] g.kind = "monotone"   -> Inversions(books, m)
      [] g.kind = "implies"    -> ImplicationCheck(g, books)
      [] g.kind = "equivalent" -> IfUnderpriced(books, Hedge(m[1], m[2]))
                                    \o IfUnderpriced(books, Hedge(m[2], m[1]))

(* Before any check: a pair nobody confirmed, or a book that is not sure   *)
(* to say what the venue's says, is not evaluated.                         *)
AnyAge(g, books) ==                   \* mutant: recent is thought enough
    \A i \in DOMAIN g.members : books[g.members[i]].recent

Fresh(g, books) ==
    \A i \in DOMAIN g.members : books[g.members[i]].live /\ books[g.members[i]].recent

Confirmed(g) == g.kind = "equivalent" => g.verified

-----------------------------------------------------------------------------
(* Costing.  Ladders are walked once to the cap; the quantities tried are  *)
(* the level boundaries and the cap, which is the thinnest leg.            *)

OnlyTheCap(ladders, cap) == {cap}     \* mutant: only the largest size is tried

Breakpoints(ladders, cap) ==
    {cap} \cup {q \in UNION {{DepthBefore(ladders[k], i + 1) : i \in DOMAIN ladders[k]} :
                             k \in DOMAIN ladders} : q < cap}

(* Of two quantities as good the smaller one, which is tried first.        *)
Best(offers) ==
    CHOOSE o \in offers : \A p \in offers :
        p.net < o.net \/ (p.net = o.net /\ o.qty <= p.qty)

Ladders(legs, books) ==
    [k \in DOMAIN legs |-> Walk(Asks(books[legs[k].contract], legs[k].side), MaxPosition)]

Cap(ladders) == Min({DepthOf(ladders[k]) : k \in DOMAIN ladders} \cup {MaxPosition})

LegCosts(ladders, q) == [k \in DOMAIN ladders |-> TotalCost(ladders[k], q)]

LegFees(legs, books, table, ladders, q) ==
    [k \in DOMAIN ladders |-> FeePerLevel(books[legs[k].contract].venue, table,
                                          legs[k].contract, ladders[k], q)]

BestTrade(legs, books, table, ladders, cap, payoff) ==
    LET net(q) == payoff * q - SumFunction(LegCosts(ladders, q))
                             - SumFunction(LegFees(legs, books, table, ladders, q))
    IN  Best({[qty |-> q, net |-> net(q)] : q \in Breakpoints(ladders, cap)})

(* The trade of that quantity, at its costs and fees, and why it is not    *)
(* worth making, if it is not.                                             *)
Costed(legs, payoff, best, costs, fees, hours) ==
    LET capital == SumFunction(costs) + SumFunction(fees)
        reason  ==
            IF best.net <= 0 THEN "FeesExceedGap"
            ELSE IF best.net < MinEdge THEN "BelowMinEdge"
            ELSE IF best.net * 8760 * ReturnDenom < ReturnNumer * capital * hours
                 THEN "BelowMinReturn"
            ELSE "none"
    IN  [reason  |-> reason,
         gross   |-> payoff * best.qty - SumFunction(costs),
         net     |-> best.net,
         qty     |-> best.qty,
         capital |-> capital,
         hours   |-> hours,
         legs    |-> [k \in DOMAIN legs |->
                         [contract |-> legs[k].contract, side |-> legs[k].side,
                          cost |-> costs[k], fee |-> fees[k]]]]

CostCandidate(g, legs, books, table, now) ==
    LET ladders == Ladders(legs, books)
        cap     == Cap(ladders)
        payoff  == MinPayoff(g.kind, g.members, legs)
        best    == BestTrade(legs, books, table, ladders, cap, payoff)
    IN  IF payoff <= 0 THEN [reason |-> "PayoffNotGuaranteed", gross |-> 0]
        ELSE IF cap <= 0 THEN [reason |-> "NoDepth", gross |-> 0]
        ELSE Costed(legs, payoff, best, LegCosts(ladders, best.qty),
                    LegFees(legs, books, table, ladders, best.qty),
                    Max({1, g.resolves - now}))    \* MIN_HORIZON_DAYS

(* One group: gated, checked, and every candidate costed.                  *)
Evaluate(g, books, table, now) ==
    IF ~Confirmed(g) \/ ~Fresh(g, books) THEN <<>>
    ELSE LET found == Candidates(g, books)
         IN  [i \in DOMAIN found |-> CostCandidate(g, found[i], books, table, now)]

(* Best return on locked capital first, then the larger profit; the sort   *)
(* is stable, so group order breaks what ties are left.                    *)
Outranks(a, b) ==
    LET left  == a.net * b.capital * b.hours
        right == b.net * a.capital * a.hours
    IN  left > right \/ (left = right /\ a.net > b.net)

Rank(found) ==
    Arranged(found, [i \in DOMAIN found |->
                        Cardinality({j \in DOMAIN found :
                            \/ Outranks(found[j], found[i])
                            \/ j <= i /\ ~Outranks(found[i], found[j])})])
=============================================================================
