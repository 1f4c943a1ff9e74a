-------------------------- MODULE MCPortfolioDays ---------------------------
(* A binary event E1 with one contract, held as a pair that gains, or as   *)
(* one that fees made a loss, like the one of portfolio.rs's own tests; and *)
(* an exhaustive event E2 with two contracts.                              *)
EXTENDS PortfolioDays

CONSTANTS E1, E2, X, Y1, Y2

MCOutcomesOf == [e \in Event |-> IF e = E1 THEN {X} ELSE {Y1, Y2}]

LegOf(o, s, n) == [outcome |-> o, side |-> s, qty |-> n]

Pair == [event |-> E1, legs |-> <<LegOf(X, "yes", 1), LegOf(X, "no", 1)>>, cost |-> 3]
Dear == [event |-> E1, legs |-> <<LegOf(X, "yes", 1), LegOf(X, "no", 1)>>, cost |-> 6]
Both == [event |-> E2, legs |-> <<LegOf(Y1, "yes", 1), LegOf(Y2, "yes", 1)>>, cost |-> 3]

MCHeld == {Pair, Dear, Both}

(* Every contract is bid for alike; each side of it in any way.            *)
MCBids == {[o \in Outcome |-> bid] : bid \in [{"yes", "no"} -> {0, 1, 4}]}
=============================================================================
