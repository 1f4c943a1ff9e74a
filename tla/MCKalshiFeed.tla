---------------------------- MODULE MCKalshiFeed ----------------------------
(* Two tickers with one price each.  The no side of a book rests, the yes  *)
(* side trades between empty and one contract.                             *)
EXTENDS KalshiFeed

CONSTANTS A, B

MCVenueOf == [c \in Contract |-> Kalshi]
MCChanges == {-1, 1}
MCRows    == {<<>>}

Resting(n) == [s \in Side |-> [p \in Price |-> IF s = "no" THEN n ELSE 0]]

(* Every market has an order at rest.                                      *)
MCOpening == {[c \in Contract |-> Resting(1)]}
=============================================================================
