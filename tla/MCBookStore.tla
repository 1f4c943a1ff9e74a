---------------------------- MODULE MCBookStore -----------------------------
(* Two contracts of one venue and one of another, on a ladder of two       *)
(* prices: enough for a gap on one book to reach another, and to miss a    *)
(* third.                                                                  *)
EXTENDS BookStore

CONSTANTS K1, K2, P1, Kalshi, Polymarket

MCVenueOf == [c \in Contract |-> IF c = P1 THEN Polymarket ELSE Kalshi]

MCRows == {<<>>,
           <<[price |-> 0, size |-> 1]>>,
           <<[price |-> 0, size |-> -1]>>}
MCChanges == {-1, 1}
=============================================================================
