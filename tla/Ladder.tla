------------------------------- MODULE Ladder -------------------------------
(***************************************************************************)
(* The price ladders of one binary contract (src/src/types.rs).            *)
(*                                                                         *)
(* A book is two arrays of resting bids, one for the yes outcome and one   *)
(* for the no outcome, indexed by price in cents.  An offer of one outcome *)
(* at p is stored as a bid for the other at Par - p, Par being the payout  *)
(* (100 cents in the code; a parameter here, so that TLC can be given a    *)
(* short ladder).  Sizes are whole contracts.                              *)
(***************************************************************************)
EXTENDS Integers, Sequences

CONSTANT Par                     \* the payout of a contract, in price units

ASSUME ParAssumption == Par \in Nat

Price == 0 .. Par
Side  == {"yes", "no"}           \* which of the two arrays a delta names
Depth == [Price -> Nat]          \* resting size by price
Ladders == [Side -> Depth]

NoDepth     == [p \in Price |-> 0]
EmptyLadder == [s \in Side |-> NoDepth]

-----------------------------------------------------------------------------
(* A snapshot: absolute rows.  A row with a negative size or a price off   *)
(* the ladder rejects the whole snapshot; of two rows at one price the     *)
(* last one stands.                                                        *)

Row == [price : Int, size : Int]

GoodRow(row)   == row.size >= 0 /\ row.price \in Price
GoodRows(rows) == \A i \in DOMAIN rows : GoodRow(rows[i])

LastRowAt(rows, p) ==
    CHOOSE i \in DOMAIN rows :
        /\ rows[i].price = p
        /\ \A j \in DOMAIN rows : rows[j].price = p => j <= i

FromRows(rows) ==
    [p \in Price |-> IF \E i \in DOMAIN rows : rows[i].price = p
                     THEN rows[LastRowAt(rows, p)].size
                     ELSE 0]

FromSnapshot(yes, no) ==
    [s \in Side |-> IF s = "yes" THEN FromRows(yes) ELSE FromRows(no)]

(* A delta: a signed change of one level, clamped at zero.                 *)
NotClamped(n) == n                         \* mutant: the clamp forgotten

Clamped(n) == IF n < 0 THEN 0 ELSE n

ChangeLevel(ladder, side, price, change) ==
    [ladder EXCEPT ![side][price] = Clamped(@ + change)]

(* A level restated outright, by the side of the outcome's own market: an  *)
(* ask is stored as a bid for the complement.                              *)
QuoteSide(token) == IF token = "bid" THEN "yes" ELSE "no"
QuotePrice(token, price) == IF token = "bid" THEN price ELSE Par - price

ReplaceLevel(ladder, token, price, size) ==
    [ladder EXCEPT ![QuoteSide(token)][QuotePrice(token, price)] = size]

-----------------------------------------------------------------------------
(* What the solver and the executors read: size on offer at each price.    *)

BidDepth(ladder)   == ladder["yes"]
AskDepth(ladder)   == [p \in Price |-> ladder["no"][Par - p]]
NoAskDepth(ladder) == [p \in Price |-> ladder["yes"][Par - p]]

Quoted(depth) == {p \in Price : depth[p] > 0}
IsBestLow(depth, p)  == p \in Quoted(depth) /\ \A q \in Quoted(depth) : p <= q
IsBestHigh(depth, p) == p \in Quoted(depth) /\ \A q \in Quoted(depth) : q <= p

(* Best yes bid and best no bid together cost more than the payout.        *)
IsCrossed(ladder) ==
    \E y, n \in Price : /\ IsBestHigh(ladder["yes"], y)
                        /\ IsBestHigh(ladder["no"], n)
                        /\ y + n > Par
=============================================================================
