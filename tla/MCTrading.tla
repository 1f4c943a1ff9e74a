----------------------------- MODULE MCTrading ------------------------------
(* Two events under one theme, one of two contracts.  Every opportunity *)
(* is two legs that together cost less than the payout, as the solver's    *)
(* are.                                                                    *)
EXTENDS Trading

CONSTANTS E1, E2, X1, X2, Y1, Theme

MCThemeOf == [e \in Event |-> Theme]

At(p, n) == [price |-> p, size |-> n]
LegOf(o, s, l) == [outcome |-> o, side |-> s, levels |-> l, fee |-> 0,
                   qty |-> MapThenSumSet(LAMBDA i : l[i].size, DOMAIN l)]
PairOf(event, inferred, a, b) ==
    [event |-> event, inferred |-> inferred, legs |-> <<a, b>>]

(* A complement that locks 4 cents, and a ladder on the same event whose   *)
(* relation was inferred from titles.                                      *)
Plain    == PairOf(E1, FALSE, LegOf(X1, "yes", <<At(2, 1)>>), LegOf(X1, "no", <<At(2, 1)>>))
Inferred == PairOf(E1, TRUE,  LegOf(X1, "yes", <<At(3, 1)>>), LegOf(X2, "no", <<At(1, 1)>>))

(* A leg of two contracts at two prices: 3 cents as costed, no whole-cent  *)
(* average, and a limit that would bear 4.                                 *)
Deep == PairOf(E2, FALSE, LegOf(Y1, "yes", <<At(1, 1), At(2, 1)>>),
                          LegOf(Y1, "no", <<At(1, 2)>>))

MCMixed == {Plain, Inferred, Deep}
=============================================================================
