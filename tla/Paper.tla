-------------------------------- MODULE Paper --------------------------------
(***************************************************************************)
(* The simulated order client (src/src/exec/paper.rs): an order is filled  *)
(* whole from the copy of the book the engine handed over, or refused.     *)
(* Legs are bought, fill or kill; no other order is ever made.  An order   *)
(* is [id, contract, side, qty, limit].                                    *)
(***************************************************************************)
EXTENDS Solver

AllAtBest(order, book) ==            \* mutant: the whole order goes off at top of book
    LET best == Asks(book, order.side)
    IN  IF best = <<>> THEN <<>> ELSE <<[price |-> best[1].price, size |-> order.qty]>>

PaperLadder(order, book) == Walk(Asks(book, order.side), order.qty)

(* The limit is compared with the average, in whole cents; the fee is      *)
(* charged level by level.                                                 *)
PaperFill(order, book, table) ==
    LET ladder  == PaperLadder(order, book)
        average == TotalCost(ladder, order.qty) \div Max({1, order.qty})
    IN  IF DepthOf(ladder) < order.qty \/ average > order.limit
        THEN [kind |-> "refused"]
        ELSE [kind |-> "filled", qty |-> order.qty, average |-> average,
              fee  |-> FeePerLevel(book.venue, table, order.id, ladder, order.qty)]
=============================================================================
