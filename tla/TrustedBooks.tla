---------------------------- MODULE TrustedBooks ----------------------------
(***************************************************************************)
(* What the book store promises its driver (src/src/book.rs, and BookState *)
(* in src/src/types.rs): a view of each contract that is a whole book or   *)
(* nothing, and an answer to every event that says what became of it.  A   *)
(* book is gained whole, amended one level at a time, and lost with every  *)
(* other book of its venue; nothing is repaired, and nothing changes       *)
(* behind an answer that says otherwise.                                   *)
(***************************************************************************)
EXTENDS Ladder

CONSTANTS Contract, Venue, VenueOf,
          Untrusted     \* what a book shows when it may not be believed

VARIABLES view,         \* per contract, the levels believed, or Untrusted
          answer        \* what the driver is told: a kind, and the contract it is about

Init == /\ view   = [c \in Contract |-> Untrusted]
        /\ answer = <<"none">>

(* A snapshot: the book is believed from here on, whatever it was.         *)
Learn(c) ==
    /\ view'[c] \in Ladders
    /\ view'   = [view EXCEPT ![c] = view'[c]]
    /\ answer' = <<"learned", c>>

(* One level of a book that is believed already.                           *)
Amend(c, side, price) ==
    /\ view[c] # Untrusted /\ view'[c] # Untrusted
    /\ view'   = [view EXCEPT ![c] = [@ EXCEPT ![side][price] = view'[c][side][price]]]
    /\ answer' = <<"amended", c>>

(* A gap, a resubscription or a lost socket.                               *)
Lose(venue) ==
    /\ view'   = [c \in Contract |-> IF VenueOf[c] = venue THEN Untrusted ELSE view[c]]
    /\ answer' = <<"lost">>

Ignore ==
    /\ answer' = <<"none">>
    /\ UNCHANGED view

Next ==
    \/ \E c \in Contract : Learn(c)
    \/ \E c \in Contract, side \in Side, price \in Price : Amend(c, side, price)
    \/ \E venue \in Venue : Lose(venue)
    \/ Ignore

Spec == Init /\ [][Next]_<<view, answer>>
=============================================================================
