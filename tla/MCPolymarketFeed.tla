-------------------------- MODULE MCPolymarketFeed --------------------------
(* Two tokens.  The asks and bids of the first trade at one price each,    *)
(* and not at the middle of the ladder: a bid and an ask at one price rest *)
(* at different places.                                                    *)
EXTENDS PolymarketFeed

CONSTANTS A, B

MCVenueOf == [c \in Contract |-> Polymarket]
MCTokens  == <<A, B>>
MCMoving  == {<<A, "ask", 0>>, <<A, "bid", 0>>}
MCRows    == {<<>>}
=============================================================================
