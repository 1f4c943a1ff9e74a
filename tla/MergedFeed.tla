----------------------------- MODULE MergedFeed -----------------------------
(***************************************************************************)
(* Several feeds driven as one (src/src/feed/merged.rs): the state the     *)
(* merge keeps and its steps, which Recording composes with the feeds and  *)
(* the recorders of a run.                                                 *)
(*                                                                         *)
(* Of the events only their number counts here.  select_all, an external   *)
(* library, polls the futures in the order they were pushed and takes the  *)
(* first that is ready.  A feed is ready when it has an event, or has      *)
(* closed with none left.                                                  *)
(***************************************************************************)
EXTENDS Integers, Sequences, FiniteSetsExt

CONSTANTS
    Feeds,        \* how many
    Capacity      \* of each feed's channel

ASSUME FeedsAssumption == Feeds \in Nat /\ Capacity \in Nat \ {0}

Feed == 1 .. Feeds

VARIABLES
    arrived,      \* of each feed, how many events wait to be delivered
    closed,       \* feeds that will never produce again
    finished,     \* feeds the merge has seen the end of
    stopping,     \* stop has been called
    ended         \* the merge has returned None

mergeVars == <<arrived, closed, finished, stopping, ended>>

Ready(i) == arrived[i] > 0 \/ i \in closed

(* The futures of one pass: those of the feeds not finished, in order.     *)
Pushed[i \in 0 .. Feeds] ==
    IF i = 0 THEN <<>> ELSE Pushed[i - 1] \o (IF i \in finished THEN <<>> ELSE <<i>>)

Pending == Pushed[Feeds]

Which == Min({k \in DOMAIN Pending : Ready(Pending[k])})
SomeReady == \E k \in DOMAIN Pending : Ready(Pending[k])

(* The feed that speaks, and the one a position of this pass is taken for. *)
Spoke == Pending[Which]
SameIndex(which) == which                 \* mutant: the position taken for the feed

IndexOf(which) == Pending[which]

MergeInit == /\ arrived = [i \in Feed |-> 0] /\ closed = {} /\ finished = {}
             /\ stopping = FALSE /\ ended = FALSE

MergeAgain == /\ arrived' = [i \in Feed |-> 0] /\ closed' = {} /\ finished' = {}
              /\ stopping' = FALSE /\ ended' = FALSE

Arrive(i) ==
    /\ i \notin closed /\ arrived[i] < Capacity
    /\ arrived' = [arrived EXCEPT ![i] = @ + 1]
    /\ UNCHANGED <<closed, finished, stopping, ended>>

Close(i) ==
    /\ i \notin closed
    /\ closed' = closed \cup {i}
    /\ UNCHANGED <<arrived, finished, stopping, ended>>

StopAll ==
    /\ ~stopping /\ stopping' = TRUE
    /\ UNCHANGED <<arrived, closed, finished, ended>>

Deliver ==
    /\ ~ended /\ SomeReady /\ arrived[Spoke] > 0
    /\ arrived' = [arrived EXCEPT ![Spoke] = @ - 1]
    /\ UNCHANGED <<closed, finished, stopping, ended>>

FinishAll ==                              \* mutant: one end taken for the end
    /\ ~ended /\ SomeReady /\ arrived[Spoke] = 0
    /\ finished' = Feed
    /\ UNCHANGED <<arrived, closed, stopping, ended>>

Finish ==
    /\ ~ended /\ SomeReady /\ arrived[Spoke] = 0
    /\ finished' = finished \cup {IndexOf(Which)}
    /\ UNCHANGED <<arrived, closed, stopping, ended>>

End ==
    /\ ~ended /\ Pending = <<>>
    /\ ended' = TRUE
    /\ UNCHANGED <<arrived, closed, finished, stopping>>
=============================================================================
