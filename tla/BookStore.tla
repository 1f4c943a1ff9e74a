----------------------------- MODULE BookStore ------------------------------
(***************************************************************************)
(* The in-memory book store (src/src/book.rs): feed events are applied to  *)
(* the books of every venue, with one sequence expectation per venue.      *)
(*                                                                         *)
(* A book is believed only while it is "Live".  A delta out of sequence    *)
(* takes down every Live book of its venue and clears the expectation; a   *)
(* snapshot is absolute and always rebases it.                             *)
(*                                                                         *)
(* Left out: the counters of BookMetrics, the timestamp a write leaves on  *)
(* a book, and the book's own copy of the sequence number, which nothing   *)
(* reads to take a decision.                                               *)
(***************************************************************************)
EXTENDS Ladder

CONSTANTS
    Venue,        \* the venues
    Contract,     \* the contracts the store was built with
    VenueOf,      \* the venue of each contract
    Stranger,     \* a contract id no book has
    None,         \* no expectation
    Rows,         \* the snapshot sides that may arrive, as sequences of rows
    Changes,      \* the signed size changes a delta may carry
    MaxSize,      \* bound on a level, so that TLC's ladders are finite
    MaxSeq        \* bound on the sequence numbers that may arrive

ASSUME VenueAssumption   == VenueOf \in [Contract -> Venue]
ASSUME StrangerAssumption == Stranger \notin Contract
ASSUME NoneAssumption    == None \notin Nat /\ None \notin Ladders
ASSUME ChangesAssumption == Changes \subseteq Int
ASSUME BoundsAssumption  == MaxSize \in Nat /\ MaxSeq \in Nat
ASSUME RowsAssumption    == Rows \subseteq Seq(Row)

VARIABLES
    state,        \* BookState of each book
    ladder,       \* the levels of each book
    expected,     \* per venue, the next sequence number, or None
    applied       \* the outcome of the last event: Applied, with its contract

books     == <<state, ladder, expected>>
storeVars == <<state, ladder, expected, applied>>

BookState == {"Uninitialized", "Resyncing", "Live"}
Seq0      == 0 .. MaxSeq

(* The outcomes that name the contract they changed are the ones           *)
(* apply_and_mark turns into a dirty contract.                             *)
Quiet  == {"Nothing", "Skipped", "Gap", "UnknownContract", "Invalidated"}
Change == {"Snapshot", "Delta", "LevelSet"}
Applied == [kind : Quiet] \cup [kind : Change, contract : Contract]

Answer(kind)       == applied' = [kind |-> kind]
Changed(kind, c)   == applied' = [kind |-> kind, contract |-> c]

OfVenue(v) == {c \in Contract : VenueOf[c] = v}
LiveBooks  == {c \in Contract : state[c] = "Live"}
LiveOf(v)  == OfVenue(v) \cap LiveBooks

StoreInit ==
    /\ state    = [c \in Contract |-> "Uninitialized"]
    /\ ladder   = [c \in Contract |-> EmptyLadder]
    /\ expected = [v \in Venue |-> None]
    /\ applied  = [kind |-> "Nothing"]

-----------------------------------------------------------------------------
(* Demotions.  They take away the trust, not the levels.                   *)

MarkEveryResyncing(v) ==                   \* mutant: the venue forgotten
    state' = [c \in Contract |-> IF c \in LiveBooks THEN "Resyncing" ELSE state[c]]

MarkVenueResyncing(v) ==
    state' = [c \in Contract |-> IF c \in LiveOf(v) THEN "Resyncing" ELSE state[c]]

InvalidateVenue(v) ==
    /\ state'    = [c \in Contract |-> IF c \in OfVenue(v) THEN "Resyncing" ELSE state[c]]
    /\ expected' = [expected EXCEPT ![v] = None]

-----------------------------------------------------------------------------
(* Any event about a contract the store does not hold.                     *)
ApplyUnknown(c) ==
    /\ c \notin Contract
    /\ Answer("UnknownContract")
    /\ UNCHANGED books

ApplySnapshot(c, yes, no, seq) ==
    /\ c \in Contract
    /\ GoodRows(yes) /\ GoodRows(no)
    /\ state'    = [state EXCEPT ![c] = "Live"]
    /\ ladder'   = [ladder EXCEPT ![c] = FromSnapshot(yes, no)]
    /\ expected' = [expected EXCEPT ![VenueOf[c]] = seq + 1]
    /\ Changed("Snapshot", c)

RejectSnapshot(c, yes, no) ==
    /\ c \in Contract
    /\ ~(GoodRows(yes) /\ GoodRows(no))
    /\ Answer("Skipped")
    /\ UNCHANGED books

(* A delta reaches the ladder only on a Live book of a venue that has an   *)
(* expectation.                                                            *)
Followed(c) == state[c] = "Live" /\ expected[VenueOf[c]] # None

DeltaNotFollowed(c) ==
    /\ c \in Contract
    /\ ~Followed(c)
    /\ Answer("Skipped")
    /\ UNCHANGED books

DeltaGapUnannounced(c, seq) ==             \* mutant: a gap told as a skip
    /\ c \in Contract
    /\ Followed(c)
    /\ seq # expected[VenueOf[c]]
    /\ MarkVenueResyncing(VenueOf[c])
    /\ expected' = [expected EXCEPT ![VenueOf[c]] = None]
    /\ Answer("Skipped")
    /\ UNCHANGED ladder

DeltaGap(c, seq) ==
    /\ c \in Contract
    /\ Followed(c)
    /\ seq # expected[VenueOf[c]]
    /\ MarkVenueResyncing(VenueOf[c])
    /\ expected' = [expected EXCEPT ![VenueOf[c]] = None]
    /\ Answer("Gap")
    /\ UNCHANGED ladder

DeltaNotBehind(c, side, price, change, seq) ==   \* mutant: a later number will do
    /\ c \in Contract
    /\ Followed(c)
    /\ seq >= expected[VenueOf[c]]
    /\ price \in Price
    /\ ladder'   = [ladder EXCEPT ![c] = ChangeLevel(@, side, price, change)]
    /\ expected' = [expected EXCEPT ![VenueOf[c]] = seq + 1]
    /\ Changed("Delta", c)
    /\ UNCHANGED state

DeltaInSequence(c, side, price, change, seq) ==
    /\ c \in Contract
    /\ Followed(c)
    /\ seq = expected[VenueOf[c]]
    /\ price \in Price
    /\ ladder'   = [ladder EXCEPT ![c] = ChangeLevel(@, side, price, change)]
    /\ expected' = [expected EXCEPT ![VenueOf[c]] = seq + 1]
    /\ Changed("Delta", c)
    /\ UNCHANGED state

(* In sequence, but off the ladder: the expectation stays where it was.    *)
DeltaOutOfRange(c, price, seq) ==
    /\ c \in Contract
    /\ Followed(c)
    /\ seq = expected[VenueOf[c]]
    /\ price \notin Price
    /\ Answer("Skipped")
    /\ UNCHANGED books

ApplyDelta(c, side, price, change, seq) ==
    \/ DeltaNotFollowed(c)
    \/ DeltaGap(c, seq)
    \/ DeltaInSequence(c, side, price, change, seq)
    \/ DeltaOutOfRange(c, price, seq)

LevelSetUnguarded(c, token, price, size) ==      \* mutant: on any book
    /\ c \in Contract
    /\ size >= 0 /\ price \in Price
    /\ ladder' = [ladder EXCEPT ![c] = ReplaceLevel(@, token, price, size)]
    /\ Changed("LevelSet", c)
    /\ UNCHANGED <<state, expected>>

ApplyLevelSet(c, token, price, size) ==
    /\ c \in Contract
    /\ state[c] = "Live"
    /\ size >= 0 /\ price \in Price
    /\ ladder' = [ladder EXCEPT ![c] = ReplaceLevel(@, token, price, size)]
    /\ Changed("LevelSet", c)
    /\ UNCHANGED <<state, expected>>

RejectLevelSet(c, price, size) ==
    /\ c \in Contract
    /\ ~(state[c] = "Live" /\ size >= 0 /\ price \in Price)
    /\ Answer("Skipped")
    /\ UNCHANGED books

ApplyDisconnected(v) ==
    /\ InvalidateVenue(v)
    /\ Answer("Invalidated")
    /\ UNCHANGED ladder

ResubscribedAlone(c) ==                    \* mutant: only the book named goes down
    /\ c \in Contract
    /\ expected' = [expected EXCEPT ![VenueOf[c]] = None]
    /\ state'    = [state EXCEPT ![c] = IF @ = "Live" THEN "Resyncing" ELSE @]
    /\ Answer("Invalidated")
    /\ UNCHANGED ladder

(* A new handshake numbers its messages afresh.                            *)
ApplyResubscribed(c) ==
    /\ c \in Contract
    /\ expected' = [expected EXCEPT ![VenueOf[c]] = None]
    /\ MarkVenueResyncing(VenueOf[c])
    /\ Answer("Invalidated")
    /\ UNCHANGED ladder

-----------------------------------------------------------------------------
(* Every event the type of FeedEvent admits, within the bounds.            *)

AnyPrice == 0 .. Par + 1
AnySize  == -1 .. MaxSize

SnapshotArrives == \E c \in Contract, yes, no \in Rows, seq \in Seq0 :
    ApplySnapshot(c, yes, no, seq) \/ RejectSnapshot(c, yes, no)

DeltaArrives == \E c \in Contract, side \in Side, price \in AnyPrice,
                   change \in Changes, seq \in Seq0 :
    /\ price \in Price => ladder[c][side][price] + change <= MaxSize
    /\ ApplyDelta(c, side, price, change, seq)

LevelSetArrives == \E c \in Contract, token \in {"bid", "ask"},
                      price \in AnyPrice, size \in AnySize :
    ApplyLevelSet(c, token, price, size) \/ RejectLevelSet(c, price, size)

StoreNext ==
    \/ SnapshotArrives
    \/ DeltaArrives
    \/ LevelSetArrives
    \/ \E v \in Venue : ApplyDisconnected(v)
    \/ \E c \in Contract : ApplyResubscribed(c)
    \/ ApplyUnknown(Stranger)

StoreSpec == StoreInit /\ [][StoreNext]_storeVars

-----------------------------------------------------------------------------
StoreTypeOK ==
    /\ state    \in [Contract -> BookState]
    /\ ladder   \in [Contract -> Ladders]
    /\ expected \in [Venue -> Nat \cup {None}]
    /\ applied  \in Applied

(* A Live book's venue always has an expectation, so no delta of a Live    *)
(* book is dropped for want of one: the None arm of apply_delta is dead,   *)
(* and every delta of a Live book is checked for continuity.               *)
LiveBacked == \A c \in LiveBooks : expected[VenueOf[c]] # None

(* The blast radius: no event changes the books, or the expectation, of    *)
(* two venues.                                                             *)
Touched(v) ==
    \/ expected'[v] # expected[v]
    \/ \E c \in OfVenue(v) : state'[c] # state[c] \/ ladder'[c] # ladder[c]

OneVenuePerStep == \A v, w \in Venue : Touched(v) /\ Touched(w) => v = w

VenueIsolation == [][OneVenuePerStep]_storeVars

(* The store keeps the promise of TrustedBooks: what apply tells its       *)
(* driver is what it did to the books a reader may believe.  The driver    *)
(* acts on the answer alone (it re-evaluates the contract named, or asks   *)
(* for a resync), so a change behind a quiet answer would be missed.       *)
Told ==
    CASE applied.kind = "Snapshot"            -> <<"learned", applied.contract>>
      [] applied.kind \in {"Delta", "LevelSet"} -> <<"amended", applied.contract>>
      [] applied.kind \in {"Gap", "Invalidated"} -> <<"lost">>
      [] OTHER                                -> <<"none">>

Believed == [c \in Contract |-> IF state[c] = "Live" THEN ladder[c] ELSE None]

Promise == INSTANCE TrustedBooks
    WITH Untrusted <- None, view <- Believed, answer <- Told

KeepsPromise == Promise!Spec
=============================================================================
