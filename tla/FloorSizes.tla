----------------------------- MODULE FloorSizes -----------------------------
(***************************************************************************)
(* Sizes on the wire are in hundredths of a contract; a book holds whole   *)
(* contracts (src/src/types.rs, parse_size_contracts and the two writers   *)
(* of a level).  Every size is floored as it is parsed, a change as much   *)
(* as a snapshot's level, so the level held drifts from the true one: one  *)
(* level, its true size at the venue, and what the book makes of it.       *)
(***************************************************************************)
EXTENDS Integers

CONSTANTS
    SizeChanges,  \* the changes the venue may make, in hundredths
    MaxTrue,      \* bound on the true size, in hundredths
    MaxDeltas     \* bound on deltas between two snapshots

ASSUME SizeChangesAssumption == SizeChanges \subseteq Int
ASSUME MaxTrueAssumption     == MaxTrue \in Nat /\ MaxDeltas \in Nat

Level == INSTANCE Ladder WITH Par <- 0

VARIABLES
    true,         \* the venue's level, in hundredths
    held,         \* the book's level, in contracts
    discarded,    \* hundredths the parser has counted as discarded
    deltas        \* ghost: deltas since the last snapshot

sizeVars == <<true, held, discarded, deltas>>

(* A sign, a whole part and a two-digit fraction: a negative size with a   *)
(* fraction goes down to the next whole one.                               *)
Magnitude(n) == IF n < 0 THEN -n ELSE n
Whole(n)     == Magnitude(n) \div 100
Fraction(n)  == Magnitude(n) % 100

Truncated(n) == IF n < 0 THEN -Whole(n) ELSE Whole(n)       \* mutant: towards zero
DroppedShort(n) == Fraction(n)                              \* mutant: what was written

Parsed(n)    == IF n < 0 THEN -Whole(n) - (IF Fraction(n) # 0 THEN 1 ELSE 0) ELSE Whole(n)
Dropped(n)   == IF n < 0 /\ Fraction(n) # 0 THEN 100 - Fraction(n) ELSE Fraction(n)

SizeInit ==
    /\ true \in 0 .. MaxTrue
    /\ held = Parsed(true) /\ discarded = Dropped(true) /\ deltas = 0

SizeSnapshot ==
    /\ held' = Parsed(true)
    /\ discarded' = Dropped(true)      \* counted afresh, to be compared
    /\ deltas' = 0
    /\ UNCHANGED true

SizeDelta(change) ==
    /\ deltas < MaxDeltas
    /\ true + change \in 0 .. MaxTrue
    /\ true'      = true + change
    /\ held'      = Level!Clamped(held + Parsed(change))
    /\ discarded' = discarded + Dropped(change)
    /\ deltas'    = deltas + 1

SizeNext == SizeSnapshot \/ \E change \in SizeChanges : SizeDelta(change)

SizeSpec == SizeInit /\ [][SizeNext]_sizeVars

-----------------------------------------------------------------------------
SizeTypeOK == true \in Nat /\ held \in Nat /\ discarded \in Nat /\ deltas \in Nat

(* The book never shows depth that is not there: the direction types.rs    *)
(* calls safe, whatever fractions come and whenever a level is clamped.    *)
NeverOverstates == 100 * held <= true

(* What is missing from the book is at most what the parser counted as     *)
(* discarded, and less than one contract for each message since the last   *)
(* snapshot.                                                               *)
ShortfallIsCounted ==
    /\ true - 100 * held <= discarded
    /\ discarded <= 99 * (deltas + 1)
=============================================================================
