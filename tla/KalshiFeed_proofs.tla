------------------------- MODULE KalshiFeed_proofs --------------------------
(***************************************************************************)
(* Theorems about the book store, for any contracts, venues, ladder and    *)
(* sequence numbers; about the Kalshi feed that fills it, for any          *)
(* contracts, ladders, channel capacity and number of faults; and, at the  *)
(* end, about the floored sizes the feed parses, for any changes of a      *)
(* level.                                                                  *)
(***************************************************************************)
EXTENDS KalshiFeed, FloorSizes, FiniteSetTheorems, FunctionTheorems, WellFoundedInduction, TLAPS

-----------------------------------------------------------------------------
(* The ladder operators.                                                   *)

(* A level restated by its market's side and price is read back at that    *)
(* side and price: storing an ask as a bid for the complement (types.rs,   *)
(* replace_level) and reading it through asks() is the identity.           *)
LEMMA QuoteIsReadBack ==
    ASSUME NEW lad \in Ladders, NEW price \in Price, NEW size \in Nat
    PROVE  /\ BidDepth(ReplaceLevel(lad, "bid", price, size))[price] = size
           /\ AskDepth(ReplaceLevel(lad, "ask", price, size))[price] = size
<1>1. BidDepth(ReplaceLevel(lad, "bid", price, size))[price] = size
  BY DEF BidDepth, ReplaceLevel, QuoteSide, QuotePrice, Ladders, Side, Depth
<1>2. AskDepth(ReplaceLevel(lad, "ask", price, size))[price] = size
  <2>1. Par - price \in Price
    BY ParAssumption DEF Price
  <2>2. ReplaceLevel(lad, "ask", price, size)["no"][Par - price] = size
    BY <2>1 DEF ReplaceLevel, QuoteSide, QuotePrice, Ladders, Side, Depth
  <2> QED  BY <2>2 DEF AskDepth
<1> QED  BY <1>1, <1>2

(* A book is crossed exactly when buying both outcomes from it costs less  *)
(* than the payout: the two ladders the complement path reads (asks and    *)
(* no_asks) agree with is_crossed, which reads the raw arrays.             *)
LEMMA CrossedIsCheapPair ==
    ASSUME NEW lad \in Ladders
    PROVE  IsCrossed(lad) <=>
             \E a, b \in Price : /\ IsBestLow(AskDepth(lad), a)
                                 /\ IsBestLow(NoAskDepth(lad), b)
                                 /\ a + b < Par
<1>1. ASSUME NEW p \in Price
      PROVE  /\ Par - p \in Price
             /\ IsBestHigh(lad["no"], p)  <=> IsBestLow(AskDepth(lad), Par - p)
             /\ IsBestHigh(lad["yes"], p) <=> IsBestLow(NoAskDepth(lad), Par - p)
  <2>1. \A q \in Price : Par - q \in Price /\ Par - (Par - q) = q
    BY ParAssumption DEF Price
  <2>2. \A q \in Price : AskDepth(lad)[Par - q] = lad["no"][q]
    BY <2>1 DEF AskDepth
  <2>3. \A q \in Price : NoAskDepth(lad)[Par - q] = lad["yes"][q]
    BY <2>1 DEF NoAskDepth
  <2>4. \A q \in Price : p >= q <=> Par - p <= Par - q
    BY ParAssumption DEF Price
  <2>5. IsBestHigh(lad["no"], p) <=> IsBestLow(AskDepth(lad), Par - p)
    BY <2>1, <2>2, <2>4, ParAssumption DEF IsBestHigh, IsBestLow, Quoted, Price
  <2>6. IsBestHigh(lad["yes"], p) <=> IsBestLow(NoAskDepth(lad), Par - p)
    BY <2>1, <2>3, <2>4, ParAssumption DEF IsBestHigh, IsBestLow, Quoted, Price
  <2> QED  BY <2>1, <2>5, <2>6
<1>2. ASSUME IsCrossed(lad)
      PROVE  \E a, b \in Price : /\ IsBestLow(AskDepth(lad), a)
                                 /\ IsBestLow(NoAskDepth(lad), b)
                                 /\ a + b < Par
  <2>1. PICK y, n \in Price : /\ IsBestHigh(lad["yes"], y)
                              /\ IsBestHigh(lad["no"], n)
                              /\ y + n > Par
    BY <1>2 DEF IsCrossed
  <2>2. (Par - n) + (Par - y) < Par
    BY <2>1, ParAssumption DEF Price
  <2> QED  BY <2>1, <2>2, <1>1
<1>3. ASSUME NEW a \in Price, NEW b \in Price,
             IsBestLow(AskDepth(lad), a), IsBestLow(NoAskDepth(lad), b), a + b < Par
      PROVE  IsCrossed(lad)
  <2>1. /\ Par - a \in Price /\ Par - b \in Price
        /\ Par - (Par - a) = a /\ Par - (Par - b) = b
        /\ (Par - b) + (Par - a) > Par
    BY <1>3, ParAssumption DEF Price
  <2>2. IsBestHigh(lad["no"], Par - a) /\ IsBestHigh(lad["yes"], Par - b)
    BY <2>1, <1>1, <1>3
  <2> QED  BY <2>1, <2>2 DEF IsCrossed
<1> QED  BY <1>2, <1>3

(* Every nonempty set of naturals has a least element.                     *)
LEMMA LeastNatural ==
    ASSUME NEW T, T \subseteq Nat, T # {}
    PROVE  \E x \in T : \A y \in T : x <= y
<1> DEFINE R == OpToRel(<, Nat)
<1>1. IsWellFoundedOn(R, Nat)
  BY NatLessThanWellFounded
<1>2. \A x, y \in Nat : y < x => <<y, x>> \in R
  BY DEF OpToRel
<1> HIDE DEF R
<1>3. PICK x \in T : \A y \in T : ~ (<<y, x>> \in R)
  BY <1>1, WFMin
<1>4. ASSUME NEW y \in T
      PROVE  x <= y
  <2>1. x \in Nat /\ y \in Nat
    OBVIOUS
  <2>2. ~ (y < x)
    BY <2>1, <1>2, <1>3
  <2> QED  BY <2>1, <2>2
<1> QED  BY <1>4

(* Of the rows at one price, one comes last, and it is the one that counts *)
(* (types.rs, set_level: the last write wins).                             *)
LEMMA LastRowIsARow ==
    ASSUME NEW rows \in Seq(Row), NEW p,
           \E i \in DOMAIN rows : rows[i].price = p
    PROVE  /\ LastRowAt(rows, p) \in DOMAIN rows
           /\ rows[LastRowAt(rows, p)].price = p
<1> DEFINE At   == {i \in DOMAIN rows : rows[i].price = p}
           Back == {Len(rows) - i : i \in At}
<1>1. DOMAIN rows = 1 .. Len(rows) /\ Len(rows) \in Nat
  OBVIOUS
<1>2. Back \subseteq Nat /\ Back # {}
  BY <1>1
<1>3. PICK x \in Back : \A y \in Back : x <= y
  BY <1>2, LeastNatural
<1>4. PICK i \in At : x = Len(rows) - i
  OBVIOUS
<1>5. ASSUME NEW j \in At
      PROVE  j <= i
  <2>1. Len(rows) - i <= Len(rows) - j
    BY <1>3, <1>4
  <2> QED  BY <2>1, <1>1
<1>6. \E k \in DOMAIN rows : /\ rows[k].price = p
                             /\ \A j \in DOMAIN rows : rows[j].price = p => j <= k
  BY <1>4, <1>5
<1> QED  BY <1>6 DEF LastRowAt

(* Every operation of the store leaves a ladder a ladder.                  *)
LEMMA SnapshotIsLadder ==
    ASSUME NEW yes \in Rows, NEW no \in Rows, GoodRows(yes), GoodRows(no)
    PROVE  FromSnapshot(yes, no) \in Ladders
<1>1. ASSUME NEW rows \in Rows, GoodRows(rows)
      PROVE  FromRows(rows) \in Depth
  <2> SUFFICES ASSUME NEW p \in Price, \E i \in DOMAIN rows : rows[i].price = p
               PROVE  rows[LastRowAt(rows, p)].size \in Nat
    BY DEF FromRows, Depth
  <2>1. rows \in Seq(Row)
    BY RowsAssumption
  <2>2. LastRowAt(rows, p) \in DOMAIN rows
    BY <2>1, LastRowIsARow
  <2>3. \A i \in DOMAIN rows : rows[i] \in Row
    BY <2>1
  <2>4. rows[LastRowAt(rows, p)].size \in Int
    BY <2>2, <2>3 DEF Row
  <2> QED  BY <2>2, <2>4, <1>1 DEF GoodRows, GoodRow
<1> QED  BY <1>1 DEF FromSnapshot, Ladders, Side

LEMMA ChangeIsLadder ==
    ASSUME NEW lad \in Ladders, NEW side \in Side, NEW price \in Price, NEW change \in Int
    PROVE  ChangeLevel(lad, side, price, change) \in Ladders
<1>1. Clamped(lad[side][price] + change) \in Nat
  BY DEF Clamped, Ladders, Depth
<1> QED  BY <1>1 DEF ChangeLevel, Ladders, Depth

LEMMA ReplaceIsLadder ==
    ASSUME NEW lad \in Ladders, NEW token \in {"bid", "ask"},
           NEW price \in Price, NEW size \in Nat
    PROVE  ReplaceLevel(lad, token, price, size) \in Ladders
BY ParAssumption DEF ReplaceLevel, QuoteSide, QuotePrice, Ladders, Depth, Side, Price

LEMMA OutcomeType ==
    ASSUME NEW c \in Contract
    PROVE  /\ \A kind \in Quiet : Answer(kind) => applied' \in Applied
           /\ \A kind \in Change : Changed(kind, c) => applied' \in Applied
BY DEF Answer, Changed, Applied

-----------------------------------------------------------------------------
(* Type correctness.                                                       *)

LEMMA StoreTypeInit == StoreInit => StoreTypeOK
BY DEF StoreInit, StoreTypeOK, BookState, EmptyLadder, NoDepth, Ladders, Depth, Applied, Quiet

LEMMA StoreTypeStep == StoreTypeOK /\ [StoreNext]_storeVars => StoreTypeOK'
<1> SUFFICES ASSUME StoreTypeOK, [StoreNext]_storeVars
             PROVE  StoreTypeOK'
  OBVIOUS
<1> USE DEF StoreTypeOK
<1>1. CASE SnapshotArrives
  <2>1. PICK c \in Contract, yes \in Rows, no \in Rows, seq \in Seq0 :
            ApplySnapshot(c, yes, no, seq) \/ RejectSnapshot(c, yes, no)
    BY <1>1 DEF SnapshotArrives
  <2>2. CASE ApplySnapshot(c, yes, no, seq)
    <3>1. FromSnapshot(yes, no) \in Ladders
      BY <2>2, SnapshotIsLadder DEF ApplySnapshot
    <3>2. VenueOf[c] \in Venue /\ seq + 1 \in Nat
      BY VenueAssumption, BoundsAssumption DEF Seq0
    <3>3. applied' \in Applied
      BY <2>2, OutcomeType DEF ApplySnapshot, Change
    <3> QED  BY <2>2, <3>1, <3>2, <3>3 DEF ApplySnapshot, BookState
  <2>3. CASE RejectSnapshot(c, yes, no)
    BY <2>3, OutcomeType DEF RejectSnapshot, books, Quiet
  <2> QED  BY <2>1, <2>2, <2>3
<1>2. CASE DeltaArrives
  <2>1. PICK c \in Contract, side \in Side, price \in AnyPrice,
             change \in Changes, seq \in Seq0 : ApplyDelta(c, side, price, change, seq)
    BY <1>2 DEF DeltaArrives
  <2>2. CASE DeltaNotFollowed(c) \/ DeltaOutOfRange(c, price, seq)
    BY <2>2, OutcomeType DEF DeltaNotFollowed, DeltaOutOfRange, books, Quiet
  <2>3. CASE DeltaGap(c, seq)
    <3>1. applied' \in Applied
      BY <2>3, OutcomeType DEF DeltaGap, Quiet
    <3> QED  BY <2>3, <3>1 DEF DeltaGap, MarkVenueResyncing, BookState
  <2>4. CASE DeltaInSequence(c, side, price, change, seq)
    <3>1. ChangeLevel(ladder[c], side, price, change) \in Ladders
      BY <2>4, ChangeIsLadder, ChangesAssumption DEF DeltaInSequence
    <3>2. seq + 1 \in Nat
      BY BoundsAssumption DEF Seq0
    <3>3. applied' \in Applied
      BY <2>4, OutcomeType DEF DeltaInSequence, Change
    <3> QED  BY <2>4, <3>1, <3>2, <3>3 DEF DeltaInSequence
  <2> QED  BY <2>1, <2>2, <2>3, <2>4 DEF ApplyDelta
<1>3. CASE LevelSetArrives
  <2>1. PICK c \in Contract, token \in {"bid", "ask"}, price \in AnyPrice, size \in AnySize :
            ApplyLevelSet(c, token, price, size) \/ RejectLevelSet(c, price, size)
    BY <1>3 DEF LevelSetArrives
  <2>2. CASE ApplyLevelSet(c, token, price, size)
    <3>1. size \in Nat
      BY <2>2, BoundsAssumption DEF ApplyLevelSet, AnySize
    <3>2. ReplaceLevel(ladder[c], token, price, size) \in Ladders
      BY <2>2, <3>1, ReplaceIsLadder DEF ApplyLevelSet
    <3>3. applied' \in Applied
      BY <2>2, OutcomeType DEF ApplyLevelSet, Change
    <3> QED  BY <2>2, <3>2, <3>3 DEF ApplyLevelSet
  <2>3. CASE RejectLevelSet(c, price, size)
    BY <2>3, OutcomeType DEF RejectLevelSet, books, Quiet
  <2> QED  BY <2>1, <2>2, <2>3
<1>4. ASSUME NEW v \in Venue, ApplyDisconnected(v)
      PROVE  StoreTypeOK'
  BY <1>4 DEF ApplyDisconnected, InvalidateVenue, Answer, Applied, Quiet, BookState
<1>5. ASSUME NEW c \in Contract, ApplyResubscribed(c)
      PROVE  StoreTypeOK'
  BY <1>5 DEF ApplyResubscribed, MarkVenueResyncing, Answer, Applied, Quiet, BookState
<1>6. CASE ApplyUnknown(Stranger)
  BY <1>6 DEF ApplyUnknown, Answer, Applied, Quiet, books
<1>7. CASE UNCHANGED storeVars
  BY <1>7 DEF storeVars
<1> QED  BY <1>1, <1>2, <1>3, <1>4, <1>5, <1>6, <1>7 DEF StoreNext

(* The store's variables keep their types, under any stream of events.     *)
THEOREM StoreTypeCorrect == StoreSpec => []StoreTypeOK
<1> QED  BY StoreTypeInit, StoreTypeStep, PTL DEF StoreSpec

-----------------------------------------------------------------------------
(* An event that leaves the books alone and says so.                       *)
QuietStep == UNCHANGED books /\ (Told' = <<"none">> \/ UNCHANGED applied)

(* The case split of the proofs below: a step leaves the books alone, or   *)
(* is one of six that do not.                                              *)
LEMMA StepCases ==
    ASSUME StoreNext \/ UNCHANGED storeVars
    PROVE  \/ QuietStep
           \/ \E c \in Contract, yes, no \in Rows, seq \in Seq0 : ApplySnapshot(c, yes, no, seq)
           \/ \E c \in Contract, seq \in Seq0 : DeltaGap(c, seq)
           \/ \E c \in Contract, side \in Side, price \in Price, change \in Int, seq \in Seq0 :
                DeltaInSequence(c, side, price, change, seq)
           \/ \E c \in Contract, token \in {"bid", "ask"}, price \in Price, size \in Nat :
                ApplyLevelSet(c, token, price, size)
           \/ \E v \in Venue : ApplyDisconnected(v)
           \/ \E c \in Contract : ApplyResubscribed(c)
<1>1. ASSUME UNCHANGED books, Answer("Skipped") \/ Answer("UnknownContract")
      PROVE  QuietStep
  BY <1>1 DEF QuietStep, Answer, Told
<1>2. CASE SnapshotArrives
  BY <1>2, <1>1 DEF SnapshotArrives, RejectSnapshot
<1>3. CASE DeltaArrives
  <2>1. PICK c \in Contract, side \in Side, price \in AnyPrice,
             change \in Changes, seq \in Seq0 : ApplyDelta(c, side, price, change, seq)
    BY <1>3 DEF DeltaArrives
  <2>2. CASE DeltaNotFollowed(c) \/ DeltaOutOfRange(c, price, seq)
    BY <2>2, <1>1 DEF DeltaNotFollowed, DeltaOutOfRange
  <2>3. CASE DeltaInSequence(c, side, price, change, seq)
    BY <2>3, ChangesAssumption DEF DeltaInSequence
  <2> QED  BY <2>1, <2>2, <2>3 DEF ApplyDelta
<1>4. CASE LevelSetArrives
  <2>1. PICK c \in Contract, token \in {"bid", "ask"}, price \in AnyPrice, size \in AnySize :
            ApplyLevelSet(c, token, price, size) \/ RejectLevelSet(c, price, size)
    BY <1>4 DEF LevelSetArrives
  <2>2. CASE RejectLevelSet(c, price, size)
    BY <2>2, <1>1 DEF RejectLevelSet
  <2>3. CASE ApplyLevelSet(c, token, price, size)
    <3>1. price \in Price /\ size \in Nat
      BY <2>3, BoundsAssumption DEF ApplyLevelSet, AnySize
    <3> QED  BY <2>3, <3>1
  <2> QED  BY <2>1, <2>2, <2>3
<1>5. CASE ApplyUnknown(Stranger)
  BY <1>5, <1>1 DEF ApplyUnknown
<1>6. CASE UNCHANGED storeVars
  BY <1>6 DEF storeVars, books, QuietStep
<1> QED  BY <1>2, <1>3, <1>4, <1>5, <1>6 DEF StoreNext

(* Every event touches the books of one venue.                             *)
LEMMA OneVenueStep ==
    ASSUME StoreTypeOK, StoreNext \/ UNCHANGED storeVars
    PROVE  OneVenuePerStep
<1> USE VenueAssumption DEF StoreTypeOK, OneVenuePerStep, Touched, OfVenue
<1>1. CASE QuietStep
  BY <1>1 DEF QuietStep, books
<1>2. ASSUME NEW c \in Contract, NEW yes, NEW no, NEW seq, ApplySnapshot(c, yes, no, seq)
      PROVE  OneVenuePerStep
  BY <1>2 DEF ApplySnapshot
<1>3. ASSUME NEW c \in Contract, NEW seq, DeltaGap(c, seq)
      PROVE  OneVenuePerStep
  BY <1>3 DEF DeltaGap, MarkVenueResyncing, LiveOf, LiveBooks
<1>4. ASSUME NEW c \in Contract, NEW side, NEW price, NEW change, NEW seq,
             DeltaInSequence(c, side, price, change, seq)
      PROVE  OneVenuePerStep
  BY <1>4 DEF DeltaInSequence
<1>5. ASSUME NEW c \in Contract, NEW token, NEW price, NEW size,
             ApplyLevelSet(c, token, price, size)
      PROVE  OneVenuePerStep
  BY <1>5 DEF ApplyLevelSet
<1>6. ASSUME NEW v \in Venue, ApplyDisconnected(v)
      PROVE  OneVenuePerStep
  BY <1>6 DEF ApplyDisconnected, InvalidateVenue
<1>7. ASSUME NEW c \in Contract, ApplyResubscribed(c)
      PROVE  OneVenuePerStep
  BY <1>7 DEF ApplyResubscribed, MarkVenueResyncing, LiveOf, LiveBooks
<1> QED  BY <1>1, <1>2, <1>3, <1>4, <1>5, <1>6, <1>7, StepCases

(* A gap, a resubscription, a snapshot or a disconnect of one venue never  *)
(* disturbs another's books or its expectation (book.rs, header).          *)
THEOREM VenuesAreIsolated == StoreSpec => VenueIsolation
<1>1. StoreTypeOK /\ [StoreNext]_storeVars => [OneVenuePerStep]_storeVars
  BY OneVenueStep
<1> QED  BY <1>1, StoreTypeCorrect, PTL DEF StoreSpec, VenueIsolation

-----------------------------------------------------------------------------
LEMMA LiveBackedStep ==
    ASSUME StoreTypeOK, LiveBacked, StoreNext \/ UNCHANGED storeVars
    PROVE  LiveBacked'
<1> USE VenueAssumption, NoneAssumption DEF StoreTypeOK, LiveBacked, LiveBooks
<1>0. \A seq \in Seq0 : seq + 1 # None
  BY BoundsAssumption DEF Seq0
<1>1. CASE QuietStep
  BY <1>1 DEF QuietStep, books
<1>2. ASSUME NEW c \in Contract, NEW yes, NEW no, NEW seq \in Seq0,
             ApplySnapshot(c, yes, no, seq)
      PROVE  LiveBacked'
  BY <1>0, <1>2 DEF ApplySnapshot
<1>3. ASSUME NEW c \in Contract, NEW seq, DeltaGap(c, seq)
      PROVE  LiveBacked'
  BY <1>3 DEF DeltaGap, MarkVenueResyncing, LiveOf, OfVenue
<1>4. ASSUME NEW c \in Contract, NEW side, NEW price, NEW change, NEW seq \in Seq0,
             DeltaInSequence(c, side, price, change, seq)
      PROVE  LiveBacked'
  BY <1>0, <1>4 DEF DeltaInSequence
<1>5. ASSUME NEW c \in Contract, NEW token, NEW price, NEW size,
             ApplyLevelSet(c, token, price, size)
      PROVE  LiveBacked'
  BY <1>5 DEF ApplyLevelSet
<1>6. ASSUME NEW v \in Venue, ApplyDisconnected(v)
      PROVE  LiveBacked'
  BY <1>6 DEF ApplyDisconnected, InvalidateVenue, OfVenue
<1>7. ASSUME NEW c \in Contract, ApplyResubscribed(c)
      PROVE  LiveBacked'
  BY <1>7 DEF ApplyResubscribed, MarkVenueResyncing, LiveOf, OfVenue
<1> QED  BY <1>1, <1>2, <1>3, <1>4, <1>5, <1>6, <1>7, StepCases

(* A delta of a Live book is always checked against a sequence number: the *)
(* arm of apply_delta that skips it for want of one is never taken.        *)
THEOREM LiveIsBacked == StoreSpec => []LiveBacked
<1>1. StoreInit => LiveBacked
  BY DEF StoreInit, LiveBacked, LiveBooks
<1>2. StoreTypeOK /\ LiveBacked /\ [StoreNext]_storeVars => LiveBacked'
  BY LiveBackedStep
<1> QED  BY <1>1, <1>2, StoreTypeCorrect, PTL DEF StoreSpec

-----------------------------------------------------------------------------
(* The refinement of TrustedBooks.                                         *)

LEMMA PromiseInit == StoreInit => Promise!Init
BY DEF StoreInit, Promise!Init, Believed, Told

LEMMA PromiseStep ==
    ASSUME StoreTypeOK, StoreTypeOK', StoreNext \/ UNCHANGED storeVars
    PROVE  Promise!Next \/ UNCHANGED <<Believed, Told>>
<1> USE VenueAssumption, NoneAssumption DEF StoreTypeOK
<1>1. CASE QuietStep
  <2>1. UNCHANGED Believed
    BY <1>1 DEF QuietStep, books, Believed
  <2>2. CASE Told' = <<"none">>
    BY <2>1, <2>2 DEF Promise!Next, Promise!Ignore
  <2>3. CASE UNCHANGED applied
    BY <2>1, <2>3 DEF Told
  <2> QED  BY <1>1, <2>2, <2>3 DEF QuietStep
<1>2. ASSUME NEW c \in Contract, NEW yes \in Rows, NEW no \in Rows, NEW seq \in Seq0,
             ApplySnapshot(c, yes, no, seq)
      PROVE  Promise!Learn(c)
  <2>1. Told' = <<"learned", c>>
    BY <1>2 DEF ApplySnapshot, Changed, Told
  <2>2. Believed'[c] = ladder'[c] /\ ladder'[c] \in Ladders
    BY <1>2 DEF ApplySnapshot, Believed
  <2>3. Believed' = [Believed EXCEPT ![c] = ladder'[c]]
    BY <1>2 DEF ApplySnapshot, Believed
  <2> QED  BY <2>1, <2>2, <2>3 DEF Promise!Learn, Promise!Ladders, Promise!Depth,
             Promise!Side, Promise!Price, Ladders, Depth, Side, Price
<1>3. ASSUME NEW c \in Contract, Told' = <<"lost">>, UNCHANGED ladder,
             \A d \in Contract :
               (state'[d] = "Live") <=> (state[d] = "Live" /\ VenueOf[d] # VenueOf[c])
      PROVE  Promise!Lose(VenueOf[c])
  BY <1>3 DEF Promise!Lose, Believed
<1>4. ASSUME NEW c \in Contract, NEW seq \in Seq0, DeltaGap(c, seq)
      PROVE  Promise!Lose(VenueOf[c])
  <2>1. Told' = <<"lost">>
    BY <1>4 DEF DeltaGap, Answer, Told
  <2> QED  BY <1>3, <1>4, <2>1 DEF DeltaGap, MarkVenueResyncing, LiveOf, LiveBooks, OfVenue
<1>5. ASSUME NEW c \in Contract, ApplyResubscribed(c)
      PROVE  Promise!Lose(VenueOf[c])
  <2>1. Told' = <<"lost">>
    BY <1>5 DEF ApplyResubscribed, Answer, Told
  <2> QED  BY <1>3, <1>5, <2>1 DEF ApplyResubscribed, MarkVenueResyncing, LiveOf, LiveBooks, OfVenue
<1>6. ASSUME NEW v \in Venue, ApplyDisconnected(v)
      PROVE  Promise!Lose(v)
  <2>1. Told' = <<"lost">>
    BY <1>6 DEF ApplyDisconnected, Answer, Told
  <2> QED  BY <1>6, <2>1 DEF ApplyDisconnected, InvalidateVenue, OfVenue, Promise!Lose, Believed
<1>7. ASSUME NEW c \in Contract, NEW lad, NEW side \in Side, NEW price \in Price, NEW n,
             state[c] = "Live", UNCHANGED state, Told' = <<"amended", c>>,
             lad = [ladder[c] EXCEPT ![side][price] = n],
             ladder' = [ladder EXCEPT ![c] = lad]
      PROVE  Promise!Amend(c, side, price)
  <2>1. Believed[c] = ladder[c] /\ Believed'[c] = lad
    BY <1>7 DEF Believed
  <2>2. Believed' = [Believed EXCEPT ![c] = lad]
    BY <1>7 DEF Believed
  <2>3. lad[side][price] = n
    BY <1>7 DEF Ladders, Depth
  <2>4. Believed[c] # None /\ Believed'[c] # None
    <3>1. ladder[c] \in Ladders /\ ladder'[c] \in Ladders
      OBVIOUS
    <3>2. ladder'[c] = lad
      BY <1>7
    <3> QED  BY <2>1, <3>1, <3>2
  <2> QED  BY <1>7, <2>1, <2>2, <2>3, <2>4 DEF Promise!Amend
<1>8. ASSUME NEW c \in Contract, NEW side \in Side, NEW price \in Price,
             NEW change \in Int, NEW seq \in Seq0,
             DeltaInSequence(c, side, price, change, seq)
      PROVE  Promise!Amend(c, side, price)
  <2>1. Told' = <<"amended", c>>
    BY <1>8 DEF DeltaInSequence, Changed, Told
  <2> QED  BY <1>7, <1>8, <2>1 DEF DeltaInSequence, Followed, ChangeLevel
<1>9. ASSUME NEW c \in Contract, NEW token \in {"bid", "ask"}, NEW price \in Price,
             NEW size \in Nat, ApplyLevelSet(c, token, price, size)
      PROVE  \E side \in Side, p \in Price : Promise!Amend(c, side, p)
  <2>1. Told' = <<"amended", c>>
    BY <1>9 DEF ApplyLevelSet, Changed, Told
  <2>2. QuoteSide(token) \in Side /\ QuotePrice(token, price) \in Price
    BY ParAssumption DEF QuoteSide, QuotePrice, Side, Price
  <2> QED  BY <1>7, <1>9, <2>1, <2>2 DEF ApplyLevelSet, ReplaceLevel
<1> QED
  BY <1>1, <1>2, <1>4, <1>5, <1>6, <1>8, <1>9, StepCases
  DEF Promise!Next, Promise!Side, Promise!Price, Side, Price

(* The store implements TrustedBooks: whatever events arrive, what apply   *)
(* answers is what became of the books a reader may believe.               *)
THEOREM StoreKeepsPromise == StoreSpec => KeepsPromise
<1>1. StoreTypeOK /\ StoreTypeOK' /\ [StoreNext]_storeVars
        => [Promise!Next]_<<Believed, Told>>
  BY PromiseStep
<1> QED
  BY <1>1, PromiseInit, StoreTypeCorrect, PTL DEF StoreSpec, KeepsPromise, Promise!Spec

-----------------------------------------------------------------------------
(* The history that lies before the store: what it holds now, then every   *)
(* event on its way to it, in order: the channel's, the worker's, and the  *)
(* frames on the wire.  Between two boundaries lie the frames of one       *)
(* connection.                                                             *)
Boundary(e)  == e.kind \in {"disconnected", "resubscribed"}
Frame(e)     == e.kind \in {"snapshot", "delta"}
Sequenced(e) == Frame(e) \/ (e.kind = "store" /\ e.next # None)
NextNo(e)    == IF e.kind = "store" THEN e.next ELSE e.seq + 1

(* From here on the store holds a book of d, as far as this history says.  *)
Covers(e, d) == \/ e.kind = "snapshot" /\ e.contract = d
                \/ e.kind = "store" /\ e.next # None /\ d \in e.live

Open(h, p, q)  == \A i \in p .. q : ~Boundary(h[i])
Known(h, d, p) == \E i \in 1 .. p : Covers(h[i], d) /\ Open(h, i, p)

(* What frame e says of d is what was so before it, changed as e says.     *)
Follows(prev, e, d) ==
    /\ e.contract # d => e.truth[d] = prev[d]
    /\ e.contract = d /\ e.kind = "delta" =>
          e.truth[d] = ChangeLevel(prev[d], e.side, e.price, e.change)

(* Two messages of one connection with consecutive numbers differ by what  *)
(* the second one says, on every book the store has by then.               *)
Chained(h) ==
    \A p, q \in DOMAIN h :
        p < q /\ Sequenced(h[p]) /\ Frame(h[q]) /\ Open(h, p, q) /\ h[q].seq = NextNo(h[p])
        => \A d \in Contract : Known(h, d, p) => Follows(h[p].truth, h[q], d)

(* While a connection is open, nothing of it has a number the venue has    *)
(* yet to use; the message just before the next one tells the market, and  *)
(* a book the store has by the end has had its snapshot.                   *)
AtTip(h, n, next, mk, snap) ==
    /\ \A p \in DOMAIN h : Sequenced(h[p]) /\ Open(h, p, n) =>
          /\ NextNo(h[p]) \in Nat /\ NextNo(h[p]) <= next
          /\ NextNo(h[p]) = next => \A d \in Contract : Known(h, d, p) => h[p].truth[d] = mk[d]
    /\ \A d \in Contract : Known(h, d, n) => d \notin snap

(* Nothing of a connection is left without a boundary behind it.           *)
Severed(h, n) == \A p \in DOMAIN h : Sequenced(h[p]) => ~Open(h, p, n)

-----------------------------------------------------------------------------
LEMMA OpenJoins ==
    ASSUME NEW h, NEW i \in Int, NEW j \in Int, NEW q \in Int,
           Open(h, i, j), Open(h, j, q)
    PROVE  Open(h, i, q)
BY DEF Open

LEMMA OpenPart ==
    ASSUME NEW h, NEW i \in Int, NEW j \in Int, NEW q \in Int, NEW r \in Int,
           i <= j, q <= r, Open(h, i, r)
    PROVE  Open(h, j, q)
BY DEF Open

LEMMA KnownGrows ==
    ASSUME NEW h, NEW d, NEW j \in Int, NEW q \in Int, j <= q, Known(h, d, j), Open(h, j, q)
    PROVE  Known(h, d, q)
<1>1. PICK i \in 1 .. j : Covers(h[i], d) /\ Open(h, i, j)
  BY DEF Known
<1>2. Open(h, i, q) /\ i \in 1 .. q
  BY <1>1, OpenJoins
<1> QED  BY <1>1, <1>2 DEF Known

LEMMA CoversIsSequenced ==
    ASSUME NEW e, NEW d, Covers(e, d)
    PROVE  Sequenced(e)
BY DEF Covers, Sequenced, Frame

(* History k is history h with nothing added to a connection: each of its  *)
(* messages stands for one of h, in the same order, and what lies between  *)
(* two of one connection in k lay between them in h.                       *)
Embeds(k, h, m) ==
    /\ m \in [DOMAIN k -> DOMAIN h]
    /\ \A p \in DOMAIN k : Sequenced(k[p]) =>
          /\ Sequenced(h[m[p]]) /\ NextNo(k[p]) = NextNo(h[m[p]])
          /\ k[p].truth = h[m[p]].truth
          /\ \A d \in Contract : Covers(k[p], d) => Known(h, d, m[p])
    /\ \A q \in DOMAIN k : Frame(k[q]) => k[q] = h[m[q]]
    /\ \A p, q \in DOMAIN k : p < q /\ Sequenced(k[p]) /\ Sequenced(k[q]) /\ Open(k, p, q)
                              => m[p] < m[q] /\ Open(h, m[p], m[q])

TipKept(k, l, h, n, m) ==
    \A p \in DOMAIN k : Sequenced(k[p]) /\ Open(k, p, l) => Open(h, m[p], n)

LEMMA EmbedKnown ==
    ASSUME NEW n \in Nat, NEW l \in Nat, NEW h, NEW k, NEW m,
           DOMAIN h = 1 .. n, DOMAIN k = 1 .. l, Embeds(k, h, m),
           NEW d \in Contract, NEW p \in 1 .. l, Sequenced(k[p]), Known(k, d, p)
    PROVE  Known(h, d, m[p])
<1>1. PICK i \in 1 .. p : Covers(k[i], d) /\ Open(k, i, p)
  BY DEF Known
<1>2. i \in 1 .. l /\ Sequenced(k[i]) /\ m[i] \in 1 .. n /\ m[p] \in 1 .. n
  BY <1>1, CoversIsSequenced DEF Embeds
<1>3. Known(h, d, m[i])
  BY <1>1, <1>2 DEF Embeds
<1>4. CASE i < p
  <2>1. m[i] < m[p] /\ Open(h, m[i], m[p])
    BY <1>1, <1>2, <1>4 DEF Embeds
  <2> QED  BY <1>2, <1>3, <2>1, KnownGrows
<1>5. CASE i = p
  BY <1>3, <1>5
<1> QED  BY <1>1, <1>4, <1>5

LEMMA EmbedKnownAtTip ==
    ASSUME NEW n \in Nat, NEW l \in Nat, NEW h, NEW k, NEW m,
           DOMAIN h = 1 .. n, DOMAIN k = 1 .. l, Embeds(k, h, m), TipKept(k, l, h, n, m),
           NEW d \in Contract, Known(k, d, l)
    PROVE  Known(h, d, n)
<1>1. PICK i \in 1 .. l : Covers(k[i], d) /\ Open(k, i, l)
  BY DEF Known
<1>2. Sequenced(k[i]) /\ m[i] \in 1 .. n
  BY <1>1, CoversIsSequenced DEF Embeds
<1>3. Known(h, d, m[i]) /\ Open(h, m[i], n)
  BY <1>1, <1>2 DEF Embeds, TipKept
<1> QED  BY <1>2, <1>3, KnownGrows

LEMMA EmbedChained ==
    ASSUME NEW n \in Nat, NEW l \in Nat, NEW h, NEW k, NEW m,
           DOMAIN h = 1 .. n, DOMAIN k = 1 .. l, Embeds(k, h, m), Chained(h)
    PROVE  Chained(k)
<1> SUFFICES ASSUME NEW p \in 1 .. l, NEW q \in 1 .. l, p < q,
                    Sequenced(k[p]), Frame(k[q]), Open(k, p, q), k[q].seq = NextNo(k[p]),
                    NEW d \in Contract, Known(k, d, p)
             PROVE  Follows(k[p].truth, k[q], d)
  BY DEF Chained
<1>1. m[p] \in 1 .. n /\ m[q] \in 1 .. n /\ Sequenced(k[q])
  BY DEF Embeds, Sequenced
<1>2. m[p] < m[q] /\ Open(h, m[p], m[q])
  BY <1>1 DEF Embeds
<1>3. Sequenced(h[m[p]]) /\ NextNo(k[p]) = NextNo(h[m[p]]) /\ k[p].truth = h[m[p]].truth
      /\ k[q] = h[m[q]]
  BY DEF Embeds
<1>4. Known(h, d, m[p])
  BY EmbedKnown
<1>5. Follows(h[m[p]].truth, h[m[q]], d)
  BY <1>1, <1>2, <1>3, <1>4 DEF Chained
<1> QED  BY <1>3, <1>5

LEMMA EmbedTip ==
    ASSUME NEW n \in Nat, NEW l \in Nat, NEW h, NEW k, NEW m,
           DOMAIN h = 1 .. n, DOMAIN k = 1 .. l, Embeds(k, h, m), TipKept(k, l, h, n, m),
           NEW next, NEW mk, NEW snap, AtTip(h, n, next, mk, snap)
    PROVE  AtTip(k, l, next, mk, snap)
<1>1. ASSUME NEW p \in 1 .. l, Sequenced(k[p]), Open(k, p, l)
      PROVE  /\ NextNo(k[p]) \in Nat /\ NextNo(k[p]) <= next
             /\ NextNo(k[p]) = next =>
                   \A d \in Contract : Known(k, d, p) => k[p].truth[d] = mk[d]
  <2>1. m[p] \in 1 .. n /\ Sequenced(h[m[p]]) /\ NextNo(k[p]) = NextNo(h[m[p]])
        /\ k[p].truth = h[m[p]].truth /\ Open(h, m[p], n)
    BY <1>1 DEF Embeds, TipKept
  <2>2. \A d \in Contract : Known(k, d, p) => Known(h, d, m[p])
    BY <1>1, EmbedKnown
  <2> QED  BY <2>1, <2>2 DEF AtTip
<1>2. ASSUME NEW d \in Contract, Known(k, d, l)
      PROVE  d \notin snap
  BY <1>2, EmbedKnownAtTip DEF AtTip
<1> QED  BY <1>1, <1>2 DEF AtTip

LEMMA EmbedSevered ==
    ASSUME NEW n \in Nat, NEW l \in Nat, NEW h, NEW k, NEW m,
           DOMAIN h = 1 .. n, DOMAIN k = 1 .. l, Embeds(k, h, m), TipKept(k, l, h, n, m),
           Severed(h, n)
    PROVE  Severed(k, l)
BY DEF Embeds, TipKept, Severed

LEMMA SeveredTip ==
    ASSUME NEW n \in Nat, NEW h, DOMAIN h = 1 .. n, Severed(h, n), NEW next, NEW mk, NEW snap
    PROVE  AtTip(h, n, next, mk, snap)
<1>1. ASSUME NEW d \in Contract, Known(h, d, n)
      PROVE  FALSE
  BY <1>1, CoversIsSequenced DEF Known, Severed
<1> QED  BY <1>1 DEF AtTip, Severed

-----------------------------------------------------------------------------
(* The ways a history changes.                                             *)

(* What is neither a frame nor a boundary: an acknowledgement, or a frame  *)
(* that was rejected.                                                      *)
Note(e) == ~Frame(e) /\ ~Boundary(e) /\ e.kind # "store"

Extends(k, h, n) == \A i \in 1 .. n : k[i] = h[i]

LEMMA SamePrefix ==
    ASSUME NEW n \in Nat, NEW h, NEW k, Extends(k, h, n)
    PROVE  /\ \A p, q \in 1 .. n : Open(k, p, q) <=> Open(h, p, q)
           /\ \A d \in Contract, p \in 1 .. n : Known(k, d, p) <=> Known(h, d, p)
<1>1. ASSUME NEW p \in 1 .. n, NEW q \in 1 .. n
      PROVE  Open(k, p, q) <=> Open(h, p, q)
  <2>1. \A i \in p .. q : i \in 1 .. n
    OBVIOUS
  <2> QED  BY <2>1 DEF Open, Extends
<1>2. ASSUME NEW d \in Contract, NEW p \in 1 .. n
      PROVE  Known(k, d, p) <=> Known(h, d, p)
  <2>1. \A i \in 1 .. p : i \in 1 .. n
    OBVIOUS
  <2>2. \A i \in 1 .. p : k[i] = h[i] /\ (Open(k, i, p) <=> Open(h, i, p))
    BY <1>1, <2>1 DEF Extends
  <2> QED  BY <2>2 DEF Known
<1> QED  BY <1>1, <1>2

(* A note at the end carries nothing.                                      *)
LEMMA NoteIsNothing ==
    ASSUME NEW n \in Nat \ {0}, NEW h, NEW k, DOMAIN h = 1 .. n, DOMAIN k = 1 .. n + 1,
           Extends(k, h, n), Note(k[n + 1])
    PROVE  \E m : Embeds(k, h, m) /\ TipKept(k, n + 1, h, n, m)
<1> DEFINE m == [i \in 1 .. n + 1 |-> IF i = n + 1 THEN n ELSE i]
<1>1. m \in [DOMAIN k -> DOMAIN h]
  OBVIOUS
<1>2. ~Sequenced(k[n + 1])
  BY DEF Note, Sequenced
<1>3. \A p \in DOMAIN k : Sequenced(k[p]) \/ Frame(k[p]) =>
          p \in 1 .. n /\ m[p] = p /\ k[p] = h[p]
  BY <1>2 DEF Extends, Sequenced
<1> HIDE DEF m
<1>4. \A p \in DOMAIN k, d \in Contract : Sequenced(k[p]) /\ Covers(k[p], d) => Known(h, d, m[p])
  <2> SUFFICES ASSUME NEW p \in DOMAIN k, NEW d \in Contract, Sequenced(k[p]), Covers(k[p], d)
               PROVE  Known(h, d, m[p])
    OBVIOUS
  <2>1. p \in 1 .. n /\ m[p] = p /\ Covers(h[p], d)
    BY <1>3
  <2>2. Open(h, p, p)
    BY <2>1 DEF Open, Covers, Boundary
  <2> QED  BY <2>1, <2>2 DEF Known
<1>5. \A p, q \in DOMAIN k : p < q /\ Sequenced(k[p]) /\ Sequenced(k[q]) /\ Open(k, p, q)
                              => m[p] < m[q] /\ Open(h, m[p], m[q])
  BY <1>3, SamePrefix
<1>6. Embeds(k, h, m)
  BY <1>1, <1>3, <1>4, <1>5 DEF Embeds
<1>7. ASSUME NEW p \in DOMAIN k, Sequenced(k[p]), Open(k, p, n + 1)
      PROVE  Open(h, m[p], n)
  <2>1. p \in 1 .. n /\ m[p] = p
    BY <1>3, <1>7
  <2>2. Open(k, p, n)
    BY <1>7, <2>1, OpenPart
  <2> QED  BY <2>1, <2>2, SamePrefix
<1> QED  BY <1>6, <1>7 DEF TipKept

(* A number used: those before it are now too old to tell the market.      *)
LEMMA NumberUsed ==
    ASSUME NEW n \in Nat, NEW h, DOMAIN h = 1 .. n, NEW next \in Nat, NEW mk, NEW snap,
           AtTip(h, n, next, mk, snap), NEW now, NEW left, left \subseteq snap
    PROVE  AtTip(h, n, next + 1, now, left)
<1>1. ASSUME NEW p \in DOMAIN h, Sequenced(h[p]), Open(h, p, n)
      PROVE  NextNo(h[p]) \in Nat /\ NextNo(h[p]) <= next + 1 /\ NextNo(h[p]) # next + 1
  <2>1. NextNo(h[p]) \in Nat /\ NextNo(h[p]) <= next
    BY <1>1 DEF AtTip
  <2> QED  BY <2>1
<1>2. \A d \in Contract : Known(h, d, n) => d \notin left
  BY DEF AtTip
<1> QED  BY <1>1, <1>2 DEF AtTip

(* A trade the venue does not number is in a book not yet sent.            *)
LEMMA UnsentTrade ==
    ASSUME NEW n \in Nat, NEW h, DOMAIN h = 1 .. n, NEW next, NEW mk, NEW snap,
           AtTip(h, n, next, mk, snap), NEW now,
           \A d \in Contract : d \notin snap => now[d] = mk[d]
    PROVE  AtTip(h, n, next, now, snap)
<1>1. ASSUME NEW p \in DOMAIN h, Sequenced(h[p]), Open(h, p, n), NextNo(h[p]) = next,
             NEW d \in Contract, Known(h, d, p)
      PROVE  h[p].truth[d] = now[d]
  <2>1. Known(h, d, n)
    BY <1>1, KnownGrows
  <2> QED  BY <1>1, <2>1 DEF AtTip
<1> QED  BY <1>1 DEF AtTip

(* The venue's next message.                                               *)
LEMMA NextFrame ==
    ASSUME NEW n \in Nat \ {0}, NEW h, NEW k, DOMAIN h = 1 .. n, DOMAIN k = 1 .. n + 1,
           Extends(k, h, n), NEW x, k[n + 1] = x, Frame(x),
           NEW next \in Nat, NEW mk, NEW snap, NEW left,
           x.seq = next, Chained(h), AtTip(h, n, next, mk, snap), left \subseteq snap,
           \A d \in Contract : Known(h, d, n) => Follows(mk, x, d),
           \A d \in Contract : Covers(x, d) => d \notin left
    PROVE  Chained(k) /\ AtTip(k, n + 1, next + 1, x.truth, left)
<1>1. ASSUME NEW p \in 1 .. n, NEW d \in Contract, Sequenced(k[p]), Open(k, p, n + 1),
             x.seq = NextNo(k[p]), Known(k, d, p)
      PROVE  Follows(k[p].truth, x, d)
  <2>1. Open(h, p, n) /\ Known(h, d, p) /\ k[p] = h[p]
    <3>1. Open(k, p, n)
      BY <1>1, OpenPart
    <3> QED  BY <1>1, <3>1, SamePrefix DEF Extends
  <2>2. h[p].truth[d] = mk[d]
    BY <1>1, <2>1 DEF AtTip
  <2>3. Known(h, d, n)
    BY <2>1, KnownGrows
  <2> QED  BY <2>1, <2>2, <2>3 DEF Follows
<1>2. Chained(k)
  <2> SUFFICES ASSUME NEW p \in 1 .. n + 1, NEW q \in 1 .. n + 1, p < q,
                      Sequenced(k[p]), Frame(k[q]), Open(k, p, q), k[q].seq = NextNo(k[p]),
                      NEW d \in Contract, Known(k, d, p)
               PROVE  Follows(k[p].truth, k[q], d)
    BY DEF Chained
  <2>1. CASE q = n + 1
    BY <1>1, <2>1
  <2>2. CASE q # n + 1
    <3>1. p \in 1 .. n /\ q \in 1 .. n
      BY <2>2
    <3>2. k[p] = h[p] /\ k[q] = h[q] /\ Open(h, p, q) /\ Known(h, d, p)
      BY <3>1, SamePrefix DEF Extends
    <3> QED  BY <3>1, <3>2 DEF Chained
  <2> QED  BY <2>1, <2>2
<1>3. ASSUME NEW p \in 1 .. n + 1, Sequenced(k[p]), Open(k, p, n + 1)
      PROVE  /\ NextNo(k[p]) \in Nat /\ NextNo(k[p]) <= next + 1
             /\ NextNo(k[p]) = next + 1 => k[p].truth = x.truth
  <2>1. CASE p = n + 1
    <3>1. x.kind # "store"
      BY DEF Frame
    <3> QED  BY <2>1, <3>1 DEF NextNo
  <2>2. CASE p # n + 1
    <3>1. p \in 1 .. n
      BY <2>2
    <3>2. Open(k, p, n)
      BY <1>3, <3>1, OpenPart
    <3>3. Open(h, p, n) /\ k[p] = h[p]
      <4>1. n \in 1 .. n
        OBVIOUS
      <4>2. Open(h, p, n)
        BY <3>1, <3>2, <4>1, SamePrefix
      <4> QED  BY <3>1, <4>2 DEF Extends
    <3>4. NextNo(k[p]) \in Nat /\ NextNo(k[p]) <= next
      BY <1>3, <3>1, <3>3 DEF AtTip
    <3> QED  BY <3>4
  <2> QED  BY <2>1, <2>2
<1>4. ASSUME NEW d \in Contract, Known(k, d, n + 1)
      PROVE  d \notin left
  <2>1. PICK i \in 1 .. n + 1 : Covers(k[i], d) /\ Open(k, i, n + 1)
    BY <1>4 DEF Known
  <2>2. CASE i = n + 1
    BY <2>1, <2>2
  <2>3. CASE i # n + 1
    <3>1. i \in 1 .. n
      BY <2>3
    <3>2. Open(k, i, n)
      BY <2>1, <3>1, OpenPart
    <3>3. Known(k, d, n)
      BY <2>1, <3>1, <3>2 DEF Known
    <3>4. Known(h, d, n)
      BY <3>3, SamePrefix
    <3> QED  BY <3>4 DEF AtTip
  <2> QED  BY <2>2, <2>3
<1> QED  BY <1>2, <1>3, <1>4 DEF AtTip

(* After the first a messages, the rest of the history, or the note that   *)
(* begins it, gives way to b boundaries, and what followed the note may    *)
(* stay: a lost connection, an acknowledgement or a rejected frame read.   *)
Replaces(k, l, h, n, a, b) ==
    /\ a <= n /\ a + b <= l
    /\ \A i \in 1 .. a : k[i] = h[i]
    /\ \A i \in a + 1 .. a + b : Boundary(k[i])
    /\ \A i \in a + b + 1 .. l : i - b + 1 <= n /\ k[i] = h[i - b + 1]
    /\ a + b < l => Note(h[a + 1])

LEMMA ReplacedEmbeds ==
    ASSUME NEW n \in Nat, NEW l \in Nat, NEW a \in Nat \ {0}, NEW b \in Nat, NEW h, NEW k,
           DOMAIN h = 1 .. n, DOMAIN k = 1 .. l, Replaces(k, l, h, n, a, b)
    PROVE  \E m : /\ Embeds(k, h, m)
                  /\ n = l - b + 1 /\ Note(h[a + 1]) => TipKept(k, l, h, n, m)
<1> DEFINE m == [i \in 1 .. l |-> IF i <= a THEN i ELSE IF i <= a + b THEN 1 ELSE i - b + 1]
<1>1. m \in [DOMAIN k -> DOMAIN h]
  <2>1. ASSUME NEW i \in 1 .. l
        PROVE  m[i] \in 1 .. n
    <3>1. CASE i <= a + b
      BY <3>1 DEF Replaces
    <3>2. CASE i > a + b
      <4>1. i \in a + b + 1 .. l
        BY <3>2
      <4>2. i - b + 1 <= n
        BY <4>1 DEF Replaces
      <4> QED  BY <3>2, <4>2
    <3> QED  BY <3>1, <3>2
  <2> QED  BY <2>1
<1>2. ASSUME NEW p \in 1 .. l
      PROVE  \/ p <= a /\ m[p] = p /\ k[p] = h[p]
             \/ p > a /\ p <= a + b /\ Boundary(k[p])
             \/ p > a + b /\ m[p] = p - b + 1 /\ k[p] = h[p - b + 1] /\ Note(h[a + 1])
  <2>1. CASE p <= a
    BY <2>1 DEF Replaces
  <2>2. CASE p > a /\ p <= a + b
    <3>1. p \in a + 1 .. a + b
      BY <2>2
    <3> QED  BY <2>2, <3>1 DEF Replaces
  <2>3. CASE p > a + b
    <3>1. p \in a + b + 1 .. l /\ a + b < l
      BY <2>3
    <3>2. m[p] = p - b + 1
      BY <2>3
    <3> HIDE DEF m
    <3> QED  BY <2>3, <3>1, <3>2 DEF Replaces
  <2> QED  BY <2>1, <2>2, <2>3
<1>3. \A p \in 1 .. l : p > a => m[p] = (IF p <= a + b THEN 1 ELSE p - b + 1)
  OBVIOUS
<1>4. \A p \in 1 .. l : p <= a => m[p] = p
  OBVIOUS
<1> HIDE DEF m
<1>5. ASSUME NEW p \in 1 .. l, Sequenced(k[p]) \/ Frame(k[p])
      PROVE  /\ k[p] = h[m[p]] /\ Sequenced(k[p])
             /\ \/ p <= a /\ m[p] = p
                \/ p > a + b /\ m[p] = p - b + 1 /\ Note(h[a + 1])
  <2>1. Sequenced(k[p])
    BY <1>5 DEF Sequenced
  <2>2. ~Boundary(k[p])
    BY <2>1 DEF Sequenced, Boundary, Frame
  <2> QED  BY <1>2, <2>1, <2>2
<1>6. ASSUME NEW p \in 1 .. l, NEW d \in Contract, Sequenced(k[p]), Covers(k[p], d)
      PROVE  Known(h, d, m[p])
  <2>1. m[p] \in 1 .. n /\ Covers(h[m[p]], d)
    BY <1>1, <1>5, <1>6
  <2>2. Open(h, m[p], m[p])
    BY <2>1 DEF Open, Covers, Boundary
  <2> QED  BY <2>1, <2>2 DEF Known
<1>7. ASSUME NEW p \in 1 .. l, NEW q \in 1 .. l, p <= a, q > a + b, Open(k, p, q),
             Note(h[a + 1])
      PROVE  b = 0 /\ Open(h, p, q - b + 1)
  <2>1. b = 0
    <3>1. CASE b > 0
      <4>1. a + 1 \in p .. q /\ a + 1 \in a + 1 .. a + b
        BY <1>7, <3>1
      <4> QED  BY <1>7, <4>1 DEF Replaces, Open
    <3> QED  BY <3>1
  <2>2. ASSUME NEW i \in p .. q + 1
        PROVE  ~Boundary(h[i])
    <3>1. CASE i <= a
      <4>1. i \in 1 .. a /\ i \in p .. q
        BY <1>7, <3>1
      <4> QED  BY <1>7, <4>1 DEF Replaces, Open
    <3>2. CASE i = a + 1
      BY <1>7, <3>2 DEF Note
    <3>3. CASE i > a + 1
      <4>1. i - 1 \in a + b + 1 .. l /\ i - 1 \in p .. q /\ (i - 1) - b + 1 = i
        BY <1>7, <2>1, <3>3
      <4>2. k[i - 1] = h[i] /\ ~Boundary(k[i - 1])
        BY <1>7, <4>1 DEF Replaces, Open
      <4> QED  BY <4>2
    <3> QED  BY <3>1, <3>2, <3>3
  <2>3. q - b + 1 = q + 1
    BY <2>1
  <2> QED  BY <2>1, <2>2, <2>3 DEF Open
<1>8. ASSUME NEW p \in 1 .. l, NEW q \in 1 .. l, p > a + b, Open(k, p, q)
      PROVE  Open(h, p - b + 1, q - b + 1)
  <2>1. ASSUME NEW i \in p - b + 1 .. q - b + 1
        PROVE  ~Boundary(h[i])
    <3> DEFINE j == i + b - 1
    <3>1. j \in p .. q /\ j \in a + b + 1 .. l /\ j - b + 1 = i
      BY <1>8
    <3> HIDE DEF j
    <3>2. k[j] = h[i] /\ ~Boundary(k[j])
      BY <1>8, <3>1 DEF Replaces, Open
    <3> QED  BY <3>2
  <2> QED  BY <2>1 DEF Open
<1>9. ASSUME NEW p \in 1 .. l, NEW q \in 1 .. l, p <= q, q <= a, Open(k, p, q)
      PROVE  Open(h, p, q)
  <2>1. \A i \in p .. q : i \in 1 .. a
    BY <1>9
  <2> QED  BY <1>9, <2>1 DEF Open, Replaces
<1>10. ASSUME NEW p \in 1 .. l, NEW q \in 1 .. l, p < q, Sequenced(k[p]), Sequenced(k[q]),
              Open(k, p, q)
       PROVE  m[p] < m[q] /\ Open(h, m[p], m[q])
  <2>1. CASE q <= a
    <3>1. m[p] = p /\ m[q] = q
      BY <1>4, <1>10, <2>1
    <3> QED  BY <1>9, <1>10, <2>1, <3>1
  <2>2. CASE p <= a /\ q > a
    <3>1. m[p] = p /\ q > a + b /\ m[q] = q - b + 1 /\ Note(h[a + 1])
      BY <1>4, <1>5, <1>10, <2>2
    <3>2. b = 0 /\ Open(h, p, q - b + 1)
      BY <1>7, <1>10, <2>2, <3>1
    <3> QED  BY <1>10, <3>1, <3>2
  <2>3. CASE p > a
    <3>1. p > a + b /\ m[p] = p - b + 1
      BY <1>5, <1>10, <2>3
    <3>2. q > a + b /\ m[q] = q - b + 1
      BY <1>5, <1>10, <2>3
    <3> QED  BY <1>8, <1>10, <3>1, <3>2
  <2> QED  BY <1>10, <2>1, <2>2, <2>3
<1>11. Embeds(k, h, m)
  <2>1. \A p \in DOMAIN k : Sequenced(k[p]) =>
          /\ Sequenced(h[m[p]]) /\ NextNo(k[p]) = NextNo(h[m[p]])
          /\ k[p].truth = h[m[p]].truth
          /\ \A d \in Contract : Covers(k[p], d) => Known(h, d, m[p])
    BY <1>5, <1>6
  <2> QED  BY <1>1, <1>5, <1>10, <2>1 DEF Embeds
<1>12. ASSUME n = l - b + 1, Note(h[a + 1]), NEW p \in 1 .. l, Sequenced(k[p]), Open(k, p, l)
       PROVE  Open(h, m[p], n)
  <2>0. l \in 1 .. l
    OBVIOUS
  <2>1. CASE p > a
    <3>1. p > a + b /\ m[p] = p - b + 1
      BY <1>5, <1>12, <2>1
    <3> QED  BY <1>8, <1>12, <2>0, <3>1
  <2>2. CASE p <= a /\ l > a + b
    <3>1. m[p] = p
      BY <1>4, <2>2
    <3> QED  BY <1>7, <1>12, <2>0, <2>2, <3>1
  <2>3. CASE p <= a /\ ~(l > a + b)
    <3>1. l = a + b /\ n = a + 1 /\ m[p] = p
      BY <1>4, <1>12, <2>3 DEF Replaces
    <3>2. b = 0
      <4>1. CASE b > 0
        <5>1. l \in a + 1 .. a + b /\ l \in p .. l
          BY <3>1, <4>1
        <5> QED  BY <1>12, <5>1 DEF Replaces, Open
      <4> QED  BY <4>1
    <3>3. Open(h, p, a)
      <4>1. l = a
        BY <3>1, <3>2
      <4> QED  BY <1>9, <1>12, <2>0, <2>3, <4>1
    <3>4. \A i \in p .. a + 1 : i \in p .. a \/ i = a + 1
      BY <2>3
    <3>5. ~Boundary(h[a + 1])
      BY <1>12 DEF Note
    <3> QED  BY <3>1, <3>3, <3>4, <3>5 DEF Open
  <2> QED  BY <2>1, <2>2, <2>3
<1>13. n = l - b + 1 /\ Note(h[a + 1]) => TipKept(k, l, h, n, m)
  BY <1>12 DEF TipKept
<1> QED  BY <1>11, <1>13

(* A boundary at the end leaves nothing of a connection.                   *)
LEMMA BoundarySevers ==
    ASSUME NEW l \in Nat, NEW k, DOMAIN k = 1 .. l, Boundary(k[l])
    PROVE  Severed(k, l)
BY DEF Severed, Open

(* The store takes the message next to it.  What it holds after it is what *)
(* it held, or that message.                                               *)
Takes(s, k, h, n) ==
    /\ n >= 2 /\ h[1].kind = "store" /\ k[1] = s /\ s.kind = "store"
    /\ \A i \in 2 .. n - 1 : k[i] = h[i + 1]

LEMMA PassedOver ==
    ASSUME NEW n \in Nat, NEW h, NEW k, NEW s, DOMAIN h = 1 .. n, DOMAIN k = 1 .. n - 1,
           Takes(s, k, h, n), Sequenced(s) => s = h[1] /\ ~Boundary(h[2])
    PROVE  \E m : Embeds(k, h, m) /\ TipKept(k, n - 1, h, n, m)
<1> DEFINE m == [i \in 1 .. n - 1 |-> IF i = 1 THEN 1 ELSE i + 1]
<1>0. n >= 2 /\ ~Boundary(s)
  BY DEF Takes, Boundary
<1>1. m \in [DOMAIN k -> DOMAIN h]
  BY <1>0
<1>2. m[1] = 1 /\ \A p \in 2 .. n - 1 : m[p] = p + 1
  BY <1>0
<1> HIDE DEF m
<1>3. ASSUME NEW p \in 1 .. n - 1, Sequenced(k[p]) \/ Frame(k[p])
      PROVE  k[p] = h[m[p]] /\ Sequenced(k[p]) /\ (p = 1 => ~Boundary(h[2]))
             /\ (p # 1 => p \in 2 .. n - 1 /\ m[p] = p + 1)
  <2>1. Sequenced(k[p])
    BY <1>3 DEF Sequenced
  <2>2. CASE p = 1
    BY <1>2, <2>1, <2>2 DEF Takes
  <2>3. CASE p # 1
    BY <1>2, <2>1, <2>3 DEF Takes
  <2> QED  BY <2>1, <2>2, <2>3
<1>4. ASSUME NEW p \in 1 .. n - 1, NEW d \in Contract, Sequenced(k[p]), Covers(k[p], d)
      PROVE  Known(h, d, m[p])
  <2>1. m[p] \in 1 .. n /\ Covers(h[m[p]], d)
    BY <1>1, <1>3, <1>4
  <2>2. Open(h, m[p], m[p])
    BY <2>1 DEF Open, Covers, Boundary
  <2> QED  BY <2>1, <2>2 DEF Known
<1>5. ASSUME NEW p \in 2 .. n - 1, NEW q \in 1 .. n - 1, Open(k, p, q)
      PROVE  Open(h, p + 1, q + 1)
  <2>1. ASSUME NEW i \in p + 1 .. q + 1
        PROVE  ~Boundary(h[i])
    <3>1. i - 1 \in p .. q /\ i - 1 \in 2 .. n - 1 /\ (i - 1) + 1 = i
      BY <1>5
    <3> QED  BY <1>5, <3>1 DEF Open, Takes
  <2> QED  BY <2>1 DEF Open
<1>6. ASSUME NEW q \in 1 .. n - 1, Open(k, 1, q), ~Boundary(h[2])
      PROVE  Open(h, 1, q + 1)
  <2>1. ASSUME NEW i \in 1 .. q + 1
        PROVE  ~Boundary(h[i])
    <3>1. CASE i = 1
      BY <3>1 DEF Takes, Boundary
    <3>2. CASE i = 2
      BY <1>6, <3>2
    <3>3. CASE i > 2
      <4>1. i - 1 \in 1 .. q /\ i - 1 \in 2 .. n - 1 /\ (i - 1) + 1 = i
        BY <3>3
      <4> QED  BY <1>6, <4>1 DEF Open, Takes
    <3> QED  BY <3>1, <3>2, <3>3
  <2> QED  BY <2>1 DEF Open
<1>7. ASSUME NEW p \in 1 .. n - 1, NEW q \in 1 .. n - 1, Sequenced(k[p]), Open(k, p, q)
      PROVE  Open(h, m[p], q + 1)
  <2>1. CASE p = 1
    BY <1>2, <1>3, <1>6, <1>7, <2>1
  <2>2. CASE p # 1
    <3>1. p \in 2 .. n - 1 /\ m[p] = p + 1
      BY <1>3, <1>7, <2>2
    <3> QED  BY <1>5, <1>7, <3>1
  <2> QED  BY <2>1, <2>2
<1>8. ASSUME NEW p \in 1 .. n - 1, NEW q \in 1 .. n - 1, p < q,
             Sequenced(k[p]), Sequenced(k[q]), Open(k, p, q)
      PROVE  m[p] < m[q] /\ Open(h, m[p], m[q])
  <2>1. m[q] = q + 1 /\ (m[p] = p + 1 \/ m[p] = p)
    BY <1>2, <1>8
  <2> QED  BY <1>7, <1>8, <2>1
<1>9. Embeds(k, h, m)
  <2>1. \A p \in DOMAIN k : Sequenced(k[p]) =>
          /\ Sequenced(h[m[p]]) /\ NextNo(k[p]) = NextNo(h[m[p]])
          /\ k[p].truth = h[m[p]].truth
          /\ \A d \in Contract : Covers(k[p], d) => Known(h, d, m[p])
    BY <1>3, <1>4
  <2> QED  BY <1>1, <1>3, <1>8, <2>1 DEF Embeds
<1>10. TipKept(k, n - 1, h, n, m)
  <2>1. n - 1 \in 1 .. n - 1 /\ (n - 1) + 1 = n
    BY <1>0
  <2> QED  BY <1>7, <2>1 DEF TipKept
<1> QED  BY <1>9, <1>10

LEMMA Taken ==
    ASSUME NEW n \in Nat, NEW h, NEW k, NEW s, DOMAIN h = 1 .. n, DOMAIN k = 1 .. n - 1,
           Takes(s, k, h, n), Frame(h[2]), s.next = h[2].seq + 1, s.truth = h[2].truth,
           \A d \in Contract : d \in s.live => Known(h, d, 2)
    PROVE  \E m : Embeds(k, h, m) /\ TipKept(k, n - 1, h, n, m)
<1> DEFINE m == [i \in 1 .. n - 1 |-> i + 1]
<1>0. n >= 2 /\ ~Boundary(s) /\ ~Boundary(h[2]) /\ Sequenced(h[2])
  BY DEF Takes, Boundary, Frame, Sequenced
<1>1. m \in [DOMAIN k -> DOMAIN h]
  OBVIOUS
<1>2. \A p \in 1 .. n - 1 : m[p] = p + 1
  OBVIOUS
<1> HIDE DEF m
<1>3. ASSUME NEW p \in 1 .. n - 1
      PROVE  k[p] = h[p + 1] \/ (p = 1 /\ k[p] = s)
  BY DEF Takes
<1>4. s.kind = "store" /\ ~Frame(s)
  BY DEF Takes, Frame
<1>5. ASSUME NEW p \in 1 .. n - 1, NEW d \in Contract, Sequenced(k[p]), Covers(k[p], d)
      PROVE  Known(h, d, m[p])
  <2>1. CASE k[p] = h[p + 1]
    <3>1. p + 1 \in 1 .. n /\ Covers(h[p + 1], d)
      BY <1>5, <2>1
    <3>2. Open(h, p + 1, p + 1)
      BY <3>1 DEF Open, Covers, Boundary
    <3>3. p + 1 \in 1 .. p + 1
      OBVIOUS
    <3> QED  BY <1>2, <3>1, <3>2, <3>3 DEF Known
  <2>2. CASE p = 1 /\ k[p] = s
    <3>1. d \in s.live
      BY <1>4, <1>5, <2>2 DEF Covers
    <3> QED  BY <1>2, <2>2, <3>1
  <2> QED  BY <1>3, <2>1, <2>2
<1>6. ASSUME NEW p \in 1 .. n - 1, NEW q \in 1 .. n - 1, Open(k, p, q)
      PROVE  Open(h, p + 1, q + 1)
  <2>1. ASSUME NEW i \in p + 1 .. q + 1
        PROVE  ~Boundary(h[i])
    <3>1. CASE i = 2
      BY <1>0, <3>1
    <3>2. CASE i # 2
      <4>1. i - 1 \in p .. q /\ i - 1 \in 2 .. n - 1 /\ (i - 1) + 1 = i
        BY <1>6, <3>2
      <4> QED  BY <1>6, <4>1 DEF Open, Takes
    <3> QED  BY <3>1, <3>2
  <2> QED  BY <2>1 DEF Open
<1>7. ASSUME NEW p \in 1 .. n - 1, NEW q \in 1 .. n - 1, p < q, Open(k, p, q)
      PROVE  m[p] < m[q] /\ Open(h, m[p], m[q])
  <2>1. m[p] = p + 1 /\ m[q] = q + 1
    BY <1>2
  <2> QED  BY <1>6, <1>7, <2>1
<1>8. ASSUME NEW p \in 1 .. n - 1, Sequenced(k[p])
      PROVE  /\ Sequenced(h[m[p]]) /\ NextNo(k[p]) = NextNo(h[m[p]])
             /\ k[p].truth = h[m[p]].truth
  <2>1. CASE k[p] = h[p + 1]
    BY <1>2, <1>8, <2>1
  <2>2. CASE p = 1 /\ k[p] = s
    <3>1. m[p] = 2
      BY <1>2, <2>2
    <3>2. NextNo(s) = s.next /\ NextNo(h[2]) = h[2].seq + 1
      BY <1>4 DEF NextNo, Frame
    <3> QED  BY <1>0, <2>2, <3>1, <3>2
  <2> QED  BY <1>3, <2>1, <2>2
<1>9. ASSUME NEW q \in 1 .. n - 1, Frame(k[q])
      PROVE  k[q] = h[m[q]]
  BY <1>2, <1>3, <1>4, <1>9
<1>10. Embeds(k, h, m)
  BY <1>1, <1>5, <1>7, <1>8, <1>9 DEF Embeds
<1>11. TipKept(k, n - 1, h, n, m)
  <2>1. ASSUME NEW p \in 1 .. n - 1, Open(k, p, n - 1)
        PROVE  Open(h, m[p], n)
    <3>1. n - 1 \in 1 .. n - 1 /\ (n - 1) + 1 = n
      BY <1>0
    <3> QED  BY <1>2, <1>6, <2>1, <3>1
  <2> QED  BY <2>1 DEF TipKept
<1> QED  BY <1>10, <1>11

-----------------------------------------------------------------------------
(* The history, laid out from what the store holds, the channel, the       *)
(* worker's events and the wire.                                           *)
Size(q, o, w) == 1 + Len(q) + Len(o) + Len(w)

Laid(s, q, o, w) ==
    [i \in 1 .. Size(q, o, w) |->
        IF i = 1 THEN s
        ELSE IF i <= 1 + Len(q) THEN q[i - 1]
        ELSE IF i <= 1 + Len(q) + Len(o) THEN o[i - 1 - Len(q)]
        ELSE w[i - 1 - Len(q) - Len(o)]]

LEMMA LaidDomain ==
    ASSUME NEW s, NEW q, NEW o, NEW w, Len(q) \in Nat, Len(o) \in Nat, Len(w) \in Nat
    PROVE  /\ Size(q, o, w) \in Nat \ {0} /\ DOMAIN Laid(s, q, o, w) = 1 .. Size(q, o, w)
           /\ Laid(s, q, o, w)[1] = s
BY DEF Size, Laid

LEMMA LaidAt ==
    ASSUME NEW s, NEW q, NEW o, NEW w, Len(q) \in Nat, Len(o) \in Nat, Len(w) \in Nat
    PROVE  /\ \A j \in 1 .. Len(q) : Laid(s, q, o, w)[1 + j] = q[j]
           /\ \A j \in 1 .. Len(o) : Laid(s, q, o, w)[1 + Len(q) + j] = o[j]
           /\ \A j \in 1 .. Len(w) : Laid(s, q, o, w)[1 + Len(q) + Len(o) + j] = w[j]
           /\ \A i \in 1 .. Size(q, o, w) :
                 \/ i = 1
                 \/ \E j \in 1 .. Len(q) : i = 1 + j
                 \/ \E j \in 1 .. Len(o) : i = 1 + Len(q) + j
                 \/ \E j \in 1 .. Len(w) : i = 1 + Len(q) + Len(o) + j
<1>1. Len(q) \in Nat /\ Len(o) \in Nat /\ Len(w) \in Nat
  OBVIOUS
<1>2. \A j \in 1 .. Len(q) : Laid(s, q, o, w)[1 + j] = q[j]
  BY DEF Laid, Size
<1>3. \A j \in 1 .. Len(o) : Laid(s, q, o, w)[1 + Len(q) + j] = o[j]
  BY DEF Laid, Size
<1>4. \A j \in 1 .. Len(w) : Laid(s, q, o, w)[1 + Len(q) + Len(o) + j] = w[j]
  BY DEF Laid, Size
<1>5. ASSUME NEW i \in 1 .. Size(q, o, w)
      PROVE  \/ i = 1
             \/ \E j \in 1 .. Len(q) : i = 1 + j
             \/ \E j \in 1 .. Len(o) : i = 1 + Len(q) + j
             \/ \E j \in 1 .. Len(w) : i = 1 + Len(q) + Len(o) + j
  <2>1. CASE i > 1 /\ i <= 1 + Len(q)
    <3>1. i - 1 \in 1 .. Len(q) /\ i = 1 + (i - 1)
      BY <1>1, <2>1
    <3> QED  BY <3>1
  <2>2. CASE i > 1 + Len(q) /\ i <= 1 + Len(q) + Len(o)
    <3>1. i - 1 - Len(q) \in 1 .. Len(o) /\ i = 1 + Len(q) + (i - 1 - Len(q))
      BY <1>1, <2>2
    <3> QED  BY <3>1
  <2>3. CASE i > 1 + Len(q) + Len(o)
    <3>1. i - 1 - Len(q) - Len(o) \in 1 .. Len(w)
      BY <1>1, <2>3 DEF Size
    <3>2. i = 1 + Len(q) + Len(o) + (i - 1 - Len(q) - Len(o))
      BY <1>1
    <3> QED  BY <3>1, <3>2
  <2> QED  BY <1>1, <2>1, <2>2, <2>3
<1> QED  BY <1>2, <1>3, <1>4, <1>5

LEMMA SendKeeps ==
    ASSUME NEW S, NEW s, NEW q \in Seq(S), NEW o \in Seq(S), NEW w \in Seq(S), o # <<>>
    PROVE  /\ Laid(s, Append(q, Head(o)), Tail(o), w) = Laid(s, q, o, w)
           /\ Size(Append(q, Head(o)), Tail(o), w) = Size(q, o, w)
<1>1. /\ Append(q, Head(o)) \in Seq(S) /\ Tail(o) \in Seq(S)
      /\ Len(Append(q, Head(o))) = Len(q) + 1 /\ Len(Tail(o)) = Len(o) - 1
      /\ Len(q) \in Nat /\ Len(o) \in Nat \ {0} /\ Len(w) \in Nat
  OBVIOUS
<1>2. Size(Append(q, Head(o)), Tail(o), w) = Size(q, o, w)
  BY <1>1 DEF Size
<1>3. ASSUME NEW i \in 1 .. Size(q, o, w)
      PROVE  Laid(s, Append(q, Head(o)), Tail(o), w)[i] = Laid(s, q, o, w)[i]
  <2>1. CASE i <= 1 + Len(q)
    BY <1>1, <1>2, <2>1 DEF Laid
  <2>2. CASE i = 2 + Len(q)
    BY <1>1, <1>2, <2>2 DEF Laid
  <2>3. CASE i > 2 + Len(q) /\ i <= 1 + Len(q) + Len(o)
    <3>1. Tail(o)[i - 2 - Len(q)] = o[i - 1 - Len(q)]
      BY <1>1, <2>3
    <3> QED  BY <1>1, <1>2, <2>3, <3>1 DEF Laid
  <2>4. CASE i > 1 + Len(q) + Len(o)
    BY <1>1, <1>2, <2>4 DEF Laid
  <2> QED  BY <1>1, <2>1, <2>2, <2>3, <2>4
<1> QED  BY <1>2, <1>3 DEF Laid

LEMMA ReadKeeps ==
    ASSUME NEW S, NEW s, NEW q \in Seq(S), NEW w \in Seq(S), w # <<>>
    PROVE  /\ Laid(s, q, <<Head(w)>>, Tail(w)) = Laid(s, q, <<>>, w)
           /\ Size(q, <<Head(w)>>, Tail(w)) = Size(q, <<>>, w)
<1>1. /\ Tail(w) \in Seq(S) /\ Len(Tail(w)) = Len(w) - 1 /\ Len(q) \in Nat /\ Len(w) \in Nat \ {0}
      /\ Len(<<>>) = 0 /\ Len(<<Head(w)>>) = 1
  OBVIOUS
<1>2. Size(q, <<Head(w)>>, Tail(w)) = Size(q, <<>>, w)
  BY <1>1 DEF Size
<1>3. ASSUME NEW i \in 1 .. Size(q, <<>>, w)
      PROVE  Laid(s, q, <<Head(w)>>, Tail(w))[i] = Laid(s, q, <<>>, w)[i]
  <2>1. CASE i <= 1 + Len(q)
    BY <1>1, <1>2, <2>1 DEF Laid
  <2>2. CASE i = 2 + Len(q)
    BY <1>1, <1>2, <2>2 DEF Laid
  <2>3. CASE i > 2 + Len(q)
    <3> DEFINE j == i - 1 - Len(q)
    <3>1. /\ j \in 1 .. Len(w) /\ i = 1 + Len(q) + 0 + j
          /\ j - 1 \in 1 .. Len(Tail(w)) /\ i = 1 + Len(q) + 1 + (j - 1)
      BY <1>1, <2>3 DEF Size
    <3>2. Tail(w)[j - 1] = w[j]
      BY <1>1, <3>1
    <3> HIDE DEF j
    <3>4. Laid(s, q, <<>>, w)[i] = w[j]
      BY <1>1, <3>1, LaidAt
    <3>5. Laid(s, q, <<Head(w)>>, Tail(w))[i] = Tail(w)[j - 1]
      <4> DEFINE first == <<Head(w)>>
                 rest  == Tail(w)
                 at    == j - 1
      <4>1. /\ Len(first) \in Nat /\ Len(rest) \in Nat
            /\ at \in 1 .. Len(rest) /\ i = 1 + Len(q) + Len(first) + at
        BY <1>1, <3>1
      <4> HIDE DEF first, rest, at
      <4>2. Laid(s, q, first, rest)[1 + Len(q) + Len(first) + at] = rest[at]
        BY <1>1, <4>1, LaidAt
      <4> QED  BY <4>1, <4>2 DEF first, rest, at
    <3> QED  BY <3>2, <3>4, <3>5
  <2> QED  BY <1>1, <2>1, <2>2, <2>3
<1> QED  BY <1>2, <1>3 DEF Laid

LEMMA AppendExtends ==
    ASSUME NEW S, NEW s, NEW q \in Seq(S), NEW o \in Seq(S), NEW w \in Seq(S), NEW x \in S
    PROVE  /\ Extends(Laid(s, q, o, Append(w, x)), Laid(s, q, o, w), Size(q, o, w))
           /\ Size(q, o, Append(w, x)) = Size(q, o, w) + 1
           /\ Laid(s, q, o, Append(w, x))[Size(q, o, w) + 1] = x
<1>1. /\ Len(Append(w, x)) = Len(w) + 1 /\ Len(q) \in Nat /\ Len(o) \in Nat /\ Len(w) \in Nat
      /\ Append(w, x)[Len(w) + 1] = x /\ \A i \in 1 .. Len(w) : Append(w, x)[i] = w[i]
  OBVIOUS
<1>2. Size(q, o, Append(w, x)) = Size(q, o, w) + 1
  BY <1>1 DEF Size
<1>3. ASSUME NEW i \in 1 .. Size(q, o, w)
      PROVE  Laid(s, q, o, Append(w, x))[i] = Laid(s, q, o, w)[i]
  <2>1. Len(Append(w, x)) \in Nat
    BY <1>1
  <2>2. CASE i = 1
    BY <1>1, <2>1, <2>2, LaidDomain
  <2>3. ASSUME NEW j \in 1 .. Len(q), i = 1 + j
        PROVE  Laid(s, q, o, Append(w, x))[i] = Laid(s, q, o, w)[i]
    <3> DEFINE more == Append(w, x)
    <3>1. Len(more) \in Nat
      BY <1>1
    <3> HIDE DEF more
    <3>2. Laid(s, q, o, more)[1 + j] = q[j]
      BY <1>1, <3>1, LaidAt
    <3>3. Laid(s, q, o, w)[1 + j] = q[j]
      BY <1>1, LaidAt
    <3> QED  BY <2>3, <3>2, <3>3 DEF more
  <2>4. ASSUME NEW j \in 1 .. Len(o), i = 1 + Len(q) + j
        PROVE  Laid(s, q, o, Append(w, x))[i] = Laid(s, q, o, w)[i]
    <3> DEFINE more == Append(w, x)
    <3>1. Len(more) \in Nat
      BY <1>1
    <3> HIDE DEF more
    <3>2. Laid(s, q, o, more)[1 + Len(q) + j] = o[j]
      BY <1>1, <3>1, LaidAt
    <3>3. Laid(s, q, o, w)[1 + Len(q) + j] = o[j]
      BY <1>1, LaidAt
    <3> QED  BY <2>4, <3>2, <3>3 DEF more
  <2>5. ASSUME NEW j \in 1 .. Len(w), i = 1 + Len(q) + Len(o) + j
        PROVE  Laid(s, q, o, Append(w, x))[i] = Laid(s, q, o, w)[i]
    <3> DEFINE more == Append(w, x)
    <3>1. Len(more) \in Nat /\ j \in 1 .. Len(more) /\ more[j] = w[j]
      BY <1>1
    <3> HIDE DEF more
    <3>2. Laid(s, q, o, more)[i] = more[j]
      BY <1>1, <2>5, <3>1, LaidAt
    <3>3. Laid(s, q, o, w)[i] = w[j]
      BY <1>1, <2>5, LaidAt
    <3> QED  BY <3>1, <3>2, <3>3 DEF more
  <2> QED  BY <1>1, <2>2, <2>3, <2>4, <2>5, LaidAt
<1>4. Laid(s, q, o, Append(w, x))[Size(q, o, w) + 1] = x
  <2> DEFINE more == Append(w, x)
             at   == Len(w) + 1
  <2>1. Len(more) \in Nat /\ at \in 1 .. Len(more) /\ more[at] = x
    BY <1>1
  <2>2. Size(q, o, w) + 1 = 1 + Len(q) + Len(o) + at
    BY <1>1 DEF Size
  <2> HIDE DEF more, at
  <2>3. Laid(s, q, o, more)[1 + Len(q) + Len(o) + at] = more[at]
    BY <1>1, <2>1, LaidAt
  <2> QED  BY <2>1, <2>2, <2>3 DEF more
<1> QED  BY <1>2, <1>3, <1>4 DEF Extends

LEMMA CutReplaces ==
    ASSUME NEW S, NEW s, NEW q \in Seq(S), NEW w \in Seq(S), NEW o \in Seq(S),
           NEW rest \in Seq(S), \A i \in 1 .. Len(o) : Boundary(o[i]),
           rest = <<>> \/ (w # <<>> /\ Note(Head(w)) /\ rest = Tail(w))
    PROVE  Replaces(Laid(s, q, o, rest), Size(q, o, rest), Laid(s, q, <<>>, w),
                    Size(q, <<>>, w), 1 + Len(q), Len(o))
<1> DEFINE k == Laid(s, q, o, rest)
           h == Laid(s, q, <<>>, w)
<1>1. /\ Len(q) \in Nat /\ Len(o) \in Nat /\ Len(w) \in Nat /\ Len(rest) \in Nat
      /\ Len(<<>>) = 0
  OBVIOUS
<1>2. \A i \in 1 .. 1 + Len(q) : k[i] = h[i]
  BY <1>1 DEF Laid, Size
<1>3. \A i \in (1 + Len(q)) + 1 .. (1 + Len(q)) + Len(o) : Boundary(k[i])
  <2> SUFFICES ASSUME NEW i \in (1 + Len(q)) + 1 .. (1 + Len(q)) + Len(o)
               PROVE  Boundary(k[i])
    OBVIOUS
  <2>1. i - 1 - Len(q) \in 1 .. Len(o) /\ k[i] = o[i - 1 - Len(q)]
    BY <1>1 DEF Laid, Size
  <2> HIDE DEF k
  <2> QED  BY <2>1
<1>4. CASE rest = <<>>
  <2>1. Size(q, o, rest) = (1 + Len(q)) + Len(o) /\ 1 + Len(q) <= Size(q, <<>>, w)
    BY <1>1, <1>4 DEF Size
  <2> HIDE DEF k, h
  <2> QED  BY <1>1, <1>2, <1>3, <2>1 DEF Replaces, k, h
<1>5. CASE w # <<>> /\ Note(Head(w)) /\ rest = Tail(w)
  <2>1. Len(rest) = Len(w) - 1 /\ Len(w) \in Nat \ {0}
    BY <1>1, <1>5
  <2>2. \A i \in 1 .. Len(rest) : rest[i] = w[i + 1]
    BY <1>5, <2>1
  <2>3. /\ Size(q, o, rest) = 1 + Len(q) + Len(o) + Len(rest)
        /\ Size(q, <<>>, w) = 2 + Len(q) + Len(rest)
    BY <1>1, <2>1 DEF Size
  <2>4. ASSUME NEW i \in (1 + Len(q)) + Len(o) + 1 .. Size(q, o, rest)
        PROVE  i - Len(o) + 1 <= Size(q, <<>>, w) /\ k[i] = h[i - Len(o) + 1]
    <3>1. i - 1 - Len(q) - Len(o) \in 1 .. Len(rest)
      BY <1>1, <2>3
    <3>2. k[i] = rest[i - 1 - Len(q) - Len(o)]
      BY <1>1, <2>3, <3>1 DEF Laid
    <3>3. i - Len(o) + 1 \in 1 .. Size(q, <<>>, w) /\ i - Len(o) + 1 > 1 + Len(q)
      BY <1>1, <2>3, <3>1
    <3>4. h[i - Len(o) + 1] = w[(i - Len(o) + 1) - 1 - Len(q) - 0]
      BY <1>1, <3>3 DEF Laid
    <3>5. (i - Len(o) + 1) - 1 - Len(q) - 0 = (i - 1 - Len(q) - Len(o)) + 1
      BY <1>1
    <3> HIDE DEF k, h
    <3> QED  BY <1>1, <2>2, <3>1, <3>2, <3>3, <3>4, <3>5
  <2>5. Note(h[(1 + Len(q)) + 1])
    <3>1. (1 + Len(q)) + 1 \in 1 .. Size(q, <<>>, w)
      BY <1>1, <2>3
    <3>2. h[(1 + Len(q)) + 1] = w[(1 + Len(q)) + 1 - 1 - Len(q) - 0]
      BY <1>1, <3>1 DEF Laid
    <3>3. (1 + Len(q)) + 1 - 1 - Len(q) - 0 = 1
      BY <1>1
    <3> HIDE DEF h
    <3> QED  BY <1>5, <3>2, <3>3
  <2>6. 1 + Len(q) <= Size(q, <<>>, w) /\ (1 + Len(q)) + Len(o) <= Size(q, o, rest)
    BY <1>1, <2>3
  <2> HIDE DEF k, h
  <2> QED  BY <1>2, <1>3, <2>4, <2>5, <2>6 DEF Replaces, k, h
<1> QED  BY <1>4, <1>5

LEMMA TailTakes ==
    ASSUME NEW S, NEW s, NEW t, NEW q \in Seq(S), NEW o \in Seq(S), NEW w \in Seq(S),
           q # <<>>, s.kind = "store", t.kind = "store"
    PROVE  /\ Takes(t, Laid(t, Tail(q), o, w), Laid(s, q, o, w), Size(q, o, w))
           /\ Laid(s, q, o, w)[2] = Head(q)
           /\ Size(Tail(q), o, w) = Size(q, o, w) - 1
<1> DEFINE k == Laid(t, Tail(q), o, w)
           h == Laid(s, q, o, w)
<1>1. /\ Len(q) \in Nat \ {0} /\ Len(o) \in Nat /\ Len(w) \in Nat
      /\ Tail(q) \in Seq(S) /\ Len(Tail(q)) = Len(q) - 1
      /\ \A i \in 1 .. Len(Tail(q)) : Tail(q)[i] = q[i + 1]
  OBVIOUS
<1>2. Size(Tail(q), o, w) = Size(q, o, w) - 1 /\ Size(q, o, w) \in Nat /\ Size(q, o, w) >= 2
  BY <1>1 DEF Size
<1>3. k[1] = t /\ h[1] = s
  <2>1. k[1] = t
    BY <1>1, LaidDomain
  <2>2. h[1] = s
    BY <1>1, LaidDomain
  <2> QED  BY <2>1, <2>2
<1>4. h[2] = Head(q)
  BY <1>1, <1>2 DEF Laid
<1>5. ASSUME NEW i \in 2 .. Size(q, o, w) - 1
      PROVE  k[i] = h[i + 1]
  <2>1. i \in 1 .. Size(Tail(q), o, w) /\ i + 1 \in 1 .. Size(q, o, w) /\ i # 1 /\ i + 1 # 1
    BY <1>2
  <2>2. CASE i <= Len(q)
    <3>1. i - 1 \in 1 .. Len(Tail(q)) /\ (i - 1) + 1 = i /\ (i + 1) - 1 = i
      BY <1>1, <2>2
    <3>2. k[i] = Tail(q)[i - 1]
      BY <1>1, <2>1, <2>2 DEF Laid
    <3>3. h[i + 1] = q[(i + 1) - 1]
      BY <1>1, <2>1, <2>2 DEF Laid
    <3> HIDE DEF k, h
    <3> QED  BY <1>1, <3>1, <3>2, <3>3
  <2>3. CASE i > Len(q) /\ i <= Len(q) + Len(o)
    BY <1>1, <2>1, <2>3 DEF Laid
  <2>4. CASE i > Len(q) + Len(o)
    BY <1>1, <2>1, <2>4 DEF Laid
  <2> QED  BY <1>1, <2>2, <2>3, <2>4
<1> HIDE DEF k, h
<1> QED  BY <1>2, <1>3, <1>4, <1>5 DEF Takes, k, h

-----------------------------------------------------------------------------
(* The feed's events by kind.  Only a boundary or a frame the parser       *)
(* accepted is ever sent.                                                  *)
Marks  == [kind : {"disconnected"}] \cup [kind : {"resubscribed"}, contract : Contract]
Bodies == [kind : {"snapshot"}, contract : Contract, seq : Nat, truth : [Contract -> Ladders]]
          \cup [kind : {"delta"}, contract : Contract, side : Side, price : Price,
                change : Int, seq : Nat, truth : [Contract -> Ladders]]
Sent   == Marks \cup Bodies

LEMMA EventKinds ==
    /\ Frames = [kind : {"ack", "rejected"}] \cup Bodies /\ Events = Marks \cup Frames
    /\ \A e \in Marks : Boundary(e) /\ ~Frame(e)
    /\ \A e \in Bodies : Frame(e) /\ ~Boundary(e) /\ e.kind # "store"
    /\ \A e \in [kind : {"ack", "rejected"}] : Note(e)
<1>1. Frames = [kind : {"ack", "rejected"}] \cup Bodies /\ Events = Marks \cup Frames
  BY DEF Frames, Bodies, Events, Marks
<1>2. \A e \in Marks : Boundary(e) /\ ~Frame(e)
  BY DEF Marks, Boundary, Frame
<1>3. \A e \in Bodies : Frame(e) /\ ~Boundary(e) /\ e.kind # "store"
  BY DEF Bodies, Boundary, Frame
<1>4. \A e \in [kind : {"ack", "rejected"}] : Note(e)
  BY DEF Note, Boundary, Frame
<1> QED  BY <1>1, <1>2, <1>3, <1>4

LEMMA SubSeqs ==
    ASSUME NEW S, NEW T, S \subseteq T, NEW w \in Seq(S)
    PROVE  w \in Seq(T)
OBVIOUS

Typed ==
    /\ FeedTypeOK
    /\ queue \in Seq(Sent) /\ outbox \in Seq(Sent)

LEMMA TypedSequences ==
    ASSUME Typed
    PROVE  /\ queue \in Seq(Events) /\ outbox \in Seq(Events) /\ wire \in Seq(Events)
           /\ Disconnected \in Sent /\ \A c \in Contract : Resubscribed(c) \in Sent
           /\ Ack \in Frames /\ Rejected \in Frames
<1>1. queue \in Seq(Events) /\ outbox \in Seq(Events) /\ wire \in Seq(Frames)
  BY DEF Typed, FeedTypeOK
<1>2. wire \in Seq(Events)
  <2>1. Frames \subseteq Events
    BY DEF Events
  <2> QED  BY <1>1, <2>1, SubSeqs
<1>3. Disconnected \in Sent /\ \A c \in Contract : Resubscribed(c) \in Sent
  BY DEF Disconnected, Resubscribed, Sent, Marks
<1>4. Ack \in Frames /\ Rejected \in Frames
  BY DEF Ack, Rejected, Frames
<1> QED  BY <1>1, <1>2, <1>3, <1>4

(* The venue's rows give back the book it sent.                            *)
LEMMA RowsAreTheDepth ==
    ASSUME NEW depth \in Depth
    PROVE  GoodRows(RowsOf(depth)) /\ FromRows(RowsOf(depth)) = depth
<1> DEFINE rows == RowsOf(depth)
<1>1. Par \in Nat /\ DOMAIN rows = 1 .. Par + 1
  BY ParAssumption DEF RowsOf
<1>2. \A i \in 1 .. Par + 1 : i - 1 \in Price /\ depth[i - 1] \in Nat
  BY <1>1 DEF Price, Depth
<1>3. \A i \in 1 .. Par + 1 : rows[i] = [price |-> i - 1, size |-> depth[i - 1]]
  BY DEF RowsOf
<1>4. rows \in Seq(Row)
  <2>1. \A i \in 1 .. Par + 1 : [price |-> i - 1, size |-> depth[i - 1]] \in Row
    BY <1>2 DEF Row, Price
  <2> QED  BY <1>1, <2>1 DEF RowsOf
<1> HIDE DEF rows
<1>5. GoodRows(rows)
  BY <1>1, <1>2, <1>3 DEF GoodRows, GoodRow
<1>6. ASSUME NEW p \in Price
      PROVE  FromRows(rows)[p] = depth[p]
  <2>1. p + 1 \in DOMAIN rows /\ (p + 1) - 1 = p
    BY <1>1 DEF Price
  <2>2. rows[p + 1].price = p
    BY <1>1, <1>3, <2>1
  <2>3. \E i \in DOMAIN rows : rows[i].price = p
    BY <2>1, <2>2
  <2>4. LastRowAt(rows, p) \in DOMAIN rows /\ rows[LastRowAt(rows, p)].price = p
    BY <1>4, <2>3, LastRowIsARow
  <2> DEFINE at == LastRowAt(rows, p)
  <2> HIDE DEF at
  <2>5. at \in 1 .. Par + 1 /\ at - 1 = p
    BY <1>1, <1>3, <2>4 DEF at
  <2>6. rows[at].size = depth[p]
    <3>1. rows[at] = [price |-> at - 1, size |-> depth[at - 1]]
      BY <1>3, <2>5
    <3>2. rows[at].size = depth[at - 1]
      BY <3>1
    <3> QED  BY <2>5, <3>2
  <2> QED  BY <2>3, <2>6 DEF FromRows, at
<1> QED  BY <1>5, <1>6 DEF FromRows, Depth, rows

LEMMA SnapshotIsTheBook ==
    ASSUME NEW lad \in Ladders
    PROVE  /\ GoodRows(RowsOf(lad["yes"])) /\ GoodRows(RowsOf(lad["no"]))
           /\ FromSnapshot(RowsOf(lad["yes"]), RowsOf(lad["no"])) = lad
<1>1. lad["yes"] \in Depth /\ lad["no"] \in Depth /\ DOMAIN lad = Side
  BY DEF Ladders, Side
<1> QED  BY <1>1, RowsAreTheDepth DEF FromSnapshot, Side, Ladders

-----------------------------------------------------------------------------
(* What one event does to the store, as this feed uses it.                 *)
Learns(e) ==
    /\ e.kind = "snapshot"
    /\ state'    = [state EXCEPT ![e.contract] = "Live"]
    /\ ladder'   = [ladder EXCEPT ![e.contract] = e.truth[e.contract]]
    /\ expected' = [expected EXCEPT ![Kalshi] = e.seq + 1]
    /\ asOf' = e.truth
    /\ blind' = (blind \cup Hidden(e)) \ {e.contract}

Ignores(e) ==
    /\ e.kind = "delta"
    /\ UNCHANGED books /\ asOf' = asOf
    /\ blind' = blind \cap LiveBooks

Amends(e) ==
    /\ e.kind = "delta" /\ Followed(e.contract) /\ e.seq = expected[Kalshi]
    /\ ladder'   = [ladder EXCEPT ![e.contract] = ChangeLevel(@, e.side, e.price, e.change)]
    /\ expected' = [expected EXCEPT ![Kalshi] = e.seq + 1]
    /\ UNCHANGED state
    /\ asOf' = e.truth
    /\ blind' = blind \cap LiveBooks

TakesDown(e) ==
    /\ e.kind # "snapshot"
    /\ state' \in [Contract -> BookState] /\ \A c \in Contract : state'[c] # "Live"
    /\ expected' = [expected EXCEPT ![Kalshi] = None]
    /\ UNCHANGED ladder /\ asOf' = asOf
    /\ blind' = blind \cap LiveBooks'

LEMMA ConsumeCases ==
    ASSUME Typed, Consume, NEW e, e = Head(queue)
    PROVE  /\ e \in Sent /\ applied' \in Applied
           /\ Learns(e) \/ Ignores(e) \/ Amends(e) \/ TakesDown(e)
<1>1. e \in Sent
  BY DEF Typed, Consume
<1>2. \A c \in Contract : VenueOf[c] = Kalshi
  BY VenueAssumption, KalshiAssumption
<1>3. /\ ApplyEvent(e)
      /\ asOf' = IF applied'.kind \in Change THEN e.truth ELSE asOf
      /\ blind' = IF e.kind = "snapshot"
                  THEN (blind \cup Hidden(e)) \ {e.contract}
                  ELSE blind \cap LiveBooks'
  BY DEF Consume
<1>4. CASE e.kind = "snapshot"
  <2>1. e.contract \in Contract /\ e.truth \in [Contract -> Ladders]
    BY <1>1, <1>4 DEF Sent, Marks, Bodies
  <2> DEFINE lad == e.truth[e.contract]
  <2>2. ApplySnapshot(e.contract, RowsOf(lad["yes"]), RowsOf(lad["no"]), e.seq)
    BY <1>3, <1>4 DEF ApplyEvent
  <2>3. FromSnapshot(RowsOf(lad["yes"]), RowsOf(lad["no"])) = lad
    BY <2>1, SnapshotIsTheBook
  <2> HIDE DEF lad
  <2>4. applied' = [kind |-> "Snapshot", contract |-> e.contract]
    BY <2>2 DEF ApplySnapshot, Changed
  <2>5. applied'.kind \in Change /\ applied' \in Applied
    BY <2>1, <2>4 DEF Change, Applied
  <2>6. Learns(e)
    BY <1>2, <1>3, <1>4, <2>1, <2>2, <2>3, <2>5 DEF ApplySnapshot, Learns, lad
  <2> QED  BY <1>1, <2>5, <2>6
<1>5. CASE e.kind = "delta"
  <2>1. /\ e.contract \in Contract /\ e.price \in Price
        /\ ApplyDelta(e.contract, e.side, e.price, e.change, e.seq)
    BY <1>1, <1>3, <1>5 DEF Sent, Marks, Bodies, ApplyEvent
  <2>2. CASE DeltaNotFollowed(e.contract)
    <3>1. applied' = [kind |-> "Skipped"] /\ UNCHANGED books
      BY <2>2 DEF DeltaNotFollowed, Answer
    <3>2. applied'.kind \notin Change /\ applied' \in Applied
      BY <3>1 DEF Change, Applied, Quiet
    <3>3. LiveBooks' = LiveBooks
      BY <3>1 DEF books, LiveBooks
    <3> QED  BY <1>1, <1>3, <1>5, <3>1, <3>2, <3>3 DEF Ignores
  <2>3. CASE DeltaGap(e.contract, e.seq)
    <3>1. applied' = [kind |-> "Gap"]
      BY <2>3 DEF DeltaGap, Answer
    <3>2. applied'.kind \notin Change /\ applied' \in Applied
      BY <3>1 DEF Change, Applied, Quiet
    <3>3. /\ state' = [c \in Contract |-> IF c \in LiveOf(Kalshi) THEN "Resyncing" ELSE state[c]]
          /\ expected' = [expected EXCEPT ![Kalshi] = None] /\ UNCHANGED ladder
      BY <1>2, <2>1, <2>3 DEF DeltaGap, MarkVenueResyncing
    <3>4. state' \in [Contract -> BookState] /\ \A c \in Contract : state'[c] # "Live"
      BY <1>2, <3>3 DEF LiveOf, OfVenue, LiveBooks, Typed, FeedTypeOK, StoreTypeOK, BookState
    <3>5. TakesDown(e)
      BY <1>3, <1>5, <3>2, <3>3, <3>4 DEF TakesDown
    <3> QED  BY <1>1, <3>2, <3>5
  <2>4. CASE DeltaInSequence(e.contract, e.side, e.price, e.change, e.seq)
    <3>1. applied' = [kind |-> "Delta", contract |-> e.contract]
      BY <2>4 DEF DeltaInSequence, Changed
    <3>2. applied'.kind \in Change /\ applied' \in Applied
      BY <2>1, <3>1 DEF Change, Applied
    <3>3. LiveBooks' = LiveBooks
      BY <2>4 DEF DeltaInSequence, LiveBooks
    <3>4. Amends(e)
      BY <1>2, <1>3, <1>5, <2>1, <2>4, <3>2, <3>3 DEF DeltaInSequence, Amends
    <3> QED  BY <1>1, <3>2, <3>4
  <2>5. ~DeltaOutOfRange(e.contract, e.price, e.seq)
    BY <2>1 DEF DeltaOutOfRange
  <2> QED  BY <2>1, <2>2, <2>3, <2>4, <2>5 DEF ApplyDelta
<1>6. CASE e.kind = "disconnected"
  <2>1. ApplyDisconnected(Kalshi)
    BY <1>3, <1>6 DEF ApplyEvent
  <2>2. applied' = [kind |-> "Invalidated"]
    BY <2>1 DEF ApplyDisconnected, Answer
  <2>3. applied'.kind \notin Change /\ applied' \in Applied
    BY <2>2 DEF Change, Applied, Quiet
  <2>4. /\ state' = [c \in Contract |-> "Resyncing"]
        /\ expected' = [expected EXCEPT ![Kalshi] = None] /\ UNCHANGED ladder
    BY <1>2, <2>1 DEF ApplyDisconnected, InvalidateVenue, OfVenue
  <2>5. TakesDown(e)
    BY <1>3, <1>6, <2>3, <2>4 DEF TakesDown, BookState
  <2> QED  BY <1>1, <2>3, <2>5
<1>7. CASE e.kind = "resubscribed"
  <2>1. e.contract \in Contract /\ ApplyResubscribed(e.contract)
    BY <1>1, <1>3, <1>7 DEF ApplyEvent, Sent, Marks, Bodies
  <2>2. applied' = [kind |-> "Invalidated"]
    BY <2>1 DEF ApplyResubscribed, Answer
  <2>3. applied'.kind \notin Change /\ applied' \in Applied
    BY <2>2 DEF Change, Applied, Quiet
  <2>4. /\ state' = [c \in Contract |-> IF c \in LiveOf(Kalshi) THEN "Resyncing" ELSE state[c]]
        /\ expected' = [expected EXCEPT ![Kalshi] = None] /\ UNCHANGED ladder
    BY <1>2, <2>1 DEF ApplyResubscribed, MarkVenueResyncing
  <2>5. state' \in [Contract -> BookState] /\ \A c \in Contract : state'[c] # "Live"
    BY <1>2, <2>4 DEF LiveOf, OfVenue, LiveBooks, Typed, FeedTypeOK, StoreTypeOK, BookState
  <2>6. TakesDown(e)
    BY <1>3, <1>7, <2>3, <2>4, <2>5 DEF TakesDown
  <2> QED  BY <1>1, <2>3, <2>6
<1> QED  BY <1>1, <1>4, <1>5, <1>6, <1>7 DEF Sent, Marks, Bodies

-----------------------------------------------------------------------------
(* The invariant.                                                          *)
Store == [kind |-> "store", next |-> expected[Kalshi], truth |-> asOf, live |-> LiveBooks]
H     == Laid(Store, queue, outbox, wire)
N     == Size(queue, outbox, wire)

(* Whatever is on its way to the store continues what came before it of    *)
(* the same connection; what the venue has yet to number continues that;   *)
(* and between two connections nothing is left of the first without a      *)
(* boundary behind it.                                                     *)
Connected == link = "open" => AtTip(H, N, nextSeq, market, toSnap)
Between   == link = "connecting" => wire = <<>> /\ Severed(H, N)

FeedInv == /\ Typed
           /\ LiveBacked
           /\ Chained(H) /\ Connected /\ Between
           /\ LiveMirrorsVenue

LEMMA HistoryShape ==
    ASSUME Typed
    PROVE  N \in Nat \ {0} /\ DOMAIN H = 1 .. N /\ H[1] = Store
<1>1. Len(queue) \in Nat /\ Len(outbox) \in Nat /\ Len(wire) \in Nat
  BY TypedSequences
<1> QED  BY <1>1, LaidDomain DEF H, N

LEMMA NextHistoryShape ==
    ASSUME Typed'
    PROVE  N' \in Nat \ {0} /\ DOMAIN H' = 1 .. N' /\ H'[1] = Store'
<1>1. queue' \in Seq(Events) /\ outbox' \in Seq(Events) /\ wire' \in Seq(Frames)
  BY DEF Typed, FeedTypeOK
<1>2. Len(queue') \in Nat /\ Len(outbox') \in Nat /\ Len(wire') \in Nat
  BY <1>1
<1> QED  BY <1>2, LaidDomain DEF H, N

-----------------------------------------------------------------------------
LEMMA FeedInvInit == FeedInit => FeedInv
<1> SUFFICES ASSUME FeedInit
             PROVE  FeedInv
  OBVIOUS
<1> USE DEF FeedInit
<1>1. StoreTypeOK
  BY StoreTypeInit
<1>2. EmptyLadder \in Ladders
  BY DEF EmptyLadder, NoDepth, Ladders, Depth
<1>3. Typed
  <2>1. market \in [Contract -> Ladders] /\ asOf \in [Contract -> Ladders]
    BY <1>2, OpeningAssumption
  <2>2. \A S : <<>> \in Seq(S)
    OBVIOUS
  <2>3. Len(queue) <= Capacity
    BY CapacityAssumption
  <2>4. lost \in 0 .. MaxLost /\ drops \in 0 .. MaxDrops /\ failures \in 0 .. MaxFailures
    BY FaultAssumption
  <2> QED  BY <1>1, <2>1, <2>2, <2>3, <2>4 DEF Typed, FeedTypeOK
<1>4. LiveBooks = {}
  BY DEF StoreInit, LiveBooks
<1>5. Store.next = None
  BY KalshiAssumption DEF Store, StoreInit
<1>6. N = 1 /\ DOMAIN H = 1 .. 1 /\ H[1] = Store
  <2>1. N = 1
    BY DEF N, Size
  <2> QED  BY <1>3, <2>1, HistoryShape
<1>7. \A p \in DOMAIN H : ~Sequenced(H[p]) /\ ~Frame(H[p])
  BY <1>5, <1>6 DEF Sequenced, Frame, Store
<1>8. Chained(H) /\ Severed(H, N)
  BY <1>7 DEF Chained, Severed
<1> QED  BY <1>3, <1>4, <1>8 DEF FeedInv, LiveBacked, LiveMirrorsVenue, Connected, Between

(* Lemmas of the step: what each kind of step leaves true of the history.  *)

LEMMA SameStore ==
    ASSUME UNCHANGED storeVars, UNCHANGED ghostVars
    PROVE  Store' = Store /\ (LiveMirrorsVenue => LiveMirrorsVenue') /\ (LiveBacked => LiveBacked')
BY DEF storeVars, ghostVars, Store, LiveBooks, LiveMirrorsVenue, LiveBacked

LEMMA SameHistory ==
    ASSUME Store' = Store, UNCHANGED <<queue, outbox, wire>>
    PROVE  H' = H /\ N' = N
BY DEF H, N

(* The venue's number used, for a frame or for one that never comes.       *)
LEMMA NumberedStep ==
    ASSUME FeedInv, Typed', Store' = Store, UNCHANGED <<queue, outbox, link>>, link = "open",
           NEW x \in Bodies \cup {Rejected}, Numbered(x), toSnap' \subseteq toSnap,
           x # Rejected => /\ x.seq = nextSeq /\ x.truth = market'
                           /\ \A d \in Contract : d \notin toSnap => Follows(market, x, d)
                           /\ \A d \in Contract : Covers(x, d) => d \notin toSnap'
    PROVE  Chained(H)' /\ Connected' /\ Between'
<1>1. /\ N \in Nat \ {0} /\ DOMAIN H = 1 .. N /\ DOMAIN H' = 1 .. N' /\ nextSeq \in Nat
      /\ Chained(H) /\ AtTip(H, N, nextSeq, market, toSnap)
  <2> QED  BY HistoryShape, NextHistoryShape DEF FeedInv, Connected, Typed, FeedTypeOK
<1>2. PICK y \in {x, Rejected} : wire' = Append(wire, y)
  BY DEF Numbered
<1>3. y \in Events /\ queue \in Seq(Events) /\ outbox \in Seq(Events) /\ wire \in Seq(Events)
  <2>1. Rejected \in Events
    BY EventKinds DEF Rejected
  <2> QED  BY <1>2, <2>1, EventKinds, TypedSequences DEF FeedInv
<1>4. H' = Laid(Store, queue, outbox, Append(wire, y)) /\ N' = Size(queue, outbox, Append(wire, y))
  BY <1>2 DEF H, N
<1>5. Extends(H', H, N) /\ N' = N + 1 /\ H'[N + 1] = y
  BY <1>3, <1>4, AppendExtends DEF H, N
<1>6. Chained(H') /\ AtTip(H', N + 1, nextSeq + 1, market', toSnap')
  <2>1. CASE y = Rejected
    <3>1. Note(H'[N + 1])
      BY <1>5, <2>1, EventKinds DEF Rejected
    <3>2. PICK m : Embeds(H', H, m) /\ TipKept(H', N + 1, H, N, m)
      BY <1>1, <1>5, <3>1, NoteIsNothing
    <3>3. Chained(H')
      BY <1>1, <1>5, <3>2, EmbedChained
    <3>4. AtTip(H', N + 1, nextSeq, market, toSnap)
      BY <1>1, <1>5, <3>2, EmbedTip
    <3>5. AtTip(H', N + 1, nextSeq + 1, market', toSnap')
      BY <1>1, <1>5, <3>4, NumberUsed
    <3> QED  BY <3>3, <3>5
  <2>2. CASE y # Rejected
    <3>1. y = x /\ Frame(x) /\ x.seq = nextSeq /\ x.truth = market'
      BY <1>2, <2>2, EventKinds
    <3>2. \A d \in Contract : Known(H, d, N) => Follows(market, x, d)
      BY <1>1, <2>2, <3>1 DEF AtTip
    <3>3. \A d \in Contract : Covers(x, d) => d \notin toSnap'
      BY <2>2, <3>1
    <3> QED  BY <1>1, <1>5, <3>1, <3>2, <3>3, NextFrame
  <2> QED  BY <2>1, <2>2
<1>7. nextSeq' = nextSeq + 1
  BY DEF Numbered
<1> QED  BY <1>5, <1>6, <1>7 DEF Connected, Between

-----------------------------------------------------------------------------
(* Types.                                                                  *)

(* The contracts can be listed: the store was built from a finite map.     *)
LEMMA TickersListed ==
    /\ Cardinality(Contract) \in Nat
    /\ Tickers \in [1 .. Cardinality(Contract) -> Contract]
<1>1. Cardinality(Contract) \in Nat /\ ExistsBijection(1 .. Cardinality(Contract), Contract)
  BY ContractAssumption, FS_CardinalityType
<1>2. PICK s : s \in Bijection(1 .. Cardinality(Contract), Contract)
  BY <1>1 DEF ExistsBijection
<1>3. /\ s \in [1 .. Cardinality(Contract) -> Contract]
      /\ \A i, j \in 1 .. Cardinality(Contract) : s[i] = s[j] => i = j
  BY <1>2, Fun_BijectionProperties
<1>4. \A i, j \in DOMAIN s : s[i] = s[j] => i = j
  BY <1>3
<1> QED  BY <1>1, <1>3, <1>4 DEF Tickers

VenueTypes  == market \in [Contract -> Ladders] /\ nextSeq \in Nat /\ toSnap \subseteq Contract
GhostTypes  == asOf \in [Contract -> Ladders] /\ blind \subseteq Contract
WorkerTypes == link \in {"connecting", "open", "stopped"}
               /\ reconnect \in BOOLEAN /\ resyncAsked \in BOOLEAN /\ stopAsked \in BOOLEAN
FaultTypes  == lost \in 0 .. MaxLost /\ drops \in 0 .. MaxDrops /\ failures \in 0 .. MaxFailures
WayTypes    == wire \in Seq(Frames) /\ outbox \in Seq(Sent) /\ queue \in Seq(Sent)
               /\ Len(queue) <= Capacity

LEMMA TypedParts ==
    Typed <=> /\ StoreTypeOK /\ VenueTypes /\ GhostTypes /\ WorkerTypes /\ FaultTypes /\ WayTypes
<1>1. Sent \subseteq Events
  BY EventKinds DEF Sent
<1>2. outbox \in Seq(Sent) /\ queue \in Seq(Sent) => outbox \in Seq(Events) /\ queue \in Seq(Events)
  BY <1>1, SubSeqs
<1> QED  BY <1>2 DEF Typed, FeedTypeOK, VenueTypes, GhostTypes, WorkerTypes, FaultTypes, WayTypes

LEMMA TypedPartsNext ==
    ASSUME StoreTypeOK', VenueTypes', GhostTypes', WorkerTypes', FaultTypes', WayTypes'
    PROVE  Typed'
<1>1. Sent \subseteq Events
  BY EventKinds DEF Sent
<1>2. outbox' \in Seq(Events) /\ queue' \in Seq(Events)
  BY <1>1, SubSeqs DEF WayTypes
<1> QED  BY <1>2 DEF Typed, FeedTypeOK, VenueTypes, GhostTypes, WorkerTypes, FaultTypes, WayTypes

LEMMA StoreKept ==
    ASSUME StoreTypeOK, GhostTypes, UNCHANGED storeVars, UNCHANGED ghostVars
    PROVE  StoreTypeOK' /\ GhostTypes'
BY DEF StoreTypeOK, GhostTypes, storeVars, ghostVars

LEMMA ConsumeTypes ==
    ASSUME Typed, Consume
    PROVE  StoreTypeOK' /\ GhostTypes'
<1> DEFINE e == Head(queue)
<1> HIDE DEF e
<1>1. /\ e \in Sent /\ applied' \in Applied
      /\ Learns(e) \/ Ignores(e) \/ Amends(e) \/ TakesDown(e)
  BY ConsumeCases DEF e
<1>2. StoreTypeOK /\ GhostTypes
  BY TypedParts
<1>3. Kalshi \in Venue /\ LiveBooks \subseteq Contract
  BY KalshiAssumption DEF LiveBooks
<1>4. CASE Learns(e)
  <2>1. e \in Bodies /\ e.contract \in Contract /\ e.seq + 1 \in Nat
        /\ e.truth \in [Contract -> Ladders]
    BY <1>1, <1>4 DEF Learns, Sent, Marks, Bodies
  <2>2. blind' \subseteq Contract
    BY <1>2, <1>3, <1>4 DEF Learns, Hidden, GhostTypes
  <2>3. "Live" \in BookState
    BY DEF BookState
  <2> QED  BY <1>1, <1>2, <1>3, <1>4, <2>1, <2>2, <2>3 DEF Learns, StoreTypeOK, GhostTypes
<1>5. CASE Ignores(e)
  BY <1>1, <1>2, <1>5 DEF Ignores, StoreTypeOK, GhostTypes, books
<1>6. CASE Amends(e)
  <2>1. e \in Bodies /\ e.contract \in Contract /\ e.seq + 1 \in Nat /\ e.side \in Side
        /\ e.truth \in [Contract -> Ladders] /\ e.price \in Price /\ e.change \in Int
    BY <1>1, <1>6 DEF Amends, Sent, Marks, Bodies
  <2>2. ChangeLevel(ladder[e.contract], e.side, e.price, e.change) \in Ladders
    BY <1>2, <2>1, ChangeIsLadder DEF StoreTypeOK
  <2> QED  BY <1>1, <1>2, <1>3, <1>6, <2>1, <2>2 DEF Amends, StoreTypeOK, GhostTypes
<1>7. CASE TakesDown(e)
  BY <1>1, <1>2, <1>3, <1>7 DEF TakesDown, StoreTypeOK, GhostTypes
<1> QED  BY <1>1, <1>4, <1>5, <1>6, <1>7

LEMMA NumberedTypes ==
    ASSUME VenueTypes, WayTypes, FaultTypes, NEW x \in Frames, Numbered(x)
    PROVE  nextSeq' \in Nat /\ wire' \in Seq(Frames) /\ lost' \in 0 .. MaxLost
<1>1. Rejected \in Frames
  BY DEF Rejected, Frames
<1>2. lost' \in 0 .. MaxLost
  BY FaultAssumption DEF Numbered, FaultTypes
<1>3. nextSeq' \in Nat
  BY DEF Numbered, VenueTypes
<1>4. wire' \in Seq(Frames)
  <2>1. PICK y \in {x, Rejected} : wire' = Append(wire, y)
    BY DEF Numbered
  <2>2. y \in Frames /\ wire \in Seq(Frames)
    BY <1>1, <2>1 DEF WayTypes
  <2> QED  BY <2>1, <2>2
<1> QED  BY <1>2, <1>3, <1>4

(* What the venue sends for a ticker, and for a trade.                     *)
LEMMA VenueFrames ==
    ASSUME VenueTypes
    PROVE  /\ \A c \in Contract : SnapshotOf(c) \in Bodies
           /\ \A c \in Contract, side \in Side, price \in Price, change \in Int,
                 truth \in [Contract -> Ladders] :
                 DeltaOf(c, side, price, change, truth) \in Bodies
BY DEF VenueTypes, SnapshotOf, DeltaOf, Bodies

Traded(c, side, price, change) == [market EXCEPT ![c][side][price] = @ + change]

LEMMA TradeIsLadder ==
    ASSUME VenueTypes, NEW c \in Contract, NEW side \in Side, NEW price \in Price,
           NEW change \in Int,
           Traded(c, side, price, change)[c][side][price] \in 0 .. MaxSize
    PROVE  /\ Traded(c, side, price, change) \in [Contract -> Ladders]
           /\ Traded(c, side, price, change)[c] = ChangeLevel(market[c], side, price, change)
           /\ \A d \in Contract : d # c => Traded(c, side, price, change)[d] = market[d]
<1> DEFINE after == Traded(c, side, price, change)
           level == market[c][side][price] + change
           lad   == [market[c] EXCEPT ![side][price] = level]
<1>1. market[c] \in Ladders /\ market \in [Contract -> Ladders]
  BY DEF VenueTypes
<1>2. after = [market EXCEPT ![c] = lad]
  BY <1>1 DEF Ladders, Depth, Traded
<1> HIDE DEF after
<1>3. after[c] = lad
  BY <1>1, <1>2
<1>4. after[c][side][price] = level
  BY <1>1, <1>3 DEF Ladders, Depth
<1>5. level \in Nat /\ Clamped(level) = level
  BY <1>4, BoundsAssumption DEF Clamped, after
<1>6. ChangeLevel(market[c], side, price, change) = lad
  BY <1>5 DEF ChangeLevel
<1> HIDE DEF lad
<1>7. lad \in Ladders
  <2>1. ChangeLevel(market[c], side, price, change) \in Ladders
    BY <1>1, ChangeIsLadder
  <2> QED  BY <1>6, <2>1
<1> QED  BY <1>1, <1>2, <1>3, <1>6, <1>7 DEF after

LEMMA TypedStep ==
    ASSUME Typed, FeedNext \/ UNCHANGED vars
    PROVE  Typed'
<1>0. StoreTypeOK /\ VenueTypes /\ GhostTypes /\ WorkerTypes /\ FaultTypes /\ WayTypes
  BY TypedParts
<1>1. ASSUME NEW c \in Contract, VenueSnapshots(c)
      PROVE  Typed'
  <2>1. SnapshotOf(c) \in Frames /\ Rejected \in Frames
    BY <1>0, VenueFrames, EventKinds, TypedSequences
  <2>2. nextSeq' \in Nat /\ wire' \in Seq(Frames) /\ lost' \in 0 .. MaxLost
    <3> DEFINE x == IF Readable(SnapshotOf(c)) THEN SnapshotOf(c) ELSE Rejected
    <3>1. x \in Frames /\ Numbered(x)
      BY <1>1, <2>1 DEF VenueSnapshots
    <3> HIDE DEF x
    <3> QED  BY <1>0, <3>1, NumberedTypes
  <2>3. StoreTypeOK' /\ GhostTypes'
    BY <1>0, <1>1, StoreKept DEF VenueSnapshots
  <2>4. VenueTypes' /\ WorkerTypes' /\ FaultTypes' /\ WayTypes'
    BY <1>0, <1>1, <2>2
    DEF VenueSnapshots, workerVars, VenueTypes, WorkerTypes, FaultTypes, WayTypes
  <2> QED  BY <2>3, <2>4, TypedPartsNext
<1>2. ASSUME NEW c \in Contract, NEW side \in MovingSides, NEW price \in Price,
             NEW change \in Changes, VenueTrades(c, side, price, change)
      PROVE  Typed'
  <2> DEFINE after == [market EXCEPT ![c][side][price] = @ + change]
  <2>1. /\ after[c][side][price] \in 0 .. MaxSize /\ market' = after
        /\ \/ Numbered(DeltaOf(c, side, price, change, after))
           \/ UNCHANGED <<nextSeq, wire, lost>>
    BY <1>2 DEF VenueTrades
  <2>2. side \in Side /\ change \in Int
    BY FaultAssumption, ChangesAssumption
  <2>3. after = Traded(c, side, price, change)
    BY DEF Traded
  <2> HIDE DEF after
  <2>4. after \in [Contract -> Ladders]
    BY <1>0, <2>1, <2>2, <2>3, TradeIsLadder
  <2>5. DeltaOf(c, side, price, change, after) \in Frames
    BY <1>0, <2>2, <2>4, VenueFrames, EventKinds
  <2>6. nextSeq' \in Nat /\ wire' \in Seq(Frames) /\ lost' \in 0 .. MaxLost
    <3>1. CASE Numbered(DeltaOf(c, side, price, change, after))
      BY <1>0, <2>5, <3>1, NumberedTypes
    <3>2. CASE UNCHANGED <<nextSeq, wire, lost>>
      BY <1>0, <3>2 DEF VenueTypes, WayTypes, FaultTypes
    <3> QED  BY <2>1, <3>1, <3>2
  <2>7. StoreTypeOK' /\ GhostTypes'
    BY <1>0, <1>2, StoreKept DEF VenueTrades
  <2>8. VenueTypes' /\ WorkerTypes' /\ FaultTypes' /\ WayTypes'
    BY <1>0, <1>2, <2>1, <2>4, <2>6
    DEF VenueTrades, workerVars, VenueTypes, WorkerTypes, FaultTypes, WayTypes
  <2> QED  BY <2>7, <2>8, TypedPartsNext
<1>3. CASE Connect
  <2>1. <<Ack>> \in Seq(Frames)
    BY TypedSequences
  <2>2. StoreTypeOK' /\ GhostTypes'
    BY <1>0, <1>3, StoreKept DEF Connect
  <2>3. VenueTypes' /\ WorkerTypes' /\ FaultTypes' /\ WayTypes'
    BY <1>0, <1>3, <2>1
    DEF Connect, faultVars, VenueTypes, WorkerTypes, FaultTypes, WayTypes
  <2> QED  BY <2>2, <2>3, TypedPartsNext
<1>4. CASE ConnectFails
  <2>1. outbox' \in Seq(Sent)
    <3>1. Disconnected \in Sent
      BY TypedSequences
    <3>2. <<Disconnected>> \in Seq(Sent) /\ <<>> \in Seq(Sent)
      BY <3>1
    <3> QED  BY <1>4, <3>2 DEF ConnectFails
  <2>2. StoreTypeOK' /\ GhostTypes'
    BY <1>0, <1>4, StoreKept DEF ConnectFails
  <2>3. failures' \in 0 .. MaxFailures
    BY <1>0, <1>4, FaultAssumption DEF ConnectFails, FaultTypes
  <2>4. VenueTypes' /\ WorkerTypes' /\ FaultTypes' /\ WayTypes'
    BY <1>0, <1>4, <2>1, <2>3
    DEF ConnectFails, venueVars, VenueTypes, WorkerTypes, FaultTypes, WayTypes
  <2> QED  BY <2>2, <2>4, TypedPartsNext
<1>5. CASE ReadAck
  <2>1. outbox' \in Seq(Sent)
    <3>1. Cardinality(Contract) \in Nat /\ Tickers \in [1 .. Cardinality(Contract) -> Contract]
      BY TickersListed
    <3>2. \A c \in Contract : Resubscribed(c) \in Sent
      BY TypedSequences
    <3>3. [i \in DOMAIN Tickers |-> Resubscribed(Tickers[i])] \in Seq(Sent)
      <4>1. DOMAIN Tickers = 1 .. Cardinality(Contract)
            /\ \A i \in 1 .. Cardinality(Contract) : Resubscribed(Tickers[i]) \in Sent
        BY <3>1, <3>2
      <4> QED  BY <3>1, <4>1
    <3> QED  BY <1>5, <3>3 DEF ReadAck
  <2>2. wire' \in Seq(Frames)
    BY <1>0, <1>5 DEF ReadAck, WayTypes
  <2>3. StoreTypeOK' /\ GhostTypes'
    BY <1>0, <1>5, StoreKept DEF ReadAck
  <2>4. VenueTypes' /\ WorkerTypes' /\ FaultTypes' /\ WayTypes'
    BY <1>0, <1>5, <2>1, <2>2
    DEF ReadAck, faultVars, VenueTypes, WorkerTypes, FaultTypes, WayTypes
  <2> QED  BY <2>3, <2>4, TypedPartsNext
<1>6. CASE ReadFrame
  <2>1. Head(wire) \in Frames /\ wire' \in Seq(Frames)
    BY <1>0, <1>6 DEF ReadFrame, WayTypes
  <2>2. outbox' \in Seq(Sent)
    <3>1. CASE Head(wire).kind = "rejected"
      BY <1>6, <3>1 DEF ReadFrame
    <3>2. CASE Head(wire).kind # "rejected"
      <4>1. Head(wire) \in Bodies
        BY <1>6, <2>1, <3>2, EventKinds DEF ReadFrame
      <4>2. <<Head(wire)>> \in Seq(Sent)
        BY <4>1 DEF Sent
      <4> QED  BY <1>6, <3>2, <4>2 DEF ReadFrame
    <3> QED  BY <3>1, <3>2
  <2>3. StoreTypeOK' /\ GhostTypes'
    BY <1>0, <1>6, StoreKept DEF ReadFrame
  <2>4. VenueTypes' /\ WorkerTypes' /\ FaultTypes' /\ WayTypes'
    BY <1>0, <1>6, <2>1, <2>2
    DEF ReadFrame, faultVars, VenueTypes, WorkerTypes, FaultTypes, WayTypes
  <2> QED  BY <2>3, <2>4, TypedPartsNext
<1>7. CASE Send
  <2>1. outbox' \in Seq(Sent) /\ queue' \in Seq(Sent) /\ Len(queue') <= Capacity
    BY <1>0, <1>7, CapacityAssumption DEF Send, WayTypes
  <2>2. StoreTypeOK' /\ GhostTypes'
    BY <1>0, <1>7, StoreKept DEF Send
  <2>3. VenueTypes' /\ WorkerTypes' /\ FaultTypes' /\ WayTypes'
    BY <1>0, <1>7, <2>1
    DEF Send, venueVars, faultVars, VenueTypes, WorkerTypes, FaultTypes, WayTypes
  <2> QED  BY <2>2, <2>3, TypedPartsNext
<1>8. CASE SocketDrops \/ ResyncObeyed
  <2>1. LoseSocket
    BY <1>8 DEF SocketDrops, ResyncObeyed
  <2>2. outbox' \in Seq(Sent)
    <3>1. Disconnected \in Sent
      BY TypedSequences
    <3>2. <<Disconnected>> \in Seq(Sent)
      BY <3>1
    <3> QED  BY <2>1, <3>2 DEF LoseSocket
  <2>3. drops' \in 0 .. MaxDrops /\ resyncAsked' \in BOOLEAN
    <3>1. drops' \in 0 .. MaxDrops
      BY <1>0, <1>8, FaultAssumption DEF SocketDrops, ResyncObeyed, FaultTypes
    <3>2. resyncAsked' = resyncAsked \/ resyncAsked' = FALSE
      BY <1>8, Zenon DEF SocketDrops, ResyncObeyed
    <3>3. resyncAsked' \in BOOLEAN
      BY <1>0, <3>2 DEF WorkerTypes
    <3> QED  BY <3>1, <3>3
  <2>4. StoreTypeOK' /\ GhostTypes'
    BY <1>0, <2>1, StoreKept DEF LoseSocket
  <2>5. VenueTypes' /\ WorkerTypes' /\ FaultTypes' /\ WayTypes'
    BY <1>0, <2>1, <2>2, <2>3
    DEF LoseSocket, VenueTypes, WorkerTypes, FaultTypes, WayTypes
  <2> QED  BY <2>4, <2>5, TypedPartsNext
<1>9. CASE AskToStop
  <2>1. StoreTypeOK' /\ GhostTypes'
    BY <1>0, <1>9, StoreKept DEF AskToStop
  <2>2. VenueTypes' /\ WorkerTypes' /\ FaultTypes' /\ WayTypes'
    BY <1>0, <1>9
    DEF AskToStop, venueVars, workerVars, faultVars, VenueTypes, WorkerTypes, FaultTypes, WayTypes
  <2> QED  BY <2>1, <2>2, TypedPartsNext
<1>10. CASE Stop
  <2>1. StoreTypeOK' /\ GhostTypes'
    BY <1>0, <1>10, StoreKept DEF Stop
  <2>2. VenueTypes' /\ WorkerTypes' /\ FaultTypes' /\ WayTypes'
    BY <1>0, <1>10 DEF Stop, faultVars, VenueTypes, WorkerTypes, FaultTypes, WayTypes
  <2> QED  BY <2>1, <2>2, TypedPartsNext
<1>11. CASE Consume
  <2>1. StoreTypeOK' /\ GhostTypes'
    BY <1>11, ConsumeTypes
  <2>2. queue' \in Seq(Sent) /\ Len(queue') <= Capacity
    BY <1>0, <1>11, CapacityAssumption DEF Consume, WayTypes
  <2>3. resyncAsked' \in BOOLEAN
    BY <1>0, <1>11 DEF Consume, WorkerTypes
  <2>4. VenueTypes' /\ WorkerTypes' /\ FaultTypes' /\ WayTypes'
    BY <1>0, <1>11, <2>2, <2>3
    DEF Consume, venueVars, workerVars, faultVars, VenueTypes, WorkerTypes, FaultTypes, WayTypes
  <2> QED  BY <2>1, <2>4, TypedPartsNext
<1>12. CASE UNCHANGED vars
  <2>1. StoreTypeOK' /\ GhostTypes'
    BY <1>0, <1>12, StoreKept DEF vars, feedVars
  <2>2. VenueTypes' /\ WorkerTypes' /\ FaultTypes' /\ WayTypes'
    BY <1>0, <1>12 DEF vars, feedVars, venueVars, workerVars, faultVars,
                       VenueTypes, WorkerTypes, FaultTypes, WayTypes
  <2> QED  BY <2>1, <2>2, TypedPartsNext
<1> QED
  BY <1>1, <1>2, <1>3, <1>4, <1>5, <1>6, <1>7, <1>8, <1>9, <1>10, <1>11, <1>12
  DEF FeedNext, Venues, Worker

-----------------------------------------------------------------------------
(* The history, step by step.                                              *)

LEMMA SnapshotSent ==
    ASSUME FeedInv, Typed', Store' = Store, NEW c \in Contract, VenueSnapshots(c)
    PROVE  Chained(H)' /\ Connected' /\ Between'
<1> DEFINE x == IF Readable(SnapshotOf(c)) THEN SnapshotOf(c) ELSE Rejected
<1>1. /\ link = "open" /\ c \in toSnap /\ toSnap' = toSnap \ {c} /\ market' = market
      /\ Numbered(x) /\ UNCHANGED <<queue, outbox, link>>
  BY DEF VenueSnapshots, workerVars
<1>2. x \in {SnapshotOf(c), Rejected}
  OBVIOUS
<1> HIDE DEF x
<1>3. SnapshotOf(c) \in Bodies
  BY VenueFrames, TypedParts DEF FeedInv
<1>4. x # Rejected => /\ x.seq = nextSeq /\ x.truth = market'
                      /\ \A d \in Contract : d \notin toSnap => Follows(market, x, d)
                      /\ \A d \in Contract : Covers(x, d) => d \notin toSnap'
  <2> SUFFICES ASSUME x = SnapshotOf(c)
               PROVE  /\ x.seq = nextSeq /\ x.truth = market'
                      /\ \A d \in Contract : d \notin toSnap => Follows(market, x, d)
                      /\ \A d \in Contract : Covers(x, d) => d \notin toSnap'
    BY <1>2
  <2>1. x = [kind |-> "snapshot", contract |-> c, seq |-> nextSeq, truth |-> market]
    BY DEF SnapshotOf
  <2> QED  BY <1>1, <2>1 DEF Follows, Covers
<1>5. x \in Bodies \cup {Rejected} /\ toSnap' \subseteq toSnap
  BY <1>1, <1>2, <1>3
<1> QED  BY <1>1, <1>4, <1>5, NumberedStep

LEMMA TradeMade ==
    ASSUME FeedInv, Typed', Store' = Store, NEW c \in Contract, NEW side \in MovingSides,
           NEW price \in Price, NEW change \in Changes, VenueTrades(c, side, price, change)
    PROVE  Chained(H)' /\ Connected' /\ Between'
<1> DEFINE after == [market EXCEPT ![c][side][price] = @ + change]
           x     == DeltaOf(c, side, price, change, after)
<1>1. /\ after[c][side][price] \in 0 .. MaxSize /\ market' = after
      /\ UNCHANGED <<queue, outbox, link, toSnap>>
      /\ IF link = "open" /\ c \notin toSnap THEN Numbered(x)
         ELSE UNCHANGED <<nextSeq, wire>>
  BY DEF VenueTrades, workerVars
<1>2. side \in Side /\ change \in Int /\ VenueTypes
  BY FaultAssumption, ChangesAssumption, TypedParts DEF FeedInv
<1>3. after = Traded(c, side, price, change)
  BY DEF Traded
<1> HIDE DEF after, x
<1>4. /\ after \in [Contract -> Ladders]
      /\ after[c] = ChangeLevel(market[c], side, price, change)
      /\ \A d \in Contract : d # c => after[d] = market[d]
  <2>1. after[c][side][price] \in 0 .. MaxSize
    BY <1>1
  <2>2. after \in [Contract -> Ladders]
    BY <1>2, <1>3, <2>1, TradeIsLadder
  <2>3. after[c] = ChangeLevel(market[c], side, price, change)
    BY <1>2, <1>3, <2>1, TradeIsLadder
  <2>4. \A d \in Contract : d # c => after[d] = market[d]
    BY <1>2, <1>3, <2>1, TradeIsLadder
  <2> QED  BY <2>2, <2>3, <2>4
<1>5. CASE link = "open" /\ c \notin toSnap
  <2>1. x \in Bodies
    BY <1>2, <1>4, VenueFrames DEF x
  <2>2. x = [kind |-> "delta", contract |-> c, side |-> side, price |-> price,
             change |-> change, seq |-> nextSeq, truth |-> after]
    BY DEF DeltaOf, x
  <2>3. Numbered(x)
    BY <1>1, <1>5
  <2>4. /\ x.kind = "delta" /\ x.contract = c /\ x.side = side /\ x.price = price
        /\ x.change = change /\ x.seq = nextSeq /\ x.truth = after
    BY <2>2
  <2>5. /\ \A d \in Contract : d \notin toSnap => Follows(market, x, d)
        /\ \A d \in Contract : Covers(x, d) => d \notin toSnap'
    BY <1>4, <2>4 DEF Follows, Covers
  <2> QED  BY <1>1, <1>5, <2>1, <2>3, <2>4, <2>5, NumberedStep
<1>6. CASE ~(link = "open" /\ c \notin toSnap)
  <2>1. UNCHANGED <<nextSeq, wire>> /\ H' = H /\ N' = N
    BY <1>1, <1>6, SameHistory
  <2>2. Connected'
    <3>1. CASE link = "open"
      <4>1. AtTip(H, N, nextSeq, market, toSnap) /\ N \in Nat /\ DOMAIN H = 1 .. N
        BY <3>1, HistoryShape DEF FeedInv, Connected
      <4>2. \A d \in Contract : d \notin toSnap => after[d] = market[d]
        BY <1>4, <1>6, <3>1
      <4>3. AtTip(H, N, nextSeq, after, toSnap)
        BY <4>1, <4>2, UnsentTrade
      <4> QED  BY <1>1, <2>1, <4>3 DEF Connected
    <3>2. CASE link # "open"
      BY <1>1, <3>2 DEF Connected
    <3> QED  BY <3>1, <3>2
  <2>3. Between' /\ Chained(H)'
    BY <1>1, <2>1 DEF FeedInv, Between
  <2> QED  BY <2>2, <2>3
<1> QED  BY <1>5, <1>6

LEMMA Connects ==
    ASSUME FeedInv, Typed', Store' = Store, Connect
    PROVE  Chained(H)' /\ Connected' /\ Between'
<1>1. /\ wire = <<>> /\ Severed(H, N) /\ Chained(H)
      /\ link' = "open" /\ wire' = <<Ack>> /\ UNCHANGED <<queue, outbox>>
  BY DEF FeedInv, Between, Connect
<1>2. wire' = Append(wire, Ack)
  BY <1>1
<1>3. Ack \in Events /\ queue \in Seq(Events) /\ outbox \in Seq(Events) /\ wire \in Seq(Events)
  BY TypedSequences, EventKinds DEF FeedInv
<1>4. H' = Laid(Store, queue, outbox, Append(wire, Ack)) /\ N' = Size(queue, outbox, Append(wire, Ack))
  BY <1>1, <1>2 DEF H, N
<1>5. Extends(H', H, N) /\ N' = N + 1 /\ H'[N + 1] = Ack
  BY <1>3, <1>4, AppendExtends DEF H, N
<1>6. N \in Nat \ {0} /\ DOMAIN H = 1 .. N /\ DOMAIN H' = 1 .. N + 1 /\ N + 1 \in Nat
  BY <1>5, HistoryShape, NextHistoryShape DEF FeedInv
<1>7. Note(H'[N + 1])
  BY <1>5 DEF Ack, Note, Frame, Boundary
<1>8. PICK m : Embeds(H', H, m) /\ TipKept(H', N + 1, H, N, m)
  BY <1>5, <1>6, <1>7, NoteIsNothing
<1>9. Chained(H') /\ Severed(H', N + 1)
  <2>1. Chained(H')
    BY <1>1, <1>6, <1>8, EmbedChained
  <2>2. Severed(H', N + 1)
    BY <1>1, <1>6, <1>8, EmbedSevered
  <2> QED  BY <2>1, <2>2
<1>10. AtTip(H', N + 1, nextSeq', market', toSnap')
  BY <1>6, <1>9, SeveredTip
<1> QED  BY <1>1, <1>5, <1>9, <1>10 DEF Connected, Between

(* The history gives up the wire, or the note that begins it, for a run of *)
(* boundaries.                                                             *)
LEMMA CutStep ==
    ASSUME FeedInv, Typed', Store' = Store, queue' = queue, outbox = <<>>,
           \A i \in 1 .. Len(outbox') : Boundary(outbox'[i]),
           wire' = <<>> \/ (wire # <<>> /\ Note(Head(wire)) /\ wire' = Tail(wire))
    PROVE  /\ Chained(H')
           /\ wire # <<>> /\ Note(Head(wire)) /\ wire' = Tail(wire)
                /\ AtTip(H, N, nextSeq, market, toSnap) => AtTip(H', N', nextSeq, market, toSnap)
           /\ wire' = <<>> /\ outbox' # <<>> => Severed(H', N')
<1>1. /\ queue \in Seq(Events) /\ wire \in Seq(Events) /\ outbox' \in Seq(Events)
      /\ wire' \in Seq(Events)
  <2>1. outbox' \in Seq(Events) /\ wire' \in Seq(Frames)
    BY DEF Typed, FeedTypeOK
  <2>2. wire' \in Seq(Events)
    BY <2>1, SubSeqs DEF Events
  <2> QED  BY <2>1, <2>2, TypedSequences DEF FeedInv
<1>2. H = Laid(Store, queue, <<>>, wire) /\ N = Size(queue, <<>>, wire)
      /\ H' = Laid(Store, queue, outbox', wire') /\ N' = Size(queue, outbox', wire')
  BY DEF H, N
<1>3. Replaces(H', N', H, N, 1 + Len(queue), Len(outbox'))
  BY <1>1, <1>2, CutReplaces
<1>4. /\ N \in Nat /\ DOMAIN H = 1 .. N /\ N' \in Nat /\ DOMAIN H' = 1 .. N'
      /\ Len(queue) \in Nat /\ Len(outbox') \in Nat /\ Len(wire) \in Nat /\ Len(wire') \in Nat
      /\ 1 + Len(queue) \in Nat \ {0} /\ Len(<<>>) = 0
  BY <1>1, HistoryShape, NextHistoryShape DEF FeedInv
<1>5. PICK m : /\ Embeds(H', H, m)
               /\ N = N' - Len(outbox') + 1 /\ Note(H[(1 + Len(queue)) + 1])
                    => TipKept(H', N', H, N, m)
  BY <1>3, <1>4, ReplacedEmbeds
<1>6. Chained(H')
  BY <1>4, <1>5, EmbedChained DEF FeedInv
<1>7. ASSUME wire # <<>>, Note(Head(wire)), wire' = Tail(wire),
             AtTip(H, N, nextSeq, market, toSnap)
      PROVE  AtTip(H', N', nextSeq, market, toSnap)
  <2>1. Len(wire') = Len(wire) - 1 /\ 1 \in 1 .. Len(wire) /\ wire[1] = Head(wire)
    BY <1>1, <1>7
  <2>2. N = N' - Len(outbox') + 1
    BY <1>2, <1>4, <2>1 DEF Size
  <2>3. Laid(Store, queue, <<>>, wire)[1 + Len(queue) + Len(<<>>) + 1] = wire[1]
    BY <1>4, <2>1, LaidAt
  <2>4. 1 + Len(queue) + Len(<<>>) + 1 = (1 + Len(queue)) + 1
    BY <1>4
  <2>5. Note(H[(1 + Len(queue)) + 1])
    BY <1>2, <1>7, <2>1, <2>3, <2>4
  <2>6. TipKept(H', N', H, N, m)
    BY <1>5, <2>2, <2>5
  <2> QED  BY <1>4, <1>5, <1>7, <2>6, EmbedTip
<1>8. ASSUME wire' = <<>>, outbox' # <<>>
      PROVE  Severed(H', N')
  <2>1. Len(outbox') \in 1 .. Len(outbox')
    BY <1>1, <1>8
  <2>2. H'[1 + Len(queue) + Len(outbox')] = outbox'[Len(outbox')]
    <3> DEFINE out  == outbox'
               rest == wire'
               at   == Len(out)
    <3>1. Len(queue) \in Nat /\ Len(out) \in Nat /\ Len(rest) \in Nat /\ at \in 1 .. Len(out)
      BY <1>4, <2>1
    <3> HIDE DEF out, rest, at
    <3>2. Laid(Store, queue, out, rest)[1 + Len(queue) + at] = out[at]
      <4>1. \A j \in 1 .. Len(out) : Laid(Store, queue, out, rest)[1 + Len(queue) + j] = out[j]
        BY <3>1, LaidAt
      <4> QED  BY <3>1, <4>1
    <3> QED  BY <1>2, <3>2 DEF out, rest, at
  <2>3. N' = 1 + Len(queue) + Len(outbox')
    BY <1>2, <1>4, <1>8 DEF Size
  <2>4. Boundary(H'[N'])
    BY <2>1, <2>2, <2>3
  <2> QED  BY <1>4, <2>4, BoundarySevers
<1> QED  BY <1>6, <1>7, <1>8

LEMMA WorkerSteps ==
    ASSUME FeedInv, Typed', Store' = Store,
           ConnectFails \/ ReadAck \/ ReadFrame \/ Send \/ LoseSocket \/ Stop
    PROVE  Chained(H)' /\ Connected' /\ Between'
<1>0. Chained(H) /\ Connected /\ Between
  BY DEF FeedInv
<1>1. Boundary(Disconnected) /\ <<Disconnected>> # <<>> /\ Len(<<Disconnected>>) = 1
      /\ <<Disconnected>>[1] = Disconnected
  BY DEF Boundary, Disconnected
<1>2. CASE ConnectFails
  <2>1. /\ link = "connecting" /\ link' = link /\ outbox = <<>> /\ wire = <<>>
        /\ UNCHANGED <<queue, wire>> /\ outbox' = IF reconnect THEN <<>> ELSE <<Disconnected>>
    BY <1>0, <1>2 DEF ConnectFails, Idle, venueVars, Between
  <2>2. CASE outbox' = <<>>
    <3>1. H' = H /\ N' = N
      BY <2>1, <2>2, SameHistory
    <3> QED  BY <1>0, <2>1, <3>1 DEF Connected, Between
  <2>3. CASE outbox' = <<Disconnected>>
    <3>1. \A i \in 1 .. Len(outbox') : Boundary(outbox'[i])
      BY <1>1, <2>3
    <3>2. Chained(H') /\ Severed(H', N')
      BY <1>1, <2>1, <2>3, <3>1, CutStep
    <3> QED  BY <2>1, <3>2 DEF Connected, Between
  <2> QED  BY <2>1, <2>2, <2>3
<1>3. CASE LoseSocket
  <2>1. /\ link' = "connecting" /\ outbox = <<>> /\ outbox' = <<Disconnected>> /\ wire' = <<>>
        /\ queue' = queue
    BY <1>3 DEF LoseSocket, Idle
  <2>2. \A i \in 1 .. Len(outbox') : Boundary(outbox'[i])
    BY <1>1, <2>1
  <2>3. Chained(H') /\ Severed(H', N')
    BY <1>1, <2>1, <2>2, CutStep
  <2> QED  BY <2>1, <2>3 DEF Connected, Between
<1>4. CASE Stop
  <2>1. link' = "stopped" /\ outbox = <<>> /\ outbox' = <<>> /\ wire' = <<>> /\ queue' = queue
    BY <1>4 DEF Stop, Idle
  <2>2. \A i \in 1 .. Len(outbox') : Boundary(outbox'[i])
    BY <2>1
  <2>3. Chained(H')
    BY <2>1, <2>2, CutStep
  <2> QED  BY <2>1, <2>3 DEF Connected, Between
<1>5. CASE Send
  <2>1. /\ outbox # <<>> /\ queue' = Append(queue, Head(outbox)) /\ outbox' = Tail(outbox)
        /\ UNCHANGED <<market, nextSeq, toSnap, wire, link>>
    BY <1>5 DEF Send, venueVars
  <2>2. H' = Laid(Store, Append(queue, Head(outbox)), Tail(outbox), wire)
        /\ N' = Size(Append(queue, Head(outbox)), Tail(outbox), wire)
    BY <2>1 DEF H, N
  <2>3. queue \in Seq(Events) /\ outbox \in Seq(Events) /\ wire \in Seq(Events)
    BY TypedSequences DEF FeedInv
  <2>4. H' = H /\ N' = N
    BY <2>1, <2>2, <2>3, SendKeeps DEF H, N
  <2> QED  BY <1>0, <2>1, <2>4 DEF Connected, Between
<1>6. ASSUME link = "open", UNCHANGED <<market, nextSeq, toSnap, link, queue>>,
             outbox = <<>>, wire # <<>>, wire' = Tail(wire), Note(Head(wire)),
             \A i \in 1 .. Len(outbox') : Boundary(outbox'[i])
      PROVE  Chained(H)' /\ Connected' /\ Between'
  <2>1. AtTip(H, N, nextSeq, market, toSnap)
    BY <1>0, <1>6 DEF Connected
  <2>2. Chained(H') /\ AtTip(H', N', nextSeq, market, toSnap)
    BY <1>6, <2>1, CutStep
  <2> QED  BY <1>6, <2>2 DEF Connected, Between
<1>7. CASE ReadAck
  <2>1. /\ link = "open" /\ UNCHANGED <<market, nextSeq, toSnap, link, queue>>
        /\ outbox = <<>> /\ wire # <<>> /\ wire' = Tail(wire) /\ Head(wire).kind = "ack"
        /\ outbox' = IF reconnect THEN [i \in DOMAIN Tickers |-> Resubscribed(Tickers[i])]
                     ELSE <<>>
    BY <1>7 DEF ReadAck, Idle
  <2>2. Note(Head(wire))
    BY <2>1 DEF Note, Frame, Boundary
  <2>3. \A i \in 1 .. Len(outbox') : Boundary(outbox'[i])
    <3>1. CASE outbox' = <<>>
      BY <3>1
    <3>2. CASE outbox' = [i \in DOMAIN Tickers |-> Resubscribed(Tickers[i])]
      <4>1. Cardinality(Contract) \in Nat /\ DOMAIN Tickers = 1 .. Cardinality(Contract)
        BY TickersListed
      <4>2. outbox' \in Seq(Sent)
        BY DEF Typed
      <4>3. DOMAIN outbox' = 1 .. Cardinality(Contract)
        BY <3>2, <4>1
      <4>4. 1 .. Len(outbox') = DOMAIN outbox'
        BY <4>2
      <4>5. \A i \in DOMAIN outbox' : outbox'[i] = Resubscribed(Tickers[i])
        BY <3>2
      <4>6. \A c : Boundary(Resubscribed(c))
        BY DEF Boundary, Resubscribed
      <4> QED  BY <4>4, <4>5, <4>6
    <3> QED  BY <2>1, <3>1, <3>2
  <2> QED  BY <1>6, <2>1, <2>2, <2>3
<1>8. CASE ReadFrame
  <2>1. /\ link = "open" /\ UNCHANGED <<market, nextSeq, toSnap, link, queue>>
        /\ outbox = <<>> /\ wire # <<>> /\ wire' = Tail(wire)
        /\ outbox' = IF Head(wire).kind = "rejected" THEN <<>> ELSE <<Head(wire)>>
    BY <1>8 DEF ReadFrame, Idle
  <2>2. CASE Head(wire).kind = "rejected"
    <3>1. Note(Head(wire))
      BY <2>2 DEF Note, Frame, Boundary
    <3>2. \A i \in 1 .. Len(outbox') : Boundary(outbox'[i])
      BY <2>1, <2>2
    <3> QED  BY <1>6, <2>1, <3>1, <3>2
  <2>3. CASE Head(wire).kind # "rejected"
    <3>1. H' = Laid(Store, queue, <<Head(wire)>>, Tail(wire))
          /\ N' = Size(queue, <<Head(wire)>>, Tail(wire))
      BY <2>1, <2>3 DEF H, N
    <3>2. H = Laid(Store, queue, <<>>, wire) /\ N = Size(queue, <<>>, wire)
      BY <2>1 DEF H, N
    <3>3. queue \in Seq(Events) /\ wire \in Seq(Events)
      BY TypedSequences DEF FeedInv
    <3>4. H' = H /\ N' = N
      BY <2>1, <3>1, <3>2, <3>3, ReadKeeps
    <3> QED  BY <1>0, <2>1, <3>4 DEF Connected, Between
  <2> QED  BY <2>2, <2>3
<1> QED  BY <1>2, <1>3, <1>4, <1>5, <1>7, <1>8

-----------------------------------------------------------------------------
(* The engine's step.                                                      *)

LEMMA ConsumeHistory ==
    ASSUME FeedInv, Typed', Consume
    PROVE  Chained(H)' /\ Connected' /\ Between'
<1> DEFINE e == Head(queue)
<1>1. /\ e \in Sent
      /\ Learns(e) \/ Ignores(e) \/ Amends(e) \/ TakesDown(e)
  BY ConsumeCases DEF FeedInv
<1>2. /\ queue # <<>> /\ queue' = Tail(queue)
      /\ UNCHANGED <<market, nextSeq, toSnap, wire, link, outbox>>
  BY DEF Consume, venueVars, workerVars
<1>3. Store.kind = "store" /\ Store'.kind = "store"
  BY DEF Store
<1>4. queue \in Seq(Events) /\ outbox \in Seq(Events) /\ wire \in Seq(Events)
  BY TypedSequences DEF FeedInv
<1>5. /\ H' = Laid(Store', Tail(queue), outbox, wire) /\ N' = Size(Tail(queue), outbox, wire)
      /\ H = Laid(Store, queue, outbox, wire) /\ N = Size(queue, outbox, wire)
  BY <1>2 DEF H, N
<1>6. Takes(Store', H', H, N) /\ H[2] = e /\ N' = N - 1
  BY <1>2, <1>3, <1>4, <1>5, TailTakes
<1> HIDE DEF e
<1>7. /\ N \in Nat /\ N - 1 \in Nat /\ DOMAIN H = 1 .. N /\ DOMAIN H' = 1 .. N - 1
      /\ H[1] = Store
  BY <1>6, HistoryShape, NextHistoryShape DEF FeedInv
<1>8. Kalshi \in Venue /\ expected \in [Venue -> Nat \cup {None}]
      /\ \A c \in Contract : VenueOf[c] = Kalshi
  BY KalshiAssumption, VenueAssumption DEF FeedInv, Typed, FeedTypeOK, StoreTypeOK
<1>9. ASSUME Frame(e), NEW d \in LiveBooks, d \in Contract
      PROVE  Known(H, d, 2)
  <2>1. expected[Kalshi] # None
    BY <1>8, <1>9 DEF FeedInv, LiveBacked
  <2>2. Covers(H[1], d)
    BY <1>7, <1>9, <2>1 DEF Covers, Store
  <2>3. Open(H, 1, 2)
    <3>1. ~Boundary(H[1]) /\ ~Boundary(H[2])
      BY <1>3, <1>6, <1>7, <1>9 DEF Boundary, Frame
    <3>2. \A i \in 1 .. 2 : i = 1 \/ i = 2
      OBVIOUS
    <3> QED  BY <3>1, <3>2 DEF Open
  <2> QED  BY <2>2, <2>3 DEF Known
<1>10. \E m : Embeds(H', H, m) /\ TipKept(H', N - 1, H, N, m)
  <2>1. CASE Learns(e) \/ Amends(e)
    <3>1. e \in Bodies /\ e.contract \in Contract /\ Frame(e)
      BY <1>1, <2>1, EventKinds DEF Learns, Amends, Sent, Marks, Bodies
    <3>2. Store'.next = e.seq + 1 /\ Store'.truth = e.truth
      BY <1>8, <2>1 DEF Learns, Amends, Store
    <3>3. \A d \in Contract : d \in Store'.live => Known(H, d, 2)
      <4> SUFFICES ASSUME NEW d \in Contract, d \in LiveBooks'
                   PROVE  Known(H, d, 2)
        BY DEF Store
      <4>1. CASE d \in LiveBooks
        BY <1>9, <3>1, <4>1
      <4>2. CASE d \notin LiveBooks
        <5>1. Learns(e) /\ d = e.contract
          BY <2>1, <4>2 DEF Learns, Amends, LiveBooks, FeedInv, Typed, FeedTypeOK, StoreTypeOK
        <5>2. Covers(H[2], d)
          BY <1>6, <5>1 DEF Covers, Learns
        <5>3. ~Boundary(H[2])
          BY <1>6, <3>1 DEF Frame, Boundary
        <5>4. Open(H, 2, 2)
          BY <5>3 DEF Open
        <5> QED  BY <5>2, <5>4 DEF Known
      <4> QED  BY <4>1, <4>2
    <3> QED  BY <1>6, <1>7, <3>1, <3>2, <3>3, Taken
  <2>2. CASE Ignores(e)
    <3>1. Store' = Store
      BY <2>2 DEF Ignores, Store, books, LiveBooks
    <3>2. ~Boundary(H[2])
      BY <1>6, <2>2 DEF Ignores, Boundary
    <3> QED  BY <1>6, <1>7, <3>1, <3>2, PassedOver
  <2>3. CASE TakesDown(e)
    <3>1. Store'.next = None
      BY <1>8, <2>3 DEF TakesDown, Store
    <3>2. ~Sequenced(Store')
      BY <1>3, <3>1 DEF Sequenced, Frame
    <3> QED  BY <1>6, <1>7, <3>2, PassedOver
  <2> QED  BY <1>1, <2>1, <2>2, <2>3
<1>11. PICK m : Embeds(H', H, m) /\ TipKept(H', N - 1, H, N, m)
  BY <1>10
<1>12. Chained(H')
  BY <1>7, <1>11, EmbedChained DEF FeedInv
<1>13. ASSUME AtTip(H, N, nextSeq, market, toSnap)
       PROVE  AtTip(H', N - 1, nextSeq, market, toSnap)
  BY <1>7, <1>11, <1>13, EmbedTip
<1>14. ASSUME Severed(H, N)
       PROVE  Severed(H', N - 1)
  BY <1>7, <1>11, <1>14, EmbedSevered
<1> QED  BY <1>2, <1>6, <1>12, <1>13, <1>14 DEF FeedInv, Connected, Between

LEMMA ConsumeMirrors ==
    ASSUME FeedInv, Consume
    PROVE  LiveBacked' /\ LiveMirrorsVenue'
<1> DEFINE e == Head(queue)
<1>1. /\ e \in Sent
      /\ Learns(e) \/ Ignores(e) \/ Amends(e) \/ TakesDown(e)
  BY ConsumeCases DEF FeedInv
<1>2. queue \in Seq(Events) /\ outbox \in Seq(Events) /\ wire \in Seq(Events) /\ queue # <<>>
  BY TypedSequences DEF FeedInv, Consume
<1>3. N \in Nat /\ DOMAIN H = 1 .. N /\ H[1] = Store /\ H[2] = e /\ N >= 2
  <2>1. N \in Nat /\ DOMAIN H = 1 .. N /\ H[1] = Store
    BY HistoryShape DEF FeedInv
  <2>2. Store.kind = "store"
    BY DEF Store
  <2>3. /\ Takes(Store, Laid(Store, Tail(queue), outbox, wire), H, N) /\ H[2] = e
    BY <1>2, <2>2, TailTakes DEF H, N
  <2> QED  BY <2>1, <2>3 DEF Takes
<1> HIDE DEF e
<1>4. /\ Kalshi \in Venue /\ expected \in [Venue -> Nat \cup {None}]
      /\ \A c \in Contract : VenueOf[c] = Kalshi
      /\ state \in [Contract -> BookState] /\ ladder \in [Contract -> Ladders]
  BY KalshiAssumption, VenueAssumption DEF FeedInv, Typed, FeedTypeOK, StoreTypeOK
<1>5. \A d \in LiveBooks : d \in Contract /\ expected[Kalshi] # None
  BY <1>4 DEF FeedInv, LiveBacked, LiveBooks
<1>6. \A d \in LiveBooks \ blind : ladder[d] = asOf[d]
  BY DEF FeedInv, LiveMirrorsVenue
(* A book the store believes is told of by the message with the expected   *)
(* number.                                                                 *)
<1>7. ASSUME Frame(e), NEW d \in LiveBooks, e.seq = expected[Kalshi]
      PROVE  Follows(asOf, e, d)
  <2>1. expected[Kalshi] # None /\ d \in Contract
    BY <1>5
  <2>2. Store.kind = "store" /\ Store.next = expected[Kalshi] /\ Store.truth = asOf
        /\ Store.live = LiveBooks
    BY DEF Store
  <2>3. Sequenced(H[1]) /\ NextNo(H[1]) = expected[Kalshi] /\ Covers(H[1], d)
    BY <1>3, <2>1, <2>2 DEF Sequenced, NextNo, Covers
  <2>4. ~Boundary(H[1]) /\ ~Boundary(H[2])
    BY <1>3, <1>7, <2>2 DEF Boundary, Frame
  <2>5. Open(H, 1, 2) /\ Open(H, 1, 1)
    <3>1. \A i \in 1 .. 2 : i = 1 \/ i = 2
      OBVIOUS
    <3> QED  BY <2>4, <3>1 DEF Open
  <2>6. Known(H, d, 1)
    BY <2>3, <2>5 DEF Known
  <2>7. 1 \in DOMAIN H /\ 2 \in DOMAIN H /\ Frame(H[2]) /\ H[2].seq = NextNo(H[1])
    BY <1>3, <1>7, <2>3
  <2>8. Follows(H[1].truth, H[2], d)
    BY <2>1, <2>3, <2>5, <2>6, <2>7 DEF FeedInv, Chained
  <2> QED  BY <1>3, <2>2, <2>8
<1>8. CASE Learns(e)
  <2>1. e.contract \in Contract /\ Frame(e) /\ e.seq \in Nat
        /\ e.truth \in [Contract -> Ladders]
    BY <1>1, <1>8, EventKinds DEF Learns, Sent, Marks, Bodies
  <2>2. e.seq + 1 # None
    BY <2>1, NoneAssumption
  <2>3. LiveBooks' = LiveBooks \cup {e.contract}
    BY <1>4, <1>8, <2>1 DEF Learns, LiveBooks
  <2>4. LiveBacked'
    BY <1>4, <1>8, <2>2 DEF Learns, LiveBacked, LiveBooks
  <2>5. ASSUME NEW d \in LiveBooks', d \notin blind'
        PROVE  ladder'[d] = asOf'[d]
    <3>1. CASE d = e.contract
      BY <1>4, <1>8, <2>1, <3>1 DEF Learns
    <3>2. CASE d # e.contract
      <4>1. d \in LiveBooks /\ d \notin blind /\ d \notin Hidden(e)
        BY <1>8, <2>3, <2>5, <3>2 DEF Learns
      <4>2. d \in Contract /\ expected[Kalshi] # None
        BY <1>5, <4>1
      <4>3. e.seq = expected[Kalshi]
        BY <1>8, <3>2, <4>1, <4>2 DEF Hidden, Learns
      <4>4. e.truth[d] = asOf[d]
        BY <1>7, <2>1, <3>2, <4>1, <4>3 DEF Follows
      <4>5. ladder[d] = asOf[d]
        BY <1>6, <4>1
      <4>6. ladder'[d] = ladder[d] /\ asOf' = e.truth
        BY <1>4, <1>8, <3>2, <4>2 DEF Learns
      <4> QED  BY <4>4, <4>5, <4>6
    <3> QED  BY <3>1, <3>2
  <2> QED  BY <2>4, <2>5 DEF LiveMirrorsVenue
<1>9. CASE Ignores(e)
  <2>1. LiveBooks' = LiveBooks /\ ladder' = ladder /\ asOf' = asOf /\ expected' = expected
        /\ blind' = blind \cap LiveBooks
    BY <1>9 DEF Ignores, books, LiveBooks
  <2>2. LiveBacked'
    BY <2>1 DEF FeedInv, LiveBacked
  <2>3. LiveMirrorsVenue'
    BY <1>6, <2>1 DEF LiveMirrorsVenue
  <2> QED  BY <2>2, <2>3
<1>10. CASE Amends(e)
  <2>1. e.contract \in Contract /\ Frame(e) /\ e.seq \in Nat /\ e.contract \in LiveBooks
    BY <1>1, <1>10, EventKinds DEF Amends, Sent, Marks, Bodies, Followed, LiveBooks
  <2>2. LiveBooks' = LiveBooks /\ blind' = blind \cap LiveBooks /\ e.seq + 1 # None
    BY <1>10, <2>1, NoneAssumption DEF Amends, LiveBooks
  <2>3. LiveBacked'
    BY <1>4, <1>10, <2>2 DEF Amends, LiveBacked, LiveBooks
  <2>4. ASSUME NEW d \in LiveBooks', d \notin blind'
        PROVE  ladder'[d] = asOf'[d]
    <3>1. d \in LiveBooks /\ d \notin blind /\ d \in Contract
      BY <1>5, <2>2, <2>4
    <3>2. ladder[d] = asOf[d] /\ Follows(asOf, e, d)
      BY <1>6, <1>7, <1>10, <2>1, <3>1 DEF Amends
    <3>3. CASE d = e.contract
      BY <1>4, <1>10, <3>1, <3>2, <3>3 DEF Amends, Follows
    <3>4. CASE d # e.contract
      BY <1>4, <1>10, <3>1, <3>2, <3>4 DEF Amends, Follows
    <3> QED  BY <3>3, <3>4
  <2> QED  BY <2>3, <2>4 DEF LiveMirrorsVenue
<1>11. CASE TakesDown(e)
  <2>1. LiveBooks' = {}
    BY <1>11 DEF TakesDown, LiveBooks
  <2> QED  BY <2>1 DEF LiveBacked, LiveMirrorsVenue
<1> QED  BY <1>1, <1>8, <1>9, <1>10, <1>11

LEMMA FeedInvStep ==
    ASSUME FeedInv, FeedNext \/ UNCHANGED vars
    PROVE  FeedInv'
<1>1. Typed'
  BY TypedStep DEF FeedInv
<1>2. ASSUME UNCHANGED storeVars, UNCHANGED ghostVars, Chained(H)', Connected', Between'
      PROVE  FeedInv'
  BY <1>1, <1>2, SameStore DEF FeedInv
<1>3. ASSUME UNCHANGED storeVars, UNCHANGED ghostVars
      PROVE  Store' = Store
  BY <1>3, SameStore
<1>4. ASSUME NEW c \in Contract, VenueSnapshots(c)
      PROVE  FeedInv'
  <2>1. UNCHANGED storeVars /\ UNCHANGED ghostVars
    BY <1>4 DEF VenueSnapshots
  <2> QED  BY <1>1, <1>2, <1>3, <1>4, <2>1, SnapshotSent
<1>5. ASSUME NEW c \in Contract, NEW side \in MovingSides, NEW price \in Price,
             NEW change \in Changes, VenueTrades(c, side, price, change)
      PROVE  FeedInv'
  <2>1. UNCHANGED storeVars /\ UNCHANGED ghostVars
    BY <1>5 DEF VenueTrades
  <2> QED  BY <1>1, <1>2, <1>3, <1>5, <2>1, TradeMade
<1>6. CASE Connect
  <2>1. UNCHANGED storeVars /\ UNCHANGED ghostVars
    BY <1>6 DEF Connect
  <2> QED  BY <1>1, <1>2, <1>3, <1>6, <2>1, Connects
<1>7. CASE ConnectFails \/ ReadAck \/ ReadFrame \/ Send \/ SocketDrops \/ ResyncObeyed \/ Stop
  <2>1. ConnectFails \/ ReadAck \/ ReadFrame \/ Send \/ LoseSocket \/ Stop
    BY <1>7 DEF SocketDrops, ResyncObeyed
  <2>2. UNCHANGED storeVars /\ UNCHANGED ghostVars
    BY <2>1 DEF ConnectFails, ReadAck, ReadFrame, Send, LoseSocket, Stop
  <2> QED  BY <1>1, <1>2, <1>3, <2>1, <2>2, WorkerSteps
<1>8. CASE AskToStop \/ UNCHANGED vars
  <2>1. /\ UNCHANGED storeVars /\ UNCHANGED ghostVars
        /\ UNCHANGED <<queue, outbox, wire, link, nextSeq, market, toSnap>>
    BY <1>8 DEF AskToStop, vars, feedVars, venueVars, workerVars
  <2>2. H' = H /\ N' = N
    BY <1>3, <2>1, SameHistory
  <2>3. Chained(H)' /\ Connected' /\ Between'
    BY <2>1, <2>2 DEF FeedInv, Connected, Between
  <2> QED  BY <1>2, <2>1, <2>3
<1>9. CASE Consume
  BY <1>1, <1>9, ConsumeHistory, ConsumeMirrors DEF FeedInv
<1> QED
  BY <1>4, <1>5, <1>6, <1>7, <1>8, <1>9 DEF FeedNext, Venues, Worker

LEMMA FeedInvHolds == FeedSpec => []FeedInv
<1>1. FeedInv /\ [FeedNext]_vars => FeedInv'
  BY FeedInvStep
<1> QED  BY <1>1, FeedInvInit, PTL DEF FeedSpec

-----------------------------------------------------------------------------
(* The feed's variables keep their types, and the channel its bound.       *)
THEOREM FeedTypeCorrect == FeedSpec => []FeedTypeOK
<1>1. FeedInv => FeedTypeOK
  BY DEF FeedInv, Typed
<1> QED  BY <1>1, FeedInvHolds, PTL

(* A Live book is the venue's book as of the last message the store        *)
(* accepted, unless a snapshot of another contract hid the loss of one of  *)
(* its deltas: for any number of contracts, connections, faults and events *)
(* in flight (kalshi.rs, run; book.rs, apply).                             *)
THEOREM LiveIsTheVenues == FeedSpec => []LiveMirrorsVenue
<1>1. FeedInv => LiveMirrorsVenue
  BY DEF FeedInv
<1> QED  BY <1>1, FeedInvHolds, PTL

-----------------------------------------------------------------------------
(* The sizes that are parsed.                                              *)

(* A parsed size is the floor of the true one, and what it drops is less   *)
(* than a contract.                                                        *)
LEMMA ParsedIsFloor ==
    ASSUME NEW n \in Int
    PROVE  /\ Parsed(n) \in Int /\ Dropped(n) \in 0 .. 99
           /\ n = 100 * Parsed(n) + Dropped(n)
<1>1. Magnitude(n) \in Nat
  BY DEF Magnitude
<1>2. /\ Whole(n) \in Nat /\ Fraction(n) \in 0 .. 99
      /\ Magnitude(n) = 100 * Whole(n) + Fraction(n)
  BY <1>1 DEF Whole, Fraction
<1>3. CASE n < 0
  BY <1>2, <1>3 DEF Parsed, Dropped, Magnitude
<1>4. CASE ~(n < 0)
  BY <1>2, <1>4 DEF Parsed, Dropped, Magnitude
<1> QED  BY <1>3, <1>4

(* What the proofs carry from step to step.                                *)
FloorInv == SizeTypeOK /\ NeverOverstates /\ ShortfallIsCounted

LEMMA FloorInit == SizeInit => FloorInv
<1> SUFFICES ASSUME SizeInit PROVE FloorInv
  OBVIOUS
<1>1. true \in Nat
  BY MaxTrueAssumption DEF SizeInit
<1>2. /\ Parsed(true) \in Int /\ Dropped(true) \in 0 .. 99
      /\ true = 100 * Parsed(true) + Dropped(true)
  BY <1>1, ParsedIsFloor
<1> QED  BY <1>1, <1>2 DEF SizeInit, FloorInv, SizeTypeOK, NeverOverstates, ShortfallIsCounted

LEMMA FloorStep == FloorInv /\ [SizeNext]_sizeVars => FloorInv'
<1> SUFFICES ASSUME FloorInv, [SizeNext]_sizeVars PROVE FloorInv'
  OBVIOUS
<1> USE DEF FloorInv, SizeTypeOK, NeverOverstates, ShortfallIsCounted
<1>1. CASE SizeSnapshot
  <2>1. /\ Parsed(true) \in Int /\ Dropped(true) \in 0 .. 99
        /\ true = 100 * Parsed(true) + Dropped(true)
    BY ParsedIsFloor
  <2> QED  BY <1>1, <2>1 DEF SizeSnapshot
<1>2. ASSUME NEW change \in SizeChanges, SizeDelta(change)
      PROVE  FloorInv'
  <2>1. change \in Int
    BY SizeChangesAssumption
  <2>2. /\ Parsed(change) \in Int /\ Dropped(change) \in 0 .. 99
        /\ change = 100 * Parsed(change) + Dropped(change)
    BY <2>1, ParsedIsFloor
  <2>3. /\ true' = true + change /\ true' \in Nat
        /\ discarded' = discarded + Dropped(change) /\ deltas' = deltas + 1
    BY <1>2, MaxTrueAssumption DEF SizeDelta
  <2>4. CASE held + Parsed(change) < 0
    <3>1. held' = 0
      BY <1>2, <2>4 DEF SizeDelta, Level!Clamped
    <3> QED  BY <2>1, <2>2, <2>3, <2>4, <3>1
  <2>5. CASE ~(held + Parsed(change) < 0)
    <3>1. held' = held + Parsed(change)
      BY <1>2, <2>5 DEF SizeDelta, Level!Clamped
    <3> QED  BY <2>1, <2>2, <2>3, <2>5, <3>1
  <2> QED  BY <2>4, <2>5
<1>3. CASE UNCHANGED sizeVars
  BY <1>3 DEF sizeVars
<1> QED  BY <1>1, <1>2, <1>3 DEF SizeNext

(* No sequence of fractional snapshots and deltas, clamped or not, makes   *)
(* the book show more than the venue holds.                                *)
THEOREM FloorNeverOverstates == SizeSpec => []NeverOverstates
<1>1. FloorInv => NeverOverstates
  BY DEF FloorInv
<1> QED  BY <1>1, FloorInit, FloorStep, PTL DEF SizeSpec

(* And what it fails to show has been counted as discarded.                *)
THEOREM FloorShortfallIsCounted == SizeSpec => []ShortfallIsCounted
<1>1. FloorInv => ShortfallIsCounted
  BY DEF FloorInv
<1> QED  BY <1>1, FloorInit, FloorStep, PTL DEF SizeSpec
=============================================================================
