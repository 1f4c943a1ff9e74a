----------------------- MODULE PolymarketFeed_proofs ------------------------
(***************************************************************************)
(* Theorems about the Polymarket feed, for any tokens, ladder, channel     *)
(* capacity, timeouts and number of faults.                                *)
(***************************************************************************)
EXTENDS PolymarketFeed, SequenceTheorems, WellFoundedInduction, TLAPS

-----------------------------------------------------------------------------
(* Every nonempty set of naturals has a least element.                     *)
LEMMA LeastNatural ==
    ASSUME NEW T, T \subseteq Nat, T # {}
    PROVE  \E x \in T : \A y \in T : x <= y
<1> DEFINE R == OpToRel(<, Nat)
<1>1. IsWellFoundedOn(R, Nat)
  BY NatLessThanWellFounded
<1>2. \A x, y \in Nat : y < x => <<y, x>> \in R
  BY DEF OpToRel
<1> HIDE DEF R
<1>3. PICK x \in T : \A y \in T : ~ (<<y, x>> \in R)
  BY <1>1, WFMin
<1>4. ASSUME NEW y \in T
      PROVE  x <= y
  <2>1. x \in Nat /\ y \in Nat
    OBVIOUS
  <2>2. ~ (y < x)
    BY <2>1, <1>2, <1>3
  <2> QED  BY <2>1, <2>2
<1> QED  BY <1>4

(* Of the rows at one price, one comes last, and it is the one that counts *)
(* (types.rs, set_level: the last write wins).                             *)
LEMMA LastRowIsARow ==
    ASSUME NEW rows \in Seq(Row), NEW p,
           \E i \in DOMAIN rows : rows[i].price = p
    PROVE  /\ LastRowAt(rows, p) \in DOMAIN rows
           /\ rows[LastRowAt(rows, p)].price = p
<1> DEFINE At   == {i \in DOMAIN rows : rows[i].price = p}
           Back == {Len(rows) - i : i \in At}
<1>1. DOMAIN rows = 1 .. Len(rows) /\ Len(rows) \in Nat
  OBVIOUS
<1>2. Back \subseteq Nat /\ Back # {}
  BY <1>1
<1>3. PICK x \in Back : \A y \in Back : x <= y
  BY <1>2, LeastNatural
<1>4. PICK i \in At : x = Len(rows) - i
  OBVIOUS
<1>5. ASSUME NEW j \in At
      PROVE  j <= i
  <2>1. Len(rows) - i <= Len(rows) - j
    BY <1>3, <1>4
  <2> QED  BY <2>1, <1>1
<1>6. \E k \in DOMAIN rows : /\ rows[k].price = p
                             /\ \A j \in DOMAIN rows : rows[j].price = p => j <= k
  BY <1>4, <1>5
<1> QED  BY <1>6 DEF LastRowAt

(* A restated level leaves a ladder a ladder (types.rs, replace_level).     *)
LEMMA ReplaceIsLadder ==
    ASSUME NEW lad \in Ladders, NEW token \in {"bid", "ask"},
           NEW price \in Price, NEW size \in Nat
    PROVE  ReplaceLevel(lad, token, price, size) \in Ladders
BY ParAssumption DEF ReplaceLevel, QuoteSide, QuotePrice, Ladders, Depth, Side, Price

(* The store is well formed when it is made.                               *)
LEMMA StoreTypeInit == StoreInit => StoreTypeOK
BY DEF StoreInit, StoreTypeOK, BookState, EmptyLadder, NoDepth, Ladders, Depth, Applied, Quiet

-----------------------------------------------------------------------------
(* What lies before a book: the store's copy, then the events on their way *)
(* to it, the channel's and the worker's, in one line; then the frames on  *)
(* the wire.                                                               *)
Boundary(e)   == e.kind \in {"disconnected", "resubscribed"}
EventOf(e, c) == e.kind \in {"snapshot", "level"} /\ e.contract = c
Passes(e, c)  == ~Boundary(e) /\ ~EventOf(e, c)

Tells(e, c)  == EventOf(e, c) \/ (e.kind = "store" /\ c \in e.live)
BookIn(e, c) == IF e.kind = "store" THEN e.truth[c] ELSE e.truth
MissIn(e, c) == IF e.kind = "store" THEN e.missing[c] ELSE e.missing

(* The book told at p is what stands when i is applied, or at the end.     *)
Reaches(P, c, p, i) == Tells(P[p], c) /\ \A j \in p + 1 .. i - 1 : Passes(P[j], c)
Last(P, c, p)       == Reaches(P, c, p, Len(P) + 1)

(* A level restated on top of prev leaves no more amiss than it says.      *)
Follows(prev, e, c) ==
    \A x \in Quote : x \notin e.missing /\ x # e.quote =>
        x \notin MissIn(prev, c) /\ BookIn(prev, c)[x] = e.truth[x]

IsLevel(e, c) == e.kind = "level" /\ e.contract = c

Stepwise(P, c) ==
    \A p, i \in DOMAIN P : p < i /\ Reaches(P, c, p, i) /\ IsLevel(P[i], c) => Follows(P[p], P[i], c)

(* The worker knows of every quote that the last word on c has wrong.      *)
Kept(P, c, miss) == \A p \in DOMAIN P : Last(P, c, p) => MissIn(P[p], c) \subseteq miss

(* Nothing is left of a connection without a boundary behind it.           *)
Severed(P, c) == \A p \in DOMAIN P : ~Last(P, c, p)

IsChange(f, c) == f.kind = "change" /\ f.contract = c
Shows(f, c)    == \/ IsChange(f, c)
                  \/ f.kind = "books" /\ Readable(f) /\ \E i \in DOMAIN f.of : f.of[i] = c
Sight(f, c)    == IF f.kind = "books" THEN f.truth[c] ELSE f.truth
Names(f, c, x) == f.kind \in {"change", "garbled"} /\ f.contract = c /\ f.quote = x

Unnamed(W, j, k, c, x) == \A i \in j .. k : ~Names(W[i], c, x)

(* Whatever was last said of c, by the worker or on the wire up to k, is   *)
(* so in book, but for the quotes named since.                             *)
Agrees(P, W, c, miss, k, book) ==
    /\ \A p \in DOMAIN P : Last(P, c, p) =>
          \A x \in Quote \ miss : Unnamed(W, 1, k, c, x) => BookIn(P[p], c)[x] = book[x]
    /\ \A j \in 1 .. k : Shows(W[j], c) =>
          \A x \in Quote : Unnamed(W, j + 1, k, c, x) => Sight(W[j], c)[x] = book[x]

Carried(P, W, c, miss) ==
    \A k \in DOMAIN W : IsChange(W[k], c) => Agrees(P, W, c, miss, k, W[k].truth)

Coherent(P, W, c, miss) == Stepwise(P, c) /\ Kept(P, c, miss) /\ Carried(P, W, c, miss)
Current(P, W, c, miss, book) == Agrees(P, W, c, miss, Len(W), book)

-----------------------------------------------------------------------------
(* The line grows.                                                         *)
Extends(Q, P) == /\ Len(P) \in Nat /\ Len(Q) \in Nat /\ Len(P) <= Len(Q)
                 /\ DOMAIN P = 1 .. Len(P) /\ DOMAIN Q = 1 .. Len(Q)
                 /\ \A i \in 1 .. Len(P) : Q[i] = P[i]

Added(Q, P) == Len(P) + 1 .. Len(Q)

LEMMA SamePast ==
    ASSUME NEW P, NEW Q, NEW c, Extends(Q, P)
    PROVE  /\ \A p \in 1 .. Len(P), i \in 1 .. Len(P) + 1 :
                  Reaches(Q, c, p, i) <=> Reaches(P, c, p, i)
<1> SUFFICES ASSUME NEW p \in 1 .. Len(P), NEW i \in 1 .. Len(P) + 1
             PROVE  Reaches(Q, c, p, i) <=> Reaches(P, c, p, i)
  OBVIOUS
<1>1. \A j \in p + 1 .. i - 1 : j \in 1 .. Len(P)
  BY DEF Extends
<1>2. Q[p] = P[p] /\ \A j \in p + 1 .. i - 1 : Q[j] = P[j]
  BY <1>1 DEF Extends
<1> QED  BY <1>2 DEF Reaches

(* What reaches the end of the longer line reached the end of the shorter, *)
(* and passed what was added.                                              *)
LEMMA LastBefore ==
    ASSUME NEW P, NEW Q, NEW c, Extends(Q, P), NEW p \in 1 .. Len(P), Last(Q, c, p)
    PROVE  Last(P, c, p) /\ \A i \in Added(Q, P) : Passes(Q[i], c)
<1>1. Len(P) \in Nat /\ Len(Q) \in Nat /\ Len(P) <= Len(Q)
  BY DEF Extends
<1>2. Tells(Q[p], c) /\ \A j \in p + 1 .. Len(Q) : Passes(Q[j], c)
  BY <1>1 DEF Last, Reaches
<1>3. \A i \in Added(Q, P) : i \in p + 1 .. Len(Q)
  BY <1>1 DEF Added
<1>4. \A j \in p + 1 .. Len(P) : j \in p + 1 .. Len(Q)
  BY <1>1
<1>5. Reaches(Q, c, p, Len(P) + 1)
  BY <1>1, <1>2, <1>4 DEF Reaches
<1>6. Len(P) + 1 \in 1 .. Len(P) + 1
  BY <1>1
<1>7. Reaches(P, c, p, Len(P) + 1)
  BY <1>5, <1>6, SamePast
<1> QED  BY <1>2, <1>3, <1>7 DEF Last

LEMMA StepwiseExtends ==
    ASSUME NEW P, NEW Q, NEW c, Extends(Q, P), Stepwise(P, c),
           \A i \in Added(Q, P) : IsLevel(Q[i], c) =>
               \A p \in 1 .. i - 1 : Reaches(Q, c, p, i) => Follows(Q[p], Q[i], c)
    PROVE  Stepwise(Q, c)
<1>1. Len(P) \in Nat /\ Len(Q) \in Nat /\ DOMAIN Q = 1 .. Len(Q) /\ DOMAIN P = 1 .. Len(P)
  BY DEF Extends
<1> SUFFICES ASSUME NEW p \in 1 .. Len(Q), NEW i \in 1 .. Len(Q), p < i,
                    Reaches(Q, c, p, i), IsLevel(Q[i], c)
             PROVE  Follows(Q[p], Q[i], c)
  BY <1>1 DEF Stepwise
<1>2. CASE i <= Len(P)
  <2>1. p \in 1 .. Len(P) /\ i \in 1 .. Len(P) /\ i \in 1 .. Len(P) + 1
    BY <1>1, <1>2
  <2>2. Reaches(P, c, p, i) /\ Q[p] = P[p] /\ Q[i] = P[i]
    BY <2>1, SamePast DEF Extends
  <2> QED  BY <1>1, <2>1, <2>2 DEF Stepwise
<1>3. CASE i > Len(P)
  <2>1. i \in Added(Q, P) /\ p \in 1 .. i - 1
    BY <1>1, <1>3 DEF Added
  <2> QED  BY <2>1
<1> QED  BY <1>1, <1>2, <1>3

(* Events of other contracts change nothing for c.                         *)
LEMMA PassedBy ==
    ASSUME NEW P, NEW Q, NEW c, Extends(Q, P), \A i \in Added(Q, P) : Passes(Q[i], c) /\ ~Tells(Q[i], c),
           Stepwise(P, c)
    PROVE  /\ Stepwise(Q, c)
           /\ \A p \in DOMAIN Q : Last(Q, c, p) => p \in DOMAIN P /\ Q[p] = P[p] /\ Last(P, c, p)
<1>1. Len(P) \in Nat /\ Len(Q) \in Nat /\ DOMAIN Q = 1 .. Len(Q) /\ DOMAIN P = 1 .. Len(P)
  BY DEF Extends
<1>2. \A i \in Added(Q, P) : ~IsLevel(Q[i], c)
  BY DEF Passes, EventOf, IsLevel
<1>3. Stepwise(Q, c)
  BY <1>2, StepwiseExtends
<1>4. ASSUME NEW p \in DOMAIN Q, Last(Q, c, p)
      PROVE  p \in DOMAIN P /\ Q[p] = P[p] /\ Last(P, c, p)
  <2>1. p \notin Added(Q, P)
    BY <1>4 DEF Last, Reaches
  <2>2. p \in 1 .. Len(P)
    BY <1>1, <2>1 DEF Added
  <2> QED  BY <1>1, <1>4, <2>2, LastBefore DEF Extends
<1> QED  BY <1>3, <1>4

(* A boundary at the end severs.                                           *)
LEMMA BoundarySevers ==
    ASSUME NEW P, NEW Q, NEW c, Extends(Q, P), Stepwise(P, c), Severed(P, c) \/ Added(Q, P) # {},
           \A i \in Added(Q, P) : Boundary(Q[i])
    PROVE  Stepwise(Q, c) /\ Severed(Q, c)
<1>1. Len(P) \in Nat /\ Len(Q) \in Nat /\ DOMAIN Q = 1 .. Len(Q) /\ DOMAIN P = 1 .. Len(P)
  BY DEF Extends
<1>2. \A i \in Added(Q, P) : ~IsLevel(Q[i], c) /\ ~Tells(Q[i], c) /\ ~Passes(Q[i], c)
  BY DEF Passes, EventOf, IsLevel, Tells, Boundary
<1>3. Stepwise(Q, c)
  BY <1>2, StepwiseExtends
<1>4. ASSUME NEW p \in DOMAIN Q, Last(Q, c, p)
      PROVE  FALSE
  <2>1. p \notin Added(Q, P)
    BY <1>2, <1>4 DEF Last, Reaches
  <2>2. p \in 1 .. Len(P)
    BY <1>1, <2>1 DEF Added
  <2>3. Last(P, c, p) /\ Added(Q, P) = {}
    BY <1>2, <1>4, <2>2, LastBefore
  <2> QED  BY <1>1, <2>2, <2>3 DEF Severed
<1> QED  BY <1>3, <1>4 DEF Severed

(* An event of c at the end is the last word on it.                        *)
LEMMA LastIsNew ==
    ASSUME NEW P, NEW Q, NEW c, Extends(Q, P), NEW i \in Added(Q, P), EventOf(Q[i], c),
           NEW p \in DOMAIN Q, Last(Q, c, p)
    PROVE  p \in Added(Q, P)
<1>1. Len(P) \in Nat /\ Len(Q) \in Nat /\ DOMAIN Q = 1 .. Len(Q)
  BY DEF Extends
<1>2. CASE p \in 1 .. Len(P)
  BY <1>2, LastBefore DEF Passes
<1>3. CASE p \notin 1 .. Len(P)
  BY <1>1, <1>3 DEF Added
<1> QED  BY <1>2, <1>3

-----------------------------------------------------------------------------
(* The wire.                                                               *)

(* A quote no frame of a stretch names is named in no part of it.          *)
LEMMA UnnamedPart ==
    ASSUME NEW W, NEW c, NEW x, NEW j \in Int, NEW k \in Int, NEW l \in Int,
           l <= k, Unnamed(W, j, k, c, x)
    PROVE  Unnamed(W, j, l, c, x)
BY DEF Unnamed

(* A frame is put on the wire.  What was so up to some earlier frame stays *)
(* so: that is all of Agrees but the last frame itself.                    *)
Longer(V, W, f) == /\ Len(W) \in Nat /\ Len(V) = Len(W) + 1 /\ V[Len(W) + 1] = f
                   /\ DOMAIN W = 1 .. Len(W) /\ DOMAIN V = 1 .. Len(V)
                   /\ \A i \in 1 .. Len(W) : V[i] = W[i]

LEMMA SameWire ==
    ASSUME NEW V, NEW W, NEW f, Longer(V, W, f), NEW P, NEW c, NEW miss, NEW book,
           NEW k \in 0 .. Len(W)
    PROVE  /\ \A j \in Nat \ {0} : \A x : Unnamed(V, j, k, c, x) <=> Unnamed(W, j, k, c, x)
           /\ Agrees(P, V, c, miss, k, book) <=> Agrees(P, W, c, miss, k, book)
<1>1. ASSUME NEW j \in Nat \ {0}, NEW x
      PROVE  Unnamed(V, j, k, c, x) <=> Unnamed(W, j, k, c, x)
  <2>1. \A i \in j .. k : V[i] = W[i]
    BY DEF Longer
  <2> QED  BY <2>1 DEF Unnamed
<1>2. \A j \in 1 .. k : V[j] = W[j] /\ j + 1 \in Nat \ {0}
  BY DEF Longer
<1>3. 1 \in Nat \ {0}
  OBVIOUS
<1>4. Agrees(P, V, c, miss, k, book) <=> Agrees(P, W, c, miss, k, book)
  BY <1>1, <1>2, <1>3 DEF Agrees
<1> QED  BY <1>1, <1>4

(* What was so up to the last frame is so up to a new one, of the quotes   *)
(* the new one does not name.                                              *)
LEMMA AgreesOn ==
    ASSUME NEW V, NEW W, NEW f, Longer(V, W, f), NEW P, NEW c, NEW miss, NEW book, NEW after,
           Agrees(P, W, c, miss, Len(W), book),
           Shows(f, c) => Sight(f, c) = after,
           \A x \in Quote : ~Names(f, c, x) => after[x] = book[x]
    PROVE  Agrees(P, V, c, miss, Len(V), after)
<1> DEFINE n == Len(W)
<1>1. /\ n \in Nat /\ Len(V) = n + 1 /\ V[n + 1] = f /\ n \in 0 .. Len(W)
      /\ \A i \in 1 .. n : V[i] = W[i]
  BY DEF Longer
<1>2. ASSUME NEW j \in 1 .. n + 1, NEW x, Unnamed(V, j, n + 1, c, x)
      PROVE  Unnamed(W, j, n, c, x) /\ ~Names(f, c, x)
  <2>1. j \in Nat \ {0} /\ n + 1 \in j .. n + 1 /\ j \in Int /\ n \in Int
    BY <1>1
  <2>2. ~Names(V[n + 1], c, x)
    BY <1>2, <2>1 DEF Unnamed
  <2>3. Unnamed(V, j, n, c, x)
    BY <1>1, <1>2, <2>1, UnnamedPart
  <2> HIDE DEF n
  <2> QED  BY <1>1, <2>1, <2>2, <2>3, SameWire
<1>3. ASSUME NEW p \in DOMAIN P, Last(P, c, p), NEW x \in Quote \ miss, Unnamed(V, 1, n + 1, c, x)
      PROVE  BookIn(P[p], c)[x] = after[x]
  <2>1. 1 \in 1 .. n + 1
    BY <1>1
  <2>2. Unnamed(W, 1, n, c, x) /\ ~Names(f, c, x)
    BY <1>2, <1>3, <2>1
  <2> QED  BY <1>3, <2>2 DEF Agrees
<1>4. ASSUME NEW j \in 1 .. n + 1, Shows(V[j], c), NEW x \in Quote, Unnamed(V, j + 1, n + 1, c, x)
      PROVE  Sight(V[j], c)[x] = after[x]
  <2>1. CASE j = n + 1
    BY <1>1, <1>4, <2>1
  <2>2. CASE j # n + 1
    <3>1. j \in 1 .. n /\ j + 1 \in 1 .. n + 1
      BY <1>1, <2>2
    <3>2. Unnamed(W, j + 1, n, c, x) /\ ~Names(f, c, x)
      BY <1>2, <1>4, <3>1
    <3>3. V[j] = W[j]
      BY <1>1, <3>1
    <3> QED  BY <1>4, <3>1, <3>2, <3>3 DEF Agrees
  <2> QED  BY <2>1, <2>2
<1> HIDE DEF n
<1> QED  BY <1>1, <1>3, <1>4 DEF Agrees

(* The venue sends a frame that tells its book of c as it now is.          *)
LEMMA FrameSent ==
    ASSUME NEW V, NEW W, NEW f, Longer(V, W, f), NEW P, NEW c, NEW miss, NEW book, NEW after,
           Coherent(P, W, c, miss), Current(P, W, c, miss, book),
           Shows(f, c) => Sight(f, c) = after, IsChange(f, c) => f.truth = after,
           \A x \in Quote : ~Names(f, c, x) => after[x] = book[x]
    PROVE  Coherent(P, V, c, miss) /\ Current(P, V, c, miss, after)
<1>1. Len(W) \in Nat /\ Len(V) = Len(W) + 1 /\ V[Len(W) + 1] = f
      /\ DOMAIN W = 1 .. Len(W) /\ DOMAIN V = 1 .. Len(V)
  BY DEF Longer
<1>2. Agrees(P, V, c, miss, Len(V), after)
  BY AgreesOn DEF Current
<1>3. ASSUME NEW k \in 1 .. Len(W) + 1, IsChange(V[k], c)
      PROVE  Agrees(P, V, c, miss, k, V[k].truth)
  <2>1. CASE k = Len(W) + 1
    BY <1>1, <1>2, <1>3, <2>1
  <2>2. CASE k # Len(W) + 1
    <3>1. k \in 1 .. Len(W) /\ k \in 0 .. Len(W)
      BY <1>1, <2>2
    <3>2. V[k] = W[k]
      BY <3>1 DEF Longer
    <3>3. Agrees(P, W, c, miss, k, W[k].truth)
      BY <1>1, <1>3, <3>1, <3>2 DEF Coherent, Carried
    <3> QED  BY <3>1, <3>2, <3>3, SameWire
  <2> QED  BY <2>1, <2>2
<1> QED  BY <1>1, <1>2, <1>3 DEF Coherent, Carried, Current

(* The first frame is taken off the wire.                                  *)
Shorter(V, W) == /\ Len(W) \in Nat \ {0} /\ Len(V) = Len(W) - 1
                 /\ DOMAIN W = 1 .. Len(W) /\ DOMAIN V = 1 .. Len(V)
                 /\ \A i \in 1 .. Len(V) : V[i] = W[i + 1]

LEMMA UnnamedAfter ==
    ASSUME NEW V, NEW W, Shorter(V, W), NEW c, NEW x, NEW j \in Nat \ {0}, NEW k \in 0 .. Len(V),
           Unnamed(V, j, k, c, x)
    PROVE  Unnamed(W, j + 1, k + 1, c, x)
<1>1. Len(V) \in Nat
  BY DEF Shorter
<1> SUFFICES ASSUME NEW i \in j + 1 .. k + 1
             PROVE  ~Names(W[i], c, x)
  BY DEF Unnamed
<1>2. i - 1 \in j .. k /\ i - 1 \in 1 .. Len(V) /\ (i - 1) + 1 = i
  BY <1>1
<1>3. V[i - 1] = W[i]
  BY <1>2 DEF Shorter
<1> QED  BY <1>2, <1>3 DEF Unnamed

(* The worker's line takes over from it, if its last word on c is as good  *)
(* as what the wire began with: the frame read, or what was last before    *)
(* and the frame leaves alone.                                             *)
TakesOver(Q, P, f, c, less, miss) ==
    \A p \in DOMAIN Q : Last(Q, c, p) =>
        \/ Shows(f, c) /\ BookIn(Q[p], c) = Sight(f, c)
        \/ /\ p \in DOMAIN P /\ Q[p] = P[p] /\ Last(P, c, p)
           /\ \A x \in Quote \ less : x \notin miss /\ ~Names(f, c, x)

LEMMA AgreesAfter ==
    ASSUME NEW V, NEW W, Shorter(V, W), NEW P, NEW Q, NEW c, NEW miss, NEW less, NEW book,
           TakesOver(Q, P, W[1], c, less, miss), NEW k \in 0 .. Len(V),
           Agrees(P, W, c, miss, k + 1, book)
    PROVE  Agrees(Q, V, c, less, k, book)
<1>1. Len(V) \in Nat /\ 1 \in Nat \ {0} /\ 1 \in 1 .. k + 1
  BY DEF Shorter
<1>2. ASSUME NEW p \in DOMAIN Q, Last(Q, c, p), NEW x \in Quote \ less, Unnamed(V, 1, k, c, x)
      PROVE  BookIn(Q[p], c)[x] = book[x]
  <2>1. Unnamed(W, 1 + 1, k + 1, c, x)
    BY <1>1, <1>2, UnnamedAfter
  <2>2. CASE Shows(W[1], c) /\ BookIn(Q[p], c) = Sight(W[1], c)
    BY <1>1, <2>1, <2>2 DEF Agrees
  <2>3. CASE /\ p \in DOMAIN P /\ Q[p] = P[p] /\ Last(P, c, p)
             /\ \A y \in Quote \ less : y \notin miss /\ ~Names(W[1], c, y)
    <3>1. Unnamed(W, 1, k + 1, c, x)
      <4>1. \A i \in 1 .. k + 1 : i = 1 \/ i \in 1 + 1 .. k + 1
        BY <1>1
      <4> QED  BY <1>2, <2>1, <2>3, <4>1 DEF Unnamed
    <3> QED  BY <1>2, <2>3, <3>1 DEF Agrees
  <2> QED  BY <1>2, <2>2, <2>3 DEF TakesOver
<1>3. ASSUME NEW j \in 1 .. k, Shows(V[j], c), NEW x \in Quote, Unnamed(V, j + 1, k, c, x)
      PROVE  Sight(V[j], c)[x] = book[x]
  <2>1. j + 1 \in Nat \ {0} /\ j \in 1 .. Len(V) /\ j + 1 \in 1 .. k + 1
    BY <1>1
  <2>2. V[j] = W[j + 1]
    BY <2>1 DEF Shorter
  <2>3. Unnamed(W, (j + 1) + 1, k + 1, c, x)
    BY <1>3, <2>1, UnnamedAfter
  <2> QED  BY <1>3, <2>1, <2>2, <2>3 DEF Agrees
<1> QED  BY <1>2, <1>3 DEF Agrees

LEMMA FrameTaken ==
    ASSUME NEW V, NEW W, Shorter(V, W), NEW P, NEW Q, NEW c, NEW miss, NEW less,
           TakesOver(Q, P, W[1], c, less, miss), Carried(P, W, c, miss)
    PROVE  /\ Carried(Q, V, c, less)
           /\ \A book : Current(P, W, c, miss, book) => Current(Q, V, c, less, book)
<1>1. Len(V) \in Nat /\ Len(W) \in Nat /\ Len(V) + 1 = Len(W)
      /\ DOMAIN W = 1 .. Len(W) /\ DOMAIN V = 1 .. Len(V)
  BY DEF Shorter
<1>2. ASSUME NEW k \in 1 .. Len(V), IsChange(V[k], c)
      PROVE  Agrees(Q, V, c, less, k, V[k].truth)
  <2>1. k + 1 \in 1 .. Len(W) /\ k \in 0 .. Len(V) /\ V[k] = W[k + 1]
    BY <1>1 DEF Shorter
  <2>2. Agrees(P, W, c, miss, k + 1, V[k].truth)
    BY <1>1, <1>2, <2>1 DEF Carried
  <2> QED  BY <2>1, <2>2, AgreesAfter
<1>3. ASSUME NEW book, Current(P, W, c, miss, book)
      PROVE  Current(Q, V, c, less, book)
  <2>1. Len(V) \in 0 .. Len(V) /\ Agrees(P, W, c, miss, Len(V) + 1, book)
    BY <1>1, <1>3 DEF Current
  <2>2. Agrees(Q, V, c, less, Len(V), book)
    BY <2>1, AgreesAfter
  <2> QED  BY <2>2 DEF Current
<1> QED  BY <1>1, <1>2, <1>3 DEF Carried

(* With nothing on the wire there is nothing to carry; and with nothing on *)
(* the line, nothing to contradict.                                        *)
LEMMA EmptyWire ==
    ASSUME NEW W, W = <<>>, NEW P, NEW c, NEW miss
    PROVE  /\ Carried(P, W, c, miss)
           /\ Severed(P, c) => \A book : Current(P, W, c, miss, book)
<1>1. DOMAIN W = {} /\ Len(W) = 0
  OBVIOUS
<1>2. \A j \in 1 .. 0 : FALSE
  OBVIOUS
<1> QED  BY <1>1, <1>2 DEF Carried, Severed, Current, Agrees

LEMMA SeveredIsKept ==
    ASSUME NEW P, NEW c, Severed(P, c), NEW miss
    PROVE  Kept(P, c, miss)
BY DEF Severed, Kept

-----------------------------------------------------------------------------
(* The store takes the first event of the line.                            *)
Shifts(Q, P) == /\ Len(P) \in Nat /\ Len(P) >= 2 /\ Len(Q) = Len(P) - 1
                /\ DOMAIN P = 1 .. Len(P) /\ DOMAIN Q = 1 .. Len(Q)
                /\ \A i \in 2 .. Len(Q) : Q[i] = P[i + 1]
                /\ Q[1].kind = "store"

(* Where e stands for what d said of c.                                    *)
SameWord(e, d, c) == Tells(d, c) /\ BookIn(e, c) = BookIn(d, c) /\ MissIn(e, c) = MissIn(d, c)

(* What it holds of c then is what the event said, or what it held before  *)
(* an event that was not about c.                                          *)
Absorbs(Q, P, c) ==
    Tells(Q[1], c) => \/ SameWord(Q[1], P[2], c)
                      \/ SameWord(Q[1], P[1], c) /\ Passes(P[2], c)

LEMMA ReachedBefore ==
    ASSUME NEW P, NEW Q, NEW c, Shifts(Q, P), Absorbs(Q, P, c),
           NEW p \in 1 .. Len(Q), NEW i \in p + 1 .. Len(Q) + 1, Reaches(Q, c, p, i)
    PROVE  \E r \in 1 .. i : Reaches(P, c, r, i + 1) /\ SameWord(Q[p], P[r], c)
<1>1. Len(P) \in Nat /\ Len(Q) \in Nat /\ Len(Q) = Len(P) - 1 /\ p \in Nat /\ i \in Nat
  BY DEF Shifts
<1>2. \A j \in p + 1 .. i - 1 : j \in 2 .. Len(Q) /\ Q[j] = P[j + 1] /\ Passes(Q[j], c)
  <2>1. \A j \in p + 1 .. i - 1 : j \in 2 .. Len(Q)
    BY <1>1
  <2> QED  BY <2>1 DEF Shifts, Reaches
<1>3. \A j \in p + 2 .. i : Passes(P[j], c)
  <2> TAKE j \in p + 2 .. i
  <2>1. j - 1 \in p + 1 .. i - 1 /\ (j - 1) + 1 = j
    BY <1>1
  <2> QED  BY <1>2, <2>1
<1>4. CASE p # 1
  <2>1. p \in 2 .. Len(Q) /\ p + 1 \in 1 .. i
    BY <1>1, <1>4
  <2>2. Q[p] = P[p + 1] /\ Tells(Q[p], c)
    BY <2>1 DEF Shifts, Reaches
  <2>3. Reaches(P, c, p + 1, i + 1)
    <3>1. \A j \in (p + 1) + 1 .. (i + 1) - 1 : j \in p + 2 .. i
      BY <1>1
    <3> QED  BY <1>3, <2>2, <3>1 DEF Reaches
  <2> QED  BY <2>1, <2>2, <2>3 DEF SameWord
<1>5. CASE p = 1 /\ SameWord(Q[1], P[2], c)
  <2>1. 2 \in 1 .. i
    BY <1>1, <1>5
  <2>2. Reaches(P, c, 2, i + 1)
    <3>1. \A j \in 2 + 1 .. (i + 1) - 1 : j \in p + 2 .. i
      BY <1>1, <1>5
    <3> QED  BY <1>3, <1>5, <3>1 DEF Reaches, SameWord
  <2> QED  BY <1>5, <2>1, <2>2
<1>6. CASE p = 1 /\ SameWord(Q[1], P[1], c) /\ Passes(P[2], c)
  <2>1. 1 \in 1 .. i
    BY <1>1, <1>6
  <2>2. Reaches(P, c, 1, i + 1)
    <3>1. \A j \in 1 + 1 .. (i + 1) - 1 : j = 2 \/ j \in p + 2 .. i
      BY <1>1, <1>6
    <3> QED  BY <1>3, <1>6, <3>1 DEF Reaches, SameWord
  <2> QED  BY <1>6, <2>1, <2>2
<1>7. Tells(Q[p], c)
  BY DEF Reaches
<1> QED  BY <1>4, <1>5, <1>6, <1>7 DEF Absorbs

LEMMA EventTaken ==
    ASSUME NEW P, NEW Q, NEW c, Shifts(Q, P), Absorbs(Q, P, c)
    PROVE  /\ Stepwise(P, c) => Stepwise(Q, c)
           /\ Severed(P, c) => Severed(Q, c)
           /\ \A miss : Kept(P, c, miss) => Kept(Q, c, miss)
           /\ \A W, miss, k, book : Agrees(P, W, c, miss, k, book) => Agrees(Q, W, c, miss, k, book)
<1>1. Len(P) \in Nat /\ Len(Q) \in Nat /\ Len(P) = Len(Q) + 1
      /\ DOMAIN P = 1 .. Len(P) /\ DOMAIN Q = 1 .. Len(Q)
  BY DEF Shifts
<1>2. ASSUME Stepwise(P, c)
      PROVE  Stepwise(Q, c)
  <2> SUFFICES ASSUME NEW p \in 1 .. Len(Q), NEW i \in 1 .. Len(Q), p < i,
                      Reaches(Q, c, p, i), IsLevel(Q[i], c)
               PROVE  Follows(Q[p], Q[i], c)
    BY <1>1 DEF Stepwise
  <2>1. i \in p + 1 .. Len(Q) + 1 /\ i \in 2 .. Len(Q) /\ i + 1 \in 1 .. Len(P)
    BY <1>1
  <2>2. PICK r \in 1 .. i : Reaches(P, c, r, i + 1) /\ SameWord(Q[p], P[r], c)
    BY <2>1, ReachedBefore
  <2>3. r \in 1 .. Len(P) /\ r < i + 1
    BY <1>1
  <2>4. Q[i] = P[i + 1]
    BY <2>1 DEF Shifts
  <2>5. Follows(P[r], P[i + 1], c)
    BY <1>1, <1>2, <2>1, <2>2, <2>3, <2>4 DEF Stepwise
  <2> QED  BY <2>2, <2>4, <2>5 DEF Follows, SameWord
<1>3. ASSUME NEW p \in 1 .. Len(Q), Last(Q, c, p)
      PROVE  \E r \in 1 .. Len(P) : Last(P, c, r) /\ SameWord(Q[p], P[r], c)
  <2>1. Len(Q) + 1 \in p + 1 .. Len(Q) + 1
    BY <1>1
  <2>2. PICK r \in 1 .. Len(Q) + 1 : Reaches(P, c, r, (Len(Q) + 1) + 1) /\ SameWord(Q[p], P[r], c)
    BY <1>3, <2>1, ReachedBefore DEF Last
  <2> QED  BY <1>1, <2>2 DEF Last
<1>4. Severed(P, c) => Severed(Q, c)
  BY <1>1, <1>3 DEF Severed
<1>5. ASSUME NEW miss, Kept(P, c, miss)
      PROVE  Kept(Q, c, miss)
  <2> SUFFICES ASSUME NEW p \in 1 .. Len(Q), Last(Q, c, p)
               PROVE  MissIn(Q[p], c) \subseteq miss
    BY <1>1 DEF Kept
  <2>1. PICK r \in 1 .. Len(P) : Last(P, c, r) /\ SameWord(Q[p], P[r], c)
    BY <1>3
  <2> QED  BY <1>1, <1>5, <2>1 DEF Kept, SameWord
<1>6. ASSUME NEW W, NEW miss, NEW k, NEW book, Agrees(P, W, c, miss, k, book)
      PROVE  Agrees(Q, W, c, miss, k, book)
  <2>1. ASSUME NEW p \in 1 .. Len(Q), Last(Q, c, p), NEW x \in Quote \ miss, Unnamed(W, 1, k, c, x)
        PROVE  BookIn(Q[p], c)[x] = book[x]
    <3>1. PICK r \in 1 .. Len(P) : Last(P, c, r) /\ SameWord(Q[p], P[r], c)
      BY <1>3, <2>1
    <3>2. BookIn(P[r], c)[x] = book[x]
      BY <1>1, <1>6, <2>1, <3>1 DEF Agrees
    <3> QED  BY <3>1, <3>2 DEF SameWord
  <2> QED  BY <1>1, <1>6, <2>1 DEF Agrees
<1> QED  BY <1>2, <1>4, <1>5, <1>6

LEMMA EventTakenCoherent ==
    ASSUME NEW P, NEW Q, NEW W, NEW c, NEW miss, Shifts(Q, P), Absorbs(Q, P, c)
    PROVE  /\ Coherent(P, W, c, miss) => Coherent(Q, W, c, miss)
           /\ \A book : Current(P, W, c, miss, book) => Current(Q, W, c, miss, book)
<1>1. /\ Stepwise(P, c) => Stepwise(Q, c)
      /\ Kept(P, c, miss) => Kept(Q, c, miss)
      /\ \A k, book : Agrees(P, W, c, miss, k, book) => Agrees(Q, W, c, miss, k, book)
  BY EventTaken
<1> QED  BY <1>1 DEF Coherent, Carried, Current

-----------------------------------------------------------------------------
(* The line laid out: what the store holds, the channel, the worker's.     *)
Line(s, q, o) == <<s>> \o q \o o

Shaped(L, s, q, o) ==
    /\ Len(q) \in Nat /\ Len(o) \in Nat
    /\ Len(L) \in Nat /\ Len(L) = 1 + Len(q) + Len(o) /\ DOMAIN L = 1 .. 1 + Len(q) + Len(o)
    /\ L[1] = s
    /\ \A j \in 1 .. Len(q) : L[1 + j] = q[j]
    /\ \A j \in 1 .. Len(o) : L[1 + Len(q) + j] = o[j]

LEMMA LineShape ==
    ASSUME NEW S, NEW s, NEW q \in Seq(S), NEW o \in Seq(S)
    PROVE  Shaped(Line(s, q, o), s, q, o) /\ Line(s, q, o) \in Seq(S \cup {s})
<1> DEFINE T == S \cup {s}
           f == <<s>> \o q
<1>1. q \in Seq(T) /\ o \in Seq(T) /\ <<s>> \in Seq(T) /\ Len(<<s>>) = 1
      /\ Len(q) \in Nat /\ Len(o) \in Nat
  OBVIOUS
<1> HIDE DEF T
<1>2. f \in Seq(T) /\ Len(f) = 1 + Len(q) /\ f[1] = s
      /\ \A j \in 1 .. Len(q) : f[1 + j] = q[j]
  BY <1>1
<1> HIDE DEF f
<1>3. /\ f \o o \in Seq(T) /\ Len(f \o o) = Len(f) + Len(o)
      /\ \A j \in 1 .. Len(f) : (f \o o)[j] = f[j]
      /\ \A j \in 1 .. Len(o) : (f \o o)[Len(f) + j] = o[j]
  <2>1. f \in Seq(T) /\ o \in Seq(T)
    BY <1>1, <1>2
  <2>2. f \o o \in Seq(T) /\ Len(f \o o) = Len(f) + Len(o)
    BY <2>1
  <2>3. \A j \in 1 .. Len(f) : (f \o o)[j] = f[j]
    BY <2>1
  <2>4. \A j \in 1 .. Len(o) : (f \o o)[Len(f) + j] = o[j]
    BY <2>1
  <2> QED  BY <2>2, <2>3, <2>4
<1>4. Line(s, q, o) = f \o o
  BY DEF Line, f
<1> DEFINE l == f \o o
<1>5. /\ l \in Seq(T) /\ Len(l) = 1 + Len(q) + Len(o) /\ l[1] = s
      /\ \A j \in 1 .. Len(q) : l[1 + j] = q[j]
      /\ \A j \in 1 .. Len(o) : l[1 + Len(q) + j] = o[j]
  BY <1>1, <1>2, <1>3
<1> HIDE DEF l
<1>6. DOMAIN l = 1 .. Len(l) /\ Len(l) \in Nat
  BY <1>5
<1> QED  BY <1>1, <1>4, <1>5, <1>6 DEF l, T, Shaped

(* The places of the line.                                                 *)
LEMMA LinePlaces ==
    ASSUME NEW m \in Nat, NEW n \in Nat, NEW i \in 1 .. 1 + m + n
    PROVE  \/ i = 1
           \/ \E j \in 1 .. m : i = 1 + j
           \/ \E j \in 1 .. n : i = 1 + m + j
<1>1. CASE i > 1 /\ i <= 1 + m
  <2>1. i - 1 \in 1 .. m /\ i = 1 + (i - 1)
    BY <1>1
  <2> QED  BY <2>1
<1>2. CASE i > 1 + m
  <2>1. i - 1 - m \in 1 .. n /\ i = 1 + m + (i - 1 - m)
    BY <1>2
  <2> QED  BY <2>1
<1> QED  BY <1>1, <1>2

LEMMA SendKeeps ==
    ASSUME NEW S, NEW s, NEW q \in Seq(S), NEW o \in Seq(S), o # <<>>
    PROVE  Line(s, Append(q, Head(o)), Tail(o)) = Line(s, q, o)
<1> DEFINE T == S \cup {s}
           r == Append(q, Head(o))
           t == Tail(o)
           K == Line(s, r, t)
           L == Line(s, q, o)
<1>1. /\ r \in Seq(S) /\ t \in Seq(S) /\ Len(r) = Len(q) + 1 /\ Len(t) = Len(o) - 1
      /\ Len(q) \in Nat /\ Len(o) \in Nat /\ Len(t) \in Nat /\ Len(r) \in Nat
      /\ \A j \in 1 .. Len(q) : r[j] = q[j]
      /\ r[Len(q) + 1] = o[1]
      /\ \A j \in 1 .. Len(t) : t[j] = o[j + 1]
  OBVIOUS
<1> HIDE DEF r, t
<1>2. Shaped(K, s, r, t) /\ K \in Seq(T)
  BY <1>1, LineShape
<1>3. Shaped(L, s, q, o) /\ L \in Seq(T)
  BY LineShape
<1> HIDE DEF K, L, T
<1> USE DEF Shaped
<1>4. Len(K) = Len(L)
  BY <1>1, <1>2, <1>3
<1>5. ASSUME NEW i \in 1 .. 1 + Len(r) + Len(t)
      PROVE  K[i] = L[i]
  <2>1. ASSUME NEW j \in 1 .. Len(r), i = 1 + j
        PROVE  K[i] = L[i]
    <3>1. CASE j \in 1 .. Len(q)
      BY <1>1, <1>2, <1>3, <2>1, <3>1
    <3>2. CASE j \notin 1 .. Len(q)
      <4>1. j = Len(q) + 1 /\ 1 \in 1 .. Len(o) /\ i = 1 + Len(q) + 1
        BY <1>1, <2>1, <3>2
      <4>2. L[1 + Len(q) + 1] = o[1]
        BY <1>3, <4>1
      <4>3. K[1 + j] = r[j]
        BY <1>2
      <4> QED  BY <1>1, <2>1, <4>1, <4>2, <4>3
    <3> QED  BY <3>1, <3>2
  <2>2. ASSUME NEW j \in 1 .. Len(t), i = 1 + Len(r) + j
        PROVE  K[i] = L[i]
    <3>1. j + 1 \in 1 .. Len(o) /\ i = 1 + Len(q) + (j + 1)
      BY <1>1, <2>2
    <3>2. L[1 + Len(q) + (j + 1)] = o[j + 1]
      BY <1>3, <3>1
    <3>3. K[1 + Len(r) + j] = t[j]
      BY <1>2
    <3>4. t[j] = o[j + 1]
      BY <1>1
    <3> QED  BY <2>2, <3>1, <3>2, <3>3, <3>4
  <2>3. \/ i = 1
        \/ \E j \in 1 .. Len(r) : i = 1 + j
        \/ \E j \in 1 .. Len(t) : i = 1 + Len(r) + j
    BY <1>1, LinePlaces
  <2>4. K[1] = L[1]
    BY <1>2, <1>3
  <2> QED  BY <2>1, <2>2, <2>3, <2>4
<1>6. \A i \in 1 .. Len(K) : K[i] = L[i]
  BY <1>2, <1>5
<1>7. K = L
  BY <1>2, <1>3, <1>4, <1>6, SeqEqual
<1> QED  BY <1>7 DEF K, L, r, t

(* The worker puts o at the end of a line of n.                            *)
Prolongs(Q, P, n, o) ==
    /\ Extends(Q, P) /\ n \in Nat /\ Len(P) = n
    /\ \A i \in Added(Q, P) : \E j \in 1 .. Len(o) : i = n + j /\ Q[i] = o[j]
    /\ \A j \in 1 .. Len(o) : n + j \in Added(Q, P) /\ Q[n + j] = o[j]

LEMMA LineGrows ==
    ASSUME NEW S, NEW s, NEW q \in Seq(S), NEW o \in Seq(S)
    PROVE  Prolongs(Line(s, q, o), Line(s, q, <<>>), 1 + Len(q), o)
<1> DEFINE K == Line(s, q, o)
           L == Line(s, q, <<>>)
<1>2. Shaped(K, s, q, o)
  BY LineShape
<1> DEFINE none == <<>>
<1>1. Len(none) = 0 /\ none \in Seq(S)
  OBVIOUS
<1>3. Shaped(L, s, q, none)
  BY <1>1, LineShape
<1> HIDE DEF K, L, none
<1> USE DEF Shaped
<1>4. ASSUME NEW i \in 1 .. Len(L)
      PROVE  K[i] = L[i]
  <2>1. i = 1 \/ \E j \in 1 .. Len(q) : i = 1 + j
    <3>1. i # 1 => i - 1 \in 1 .. Len(q) /\ i = 1 + (i - 1)
      BY <1>1, <1>3
    <3> QED  BY <3>1
  <2> QED  BY <1>2, <1>3, <2>1
<1>5. Extends(K, L)
  BY <1>1, <1>2, <1>3, <1>4 DEF Extends
<1>6. ASSUME NEW i \in Added(K, L)
      PROVE  \E j \in 1 .. Len(o) : i = 1 + Len(q) + j /\ K[i] = o[j]
  <2>1. Len(q) \in Nat /\ Len(o) \in Nat /\ i \in 1 + Len(q) + 1 .. 1 + Len(q) + Len(o)
    BY <1>1, <1>2, <1>3 DEF Added
  <2>2. i - 1 - Len(q) \in 1 .. Len(o) /\ i = 1 + Len(q) + (i - 1 - Len(q))
    BY <2>1
  <2> QED  BY <1>2, <2>2
<1>7. ASSUME NEW j \in 1 .. Len(o)
      PROVE  1 + Len(q) + j \in Added(K, L)
  BY <1>1, <1>2, <1>3 DEF Added
<1>8. 1 + Len(q) \in Nat /\ Len(L) = 1 + Len(q) /\ \A j \in 1 .. Len(o) : K[1 + Len(q) + j] = o[j]
  BY <1>1, <1>2, <1>3
<1>9. Prolongs(K, L, 1 + Len(q), o)
  BY <1>5, <1>6, <1>7, <1>8 DEF Prolongs
<1> QED  BY <1>9 DEF K, L, none

LEMMA LineShifts ==
    ASSUME NEW S, NEW s, NEW t, NEW q \in Seq(S), NEW o \in Seq(S), q # <<>>, t.kind = "store"
    PROVE  Shifts(Line(t, Tail(q), o), Line(s, q, o)) /\ Line(s, q, o)[2] = Head(q)
<1> DEFINE r == Tail(q)
           K == Line(t, r, o)
           L == Line(s, q, o)
<1>1. /\ r \in Seq(S) /\ Len(q) \in Nat \ {0} /\ Len(r) \in Nat /\ Len(r) = Len(q) - 1 /\ Len(o) \in Nat
      /\ \A j \in 1 .. Len(r) : r[j] = q[j + 1]
      /\ Head(q) = q[1]
  OBVIOUS
<1> HIDE DEF r
<1>2. Shaped(K, t, r, o)
  BY <1>1, LineShape
<1>3. Shaped(L, s, q, o)
  BY LineShape
<1> HIDE DEF K, L
<1> USE DEF Shaped
<1>4. ASSUME NEW i \in 2 .. 1 + Len(r) + Len(o)
      PROVE  K[i] = L[i + 1]
  <2>1. ASSUME NEW j \in 1 .. Len(r), i = 1 + j
        PROVE  K[i] = L[i + 1]
    <3>1. j + 1 \in 1 .. Len(q) /\ i + 1 = 1 + (j + 1)
      BY <1>1, <2>1
    <3>2. L[1 + (j + 1)] = q[j + 1]
      BY <1>3, <3>1
    <3> QED  BY <1>1, <1>2, <2>1, <3>1, <3>2
  <2>2. ASSUME NEW j \in 1 .. Len(o), i = 1 + Len(r) + j
        PROVE  K[i] = L[i + 1]
    <3>1. i + 1 = 1 + Len(q) + j
      BY <1>1, <2>2
    <3> QED  BY <1>2, <1>3, <2>2, <3>1
  <2>3. i \in 1 .. 1 + Len(r) + Len(o) /\ i # 1
    BY <1>1
  <2> QED  BY <1>1, <2>1, <2>2, <2>3, LinePlaces
<1>5. Shifts(K, L)
  <2>1. /\ Len(L) \in Nat /\ Len(L) >= 2 /\ Len(K) = Len(L) - 1
        /\ DOMAIN L = 1 .. Len(L) /\ DOMAIN K = 1 .. Len(K)
    BY <1>1, <1>2, <1>3
  <2> QED  BY <1>2, <1>4, <2>1 DEF Shifts
<1>6. L[2] = q[1]
  <2>1. 1 \in 1 .. Len(q) /\ 2 = 1 + 1
    BY <1>1
  <2>2. L[1 + 1] = q[1]
    BY <1>3, <2>1
  <2> QED  BY <2>2
<1> QED  BY <1>1, <1>5, <1>6 DEF K, L, r

LEMMA WireGrows ==
    ASSUME NEW S, NEW w \in Seq(S), NEW f \in S
    PROVE  Longer(Append(w, f), w, f)
BY DEF Longer

LEMMA WireShrinks ==
    ASSUME NEW S, NEW w \in Seq(S), w # <<>>
    PROVE  Shorter(Tail(w), w) /\ Head(w) = w[1]
BY DEF Shorter

-----------------------------------------------------------------------------
(* What is on its way, by kind.                                            *)
Book == [Quote -> 0 .. MaxSize]

Marks     == [kind : {"disconnected"}] \cup [kind : {"resubscribed"}, contract : Contract]
Snapshots == {SnapshotOf(c, b, n) : c \in Contract, b \in Book, n \in Nat}
Levels    == {LevelSetOf(c, q, b, w) : c \in Contract, q \in Quote, b \in Book, w \in SUBSET Quote}
Sent      == Marks \cup Snapshots \cup Levels

Pages  == [kind : {"books"}, of : Seq(Contract), truth : [Contract -> Book],
           unreadable : SUBSET Contract]
Moves  == [kind : {"change"}, contract : Contract, quote : Quote, truth : Book]
Noise  == [kind : {"garbled"}, contract : Contract, quote : Quote]
Frames == Pages \cup Moves \cup Noise

LEMMA SentKinds ==
    /\ \A e \in Marks : Boundary(e) /\ e.kind \notin {"store", "snapshot", "level"}
    /\ \A e \in Snapshots : /\ e.kind = "snapshot" /\ e.contract \in Contract
                            /\ e.truth \in Book /\ e.missing = {} /\ e.seq \in Nat
                            /\ e.rows = RowsOf(e.truth)
    /\ \A e \in Levels : /\ e.kind = "level" /\ e.contract \in Contract /\ e.quote \in Quote
                         /\ e.truth \in Book /\ e.missing \subseteq Quote
                         /\ e.size = e.truth[e.quote]
<1>1. \A e \in Marks : Boundary(e) /\ e.kind \notin {"store", "snapshot", "level"}
  BY DEF Marks, Boundary
<1>2. ASSUME NEW e \in Snapshots
      PROVE  /\ e.kind = "snapshot" /\ e.contract \in Contract
             /\ e.truth \in Book /\ e.missing = {} /\ e.seq \in Nat
             /\ e.rows = RowsOf(e.truth)
  <2>1. PICK c \in Contract, b \in Book, n \in Nat : e = SnapshotOf(c, b, n)
    BY DEF Snapshots
  <2> QED  BY <2>1 DEF SnapshotOf
<1>3. ASSUME NEW e \in Levels
      PROVE  /\ e.kind = "level" /\ e.contract \in Contract /\ e.quote \in Quote
             /\ e.truth \in Book /\ e.missing \subseteq Quote
             /\ e.size = e.truth[e.quote]
  <2>1. PICK c \in Contract, q \in Quote, b \in Book, w \in SUBSET Quote : e = LevelSetOf(c, q, b, w)
    BY DEF Levels
  <2> QED  BY <2>1 DEF LevelSetOf
<1> QED  BY <1>1, <1>2, <1>3

(* No event of the feed is taken for what the store holds.                 *)
LEMMA SentIsNoStore ==
    ASSUME NEW e \in Sent
    PROVE  e.kind # "store"
BY SentKinds DEF Sent

LEMMA FrameKinds ==
    /\ \A f \in Pages : f.kind = "books" /\ f.truth \in [Contract -> Book] /\ f.of \in Seq(Contract)
    /\ \A f \in Moves : f.kind = "change" /\ f.contract \in Contract /\ f.quote \in Quote /\ f.truth \in Book
    /\ \A f \in Noise : f.kind = "garbled" /\ f.contract \in Contract /\ f.quote \in Quote
    /\ \A f \in Frames : /\ f.kind = "books" => f \in Pages
                         /\ f.kind = "change" => f \in Moves
                         /\ f.kind = "garbled" => f \in Noise
BY DEF Frames, Pages, Moves, Noise

-----------------------------------------------------------------------------
(* A book and the ladder it rests on.                                      *)
LadderOf(book) ==
    [s \in Side |-> IF s = "yes" THEN [p \in Price |-> book[<<"bid", p>>]]
                                 ELSE [p \in Price |-> book[<<"ask", Par - p>>]]]

(* Where quote x rests on a ladder.                                        *)
Resting(lad, x) == lad[QuoteSide(x[1])][QuotePrice(x[1], x[2])]

LEMMA QuoteIsPair ==
    ASSUME NEW x \in Quote
    PROVE  /\ x = <<x[1], x[2]>> /\ x[1] \in {"bid", "ask"} /\ x[2] \in Price
           /\ QuoteSide(x[1]) \in Side /\ QuotePrice(x[1], x[2]) \in Price
<1>1. x = <<x[1], x[2]>> /\ x[1] \in {"bid", "ask"} /\ x[2] \in Price
  BY DEF Quote
<1>2. QuotePrice(x[1], x[2]) \in Price
  BY <1>1, ParAssumption DEF QuotePrice, Price
<1> QED  BY <1>1, <1>2 DEF QuoteSide, Side

(* Rows that cover every price and agree with a depth are that depth.      *)
LEMMA RowsGive ==
    ASSUME NEW rows \in Seq(Row), NEW depth \in Depth,
           \A p \in Price : \E i \in DOMAIN rows : rows[i].price = p,
           \A i \in DOMAIN rows : rows[i].size = depth[rows[i].price]
    PROVE  FromRows(rows) = depth
<1>1. ASSUME NEW p \in Price
      PROVE  FromRows(rows)[p] = depth[p]
  <2>1. LastRowAt(rows, p) \in DOMAIN rows /\ rows[LastRowAt(rows, p)].price = p
    BY LastRowIsARow
  <2>2. rows[LastRowAt(rows, p)].size = depth[p]
    BY <2>1
  <2> QED  BY <2>2 DEF FromRows
<1> QED  BY <1>1 DEF FromRows, Depth

(* Rows of whole sizes at prices of the ladder.                            *)
RowsAt(prices, sizes) == [i \in 1 .. Par + 1 |-> [price |-> prices[i], size |-> sizes[i]]]

LEMMA RowsAreGood ==
    ASSUME NEW prices, NEW sizes,
           \A i \in 1 .. Par + 1 : prices[i] \in Price /\ sizes[i] \in Nat
    PROVE  RowsAt(prices, sizes) \in Seq(Row) /\ GoodRows(RowsAt(prices, sizes))
<1>1. Par + 1 \in Nat
  BY ParAssumption
<1>2. ASSUME NEW i \in 1 .. Par + 1
      PROVE  /\ [price |-> prices[i], size |-> sizes[i]] \in Row
             /\ GoodRow([price |-> prices[i], size |-> sizes[i]])
  BY DEF Row, Price, GoodRow
<1>3. \A i \in 1 .. Par + 1 : [price |-> prices[i], size |-> sizes[i]] \in Row
  BY <1>2
<1>4. RowsAt(prices, sizes) \in Seq(Row)
  BY <1>1, <1>3 DEF RowsAt
<1> QED  BY <1>2, <1>4 DEF GoodRows, RowsAt

LEMMA LadderOfBook ==
    ASSUME NEW b \in Book
    PROVE  LadderOf(b) \in Ladders /\ \A x \in Quote : Resting(LadderOf(b), x) = b[x]
<1>1. \A p \in Price : /\ Par - p \in Price /\ Par - (Par - p) = p
                       /\ <<"bid", p>> \in Quote /\ <<"ask", p>> \in Quote
  BY ParAssumption DEF Price, Quote
<1>2. \A x \in Quote : b[x] \in Nat
  BY BoundsAssumption DEF Book
<1>3. LadderOf(b) \in Ladders
  BY <1>1, <1>2 DEF LadderOf, Ladders, Depth
<1>4. ASSUME NEW x \in Quote
      PROVE  Resting(LadderOf(b), x) = b[x]
  <2>1. x = <<x[1], x[2]>> /\ x[1] \in {"bid", "ask"} /\ x[2] \in Price
    BY QuoteIsPair
  <2>2. CASE x[1] = "bid"
    <3>1. Resting(LadderOf(b), x) = LadderOf(b)["yes"][x[2]]
      BY <2>2 DEF Resting, QuoteSide, QuotePrice
    <3>2. LadderOf(b)["yes"][x[2]] = b[<<"bid", x[2]>>]
      BY <2>1 DEF LadderOf, Side
    <3> QED  BY <2>1, <2>2, <3>1, <3>2
  <2>3. CASE x[1] = "ask"
    <3>1. Resting(LadderOf(b), x) = LadderOf(b)["no"][Par - x[2]]
      BY <2>3 DEF Resting, QuoteSide, QuotePrice
    <3>2. LadderOf(b)["no"][Par - x[2]] = b[<<"ask", Par - (Par - x[2])>>]
      BY <1>1, <2>1 DEF LadderOf, Side
    <3>3. LadderOf(b)["no"][Par - x[2]] = b[<<"ask", x[2]>>]
      BY <1>1, <2>1, <3>2
    <3> QED  BY <2>1, <2>3, <3>1, <3>3
  <2> QED  BY <2>1, <2>2, <2>3
<1> QED  BY <1>3, <1>4

(* A snapshot's rows give back the book it was made of.                    *)
LEMMA SnapshotIsTheBook ==
    ASSUME NEW b \in Book
    PROVE  /\ GoodRows(RowsOf(b).bid) /\ GoodRows(RowsOf(b).ask)
           /\ FromSnapshot(RowsOf(b).bid, RowsOf(b).ask) = LadderOf(b)
<1> DEFINE bid  == RowsOf(b).bid
           ask  == RowsOf(b).ask
           low  == LadderOf(b)["yes"]
           high == LadderOf(b)["no"]
<1>1. Par \in Nat /\ \A i \in 1 .. Par + 1 : i - 1 \in Price /\ Par - (i - 1) \in Price
                                             /\ Par - (Par - (i - 1)) = i - 1
  BY ParAssumption DEF Price
<1> DEFINE below == [i \in 1 .. Par + 1 |-> i - 1]
           above == [i \in 1 .. Par + 1 |-> Par - (i - 1)]
           bids  == [i \in 1 .. Par + 1 |-> b[<<"bid", i - 1>>]]
           asks  == [i \in 1 .. Par + 1 |-> b[<<"ask", i - 1>>]]
<1>2. ASSUME NEW i \in 1 .. Par + 1
      PROVE  /\ below[i] = i - 1 /\ above[i] = Par - (i - 1)
             /\ bids[i] = b[<<"bid", i - 1>>] /\ asks[i] = b[<<"ask", i - 1>>]
             /\ bids[i] \in Nat /\ asks[i] \in Nat
  <2>1. PICK k \in Price : k = i - 1
    BY <1>1
  <2>2. <<"bid", k>> \in Quote /\ <<"ask", k>> \in Quote
    BY DEF Quote
  <2>3. b[<<"bid", k>>] \in Nat /\ b[<<"ask", k>>] \in Nat
    BY <2>2, BoundsAssumption DEF Book
  <2> QED  BY <2>1, <2>3
<1>3. bid = RowsAt(below, bids)
  BY DEF RowsOf, RowsAt
<1>4. ask = RowsAt(above, asks)
  BY DEF RowsOf, RowsAt
<1> HIDE DEF bid, ask, below, above, bids, asks
<1>5. bid \in Seq(Row) /\ GoodRows(bid)
  BY <1>1, <1>2, <1>3, RowsAreGood
<1>6. ask \in Seq(Row) /\ GoodRows(ask)
  BY <1>1, <1>2, <1>4, RowsAreGood
<1>7. /\ DOMAIN bid = 1 .. Par + 1 /\ DOMAIN ask = 1 .. Par + 1
      /\ \A i \in 1 .. Par + 1 : /\ bid[i].price = below[i] /\ bid[i].size = bids[i]
                                 /\ ask[i].price = above[i] /\ ask[i].size = asks[i]
  BY <1>3, <1>4 DEF RowsAt
<1>8. low \in Depth /\ high \in Depth /\ LadderOf(b) \in Ladders
  BY LadderOfBook DEF Ladders, Side
<1>9. /\ \A p \in Price : low[p] = b[<<"bid", p>>]
      /\ \A p \in Price : high[p] = b[<<"ask", Par - p>>]
  BY DEF LadderOf, Side
<1> HIDE DEF low, high
<1>10. FromRows(bid) = low
  <2>1. ASSUME NEW p \in Price
        PROVE  \E i \in DOMAIN bid : bid[i].price = p
    <3>1. PICK k \in 1 .. Par + 1 : k - 1 = p
      <4>1. p + 1 \in 1 .. Par + 1 /\ (p + 1) - 1 = p
        BY <1>1 DEF Price
      <4> QED  BY <4>1
    <3>2. below[k] = p
      BY <1>2, <3>1
    <3>3. k \in DOMAIN bid /\ bid[k].price = below[k]
      BY <1>7
    <3> QED  BY <3>2, <3>3
  <2>2. ASSUME NEW i \in 1 .. Par + 1
        PROVE  bid[i].size = low[bid[i].price]
    <3>1. low[i - 1] = b[<<"bid", i - 1>>]
      BY <1>1, <1>9
    <3>2. low[below[i]] = bids[i]
      BY <1>2, <3>1
    <3> QED  BY <1>7, <3>2
  <2>3. \A i \in DOMAIN bid : bid[i].size = low[bid[i].price]
    BY <1>7, <2>2
  <2> QED  BY <1>5, <1>8, <2>1, <2>3, RowsGive
<1>11. FromRows(ask) = high
  <2>1. ASSUME NEW p \in Price
        PROVE  \E i \in DOMAIN ask : ask[i].price = p
    <3>1. PICK k \in 1 .. Par + 1 : Par - (k - 1) = p
      <4>1. Par - p + 1 \in 1 .. Par + 1 /\ Par - ((Par - p + 1) - 1) = p
        BY <1>1 DEF Price
      <4> QED  BY <4>1
    <3>2. above[k] = p
      BY <1>2, <3>1
    <3>3. k \in DOMAIN ask /\ ask[k].price = above[k]
      BY <1>7
    <3> QED  BY <3>2, <3>3
  <2>2. ASSUME NEW i \in 1 .. Par + 1
        PROVE  ask[i].size = high[ask[i].price]
    <3>1. high[Par - (i - 1)] = b[<<"ask", i - 1>>]
      <4>1. PICK k \in Price : k = Par - (i - 1) /\ Par - k = i - 1
        BY <1>1
      <4>2. high[k] = b[<<"ask", Par - k>>]
        BY <1>9
      <4> QED  BY <4>1, <4>2
    <3>2. high[above[i]] = asks[i]
      BY <1>2, <3>1
    <3> QED  BY <1>7, <3>2
  <2>3. \A i \in DOMAIN ask : ask[i].size = high[ask[i].price]
    BY <1>7, <2>2
  <2> QED  BY <1>6, <1>8, <2>1, <2>3, RowsGive
<1>12. FromSnapshot(bid, ask) = LadderOf(b)
  BY <1>8, <1>10, <1>11 DEF FromSnapshot, Ladders, Side, low, high
<1> QED  BY <1>5, <1>6, <1>12 DEF bid, ask

(* A quote replaced is the new one; every other rests where it did.        *)
LEMMA QuoteReplaced ==
    ASSUME NEW lad \in Ladders, NEW q \in Quote, NEW size \in Nat
    PROVE  /\ ReplaceLevel(lad, q[1], q[2], size) \in Ladders
           /\ Resting(ReplaceLevel(lad, q[1], q[2], size), q) = size
           /\ \A x \in Quote \ {q} :
                 Resting(ReplaceLevel(lad, q[1], q[2], size), x) = Resting(lad, x)
<1> DEFINE new == ReplaceLevel(lad, q[1], q[2], size)
           s == QuoteSide(q[1])
           p == QuotePrice(q[1], q[2])
<1>1. q[1] \in {"bid", "ask"} /\ q[2] \in Price /\ s \in Side /\ p \in Price
  BY QuoteIsPair
<1>2. new \in Ladders
  BY <1>1, ReplaceIsLadder
<1>3. new = [lad EXCEPT ![s][p] = size]
  BY DEF ReplaceLevel
<1>4. ASSUME NEW x \in Quote, x # q
      PROVE  QuoteSide(x[1]) # s \/ QuotePrice(x[1], x[2]) # p
  <2>1. /\ x = <<x[1], x[2]>> /\ q = <<q[1], q[2]>>
        /\ x[1] \in {"bid", "ask"} /\ x[2] \in Price
    BY QuoteIsPair
  <2>2. x[1] # q[1] \/ x[2] # q[2]
    BY <1>4, <2>1
  <2>3. CASE x[1] # q[1]
    BY <1>1, <2>1, <2>3 DEF QuoteSide
  <2>4. CASE x[1] = q[1] /\ x[2] # q[2]
    BY <1>1, <2>1, <2>4, ParAssumption DEF QuotePrice, Price
  <2> QED  BY <2>2, <2>3, <2>4
<1> HIDE DEF s, p, new
<1>5. new[s][p] = size /\ \A t \in Side, r \in Price : t # s \/ r # p => new[t][r] = lad[t][r]
  BY <1>1, <1>3 DEF Ladders, Depth
<1>6. ASSUME NEW x \in Quote \ {q}
      PROVE  Resting(new, x) = Resting(lad, x)
  <2>1. QuoteSide(x[1]) \in Side /\ QuotePrice(x[1], x[2]) \in Price
    BY QuoteIsPair
  <2> QED  BY <1>4, <1>5, <2>1 DEF Resting
<1>7. Resting(new, q) = size
  BY <1>5 DEF Resting, s, p
<1> QED  BY <1>2, <1>6, <1>7 DEF new

-----------------------------------------------------------------------------
(* The types, with those of the sequences and the ghosts.                  *)
Typed ==
    /\ TypeOK
    /\ asOf \in [Contract -> Book]
    /\ queue \in Seq(Sent) /\ outbox \in Seq(Sent) /\ wire \in Seq(Frames)

(* What one event does to the store.                                       *)
Learns(e) ==
    /\ e \in Snapshots
    /\ state'    = [state EXCEPT ![e.contract] = "Live"]
    /\ ladder'   = [ladder EXCEPT ![e.contract] = LadderOf(e.truth)]
    /\ expected' = [expected EXCEPT ![Polymarket] = e.seq + 1]
    /\ asOf'     = [asOf EXCEPT ![e.contract] = e.truth]
    /\ missed'   = [missed EXCEPT ![e.contract] = e.missing]

Amends(e) ==
    /\ e \in Levels /\ state[e.contract] = "Live"
    /\ ladder' = [ladder EXCEPT ![e.contract] =
                     ReplaceLevel(ladder[e.contract], e.quote[1], e.quote[2], e.size)]
    /\ UNCHANGED <<state, expected>>
    /\ asOf'   = [asOf EXCEPT ![e.contract] = e.truth]
    /\ missed' = [missed EXCEPT ![e.contract] = e.missing]

Ignores(e) ==
    /\ e \in Levels /\ state[e.contract] # "Live"
    /\ UNCHANGED books /\ UNCHANGED ghostVars

TakesDown(e) ==
    /\ e \in Marks
    /\ state' \in [Contract -> BookState] /\ \A c \in Contract : state'[c] # "Live"
    /\ expected' = [expected EXCEPT ![Polymarket] = None]
    /\ UNCHANGED ladder /\ UNCHANGED ghostVars

LEMMA OneVenue == \A c \in Contract : VenueOf[c] = Polymarket
BY VenueAssumption, PolymarketAssumption

LEMMA MarkTakesDown ==
    ASSUME Typed, NEW e \in Marks, ApplyEvent(e), ~(applied'.kind \in Change) => UNCHANGED ghostVars
    PROVE  TakesDown(e) /\ applied' \in Applied
<1>1. CASE e.kind = "disconnected"
  <2>1. ApplyDisconnected(Polymarket)
    BY <1>1 DEF ApplyEvent
  <2>2. applied' = [kind |-> "Invalidated"]
    BY <2>1 DEF ApplyDisconnected, Answer
  <2>3. applied'.kind \notin Change /\ applied' \in Applied
    BY <2>2 DEF Change, Applied, Quiet
  <2>4. /\ state' = [c \in Contract |-> "Resyncing"]
        /\ expected' = [expected EXCEPT ![Polymarket] = None] /\ UNCHANGED ladder
    BY <2>1, OneVenue DEF ApplyDisconnected, InvalidateVenue, OfVenue
  <2> QED  BY <2>3, <2>4 DEF TakesDown, BookState
<1>2. CASE e.kind = "resubscribed"
  <2>1. e.contract \in Contract /\ ApplyResubscribed(e.contract)
    BY <1>2 DEF ApplyEvent, Marks
  <2>2. applied' = [kind |-> "Invalidated"]
    BY <2>1 DEF ApplyResubscribed, Answer
  <2>3. applied'.kind \notin Change /\ applied' \in Applied
    BY <2>2 DEF Change, Applied, Quiet
  <2>4. /\ state' = [c \in Contract |-> IF c \in LiveOf(Polymarket) THEN "Resyncing" ELSE state[c]]
        /\ expected' = [expected EXCEPT ![Polymarket] = None] /\ UNCHANGED ladder
    BY <2>1, OneVenue DEF ApplyResubscribed, MarkVenueResyncing
  <2>5. state' \in [Contract -> BookState] /\ \A c \in Contract : state'[c] # "Live"
    BY <2>4, OneVenue DEF LiveOf, OfVenue, LiveBooks, Typed, TypeOK, StoreTypeOK, BookState
  <2> QED  BY <2>3, <2>4, <2>5 DEF TakesDown
<1> QED  BY <1>1, <1>2 DEF Marks

LEMMA ConsumeCases ==
    ASSUME Typed, Consume, NEW e, e = Head(queue)
    PROVE  /\ e \in Sent /\ applied' \in Applied
           /\ Learns(e) \/ Amends(e) \/ Ignores(e) \/ TakesDown(e)
<1>1. e \in Sent
  BY DEF Typed, Consume
<1>2. /\ ApplyEvent(e)
      /\ applied'.kind \in Change =>
            /\ asOf'   = [asOf EXCEPT ![e.contract] = e.truth]
            /\ missed' = [missed EXCEPT ![e.contract] = e.missing]
      /\ ~(applied'.kind \in Change) => UNCHANGED ghostVars
  BY DEF Consume
<1>3. CASE e \in Snapshots
  <2>1. e.kind = "snapshot" /\ e.contract \in Contract /\ e.truth \in Book /\ e.rows = RowsOf(e.truth)
    BY <1>3, SentKinds
  <2>2. ApplySnapshot(e.contract, RowsOf(e.truth).bid, RowsOf(e.truth).ask, e.seq)
    BY <1>2, <2>1 DEF ApplyEvent
  <2>3. applied' = [kind |-> "Snapshot", contract |-> e.contract]
    BY <2>2 DEF ApplySnapshot, Changed
  <2>4. applied'.kind \in Change /\ applied' \in Applied
    BY <2>1, <2>3 DEF Change, Applied
  <2>5. FromSnapshot(RowsOf(e.truth).bid, RowsOf(e.truth).ask) = LadderOf(e.truth)
    BY <2>1, SnapshotIsTheBook
  <2>6. /\ state'    = [state EXCEPT ![e.contract] = "Live"]
        /\ ladder'   = [ladder EXCEPT ![e.contract] = LadderOf(e.truth)]
        /\ expected' = [expected EXCEPT ![Polymarket] = e.seq + 1]
    BY <2>1, <2>2, <2>5, OneVenue DEF ApplySnapshot
  <2> QED  BY <1>1, <1>2, <1>3, <2>4, <2>6 DEF Learns
<1>4. CASE e \in Levels
  <2>1. /\ e.kind = "level" /\ e.contract \in Contract /\ e.quote \in Quote /\ e.truth \in Book
        /\ e.size = e.truth[e.quote]
    BY <1>4, SentKinds
  <2>2. e.size \in Nat /\ e.quote[2] \in Price
    BY <2>1, QuoteIsPair, BoundsAssumption DEF Book
  <2>3. \/ ApplyLevelSet(e.contract, e.quote[1], e.quote[2], e.size)
        \/ RejectLevelSet(e.contract, e.quote[2], e.size)
    BY <1>2, <2>1 DEF ApplyEvent
  <2>4. CASE ApplyLevelSet(e.contract, e.quote[1], e.quote[2], e.size)
    <3>1. applied' = [kind |-> "LevelSet", contract |-> e.contract]
      BY <2>4 DEF ApplyLevelSet, Changed
    <3>2. applied'.kind \in Change /\ applied' \in Applied
      BY <2>1, <3>1 DEF Change, Applied
    <3>3. /\ state[e.contract] = "Live" /\ UNCHANGED <<state, expected>>
          /\ ladder' = [ladder EXCEPT ![e.contract] =
                           ReplaceLevel(ladder[e.contract], e.quote[1], e.quote[2], e.size)]
      BY <2>4 DEF ApplyLevelSet
    <3> QED  BY <1>1, <1>2, <1>4, <3>2, <3>3 DEF Amends
  <2>5. CASE RejectLevelSet(e.contract, e.quote[2], e.size)
    <3>1. applied' = [kind |-> "Skipped"]
      BY <2>5 DEF RejectLevelSet, Answer
    <3>2. applied'.kind \notin Change /\ applied' \in Applied
      BY <3>1 DEF Change, Applied, Quiet
    <3>3. state[e.contract] # "Live" /\ UNCHANGED books
      BY <2>2, <2>5 DEF RejectLevelSet
    <3> QED  BY <1>1, <1>2, <1>4, <3>2, <3>3 DEF Ignores
  <2> QED  BY <2>3, <2>4, <2>5
<1>5. CASE e \in Marks
  BY <1>1, <1>2, <1>5, MarkTakesDown
<1> QED  BY <1>1, <1>3, <1>4, <1>5 DEF Sent

-----------------------------------------------------------------------------
(* The store's types are untouched but by Consume.                         *)
StoreTyped  == StoreTypeOK /\ asOf \in [Contract -> Book] /\ missed \in [Contract -> SUBSET Quote]
MarketTyped == market \in [Contract -> Book] /\ fine \subseteq Contract /\ wire \in Seq(Frames)
LinkTyped   == /\ link \in {"connecting", "open", "stopped", "dead"}
               /\ toBook \in BOOLEAN /\ mute \in BOOLEAN /\ reconnect \in BOOLEAN
               /\ resyncAsked \in BOOLEAN /\ stopAsked \in BOOLEAN
ClockTyped  == /\ flushIn \in 0 .. 1 /\ slept \in 0 .. IdleTimeout /\ silence \in 0 .. MaxSilence
               /\ refused \subseteq Contract
ReadTyped   == /\ snapshotSeq \in [Contract -> Nat] /\ missing \in [Contract -> SUBSET Quote]
               /\ outbox \in Seq(Sent)
QueueTyped  == queue \in Seq(Sent) /\ Len(queue) <= Capacity

LEMMA TypedParts ==
    /\ Typed <=> StoreTyped /\ MarketTyped /\ LinkTyped /\ ClockTyped /\ ReadTyped /\ QueueTyped
    /\ Typed' <=> StoreTyped' /\ MarketTyped' /\ LinkTyped' /\ ClockTyped' /\ ReadTyped' /\ QueueTyped'
<1> USE DEF Typed, TypeOK, Book, StoreTyped, MarketTyped, LinkTyped, ClockTyped, ReadTyped, QueueTyped
<1>1. Typed <=> StoreTyped /\ MarketTyped /\ LinkTyped /\ ClockTyped /\ ReadTyped /\ QueueTyped
  BY Zenon
<1>2. Typed' <=> StoreTyped' /\ MarketTyped' /\ LinkTyped' /\ ClockTyped' /\ ReadTyped' /\ QueueTyped'
  BY Zenon
<1> QED  BY <1>1, <1>2

LEMMA NoQuotesIsBook == NoQuotes \in Book
BY BoundsAssumption DEF NoQuotes, Book

LEMMA TypedInit == Init => Typed
<1> SUFFICES ASSUME Init
             PROVE  Typed
  OBVIOUS
<1>1. StoreTyped
  BY StoreTypeInit, NoQuotesIsBook DEF Init, StoreTyped
<1>2. MarketTyped
  BY NoQuotesIsBook DEF Init, MarketTyped
<1>3. LinkTyped
  BY DEF Init, LinkTyped
<1>4. ClockTyped
  BY TimersAssumption DEF Init, ClockTyped
<1>5. ReadTyped
  BY DEF Init, ReadTyped
<1>6. QueueTyped
  BY CapacityAssumption DEF Init, QueueTyped
<1> QED  BY <1>1, <1>2, <1>3, <1>4, <1>5, <1>6, TypedParts

(* What the sequences carry.                                               *)
LEMMA FramesMade ==
    ASSUME market \in [Contract -> Book], fine \subseteq Contract
    PROVE  /\ \A cs \in Seq(Contract), broken \in SUBSET Contract : BooksOf(cs, broken) \in Frames
           /\ \A c \in Contract, q \in Quote, b \in Book : ChangeOf(c, q, b) \in Frames
           /\ \A c \in Contract, q \in Quote : Garbled(c, q) \in Frames
BY DEF BooksOf, ChangeOf, Garbled, Frames, Pages, Moves, Noise

LEMMA MarksMade ==
    /\ <<Disconnected>> \in Seq(Sent)
    /\ Announcements \in Seq(Sent)
    /\ \A i \in DOMAIN Announcements : Boundary(Announcements[i])
    /\ DOMAIN Announcements = 1 .. Len(Announcements)
<1>1. Disconnected \in Sent /\ \A c \in Contract : Resubscribed(c) \in Sent
  BY DEF Disconnected, Resubscribed, Sent, Marks
<1>2. Len(Tokens) \in Nat /\ DOMAIN Tokens = 1 .. Len(Tokens)
      /\ \A i \in DOMAIN Tokens : Tokens[i] \in Contract
  BY TokensAssumption
<1>3. \A i \in 1 .. Len(Tokens) : Resubscribed(Tokens[i]) \in Sent
  BY <1>1, <1>2
<1>4. Announcements \in Seq(Sent) /\ DOMAIN Announcements = 1 .. Len(Announcements)
  BY <1>2, <1>3 DEF Announcements
<1>5. \A i \in DOMAIN Announcements : Boundary(Announcements[i])
  BY DEF Announcements, Boundary, Resubscribed
<1> QED  BY <1>1, <1>4, <1>5

LEMMA QuoteOfMove ==
    ASSUME NEW m \in Moving
    PROVE  m[1] \in Contract /\ <<m[2], m[3]>> \in Quote
BY MovingAssumption DEF Quote

(* What the frame at hand becomes.                                         *)
ReadOf(f) == {f.of[i] : i \in DOMAIN f.of}

LEMMA BooksRead ==
    ASSUME ReadBooks, NEW f, f = Head(wire)
    PROVE  /\ f.kind = "books"
           /\ Readable(f) =>
                /\ snapshotSeq' = [c \in Contract |-> snapshotSeq[c] + (IF c \in ReadOf(f) THEN 1 ELSE 0)]
                /\ missing' = [c \in Contract |-> IF c \in ReadOf(f) THEN {} ELSE missing[c]]
                /\ outbox' = [i \in DOMAIN f.of |->
                                 SnapshotOf(f.of[i], f.truth[f.of[i]], snapshotSeq'[f.of[i]])]
           /\ ~Readable(f) => outbox' = <<>> /\ snapshotSeq' = snapshotSeq /\ missing' = missing
           /\ refused' \in {refused \ ReadOf(f), refused \cup ReadOf(f)}
<1> DEFINE g == Head(wire)
<1>1. g.kind = "books"
  BY DEF ReadBooks
<1>2. ASSUME Readable(g)
      PROVE  /\ snapshotSeq' = [c \in Contract |-> snapshotSeq[c] + (IF c \in ReadOf(g) THEN 1 ELSE 0)]
             /\ missing' = [c \in Contract |-> IF c \in ReadOf(g) THEN {} ELSE missing[c]]
             /\ outbox' = [i \in DOMAIN g.of |->
                              SnapshotOf(g.of[i], g.truth[g.of[i]], snapshotSeq'[g.of[i]])]
  <2> HIDE DEF Readable
  <2> QED  BY <1>2, Zenon DEF ReadBooks, ReadOf
<1>3. ~Readable(g) => outbox' = <<>> /\ snapshotSeq' = snapshotSeq /\ missing' = missing
  BY Zenon DEF ReadBooks
<1>4. refused' \in {refused \ ReadOf(g), refused \cup ReadOf(g)}
  <2>1. refused' = refused \ ReadOf(g) \/ refused' = refused \cup ReadOf(g)
    BY Zenon DEF ReadBooks, ReadOf
  <2> HIDE DEF g
  <2> QED  BY <2>1
<1>5. f = g
  OBVIOUS
<1> HIDE DEF g
<1> QED  BY <1>1, <1>2, <1>3, <1>4, <1>5

(* The frame at hand, and what the worker makes of it.                     *)
LEMMA ReadTypes ==
    ASSUME Typed, Take
    PROVE  /\ Head(wire) \in Frames /\ wire' \in Seq(Frames)
           /\ ReadBooks \/ ReadChange \/ ReadGarbled => ReadTyped'
<1>1. Head(wire) \in Frames /\ wire' \in Seq(Frames)
  BY DEF Take, Typed
<1>2. /\ snapshotSeq \in [Contract -> Nat] /\ missing \in [Contract -> SUBSET Quote]
      /\ outbox = <<>> /\ outbox \in Seq(Sent)
  BY TypedParts DEF ReadTyped, Take, Idle
<1> SUFFICES ASSUME ReadBooks \/ ReadChange \/ ReadGarbled
             PROVE  ReadTyped'
  BY <1>1
<1>3. CASE ReadBooks
  <2> DEFINE f == Head(wire)
  <2> DEFINE one(c) == IF c \in ReadOf(f) THEN 1 ELSE 0
  <2>1. f.truth \in [Contract -> Book] /\ f.of \in Seq(Contract)
    BY <1>1, <1>3, FrameKinds DEF ReadBooks
  <2>2. CASE Readable(f)
    <3>0. \A c \in Contract : one(c) \in Nat
      OBVIOUS
    <3> HIDE DEF one
    <3>1. /\ snapshotSeq' = [c \in Contract |-> snapshotSeq[c] + one(c)]
          /\ missing' = [c \in Contract |-> IF c \in ReadOf(f) THEN {} ELSE missing[c]]
      BY <1>3, <2>2, BooksRead DEF one
    <3>5. \A c \in Contract : snapshotSeq[c] + one(c) \in Nat
      BY <1>2, <3>0
    <3>6. snapshotSeq' \in [Contract -> Nat]
      BY <3>1, <3>5
    <3>7. missing' \in [Contract -> SUBSET Quote]
      BY <1>2, <3>1
    <3>2. /\ Len(f.of) \in Nat /\ DOMAIN f.of = 1 .. Len(f.of)
          /\ outbox' = [i \in 1 .. Len(f.of) |->
                           SnapshotOf(f.of[i], f.truth[f.of[i]], snapshotSeq'[f.of[i]])]
      BY <1>3, <2>1, <2>2, BooksRead
    <3>3. ASSUME NEW i \in 1 .. Len(f.of)
          PROVE  SnapshotOf(f.of[i], f.truth[f.of[i]], snapshotSeq'[f.of[i]]) \in Sent
      <4>1. f.of[i] \in Contract
        BY <2>1, <3>2
      <4>2. f.truth[f.of[i]] \in Book /\ snapshotSeq'[f.of[i]] \in Nat
        BY <2>1, <3>6, <4>1
      <4> QED  BY <4>1, <4>2 DEF Sent, Snapshots
    <3> HIDE DEF f
    <3>4. outbox' \in Seq(Sent)
      BY <3>2, <3>3
    <3> QED  BY <3>6, <3>7, <3>4 DEF ReadTyped
  <2>3. CASE ~Readable(f)
    <3>1. outbox' = <<>> /\ snapshotSeq' = snapshotSeq /\ missing' = missing
      BY <1>3, <2>3, BooksRead
    <3> QED  BY <1>2, <3>1 DEF ReadTyped
  <2> QED  BY <2>2, <2>3
<1>4. CASE ReadChange
  <2> DEFINE f == Head(wire)
  <2>1. f.contract \in Contract /\ f.quote \in Quote /\ f.truth \in Book
    BY <1>1, <1>4, FrameKinds DEF ReadChange
  <2>2. /\ snapshotSeq' = snapshotSeq /\ missing' = [missing EXCEPT ![f.contract] = @ \ {f.quote}]
        /\ outbox' = <<LevelSetOf(f.contract, f.quote, f.truth, missing'[f.contract])>>
    BY <1>4 DEF ReadChange
  <2> HIDE DEF f
  <2>3. missing' \in [Contract -> SUBSET Quote]
    BY <1>2, <2>1, <2>2
  <2>4. LevelSetOf(f.contract, f.quote, f.truth, missing'[f.contract]) \in Sent
    BY <2>1, <2>3 DEF Sent, Levels
  <2> QED  BY <1>2, <2>2, <2>3, <2>4 DEF ReadTyped
<1>5. CASE ReadGarbled
  <2> DEFINE f == Head(wire)
  <2>1. f.contract \in Contract /\ f.quote \in Quote
    BY <1>1, <1>5, FrameKinds DEF ReadGarbled
  <2>2. /\ snapshotSeq' = snapshotSeq /\ missing' = [missing EXCEPT ![f.contract] = @ \cup {f.quote}]
        /\ outbox' = outbox
    BY <1>5 DEF ReadGarbled
  <2> HIDE DEF f
  <2> QED  BY <1>2, <2>1, <2>2 DEF ReadTyped
<1> QED  BY <1>1, <1>3, <1>4, <1>5

LEMMA ConsumeTypes ==
    ASSUME Typed, Consume
    PROVE  StoreTyped' /\ queue' \in Seq(Sent) /\ Len(queue') <= Capacity
<1> DEFINE e == Head(queue)
<1>1. queue' = Tail(queue) /\ queue \in Seq(Sent) /\ queue # <<>> /\ Len(queue) <= Capacity
  BY TypedParts DEF Consume, QueueTyped
<1>2. queue' \in Seq(Sent) /\ Len(queue') <= Capacity
  BY <1>1, CapacityAssumption
<1>3. applied' \in Applied /\ (Learns(e) \/ Amends(e) \/ Ignores(e) \/ TakesDown(e))
  BY ConsumeCases
<1> HIDE DEF e
<1>4. /\ state \in [Contract -> BookState] /\ ladder \in [Contract -> Ladders]
      /\ expected \in [Venue -> Nat \cup {None}]
      /\ asOf \in [Contract -> Book] /\ missed \in [Contract -> SUBSET Quote]
  BY TypedParts DEF StoreTyped, StoreTypeOK
<1> SUFFICES StoreTyped'
  BY <1>2
<1>5. CASE Learns(e)
  <2>1. e.contract \in Contract /\ e.truth \in Book /\ e.missing = {} /\ e.seq \in Nat
    BY <1>5, SentKinds DEF Learns
  <2>2. LadderOf(e.truth) \in Ladders
    BY <2>1, LadderOfBook
  <2>3. state' \in [Contract -> BookState] /\ ladder' \in [Contract -> Ladders]
    BY <1>4, <1>5, <2>1, <2>2 DEF Learns, BookState
  <2>4. expected' \in [Venue -> Nat \cup {None}]
    <3>1. e.seq + 1 \in Nat
      BY <2>1
    <3> QED  BY <1>4, <1>5, <3>1 DEF Learns
  <2>5. asOf' \in [Contract -> Book] /\ missed' \in [Contract -> SUBSET Quote]
    BY <1>4, <1>5, <2>1 DEF Learns
  <2> QED  BY <1>3, <2>3, <2>4, <2>5 DEF StoreTyped, StoreTypeOK
<1>6. CASE Amends(e)
  <2>1. /\ e.contract \in Contract /\ e.quote \in Quote /\ e.truth \in Book /\ e.missing \subseteq Quote
        /\ e.size \in Nat
    BY <1>6, SentKinds, BoundsAssumption DEF Amends, Book
  <2>2. ReplaceLevel(ladder[e.contract], e.quote[1], e.quote[2], e.size) \in Ladders
    BY <1>4, <2>1, QuoteReplaced
  <2>3. ladder' \in [Contract -> Ladders] /\ state' = state /\ expected' = expected
    BY <1>4, <1>6, <2>1, <2>2 DEF Amends
  <2>4. asOf' \in [Contract -> Book] /\ missed' \in [Contract -> SUBSET Quote]
    BY <1>4, <1>6, <2>1 DEF Amends
  <2> QED  BY <1>3, <1>4, <2>3, <2>4 DEF StoreTyped, StoreTypeOK
<1>7. CASE Ignores(e)
  BY <1>3, <1>4, <1>7 DEF StoreTyped, StoreTypeOK, Ignores, books, ghostVars
<1>8. CASE TakesDown(e)
  <2>1. expected' \in [Venue -> Nat \cup {None}]
    BY <1>4, <1>8 DEF TakesDown
  <2> QED  BY <1>3, <1>4, <1>8, <2>1 DEF StoreTyped, StoreTypeOK, TakesDown, ghostVars
<1> QED  BY <1>3, <1>5, <1>6, <1>7, <1>8

LEMMA WireTypes ==
    ASSUME Typed, NEW f \in Frames, Transmits(f)
    PROVE  wire' \in Seq(Frames)
<1>1. wire \in Seq(Frames)
  BY DEF Typed
<1>2. wire' = Append(wire, f) \/ wire' = wire
  BY DEF Transmits
<1> QED  BY <1>1, <1>2

LEMMA VenueTypes ==
    ASSUME Typed, VenueActs
    PROVE  MarketTyped' /\ toBook' \in BOOLEAN /\ mute' \in BOOLEAN
<1>1. /\ market \in [Contract -> Book] /\ fine \subseteq Contract /\ wire \in Seq(Frames)
      /\ toBook \in BOOLEAN /\ mute \in BOOLEAN
  BY TypedParts DEF MarketTyped, LinkTyped
<1>2. CASE VenueOpens
  <2>1. BooksOf(Tokens, {}) \in Frames /\ BooksOf(Tokens, Contract) \in Frames
    BY <1>1, FramesMade, TokensAssumption
  <2>2. /\ wire' = Append(wire, BooksOf(Tokens, {})) \/ wire' = Append(wire, BooksOf(Tokens, Contract))
        /\ toBook' = FALSE /\ UNCHANGED <<market, fine, mute>>
    BY <1>2 DEF VenueOpens
  <2>3. wire' \in Seq(Frames)
    BY <1>1, <2>1, <2>2
  <2> QED  BY <1>1, <2>2, <2>3 DEF MarketTyped
<1>3. CASE GoesMute
  BY <1>1, <1>3 DEF GoesMute, MarketTyped
<1>4. ASSUME NEW c \in Contract, VenueRestates(c)
      PROVE  MarketTyped' /\ toBook' \in BOOLEAN /\ mute' \in BOOLEAN
  <2>1. <<c>> \in Seq(Contract)
    OBVIOUS
  <2>2. BooksOf(<<c>>, {}) \in Frames /\ BooksOf(<<c>>, Contract) \in Frames
    BY <1>1, <2>1, FramesMade
  <2>3. wire' \in Seq(Frames)
    BY <1>4, <2>2, WireTypes DEF VenueRestates
  <2> QED  BY <1>1, <1>4, <2>3 DEF VenueRestates, MarketTyped
<1>5. ASSUME NEW c \in Contract, VenueQuotesFine(c)
      PROVE  MarketTyped' /\ toBook' \in BOOLEAN /\ mute' \in BOOLEAN
  BY <1>1, <1>5 DEF VenueQuotesFine, MarketTyped, socketVars
<1>6. ASSUME NEW c \in Contract, NEW q \in Quote, NEW size \in 0 .. MaxSize, VenueTrades(c, q, size)
      PROVE  MarketTyped' /\ toBook' \in BOOLEAN /\ mute' \in BOOLEAN
  <2> DEFINE after == [market[c] EXCEPT ![q] = size]
  <2>1. after \in Book
    BY <1>1 DEF Book
  <2>2. market' = [market EXCEPT ![c] = after]
    BY <1>6 DEF VenueTrades
  <2>3. Transmits(ChangeOf(c, q, after)) \/ Transmits(Garbled(c, q))
    BY <1>6 DEF VenueTrades
  <2> HIDE DEF after
  <2>4. ChangeOf(c, q, after) \in Frames /\ Garbled(c, q) \in Frames
    BY <1>1, <2>1, FramesMade
  <2>5. wire' \in Seq(Frames)
    BY <2>3, <2>4, WireTypes
  <2> QED  BY <1>1, <1>6, <2>1, <2>2, <2>5 DEF VenueTrades, MarketTyped
<1> QED  BY <1>2, <1>3, <1>4, <1>5, <1>6, QuoteOfMove DEF VenueActs

LEMMA WorkerTypes ==
    ASSUME Typed, Worker
    PROVE  /\ ReadTyped' /\ LinkTyped' /\ ClockTyped'
           /\ wire' \in Seq(Frames) /\ queue' \in Seq(Sent) /\ Len(queue') <= Capacity
<1>1. ReadTyped /\ LinkTyped /\ ClockTyped /\ wire \in Seq(Frames)
      /\ queue \in Seq(Sent) /\ Len(queue) <= Capacity
  BY TypedParts DEF MarketTyped, QueueTyped
<1>2. <<>> \in Seq(Frames) /\ <<>> \in Seq(Sent)
  OBVIOUS
<1>3. 0 \in 0 .. IdleTimeout /\ 0 \in 0 .. MaxSilence
  BY TimersAssumption
<1>14. NewSocket => ClockTyped' /\ wire' \in Seq(Frames) /\ mute' \in BOOLEAN
  <2>1. NewSocket => ClockTyped'
    BY <1>3 DEF NewSocket, ClockTyped
  <2>2. NewSocket => wire' \in Seq(Frames)
    <3>1. NewSocket => wire' = <<>>
      BY DEF NewSocket
    <3> QED  BY <1>2, <3>1
  <2>3. NewSocket => mute' \in BOOLEAN
    BY DEF NewSocket
  <2> QED  BY <2>1, <2>2, <2>3
<1>15. /\ outbox' = outbox /\ UNCHANGED <<snapshotSeq, missing>> => ReadTyped'
       /\ outbox' \in Seq(Sent) /\ UNCHANGED <<snapshotSeq, missing>> => ReadTyped'
       /\ queue' = queue => queue' \in Seq(Sent) /\ Len(queue') <= Capacity
  BY <1>1 DEF ReadTyped
<1>4. CASE Connect
  <2>1. outbox' \in Seq(Sent) /\ UNCHANGED <<snapshotSeq, missing, queue>> /\ NewSocket
    BY <1>2, <1>4, MarksMade DEF Connect
  <2>2. LinkTyped'
    BY <1>1, <1>4, <1>14, <2>1 DEF Connect, LinkTyped
  <2> QED  BY <1>14, <1>15, <2>1, <2>2
<1>5. CASE ConnectFails
  BY <1>1, <1>2, <1>5, MarksMade
     DEF ConnectFails, socketVars, askVars, ReadTyped, LinkTyped, ClockTyped
<1>6. CASE SubscribeFails
  BY <1>1, <1>6 DEF SubscribeFails, socketVars, askVars, ReadTyped, LinkTyped, ClockTyped
<1>7. CASE RecorderFails
  BY <1>1, <1>7 DEF RecorderFails, socketVars, askVars, ReadTyped, LinkTyped, ClockTyped
<1>8. CASE ReadBooks \/ ReadChange \/ ReadGarbled
  <2>1. Take
    BY <1>8 DEF ReadBooks, ReadChange, ReadGarbled
  <2>2. ReadTyped' /\ wire' \in Seq(Frames)
    BY <1>8, <2>1, ReadTypes
  <2>3. refused' \subseteq Contract
    <3>1. CASE ReadBooks
      <4> DEFINE f == Head(wire)
      <4>1. f.of \in Seq(Contract) /\ refused \subseteq Contract
        BY <1>1, <2>1, <3>1, ReadTypes, FrameKinds DEF ReadBooks, ClockTyped
      <4>2. refused' \in {refused \ ReadOf(f), refused \cup ReadOf(f)}
        BY <3>1, BooksRead
      <4> HIDE DEF f
      <4> QED  BY <4>1, <4>2 DEF ReadOf
    <3>2. CASE ReadChange \/ ReadGarbled
      BY <1>1, <3>2 DEF ReadChange, ReadGarbled, ClockTyped
    <3> QED  BY <1>8, <3>1, <3>2
  <2> QED  BY <1>1, <1>3, <2>1, <2>2, <2>3 DEF Take, askVars, LinkTyped, ClockTyped
<1>9. CASE Send
  <2>1. /\ outbox \in Seq(Sent) /\ outbox # <<>> /\ Len(queue) < Capacity
        /\ queue' = Append(queue, Head(outbox)) /\ outbox' = Tail(outbox)
        /\ UNCHANGED <<socketVars, link, reconnect, snapshotSeq, askVars, missing>>
    BY <1>1, <1>9 DEF Send, ReadTyped
  <2>2. queue' \in Seq(Sent) /\ outbox' \in Seq(Sent) /\ Len(queue') = Len(queue) + 1
    BY <1>1, <2>1
  <2>3. Len(queue') <= Capacity
    BY <1>1, <2>1, <2>2, CapacityAssumption
  <2> QED  BY <1>1, <2>1, <2>2, <2>3 DEF socketVars, askVars, ReadTyped, LinkTyped, ClockTyped
<1>10. CASE TimePasses
  <2>1. flushIn' \in 0 .. 1 /\ slept' \in 0 .. IdleTimeout /\ silence' \in 0 .. MaxSilence
    BY <1>1, <1>10, TimersAssumption DEF TimePasses, ClockTyped
  <2> QED  BY <1>1, <1>10, <2>1 DEF TimePasses, workerVars, askVars, ReadTyped, LinkTyped, ClockTyped
<1>11. CASE Flush
  BY <1>1, <1>3, <1>11 DEF Flush, workerVars, askVars, ReadTyped, LinkTyped, ClockTyped
<1>12. CASE SocketEnds \/ ResyncObeyed
  <2>1. LoseSocket /\ resyncAsked' \in BOOLEAN
    BY <1>1, <1>12 DEF SocketEnds, ResyncObeyed, LinkTyped
  <2>2. outbox' \in Seq(Sent) /\ UNCHANGED <<snapshotSeq, missing, queue>> /\ NewSocket
    BY <2>1, MarksMade DEF LoseSocket
  <2>3. LinkTyped'
    BY <1>1, <1>14, <2>1, <2>2 DEF LoseSocket, LinkTyped
  <2> QED  BY <1>14, <1>15, <2>2, <2>3
<1>13. CASE Stop
  <2>1. outbox' = outbox /\ UNCHANGED <<snapshotSeq, missing, queue>> /\ NewSocket
    BY <1>13 DEF Stop
  <2>2. LinkTyped'
    BY <1>1, <1>13, <1>14, <2>1 DEF Stop, LinkTyped, askVars
  <2> QED  BY <1>14, <1>15, <2>1, <2>2
<1> QED
  BY <1>4, <1>5, <1>6, <1>7, <1>8, <1>9, <1>10, <1>11, <1>12, <1>13 DEF Worker

(* Who leaves what alone.                                                  *)
LEMMA WorkerLeaves ==
    ASSUME Worker
    PROVE  UNCHANGED storeVars /\ UNCHANGED ghostVars /\ UNCHANGED <<market, fine>>
<1>1. Connect \/ ConnectFails \/ SubscribeFails \/ RecorderFails \/ Take \/ Send
        \/ TimePasses \/ Flush \/ LoseSocket \/ Stop
  BY DEF Worker, ReadBooks, ReadChange, ReadGarbled, SocketEnds, ResyncObeyed
<1>2. Worker => (ReadBooks \/ ReadChange \/ ReadGarbled => UNCHANGED storeVars)
  BY DEF Take, ReadBooks, ReadChange, ReadGarbled
<1> QED
  BY <1>1, <1>2 DEF Connect, ConnectFails, SubscribeFails, RecorderFails, Take, Send,
     TimePasses, Flush, LoseSocket, Stop

LEMMA VenueLeaves ==
    ASSUME VenueActs
    PROVE  /\ UNCHANGED storeVars /\ UNCHANGED ghostVars /\ UNCHANGED workerVars /\ UNCHANGED askVars
           /\ UNCHANGED <<queue, missing, flushIn, slept, silence, refused>>
<1>1. VenueOpens \/ GoesMute \/ (\E c \in Contract : VenueRestates(c) \/ VenueQuotesFine(c))
        \/ (\E c, q, size : VenueTrades(c, q, size))
  BY DEF VenueActs
<1> QED
  BY <1>1 DEF VenueOpens, GoesMute, VenueRestates, VenueQuotesFine, VenueTrades, socketVars

LEMMA TypedStep ==
    ASSUME Typed, Next \/ UNCHANGED vars
    PROVE  Typed'
<1>1. StoreTyped /\ MarketTyped /\ LinkTyped /\ ClockTyped /\ ReadTyped /\ QueueTyped
  BY TypedParts
<1>2. ASSUME UNCHANGED storeVars, UNCHANGED ghostVars
      PROVE  StoreTyped'
  BY <1>1, <1>2 DEF StoreTyped, StoreTypeOK, storeVars, ghostVars
<1>3. CASE Worker
  <2>1. StoreTyped'
    BY <1>2, <1>3, WorkerLeaves
  <2>2. ReadTyped' /\ LinkTyped' /\ ClockTyped' /\ QueueTyped' /\ wire' \in Seq(Frames)
    BY <1>3, WorkerTypes DEF QueueTyped
  <2>3. MarketTyped'
    BY <1>1, <1>3, <2>2, WorkerLeaves DEF MarketTyped
  <2> QED  BY <2>1, <2>2, <2>3, TypedParts
<1>4. CASE VenueActs
  <2>1. StoreTyped'
    BY <1>2, <1>4, VenueLeaves
  <2>2. MarketTyped' /\ toBook' \in BOOLEAN /\ mute' \in BOOLEAN
    BY <1>4, VenueTypes
  <2>3. LinkTyped' /\ ClockTyped' /\ ReadTyped' /\ QueueTyped'
    BY <1>1, <1>4, <2>2, VenueLeaves
       DEF LinkTyped, ClockTyped, ReadTyped, QueueTyped, workerVars, askVars
  <2> QED  BY <2>1, <2>2, <2>3, TypedParts
<1>5. CASE Consume
  <2>1. StoreTyped' /\ QueueTyped'
    BY <1>5, ConsumeTypes DEF QueueTyped
  <2>2. MarketTyped' /\ LinkTyped' /\ ClockTyped' /\ ReadTyped'
    BY <1>1, <1>5 DEF Consume, MarketTyped, LinkTyped, ClockTyped, ReadTyped,
       socketVars, workerVars, askVars
  <2> QED  BY <2>1, <2>2, TypedParts
<1>6. CASE AskResync \/ AskToStop
  <2>1. StoreTyped'
    BY <1>2, <1>6 DEF AskResync, AskToStop
  <2>2. MarketTyped' /\ LinkTyped' /\ ClockTyped' /\ ReadTyped' /\ QueueTyped'
    BY <1>1, <1>6 DEF AskResync, AskToStop, MarketTyped, LinkTyped, ClockTyped, ReadTyped,
       QueueTyped, socketVars, workerVars, ghostVars
  <2> QED  BY <2>1, <2>2, TypedParts
<1>7. CASE UNCHANGED vars
  <2>1. StoreTyped'
    BY <1>2, <1>7 DEF vars, polyVars
  <2>2. MarketTyped' /\ LinkTyped' /\ ClockTyped' /\ ReadTyped' /\ QueueTyped'
    BY <1>1, <1>7 DEF vars, polyVars, MarketTyped, LinkTyped, ClockTyped, ReadTyped, QueueTyped,
       socketVars, workerVars, askVars, ghostVars
  <2> QED  BY <2>1, <2>2, TypedParts
<1> QED  BY <1>3, <1>4, <1>5, <1>6, <1>7 DEF Next

-----------------------------------------------------------------------------
(* What reading a frame adds to the line, contract by contract.            *)
Heard(Q, P, f, c, less, miss) ==
    Stepwise(Q, c) /\ Kept(Q, c, less) /\ TakesOver(Q, P, f, c, less, miss)

(* A change becomes a level.                                               *)
LEMMA LevelSpoken ==
    ASSUME NEW P, NEW Q, NEW W, NEW c, NEW miss, NEW q \in Quote, NEW b,
           Extends(Q, P), \A i \in Added(Q, P) : i = Len(P) + 1, Len(P) + 1 \in Added(Q, P),
           Q[Len(P) + 1] = LevelSetOf(c, q, b, miss \ {q}),
           Coherent(P, W, c, miss), 1 \in DOMAIN W, IsChange(W[1], c), W[1].quote = q, W[1].truth = b
    PROVE  Heard(Q, P, W[1], c, miss \ {q}, miss)
<1> DEFINE e == LevelSetOf(c, q, b, miss \ {q})
<1>1. /\ e.kind = "level" /\ e.contract = c /\ e.quote = q /\ e.truth = b /\ e.missing = miss \ {q}
      /\ Q[Len(P) + 1] = e
  BY DEF LevelSetOf
<1> HIDE DEF e
<1>2. Len(P) \in Nat /\ DOMAIN P = 1 .. Len(P) /\ DOMAIN Q = 1 .. Len(Q)
      /\ \A p \in 1 .. Len(P) : Q[p] = P[p]
  BY DEF Extends
<1>3. Agrees(P, W, c, miss, 1, b)
  BY DEF Coherent, Carried
<1>4. ASSUME NEW x \in Quote, x # q
      PROVE  Unnamed(W, 1, 1, c, x)
  BY <1>4 DEF Unnamed, Names
<1>5. ASSUME NEW p \in 1 .. Len(P), Last(P, c, p)
      PROVE  Follows(P[p], e, c)
  <2>1. MissIn(P[p], c) \subseteq miss
    BY <1>2, <1>5 DEF Coherent, Kept
  <2>2. ASSUME NEW x \in Quote, x \notin e.missing, x # e.quote
        PROVE  x \notin MissIn(P[p], c) /\ BookIn(P[p], c)[x] = e.truth[x]
    <3>1. x \notin miss /\ Unnamed(W, 1, 1, c, x)
      BY <1>1, <1>4, <2>2
    <3> QED  BY <1>1, <1>2, <1>3, <1>5, <2>1, <3>1 DEF Agrees
  <2> QED  BY <2>2 DEF Follows
<1>6. Stepwise(Q, c)
  <2>1. ASSUME NEW i \in Added(Q, P), NEW p \in 1 .. i - 1, Reaches(Q, c, p, i)
        PROVE  Follows(Q[p], Q[i], c)
    <3>1. i = Len(P) + 1 /\ p \in 1 .. Len(P) /\ i \in 1 .. Len(P) + 1
      BY <1>2
    <3>2. Last(P, c, p)
      BY <2>1, <3>1, SamePast DEF Last
    <3> QED  BY <1>1, <1>2, <1>5, <3>1, <3>2
  <2> QED  BY <2>1, StepwiseExtends DEF Coherent
<1>7. ASSUME NEW p \in DOMAIN Q, Last(Q, c, p)
      PROVE  Q[p] = e
  <2>1. EventOf(Q[Len(P) + 1], c)
    BY <1>1 DEF EventOf
  <2>2. p \in Added(Q, P)
    BY <1>7, <2>1, LastIsNew
  <2> QED  BY <1>1, <2>2
<1>8. MissIn(e, c) = miss \ {q} /\ BookIn(e, c) = b
  BY <1>1 DEF MissIn, BookIn
<1>9. Kept(Q, c, miss \ {q})
  BY <1>7, <1>8 DEF Kept
<1>10. Shows(W[1], c) /\ Sight(W[1], c) = b
  BY DEF Shows, Sight, IsChange
<1>11. TakesOver(Q, P, W[1], c, miss \ {q}, miss)
  BY <1>7, <1>8, <1>10 DEF TakesOver
<1> QED  BY <1>6, <1>9, <1>11 DEF Heard

(* Of other contracts nothing is said.                                     *)
LEMMA NotSpokenOf ==
    ASSUME NEW P, NEW Q, NEW W, NEW f, NEW c, NEW miss, Extends(Q, P),
           \A i \in Added(Q, P) : Passes(Q[i], c) /\ ~Tells(Q[i], c),
           Coherent(P, W, c, miss), \A x \in Quote : ~Names(f, c, x)
    PROVE  Heard(Q, P, f, c, miss, miss)
<1>1. Stepwise(Q, c) /\ \A p \in DOMAIN Q : Last(Q, c, p) => p \in DOMAIN P /\ Q[p] = P[p] /\ Last(P, c, p)
  BY PassedBy DEF Coherent
<1>2. Kept(Q, c, miss)
  BY <1>1 DEF Coherent, Kept
<1>3. TakesOver(Q, P, f, c, miss, miss)
  BY <1>1 DEF TakesOver
<1> QED  BY <1>1, <1>2, <1>3 DEF Heard

(* A page becomes a snapshot of each contract it has.                      *)
LEMMA PageSpoken ==
    ASSUME NEW P, NEW Q, NEW f, NEW c, NEW miss, Extends(Q, P), Stepwise(P, c), Shows(f, c),
           \A i \in Added(Q, P) : /\ Q[i].kind = "snapshot" /\ Q[i].missing = {}
                                  /\ Q[i].contract = c => Q[i].truth = Sight(f, c),
           NEW k \in Added(Q, P), Q[k].contract = c
    PROVE  Heard(Q, P, f, c, {}, miss)
<1>1. \A i \in Added(Q, P) : ~IsLevel(Q[i], c)
  BY DEF IsLevel
<1>2. Stepwise(Q, c)
  BY <1>1, StepwiseExtends
<1>3. ASSUME NEW p \in DOMAIN Q, Last(Q, c, p)
      PROVE  MissIn(Q[p], c) = {} /\ BookIn(Q[p], c) = Sight(f, c)
  <2>1. EventOf(Q[k], c)
    BY DEF EventOf
  <2>2. p \in Added(Q, P)
    BY <1>3, <2>1, LastIsNew
  <2>3. Q[p].kind = "snapshot" /\ Q[p].contract = c
    BY <1>3, <2>2 DEF Last, Reaches, Tells, EventOf
  <2> QED  BY <2>2, <2>3 DEF MissIn, BookIn
<1>4. Kept(Q, c, {}) /\ TakesOver(Q, P, f, c, {}, miss)
  BY <1>3 DEF Kept, TakesOver
<1> QED  BY <1>2, <1>4 DEF Heard

(* A frame that could not be read adds nothing, and what it names is       *)
(* missing.                                                                *)
LEMMA NothingHeard ==
    ASSUME NEW P, NEW W, NEW f, NEW c, NEW miss, NEW less, Coherent(P, W, c, miss),
           miss \subseteq less, \A x \in Quote : Names(f, c, x) => x \in less
    PROVE  Heard(P, P, f, c, less, miss)
<1>1. Stepwise(P, c) /\ Kept(P, c, less)
  BY DEF Coherent, Kept
<1>2. TakesOver(P, P, f, c, less, miss)
  BY DEF TakesOver
<1> QED  BY <1>1, <1>2 DEF Heard

LEMMA FrameHeard ==
    ASSUME NEW P, NEW Q, NEW V, NEW W, Shorter(V, W), NEW c, NEW miss, NEW less,
           Heard(Q, P, W[1], c, less, miss), Coherent(P, W, c, miss)
    PROVE  /\ Coherent(Q, V, c, less)
           /\ \A book : Current(P, W, c, miss, book) => Current(Q, V, c, less, book)
<1>1. TakesOver(Q, P, W[1], c, less, miss) /\ Carried(P, W, c, miss)
  BY DEF Heard, Coherent
<1>2. /\ Carried(Q, V, c, less)
      /\ \A book : Current(P, W, c, miss, book) => Current(Q, V, c, less, book)
  BY <1>1, FrameTaken
<1> QED  BY <1>2 DEF Heard, Coherent

-----------------------------------------------------------------------------
(* The invariant.                                                          *)
Held   == [kind |-> "store", live |-> LiveBooks, truth |-> asOf, missing |-> missed]
Before == Line(Held, queue, outbox)

Connected == link = "open" /\ ~toBook /\ ~mute
Unbooked  == link = "connecting" \/ (link = "open" /\ toBook)
GivenUp   == link = "dead" /\ "record" \notin faults

(* The line and the wire are coherent; while the connection carries        *)
(* anything, together they tell the market as it is; and nothing is left   *)
(* of a connection that was lost.                                          *)
InLine(c) ==
    /\ Coherent(Before, wire, c, missing[c])
    /\ Connected => Current(Before, wire, c, missing[c], market[c])
    /\ Unbooked \/ GivenUp => Severed(Before, c)

Linked == (toBook => link = "open") /\ (Unbooked => wire = <<>>)

PolyInv == Typed /\ Linked /\ (\A c \in Contract : InLine(c)) /\ LiveMirrorsMarket

LEMMA PolyInvInit == Init => PolyInv
<1> SUFFICES ASSUME Init
             PROVE  PolyInv
  OBVIOUS
<1>1. Typed
  BY TypedInit
<1>2. /\ LiveBooks = {} /\ queue = <<>> /\ outbox = <<>> /\ wire = <<>>
      /\ link = "connecting" /\ toBook = FALSE
  BY DEF Init, StoreInit, LiveBooks
<1>3. Linked /\ LiveMirrorsMarket
  BY <1>2 DEF Linked, LiveMirrorsMarket
<1>4. Shaped(Before, Held, <<>>, <<>>)
  <2>1. queue \in Seq(Sent) /\ outbox \in Seq(Sent)
    BY <1>1 DEF Typed
  <2>2. Shaped(Line(Held, queue, outbox), Held, queue, outbox)
    BY <2>1, LineShape
  <2> QED  BY <1>2, <2>2 DEF Before
<1>5. DOMAIN Before = 1 .. 1 /\ Before[1] = Held
  <2> DEFINE none == <<>>
  <2>1. Len(none) = 0
    OBVIOUS
  <2> HIDE DEF none
  <2>2. Shaped(Before, Held, none, none)
    BY <1>4 DEF none
  <2> QED  BY <2>1, <2>2 DEF Shaped
<1>6. ASSUME NEW c \in Contract
      PROVE  InLine(c)
  <2>1. \A p \in DOMAIN Before : p = 1 /\ ~Tells(Before[p], c)
    BY <1>2, <1>5 DEF Held, Tells, EventOf
  <2>2. Severed(Before, c) /\ Stepwise(Before, c)
    BY <2>1 DEF Severed, Last, Reaches, Stepwise
  <2>3. Kept(Before, c, missing[c]) /\ Carried(Before, wire, c, missing[c])
    BY <1>2, <2>2, SeveredIsKept, EmptyWire
  <2> QED  BY <1>2, <2>2, <2>3 DEF InLine, Coherent, Connected
<1> QED  BY <1>1, <1>3, <1>6 DEF PolyInv

(* What a step does not touch.                                             *)
LEMMA HeldStays ==
    ASSUME UNCHANGED storeVars, UNCHANGED ghostVars
    PROVE  /\ Held' = Held
           /\ LiveMirrorsMarket => LiveMirrorsMarket'
<1>1. LiveBooks' = LiveBooks
  BY DEF LiveBooks, storeVars
<1>2. Held' = Held
  BY <1>1 DEF Held, ghostVars
<1>3. LiveMirrorsMarket => LiveMirrorsMarket'
  BY <1>1 DEF LiveMirrorsMarket, Shown, storeVars, ghostVars
<1> QED  BY <1>2, <1>3

LEMMA LineStays ==
    ASSUME PolyInv, Before' = Before, UNCHANGED <<wire, missing, market>>,
           Connected' => Connected, Unbooked' => Unbooked, GivenUp' => Unbooked \/ GivenUp,
           toBook' => link' = "open"
    PROVE  Linked' /\ \A c \in Contract : InLine(c)'
<1>1. Linked'
  BY DEF PolyInv, Linked
<1>2. ASSUME NEW c \in Contract
      PROVE  InLine(c)'
  BY DEF PolyInv, InLine
<1> QED  BY <1>1, <1>2

(* The worker or the clock does something else.                            *)
LEMMA OtherStep ==
    ASSUME PolyInv, UNCHANGED storeVars, UNCHANGED ghostVars,
           UNCHANGED <<wire, missing, market, queue, outbox>>,
           Connected' => Connected, Unbooked' => Unbooked, GivenUp' => Unbooked \/ GivenUp,
           toBook' => link' = "open"
    PROVE  Linked' /\ \A c \in Contract : InLine(c)'
<1>1. Before' = Before
  BY HeldStays DEF Before
<1> QED  BY <1>1, LineStays

LEMMA SendStep ==
    ASSUME PolyInv, Send
    PROVE  Linked' /\ \A c \in Contract : InLine(c)'
<1>1. Held' = Held
  BY HeldStays DEF Send
<1>2. queue \in Seq(Sent) /\ outbox \in Seq(Sent) /\ outbox # <<>>
  BY DEF PolyInv, Typed, Send
<1>3. Line(Held, Append(queue, Head(outbox)), Tail(outbox)) = Line(Held, queue, outbox)
  BY <1>2, SendKeeps
<1>4. Before' = Before
  BY <1>1, <1>3 DEF Before, Send
<1>5. UNCHANGED <<wire, missing, market, link, toBook, mute, faults>>
  BY DEF Send, socketVars
<1>6. /\ Connected' => Connected
      /\ Unbooked' => Unbooked
      /\ GivenUp' => GivenUp
      /\ toBook' => link' = "open"
  BY <1>5 DEF Connected, Unbooked, GivenUp, PolyInv, Linked
<1> QED  BY <1>4, <1>5, <1>6, LineStays

LEMMA IdleStep ==
    ASSUME PolyInv,
           \/ SubscribeFails \/ RecorderFails \/ TimePasses \/ Flush \/ AskResync \/ AskToStop
           \/ GoesMute \/ (\E c \in Contract : VenueQuotesFine(c)) \/ UNCHANGED vars
    PROVE  Linked' /\ \A c \in Contract : InLine(c)'
<1> USE DEF Connected, Unbooked, GivenUp
<1>0. toBook => link = "open"
  BY DEF PolyInv, Linked
<1>1. CASE SubscribeFails
  <2>1. /\ UNCHANGED storeVars /\ UNCHANGED ghostVars
        /\ UNCHANGED <<wire, missing, market, queue, outbox, toBook, mute>>
        /\ link = "connecting" /\ link' = "dead"
    BY <1>1 DEF SubscribeFails, socketVars
  <2> QED  BY <1>0, <2>1, OtherStep
<1>2. CASE RecorderFails
  <2>1. /\ UNCHANGED storeVars /\ UNCHANGED ghostVars
        /\ UNCHANGED <<wire, missing, market, queue, outbox, toBook, mute>>
        /\ link = "open" /\ wire # <<>> /\ link' = "dead" /\ "record" \in faults'
    BY <1>2 DEF RecorderFails, socketVars, Strike
  <2>2. ~toBook'
    BY <2>1 DEF PolyInv, Linked
  <2> QED  BY <1>0, <2>1, <2>2, OtherStep
<1>3. CASE TimePasses \/ Flush
  <2>1. /\ UNCHANGED storeVars /\ UNCHANGED ghostVars
        /\ UNCHANGED <<wire, missing, market, queue, outbox, toBook, mute, link, faults>>
    BY <1>3 DEF TimePasses, Flush, workerVars
  <2> QED  BY <1>0, <2>1, OtherStep
<1>4. CASE AskResync \/ AskToStop
  <2>1. /\ UNCHANGED storeVars /\ UNCHANGED ghostVars
        /\ UNCHANGED <<wire, missing, market, queue, outbox, toBook, mute, link>>
        /\ faults \subseteq faults'
    BY <1>4 DEF AskResync, AskToStop, workerVars, socketVars, Strike
  <2> QED  BY <1>0, <2>1, OtherStep
<1>5. CASE GoesMute
  <2>1. /\ UNCHANGED storeVars /\ UNCHANGED ghostVars
        /\ UNCHANGED <<wire, missing, market, queue, outbox, toBook, link>>
        /\ link = "open" /\ mute' = TRUE
    BY <1>5 DEF GoesMute, workerVars
  <2> QED  BY <1>0, <2>1, OtherStep
<1>6. ASSUME NEW c \in Contract, VenueQuotesFine(c)
      PROVE  Linked' /\ \A d \in Contract : InLine(d)'
  <2>1. /\ UNCHANGED storeVars /\ UNCHANGED ghostVars
        /\ UNCHANGED <<wire, missing, market, queue, outbox, toBook, mute, link>>
        /\ faults \subseteq faults'
    BY <1>6 DEF VenueQuotesFine, workerVars, socketVars, Strike
  <2> QED  BY <1>0, <2>1, OtherStep
<1>7. CASE UNCHANGED vars
  <2>1. /\ UNCHANGED storeVars /\ UNCHANGED ghostVars
        /\ UNCHANGED <<wire, missing, market, queue, outbox, toBook, mute, link, faults>>
    BY <1>7 DEF vars, polyVars, workerVars, socketVars
  <2> QED  BY <1>0, <2>1, OtherStep
<1> QED  BY <1>1, <1>2, <1>3, <1>4, <1>5, <1>6, <1>7

(* The venue sends a frame down a connection that tells the market.        *)
LEMMA FrameSentStep ==
    ASSUME PolyInv, UNCHANGED storeVars, UNCHANGED ghostVars,
           UNCHANGED <<missing, queue, outbox>>,
           NEW f \in Frames, wire' = Append(wire, f), link' = "open", ~toBook',
           NEW c \in Contract, Current(Before, wire, c, missing[c], market[c]),
           Shows(f, c) => Sight(f, c) = market'[c], IsChange(f, c) => f.truth = market'[c],
           \A x \in Quote : ~Names(f, c, x) => market'[c][x] = market[c][x]
    PROVE  InLine(c)'
<1>1. Before' = Before
  BY HeldStays DEF Before
<1>2. Longer(wire', wire, f)
  BY WireGrows DEF PolyInv, Typed
<1>3. Coherent(Before, wire, c, missing[c])
  BY DEF PolyInv, InLine
<1> DEFINE more == wire'
           now  == market'[c]
           then == market[c]
           miss == missing[c]
           P    == Before
<1> HIDE DEF more, now, then, miss, P
<1>4. Coherent(P, wire, c, miss) /\ Current(P, wire, c, miss, then)
  BY <1>3 DEF P, miss, then
<1>5. /\ Shows(f, c) => Sight(f, c) = now
      /\ IsChange(f, c) => f.truth = now
      /\ \A x \in Quote : ~Names(f, c, x) => now[x] = then[x]
  BY DEF now, then
<1>6. Longer(more, wire, f)
  BY <1>2 DEF more
<1>7. Coherent(P, more, c, miss) /\ Current(P, more, c, miss, now)
  BY <1>4, <1>5, <1>6, FrameSent
<1>8. Coherent(Before, wire, c, missing[c])' /\ Current(Before, wire, c, missing[c], market[c])'
  BY <1>1, <1>7 DEF P, more, now, miss
<1>9. ~Unbooked' /\ ~GivenUp'
  BY DEF Unbooked, GivenUp
<1> QED  BY <1>8, <1>9 DEF InLine

LEMMA LinkedOpen == link' = "open" /\ ~toBook' => Linked'
BY DEF Linked, Unbooked

LEMMA PageSays ==
    ASSUME NEW cs, NEW broken, NEW c \in Contract
    PROVE  /\ Sight(BooksOf(cs, broken), c) = market[c] /\ ~IsChange(BooksOf(cs, broken), c)
           /\ \A x : ~Names(BooksOf(cs, broken), c, x)
BY DEF BooksOf, Sight, IsChange, Names

LEMMA OpensStep ==
    ASSUME PolyInv, VenueOpens
    PROVE  Linked' /\ \A c \in Contract : InLine(c)'
<1>1. /\ link = "open" /\ toBook /\ toBook' = FALSE
      /\ UNCHANGED storeVars /\ UNCHANGED ghostVars
      /\ UNCHANGED <<missing, queue, outbox, link, market>>
  BY DEF VenueOpens, workerVars
<1>2. wire = <<>> /\ Unbooked
  BY <1>1 DEF PolyInv, Linked, Unbooked
<1>5. PICK broken \in SUBSET Contract : wire' = Append(wire, BooksOf(Tokens, broken))
  BY DEF VenueOpens
<1>3. BooksOf(Tokens, broken) \in Frames
  BY FramesMade, TokensAssumption DEF PolyInv, Typed, TypeOK, Book
<1>4. ASSUME NEW c \in Contract
      PROVE  InLine(c)'
  <2>1. Current(Before, wire, c, missing[c], market[c])
    BY <1>2, EmptyWire DEF PolyInv, InLine
  <2> QED  BY <1>1, <1>3, <1>5, <2>1, PageSays, FrameSentStep
<1> QED  BY <1>1, <1>4, LinkedOpen

LEMMA RestatesStep ==
    ASSUME PolyInv, NEW d \in Contract, VenueRestates(d)
    PROVE  Linked' /\ \A c \in Contract : InLine(c)'
<1>1. /\ Connected /\ link = "open" /\ ~toBook'
      /\ UNCHANGED storeVars /\ UNCHANGED ghostVars
      /\ UNCHANGED <<missing, queue, outbox, link, market>>
  BY DEF VenueRestates, Connected, workerVars
<1>2. <<d>> \in Seq(Contract)
  OBVIOUS
<1>5. PICK broken \in SUBSET Contract : wire' = Append(wire, BooksOf(<<d>>, broken))
  BY DEF VenueRestates, Transmits
<1>3. BooksOf(<<d>>, broken) \in Frames
  BY <1>2, FramesMade DEF PolyInv, Typed, TypeOK, Book
<1>4. ASSUME NEW c \in Contract
      PROVE  InLine(c)'
  <2>1. Current(Before, wire, c, missing[c], market[c])
    BY <1>1 DEF PolyInv, InLine
  <2> QED  BY <1>1, <1>3, <1>5, <2>1, PageSays, FrameSentStep
<1> QED  BY <1>1, <1>4, LinkedOpen

(* A quote changes, and the frame that says so names it.                   *)
LEMMA TradesStep ==
    ASSUME PolyInv, NEW d \in Contract, NEW q \in Quote, NEW size \in 0 .. MaxSize, VenueTrades(d, q, size)
    PROVE  Linked' /\ \A c \in Contract : InLine(c)'
<1> DEFINE after == [market[d] EXCEPT ![q] = size]
<1>1. /\ market' = [market EXCEPT ![d] = after]
      /\ Transmits(ChangeOf(d, q, after)) \/ Transmits(Garbled(d, q))
      /\ UNCHANGED storeVars /\ UNCHANGED ghostVars
      /\ UNCHANGED <<missing, queue, outbox, link, toBook, mute>> /\ faults \subseteq faults'
  BY DEF VenueTrades, Strike, workerVars
<1>2. market \in [Contract -> Book]
  BY DEF PolyInv, Typed, TypeOK, Book
<1>3. after \in Book /\ \A x \in Quote : x # q => after[x] = market[d][x]
  BY <1>2 DEF Book
<1> HIDE DEF after
<1>4. CASE Connected
  <2>1. PICK f \in {ChangeOf(d, q, after), Garbled(d, q)} : wire' = Append(wire, f)
    BY <1>1, <1>4 DEF Transmits, Connected
  <2>2. f \in Frames
    BY <1>2, <1>3, <2>1, FramesMade DEF PolyInv, Typed, TypeOK
  <2>3. link' = "open" /\ ~toBook'
    BY <1>1, <1>4 DEF Connected
  <2>4. ASSUME NEW c \in Contract
        PROVE  InLine(c)'
    <3>1. Current(Before, wire, c, missing[c], market[c])
      BY <1>4 DEF PolyInv, InLine
    <3>2. f.contract = d /\ f.quote = q /\ f.kind \in {"change", "garbled"} /\ f.kind # "books"
          /\ (f.kind = "change" => f.truth = after)
      BY <2>1 DEF ChangeOf, Garbled
    <3>3. /\ c = d => market'[c] = after
          /\ c # d => market'[c] = market[c]
      BY <1>1, <1>2
    <3>4. /\ Shows(f, c) => Sight(f, c) = market'[c]
          /\ IsChange(f, c) => f.truth = market'[c]
      BY <3>2, <3>3 DEF Shows, Sight, IsChange
    <3>5. \A x \in Quote : ~Names(f, c, x) => market'[c][x] = market[c][x]
      BY <1>3, <3>2, <3>3 DEF Names
    <3> QED  BY <1>1, <2>1, <2>2, <2>3, <3>1, <3>4, <3>5, FrameSentStep
  <2> QED  BY <2>3, <2>4, LinkedOpen
<1>5. CASE ~Connected
  <2>1. wire' = wire
    BY <1>1, <1>5 DEF Transmits, Connected
  <2>2. Before' = Before
    BY <1>1, HeldStays DEF Before
  <2>3. ~Connected' /\ (Unbooked' => Unbooked) /\ (GivenUp' => GivenUp)
    BY <1>1, <1>5 DEF Connected, Unbooked, GivenUp
  <2>4. ASSUME NEW c \in Contract
        PROVE  InLine(c)'
    BY <1>1, <2>1, <2>2, <2>3 DEF PolyInv, InLine
  <2>5. Linked'
    BY <1>1, <2>1, <2>3 DEF PolyInv, Linked
  <2> QED  BY <2>4, <2>5
<1> QED  BY <1>4, <1>5

-----------------------------------------------------------------------------
(* A connection is made, lost, or given up: nothing is on the wire, and    *)
(* only boundaries are put in line.                                        *)
LEMMA LinkStep ==
    ASSUME PolyInv, UNCHANGED storeVars, UNCHANGED ghostVars, UNCHANGED <<missing, queue>>,
           outbox = <<>>, outbox' \in Seq(Sent), wire' = <<>>,
           \A i \in 1 .. Len(outbox') : Boundary(outbox'[i]),
           Unbooked \/ outbox' # <<>>, ~Connected', toBook' => link' = "open"
    PROVE  Linked' /\ \A c \in Contract : InLine(c)'
<1> DEFINE out == outbox'
           Q   == Line(Held, queue, out)
           P   == Line(Held, queue, <<>>)
<1>1. Before' = Q /\ Before = P
  BY HeldStays DEF Before
<1>2. out \in Seq(Sent) /\ queue \in Seq(Sent) /\ Len(out) \in Nat
      /\ (out # <<>> => 1 \in 1 .. Len(out))
  BY DEF PolyInv, Typed
<1>3. \A i \in 1 .. Len(out) : Boundary(out[i])
  OBVIOUS
<1>4. Unbooked \/ out # <<>>
  OBVIOUS
<1> HIDE DEF out
<1>5. /\ Extends(Q, P)
      /\ \A i \in Added(Q, P) : \E j \in 1 .. Len(out) : Q[i] = out[j]
      /\ \A j \in 1 .. Len(out) : 1 + Len(queue) + j \in Added(Q, P)
  <2>1. Prolongs(Q, P, 1 + Len(queue), out)
    BY <1>2, LineGrows
  <2> HIDE DEF Q, P
  <2> QED  BY <2>1 DEF Prolongs
<1> HIDE DEF Q, P
<1>6. \A i \in Added(Q, P) : Boundary(Q[i])
  BY <1>3, <1>5
<1>7. ASSUME NEW c \in Contract
      PROVE  InLine(c)'
  <2>1. Stepwise(P, c)
    BY <1>1 DEF PolyInv, InLine, Coherent
  <2>2. Severed(P, c) \/ Added(Q, P) # {}
    BY <1>1, <1>2, <1>4, <1>5 DEF PolyInv, InLine
  <2>3. Stepwise(Q, c) /\ Severed(Q, c)
    BY <1>5, <1>6, <2>1, <2>2, BoundarySevers
  <2> DEFINE none == wire'
             less == missing'[c]
  <2>4. none = <<>>
    OBVIOUS
  <2> HIDE DEF none, less
  <2>5. Kept(Q, c, less) /\ Carried(Q, none, c, less)
    BY <2>3, <2>4, SeveredIsKept, EmptyWire
  <2>6. Coherent(Before, wire, c, missing[c])' /\ Severed(Before, c)'
    BY <1>1, <2>3, <2>5 DEF Coherent, none, less
  <2> QED  BY <2>6 DEF InLine
<1>8. Linked'
  BY DEF Linked
<1> QED  BY <1>7, <1>8

LEMMA ConnectionSteps ==
    ASSUME PolyInv, Connect \/ ConnectFails \/ LoseSocket
    PROVE  Linked' /\ \A c \in Contract : InLine(c)'
<1>1. Boundary(Disconnected) /\ Len(<<Disconnected>>) = 1 /\ <<Disconnected>> # <<>>
      /\ <<Disconnected>>[1] = Disconnected
  BY DEF Boundary, Disconnected
<1>2. Len(<<>>) = 0 /\ <<>> \in Seq(Sent)
  OBVIOUS
<1>3. /\ \A i \in 1 .. Len(<<>>) : Boundary(<<>>[i])
      /\ \A i \in 1 .. Len(<<Disconnected>>) : Boundary(<<Disconnected>>[i])
      /\ \A i \in 1 .. Len(Announcements) : Boundary(Announcements[i])
  BY <1>1, <1>2, MarksMade
<1>4. toBook => link = "open"
  BY DEF PolyInv, Linked
<1>5. CASE Connect
  <2>1. /\ UNCHANGED storeVars /\ UNCHANGED ghostVars /\ UNCHANGED <<missing, queue>>
        /\ outbox = <<>> /\ outbox' \in {Announcements, <<>>} /\ wire' = <<>>
        /\ Unbooked /\ ~Connected' /\ link' = "open"
    BY <1>5 DEF Connect, Idle, NewSocket, Unbooked, Connected
  <2>2. outbox' \in Seq(Sent) /\ \A i \in 1 .. Len(outbox') : Boundary(outbox'[i])
    BY <1>2, <1>3, <2>1, MarksMade
  <2> QED  BY <2>1, <2>2, LinkStep
<1>6. CASE ConnectFails
  <2>1. /\ UNCHANGED storeVars /\ UNCHANGED ghostVars /\ UNCHANGED <<missing, queue>>
        /\ outbox = <<>> /\ outbox' \in {<<Disconnected>>, <<>>} /\ wire' = wire
        /\ Unbooked /\ ~Connected' /\ UNCHANGED <<link, toBook>>
    BY <1>6 DEF ConnectFails, Idle, socketVars, Unbooked, Connected
  <2>2. outbox' \in Seq(Sent) /\ \A i \in 1 .. Len(outbox') : Boundary(outbox'[i])
    BY <1>2, <1>3, <2>1, MarksMade
  <2>3. wire' = <<>>
    BY <2>1 DEF PolyInv, Linked
  <2> QED  BY <1>4, <2>1, <2>2, <2>3, LinkStep
<1>7. CASE LoseSocket
  <2>1. /\ UNCHANGED storeVars /\ UNCHANGED ghostVars /\ UNCHANGED <<missing, queue>>
        /\ outbox = <<>> /\ outbox' = <<Disconnected>> /\ wire' = <<>>
        /\ ~Connected' /\ toBook' = FALSE
    BY <1>7 DEF LoseSocket, Idle, NewSocket, Connected
  <2>2. outbox' \in Seq(Sent) /\ \A i \in 1 .. Len(outbox') : Boundary(outbox'[i])
    BY <1>3, <2>1, MarksMade
  <2> QED  BY <1>1, <2>1, <2>2, LinkStep
<1> QED  BY <1>5, <1>6, <1>7

(* The worker stops: what is in line stays there, and the wire is gone.    *)
LEMMA StopStep ==
    ASSUME PolyInv, Stop
    PROVE  Linked' /\ \A c \in Contract : InLine(c)'
<1>1. /\ UNCHANGED storeVars /\ UNCHANGED ghostVars /\ UNCHANGED <<missing, queue, outbox>>
      /\ wire' = <<>> /\ link' = "stopped" /\ toBook' = FALSE
  BY DEF Stop, NewSocket
<1>2. Before' = Before
  BY <1>1, HeldStays DEF Before
<1>3. ~Connected' /\ ~Unbooked' /\ ~GivenUp'
  BY <1>1 DEF Connected, Unbooked, GivenUp
<1>4. ASSUME NEW c \in Contract
      PROVE  InLine(c)'
  <2> DEFINE none == wire'
             miss == missing[c]
             P    == Before
  <2>1. none = <<>>
    BY <1>1
  <2> HIDE DEF none, miss, P
  <2>2. Carried(P, none, c, miss)
    BY <2>1, EmptyWire
  <2>3. Stepwise(P, c) /\ Kept(P, c, miss)
    BY DEF PolyInv, InLine, Coherent, P, miss
  <2>4. Coherent(Before, wire, c, missing[c])'
    BY <1>1, <1>2, <2>2, <2>3 DEF Coherent, none, miss, P
  <2> QED  BY <1>3, <2>4 DEF InLine
<1>5. Linked'
  BY <1>1, <1>3 DEF Linked
<1> QED  BY <1>4, <1>5

-----------------------------------------------------------------------------
(* The worker reads a frame.                                               *)
LEMMA TakeLine ==
    ASSUME PolyInv, Take, outbox' \in Seq(Sent)
    PROVE  /\ Prolongs(Before', Before, 1 + Len(queue), outbox')
           /\ outbox' = <<>> => Before' = Before
           /\ wire[1] = Head(wire) /\ 1 \in DOMAIN wire /\ Shorter(wire', wire)
<1>1. UNCHANGED storeVars /\ UNCHANGED ghostVars /\ queue' = queue /\ outbox = <<>>
      /\ wire # <<>> /\ wire' = Tail(wire)
  BY DEF Take, Idle
<1>2. Held' = Held
  BY <1>1, HeldStays
<1>3. queue \in Seq(Sent) /\ wire \in Seq(Frames)
  BY DEF PolyInv, Typed
<1> DEFINE out == outbox'
<1>4. Before' = Line(Held, queue, out) /\ Before = Line(Held, queue, <<>>)
  BY <1>1, <1>2 DEF Before
<1>5. out = <<>> => Before' = Before
  BY <1>4
<1> HIDE DEF out
<1>6. out \in Seq(Sent)
  BY DEF out
<1>7. Prolongs(Line(Held, queue, out), Line(Held, queue, <<>>), 1 + Len(queue), out)
  BY <1>3, <1>6, LineGrows
<1>8. Prolongs(Before', Before, 1 + Len(queue), out)
  BY <1>4, <1>7
<1>9. 1 \in DOMAIN wire
  BY <1>1, <1>3
<1>10. wire[1] = Head(wire) /\ Shorter(wire', wire)
  BY <1>1, <1>3, WireShrinks
<1> QED  BY <1>5, <1>8, <1>9, <1>10 DEF out

LEMMA ReadStep ==
    ASSUME PolyInv, Take, outbox' \in Seq(Sent),
           \A c \in Contract : Heard(Before', Before, Head(wire), c, missing'[c], missing[c])
    PROVE  Linked' /\ \A c \in Contract : InLine(c)'
<1>1. /\ link = "open" /\ wire # <<>> /\ UNCHANGED <<link, toBook, mute, market>>
  BY DEF Take
<1>2. ~toBook /\ link' = "open" /\ ~toBook' /\ ~Unbooked' /\ ~GivenUp'
  BY <1>1 DEF PolyInv, Linked, Unbooked, GivenUp
<1>3. Connected' => Connected
  BY <1>1 DEF Connected
<1>4. ASSUME NEW c \in Contract
      PROVE  InLine(c)'
  <2> DEFINE less == missing'[c]
             miss == missing[c]
             rest == wire'
             W    == wire
             Q    == Before'
             P    == Before
  <2>1. Shorter(rest, W) /\ W[1] = Head(wire)
    BY TakeLine
  <2>2. Heard(Q, P, Head(wire), c, less, miss)
    OBVIOUS
  <2>3. Coherent(P, W, c, miss)
    BY DEF PolyInv, InLine
  <2>4. Connected => Current(P, W, c, miss, market[c])
    BY DEF PolyInv, InLine
  <2> HIDE DEF less, miss, rest, W, Q, P
  <2>5. Heard(Q, P, W[1], c, less, miss)
    BY <2>1, <2>2
  <2>6. /\ Coherent(Q, rest, c, less)
        /\ \A book : Current(P, W, c, miss, book) => Current(Q, rest, c, less, book)
    BY <2>1, <2>3, <2>5, FrameHeard
  <2>7. Coherent(Before, wire, c, missing[c])'
    BY <2>6 DEF Q, rest, less
  <2>8. Connected' => Current(Q, rest, c, less, market'[c])
    BY <1>1, <1>3, <2>4, <2>6
  <2>9. (Connected => Current(Before, wire, c, missing[c], market[c]))'
    BY <2>8 DEF Q, rest, less
  <2> QED  BY <1>2, <2>7, <2>9 DEF InLine
<1> QED  BY <1>2, <1>4, LinkedOpen

LEMMA ReadChangeStep ==
    ASSUME PolyInv, ReadChange
    PROVE  Linked' /\ \A c \in Contract : InLine(c)'
<1> DEFINE f == Head(wire)
<1>1. Take /\ outbox' \in Seq(Sent)
  BY ReadTypes DEF PolyInv, ReadChange, ReadTyped
<1>2. f.contract \in Contract /\ f.quote \in Quote /\ f.truth \in Book /\ f.kind = "change"
  BY <1>1, ReadTypes, FrameKinds DEF PolyInv, ReadChange
<1>3. /\ missing' = [missing EXCEPT ![f.contract] = @ \ {f.quote}]
      /\ outbox' = <<LevelSetOf(f.contract, f.quote, f.truth, missing'[f.contract])>>
  BY DEF ReadChange
<1>4. /\ Prolongs(Before', Before, 1 + Len(queue), outbox') /\ wire[1] = f /\ 1 \in DOMAIN wire
  BY <1>1, TakeLine
<1>5. missing \in [Contract -> SUBSET Quote]
  BY DEF PolyInv, Typed, TypeOK
<1> DEFINE e == LevelSetOf(f.contract, f.quote, f.truth, missing'[f.contract])
           out == outbox'
           Q == Before'
           P == Before
<1>6. out = <<e>> /\ e.kind = "level" /\ e.contract = f.contract
  BY <1>3 DEF LevelSetOf
<1>7. Prolongs(Q, P, 1 + Len(queue), out)
  BY <1>4
<1>13. e = LevelSetOf(f.contract, f.quote, f.truth, missing[f.contract] \ {f.quote})
  BY <1>2, <1>3, <1>5
<1> HIDE DEF f, e, out, Q, P
<1>8. Len(out) = 1 /\ out[1] = e /\ 1 \in 1 .. Len(out) /\ \A j \in 1 .. Len(out) : j = 1
  BY <1>6
<1>9. /\ Extends(Q, P) /\ \A i \in Added(Q, P) : i = Len(P) + 1
      /\ Len(P) + 1 \in Added(Q, P) /\ Q[Len(P) + 1] = e
  BY <1>7, <1>8 DEF Prolongs
<1>10. ASSUME NEW c \in Contract
       PROVE  Heard(Q, P, f, c, missing'[c], missing[c])
  <2>1. Coherent(P, wire, c, missing[c])
    BY DEF PolyInv, InLine, P
  <2>2. CASE c = f.contract
    <3>1. missing'[c] = missing[c] \ {f.quote}
      BY <1>2, <1>3, <1>5, <2>2
    <3>2. IsChange(wire[1], c)
      BY <1>2, <1>4, <2>2 DEF IsChange, f
    <3> DEFINE miss == missing[c]
    <3>3. Q[Len(P) + 1] = LevelSetOf(c, f.quote, f.truth, miss \ {f.quote})
      BY <1>9, <1>13, <2>2
    <3>4. wire[1] = f /\ wire[1].quote = f.quote /\ wire[1].truth = f.truth
      BY <1>4 DEF f
    <3> HIDE DEF miss
    <3>5. Coherent(P, wire, c, miss)
      BY <2>1 DEF miss
    <3>6. Heard(Q, P, wire[1], c, miss \ {f.quote}, miss)
      BY <1>2, <1>4, <1>9, <3>2, <3>3, <3>4, <3>5, LevelSpoken
    <3> QED  BY <3>1, <3>4, <3>6 DEF miss
  <2>3. CASE c # f.contract
    <3>1. missing'[c] = missing[c]
      BY <1>3, <1>5, <2>3
    <3>2. \A i \in Added(Q, P) : Passes(Q[i], c) /\ ~Tells(Q[i], c)
      BY <1>6, <1>9, <2>3 DEF Passes, Tells, EventOf, Boundary
    <3>3. \A x \in Quote : ~Names(f, c, x)
      BY <2>3 DEF Names
    <3>4. Heard(Q, P, f, c, missing[c], missing[c])
      BY <1>9, <2>1, <3>2, <3>3, NotSpokenOf
    <3> QED  BY <3>1, <3>4
  <2> QED  BY <2>2, <2>3
<1>11. \A c \in Contract : Heard(Before', Before, Head(wire), c, missing'[c], missing[c])
  BY <1>10 DEF Q, P, f
<1> QED  BY <1>1, <1>11, ReadStep

LEMMA ReadGarbledStep ==
    ASSUME PolyInv, ReadGarbled
    PROVE  Linked' /\ \A c \in Contract : InLine(c)'
<1> DEFINE f == Head(wire)
<1>1. Take /\ outbox' \in Seq(Sent) /\ outbox' = <<>>
  BY ReadTypes DEF PolyInv, ReadGarbled, ReadTyped, Take, Idle
<1>2. f.contract \in Contract /\ f.quote \in Quote /\ f.kind = "garbled"
  BY <1>1, ReadTypes, FrameKinds DEF PolyInv, ReadGarbled
<1>3. missing' = [missing EXCEPT ![f.contract] = @ \cup {f.quote}]
  BY DEF ReadGarbled
<1>4. Before' = Before
  BY <1>1, TakeLine
<1>5. missing \in [Contract -> SUBSET Quote]
  BY DEF PolyInv, Typed, TypeOK
<1> HIDE DEF f
<1>6. ASSUME NEW c \in Contract
      PROVE  Heard(Before, Before, f, c, missing'[c], missing[c])
  <2>1. Coherent(Before, wire, c, missing[c])
    BY DEF PolyInv, InLine
  <2>2. missing[c] \subseteq missing'[c] /\ (c = f.contract => f.quote \in missing'[c])
    BY <1>2, <1>3, <1>5
  <2>3. \A x \in Quote : Names(f, c, x) => x \in missing'[c]
    BY <2>2 DEF Names
  <2> DEFINE less == missing'[c]
             miss == missing[c]
             P    == Before
  <2>4. Coherent(P, wire, c, miss) /\ miss \subseteq less
        /\ \A x \in Quote : Names(f, c, x) => x \in less
    BY <2>1, <2>2, <2>3
  <2> HIDE DEF less, miss, P
  <2>5. Heard(P, P, f, c, less, miss)
    BY <2>4, NothingHeard
  <2> QED  BY <2>5 DEF less, miss, P
<1>7. \A c \in Contract : Heard(Before', Before, Head(wire), c, missing'[c], missing[c])
  BY <1>4, <1>6 DEF f
<1> QED  BY <1>1, <1>7, ReadStep

LEMMA ReadBooksStep ==
    ASSUME PolyInv, ReadBooks
    PROVE  Linked' /\ \A c \in Contract : InLine(c)'
<1> DEFINE f == Head(wire)
<1>1. Take /\ outbox' \in Seq(Sent)
  BY ReadTypes DEF PolyInv, ReadBooks, ReadTyped
<1>2. f.kind = "books" /\ f.of \in Seq(Contract) /\ f.truth \in [Contract -> Book]
  BY <1>1, ReadTypes, FrameKinds DEF PolyInv, ReadBooks
<1>3. /\ Prolongs(Before', Before, 1 + Len(queue), outbox')
      /\ outbox' = <<>> => Before' = Before
  BY <1>1, TakeLine
<1>4. missing \in [Contract -> SUBSET Quote]
  BY DEF PolyInv, Typed, TypeOK
<1>5. \A c \in Contract : \A x : ~Names(f, c, x)
  BY <1>2 DEF Names
<1>6. CASE ~Readable(f)
  <2>1. outbox' = <<>> /\ missing' = missing
    BY <1>6, BooksRead
  <2> HIDE DEF f
  <2>2. ASSUME NEW c \in Contract
        PROVE  Heard(Before, Before, f, c, missing[c], missing[c])
    <3>1. Coherent(Before, wire, c, missing[c])
      BY DEF PolyInv, InLine
    <3> QED  BY <1>5, <3>1, NothingHeard
  <2>3. \A c \in Contract : Heard(Before', Before, Head(wire), c, missing'[c], missing[c])
    BY <1>3, <2>1, <2>2 DEF f
  <2> QED  BY <1>1, <2>3, ReadStep
<1>7. CASE Readable(f)
  <2> DEFINE out == outbox'
             Q   == Before'
             P   == Before
             snaps(i) == SnapshotOf(f.of[i], f.truth[f.of[i]], snapshotSeq'[f.of[i]])
  <2>1. /\ missing' = [c \in Contract |-> IF c \in ReadOf(f) THEN {} ELSE missing[c]]
        /\ out = [i \in DOMAIN f.of |-> snaps(i)]
    BY <1>7, BooksRead
  <2>2. \A i : /\ snaps(i).kind = "snapshot" /\ snaps(i).contract = f.of[i]
               /\ snaps(i).missing = {} /\ snaps(i).truth = f.truth[f.of[i]]
    BY DEF SnapshotOf
  <2>3. Prolongs(Q, P, 1 + Len(queue), out)
    BY <1>3
  <2> HIDE DEF f, snaps, out, Q, P
  <2>4. DOMAIN f.of = 1 .. Len(f.of) /\ Len(f.of) \in Nat
    BY <1>2
  <2>5. Len(out) = Len(f.of) /\ \A i \in 1 .. Len(f.of) : out[i] = snaps(i)
    BY <2>1, <2>4
  <2>6. /\ Extends(Q, P)
        /\ \A i \in Added(Q, P) : \E j \in 1 .. Len(f.of) : Q[i] = snaps(j)
        /\ \A j \in 1 .. Len(f.of) : \E i \in Added(Q, P) : Q[i] = snaps(j)
    BY <2>3, <2>5 DEF Prolongs
  <2>7. ASSUME NEW c \in Contract
        PROVE  Heard(Q, P, f, c, missing'[c], missing[c])
    <3>1. Coherent(P, wire, c, missing[c])
      BY DEF PolyInv, InLine, P
    <3>2. CASE c \in ReadOf(f)
      <4>1. missing'[c] = {}
        BY <2>1, <3>2
      <4>2. PICK j \in 1 .. Len(f.of) : f.of[j] = c
        BY <2>4, <3>2 DEF ReadOf
      <4>3. Shows(f, c)
        BY <1>2, <1>7, <2>4, <4>2 DEF Shows
      <4>4. PICK k \in Added(Q, P) : Q[k] = snaps(j)
        BY <2>6
      <4>5. Q[k].contract = c
        BY <2>2, <4>2, <4>4
      <4>6. ASSUME NEW i \in Added(Q, P)
            PROVE  /\ Q[i].kind = "snapshot" /\ Q[i].missing = {}
                   /\ Q[i].contract = c => Q[i].truth = Sight(f, c)
        <5>1. PICK l \in 1 .. Len(f.of) : Q[i] = snaps(l)
          BY <2>6
        <5> QED  BY <1>2, <2>2, <5>1 DEF Sight
      <4>7. Stepwise(P, c)
        BY <3>1 DEF Coherent
      <4> DEFINE miss == missing[c]
      <4> HIDE DEF miss
      <4>8. Heard(Q, P, f, c, {}, miss)
        BY <2>6, <4>3, <4>5, <4>6, <4>7, PageSpoken
      <4> QED  BY <4>1, <4>8 DEF miss
    <3>3. CASE c \notin ReadOf(f)
      <4>1. missing'[c] = missing[c]
        BY <2>1, <3>3
      <4>2. ASSUME NEW i \in Added(Q, P)
            PROVE  Passes(Q[i], c) /\ ~Tells(Q[i], c)
        <5>1. PICK l \in 1 .. Len(f.of) : Q[i] = snaps(l)
          BY <2>6
        <5>2. f.of[l] # c
          BY <2>4, <3>3 DEF ReadOf
        <5> QED  BY <2>2, <5>1, <5>2 DEF Passes, Tells, EventOf, Boundary
      <4>3. Heard(Q, P, f, c, missing[c], missing[c])
        BY <1>5, <2>6, <3>1, <4>2, NotSpokenOf
      <4> QED  BY <4>1, <4>3
    <3> QED  BY <3>2, <3>3
  <2>8. \A c \in Contract : Heard(Before', Before, Head(wire), c, missing'[c], missing[c])
    BY <2>7 DEF Q, P, f
  <2> QED  BY <1>1, <2>8, ReadStep
<1> QED  BY <1>6, <1>7

-----------------------------------------------------------------------------
(* The engine takes an event off the line.                                 *)
LEMMA ConsumeAbsorbs ==
    ASSUME PolyInv, Consume, NEW c \in Contract
    PROVE  Shifts(Before', Before) /\ Absorbs(Before', Before, c)
<1> DEFINE e == Head(queue)
<1>1. /\ queue \in Seq(Sent) /\ outbox \in Seq(Sent) /\ queue # <<>>
      /\ queue' = Tail(queue) /\ outbox' = outbox
  BY DEF PolyInv, Typed, Consume, workerVars
<1>2. e \in Sent /\ (Learns(e) \/ Amends(e) \/ Ignores(e) \/ TakesDown(e))
  BY ConsumeCases DEF PolyInv
<1> HIDE DEF e
<1>3. Held.kind = "store" /\ Held'.kind = "store"
  BY DEF Held
<1> DEFINE now == Held'
           Q   == Before'
           P   == Before
<1>4. P = Line(Held, queue, outbox) /\ Q = Line(now, Tail(queue), outbox) /\ now.kind = "store"
  BY <1>1, <1>3 DEF Before
<1> HIDE DEF now, Q, P
<1>5. Shifts(Line(now, Tail(queue), outbox), Line(Held, queue, outbox))
      /\ Line(Held, queue, outbox)[2] = Head(queue)
  BY <1>1, <1>4, LineShifts
<1>6. Shifts(Q, P) /\ P[2] = e
  BY <1>4, <1>5 DEF e
<1>7. P[1] = Held /\ Q[1] = now
  <2>1. Shaped(Line(Held, queue, outbox), Held, queue, outbox)
    BY <1>1, LineShape
  <2> DEFINE rest == Tail(queue)
  <2>2. rest \in Seq(Sent)
    BY <1>1
  <2> HIDE DEF rest
  <2>3. Shaped(Line(now, rest, outbox), now, rest, outbox)
    BY <1>1, <2>2, LineShape
  <2> QED  BY <1>4, <2>1, <2>3 DEF Shaped, rest
<1>8. /\ asOf \in [Contract -> Book] /\ missed \in [Contract -> SUBSET Quote]
      /\ state \in [Contract -> BookState]
  BY DEF PolyInv, Typed, TypeOK, StoreTypeOK
<1>9. /\ Tells(Held, c) <=> c \in LiveBooks
      /\ BookIn(Held, c) = asOf[c] /\ MissIn(Held, c) = missed[c]
      /\ Tells(now, c) <=> c \in LiveBooks'
      /\ BookIn(now, c) = asOf'[c] /\ MissIn(now, c) = missed'[c]
  BY DEF now, Held, Tells, EventOf, BookIn, MissIn
<1>10. (c \in LiveBooks <=> state[c] = "Live") /\ (c \in LiveBooks' <=> state'[c] = "Live")
  BY DEF LiveBooks
<1>11. ASSUME c \in LiveBooks'
       PROVE  SameWord(now, e, c) \/ (SameWord(now, Held, c) /\ Passes(e, c))
  <2>1. ASSUME e.kind \in {"snapshot", "level"}, e.contract = c, asOf'[c] = e.truth, missed'[c] = e.missing
        PROVE  SameWord(now, e, c)
    BY <1>9, <2>1 DEF SameWord, Tells, EventOf, BookIn, MissIn
  <2>2. ASSUME e.kind \in {"snapshot", "level"}, e.contract # c, c \in LiveBooks,
               asOf'[c] = asOf[c], missed'[c] = missed[c]
        PROVE  SameWord(now, Held, c) /\ Passes(e, c)
    BY <1>9, <2>2 DEF SameWord, Passes, Boundary, EventOf
  <2>3. CASE Learns(e)
    <3>1. e.kind = "snapshot" /\ e.contract \in Contract
      BY <2>3, SentKinds DEF Learns
    <3>2. CASE e.contract = c
      BY <1>8, <2>1, <2>3, <3>1, <3>2 DEF Learns
    <3>3. CASE e.contract # c
      <4>1. state'[c] = state[c] /\ asOf'[c] = asOf[c] /\ missed'[c] = missed[c]
        BY <1>8, <2>3, <3>3 DEF Learns
      <4> QED  BY <1>10, <1>11, <2>2, <3>1, <3>3, <4>1
    <3> QED  BY <3>2, <3>3
  <2>4. CASE Amends(e)
    <3>1. e.kind = "level" /\ e.contract \in Contract
      BY <2>4, SentKinds DEF Amends
    <3>2. CASE e.contract = c
      BY <1>8, <2>1, <2>4, <3>1, <3>2 DEF Amends
    <3>3. CASE e.contract # c
      <4>1. state'[c] = state[c] /\ asOf'[c] = asOf[c] /\ missed'[c] = missed[c]
        BY <1>8, <2>4, <3>3 DEF Amends
      <4> QED  BY <1>10, <1>11, <2>2, <3>1, <3>3, <4>1
    <3> QED  BY <3>2, <3>3
  <2>5. CASE Ignores(e)
    <3>1. e.kind = "level" /\ state' = state /\ asOf' = asOf /\ missed' = missed
      BY <2>5, SentKinds DEF Ignores, books, ghostVars
    <3>2. e.contract # c
      BY <1>10, <1>11, <2>5, <3>1 DEF Ignores
    <3> QED  BY <1>10, <1>11, <2>2, <3>1, <3>2
  <2>6. CASE TakesDown(e)
    BY <1>10, <1>11, <2>6 DEF TakesDown
  <2> QED  BY <1>2, <2>3, <2>4, <2>5, <2>6
<1>12. Absorbs(Q, P, c)
  BY <1>6, <1>7, <1>9, <1>11 DEF Absorbs
<1> QED  BY <1>6, <1>12 DEF Q, P

LEMMA ConsumeLine ==
    ASSUME PolyInv, Consume
    PROVE  Linked' /\ \A c \in Contract : InLine(c)'
<1>1. UNCHANGED <<market, wire, toBook, mute, link, faults, missing>>
  BY DEF Consume, socketVars, workerVars
<1>2. /\ Connected' => Connected
      /\ Unbooked' => Unbooked
      /\ GivenUp' => GivenUp
  BY <1>1 DEF Connected, Unbooked, GivenUp
<1>3. ASSUME NEW c \in Contract
      PROVE  InLine(c)'
  <2> DEFINE Q    == Before'
             P    == Before
             miss == missing[c]
             book == market[c]
  <2>1. Shifts(Q, P) /\ Absorbs(Q, P, c)
    BY ConsumeAbsorbs
  <2>2. /\ Coherent(P, wire, c, miss)
        /\ Connected => Current(P, wire, c, miss, book)
        /\ Unbooked \/ GivenUp => Severed(P, c)
    BY DEF PolyInv, InLine
  <2> HIDE DEF Q, P, miss, book
  <2>3. /\ Coherent(Q, wire, c, miss)
        /\ Current(P, wire, c, miss, book) => Current(Q, wire, c, miss, book)
    BY <2>1, <2>2, EventTakenCoherent
  <2>4. Severed(P, c) => Severed(Q, c)
    BY <2>1, EventTaken
  <2>5. /\ Coherent(Q, wire', c, missing'[c])
        /\ Connected' => Current(Q, wire', c, missing'[c], market'[c])
        /\ Unbooked' \/ GivenUp' => Severed(Q, c)
    BY <1>1, <1>2, <2>2, <2>3, <2>4 DEF miss, book
  <2> QED  BY <2>5 DEF Q, InLine
<1>4. Linked'
  BY <1>1, <1>2 DEF PolyInv, Linked
<1> QED  BY <1>3, <1>4

LEMMA Front ==
    ASSUME PolyInv, queue # <<>>
    PROVE  Before[1] = Held /\ Before[2] = Head(queue) /\ 1 \in DOMAIN Before /\ 2 \in DOMAIN Before
<1>1. queue \in Seq(Sent) /\ outbox \in Seq(Sent)
  BY DEF PolyInv, Typed
<1>2. Shaped(Before, Held, queue, outbox)
  BY <1>1, LineShape DEF Before
<1>3. Len(queue) \in Nat /\ Len(queue) >= 1 /\ Len(outbox) \in Nat /\ queue[1] = Head(queue)
  BY <1>1
<1>4. 1 \in 1 .. Len(queue)
  BY <1>3
<1>5. Before[1 + 1] = queue[1]
  BY <1>2, <1>4 DEF Shaped
<1>6. DOMAIN Before = 1 .. 1 + Len(queue) + Len(outbox) /\ Before[1] = Held
  BY <1>2 DEF Shaped
<1>7. 1 \in 1 .. 1 + Len(queue) + Len(outbox) /\ 2 \in 1 .. 1 + Len(queue) + Len(outbox) /\ 1 + 1 = 2
  BY <1>3
<1> QED  BY <1>3, <1>5, <1>6, <1>7

LEMMA ConsumeMirrors ==
    ASSUME PolyInv, Consume
    PROVE  LiveMirrorsMarket'
<1> DEFINE e == Head(queue)
<1>1. e \in Sent /\ (Learns(e) \/ Amends(e) \/ Ignores(e) \/ TakesDown(e))
  BY ConsumeCases DEF PolyInv
<1>2. Before[1] = Held /\ Before[2] = e /\ 1 \in DOMAIN Before /\ 2 \in DOMAIN Before
  BY Front DEF Consume
<1> HIDE DEF e
<1>3. /\ asOf \in [Contract -> Book] /\ missed \in [Contract -> SUBSET Quote]
      /\ state \in [Contract -> BookState] /\ ladder \in [Contract -> Ladders]
  BY DEF PolyInv, Typed, TypeOK, StoreTypeOK
<1>4. \A d \in LiveBooks : \A q \in Quote \ missed[d] : Resting(ladder[d], q) = asOf[d][q]
  BY DEF PolyInv, LiveMirrorsMarket, Shown, Resting
<1> SUFFICES ASSUME NEW c \in Contract, c \in LiveBooks', NEW q \in Quote \ missed'[c]
             PROVE  Resting(ladder'[c], q) = asOf'[c][q]
  BY DEF LiveMirrorsMarket, Shown, Resting, LiveBooks
<1>5. /\ c \in LiveBooks' <=> state'[c] = "Live"
      /\ c \in LiveBooks <=> state[c] = "Live"
  BY DEF LiveBooks
<1>6. ASSUME state'[c] = state[c], ladder'[c] = ladder[c], asOf'[c] = asOf[c], missed'[c] = missed[c]
      PROVE  Resting(ladder'[c], q) = asOf'[c][q]
  BY <1>4, <1>5, <1>6
<1>7. CASE Learns(e)
  <2>1. e.contract \in Contract /\ e.truth \in Book
    BY <1>7, SentKinds DEF Learns
  <2>2. CASE c = e.contract
    <3>1. ladder'[c] = LadderOf(e.truth) /\ asOf'[c] = e.truth
      BY <1>3, <1>7, <2>2 DEF Learns
    <3> QED  BY <2>1, <3>1, LadderOfBook
  <2>3. CASE c # e.contract
    BY <1>3, <1>6, <1>7, <2>3 DEF Learns
  <2> QED  BY <2>2, <2>3
<1>8. CASE Amends(e)
  <2>1. /\ e.kind = "level" /\ e.contract \in Contract /\ e.quote \in Quote /\ e.truth \in Book
        /\ e.size = e.truth[e.quote] /\ e.size \in Nat
    BY <1>8, SentKinds, BoundsAssumption DEF Amends, Book
  <2>2. CASE c = e.contract
    <3>1. /\ ladder'[c] = ReplaceLevel(ladder[c], e.quote[1], e.quote[2], e.size)
          /\ asOf'[c] = e.truth /\ missed'[c] = e.missing /\ c \in LiveBooks
      BY <1>3, <1>5, <1>8, <2>2 DEF Amends
    <3>2. Stepwise(Before, c)
      BY DEF PolyInv, InLine, Coherent
    <3>3. Tells(Held, c) /\ MissIn(Held, c) = missed[c] /\ BookIn(Held, c) = asOf[c]
      BY <3>1 DEF Held, Tells, MissIn, BookIn
    <3>4. Reaches(Before, c, 1, 2)
      <4>1. \A j \in 1 + 1 .. 2 - 1 : FALSE
        OBVIOUS
      <4> QED  BY <1>2, <3>3, <4>1 DEF Reaches
    <3>5. IsLevel(e, c)
      BY <2>1, <2>2 DEF IsLevel
    <3>6. Follows(Held, e, c)
      BY <1>2, <3>2, <3>4, <3>5 DEF Stepwise
    <3>7. CASE q = e.quote
      BY <1>3, <2>1, <2>2, <3>1, <3>7, QuoteReplaced
    <3>8. CASE q # e.quote
      <4>1. q \notin missed[c] /\ asOf[c][q] = e.truth[q]
        BY <3>1, <3>3, <3>6, <3>8 DEF Follows
      <4>2. Resting(ladder'[c], q) = Resting(ladder[c], q)
        <5> DEFINE lad == ladder[c]
        <5>1. lad \in Ladders /\ q \in Quote \ {e.quote}
          BY <1>3, <3>8
        <5>2. ladder'[c] = ReplaceLevel(lad, e.quote[1], e.quote[2], e.size)
          BY <3>1
        <5> HIDE DEF lad
        <5>3. Resting(ReplaceLevel(lad, e.quote[1], e.quote[2], e.size), q) = Resting(lad, q)
          BY <2>1, <5>1, QuoteReplaced
        <5> QED  BY <5>2, <5>3 DEF lad
      <4>3. Resting(ladder[c], q) = asOf[c][q]
        BY <1>4, <3>1, <4>1
      <4> QED  BY <3>1, <4>1, <4>2, <4>3
    <3> QED  BY <3>7, <3>8
  <2>3. CASE c # e.contract
    BY <1>3, <1>6, <1>8, <2>3 DEF Amends
  <2> QED  BY <2>2, <2>3
<1>9. CASE Ignores(e)
  BY <1>6, <1>9 DEF Ignores, books, ghostVars
<1>10. CASE TakesDown(e)
  BY <1>5, <1>10 DEF TakesDown
<1> QED  BY <1>1, <1>7, <1>8, <1>9, <1>10

-----------------------------------------------------------------------------
LEMMA PolyInvStep ==
    ASSUME PolyInv, Next \/ UNCHANGED vars
    PROVE  PolyInv'
<1>1. Typed'
  BY TypedStep DEF PolyInv
<1>2. Linked' /\ (\A c \in Contract : InLine(c)') /\ LiveMirrorsMarket' => PolyInv'
  BY <1>1 DEF PolyInv
<1>3. ASSUME UNCHANGED storeVars, UNCHANGED ghostVars
      PROVE  LiveMirrorsMarket'
  BY <1>3, HeldStays DEF PolyInv
<1>4. CASE Worker
  <2>1. LiveMirrorsMarket'
    BY <1>3, <1>4, WorkerLeaves
  <2>2. Linked' /\ \A c \in Contract : InLine(c)'
    <3>1. \/ Connect \/ ConnectFails \/ LoseSocket
          \/ SubscribeFails \/ RecorderFails \/ TimePasses \/ Flush
          \/ ReadBooks \/ ReadChange \/ ReadGarbled \/ Send \/ Stop
      BY <1>4 DEF Worker, SocketEnds, ResyncObeyed
    <3> QED  BY <3>1, ConnectionSteps, IdleStep, ReadBooksStep, ReadChangeStep, ReadGarbledStep,
                SendStep, StopStep
  <2> QED  BY <1>2, <2>1, <2>2
<1>5. CASE VenueActs
  <2>1. LiveMirrorsMarket'
    BY <1>3, <1>5, VenueLeaves
  <2>2. Linked' /\ \A c \in Contract : InLine(c)'
    <3>1. CASE VenueOpens
      BY <3>1, OpensStep
    <3>2. CASE GoesMute
      BY <3>2, IdleStep
    <3>3. ASSUME NEW c \in Contract, VenueRestates(c) \/ VenueQuotesFine(c)
          PROVE  Linked' /\ \A d \in Contract : InLine(d)'
      BY <3>3, RestatesStep, IdleStep
    <3>4. ASSUME NEW m \in Moving, NEW size \in 0 .. MaxSize, VenueTrades(m[1], <<m[2], m[3]>>, size)
          PROVE  Linked' /\ \A c \in Contract : InLine(c)'
      <4>1. m[1] \in Contract /\ <<m[2], m[3]>> \in Quote
        BY QuoteOfMove
      <4> DEFINE c == m[1]
                 q == <<m[2], m[3]>>
      <4>2. VenueTrades(c, q, size) /\ c \in Contract /\ q \in Quote
        BY <3>4, <4>1
      <4> HIDE DEF c, q
      <4> QED  BY <4>2, TradesStep
    <3> QED  BY <1>5, <3>1, <3>2, <3>3, <3>4 DEF VenueActs
  <2> QED  BY <1>2, <2>1, <2>2
<1>6. CASE Consume
  BY <1>2, <1>6, ConsumeLine, ConsumeMirrors
<1>7. CASE AskResync \/ AskToStop \/ UNCHANGED vars
  <2>1. UNCHANGED storeVars /\ UNCHANGED ghostVars
    BY <1>7 DEF AskResync, AskToStop, vars, polyVars
  <2> QED  BY <1>2, <1>3, <1>7, <2>1, IdleStep
<1> QED  BY <1>4, <1>5, <1>6, <1>7 DEF Next

LEMMA PolyInvHolds == Spec => []PolyInv
<1>1. PolyInv /\ [Next]_vars => PolyInv'
  BY PolyInvStep
<1> QED  BY <1>1, PolyInvInit, PTL DEF Spec

-----------------------------------------------------------------------------
(* The feed's variables keep their types, and the channel its bound.       *)
THEOREM PolyTypeCorrect == Spec => []TypeOK
<1>1. PolyInv => TypeOK
  BY DEF PolyInv, Typed
<1> QED  BY <1>1, PolyInvHolds, PTL

(* A Live book is the market's as of the last event applied, but for the   *)
(* quotes whose last change the parser could not read: for any number of   *)
(* tokens, connections, restated books, faults and events in flight,       *)
(* though nothing the venue sends is numbered (polymarket.rs, run and      *)
(* parse; book.rs, apply).                                                 *)
THEOREM LiveIsTheMarket == Spec => []LiveMirrorsMarket
<1>1. PolyInv => LiveMirrorsMarket
  BY DEF PolyInv
<1> QED  BY <1>1, PolyInvHolds, PTL

(* When a worker has given up for good, its last events have been applied, *)
(* and its recorder is not what failed, no book is Live.  The subscription *)
(* is then what failed, and that the worker finds out before the venue     *)
(* has said anything on the connection (polymarket.rs, run).               *)
THEOREM DeadHasNoLiveBook == Spec => []DeadIsDown
<1>1. PolyInv => DeadIsDown
  <2> SUFFICES ASSUME PolyInv, link = "dead", "record" \notin faults, outbox = <<>>, queue = <<>>,
                      NEW c \in LiveBooks
               PROVE  FALSE
    BY DEF DeadIsDown
  <2>1. c \in Contract /\ GivenUp
    BY DEF LiveBooks, GivenUp
  <2>2. Severed(Before, c)
    BY <2>1 DEF PolyInv, InLine
  <2>3. queue \in Seq(Sent) /\ outbox \in Seq(Sent) /\ Len(queue) = 0 /\ Len(outbox) = 0
    BY DEF PolyInv, Typed
  <2>4. Shaped(Before, Held, queue, outbox)
    BY <2>3, LineShape DEF Before
  <2>5. DOMAIN Before = 1 .. 1 /\ Len(Before) = 1 /\ Before[1] = Held
    BY <2>3, <2>4 DEF Shaped
  <2>6. Tells(Held, c) /\ \A j \in 1 + 1 .. (1 + 1) - 1 : FALSE
    BY DEF Tells, Held
  <2>7. Last(Before, c, 1)
    BY <2>5, <2>6 DEF Last, Reaches
  <2> QED  BY <2>2, <2>5, <2>7 DEF Severed
<1> QED  BY <1>1, PolyInvHolds, PTL
=============================================================================
