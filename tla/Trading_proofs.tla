--------------------------- MODULE Trading_proofs ---------------------------
(***************************************************************************)
(* Theorems about trading, for any offers, limits, faults and bounds.      *)
(***************************************************************************)
EXTENDS Trading, DataLemmas

-----------------------------------------------------------------------------
(* What an offer and a trade are made of.                                  *)
TradesOf(o) ==
    [offer : {o}, before : Nat, fate : [DOMAIN o.legs -> Fate],
     reply : [DOMAIN o.legs -> Reply], paid : [DOMAIN o.legs -> Nat], verdict : Verdict]

Trade == UNION {TradesOf(o) : o \in Offers}

LEMMA OfferLegs ==
    ASSUME NEW o \in Offers
    PROVE  /\ o.event \in Event
           /\ IsFiniteSet(DOMAIN o.legs)
           /\ \A k \in DOMAIN o.legs : /\ o.legs[k].qty \in Nat /\ o.legs[k].qty > 0
                                       /\ o.legs[k].fee \in Nat
                                       /\ o.legs[k].levels \in Seq(Level)
                                       /\ o.legs[k].levels # <<>>
<1>1. o.event \in Event /\ o.legs \in Seq(Leg)
  BY OfferAssumption
<1>2. DOMAIN o.legs = 1 .. Len(o.legs) /\ Len(o.legs) \in Nat
  BY <1>1
<1>3. IsFiniteSet(DOMAIN o.legs)
  BY <1>2, FS_Interval
<1>4. \A k \in DOMAIN o.legs : o.legs[k] \in Leg
  BY <1>1
<1> QED  BY <1>1, <1>3, <1>4 DEF Leg

LEMMA Greatest ==
    ASSUME NEW S, IsFiniteSet(S), S # {}, S \subseteq Nat
    PROVE  Max(S) \in S
BY GreatestNatural DEF Max

(* What a leg was costed at and its limit price are whole cents.           *)
LEMMA LegPrices ==
    ASSUME NEW o \in Offers, NEW k \in DOMAIN o.legs
    PROVE  LegCost(o.legs[k]) \in Nat /\ LimitPrice(o.legs[k]) \in Nat
<1> DEFINE l == o.legs[k].levels
           S == {l[i].price : i \in DOMAIN l}
           f == [i \in DOMAIN l |-> l[i].price * l[i].size]
<1>1. l \in Seq(Level) /\ l # <<>>
  BY OfferLegs
<1>2. DOMAIN l = 1 .. Len(l) /\ Len(l) \in Nat /\ IsFiniteSet(DOMAIN l) /\ 1 \in DOMAIN l
  <2>1. DOMAIN l = 1 .. Len(l) /\ Len(l) \in Nat /\ 1 \in DOMAIN l
    BY <1>1
  <2> QED  BY <2>1, FS_Interval
<1>3. \A i \in DOMAIN l : l[i].price \in Nat /\ l[i].size \in Nat
  <2>1. \A i \in DOMAIN l : l[i] \in Level
    BY <1>1
  <2> QED  BY <2>1 DEF Level
<1>4. \A m, n \in Nat : m * n \in Nat
  OBVIOUS
<1>5. \A i \in DOMAIN l : f[i] \in Nat
  BY <1>3, <1>4
<1>6. LegCost(o.legs[k]) \in Nat
  BY <1>2, <1>5, SumNat DEF LegCost, SumFunction
<1>7. IsFiniteSet(S) /\ S \subseteq Nat /\ S # {}
  <2>1. IsFiniteSet(S)
    <3> DEFINE g == [i \in DOMAIN l |-> l[i].price]
    <3>1. g \in Surjection(DOMAIN l, S)
      BY DEF Surjection
    <3> QED  BY <1>2, <3>1, FS_Surjection
  <2> QED  BY <1>2, <1>3, <2>1
<1>8. Max(S) \in S
  BY <1>7, Greatest
<1> QED  BY <1>6, <1>7, <1>8 DEF LimitPrice

LEMMA CapitalIsNat ==
    ASSUME NEW o \in Offers
    PROVE  Capital(o) \in Nat
<1> DEFINE f == [k \in DOMAIN o.legs |-> LegCost(o.legs[k]) + o.legs[k].fee]
<1>1. \A k \in DOMAIN o.legs : f[k] \in Nat
  BY OfferLegs, LegPrices
<1>2. SumFunctionOnSet(f, DOMAIN o.legs) \in Nat
  BY <1>1, OfferLegs, SumNat
<1> QED  BY <1>2 DEF Capital, SumFunction

LEMMA TradeFields ==
    ASSUME NEW t \in Trade
    PROVE  /\ t.offer \in Offers /\ t \in TradesOf(t.offer)
           /\ Legs(t) = DOMAIN t.offer.legs /\ IsFiniteSet(Legs(t))
           /\ t.verdict \in Verdict /\ t.before \in Nat
           /\ t.fate \in [Legs(t) -> Fate] /\ t.reply \in [Legs(t) -> Reply]
           /\ t.paid \in [Legs(t) -> Nat]
<1>1. PICK o \in Offers : t \in TradesOf(o)
  BY DEF Trade
<1>2. t.offer = o
  BY <1>1 DEF TradesOf
<1> QED  BY <1>1, <1>2, OfferLegs DEF TradesOf, Legs

-----------------------------------------------------------------------------
(* What is booked for a trade, against what was paid for it.               *)
LEMMA Dividing ==
    ASSUME NEW paid \in Nat, NEW qty \in Nat, qty > 0
    PROVE  /\ AveragePrice(paid, qty) \in Nat
           /\ qty * AveragePrice(paid, qty) \in Nat
           /\ qty * AveragePrice(paid, qty) <= paid
           /\ paid - qty * AveragePrice(paid, qty) <= qty - 1
<1>1. AveragePrice(paid, qty) = paid \div qty
  BY DEF AveragePrice
<1>2. /\ paid \div qty \in Nat
      /\ paid = qty * (paid \div qty) + (paid % qty)
      /\ paid % qty \in 0 .. qty - 1
  OBVIOUS
<1>3. \A m, n \in Nat : m * n \in Nat
  OBVIOUS
<1>4. PICK a \in Nat : a = paid \div qty
  BY <1>2
<1>5. PICK b \in Nat : b = qty * a
  BY <1>3, <1>4
<1>6. PICK r \in Nat : r = paid % qty /\ r <= qty - 1 /\ paid = b + r
  BY <1>2, <1>4, <1>5
<1> QED  BY <1>1, <1>4, <1>5, <1>6

LEMMA BookedCostIsNat ==
    ASSUME NEW t \in Trade
    PROVE  BookedCost(t) \in Nat
<1> DEFINE f == [k \in Legs(t) |-> LET leg == t.offer.legs[k] IN
                                   leg.qty * AveragePrice(t.paid[k], leg.qty) + leg.fee]
<1>1. ASSUME NEW k \in Legs(t)
      PROVE  f[k] \in Nat
  <2>1. t.paid[k] \in Nat /\ t.offer.legs[k].qty \in Nat /\ t.offer.legs[k].qty > 0
        /\ t.offer.legs[k].fee \in Nat
    BY <1>1, TradeFields, OfferLegs
  <2>2. t.offer.legs[k].qty * AveragePrice(t.paid[k], t.offer.legs[k].qty) \in Nat
    BY <2>1, Dividing
  <2> QED  BY <1>1, <2>1, <2>2
<1>2. SumFunctionOnSet(f, Legs(t)) \in Nat
  <2> HIDE DEF f
  <2> QED  BY <1>1, TradeFields, SumNat
<1> QED  BY <1>2 DEF BookedCost, SumFunction

(* kalshi.rs, place_order: a whole-cent average, rounded down, loses less  *)
(* than a cent for each contract, and never finds one.                     *)
LEMMA BookedNearPaid ==
    ASSUME NEW t \in Trade, \A k \in Legs(t) : t.fate[k] = "filled"
    PROVE  LET short == PaidCost(t) - BookedCost(t) IN
           /\ short >= 0
           /\ short <= SumFunction([k \in Legs(t) |-> t.offer.legs[k].qty - 1])
<1> DEFINE D == Legs(t)
           leg(k) == t.offer.legs[k]
           whole(k) == leg(k).qty * AveragePrice(t.paid[k], leg(k).qty)
           b == [k \in D |-> whole(k) + leg(k).fee]
           p == [k \in D |-> t.paid[k] + leg(k).fee]
           s == [k \in D |-> t.paid[k] - whole(k)]
           q == [k \in D |-> leg(k).qty - 1]
           z == [k \in D |-> 0]
<1>1. ASSUME NEW k \in D
      PROVE  /\ b[k] \in Int /\ p[k] \in Int /\ s[k] \in Int /\ q[k] \in Int /\ z[k] \in Int
             /\ z[k] <= s[k] /\ s[k] <= q[k] /\ p[k] = b[k] + s[k] /\ z[k] = 0
  <2>1. t.paid[k] \in Nat /\ leg(k).qty \in Nat /\ leg(k).qty > 0 /\ leg(k).fee \in Nat
    BY <1>1, TradeFields, OfferLegs
  <2>2. whole(k) \in Nat /\ whole(k) <= t.paid[k] /\ t.paid[k] - whole(k) <= leg(k).qty - 1
    BY <2>1, Dividing
  <2>3. PICK w \in Nat, c \in Nat, n \in Nat, e \in Nat :
            w = whole(k) /\ c = t.paid[k] /\ n = leg(k).qty /\ e = leg(k).fee
    BY <2>1, <2>2
  <2>4. w <= c /\ c - w <= n - 1
    BY <2>2, <2>3
  <2>5. b[k] = w + e /\ p[k] = c + e /\ s[k] = c - w /\ q[k] = n - 1 /\ z[k] = 0
    BY <1>1, <2>3
  <2> QED  BY <2>4, <2>5
<1>2. {j \in D : t.fate[j] = "filled"} = D
  OBVIOUS
<1>3. PaidCost(t) = SumFunctionOnSet(p, D)
  BY <1>2 DEF PaidCost, SumFunction
<1>4. BookedCost(t) = SumFunctionOnSet(b, D)
  BY DEF BookedCost, SumFunction
<1>5. SumFunction([k \in Legs(t) |-> t.offer.legs[k].qty - 1]) = SumFunctionOnSet(q, D)
  BY DEF SumFunction
<1>6. IsFiniteSet(D)
  BY TradeFields
<1> HIDE DEF D, b, p, s, q, z
<1>7. SumFunctionOnSet(p, D) = SumFunctionOnSet(b, D) + SumFunctionOnSet(s, D)
  BY <1>1, <1>6, SumPlus
<1>8. SumFunctionOnSet(z, D) <= SumFunctionOnSet(s, D)
  BY <1>1, <1>6, SumLeq
<1>9. SumFunctionOnSet(s, D) <= SumFunctionOnSet(q, D)
  BY <1>1, <1>6, SumLeq
<1>10. SumFunctionOnSet(z, D) = 0
  BY <1>1, <1>6, SumZero
<1>11. SumFunctionOnSet(b, D) \in Int /\ SumFunctionOnSet(s, D) \in Int
  BY <1>1, <1>6, SumInt
<1> QED  BY <1>3, <1>4, <1>5, <1>7, <1>8, <1>9, <1>10, <1>11

-----------------------------------------------------------------------------
(* The books of the account and of the executor, told of any sequences of  *)
(* trades and of positions.                                                *)
BookedIn(ts, n)  == {j \in 1 .. n : ts[j].verdict = "booked"}
CostIn(ts, n, E) == SumFunction([j \in {k \in BookedIn(ts, n) : ts[k].offer.event \in E} |->
                                    BookedCost(ts[j])])
HeldOn(ps, E)    == SumFunction([i \in {k \in DOMAIN ps : ps[k].event \in E} |-> ps[i].cost])

RoomIn(ts, n, o) ==
    /\ Cardinality(BookedIn(ts, n)) < MaxConcurrent
    /\ CostIn(ts, n, {o.event}) + Capital(o) <= MaxPerEvent
    /\ ThemeOf[o.event] # NoTheme =>
          CostIn(ts, n, SameTheme(o.event)) + Capital(o) <= MaxPerTheme
    /\ CostIn(ts, n, Event) + Capital(o) <= StartingCapital

LEMMA TheseAreThose ==
    /\ \A n : BookedBy(n) = BookedIn(trades, n)
    /\ \A n, E : CostBy(n, E) = CostIn(trades, n, E)
    /\ \A n, o : LeavesRoom(n, o) <=> RoomIn(trades, n, o)
<1>1. \A n : BookedBy(n) = BookedIn(trades, n)
  BY DEF BookedBy, BookedIn
<1>2. \A n, E : CostBy(n, E) = CostIn(trades, n, E)
  BY <1>1 DEF CostBy, CostIn
<1> QED  BY <1>1, <1>2 DEF LeavesRoom, RoomIn

(* What was booked stays as it was booked, and so does all that is counted *)
(* from it.                                                                *)
BookedAlike(ts, us, n) ==
    \A j \in 1 .. n : /\ ts[j].verdict = "booked" <=> us[j].verdict = "booked"
                      /\ ts[j].verdict = "booked" => us[j] = ts[j]

LEMMA SameBooked ==
    ASSUME NEW ts, NEW us, NEW n \in Nat, BookedAlike(ts, us, n)
    PROVE  /\ BookedIn(us, n) = BookedIn(ts, n)
           /\ \A E : CostIn(us, n, E) = CostIn(ts, n, E)
           /\ \A o : RoomIn(us, n, o) <=> RoomIn(ts, n, o)
<1>1. BookedIn(us, n) = BookedIn(ts, n)
  BY DEF BookedIn, BookedAlike
<1>2. \A j \in BookedIn(ts, n) : us[j] = ts[j]
  BY DEF BookedIn, BookedAlike
<1>3. ASSUME NEW E
      PROVE  CostIn(us, n, E) = CostIn(ts, n, E)
  <2>1. {k \in BookedIn(us, n) : us[k].offer.event \in E}
            = {k \in BookedIn(ts, n) : ts[k].offer.event \in E}
    BY <1>1, <1>2
  <2> QED  BY <1>2, <2>1 DEF CostIn
<1> QED  BY <1>1, <1>3 DEF RoomIn

LEMMA CostInIsInt ==
    ASSUME NEW ts \in Seq(Trade), NEW n \in 0 .. Len(ts)
    PROVE  /\ IsFiniteSet(BookedIn(ts, n))
           /\ \A j \in BookedIn(ts, n) : j \in DOMAIN ts /\ BookedCost(ts[j]) \in Int
           /\ \A E : CostIn(ts, n, E) \in Int
<1>1. n \in Nat /\ DOMAIN ts = 1 .. Len(ts) /\ Len(ts) \in Nat
  OBVIOUS
<1>2. IsFiniteSet(1 .. n) /\ BookedIn(ts, n) \subseteq 1 .. n /\ 1 .. n \subseteq DOMAIN ts
  <2>1. IsFiniteSet(1 .. n)
    BY <1>1, FS_Interval
  <2>2. BookedIn(ts, n) \subseteq 1 .. n /\ 1 .. n \subseteq DOMAIN ts
    BY <1>1 DEF BookedIn
  <2> QED  BY <2>1, <2>2
<1>3. IsFiniteSet(BookedIn(ts, n))
  BY <1>2, FS_Subset
<1>4. \A j \in BookedIn(ts, n) : j \in DOMAIN ts /\ BookedCost(ts[j]) \in Int
  <2>1. \A j \in DOMAIN ts : BookedCost(ts[j]) \in Nat
    BY BookedCostIsNat
  <2> QED  BY <1>2, <2>1
<1>5. ASSUME NEW E
      PROVE  CostIn(ts, n, E) \in Int
  <2> DEFINE S == {k \in BookedIn(ts, n) : ts[k].offer.event \in E}
             f == [j \in S |-> BookedCost(ts[j])]
  <2>1. IsFiniteSet(S)
    BY <1>3, FS_Subset
  <2>2. \A j \in S : f[j] \in Int
    BY <1>4
  <2>3. SumFunctionOnSet(f, S) \in Int
    BY <2>1, <2>2, SumInt
  <2> QED  BY <2>3 DEF CostIn, SumFunction
<1> QED  BY <1>3, <1>4, <1>5

(* One more trade booked is one more in the count, at its cost.            *)
LEMMA OneMoreBooked ==
    ASSUME NEW ts \in Seq(Trade), NEW us \in Seq(Trade), NEW n \in Nat,
           Len(ts) = n + 1, Len(us) = n + 1,
           \A j \in 1 .. n : us[j] = ts[j],
           ts[n + 1].verdict # "booked", us[n + 1].verdict = "booked"
    PROVE  /\ Cardinality(BookedIn(us, n + 1)) = Cardinality(BookedIn(ts, n + 1)) + 1
           /\ \A E : CostIn(us, n + 1, E) = IF us[n + 1].offer.event \in E
                                           THEN CostIn(ts, n + 1, E) + BookedCost(us[n + 1])
                                           ELSE CostIn(ts, n + 1, E)
<1> DEFINE A == BookedIn(ts, n + 1)
           m == n + 1
<1>1. m \in 0 .. Len(ts) /\ m \in 0 .. Len(us) /\ m \in 1 .. m /\ m \notin 1 .. n
      /\ 1 .. m = (1 .. n) \cup {m} /\ m \in DOMAIN us
  OBVIOUS
<1>2. BookedIn(us, m) = A \cup {m} /\ m \notin A /\ A \subseteq 1 .. n
  BY <1>1 DEF BookedIn
<1>3. IsFiniteSet(A) /\ \A j \in A : BookedCost(ts[j]) \in Int
  BY <1>1, CostInIsInt
<1>4. Cardinality(A \cup {m}) = Cardinality(A) + 1
  BY <1>2, <1>3, FS_AddElement
<1>5. BookedCost(us[m]) \in Int
  BY <1>1, BookedCostIsNat
<1>6. ASSUME NEW E
      PROVE  CostIn(us, m, E) = IF us[m].offer.event \in E
                                THEN CostIn(ts, m, E) + BookedCost(us[m]) ELSE CostIn(ts, m, E)
  <2> DEFINE S == {k \in A : ts[k].offer.event \in E}
             T == {k \in A \cup {m} : us[k].offer.event \in E}
             f == [j \in S |-> BookedCost(ts[j])]
             g == [j \in T |-> BookedCost(us[j])]
  <2>1. CostIn(ts, m, E) = SumFunctionOnSet(f, S) /\ CostIn(us, m, E) = SumFunctionOnSet(g, T)
    BY <1>2 DEF CostIn, SumFunction
  <2>2. \A k \in A : us[k] = ts[k]
    BY <1>2
  <2>3. IsFiniteSet(S) /\ m \notin S
    BY <1>2, <1>3, FS_Subset
  <2>4. \A j \in S : j \in T /\ g[j] = f[j] /\ g[j] \in Int
    BY <1>3, <2>2
  <2>5. SumFunctionOnSet(g, S) = SumFunctionOnSet(f, S)
    <3> HIDE DEF f, g, S, T
    <3> QED  BY <2>3, <2>4, SumSame
  <2>6. CASE us[m].offer.event \in E
    <3>1. T = S \cup {m} /\ g[m] = BookedCost(us[m])
      BY <2>2, <2>6
    <3>2. \A x \in S \cup {m} : g[x] \in Int
      BY <1>5, <2>4, <3>1
    <3>3. SumFunctionOnSet(g, S \cup {m}) = SumFunctionOnSet(g, S) + g[m]
      <4> HIDE DEF g, S, T
      <4> QED  BY <2>3, <3>2, SumAdd
    <3> QED  BY <2>1, <2>5, <2>6, <3>1, <3>3
  <2>7. CASE us[m].offer.event \notin E
    <3>1. T = S
      BY <2>2, <2>7
    <3> QED  BY <2>1, <2>5, <2>7, <3>1
  <2> QED  BY <2>6, <2>7
<1> QED  BY <1>2, <1>4, <1>6

-----------------------------------------------------------------------------
(* The invariant.  A position is one that nothing has settled.             *)
Position ==
    [event : Event, legs : UNION {[DOMAIN o.legs -> [outcome : Outcome, side : {"yes", "no"},
                                                      qty : Nat]] : o \in Offers},
     cost : Nat, resolved : {FALSE}, pnl : {0}, mark : {0}]

Types ==
    /\ trades \in Seq(Trade) /\ plans \in Seq(Offers) /\ positions \in Seq(Position)
    /\ before \in 0 .. Len(trades) /\ capital \in Nat

(* The engine is told no more than what happened, and its verdict is what  *)
(* it was told.                                                            *)
Honest(t) ==
    /\ \A k \in Legs(t) : /\ t.reply[k] = "fill"    => t.fate[k] = "filled"
                          /\ t.reply[k] = "refusal" => t.fate[k] = "refused"
    /\ t.verdict = "booked" => \A k \in Legs(t) : t.reply[k] = "fill"
    /\ t.verdict = "missed" => \A k \in Legs(t) : t.reply[k] \in {"refusal", "unknown"}

AllHonest == \A i \in DOMAIN trades : Honest(trades[i])

(* Trades run one at a time, and after the batches before their own.       *)
InTurn ==
    \A i \in DOMAIN trades :
        /\ trades[i].before <= before /\ trades[i].before < i
        /\ trades[i].verdict = "running" => i = Len(trades) /\ before < i

(* The account's positions are the executor's booked trades, in number and *)
(* in cost, on whatever events one looks.                                  *)
Ledger ==
    /\ capital + HeldOn(positions, Event) = StartingCapital
    /\ Len(positions) = Cardinality(BookedIn(trades, Len(trades)))
    /\ \A E : HeldOn(positions, E) = CostIn(trades, Len(trades), E)

(* There is room for what was admitted, and there was for what was placed. *)
Room ==
    /\ \A i \in DOMAIN trades : RoomIn(trades, trades[i].before, trades[i].offer)
    /\ \A i \in DOMAIN plans  : RoomIn(trades, before, plans[i])

TradeInv == Types /\ AllHonest /\ InTurn /\ Ledger /\ Room

LEMMA TradeEdits ==
    ASSUME NEW t \in Trade
    PROVE  /\ \A f \in [Legs(t) -> Fate] :
                  [t EXCEPT !.fate = f] \in Trade
           /\ \A r \in [Legs(t) -> Reply] :
                  [t EXCEPT !.reply = r] \in Trade
           /\ \A c \in [Legs(t) -> Nat] :
                  [t EXCEPT !.paid = c] \in Trade
           /\ \A v \in Verdict :
                  [t EXCEPT !.verdict = v] \in Trade
<1>1. t.offer \in Offers /\ t \in TradesOf(t.offer) /\ Legs(t) = DOMAIN t.offer.legs
  BY TradeFields
<1>2. \A f \in [Legs(t) -> Fate] : [t EXCEPT !.fate = f] \in TradesOf(t.offer)
  BY <1>1 DEF TradesOf
<1>3. \A r \in [Legs(t) -> Reply] : [t EXCEPT !.reply = r] \in TradesOf(t.offer)
  BY <1>1 DEF TradesOf
<1>4. \A c \in [Legs(t) -> Nat] : [t EXCEPT !.paid = c] \in TradesOf(t.offer)
  BY <1>1 DEF TradesOf
<1>5. \A v \in Verdict : [t EXCEPT !.verdict = v] \in TradesOf(t.offer)
  BY <1>1 DEF TradesOf
<1> QED  BY <1>1, <1>2, <1>3, <1>4, <1>5 DEF Trade

(* One trade learns something, and is not booked by it.                    *)
LEMMA OneTradeChanges ==
    ASSUME TradeInv, NEW i \in DOMAIN trades, NEW q \in Trade, Honest(q),
           trades' = [trades EXCEPT ![i] = q],
           q.offer = trades[i].offer, q.before = trades[i].before,
           trades[i].verdict # "booked", q.verdict # "booked",
           q.verdict = "running" => trades[i].verdict = "running",
           UNCHANGED <<account, plans, before>>
    PROVE  TradeInv'
<1>1. trades \in Seq(Trade) /\ DOMAIN trades = 1 .. Len(trades) /\ Len(trades) \in Nat
      /\ before \in 0 .. Len(trades)
  BY DEF TradeInv, Types
<1>2. /\ trades' \in Seq(Trade) /\ Len(trades') = Len(trades) /\ DOMAIN trades' = DOMAIN trades
      /\ trades'[i] = q /\ \A j \in DOMAIN trades : j # i => trades'[j] = trades[j]
  BY <1>1
<1>3. Types'
  BY <1>2 DEF TradeInv, Types, account
<1>4. AllHonest'
  BY <1>2 DEF TradeInv, AllHonest
<1>5. InTurn'
  BY <1>2 DEF TradeInv, InTurn
<1>6. \A n \in 0 .. Len(trades) :
          /\ BookedIn(trades', n) = BookedIn(trades, n)
          /\ \A E : CostIn(trades', n, E) = CostIn(trades, n, E)
          /\ \A o : RoomIn(trades', n, o) <=> RoomIn(trades, n, o)
  <2> TAKE n \in 0 .. Len(trades)
  <2>1. n \in Nat /\ \A j \in 1 .. n : j \in DOMAIN trades
    BY <1>1
  <2>2. BookedAlike(trades, trades', n)
    BY <1>2, <2>1 DEF BookedAlike
  <2>3. BookedIn(trades', n) = BookedIn(trades, n)
    BY <2>1, <2>2, SameBooked
  <2>4. \A E : CostIn(trades', n, E) = CostIn(trades, n, E)
    BY <2>1, <2>2, SameBooked
  <2>5. \A o : RoomIn(trades', n, o) <=> RoomIn(trades, n, o)
    BY <2>1, <2>2, SameBooked
  <2> QED  BY <2>3, <2>4, <2>5
<1>7. Ledger'
  <2>1. capital' = capital /\ positions' = positions
    BY DEF account
  <2>2. Len(trades) \in 0 .. Len(trades) /\ Len(trades') = Len(trades)
    BY <1>1, <1>2
  <2>3. BookedIn(trades', Len(trades')) = BookedIn(trades, Len(trades))
    BY <1>6, <2>2
  <2>4. \A E : CostIn(trades', Len(trades'), E) = CostIn(trades, Len(trades), E)
    BY <1>6, <2>2
  <2> QED  BY <2>1, <2>3, <2>4 DEF TradeInv, Ledger
<1>8. Room'
  <2>1. \A j \in DOMAIN trades : /\ trades'[j].before = trades[j].before
                                 /\ trades'[j].offer = trades[j].offer
                                 /\ trades[j].before \in 0 .. Len(trades)
    <3>1. \A j \in DOMAIN trades : trades[j].before \in Nat
      BY <1>1, TradeFields
    <3> QED  BY <1>1, <1>2, <3>1 DEF TradeInv, InTurn
  <2> QED  BY <1>1, <1>2, <1>6, <2>1 DEF TradeInv, Room
<1> QED  BY <1>3, <1>4, <1>5, <1>7, <1>8 DEF TradeInv

-----------------------------------------------------------------------------
(* The venue and the answers.                                              *)
LEMMA VenueSideKeeps ==
    ASSUME TradeInv, VenueSide
    PROVE  TradeInv'
<1>0. PICK i \in DOMAIN trades :
          \E k \in Legs(trades[i]) : VenueFills(i, k) \/ VenueRefuses(i, k)
  BY DEF VenueSide
<1>1. PICK k \in Legs(trades[i]) : VenueFills(i, k) \/ VenueRefuses(i, k)
  BY <1>0
<1> DEFINE t == trades[i]
           D == Legs(t)
           leg == t.offer.legs[k]
<1>2. t \in Trade /\ Honest(t)
  BY DEF TradeInv, Types, AllHonest
<1>3. t.offer \in Offers /\ D = DOMAIN t.offer.legs /\ t.fate \in [D -> Fate]
      /\ t.paid \in [D -> Nat] /\ t.verdict \in Verdict /\ t \in TradesOf(t.offer)
  BY <1>2, TradeFields
<1>4. t.fate[k] = "flying" /\ t.verdict # "booked"
  BY <1>1, <1>2 DEF VenueFills, VenueRefuses, Honest
<1>5. UNCHANGED <<account, plans, before>>
  BY <1>1 DEF VenueFills, VenueRefuses
<1>6. CASE VenueFills(i, k)
  <2>1. PICK move \in Moves :
            trades' = [trades EXCEPT ![i].fate[k] = "filled",
                                     ![i].paid[k] = IF move = "same" THEN LegCost(leg)
                                                    ELSE LimitPrice(leg) * leg.qty]
    BY <1>6 DEF VenueFills
  <2> DEFINE cost == IF move = "same" THEN LegCost(leg) ELSE LimitPrice(leg) * leg.qty
             f == [t.fate EXCEPT ![k] = "filled"]
             p == [t.paid EXCEPT ![k] = cost]
             q == [[t EXCEPT !.fate = f] EXCEPT !.paid = p]
  <2>2. cost \in Nat
    <3>1. LegCost(leg) \in Nat /\ LimitPrice(leg) \in Nat /\ leg.qty \in Nat
      BY <1>3, LegPrices, OfferLegs
    <3>2. \A m, n \in Nat : m * n \in Nat
      OBVIOUS
    <3> QED  BY <3>1, <3>2
  <2> HIDE DEF cost
  <2>3. f \in [D -> Fate] /\ p \in [D -> Nat]
    BY <1>3, <2>2 DEF Fate
  <2>4. q.offer = t.offer /\ q.before = t.before /\ q.verdict = t.verdict /\ q.reply = t.reply
        /\ q.fate = f /\ q.paid = p
    BY <1>3 DEF TradesOf
  <2>5. q \in Trade
    <3>1. [t EXCEPT !.fate = f] \in Trade
      BY <1>2, <2>3, TradeEdits
    <3>2. Legs([t EXCEPT !.fate = f]) = D
      BY <1>3 DEF Legs, TradesOf
    <3> QED  BY <2>3, <3>1, <3>2, TradeEdits
  <2>6. trades' = [trades EXCEPT ![i] = q]
    <3> DEFINE u == [t EXCEPT !.fate = f]
               a == [trades EXCEPT ![i].fate[k] = "filled"]
    <3>1. trades' = [a EXCEPT ![i].paid[k] = cost]
      BY <2>1, Zenon DEF cost
    <3>2. a = [trades EXCEPT ![i] = u]
      BY Zenon
    <3>3. u.paid = t.paid
      BY <1>3 DEF TradesOf
    <3> HIDE DEF u, a
    <3>4. trades' = [a EXCEPT ![i] = [a[i] EXCEPT !.paid = [a[i].paid EXCEPT ![k] = cost]]]
      BY <3>1, Zenon
    <3>5. a[i] = u
      BY <3>2 DEF TradeInv, Types
    <3>6. trades' = [a EXCEPT ![i] = [u EXCEPT !.paid = p]]
      BY <3>3, <3>4, <3>5
    <3>7. trades' = [trades EXCEPT ![i] = [u EXCEPT !.paid = p]]
      BY <3>2, <3>6 DEF TradeInv, Types
    <3> QED  BY <3>7 DEF u
  <2>7. Honest(q)
    <3>1. Legs(q) = D
      BY <2>4 DEF Legs
    <3> HIDE DEF q
    <3>2. \A j \in D : j # k => f[j] = t.fate[j]
      BY <1>3
    <3>3. f[k] = "filled" /\ t.reply[k] # "refusal"
      BY <1>2, <1>3, <1>4 DEF Honest
    <3> HIDE DEF f
    <3> QED  BY <1>2, <1>4, <2>4, <3>1, <3>2, <3>3 DEF Honest
  <2> HIDE DEF q
  <2> QED  BY <1>4, <1>5, <2>4, <2>5, <2>6, <2>7, OneTradeChanges
<1>7. CASE VenueRefuses(i, k)
  <2> DEFINE f == [t.fate EXCEPT ![k] = "refused"]
             q == [t EXCEPT !.fate = f]
  <2>1. trades' = [trades EXCEPT ![i] = q]
    BY <1>7, Zenon DEF VenueRefuses
  <2>2. f \in [D -> Fate]
    BY <1>3 DEF Fate
  <2>3. q \in Trade
    BY <1>2, <2>2, TradeEdits
  <2>4. q.offer = t.offer /\ q.before = t.before /\ q.verdict = t.verdict /\ q.reply = t.reply
        /\ q.fate = f
    BY <1>3 DEF TradesOf
  <2>5. Honest(q)
    <3>1. Legs(q) = D
      BY <2>4 DEF Legs
    <3> HIDE DEF q
    <3>2. \A j \in D : j # k => f[j] = t.fate[j]
      BY <1>3
    <3>3. f[k] = "refused" /\ t.reply[k] # "fill"
      BY <1>2, <1>3, <1>4 DEF Honest
    <3> HIDE DEF f
    <3> QED  BY <1>2, <1>4, <2>4, <3>1, <3>2, <3>3 DEF Honest
  <2> HIDE DEF q
  <2> QED  BY <1>4, <1>5, <2>1, <2>3, <2>4, <2>5, OneTradeChanges
<1> QED  BY <1>1, <1>6, <1>7

LEMMA LastTrade ==
    ASSUME TradeInv, Running
    PROVE  /\ Len(trades) \in DOMAIN trades /\ Last(trades) = trades[Len(trades)]
           /\ trades[Len(trades)] \in Trade /\ Honest(trades[Len(trades)])
           /\ trades[Len(trades)].verdict = "running"
<1>1. trades \in Seq(Trade) /\ trades # <<>> /\ Last(trades).verdict = "running"
  BY DEF TradeInv, Types, Running
<1>2. Len(trades) \in DOMAIN trades
  BY <1>1
<1> QED  BY <1>1, <1>2 DEF Last, TradeInv, AllHonest

LEMMA ToldKeeps ==
    ASSUME TradeInv, NEW k \in Legs(Last(trades)), NEW r \in Reply, Told(k, r),
           r = "fill" => Last(trades).fate[k] = "filled",
           r = "refusal" => Last(trades).fate[k] = "refused"
    PROVE  TradeInv'
<1> DEFINE i == Len(trades)
           t == trades[i]
           f == [t.reply EXCEPT ![k] = r]
           q == [t EXCEPT !.reply = f]
<1>1. Running /\ trades[i].reply[k] = "none" /\ UNCHANGED <<account, plans, before>>
      /\ trades' = [trades EXCEPT ![i].reply[k] = r]
  BY DEF Told
<1>2. i \in DOMAIN trades /\ t \in Trade /\ Honest(t) /\ t.verdict = "running" /\ Last(trades) = t
  BY <1>1, LastTrade
<1>3. t \in TradesOf(t.offer) /\ t.reply \in [Legs(t) -> Reply] /\ k \in Legs(t)
  BY <1>2, TradeFields
<1>4. trades' = [trades EXCEPT ![i] = q]
  BY <1>1, Zenon
<1>5. f \in [Legs(t) -> Reply]
  BY <1>3
<1>6. q \in Trade
  BY <1>2, <1>5, TradeEdits
<1>7. q.offer = t.offer /\ q.before = t.before /\ q.verdict = t.verdict /\ q.reply = f
      /\ q.fate = t.fate
  BY <1>3 DEF TradesOf
<1>8. Honest(q)
  <2>1. Legs(q) = Legs(t)
    BY <1>7 DEF Legs
  <2>2. f[k] = r /\ \A j \in Legs(t) : j # k => f[j] = t.reply[j]
    BY <1>3
  <2> HIDE DEF q, f, t
  <2> QED  BY <1>2, <1>7, <2>1, <2>2 DEF Honest
<1> HIDE DEF q, f
<1> QED  BY <1>1, <1>2, <1>4, <1>6, <1>7, <1>8, OneTradeChanges

LEMMA RepliesKeep ==
    ASSUME TradeInv, Replies
    PROVE  TradeInv'
<1>1. PICK k \in Legs(Last(trades)) : AnswerFill(k) \/ AnswerRefusal(k) \/ TransportError(k)
  BY DEF Replies
<1>2. CASE AnswerFill(k)
  BY <1>2, ToldKeeps DEF AnswerFill, Reply
<1>3. CASE AnswerRefusal(k)
  BY <1>3, ToldKeeps DEF AnswerRefusal, Reply
<1>4. CASE TransportError(k)
  BY <1>4, ToldKeeps DEF TransportError, Reply
<1> QED  BY <1>1, <1>2, <1>3, <1>4

(* The trade is over, and nothing is booked.                               *)
LEMMA CloseKeeps ==
    ASSUME TradeInv, Running, NEW v \in {"rejected", "missed", "legged", "timeout"}, Close(v),
           v = "missed" => \A k \in Legs(Last(trades)) :
                               Last(trades).reply[k] \in {"refusal", "unknown"},
           UNCHANGED <<account, plans, before>>
    PROVE  TradeInv'
<1> DEFINE i == Len(trades)
           t == trades[i]
           q == [t EXCEPT !.verdict = v]
<1>1. trades' = [trades EXCEPT ![i] = q]
  BY Zenon DEF Close
<1>2. i \in DOMAIN trades /\ t \in Trade /\ Honest(t) /\ t.verdict = "running" /\ Last(trades) = t
  BY LastTrade
<1>3. t \in TradesOf(t.offer)
  BY <1>2, TradeFields
<1>4. q \in Trade
  BY <1>2, TradeEdits DEF Verdict
<1>5. q.offer = t.offer /\ q.before = t.before /\ q.verdict = v /\ q.reply = t.reply
      /\ q.fate = t.fate
  BY <1>3 DEF TradesOf
<1>6. Honest(q)
  <2>1. Legs(q) = Legs(t)
    BY <1>5 DEF Legs
  <2> HIDE DEF q, t
  <2> QED  BY <1>2, <1>5, <2>1 DEF Honest
<1> HIDE DEF q
<1> QED  BY <1>1, <1>2, <1>4, <1>5, <1>6, OneTradeChanges

LEMMA NotBookedKeeps ==
    ASSUME TradeInv, NoFills \/ Legged \/ Timeout
    PROVE  TradeInv'
<1>1. CASE NoFills
  <2>1. Running /\ Close("missed") /\ UNCHANGED <<account, plans, before>>
    BY <1>1 DEF NoFills, Answered
  <2>2. \A k \in Legs(Last(trades)) : Last(trades).reply[k] \in {"refusal", "unknown"}
    <3>1. Last(trades).reply \in [Legs(Last(trades)) -> Reply]
      BY <2>1, LastTrade, TradeFields
    <3>2. \A k \in Legs(Last(trades)) : /\ Last(trades).reply[k] # "none"
                                        /\ Last(trades).reply[k] # "fill"
      BY <1>1 DEF NoFills, Answered, Filled
    <3> QED  BY <3>1, <3>2 DEF Reply
  <2> QED  BY <2>1, <2>2, CloseKeeps
<1>2. CASE Legged
  BY <1>2, CloseKeeps DEF Legged, Answered
<1>3. CASE Timeout
  BY <1>3, CloseKeeps DEF Timeout
<1> QED  BY <1>1, <1>2, <1>3

-----------------------------------------------------------------------------
(* Booking.                                                                *)
LEMMA OneMoreHeld ==
    ASSUME NEW ps \in Seq(Position), NEW p \in Position, NEW E
    PROVE  /\ HeldOn(ps, E) \in Int
           /\ HeldOn(Append(ps, p), E) = IF p.event \in E THEN HeldOn(ps, E) + p.cost
                                         ELSE HeldOn(ps, E)
<1> DEFINE qs == Append(ps, p)
           m == Len(ps) + 1
           S == {k \in DOMAIN ps : ps[k].event \in E}
           T == {k \in DOMAIN qs : qs[k].event \in E}
           f == [i \in S |-> ps[i].cost]
           g == [i \in T |-> qs[i].cost]
<1>1. DOMAIN ps = 1 .. Len(ps) /\ Len(ps) \in Nat /\ DOMAIN qs = (DOMAIN ps) \cup {m}
      /\ m \notin DOMAIN ps /\ qs[m] = p /\ \A k \in DOMAIN ps : qs[k] = ps[k] /\ ps[k] \in Position
  OBVIOUS
<1>2. HeldOn(ps, E) = SumFunctionOnSet(f, S) /\ HeldOn(qs, E) = SumFunctionOnSet(g, T)
  BY DEF HeldOn, SumFunction
<1>3. IsFiniteSet(S) /\ m \notin S
  <2>1. IsFiniteSet(1 .. Len(ps))
    BY <1>1, FS_Interval
  <2> QED  BY <1>1, <2>1, FS_Subset
<1>4. p.cost \in Int /\ \A k \in DOMAIN ps : ps[k].cost \in Int
  <2>1. \A x \in Position : x.cost \in Nat
    BY DEF Position
  <2> QED  BY <1>1, <2>1
<1>5. \A k \in S : k \in T /\ g[k] = f[k] /\ f[k] \in Int /\ g[k] \in Int
  BY <1>1, <1>4
<1>6. SumFunctionOnSet(g, S) = SumFunctionOnSet(f, S) /\ SumFunctionOnSet(f, S) \in Int
  <2> HIDE DEF f, g, S, T
  <2> QED  BY <1>3, <1>5, SumSame, SumInt
<1>7. CASE p.event \in E
  <2>1. T = S \cup {m} /\ g[m] = p.cost
    BY <1>1, <1>7
  <2>2. SumFunctionOnSet(g, S \cup {m}) = SumFunctionOnSet(g, S) + g[m]
    <3>1. \A k \in S \cup {m} : g[k] \in Int
      BY <1>4, <1>5, <2>1
    <3> HIDE DEF f, g, S, T
    <3> QED  BY <1>3, <3>1, SumAdd
  <2> QED  BY <1>2, <1>6, <1>7, <2>1, <2>2
<1>8. CASE p.event \notin E
  <2>1. T = S
    BY <1>1, <1>8
  <2> QED  BY <1>2, <1>6, <1>8, <2>1
<1> QED  BY <1>7, <1>8

LEMMA PositionOfTrade ==
    ASSUME NEW t \in Trade
    PROVE  LET p == PositionFrom(t) IN
           p \in Position /\ p.event = t.offer.event /\ p.cost = BookedCost(t)
<1> DEFINE ls == [k \in Legs(t) |-> [outcome |-> t.offer.legs[k].outcome,
                                     side    |-> t.offer.legs[k].side,
                                     qty     |-> t.offer.legs[k].qty]]
<1>1. t.offer \in Offers /\ Legs(t) = DOMAIN t.offer.legs
  BY TradeFields
<1>2. t.offer.event \in Event /\ \A k \in Legs(t) : t.offer.legs[k] \in Leg
  BY <1>1, OfferAssumption
<1>3. ls \in [Legs(t) -> [outcome : Outcome, side : {"yes", "no"}, qty : Nat]]
  BY <1>2 DEF Leg
<1>4. BookedCost(t) \in Nat
  BY BookedCostIsNat
<1> HIDE DEF ls
<1>5. NewPosition(t.offer.event, ls, BookedCost(t)) \in Position
  BY <1>1, <1>2, <1>3, <1>4 DEF NewPosition, Position
<1>6. PositionFrom(t) = NewPosition(t.offer.event, ls, BookedCost(t))
  BY DEF PositionFrom, ls
<1> QED  BY <1>5, <1>6 DEF NewPosition

LEMMA BookKeeps ==
    ASSUME TradeInv, Book
    PROVE  TradeInv'
<1> DEFINE i == Len(trades)
           t == trades[i]
           p == PositionFrom(t)
           q == [t EXCEPT !.verdict = "booked"]
<1>1. Running /\ Filled(Last(trades)) = Legs(Last(trades)) /\ UNCHANGED <<plans, before>>
  BY DEF Book, Answered
<1>2. i \in DOMAIN trades /\ t \in Trade /\ Honest(t) /\ t.verdict = "running" /\ Last(trades) = t
  BY <1>1, LastTrade
<1>3. CASE ~Accepts(p.cost) /\ Close("rejected") /\ UNCHANGED account
  BY <1>1, <1>3, CloseKeeps
<1>4. CASE AddPosition(p) /\ Close("booked")
  <2>1. p \in Position /\ p.event = t.offer.event /\ p.cost = BookedCost(t)
    BY <1>2, PositionOfTrade
  <2>2. positions' = Append(positions, p) /\ capital' = capital - p.cost /\ capital >= p.cost
    BY <1>4 DEF AddPosition, Accepts, CanAfford
  <2>3. trades' = [trades EXCEPT ![i] = q]
    BY <1>4, Zenon DEF Close
  <2>4. trades \in Seq(Trade) /\ positions \in Seq(Position) /\ capital \in Nat
        /\ before \in 0 .. i /\ i \in Nat /\ DOMAIN trades = 1 .. i /\ i >= 1
    BY <1>2 DEF TradeInv, Types
  <2>5. q \in Trade
    BY <1>2, TradeEdits DEF Verdict
  <2>6. q.offer = t.offer /\ q.before = t.before /\ q.verdict = "booked" /\ q.reply = t.reply
        /\ q.fate = t.fate /\ q.paid = t.paid
    <3>1. t \in TradesOf(t.offer)
      BY <1>2, TradeFields
    <3> QED  BY <3>1 DEF TradesOf
  <2>7. BookedCost(q) = p.cost /\ p.cost \in Nat
    <3>1. Legs(q) = Legs(t)
      BY <2>6 DEF Legs
    <3> HIDE DEF q, p, t
    <3>2. BookedCost(q) = BookedCost(t)
      BY <2>6, <3>1 DEF BookedCost
    <3> QED  BY <2>1, <3>2, <1>2, BookedCostIsNat
  <2>8. Honest(q)
    <3>1. Legs(q) = Legs(t) /\ \A k \in Legs(t) : t.reply[k] = "fill"
      BY <1>1, <1>2, <2>6 DEF Legs, Filled
    <3> HIDE DEF q, t
    <3> QED  BY <1>2, <2>6, <3>1 DEF Honest
  <2> HIDE DEF p, q
  <2>9. /\ trades' \in Seq(Trade) /\ Len(trades') = i /\ DOMAIN trades' = DOMAIN trades
        /\ trades'[i] = q /\ \A j \in DOMAIN trades : j # i => trades'[j] = trades[j]
    BY <1>2, <2>3, <2>4, <2>5
  <2>10. Types'
    BY <1>1, <2>1, <2>2, <2>4, <2>7, <2>9 DEF TradeInv, Types
  <2>11. AllHonest'
    BY <2>8, <2>9 DEF TradeInv, AllHonest
  <2>12. InTurn'
    BY <1>1, <1>2, <2>6, <2>9 DEF TradeInv, InTurn
  <2>13. PICK n \in Nat : i = n + 1
    <3>1. i - 1 \in Nat /\ i = (i - 1) + 1
      BY <2>4
    <3> QED  BY <3>1
  <2>14. /\ Cardinality(BookedIn(trades', i)) = Cardinality(BookedIn(trades, i)) + 1
         /\ \A E : CostIn(trades', i, E) = IF q.offer.event \in E
                                           THEN CostIn(trades, i, E) + BookedCost(q)
                                           ELSE CostIn(trades, i, E)
    <3>1. \A j \in 1 .. n : trades'[j] = trades[j]
      BY <2>4, <2>9, <2>13
    <3>2. /\ trades \in Seq(Trade) /\ trades' \in Seq(Trade) /\ n \in Nat
          /\ Len(trades) = n + 1 /\ Len(trades') = n + 1
          /\ trades[n + 1].verdict # "booked" /\ trades'[n + 1] = q /\ q.verdict = "booked"
      BY <1>2, <2>4, <2>6, <2>9, <2>13
    <3> DEFINE us == trades'
    <3>3. us \in Seq(Trade) /\ Len(us) = n + 1 /\ us[n + 1] = q /\ \A j \in 1 .. n : us[j] = trades[j]
      BY <3>1, <3>2
    <3> HIDE DEF us
    <3>4. Cardinality(BookedIn(us, n + 1)) = Cardinality(BookedIn(trades, n + 1)) + 1
      BY <3>2, <3>3, OneMoreBooked
    <3>5. \A E : CostIn(us, n + 1, E) = IF q.offer.event \in E
                                        THEN CostIn(trades, n + 1, E) + BookedCost(q)
                                        ELSE CostIn(trades, n + 1, E)
      BY <3>2, <3>3, OneMoreBooked
    <3> QED  BY <2>13, <3>4, <3>5 DEF us
  <2>15. Ledger'
    <3>1. capital' + HeldOn(positions', Event) = StartingCapital
      <4>1. HeldOn(positions, Event) \in Int
            /\ HeldOn(positions', Event) = HeldOn(positions, Event) + p.cost
        BY <2>1, <2>2, <2>4, OneMoreHeld DEF Position
      <4>2. capital + HeldOn(positions, Event) = StartingCapital /\ capital' = capital - p.cost
        BY <2>2 DEF TradeInv, Ledger
      <4> QED  BY <2>4, <2>7, <4>1, <4>2
    <3>2. Len(positions') = Cardinality(BookedIn(trades', Len(trades')))
      BY <2>1, <2>2, <2>4, <2>9, <2>14 DEF TradeInv, Ledger
    <3>3. ASSUME NEW E
          PROVE  HeldOn(positions', E) = CostIn(trades', Len(trades'), E)
      <4>1. HeldOn(positions', E) = IF p.event \in E THEN HeldOn(positions, E) + p.cost
                                    ELSE HeldOn(positions, E)
        BY <2>1, <2>2, <2>4, OneMoreHeld
      <4>2. HeldOn(positions, E) = CostIn(trades, i, E)
        BY DEF TradeInv, Ledger
      <4> QED  BY <2>1, <2>6, <2>7, <2>9, <2>14, <4>1, <4>2
    <3> QED  BY <3>1, <3>2, <3>3 DEF Ledger
  <2>16. Room'
    <3>1. \A m \in 0 .. n : \A o : RoomIn(trades', m, o) <=> RoomIn(trades, m, o)
      <4> TAKE m \in 0 .. n
      <4>1. m \in Nat /\ \A j \in 1 .. m : j \in DOMAIN trades /\ j # i
        BY <2>4, <2>13
      <4>2. BookedAlike(trades, trades', m)
        BY <2>9, <4>1 DEF BookedAlike
      <4> QED  BY <4>1, <4>2, SameBooked
    <3>2. before \in 0 .. n
      BY <1>2, <2>4, <2>13 DEF TradeInv, InTurn
    <3>3. \A j \in DOMAIN trades : /\ trades'[j].before = trades[j].before
                                   /\ trades'[j].offer = trades[j].offer
                                   /\ trades[j].before \in 0 .. n
      <4>1. \A j \in DOMAIN trades : trades[j].before \in Nat
        BY <2>4, TradeFields
      <4> QED  BY <2>4, <2>6, <2>9, <2>13, <4>1 DEF TradeInv, InTurn
    <3> QED  BY <1>1, <2>9, <3>1, <3>2, <3>3 DEF TradeInv, Room
  <2> QED  BY <2>10, <2>11, <2>12, <2>15, <2>16 DEF TradeInv
<1> QED  BY <1>2, <1>3, <1>4 DEF Book

-----------------------------------------------------------------------------
(* Placing a trade, and admitting a batch.                                 *)
LEMMA NoneRunning ==
    ASSUME TradeInv, ~Running
    PROVE  \A i \in DOMAIN trades : trades[i].verdict # "running"
<1>1. SUFFICES ASSUME NEW i \in DOMAIN trades, trades[i].verdict = "running" PROVE FALSE
  OBVIOUS
<1>2. i = Len(trades) /\ trades \in Seq(Trade)
  BY <1>1 DEF TradeInv, InTurn, Types
<1>3. trades # <<>>
  BY <1>1, <1>2
<1> QED  BY <1>1, <1>2, <1>3 DEF Running, Last

LEMMA PlaceKeeps ==
    ASSUME TradeInv, Place
    PROVE  TradeInv'
<1> DEFINE o == Head(plans)
           t == TradeOf(o)
           n == Len(trades)
<1>1. ~Running /\ plans # <<>> /\ trades' = Append(trades, t) /\ plans' = Tail(plans)
      /\ UNCHANGED <<account, before>>
  BY DEF Place
<1>2. trades \in Seq(Trade) /\ plans \in Seq(Offers) /\ before \in 0 .. n /\ n \in Nat
      /\ DOMAIN trades = 1 .. n
  BY DEF TradeInv, Types
<1>3. o \in Offers /\ o = plans[1] /\ 1 \in DOMAIN plans /\ plans' \in Seq(Offers)
      /\ \A j \in DOMAIN plans' : j + 1 \in DOMAIN plans /\ plans'[j] = plans[j + 1]
  BY <1>1, <1>2
<1>4. t \in Trade /\ t.offer = o /\ t.before = before /\ t.verdict = "running"
  <2>1. t \in TradesOf(o)
    BY <1>2 DEF TradeOf, TradesOf, Fate, Reply, Verdict
  <2> QED  BY <1>3, <2>1 DEF Trade, TradeOf
<1>5. Honest(t)
  BY DEF Honest, Legs, TradeOf
<1> HIDE DEF t, o
<1>6. /\ trades' \in Seq(Trade) /\ Len(trades') = n + 1 /\ DOMAIN trades' = 1 .. n + 1
      /\ trades'[n + 1] = t /\ \A j \in DOMAIN trades : trades'[j] = trades[j]
  BY <1>1, <1>2, <1>4
<1>7. Types'
  BY <1>1, <1>2, <1>3, <1>6 DEF TradeInv, Types, account
<1>8. AllHonest'
  BY <1>2, <1>5, <1>6 DEF TradeInv, AllHonest
<1>9. InTurn'
  BY <1>1, <1>2, <1>4, <1>6, NoneRunning DEF TradeInv, InTurn
<1>10. \A m \in 0 .. n : /\ BookedIn(trades', m) = BookedIn(trades, m)
                         /\ \A E : CostIn(trades', m, E) = CostIn(trades, m, E)
                         /\ \A x : RoomIn(trades', m, x) <=> RoomIn(trades, m, x)
  <2> TAKE m \in 0 .. n
  <2>1. m \in Nat /\ \A j \in 1 .. m : j \in DOMAIN trades
    BY <1>2
  <2>2. BookedAlike(trades, trades', m)
    BY <1>6, <2>1 DEF BookedAlike
  <2>3. BookedIn(trades', m) = BookedIn(trades, m)
    BY <2>1, <2>2, SameBooked
  <2>4. \A E : CostIn(trades', m, E) = CostIn(trades, m, E)
    BY <2>1, <2>2, SameBooked
  <2>5. \A x : RoomIn(trades', m, x) <=> RoomIn(trades, m, x)
    BY <2>1, <2>2, SameBooked
  <2> QED  BY <2>3, <2>4, <2>5
<1>11. Ledger'
  <2>1. BookedIn(trades', n + 1) = BookedIn(trades', n)
    BY <1>2, <1>4, <1>6 DEF BookedIn
  <2>2. \A E : CostIn(trades', n + 1, E) = CostIn(trades', n, E)
    BY <2>1 DEF CostIn
  <2>3. BookedIn(trades', Len(trades')) = BookedIn(trades, n)
    BY <1>2, <1>6, <1>10, <2>1
  <2>4. \A E : CostIn(trades', Len(trades'), E) = CostIn(trades, n, E)
    BY <1>2, <1>6, <1>10, <2>2
  <2>5. capital' = capital /\ positions' = positions
    BY <1>1 DEF account
  <2> QED  BY <2>3, <2>4, <2>5 DEF TradeInv, Ledger
<1>12. Room'
  <2>1. \A j \in DOMAIN trades : /\ trades'[j] = trades[j] /\ trades[j].before \in 0 .. n
                                 /\ RoomIn(trades, trades[j].before, trades[j].offer)
    <3>1. \A j \in DOMAIN trades : trades[j].before \in Nat
      BY <1>2, TradeFields
    <3> QED  BY <1>2, <1>6, <3>1 DEF TradeInv, InTurn, Room
  <2>2. \A j \in DOMAIN plans : RoomIn(trades, before, plans[j])
    BY DEF TradeInv, Room
  <2>3. ASSUME NEW j \in DOMAIN trades'
        PROVE  RoomIn(trades', trades'[j].before, trades'[j].offer)
    <3>1. CASE j \in DOMAIN trades
      BY <1>10, <2>1, <3>1
    <3>2. CASE j = n + 1
      BY <1>2, <1>3, <1>4, <1>6, <1>10, <2>2, <3>2
    <3> QED  BY <1>2, <1>6, <3>1, <3>2
  <2>4. ASSUME NEW j \in DOMAIN plans'
        PROVE  RoomIn(trades', before', plans'[j])
    BY <1>1, <1>2, <1>3, <1>10, <2>2
  <2> QED  BY <2>3, <2>4 DEF Room
<1> QED  BY <1>7, <1>8, <1>9, <1>11, <1>12 DEF TradeInv

(* The gate reads the account; the trades booked so far say the same.      *)
LEMMA AdmittedHasRoom ==
    ASSUME TradeInv, NEW o \in Offers, Admits(o)
    PROVE  RoomIn(trades, Len(trades), o)
<1> DEFINE n == Len(trades)
<1>1. positions \in Seq(Position) /\ capital \in Nat
  BY DEF TradeInv, Types
<1>2. DOMAIN positions = 1 .. Len(positions) /\ Len(positions) \in Nat
  BY <1>1
<1>3. \A i \in DOMAIN positions : /\ positions[i].event \in Event
                                  /\ positions[i].resolved = FALSE
  <2>1. \A x \in Position : x.event \in Event /\ x.resolved = FALSE
    BY DEF Position
  <2> QED  BY <1>1, <2>1
<1>4. OpenIds = DOMAIN positions
  BY <1>3 DEF OpenIds
<1>5. Cardinality(OpenIds) = Len(positions)
  <2>1. Cardinality(1 .. Len(positions)) = IF 1 > Len(positions) THEN 0 ELSE Len(positions) - 1 + 1
    BY <1>2, FS_Interval
  <2> QED  BY <1>2, <1>4, <2>1
<1>6. ExposureTo(o.event) = HeldOn(positions, {o.event})
  <2>1. OpenOn(o.event) = {k \in DOMAIN positions : positions[k].event \in {o.event}}
    BY <1>4 DEF OpenOn
  <2> QED  BY <2>1 DEF ExposureTo, CostOf, HeldOn
<1>7. ThemeExposure(ThemeOf[o.event]) = HeldOn(positions, SameTheme(o.event))
  <2>1. {i \in OpenIds : ThemeOf[positions[i].event] = ThemeOf[o.event]}
            = {k \in DOMAIN positions : positions[k].event \in SameTheme(o.event)}
    BY <1>3, <1>4 DEF SameTheme
  <2> QED  BY <2>1 DEF ThemeExposure, CostOf, HeldOn
<1>8. /\ \A E : HeldOn(positions, E) = CostIn(trades, n, E)
      /\ Len(positions) = Cardinality(BookedIn(trades, n))
      /\ capital + HeldOn(positions, Event) = StartingCapital
  BY DEF TradeInv, Ledger
<1>9. /\ Cardinality(OpenIds) < MaxConcurrent /\ ExposureTo(o.event) + Capital(o) <= MaxPerEvent
      /\ ThemeOf[o.event] # NoTheme => ThemeExposure(ThemeOf[o.event]) + Capital(o) <= MaxPerTheme
      /\ capital >= Capital(o)
  BY DEF Admits, RiskAllows, CanAfford
<1>10. CostIn(trades, n, Event) + Capital(o) <= StartingCapital
  <2>1. CostIn(trades, n, Event) \in Int
    <3>1. trades \in Seq(Trade) /\ n \in 0 .. Len(trades)
      BY DEF TradeInv, Types
    <3> QED  BY <3>1, CostInIsInt
  <2>2. PICK c \in Int, h \in Int, e \in Int :
            c = capital /\ h = CostIn(trades, n, Event) /\ e = Capital(o)
    BY <1>1, <2>1, CapitalIsNat
  <2>3. c + h = StartingCapital /\ c >= e
    BY <1>8, <1>9, <2>2
  <2>4. h + e <= StartingCapital
    BY <2>2, <2>3
  <2> QED  BY <2>2, <2>4
<1> QED  BY <1>5, <1>6, <1>7, <1>8, <1>9, <1>10 DEF RoomIn

LEMMA MarketEventKeeps ==
    ASSUME TradeInv, NEW fromKalshi, NEW found \in SUBSET Offers, MarketEvent(fromKalshi, found)
    PROVE  TradeInv'
<1> DEFINE n == Len(trades)
<1>1. PICK h : ~Running /\ plans' \in Rankings(Admitted(found, h)) /\ before' = n
               /\ UNCHANGED <<account, trades>>
  BY DEF MarketEvent, Free
<1> DEFINE A == Admitted(found, h)
<1>2. A \subseteq Offers /\ \A o \in A : Admits(o)
  BY DEF Admitted
<1>3. IsFiniteSet(A) /\ Cardinality(A) \in Nat
  BY <1>2, OfferAssumption, FS_Subset, FS_CardinalityType
<1> HIDE DEF A
<1>4. plans' \in Seq(Offers) /\ \A j \in DOMAIN plans' : plans'[j] \in A
  <2>1. plans' \in [1 .. Cardinality(A) -> A]
    BY <1>1 DEF Rankings, SetToSeqs, A
  <2> QED  BY <1>2, <1>3, <2>1
<1>5. trades \in Seq(Trade) /\ before \in 0 .. n /\ n \in Nat /\ DOMAIN trades = 1 .. n
  BY DEF TradeInv, Types
<1>6. trades' = trades /\ positions' = positions /\ capital' = capital
  BY <1>1 DEF account
<1>7. Types'
  BY <1>1, <1>4, <1>5, <1>6 DEF TradeInv, Types
<1>8. AllHonest'
  BY <1>6 DEF TradeInv, AllHonest
<1>9. InTurn'
  <2>1. \A i \in DOMAIN trades : trades[i].before \in Nat
    BY <1>5, TradeFields
  <2> QED  BY <1>1, <1>5, <1>6, <2>1, NoneRunning DEF TradeInv, InTurn
<1>10. Ledger'
  BY <1>6 DEF TradeInv, Ledger
<1>11. Room'
  <2>1. \A i \in DOMAIN trades : RoomIn(trades, trades[i].before, trades[i].offer)
    BY DEF TradeInv, Room
  <2>2. \A o \in A : RoomIn(trades, n, o)
    BY <1>2, AdmittedHasRoom
  <2>3. \A j \in DOMAIN plans' : RoomIn(trades, n, plans'[j])
    BY <1>4, <2>2
  <2> QED  BY <1>1, <1>6, <2>1, <2>3 DEF Room
<1> QED  BY <1>7, <1>8, <1>9, <1>10, <1>11 DEF TradeInv

-----------------------------------------------------------------------------
(* The invariant is one.                                                   *)
LEMMA TradeInvInit ==
    ASSUME Init
    PROVE  TradeInv
<1>1. /\ trades = <<>> /\ plans = <<>> /\ positions = <<>> /\ before = 0
      /\ capital = StartingCapital /\ StartingCapital \in Nat
  BY AccountAssumption DEF Init, PortfolioInit
<1>2. Len(trades) = 0 /\ DOMAIN trades = {} /\ DOMAIN plans = {} /\ DOMAIN positions = {}
      /\ Len(positions) = 0
  BY <1>1
<1>3. \A E : HeldOn(positions, E) = 0
  <2> TAKE E
  <2>1. {k \in DOMAIN positions : positions[k].event \in E} = {}
    BY <1>2
  <2> DEFINE f == [i \in {} |-> positions[i].cost]
  <2>2. HeldOn(positions, E) = SumFunctionOnSet(f, {})
    BY <2>1 DEF HeldOn, SumFunction
  <2> QED  BY <2>2, SumEmpty
<1>4. BookedIn(trades, 0) = {}
  BY DEF BookedIn
<1>5. \A E : CostIn(trades, 0, E) = 0
  <2> TAKE E
  <2>1. {k \in BookedIn(trades, 0) : trades[k].offer.event \in E} = {}
    BY <1>4
  <2> DEFINE f == [j \in {} |-> BookedCost(trades[j])]
  <2>2. CostIn(trades, 0, E) = SumFunctionOnSet(f, {})
    BY <2>1 DEF CostIn, SumFunction
  <2> QED  BY <2>2, SumEmpty
<1>6. Cardinality(BookedIn(trades, 0)) = 0
  BY <1>4, FS_EmptySet
<1>7. Types
  BY <1>1 DEF Types
<1>8. Ledger
  BY <1>1, <1>2, <1>3, <1>5, <1>6 DEF Ledger
<1> QED  BY <1>2, <1>7, <1>8 DEF TradeInv, AllHonest, InTurn, Room

LEMMA StillsKeep ==
    ASSUME TradeInv, SocketLost \/ IdleBudgetPasses \/ SkipInferred \/ UNCHANGED vars
    PROVE  TradeInv'
<1>1. UNCHANGED <<account, trades, before>> /\ (plans' = plans \/ (plans' = Tail(plans) /\ plans # <<>>))
  BY DEF SocketLost, IdleBudgetPasses, SkipInferred, vars
<1>2. trades' = trades /\ positions' = positions /\ capital' = capital /\ before' = before
  BY <1>1 DEF account
<1>3. plans \in Seq(Offers)
  BY DEF TradeInv, Types
<1>4. plans' \in Seq(Offers) /\ \A j \in DOMAIN plans' : \E k \in DOMAIN plans : plans'[j] = plans[k]
  <2>1. CASE plans' = plans
    BY <1>3, <2>1
  <2>2. CASE plans' = Tail(plans) /\ plans # <<>>
    <3>1. plans' \in Seq(Offers)
          /\ \A j \in DOMAIN plans' : j + 1 \in DOMAIN plans /\ plans'[j] = plans[j + 1]
      BY <1>3, <2>2
    <3> QED  BY <3>1
  <2> QED  BY <1>1, <2>1, <2>2
<1>5. Types'
  BY <1>2, <1>4 DEF TradeInv, Types
<1>6. AllHonest' /\ InTurn' /\ Ledger'
  BY <1>2 DEF TradeInv, AllHonest, InTurn, Ledger
<1>7. Room'
  BY <1>2, <1>4 DEF TradeInv, Room
<1> QED  BY <1>5, <1>6, <1>7 DEF TradeInv

LEMMA TradeInvStep ==
    ASSUME TradeInv, [Next]_vars
    PROVE  TradeInv'
<1>1. CASE Feed
  <2>1. CASE \E fromKalshi \in BOOLEAN : \E n \in 0 .. Min({MaxBatch, MaxTrades - Len(trades)}) :
                \E found \in kSubset(n, Offers) : MarketEvent(fromKalshi, found)
    <3>1. PICK fromKalshi, n : \E found \in kSubset(n, Offers) : MarketEvent(fromKalshi, found)
      BY <2>1
    <3>2. PICK found \in kSubset(n, Offers) : MarketEvent(fromKalshi, found)
      BY <3>1
    <3>3. found \in SUBSET Offers
      BY DEF kSubset
    <3> QED  BY <3>2, <3>3, MarketEventKeeps
  <2> QED  BY <1>1, <2>1, StillsKeep DEF Feed
<1>2. CASE SkipInferred
  BY <1>2, StillsKeep
<1>3. CASE Place
  BY <1>3, PlaceKeeps
<1>4. CASE VenueSide
  BY <1>4, VenueSideKeeps
<1>5. CASE Replies
  BY <1>5, RepliesKeep
<1>6. CASE Closes
  BY <1>6, BookKeeps, NotBookedKeeps DEF Closes
<1>7. CASE UNCHANGED vars
  BY <1>7, StillsKeep
<1> QED  BY <1>1, <1>2, <1>3, <1>4, <1>5, <1>6, <1>7 DEF Next

LEMMA TradeInvHolds == Spec => []TradeInv
<1>1. Init => TradeInv
  BY TradeInvInit
<1>2. TradeInv /\ [Next]_vars => TradeInv'
  BY TradeInvStep
<1> QED  BY <1>1, <1>2, PTL DEF Spec

-----------------------------------------------------------------------------
(* health.rs, note_error and can_trade: from the failure that reaches the  *)
(* threshold, only a message from the venue makes it healthy.              *)
HealthInv ==
    /\ health \in HealthState /\ errors \in Nat /\ idle \in BOOLEAN
    /\ errors >= ErrorThreshold => health \in {"Erroring", "Disconnected"}

LEMMA HealthInvHolds == Spec => []HealthInv
<1>1. Init => HealthInv
  BY TradingAssumption DEF Init, HealthInv, HealthState
<1>2. ASSUME HealthInv, [Next]_vars
      PROVE  HealthInv'
  <2> USE TradingAssumption DEF HealthInv, HealthState
  <2>1. ASSUME NEW fromKalshi \in BOOLEAN, NEW found, MarketEvent(fromKalshi, found)
        PROVE  HealthInv'
    <3>1. CASE fromKalshi
      <4>1. health' \in {"Healthy", "Stale"} /\ idle' = FALSE /\ errors' = 0
        BY <2>1, <3>1 DEF MarketEvent, Expired
      <4>2. idle' \in BOOLEAN
        BY <4>1, Zenon
      <4>3. ~(errors' >= ErrorThreshold) /\ errors' \in Nat /\ health' \in HealthState
        BY <4>1
      <4> QED  BY <4>2, <4>3
    <3>2. CASE ~fromKalshi
      <4>1. /\ health' = health \/ (health = "Healthy" /\ health' = "Stale")
            /\ idle' = idle /\ errors' = errors
        BY <2>1, <3>2 DEF MarketEvent, Expired
      <4> QED  BY <1>2, <4>1
    <3> QED  BY <3>1, <3>2
  <2>2. CASE Feed
    BY <1>2, <2>1, <2>2 DEF Feed, SocketLost, IdleBudgetPasses
  <2>3. CASE NoFills \/ Legged \/ Timeout
    BY <1>2, <2>3 DEF NoFills, Legged, Timeout, NoteError
  <2>4. CASE UNCHANGED <<health, errors, idle>>
    BY <1>2, <2>4
  <2>5. CASE SkipInferred \/ Place \/ Book \/ UNCHANGED vars
    BY <2>4, <2>5 DEF SkipInferred, Place, Book, vars
  <2>6. CASE VenueSide
    BY <2>4, <2>6 DEF VenueSide, VenueFills, VenueRefuses
  <2>7. CASE Replies
    BY <2>4, <2>7 DEF Replies, AnswerFill, AnswerRefusal, TransportError, Told
  <2> QED  BY <1>2, <2>2, <2>3, <2>5, <2>6, <2>7 DEF Next, Closes
<1> QED  BY <1>1, <1>2, PTL DEF Spec

(* ErrorsBarAdmission: three order failures bar trading, and it stays      *)
(* barred until Kalshi has spoken (health.rs, note_error).                 *)
THEOREM ErrorsBar == Spec => []ErrorsBarAdmission
<1>1. HealthInv => ErrorsBarAdmission
  BY DEF HealthInv, ErrorsBarAdmission
<1> QED  BY <1>1, HealthInvHolds, PTL

(* TypeOK: states and verdicts are the code's, a running trade is the last *)
(* one, and free capital never goes negative (portfolio.rs, add_position). *)
THEOREM TypeCorrect == Spec => []TypeOK
<1>1. HealthInv /\ TradeInv => TypeOK
  <2> SUFFICES ASSUME HealthInv, TradeInv PROVE TypeOK
    OBVIOUS
  <2>1. ASSUME NEW i \in DOMAIN trades
        PROVE  /\ trades[i].offer \in Offers
               /\ trades[i].verdict \in Verdict
               /\ \A k \in Legs(trades[i]) : /\ trades[i].fate[k] \in Fate
                                             /\ trades[i].reply[k] \in Reply
               /\ trades[i].verdict = "running" => i = Len(trades)
    <3>1. trades[i] \in Trade
      BY DEF TradeInv, Types
    <3> QED  BY <3>1, TradeFields DEF TradeInv, InTurn
  <2> QED  BY <2>1 DEF TypeOK, HealthInv, TradeInv, Types
<1> QED  BY <1>1, HealthInvHolds, TradeInvHolds, PTL

(* BookedIsWhole: a booked trade has every leg filled, the account has one *)
(* position for each, and free capital is down by exactly their cost       *)
(* (engine.rs, execute; portfolio.rs, add_position).                       *)
THEOREM Whole == Spec => []BookedIsWhole
<1>1. TradeInv => BookedIsWhole
  <2> SUFFICES ASSUME TradeInv PROVE BookedIsWhole
    OBVIOUS
  <2>1. \A i \in DOMAIN trades :
            trades[i].verdict = "booked" => \A k \in Legs(trades[i]) : trades[i].fate[k] = "filled"
    BY DEF TradeInv, AllHonest, Honest
  <2>2. DOMAIN positions = 1 .. Len(positions) /\ Len(positions) \in Nat
        /\ DOMAIN trades = 1 .. Len(trades)
    BY DEF TradeInv, Types
  <2>3. \A i \in DOMAIN positions : /\ positions[i].event \in Event
                                    /\ positions[i].resolved = FALSE
    <3>1. \A x \in Position : x.event \in Event /\ x.resolved = FALSE
      BY DEF Position
    <3> QED  BY <3>1 DEF TradeInv, Types
  <2>4. OpenIds = DOMAIN positions
        /\ OpenIds = {k \in DOMAIN positions : positions[k].event \in Event}
    BY <2>3 DEF OpenIds
  <2>5. capital + Locked = StartingCapital
    BY <2>4 DEF TradeInv, Ledger, HeldOn, Locked, CostOf
  <2>6. Cardinality(OpenIds) = Len(positions)
    <3>1. PICK n \in Nat : n = Len(positions)
      BY <2>2
    <3>2. Cardinality(1 .. n) = IF 1 > n THEN 0 ELSE n - 1 + 1
      BY FS_Interval
    <3> QED  BY <2>2, <2>4, <3>1, <3>2
  <2>7. BookedIn(trades, Len(trades)) = {i \in DOMAIN trades : trades[i].verdict = "booked"}
    BY <2>2 DEF BookedIn
  <2> QED  BY <2>1, <2>5, <2>6, <2>7 DEF BookedIsWhole, TradeInv, Ledger
<1> QED  BY <1>1, TradeInvHolds, PTL

(* CostNearlyPaid: the cost booked is short of what was paid by under one  *)
(* cent for each contract, and never over it (exec/kalshi.rs, place_order; *)
(* engine.rs, position_from).                                              *)
THEOREM NearlyPaid == Spec => []CostNearlyPaid
<1>1. TradeInv => CostNearlyPaid
  <2> SUFFICES ASSUME TradeInv, NEW i \in DOMAIN trades, trades[i].verdict = "booked"
               PROVE  LET short == PaidCost(trades[i]) - BookedCost(trades[i]) IN
                      /\ short >= 0
                      /\ short <= SumFunction([k \in Legs(trades[i]) |->
                                                 trades[i].offer.legs[k].qty - 1])
    BY DEF CostNearlyPaid
  <2>1. trades[i] \in Trade /\ \A k \in Legs(trades[i]) : trades[i].fate[k] = "filled"
    BY DEF TradeInv, Types, AllHonest, Honest
  <2> QED  BY <2>1, BookedNearPaid
<1> QED  BY <1>1, TradeInvHolds, PTL

(* LooseFillIsAnnounced: a fill that nobody booked belongs to a trade that *)
(* is running, was counted as needing reconciliation, or had an answer of  *)
(* unknown fate (engine.rs, execute; exec/atomic.rs).                      *)
THEOREM LooseFills == Spec => []LooseFillIsAnnounced
<1>1. TradeInv => LooseFillIsAnnounced
  <2> SUFFICES ASSUME TradeInv, NEW i \in DOMAIN trades, NEW k \in Legs(trades[i]),
                      trades[i].fate[k] = "filled", trades[i].verdict # "booked"
               PROVE  \/ trades[i].verdict = "running" \/ Unreconciled(trades[i])
                      \/ \E j \in Legs(trades[i]) : trades[i].reply[j] = "unknown"
    BY DEF LooseFillIsAnnounced
  <2>1. trades[i] \in Trade /\ Honest(trades[i])
    BY DEF TradeInv, Types, AllHonest
  <2>2. trades[i].verdict \in Verdict
    BY <2>1, TradeFields
  <2>3. trades[i].verdict = "missed" => trades[i].reply[k] = "unknown"
    BY <2>1 DEF Honest
  <2> QED  BY <2>2, <2>3 DEF Verdict, Unreconciled
<1> QED  BY <1>1, TradeInvHolds, PTL

(* EarlierLeaveRoom: a limit is passed by one batch alone.  What was       *)
(* booked before a trade's batch left room for it under the limits of      *)
(* positions, event and theme, and in free capital (risk.rs, check;        *)
(* engine.rs, admit).                                                      *)
THEOREM RoomWasLeft == Spec => []EarlierLeaveRoom
<1>1. TradeInv => EarlierLeaveRoom
  BY TheseAreThose DEF TradeInv, Room, EarlierLeaveRoom
<1> QED  BY <1>1, TradeInvHolds, PTL
=============================================================================
