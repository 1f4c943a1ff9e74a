------------------------ MODULE PortfolioDays_proofs ------------------------
(***************************************************************************)
(* Theorems about the account over several days, for any events, offers,   *)
(* bids, limits and lengths of a day.                                      *)
(***************************************************************************)
EXTENDS PortfolioDays, DataLemmas

-----------------------------------------------------------------------------
(* What a position is, and what the operations keep of it.                 *)
Position == [event : Event, legs : Seq(Leg), cost : Nat, resolved : BOOLEAN,
             pnl : Int, mark : Int]

PositionsOK ==
    /\ positions \in Seq(Position)
    /\ \A i \in DOMAIN positions : /\ Sound(positions[i])
                                   /\ ~positions[i].resolved => positions[i].pnl = 0

TypeInv == TypeOK /\ PositionsOK

(* The midnight the account waits for is one, and what was lost on this    *)
(* calendar day is part of what it counts: it cannot be reset before the   *)
(* day is over.                                                            *)
DayInv ==
    /\ \E k \in Nat : resetAt = k * Day
    /\ lastOf = Today
    /\ lossOfDay # 0 => now < resetAt
    /\ lossOfDay <= lossToday

(* Positions by their numbers.                                             *)
LEMMA PositionNumbers ==
    ASSUME NEW ps \in Seq(Position)
    PROVE  /\ DOMAIN ps = 1 .. Len(ps) /\ Len(ps) \in Nat
           /\ IsFiniteSet(DOMAIN ps)
           /\ \A ids \in SUBSET DOMAIN ps : IsFiniteSet(ids)
           /\ \A i \in DOMAIN ps : ps[i] \in Position
<1>1. DOMAIN ps = 1 .. Len(ps) /\ Len(ps) \in Nat
  OBVIOUS
<1>2. IsFiniteSet(1 .. Len(ps))
  BY <1>1, FS_Interval
<1>3. \A i \in DOMAIN ps : ps[i] \in Position
  OBVIOUS
<1> QED  BY <1>1, <1>2, <1>3, FS_Subset

LEMMA LegNumbers ==
    ASSUME NEW legs \in Seq(Leg)
    PROVE  /\ IsFiniteSet(DOMAIN legs)
           /\ \A k \in DOMAIN legs : /\ legs[k].qty \in Nat
                                     /\ legs[k].outcome \in Outcome
                                     /\ legs[k].side \in {"yes", "no"}
<1>1. DOMAIN legs = 1 .. Len(legs) /\ Len(legs) \in Nat
  OBVIOUS
<1>2. IsFiniteSet(1 .. Len(legs))
  BY <1>1, FS_Interval
<1>3. \A k \in DOMAIN legs : legs[k] \in Leg
  OBVIOUS
<1> QED  BY <1>1, <1>2, <1>3 DEF Leg

(* Settlement pays a position something, and nothing is ever taken back:   *)
(* portfolio.rs, payoff_if.                                                *)
LEMMA PayoffIsNat ==
    ASSUME NEW position, position.legs \in Seq(Leg), NEW yes \in BOOLEAN
    PROVE  PayoffIf(position, yes) \in Nat
<1> DEFINE f == [k \in DOMAIN position.legs |-> LegPays(position.legs[k], yes)]
<1>1. \A k \in DOMAIN position.legs : f[k] \in Nat
  BY LegNumbers, AccountAssumption DEF LegPays
<1>2. IsFiniteSet(DOMAIN position.legs)
  BY LegNumbers
<1>3. SumFunctionOnSet(f, DOMAIN position.legs) \in Nat
  BY <1>1, <1>2, SumNat
<1> QED  BY <1>3 DEF PayoffIf, SumFunction

LEMMA VenuePaysIsNat ==
    ASSUME PositionsOK, NEW i \in DOMAIN positions, NEW winner
    PROVE  VenuePaysFor(i, winner) \in Nat
<1> DEFINE f == [k \in DOMAIN positions[i].legs |-> VenuePays(positions[i].legs[k], winner)]
<1>1. positions[i].legs \in Seq(Leg)
  BY PositionNumbers DEF PositionsOK, Position
<1>2. \A k \in DOMAIN positions[i].legs : f[k] \in Nat
  BY <1>1, LegNumbers, AccountAssumption DEF VenuePays
<1>3. IsFiniteSet(DOMAIN positions[i].legs)
  BY <1>1, LegNumbers
<1>4. SumFunctionOnSet(f, DOMAIN positions[i].legs) \in Nat
  BY <1>2, <1>3, SumNat
<1> QED  BY <1>4 DEF VenuePaysFor, SumFunction

(* A mark is a whole number of cents between nothing and the payout.       *)
LEMMA LiquidationBounds ==
    ASSUME NEW position \in Position, Sound(position), NEW bid \in Bids
    PROVE  /\ LiquidationOf(position, bid) \in Nat
           /\ Contracts(position) \in Nat
           /\ LiquidationOf(position, bid) <= Payout * Contracts(position)
<1> DEFINE D == DOMAIN position.legs
           q == [k \in D |-> position.legs[k].qty]
           p == [k \in D |-> Payout * position.legs[k].qty]
           b(k) == bid[position.legs[k].outcome][position.legs[k].side]
           v == [k \in D |-> position.legs[k].qty * b(k)]
<1>1. position.legs \in Seq(Leg)
  BY DEF Position
<1>2. IsFiniteSet(D) /\ \A k \in D : position.legs[k].qty \in Nat
  BY <1>1, LegNumbers
<1>3. \A k \in D : b(k) \in 0 .. Payout
  <2>1. bid \in [Outcome -> [{"yes", "no"} -> 0 .. Payout]]
    BY OfferAssumption
  <2>2. \A k \in D : position.legs[k].outcome \in Outcome /\ position.legs[k].side \in {"yes", "no"}
    BY <1>1, LegNumbers
  <2> QED  BY <2>1, <2>2
<1>4. Payout \in Nat
  BY AccountAssumption
<1>5. \A m, n \in Nat : n <= Payout => m * n \in Nat /\ Payout * m \in Nat /\ m * n <= Payout * m
  BY <1>4
<1>6. \A k \in D : q[k] \in Nat /\ v[k] \in Nat /\ p[k] \in Nat /\ v[k] <= p[k]
                   /\ p[k] = Payout * q[k]
  BY <1>2, <1>3, <1>4, <1>5
<1>7. LiquidationOf(position, bid) = SumFunctionOnSet(v, D) /\ Contracts(position) = SumFunctionOnSet(q, D)
  BY DEF LiquidationOf, Contracts, SumFunction
<1> HIDE DEF D, q, p, v
<1>8. SumFunctionOnSet(v, D) \in Nat /\ SumFunctionOnSet(q, D) \in Nat
  BY <1>2, <1>6, SumNat
<1>9. SumFunctionOnSet(v, D) <= SumFunctionOnSet(p, D)
  BY <1>2, <1>6, SumLeq
<1>10. SumFunctionOnSet(p, D) = Payout * SumFunctionOnSet(q, D)
  BY <1>2, <1>4, <1>6, SumScale
<1> QED  BY <1>7, <1>8, <1>9, <1>10

-----------------------------------------------------------------------------
(* The steps, told by what they do to the positions.                       *)

(* Taking a position adds one that is open, and pays for it.               *)
LEMMA TakeFacts ==
    ASSUME TypeInv, NEW offer \in Offers, Take(offer)
    PROVE  LET p == NewPosition(offer.event, offer.legs, offer.cost) IN
           /\ p \in Position /\ Sound(p)
           /\ positions' = Append(positions, p)
           /\ capital' = capital - p.cost /\ capital >= p.cost
           /\ p.cost \in Nat /\ ~p.resolved /\ p.pnl = 0 /\ p.mark = 0
           /\ Len(positions) < MaxPositions
           /\ UNCHANGED <<lossToday, resetAt, pnl, now, ghosts>>
<1> DEFINE p == NewPosition(offer.event, offer.legs, offer.cost)
<1>1. offer.event \in Event /\ offer.cost \in Nat /\ offer.legs \in Seq(Leg) /\ Sound(offer)
  BY OfferAssumption
<1>2. p \in Position /\ p.cost = offer.cost /\ p.legs = offer.legs /\ p.event = offer.event
  BY <1>1 DEF NewPosition, Position
<1>3. Sound(p)
  BY <1>1, <1>2 DEF Sound, Contracts
<1> QED  BY <1>1, <1>2, <1>3 DEF Take, AddPosition, Accepts, CanAfford, NewPosition

(* Marking changes the marks of the open positions alone.                  *)
LEMMA MarkFacts ==
    ASSUME TypeInv, NEW bid \in Bids, Mark(bid)
    PROVE  /\ positions' \in Seq(Position) /\ Len(positions') = Len(positions)
           /\ DOMAIN positions' = DOMAIN positions
           /\ \A i \in DOMAIN positions :
                 LET p == positions[i] q == positions'[i] IN
                 /\ q.event = p.event /\ q.legs = p.legs /\ q.cost = p.cost
                 /\ q.resolved = p.resolved /\ q.pnl = p.pnl
                 /\ p.resolved => q.mark = p.mark
                 /\ ~p.resolved => q.mark = LiquidationOf(p, bid) - p.cost
           /\ UNCHANGED <<capital, lossToday, resetAt, pnl, now, ghosts>>
<1> DEFINE D == DOMAIN positions
           marked(i) == [positions[i] EXCEPT !.mark = LiquidationOf(positions[i], bid) - positions[i].cost]
<1>1. D = 1 .. Len(positions) /\ Len(positions) \in Nat /\ \A i \in D : positions[i] \in Position
  BY PositionNumbers DEF TypeInv, PositionsOK
<1>2. \A i \in D : LiquidationOf(positions[i], bid) \in Nat
  BY <1>1, LiquidationBounds DEF TypeInv, PositionsOK
<1>3. positions' = [i \in D |-> IF i \in OpenIds THEN marked(i) ELSE positions[i]]
  BY DEF Mark, MarkToMarket
<1>4. \A i \in D : marked(i) \in Position /\ positions[i].cost \in Nat
  BY <1>1, <1>2 DEF Position
<1>5. \A i \in D : positions'[i] \in Position
  BY <1>1, <1>3, <1>4
<1>6. positions' \in Seq(Position) /\ Len(positions') = Len(positions) /\ DOMAIN positions' = D
  BY <1>1, <1>3, <1>5
<1>7. ASSUME NEW i \in D
      PROVE  LET p == positions[i] q == positions'[i] IN
             /\ q.event = p.event /\ q.legs = p.legs /\ q.cost = p.cost
             /\ q.resolved = p.resolved /\ q.pnl = p.pnl
             /\ p.resolved => q.mark = p.mark
             /\ ~p.resolved => q.mark = LiquidationOf(p, bid) - p.cost
  BY <1>1, <1>3 DEF Position, OpenIds
<1> QED  BY <1>6, <1>7 DEF Mark, MarkToMarket

(* Settling resolves the open positions of one event, at a profit or a     *)
(* loss each, and adds what they cost and what they gained.                *)
LEMMA SettleFacts ==
    ASSUME TypeInv, NEW event \in Event, NEW yes \in BOOLEAN, NEW winner,
           Settle(event, winner, yes)
    PROVE  /\ OpenOn(event) \subseteq DOMAIN positions /\ OpenOn(event) # {}
           /\ positions' \in Seq(Position) /\ Len(positions') = Len(positions)
           /\ DOMAIN positions' = DOMAIN positions
           /\ \A i \in DOMAIN positions :
                 LET p == positions[i] q == positions'[i] IN
                 /\ q.event = p.event /\ q.legs = p.legs /\ q.cost = p.cost
                 /\ PnlAtResolution(p, yes) \in Int /\ p.cost + PnlAtResolution(p, yes) \in Nat
                 /\ p.cost + PnlAtResolution(p, yes) = PayoffIf(p, yes)
                 /\ i \in OpenOn(event) => /\ ~p.resolved /\ p.event = event
                                           /\ q.resolved /\ q.mark = 0
                                           /\ q.pnl = PnlAtResolution(p, yes)
                 /\ i \notin OpenOn(event) => q = p
<1> DEFINE D == DOMAIN positions
           S == OpenOn(event)
           gain(i) == PnlAtResolution(positions[i], yes)
           done(i) == [positions[i] EXCEPT !.resolved = TRUE, !.pnl = gain(i), !.mark = 0]
<1>1. D = 1 .. Len(positions) /\ Len(positions) \in Nat /\ \A i \in D : positions[i] \in Position
  BY PositionNumbers DEF TypeInv, PositionsOK
<1>2. S \subseteq D /\ S # {} /\ \A i \in S : ~positions[i].resolved /\ positions[i].event = event
  BY DEF Settle, Realize, OpenOn, OpenIds
<1>3. positions' = [i \in D |-> IF i \in S THEN done(i) ELSE positions[i]]
  BY DEF Settle, Realize
<1>4. \A i \in D : /\ gain(i) \in Int /\ positions[i].cost + gain(i) \in Nat
                   /\ positions[i].cost + gain(i) = PayoffIf(positions[i], yes)
  <2>1. \A i \in D : positions[i].cost \in Nat /\ positions[i].legs \in Seq(Leg)
    BY <1>1 DEF Position
  <2>2. \A i \in D : PayoffIf(positions[i], yes) \in Nat
    BY <2>1, PayoffIsNat
  <2> QED  BY <2>1, <2>2 DEF PnlAtResolution
<1> HIDE DEF S
<1>5. \A p \in Position, g \in Int :
          [p EXCEPT !.resolved = TRUE, !.pnl = g, !.mark = 0] \in Position
  <2>1. \A p \in Position : [p EXCEPT !.resolved = TRUE] \in Position
    BY DEF Position
  <2>2. \A p \in Position, g \in Int : [p EXCEPT !.pnl = g] \in Position
    BY DEF Position
  <2>3. \A p \in Position : [p EXCEPT !.mark = 0] \in Position
    BY DEF Position
  <2>4. \A p, g : [p EXCEPT !.resolved = TRUE, !.pnl = g, !.mark = 0]
                     = [[[p EXCEPT !.resolved = TRUE] EXCEPT !.pnl = g] EXCEPT !.mark = 0]
    BY Zenon
  <2> QED  BY <2>1, <2>2, <2>3, <2>4, Zenon
<1>6. \A i \in D : done(i) \in Position
  BY <1>1, <1>4, <1>5
<1>7. positions' \in Seq(Position) /\ Len(positions') = Len(positions) /\ DOMAIN positions' = D
  <2> HIDE DEF done
  <2>1. \A i \in D : positions'[i] \in Position
    BY <1>1, <1>3, <1>6
  <2>2. DOMAIN positions' = D
    BY <1>3
  <2> QED  BY <1>1, <1>3, <2>1, <2>2
<1>8. ASSUME NEW i \in D
      PROVE  LET p == positions[i] q == positions'[i] IN
             /\ q.event = p.event /\ q.legs = p.legs /\ q.cost = p.cost
             /\ i \in S => q.resolved /\ q.mark = 0 /\ q.pnl = PnlAtResolution(p, yes)
             /\ i \notin S => q = p
  BY <1>1, <1>3 DEF Position
<1> QED  BY <1>2, <1>4, <1>7, <1>8 DEF S

(* What was lost in settling is counted, and the venue's payout landed.    *)
LEMMA SettleCounts ==
    ASSUME TypeInv, NEW event \in Event, NEW yes \in BOOLEAN, NEW winner,
           Settle(event, winner, yes)
    PROVE  /\ lossToday' \in Nat /\ lossToday' >= lossToday
           /\ lossOfDay' = lossOfDay + (lossToday' - lossToday) /\ lossOfDay' \in Nat
           /\ landed' \in Nat
           /\ now < resetAt
           /\ UNCHANGED <<now, resetAt, restarts, lastOf>>
<1> DEFINE S == OpenOn(event)
           loss == [i \in S |-> Losses(PnlAtResolution(positions[i], yes))]
           paid == [i \in S |-> VenuePaysFor(i, winner)]
<1>1. S \subseteq DOMAIN positions /\ IsFiniteSet(S)
  BY SettleFacts, PositionNumbers DEF TypeInv, PositionsOK
<1>2. \A i \in S : loss[i] \in Nat
  BY <1>1, SettleFacts DEF Losses
<1>3. \A i \in S : paid[i] \in Nat
  BY <1>1, VenuePaysIsNat DEF TypeInv
<1>4. lossToday' = lossToday + SumFunctionOnSet(loss, S)
  BY DEF Settle, Realize, SumFunction
<1>5. landed' = landed + SumFunctionOnSet(paid, S)
  BY DEF Settle, SumFunction
<1> HIDE DEF S, loss, paid
<1>6. SumFunctionOnSet(loss, S) \in Nat /\ SumFunctionOnSet(paid, S) \in Nat
  BY <1>1, <1>2, <1>3, SumNat
<1>7. lossOfDay' = lossOfDay + (lossToday' - lossToday)
  BY DEF Settle
<1>8. lossToday \in Nat /\ lossOfDay \in Nat /\ landed \in Nat
  BY DEF TypeInv, TypeOK
<1>9. now < resetAt /\ UNCHANGED <<now, resetAt, restarts, lastOf>>
  BY DEF Settle, Realize
<1> QED  BY <1>4, <1>5, <1>6, <1>7, <1>8, <1>9

-----------------------------------------------------------------------------
LEMMA MidnightIsNat ==
    ASSUME NEW t \in Nat
    PROVE  /\ t \div Day \in Nat
           /\ NextMidnight(t) = (t \div Day + 1) * Day /\ NextMidnight(t) \in Nat
           /\ t < NextMidnight(t)
  BY AccountAssumption DEF NextMidnight

LEMMA TypeInvInit == Init => TypeInv
<1> SUFFICES ASSUME Init PROVE TypeInv
  OBVIOUS
<1>1. now = 0 /\ positions = <<>> /\ resetAt = NextMidnight(0)
  BY DEF Init, PortfolioInit
<1>2. resetAt \in Nat
  BY <1>1, MidnightIsNat
<1>3. TypeOK
  BY <1>1, <1>2, AccountAssumption, DaysAssumption DEF Init, PortfolioInit, TypeOK
<1>4. PositionsOK
  BY <1>1 DEF PositionsOK
<1> QED  BY <1>3, <1>4 DEF TypeInv

LEMMA TypeInvStep == TypeInv /\ [Next]_vars => TypeInv'
<1> SUFFICES ASSUME TypeInv, [Next]_vars PROVE TypeInv'
  OBVIOUS
<1>0. TypeOK /\ PositionsOK
  BY DEF TypeInv
<1>1. CASE Tick
  <2>1. now' \in 0 .. MaxTime /\ lastOf' \in Nat /\ lossOfDay' \in Nat
    BY <1>0, <1>1, DaysAssumption, MidnightIsNat DEF Tick, TypeOK
  <2> QED  BY <1>0, <1>1, <2>1 DEF Tick, account, TypeInv, TypeOK, PositionsOK
<1>2. CASE NewDay
  <2>1. NextMidnight(now) \in Nat
    <3>1. now \in Nat
      BY <1>0, DaysAssumption DEF TypeOK
    <3> QED  BY <3>1, MidnightIsNat
  <2> QED  BY <1>0, <1>2, <2>1 DEF NewDay, ResetDailyIfNeeded, ghosts, TypeInv, TypeOK, PositionsOK
<1>3. CASE Restart
  <2>1. NextMidnight(now) \in Nat
    <3>1. now \in Nat
      BY <1>0, DaysAssumption DEF TypeOK
    <3> QED  BY <3>1, MidnightIsNat
  <2>2. /\ capital' = StartingCapital /\ positions' = <<>> /\ lossToday' = 0
        /\ resetAt' = NextMidnight(now) /\ pnl' = 0 /\ landed' = 0 /\ lossOfDay' = 0
        /\ restarts' = restarts + 1 /\ restarts < MaxRestarts
        /\ UNCHANGED <<now, lastOf>>
    BY <1>3 DEF Restart, PortfolioNew
  <2>3. TypeOK'
    BY <1>0, <2>1, <2>2, AccountAssumption, DaysAssumption DEF TypeOK
  <2>4. PositionsOK'
    BY <2>2 DEF PositionsOK
  <2> QED  BY <2>3, <2>4 DEF TypeInv
<1>4. ASSUME NEW offer \in Offers, Take(offer)
      PROVE  TypeInv'
  <2> DEFINE p == NewPosition(offer.event, offer.legs, offer.cost)
  <2>1. /\ p \in Position /\ Sound(p)
        /\ positions' = Append(positions, p)
        /\ capital' = capital - p.cost /\ capital >= p.cost
        /\ p.cost \in Nat /\ ~p.resolved /\ p.pnl = 0
        /\ Len(positions) < MaxPositions
        /\ UNCHANGED <<lossToday, resetAt, pnl, now, ghosts>>
    BY <1>4, TakeFacts
  <2> HIDE DEF p
  <2>2. positions \in Seq(Position)
    BY <1>0 DEF PositionsOK
  <2>3. /\ positions' \in Seq(Position) /\ Len(positions') = Len(positions) + 1
        /\ \A i \in DOMAIN positions' : \/ i \in DOMAIN positions /\ positions'[i] = positions[i]
                                        \/ positions'[i] = p
    BY <2>1, <2>2
  <2>4. PositionsOK'
    BY <1>0, <2>1, <2>3 DEF PositionsOK, Sound, Contracts
  <2>5. \A i \in DOMAIN positions' : positions'[i] \in Position
    BY <2>3
  <2>6. TypeOK'
    <3>1. capital' \in Int /\ Len(positions') <= MaxPositions
      BY <1>0, <2>1, <2>2, <2>3, DaysAssumption DEF TypeOK
    <3>2. \A i \in DOMAIN positions' :
             /\ positions'[i].event \in Event /\ positions'[i].cost \in Nat
             /\ positions'[i].resolved \in BOOLEAN
             /\ positions'[i].pnl \in Int /\ positions'[i].mark \in Int
      BY <2>5 DEF Position
    <3> QED  BY <1>0, <2>1, <3>1, <3>2 DEF TypeOK, ghosts
  <2> QED  BY <2>4, <2>6 DEF TypeInv
<1>5. ASSUME NEW bid \in Bids, Mark(bid)
      PROVE  TypeInv'
  <2>1. /\ positions' \in Seq(Position) /\ Len(positions') = Len(positions)
        /\ DOMAIN positions' = DOMAIN positions
        /\ \A i \in DOMAIN positions :
              LET p == positions[i] q == positions'[i] IN
              /\ q.event = p.event /\ q.legs = p.legs /\ q.cost = p.cost
              /\ q.resolved = p.resolved /\ q.pnl = p.pnl
        /\ UNCHANGED <<capital, lossToday, resetAt, pnl, now, ghosts>>
    BY <1>5, MarkFacts
  <2>2. PositionsOK'
    BY <1>0, <2>1 DEF PositionsOK, Sound, Contracts
  <2>3. \A i \in DOMAIN positions' : positions'[i] \in Position
    BY <2>1
  <2>4. TypeOK'
    BY <1>0, <2>1, <2>3 DEF TypeOK, Position, ghosts
  <2> QED  BY <2>2, <2>4 DEF TypeInv
<1>6. ASSUME NEW event \in Event, NEW yes \in BOOLEAN, NEW winner, Settle(event, winner, yes)
      PROVE  TypeInv'
  <2>1. /\ positions' \in Seq(Position) /\ Len(positions') = Len(positions)
        /\ DOMAIN positions' = DOMAIN positions
        /\ \A i \in DOMAIN positions :
              LET p == positions[i] q == positions'[i] IN
              /\ q.event = p.event /\ q.legs = p.legs /\ q.cost = p.cost
              /\ i \in OpenOn(event) => q.resolved
              /\ i \notin OpenOn(event) => q = p
    BY <1>6, SettleFacts
  <2>2. PositionsOK'
    BY <1>0, <2>1 DEF PositionsOK, Sound, Contracts
  <2>3. \A i \in DOMAIN positions' : positions'[i] \in Position
    BY <2>1
  <2>4. capital' \in Int /\ pnl' \in Int
    <3> DEFINE S == OpenOn(event)
               gain == [i \in S |-> PnlAtResolution(positions[i], yes)]
               paid == [i \in S |-> positions[i].cost + PnlAtResolution(positions[i], yes)]
    <3>1. S \subseteq DOMAIN positions /\ IsFiniteSet(S)
      BY <1>6, SettleFacts, PositionNumbers DEF TypeInv, PositionsOK
    <3>2. \A i \in S : gain[i] \in Int /\ paid[i] \in Int
      BY <1>6, <3>1, SettleFacts
    <3>3. capital' = capital + SumFunctionOnSet(paid, S) /\ pnl' = pnl + SumFunctionOnSet(gain, S)
      BY <1>6 DEF Settle, Realize, SumFunction
    <3> HIDE DEF S, gain, paid
    <3>4. SumFunctionOnSet(paid, S) \in Int /\ SumFunctionOnSet(gain, S) \in Int
      BY <3>1, <3>2, SumInt
    <3> QED  BY <1>0, <3>3, <3>4 DEF TypeOK
  <2>5. TypeOK'
    BY <1>0, <1>6, <2>1, <2>3, <2>4, SettleCounts DEF TypeOK, Position
  <2> QED  BY <2>2, <2>5 DEF TypeInv
<1>7. CASE UNCHANGED vars
  BY <1>0, <1>7 DEF vars, account, ghosts, TypeInv, TypeOK, PositionsOK
<1> QED  BY <1>1, <1>2, <1>3, <1>4, <1>5, <1>6, <1>7 DEF Next

(* Every operation keeps the account's state what its types say: amounts   *)
(* whole, the day's losses and what the venue paid never negative.         *)
THEOREM TypeCorrect == Spec => []TypeOK
<1>1. TypeInv => TypeOK
  BY DEF TypeInv
<1> QED  BY <1>1, TypeInvInit, TypeInvStep, PTL DEF Spec

-----------------------------------------------------------------------------
(* The day's limit.  An account that is reset at midnights only, and       *)
(* settles only before the midnight it waits for, holds against a          *)
(* position everything that was lost on its calendar day.                  *)

(* A midnight ahead stays ahead as long as the day lasts.                  *)
LEMMA MidnightAhead ==
    ASSUME NEW t \in Nat, NEW k \in Nat
    PROVE  /\ t < k * Day <=> t \div Day < k
           /\ \E j \in Nat : NextMidnight(t) = j * Day
<1>1. t \div Day \in Nat /\ t = (t \div Day) * Day + (t % Day) /\ t % Day \in 0 .. Day - 1
  BY AccountAssumption
<1>2. Day \in Nat \ {0}
  BY AccountAssumption
<1>3. ASSUME NEW d \in Nat, NEW r \in 0 .. Day - 1
      PROVE  d * Day + r < k * Day <=> d < k
  <2>1. CASE d < k
    <3>1. (k - d) * Day >= Day
      BY <1>2, <2>1
    <3>2. k * Day = d * Day + (k - d) * Day
      BY <1>2
    <3>3. d * Day \in Nat /\ k * Day \in Nat
      BY <1>2
    <3> QED  BY <1>2, <2>1, <3>1, <3>2, <3>3
  <2>2. CASE d >= k
    <3>1. (d - k) * Day >= 0
      BY <1>2, <2>2
    <3>2. d * Day = k * Day + (d - k) * Day
      BY <1>2
    <3>3. d * Day \in Nat /\ k * Day \in Nat
      BY <1>2
    <3> QED  BY <1>2, <2>2, <3>1, <3>2, <3>3
  <2> QED  BY <2>1, <2>2
<1>4. t < k * Day <=> t \div Day < k
  BY <1>1, <1>3
<1>5. t \div Day + 1 \in Nat
  BY <1>1
<1> QED  BY <1>4, <1>5 DEF NextMidnight

LEMMA DayInvInit == Init => DayInv
<1> SUFFICES ASSUME Init PROVE DayInv
  OBVIOUS
<1>1. \E k \in Nat : resetAt = k * Day
  BY MidnightAhead DEF Init, PortfolioInit
<1>2. lastOf = Today
  BY AccountAssumption DEF Init, Today
<1> QED  BY <1>1, <1>2 DEF Init, PortfolioInit, DayInv

LEMMA DayInvStep == TypeInv /\ DayInv /\ [Next]_vars => DayInv'
<1> SUFFICES ASSUME TypeInv, DayInv, [Next]_vars PROVE DayInv'
  OBVIOUS
<1>0. now \in Nat /\ resetAt \in Nat /\ lossOfDay \in Nat /\ lossToday \in Nat
  BY DaysAssumption DEF TypeInv, TypeOK
<1>1. CASE Tick
  <2>1. PICK k \in Nat : resetAt = k * Day
    BY DEF DayInv
  <2>2. now' = now + 1 /\ UNCHANGED <<resetAt, lossToday>> /\ lastOf' = Today'
        /\ lossOfDay' = IF lastOf' = lastOf THEN lossOfDay ELSE 0
    BY <1>1 DEF Tick, account, Today
  <2>3. lossOfDay' # 0 => now' < resetAt'
    <3> SUFFICES ASSUME lossOfDay' # 0 PROVE now + 1 < k * Day
      BY <2>1, <2>2
    <3>1. now \div Day < k
      BY <1>0, <2>1, <2>2, MidnightAhead DEF DayInv
    <3>2. (now + 1) \div Day = now \div Day
      BY <2>2 DEF DayInv, Today
    <3>3. now + 1 \in Nat
      BY <1>0
    <3>4. (now + 1) \div Day < k
      BY <3>1, <3>2
    <3> QED  BY <3>3, <3>4, MidnightAhead
  <2> QED  BY <1>0, <2>1, <2>2, <2>3 DEF DayInv
<1>2. CASE NewDay
  <2>1. CASE now < resetAt
    BY <1>2, <2>1 DEF NewDay, ResetDailyIfNeeded, ghosts, DayInv, Today
  <2>2. CASE ~(now < resetAt)
    <3>1. lossOfDay = 0 /\ lastOf = Today
      BY <2>2 DEF DayInv
    <3>2. lossToday' = 0 /\ resetAt' = NextMidnight(now) /\ UNCHANGED <<now, lossOfDay, lastOf>>
      BY <1>2, <2>2 DEF NewDay, ResetDailyIfNeeded, ghosts
    <3>3. \E k \in Nat : resetAt' = k * Day
      BY <1>0, <3>2, MidnightAhead
    <3> QED  BY <3>1, <3>2, <3>3 DEF DayInv, Today
  <2> QED  BY <2>1, <2>2
<1>3. CASE Restart
  <2>1. lossToday' = 0 /\ resetAt' = NextMidnight(now) /\ lossOfDay' = 0 /\ UNCHANGED <<now, lastOf>>
    BY <1>3 DEF Restart, PortfolioNew
  <2>2. \E k \in Nat : resetAt' = k * Day
    BY <1>0, <2>1, MidnightAhead
  <2> QED  BY <2>1, <2>2 DEF DayInv, Today
<1>4. ASSUME NEW offer \in Offers, Take(offer)
      PROVE  DayInv'
  BY <1>4 DEF Take, AddPosition, ghosts, DayInv, Today
<1>5. ASSUME NEW bid \in Bids, Mark(bid)
      PROVE  DayInv'
  BY <1>5 DEF Mark, MarkToMarket, ghosts, DayInv, Today
<1>6. ASSUME NEW event \in Event, NEW yes \in BOOLEAN, NEW winner, Settle(event, winner, yes)
      PROVE  DayInv'
  <2>1. /\ lossToday' \in Nat /\ lossToday' >= lossToday
        /\ lossOfDay' = lossOfDay + (lossToday' - lossToday) /\ lossOfDay' \in Nat
        /\ now < resetAt
        /\ UNCHANGED <<now, resetAt, lastOf>>
    BY <1>6, SettleCounts
  <2>2. lossOfDay' <= lossToday'
    <3>1. lossOfDay <= lossToday
      BY DEF DayInv
    <3>2. \A a, b, c \in Nat : a <= b => a + (c - b) <= c
      OBVIOUS
    <3> QED  BY <1>0, <2>1, <3>1, <3>2
  <2> QED  BY <2>1, <2>2 DEF DayInv, Today
<1>7. CASE UNCHANGED vars
  BY <1>7 DEF vars, account, ghosts, DayInv, Today
<1> QED  BY <1>1, <1>2, <1>3, <1>4, <1>5, <1>6, <1>7 DEF Next

(* No step adds a position once the calendar day's realized losses have    *)
(* reached the limit: portfolio.rs, within_daily_limit and its reset.      *)
THEOREM DayLimit == Spec => DailyLimitHolds
<1>1. TypeInv /\ DayInv /\ [Next]_vars => [DayIsOpen]_vars
  <2> SUFFICES ASSUME TypeInv, DayInv, Next PROVE DayIsOpen
    BY DEF DayIsOpen
  <2>0. Len(positions) \in Nat /\ lossOfDay \in Nat /\ lossToday \in Nat
    BY PositionNumbers DEF TypeInv, TypeOK, PositionsOK
  <2>1. ASSUME NEW offer \in Offers, Take(offer)
        PROVE  DayIsOpen
    <3>1. lossToday < LossLimit
      BY <2>1 DEF Take, AddPosition, Accepts, WithinDailyLimit
    <3> QED  BY <2>0, <3>1, AccountAssumption DEF DayInv, DayIsOpen
  <2>2. ASSUME NEW bid \in Bids, Mark(bid)
        PROVE  DayIsOpen
    BY <2>0, <2>2, MarkFacts DEF DayIsOpen
  <2>3. ASSUME NEW event \in Event, NEW yes \in BOOLEAN, NEW winner, Settle(event, winner, yes)
        PROVE  DayIsOpen
    BY <2>0, <2>3, SettleFacts DEF DayIsOpen
  <2>4. CASE Tick \/ NewDay
    BY <2>0, <2>4 DEF Tick, NewDay, ResetDailyIfNeeded, account, DayIsOpen
  <2>5. CASE Restart
    BY <2>0, <2>5 DEF Restart, PortfolioNew, DayIsOpen
  <2> QED  BY <2>1, <2>2, <2>3, <2>4, <2>5 DEF Next
<1> QED  BY <1>1, TypeInvInit, TypeInvStep, DayInvInit, DayInvStep, PTL
         DEF Spec, DailyLimitHolds

-----------------------------------------------------------------------------
(* Money.  What the positions cost and gained, as functions of their       *)
(* numbers, and the sums over them before and after a step.                *)
Costs(ps) == [i \in DOMAIN ps |-> ps[i].cost]
Pnls(ps)  == [i \in DOMAIN ps |-> ps[i].pnl]
Open(ps)  == {i \in DOMAIN ps : ~ps[i].resolved}

LEMMA CostsArePositive ==
    ASSUME NEW ps \in Seq(Position)
    PROVE  \A i \in DOMAIN ps : Costs(ps)[i] \in Nat /\ Pnls(ps)[i] \in Int
  BY PositionNumbers DEF Costs, Pnls, Position

LEMMA SumsByNumber ==
    ASSUME NEW ps \in Seq(Position), NEW ids \in SUBSET DOMAIN ps
    PROVE  /\ SumFunction([i \in ids |-> ps[i].cost]) = SumFunctionOnSet(Costs(ps), ids)
           /\ SumFunction([i \in ids |-> ps[i].pnl]) = SumFunctionOnSet(Pnls(ps), ids)
<1>1. IsFiniteSet(ids)
  BY PositionNumbers
<1>2. SumFunction([i \in ids |-> Costs(ps)[i]]) = SumFunctionOnSet(Costs(ps), ids)
  BY <1>1, SumOfFunction
<1>3. SumFunction([i \in ids |-> Pnls(ps)[i]]) = SumFunctionOnSet(Pnls(ps), ids)
  BY <1>1, SumOfFunction
<1>4. [i \in ids |-> ps[i].cost] = [i \in ids |-> Costs(ps)[i]]
  BY DEF Costs
<1>5. [i \in ids |-> ps[i].pnl] = [i \in ids |-> Pnls(ps)[i]]
  BY DEF Pnls
<1> QED  BY <1>2, <1>3, <1>4, <1>5

LEMMA LockedIs ==
    ASSUME PositionsOK
    PROVE  /\ Locked = SumFunctionOnSet(Costs(positions), Open(positions))
           /\ CostOf(DOMAIN positions) = SumFunctionOnSet(Costs(positions), DOMAIN positions)
           /\ OpenIds = Open(positions)
<1>1. OpenIds = Open(positions) /\ OpenIds \in SUBSET DOMAIN positions
  BY DEF OpenIds, Open
<1> QED  BY <1>1, SumsByNumber DEF PositionsOK, Locked, CostOf

LEMMA ConservationIs ==
    ASSUME PositionsOK
    PROVE  Conservation <=>
             /\ capital + SumFunctionOnSet(Costs(positions), Open(positions)) = StartingCapital + pnl
             /\ pnl = SumFunctionOnSet(Pnls(positions), DOMAIN positions)
             /\ capital >= 0
  BY LockedIs, SumsByNumber DEF PositionsOK, Conservation

(* A new position adds its cost to the open ones, and nothing to the       *)
(* profit.                                                                 *)
LEMMA SumsAfterTake ==
    ASSUME NEW ps \in Seq(Position), NEW p \in Position, ~p.resolved, p.pnl = 0
    PROVE  LET qs == Append(ps, p) IN
           /\ SumFunctionOnSet(Costs(qs), Open(qs))
                = SumFunctionOnSet(Costs(ps), Open(ps)) + p.cost
           /\ SumFunctionOnSet(Costs(qs), DOMAIN qs)
                = SumFunctionOnSet(Costs(ps), DOMAIN ps) + p.cost
           /\ SumFunctionOnSet(Pnls(qs), DOMAIN qs) = SumFunctionOnSet(Pnls(ps), DOMAIN ps)
<1> DEFINE qs == Append(ps, p)
           n  == Len(ps) + 1
<1>1. /\ qs \in Seq(Position) /\ n \in DOMAIN qs /\ n \notin DOMAIN ps
      /\ DOMAIN qs = DOMAIN ps \cup {n} /\ qs[n] = p
      /\ \A i \in DOMAIN ps : qs[i] = ps[i]
  OBVIOUS
<1> HIDE DEF qs, n
<1>2. Open(qs) = Open(ps) \cup {n} /\ Open(ps) \subseteq DOMAIN ps
  BY <1>1 DEF Open
<1>3. IsFiniteSet(Open(ps)) /\ IsFiniteSet(DOMAIN ps)
  BY <1>2, PositionNumbers
<1>4. \A i \in DOMAIN qs : Costs(qs)[i] \in Int /\ Pnls(qs)[i] \in Int
  BY <1>1, CostsArePositive
<1>5. /\ \A i \in DOMAIN ps : Costs(qs)[i] = Costs(ps)[i] /\ Pnls(qs)[i] = Pnls(ps)[i]
      /\ Costs(qs)[n] = p.cost /\ Pnls(qs)[n] = 0
  BY <1>1 DEF Costs, Pnls
<1>6. SumFunctionOnSet(Costs(qs), Open(qs)) = SumFunctionOnSet(Costs(ps), Open(ps)) + p.cost
  <2>1. SumFunctionOnSet(Costs(qs), Open(ps)) = SumFunctionOnSet(Costs(ps), Open(ps))
    BY <1>2, <1>3, <1>5, SumSame
  <2>2. n \notin Open(ps) /\ \A i \in Open(ps) \cup {n} : Costs(qs)[i] \in Int
    BY <1>1, <1>2, <1>4
  <2>3. SumFunctionOnSet(Costs(qs), Open(ps) \cup {n})
          = SumFunctionOnSet(Costs(qs), Open(ps)) + Costs(qs)[n]
    BY <1>3, <2>2, SumAdd
  <2> QED  BY <1>2, <1>5, <2>1, <2>3
<1>7. SumFunctionOnSet(Costs(qs), DOMAIN qs) = SumFunctionOnSet(Costs(ps), DOMAIN ps) + p.cost
  <2>1. SumFunctionOnSet(Costs(qs), DOMAIN ps) = SumFunctionOnSet(Costs(ps), DOMAIN ps)
    BY <1>3, <1>5, SumSame
  <2> QED  BY <1>1, <1>3, <1>4, <1>5, <2>1, SumAdd
<1>8. SumFunctionOnSet(Pnls(qs), DOMAIN qs) = SumFunctionOnSet(Pnls(ps), DOMAIN ps)
  <2>1. SumFunctionOnSet(Pnls(qs), DOMAIN ps) = SumFunctionOnSet(Pnls(ps), DOMAIN ps)
    BY <1>3, <1>5, SumSame
  <2>2. n \notin DOMAIN ps /\ \A i \in DOMAIN ps \cup {n} : Pnls(qs)[i] \in Int
    BY <1>1, <1>4
  <2>3. /\ SumFunctionOnSet(Pnls(qs), DOMAIN ps) \in Int
        /\ SumFunctionOnSet(Pnls(qs), DOMAIN ps \cup {n})
             = SumFunctionOnSet(Pnls(qs), DOMAIN ps) + Pnls(qs)[n]
    BY <1>3, <2>2, SumAdd
  <2>4. \A m \in Int : m + 0 = m
    OBVIOUS
  <2> QED  BY <1>1, <1>5, <2>1, <2>3, <2>4
<1> QED  BY <1>6, <1>7, <1>8 DEF qs

(* Positions that differ in their marks alone cost and gained the same.    *)
LEMMA SumsAfterMark ==
    ASSUME NEW ps \in Seq(Position), NEW qs \in Seq(Position), DOMAIN qs = DOMAIN ps,
           \A i \in DOMAIN ps : /\ qs[i].cost = ps[i].cost /\ qs[i].pnl = ps[i].pnl
                                /\ qs[i].resolved = ps[i].resolved
    PROVE  /\ SumFunctionOnSet(Costs(qs), Open(qs)) = SumFunctionOnSet(Costs(ps), Open(ps))
           /\ SumFunctionOnSet(Costs(qs), DOMAIN qs) = SumFunctionOnSet(Costs(ps), DOMAIN ps)
           /\ SumFunctionOnSet(Pnls(qs), DOMAIN qs) = SumFunctionOnSet(Pnls(ps), DOMAIN ps)
<1>1. Costs(qs) = Costs(ps) /\ Pnls(qs) = Pnls(ps)
  BY DEF Costs, Pnls
<1>2. Open(qs) = Open(ps)
  BY DEF Open
<1> QED  BY <1>1, <1>2

(* Settled positions leave the open ones with their cost, and their gains  *)
(* enter the profit.                                                       *)
Settles(ps, qs, S, gain) ==
    /\ DOMAIN qs = DOMAIN ps
    /\ \A i \in S : gain[i] \in Int
    /\ \A i \in S : ps[i].pnl = 0 /\ qs[i].pnl = gain[i]
    /\ \A i \in DOMAIN ps : qs[i].cost = ps[i].cost
    /\ \A i \in S : qs[i].resolved
    /\ \A i \in DOMAIN ps \ S : qs[i] = ps[i]

LEMMA SumsAfterSettle ==
    ASSUME NEW ps \in Seq(Position), NEW qs \in Seq(Position),
           NEW S \in SUBSET Open(ps), NEW gain, Settles(ps, qs, S, gain)
    PROVE  /\ SumFunctionOnSet(Costs(ps), S) \in Int /\ SumFunctionOnSet(gain, S) \in Int
           /\ SumFunctionOnSet(Costs(ps), Open(ps))
                = SumFunctionOnSet(Costs(qs), Open(qs)) + SumFunctionOnSet(Costs(ps), S)
           /\ SumFunctionOnSet(Costs(qs), DOMAIN qs) = SumFunctionOnSet(Costs(ps), DOMAIN ps)
           /\ SumFunctionOnSet(Pnls(qs), DOMAIN qs)
                = SumFunctionOnSet(Pnls(ps), DOMAIN ps) + SumFunctionOnSet(gain, S)
           /\ SumFunctionOnSet(Costs(qs), Open(qs)) \in Int
           /\ SumFunctionOnSet(Pnls(ps), DOMAIN ps) \in Int
<1> DEFINE D == DOMAIN ps
<1>0. Settles(ps, qs, S, gain)
  OBVIOUS
<1> USE <1>0 DEF Settles
<1>1. Open(ps) \subseteq D /\ S \subseteq D /\ Open(qs) = Open(ps) \ S
  BY DEF Open
<1>2. IsFiniteSet(D) /\ IsFiniteSet(S) /\ IsFiniteSet(Open(ps)) /\ IsFiniteSet(D \ S)
      /\ IsFiniteSet(Open(qs))
  BY <1>1, PositionNumbers
<1>3. Costs(qs) = Costs(ps)
  BY DEF Costs
<1>4. \A i \in D : Costs(ps)[i] \in Int /\ Pnls(ps)[i] \in Int /\ Pnls(qs)[i] \in Int
  BY CostsArePositive
<1>5. SumFunctionOnSet(Costs(ps), S) \in Int /\ SumFunctionOnSet(Costs(qs), Open(qs)) \in Int
  BY <1>1, <1>2, <1>3, <1>4, SumInt
<1>6. SumFunctionOnSet(gain, S) \in Int
  BY <1>2, SumInt
<1>7. SumFunctionOnSet(Costs(ps), Open(ps))
        = SumFunctionOnSet(Costs(qs), Open(qs)) + SumFunctionOnSet(Costs(ps), S)
  <2>1. \A i \in Open(ps) : Costs(ps)[i] \in Int
    BY <1>1, <1>4
  <2>2. SumFunctionOnSet(Costs(ps), Open(ps))
          = SumFunctionOnSet(Costs(ps), S) + SumFunctionOnSet(Costs(ps), Open(ps) \ S)
    BY <1>2, <2>1, SumSplit
  <2>3. \A m, n \in Int : m + n = n + m
    OBVIOUS
  <2> QED  BY <1>1, <1>3, <1>5, <2>2, <2>3
<1>8. /\ SumFunctionOnSet(Pnls(ps), D) = SumFunctionOnSet(Pnls(ps), S) + SumFunctionOnSet(Pnls(ps), D \ S)
      /\ SumFunctionOnSet(Pnls(qs), D) = SumFunctionOnSet(Pnls(qs), S) + SumFunctionOnSet(Pnls(qs), D \ S)
  BY <1>1, <1>2, <1>4, SumSplit
<1>9. SumFunctionOnSet(Pnls(ps), S) = 0
  <2>1. \A i \in S : Pnls(ps)[i] = 0
    BY <1>1 DEF Pnls
  <2> QED  BY <1>2, <2>1, SumZero
<1>10. SumFunctionOnSet(Pnls(qs), S) = SumFunctionOnSet(gain, S)
  <2>1. \A i \in S : Pnls(qs)[i] = gain[i]
    BY <1>1 DEF Pnls
  <2> QED  BY <1>2, <2>1, SumSame
<1>11. SumFunctionOnSet(Pnls(qs), D \ S) = SumFunctionOnSet(Pnls(ps), D \ S)
  <2>1. \A i \in D \ S : Pnls(qs)[i] = Pnls(ps)[i]
    BY DEF Pnls
  <2> QED  BY <1>2, <2>1, SumSame
<1>12. SumFunctionOnSet(Pnls(ps), D) \in Int /\ SumFunctionOnSet(Pnls(ps), D \ S) \in Int
  BY <1>2, <1>4, SumInt
<1>13. SumFunctionOnSet(Pnls(qs), D) = SumFunctionOnSet(Pnls(ps), D) + SumFunctionOnSet(gain, S)
  <2>1. \A a, b, c, d \in Int : a = 0 + b /\ c = d + b => c = a + d
    OBVIOUS
  <2>2. SumFunctionOnSet(Pnls(qs), D) \in Int
    BY <1>2, <1>4, SumInt
  <2> QED  BY <1>6, <1>8, <1>9, <1>10, <1>11, <1>12, <2>1, <2>2
<1> QED  BY <1>3, <1>5, <1>6, <1>7, <1>12, <1>13

(* What a settlement does to the sums: free capital is up by what the      *)
(* positions pay out, their costs and their gains.                         *)
LEMMA SettleSums ==
    ASSUME TypeInv, NEW event \in Event, NEW yes \in BOOLEAN, NEW winner,
           Settle(event, winner, yes)
    PROVE  LET S    == OpenOn(event)
               gain == [i \in S |-> PnlAtResolution(positions[i], yes)]
               paid == [i \in S |-> PayoffIf(positions[i], yes)]
           IN  /\ S \in SUBSET Open(positions) /\ IsFiniteSet(S)
               /\ capital' = capital + SumFunctionOnSet(paid, S)
               /\ pnl' = pnl + SumFunctionOnSet(gain, S)
               /\ SumFunctionOnSet(paid, S) \in Nat
               /\ SumFunctionOnSet(paid, S)
                    = SumFunctionOnSet(Costs(positions), S) + SumFunctionOnSet(gain, S)
               /\ SumFunctionOnSet(Costs(positions), S) \in Int
               /\ SumFunctionOnSet(gain, S) \in Int
               /\ SumFunctionOnSet(Costs(positions), Open(positions))
                    = SumFunctionOnSet(Costs(positions'), Open(positions'))
                        + SumFunctionOnSet(Costs(positions), S)
               /\ SumFunctionOnSet(Costs(positions'), DOMAIN positions')
                    = SumFunctionOnSet(Costs(positions), DOMAIN positions)
               /\ SumFunctionOnSet(Pnls(positions'), DOMAIN positions')
                    = SumFunctionOnSet(Pnls(positions), DOMAIN positions) + SumFunctionOnSet(gain, S)
               /\ SumFunctionOnSet(Costs(positions'), Open(positions')) \in Int
               /\ SumFunctionOnSet(Pnls(positions), DOMAIN positions) \in Int
<1> DEFINE S    == OpenOn(event)
           gain == [i \in S |-> PnlAtResolution(positions[i], yes)]
           paid == [i \in S |-> PayoffIf(positions[i], yes)]
           both == [i \in S |-> positions[i].cost + PnlAtResolution(positions[i], yes)]
<1>1. positions \in Seq(Position) /\ \A i \in DOMAIN positions : ~positions[i].resolved => positions[i].pnl = 0
  BY DEF TypeInv, PositionsOK
<1>2. S \in SUBSET Open(positions) /\ S \subseteq DOMAIN positions
  BY DEF OpenOn, OpenIds, Open
<1>3. IsFiniteSet(S)
  BY <1>1, <1>2, PositionNumbers
<1>4. /\ positions' \in Seq(Position) /\ DOMAIN positions' = DOMAIN positions
      /\ \A i \in S : positions[i].pnl = 0 /\ positions'[i].pnl = gain[i]
      /\ \A i \in DOMAIN positions : positions'[i].cost = positions[i].cost
      /\ \A i \in S : positions'[i].resolved
      /\ \A i \in DOMAIN positions \ S : positions'[i] = positions[i]
  BY <1>1, <1>2, SettleFacts
<1>5. \A i \in S : /\ gain[i] \in Int /\ paid[i] \in Nat
                   /\ paid[i] = Costs(positions)[i] + gain[i] /\ both[i] = paid[i]
  BY <1>2, SettleFacts DEF Costs
<1>6. capital' = capital + SumFunctionOnSet(both, S) /\ pnl' = pnl + SumFunctionOnSet(gain, S)
  BY DEF Settle, Realize, SumFunction
<1> HIDE DEF S, gain, paid, both
<1>7. SumFunctionOnSet(both, S) = SumFunctionOnSet(paid, S)
  BY <1>3, <1>5, SumSame
<1>8. SumFunctionOnSet(paid, S) \in Nat
  BY <1>3, <1>5, SumNat
<1>9. SumFunctionOnSet(paid, S) = SumFunctionOnSet(Costs(positions), S) + SumFunctionOnSet(gain, S)
  <2>1. \A i \in S : Costs(positions)[i] \in Int
    BY <1>1, <1>2, CostsArePositive
  <2> QED  BY <1>3, <1>5, <2>1, SumPlus
<1>10. /\ SumFunctionOnSet(Costs(positions), S) \in Int
       /\ SumFunctionOnSet(gain, S) \in Int
       /\ SumFunctionOnSet(Costs(positions), Open(positions))
            = SumFunctionOnSet(Costs(positions'), Open(positions'))
                + SumFunctionOnSet(Costs(positions), S)
       /\ SumFunctionOnSet(Costs(positions'), DOMAIN positions')
            = SumFunctionOnSet(Costs(positions), DOMAIN positions)
       /\ SumFunctionOnSet(Pnls(positions'), DOMAIN positions')
            = SumFunctionOnSet(Pnls(positions), DOMAIN positions) + SumFunctionOnSet(gain, S)
       /\ SumFunctionOnSet(Costs(positions'), Open(positions')) \in Int
       /\ SumFunctionOnSet(Pnls(positions), DOMAIN positions) \in Int
  <2>1. Settles(positions, positions', S, gain)
    BY <1>4, <1>5 DEF Settles
  <2> QED  BY <1>1, <1>2, <1>4, <2>1, SumsAfterSettle
<1> QED  BY <1>2, <1>3, <1>6, <1>7, <1>8, <1>9, <1>10 DEF S, gain, paid

LEMMA ConservationStep == TypeInv /\ TypeInv' /\ Conservation /\ [Next]_vars => Conservation'
<1> SUFFICES ASSUME TypeInv, TypeInv', Conservation, [Next]_vars PROVE Conservation'
  OBVIOUS
<1> DEFINE open  == SumFunctionOnSet(Costs(positions), Open(positions))
           gains == SumFunctionOnSet(Pnls(positions), DOMAIN positions)
<1>0. /\ positions \in Seq(Position) /\ capital \in Int /\ pnl \in Int /\ StartingCapital \in Nat
      /\ PositionsOK /\ PositionsOK'
  BY AccountAssumption DEF TypeInv, TypeOK, PositionsOK
<1>1. capital + open = StartingCapital + pnl /\ pnl = gains /\ capital >= 0
  BY <1>0, ConservationIs
<1>2. open \in Int
  <2>1. IsFiniteSet(Open(positions)) /\ \A i \in Open(positions) : Costs(positions)[i] \in Int
    BY <1>0, PositionNumbers, CostsArePositive DEF Open
  <2> QED  BY <2>1, SumInt
<1>3. Conservation' <=> capital' + open' = StartingCapital + pnl' /\ pnl' = gains' /\ capital' >= 0
  <2>1. SumFunction([i \in Open(positions') |-> positions'[i].cost]) = open'
    BY <1>0, SumsByNumber DEF Open, PositionsOK
  <2>2. SumFunction([i \in DOMAIN positions' |-> positions'[i].pnl]) = gains'
    BY <1>0, SumsByNumber DEF PositionsOK
  <2>3. OpenIds' = Open(positions')
    BY DEF OpenIds, Open
  <2> QED  BY <2>1, <2>2, <2>3 DEF Conservation, Locked, CostOf
<1> HIDE DEF open, gains
<1>4. ASSUME open' = open, gains' = gains, capital' = capital, pnl' = pnl
      PROVE  Conservation'
  BY <1>1, <1>3, <1>4
<1>5. CASE Tick
  BY <1>4, <1>5 DEF Tick, account, open, gains
<1>6. CASE NewDay
  BY <1>4, <1>6 DEF NewDay, ResetDailyIfNeeded, open, gains
<1>7. CASE Restart
  <2>1. capital' = StartingCapital /\ pnl' = 0 /\ positions' = <<>>
    BY <1>7 DEF Restart, PortfolioNew
  <2>2. Open(positions') = {} /\ DOMAIN positions' = {}
    BY <2>1 DEF Open
  <2>3. open' = 0 /\ gains' = 0
    BY <2>2, SumEmpty DEF open, gains
  <2> QED  BY <1>0, <1>3, <2>1, <2>3
<1>8. ASSUME NEW offer \in Offers, Take(offer)
      PROVE  Conservation'
  <2> DEFINE p == NewPosition(offer.event, offer.legs, offer.cost)
  <2>1. /\ p \in Position /\ positions' = Append(positions, p)
        /\ capital' = capital - p.cost /\ capital >= p.cost
        /\ p.cost \in Nat /\ ~p.resolved /\ p.pnl = 0 /\ pnl' = pnl
    BY <1>8, TakeFacts
  <2> HIDE DEF p
  <2>2. open' = open + p.cost /\ gains' = gains
    BY <1>0, <2>1, SumsAfterTake DEF open, gains
  <2>3. capital' + open' = StartingCapital + pnl' /\ pnl' = gains' /\ capital' >= 0
    <3>1. pnl' = gains'
      BY <1>1, <2>1, <2>2
    <3>2. capital' >= 0
      BY <1>0, <2>1
    <3>3. \A a, b, c \in Int : (a - c) + (b + c) = a + b
      OBVIOUS
    <3>4. capital' + open' = capital + open
      BY <1>0, <1>2, <2>1, <2>2, <3>3
    <3> QED  BY <1>1, <2>1, <3>1, <3>2, <3>4
  <2> QED  BY <1>3, <2>3
<1>9. ASSUME NEW bid \in Bids, Mark(bid)
      PROVE  Conservation'
  <2>1. /\ positions' \in Seq(Position) /\ DOMAIN positions' = DOMAIN positions
        /\ \A i \in DOMAIN positions : /\ positions'[i].cost = positions[i].cost
                                       /\ positions'[i].pnl = positions[i].pnl
                                       /\ positions'[i].resolved = positions[i].resolved
        /\ capital' = capital /\ pnl' = pnl
    BY <1>9, MarkFacts
  <2>2. open' = open /\ gains' = gains
    BY <1>0, <2>1, SumsAfterMark DEF open, gains
  <2> QED  BY <1>4, <2>1, <2>2
<1>10. ASSUME NEW event \in Event, NEW yes \in BOOLEAN, NEW winner, Settle(event, winner, yes)
       PROVE  Conservation'
  <2>1. PICK C \in Int, G \in Int, P \in Nat :
               /\ capital' = capital + P /\ pnl' = pnl + G /\ P = C + G
               /\ open = open' + C /\ gains' = gains + G /\ open' \in Int
    BY <1>10, SettleSums DEF open, gains
  <2>2. pnl' = gains'
    BY <1>1, <2>1
  <2>3. capital' >= 0
    BY <1>0, <1>1, <2>1
  <2>4. capital' + open' = StartingCapital + pnl'
    <3>1. PICK c \in Int, o \in Int, s \in Int, p \in Int :
                 capital = c /\ open' = o /\ StartingCapital = s /\ pnl = p
      BY <1>0, <2>1
    <3>2. c + (o + C) = s + p
      BY <1>1, <2>1, <3>1
    <3>3. (c + (C + G)) + o = s + (p + G)
      BY <3>2
    <3> QED  BY <2>1, <3>1, <3>3
  <2> QED  BY <1>3, <2>2, <2>3, <2>4
<1>11. CASE UNCHANGED vars
  BY <1>4, <1>11 DEF vars, account, open, gains
<1> QED  BY <1>5, <1>6, <1>7, <1>8, <1>9, <1>10, <1>11 DEF Next

(* Free capital and what the open positions cost add up to the starting    *)
(* capital and the profit, and free capital is never overdrawn, whatever   *)
(* is taken, marked, settled and reset: portfolio.rs, add_position and     *)
(* realize.                                                                *)
THEOREM MoneyIsConserved == Spec => []Conservation
<1>1. Init => Conservation
  <2> SUFFICES ASSUME Init PROVE Conservation
    OBVIOUS
  <2>1. capital = StartingCapital /\ pnl = 0 /\ positions = <<>> /\ PositionsOK
    BY TypeInvInit DEF Init, PortfolioInit, TypeInv
  <2>2. Open(positions) = {} /\ DOMAIN positions = {}
    BY <2>1 DEF Open
  <2>3. /\ SumFunctionOnSet(Costs(positions), Open(positions)) = 0
        /\ SumFunctionOnSet(Pnls(positions), DOMAIN positions) = 0
    BY <2>2, SumEmpty
  <2>4. /\ capital + 0 = StartingCapital + pnl /\ pnl = 0 /\ capital >= 0
    BY <2>1, AccountAssumption
  <2> QED  BY <2>1, <2>3, <2>4, ConservationIs
<1> QED  BY <1>1, TypeInvInit, TypeInvStep, ConservationStep, PTL DEF Spec

-----------------------------------------------------------------------------
(* The venue's side.  Where the caller's verdict is the winner's, as it is *)
(* for every event of one contract, a leg is paid the same by both.        *)
LEMMA VerdictsAgree ==
    ASSUME TypeInv, NEW event \in Event, IsBinary(event), NEW yes \in BOOLEAN,
           NEW winner \in Winners(event), CallerMaySay(event, winner, yes),
           NEW i \in DOMAIN positions, positions[i].event = event
    PROVE  VenuePaysFor(i, winner) = PayoffIf(positions[i], yes)
<1>1. positions[i] \in Position /\ Sound(positions[i])
  BY PositionNumbers DEF TypeInv, PositionsOK
<1>2. \A k \in DOMAIN positions[i].legs : positions[i].legs[k].outcome \in OutcomesOf[event]
  BY <1>1 DEF Sound
<1>3. PICK x : OutcomesOf[event] = {x}
  <2>1. Cardinality(OutcomesOf[event]) = 1 /\ OutcomesOf[event] \subseteq Outcome
    BY OfferAssumption DEF IsBinary
  <2>2. IsFiniteSet(OutcomesOf[event])
    BY OfferAssumption
  <2> QED  BY <2>1, <2>2, FS_Singleton
<1>4. winner \in {x, Nobody} /\ x # Nobody
  BY <1>3, OfferAssumption DEF Winners
<1>5. yes = (winner = x)
  BY <1>3 DEF CallerMaySay, IsBinary
<1>6. \A k \in DOMAIN positions[i].legs :
         VenuePays(positions[i].legs[k], winner) = LegPays(positions[i].legs[k], yes)
  <2> SUFFICES ASSUME NEW k \in DOMAIN positions[i].legs
               PROVE  VenuePays(positions[i].legs[k], winner) = LegPays(positions[i].legs[k], yes)
    OBVIOUS
  <2>1. positions[i].legs[k].outcome = x
    BY <1>2, <1>3
  <2>2. (positions[i].legs[k].outcome = winner) = yes
    BY <1>5, <2>1
  <2> QED  BY <2>2 DEF VenuePays, LegPays
<1> QED  BY <1>6 DEF VenuePaysFor, PayoffIf

LEMMA AccountStep ==
    TypeInv /\ TypeInv' /\ AccountIsTheVenues /\ [Next]_vars => AccountIsTheVenues'
<1> SUFFICES ASSUME TypeInv, TypeInv', AccountIsTheVenues, [Next]_vars
             PROVE  AccountIsTheVenues'
  OBVIOUS
<1> DEFINE all == SumFunctionOnSet(Costs(positions), DOMAIN positions)
           Binary(ps) == \A i \in DOMAIN ps : ps[i].resolved => IsBinary(ps[i].event)
<1>0. /\ positions \in Seq(Position) /\ capital \in Int /\ landed \in Nat /\ StartingCapital \in Nat
      /\ PositionsOK /\ PositionsOK'
  BY AccountAssumption DEF TypeInv, TypeOK, PositionsOK
<1>1. Binary(positions) => capital = StartingCapital - all + landed
  BY <1>0, LockedIs DEF AccountIsTheVenues
<1>2. all \in Int
  BY <1>0, PositionNumbers, CostsArePositive, SumInt
<1>3. (Binary(positions') => capital' = StartingCapital - all' + landed') => AccountIsTheVenues'
  <2>1. SumFunction([i \in DOMAIN positions' |-> positions'[i].cost]) = all'
    BY <1>0, SumsByNumber DEF PositionsOK
  <2> QED  BY <2>1 DEF AccountIsTheVenues, CostOf
<1> HIDE DEF all
<1>4. ASSUME all' = all, capital' = capital, landed' = landed, Binary(positions') => Binary(positions)
      PROVE  AccountIsTheVenues'
  BY <1>1, <1>3, <1>4
<1>5. CASE UNCHANGED <<capital, positions, landed>>
  BY <1>4, <1>5 DEF all
<1>6. CASE Tick \/ NewDay \/ UNCHANGED vars
  BY <1>5, <1>6 DEF Tick, NewDay, ResetDailyIfNeeded, account, ghosts, vars
<1>7. CASE Restart
  <2>1. capital' = StartingCapital /\ landed' = 0 /\ positions' = <<>>
    BY <1>7 DEF Restart, PortfolioNew
  <2>2. DOMAIN positions' = {}
    BY <2>1
  <2>3. all' = 0
    BY <2>2, SumEmpty DEF all
  <2>4. capital' = StartingCapital - all' + landed'
    BY <1>0, <2>1, <2>3
  <2> QED  BY <1>3, <2>4
<1>8. ASSUME NEW offer \in Offers, Take(offer)
      PROVE  AccountIsTheVenues'
  <2> DEFINE p == NewPosition(offer.event, offer.legs, offer.cost)
  <2>1. /\ p \in Position /\ positions' = Append(positions, p)
        /\ capital' = capital - p.cost
        /\ p.cost \in Nat /\ ~p.resolved /\ p.pnl = 0 /\ UNCHANGED landed
    BY <1>8, TakeFacts DEF ghosts
  <2> HIDE DEF p
  <2>2. all' = all + p.cost
    BY <1>0, <2>1, SumsAfterTake DEF all
  <2>3. Binary(positions') => Binary(positions)
    BY <1>0, <2>1
  <2>4. PICK c \in Int, a \in Int, s \in Int, l \in Int, d \in Int :
               capital = c /\ all = a /\ StartingCapital = s /\ landed = l /\ p.cost = d
    BY <1>0, <1>2, <2>1
  <2>5. ASSUME Binary(positions')
        PROVE  capital' = StartingCapital - all' + landed'
    <3>1. c = s - a + l
      BY <1>1, <2>3, <2>4, <2>5
    <3>2. c - d = s - (a + d) + l
      BY <3>1
    <3> QED  BY <2>1, <2>2, <2>4, <3>2
  <2> QED  BY <1>3, <2>5
<1>9. ASSUME NEW bid \in Bids, Mark(bid)
      PROVE  AccountIsTheVenues'
  <2>1. /\ positions' \in Seq(Position) /\ DOMAIN positions' = DOMAIN positions
        /\ \A i \in DOMAIN positions : /\ positions'[i].cost = positions[i].cost
                                       /\ positions'[i].pnl = positions[i].pnl
                                       /\ positions'[i].resolved = positions[i].resolved
                                       /\ positions'[i].event = positions[i].event
        /\ UNCHANGED <<capital, landed>>
    BY <1>9, MarkFacts DEF ghosts
  <2>2. all' = all
    BY <1>0, <2>1, SumsAfterMark DEF all
  <2>3. Binary(positions') => Binary(positions)
    BY <2>1
  <2> QED  BY <1>4, <2>1, <2>2, <2>3
<1>10. ASSUME NEW event \in Event, NEW yes \in BOOLEAN, NEW winner \in Winners(event),
              Settle(event, winner, yes)
       PROVE  AccountIsTheVenues'
  <2> DEFINE S    == OpenOn(event)
             paid == [i \in S |-> PayoffIf(positions[i], yes)]
             came == [i \in S |-> VenuePaysFor(i, winner)]
  <2>1. /\ S \subseteq DOMAIN positions /\ S # {} /\ DOMAIN positions' = DOMAIN positions
        /\ \A i \in DOMAIN positions : /\ positions'[i].event = positions[i].event
                                       /\ i \in S => positions'[i].resolved /\ positions[i].event = event
                                       /\ i \notin S => positions'[i] = positions[i]
                                       /\ i \in S => ~positions[i].resolved
    BY <1>10, SettleFacts
  <2>2. Binary(positions') => Binary(positions) /\ IsBinary(event)
    BY <2>1
  <2>3. /\ capital' = capital + SumFunctionOnSet(paid, S) /\ all' = all
        /\ SumFunctionOnSet(paid, S) \in Nat /\ IsFiniteSet(S)
    BY <1>10, SettleSums DEF all
  <2>4. landed' = landed + SumFunctionOnSet(came, S)
    BY <1>10 DEF Settle, SumFunction
  <2>5. ASSUME Binary(positions')
        PROVE  capital' = StartingCapital - all' + landed'
    <3>1. \A i \in S : paid[i] = came[i]
      <4>1. CallerMaySay(event, winner, yes)
        BY <1>10 DEF Settle
      <4> QED  BY <2>1, <2>2, <2>5, <4>1, VerdictsAgree
    <3> HIDE DEF S, paid, came
    <3>2. SumFunctionOnSet(paid, S) = SumFunctionOnSet(came, S)
      BY <2>3, <3>1, SumSame
    <3>3. PICK c \in Int, a \in Int, s \in Int, l \in Int, d \in Int :
                 /\ capital = c /\ all = a /\ StartingCapital = s /\ landed = l
                 /\ SumFunctionOnSet(paid, S) = d
      BY <1>0, <1>2, <2>3
    <3>4. c = s - a + l
      BY <1>1, <2>2, <2>5, <3>3
    <3>5. c + d = s - a + (l + d)
      BY <3>4
    <3> QED  BY <2>3, <2>4, <3>2, <3>3, <3>5
  <2> QED  BY <1>3, <2>5
<1> QED  BY <1>6, <1>7, <1>8, <1>9, <1>10 DEF Next

(* Free capital is the starting capital, less what was paid for positions, *)
(* plus what the venue paid out, while only events of one contract have    *)
(* been settled: portfolio.rs, realize, gives all legs one verdict.        *)
THEOREM AccountFollowsVenue == Spec => []AccountIsTheVenues
<1>1. Init => AccountIsTheVenues
  <2> SUFFICES ASSUME Init PROVE AccountIsTheVenues
    OBVIOUS
  <2>1. capital = StartingCapital /\ landed = 0 /\ positions = <<>> /\ PositionsOK
    BY TypeInvInit DEF Init, PortfolioInit, TypeInv
  <2>2. DOMAIN positions = {}
    BY <2>1
  <2>3. CostOf(DOMAIN positions) = 0
    BY <2>1, <2>2, LockedIs, SumEmpty
  <2>4. capital = StartingCapital - 0 + landed
    BY <2>1, AccountAssumption
  <2> QED  BY <2>3, <2>4 DEF AccountIsTheVenues
<1> QED  BY <1>1, TypeInvInit, TypeInvStep, AccountStep, PTL DEF Spec

-----------------------------------------------------------------------------
PossibleMark(p) ==
    /\ p.resolved => p.mark = 0
    /\ p.mark >= -p.cost
    /\ p.mark + p.cost <= Payout * Contracts(p)

LEMMA NoMarkIsPossible ==
    ASSUME NEW p \in Position, Sound(p), p.mark = 0
    PROVE  PossibleMark(p)
<1>1. p.cost \in Nat /\ p.cost <= Payout * Contracts(p)
  BY DEF Position, Sound
<1>2. 0 >= -p.cost /\ 0 + p.cost = p.cost
  BY <1>1
<1> QED  BY <1>1, <1>2 DEF PossibleMark

LEMMA MarkStep == TypeInv /\ TypeInv' /\ MarkIsPossible /\ [Next]_vars => MarkIsPossible'
<1> SUFFICES ASSUME TypeInv, TypeInv', MarkIsPossible, [Next]_vars, NEW i \in DOMAIN positions'
             PROVE  PossibleMark(positions'[i])
  BY DEF MarkIsPossible, PossibleMark, Contracts
<1>0. /\ positions \in Seq(Position) /\ positions' \in Seq(Position)
      /\ \A j \in DOMAIN positions : PossibleMark(positions[j]) /\ Sound(positions[j])
      /\ positions'[i] \in Position
  BY DEF TypeInv, PositionsOK, MarkIsPossible, PossibleMark
<1>1. CASE UNCHANGED positions
  BY <1>0, <1>1
<1>2. CASE Tick \/ NewDay \/ UNCHANGED vars
  BY <1>1, <1>2 DEF Tick, NewDay, ResetDailyIfNeeded, account, vars
<1>3. CASE Restart
  BY <1>3 DEF Restart, PortfolioNew
<1>4. ASSUME NEW offer \in Offers, Take(offer)
      PROVE  PossibleMark(positions'[i])
  <2> DEFINE p == NewPosition(offer.event, offer.legs, offer.cost)
  <2>1. p \in Position /\ Sound(p) /\ positions' = Append(positions, p) /\ p.mark = 0
    BY <1>4, TakeFacts
  <2> HIDE DEF p
  <2>2. positions'[i] = p \/ (i \in DOMAIN positions /\ positions'[i] = positions[i])
    BY <1>0, <2>1
  <2> QED  BY <1>0, <2>1, <2>2, NoMarkIsPossible
<1>5. ASSUME NEW bid \in Bids, Mark(bid)
      PROVE  PossibleMark(positions'[i])
  <2> DEFINE p == positions[i]
             q == positions'[i]
  <2>1. /\ i \in DOMAIN positions
        /\ q.legs = p.legs /\ q.cost = p.cost /\ q.resolved = p.resolved
        /\ p.resolved => q.mark = p.mark
        /\ ~p.resolved => q.mark = LiquidationOf(p, bid) - p.cost
    BY <1>5, MarkFacts
  <2>2. p \in Position /\ Contracts(q) = Contracts(p) /\ PossibleMark(p) /\ Sound(p)
    BY <1>0, <2>1 DEF Contracts
  <2>3. CASE p.resolved
    BY <2>1, <2>2, <2>3 DEF PossibleMark
  <2>4. CASE ~p.resolved
    <3>1. /\ LiquidationOf(p, bid) \in Nat
          /\ LiquidationOf(p, bid) <= Payout * Contracts(p)
      BY <2>2, LiquidationBounds
    <3>2. PICK l \in Nat, d \in Nat : LiquidationOf(p, bid) = l /\ p.cost = d
      BY <2>2, <3>1 DEF Position
    <3>3. l - d >= -d /\ (l - d) + d = l
      OBVIOUS
    <3> QED  BY <2>1, <2>2, <2>4, <3>1, <3>2, <3>3 DEF PossibleMark
  <2> QED  BY <2>3, <2>4
<1>6. ASSUME NEW event \in Event, NEW yes \in BOOLEAN, NEW winner, Settle(event, winner, yes)
      PROVE  PossibleMark(positions'[i])
  <2>1. /\ i \in DOMAIN positions
        /\ i \in OpenOn(event) => positions'[i].mark = 0
        /\ i \notin OpenOn(event) => positions'[i] = positions[i]
    BY <1>6, SettleFacts
  <2>2. Sound(positions'[i])
    BY DEF TypeInv, PositionsOK, Sound, Contracts
  <2> QED  BY <1>0, <2>1, <2>2, NoMarkIsPossible
<1> QED  BY <1>2, <1>3, <1>4, <1>5, <1>6 DEF Next

(* A mark never loses more than was paid nor promises more than the legs   *)
(* could pay, and a settled position has none: portfolio.rs, mark_to_market *)
(* and realize.                                                            *)
THEOREM MarksArePossible == Spec => []MarkIsPossible
<1>1. Init => MarkIsPossible
  BY DEF Init, PortfolioInit, MarkIsPossible
<1> QED  BY <1>1, TypeInvInit, TypeInvStep, MarkStep, PTL DEF Spec
=============================================================================
