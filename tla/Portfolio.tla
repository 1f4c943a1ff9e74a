----------------------------- MODULE Portfolio ------------------------------
(***************************************************************************)
(* The engine's account (src/src/portfolio.rs): free capital, the          *)
(* positions it has taken, and the day's budget of realized losses.        *)
(*                                                                         *)
(* Money is in whole cents and time in abstract ticks, Day of them to a    *)
(* UTC day.  A position is its legs and its cost; order ids, the group and *)
(* the entry time are left out, as nothing here reads them.                *)
(***************************************************************************)
EXTENDS Integers, Sequences, FiniteSets, Functions

CONSTANTS
    Event,             \* canonical events
    Outcome,           \* contracts: each pays on one outcome of its event
    Payout,            \* what a contract pays when it wins (100 cents)
    StartingCapital,
    LossLimit,         \* of one day
    Day                \* ticks in a day

ASSUME AccountAssumption ==
    /\ Payout \in Nat /\ StartingCapital \in Nat /\ LossLimit \in Nat
    /\ Day \in Nat \ {0}

VARIABLES
    now,         \* the clock
    capital,     \* cash not committed to a position
    positions,   \* every position ever taken
    lossToday,   \* realized losses since the last reset
    resetAt,     \* the next UTC midnight
    pnl          \* realized profit

account == <<capital, positions, lossToday, resetAt, pnl>>

NextMidnight(t) == (t \div Day + 1) * Day

PortfolioNew(t) ==
    [capital |-> StartingCapital, positions |-> <<>>, lossToday |-> 0,
     resetAt |-> NextMidnight(t), pnl |-> 0]

PortfolioInit ==
    /\ capital = StartingCapital /\ positions = <<>>
    /\ lossToday = 0 /\ resetAt = NextMidnight(now) /\ pnl = 0

OpenIds     == {i \in DOMAIN positions : ~positions[i].resolved}
AllOn(e)    == {i \in DOMAIN positions : positions[i].event = e}   \* mutant: settled ones too

OpenOn(e)   == {i \in OpenIds : positions[i].event = e}
CostOf(ids) == SumFunction([i \in ids |-> positions[i].cost])

Locked        == CostOf(OpenIds)
ExposureTo(e) == CostOf(OpenOn(e))

-----------------------------------------------------------------------------
CanAfford(cost)  == capital >= cost
UpToDailyLimit   == lossToday <= LossLimit       \* mutant: off by one

WithinDailyLimit == lossToday < LossLimit

NewPosition(event, legs, cost) ==
    [event |-> event, legs |-> legs, cost |-> cost,
     resolved |-> FALSE, pnl |-> 0, mark |-> 0]

AcceptsOnCredit(cost) == WithinDailyLimit        \* mutant: affordability forgotten

Accepts(cost) == WithinDailyLimit /\ CanAfford(cost)

AddPosition(position) ==
    /\ Accepts(position.cost)
    /\ capital'   = capital - position.cost
    /\ positions' = Append(positions, position)
    /\ UNCHANGED <<lossToday, resetAt, pnl>>

(* Settlement.  One verdict, yes or no, is applied to every leg.           *)
LegPays(leg, yes) == IF (leg.side = "yes") = yes THEN leg.qty * Payout ELSE 0

PayoffIf(position, yes) ==
    SumFunction([k \in DOMAIN position.legs |-> LegPays(position.legs[k], yes)])

PayoffAlone(position, yes) == PayoffIf(position, yes)     \* mutant: the cost forgotten

PnlAtResolution(position, yes) == PayoffIf(position, yes) - position.cost

LossesNet(amount) == -amount                     \* mutant: profits offset losses

Losses(amount) == IF amount < 0 THEN -amount ELSE 0

Realize(event, yes) ==
    LET settled == OpenOn(event)
        gain(i) == PnlAtResolution(positions[i], yes)
    IN  /\ settled # {}
        /\ positions' = [i \in DOMAIN positions |->
               IF i \in settled
               THEN [positions[i] EXCEPT !.resolved = TRUE, !.pnl = gain(i), !.mark = 0]
               ELSE positions[i]]
        /\ capital'   = capital + SumFunction([i \in settled |-> positions[i].cost + gain(i)])
        /\ pnl'       = pnl + SumFunction([i \in settled |-> gain(i)])
        /\ lossToday' = lossToday + SumFunction([i \in settled |-> Losses(gain(i))])
        /\ UNCHANGED resetAt

(* Mark to market at the bid; no bid, or no book, marks a leg at nothing.  *)
(* bid[o][s] is the best bid for side s of contract o, 0 when there is none. *)
LiquidationOf(position, bid) ==
    SumFunction([k \in DOMAIN position.legs |->
        position.legs[k].qty * bid[position.legs[k].outcome][position.legs[k].side]])

MarkEverything(bid) ==                           \* mutant: settled positions too
    /\ positions' = [i \in DOMAIN positions |->
           [positions[i] EXCEPT !.mark = LiquidationOf(positions[i], bid) - positions[i].cost]]
    /\ UNCHANGED <<capital, lossToday, resetAt, pnl>>

MarkToMarket(bid) ==
    /\ positions' = [i \in DOMAIN positions |->
           IF i \in OpenIds
           THEN [positions[i] EXCEPT !.mark = LiquidationOf(positions[i], bid) - positions[i].cost]
           ELSE positions[i]]
    /\ UNCHANGED <<capital, lossToday, resetAt, pnl>>

ResetDailyIfNeeded ==
    /\ lossToday' = IF now < resetAt THEN lossToday ELSE 0
    /\ resetAt'   = IF now < resetAt THEN resetAt ELSE NextMidnight(now)
    /\ UNCHANGED <<capital, positions, pnl>>
=============================================================================
