--------------------------- MODULE PortfolioDays ----------------------------
(***************************************************************************)
(* The account over several days, and several runs of the process: the     *)
(* operations of Portfolio in any order their callers can issue them.      *)
(* Settlement has no caller in the program yet, only its tests, so it may  *)
(* come at any time; the other operations come with the engine's events.   *)
(*                                                                         *)
(* An event has one winning contract, which the venue knows.  A process    *)
(* that starts builds a new Portfolio: nothing is stored, the day's losses *)
(* included.                                                               *)
(***************************************************************************)
EXTENDS Portfolio

CONSTANTS
    OutcomesOf,    \* the contracts of each event
    Nobody,        \* the winner of a binary event that resolves no
    Offers,        \* the positions the engine may take, as [event, legs, cost]
    Bids,          \* the bids a mark may see
    MaxPositions,  \* bound on positions
    MaxTime,       \* bound on the clock
    MaxRestarts    \* bound on restarts

ASSUME DaysAssumption == MaxPositions \in Nat /\ MaxTime \in Nat /\ MaxRestarts \in Nat

(* The solver takes the legs of a position on contracts of its event, and  *)
(* none for more than it could ever pay; no bid is above the payout.       *)
Leg == [outcome : Outcome, side : {"yes", "no"}, qty : Nat]

Contracts(position) == SumFunction([k \in DOMAIN position.legs |-> position.legs[k].qty])

Sound(position) ==
    /\ position.cost <= Payout * Contracts(position)
    /\ \A k \in DOMAIN position.legs : position.legs[k].outcome \in OutcomesOf[position.event]

ASSUME OfferAssumption ==
    /\ OutcomesOf \in [Event -> SUBSET Outcome]
    /\ \A event \in Event : IsFiniteSet(OutcomesOf[event])
    /\ Nobody \notin Outcome
    /\ \A offer \in Offers : /\ offer.event \in Event /\ offer.cost \in Nat
                             /\ offer.legs \in Seq(Leg)
                             /\ Sound(offer)
    /\ Bids \subseteq [Outcome -> [{"yes", "no"} -> 0 .. Payout]]

VARIABLES
    restarts,
    lossOfDay,     \* ghost: losses this process realized in this calendar day
    lastOf,        \* ghost: the calendar day lossOfDay belongs to
    landed         \* ghost: what the venue has paid for settled positions

ghosts == <<restarts, lossOfDay, lastOf, landed>>
vars   == <<now, account, ghosts>>

Today == now \div Day

Init ==
    /\ now = 0 /\ PortfolioInit
    /\ restarts = 0 /\ lossOfDay = 0 /\ lastOf = 0 /\ landed = 0

Tick ==
    /\ now < MaxTime
    /\ now' = now + 1
    /\ lastOf' = now' \div Day
    /\ lossOfDay' = IF lastOf' = lastOf THEN lossOfDay ELSE 0
    /\ UNCHANGED <<account, restarts, landed>>

(* An event reaches the engine, and the day is turned over; the trade it   *)
(* leads to is booked when its orders are answered, be it past midnight.   *)
NewDay ==
    /\ ResetDailyIfNeeded
    /\ UNCHANGED <<now, ghosts>>

Take(offer) ==
    /\ Len(positions) < MaxPositions
    /\ AddPosition(NewPosition(offer.event, offer.legs, offer.cost))
    /\ UNCHANGED <<now, ghosts>>

Mark(bid) ==
    /\ MarkToMarket(bid)
    /\ UNCHANGED <<now, ghosts>>

(* The venue settles an event on its winner and the account follows.       *)
VenuePays(leg, winner) ==
    IF (leg.side = "yes") = (leg.outcome = winner) THEN leg.qty * Payout ELSE 0

VenuePaysFor(i, winner) ==
    SumFunction([k \in DOMAIN positions[i].legs |-> VenuePays(positions[i].legs[k], winner)])

(* Of a binary event the caller says how its contract resolved.  Of an     *)
(* event with several contracts, whatever it says is one verdict for all.  *)
CallerMaySay(event, winner, yes) ==
    Cardinality(OutcomesOf[event]) = 1 => yes = (winner \in OutcomesOf[event])

(* An exhaustive event has a winner; a binary one may have none.           *)
Winners(event) ==
    OutcomesOf[event] \cup (IF Cardinality(OutcomesOf[event]) = 1 THEN {Nobody} ELSE {})

(* Who will settle is to turn the day over first, as step does.            *)
Settle(event, winner, yes) ==
    /\ now < resetAt
    /\ CallerMaySay(event, winner, yes)
    /\ Realize(event, yes)
    /\ landed'    = landed + SumFunction([i \in OpenOn(event) |-> VenuePaysFor(i, winner)])
    /\ lossOfDay' = lossOfDay + (lossToday' - lossToday)
    /\ UNCHANGED <<now, restarts, lastOf>>

Restart ==
    /\ restarts < MaxRestarts
    /\ restarts' = restarts + 1
    /\ LET fresh == PortfolioNew(now) IN
       /\ capital' = fresh.capital /\ positions' = fresh.positions
       /\ lossToday' = fresh.lossToday /\ resetAt' = fresh.resetAt /\ pnl' = fresh.pnl
    /\ landed' = 0 /\ lossOfDay' = 0
    /\ UNCHANGED <<now, lastOf>>

Next ==
    \/ Tick \/ NewDay \/ Restart
    \/ \E offer \in Offers : Take(offer)
    \/ \E bid \in Bids : Mark(bid)
    \/ \E event \in Event, yes \in BOOLEAN : \E winner \in Winners(event) :
          Settle(event, winner, yes)

Spec == Init /\ [][Next]_vars

-----------------------------------------------------------------------------
TypeOK ==
    /\ now \in 0 .. MaxTime /\ capital \in Int /\ lossToday \in Nat /\ pnl \in Int
    /\ resetAt \in Nat /\ restarts \in 0 .. MaxRestarts
    /\ lossOfDay \in Nat /\ lastOf \in Nat /\ landed \in Nat
    /\ Len(positions) <= MaxPositions
    /\ \A i \in DOMAIN positions :
          /\ positions[i].event \in Event /\ positions[i].cost \in Nat
          /\ positions[i].resolved \in BOOLEAN
          /\ positions[i].pnl \in Int /\ positions[i].mark \in Int

(* No cent is made, lost or promised twice: free capital and what open     *)
(* positions cost add up to the starting capital and the profit so far,    *)
(* whatever was taken, marked, settled and reset, and it is never overdrawn. *)
Conservation ==
    /\ capital + Locked = StartingCapital + pnl
    /\ pnl = SumFunction([i \in DOMAIN positions |-> positions[i].pnl])
    /\ capital >= 0

(* The account follows the venue's: free capital is the starting capital,  *)
(* less what was paid for positions, plus what the venue paid out for them,*)
(* as long as no event of several contracts was settled, whose legs all    *)
(* get one verdict.                                                        *)
IsBinary(event) == Cardinality(OutcomesOf[event]) = 1
AccountIsTheVenues ==
    (\A i \in DOMAIN positions : positions[i].resolved => IsBinary(positions[i].event)) =>
        capital = StartingCapital - CostOf(DOMAIN positions) + landed

(* The mark of an open position never loses more than was paid for it nor  *)
(* promises more than its legs could pay, and a settled one has no mark.   *)
MarkIsPossible ==
    \A i \in DOMAIN positions :
        /\ positions[i].resolved => positions[i].mark = 0
        /\ positions[i].mark >= -positions[i].cost
        /\ positions[i].mark + positions[i].cost
              <= Payout * Contracts(positions[i])

(* No position is taken on a calendar day on which the process's realized  *)
(* losses, profits aside, have reached the limit, be the trade admitted    *)
(* the day before.                                                         *)
DayIsOpen == Len(positions') > Len(positions) => lossOfDay < LossLimit
DailyLimitHolds == [][DayIsOpen]_vars
=============================================================================
