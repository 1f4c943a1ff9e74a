------------------------------ MODULE Trading -------------------------------
(***************************************************************************)
(* From a priced opportunity to a booked position: the engine's gate and   *)
(* its executor (src/src/engine.rs, admit and execute; src/src/risk.rs;    *)
(* the order path of src/src/health.rs), the atomic trade                  *)
(* (src/src/exec/atomic.rs) and the order client (src/src/exec/kalshi.rs). *)
(*                                                                         *)
(* A batch is the opportunities one market event uncovers.  All of it is   *)
(* admitted against the account as it stands, then its trades run one      *)
(* after the other; the legs of a trade are placed together and may be     *)
(* filled, answered, or neither, in any order.  The matching of an order   *)
(* at the venue is external, and may come after the engine stopped         *)
(* waiting for the answer.                                                 *)
(*                                                                         *)
(* Which opportunities are found is the solver's affair: any set of Offers *)
(* may be.  The clock stands still but for two deadlines: the health       *)
(* monitor's idle budget and the trade's timeout.  No position is settled  *)
(* (the program has no caller for it), so the daily reset changes nothing; *)
(* marks are left to PortfolioDays.                                        *)
(***************************************************************************)
EXTENDS Portfolio, FiniteSetsExt, SequencesExt

CONSTANTS
    Offers,           \* [event, legs, inferred]; a leg is [outcome,
                      \* side, qty, levels, fee]: the levels of the ladder,
                      \* [price, size], that its qty was costed on
    Moves,            \* the book at the venue may be the "same" when the
                      \* order gets there, or "worse"
    ThemeOf,          \* the theme of each event, or NoTheme
    NoTheme,
    MaxPerEvent, MaxPerTheme, MaxConcurrent,
    ErrorThreshold,   \* 3 in the code
    Live, AllowLive, AllowInferred,
    Faults,           \* what the venue and the network may do to an order
    MaxBatch,         \* bound on the opportunities of one event
    MaxTrades         \* bound on trades attempted

ASSUME TradingAssumption ==
    /\ Moves \subseteq {"same", "worse"}
    /\ ErrorThreshold \in Nat \ {0}
    /\ {Live, AllowLive, AllowInferred} \subseteq BOOLEAN
    /\ Faults \subseteq {"reject", "transport", "stall"}

(* Ladders hold whole cents and sizes, fees are not negative, and no       *)
(* opportunity is priced at a quantity of nothing.                         *)
Level == [price : Nat, size : Nat \ {0}]
Leg   == [outcome : Outcome, side : {"yes", "no"}, qty : Nat \ {0},
          levels : Seq(Level) \ {<<>>}, fee : Nat]

ASSUME OfferAssumption ==
    /\ IsFiniteSet(Offers)
    /\ \A o \in Offers : o.event \in Event /\ o.legs \in Seq(Leg)

VARIABLES
    health,      \* HealthState of Kalshi
    errors,      \* its consecutive_errors
    idle,        \* nothing has come from Kalshi for longer than the budget
    plans,       \* the admitted trades of the batch still to run
    trades,      \* every trade attempted, the last one perhaps still running
    before       \* how many of them came before this batch

vars == <<now, account, health, errors, idle, plans, trades, before>>

HealthState == {"Healthy", "Stale", "Erroring", "Disconnected"}

(* What became of a leg at the venue, and what the engine was told of it.  *)
Fate    == {"flying", "filled", "refused"}
Reply   == {"none", "fill", "refusal", "unknown"}
Verdict == {"running", "booked", "rejected", "missed", "legged", "timeout"}

(* What the solver costed, and what the order will bear: the limit is the  *)
(* worst level the costing consumed, for the whole quantity.               *)
LegCost(leg)    == SumFunction([i \in DOMAIN leg.levels |->
                                    leg.levels[i].price * leg.levels[i].size])
LimitPrice(leg) == Max({leg.levels[i].price : i \in DOMAIN leg.levels})
Capital(offer)  == SumFunction([k \in DOMAIN offer.legs |->
                                    LegCost(offer.legs[k]) + offer.legs[k].fee])

TradeOf(offer) ==
    [offer   |-> offer,
     before  |-> before,
     fate    |-> [k \in DOMAIN offer.legs |-> "flying"],
     reply   |-> [k \in DOMAIN offer.legs |-> "none"],
     paid    |-> [k \in DOMAIN offer.legs |-> 0],
     verdict |-> "running"]

Legs(t)    == DOMAIN t.offer.legs
Running    == trades # <<>> /\ Last(trades).verdict = "running"
Free       == plans = <<>> /\ ~Running
Unreconciled(t) == t.verdict \in {"rejected", "legged", "timeout"}

Init ==
    /\ now = 0 /\ PortfolioInit
    /\ health = "Disconnected" /\ errors = 0 /\ idle = TRUE
    /\ plans = <<>> /\ trades = <<>> /\ before = 0

-----------------------------------------------------------------------------
(* The gate.                                                               *)

ThemeExposure(theme) ==
    CostOf({i \in OpenIds : ThemeOf[positions[i].event] = theme})

RiskAllowsAlone(o) ==                            \* mutant: what is locked already forgotten
    /\ Capital(o) <= MaxPerEvent
    /\ Capital(o) <= MaxPerTheme

RiskAllows(o) ==
    /\ Cardinality(OpenIds) < MaxConcurrent
    /\ ExposureTo(o.event) + Capital(o) <= MaxPerEvent
    /\ ThemeOf[o.event] # NoTheme => ThemeExposure(ThemeOf[o.event]) + Capital(o) <= MaxPerTheme

Admits(o) == CanAfford(Capital(o)) /\ WithinDailyLimit /\ RiskAllows(o)

(* can_trade: a Healthy that has expired is demoted before it is read.     *)
Expired(h, quiet) == IF h = "Healthy" /\ quiet THEN "Stale" ELSE h

(* The solver ranks a batch by annualized return: any order is possible.   *)
Rankings(found) == SetToSeqs(found)

(* What of a batch is left to run once a live client has been allowed.     *)
Admitted(found, h) ==
    IF h # "Healthy" \/ (Live /\ ~AllowLive) THEN {} ELSE {o \in found : Admits(o)}

(* A market-data event: it proves its venue alive, and the groups it       *)
(* touches are evaluated and admitted.                                     *)
MarketEvent(fromKalshi, found) ==
    LET seen  == IF fromKalshi THEN "Healthy" ELSE health
        quiet == IF fromKalshi THEN FALSE ELSE idle
        h     == IF found = {} THEN seen ELSE Expired(seen, quiet)
    IN  /\ Free
        /\ health' = h /\ idle' = quiet
        /\ errors' = IF fromKalshi THEN 0 ELSE errors
        /\ plans' \in Rankings(Admitted(found, h))
        /\ before' = Len(trades)
        /\ UNCHANGED <<now, account, trades>>

SocketLost ==
    /\ Free
    /\ health' = "Disconnected"
    /\ UNCHANGED <<now, account, errors, idle, plans, trades, before>>

IdleBudgetPasses ==
    /\ ~idle /\ idle' = TRUE
    /\ UNCHANGED <<now, account, health, errors, plans, trades, before>>

-----------------------------------------------------------------------------
(* The executor.                                                           *)

Withheld(o) == Live /\ ~AllowInferred /\ o.inferred

SkipInferred ==
    /\ ~Running /\ plans # <<>> /\ Withheld(Head(plans))
    /\ plans' = Tail(plans)
    /\ UNCHANGED <<now, account, health, errors, idle, trades, before>>

(* Every leg is placed at once.                                            *)
Place ==
    /\ ~Running /\ plans # <<>> /\ ~Withheld(Head(plans))
    /\ trades' = Append(trades, TradeOf(Head(plans)))
    /\ plans'  = Tail(plans)
    /\ UNCHANGED <<now, account, health, errors, idle, before>>

(* The venue: a fill-or-kill order fills whole or not at all.              *)
VenueFills(i, k) ==
    /\ trades[i].fate[k] = "flying"
    /\ \E move \in Moves :
          LET leg == trades[i].offer.legs[k] IN
          trades' = [trades EXCEPT ![i].fate[k] = "filled",
                                   ![i].paid[k] = IF move = "same" THEN LegCost(leg)
                                                  ELSE LimitPrice(leg) * leg.qty]
    /\ UNCHANGED <<now, account, health, errors, idle, plans, before>>

VenueRefuses(i, k) ==
    /\ "reject" \in Faults
    /\ trades[i].fate[k] = "flying"
    /\ trades' = [trades EXCEPT ![i].fate[k] = "refused"]
    /\ UNCHANGED <<now, account, health, errors, idle, plans, before>>

(* place_order returns: the venue's word, or a transport error, which may  *)
(* come whatever the venue did, or before it did anything.                 *)
Told(k, reply) ==
    /\ Running
    /\ LET i == Len(trades) IN
       /\ trades[i].reply[k] = "none"
       /\ trades' = [trades EXCEPT ![i].reply[k] = reply]
    /\ UNCHANGED <<now, account, health, errors, idle, plans, before>>

AnswerFill(k)    == Last(trades).fate[k] = "filled"  /\ Told(k, "fill")
AnswerRefusal(k) == Last(trades).fate[k] = "refused" /\ Told(k, "refusal")
TransportError(k) == "transport" \in Faults /\ Told(k, "unknown")

(* A leg's booked cost is its quantity at a whole-cent average price: the  *)
(* venue's total is divided by the quantity, and the remainder dropped.    *)
RoundedUp(paid, qty) == (paid + qty - 1) \div qty    \* mutant: rounded the other way

AveragePrice(paid, qty) == paid \div (IF qty = 0 THEN 1 ELSE qty)
BookedCost(t) ==
    SumFunction([k \in Legs(t) |-> LET leg == t.offer.legs[k] IN
                                   leg.qty * AveragePrice(t.paid[k], leg.qty) + leg.fee])
PaidCost(t) ==
    SumFunction([k \in {j \in Legs(t) : t.fate[j] = "filled"} |->
                    t.paid[k] + t.offer.legs[k].fee])

PositionFrom(t) ==
    NewPosition(t.offer.event,
                [k \in Legs(t) |-> [outcome |-> t.offer.legs[k].outcome,
                                    side    |-> t.offer.legs[k].side,
                                    qty     |-> t.offer.legs[k].qty]],
                BookedCost(t))

NoteErrorLate ==                                 \* mutant: off by one
    /\ errors' = errors + 1
    /\ health' = IF errors + 1 > ErrorThreshold THEN "Erroring" ELSE health

NoteError ==
    /\ errors' = errors + 1
    /\ health' = IF errors + 1 >= ErrorThreshold THEN "Erroring" ELSE health

Close(verdict) ==
    trades' = [trades EXCEPT ![Len(trades)].verdict = verdict]

Answered  == Running /\ \A k \in Legs(Last(trades)) : Last(trades).reply[k] # "none"
FilledUnlessRefused(t) == {k \in Legs(t) : t.reply[k] # "refusal"}   \* mutant: unknown is a fill

Filled(t) == {k \in Legs(t) : t.reply[k] = "fill"}

Book ==
    /\ Answered /\ Filled(Last(trades)) = Legs(Last(trades))
    /\ LET position == PositionFrom(Last(trades)) IN
       \/ AddPosition(position) /\ Close("booked")
       \/ ~Accepts(position.cost) /\ Close("rejected") /\ UNCHANGED account
    /\ UNCHANGED <<now, health, errors, idle, plans, before>>

NotAllFills ==                                   \* mutant: one leg short is none
    /\ Answered /\ Filled(Last(trades)) # Legs(Last(trades))
    /\ Close("missed") /\ NoteError
    /\ UNCHANGED <<now, account, idle, plans, before>>

NoFills ==
    /\ Answered /\ Filled(Last(trades)) = {}
    /\ Close("missed") /\ NoteError
    /\ UNCHANGED <<now, account, idle, plans, before>>

Legged ==
    /\ Answered /\ Filled(Last(trades)) \notin {{}, Legs(Last(trades))}
    /\ Close("legged") /\ NoteError
    /\ UNCHANGED <<now, account, idle, plans, before>>

TimeoutOfSilence ==                              \* mutant: one answer stops the timer
    /\ "stall" \in Faults
    /\ Running /\ \A k \in Legs(Last(trades)) : Last(trades).reply[k] = "none"
    /\ Close("timeout") /\ NoteError
    /\ UNCHANGED <<now, account, idle, plans, before>>

(* The window closes before every leg has answered.                        *)
Timeout ==
    /\ "stall" \in Faults
    /\ Running /\ ~Answered
    /\ Close("timeout") /\ NoteError
    /\ UNCHANGED <<now, account, idle, plans, before>>

-----------------------------------------------------------------------------
Feed ==
    \/ \E fromKalshi \in BOOLEAN : \E n \in 0 .. Min({MaxBatch, MaxTrades - Len(trades)}) :
          \E found \in kSubset(n, Offers) : MarketEvent(fromKalshi, found)
    \/ SocketLost
    \/ IdleBudgetPasses

VenueSide == \E i \in DOMAIN trades : \E k \in Legs(trades[i]) :
                VenueFills(i, k) \/ VenueRefuses(i, k)

Replies == Running /\ \E k \in Legs(Last(trades)) :
              AnswerFill(k) \/ AnswerRefusal(k) \/ TransportError(k)

Closes == Book \/ NoFills \/ Legged \/ Timeout

Next == Feed \/ SkipInferred \/ Place \/ VenueSide \/ Replies \/ Closes

(* The engine takes its next step when it can, and its timer fires.  Venue *)
(* and network owe nothing.                                                *)
Spec     == Init /\ [][Next]_vars
FairSpec == Spec /\ WF_vars(SkipInferred) /\ WF_vars(Place) /\ WF_vars(Closes)

-----------------------------------------------------------------------------
TypeOK ==
    /\ health \in HealthState /\ errors \in Nat /\ idle \in BOOLEAN
    /\ \A i \in DOMAIN plans : plans[i] \in Offers
    /\ \A i \in DOMAIN trades :
          /\ trades[i].offer \in Offers
          /\ trades[i].verdict \in Verdict
          /\ \A k \in Legs(trades[i]) : /\ trades[i].fate[k] \in Fate
                                        /\ trades[i].reply[k] \in Reply
          /\ trades[i].verdict = "running" => i = Len(trades)
    /\ capital \in Nat

(* What is booked is whole: every leg of a booked trade filled, and free   *)
(* capital is down by exactly what the booked positions cost.              *)
BookedIsWhole ==
    /\ \A i \in DOMAIN trades :
          trades[i].verdict = "booked" => \A k \in Legs(trades[i]) : trades[i].fate[k] = "filled"
    /\ capital + Locked = StartingCapital
    /\ Cardinality(OpenIds) = Cardinality({i \in DOMAIN trades : trades[i].verdict = "booked"})

(* The cost booked is never more than what was paid, and less by no more   *)
(* than the cents an average price drops: under one for each contract.     *)
CostNearlyPaid ==
    \A i \in DOMAIN trades : trades[i].verdict = "booked" =>
        LET short == PaidCost(trades[i]) - BookedCost(trades[i]) IN
        /\ short >= 0
        /\ short <= SumFunction([k \in Legs(trades[i]) |-> trades[i].offer.legs[k].qty - 1])

(* A fill nobody booked never goes unannounced: the trade it belongs to    *)
(* is running, was counted as needing reconciliation, or one of its orders *)
(* came back with an unknown fate.                                         *)
LooseFillIsAnnounced ==
    \A i \in DOMAIN trades : \A k \in Legs(trades[i]) :
        trades[i].fate[k] = "filled" /\ trades[i].verdict # "booked" =>
            \/ trades[i].verdict = "running" \/ Unreconciled(trades[i])
            \/ \E j \in Legs(trades[i]) : trades[i].reply[j] = "unknown"

(* The order path can bar trading, and only a message lifts the bar: from  *)
(* the failure that reaches the threshold no trade is admitted until the   *)
(* venue has spoken.                                                       *)
ErrorsBarAdmission == errors >= ErrorThreshold /\ Free => health \in {"Erroring", "Disconnected"}

BookedBy(n)    == {j \in 1 .. n : trades[j].verdict = "booked"}
CostBy(n, E)   == SumFunction([j \in {k \in BookedBy(n) : trades[k].offer.event \in E} |->
                                  BookedCost(trades[j])])
SameTheme(e)   == {f \in Event : ThemeOf[f] = ThemeOf[e]}

LeavesRoom(n, o) ==
    /\ Cardinality(BookedBy(n)) < MaxConcurrent
    /\ CostBy(n, {o.event}) + Capital(o) <= MaxPerEvent
    /\ ThemeOf[o.event] # NoTheme => CostBy(n, SameTheme(o.event)) + Capital(o) <= MaxPerTheme
    /\ CostBy(n, Event) + Capital(o) <= StartingCapital

(* A limit is passed by one batch alone: what was booked before a trade's  *)
(* batch left room for that trade under every limit, and in free capital.  *)
EarlierLeaveRoom ==
    \A i \in DOMAIN trades : LeavesRoom(trades[i].before, trades[i].offer)

(* A batch ends, whatever the venue does or fails to do.                   *)
BatchEnds == ~Free ~> Free
=============================================================================
