------------------------------ MODULE Arbitrage ------------------------------
(***************************************************************************)
(* From a registry and the books to trades worth placing: what the engine  *)
(* does of one market event before any money is asked for (Engine::step    *)
(* and plan_legs in src/src/engine.rs, Solver::evaluate in                 *)
(* src/src/solver/mod.rs).                                                 *)
(*                                                                         *)
(* The registry numbers contracts as it interns them, and the book store   *)
(* as it finds them in the venues' lists: a group's members are the        *)
(* registry's numbers and the books the store's.  Each contract's real     *)
(* book is at its venue.  While a copy is live it follows the real one at  *)
(* once (the feeds' modules say when a copy is live); when it is not, the  *)
(* venue's book moves on without it.  The age budget of a book is half a   *)
(* second and horizons are hours, so the hour stands still.                *)
(***************************************************************************)
EXTENDS Registry, Paper

CONSTANTS
    Shapes,       \* what a book may be: two ladders of bids, best first
    NoBids,       \* the empty one
    Now,          \* the hour it is
    MaxBehind     \* bound on the copies that differ from the venue's book

ASSUME ArbitrageAssumption ==
    /\ \A b \in Shapes : BestFirst(b["yes"]) /\ BestFirst(b["no"])
    /\ NoBids \in Shapes /\ Now \in Nat /\ MaxBehind \in Nat

VARIABLES
    market,       \* of each contract, the bids resting at its venue
    books,        \* the store: [venue, live, recent, bids] by store id
    accepted,     \* opportunities of the last event, as ranked
    refused       \* candidates it found and dropped

bookVars  == <<market, books>>
foundVars == <<accepted, refused>>
vars      == <<registryVars, bookVars, foundVars>>

Trading     == phase = "trading"
StoreId(c)  == CHOOSE i \in DOMAIN StoreOrder : StoreOrder[i] = c
Copy(i)     == books[i]
Behind(mk)  == {c \in DOMAIN mk : Copy(StoreId(c)).bids # mk[c]}

Init ==
    /\ RegistryInit
    /\ market = <<>> /\ books = <<>>
    /\ accepted = <<>> /\ refused = <<>>

Startup == Load /\ UNCHANGED <<bookVars, foundVars>>

(* The store is built from the venues' lists; no book is live before its   *)
(* first snapshot.                                                         *)
Open ==
    /\ phase = "ready" /\ phase' = "trading"
    /\ books' = [i \in DOMAIN StoreOrder |->
                    [venue |-> StoreOrder[i].venue, live |-> FALSE, recent |-> FALSE,
                     bids |-> NoBids]]
    /\ market' = [c \in ToSet(StoreOrder) |-> NoBids]
    /\ UNCHANGED <<source, origin, catalogue, cursor, tableVars, feeTable, foundVars>>

(* Every group of the contract that changed is evaluated, in id order.     *)
FoundAt(id, bs) ==
    LET order == InOrder(GroupsFor(id))
    IN  [k \in DOMAIN order |-> Evaluate(groups[order[k]], bs, feeTable, Now)]

Sift(found) ==
    LET good == {i \in DOMAIN found : found[i].reason = "none"}
    IN  /\ accepted' = Rank(Kept(found, good))
        /\ refused' = Kept(found, DOMAIN found \ good)

Solve(id, bs) == Sift(FlattenSeq(FoundAt(id, bs)))

Quiet == accepted' = <<>> /\ refused' = <<>>

Updated(i, bids) == [books EXCEPT ![i].bids = bids, ![i].live = TRUE, ![i].recent = TRUE]

(* A delta or a restated level of a live book.                             *)
BookMoves(c) ==
    /\ Trading /\ Copy(StoreId(c)).live
    /\ \E b \in Shapes \ {market[c]} :
        /\ market' = [market EXCEPT ![c] = b]
        /\ books' = Updated(StoreId(c), b)
    /\ Solve(StoreId(c), books')
    /\ UNCHANGED registryVars

(* The venue moves on, and nothing that arrives is applied.                *)
MovesUnseen(c) ==
    /\ Trading /\ ~Copy(StoreId(c)).live
    /\ \E b \in Shapes \ {market[c]} : market' = [market EXCEPT ![c] = b]
    /\ Cardinality(Behind(market')) <= MaxBehind
    /\ Quiet
    /\ UNCHANGED <<registryVars, books>>

(* A snapshot: the copy is the venue's book again.                         *)
Snapshot(c) ==
    /\ Trading /\ ~Copy(StoreId(c)).live
    /\ books' = Updated(StoreId(c), market[c])
    /\ Solve(StoreId(c), books')
    /\ UNCHANGED <<registryVars, market>>

(* A disconnect, or a gap on a venue's sequence: none of its books is live *)
(* until its own snapshot.                                                 *)
LoseVenue(v) ==
    /\ Trading
    /\ books' = [i \in DOMAIN books |->
                    IF books[i].venue = v THEN [books[i] EXCEPT !.live = FALSE] ELSE books[i]]
    /\ books' # books
    /\ Quiet
    /\ UNCHANGED <<registryVars, market>>

(* Longer than the age budget: no book is recent.  (Every set of books may *)
(* then be, as they change again one by one.)                              *)
TimePasses ==
    /\ Trading
    /\ books' = [i \in DOMAIN books |-> [books[i] EXCEPT !.recent = FALSE]]
    /\ Quiet
    /\ UNCHANGED <<registryVars, market>>

Next ==
    \/ Startup \/ Open
    \/ \E c \in DOMAIN market : BookMoves(c) \/ MovesUnseen(c) \/ Snapshot(c)
    \/ \E v \in Venue : LoseVenue(v)
    \/ TimePasses

Spec == Init /\ [][Next]_vars

(* The orders of a trade: the ticker is the registry's for the id, and the *)
(* limit the dearest level the costed quantity reaches.                    *)
OrderOf(o, k) ==
    LET leg == o.legs[k]
    IN  [id       |-> leg.contract,
         contract |-> binding[leg.contract].contract,
         side     |-> leg.side,
         qty      |-> o.qty,
         limit    |-> WorstPrice(Asks(books[leg.contract], leg.side), o.qty)]

-----------------------------------------------------------------------------
(* Well-formedness of the state.                                           *)
TypeOK ==
    /\ phase \in Phase \cup {"trading"}
    /\ \A g \in DOMAIN groups :
        /\ groups[g].kind \in Kind
        /\ GoodShape(groups[g].kind, groups[g].members)
        /\ ToSet(groups[g].members) \subseteq DOMAIN binding
    /\ IsInjective(interned) /\ DOMAIN binding \subseteq Ids
    /\ \A i \in DOMAIN events : events[i].resolves # NoTime
    /\ DOMAIN feeTable \subseteq Ids
    /\ Trading => /\ DOMAIN books = DOMAIN StoreOrder
                  /\ DOMAIN market = ToSet(StoreOrder)
                  /\ \A i \in DOMAIN books : books[i].live =>
                        books[i].bids = market[StoreOrder[i]]

(* Every id means one contract to the registry, to the book store and to   *)
(* the feeds (registry.rs: "Passing anything else ... silently shifts      *)
(* every id").                                                             *)
IdsAgree ==
    Trading => /\ interned = StoreOrder
               /\ \A id \in DOMAIN binding : binding[id].contract = StoreOrder[id]

(* A group relates contracts of one event and is ranked by that event's    *)
(* resolution, and no contract's depth counts for two exhaustive sets:     *)
(* what the engine takes for granted when it books a group's trade under   *)
(* its first member's event.                                               *)
OneQuestionEach ==
    Trading =>
        /\ \A g \in DOMAIN groups : \E e \in DOMAIN events :
              /\ \A i \in DOMAIN groups[g].members : binding[groups[g].members[i]].event = e
              /\ events[e].resolves = groups[g].resolves
        /\ ~Overlap(Partitions)

(* The closed checks and the relations agree: whatever a check proposes    *)
(* pays at least a dollar in every resolution its relation permits         *)
(* (solver/mod.rs: "The two paths must agree where both apply"), so the    *)
(* last guard before a bet is never what stops one.                        *)
ChecksAgree ==
    \A i \in DOMAIN refused : refused[i].reason # "PayoffNotGuaranteed"

(* What discovery infers, the validator of listings finds sound (the two   *)
(* read the strikes and the exclusivity apart), and in a listing it passes *)
(* no group is over already.                                               *)
InferenceIsSound ==
    source.from = "listing" /\ phase = "check" =>
        /\ BadGroups = {}
        /\ ClosedBy(Now) = {} => \A g \in DOMAIN groups :
              binding[groups[g].members[1]].contract.venue = "Kalshi" => groups[g].resolves > Now

(* The file discovery writes is read back as the groups it was written     *)
(* from, contract for contract and in order; but for a ladder of upper     *)
(* strikes, whose weakest claim has the largest one, which the loader      *)
(* refuses (registry.rs: check_ladder_order).                              *)
SameGroups(gs, names, hs) ==
    LET named(g, table) == [kind |-> g.kind, resolves |-> g.resolves,
                            members |-> [i \in DOMAIN g.members |-> table[g.members[i]]]]
    IN  {named(gs[k], names) : k \in DOMAIN gs} = {named(hs[k], interned) : k \in DOMAIN hs}

UpperLadder(l, g, names) ==
    g.kind = "monotone" /\ \E m \in ToSet(l.markets) :
        KalshiNamed(m.key) = names[g.members[1]] /\ m.type = "less"

PromotionKeepsGroups ==
    Promoted =>
        LET o == origin[1] IN
        /\ phase = "polymarket" =>
              SameGroups(o.groups, o.interned, groups)
        /\ phase = "refused" /\ o.groups # <<>> =>
              \E k \in DOMAIN o.groups : UpperLadder(o.listing, o.groups[k], o.interned)

(* A candidate dropped because of fees would have been profitable without  *)
(* them (costing.rs: "a non-positive net is always the fee schedule, never *)
(* the prices").                                                           *)
FeesAreTheGap ==
    \A i \in DOMAIN refused : refused[i].reason = "FeesExceedGap" => refused[i].gross > 0

-----------------------------------------------------------------------------
(* The worlds there can be, said without the relations: each is the set of *)
(* contracts that pay.                                                     *)

(* Of a listing: one market of an exclusive event; of the others, a value  *)
(* is drawn and each threshold is above it or below it.                    *)
Draws(l) == {m.strike + d : m \in {x \in ToSet(l.markets) : x.strike # NoStrike},
                            d \in {-1, 0, 1}} \cup {0}

OneWins(l, e) == \E i \in DOMAIN l.events : l.events[i].key = e /\ l.events[i].exclusive

ListingWorld(l, w) ==
    \A e \in {m.event : m \in ToSet(l.markets)} :
        LET ms   == {m \in ToSet(l.markets) : m.event = e}
            paid == {m \in ms : KalshiNamed(m.key) \in w}
        IN  IF OneWins(l, e) THEN Cardinality({m.key : m \in paid}) = 1
            ELSE \E v \in Draws(l) : \A m \in ms :
                    /\ m.type = "greater" /\ m.strike # NoStrike => (m \in paid <=> v > m.strike)
                    /\ m.type = "less" /\ m.strike # NoStrike => (m \in paid <=> v < m.strike)

(* What the program takes for granted of a source: that each member of a   *)
(* file is the outcome that pays when its market says yes (the side is     *)
(* kept, and read by nothing), and that no market of an exclusive event    *)
(* has closed (discovery reads the open ones only).                        *)
Plain(s) ==
    IF s.from = "file"
    THEN \A e \in DOMAIN s.events : \A x \in DOMAIN s.events[e].groups :
            LET m == s.events[e].groups[x].members
            IN  \A i \in DOMAIN m : m[i].side = "yes"
    ELSE \A i \in DOMAIN s.markets :
            OneWins(s, s.markets[i].event) => s.markets[i].open

(* Of a file: a member stands for the outcome it names, and its group says *)
(* how those are related; a pair nobody confirmed says nothing.            *)
Claim(m, w) == (m.contract \in w) = (m.side = "yes")

FileWorld(w) ==
    \A e \in DOMAIN source.events : \A x \in DOMAIN source.events[e].groups :
        LET g == source.events[e].groups[x]
            m == g.members
        IN  /\ g.kind = "exhaustive" => Cardinality({i \in DOMAIN m : Claim(m[i], w)}) = 1
            /\ g.kind = "monotone" =>
                   \A i \in 1 .. Len(m) - 1 : Claim(m[i + 1], w) => Claim(m[i], w)
            /\ g.kind = "implies" => (Claim(m[1], w) => Claim(m[2], w))
            /\ g.kind = "equivalent" /\ g.verified = "yes" => (Claim(m[1], w) <=> Claim(m[2], w))

WorldsListed(l) ==
    {w \in SUBSET (ToSet(StoreOrder) \cup {KalshiNamed(m.key) : m \in ToSet(l.markets)}) :
        ListingWorld(l, w)}

(* A promoted file is about the listing it was written from.               *)
Worlds ==
    IF Promoted THEN WorldsListed(origin[1].listing)
    ELSE IF source.from = "listing" THEN WorldsListed(source)
    ELSE {w \in SUBSET ToSet(StoreOrder) : FileWorld(w)}

(* What the venue charges for an order, rounded up once; of a market whose *)
(* terms were never read, the dearest rate there is.                       *)
TrueCategory(c) ==
    LET at == {k \in DOMAIN catalogue : TokenOf(catalogue[k]) = c}
    IN  IF at = {} THEN "Crypto" ELSE MarketCategory(catalogue[Max(at)])

TrueFee(c, asks, qty) ==
    LET exact == SumFunction([i \in DOMAIN asks |->
                    Taken(asks, qty, i) * asks[i].price * (Dollar - asks[i].price)])
    IN  IF c.venue = "Kalshi"
        THEN RoundedUp(7 * exact * KalshiNumer, 10000 * KalshiDenom)
        ELSE RoundedUp(RateBps(TrueCategory(c)) * exact, 1000000)

(* An order filled within its limit from the venue's real book, what the   *)
(* orders of a trade then cost with the venue's real fees, and what they   *)
(* pay in a world.                                                         *)
RealAsks(o, k) ==
    Asks([bids |-> market[OrderOf(o, k).contract]], OrderOf(o, k).side)

WithinLimit(o, k) ==
    LET asks == RealAsks(o, k)
    IN  Kept(asks, {i \in DOMAIN asks : asks[i].price <= OrderOf(o, k).limit})

Spent(o) ==
    SumFunction([k \in DOMAIN o.legs |->
        TotalCost(WithinLimit(o, k), o.qty)
            + TrueFee(OrderOf(o, k).contract, WithinLimit(o, k), o.qty)])

PaidIn(w, o) ==
    o.qty * 100 * Cardinality({k \in DOMAIN o.legs :
        (OrderOf(o, k).contract \in w) = (OrderOf(o, k).side = "yes")})

(* The simulation fills what the venue would, for what the venue would     *)
(* charge: the same quantity, an average that is short of the price by     *)
(* less than a cent, and a fee no smaller (paper.rs: no flattery).         *)
PaperIsTheVenue ==
    \A i \in DOMAIN accepted : \A k \in DOMAIN accepted[i].legs :
        LET o    == OrderOf(accepted[i], k)
            asks == RealAsks(accepted[i], k)
            fill == PaperFill(o, books[o.id], feeTable)
        IN  /\ fill.kind = "filled" /\ fill.qty = o.qty
            /\ TotalCost(asks, o.qty) - fill.average * o.qty \in 0 .. o.qty - 1
            /\ fill.fee >= TrueFee(o.contract, asks, o.qty)

(* The promise of the program: whatever the world turns out to be, a trade *)
(* it accepts, each order filled whole within its limit from the venue's   *)
(* real book and charged the venue's real fee, returns at least the profit *)
(* it was accepted for.                                                    *)
Guaranteed ==
    \A i \in DOMAIN accepted :
        LET o == accepted[i]
        IN  /\ o.net > 0
            /\ \A k \in DOMAIN o.legs : DepthOf(WithinLimit(o, k)) >= o.qty
            /\ \A w \in Worlds : PaidIn(w, o) - Spent(o) >= o.net
=============================================================================
