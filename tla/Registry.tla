------------------------------ MODULE Registry ------------------------------
(***************************************************************************)
(* How a run comes by its contracts and the groups that relate them        *)
(* (src/src/registry.rs, src/src/discovery.rs, run_engine and              *)
(* discover_polymarket in src/src/main.rs): from a file, or inferred from  *)
(* the listing Kalshi publishes, and then extended with Polymarket's       *)
(* catalogue.                                                              *)
(*                                                                         *)
(* A contract is [venue, key]; a key is a number, and numbers sort as the  *)
(* tickers and tokens do.  A contract id is the place at which the         *)
(* contract was interned.  Times are whole hours; a time that is missing   *)
(* or does not parse is NoTime.  A member's strike is the number its       *)
(* ticker ends in, or NoStrike.                                            *)
(***************************************************************************)
EXTENDS Fees, Relations, Places, SequencesExt

CONSTANTS
    Sources,      \* what the registry may be built from, see Source
    Catalogues,   \* of each source, what Polymarket may list beside it
    NoTime, NoStrike

(* A file is a sequence of events, each with groups, each with members; a  *)
(* group says nothing of being verified, or "yes" or "no".  A listing is   *)
(* Kalshi's markets and events, and a catalogue Polymarket's markets.      *)
Venue    == {"Kalshi", "Polymarket"}
Contract == [venue : Venue, key : Int]
Time     == Int \cup {NoTime}
Strike   == Int \cup {NoStrike}

FileMember == [contract : Contract, side : {"yes", "no"}, strike : Strike]
FileGroup  == [kind : Kind, verified : {"absent", "yes", "no"}, members : Seq(FileMember)]
FileEvent  == [id : Int, resolves : Time, groups : Seq(FileGroup)]
Files      == [from : {"file"}, events : Seq(FileEvent)]

KalshiMarket   == [key : Int, event : Int, type : STRING, strike : Strike, open : BOOLEAN,
                   close : Time]
KalshiEvent    == [key : Int, exclusive : BOOLEAN]
KalshiListings == [from : {"listing"}, markets : Seq(KalshiMarket), events : Seq(KalshiEvent)]

GammaMarket == [key : Int, ends : Time, feesEnabled : BOOLEAN, feeType : STRING]

(* A ticker is one market, however often it is listed.                     *)
OneMarketEach(l) ==
    \A i, j \in DOMAIN l.markets : l.markets[i].key = l.markets[j].key =>
        /\ l.markets[i].event = l.markets[j].event
        /\ l.markets[i].type = l.markets[j].type
        /\ l.markets[i].strike = l.markets[j].strike

ASSUME RegistryAssumption ==
    /\ NoTime \notin Int /\ NoStrike \notin Int
    /\ Sources \subseteq Files \cup KalshiListings
    /\ \A s \in Sources : s.from = "listing" => OneMarketEach(s)
    /\ DOMAIN Catalogues = Sources
    /\ \A s \in Sources : Catalogues[s] \subseteq Seq(GammaMarket)

VARIABLES
    source,       \* the file or the listing
    origin,       \* of a file written by discovery: what it was written from
    catalogue,    \* Polymarket's markets; <<>> before they are read
    phase,        \* how far loading has come
    cursor,       \* of a file: the event and the group to be added next
    interned,     \* Contracts: the contracts in the order of their ids
    tickers,      \* of each venue, its contracts in id order
    events,       \* [key, resolves], in the order of their ids
    binding,      \* contract id to [contract, event]
    groups,       \* [kind, members, verified, resolves, inferred]
    feeTable      \* PolymarketFees: contract id to category

registryVars == <<source, origin, catalogue, phase, cursor, interned, tickers, events,
                  binding, groups, feeTable>>
tableVars    == <<interned, tickers, events, binding, groups>>

Phase == {"intern", "events", "markets", "groups", "check", "polymarket", "ready", "refused"}

-----------------------------------------------------------------------------
(* Tables.                                                                 *)

IdOf(c) == CHOOSE i \in DOMAIN interned : interned[i] = c
Ids     == DOMAIN interned
Known(c) == \E i \in Ids : interned[i] = c

(* What the book store, and the parser of a venue's feed, number their     *)
(* contracts by: the venues' lists, Kalshi's first.                        *)
StoreOrder == tickers["Kalshi"] \o tickers["Polymarket"]

GroupsFor(id) == {g \in DOMAIN groups : \E i \in DOMAIN groups[g].members :
                                            groups[g].members[i] = id}

(* push_group: a group must relate at least two contracts, a complement    *)
(* excepted, and name none twice.                                          *)
GoodShape(kind, ids) == (Len(ids) >= 2 \/ kind = "complement") /\ IsInjective(ids)

GroupOf(kind, ids, verified, resolves, inferred) ==
    [kind |-> kind, members |-> ids, verified |-> verified, resolves |-> resolves,
     inferred |-> inferred]

RegistryInit ==
    /\ source \in Sources /\ origin = <<>>
    /\ catalogue = <<>>
    /\ phase = IF source.from = "file" THEN "intern" ELSE "events"
    /\ cursor = [event |-> 1, group |-> 0]
    /\ interned = <<>> /\ tickers = [v \in Venue |-> <<>>]
    /\ events = <<>> /\ binding = <<>> /\ groups = <<>> /\ feeTable = <<>>

(* A startup error: the process ends.                                      *)
Refuse == phase' = "refused" /\ UNCHANGED <<source, origin, catalogue, cursor, tableVars, feeTable>>

-----------------------------------------------------------------------------
(* A file.                                                                 *)

Mentions(file) ==
    FlattenSeq([e \in DOMAIN file.events |->
        FlattenSeq([g \in DOMAIN file.events[e].groups |->
            file.events[e].groups[g].members])])

(* The contracts of a venue, each where the file first names it.           *)
FirstMentions(file, venue) ==
    LET m     == Mentions(file)
        first == {i \in DOMAIN m : /\ m[i].contract.venue = venue
                                   /\ \A j \in 1 .. i - 1 : m[j].contract # m[i].contract}
    IN  Kept([i \in DOMAIN m |-> m[i].contract], first)

(* Pass one gives out the ids, every Kalshi contract before any of         *)
(* Polymarket.                                                             *)
PolymarketFirst(file) ==                 \* mutant: the venues the other way round
    FirstMentions(file, "Polymarket") \o FirstMentions(file, "Kalshi")

InternOrder(file) == FirstMentions(file, "Kalshi") \o FirstMentions(file, "Polymarket")

InternFile ==
    /\ phase = "intern" /\ source.events # <<>>
    /\ interned' = InternOrder(source)
    /\ tickers' = [v \in Venue |-> FirstMentions(source, v)]
    /\ phase' = "groups"
    /\ UNCHANGED <<source, origin, catalogue, cursor, events, binding, groups, feeTable>>

EmptyFile == phase = "intern" /\ source.events = <<>> /\ Refuse

Entry == source.events[cursor.event]
Reading == phase = "groups" /\ source.from = "file" /\ cursor.event <= Len(source.events)
AtEvent == Reading /\ cursor.group = 0
AtGroup == Reading /\ cursor.group > 0

(* The next group of the event, or else the next event.                    *)
Advance ==
    cursor' = IF cursor.group < Len(Entry.groups)
              THEN [cursor EXCEPT !.group = @ + 1]
              ELSE [event |-> cursor.event + 1, group |-> 0]

KeyTaken(k) == \E i \in DOMAIN events : events[i].key = k

AddEvent ==
    /\ AtEvent /\ ~KeyTaken(Entry.id) /\ Entry.resolves # NoTime
    /\ events' = Append(events, [key |-> Entry.id, resolves |-> Entry.resolves])
    /\ Advance
    /\ UNCHANGED <<source, origin, catalogue, phase, interned, tickers, binding, groups, feeTable>>

RefuseEvent == AtEvent /\ (KeyTaken(Entry.id) \/ Entry.resolves = NoTime) /\ Refuse

(* A contract may appear in many groups, but under one event.              *)
BoundHere(ids) ==
    \A i \in DOMAIN ids : ids[i] \in DOMAIN binding => binding[ids[i]].event = Len(events)

(* Rungs are written weakest first; a rung without a strike leaves the     *)
(* whole ladder unchecked.                                                 *)
Ascending(members) ==
    \/ \E i \in DOMAIN members : members[i].strike = NoStrike
    \/ \A i \in 1 .. Len(members) - 1 : members[i].strike < members[i + 1].strike

GoodArity(kind, ids) ==
    /\ kind = "complement" => Len(ids) = 1
    /\ kind \in {"implies", "equivalent"} => Len(ids) = 2

GoodEntry(g, ids) ==
    /\ BoundHere(ids)
    /\ g.kind = "equivalent" <=> g.verified # "absent"
    /\ GoodArity(g.kind, ids)
    /\ g.kind = "monotone" => Ascending(g.members)
    /\ GoodShape(g.kind, ids)

EntryIds(g) == [i \in DOMAIN g.members |-> IdOf(g.members[i].contract)]

(* The bindings an event's group adds; the side a member states is kept    *)
(* with its binding, and read by nothing.                                  *)
Bind(ids) ==
    [c \in DOMAIN binding \cup ToSet(ids) |->
        IF c \in DOMAIN binding THEN binding[c]
        ELSE [contract |-> interned[c], event |-> Len(events)]]

AddGroup ==
    /\ AtGroup
    /\ LET g   == Entry.groups[cursor.group]
           ids == EntryIds(g)
       IN  /\ GoodEntry(g, ids)
           /\ binding' = Bind(ids)
           /\ groups' = Append(groups, GroupOf(g.kind, ids, g.verified # "no",
                                               Entry.resolves, FALSE))
    /\ Advance
    /\ UNCHANGED <<source, origin, catalogue, phase, interned, tickers, events, feeTable>>

RefuseGroup ==
    /\ AtGroup
    /\ ~GoodEntry(Entry.groups[cursor.group], EntryIds(Entry.groups[cursor.group]))
    /\ Refuse

FileDone ==
    /\ phase = "groups" /\ source.from = "file" /\ cursor.event > Len(source.events)
    /\ phase' = "check"
    /\ UNCHANGED <<source, origin, catalogue, cursor, tableVars, feeTable>>

-----------------------------------------------------------------------------
(* A listing.  Discovery keeps the markets whose status it asked for.      *)

Sorted(s)     == SortedBy(s, [i \in DOMAIN s |-> s[i].key])
FirstOfKey(s) == Kept(s, {i \in DOMAIN s : \A j \in 1 .. i - 1 : s[j].key # s[i].key})

Listed       == LET ms == source.markets
                IN  Sorted(Kept(ms, {i \in DOMAIN ms : ms[i].open}))
MarketsOf(e) == LET ms == Listed IN Kept(ms, {i \in DOMAIN ms : ms[i].event = e})
EventKeys    == LET ms == Listed IN InOrder({ms[i].event : i \in DOMAIN ms})

Closes(e) == {m.close : m \in ToSet(MarketsOf(e))} \ {NoTime}

(* Events whose horizon is unknown are passed over.                        *)
Timed == LET es == Sorted(source.events)
         IN  Kept(es, {i \in DOMAIN es : Closes(es[i].key) # {}})

AddListedEvents ==
    /\ phase = "events" /\ IsInjective([i \in DOMAIN Timed |-> Timed[i].key])
    /\ events' = [i \in DOMAIN Timed |->
                     [key |-> Timed[i].key, resolves |-> Min(Closes(Timed[i].key))]]
    /\ phase' = "markets"
    /\ UNCHANGED <<source, origin, catalogue, cursor, interned, tickers, binding, groups, feeTable>>

RefuseListing ==
    phase = "events" /\ ~IsInjective([i \in DOMAIN Timed |-> Timed[i].key]) /\ Refuse

EventNamed(k) == CHOOSE i \in DOMAIN events : events[i].key = k
KalshiNamed(k) == [venue |-> "Kalshi", key |-> k]

InternListed ==
    LET ms    == Listed
        bound == FirstOfKey(Kept(ms, {i \in DOMAIN ms : KeyTaken(ms[i].event)})) IN
    /\ phase = "markets"
    /\ interned' = [i \in DOMAIN bound |-> KalshiNamed(bound[i].key)]
    /\ tickers' = [tickers EXCEPT !["Kalshi"] = interned']
    /\ binding' = [i \in DOMAIN bound |-> [contract |-> interned'[i],
                                           event |-> EventNamed(bound[i].event)]]
    /\ phase' = "groups"
    /\ UNCHANGED <<source, origin, catalogue, cursor, events, groups, feeTable>>

(* An event's markets, weakest claim first, if one threshold rule nests    *)
(* them all.                                                               *)
Threshold(m) == IF m.type = "greater" THEN m.strike ELSE -m.strike

AnyLadder(ms) ==              \* mutant: mixed rungs pass for a ladder
    /\ \A i \in DOMAIN ms : ms[i].type \in {"greater", "less"} /\ ms[i].strike # NoStrike
    /\ \A i, j \in DOMAIN ms : i # j => ms[i].strike # ms[j].strike

IsLadder(ms) ==
    /\ ms[1].type \in {"greater", "less"}
    /\ \A i \in DOMAIN ms : ms[i].type = ms[1].type /\ ms[i].strike # NoStrike
    /\ \A i, j \in DOMAIN ms : i # j => ms[i].strike # ms[j].strike

LadderOrder(ms) == SortedBy(ms, [i \in DOMAIN ms |-> Threshold(ms[i])])

(* Of two entries for an event the first is read.                          *)
Exclusive(e) == \E i \in DOMAIN source.events :
                    /\ source.events[i].key = e /\ source.events[i].exclusive
                    /\ \A j \in 1 .. i - 1 : source.events[j].key # e

(* What is inferred of one event: each market against its own negation,    *)
(* and the whole event if the venue described it.                          *)
Inferred(e) ==
    LET ms == MarketsOf(e) IN
    [i \in DOMAIN ms |-> [kind |-> "complement", markets |-> <<ms[i]>>, event |-> e]]
    \o (IF Len(ms) < 2 THEN <<>>
        ELSE IF Exclusive(e) THEN <<[kind |-> "exhaustive", markets |-> ms, event |-> e]>>
        ELSE IF IsLadder(ms)
             THEN <<[kind |-> "monotone", markets |-> LadderOrder(ms), event |-> e]>>
             ELSE <<>>)

InferredGroups == FlattenSeq([k \in DOMAIN EventKeys |-> Inferred(EventKeys[k])])

NumbersOf(g) == [i \in DOMAIN g.markets |-> IdOf(KalshiNamed(g.markets[i].key))]

(* Those of an event that was added, and in shape.                         *)
Bindable(all) ==
    Kept(all, {k \in DOMAIN all : /\ KeyTaken(all[k].event)
                                  /\ GoodShape(all[k].kind, NumbersOf(all[k]))})

GroupsFrom(kept) ==
    [k \in DOMAIN kept |->
        GroupOf(kept[k].kind, NumbersOf(kept[k]), TRUE,
                events[EventNamed(kept[k].event)].resolves, TRUE)]

AddInferred ==
    /\ phase = "groups" /\ source.from = "listing"
    /\ groups' = GroupsFrom(Bindable(InferredGroups))
    /\ phase' = "check"
    /\ UNCHANGED <<source, origin, catalogue, cursor, interned, tickers, events, binding, feeTable>>

-----------------------------------------------------------------------------
(* Both end with a check that no contract is in two exhaustive sets.       *)

Partitions == {g \in DOMAIN groups : groups[g].kind = "exhaustive"}

Overlap(gs) ==
    \E g, h \in gs : g # h /\ ToSet(groups[g].members) \cap ToSet(groups[h].members) # {}

NoOverlapSeen(gs) == FALSE               \* mutant: the partitions are not compared
Conflict(gs) == Overlap(gs)

CheckPartitions ==
    /\ phase = "check" /\ ~Conflict(Partitions)
    /\ phase' = "polymarket"
    /\ UNCHANGED <<source, origin, catalogue, cursor, tableVars, feeTable>>

RefusePartitions == phase = "check" /\ Conflict(Partitions) /\ Refuse

-----------------------------------------------------------------------------
(* `registry discover` writes what was inferred as a file, for a human to  *)
(* read and promote; `registry validate` checks a listing once more.       *)

(* A ticker names its strike, whatever the group says of it.               *)
StrikeOf(c) ==
    LET at == {i \in DOMAIN source.markets : KalshiNamed(source.markets[i].key) = c}
    IN  source.markets[Min(at)].strike

MembersAsIds(g) ==                       \* mutant: members by id and not as ordered
    InOrder(ToSet(g.members))

MembersAsOrdered(g) == g.members

RenderedGroup(g) ==
    [kind |-> g.kind, verified |-> "absent",
     members |-> [i \in DOMAIN g.members |->
                    LET c == interned[MembersAsOrdered(g)[i]]
                    IN  [contract |-> c, side |-> "yes", strike |-> StrikeOf(c)]]]

(* An event with no group is left out.                                     *)
GroupsOfEvent(e) ==
    Kept(groups, {g \in DOMAIN groups : binding[groups[g].members[1]].event = e})

RenderedEvents ==
    LET kept == InOrder({e \in DOMAIN events : GroupsOfEvent(e) # <<>>})
        rendered(e) == LET gs == GroupsOfEvent(e)
                       IN  [id |-> events[e].key, resolves |-> events[e].resolves,
                            groups |-> [k \in DOMAIN gs |-> RenderedGroup(gs[k])]]
    IN  [k \in DOMAIN kept |-> rendered(kept[k])]

(* The file is promoted whole, and the next start reads it.                *)
Promote ==
    /\ phase = "polymarket" /\ source.from = "listing"
    /\ source' = [from |-> "file", events |-> RenderedEvents]
    /\ origin' = <<[listing |-> source, groups |-> groups, interned |-> interned]>>
    /\ phase' = "intern"
    /\ interned' = <<>> /\ tickers' = [v \in Venue |-> <<>>]
    /\ events' = <<>> /\ binding' = <<>> /\ groups' = <<>>
    /\ UNCHANGED <<catalogue, cursor, feeTable>>

Promoted == origin # <<>>

(* What `registry validate` has against a listing at an hour: markets that *)
(* close by then, and groups that are not what their kind says.            *)
LastListed(k) == Listed[Max({i \in DOMAIN Listed : Listed[i].key = k})]

BadLadder(ms) ==
    \/ \E i \in DOMAIN ms : ms[i].type # ms[1].type
    \/ ms[1].type \notin {"greater", "less"}
    \/ \E i \in DOMAIN ms : ms[i].strike = NoStrike
    \/ \E i, j \in DOMAIN ms : i # j /\ ms[i].strike = ms[j].strike

BadGroup(g) ==
    LET ms == [i \in DOMAIN g.markets |-> LastListed(g.markets[i].key)] IN
    \/ \E i \in DOMAIN ms : ms[i].event # g.event
    \/ g.kind = "exhaustive" /\ (Len(ms) < 2 \/ ~Exclusive(g.event))
    \/ g.kind = "monotone" /\ BadLadder(ms)

ClosedBy(hour) == {m \in ToSet(Listed) : m.close = NoTime \/ m.close <= hour}
BadGroups      == {g \in ToSet(InferredGroups) : BadGroup(g)}

-----------------------------------------------------------------------------
(* Polymarket's catalogue: one contract and one complement for each market *)
(* that is new and has an end, in token order; and what each one charges,  *)
(* the last listing of a token standing.                                   *)

TokenOf(m) == [venue |-> "Polymarket", key |-> m.key]
New(list)  == LET s == Sorted(list)
              IN  FirstOfKey(Kept(s, {i \in DOMAIN s : /\ ~Known(TokenOf(s[i]))
                                                      /\ s[i].ends # NoTime}))

(* There is nothing to trade without a Kalshi contract.                    *)
Started == IF tickers["Kalshi"] = <<>> THEN "refused" ELSE "ready"

Registered(list, names) ==
    [c \in {i \in DOMAIN names : \E k \in DOMAIN list : names[i] = TokenOf(list[k])} |->
        MarketCategory(list[Max({k \in DOMAIN list : names[c] = TokenOf(list[k])})])]

ExtendWithPolymarket ==
    /\ phase = "polymarket"
    /\ \E list \in Catalogues[IF Promoted THEN origin[1].listing ELSE source] :
        LET new == New(list)
            n   == Len(interned)
            at(i) == n + i
        IN  /\ catalogue' = list
            /\ interned' = interned \o [i \in DOMAIN new |-> TokenOf(new[i])]
            /\ tickers' = [tickers EXCEPT
                              !["Polymarket"] = @ \o [i \in DOMAIN new |-> TokenOf(new[i])]]
            /\ binding' = [c \in DOMAIN binding \cup {at(i) : i \in DOMAIN new} |->
                              IF c \in DOMAIN binding THEN binding[c]
                              ELSE [contract |-> interned'[c],
                                    event |-> Len(events) + c - n]]
            /\ events' = events \o [i \in DOMAIN new |->
                                       [key |-> new[i].key, resolves |-> new[i].ends]]
            /\ groups' = groups \o [i \in DOMAIN new |->
                             GroupOf("complement", <<at(i)>>, TRUE, new[i].ends, TRUE)]
            /\ feeTable' = Registered(list, interned')
    /\ phase' = Started
    /\ UNCHANGED <<source, origin, cursor>>

(* A replay, a venue not enabled or one that cannot be reached: the run    *)
(* does without its catalogue.                                             *)
WithoutPolymarket ==
    /\ phase = "polymarket" /\ phase' = Started
    /\ UNCHANGED <<source, origin, catalogue, cursor, tableVars, feeTable>>

Load ==
    \/ EmptyFile \/ InternFile \/ AddEvent \/ RefuseEvent \/ AddGroup \/ RefuseGroup
    \/ FileDone
    \/ AddListedEvents \/ RefuseListing \/ InternListed \/ AddInferred
    \/ CheckPartitions \/ RefusePartitions \/ Promote
    \/ ExtendWithPolymarket \/ WithoutPolymarket
=============================================================================
