# Sum100 in TLA+

Sum100 watches prediction markets (Kalshi, Polymarket), looks for sets of
contracts that together cost less than they must pay, and takes them with
fill-or-kill orders. This directory models the Rust engine under `src/src` in
TLA+, model-checks it with TLC, and proves its core with TLAPS.

    file or listing -> registry -------------------------+
                                                         v
    feed workers -> merged feed -> engine.step -> book store -> solver, costing, fees
      |    |                           |                          |
    venue  recorder -> replay     health monitor      opportunities of one event
                                       |                          |
                                       +--------> gate (admit) <--+---- portfolio, risk
                                                     |
                                            executor -> atomic trade -> order client -> venue
                                                     |
                                                 portfolio

## 1. Inventory

| Part (source) | State | Operations | Makes it correct |
|---|---|---|---|
| Price ladders (`types.rs`, `Book`) | two arrays of resting bids by price | snapshot, delta, level replacement; derived ask ladders, crossed test | levels are never negative or off the ladder; an ask is read back where it was quoted |
| Book store (`book.rs`) | a `BookState` and ladder per contract, a sequence expectation per venue | `apply` of six event kinds, answering `Applied` | only a continuous book is Live; a gap takes down its venue and no other; the answer tells all that happened |
| Kalshi feed (`feed/kalshi.rs`) | a socket, a bounded channel, a stop watch and a resync watch | connect, read, parse, send, reconnect, stop | a Live book is the venue's; a book that went down comes back |
| Polymarket feed (`feed/polymarket.rs`) | the same, without sequence numbers, and an idle timer | the same, and subscribe | continuity rests on the book being sent again after a reconnection |
| Merged feed (`feed/merged.rs`) | the feeds, which of them have finished | `next`, `stop`, `request_resync` | it ends, and loses nothing when it does |
| Recorder, replay (`record.rs`, `feed/replay.rs`) | a day's file, an open gzip member, a sequence number; a position | append, flush, change the day; open, find a session, read | a replay is what the live engine saw |
| Size parsing (`types.rs`) | a count of discarded hundredths | `parse_size_contracts` | depth is never overstated |
| Registry (`registry.rs`) | contracts by id, events, bindings, groups | read a file, build from a listing, extend with Polymarket, check | an id is one contract everywhere; groups are what they claim |
| Discovery (`discovery.rs`, `feed/rest.rs`) | a snapshot of the listing, a cache on disk | fetch page by page, cache, infer, validate, render for promotion | no market that stands is missing from a set said to be complete |
| Solver, costing (`solver/`), fees (`fees.rs`) | counters, the fee categories of contracts | find candidates, gate, walk the books, size, cost, rank | a guaranteed profit after fees |
| Engine (`engine.rs`) | store, health, portfolio, counters | `step`, `admit`, `execute`, `mark_to_market` | what is booked is what was filled |
| Health (`health.rs`) | state, error streak, last message, per venue | message, error, staleness | no order goes to a venue that is down |
| Risk (`risk.rs`) | none | `check` | capital per event and theme, and positions, stay within limits |
| Portfolio (`portfolio.rs`) | capital, positions, the day's losses, the next reset | `add_position`, `realize`, `mark_to_market`, `reset_daily_if_needed` | no cent is made or lost; a day that lost its budget is closed |
| Atomic trade (`exec/atomic.rs`), order clients (`exec/`) | the legs in flight; the simulator's copy of the books | place all legs, wait, classify; simulate | whole trades or an announcement; the simulation does not flatter |
| API, configuration, metrics, clock, frontend | views, constants | publish | read-only |

What is hard here is not in any one function. The worker, the engine and the
venue run concurrently around a bounded channel, and a resync request crosses
events that are still queued. A sequence number is consumed by frames the store
never sees, and Polymarket has none. A frame is recorded before it is sent, and
a process may die or be told to stop between the two. Three tables number the
contracts, each in its own order of reading. Markets open and close while their
listing is being read. One market event may uncover several trades, all
admitted against one state of the account. An order has a fate at the venue
and, separately, an answer, and the answer may be lost or late. Market data and
order answers write the same error streak. Sizes, prices and fees are rounded.
`PROJECT.json` lists these hazards at their lines, with the property that
covers each or the reason none does.

## 2. Modules

| Module | Models | Composes |
|---|---|---|
| `Ladder` | `Book` in `types.rs`, as operators over functions from price to size | |
| `TrustedBooks` | no code: the abstract promise of the store. A contract shows a whole book or nothing; a book is gained whole, amended a level at a time, lost with its venue | `Ladder` |
| `BookStore` | `book.rs`: one operator per arm of `apply`, early returns as `Reject...` and `...NotFollowed` | `Ladder`; implements `TrustedBooks` |
| `DataLemmas` | no code: lemmas about sums over finite sets, in which all money is stated, about selections and sorts, and about sequences joined | `Places` |
| `KalshiFeed` | the venue's connection (external), `run` in `feed/kalshi.rs`, the channel, `Engine::step` as far as store and resync | `BookStore` |
| `PolymarketFeed` | the same of `feed/polymarket.rs`, with its timers | `BookStore` |
| `KalshiFeed_proofs`, `PolymarketFeed_proofs` | theorems about the two feeds, and in the first about the store beneath them and about sizes | |
| `MergedFeed` | `feed/merged.rs` | |
| `Recording` | recorders, replay, the workers as far as both matter, the life of a run in `main.rs` and its drain | `MergedFeed` |
| `Recording_proofs` | theorems about the two | `DataLemmas` |
| `FloorSizes` | size parsing and its drift against the venue | `Ladder` (the clamp) |
| `Fees` | `fees.rs`, as operators | |
| `Relations` | the relations of `registry.rs` and what a set of legs must pay under them | |
| `Places` | filters and stable sorts, said by counting places | |
| `Solver` | `solver/`: closed checks, gates, the walk, fees per level, sizes, costing, ranking, as operators | `Fees`, `Relations`, `Places` |
| `Registry` | `registry.rs`, inference and validation of `discovery.rs`, rendering and startup in `main.rs`: from a file or listing to tables and groups, a step per event and group | `Fees`, `Relations`, `Places` |
| `Paper` | the simulator's fill | `Solver` |
| `Arbitrage` | from the tables and both venues' books to ranked trades and their orders | `Registry`, `Paper` |
| `Discovery` | scopes, cache and paging: several starts, a moving venue | `Places` |
| `Discovery_proofs` | theorems about it | `DataLemmas` |
| `Portfolio` | `portfolio.rs`: the account and its operations | |
| `PortfolioDays` | the account over days, settlements and restarts | `Portfolio` |
| `Trading` | `admit`, `risk::check`, health, `execute`, the atomic trade, the live order client; order matching is external | `Portfolio` |
| `PortfolioDays_proofs`, `Trading_proofs` | theorems about the two | `DataLemmas` |
| `Arbitrage_proofs` | theorems about `Arbitrage` and all it composes | `DataLemmas` |

The `MC*` modules give the constants their small values, one `.cfg` per run.
A definition commented `\* mutant:` is a wrong version of the one that follows
it, used to see that a property can fail; nothing else refers to it.

How state corresponds to code:

- **BookStore.** `state`, `ladder`, `expected` are the store's fields;
  `applied` is what `apply` returned. `expected[v] = None` is an absent map
  entry. Left out are counters, timestamps and the book's own copy of the
  sequence number, which decide nothing.
- **KalshiFeed.** `wire` holds the frames the socket has yet to give, `outbox`
  the events the worker is in the middle of sending (it looks at nothing else
  while `send().await` blocks), `queue` the channel. `resyncAsked` and
  `stopAsked` are the watch channels' changed flags. A rejected frame is one the
  parser refuses, or one that never came: both consume a number. A connection
  that comes up clears the resync watch. `asOf` and `blind` are ghosts: the
  venue's books at the last message the store accepted, and the Live books
  whose loss a later snapshot hid.
- **PolymarketFeed.** As `KalshiFeed`, but a frame carries no number, and time
  passes on a connection that went mute: `flushIn` is when the flush timer is
  due, `slept` how long the idle sleep of this pass has run, `silence` how long
  nothing has come. `missing` marks quotes whose last change the parser could
  not pass on; `missed` is `missing` as of the last event applied. A frame of books is
  refused whole for a sub-cent level or for anything malformed in it; `refused`
  are the contracts whose last book on this connection went that way. A
  `price_change` of several changes is as many frames of one: changes are
  absolute, a sub-cent one is skipped alone, and a malformed one that takes its
  siblings with it is so many unreadable ones. What a frame says of tokens
  outside the subscription is skipped, and left out.
- **MergedFeed.** Of events only the number waiting counts. `Pending` is the
  vector of one pass, `Which` the position `select_all` returns: the first
  that is ready, as that library polls in order.
- **Recording.** An envelope is its kind and number, an event the envelope it
  came from and its place in it, so that two equal sequences of events are two
  equal runs of the engine. `buffer` is the open gzip member, `file` the
  finished ones; `torn` are the files that end in part of one. `runs` is a
  ghost: what the engine was shown in each past run.
- **Registry, Arbitrage.** A contract id is the place at which the contract was
  interned; the store's ids are places in the venues' lists, which `IdsAgree`
  compares. `market` is each contract's book at its venue, `books` the store's
  copy. A group is evaluated when a book of it changes, and `accepted` and
  `refused` are what that found. A book's age is `recent` or not, horizons are
  hours. Prices are cents and sizes contracts as in the code, fees exact
  rational numbers until they are rounded where the code rounds. `Worlds` says
  what may come true without using the relations: for a listing, one market of
  an exclusive event wins, and a threshold is passed or not by a drawn value.
- **Discovery.** `status` is the word a market carries: the venue lists by what
  is open, the code keeps what has the filter's own word (`Matching`), here
  the default "open"; "active" stands for every other word of an open market. A
  cursor is the last item of a page. A file is a snapshot,
  missing, or torn: `File::create` empties it before anything is written. A
  request's six attempts are one that may fail.
- **Portfolio.** Whole cents, and ticks for time, `Day` of them to a day.
  Settlement (`realize`) has no caller but tests; `PortfolioDays` lets it come
  at any moment at which the day has been turned over, as `step` does first.
- **Trading.** A trade carries each leg's `fate` at the venue, the `reply` the
  engine got, and what was `paid`. The three move separately: an order may
  fill after the timeout, or fill and have its answer lost. `plans` is what is
  left of the batch the gate let through; it is in any order, for the solver
  ranks by annualized return. A fill costs what was costed or, when the book has
  thinned, the limit for the whole quantity. The clock stands still: the idle
  budget and the timeout are actions.

## 3. What is checked

| Run | Properties | Shows |
|---|---|---|
| `book_store` | `StoreTypeOK`, `LiveBacked`, `VenueIsolation`, `KeepsPromise` | over any sequence of events: every Live book's deltas are checked for continuity; an event changes one venue; the answer is what happened (refinement of `TrustedBooks`) |
| `feed` | `FeedTypeOK`, `LiveMirrorsVenue` | through rejected frames, drops, failed connections, resyncs and a stop, a Live book is the venue's, but for losses a snapshot hid |
| `feed_recovers` | `Recovers` | a book taken down is Live again |
| `polymarket` | `LiveMirrorsMarket`, `DeadIsDown`, `Recovers` | without numbers, under any two of ten faults: a Live book is the venue's but for quotes whose change could not be read; a worker that gave up leaves no Live book, unless its recorder failed; a book taken down is Live again, unless the frame with it was refused on the connection there is |
| `recording` | `ReplayIsTheRun`, `CrashCutsShort`, `SequencesIncrease`, `EndLosesNothing`, `DrainEnds` | a run that was stopped and drained replays as itself, whatever shares its file; a crash cuts short and changes nothing else; the merge ends when all is delivered and on disk, and it does end |
| `sizes` | `NeverOverstates`, `ShortfallIsCounted` | flooring never shows depth that is not there, and drifts by no more than was counted |
| `account` | `TypeOK`, `Conservation`, `AccountIsTheVenues`, `MarkIsPossible`, `DailyLimitHolds` | money is conserved and is the venue's; marks stay in bounds; a day that lost its budget takes no position, even one admitted before midnight |
| `trading` | `TypeOK`, `BookedIsWhole`, `CostNearlyPaid`, `LooseFillIsAnnounced`, `ErrorsBarAdmission`, `EarlierLeaveRoom`, `BatchEnds` | only whole trades are booked, at what was paid but for dropped cents; every other fill is announced; the error threshold bars trading until a message; what earlier batches booked left room under every limit; a batch ends |
| `arbitrage` | `IdsAgree`, `OneQuestionEach`, `InferenceIsSound`, `PromotionKeepsGroups`, `ChecksAgree`, `FeesAreTheGap`, `PaperIsTheVenue`, `Guaranteed` | the tables agree on ids; a group is about one event and no partition shares a contract; inference passes the validator; a promoted file means what was inferred; closed checks and relations agree; a refused net loss is due to fees; the simulator fills as the venue would and charges no less; an accepted trade makes at least its net in every possible world |
| `discovery` | `HandsOverTheStanding`, `HandsOverTheOpen`, `StartEnds` | a snapshot misses no market that stood with the filter's word, nor the event of any that stood; it holds none that was closed before it could be in the cache, nor one of another scope; a start ends |
| `silence` | `SilenceEndsTheSocket` (violated) | section 5 |
| `side` | `Guaranteed` (violated) | section 5 |

`PolymarketFeed`, `Recording`, `Arbitrage` and `Discovery` also state a `TypeOK`,
for the reader; the runs spend their time on the other properties. Those of
the first two and the last are proved (section 4); that of `FloorSizes` is part of
the invariant that is, and what the proofs need of `Arbitrage`'s is part of
`LoadInv` and `StoreInv`.

**Bounds, and why they are enough.**

- `book_store`: two contracts of one venue and one of another, so that a gap
  reaches one book and must spare another; two values per sequence number, so
  that a delta is before, at or after the expectation; price 0 on the ladder
  and 1 off it; snapshots that are empty, good and rejected. TLAPS covers the
  rest.
- `feed`: two tickers, one price, four numbers a connection (a handshake of
  two and two deltas, so that a gap meets a book that is Live); one each of
  lost frames, drops and failures; a channel of one, which makes every send
  block. `feed_recovers` has one drop and one loss: recovery is owed when
  faults end. A lost *snapshot* is left out of it, for nothing in
  the code notices one until the ticker's neighbour trades.
- `polymarket`: two tokens, an ask and a bid of the first moving at one price
  that is not the middle of the ladder, so that a bid and an ask rest at
  different places; one frame in flight, a channel of one; any two faults, the
  second of which may undo what makes good the first. Silence is counted to 1,
  as the run has no property about it; in `silence` to 3, with a timeout of 2.
- `recording`: two feeds, two days, two runs in a directory; Kalshi's file has
  room for three envelopes and Polymarket's for two. Kalshi writes the envelope
  that becomes an event per ticker, which a stop or crash can cut in two. Past
  runs are remembered of Kalshi's feed, whose file is the one replay can parse.
- `sizes`: changes around whole and half contracts, three deltas between
  snapshots; proved for all.
- `account`: two midnights, three positions, one restart;
  a pair that gains, one that loses (as in `portfolio.rs`'s tests) and a pair on
  an exhaustive event.
- `trading`: two trades of two legs each, the second with a leg at two prices,
  in one batch or two; every fault; capital for either and not both, an event
  limit and a theme limit that one trade nearly fills; the error threshold
  lowered from 3 to 2, so that two trades can reach it. The limit on the number
  of positions is 2, and no third trade meets it.
- `arbitrage`: a file or listing for every relation and for every reason to
  refuse one, of two or three contracts, with Polymarket's catalogue beside
  those that can be extended; four books per contract: none, cheap at two
  depths, dear, and barely below what fees cost, so that a size inside the
  ladder beats the whole of it. One copy may be behind its venue.
- `discovery`: two starts, three markets under two events, the first event
  being the series; a page holds one item and a list two pages, so that it can
  be cut; one market opens, closes or takes another word while two units of time
  pass, against a cache that is good for one; at first one market is
  closed, one has the filter's word, and one is open under another.

No run is checked for deadlock: each system may stop (a stopped feed, an ended
merge, a refused registry, bounds reached).

**Fairness.** `KalshiFeed`: the worker's own steps and the engine's are weakly
fair, as their tasks run on a runtime that schedules them. `ResyncObeyed` is
strongly fair: `tokio::select!` picks at random among ready branches, so a
resync that keeps being requested is seen although the socket always has a
frame. The venue finishes handshakes it began and owes no trades.
`PolymarketFeed`: the worker's steps, the engine's, and the books a subscription
asks for; no fault is owed, nor an end to a mute connection (`Recovers` excepts
one, `silence` says why; and it excepts a book refused on the connection there is, as
nothing asks for that again). `Recording`: the reader of the merge reads, and a
worker sends what it has; `WorkerStops` is strongly fair, as the stop is one of
several branches of `select!` that may all be ready. `Trading`: the engine takes
its next step, and its timer fires; venue and network owe nothing. `Discovery`: a
request is answered or fails by its timeout of 20 seconds, and a write ends;
either may end the start.

## 4. What is proved

TLAPS proves, for every value of the constants that the named assumptions
allow:

| Module | Theorem | Statement |
|---|---|---|
| `KalshiFeed_proofs` | `StoreTypeCorrect` | `StoreSpec => []StoreTypeOK` |
| | `LiveIsBacked` | `StoreSpec => []LiveBacked` |
| | `VenuesAreIsolated` | `StoreSpec => VenueIsolation` |
| | `StoreKeepsPromise` | `StoreSpec => KeepsPromise`: the store implements `TrustedBooks` |
| | `QuoteIsReadBack`, `CrossedIsCheapPair` | an ask is read back where it was quoted; a book is crossed exactly when its best asks of yes and no cost less than the payout |
| | `FloorNeverOverstates`, `FloorShortfallIsCounted` | the book's depth never exceeds the venue's; what it lacks was counted |
| | `FeedTypeCorrect` | `FeedSpec => []FeedTypeOK` |
| | `LiveIsTheVenues` | `FeedSpec => []LiveMirrorsVenue` |
| `PolymarketFeed_proofs` | `PolyTypeCorrect` | `Spec => []TypeOK` |
| | `LiveIsTheMarket` | `Spec => []LiveMirrorsMarket` |
| | `DeadHasNoLiveBook` | `Spec => []DeadIsDown` |
| `Recording_proofs` | `TypeCorrect` | `Spec => []TypeOK` |
| | `NothingIsLost` | `Spec => []EndLosesNothing` |
| | `NumbersIncrease` | `Spec => []SequencesIncrease` |
| | `ReplayShowsTheRun`, `CrashOnlyCuts` | `Spec => []ReplayIsTheRun`, `Spec => []CrashCutsShort` |
| `PortfolioDays_proofs` | `TypeCorrect` | `Spec => []TypeOK` |
| | `MoneyIsConserved` | `Spec => []Conservation` |
| | `AccountFollowsVenue` | `Spec => []AccountIsTheVenues` |
| | `MarksArePossible` | `Spec => []MarkIsPossible` |
| | `DayLimit` | `Spec => DailyLimitHolds` |
| `Trading_proofs` | `TypeCorrect` | `Spec => []TypeOK` |
| | `Whole`, `NearlyPaid` | `Spec => []BookedIsWhole`, `Spec => []CostNearlyPaid` |
| | `LooseFills` | `Spec => []LooseFillIsAnnounced` |
| | `ErrorsBar` | `Spec => []ErrorsBarAdmission` |
| | `RoomWasLeft` | `Spec => []EarlierLeaveRoom` |
| `Arbitrage_proofs` | `LoadInvariant` | `Spec => []LoadInv`: the registry's tables agree at every step of loading |
| | `ArbitrageIds` | `Spec => []IdsAgree` |
| | `ArbitrageOneQuestion` | `Spec => []OneQuestionEach` |
| | `ArbitrageInference` | `Spec => []InferenceIsSound` |
| | `ArbitragePromotion` | `Spec => []PromotionKeepsGroups` |
| | `ArbitrageChecks` | `Spec => []ChecksAgree` |
| | `ArbitrageFeesAreTheGap` | `Spec => []FeesAreTheGap` |
| | `ArbitragePaper` | `Spec => []PaperIsTheVenue` |
| | `MeansInvariant` | `Spec => []MeansInv`, for sources that are `Plain`: no group claims what its source does not imply |
| | `ArbitrageGuaranteed` | `Spec => []Guaranteed`, for sources that are `Plain` |
| `Discovery_proofs` | `DiscoveryTypeCorrect` | `Spec => []TypeOK` |
| | `DiscoveryInvariant` | `Spec => []SnapshotInv`: what stood when a fetch began, a market with the filter's word and the event of any open one, is read or still ahead of it |
| | `DiscoveryStanding` | `Spec => HandsOverTheStanding` |
| | `DiscoveryOpen` | `Spec => HandsOverTheOpen` |

None of the safety properties is inductive as it stands; what follows says what
each had to be strengthened by, and why.

**The store.** `StoreTypeOK` is inductive, given that snapshot,
delta and replacement yield ladders (`SnapshotIsLadder`, `ChangeIsLadder`,
`ReplaceIsLadder`). The first needs the last of several rows at a price to
exist; that is the least element of a set of naturals (`LeastNatural`), from
well-foundedness, as no induction over the rows can be used here. `LiveBacked`
is inductive with it: `expected` is cleared only together with every Live book
of its venue, and a book becomes Live only as its venue gets an expectation.
`StepCases` reduces a step to seven cases, quiet or one of six; isolation and
refinement go through them. The refinement map shows a book when it is Live and
nothing otherwise; a gap and a resubscription map to `Lose`, and so does a
disconnection, and type correctness on both sides of a step makes the level
amended by a delta a level of the abstract view.

**Sizes.** `FloorInv` is the three invariants together: the clamp keeps
`held` natural, and a clamped level loses only what the book never had. It
rests on `ParsedIsFloor`: a parsed size is a floor, its remainder what is
counted.

**The feeds.** That a Live book is the venue's says nothing of the events still
under way, and these are what the next step applies. `FeedInv` is therefore
about one history, `H`: the store's copy, the channel, what the worker is
sending, and the frames on the wire, in that order. `Chained`: two messages of
one connection with consecutive numbers differ by what the second one says, on
every book the store has by then. `AtTip`: while a connection is open, the
message numbered just below the venue's next one shows its books as they are,
and no contract still waits for a snapshot that it has had. `Severed`: between two
connections nothing numbered is left that no boundary follows, so that
nothing of an old connection is continued by the new. A step takes an event
from one end of the history or puts one at the other; a lost or rejected frame
leaves it and its number is missing, which is what the store sees as a gap.

Polymarket numbers nothing, and `PolyInv` cannot appeal to a chain of numbers.
Of every contract, `Before` is the store's copy and its events under way
(`Stepwise`: each leads on from the one before it; `Kept`: what the last of them
has missed, the parser still knows to be missing), and a frame on the wire says
of a book what the frames before it said, except at the quotes it and they name
(`Carried`). `Current`: on an open connection that carries anything, the last
word is the market's. `Severed`, once more, holds between connections and of a
worker that gave up; it is why `DeadIsDown` holds.

**Recording.** `RecordingInv` has three parts. `Base`: what a feed still holds
goes down to nothing before it closes, and a feed is finished only when it
closed and all was delivered; from it the merge's end loses nothing. `Numbered`:
what is written of a day increases, and where the recorder is, it stays below
its counter. `Replayable` is about Kalshi's file: `Underway`, the file's last
session is this run's as long as the run is at the day it began; `Faithful`,
that session replays as all that was sent and is about to be, and its part on
disk as a beginning of that; `Later`, past runs have earlier sessions; `Future`,
no file is ahead of the clock; and `Told`, of each past run, that nothing still
in memory adds to its session. The last is what makes the theorem about a run
one about all the runs after it. That a replay of a file with one more envelope
is the replay of the file and then that envelope's events (`ReplayAppend`) is
proved of the recursive function by the uniqueness of a join (`JoinSame`).

**The account.** `TypeInv` says what a position is. `DayInv` ties the account's
counter to the calendar: `resetAt` is a midnight, the losses realized on this day
are at most `lossToday`, and while there are any, that midnight has not come; so
the budget cannot be handed out a second time before the day is over.
`Conservation` and `AccountIsTheVenues` are sums over positions, and settling an
event changes as many of its positions as there are (`Settles`).

**Trading.** `TradeInv`: `Honest`, what each leg's fate, answer and payment can be
together; `InTurn`, trades run one at a time and after the batches before
theirs; `Ledger`, the account's positions are the booked trades, in number and
in cost, whatever set of events one looks at; `Room`, what was admitted still
has room under the limits beside the batches before. `HealthInv`: from the
threshold on, the venue is Erroring or Disconnected.

**Registry and solver.** Filters, sorts and sums are said by counting places
(`Places`), so that what they return can be stated without an induction over the
data: `SortedBy` has every element once and in order, equals as they were; `Kept`
has the elements of a set of places. `LoadInv` is about loading: `TablesOK`, the
registry's ids are the places in the venues' lists, Kalshi's first; `FileKnown`,
the first pass over a file has met whatever the second asks for; `BindingOK`, a
bound contract has its own id and an event there is; `ListedEventsOK` and
`ListedOK`, of a listing, each event with a horizon is there once, and each market
bound to the one it is listed under; `GroupsOK`, a group is of one event and ends
with it; `ReadingOK`, where the reader of a file stands is the event added last;
`PartitionsOK`, the check once passed, stays true; `FeesOK`, the fee table says of
a contract what the last listing of it did. A promoted file is not one of the
sources the constants give: that it is a file at all (`SourceOK`) is proved of the
rendering (`RenderedEventsAre`).
`StoreInv` is about trading: a live copy is the venue's book (`BooksOK`), and
every opportunity or refusal of the last event was costed from a confirmed group
whose copies are all live (`FoundOK`). `ChecksAgree` goes through what a check
proposes (`CandidatesAre`) and each relation's resolutions, with a counting
argument for ladders. `FeesAreTheGap` needs the size the costing chose: the best
of the breakpoints is no worse than the first of them, the thinnest best level,
where the walk pays best prices only. `PaperIsTheVenue` compares two walks of one
book: the levels within the limit are exactly a beginning that reaches the whole
size, the truncated average is short by the remainder, and a fee that is rounded
up at each level is no less than the sum rounded up once (`TrueFeeIs`).

**The promise.** `Guaranteed` joins all of this to the world. It is false without a
hypothesis, as the run `side` shows, and the theorem names what the program takes for
granted as `Plain`, of every source: each member of a file stands for the outcome its
market pays for (the side is stored and read by nothing), and of an exclusive event
every listed market is open (only the open ones make its set, section 5). Files with a
negated member and listings with a closed market in an exclusive event are the
sources it leaves out; every source of the run `arbitrage`, the refused ones too, is
`Plain`, which `PlainSources` has TLC evaluate. `Means` says of a group and a world
what the group's kind claims, and `MeansInv` that at every step of loading each group
built so far is true in every world the source allows. For a file that is what its
author wrote, carried through the interning of names (`EntryAndGroup`). For a
listing it is the claim of inference: the markets kept of an exclusive event are all
of its markets, so just one pays (`WinnerIsListed`), and thresholds of one direction
nest whatever value is drawn (`RungsNest`). For a promoted file, the rendering is
true wherever its listing is (`RenderedMeans`), so the theorem does not rest on
`PromotionKeepsGroups`. A world in which a group is true is then one of the
resolutions of its relation (`WorldIsAState`: a set of rungs closed under weaker
claims is a beginning of the ladder), and in those the legs pay at least what they
were costed to (`PaysItsFloor`). What is spent is compared leg by leg: what the
real book offers within the limit is a beginning of the ladder that was costed, at
its cost and at no more than its fee (`LegCovered`); and the sums follow
(`SpendsNoMore`).

**A promoted file.** `PromotionKeepsGroups` compares two passes through the
loader, the second over what the first was rendered as; all that is left of the
first is `origin`. `PromoInv` says, while a listing is being loaded, that its
groups have the shape inference gives them (`ShapesListed`); and of a promotion,
that the file is well written (`Written`: events by name and once, members named
by one contract each, its entries the groups of the listing, neither fewer nor
more), that what the reader has made of it is those entries as far as its cursor
(`ReadAsWritten`), and that it was refused, if it was, for an upper ladder. The
rendering picks an event's groups by place, so its entries and the loader's groups
correspond one to one (`EventBehindIs`, `GroupBehindIs`, over `KeptPlaces`). That
no entry fails a check when read back rests on `LoadInv` for the listing: two
entries with a contract in common are of the one event it is bound to, and two
exhaustive ones are the same.

**Discovery.** The two properties look back from the end of a start to its
beginning, and into a file another process may have written. `SnapshotInv` says
of a start that fetches (`ReadOrComing`): a market that has stood since before
it began has been read, if it has the filter's word, or lies in the list it is
reading past its cursor, or in a list to come, and so does its event, whatever
the market's word; and what it has read was open then or
later (`WasOpen`). A page is everything ahead of the cursor, or a beginning of
it that ends with the new cursor (`FirstOnes`), so an answer moves what it read
from one side to the other and nothing falls between; a list cut at its limit
fails the start. Of a readable file it says that it is such a fetch with nothing
ahead, of its own scope. A market that opens or closes now has not stood since
before any fetch began, which is why neither part is disturbed; a file is read
as fresh when it is younger than the age allowed, which is by how much the
properties look further back.

**Data.** The library's induction theorems take an operator, and
nothing installed can instantiate one. `DataLemmas` does without: induction is the
least element of a set of naturals, and the predicate the set of finite subsets
that have it (`FiniteInduction`). Of a recursive function (a sum, a concatenation)
it is shown that it is the only one that satisfies its equation.

**Assumptions.** The bounds (`BoundsAssumption`, `FaultAssumption`,
`DaysAssumption` and so on) are natural numbers and no more. `CapacityAssumption`,
`FeedsAssumption`: a channel holds at least one event, as `tokio` wants it.
`ContractAssumption`: a registry has finitely many contracts.
`KalshiAssumption`, `PolymarketAssumption`: a feed's store is seen as far as its
own venue, which `VenuesAreIsolated` allows. `OpeningAssumption`, `RowsAssumption`: books
and rows have whole sizes (`types.rs`). `RecordingAssumption`: a run has a feed, a
calendar a day; a worker writes no marker but the one its start writes.
`AccountAssumption`: money is whole cents, and not negative at the start.
`RegistryAssumption`: a source is a file or a listing as its type says, and a
listing that repeats a ticker says the same of it (Kalshi: a ticker is one
market). `SolverAssumption`, `FeesAssumption`: limits and multipliers are natural
and a size limit positive. `DiscoveryAssumption`: markets and events are positive
numbers, a page holds an item, and a series has finitely many events. `ArbitrageAssumption`: a book's levels are whole,
positive and best first, as a ladder read from a price array is (`types.rs`).
`OfferAssumption` of `PortfolioDays`: an offer's legs are of contracts of its event
and cost no more than they could pay, which the solver's gates ensure
(`costing.rs`); of `Trading`: finitely many offers, of whole cents and at least
one contract a leg (`costing.rs`, `NoDepth`).

**Only model-checked.** The two `Recovers`, `DrainEnds`, `BatchEnds` and `StartEnds`:
they are liveness under fairness, which the prover does not reach, nor ENABLED.
Every safety invariant and action property of the runs that pass is proved.

## 5. Where code and documentation part

Two are runs in which TLC finds the counterexample.

- **`silence`.** `polymarket.rs:371-374`: the timeout is the "silence before the
  socket is presumed dead". Its `sleep` is made anew on every pass of the loop
  (`:601`), and the flush timer makes a pass every two seconds, so it never
  elapses: a connection that went mute is kept, and its books stay Live, as
  long as a ping can be written. `kalshi.rs:535` sleeps until a fixed time and
  does not have the fault.
- **`side`.** `registry.rs:231-233`: a binding's side is "which outcome of the
  venue listing corresponds to the event resolving yes", and "a venue that lists
  only the negation sets no". It is stored (`:531`) and read by nothing, so a
  confirmed pair with such a member yields a trade that can pay nothing.

The model's properties stop short, or take an exception, where the code does:

- *Store and feeds.* `book.rs:3-4`: "a gap on any ticker invalidates every live
  book on that venue". A snapshot rebases the expectation whatever its number
  (`:260`), so one that follows a lost delta of another ticker hides the loss,
  and a Live book stays wrong: `LiveMirrorsVenue` excepts exactly these. A
  market without any order never has an acceptable snapshot (`kalshi.rs:227`), a
  residual risk in `docs/phase-2-1-summary.md`: `Recovers` is checked on markets
  that open with an order.
- *Polymarket.* A price finer than a cent costs "its own level, not the frame"
  (`polymarket.rs:273-276`), but in a snapshot it costs the frame, all books of
  the subscription included, and so does any malformed level or timestamp in it
  (`:243-247`, `:332-349`): the error is counted (`:220-224`) and nothing asks for the
  frame again, so an opening frame that is refused leaves every book Resyncing
  until the venue restates it or the connection is lost for another reason.
  `Recovers` excepts the contracts whose last book on the present connection was
  refused, and no others. A change that is rejected leaves a Live book wrong
  until the quote's next change. An error of the subscription or of the recorder
  ends the worker for good (`:627`); the latter leaves its books Live. The engine
  never asks this feed for a resync, as no event of its can be a gap.
- *Merge.* `select_all` polls in list order (`merged.rs:68`): a feed that always
  has an event starves those behind it, and events do not come out in the order
  they arrived.
- *Recording.* "Either can be replayed on its own" (`main.rs:1076-1077`), but the
  replay's only parser is Kalshi's. A run that crosses midnight does not replay
  (documented, `docs/phase-3-summary.md:321`); a torn file is refused by recorder and
  replay alike. A live book's age is counted from when it was applied, a
  replayed one's from when it was received.
- *Discovery.* The series lists come unfiltered, so "apply the same filter
  locally" (`discovery.rs:187-189`). It is not the same: the venue lists what is
  open, and the code keeps the markets whose own status *is* the filter's word
  (`:191`). The validator takes "open", "active", "initialized" and "paused" for live
  (`:544`), and the tests' listings are "active" (`:659`): with the default "open",
  a market with such a word is dropped, from a fetch of the whole venue too, and its
  event is kept. Which words Kalshi uses is not in the repository.
  `HandsOverTheStanding` is therefore about markets with the filter's word, and
  about the events of all that are open; where another word is used, a set called
  exhaustive may lack a market that is open, and nothing here says otherwise.
- *Registry and discovery.* A ladder of upper strikes is written out weakest
  claim first, and `check_ladder_order`, which wants strikes ascending, refuses
  the file: `PromotionKeepsGroups` excepts it. A set is called exhaustive on the
  word of the event, though only its open markets are kept
  (`discovery.rs:13-16`, `:184-190`). The validator is called by `registry validate`
  (`main.rs:652`) and not by a start with `--auto-discover`; and it does
  not ask that a market's event be listed, though an unlisted one is dropped.
  The cache's path names neither the environment nor the base URL, so a start
  with `--prod` may be answered with demo markets; a clock set back makes a
  snapshot fresh (`discovery.rs:237`); a cache that cannot be written fails a
  start that has fetched. `fetch_representable` is given a number of pages as a
  number of markets (`main.rs:839`).
- *Costing.* "Checking the boundaries is therefore exact" (`costing.rs:160`): the
  whole-cent ceiling makes net profit fall inside a level too (yes at 29 and no
  at 68: 99 pairs make 3 cents, 100 make 2). What is accepted is still
  guaranteed, and not always the best size.
- *Admission and execution.* `risk.rs:23` calls a limit the "most capital that
  may be locked in any one event"; all trades of a batch are checked before any
  is booked, so two pass it together: `EarlierLeaveRoom` is what holds.
  `health.rs:32-34` wants orders to stop after three failures in a row; market
  data clears the streak (`:68`) and heals an Erroring venue, so an outage of the
  order path alone goes unnoticed: `ErrorsBarAdmission` holds until a
  message, excepts that reset and so does not see it.
  Health is asked of Kalshi alone (`engine.rs:410`, against
  `health.rs:129-131`), and `KalshiOrderClient` sends whatever leg it is given:
  a Polymarket leg goes to Kalshi under a ticker it does not know. `atomic.rs:41`
  says that after `NoFills` there is "nothing to undo"; a lost answer counts as no
  fill, so two fills whose answers were lost are in no book and no count:
  `LooseFillIsAnnounced` excepts answers that never came. After a timeout trading
  goes on (`engine.rs:591`), though `atomic.rs:49-52` wants a reconciliation
  first.
- *Simulation.* It compares a limit with the truncated average, and is given
  the books once per batch, so two trades of a batch fill against the same
  depth (`engine.rs:534`). `PaperIsTheVenue` is about one trade.
- *Account.* An event of several contracts is settled with one verdict for all
  (`portfolio.rs:82`): `AccountIsTheVenues` holds until one is. A restart hands
  out a fresh loss budget (`main.rs:1063`), for all that the reset is tied to the
  calendar (`portfolio.rs:138-140`): `DailyLimitHolds` is stated of one process.
- *Rounding.* The average price drops cents (`exec/kalshi.rs:194`), and an order's
  limit is its worst level for the whole quantity (`engine.rs:494`):
  `CostNearlyPaid` bounds what the first costs.

## 6. Not modelled, and why

- Cancelling an execution: Ctrl-C or a deadline drops the run in the middle of
  a trade. `client_order_id` and its millisecond: the code retries no order.
- A recorder that cannot write, or a worker that dies before the stop, in
  `KalshiFeed` and `Recording`: both end Kalshi's worker as they do
  Polymarket's, where `DeadIsDown` is about them.
- Status filters other than the default: the empty one takes everything, and
  drops nothing by its word.
- Endless fresh cursors: a list of the whole venue fails at its page limit, but
  those of a series have none (`rest.rs:130-181`), so a venue that made up a new
  cursor for every answer would keep a start going. `StartEnds` is about lists
  that end.
- The second venue's health, and the overall rollup: nothing that trades asks
  them.
- The dashboard's broadcast and the frontend: lossy, read-only views of whole
  states; nothing flows back.
- Configuration, metrics, the verification digest, the probe, credentials,
  backoff times, the text of payloads, prices, tickers and TOML: constants,
  counters, input and output, formats.

## 7. Plan

The order is by importance: what the engine believes about the venue, then what
it does with money, then the rest. All modules of the plan are written. Left:

- `Trading` with an execution that is cancelled, and with legs on a second venue.
