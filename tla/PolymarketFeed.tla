--------------------------- MODULE PolymarketFeed ---------------------------
(***************************************************************************)
(* The Polymarket connection worker (src/src/feed/polymarket.rs), its      *)
(* bounded channel, and the book store behind it.                          *)
(*                                                                         *)
(* The venue numbers nothing.  A connection opens with one frame that      *)
(* holds the book of every subscribed token; after it each frame restates  *)
(* one token's book or one of its levels, absolutely.  A lost frame cannot *)
(* be seen in the stream, so continuity rests on the levels being absolute *)
(* and on every lost connection being announced.  The venue's side is      *)
(* external: it is modelled as the worker relies on it.                    *)
(*                                                                         *)
(* Faults: a change or a book the parser cannot read, a dropped socket, a  *)
(* connection that goes mute without closing, a failed connection attempt, *)
(* a subscription that cannot be sent, a recorder that cannot write.  A    *)
(* market may also quote a price finer than a cent, which no book holds.   *)
(*                                                                         *)
(* A price_change frame of several changes is modelled as frames of one    *)
(* change each: a change is absolute, a sub-cent one is skipped alone, and *)
(* a malformed one that drops its siblings is so many garbled frames.      *)
(* Changes of tokens outside the subscription are skipped, and left out.   *)
(*                                                                         *)
(* Time passes only on a mute connection, in units of the flush timer; the *)
(* ten-second heartbeat restarts the sleep as the flush does and is only   *)
(* modelled by its failure, a dropped socket.  Sizes, latency and backoff  *)
(* are left out.                                                           *)
(***************************************************************************)
EXTENDS BookStore, FiniteSets

CONSTANTS
    Polymarket,   \* the one venue of this feed
    Tokens,       \* the subscribed tokens, in order: the contracts
    Capacity,     \* of the channel (256 in the code)
    Moving,       \* the quotes the venue trades: contract, token side, price
    MayQuoteFine, \* the contracts whose market may quote finer than a cent
    IdleTimeout,  \* silence after which a socket is presumed dead, in flushes
    Faults,       \* which of Fault may happen
    MaxFaults,    \* bound on how many do, in all
    MaxSilence,   \* bound on the silence that is counted
    MaxWire       \* bound on the frames in flight

ASSUME PolymarketAssumption == Venue = {Polymarket}
ASSUME TokensAssumption     == Tokens \in Seq(Contract) /\ Contract = {Tokens[i] : i \in DOMAIN Tokens}
ASSUME MovingAssumption     == Moving \subseteq Contract \X {"bid", "ask"} \X Price
ASSUME CapacityAssumption   == Capacity \in Nat \ {0}
ASSUME TimersAssumption     == IdleTimeout \in Nat /\ MaxSilence \in Nat

VARIABLES
    market,       \* venue: the resting size of every quote, per contract
    fine,         \* venue: the contracts that now have a sub-cent quote
    toBook,       \* venue: the opening frame of the connection is still to be sent
    wire,         \* frames sent and not yet read
    mute,         \* the connection carries nothing any more, and has not closed
    link,         \* worker: "connecting", "open", "stopped", "dead"
    reconnect,    \* worker: a connection has been lost, or never came up
    snapshotSeq,  \* worker: snapshots made of each contract
    outbox,       \* worker: events it has to send before it does anything else
    flushIn,      \* worker: until the flush timer is due
    slept,        \* worker: how long the idle sleep has been running
    silence,      \* how long the connection has been silent
    refused,      \* ghost: contracts whose last book here was not read
    resyncAsked, stopAsked,   \* the two watches have changed
    queue,        \* the channel
    faults,       \* those that have happened
    missing,      \* ghost: quotes whose last change the parser did not pass on
    asOf, missed  \* ghosts: market and missing, as of the last event applied

socketVars == <<toBook, wire, mute, flushIn, slept, silence, refused>>
workerVars == <<link, reconnect, snapshotSeq, outbox>>
askVars    == <<resyncAsked, stopAsked>>
ghostVars  == <<asOf, missed>>
polyVars   == <<market, fine, socketVars, workerVars, askVars, queue, faults, missing, ghostVars>>
vars       == <<storeVars, polyVars>>

Quote    == {"bid", "ask"} \X Price
NoQuotes == [q \in Quote |-> 0]

(* What may befall a connection, and what may be asked of it.              *)
Fault == {"mute", "garbled", "malformed", "fine", "drop", "fail", "subscribe", "record",
          "resync", "stop"}
Strike(f) ==
    /\ f \in Faults \ faults /\ Cardinality(faults) < MaxFaults
    /\ faults' = faults \cup {f}

-----------------------------------------------------------------------------
(* Frames, and the events a frame becomes.  Every event carries, for the   *)
(* ghosts, the market it shows and the quotes it is silent about.          *)

Disconnected    == [kind |-> "disconnected"]
Resubscribed(c) == [kind |-> "resubscribed", contract |-> c]

(* Books of some contracts in one frame; of some, a level is not readable. *)
BooksOf(cs, broken) ==
    [kind |-> "books", of |-> cs, truth |-> market, unreadable |-> fine \cup broken]
ChangeOf(c, q, truth) == [kind |-> "change", contract |-> c, quote |-> q, truth |-> truth]
Garbled(c, q)   == [kind |-> "garbled", contract |-> c, quote |-> q]

(* An ask goes out as a bid on the complement.                             *)
RowsAtQuotes(book) ==                      \* mutant: the ask where it was quoted
    [bid |-> [i \in 1 .. Par + 1 |-> [price |-> i - 1, size |-> book[<<"bid", i - 1>>]]],
     ask |-> [i \in 1 .. Par + 1 |-> [price |-> i - 1, size |-> book[<<"ask", i - 1>>]]]]

RowsOf(book) ==
    [bid |-> [i \in 1 .. Par + 1 |-> [price |-> i - 1, size |-> book[<<"bid", i - 1>>]]],
     ask |-> [i \in 1 .. Par + 1 |-> [price |-> Par - (i - 1), size |-> book[<<"ask", i - 1>>]]]]

SnapshotOf(c, book, seq) ==
    [kind |-> "snapshot", contract |-> c, rows |-> RowsOf(book), seq |-> seq,
     truth |-> book, missing |-> {}]
LevelSetOf(c, q, book, without) ==
    [kind |-> "level", contract |-> c, quote |-> q, size |-> book[q],
     truth |-> book, missing |-> without]

-----------------------------------------------------------------------------
Init ==
    /\ StoreInit
    /\ market = [c \in Contract |-> NoQuotes] /\ fine = {}
    /\ toBook = FALSE /\ wire = <<>> /\ mute = FALSE
    /\ flushIn = 1 /\ slept = 0 /\ silence = 0 /\ refused = {}
    /\ link = "connecting" /\ reconnect = FALSE /\ outbox = <<>>
    /\ snapshotSeq = [c \in Contract |-> 0]
    /\ resyncAsked = FALSE /\ stopAsked = FALSE /\ queue = <<>>
    /\ faults = {}
    /\ missing = [c \in Contract |-> {}]
    /\ asOf = [c \in Contract |-> NoQuotes] /\ missed = [c \in Contract |-> {}]

-----------------------------------------------------------------------------
(* The venue.                                                              *)

Transmits(frame) ==
    IF link = "open" /\ ~toBook /\ ~mute
    THEN Len(wire) < MaxWire /\ wire' = Append(wire, frame)
    ELSE wire' = wire

VenueOpens ==
    /\ link = "open" /\ toBook /\ ~mute
    /\ \/ wire' = Append(wire, BooksOf(Tokens, {})) /\ UNCHANGED faults
       \/ Strike("malformed") /\ wire' = Append(wire, BooksOf(Tokens, Contract))
    /\ toBook' = FALSE
    /\ UNCHANGED <<storeVars, market, fine, mute, flushIn, slept, silence, refused, workerVars,
                   askVars, queue, missing, ghostVars>>

(* A traded book may be restated whole.                                    *)
VenueRestates(c) ==
    /\ \E m \in Moving : m[1] = c
    /\ link = "open" /\ ~toBook /\ ~mute
    /\ snapshotSeq[c] < MaxSeq
    /\ \/ Transmits(BooksOf(<<c>>, {})) /\ UNCHANGED faults
       \/ Strike("malformed") /\ Transmits(BooksOf(<<c>>, Contract))
    /\ UNCHANGED <<storeVars, market, fine, toBook, mute, flushIn, slept, silence, refused,
                   workerVars, askVars, queue, missing, ghostVars>>

(* One order comes or goes.                                                *)
VenueTrades(c, q, size) ==
    LET after == [market[c] EXCEPT ![q] = size] IN
    /\ size # market[c][q]
    /\ market' = [market EXCEPT ![c] = after]
    /\ \/ Transmits(ChangeOf(c, q, after)) /\ UNCHANGED faults
       \/ Strike("garbled") /\ Transmits(Garbled(c, q))
    /\ UNCHANGED <<storeVars, fine, toBook, mute, flushIn, slept, silence, refused, workerVars,
                   askVars, queue, missing, ghostVars>>

(* The level change itself passes the parser by: see ReadChange.           *)
VenueQuotesFine(c) ==
    /\ c \in MayQuoteFine
    /\ \/ c \in fine /\ fine' = fine \ {c} /\ UNCHANGED faults
       \/ c \notin fine /\ fine' = fine \cup {c} /\ Strike("fine")
    /\ UNCHANGED <<storeVars, market, socketVars, workerVars, askVars, queue,
                   missing, ghostVars>>

GoesMute ==
    /\ link = "open" /\ ~mute /\ Strike("mute")
    /\ mute' = TRUE
    /\ UNCHANGED <<storeVars, market, fine, toBook, wire, flushIn, slept, silence, refused,
                   workerVars, askVars, queue, missing, ghostVars>>

-----------------------------------------------------------------------------
(* The worker: one thing at a time.  It looks at the socket, the timers    *)
(* and the watches only when it has nothing left to send.                  *)

Idle      == outbox = <<>>
NewSocket == /\ wire' = <<>> /\ mute' = FALSE /\ flushIn' = 1 /\ slept' = 0 /\ silence' = 0
             /\ refused' = {}

Announcements == [i \in DOMAIN Tokens |-> Resubscribed(Tokens[i])]

ConnectUnsubscribed ==                     \* mutant: only the first connection subscribes
    /\ link = "connecting" /\ Idle
    /\ link' = "open" /\ toBook' = ~reconnect /\ NewSocket
    /\ outbox' = IF reconnect THEN Announcements ELSE <<>>
    /\ resyncAsked' = FALSE
    /\ UNCHANGED <<storeVars, market, fine, reconnect, snapshotSeq, stopAsked, queue, faults,
                   missing, ghostVars>>

(* The subscription is sent, and the books are announced to be coming; a   *)
(* resync asked for before that is answered by this connection.            *)
Connect ==
    /\ link = "connecting" /\ Idle
    /\ link' = "open" /\ toBook' = TRUE /\ NewSocket
    /\ outbox' = IF reconnect THEN Announcements ELSE <<>>
    /\ resyncAsked' = FALSE
    /\ UNCHANGED <<storeVars, market, fine, reconnect, snapshotSeq, stopAsked, queue, faults,
                   missing, ghostVars>>

ConnectFails ==
    /\ link = "connecting" /\ Idle /\ Strike("fail")
    /\ outbox' = IF reconnect THEN <<>> ELSE <<Disconnected>>
    /\ reconnect' = TRUE
    /\ UNCHANGED <<storeVars, market, fine, socketVars, link, snapshotSeq, askVars, queue,
                   missing, ghostVars>>

(* The connection came up and the subscription could not be sent: the      *)
(* error is not a reason to try again, it ends the worker.                 *)
SubscribeFails ==
    /\ link = "connecting" /\ Idle /\ Strike("subscribe")
    /\ link' = "dead"
    /\ UNCHANGED <<storeVars, market, fine, socketVars, reconnect, snapshotSeq, outbox, askVars,
                   queue, missing, ghostVars>>

Take ==
    /\ link = "open" /\ Idle /\ wire # <<>>
    /\ wire' = Tail(wire)
    /\ silence' = 0 /\ slept' = 0
    /\ UNCHANGED <<storeVars, market, fine, toBook, mute, flushIn, link, reconnect, askVars,
                   queue, faults, ghostVars>>

(* A sub-cent level, a malformed number or timestamp anywhere in it, and   *)
(* the frame is refused whole: counted, and nothing else.                  *)
Readable(frame) == \A i \in DOMAIN frame.of : frame.of[i] \notin frame.unreadable

ReadBooks ==
    /\ Take
    /\ LET frame == Head(wire)
           named == {frame.of[i] : i \in DOMAIN frame.of}
       IN
       /\ frame.kind = "books"
       /\ IF Readable(frame)
          THEN /\ snapshotSeq' = [c \in Contract |-> snapshotSeq[c] + (IF c \in named THEN 1 ELSE 0)]
               /\ missing' = [c \in Contract |-> IF c \in named THEN {} ELSE missing[c]]
               /\ refused' = refused \ named
               /\ outbox' = [i \in DOMAIN frame.of |->
                      SnapshotOf(frame.of[i], frame.truth[frame.of[i]], snapshotSeq'[frame.of[i]])]
          ELSE /\ refused' = refused \cup named
               /\ outbox' = <<>> /\ UNCHANGED <<snapshotSeq, missing>>

ReadChange ==
    /\ Take
    /\ LET frame == Head(wire) IN
       /\ frame.kind = "change"
       /\ missing' = [missing EXCEPT ![frame.contract] = @ \ {frame.quote}]
       /\ outbox' = <<LevelSetOf(frame.contract, frame.quote, frame.truth,
                                 missing'[frame.contract])>>
    /\ UNCHANGED <<snapshotSeq, refused>>

(* An unknown side, a malformed number: counted, and nothing else.         *)
ReadGarbled ==
    /\ Take
    /\ LET frame == Head(wire) IN
       /\ frame.kind = "garbled"
       /\ missing' = [missing EXCEPT ![frame.contract] = @ \cup {frame.quote}]
    /\ UNCHANGED <<snapshotSeq, outbox, refused>>

(* A frame is recorded before it is parsed, and an error there ends the    *)
(* worker on the spot.                                                     *)
RecorderFails ==
    /\ link = "open" /\ Idle /\ wire # <<>> /\ Strike("record")
    /\ link' = "dead"
    /\ UNCHANGED <<storeVars, market, fine, socketVars, reconnect, snapshotSeq, outbox, askVars,
                   queue, missing, ghostVars>>

Send ==
    /\ outbox # <<>> /\ Len(queue) < Capacity
    /\ queue' = Append(queue, Head(outbox))
    /\ outbox' = Tail(outbox)
    /\ UNCHANGED <<storeVars, market, fine, socketVars, link, reconnect, snapshotSeq, askVars,
                   faults, missing, ghostVars>>

(* A unit of time on a mute connection.  The sleep that would end it is    *)
(* made anew each time round the select, so it has been running since the  *)
(* last branch taken, and the flush timer is such a branch.                *)
TimePasses ==
    /\ link = "open" /\ Idle /\ mute /\ wire = <<>>
    /\ flushIn > 0 /\ slept < IdleTimeout /\ silence < MaxSilence
    /\ flushIn' = flushIn - 1 /\ slept' = slept + 1 /\ silence' = silence + 1
    /\ UNCHANGED <<storeVars, market, fine, toBook, wire, mute, refused, workerVars, askVars,
                   queue, faults, missing, ghostVars>>

Flush ==
    /\ link = "open" /\ Idle /\ flushIn = 0
    /\ flushIn' = 1 /\ slept' = 0
    /\ UNCHANGED <<storeVars, market, fine, toBook, wire, mute, silence, refused, workerVars,
                   askVars, queue, faults, missing, ghostVars>>

LoseSocketQuietly ==                       \* mutant: the disconnect not announced
    /\ link = "open" /\ Idle
    /\ link' = "connecting" /\ reconnect' = TRUE
    /\ outbox' = <<>>
    /\ toBook' = FALSE /\ NewSocket
    /\ UNCHANGED <<storeVars, market, fine, snapshotSeq, stopAsked, queue, missing, ghostVars>>

LoseSocket ==
    /\ link = "open" /\ Idle
    /\ link' = "connecting" /\ reconnect' = TRUE
    /\ outbox' = <<Disconnected>>
    /\ toBook' = FALSE /\ NewSocket
    /\ UNCHANGED <<storeVars, market, fine, snapshotSeq, stopAsked, queue, missing, ghostVars>>

SocketEnds   == /\ LoseSocket /\ UNCHANGED resyncAsked
                /\ IF slept >= IdleTimeout THEN UNCHANGED faults ELSE Strike("drop")
ResyncObeyed == LoseSocket /\ resyncAsked /\ resyncAsked' = FALSE /\ UNCHANGED faults

AskResync ==
    /\ ~resyncAsked /\ Strike("resync")
    /\ resyncAsked' = TRUE
    /\ UNCHANGED <<storeVars, market, fine, socketVars, workerVars, stopAsked, queue, missing,
                   ghostVars>>

AskToStop ==
    /\ Strike("stop")
    /\ stopAsked' = TRUE
    /\ UNCHANGED <<storeVars, market, fine, socketVars, workerVars, resyncAsked, queue,
                   missing, ghostVars>>

Stop ==
    /\ stopAsked /\ link \in {"connecting", "open"} /\ Idle
    /\ link' = "stopped" /\ toBook' = FALSE /\ NewSocket
    /\ UNCHANGED <<storeVars, market, fine, reconnect, snapshotSeq, outbox, askVars, queue,
                   faults, missing, ghostVars>>

-----------------------------------------------------------------------------
(* The engine takes one event.  None of this venue's can be a gap.         *)

ApplyEvent(e) ==
    CASE e.kind = "snapshot" -> ApplySnapshot(e.contract, e.rows.bid, e.rows.ask, e.seq)
      [] e.kind = "level" ->
           \/ ApplyLevelSet(e.contract, e.quote[1], e.quote[2], e.size)
           \/ RejectLevelSet(e.contract, e.quote[2], e.size)
      [] e.kind = "disconnected" -> ApplyDisconnected(Polymarket)
      [] e.kind = "resubscribed" -> ApplyResubscribed(e.contract)

Consume ==
    /\ queue # <<>>
    /\ LET e == Head(queue) IN
       /\ ApplyEvent(e)
       /\ IF applied'.kind \in Change
          THEN /\ asOf'   = [asOf EXCEPT ![e.contract] = e.truth]
               /\ missed' = [missed EXCEPT ![e.contract] = e.missing]
          ELSE UNCHANGED ghostVars
    /\ queue' = Tail(queue)
    /\ UNCHANGED <<market, fine, socketVars, workerVars, askVars, faults, missing>>

-----------------------------------------------------------------------------
VenueActs == \/ VenueOpens \/ GoesMute
             \/ \E c \in Contract : VenueRestates(c) \/ VenueQuotesFine(c)
             \/ \E m \in Moving, size \in 0 .. MaxSize : VenueTrades(m[1], <<m[2], m[3]>>, size)

Worker == \/ Connect \/ ConnectFails \/ SubscribeFails \/ RecorderFails
          \/ ReadBooks \/ ReadChange \/ ReadGarbled \/ Send
          \/ TimePasses \/ Flush \/ SocketEnds \/ ResyncObeyed \/ Stop

Next == VenueActs \/ Worker \/ AskResync \/ AskToStop \/ Consume

(* The runtime schedules worker and engine, and the venue sends the books  *)
(* a subscription asks for.  It owes no trades, and faults no appointment. *)
Fairness == /\ WF_vars(Connect) /\ WF_vars(ReadBooks) /\ WF_vars(ReadChange)
            /\ WF_vars(ReadGarbled) /\ WF_vars(Send) /\ WF_vars(Consume) /\ WF_vars(VenueOpens)

Spec     == Init /\ [][Next]_vars
FairSpec == Spec /\ Fairness

-----------------------------------------------------------------------------
TypeOK ==
    /\ StoreTypeOK
    /\ market \in [Contract -> [Quote -> 0 .. MaxSize]] /\ fine \subseteq Contract
    /\ link \in {"connecting", "open", "stopped", "dead"}
    /\ {toBook, mute, reconnect, resyncAsked, stopAsked} \subseteq BOOLEAN
    /\ snapshotSeq \in [Contract -> Nat]
    /\ flushIn \in 0 .. 1 /\ slept \in 0 .. IdleTimeout /\ silence \in 0 .. MaxSilence
    /\ refused \subseteq Contract
    /\ Len(queue) <= Capacity
    /\ missing \in [Contract -> SUBSET Quote] /\ missed \in [Contract -> SUBSET Quote]

(* What the store holds of a quote, read back from where it rests.         *)
Shown(c, q) == ladder[c][QuoteSide(q[1])][QuotePrice(q[1], q[2])]

(* A Live book is the market's as it was at the last event applied, in     *)
(* every quote but those whose last change could not be read; and the next *)
(* change of such a quote heals it.  Over reconnections, queued events of  *)
(* a dead connection, restated books and unreadable frames, though nothing *)
(* in the stream is numbered.                                              *)
LiveMirrorsMarket ==
    \A c \in LiveBooks : \A q \in Quote \ missed[c] : Shown(c, q) = asOf[c][q]

(* A worker that gave up leaves no book Live behind it, as nobody will     *)
(* ever update it again, unless it was the recorder that failed.           *)
DeadIsDown ==
    link = "dead" /\ "record" \notin faults /\ outbox = <<>> /\ queue = <<>> => LiveBooks = {}

(* A book that goes down comes back, unless the worker is gone, the        *)
(* connection is mute, or the last book of it that this connection sent    *)
(* could not be read: over a level finer than a cent or a malformed field  *)
(* the parser refuses all books of the frame, and nothing asks for them    *)
(* again.  The exception ends with the connection: the next one owes the   *)
(* book anew, however many frames were refused before.                     *)
Gone == stopAsked \/ link = "dead"
Recovers == \A c \in Contract :
    state[c] = "Resyncing" ~> (state[c] = "Live" \/ Gone \/ mute \/ c \in refused)

(* What the comment on IDLE_TIMEOUT says: a connection that has been quiet *)
(* that long is taken to be gone.                                          *)
SilenceEndsTheSocket == link = "open" => silence <= IdleTimeout
=============================================================================
