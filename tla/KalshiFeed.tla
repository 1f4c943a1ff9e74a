----------------------------- MODULE KalshiFeed -----------------------------
(***************************************************************************)
(* The Kalshi connection worker (src/src/feed/kalshi.rs, run), the bounded *)
(* channel it fills, and the engine's use of it: every event is applied to *)
(* the book store, and a gap asks the worker for a new connection.         *)
(*                                                                         *)
(* One connection is a handshake (the acknowledgement, then a snapshot of  *)
(* each ticker) followed by deltas; the venue numbers everything after the *)
(* acknowledgement 1, 2, 3, ...  That side is external: it is modelled as  *)
(* the worker and the store rely on it.  The venue may trade a ticker as   *)
(* soon as it has sent that ticker's snapshot.                             *)
(*                                                                         *)
(* Faults: a sequenced frame the parser rejects (or that never came), a    *)
(* dropped socket (a network error, a close or error frame, a deadline),   *)
(* a failed connection attempt.  A market with no resting order at all     *)
(* sends a snapshot with neither side, which the parser always rejects.    *)
(*                                                                         *)
(* Time, backoff, recording and the metrics are left out, and so is the    *)
(* acknowledged flag, which only arms one more deadline.                   *)
(***************************************************************************)
EXTENDS BookStore, FiniteSets

CONSTANTS
    Kalshi,       \* the one venue of this feed
    Capacity,     \* of the channel (256 in the code)
    Opening,      \* the books the venue may hold when the feed starts
    MovingSides,  \* the sides of a book the venue trades
    Losable,      \* the kinds of sequenced frame that may be rejected
    MaxLost,      \* bound on rejected frames
    MaxDrops,     \* bound on dropped sockets
    MaxFailures,  \* bound on failed connection attempts
    MayStop       \* whether the feed may be asked to stop

ASSUME KalshiAssumption   == Venue = {Kalshi}
ASSUME CapacityAssumption == Capacity \in Nat \ {0}
ASSUME ContractAssumption == IsFiniteSet(Contract)
ASSUME OpeningAssumption  == Opening \subseteq [Contract -> Ladders]
ASSUME FaultAssumption    == /\ MaxLost \in Nat /\ MaxDrops \in Nat /\ MaxFailures \in Nat
                             /\ MayStop \in BOOLEAN
                             /\ MovingSides \subseteq Side
                             /\ Losable \subseteq {"snapshot", "delta"}

VARIABLES
    market,       \* venue: the true books
    nextSeq,      \* venue: the number of the connection's next message
    toSnap,       \* venue: tickers it has still to snapshot
    wire,         \* frames sent by the venue and not yet read
    link,         \* worker: "connecting", "open", "stopped"
    reconnect,    \* worker: a connection has been lost, or never came up
    outbox,       \* worker: events it has to send before it does anything else
    resyncAsked,  \* the resync watch has changed since the worker looked
    stopAsked,    \* the stop watch has changed
    queue,        \* the channel
    lost, drops, failures,  \* faults so far
    asOf,         \* ghost: the true books at the last message the store accepted
    blind         \* ghost: Live books whose lost delta a snapshot has hidden

venueVars  == <<market, nextSeq, toSnap, wire>>
workerVars == <<link, reconnect, outbox>>
faultVars  == <<lost, drops, failures>>
ghostVars  == <<asOf, blind>>
feedVars   == <<venueVars, workerVars, resyncAsked, stopAsked, queue, faultVars, ghostVars>>
vars       == <<storeVars, feedVars>>

-----------------------------------------------------------------------------
(* Frames and events.  A frame carries the true books as the venue held    *)
(* them when it sent it, for the ghosts to compare with.                   *)

Disconnected    == [kind |-> "disconnected"]
Resubscribed(c) == [kind |-> "resubscribed", contract |-> c]
Ack             == [kind |-> "ack"]

SnapshotOf(c) == [kind |-> "snapshot", contract |-> c, seq |-> nextSeq, truth |-> market]
DeltaOf(c, side, price, change, truth) ==
    [kind |-> "delta", contract |-> c, side |-> side, price |-> price,
     change |-> change, seq |-> nextSeq, truth |-> truth]
Rejected == [kind |-> "rejected"]

(* The rows a snapshot lists, one per price.                               *)
RowsOf(depth) == [i \in 1 .. Par + 1 |-> [price |-> i - 1, size |-> depth[i - 1]]]

(* A snapshot with both sides absent is a schema error to the parser.      *)
NeitherSide(lad) == lad = EmptyLadder
Readable(frame)  == frame.kind = "snapshot" => ~NeitherSide(frame.truth[frame.contract])

-----------------------------------------------------------------------------
FeedInit ==
    /\ StoreInit
    /\ market \in Opening
    /\ nextSeq = 1 /\ toSnap = {} /\ wire = <<>>
    /\ link = "connecting" /\ reconnect = FALSE /\ outbox = <<>>
    /\ resyncAsked = FALSE /\ stopAsked = FALSE /\ queue = <<>>
    /\ lost = 0 /\ drops = 0 /\ failures = 0
    /\ asOf = [c \in Contract |-> EmptyLadder]
    /\ blind = {}

-----------------------------------------------------------------------------
(* The venue.                                                              *)

Numbered(frame) ==
    /\ nextSeq' = nextSeq + 1
    /\ \/ wire' = Append(wire, frame) /\ lost' = lost
       \/ frame.kind \in Losable /\ lost < MaxLost /\ wire' = Append(wire, Rejected) /\ lost' = lost + 1

VenueSnapshots(c) ==
    /\ link = "open" /\ c \in toSnap
    /\ Numbered(IF Readable(SnapshotOf(c)) THEN SnapshotOf(c) ELSE Rejected)
    /\ toSnap' = toSnap \ {c}
    /\ UNCHANGED <<storeVars, market, workerVars, resyncAsked, stopAsked, queue,
                   drops, failures, ghostVars>>

(* The bound on sequence numbers leaves room to complete the handshake.    *)
VenueTrades(c, side, price, change) ==
    LET after == [market EXCEPT ![c][side][price] = @ + change] IN
    /\ after[c][side][price] \in 0 .. MaxSize
    /\ market' = after
    /\ IF link = "open" /\ c \notin toSnap
       THEN /\ nextSeq + Cardinality(toSnap) <= MaxSeq
            /\ Numbered(DeltaOf(c, side, price, change, after))
       ELSE UNCHANGED <<nextSeq, wire, lost>>
    /\ UNCHANGED <<storeVars, toSnap, workerVars, resyncAsked, stopAsked, queue,
                   drops, failures, ghostVars>>

-----------------------------------------------------------------------------
(* The worker.  It looks at the socket, and at the two watches, only when  *)
(* it has nothing left to send.                                            *)

Idle == outbox = <<>>

Connect ==
    /\ link = "connecting" /\ Idle
    /\ link' = "open"
    /\ resyncAsked' = FALSE
    /\ nextSeq' = 1 /\ toSnap' = Contract /\ wire' = <<Ack>>
    /\ UNCHANGED <<storeVars, market, reconnect, outbox, stopAsked, queue, faultVars, ghostVars>>

(* Only the first failure is announced: after it the books are down.       *)
ConnectFails ==
    /\ link = "connecting" /\ Idle
    /\ failures < MaxFailures
    /\ failures' = failures + 1
    /\ outbox' = IF reconnect THEN <<>> ELSE <<Disconnected>>
    /\ reconnect' = TRUE
    /\ UNCHANGED <<storeVars, venueVars, link, resyncAsked, stopAsked, queue,
                   lost, drops, ghostVars>>

(* Contracts in ticker order.                                              *)
Tickers == CHOOSE s \in [1 .. Cardinality(Contract) -> Contract] :
               \A i, j \in DOMAIN s : s[i] = s[j] => i = j

ReadAck ==
    /\ link = "open" /\ Idle
    /\ wire # <<>> /\ Head(wire).kind = "ack"
    /\ outbox' = IF reconnect THEN [i \in DOMAIN Tickers |-> Resubscribed(Tickers[i])]
                              ELSE <<>>
    /\ wire' = Tail(wire)
    /\ UNCHANGED <<storeVars, market, nextSeq, toSnap, link, reconnect, resyncAsked,
                   stopAsked, queue, faultVars, ghostVars>>

(* The parser's verdict: an event to send, or nothing.                     *)
ReadFrame ==
    /\ link = "open" /\ Idle
    /\ wire # <<>> /\ Head(wire).kind # "ack"
    /\ outbox' = IF Head(wire).kind = "rejected" THEN <<>> ELSE <<Head(wire)>>
    /\ wire' = Tail(wire)
    /\ UNCHANGED <<storeVars, market, nextSeq, toSnap, link, reconnect, resyncAsked,
                   stopAsked, queue, faultVars, ghostVars>>

SendAnyway ==                              \* mutant: the channel never full
    /\ outbox # <<>>
    /\ queue' = Append(queue, Head(outbox))
    /\ outbox' = Tail(outbox)
    /\ UNCHANGED <<storeVars, venueVars, link, reconnect, resyncAsked, stopAsked,
                   faultVars, ghostVars>>

(* A send blocks while the channel is full.                                *)
Send ==
    /\ outbox # <<>> /\ Len(queue) < Capacity
    /\ queue' = Append(queue, Head(outbox))
    /\ outbox' = Tail(outbox)
    /\ UNCHANGED <<storeVars, venueVars, link, reconnect, resyncAsked, stopAsked,
                   faultVars, ghostVars>>

(* However a connection ends, what the venue had still in flight is gone,  *)
(* and the books go down with it.                                          *)
LoseSocket ==
    /\ link = "open" /\ Idle
    /\ link' = "connecting" /\ reconnect' = TRUE
    /\ outbox' = <<Disconnected>>
    /\ wire' = <<>> /\ toSnap' = {} /\ nextSeq' = 1
    /\ UNCHANGED <<storeVars, market, stopAsked, queue, lost, failures, ghostVars>>

SocketDrops  == LoseSocket /\ drops < MaxDrops /\ drops' = drops + 1 /\ UNCHANGED resyncAsked
ResyncObeyed == LoseSocket /\ resyncAsked /\ resyncAsked' = FALSE /\ UNCHANGED drops

AskToStop ==
    /\ MayStop /\ ~stopAsked
    /\ stopAsked' = TRUE
    /\ UNCHANGED <<storeVars, venueVars, workerVars, resyncAsked, queue, faultVars, ghostVars>>

Stop ==
    /\ stopAsked /\ link # "stopped" /\ Idle
    /\ link' = "stopped"
    /\ wire' = <<>> /\ toSnap' = {} /\ nextSeq' = 1
    /\ UNCHANGED <<storeVars, market, reconnect, outbox, resyncAsked, stopAsked,
                   queue, faultVars, ghostVars>>

-----------------------------------------------------------------------------
(* The engine takes one event: the store applies it, and a gap asks the    *)
(* worker for a resync before the next event is looked at.                 *)

ApplyEvent(e) ==
    CASE e.kind = "snapshot" ->
           LET lad == e.truth[e.contract] IN
           ApplySnapshot(e.contract, RowsOf(lad["yes"]), RowsOf(lad["no"]), e.seq)
      [] e.kind = "delta" ->
           ApplyDelta(e.contract, e.side, e.price, e.change, e.seq)
      [] e.kind = "disconnected" -> ApplyDisconnected(Kalshi)
      [] e.kind = "resubscribed" -> ApplyResubscribed(e.contract)

(* A snapshot that arrives ahead of the expectation rebases it, over the   *)
(* heads of the books that were Live: what they missed is never noticed.   *)
Hidden(e) ==
    IF e.kind = "snapshot" /\ expected[Kalshi] \notin {None, e.seq}
    THEN LiveBooks \ {e.contract}
    ELSE {}

Consume ==
    /\ queue # <<>>
    /\ LET e == Head(queue) IN
       /\ ApplyEvent(e)
       /\ asOf' = IF applied'.kind \in Change THEN e.truth ELSE asOf
       /\ blind' = IF e.kind = "snapshot"
                   THEN (blind \cup Hidden(e)) \ {e.contract}
                   ELSE blind \cap LiveBooks'
    /\ resyncAsked' = (resyncAsked \/ applied'.kind = "Gap")
    /\ queue' = Tail(queue)
    /\ UNCHANGED <<venueVars, workerVars, stopAsked, faultVars>>

-----------------------------------------------------------------------------
Venues == \/ \E c \in Contract : VenueSnapshots(c)
          \/ \E c \in Contract, side \in MovingSides, price \in Price, change \in Changes :
                VenueTrades(c, side, price, change)

Worker == \/ Connect \/ ConnectFails \/ ReadAck \/ ReadFrame \/ Send
          \/ SocketDrops \/ ResyncObeyed \/ Stop

FeedNext == Venues \/ Worker \/ AskToStop \/ Consume

(* The worker runs whenever its runtime lets it, and so does the engine; a *)
(* select! among ready branches picks at random, so a resync that stays    *)
(* requested is seen even when the socket always has another frame.  The   *)
(* venue completes a handshake it began.  It owes no trades.               *)
Fairness ==
    /\ WF_vars(Connect) /\ WF_vars(ReadAck) /\ WF_vars(ReadFrame) /\ WF_vars(Send)
    /\ SF_vars(ResyncObeyed) /\ WF_vars(Consume)
    /\ \A c \in Contract : WF_vars(VenueSnapshots(c))

FeedSpec     == FeedInit /\ [][FeedNext]_vars
FairFeedSpec == FeedSpec /\ Fairness

-----------------------------------------------------------------------------
Frames == [kind : {"ack", "rejected"}]
          \cup [kind : {"snapshot"}, contract : Contract, seq : Nat,
                truth : [Contract -> Ladders]]
          \cup [kind : {"delta"}, contract : Contract, side : Side, price : Price,
                change : Int, seq : Nat, truth : [Contract -> Ladders]]
Events == [kind : {"disconnected"}]
          \cup [kind : {"resubscribed"}, contract : Contract]
          \cup Frames

FeedTypeOK ==
    /\ StoreTypeOK
    /\ market \in [Contract -> Ladders] /\ asOf \in [Contract -> Ladders]
    /\ nextSeq \in Nat /\ toSnap \subseteq Contract /\ blind \subseteq Contract
    /\ wire \in Seq(Frames) /\ outbox \in Seq(Events) /\ queue \in Seq(Events)
    /\ link \in {"connecting", "open", "stopped"}
    /\ {reconnect, resyncAsked, stopAsked} \subseteq BOOLEAN
    /\ lost \in 0 .. MaxLost /\ drops \in 0 .. MaxDrops /\ failures \in 0 .. MaxFailures
    /\ Len(queue) <= Capacity

(* A Live book shows the venue's book as it was at the last message the    *)
(* store accepted, unless the loss of one of its deltas was hidden by a    *)
(* later snapshot of another contract.  Through any interleaving of        *)
(* connections, queued events of a dead connection, rejected frames and    *)
(* resyncs.                                                                *)
LiveMirrorsVenue == \A c \in LiveBooks \ blind : ladder[c] = asOf[c]

(* A book that is taken down comes back: every gap and disconnect is       *)
(* followed by a snapshot, as long as the faults end and no market is      *)
(* empty.                                                                  *)
Recovers == \A c \in Contract : state[c] = "Resyncing" ~> (state[c] = "Live" \/ stopAsked)
=============================================================================
