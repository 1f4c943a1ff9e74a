----------------------------- MODULE Recording ------------------------------
(***************************************************************************)
(* What a run leaves on disk, and what a replay of it shows: the recorders *)
(* (src/src/record.rs), the two workers as the recorder and the channel    *)
(* see them (src/src/feed/kalshi.rs, src/src/feed/polymarket.rs), the      *)
(* merged feed, the end of a live run (run_engine in src/src/main.rs) and  *)
(* the replay feed (src/src/feed/replay.rs).  Runs follow each other in    *)
(* one directory; midnight passes, and a process may die at any point.     *)
(*                                                                         *)
(* An envelope is its kind and its sequence number; an event is the        *)
(* envelope it came from and its place among that envelope's events.  Two  *)
(* runs of the engine on equal sequences of events end in equal books and  *)
(* equal gap logs, which is what src/src/verify.rs compares.               *)
(***************************************************************************)
EXTENDS MergedFeed, SequencesExt

CONSTANTS
    Days,         \* how many calendar days there are, each with its own file
    Tickers,      \* how many contracts a venue subscribes to
    Writes,       \* of each feed, the kinds of envelope it comes to write
    MaxSequence,  \* bound: of each feed, the highest sequence number
    MaxRuns,      \* bound: how many runs there are
    Remembered    \* the feeds whose past runs are remembered

ASSUME RecordingAssumption ==
    /\ Feeds > 0 /\ Days \in Nat \ {0} /\ Tickers \in Nat
    /\ MaxRuns \in Nat
    /\ Writes \in [Feed -> SUBSET {"text", "other", "disconnected", "resubscribed"}]
    /\ MaxSequence \in [Feed -> Nat] /\ Remembered \subseteq Feed

Day    == 1 .. Days
Kalshi == 1                \* the merge holds Kalshi first

VARIABLES
    day,          \* the wall clock's day
    up,           \* how many feeds of the run have started; 0 between runs
    file,         \* of a feed and a day, the envelopes on disk
    torn,         \* the files whose tail a crash left unreadable
    buffer,       \* envelopes in the open gzip member
    sequence,     \* the recorder's counter
    openDay,      \* the day whose file the recorder is at, or none
    outbox,       \* events of the last envelope, still to be sent
    sent,         \* events sent in this run
    origin,       \* where this run began: its day, its session, and whether it stayed there
    past,         \* how many runs have ended
    runs          \* ghost: the past runs remembered and what the engine was shown

diskVars   == <<file, torn>>
recordVars == <<buffer, sequence, openDay>>
linkVars   == <<outbox, sent>>
runVars    == <<up, origin, past, runs>>
vars       == <<mergeVars, day, diskVars, recordVars, linkVars, runVars>>

None     == 0
Nowhere  == [day |-> None, session |-> 0, stayed |-> TRUE]
Each(x)  == [i \in Feed |-> x]

-----------------------------------------------------------------------------
(* Events of one envelope: what the live worker sends after writing it,    *)
(* and what the replay, whose only parser is Kalshi's, reads from it.      *)

Event(r, k)  == [of |-> r, at |-> k]
Sends(i, r)  ==
    LET n == CASE r.kind \in {"text", "disconnected"} -> 1
               [] r.kind = "resubscribed" -> Tickers
               [] OTHER -> 0
    IN  [k \in 1 .. n |-> Event(r, k)]

Decode(i, r) ==
    CASE r.kind = "resubscribed" -> [k \in 1 .. Tickers |-> Event(r, k)]
      [] r.kind = "disconnected" -> <<Event(r, 1)>>
      [] r.kind = "text" /\ i = Kalshi -> <<Event(r, 1)>>
      [] OTHER -> <<>>

(* A session begins at a marker, or at the head of the file.               *)
BeginsAtHead(records, k) == k = 1         \* mutant: a file is one session

Begins(records, k) == k = 1 \/ records[k].kind = "start"
SessionAt(records, k) ==
    Cardinality({j \in 1 .. k : Begins(records, j)})
Sessions(records) == SessionAt(records, Len(records))

(* A replay reads the file from its head and decodes what is of session n. *)
Replay(i, records, n) ==
    LET read[k \in 0 .. Len(records)] ==
            IF k = 0 THEN <<>>
            ELSE read[k - 1] \o (IF SessionAt(records, k) = n THEN Decode(i, records[k]) ELSE <<>>)
    IN  read[Len(records)]

(* What the engine took of this run's events.                              *)
Seen(i) == SubSeq(sent[i], 1, Len(sent[i]) - arrived[i])

-----------------------------------------------------------------------------
(* The recorder.                                                           *)

Stored(i) == IF openDay[i] = None THEN file
             ELSE [file EXCEPT ![i][openDay[i]] = @ \o buffer[i]]

(* The counter after select_day: a file that is already there is read      *)
(* through, and the numbering resumes above it.                            *)
FromOne(i, d) == 0                        \* mutant: every file numbered afresh

Resumed(i, d) == Max({sequence[i]} \cup {r.seq : r \in Range(Stored(i)[i][d])})

Envelope(kind, n) == [kind |-> kind, seq |-> n]

AppendRecord(i, kind) ==
    LET moves == openDay[i] # day
        r     == Envelope(kind, (IF moves THEN Resumed(i, day) ELSE sequence[i]) + 1)
    IN
    /\ moves => <<i, day>> \notin torn
    /\ r.seq <= MaxSequence[i]
    /\ sequence' = [sequence EXCEPT ![i] = r.seq]
    /\ openDay' = [openDay EXCEPT ![i] = day]
    /\ file' = IF moves THEN Stored(i) ELSE file
    /\ buffer' = [buffer EXCEPT ![i] = IF moves THEN <<r>> ELSE Append(@, r)]
    /\ UNCHANGED torn

Flush(i) ==
    /\ file' = Stored(i)
    /\ buffer' = [buffer EXCEPT ![i] = <<>>]
    /\ UNCHANGED <<torn, sequence, openDay>>

-----------------------------------------------------------------------------
Init ==
    /\ MergeInit
    /\ day = 1 /\ up = 0
    /\ file = Each([d \in Day |-> <<>>]) /\ torn = {}
    /\ buffer = Each(<<>>) /\ sequence = Each(0) /\ openDay = Each(None)
    /\ outbox = Each(<<>>) /\ sent = Each(<<>>)
    /\ origin = Each(Nowhere) /\ past = 0 /\ runs = {}

(* The feeds of a run start one after the other, each with its marker; a   *)
(* file that does not read to its end refuses the start.                   *)
StartFeed ==
    LET i == up + 1 IN
    /\ up < Feeds /\ past < MaxRuns
    /\ AppendRecord(i, "start")
    /\ origin' = [origin EXCEPT ![i] =
                     [day |-> day, session |-> Sessions(file[i][day]) + 1, stayed |-> TRUE]]
    /\ up' = up + 1
    /\ UNCHANGED <<mergeVars, day, linkVars, past, runs>>

Works(i) == i <= up /\ i \notin closed

(* The worker writes an envelope, then sends what it stands for.  Days go  *)
(* forward, so the file of a day that begins while it runs is never torn.  *)
Record(i, kind) ==
    /\ Works(i) /\ outbox[i] = <<>>
    /\ AppendRecord(i, kind)
    /\ outbox' = [outbox EXCEPT ![i] = Sends(i, Envelope(kind, sequence'[i]))]
    /\ origin' = [origin EXCEPT ![i].stayed = @ /\ day = origin[i].day]
    /\ UNCHANGED <<mergeVars, day, sent, up, past, runs>>

FlushTimer(i) ==
    /\ Works(i) /\ outbox[i] = <<>> /\ buffer[i] # <<>>
    /\ Flush(i)
    /\ UNCHANGED <<mergeVars, day, linkVars, runVars>>

Send(i) ==
    /\ Works(i) /\ outbox[i] # <<>>
    /\ Arrive(i)
    /\ sent' = [sent EXCEPT ![i] = Append(@, Head(outbox[i]))]
    /\ outbox' = [outbox EXCEPT ![i] = Tail(@)]
    /\ UNCHANGED <<day, diskVars, recordVars, runVars>>

StopAtOnce(i) ==                          \* mutant: the stop obeyed between two events
    /\ stopping /\ Works(i)
    /\ outbox' = [outbox EXCEPT ![i] = <<>>]
    /\ Flush(i) /\ Close(i)
    /\ UNCHANGED <<day, sent, runVars>>

(* The stop is looked at only between frames.  The channel closes with the *)
(* worker's return, and the flush that follows is of the same turn, which  *)
(* the runtime waits for.                                                  *)
WorkerStops(i) ==
    /\ stopping /\ Works(i) /\ outbox[i] = <<>>
    /\ Flush(i) /\ Close(i)
    /\ UNCHANGED <<day, linkVars, runVars>>

-----------------------------------------------------------------------------
(* The engine's loop and, after it, the drain.                             *)

Running == up = Feeds
Still   == UNCHANGED <<day, diskVars, recordVars, linkVars, runVars>>

StopRun    == Running /\ ~ended /\ StopAll /\ Still
TakeEvent  == Running /\ Deliver /\ Still
FeedIsDone == Running /\ Finish /\ Still
MergeEnds  == Running /\ End /\ Still

PastRun(i, how) ==
    [feed |-> i, day |-> origin[i].day, session |-> origin[i].session,
     stayed |-> origin[i].stayed, shown |-> Seen(i), how |-> how]

Off == /\ up' = 0 /\ past' = past + 1 /\ MergeAgain
       /\ buffer' = Each(<<>>) /\ sequence' = Each(0) /\ openDay' = Each(None)
       /\ outbox' = Each(<<>>) /\ sent' = Each(<<>>) /\ origin' = Each(Nowhere)
       /\ UNCHANGED day

RunIsOver ==
    /\ Running /\ ended
    /\ runs' = runs \cup {PastRun(i, "drained") : i \in Remembered}
    /\ Off /\ UNCHANGED <<file, torn>>

(* Whatever the members that were open held is lost, and their beginning   *)
(* may be in the file.  A run whose marker was lost has no session.        *)
Crash ==
    /\ up > 0
    /\ runs' = runs \cup
         {PastRun(i, "killed") : i \in {j \in Remembered \cap (1 .. up) :
              origin[j].session <= Sessions(file[j][origin[j].day])}}
    /\ \E members \in SUBSET {i \in 1 .. up : buffer[i] # <<>>} :
          torn' = torn \cup {<<i, openDay[i]>> : i \in members}
    /\ Off /\ UNCHANGED file

Midnight ==
    /\ day < Days /\ day' = day + 1
    /\ UNCHANGED <<mergeVars, diskVars, recordVars, linkVars, runVars>>

Next == \/ StartFeed
        \/ \E i \in Feed : \/ \E kind \in Writes[i] : Record(i, kind)
                           \/ FlushTimer(i) \/ Send(i) \/ WorkerStops(i)
        \/ StopRun \/ TakeEvent \/ FeedIsDone \/ MergeEnds
        \/ RunIsOver \/ Crash \/ Midnight

(* The reader keeps reading, a worker sends what it has to send; between   *)
(* frames the stop is one of several branches that may all be ready, of    *)
(* which select! takes any.                                                *)
Fairness ==
    /\ WF_vars(TakeEvent) /\ WF_vars(FeedIsDone) /\ WF_vars(MergeEnds)
    /\ \A i \in Feed : WF_vars(Send(i)) /\ SF_vars(WorkerStops(i))

Spec == Init /\ [][Next]_vars /\ Fairness

-----------------------------------------------------------------------------
Readable(run) == <<run.feed, run.day>> \notin torn

ReplayOf(run) == Replay(run.feed, file[run.feed][run.day], run.session)

TypeOK ==
    /\ up \in 0 .. Feeds /\ day \in Day
    /\ torn \subseteq Feed \X Day
    /\ \A i \in Feed : /\ sequence[i] \in 0 .. MaxSequence[i]
                       /\ openDay[i] \in Day \cup {None}
                       /\ arrived[i] \in 0 .. Capacity
                       /\ Len(outbox[i]) <= Tickers + 1
    /\ \A i \in up + 1 .. Feeds : buffer[i] = <<>> /\ outbox[i] = <<>>

(* A run that was stopped and drained on the day it began is what its      *)
(* session replays as, event for event, whatever runs share the file and   *)
(* whatever crashes there were, as long as the file still reads            *)
(* (replay.rs, run_engine).  Of Kalshi's file.                             *)
ReplayIsTheRun ==
    \A run \in runs : run.feed = Kalshi /\ run.how = "drained" /\ run.stayed /\ Readable(run)
                       => ReplayOf(run) = run.shown

(* After a crash the two may differ by how far they go, never in what they *)
(* say: of the session as its finished gzip members hold it and what the   *)
(* engine was shown, one continues the other.  (While the torn tail is     *)
(* there, the replay feed and the recorder both refuse the file.)          *)
CrashCutsShort ==
    \A run \in runs : run.feed = Kalshi /\ run.stayed =>
        \/ IsPrefix(ReplayOf(run), run.shown)
        \/ IsPrefix(run.shown, ReplayOf(run))

(* Sequence numbers order every file, across the runs that share it, those *)
(* that came into it over midnight too (select_day).                       *)
SequencesIncrease ==
    \A i \in Feed, d \in Day :
        LET here == IF openDay[i] = d THEN Stored(i)[i][d] ELSE file[i][d] IN
        \A j, k \in DOMAIN here : j < k => here[j].seq < here[k].seq

(* The merge ends only when every feed has closed, every event of every    *)
(* feed was delivered, and every envelope behind them is on disk.          *)
EndLosesNothing ==
    ended => /\ closed = Feed
             /\ \A i \in Feed : arrived[i] = 0 /\ outbox[i] = <<>> /\ buffer[i] = <<>>

(* A drain terminates, unless the process dies: the end is reached after a *)
(* stop, though the feeds may still produce before they close.             *)
DrainEnds == stopping ~> (ended \/ ~stopping)
=============================================================================
