------------------------------ MODULE Discovery ------------------------------
(***************************************************************************)
(* The snapshot of Kalshi's listing that a start infers its registry from  *)
(* (load_or_fetch in src/src/discovery.rs, load_universe in                *)
(* src/src/main.rs, the lists of src/src/feed/rest.rs): out of a cache on  *)
(* disk that several processes may share, or fetched page by page while    *)
(* the venue's markets open and close.                                     *)
(*                                                                         *)
(* A market and an event are numbers, and a cursor is the last one of a    *)
(* page.  A snapshot is stamped with the time its fetch began.  Writing it *)
(* first empties the file; a file that another start is writing, or that   *)
(* was not written to its end, does not parse.  Demo and production have   *)
(* the same cache path; one of them is modelled.                           *)
(*                                                                         *)
(* The configured status filter is its default, the word "open".  The      *)
(* venue is asked with it for what is open; what a market's own status     *)
(* then says is another thing, and the code compares it with the filter's  *)
(* word.  "active" stands for every other word of a market that is open    *)
(* (the validator takes active, initialized and paused for live too).      *)
(***************************************************************************)
EXTENDS Integers, Sequences, FiniteSetsExt, Places

CONSTANTS
    Process,
    Market, EventOf,   \* the markets there may be, and the event of each
    Opening,           \* the statuses they may have at first
    SeriesEvents,      \* the events of the series a start may ask for
    PageSize, MaxPages,
    MaxAge,            \* cache_max_age_secs
    MaxNow, MaxChanges, MaxStarts    \* bounds on time, changes and starts

Status == {"open", "active", "closed"}

ASSUME DiscoveryAssumption ==
    /\ Market \subseteq Nat \ {0} /\ DOMAIN EventOf = Market
    /\ Opening \subseteq [Market -> Status]
    /\ \A m \in Market : EventOf[m] \in Nat \ {0}
    /\ IsFiniteSet(SeriesEvents) /\ SeriesEvents \subseteq Nat \ {0}
    /\ {PageSize, MaxPages} \subseteq Nat \ {0}
    /\ {MaxAge, MaxNow, MaxChanges, MaxStarts} \subseteq Nat

VARIABLES
    now,
    status,      \* the word in each market's status
    since,       \* when it last changed
    cache,       \* of each path, a snapshot, Missing or Torn
    job,         \* of each process, its start
    changes, starts

venueVars == <<now, status, since, changes>>
vars      == <<venueVars, cache, job, starts>>

Scope   == {"all", "series"}
Missing == [kind |-> "missing"]
Torn    == [kind |-> "torn"]
Readable(file) == file.kind = "snapshot"

open     == {m \in Market : status[m] # "closed"}
Matching == {m \in Market : status[m] = "open"}     \* the filter's own word

InScope(scope) == IF scope = "all" THEN Market
                  ELSE {m \in Market : EventOf[m] \in SeriesEvents}

(* Scopes do not share a file.                                             *)
PathFor(scope) == IF scope = "all" THEN "kalshi_markets" ELSE "kalshi_markets-series"

(* The lists a fetch walks: all markets, or those of each event of the     *)
(* series, and then all events.  Only the lists of the whole venue stop at *)
(* a page limit, and only they are filtered by the venue.  (The events of  *)
(* a series are listed first, open or not: they stand for themselves.)     *)
Markets(of, whole) == [kind |-> "markets", of |-> of, whole |-> whole]
AllEvents          == [kind |-> "events", of |-> {EventOf[m] : m \in Market}, whole |-> TRUE]

Lists(scope) ==
    IF scope = "all" THEN <<Markets(Market, TRUE), AllEvents>>
    ELSE LET order == InOrder(SeriesEvents)
         IN  [i \in DOMAIN order |->
                 Markets({m \in Market : EventOf[m] = order[i]}, FALSE)]
             \o <<AllEvents>>

OpenEvents    == {EventOf[m] : m \in open}
Listing(list) == IF list.kind = "events" THEN OpenEvents
                 ELSE IF list.whole THEN list.of \cap open ELSE list.of

Idle == [at |-> "idle"]
NewJob(scope, age) ==
    [at |-> "fetching", scope |-> scope, age |-> age, since |-> now, todo |-> Lists(scope),
     cursor |-> 0, seen |-> {}, pages |-> 0, markets |-> {}, events |-> {},
     alone |-> TRUE, again |-> FALSE]

Init ==
    /\ now = 0 /\ changes = 0 /\ starts = 0
    /\ status \in Opening /\ since = [m \in Market |-> 0]
    /\ cache = [path \in {PathFor(s) : s \in Scope} |-> Missing]
    /\ job = [p \in Process |-> Idle]

-----------------------------------------------------------------------------
(* The venue, and the clock.                                               *)

VenueChanges(m) ==
    /\ changes < MaxChanges /\ changes' = changes + 1
    /\ \E word \in Status \ {status[m]} : status' = [status EXCEPT ![m] = word]
    /\ since' = [since EXCEPT ![m] = now]
    /\ UNCHANGED <<now, cache, job, starts>>

TimePasses ==
    /\ now < MaxNow /\ now' = now + 1
    /\ UNCHANGED <<status, since, changes, cache, job, starts>>

-----------------------------------------------------------------------------
(* A start.                                                                *)

Fresh(file, age) == Readable(file) /\ now - file.at < age

(* A cached snapshot is handed over at once; else a fetch begins.  A       *)
(* refresh takes no snapshot for fresh.                                    *)
Begin(p, scope, refresh) ==
    LET age  == IF refresh THEN 0 ELSE MaxAge
        file == cache[PathFor(scope)]
        new  == NewJob(scope, age)
    IN  /\ job[p].at = "idle"
        /\ starts < MaxStarts /\ starts' = starts + 1
        /\ job' = [job EXCEPT ![p] =
              IF Fresh(file, age)
              THEN [new EXCEPT !.at = "done", !.todo = <<>>,
                               !.markets = file.markets, !.events = file.events]
              ELSE new]
        /\ UNCHANGED <<venueVars, cache>>

Fetching(p) == job[p].at = "fetching"
Here(p)     == Head(job[p].todo)
Ahead(p)    == {x \in Listing(Here(p)) : x > job[p].cursor}
Page(p)     == {x \in Ahead(p) : Cardinality({y \in Ahead(p) : y < x}) < PageSize}

(* What follows a page: the list may go on.  (A list by series has no page *)
(* limit: it ends because its fresh cursors do, which are no more than the *)
(* markets it lists.  A venue that made up a new cursor for every answer   *)
(* would never let it end, and lies outside the model.)                    *)
TruncatedAfter(list, pages, more) ==             \* mutant: at the limit what was read is returned
    IF ~more \/ (list.whole /\ pages = MaxPages) THEN "end" ELSE "next"

After(list, pages, more) ==
    IF ~more THEN "end"
    ELSE IF list.whole /\ pages = MaxPages THEN "fail" ELSE "next"

(* A list by series comes unfiltered, and is filtered here, by the word    *)
(* the venue was asked with; so is the list of the whole venue.            *)
AllRetained(page) == page                        \* mutant: whatever its status

Retained(page) == page \cap Matching

NextList(j) ==
    [j EXCEPT !.at = IF Len(j.todo) = 1 THEN "save" ELSE "fetching",
              !.todo = Tail(@), !.cursor = 0, !.seen = {}, !.pages = 0]

Answer(p) ==
    LET page == Page(p)
        more == Ahead(p) # page
        read == IF Here(p).kind = "events"
                THEN [job[p] EXCEPT !.events = @ \cup page, !.pages = @ + 1]
                ELSE [job[p] EXCEPT !.markets = @ \cup Retained(page), !.pages = @ + 1]
        next == After(Here(p), read.pages, more)
    IN  /\ Fetching(p)
        /\ job' = [job EXCEPT ![p] =
              IF next = "end" THEN NextList(read)
              ELSE IF next = "next" THEN [read EXCEPT !.cursor = Max(page),
                                                      !.seen = @ \cup {Max(page)}]
              ELSE Idle]
        /\ UNCHANGED <<venueVars, cache, starts>>

(* The venue answers with a cursor it gave before: the page after that one *)
(* would come again.  (The flag tells one such page from the next.)        *)
NeverRepeats(cursor, seen) == FALSE              \* mutant: cursors are not remembered

Repeats(cursor, seen) == cursor \in seen

AnswerAgain(p) ==
    /\ Fetching(p)
    /\ \E cursor \in job[p].seen :
          job' = [job EXCEPT ![p] = IF Repeats(cursor, job[p].seen) THEN Idle
                                    ELSE [job[p] EXCEPT !.cursor = cursor, !.again = ~@]]
    /\ UNCHANGED <<venueVars, cache, starts>>

(* A page is asked for up to six times while the venue is busy.  A failure *)
(* after that ends the start, and so does one to write what was fetched,   *)
(* or the user.  A file that was being written stays torn, or, if another  *)
(* start had it too, may be.                                               *)
End(p) ==
    /\ job[p].at # "idle"
    /\ job' = [job EXCEPT ![p] = Idle]
    /\ \/ UNCHANGED cache
       \/ job[p].at = "writing" /\ cache' = [cache EXCEPT ![PathFor(job[p].scope)] = Torn]
    /\ UNCHANGED <<venueVars, starts>>

SamePath(p, q) == job[q].at = "writing" /\ PathFor(job[q].scope) = PathFor(job[p].scope)

CreateFile(p) ==
    LET others == {q \in Process \ {p} : SamePath(p, q)} IN
    /\ job[p].at = "save"
    /\ cache' = [cache EXCEPT ![PathFor(job[p].scope)] = Torn]
    /\ job' = [q \in Process |->
                  IF q = p THEN [job[p] EXCEPT !.at = "writing", !.alone = others = {}]
                  ELSE IF q \in others THEN [job[q] EXCEPT !.alone = FALSE] ELSE job[q]]
    /\ UNCHANGED <<venueVars, starts>>

SnapshotOf(j) ==
    [kind |-> "snapshot", scope |-> j.scope, at |-> j.since,
     markets |-> j.markets, events |-> j.events]

(* Bytes of two writers do not make a file that parses, unless they kept   *)
(* out of each other's way after all.                                      *)
WriteFile(p) ==
    /\ job[p].at = "writing"
    /\ \E file \in {SnapshotOf(job[p])} \cup (IF job[p].alone THEN {} ELSE {Torn}) :
          cache' = [cache EXCEPT ![PathFor(job[p].scope)] = file]
    /\ job' = [job EXCEPT ![p].at = "done"]
    /\ UNCHANGED <<venueVars, starts>>

Step(p) == Answer(p) \/ AnswerAgain(p) \/ CreateFile(p) \/ WriteFile(p)

Next ==
    \/ \E m \in Market : VenueChanges(m)
    \/ TimePasses
    \/ \E p \in Process :
          \/ \E scope \in Scope, refresh \in BOOLEAN : Begin(p, scope, refresh)
          \/ Step(p) \/ End(p)

(* A request is answered, or fails by its timeout of 20 seconds; a file is *)
(* written, or cannot be.  How long a run then goes on is not said.        *)
Progress(p) == job[p].at # "done" /\ (Step(p) \/ End(p))

Spec == Init /\ [][Next]_vars /\ \A p \in Process : WF_vars(Progress(p))

-----------------------------------------------------------------------------
(* Well-formedness of the state: a file holds a snapshot of its own scope. *)
TypeOK ==
    /\ now \in 0 .. MaxNow /\ status \in [Market -> Status] /\ since \in [Market -> 0 .. now]
    /\ \A s \in Scope : Readable(cache[PathFor(s)]) =>
          /\ cache[PathFor(s)].scope = s
          /\ cache[PathFor(s)].markets \subseteq InScope(s)
          /\ cache[PathFor(s)].at <= now
    /\ \A p \in Process : job[p].at \in {"idle", "fetching", "save", "writing", "done"}

HandsOver(p) == job[p].at # "done" /\ job'[p].at = "done"

Standing(m, j) == m \in open \cap InScope(j.scope) /\ since[m] + j.age < j.since

(* No market that stands with the filter's word is missed, and no event of *)
(* any market that stands: whatever opens, closes and is retried during    *)
(* the fetch, and whichever process filled the cache, a start sees every   *)
(* market of its scope that has been "open" for longer than the cache may  *)
(* be old (an exhaustive set with a market missing is not exhaustive).  A  *)
(* market that is open under another word is dropped, though the validator *)
(* takes it for live, and a set it belongs to is called exhaustive without *)
(* it: of such a market the start knows the event and no more.             *)
HandsOverTheStanding ==
    [][\A p \in Process : HandsOver(p) =>
          LET j == job'[p] IN
          \A m \in Market : Standing(m, j) =>
              /\ m \in Matching => m \in j.markets
              /\ EventOf[m] \in j.events]_vars

(* No market is handed over that was closed already when the cache was no  *)
(* longer fresh, and none of another scope.                                *)
HandsOverTheOpen ==
    [][\A p \in Process : HandsOver(p) =>
          LET j == job'[p] IN
          \A m \in j.markets : /\ m \in InScope(j.scope)
                               /\ m \in open \/ since[m] + j.age >= j.since]_vars

(* A start ends, in a snapshot or in an error: whatever pages fail, time   *)
(* out, come again under an old cursor or go beyond the page limit, and    *)
(* whatever opens and closes meanwhile; as long as fresh cursors end.      *)
StartEnds == \A p \in Process : job[p].at # "idle" ~> job[p].at \in {"done", "idle"}
=============================================================================
