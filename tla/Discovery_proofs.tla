-------------------------- MODULE Discovery_proofs --------------------------
(***************************************************************************)
(* What a start is handed over, for every set of markets, processes, page  *)
(* size and age: all that stood and nothing that had closed.               *)
(*                                                                         *)
(* The two action properties look back to when a fetch began, and into a   *)
(* file that some other process may have written.  So the invariant        *)
(* (SnapshotInv) says of a fetch under way that what stood when it began,  *)
(* and says "open" of itself as the filter does, has been read or is still *)
(* ahead: in the rest of the list being read, past its cursor, or in a     *)
(* list to come; and of a readable file that it is such a fetch at its     *)
(* end.  A market whose status changes disturbs neither: it has not stood  *)
(* since before any fetch.  Of a market open under another word only its   *)
(* event is claimed: the code drops the market.                            *)
(*                                                                         *)
(* The parts, in order: the shapes and the invariant; what the lists hold  *)
(* and what a page is; the answer to a page; the other steps; the          *)
(* theorems.                                                               *)
(***************************************************************************)
EXTENDS Discovery, DataLemmas

-----------------------------------------------------------------------------
(* The shape of a start, and of a file.                                    *)
List == [kind : {"markets", "events"}, of : SUBSET Nat, whole : BOOLEAN]

StartOf(at) ==
    [at : at, scope : Scope, age : {0, MaxAge}, since : 0 .. now, todo : Seq(List),
     cursor : Nat, seen : SUBSET Nat, pages : Nat, markets : SUBSET Nat, events : SUBSET Nat,
     alone : BOOLEAN, again : BOOLEAN]

Under == {"fetching", "save", "writing"}

Snapshots == [kind : {"snapshot"}, scope : Scope, at : 0 .. now,
              markets : SUBSET Nat, events : SUBSET Nat]

ShapesOK ==
    /\ now \in Nat /\ now <= MaxNow /\ status \in [Market -> Status] /\ since \in [Market -> 0 .. now]
    /\ cache \in [{PathFor(s) : s \in Scope} -> Snapshots \cup {Missing, Torn}]
    /\ job \in [Process -> StartOf(Under \cup {"done"}) \cup {Idle}]

(* A market, or an event, that the lists still to be read will come to.    *)
ComesTo(j, kind, x) ==
    \E i \in DOMAIN j.todo : /\ j.todo[i].kind = kind
                             /\ i = 1 => x > j.cursor
                             /\ kind = "markets" => x \in j.todo[i].of

(* What stood when the fetch began has been read, or will be, if it says   *)
(* the filter's word, and so has its event, whatever it says; what has     *)
(* been read was open then, or later.                                      *)
ReadOrComing(j) ==
    \A m \in open : m \in InScope(j.scope) /\ since[m] < j.since =>
        /\ m \in Matching => m \in j.markets \/ ComesTo(j, "markets", m)
        /\ EventOf[m] \in j.events \/ ComesTo(j, "events", EventOf[m])

WasOpen(markets, scope, at) ==
    \A m \in markets : m \in InScope(scope) /\ (m \in open \/ since[m] >= at)

JobOK(j) ==
    j.at \in Under =>
        /\ j.at # "fetching" <=> j.todo = <<>>
        /\ \A i \in DOMAIN j.todo : j.todo[i].kind = "markets" => j.todo[i].of \subseteq InScope(j.scope)
        /\ ReadOrComing(j)
        /\ WasOpen(j.markets, j.scope, j.since)

FileOK(file, scope) ==
    Readable(file) =>
        /\ file.scope = scope
        /\ \A m \in open : m \in InScope(scope) /\ since[m] < file.at =>
              (m \in Matching => m \in file.markets) /\ EventOf[m] \in file.events
        /\ WasOpen(file.markets, scope, file.at)

SnapshotInv ==
    /\ ShapesOK
    /\ \A p \in Process : JobOK(job[p])
    /\ \A s \in Scope : FileOK(cache[PathFor(s)], s)

(* What a start that ends now hands over.                                  *)
GoodHandOver(j) ==
    /\ \A m \in Market : Standing(m, j) =>
          (m \in Matching => m \in j.markets) /\ EventOf[m] \in j.events
    /\ \A m \in j.markets : m \in InScope(j.scope) /\ (m \in open \/ since[m] + j.age >= j.since)

LEMMA OpenIs ==
    /\ open \subseteq Market /\ Matching \subseteq open /\ open' \subseteq Market
    /\ status' = status => open' = open /\ Matching' = Matching
BY DEF open, Matching

LEMMA PathsDiffer ==
    ASSUME NEW s \in Scope, NEW t \in Scope, PathFor(s) = PathFor(t)
    PROVE  s = t
BY DEF Scope, PathFor

(* The first so many of a set of numbers: no other one comes before them.  *)
Below(S, x)   == {y \in S : y < x}
FirstOf(S, n) == {x \in S : Cardinality(Below(S, x)) < n}

LEMMA FirstOnes ==
    ASSUME NEW S, S \subseteq Nat, NEW n \in Nat \ {0}, S # FirstOf(S, n)
    PROVE  /\ Max(FirstOf(S, n)) \in FirstOf(S, n)
           /\ \A x \in S \ FirstOf(S, n) : Max(FirstOf(S, n)) < x
<1> DEFINE page == FirstOf(S, n)
<1>0. /\ \A x, y : y \in Below(S, x) <=> y \in S /\ y < x
      /\ \A x : x \in page <=> x \in S /\ Cardinality(Below(S, x)) < n
  BY DEF Below, FirstOf
<1> HIDE DEF page
<1>1. ASSUME NEW x \in S
      PROVE  IsFiniteSet(Below(S, x)) /\ Cardinality(Below(S, x)) \in Nat
  <2>1. x \in Nat /\ IsFiniteSet(0 .. x)
    BY FS_Interval
  <2>2. Below(S, x) \subseteq 0 .. x
    <3> SUFFICES ASSUME NEW y \in Below(S, x) PROVE y \in 0 .. x
      OBVIOUS
    <3>1. y \in S /\ y < x
      BY <1>0
    <3>2. y \in Nat
      BY <3>1
    <3> QED  BY <2>1, <3>1, <3>2
  <2>3. IsFiniteSet(Below(S, x))
    BY <2>1, <2>2, FS_Subset
  <2> QED  BY <2>3, FS_CardinalityType
<1>2. ASSUME NEW x \in S \ page, NEW z \in page
      PROVE  z < x
  <2> SUFFICES ASSUME ~(z < x) PROVE FALSE
    OBVIOUS
  <2>1. x \in S /\ z \in S /\ z \in Nat /\ x \in Nat /\ z # x
    BY <1>0
  <2>2. Below(S, x) \subseteq Below(S, z)
    <3> SUFFICES ASSUME NEW y \in Below(S, x) PROVE y \in Below(S, z)
      OBVIOUS
    <3>1. y \in S /\ y < x
      BY <1>0
    <3>2. y \in Nat
      BY <3>1
    <3>3. y < z
      BY <2>1, <3>1, <3>2
    <3> QED  BY <1>0, <3>1, <3>3
  <2>3. Cardinality(Below(S, x)) <= Cardinality(Below(S, z))
    BY <1>1, <2>1, <2>2, FS_Subset
  <2>4. Cardinality(Below(S, z)) < n /\ ~(Cardinality(Below(S, x)) < n)
    BY <1>0
  <2> HIDE DEF page
  <2>5. Cardinality(Below(S, z)) \in Nat /\ Cardinality(Below(S, x)) \in Nat
    BY <1>1, <2>1
  <2> QED  BY <2>3, <2>4, <2>5
<1>3. PICK x \in S \ page : TRUE
  BY <1>0 DEF page
<1>4. page # {}
  <2>1. PICK l \in S : \A y \in S : l <= y
    BY <1>3, LeastNatural
  <2>2. Below(S, l) = {}
    <3> SUFFICES ASSUME NEW y \in Below(S, l) PROVE FALSE
      OBVIOUS
    <3>1. y \in S /\ y < l
      BY <1>0
    <3>2. y \in Nat /\ l \in Nat /\ l <= y
      BY <2>1, <3>1
    <3> QED  BY <3>1, <3>2
  <2>3. Cardinality(Below(S, l)) = 0
    BY <2>2, FS_EmptySet
  <2>4. l \in page
    BY <1>0, <2>3
  <2> QED  BY <2>4
<1>5. IsFiniteSet(page) /\ page \subseteq Int
  <2>1. x \in Nat /\ \A z \in page : z \in Nat /\ z < x
    BY <1>0, <1>2
  <2>2. page \subseteq 0 .. x
    BY <2>1
  <2>3. IsFiniteSet(0 .. x)
    BY <2>1, FS_Interval
  <2>4. IsFiniteSet(page)
    BY <2>2, <2>3, FS_Subset
  <2> QED  BY <2>1, <2>4
<1>6. Max(page) \in page
  BY <1>4, <1>5, GreatestOf
<1> QED  BY <1>2, <1>6 DEF page

(* The lists of a scope come to each of its markets, and to the events.    *)
LEMMA ListsAre ==
    ASSUME NEW scope \in Scope
    PROVE  /\ Lists(scope) \in Seq(List) /\ Lists(scope) # <<>>
           /\ \A i \in DOMAIN Lists(scope) : Lists(scope)[i].kind = "markets" =>
                  Lists(scope)[i].of \subseteq InScope(scope)
           /\ \A m \in InScope(scope) : \E i \in DOMAIN Lists(scope) :
                  Lists(scope)[i].kind = "markets" /\ m \in Lists(scope)[i].of
           /\ \E i \in DOMAIN Lists(scope) : Lists(scope)[i].kind = "events"
<1>1. \A of \in SUBSET Market, whole \in BOOLEAN :
         /\ Markets(of, whole) \in List /\ Markets(of, whole).kind = "markets"
         /\ Markets(of, whole).of = of
  BY DiscoveryAssumption DEF Markets, List
<1>2. AllEvents \in List /\ AllEvents.kind = "events"
  BY DiscoveryAssumption DEF AllEvents, List
<1>3. CASE scope = "all"
  <2> DEFINE all == Markets(Market, TRUE)
             s == <<all, AllEvents>>
  <2>1. Lists(scope) = s /\ InScope(scope) = Market
    BY <1>3 DEF Lists, InScope
  <2>2. all \in List /\ all.kind = "markets" /\ all.of = Market
    BY <1>1
  <2> HIDE DEF all
  <2>3. s \in Seq(List) /\ s # <<>> /\ DOMAIN s = 1 .. 2 /\ s[1] = all /\ s[2] = AllEvents
    BY <1>2, <2>2
  <2> HIDE DEF s
  <2>4. 1 \in DOMAIN s /\ 2 \in DOMAIN s /\ \A i \in DOMAIN s : i = 1 \/ i = 2
    BY <2>3
  <2>5. /\ \A i \in DOMAIN s : s[i].kind = "markets" => s[i].of \subseteq Market
        /\ \A m \in Market : \E i \in DOMAIN s : s[i].kind = "markets" /\ m \in s[i].of
        /\ \E i \in DOMAIN s : s[i].kind = "events"
    BY <1>2, <2>2, <2>3, <2>4
  <2> QED  BY <2>1, <2>3, <2>5
<1>4. CASE scope # "all"
  <2> DEFINE order == InOrder(SeriesEvents)
             n == Cardinality(SeriesEvents)
             of(i) == {m \in Market : EventOf[m] = order[i]}
             s == [i \in DOMAIN order |-> Markets(of(i), FALSE)]
             t == <<AllEvents>>
  <2>1. Lists(scope) = s \o t /\ InScope(scope) = {m \in Market : EventOf[m] \in SeriesEvents}
    BY <1>4 DEF Lists, InScope
  <2>2. /\ n \in Nat /\ order \in [1 .. n -> SeriesEvents]
        /\ \A x \in SeriesEvents : \E k \in 1 .. n : order[k] = x
    <3>1. SeriesEvents \subseteq Int
      BY DiscoveryAssumption
    <3> QED  BY <3>1, DiscoveryAssumption, InOrderIs
  <2> HIDE DEF order, n
  <2>3. \A i \in 1 .. n : /\ s[i] \in List /\ s[i].kind = "markets" /\ s[i].of = of(i)
                          /\ of(i) \subseteq InScope(scope)
    BY <1>1, <2>1, <2>2
  <2>4. s \in Seq(List) /\ DOMAIN s = 1 .. n
    <3>1. DOMAIN order = 1 .. n
      BY <2>2
    <3>2. s = [i \in 1 .. n |-> s[i]]
      BY <3>1
    <3> HIDE DEF s
    <3> QED  BY <2>2, <2>3, <3>2
  <2>5. t \in Seq(List) /\ DOMAIN t = 1 .. 1 /\ t[1] = AllEvents
    BY <1>2
  <2> HIDE DEF s, t
  <2> DEFINE u == s \o t
  <2>6. /\ u \in Seq(List) /\ Len(u) = Len(s) + Len(t) /\ Len(s) \in Nat /\ Len(t) \in Nat
        /\ \A i \in DOMAIN s : i \in DOMAIN u /\ u[i] = s[i]
        /\ \A i \in DOMAIN t : Len(s) + i \in DOMAIN u /\ u[Len(s) + i] = t[i]
        /\ \A x \in DOMAIN u : x \in DOMAIN s \/ \E i \in DOMAIN t : x = Len(s) + i
    <3> HIDE DEF u
    <3>1. u = s \o t
      BY DEF u
    <3>2. s \in Seq(List) /\ t \in Seq(List)
      BY <2>4, <2>5
    <3> QED  BY ONLY <3>1, <3>2, ConcatIs
  <2> HIDE DEF u
  <2>7. /\ Len(s) + 1 \in DOMAIN u /\ u[Len(s) + 1].kind = "events"
        /\ \A x \in DOMAIN u : (x \in DOMAIN s /\ u[x] = s[x]) \/ u[x] = AllEvents
    BY <1>2, <2>5, <2>6
  <2>8. u # <<>>
    BY <2>7
  <2>9. \A i \in DOMAIN u : u[i].kind = "markets" => u[i].of \subseteq InScope(scope)
    BY <1>2, <2>3, <2>4, <2>7
  <2>10. ASSUME NEW m \in InScope(scope)
         PROVE  \E i \in DOMAIN u : u[i].kind = "markets" /\ m \in u[i].of
    <3>1. PICK k \in 1 .. n : order[k] = EventOf[m]
      BY <2>1, <2>2
    <3>2. m \in of(k)
      BY <2>1, <3>1
    <3> QED  BY <2>3, <2>4, <2>6, <3>2
  <2> QED  BY <2>1, <2>6, <2>7, <2>8, <2>9, <2>10 DEF u
<1> QED  BY <1>3, <1>4

(* Answering a page: the start goes on with the next, ends the list, or    *)
(* fails; what the page brought is read, and what is left comes later.     *)
LEMMA JobIs ==
    ASSUME ShapesOK, NEW p \in Process, job[p].at # "idle"
    PROVE  /\ job[p] \in StartOf(Under \cup {"done"})
           /\ job[p].todo \in Seq(List) /\ job[p].cursor \in Nat /\ job[p].scope \in Scope
           /\ job[p].since \in 0 .. now /\ job[p].age \in {0, MaxAge}
           /\ job[p].markets \subseteq Nat /\ job[p].events \subseteq Nat
<1>1. job[p] \in StartOf(Under \cup {"done"}) \cup {Idle}
  BY DEF ShapesOK
<1>2. job[p] \in StartOf(Under \cup {"done"})
  BY <1>1 DEF Idle
<1> QED  BY <1>2 DEF StartOf

LEMMA HereIs ==
    ASSUME ShapesOK, NEW p \in Process, JobOK(job[p]), Fetching(p)
    PROVE  /\ job[p].todo \in Seq(List) /\ 1 \in DOMAIN job[p].todo
           /\ Here(p) = job[p].todo[1] /\ Here(p) \in List
           /\ Listing(Here(p)) \subseteq Nat /\ Ahead(p) \subseteq Nat
           /\ Here(p).kind = "events" => Listing(Here(p)) = {EventOf[m] : m \in open}
           /\ Here(p).kind = "markets" =>
                 /\ Here(p).of \subseteq InScope(job[p].scope)
                 /\ Listing(Here(p)) \subseteq Here(p).of
                 /\ \A m \in open : m \in Here(p).of => m \in Listing(Here(p))
           /\ \A x : x \in Ahead(p) <=> x \in Listing(Here(p)) /\ x > job[p].cursor
<1> DEFINE t == job[p].todo
<1>1. job[p].at = "fetching"
  BY DEF Fetching
<1>2. t \in Seq(List) /\ t # <<>>
  BY <1>1, JobIs DEF JobOK, Under
<1> HIDE DEF t
<1>3. 1 \in DOMAIN t /\ Head(t) = t[1] /\ t[1] \in List
  BY <1>2
<1>4. Here(p) = t[1]
  BY <1>3 DEF Here, t
<1>5. open \subseteq Market /\ \A m \in open : EventOf[m] \in Nat
  BY DiscoveryAssumption, OpenIs
<1>6. Here(p).kind = "events" => Listing(Here(p)) = {EventOf[m] : m \in open}
  BY DEF Listing, OpenEvents
<1>7. ASSUME Here(p).kind = "markets"
      PROVE  /\ Here(p).of \subseteq InScope(job[p].scope) /\ Here(p).of \subseteq Nat
             /\ Listing(Here(p)) \subseteq Here(p).of
             /\ \A m \in open : m \in Here(p).of => m \in Listing(Here(p))
  <2>1. Here(p).of \subseteq InScope(job[p].scope)
    BY <1>1, <1>3, <1>4, <1>7 DEF JobOK, Under, t
  <2>2. Here(p).of \subseteq Nat
    BY <1>3, <1>4 DEF List
  <2>3. Listing(Here(p)) \in {Here(p).of, Here(p).of \cap open}
    BY <1>7 DEF Listing
  <2> QED  BY <2>1, <2>2, <2>3
<1>8. Here(p).kind \in {"markets", "events"}
  BY <1>3, <1>4 DEF List
<1>9. Listing(Here(p)) \subseteq Nat
  BY <1>5, <1>6, <1>7, <1>8
<1>10. \A x : x \in Ahead(p) <=> x \in Listing(Here(p)) /\ x > job[p].cursor
  BY DEF Ahead
<1> QED  BY <1>2, <1>3, <1>4, <1>6, <1>7, <1>9, <1>10 DEF t

(* What a page brings: all that is ahead, or everything up to its last.    *)
LEMMA PageIs ==
    ASSUME ShapesOK, NEW p \in Process, JobOK(job[p]), Fetching(p)
    PROVE  /\ Page(p) \subseteq Ahead(p)
           /\ Ahead(p) # Page(p) =>
                 /\ Max(Page(p)) \in Page(p) /\ Max(Page(p)) \in Nat
                 /\ \A x \in Ahead(p) : x \in Page(p) \/ Max(Page(p)) < x
<1> DEFINE S == Ahead(p)
<1>1. S \subseteq Nat
  BY HereIs
<1>2. Page(p) = FirstOf(S, PageSize)
  BY DEF Page, FirstOf, Below
<1> HIDE DEF S
<1>3. PageSize \in Nat \ {0}
  BY DiscoveryAssumption
<1>4. FirstOf(S, PageSize) \subseteq S
  BY DEF FirstOf
<1>5. ASSUME S # FirstOf(S, PageSize)
      PROVE  /\ Max(FirstOf(S, PageSize)) \in FirstOf(S, PageSize)
             /\ \A x \in S \ FirstOf(S, PageSize) : Max(FirstOf(S, PageSize)) < x
  BY <1>1, <1>3, <1>5, FirstOnes
<1> QED  BY <1>1, <1>2, <1>4, <1>5 DEF S

(* What is read after a page of a list.                                    *)
Read(p) ==
    [job[p] EXCEPT !.markets = IF Here(p).kind = "events" THEN @ ELSE @ \cup Retained(Page(p)),
                   !.events  = IF Here(p).kind = "events" THEN @ \cup Page(p) ELSE @,
                   !.pages   = @ + 1]

LEMMA AnswerIs ==
    ASSUME ShapesOK, NEW p \in Process, JobOK(job[p]), Answer(p)
    PROVE  /\ Fetching(p) /\ UNCHANGED <<venueVars, cache, starts>>
           /\ \/ /\ Ahead(p) = Page(p) /\ job' = [job EXCEPT ![p] = NextList(Read(p))]
              \/ /\ Ahead(p) # Page(p)
                 /\ job' = [job EXCEPT ![p] = [Read(p) EXCEPT !.cursor = Max(Page(p)),
                                                             !.seen = @ \cup {Max(Page(p))}]]
              \/ job' = [job EXCEPT ![p] = Idle]
<1> DEFINE page == Page(p)
           more == Ahead(p) # page
           read == IF Here(p).kind = "events"
                   THEN [job[p] EXCEPT !.events = @ \cup page, !.pages = @ + 1]
                   ELSE [job[p] EXCEPT !.markets = @ \cup Retained(page), !.pages = @ + 1]
           next == After(Here(p), read.pages, more)
<1>1. /\ Fetching(p) /\ UNCHANGED <<venueVars, cache, starts>>
      /\ job' = [job EXCEPT ![p] =
              IF next = "end" THEN NextList(read)
              ELSE IF next = "next" THEN [read EXCEPT !.cursor = Max(page),
                                                      !.seen = @ \cup {Max(page)}]
              ELSE Idle]
  BY DEF Answer
<1>2. read = Read(p)
  <2> DEFINE j == job[p]
  <2>1. j \in StartOf(Under \cup {"done"})
    BY <1>1, JobIs DEF Fetching
  <2>2. j = [at |-> j.at, scope |-> j.scope, age |-> j.age, since |-> j.since, todo |-> j.todo,
             cursor |-> j.cursor, seen |-> j.seen, pages |-> j.pages, markets |-> j.markets,
             events |-> j.events, alone |-> j.alone, again |-> j.again]
    BY <2>1 DEF StartOf
  <2> HIDE DEF j
  <2>3. CASE Here(p).kind = "events"
    BY <2>2, <2>3 DEF Read, j
  <2>4. CASE Here(p).kind # "events"
    BY <2>2, <2>4 DEF Read, j
  <2> QED  BY <2>3, <2>4
<1>3. /\ next \in {"end", "fail", "next"} /\ (next = "end" => ~more) /\ (next = "next" => more)
  BY DEF After
<1> HIDE DEF read, next
<1> QED  BY <1>1, <1>2, <1>3

(* A start after a page, with a cursor, and at the end of a list.          *)
LEMMA StartFields ==
    ASSUME NEW S, NEW j \in StartOf(S)
    PROVE  /\ j.at \in S /\ j.scope \in Scope /\ j.age \in {0, MaxAge} /\ j.since \in 0 .. now
           /\ j.todo \in Seq(List) /\ j.cursor \in Nat /\ j.seen \in SUBSET Nat /\ j.pages \in Nat
           /\ j.markets \in SUBSET Nat /\ j.events \in SUBSET Nat
BY DEF StartOf

LEMMA ListEnded ==
    ASSUME NEW S, NEW j \in StartOf(S), Tail(j.todo) \in Seq(List)
    PROVE  LET r == NextList(j)
           IN  /\ r \in StartOf({"save", "fetching"})
               /\ r.at = (IF Len(j.todo) = 1 THEN "save" ELSE "fetching")
               /\ r.scope = j.scope /\ r.since = j.since /\ r.todo = Tail(j.todo)
               /\ r.cursor = 0 /\ r.markets = j.markets /\ r.events = j.events
<1> DEFINE at == IF Len(j.todo) = 1 THEN "save" ELSE "fetching"
           t  == Tail(j.todo)
           r  == [j EXCEPT !.at = at, !.todo = t, !.cursor = 0, !.seen = {}, !.pages = 0]
<1>1. NextList(j) = r
  BY DEF NextList
<1>2. at \in {"save", "fetching"}
  OBVIOUS
<1> HIDE DEF at, t
<1>3. r \in StartOf({"save", "fetching"})
  BY <1>2 DEF StartOf, t
<1>4. /\ r.at = at /\ r.scope = j.scope /\ r.since = j.since /\ r.todo = t
      /\ r.cursor = 0 /\ r.markets = j.markets /\ r.events = j.events
  BY DEF StartOf
<1> QED  BY <1>1, <1>3, <1>4 DEF at, t

LEMMA TailIs ==
    ASSUME NEW T, NEW s \in Seq(T), s # <<>>
    PROVE  /\ Tail(s) \in Seq(T) /\ (Len(s) = 1 <=> Tail(s) = <<>>)
           /\ \A i \in DOMAIN Tail(s) : i + 1 \in DOMAIN s /\ Tail(s)[i] = s[i + 1]
           /\ \A i \in DOMAIN s : i # 1 => i - 1 \in DOMAIN Tail(s) /\ Tail(s)[i - 1] = s[i]
<1>1. Len(s) \in Nat \ {0} /\ DOMAIN s = 1 .. Len(s)
  OBVIOUS
<1>2. /\ Tail(s) \in Seq(T) /\ Len(Tail(s)) = Len(s) - 1
      /\ \A i \in 1 .. Len(s) - 1 : Tail(s)[i] = s[i + 1]
  OBVIOUS
<1>3. DOMAIN Tail(s) = 1 .. Len(s) - 1
  BY <1>1, <1>2
<1>4. Len(s) = 1 <=> Tail(s) = <<>>
  BY <1>1, <1>2
<1>5. \A i \in DOMAIN Tail(s) : i + 1 \in DOMAIN s /\ Tail(s)[i] = s[i + 1]
  BY <1>1, <1>2, <1>3
<1>6. ASSUME NEW i \in DOMAIN s, i # 1
      PROVE  i - 1 \in DOMAIN Tail(s) /\ Tail(s)[i - 1] = s[i]
  <2>1. i - 1 \in 1 .. Len(s) - 1 /\ (i - 1) + 1 = i
    BY <1>1, <1>6
  <2> QED  BY <1>2, <1>3, <2>1
<1> QED  BY <1>2, <1>4, <1>5, <1>6

(* After a page, whatever was coming has been read, is further down the    *)
(* list, or is in a list still to come.                                    *)
Later(p, kind, x) ==
    \E i \in DOMAIN job[p].todo : /\ i # 1 /\ job[p].todo[i].kind = kind
                                  /\ kind = "markets" => x \in job[p].todo[i].of

LEMMA ReadIs ==
    ASSUME ShapesOK, NEW p \in Process, JobOK(job[p]), Fetching(p)
    PROVE  LET j == job[p]
               r == Read(p)
               left(kind, x) == Here(p).kind = kind /\ x \in Ahead(p) \ Page(p)
                                /\ (kind = "markets" => x \in Here(p).of)
           IN  /\ r \in StartOf({"fetching"})
               /\ r.scope = j.scope /\ r.since = j.since /\ r.todo = j.todo /\ r.cursor = j.cursor
               /\ WasOpen(r.markets, j.scope, j.since)
               /\ \A m \in open : m \in InScope(j.scope) /\ since[m] < j.since =>
                    /\ m \in Matching => m \in r.markets \/ left("markets", m) \/ Later(p, "markets", m)
                    /\ EventOf[m] \in r.events \/ left("events", EventOf[m])
                                               \/ Later(p, "events", EventOf[m])
<1> DEFINE j == job[p]
           r == Read(p)
           page == Page(p)
           left(kind, x) == Here(p).kind = kind /\ x \in Ahead(p) \ page
                            /\ (kind = "markets" => x \in Here(p).of)
<1>1. j \in StartOf(Under \cup {"done"}) /\ j.at = "fetching"
  BY JobIs DEF Fetching
<1>2. /\ j.scope \in Scope /\ j.todo \in Seq(List) /\ j.pages \in Nat
      /\ j.markets \in SUBSET Nat /\ j.events \in SUBSET Nat
  BY <1>1, StartFields
<1>3. /\ 1 \in DOMAIN j.todo /\ Here(p) = j.todo[1] /\ Here(p) \in List
      /\ Ahead(p) \subseteq Nat
      /\ Here(p).kind = "events" => Listing(Here(p)) = {EventOf[m] : m \in open}
      /\ Here(p).kind = "markets" =>
            /\ Here(p).of \subseteq InScope(j.scope)
            /\ Listing(Here(p)) \subseteq Here(p).of
            /\ \A m \in open : m \in Here(p).of => m \in Listing(Here(p))
      /\ \A x : x \in Ahead(p) <=> x \in Listing(Here(p)) /\ x > j.cursor
  BY HereIs
<1>4. page \subseteq Ahead(p)
  BY PageIs
<1>5. Here(p).kind \in {"markets", "events"}
  BY <1>3 DEF List
<1>6. ReadOrComing(j) /\ WasOpen(j.markets, j.scope, j.since)
  BY <1>1 DEF JobOK, Under
<1> DEFINE ms == IF Here(p).kind = "events" THEN j.markets ELSE j.markets \cup Retained(page)
           es == IF Here(p).kind = "events" THEN j.events \cup page ELSE j.events
<1>7. r = [j EXCEPT !.markets = ms, !.events = es, !.pages = j.pages + 1]
  BY DEF Read
<1> HIDE DEF j, page, r
<1>8. ms \in SUBSET Nat /\ es \in SUBSET Nat /\ j.pages + 1 \in Nat
  <2>1. page \subseteq Nat /\ Retained(page) \subseteq Nat
    BY <1>3, <1>4 DEF Retained
  <2>2. ms \in {j.markets, j.markets \cup Retained(page)} /\ es \in {j.events, j.events \cup page}
    OBVIOUS
  <2> HIDE DEF ms, es
  <2>3. j.markets \subseteq Nat /\ j.events \subseteq Nat /\ j.pages + 1 \in Nat
    BY <1>2
  <2>4. ms \subseteq Nat
    BY <2>1, <2>2, <2>3
  <2>5. es \subseteq Nat
    BY <2>1, <2>2, <2>3
  <2> QED  BY <2>3, <2>4, <2>5
<1>9. /\ r \in StartOf({"fetching"})
      /\ r.scope = j.scope /\ r.since = j.since /\ r.todo = j.todo /\ r.cursor = j.cursor
      /\ r.markets = ms /\ r.events = es
  <2>1. j \in StartOf({"fetching"})
    BY <1>1 DEF StartOf
  <2> HIDE DEF ms, es
  <2> QED  BY ONLY <1>7, <1>8, <2>1 DEF StartOf
<1>10. WasOpen(r.markets, j.scope, j.since)
  <2>1. Here(p).kind # "events" => \A m \in Retained(page) : m \in InScope(j.scope) /\ m \in open
    BY <1>3, <1>4, <1>5, OpenIs DEF Retained
  <2> QED  BY <1>6, <1>9, <2>1 DEF WasOpen
<1>11. ASSUME NEW m \in open, m \in InScope(j.scope), since[m] < j.since
       PROVE  /\ m \in Matching => m \in r.markets \/ left("markets", m) \/ Later(p, "markets", m)
              /\ EventOf[m] \in r.events \/ left("events", EventOf[m]) \/ Later(p, "events", EventOf[m])
  <2>1. /\ m \in Matching => m \in j.markets \/ ComesTo(j, "markets", m)
        /\ EventOf[m] \in j.events \/ ComesTo(j, "events", EventOf[m])
    BY <1>6, <1>11 DEF ReadOrComing
  <2>2. ASSUME m \in Matching
        PROVE  m \in r.markets \/ left("markets", m) \/ Later(p, "markets", m)
    <3>1. CASE m \in j.markets
      BY <1>9, <3>1
    <3>2. CASE ComesTo(j, "markets", m)
      <4>1. PICK i \in DOMAIN j.todo : /\ j.todo[i].kind = "markets" /\ m \in j.todo[i].of
                                       /\ i = 1 => m > j.cursor
        BY <3>2 DEF ComesTo
      <4>2. CASE i = 1
        <5>1. Here(p).kind = "markets" /\ m \in Ahead(p) /\ m \in Here(p).of
          BY <1>3, <4>1, <4>2
        <5>2. m \in page => m \in r.markets
          BY <1>9, <2>2, <5>1 DEF Retained
        <5> QED  BY <5>1, <5>2
      <4>3. CASE i # 1
        BY <4>1, <4>3 DEF Later, j
      <4> QED  BY <4>2, <4>3
    <3> QED  BY <2>1, <2>2, <3>1, <3>2
  <2>3. EventOf[m] \in r.events \/ left("events", EventOf[m]) \/ Later(p, "events", EventOf[m])
    <3> DEFINE e == EventOf[m]
    <3>1. CASE e \in j.events
      BY <1>9, <3>1
    <3>2. CASE ComesTo(j, "events", e)
      <4>1. PICK i \in DOMAIN j.todo : j.todo[i].kind = "events" /\ (i = 1 => e > j.cursor)
        BY <3>2 DEF ComesTo
      <4>2. CASE i = 1
        <5>1. Here(p).kind = "events" /\ e \in Ahead(p)
          BY <1>3, <4>1, <4>2
        <5>2. e \in page => e \in r.events
          BY <1>9, <5>1
        <5> QED  BY <5>1, <5>2
      <4>3. CASE i # 1
        BY <4>1, <4>3 DEF Later, j
      <4> QED  BY <4>2, <4>3
    <3> QED  BY <2>1, <3>1, <3>2
  <2> QED  BY <2>2, <2>3
<1> QED  BY <1>9, <1>10, <1>11 DEF j, r, page

(* A list read to its end, and one that goes on.                           *)
LEMMA AnswerKeeps ==
    ASSUME ShapesOK, NEW p \in Process, JobOK(job[p]), Answer(p)
    PROVE  /\ UNCHANGED <<venueVars, cache, starts>>
           /\ \E k : /\ job' = [job EXCEPT ![p] = k]
                     /\ k \in StartOf(Under) \cup {Idle} /\ JobOK(k)
<1> DEFINE j == job[p]
           r == Read(p)
           page == Page(p)
           left(kind, x) == Here(p).kind = kind /\ x \in Ahead(p) \ page
                            /\ (kind = "markets" => x \in Here(p).of)
<1>1. /\ Fetching(p) /\ UNCHANGED <<venueVars, cache, starts>>
      /\ \/ Ahead(p) = page /\ job' = [job EXCEPT ![p] = NextList(r)]
         \/ /\ Ahead(p) # page
            /\ job' = [job EXCEPT ![p] = [r EXCEPT !.cursor = Max(page),
                                                   !.seen = @ \cup {Max(page)}]]
         \/ job' = [job EXCEPT ![p] = Idle]
  BY AnswerIs
<1>2. /\ r \in StartOf({"fetching"})
      /\ r.scope = j.scope /\ r.since = j.since /\ r.todo = j.todo /\ r.cursor = j.cursor
      /\ WasOpen(r.markets, j.scope, j.since)
      /\ \A m \in open : m \in InScope(j.scope) /\ since[m] < j.since =>
            /\ m \in Matching => m \in r.markets \/ left("markets", m) \/ Later(p, "markets", m)
            /\ EventOf[m] \in r.events \/ left("events", EventOf[m]) \/ Later(p, "events", EventOf[m])
  BY <1>1, ReadIs
<1>3. /\ j.todo \in Seq(List) /\ 1 \in DOMAIN j.todo /\ Here(p) = j.todo[1]
      /\ \A i \in DOMAIN j.todo : j.todo[i].kind = "markets" => j.todo[i].of \subseteq InScope(j.scope)
  BY <1>1, HereIs DEF JobOK, Fetching, Under
<1>4. /\ page \subseteq Ahead(p)
      /\ Ahead(p) # page => /\ Max(page) \in page /\ Max(page) \in Nat
                            /\ \A x \in Ahead(p) : x \in page \/ Max(page) < x
  BY <1>1, PageIs
<1>5. r.seen \in SUBSET Nat
  BY <1>2, StartFields
<1>6. open \subseteq Market /\ \A m \in open : m > 0 /\ EventOf[m] > 0
  <2>1. open \subseteq Market
    BY OpenIs
  <2>2. \A m \in Market : m > 0 /\ EventOf[m] > 0
    BY DiscoveryAssumption
  <2> QED  BY <2>1, <2>2
<1> HIDE DEF j, r, page
<1>7. ASSUME Ahead(p) = page
      PROVE  NextList(r) \in StartOf(Under) /\ JobOK(NextList(r))
  <2> DEFINE n == NextList(r)
             t == Tail(r.todo)
  <2>1. r.todo \in Seq(List) /\ r.todo # <<>>
    BY <1>2, <1>3
  <2>2. /\ t \in Seq(List) /\ (Len(r.todo) = 1 <=> t = <<>>)
        /\ \A i \in DOMAIN t : i + 1 \in DOMAIN r.todo /\ t[i] = r.todo[i + 1]
        /\ \A i \in DOMAIN r.todo : i # 1 => i - 1 \in DOMAIN t /\ t[i - 1] = r.todo[i]
    BY <2>1, TailIs
  <2>3. /\ n \in StartOf({"save", "fetching"})
        /\ n.at = (IF Len(r.todo) = 1 THEN "save" ELSE "fetching")
        /\ n.scope = r.scope /\ n.since = r.since /\ n.todo = t
        /\ n.cursor = 0 /\ n.markets = r.markets /\ n.events = r.events
    BY <1>2, <2>2, ListEnded
  <2> HIDE DEF n, t
  <2>4. /\ n \in StartOf(Under)
        /\ n.at \in Under /\ (n.at # "fetching" <=> n.todo = <<>>) /\ n.todo = t
        /\ n.scope = j.scope /\ n.since = j.since /\ n.cursor = 0
        /\ n.markets = r.markets /\ n.events = r.events
    <3>1. n \in StartOf(Under)
      BY <2>3 DEF StartOf, Under
    <3> QED  BY <1>2, <2>2, <2>3, <3>1 DEF Under
  <2>5. \A i \in DOMAIN n.todo : n.todo[i].kind = "markets" => n.todo[i].of \subseteq InScope(n.scope)
    BY <1>2, <1>3, <2>2, <2>4
  <2>6. ASSUME NEW kind, NEW x, x > 0, Later(p, kind, x)
        PROVE  ComesTo(n, kind, x)
    <3>1. PICK i \in DOMAIN r.todo : i # 1 /\ r.todo[i].kind = kind
                                     /\ (kind = "markets" => x \in r.todo[i].of)
      BY <1>2, <2>6 DEF Later, j
    <3>2. i - 1 \in DOMAIN n.todo /\ n.todo[i - 1] = r.todo[i]
      BY <2>2, <2>4, <3>1
    <3> QED  BY <2>4, <2>6, <3>1, <3>2 DEF ComesTo
  <2>7. ReadOrComing(n)
    <3> SUFFICES ASSUME NEW m \in open, m \in InScope(j.scope), since[m] < j.since
                 PROVE  /\ m \in Matching => m \in n.markets \/ ComesTo(n, "markets", m)
                        /\ EventOf[m] \in n.events \/ ComesTo(n, "events", EventOf[m])
      BY <2>4 DEF ReadOrComing
    <3>1. /\ m \in Matching => m \in r.markets \/ Later(p, "markets", m)
          /\ EventOf[m] \in r.events \/ Later(p, "events", EventOf[m])
      BY <1>2, <1>7
    <3> QED  BY <1>6, <2>4, <2>6, <3>1
  <2>8. WasOpen(n.markets, n.scope, n.since)
    BY <1>2, <2>4
  <2> QED  BY <2>4, <2>5, <2>7, <2>8 DEF JobOK, n
<1>8. ASSUME Ahead(p) # page
      PROVE  LET n == [r EXCEPT !.cursor = Max(page), !.seen = @ \cup {Max(page)}]
             IN  n \in StartOf(Under) /\ JobOK(n)
  <2> DEFINE n == [r EXCEPT !.cursor = Max(page), !.seen = @ \cup {Max(page)}]
             c == Max(page)
  <2>0. c \in Nat /\ \A x \in Ahead(p) : x \in page \/ c < x
    BY <1>4, <1>8
  <2>1. r.seen \cup {c} \in SUBSET Nat
    BY <1>5, <2>0
  <2> HIDE DEF c
  <2>2. /\ n \in StartOf({"fetching"})
        /\ n.at = r.at /\ n.scope = r.scope /\ n.since = r.since /\ n.todo = r.todo
        /\ n.cursor = c /\ n.markets = r.markets /\ n.events = r.events
    <3>1. n = [r EXCEPT !.cursor = c, !.seen = r.seen \cup {c}]
      BY DEF c
    <3> HIDE DEF n
    <3>2. r \in StartOf({"fetching"})
      BY <1>2
    <3> QED  BY ONLY <2>0, <2>1, <3>1, <3>2 DEF StartOf
  <2> HIDE DEF n
  <2>3. n \in StartOf(Under) /\ n.at = "fetching"
    BY <2>2 DEF StartOf, Under
  <2>4. /\ n.todo = r.todo /\ n.todo # <<>> /\ n.scope = j.scope /\ n.since = j.since
        /\ n.cursor = c /\ n.markets = r.markets /\ n.events = r.events
    BY <1>2, <1>3, <2>2
  <2>5. \A i \in DOMAIN n.todo : n.todo[i].kind = "markets" => n.todo[i].of \subseteq InScope(n.scope)
    BY <1>2, <1>3, <2>4
  <2>6. ASSUME NEW kind, NEW x, left(kind, x) \/ Later(p, kind, x)
        PROVE  ComesTo(n, kind, x)
    <3>1. CASE left(kind, x)
      BY <1>2, <1>3, <2>0, <2>4, <3>1 DEF ComesTo
    <3>2. CASE Later(p, kind, x)
      BY <1>2, <2>4, <3>2 DEF ComesTo, Later, j
    <3> QED  BY <2>6, <3>1, <3>2
  <2>7. ReadOrComing(n)
    <3> SUFFICES ASSUME NEW m \in open, m \in InScope(j.scope), since[m] < j.since
                 PROVE  /\ m \in Matching => m \in n.markets \/ ComesTo(n, "markets", m)
                        /\ EventOf[m] \in n.events \/ ComesTo(n, "events", EventOf[m])
      BY <2>4 DEF ReadOrComing
    <3>1. /\ m \in Matching => m \in r.markets \/ left("markets", m) \/ Later(p, "markets", m)
          /\ EventOf[m] \in r.events \/ left("events", EventOf[m]) \/ Later(p, "events", EventOf[m])
      BY <1>2
    <3> HIDE DEF left
    <3> QED  BY <2>4, <2>6, <3>1
  <2>8. WasOpen(n.markets, n.scope, n.since)
    BY <1>2, <2>4
  <2>9. n \in StartOf(Under) /\ JobOK(n)
    BY <2>3, <2>4, <2>5, <2>7, <2>8 DEF JobOK
  <2> QED  BY <2>9 DEF n
<1>9. JobOK(Idle)
  BY DEF JobOK, Idle, Under
<1> HIDE DEF left
<1> QED  BY <1>1, <1>7, <1>8, <1>9

Files == Snapshots \cup {Missing, Torn}
Jobs  == StartOf(Under \cup {"done"}) \cup {Idle}

(* What was sound stays so while the venue stands still.                   *)
LEMMA StillSound ==
    ASSUME UNCHANGED venueVars
    PROVE  /\ Files' = Files /\ Jobs' = Jobs
           /\ \A p \in Process : JobOK(job'[p]) => JobOK(job[p])'
           /\ \A s \in Scope : FileOK(cache'[PathFor(s)], s) => FileOK(cache[PathFor(s)], s)'
<1>1. now' = now /\ status' = status /\ open' = open /\ Matching' = Matching /\ since' = since
  BY OpenIs DEF venueVars
<1>2. Files' = Files /\ Jobs' = Jobs
  BY <1>1 DEF Files, Jobs, Snapshots, StartOf
<1>3. ASSUME NEW p \in Process, JobOK(job'[p])
      PROVE  JobOK(job[p])'
  BY <1>1, <1>3 DEF JobOK, ReadOrComing, ComesTo, WasOpen
<1>4. ASSUME NEW s \in Scope, FileOK(cache'[PathFor(s)], s)
      PROVE  FileOK(cache[PathFor(s)], s)'
  BY <1>1, <1>4 DEF FileOK, WasOpen, Readable
<1> QED  BY <1>2, <1>3, <1>4

(* A step of a start: sound jobs, and at most one file written, soundly.   *)
LEMMA StartsKeep ==
    ASSUME SnapshotInv, UNCHANGED venueVars,
           job' \in [Process -> Jobs], \A p \in Process : JobOK(job'[p]),
           NEW s \in Scope, NEW f \in Files, FileOK(f, s),
           cache' \in {cache, [cache EXCEPT ![PathFor(s)] = f]}
    PROVE  SnapshotInv'
<1>1. /\ Files' = Files /\ Jobs' = Jobs
      /\ \A p \in Process : JobOK(job'[p]) => JobOK(job[p])'
      /\ \A t \in Scope : FileOK(cache'[PathFor(t)], t) => FileOK(cache[PathFor(t)], t)'
  BY StillSound
<1>2. now' = now /\ status' = status /\ open' = open /\ Matching' = Matching /\ since' = since
  BY OpenIs DEF venueVars
<1>3. ShapesOK /\ \A t \in Scope : FileOK(cache[PathFor(t)], t)
  BY DEF SnapshotInv
<1> DEFINE paths == {PathFor(t) : t \in Scope}
<1>4. cache \in [paths -> Files]
  BY <1>3 DEF ShapesOK, Files
<1>5. cache' \in [paths -> Files]
  BY <1>4
<1>6. ASSUME NEW t \in Scope
      PROVE  FileOK(cache'[PathFor(t)], t)
  <2>1. PathFor(t) \in paths /\ (PathFor(t) = PathFor(s) => t = s)
    BY PathsDiffer
  <2>2. cache'[PathFor(t)] = cache[PathFor(t)] \/ (t = s /\ cache'[PathFor(t)] = f)
    BY <1>4, <2>1
  <2> HIDE DEF paths
  <2> QED  BY <1>3, <2>2
<1>7. ShapesOK'
  <2>1. now' \in Nat /\ now' <= MaxNow /\ status' \in [Market -> Status] /\ since' \in [Market -> 0 .. now']
    BY <1>2, <1>3 DEF ShapesOK
  <2>2. cache' \in [paths -> Files'] /\ job' \in [Process -> Jobs']
    BY <1>1, <1>5
  <2> QED  BY <2>1, <2>2 DEF ShapesOK, Files, Jobs
<1> QED  BY <1>1, <1>6, <1>7 DEF SnapshotInv

(* A step that puts one start into a sound state, and writes no file.      *)
LEMMA OneStart ==
    ASSUME SnapshotInv, UNCHANGED venueVars, NEW p \in Process, NEW k \in Jobs, JobOK(k),
           job' = [job EXCEPT ![p] = k]
    PROVE  job' \in [Process -> Jobs] /\ \A q \in Process : JobOK(job'[q])
<1>1. job \in [Process -> Jobs] /\ \A q \in Process : JobOK(job[q])
  BY DEF SnapshotInv, ShapesOK, Jobs
<1>2. \A q \in Process : job'[q] = IF q = p THEN k ELSE job[q]
  BY <1>1
<1> QED  BY <1>1, <1>2

LEMMA Harmless ==
    /\ JobOK(Idle) /\ Idle \in Jobs /\ Torn \in Files /\ Missing \in Files
    /\ \A s \in Scope : FileOK(Torn, s) /\ FileOK(Missing, s)
    /\ "all" \in Scope
BY DEF JobOK, Idle, Under, Jobs, Files, Torn, Missing, FileOK, Readable, Scope

LEMMA SnapshotInit == Init => SnapshotInv
<1> SUFFICES ASSUME Init PROVE SnapshotInv
  OBVIOUS
<1>1. /\ now = 0 /\ status \in [Market -> Status] /\ since = [m \in Market |-> 0]
      /\ cache = [path \in {PathFor(s) : s \in Scope} |-> Missing]
      /\ job = [p \in Process |-> Idle]
  BY DiscoveryAssumption DEF Init
<1>2. ShapesOK
  <2>1. MaxNow \in Nat
    BY DiscoveryAssumption
  <2>2. cache \in [{PathFor(s) : s \in Scope} -> Files] /\ job \in [Process -> Jobs]
    BY <1>1, Harmless
  <2> QED  BY <1>1, <2>1, <2>2 DEF ShapesOK, Files, Jobs
<1>3. \A p \in Process : JobOK(job[p])
  BY <1>1, Harmless
<1>4. \A s \in Scope : FileOK(cache[PathFor(s)], s)
  BY <1>1, Harmless
<1> QED  BY <1>2, <1>3, <1>4 DEF SnapshotInv

(* A fetch that begins has all of its scope before it.                     *)
LEMMA NewJobSound ==
    ASSUME ShapesOK, NEW scope \in Scope, NEW age \in {0, MaxAge}
    PROVE  /\ NewJob(scope, age) \in StartOf({"fetching"}) /\ JobOK(NewJob(scope, age))
           /\ NewJob(scope, age).scope = scope /\ NewJob(scope, age).age = age
           /\ NewJob(scope, age).since = now
<1> DEFINE n == NewJob(scope, age)
           t == Lists(scope)
<1>1. /\ t \in Seq(List) /\ t # <<>>
      /\ \A i \in DOMAIN t : t[i].kind = "markets" => t[i].of \subseteq InScope(scope)
      /\ \A m \in InScope(scope) : \E i \in DOMAIN t : t[i].kind = "markets" /\ m \in t[i].of
      /\ \E i \in DOMAIN t : t[i].kind = "events"
  BY ListsAre
<1>2. now \in 0 .. now
  BY DEF ShapesOK
<1>3. open \subseteq Market /\ \A m \in open : m > 0 /\ EventOf[m] > 0
  BY DiscoveryAssumption, OpenIs
<1>4. n = [at |-> "fetching", scope |-> scope, age |-> age, since |-> now, todo |-> t,
           cursor |-> 0, seen |-> {}, pages |-> 0, markets |-> {}, events |-> {},
           alone |-> TRUE, again |-> FALSE]
  BY DEF NewJob
<1> HIDE DEF t, n
<1>5. n \in StartOf({"fetching"})
  BY <1>1, <1>2, <1>4 DEF StartOf
<1>6. /\ n.at = "fetching" /\ n.scope = scope /\ n.age = age /\ n.since = now /\ n.todo = t
      /\ n.cursor = 0 /\ n.markets = {} /\ n.events = {}
  BY <1>4
<1>7. ReadOrComing(n)
  <2> SUFFICES ASSUME NEW m \in open, m \in InScope(scope)
               PROVE  ComesTo(n, "markets", m) /\ ComesTo(n, "events", EventOf[m])
    BY <1>6 DEF ReadOrComing
  <2>1. ComesTo(n, "markets", m)
    BY <1>1, <1>3, <1>6 DEF ComesTo
  <2>2. ComesTo(n, "events", EventOf[m])
    BY <1>1, <1>3, <1>6 DEF ComesTo
  <2> QED  BY <2>1, <2>2
<1>8. WasOpen(n.markets, n.scope, n.since)
  BY <1>6 DEF WasOpen
<1>9. JobOK(n)
  BY <1>1, <1>6, <1>7, <1>8 DEF JobOK
<1> QED  BY <1>5, <1>6, <1>9 DEF n

(* A start begins, with a fetch or with what a fresh file holds.           *)
LEMMA BeginIs ==
    ASSUME ShapesOK, NEW p \in Process, NEW scope \in Scope, NEW refresh \in BOOLEAN,
           Begin(p, scope, refresh)
    PROVE  /\ UNCHANGED <<venueVars, cache>>
           /\ \E k \in Jobs :
                 /\ job' = [job EXCEPT ![p] = k] /\ JobOK(k)
                 /\ \/ k.at = "fetching"
                    \/ LET file == cache[PathFor(scope)]
                       IN  /\ Fresh(file, k.age) /\ k.age \in {0, MaxAge}
                           /\ k.at = "done" /\ k.scope = scope /\ k.since = now
                           /\ k.markets = file.markets /\ k.events = file.events
<1> DEFINE age  == IF refresh THEN 0 ELSE MaxAge
           file == cache[PathFor(scope)]
           n    == NewJob(scope, age)
           d    == [n EXCEPT !.at = "done", !.todo = <<>>,
                             !.markets = file.markets, !.events = file.events]
<1>1. /\ UNCHANGED <<venueVars, cache>>
      /\ job' = [job EXCEPT ![p] = IF Fresh(file, age) THEN d ELSE n]
  BY DEF Begin
<1>2. age \in {0, MaxAge}
  OBVIOUS
<1> HIDE DEF age
<1>3. /\ n \in StartOf({"fetching"}) /\ JobOK(n)
      /\ n.scope = scope /\ n.age = age /\ n.since = now
  BY <1>2, NewJobSound
<1> HIDE DEF n
<1>4. CASE ~Fresh(file, age)
  <2>1. n \in Jobs /\ n.at = "fetching"
    BY <1>3 DEF Jobs, StartOf, Under
  <2> QED  BY <1>1, <1>3, <1>4, <2>1
<1>5. CASE Fresh(file, age)
  <2>1. file \in Snapshots
    <3>1. file \in Snapshots \cup {Missing, Torn}
      BY DEF ShapesOK
    <3> QED  BY <1>5, <3>1 DEF Fresh, Readable, Missing, Torn
  <2>2. file.markets \in SUBSET Nat /\ file.events \in SUBSET Nat
    BY <2>1 DEF Snapshots
  <2> DEFINE ms == file.markets
             es == file.events
  <2>3. d = [n EXCEPT !.at = "done", !.todo = <<>>, !.markets = ms, !.events = es]
    OBVIOUS
  <2>4. ms \in SUBSET Nat /\ es \in SUBSET Nat
    BY <2>2
  <2> HIDE DEF d, ms, es
  <2>5. <<>> \in Seq(List)
    OBVIOUS
  <2>6. n \in StartOf({"fetching"})
    BY <1>3
  <2>7. /\ d \in StartOf({"done"})
        /\ d.at = "done" /\ d.scope = n.scope /\ d.age = n.age /\ d.since = n.since
        /\ d.markets = ms /\ d.events = es
    BY ONLY <2>3, <2>4, <2>5, <2>6 DEF StartOf
  <2>8. d \in Jobs
    BY <2>7 DEF Jobs, StartOf
  <2>9. JobOK(d)
    BY <2>7 DEF JobOK, Under
  <2> QED  BY <1>1, <1>2, <1>3, <1>5, <2>7, <2>8, <2>9 DEF ms, es
<1> QED  BY <1>4, <1>5

(* A fetch saved: everything has been read.                                *)
LEMMA WriteIs ==
    ASSUME SnapshotInv, NEW p \in Process, WriteFile(p)
    PROVE  LET j == job[p]
               k == [j EXCEPT !.at = "done"]
           IN  /\ UNCHANGED venueVars /\ job' = [job EXCEPT ![p] = k]
               /\ k \in Jobs /\ k.at = "done" /\ JobOK(k) /\ j.scope \in Scope
               /\ k.scope = j.scope /\ k.since = j.since /\ k.age \in {0, MaxAge}
               /\ k.markets = j.markets /\ k.events = j.events
               /\ SnapshotOf(j) \in Files /\ FileOK(SnapshotOf(j), j.scope)
               /\ \E f \in {SnapshotOf(j), Torn} : cache' = [cache EXCEPT ![PathFor(j.scope)] = f]
<1> DEFINE j == job[p]
           k == [j EXCEPT !.at = "done"]
           f == SnapshotOf(j)
<1>1. /\ j.at = "writing" /\ UNCHANGED venueVars /\ job' = [job EXCEPT ![p] = k]
      /\ \E g \in {f, Torn} : cache' = [cache EXCEPT ![PathFor(j.scope)] = g]
  BY DEF WriteFile
<1>2. ShapesOK /\ JobOK(j)
  BY DEF SnapshotInv
<1>3. j \in StartOf(Under \cup {"done"})
  BY <1>1, <1>2, JobIs
<1>4. /\ j.scope \in Scope /\ j.age \in {0, MaxAge} /\ j.since \in 0 .. now
      /\ j.markets \in SUBSET Nat /\ j.events \in SUBSET Nat
  BY <1>3, StartFields
<1>5. /\ j.todo = <<>> /\ ReadOrComing(j) /\ WasOpen(j.markets, j.scope, j.since)
  BY <1>1, <1>2 DEF JobOK, Under
<1>6. \A m \in open : m \in InScope(j.scope) /\ since[m] < j.since =>
          (m \in Matching => m \in j.markets) /\ EventOf[m] \in j.events
  BY <1>5 DEF ReadOrComing, ComesTo
<1>7. /\ f \in Files /\ f.scope = j.scope /\ f.at = j.since
      /\ f.markets = j.markets /\ f.events = j.events
  BY <1>4 DEF SnapshotOf, Files, Snapshots
<1> HIDE DEF j, f
<1>8. FileOK(f, j.scope)
  BY <1>5, <1>6, <1>7 DEF FileOK
<1>9. /\ k \in StartOf({"done"}) /\ k.at = "done" /\ k.scope = j.scope /\ k.since = j.since
      /\ k.age = j.age /\ k.markets = j.markets /\ k.events = j.events
  BY <1>3 DEF StartOf
<1> HIDE DEF k
<1>10. k \in Jobs
  BY <1>9 DEF Jobs, StartOf
<1>11. JobOK(k)
  BY <1>9 DEF JobOK, Under
<1> QED  BY <1>1, <1>4, <1>7, <1>8, <1>9, <1>10, <1>11 DEF j, k, f

(* The venue's steps: a market whose status changes now has stood for no   *)
(* fetch that began before.                                                *)
LEMMA VenueKeeps ==
    ASSUME SnapshotInv, NEW m \in Market, VenueChanges(m)
    PROVE  SnapshotInv'
<1>1. /\ now' = now /\ cache' = cache /\ job' = job
      /\ since' = [since EXCEPT ![m] = now]
      /\ \E word \in Status : status' = [status EXCEPT ![m] = word]
  BY DEF VenueChanges
<1>2. ShapesOK
  BY DEF SnapshotInv
<1>3. /\ now \in Nat /\ now <= MaxNow /\ open \subseteq Market
      /\ status \in [Market -> Status] /\ since \in [Market -> 0 .. now]
  BY <1>2, OpenIs DEF ShapesOK
<1>4. /\ status' \in [Market -> Status] /\ since' \in [Market -> 0 .. now]
      /\ \A x \in Market : since'[x] = IF x = m THEN now ELSE since[x]
      /\ \A x \in Market : x # m => status'[x] = status[x]
  BY <1>1, <1>3
<1>11. /\ open' \subseteq Market
       /\ \A x \in Market \ {m} : (x \in open' <=> x \in open) /\ (x \in Matching' <=> x \in Matching)
  BY <1>4 DEF open, Matching
<1>5. ShapesOK'
  <2>1. /\ cache \in [{PathFor(s) : s \in Scope} -> Snapshots \cup {Missing, Torn}]
        /\ job \in [Process -> StartOf(Under \cup {"done"}) \cup {Idle}]
    BY <1>2 DEF ShapesOK
  <2>2. Snapshots' = Snapshots /\ StartOf(Under \cup {"done"})' = StartOf(Under \cup {"done"})
    BY <1>1 DEF Snapshots, StartOf
  <2> QED  BY <1>1, <1>3, <1>4, <2>1, <2>2 DEF ShapesOK
<1>6. ASSUME NEW at \in 0 .. now, NEW x \in open', since'[x] < at
      PROVE  x \in open /\ since[x] < at /\ (x \in Matching' <=> x \in Matching)
  BY <1>1, <1>3, <1>4, <1>6, <1>11
<1>7. ASSUME NEW at \in 0 .. now, NEW x \in Market, x \in open \/ since[x] >= at
      PROVE  x \in open' \/ since'[x] >= at
  BY <1>1, <1>3, <1>4, <1>7, <1>11
<1>8. \A scope : InScope(scope) \subseteq Market
  BY DEF InScope
<1>9. ASSUME NEW p \in Process
      PROVE  JobOK(job[p])'
  <2> DEFINE j == job[p]
  <2>1. JobOK(j) /\ job'[p] = j
    BY <1>1 DEF SnapshotInv
  <2> SUFFICES ASSUME j.at \in Under PROVE JobOK(job[p])'
    BY <2>1 DEF JobOK
  <2>2. j.since \in 0 .. now
    <3>1. j.at # "idle"
      BY DEF Under
    <3> QED  BY <1>2, <3>1, JobIs
  <2>3. /\ j.at # "fetching" <=> j.todo = <<>>
        /\ \A i \in DOMAIN j.todo : j.todo[i].kind = "markets" => j.todo[i].of \subseteq InScope(j.scope)
        /\ ReadOrComing(j) /\ WasOpen(j.markets, j.scope, j.since)
    BY <2>1 DEF JobOK
  <2>4. ReadOrComing(job[p])'
    <3> SUFFICES ASSUME NEW x \in open', x \in InScope(j.scope), since'[x] < j.since
                 PROVE  /\ x \in Matching' => x \in j.markets \/ ComesTo(j, "markets", x)
                        /\ EventOf[x] \in j.events \/ ComesTo(j, "events", EventOf[x])
      BY <2>1 DEF ReadOrComing, ComesTo
    <3>1. x \in open /\ since[x] < j.since /\ (x \in Matching' <=> x \in Matching)
      BY <1>6, <2>2
    <3> QED  BY <2>3, <3>1 DEF ReadOrComing
  <2>5. WasOpen(job[p].markets, job[p].scope, job[p].since)'
    <3> SUFFICES ASSUME NEW x \in j.markets
                 PROVE  x \in InScope(j.scope) /\ (x \in open' \/ since'[x] >= j.since)
      BY <2>1 DEF WasOpen
    <3>1. x \in InScope(j.scope) /\ (x \in open \/ since[x] >= j.since)
      BY <2>3 DEF WasOpen
    <3> QED  BY <1>7, <1>8, <2>2, <3>1
  <2> QED  BY <2>1, <2>3, <2>4, <2>5 DEF JobOK
<1>10. ASSUME NEW s \in Scope
       PROVE  FileOK(cache[PathFor(s)], s)'
  <2> DEFINE f == cache[PathFor(s)]
  <2>1. FileOK(f, s) /\ cache'[PathFor(s)] = f /\ f \in Snapshots \cup {Missing, Torn}
    BY <1>1, <1>2 DEF SnapshotInv, ShapesOK
  <2> SUFFICES ASSUME Readable(f) PROVE FileOK(cache[PathFor(s)], s)'
    BY <2>1 DEF FileOK, Readable
  <2>2. f.at \in 0 .. now
    BY <2>1 DEF Readable, Snapshots, Missing, Torn
  <2>3. /\ f.scope = s
        /\ \A x \in open : x \in InScope(s) /\ since[x] < f.at =>
              (x \in Matching => x \in f.markets) /\ EventOf[x] \in f.events
        /\ WasOpen(f.markets, s, f.at)
    BY <2>1 DEF FileOK
  <2>4. \A x \in open' : x \in InScope(s) /\ since'[x] < f.at =>
              (x \in Matching' => x \in f.markets) /\ EventOf[x] \in f.events
    BY <1>6, <2>2, <2>3
  <2>5. \A x \in f.markets : x \in InScope(s) /\ (x \in open' \/ since'[x] >= f.at)
    <3> SUFFICES ASSUME NEW x \in f.markets
                 PROVE  x \in InScope(s) /\ (x \in open' \/ since'[x] >= f.at)
      OBVIOUS
    <3>1. x \in InScope(s) /\ (x \in open \/ since[x] >= f.at)
      BY <2>3 DEF WasOpen
    <3> QED  BY <1>7, <1>8, <2>2, <3>1
  <2> HIDE DEF f
  <2> QED  BY <2>1, <2>3, <2>4, <2>5 DEF FileOK, WasOpen
<1> QED  BY <1>5, <1>9, <1>10 DEF SnapshotInv

LEMMA TimeKeeps ==
    ASSUME SnapshotInv, TimePasses
    PROVE  SnapshotInv'
<1>1. /\ now < MaxNow /\ now' = now + 1 /\ cache' = cache /\ job' = job
      /\ status' = status /\ open' = open /\ Matching' = Matching /\ since' = since
  BY OpenIs DEF TimePasses
<1>2. ShapesOK
  BY DEF SnapshotInv
<1>3. /\ now \in Nat /\ now <= MaxNow /\ status \in [Market -> Status] /\ since \in [Market -> 0 .. now]
      /\ cache \in [{PathFor(s) : s \in Scope} -> Snapshots \cup {Missing, Torn}]
      /\ job \in [Process -> StartOf(Under \cup {"done"}) \cup {Idle}]
  BY <1>2 DEF ShapesOK
<1>4. 0 .. now \subseteq 0 .. now' /\ now' \in Nat /\ now' <= MaxNow
  BY <1>1, <1>3, DiscoveryAssumption
<1>5. Snapshots \subseteq Snapshots' /\ \A S : StartOf(S) \subseteq StartOf(S)'
  <2>1. Snapshots \subseteq Snapshots'
    BY <1>4 DEF Snapshots
  <2>2. ASSUME NEW S, NEW j \in StartOf(S) PROVE j \in StartOf(S)'
    BY <1>4, <2>2 DEF StartOf
  <2> QED  BY <2>1, <2>2
<1>6. since' \in [Market -> 0 .. now']
  BY <1>1, <1>3, <1>4
<1>7. cache' \in [{PathFor(s) : s \in Scope} -> Snapshots' \cup {Missing, Torn}]
  BY <1>1, <1>3, <1>5
<1>8. job' \in [Process -> StartOf(Under \cup {"done"})' \cup {Idle}]
  BY <1>1, <1>3, <1>5
<1>9. ShapesOK'
  BY <1>1, <1>3, <1>4, <1>6, <1>7, <1>8 DEF ShapesOK
<1>10. \A p \in Process : JobOK(job[p])'
  BY <1>1 DEF SnapshotInv, JobOK, ReadOrComing, ComesTo, WasOpen
<1>11. \A s \in Scope : FileOK(cache[PathFor(s)], s)'
  BY <1>1 DEF SnapshotInv, FileOK, WasOpen, Readable
<1> QED  BY <1>9, <1>10, <1>11 DEF SnapshotInv

(* A start that ends, and one that creates its file.                       *)
LEMMA EndKeeps ==
    ASSUME SnapshotInv, NEW p \in Process, End(p)
    PROVE  SnapshotInv' /\ job'[p].at = "idle" /\ job' = [job EXCEPT ![p] = Idle]
<1>1. /\ job[p].at # "idle" /\ UNCHANGED venueVars /\ job' = [job EXCEPT ![p] = Idle]
      /\ cache' \in {cache, [cache EXCEPT ![PathFor(job[p].scope)] = Torn]}
  BY DEF End
<1>2. job[p].scope \in Scope /\ job \in [Process -> Jobs]
  BY <1>1, JobIs DEF SnapshotInv, ShapesOK, Jobs
<1>3. job' \in [Process -> Jobs] /\ \A q \in Process : JobOK(job'[q])
  BY <1>1, Harmless, OneStart
<1>4. SnapshotInv'
  BY <1>1, <1>2, <1>3, Harmless, StartsKeep
<1>5. job'[p].at = "idle"
  BY <1>1, <1>2 DEF Idle
<1> QED  BY <1>1, <1>4, <1>5

LEMMA CreateKeeps ==
    ASSUME SnapshotInv, NEW p \in Process, CreateFile(p)
    PROVE  SnapshotInv' /\ \A q \in Process : job'[q].at = "done" => job[q].at = "done"
<1> DEFINE others == {q \in Process \ {p} : SamePath(p, q)}
           new(q) == IF q = p THEN [job[p] EXCEPT !.at = "writing", !.alone = others = {}]
                     ELSE IF q \in others THEN [job[q] EXCEPT !.alone = FALSE] ELSE job[q]
<1>1. /\ job[p].at = "save" /\ UNCHANGED venueVars
      /\ cache' = [cache EXCEPT ![PathFor(job[p].scope)] = Torn]
      /\ job' = [q \in Process |-> new(q)]
  BY DEF CreateFile
<1>2. ShapesOK /\ job \in [Process -> Jobs] /\ \A q \in Process : JobOK(job[q])
  BY DEF SnapshotInv, ShapesOK, Jobs
<1>3. job[p].scope \in Scope
  BY <1>1, <1>2, JobIs
<1>4. ASSUME NEW q \in Process
      PROVE  new(q) \in Jobs /\ JobOK(new(q)) /\ (new(q).at = "done" => job[q].at = "done")
  <2>1. CASE q = p
    <3> DEFINE j == job[p]
               alone == others = {}
               k == [j EXCEPT !.at = "writing", !.alone = alone]
    <3>1. j \in StartOf({"save"}) /\ JobOK(j)
      <4>1. j \in StartOf(Under \cup {"done"})
        BY <1>1, <1>2, JobIs
      <4> QED  BY <1>1, <1>2, <4>1 DEF StartOf
    <3>2. new(q) = k
      BY <2>1
    <3>3. alone \in BOOLEAN
      OBVIOUS
    <3> HIDE DEF alone, j
    <3>4. /\ k \in StartOf({"writing"}) /\ k.at = "writing" /\ k.scope = j.scope
          /\ k.since = j.since /\ k.todo = j.todo /\ k.cursor = j.cursor
          /\ k.markets = j.markets /\ k.events = j.events
      BY ONLY <3>1, <3>3 DEF StartOf
    <3>5. j.at = "save"
      BY <3>1 DEF StartOf
    <3> HIDE DEF k
    <3>6. k \in Jobs
      BY <3>4 DEF Jobs, StartOf, Under
    <3>7. JobOK(k)
      BY <3>1, <3>4, <3>5 DEF JobOK, ReadOrComing, ComesTo, Under
    <3> HIDE DEF new
    <3> QED  BY <3>2, <3>4, <3>6, <3>7
  <2>2. CASE q # p /\ q \in others
    <3> DEFINE j == job[q]
               k == [j EXCEPT !.alone = FALSE]
    <3>1. j.at = "writing" /\ JobOK(j)
      BY <1>2, <2>2 DEF SamePath
    <3>2. j \in StartOf({"writing"})
      <4>1. j \in StartOf(Under \cup {"done"})
        BY <1>2, <3>1, JobIs
      <4> QED  BY <3>1, <4>1 DEF StartOf
    <3>3. new(q) = k
      BY <2>2
    <3> HIDE DEF j
    <3>4. /\ k \in StartOf({"writing"}) /\ k.at = "writing" /\ k.scope = j.scope
          /\ k.since = j.since /\ k.todo = j.todo /\ k.cursor = j.cursor
          /\ k.markets = j.markets /\ k.events = j.events
      BY ONLY <3>2 DEF StartOf
    <3> HIDE DEF k
    <3>5. k \in Jobs
      BY <3>4 DEF Jobs, StartOf, Under
    <3>6. JobOK(k)
      BY <3>1, <3>4 DEF JobOK, ReadOrComing, ComesTo, Under
    <3> HIDE DEF new
    <3> QED  BY <3>3, <3>4, <3>5, <3>6
  <2>3. CASE q # p /\ q \notin others
    <3>1. new(q) = job[q]
      BY <2>3
    <3> HIDE DEF new
    <3> QED  BY <1>2, <3>1
  <2> QED  BY <2>1, <2>2, <2>3
<1> HIDE DEF new
<1>5. \A q \in Process : job'[q] = new(q)
  BY <1>1
<1>6. job' \in [Process -> Jobs] /\ \A q \in Process : JobOK(job'[q])
  BY <1>1, <1>4, <1>5
<1>7. SnapshotInv'
  BY <1>1, <1>3, <1>6, Harmless, StartsKeep
<1> QED  BY <1>4, <1>5, <1>7

(* A cursor that comes again fails the start.                              *)
LEMMA AgainKeeps ==
    ASSUME SnapshotInv, NEW p \in Process, AnswerAgain(p)
    PROVE  SnapshotInv' /\ job' = [job EXCEPT ![p] = Idle] /\ UNCHANGED <<venueVars, cache>>
<1>1. UNCHANGED <<venueVars, cache>> /\ job' = [job EXCEPT ![p] = Idle]
  BY DEF AnswerAgain, Repeats
<1>2. job' \in [Process -> Jobs] /\ \A q \in Process : JobOK(job'[q])
  BY <1>1, Harmless, OneStart
<1>3. SnapshotInv'
  BY <1>1, <1>2, Harmless, StartsKeep
<1> QED  BY <1>1, <1>3

(* What a start hands over, from a fresh file and from its own fetch.      *)
LEMMA FreshIsGood ==
    ASSUME SnapshotInv, NEW s \in Scope, NEW k, k.scope = s, k.since = now, k.age \in {0, MaxAge},
           Fresh(cache[PathFor(s)], k.age), k.markets = cache[PathFor(s)].markets,
           k.events = cache[PathFor(s)].events
    PROVE  GoodHandOver(k)
<1> DEFINE f == cache[PathFor(s)]
<1>1. FileOK(f, s) /\ f \in Snapshots \cup {Missing, Torn} /\ Readable(f) /\ now - f.at < k.age
  BY DEF SnapshotInv, ShapesOK, Fresh
<1>2. f.at \in 0 .. now
  BY <1>1 DEF Readable, Snapshots, Missing, Torn
<1>3. /\ \A m \in open : m \in InScope(s) /\ since[m] < f.at =>
            (m \in Matching => m \in f.markets) /\ EventOf[m] \in f.events
      /\ \A m \in f.markets : m \in InScope(s) /\ (m \in open \/ since[m] >= f.at)
  BY <1>1 DEF FileOK, WasOpen
<1>4. /\ now \in Nat /\ k.age \in Nat /\ open \subseteq Market /\ InScope(s) \subseteq Market
      /\ \A m \in Market : since[m] \in Nat
  BY DiscoveryAssumption, OpenIs DEF SnapshotInv, ShapesOK, InScope
<1> HIDE DEF f
<1>5. now - f.at < k.age
  BY <1>1
<1>6. ASSUME NEW m \in open, m \in InScope(s), since[m] + k.age < now
      PROVE  (m \in Matching => m \in f.markets) /\ EventOf[m] \in f.events
  <2>1. since[m] \in Nat
    BY <1>4
  <2>2. since[m] < f.at
    BY <1>2, <1>4, <1>5, <1>6, <2>1
  <2> QED  BY <1>3, <1>6, <2>2
<1>7. ASSUME NEW m \in f.markets
      PROVE  m \in InScope(s) /\ (m \in open \/ since[m] + k.age >= now)
  <2>1. m \in InScope(s) /\ since[m] \in Nat /\ (m \in open \/ since[m] >= f.at)
    BY <1>3, <1>4
  <2> QED  BY <1>2, <1>4, <1>5, <2>1
<1> QED  BY <1>6, <1>7 DEF GoodHandOver, Standing, f

LEMMA FetchedIsGood ==
    ASSUME SnapshotInv, NEW k, k.since \in 0 .. now, k.age \in {0, MaxAge},
           FileOK(SnapshotOf(k), k.scope)
    PROVE  GoodHandOver(k)
<1>1. /\ \A m \in open : m \in InScope(k.scope) /\ since[m] < k.since =>
            (m \in Matching => m \in k.markets) /\ EventOf[m] \in k.events
      /\ \A m \in k.markets : m \in InScope(k.scope) /\ (m \in open \/ since[m] >= k.since)
  BY DEF FileOK, WasOpen, SnapshotOf, Readable
<1>2. /\ k.since \in Int /\ k.age \in Nat /\ open \subseteq Market /\ InScope(k.scope) \subseteq Market
      /\ \A m \in Market : since[m] \in Nat
  BY DiscoveryAssumption, OpenIs DEF SnapshotInv, ShapesOK, InScope
<1>3. ASSUME NEW m \in open, m \in InScope(k.scope), since[m] + k.age < k.since
      PROVE  (m \in Matching => m \in k.markets) /\ EventOf[m] \in k.events
  <2>1. since[m] \in Nat
    BY <1>2
  <2>2. since[m] < k.since
    BY <1>2, <1>3, <2>1
  <2> QED  BY <1>1, <1>3, <2>2
<1>4. ASSUME NEW m \in k.markets
      PROVE  m \in InScope(k.scope) /\ (m \in open \/ since[m] + k.age >= k.since)
  <2>1. m \in InScope(k.scope) /\ since[m] \in Nat /\ (m \in open \/ since[m] >= k.since)
    BY <1>1, <1>2
  <2> QED  BY <1>2, <2>1
<1> QED  BY <1>3, <1>4 DEF GoodHandOver, Standing

(* Every step keeps the invariant, and hands over only what is good.       *)
LEMMA SnapshotStep ==
    SnapshotInv /\ [Next]_vars =>
        SnapshotInv' /\ \A q \in Process : HandsOver(q) => GoodHandOver(job'[q])
<1> SUFFICES ASSUME SnapshotInv, [Next]_vars
             PROVE  SnapshotInv' /\ \A q \in Process : HandsOver(q) => GoodHandOver(job'[q])
  OBVIOUS
<1>0. ShapesOK /\ job \in [Process -> Jobs] /\ \A q \in Process : JobOK(job[q])
  BY DEF SnapshotInv, ShapesOK, Jobs
<1>1. ASSUME NEW m \in Market, VenueChanges(m)
      PROVE  SnapshotInv' /\ job' = job
  BY <1>1, VenueKeeps DEF VenueChanges
<1>2. ASSUME TimePasses
      PROVE  SnapshotInv' /\ job' = job
  BY <1>2, TimeKeeps DEF TimePasses
<1>3. ASSUME NEW p \in Process, NEW scope \in Scope, NEW refresh \in BOOLEAN, Begin(p, scope, refresh)
      PROVE  SnapshotInv' /\ \A q \in Process : HandsOver(q) => GoodHandOver(job'[q])
  <2>1. /\ UNCHANGED <<venueVars, cache>>
        /\ \E k \in Jobs :
              /\ job' = [job EXCEPT ![p] = k] /\ JobOK(k)
              /\ \/ k.at = "fetching"
                 \/ LET file == cache[PathFor(scope)]
                    IN  /\ Fresh(file, k.age) /\ k.age \in {0, MaxAge}
                        /\ k.at = "done" /\ k.scope = scope /\ k.since = now
                        /\ k.markets = file.markets /\ k.events = file.events
    BY <1>0, <1>3, BeginIs
  <2>2. PICK k \in Jobs :
              /\ job' = [job EXCEPT ![p] = k] /\ JobOK(k)
              /\ \/ k.at = "fetching"
                 \/ LET file == cache[PathFor(scope)]
                    IN  /\ Fresh(file, k.age) /\ k.age \in {0, MaxAge}
                        /\ k.at = "done" /\ k.scope = scope /\ k.since = now
                        /\ k.markets = file.markets /\ k.events = file.events
    BY <2>1
  <2>3. job' \in [Process -> Jobs] /\ \A q \in Process : JobOK(job'[q])
    BY <2>1, <2>2, OneStart
  <2>4. SnapshotInv'
    BY <2>1, <2>3, Harmless, StartsKeep
  <2>5. ASSUME NEW q \in Process, HandsOver(q)
        PROVE  GoodHandOver(job'[q])
    <3>1. job[q].at # "done" /\ job'[q].at = "done"
      BY <2>5 DEF HandsOver
    <3>2. q = p /\ job'[q] = k
      BY <1>0, <2>2, <3>1
    <3>3. k.at = "done"
      BY <3>1, <3>2
    <3>4. GoodHandOver(k)
      BY <2>2, <3>3, FreshIsGood
    <3> QED  BY <3>2, <3>4
  <2> QED  BY <2>4, <2>5
<1>4. ASSUME NEW p \in Process, Answer(p)
      PROVE  SnapshotInv' /\ \A q \in Process : HandsOver(q) => GoodHandOver(job'[q])
  <2>1. /\ UNCHANGED <<venueVars, cache, starts>>
        /\ \E k : /\ job' = [job EXCEPT ![p] = k]
                  /\ k \in StartOf(Under) \cup {Idle} /\ JobOK(k)
    BY <1>0, <1>4, AnswerKeeps
  <2>2. PICK k : /\ job' = [job EXCEPT ![p] = k]
                 /\ k \in StartOf(Under) \cup {Idle} /\ JobOK(k)
    BY <2>1
  <2>3. k \in Jobs /\ k.at # "done"
    BY <2>2 DEF Jobs, StartOf, Under, Idle
  <2>4. job' \in [Process -> Jobs] /\ \A q \in Process : JobOK(job'[q])
    BY <2>1, <2>2, <2>3, OneStart
  <2>5. SnapshotInv'
    BY <2>1, <2>4, Harmless, StartsKeep
  <2>6. \A q \in Process : ~HandsOver(q)
    BY <1>0, <2>2, <2>3 DEF HandsOver
  <2> QED  BY <2>5, <2>6
<1>5. ASSUME NEW p \in Process, AnswerAgain(p)
      PROVE  SnapshotInv' /\ \A q \in Process : HandsOver(q) => GoodHandOver(job'[q])
  <2>1. SnapshotInv' /\ job' = [job EXCEPT ![p] = Idle]
    BY <1>5, AgainKeeps
  <2>2. \A q \in Process : ~HandsOver(q)
    BY <1>0, <2>1 DEF HandsOver, Idle
  <2> QED  BY <2>1, <2>2
<1>6. ASSUME NEW p \in Process, End(p)
      PROVE  SnapshotInv' /\ \A q \in Process : HandsOver(q) => GoodHandOver(job'[q])
  <2>1. SnapshotInv' /\ job' = [job EXCEPT ![p] = Idle]
    BY <1>6, EndKeeps
  <2>2. \A q \in Process : ~HandsOver(q)
    BY <1>0, <2>1 DEF HandsOver, Idle
  <2> QED  BY <2>1, <2>2
<1>7. ASSUME NEW p \in Process, CreateFile(p)
      PROVE  SnapshotInv' /\ \A q \in Process : HandsOver(q) => GoodHandOver(job'[q])
  BY <1>7, CreateKeeps DEF HandsOver
<1>8. ASSUME NEW p \in Process, WriteFile(p)
      PROVE  SnapshotInv' /\ \A q \in Process : HandsOver(q) => GoodHandOver(job'[q])
  <2> DEFINE j == job[p]
             k == [j EXCEPT !.at = "done"]
  <2>1. /\ UNCHANGED venueVars /\ job' = [job EXCEPT ![p] = k]
        /\ k \in Jobs /\ k.at = "done" /\ JobOK(k) /\ j.scope \in Scope
        /\ k.scope = j.scope /\ k.since = j.since /\ k.age \in {0, MaxAge}
        /\ k.markets = j.markets /\ k.events = j.events
        /\ SnapshotOf(j) \in Files /\ FileOK(SnapshotOf(j), j.scope)
        /\ \E f \in {SnapshotOf(j), Torn} : cache' = [cache EXCEPT ![PathFor(j.scope)] = f]
    BY <1>8, WriteIs
  <2> HIDE DEF j, k
  <2>2. job' \in [Process -> Jobs] /\ \A q \in Process : JobOK(job'[q])
    BY <2>1, OneStart
  <2>3. PICK f \in {SnapshotOf(j), Torn} : cache' = [cache EXCEPT ![PathFor(j.scope)] = f]
    BY <2>1
  <2>4. f \in Files /\ FileOK(f, j.scope)
    BY <2>1, <2>3, Harmless
  <2>5. SnapshotInv'
    BY <2>1, <2>2, <2>3, <2>4, StartsKeep
  <2>6. k.since \in 0 .. now /\ FileOK(SnapshotOf(k), k.scope)
    <3>1. j.since \in 0 .. now
      <4>1. job[p].at # "idle"
        BY <1>8 DEF WriteFile
      <4> QED  BY <1>0, <4>1, JobIs DEF j
    <3>2. SnapshotOf(k) = SnapshotOf(j)
      BY <2>1 DEF SnapshotOf
    <3> QED  BY <2>1, <3>1, <3>2
  <2>7. GoodHandOver(k)
    BY <2>1, <2>6, FetchedIsGood
  <2>8. ASSUME NEW q \in Process, HandsOver(q)
        PROVE  GoodHandOver(job'[q])
    <3>1. job[q].at # "done" /\ job'[q].at = "done"
      BY <2>8 DEF HandsOver
    <3>2. job'[q] = k
      BY <1>0, <2>1, <3>1
    <3> QED  BY <2>7, <3>2
  <2> QED  BY <2>5, <2>8
<1>9. CASE UNCHANGED vars
  <2>1. UNCHANGED venueVars /\ cache' = cache /\ job' = job
    BY <1>9 DEF vars
  <2>2. SnapshotInv'
    BY <1>0, <2>1, Harmless, StartsKeep
  <2>3. \A q \in Process : ~HandsOver(q)
    BY <2>1 DEF HandsOver
  <2> QED  BY <2>2, <2>3
<1>10. \A q \in Process : job' = job => ~HandsOver(q)
  BY DEF HandsOver
<1> QED  BY <1>1, <1>2, <1>3, <1>4, <1>5, <1>6, <1>7, <1>8, <1>9, <1>10 DEF Next, Step

(* Whatever the venue does and however the starts interleave, what a fetch *)
(* has not read of the markets that stood when it began with the filter's  *)
(* word (discovery.rs:190-192 drops any other), and of the events of all   *)
(* markets that stood, is still before it; and every readable file is such *)
(* a fetch brought to its end.                                             *)
THEOREM DiscoveryInvariant == Spec => []SnapshotInv
<1>1. SnapshotInv /\ [Next]_vars => SnapshotInv'
  BY SnapshotStep
<1> QED  BY <1>1, SnapshotInit, PTL DEF Spec

(* The state is well formed: a file that parses holds a snapshot of its    *)
(* own scope, from no later than now (path_for_scope and save_to in        *)
(* src/src/discovery.rs).                                                  *)
THEOREM DiscoveryTypeCorrect == Spec => []TypeOK
<1>1. SnapshotInv => TypeOK
  <2> SUFFICES ASSUME SnapshotInv PROVE TypeOK
    OBVIOUS
  <2>1. /\ now \in 0 .. MaxNow /\ status \in [Market -> Status] /\ since \in [Market -> 0 .. now]
        /\ job \in [Process -> Jobs] /\ \A s \in Scope : cache[PathFor(s)] \in Files
    <3>1. /\ now \in Nat /\ now <= MaxNow /\ status \in [Market -> Status] /\ since \in [Market -> 0 .. now]
          /\ job \in [Process -> Jobs] /\ cache \in [{PathFor(s) : s \in Scope} -> Files]
      BY DEF SnapshotInv, ShapesOK, Jobs, Files
    <3>2. \A s \in Scope : cache[PathFor(s)] \in Files
      BY <3>1
    <3>3. now \in 0 .. MaxNow
      BY <3>1, DiscoveryAssumption
    <3> QED  BY <3>1, <3>2, <3>3
  <2>2. \A p \in Process : job[p].at \in {"idle", "fetching", "save", "writing", "done"}
    BY <2>1 DEF Jobs, StartOf, Under, Idle
  <2>3. ASSUME NEW s \in Scope, Readable(cache[PathFor(s)])
        PROVE  /\ cache[PathFor(s)].scope = s
               /\ cache[PathFor(s)].markets \subseteq InScope(s)
               /\ cache[PathFor(s)].at <= now
    <3> DEFINE f == cache[PathFor(s)]
    <3>1. FileOK(f, s) /\ f \in Files /\ Readable(f)
      BY <2>1, <2>3 DEF SnapshotInv
    <3> HIDE DEF f
    <3>2. f.at \in 0 .. now
      BY <3>1 DEF Files, Readable, Snapshots, Missing, Torn
    <3>3. f.scope = s /\ f.markets \subseteq InScope(s)
      BY <3>1 DEF FileOK, WasOpen
    <3> QED  BY <2>1, <3>2, <3>3 DEF f
  <2> QED  BY <2>1, <2>2, <2>3 DEF TypeOK
<1> QED  BY <1>1, DiscoveryInvariant, PTL

(* A start misses no market that has said "open", the filter's word, for   *)
(* longer than the cache may be old, and no event of a market that has     *)
(* been open that long under any word, however many pages it took, what-   *)
(* ever changed meanwhile, and whichever process wrote the file it found   *)
(* (load_or_fetch and discover in src/src/discovery.rs).  That a market    *)
(* open under another word is handed over is not so, and not claimed.      *)
THEOREM DiscoveryStanding == Spec => HandsOverTheStanding
<1>1. SnapshotInv /\ [Next]_vars =>
        [\A p \in Process : HandsOver(p) =>
              LET j == job'[p] IN
              \A m \in Market : Standing(m, j) =>
                  /\ m \in Matching => m \in j.markets
                  /\ EventOf[m] \in j.events]_vars
  BY SnapshotStep DEF GoodHandOver
<1> QED  BY <1>1, DiscoveryInvariant, PTL DEF HandsOverTheStanding, Spec

(* A start is handed no market of another scope, and none that had closed  *)
(* before the cache stopped being fresh (discover and load_or_fetch in     *)
(* src/src/discovery.rs).                                                  *)
THEOREM DiscoveryOpen == Spec => HandsOverTheOpen
<1>1. SnapshotInv /\ [Next]_vars =>
        [\A p \in Process : HandsOver(p) =>
              LET j == job'[p] IN
              \A m \in j.markets : /\ m \in InScope(j.scope)
                                   /\ m \in open \/ since[m] + j.age >= j.since]_vars
  BY SnapshotStep DEF GoodHandOver
<1> QED  BY <1>1, DiscoveryInvariant, PTL DEF HandsOverTheOpen, Spec

=============================================================================
