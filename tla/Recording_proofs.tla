-------------------------- MODULE Recording_proofs --------------------------
(***************************************************************************)
(* Theorems about the merged feed, the recorders and the replay, for any   *)
(* feeds, channel, days, tickers, kinds of envelope, sequence numbers and  *)
(* number of runs in a directory.                                          *)
(*                                                                         *)
(* The invariant says three things: what each feed of a run still holds    *)
(* (Base), that the numbers of a file increase below the recorder's        *)
(* counter (Numbered), and what Kalshi's file replays as, of the run in    *)
(* progress and of each past one (Replayable).                             *)
(***************************************************************************)
EXTENDS Recording, DataLemmas, SequenceTheorems

-----------------------------------------------------------------------------
(* The pieces of g, joined up to each of them.                             *)
IsJoin(f, g, m) == f = [k \in 0 .. m |-> IF k = 0 THEN <<>> ELSE f[k - 1] \o g[k]]

LEMMA JoinExists ==
    ASSUME NEW m \in Nat, NEW g
    PROVE  \E f : IsJoin(f, g, m)
<1> DEFINE Bad == {n \in Nat : ~\E f : IsJoin(f, g, n)}
<1>1. ASSUME NEW n \in Bad, \A x \in Bad : n <= x
      PROVE  FALSE
  <2>1. CASE n = 0
    <3>1. IsJoin([k \in 0 .. 0 |-> <<>>], g, 0)
      BY DEF IsJoin
    <3> QED  BY <2>1, <3>1
  <2>2. CASE n # 0
    <3>1. n - 1 \in Nat /\ n \in Nat /\ n - 1 \notin Bad
      BY <1>1, <2>2
    <3>2. PICK f : IsJoin(f, g, n - 1)
      BY <3>1
    <3> DEFINE h == [k \in 0 .. n |-> IF k = 0 THEN <<>> ELSE f[k - 1] \o g[k]]
    <3>3. ASSUME NEW k \in 0 .. n, k # 0
          PROVE  h[k - 1] = f[k - 1]
      <4>1. k - 1 \in 0 .. n - 1 /\ k - 1 \in 0 .. n
        BY <3>1, <3>3
      <4>2. f[k - 1] = IF k - 1 = 0 THEN <<>> ELSE f[k - 1 - 1] \o g[k - 1]
        BY <3>2, <4>1 DEF IsJoin
      <4> QED  BY <4>1, <4>2
    <3>4. IsJoin(h, g, n)
      BY <3>3 DEF IsJoin
    <3> QED  BY <3>4
  <2> QED  BY <2>1, <2>2
<1>2. Bad = {}
  BY <1>1, LeastNatural
<1> QED  BY <1>2

Joins(f, g, m) == f[0] = <<>> /\ \A k \in 1 .. m : f[k] = f[k - 1] \o g[k]

LEMMA JoinStep ==
    ASSUME NEW m \in Nat, NEW f, NEW g, IsJoin(f, g, m)
    PROVE  Joins(f, g, m)
<1>1. ASSUME NEW k \in 0 .. m
      PROVE  f[k] = IF k = 0 THEN <<>> ELSE f[k - 1] \o g[k]
  BY DEF IsJoin
<1>2. 0 \in 0 .. m /\ \A k \in 1 .. m : k \in 0 .. m /\ k # 0
  OBVIOUS
<1> QED  BY <1>1, <1>2 DEF Joins

(* What is joined up to a piece depends on no later piece.                 *)
LEMMA JoinSame ==
    ASSUME NEW m \in Nat, NEW n \in Nat, m <= n, NEW f, NEW g, NEW h, NEW e,
           IsJoin(f, g, m), IsJoin(h, e, n), \A k \in 1 .. m : g[k] = e[k]
    PROVE  \A k \in 0 .. m : f[k] = h[k]
<1> DEFINE Bad == {k \in 0 .. m : f[k] # h[k]}
<1>0. Joins(f, g, m) /\ Joins(h, e, n)
  BY JoinStep
<1>1. ASSUME NEW k \in Bad, \A x \in Bad : k <= x
      PROVE  FALSE
  <2>1. k # 0
    BY <1>0 DEF Joins
  <2>2. k - 1 \in 0 .. m /\ k \in 1 .. m /\ k \in 1 .. n /\ k - 1 \notin Bad
    BY <1>1, <2>1
  <2>3. f[k] = f[k - 1] \o g[k]
    BY <1>0, <2>2 DEF Joins
  <2>4. h[k] = h[k - 1] \o e[k]
    BY <1>0, <2>2 DEF Joins
  <2> QED  BY <2>2, <2>3, <2>4
<1>2. Bad \subseteq Nat
  OBVIOUS
<1>3. Bad = {}
  BY <1>1, <1>2, LeastNatural
<1> QED  BY <1>3

LEMMA JoinTyped ==
    ASSUME NEW m \in Nat, NEW f, NEW g, IsJoin(f, g, m), NEW S, \A k \in 1 .. m : g[k] \in Seq(S)
    PROVE  \A k \in 0 .. m : f[k] \in Seq(S)
<1> DEFINE Bad == {k \in 0 .. m : f[k] \notin Seq(S)}
<1>0. f[0] \in Seq(S) /\ \A k \in 1 .. m : f[k] = f[k - 1] \o g[k]
  <2>1. Joins(f, g, m)
    BY JoinStep
  <2>2. <<>> \in Seq(S)
    OBVIOUS
  <2> QED  BY <2>1, <2>2 DEF Joins
<1>1. ASSUME NEW k \in Bad, \A x \in Bad : k <= x
      PROVE  FALSE
  <2>1. k # 0
    BY <1>0
  <2>2. k - 1 \in 0 .. m /\ k \in 1 .. m /\ k - 1 \notin Bad
    BY <1>1, <2>1
  <2>3. f[k] = f[k - 1] \o g[k] /\ f[k - 1] \in Seq(S) /\ g[k] \in Seq(S)
    BY <1>0, <2>2
  <2>4. f[k - 1] \o g[k] \in Seq(S)
    BY <2>3
  <2> QED  BY <2>3, <2>4
<1>2. Bad \subseteq Nat
  OBVIOUS
<1>3. Bad = {}
  BY <1>1, <1>2, LeastNatural
<1> QED  BY <1>3

LEMMA JoinedAppend ==
    ASSUME NEW S, NEW s \in Seq(S), NEW t \in Seq(S), NEW x \in S
    PROVE  s \o Append(t, x) = Append(s \o t, x)
<1>1. Append(t, x) = t \o <<x>> /\ <<x>> \in Seq(S)
  OBVIOUS
<1>2. s \o t \in Seq(S)
  OBVIOUS
<1>3. Append(s \o t, x) = (s \o t) \o <<x>>
  BY <1>2
<1>4. (s \o t) \o <<x>> = s \o (t \o <<x>>)
  BY <1>1, ConcatAssociative
<1> QED  BY <1>1, <1>3, <1>4

LEMMA HeadMoves ==
    ASSUME NEW S, NEW s \in Seq(S), NEW t \in Seq(S), t # <<>>
    PROVE  Append(s, Head(t)) \o Tail(t) = s \o t
<1>1. Head(t) \in S /\ Tail(t) \in Seq(S) /\ Append(s, Head(t)) \in Seq(S)
  OBVIOUS
<1>2. t = <<Head(t)>> \o Tail(t) /\ <<Head(t)>> \in Seq(S)
  OBVIOUS
<1>3. Append(s, Head(t)) = s \o <<Head(t)>>
  BY <1>1
<1>4. (s \o <<Head(t)>>) \o Tail(t) = s \o (<<Head(t)>> \o Tail(t))
  BY <1>1, <1>2, ConcatAssociative
<1> QED  BY <1>2, <1>3, <1>4

(* One sequence begins another.                                            *)
LEMMA PrefixIs ==
    ASSUME NEW S, NEW s \in Seq(S), NEW t \in Seq(S)
    PROVE  IsPrefix(s, t) <=> Len(s) <= Len(t) /\ \A k \in 1 .. Len(s) : s[k] = t[k]
<1>1. Len(s) \in Nat /\ Len(t) \in Nat
  OBVIOUS
<1>2. SubSeq(s, 1, Len(s)) = s
  BY SubSeqFull
<1>3. ASSUME Len(s) <= Len(t)
      PROVE  /\ SubSeq(t, 1, Len(s)) \in Seq(S) /\ Len(SubSeq(t, 1, Len(s))) = Len(s)
             /\ \A k \in 1 .. Len(s) : SubSeq(t, 1, Len(s))[k] = t[k]
  <2>1. \A k \in 1 .. Len(s) : t[k] \in S
    BY <1>1, <1>3
  <2> QED  BY <1>1, <2>1, SubSeqProperties
<1>4. ASSUME Len(s) <= Len(t), \A k \in 1 .. Len(s) : s[k] = t[k]
      PROVE  s = SubSeq(t, 1, Len(s))
  BY <1>3, <1>4, SeqEqual
<1> QED  BY <1>2, <1>3, <1>4 DEF IsPrefix

LEMMA PrefixFacts ==
    ASSUME NEW S, NEW s \in Seq(S), NEW t \in Seq(S), NEW u \in Seq(S)
    PROVE  /\ IsPrefix(s, s) /\ IsPrefix(s, s \o t)
           /\ IsPrefix(s, t) /\ IsPrefix(t, u) => IsPrefix(s, u)
           /\ IsPrefix(s, u) /\ IsPrefix(t, u) => IsPrefix(s, t) \/ IsPrefix(t, s)
<1>1. Len(s) \in Nat /\ Len(t) \in Nat /\ Len(u) \in Nat
  OBVIOUS
<1>2. IsPrefix(s, s)
  BY <1>1, PrefixIs
<1>3. IsPrefix(s, s \o t)
  <2>1. s \o t \in Seq(S) /\ Len(s) <= Len(s \o t) /\ \A k \in 1 .. Len(s) : s[k] = (s \o t)[k]
    BY <1>1
  <2> QED  BY <2>1, PrefixIs
<1>4. ASSUME IsPrefix(s, t), IsPrefix(t, u)
      PROVE  IsPrefix(s, u)
  <2>1. Len(s) <= Len(t) /\ \A k \in 1 .. Len(s) : s[k] = t[k]
    BY <1>4, PrefixIs
  <2>2. Len(t) <= Len(u) /\ \A k \in 1 .. Len(t) : t[k] = u[k]
    BY <1>4, PrefixIs
  <2>3. Len(s) <= Len(u) /\ \A k \in 1 .. Len(s) : s[k] = u[k]
    BY <1>1, <2>1, <2>2
  <2> QED  BY <2>3, PrefixIs
<1>5. ASSUME IsPrefix(s, u), IsPrefix(t, u)
      PROVE  IsPrefix(s, t) \/ IsPrefix(t, s)
  <2>1. Len(s) <= Len(u) /\ \A k \in 1 .. Len(s) : s[k] = u[k]
    BY <1>5, PrefixIs
  <2>2. Len(t) <= Len(u) /\ \A k \in 1 .. Len(t) : t[k] = u[k]
    BY <1>5, PrefixIs
  <2>3. CASE Len(s) <= Len(t)
    <3>1. \A k \in 1 .. Len(s) : s[k] = t[k]
      BY <1>1, <2>1, <2>2, <2>3
    <3> QED  BY <2>3, <3>1, PrefixIs
  <2>4. CASE Len(t) <= Len(s)
    <3>1. \A k \in 1 .. Len(t) : t[k] = s[k]
      BY <1>1, <2>1, <2>2, <2>4
    <3> QED  BY <2>4, <3>1, PrefixIs
  <2> QED  BY <1>1, <2>3, <2>4
<1> QED  BY <1>2, <1>3, <1>4, <1>5

-----------------------------------------------------------------------------
(* Envelopes and events, files and what is read from them.                 *)
Kind  == {"start", "text", "other", "disconnected", "resubscribed"}
Rec   == [kind : Kind, seq : Nat]
Ev    == [of : Rec, at : Nat]

LEMMA Decoded ==
    ASSUME NEW i, NEW r \in Rec
    PROVE  Decode(i, r) \in Seq(Ev) /\ Sends(i, r) \in Seq(Ev)
<1>1. Tickers \in Nat
  BY RecordingAssumption
<1>2. \A k \in Nat : Event(r, k) \in Ev
  BY DEF Event, Ev
<1>3. \A n \in Nat : [k \in 1 .. n |-> Event(r, k)] \in Seq(Ev)
  <2>1. ASSUME NEW n \in Nat
        PROVE  [k \in 1 .. n |-> Event(r, k)] \in Seq(Ev)
    <3>1. [k \in 1 .. n |-> Event(r, k)] \in [1 .. n -> Ev]
      BY <1>2
    <3> QED  BY <3>1
  <2> QED  BY <2>1
<1>4. <<Event(r, 1)>> \in Seq(Ev) /\ <<>> \in Seq(Ev)
  BY <1>2
<1>5. Decode(i, r) \in Seq(Ev)
  BY <1>1, <1>3, <1>4 DEF Decode
<1>6. Sends(i, r) = [k \in 1 .. (CASE r.kind \in {"text", "disconnected"} -> 1
                                    [] r.kind = "resubscribed" -> Tickers
                                    [] OTHER -> 0) |-> Event(r, k)]
  BY DEF Sends
<1> QED  BY <1>1, <1>3, <1>5, <1>6

(* What Kalshi's worker sends is what the replay decodes.                  *)
LEMMA SentIsDecoded ==
    ASSUME NEW r \in Rec
    PROVE  Decode(Kalshi, r) = Sends(Kalshi, r)
<1>1. CASE r.kind \in {"text", "disconnected"}
  <2>1. Sends(Kalshi, r) = [k \in 1 .. 1 |-> Event(r, k)]
    BY <1>1 DEF Sends
  <2>2. Decode(Kalshi, r) = <<Event(r, 1)>>
    BY <1>1 DEF Decode
  <2> QED  BY <2>1, <2>2
<1>2. CASE r.kind = "resubscribed"
  BY <1>2 DEF Sends, Decode
<1>3. CASE r.kind \notin {"text", "disconnected", "resubscribed"}
  <2>1. Sends(Kalshi, r) = [k \in 1 .. 0 |-> Event(r, k)]
    BY <1>3 DEF Sends
  <2>2. Decode(Kalshi, r) = <<>>
    BY <1>3 DEF Decode
  <2> QED  BY <2>1, <2>2
<1> QED  BY <1>1, <1>2, <1>3

LEMMA Appended ==
    ASSUME NEW T \in Seq(Rec), NEW r \in Rec
    PROVE  /\ Append(T, r) \in Seq(Rec) /\ Len(T) \in Nat /\ Len(Append(T, r)) = Len(T) + 1
           /\ Append(T, r)[Len(T) + 1] = r
           /\ \A k \in 1 .. Len(T) : Append(T, r)[k] = T[k]
OBVIOUS

LEMMA SessionNumber ==
    ASSUME NEW T, NEW k \in Nat
    PROVE  IsFiniteSet({j \in 1 .. k : Begins(T, j)}) /\ SessionAt(T, k) \in Nat
<1>1. IsFiniteSet(1 .. k)
  BY FS_Interval
<1>2. IsFiniteSet({j \in 1 .. k : Begins(T, j)})
  BY <1>1, FS_Subset
<1> QED  BY <1>2, FS_CardinalityType DEF SessionAt

(* An envelope changes no session before it, and begins one when it is the *)
(* first of its file or a marker.                                          *)
LEMMA SessionSame ==
    ASSUME NEW T \in Seq(Rec), NEW r \in Rec
    PROVE  \A k \in 1 .. Len(T) : SessionAt(Append(T, r), k) = SessionAt(T, k)
<1> SUFFICES ASSUME NEW k \in 1 .. Len(T)
             PROVE  SessionAt(Append(T, r), k) = SessionAt(T, k)
  OBVIOUS
<1>1. \A j \in 1 .. k : Begins(Append(T, r), j) <=> Begins(T, j)
  BY Appended DEF Begins
<1>2. {j \in 1 .. k : Begins(Append(T, r), j)} = {j \in 1 .. k : Begins(T, j)}
  BY <1>1
<1> QED  BY <1>2 DEF SessionAt

LEMMA SessionsAppend ==
    ASSUME NEW T \in Seq(Rec), NEW r \in Rec
    PROVE  /\ Sessions(T) \in Nat
           /\ Sessions(Append(T, r)) =
                 Sessions(T) + (IF T = <<>> \/ r.kind = "start" THEN 1 ELSE 0)
           /\ SessionAt(Append(T, r), Len(T) + 1) = Sessions(Append(T, r))
<1> DEFINE U == Append(T, r)
           n == Len(T)
           A == {j \in 1 .. n : Begins(T, j)}
           B == {j \in 1 .. n + 1 : Begins(U, j)}
<1>1. n \in Nat /\ Len(U) = n + 1 /\ \A k \in 1 .. n : U[k] = T[k]
  BY Appended
<1>2. \A j \in 1 .. n : Begins(U, j) <=> Begins(T, j)
  BY <1>1 DEF Begins
<1>3. Begins(U, n + 1) <=> T = <<>> \/ r.kind = "start"
  <2>1. n + 1 = 1 <=> T = <<>>
    BY <1>1
  <2>2. U[n + 1] = r
    BY Appended
  <2> HIDE DEF U
  <2> QED  BY <2>1, <2>2 DEF Begins
<1>4. IsFiniteSet(A) /\ Sessions(T) = Cardinality(A) /\ Sessions(T) \in Nat
  BY <1>1, SessionNumber DEF Sessions, SessionAt
<1>5. Sessions(U) = Cardinality(B)
  BY <1>1 DEF Sessions, SessionAt
<1>6. n + 1 \notin A
  BY <1>1
<1>9. SessionAt(U, n + 1) = Sessions(U)
  BY <1>1 DEF Sessions
<1> HIDE DEF U
<1>7. CASE Begins(U, n + 1)
  <2>1. B = A \cup {n + 1}
    BY <1>1, <1>2, <1>7
  <2>2. Cardinality(B) = Cardinality(A) + 1
    BY <1>4, <1>6, <2>1, FS_AddElement
  <2>3. Sessions(U) = Sessions(T) + 1
    BY <1>4, <1>5, <2>2
  <2> QED  BY <1>3, <1>4, <1>7, <1>9, <2>3 DEF U
<1>8. CASE ~Begins(U, n + 1)
  <2>1. B = A
    BY <1>1, <1>2, <1>8
  <2>2. Sessions(U) = Sessions(T)
    BY <1>4, <1>5, <2>1
  <2>3. Sessions(U) = Sessions(T) + 0
    BY <1>4, <2>2
  <2> QED  BY <1>3, <1>4, <1>8, <1>9, <2>3 DEF U
<1> QED  BY <1>7, <1>8

Pieces(i, T, n) ==
    [k \in 1 .. Len(T) |-> IF SessionAt(T, k) = n THEN Decode(i, T[k]) ELSE <<>>]

LEMMA ReplayIsJoin ==
    ASSUME NEW i, NEW T \in Seq(Rec), NEW n
    PROVE  \E f : IsJoin(f, Pieces(i, T, n), Len(T)) /\ Replay(i, T, n) = f[Len(T)]
<1> DEFINE F == CHOOSE f : f = [k \in 0 .. Len(T) |->
                     IF k = 0 THEN <<>>
                     ELSE f[k - 1] \o (IF SessionAt(T, k) = n THEN Decode(i, T[k]) ELSE <<>>)]
           g == Pieces(i, T, n)
<1>1. \A k \in 0 .. Len(T) : k # 0 =>
          g[k] = IF SessionAt(T, k) = n THEN Decode(i, T[k]) ELSE <<>>
  BY DEF Pieces
<1>2. \A f : IsJoin(f, g, Len(T)) <=> f = [k \in 0 .. Len(T) |->
                     IF k = 0 THEN <<>>
                     ELSE f[k - 1] \o (IF SessionAt(T, k) = n THEN Decode(i, T[k]) ELSE <<>>)]
  <2> HIDE DEF g
  <2>1. ASSUME NEW f
        PROVE  [k \in 0 .. Len(T) |-> IF k = 0 THEN <<>> ELSE f[k - 1] \o g[k]]
               = [k \in 0 .. Len(T) |-> IF k = 0 THEN <<>>
                     ELSE f[k - 1] \o (IF SessionAt(T, k) = n THEN Decode(i, T[k]) ELSE <<>>)]
    BY <1>1
  <2> QED  BY <2>1 DEF IsJoin
<1>3. \E f : IsJoin(f, g, Len(T))
  BY JoinExists
<1>4. Replay(i, T, n) = F[Len(T)]
  BY DEF Replay
<1> HIDE DEF g
<1>5. IsJoin(F, g, Len(T))
  BY <1>2, <1>3
<1> QED  BY <1>4, <1>5 DEF g

(* A replay of a file that got one more envelope.                          *)
More(i, T, r, n) == IF Sessions(Append(T, r)) = n THEN Decode(i, r) ELSE <<>>

LEMMA ReplayAppend ==
    ASSUME NEW i, NEW T \in Seq(Rec), NEW r \in Rec, NEW n
    PROVE  Replay(i, Append(T, r), n) = Replay(i, T, n) \o More(i, T, r, n)
<1> DEFINE U == Append(T, r)
           m == Len(T)
           g == Pieces(i, T, n)
           h == Pieces(i, U, n)
<1>1. U \in Seq(Rec) /\ m \in Nat /\ Len(U) = m + 1 /\ U[m + 1] = r /\ \A k \in 1 .. m : U[k] = T[k]
  BY Appended
<1>2. \A k \in 1 .. m : SessionAt(U, k) = SessionAt(T, k)
  BY SessionSame
<1>3. SessionAt(U, m + 1) = Sessions(U)
  BY SessionsAppend
<1> HIDE DEF U
<1>4. \A k \in 1 .. m : g[k] = h[k]
  BY <1>1, <1>2 DEF Pieces
<1>5. h[m + 1] = More(i, T, r, n)
  BY <1>1, <1>3 DEF Pieces, More, U
<1>6. PICK F : IsJoin(F, g, m) /\ Replay(i, T, n) = F[m]
  BY ReplayIsJoin
<1>7. PICK G : IsJoin(G, h, m + 1) /\ Replay(i, U, n) = G[m + 1]
  BY <1>1, ReplayIsJoin
<1> HIDE DEF g, h, m
<1>8. F[m] = G[m]
  <2>1. \A k \in 0 .. m : F[k] = G[k]
    <3>1. m + 1 \in Nat /\ m <= m + 1
      BY <1>1
    <3> QED  BY <1>1, <1>4, <1>6, <1>7, <3>1, JoinSame
  <2> QED  BY <1>1, <2>1
<1>9. G[m + 1] = G[m] \o h[m + 1]
  <2>1. Joins(G, h, m + 1)
    BY <1>1, <1>7, JoinStep
  <2>2. PICK k \in 1 .. m + 1 : k = m + 1 /\ k - 1 = m
    BY <1>1
  <2>3. G[k] = G[k - 1] \o h[k]
    BY <2>1 DEF Joins
  <2> QED  BY <2>2, <2>3
<1> QED  BY <1>5, <1>6, <1>7, <1>8, <1>9 DEF U

LEMMA ReplayTyped ==
    ASSUME NEW i, NEW T \in Seq(Rec), NEW n
    PROVE  Replay(i, T, n) \in Seq(Ev)
<1> DEFINE g == Pieces(i, T, n)
<1>1. Len(T) \in Nat /\ \A k \in 1 .. Len(T) : T[k] \in Rec
  OBVIOUS
<1>2. \A k \in 1 .. Len(T) : g[k] \in Seq(Ev)
  BY <1>1, Decoded DEF Pieces
<1>3. PICK f : IsJoin(f, g, Len(T)) /\ Replay(i, T, n) = f[Len(T)]
  BY ReplayIsJoin
<1> HIDE DEF g
<1>4. \A k \in 0 .. Len(T) : f[k] \in Seq(Ev)
  BY <1>1, <1>2, <1>3, JoinTyped
<1> QED  BY <1>1, <1>3, <1>4

LEMMA ReplayNothing ==
    ASSUME NEW i, NEW n
    PROVE  Replay(i, <<>>, n) = <<>> /\ Sessions(<<>>) = 0
<1>1. <<>> \in Seq(Rec) /\ Len(<<>>) = 0
  OBVIOUS
<1>2. PICK f : IsJoin(f, Pieces(i, <<>>, n), Len(<<>>)) /\ Replay(i, <<>>, n) = f[Len(<<>>)]
  BY <1>1, ReplayIsJoin
<1>3. Joins(f, Pieces(i, <<>>, n), Len(<<>>))
  BY <1>1, <1>2, JoinStep
<1>4. {j \in 1 .. Len(<<>>) : Begins(<<>>, j)} = {}
  BY <1>1
<1>5. Sessions(<<>>) = 0
  BY <1>4, FS_EmptySet DEF Sessions, SessionAt
<1> QED  BY <1>1, <1>2, <1>3, <1>5 DEF Joins

LEMMA SessionMonotone ==
    ASSUME NEW T \in Seq(Rec), NEW k \in 1 .. Len(T)
    PROVE  SessionAt(T, k) <= Sessions(T)
<1>1. Len(T) \in Nat /\ k \in Nat
  OBVIOUS
<1>2. {j \in 1 .. k : Begins(T, j)} \subseteq {j \in 1 .. Len(T) : Begins(T, j)}
  BY <1>1
<1>3. IsFiniteSet({j \in 1 .. Len(T) : Begins(T, j)})
  BY <1>1, SessionNumber
<1> QED  BY <1>2, <1>3, FS_Subset DEF SessionAt, Sessions

(* No envelope of a file is of a session that has yet to begin.            *)
LEMMA ReplayUnbegun ==
    ASSUME NEW i, NEW T \in Seq(Rec), NEW n \in Nat, Sessions(T) < n
    PROVE  Replay(i, T, n) = <<>>
<1> DEFINE g == Pieces(i, T, n)
<1>1. Len(T) \in Nat /\ Sessions(T) \in Nat
  <2>1. Len(T) \in Nat
    OBVIOUS
  <2> QED  BY <2>1, SessionNumber DEF Sessions
<1>2. ASSUME NEW k \in 1 .. Len(T)
      PROVE  SessionAt(T, k) # n
  <2>0. k \in Nat
    BY <1>1
  <2>1. SessionAt(T, k) <= Sessions(T) /\ SessionAt(T, k) \in Nat
    BY <2>0, SessionMonotone, SessionNumber
  <2> QED  BY <1>1, <2>1
<1>3. \A k \in 1 .. Len(T) : g[k] \in Seq({})
  BY <1>2 DEF Pieces
<1>4. PICK f : IsJoin(f, g, Len(T)) /\ Replay(i, T, n) = f[Len(T)]
  BY ReplayIsJoin
<1> HIDE DEF g
<1>5. f[Len(T)] \in Seq({})
  <2>1. \A k \in 0 .. Len(T) : f[k] \in Seq({})
    BY <1>1, <1>3, <1>4, JoinTyped
  <2> QED  BY <1>1, <2>1
<1> QED  BY <1>4, <1>5

-----------------------------------------------------------------------------
(* The merge.  The vector of a pass holds the feeds not finished, none of  *)
(* them missing, and the one that speaks is one of them that is ready.     *)
Passing(i) == IF i \in finished THEN <<>> ELSE <<i>>

LEMMA PushedIsJoin == IsJoin(Pushed, [i \in Feed |-> Passing(i)], Feeds)
<1> DEFINE g == [i \in Feed |-> Passing(i)]
           F == CHOOSE f : f = [i \in 0 .. Feeds |->
                     IF i = 0 THEN <<>> ELSE f[i - 1] \o (IF i \in finished THEN <<>> ELSE <<i>>)]
<1>1. Feeds \in Nat
  BY FeedsAssumption
<1>2. \A i \in 0 .. Feeds : i # 0 => g[i] = IF i \in finished THEN <<>> ELSE <<i>>
  BY <1>1 DEF Feed, Passing
<1>3. \A f : IsJoin(f, g, Feeds) <=> f = [i \in 0 .. Feeds |->
                     IF i = 0 THEN <<>> ELSE f[i - 1] \o (IF i \in finished THEN <<>> ELSE <<i>>)]
  <2> HIDE DEF g
  <2>1. ASSUME NEW f
        PROVE  [i \in 0 .. Feeds |-> IF i = 0 THEN <<>> ELSE f[i - 1] \o g[i]]
               = [i \in 0 .. Feeds |-> IF i = 0 THEN <<>>
                     ELSE f[i - 1] \o (IF i \in finished THEN <<>> ELSE <<i>>)]
    BY <1>2
  <2> QED  BY <2>1 DEF IsJoin
<1>4. \E f : IsJoin(f, g, Feeds)
  BY <1>1, JoinExists
<1>5. Pushed = F
  BY DEF Pushed
<1> HIDE DEF g
<1>6. IsJoin(F, g, Feeds)
  BY <1>3, <1>4
<1> QED  BY <1>5, <1>6 DEF g

LEMMA PassIsTheUnfinished ==
    /\ Pending \in Seq(Feed \ finished)
    /\ Pending = <<>> => Feed \subseteq finished
<1> DEFINE g == [i \in Feed |-> Passing(i)]
<1>1. Feeds \in Nat /\ IsJoin(Pushed, g, Feeds)
  BY FeedsAssumption, PushedIsJoin
<1>2. \A i \in 1 .. Feeds : g[i] \in Seq(Feed \ finished)
  <2> SUFFICES ASSUME NEW i \in Feed
               PROVE  Passing(i) \in Seq(Feed \ finished)
    BY DEF Feed
  <2>1. CASE i \in finished
    BY <2>1 DEF Passing
  <2>2. CASE i \notin finished
    <3>1. i \in Feed \ finished
      BY <2>2
    <3> HIDE DEF Feed
    <3>2. <<i>> \in Seq(Feed \ finished)
      BY <3>1
    <3> QED  BY <2>2, <3>2 DEF Passing
  <2> QED  BY <2>1, <2>2
<1>3. \A i \in 1 .. Feeds : i \notin finished => Len(g[i]) = 1
  BY DEF Feed, Passing
<1> HIDE DEF g
<1>4. \A i \in 0 .. Feeds : Pushed[i] \in Seq(Feed \ finished)
  BY <1>1, <1>2, JoinTyped
<1>5. Joins(Pushed, g, Feeds)
  BY <1>1, JoinStep
<1>6. \A i \in 1 .. Feeds : Len(Pushed[i - 1]) \in Nat /\ Len(Pushed[i]) = Len(Pushed[i - 1]) + Len(g[i])
  <2> SUFFICES ASSUME NEW i \in 1 .. Feeds
               PROVE  Len(Pushed[i - 1]) \in Nat /\ Len(Pushed[i]) = Len(Pushed[i - 1]) + Len(g[i])
    OBVIOUS
  <2>1. Pushed[i] = Pushed[i - 1] \o g[i]
    BY <1>5 DEF Joins
  <2>2. Pushed[i - 1] \in Seq(Feed \ finished) /\ g[i] \in Seq(Feed \ finished)
    BY <1>1, <1>2, <1>4
  <2> QED  BY <2>1, <2>2
<1>7. ASSUME NEW j \in Feed, j \notin finished
      PROVE  \A i \in j .. Feeds : Len(Pushed[i]) >= 1
  <2> DEFINE Bad == {i \in j .. Feeds : ~(Len(Pushed[i]) >= 1)}
  <2>1. j \in 1 .. Feeds
    BY DEF Feed
  <2>2. ASSUME NEW i \in Bad, \A x \in Bad : i <= x
        PROVE  FALSE
    <3>1. i \in 1 .. Feeds /\ Len(g[i]) \in Nat
      BY <1>1, <1>2, <2>1
    <3>4. PICK a \in Nat, b \in Nat : a = Len(Pushed[i - 1]) /\ b = Len(g[i]) /\ Len(Pushed[i]) = a + b
      BY <1>6, <3>1
    <3>5. ~(a + b >= 1)
      BY <2>2, <3>4
    <3>2. CASE i = j
      <4>1. b = 1
        BY <1>3, <1>7, <3>1, <3>2, <3>4
      <4> QED  BY <3>5, <4>1
    <3>3. CASE i # j
      <4>1. i - 1 \in j .. Feeds /\ i - 1 \notin Bad
        BY <1>1, <2>1, <2>2, <3>1, <3>3
      <4>2. Len(Pushed[i - 1]) >= 1
        BY <4>1
      <4>3. a >= 1
        BY <3>4, <4>2
      <4> QED  BY <3>5, <4>3
    <3> QED  BY <3>2, <3>3
  <2>3. Bad \subseteq Nat
    BY <2>1
  <2>4. Bad = {}
    BY <2>2, <2>3, LeastNatural
  <2> QED  BY <2>4
<1>8. Pending = <<>> => Feed \subseteq finished
  <2> SUFFICES ASSUME Pending = <<>>, NEW j \in Feed, j \notin finished
               PROVE  FALSE
    OBVIOUS
  <2>1. Feeds \in j .. Feeds
    BY <1>1 DEF Feed
  <2>2. Len(Pushed[Feeds]) >= 1
    BY <1>7, <2>1
  <2> QED  BY <2>2 DEF Pending
<1> QED  BY <1>1, <1>4, <1>8 DEF Pending

LEMMA SpokeIsReady ==
    ASSUME SomeReady
    PROVE  Spoke \in Feed \ finished /\ Ready(Spoke)
<1> DEFINE S == {k \in DOMAIN Pending : Ready(Pending[k])}
<1>1. S # {}
  BY DEF SomeReady
<1>2. Pending \in Seq(Feed \ finished)
  BY PassIsTheUnfinished
<1>3. S \subseteq Nat
  BY <1>2
<1>4. Which \in S
  <2>1. \E k \in S : \A y \in S : k <= y
    BY <1>1, <1>3, LeastNatural
  <2> QED  BY <2>1 DEF Which, Min
<1> QED  BY <1>2, <1>4 DEF Spoke

-----------------------------------------------------------------------------
(* Types, and how far each feed of a run has got.                          *)
Origin == [day : Day \cup {None}, session : Nat, stayed : BOOLEAN]
Run    == [feed : Feed, day : Day \cup {None}, session : Nat, stayed : BOOLEAN,
           shown : Seq(Ev), how : {"drained", "killed"}]

MergeTypes ==
    /\ arrived \in [Feed -> 0 .. Capacity] /\ closed \subseteq Feed /\ finished \subseteq Feed
    /\ stopping \in BOOLEAN /\ ended \in BOOLEAN

DiskTypes ==
    /\ file \in [Feed -> [Day -> Seq(Rec)]] /\ torn \subseteq Feed \X Day
    /\ buffer \in [Feed -> Seq(Rec)] /\ sequence \in [Feed -> Nat]
    /\ openDay \in [Feed -> Day \cup {None}]

RunTypes ==
    /\ up \in 0 .. Feeds /\ day \in Day
    /\ outbox \in [Feed -> Seq(Ev)] /\ sent \in [Feed -> Seq(Ev)]
    /\ origin \in [Feed -> Origin] /\ runs \subseteq Run

Bounded(i) == sequence[i] <= MaxSequence[i] /\ Len(outbox[i]) <= Tickers + 1

(* A feed that has not started holds nothing; one that runs has its        *)
(* recorder at a file; what waits to be delivered was sent.                *)
Idle(i)    == openDay[i] = None /\ buffer[i] = <<>> /\ outbox[i] = <<>> /\ sent[i] = <<>>
Active(i)  == openDay[i] \in Day /\ openDay[i] <= day
Counted(i) == arrived[i] <= Len(sent[i])

Typed == /\ MergeTypes /\ DiskTypes /\ RunTypes
         /\ \A i \in Feed : /\ Bounded(i) /\ Counted(i)
                            /\ IF i <= up THEN Active(i) ELSE Idle(i)

(* A feed closes with nothing left to send or to flush; the merge takes it *)
(* for finished when it has closed and all it sent was delivered; and the  *)
(* merge ends when all have finished.                                      *)
Draining ==
    /\ closed \subseteq 1 .. up /\ finished \subseteq closed
    /\ \A i \in closed : outbox[i] = <<>> /\ buffer[i] = <<>>
    /\ \A i \in finished : arrived[i] = 0
    /\ ended => Feed \subseteq finished

(* All that was written of a day, on disk or in the open member.           *)
Held(i, d) == IF openDay[i] = d THEN file[i][d] \o buffer[i] ELSE file[i][d]

LEMMA FeedsAreNaturals ==
    /\ Feeds \in Nat /\ Feeds > 0 /\ Capacity \in Nat \ {0} /\ Days \in Nat \ {0} /\ Tickers \in Nat
    /\ MaxSequence \in [Feed -> Nat] /\ Kalshi \in Feed
    /\ \A i \in Feed : i \in Nat /\ 1 <= i /\ i <= Feeds
    /\ \A d \in Day : d \in Nat /\ d # None
    /\ \A i \in Feed : \A kind \in Writes[i] : kind \in Kind
<1>1. /\ Feeds \in Nat /\ Feeds > 0 /\ Capacity \in Nat \ {0} /\ Days \in Nat \ {0}
      /\ Tickers \in Nat /\ MaxSequence \in [Feed -> Nat]
  BY FeedsAssumption, RecordingAssumption
<1>2. \A i \in Feed : \A kind \in Writes[i] : kind \in Kind
  BY RecordingAssumption DEF Kind
<1> QED  BY <1>1, <1>2 DEF Feed, Day, Kalshi, None

LEMMA HeldTyped ==
    ASSUME DiskTypes
    PROVE  \A i \in Feed, d \in Day : Held(i, d) \in Seq(Rec) /\ file[i][d] \in Seq(Rec)
<1> SUFFICES ASSUME NEW i \in Feed, NEW d \in Day
             PROVE  Held(i, d) \in Seq(Rec) /\ file[i][d] \in Seq(Rec)
  OBVIOUS
<1>1. file[i][d] \in Seq(Rec) /\ buffer[i] \in Seq(Rec)
  BY DEF DiskTypes
<1>2. file[i][d] \o buffer[i] \in Seq(Rec)
  BY <1>1
<1> QED  BY <1>1, <1>2 DEF Held

LEMMA StoredIsHeld ==
    ASSUME DiskTypes, NEW i \in Feed
    PROVE  /\ Stored(i) \in [Feed -> [Day -> Seq(Rec)]]
           /\ \A j \in Feed, d \in Day : Stored(i)[j][d] = IF j = i THEN Held(i, d) ELSE file[j][d]
<1>1. CASE openDay[i] = None
  <2>1. \A d \in Day : openDay[i] # d
    BY <1>1, FeedsAreNaturals
  <2> QED  BY <1>1, <2>1 DEF Stored, Held, DiskTypes
<1>2. CASE openDay[i] # None
  <2>1. openDay[i] \in Day
    BY <1>2 DEF DiskTypes
  <2>2. Stored(i) = [file EXCEPT ![i][openDay[i]] = @ \o buffer[i]]
    BY <1>2 DEF Stored
  <2>3. \A j \in Feed, d \in Day :
            Stored(i)[j][d] = IF j = i THEN Held(i, d) ELSE file[j][d]
    BY <2>1, <2>2 DEF Held, DiskTypes
  <2>4. \A j \in Feed, d \in Day : Stored(i)[j][d] \in Seq(Rec)
    BY <2>3, HeldTyped
  <2>5. Stored(i) \in [Feed -> [Day -> Seq(Rec)]]
    BY <2>1, <2>2, HeldTyped DEF DiskTypes, Held
  <2> QED  BY <2>3, <2>5
<1> QED  BY <1>1, <1>2

-----------------------------------------------------------------------------
(* What the recorder does: the numbers it hands out, and what is on disk   *)
(* and held after it.                                                      *)
LEMMA ResumedAbove ==
    ASSUME DiskTypes, NEW i \in Feed, NEW d \in Day
    PROVE  /\ Resumed(i, d) \in Nat /\ sequence[i] <= Resumed(i, d)
           /\ \A k \in DOMAIN Held(i, d) : Held(i, d)[k].seq <= Resumed(i, d)
<1> DEFINE T == Held(i, d)
           N == {r.seq : r \in Range(Stored(i)[i][d])}
           S == {sequence[i]} \cup N
<1>1. T \in Seq(Rec) /\ Stored(i)[i][d] = T
  BY HeldTyped, StoredIsHeld
<1>2. \A k \in DOMAIN T : T[k] \in Rec /\ T[k].seq \in Nat
  <2>1. \A k \in DOMAIN T : T[k] \in Rec
    BY <1>1
  <2> QED  BY <2>1 DEF Rec
<1>3. DOMAIN T = 1 .. Len(T) /\ Len(T) \in Nat
  BY <1>1
<1> HIDE DEF T
<1>4. N = {T[k].seq : k \in DOMAIN T}
  BY <1>1 DEF Range
<1>5. IsFiniteSet(N)
  <2> DEFINE g == [k \in DOMAIN T |-> T[k].seq]
  <2>1. g \in Surjection(DOMAIN T, N)
    BY <1>4 DEF Surjection
  <2>2. IsFiniteSet(DOMAIN T)
    BY <1>3, FS_Interval
  <2> QED  BY <2>1, <2>2, FS_Surjection
<1>6. IsFiniteSet(S) /\ S # {} /\ S \subseteq Nat
  <2>1. IsFiniteSet(S)
    <3> HIDE DEF N
    <3>1. IsFiniteSet(N \cup {sequence[i]})
      BY <1>5, FS_AddElement
    <3>2. S = N \cup {sequence[i]}
      OBVIOUS
    <3> QED  BY <3>1, <3>2
  <2>2. sequence[i] \in Nat
    BY DEF DiskTypes
  <2> QED  BY <1>2, <1>4, <2>1, <2>2
<1>7. Resumed(i, d) = Max(S)
  BY DEF Resumed
<1> HIDE DEF S
<1>8. Max(S) \in S /\ \A y \in S : Max(S) >= y
  BY <1>6, GreatestNatural DEF Max
<1>9. sequence[i] \in S /\ \A k \in DOMAIN T : T[k].seq \in S
  BY <1>4 DEF S
<1>10. \A y \in S : y \in Nat
  BY <1>6
<1>11. Resumed(i, d) \in Nat /\ \A y \in S : y <= Resumed(i, d)
  BY <1>7, <1>8, <1>10
<1> QED  BY <1>9, <1>11 DEF T

(* An envelope r is written for feed i on the clock's day.  What the open  *)
(* member held of another day goes to disk.                                *)
Appends(i, r) ==
    /\ \A j \in Feed, d \in Day :
          /\ Held(j, d)' = IF j = i /\ d = day THEN Append(Held(j, d), r) ELSE Held(j, d)
          /\ file'[j][d] = IF j = i /\ d # day THEN Held(j, d) ELSE file[j][d]
    /\ \A j \in Feed \ {i} : buffer'[j] = buffer[j]
    /\ sequence' = [sequence EXCEPT ![i] = r.seq] /\ openDay' = [openDay EXCEPT ![i] = day]
    /\ r.seq <= MaxSequence[i] /\ sequence[i] < r.seq
    /\ openDay[i] # day => \A k \in DOMAIN Held(i, day) : Held(i, day)[k].seq < r.seq

LEMMA AppendEffect ==
    ASSUME DiskTypes, day \in Day, NEW i \in Feed, NEW kind \in Kind, AppendRecord(i, kind)
    PROVE  DiskTypes' /\ \E r \in Rec : r = Envelope(kind, sequence'[i]) /\ Appends(i, r)
<1> DEFINE moves == openDay[i] # day
           base  == IF moves THEN Resumed(i, day) ELSE sequence[i]
           r     == Envelope(kind, base + 1)
<1>1. base \in Nat /\ sequence[i] <= base /\ sequence[i] \in Nat
  BY ResumedAbove DEF DiskTypes
<1>2. moves => \A k \in DOMAIN Held(i, day) : Held(i, day)[k].seq <= base
  BY ResumedAbove
<1>3. moves => \A k \in DOMAIN Held(i, day) : Held(i, day)[k].seq \in Nat
  <2>1. Held(i, day) \in Seq(Rec)
    BY HeldTyped
  <2>2. \A k \in DOMAIN Held(i, day) : Held(i, day)[k] \in Rec
    BY <2>1
  <2> QED  BY <2>2 DEF Rec
<1>4. r.seq <= MaxSequence[i]
  BY DEF AppendRecord
<1>5. sequence' = [sequence EXCEPT ![i] = r.seq] /\ openDay' = [openDay EXCEPT ![i] = day]
  BY DEF AppendRecord
<1>6. /\ file' = IF moves THEN Stored(i) ELSE file
      /\ buffer' = [buffer EXCEPT ![i] = IF moves THEN <<r>> ELSE Append(@, r)]
      /\ torn' = torn
  BY DEF AppendRecord
<1> HIDE DEF base
<1>7. r \in Rec /\ r.seq = base + 1 /\ sequence[i] < r.seq /\ r.seq \in Nat
  BY <1>1 DEF Rec, Envelope
<1>8. moves => \A k \in DOMAIN Held(i, day) : Held(i, day)[k].seq < r.seq
  BY <1>1, <1>2, <1>3, <1>7
<1>9. r = Envelope(kind, sequence'[i])
  BY <1>5, <1>7 DEF DiskTypes
<1> HIDE DEF r
<1>10. \A j \in Feed, d \in Day :
          /\ file'[j][d] = IF j = i /\ d # day THEN Held(j, d) ELSE file[j][d]
          /\ Held(j, d)' = IF j = i /\ d = day THEN Append(Held(j, d), r) ELSE Held(j, d)
  <2> SUFFICES ASSUME NEW j \in Feed, NEW d \in Day
               PROVE  /\ file'[j][d] = IF j = i /\ d # day THEN Held(j, d) ELSE file[j][d]
                      /\ Held(j, d)' = IF j = i /\ d = day THEN Append(Held(j, d), r) ELSE Held(j, d)
    OBVIOUS
  <2>1. /\ Held(j, d) = IF openDay[j] = d THEN file[j][d] \o buffer[j] ELSE file[j][d]
        /\ Held(j, d)' = IF openDay'[j] = d THEN file'[j][d] \o buffer'[j] ELSE file'[j][d]
    BY DEF Held
  <2>2. file[j][d] \in Seq(Rec) /\ buffer[j] \in Seq(Rec)
    BY DEF DiskTypes
  <2>3. CASE j # i
    <3>1. openDay'[j] = openDay[j] /\ buffer'[j] = buffer[j] /\ file'[j][d] = file[j][d]
      BY <1>5, <1>6, <2>3, StoredIsHeld DEF DiskTypes
    <3> QED  BY <2>1, <2>3, <3>1
  <2>4. CASE j = i /\ moves
    <3>1. openDay'[i] = day /\ buffer'[i] = <<r>> /\ file'[i][d] = Held(i, d)
      BY <1>5, <1>6, <2>4, StoredIsHeld DEF DiskTypes
    <3>2. d = day => Held(i, d) = file[i][d]
      BY <2>1, <2>4
    <3>3. file[i][d] \o <<r>> = Append(file[i][d], r)
      BY <1>7, <2>2, <2>4
    <3> QED  BY <2>1, <2>4, <3>1, <3>2, <3>3
  <2>5. CASE j = i /\ ~moves
    <3>1. openDay'[i] = day /\ openDay[i] = day /\ buffer'[i] = Append(buffer[i], r) /\ file' = file
      BY <1>5, <1>6, <2>5 DEF DiskTypes
    <3>2. file[i][d] \o Append(buffer[i], r) = Append(file[i][d] \o buffer[i], r)
      <4> DEFINE F == file[i][d]
                 B == buffer[i]
      <4>1. F \in Seq(Rec) /\ B \in Seq(Rec) /\ r \in Rec
        BY <1>7, <2>2, <2>5
      <4> HIDE DEF F, B, moves
      <4>2. F \o Append(B, r) = Append(F \o B, r)
        BY <4>1, JoinedAppend
      <4> QED  BY <4>2 DEF F, B
    <3> QED  BY <2>1, <2>5, <3>1, <3>2
  <2> QED  BY <2>3, <2>4, <2>5
<1>11. DiskTypes'
  <2>1. file' \in [Feed -> [Day -> Seq(Rec)]]
    BY <1>6, StoredIsHeld DEF DiskTypes
  <2>2. buffer' \in [Feed -> Seq(Rec)]
    <3>1. buffer[i] \in Seq(Rec)
      BY DEF DiskTypes
    <3>2. <<r>> \in Seq(Rec) /\ Append(buffer[i], r) \in Seq(Rec)
      BY <1>7, <3>1
    <3> QED  BY <1>6, <3>2 DEF DiskTypes
  <2> QED  BY <1>5, <1>6, <1>7, <2>1, <2>2 DEF DiskTypes
<1>12. \A j \in Feed \ {i} : buffer'[j] = buffer[j]
  BY <1>6 DEF DiskTypes
<1>13. Appends(i, r)
  BY <1>4, <1>5, <1>7, <1>8, <1>10, <1>12 DEF Appends
<1> QED  BY <1>7, <1>9, <1>11, <1>13

Flushes(i) ==
    /\ \A j \in Feed, d \in Day : /\ Held(j, d)' = Held(j, d)
                                  /\ file'[j][d] = IF j = i THEN Held(j, d) ELSE file[j][d]
    /\ buffer' = [buffer EXCEPT ![i] = <<>>]
    /\ sequence' = sequence /\ openDay' = openDay

LEMMA FlushEffect ==
    ASSUME DiskTypes, NEW i \in Feed, Flush(i)
    PROVE  DiskTypes' /\ Flushes(i)
<1>1. /\ file' = Stored(i) /\ buffer' = [buffer EXCEPT ![i] = <<>>]
      /\ torn' = torn /\ sequence' = sequence /\ openDay' = openDay
  BY DEF Flush
<1>2. DiskTypes'
  <2>1. <<>> \in Seq(Rec)
    OBVIOUS
  <2> QED  BY <1>1, <2>1, StoredIsHeld DEF DiskTypes
<1>3. \A j \in Feed, d \in Day : /\ Held(j, d)' = Held(j, d)
                                 /\ file'[j][d] = IF j = i THEN Held(j, d) ELSE file[j][d]
  <2> SUFFICES ASSUME NEW j \in Feed, NEW d \in Day
               PROVE  /\ Held(j, d)' = Held(j, d)
                      /\ file'[j][d] = IF j = i THEN Held(j, d) ELSE file[j][d]
    OBVIOUS
  <2>1. file'[j][d] = IF j = i THEN Held(j, d) ELSE file[j][d]
    BY <1>1, StoredIsHeld
  <2>2. /\ Held(j, d) = IF openDay[j] = d THEN file[j][d] \o buffer[j] ELSE file[j][d]
        /\ Held(j, d)' = IF openDay[j] = d THEN file'[j][d] \o buffer'[j] ELSE file'[j][d]
    BY <1>1 DEF Held
  <2>3. CASE j # i
    <3>1. buffer'[j] = buffer[j]
      BY <1>1, <2>3 DEF DiskTypes
    <3> QED  BY <2>1, <2>2, <2>3, <3>1
  <2>4. CASE j = i
    <3>1. buffer'[i] = <<>> /\ file'[i][d] = Held(i, d)
      BY <1>1, <2>1, <2>4 DEF DiskTypes
    <3>2. Held(i, d) \o <<>> = Held(i, d)
      <4>1. Held(i, d) \in Seq(Rec)
        BY HeldTyped
      <4> QED  BY <4>1
    <3> QED  BY <2>2, <2>4, <3>1, <3>2
  <2> QED  BY <2>3, <2>4
<1> QED  BY <1>1, <1>2, <1>3 DEF Flushes

-----------------------------------------------------------------------------
(* Types and draining are kept by every action.                            *)
Base == Typed /\ Draining

LEMMA Fresh ==
    /\ \A x, i : i \in Feed => Each(x)[i] = x
    /\ Each(0) \in [Feed -> 0 .. Capacity] /\ Each(0) \in [Feed -> Nat]
    /\ Each(<<>>) \in [Feed -> Seq(Rec)] /\ Each(<<>>) \in [Feed -> Seq(Ev)]
    /\ Each(None) \in [Feed -> Day \cup {None}] /\ Each(Nowhere) \in [Feed -> Origin]
    /\ \A i \in Feed : [j \in Feed |-> 0][i] = 0
<1>1. 0 \in 0 .. Capacity /\ 0 \in Nat
  BY FeedsAreNaturals
<1>2. <<>> \in Seq(Rec) /\ <<>> \in Seq(Ev)
  OBVIOUS
<1>3. Nowhere \in Origin
  BY DEF Nowhere, Origin
<1> QED  BY <1>1, <1>2, <1>3 DEF Each

LEMMA BaseInit == Init => Base
<1> SUFFICES ASSUME Init
             PROVE  Base
  OBVIOUS
<1>1. /\ arrived = Each(0) /\ closed = {} /\ finished = {} /\ stopping = FALSE /\ ended = FALSE
      /\ day = 1 /\ up = 0 /\ torn = {} /\ buffer = Each(<<>>) /\ sequence = Each(0)
      /\ openDay = Each(None) /\ outbox = Each(<<>>) /\ sent = Each(<<>>)
      /\ origin = Each(Nowhere) /\ runs = {} /\ file = Each([d \in Day |-> <<>>])
  BY DEF Init, MergeInit, Each
<1>2. 1 \in Day /\ 0 \in 0 .. Feeds
  BY FeedsAreNaturals DEF Day
<1>3. file \in [Feed -> [Day -> Seq(Rec)]]
  BY <1>1 DEF Each
<1>4. MergeTypes /\ DiskTypes /\ RunTypes
  BY <1>1, <1>2, <1>3, Fresh DEF MergeTypes, DiskTypes, RunTypes
<1>5. \A i \in Feed : sequence[i] = 0 /\ outbox[i] = <<>> /\ arrived[i] = 0 /\ sent[i] = <<>> /\ Idle(i)
  BY <1>1, Fresh DEF Idle
<1>6. \A i \in Feed : Bounded(i) /\ Counted(i) /\ ~(i <= up)
  BY <1>1, <1>5, FeedsAreNaturals DEF Bounded, Counted
<1>7. Draining
  BY <1>1 DEF Draining
<1> QED  BY <1>4, <1>5, <1>6, <1>7 DEF Base, Typed

LEMMA Between ==
    ASSUME Base
    PROVE  /\ up \in Nat /\ DiskTypes /\ RunTypes /\ MergeTypes
           /\ \A i \in Feed : i <= up => i \in 1 .. up
           /\ \A i \in 1 .. up : i \in Feed /\ i <= up
<1>1. DiskTypes /\ RunTypes /\ MergeTypes
  BY DEF Base, Typed
<1>2. up \in Nat /\ up <= Feeds
  BY <1>1, FeedsAreNaturals DEF RunTypes
<1> QED  BY <1>1, <1>2, FeedsAreNaturals DEF Feed

LEMMA StartTypes ==
    ASSUME Base, StartFeed
    PROVE  Base'
<1> DEFINE i == up + 1
<1>1. /\ up < Feeds /\ up' = i /\ AppendRecord(i, "start")
      /\ origin' = [origin EXCEPT ![i] =
            [day |-> day, session |-> Sessions(file[i][day]) + 1, stayed |-> TRUE]]
      /\ UNCHANGED <<mergeVars, day, linkVars, runs>>
  BY DEF StartFeed
<1>2. UNCHANGED <<arrived, closed, finished, stopping, ended, day, outbox, sent, runs>>
  BY <1>1 DEF mergeVars, linkVars
<1>3. i \in Feed /\ i \in Nat /\ i \in 0 .. Feeds /\ "start" \in Kind /\ day \in Day /\ up \in Nat
  BY <1>1, Between, FeedsAreNaturals DEF Feed, Kind, RunTypes
<1>4. DiskTypes' /\ \E r \in Rec : r = Envelope("start", sequence'[i]) /\ Appends(i, r)
  BY <1>1, <1>3, Between, AppendEffect
<1>5. PICK r \in Rec : Appends(i, r)
  BY <1>4
<1> HIDE DEF i
<1>6. RunTypes'
  <2>1. Sessions(file[i][day]) \in Nat
    <3>1. file[i][day] \in Seq(Rec)
      BY <1>3, Between DEF DiskTypes
    <3>2. Len(file[i][day]) \in Nat
      BY <3>1
    <3> QED  BY <3>2, SessionNumber DEF Sessions
  <2>2. [day |-> day, session |-> Sessions(file[i][day]) + 1, stayed |-> TRUE] \in Origin
    BY <1>3, <2>1 DEF Origin
  <2>3. origin' \in [Feed -> Origin]
    BY <1>1, <2>2, Between DEF RunTypes
  <2> QED  BY <1>1, <1>2, <1>3, <2>3, Between DEF RunTypes
<1>7. ASSUME NEW j \in Feed
      PROVE  /\ Bounded(j)' /\ Counted(j)'
             /\ IF j <= up' THEN Active(j)' ELSE Idle(j)'
  <2>1. Bounded(j) /\ Counted(j) /\ IF j <= up THEN Active(j) ELSE Idle(j)
    BY DEF Base, Typed
  <2>2. Counted(j)'
    BY <1>2, <2>1 DEF Counted
  <2>3. CASE j = i
    <3>1. sequence'[j] = r.seq /\ r.seq <= MaxSequence[j] /\ openDay'[j] = day
      BY <1>3, <1>5, <2>3, Between DEF Appends, DiskTypes
    <3>2. Active(j)'
      BY <1>2, <1>3, <3>1, FeedsAreNaturals DEF Active
    <3>3. j <= up'
      BY <1>1, <1>3, <2>3
    <3> QED  BY <1>2, <2>1, <2>2, <3>1, <3>2, <3>3 DEF Bounded
  <2>4. CASE j # i
    <3>1. sequence'[j] = sequence[j] /\ openDay'[j] = openDay[j] /\ buffer'[j] = buffer[j]
      BY <1>5, <2>4, Between DEF Appends, DiskTypes
    <3>2. j <= up' <=> j <= up
      BY <1>1, <1>3, <2>4, FeedsAreNaturals DEF i
    <3> QED  BY <1>2, <2>1, <2>2, <3>1, <3>2 DEF Bounded, Active, Idle
  <2> QED  BY <2>3, <2>4
<1>8. Draining'
  <2>1. closed \subseteq 1 .. up /\ \A j \in closed : j \in Feed /\ j # i
    BY <1>3, Between DEF i, Base, Draining
  <2>2. \A j \in closed : buffer'[j] = buffer[j]
    BY <1>5, <2>1 DEF Appends
  <2>3. closed \subseteq 1 .. up'
    BY <1>1, <1>3, <2>1 DEF i
  <2> QED  BY <1>2, <2>2, <2>3 DEF Base, Draining
<1>9. MergeTypes'
  BY <1>2, Between DEF MergeTypes
<1> QED  BY <1>4, <1>6, <1>7, <1>8, <1>9 DEF Base, Typed

LEMMA RecordTypes ==
    ASSUME Base, NEW i \in Feed, NEW kind \in Writes[i], Record(i, kind)
    PROVE  Base'
<1>1. /\ Works(i) /\ outbox[i] = <<>> /\ AppendRecord(i, kind)
      /\ outbox' = [outbox EXCEPT ![i] = Sends(i, Envelope(kind, sequence'[i]))]
      /\ origin' = [origin EXCEPT ![i].stayed = @ /\ day = origin[i].day]
      /\ UNCHANGED <<mergeVars, day, sent, up, runs>>
  BY DEF Record
<1>2. UNCHANGED <<arrived, closed, finished, stopping, ended, day, sent, up, runs>>
  BY <1>1 DEF mergeVars
<1>3. kind \in Kind /\ day \in Day /\ i <= up /\ i \notin closed
  BY <1>1, Between, FeedsAreNaturals DEF RunTypes, Works
<1>4. DiskTypes' /\ \E r \in Rec : r = Envelope(kind, sequence'[i]) /\ Appends(i, r)
  BY <1>1, <1>3, Between, AppendEffect
<1>5. PICK r \in Rec : r = Envelope(kind, sequence'[i]) /\ Appends(i, r)
  BY <1>4
<1>6. outbox' = [outbox EXCEPT ![i] = Sends(i, r)] /\ Sends(i, r) \in Seq(Ev)
  BY <1>1, <1>5, Decoded
<1>7. Len(Sends(i, r)) <= Tickers + 1
  BY FeedsAreNaturals DEF Sends
<1>8. RunTypes'
  <2>1. origin'[i] \in Origin /\ \A j \in Feed \ {i} : origin'[j] = origin[j]
    BY <1>1, Between DEF RunTypes, Origin
  <2>2. origin' \in [Feed -> Origin]
    BY <1>1, <2>1, Between DEF RunTypes
  <2>3. outbox' \in [Feed -> Seq(Ev)]
    BY <1>6, Between DEF RunTypes
  <2> QED  BY <1>2, <2>2, <2>3, Between DEF RunTypes
<1>9. ASSUME NEW j \in Feed
      PROVE  /\ Bounded(j)' /\ Counted(j)'
             /\ IF j <= up' THEN Active(j)' ELSE Idle(j)'
  <2>1. Bounded(j) /\ Counted(j) /\ IF j <= up THEN Active(j) ELSE Idle(j)
    BY DEF Base, Typed
  <2>2. Counted(j)'
    BY <1>2, <2>1 DEF Counted
  <2>3. CASE j = i
    <3>1. sequence'[j] = r.seq /\ r.seq <= MaxSequence[j] /\ openDay'[j] = day
      BY <1>5, <2>3, Between DEF Appends, DiskTypes
    <3>2. Active(j)'
      BY <1>2, <1>3, <3>1, FeedsAreNaturals DEF Active
    <3>3. outbox'[j] = Sends(i, r)
      BY <1>6, <2>3, Between DEF RunTypes
    <3> QED  BY <1>2, <1>3, <1>7, <2>2, <2>3, <3>1, <3>2, <3>3 DEF Bounded
  <2>4. CASE j # i
    <3>1. /\ sequence'[j] = sequence[j] /\ openDay'[j] = openDay[j] /\ buffer'[j] = buffer[j]
          /\ outbox'[j] = outbox[j]
      BY <1>5, <1>6, <2>4, Between DEF Appends, DiskTypes, RunTypes
    <3> QED  BY <1>2, <2>1, <2>2, <3>1 DEF Bounded, Active, Idle
  <2> QED  BY <2>3, <2>4
<1>10. Draining'
  <2>1. \A j \in closed : j \in Feed \ {i}
    BY <1>3, Between DEF MergeTypes
  <2>2. \A j \in closed : buffer'[j] = buffer[j] /\ outbox'[j] = outbox[j]
    BY <1>5, <1>6, <2>1, Between DEF Appends, RunTypes
  <2> QED  BY <1>2, <2>2 DEF Base, Draining
<1>11. MergeTypes'
  BY <1>2, Between DEF MergeTypes
<1> QED  BY <1>4, <1>8, <1>9, <1>10, <1>11 DEF Base, Typed

LEMMA FlushTypes ==
    ASSUME Base, NEW i \in Feed, FlushTimer(i)
    PROVE  Base'
<1>1. Works(i) /\ Flush(i) /\ UNCHANGED <<mergeVars, day, linkVars, runVars>>
  BY DEF FlushTimer
<1>2. UNCHANGED <<arrived, closed, finished, stopping, ended, day, outbox, sent, up, origin, runs>>
  BY <1>1 DEF mergeVars, linkVars, runVars
<1>3. DiskTypes' /\ Flushes(i) /\ i <= up
  BY <1>1, Between, FlushEffect DEF Works
<1>4. \A j \in Feed : buffer'[j] = IF j = i THEN <<>> ELSE buffer[j]
  BY <1>3, Between DEF Flushes, DiskTypes
<1>5. ASSUME NEW j \in Feed
      PROVE  /\ Bounded(j)' /\ Counted(j)'
             /\ IF j <= up' THEN Active(j)' ELSE Idle(j)'
  <2>1. Bounded(j) /\ Counted(j) /\ IF j <= up THEN Active(j) ELSE Idle(j)
    BY DEF Base, Typed
  <2>2. sequence' = sequence /\ openDay' = openDay
    BY <1>3 DEF Flushes
  <2> QED  BY <1>2, <1>4, <2>1, <2>2 DEF Bounded, Counted, Active, Idle
<1>6. Draining'
  <2>1. \A j \in closed : j \in Feed
    BY Between DEF MergeTypes
  <2> QED  BY <1>2, <1>4, <2>1 DEF Base, Draining
<1>7. MergeTypes' /\ RunTypes'
  BY <1>2, Between DEF MergeTypes, RunTypes
<1> QED  BY <1>3, <1>5, <1>6, <1>7 DEF Base, Typed

LEMMA SendTypes ==
    ASSUME Base, NEW i \in Feed, Send(i)
    PROVE  Base'
<1>1. /\ Works(i) /\ outbox[i] # <<>> /\ Arrive(i)
      /\ sent' = [sent EXCEPT ![i] = Append(@, Head(outbox[i]))]
      /\ outbox' = [outbox EXCEPT ![i] = Tail(@)]
      /\ UNCHANGED <<day, diskVars, recordVars, runVars>>
  BY DEF Send
<1>2. /\ i \notin closed /\ i <= up /\ arrived[i] < Capacity
      /\ arrived' = [arrived EXCEPT ![i] = @ + 1]
      /\ UNCHANGED <<closed, finished, stopping, ended>>
      /\ UNCHANGED <<day, file, torn, buffer, sequence, openDay, up, origin, runs>>
  BY <1>1 DEF Arrive, Works, diskVars, recordVars, runVars
<1>3. outbox[i] \in Seq(Ev) /\ sent[i] \in Seq(Ev) /\ arrived[i] \in 0 .. Capacity
  BY Between DEF RunTypes, MergeTypes
<1>4. /\ Tail(outbox[i]) \in Seq(Ev) /\ Append(sent[i], Head(outbox[i])) \in Seq(Ev)
      /\ Len(Tail(outbox[i])) = Len(outbox[i]) - 1 /\ Len(outbox[i]) \in Nat
      /\ Len(Append(sent[i], Head(outbox[i]))) = Len(sent[i]) + 1 /\ Len(sent[i]) \in Nat
  BY <1>1, <1>3
<1>5. MergeTypes'
  <2>1. arrived[i] + 1 \in 0 .. Capacity
    BY <1>2, <1>3, FeedsAreNaturals
  <2> QED  BY <1>2, <2>1, Between DEF MergeTypes
<1>6. RunTypes' /\ DiskTypes'
  BY <1>1, <1>2, <1>4, Between DEF RunTypes, DiskTypes
<1>7. ASSUME NEW j \in Feed
      PROVE  /\ Bounded(j)' /\ Counted(j)'
             /\ IF j <= up' THEN Active(j)' ELSE Idle(j)'
  <2>1. Bounded(j) /\ Counted(j) /\ IF j <= up THEN Active(j) ELSE Idle(j)
    BY DEF Base, Typed
  <2>2. CASE j = i
    <3>1. outbox'[j] = Tail(outbox[i]) /\ sent'[j] = Append(sent[i], Head(outbox[i]))
      BY <1>1, <2>2, Between DEF RunTypes
    <3>2. arrived'[j] = arrived[i] + 1
      BY <1>2, <2>2, Between DEF MergeTypes
    <3>3. Counted(j)'
      BY <1>3, <1>4, <2>1, <2>2, <3>1, <3>2 DEF Counted
    <3>4. Bounded(j)'
      BY <1>2, <1>4, <2>1, <2>2, <3>1, FeedsAreNaturals DEF Bounded
    <3> QED  BY <1>2, <2>1, <2>2, <3>3, <3>4 DEF Active
  <2>3. CASE j # i
    <3>1. outbox'[j] = outbox[j] /\ sent'[j] = sent[j] /\ arrived'[j] = arrived[j]
      BY <1>1, <1>2, <2>3, Between DEF RunTypes, MergeTypes
    <3> QED  BY <1>2, <2>1, <3>1 DEF Bounded, Counted, Active, Idle
  <2> QED  BY <2>2, <2>3
<1>8. Draining'
  <2>1. \A j \in closed : j \in Feed /\ j # i
    BY <1>2, Between DEF MergeTypes
  <2>2. \A j \in closed : outbox'[j] = outbox[j] /\ arrived'[j] = arrived[j]
    BY <1>1, <1>2, <2>1, Between DEF RunTypes, MergeTypes
  <2> QED  BY <1>2, <2>2 DEF Base, Draining
<1> QED  BY <1>5, <1>6, <1>7, <1>8 DEF Base, Typed

LEMMA StopsTypes ==
    ASSUME Base, NEW i \in Feed, WorkerStops(i)
    PROVE  Base'
<1>1. /\ Works(i) /\ outbox[i] = <<>> /\ Flush(i) /\ Close(i)
      /\ UNCHANGED <<day, linkVars, runVars>>
  BY DEF WorkerStops
<1>2. /\ i <= up /\ closed' = closed \cup {i}
      /\ UNCHANGED <<arrived, finished, stopping, ended, day, outbox, sent, up, origin, runs>>
  BY <1>1 DEF Works, Close, linkVars, runVars
<1>3. DiskTypes' /\ Flushes(i)
  BY <1>1, Between, FlushEffect
<1>4. \A j \in Feed : buffer'[j] = IF j = i THEN <<>> ELSE buffer[j]
  BY <1>3, Between DEF Flushes, DiskTypes
<1>5. ASSUME NEW j \in Feed
      PROVE  /\ Bounded(j)' /\ Counted(j)'
             /\ IF j <= up' THEN Active(j)' ELSE Idle(j)'
  <2>1. Bounded(j) /\ Counted(j) /\ IF j <= up THEN Active(j) ELSE Idle(j)
    BY DEF Base, Typed
  <2>2. sequence' = sequence /\ openDay' = openDay
    BY <1>3 DEF Flushes
  <2> QED  BY <1>2, <1>4, <2>1, <2>2 DEF Bounded, Counted, Active, Idle
<1>6. Draining'
  <2>1. \A j \in closed' : j \in Feed /\ j \in 1 .. up
    BY <1>2, Between DEF Base, Draining
  <2>2. \A j \in closed' : outbox'[j] = <<>> /\ buffer'[j] = <<>>
    BY <1>1, <1>2, <1>4, <2>1 DEF Base, Draining
  <2> QED  BY <1>2, <2>1, <2>2 DEF Base, Draining
<1>7. MergeTypes' /\ RunTypes'
  BY <1>2, Between DEF MergeTypes, RunTypes
<1> QED  BY <1>3, <1>5, <1>6, <1>7 DEF Base, Typed

(* The engine's loop leaves the recorders and the workers alone.           *)
LEMMA StillIs ==
    ASSUME Base, Still, MergeTypes', Draining', \A i \in Feed : Counted(i)'
    PROVE  Base'
<1>1. UNCHANGED <<day, file, torn, buffer, sequence, openDay, outbox, sent, up, origin, runs>>
  BY DEF Still, diskVars, recordVars, linkVars, runVars
<1>2. DiskTypes' /\ RunTypes'
  BY <1>1, Between DEF DiskTypes, RunTypes
<1>3. \A i \in Feed : Bounded(i)' /\ IF i <= up' THEN Active(i)' ELSE Idle(i)'
  BY <1>1 DEF Base, Typed, Bounded, Active, Idle
<1> QED  BY <1>2, <1>3 DEF Base, Typed

LEMMA EngineTypes ==
    ASSUME Base, StopRun \/ TakeEvent \/ FeedIsDone \/ MergeEnds
    PROVE  Base'
<1>0. /\ MergeTypes /\ Draining /\ \A i \in Feed : Counted(i)
      /\ \A i \in Feed : arrived[i] \in Nat /\ Len(sent[i]) \in Nat
  <2>1. MergeTypes /\ Draining /\ \A i \in Feed : Counted(i)
    BY DEF Base, Typed
  <2>2. \A i \in Feed : arrived[i] \in Nat
    BY <2>1, FeedsAreNaturals DEF MergeTypes
  <2>3. \A i \in Feed : sent[i] \in Seq(Ev)
    BY Between DEF RunTypes
  <2> QED  BY <2>1, <2>2, <2>3
<1>1. CASE StopRun
  <2>1. /\ Still /\ stopping' = TRUE
        /\ UNCHANGED <<arrived, closed, finished, ended, up, outbox, buffer, sent>>
    BY <1>1 DEF StopRun, StopAll, Still, recordVars, linkVars, runVars
  <2>2. MergeTypes' /\ Draining' /\ \A i \in Feed : Counted(i)'
    BY <1>0, <2>1 DEF MergeTypes, Draining, Counted
  <2> QED  BY <2>1, <2>2, StillIs
<1>2. CASE TakeEvent
  <2>1. /\ Still /\ SomeReady /\ arrived[Spoke] > 0 /\ arrived' = [arrived EXCEPT ![Spoke] = @ - 1]
        /\ UNCHANGED <<closed, finished, stopping, ended, up, outbox, buffer, sent>>
    BY <1>2 DEF TakeEvent, Deliver, Still, recordVars, linkVars, runVars
  <2>2. Spoke \in Feed /\ Spoke \notin finished
    BY <2>1, SpokeIsReady
  <2> HIDE DEF Spoke
  <2>3. arrived[Spoke] \in 0 .. Capacity /\ arrived[Spoke] - 1 \in 0 .. Capacity
    BY <1>0, <2>1, <2>2, FeedsAreNaturals DEF MergeTypes
  <2>4. MergeTypes'
    BY <1>0, <2>1, <2>3 DEF MergeTypes
  <2>5. \A i \in Feed : i # Spoke => arrived'[i] = arrived[i]
    BY <1>0, <2>1 DEF MergeTypes
  <2>6. Draining'
    <3>1. \A i \in finished : i \in Feed /\ i # Spoke
      BY <1>0, <2>2 DEF MergeTypes
    <3> QED  BY <1>0, <2>1, <2>5, <3>1 DEF Draining
  <2>7. ASSUME NEW i \in Feed
        PROVE  Counted(i)'
    <3>1. arrived'[i] <= arrived[i]
      BY <1>0, <2>1, <2>5, <2>2 DEF MergeTypes
    <3>2. arrived'[i] \in Nat
      BY <2>4, FeedsAreNaturals DEF MergeTypes
    <3> QED  BY <1>0, <2>1, <3>1, <3>2 DEF Counted
  <2> QED  BY <2>1, <2>4, <2>6, <2>7, StillIs
<1>3. CASE FeedIsDone
  <2>1. /\ Still /\ SomeReady /\ arrived[Spoke] = 0 /\ finished' = finished \cup {Spoke} /\ ~ended
        /\ UNCHANGED <<arrived, closed, stopping, ended, up, outbox, buffer, sent>>
    BY <1>3 DEF FeedIsDone, Finish, IndexOf, Spoke, Still, recordVars, linkVars, runVars
  <2>2. Spoke \in Feed /\ Ready(Spoke)
    BY <2>1, SpokeIsReady
  <2> HIDE DEF Spoke
  <2>3. Spoke \in closed
    BY <2>1, <2>2 DEF Ready
  <2>4. MergeTypes'
    BY <1>0, <2>1, <2>2 DEF MergeTypes
  <2>5. Draining'
    BY <1>0, <2>1, <2>3 DEF Draining
  <2>6. \A i \in Feed : Counted(i)'
    BY <1>0, <2>1 DEF Counted
  <2> QED  BY <2>1, <2>4, <2>5, <2>6, StillIs
<1>4. CASE MergeEnds
  <2>1. /\ Still /\ Pending = <<>> /\ ended' = TRUE
        /\ UNCHANGED <<arrived, closed, finished, stopping, up, outbox, buffer, sent>>
    BY <1>4 DEF MergeEnds, End, Still, recordVars, linkVars, runVars
  <2>2. Feed \subseteq finished
    BY <2>1, PassIsTheUnfinished
  <2>3. MergeTypes' /\ Draining' /\ \A i \in Feed : Counted(i)'
    BY <1>0, <2>1, <2>2 DEF MergeTypes, Draining, Counted
  <2> QED  BY <2>1, <2>3, StillIs
<1> QED  BY <1>1, <1>2, <1>3, <1>4

(* However a run ends, the next one starts afresh, but for the disk.       *)
LEMMA OffTypes ==
    ASSUME Base, Off, file' = file, torn' \subseteq Feed \X Day, runs' \subseteq Run
    PROVE  Base'
<1>1. /\ arrived' = [i \in Feed |-> 0] /\ closed' = {} /\ finished' = {}
      /\ stopping' = FALSE /\ ended' = FALSE /\ day' = day /\ up' = 0
      /\ buffer' = Each(<<>>) /\ sequence' = Each(0) /\ openDay' = Each(None)
      /\ outbox' = Each(<<>>) /\ sent' = Each(<<>>) /\ origin' = Each(Nowhere)
  BY DEF Off, MergeAgain
<1>2. 0 \in 0 .. Feeds /\ arrived' = Each(0)
  BY <1>1, FeedsAreNaturals DEF Each
<1>3. MergeTypes' /\ DiskTypes' /\ RunTypes'
  BY <1>1, <1>2, Between, Fresh DEF MergeTypes, DiskTypes, RunTypes
<1>4. \A i \in Feed : sequence'[i] = 0 /\ outbox'[i] = <<>> /\ arrived'[i] = 0 /\ sent'[i] = <<>> /\ Idle(i)'
  BY <1>1, Fresh DEF Idle
<1>5. \A i \in Feed : Bounded(i)' /\ Counted(i)' /\ ~(i <= up')
  BY <1>1, <1>4, FeedsAreNaturals DEF Bounded, Counted
<1>6. Draining'
  BY <1>1 DEF Draining
<1> QED  BY <1>3, <1>4, <1>5, <1>6 DEF Base, Typed

LEMMA SeenTyped ==
    ASSUME Base, NEW i \in Feed
    PROVE  /\ Seen(i) \in Seq(Ev) /\ IsPrefix(Seen(i), sent[i])
           /\ arrived[i] = 0 => Seen(i) = sent[i]
<1>1. sent[i] \in Seq(Ev) /\ arrived[i] \in Nat /\ arrived[i] <= Len(sent[i])
  BY Between, FeedsAreNaturals DEF Base, Typed, RunTypes, MergeTypes, Counted
<1> DEFINE s == sent[i]
           n == Len(s) - arrived[i]
<1>2. n \in 0 .. Len(s) /\ Len(s) \in Nat /\ \A k \in 1 .. n : s[k] \in Ev
  BY <1>1
<1>3. Seen(i) = SubSeq(s, 1, n)
  BY DEF Seen
<1> HIDE DEF n
<1>4. SubSeq(s, 1, n) \in Seq(Ev) /\ Len(SubSeq(s, 1, n)) = n /\ \A k \in 1 .. n : SubSeq(s, 1, n)[k] = s[k]
  BY <1>2, SubSeqProperties
<1>5. IsPrefix(SubSeq(s, 1, n), s)
  <2> DEFINE t == SubSeq(s, 1, n)
  <2>1. t \in Seq(Ev) /\ Len(t) = n /\ \A k \in 1 .. Len(t) : t[k] = s[k]
    BY <1>4
  <2>2. s \in Seq(Ev) /\ Len(t) <= Len(s)
    BY <1>1, <1>2, <2>1
  <2> HIDE DEF t, s
  <2> QED  BY <2>1, <2>2, PrefixIs DEF t
<1>6. arrived[i] = 0 => n = Len(s)
  BY <1>2 DEF n
<1>7. SubSeq(s, 1, Len(s)) = s
  BY <1>1, SubSeqFull
<1> QED  BY <1>3, <1>4, <1>5, <1>6, <1>7

LEMMA PastRunTyped ==
    ASSUME Base, NEW i \in Feed, NEW how \in {"drained", "killed"}
    PROVE  PastRun(i, how) \in Run
<1>1. origin[i] \in Origin /\ Seen(i) \in Seq(Ev)
  BY Between, SeenTyped DEF RunTypes
<1> QED  BY <1>1 DEF PastRun, Run, Origin

LEMMA OverTypes ==
    ASSUME Base, RunIsOver \/ Crash
    PROVE  Base'
<1>0. Remembered \subseteq Feed /\ runs \subseteq Run /\ torn \subseteq Feed \X Day
  BY Between, RecordingAssumption DEF RunTypes, DiskTypes
<1>1. CASE RunIsOver
  <2>1. Off /\ file' = file /\ torn' = torn
    BY <1>1 DEF RunIsOver
  <2>2. runs' = runs \cup {PastRun(i, "drained") : i \in Remembered}
    BY <1>1 DEF RunIsOver
  <2>3. runs' \subseteq Run
    BY <1>0, <2>2, PastRunTyped
  <2> QED  BY <1>0, <2>1, <2>3, OffTypes
<1>2. CASE Crash
  <2>1. Off /\ file' = file
    BY <1>2 DEF Crash
  <2>2. \A run \in runs' : run \in runs \/ \E i \in Remembered : run = PastRun(i, "killed")
    BY <1>2 DEF Crash
  <2>3. runs' \subseteq Run
    BY <1>0, <2>2, PastRunTyped
  <2>4. PICK members \in SUBSET {i \in 1 .. up : buffer[i] # <<>>} :
            torn' = torn \cup {<<i, openDay[i]>> : i \in members}
    BY <1>2 DEF Crash
  <2>5. \A i \in members : i \in Feed /\ openDay[i] \in Day
    BY <2>4, Between DEF Base, Typed, Active
  <2>6. torn' \subseteq Feed \X Day
    BY <1>0, <2>4, <2>5
  <2> QED  BY <2>1, <2>3, <2>6, OffTypes
<1> QED  BY <1>1, <1>2

LEMMA MidnightTypes ==
    ASSUME Base, Midnight
    PROVE  Base'
<1>1. /\ day < Days /\ day' = day + 1
      /\ UNCHANGED <<arrived, closed, finished, stopping, ended, file, torn, buffer, sequence,
                     openDay, outbox, sent, up, origin, runs>>
  BY DEF Midnight, mergeVars, diskVars, recordVars, linkVars, runVars
<1>2. day' \in Day
  BY <1>1, Between, FeedsAreNaturals DEF RunTypes, Day
<1>3. MergeTypes' /\ DiskTypes' /\ RunTypes' /\ Draining'
  BY <1>1, <1>2, Between DEF MergeTypes, DiskTypes, RunTypes, Base, Draining
<1>4. ASSUME NEW i \in Feed
      PROVE  /\ Bounded(i)' /\ Counted(i)'
             /\ IF i <= up' THEN Active(i)' ELSE Idle(i)'
  <2>1. Bounded(i) /\ Counted(i) /\ IF i <= up THEN Active(i) ELSE Idle(i)
    BY DEF Base, Typed
  <2>2. Active(i) => Active(i)'
    BY <1>1, Between, FeedsAreNaturals DEF Active, RunTypes
  <2> QED  BY <1>1, <2>1, <2>2 DEF Bounded, Counted, Idle
<1> QED  BY <1>3, <1>4 DEF Base, Typed

LEMMA BaseStep ==
    ASSUME Base, [Next]_vars
    PROVE  Base'
<1>1. CASE UNCHANGED vars
  <2>1. UNCHANGED <<arrived, closed, finished, stopping, ended, file, torn, buffer, sequence,
                    openDay, outbox, sent, up, origin, runs, day>>
    BY <1>1 DEF vars, mergeVars, diskVars, recordVars, linkVars, runVars
  <2>2. MergeTypes' /\ DiskTypes' /\ RunTypes' /\ Draining'
    BY <2>1, Between DEF MergeTypes, DiskTypes, RunTypes, Base, Draining
  <2>3. \A i \in Feed : /\ Bounded(i)' /\ Counted(i)'
                        /\ IF i <= up' THEN Active(i)' ELSE Idle(i)'
    BY <2>1 DEF Base, Typed, Bounded, Counted, Active, Idle
  <2> QED  BY <2>2, <2>3 DEF Base, Typed
<1> QED  BY <1>1, StartTypes, RecordTypes, FlushTypes, SendTypes, StopsTypes, EngineTypes,
            OverTypes, MidnightTypes DEF Next

LEMMA BaseHolds == Spec => []Base
<1>1. Base /\ [Next]_vars => Base'
  BY BaseStep
<1> QED  BY <1>1, BaseInit, PTL DEF Spec

-----------------------------------------------------------------------------
(* The numbers of a file, and the recorder's counter above those it is at. *)
Increasing(T) == \A j, k \in DOMAIN T : j < k => T[j].seq < T[k].seq
AllBelow(T, n) == \A k \in DOMAIN T : T[k].seq <= n

Numbered ==
    \A i \in Feed, d \in Day :
        /\ Increasing(Held(i, d)) /\ Increasing(file[i][d])
        /\ openDay[i] = d => AllBelow(Held(i, d), sequence[i])

LEMMA IncreasingAppend ==
    ASSUME NEW T \in Seq(Rec), NEW r \in Rec, Increasing(T), \A k \in DOMAIN T : T[k].seq < r.seq
    PROVE  Increasing(Append(T, r)) /\ AllBelow(Append(T, r), r.seq)
<1> DEFINE U == Append(T, r)
<1>1. /\ DOMAIN U = 1 .. Len(T) + 1 /\ DOMAIN T = 1 .. Len(T) /\ Len(T) \in Nat
      /\ U[Len(T) + 1] = r /\ \A k \in 1 .. Len(T) : U[k] = T[k]
  <2>1. U \in Seq(Rec) /\ Len(U) = Len(T) + 1
    BY Appended
  <2> QED  BY <2>1, Appended
<1>2. r.seq \in Nat /\ \A k \in DOMAIN T : T[k].seq \in Nat
  <2>1. \A k \in DOMAIN T : T[k] \in Rec
    OBVIOUS
  <2> QED  BY <2>1 DEF Rec
<1> HIDE DEF U
<1>3. ASSUME NEW j \in DOMAIN U, NEW k \in DOMAIN U, j < k
      PROVE  U[j].seq < U[k].seq
  <2>1. j \in 1 .. Len(T)
    BY <1>1, <1>3
  <2>2. CASE k = Len(T) + 1
    BY <1>1, <2>1, <2>2
  <2>3. CASE k # Len(T) + 1
    <3>1. k \in 1 .. Len(T)
      BY <1>1, <2>3
    <3> QED  BY <1>1, <1>3, <2>1, <3>1 DEF Increasing
  <2> QED  BY <2>2, <2>3
<1>4. ASSUME NEW k \in DOMAIN U
      PROVE  U[k].seq <= r.seq
  <2>1. CASE k = Len(T) + 1
    BY <1>1, <1>2, <2>1
  <2>2. CASE k # Len(T) + 1
    <3>1. k \in 1 .. Len(T)
      BY <1>1, <2>2
    <3> QED  BY <1>1, <1>2, <3>1
  <2> QED  BY <2>1, <2>2
<1> QED  BY <1>3, <1>4 DEF U, Increasing, AllBelow

LEMMA NumberedInit == Init => Numbered
<1> SUFFICES ASSUME Init, NEW i \in Feed, NEW d \in Day
             PROVE  /\ Increasing(Held(i, d)) /\ Increasing(file[i][d])
                    /\ openDay[i] # d
  BY DEF Numbered
<1>1. file[i][d] = <<>> /\ openDay[i] = None
  BY DEF Init, Each
<1>2. openDay[i] # d
  BY <1>1, FeedsAreNaturals
<1>3. Held(i, d) = <<>>
  BY <1>1, <1>2 DEF Held
<1> QED  BY <1>1, <1>2, <1>3 DEF Increasing

LEMMA NumberedAppends ==
    ASSUME Base, Numbered, NEW i \in Feed, NEW r \in Rec, Appends(i, r)
    PROVE  Numbered'
<1> SUFFICES ASSUME NEW j \in Feed, NEW d \in Day
             PROVE  /\ Increasing(Held(j, d)') /\ Increasing(file'[j][d])
                    /\ openDay'[j] = d => AllBelow(Held(j, d)', sequence'[j])
  BY DEF Numbered
<1>0. DiskTypes /\ day \in Day
  BY Between DEF RunTypes
<1>1. /\ Increasing(Held(j, d)) /\ Increasing(file[j][d])
      /\ openDay[j] = d => AllBelow(Held(j, d), sequence[j])
  BY DEF Numbered
<1>2. /\ Held(j, d)' = IF j = i /\ d = day THEN Append(Held(j, d), r) ELSE Held(j, d)
      /\ file'[j][d] = IF j = i /\ d # day THEN Held(j, d) ELSE file[j][d]
  BY DEF Appends
<1>3. /\ openDay'[j] = IF j = i THEN day ELSE openDay[j]
      /\ sequence'[j] = IF j = i THEN r.seq ELSE sequence[j]
  BY <1>0 DEF Appends, DiskTypes
<1>4. CASE j = i /\ d = day
  <2>1. Held(j, d) \in Seq(Rec) /\ \A k \in DOMAIN Held(j, d) : Held(j, d)[k].seq \in Nat
    <3>1. Held(j, d) \in Seq(Rec)
      BY <1>0, HeldTyped
    <3>2. \A k \in DOMAIN Held(j, d) : Held(j, d)[k] \in Rec
      BY <3>1
    <3> QED  BY <3>1, <3>2 DEF Rec
  <2>2. \A k \in DOMAIN Held(j, d) : Held(j, d)[k].seq < r.seq
    <3>1. CASE openDay[i] # day
      BY <1>4, <3>1 DEF Appends
    <3>2. CASE openDay[i] = day
      <4>1. sequence[i] < r.seq /\ sequence[i] \in Nat /\ r.seq \in Nat
        BY <1>0 DEF Appends, DiskTypes, Rec
      <4>2. AllBelow(Held(j, d), sequence[i])
        BY <1>1, <1>4, <3>2
      <4> QED  BY <2>1, <4>1, <4>2 DEF AllBelow
    <3> QED  BY <3>1, <3>2
  <2>3. Increasing(Append(Held(j, d), r)) /\ AllBelow(Append(Held(j, d), r), r.seq)
    BY <1>1, <2>1, <2>2, IncreasingAppend
  <2> QED  BY <1>1, <1>2, <1>3, <1>4, <2>3
<1>5. CASE ~(j = i /\ d = day)
  BY <1>1, <1>2, <1>3, <1>5
<1> QED  BY <1>4, <1>5

LEMMA NumberedFlushes ==
    ASSUME Base, Numbered, NEW i \in Feed, Flushes(i)
    PROVE  Numbered'
<1> SUFFICES ASSUME NEW j \in Feed, NEW d \in Day
             PROVE  /\ Increasing(Held(j, d)') /\ Increasing(file'[j][d])
                    /\ openDay'[j] = d => AllBelow(Held(j, d)', sequence'[j])
  BY DEF Numbered
<1>1. /\ Held(j, d)' = Held(j, d) /\ file'[j][d] = IF j = i THEN Held(j, d) ELSE file[j][d]
      /\ sequence' = sequence /\ openDay' = openDay
  BY DEF Flushes
<1> QED  BY <1>1 DEF Numbered

(* When nothing of the disk or the recorders changes, neither does what is *)
(* held; when a run ends, only what is on disk is.                         *)
LEMMA HeldStays ==
    ASSUME UNCHANGED <<file, buffer, openDay>>
    PROVE  \A i \in Feed, d \in Day : Held(i, d)' = Held(i, d) /\ file'[i][d] = file[i][d]
BY DEF Held

LEMMA HeldIsOnDisk ==
    ASSUME Off, file' = file
    PROVE  \A i \in Feed, d \in Day : /\ Held(i, d)' = file[i][d] /\ file'[i][d] = file[i][d]
                                      /\ openDay'[i] # d
<1> SUFFICES ASSUME NEW i \in Feed, NEW d \in Day
             PROVE  Held(i, d)' = file[i][d] /\ openDay'[i] # d
  OBVIOUS
<1>1. openDay'[i] = None
  BY Fresh DEF Off
<1>2. openDay'[i] # d
  BY <1>1, FeedsAreNaturals
<1> QED  BY <1>2 DEF Held

(* The actions, by what they do to what is written.                        *)
Quiet == UNCHANGED <<file, torn, buffer, sequence, openDay>>

LEMMA WrittenBy ==
    ASSUME Base, [Next]_vars
    PROVE  \/ StartFeed /\ up + 1 \in Feed
              /\ \E r \in Rec : r.kind = "start" /\ Appends(up + 1, r)
           \/ \E i \in Feed : \E kind \in Writes[i] : Record(i, kind)
              /\ \E r \in Rec : r = Envelope(kind, sequence'[i]) /\ Appends(i, r)
           \/ \E i \in Feed : (FlushTimer(i) \/ WorkerStops(i)) /\ Flushes(i)
           \/ \E i \in Feed : Send(i) /\ Quiet
           \/ (StopRun \/ TakeEvent \/ FeedIsDone \/ MergeEnds) /\ Still /\ Quiet
           \/ (RunIsOver \/ Crash) /\ Off /\ file' = file
           \/ Midnight /\ Quiet
           \/ UNCHANGED vars /\ Quiet
<1>1. CASE StartFeed
  <2>1. up < Feeds /\ AppendRecord(up + 1, "start")
    BY <1>1 DEF StartFeed
  <2>2. up + 1 \in Feed /\ "start" \in Kind /\ day \in Day /\ DiskTypes
    BY <2>1, Between, FeedsAreNaturals DEF Feed, Kind, RunTypes
  <2>3. PICK r \in Rec : r = Envelope("start", sequence'[up + 1]) /\ Appends(up + 1, r)
    BY <2>1, <2>2, AppendEffect
  <2>4. r.kind = "start"
    BY <2>3 DEF Envelope
  <2> QED  BY <1>1, <2>2, <2>3, <2>4
<1>2. ASSUME NEW i \in Feed, NEW kind \in Writes[i], Record(i, kind)
      PROVE  \E r \in Rec : r = Envelope(kind, sequence'[i]) /\ Appends(i, r)
  <2>1. AppendRecord(i, kind) /\ kind \in Kind /\ day \in Day /\ DiskTypes
    BY <1>2, Between, FeedsAreNaturals DEF Record, RunTypes
  <2> QED  BY <2>1, AppendEffect
<1>3. ASSUME NEW i \in Feed, FlushTimer(i) \/ WorkerStops(i)
      PROVE  Flushes(i)
  BY <1>3, Between, FlushEffect DEF FlushTimer, WorkerStops
<1>4. ASSUME NEW i \in Feed, Send(i)
      PROVE  Quiet
  BY <1>4 DEF Send, Quiet, diskVars, recordVars
<1>5. StopRun \/ TakeEvent \/ FeedIsDone \/ MergeEnds => Still /\ Quiet
  BY DEF StopRun, TakeEvent, FeedIsDone, MergeEnds, Still, Quiet, diskVars, recordVars
<1>6. RunIsOver \/ Crash => Off /\ file' = file
  BY DEF RunIsOver, Crash
<1>7. Midnight \/ UNCHANGED vars => Quiet
  BY DEF Midnight, vars, Quiet, diskVars, recordVars
<1> QED  BY <1>1, <1>2, <1>3, <1>4, <1>5, <1>6, <1>7 DEF Next

LEMMA NumberedStep ==
    ASSUME Base, Numbered, [Next]_vars
    PROVE  Numbered'
<1>1. CASE Quiet
  <2>1. UNCHANGED <<file, buffer, openDay, sequence>>
    BY <1>1 DEF Quiet
  <2>2. \A i \in Feed, d \in Day : Held(i, d)' = Held(i, d) /\ file'[i][d] = file[i][d]
    BY <2>1, HeldStays
  <2> QED  BY <2>1, <2>2 DEF Numbered
<1>2. CASE Off /\ file' = file
  <2>1. \A i \in Feed, d \in Day : /\ Held(i, d)' = file[i][d] /\ file'[i][d] = file[i][d]
                                   /\ openDay'[i] # d
    BY <1>2, HeldIsOnDisk
  <2> QED  BY <2>1 DEF Numbered
<1>3. CASE \E i \in Feed : \E r \in Rec : Appends(i, r)
  BY <1>3, NumberedAppends
<1>4. CASE \E i \in Feed : Flushes(i)
  BY <1>4, NumberedFlushes
<1> QED  BY <1>1, <1>2, <1>3, <1>4, WrittenBy

-----------------------------------------------------------------------------
(* Kalshi's file and its replay.                                           *)
Whole == [d \in Day |-> Held(Kalshi, d)]
Disk  == file[Kalshi]
Began == origin[Kalshi]

(* The days after the one the recorder is at are empty.  The session of    *)
(* this run is the file's last, while the run stays on its day; what it    *)
(* replays as is all that was sent or is about to be, and what is on disk  *)
(* of it begins that.  Past runs of the day are of earlier sessions.       *)
Underway ==
    /\ Began.day \in Day /\ Began.day <= openDay[Kalshi] /\ Began.session >= 1
    /\ Began.stayed <=> openDay[Kalshi] = Began.day
    /\ \A d \in Day : openDay[Kalshi] < d => Disk[d] = <<>>
    /\ Began.session <= Sessions(Whole[Began.day])

Faithful ==
    Began.stayed =>
        /\ Sessions(Whole[Began.day]) = Began.session
        /\ Replay(Kalshi, Whole[Began.day], Began.session) = sent[Kalshi] \o outbox[Kalshi]
        /\ IsPrefix(Replay(Kalshi, Disk[Began.day], Began.session),
                    Replay(Kalshi, Whole[Began.day], Began.session))

Later ==
    \A run \in runs : run.feed = Kalshi =>
        run.day <= Began.day /\ (run.day = Began.day => run.session < Began.session)

Future == \A d \in Day : day < d => Disk[d] = <<>>

(* Nothing that is written after a run changes what its session replays    *)
(* as, and that is what the engine was shown, or of a run that was killed  *)
(* its beginning or its continuation.                                      *)
Comparable(s, t) == IsPrefix(s, t) \/ IsPrefix(t, s)

Told(run) ==
    /\ run.day \in Day /\ run.day <= day
    /\ run.session <= Sessions(Disk[run.day])
    /\ Replay(Kalshi, Whole[run.day], run.session) = Replay(Kalshi, Disk[run.day], run.session)
    /\ run.stayed =>
          \/ Replay(Kalshi, Disk[run.day], run.session) = run.shown
          \/ run.how = "killed" /\ Comparable(Replay(Kalshi, Disk[run.day], run.session), run.shown)

Replayable ==
    /\ up > 0 => Underway /\ Faithful /\ Later
    /\ Future
    /\ \A run \in runs : run.feed = Kalshi => Told(run)

RecordingInv == Base /\ Numbered /\ Replayable

LEMMA ReplayableInit == Init => Replayable
<1> SUFFICES ASSUME Init
             PROVE  Replayable
  OBVIOUS
<1>1. up = 0 /\ runs = {} /\ ~(up > 0)
  BY DEF Init
<1>2. \A d \in Day : Disk[d] = <<>>
  BY FeedsAreNaturals DEF Init, Each, Disk
<1> QED  BY <1>1, <1>2 DEF Replayable, Future

LEMMA KalshiTypes ==
    ASSUME Base
    PROVE  /\ \A d \in Day : Whole[d] \in Seq(Rec) /\ Disk[d] \in Seq(Rec)
           /\ \A d \in Day : Sessions(Whole[d]) \in Nat /\ Sessions(Disk[d]) \in Nat
           /\ sent[Kalshi] \in Seq(Ev) /\ outbox[Kalshi] \in Seq(Ev)
           /\ Began \in Origin /\ Began.session \in Nat /\ Began.stayed \in BOOLEAN
           /\ day \in Day /\ up \in Nat /\ Kalshi \in Feed
           /\ up > 0 => openDay[Kalshi] \in Day /\ openDay[Kalshi] <= day /\ Kalshi <= up
           /\ up = 0 => Idle(Kalshi)
           /\ \A d \in Day : openDay[Kalshi] # d => Whole[d] = Disk[d]
           /\ \A run \in runs : run \in Run /\ run.session \in Nat /\ run.stayed \in BOOLEAN
                                /\ run.shown \in Seq(Ev)
<1>1. Kalshi \in Feed /\ DiskTypes /\ RunTypes /\ up \in Nat
  BY Between, FeedsAreNaturals
<1>2. \A d \in Day : Whole[d] \in Seq(Rec) /\ Disk[d] \in Seq(Rec)
  BY <1>1, HeldTyped DEF Whole, Disk
<1>3. \A d \in Day : Sessions(Whole[d]) \in Nat /\ Sessions(Disk[d]) \in Nat
  <2>1. \A T \in Seq(Rec) : Len(T) \in Nat
    OBVIOUS
  <2> QED  BY <1>2, <2>1, SessionNumber DEF Sessions
<1>4. Began \in Origin /\ Began.session \in Nat /\ Began.stayed \in BOOLEAN
  <2>1. Began \in Origin
    BY <1>1 DEF Began, RunTypes
  <2> QED  BY <2>1 DEF Origin
<1>5. IF Kalshi <= up THEN Active(Kalshi) ELSE Idle(Kalshi)
  BY <1>1 DEF Base, Typed
<1>6. (up > 0 => Kalshi <= up) /\ (up = 0 => ~(Kalshi <= up))
  BY <1>1 DEF Kalshi
<1>7. \A run \in runs : run \in Run /\ run.session \in Nat /\ run.stayed \in BOOLEAN /\ run.shown \in Seq(Ev)
  <2>1. \A run \in runs : run \in Run
    BY <1>1 DEF RunTypes
  <2> QED  BY <2>1 DEF Run
<1>8. \A d \in Day : openDay[Kalshi] # d => Whole[d] = Disk[d]
  BY DEF Whole, Disk, Held
<1> QED  BY <1>1, <1>2, <1>3, <1>4, <1>5, <1>6, <1>7, <1>8 DEF RunTypes, Active

LEMMA ToldAgain ==
    ASSUME Base, day' >= day, day' \in Day, NEW run, Told(run),
           run.session <= Sessions(Disk'[run.day]),
           Replay(Kalshi, Disk'[run.day], run.session) = Replay(Kalshi, Disk[run.day], run.session),
           Replay(Kalshi, Whole'[run.day], run.session) = Replay(Kalshi, Disk[run.day], run.session)
    PROVE  Told(run)'
<1>1. PICK d \in Day : d = run.day /\ d <= day
  BY DEF Told
<1>2. d \in Nat /\ day \in Nat /\ day' \in Nat
  BY KalshiTypes, FeedsAreNaturals
<1>3. d <= day'
  BY <1>1, <1>2
<1>4. run.day \in Day /\ run.day <= day'
  BY <1>1, <1>3
<1> QED  BY <1>4 DEF Told

(* Steps that leave Kalshi's file, its run and the past runs as they are.  *)
LEMMA Untouched ==
    ASSUME Base, Replayable, day' >= day,
           \A d \in Day : Whole'[d] = Whole[d] /\ Disk'[d] = Disk[d],
           up' > 0 => up > 0 /\ openDay'[Kalshi] = openDay[Kalshi] /\ origin'[Kalshi] = origin[Kalshi],
           sent'[Kalshi] \o outbox'[Kalshi] = sent[Kalshi] \o outbox[Kalshi],
           runs' = runs, day' \in Day
    PROVE  Replayable'
<1>1. day \in Nat /\ day' \in Nat /\ \A d \in Day : d \in Nat
  BY KalshiTypes, FeedsAreNaturals
<1>2. Future'
  BY <1>1 DEF Replayable, Future
<1>3. ASSUME NEW run \in runs, run.feed = Kalshi
      PROVE  Told(run)'
  <2>1. Told(run)
    BY <1>3 DEF Replayable
  <2>2. Whole'[run.day] = Whole[run.day] /\ Disk'[run.day] = Disk[run.day]
    BY <2>1 DEF Told
  <2>3. /\ run.session <= Sessions(Disk'[run.day])
        /\ Replay(Kalshi, Whole[run.day], run.session) = Replay(Kalshi, Disk[run.day], run.session)
    BY <2>1, <2>2 DEF Told
  <2> QED  BY <2>1, <2>2, <2>3, ToldAgain
<1>4. ASSUME up' > 0
      PROVE  Underway' /\ Faithful' /\ Later'
  <2>1. Underway /\ Faithful /\ Later /\ Began' = Began /\ openDay'[Kalshi] = openDay[Kalshi]
    BY <1>4 DEF Replayable, Began
  <2>2. /\ Began.day \in Day
        /\ Whole'[Began.day] = Whole[Began.day] /\ Disk'[Began.day] = Disk[Began.day]
    BY <2>1 DEF Underway
  <2>3. Whole'[Began'.day] = Whole[Began.day] /\ Disk'[Began'.day] = Disk[Began.day]
    BY <2>1, <2>2
  <2>4. Underway'
    BY <2>1, <2>2, <2>3 DEF Underway
  <2>5. Faithful'
    BY <2>1, <2>2, <2>3 DEF Faithful
  <2>6. Later'
    BY <2>1 DEF Later
  <2> QED  BY <2>4, <2>5, <2>6
<1> QED  BY <1>2, <1>3, <1>4 DEF Replayable

(* The marker of a run begins a session after those of the day's past runs.*)
LEMMA StartReplayable ==
    ASSUME Base, Replayable, up = 0, NEW r \in Rec, r.kind = "start", Appends(Kalshi, r),
           up' > 0, runs' = runs, sent'[Kalshi] = sent[Kalshi], outbox'[Kalshi] = outbox[Kalshi],
           day' = day,
           Began' = [day |-> day, session |-> Sessions(Disk[day]) + 1, stayed |-> TRUE]
    PROVE  Replayable'
<1> DEFINE T == Disk[day]
           U == Append(T, r)
           n == Sessions(T) + 1
<1>1. /\ openDay[Kalshi] = None /\ sent[Kalshi] = <<>> /\ outbox[Kalshi] = <<>>
      /\ day \in Day /\ Kalshi \in Feed
      /\ \A d \in Day : Whole[d] = Disk[d] /\ d \in Nat
  BY KalshiTypes, FeedsAreNaturals DEF Idle
<1>2. T \in Seq(Rec) /\ Sessions(T) \in Nat /\ n \in Nat /\ n >= 1
  BY <1>1, KalshiTypes
<1>3. /\ Whole'[day] = U /\ Disk'[day] = T
      /\ \A d \in Day : d # day => Whole'[d] = Disk[d] /\ Disk'[d] = Disk[d]
  BY <1>1 DEF Appends, Whole, Disk
<1>4. Sessions(U) = n
  BY <1>2, SessionsAppend
<1>5. openDay'[Kalshi] = day
  BY <1>1, Between DEF Appends, DiskTypes
<1>6. Began'.day = day /\ Began'.session = n /\ Began'.stayed = TRUE
  OBVIOUS
<1> HIDE DEF T, U, n
<1>7. \A m \in Nat : m # n => Replay(Kalshi, U, m) = Replay(Kalshi, T, m)
  <2> SUFFICES ASSUME NEW m \in Nat, m # n
               PROVE  Replay(Kalshi, U, m) = Replay(Kalshi, T, m)
    OBVIOUS
  <2>1. Replay(Kalshi, U, m) = Replay(Kalshi, T, m) \o More(Kalshi, T, r, m)
    BY <1>2, ReplayAppend DEF U
  <2>2. More(Kalshi, T, r, m) = <<>>
    BY <1>4 DEF More, U
  <2>3. Replay(Kalshi, T, m) \in Seq(Ev)
    BY <1>2, ReplayTyped
  <2> QED  BY <2>1, <2>2, <2>3, ConcatEmptySeq
<1>8. Replay(Kalshi, T, n) = <<>> /\ Replay(Kalshi, U, n) = <<>>
  <2>1. Sessions(T) < n
    BY <1>2 DEF n
  <2>2. Replay(Kalshi, T, n) = <<>>
    BY <1>2, <2>1, ReplayUnbegun
  <2>3. Replay(Kalshi, U, n) = Replay(Kalshi, T, n) \o More(Kalshi, T, r, n)
    BY <1>2, ReplayAppend DEF U
  <2>4. More(Kalshi, T, r, n) = <<>>
    BY DEF More, Decode
  <2> QED  BY <2>2, <2>3, <2>4
<1>9. Underway'
  <2>1. \A d \in Day : day < d => Disk'[d] = <<>>
    BY <1>1, <1>3 DEF Replayable, Future
  <2>2. Whole'[Began'.day] = U
    BY <1>3, <1>6
  <2>3. n <= Sessions(U)
    BY <1>2, <1>4
  <2>4. day <= day
    BY <1>1
  <2> QED  BY <1>1, <1>2, <1>5, <1>6, <2>1, <2>2, <2>3, <2>4 DEF Underway
<1>10. Faithful'
  <2>1. Whole'[Began'.day] = U /\ Disk'[Began'.day] = T
    BY <1>3, <1>6
  <2>2. sent'[Kalshi] \o outbox'[Kalshi] = <<>>
    BY <1>1
  <2>3. IsPrefix(<<>>, <<>>)
    <3>1. <<>> \in Seq(Ev)
      OBVIOUS
    <3> QED  BY <3>1, PrefixFacts
  <2> QED  BY <1>4, <1>6, <1>8, <2>1, <2>2, <2>3 DEF Faithful
<1>11. Later'
  <2> SUFFICES ASSUME NEW run \in runs, run.feed = Kalshi
               PROVE  run.day <= day /\ (run.day = day => run.session < n)
    BY <1>6 DEF Later
  <2>1. Told(run) /\ run.session \in Nat
    BY KalshiTypes DEF Replayable
  <2>2. run.day = day => run.session <= Sessions(T)
    BY <2>1 DEF Told, T
  <2> QED  BY <1>2, <2>1, <2>2 DEF Told, n
<1>12. Future'
  BY <1>1, <1>3 DEF Replayable, Future, T
<1>13. ASSUME NEW run \in runs, run.feed = Kalshi
       PROVE  Told(run)'
  <2>1. Told(run) /\ run.session \in Nat
    BY <1>13, KalshiTypes DEF Replayable
  <2>2. run.day \in Day /\ run.session <= Sessions(Disk[run.day])
    BY <2>1 DEF Told
  <2>3. Disk'[run.day] = Disk[run.day]
    BY <1>3, <2>2 DEF T
  <2>4. Replay(Kalshi, Whole'[run.day], run.session) = Replay(Kalshi, Disk[run.day], run.session)
    <3>1. CASE run.day = day
      <4>1. run.session <= Sessions(T)
        BY <2>2, <3>1 DEF T
      <4>2. run.session # n
        BY <1>2, <2>1, <4>1 DEF n
      <4>3. Whole'[run.day] = U /\ Disk[run.day] = T
        BY <1>3, <3>1 DEF T
      <4> QED  BY <1>7, <2>1, <4>2, <4>3
    <3>2. CASE run.day # day
      BY <1>3, <2>2, <3>2
    <3> QED  BY <3>1, <3>2
  <2>5. day' >= day /\ day' \in Day
    BY <1>1
  <2>6. run.session <= Sessions(Disk'[run.day])
    BY <2>2, <2>3
  <2>7. Replay(Kalshi, Disk'[run.day], run.session) = Replay(Kalshi, Disk[run.day], run.session)
    BY <2>3
  <2> QED  BY <2>1, <2>4, <2>5, <2>6, <2>7, ToldAgain
<1> QED  BY <1>9, <1>10, <1>11, <1>12, <1>13 DEF Replayable
(* While a run is up, no past run reaches beyond the day it began on, and  *)
(* what is written of a past run's file holds its session.                 *)
LEMMA EarlierRuns ==
    ASSUME Base, Replayable, up > 0
    PROVE  /\ Began.day \in Day /\ Began.day <= openDay[Kalshi] /\ openDay[Kalshi] <= day
           /\ openDay[Kalshi] \in Day
           /\ \A d \in Day : d \in Nat /\ Whole[d] \in Seq(Rec) /\ Disk[d] \in Seq(Rec)
           /\ \A d \in Day : openDay[Kalshi] < d => Whole[d] = <<>> /\ Disk[d] = <<>>
           /\ \A run \in runs : run.feed = Kalshi =>
                 /\ run.day \in Day /\ run.day <= Began.day
                 /\ run.day = Began.day => run.session < Sessions(Whole[Began.day])
                 /\ run.session <= Sessions(Whole[run.day])
<1>1. /\ Underway /\ Later
      /\ Began.day \in Day /\ Began.day <= openDay[Kalshi] /\ openDay[Kalshi] <= day
      /\ openDay[Kalshi] \in Day
  BY KalshiTypes DEF Replayable, Underway
<1>2. \A d \in Day : d \in Nat /\ Whole[d] \in Seq(Rec) /\ Disk[d] \in Seq(Rec)
  BY KalshiTypes, FeedsAreNaturals
<1>3. \A d \in Day : openDay[Kalshi] < d => Whole[d] = <<>> /\ Disk[d] = <<>>
  <2> SUFFICES ASSUME NEW d \in Day, openDay[Kalshi] < d
               PROVE  Whole[d] = <<>> /\ Disk[d] = <<>>
    OBVIOUS
  <2>1. Disk[d] = <<>>
    BY <1>1 DEF Underway
  <2>2. openDay[Kalshi] # d
    BY <1>1, <1>2
  <2>3. Whole[d] = Disk[d]
    BY <2>2, KalshiTypes
  <2> QED  BY <2>1, <2>3
<1>4. ASSUME NEW run \in runs, run.feed = Kalshi
      PROVE  /\ run.day \in Day /\ run.day <= Began.day
             /\ run.day = Began.day => run.session < Sessions(Whole[Began.day])
             /\ run.session <= Sessions(Whole[run.day])
  <2>1. /\ Told(run) /\ run.session \in Nat /\ Began.session \in Nat
        /\ Sessions(Whole[Began.day]) \in Nat
    BY <1>1, <1>4, KalshiTypes DEF Replayable
  <2>2. run.day \in Day /\ run.day <= Began.day /\ (run.day = Began.day => run.session < Began.session)
    BY <1>1, <1>4, <2>1 DEF Told, Later
  <2>3. run.day = Began.day => run.session < Sessions(Whole[Began.day])
    BY <1>1, <2>1, <2>2 DEF Underway
  <2>4. run.session <= Sessions(Whole[run.day])
    <3>1. CASE run.day = Began.day
      BY <2>1, <2>3, <3>1
    <3>2. CASE run.day # Began.day
      <4>1. run.day # openDay[Kalshi]
        BY <1>1, <1>2, <2>2, <3>2
      <4>2. Whole[run.day] = Disk[run.day]
        BY <2>2, <4>1, KalshiTypes
      <4> QED  BY <2>1, <4>2 DEF Told
    <3> QED  BY <3>1, <3>2
  <2> QED  BY <2>2, <2>3, <2>4
<1> QED  BY <1>1, <1>2, <1>3, <1>4

(* An envelope of the run in progress: it is of the run's session, or of a *)
(* file of a later day, and of no past run's.                              *)
LEMMA RecordReplayable ==
    ASSUME Base, Replayable, up > 0, NEW r \in Rec, r.kind # "start", Appends(Kalshi, r),
           up' = up, runs' = runs, day' = day, sent'[Kalshi] = sent[Kalshi],
           outbox[Kalshi] = <<>>, outbox'[Kalshi] = Decode(Kalshi, r),
           Began'.day = Began.day, Began'.session = Began.session,
           Began'.stayed = (Began.stayed /\ day = Began.day)
    PROVE  Replayable'
<1> DEFINE o == Began.day
           n == Began.session
           W == Whole[day]
           U == Append(W, r)
<1>1. /\ o \in Day /\ o <= openDay[Kalshi] /\ openDay[Kalshi] <= day /\ openDay[Kalshi] \in Day
      /\ day \in Day /\ Kalshi \in Feed /\ n \in Nat /\ Began.stayed \in BOOLEAN
      /\ \A d \in Day : d \in Nat
  BY EarlierRuns, KalshiTypes
<1>2. Underway /\ Faithful /\ Later
  BY DEF Replayable
<1>3. /\ Whole'[day] = U /\ \A d \in Day : d # day => Whole'[d] = Whole[d]
      /\ Disk'[day] = Disk[day] /\ \A d \in Day : d # day => Disk'[d] = Whole[d]
  BY <1>1 DEF Appends, Whole, Disk
<1>4. openDay'[Kalshi] = day
  BY <1>1, Between DEF Appends, DiskTypes
<1>5. \A d \in Day : day < d => Disk'[d] = <<>>
  <2> SUFFICES ASSUME NEW d \in Day, day < d
               PROVE  Disk'[d] = <<>>
    OBVIOUS
  <2>1. openDay[Kalshi] < d /\ d # day
    BY <1>1
  <2> QED  BY <1>3, <2>1, EarlierRuns
<1>6. W \in Seq(Rec) /\ Sessions(W) \in Nat
  BY <1>1, KalshiTypes
<1>7. Sessions(U) = Sessions(W) + (IF W = <<>> THEN 1 ELSE 0)
  BY <1>6, SessionsAppend
<1> HIDE DEF U, W
<1>8. Sessions(U) \in Nat /\ Sessions(W) <= Sessions(U) /\ (W # <<>> => Sessions(U) = Sessions(W))
  BY <1>6, <1>7
<1>9. o = day => openDay[Kalshi] = day /\ Began.stayed
  BY <1>1, <1>2 DEF Underway
<1>10. \A m \in Nat : m < Sessions(W) => Replay(Kalshi, U, m) = Replay(Kalshi, W, m)
  <2> SUFFICES ASSUME NEW m \in Nat, m < Sessions(W)
               PROVE  Replay(Kalshi, U, m) = Replay(Kalshi, W, m)
    OBVIOUS
  <2>1. Replay(Kalshi, U, m) = Replay(Kalshi, W, m) \o More(Kalshi, W, r, m)
    BY <1>6, ReplayAppend DEF U
  <2>2. Sessions(U) # m
    BY <1>6, <1>8
  <2>3. More(Kalshi, W, r, m) = <<>>
    BY <2>2 DEF More, U
  <2>4. Replay(Kalshi, W, m) \in Seq(Ev)
    BY <1>6, ReplayTyped
  <2> QED  BY <2>1, <2>3, <2>4, ConcatEmptySeq
<1>11. Underway'
  <2>1. n <= Sessions(Whole'[o])
    <3>1. n <= Sessions(Whole[o])
      BY <1>2 DEF Underway
    <3>2. CASE o = day
      <4>1. n <= Sessions(W)
        BY <3>1, <3>2 DEF W
      <4> QED  BY <1>1, <1>3, <1>6, <1>8, <3>2, <4>1
    <3>3. CASE o # day
      BY <1>1, <1>3, <3>1, <3>3
    <3> QED  BY <3>2, <3>3
  <2>2. o <= day /\ n >= 1
    BY <1>1, <1>2 DEF Underway
  <2>3. Began'.stayed <=> day = o
    BY <1>9
  <2> QED  BY <1>1, <1>4, <1>5, <2>1, <2>2, <2>3 DEF Underway
<1>12. Faithful'
  <2> SUFFICES ASSUME Began.stayed, day = o
               PROVE  /\ Sessions(U) = n
                      /\ Replay(Kalshi, U, n) = sent[Kalshi] \o Decode(Kalshi, r)
                      /\ IsPrefix(Replay(Kalshi, Disk[day], n), Replay(Kalshi, U, n))
    BY <1>3 DEF Faithful
  <2>1. /\ Sessions(W) = n /\ Replay(Kalshi, W, n) = sent[Kalshi] \o <<>>
        /\ IsPrefix(Replay(Kalshi, Disk[day], n), Replay(Kalshi, W, n))
    BY <1>2 DEF Faithful, W
  <2>2. W # <<>>
    <3>1. n >= 1
      BY <1>2 DEF Underway
    <3> QED  BY <1>1, <2>1, <3>1, ReplayNothing
  <2>3. Sessions(U) = n
    BY <1>8, <2>1, <2>2
  <2>4. Replay(Kalshi, U, n) = Replay(Kalshi, W, n) \o Decode(Kalshi, r)
    <3>1. More(Kalshi, W, r, n) = Decode(Kalshi, r)
      BY <2>3 DEF More, U
    <3>2. Replay(Kalshi, U, n) = Replay(Kalshi, W, n) \o More(Kalshi, W, r, n)
      BY <1>6, ReplayAppend DEF U
    <3> QED  BY <3>1, <3>2
  <2>5. Replay(Kalshi, W, n) = sent[Kalshi]
    BY <2>1, KalshiTypes, ConcatEmptySeq
  <2>6. IsPrefix(Replay(Kalshi, Disk[day], n), Replay(Kalshi, U, n))
    <3> DEFINE a == Replay(Kalshi, Disk[day], n)
               b == Replay(Kalshi, W, n)
               c == Decode(Kalshi, r)
    <3>1. a \in Seq(Ev) /\ b \in Seq(Ev) /\ c \in Seq(Ev)
      BY <1>1, <1>6, KalshiTypes, ReplayTyped, Decoded
    <3>2. IsPrefix(a, b)
      BY <2>1
    <3> HIDE DEF a, b, c
    <3>3. b \o c \in Seq(Ev) /\ IsPrefix(b, b \o c)
      BY <3>1, PrefixFacts
    <3>4. IsPrefix(a, b \o c)
      BY <3>1, <3>2, <3>3, PrefixFacts
    <3> QED  BY <2>4, <3>4 DEF a, b, c
  <2> QED  BY <2>3, <2>4, <2>5, <2>6
<1>13. Later'
  BY <1>2 DEF Later
<1>14. Future'
  BY <1>5 DEF Future
<1>15. ASSUME NEW run \in runs, run.feed = Kalshi
       PROVE  Told(run)'
  <2>1. /\ Told(run) /\ run.session \in Nat /\ run.day \in Day /\ run.day <= o
        /\ run.session <= Sessions(Whole[run.day])
        /\ run.day = o => run.session < Sessions(Whole[o])
    BY <1>15, EarlierRuns, KalshiTypes DEF Replayable
  <2>2. Replay(Kalshi, Whole[run.day], run.session) = Replay(Kalshi, Disk[run.day], run.session)
    BY <2>1 DEF Told
  <2>3. run.session <= Sessions(Disk[run.day])
    BY <2>1 DEF Told
  <2>4. /\ run.session <= Sessions(Disk'[run.day])
        /\ Replay(Kalshi, Disk'[run.day], run.session) = Replay(Kalshi, Disk[run.day], run.session)
    <3>1. CASE run.day = day
      BY <1>3, <2>3, <3>1
    <3>2. CASE run.day # day
      BY <1>3, <2>1, <2>2, <3>2
    <3> QED  BY <3>1, <3>2
  <2>5. Replay(Kalshi, Whole'[run.day], run.session) = Replay(Kalshi, Disk[run.day], run.session)
    <3>1. CASE run.day = day
      <4>1. run.day = o
        BY <1>1, <2>1, <3>1
      <4>2. run.session < Sessions(W)
        BY <2>1, <3>1, <4>1 DEF W
      <4>3. Whole'[run.day] = U /\ W = Whole[run.day]
        BY <1>3, <3>1 DEF W
      <4> QED  BY <1>10, <2>1, <2>2, <4>2, <4>3
    <3>2. CASE run.day # day
      BY <1>3, <2>1, <2>2, <3>2
    <3> QED  BY <3>1, <3>2
  <2>6. day' >= day /\ day' \in Day
    BY <1>1
  <2> QED  BY <2>1, <2>4, <2>5, <2>6, ToldAgain
<1> QED  BY <1>11, <1>12, <1>13, <1>14, <1>15 DEF Replayable

(* A flush brings what was written to disk.                                *)
LEMMA FlushReplayable ==
    ASSUME Base, Replayable, up > 0, Flushes(Kalshi), up' = up, runs' = runs, day' = day,
           sent' = sent, outbox' = outbox, origin' = origin
    PROVE  Replayable'
<1>1. /\ Kalshi \in Feed /\ day \in Day /\ openDay' = openDay /\ Began' = Began
      /\ \A d \in Day : Whole'[d] = Whole[d] /\ Disk'[d] = Whole[d]
  BY KalshiTypes DEF Flushes, Whole, Disk, Began
<1>2. /\ Began.day \in Day /\ openDay[Kalshi] \in Day /\ openDay[Kalshi] <= day
      /\ \A d \in Day : d \in Nat /\ Whole[d] \in Seq(Rec)
      /\ \A d \in Day : openDay[Kalshi] < d => Whole[d] = <<>>
  BY EarlierRuns
<1>3. Underway /\ Faithful /\ Later
  BY DEF Replayable
<1>4. Whole'[Began'.day] = Whole[Began.day] /\ Disk'[Began'.day] = Whole[Began.day]
  BY <1>1, <1>2
<1>5. Underway'
  BY <1>1, <1>2, <1>3, <1>4 DEF Underway
<1>6. Faithful'
  <2>1. IsPrefix(Replay(Kalshi, Whole[Began.day], Began.session),
                 Replay(Kalshi, Whole[Began.day], Began.session))
    BY <1>2, ReplayTyped, PrefixFacts
  <2> QED  BY <1>1, <1>3, <1>4, <2>1 DEF Faithful
<1>7. Later'
  BY <1>1, <1>3 DEF Later
<1>8. Future'
  BY <1>1, <1>2 DEF Future
<1>9. ASSUME NEW run \in runs, run.feed = Kalshi
      PROVE  Told(run)'
  <2>1. Told(run) /\ run.day \in Day /\ run.session <= Sessions(Whole[run.day])
    BY <1>9, EarlierRuns DEF Replayable
  <2>2. Whole'[run.day] = Whole[run.day] /\ Disk'[run.day] = Whole[run.day]
    BY <1>1, <2>1
  <2>3. Replay(Kalshi, Whole[run.day], run.session) = Replay(Kalshi, Disk[run.day], run.session)
    BY <2>1 DEF Told
  <2>4. day' >= day /\ day' \in Day
    BY <1>1, <1>2
  <2> QED  BY <2>1, <2>2, <2>3, <2>4, ToldAgain
<1> QED  BY <1>5, <1>6, <1>7, <1>8, <1>9 DEF Replayable
(* The end of a run.  One that drained has all its events on disk and all  *)
(* of them taken; one that was killed has taken the beginning of what was  *)
(* sent, and has the beginning of what was written on disk.                *)
LEMMA NewlyTold ==
    ASSUME Base, Replayable, up > 0, Kalshi \in Remembered, NEW how \in {"drained", "killed"},
           Began.session <= Sessions(Disk[Began.day]),
           how = "drained" => /\ arrived[Kalshi] = 0 /\ outbox[Kalshi] = <<>>
                              /\ Whole[Began.day] = Disk[Began.day]
    PROVE  /\ PastRun(Kalshi, how).day \in Day /\ PastRun(Kalshi, how).day <= day
           /\ LET run == PastRun(Kalshi, how) IN
              /\ run.session <= Sessions(Disk[run.day])
              /\ run.stayed =>
                    \/ Replay(Kalshi, Disk[run.day], run.session) = run.shown
                    \/ run.how = "killed"
                       /\ Comparable(Replay(Kalshi, Disk[run.day], run.session), run.shown)
<1> DEFINE run == PastRun(Kalshi, how)
<1>1. /\ run.day = Began.day /\ run.session = Began.session /\ run.stayed = Began.stayed
      /\ run.shown = Seen(Kalshi) /\ run.how = how
  BY DEF PastRun, Began
<1> HIDE DEF run
<1>2. Began.day \in Day /\ Began.day <= day /\ Whole[Began.day] \in Seq(Rec) /\ Disk[Began.day] \in Seq(Rec)
  <2>1. /\ Began.day \in Day /\ Began.day <= openDay[Kalshi] /\ openDay[Kalshi] <= day
        /\ Began.day \in Nat /\ openDay[Kalshi] \in Nat /\ day \in Nat
    BY EarlierRuns, KalshiTypes
  <2> QED  BY <2>1, KalshiTypes
<1>3. ASSUME Began.stayed
      PROVE  \/ Replay(Kalshi, Disk[Began.day], Began.session) = Seen(Kalshi)
             \/ how = "killed"
                /\ Comparable(Replay(Kalshi, Disk[Began.day], Began.session), Seen(Kalshi))
  <2> DEFINE a == Replay(Kalshi, Disk[Began.day], Began.session)
             b == Replay(Kalshi, Whole[Began.day], Began.session)
             s == sent[Kalshi]
             t == outbox[Kalshi]
             c == Seen(Kalshi)
  <2>1. b = s \o t /\ IsPrefix(a, b)
    BY <1>3 DEF Replayable, Faithful
  <2>2. a \in Seq(Ev) /\ s \in Seq(Ev) /\ t \in Seq(Ev) /\ c \in Seq(Ev) /\ IsPrefix(c, s)
    BY <1>2, KalshiTypes, ReplayTyped, SeenTyped
  <2>3. how = "drained" => a = b /\ t = <<>> /\ c = s
    BY KalshiTypes, SeenTyped
  <2> HIDE DEF a, b, s, t, c
  <2>4. CASE how = "drained"
    <3>1. b = s
      BY <2>1, <2>2, <2>3, <2>4, ConcatEmptySeq
    <3> QED  BY <2>3, <2>4, <3>1 DEF a, c
  <2>5. CASE how = "killed"
    <3>1. s \o t \in Seq(Ev) /\ IsPrefix(s, s \o t)
      BY <2>2, PrefixFacts
    <3>2. IsPrefix(c, s \o t)
      BY <2>2, <3>1, PrefixFacts
    <3>3. IsPrefix(a, s \o t)
      BY <2>1
    <3>4. Comparable(a, c)
      BY <2>2, <3>1, <3>2, <3>3, PrefixFacts DEF Comparable
    <3> QED  BY <2>5, <3>4 DEF a, c
  <2> QED  BY <2>4, <2>5
<1> QED  BY <1>1, <1>2, <1>3 DEF run

LEMMA OffReplayable ==
    ASSUME Base, Replayable, RunIsOver \/ Crash
    PROVE  Replayable'
<1>1. Off /\ file' = file
  BY DEF RunIsOver, Crash
<1>2. up' = 0 /\ day' = day /\ day \in Day /\ day' >= day
  <2>1. day \in Nat
    BY KalshiTypes, FeedsAreNaturals
  <2> QED  BY <1>1, <2>1, KalshiTypes DEF Off
<1>3. \A d \in Day : Whole'[d] = Disk[d] /\ Disk'[d] = Disk[d]
  BY <1>1, HeldIsOnDisk, KalshiTypes DEF Whole, Disk
<1>4. Future'
  BY <1>2, <1>3 DEF Future, Replayable
<1>5. ASSUME NEW run \in runs, run.feed = Kalshi
      PROVE  Told(run)'
  <2>1. Told(run) /\ run.day \in Day
    BY <1>5 DEF Replayable, Told
  <2>2. Whole'[run.day] = Disk[run.day] /\ Disk'[run.day] = Disk[run.day]
    BY <1>3, <2>1
  <2>3. run.session <= Sessions(Disk'[run.day])
    BY <2>1, <2>2 DEF Told
  <2>4. day' >= day /\ day' \in Day
    BY <1>2
  <2> QED  BY <2>1, <2>2, <2>3, <2>4, ToldAgain
<1>6. ASSUME up > 0, Kalshi \in Remembered, NEW how \in {"drained", "killed"},
             Began.session <= Sessions(Disk[Began.day]),
             how = "drained" => /\ arrived[Kalshi] = 0 /\ outbox[Kalshi] = <<>>
                                /\ Whole[Began.day] = Disk[Began.day]
      PROVE  \A run : run = PastRun(Kalshi, how) => Told(run)'
  <2> SUFFICES ASSUME NEW run, run = PastRun(Kalshi, how)
               PROVE  Told(run)'
    OBVIOUS
  <2>1. /\ run.day \in Day /\ run.day <= day /\ run.session <= Sessions(Disk[run.day])
        /\ run.stayed =>
              \/ Replay(Kalshi, Disk[run.day], run.session) = run.shown
              \/ run.how = "killed"
                 /\ Comparable(Replay(Kalshi, Disk[run.day], run.session), run.shown)
    BY <1>6, NewlyTold
  <2>2. Whole'[run.day] = Disk[run.day] /\ Disk'[run.day] = Disk[run.day]
    BY <1>3, <2>1
  <2> QED  BY <1>2, <2>1, <2>2 DEF Told
<1>7. ASSUME RunIsOver, NEW run \in runs' \ runs, run.feed = Kalshi
      PROVE  Told(run)'
  <2>1. Running /\ ended /\ runs' = runs \cup {PastRun(i, "drained") : i \in Remembered}
    BY <1>7 DEF RunIsOver
  <2>2. PICK i \in Remembered : run = PastRun(i, "drained")
    BY <1>7, <2>1
  <2>3. i = Kalshi
    BY <1>7, <2>2 DEF PastRun
  <2>4. up > 0
    BY <2>1, FeedsAreNaturals DEF Running
  <2>5. Kalshi \in closed /\ Kalshi \in finished
    BY <2>1, KalshiTypes DEF Base, Draining
  <2>6. arrived[Kalshi] = 0 /\ outbox[Kalshi] = <<>> /\ buffer[Kalshi] = <<>>
    BY <2>5 DEF Base, Draining
  <2>7. Underway
    BY <2>4 DEF Replayable
  <2>8. Whole[Began.day] = Disk[Began.day]
    <3>1. Began.day \in Day /\ file[Kalshi][Began.day] \in Seq(Rec)
      BY <2>7, Between, KalshiTypes DEF Underway, DiskTypes
    <3> QED  BY <2>6, <3>1, ConcatEmptySeq DEF Whole, Disk, Held
  <2>9. Began.session <= Sessions(Disk[Began.day])
    BY <2>7, <2>8 DEF Underway
  <2> QED  BY <1>6, <2>2, <2>3, <2>4, <2>6, <2>8, <2>9
<1>8. ASSUME Crash, NEW run \in runs' \ runs, run.feed = Kalshi
      PROVE  Told(run)'
  <2>1. /\ up > 0
        /\ runs' = runs \cup
             {PastRun(i, "killed") : i \in {j \in Remembered \cap (1 .. up) :
                  origin[j].session <= Sessions(file[j][origin[j].day])}}
    BY <1>8 DEF Crash
  <2>2. PICK i \in Remembered : /\ run = PastRun(i, "killed")
                                /\ origin[i].session <= Sessions(file[i][origin[i].day])
    BY <1>8, <2>1
  <2>3. i = Kalshi
    BY <1>8, <2>2 DEF PastRun
  <2>4. Began.session <= Sessions(Disk[Began.day])
    BY <2>2, <2>3 DEF Began, Disk
  <2> QED  BY <1>6, <2>1, <2>2, <2>3, <2>4
<1>9. \A run \in runs' : run.feed = Kalshi => Told(run)'
  BY <1>5, <1>7, <1>8
<1> QED  BY <1>2, <1>4, <1>9 DEF Replayable
-----------------------------------------------------------------------------
LEMMA StartKeepsReplay ==
    ASSUME Base, Replayable, StartFeed, up + 1 \in Feed,
           NEW r \in Rec, r.kind = "start", Appends(up + 1, r)
    PROVE  Replayable'
<1>1. /\ origin' = [origin EXCEPT ![up + 1] =
                       [day |-> day, session |-> Sessions(file[up + 1][day]) + 1, stayed |-> TRUE]]
      /\ up' = up + 1 /\ day' = day /\ runs' = runs /\ sent' = sent /\ outbox' = outbox
  BY DEF StartFeed, linkVars
<1>2. /\ up \in Nat /\ day \in Day /\ day \in Nat /\ Kalshi \in Feed
      /\ origin \in [Feed -> Origin] /\ openDay \in [Feed -> Day \cup {None}]
  BY Between, KalshiTypes, FeedsAreNaturals DEF RunTypes, DiskTypes
<1>3. CASE up = 0
  <2>1. up + 1 = Kalshi
    BY <1>3 DEF Kalshi
  <2>2. Began' = [day |-> day, session |-> Sessions(Disk[day]) + 1, stayed |-> TRUE]
    BY <1>1, <1>2, <2>1 DEF Began, Disk
  <2>3. Appends(Kalshi, r) /\ up' > 0
    BY <1>1, <1>3, <2>1
  <2> QED  BY <1>1, <1>3, <2>2, <2>3, StartReplayable
<1>4. CASE up # 0
  <2>1. Kalshi # up + 1
    BY <1>2, <1>4 DEF Kalshi
  <2>2. \A d \in Day : Whole'[d] = Whole[d] /\ Disk'[d] = Disk[d]
    BY <1>2, <2>1 DEF Appends, Whole, Disk
  <2>3. openDay'[Kalshi] = openDay[Kalshi] /\ origin'[Kalshi] = origin[Kalshi]
    BY <1>1, <1>2, <2>1 DEF Appends
  <2>4. up > 0 /\ day' >= day /\ day' \in Day
    BY <1>1, <1>2, <1>4
  <2> QED  BY <1>1, <2>2, <2>3, <2>4, Untouched
<1> QED  BY <1>3, <1>4

LEMMA RecordKeepsReplay ==
    ASSUME Base, Replayable, NEW i \in Feed, NEW kind \in Writes[i], Record(i, kind),
           NEW r \in Rec, r = Envelope(kind, sequence'[i]), Appends(i, r)
    PROVE  Replayable'
<1>1. /\ Works(i) /\ outbox[i] = <<>>
      /\ outbox' = [outbox EXCEPT ![i] = Sends(i, r)]
      /\ origin' = [origin EXCEPT ![i].stayed = @ /\ day = origin[i].day]
      /\ up' = up /\ day' = day /\ runs' = runs /\ sent' = sent
  BY DEF Record
<1>2. /\ up \in Nat /\ day \in Day /\ day \in Nat /\ Kalshi \in Feed
      /\ origin \in [Feed -> Origin] /\ openDay \in [Feed -> Day \cup {None}]
      /\ outbox \in [Feed -> Seq(Ev)]
  BY Between, KalshiTypes, FeedsAreNaturals DEF RunTypes, DiskTypes
<1>3. up > 0
  BY <1>1, <1>2, FeedsAreNaturals DEF Works
<1>4. CASE i = Kalshi
  <2>1. r.kind # "start"
    <3>1. kind # "start"
      BY RecordingAssumption
    <3> QED  BY <3>1 DEF Envelope
  <2>2. outbox'[Kalshi] = Decode(Kalshi, r)
    BY <1>1, <1>2, <1>4, SentIsDecoded
  <2>3. /\ Began'.day = Began.day /\ Began'.session = Began.session
        /\ Began'.stayed = (Began.stayed /\ day = Began.day)
    BY <1>1, <1>2, <1>4 DEF Began, Origin
  <2>4. Appends(Kalshi, r) /\ outbox[Kalshi] = <<>> /\ sent'[Kalshi] = sent[Kalshi]
    BY <1>1, <1>4
  <2> QED  BY <1>1, <1>3, <2>1, <2>2, <2>3, <2>4, RecordReplayable
<1>5. CASE i # Kalshi
  <2>1. \A d \in Day : Whole'[d] = Whole[d] /\ Disk'[d] = Disk[d]
    BY <1>2, <1>5 DEF Appends, Whole, Disk
  <2>2. /\ openDay'[Kalshi] = openDay[Kalshi] /\ origin'[Kalshi] = origin[Kalshi]
        /\ outbox'[Kalshi] = outbox[Kalshi]
    BY <1>1, <1>2, <1>5 DEF Appends
  <2>3. day' >= day /\ day' \in Day
    BY <1>1, <1>2
  <2> QED  BY <1>1, <1>3, <2>1, <2>2, <2>3, Untouched
<1> QED  BY <1>4, <1>5

LEMMA FlushKeepsReplay ==
    ASSUME Base, Replayable, NEW i \in Feed, FlushTimer(i) \/ WorkerStops(i), Flushes(i)
    PROVE  Replayable'
<1>1. Works(i) /\ UNCHANGED <<day, outbox, sent, up, origin, runs>>
  BY DEF FlushTimer, WorkerStops, linkVars, runVars
<1>2. up > 0 /\ day \in Day /\ day \in Nat /\ Kalshi \in Feed
  BY <1>1, KalshiTypes, FeedsAreNaturals DEF Works
<1>3. CASE i = Kalshi
  BY <1>1, <1>2, <1>3, FlushReplayable
<1>4. CASE i # Kalshi
  <2>1. \A d \in Day : Whole'[d] = Whole[d] /\ Disk'[d] = Disk[d]
    BY <1>2, <1>4 DEF Flushes, Whole, Disk
  <2>2. openDay' = openDay /\ day' >= day
    BY <1>1, <1>2 DEF Flushes
  <2> QED  BY <1>1, <1>2, <2>1, <2>2, Untouched
<1> QED  BY <1>3, <1>4

LEMMA QuietKeepsReplay ==
    ASSUME Base, Replayable, Quiet, day' \in Day, day' >= day, up' = up, origin' = origin,
           runs' = runs, sent'[Kalshi] \o outbox'[Kalshi] = sent[Kalshi] \o outbox[Kalshi]
    PROVE  Replayable'
<1>1. UNCHANGED <<file, buffer, openDay>>
  BY DEF Quiet
<1>2. \A d \in Day : Whole'[d] = Whole[d] /\ Disk'[d] = Disk[d]
  BY <1>1, HeldStays, KalshiTypes DEF Whole, Disk
<1> QED  BY <1>1, <1>2, Untouched

LEMMA SendKeepsReplay ==
    ASSUME Base, Replayable, NEW i \in Feed, Send(i), Quiet
    PROVE  Replayable'
<1>1. /\ outbox[i] # <<>>
      /\ sent' = [sent EXCEPT ![i] = Append(@, Head(outbox[i]))]
      /\ outbox' = [outbox EXCEPT ![i] = Tail(@)]
      /\ day' = day /\ up' = up /\ origin' = origin /\ runs' = runs
  BY DEF Send, runVars
<1>2. day \in Day /\ day \in Nat /\ Kalshi \in Feed /\ RunTypes
  BY Between, KalshiTypes, FeedsAreNaturals
<1>3. sent'[Kalshi] \o outbox'[Kalshi] = sent[Kalshi] \o outbox[Kalshi]
  <2>1. CASE i = Kalshi
    <3> DEFINE s == sent[Kalshi]
               t == outbox[Kalshi]
    <3>1. s \in Seq(Ev) /\ t \in Seq(Ev) /\ t # <<>>
      BY <1>1, <1>2, <2>1 DEF RunTypes
    <3>2. sent'[Kalshi] = Append(s, Head(t)) /\ outbox'[Kalshi] = Tail(t)
      BY <1>1, <1>2, <2>1 DEF RunTypes
    <3> HIDE DEF s, t
    <3>3. Append(s, Head(t)) \o Tail(t) = s \o t
      BY <3>1, HeadMoves
    <3> QED  BY <3>2, <3>3 DEF s, t
  <2>2. CASE i # Kalshi
    BY <1>1, <1>2, <2>2 DEF RunTypes
  <2> QED  BY <2>1, <2>2
<1>4. day' \in Day /\ day' >= day
  BY <1>1, <1>2
<1> QED  BY <1>1, <1>3, <1>4, QuietKeepsReplay

LEMMA ReplayableStep ==
    ASSUME Base, Replayable, [Next]_vars
    PROVE  Replayable'
<1>1. day \in Day /\ day \in Nat /\ \A d \in Day : d \in Nat
  BY KalshiTypes, FeedsAreNaturals
<1>2. ASSUME Still, Quiet
      PROVE  Replayable'
  <2>1. UNCHANGED <<day, up, origin, runs, sent, outbox>>
    BY <1>2 DEF Still, linkVars, runVars
  <2> QED  BY <1>1, <1>2, <2>1, QuietKeepsReplay
<1>3. ASSUME Midnight, Quiet
      PROVE  Replayable'
  <2>1. day' = day + 1 /\ day < Days /\ UNCHANGED <<up, origin, runs, sent, outbox>>
    BY <1>3 DEF Midnight, linkVars, runVars
  <2>2. day' \in Day /\ day' >= day
    BY <1>1, <2>1, FeedsAreNaturals DEF Day
  <2> QED  BY <1>3, <2>1, <2>2, QuietKeepsReplay
<1>4. ASSUME UNCHANGED vars, Quiet
      PROVE  Replayable'
  <2>1. UNCHANGED <<day, up, origin, runs, sent, outbox>>
    BY <1>4 DEF vars, linkVars, runVars
  <2> QED  BY <1>1, <1>4, <2>1, QuietKeepsReplay
<1> QED  BY <1>2, <1>3, <1>4, WrittenBy, StartKeepsReplay, RecordKeepsReplay, FlushKeepsReplay,
            SendKeepsReplay, OffReplayable

LEMMA RecordingInvHolds == Spec => []RecordingInv
<1>1. Init => RecordingInv
  BY BaseInit, NumberedInit, ReplayableInit DEF RecordingInv
<1>2. RecordingInv /\ [Next]_vars => RecordingInv'
  BY BaseStep, NumberedStep, ReplayableStep DEF RecordingInv
<1> QED  BY <1>1, <1>2, PTL DEF Spec

-----------------------------------------------------------------------------
(* No channel holds more than it can, no recorder's counter leaves its     *)
(* range, and a feed that has not started has nothing open (record.rs,     *)
(* merged.rs).                                                             *)
THEOREM TypeCorrect == Spec => []TypeOK
<1>1. ASSUME Base
      PROVE  TypeOK
  <2>1. up \in 0 .. Feeds /\ day \in Day /\ torn \subseteq Feed \X Day
    BY <1>1, Between DEF RunTypes, DiskTypes
  <2>2. ASSUME NEW i \in Feed
        PROVE  /\ sequence[i] \in 0 .. MaxSequence[i] /\ openDay[i] \in Day \cup {None}
               /\ arrived[i] \in 0 .. Capacity /\ Len(outbox[i]) <= Tickers + 1
    <3>1. sequence[i] \in Nat /\ sequence[i] <= MaxSequence[i] /\ MaxSequence[i] \in Nat
      BY <1>1, Between, FeedsAreNaturals DEF Base, Typed, DiskTypes, Bounded
    <3>2. sequence[i] \in 0 .. MaxSequence[i]
      BY <3>1
    <3> QED  BY <1>1, <3>2, Between DEF Base, Typed, DiskTypes, MergeTypes, Bounded
  <2>3. ASSUME NEW i \in up + 1 .. Feeds
        PROVE  buffer[i] = <<>> /\ outbox[i] = <<>>
    <3>1. i \in Feed /\ ~(i <= up)
      BY <1>1, Between, FeedsAreNaturals DEF Feed
    <3> QED  BY <1>1, <3>1 DEF Base, Typed, Idle
  <2> QED  BY <2>1, <2>2, <2>3 DEF TypeOK
<1> QED  BY <1>1, BaseHolds, PTL

(* Whatever the channels hold, whatever order the stop, the closing and    *)
(* the deliveries come in, the merge ends only when every event was        *)
(* delivered and every envelope is on disk (merged.rs, run_engine).        *)
THEOREM NothingIsLost == Spec => []EndLosesNothing
<1>1. ASSUME Base
      PROVE  EndLosesNothing
  <2> SUFFICES ASSUME ended
               PROVE  /\ closed = Feed
                      /\ \A i \in Feed : arrived[i] = 0 /\ outbox[i] = <<>> /\ buffer[i] = <<>>
    BY DEF EndLosesNothing
  <2>1. Feed \subseteq finished /\ finished \subseteq closed /\ closed \subseteq Feed
    BY <1>1, Between DEF Base, Draining, MergeTypes
  <2> QED  BY <1>1, <2>1 DEF Base, Draining
<1> QED  BY <1>1, BaseHolds, PTL

(* In every file of every day the numbers increase, whatever runs share    *)
(* it, whatever a crash took of its tail, and whatever midnights a run     *)
(* crosses (record.rs, select_day).                                        *)
THEOREM NumbersIncrease == Spec => []SequencesIncrease
<1>1. ASSUME RecordingInv
      PROVE  SequencesIncrease
  <2> SUFFICES ASSUME NEW i \in Feed, NEW d \in Day
               PROVE  LET here == IF openDay[i] = d THEN Stored(i)[i][d] ELSE file[i][d] IN
                      \A j, k \in DOMAIN here : j < k => here[j].seq < here[k].seq
    BY DEF SequencesIncrease
  <2>1. Stored(i)[i][d] = Held(i, d)
    BY <1>1, Between, StoredIsHeld DEF RecordingInv
  <2>2. Increasing(Held(i, d)) /\ Increasing(file[i][d])
    BY <1>1 DEF RecordingInv, Numbered
  <2> QED  BY <2>1, <2>2 DEF Increasing
<1> QED  BY <1>1, RecordingInvHolds, PTL

(* A run that drained on the day it began replays as itself, event for     *)
(* event, for ever after: however many runs, crashes and midnights come    *)
(* before or after it in the same directory (replay.rs, run_engine).       *)
THEOREM ReplayShowsTheRun == Spec => []ReplayIsTheRun
<1>1. ASSUME RecordingInv
      PROVE  ReplayIsTheRun
  <2> SUFFICES ASSUME NEW run \in runs, run.feed = Kalshi, run.how = "drained", run.stayed
               PROVE  ReplayOf(run) = run.shown
    BY DEF ReplayIsTheRun
  <2>1. Told(run)
    BY <1>1 DEF RecordingInv, Replayable
  <2> QED  BY <2>1 DEF Told, ReplayOf, Disk
<1> QED  BY <1>1, RecordingInvHolds, PTL

(* Of a run that was killed, what its session replays as and what the      *)
(* engine was shown differ at most by their ends (record.rs, replay.rs).   *)
THEOREM CrashOnlyCuts == Spec => []CrashCutsShort
<1>1. ASSUME RecordingInv
      PROVE  CrashCutsShort
  <2> SUFFICES ASSUME NEW run \in runs, run.feed = Kalshi, run.stayed
               PROVE  Comparable(ReplayOf(run), run.shown)
    BY DEF CrashCutsShort, Comparable
  <2>1. Told(run) /\ run.shown \in Seq(Ev)
    BY <1>1, KalshiTypes DEF RecordingInv, Replayable
  <2>2. IsPrefix(run.shown, run.shown)
    BY <2>1, PrefixFacts
  <2> QED  BY <2>1, <2>2 DEF Told, ReplayOf, Disk, Comparable
<1> QED  BY <1>1, RecordingInvHolds, PTL
=============================================================================
