--------------------------- MODULE Arbitrage_proofs ---------------------------
(***************************************************************************)
(* Theorems about Registry, Solver, Fees, Paper and Arbitrage, for every   *)
(* set of sources, catalogues and books.                                   *)
(*                                                                         *)
(* The first part is about the data: fees and their rounding, the walk of  *)
(* a ladder, the closed checks against the relations, the choice of a      *)
(* size.  The second is the invariant of loading, LoadInv: the tables,     *)
(* what each group came from, and the fee table, through every step from   *)
(* source to trading.  The third is the invariant of trading, StoreInv: a  *)
(* live copy is the venue's book, and whatever was found was costed from   *)
(* such copies.  The fourth is what groups mean in the world, MeansInv,    *)
(* and with it the promise that an accepted trade makes its profit         *)
(* whatever comes true.  The fifth is a promoted file, PromoInv: what      *)
(* discovery wrote, and what of it has been read back.                     *)
(***************************************************************************)
EXTENDS Arbitrage, DataLemmas

(* A ladder on offer, the cheapest level first.                            *)
IsOffer(l) ==
    /\ l \in Seq(Level)
    /\ \A i, j \in DOMAIN l : i <= j => l[i].price <= l[j].price

LEMMA LevelIs ==
    ASSUME NEW x \in Level
    PROVE  x.size \in Nat \ {0} /\ x.size \in Nat /\ x.price \in 0 .. 100 /\ x.price \in Nat
<1>1. x.size \in Nat \ {0}
  BY DEF Level
<1>2. x.price \in 0 .. Dollar
  BY DEF Level
<1>3. x.price \in 0 .. 100
  BY <1>2 DEF Dollar
<1>4. x.price \in Nat /\ x.size \in Nat
  BY <1>1, <1>3
<1> QED  BY <1>1, <1>3, <1>4

LEMMA LevelsOf ==
    ASSUME NEW l \in Seq(Level)
    PROVE  /\ Len(l) \in Nat /\ DOMAIN l = 1 .. Len(l)
           /\ \A i \in 1 .. Len(l) : /\ l[i].size \in Nat \ {0} /\ l[i].size \in Nat
                                      /\ l[i].price \in 0 .. 100 /\ l[i].price \in Nat
<1>1. Len(l) \in Nat /\ DOMAIN l = 1 .. Len(l)
  OBVIOUS
<1>2. \A i \in 1 .. Len(l) : l[i] \in Level
  OBVIOUS
<1> QED  BY <1>1, <1>2, LevelIs

Clipped(q, n) == IF q <= n THEN q ELSE n

LEMMA SumUpTo ==
    ASSUME NEW n \in Nat, NEW f, \A j \in 1 .. n : f[j] \in Int
    PROVE  SumFunctionOnSet(f, 1 .. n) \in Int
<1>1. IsFiniteSet(1 .. n)
  BY IndexSet
<1> QED  BY <1>1, SumInt

(* What lies before a level, and what that level adds.                     *)
LEMMA DepthSteps ==
    ASSUME NEW l, NEW n \in Nat, DOMAIN l = 1 .. n, \A i \in 1 .. n : l[i].size \in Nat
    PROVE  /\ DepthBefore(l, 1) = 0
           /\ \A i \in 1 .. n + 1 : DepthBefore(l, i) \in Nat
           /\ \A i \in 1 .. n : DepthBefore(l, i + 1) = DepthBefore(l, i) + l[i].size
<1> DEFINE f == [j \in 1 .. n |-> l[j].size]
<1>1. ASSUME NEW i \in 1 .. n + 1
      PROVE  /\ IsFiniteSet(1 .. i - 1)
             /\ DepthBefore(l, i) = SumFunctionOnSet(f, 1 .. i - 1)
             /\ DepthBefore(l, i) \in Nat
  <2>1. i - 1 \in Nat /\ \A j \in 1 .. i - 1 : j \in 1 .. n
    OBVIOUS
  <2>2. IsFiniteSet(1 .. i - 1)
    BY <2>1, IndexSet
  <2> DEFINE h == [j \in 1 .. i - 1 |-> l[j].size]
  <2>3. DepthBefore(l, i) = SumFunctionOnSet(h, 1 .. i - 1)
    BY DEF DepthBefore, SumFunction
  <2>4. \A j \in 1 .. i - 1 : h[j] = f[j] /\ h[j] \in Nat
    BY <2>1
  <2> HIDE DEF f, h
  <2>5. SumFunctionOnSet(h, 1 .. i - 1) = SumFunctionOnSet(f, 1 .. i - 1)
    BY <2>2, <2>4, SumSame
  <2>6. SumFunctionOnSet(h, 1 .. i - 1) \in Nat
    BY <2>2, <2>4, SumNat
  <2> QED  BY <2>2, <2>3, <2>5, <2>6
<1>2. DepthBefore(l, 1) = 0
  <2>1. 1 \in 1 .. n + 1 /\ 1 .. 1 - 1 = {}
    OBVIOUS
  <2> HIDE DEF f
  <2> QED  BY <1>1, <2>1, SumEmpty
<1>3. ASSUME NEW i \in 1 .. n
      PROVE  DepthBefore(l, i + 1) = DepthBefore(l, i) + l[i].size
  <2> DEFINE S == 1 .. i - 1
  <2>1. /\ i \in 1 .. n + 1 /\ i + 1 \in 1 .. n + 1 /\ i \notin S
        /\ 1 .. (i + 1) - 1 = S \cup {i}
        /\ f[i] = l[i].size
    OBVIOUS
  <2>2. \A j \in S \cup {i} : f[j] \in Int
    OBVIOUS
  <2>3. IsFiniteSet(S) /\ DepthBefore(l, i) = SumFunctionOnSet(f, S)
    BY <1>1, <2>1
  <2>4. DepthBefore(l, i + 1) = SumFunctionOnSet(f, S \cup {i})
    BY <1>1, <2>1
  <2> HIDE DEF f, S
  <2>5. SumFunctionOnSet(f, S \cup {i}) = SumFunctionOnSet(f, S) + f[i]
    BY <2>1, <2>2, <2>3, SumAdd
  <2> QED  BY <2>1, <2>3, <2>4, <2>5
<1> QED  BY <1>1, <1>2, <1>3

LEMMA DepthGrows ==
    ASSUME NEW l, NEW n \in Nat, DOMAIN l = 1 .. n, \A i \in 1 .. n : l[i].size \in Nat
    PROVE  \A i, j \in 1 .. n + 1 : i <= j => DepthBefore(l, i) <= DepthBefore(l, j)
<1> SUFFICES ASSUME NEW i \in 1 .. n + 1
             PROVE  \A j \in 1 .. n + 1 : i <= j => DepthBefore(l, i) <= DepthBefore(l, j)
  OBVIOUS
<1> DEFINE Bad == {j \in 1 .. n + 1 : i <= j /\ ~(DepthBefore(l, i) <= DepthBefore(l, j))}
<1>1. SUFFICES ASSUME Bad # {} PROVE FALSE
  OBVIOUS
<1>0. Bad \subseteq Nat
  OBVIOUS
<1>2. PICK j \in Bad : \A k \in Bad : j <= k
  <2> HIDE DEF Bad
  <2> QED  BY <1>0, <1>1, LeastNatural
<1>3. /\ \A k \in 1 .. n + 1 : DepthBefore(l, k) \in Nat
      /\ \A k \in 1 .. n : DepthBefore(l, k + 1) = DepthBefore(l, k) + l[k].size
  BY DepthSteps
<1>4. i # j
  BY <1>2, <1>3
<1>5. j - 1 \in 1 .. n /\ j - 1 \in 1 .. n + 1 /\ (j - 1) + 1 = j /\ i <= j - 1 /\ j - 1 \notin Bad
  BY <1>2, <1>4
<1>6. /\ DepthBefore(l, j) = DepthBefore(l, j - 1) + l[j - 1].size /\ l[j - 1].size \in Nat
      /\ DepthBefore(l, i) <= DepthBefore(l, j - 1)
      /\ DepthBefore(l, i) \in Nat /\ DepthBefore(l, j) \in Nat /\ DepthBefore(l, j - 1) \in Nat
  <2>1. DepthBefore(l, j) = DepthBefore(l, j - 1) + l[j - 1].size
    BY <1>3, <1>5
  <2>2. l[j - 1].size \in Nat
    BY <1>5
  <2> QED  BY <1>2, <1>3, <1>5, <2>1, <2>2
<1> QED  BY <1>2, <1>6

LEMMA MinOfTwo ==
    ASSUME NEW a \in Int, NEW b \in Int
    PROVE  Min({a, b}) = (IF a <= b THEN a ELSE b)
<1>1. Min({a, b}) \in {a, b} /\ \A y \in {a, b} : Min({a, b}) <= y
  <2>1. \E x \in {a, b} : \A y \in {a, b} : x <= y
    <3>1. CASE a <= b
      BY <3>1
    <3>2. CASE ~(a <= b)
      BY <3>2
    <3> QED  BY <3>1, <3>2
  <2> QED  BY <2>1 DEF Min
<1> QED  BY <1>1

LEMMA MaxOfTwo ==
    ASSUME NEW a \in Int, NEW b \in Int
    PROVE  Max({a, b}) = (IF a <= b THEN b ELSE a)
<1>1. Max({a, b}) \in {a, b} /\ \A y \in {a, b} : Max({a, b}) >= y
  <2>1. \E x \in {a, b} : \A y \in {a, b} : x >= y
    <3>1. CASE a <= b
      BY <3>1
    <3>2. CASE ~(a <= b)
      BY <3>2
    <3> QED  BY <3>1, <3>2
  <2> QED  BY <2>1 DEF Max
<1> QED  BY <1>1

(* What a walk takes of a level: nothing if it ends before it, the level   *)
(* if it ends after it.                                                    *)
LEMMA TakenIs ==
    ASSUME NEW l, NEW n \in Nat, DOMAIN l = 1 .. n, \A i \in 1 .. n : l[i].size \in Nat,
           NEW q \in Int, NEW i \in 1 .. n
    PROVE  /\ Taken(l, q, i) = IF q <= DepthBefore(l, i) THEN 0
                              ELSE IF q <= DepthBefore(l, i + 1) THEN q - DepthBefore(l, i)
                              ELSE l[i].size
           /\ Taken(l, q, i) \in 0 .. l[i].size
           /\ Taken(l, q, i) \in Nat
<1>1. /\ DepthBefore(l, i) \in Nat /\ l[i].size \in Nat
      /\ DepthBefore(l, i + 1) = DepthBefore(l, i) + l[i].size
  <2>1. i \in 1 .. n + 1
    OBVIOUS
  <2> QED  BY <2>1, DepthSteps
<1>2. Min({l[i].size, q - DepthBefore(l, i)})
        = IF l[i].size <= q - DepthBefore(l, i) THEN l[i].size ELSE q - DepthBefore(l, i)
  BY <1>1, MinOfTwo
<1>3. Min({l[i].size, q - DepthBefore(l, i)}) \in Int
  BY <1>1, <1>2
<1> DEFINE m == Min({l[i].size, q - DepthBefore(l, i)})
<1>4. Taken(l, q, i) = Max({0, m}) /\ m \in Int
  BY <1>3 DEF Taken
<1>5. Taken(l, q, i) = IF 0 <= m THEN m ELSE 0
  <2> HIDE DEF m
  <2> QED  BY <1>4, MaxOfTwo
<1>6. m = IF l[i].size <= q - DepthBefore(l, i) THEN l[i].size ELSE q - DepthBefore(l, i)
  BY <1>2
<1> DEFINE t == Taken(l, q, i)
           a == DepthBefore(l, i)
           b == DepthBefore(l, i + 1)
           s == l[i].size
<1>7. /\ t = IF 0 <= m THEN m ELSE 0
      /\ m = IF s <= q - a THEN s ELSE q - a
      /\ a \in Int /\ s \in Nat /\ b = a + s
  BY <1>1, <1>5, <1>6
<1> HIDE DEF m, t, a, b, s
<1>8. CASE q <= a
  <2>1. t = 0
    BY <1>7, <1>8
  <2> QED  BY <1>7, <1>8, <2>1 DEF t, a, b, s
<1>9. CASE a < q /\ q <= b
  <2>1. t = q - a /\ ~(q <= a)
    BY <1>7, <1>9
  <2>2. q - a \in 0 .. s /\ q - a \in Nat
    BY <1>7, <1>9
  <2> QED  BY <1>9, <2>1, <2>2 DEF t, a, b, s
<1>10. CASE b < q
  <2>1. t = s /\ ~(q <= a) /\ ~(q <= b)
    BY <1>7, <1>10
  <2>2. s \in 0 .. s
    BY <1>7
  <2> QED  BY <1>7, <2>1, <2>2 DEF t, a, b, s
<1> QED  BY <1>7, <1>8, <1>9, <1>10

(* A walk takes a first part of the ladder.                                *)
LEMMA ConsumedIs ==
    ASSUME NEW l \in Seq(Level), NEW q \in Int
    PROVE  \E m \in 0 .. Len(l) :
              /\ Consumed(l, q) = 1 .. m
              /\ \A i \in 1 .. m : DepthBefore(l, i) < q
              /\ \A i \in m + 1 .. Len(l) : q <= DepthBefore(l, i)
<1> DEFINE n == Len(l)
           C == {i \in 1 .. n : DepthBefore(l, i) < q}
<1>1. /\ n \in Nat /\ DOMAIN l = 1 .. n
      /\ \A i \in 1 .. n : l[i].size \in Nat \ {0} /\ l[i].size \in Nat
  BY LevelsOf
<1>2. /\ \A i \in 1 .. n + 1 : DepthBefore(l, i) \in Nat
      /\ \A i \in 1 .. n : DepthBefore(l, i + 1) = DepthBefore(l, i) + l[i].size
      /\ \A i, j \in 1 .. n + 1 : i <= j => DepthBefore(l, i) <= DepthBefore(l, j)
  <2> HIDE DEF n
  <2>1. \A i \in 1 .. n : l[i].size \in Nat
    BY <1>1
  <2> QED  BY <1>1, <2>1, DepthSteps, DepthGrows
<1>3. ASSUME NEW i \in 1 .. n
      PROVE  Taken(l, q, i) > 0 <=> DepthBefore(l, i) < q
  <2> HIDE DEF n
  <2>1. Taken(l, q, i) = IF q <= DepthBefore(l, i) THEN 0
                         ELSE IF q <= DepthBefore(l, i + 1) THEN q - DepthBefore(l, i)
                         ELSE l[i].size
    BY <1>1, TakenIs
  <2>2. DepthBefore(l, i) \in Nat /\ DepthBefore(l, i + 1) \in Nat /\ l[i].size > 0
        /\ l[i].size \in Nat
    BY <1>1, <1>2
  <2> QED  BY <2>1, <2>2
<1>4. Consumed(l, q) = C
  BY <1>1, <1>3 DEF Consumed
<1>5. CASE C = {}
  <2>1. 0 \in 0 .. n /\ C = 1 .. 0 /\ \A i \in 0 + 1 .. n : q <= DepthBefore(l, i)
    BY <1>1, <1>2, <1>5
  <2> HIDE DEF C
  <2> QED  BY <1>4, <2>1
<1>6. CASE C # {}
  <2>1. C \subseteq Nat /\ IsFiniteSet(C)
    <3>1. IsFiniteSet(1 .. n) /\ C \subseteq 1 .. n
      BY <1>1, IndexSet
    <3> QED  BY <3>1, FS_Subset
  <2>2. PICK m \in C : \A k \in C : m >= k
    <3> HIDE DEF C
    <3> QED  BY <1>6, <2>1, GreatestNatural
  <2>3. m \in 1 .. n /\ DepthBefore(l, m) < q
    BY <2>2
  <2>4. ASSUME NEW i \in 1 .. m
        PROVE  i \in C
    <3>1. i \in 1 .. n /\ i \in 1 .. n + 1 /\ m \in 1 .. n + 1 /\ i <= m
      BY <1>1, <2>3
    <3>2. DepthBefore(l, i) <= DepthBefore(l, m) /\ DepthBefore(l, i) \in Nat
          /\ DepthBefore(l, m) \in Nat
      BY <1>2, <3>1
    <3> QED  BY <2>3, <3>1, <3>2
  <2>5. ASSUME NEW i \in m + 1 .. n
        PROVE  q <= DepthBefore(l, i)
    <3>1. i \in 1 .. n /\ i \in 1 .. n + 1 /\ ~(m >= i)
      BY <1>1, <2>3
    <3>2. i \notin C
      BY <2>2, <3>1
    <3> QED  BY <1>2, <3>1, <3>2
  <2>6. C = 1 .. m
    <3>1. \A k \in C : k \in 1 .. m
      BY <2>2, <2>3
    <3> QED  BY <2>4, <3>1
  <2>7. m \in 0 .. n /\ \A i \in 1 .. m : DepthBefore(l, i) < q
    BY <2>3, <2>4
  <2> HIDE DEF C
  <2> QED  BY <1>4, <2>5, <2>6, <2>7
<1> QED  BY <1>5, <1>6

(* Sums over a first part and over the whole, when the rest adds nothing.  *)
LEMMA SumOfPart ==
    ASSUME NEW n \in Nat, NEW m \in 0 .. n,
           NEW f, DOMAIN f = 1 .. m, NEW g, DOMAIN g = 1 .. n,
           \A i \in 1 .. m : f[i] = g[i] /\ g[i] \in Int,
           \A i \in m + 1 .. n : g[i] = 0
    PROVE  SumFunction(f) = SumFunction(g)
<1>1. IsFiniteSet(1 .. n) /\ IsFiniteSet(1 .. m) /\ IsFiniteSet(m + 1 .. n)
  <2>1. IsFiniteSet(1 .. n) /\ IsFiniteSet(1 .. m) /\ m + 1 .. n \subseteq 1 .. n
    BY IndexSet
  <2> QED  BY <2>1, FS_Subset
<1>2. /\ SumFunction(f) = SumFunctionOnSet(f, 1 .. m)
      /\ SumFunction(g) = SumFunctionOnSet(g, 1 .. n)
  BY DEF SumFunction
<1>3. \A i \in 1 .. n : g[i] \in Int
  <2> SUFFICES ASSUME NEW i \in 1 .. n PROVE g[i] \in Int
    OBVIOUS
  <2>1. i \in 1 .. m \/ i \in m + 1 .. n
    OBVIOUS
  <2> QED  BY <2>1
<1>4. 1 .. m \in SUBSET (1 .. n) /\ (1 .. n) \ (1 .. m) = m + 1 .. n
  OBVIOUS
<1>5. SumFunctionOnSet(g, 1 .. n)
        = SumFunctionOnSet(g, 1 .. m) + SumFunctionOnSet(g, (1 .. n) \ (1 .. m))
  BY <1>1, <1>3, <1>4, SumSplit
<1>6. SumFunctionOnSet(g, m + 1 .. n) = 0
  BY <1>1, SumZero
<1>7. SumFunctionOnSet(f, 1 .. m) = SumFunctionOnSet(g, 1 .. m)
  BY <1>1, SumSame
<1>8. SumFunctionOnSet(g, 1 .. m) \in Int
  BY <1>1, SumInt
<1> DEFINE a == SumFunctionOnSet(g, 1 .. m)
<1>9. SumFunction(g) = a + 0 /\ SumFunction(f) = a /\ a \in Int
  BY <1>2, <1>4, <1>5, <1>6, <1>7, <1>8
<1> HIDE DEF a
<1> QED  BY <1>9

(* Two ladders on which a walk takes the same.                             *)
SameWalk(w, l, q) ==
    /\ w \in Seq(Level) /\ l \in Seq(Level) /\ Len(w) <= Len(l)
    /\ \A i \in 1 .. Len(w) : w[i].price = l[i].price /\ Taken(w, q, i) = Taken(l, q, i)
    /\ \A i \in Len(w) + 1 .. Len(l) : Taken(l, q, i) = 0

LEMMA SameWalkCosts ==
    ASSUME NEW w, NEW l, NEW q \in Int, SameWalk(w, l, q)
    PROVE  TotalCost(w, q) = TotalCost(l, q)
<1> DEFINE n == Len(l)
           m == Len(w)
           f == [i \in DOMAIN w |-> w[i].price * Taken(w, q, i)]
           g == [i \in DOMAIN l |-> l[i].price * Taken(l, q, i)]
<1>1. /\ n \in Nat /\ DOMAIN l = 1 .. n
      /\ \A i \in 1 .. n : l[i].size \in Nat /\ l[i].price \in Nat
  BY LevelsOf DEF SameWalk
<1>2. m \in 0 .. n /\ DOMAIN w = 1 .. m
  BY LevelsOf DEF SameWalk
<1>3. \A i \in 1 .. n : Taken(l, q, i) \in Nat
  BY <1>1, TakenIs
<1>4. ASSUME NEW i \in 1 .. m
      PROVE  f[i] = g[i] /\ g[i] \in Int
  <2>1. w[i].price = l[i].price /\ Taken(w, q, i) = Taken(l, q, i)
    BY DEF SameWalk
  <2>2. i \in 1 .. n /\ l[i].price \in Nat /\ Taken(l, q, i) \in Nat
    <3>1. i \in 1 .. n
      BY <1>1, <1>2
    <3> QED  BY <1>1, <1>3, <3>1
  <2> QED  BY <1>1, <1>2, <2>1, <2>2
<1>5. ASSUME NEW i \in m + 1 .. n
      PROVE  g[i] = 0
  <2>1. i \in 1 .. n /\ Taken(l, q, i) = 0
    BY <1>2 DEF SameWalk
  <2> QED  BY <1>1, <2>1
<1>6. DOMAIN f = 1 .. m /\ DOMAIN g = 1 .. n
  BY <1>1, <1>2
<1> HIDE DEF f, g, n, m
<1>7. SumFunction(f) = SumFunction(g)
  <2>1. n \in Nat /\ m \in 0 .. n
    BY <1>1, <1>2
  <2>2. \A i \in 1 .. m : f[i] = g[i] /\ g[i] \in Int
    BY <1>4
  <2>3. \A i \in m + 1 .. n : g[i] = 0
    BY <1>5
  <2> QED  BY <1>6, <2>1, <2>2, <2>3, SumOfPart
<1> QED  BY <1>7 DEF TotalCost, f, g

LEMMA CancelFactor ==
    ASSUME NEW a \in Int, NEW b \in Int, NEW d \in Nat \ {0}, d * a < d * b
    PROVE  a < b
<1>1. SUFFICES ASSUME a >= b PROVE FALSE
  OBVIOUS
<1>2. PICK k \in Nat : a = b + k
  <2>1. a - b \in Nat /\ a = b + (a - b)
    BY <1>1
  <2> QED  BY <2>1
<1>3. d * a = d * b + d * k
  BY <1>2
<1>4. d * k \in Nat
  OBVIOUS
<1> QED  BY <1>3, <1>4

(* Rounding up: the least whole number that is not below the quotient.     *)
LEMMA RoundedUpIs ==
    ASSUME NEW n \in Int, NEW d \in Nat \ {0}
    PROVE  /\ RoundedUp(n, d) \in Int
           /\ n <= d * RoundedUp(n, d) /\ d * RoundedUp(n, d) < n + d
<1> DEFINE a == n + d - 1
<1>1. a \in Int
  OBVIOUS
<1>2. a \div d \in Int /\ d * (a \div d) <= a /\ a < d * (a \div d) + d
  <2> HIDE DEF a
  <2> QED  BY <1>1
<1>3. RoundedUp(n, d) = a \div d
  BY DEF RoundedUp
<1> DEFINE r == a \div d
           p == d * r
<1>4. r \in Int /\ p <= a /\ a < p + d /\ p \in Int
  <2> HIDE DEF a
  <2> QED  BY <1>1, <1>2
<1>5. a = n + d - 1
  OBVIOUS
<1> HIDE DEF a, p
<1>6. n <= p /\ p < n + d
  BY <1>4, <1>5
<1> QED  BY <1>3, <1>4, <1>6 DEF p

LEMMA RoundedUpLeq ==
    ASSUME NEW n \in Int, NEW m \in Int, n <= m, NEW d \in Nat \ {0}
    PROVE  RoundedUp(n, d) <= RoundedUp(m, d)
<1> DEFINE x == RoundedUp(n, d)
           y == RoundedUp(m, d)
<1>1. x \in Int /\ y \in Int /\ d * x < n + d /\ m <= d * y
  BY RoundedUpIs
<1> HIDE DEF x, y
<1>2. d * (y + 1) = d * y + d /\ d * y \in Int /\ d * x \in Int /\ y + 1 \in Int
  BY <1>1
<1>3. d * x < d * (y + 1)
  BY <1>1, <1>2
<1>4. x < y + 1
  BY <1>1, <1>2, <1>3, CancelFactor
<1> QED  BY <1>1, <1>4 DEF x, y

LEMMA RoundedUpSum ==
    ASSUME NEW n \in Int, NEW m \in Int, NEW d \in Nat \ {0}
    PROVE  RoundedUp(n + m, d) <= RoundedUp(n, d) + RoundedUp(m, d)
<1> DEFINE x == RoundedUp(n, d)
           y == RoundedUp(m, d)
           z == RoundedUp(n + m, d)
<1>0. n + m \in Int
  OBVIOUS
<1>1. x \in Int /\ y \in Int /\ z \in Int /\ n <= d * x /\ m <= d * y /\ d * z < n + m + d
  BY <1>0, RoundedUpIs
<1> HIDE DEF x, y, z
<1>2. /\ d * (x + y + 1) = d * x + d * y + d /\ d * y \in Int /\ d * x \in Int /\ d * z \in Int
      /\ x + y + 1 \in Int
  BY <1>1
<1>3. d * z < d * (x + y + 1)
  BY <1>1, <1>2
<1>4. z < x + y + 1
  BY <1>1, <1>2, <1>3, CancelFactor
<1>5. z <= x + y
  BY <1>1, <1>4
<1> QED  BY <1>5 DEF x, y, z

LEMMA RoundedUpNat ==
    ASSUME NEW n \in Nat, NEW d \in Nat \ {0}
    PROVE  RoundedUp(n, d) \in Nat
<1> DEFINE x == RoundedUp(n, d)
<1>1. x \in Int /\ n <= d * x
  BY RoundedUpIs
<1> HIDE DEF x
<1>2. d * (-1) < d * x /\ -1 \in Int
  <2>1. d * (-1) = -d /\ -d < 0 /\ d * x \in Int
    BY <1>1
  <2> QED  BY <1>1, <2>1
<1>3. -1 < x
  BY <1>1, <1>2, CancelFactor
<1>4. x \in Nat
  BY <1>1, <1>3
<1> QED  BY <1>4 DEF x

LEMMA RoundedUpZero ==
    ASSUME NEW d \in Nat \ {0}
    PROVE  RoundedUp(0, d) = 0
<1> DEFINE x == RoundedUp(0, d)
<1>1. x \in Nat /\ d * x < d
  BY RoundedUpIs, RoundedUpNat
<1> HIDE DEF x
<1>2. d * x < d * 1
  BY <1>1
<1>3. x < 1
  BY <1>1, <1>2, CancelFactor
<1>4. x = 0
  BY <1>1, <1>3
<1> QED  BY <1>4 DEF x

(* Rounded up one by one, amounts come to no less than rounded up at once. *)
LEMMA RoundedUpOnce ==
    ASSUME NEW S, IsFiniteSet(S), NEW d \in Nat \ {0},
           NEW f, \A x \in S : f[x] \in Int,
           NEW g, \A x \in S : g[x] = RoundedUp(f[x], d)
    PROVE  RoundedUp(SumFunctionOnSet(f, S), d) <= SumFunctionOnSet(g, S)
<1> DEFINE Good == {s \in SUBSET S : RoundedUp(SumFunctionOnSet(f, s), d) <= SumFunctionOnSet(g, s)}
<1>1. {} \in Good
  <2>1. SumFunctionOnSet(f, {}) = 0 /\ SumFunctionOnSet(g, {}) = 0
    BY SumEmpty
  <2>2. RoundedUp(0, d) = 0
    BY RoundedUpZero
  <2> QED  BY <2>1, <2>2
<1>0. \A x \in S : g[x] \in Int
  BY RoundedUpIs
<1>2. ASSUME NEW s \in SUBSET S, s # {}, \A x \in s : s \ {x} \in Good
      PROVE  s \in Good
  <2>1. PICK x \in s : TRUE
    BY <1>2
  <2> DEFINE t == s \ {x}
  <2>2. IsFiniteSet(t) /\ x \notin t /\ t \cup {x} = s
    <3>1. t \subseteq S
      OBVIOUS
    <3> QED  BY <3>1, FS_Subset
  <2>3. /\ \A y \in t \cup {x} : f[y] \in Int
        /\ \A y \in t \cup {x} : g[y] \in Int
    BY <1>0, <2>1
  <2>4. RoundedUp(SumFunctionOnSet(f, t), d) <= SumFunctionOnSet(g, t)
    BY <1>2, <2>1
  <2> HIDE DEF t, Good
  <2>5. /\ SumFunctionOnSet(f, t) \in Int
        /\ SumFunctionOnSet(f, s) = SumFunctionOnSet(f, t) + f[x]
    BY <2>2, <2>3, SumAdd
  <2>6. /\ SumFunctionOnSet(g, t) \in Int
        /\ SumFunctionOnSet(g, s) = SumFunctionOnSet(g, t) + g[x]
    BY <2>2, <2>3, SumAdd
  <2> DEFINE a == SumFunctionOnSet(f, t)
             b == f[x]
  <2>7. a \in Int /\ b \in Int
    BY <2>1, <2>5
  <2>8. RoundedUp(a + b, d) <= RoundedUp(a, d) + RoundedUp(b, d)
    <3> HIDE DEF a, b
    <3> QED  BY <2>7, RoundedUpSum
  <2>9. RoundedUp(a, d) \in Int /\ RoundedUp(b, d) \in Int /\ RoundedUp(a + b, d) \in Int
    <3> HIDE DEF a, b
    <3>1. a + b \in Int
      BY <2>7
    <3> QED  BY <2>7, <3>1, RoundedUpIs
  <2>10. g[x] = RoundedUp(b, d)
    BY <2>1
  <2>11. RoundedUp(SumFunctionOnSet(f, s), d) <= SumFunctionOnSet(g, s)
    BY <2>4, <2>5, <2>6, <2>8, <2>9, <2>10
  <2> QED  BY <2>11 DEF Good
<1> HIDE DEF Good
<1>3. \A s \in SUBSET S : s \in Good
  BY <1>1, <1>2, FiniteInduction
<1> QED  BY <1>3 DEF Good

-----------------------------------------------------------------------------
(* A venue's fee: a rate times what the walk takes at each level, rounded. *)
FeeNumer(venue, category) ==
    IF venue = "Kalshi" THEN 7 * KalshiNumer ELSE RateBps(category)
FeeDenom(venue) == IF venue = "Kalshi" THEN 10000 * KalshiDenom ELSE 1000000
Product(price, qty) == qty * price * (Dollar - price)

LEMMA RateIsNat ==
    ASSUME NEW venue, NEW category \in FeeCategory
    PROVE  FeeNumer(venue, category) \in Nat /\ FeeDenom(venue) \in Nat \ {0}
<1>1. RateBps(category) \in Nat
  BY DEF RateBps, FeeCategory
<1>2. 7 * KalshiNumer \in Nat /\ 10000 * KalshiDenom \in Nat \ {0}
  BY FeesAssumption
<1> QED  BY <1>1, <1>2 DEF FeeNumer, FeeDenom

LEMMA ProductIs ==
    ASSUME NEW price \in 0 .. 100, NEW qty \in Nat, NEW less \in 0 .. qty
    PROVE  /\ Product(price, qty) \in Nat /\ Product(price, less) \in Nat
           /\ Product(price, less) <= Product(price, qty) /\ Product(price, 0) = 0
<1> DEFINE u == price * (100 - price)
<1>1. u \in Nat
  OBVIOUS
<1>2. \A x \in Nat : Product(price, x) = x * u
  BY DEF Product, Dollar
<1> HIDE DEF u
<1>3. PICK k \in Nat : qty = less + k /\ less \in Nat
  <2>1. qty - less \in Nat /\ qty = less + (qty - less) /\ less \in Nat
    OBVIOUS
  <2> QED  BY <2>1
<1>4. less * u \in Nat /\ k * u \in Nat /\ qty * u = less * u + k * u
  BY <1>1, <1>3
<1> QED  BY <1>1, <1>2, <1>3, <1>4

LEMMA TakerFeeIs ==
    ASSUME NEW venue, NEW table, NEW c, Category(table, c) \in FeeCategory,
           NEW price \in 0 .. 100, NEW qty \in Nat
    PROVE  TakerFee(venue, table, c, price, qty)
             = RoundedUp(FeeNumer(venue, Category(table, c)) * Product(price, qty),
                         FeeDenom(venue))
<1>1. CASE venue = "Kalshi"
  <2>1. 7 * qty * price * (100 - price) * KalshiNumer
          = (7 * KalshiNumer) * (qty * price * (100 - price))
    BY FeesAssumption
  <2> QED  BY <1>1, <2>1 DEF TakerFee, KalshiFee, FeeNumer, FeeDenom, Product, Dollar
<1>2. CASE venue # "Kalshi"
  <2> DEFINE r == RateBps(Category(table, c))
  <2>1. r \in Nat
    BY DEF RateBps, FeeCategory
  <2>2. TakerFee(venue, table, c, price, qty)
          = RoundedUp(qty * r * price * (Dollar - price), 10000 * 100)
    BY <1>2 DEF TakerFee, PolymarketFee
  <2> HIDE DEF r
  <2>3. qty * r * price * (100 - price) = r * (qty * price * (100 - price))
    BY <2>1
  <2>4. FeeNumer(venue, Category(table, c)) = r /\ FeeDenom(venue) = 1000000
    BY <1>2 DEF FeeNumer, FeeDenom, r
  <2> QED  BY <2>2, <2>3, <2>4 DEF Product, Dollar
<1> QED  BY <1>1, <1>2

(* A fee is nothing for nothing and no smaller for more.                   *)
LEMMA TakerFeeGrows ==
    ASSUME NEW venue, NEW table, NEW c, Category(table, c) \in FeeCategory,
           NEW price \in 0 .. 100, NEW qty \in Nat, NEW less \in 0 .. qty
    PROVE  /\ TakerFee(venue, table, c, price, qty) \in Nat
           /\ TakerFee(venue, table, c, price, less) \in Nat
           /\ TakerFee(venue, table, c, price, less) <= TakerFee(venue, table, c, price, qty)
           /\ TakerFee(venue, table, c, price, 0) = 0
<1> DEFINE a == FeeNumer(venue, Category(table, c))
           d == FeeDenom(venue)
           p == Product(price, qty)
           r == Product(price, less)
<1>1. a \in Nat /\ d \in Nat \ {0}
  BY RateIsNat
<1>2. p \in Nat /\ r \in Nat /\ r <= p /\ Product(price, 0) = 0
  BY ProductIs
<1>3. less \in Nat /\ 0 \in Nat
  OBVIOUS
<1>4. /\ TakerFee(venue, table, c, price, qty) = RoundedUp(a * p, d)
      /\ TakerFee(venue, table, c, price, less) = RoundedUp(a * r, d)
      /\ TakerFee(venue, table, c, price, 0) = RoundedUp(a * Product(price, 0), d)
  BY <1>3, TakerFeeIs
<1> HIDE DEF a, d, p, r
<1>5. PICK k \in Nat : p = r + k
  <2>1. p - r \in Nat /\ p = r + (p - r)
    BY <1>2
  <2> QED  BY <2>1
<1>6. a * p = a * r + a * k /\ a * r \in Nat /\ a * k \in Nat /\ a * p \in Nat /\ a * 0 = 0
  BY <1>1, <1>2, <1>5
<1>7. a * r <= a * p /\ a * r \in Int /\ a * p \in Int
  BY <1>6
<1>8. RoundedUp(a * r, d) <= RoundedUp(a * p, d)
  BY <1>1, <1>7, RoundedUpLeq
<1>9. RoundedUp(a * p, d) \in Nat /\ RoundedUp(a * r, d) \in Nat /\ RoundedUp(0, d) = 0
  BY <1>1, <1>6, RoundedUpNat, RoundedUpZero
<1> QED  BY <1>2, <1>4, <1>6, <1>8, <1>9

LEMMA TakenOf ==
    ASSUME NEW l \in Seq(Level), NEW q \in Int, NEW i \in 1 .. Len(l)
    PROVE  Taken(l, q, i) \in Nat /\ Taken(l, q, i) <= l[i].size
<1>1. Len(l) \in Nat /\ DOMAIN l = 1 .. Len(l) /\ \A j \in 1 .. Len(l) : l[j].size \in Nat
  BY LevelsOf
<1>2. Taken(l, q, i) \in Nat /\ Taken(l, q, i) \in 0 .. l[i].size
  <2> DEFINE n == Len(l)
  <2>1. n \in Nat /\ DOMAIN l = 1 .. n /\ (\A j \in 1 .. n : l[j].size \in Nat) /\ i \in 1 .. n
    BY <1>1
  <2> HIDE DEF n
  <2> QED  BY <2>1, TakenIs
<1> QED  BY <1>1, <1>2

(* A longer walk takes no less of a level.                                 *)
LEMMA TakenGrows ==
    ASSUME NEW l \in Seq(Level), NEW q \in Int, NEW less \in Int, less <= q,
           NEW i \in 1 .. Len(l)
    PROVE  Taken(l, less, i) <= Taken(l, q, i)
<1> DEFINE n == Len(l)
<1>1. n \in Nat /\ DOMAIN l = 1 .. n /\ (\A j \in 1 .. n : l[j].size \in Nat) /\ i \in 1 .. n
  BY LevelsOf
<1> HIDE DEF n
<1>2. /\ Taken(l, q, i) = IF q <= DepthBefore(l, i) THEN 0
                          ELSE IF q <= DepthBefore(l, i + 1) THEN q - DepthBefore(l, i)
                          ELSE l[i].size
      /\ Taken(l, less, i) = IF less <= DepthBefore(l, i) THEN 0
                             ELSE IF less <= DepthBefore(l, i + 1) THEN less - DepthBefore(l, i)
                             ELSE l[i].size
  BY <1>1, TakenIs
<1>3. /\ DepthBefore(l, i) \in Int /\ l[i].size \in Nat
      /\ DepthBefore(l, i + 1) = DepthBefore(l, i) + l[i].size
  <2>1. i \in 1 .. n + 1
    BY <1>1
  <2> QED  BY <1>1, <2>1, DepthSteps
<1> QED  BY <1>2, <1>3

LEMMA CostTerms ==
    ASSUME NEW l \in Seq(Level), NEW q \in Int
    PROVE  /\ IsFiniteSet(1 .. Len(l))
           /\ \A i \in 1 .. Len(l) : l[i].price * Taken(l, q, i) \in Nat
           /\ TotalCost(l, q) = SumFunctionOnSet([i \in 1 .. Len(l) |-> l[i].price * Taken(l, q, i)],
                                                 1 .. Len(l))
           /\ TotalCost(l, q) \in Nat
<1> DEFINE n == Len(l)
           f == [i \in 1 .. n |-> l[i].price * Taken(l, q, i)]
<1>1. n \in Nat /\ DOMAIN l = 1 .. n /\ IsFiniteSet(1 .. n)
  BY LevelsOf, IndexSet
<1>2. \A i \in 1 .. n : l[i].price \in Nat /\ Taken(l, q, i) \in Nat
  BY LevelsOf, TakenOf
<1>3. \A i \in 1 .. n : l[i].price * Taken(l, q, i) \in Nat
  <2> HIDE DEF n
  <2> QED  BY <1>2
<1>4. TotalCost(l, q) = SumFunctionOnSet(f, 1 .. n)
  BY <1>1 DEF TotalCost, SumFunction
<1>5. SumFunctionOnSet(f, 1 .. n) \in Nat
  <2>1. \A i \in 1 .. n : f[i] \in Nat
    BY <1>3
  <2> HIDE DEF f, n
  <2> QED  BY <1>1, <2>1, SumNat
<1> QED  BY <1>1, <1>3, <1>4, <1>5

LEMMA FeeTerms ==
    ASSUME NEW venue, NEW table, NEW c, Category(table, c) \in FeeCategory,
           NEW l \in Seq(Level), NEW q \in Int
    PROVE  /\ \A i \in 1 .. Len(l) : TakerFee(venue, table, c, l[i].price, Taken(l, q, i)) \in Nat
           /\ FeePerLevel(venue, table, c, l, q)
                = SumFunctionOnSet([i \in 1 .. Len(l) |->
                        TakerFee(venue, table, c, l[i].price, Taken(l, q, i))], 1 .. Len(l))
           /\ FeePerLevel(venue, table, c, l, q) \in Nat
<1> DEFINE n == Len(l)
           t(i) == TakerFee(venue, table, c, l[i].price, Taken(l, q, i))
           f == [i \in 1 .. n |-> t(i)]
<1>1. n \in Nat /\ DOMAIN l = 1 .. n /\ IsFiniteSet(1 .. n)
  BY LevelsOf, IndexSet
<1>2. \A i \in 1 .. n : l[i].price \in 0 .. 100 /\ Taken(l, q, i) \in Nat
  BY LevelsOf, TakenOf
<1>3. ASSUME NEW i \in 1 .. n
      PROVE  t(i) \in Nat
  <2>1. l[i].price \in 0 .. 100 /\ Taken(l, q, i) \in Nat
        /\ Taken(l, q, i) \in 0 .. Taken(l, q, i)
    BY <1>2
  <2> QED  BY <2>1, TakerFeeGrows
<1>4. FeePerLevel(venue, table, c, l, q) = SumFunctionOnSet(f, 1 .. n)
  BY <1>1 DEF FeePerLevel, SumFunction
<1>5. SumFunctionOnSet(f, 1 .. n) \in Nat
  <2>1. \A i \in 1 .. n : f[i] \in Nat
    BY <1>3
  <2> HIDE DEF f, n
  <2> QED  BY <1>1, <2>1, SumNat
<1> QED  BY <1>3, <1>4, <1>5

LEMMA SameWalkFees ==
    ASSUME NEW venue, NEW table, NEW c, Category(table, c) \in FeeCategory,
           NEW w, NEW l, NEW q \in Int, SameWalk(w, l, q)
    PROVE  FeePerLevel(venue, table, c, w, q) = FeePerLevel(venue, table, c, l, q)
<1> DEFINE n == Len(l)
           m == Len(w)
           f == [i \in DOMAIN w |-> TakerFee(venue, table, c, w[i].price, Taken(w, q, i))]
           g == [i \in DOMAIN l |-> TakerFee(venue, table, c, l[i].price, Taken(l, q, i))]
<1>1. /\ n \in Nat /\ DOMAIN l = 1 .. n
      /\ \A i \in 1 .. n : l[i].price \in 0 .. 100
  BY LevelsOf DEF SameWalk
<1>2. m \in 0 .. n /\ DOMAIN w = 1 .. m
  BY LevelsOf DEF SameWalk
<1>3. \A i \in 1 .. n : TakerFee(venue, table, c, l[i].price, Taken(l, q, i)) \in Nat
  BY FeeTerms DEF SameWalk
<1>4. ASSUME NEW i \in 1 .. m
      PROVE  f[i] = g[i] /\ g[i] \in Int
  <2>1. w[i].price = l[i].price /\ Taken(w, q, i) = Taken(l, q, i)
    BY DEF SameWalk
  <2>2. i \in 1 .. n
    BY <1>1, <1>2
  <2> QED  BY <1>1, <1>2, <1>3, <2>1, <2>2
<1>5. ASSUME NEW i \in m + 1 .. n
      PROVE  g[i] = 0
  <2>1. i \in 1 .. n /\ Taken(l, q, i) = 0
    BY <1>2 DEF SameWalk
  <2>2. 0 \in Nat /\ 0 \in 0 .. 0 /\ l[i].price \in 0 .. 100
    BY <1>1, <2>1
  <2>3. TakerFee(venue, table, c, l[i].price, 0) = 0
    BY <2>2, TakerFeeGrows
  <2> QED  BY <1>1, <2>1, <2>3
<1>6. DOMAIN f = 1 .. m /\ DOMAIN g = 1 .. n
  BY <1>1, <1>2
<1> HIDE DEF f, g, n, m
<1>7. SumFunction(f) = SumFunction(g)
  <2>1. n \in Nat /\ m \in 0 .. n
    BY <1>1, <1>2
  <2>2. \A i \in 1 .. m : f[i] = g[i] /\ g[i] \in Int
    BY <1>4
  <2>3. \A i \in m + 1 .. n : g[i] = 0
    BY <1>5
  <2> QED  BY <1>6, <2>1, <2>2, <2>3, SumOfPart
<1> QED  BY <1>7 DEF FeePerLevel, f, g

(* Rounded level by level, a fee is no less than rounded once.             *)
ExactSpread(l, q) ==
    SumFunction([i \in DOMAIN l |-> Taken(l, q, i) * l[i].price * (Dollar - l[i].price)])

LEMMA FeePerLevelIsDearer ==
    ASSUME NEW venue, NEW table, NEW c, Category(table, c) \in FeeCategory,
           NEW l \in Seq(Level), NEW q \in Int
    PROVE  /\ ExactSpread(l, q) \in Nat
           /\ RoundedUp(FeeNumer(venue, Category(table, c)) * ExactSpread(l, q), FeeDenom(venue))
                <= FeePerLevel(venue, table, c, l, q)
<1> DEFINE n == Len(l)
           a == FeeNumer(venue, Category(table, c))
           d == FeeDenom(venue)
           e == [i \in 1 .. n |-> Product(l[i].price, Taken(l, q, i))]
           f == [i \in 1 .. n |-> a * e[i]]
           g == [i \in 1 .. n |-> TakerFee(venue, table, c, l[i].price, Taken(l, q, i))]
<1>1. n \in Nat /\ DOMAIN l = 1 .. n /\ IsFiniteSet(1 .. n)
  BY LevelsOf, IndexSet
<1>2. \A i \in 1 .. n : l[i].price \in 0 .. 100 /\ Taken(l, q, i) \in Nat
  BY LevelsOf, TakenOf
<1>3. a \in Nat /\ d \in Nat \ {0}
  BY RateIsNat
<1>4. \A i \in 1 .. n : e[i] \in Nat
  <2> SUFFICES ASSUME NEW i \in 1 .. n PROVE e[i] \in Nat
    OBVIOUS
  <2>1. l[i].price \in 0 .. 100 /\ Taken(l, q, i) \in Nat /\ 0 \in 0 .. Taken(l, q, i)
    BY <1>2
  <2>2. Product(l[i].price, Taken(l, q, i)) \in Nat
    BY <2>1, ProductIs
  <2> QED  BY <2>2
<1>5. \A i \in 1 .. n : g[i] = RoundedUp(f[i], d)
  BY <1>2, TakerFeeIs
<1>6. ExactSpread(l, q) = SumFunctionOnSet(e, 1 .. n)
  BY <1>1 DEF ExactSpread, SumFunction, Product
<1>7. FeePerLevel(venue, table, c, l, q) = SumFunctionOnSet(g, 1 .. n)
  BY FeeTerms
<1>8. \A i \in 1 .. n : f[i] = a * e[i]
  OBVIOUS
<1>9. \A i \in 1 .. n : f[i] \in Int
  <2> HIDE DEF a, e
  <2> QED  BY <1>3, <1>4
<1> HIDE DEF n, a, d, e, f, g
<1>10. SumFunctionOnSet(e, 1 .. n) \in Nat
  BY <1>1, <1>4, SumNat
<1>11. SumFunctionOnSet(f, 1 .. n) = a * SumFunctionOnSet(e, 1 .. n)
  <2>1. a \in Int /\ \A i \in 1 .. n : e[i] \in Int
    BY <1>3, <1>4
  <2> QED  BY <1>1, <1>8, <2>1, SumScale
<1>12. RoundedUp(SumFunctionOnSet(f, 1 .. n), d) <= SumFunctionOnSet(g, 1 .. n)
  BY <1>1, <1>3, <1>5, <1>9, RoundedUpOnce
<1> QED  BY <1>6, <1>7, <1>10, <1>11, <1>12 DEF a, d

(* A longer walk costs no less, fees and all.                              *)
LEMMA FeePerLevelGrows ==
    ASSUME NEW venue, NEW table, NEW c, Category(table, c) \in FeeCategory,
           NEW l \in Seq(Level), NEW q \in Int, NEW less \in Int, less <= q
    PROVE  FeePerLevel(venue, table, c, l, less) <= FeePerLevel(venue, table, c, l, q)
<1> DEFINE n == Len(l)
           f == [i \in 1 .. n |-> TakerFee(venue, table, c, l[i].price, Taken(l, less, i))]
           g == [i \in 1 .. n |-> TakerFee(venue, table, c, l[i].price, Taken(l, q, i))]
<1>1. n \in Nat /\ DOMAIN l = 1 .. n /\ IsFiniteSet(1 .. n)
  BY LevelsOf, IndexSet
<1>2. /\ FeePerLevel(venue, table, c, l, less) = SumFunctionOnSet(f, 1 .. n)
      /\ FeePerLevel(venue, table, c, l, q) = SumFunctionOnSet(g, 1 .. n)
  BY FeeTerms
<1>3. ASSUME NEW i \in 1 .. n
      PROVE  f[i] \in Int /\ g[i] \in Int /\ f[i] <= g[i]
  <2>1. l[i].price \in 0 .. 100
    BY LevelsOf
  <2>2. Taken(l, q, i) \in Nat /\ Taken(l, less, i) \in 0 .. Taken(l, q, i)
    BY TakenOf, TakenGrows
  <2>3. TakerFee(venue, table, c, l[i].price, Taken(l, less, i))
          <= TakerFee(venue, table, c, l[i].price, Taken(l, q, i))
        /\ TakerFee(venue, table, c, l[i].price, Taken(l, less, i)) \in Nat
        /\ TakerFee(venue, table, c, l[i].price, Taken(l, q, i)) \in Nat
    BY <2>1, <2>2, TakerFeeGrows
  <2> QED  BY <2>3
<1> HIDE DEF f, g
<1>4. SumFunctionOnSet(f, 1 .. n) <= SumFunctionOnSet(g, 1 .. n)
  BY <1>1, <1>3, SumLeq
<1> QED  BY <1>2, <1>4

LEMMA DepthFacts ==
    ASSUME NEW l \in Seq(Level)
    PROVE  /\ \A i \in 1 .. Len(l) + 1 : DepthBefore(l, i) \in Nat
           /\ \A i \in 1 .. Len(l) : DepthBefore(l, i + 1) = DepthBefore(l, i) + l[i].size
           /\ \A i, j \in 1 .. Len(l) + 1 : i <= j => DepthBefore(l, i) <= DepthBefore(l, j)
           /\ DepthBefore(l, 1) = 0
           /\ DepthOf(l) = DepthBefore(l, Len(l) + 1) /\ DepthOf(l) \in Nat
<1> DEFINE n == Len(l)
<1>1. n \in Nat /\ DOMAIN l = 1 .. n /\ (\A i \in 1 .. n : l[i].size \in Nat)
  BY LevelsOf
<1>2. n + 1 \in 1 .. n + 1
  BY <1>1
<1>3. DepthOf(l) = DepthBefore(l, n + 1)
  BY DEF DepthOf
<1> HIDE DEF n
<1>4. /\ \A i \in 1 .. n + 1 : DepthBefore(l, i) \in Nat
      /\ \A i \in 1 .. n : DepthBefore(l, i + 1) = DepthBefore(l, i) + l[i].size
      /\ \A i, j \in 1 .. n + 1 : i <= j => DepthBefore(l, i) <= DepthBefore(l, j)
      /\ DepthBefore(l, 1) = 0
  BY <1>1, DepthSteps, DepthGrows
<1> QED  BY <1>2, <1>3, <1>4 DEF n

LEMMA DepthSame ==
    ASSUME NEW w \in Seq(Level), NEW l \in Seq(Level), NEW i \in Nat,
           i <= Len(w), i <= Len(l), \A j \in 1 .. i - 1 : w[j].size = l[j].size
    PROVE  DepthBefore(w, i) = DepthBefore(l, i)
<1>1. [j \in 1 .. i - 1 |-> w[j].size] = [j \in 1 .. i - 1 |-> l[j].size]
  OBVIOUS
<1> QED  BY <1>1 DEF DepthBefore

(* Walked to a quantity, a ladder is cut there: what it then holds is the  *)
(* quantity, or all there was, and shorter walks are the same on it.       *)
LEMMA WalkIs ==
    ASSUME NEW l \in Seq(Level), NEW want \in Nat
    PROVE  /\ Walk(l, want) \in Seq(Level)
           /\ DepthOf(Walk(l, want)) = Clipped(want, DepthOf(l))
           /\ \A q \in Int : q <= want => SameWalk(Walk(l, want), l, q)
           /\ Len(Walk(l, want)) <= Len(l)
           /\ \A i \in 1 .. Len(Walk(l, want)) : Walk(l, want)[i].size = Taken(l, want, i)
           /\ \A i \in Len(Walk(l, want)) + 1 .. Len(l) : Taken(l, want, i) = 0
<1> DEFINE n == Len(l)
           w == Walk(l, want)
<1>1. /\ n \in Nat /\ DOMAIN l = 1 .. n
      /\ \A i \in 1 .. n : l[i].size \in Nat \ {0} /\ l[i].size \in Nat /\ l[i] \in Level
  BY LevelsOf
<1>2. PICK m \in 0 .. n :
              /\ Consumed(l, want) = 1 .. m
              /\ \A i \in 1 .. m : DepthBefore(l, i) < want
              /\ \A i \in m + 1 .. n : want <= DepthBefore(l, i)
  <2>1. want \in Int
    OBVIOUS
  <2> QED  BY <2>1, ConsumedIs
<1>3. /\ \A i \in 1 .. n + 1 : DepthBefore(l, i) \in Nat
      /\ \A i \in 1 .. n : DepthBefore(l, i + 1) = DepthBefore(l, i) + l[i].size
      /\ \A i, j \in 1 .. n + 1 : i <= j => DepthBefore(l, i) <= DepthBefore(l, j)
      /\ DepthOf(l) = DepthBefore(l, n + 1)
  BY DepthFacts
<1>4. ASSUME NEW i \in 1 .. n, NEW q \in Int
      PROVE  Taken(l, q, i) = IF q <= DepthBefore(l, i) THEN 0
                              ELSE IF q <= DepthBefore(l, i + 1) THEN q - DepthBefore(l, i)
                              ELSE l[i].size
  <2> HIDE DEF n
  <2> QED  BY <1>1, TakenIs
<1>5. w = [i \in 1 .. m |-> [price |-> l[i].price, size |-> Taken(l, want, i)]]
  BY <1>2 DEF Walk
<1>6. ASSUME NEW i \in 1 .. m
      PROVE  /\ i \in 1 .. n /\ w[i].price = l[i].price /\ w[i].size = Taken(l, want, i)
             /\ w[i] \in Level
  <2>1. i \in 1 .. n
    BY <1>1, <1>2
  <2>2. DepthBefore(l, i) < want /\ DepthBefore(l, i) \in Nat /\ DepthBefore(l, i + 1) \in Nat
        /\ l[i].size \in Nat \ {0}
    BY <1>1, <1>2, <1>3, <2>1
  <2>3. Taken(l, want, i) \in Nat \ {0}
    BY <1>4, <2>1, <2>2
  <2>4. l[i].price \in 0 .. Dollar
    BY <1>1, <2>1 DEF Level
  <2>5. w[i] = [price |-> l[i].price, size |-> Taken(l, want, i)]
    BY <1>5
  <2> QED  BY <2>1, <2>3, <2>4, <2>5 DEF Level
<1>7. w \in Seq(Level) /\ Len(w) = m /\ DOMAIN w = 1 .. m
  <2>1. m \in Nat
    BY <1>1, <1>2
  <2>2. w = [i \in 1 .. m |-> w[i]]
    BY <1>5
  <2> HIDE DEF w
  <2> QED  BY <1>6, <2>1, <2>2
<1> HIDE DEF w, n
<1>8. ASSUME NEW i \in 1 .. m - 1
      PROVE  w[i].size = l[i].size
  <2>1. /\ i \in 1 .. m /\ i + 1 \in 1 .. m /\ i \in 1 .. n /\ i + 1 \in 1 .. n + 1
        /\ i \in 1 .. n + 1
    BY <1>1, <1>2
  <2>2. DepthBefore(l, i + 1) < want /\ DepthBefore(l, i + 1) \in Nat
        /\ DepthBefore(l, i) \in Nat /\ DepthBefore(l, i + 1) = DepthBefore(l, i) + l[i].size
        /\ l[i].size \in Nat
    BY <1>1, <1>2, <1>3, <2>1
  <2>3. Taken(l, want, i) = l[i].size
    BY <1>4, <2>1, <2>2
  <2> QED  BY <1>6, <2>1, <2>3
<1>9. ASSUME NEW i \in 1 .. m
      PROVE  DepthBefore(w, i) = DepthBefore(l, i)
  <2>1. i \in Nat /\ i <= Len(w) /\ i <= Len(l) /\ \A j \in 1 .. i - 1 : w[j].size = l[j].size
    BY <1>1, <1>2, <1>7, <1>8 DEF n
  <2> QED  BY <1>7, <2>1, DepthSame
<1>10. /\ \A i \in 1 .. m + 1 : DepthBefore(w, i) \in Nat
       /\ \A i \in 1 .. m : DepthBefore(w, i + 1) = DepthBefore(w, i) + w[i].size
       /\ DepthOf(w) = DepthBefore(w, m + 1)
       /\ DepthBefore(w, 1) = 0
  BY <1>7, DepthFacts
<1>11. DepthOf(w) = Clipped(want, DepthOf(l))
  <2>1. CASE m = 0
    <3>1. DepthOf(w) = 0
      BY <1>10, <2>1
    <3>2. CASE n = 0
      <4>1. DepthOf(l) = 0
        <5>1. DepthBefore(l, 1) = 0
          BY DepthFacts
        <5> QED  BY <1>3, <3>2, <5>1
      <4> QED  BY <3>1, <4>1 DEF Clipped
    <3>3. CASE n # 0
      <4>1. 1 \in m + 1 .. n /\ DepthBefore(l, 1) = 0
        BY <1>1, <2>1, <3>3, DepthFacts
      <4>2. want = 0
        BY <1>2, <4>1
      <4>3. DepthOf(l) \in Nat
        BY DepthFacts
      <4> QED  BY <3>1, <4>2, <4>3 DEF Clipped
    <3> QED  BY <3>2, <3>3
  <2>2. CASE m # 0
    <3>1. m \in 1 .. m /\ m \in 1 .. n /\ m \in 1 .. n + 1 /\ m + 1 \in 1 .. n + 1
          /\ n + 1 \in 1 .. n + 1 /\ m + 1 <= n + 1
      BY <1>1, <1>2, <2>2
    <3>2. /\ DepthBefore(w, m) = DepthBefore(l, m) /\ w[m].size = Taken(l, want, m)
          /\ DepthBefore(w, m + 1) = DepthBefore(w, m) + w[m].size
      BY <1>6, <1>9, <1>10, <3>1
    <3>3. /\ DepthBefore(l, m) < want /\ DepthBefore(l, m) \in Nat /\ DepthBefore(l, m + 1) \in Nat
          /\ DepthBefore(l, m + 1) = DepthBefore(l, m) + l[m].size
          /\ DepthBefore(l, m + 1) <= DepthBefore(l, n + 1) /\ DepthBefore(l, n + 1) \in Nat
          /\ l[m].size \in Nat
      BY <1>1, <1>2, <1>3, <3>1
    <3>4. Taken(l, want, m) = IF want <= DepthBefore(l, m + 1) THEN want - DepthBefore(l, m)
                              ELSE l[m].size
      BY <1>4, <3>1, <3>3
    <3>5. DepthOf(w) = IF want <= DepthBefore(l, m + 1) THEN want ELSE DepthBefore(l, m + 1)
      BY <1>10, <3>2, <3>3, <3>4
    <3>6. CASE m = n
      BY <1>3, <3>5, <3>6 DEF Clipped
    <3>7. CASE m # n
      <4>1. m + 1 \in m + 1 .. n
        BY <1>1, <1>2, <3>7
      <4>2. want <= DepthBefore(l, m + 1)
        BY <1>2, <4>1
      <4> QED  BY <1>3, <3>3, <3>5, <4>2 DEF Clipped
    <3> QED  BY <3>6, <3>7
  <2> QED  BY <2>1, <2>2
<1>12. ASSUME NEW q \in Int, q <= want
       PROVE  SameWalk(w, l, q)
  <2>1. ASSUME NEW i \in 1 .. m
        PROVE  w[i].price = l[i].price /\ Taken(w, q, i) = Taken(l, q, i)
    <3>1. /\ i \in 1 .. n /\ i \in 1 .. m + 1 /\ i + 1 \in 1 .. n + 1 /\ i \in 1 .. n + 1
      BY <1>1, <1>2
    <3>2. /\ DepthBefore(l, i) < want /\ DepthBefore(l, i) \in Nat
          /\ DepthBefore(l, i + 1) = DepthBefore(l, i) + l[i].size /\ l[i].size \in Nat
      BY <1>1, <1>2, <1>3, <3>1
    <3>3. Taken(w, q, i) = IF q <= DepthBefore(w, i) THEN 0
                           ELSE IF q <= DepthBefore(w, i + 1) THEN q - DepthBefore(w, i)
                           ELSE w[i].size
      <4>1. m \in Nat /\ \A j \in 1 .. m : w[j].size \in Nat
        BY <1>1, <1>2, <1>6, LevelIs
      <4> QED  BY <1>7, <4>1, TakenIs
    <3>4. /\ DepthBefore(w, i + 1) = DepthBefore(w, i) + w[i].size
          /\ DepthBefore(w, i) = DepthBefore(l, i) /\ w[i].size = Taken(l, want, i)
      BY <1>6, <1>9, <1>10, <3>1
    <3>5. Taken(l, want, i) = IF want <= DepthBefore(l, i + 1) THEN want - DepthBefore(l, i)
                              ELSE l[i].size
      BY <1>4, <3>1, <3>2
    <3>6. Taken(l, q, i) = IF q <= DepthBefore(l, i) THEN 0
                           ELSE IF q <= DepthBefore(l, i + 1) THEN q - DepthBefore(l, i)
                           ELSE l[i].size
      BY <1>4, <3>1
    <3>7. Taken(w, q, i) = Taken(l, q, i)
      BY <1>12, <3>2, <3>3, <3>4, <3>5, <3>6
    <3> QED  BY <1>6, <3>7
  <2>2. ASSUME NEW i \in m + 1 .. n
        PROVE  Taken(l, q, i) = 0
    <3>1. i \in 1 .. n /\ i \in 1 .. n + 1
      BY <1>1, <1>2
    <3>2. want <= DepthBefore(l, i) /\ DepthBefore(l, i) \in Nat
      BY <1>2, <1>3, <3>1
    <3> QED  BY <1>4, <1>12, <3>1, <3>2
  <2>3. m <= n
    BY <1>1, <1>2
  <2> QED  BY <1>7, <2>1, <2>2, <2>3 DEF SameWalk, n
<1>13. \A i \in m + 1 .. n : Taken(l, want, i) = 0
  <2>1. SameWalk(w, l, want)
    BY <1>12
  <2> QED  BY <1>7, <2>1 DEF SameWalk, n
<1>14. m <= n /\ \A i \in 1 .. m : w[i].size = Taken(l, want, i)
  BY <1>1, <1>2, <1>6
<1> QED  BY <1>7, <1>11, <1>12, <1>13, <1>14 DEF w, n

(* What a walk takes in all.                                               *)
LEMMA TakenInAll ==
    ASSUME NEW l \in Seq(Level), NEW q \in Nat
    PROVE  /\ SumFunctionOnSet([i \in 1 .. Len(l) |-> Taken(l, q, i)], 1 .. Len(l))
                = Clipped(q, DepthOf(l))
           /\ IsFiniteSet(1 .. Len(l))
<1> DEFINE n == Len(l)
           w == Walk(l, q)
           m == Len(w)
           g == [i \in 1 .. n |-> Taken(l, q, i)]
           f == [i \in 1 .. m |-> w[i].size]
<1>1. n \in Nat /\ IsFiniteSet(1 .. n)
  BY LevelsOf, IndexSet
<1>2. /\ w \in Seq(Level) /\ DepthOf(w) = Clipped(q, DepthOf(l)) /\ m <= n
      /\ \A i \in 1 .. m : w[i].size = Taken(l, q, i)
      /\ \A i \in m + 1 .. n : Taken(l, q, i) = 0
  BY WalkIs
<1>3. m \in 0 .. n
  BY <1>1, <1>2
<1>4. DepthOf(w) = SumFunction(f)
  <2>1. 1 .. (m + 1) - 1 = 1 .. m
    BY <1>1, <1>3
  <2> QED  BY <2>1 DEF DepthOf, DepthBefore
<1>5. SumFunction(g) = SumFunctionOnSet(g, 1 .. n)
  BY DEF SumFunction
<1>6. ASSUME NEW i \in 1 .. m
      PROVE  f[i] = g[i] /\ g[i] \in Int
  <2>1. i \in 1 .. n
    BY <1>1, <1>3
  <2>2. Taken(l, q, i) \in Nat
    BY <2>1, TakenOf
  <2> QED  BY <1>2, <2>1, <2>2
<1>7. ASSUME NEW i \in m + 1 .. n
      PROVE  g[i] = 0
  <2>1. i \in 1 .. n
    BY <1>1, <1>3
  <2> QED  BY <1>2, <2>1
<1>8. DOMAIN f = 1 .. m /\ DOMAIN g = 1 .. n
  OBVIOUS
<1> HIDE DEF f, g, n, m, w
<1>9. SumFunction(f) = SumFunction(g)
  BY <1>1, <1>3, <1>6, <1>7, <1>8, SumOfPart
<1>10. SumFunctionOnSet(g, 1 .. n) = Clipped(q, DepthOf(l))
  BY <1>2, <1>4, <1>5, <1>9
<1> QED  BY <1>1, <1>10 DEF g, n

(* A first part of a ladder that a walk does not leave.                    *)
LEMMA PartIs ==
    ASSUME NEW l \in Seq(Level), NEW m \in 0 .. Len(l), NEW q \in Int,
           \A i \in m + 1 .. Len(l) : q <= DepthBefore(l, i),
           NEW w, w = [i \in 1 .. m |-> l[i]]
    PROVE  /\ SameWalk(w, l, q)
           /\ q <= DepthOf(l) => q <= DepthOf(w)
<1> DEFINE n == Len(l)
<1>1. /\ n \in Nat /\ DOMAIN l = 1 .. n /\ m \in 0 .. n
      /\ \A i \in 1 .. n : l[i].size \in Nat /\ l[i] \in Level
  BY LevelsOf
<1>2. w \in Seq(Level) /\ Len(w) = m /\ DOMAIN w = 1 .. m /\ \A i \in 1 .. m : w[i] = l[i]
  <2>1. \A i \in 1 .. m : l[i] \in Level /\ m \in Nat
    BY <1>1
  <2>2. m \in Nat
    BY <1>1
  <2> QED  BY <2>1, <2>2
<1>3. ASSUME NEW i \in 1 .. m + 1
      PROVE  DepthBefore(w, i) = DepthBefore(l, i)
  <2>1. [j \in 1 .. i - 1 |-> w[j].size] = [j \in 1 .. i - 1 |-> l[j].size]
    BY <1>1, <1>2
  <2> QED  BY <2>1 DEF DepthBefore
<1>4. ASSUME NEW i \in 1 .. m
      PROVE  w[i].price = l[i].price /\ Taken(w, q, i) = Taken(l, q, i)
  <2>1. i \in 1 .. m + 1
    BY <1>1
  <2>2. w[i] = l[i] /\ DepthBefore(w, i) = DepthBefore(l, i)
    BY <1>2, <1>3, <2>1
  <2> QED  BY <2>2 DEF Taken
<1>5. ASSUME NEW i \in m + 1 .. n
      PROVE  Taken(l, q, i) = 0
  <2>1. i \in 1 .. n /\ q <= DepthBefore(l, i)
    BY <1>1
  <2> HIDE DEF n
  <2> QED  BY <1>1, <2>1, TakenIs
<1>6. SameWalk(w, l, q)
  BY <1>1, <1>2, <1>4, <1>5 DEF SameWalk
<1>7. ASSUME q <= DepthOf(l)
      PROVE  q <= DepthOf(w)
  <2>1. DepthOf(w) = DepthBefore(w, m + 1) /\ DepthOf(l) = DepthBefore(l, n + 1)
    BY <1>2, DepthFacts
  <2>2. m + 1 \in 1 .. m + 1
    BY <1>1
  <2>3. DepthBefore(w, m + 1) = DepthBefore(l, m + 1)
    BY <1>3, <2>2
  <2>4. CASE m = n
    BY <1>7, <2>1, <2>3, <2>4
  <2>5. CASE m # n
    <3>1. m + 1 \in m + 1 .. n
      <4> HIDE DEF n
      <4>1. m \in Int /\ n \in Int /\ m < n
        BY <1>1, <2>5
      <4> QED  BY <4>1
    <3> QED  BY <2>1, <2>3, <3>1
  <2> QED  BY <2>4, <2>5
<1> QED  BY <1>6, <1>7

LEMMA LeastOf ==
    ASSUME NEW S, S \subseteq Nat, S # {}
    PROVE  Min(S) \in S /\ \A x \in S : Min(S) <= x
<1>1. \E x \in S : \A y \in S : x <= y
  BY LeastNatural
<1> QED  BY <1>1 DEF Min

(* The best of finitely many offers: none nets more, and none as much for  *)
(* less.                                                                   *)
LEMMA BestOf ==
    ASSUME NEW S, IsFiniteSet(S), S # {}, S \subseteq Nat, NEW f, \A x \in S : f[x] \in Int
    PROVE  \E x \in S : \A y \in S : f[y] < f[x] \/ (f[y] = f[x] /\ x <= y)
<1> DEFINE IsBest(x, s) == \A y \in s : f[y] < f[x] \/ (f[y] = f[x] /\ x <= y)
           Good == {s \in SUBSET S : s = {} \/ \E x \in s : IsBest(x, s)}
<1>1. {} \in Good
  OBVIOUS
<1>2. ASSUME NEW s \in SUBSET S, s # {}, \A x \in s : s \ {x} \in Good
      PROVE  s \in Good
  <2>1. PICK x \in s : TRUE
    BY <1>2
  <2>2. \A y \in s : y \in Nat /\ f[y] \in Int
    OBVIOUS
  <2>3. CASE s \ {x} = {}
    <3>1. \A y \in s : y = x
      BY <2>3
    <3> QED  BY <2>1, <2>2, <3>1
  <2>4. CASE s \ {x} # {}
    <3>1. PICK b \in s \ {x} : IsBest(b, s \ {x})
      BY <1>2, <2>1, <2>4
    <3>2. CASE f[b] < f[x] \/ (f[b] = f[x] /\ x <= b)
      <4>1. IsBest(x, s)
        BY <2>1, <2>2, <3>1, <3>2
      <4> QED  BY <2>1, <4>1
    <3>3. CASE ~(f[b] < f[x] \/ (f[b] = f[x] /\ x <= b))
      <4>1. IsBest(b, s)
        BY <2>1, <2>2, <3>1, <3>3
      <4> QED  BY <3>1, <4>1
    <3> QED  BY <3>2, <3>3
  <2> QED  BY <2>3, <2>4
<1> HIDE DEF Good
<1>3. S \in Good
  BY <1>1, <1>2, FiniteInduction
<1> QED  BY <1>3 DEF Good

-----------------------------------------------------------------------------
(* Legs that can be costed: each has an offer.                             *)
AsksOf(legs, bs, k) == Asks(bs[legs[k].contract], legs[k].side)

Costable(legs, bs, table) ==
    /\ \E n \in Nat \ {0} : DOMAIN legs = 1 .. n
    /\ \A k \in DOMAIN legs : /\ AsksOf(legs, bs, k) \in Seq(Level)
                              /\ AsksOf(legs, bs, k) # <<>>
                              /\ Category(table, legs[k].contract) \in FeeCategory

LegFee(legs, bs, table, ls, q, k) ==
    FeePerLevel(bs[legs[k].contract].venue, table, legs[k].contract, ls[k], q)

LEMMA LaddersAre ==
    ASSUME NEW legs, NEW bs, NEW table, Costable(legs, bs, table)
    PROVE  LET L == Ladders(legs, bs)
           IN  /\ DOMAIN L = DOMAIN legs /\ IsFiniteSet(DOMAIN legs) /\ DOMAIN legs # {}
               /\ \A k \in DOMAIN legs :
                    /\ L[k] = Walk(AsksOf(legs, bs, k), MaxPosition)
                    /\ L[k] \in Seq(Level) /\ Len(L[k]) >= 1
                    /\ DepthOf(L[k]) \in Nat \ {0}
                    /\ DepthOf(L[k]) = Clipped(MaxPosition, DepthOf(AsksOf(legs, bs, k)))
                    /\ \A q \in Int : q <= MaxPosition => SameWalk(L[k], AsksOf(legs, bs, k), q)
<1> DEFINE L == Ladders(legs, bs)
<1>1. MaxPosition \in Nat \ {0}
  BY SolverAssumption
<1>2. PICK n \in Nat \ {0} : DOMAIN legs = 1 .. n
  BY DEF Costable
<1>3. DOMAIN L = DOMAIN legs /\ IsFiniteSet(DOMAIN legs) /\ DOMAIN legs # {}
  BY <1>2, IndexSet DEF Ladders
<1>4. ASSUME NEW k \in DOMAIN legs
      PROVE  /\ L[k] = Walk(AsksOf(legs, bs, k), MaxPosition)
             /\ L[k] \in Seq(Level) /\ Len(L[k]) >= 1
             /\ DepthOf(L[k]) \in Nat \ {0}
             /\ DepthOf(L[k]) = Clipped(MaxPosition, DepthOf(AsksOf(legs, bs, k)))
             /\ \A q \in Int : q <= MaxPosition => SameWalk(L[k], AsksOf(legs, bs, k), q)
  <2> DEFINE a == AsksOf(legs, bs, k)
             w == Walk(a, MaxPosition)
  <2>1. L[k] = w
    BY DEF Ladders, AsksOf
  <2>2. a \in Seq(Level) /\ a # <<>>
    BY DEF Costable
  <2> HIDE DEF a
  <2>3. /\ w \in Seq(Level) /\ DepthOf(w) = Clipped(MaxPosition, DepthOf(a))
        /\ \A q \in Int : q <= MaxPosition => SameWalk(w, a, q)
    BY <1>1, <2>2, WalkIs
  <2>4. Len(a) >= 1 /\ 1 \in 1 .. Len(a) /\ 1 + 1 \in 1 .. Len(a) + 1
        /\ Len(a) + 1 \in 1 .. Len(a) + 1 /\ 1 + 1 <= Len(a) + 1
    BY <2>2
  <2>5. DepthOf(a) \in Nat \ {0}
    <3>1. /\ DepthBefore(a, 1 + 1) = DepthBefore(a, 1) + a[1].size /\ DepthBefore(a, 1) = 0
          /\ DepthOf(a) = DepthBefore(a, Len(a) + 1)
          /\ DepthBefore(a, 1 + 1) <= DepthBefore(a, Len(a) + 1)
          /\ DepthOf(a) \in Nat
      BY <2>2, <2>4, DepthFacts
    <3>2. a[1].size \in Nat \ {0}
      BY <2>2, <2>4, LevelsOf
    <3> QED  BY <3>1, <3>2
  <2>6. DepthOf(w) \in Nat \ {0}
    BY <1>1, <2>3, <2>5 DEF Clipped
  <2>7. Len(w) >= 1
    <3>1. Len(w) \in Nat
      BY <2>3
    <3>2. CASE Len(w) = 0
      <4>0. Len(w) + 1 = 1
        BY <3>2
      <4>1. DepthOf(w) = DepthBefore(w, Len(w) + 1) /\ DepthBefore(w, 1) = 0
        <5>1. w \in Seq(Level)
          BY <2>3
        <5> HIDE DEF w
        <5> QED  BY <5>1, DepthFacts
      <4> QED  BY <2>6, <4>0, <4>1
    <3> QED  BY <3>1, <3>2
  <2> QED  BY <2>1, <2>3, <2>6, <2>7 DEF a
<1> QED  BY <1>3, <1>4

LEMMA CapIs ==
    ASSUME NEW legs, NEW bs, NEW table, Costable(legs, bs, table)
    PROVE  LET L == Ladders(legs, bs)
           IN  /\ Cap(L) \in Nat \ {0} /\ Cap(L) <= MaxPosition
               /\ \A k \in DOMAIN legs : Cap(L) <= DepthOf(L[k])
<1> DEFINE L == Ladders(legs, bs)
           S == {DepthOf(L[k]) : k \in DOMAIN L} \cup {MaxPosition}
<1>1. MaxPosition \in Nat \ {0}
  BY SolverAssumption
<1>2. DOMAIN L = DOMAIN legs /\ \A k \in DOMAIN legs : DepthOf(L[k]) \in Nat \ {0}
  BY LaddersAre
<1>3. /\ MaxPosition \in S /\ \A k \in DOMAIN legs : DepthOf(L[k]) \in S
      /\ \A x \in S : x \in Nat \ {0}
  BY <1>1, <1>2
<1>4. Cap(L) = Min(S)
  BY DEF Cap
<1> HIDE DEF S, L
<1>5. Min(S) \in S /\ \A x \in S : Min(S) <= x
  <2>1. S \subseteq Nat /\ S # {}
    BY <1>3
  <2> QED  BY <2>1, LeastOf
<1>6. Cap(L) \in Nat \ {0} /\ Cap(L) <= MaxPosition /\ \A k \in DOMAIN legs : Cap(L) <= DepthOf(L[k])
  BY <1>3, <1>4, <1>5
<1> QED  BY <1>6 DEF L

LEMMA BreakpointsAre ==
    ASSUME NEW legs, NEW bs, NEW table, Costable(legs, bs, table)
    PROVE  LET L == Ladders(legs, bs)
               B == Breakpoints(L, Cap(L))
           IN  /\ IsFiniteSet(B) /\ B # {} /\ B \subseteq Nat
               /\ \A q \in B : q >= 1 /\ q <= Cap(L)
               /\ \A k \in DOMAIN legs : L[k][1].size \in B \/ L[k][1].size >= Cap(L)
               /\ Cap(L) \in B
<1> DEFINE L == Ladders(legs, bs)
           c == Cap(L)
           U == UNION {{DepthBefore(L[k], i + 1) : i \in DOMAIN L[k]} : k \in DOMAIN L}
           B == Breakpoints(L, c)
<1>1. c \in Nat \ {0}
  BY CapIs
<1>2. DOMAIN L = DOMAIN legs /\ \A k \in DOMAIN legs : L[k] \in Seq(Level) /\ Len(L[k]) >= 1
  BY LaddersAre
<1>3. B = {c} \cup {q \in U : q < c}
  BY DEF Breakpoints
<1>4. ASSUME NEW k \in DOMAIN legs, NEW i \in DOMAIN L[k]
      PROVE  DepthBefore(L[k], i + 1) \in Nat /\ DepthBefore(L[k], i + 1) >= 1
  <2> DEFINE l == L[k]
  <2>1. l \in Seq(Level) /\ i \in DOMAIN l
    BY <1>2
  <2> HIDE DEF l
  <2>2. i \in 1 .. Len(l) /\ i \in 1 .. Len(l) + 1
    BY <2>1
  <2>3. DepthBefore(l, i + 1) = DepthBefore(l, i) + l[i].size /\ DepthBefore(l, i) \in Nat
    BY <2>1, <2>2, DepthFacts
  <2>4. l[i].size \in Nat \ {0}
    BY <2>1, <2>2, LevelsOf
  <2>5. DepthBefore(l, i + 1) \in Nat /\ DepthBefore(l, i + 1) >= 1
    BY <2>3, <2>4
  <2> QED  BY <2>5 DEF l
<1>5. \A q \in U : q \in Nat /\ q >= 1
  BY <1>2, <1>4
<1>6. \A q \in B : q \in Nat /\ q >= 1 /\ q <= c
  <2> HIDE DEF U, B, c
  <2> QED  BY <1>1, <1>3, <1>5
<1>7. c \in B
  BY <1>3
<1>8. IsFiniteSet(B)
  <2>1. IsFiniteSet(1 .. c) /\ B \subseteq 1 .. c
    <3> HIDE DEF B, c
    <3> QED  BY <1>1, <1>6, IndexSet
  <2> QED  BY <2>1, FS_Subset
<1>9. ASSUME NEW k \in DOMAIN legs
      PROVE  L[k][1].size \in B \/ L[k][1].size >= c
  <2> DEFINE l == L[k]
  <2>1. l \in Seq(Level) /\ Len(l) >= 1 /\ 1 \in 1 .. Len(l) /\ 1 \in DOMAIN l
    BY <1>2
  <2>2. DepthBefore(l, 1 + 1) \in U
    BY <1>2, <2>1
  <2>3. DepthBefore(l, 1 + 1) = l[1].size /\ l[1].size \in Nat
    <3> HIDE DEF l
    <3>1. DepthBefore(l, 1 + 1) = DepthBefore(l, 1) + l[1].size /\ DepthBefore(l, 1) = 0
      BY <2>1, DepthFacts
    <3>2. l[1].size \in Nat
      BY <2>1, LevelsOf
    <3> QED  BY <3>1, <3>2
  <2> HIDE DEF U, B, c
  <2>4. l[1].size < c => l[1].size \in B
    BY <1>3, <2>2, <2>3
  <2> QED  BY <1>1, <2>3, <2>4
<1> HIDE DEF B, c, L
<1>10. B # {} /\ B \subseteq Nat
  BY <1>6, <1>7
<1>11. \A q \in B : q >= 1 /\ q <= c
  BY <1>6
<1> QED  BY <1>7, <1>8, <1>9, <1>10, <1>11 DEF B, c, L

CostsAt(legs, bs, q) == SumFunction(LegCosts(Ladders(legs, bs), q))
FeesAt(legs, bs, table, q) == SumFunction(LegFees(legs, bs, table, Ladders(legs, bs), q))
PayoffOf(g, legs) == MinPayoff(g.kind, g.members, legs)
GrossAt(g, legs, bs, q) == PayoffOf(g, legs) * q - CostsAt(legs, bs, q)
NetAt(g, legs, bs, table, q) == PayoffOf(g, legs) * q - CostsAt(legs, bs, q) - FeesAt(legs, bs, table, q)
Tried(legs, bs) == Breakpoints(Ladders(legs, bs), Cap(Ladders(legs, bs)))

LEMMA CostsAre ==
    ASSUME NEW legs, NEW bs, NEW table, Costable(legs, bs, table), NEW q \in Int
    PROVE  /\ CostsAt(legs, bs, q) \in Nat /\ FeesAt(legs, bs, table, q) \in Nat
           /\ \A k \in DOMAIN legs :
                 LegCosts(Ladders(legs, bs), q)[k] = TotalCost(Ladders(legs, bs)[k], q)
           /\ \A k \in DOMAIN legs :
                 LegFees(legs, bs, table, Ladders(legs, bs), q)[k]
                    = LegFee(legs, bs, table, Ladders(legs, bs), q, k)
           /\ CostsAt(legs, bs, q) = SumFunctionOnSet(LegCosts(Ladders(legs, bs), q), DOMAIN legs)
           /\ FeesAt(legs, bs, table, q)
                = SumFunctionOnSet(LegFees(legs, bs, table, Ladders(legs, bs), q), DOMAIN legs)
           /\ \A k \in DOMAIN legs : TotalCost(Ladders(legs, bs)[k], q) \in Nat
           /\ \A k \in DOMAIN legs : LegFee(legs, bs, table, Ladders(legs, bs), q, k) \in Nat
<1> DEFINE L == Ladders(legs, bs)
           f == LegCosts(L, q)
           g == LegFees(legs, bs, table, L, q)
<1>1. DOMAIN L = DOMAIN legs /\ IsFiniteSet(DOMAIN legs) /\ \A k \in DOMAIN legs : L[k] \in Seq(Level)
  BY LaddersAre
<1>2. ASSUME NEW k \in DOMAIN legs
      PROVE  TotalCost(L[k], q) \in Nat /\ LegFee(legs, bs, table, L, q, k) \in Nat
  <2>1. L[k] \in Seq(Level) /\ Category(table, legs[k].contract) \in FeeCategory
    BY <1>1 DEF Costable
  <2> DEFINE l == L[k]
  <2>2. TotalCost(l, q) \in Nat /\ FeePerLevel(bs[legs[k].contract].venue, table, legs[k].contract, l, q) \in Nat
    <3> HIDE DEF L
    <3> QED  BY <2>1, CostTerms, FeeTerms
  <2> QED  BY <2>2 DEF LegFee
<1>3. /\ DOMAIN f = DOMAIN legs /\ DOMAIN g = DOMAIN legs
      /\ \A k \in DOMAIN legs : f[k] = TotalCost(L[k], q) /\ g[k] = LegFee(legs, bs, table, L, q, k)
  <2> HIDE DEF L
  <2> QED  BY <1>1 DEF LegCosts, LegFees, LegFee
<1>4. /\ CostsAt(legs, bs, q) = SumFunctionOnSet(f, DOMAIN legs)
      /\ FeesAt(legs, bs, table, q) = SumFunctionOnSet(g, DOMAIN legs)
  BY <1>3 DEF CostsAt, FeesAt, SumFunction
<1>5. SumFunctionOnSet(f, DOMAIN legs) \in Nat /\ SumFunctionOnSet(g, DOMAIN legs) \in Nat
  <2>1. \A k \in DOMAIN legs : f[k] \in Nat /\ g[k] \in Nat
    BY <1>2, <1>3
  <2> HIDE DEF f, g
  <2> QED  BY <1>1, <2>1, SumNat
<1> QED  BY <1>2, <1>3, <1>4, <1>5

LEMMA FeesGrow ==
    ASSUME NEW legs, NEW bs, NEW table, Costable(legs, bs, table),
           NEW q \in Int, NEW less \in Int, less <= q
    PROVE  FeesAt(legs, bs, table, less) <= FeesAt(legs, bs, table, q)
<1> DEFINE L == Ladders(legs, bs)
           f == LegFees(legs, bs, table, L, less)
           g == LegFees(legs, bs, table, L, q)
<1>1. IsFiniteSet(DOMAIN legs) /\ \A k \in DOMAIN legs : L[k] \in Seq(Level)
  BY LaddersAre
<1>2. ASSUME NEW k \in DOMAIN legs
      PROVE  LegFee(legs, bs, table, L, less, k) <= LegFee(legs, bs, table, L, q, k)
  <2>1. L[k] \in Seq(Level) /\ Category(table, legs[k].contract) \in FeeCategory
    BY <1>1 DEF Costable
  <2> HIDE DEF L
  <2> QED  BY <2>1, FeePerLevelGrows DEF LegFee
<1>3. /\ FeesAt(legs, bs, table, less) = SumFunctionOnSet(f, DOMAIN legs)
      /\ \A k \in DOMAIN legs : f[k] = LegFee(legs, bs, table, L, less, k)
      /\ \A k \in DOMAIN legs : LegFee(legs, bs, table, L, less, k) \in Nat
  BY CostsAre
<1>4. /\ FeesAt(legs, bs, table, q) = SumFunctionOnSet(g, DOMAIN legs)
      /\ \A k \in DOMAIN legs : g[k] = LegFee(legs, bs, table, L, q, k)
      /\ \A k \in DOMAIN legs : LegFee(legs, bs, table, L, q, k) \in Nat
  BY CostsAre
<1>5. \A k \in DOMAIN legs : f[k] \in Int /\ g[k] \in Int /\ f[k] <= g[k]
  BY <1>2, <1>3, <1>4
<1> HIDE DEF f, g
<1>6. SumFunctionOnSet(f, DOMAIN legs) <= SumFunctionOnSet(g, DOMAIN legs)
  BY <1>1, <1>5, SumLeq
<1> QED  BY <1>3, <1>4, <1>6

(* What costing makes of a candidate that is sure to pay: the best of the  *)
(* quantities tried.                                                       *)
BestTried(g, legs, bs, table, q) ==
    /\ q \in Tried(legs, bs)
    /\ \A p \in Tried(legs, bs) :
          \/ NetAt(g, legs, bs, table, p) < NetAt(g, legs, bs, table, q)
          \/ NetAt(g, legs, bs, table, p) = NetAt(g, legs, bs, table, q) /\ q <= p

CostedAt(o, g, legs, bs, table, now, q) ==
    /\ o.qty = q /\ o.net = NetAt(g, legs, bs, table, q)
    /\ o.gross = GrossAt(g, legs, bs, q)
    /\ o.capital = CostsAt(legs, bs, q) + FeesAt(legs, bs, table, q)
    /\ o.hours = Max({1, g.resolves - now})
    /\ o.legs = [k \in DOMAIN legs |->
                   [contract |-> legs[k].contract, side |-> legs[k].side,
                    cost |-> LegCosts(Ladders(legs, bs), q)[k],
                    fee  |-> LegFees(legs, bs, table, Ladders(legs, bs), q)[k]]]
    /\ o.reason = "FeesExceedGap" => o.net <= 0
    /\ o.reason = "none" => o.net > 0 /\ o.net >= MinEdge

LEMMA CostedIs ==
    ASSUME NEW g, NEW legs, NEW bs, NEW table, NEW now, Costable(legs, bs, table),
           PayoffOf(g, legs) \in Int
    PROVE  LET o == CostCandidate(g, legs, bs, table, now)
           IN  /\ o.reason = "PayoffNotGuaranteed" <=> PayoffOf(g, legs) <= 0
               /\ PayoffOf(g, legs) > 0 =>
                    \E q \in Nat : BestTried(g, legs, bs, table, q)
                                  /\ CostedAt(o, g, legs, bs, table, now, q)
<1> DEFINE o == CostCandidate(g, legs, bs, table, now)
           L == Ladders(legs, bs)
           payoff == PayoffOf(g, legs)
           c == Cap(L)
           B == Tried(legs, bs)
           net(q) == NetAt(g, legs, bs, table, q)
           offers == {[qty |-> q, net |-> net(q)] : q \in B}
           best == Best(offers)
           hours == Max({1, g.resolves - now})
           capital == CostsAt(legs, bs, best.qty) + FeesAt(legs, bs, table, best.qty)
           reason ==
            IF payoff <= 0 THEN "PayoffNotGuaranteed"
            ELSE IF c <= 0 THEN "NoDepth"
            ELSE IF best.net <= 0 THEN "FeesExceedGap"
            ELSE IF best.net < MinEdge THEN "BelowMinEdge"
            ELSE IF best.net * 8760 * ReturnDenom < ReturnNumer * capital * hours
                 THEN "BelowMinReturn"
            ELSE "none"
           full == [reason  |-> reason,
              gross   |-> payoff * best.qty - CostsAt(legs, bs, best.qty),
              net     |-> best.net,
              qty     |-> best.qty,
              capital |-> capital,
              hours   |-> hours,
              legs    |-> [k \in DOMAIN legs |->
                              [contract |-> legs[k].contract, side |-> legs[k].side,
                               cost |-> LegCosts(L, best.qty)[k],
                               fee |-> LegFees(legs, bs, table, L, best.qty)[k]]]]
<1>1. /\ payoff <= 0 => o = [reason |-> reason, gross |-> 0]
      /\ ~(payoff <= 0) /\ ~(c <= 0) => o = full
  <2>1. BestTrade(legs, bs, table, L, c, payoff) = best
    BY DEF BestTrade, NetAt, CostsAt, FeesAt, Tried
  <2>2. o = IF payoff <= 0 THEN [reason |-> "PayoffNotGuaranteed", gross |-> 0]
            ELSE IF c <= 0 THEN [reason |-> "NoDepth", gross |-> 0]
            ELSE Costed(legs, payoff, best, LegCosts(L, best.qty),
                        LegFees(legs, bs, table, L, best.qty), hours)
    <3>1. BestTrade(legs, bs, table, Ladders(legs, bs), Cap(Ladders(legs, bs)),
                    MinPayoff(g.kind, g.members, legs)) = best
      BY <2>1 DEF PayoffOf
    <3> HIDE DEF best
    <3> QED  BY <3>1 DEF CostCandidate, PayoffOf
  <2>3. ~(payoff <= 0) /\ ~(c <= 0) =>
          Costed(legs, payoff, best, LegCosts(L, best.qty),
                 LegFees(legs, bs, table, L, best.qty), hours) = full
    <3> HIDE DEF best, payoff, c, hours, L
    <3> QED  BY DEF Costed, CostsAt, FeesAt, L
  <2> HIDE DEF best, full, c, payoff, hours
  <2> QED  BY <2>2, <2>3
<1>2. c \in Nat \ {0}
  BY CapIs
<1>3. IsFiniteSet(B) /\ B # {} /\ B \subseteq Nat
  BY BreakpointsAre DEF Tried
<1>4. \A q \in B : net(q) \in Int
  <2> SUFFICES ASSUME NEW q \in B PROVE net(q) \in Int
    OBVIOUS
  <2>1. q \in Int
    BY <1>3
  <2>2. CostsAt(legs, bs, q) \in Nat /\ FeesAt(legs, bs, table, q) \in Nat
    BY <2>1, CostsAre
  <2> QED  BY <2>1, <2>2 DEF NetAt
<1>5. PICK b \in B : \A p \in B : net(p) < net(b) \/ (net(p) = net(b) /\ b <= p)
  <2> DEFINE f == [q \in B |-> net(q)]
  <2>1. \A q \in B : f[q] \in Int
    BY <1>4
  <2> HIDE DEF f
  <2>2. \E x \in B : \A y \in B : f[y] < f[x] \/ (f[y] = f[x] /\ x <= y)
    <3> HIDE DEF B
    <3> QED  BY <1>3, <2>1, BestOf
  <2> QED  BY <2>2 DEF f
<1> HIDE DEF B, net
<1>6. best \in offers /\ \A p \in offers : p.net < best.net \/ (p.net = best.net /\ best.qty <= p.qty)
  <2> DEFINE x == [qty |-> b, net |-> net(b)]
  <2>1. x \in offers /\ \A p \in offers : p.net < x.net \/ (p.net = x.net /\ x.qty <= p.qty)
    BY <1>5
  <2>2. \E y \in offers : \A p \in offers : p.net < y.net \/ (p.net = y.net /\ y.qty <= p.qty)
    BY <2>1
  <2> HIDE DEF x, offers
  <2> QED  BY <2>2 DEF Best
<1>7. PICK q \in B : best = [qty |-> q, net |-> net(q)]
  BY <1>6
<1>8. \A p \in B : net(p) < net(q) \/ (net(p) = net(q) /\ q <= p)
  <2> SUFFICES ASSUME NEW p \in B PROVE net(p) < net(q) \/ (net(p) = net(q) /\ q <= p)
    OBVIOUS
  <2>1. [qty |-> p, net |-> net(p)] \in offers
    OBVIOUS
  <2> HIDE DEF offers, best
  <2> QED  BY <1>6, <1>7, <2>1
<1>9. best.qty = q /\ best.net = net(q)
  BY <1>7
<1> HIDE DEF best, offers
<1>10. reason = "PayoffNotGuaranteed" => payoff <= 0
  BY <1>2
<1>11. payoff <= 0 => reason = "PayoffNotGuaranteed"
  OBVIOUS
<1>12. payoff > 0 => (reason = "FeesExceedGap" => net(q) <= 0)
  BY <1>2, <1>9
<1>13. payoff > 0 => (reason = "none" => net(q) > 0 /\ net(q) >= MinEdge)
  BY <1>2, <1>4, <1>9, SolverAssumption
<1> HIDE DEF reason, capital, hours
<1>14. o.reason = reason
  <2>1. full.reason = reason /\ [reason |-> reason, gross |-> 0].reason = reason
    OBVIOUS
  <2>2. ~(c <= 0)
    BY <1>2
  <2> HIDE DEF o, full, c
  <2>3. o = [reason |-> reason, gross |-> 0] \/ o = full
    BY <1>1, <2>2
  <2> QED  BY <2>1, <2>3
<1>15. CASE payoff <= 0
  <2>1. ~(payoff > 0)
    BY <1>15
  <2> QED  BY <1>11, <1>14, <1>15, <2>1
<1>16. CASE payoff > 0
  <2>1. o = full
    BY <1>1, <1>2, <1>16
  <2> HIDE DEF o
  <2>2. /\ o.qty = q /\ o.net = net(q) /\ o.gross = payoff * q - CostsAt(legs, bs, q)
        /\ o.capital = CostsAt(legs, bs, q) + FeesAt(legs, bs, table, q)
        /\ o.hours = hours
        /\ o.legs = [k \in DOMAIN legs |->
                              [contract |-> legs[k].contract, side |-> legs[k].side,
                               cost |-> LegCosts(L, q)[k],
                               fee |-> LegFees(legs, bs, table, L, q)[k]]]
    BY <1>9, <2>1 DEF capital
  <2>3. q \in B /\ o.reason = reason
    BY <1>14 DEF o
  <2>4. ~(payoff <= 0)
    BY <1>16
  <2>5. BestTried(g, legs, bs, table, q)
    BY <1>8, <2>3 DEF BestTried, B, net
  <2>6. o.reason = "FeesExceedGap" => net(q) <= 0
    BY <1>12, <1>16, <2>3
  <2>7. o.reason = "none" => net(q) > 0 /\ net(q) >= MinEdge
    BY <1>13, <1>16, <2>3
  <2>8. CostedAt(o, g, legs, bs, table, now, q)
    BY <2>2, <2>6, <2>7 DEF CostedAt, net, hours, GrossAt
  <2>9. q \in Nat
    BY <1>3
  <2> QED  BY <1>10, <1>14, <2>4, <2>5, <2>8, <2>9 DEF o
<1>17. payoff <= 0 \/ payoff > 0
  <2>1. payoff \in Int
    OBVIOUS
  <2> HIDE DEF payoff
  <2> QED  BY <2>1
<1> QED  BY <1>15, <1>16, <1>17

(* Within its first level, a walk costs that level's price for each.       *)
LEMMA FirstLevelCost ==
    ASSUME NEW l \in Seq(Level), Len(l) >= 1, NEW q \in Nat, q >= 1, q <= l[1].size
    PROVE  TotalCost(l, q) = l[1].price * q
<1> DEFINE n == Len(l)
           g == [i \in 1 .. n |-> l[i].price * Taken(l, q, i)]
           f == [i \in 1 .. 1 |-> l[1].price * q]
<1>1. /\ n \in Nat /\ DOMAIN l = 1 .. n /\ 1 \in 1 .. n /\ 1 \in 0 .. n
      /\ \A i \in 1 .. n : l[i].size \in Nat /\ l[i].price \in Nat
  BY LevelsOf
<1>2. /\ \A i \in 1 .. n + 1 : DepthBefore(l, i) \in Nat
      /\ DepthBefore(l, 1 + 1) = DepthBefore(l, 1) + l[1].size
      /\ \A i, j \in 1 .. n + 1 : i <= j => DepthBefore(l, i) <= DepthBefore(l, j)
      /\ DepthBefore(l, 1) = 0
  BY <1>1, DepthFacts
<1>3. TotalCost(l, q) = SumFunction(g)
  BY <1>1 DEF TotalCost
<1> HIDE DEF n
<1>4. ASSUME NEW i \in 1 .. n
      PROVE  Taken(l, q, i) = IF q <= DepthBefore(l, i) THEN 0
                              ELSE IF q <= DepthBefore(l, i + 1) THEN q - DepthBefore(l, i)
                              ELSE l[i].size
  BY <1>1, TakenIs
<1>5. Taken(l, q, 1) = q
  <2>1. l[1].size \in Nat
    BY <1>1
  <2> QED  BY <1>1, <1>2, <1>4, <2>1
<1>6. ASSUME NEW i \in 1 + 1 .. n
      PROVE  g[i] = 0
  <2>1. i \in 1 .. n /\ i \in 1 .. n + 1 /\ 1 + 1 \in 1 .. n + 1 /\ 1 + 1 <= i
    BY <1>1
  <2>2. DepthBefore(l, 1 + 1) <= DepthBefore(l, i) /\ DepthBefore(l, i) \in Nat
        /\ DepthBefore(l, 1 + 1) = l[1].size /\ l[1].size \in Nat
    BY <1>1, <1>2, <2>1
  <2>3. Taken(l, q, i) = 0
    BY <1>4, <2>1, <2>2
  <2>4. l[i].price \in Nat
    BY <1>1, <2>1
  <2> QED  BY <2>1, <2>3, <2>4
<1>7. ASSUME NEW i \in 1 .. 1
      PROVE  f[i] = g[i] /\ g[i] \in Int
  <2>1. i = 1 /\ l[1].price \in Nat
    BY <1>1
  <2> QED  BY <1>1, <1>5, <2>1
<1>8. DOMAIN f = 1 .. 1 /\ DOMAIN g = 1 .. n /\ f[1] = l[1].price * q /\ f[1] \in Int
  BY <1>1
<1> HIDE DEF f, g
<1>9. SumFunction(f) = SumFunction(g)
  <2>1. \A i \in 1 .. 1 : f[i] = g[i] /\ g[i] \in Int
    BY <1>7
  <2>2. \A i \in 1 + 1 .. n : g[i] = 0
    BY <1>6
  <2> DEFINE m == 1
  <2>3. n \in Nat /\ m \in 0 .. n /\ DOMAIN f = 1 .. m /\ DOMAIN g = 1 .. n
    BY <1>1, <1>8
  <2>4. (\A i \in 1 .. m : f[i] = g[i] /\ g[i] \in Int) /\ \A i \in m + 1 .. n : g[i] = 0
    BY <2>1, <2>2
  <2> HIDE DEF m
  <2> QED  BY <2>3, <2>4, SumOfPart
<1>10. SumFunction(f) = f[1]
  <2>1. 1 .. 1 = {} \cup {1} /\ 1 \notin {} /\ IsFiniteSet({})
    BY FS_EmptySet
  <2>2. \A x \in {} \cup {1} : f[x] \in Int
    BY <1>8
  <2>3. SumFunctionOnSet(f, {} \cup {1}) = SumFunctionOnSet(f, {}) + f[1]
    BY <2>1, <2>2, SumAdd
  <2>4. SumFunctionOnSet(f, {}) = 0
    BY SumEmpty
  <2> QED  BY <1>8, <2>1, <2>3, <2>4 DEF SumFunction
<1> QED  BY <1>3, <1>8, <1>9, <1>10

(* Underpriced at the best prices, the smallest size tried has a gap.      *)
LEMMA FirstGross ==
    ASSUME NEW g, NEW legs, NEW bs, NEW table, Costable(legs, bs, table),
           PayoffOf(g, legs) \in Int, PayoffOf(g, legs) >= 100, TopCost(bs, legs) < Dollar,
           NEW q \in Tried(legs, bs), \A p \in Tried(legs, bs) : q <= p
    PROVE  GrossAt(g, legs, bs, q) > 0
<1> DEFINE L == Ladders(legs, bs)
           top == [k \in DOMAIN legs |-> AsksOf(legs, bs, k)[1].price]
           f == LegCosts(L, q)
<1>1. q \in Nat /\ q >= 1 /\ q <= Cap(L)
      /\ \A k \in DOMAIN legs : L[k][1].size \in Tried(legs, bs) \/ L[k][1].size >= Cap(L)
  BY BreakpointsAre DEF Tried
<1>2. DOMAIN L = DOMAIN legs /\ IsFiniteSet(DOMAIN legs)
      /\ \A k \in DOMAIN legs :
            /\ L[k] \in Seq(Level) /\ Len(L[k]) >= 1
            /\ \A p \in Int : p <= MaxPosition => SameWalk(L[k], AsksOf(legs, bs, k), p)
  BY LaddersAre
<1>3. Cap(L) \in Nat /\ Cap(L) <= MaxPosition /\ MaxPosition \in Nat
  BY CapIs, SolverAssumption
<1> HIDE DEF L
<1>4. ASSUME NEW k \in DOMAIN legs
      PROVE  TotalCost(L[k], q) = q * top[k] /\ top[k] \in Int
  <2>1. L[k] \in Seq(Level) /\ Len(L[k]) >= 1 /\ 1 \in 1 .. Len(L[k])
    BY <1>2
  <2>2. L[k][1].size \in Nat /\ L[k][1].price \in Nat
    BY <2>1, LevelsOf
  <2>3. q <= L[k][1].size
    BY <1>1, <1>3, <2>2
  <2>4. TotalCost(L[k], q) = L[k][1].price * q
    BY <1>1, <2>1, <2>3, FirstLevelCost
  <2>5. q \in Int /\ q <= MaxPosition
    BY <1>1, <1>3
  <2>6. L[k][1].price = AsksOf(legs, bs, k)[1].price
    BY <1>2, <2>1, <2>5 DEF SameWalk
  <2> QED  BY <1>1, <2>2, <2>4, <2>6
<1>5. CostsAt(legs, bs, q) = SumFunctionOnSet(f, DOMAIN legs)
      /\ \A k \in DOMAIN legs : f[k] = TotalCost(L[k], q)
  <2>1. q \in Int
    BY <1>1
  <2> QED  BY <2>1, CostsAre DEF L
<1>6. TopCost(bs, legs) = SumFunctionOnSet(top, DOMAIN legs)
  BY DEF TopCost, SumFunction, AsksOf
<1>7. q \in Int /\ (\A k \in DOMAIN legs : top[k] \in Int) /\ \A k \in DOMAIN legs : f[k] = q * top[k]
  BY <1>1, <1>4, <1>5
<1> HIDE DEF f, top
<1>8. SumFunctionOnSet(f, DOMAIN legs) = q * SumFunctionOnSet(top, DOMAIN legs)
  BY <1>2, <1>7, SumScale
<1>9. SumFunctionOnSet(top, DOMAIN legs) \in Int
  BY <1>2, <1>7, SumInt
<1> DEFINE t == SumFunctionOnSet(top, DOMAIN legs)
           y == PayoffOf(g, legs)
<1>10. /\ GrossAt(g, legs, bs, q) = y * q - q * t /\ t \in Int /\ y \in Int /\ y >= 100 /\ t < 100
  BY <1>5, <1>6, <1>8, <1>9 DEF GrossAt, Dollar
<1> HIDE DEF t, y
<1>11. PICK k \in Nat \ {0} : y = t + k
  <2>1. y - t \in Nat \ {0} /\ y = t + (y - t)
    BY <1>10
  <2> QED  BY <2>1
<1>12. y * q - q * t = k * q
  BY <1>1, <1>10, <1>11
<1>13. k * q > 0
  <2>1. k * q = (k - 1) * q + q /\ (k - 1) * q >= 0
    BY <1>1, <1>11
  <2> QED  BY <1>1, <1>11, <2>1
<1> QED  BY <1>10, <1>12, <1>13

(* What FeesAreTheGap says of one candidate.                               *)
LEMMA FeesAreWhy ==
    ASSUME NEW g, NEW legs, NEW bs, NEW table, NEW now, Costable(legs, bs, table),
           PayoffOf(g, legs) \in Int, PayoffOf(g, legs) >= 100, TopCost(bs, legs) < Dollar
    PROVE  LET o == CostCandidate(g, legs, bs, table, now)
           IN  o.reason = "FeesExceedGap" => o.gross > 0
<1> DEFINE o == CostCandidate(g, legs, bs, table, now)
           B == Tried(legs, bs)
           gross(q) == GrossAt(g, legs, bs, q)
           fees(q) == FeesAt(legs, bs, table, q)
           net(q) == NetAt(g, legs, bs, table, q)
<1>1. PayoffOf(g, legs) > 0
  <2> DEFINE y == PayoffOf(g, legs)
  <2>1. y \in Int /\ y >= 100
    OBVIOUS
  <2> HIDE DEF y
  <2>2. y > 0
    BY <2>1
  <2> QED  BY <2>2 DEF y
<1>0. PICK q \in Nat : BestTried(g, legs, bs, table, q)
                      /\ CostedAt(o, g, legs, bs, table, now, q)
  BY <1>1, CostedIs
<1>2. /\ q \in B /\ \A p \in B : net(p) < net(q) \/ (net(p) = net(q) /\ q <= p)
      /\ o.gross = gross(q) /\ o.net = net(q)
      /\ o.reason = "FeesExceedGap" => o.net <= 0
  BY <1>0 DEF BestTried, CostedAt
<1>3. B \subseteq Nat /\ B # {}
  BY BreakpointsAre DEF Tried
<1>4. PICK p \in B : \A x \in B : p <= x
  <2> HIDE DEF B
  <2> QED  BY <1>3, LeastNatural
<1>5. gross(p) > 0
  BY <1>4, FirstGross
<1>6. p \in Int /\ q \in Int /\ p <= q
  BY <1>2, <1>3, <1>4
<1>7. fees(p) <= fees(q)
  BY <1>6, FeesGrow
<1>8. /\ CostsAt(legs, bs, q) \in Nat /\ fees(q) \in Nat
      /\ CostsAt(legs, bs, p) \in Nat /\ fees(p) \in Nat
  BY <1>6, CostsAre
<1>9. /\ gross(q) \in Int /\ gross(p) \in Int
      /\ net(q) = gross(q) - fees(q) /\ net(p) = gross(p) - fees(p)
  BY <1>6, <1>8 DEF GrossAt, NetAt
<1>10. net(p) <= net(q)
  BY <1>2, <1>4, <1>8, <1>9
<1>11. gross(q) > 0
  <2> HIDE DEF gross, fees, net
  <2> QED  BY <1>5, <1>7, <1>8, <1>9, <1>10
<1> QED  BY <1>2, <1>11

LEMMA CandidatesByKind ==
    ASSUME NEW g, NEW bs
    PROVE  /\ g.kind = "complement" =>
                Candidates(g, bs) = IfUnderpriced(bs, Hedge(g.members[1], g.members[1]))
           /\ g.kind = "exhaustive" =>
                Candidates(g, bs)
                    = IfUnderpriced(bs, [i \in DOMAIN g.members |-> Buy(g.members[i], "yes")])
           /\ g.kind = "monotone" => Candidates(g, bs) = Inversions(bs, g.members)
           /\ g.kind = "implies" => Candidates(g, bs) = Inversions(bs, Reverse(g.members))
           /\ g.kind = "equivalent" =>
                Candidates(g, bs) = IfUnderpriced(bs, Hedge(g.members[1], g.members[2]))
                                    \o IfUnderpriced(bs, Hedge(g.members[2], g.members[1]))
BY DEF Candidates, ImplicationCheck

WinnerStates(m) == {Resolution(m, {i}) : i \in DOMAIN m}

LEMMA StatesByKind ==
    ASSUME NEW kind, NEW m
    PROVE  /\ kind = "complement" => ResolutionStates(kind, m) = {Resolution(m, {1}), {}}
           /\ kind = "exhaustive" => ResolutionStates(kind, m) = WinnerStates(m)
           /\ kind = "monotone" => ResolutionStates(kind, m) = LadderStates(m)
           /\ kind = "implies" =>
                ResolutionStates(kind, m) = {{}, Resolution(m, {2}), Resolution(m, {1, 2})}
           /\ kind = "equivalent" => ResolutionStates(kind, m) = {Resolution(m, {1, 2}), {}}
BY DEF ResolutionStates, WinnerStates

(* What the loaders make sure of: see GoodShape and GoodArity.             *)
WellShaped(g) ==
    /\ g.kind \in Kind /\ g.members \in Seq(Nat) /\ IsInjective(g.members)
    /\ g.kind = "complement" => Len(g.members) = 1
    /\ g.kind \in {"implies", "equivalent"} => Len(g.members) = 2
    /\ g.kind \in {"exhaustive", "monotone"} => Len(g.members) >= 2

SurePay(legs, states) == \A s \in states : \E k \in DOMAIN legs : Pays(legs[k], s)

(* A candidate of a group: legs on its members, each with an offer, which  *)
(* cost less than a dollar at the best prices, and of which one pays       *)
(* whatever the resolution.                                                *)
LegsOf(g, legs) ==
    /\ \E n \in Nat \ {0} : DOMAIN legs = 1 .. n
    /\ \A k \in DOMAIN legs : /\ \E i \in DOMAIN g.members : legs[k].contract = g.members[i]
                              /\ legs[k].side \in {"yes", "no"}
    /\ SurePay(legs, ResolutionStates(g.kind, g.members))

CandidateOf(g, bs, legs) ==
    /\ LegsOf(g, legs)
    /\ \A k \in DOMAIN legs : AsksOf(legs, bs, k) # <<>>
    /\ TopCost(bs, legs) < Dollar

LEMMA InResolution ==
    ASSUME NEW m \in Seq(Nat), IsInjective(m), NEW yes \in SUBSET DOMAIN m, NEW i \in DOMAIN m
    PROVE  m[i] \in Resolution(m, yes) <=> i \in yes
BY DEF Resolution, IsInjective

LEMMA HedgePays ==
    ASSUME NEW a, NEW b, NEW states, \A s \in states : b \in s => a \in s
    PROVE  /\ SurePay(Hedge(a, b), states) /\ DOMAIN Hedge(a, b) = 1 .. 2
           /\ Hedge(a, b)[1].contract = a /\ Hedge(a, b)[1].side = "yes"
           /\ Hedge(a, b)[2].contract = b /\ Hedge(a, b)[2].side = "no"
<1>1. /\ DOMAIN Hedge(a, b) = 1 .. 2
      /\ Hedge(a, b)[1] = [contract |-> a, side |-> "yes"]
      /\ Hedge(a, b)[2] = [contract |-> b, side |-> "no"]
  BY DEF Hedge, Buy
<1>2. /\ Hedge(a, b)[1].contract = a /\ Hedge(a, b)[1].side = "yes"
      /\ Hedge(a, b)[2].contract = b /\ Hedge(a, b)[2].side = "no"
  BY <1>1
<1>3. ASSUME NEW s \in states
      PROVE  \E k \in DOMAIN Hedge(a, b) : Pays(Hedge(a, b)[k], s)
  <2>0. 1 \in 1 .. 2 /\ 2 \in 1 .. 2
    OBVIOUS
  <2>1. CASE b \in s
    <3>1. Pays(Hedge(a, b)[1], s)
      BY <1>2, <2>1 DEF Pays
    <3> QED  BY <1>1, <2>0, <3>1
  <2>2. CASE b \notin s
    <3>1. Pays(Hedge(a, b)[2], s)
      BY <1>2, <2>2 DEF Pays
    <3> QED  BY <1>1, <2>0, <3>1
  <2> QED  BY <2>1, <2>2
<1> QED  BY <1>1, <1>2, <1>3 DEF SurePay

LEMMA IfUnderpricedIs ==
    ASSUME NEW g, NEW bs, NEW legs, LegsOf(g, legs)
    PROVE  IfUnderpriced(bs, legs) \in Seq({x \in {legs} : CandidateOf(g, bs, x)})
<1>1. CASE /\ \A i \in DOMAIN legs : Asks(bs[legs[i].contract], legs[i].side) # <<>>
           /\ TopCost(bs, legs) < Dollar
  <2>1. CandidateOf(g, bs, legs)
    BY <1>1 DEF CandidateOf, AsksOf
  <2>2. IfUnderpriced(bs, legs) = <<legs>>
    BY <1>1 DEF IfUnderpriced
  <2> QED  BY <2>1, <2>2
<1>2. CASE ~(/\ \A i \in DOMAIN legs : Asks(bs[legs[i].contract], legs[i].side) # <<>>
             /\ TopCost(bs, legs) < Dollar)
  <2>1. IfUnderpriced(bs, legs) = <<>>
    BY <1>2 DEF IfUnderpriced
  <2> QED  BY <2>1
<1> QED  BY <1>1, <1>2

LEMMA HedgeIs ==
    ASSUME NEW g, NEW i \in DOMAIN g.members, NEW j \in DOMAIN g.members,
           \A s \in ResolutionStates(g.kind, g.members) : g.members[j] \in s => g.members[i] \in s
    PROVE  LegsOf(g, Hedge(g.members[i], g.members[j]))
<1> DEFINE a == g.members[i]
           b == g.members[j]
           h == Hedge(a, b)
<1>1. /\ SurePay(h, ResolutionStates(g.kind, g.members)) /\ DOMAIN h = 1 .. 2
      /\ h[1].contract = a /\ h[1].side = "yes" /\ h[2].contract = b /\ h[2].side = "no"
  <2> DEFINE states == ResolutionStates(g.kind, g.members)
  <2>1. \A s \in states : b \in s => a \in s
    OBVIOUS
  <2> HIDE DEF a, b, states
  <2>2. /\ SurePay(Hedge(a, b), states) /\ DOMAIN Hedge(a, b) = 1 .. 2
        /\ Hedge(a, b)[1].contract = a /\ Hedge(a, b)[1].side = "yes"
        /\ Hedge(a, b)[2].contract = b /\ Hedge(a, b)[2].side = "no"
    BY <2>1, HedgePays
  <2> QED  BY <2>2 DEF states
<1> HIDE DEF h
<1>2. ASSUME NEW k \in DOMAIN h
      PROVE  (\E x \in DOMAIN g.members : h[k].contract = g.members[x]) /\ h[k].side \in {"yes", "no"}
  <2>1. k = 1 \/ k = 2
    BY <1>1
  <2> QED  BY <1>1, <2>1
<1>3. \E n \in Nat \ {0} : DOMAIN h = 1 .. n
  <2>1. 2 \in Nat \ {0}
    OBVIOUS
  <2> QED  BY <1>1, <2>1
<1>4. LegsOf(g, h)
  BY <1>1, <1>2, <1>3 DEF LegsOf
<1> QED  BY <1>4 DEF h

LEMMA CandidatesAre ==
    ASSUME NEW g, NEW bs, WellShaped(g)
    PROVE  /\ \E n \in Nat : DOMAIN Candidates(g, bs) = 1 .. n
           /\ \A i \in DOMAIN Candidates(g, bs) : CandidateOf(g, bs, Candidates(g, bs)[i])
<1> DEFINE m == g.members
           states == ResolutionStates(g.kind, m)
<1>1. m \in Seq(Nat) /\ IsInjective(m) /\ Len(m) \in Nat /\ DOMAIN m = 1 .. Len(m) /\ g.kind \in Kind
  BY DEF WellShaped
<1>2. \A yes \in SUBSET DOMAIN m : \A i \in DOMAIN m : m[i] \in Resolution(m, yes) <=> i \in yes
  BY <1>1, InResolution
<1>3. ASSUME NEW c, NEW T, c \in Seq({x \in T : CandidateOf(g, bs, x)})
      PROVE  (\E n \in Nat : DOMAIN c = 1 .. n) /\ \A i \in DOMAIN c : CandidateOf(g, bs, c[i])
  <2>1. DOMAIN c = 1 .. Len(c) /\ Len(c) \in Nat
    BY <1>3
  <2>2. \A i \in DOMAIN c : c[i] \in {x \in T : CandidateOf(g, bs, x)}
    BY <1>3
  <2> QED  BY <2>1, <2>2
<1>4. CASE g.kind = "complement"
  <2>1. 1 \in DOMAIN m /\ Len(m) = 1
    <3>1. Len(m) = 1
      BY <1>4 DEF WellShaped
    <3> HIDE DEF m
    <3> QED  BY <1>1, <3>1
  <2>2. LegsOf(g, Hedge(m[1], m[1]))
    BY <2>1, HedgeIs
  <2>3. IfUnderpriced(bs, Hedge(m[1], m[1])) \in Seq({x \in {Hedge(m[1], m[1])} : CandidateOf(g, bs, x)})
    BY <2>2, IfUnderpricedIs
  <2>4. Candidates(g, bs) = IfUnderpriced(bs, Hedge(m[1], m[1]))
    BY <1>4, CandidatesByKind
  <2> QED  BY <1>3, <2>3, <2>4
<1>5. CASE g.kind = "exhaustive"
  <2>0. states = WinnerStates(m)
    BY <1>5, StatesByKind
  <2> DEFINE legs == [i \in DOMAIN m |-> Buy(m[i], "yes")]
  <2>1. DOMAIN legs = 1 .. Len(m) /\ Len(m) \in Nat \ {0}
    BY <1>1, <1>5 DEF WellShaped
  <2>2. \A k \in DOMAIN legs : k \in DOMAIN m /\ legs[k].contract = m[k] /\ legs[k].side = "yes"
    BY DEF Buy
  <2>3. ASSUME NEW s \in states
        PROVE  \E k \in DOMAIN legs : Pays(legs[k], s)
    <3>1. PICK i \in DOMAIN m : s = Resolution(m, {i})
      BY <2>0 DEF WinnerStates
    <3>2. m[i] \in s
      <4>1. {i} \in SUBSET DOMAIN m /\ i \in {i}
        BY <3>1
      <4> QED  BY <1>2, <3>1, <4>1
    <3>3. i \in DOMAIN legs /\ legs[i].contract = m[i] /\ legs[i].side = "yes"
      BY <2>2
    <3>4. Pays(legs[i], s)
      <4> HIDE DEF legs
      <4> QED  BY <3>2, <3>3 DEF Pays
    <3> QED  BY <3>3, <3>4
  <2> HIDE DEF legs
  <2>4. LegsOf(g, legs)
    BY <2>1, <2>2, <2>3 DEF LegsOf, SurePay
  <2>5. IfUnderpriced(bs, legs) \in Seq({x \in {legs} : CandidateOf(g, bs, x)})
    BY <2>4, IfUnderpricedIs
  <2>6. Candidates(g, bs) = IfUnderpriced(bs, legs)
    BY <1>5, CandidatesByKind DEF legs
  <2> QED  BY <1>3, <2>5, <2>6
<1>6. ASSUME NEW o, o = m \/ o = Reverse(m), Len(m) >= 2,
             \A i \in 1 .. Len(m) - 1 : \E a, b \in DOMAIN m :
                /\ o[i] = m[a] /\ o[i + 1] = m[b]
                /\ \A s \in states : m[b] \in s => m[a] \in s
      PROVE  /\ \E n \in Nat : DOMAIN Inversions(bs, o) = 1 .. n
             /\ \A i \in DOMAIN Inversions(bs, o) : CandidateOf(g, bs, Inversions(bs, o)[i])
  <2>1. Len(o) = Len(m)
    <3>1. Reverse(m) = [i \in 1 .. Len(m) |-> m[Len(m) - i + 1]]
      BY DEF Reverse
    <3>2. \A i \in 1 .. Len(m) : m[Len(m) - i + 1] \in Nat
      <4> SUFFICES ASSUME NEW i \in 1 .. Len(m) PROVE m[Len(m) - i + 1] \in Nat
        OBVIOUS
      <4>1. Len(m) - i + 1 \in 1 .. Len(m)
        BY <1>1
      <4> QED  BY <1>1, <4>1
    <3>3. Len(Reverse(m)) = Len(m)
      BY <1>1, <3>1, <3>2
    <3> QED  BY <1>6, <3>3
  <2> DEFINE T == {Hedge(m[a], m[b]) : a \in DOMAIN m, b \in DOMAIN m}
             C == {x \in T : CandidateOf(g, bs, x)}
             s == [i \in 1 .. Len(o) - 1 |-> IfUnderpriced(bs, Hedge(o[i], o[i + 1]))]
  <2>2. ASSUME NEW i \in 1 .. Len(m) - 1
        PROVE  IfUnderpriced(bs, Hedge(o[i], o[i + 1])) \in Seq(C)
    <3>1. PICK a \in DOMAIN m, b \in DOMAIN m :
                /\ o[i] = m[a] /\ o[i + 1] = m[b]
                /\ \A z \in states : m[b] \in z => m[a] \in z
      BY <1>6
    <3> DEFINE h == Hedge(m[a], m[b])
    <3>2. LegsOf(g, h)
      BY <3>1, HedgeIs
    <3>3. h \in T
      OBVIOUS
    <3> HIDE DEF h, T
    <3>4. IfUnderpriced(bs, h) \in Seq({x \in {h} : CandidateOf(g, bs, x)})
      BY <3>2, IfUnderpricedIs
    <3>5. {x \in {h} : CandidateOf(g, bs, x)} \subseteq C
      BY <3>3
    <3> DEFINE D == {x \in {h} : CandidateOf(g, bs, x)}
    <3>6. IfUnderpriced(bs, h) \in Seq(C)
      <4>1. IfUnderpriced(bs, h) \in Seq(D) /\ D \subseteq C
        BY <3>4, <3>5
      <4> HIDE DEF C, D
      <4> QED  BY <4>1
    <3> QED  BY <3>1, <3>6 DEF h
  <2> HIDE DEF C
  <2>3. s \in Seq(Seq(C))
    <3>1. Len(m) - 1 \in Nat /\ s = [i \in 1 .. Len(m) - 1 |-> IfUnderpriced(bs, Hedge(o[i], o[i + 1]))]
      BY <1>1, <1>6, <2>1
    <3> DEFINE S == Seq(C)
               n == Len(m) - 1
    <3>2. s = [i \in 1 .. n |-> s[i]] /\ n \in Nat /\ \A i \in 1 .. n : s[i] \in S
      BY <2>2, <3>1
    <3> HIDE DEF s, S, n
    <3>3. s \in Seq(S)
      BY <3>2
    <3> QED  BY <3>3 DEF S
  <2>4. FlattenSeq(s) \in Seq(C)
    <3> HIDE DEF s
    <3> QED  BY <2>3, FlattenIs
  <2>5. Inversions(bs, o) = FlattenSeq(s)
    BY DEF Inversions
  <2> DEFINE c == Inversions(bs, o)
  <2>6. c \in Seq({x \in T : CandidateOf(g, bs, x)})
    BY <2>4, <2>5 DEF C
  <2> HIDE DEF c, T
  <2>7. (\E n \in Nat : DOMAIN c = 1 .. n) /\ \A i \in DOMAIN c : CandidateOf(g, bs, c[i])
    BY <1>3, <2>6
  <2> QED  BY <2>7 DEF c
<1>7. CASE g.kind = "monotone"
  <2>1. ASSUME NEW i \in 1 .. Len(m) - 1
        PROVE  \E a, b \in DOMAIN m : /\ m[i] = m[a] /\ m[i + 1] = m[b]
                                      /\ \A s \in states : m[b] \in s => m[a] \in s
    <3>1. i \in DOMAIN m /\ i + 1 \in DOMAIN m
      BY <1>1
    <3>2. ASSUME NEW s \in states, m[i + 1] \in s
          PROVE  m[i] \in s
      <4>1. PICK k \in 0 .. Len(m) : s = Resolution(m, 1 .. k)
        <5>1. states = LadderStates(m)
          BY <1>7, StatesByKind
        <5> HIDE DEF states
        <5> QED  BY <5>1 DEF LadderStates
      <4>2. 1 .. k \in SUBSET DOMAIN m
        BY <1>1
      <4>3. i + 1 \in 1 .. k
        BY <1>2, <3>1, <3>2, <4>1, <4>2
      <4>4. i \in 1 .. k
        BY <4>3, <1>1
      <4> QED  BY <1>2, <3>1, <4>1, <4>2, <4>4
    <3> QED  BY <3>1, <3>2
  <2>2. Len(m) >= 2
    BY <1>7 DEF WellShaped
  <2>3. Candidates(g, bs) = Inversions(bs, m)
    BY <1>7, CandidatesByKind
  <2> HIDE DEF m, states
  <2> QED  BY <1>6, <2>1, <2>2, <2>3
<1>8. CASE g.kind = "implies"
  <2>1. Len(m) = 2 /\ DOMAIN m = 1 .. 2 /\ 1 \in DOMAIN m /\ 2 \in DOMAIN m
    <3>1. g.kind \in {"implies", "equivalent"}
      BY <1>8
    <3>2. Len(m) = 2
      BY <3>1 DEF WellShaped
    <3> HIDE DEF m
    <3> QED  BY <1>1, <3>2
  <2>2. ASSUME NEW i \in 1 .. Len(m) - 1
        PROVE  \E a, b \in DOMAIN m : /\ Reverse(m)[i] = m[a] /\ Reverse(m)[i + 1] = m[b]
                                      /\ \A s \in states : m[b] \in s => m[a] \in s
    <3>1. i = 1 /\ Reverse(m)[1] = m[2] /\ Reverse(m)[1 + 1] = m[1]
      BY <2>1 DEF Reverse
    <3>2. ASSUME NEW s \in states, m[1] \in s
          PROVE  m[2] \in s
      <4>1. s \in {{}, Resolution(m, {2}), Resolution(m, {1, 2})}
        BY <1>8, StatesByKind
      <4>2. {2} \in SUBSET DOMAIN m /\ {1, 2} \in SUBSET DOMAIN m
        BY <2>1
      <4> QED  BY <1>2, <2>1, <3>2, <4>1, <4>2
    <3> QED  BY <2>1, <3>1, <3>2
  <2>3. Candidates(g, bs) = Inversions(bs, Reverse(m))
    BY <1>8, CandidatesByKind
  <2>4. Len(m) >= 2
    BY <2>1
  <2> DEFINE o == Reverse(m)
  <2>5. \A i \in 1 .. Len(m) - 1 : \E a, b \in DOMAIN m :
                /\ o[i] = m[a] /\ o[i + 1] = m[b]
                /\ \A s \in states : m[b] \in s => m[a] \in s
    BY <2>2
  <2>6. Candidates(g, bs) = Inversions(bs, o) /\ o = Reverse(m)
    BY <2>3
  <2> HIDE DEF m, states, o
  <2> QED  BY <1>6, <2>4, <2>5, <2>6
<1>9. CASE g.kind = "equivalent"
  <2>1. Len(m) = 2 /\ DOMAIN m = 1 .. 2 /\ 1 \in DOMAIN m /\ 2 \in DOMAIN m
    <3>1. g.kind \in {"implies", "equivalent"}
      BY <1>9
    <3>2. Len(m) = 2
      BY <3>1 DEF WellShaped
    <3> HIDE DEF m
    <3> QED  BY <1>1, <3>2
  <2>2. ASSUME NEW s \in states
        PROVE  m[1] \in s <=> m[2] \in s
    <3>1. s \in {Resolution(m, {1, 2}), {}}
      BY <1>9, StatesByKind
    <3>2. {1, 2} \in SUBSET DOMAIN m
      BY <2>1
    <3> QED  BY <1>2, <2>1, <3>1, <3>2
  <2> DEFINE h == Hedge(m[1], m[2])
             e == Hedge(m[2], m[1])
             C == {x \in {h, e} : CandidateOf(g, bs, x)}
  <2>3. LegsOf(g, h) /\ LegsOf(g, e)
    BY <2>1, <2>2, HedgeIs
  <2>4. Candidates(g, bs) = IfUnderpriced(bs, h) \o IfUnderpriced(bs, e)
    BY <1>9, CandidatesByKind
  <2> HIDE DEF h, e
  <2>5. /\ IfUnderpriced(bs, h) \in Seq({x \in {h} : CandidateOf(g, bs, x)})
        /\ IfUnderpriced(bs, e) \in Seq({x \in {e} : CandidateOf(g, bs, x)})
    BY <2>3, IfUnderpricedIs
  <2>6. IfUnderpriced(bs, h) \in Seq(C) /\ IfUnderpriced(bs, e) \in Seq(C)
    <3> DEFINE H == {x \in {h} : CandidateOf(g, bs, x)}
               E == {x \in {e} : CandidateOf(g, bs, x)}
    <3>1. H \subseteq C /\ E \subseteq C
      OBVIOUS
    <3>2. IfUnderpriced(bs, h) \in Seq(H) /\ IfUnderpriced(bs, e) \in Seq(E)
      BY <2>5
    <3> HIDE DEF H, E, C
    <3> QED  BY <3>1, <3>2
  <2>7. Candidates(g, bs) \in Seq(C)
    <3> HIDE DEF C
    <3> QED  BY <2>4, <2>6
  <2> QED  BY <1>3, <2>7
<1> QED  BY <1>1, <1>4, <1>5, <1>7, <1>8, <1>9 DEF Kind

LEMMA StatesExist ==
    ASSUME NEW g, WellShaped(g)
    PROVE  ResolutionStates(g.kind, g.members) # {}
<1> DEFINE m == g.members
           states == ResolutionStates(g.kind, m)
<1>1. m \in Seq(Nat) /\ Len(m) \in Nat /\ DOMAIN m = 1 .. Len(m) /\ g.kind \in Kind
  BY DEF WellShaped
<1>2. CASE g.kind = "exhaustive"
  <2>1. 1 \in DOMAIN m
    <3>1. g.kind \in {"exhaustive", "monotone"}
      BY <1>2
    <3>2. Len(m) >= 2
      BY <3>1 DEF WellShaped
    <3> HIDE DEF m
    <3> QED  BY <1>1, <3>2
  <2>2. states = WinnerStates(m)
    BY <1>2, StatesByKind
  <2> HIDE DEF states, m
  <2> QED  BY <2>1, <2>2 DEF WinnerStates, states, m
<1>3. CASE g.kind = "monotone"
  <2>1. states = LadderStates(m)
    BY <1>3, StatesByKind
  <2>2. 0 \in 0 .. Len(m)
    BY <1>1
  <2> HIDE DEF states, m
  <2> QED  BY <2>1, <2>2 DEF LadderStates, states, m
<1>4. CASE g.kind \in {"complement", "implies", "equivalent"}
  <2>1. {} \in states
    <3>1. CASE g.kind = "complement"
      <4>1. states = {Resolution(m, {1}), {}}
        BY <3>1, StatesByKind
      <4> HIDE DEF states
      <4> QED  BY <4>1
    <3>2. CASE g.kind = "implies"
      <4>1. states = {{}, Resolution(m, {2}), Resolution(m, {1, 2})}
        BY <3>2, StatesByKind
      <4> HIDE DEF states
      <4> QED  BY <4>1
    <3>3. CASE g.kind = "equivalent"
      <4>1. states = {Resolution(m, {1, 2}), {}}
        BY <3>3, StatesByKind
      <4> HIDE DEF states
      <4> QED  BY <4>1
    <3> QED  BY <1>4, <3>1, <3>2, <3>3
  <2> QED  BY <2>1
<1> QED  BY <1>1, <1>2, <1>3, <1>4 DEF Kind

LEMMA PayoffInIs ==
    ASSUME NEW legs, NEW n \in Nat, DOMAIN legs = 1 .. n, NEW s
    PROVE  /\ PayoffIn(legs, s) \in Nat
           /\ (\E k \in DOMAIN legs : Pays(legs[k], s)) => PayoffIn(legs, s) >= 100
<1> DEFINE P == {i \in DOMAIN legs : Pays(legs[i], s)}
<1>1. IsFiniteSet(P) /\ Cardinality(P) \in Nat
  <2>1. IsFiniteSet(1 .. n) /\ P \subseteq 1 .. n
    BY IndexSet
  <2> HIDE DEF P
  <2> QED  BY <2>1, FS_Subset, FS_CardinalityType
<1>2. PayoffIn(legs, s) = 100 * Cardinality(P)
  BY DEF PayoffIn
<1>3. ASSUME \E k \in DOMAIN legs : Pays(legs[k], s)
      PROVE  Cardinality(P) >= 1
  <2>1. P # {}
    BY <1>3
  <2> HIDE DEF P
  <2>2. Cardinality(P) # 0
    BY <1>1, <2>1, FS_EmptySet
  <2> QED  BY <1>1, <2>2
<1> HIDE DEF P
<1> QED  BY <1>1, <1>2, <1>3

LEMMA PayoffIs ==
    ASSUME NEW g, NEW legs, WellShaped(g), LegsOf(g, legs)
    PROVE  /\ PayoffOf(g, legs) \in Nat /\ PayoffOf(g, legs) \in Int /\ PayoffOf(g, legs) >= 100
           /\ \A s \in ResolutionStates(g.kind, g.members) : PayoffOf(g, legs) <= PayoffIn(legs, s)
<1> DEFINE states == ResolutionStates(g.kind, g.members)
           S == {PayoffIn(legs, s) : s \in states}
<1>1. PICK n \in Nat \ {0} : DOMAIN legs = 1 .. n
  BY DEF LegsOf
<1>2. \A s \in states : \E k \in DOMAIN legs : Pays(legs[k], s)
  BY DEF LegsOf, SurePay
<1>3. states # {}
  BY StatesExist
<1>4. PayoffOf(g, legs) = Min(S)
  BY DEF PayoffOf, MinPayoff
<1> HIDE DEF states
<1>5. ASSUME NEW s \in states
      PROVE  PayoffIn(legs, s) \in Nat /\ PayoffIn(legs, s) >= 100
  BY <1>1, <1>2, PayoffInIs
<1>6. S \subseteq Nat /\ S # {} /\ (\A x \in S : x >= 100) /\ \A s \in states : PayoffIn(legs, s) \in S
  BY <1>3, <1>5
<1> HIDE DEF S
<1> DEFINE p == Min(S)
<1>7. p \in S /\ \A x \in S : p <= x
  BY <1>6, LeastOf
<1>10. PayoffOf(g, legs) = p
  BY <1>4
<1> HIDE DEF p
<1>8. p \in Nat /\ p \in Int /\ p >= 100
  <2>1. p \in Nat
    BY <1>6, <1>7
  <2> QED  BY <2>1, <1>6, <1>7
<1>9. \A s \in states : p <= PayoffIn(legs, s)
  BY <1>6, <1>7
<1> QED  BY <1>8, <1>9, <1>10 DEF states

LEMMA IdentityOrder ==
    ASSUME NEW m \in Nat
    PROVE  InOrder(1 .. m) = [k \in 1 .. m |-> k]
<1>1. Cardinality(1 .. m) = m
  BY IndexSet
<1>2. ASSUME NEW n \in 1 .. m
      PROVE  Cardinality({j \in 1 .. m : j <= n}) = n
  <2>1. {j \in 1 .. m : j <= n} = 1 .. n /\ n \in Nat
    OBVIOUS
  <2> QED  BY <2>1, IndexSet
<1>3. ASSUME NEW k \in 1 .. m
      PROVE  (CHOOSE n \in 1 .. m : Cardinality({j \in 1 .. m : j <= n}) = k) = k
  BY <1>2
<1> QED  BY <1>1, <1>3 DEF InOrder

LEMMA KeptFirst ==
    ASSUME NEW l, NEW m \in Nat
    PROVE  Kept(l, 1 .. m) = [i \in 1 .. m |-> l[i]]
BY IdentityOrder DEF Kept

(* A file's members, each where it is mentioned.                           *)
LEMMA MentionsAre ==
    ASSUME NEW file \in Files
    PROVE  /\ Mentions(file) \in Seq(FileMember)
           /\ \A e \in DOMAIN file.events : \A x \in DOMAIN file.events[e].groups :
                \A i \in DOMAIN file.events[e].groups[x].members :
                   \E p \in DOMAIN Mentions(file) :
                       Mentions(file)[p] = file.events[e].groups[x].members[i]
<1> DEFINE ev == file.events
           M == FileMember
           of(e) == [x \in DOMAIN ev[e].groups |-> ev[e].groups[x].members]
           s == [e \in DOMAIN ev |-> FlattenSeq(of(e))]
<1>1. ev \in Seq(FileEvent) /\ Len(ev) \in Nat /\ DOMAIN ev = 1 .. Len(ev)
  BY DEF Files
<1>2. ASSUME NEW e \in DOMAIN ev
      PROVE  /\ FlattenSeq(of(e)) \in Seq(M)
             /\ Flat(FlattenSeq(of(e)), of(e), Len(of(e))) /\ DOMAIN of(e) = 1 .. Len(of(e))
  <2>1. ev[e].groups \in Seq(FileGroup)
    <3>1. ev[e] \in FileEvent
      <4> HIDE DEF ev
      <4> QED  BY <1>1
    <3> HIDE DEF ev
    <3> QED  BY <3>1 DEF FileEvent
  <2> DEFINE gs == ev[e].groups
             G == FileGroup
  <2>2. \A x \in DOMAIN gs : gs[x].members \in Seq(M)
    <3> SUFFICES ASSUME NEW x \in DOMAIN gs PROVE gs[x].members \in Seq(M)
      OBVIOUS
    <3>1. gs[x] \in FileGroup
      BY <2>1
    <3> QED  BY <3>1 DEF FileGroup
  <2>3. of(e) \in Seq(Seq(M)) /\ DOMAIN of(e) = 1 .. Len(of(e))
    <3> DEFINE h == [x \in DOMAIN gs |-> gs[x].members]
               n == Len(gs)
               Q == Seq(M)
    <3>1. n \in Nat /\ DOMAIN gs = 1 .. n /\ h = [x \in 1 .. n |-> h[x]] /\ \A x \in 1 .. n : h[x] \in Q
      BY <2>1, <2>2
    <3>2. of(e) = h
      OBVIOUS
    <3> HIDE DEF h, n, Q, gs, of
    <3>3. h \in Seq(Q) /\ DOMAIN h = 1 .. Len(h)
      BY <3>1
    <3> QED  BY <3>2, <3>3 DEF Q
  <2> DEFINE f == of(e)
  <2>4. f \in Seq(Seq(M))
    BY <2>3
  <2> HIDE DEF f, M
  <2>5. FlattenSeq(f) \in Seq(M) /\ Flat(FlattenSeq(f), f, Len(f))
    BY <2>4, FlattenIs
  <2> QED  BY <2>3, <2>5 DEF f, M
<1>3. s \in Seq(Seq(M)) /\ Len(s) = Len(ev) /\ DOMAIN s = DOMAIN ev
  <2> DEFINE n == Len(ev)
             Q == Seq(M)
  <2>1. n \in Nat /\ s = [e \in 1 .. n |-> s[e]] /\ (\A e \in 1 .. n : s[e] \in Q) /\ DOMAIN ev = 1 .. n
    BY <1>1, <1>2
  <2> HIDE DEF s, n, Q, M, of, ev
  <2>2. s \in Seq(Q) /\ Len(s) = n /\ DOMAIN s = 1 .. n
    BY <2>1
  <2> QED  BY <2>1, <2>2 DEF n, Q
<1>4. Mentions(file) = FlattenSeq(s)
  BY DEF Mentions
<1> HIDE DEF M, s
<1>5. FlattenSeq(s) \in Seq(M) /\ Flat(FlattenSeq(s), s, Len(s))
  BY <1>3, FlattenIs
<1>6. ASSUME NEW e \in DOMAIN ev, NEW x \in DOMAIN ev[e].groups, NEW i \in DOMAIN ev[e].groups[x].members
      PROVE  \E p \in DOMAIN FlattenSeq(s) : FlattenSeq(s)[p] = ev[e].groups[x].members[i]
  <2> DEFINE f == of(e)
  <2>1. /\ Flat(FlattenSeq(f), f, Len(f)) /\ DOMAIN f = 1 .. Len(f)
        /\ x \in DOMAIN f /\ f[x] = ev[e].groups[x].members
    BY <1>2
  <2>2. e \in 1 .. Len(s) /\ s[e] = FlattenSeq(f)
    BY <1>1, <1>3 DEF s
  <2> HIDE DEF f
  <2>3. PICK p \in DOMAIN FlattenSeq(f) : FlattenSeq(f)[p] = f[x][i]
    BY <2>1 DEF Flat
  <2>4. p \in DOMAIN s[e] /\ s[e][p] = f[x][i]
    BY <2>2, <2>3
  <2>5. PICK r \in DOMAIN FlattenSeq(s) : FlattenSeq(s)[r] = s[e][p]
    BY <1>5, <2>2, <2>4 DEF Flat
  <2> QED  BY <2>1, <2>4, <2>5
<1> QED  BY <1>4, <1>5, <1>6 DEF M

(* The contracts of a venue are listed once each, and all of them are.     *)
LEMMA FirstMentionsAre ==
    ASSUME NEW file \in Files, NEW v \in Venue
    PROVE  /\ FirstMentions(file, v) \in Seq(Contract)
           /\ IsInjective(FirstMentions(file, v))
           /\ \A k \in DOMAIN FirstMentions(file, v) : FirstMentions(file, v)[k].venue = v
           /\ \A i \in DOMAIN Mentions(file) : Mentions(file)[i].contract.venue = v =>
                 \E k \in DOMAIN FirstMentions(file, v) :
                     FirstMentions(file, v)[k] = Mentions(file)[i].contract
<1> DEFINE m == Mentions(file)
           c == [i \in DOMAIN m |-> m[i].contract]
           first == {i \in DOMAIN m : /\ m[i].contract.venue = v
                                      /\ \A j \in 1 .. i - 1 : m[j].contract # m[i].contract}
           f == Kept(c, first)
<1>1. m \in Seq(FileMember) /\ Len(m) \in Nat /\ DOMAIN m = 1 .. Len(m)
  BY MentionsAre
<1>2. c \in Seq(Contract) /\ DOMAIN c = DOMAIN m /\ \A i \in DOMAIN m : c[i] = m[i].contract
  <2> DEFINE n == Len(m)
  <2>1. \A i \in DOMAIN m : m[i].contract \in Contract
    <3> SUFFICES ASSUME NEW i \in DOMAIN m PROVE m[i].contract \in Contract
      OBVIOUS
    <3>1. m[i] \in FileMember
      BY <1>1
    <3> QED  BY <3>1 DEF FileMember
  <2>2. n \in Nat /\ DOMAIN m = 1 .. n
    BY <1>1
  <2>3. c = [i \in 1 .. n |-> c[i]] /\ \A i \in 1 .. n : c[i] \in Contract
    BY <2>1, <2>2
  <2>4. DOMAIN c = DOMAIN m /\ \A i \in DOMAIN m : c[i] = m[i].contract
    OBVIOUS
  <2> HIDE DEF m, c, n
  <2>5. c \in Seq(Contract)
    BY <2>2, <2>3
  <2> QED  BY <2>4, <2>5
<1>3. FirstMentions(file, v) = f
  BY DEF FirstMentions
<1>4. first \in SUBSET DOMAIN c
  BY <1>2
<1>5. ASSUME NEW i \in first, NEW j \in first, c[i] = c[j]
      PROVE  i = j
  <2>1. i \in Nat /\ j \in Nat /\ i >= 1 /\ j >= 1 /\ i \in DOMAIN m /\ j \in DOMAIN m
    BY <1>1
  <2>2. ~(i < j)
    <3> SUFFICES ASSUME i < j PROVE FALSE
      OBVIOUS
    <3>1. i \in 1 .. j - 1
      BY <2>1
    <3> QED  BY <1>2, <1>5, <2>1, <3>1
  <2>3. ~(j < i)
    <3> SUFFICES ASSUME j < i PROVE FALSE
      OBVIOUS
    <3>1. j \in 1 .. i - 1
      BY <2>1
    <3> QED  BY <1>2, <1>5, <2>1, <3>1
  <2> QED  BY <2>1, <2>2, <2>3
<1>6. ASSUME NEW i \in DOMAIN m, m[i].contract.venue = v
      PROVE  \E j \in first : c[j] = c[i]
  <2> DEFINE S == {j \in DOMAIN m : m[j].contract = m[i].contract}
  <2>1. S \subseteq Nat /\ i \in S
    BY <1>1
  <2> HIDE DEF S
  <2>2. PICK j \in S : \A y \in S : j <= y
    BY <2>1, LeastNatural
  <2>3. j \in DOMAIN m /\ m[j].contract = m[i].contract /\ j \in Nat
    BY <2>1 DEF S
  <2>4. ASSUME NEW y \in 1 .. j - 1
        PROVE  m[y].contract # m[j].contract
    <3>1. y \in DOMAIN m /\ y < j /\ y \in Nat
      BY <1>1, <2>3
    <3>2. y \notin S
      BY <2>2, <2>3, <3>1
    <3> QED  BY <2>3, <3>1, <3>2 DEF S
  <2>5. j \in first
    BY <1>6, <2>3, <2>4
  <2> QED  BY <1>2, <2>3, <2>5
<1>7. \A i \in first : i \in DOMAIN m /\ m[i].contract.venue = v
  OBVIOUS
<1> HIDE DEF c, first, m
<1>8. /\ Kept(c, first) \in Seq(Contract)
      /\ DOMAIN Kept(c, first) = 1 .. Cardinality(first) /\ Cardinality(first) \in Nat
      /\ \A k \in DOMAIN Kept(c, first) :
            InOrder(first)[k] \in first /\ Kept(c, first)[k] = c[InOrder(first)[k]]
      /\ \A k, l \in DOMAIN Kept(c, first) : k < l => InOrder(first)[k] < InOrder(first)[l]
      /\ \A i \in first : \E k \in DOMAIN Kept(c, first) : Kept(c, first)[k] = c[i]
  BY <1>2, <1>4, KeptIs
<1>9. \A k \in DOMAIN f : f[k].venue = v
  BY <1>2, <1>7, <1>8
<1>10. ASSUME NEW k \in DOMAIN f, NEW l \in DOMAIN f, f[k] = f[l]
       PROVE  k = l
  <2>1. InOrder(first)[k] = InOrder(first)[l]
    BY <1>5, <1>8, <1>10
  <2>2. InOrder(first)[k] \in Nat /\ k \in Nat /\ l \in Nat
    BY <1>1, <1>2, <1>4, <1>8
  <2> QED  BY <1>8, <2>1, <2>2
<1>11. IsInjective(f)
  BY <1>10 DEF IsInjective
<1>12. ASSUME NEW i \in DOMAIN m, m[i].contract.venue = v
       PROVE  \E k \in DOMAIN f : f[k] = m[i].contract
  <2>1. PICK j \in first : c[j] = c[i]
    BY <1>6, <1>12
  <2>2. PICK k \in DOMAIN f : f[k] = c[j]
    BY <1>8
  <2> QED  BY <1>2, <2>1, <2>2
<1> HIDE DEF f
<1> QED  BY <1>3, <1>8, <1>9, <1>11, <1>12 DEF f, m

LEMMA SortedIs ==
    ASSUME NEW T, NEW s \in Seq(T), \A i \in DOMAIN s : s[i].key \in Int
    PROVE  /\ Sorted(s) \in Seq(T)
           /\ \A k \in DOMAIN Sorted(s) : \E i \in DOMAIN s : Sorted(s)[k] = s[i]
           /\ \A i \in DOMAIN s : \E k \in DOMAIN Sorted(s) : Sorted(s)[k] = s[i]
           /\ \E f : From(Sorted(s), s, f)
<1> DEFINE key == [i \in DOMAIN s |-> s[i].key]
<1>1. key \in [DOMAIN s -> Int] /\ Sorted(s) = SortedBy(s, key)
  BY DEF Sorted
<1> HIDE DEF key
<1>2. Sorted(s) \in Seq(T) /\ \E f : From(Sorted(s), s, f)
  BY <1>1, SortedFrom
<1>3. PICK f : From(Sorted(s), s, f)
  BY <1>2
<1>4. \A k \in DOMAIN Sorted(s) : f[k] \in DOMAIN s /\ Sorted(s)[k] = s[f[k]]
  BY <1>3 DEF From
<1>5. ASSUME NEW i \in DOMAIN s
      PROVE  \E k \in DOMAIN Sorted(s) : Sorted(s)[k] = s[i]
  <2>1. PICK k \in DOMAIN s : f[k] = i
    BY <1>3 DEF From
  <2>2. k \in DOMAIN Sorted(s)
    BY <1>3, <2>1 DEF From
  <2> QED  BY <1>4, <2>1, <2>2
<1> QED  BY <1>2, <1>4, <1>5

(* The first of each key.                                                  *)
LEMMA FirstOfKeyIs ==
    ASSUME NEW T, NEW s \in Seq(T)
    PROVE  /\ FirstOfKey(s) \in Seq(T)
           /\ \A k \in DOMAIN FirstOfKey(s) : \E i \in DOMAIN s : FirstOfKey(s)[k] = s[i]
           /\ \A k, l \in DOMAIN FirstOfKey(s) : FirstOfKey(s)[k].key = FirstOfKey(s)[l].key => k = l
           /\ \A i \in DOMAIN s : \E k \in DOMAIN FirstOfKey(s) : FirstOfKey(s)[k].key = s[i].key
<1> DEFINE first == {i \in DOMAIN s : \A j \in 1 .. i - 1 : s[j].key # s[i].key}
           f == Kept(s, first)
<1>1. Len(s) \in Nat /\ DOMAIN s = 1 .. Len(s) /\ first \in SUBSET DOMAIN s
  OBVIOUS
<1>3. FirstOfKey(s) = f
  BY DEF FirstOfKey
<1>5. ASSUME NEW i \in first, NEW j \in first, s[i].key = s[j].key
      PROVE  i = j
  <2>1. i \in Nat /\ j \in Nat /\ i >= 1 /\ j >= 1 /\ i \in DOMAIN s /\ j \in DOMAIN s
    BY <1>1
  <2>2. ~(i < j)
    <3> SUFFICES ASSUME i < j PROVE FALSE
      OBVIOUS
    <3>1. i \in 1 .. j - 1
      BY <2>1
    <3> QED  BY <1>5, <2>1, <3>1
  <2>3. ~(j < i)
    <3> SUFFICES ASSUME j < i PROVE FALSE
      OBVIOUS
    <3>1. j \in 1 .. i - 1
      BY <2>1
    <3> QED  BY <1>5, <2>1, <3>1
  <2> QED  BY <2>1, <2>2, <2>3
<1>6. ASSUME NEW i \in DOMAIN s
      PROVE  \E j \in first : s[j].key = s[i].key
  <2> DEFINE S == {j \in DOMAIN s : s[j].key = s[i].key}
  <2>1. S \subseteq Nat /\ i \in S
    BY <1>1
  <2> HIDE DEF S
  <2>2. PICK j \in S : \A y \in S : j <= y
    BY <2>1, LeastNatural
  <2>3. j \in DOMAIN s /\ s[j].key = s[i].key /\ j \in Nat
    BY <2>1 DEF S
  <2>4. ASSUME NEW y \in 1 .. j - 1
        PROVE  s[y].key # s[j].key
    <3>1. y \in DOMAIN s /\ y < j /\ y \in Nat
      BY <1>1, <2>3
    <3>2. y \notin S
      BY <2>2, <2>3, <3>1
    <3> QED  BY <2>3, <3>1, <3>2 DEF S
  <2> QED  BY <2>3, <2>4
<1> HIDE DEF first
<1>8. /\ Kept(s, first) \in Seq(T)
      /\ DOMAIN Kept(s, first) = 1 .. Cardinality(first) /\ Cardinality(first) \in Nat
      /\ \A k \in DOMAIN Kept(s, first) :
            InOrder(first)[k] \in first /\ Kept(s, first)[k] = s[InOrder(first)[k]]
      /\ \A k, l \in DOMAIN Kept(s, first) : k < l => InOrder(first)[k] < InOrder(first)[l]
      /\ \A i \in first : \E k \in DOMAIN Kept(s, first) : Kept(s, first)[k] = s[i]
  BY <1>1, KeptIs
<1>10. ASSUME NEW k \in DOMAIN f, NEW l \in DOMAIN f, f[k].key = f[l].key
       PROVE  k = l
  <2>1. InOrder(first)[k] = InOrder(first)[l]
    BY <1>5, <1>8, <1>10
  <2>2. InOrder(first)[k] \in Nat /\ k \in Nat /\ l \in Nat
    BY <1>1, <1>8
  <2> QED  BY <1>8, <2>1, <2>2
<1>11. \A k \in DOMAIN f : \E i \in DOMAIN s : f[k] = s[i]
  BY <1>1, <1>8
<1>12. ASSUME NEW i \in DOMAIN s
       PROVE  \E k \in DOMAIN f : f[k].key = s[i].key
  <2>1. PICK j \in first : s[j].key = s[i].key
    BY <1>6
  <2>2. PICK k \in DOMAIN f : f[k] = s[j]
    BY <1>8
  <2> QED  BY <2>1, <2>2
<1> HIDE DEF f
<1> QED  BY <1>3, <1>8, <1>10, <1>11, <1>12 DEF f

-----------------------------------------------------------------------------
LEMMA MarketIs ==
    ASSUME NEW m \in KalshiMarket
    PROVE  m.key \in Int /\ m.event \in Int /\ m.strike \in Strike /\ m.close \in Time
BY DEF KalshiMarket

LEMMA ListingIs ==
    ASSUME NEW l \in KalshiListings
    PROVE  /\ l.markets \in Seq(KalshiMarket) /\ l.events \in Seq(KalshiEvent)
           /\ \A i \in DOMAIN l.markets : l.markets[i] \in KalshiMarket
           /\ \A i \in DOMAIN l.events : l.events[i] \in KalshiEvent /\ l.events[i].key \in Int
<1>1. l.markets \in Seq(KalshiMarket) /\ l.events \in Seq(KalshiEvent)
  BY DEF KalshiListings
<1>2. \A i \in DOMAIN l.markets : l.markets[i] \in KalshiMarket
  BY <1>1
<1>3. \A i \in DOMAIN l.events : l.events[i] \in KalshiEvent
  BY <1>1
<1>4. \A x \in KalshiEvent : x.key \in Int
  BY DEF KalshiEvent
<1> QED  BY <1>1, <1>2, <1>3, <1>4

LEMMA ListedIs ==
    ASSUME source \in KalshiListings
    PROVE  /\ Listed \in Seq(KalshiMarket)
           /\ \A k \in DOMAIN Listed : \E i \in DOMAIN source.markets :
                 Listed[k] = source.markets[i] /\ source.markets[i].open
           /\ \A i \in DOMAIN source.markets : source.markets[i].open =>
                 \E k \in DOMAIN Listed : Listed[k] = source.markets[i]
<1> DEFINE ms == source.markets
           at == {i \in DOMAIN ms : ms[i].open}
           s  == Kept(ms, at)
<1>1. ms \in Seq(KalshiMarket) /\ at \in SUBSET DOMAIN ms
  BY ListingIs
<1>2. Listed = Sorted(s)
  BY DEF Listed
<1>3. \A i \in at : i \in DOMAIN ms /\ ms[i].open
  OBVIOUS
<1>4. \A i \in DOMAIN ms : ms[i].open => i \in at
  OBVIOUS
<1> HIDE DEF ms, at
<1>5. s \in Seq(KalshiMarket) /\ PartOf(s, ms, at)
  BY <1>1, KeptPart
<1>6. \A i \in DOMAIN s : s[i].key \in Int
  <2> SUFFICES ASSUME NEW i \in DOMAIN s PROVE s[i].key \in Int
    OBVIOUS
  <2>1. s[i] \in KalshiMarket
    BY <1>5
  <2> QED  BY <2>1, MarketIs
<1> HIDE DEF s
<1>7. /\ Sorted(s) \in Seq(KalshiMarket)
      /\ \A k \in DOMAIN Sorted(s) : \E i \in DOMAIN s : Sorted(s)[k] = s[i]
      /\ \A i \in DOMAIN s : \E k \in DOMAIN Sorted(s) : Sorted(s)[k] = s[i]
  BY <1>5, <1>6, SortedIs
<1>8. ASSUME NEW k \in DOMAIN Sorted(s)
      PROVE  \E i \in DOMAIN ms : Sorted(s)[k] = ms[i] /\ ms[i].open
  <2>1. PICK i \in DOMAIN s : Sorted(s)[k] = s[i]
    BY <1>7
  <2>2. PICK j \in at : s[i] = ms[j]
    BY <1>5 DEF PartOf
  <2> QED  BY <1>3, <2>1, <2>2
<1>9. ASSUME NEW i \in DOMAIN ms, ms[i].open
      PROVE  \E k \in DOMAIN Sorted(s) : Sorted(s)[k] = ms[i]
  <2>1. i \in at
    BY <1>4, <1>9
  <2>2. PICK j \in DOMAIN s : s[j] = ms[i]
    BY <1>5, <2>1 DEF PartOf
  <2> QED  BY <1>7, <2>2
<1> QED  BY <1>2, <1>7, <1>8, <1>9 DEF ms

LEMMA MarketsOfIs ==
    ASSUME source \in KalshiListings, NEW e
    PROVE  /\ MarketsOf(e) \in Seq(KalshiMarket)
           /\ \A k \in DOMAIN MarketsOf(e) : /\ MarketsOf(e)[k].event = e
                                             /\ \E i \in DOMAIN Listed : MarketsOf(e)[k] = Listed[i]
           /\ \A i \in DOMAIN Listed : Listed[i].event = e =>
                 \E k \in DOMAIN MarketsOf(e) : MarketsOf(e)[k] = Listed[i]
<1> DEFINE ms == Listed
           at == {i \in DOMAIN ms : ms[i].event = e}
           s  == Kept(ms, at)
<1>1. ms \in Seq(KalshiMarket) /\ at \in SUBSET DOMAIN ms
  BY ListedIs
<1>2. MarketsOf(e) = s
  BY DEF MarketsOf
<1>3. \A i \in at : i \in DOMAIN ms /\ ms[i].event = e
  OBVIOUS
<1>4. \A i \in DOMAIN ms : ms[i].event = e => i \in at
  OBVIOUS
<1> HIDE DEF ms, at
<1>5. s \in Seq(KalshiMarket) /\ PartOf(s, ms, at)
  BY <1>1, KeptPart
<1> HIDE DEF s
<1>8. ASSUME NEW k \in DOMAIN s
      PROVE  s[k].event = e /\ \E i \in DOMAIN ms : s[k] = ms[i]
  <2>2. PICK j \in at : s[k] = ms[j]
    BY <1>5 DEF PartOf
  <2> QED  BY <1>3, <2>2
<1>9. ASSUME NEW i \in DOMAIN ms, ms[i].event = e
      PROVE  \E k \in DOMAIN s : s[k] = ms[i]
  <2>1. i \in at
    BY <1>4, <1>9
  <2> QED  BY <1>5, <2>1 DEF PartOf
<1> QED  BY <1>2, <1>5, <1>8, <1>9 DEF ms

LEMMA ClosesAre ==
    ASSUME source \in KalshiListings, NEW e
    PROVE  /\ IsFiniteSet(Closes(e)) /\ Closes(e) \subseteq Int
           /\ \A c \in Closes(e) : \E i \in DOMAIN Listed : Listed[i].event = e /\ Listed[i].close = c
           /\ \A i \in DOMAIN Listed : Listed[i].event = e /\ Listed[i].close # NoTime =>
                 Listed[i].close \in Closes(e)
           /\ Closes(e) # {} => Min(Closes(e)) \in Closes(e) /\ Min(Closes(e)) \in Int
<1> DEFINE ms == MarketsOf(e)
           f == [m \in ToSet(ms) |-> m.close]
           C == {f[m] : m \in ToSet(ms)}
<1>1. ms \in Seq(KalshiMarket) /\ \A k \in DOMAIN ms : ms[k] \in KalshiMarket
  <2>1. ms \in Seq(KalshiMarket)
    BY MarketsOfIs
  <2> HIDE DEF ms
  <2> QED  BY <2>1
<1>2. IsFiniteSet(C)
  <2>1. IsFiniteSet(ToSet(ms))
    BY <1>1, FiniteRange
  <2> HIDE DEF f
  <2> QED  BY <2>1, FiniteImage
<1>3. C = {m.close : m \in ToSet(ms)}
  OBVIOUS
<1>4. Closes(e) = C \ {NoTime}
  BY <1>3 DEF Closes
<1>5. IsFiniteSet(Closes(e))
  <2> HIDE DEF C
  <2> QED  BY <1>2, <1>4, FS_Difference
<1>6. ASSUME NEW c \in Closes(e)
      PROVE  c \in Int /\ \E i \in DOMAIN Listed : Listed[i].event = e /\ Listed[i].close = c
  <2>1. PICK k \in DOMAIN ms : ms[k].close = c
    BY <1>4, <1>6 DEF ToSet
  <2>2. c \in Time /\ c # NoTime
    BY <1>1, <1>4, <1>6, <2>1, MarketIs
  <2>3. c \in Int
    BY <2>2 DEF Time
  <2>4. ms[k].event = e /\ \E i \in DOMAIN Listed : ms[k] = Listed[i]
    BY MarketsOfIs
  <2> QED  BY <2>1, <2>3, <2>4
<1>7. ASSUME NEW i \in DOMAIN Listed, Listed[i].event = e, Listed[i].close # NoTime
      PROVE  Listed[i].close \in Closes(e)
  <2>1. PICK k \in DOMAIN ms : ms[k] = Listed[i]
    BY <1>7, MarketsOfIs
  <2>2. ms[k] \in ToSet(ms)
    BY DEF ToSet
  <2>3. Listed[i].close \in C
    BY <2>1, <2>2
  <2> QED  BY <1>4, <1>7, <2>3
<1> DEFINE D == Closes(e)
<1>8. IsFiniteSet(D) /\ D \subseteq Int
  BY <1>5, <1>6
<1>9. D # {} => Min(D) \in D /\ Min(D) \in Int
  <2> HIDE DEF D
  <2>1. D # {} => Min(D) \in D
    BY <1>8, LeastOfFinite
  <2> QED  BY <1>8, <2>1
<1> QED  BY <1>6, <1>7, <1>8, <1>9

(* The events passed on: each is one of the listing's with a horizon, and  *)
(* where none is passed on twice, the listing has no second entry for it.  *)
LEMMA TimedIs ==
    ASSUME source \in KalshiListings
    PROVE  /\ Timed \in Seq(KalshiEvent)
           /\ \A k \in DOMAIN Timed : \E i \in DOMAIN source.events :
                 Timed[k] = source.events[i] /\ Closes(source.events[i].key) # {}
           /\ IsInjective([i \in DOMAIN Timed |-> Timed[i].key]) =>
                 \A i, j \in DOMAIN source.events :
                    /\ source.events[i].key = source.events[j].key
                    /\ Closes(source.events[i].key) # {}
                    => i = j
<1> DEFINE ev == source.events
           es == Sorted(ev)
           at == {i \in DOMAIN es : Closes(es[i].key) # {}}
           t  == Kept(es, at)
<1>1. ev \in Seq(KalshiEvent) /\ \A i \in DOMAIN ev : ev[i].key \in Int
  BY ListingIs
<1>2. Timed = t
  BY DEF Timed
<1>3. /\ es \in Seq(KalshiEvent)
      /\ \A k \in DOMAIN es : \E i \in DOMAIN ev : es[k] = ev[i]
      /\ \E f : From(es, ev, f)
  <2> HIDE DEF ev
  <2> QED  BY <1>1, SortedIs
<1>4. at \in SUBSET DOMAIN es /\ (\A i \in at : Closes(es[i].key) # {})
      /\ \A i \in DOMAIN es : Closes(es[i].key) # {} => i \in at
  OBVIOUS
<1> HIDE DEF ev, es, at
<1>5. /\ t \in Seq(KalshiEvent)
      /\ \A k \in DOMAIN t : InOrder(at)[k] \in at /\ t[k] = es[InOrder(at)[k]]
      /\ \A i \in at : \E k \in DOMAIN t : InOrder(at)[k] = i /\ t[k] = es[i]
  BY <1>3, <1>4, KeptIs
<1> HIDE DEF t
<1>6. ASSUME NEW k \in DOMAIN t
      PROVE  \E i \in DOMAIN ev : t[k] = ev[i] /\ Closes(ev[i].key) # {}
  <2>1. PICK j \in at : t[k] = es[j]
    BY <1>5
  <2>2. j \in DOMAIN es /\ Closes(es[j].key) # {}
    BY <1>4
  <2>3. PICK i \in DOMAIN ev : es[j] = ev[i]
    BY <1>3, <2>2
  <2> QED  BY <2>1, <2>2, <2>3
<1>7. ASSUME IsInjective([i \in DOMAIN t |-> t[i].key]),
             NEW i \in DOMAIN ev, NEW j \in DOMAIN ev, ev[i].key = ev[j].key, Closes(ev[i].key) # {}
      PROVE  i = j
  <2>1. PICK f : From(es, ev, f)
    BY <1>3
  <2>2. PICK k \in DOMAIN ev : f[k] = i
    BY <2>1 DEF From
  <2>3. PICK l \in DOMAIN ev : f[l] = j
    BY <2>1 DEF From
  <2>4. es[k] = ev[i] /\ es[l] = ev[j] /\ k \in DOMAIN es /\ l \in DOMAIN es
    BY <2>1, <2>2, <2>3 DEF From
  <2>5. k \in at /\ l \in at
    BY <1>4, <1>7, <2>4
  <2>6. PICK x \in DOMAIN t : InOrder(at)[x] = k /\ t[x] = es[k]
    BY <1>5, <2>5
  <2>7. PICK y \in DOMAIN t : InOrder(at)[y] = l /\ t[y] = es[l]
    BY <1>5, <2>5
  <2>8. t[x].key = t[y].key
    BY <1>7, <2>4, <2>6, <2>7
  <2>9. x = y
    BY <1>7, <2>8 DEF IsInjective
  <2> QED  BY <2>2, <2>3, <2>6, <2>7, <2>9
<1> QED  BY <1>2, <1>5, <1>6, <1>7 DEF ev

-----------------------------------------------------------------------------
(* The inductive invariant of loading.                                     *)

Unread == phase \in {"intern", "events", "markets"}
OfListing == source.from = "listing"

(* What is being read, and of a promoted file what it was written from.    *)
SourceOK ==
    /\ source \in Files \cup KalshiListings
    /\ origin = <<>> => source \in Sources
    /\ origin # <<>> => /\ source.from = "file" /\ origin[1].listing \in Sources
                        /\ origin[1].listing.from = "listing"
    /\ phase \in {"events", "markets"} => OfListing
    /\ phase = "intern" => source.from = "file"

NoCatalogueYet == phase \notin {"ready", "trading", "refused"} => catalogue = <<>>

(* The registry's numbers are the store's.                                 *)
TablesOK ==
    /\ tickers \in [Venue -> Seq(Contract)]
    /\ \A v \in Venue : \A i \in DOMAIN tickers[v] : tickers[v][i].venue = v
    /\ interned = StoreOrder /\ interned \in Seq(Contract) /\ IsInjective(interned)
    /\ Unread => /\ interned = <<>> /\ tickers = [v \in Venue |-> <<>>]
                 /\ binding = <<>> /\ groups = <<>>
    /\ phase \in {"intern", "events"} => events = <<>>

(* Pass one has met every contract that pass two asks for.                 *)
FileKnown ==
    phase = "groups" /\ source.from = "file" =>
        \A e \in DOMAIN source.events : \A x \in DOMAIN source.events[e].groups :
            \A i \in DOMAIN source.events[e].groups[x].members :
                \E k \in DOMAIN interned :
                    interned[k] = source.events[e].groups[x].members[i].contract

BindingOK ==
    /\ events \in Seq([key : Int, resolves : Int])
    /\ \A c \in DOMAIN binding : /\ c \in DOMAIN interned
                                 /\ binding[c].contract = interned[c]
                                 /\ binding[c].event \in DOMAIN events

(* Of a listing: the events with a horizon, each once, and every market    *)
(* bound to the event it is listed under.                                  *)
ListedEventsOK ==
    OfListing /\ phase \in {"markets", "groups", "check", "polymarket"} =>
        /\ \A i \in DOMAIN events : /\ Closes(events[i].key) # {}
                                    /\ events[i].resolves = Min(Closes(events[i].key))
        /\ \A i, j \in DOMAIN events : events[i].key = events[j].key => i = j
        /\ \A i, j \in DOMAIN source.events :
              source.events[i].key = source.events[j].key /\ Closes(source.events[i].key) # {}
              => i = j

ListedOK ==
    OfListing /\ phase \in {"groups", "check", "polymarket"} =>
        /\ \A k \in DOMAIN interned : \E i \in DOMAIN Listed :
              /\ interned[k] = KalshiNamed(Listed[i].key) /\ k \in DOMAIN binding
              /\ events[binding[k].event].key = Listed[i].event
        /\ \A i \in DOMAIN Listed : KeyTaken(Listed[i].event) =>
              \E k \in DOMAIN interned : interned[k] = KalshiNamed(Listed[i].key)

(* A group is of one event.                                                *)
UnderOneEvent(g, bound, evs) ==
    /\ WellShaped(g)
    /\ \A i \in DOMAIN g.members : g.members[i] \in DOMAIN bound
    /\ \E e \in DOMAIN evs :
          /\ \A i \in DOMAIN g.members : bound[g.members[i]].event = e
          /\ evs[e].resolves = g.resolves

GroupsOK ==
    /\ \E n \in Nat : DOMAIN groups = 1 .. n
    /\ \A g \in DOMAIN groups : UnderOneEvent(groups[g], binding, events)

(* The place reading has come to, and the events read by then.             *)
AtTheStart == cursor = [event |-> 1, group |-> 0]

ReadingOK ==
    /\ cursor \in [event : Nat, group : Nat]
    /\ Unread \/ OfListing => AtTheStart
    /\ phase = "groups" /\ source.from = "file" =>
        /\ cursor.event \in 1 .. Len(source.events) + 1
        /\ cursor.group = 0 => Len(events) = cursor.event - 1
        /\ cursor.group > 0 => /\ Len(events) = cursor.event /\ Reading
                               /\ cursor.group \in DOMAIN Entry.groups
                               /\ events[Len(events)].resolves = Entry.resolves

PartitionsOK == phase \in {"polymarket", "ready", "trading"} => ~Overlap(Partitions)

FeesOK == catalogue \in Seq(GammaMarket) /\ feeTable = Registered(catalogue, interned)

LoadInv ==
    /\ SourceOK /\ TablesOK /\ FileKnown /\ BindingOK /\ ListedEventsOK /\ ListedOK
    /\ GroupsOK /\ ReadingOK /\ PartitionsOK /\ FeesOK /\ NoCatalogueYet

-----------------------------------------------------------------------------
(* The steps of loading, and the others.                                   *)
MovesPhase ==
    /\ UNCHANGED <<source, origin, catalogue, cursor, tableVars, feeTable>>
    /\ \/ phase' = "refused"
       \/ phase = "groups" /\ source.from = "file" /\ phase' = "check"
       \/ phase = "check" /\ ~Overlap(Partitions) /\ phase' = "polymarket"
       \/ phase = "polymarket" /\ phase' = "ready"
       \/ phase = "ready" /\ phase' = "trading"

LEMMA StepKinds ==
    ASSUME [Next]_vars
    PROVE  \/ InternFile \/ AddEvent \/ AddGroup \/ AddListedEvents \/ InternListed
           \/ AddInferred \/ Promote \/ ExtendWithPolymarket \/ MovesPhase
           \/ UNCHANGED registryVars
<1>1. CASE Startup
  <2>1. Load
    BY <1>1 DEF Startup
  <2>2. CASE EmptyFile \/ RefuseEvent \/ RefuseGroup \/ RefuseListing \/ RefusePartitions
    BY <2>2 DEF EmptyFile, RefuseEvent, RefuseGroup, RefuseListing, RefusePartitions, Refuse, MovesPhase
  <2>3. CASE FileDone
    BY <2>3 DEF FileDone, MovesPhase
  <2>4. CASE CheckPartitions
    BY <2>4 DEF CheckPartitions, Conflict, MovesPhase
  <2>5. CASE WithoutPolymarket
    BY <2>5 DEF WithoutPolymarket, Started, MovesPhase
  <2> QED  BY <2>1, <2>2, <2>3, <2>4, <2>5 DEF Load
<1>2. CASE Open
  BY <1>2 DEF Open, MovesPhase
<1>3. CASE \E c \in DOMAIN market : BookMoves(c) \/ MovesUnseen(c) \/ Snapshot(c)
  BY <1>3 DEF BookMoves, MovesUnseen, Snapshot
<1>4. CASE \E v \in Venue : LoseVenue(v)
  BY <1>4 DEF LoseVenue
<1>5. CASE TimePasses
  BY <1>5 DEF TimePasses
<1>6. CASE UNCHANGED vars
  BY <1>6 DEF vars
<1> QED  BY <1>1, <1>2, <1>3, <1>4, <1>5, <1>6 DEF Next

LEMMA SameSource ==
    ASSUME source' = source
    PROVE  /\ Listed' = Listed /\ \A e : Closes(e)' = Closes(e)
           /\ \A e : MarketsOf(e)' = MarketsOf(e)
           /\ OfListing' = OfListing
<1>1. Listed' = Listed
  BY DEF Listed
<1>2. \A e : MarketsOf(e)' = MarketsOf(e)
  BY <1>1 DEF MarketsOf
<1>3. \A e : Closes(e)' = Closes(e)
  BY <1>2 DEF Closes
<1> QED  BY <1>1, <1>2, <1>3 DEF OfListing

SameLoaded ==
    UNCHANGED <<source, origin, catalogue, cursor, tableVars, feeTable>>

(* What does not depend on how far loading has come.                       *)
LEMMA SameTables ==
    ASSUME LoadInv, SameLoaded
    PROVE  /\ BindingOK' /\ GroupsOK' /\ FeesOK'
           /\ Overlap(Partitions)' = Overlap(Partitions)
           /\ StoreOrder' = StoreOrder /\ OfListing' = OfListing /\ AtTheStart' = AtTheStart
<1>1. /\ source' = source /\ origin' = origin /\ catalogue' = catalogue
      /\ cursor' = cursor /\ interned' = interned /\ tickers' = tickers /\ events' = events
      /\ binding' = binding /\ groups' = groups /\ feeTable' = feeTable
  BY DEF SameLoaded, tableVars
<1>2. BindingOK'
  <2>1. BindingOK
    BY DEF LoadInv
  <2> QED  BY <1>1, <2>1 DEF BindingOK
<1>3. GroupsOK'
  <2>1. GroupsOK
    BY DEF LoadInv
  <2> QED  BY <1>1, <2>1 DEF GroupsOK
<1>4. FeesOK'
  <2>1. FeesOK
    BY DEF LoadInv
  <2> QED  BY <1>1, <2>1 DEF FeesOK
<1>5. Overlap(Partitions)' = Overlap(Partitions)
  BY <1>1 DEF Overlap, Partitions
<1>6. StoreOrder' = StoreOrder /\ OfListing' = OfListing /\ AtTheStart' = AtTheStart
  BY <1>1 DEF StoreOrder, OfListing, AtTheStart
<1> QED  BY <1>2, <1>3, <1>4, <1>5, <1>6

LEMMA SameListed ==
    ASSUME LoadInv, SameLoaded,
           \/ phase' = phase
           \/ phase' \notin {"markets", "groups", "check"} /\ (phase' = "polymarket" => phase = "check")
           \/ phase' = "check" /\ source.from = "file"
    PROVE  ListedEventsOK' /\ ListedOK'
<1>1. /\ source' = source /\ interned' = interned /\ events' = events /\ binding' = binding
  BY DEF SameLoaded, tableVars
<1>2. Listed' = Listed /\ (\A e : Closes(e)' = Closes(e)) /\ OfListing' = OfListing
  BY <1>1, SameSource
<1>3. OfListing /\ phase' \in {"markets", "groups", "check", "polymarket"} =>
        phase \in {"markets", "groups", "check", "polymarket"}
  BY DEF OfListing
<1>4. OfListing /\ phase' \in {"groups", "check", "polymarket"} =>
        phase \in {"groups", "check", "polymarket"}
  BY DEF OfListing
<1>5. ListedEventsOK'
  <2>1. ListedEventsOK
    BY DEF LoadInv
  <2> QED  BY <1>1, <1>2, <1>3, <2>1 DEF ListedEventsOK
<1>6. ListedOK'
  <2>1. ListedOK
    BY DEF LoadInv
  <2>2. \A e : KeyTaken(e)' = KeyTaken(e)
    BY <1>1 DEF KeyTaken
  <2> QED  BY <1>1, <1>2, <1>4, <2>1, <2>2 DEF ListedOK
<1> QED  BY <1>5, <1>6

LEMMA LoadUnchanged ==
    ASSUME LoadInv, UNCHANGED registryVars
    PROVE  LoadInv'
<1>1. /\ source' = source /\ origin' = origin /\ phase' = phase /\ catalogue' = catalogue
      /\ cursor' = cursor /\ interned' = interned /\ tickers' = tickers /\ events' = events
      /\ binding' = binding /\ groups' = groups
  BY DEF registryVars
<1>2. SameLoaded
  BY DEF registryVars, SameLoaded, tableVars
<1>3. BindingOK' /\ GroupsOK' /\ FeesOK' /\ ListedEventsOK' /\ ListedOK'
  BY <1>1, <1>2, SameTables, SameListed
<1>4. SourceOK' /\ TablesOK' /\ FileKnown'
  <2>1. SourceOK /\ TablesOK /\ FileKnown
    BY DEF LoadInv
  <2>2. SourceOK'
    BY <1>1, <1>2, <2>1, SameTables DEF SourceOK
  <2>3. TablesOK'
    BY <1>1, <1>2, <2>1, SameTables DEF TablesOK, Unread
  <2>4. FileKnown'
    BY <1>1, <2>1 DEF FileKnown
  <2> QED  BY <2>2, <2>3, <2>4
<1>5. ReadingOK' /\ PartitionsOK'
  <2>1. ReadingOK /\ PartitionsOK
    BY DEF LoadInv
  <2>2. PartitionsOK'
    BY <1>1, <1>2, <2>1, SameTables DEF PartitionsOK
  <2>3. ReadingOK'
    BY <1>1, <1>2, <2>1, SameTables DEF ReadingOK, Reading, Entry, Unread
  <2> QED  BY <2>2, <2>3
<1>6. NoCatalogueYet'
  BY <1>1 DEF LoadInv, NoCatalogueYet
<1> QED  BY <1>3, <1>4, <1>5, <1>6 DEF LoadInv

LEMMA LoadMovesPhase ==
    ASSUME LoadInv, MovesPhase
    PROVE  LoadInv'
<1>1. /\ source' = source /\ origin' = origin /\ catalogue' = catalogue
      /\ cursor' = cursor /\ interned' = interned /\ tickers' = tickers /\ events' = events
      /\ binding' = binding /\ groups' = groups
  BY DEF MovesPhase, tableVars
<1>2. SameLoaded
  BY DEF MovesPhase, SameLoaded
<1>3. /\ phase' \in {"refused", "check", "polymarket", "ready", "trading"}
      /\ phase' = "check" => source.from = "file"
      /\ phase' = "polymarket" => phase = "check" /\ ~Overlap(Partitions)
      /\ phase' = "ready" => phase = "polymarket"
      /\ phase' = "trading" => phase = "ready"
  BY DEF MovesPhase
<1>4. ~Unread'
  BY <1>3 DEF Unread
<1>5. BindingOK' /\ GroupsOK' /\ FeesOK'
  BY <1>2, SameTables
<1>6. ListedEventsOK' /\ ListedOK'
  BY <1>2, <1>3, SameListed
<1>7. SourceOK' /\ TablesOK' /\ FileKnown'
  <2>1. SourceOK /\ TablesOK
    BY DEF LoadInv
  <2>2. SourceOK'
    BY <1>1, <1>3, <2>1 DEF SourceOK
  <2>3. TablesOK'
    BY <1>1, <1>2, <1>3, <1>4, <2>1, SameTables DEF TablesOK
  <2>4. FileKnown'
    BY <1>3 DEF FileKnown
  <2> QED  BY <2>2, <2>3, <2>4
<1>8. ReadingOK'
  <2>1. cursor \in [event : Nat, group : Nat] /\ (OfListing => AtTheStart)
    BY DEF LoadInv, ReadingOK
  <2>2. phase' # "groups"
    BY <1>3
  <2>3. OfListing' = OfListing /\ AtTheStart' = AtTheStart
    BY <1>2, SameTables
  <2> QED  BY <1>1, <1>4, <2>1, <2>2, <2>3 DEF ReadingOK
<1>9. PartitionsOK'
  <2>1. PartitionsOK
    BY DEF LoadInv
  <2> QED  BY <1>2, <1>3, <2>1, SameTables DEF PartitionsOK
<1>10. NoCatalogueYet'
  <2>1. NoCatalogueYet
    BY DEF LoadInv
  <2>2. phase' \notin {"ready", "trading", "refused"} => phase \notin {"ready", "trading", "refused"}
    BY DEF MovesPhase
  <2> QED  BY <1>1, <2>1, <2>2 DEF NoCatalogueYet
<1> QED  BY <1>5, <1>6, <1>7, <1>8, <1>9, <1>10 DEF LoadInv

(* Bindings and events are added and never changed, so that a group stays  *)
(* under its event.                                                        *)
LEMMA StaysUnderOneEvent ==
    ASSUME NEW g, NEW b, NEW c, NEW es, NEW fs, UnderOneEvent(g, b, es),
           \A x \in DOMAIN b : x \in DOMAIN c /\ c[x] = b[x],
           \A e \in DOMAIN es : e \in DOMAIN fs /\ fs[e] = es[e]
    PROVE  UnderOneEvent(g, c, fs)
BY DEF UnderOneEvent

LEMMA InternOrderIs ==
    ASSUME NEW file \in Files
    PROVE  /\ InternOrder(file) \in Seq(Contract) /\ IsInjective(InternOrder(file))
           /\ \A e \in DOMAIN file.events : \A x \in DOMAIN file.events[e].groups :
                \A i \in DOMAIN file.events[e].groups[x].members :
                    \E k \in DOMAIN InternOrder(file) :
                        InternOrder(file)[k] = file.events[e].groups[x].members[i].contract
<1> DEFINE K == FirstMentions(file, "Kalshi")
           P == FirstMentions(file, "Polymarket")
           m == Mentions(file)
           o == K \o P
<1>1. "Kalshi" \in Venue /\ "Polymarket" \in Venue
  BY DEF Venue
<1>2. /\ K \in Seq(Contract) /\ IsInjective(K) /\ \A k \in DOMAIN K : K[k].venue = "Kalshi"
      /\ \A i \in DOMAIN m : m[i].contract.venue = "Kalshi" => \E k \in DOMAIN K : K[k] = m[i].contract
  BY <1>1, FirstMentionsAre
<1>3. /\ P \in Seq(Contract) /\ IsInjective(P) /\ \A k \in DOMAIN P : P[k].venue = "Polymarket"
      /\ \A i \in DOMAIN m : m[i].contract.venue = "Polymarket" => \E k \in DOMAIN P : P[k] = m[i].contract
  BY <1>1, FirstMentionsAre
<1>4. InternOrder(file) = o
  BY DEF InternOrder
<1>5. m \in Seq(FileMember)
  BY MentionsAre
<1> HIDE DEF K, P, m
<1>6. o \in Seq(Contract)
  BY <1>2, <1>3
<1>7. /\ \A k \in DOMAIN K : k \in DOMAIN o /\ o[k] = K[k]
      /\ \A k \in DOMAIN P : Len(K) + k \in DOMAIN o /\ o[Len(K) + k] = P[k]
  BY <1>2, <1>3
<1>8. ASSUME NEW a \in DOMAIN o, NEW b \in DOMAIN o, o[a] = o[b]
      PROVE  a = b
  <2>0. /\ Len(K) \in Nat /\ DOMAIN K = 1 .. Len(K) /\ Len(P) \in Nat /\ DOMAIN P = 1 .. Len(P)
        /\ DOMAIN o = 1 .. Len(K) + Len(P)
    BY <1>2, <1>3
  <2>1. \A x \in DOMAIN o : \/ x \in DOMAIN K /\ o[x] = K[x]
                            \/ x - Len(K) \in DOMAIN P /\ o[x] = P[x - Len(K)]
    BY <1>2, <1>3, <2>0
  <2>2. CASE a \in DOMAIN K /\ o[a] = K[a]
    <3>1. b \in DOMAIN K /\ o[b] = K[b]
      BY <1>2, <1>3, <1>8, <2>1, <2>2
    <3> QED  BY <1>2, <1>8, <2>2, <3>1 DEF IsInjective
  <2>3. CASE a - Len(K) \in DOMAIN P /\ o[a] = P[a - Len(K)]
    <3>1. b - Len(K) \in DOMAIN P /\ o[b] = P[b - Len(K)]
      BY <1>2, <1>3, <1>8, <2>1, <2>3
    <3>2. a - Len(K) = b - Len(K)
      BY <1>3, <1>8, <2>3, <3>1 DEF IsInjective
    <3>3. a \in Int /\ b \in Int /\ Len(K) \in Int
      BY <2>0
    <3> QED  BY <3>2, <3>3
  <2> QED  BY <2>1, <2>2, <2>3
<1>9. IsInjective(o)
  BY <1>8 DEF IsInjective
<1>10. ASSUME NEW e \in DOMAIN file.events, NEW x \in DOMAIN file.events[e].groups,
              NEW i \in DOMAIN file.events[e].groups[x].members
       PROVE  \E k \in DOMAIN o : o[k] = file.events[e].groups[x].members[i].contract
  <2>1. PICK p \in DOMAIN m : m[p] = file.events[e].groups[x].members[i]
    BY MentionsAre DEF m
  <2>2. m[p].contract.venue \in Venue
    <3>1. m[p] \in FileMember
      BY <1>5, <2>1
    <3>2. m[p].contract \in Contract
      BY <3>1 DEF FileMember
    <3> QED  BY <3>2 DEF Contract
  <2>3. CASE m[p].contract.venue = "Kalshi"
    <3>1. PICK k \in DOMAIN K : K[k] = m[p].contract
      BY <1>2, <2>1, <2>3
    <3> QED  BY <1>7, <2>1, <3>1
  <2>4. CASE m[p].contract.venue = "Polymarket"
    <3>1. PICK k \in DOMAIN P : P[k] = m[p].contract
      BY <1>3, <2>1, <2>4
    <3> QED  BY <1>7, <2>1, <3>1
  <2> QED  BY <2>2, <2>3, <2>4 DEF Venue
<1> HIDE DEF o
<1> QED  BY <1>4, <1>6, <1>9, <1>10

LEMMA EmptyRegistered ==
    ASSUME NEW list, NEW names, list = <<>> \/ names = <<>>
    PROVE  Registered(list, names) = <<>>
<1>1. {i \in DOMAIN names : \E k \in DOMAIN list : names[i] = TokenOf(list[k])} = {}
  OBVIOUS
<1> QED  BY <1>1 DEF Registered

LEMMA LoadInternFile ==
    ASSUME LoadInv, InternFile
    PROVE  LoadInv'
<1>1. /\ phase = "intern" /\ phase' = "groups" /\ interned' = InternOrder(source)
      /\ tickers' = [v \in Venue |-> FirstMentions(source, v)]
      /\ source' = source /\ origin' = origin /\ catalogue' = catalogue /\ cursor' = cursor
      /\ events' = events /\ binding' = binding /\ groups' = groups /\ feeTable' = feeTable
  BY DEF InternFile
<1>2. /\ source.from = "file" /\ source \in Files /\ Unread /\ interned = <<>> /\ binding = <<>>
      /\ groups = <<>> /\ events = <<>> /\ AtTheStart /\ feeTable = Registered(catalogue, interned)
      /\ catalogue = <<>>
  <2>1. SourceOK /\ TablesOK /\ ReadingOK /\ FeesOK /\ NoCatalogueYet
    BY DEF LoadInv
  <2>2. source.from = "file"
    BY <1>1, <2>1 DEF SourceOK
  <2>3. source \in Files
    BY <2>1, <2>2 DEF SourceOK, KalshiListings
  <2>4. Unread
    BY <1>1 DEF Unread
  <2>5. interned = <<>> /\ binding = <<>> /\ groups = <<>> /\ events = <<>>
    BY <1>1, <2>1, <2>4 DEF TablesOK
  <2>6. AtTheStart /\ catalogue = <<>> /\ feeTable = Registered(catalogue, interned)
    BY <1>1, <2>1, <2>4 DEF ReadingOK, FeesOK, NoCatalogueYet
  <2> QED  BY <2>2, <2>3, <2>4, <2>5, <2>6
<1>3. ~OfListing' /\ ~Unread' /\ AtTheStart'
  BY <1>1, <1>2 DEF OfListing, Unread, AtTheStart
<1>4. SourceOK'
  BY <1>1, <1>2 DEF LoadInv, SourceOK
<1>5. TablesOK'
  <2>1. \A v \in Venue : /\ FirstMentions(source, v) \in Seq(Contract)
                         /\ \A k \in DOMAIN FirstMentions(source, v) : FirstMentions(source, v)[k].venue = v
    BY <1>2, FirstMentionsAre
  <2>2. tickers' \in [Venue -> Seq(Contract)] /\ \A v \in Venue : tickers'[v] = FirstMentions(source, v)
    BY <1>1, <2>1
  <2>3. \A v \in Venue : \A i \in DOMAIN tickers'[v] : tickers'[v][i].venue = v
    BY <2>1, <2>2
  <2>4. interned' = StoreOrder'
    BY <1>1, <2>2 DEF StoreOrder, InternOrder, Venue
  <2>5. interned' \in Seq(Contract) /\ IsInjective(interned')
    BY <1>1, <1>2, InternOrderIs
  <2> QED  BY <1>1, <1>3, <2>2, <2>3, <2>4, <2>5 DEF TablesOK
<1>6. FileKnown'
  BY <1>1, <1>2, InternOrderIs DEF FileKnown
<1>7. BindingOK'
  BY <1>1, <1>2 DEF BindingOK
<1>8. ListedEventsOK' /\ ListedOK' /\ PartitionsOK'
  BY <1>1, <1>3 DEF ListedEventsOK, ListedOK, PartitionsOK
<1>9. GroupsOK'
  BY <1>1, <1>2 DEF GroupsOK
<1>10. ReadingOK'
  <2>1. cursor.event = 1 /\ cursor.group = 0 /\ cursor \in [event : Nat, group : Nat]
    BY <1>2 DEF AtTheStart
  <2>2. source.events \in Seq(FileEvent)
    BY <1>2 DEF Files
  <2>3. 1 \in 1 .. Len(source.events) + 1 /\ Len(events) = 1 - 1
    BY <1>2, <2>2
  <2> QED  BY <1>1, <1>3, <2>1, <2>3 DEF ReadingOK
<1>11. FeesOK'
  <2>1. feeTable = <<>> /\ catalogue \in Seq(GammaMarket)
    BY <1>2, EmptyRegistered
  <2>2. Registered(catalogue, InternOrder(source)) = <<>>
    BY <1>2, EmptyRegistered
  <2> QED  BY <1>1, <2>1, <2>2 DEF FeesOK
<1>12. NoCatalogueYet'
  BY <1>1, <1>2 DEF NoCatalogueYet
<1> QED  BY <1>12, <1>4, <1>5, <1>6, <1>7, <1>8, <1>9, <1>10, <1>11 DEF LoadInv

(* Where a file is read: the entry the cursor is at.                       *)
LEMMA EntryIs ==
    ASSUME LoadInv, Reading
    PROVE  /\ phase = "groups" /\ source.from = "file" /\ source \in Files
           /\ cursor.event \in Nat /\ cursor.event >= 1 /\ cursor.event <= Len(source.events)
           /\ cursor.event \in DOMAIN source.events /\ cursor.group \in Nat
           /\ Len(source.events) \in Nat
           /\ Entry = source.events[cursor.event] /\ Entry \in FileEvent
           /\ Entry.groups \in Seq(FileGroup) /\ Len(Entry.groups) \in Nat
           /\ \A x \in DOMAIN Entry.groups : Entry.groups[x] \in FileGroup
           /\ cursor = [event |-> cursor.event, group |-> cursor.group]
<1>1. phase = "groups" /\ source.from = "file" /\ cursor.event <= Len(source.events)
  BY DEF Reading
<1>2. source \in Files
  BY <1>1 DEF LoadInv, SourceOK, KalshiListings
<1>3. source.events \in Seq(FileEvent) /\ Len(source.events) \in Nat
  BY <1>2 DEF Files
<1>4. cursor \in [event : Nat, group : Nat] /\ cursor.event \in 1 .. Len(source.events) + 1
  BY <1>1 DEF LoadInv, ReadingOK
<1>5. /\ cursor.event \in Nat /\ cursor.event >= 1 /\ cursor.group \in Nat
      /\ cursor = [event |-> cursor.event, group |-> cursor.group]
  BY <1>3, <1>4
<1>6. cursor.event \in DOMAIN source.events
  BY <1>1, <1>3, <1>5
<1>7. Entry = source.events[cursor.event]
  BY DEF Entry
<1>8. Entry \in FileEvent
  <2>1. source.events[cursor.event] \in FileEvent
    BY <1>3, <1>6
  <2> QED  BY <1>7, <2>1
<1>9. Entry.groups \in Seq(FileGroup)
  <2> HIDE DEF Entry
  <2> QED  BY <1>8 DEF FileEvent
<1>10. Len(Entry.groups) \in Nat /\ \A x \in DOMAIN Entry.groups : Entry.groups[x] \in FileGroup
  <2> DEFINE gs == Entry.groups
  <2>1. gs \in Seq(FileGroup)
    BY <1>9
  <2> HIDE DEF gs
  <2>2. Len(gs) \in Nat /\ \A x \in DOMAIN gs : gs[x] \in FileGroup
    BY <2>1
  <2> QED  BY <2>2 DEF gs
<1> QED  BY <1>1, <1>2, <1>3, <1>5, <1>6, <1>7, <1>8, <1>9, <1>10

(* After the event, or a group of it, the cursor is where reading is.      *)
LEMMA AdvanceIs ==
    ASSUME LoadInv, Reading, Advance, source' = source, phase' = phase,
           Len(events') = cursor.event, events'[Len(events')].resolves = Entry.resolves
    PROVE  ReadingOK'
<1>1. /\ phase = "groups" /\ source.from = "file"
      /\ cursor.event \in Nat /\ cursor.event >= 1 /\ cursor.event <= Len(source.events)
      /\ cursor.group \in Nat /\ Len(source.events) \in Nat
      /\ Entry.groups \in Seq(FileGroup) /\ Len(Entry.groups) \in Nat
      /\ cursor = [event |-> cursor.event, group |-> cursor.group]
      /\ Entry = source.events[cursor.event]
  BY EntryIs
<1>2. ~OfListing' /\ ~Unread'
  BY <1>1 DEF OfListing, Unread
<1>3. CASE cursor.group < Len(Entry.groups)
  <2>1. cursor' = [cursor EXCEPT !.group = @ + 1]
    BY <1>3 DEF Advance
  <2>2. cursor'.event = cursor.event /\ cursor'.group = cursor.group + 1 /\ cursor' \in [event : Nat, group : Nat]
    <3>1. cursor' = [event |-> cursor.event, group |-> cursor.group + 1]
      BY <1>1, <2>1
    <3> QED  BY <1>1, <3>1
  <2>3. Entry' = Entry
    BY <1>1, <2>2 DEF Entry
  <2>4. Reading'
    BY <1>1, <2>2 DEF Reading
  <2>5. cursor'.group \in DOMAIN Entry.groups
    <3>1. DOMAIN Entry.groups = 1 .. Len(Entry.groups)
      BY <1>1
    <3>2. cursor.group + 1 \in 1 .. Len(Entry.groups)
      BY <1>1, <1>3
    <3> QED  BY <2>2, <3>1, <3>2
  <2>6. cursor'.event \in 1 .. Len(source.events) + 1 /\ cursor'.group > 0 /\ cursor'.group # 0
    BY <1>1, <2>2
  <2> QED  BY <1>1, <1>2, <2>2, <2>3, <2>4, <2>5, <2>6 DEF ReadingOK
<1>4. CASE ~(cursor.group < Len(Entry.groups))
  <2>1. cursor' = [event |-> cursor.event + 1, group |-> 0]
    BY <1>4 DEF Advance
  <2>2. cursor'.event = cursor.event + 1 /\ cursor'.group = 0 /\ cursor' \in [event : Nat, group : Nat]
    BY <1>1, <2>1
  <2>3. cursor'.event \in 1 .. Len(source.events) + 1 /\ Len(events') = cursor'.event - 1
    BY <1>1, <2>2
  <2> QED  BY <1>1, <1>2, <2>2, <2>3 DEF ReadingOK
<1> QED  BY <1>3, <1>4

LEMMA LoadAddEvent ==
    ASSUME LoadInv, AddEvent
    PROVE  LoadInv'
<1>1. /\ Reading /\ cursor.group = 0 /\ Entry.resolves # NoTime /\ Advance
      /\ events' = Append(events, [key |-> Entry.id, resolves |-> Entry.resolves])
      /\ source' = source /\ origin' = origin /\ catalogue' = catalogue /\ phase' = phase
      /\ interned' = interned /\ tickers' = tickers /\ binding' = binding /\ groups' = groups
      /\ feeTable' = feeTable
  BY DEF AddEvent, AtEvent
<1>2. /\ phase = "groups" /\ source.from = "file" /\ cursor.event \in Nat /\ Entry \in FileEvent
  BY <1>1, EntryIs
<1>3. /\ SourceOK /\ TablesOK /\ FileKnown /\ BindingOK /\ GroupsOK /\ ReadingOK /\ FeesOK
      /\ NoCatalogueYet
  BY DEF LoadInv
<1>4. ~OfListing' /\ ~Unread'
  BY <1>1, <1>2 DEF OfListing, Unread
<1> DEFINE new == [key |-> Entry.id, resolves |-> Entry.resolves]
           E == [key : Int, resolves : Int]
<1>5. new \in E /\ new.resolves = Entry.resolves
  <2>1. Entry.id \in Int /\ Entry.resolves \in Time
    BY <1>2 DEF FileEvent
  <2>2. Entry.resolves \in Int
    BY <1>1, <2>1 DEF Time
  <2> QED  BY <2>1, <2>2
<1>6. events \in Seq(E) /\ Len(events) = cursor.event - 1
  BY <1>1, <1>2, <1>3 DEF BindingOK, ReadingOK
<1>7. /\ events' \in Seq(E) /\ Len(events') = cursor.event /\ events'[Len(events')].resolves = Entry.resolves
      /\ \A e \in DOMAIN events : e \in DOMAIN events' /\ events'[e] = events[e]
  <2> HIDE DEF new, E
  <2>1. events' = Append(events, new)
    BY <1>1 DEF new
  <2>2. events' \in Seq(E) /\ Len(events') = Len(events) + 1 /\ events'[Len(events) + 1] = new
        /\ \A e \in DOMAIN events : e \in DOMAIN events' /\ events'[e] = events[e]
    BY <1>5, <1>6, <2>1
  <2>3. Len(events) + 1 = cursor.event
    BY <1>2, <1>6
  <2> QED  BY <1>5, <2>2, <2>3
<1>8. SourceOK' /\ FileKnown' /\ NoCatalogueYet' /\ FeesOK'
  BY <1>1, <1>2, <1>3 DEF SourceOK, FileKnown, NoCatalogueYet, FeesOK, OfListing
<1>9. TablesOK'
  <2>1. StoreOrder' = StoreOrder
    BY <1>1 DEF StoreOrder
  <2>2. phase' \notin {"intern", "events"}
    BY <1>1, <1>2
  <2> QED  BY <1>1, <1>3, <1>4, <2>1, <2>2 DEF TablesOK
<1>10. BindingOK'
  BY <1>1, <1>3, <1>7 DEF BindingOK
<1>11. ListedEventsOK' /\ ListedOK' /\ PartitionsOK'
  BY <1>1, <1>2, <1>4 DEF ListedEventsOK, ListedOK, PartitionsOK
<1>12. GroupsOK'
  <2>1. ASSUME NEW g \in DOMAIN groups
        PROVE  UnderOneEvent(groups[g], binding, events')
    <3>1. UnderOneEvent(groups[g], binding, events)
      BY <1>3 DEF GroupsOK
    <3> QED  BY <1>7, <3>1, StaysUnderOneEvent
  <2> QED  BY <1>1, <1>3, <2>1 DEF GroupsOK
<1>13. ReadingOK'
  BY <1>1, <1>7, AdvanceIs
<1> QED  BY <1>8, <1>9, <1>10, <1>11, <1>12, <1>13 DEF LoadInv

(* What the members of an entry are to the registry.                       *)
LEMMA EntryIdsAre ==
    ASSUME LoadInv, Reading, NEW x \in DOMAIN Entry.groups
    PROVE  LET ids == EntryIds(Entry.groups[x])
           IN  /\ ids \in Seq(Nat) /\ DOMAIN ids = DOMAIN Entry.groups[x].members
               /\ \A i \in DOMAIN ids : /\ ids[i] \in DOMAIN interned
                                        /\ interned[ids[i]] = Entry.groups[x].members[i].contract
<1> DEFINE g == Entry.groups[x]
           m == g.members
           ids == EntryIds(g)
<1>1. /\ phase = "groups" /\ source.from = "file" /\ g \in FileGroup
      /\ cursor.event \in DOMAIN source.events /\ Entry = source.events[cursor.event]
  BY EntryIs
<1>2. m \in Seq(FileMember)
  <2> HIDE DEF g
  <2> QED  BY <1>1 DEF FileGroup
<1>3. Len(m) \in Nat /\ DOMAIN m = 1 .. Len(m)
  BY <1>2
<1>4. interned \in Seq(Contract) /\ DOMAIN interned \subseteq Nat
  <2>1. interned \in Seq(Contract)
    BY DEF LoadInv, TablesOK
  <2> QED  BY <2>1
<1>5. ASSUME NEW i \in DOMAIN m
      PROVE  IdOf(m[i].contract) \in DOMAIN interned /\ interned[IdOf(m[i].contract)] = m[i].contract
  <2>1. FileKnown
    BY DEF LoadInv
  <2>2. PICK k \in DOMAIN interned :
            interned[k] = source.events[cursor.event].groups[x].members[i].contract
    BY <1>1, <2>1 DEF FileKnown
  <2>3. interned[k] = m[i].contract
    BY <1>1, <2>2
  <2> HIDE DEF m
  <2> QED  BY <2>3 DEF IdOf
<1>6. ids = [i \in DOMAIN m |-> IdOf(m[i].contract)]
  BY DEF EntryIds
<1> HIDE DEF m
<1>7. DOMAIN ids = DOMAIN m /\ \A i \in DOMAIN m : ids[i] = IdOf(m[i].contract)
  BY <1>6
<1>8. ids \in Seq(Nat)
  <2> DEFINE n == Len(m)
  <2>1. n \in Nat /\ ids = [i \in 1 .. n |-> ids[i]] /\ \A i \in 1 .. n : ids[i] \in Nat
    BY <1>3, <1>4, <1>5, <1>6
  <2> HIDE DEF ids, n
  <2> QED  BY <2>1
<1> HIDE DEF ids, g
<1>9. /\ ids \in Seq(Nat) /\ DOMAIN ids = DOMAIN g.members
      /\ \A i \in DOMAIN ids : ids[i] \in DOMAIN interned /\ interned[ids[i]] = g.members[i].contract
  BY <1>5, <1>7, <1>8 DEF m
<1> QED  BY <1>9 DEF ids, g

(* A sound shape makes a relation.                                         *)
LEMMA ShapeIs ==
    ASSUME NEW kind \in Kind, NEW ids \in Seq(Nat), GoodArity(kind, ids), GoodShape(kind, ids),
           NEW verified, NEW resolves, NEW inferred
    PROVE  WellShaped(GroupOf(kind, ids, verified, resolves, inferred))
<1> DEFINE g == GroupOf(kind, ids, verified, resolves, inferred)
<1>1. g.kind = kind /\ g.members = ids
  BY DEF GroupOf
<1>2. /\ kind = "complement" => Len(ids) = 1
      /\ kind \in {"implies", "equivalent"} => Len(ids) = 2
      /\ Len(ids) >= 2 \/ kind = "complement"
      /\ IsInjective(ids)
  BY DEF GoodArity, GoodShape
<1>3. kind \in {"exhaustive", "monotone"} => Len(ids) >= 2
  BY <1>2
<1> HIDE DEF g
<1>4. WellShaped(g)
  BY <1>1, <1>2, <1>3 DEF WellShaped
<1> QED  BY <1>4 DEF g

LEMMA LoadAddGroup ==
    ASSUME LoadInv, AddGroup
    PROVE  LoadInv'
<1> DEFINE fg  == Entry.groups[cursor.group]
           ids == EntryIds(fg)
           new == GroupOf(fg.kind, ids, fg.verified # "no", Entry.resolves, FALSE)
<1>1. /\ Reading /\ cursor.group > 0 /\ Advance /\ GoodEntry(fg, ids)
      /\ binding' = Bind(ids) /\ groups' = Append(groups, new)
      /\ source' = source /\ origin' = origin /\ catalogue' = catalogue /\ phase' = phase
      /\ interned' = interned /\ tickers' = tickers /\ events' = events /\ feeTable' = feeTable
  BY DEF AddGroup, AtGroup
<1>2. /\ phase = "groups" /\ source.from = "file" /\ cursor.event \in Nat /\ cursor.event >= 1
      /\ \A x \in DOMAIN Entry.groups : Entry.groups[x] \in FileGroup
  BY <1>1, EntryIs
<1>3. /\ SourceOK /\ TablesOK /\ FileKnown /\ BindingOK /\ GroupsOK /\ ReadingOK /\ FeesOK
      /\ NoCatalogueYet
  BY DEF LoadInv
<1>4. ~OfListing' /\ ~Unread'
  BY <1>1, <1>2 DEF OfListing, Unread
<1>5. /\ Len(events) = cursor.event /\ cursor.group \in DOMAIN Entry.groups
      /\ events[Len(events)].resolves = Entry.resolves
  BY <1>1, <1>2, <1>3 DEF ReadingOK
<1>6. fg \in FileGroup /\ fg.kind \in Kind
  <2>1. fg \in FileGroup
    BY <1>2, <1>5
  <2> HIDE DEF fg
  <2> QED  BY <2>1 DEF FileGroup
<1>7. /\ ids \in Seq(Nat)
      /\ \A i \in DOMAIN ids : ids[i] \in DOMAIN interned
  BY <1>1, <1>5, EntryIdsAre
<1>8. Len(events) \in DOMAIN events
  <2>1. events \in Seq([key : Int, resolves : Int])
    BY <1>3 DEF BindingOK
  <2> QED  BY <1>2, <1>5, <2>1
<1> HIDE DEF fg, ids
<1>9. /\ BoundHere(ids) /\ GoodArity(fg.kind, ids) /\ GoodShape(fg.kind, ids)
  BY <1>1 DEF GoodEntry
<1>10. /\ DOMAIN binding' = DOMAIN binding \cup ToSet(ids)
       /\ \A c \in DOMAIN binding : c \in DOMAIN binding' /\ binding'[c] = binding[c]
       /\ \A c \in ToSet(ids) : c \in DOMAIN binding'
       /\ \A c \in ToSet(ids) : c \notin DOMAIN binding =>
              binding'[c] = [contract |-> interned[c], event |-> Len(events)]
  BY <1>1 DEF Bind
<1>11. ASSUME NEW i \in DOMAIN ids
       PROVE  ids[i] \in DOMAIN binding' /\ binding'[ids[i]].event = Len(events)
  <2>1. ids[i] \in ToSet(ids)
    BY DEF ToSet
  <2>2. CASE ids[i] \in DOMAIN binding
    BY <1>9, <1>10, <2>2 DEF BoundHere
  <2>3. CASE ids[i] \notin DOMAIN binding
    BY <1>10, <2>1, <2>3
  <2> QED  BY <2>2, <2>3
<1>12. SourceOK' /\ FileKnown' /\ NoCatalogueYet' /\ FeesOK'
  BY <1>1, <1>2, <1>3 DEF SourceOK, FileKnown, NoCatalogueYet, FeesOK, OfListing
<1>13. TablesOK'
  <2>1. StoreOrder' = StoreOrder
    BY <1>1 DEF StoreOrder
  <2>2. phase' \notin {"intern", "events"}
    BY <1>1, <1>2
  <2> QED  BY <1>1, <1>3, <1>4, <2>1, <2>2 DEF TablesOK
<1>14. BindingOK'
  <2>1. ASSUME NEW c \in DOMAIN binding'
        PROVE  c \in DOMAIN interned /\ binding'[c].contract = interned[c] /\ binding'[c].event \in DOMAIN events
    <3>1. CASE c \in DOMAIN binding
      BY <1>3, <1>10, <3>1 DEF BindingOK
    <3>2. CASE c \notin DOMAIN binding
      <4>1. c \in ToSet(ids)
        BY <1>10, <2>1, <3>2
      <4>2. c \in DOMAIN interned
        BY <1>7, <4>1 DEF ToSet
      <4> QED  BY <1>8, <1>10, <3>2, <4>1, <4>2
    <3> QED  BY <3>1, <3>2
  <2> QED  BY <1>1, <1>3, <2>1 DEF BindingOK
<1>15. ListedEventsOK' /\ ListedOK' /\ PartitionsOK'
  BY <1>1, <1>2, <1>4 DEF ListedEventsOK, ListedOK, PartitionsOK
<1>16. UnderOneEvent(new, binding', events)
  <2>1. WellShaped(new)
    BY <1>6, <1>7, <1>9, ShapeIs
  <2>2. new.members = ids /\ new.resolves = Entry.resolves
    BY DEF GroupOf
  <2> HIDE DEF new
  <2> QED  BY <1>5, <1>8, <1>11, <2>1, <2>2 DEF UnderOneEvent
<1>17. GroupsOK'
  <2>1. ASSUME NEW g \in DOMAIN groups
        PROVE  UnderOneEvent(groups[g], binding', events)
    <3>1. UnderOneEvent(groups[g], binding, events)
      BY <1>3 DEF GroupsOK
    <3>2. \A e \in DOMAIN events : e \in DOMAIN events /\ events[e] = events[e]
      OBVIOUS
    <3> QED  BY <1>10, <3>1, <3>2, StaysUnderOneEvent
  <2>2. PICK n \in Nat : DOMAIN groups = 1 .. n
    BY <1>3 DEF GroupsOK
  <2> HIDE DEF new
  <2>3. /\ DOMAIN groups' = 1 .. n + 1 /\ groups'[n + 1] = new
        /\ \A g \in 1 .. n : groups'[g] = groups[g]
    <3>1. Len(groups) = n
      BY <2>2
    <3> QED  BY <1>1, <2>2, <3>1
  <2>4. ASSUME NEW g \in DOMAIN groups'
        PROVE  UnderOneEvent(groups'[g], binding', events')
    <3>1. g \in 1 .. n \/ g = n + 1
      BY <2>3
    <3> QED  BY <1>1, <1>16, <2>1, <2>2, <2>3, <3>1
  <2>5. n + 1 \in Nat
    OBVIOUS
  <2> QED  BY <2>3, <2>4, <2>5 DEF GroupsOK
<1>18. ReadingOK'
  BY <1>1, <1>5, AdvanceIs
<1> QED  BY <1>12, <1>13, <1>14, <1>15, <1>17, <1>18 DEF LoadInv

LEMMA LoadAddListedEvents ==
    ASSUME LoadInv, AddListedEvents
    PROVE  LoadInv'
<1> DEFINE E == [key : Int, resolves : Int]
           es == [i \in DOMAIN Timed |->
                     [key |-> Timed[i].key, resolves |-> Min(Closes(Timed[i].key))]]
<1>1. /\ phase = "events" /\ phase' = "markets" /\ events' = es
      /\ IsInjective([i \in DOMAIN Timed |-> Timed[i].key])
      /\ source' = source /\ origin' = origin /\ catalogue' = catalogue /\ cursor' = cursor
      /\ interned' = interned /\ tickers' = tickers /\ binding' = binding /\ groups' = groups
      /\ feeTable' = feeTable
  BY DEF AddListedEvents
<1>2. /\ SourceOK /\ TablesOK /\ BindingOK /\ ReadingOK /\ FeesOK /\ NoCatalogueYet
  BY DEF LoadInv
<1>3. Unread /\ Unread' /\ OfListing
  BY <1>1, <1>2 DEF Unread, SourceOK
<1>4. source \in KalshiListings
  BY <1>2, <1>3 DEF OfListing, SourceOK, Files
<1>5. /\ interned = <<>> /\ tickers = [v \in Venue |-> <<>>] /\ binding = <<>> /\ groups = <<>>
      /\ AtTheStart
  BY <1>2, <1>3 DEF TablesOK, ReadingOK
<1>6. /\ Timed \in Seq(KalshiEvent)
      /\ \A k \in DOMAIN Timed : \E i \in DOMAIN source.events :
            Timed[k] = source.events[i] /\ Closes(source.events[i].key) # {}
      /\ \A i, j \in DOMAIN source.events :
            source.events[i].key = source.events[j].key /\ Closes(source.events[i].key) # {} => i = j
  BY <1>1, <1>4, TimedIs
<1>7. ASSUME NEW k \in DOMAIN Timed
      PROVE  /\ Timed[k].key \in Int /\ Closes(Timed[k].key) # {} /\ Min(Closes(Timed[k].key)) \in Int
             /\ es[k].key = Timed[k].key /\ es[k].resolves = Min(Closes(Timed[k].key)) /\ es[k] \in E
  <2>1. PICK i \in DOMAIN source.events :
            Timed[k] = source.events[i] /\ Closes(source.events[i].key) # {}
    BY <1>6
  <2>2. Timed[k].key \in Int /\ Closes(Timed[k].key) # {}
    BY <1>4, <2>1, ListingIs
  <2>3. Min(Closes(Timed[k].key)) \in Int
    BY <1>4, <2>2, ClosesAre
  <2> QED  BY <2>2, <2>3
<1>8. DOMAIN es = DOMAIN Timed /\ es \in Seq(E)
  <2> DEFINE n == Len(Timed)
  <2>1. n \in Nat /\ DOMAIN Timed = 1 .. n
    BY <1>6
  <2>2. DOMAIN es = DOMAIN Timed
    OBVIOUS
  <2>3. es = [i \in 1 .. n |-> es[i]] /\ \A i \in 1 .. n : es[i] \in E
    BY <1>7, <2>1
  <2> HIDE DEF es, E, n
  <2> QED  BY <2>1, <2>2, <2>3
<1>9. ASSUME NEW i \in DOMAIN es, NEW j \in DOMAIN es, es[i].key = es[j].key
      PROVE  i = j
  <2>1. i \in DOMAIN Timed /\ j \in DOMAIN Timed
    BY <1>8
  <2>2. Timed[i].key = Timed[j].key
    BY <1>7, <1>9, <2>1
  <2> HIDE DEF es
  <2> QED  BY <1>1, <2>1, <2>2 DEF IsInjective
<1>10. /\ Listed' = Listed /\ (\A e : Closes(e)' = Closes(e)) /\ OfListing'
  BY <1>1, <1>3, SameSource
<1>11. ListedEventsOK'
  <2>1. \A i \in DOMAIN es : Closes(es[i].key) # {} /\ es[i].resolves = Min(Closes(es[i].key))
    BY <1>7, <1>8
  <2> HIDE DEF es
  <2> QED  BY <1>1, <1>6, <1>9, <1>10, <2>1 DEF ListedEventsOK
<1> HIDE DEF es
<1>12. SourceOK' /\ NoCatalogueYet' /\ FeesOK'
  <2>1. SourceOK'
    BY <1>1, <1>2, <1>10 DEF SourceOK
  <2>2. NoCatalogueYet' /\ FeesOK'
    BY <1>1, <1>2 DEF NoCatalogueYet, FeesOK
  <2> QED  BY <2>1, <2>2
<1>13. TablesOK'
  <2>1. StoreOrder' = StoreOrder
    BY <1>1 DEF StoreOrder
  <2> QED  BY <1>1, <1>2, <1>5, <2>1 DEF TablesOK
<1>14. FileKnown' /\ ListedOK' /\ PartitionsOK'
  BY <1>1 DEF FileKnown, ListedOK, PartitionsOK
<1>15. BindingOK' /\ GroupsOK'
  <2>1. binding' = <<>> /\ DOMAIN binding' = {} /\ DOMAIN groups' = {} /\ DOMAIN groups' = 1 .. 0
    BY <1>1, <1>5
  <2>2. events' \in Seq(E)
    BY <1>1, <1>8
  <2>3. BindingOK'
    BY <2>1, <2>2 DEF BindingOK
  <2>4. 0 \in Nat
    OBVIOUS
  <2>5. GroupsOK'
    BY <2>1, <2>4 DEF GroupsOK
  <2> QED  BY <2>3, <2>5
<1>16. ReadingOK'
  BY <1>1, <1>2, <1>5 DEF ReadingOK, AtTheStart
<1> QED  BY <1>11, <1>12, <1>13, <1>14, <1>15, <1>16 DEF LoadInv

(* An event's number is where its key is.                                  *)
LEMMA EventNamedIs ==
    ASSUME NEW e, KeyTaken(e)
    PROVE  EventNamed(e) \in DOMAIN events /\ events[EventNamed(e)].key = e
BY DEF KeyTaken, EventNamed

(* The markets bound: those of the events kept, each ticker once.          *)
BoundMarkets ==
    FirstOfKey(Kept(Listed, {i \in DOMAIN Listed : KeyTaken(Listed[i].event)}))

LEMMA BoundIs ==
    ASSUME source \in KalshiListings
    PROVE  /\ BoundMarkets \in Seq(KalshiMarket)
           /\ \A k \in DOMAIN BoundMarkets :
                 /\ KeyTaken(BoundMarkets[k].event) /\ BoundMarkets[k].key \in Int
                 /\ \E i \in DOMAIN Listed : BoundMarkets[k] = Listed[i]
           /\ \A k, l \in DOMAIN BoundMarkets : BoundMarkets[k].key = BoundMarkets[l].key => k = l
           /\ \A i \in DOMAIN Listed : KeyTaken(Listed[i].event) =>
                 \E k \in DOMAIN BoundMarkets : BoundMarkets[k].key = Listed[i].key
<1> DEFINE ms == Listed
           at == {i \in DOMAIN ms : KeyTaken(ms[i].event)}
           s  == Kept(ms, at)
           f  == FirstOfKey(s)
<1>1. ms \in Seq(KalshiMarket) /\ at \in SUBSET DOMAIN ms
  BY ListedIs
<1>2. BoundMarkets = f
  BY DEF BoundMarkets
<1>3. /\ \A i \in at : i \in DOMAIN ms /\ KeyTaken(ms[i].event)
      /\ \A i \in DOMAIN ms : KeyTaken(ms[i].event) => i \in at
  OBVIOUS
<1> HIDE DEF ms, at
<1>4. s \in Seq(KalshiMarket) /\ PartOf(s, ms, at)
  BY <1>1, KeptPart
<1> HIDE DEF s
<1>5. /\ f \in Seq(KalshiMarket)
      /\ \A k \in DOMAIN f : \E i \in DOMAIN s : f[k] = s[i]
      /\ \A k, l \in DOMAIN f : f[k].key = f[l].key => k = l
      /\ \A i \in DOMAIN s : \E k \in DOMAIN f : f[k].key = s[i].key
  BY <1>4, FirstOfKeyIs
<1> HIDE DEF f
<1>6. ASSUME NEW k \in DOMAIN f
      PROVE  KeyTaken(f[k].event) /\ f[k].key \in Int /\ \E i \in DOMAIN ms : f[k] = ms[i]
  <2>1. PICK j \in DOMAIN s : f[k] = s[j]
    BY <1>5
  <2>2. PICK i \in at : s[j] = ms[i]
    BY <1>4 DEF PartOf
  <2>3. f[k] \in KalshiMarket
    BY <1>5
  <2> QED  BY <1>3, <2>1, <2>2, <2>3, MarketIs
<1>7. ASSUME NEW i \in DOMAIN ms, KeyTaken(ms[i].event)
      PROVE  \E k \in DOMAIN f : f[k].key = ms[i].key
  <2>1. PICK j \in DOMAIN s : s[j] = ms[i]
    BY <1>3, <1>4, <1>7 DEF PartOf
  <2>2. PICK k \in DOMAIN f : f[k].key = s[j].key
    BY <1>5
  <2> QED  BY <2>1, <2>2
<1> QED  BY <1>2, <1>5, <1>6, <1>7 DEF ms

LEMMA LoadInternListed ==
    ASSUME LoadInv, InternListed
    PROVE  LoadInv'
<1> DEFINE bound == BoundMarkets
           names == [i \in DOMAIN bound |-> KalshiNamed(bound[i].key)]
<1>1. /\ phase = "markets" /\ phase' = "groups" /\ interned' = names
      /\ tickers' = [tickers EXCEPT !["Kalshi"] = interned']
      /\ binding' = [i \in DOMAIN bound |-> [contract |-> interned'[i],
                                             event |-> EventNamed(bound[i].event)]]
      /\ source' = source /\ origin' = origin /\ catalogue' = catalogue /\ cursor' = cursor
      /\ events' = events /\ groups' = groups /\ feeTable' = feeTable
  BY DEF InternListed, BoundMarkets
<1>2. /\ SourceOK /\ TablesOK /\ BindingOK /\ ReadingOK /\ FeesOK /\ NoCatalogueYet /\ ListedEventsOK
  BY DEF LoadInv
<1>3. Unread /\ ~Unread' /\ OfListing
  BY <1>1, <1>2 DEF Unread, SourceOK
<1>4. source \in KalshiListings
  BY <1>2, <1>3 DEF OfListing, SourceOK, Files
<1>5. /\ interned = <<>> /\ tickers = [v \in Venue |-> <<>>] /\ binding = <<>> /\ groups = <<>>
      /\ AtTheStart
  BY <1>2, <1>3 DEF TablesOK, ReadingOK
<1>6. /\ bound \in Seq(KalshiMarket)
      /\ \A k \in DOMAIN bound : /\ KeyTaken(bound[k].event) /\ bound[k].key \in Int
                                 /\ \E i \in DOMAIN Listed : bound[k] = Listed[i]
      /\ \A k, l \in DOMAIN bound : bound[k].key = bound[l].key => k = l
      /\ \A i \in DOMAIN Listed : KeyTaken(Listed[i].event) =>
            \E k \in DOMAIN bound : bound[k].key = Listed[i].key
  BY <1>4, BoundIs
<1>7. /\ Listed' = Listed /\ (\A e : Closes(e)' = Closes(e)) /\ OfListing'
      /\ \A e : KeyTaken(e)' = KeyTaken(e)
  BY <1>1, <1>3, SameSource DEF KeyTaken
<1> HIDE DEF bound
<1>8. /\ DOMAIN names = DOMAIN bound /\ names \in Seq(Contract)
      /\ \A i \in DOMAIN names : /\ names[i].venue = "Kalshi" /\ names[i].key = bound[i].key
                                 /\ names[i] = KalshiNamed(bound[i].key)
  <2> DEFINE n == Len(bound)
  <2>1. n \in Nat /\ DOMAIN bound = 1 .. n
    BY <1>6
  <2>2. \A i \in DOMAIN names : /\ names[i].venue = "Kalshi" /\ names[i].key = bound[i].key
                                /\ names[i] = KalshiNamed(bound[i].key) /\ names[i] \in Contract
    BY <1>6 DEF KalshiNamed, Contract, Venue
  <2>3. DOMAIN names = DOMAIN bound
    OBVIOUS
  <2>4. names = [i \in 1 .. n |-> names[i]]
    BY <2>1
  <2> HIDE DEF names, n
  <2> QED  BY <2>1, <2>2, <2>3, <2>4
<1> HIDE DEF names
<1>9. IsInjective(names)
  BY <1>6, <1>8 DEF IsInjective
<1>10. SourceOK' /\ NoCatalogueYet'
  BY <1>1, <1>2, <1>7 DEF SourceOK, NoCatalogueYet
<1>11. TablesOK'
  <2>1. /\ tickers' \in [Venue -> Seq(Contract)] /\ tickers'["Kalshi"] = names
        /\ tickers'["Polymarket"] = <<>>
    <3>1. tickers' = [v \in Venue |-> IF v = "Kalshi" THEN names ELSE <<>>]
      BY <1>1, <1>5
    <3>2. names \in Seq(Contract) /\ <<>> \in Seq(Contract)
      BY <1>8
    <3> QED  BY <3>1, <3>2 DEF Venue
  <2>2. \A v \in Venue : \A i \in DOMAIN tickers'[v] : tickers'[v][i].venue = v
    BY <1>8, <2>1 DEF Venue
  <2>3. interned' = StoreOrder'
    BY <1>1, <1>8, <2>1 DEF StoreOrder
  <2> QED  BY <1>1, <1>3, <1>8, <1>9, <2>1, <2>2, <2>3 DEF TablesOK
<1>12. FileKnown' /\ PartitionsOK'
  BY <1>1, <1>7 DEF FileKnown, PartitionsOK, OfListing
<1>13. /\ DOMAIN binding' = DOMAIN interned' /\ DOMAIN interned' = DOMAIN bound
       /\ \A c \in DOMAIN bound : /\ binding'[c].contract = interned'[c]
                                  /\ binding'[c].event = EventNamed(bound[c].event)
                                  /\ binding'[c].event \in DOMAIN events
                                  /\ events[binding'[c].event].key = bound[c].event
  BY <1>1, <1>6, <1>8, EventNamedIs
<1>14. BindingOK'
  BY <1>1, <1>2, <1>13 DEF BindingOK
<1>15. GroupsOK'
  BY <1>1, <1>5 DEF GroupsOK
<1>16. ListedEventsOK'
  BY <1>1, <1>2, <1>3, <1>7 DEF ListedEventsOK
<1>17. ListedOK'
  <2>1. ASSUME NEW k \in DOMAIN names
        PROVE  \E i \in DOMAIN Listed : /\ names[k] = KalshiNamed(Listed[i].key) /\ k \in DOMAIN binding'
                                        /\ events[binding'[k].event].key = Listed[i].event
    BY <1>1, <1>6, <1>8, <1>13
  <2>2. ASSUME NEW i \in DOMAIN Listed, KeyTaken(Listed[i].event)
        PROVE  \E k \in DOMAIN names : names[k] = KalshiNamed(Listed[i].key)
    BY <1>6, <1>8, <2>2
  <2> QED  BY <1>1, <1>7, <2>1, <2>2 DEF ListedOK
<1>18. ReadingOK'
  BY <1>1, <1>2, <1>5, <1>7 DEF ReadingOK, AtTheStart, OfListing
<1>19. FeesOK'
  <2>1. catalogue = <<>>
    BY <1>1, <1>2 DEF NoCatalogueYet
  <2>2. feeTable = <<>> /\ Registered(catalogue, names) = <<>>
    BY <1>2, <2>1, EmptyRegistered DEF FeesOK
  <2> QED  BY <1>1, <1>2, <2>2 DEF FeesOK
<1> QED  BY <1>10, <1>11, <1>12, <1>14, <1>15, <1>16, <1>17, <1>18, <1>19 DEF LoadInv

(* The rungs of a ladder, the weakest claim first.                         *)
Rungs(ms) ==
    /\ \E type \in {"greater", "less"} : \A i \in DOMAIN ms : ms[i].type = type
    /\ \A i \in DOMAIN ms : ms[i].strike # NoStrike /\ ms[i].strike \in Int
    /\ \A i, j \in DOMAIN ms : i < j => Threshold(ms[i]) < Threshold(ms[j])

LEMMA ThresholdIs ==
    ASSUME NEW m, m.strike \in Int
    PROVE  /\ Threshold(m) \in Int
           /\ m.type = "greater" => Threshold(m) = m.strike
           /\ m.type = "less" => Threshold(m) = -m.strike
BY DEF Threshold

LEMMA LadderIs ==
    ASSUME NEW ms \in Seq(KalshiMarket), Len(ms) >= 1, IsLadder(ms)
    PROVE  /\ LadderOrder(ms) \in Seq(KalshiMarket) /\ Len(LadderOrder(ms)) = Len(ms)
           /\ Rungs(LadderOrder(ms))
           /\ \A k \in DOMAIN LadderOrder(ms) : \E i \in DOMAIN ms : LadderOrder(ms)[k] = ms[i]
<1> DEFINE key == [i \in DOMAIN ms |-> Threshold(ms[i])]
           o == LadderOrder(ms)
<1>1. Len(ms) \in Nat /\ DOMAIN ms = 1 .. Len(ms) /\ \A i \in DOMAIN ms : ms[i] \in KalshiMarket
  OBVIOUS
<1>2. /\ ms[1].type \in {"greater", "less"}
      /\ \A i \in DOMAIN ms : ms[i].type = ms[1].type /\ ms[i].strike # NoStrike
      /\ \A i, j \in DOMAIN ms : i # j => ms[i].strike # ms[j].strike
  BY DEF IsLadder
<1>3. ASSUME NEW i \in DOMAIN ms
      PROVE  ms[i].strike \in Int /\ Threshold(ms[i]) \in Int
  <2>1. ms[i].strike \in Strike
    BY <1>1, MarketIs
  <2>2. ms[i].strike \in Int
    BY <1>2, <2>1 DEF Strike
  <2> QED  BY <2>2, ThresholdIs
<1>4. ASSUME NEW i \in DOMAIN ms, NEW j \in DOMAIN ms, i # j
      PROVE  Threshold(ms[i]) # Threshold(ms[j])
  <2>1. ms[i].strike # ms[j].strike /\ ms[i].strike \in Int /\ ms[j].strike \in Int
    BY <1>2, <1>3, <1>4
  <2>2. CASE ms[1].type = "greater"
    <3>1. Threshold(ms[i]) = ms[i].strike /\ Threshold(ms[j]) = ms[j].strike
      BY <1>2, <2>1, <2>2, ThresholdIs
    <3> QED  BY <2>1, <3>1
  <2>3. CASE ms[1].type = "less"
    <3>1. Threshold(ms[i]) = -ms[i].strike /\ Threshold(ms[j]) = -ms[j].strike
      BY <1>2, <2>1, <2>3, ThresholdIs
    <3> QED  BY <2>1, <3>1
  <2> QED  BY <1>2, <2>2, <2>3
<1>5. key \in [DOMAIN ms -> Int] /\ o = SortedBy(ms, key) /\ \A i \in DOMAIN ms : key[i] = Threshold(ms[i])
  BY <1>3 DEF LadderOrder
<1> HIDE DEF key, o
<1>6. /\ o \in Seq(KalshiMarket) /\ Len(o) = Len(ms)
      /\ \E f : /\ From(o, ms, f)
                /\ \A k, l \in DOMAIN ms : k < l => key[f[k]] <= key[f[l]]
  BY <1>5, SortedFrom
<1>7. PICK f : /\ From(o, ms, f)
               /\ \A k, l \in DOMAIN ms : k < l => key[f[k]] <= key[f[l]]
  BY <1>6
<1>8. /\ DOMAIN o = DOMAIN ms /\ \A k \in DOMAIN o : f[k] \in DOMAIN ms /\ o[k] = ms[f[k]]
  BY <1>7 DEF From
<1>9. ASSUME NEW i \in DOMAIN o, NEW j \in DOMAIN o, i < j
      PROVE  Threshold(o[i]) < Threshold(o[j])
  <2>1. f[i] # f[j]
    BY <1>1, <1>7, <1>8, <1>9 DEF From
  <2>2. key[f[i]] <= key[f[j]]
    BY <1>7, <1>8, <1>9
  <2>3. Threshold(ms[f[i]]) # Threshold(ms[f[j]]) /\ Threshold(ms[f[i]]) \in Int /\ Threshold(ms[f[j]]) \in Int
    BY <1>3, <1>4, <1>8, <2>1
  <2>4. f[i] \in DOMAIN ms /\ f[j] \in DOMAIN ms /\ o[i] = ms[f[i]] /\ o[j] = ms[f[j]]
    BY <1>8
  <2>5. key[f[i]] = Threshold(ms[f[i]]) /\ key[f[j]] = Threshold(ms[f[j]])
    BY <1>5, <2>4
  <2> HIDE DEF o
  <2> QED  BY <2>2, <2>3, <2>4, <2>5
<1>10. Rungs(o)
  <2> DEFINE type == ms[1].type
  <2>1. type \in {"greater", "less"} /\ \A i \in DOMAIN o : o[i].type = type
    <3>1. type \in {"greater", "less"} /\ \A i \in DOMAIN ms : ms[i].type = type
      BY <1>2
    <3> HIDE DEF type
    <3> QED  BY <1>8, <3>1
  <2>2. \A i \in DOMAIN o : o[i].strike # NoStrike /\ o[i].strike \in Int
    <3>1. \A i \in DOMAIN ms : ms[i].strike # NoStrike /\ ms[i].strike \in Int
      BY <1>2, <1>3
    <3> QED  BY <1>8, <3>1
  <2> HIDE DEF type
  <2>3. \A i, j \in DOMAIN o : i < j => Threshold(o[i]) < Threshold(o[j])
    BY <1>9
  <2> QED  BY <2>1, <2>2, <2>3 DEF Rungs
<1> QED  BY <1>6, <1>8, <1>10 DEF o

-----------------------------------------------------------------------------
(* What discovery infers of an event: see Inferred.                        *)
InferredGroup == [kind : {"complement", "exhaustive", "monotone"}, markets : Seq(KalshiMarket),
                  event : Int]

InferredFrom(g) ==
    /\ g \in InferredGroup
    /\ \A i \in DOMAIN g.markets : /\ g.markets[i].event = g.event
                                   /\ \E k \in DOMAIN Listed : g.markets[i] = Listed[k]
    /\ g.kind = "complement" => Len(g.markets) = 1
    /\ g.kind # "complement" => Len(g.markets) >= 2
    /\ g.kind = "exhaustive" => Exclusive(g.event) /\ g.markets = MarketsOf(g.event)
    /\ g.kind = "monotone" => ~Exclusive(g.event) /\ Rungs(g.markets)

LEMMA InferredIs ==
    ASSUME source \in KalshiListings, NEW e \in Int
    PROVE  Inferred(e) \in Seq({g \in InferredGroup : InferredFrom(g)})
<1> DEFINE ms == MarketsOf(e)
           C == {g \in InferredGroup : InferredFrom(g)}
           one(i) == [kind |-> "complement", markets |-> <<ms[i]>>, event |-> e]
           a == [i \in DOMAIN ms |-> one(i)]
           whole == [kind |-> "exhaustive", markets |-> ms, event |-> e]
           ladder == [kind |-> "monotone", markets |-> LadderOrder(ms), event |-> e]
           b == IF Len(ms) < 2 THEN <<>>
                ELSE IF Exclusive(e) THEN <<whole>>
                ELSE IF IsLadder(ms) THEN <<ladder>> ELSE <<>>
<1>1. /\ ms \in Seq(KalshiMarket)
      /\ \A k \in DOMAIN ms : ms[k].event = e /\ \E i \in DOMAIN Listed : ms[k] = Listed[i]
  BY MarketsOfIs
<1>2. Inferred(e) = a \o b
  BY DEF Inferred
<1>3. ms = MarketsOf(e)
  OBVIOUS
<1> HIDE DEF ms
<1>4. Len(ms) \in Nat /\ DOMAIN ms = 1 .. Len(ms) /\ \A k \in DOMAIN ms : ms[k] \in KalshiMarket
  BY <1>1
<1>5. ASSUME NEW i \in DOMAIN ms
      PROVE  one(i) \in C
  <2> DEFINE s == <<ms[i]>>
             g == one(i)
  <2>1. s \in Seq(KalshiMarket) /\ Len(s) = 1 /\ DOMAIN s = {1} /\ s[1] = ms[i]
    BY <1>4
  <2>2. g.kind = "complement" /\ g.markets = s /\ g.event = e /\ g \in InferredGroup
    <3> HIDE DEF s
    <3> QED  BY <2>1 DEF InferredGroup, s
  <2> HIDE DEF g, s
  <2>3. \A k \in DOMAIN g.markets : g.markets[k].event = g.event
                                    /\ \E j \in DOMAIN Listed : g.markets[k] = Listed[j]
    BY <1>1, <2>1, <2>2
  <2>4. InferredFrom(g)
    BY <2>1, <2>2, <2>3 DEF InferredFrom
  <2> QED  BY <2>2, <2>4 DEF g
<1>6. a \in Seq(C)
  <2> DEFINE n == Len(ms)
  <2>1. n \in Nat /\ a = [i \in 1 .. n |-> a[i]] /\ \A i \in 1 .. n : a[i] \in C
    BY <1>4, <1>5
  <2> HIDE DEF a, C, n
  <2> QED  BY <2>1
<1>7. b \in Seq(C)
  <2>1. CASE Len(ms) >= 2 /\ Exclusive(e)
    <3> DEFINE g == whole
    <3>1. g.kind = "exhaustive" /\ g.markets = ms /\ g.event = e /\ g \in InferredGroup
      BY <1>1 DEF InferredGroup
    <3> HIDE DEF g
    <3>2. InferredFrom(g)
      BY <1>1, <1>3, <2>1, <3>1 DEF InferredFrom
    <3>3. g \in C
      BY <3>1, <3>2
    <3>4. b = <<g>>
      BY <1>4, <2>1 DEF g
    <3> HIDE DEF C, b
    <3> QED  BY <3>3, <3>4
  <2>2. CASE Len(ms) >= 2 /\ ~Exclusive(e) /\ IsLadder(ms)
    <3> DEFINE o == LadderOrder(ms)
               g == ladder
    <3>1. /\ o \in Seq(KalshiMarket) /\ Len(o) = Len(ms) /\ Rungs(o)
          /\ \A k \in DOMAIN o : \E i \in DOMAIN ms : o[k] = ms[i]
      <4>1. Len(ms) >= 1
        BY <1>4, <2>2
      <4> QED  BY <1>1, <2>2, <4>1, LadderIs
    <3> HIDE DEF o
    <3>2. g.kind = "monotone" /\ g.markets = o /\ g.event = e /\ g \in InferredGroup
      BY <3>1 DEF InferredGroup, o
    <3> HIDE DEF g
    <3>3. InferredFrom(g)
      <4>1. \A k \in DOMAIN o : o[k].event = e /\ \E i \in DOMAIN Listed : o[k] = Listed[i]
        BY <1>1, <3>1
      <4> QED  BY <2>2, <3>1, <3>2, <4>1 DEF InferredFrom
    <3>4. g \in C
      BY <3>2, <3>3
    <3>5. b = <<g>>
      BY <1>4, <2>2 DEF g
    <3> HIDE DEF C, b
    <3> QED  BY <3>4, <3>5
  <2>3. CASE ~(Len(ms) >= 2 /\ (Exclusive(e) \/ IsLadder(ms)))
    <3>1. b = <<>>
      BY <1>4, <2>3
    <3> HIDE DEF C, b
    <3> QED  BY <3>1
  <2> QED  BY <2>1, <2>2, <2>3
<1> HIDE DEF a, b, C
<1>8. a \o b \in Seq(C)
  BY <1>6, <1>7
<1> QED  BY <1>2, <1>8 DEF C

LEMMA InferredGroupsAre ==
    ASSUME source \in KalshiListings
    PROVE  InferredGroups \in Seq({g \in InferredGroup : InferredFrom(g)})
<1> DEFINE ms == Listed
           S == {ms[i].event : i \in DOMAIN ms}
           C == {g \in InferredGroup : InferredFrom(g)}
           s == [k \in DOMAIN InOrder(S) |-> Inferred(InOrder(S)[k])]
<1>1. ms \in Seq(KalshiMarket) /\ \A i \in DOMAIN ms : ms[i] \in KalshiMarket
  <2>1. ms \in Seq(KalshiMarket)
    BY ListedIs
  <2> HIDE DEF ms
  <2> QED  BY <2>1
<1>2. IsFiniteSet(S) /\ S \subseteq Int
  <2>1. IsFiniteSet(DOMAIN ms)
    BY <1>1, FiniteRange
  <2> DEFINE f == [i \in DOMAIN ms |-> ms[i].event]
  <2>2. S = {f[i] : i \in DOMAIN ms}
    OBVIOUS
  <2>3. S \subseteq Int
    BY <1>1, MarketIs
  <2> HIDE DEF f, S, ms
  <2>4. IsFiniteSet({f[i] : i \in DOMAIN ms})
    BY <2>1, FiniteImage
  <2> QED  BY <2>2, <2>3, <2>4
<1>3. InferredGroups = FlattenSeq(s)
  BY DEF InferredGroups, EventKeys
<1> HIDE DEF S
<1>4. /\ Cardinality(S) \in Nat /\ InOrder(S) \in [1 .. Cardinality(S) -> S]
  BY <1>2, InOrderIs
<1>5. s \in Seq(Seq(C))
  <2> DEFINE n == Cardinality(S)
             Q == Seq(C)
  <2>1. n \in Nat /\ DOMAIN InOrder(S) = 1 .. n /\ \A k \in 1 .. n : InOrder(S)[k] \in Int
    BY <1>2, <1>4
  <2>2. \A k \in 1 .. n : Inferred(InOrder(S)[k]) \in Q
    BY <2>1, InferredIs
  <2>3. s = [k \in 1 .. n |-> s[k]] /\ \A k \in 1 .. n : s[k] \in Q
    BY <2>1, <2>2
  <2> HIDE DEF s, n, Q
  <2>4. s \in Seq(Q)
    BY <2>1, <2>3
  <2> QED  BY <2>4 DEF Q
<1> HIDE DEF s, C
<1>6. FlattenSeq(s) \in Seq(C)
  BY <1>5, FlattenIs
<1> QED  BY <1>3, <1>6 DEF C

(* The listings of a ticker agree.                                         *)
LEMMA SameTicker ==
    ASSUME source \in KalshiListings, source \in Sources,
           NEW i \in DOMAIN Listed, NEW j \in DOMAIN Listed, Listed[i].key = Listed[j].key
    PROVE  /\ Listed[i].event = Listed[j].event /\ Listed[i].type = Listed[j].type
           /\ Listed[i].strike = Listed[j].strike
<1>1. source.from = "listing"
  BY DEF KalshiListings
<1>2. OneMarketEach(source)
  BY <1>1, RegistryAssumption
<1>3. PICK a \in DOMAIN source.markets : Listed[i] = source.markets[a]
  BY ListedIs
<1>4. PICK b \in DOMAIN source.markets : Listed[j] = source.markets[b]
  BY ListedIs
<1> QED  BY <1>2, <1>3, <1>4 DEF OneMarketEach

(* The ids of the markets of what was inferred.                            *)
LEMMA ListingRead ==
    ASSUME LoadInv, OfListing
    PROVE  source \in KalshiListings /\ source \in Sources
<1>1. SourceOK
  BY DEF LoadInv
<1>2. source \notin Files
  BY DEF OfListing, Files
<1>3. origin = <<>>
  BY <1>1 DEF SourceOK, OfListing
<1> QED  BY <1>1, <1>2, <1>3 DEF SourceOK

LEMMA NumbersAre ==
    ASSUME LoadInv, OfListing, phase \in {"groups", "check", "polymarket"},
           NEW q, InferredFrom(q), KeyTaken(q.event)
    PROVE  /\ NumbersOf(q) \in Seq(Nat) /\ Len(NumbersOf(q)) = Len(q.markets)
           /\ DOMAIN NumbersOf(q) = DOMAIN q.markets
           /\ \A i \in DOMAIN NumbersOf(q) :
                 /\ NumbersOf(q)[i] \in DOMAIN interned
                 /\ interned[NumbersOf(q)[i]] = KalshiNamed(q.markets[i].key)
                 /\ NumbersOf(q)[i] \in DOMAIN binding
                 /\ binding[NumbersOf(q)[i]].event = EventNamed(q.event)
<1> DEFINE ids == NumbersOf(q)
           m == q.markets
<1>1. source \in KalshiListings /\ source \in Sources
  BY ListingRead
<1>2. ListedOK /\ ListedEventsOK /\ BindingOK /\ TablesOK
  BY DEF LoadInv
<1>3. /\ \A k \in DOMAIN interned : \E i \in DOMAIN Listed :
              /\ interned[k] = KalshiNamed(Listed[i].key) /\ k \in DOMAIN binding
              /\ events[binding[k].event].key = Listed[i].event
      /\ \A i \in DOMAIN Listed : KeyTaken(Listed[i].event) =>
              \E k \in DOMAIN interned : interned[k] = KalshiNamed(Listed[i].key)
  BY <1>2 DEF ListedOK
<1>4. m \in Seq(KalshiMarket) /\ Len(m) \in Nat /\ DOMAIN m = 1 .. Len(m)
  BY DEF InferredFrom, InferredGroup
<1>5. \A a, b \in DOMAIN events : events[a].key = events[b].key => a = b
  BY <1>2 DEF ListedEventsOK
<1>6. ASSUME NEW i \in DOMAIN m
      PROVE  /\ ids[i] \in DOMAIN interned /\ interned[ids[i]] = KalshiNamed(m[i].key)
             /\ ids[i] \in DOMAIN binding /\ binding[ids[i]].event = EventNamed(q.event)
             /\ ids[i] \in Nat
  <2> DEFINE c == KalshiNamed(m[i].key)
             id == ids[i]
  <2>1. id = IdOf(c)
    BY DEF NumbersOf
  <2>2. PICK k \in DOMAIN Listed : m[i] = Listed[k]
    BY DEF InferredFrom
  <2>3. m[i].event = q.event
    BY DEF InferredFrom
  <2>4. \E x \in DOMAIN interned : interned[x] = c
    BY <1>3, <2>2, <2>3
  <2> HIDE DEF id
  <2>5. id \in DOMAIN interned /\ interned[id] = c
    BY <2>1, <2>4 DEF IdOf
  <2>6. PICK j \in DOMAIN Listed : /\ interned[id] = KalshiNamed(Listed[j].key) /\ id \in DOMAIN binding
                                   /\ events[binding[id].event].key = Listed[j].event
    BY <1>3, <2>5
  <2>7. Listed[j].key = Listed[k].key
    BY <2>2, <2>5, <2>6 DEF KalshiNamed
  <2>8. Listed[j].event = q.event
    BY <1>1, <2>2, <2>3, <2>7, SameTicker
  <2>9. binding[id].event \in DOMAIN events
    BY <1>2, <2>6 DEF BindingOK
  <2>10. binding[id].event = EventNamed(q.event)
    BY <1>5, <2>6, <2>8, <2>9, EventNamedIs
  <2>11. id \in Nat
    <3>1. interned \in Seq(Contract)
      BY <1>2 DEF TablesOK
    <3> QED  BY <2>5, <3>1
  <2> QED  BY <2>5, <2>6, <2>10, <2>11 DEF id
<1>7. DOMAIN ids = DOMAIN m
  BY DEF NumbersOf
<1>8. ids \in Seq(Nat) /\ Len(ids) = Len(m)
  <2> DEFINE n == Len(m)
  <2>1. ids = [i \in 1 .. n |-> ids[i]]
    BY <1>4 DEF NumbersOf
  <2>2. \A i \in 1 .. n : ids[i] \in Nat
    BY <1>4, <1>6
  <2>3. n \in Nat
    BY <1>4
  <2> HIDE DEF ids, n
  <2>4. ids \in Seq(Nat) /\ Len(ids) = n
    BY <2>1, <2>2, <2>3
  <2> QED  BY <2>4 DEF n
<1> QED  BY <1>6, <1>7, <1>8

(* The groups kept of what was inferred.                                   *)
KeptInferred ==
    Kept(InferredGroups, {k \in DOMAIN InferredGroups :
        /\ KeyTaken(InferredGroups[k].event)
        /\ GoodShape(InferredGroups[k].kind, NumbersOf(InferredGroups[k]))})

LEMMA KeptInferredAre ==
    ASSUME source \in KalshiListings
    PROVE  /\ KeptInferred \in Seq(InferredGroup)
           /\ \A k \in DOMAIN KeptInferred :
                 /\ InferredFrom(KeptInferred[k]) /\ KeyTaken(KeptInferred[k].event)
                 /\ GoodShape(KeptInferred[k].kind, NumbersOf(KeptInferred[k]))
<1> DEFINE C == {g \in InferredGroup : InferredFrom(g)}
           all == InferredGroups
           at == {k \in DOMAIN all : KeyTaken(all[k].event) /\ GoodShape(all[k].kind, NumbersOf(all[k]))}
           kept == Kept(all, at)
<1>1. all \in Seq(C)
  BY InferredGroupsAre
<1>2. /\ at \in SUBSET DOMAIN all
      /\ \A k \in at : KeyTaken(all[k].event) /\ GoodShape(all[k].kind, NumbersOf(all[k]))
  OBVIOUS
<1>3. KeptInferred = kept
  BY DEF KeptInferred
<1> HIDE DEF all, at
<1>4. kept \in Seq(C) /\ PartOf(kept, all, at)
  <2> HIDE DEF C
  <2> QED  BY <1>1, <1>2, KeptPart
<1> HIDE DEF kept
<1>5. ASSUME NEW k \in DOMAIN kept
      PROVE  /\ kept[k] \in C /\ KeyTaken(kept[k].event)
             /\ GoodShape(kept[k].kind, NumbersOf(kept[k]))
  <2>1. PICK i \in at : kept[k] = all[i]
    BY <1>4 DEF PartOf
  <2>2. kept[k] \in C
    <3> HIDE DEF C
    <3> QED  BY <1>4
  <2> QED  BY <1>2, <2>1, <2>2
<1>6. kept \in Seq(InferredGroup)
  <2>1. Len(kept) \in Nat /\ DOMAIN kept = 1 .. Len(kept) /\ kept = [i \in 1 .. Len(kept) |-> kept[i]]
    <3> HIDE DEF C
    <3> QED  BY <1>4
  <2>2. \A i \in 1 .. Len(kept) : kept[i] \in InferredGroup
    BY <1>5, <2>1
  <2> DEFINE n == Len(kept)
  <2> HIDE DEF n
  <2>3. kept = [i \in 1 .. n |-> kept[i]] /\ n \in Nat
    BY <2>1 DEF n
  <2> QED  BY <2>2, <2>3 DEF n
<1> QED  BY <1>3, <1>5, <1>6

(* A group as it was inferred.                                             *)
AsInferred(g, q, names) ==
    /\ g.kind = q.kind /\ DOMAIN g.members = DOMAIN q.markets
    /\ \A i \in DOMAIN g.members : names[g.members[i]] = KalshiNamed(q.markets[i].key)

LEMMA InferredAdded ==
    ASSUME LoadInv, AddInferred
    PROVE  /\ \E n \in Nat : DOMAIN groups' = 1 .. n
           /\ \A k \in DOMAIN groups' :
                 /\ UnderOneEvent(groups'[k], binding, events)
                 /\ groups'[k].verified = TRUE
                 /\ \E q : InferredFrom(q) /\ KeyTaken(q.event) /\ AsInferred(groups'[k], q, interned)
<1>1. /\ phase = "groups" /\ OfListing
      /\ groups' = [k \in DOMAIN KeptInferred |->
                         GroupOf(KeptInferred[k].kind, NumbersOf(KeptInferred[k]), TRUE,
                                 events[EventNamed(KeptInferred[k].event)].resolves, TRUE)]
  BY DEF AddInferred, Bindable, GroupsFrom, KeptInferred, OfListing
<1>2. source \in KalshiListings
  BY <1>1, ListingRead
<1> DEFINE kept == KeptInferred
<1>3. /\ kept \in Seq(InferredGroup)
      /\ \A k \in DOMAIN kept : /\ InferredFrom(kept[k]) /\ KeyTaken(kept[k].event)
                                /\ GoodShape(kept[k].kind, NumbersOf(kept[k]))
  BY <1>2, KeptInferredAre
<1> HIDE DEF kept
<1>4. DOMAIN groups' = DOMAIN kept /\ \E n \in Nat : DOMAIN groups' = 1 .. n
  <2>1. DOMAIN groups' = DOMAIN kept
    BY <1>1 DEF kept
  <2>2. DOMAIN kept = 1 .. Len(kept) /\ Len(kept) \in Nat
    BY <1>3
  <2> QED  BY <2>1, <2>2
<1>5. ASSUME NEW k \in DOMAIN kept
      PROVE  /\ UnderOneEvent(groups'[k], binding, events)
             /\ groups'[k].verified = TRUE
             /\ \E q : InferredFrom(q) /\ KeyTaken(q.event) /\ AsInferred(groups'[k], q, interned)
  <2> DEFINE q == kept[k]
             ids == NumbersOf(q)
             time == events[EventNamed(q.event)].resolves
             g == groups'[k]
  <2>1. g = GroupOf(q.kind, ids, TRUE, time, TRUE)
    BY <1>1 DEF kept
  <2>2. InferredFrom(q) /\ KeyTaken(q.event) /\ GoodShape(q.kind, ids)
    BY <1>3
  <2>3. q.kind \in {"complement", "exhaustive", "monotone"}
    BY <2>2 DEF InferredFrom, InferredGroup
  <2> HIDE DEF g, time
  <2>4. /\ ids \in Seq(Nat) /\ Len(ids) = Len(q.markets) /\ DOMAIN ids = DOMAIN q.markets
        /\ \A i \in DOMAIN ids : /\ ids[i] \in DOMAIN interned
                                 /\ interned[ids[i]] = KalshiNamed(q.markets[i].key)
                                 /\ ids[i] \in DOMAIN binding
                                 /\ binding[ids[i]].event = EventNamed(q.event)
    <3> HIDE DEF q
    <3> QED  BY <1>1, <2>2, NumbersAre
  <2> HIDE DEF ids, q
  <2>5. GoodArity(q.kind, ids)
    BY <2>2, <2>3, <2>4 DEF GoodArity, InferredFrom
  <2>6. WellShaped(g)
    BY <2>1, <2>2, <2>3, <2>4, <2>5, ShapeIs DEF Kind
  <2>7. g.members = ids /\ g.resolves = time /\ g.kind = q.kind /\ g.verified = TRUE
    BY <2>1 DEF GroupOf
  <2>8. EventNamed(q.event) \in DOMAIN events /\ events[EventNamed(q.event)].resolves = time
    BY <2>2, EventNamedIs DEF time
  <2>9. UnderOneEvent(g, binding, events)
    BY <2>4, <2>6, <2>7, <2>8 DEF UnderOneEvent
  <2>10. AsInferred(g, q, interned)
    BY <2>4, <2>7 DEF AsInferred
  <2> QED  BY <2>2, <2>7, <2>9, <2>10 DEF g
<1> QED  BY <1>4, <1>5

LEMMA LoadAddInferred ==
    ASSUME LoadInv, AddInferred
    PROVE  LoadInv'
<1>1. /\ phase = "groups" /\ phase' = "check" /\ OfListing
      /\ source' = source /\ origin' = origin /\ catalogue' = catalogue /\ cursor' = cursor
      /\ interned' = interned /\ tickers' = tickers /\ binding' = binding /\ events' = events
      /\ feeTable' = feeTable
  BY DEF AddInferred, OfListing
<1>2. /\ SourceOK /\ TablesOK /\ BindingOK /\ ReadingOK /\ FeesOK /\ NoCatalogueYet
      /\ ListedEventsOK /\ ListedOK
  BY DEF LoadInv
<1>3. ~Unread /\ ~Unread' /\ OfListing' /\ AtTheStart
  BY <1>1, <1>2 DEF Unread, OfListing, ReadingOK
<1>4. /\ Listed' = Listed /\ (\A e : Closes(e)' = Closes(e))
      /\ \A e : KeyTaken(e)' = KeyTaken(e)
  BY <1>1, SameSource DEF KeyTaken
<1>5. SourceOK' /\ NoCatalogueYet' /\ FeesOK' /\ BindingOK'
  BY <1>1, <1>2, <1>3 DEF SourceOK, NoCatalogueYet, FeesOK, BindingOK
<1>6. TablesOK'
  <2>1. StoreOrder' = StoreOrder
    BY <1>1 DEF StoreOrder
  <2> QED  BY <1>1, <1>2, <1>3, <2>1 DEF TablesOK
<1>7. FileKnown' /\ PartitionsOK'
  BY <1>1 DEF FileKnown, PartitionsOK
<1>8. ListedEventsOK'
  BY <1>1, <1>2, <1>3, <1>4 DEF ListedEventsOK
<1>9. ListedOK'
  BY <1>1, <1>2, <1>3, <1>4 DEF ListedOK
<1>10. GroupsOK'
  <2>1. /\ \E n \in Nat : DOMAIN groups' = 1 .. n
        /\ \A k \in DOMAIN groups' : UnderOneEvent(groups'[k], binding, events)
    BY InferredAdded
  <2> QED  BY <1>1, <2>1 DEF GroupsOK
<1>11. ReadingOK'
  BY <1>1, <1>2, <1>3 DEF ReadingOK, AtTheStart
<1> QED  BY <1>5, <1>6, <1>7, <1>8, <1>9, <1>10, <1>11 DEF LoadInv

(* What is kept of something indexed like a sequence.                      *)
LEMMA KeptOf ==
    ASSUME NEW n \in Nat, NEW s, DOMAIN s = 1 .. n, NEW T, \A i \in 1 .. n : s[i] \in T,
           NEW at \in SUBSET (1 .. n)
    PROVE  Kept(s, at) \in Seq(T) /\ PartOf(Kept(s, at), s, at)
<1> DEFINE r == [i \in 1 .. n |-> s[i]]
<1>1. r \in Seq(T) /\ DOMAIN r = 1 .. n
  OBVIOUS
<1>2. Kept(r, at) \in Seq(T) /\ PartOf(Kept(r, at), r, at)
  BY <1>1, KeptPart
<1>3. IsFiniteSet(at) /\ at \subseteq Int
  <2>1. IsFiniteSet(1 .. n)
    BY IndexSet
  <2>2. IsFiniteSet(at)
    BY <2>1, FS_Subset
  <2> QED  BY <2>2
<1>4. \A k \in DOMAIN InOrder(at) : InOrder(at)[k] \in at
  BY <1>3, InOrderIs
<1>5. Kept(r, at) = Kept(s, at)
  BY <1>4 DEF Kept
<1>6. \A i \in at : r[i] = s[i]
  OBVIOUS
<1> HIDE DEF r
<1> QED  BY <1>2, <1>5, <1>6 DEF PartOf

(* The strike of a contract is what each of its listings says.             *)
LEMMA StrikeIs ==
    ASSUME source \in KalshiListings, source \in Sources, NEW m \in DOMAIN source.markets
    PROVE  /\ StrikeOf(KalshiNamed(source.markets[m].key)) = source.markets[m].strike
           /\ source.markets[m].strike \in Strike
<1> DEFINE ms == source.markets
           c == KalshiNamed(ms[m].key)
           at == {i \in DOMAIN ms : KalshiNamed(ms[i].key) = c}
<1>1. OneMarketEach(source)
  BY RegistryAssumption DEF KalshiListings
<1>2. ms \in Seq(KalshiMarket) /\ \A i \in DOMAIN ms : ms[i] \in KalshiMarket
  BY ListingIs
<1>3. m \in at /\ at \subseteq Nat
  BY <1>2
<1>4. Min(at) \in at
  BY <1>3, LeastOf
<1>5. ms[Min(at)].key = ms[m].key /\ Min(at) \in DOMAIN ms
  BY <1>4 DEF KalshiNamed
<1>6. ms[Min(at)].strike = ms[m].strike
  BY <1>1, <1>5 DEF OneMarketEach
<1>7. StrikeOf(c) = ms[Min(at)].strike
  BY DEF StrikeOf
<1> QED  BY <1>2, <1>6, <1>7, MarketIs

(* A group of the file against the group it was written from.              *)
RenderOf(fg, g, names, l) ==
    /\ fg.kind = g.kind /\ fg.verified = "absent" /\ DOMAIN fg.members = DOMAIN g.members
    /\ \A i \in DOMAIN g.members :
          /\ fg.members[i].contract = names[g.members[i]] /\ fg.members[i].side = "yes"
          /\ \A m \in DOMAIN l.markets : KalshiNamed(l.markets[m].key) = names[g.members[i]] =>
                fg.members[i].strike = l.markets[m].strike

LEMMA RenderedGroupIs ==
    ASSUME LoadInv, OfListing, phase = "polymarket", NEW g, WellShaped(g),
           \A i \in DOMAIN g.members : g.members[i] \in DOMAIN binding
    PROVE  RenderedGroup(g) \in FileGroup /\ RenderOf(RenderedGroup(g), g, interned, source)
<1> DEFINE m == g.members
           at(i) == interned[m[i]]
           ms == [i \in DOMAIN m |-> [contract |-> at(i), side |-> "yes", strike |-> StrikeOf(at(i))]]
           r == RenderedGroup(g)
<1>1. source \in KalshiListings /\ source \in Sources
  BY ListingRead
<1>2. ListedOK /\ BindingOK /\ TablesOK
  BY DEF LoadInv
<1>3. m \in Seq(Nat) /\ g.kind \in Kind /\ Len(m) \in Nat /\ DOMAIN m = 1 .. Len(m)
  BY DEF WellShaped
<1>4. r = [kind |-> g.kind, verified |-> "absent", members |-> ms]
  BY DEF RenderedGroup, MembersAsOrdered
<1>5. ASSUME NEW i \in DOMAIN m
      PROVE  /\ at(i) \in Contract /\ StrikeOf(at(i)) \in Strike
             /\ \A x \in DOMAIN source.markets : KalshiNamed(source.markets[x].key) = at(i) =>
                  StrikeOf(at(i)) = source.markets[x].strike
  <2>1. m[i] \in DOMAIN interned
    BY <1>2 DEF BindingOK
  <2>2. at(i) \in Contract
    BY <1>2, <2>1 DEF TablesOK
  <2>3. PICK k \in DOMAIN Listed : at(i) = KalshiNamed(Listed[k].key)
    BY <1>2, <2>1 DEF ListedOK
  <2>4. PICK x \in DOMAIN source.markets : Listed[k] = source.markets[x]
    BY <1>1, ListedIs
  <2>5. StrikeOf(at(i)) \in Strike
    BY <1>1, <2>3, <2>4, StrikeIs
  <2>6. \A y \in DOMAIN source.markets : KalshiNamed(source.markets[y].key) = at(i) =>
                  StrikeOf(at(i)) = source.markets[y].strike
    <3> SUFFICES ASSUME NEW y \in DOMAIN source.markets, KalshiNamed(source.markets[y].key) = at(i)
                 PROVE  StrikeOf(at(i)) = source.markets[y].strike
      OBVIOUS
    <3>1. StrikeOf(KalshiNamed(source.markets[y].key)) = source.markets[y].strike
      BY <1>1, StrikeIs
    <3> QED  BY <3>1
  <2> QED  BY <2>2, <2>5, <2>6
<1>6. ms \in Seq(FileMember)
  <2> DEFINE n == Len(m)
  <2>1. \A i \in 1 .. n : ms[i] \in FileMember
    BY <1>3, <1>5 DEF FileMember
  <2>2. ms = [i \in 1 .. n |-> ms[i]] /\ n \in Nat
    BY <1>3
  <2> HIDE DEF ms, n
  <2> QED  BY <2>1, <2>2
<1>7. \A i \in DOMAIN m : /\ ms[i].contract = at(i) /\ ms[i].side = "yes"
                          /\ ms[i].strike = StrikeOf(at(i))
  OBVIOUS
<1>8. DOMAIN ms = DOMAIN m
  OBVIOUS
<1> HIDE DEF ms, r
<1>9. r \in FileGroup
  BY <1>3, <1>4, <1>6 DEF FileGroup
<1>10. RenderOf(r, g, interned, source)
  BY <1>4, <1>5, <1>7, <1>8 DEF RenderOf
<1> QED  BY <1>9, <1>10 DEF r

(* The file's events against the listing's.                                *)
RenderedOf(n, ev) ==
    /\ ev \in FileEvent /\ ev.id = events[n].key /\ ev.resolves = events[n].resolves
    /\ ev.resolves \in Int
    /\ \A x \in DOMAIN ev.groups : \E k \in DOMAIN groups :
          /\ binding[groups[k].members[1]].event = n
          /\ RenderOf(ev.groups[x], groups[k], interned, source)
    /\ \A k \in DOMAIN groups : binding[groups[k].members[1]].event = n =>
          \E x \in DOMAIN ev.groups : RenderOf(ev.groups[x], groups[k], interned, source)

RenderedEvent(n) ==
    [id |-> events[n].key, resolves |-> events[n].resolves,
     groups |-> [k \in DOMAIN GroupsOfEvent(n) |-> RenderedGroup(GroupsOfEvent(n)[k])]]

GroupsUnder(n) == {g \in DOMAIN groups : binding[groups[g].members[1]].event = n}

LEMMA GroupsOfEventAre ==
    ASSUME LoadInv, NEW n
    PROVE  /\ GroupsOfEvent(n) \in Seq({groups[g] : g \in DOMAIN groups})
           /\ PartOf(GroupsOfEvent(n), groups, GroupsUnder(n))
<1>1. PICK m \in Nat : DOMAIN groups = 1 .. m
  BY DEF LoadInv, GroupsOK
<1> DEFINE T == {groups[g] : g \in DOMAIN groups}
           at == GroupsUnder(n)
<1>2. \A i \in 1 .. m : groups[i] \in T
  BY <1>1
<1>3. at \in SUBSET (1 .. m)
  BY <1>1 DEF GroupsUnder
<1>4. GroupsOfEvent(n) = Kept(groups, at)
  BY DEF GroupsOfEvent, GroupsUnder
<1> HIDE DEF T, at
<1>5. Kept(groups, at) \in Seq(T) /\ PartOf(Kept(groups, at), groups, at)
  BY <1>1, <1>2, <1>3, KeptOf
<1> QED  BY <1>4, <1>5 DEF T, at

LEMMA RenderedEventIs ==
    ASSUME LoadInv, OfListing, phase = "polymarket", NEW n \in DOMAIN events
    PROVE  RenderedOf(n, RenderedEvent(n))
<1> DEFINE gs == GroupsOfEvent(n)
           fs == [k \in DOMAIN gs |-> RenderedGroup(gs[k])]
           ev == RenderedEvent(n)
           at == GroupsUnder(n)
           T == {groups[g] : g \in DOMAIN groups}
<1>1. gs \in Seq(T) /\ PartOf(gs, groups, at)
  BY GroupsOfEventAre
<1>2. /\ \A g \in at : g \in DOMAIN groups /\ binding[groups[g].members[1]].event = n
      /\ \A g \in DOMAIN groups : binding[groups[g].members[1]].event = n => g \in at
  BY DEF GroupsUnder
<1>3. ev = [id |-> events[n].key, resolves |-> events[n].resolves, groups |-> fs]
  BY DEF RenderedEvent
<1>4. DOMAIN gs = 1 .. Len(gs) /\ Len(gs) \in Nat
  <2> HIDE DEF T, gs
  <2> QED  BY <1>1
<1> HIDE DEF gs, at
<1>5. ASSUME NEW k \in DOMAIN gs
      PROVE  fs[k] \in FileGroup /\ RenderOf(fs[k], gs[k], interned, source)
  <2>1. PICK g \in at : gs[k] = groups[g]
    BY <1>1 DEF PartOf
  <2>2. UnderOneEvent(groups[g], binding, events)
    BY <1>2 DEF LoadInv, GroupsOK
  <2>3. WellShaped(gs[k]) /\ \A i \in DOMAIN gs[k].members : gs[k].members[i] \in DOMAIN binding
    BY <2>1, <2>2 DEF UnderOneEvent
  <2>4. RenderedGroup(gs[k]) \in FileGroup /\ RenderOf(RenderedGroup(gs[k]), gs[k], interned, source)
    BY <2>3, RenderedGroupIs
  <2> QED  BY <2>4
<1>6. DOMAIN fs = DOMAIN gs /\ fs \in Seq(FileGroup)
  <2> DEFINE m == Len(gs)
  <2>1. \A i \in 1 .. m : fs[i] \in FileGroup
    BY <1>4, <1>5
  <2>2. fs = [i \in 1 .. m |-> fs[i]]
    BY <1>4
  <2>3. m \in Nat /\ DOMAIN fs = DOMAIN gs
    BY <1>4
  <2> HIDE DEF fs, m
  <2>4. fs \in Seq(FileGroup)
    BY <2>1, <2>2, <2>3
  <2> QED  BY <2>3, <2>4
<1> HIDE DEF fs, ev
<1>7. events[n].key \in Int /\ events[n].resolves \in Int
  <2> DEFINE E == [key : Int, resolves : Int]
  <2>1. events \in Seq(E)
    BY DEF LoadInv, BindingOK
  <2> HIDE DEF E
  <2>2. events[n] \in E
    BY <2>1
  <2> QED  BY <2>2 DEF E
<1>8. /\ ev \in FileEvent /\ ev.id = events[n].key /\ ev.resolves = events[n].resolves
      /\ ev.resolves \in Int /\ ev.groups = fs
  BY <1>3, <1>6, <1>7 DEF FileEvent, Time
<1>9. ASSUME NEW x \in DOMAIN fs
      PROVE  \E k \in DOMAIN groups : /\ binding[groups[k].members[1]].event = n
                                      /\ RenderOf(fs[x], groups[k], interned, source)
  <2>1. PICK g \in at : gs[x] = groups[g]
    BY <1>1, <1>6 DEF PartOf
  <2> QED  BY <1>2, <1>5, <1>6, <2>1
<1>10. ASSUME NEW k \in DOMAIN groups, binding[groups[k].members[1]].event = n
       PROVE  \E x \in DOMAIN fs : RenderOf(fs[x], groups[k], interned, source)
  <2>1. PICK x \in DOMAIN gs : gs[x] = groups[k]
    BY <1>1, <1>2, <1>10 DEF PartOf
  <2> QED  BY <1>5, <1>6, <2>1
<1>11. RenderedOf(n, ev)
  BY <1>8, <1>9, <1>10 DEF RenderedOf
<1> QED  BY <1>11 DEF ev

LEMMA RenderedEventsAre ==
    ASSUME LoadInv, OfListing, phase = "polymarket"
    PROVE  /\ RenderedEvents \in Seq(FileEvent)
           /\ \A e \in DOMAIN RenderedEvents : \E n \in DOMAIN events : RenderedOf(n, RenderedEvents[e])
           /\ \A k \in DOMAIN groups : \E e \in DOMAIN RenderedEvents :
                  \E n \in DOMAIN events : /\ RenderedOf(n, RenderedEvents[e])
                                           /\ binding[groups[k].members[1]].event = n
           /\ \A e, f \in DOMAIN RenderedEvents : RenderedEvents[e].id = RenderedEvents[f].id => e = f
<1> DEFINE S == {e \in DOMAIN events : GroupsOfEvent(e) # <<>>}
           o == InOrder(S)
           r == RenderedEvents
<1>1. r = [k \in DOMAIN o |-> RenderedEvent(o[k])]
  BY DEF RenderedEvents, RenderedEvent
<1>2. events \in Seq([key : Int, resolves : Int]) /\ \A a, b \in DOMAIN events : events[a].key = events[b].key => a = b
  BY DEF LoadInv, BindingOK, ListedEventsOK
<1>3. S \subseteq DOMAIN events /\ \A n \in S : n \in DOMAIN events
  OBVIOUS
<1>4. IsFiniteSet(S) /\ S \subseteq Int
  <2>1. DOMAIN events = 1 .. Len(events) /\ Len(events) \in Nat
    BY <1>2
  <2> HIDE DEF S
  <2> QED  BY <1>3, <2>1, IndexSet, FS_Subset
<1>5. \A n \in DOMAIN events : GroupsOfEvent(n) # <<>> => n \in S
  OBVIOUS
<1> HIDE DEF S
<1>6. /\ Cardinality(S) \in Nat /\ o \in [1 .. Cardinality(S) -> S]
      /\ \A i, j \in 1 .. Cardinality(S) : i < j => o[i] < o[j]
      /\ \A x \in S : \E k \in 1 .. Cardinality(S) : o[k] = x
  BY <1>4, InOrderIs
<1> DEFINE m == Cardinality(S)
<1>7. m \in Nat /\ DOMAIN o = 1 .. m /\ DOMAIN r = 1 .. m
  BY <1>1, <1>6
<1> HIDE DEF o, r, m
<1>8. ASSUME NEW k \in 1 .. m
      PROVE  r[k] = RenderedEvent(o[k]) /\ o[k] \in DOMAIN events /\ RenderedOf(o[k], r[k])
  <2>1. o[k] \in DOMAIN events /\ r[k] = RenderedEvent(o[k])
    BY <1>1, <1>3, <1>6, <1>7 DEF m
  <2> QED  BY <2>1, RenderedEventIs
<1>9. r \in Seq(FileEvent)
  <2>1. \A k \in 1 .. m : r[k] \in FileEvent
    BY <1>8 DEF RenderedOf
  <2>2. r = [k \in 1 .. m |-> r[k]]
    BY <1>1, <1>7
  <2> QED  BY <1>7, <2>1, <2>2
<1>10. ASSUME NEW k \in DOMAIN groups
       PROVE  \E e \in DOMAIN r : \E n \in DOMAIN events :
                  RenderedOf(n, r[e]) /\ binding[groups[k].members[1]].event = n
  <2> DEFINE n == binding[groups[k].members[1]].event
  <2>1. UnderOneEvent(groups[k], binding, events)
    BY DEF LoadInv, GroupsOK
  <2>2. 1 \in DOMAIN groups[k].members
    <3>1. WellShaped(groups[k])
      BY <2>1 DEF UnderOneEvent
    <3>2. groups[k].members \in Seq(Nat) /\ Len(groups[k].members) >= 1
      <4> DEFINE gm == groups[k].members
      <4>1. gm \in Seq(Nat) /\ (Len(gm) = 1 \/ Len(gm) = 2 \/ Len(gm) >= 2)
        BY <3>1 DEF WellShaped, Kind
      <4> HIDE DEF gm
      <4>2. Len(gm) >= 1
        BY <4>1
      <4> QED  BY <4>1, <4>2 DEF gm
    <3> QED  BY <3>2
  <2>3. n \in DOMAIN events
    BY <2>1, <2>2 DEF UnderOneEvent
  <2>4. k \in GroupsUnder(n)
    BY DEF GroupsUnder
  <2> HIDE DEF n
  <2>5. GroupsOfEvent(n) # <<>>
    <3>1. PartOf(GroupsOfEvent(n), groups, GroupsUnder(n))
      BY GroupsOfEventAre
    <3>2. PICK x \in DOMAIN GroupsOfEvent(n) : GroupsOfEvent(n)[x] = groups[k]
      BY <2>4, <3>1 DEF PartOf
    <3> QED  BY <3>2
  <2>6. PICK e \in 1 .. m : o[e] = n
    BY <1>5, <1>6, <2>3, <2>5 DEF m
  <2>7. RenderedOf(n, r[e]) /\ e \in DOMAIN r
    BY <1>7, <1>8, <2>6
  <2> QED  BY <2>3, <2>7 DEF n
<1>11. ASSUME NEW e \in DOMAIN r, NEW f \in DOMAIN r, r[e].id = r[f].id
       PROVE  e = f
  <2>1. e \in 1 .. m /\ f \in 1 .. m
    BY <1>7
  <2>2. r[e].id = events[o[e]].key /\ r[f].id = events[o[f]].key
    BY <1>8, <2>1 DEF RenderedOf
  <2>3. o[e] = o[f]
    BY <1>2, <1>8, <1>11, <2>1, <2>2
  <2>4. o[e] \in Int /\ o[f] \in Int /\ (e < f => o[e] < o[f]) /\ (f < e => o[f] < o[e])
    BY <1>4, <1>6, <2>1 DEF m
  <2> QED  BY <1>7, <2>1, <2>3, <2>4
<1> QED  BY <1>7, <1>8, <1>9, <1>10, <1>11 DEF r

LEMMA LoadPromote ==
    ASSUME LoadInv, Promote
    PROVE  LoadInv'
<1>1. /\ phase = "polymarket" /\ phase' = "intern" /\ OfListing
      /\ source' = [from |-> "file", events |-> RenderedEvents]
      /\ origin' = <<[listing |-> source, groups |-> groups, interned |-> interned]>>
      /\ interned' = <<>> /\ tickers' = [v \in Venue |-> <<>>]
      /\ events' = <<>> /\ binding' = <<>> /\ groups' = <<>>
      /\ catalogue' = catalogue /\ cursor' = cursor /\ feeTable' = feeTable
  BY DEF Promote, OfListing
<1>2. /\ source \in KalshiListings /\ source \in Sources /\ source.from = "listing"
  BY <1>1, ListingRead DEF OfListing
<1>3. source' \in Files /\ source'.from = "file" /\ ~OfListing' /\ Unread'
  <2>1. RenderedEvents \in Seq(FileEvent)
    BY <1>1, RenderedEventsAre
  <2> QED  BY <1>1, <2>1 DEF Files, OfListing, Unread
<1>4. SourceOK'
  <2>1. origin' # <<>> /\ origin'[1].listing = source
    BY <1>1
  <2> QED  BY <1>1, <1>2, <1>3, <2>1 DEF SourceOK
<1>5. catalogue = <<>> /\ AtTheStart /\ cursor \in [event : Nat, group : Nat] /\ feeTable = <<>>
  <2>1. NoCatalogueYet /\ ReadingOK /\ FeesOK
    BY DEF LoadInv
  <2>2. catalogue = <<>> /\ AtTheStart /\ cursor \in [event : Nat, group : Nat]
    BY <1>1, <2>1 DEF NoCatalogueYet, ReadingOK
  <2> QED  BY <2>1, <2>2, EmptyRegistered DEF FeesOK
<1>6. TablesOK'
  <2>1. "Kalshi" \in Venue /\ "Polymarket" \in Venue
    BY DEF Venue
  <2>2. StoreOrder' = <<>>
    BY <1>1, <2>1 DEF StoreOrder
  <2>3. <<>> \in Seq(Contract) /\ IsInjective(<<>>)
    BY DEF IsInjective
  <2>4. tickers' \in [Venue -> Seq(Contract)] /\ \A v \in Venue : \A i \in DOMAIN tickers'[v] : tickers'[v][i].venue = v
    BY <1>1, <2>3
  <2> QED  BY <1>1, <1>3, <2>2, <2>3, <2>4 DEF TablesOK
<1>7. BindingOK' /\ GroupsOK'
  <2>1. DOMAIN binding' = {} /\ DOMAIN groups' = {} /\ DOMAIN groups' = 1 .. 0 /\ 0 \in Nat
    BY <1>1
  <2>2. events' \in Seq([key : Int, resolves : Int])
    BY <1>1
  <2>3. BindingOK'
    BY <2>1, <2>2 DEF BindingOK
  <2>4. GroupsOK'
    BY <2>1 DEF GroupsOK
  <2> QED  BY <2>3, <2>4
<1>8. FileKnown' /\ ListedEventsOK' /\ ListedOK' /\ PartitionsOK'
  BY <1>1, <1>3 DEF FileKnown, ListedEventsOK, ListedOK, PartitionsOK
<1>9. ReadingOK'
  BY <1>1, <1>3, <1>5 DEF ReadingOK, AtTheStart
<1>10. FeesOK' /\ NoCatalogueYet'
  BY <1>1, <1>5, EmptyRegistered DEF FeesOK, NoCatalogueYet
<1> QED  BY <1>4, <1>6, <1>7, <1>8, <1>9, <1>10 DEF LoadInv

LEMMA NewIs ==
    ASSUME NEW list \in Seq(GammaMarket)
    PROVE  /\ New(list) \in Seq(GammaMarket)
           /\ \A k \in DOMAIN New(list) :
                 /\ New(list)[k].key \in Int /\ New(list)[k].ends \in Int
                 /\ ~Known(TokenOf(New(list)[k]))
                 /\ \E i \in DOMAIN list : New(list)[k] = list[i]
           /\ \A k, l \in DOMAIN New(list) : New(list)[k].key = New(list)[l].key => k = l
<1> DEFINE s == Sorted(list)
           at == {i \in DOMAIN s : ~Known(TokenOf(s[i])) /\ s[i].ends # NoTime}
           t == Kept(s, at)
           new == FirstOfKey(t)
<1>1. \A i \in DOMAIN list : list[i] \in GammaMarket
  OBVIOUS
<1>2. \A i \in DOMAIN list : list[i].key \in Int /\ list[i].ends \in Time
  BY <1>1 DEF GammaMarket
<1>3. s \in Seq(GammaMarket) /\ \A k \in DOMAIN s : \E i \in DOMAIN list : s[k] = list[i]
  BY <1>2, SortedIs
<1>4. New(list) = new
  BY DEF New
<1>5. at \in SUBSET DOMAIN s /\ \A i \in at : i \in DOMAIN s /\ ~Known(TokenOf(s[i])) /\ s[i].ends # NoTime
  OBVIOUS
<1> HIDE DEF s, at
<1>6. t \in Seq(GammaMarket) /\ PartOf(t, s, at)
  BY <1>3, <1>5, KeptPart
<1> HIDE DEF t
<1>7. /\ new \in Seq(GammaMarket)
      /\ \A k \in DOMAIN new : \E i \in DOMAIN t : new[k] = t[i]
      /\ \A k, l \in DOMAIN new : new[k].key = new[l].key => k = l
  BY <1>6, FirstOfKeyIs
<1> HIDE DEF new
<1>8. ASSUME NEW k \in DOMAIN new
      PROVE  /\ new[k].key \in Int /\ new[k].ends \in Int /\ ~Known(TokenOf(new[k]))
             /\ \E i \in DOMAIN list : new[k] = list[i]
  <2>1. PICK j \in DOMAIN t : new[k] = t[j]
    BY <1>7
  <2>2. PICK i \in at : t[j] = s[i]
    BY <1>6 DEF PartOf
  <2>3. i \in DOMAIN s /\ ~Known(TokenOf(s[i])) /\ s[i].ends # NoTime
    BY <1>5
  <2>4. PICK x \in DOMAIN list : s[i] = list[x]
    BY <1>3, <2>3
  <2> QED  BY <1>2, <2>1, <2>2, <2>3, <2>4 DEF Time
<1> QED  BY <1>4, <1>7, <1>8

(* What a catalogue adds.                                                  *)
Tokens(new)    == [i \in DOMAIN new |-> TokenOf(new[i])]
Ends(new)      == [i \in DOMAIN new |-> [key |-> new[i].key, resolves |-> new[i].ends]]
Negations(new, n) == [i \in DOMAIN new |-> GroupOf("complement", <<n + i>>, TRUE, new[i].ends, TRUE)]
BindTokens(new, n) ==
    [c \in DOMAIN binding \cup {n + i : i \in DOMAIN new} |->
        IF c \in DOMAIN binding THEN binding[c]
        ELSE [contract |-> interned'[c], event |-> Len(events) + c - n]]

Extended(list, new) ==
    /\ list \in Seq(GammaMarket) /\ new = New(list)
    /\ catalogue' = list
    /\ interned' = interned \o Tokens(new)
    /\ tickers' = [tickers EXCEPT !["Polymarket"] = @ \o Tokens(new)]
    /\ binding' = BindTokens(new, Len(interned))
    /\ events' = events \o Ends(new)
    /\ groups' = groups \o Negations(new, Len(interned))
    /\ feeTable' = Registered(list, interned')

LEMMA ExtendIs ==
    ASSUME LoadInv, ExtendWithPolymarket
    PROVE  /\ phase = "polymarket" /\ phase' \in {"ready", "refused"}
           /\ source' = source /\ origin' = origin /\ cursor' = cursor
           /\ \E list, new : Extended(list, new)
<1> DEFINE s == IF Promoted THEN origin[1].listing ELSE source
<1>1. SourceOK
  BY DEF LoadInv
<1>2. s \in Sources
  BY <1>1 DEF SourceOK, Promoted
<1>3. Catalogues[s] \subseteq Seq(GammaMarket)
  BY <1>2, RegistryAssumption
<1>4. \E list \in Catalogues[s] : Extended(list, New(list))
  <2>1. \E list \in Catalogues[s] :
           /\ catalogue' = list
           /\ interned' = interned \o Tokens(New(list))
           /\ tickers' = [tickers EXCEPT !["Polymarket"] = @ \o Tokens(New(list))]
           /\ binding' = BindTokens(New(list), Len(interned))
           /\ events' = events \o Ends(New(list))
           /\ groups' = groups \o Negations(New(list), Len(interned))
           /\ feeTable' = Registered(list, interned')
    BY DEF ExtendWithPolymarket, Tokens, BindTokens, Ends, Negations
  <2> QED  BY <1>3, <2>1 DEF Extended
<1>5. /\ phase = "polymarket" /\ phase' \in {"ready", "refused"}
      /\ source' = source /\ origin' = origin /\ cursor' = cursor
  BY DEF ExtendWithPolymarket, Started
<1> QED  BY <1>4, <1>5

LEMMA TokensAre ==
    ASSUME NEW list \in Seq(GammaMarket), NEW new, new = New(list)
    PROVE  /\ Tokens(new) \in Seq(Contract) /\ IsInjective(Tokens(new))
           /\ Ends(new) \in Seq([key : Int, resolves : Int])
           /\ DOMAIN Tokens(new) = DOMAIN new /\ DOMAIN Ends(new) = DOMAIN new
           /\ Len(new) \in Nat /\ DOMAIN new = 1 .. Len(new)
           /\ Len(Tokens(new)) = Len(new) /\ Len(Ends(new)) = Len(new)
           /\ \A i \in DOMAIN new : /\ Tokens(new)[i].venue = "Polymarket" /\ ~Known(Tokens(new)[i])
                                    /\ Tokens(new)[i] = TokenOf(new[i])
                                    /\ Ends(new)[i].resolves = new[i].ends
<1> DEFINE n == Len(new)
           t == Tokens(new)
           e == Ends(new)
           E == [key : Int, resolves : Int]
<1>1. /\ new \in Seq(GammaMarket)
      /\ \A k \in DOMAIN new : /\ new[k].key \in Int /\ new[k].ends \in Int
                               /\ ~Known(TokenOf(new[k]))
      /\ \A k, l \in DOMAIN new : new[k].key = new[l].key => k = l
  BY NewIs
<1>2. n \in Nat /\ DOMAIN new = 1 .. n
  BY <1>1
<1>3. \A i \in DOMAIN new : /\ t[i] = TokenOf(new[i]) /\ t[i].venue = "Polymarket" /\ t[i].key = new[i].key
                            /\ t[i] \in Contract /\ e[i].resolves = new[i].ends /\ e[i] \in E
  BY <1>1 DEF Tokens, TokenOf, Contract, Venue, Ends
<1>4. DOMAIN t = DOMAIN new /\ DOMAIN e = DOMAIN new
  BY DEF Tokens, Ends
<1>5. t = [i \in 1 .. n |-> t[i]] /\ e = [i \in 1 .. n |-> e[i]]
  BY <1>2 DEF Tokens, Ends
<1> HIDE DEF t, e, n, E
<1>6. t \in Seq(Contract) /\ Len(t) = n
  BY <1>2, <1>3, <1>5
<1>7. e \in Seq(E) /\ Len(e) = n
  BY <1>2, <1>3, <1>5
<1>8. IsInjective(t)
  BY <1>1, <1>3, <1>4 DEF IsInjective
<1> QED  BY <1>1, <1>2, <1>3, <1>4, <1>6, <1>7, <1>8 DEF t, e, n, E

(* The tables after it: what there was, and what it adds.                  *)
TablesAfter(new) ==
    /\ interned' \in Seq(Contract) /\ IsInjective(interned')
    /\ Len(interned) \in Nat /\ Len(events) \in Nat
    /\ \A c \in DOMAIN interned : c \in DOMAIN interned' /\ interned'[c] = interned[c]
    /\ \A i \in DOMAIN new : /\ Len(interned) + i \in DOMAIN interned'
                             /\ interned'[Len(interned) + i] = TokenOf(new[i])
    /\ \A c \in DOMAIN interned' : \/ c \in DOMAIN interned
                                   \/ \E i \in DOMAIN new : c = Len(interned) + i
    /\ events' \in Seq([key : Int, resolves : Int])
    /\ \A e \in DOMAIN events : e \in DOMAIN events' /\ events'[e] = events[e]
    /\ \A i \in DOMAIN new : /\ Len(events) + i \in DOMAIN events'
                             /\ events'[Len(events) + i].resolves = new[i].ends
    /\ DOMAIN binding' = DOMAIN binding \cup {Len(interned) + i : i \in DOMAIN new}
    /\ \A c \in DOMAIN binding : c \in DOMAIN binding' /\ binding'[c] = binding[c]
    /\ \A i \in DOMAIN new :
          binding'[Len(interned) + i] = [contract |-> interned'[Len(interned) + i],
                                         event |-> Len(events) + i]

LEMMA ExtendedTables ==
    ASSUME LoadInv, NEW list, NEW new, Extended(list, new)
    PROVE  TablesAfter(new)
<1> DEFINE t == Tokens(new)
           e == Ends(new)
           E == [key : Int, resolves : Int]
           n == Len(interned)
<1>1. /\ list \in Seq(GammaMarket) /\ new = New(list)
      /\ interned' = interned \o t /\ events' = events \o e
      /\ binding' = BindTokens(new, n)
  BY DEF Extended
<1>2. /\ t \in Seq(Contract) /\ IsInjective(t) /\ e \in Seq(E)
      /\ DOMAIN t = DOMAIN new /\ DOMAIN e = DOMAIN new /\ Len(new) \in Nat
      /\ DOMAIN new = 1 .. Len(new)
      /\ \A i \in DOMAIN new : /\ ~Known(t[i]) /\ t[i] = TokenOf(new[i])
                               /\ e[i].resolves = new[i].ends
  BY <1>1, TokensAre
<1>3. interned \in Seq(Contract) /\ IsInjective(interned) /\ events \in Seq(E)
  BY DEF LoadInv, TablesOK, BindingOK
<1>4. BindingOK
  BY DEF LoadInv
<1> HIDE DEF t, e, E
<1>5. /\ interned' \in Seq(Contract) /\ n \in Nat /\ DOMAIN interned = 1 .. n
      /\ \A i \in DOMAIN interned : i \in DOMAIN interned' /\ interned'[i] = interned[i]
      /\ \A i \in DOMAIN t : n + i \in DOMAIN interned' /\ interned'[n + i] = t[i]
      /\ \A x \in DOMAIN interned' : x \in DOMAIN interned \/ \E i \in DOMAIN t : x = n + i
  BY <1>1, <1>2, <1>3, ConcatIs
<1>6. /\ events' \in Seq(E) /\ Len(events) \in Nat
      /\ \A i \in DOMAIN events : i \in DOMAIN events' /\ events'[i] = events[i]
      /\ \A i \in DOMAIN e : Len(events) + i \in DOMAIN events' /\ events'[Len(events) + i] = e[i]
  <2> DEFINE u == events \o e
  <2>1. u \in Seq(E) /\ Len(events) \in Nat
    BY <1>2, <1>3, ConcatIs
  <2>2. \A i \in DOMAIN events : i \in DOMAIN u /\ u[i] = events[i]
    BY <1>2, <1>3, ConcatIs
  <2>3. \A i \in DOMAIN e : Len(events) + i \in DOMAIN u /\ u[Len(events) + i] = e[i]
    BY <1>2, <1>3, ConcatIs
  <2>4. events' = u
    BY <1>1
  <2> HIDE DEF u
  <2> QED  BY <2>1, <2>2, <2>3, <2>4
<1>7. \A i \in DOMAIN interned : \A j \in DOMAIN t : interned[i] # t[j]
  BY <1>2 DEF Known, Ids
<1>8. IsInjective(interned')
  BY <1>1, <1>2, <1>3, <1>7, ConcatInjective
<1>9. /\ DOMAIN binding' = DOMAIN binding \cup {n + i : i \in DOMAIN new}
      /\ \A c \in DOMAIN binding : c \in DOMAIN binding' /\ binding'[c] = binding[c]
  BY <1>1 DEF BindTokens
<1>10. ASSUME NEW i \in DOMAIN new
       PROVE  binding'[n + i] = [contract |-> interned'[n + i], event |-> Len(events) + i]
  <2>1. i \in Nat /\ i >= 1
    BY <1>2
  <2>2. n + i \notin DOMAIN interned
    BY <1>5, <2>1
  <2>3. n + i \notin DOMAIN binding
    BY <1>4, <2>2 DEF BindingOK
  <2>4. binding'[n + i] = [contract |-> interned'[n + i], event |-> Len(events) + (n + i) - n]
    BY <1>1, <2>3 DEF BindTokens
  <2>5. Len(events) + (n + i) - n = Len(events) + i
    BY <1>5, <1>6, <2>1
  <2> QED  BY <2>4, <2>5
<1> QED  BY <1>2, <1>5, <1>6, <1>8, <1>9, <1>10 DEF E, TablesAfter

LEMMA ExtendedGroups ==
    ASSUME LoadInv, NEW list, NEW new, Extended(list, new)
    PROVE  /\ \E n \in Nat : DOMAIN groups' = 1 .. n
           /\ \A g \in DOMAIN groups : g \in DOMAIN groups' /\ groups'[g] = groups[g]
           /\ \A g \in DOMAIN groups' :
                 \/ g \in DOMAIN groups
                 \/ \E i \in DOMAIN new :
                       groups'[g] = GroupOf("complement", <<Len(interned) + i>>, TRUE, new[i].ends, TRUE)
<1> DEFINE N == Len(interned)
           add == Negations(new, N)
           s == [g \in DOMAIN groups |-> groups[g]]
<1>1. PICK n \in Nat : DOMAIN groups = 1 .. n
  BY DEF LoadInv, GroupsOK
<1>2. groups' = groups \o add
  BY DEF Extended
<1>3. Len(new) \in Nat /\ DOMAIN new = 1 .. Len(new)
  BY TokensAre DEF Extended
<1>4. /\ DOMAIN add = 1 .. Len(new)
      /\ \A i \in DOMAIN add : add[i] = GroupOf("complement", <<N + i>>, TRUE, new[i].ends, TRUE)
  BY <1>3 DEF Negations
<1> DEFINE k == Len(new)
<1> HIDE DEF add, k
<1>5. Len(groups) = n /\ Len(add) = k /\ k \in Nat
  BY <1>1, <1>3, <1>4 DEF k
<1>6. /\ DOMAIN groups' = 1 .. n + k
      /\ \A g \in 1 .. n + k : groups'[g] = IF g <= n THEN groups[g] ELSE add[g - n]
  <2>1. DOMAIN groups' = 1 .. n + k
    BY <1>2, <1>5
  <2>2. ASSUME NEW g \in 1 .. n + k
        PROVE  groups'[g] = IF g <= n THEN groups[g] ELSE add[g - n]
    BY <1>2, <1>5, SMTT(20)
  <2> QED  BY <2>1, <2>2
<1>7. ASSUME NEW g \in 1 .. n + k, ~(g <= n)
      PROVE  g - n \in DOMAIN add
  BY <1>4, <1>5, <1>7 DEF k
<1>8. ASSUME NEW g \in DOMAIN groups'
      PROVE  \/ g \in DOMAIN groups
             \/ \E i \in DOMAIN new :
                   groups'[g] = GroupOf("complement", <<N + i>>, TRUE, new[i].ends, TRUE)
  <2>0. g \in 1 .. n + k
    BY <1>6, <1>8
  <2>1. CASE g <= n
    <3>1. g \in 1 .. n
      BY <1>5, <2>0, <2>1
    <3> QED  BY <1>1, <3>1
  <2>2. CASE ~(g <= n)
    <3>1. groups'[g] = add[g - n]
      BY <1>6, <2>0, <2>2
    <3>2. g - n \in DOMAIN add /\ g - n \in DOMAIN new
      BY <1>3, <1>4, <1>7, <2>0, <2>2
    <3> QED  BY <1>4, <3>1, <3>2
  <2> QED  BY <2>1, <2>2
<1>9. n + k \in Nat /\ \A g \in 1 .. n : g \in 1 .. n + k /\ g <= n
  BY <1>5
<1>10. \E x \in Nat : DOMAIN groups' = 1 .. x
  BY <1>6, <1>9
<1>11. \A g \in DOMAIN groups : g \in DOMAIN groups' /\ groups'[g] = groups[g]
  BY <1>1, <1>6, <1>9
<1> QED  BY <1>8, <1>10, <1>11

LEMMA LoadExtend ==
    ASSUME LoadInv, ExtendWithPolymarket
    PROVE  LoadInv'
<1>1. /\ phase = "polymarket" /\ phase' \in {"ready", "refused"}
      /\ source' = source /\ origin' = origin /\ cursor' = cursor
      /\ \E list, new : Extended(list, new)
  BY ExtendIs
<1>2. PICK list, new : Extended(list, new)
  BY <1>1
<1>3. /\ SourceOK /\ TablesOK /\ BindingOK /\ ReadingOK /\ GroupsOK /\ PartitionsOK
  BY DEF LoadInv
<1>4. ~Unread' /\ OfListing' = OfListing /\ AtTheStart' = AtTheStart
  BY <1>1 DEF Unread, OfListing, AtTheStart
<1> DEFINE t == Tokens(new)
<1>5. /\ interned' \in Seq(Contract) /\ IsInjective(interned') /\ Len(interned) \in Nat /\ Len(events) \in Nat
      /\ \A c \in DOMAIN interned : c \in DOMAIN interned' /\ interned'[c] = interned[c]
      /\ \A i \in DOMAIN new : /\ Len(interned) + i \in DOMAIN interned'
                               /\ interned'[Len(interned) + i] = TokenOf(new[i])
      /\ events' \in Seq([key : Int, resolves : Int])
      /\ \A e \in DOMAIN events : e \in DOMAIN events' /\ events'[e] = events[e]
      /\ \A i \in DOMAIN new : /\ Len(events) + i \in DOMAIN events'
                               /\ events'[Len(events) + i].resolves = new[i].ends
      /\ DOMAIN binding' = DOMAIN binding \cup {Len(interned) + i : i \in DOMAIN new}
      /\ \A c \in DOMAIN binding : c \in DOMAIN binding' /\ binding'[c] = binding[c]
      /\ \A i \in DOMAIN new : binding'[Len(interned) + i] = [contract |-> interned'[Len(interned) + i],
                                                  event |-> Len(events) + i]
  <2>1. TablesAfter(new)
    BY <1>2, ExtendedTables
  <2> QED  BY <2>1 DEF TablesAfter
<1>6. /\ list \in Seq(GammaMarket) /\ new = New(list) /\ catalogue' = list
      /\ interned' = interned \o t
      /\ tickers' = [tickers EXCEPT !["Polymarket"] = @ \o t]
      /\ feeTable' = Registered(list, interned')
  BY <1>2 DEF Extended
<1>7. /\ t \in Seq(Contract) /\ DOMAIN t = DOMAIN new
      /\ \A i \in DOMAIN t : t[i].venue = "Polymarket"
      /\ Len(new) \in Nat /\ DOMAIN new = 1 .. Len(new)
  BY <1>6, TokensAre
<1> HIDE DEF t
<1>8. SourceOK'
  BY <1>1, <1>3, <1>4 DEF SourceOK
<1>9. TablesOK'
  <2>1. /\ tickers \in [Venue -> Seq(Contract)]
        /\ \A v \in Venue : \A i \in DOMAIN tickers[v] : tickers[v][i].venue = v
        /\ interned = StoreOrder /\ "Kalshi" \in Venue /\ "Polymarket" \in Venue
    BY <1>3 DEF TablesOK, Venue
  <2> DEFINE P == tickers["Polymarket"]
             K == tickers["Kalshi"]
             Q == P \o t
  <2>2. P \in Seq(Contract) /\ K \in Seq(Contract)
    BY <2>1
  <2>3. interned = K \o P /\ tickers'["Kalshi"] = K /\ tickers'["Polymarket"] = Q
    BY <1>6, <2>1 DEF StoreOrder
  <2>4. tickers' = [tickers EXCEPT !["Polymarket"] = Q]
    BY <1>6
  <2> HIDE DEF P, K, Q
  <2>5. K \o (P \o t) = (K \o P) \o t
    BY <1>7, <2>2, ConcatTwice
  <2>6. interned' = StoreOrder'
    BY <1>6, <2>3, <2>5 DEF StoreOrder, Q
  <2>7. /\ Q \in Seq(Contract)
        /\ \A i \in DOMAIN P : Q[i] = P[i]
        /\ \A i \in DOMAIN t : Q[Len(P) + i] = t[i]
        /\ \A x \in DOMAIN Q : x \in DOMAIN P \/ \E i \in DOMAIN t : x = Len(P) + i
    BY <1>7, <2>2, ConcatIs DEF Q
  <2>8. tickers' \in [Venue -> Seq(Contract)]
    BY <2>1, <2>4, <2>7
  <2>9. \A i \in DOMAIN P : P[i].venue = "Polymarket"
    BY <2>1 DEF P
  <2>10. \A i \in DOMAIN Q : Q[i].venue = "Polymarket"
    BY <1>7, <2>7, <2>9
  <2>11. \A v \in Venue : \A i \in DOMAIN tickers'[v] : tickers'[v][i].venue = v
    BY <2>1, <2>3, <2>10 DEF Venue, K
  <2> QED  BY <1>1, <1>4, <1>5, <2>6, <2>8, <2>11 DEF TablesOK
<1>10. FileKnown' /\ ListedEventsOK' /\ ListedOK' /\ NoCatalogueYet'
  BY <1>1 DEF FileKnown, ListedEventsOK, ListedOK, NoCatalogueYet
<1>11. BindingOK'
  <2>1. ASSUME NEW c \in DOMAIN binding'
        PROVE  /\ c \in DOMAIN interned' /\ binding'[c].contract = interned'[c]
               /\ binding'[c].event \in DOMAIN events'
    <3>1. CASE c \in DOMAIN binding
      BY <1>3, <1>5, <3>1 DEF BindingOK
    <3>2. CASE c \notin DOMAIN binding
      <4>1. PICK i \in DOMAIN new : c = Len(interned) + i
        BY <1>5, <2>1, <3>2
      <4>2. c \in DOMAIN interned'
        BY <1>5, <4>1
      <4>3. binding'[c] = [contract |-> interned'[c], event |-> Len(events) + i]
        BY <1>5, <4>1
      <4>4. Len(events) + i \in DOMAIN events'
        BY <1>5
      <4> QED  BY <4>2, <4>3, <4>4
    <3> QED  BY <3>1, <3>2
  <2> QED  BY <1>5, <2>1 DEF BindingOK
<1>12. /\ \E k \in Nat : DOMAIN groups' = 1 .. k
       /\ \A g \in DOMAIN groups : g \in DOMAIN groups' /\ groups'[g] = groups[g]
       /\ \A g \in DOMAIN groups' :
                 \/ g \in DOMAIN groups
                 \/ \E i \in DOMAIN new :
                       groups'[g] = GroupOf("complement", <<Len(interned) + i>>, TRUE, new[i].ends, TRUE)
  BY <1>2, ExtendedGroups
<1>13. GroupsOK'
  <2>1. ASSUME NEW g \in DOMAIN groups
        PROVE  UnderOneEvent(groups[g], binding', events')
    <3>1. UnderOneEvent(groups[g], binding, events)
      BY <1>3 DEF GroupsOK
    <3> QED  BY <1>5, <3>1, StaysUnderOneEvent
  <2>2. ASSUME NEW i \in DOMAIN new
        PROVE  UnderOneEvent(GroupOf("complement", <<Len(interned) + i>>, TRUE, new[i].ends, TRUE), binding', events')
    <3> DEFINE ids == <<Len(interned) + i>>
               g == GroupOf("complement", ids, TRUE, new[i].ends, TRUE)
    <3>1. Len(interned) + i \in Nat
      <4>1. Len(interned) \in Nat
        BY <1>5
      <4>2. i \in Nat
        BY <1>7
      <4> QED  BY <4>1, <4>2
    <3>2. ids \in Seq(Nat) /\ Len(ids) = 1 /\ DOMAIN ids = {1} /\ ids[1] = Len(interned) + i
      BY <3>1
    <3>3. g.members = ids /\ g.resolves = new[i].ends
      BY DEF GroupOf
    <3> HIDE DEF ids
    <3>4. IsInjective(ids)
      BY <3>2 DEF IsInjective
    <3>5. GoodArity("complement", ids) /\ GoodShape("complement", ids) /\ "complement" \in Kind
      BY <3>2, <3>4 DEF GoodArity, GoodShape, Kind
    <3>6. WellShaped(g)
      BY <3>2, <3>5, ShapeIs
    <3>7. Len(interned) + i \in DOMAIN binding' /\ binding'[Len(interned) + i].event = Len(events) + i
      <4>1. Len(interned) + i \in DOMAIN binding'
        BY <1>5
      <4>2. binding'[Len(interned) + i] = [contract |-> interned'[Len(interned) + i], event |-> Len(events) + i]
        BY <1>5
      <4> QED  BY <4>1, <4>2
    <3>8. Len(events) + i \in DOMAIN events' /\ events'[Len(events) + i].resolves = new[i].ends
      BY <1>5
    <3> HIDE DEF g
    <3> QED  BY <3>2, <3>3, <3>6, <3>7, <3>8 DEF UnderOneEvent, g, ids
  <2> QED  BY <1>12, <2>1, <2>2 DEF GroupsOK
<1>14. PartitionsOK'
  <2>1. ~Overlap(Partitions)
    BY <1>1, <1>3 DEF PartitionsOK
  <2>2. ASSUME NEW g \in DOMAIN groups', groups'[g].kind = "exhaustive"
        PROVE  g \in Partitions /\ groups'[g] = groups[g]
    <3>1. g \in DOMAIN groups
      BY <1>12, <2>2 DEF GroupOf
    <3> QED  BY <1>12, <2>2, <3>1 DEF Partitions
  <2>3. ~Overlap(Partitions)'
    BY <2>1, <2>2 DEF Overlap, Partitions
  <2> QED  BY <2>3 DEF PartitionsOK
<1>15. ReadingOK'
  <2>1. cursor \in [event : Nat, group : Nat] /\ (OfListing => AtTheStart)
    BY <1>3 DEF ReadingOK
  <2> QED  BY <1>1, <1>4, <2>1 DEF ReadingOK
<1>16. FeesOK'
  BY <1>6 DEF FeesOK
<1> QED  BY <1>8, <1>9, <1>10, <1>11, <1>13, <1>14, <1>15, <1>16 DEF LoadInv

LEMMA LoadInit ==
    ASSUME Init
    PROVE  LoadInv
<1>1. /\ source \in Sources /\ origin = <<>> /\ catalogue = <<>>
      /\ phase = (IF source.from = "file" THEN "intern" ELSE "events")
      /\ cursor = [event |-> 1, group |-> 0]
      /\ interned = <<>> /\ tickers = [v \in Venue |-> <<>>]
      /\ events = <<>> /\ binding = <<>> /\ groups = <<>> /\ feeTable = <<>>
  BY DEF Init, RegistryInit
<1>2. source \in Files \cup KalshiListings /\ source.from \in {"file", "listing"}
  BY <1>1, RegistryAssumption DEF Files, KalshiListings
<1>3. SourceOK
  BY <1>1, <1>2 DEF SourceOK, OfListing
<1>4. TablesOK
  <2>1. "Kalshi" \in Venue /\ "Polymarket" \in Venue
    BY DEF Venue
  <2>2. StoreOrder = <<>>
    BY <1>1, <2>1 DEF StoreOrder
  <2>3. <<>> \in Seq(Contract) /\ IsInjective(<<>>)
    BY DEF IsInjective
  <2>4. tickers \in [Venue -> Seq(Contract)] /\ \A v \in Venue : \A i \in DOMAIN tickers[v] : tickers[v][i].venue = v
    BY <1>1, <2>3
  <2> QED  BY <1>1, <2>2, <2>3, <2>4 DEF TablesOK
<1>5. BindingOK /\ GroupsOK
  <2>1. DOMAIN binding = {} /\ DOMAIN groups = {} /\ DOMAIN groups = 1 .. 0 /\ 0 \in Nat
    BY <1>1
  <2>2. events \in Seq([key : Int, resolves : Int])
    BY <1>1
  <2>3. BindingOK
    BY <2>1, <2>2 DEF BindingOK
  <2>4. GroupsOK
    BY <2>1 DEF GroupsOK
  <2> QED  BY <2>3, <2>4
<1>6. FileKnown /\ ListedEventsOK /\ ListedOK /\ PartitionsOK /\ NoCatalogueYet
  BY <1>1 DEF FileKnown, ListedEventsOK, ListedOK, PartitionsOK, NoCatalogueYet
<1>7. ReadingOK
  BY <1>1 DEF ReadingOK, AtTheStart
<1>8. FeesOK
  BY <1>1, EmptyRegistered DEF FeesOK
<1> QED  BY <1>3, <1>4, <1>5, <1>6, <1>7, <1>8 DEF LoadInv

LEMMA LoadStep ==
    ASSUME LoadInv, [Next]_vars
    PROVE  LoadInv'
<1>1. CASE InternFile
  BY <1>1, LoadInternFile
<1>2. CASE AddEvent
  BY <1>2, LoadAddEvent
<1>3. CASE AddGroup
  BY <1>3, LoadAddGroup
<1>4. CASE AddListedEvents
  BY <1>4, LoadAddListedEvents
<1>5. CASE InternListed
  BY <1>5, LoadInternListed
<1>6. CASE AddInferred
  BY <1>6, LoadAddInferred
<1>7. CASE Promote
  BY <1>7, LoadPromote
<1>8. CASE ExtendWithPolymarket
  BY <1>8, LoadExtend
<1>9. CASE MovesPhase
  BY <1>9, LoadMovesPhase
<1>10. CASE UNCHANGED registryVars
  BY <1>10, LoadUnchanged
<1> QED  BY <1>1, <1>2, <1>3, <1>4, <1>5, <1>6, <1>7, <1>8, <1>9, <1>10, StepKinds

(* Loading keeps its invariant whatever the sources and catalogues are.    *)
THEOREM LoadInvariant == Spec => []LoadInv
<1>1. Init => LoadInv
  BY LoadInit
<1>2. LoadInv /\ [Next]_vars => LoadInv'
  BY LoadStep
<1> QED  BY <1>1, <1>2, PTL DEF Spec

(* IdsAgree: an id is one contract to the registry, the store and the      *)
(* feeds, whatever the file, the listing or the catalogue.                 *)
THEOREM ArbitrageIds == Spec => []IdsAgree
<1>1. LoadInv => IdsAgree
  <2> SUFFICES ASSUME LoadInv, Trading
               PROVE  interned = StoreOrder /\ \A id \in DOMAIN binding : binding[id].contract = StoreOrder[id]
    BY DEF IdsAgree
  <2>1. TablesOK /\ BindingOK
    BY DEF LoadInv
  <2> QED  BY <2>1 DEF TablesOK, BindingOK
<1> QED  BY <1>1, LoadInvariant, PTL

(* OneQuestionEach: no group relates contracts of two events, and no two   *)
(* exhaustive sets share a contract.                                       *)
THEOREM ArbitrageOneQuestion == Spec => []OneQuestionEach
<1>1. LoadInv => OneQuestionEach
  <2> SUFFICES ASSUME LoadInv, Trading
               PROVE  /\ \A g \in DOMAIN groups : \E e \in DOMAIN events :
                            /\ \A i \in DOMAIN groups[g].members : binding[groups[g].members[i]].event = e
                            /\ events[e].resolves = groups[g].resolves
                      /\ ~Overlap(Partitions)
    BY DEF OneQuestionEach
  <2>1. ~Overlap(Partitions)
    BY DEF LoadInv, PartitionsOK, Trading
  <2>2. ASSUME NEW g \in DOMAIN groups
        PROVE  \E e \in DOMAIN events :
                  /\ \A i \in DOMAIN groups[g].members : binding[groups[g].members[i]].event = e
                  /\ events[e].resolves = groups[g].resolves
    BY DEF LoadInv, GroupsOK, UnderOneEvent
  <2> QED  BY <2>1, <2>2
<1> QED  BY <1>1, LoadInvariant, PTL

-----------------------------------------------------------------------------
LEMMA LastListedIs ==
    ASSUME source \in KalshiListings, source \in Sources, NEW j \in DOMAIN Listed
    PROVE  /\ LastListed(Listed[j].key).event = Listed[j].event
           /\ LastListed(Listed[j].key).type = Listed[j].type
           /\ LastListed(Listed[j].key).strike = Listed[j].strike
<1> DEFINE ms == Listed
           S == {i \in DOMAIN ms : ms[i].key = ms[j].key}
<1>1. ms \in Seq(KalshiMarket)
  BY ListedIs
<1>2. IsFiniteSet(DOMAIN ms) /\ DOMAIN ms \subseteq Int
  <2>1. IsFiniteSet(DOMAIN ms)
    BY <1>1, FiniteRange
  <2>2. DOMAIN ms = 1 .. Len(ms)
    BY <1>1
  <2> QED  BY <2>1, <2>2
<1>3. j \in S /\ IsFiniteSet(S) /\ S \subseteq Int
  BY <1>2, FS_Subset
<1>4. Max(S) \in S
  BY <1>3, GreatestOf
<1>5. LastListed(Listed[j].key) = Listed[Max(S)]
  BY DEF LastListed
<1>6. Max(S) \in DOMAIN Listed /\ Listed[Max(S)].key = Listed[j].key
  BY <1>4
<1> QED  BY <1>5, <1>6, SameTicker

LEMMA NoBadGroup ==
    ASSUME source \in KalshiListings, source \in Sources, NEW g, InferredFrom(g)
    PROVE  ~BadGroup(g)
<1> DEFINE m == g.markets
           ms == [i \in DOMAIN m |-> LastListed(m[i].key)]
<1>1. /\ m \in Seq(KalshiMarket) /\ Len(m) \in Nat /\ DOMAIN m = 1 .. Len(m)
      /\ \A i \in DOMAIN m : m[i] \in KalshiMarket
  BY DEF InferredFrom, InferredGroup
<1>2. ASSUME NEW i \in DOMAIN m
      PROVE  ms[i].event = g.event /\ ms[i].type = m[i].type /\ ms[i].strike = m[i].strike
  <2>1. m[i].event = g.event
    BY DEF InferredFrom
  <2>2. PICK k \in DOMAIN Listed : m[i] = Listed[k]
    BY DEF InferredFrom
  <2>3. ms[i] = LastListed(Listed[k].key)
    BY <2>2
  <2> HIDE DEF ms
  <2> QED  BY <2>1, <2>2, <2>3, LastListedIs
<1>3. /\ DOMAIN ms = DOMAIN m /\ Len(ms) = Len(m)
  <2>1. DOMAIN ms = DOMAIN m
    OBVIOUS
  <2>2. DOMAIN ms = 1 .. Len(m) /\ Len(m) \in Nat
    BY <1>1, <2>1
  <2> HIDE DEF ms
  <2> QED  BY <2>1, <2>2
<1>4. BadGroup(g) = ( \/ \E i \in DOMAIN ms : ms[i].event # g.event
                      \/ g.kind = "exhaustive" /\ (Len(ms) < 2 \/ ~Exclusive(g.event))
                      \/ g.kind = "monotone" /\ BadLadder(ms))
  BY DEF BadGroup
<1> HIDE DEF ms
<1>5. g.kind = "exhaustive" => Len(ms) >= 2 /\ Exclusive(g.event)
  BY <1>3 DEF InferredFrom
<1>6. ASSUME g.kind = "monotone"
      PROVE  ~BadLadder(ms)
  <2>1. Rungs(m) /\ Len(m) >= 2
    BY <1>6 DEF InferredFrom
  <2>2. PICK type \in {"greater", "less"} : \A i \in DOMAIN m : m[i].type = type
    BY <2>1 DEF Rungs
  <2>3. \A i \in DOMAIN m : m[i].strike # NoStrike /\ m[i].strike \in Int
    BY <2>1 DEF Rungs
  <2>4. \A i, j \in DOMAIN m : i < j => Threshold(m[i]) < Threshold(m[j])
    BY <2>1 DEF Rungs
  <2>5. ASSUME NEW i \in DOMAIN m, NEW j \in DOMAIN m, i # j
        PROVE  m[i].strike # m[j].strike
    <3>1. Threshold(m[i]) \in Int /\ Threshold(m[j]) \in Int /\ Threshold(m[i]) # Threshold(m[j])
      <4>1. Threshold(m[i]) \in Int /\ Threshold(m[j]) \in Int
        BY <2>3, ThresholdIs
      <4>2. i < j \/ j < i
        BY <1>1, <2>5
      <4>3. Threshold(m[i]) < Threshold(m[j]) \/ Threshold(m[j]) < Threshold(m[i])
        BY <2>4, <4>2
      <4> QED  BY <4>1, <4>3
    <3>2. m[i].strike \in Int /\ m[j].strike \in Int /\ m[i].type = type /\ m[j].type = type
      BY <2>2, <2>3
    <3> QED  BY <3>1, <3>2, ThresholdIs
  <2>6. 1 \in DOMAIN m
    BY <1>1, <2>1
  <2>7. \A i \in DOMAIN ms : ms[i].type = type /\ ms[i].strike # NoStrike
    BY <1>2, <1>3, <2>2, <2>3
  <2>8. \A i, j \in DOMAIN ms : i # j => ms[i].strike # ms[j].strike
    BY <1>2, <1>3, <2>5
  <2>9. ms[1].type = type
    BY <1>3, <2>6, <2>7
  <2> QED  BY <2>2, <2>7, <2>8, <2>9 DEF BadLadder
<1> QED  BY <1>2, <1>3, <1>4, <1>5, <1>6

(* InferenceIsSound: what discovery infers, the validator finds sound, and *)
(* in a listing it passes no group is over.                                *)
THEOREM ArbitrageInference == Spec => []InferenceIsSound
<1>1. LoadInv => InferenceIsSound
  <2> SUFFICES ASSUME LoadInv, source.from = "listing", phase = "check"
               PROVE  /\ BadGroups = {}
                      /\ ClosedBy(Now) = {} => \A g \in DOMAIN groups : groups[g].resolves > Now
    BY DEF InferenceIsSound
  <2>1. source \in KalshiListings /\ source \in Sources /\ OfListing
    BY ListingRead DEF OfListing
  <2>2. BadGroups = {}
    <3> SUFFICES ASSUME NEW k \in DOMAIN InferredGroups
                 PROVE  ~BadGroup(InferredGroups[k])
      BY DEF BadGroups, ToSet
    <3> DEFINE C == {g \in InferredGroup : InferredFrom(g)}
    <3>1. InferredGroups \in Seq(C)
      BY <2>1, InferredGroupsAre
    <3> HIDE DEF C
    <3>2. InferredGroups[k] \in C
      BY <3>1
    <3> QED  BY <2>1, <3>2, NoBadGroup DEF C
  <2>3. ASSUME ClosedBy(Now) = {}, NEW g \in DOMAIN groups
        PROVE  groups[g].resolves > Now
    <3>1. PICK e \in DOMAIN events : events[e].resolves = groups[g].resolves
      BY DEF LoadInv, GroupsOK, UnderOneEvent
    <3> DEFINE t == groups[g].resolves
    <3>2. Closes(events[e].key) # {} /\ t = Min(Closes(events[e].key))
      BY <2>1, <3>1 DEF LoadInv, ListedEventsOK
    <3>3. t \in Closes(events[e].key) /\ t \in Int
      BY <2>1, <3>2, ClosesAre
    <3>4. PICK i \in DOMAIN Listed : Listed[i].close = t
      BY <2>1, <3>3, ClosesAre
    <3>5. Listed[i] \in ToSet(Listed)
      BY DEF ToSet
    <3>6. Listed[i] \notin ClosedBy(Now)
      BY <2>3
    <3>7. ~(t <= Now)
      BY <3>4, <3>5, <3>6 DEF ClosedBy
    <3> QED  BY <3>3, <3>7, ArbitrageAssumption
  <2> QED  BY <2>2, <2>3
<1> QED  BY <1>1, LoadInvariant, PTL

-----------------------------------------------------------------------------
(* The ranking of opportunities is an order.                               *)
LEMMA ProductOrder ==
    ASSUME NEW x \in Int, NEW y \in Int, NEW k \in Nat \ {0}
    PROVE  /\ x <= y <=> k * x <= k * y
           /\ x < y <=> k * x < k * y
<1>1. x < y => k * x < k * y
  <2> SUFFICES ASSUME x < y PROVE k * x < k * y
    OBVIOUS
  <2> DEFINE d == y - x
  <2>1. d \in Nat \ {0} /\ y = x + d
    OBVIOUS
  <2> HIDE DEF d
  <2>2. k * y = k * x + k * d
    BY <2>1
  <2>3. k * d >= 1 /\ k * d \in Int /\ k * x \in Int
    BY <2>1
  <2> QED  BY <2>2, <2>3
<1>2. y < x => k * y < k * x
  <2> SUFFICES ASSUME y < x PROVE k * y < k * x
    OBVIOUS
  <2> DEFINE d == x - y
  <2>1. d \in Nat \ {0} /\ x = y + d
    OBVIOUS
  <2> HIDE DEF d
  <2>2. k * x = k * y + k * d
    BY <2>1
  <2>3. k * d >= 1 /\ k * d \in Int /\ k * y \in Int
    BY <2>1
  <2> QED  BY <2>2, <2>3
<1>3. k * x \in Int /\ k * y \in Int
  OBVIOUS
<1>4. x = y \/ x < y \/ y < x
  OBVIOUS
<1> DEFINE a == k * x
           b == k * y
<1>5. (x < y => a < b) /\ (y < x => b < a) /\ (x = y => a = b) /\ a \in Int /\ b \in Int
  BY <1>1, <1>2, <1>3
<1> HIDE DEF a, b
<1>6. (x <= y <=> a <= b) /\ (x < y <=> a < b)
  BY <1>4, <1>5
<1> QED  BY <1>6 DEF a, b

(* Of three returns n / c, the comparisons by cross multiplication.        *)
LEMMA RatioOrder ==
    ASSUME NEW n1 \in Nat \ {0}, NEW n2 \in Nat \ {0}, NEW n3 \in Nat \ {0},
           NEW c1 \in Nat, NEW c2 \in Nat, NEW c3 \in Nat,
           n1 * c2 >= n2 * c1, n2 * c3 >= n3 * c2
    PROVE  /\ n1 * c3 >= n3 * c1
           /\ n1 * c3 = n3 * c1 => n1 * c2 = n2 * c1 /\ n2 * c3 = n3 * c2
<1> DEFINE A == n1 * c2
           B == n2 * c1
           C == n2 * c3
           D == n3 * c2
           E == n1 * c3
           F == n3 * c1
<1>1. A \in Int /\ B \in Int /\ C \in Int /\ D \in Int /\ E \in Int /\ F \in Int
  OBVIOUS
<1>2. n2 * E = n1 * C /\ n1 * D = n3 * A /\ n3 * B = n2 * F
  <2>1. n2 * (n1 * c3) = n1 * (n2 * c3)
    OBVIOUS
  <2>2. n1 * (n3 * c2) = n3 * (n1 * c2)
    OBVIOUS
  <2>3. n3 * (n2 * c1) = n2 * (n3 * c1)
    OBVIOUS
  <2> QED  BY <2>1, <2>2, <2>3
<1>3. A >= B /\ C >= D
  OBVIOUS
<1> HIDE DEF A, B, C, D, E, F
<1>4. /\ n1 * D <= n1 * C /\ (D < C => n1 * D < n1 * C)
      /\ n3 * B <= n3 * A /\ (B < A => n3 * B < n3 * A)
  <2>1. n1 * D <= n1 * C /\ (D < C => n1 * D < n1 * C)
    BY <1>1, <1>3, ProductOrder
  <2>2. n3 * B <= n3 * A /\ (B < A => n3 * B < n3 * A)
    BY <1>1, <1>3, ProductOrder
  <2> QED  BY <2>1, <2>2
<1> DEFINE x == n2 * E
           y == n2 * F
           z == n1 * D
<1>5. /\ y <= z /\ (B < A => y < z) /\ z <= x /\ (D < C => z < x)
      /\ x \in Int /\ y \in Int /\ z \in Int
  <2>1. x \in Int /\ y \in Int /\ z \in Int
    BY <1>1
  <2> QED  BY <1>2, <1>4, <2>1
<1>6. (F <= E <=> y <= x) /\ (F < E <=> y < x)
  BY <1>1, ProductOrder
<1> HIDE DEF x, y, z
<1>7. F <= E
  BY <1>5, <1>6
<1>8. (B < A \/ D < C) => F < E
  BY <1>5, <1>6
<1>9. E >= F /\ (E = F => A = B /\ C = D)
  BY <1>1, <1>3, <1>7, <1>8
<1> QED  BY <1>9 DEF A, B, C, D, E, F

Rankable(o) == o.net \in Nat \ {0} /\ o.capital \in Nat /\ o.hours \in Nat \ {0}

Locked(o) == o.capital * o.hours

LEMMA OutranksIs ==
    ASSUME NEW a, NEW b, Rankable(a), Rankable(b)
    PROVE  /\ Locked(a) \in Nat /\ Locked(b) \in Nat
           /\ a.net * Locked(b) \in Int /\ b.net * Locked(a) \in Int
           /\ Outranks(a, b) <=> \/ a.net * Locked(b) > b.net * Locked(a)
                                 \/ a.net * Locked(b) = b.net * Locked(a) /\ a.net > b.net
<1>1. /\ a.net \in Nat \ {0} /\ a.capital \in Nat /\ a.hours \in Nat
      /\ b.net \in Nat \ {0} /\ b.capital \in Nat /\ b.hours \in Nat
  BY DEF Rankable
<1> DEFINE n == a.net
           m == b.net
           c == a.capital
           d == b.capital
           h == a.hours
           k == b.hours
<1>2. Outranks(a, b) = (\/ n * d * k > m * c * h \/ (n * d * k = m * c * h /\ n > m))
  BY DEF Outranks
<1>3. Locked(a) = c * h /\ Locked(b) = d * k
  BY DEF Locked
<1>4. n \in Nat /\ m \in Nat /\ c \in Nat /\ d \in Nat /\ h \in Nat /\ k \in Nat
  BY <1>1
<1>7. a.net = n /\ b.net = m
  OBVIOUS
<1> HIDE DEF n, m, c, d, h, k
<1>5. n * d * k = n * (d * k) /\ m * c * h = m * (c * h)
  BY <1>4
<1>6. c * h \in Nat /\ d * k \in Nat /\ n * (d * k) \in Int /\ m * (c * h) \in Int
  BY <1>4
<1> QED  BY <1>2, <1>3, <1>5, <1>6, <1>7

LEMMA WeakOrder ==
    ASSUME NEW a, NEW b, NEW c, Rankable(a), Rankable(b), Rankable(c)
    PROVE  /\ ~Outranks(a, a) /\ ~(Outranks(a, b) /\ Outranks(b, a))
           /\ ~Outranks(b, a) /\ ~Outranks(c, b) => ~Outranks(c, a)
<1>1. a.net \in Nat \ {0} /\ b.net \in Nat \ {0} /\ c.net \in Nat \ {0}
  BY DEF Rankable
<1> DEFINE n1 == a.net
           n2 == b.net
           n3 == c.net
           c1 == Locked(a)
           c2 == Locked(b)
           c3 == Locked(c)
<1>2. /\ c1 \in Nat /\ c2 \in Nat /\ c3 \in Nat
      /\ n1 * c2 \in Int /\ n2 * c1 \in Int /\ n2 * c3 \in Int /\ n3 * c2 \in Int
      /\ n1 * c3 \in Int /\ n3 * c1 \in Int
      /\ Outranks(a, b) <=> (n1 * c2 > n2 * c1 \/ (n1 * c2 = n2 * c1 /\ n1 > n2))
      /\ Outranks(b, a) <=> (n2 * c1 > n1 * c2 \/ (n2 * c1 = n1 * c2 /\ n2 > n1))
      /\ Outranks(c, b) <=> (n3 * c2 > n2 * c3 \/ (n3 * c2 = n2 * c3 /\ n3 > n2))
      /\ Outranks(c, a) <=> (n3 * c1 > n1 * c3 \/ (n3 * c1 = n1 * c3 /\ n3 > n1))
      /\ Outranks(a, a) <=> (n1 * c1 > n1 * c1 \/ (n1 * c1 = n1 * c1 /\ n1 > n1))
      /\ n1 * c1 \in Int
  BY OutranksIs
<1>3. n1 \in Nat \ {0} /\ n2 \in Nat \ {0} /\ n3 \in Nat \ {0}
  BY <1>1
<1> HIDE DEF n1, n2, n3, c1, c2, c3
<1>4. ~Outranks(a, a) /\ ~(Outranks(a, b) /\ Outranks(b, a))
  <2>1. ~Outranks(a, a)
    BY <1>2, <1>3
  <2> DEFINE x == n1 * c2
             y == n2 * c1
  <2>2. /\ x \in Int /\ y \in Int
        /\ Outranks(a, b) <=> (x > y \/ (x = y /\ n1 > n2))
        /\ Outranks(b, a) <=> (y > x \/ (y = x /\ n2 > n1))
    BY <1>2
  <2> HIDE DEF x, y
  <2> QED  BY <1>3, <2>1, <2>2
<1>5. ASSUME ~Outranks(b, a), ~Outranks(c, b)
      PROVE  ~Outranks(c, a)
  <2>1. n1 * c2 >= n2 * c1 /\ (n1 * c2 = n2 * c1 => n1 >= n2)
    <3> DEFINE x == n1 * c2
               y == n2 * c1
    <3>1. x \in Int /\ y \in Int /\ ~(y > x \/ (y = x /\ n2 > n1))
      BY <1>2, <1>5
    <3> HIDE DEF x, y
    <3>2. x >= y /\ (x = y => n1 >= n2)
      BY <1>3, <3>1
    <3> QED  BY <3>2 DEF x, y
  <2>2. n2 * c3 >= n3 * c2 /\ (n2 * c3 = n3 * c2 => n2 >= n3)
    <3> DEFINE x == n2 * c3
               y == n3 * c2
    <3>1. x \in Int /\ y \in Int /\ ~(y > x \/ (y = x /\ n3 > n2))
      BY <1>2, <1>5
    <3> HIDE DEF x, y
    <3>2. x >= y /\ (x = y => n2 >= n3)
      BY <1>3, <3>1
    <3> QED  BY <3>2 DEF x, y
  <2>3. /\ n1 * c3 >= n3 * c1
        /\ n1 * c3 = n3 * c1 => n1 * c2 = n2 * c1 /\ n2 * c3 = n3 * c2
    BY <1>2, <1>3, <2>1, <2>2, RatioOrder
  <2>4. n1 * c3 = n3 * c1 => n1 >= n3
    BY <1>3, <2>1, <2>2, <2>3
  <2> DEFINE x == n1 * c3
             y == n3 * c1
  <2>5. x \in Int /\ y \in Int /\ x >= y /\ (x = y => n1 >= n3)
        /\ (Outranks(c, a) <=> (y > x \/ (y = x /\ n3 > n1)))
    BY <1>2, <2>3, <2>4
  <2> HIDE DEF x, y
  <2> QED  BY <1>3, <2>5
<1> QED  BY <1>4, <1>5

(* Places counted by what comes no later.                                  *)
LEMMA PlacesAre ==
    ASSUME NEW n \in Nat, NEW before \in [1 .. n -> SUBSET (1 .. n)],
           \A i \in 1 .. n : i \in before[i],
           \A i, j \in 1 .. n : i # j => \/ before[i] \subseteq before[j] /\ j \notin before[i]
                                         \/ before[j] \subseteq before[i] /\ i \notin before[j]
    PROVE  LET place == [i \in 1 .. n |-> Cardinality(before[i])]
           IN  place \in [1 .. n -> 1 .. n] /\ \A i, j \in 1 .. n : place[i] = place[j] => i = j
<1> DEFINE place == [i \in 1 .. n |-> Cardinality(before[i])]
<1>1. IsFiniteSet(1 .. n) /\ Cardinality(1 .. n) = n
  BY IndexSet
<1>2. ASSUME NEW i \in 1 .. n
      PROVE  /\ IsFiniteSet(before[i]) /\ Cardinality(before[i]) \in Nat
             /\ place[i] \in 1 .. n /\ place[i] = Cardinality(before[i])
  <2>1. before[i] \in SUBSET (1 .. n) /\ i \in before[i]
    OBVIOUS
  <2>2. IsFiniteSet(before[i]) /\ Cardinality(before[i]) <= n
    BY <1>1, <2>1, FS_Subset
  <2>3. Cardinality(before[i]) \in Nat /\ Cardinality(before[i]) # 0
    BY <2>1, <2>2, FS_EmptySet, FS_CardinalityType
  <2> QED  BY <2>2, <2>3
<1>3. ASSUME NEW i \in 1 .. n, NEW j \in 1 .. n, before[i] \subseteq before[j], j \notin before[i]
      PROVE  place[i] # place[j]
  <2>1. j \in before[j]
    OBVIOUS
  <2>2. before[i] # before[j]
    BY <1>3, <2>1
  <2>3. Cardinality(before[i]) # Cardinality(before[j])
    BY <1>2, <1>3, <2>2, FS_Subset
  <2> QED  BY <1>2, <2>3
<1>4. \A i, j \in 1 .. n : place[i] = place[j] => i = j
  BY <1>3
<1> QED  BY <1>2, <1>4

LEMMA RankIs ==
    ASSUME NEW T, NEW found \in Seq(T), \A i \in DOMAIN found : Rankable(found[i])
    PROVE  /\ Rank(found) \in Seq(T) /\ Len(Rank(found)) = Len(found)
           /\ \A k \in DOMAIN Rank(found) : \E i \in DOMAIN found : Rank(found)[k] = found[i]
<1> DEFINE n == Len(found)
           first(j, i) == Outranks(found[j], found[i]) \/ (j <= i /\ ~Outranks(found[i], found[j]))
           before == [i \in 1 .. n |-> {j \in 1 .. n : first(j, i)}]
           place == [i \in 1 .. n |-> Cardinality(before[i])]
<1>1. n \in Nat /\ DOMAIN found = 1 .. n
  OBVIOUS
<1>2. Rank(found) = Arranged(found, place)
  <2>1. DOMAIN found = 1 .. n
    OBVIOUS
  <2>2. [i \in DOMAIN found |-> Cardinality({j \in DOMAIN found :
                            \/ Outranks(found[j], found[i])
                            \/ j <= i /\ ~Outranks(found[i], found[j])})] = place
    BY <2>1
  <2> QED  BY <2>2 DEF Rank
<1>3. \A i \in 1 .. n : Rankable(found[i])
  BY <1>1
<1>4. \A i, j, k \in 1 .. n : /\ ~Outranks(found[i], found[i])
                              /\ ~(Outranks(found[i], found[j]) /\ Outranks(found[j], found[i]))
                              /\ ~Outranks(found[j], found[i]) /\ ~Outranks(found[k], found[j])
                                    => ~Outranks(found[k], found[i])
  BY <1>3, WeakOrder
<1> HIDE DEF n
<1>5. /\ before \in [1 .. n -> SUBSET (1 .. n)]
      /\ \A i, j \in 1 .. n : j \in before[i] <=> first(j, i)
  OBVIOUS
<1> HIDE DEF before
<1>6. \A i \in 1 .. n : i \in before[i]
  BY <1>1, <1>4, <1>5
<1>7. ASSUME NEW i \in 1 .. n, NEW j \in 1 .. n, i # j, first(i, j)
      PROVE  before[i] \subseteq before[j] /\ j \notin before[i]
  <2>1. ~first(j, i)
    BY <1>1, <1>4, <1>7
  <2>2. ASSUME NEW k \in 1 .. n, first(k, i)
        PROVE  first(k, j)
    BY <1>1, <1>4, <1>7, <2>2
  <2> QED  BY <1>5, <2>1, <2>2
<1>8. ASSUME NEW i \in 1 .. n, NEW j \in 1 .. n, i # j
      PROVE  first(i, j) \/ first(j, i)
  BY <1>1, <1>8
<1>9. \A i, j \in 1 .. n : i # j => \/ before[i] \subseteq before[j] /\ j \notin before[i]
                                    \/ before[j] \subseteq before[i] /\ i \notin before[j]
  BY <1>7, <1>8
<1>10. place \in [1 .. n -> 1 .. n] /\ \A i, j \in 1 .. n : place[i] = place[j] => i = j
  BY <1>1, <1>5, <1>6, <1>9, PlacesAre
<1> HIDE DEF place
<1>11. place \in [DOMAIN found -> DOMAIN found] /\ \A i, j \in DOMAIN found : place[i] = place[j] => i = j
  BY <1>1, <1>10
<1>12. /\ Arranged(found, place) \in Seq(T) /\ Len(Arranged(found, place)) = Len(found)
       /\ DOMAIN Arranged(found, place) = DOMAIN found
       /\ \A k \in DOMAIN found : \E i \in DOMAIN found : Arranged(found, place)[k] = found[i]
  BY <1>11, ArrangedIs
<1> QED  BY <1>2, <1>12

-----------------------------------------------------------------------------
(* The store and what was found in it.                                     *)

(* A store of the contracts there are.                                     *)
StoreOf(bs) ==
    /\ DOMAIN bs = DOMAIN StoreOrder
    /\ \A i \in DOMAIN bs : /\ bs[i].venue = StoreOrder[i].venue
                            /\ bs[i].bids \in Shapes

BooksOK ==
    /\ StoreOf(books)
    /\ market \in [ToSet(StoreOrder) -> Shapes]
    /\ \A i \in DOMAIN books : books[i].live => books[i].bids = market[StoreOrder[i]]

(* An opportunity is the costing of a candidate of a group that passed the *)
(* gate.                                                                   *)
FoundIn(o, gs, bs, table) ==
    \E k \in DOMAIN gs :
        /\ Confirmed(gs[k]) /\ Fresh(gs[k], bs)
        /\ \E legs : /\ CandidateOf(gs[k], bs, legs)
                     /\ o = CostCandidate(gs[k], legs, bs, table, Now)

AllFound(s, gs, bs, table) ==
    /\ \E n \in Nat : DOMAIN s = 1 .. n
    /\ \A i \in DOMAIN s : FoundIn(s[i], gs, bs, table)

FoundOK ==
    /\ AllFound(accepted, groups, books, feeTable)
    /\ AllFound(refused, groups, books, feeTable)
    /\ \A i \in DOMAIN accepted : accepted[i].reason = "none"
    /\ \A i \in DOMAIN refused : refused[i].reason # "none"

StoreInv ==
    /\ ~Trading => accepted = <<>> /\ refused = <<>>
    /\ Trading => BooksOK /\ FoundOK

LEMMA EmptyFound ==
    ASSUME NEW gs, NEW bs, NEW table
    PROVE  AllFound(<<>>, gs, bs, table) /\ DOMAIN <<>> = {}
<1>1. DOMAIN <<>> = {} /\ DOMAIN <<>> = 1 .. 0
  OBVIOUS
<1> QED  BY <1>1 DEF AllFound

LEMMA PriceOfOther ==
    ASSUME NEW p \in 0 .. 100, NEW q \in 0 .. 100
    PROVE  100 - p \in 0 .. 100 /\ (q <= p => 100 - p <= 100 - q)
OBVIOUS

(* Bids read as offers of the other outcome.                               *)
LEMMA AsksAre ==
    ASSUME NEW book, book.bids \in Shapes, NEW side \in {"yes", "no"}
    PROVE  IsOffer(Asks(book, side))
<1> DEFINE b == book.bids[Other(side)]
           n == Len(b)
           a == Asks(book, side)
<1>1. BestFirst(b)
  BY ArbitrageAssumption DEF Other
<1>2. /\ b \in Seq(Level) /\ n \in Nat /\ DOMAIN b = 1 .. n
      /\ \A i \in 1 .. n : /\ b[i].size \in Nat \ {0} /\ b[i].price \in 0 .. 100
                          /\ b[i].price \in Int
      /\ \A i \in 2 .. n : b[i].price <= b[i - 1].price
  BY <1>1, LevelsOf DEF BestFirst
<1>3. a = [i \in 1 .. n |-> [price |-> Dollar - b[i].price, size |-> b[i].size]]
  BY <1>2 DEF Asks
<1> HIDE DEF b, n, a
<1>4. ASSUME NEW i \in 1 .. n
      PROVE  a[i] \in Level /\ a[i].price = 100 - b[i].price
  <2>1. a[i] = [price |-> 100 - b[i].price, size |-> b[i].size]
    BY <1>3 DEF Dollar
  <2>0. b[i].price \in 0 .. 100 /\ b[i].size \in Nat \ {0}
    BY <1>2
  <2>2. 100 - b[i].price \in 0 .. 100 /\ b[i].size \in Nat \ {0}
    BY <2>0, PriceOfOther
  <2>3. a[i] \in [price : 0 .. 100, size : Nat \ {0}]
    BY <2>1, <2>2
  <2>4. a[i].price = 100 - b[i].price
    BY <2>1
  <2>5. a[i] \in Level
    BY <2>3 DEF Level, Dollar
  <2> QED  BY <2>4, <2>5
<1>5. a = [i \in 1 .. n |-> a[i]] /\ DOMAIN a = 1 .. n
  BY <1>3
<1>6. a \in Seq(Level)
  BY <1>2, <1>4, <1>5
<1>7. ASSUME NEW i \in 1 .. n
      PROVE  \A j \in 1 .. n : i <= j => b[j].price <= b[i].price
  <2> DEFINE Bad == {j \in 1 .. n : i <= j /\ ~(b[j].price <= b[i].price)}
  <2>1. SUFFICES ASSUME Bad # {} PROVE FALSE
    OBVIOUS
  <2>2. Bad \subseteq Nat
    OBVIOUS
  <2>3. PICK j \in Bad : \A k \in Bad : j <= k
    <3> HIDE DEF Bad
    <3> QED  BY <2>1, <2>2, LeastNatural
  <2>4. j \in 1 .. n /\ b[i].price \in Int /\ b[j].price \in Int
    BY <1>2, <2>3
  <2>5. i # j /\ i <= j /\ j \in 1 .. n
    BY <2>3, <2>4
  <2>6. j \in 2 .. n /\ j - 1 \in 1 .. n /\ i <= j - 1 /\ ~(j <= j - 1)
    BY <1>2, <2>5
  <2>7. b[j - 1].price <= b[i].price /\ b[j - 1].price \in Int
    <3>1. j - 1 \notin Bad
      BY <2>3, <2>6
    <3> QED  BY <1>2, <2>6, <3>1
  <2>8. b[j].price <= b[j - 1].price
    BY <1>2, <2>6
  <2> QED  BY <2>3, <2>4, <2>7, <2>8
<1>8. ASSUME NEW i \in DOMAIN a, NEW j \in DOMAIN a, i <= j
      PROVE  a[i].price <= a[j].price
  <2>1. i \in 1 .. n /\ j \in 1 .. n
    BY <1>5
  <2>2. b[j].price <= b[i].price /\ b[j].price \in 0 .. 100 /\ b[i].price \in 0 .. 100
    BY <1>2, <1>7, <1>8, <2>1
  <2>3. a[i].price = 100 - b[i].price /\ a[j].price = 100 - b[j].price
    BY <1>4, <2>1
  <2>4. 100 - b[i].price <= 100 - b[j].price
    BY <2>2, PriceOfOther
  <2> QED  BY <2>3, <2>4
<1> QED  BY <1>6, <1>8 DEF IsOffer, a

LEMMA CategoryIs ==
    ASSUME LoadInv, NEW c
    PROVE  Category(feeTable, c) \in FeeCategory
<1> DEFINE last == catalogue[Max({k \in DOMAIN catalogue : interned[c] = TokenOf(catalogue[k])})]
<1>1. c \in DOMAIN feeTable => feeTable[c] = MarketCategory(last)
  BY DEF LoadInv, FeesOK, Registered
<1>2. \A m : MarketCategory(m) \in FeeCategory
  BY DEF MarketCategory, FromFeeType, FeeCategory
<1>3. "Crypto" \in FeeCategory
  BY DEF FeeCategory
<1> HIDE DEF last
<1> QED  BY <1>1, <1>2, <1>3 DEF Category

(* What a candidate is costed from.                                        *)
LEMMA CandidateCosts ==
    ASSUME LoadInv, NEW bs, StoreOf(bs), NEW k \in DOMAIN groups,
           NEW legs, CandidateOf(groups[k], bs, legs)
    PROVE  /\ Costable(legs, bs, feeTable)
           /\ \A j \in DOMAIN legs : /\ IsOffer(AsksOf(legs, bs, j))
                                     /\ legs[j].contract \in DOMAIN binding
                                     /\ legs[j].contract \in DOMAIN interned
                                     /\ legs[j].contract \in DOMAIN bs
                                     /\ legs[j].side \in {"yes", "no"}
           /\ WellShaped(groups[k]) /\ LegsOf(groups[k], legs)
           /\ PayoffOf(groups[k], legs) \in Int /\ PayoffOf(groups[k], legs) >= 100
<1> DEFINE g == groups[k]
<1>1. UnderOneEvent(g, binding, events)
  BY DEF LoadInv, GroupsOK
<1>2. WellShaped(g) /\ \A i \in DOMAIN g.members : g.members[i] \in DOMAIN binding
  BY <1>1 DEF UnderOneEvent
<1>3. LegsOf(g, legs) /\ \A j \in DOMAIN legs : AsksOf(legs, bs, j) # <<>>
  BY DEF CandidateOf
<1> HIDE DEF g
<1>4. PayoffOf(g, legs) \in Int /\ PayoffOf(g, legs) >= 100
  BY <1>2, <1>3, PayoffIs
<1>5. \A c \in DOMAIN binding : c \in DOMAIN interned
  BY DEF LoadInv, BindingOK
<1>6. DOMAIN bs = DOMAIN interned
  BY DEF LoadInv, TablesOK, StoreOf
<1>7. ASSUME NEW j \in DOMAIN legs
      PROVE  /\ IsOffer(AsksOf(legs, bs, j))
             /\ legs[j].contract \in DOMAIN binding
             /\ legs[j].contract \in DOMAIN interned
             /\ legs[j].contract \in DOMAIN bs
             /\ legs[j].side \in {"yes", "no"}
  <2>1. /\ \E i \in DOMAIN g.members : legs[j].contract = g.members[i]
        /\ legs[j].side \in {"yes", "no"}
    BY <1>3 DEF LegsOf
  <2>2. /\ legs[j].contract \in DOMAIN binding /\ legs[j].contract \in DOMAIN interned
        /\ legs[j].contract \in DOMAIN bs
    BY <1>2, <1>5, <1>6, <2>1
  <2>3. bs[legs[j].contract].bids \in Shapes
    BY <2>2 DEF StoreOf
  <2>4. IsOffer(Asks(bs[legs[j].contract], legs[j].side))
    BY <2>1, <2>3, AsksAre
  <2> QED  BY <2>1, <2>2, <2>4 DEF AsksOf
<1>8. Costable(legs, bs, feeTable)
  <2>1. \E n \in Nat \ {0} : DOMAIN legs = 1 .. n
    BY <1>3 DEF LegsOf
  <2>2. \A j \in DOMAIN legs : AsksOf(legs, bs, j) \in Seq(Level)
    BY <1>7 DEF IsOffer
  <2>3. \A j \in DOMAIN legs : Category(feeTable, legs[j].contract) \in FeeCategory
    BY CategoryIs
  <2> QED  BY <1>3, <2>1, <2>2, <2>3 DEF Costable
<1> QED  BY <1>2, <1>3, <1>4, <1>7, <1>8 DEF g

(* An accepted opportunity can be ranked.                                  *)
LEMMA FoundRankable ==
    ASSUME LoadInv, NEW bs, StoreOf(bs), NEW o, FoundIn(o, groups, bs, feeTable), o.reason = "none"
    PROVE  Rankable(o)
<1>1. PICK k \in DOMAIN groups : \E legs :
            CandidateOf(groups[k], bs, legs) /\ o = CostCandidate(groups[k], legs, bs, feeTable, Now)
  BY DEF FoundIn
<1>2. PICK legs : CandidateOf(groups[k], bs, legs)
                  /\ o = CostCandidate(groups[k], legs, bs, feeTable, Now)
  BY <1>1
<1> DEFINE g == groups[k]
<1>3. /\ Costable(legs, bs, feeTable)
      /\ PayoffOf(g, legs) \in Int /\ PayoffOf(g, legs) >= 100
  BY <1>2, CandidateCosts
<1>4. g.resolves \in Int
  <2>1. PICK e \in DOMAIN events : events[e].resolves = g.resolves
    BY DEF LoadInv, GroupsOK, UnderOneEvent
  <2> DEFINE T == [key : Int, resolves : Int]
  <2>2. events \in Seq(T)
    BY DEF LoadInv, BindingOK
  <2> HIDE DEF T
  <2>3. events[e] \in T
    BY <2>2
  <2> QED  BY <2>1, <2>3 DEF T
<1> HIDE DEF g
<1>5. PICK q \in Nat : CostedAt(o, g, legs, bs, feeTable, Now, q)
  BY <1>2, <1>3, CostedIs DEF g
<1>6. /\ CostsAt(legs, bs, q) \in Nat /\ FeesAt(legs, bs, feeTable, q) \in Nat
  BY <1>3, CostsAre
<1>7. NetAt(g, legs, bs, feeTable, q) \in Int
  BY <1>3, <1>6 DEF NetAt
<1>8. o.net \in Nat \ {0}
  BY <1>5, <1>7 DEF CostedAt
<1>9. o.capital \in Nat
  BY <1>5, <1>6 DEF CostedAt
<1>10. o.hours \in Nat \ {0}
  <2> DEFINE d == g.resolves - Now
  <2>1. d \in Int
    BY <1>4, ArbitrageAssumption
  <2>2. o.hours = Max({1, d})
    BY <1>5 DEF CostedAt
  <2> HIDE DEF d
  <2> QED  BY <2>1, <2>2, MaxOfTwo
<1> QED  BY <1>8, <1>9, <1>10 DEF Rankable

LEMMA EvaluateIs ==
    ASSUME NEW g, NEW bs, NEW table, WellShaped(g)
    PROVE  /\ \E n \in Nat : DOMAIN Evaluate(g, bs, table, Now) = 1 .. n
           /\ \A i \in DOMAIN Evaluate(g, bs, table, Now) :
                 /\ Confirmed(g) /\ Fresh(g, bs)
                 /\ \E legs : /\ CandidateOf(g, bs, legs)
                              /\ Evaluate(g, bs, table, Now)[i] = CostCandidate(g, legs, bs, table, Now)
<1>1. CASE ~Confirmed(g) \/ ~Fresh(g, bs)
  <2>1. Evaluate(g, bs, table, Now) = <<>>
    BY <1>1 DEF Evaluate
  <2>2. DOMAIN <<>> = {} /\ DOMAIN <<>> = 1 .. 0
    OBVIOUS
  <2> QED  BY <2>1, <2>2
<1>2. CASE Confirmed(g) /\ Fresh(g, bs)
  <2> DEFINE found == Candidates(g, bs)
             e == Evaluate(g, bs, table, Now)
  <2>1. e = [i \in DOMAIN found |-> CostCandidate(g, found[i], bs, table, Now)]
    BY <1>2 DEF Evaluate
  <2>2. /\ \E n \in Nat : DOMAIN found = 1 .. n
        /\ \A i \in DOMAIN found : CandidateOf(g, bs, found[i])
    BY CandidatesAre
  <2> HIDE DEF found, e
  <2>3. DOMAIN e = DOMAIN found /\ \A i \in DOMAIN e : e[i] = CostCandidate(g, found[i], bs, table, Now)
    BY <2>1
  <2> QED  BY <1>2, <2>2, <2>3 DEF e
<1> QED  BY <1>1, <1>2

LEMMA FoundAtIs ==
    ASSUME LoadInv, NEW bs, NEW id
    PROVE  \E T : /\ FlattenSeq(FoundAt(id, bs)) \in Seq(T)
                  /\ \A i \in DOMAIN FlattenSeq(FoundAt(id, bs)) :
                        FoundIn(FlattenSeq(FoundAt(id, bs))[i], groups, bs, feeTable)
<1> DEFINE order == InOrder(GroupsFor(id))
           e(k) == Evaluate(groups[order[k]], bs, feeTable, Now)
           T == UNION {{e(k)[i] : i \in DOMAIN e(k)} : k \in DOMAIN order}
           s == FoundAt(id, bs)
<1>1. \A g \in DOMAIN groups : WellShaped(groups[g])
  BY DEF LoadInv, GroupsOK, UnderOneEvent
<1>2. IsFiniteSet(GroupsFor(id)) /\ GroupsFor(id) \subseteq Int /\ GroupsFor(id) \subseteq DOMAIN groups
  <2>1. PICK n \in Nat : DOMAIN groups = 1 .. n
    BY DEF LoadInv, GroupsOK
  <2>2. GroupsFor(id) \subseteq 1 .. n
    BY <2>1 DEF GroupsFor
  <2> QED  BY <2>1, <2>2, IndexSet, FS_Subset
<1> DEFINE n == Cardinality(GroupsFor(id))
<1>3. /\ n \in Nat /\ DOMAIN order = 1 .. n
      /\ \A k \in 1 .. n : order[k] \in DOMAIN groups
  <2>1. n \in Nat /\ order \in [1 .. n -> GroupsFor(id)]
    BY <1>2, InOrderIs
  <2> QED  BY <1>2, <2>1
<1>4. s = [k \in DOMAIN order |-> e(k)]
  BY DEF FoundAt
<1> HIDE DEF order, n
<1>5. ASSUME NEW k \in 1 .. n
      PROVE  /\ \E m \in Nat : DOMAIN e(k) = 1 .. m
             /\ \A i \in DOMAIN e(k) : FoundIn(e(k)[i], groups, bs, feeTable)
  <2>1. order[k] \in DOMAIN groups /\ WellShaped(groups[order[k]])
    BY <1>1, <1>3
  <2>2. /\ \E m \in Nat : DOMAIN e(k) = 1 .. m
        /\ \A i \in DOMAIN e(k) :
              /\ Confirmed(groups[order[k]]) /\ Fresh(groups[order[k]], bs)
              /\ \E legs : /\ CandidateOf(groups[order[k]], bs, legs)
                           /\ e(k)[i] = CostCandidate(groups[order[k]], legs, bs, feeTable, Now)
    BY <2>1, EvaluateIs
  <2> HIDE DEF e
  <2> QED  BY <2>1, <2>2 DEF FoundIn
<1>6. \A k \in 1 .. n : e(k) = s[k]
  BY <1>3, <1>4
<1>7. s = [k \in 1 .. n |-> s[k]]
  BY <1>3, <1>4
<1>8. ASSUME NEW k \in 1 .. n
      PROVE  s[k] \in Seq(T)
  <2>1. PICK m \in Nat : DOMAIN e(k) = 1 .. m
    BY <1>5
  <2>2. e(k) = [i \in DOMAIN e(k) |-> e(k)[i]]
    <3>1. CASE ~Confirmed(groups[order[k]]) \/ ~Fresh(groups[order[k]], bs)
      BY <3>1 DEF Evaluate
    <3>2. CASE Confirmed(groups[order[k]]) /\ Fresh(groups[order[k]], bs)
      BY <3>2 DEF Evaluate
    <3> QED  BY <3>1, <3>2
  <2>3. \A i \in 1 .. m : e(k)[i] \in T
    <3>1. k \in DOMAIN order
      BY <1>3
    <3>2. {e(k)[i] : i \in DOMAIN e(k)} \subseteq T
      <4> HIDE DEF e
      <4> QED  BY <3>1
    <3> HIDE DEF e, T
    <3> QED  BY <2>1, <3>2
  <2> HIDE DEF e, T
  <2> QED  BY <1>6, <2>1, <2>2, <2>3
<1> DEFINE Q == Seq(T)
<1>9. s \in Seq(Q)
  <2>1. \A k \in 1 .. n : s[k] \in Q
    BY <1>8
  <2> HIDE DEF Q, s
  <2> QED  BY <1>3, <1>7, <2>1
<1>10. \A x \in T : FoundIn(x, groups, bs, feeTable)
  <2> SUFFICES ASSUME NEW k \in DOMAIN order, NEW i \in DOMAIN e(k)
               PROVE  FoundIn(e(k)[i], groups, bs, feeTable)
    OBVIOUS
  <2> QED  BY <1>3, <1>5
<1> HIDE DEF T, s
<1>11. FlattenSeq(s) \in Seq(T)
  BY <1>9, FlattenIs DEF Q
<1>12. \A i \in DOMAIN FlattenSeq(s) : FlattenSeq(s)[i] \in T
  BY <1>11
<1> QED  BY <1>10, <1>11, <1>12 DEF s

LEMMA SolveFinds ==
    ASSUME LoadInv, NEW bs, StoreOf(bs), NEW id, Solve(id, bs)
    PROVE  /\ AllFound(accepted', groups, bs, feeTable)
           /\ AllFound(refused', groups, bs, feeTable)
           /\ \A i \in DOMAIN accepted' : accepted'[i].reason = "none"
           /\ \A i \in DOMAIN refused' : refused'[i].reason # "none"
<1> DEFINE found == FlattenSeq(FoundAt(id, bs))
           good  == {i \in DOMAIN found : found[i].reason = "none"}
<1>1. /\ accepted' = Rank(Kept(found, good))
      /\ refused' = Kept(found, DOMAIN found \ good)
  BY DEF Solve, Sift
<1>2. PICK T : /\ found \in Seq(T)
               /\ \A i \in DOMAIN found : FoundIn(found[i], groups, bs, feeTable)
  BY FoundAtIs
<1>3. /\ good \in SUBSET DOMAIN found /\ DOMAIN found \ good \in SUBSET DOMAIN found
      /\ \A i \in good : found[i].reason = "none"
      /\ \A i \in DOMAIN found \ good : found[i].reason # "none"
  OBVIOUS
<1> HIDE DEF found, good
<1> DEFINE bad == DOMAIN found \ good
           K == Kept(found, good)
           B == Kept(found, bad)
<1>4. K \in Seq(T) /\ B \in Seq(T) /\ PartOf(K, found, good) /\ PartOf(B, found, bad)
  BY <1>2, <1>3, KeptPart
<1>5. \A i \in DOMAIN K : K[i].reason = "none" /\ FoundIn(K[i], groups, bs, feeTable)
  BY <1>2, <1>3, <1>4 DEF PartOf
<1>6. \A i \in DOMAIN B : B[i].reason # "none" /\ FoundIn(B[i], groups, bs, feeTable)
  <2>1. \A k \in DOMAIN B : \E i \in DOMAIN found \ good : B[k] = found[i]
    BY <1>4 DEF PartOf
  <2>2. \A j \in DOMAIN found \ good : found[j].reason # "none" /\ FoundIn(found[j], groups, bs, feeTable)
    BY <1>2, <1>3
  <2> HIDE DEF B
  <2> QED  BY <2>1, <2>2
<1> HIDE DEF K, B, bad
<1>7. \A i \in DOMAIN K : Rankable(K[i])
  BY <1>5, FoundRankable
<1>8. /\ Rank(K) \in Seq(T)
      /\ \A k \in DOMAIN Rank(K) : \E i \in DOMAIN K : Rank(K)[k] = K[i]
  BY <1>4, <1>7, RankIs
<1>9. AllFound(Rank(K), groups, bs, feeTable) /\ \A i \in DOMAIN Rank(K) : Rank(K)[i].reason = "none"
  <2>1. DOMAIN Rank(K) = 1 .. Len(Rank(K)) /\ Len(Rank(K)) \in Nat
    BY <1>8
  <2> QED  BY <1>5, <1>8, <2>1 DEF AllFound
<1>10. AllFound(B, groups, bs, feeTable)
  <2>1. DOMAIN B = 1 .. Len(B) /\ Len(B) \in Nat
    BY <1>4
  <2> QED  BY <1>6, <2>1 DEF AllFound
<1> QED  BY <1>1, <1>6, <1>9, <1>10 DEF K, B, bad

LEMMA LoadIsNotTrading ==
    ASSUME Load
    PROVE  ~Trading /\ ~Trading'
<1>1. CASE EmptyFile \/ RefuseEvent \/ RefuseGroup \/ RefuseListing \/ RefusePartitions
  BY <1>1 DEF EmptyFile, RefuseEvent, RefuseGroup, RefuseListing, RefusePartitions, Refuse, Trading,
              AtEvent, AtGroup, Reading
<1>2. CASE InternFile \/ AddEvent \/ AddGroup \/ FileDone
  BY <1>2 DEF InternFile, AddEvent, AddGroup, FileDone, Trading, AtEvent, AtGroup, Reading
<1>3. CASE AddListedEvents \/ InternListed \/ AddInferred \/ CheckPartitions \/ Promote
  BY <1>3 DEF AddListedEvents, InternListed, AddInferred, CheckPartitions, Promote, Trading
<1>4. CASE ExtendWithPolymarket \/ WithoutPolymarket
  BY <1>4 DEF ExtendWithPolymarket, WithoutPolymarket, Started, Trading
<1> QED  BY <1>1, <1>2, <1>3, <1>4 DEF Load

SameRegistry ==
    /\ phase' = phase /\ interned' = interned /\ tickers' = tickers /\ binding' = binding
    /\ groups' = groups /\ feeTable' = feeTable /\ StoreOrder' = StoreOrder

LEMMA RegistrySame ==
    ASSUME UNCHANGED registryVars
    PROVE  SameRegistry
BY DEF registryVars, SameRegistry, StoreOrder

LEMMA QuietFound ==
    ASSUME Quiet
    PROVE  FoundOK'
<1>1. /\ AllFound(<<>>, groups', books', feeTable') /\ DOMAIN <<>> = {}
  BY EmptyFound
<1>2. accepted' = <<>> /\ refused' = <<>>
  BY DEF Quiet
<1> QED  BY <1>1, <1>2 DEF FoundOK

LEMMA SolvedFound ==
    ASSUME LoadInv, SameRegistry, StoreOf(books'), NEW id, Solve(id, books')
    PROVE  FoundOK'
<1>1. /\ AllFound(accepted', groups, books', feeTable)
      /\ AllFound(refused', groups, books', feeTable)
      /\ \A i \in DOMAIN accepted' : accepted'[i].reason = "none"
      /\ \A i \in DOMAIN refused' : refused'[i].reason # "none"
  <2> DEFINE bs == books'
  <2>1. StoreOf(bs) /\ Solve(id, bs)
    OBVIOUS
  <2> HIDE DEF bs
  <2>2. /\ AllFound(accepted', groups, bs, feeTable)
        /\ AllFound(refused', groups, bs, feeTable)
        /\ \A i \in DOMAIN accepted' : accepted'[i].reason = "none"
        /\ \A i \in DOMAIN refused' : refused'[i].reason # "none"
    BY <2>1, SolveFinds
  <2> QED  BY <2>2 DEF bs
<1>2. groups' = groups /\ feeTable' = feeTable
  BY DEF SameRegistry
<1> QED  BY <1>1, <1>2 DEF FoundOK

(* A contract's place in the store.                                        *)
LEMMA StoreIdIs ==
    ASSUME LoadInv, NEW c \in ToSet(StoreOrder)
    PROVE  /\ StoreId(c) \in DOMAIN StoreOrder /\ StoreOrder[StoreId(c)] = c
           /\ \A i \in DOMAIN StoreOrder : StoreOrder[i] = c => i = StoreId(c)
<1>1. \E i \in DOMAIN StoreOrder : StoreOrder[i] = c
  BY DEF ToSet
<1>2. StoreId(c) \in DOMAIN StoreOrder /\ StoreOrder[StoreId(c)] = c
  BY <1>1 DEF StoreId
<1>3. IsInjective(StoreOrder)
  BY DEF LoadInv, TablesOK
<1>4. \A i, j \in DOMAIN StoreOrder : StoreOrder[i] = StoreOrder[j] => i = j
  BY <1>3 DEF IsInjective
<1> QED  BY <1>2, <1>4

(* The copy of one contract becomes its book.                              *)
LEMMA CopyUpdated ==
    ASSUME LoadInv, BooksOK, SameRegistry, NEW c \in DOMAIN market, NEW b \in Shapes,
           books' = Updated(StoreId(c), b), market' = [market EXCEPT ![c] = b]
    PROVE  BooksOK'
<1> DEFINE i == StoreId(c)
<1>1. /\ market \in [ToSet(StoreOrder) -> Shapes] /\ StoreOf(books)
      /\ \A j \in DOMAIN books : books[j].live => books[j].bids = market[StoreOrder[j]]
  BY DEF BooksOK
<1>2. c \in ToSet(StoreOrder)
  BY <1>1
<1>3. /\ i \in DOMAIN StoreOrder /\ StoreOrder[i] = c
      /\ \A j \in DOMAIN StoreOrder : StoreOrder[j] = c => j = i
  BY <1>2, StoreIdIs
<1>4. /\ DOMAIN books = DOMAIN StoreOrder
      /\ \A j \in DOMAIN books : books[j].venue = StoreOrder[j].venue /\ books[j].bids \in Shapes
  BY <1>1 DEF StoreOf
<1>5. StoreOrder' = StoreOrder
  BY DEF SameRegistry
<1> HIDE DEF i
<1>6. books' = [books EXCEPT ![i] = [[[@ EXCEPT !.bids = b] EXCEPT !.live = TRUE] EXCEPT !.recent = TRUE]]
  BY DEF Updated, i
<1>7. DOMAIN books' = DOMAIN books
  BY <1>6
<1>8. ASSUME NEW j \in DOMAIN books, j # i
      PROVE  books'[j] = books[j]
  BY <1>6, <1>8
<1>9. books'[i].bids = b /\ books'[i].venue = books[i].venue
  BY <1>3, <1>4, <1>6
<1>10. market' \in [ToSet(StoreOrder) -> Shapes]
       /\ market'[c] = b /\ \A d \in ToSet(StoreOrder) : d # c => market'[d] = market[d]
  BY <1>1, <1>2
<1>11. \A j \in DOMAIN StoreOrder : StoreOrder[j] \in ToSet(StoreOrder)
  BY DEF ToSet
<1>12. StoreOf(books)'
  <2>1. \A j \in DOMAIN books : books'[j].venue = StoreOrder[j].venue /\ books'[j].bids \in Shapes
    BY <1>3, <1>4, <1>8, <1>9
  <2> QED  BY <1>4, <1>5, <1>7, <2>1 DEF StoreOf
<1>13. ASSUME NEW j \in DOMAIN books, books'[j].live
       PROVE  books'[j].bids = market'[StoreOrder[j]]
  <2>1. CASE j = i
    BY <1>3, <1>9, <1>10, <2>1
  <2>2. CASE j # i
    <3>1. StoreOrder[j] # c /\ StoreOrder[j] \in ToSet(StoreOrder)
      BY <1>3, <1>4, <1>11, <2>2
    <3>2. books'[j] = books[j] /\ market'[StoreOrder[j]] = market[StoreOrder[j]]
      BY <1>8, <1>10, <2>2, <3>1
    <3> QED  BY <1>1, <1>13, <3>2
  <2> QED  BY <2>1, <2>2
<1>14. (market \in [ToSet(StoreOrder) -> Shapes])'
  BY <1>5, <1>10
<1> QED  BY <1>5, <1>7, <1>12, <1>13, <1>14 DEF BooksOK

(* No copy becomes live or changes what it says.                           *)
LEMMA CopiesSame ==
    ASSUME BooksOK, SameRegistry, market' = market, DOMAIN books' = DOMAIN books,
           \A i \in DOMAIN books : /\ books'[i].venue = books[i].venue
                                   /\ books'[i].bids = books[i].bids
                                   /\ books'[i].live => books[i].live
    PROVE  BooksOK'
<1>1. StoreOrder' = StoreOrder
  BY DEF SameRegistry
<1>2. StoreOf(books)'
  BY <1>1 DEF BooksOK, StoreOf
<1>3. \A i \in DOMAIN books' : books'[i].live => books'[i].bids = market'[StoreOrder'[i]]
  BY <1>1 DEF BooksOK
<1>4. (market \in [ToSet(StoreOrder) -> Shapes])'
  BY <1>1 DEF BooksOK
<1> QED  BY <1>2, <1>3, <1>4 DEF BooksOK

LEMMA StoreStep ==
    ASSUME LoadInv, StoreInv, [Next]_vars
    PROVE  StoreInv'
<1>1. CASE Startup
  <2>1. ~Trading /\ ~Trading' /\ accepted' = accepted /\ refused' = refused
    BY <1>1, LoadIsNotTrading DEF Startup, foundVars
  <2> QED  BY <2>1 DEF StoreInv
<1>2. CASE Open
  <2>1. ~Trading /\ Trading' /\ accepted' = accepted /\ refused' = refused
    BY <1>2 DEF Open, Trading, foundVars
  <2>2. FoundOK'
    BY <2>1, QuietFound DEF StoreInv, Quiet
  <2>3. /\ books' = [i \in DOMAIN StoreOrder |->
                        [venue |-> StoreOrder[i].venue, live |-> FALSE, recent |-> FALSE,
                         bids |-> NoBids]]
        /\ market' = [c \in ToSet(StoreOrder) |-> NoBids]
    BY <1>2 DEF Open
  <2>4. StoreOrder' = StoreOrder
    BY <1>2 DEF Open, tableVars, StoreOrder
  <2>5. NoBids \in Shapes
    BY ArbitrageAssumption
  <2>6. \A i \in DOMAIN StoreOrder : /\ books'[i].venue = StoreOrder[i].venue
                                     /\ books'[i].bids = NoBids /\ books'[i].live = FALSE
    BY <2>3
  <2>7. DOMAIN books' = DOMAIN StoreOrder
    BY <2>3
  <2>8. StoreOf(books)'
    BY <2>4, <2>5, <2>6, <2>7 DEF StoreOf
  <2>9. market' \in [ToSet(StoreOrder) -> Shapes]
    BY <2>3, <2>5
  <2>10. BooksOK'
    BY <2>4, <2>6, <2>7, <2>8, <2>9 DEF BooksOK
  <2> QED  BY <2>1, <2>2, <2>10 DEF StoreInv
<1>3. ASSUME NEW c \in DOMAIN market, BookMoves(c)
      PROVE  StoreInv'
  <2>1. SameRegistry /\ Trading /\ Solve(StoreId(c), books')
    BY <1>3, RegistrySame DEF BookMoves
  <2>2. PICK b \in Shapes : /\ market' = [market EXCEPT ![c] = b]
                            /\ books' = Updated(StoreId(c), b)
    BY <1>3 DEF BookMoves
  <2>3. BooksOK'
    BY <2>1, <2>2, CopyUpdated DEF StoreInv
  <2>4. StoreOf(books')
    BY <2>1, <2>3 DEF BooksOK, StoreOf, SameRegistry
  <2>5. FoundOK'
    BY <2>1, <2>4, SolvedFound
  <2> QED  BY <2>1, <2>3, <2>5 DEF StoreInv, Trading, SameRegistry
<1>4. ASSUME NEW c \in DOMAIN market, MovesUnseen(c)
      PROVE  StoreInv'
  <2>1. SameRegistry /\ Trading /\ Quiet /\ books' = books /\ ~Copy(StoreId(c)).live
    BY <1>4, RegistrySame DEF MovesUnseen
  <2>2. PICK b \in Shapes : market' = [market EXCEPT ![c] = b]
    BY <1>4 DEF MovesUnseen
  <2>3. BooksOK
    BY <2>1 DEF StoreInv
  <2>4. /\ market \in [ToSet(StoreOrder) -> Shapes] /\ StoreOf(books)
        /\ DOMAIN books = DOMAIN StoreOrder
        /\ \A j \in DOMAIN books : books[j].live => books[j].bids = market[StoreOrder[j]]
    BY <2>3 DEF BooksOK, StoreOf
  <2>5. c \in ToSet(StoreOrder)
    BY <2>4
  <2>6. \A j \in DOMAIN StoreOrder : StoreOrder[j] = c => j = StoreId(c)
    BY <2>5, StoreIdIs
  <2>7. \A j \in DOMAIN StoreOrder : StoreOrder[j] \in ToSet(StoreOrder)
    BY DEF ToSet
  <2>8. ASSUME NEW j \in DOMAIN books, books[j].live
        PROVE  books[j].bids = market'[StoreOrder[j]]
    <3>1. StoreOrder[j] # c
      BY <2>1, <2>4, <2>6, <2>8 DEF Copy
    <3> QED  BY <2>2, <2>4, <2>7, <2>8, <3>1
  <2>9. market' \in [ToSet(StoreOrder) -> Shapes]
    BY <2>2, <2>4
  <2>10. StoreOrder' = StoreOrder
    BY <2>1 DEF SameRegistry
  <2>11. StoreOf(books)'
    BY <2>1, <2>4, <2>10 DEF StoreOf
  <2>12. BooksOK'
    BY <2>1, <2>8, <2>9, <2>10, <2>11 DEF BooksOK
  <2>13. FoundOK'
    BY <2>1, QuietFound
  <2> QED  BY <2>1, <2>12, <2>13 DEF StoreInv, Trading, SameRegistry
<1>5. ASSUME NEW c \in DOMAIN market, Snapshot(c)
      PROVE  StoreInv'
  <2>1. /\ SameRegistry /\ Trading /\ Solve(StoreId(c), books')
        /\ market' = market /\ books' = Updated(StoreId(c), market[c])
    BY <1>5, RegistrySame DEF Snapshot
  <2>2. BooksOK /\ market \in [ToSet(StoreOrder) -> Shapes]
    BY <2>1 DEF StoreInv, BooksOK
  <2>3. market[c] \in Shapes /\ market' = [market EXCEPT ![c] = market[c]]
    BY <2>1, <2>2
  <2>4. BooksOK'
    <3> DEFINE b == market[c]
    <3>1. b \in Shapes /\ market' = [market EXCEPT ![c] = b] /\ books' = Updated(StoreId(c), b)
      BY <2>1, <2>3
    <3> HIDE DEF b
    <3> QED  BY <2>1, <2>2, <3>1, CopyUpdated
  <2>5. StoreOf(books')
    BY <2>1, <2>4 DEF BooksOK, StoreOf, SameRegistry
  <2>6. FoundOK'
    BY <2>1, <2>5, SolvedFound
  <2> QED  BY <2>1, <2>4, <2>6 DEF StoreInv, Trading, SameRegistry
<1>6. ASSUME NEW v \in Venue, LoseVenue(v)
      PROVE  StoreInv'
  <2>1. SameRegistry /\ Trading /\ Quiet /\ market' = market
    BY <1>6, RegistrySame DEF LoseVenue
  <2>2. books' = [i \in DOMAIN books |->
                    IF books[i].venue = v THEN [books[i] EXCEPT !.live = FALSE] ELSE books[i]]
    BY <1>6 DEF LoseVenue
  <2>3. ASSUME NEW i \in DOMAIN books
        PROVE  /\ books'[i].venue = books[i].venue /\ books'[i].bids = books[i].bids
               /\ books'[i].live => books[i].live
    <3>1. CASE books[i].venue = v
      <4>1. books'[i] = [books[i] EXCEPT !.live = FALSE]
        BY <2>2, <3>1
      <4> QED  BY <4>1
    <3>2. CASE books[i].venue # v
      BY <2>2, <3>2
    <3> QED  BY <3>1, <3>2
  <2>4. DOMAIN books' = DOMAIN books
    BY <2>2
  <2>5. BooksOK'
    BY <2>1, <2>3, <2>4, CopiesSame DEF StoreInv
  <2>6. FoundOK'
    BY <2>1, QuietFound
  <2> QED  BY <2>1, <2>5, <2>6 DEF StoreInv, Trading, SameRegistry
<1>7. CASE TimePasses
  <2>1. SameRegistry /\ Trading /\ Quiet /\ market' = market
    BY <1>7, RegistrySame DEF TimePasses
  <2>2. books' = [i \in DOMAIN books |-> [books[i] EXCEPT !.recent = FALSE]]
    BY <1>7 DEF TimePasses
  <2>3. ASSUME NEW i \in DOMAIN books
        PROVE  /\ books'[i].venue = books[i].venue /\ books'[i].bids = books[i].bids
               /\ books'[i].live => books[i].live
    <3>1. books'[i] = [books[i] EXCEPT !.recent = FALSE]
      BY <2>2
    <3> QED  BY <3>1
  <2>4. DOMAIN books' = DOMAIN books
    BY <2>2
  <2>5. BooksOK'
    BY <2>1, <2>3, <2>4, CopiesSame DEF StoreInv
  <2>6. FoundOK'
    BY <2>1, QuietFound
  <2> QED  BY <2>1, <2>5, <2>6 DEF StoreInv, Trading, SameRegistry
<1>8. CASE UNCHANGED vars
  <2>1. /\ SameRegistry /\ market' = market /\ books' = books
        /\ accepted' = accepted /\ refused' = refused
    BY <1>8, RegistrySame DEF vars, bookVars, foundVars
  <2>2. Trading' = Trading
    BY <2>1 DEF Trading, SameRegistry
  <2>3. ASSUME Trading
        PROVE  BooksOK' /\ FoundOK'
    <3>1. BooksOK /\ FoundOK
      BY <2>3 DEF StoreInv
    <3>2. BooksOK'
      BY <2>1, <3>1, CopiesSame
    <3>3. FoundOK'
      BY <2>1, <3>1 DEF FoundOK, SameRegistry
    <3> QED  BY <3>2, <3>3
  <2> QED  BY <2>1, <2>2, <2>3 DEF StoreInv
<1> QED  BY <1>1, <1>2, <1>3, <1>4, <1>5, <1>6, <1>7, <1>8 DEF Next

LEMMA StoreInvariant == Spec => []StoreInv
<1>1. Init => StoreInv
  BY DEF Init, RegistryInit, StoreInv, Trading
<1>2. LoadInv /\ StoreInv /\ [Next]_vars => StoreInv'
  BY StoreStep
<1> QED  BY <1>1, <1>2, LoadInvariant, PTL DEF Spec

-----------------------------------------------------------------------------
(* What the checks found, and what an order of it meets at the venue.      *)

LEMMA FoundIs ==
    ASSUME LoadInv, StoreOf(books), NEW o, FoundIn(o, groups, books, feeTable)
    PROVE  \E k \in DOMAIN groups : \E legs :
              /\ Confirmed(groups[k]) /\ Fresh(groups[k], books)
              /\ CandidateOf(groups[k], books, legs)
              /\ o = CostCandidate(groups[k], legs, books, feeTable, Now)
              /\ Costable(legs, books, feeTable)
              /\ PayoffOf(groups[k], legs) \in Int /\ PayoffOf(groups[k], legs) >= 100
<1>1. PICK k \in DOMAIN groups :
            /\ Confirmed(groups[k]) /\ Fresh(groups[k], books)
            /\ \E legs : /\ CandidateOf(groups[k], books, legs)
                         /\ o = CostCandidate(groups[k], legs, books, feeTable, Now)
  BY DEF FoundIn
<1>2. PICK legs : /\ CandidateOf(groups[k], books, legs)
                  /\ o = CostCandidate(groups[k], legs, books, feeTable, Now)
  BY <1>1
<1>3. /\ Costable(legs, books, feeTable)
      /\ PayoffOf(groups[k], legs) \in Int /\ PayoffOf(groups[k], legs) >= 100
  BY <1>2, CandidateCosts
<1> QED  BY <1>1, <1>2, <1>3

LEMMA RefusedIs ==
    ASSUME LoadInv, StoreInv, NEW i \in DOMAIN refused
    PROVE  StoreOf(books) /\ FoundIn(refused[i], groups, books, feeTable)
<1>1. refused # <<>>
  OBVIOUS
<1>2. BooksOK /\ FoundOK
  BY <1>1 DEF StoreInv
<1> QED  BY <1>2 DEF BooksOK, FoundOK, AllFound

(* ChecksAgree: what a closed check proposes pays at least a dollar in     *)
(* every resolution of its relation, so the last guard of the costing is   *)
(* never what stops a candidate.                                           *)
THEOREM ArbitrageChecks == Spec => []ChecksAgree
<1>1. LoadInv /\ StoreInv => ChecksAgree
  <2> SUFFICES ASSUME LoadInv, StoreInv, NEW i \in DOMAIN refused
               PROVE  refused[i].reason # "PayoffNotGuaranteed"
    BY DEF ChecksAgree
  <2> DEFINE o == refused[i]
  <2>1. StoreOf(books) /\ FoundIn(o, groups, books, feeTable)
    BY RefusedIs
  <2> HIDE DEF o
  <2>2. PICK k \in DOMAIN groups : \E legs :
              /\ o = CostCandidate(groups[k], legs, books, feeTable, Now)
              /\ Costable(legs, books, feeTable)
              /\ PayoffOf(groups[k], legs) \in Int /\ PayoffOf(groups[k], legs) >= 100
    BY <2>1, FoundIs
  <2>3. PICK legs : /\ o = CostCandidate(groups[k], legs, books, feeTable, Now)
                    /\ Costable(legs, books, feeTable)
                    /\ PayoffOf(groups[k], legs) \in Int /\ PayoffOf(groups[k], legs) >= 100
    BY <2>2
  <2>4. o.reason = "PayoffNotGuaranteed" <=> PayoffOf(groups[k], legs) <= 0
    BY <2>3, CostedIs
  <2>5. o.reason # "PayoffNotGuaranteed"
    BY <2>3, <2>4
  <2> QED  BY <2>5 DEF o
<1> QED  BY <1>1, LoadInvariant, StoreInvariant, PTL

(* FeesAreTheGap: a candidate dropped because of fees would have been      *)
(* profitable without them.                                                *)
THEOREM ArbitrageFeesAreTheGap == Spec => []FeesAreTheGap
<1>1. LoadInv /\ StoreInv => FeesAreTheGap
  <2> SUFFICES ASSUME LoadInv, StoreInv, NEW i \in DOMAIN refused,
                      refused[i].reason = "FeesExceedGap"
               PROVE  refused[i].gross > 0
    BY DEF FeesAreTheGap
  <2> DEFINE o == refused[i]
  <2>1. StoreOf(books) /\ FoundIn(o, groups, books, feeTable)
    BY RefusedIs
  <2>2. o.reason = "FeesExceedGap"
    OBVIOUS
  <2> HIDE DEF o
  <2>3. PICK k \in DOMAIN groups : \E legs :
              /\ CandidateOf(groups[k], books, legs)
              /\ o = CostCandidate(groups[k], legs, books, feeTable, Now)
              /\ Costable(legs, books, feeTable)
              /\ PayoffOf(groups[k], legs) \in Int /\ PayoffOf(groups[k], legs) >= 100
    BY <2>1, FoundIs
  <2>4. PICK legs : /\ CandidateOf(groups[k], books, legs)
                    /\ o = CostCandidate(groups[k], legs, books, feeTable, Now)
                    /\ Costable(legs, books, feeTable)
                    /\ PayoffOf(groups[k], legs) \in Int /\ PayoffOf(groups[k], legs) >= 100
    BY <2>3
  <2>5. TopCost(books, legs) < Dollar
    BY <2>4 DEF CandidateOf
  <2>6. o.reason = "FeesExceedGap" => o.gross > 0
    BY <2>4, <2>5, FeesAreWhy
  <2> QED  BY <2>2, <2>6 DEF o
<1> QED  BY <1>1, LoadInvariant, StoreInvariant, PTL

(* An accepted opportunity: the candidate it is of, and the quantity.      *)
Priced(o, g, legs, q) ==
    /\ g \in {groups[k] : k \in DOMAIN groups}
    /\ WellShaped(g) /\ LegsOf(g, legs) /\ Confirmed(g) /\ Fresh(g, books)
    /\ Costable(legs, books, feeTable)
    /\ \A j \in DOMAIN legs : /\ IsOffer(AsksOf(legs, books, j))
                              /\ legs[j].contract \in DOMAIN binding
                              /\ legs[j].contract \in DOMAIN interned
                              /\ legs[j].contract \in DOMAIN books
                              /\ legs[j].side \in {"yes", "no"}
    /\ PayoffOf(g, legs) \in Int /\ PayoffOf(g, legs) >= 100
    /\ BestTried(g, legs, books, feeTable, q)
    /\ CostedAt(o, g, legs, books, feeTable, Now, q)
    /\ o.net > 0

LEMMA AcceptedIs ==
    ASSUME LoadInv, StoreInv, NEW i \in DOMAIN accepted
    PROVE  /\ Trading /\ BooksOK
           /\ \E g, legs : \E q \in Nat : Priced(accepted[i], g, legs, q)
<1>1. accepted # <<>>
  OBVIOUS
<1>2. Trading /\ BooksOK /\ FoundOK
  BY <1>1 DEF StoreInv
<1> DEFINE o == accepted[i]
<1>3. StoreOf(books) /\ FoundIn(o, groups, books, feeTable) /\ o.reason = "none"
  BY <1>2 DEF BooksOK, FoundOK, AllFound
<1> HIDE DEF o
<1>4. PICK k \in DOMAIN groups : \E legs :
              /\ Confirmed(groups[k]) /\ Fresh(groups[k], books)
              /\ CandidateOf(groups[k], books, legs)
              /\ o = CostCandidate(groups[k], legs, books, feeTable, Now)
  BY <1>3, FoundIs
<1>5. PICK legs : /\ CandidateOf(groups[k], books, legs)
                  /\ o = CostCandidate(groups[k], legs, books, feeTable, Now)
  BY <1>4
<1> DEFINE g == groups[k]
<1>6. /\ Costable(legs, books, feeTable)
      /\ \A j \in DOMAIN legs : /\ IsOffer(AsksOf(legs, books, j))
                                /\ legs[j].contract \in DOMAIN binding
                                /\ legs[j].contract \in DOMAIN interned
                                /\ legs[j].contract \in DOMAIN books
                                /\ legs[j].side \in {"yes", "no"}
      /\ WellShaped(g) /\ LegsOf(g, legs)
      /\ PayoffOf(g, legs) \in Int /\ PayoffOf(g, legs) >= 100
  BY <1>3, <1>5, CandidateCosts
<1>7. g \in {groups[j] : j \in DOMAIN groups} /\ Confirmed(g) /\ Fresh(g, books)
  BY <1>4
<1>8. o = CostCandidate(g, legs, books, feeTable, Now)
  BY <1>5
<1> HIDE DEF g
<1>9. PICK q \in Nat : /\ BestTried(g, legs, books, feeTable, q)
                       /\ CostedAt(o, g, legs, books, feeTable, Now, q)
  BY <1>6, <1>8, CostedIs
<1>10. o.net > 0
  BY <1>3, <1>9 DEF CostedAt
<1>11. Priced(o, g, legs, q)
  BY <1>6, <1>7, <1>9, <1>10 DEF Priced
<1> QED  BY <1>2, <1>11 DEF o

LEMMA TrueCategoryIs ==
    ASSUME LoadInv, NEW c \in DOMAIN interned
    PROVE  TrueCategory(interned[c]) = Category(feeTable, c)
<1> DEFINE at == {k \in DOMAIN catalogue : TokenOf(catalogue[k]) = interned[c]}
           as == {k \in DOMAIN catalogue : interned[c] = TokenOf(catalogue[k])}
<1>1. at = as
  OBVIOUS
<1>2. TrueCategory(interned[c]) = IF at = {} THEN "Crypto" ELSE MarketCategory(catalogue[Max(at)])
  BY DEF TrueCategory
<1>3. feeTable = [i \in {j \in DOMAIN interned : \E k \in DOMAIN catalogue : interned[j] = TokenOf(catalogue[k])}
                    |-> MarketCategory(catalogue[Max({k \in DOMAIN catalogue : interned[i] = TokenOf(catalogue[k])})])]
  BY DEF LoadInv, FeesOK, Registered
<1>4. c \in DOMAIN feeTable <=> as # {}
  BY <1>3
<1>5. c \in DOMAIN feeTable => feeTable[c] = MarketCategory(catalogue[Max(as)])
  BY <1>3
<1> HIDE DEF at, as
<1> QED  BY <1>1, <1>2, <1>4, <1>5 DEF Category

(* An order of an accepted trade is against the venue's book, which offers *)
(* the quantity.                                                           *)
Meets(o, j, legs, q) ==
    LET l == AsksOf(legs, books, j)
        c == legs[j].contract
    IN  /\ OrderOf(o, j).id = c /\ OrderOf(o, j).contract = interned[c]
        /\ OrderOf(o, j).side = legs[j].side /\ OrderOf(o, j).qty = q
        /\ OrderOf(o, j).limit = WorstPrice(l, q)
        /\ RealAsks(o, j) = l
        /\ books[c].venue = interned[c].venue
        /\ q \in Nat /\ q >= 1 /\ q <= MaxPosition /\ q <= DepthOf(l)

LEMMA OrderMeets ==
    ASSUME LoadInv, BooksOK, NEW o, NEW g, NEW legs, NEW q \in Nat, Priced(o, g, legs, q),
           NEW j \in DOMAIN legs
    PROVE  j \in DOMAIN o.legs /\ Meets(o, j, legs, q)
<1> DEFINE c == legs[j].contract
           l == AsksOf(legs, books, j)
<1>1. /\ Costable(legs, books, feeTable) /\ Fresh(g, books) /\ LegsOf(g, legs)
      /\ BestTried(g, legs, books, feeTable, q)
      /\ CostedAt(o, g, legs, books, feeTable, Now, q)
      /\ c \in DOMAIN binding /\ c \in DOMAIN interned /\ c \in DOMAIN books
  BY DEF Priced
<1>2. o.qty = q /\ o.legs = [k \in DOMAIN legs |->
                   [contract |-> legs[k].contract, side |-> legs[k].side,
                    cost |-> LegCosts(Ladders(legs, books), q)[k],
                    fee  |-> LegFees(legs, books, feeTable, Ladders(legs, books), q)[k]]]
  BY <1>1 DEF CostedAt
<1>3. j \in DOMAIN o.legs /\ o.legs[j].contract = c /\ o.legs[j].side = legs[j].side
  BY <1>2
<1>4. /\ OrderOf(o, j).id = c /\ OrderOf(o, j).contract = binding[c].contract
      /\ OrderOf(o, j).side = legs[j].side /\ OrderOf(o, j).qty = q
      /\ OrderOf(o, j).limit = WorstPrice(l, q)
  BY <1>2, <1>3 DEF OrderOf, AsksOf
<1>5. binding[c].contract = interned[c] /\ interned = StoreOrder
  BY <1>1 DEF LoadInv, BindingOK, TablesOK
<1>6. books[c].live
  <2>1. PICK m \in DOMAIN g.members : legs[j].contract = g.members[m]
    BY <1>1 DEF LegsOf
  <2> QED  BY <1>1, <2>1 DEF Fresh
<1>7. books[c].bids = market[interned[c]] /\ books[c].venue = interned[c].venue
  BY <1>1, <1>5, <1>6 DEF BooksOK, StoreOf
<1>8. RealAsks(o, j) = l
  <2>1. RealAsks(o, j) = Asks([bids |-> market[interned[c]]], legs[j].side)
    BY <1>4, <1>5 DEF RealAsks
  <2> QED  BY <1>7, <2>1 DEF Asks, AsksOf
<1>9. q >= 1 /\ q <= MaxPosition /\ q <= DepthOf(l)
  <2> DEFINE L == Ladders(legs, books)
  <2>1. q \in Breakpoints(L, Cap(L))
    BY <1>1 DEF BestTried, Tried
  <2>2. q >= 1 /\ q <= Cap(L)
    BY <1>1, <2>1, BreakpointsAre
  <2>3. Cap(L) \in Nat \ {0} /\ Cap(L) <= MaxPosition /\ Cap(L) <= DepthOf(L[j])
    BY <1>1, CapIs
  <2>4. DepthOf(L[j]) = Clipped(MaxPosition, DepthOf(l))
    BY <1>1, LaddersAre
  <2>5. MaxPosition \in Nat /\ DepthOf(l) \in Nat
    <3>1. l \in Seq(Level)
      BY <1>1 DEF Costable
    <3> QED  BY <3>1, DepthFacts, SolverAssumption
  <2> HIDE DEF L, l
  <2> QED  BY <2>2, <2>3, <2>4, <2>5 DEF Clipped
<1> QED  BY <1>3, <1>4, <1>5, <1>7, <1>8, <1>9 DEF Meets

LEMMA LastOfRange ==
    ASSUME NEW m \in Nat, m >= 1
    PROVE  Max(1 .. m) = m
<1> DEFINE x == Max(1 .. m)
<1>1. m \in 1 .. m /\ \A y \in 1 .. m : m >= y
  OBVIOUS
<1>2. x \in 1 .. m /\ \A y \in 1 .. m : x >= y
  <2>1. x = CHOOSE z \in 1 .. m : \A y \in 1 .. m : z >= y
    BY DEF Max
  <2> HIDE DEF x
  <2> QED  BY <1>1, <2>1
<1> HIDE DEF x
<1>3. x >= m /\ m >= x /\ x \in Int
  BY <1>1, <1>2
<1>4. x = m
  BY <1>3
<1> QED  BY <1>4 DEF x

(* The limit of an order: no level the walk takes is dearer, so neither is *)
(* the average, and what is within the limit starts the book and holds the *)
(* quantity.                                                               *)
LEMMA LimitIs ==
    ASSUME NEW l, IsOffer(l), NEW q \in Nat, q >= 1, q <= DepthOf(l)
    PROVE  /\ WorstPrice(l, q) \in Nat /\ TotalCost(l, q) <= WorstPrice(l, q) * q
           /\ \E m \in 0 .. Len(l) :
                 /\ {i \in DOMAIN l : l[i].price <= WorstPrice(l, q)} = 1 .. m
                 /\ \A i \in m + 1 .. Len(l) : q <= DepthBefore(l, i)
<1> DEFINE n == Len(l)
           limit == WorstPrice(l, q)
<1>1. /\ l \in Seq(Level) /\ n \in Nat /\ DOMAIN l = 1 .. n
      /\ \A i \in 1 .. n : l[i].price \in Nat
      /\ \A i, j \in DOMAIN l : i <= j => l[i].price <= l[j].price
  BY LevelsOf DEF IsOffer
<1>2. PICK m \in 0 .. n :
              /\ Consumed(l, q) = 1 .. m
              /\ \A i \in 1 .. m : DepthBefore(l, i) < q
              /\ \A i \in m + 1 .. n : q <= DepthBefore(l, i)
  <2>1. q \in Int
    OBVIOUS
  <2> QED  BY <1>1, <2>1, ConsumedIs
<1>3. m >= 1
  <2> SUFFICES ASSUME m = 0 PROVE FALSE
    BY <1>2
  <2>1. /\ DepthBefore(l, 1) = 0 /\ DepthOf(l) = DepthBefore(l, n + 1)
        /\ \A i \in m + 1 .. n : q <= DepthBefore(l, i)
    BY <1>1, <1>2, DepthFacts
  <2>2. CASE n = 0
    BY <2>1, <2>2
  <2>3. CASE n # 0
    <3>1. 1 \in m + 1 .. n
      BY <1>1, <2>3
    <3>2. q <= DepthBefore(l, 1)
      BY <2>1, <3>1
    <3> QED  BY <2>1, <3>2
  <2> QED  BY <2>2, <2>3
<1>4. limit = l[m].price /\ m \in 1 .. n
  <2>1. Max(Consumed(l, q)) = m
    BY <1>2, <1>3, LastOfRange
  <2> QED  BY <1>2, <1>3, <2>1 DEF WorstPrice
<1>5. limit \in Nat
  BY <1>1, <1>4
<1> HIDE DEF limit, n
<1>6. TotalCost(l, q) <= limit * q
  <2> DEFINE c == [i \in 1 .. n |-> l[i].price * Taken(l, q, i)]
             t == [i \in 1 .. n |-> Taken(l, q, i)]
             u == [i \in 1 .. n |-> limit * t[i]]
  <2>1. /\ IsFiniteSet(1 .. n) /\ TotalCost(l, q) = SumFunctionOnSet(c, 1 .. n)
        /\ \A i \in 1 .. n : c[i] \in Nat
    BY <1>1, CostTerms DEF n
  <2>2. SumFunctionOnSet(t, 1 .. n) = Clipped(q, DepthOf(l))
    BY <1>1, TakenInAll DEF n
  <2>3. SumFunctionOnSet(t, 1 .. n) = q
    BY <2>2 DEF Clipped
  <2>4. \A i \in 1 .. n : Taken(l, q, i) \in Nat
    BY <1>1, TakenOf DEF n
  <2>5. SumFunctionOnSet(u, 1 .. n) = limit * SumFunctionOnSet(t, 1 .. n)
    <3>1. /\ \A i \in 1 .. n : t[i] \in Int
          /\ \A i \in 1 .. n : u[i] = limit * t[i]
      BY <2>4
    <3> HIDE DEF t, u
    <3>2. IsFiniteSet(1 .. n) /\ limit \in Int
      BY <1>5, <2>1
    <3> QED  BY <3>1, <3>2, SumScale
  <2>6. ASSUME NEW i \in 1 .. n
        PROVE  u[i] \in Int /\ c[i] <= u[i]
    <3> DEFINE p == l[i].price
               x == Taken(l, q, i)
    <3>1. x \in Nat /\ p \in Nat /\ c[i] = p * x /\ u[i] = limit * x
      BY <1>1, <2>4
    <3>2. x = 0 \/ p <= limit
      <4>1. CASE i <= m
        BY <1>1, <1>4, <4>1
      <4>2. CASE i > m
        <5>1. i \notin Consumed(l, q)
          BY <1>2, <4>2
        <5> QED  BY <1>1, <2>4, <5>1 DEF Consumed
      <4> QED  BY <1>2, <4>1, <4>2
    <3> HIDE DEF p, x
    <3>3. p * x <= limit * x /\ limit * x \in Int
      BY <1>5, <3>1, <3>2
    <3> QED  BY <3>1, <3>3
  <2>7. SumFunctionOnSet(c, 1 .. n) <= SumFunctionOnSet(u, 1 .. n)
    <3>1. /\ \A i \in 1 .. n : c[i] \in Int
          /\ \A i \in 1 .. n : u[i] \in Int /\ c[i] <= u[i]
      BY <2>1, <2>6
    <3> HIDE DEF c, u
    <3> QED  BY <2>1, <3>1, SumLeq
  <2> QED  BY <2>1, <2>3, <2>5, <2>7
<1>7. \E p \in 0 .. n : /\ {i \in DOMAIN l : l[i].price <= limit} = 1 .. p
                        /\ \A i \in p + 1 .. n : q <= DepthBefore(l, i)
  <2> DEFINE W == {i \in 1 .. n : l[i].price <= limit}
  <2>1. IsFiniteSet(W) /\ W # {} /\ W \subseteq Nat
    <3>1. m \in W
      BY <1>4, <1>5
    <3>2. IsFiniteSet(1 .. n) /\ W \subseteq 1 .. n
      BY <1>1, IndexSet
    <3>3. IsFiniteSet(W)
      BY <3>2, FS_Subset
    <3> QED  BY <3>1, <3>2, <3>3
  <2> HIDE DEF W
  <2>2. PICK p \in W : \A y \in W : p >= y
    BY <2>1, GreatestNatural
  <2>3. m \in W /\ p \in 1 .. n /\ l[p].price <= limit
    BY <1>4, <1>5, <2>2 DEF W
  <2>4. W = 1 .. p
    <3>1. ASSUME NEW i \in 1 .. p
          PROVE  i \in W
      <4>1. i \in 1 .. n /\ i <= p
        BY <1>1, <2>3
      <4>2. l[i].price <= l[p].price /\ l[i].price \in Nat /\ l[p].price \in Nat
        BY <1>1, <2>3, <4>1
      <4> QED  BY <1>5, <2>3, <4>1, <4>2 DEF W
    <3>2. ASSUME NEW i \in W
          PROVE  i \in 1 .. p
      BY <1>1, <2>2, <2>3 DEF W
    <3> QED  BY <3>1, <3>2
  <2>5. \A i \in p + 1 .. n : i \in m + 1 .. n
    BY <1>1, <1>4, <2>2, <2>3
  <2> QED  BY <1>1, <1>2, <2>3, <2>4, <2>5 DEF W, n
<1> QED  BY <1>5, <1>6, <1>7 DEF limit, n

LEMMA AverageIs ==
    ASSUME NEW c \in Nat, NEW q \in Nat, q >= 1, NEW limit \in Nat, c <= limit * q
    PROVE  /\ c \div Max({1, q}) = c \div q /\ c \div q \in Int
           /\ c \div q <= limit /\ c - (c \div q) * q \in 0 .. q - 1
<1>1. Max({1, q}) = q
  BY MaxOfTwo
<1> DEFINE a == c \div q
           r == c % q
<1>2. a \in Int /\ r \in 0 .. q - 1 /\ c = q * a + r
  OBVIOUS
<1> HIDE DEF a, r
<1>3. q * a <= q * limit
  BY <1>2
<1>4. a <= limit
  BY <1>2, <1>3, ProductOrder
<1>5. c - a * q \in 0 .. q - 1
  BY <1>2
<1> QED  BY <1>1, <1>2, <1>4, <1>5 DEF a

LEMMA TrueFeeIs ==
    ASSUME LoadInv, NEW c \in DOMAIN interned, NEW l \in Seq(Level), NEW q \in Nat
    PROVE  /\ TrueFee(interned[c], l, q)
                = RoundedUp(FeeNumer(interned[c].venue, Category(feeTable, c)) * ExactSpread(l, q),
                            FeeDenom(interned[c].venue))
           /\ TrueFee(interned[c], l, q) \in Nat
           /\ FeePerLevel(interned[c].venue, feeTable, c, l, q) \in Nat
           /\ TrueFee(interned[c], l, q) <= FeePerLevel(interned[c].venue, feeTable, c, l, q)
<1> DEFINE v == interned[c].venue
           e == ExactSpread(l, q)
           cat == Category(feeTable, c)
<1>1. cat \in FeeCategory
  BY CategoryIs
<1>2. e \in Nat /\ RoundedUp(FeeNumer(v, cat) * e, FeeDenom(v)) <= FeePerLevel(v, feeTable, c, l, q)
  BY <1>1, FeePerLevelIsDearer
<1>3. FeeNumer(v, cat) \in Nat /\ FeeDenom(v) \in Nat \ {0} /\ FeePerLevel(v, feeTable, c, l, q) \in Nat
  <2>1. FeeNumer(v, cat) \in Nat /\ FeeDenom(v) \in Nat \ {0}
    BY <1>1, RateIsNat
  <2>2. q \in Int
    OBVIOUS
  <2>3. FeePerLevel(v, feeTable, c, l, q) \in Nat
    BY <1>1, <2>2, FeeTerms
  <2> QED  BY <2>1, <2>3
<1>4. TrueFee(interned[c], l, q)
        = IF v = "Kalshi" THEN RoundedUp(7 * e * KalshiNumer, 10000 * KalshiDenom)
          ELSE RoundedUp(RateBps(cat) * e, 1000000)
  BY TrueCategoryIs DEF TrueFee, ExactSpread
<1> HIDE DEF v, e, cat
<1>5. RoundedUp(FeeNumer(v, cat) * e, FeeDenom(v)) \in Nat
  <2>1. FeeNumer(v, cat) * e \in Nat
    BY <1>2, <1>3
  <2> QED  BY <1>3, <2>1, RoundedUpNat
<1>6. TrueFee(interned[c], l, q) = RoundedUp(FeeNumer(v, cat) * e, FeeDenom(v))
  <2>1. CASE v = "Kalshi"
    <3>1. 7 * e * KalshiNumer = (7 * KalshiNumer) * e
      BY <1>2, FeesAssumption
    <3>2. TrueFee(interned[c], l, q) = RoundedUp((7 * KalshiNumer) * e, 10000 * KalshiDenom)
      BY <1>4, <2>1, <3>1
    <3> QED  BY <2>1, <3>2 DEF FeeNumer, FeeDenom
  <2>2. CASE v # "Kalshi"
    BY <1>4, <2>2 DEF FeeNumer, FeeDenom
  <2> QED  BY <2>1, <2>2
<1> QED  BY <1>2, <1>3, <1>5, <1>6 DEF v, e, cat

(* The simulator's fill of an order whose limit is the worst price of a    *)
(* walk over the venue's own ladder.                                       *)
LEMMA PaperFillIs ==
    ASSUME LoadInv, BooksOK, NEW o, NEW g, NEW legs, NEW q \in Nat, Priced(o, g, legs, q),
           NEW j \in DOMAIN legs
    PROVE  LET r    == OrderOf(o, j)
               asks == RealAsks(o, j)
               fill == PaperFill(r, books[r.id], feeTable)
           IN  /\ fill.kind = "filled" /\ fill.qty = r.qty
               /\ TotalCost(asks, r.qty) - fill.average * r.qty \in 0 .. r.qty - 1
               /\ fill.fee >= TrueFee(r.contract, asks, r.qty)
<1> DEFINE r == OrderOf(o, j)
           c == legs[j].contract
           l == AsksOf(legs, books, j)
           w == Walk(l, q)
           limit == WorstPrice(l, q)
           fill == PaperFill(r, books[r.id], feeTable)
<1>1. /\ r.id = c /\ r.contract = interned[c] /\ r.side = legs[j].side /\ r.qty = q
      /\ r.limit = limit /\ RealAsks(o, j) = l /\ books[c].venue = interned[c].venue
      /\ q >= 1 /\ q <= DepthOf(l)
  BY OrderMeets DEF Meets
<1>2. /\ IsOffer(l) /\ l \in Seq(Level) /\ c \in DOMAIN interned
      /\ Category(feeTable, c) \in FeeCategory
  BY CategoryIs DEF Priced, IsOffer
<1>3. Asks(books[c], legs[j].side) = l
  BY DEF AsksOf
<1>4. limit \in Nat /\ TotalCost(l, q) <= limit * q
  BY <1>1, <1>2, LimitIs
<1>5. /\ w \in Seq(Level) /\ DepthOf(w) = Clipped(q, DepthOf(l)) /\ SameWalk(w, l, q)
  BY <1>2, WalkIs
<1>6. DepthOf(w) = q
  BY <1>1, <1>5 DEF Clipped
<1>7. TotalCost(w, q) = TotalCost(l, q) /\ TotalCost(l, q) \in Nat
  <2>1. q \in Int
    OBVIOUS
  <2> HIDE DEF w, l
  <2>2. TotalCost(w, q) = TotalCost(l, q)
    BY <1>5, <2>1, SameWalkCosts
  <2>3. TotalCost(l, q) \in Nat
    BY <1>2, <2>1, CostTerms
  <2> QED  BY <2>2, <2>3
<1>8. FeePerLevel(interned[c].venue, feeTable, c, w, q)
        = FeePerLevel(interned[c].venue, feeTable, c, l, q)
  BY <1>2, <1>5, SameWalkFees
<1>9. /\ TrueFee(interned[c], l, q) \in Nat
      /\ FeePerLevel(interned[c].venue, feeTable, c, l, q) \in Nat
      /\ TrueFee(interned[c], l, q) <= FeePerLevel(interned[c].venue, feeTable, c, l, q)
  BY <1>2, TrueFeeIs
<1> DEFINE avg == TotalCost(w, q) \div Max({1, q})
<1>10. avg \in Int /\ avg <= limit /\ TotalCost(l, q) - avg * q \in 0 .. q - 1
  <2> DEFINE cost == TotalCost(l, q)
  <2>1. cost \in Nat /\ cost <= limit * q /\ TotalCost(w, q) = cost
    BY <1>4, <1>7
  <2> HIDE DEF cost, limit, w
  <2>2. /\ cost \div Max({1, q}) = cost \div q /\ cost \div q \in Int
        /\ cost \div q <= limit /\ cost - (cost \div q) * q \in 0 .. q - 1
    BY <1>1, <1>4, <2>1, AverageIs
  <2> QED  BY <2>1, <2>2 DEF cost
<1>11. PaperLadder(r, books[r.id]) = w
  BY <1>1, <1>3 DEF PaperLadder
<1>12. fill = IF DepthOf(w) < r.qty \/ TotalCost(w, r.qty) \div Max({1, r.qty}) > r.limit
              THEN [kind |-> "refused"]
              ELSE [kind |-> "filled", qty |-> r.qty,
                    average |-> TotalCost(w, r.qty) \div Max({1, r.qty}),
                    fee |-> FeePerLevel(books[r.id].venue, feeTable, r.id, w, r.qty)]
  BY <1>11 DEF PaperFill
<1> HIDE DEF avg, w, l, limit, fill, r, c
<1>13. ~(DepthOf(w) < r.qty \/ avg > r.limit)
  BY <1>1, <1>4, <1>6, <1>10
<1>14. fill = [kind |-> "filled", qty |-> q, average |-> avg,
               fee |-> FeePerLevel(interned[c].venue, feeTable, c, w, q)]
  BY <1>1, <1>12, <1>13 DEF avg
<1>15. fill.kind = "filled" /\ fill.qty = q /\ fill.average = avg
       /\ fill.fee = FeePerLevel(interned[c].venue, feeTable, c, w, q)
  BY <1>14
<1>16. fill.fee >= TrueFee(interned[c], l, q)
  BY <1>8, <1>9, <1>15
<1> QED  BY <1>1, <1>10, <1>15, <1>16 DEF fill, r

(* PaperIsTheVenue: the simulation fills an order of an accepted trade as  *)
(* the venue would: the same quantity, an average short of the price by    *)
(* less than a cent, and a fee no smaller.                                 *)
THEOREM ArbitragePaper == Spec => []PaperIsTheVenue
<1>1. LoadInv /\ StoreInv => PaperIsTheVenue
  <2> SUFFICES ASSUME LoadInv, StoreInv, NEW i \in DOMAIN accepted,
                      NEW j \in DOMAIN accepted[i].legs
               PROVE  LET r    == OrderOf(accepted[i], j)
                          asks == RealAsks(accepted[i], j)
                          fill == PaperFill(r, books[r.id], feeTable)
                      IN  /\ fill.kind = "filled" /\ fill.qty = r.qty
                          /\ TotalCost(asks, r.qty) - fill.average * r.qty \in 0 .. r.qty - 1
                          /\ fill.fee >= TrueFee(r.contract, asks, r.qty)
    BY DEF PaperIsTheVenue
  <2> DEFINE o == accepted[i]
  <2>1. BooksOK /\ \E g, legs : \E q \in Nat : Priced(o, g, legs, q)
    BY AcceptedIs
  <2>2. PICK g, legs : \E q \in Nat : Priced(o, g, legs, q)
    BY <2>1
  <2>3. PICK q \in Nat : Priced(o, g, legs, q)
    BY <2>2
  <2>4. j \in DOMAIN legs
    <3>1. DOMAIN o.legs = DOMAIN legs
      BY <2>3 DEF Priced, CostedAt
    <3> QED  BY <3>1
  <2> HIDE DEF o
  <2> QED  BY <2>1, <2>3, <2>4, PaperFillIs DEF o
<1> QED  BY <1>1, LoadInvariant, StoreInvariant, PTL

-----------------------------------------------------------------------------
(* The promise.  What a relation says of the contracts that pay; what the  *)
(* source says of a world; and that no group was built that the source     *)
(* does not imply.                                                         *)

PaidBy(g, names, w, i) == names[g.members[i]] \in w

OneIsPaid(g, names, w) ==
    \E i \in DOMAIN g.members : \A j \in DOMAIN g.members : PaidBy(g, names, w, j) <=> j = i

EachPaysTheWeaker(g, names, w) ==
    \A i \in 1 .. Len(g.members) - 1 : PaidBy(g, names, w, i + 1) => PaidBy(g, names, w, i)

Means(g, names, w) ==
    /\ g.kind = "exhaustive" => OneIsPaid(g, names, w)
    /\ g.kind = "monotone" => EachPaysTheWeaker(g, names, w)
    /\ g.kind = "implies" => (PaidBy(g, names, w, 1) => PaidBy(g, names, w, 2))
    /\ g.kind = "equivalent" /\ g.verified =>
          (PaidBy(g, names, w, 1) <=> PaidBy(g, names, w, 2))

Here(w) == IF OfListing THEN ListingWorld(source, w) ELSE FileWorld(w)

AllMeant(gs, names, w) == \A k \in DOMAIN gs : Means(gs[k], names, w)

MeansInv ==
    /\ Plain(source)
    /\ Promoted => \A w : ListingWorld(origin[1].listing, w) => FileWorld(w)
    /\ \A w : Here(w) => AllMeant(groups, interned, w)

LEMMA SameWorlds ==
    ASSUME source' = source
    PROVE  /\ \A w : FileWorld(w)' = FileWorld(w)
           /\ \A w : Here(w)' = Here(w)
           /\ Plain(source)' = Plain(source)
<1>1. ASSUME NEW w PROVE FileWorld(w)' = FileWorld(w)
  BY DEF FileWorld, Claim
<1>2. ASSUME NEW w PROVE Here(w)' = Here(w)
  BY <1>1 DEF Here, OfListing
<1> QED  BY <1>1, <1>2 DEF Plain, OneWins

LEMMA MeansSame ==
    ASSUME MeansInv, source' = source, origin' = origin,
           groups' = <<>> \/ (groups' = groups /\ interned' = interned)
    PROVE  MeansInv'
<1>1. Plain(source)'
  BY SameWorlds DEF MeansInv
<1>2. Promoted' => \A w : ListingWorld(origin[1].listing, w)' => FileWorld(w)'
  <2> SUFFICES ASSUME Promoted', NEW w, ListingWorld(origin[1].listing, w)' PROVE FileWorld(w)'
    OBVIOUS
  <2>1. Promoted /\ ListingWorld(origin[1].listing, w)
    BY DEF Promoted
  <2> QED  BY <2>1, SameWorlds DEF MeansInv
<1>3. \A w : Here(w)' => AllMeant(groups', interned', w)
  <2> SUFFICES ASSUME NEW w, Here(w)' PROVE AllMeant(groups', interned', w)
    OBVIOUS
  <2>1. AllMeant(groups, interned, w)
    BY SameWorlds DEF MeansInv
  <2>2. CASE groups' = <<>>
    BY <2>2 DEF AllMeant
  <2> QED  BY <2>1, <2>2
<1> QED  BY <1>1, <1>2, <1>3 DEF MeansInv, AllMeant, Means, OneIsPaid, EachPaysTheWeaker, PaidBy

LEMMA MeansInit ==
    ASSUME \A s \in Sources : Plain(s), Init
    PROVE  MeansInv
<1>1. source \in Sources /\ origin = <<>> /\ groups = <<>>
  BY DEF Init, RegistryInit
<1> QED  BY <1>1 DEF MeansInv, Promoted, AllMeant

LEMMA OneOfMany ==
    ASSUME NEW S, IsFiniteSet(S), NEW P \in SUBSET S
    PROVE  Cardinality(P) = 1 <=> \E x \in S : P = {x}
<1>1. IsFiniteSet(P)
  BY FS_Subset
<1> QED  BY <1>1, FS_Singleton

(* A group of a file says what its entry does, each member being the       *)
(* outcome that pays.                                                      *)
EntryMeans(fg, w) ==
    LET m == fg.members
    IN  /\ fg.kind = "exhaustive" => Cardinality({i \in DOMAIN m : Claim(m[i], w)}) = 1
        /\ fg.kind = "monotone" =>
               \A i \in 1 .. Len(m) - 1 : Claim(m[i + 1], w) => Claim(m[i], w)
        /\ fg.kind = "implies" => (Claim(m[1], w) => Claim(m[2], w))
        /\ fg.kind = "equivalent" /\ fg.verified = "yes" => (Claim(m[1], w) <=> Claim(m[2], w))

LEMMA WorldOfEntries ==
    ASSUME NEW w
    PROVE  FileWorld(w) <=> \A e \in DOMAIN source.events :
                \A x \in DOMAIN source.events[e].groups :
                    EntryMeans(source.events[e].groups[x], w)
BY DEF FileWorld, EntryMeans

(* An entry and a group that names the same contracts say the same.        *)
LEMMA EntryAndGroup ==
    ASSUME NEW fg, NEW g, NEW names, NEW w, NEW n \in Nat,
           DOMAIN fg.members = 1 .. n, Len(fg.members) = n,
           DOMAIN g.members = 1 .. n, Len(g.members) = n, fg.kind = g.kind,
           g.kind \in {"implies", "equivalent"} => n = 2,
           \A i \in 1 .. n : Claim(fg.members[i], w) <=> PaidBy(g, names, w, i)
    PROVE  /\ (g.kind = "equivalent" /\ g.verified => fg.verified = "yes") =>
                 (EntryMeans(fg, w) => Means(g, names, w))
           /\ (g.kind = "equivalent" /\ fg.verified = "yes" => g.verified) =>
                 (Means(g, names, w) => EntryMeans(fg, w))
<1>1. g.kind = "exhaustive" =>
        (Cardinality({i \in DOMAIN fg.members : Claim(fg.members[i], w)}) = 1
            <=> OneIsPaid(g, names, w))
  <2> DEFINE P == {i \in DOMAIN fg.members : Claim(fg.members[i], w)}
  <2>1. IsFiniteSet(1 .. n) /\ P \in SUBSET (1 .. n)
    BY IndexSet
  <2>3. ASSUME NEW x \in 1 .. n
        PROVE  P = {x} <=> \A j \in 1 .. n : PaidBy(g, names, w, j) <=> j = x
    OBVIOUS
  <2> HIDE DEF P
  <2>2. Cardinality(P) = 1 <=> \E x \in 1 .. n : P = {x}
    BY <2>1, OneOfMany
  <2>4. (\E x \in 1 .. n : P = {x}) <=> OneIsPaid(g, names, w)
    BY <2>3 DEF OneIsPaid
  <2> QED  BY <2>2, <2>4 DEF P
<1>2. (\A i \in 1 .. n - 1 : Claim(fg.members[i + 1], w) => Claim(fg.members[i], w))
        <=> EachPaysTheWeaker(g, names, w)
  <2>1. \A i \in 1 .. n - 1 : i \in 1 .. n /\ i + 1 \in 1 .. n
    OBVIOUS
  <2> QED  BY <2>1 DEF EachPaysTheWeaker
<1>3. n = 2 => /\ Claim(fg.members[1], w) <=> PaidBy(g, names, w, 1)
               /\ Claim(fg.members[2], w) <=> PaidBy(g, names, w, 2)
  OBVIOUS
<1>4. EntryMeans(fg, w) <=>
        /\ g.kind = "exhaustive" => Cardinality({i \in DOMAIN fg.members : Claim(fg.members[i], w)}) = 1
        /\ g.kind = "monotone" =>
             \A i \in 1 .. n - 1 : Claim(fg.members[i + 1], w) => Claim(fg.members[i], w)
        /\ g.kind = "implies" => (Claim(fg.members[1], w) => Claim(fg.members[2], w))
        /\ g.kind = "equivalent" /\ fg.verified = "yes" =>
             (Claim(fg.members[1], w) <=> Claim(fg.members[2], w))
  BY DEF EntryMeans
<1> QED  BY <1>1, <1>2, <1>3, <1>4 DEF Means

LEMMA PlainClaims ==
    ASSUME NEW m, m.side = "yes", NEW w
    PROVE  Claim(m, w) <=> m.contract \in w
BY DEF Claim

LEMMA MeansAddGroup ==
    ASSUME LoadInv, MeansInv, AddGroup
    PROVE  MeansInv'
<1> DEFINE fg  == Entry.groups[cursor.group]
           ids == EntryIds(fg)
           g   == GroupOf(fg.kind, ids, fg.verified # "no", Entry.resolves, FALSE)
<1>1. /\ Reading /\ AtGroup /\ source' = source /\ origin' = origin /\ interned' = interned
      /\ GoodEntry(fg, ids) /\ groups' = Append(groups, g)
  BY DEF AddGroup, AtGroup
<1>2. /\ cursor.event \in DOMAIN source.events /\ Entry = source.events[cursor.event]
      /\ source.from = "file"
      /\ Entry.groups \in Seq(FileGroup) /\ \A x \in DOMAIN Entry.groups : Entry.groups[x] \in FileGroup
  BY <1>1, EntryIs
<1>3. cursor.group \in DOMAIN Entry.groups /\ fg \in FileGroup
  BY <1>1, <1>2 DEF LoadInv, ReadingOK, AtGroup, Reading
<1>4. /\ ids \in Seq(Nat) /\ DOMAIN ids = DOMAIN fg.members
      /\ \A i \in DOMAIN ids : interned[ids[i]] = fg.members[i].contract
  BY <1>1, <1>3, EntryIdsAre
<1>5. /\ fg.members \in Seq(FileMember) /\ fg.verified \in {"absent", "yes", "no"}
      /\ fg.kind \in Kind
  BY <1>3 DEF FileGroup
<1>6. ASSUME NEW w, FileWorld(w) PROVE Means(g, interned, w)
  <2>1. EntryMeans(fg, w)
    BY <1>2, <1>3, <1>6, WorldOfEntries
  <2>2. ASSUME NEW i \in DOMAIN fg.members
        PROVE  Claim(fg.members[i], w) <=> PaidBy(g, interned, w, i)
    <3>1. fg.members[i].side = "yes"
      BY <1>2, <1>3 DEF MeansInv, Plain
    <3>2. g.members[i] = ids[i]
      BY DEF GroupOf
    <3> HIDE DEF fg, ids, g
    <3> QED  BY <3>1, <3>2, <1>4, PlainClaims DEF PaidBy
  <2> DEFINE n == Len(fg.members)
  <2>3. /\ n \in Nat /\ DOMAIN fg.members = 1 .. n
        /\ DOMAIN ids = 1 .. n /\ Len(ids) = n
    BY <1>4, <1>5
  <2>4. g.members = ids /\ g.kind = fg.kind /\ g.verified = (fg.verified # "no")
    BY DEF GroupOf
  <2>5. /\ g.kind \in {"implies", "equivalent"} => n = 2
        /\ g.kind = "equivalent" => (fg.verified = "yes" <=> g.verified)
    BY <1>1, <1>5, <2>3, <2>4 DEF GoodEntry, GoodArity
  <2>6. \A i \in 1 .. n : Claim(fg.members[i], w) <=> PaidBy(g, interned, w, i)
    BY <2>2, <2>3
  <2>7. Len(fg.members) = n
    OBVIOUS
  <2>8. DOMAIN g.members = 1 .. n /\ Len(g.members) = n
    BY <2>3, <2>4
  <2> HIDE DEF fg, g, ids, n
  <2> QED  BY <2>1, <2>3, <2>4, <2>5, <2>6, <2>7, <2>8, EntryAndGroup
<1>7. PICK len \in Nat : DOMAIN groups = 1 .. len
  BY DEF LoadInv, GroupsOK
<1>8. ASSUME NEW w, FileWorld(w) PROVE AllMeant(groups', interned, w)
  <2>1. AllMeant(groups, interned, w)
    BY <1>2, <1>8 DEF MeansInv, Here, OfListing
  <2>2. ASSUME NEW k \in DOMAIN groups' PROVE groups'[k] = g \/ (k \in DOMAIN groups /\ groups'[k] = groups[k])
    <3> HIDE DEF g
    <3> QED  BY <1>1, <1>7, <2>2
  <2> HIDE DEF g
  <2> QED  BY <1>6, <1>8, <2>1, <2>2 DEF AllMeant
<1>9. \A w : Here(w)' => AllMeant(groups', interned', w)
  <2>1. \A w : Here(w) => FileWorld(w)
    BY <1>2 DEF Here, OfListing
  <2> QED  BY <1>1, <1>8, <2>1, SameWorlds
<1>10. Plain(source)' /\ (Promoted' => \A w : ListingWorld(origin[1].listing, w)' => FileWorld(w)')
  <2>1. Plain(source)'
    BY <1>1, SameWorlds DEF MeansInv
  <2>2. ASSUME Promoted', NEW w, ListingWorld(origin[1].listing, w)' PROVE FileWorld(w)'
    <3>1. Promoted /\ ListingWorld(origin[1].listing, w)
      BY <1>1, <2>2 DEF Promoted
    <3> QED  BY <1>1, <3>1, SameWorlds DEF MeansInv
  <2> QED  BY <2>1, <2>2
<1> HIDE DEF fg, g, ids
<1> QED  BY <1>9, <1>10 DEF MeansInv, AllMeant, Means, OneIsPaid, EachPaysTheWeaker, PaidBy

(* What a world says of an event of the listing, and what discovery read   *)
(* of it.                                                                  *)
MarketsUnder(e) == {m \in ToSet(source.markets) : m.event = e}
PaidUnder(e, w) == {m \in MarketsUnder(e) : KalshiNamed(m.key) \in w}

LEMMA EventOfWorld ==
    ASSUME NEW w, ListingWorld(source, w), NEW e, MarketsUnder(e) # {}
    PROVE  /\ OneWins(source, e) => Cardinality({m.key : m \in PaidUnder(e, w)}) = 1
           /\ ~OneWins(source, e) =>
                \E v \in Draws(source) : \A m \in MarketsUnder(e) :
                    /\ m.type = "greater" /\ m.strike # NoStrike => (m \in PaidUnder(e, w) <=> v > m.strike)
                    /\ m.type = "less" /\ m.strike # NoStrike => (m \in PaidUnder(e, w) <=> v < m.strike)
<1>1. e \in {m.event : m \in ToSet(source.markets)}
  BY DEF MarketsUnder
<1> QED  BY <1>1 DEF ListingWorld, MarketsUnder, PaidUnder

LEMMA DrawsAreInts ==
    ASSUME source \in KalshiListings
    PROVE  Draws(source) \subseteq Int
<1>1. ASSUME NEW m \in ToSet(source.markets), m.strike # NoStrike, NEW d \in {-1, 0, 1}
      PROVE  m.strike + d \in Int
  <2>1. m \in KalshiMarket
    BY ListingIs DEF ToSet
  <2>2. m.strike \in Int
    BY <1>1, <2>1, MarketIs DEF Strike
  <2> QED  BY <2>2
<1> QED  BY <1>1 DEF Draws

LEMMA InferredMarkets ==
    ASSUME source \in KalshiListings, NEW q, InferredFrom(q), NEW i \in DOMAIN q.markets
    PROVE  /\ q.markets[i] \in MarketsUnder(q.event)
           /\ q.markets[i].strike \in Strike /\ q.markets[i].key \in Int
<1>1. q.markets[i].event = q.event /\ \E k \in DOMAIN Listed : q.markets[i] = Listed[k]
  BY DEF InferredFrom
<1>2. PICK k \in DOMAIN Listed : q.markets[i] = Listed[k]
  BY <1>1
<1>3. PICK j \in DOMAIN source.markets : Listed[k] = source.markets[j]
  BY ListedIs
<1>4. q.markets[i] \in ToSet(source.markets) /\ q.markets[i] \in KalshiMarket
  BY <1>2, <1>3, ListingIs DEF ToSet
<1> QED  BY <1>1, <1>4, MarketIs DEF MarketsUnder

LEMMA OneEntryEach ==
    ASSUME LoadInv, OfListing, phase \in {"markets", "groups", "check", "polymarket"},
           NEW e, KeyTaken(e)
    PROVE  OneWins(source, e) <=> Exclusive(e)
<1>1. PICK k \in DOMAIN events : events[k].key = e
  BY DEF KeyTaken
<1>2. Closes(e) # {}
  BY <1>1 DEF LoadInv, ListedEventsOK
<1>3. \A i, j \in DOMAIN source.events :
        source.events[i].key = e /\ source.events[j].key = e => i = j
  BY <1>2 DEF LoadInv, ListedEventsOK
<1>4. ASSUME OneWins(source, e) PROVE Exclusive(e)
  <2>1. PICK i \in DOMAIN source.events : source.events[i].key = e /\ source.events[i].exclusive
    BY <1>4 DEF OneWins
  <2>2. source.events \in Seq(KalshiEvent)
    BY ListingRead, ListingIs
  <2>3. \A j \in 1 .. i - 1 : j \in DOMAIN source.events /\ j # i
    BY <2>2
  <2>4. \A j \in 1 .. i - 1 : source.events[j].key # e
    BY <1>3, <2>1, <2>3
  <2> QED  BY <2>1, <2>4 DEF Exclusive
<1> QED  BY <1>4 DEF OneWins, Exclusive

LEMMA WinnerIsListed ==
    ASSUME LoadInv, OfListing, Plain(source), NEW q, InferredFrom(q), q.kind = "exhaustive",
           KeyTaken(q.event), phase = "groups", NEW w, ListingWorld(source, w)
    PROVE  \E key : /\ \E i \in DOMAIN q.markets : q.markets[i].key = key
                    /\ \A i \in DOMAIN q.markets :
                          KalshiNamed(q.markets[i].key) \in w <=> q.markets[i].key = key
<1> DEFINE e == q.event
           P == PaidUnder(e, w)
           keys == {m.key : m \in P}
<1>1. source \in KalshiListings /\ source \in Sources
  BY ListingRead
<1>2. \A i \in DOMAIN q.markets : q.markets[i] \in MarketsUnder(e) /\ q.markets[i].key \in Int
  BY <1>1, InferredMarkets
<1>3. Exclusive(e) /\ q.markets = MarketsOf(e) /\ Len(q.markets) >= 2 /\ q.markets \in Seq(KalshiMarket)
  BY DEF InferredFrom, InferredGroup
<1>4. OneWins(source, e)
  BY <1>3, OneEntryEach
<1>5. Cardinality(keys) = 1
  <2>1. 1 \in DOMAIN q.markets
    BY <1>3
  <2>2. MarketsUnder(e) # {}
    BY <1>2, <2>1
  <2> QED  BY <1>4, <2>2, EventOfWorld
<1>6. IsFiniteSet(keys)
  <2>1. IsFiniteSet(ToSet(source.markets))
    BY <1>1, ListingIs, FiniteRange
  <2>2. P \subseteq ToSet(source.markets)
    BY DEF PaidUnder, MarketsUnder
  <2>3. IsFiniteSet(P)
    BY <2>1, <2>2, FS_Subset
  <2> HIDE DEF P
  <2>4. IsFiniteSet({[m \in P |-> m.key][x] : x \in P})
    BY <2>3, FiniteImage
  <2>5. {[m \in P |-> m.key][x] : x \in P} = keys
    OBVIOUS
  <2> QED  BY <2>4, <2>5
<1>7. PICK key : keys = {key}
  <2> HIDE DEF keys
  <2> QED  BY <1>5, <1>6, FS_Singleton
<1>8. PICK m \in P : m.key = key
  <2> HIDE DEF P
  <2>1. key \in keys
    BY <1>7
  <2> QED  BY <2>1
<1>9. \E i \in DOMAIN q.markets : q.markets[i] = m
  <2>1. m \in ToSet(source.markets) /\ m.event = e
    BY DEF PaidUnder, MarketsUnder
  <2>2. PICK j \in DOMAIN source.markets : source.markets[j] = m
    BY <2>1 DEF ToSet
  <2>3. source.markets[j].open
    BY <1>4, <2>1, <2>2 DEF Plain, OfListing
  <2>4. PICK k \in DOMAIN Listed : Listed[k] = m
    BY <1>1, <2>2, <2>3, ListedIs
  <2>5. \E i \in DOMAIN MarketsOf(e) : MarketsOf(e)[i] = Listed[k]
    BY <1>1, <2>1, <2>4, MarketsOfIs
  <2> QED  BY <1>3, <2>4, <2>5
<1>10. ASSUME NEW i \in DOMAIN q.markets
       PROVE  KalshiNamed(q.markets[i].key) \in w <=> q.markets[i].key = key
  <2>1. KalshiNamed(q.markets[i].key) \in w => q.markets[i] \in P
    BY <1>2 DEF PaidUnder
  <2>2. q.markets[i] \in P => q.markets[i].key \in keys
    OBVIOUS
  <2>3. KalshiNamed(m.key) \in w
    BY DEF PaidUnder
  <2> QED  BY <1>7, <1>8, <2>1, <2>2, <2>3
<1> QED  BY <1>8, <1>9, <1>10

LEMMA RungsNest ==
    ASSUME LoadInv, OfListing, NEW q, InferredFrom(q), q.kind = "monotone",
           KeyTaken(q.event), phase = "groups", NEW w, ListingWorld(source, w),
           NEW i \in DOMAIN q.markets, NEW j \in DOMAIN q.markets, i < j,
           KalshiNamed(q.markets[j].key) \in w
    PROVE  KalshiNamed(q.markets[i].key) \in w
<1> DEFINE e == q.event
           a == q.markets[i]
           b == q.markets[j]
<1>1. source \in KalshiListings
  BY ListingRead
<1>2. a \in MarketsUnder(e) /\ b \in MarketsUnder(e)
  BY <1>1, InferredMarkets
<1>3. ~OneWins(source, e)
  BY OneEntryEach DEF InferredFrom
<1>4. PICK v \in Draws(source) : \A m \in MarketsUnder(e) :
        /\ m.type = "greater" /\ m.strike # NoStrike => (m \in PaidUnder(e, w) <=> v > m.strike)
        /\ m.type = "less" /\ m.strike # NoStrike => (m \in PaidUnder(e, w) <=> v < m.strike)
  <2>1. MarketsUnder(e) # {}
    BY <1>2
  <2> QED  BY <1>3, <2>1, EventOfWorld
<1>5. v \in Int
  BY <1>1, DrawsAreInts
<1>6. Rungs(q.markets)
  BY DEF InferredFrom
<1>7. /\ a.strike # NoStrike /\ a.strike \in Int /\ b.strike # NoStrike /\ b.strike \in Int
      /\ Threshold(a) < Threshold(b)
  BY <1>6 DEF Rungs
<1>8. PICK type \in {"greater", "less"} : a.type = type /\ b.type = type
  BY <1>6 DEF Rungs
<1>9. a \in PaidUnder(e, w) <=> KalshiNamed(a.key) \in w
  BY <1>2 DEF PaidUnder
<1>10. b \in PaidUnder(e, w)
  BY <1>2 DEF PaidUnder
<1> HIDE DEF a, b
<1>11. CASE type = "greater"
  <2>1. a.strike < b.strike
    BY <1>7, <1>8, <1>11, ThresholdIs
  <2>2. v > b.strike
    BY <1>2, <1>4, <1>7, <1>8, <1>10, <1>11
  <2>3. v > a.strike
    BY <1>5, <1>7, <2>1, <2>2
  <2>4. a \in PaidUnder(e, w)
    BY <1>2, <1>4, <1>7, <1>8, <1>11, <2>3
  <2> QED  BY <1>9, <2>4 DEF a
<1>12. CASE type = "less"
  <2>1. b.strike < a.strike
    BY <1>7, <1>8, <1>12, ThresholdIs
  <2>2. v < b.strike
    BY <1>2, <1>4, <1>7, <1>8, <1>10, <1>12
  <2>3. v < a.strike
    BY <1>5, <1>7, <2>1, <2>2
  <2>4. a \in PaidUnder(e, w)
    BY <1>2, <1>4, <1>7, <1>8, <1>12, <2>3
  <2> QED  BY <1>9, <2>4 DEF a
<1> QED  BY <1>8, <1>11, <1>12

LEMMA InferredMeans ==
    ASSUME LoadInv, OfListing, phase = "groups", Plain(source),
           NEW g, UnderOneEvent(g, binding, events),
           NEW q, InferredFrom(q), KeyTaken(q.event), AsInferred(g, q, interned),
           NEW w, ListingWorld(source, w)
    PROVE  Means(g, interned, w)
<1>1. /\ g.kind = q.kind /\ DOMAIN g.members = DOMAIN q.markets
      /\ \A i \in DOMAIN g.members : interned[g.members[i]] = KalshiNamed(q.markets[i].key)
  BY DEF AsInferred
<1>2. \A i \in DOMAIN g.members : PaidBy(g, interned, w, i) <=> KalshiNamed(q.markets[i].key) \in w
  BY <1>1 DEF PaidBy
<1>3. g.kind \in {"complement", "exhaustive", "monotone"}
  BY <1>1 DEF InferredFrom, InferredGroup
<1>4. /\ g.members \in Seq(Nat) /\ IsInjective(g.members)
      /\ \A i \in DOMAIN g.members : g.members[i] \in DOMAIN binding
  BY DEF UnderOneEvent, WellShaped
<1>5. \A i, j \in DOMAIN g.members : interned[g.members[i]] = interned[g.members[j]] => i = j
  <2>1. IsInjective(interned) /\ \A c \in DOMAIN binding : c \in DOMAIN interned
    BY DEF LoadInv, TablesOK, BindingOK
  <2> QED  BY <1>4, <2>1 DEF IsInjective
<1>6. ASSUME g.kind = "exhaustive" PROVE OneIsPaid(g, interned, w)
  <2>1. PICK key : /\ \E i \in DOMAIN q.markets : q.markets[i].key = key
                   /\ \A i \in DOMAIN q.markets :
                         KalshiNamed(q.markets[i].key) \in w <=> q.markets[i].key = key
    BY <1>1, <1>6, WinnerIsListed
  <2>2. PICK i \in DOMAIN q.markets : q.markets[i].key = key
    BY <2>1
  <2>3. ASSUME NEW j \in DOMAIN g.members PROVE PaidBy(g, interned, w, j) <=> j = i
    <3>1. PaidBy(g, interned, w, j) <=> q.markets[j].key = key
      BY <1>1, <1>2, <2>1
    <3>2. q.markets[j].key = key => j = i
      <4>1. q.markets[j].key = key => interned[g.members[j]] = interned[g.members[i]]
        BY <1>1, <2>2
      <4> QED  BY <1>1, <1>5, <4>1
    <3> QED  BY <2>2, <3>1, <3>2
  <2> QED  BY <1>1, <2>3 DEF OneIsPaid
<1>7. ASSUME g.kind = "monotone" PROVE EachPaysTheWeaker(g, interned, w)
  <2>1. ASSUME NEW i \in 1 .. Len(g.members) - 1, PaidBy(g, interned, w, i + 1)
        PROVE  PaidBy(g, interned, w, i)
    <3>1. i \in DOMAIN g.members /\ i + 1 \in DOMAIN g.members /\ i < i + 1
      BY <1>4
    <3>2. KalshiNamed(q.markets[i + 1].key) \in w
      BY <1>2, <2>1, <3>1
    <3>3. KalshiNamed(q.markets[i].key) \in w
      <4>1. i \in DOMAIN q.markets /\ i + 1 \in DOMAIN q.markets /\ q.kind = "monotone"
        BY <1>1, <1>7, <3>1
      <4> QED  BY <3>1, <3>2, <4>1, RungsNest
    <3> QED  BY <1>2, <3>1, <3>3
  <2> QED  BY <2>1 DEF EachPaysTheWeaker
<1> QED  BY <1>3, <1>6, <1>7 DEF Means

LEMMA MeansAddInferred ==
    ASSUME LoadInv, MeansInv, AddInferred
    PROVE  MeansInv'
<1>1. /\ phase = "groups" /\ OfListing /\ source' = source /\ origin' = origin
      /\ interned' = interned
  BY DEF AddInferred, OfListing
<1>2. ASSUME NEW w, Here(w) PROVE AllMeant(groups', interned, w)
  <2>1. ListingWorld(source, w) /\ Plain(source)
    BY <1>1, <1>2 DEF Here, MeansInv
  <2>2. ASSUME NEW k \in DOMAIN groups' PROVE Means(groups'[k], interned, w)
    <3> DEFINE g == groups'[k]
    <3>1. UnderOneEvent(g, binding, events)
      BY InferredAdded
    <3>2. PICK q : InferredFrom(q) /\ KeyTaken(q.event) /\ AsInferred(g, q, interned)
      BY InferredAdded
    <3> HIDE DEF g
    <3>3. Means(g, interned, w)
      BY <1>1, <2>1, <3>1, <3>2, InferredMeans
    <3> QED  BY <3>3 DEF g
  <2> QED  BY <2>2 DEF AllMeant
<1>3. \A w : Here(w)' => AllMeant(groups', interned', w)
  BY <1>1, <1>2, SameWorlds
<1>4. Plain(source)' /\ (Promoted' => \A w : ListingWorld(origin[1].listing, w)' => FileWorld(w)')
  <2>1. Plain(source)'
    BY <1>1, SameWorlds DEF MeansInv
  <2>2. ASSUME Promoted', NEW w, ListingWorld(origin[1].listing, w)' PROVE FileWorld(w)'
    <3>1. Promoted /\ ListingWorld(origin[1].listing, w)
      BY <1>1, <2>2 DEF Promoted
    <3> QED  BY <1>1, <3>1, SameWorlds DEF MeansInv
  <2> QED  BY <2>1, <2>2
<1> QED  BY <1>3, <1>4 DEF MeansInv, AllMeant, Means, OneIsPaid, EachPaysTheWeaker, PaidBy

(* New names are added after the old ones, and the new groups only ever    *)
(* set a contract against its own negation.                                *)
LEMMA MeansKept ==
    ASSUME NEW g, NEW names, NEW more, NEW w, WellShaped(g), Means(g, names, w),
           \A i \in DOMAIN g.members : more[g.members[i]] = names[g.members[i]]
    PROVE  Means(g, more, w)
<1>1. \A i \in DOMAIN g.members : PaidBy(g, more, w, i) <=> PaidBy(g, names, w, i)
  BY DEF PaidBy
<1>2. /\ g.members \in Seq(Nat)
      /\ g.kind \in {"implies", "equivalent"} => Len(g.members) = 2
  BY DEF WellShaped
<1>3. g.kind = "exhaustive" => OneIsPaid(g, more, w)
  BY <1>1 DEF Means, OneIsPaid
<1>4. g.kind = "monotone" => EachPaysTheWeaker(g, more, w)
  <2>1. \A i \in 1 .. Len(g.members) - 1 : i \in DOMAIN g.members /\ i + 1 \in DOMAIN g.members
    BY <1>2
  <2> QED  BY <1>1, <2>1 DEF Means, EachPaysTheWeaker
<1>5. g.kind \in {"implies", "equivalent"} =>
        /\ PaidBy(g, more, w, 1) <=> PaidBy(g, names, w, 1)
        /\ PaidBy(g, more, w, 2) <=> PaidBy(g, names, w, 2)
  <2>1. g.kind \in {"implies", "equivalent"} => 1 \in DOMAIN g.members /\ 2 \in DOMAIN g.members
    BY <1>2
  <2> QED  BY <1>1, <2>1
<1> QED  BY <1>3, <1>4, <1>5 DEF Means

LEMMA MeansExtend ==
    ASSUME LoadInv, MeansInv, ExtendWithPolymarket
    PROVE  MeansInv'
<1>1. source' = source /\ origin' = origin /\ \E list, new : Extended(list, new)
  BY ExtendIs
<1>2. PICK list, new : Extended(list, new)
  BY <1>1
<1>3. \A c \in DOMAIN interned : interned'[c] = interned[c]
  BY <1>2, ExtendedTables DEF TablesAfter
<1>4. ASSUME NEW w, Here(w) PROVE AllMeant(groups', interned', w)
  <2>1. AllMeant(groups, interned, w)
    BY <1>4 DEF MeansInv
  <2>2. ASSUME NEW k \in DOMAIN groups' PROVE Means(groups'[k], interned', w)
    <3>1. CASE k \in DOMAIN groups
      <4>1. groups'[k] = groups[k]
        BY <1>2, <3>1, ExtendedGroups
      <4>2. WellShaped(groups[k]) /\ \A i \in DOMAIN groups[k].members : groups[k].members[i] \in DOMAIN interned
        BY <3>1 DEF LoadInv, GroupsOK, UnderOneEvent, BindingOK
      <4>3. Means(groups[k], interned, w)
        BY <2>1, <3>1 DEF AllMeant
      <4>4. Means(groups[k], interned', w)
        BY <1>3, <4>2, <4>3, MeansKept
      <4> QED  BY <4>1, <4>4
    <3>2. CASE k \notin DOMAIN groups
      <4>1. groups'[k].kind = "complement"
        <5>1. PICK i \in DOMAIN new :
                groups'[k] = GroupOf("complement", <<Len(interned) + i>>, TRUE, new[i].ends, TRUE)
          BY <1>2, <3>2, ExtendedGroups
        <5> QED  BY <5>1 DEF GroupOf
      <4> QED  BY <4>1 DEF Means
    <3> QED  BY <3>1, <3>2
  <2> QED  BY <2>2 DEF AllMeant
<1>5. \A w : Here(w)' => AllMeant(groups', interned', w)
  BY <1>1, <1>4, SameWorlds
<1>6. Plain(source)' /\ (Promoted' => \A w : ListingWorld(origin[1].listing, w)' => FileWorld(w)')
  <2>1. Plain(source)'
    BY <1>1, SameWorlds DEF MeansInv
  <2>2. ASSUME Promoted', NEW w, ListingWorld(origin[1].listing, w)' PROVE FileWorld(w)'
    <3>1. Promoted /\ ListingWorld(origin[1].listing, w)
      BY <1>1, <2>2 DEF Promoted
    <3> QED  BY <1>1, <3>1, SameWorlds DEF MeansInv
  <2> QED  BY <2>1, <2>2
<1> QED  BY <1>5, <1>6 DEF MeansInv, AllMeant, Means, OneIsPaid, EachPaysTheWeaker, PaidBy

LEMMA RenderedMeans ==
    ASSUME LoadInv, OfListing, phase = "polymarket",
           NEW fg \in FileGroup, NEW k \in DOMAIN groups, RenderOf(fg, groups[k], interned, source)
    PROVE  /\ \A i \in DOMAIN fg.members : fg.members[i].side = "yes"
           /\ \A w : Means(groups[k], interned, w) => EntryMeans(fg, w)
<1> DEFINE g == groups[k]
           n == Len(g.members)
<1>1. /\ fg.kind = g.kind /\ fg.verified = "absent" /\ DOMAIN fg.members = DOMAIN g.members
      /\ \A i \in DOMAIN g.members : fg.members[i].contract = interned[g.members[i]] /\ fg.members[i].side = "yes"
  BY DEF RenderOf
<1>2. WellShaped(g)
  BY DEF LoadInv, GroupsOK, UnderOneEvent
<1>3. /\ n \in Nat /\ DOMAIN g.members = 1 .. n /\ g.kind \in {"implies", "equivalent"} => n = 2
  BY <1>2 DEF WellShaped
<1>4. fg.members \in Seq(FileMember)
  BY DEF FileGroup
<1>5. Len(fg.members) = n
  BY <1>1, <1>3, <1>4
<1>6. ASSUME NEW w, Means(g, interned, w) PROVE EntryMeans(fg, w)
  <2>1. \A i \in 1 .. n : Claim(fg.members[i], w) <=> PaidBy(g, interned, w, i)
    <3> SUFFICES ASSUME NEW i \in 1 .. n PROVE Claim(fg.members[i], w) <=> PaidBy(g, interned, w, i)
      OBVIOUS
    <3>1. fg.members[i].contract = interned[g.members[i]] /\ fg.members[i].side = "yes"
      BY <1>1, <1>3
    <3> HIDE DEF g
    <3> QED  BY <3>1, PlainClaims DEF PaidBy
  <2>2. DOMAIN fg.members = 1 .. n /\ Len(g.members) = n /\ ~(fg.verified = "yes")
    BY <1>1, <1>3
  <2> HIDE DEF g, n
  <2> QED  BY <1>1, <1>3, <1>5, <1>6, <2>1, <2>2, EntryAndGroup
<1> QED  BY <1>1, <1>6

LEMMA MeansPromote ==
    ASSUME LoadInv, MeansInv, Promote
    PROVE  MeansInv'
<1>1. /\ OfListing /\ phase = "polymarket" /\ source' = [from |-> "file", events |-> RenderedEvents]
      /\ origin' = <<[listing |-> source, groups |-> groups, interned |-> interned]>>
      /\ groups' = <<>>
  BY DEF Promote, OfListing
<1>2. source'.from = "file" /\ source'.events = RenderedEvents /\ origin'[1].listing = source
  BY <1>1
<1>3. ASSUME NEW e \in DOMAIN RenderedEvents, NEW x \in DOMAIN RenderedEvents[e].groups
      PROVE  /\ RenderedEvents[e].groups[x] \in FileGroup
             /\ \E k \in DOMAIN groups : RenderOf(RenderedEvents[e].groups[x], groups[k], interned, source)
  <2>1. PICK n \in DOMAIN events : RenderedOf(n, RenderedEvents[e])
    BY <1>1, RenderedEventsAre
  <2>2. RenderedEvents[e] \in FileEvent
    BY <2>1 DEF RenderedOf
  <2>3. RenderedEvents[e].groups \in Seq(FileGroup)
    BY <2>2 DEF FileEvent
  <2>4. RenderedEvents[e].groups[x] \in FileGroup
    BY <2>3
  <2> QED  BY <2>1, <2>4 DEF RenderedOf
<1>4. Plain(source)'
  <2>1. \A e \in DOMAIN RenderedEvents : \A x \in DOMAIN RenderedEvents[e].groups :
          \A i \in DOMAIN RenderedEvents[e].groups[x].members :
             RenderedEvents[e].groups[x].members[i].side = "yes"
    <3> SUFFICES ASSUME NEW e \in DOMAIN RenderedEvents, NEW x \in DOMAIN RenderedEvents[e].groups
                 PROVE  \A i \in DOMAIN RenderedEvents[e].groups[x].members :
                            RenderedEvents[e].groups[x].members[i].side = "yes"
      OBVIOUS
    <3> DEFINE fg == RenderedEvents[e].groups[x]
    <3>1. fg \in FileGroup /\ \E k \in DOMAIN groups : RenderOf(fg, groups[k], interned, source)
      BY <1>3
    <3> HIDE DEF fg
    <3>2. \A i \in DOMAIN fg.members : fg.members[i].side = "yes"
      BY <1>1, <3>1, RenderedMeans
    <3> QED  BY <3>2 DEF fg
  <2> QED  BY <1>2, <2>1 DEF Plain
<1>5. ASSUME NEW w, ListingWorld(source, w) PROVE FileWorld(w)'
  <2>1. AllMeant(groups, interned, w)
    BY <1>1, <1>5 DEF MeansInv, Here
  <2>2. ASSUME NEW e \in DOMAIN RenderedEvents, NEW x \in DOMAIN RenderedEvents[e].groups
        PROVE  EntryMeans(RenderedEvents[e].groups[x], w)
    <3> DEFINE fg == RenderedEvents[e].groups[x]
    <3>1. fg \in FileGroup /\ \E k \in DOMAIN groups : RenderOf(fg, groups[k], interned, source)
      BY <1>3
    <3> HIDE DEF fg
    <3>2. PICK k \in DOMAIN groups : RenderOf(fg, groups[k], interned, source)
      BY <3>1
    <3>3. Means(groups[k], interned, w)
      BY <2>1 DEF AllMeant
    <3>4. EntryMeans(fg, w)
      BY <1>1, <3>1, <3>2, <3>3, RenderedMeans
    <3> QED  BY <3>4 DEF fg
  <2>3. FileWorld(w)' <=> \A e \in DOMAIN source'.events :
                             \A x \in DOMAIN source'.events[e].groups :
                                 EntryMeans(source'.events[e].groups[x], w)
    BY DEF FileWorld, EntryMeans, Claim
  <2>4. source'.events = RenderedEvents
    BY <1>2
  <2> QED  BY <2>2, <2>3, <2>4
<1>6. Promoted' => \A w : ListingWorld(origin[1].listing, w)' => FileWorld(w)'
  <2> SUFFICES ASSUME NEW w, ListingWorld(origin[1].listing, w)' PROVE FileWorld(w)'
    OBVIOUS
  <2>1. ListingWorld(source, w)
    <3>1. ListingWorld(origin'[1].listing, w)
      OBVIOUS
    <3> QED  BY <1>2, <3>1
  <2> QED  BY <1>5, <2>1
<1>7. \A w : Here(w)' => AllMeant(groups', interned', w)
  BY <1>1 DEF AllMeant
<1> QED  BY <1>4, <1>6, <1>7 DEF MeansInv, AllMeant, Means, OneIsPaid, EachPaysTheWeaker, PaidBy

LEMMA MeansStep ==
    ASSUME LoadInv, MeansInv, [Next]_vars
    PROVE  MeansInv'
<1>1. CASE InternFile
  <2>1. groups = <<>> /\ source' = source /\ origin' = origin /\ groups' = groups
    BY <1>1 DEF InternFile, LoadInv, TablesOK, Unread
  <2> QED  BY <2>1, MeansSame
<1>2. CASE AddEvent
  <2>1. UNCHANGED <<source, origin, groups, interned>>
    BY <1>2 DEF AddEvent
  <2> QED  BY <2>1, MeansSame
<1>3. CASE AddListedEvents
  <2>1. UNCHANGED <<source, origin, groups, interned>>
    BY <1>3 DEF AddListedEvents
  <2> QED  BY <2>1, MeansSame
<1>4. CASE InternListed
  <2>1. groups = <<>> /\ source' = source /\ origin' = origin /\ groups' = groups
    BY <1>4 DEF InternListed, LoadInv, TablesOK, Unread
  <2> QED  BY <2>1, MeansSame
<1>5. CASE MovesPhase
  <2>1. UNCHANGED <<source, origin, groups, interned>>
    BY <1>5 DEF MovesPhase, tableVars
  <2> QED  BY <2>1, MeansSame
<1>6. CASE UNCHANGED registryVars
  <2>1. UNCHANGED <<source, origin, groups, interned>>
    BY <1>6 DEF registryVars
  <2> QED  BY <2>1, MeansSame
<1> QED  BY <1>1, <1>2, <1>3, <1>4, <1>5, <1>6, StepKinds, MeansAddGroup, MeansAddInferred,
            MeansPromote, MeansExtend

(* MeansInv: of a Plain source (the side of a member is yes, the only one  *)
(* add_group reads; the listed markets of an exclusive event are the open  *)
(* ones infer_groups keeps), no group is built that claims what the source *)
(* does not imply, at any step of loading, inferring or promoting.         *)
THEOREM MeansInvariant ==
    ASSUME \A s \in Sources : Plain(s)
    PROVE  Spec => []MeansInv
<1>1. Init => MeansInv
  BY MeansInit
<1>2. LoadInv /\ MeansInv /\ [Next]_vars => MeansInv'
  BY MeansStep
<1> QED  BY <1>1, <1>2, LoadInvariant, PTL DEF Spec

(* A world in which a relation holds is one of the resolutions the         *)
(* relation permits.                                                       *)
LEMMA LadderIsPrefix ==
    ASSUME NEW n \in Nat, NEW yes \in SUBSET (1 .. n),
           \A i \in 1 .. n - 1 : i + 1 \in yes => i \in yes
    PROVE  \E k \in 0 .. n : yes = 1 .. k
<1>1. CASE yes = 1 .. n
  BY <1>1
<1>2. CASE yes # 1 .. n
  <2> DEFINE No(i) == i \in 1 .. n /\ i \notin yes
             S == {i \in Nat : No(i)}
  <2>1. S # {} /\ S \subseteq Nat
    <3>1. PICK x \in 1 .. n : x \notin yes
      BY <1>2
    <3>2. x \in Nat
      BY <3>1
    <3>3. x \in S
      BY <3>1, <3>2
    <3> QED  BY <3>3
  <2>2. PICK i \in S : \A j \in S : i <= j
    <3> HIDE DEF S
    <3> QED  BY <2>1, LeastOf
  <2>3. i \in 1 .. n /\ i \notin yes /\ \A j \in 1 .. n : j < i => j \in yes
    <3>1. i \in 1 .. n /\ i \notin yes
      OBVIOUS
    <3>2. ASSUME NEW j \in 1 .. n, j < i PROVE j \in yes
      <4>1. j \notin yes => j \in S
        OBVIOUS
      <4> HIDE DEF S
      <4> QED  BY <2>2, <3>1, <3>2, <4>1
    <3> QED  BY <3>1, <3>2
  <2> DEFINE U == {j \in Nat : j \in yes /\ j > i}
  <2>4. U = {}
    <3> SUFFICES ASSUME U # {} PROVE FALSE
      OBVIOUS
    <3>1. U \subseteq Nat
      OBVIOUS
    <3>2. PICK j \in U : \A m \in U : j <= m
      <4> HIDE DEF U
      <4> QED  BY <3>1, LeastOf
    <3>3. j \in yes /\ j > i /\ j \in 1 .. n
      OBVIOUS
    <3>4. j - 1 \in 1 .. n - 1 /\ (j - 1) + 1 = j
      BY <2>3, <3>3
    <3>5. j - 1 \in yes
      BY <3>3, <3>4
    <3>6. j - 1 # i
      BY <2>3, <3>5
    <3>7. j - 1 > i /\ j - 1 \in Nat
      BY <2>3, <3>3, <3>6
    <3>8. j - 1 \in U
      BY <3>5, <3>7
    <3> HIDE DEF U
    <3> QED  BY <3>2, <3>3, <3>8
  <2>5. \A j \in yes : j < i
    <3> SUFFICES ASSUME NEW j \in yes PROVE j < i
      OBVIOUS
    <3>1. j \in Nat /\ j # i /\ ~(j > i)
      BY <2>3, <2>4
    <3> QED  BY <2>3, <3>1
  <2>6. yes = 1 .. i - 1
    <3>1. ASSUME NEW j \in yes PROVE j \in 1 .. i - 1
      BY <2>3, <2>5
    <3>2. ASSUME NEW j \in 1 .. i - 1 PROVE j \in yes
      BY <2>3
    <3> QED  BY <3>1, <3>2
  <2>7. i - 1 \in 0 .. n
    BY <2>3
  <2> QED  BY <2>6, <2>7
<1> QED  BY <1>1, <1>2

LEMMA WorldIsAState ==
    ASSUME NEW g, WellShaped(g), Confirmed(g), NEW names, NEW w, Means(g, names, w)
    PROVE  \E s \in ResolutionStates(g.kind, g.members) :
              \A i \in DOMAIN g.members : g.members[i] \in s <=> PaidBy(g, names, w, i)
<1> DEFINE m == g.members
           yes == {i \in DOMAIN m : PaidBy(g, names, w, i)}
           s == Resolution(m, yes)
<1>1. /\ m \in Seq(Nat) /\ IsInjective(m) /\ g.kind \in Kind
      /\ Len(m) \in Nat /\ DOMAIN m = 1 .. Len(m)
  BY DEF WellShaped
<1>2. yes \in SUBSET DOMAIN m /\ \A i \in DOMAIN m : i \in yes <=> PaidBy(g, names, w, i)
  OBVIOUS
<1>3. \A i \in DOMAIN m : m[i] \in s <=> PaidBy(g, names, w, i)
  <2> HIDE DEF yes
  <2> QED  BY <1>1, <1>2, InResolution
<1>4. Resolution(m, {}) = {}
  BY DEF Resolution
<1>5. ASSUME g.kind = "complement"
      PROVE  s \in ResolutionStates(g.kind, m)
  <2>1. DOMAIN m = {1}
    BY <1>1, <1>5 DEF WellShaped
  <2>2. yes = {1} \/ yes = {}
    BY <2>1
  <2> HIDE DEF yes
  <2>3. s \in {Resolution(m, {1}), {}}
    BY <1>4, <2>2
  <2> HIDE DEF s
  <2> QED  BY <1>5, <2>3, StatesByKind
<1>6. ASSUME g.kind = "exhaustive"
      PROVE  s \in ResolutionStates(g.kind, m)
  <2>1. PICK i \in DOMAIN m : \A j \in DOMAIN m : PaidBy(g, names, w, j) <=> j = i
    BY <1>6 DEF Means, OneIsPaid
  <2>2. yes = {i}
    BY <2>1
  <2> HIDE DEF yes
  <2>3. s \in WinnerStates(m)
    BY <2>2 DEF WinnerStates
  <2> HIDE DEF s
  <2> QED  BY <1>6, <2>3, StatesByKind
<1>7. ASSUME g.kind = "monotone"
      PROVE  s \in ResolutionStates(g.kind, m)
  <2>1. \A i \in 1 .. Len(m) - 1 : i \in DOMAIN m /\ i + 1 \in DOMAIN m
    BY <1>1
  <2>2. \A i \in 1 .. Len(m) - 1 : i + 1 \in yes => i \in yes
    BY <1>7, <2>1 DEF Means, EachPaysTheWeaker
  <2>3. PICK k \in 0 .. Len(m) : yes = 1 .. k
    <3> HIDE DEF yes
    <3> QED  BY <1>1, <1>2, <2>2, LadderIsPrefix
  <2> HIDE DEF yes
  <2>4. s \in LadderStates(m)
    BY <2>3 DEF LadderStates
  <2> HIDE DEF s
  <2> QED  BY <1>7, <2>4, StatesByKind
<1>8. ASSUME g.kind \in {"implies", "equivalent"}
      PROVE  s \in ResolutionStates(g.kind, m)
  <2>1. DOMAIN m = {1, 2}
    <3>1. Len(m) = 2
      BY <1>8 DEF WellShaped
    <3>2. 1 .. 2 = {1, 2}
      OBVIOUS
    <3> QED  BY <1>1, <3>1, <3>2
  <2>2. yes \subseteq {1, 2} /\ (1 \in yes <=> PaidBy(g, names, w, 1))
        /\ (2 \in yes <=> PaidBy(g, names, w, 2))
    BY <2>1
  <2> HIDE DEF yes
  <2>3. CASE g.kind = "implies"
    <3>1. 1 \in yes => 2 \in yes
      BY <2>2, <2>3 DEF Means
    <3>2. yes = {} \/ yes = {2} \/ yes = {1, 2}
      BY <2>2, <3>1
    <3>3. s \in {{}, Resolution(m, {2}), Resolution(m, {1, 2})}
      BY <1>4, <3>2
    <3> HIDE DEF s
    <3> QED  BY <2>3, <3>3, StatesByKind
  <2>4. CASE g.kind = "equivalent"
    <3>1. 1 \in yes <=> 2 \in yes
      BY <2>2, <2>4 DEF Means, Confirmed
    <3>2. yes = {} \/ yes = {1, 2}
      BY <2>2, <3>1
    <3>3. s \in {Resolution(m, {1, 2}), {}}
      BY <1>4, <3>2
    <3> HIDE DEF s
    <3> QED  BY <2>4, <3>3, StatesByKind
  <2> QED  BY <1>8, <2>3, <2>4
<1>9. s \in ResolutionStates(g.kind, m)
  <2> HIDE DEF s
  <2> QED  BY <1>1, <1>5, <1>6, <1>7, <1>8 DEF Kind
<1> HIDE DEF s
<1> QED  BY <1>3, <1>9

(* So a trade pays in any world at least what it was costed to pay.        *)
LEMMA PaysItsFloor ==
    ASSUME LoadInv, BooksOK, NEW o, NEW g, NEW legs, NEW q \in Nat, Priced(o, g, legs, q),
           NEW w, Means(g, interned, w)
    PROVE  PaidIn(w, o) \in Nat /\ PaidIn(w, o) >= PayoffOf(g, legs) * q
<1>1. /\ WellShaped(g) /\ LegsOf(g, legs) /\ Confirmed(g)
      /\ CostedAt(o, g, legs, books, feeTable, Now, q)
  BY DEF Priced
<1>2. PICK s \in ResolutionStates(g.kind, g.members) :
        \A i \in DOMAIN g.members : g.members[i] \in s <=> interned[g.members[i]] \in w
  BY <1>1, WorldIsAState DEF PaidBy
<1>3. DOMAIN o.legs = DOMAIN legs /\ o.qty = q
  BY <1>1 DEF CostedAt
<1> DEFINE won == {k \in DOMAIN legs : (OrderOf(o, k).contract \in w) = (OrderOf(o, k).side = "yes")}
           paid == {k \in DOMAIN legs : Pays(legs[k], s)}
<1>4. ASSUME NEW k \in DOMAIN legs PROVE k \in won <=> k \in paid
  <2>1. OrderOf(o, k).contract = interned[legs[k].contract] /\ OrderOf(o, k).side = legs[k].side
    BY OrderMeets DEF Meets
  <2>2. PICK i \in DOMAIN g.members : legs[k].contract = g.members[i]
    BY <1>1 DEF LegsOf
  <2>3. legs[k].contract \in s <=> interned[legs[k].contract] \in w
    BY <1>2, <2>2
  <2>4. ((OrderOf(o, k).contract \in w) = (OrderOf(o, k).side = "yes")) <=> Pays(legs[k], s)
    BY <2>1, <2>3 DEF Pays
  <2> QED  BY <2>4
<1>5. won = paid
  BY <1>4
<1>6. PayoffIn(legs, s) = 100 * Cardinality(paid) /\ PayoffOf(g, legs) <= PayoffIn(legs, s)
  BY <1>1, PayoffIs DEF PayoffIn
<1>7. PaidIn(w, o) = q * 100 * Cardinality(paid)
  <2>1. PaidIn(w, o) = q * 100 * Cardinality(won)
    BY <1>3 DEF PaidIn
  <2> HIDE DEF won, paid
  <2> QED  BY <1>5, <2>1
<1>8. Cardinality(paid) \in Nat
  <2>1. PICK n \in Nat : DOMAIN legs = 1 .. n
    BY <1>1 DEF LegsOf
  <2>2. paid \in SUBSET (1 .. n)
    BY <2>1
  <2> HIDE DEF paid
  <2> QED  BY <2>2, IndexSet, FS_Subset, FS_CardinalityType
<1>9. PayoffOf(g, legs) \in Int
  BY DEF Priced
<1> DEFINE c == Cardinality(paid)
           p == PayoffOf(g, legs)
<1>10. c \in Nat /\ p \in Int /\ p <= 100 * c
  BY <1>6, <1>8, <1>9
<1> HIDE DEF c, p
<1>11. p * q <= (100 * c) * q
  <2>1. CASE q = 0
    BY <1>10, <2>1
  <2>2. CASE q # 0
    BY <1>10, <2>2, ProductOrder
  <2> QED  BY <2>1, <2>2
<1>12. q * 100 * c = (100 * c) * q /\ q * 100 * c \in Nat
  BY <1>10
<1> QED  BY <1>7, <1>10, <1>11, <1>12 DEF c, p

(* An order filled within its limit: what is offered there holds the       *)
(* quantity, costs what costing reckoned, and its fee is no more.          *)
LegIsCovered(o, j, legs, q) ==
    /\ DepthOf(WithinLimit(o, j)) >= q
    /\ TotalCost(WithinLimit(o, j), q) = TotalCost(Ladders(legs, books)[j], q)
    /\ TrueFee(OrderOf(o, j).contract, WithinLimit(o, j), q) \in Nat
    /\ TrueFee(OrderOf(o, j).contract, WithinLimit(o, j), q)
          <= LegFee(legs, books, feeTable, Ladders(legs, books), q, j)

LEMMA LegCovered ==
    ASSUME LoadInv, BooksOK, NEW o, NEW g, NEW legs, NEW q \in Nat, Priced(o, g, legs, q),
           NEW j \in DOMAIN legs
    PROVE  LegIsCovered(o, j, legs, q)
<1> DEFINE r == OrderOf(o, j)
           c == legs[j].contract
           l == AsksOf(legs, books, j)
           ladder == Ladders(legs, books)[j]
           within == WithinLimit(o, j)
           v == interned[c].venue
<1>1. /\ r.contract = interned[c] /\ r.limit = WorstPrice(l, q) /\ RealAsks(o, j) = l
      /\ books[c].venue = v /\ q >= 1 /\ q <= MaxPosition /\ q <= DepthOf(l)
  BY OrderMeets DEF Meets
<1>2. /\ IsOffer(l) /\ l \in Seq(Level) /\ c \in DOMAIN interned
      /\ Category(feeTable, c) \in FeeCategory /\ Costable(legs, books, feeTable)
  BY CategoryIs DEF Priced, IsOffer
<1>3. q \in Int
  OBVIOUS
<1>4. SameWalk(ladder, l, q)
  BY <1>1, <1>2, <1>3, LaddersAre
<1>5. within = Kept(l, {i \in DOMAIN l : l[i].price <= WorstPrice(l, q)})
  BY <1>1 DEF WithinLimit
<1> HIDE DEF within, ladder, l, r, v, c
<1>6. PICK m \in 0 .. Len(l) :
              /\ {i \in DOMAIN l : l[i].price <= WorstPrice(l, q)} = 1 .. m
              /\ \A i \in m + 1 .. Len(l) : q <= DepthBefore(l, i)
  BY <1>1, <1>2, LimitIs
<1>7. within = [i \in 1 .. m |-> l[i]]
  <2>1. m \in Nat
    BY <1>2, <1>6, LevelsOf
  <2>2. within = Kept(l, 1 .. m)
    BY <1>5, <1>6
  <2> QED  BY <2>1, <2>2, KeptFirst
<1>8. SameWalk(within, l, q) /\ q <= DepthOf(within)
  BY <1>1, <1>2, <1>3, <1>6, <1>7, PartIs
<1>9. DepthOf(within) >= q
  <2>1. within \in Seq(Level)
    BY <1>8 DEF SameWalk
  <2>2. DepthOf(within) \in Nat
    BY <2>1, DepthFacts
  <2> QED  BY <1>8, <2>2
<1>10. TotalCost(within, q) = TotalCost(ladder, q)
  BY <1>3, <1>4, <1>8, SameWalkCosts
<1>11. FeePerLevel(v, feeTable, c, within, q) = FeePerLevel(v, feeTable, c, ladder, q)
  <2>1. Category(feeTable, c) \in FeeCategory /\ q \in Int
    BY <1>2, <1>3
  <2>2. FeePerLevel(v, feeTable, c, within, q) = FeePerLevel(v, feeTable, c, l, q)
    BY <1>8, <2>1, SameWalkFees
  <2>3. FeePerLevel(v, feeTable, c, ladder, q) = FeePerLevel(v, feeTable, c, l, q)
    BY <1>4, <2>1, SameWalkFees
  <2> QED  BY <2>2, <2>3
<1>12. /\ TrueFee(interned[c], within, q) \in Nat
       /\ TrueFee(interned[c], within, q) <= FeePerLevel(interned[c].venue, feeTable, c, within, q)
  <2>1. within \in Seq(Level)
    BY <1>8 DEF SameWalk
  <2> QED  BY <1>2, <2>1, TrueFeeIs
<1>13. LegFee(legs, books, feeTable, Ladders(legs, books), q, j)
          = FeePerLevel(v, feeTable, c, ladder, q)
  BY <1>1 DEF LegFee, ladder, c
<1>14. TrueFee(r.contract, within, q) \in Nat
       /\ TrueFee(r.contract, within, q) <= FeePerLevel(v, feeTable, c, ladder, q)
  BY <1>1, <1>11, <1>12 DEF v
<1> QED  BY <1>9, <1>10, <1>13, <1>14 DEF LegIsCovered, within, ladder, r

(* All of them together, then, cost no more than was reckoned.             *)
LEMMA SpendsNoMore ==
    ASSUME LoadInv, BooksOK, NEW o, NEW g, NEW legs, NEW q \in Nat, Priced(o, g, legs, q)
    PROVE  /\ Spent(o) \in Int
           /\ Spent(o) <= CostsAt(legs, books, q) + FeesAt(legs, books, feeTable, q)
<1> DEFINE L == Ladders(legs, books)
           D == DOMAIN legs
           cost == LegCosts(L, q)
           fee == LegFees(legs, books, feeTable, L, q)
           both == [j \in D |-> cost[j] + fee[j]]
           spent == [j \in D |-> TotalCost(WithinLimit(o, j), q)
                                    + TrueFee(OrderOf(o, j).contract, WithinLimit(o, j), q)]
<1>1. q \in Int /\ Costable(legs, books, feeTable)
  BY DEF Priced
<1>2. DOMAIN o.legs = D /\ o.qty = q
  BY DEF Priced, CostedAt
<1>3. IsFiniteSet(D)
  BY <1>1, LaddersAre
<1>4. /\ CostsAt(legs, books, q) = SumFunctionOnSet(cost, D)
      /\ FeesAt(legs, books, feeTable, q) = SumFunctionOnSet(fee, D)
  BY <1>1, CostsAre
<1>5. \A j \in D : cost[j] = TotalCost(L[j], q) /\ TotalCost(L[j], q) \in Nat
  BY <1>1, CostsAre
<1>6. \A j \in D : fee[j] = LegFee(legs, books, feeTable, L, q, j)
                   /\ LegFee(legs, books, feeTable, L, q, j) \in Nat
  BY <1>1, CostsAre
<1>7. Spent(o) = SumFunctionOnSet(spent, D)
  <2>1. Spent(o) = SumFunction(spent)
    BY <1>2 DEF Spent
  <2>2. DOMAIN spent = D
    OBVIOUS
  <2> HIDE DEF spent
  <2> QED  BY <2>1, <2>2 DEF SumFunction
<1>8. ASSUME NEW j \in D
      PROVE  spent[j] \in Int /\ both[j] \in Int /\ spent[j] <= both[j]
  <2>1. LegIsCovered(o, j, legs, q)
    BY LegCovered
  <2> DEFINE t == TotalCost(WithinLimit(o, j), q)
             f == TrueFee(OrderOf(o, j).contract, WithinLimit(o, j), q)
  <2>2. t = cost[j] /\ t \in Nat /\ f \in Nat /\ f <= fee[j] /\ fee[j] \in Nat
    BY <1>5, <1>6, <2>1 DEF LegIsCovered
  <2>3. spent[j] = t + f /\ both[j] = cost[j] + fee[j]
    OBVIOUS
  <2> HIDE DEF t, f, spent, both, cost, fee
  <2> QED  BY <2>2, <2>3
<1>9. \A j \in D : cost[j] \in Int /\ fee[j] \in Int /\ both[j] = cost[j] + fee[j]
  BY <1>5, <1>6
<1> HIDE DEF spent, both, cost, fee, D
<1>10. SumFunctionOnSet(spent, D) <= SumFunctionOnSet(both, D)
  BY <1>3, <1>8, SumLeq
<1>11. SumFunctionOnSet(both, D) = SumFunctionOnSet(cost, D) + SumFunctionOnSet(fee, D)
  BY <1>3, <1>9, SumPlus
<1>12. SumFunctionOnSet(spent, D) \in Int
  BY <1>3, <1>8, SumInt
<1> QED  BY <1>4, <1>7, <1>10, <1>11, <1>12

(* In a world in which its group's relation holds, an accepted trade keeps *)
(* what it was accepted for.                                               *)
LEMMA TradeReturns ==
    ASSUME LoadInv, BooksOK, NEW o, NEW g, NEW legs, NEW q \in Nat, Priced(o, g, legs, q),
           NEW w, Means(g, interned, w)
    PROVE  PaidIn(w, o) - Spent(o) >= o.net
<1>1. o.net = PayoffOf(g, legs) * q - CostsAt(legs, books, q) - FeesAt(legs, books, feeTable, q)
  BY DEF Priced, CostedAt, NetAt
<1>2. q \in Int /\ Costable(legs, books, feeTable) /\ PayoffOf(g, legs) \in Int
  BY DEF Priced
<1>3. CostsAt(legs, books, q) \in Nat /\ FeesAt(legs, books, feeTable, q) \in Nat
  BY <1>2, CostsAre
<1>4. PaidIn(w, o) \in Nat /\ PaidIn(w, o) >= PayoffOf(g, legs) * q
  BY PaysItsFloor
<1>5. Spent(o) \in Int /\ Spent(o) <= CostsAt(legs, books, q) + FeesAt(legs, books, feeTable, q)
  BY SpendsNoMore
<1> DEFINE pq == PayoffOf(g, legs) * q
           c == CostsAt(legs, books, q)
           f == FeesAt(legs, books, feeTable, q)
<1>6. pq \in Int /\ o.net = pq - c - f /\ c \in Nat /\ f \in Nat
      /\ PaidIn(w, o) >= pq /\ Spent(o) <= c + f
  BY <1>1, <1>2, <1>3, <1>4, <1>5
<1> HIDE DEF pq, c, f
<1> QED  BY <1>4, <1>5, <1>6

(* A world of the program is one its source allows.                        *)
LEMMA WorldsAreHere ==
    ASSUME SourceOK, MeansInv, NEW w \in Worlds
    PROVE  Here(w)
<1>1. CASE Promoted
  <2>1. w \in WorldsListed(origin[1].listing) /\ source.from = "file"
    BY <1>1 DEF Worlds, SourceOK, Promoted
  <2>2. ListingWorld(origin[1].listing, w)
    BY <2>1 DEF WorldsListed
  <2>3. FileWorld(w)
    BY <1>1, <2>2 DEF MeansInv
  <2> QED  BY <2>1, <2>3 DEF Here, OfListing
<1>2. CASE ~Promoted /\ source.from = "listing"
  <2>1. w \in WorldsListed(source)
    BY <1>2 DEF Worlds
  <2>2. ListingWorld(source, w)
    BY <2>1 DEF WorldsListed
  <2> QED  BY <1>2, <2>2 DEF Here, OfListing
<1>3. CASE ~Promoted /\ source.from # "listing"
  <2>1. FileWorld(w)
    BY <1>3 DEF Worlds
  <2> QED  BY <1>3, <2>1 DEF Here, OfListing
<1> QED  BY <1>1, <1>2, <1>3

(* Guaranteed: of a source of which the program's two tacit assumptions    *)
(* hold, an accepted trade, filled within its limits from the venues' real *)
(* books and charged their real fees, returns at least the profit it was   *)
(* accepted for in every world there can be.                               *)
THEOREM ArbitrageGuaranteed ==
    ASSUME \A s \in Sources : Plain(s)
    PROVE  Spec => []Guaranteed
<1>1. LoadInv /\ StoreInv /\ MeansInv => Guaranteed
  <2> SUFFICES ASSUME LoadInv, StoreInv, MeansInv, NEW i \in DOMAIN accepted
               PROVE  /\ accepted[i].net > 0
                      /\ \A k \in DOMAIN accepted[i].legs :
                            DepthOf(WithinLimit(accepted[i], k)) >= accepted[i].qty
                      /\ \A w \in Worlds :
                            PaidIn(w, accepted[i]) - Spent(accepted[i]) >= accepted[i].net
    BY DEF Guaranteed
  <2> DEFINE o == accepted[i]
  <2>1. BooksOK /\ \E g, legs : \E q \in Nat : Priced(o, g, legs, q)
    BY AcceptedIs
  <2>2. PICK g, legs : \E q \in Nat : Priced(o, g, legs, q)
    BY <2>1
  <2>3. PICK q \in Nat : Priced(o, g, legs, q)
    BY <2>2
  <2> HIDE DEF o
  <2>4. o.net > 0 /\ o.qty = q /\ DOMAIN o.legs = DOMAIN legs
        /\ g \in {groups[k] : k \in DOMAIN groups}
    BY <2>3 DEF Priced, CostedAt
  <2>5. ASSUME NEW k \in DOMAIN o.legs
        PROVE  DepthOf(WithinLimit(o, k)) >= o.qty
    <3>1. LegIsCovered(o, k, legs, q)
      BY <2>1, <2>3, <2>4, LegCovered
    <3> QED  BY <2>4, <3>1 DEF LegIsCovered
  <2>6. ASSUME NEW w \in Worlds
        PROVE  PaidIn(w, o) - Spent(o) >= o.net
    <3>1. SourceOK
      BY DEF LoadInv
    <3>2. Here(w)
      BY <3>1, WorldsAreHere
    <3>3. AllMeant(groups, interned, w)
      BY <3>2 DEF MeansInv
    <3>4. Means(g, interned, w)
      BY <2>4, <3>3 DEF AllMeant
    <3> QED  BY <2>1, <2>3, <3>4, TradeReturns
  <2> QED  BY <2>4, <2>5, <2>6 DEF o
<1> QED  BY <1>1, LoadInvariant, StoreInvariant, MeansInvariant, PTL

-----------------------------------------------------------------------------
(* A promoted file and the groups it was written from.                     *)

(* The market of a listing that a name stands for.                         *)
StandsFor(l, m, name) == m \in DOMAIN l.markets /\ KalshiNamed(l.markets[m].key) = name

(* A group as inference builds one: of Kalshi's markets, and a ladder's    *)
(* strikes ascend unless they are upper bounds.                            *)
StrikesAscend(l, g, names) ==
    \A i, j \in DOMAIN g.members : i < j => \A a, b \in DOMAIN l.markets :
        StandsFor(l, a, names[g.members[i]]) /\ StandsFor(l, b, names[g.members[j]]) =>
            /\ l.markets[a].strike \in Int /\ l.markets[b].strike \in Int
            /\ l.markets[a].strike < l.markets[b].strike

InferredShape(l, g, names) ==
    /\ g.kind \in {"complement", "exhaustive", "monotone"}
    /\ \A i \in DOMAIN g.members : \E m \in DOMAIN l.markets : StandsFor(l, m, names[g.members[i]])
    /\ g.kind = "monotone" => UpperLadder(l, g, names) \/ StrikesAscend(l, g, names)

ShapesListed ==
    OfListing /\ phase \in {"check", "polymarket"} =>
        /\ \A k \in DOMAIN groups : InferredShape(source, groups[k], interned)
        /\ groups # <<>> => DOMAIN groups # {}

(* A group by its contracts, as the registry has it and as a file has it.  *)
Named(g, names) ==
    [kind |-> g.kind, resolves |-> g.resolves,
     members |-> [i \in DOMAIN g.members |-> names[g.members[i]]]]

NamedEntry(ev, fg) ==
    [kind |-> fg.kind, resolves |-> ev.resolves,
     members |-> [i \in DOMAIN fg.members |-> fg.members[i].contract]]

Entries(evs) == UNION {{<<e, x>> : x \in DOMAIN evs[e].groups} : e \in DOMAIN evs}
EntryAt(evs, p) == evs[p[1]].groups[p[2]]
NamedAt(evs, p) == NamedEntry(evs[p[1]], EntryAt(evs, p))

(* Two entries name a contract in common.                                  *)
Meet(fg, gh) ==
    \E i \in DOMAIN fg.members : \E j \in DOMAIN gh.members :
        fg.members[i].contract = gh.members[j].contract

(* Some ladder of the listing is one of upper strikes.                     *)
SomeUpper(o) == \E k \in DOMAIN o.groups : UpperLadder(o.listing, o.groups[k], o.interned)

(* What the loader asks of an entry, a ladder's order excepted.            *)
GoodWritten(fg, o) ==
    /\ fg.kind \in {"complement", "exhaustive", "monotone"} /\ fg.verified = "absent"
    /\ fg.members \in Seq(FileMember)
    /\ fg.kind = "complement" => Len(fg.members) = 1
    /\ fg.kind # "complement" => Len(fg.members) >= 2
    /\ \A i \in DOMAIN fg.members : fg.members[i].contract.venue = "Kalshi"
    /\ \A i, j \in DOMAIN fg.members : fg.members[i].contract = fg.members[j].contract => i = j
    /\ fg.kind = "monotone" => Ascending(fg.members) \/ SomeUpper(o)

Written(evs, o) ==
    /\ \A e \in DOMAIN evs : evs[e].resolves # NoTime
    /\ \A e, f \in DOMAIN evs : evs[e].id = evs[f].id => e = f
    /\ \A p \in Entries(evs) : GoodWritten(EntryAt(evs, p), o)
    /\ \A p, q \in Entries(evs) : Meet(EntryAt(evs, p), EntryAt(evs, q)) =>
          /\ p[1] = q[1]
          /\ EntryAt(evs, p).kind = "exhaustive" /\ EntryAt(evs, q).kind = "exhaustive" => p = q
    /\ \A p \in Entries(evs) : \E k \in DOMAIN o.groups :
          NamedAt(evs, p) = Named(o.groups[k], o.interned)
    /\ \A k \in DOMAIN o.groups : \E p \in Entries(evs) :
          NamedAt(evs, p) = Named(o.groups[k], o.interned)
    /\ o.groups # <<>> => DOMAIN o.groups # {}

(* What has been read of it so far: the groups are the entries before the  *)
(* cursor, and a contract is bound to the event that names it.             *)
ReadYet(p) == \/ phase # "groups" \/ p[1] < cursor.event
              \/ p[1] = cursor.event /\ p[2] < cursor.group

KeysRead ==
    phase = "groups" => \A i \in DOMAIN events : /\ i \in DOMAIN source.events
                                                 /\ events[i].key = source.events[i].id

BoundAsWritten ==
    \A c \in DOMAIN binding : \A p \in Entries(source.events) :
        \A i \in DOMAIN EntryAt(source.events, p).members :
            interned[c] = EntryAt(source.events, p).members[i].contract =>
                binding[c].event = p[1]

GroupsAsWritten ==
    /\ \A g \in DOMAIN groups : \E p \in Entries(source.events) :
          ReadYet(p) /\ Named(groups[g], interned) = NamedAt(source.events, p)
    /\ \A p \in Entries(source.events) : ReadYet(p) => \E g \in DOMAIN groups :
          Named(groups[g], interned) = NamedAt(source.events, p)

ReadAsWritten ==
    phase \in {"groups", "check", "polymarket"} =>
        KeysRead /\ BoundAsWritten /\ GroupsAsWritten /\ ~Overlap(Partitions)

RefusedForLadder == phase = "refused" /\ origin[1].groups # <<>> => SomeUpper(origin[1])

PromoInv ==
    /\ ShapesListed
    /\ Promoted => Written(source.events, origin[1]) /\ ReadAsWritten /\ RefusedForLadder

-----------------------------------------------------------------------------
LEMMA EntriesAre ==
    ASSUME NEW evs, NEW p
    PROVE  p \in Entries(evs) <=> \E e \in DOMAIN evs : \E x \in DOMAIN evs[e].groups : p = <<e, x>>
BY DEF Entries

(* What inference makes of an event has the shape.                         *)
LEMMA InferredIsShaped ==
    ASSUME source \in KalshiListings, source \in Sources, NEW q, InferredFrom(q),
           NEW g, NEW names, AsInferred(g, q, names)
    PROVE  InferredShape(source, g, names)
<1> DEFINE ms == source.markets
<1>1. /\ g.kind = q.kind /\ DOMAIN g.members = DOMAIN q.markets
      /\ \A i \in DOMAIN g.members : names[g.members[i]] = KalshiNamed(q.markets[i].key)
  BY DEF AsInferred
<1>2. OneMarketEach(source)
  BY RegistryAssumption DEF KalshiListings
<1>3. ASSUME NEW i \in DOMAIN q.markets
      PROVE  \E m \in DOMAIN ms : q.markets[i] = ms[m]
  <2>1. PICK k \in DOMAIN Listed : q.markets[i] = Listed[k]
    BY DEF InferredFrom
  <2>2. PICK m \in DOMAIN ms : Listed[k] = ms[m]
    BY ListedIs
  <2> QED  BY <2>1, <2>2
<1>4. q \in InferredGroup
  BY DEF InferredFrom
<1>5. g.kind \in {"complement", "exhaustive", "monotone"}
  BY <1>1, <1>4 DEF InferredGroup
<1>6. \A i \in DOMAIN g.members : \E m \in DOMAIN ms : StandsFor(source, m, names[g.members[i]])
  BY <1>1, <1>3 DEF StandsFor
<1>7. ASSUME g.kind = "monotone"
      PROVE  UpperLadder(source, g, names) \/ StrikesAscend(source, g, names)
  <2>1. Rungs(q.markets) /\ Len(q.markets) >= 2
    BY <1>1, <1>7 DEF InferredFrom
  <2>2. PICK type \in {"greater", "less"} : \A i \in DOMAIN q.markets : q.markets[i].type = type
    BY <2>1 DEF Rungs
  <2>3. 1 \in DOMAIN q.markets /\ DOMAIN q.markets = 1 .. Len(q.markets) /\ Len(q.markets) \in Nat
    <3>1. q.markets \in Seq(KalshiMarket)
      BY <1>4 DEF InferredGroup
    <3> QED  BY <2>1, <3>1
  <2>4. CASE type = "less"
    <3>1. PICK m \in DOMAIN ms : q.markets[1] = ms[m]
      BY <1>3, <2>3
    <3>2. ms[m] \in ToSet(ms) /\ ms[m].type = "less" /\ KalshiNamed(ms[m].key) = names[g.members[1]]
      BY <1>1, <2>2, <2>3, <2>4, <3>1 DEF ToSet
    <3>3. UpperLadder(source, g, names)
      BY <1>7, <3>2 DEF UpperLadder
    <3> QED  BY <3>3
  <2>5. CASE type = "greater"
    <3>1. ASSUME NEW i \in DOMAIN g.members, NEW j \in DOMAIN g.members, i < j,
                 NEW a \in DOMAIN ms, NEW b \in DOMAIN ms,
                 StandsFor(source, a, names[g.members[i]]), StandsFor(source, b, names[g.members[j]])
          PROVE  ms[a].strike \in Int /\ ms[b].strike \in Int /\ ms[a].strike < ms[b].strike
      <4>1. PICK m \in DOMAIN ms : q.markets[i] = ms[m]
        BY <1>1, <1>3
      <4>2. PICK n \in DOMAIN ms : q.markets[j] = ms[n]
        BY <1>1, <1>3
      <4>3. ms[m].key = ms[a].key /\ ms[n].key = ms[b].key
        <5>1. names[g.members[i]] = KalshiNamed(ms[a].key) /\ names[g.members[j]] = KalshiNamed(ms[b].key)
          BY <3>1 DEF StandsFor
        <5>2. names[g.members[i]] = KalshiNamed(ms[m].key) /\ names[g.members[j]] = KalshiNamed(ms[n].key)
          BY <1>1, <3>1, <4>1, <4>2
        <5>3. \A x, y : KalshiNamed(x) = KalshiNamed(y) => x = y
          BY DEF KalshiNamed
        <5> QED  BY <5>1, <5>2, <5>3
      <4>4. ms[m].strike = ms[a].strike /\ ms[n].strike = ms[b].strike
        BY <1>2, <4>3 DEF OneMarketEach
      <4>5. /\ q.markets[i].strike \in Int /\ q.markets[j].strike \in Int
            /\ Threshold(q.markets[i]) < Threshold(q.markets[j])
        BY <1>1, <2>1, <3>1 DEF Rungs
      <4>6. /\ Threshold(q.markets[i]) = q.markets[i].strike
            /\ Threshold(q.markets[j]) = q.markets[j].strike
        BY <1>1, <2>2, <2>5, <4>5, ThresholdIs
      <4> QED  BY <4>1, <4>2, <4>4, <4>5, <4>6
    <3> QED  BY <3>1 DEF StrikesAscend
  <2> QED  BY <2>2, <2>4, <2>5
<1> QED  BY <1>5, <1>6, <1>7 DEF InferredShape

LEMMA ShapesStep ==
    ASSUME LoadInv, ShapesListed, [Next]_vars
    PROVE  ShapesListed'
<1>1. CASE AddInferred
  <2>1. /\ phase = "groups" /\ OfListing /\ source' = source /\ interned' = interned
        /\ groups' = [k \in DOMAIN Bindable(InferredGroups) |->
                        GroupOf(Bindable(InferredGroups)[k].kind, NumbersOf(Bindable(InferredGroups)[k]),
                                TRUE, events[EventNamed(Bindable(InferredGroups)[k].event)].resolves, TRUE)]
    BY <1>1 DEF AddInferred, OfListing, GroupsFrom
  <2>2. source \in KalshiListings /\ source \in Sources
    BY <2>1, ListingRead
  <2>3. \A k \in DOMAIN groups' : InferredShape(source, groups'[k], interned)
    <3> SUFFICES ASSUME NEW k \in DOMAIN groups' PROVE InferredShape(source, groups'[k], interned)
      OBVIOUS
    <3>1. PICK q : InferredFrom(q) /\ AsInferred(groups'[k], q, interned)
      BY <1>1, InferredAdded
    <3> QED  BY <2>2, <3>1, InferredIsShaped
  <2>4. DOMAIN groups' = {} => groups' = <<>>
    <3> DEFINE S == DOMAIN Bindable(InferredGroups)
    <3>1. DOMAIN groups' = S
      BY <2>1
    <3> HIDE DEF S
    <3>2. SUFFICES ASSUME S = {} PROVE groups' = <<>>
      BY <3>1
    <3> QED  BY <2>1, <3>2 DEF S
  <2> QED  BY <2>1, <2>3, <2>4 DEF ShapesListed
<1>2. CASE InternFile
  BY <1>2 DEF InternFile, ShapesListed
<1>3. CASE AddEvent \/ AddGroup
  <2>1. phase = "groups" /\ phase' = phase
    BY <1>3 DEF AddEvent, AddGroup, AtEvent, AtGroup, Reading
  <2> QED  BY <2>1 DEF ShapesListed
<1>4. CASE AddListedEvents
  BY <1>4 DEF AddListedEvents, ShapesListed
<1>5. CASE InternListed
  BY <1>5 DEF InternListed, ShapesListed
<1>6. CASE Promote
  BY <1>6 DEF Promote, ShapesListed
<1>7. CASE ExtendWithPolymarket
  <2>1. phase' \in {"ready", "refused"}
    BY <1>7, ExtendIs
  <2> QED  BY <2>1 DEF ShapesListed
<1>8. CASE MovesPhase
  <2>1. /\ source' = source /\ groups' = groups /\ interned' = interned /\ OfListing' = OfListing
        /\ OfListing /\ phase' \in {"check", "polymarket"} => phase = "check"
    BY <1>8 DEF MovesPhase, tableVars, OfListing
  <2> QED  BY <2>1 DEF ShapesListed
<1>9. CASE UNCHANGED registryVars
  BY <1>9 DEF registryVars, ShapesListed, OfListing
<1> QED  BY <1>1, <1>2, <1>3, <1>4, <1>5, <1>6, <1>7, <1>8, <1>9, StepKinds

(* Where an event of the file, and an entry of it, come from.              *)
EventBehind(e) == InOrder({n \in DOMAIN events : GroupsOfEvent(n) # <<>>})[e]
GroupBehind(p) == InOrder(GroupsUnder(EventBehind(p[1])))[p[2]]

LEMMA FirstMember ==
    ASSUME NEW g, WellShaped(g)
    PROVE  1 \in DOMAIN g.members /\ g.members \in Seq(Nat)
<1> DEFINE m == g.members
<1>1. m \in Seq(Nat) /\ (Len(m) = 1 \/ Len(m) = 2 \/ Len(m) >= 2)
  BY DEF WellShaped, Kind
<1> HIDE DEF m
<1>2. 1 \in DOMAIN m
  BY <1>1
<1> QED  BY <1>1, <1>2 DEF m

LEMMA EventBehindIs ==
    ASSUME LoadInv, OfListing, phase = "polymarket"
    PROVE  /\ \A e \in DOMAIN RenderedEvents : /\ EventBehind(e) \in DOMAIN events
                                               /\ RenderedEvents[e] = RenderedEvent(EventBehind(e))
           /\ \A e, f \in DOMAIN RenderedEvents : EventBehind(e) = EventBehind(f) => e = f
           /\ \A n \in DOMAIN events : GroupsOfEvent(n) # <<>> =>
                  \E e \in DOMAIN RenderedEvents : EventBehind(e) = n
<1> DEFINE S == {n \in DOMAIN events : GroupsOfEvent(n) # <<>>}
           o == InOrder(S)
           N == Len(events)
<1>1. N \in Nat /\ DOMAIN events = 1 .. N
  BY DEF LoadInv, BindingOK
<1>2. S \in SUBSET (1 .. N)
  BY <1>1
<1>3. RenderedEvents = [k \in DOMAIN o |-> RenderedEvent(o[k])] /\ \A e : EventBehind(e) = o[e]
  BY DEF RenderedEvents, RenderedEvent, EventBehind
<1>4. \A n \in DOMAIN events : n \in S <=> GroupsOfEvent(n) # <<>>
  OBVIOUS
<1> HIDE DEF S, N
<1>5. /\ \A k \in DOMAIN Kept(events, S) : o[k] \in S
      /\ \A k, l \in DOMAIN Kept(events, S) : o[k] = o[l] => k = l
      /\ \A i \in S : \E k \in DOMAIN Kept(events, S) : o[k] = i
  BY <1>1, <1>2, KeptPlaces
<1>6. DOMAIN Kept(events, S) = DOMAIN o
  BY DEF Kept
<1>7. S \subseteq DOMAIN events
  BY <1>1, <1>2
<1> HIDE DEF o
<1> QED  BY <1>3, <1>4, <1>5, <1>6, <1>7

LEMMA GroupBehindIs ==
    ASSUME LoadInv, OfListing, phase = "polymarket"
    PROVE  /\ \A p \in Entries(RenderedEvents) :
                 /\ p[1] \in DOMAIN RenderedEvents /\ GroupBehind(p) \in DOMAIN groups
                 /\ binding[groups[GroupBehind(p)].members[1]].event = EventBehind(p[1])
                 /\ EntryAt(RenderedEvents, p) = RenderedGroup(groups[GroupBehind(p)])
           /\ \A p, q \in Entries(RenderedEvents) : GroupBehind(p) = GroupBehind(q) => p = q
           /\ \A k \in DOMAIN groups : \E p \in Entries(RenderedEvents) : GroupBehind(p) = k
<1> DEFINE r == RenderedEvents
<1>1. PICK m \in Nat : DOMAIN groups = 1 .. m
  BY DEF LoadInv, GroupsOK
<1>2. ASSUME NEW n
      PROVE  /\ \A x \in DOMAIN GroupsOfEvent(n) :
                    /\ InOrder(GroupsUnder(n))[x] \in DOMAIN groups
                    /\ binding[groups[InOrder(GroupsUnder(n))[x]].members[1]].event = n
                    /\ GroupsOfEvent(n)[x] = groups[InOrder(GroupsUnder(n))[x]]
             /\ \A x, y \in DOMAIN GroupsOfEvent(n) :
                    InOrder(GroupsUnder(n))[x] = InOrder(GroupsUnder(n))[y] => x = y
             /\ \A k \in DOMAIN groups : binding[groups[k].members[1]].event = n =>
                    \E x \in DOMAIN GroupsOfEvent(n) : InOrder(GroupsUnder(n))[x] = k
  <2> DEFINE at == GroupsUnder(n)
  <2>1. at \in SUBSET (1 .. m) /\ GroupsOfEvent(n) = Kept(groups, at)
    BY <1>1 DEF GroupsUnder, GroupsOfEvent
  <2>2. \A k : k \in at <=> k \in DOMAIN groups /\ binding[groups[k].members[1]].event = n
    BY DEF GroupsUnder
  <2> HIDE DEF at
  <2>3. /\ \A k \in DOMAIN Kept(groups, at) : /\ InOrder(at)[k] \in at
                                              /\ Kept(groups, at)[k] = groups[InOrder(at)[k]]
        /\ \A k, l \in DOMAIN Kept(groups, at) : InOrder(at)[k] = InOrder(at)[l] => k = l
        /\ \A i \in at : \E k \in DOMAIN Kept(groups, at) : InOrder(at)[k] = i
    BY <1>1, <2>1, KeptPlaces
  <2> QED  BY <2>1, <2>2, <2>3 DEF at
<1>3. /\ \A e \in DOMAIN r : /\ EventBehind(e) \in DOMAIN events
                             /\ r[e] = RenderedEvent(EventBehind(e))
      /\ \A e, f \in DOMAIN r : EventBehind(e) = EventBehind(f) => e = f
      /\ \A n \in DOMAIN events : GroupsOfEvent(n) # <<>> => \E e \in DOMAIN r : EventBehind(e) = n
  BY EventBehindIs
<1>4. \A n : /\ DOMAIN RenderedEvent(n).groups = DOMAIN GroupsOfEvent(n)
             /\ \A x \in DOMAIN GroupsOfEvent(n) :
                    RenderedEvent(n).groups[x] = RenderedGroup(GroupsOfEvent(n)[x])
  BY DEF RenderedEvent
<1> HIDE DEF r
<1>5. ASSUME NEW p \in Entries(r)
      PROVE  /\ p[1] \in DOMAIN r /\ p[2] \in DOMAIN GroupsOfEvent(EventBehind(p[1]))
             /\ p = <<p[1], p[2]>>
             /\ GroupBehind(p) \in DOMAIN groups
             /\ binding[groups[GroupBehind(p)].members[1]].event = EventBehind(p[1])
             /\ EntryAt(r, p) = RenderedGroup(groups[GroupBehind(p)])
  <2>1. PICK e \in DOMAIN r : \E x \in DOMAIN r[e].groups : p = <<e, x>>
    BY EntriesAre
  <2>2. PICK x \in DOMAIN r[e].groups : p = <<e, x>>
    BY <2>1
  <2>3. p[1] = e /\ p[2] = x
    BY <2>2
  <2> DEFINE n == EventBehind(e)
  <2>4. r[e] = RenderedEvent(n)
    BY <1>3
  <2>5. GroupBehind(p) = InOrder(GroupsUnder(n))[x] /\ EntryAt(r, p) = r[e].groups[x]
    BY <2>3 DEF GroupBehind, EntryAt
  <2> HIDE DEF n
  <2>6. x \in DOMAIN GroupsOfEvent(n) /\ r[e].groups[x] = RenderedGroup(GroupsOfEvent(n)[x])
    BY <1>4, <2>4
  <2>7. /\ InOrder(GroupsUnder(n))[x] \in DOMAIN groups
        /\ binding[groups[InOrder(GroupsUnder(n))[x]].members[1]].event = n
        /\ GroupsOfEvent(n)[x] = groups[InOrder(GroupsUnder(n))[x]]
    BY <1>2, <2>6
  <2> QED  BY <2>2, <2>3, <2>5, <2>6, <2>7 DEF n
<1>6. ASSUME NEW p \in Entries(r), NEW q \in Entries(r), GroupBehind(p) = GroupBehind(q)
      PROVE  p = q
  <2>1. EventBehind(p[1]) = EventBehind(q[1])
    BY <1>5, <1>6
  <2>2. p[1] = q[1]
    BY <1>3, <1>5, <2>1
  <2>3. p[2] = q[2]
    BY <1>2, <1>5, <1>6, <2>1, <2>2 DEF GroupBehind
  <2> QED  BY <1>5, <2>2, <2>3
<1>7. ASSUME NEW k \in DOMAIN groups
      PROVE  \E p \in Entries(r) : GroupBehind(p) = k
  <2> DEFINE n == binding[groups[k].members[1]].event
  <2>1. UnderOneEvent(groups[k], binding, events)
    BY DEF LoadInv, GroupsOK
  <2>2. 1 \in DOMAIN groups[k].members
    BY <2>1, FirstMember DEF UnderOneEvent
  <2>3. n \in DOMAIN events
    BY <2>1, <2>2 DEF UnderOneEvent
  <2>4. PICK x \in DOMAIN GroupsOfEvent(n) : InOrder(GroupsUnder(n))[x] = k
    BY <1>2
  <2> HIDE DEF n
  <2>5. PICK e \in DOMAIN r : EventBehind(e) = n
    BY <1>3, <2>3, <2>4
  <2>6. x \in DOMAIN r[e].groups
    BY <1>3, <1>4, <2>4, <2>5
  <2> DEFINE p == <<e, x>>
  <2>7. p \in Entries(r) /\ p[1] = e /\ p[2] = x
    BY <2>6, EntriesAre
  <2>8. GroupBehind(p) = k
    BY <2>4, <2>5, <2>7 DEF GroupBehind
  <2> QED  BY <2>7, <2>8
<1> QED  BY <1>5, <1>6, <1>7 DEF r

(* A ladder whose strikes ascend is written as one the loader accepts.     *)
LEMMA AscendsAsWritten ==
    ASSUME NEW fg \in FileGroup, NEW g, NEW names, NEW l, RenderOf(fg, g, names, l),
           InferredShape(l, g, names), StrikesAscend(l, g, names)
    PROVE  Ascending(fg.members)
<1> DEFINE m == fg.members
<1>1. m \in Seq(FileMember)
  BY DEF FileGroup
<1>2. Len(m) \in Nat /\ DOMAIN m = 1 .. Len(m)
  BY <1>1
<1>3. /\ DOMAIN m = DOMAIN g.members
      /\ \A i \in DOMAIN g.members : \A x \in DOMAIN l.markets :
            KalshiNamed(l.markets[x].key) = names[g.members[i]] => m[i].strike = l.markets[x].strike
  BY DEF RenderOf
<1>4. \A i \in DOMAIN g.members : \E x \in DOMAIN l.markets :
          StandsFor(l, x, names[g.members[i]]) /\ m[i].strike = l.markets[x].strike
  BY <1>3 DEF InferredShape, StandsFor
<1> HIDE DEF m
<1>5. ASSUME NEW i \in 1 .. Len(m) - 1
      PROVE  m[i].strike < m[i + 1].strike
  <2>1. i \in DOMAIN g.members /\ i + 1 \in DOMAIN g.members /\ i < i + 1
    BY <1>2, <1>3
  <2>2. PICK a \in DOMAIN l.markets :
            StandsFor(l, a, names[g.members[i]]) /\ m[i].strike = l.markets[a].strike
    BY <1>4, <2>1
  <2>3. PICK b \in DOMAIN l.markets :
            StandsFor(l, b, names[g.members[i + 1]]) /\ m[i + 1].strike = l.markets[b].strike
    BY <1>4, <2>1
  <2>4. l.markets[a].strike < l.markets[b].strike
    BY <2>1, <2>2, <2>3 DEF StrikesAscend
  <2> QED  BY <2>2, <2>3, <2>4
<1> QED  BY <1>5 DEF Ascending, m

LEMMA EntryIsGood ==
    ASSUME LoadInv, ShapesListed, OfListing, phase = "polymarket",
           NEW fg \in FileGroup, NEW k \in DOMAIN groups, RenderOf(fg, groups[k], interned, source),
           NEW o, o.listing = source, o.groups = groups, o.interned = interned
    PROVE  GoodWritten(fg, o)
<1> DEFINE g == groups[k]
           m == fg.members
<1>1. InferredShape(source, g, interned)
  BY DEF ShapesListed
<1>2. UnderOneEvent(g, binding, events)
  BY DEF LoadInv, GroupsOK
<1>3. /\ WellShaped(g) /\ \A i \in DOMAIN g.members : g.members[i] \in DOMAIN binding
  BY <1>2 DEF UnderOneEvent
<1>4. /\ fg.kind = g.kind /\ fg.verified = "absent" /\ DOMAIN m = DOMAIN g.members
      /\ \A i \in DOMAIN g.members : m[i].contract = interned[g.members[i]]
  BY DEF RenderOf
<1>5. m \in Seq(FileMember)
  BY DEF FileGroup
<1>6. interned \in Seq(Contract) /\ IsInjective(interned) /\ BindingOK
  BY DEF LoadInv, TablesOK
<1>7. fg.kind = "monotone" => Ascending(m) \/ SomeUpper(o)
  <2> SUFFICES ASSUME fg.kind = "monotone" PROVE Ascending(m) \/ SomeUpper(o)
    OBVIOUS
  <2>1. UpperLadder(source, g, interned) \/ StrikesAscend(source, g, interned)
    BY <1>1, <1>4 DEF InferredShape
  <2>2. CASE UpperLadder(source, g, interned)
    BY <2>2 DEF SomeUpper
  <2>3. CASE StrikesAscend(source, g, interned)
    BY <1>1, <2>3, AscendsAsWritten
  <2> QED  BY <2>1, <2>2, <2>3
<1> HIDE DEF g, m
<1>8. g.members \in Seq(Nat) /\ IsInjective(g.members) /\ Len(m) = Len(g.members)
  <2>1. g.members \in Seq(Nat) /\ IsInjective(g.members)
    BY <1>3 DEF WellShaped
  <2> QED  BY <1>4, <1>5, <2>1
<1>9. /\ fg.kind = "complement" => Len(m) = 1
      /\ fg.kind # "complement" => Len(m) >= 2
  BY <1>1, <1>3, <1>4, <1>8 DEF WellShaped, InferredShape
<1>10. \A i \in DOMAIN m : m[i].contract.venue = "Kalshi"
  <2> SUFFICES ASSUME NEW i \in DOMAIN g.members PROVE interned[g.members[i]].venue = "Kalshi"
    BY <1>4
  <2>1. PICK x \in DOMAIN source.markets : StandsFor(source, x, interned[g.members[i]])
    BY <1>1 DEF InferredShape
  <2>2. interned[g.members[i]] = KalshiNamed(source.markets[x].key)
    BY <2>1 DEF StandsFor
  <2> QED  BY <2>2 DEF KalshiNamed
<1>11. \A i, j \in DOMAIN m : m[i].contract = m[j].contract => i = j
  BY <1>3, <1>4, <1>6, <1>8 DEF IsInjective, BindingOK
<1>12. fg.kind \in {"complement", "exhaustive", "monotone"}
  BY <1>1, <1>4 DEF InferredShape
<1> QED  BY <1>4, <1>5, <1>7, <1>9, <1>10, <1>11, <1>12 DEF GoodWritten, m

(* The file of a promotion is Written.                                     *)
LEMMA PromotedIsWritten ==
    ASSUME LoadInv, ShapesListed, OfListing, phase = "polymarket",
           NEW o, o = [listing |-> source, groups |-> groups, interned |-> interned]
    PROVE  Written(RenderedEvents, o)
<1> DEFINE r == RenderedEvents
           from(p) == groups[GroupBehind(p)]
<1>1. o.listing = source /\ o.groups = groups /\ o.interned = interned
  OBVIOUS
<1>2. /\ \A p \in Entries(r) : /\ p[1] \in DOMAIN r /\ GroupBehind(p) \in DOMAIN groups
                               /\ binding[from(p).members[1]].event = EventBehind(p[1])
                               /\ EntryAt(r, p) = RenderedGroup(from(p))
      /\ \A p, q \in Entries(r) : GroupBehind(p) = GroupBehind(q) => p = q
      /\ \A k \in DOMAIN groups : \E p \in Entries(r) : GroupBehind(p) = k
  BY GroupBehindIs
<1>3. /\ \A e \in DOMAIN r : /\ EventBehind(e) \in DOMAIN events
                             /\ r[e] = RenderedEvent(EventBehind(e))
      /\ \A e, f \in DOMAIN r : EventBehind(e) = EventBehind(f) => e = f
  BY EventBehindIs
<1>4. \A e \in DOMAIN r : RenderedOf(EventBehind(e), r[e])
  BY <1>3, RenderedEventIs
<1>5. TablesOK /\ BindingOK
  BY DEF LoadInv
<1> HIDE DEF r
<1>6. ASSUME NEW p \in Entries(r)
      PROVE  /\ UnderOneEvent(from(p), binding, events) /\ 1 \in DOMAIN from(p).members
             /\ \A i \in DOMAIN from(p).members :
                    /\ from(p).members[i] \in DOMAIN interned
                    /\ binding[from(p).members[i]].event = EventBehind(p[1])
             /\ EntryAt(r, p) \in FileGroup /\ RenderOf(EntryAt(r, p), from(p), interned, source)
  <2> DEFINE g == from(p)
  <2>1. UnderOneEvent(g, binding, events)
    BY <1>2 DEF LoadInv, GroupsOK
  <2>2. /\ WellShaped(g) /\ \A i \in DOMAIN g.members : g.members[i] \in DOMAIN binding
        /\ \E e \in DOMAIN events : \A i \in DOMAIN g.members : binding[g.members[i]].event = e
    BY <2>1 DEF UnderOneEvent
  <2>3. binding[g.members[1]].event = EventBehind(p[1]) /\ EntryAt(r, p) = RenderedGroup(g)
    BY <1>2
  <2> HIDE DEF g
  <2>4. 1 \in DOMAIN g.members
    BY <2>2, FirstMember
  <2>5. RenderedGroup(g) \in FileGroup /\ RenderOf(RenderedGroup(g), g, interned, source)
    BY <2>2, RenderedGroupIs
  <2>6. \A i \in DOMAIN g.members : /\ g.members[i] \in DOMAIN interned
                                    /\ binding[g.members[i]].event = EventBehind(p[1])
    BY <1>5, <2>2, <2>3, <2>4 DEF BindingOK
  <2> QED  BY <2>1, <2>3, <2>4, <2>5, <2>6 DEF g
<1>7. \A e \in DOMAIN r : r[e].resolves # NoTime
  BY <1>4, RegistryAssumption DEF RenderedOf
<1>8. \A e, f \in DOMAIN r : r[e].id = r[f].id => e = f
  BY RenderedEventsAre DEF r
<1>9. \A p \in Entries(r) : GoodWritten(EntryAt(r, p), o)
  <2> SUFFICES ASSUME NEW p \in Entries(r) PROVE GoodWritten(EntryAt(r, p), o)
    OBVIOUS
  <2>1. GroupBehind(p) \in DOMAIN groups
    BY <1>2
  <2>2. EntryAt(r, p) \in FileGroup /\ RenderOf(EntryAt(r, p), from(p), interned, source)
    BY <1>6
  <2> QED  BY <1>1, <2>1, <2>2, EntryIsGood
<1>10. ASSUME NEW p \in Entries(r), NEW q \in Entries(r), Meet(EntryAt(r, p), EntryAt(r, q))
       PROVE  /\ p[1] = q[1]
              /\ EntryAt(r, p).kind = "exhaustive" /\ EntryAt(r, q).kind = "exhaustive" => p = q
  <2>1. /\ DOMAIN EntryAt(r, p).members = DOMAIN from(p).members /\ EntryAt(r, p).kind = from(p).kind
        /\ \A i \in DOMAIN from(p).members :
               EntryAt(r, p).members[i].contract = interned[from(p).members[i]]
        /\ DOMAIN EntryAt(r, q).members = DOMAIN from(q).members /\ EntryAt(r, q).kind = from(q).kind
        /\ \A i \in DOMAIN from(q).members :
               EntryAt(r, q).members[i].contract = interned[from(q).members[i]]
    BY <1>6 DEF RenderOf
  <2>2. PICK i \in DOMAIN from(p).members :
           \E j \in DOMAIN from(q).members : interned[from(p).members[i]] = interned[from(q).members[j]]
    BY <1>10, <2>1 DEF Meet
  <2>3. PICK j \in DOMAIN from(q).members :
           interned[from(p).members[i]] = interned[from(q).members[j]]
    BY <2>2
  <2>4. from(p).members[i] = from(q).members[j]
    BY <1>5, <1>6, <2>3 DEF TablesOK, IsInjective
  <2>5. EventBehind(p[1]) = EventBehind(q[1])
    BY <1>6, <2>4
  <2>6. p[1] = q[1]
    BY <1>2, <1>3, <2>5
  <2>7. ASSUME EntryAt(r, p).kind = "exhaustive", EntryAt(r, q).kind = "exhaustive"
        PROVE  p = q
    <3>1. GroupBehind(p) \in Partitions /\ GroupBehind(q) \in Partitions
      BY <1>2, <2>1, <2>7 DEF Partitions
    <3>2. from(p).members[i] \in ToSet(from(p).members) \cap ToSet(from(q).members)
      BY <2>4 DEF ToSet
    <3>3. ~Overlap(Partitions)
      BY DEF LoadInv, PartitionsOK
    <3>4. GroupBehind(p) = GroupBehind(q)
      BY <3>1, <3>2, <3>3 DEF Overlap
    <3> QED  BY <1>2, <3>4
  <2> QED  BY <2>6, <2>7
<1>11. ASSUME NEW p \in Entries(r)
       PROVE  NamedAt(r, p) = Named(groups[GroupBehind(p)], interned)
  <2> DEFINE g == from(p)
             fg == EntryAt(r, p)
  <2>1. /\ fg.kind = g.kind /\ DOMAIN fg.members = DOMAIN g.members
        /\ \A i \in DOMAIN g.members : fg.members[i].contract = interned[g.members[i]]
    BY <1>6 DEF RenderOf
  <2>2. r[p[1]].resolves = events[EventBehind(p[1])].resolves
    BY <1>2, <1>4 DEF RenderedOf
  <2>3. g.resolves = events[EventBehind(p[1])].resolves
    BY <1>6 DEF UnderOneEvent
  <2> HIDE DEF g, fg
  <2>4. [i \in DOMAIN fg.members |-> fg.members[i].contract]
            = [i \in DOMAIN g.members |-> interned[g.members[i]]]
    BY <2>1
  <2>5. NamedEntry(r[p[1]], fg) = Named(g, interned)
    BY <2>1, <2>2, <2>3, <2>4 DEF NamedEntry, Named
  <2> QED  BY <2>5 DEF NamedAt, g, fg
<1>12. /\ \A p \in Entries(r) : \E k \in DOMAIN o.groups :
             NamedAt(r, p) = Named(o.groups[k], o.interned)
       /\ \A k \in DOMAIN o.groups : \E p \in Entries(r) :
             NamedAt(r, p) = Named(o.groups[k], o.interned)
  BY <1>1, <1>2, <1>11
<1>13. o.groups # <<>> => DOMAIN o.groups # {}
  BY <1>1 DEF ShapesListed
<1> QED  BY <1>7, <1>8, <1>9, <1>10, <1>12, <1>13 DEF Written, r

(* The steps of a start from a promoted file.                              *)
LEMMA PromotedSteps ==
    ASSUME LoadInv, Promoted, [Next]_vars
    PROVE  /\ source' = source /\ origin' = origin
           /\ \/ InternFile \/ AddEvent \/ AddGroup \/ FileDone \/ CheckPartitions
              \/ EmptyFile \/ RefuseEvent \/ RefuseGroup \/ RefusePartitions
              \/ ExtendWithPolymarket \/ WithoutPolymarket
              \/ phase' \in {"trading", phase}
                 /\ UNCHANGED <<source, origin, cursor, tableVars>>
<1>1. source.from = "file" /\ phase \notin {"events", "markets"}
  BY DEF LoadInv, SourceOK, Promoted, OfListing
<1>2. CASE Startup
  <2>1. Load
    BY <1>2 DEF Startup
  <2>2. ~AddListedEvents /\ ~RefuseListing /\ ~InternListed /\ ~AddInferred /\ ~Promote
    BY <1>1 DEF AddListedEvents, RefuseListing, InternListed, AddInferred, Promote
  <2>3. \/ InternFile \/ AddEvent \/ AddGroup \/ FileDone \/ CheckPartitions
        \/ EmptyFile \/ RefuseEvent \/ RefuseGroup \/ RefusePartitions
        \/ ExtendWithPolymarket \/ WithoutPolymarket
    BY <2>1, <2>2 DEF Load
  <2>4. source' = source /\ origin' = origin
    BY <2>3 DEF InternFile, AddEvent, AddGroup, FileDone, CheckPartitions, EmptyFile, RefuseEvent,
                RefuseGroup, RefusePartitions, ExtendWithPolymarket, WithoutPolymarket, Refuse
  <2> QED  BY <2>3, <2>4
<1>3. CASE Open
  BY <1>3 DEF Open
<1>4. CASE UNCHANGED registryVars
  BY <1>4 DEF registryVars, tableVars
<1>5. CASE \E c \in DOMAIN market : BookMoves(c) \/ MovesUnseen(c) \/ Snapshot(c)
  <2>1. UNCHANGED registryVars
    BY <1>5 DEF BookMoves, MovesUnseen, Snapshot
  <2> QED  BY <1>4, <2>1
<1>6. CASE (\E v \in Venue : LoseVenue(v)) \/ TimePasses \/ UNCHANGED vars
  <2>1. UNCHANGED registryVars
    BY <1>6 DEF LoseVenue, TimePasses, vars
  <2> QED  BY <1>4, <2>1
<1> QED  BY <1>2, <1>3, <1>5, <1>6 DEF Next

LEMMA EntryPlaces ==
    ASSUME LoadInv, source.from = "file", NEW p \in Entries(source.events)
    PROVE  /\ p[1] \in Nat /\ p[1] >= 1 /\ p[1] <= Len(source.events)
           /\ p[1] \in DOMAIN source.events /\ p[2] \in DOMAIN source.events[p[1]].groups
           /\ p[2] \in Nat /\ p[2] >= 1 /\ p[2] <= Len(source.events[p[1]].groups)
           /\ Len(source.events) \in Nat /\ p = <<p[1], p[2]>>
<1>1. PICK e \in DOMAIN source.events : \E x \in DOMAIN source.events[e].groups : p = <<e, x>>
  BY EntriesAre
<1>2. PICK x \in DOMAIN source.events[e].groups : p = <<e, x>>
  BY <1>1
<1>3. source.events \in Seq(FileEvent)
  BY DEF LoadInv, SourceOK, Files, KalshiListings
<1>4. /\ e \in Nat /\ e >= 1 /\ e <= Len(source.events) /\ Len(source.events) \in Nat
      /\ source.events[e] \in FileEvent
  BY <1>3
<1>5. source.events[e].groups \in Seq(FileGroup)
  BY <1>4 DEF FileEvent
<1>6. x \in Nat /\ x >= 1 /\ x <= Len(source.events[e].groups)
  BY <1>5
<1>7. p[1] = e /\ p[2] = x
  BY <1>2
<1> QED  BY <1>2, <1>4, <1>6, <1>7

(* Advancing reads the entry at the cursor, if there is one, and no other. *)
LEMMA AdvanceReads ==
    ASSUME LoadInv, Reading, Advance, phase' = phase, NEW p \in Entries(source.events)
    PROVE  ReadYet(p)' <=> ReadYet(p) \/ p = <<cursor.event, cursor.group>>
<1>1. /\ phase = "groups" /\ source.from = "file"
      /\ cursor.event \in Nat /\ cursor.group \in Nat
      /\ cursor = [event |-> cursor.event, group |-> cursor.group]
      /\ Entry = source.events[cursor.event] /\ Len(Entry.groups) \in Nat
  BY EntryIs
<1>2. /\ p[1] \in Nat /\ p[2] \in Nat /\ p[2] >= 1
      /\ p[2] <= Len(source.events[p[1]].groups) /\ p = <<p[1], p[2]>>
  BY <1>1, EntryPlaces
<1>3. p = <<cursor.event, cursor.group>> <=> p[1] = cursor.event /\ p[2] = cursor.group
  BY <1>2
<1>4. CASE cursor.group < Len(Entry.groups)
  <2>1. cursor'.event = cursor.event /\ cursor'.group = cursor.group + 1
    <3>1. cursor' = [event |-> cursor.event, group |-> cursor.group + 1]
      BY <1>1, <1>4 DEF Advance
    <3> QED  BY <3>1
  <2> QED  BY <1>1, <1>2, <1>3, <2>1 DEF ReadYet
<1>5. CASE ~(cursor.group < Len(Entry.groups))
  <2>1. cursor'.event = cursor.event + 1 /\ cursor'.group = 0
    <3>1. cursor' = [event |-> cursor.event + 1, group |-> 0]
      BY <1>5 DEF Advance
    <3> QED  BY <3>1
  <2>2. p[1] = cursor.event => p[2] <= cursor.group \/ p[2] < cursor.group
    <3>1. p[1] = cursor.event => p[2] <= Len(Entry.groups)
      BY <1>1, <1>2
    <3> QED  BY <1>1, <1>2, <1>5, <3>1
  <2> QED  BY <1>1, <1>2, <1>3, <2>1, <2>2 DEF ReadYet
<1> QED  BY <1>4, <1>5

(* Pass one reads nothing yet.                                             *)
LEMMA WrittenIntern ==
    ASSUME LoadInv, InternFile
    PROVE  ReadAsWritten'
<1>1. /\ phase = "intern" /\ phase' = "groups" /\ source' = source /\ cursor' = cursor
      /\ events' = events /\ binding' = binding /\ groups' = groups /\ source.from = "file"
  BY DEF InternFile, LoadInv, SourceOK
<1>2. /\ cursor.event = 1 /\ cursor.group = 0 /\ events = <<>> /\ binding = <<>> /\ groups = <<>>
  <2>1. Unread
    BY <1>1 DEF Unread
  <2> QED  BY <1>1, <2>1 DEF LoadInv, ReadingOK, AtTheStart, TablesOK
<1>3. \A p \in Entries(source.events) : ~ReadYet(p)'
  <2> SUFFICES ASSUME NEW p \in Entries(source.events) PROVE ~ReadYet(p)'
    OBVIOUS
  <2>1. p[1] \in Nat /\ p[1] >= 1 /\ p[2] \in Nat
    BY <1>1, EntryPlaces
  <2> QED  BY <1>1, <1>2, <2>1 DEF ReadYet
<1>4. KeysRead' /\ BoundAsWritten' /\ GroupsAsWritten'
  BY <1>1, <1>2, <1>3 DEF KeysRead, BoundAsWritten, GroupsAsWritten
<1>5. ~Overlap(Partitions)'
  BY <1>1, <1>2 DEF Overlap, Partitions
<1> QED  BY <1>4, <1>5 DEF ReadAsWritten

LEMMA WrittenAddEvent ==
    ASSUME LoadInv, Promoted, ReadAsWritten, AddEvent
    PROVE  ReadAsWritten'
<1>1. /\ Reading /\ cursor.group = 0 /\ Advance
      /\ events' = Append(events, [key |-> Entry.id, resolves |-> Entry.resolves])
      /\ source' = source /\ phase' = phase
      /\ interned' = interned /\ binding' = binding /\ groups' = groups
  BY DEF AddEvent, AtEvent
<1>2. /\ phase = "groups" /\ source.from = "file" /\ cursor.event \in Nat
      /\ cursor.event \in DOMAIN source.events /\ Entry = source.events[cursor.event]
  BY <1>1, EntryIs
<1>3. Len(events) = cursor.event - 1 /\ events \in Seq([key : Int, resolves : Int])
  BY <1>1, <1>2 DEF LoadInv, ReadingOK, BindingOK
<1>4. KeysRead /\ BoundAsWritten /\ GroupsAsWritten /\ ~Overlap(Partitions)
  BY <1>2 DEF ReadAsWritten
<1>5. KeysRead'
  <2> DEFINE new == [key |-> Entry.id, resolves |-> Entry.resolves]
  <2>1. new.key = source.events[cursor.event].id
    BY <1>2
  <2> HIDE DEF new
  <2>2. \A i \in DOMAIN events' : \/ i = cursor.event /\ events'[i] = new
                                  \/ i \in DOMAIN events /\ events'[i] = events[i]
    <3>1. DOMAIN events = 1 .. Len(events) /\ Len(events) \in Nat
      BY <1>3
    <3>2. DOMAIN events' = 1 .. Len(events) + 1 /\ events'[Len(events) + 1] = new
          /\ \A i \in 1 .. Len(events) : events'[i] = events[i]
      BY <1>1, <1>3 DEF new
    <3> QED  BY <1>2, <1>3, <3>1, <3>2
  <2> QED  BY <1>1, <1>2, <1>4, <2>1, <2>2 DEF KeysRead
<1>6. BoundAsWritten'
  BY <1>1, <1>4 DEF BoundAsWritten
<1>7. GroupsAsWritten'
  <2>1. \A p \in Entries(source.events) : ReadYet(p)' <=> ReadYet(p)
    <3> SUFFICES ASSUME NEW p \in Entries(source.events) PROVE ReadYet(p)' <=> ReadYet(p)
      OBVIOUS
    <3>1. p[2] >= 1 /\ p[2] \in Nat
      BY <1>2, EntryPlaces
    <3>2. p # <<cursor.event, cursor.group>>
      BY <1>1, <3>1
    <3> QED  BY <1>1, <3>2, AdvanceReads
  <2> QED  BY <1>1, <1>4, <2>1 DEF GroupsAsWritten
<1>8. ~Overlap(Partitions)'
  BY <1>1, <1>4 DEF Overlap, Partitions
<1> QED  BY <1>5, <1>6, <1>7, <1>8 DEF ReadAsWritten

LEMMA NamedAlike ==
    ASSUME NEW g, NEW names, NEW evs, NEW p
    PROVE  Named(g, names) = NamedAt(evs, p) <=>
             /\ EntryAt(evs, p).kind = g.kind /\ evs[p[1]].resolves = g.resolves
             /\ DOMAIN EntryAt(evs, p).members = DOMAIN g.members
             /\ \A i \in DOMAIN g.members : EntryAt(evs, p).members[i].contract = names[g.members[i]]
<1> DEFINE fg == EntryAt(evs, p)
           ev == evs[p[1]]
           a == [i \in DOMAIN g.members |-> names[g.members[i]]]
           b == [i \in DOMAIN fg.members |-> fg.members[i].contract]
<1>1. Named(g, names) = [kind |-> g.kind, resolves |-> g.resolves, members |-> a]
  BY DEF Named
<1>2. NamedAt(evs, p) = [kind |-> fg.kind, resolves |-> ev.resolves, members |-> b]
  BY DEF NamedAt, NamedEntry
<1>3. a = b <=> /\ DOMAIN fg.members = DOMAIN g.members
                /\ \A i \in DOMAIN g.members : fg.members[i].contract = names[g.members[i]]
  <2> HIDE DEF fg
  <2>1. /\ DOMAIN a = DOMAIN g.members /\ \A i \in DOMAIN g.members : a[i] = names[g.members[i]]
        /\ DOMAIN b = DOMAIN fg.members /\ \A i \in DOMAIN fg.members : b[i] = fg.members[i].contract
    OBVIOUS
  <2>2. ASSUME DOMAIN fg.members = DOMAIN g.members,
               \A i \in DOMAIN g.members : fg.members[i].contract = names[g.members[i]]
        PROVE  a = b
    BY <2>2
  <2> HIDE DEF a, b
  <2> QED  BY <2>1, <2>2
<1> HIDE DEF fg, ev, a, b
<1>4. Named(g, names) = NamedAt(evs, p) <=> g.kind = fg.kind /\ g.resolves = ev.resolves /\ a = b
  BY <1>1, <1>2
<1> QED  BY <1>3, <1>4 DEF fg, ev

(* The entry at the cursor, and what its members are to the registry.      *)
AtCursor == <<cursor.event, cursor.group>>

LEMMA CursorIs ==
    ASSUME LoadInv, Promoted, Written(source.events, origin[1]), AtGroup
    PROVE  LET fg  == Entry.groups[cursor.group]
               ids == EntryIds(fg)
           IN  /\ phase = "groups" /\ source.from = "file"
               /\ AtCursor \in Entries(source.events) /\ ~ReadYet(AtCursor)
               /\ AtCursor[1] = cursor.event /\ fg = EntryAt(source.events, AtCursor)
               /\ Len(events) = cursor.event /\ Entry = source.events[cursor.event]
               /\ ids \in Seq(Nat) /\ DOMAIN ids = DOMAIN fg.members
               /\ \A i \in DOMAIN ids : /\ ids[i] \in DOMAIN interned
                                        /\ interned[ids[i]] = fg.members[i].contract
               /\ fg \in FileGroup /\ GoodWritten(fg, origin[1])
<1>1. Reading /\ cursor.group > 0
  BY DEF AtGroup
<1>2. /\ phase = "groups" /\ source.from = "file" /\ cursor.event \in Nat /\ cursor.group \in Nat
      /\ cursor.event \in DOMAIN source.events /\ Entry = source.events[cursor.event]
      /\ \A x \in DOMAIN Entry.groups : Entry.groups[x] \in FileGroup
  BY <1>1, EntryIs
<1>3. Len(events) = cursor.event /\ cursor.group \in DOMAIN Entry.groups
  BY <1>1, <1>2 DEF LoadInv, ReadingOK
<1>4. AtCursor \in Entries(source.events) /\ AtCursor[1] = cursor.event /\ AtCursor[2] = cursor.group
  BY <1>2, <1>3, EntriesAre DEF AtCursor
<1>5. ~ReadYet(AtCursor)
  BY <1>2, <1>4 DEF ReadYet
<1>6. Entry.groups[cursor.group] = EntryAt(source.events, AtCursor)
  BY <1>2, <1>4 DEF EntryAt
<1>7. GoodWritten(EntryAt(source.events, AtCursor), origin[1])
  BY <1>4 DEF Written
<1> QED  BY <1>1, <1>2, <1>3, <1>4, <1>5, <1>6, <1>7, EntryIdsAre

LEMMA WrittenAddGroup ==
    ASSUME LoadInv, Promoted, Written(source.events, origin[1]), ReadAsWritten, AddGroup
    PROVE  ReadAsWritten'
<1> DEFINE evs == source.events
           fg  == Entry.groups[cursor.group]
           ids == EntryIds(fg)
           new == GroupOf(fg.kind, ids, fg.verified # "no", Entry.resolves, FALSE)
<1>1. /\ AtGroup /\ Reading /\ Advance
      /\ binding' = Bind(ids) /\ groups' = Append(groups, new)
      /\ source' = source /\ phase' = phase /\ interned' = interned /\ events' = events
  BY DEF AddGroup, AtGroup
<1>2. /\ phase = "groups" /\ AtCursor \in Entries(evs) /\ ~ReadYet(AtCursor)
      /\ AtCursor[1] = cursor.event /\ fg = EntryAt(evs, AtCursor)
      /\ Len(events) = cursor.event /\ Entry = evs[cursor.event]
      /\ DOMAIN ids = DOMAIN fg.members
      /\ \A i \in DOMAIN ids : ids[i] \in DOMAIN interned /\ interned[ids[i]] = fg.members[i].contract
  BY <1>1, CursorIs
<1>3. new.kind = fg.kind /\ new.members = ids /\ new.resolves = Entry.resolves
  BY DEF GroupOf
<1>4. KeysRead /\ BoundAsWritten /\ GroupsAsWritten /\ ~Overlap(Partitions)
  BY <1>2 DEF ReadAsWritten
<1>5. \A p, q \in Entries(evs) : Meet(EntryAt(evs, p), EntryAt(evs, q)) =>
          /\ p[1] = q[1]
          /\ EntryAt(evs, p).kind = "exhaustive" /\ EntryAt(evs, q).kind = "exhaustive" => p = q
  BY DEF Written
<1>6. PICK n \in Nat : DOMAIN groups = 1 .. n
  BY DEF LoadInv, GroupsOK
<1> HIDE DEF fg, ids, new, evs
<1>7. /\ DOMAIN groups' = 1 .. n + 1 /\ groups'[n + 1] = new
      /\ \A g \in 1 .. n : groups'[g] = groups[g]
  <2>1. Len(groups) = n
    BY <1>6
  <2> QED  BY <1>1, <1>6, <2>1
<1>8. KeysRead'
  BY <1>1, <1>4 DEF KeysRead
<1>9. BoundAsWritten'
  <2> SUFFICES ASSUME NEW c \in DOMAIN binding', NEW p \in Entries(evs),
                      NEW i \in DOMAIN EntryAt(evs, p).members,
                      interned[c] = EntryAt(evs, p).members[i].contract
               PROVE  binding'[c].event = p[1]
    BY <1>1 DEF BoundAsWritten, evs
  <2>1. CASE c \in DOMAIN binding
    <3>1. binding'[c] = binding[c]
      BY <1>1, <2>1 DEF Bind
    <3> QED  BY <1>4, <2>1, <3>1 DEF BoundAsWritten, evs
  <2>2. CASE c \notin DOMAIN binding
    <3>1. c \in ToSet(ids) /\ binding'[c].event = Len(events)
      BY <1>1, <2>2 DEF Bind
    <3>2. PICK j \in DOMAIN ids : c = ids[j]
      BY <3>1 DEF ToSet
    <3>3. Meet(EntryAt(evs, p), EntryAt(evs, AtCursor))
      BY <1>2, <3>2 DEF Meet
    <3> QED  BY <1>2, <1>5, <3>1, <3>3
  <2> QED  BY <2>1, <2>2
<1>10. Named(new, interned) = NamedAt(evs, AtCursor)
  BY <1>2, <1>3, NamedAlike
<1>11. GroupsAsWritten'
  <2>1. \A p \in Entries(evs) : ReadYet(p)' <=> ReadYet(p) \/ p = AtCursor
    BY <1>1, AdvanceReads DEF AtCursor, evs
  <2>2. /\ \A g \in DOMAIN groups : \E p \in Entries(evs) :
               ReadYet(p) /\ Named(groups[g], interned) = NamedAt(evs, p)
        /\ \A p \in Entries(evs) : ReadYet(p) => \E g \in DOMAIN groups :
               Named(groups[g], interned) = NamedAt(evs, p)
    BY <1>4 DEF GroupsAsWritten, evs
  <2>3. ASSUME NEW g \in DOMAIN groups'
        PROVE  \E p \in Entries(evs) : ReadYet(p)' /\ Named(groups'[g], interned) = NamedAt(evs, p)
    <3>1. g \in 1 .. n \/ g = n + 1
      BY <1>7
    <3>2. CASE g \in 1 .. n
      BY <1>6, <1>7, <2>1, <2>2, <3>2
    <3>3. CASE g = n + 1
      BY <1>2, <1>7, <1>10, <2>1, <3>3
    <3> QED  BY <3>1, <3>2, <3>3
  <2>4. ASSUME NEW p \in Entries(evs), ReadYet(p)'
        PROVE  \E g \in DOMAIN groups' : Named(groups'[g], interned) = NamedAt(evs, p)
    <3>1. CASE ReadYet(p)
      <4>1. PICK g \in DOMAIN groups : Named(groups[g], interned) = NamedAt(evs, p)
        BY <2>2, <3>1
      <4>2. g \in DOMAIN groups' /\ groups'[g] = groups[g]
        BY <1>6, <1>7
      <4> QED  BY <4>1, <4>2
    <3>2. CASE p = AtCursor
      <4>1. n + 1 \in DOMAIN groups'
        BY <1>7
      <4> QED  BY <1>7, <1>10, <3>2, <4>1
    <3> QED  BY <2>1, <2>4, <3>1, <3>2
  <2> QED  BY <1>1, <2>3, <2>4 DEF GroupsAsWritten, evs
<1>12. ASSUME NEW g \in 1 .. n, groups[g].kind = "exhaustive", fg.kind = "exhaustive"
       PROVE  ToSet(groups[g].members) \cap ToSet(ids) = {}
  <2> SUFFICES ASSUME NEW i \in DOMAIN groups[g].members, NEW j \in DOMAIN ids,
                      groups[g].members[i] = ids[j]
               PROVE  FALSE
    BY DEF ToSet
  <2>1. PICK p \in Entries(evs) : ReadYet(p) /\ Named(groups[g], interned) = NamedAt(evs, p)
    BY <1>4, <1>6 DEF GroupsAsWritten, evs
  <2>2. /\ EntryAt(evs, p).kind = "exhaustive" /\ i \in DOMAIN EntryAt(evs, p).members
        /\ EntryAt(evs, p).members[i].contract = interned[ids[j]]
    BY <1>12, <2>1, NamedAlike
  <2>3. Meet(EntryAt(evs, p), EntryAt(evs, AtCursor))
    BY <1>2, <2>2 DEF Meet
  <2>4. p = AtCursor
    BY <1>2, <1>5, <1>12, <2>2, <2>3
  <2> QED  BY <1>2, <2>1, <2>4
<1>13. ~Overlap(Partitions)'
  <2> SUFFICES ASSUME NEW g \in DOMAIN groups', NEW h \in DOMAIN groups', g # h,
                      groups'[g].kind = "exhaustive", groups'[h].kind = "exhaustive",
                      ToSet(groups'[g].members) \cap ToSet(groups'[h].members) # {}
               PROVE  FALSE
    BY DEF Overlap, Partitions
  <2>1. CASE g \in 1 .. n /\ h \in 1 .. n
    <3>1. g \in Partitions /\ h \in Partitions
      BY <1>6, <1>7, <2>1 DEF Partitions
    <3> QED  BY <1>4, <1>7, <2>1, <3>1 DEF Overlap
  <2>2. CASE g \in 1 .. n /\ h = n + 1
    BY <1>3, <1>7, <1>12, <2>2
  <2>3. CASE g = n + 1 /\ h \in 1 .. n
    BY <1>3, <1>7, <1>12, <2>3
  <2>4. (g \in 1 .. n \/ g = n + 1) /\ (h \in 1 .. n \/ h = n + 1)
    BY <1>7
  <2> QED  BY <2>1, <2>2, <2>3, <2>4
<1> QED  BY <1>8, <1>9, <1>11, <1>13 DEF ReadAsWritten

(* The end of the file, and the check of partitions it passes.             *)
LEMMA WrittenChecked ==
    ASSUME LoadInv, Promoted, ReadAsWritten, FileDone \/ CheckPartitions
    PROVE  ReadAsWritten' /\ phase' # "refused"
<1>1. /\ source' = source /\ events' = events /\ binding' = binding /\ groups' = groups
      /\ interned' = interned /\ phase \in {"groups", "check"} /\ phase' \in {"check", "polymarket"}
      /\ phase = "groups" => source.from = "file" /\ cursor.event > Len(source.events)
  BY DEF FileDone, CheckPartitions, tableVars
<1>2. KeysRead /\ BoundAsWritten /\ GroupsAsWritten /\ ~Overlap(Partitions)
  BY <1>1 DEF ReadAsWritten
<1>3. \A p \in Entries(source.events) : ReadYet(p) /\ ReadYet(p)'
  <2> SUFFICES ASSUME NEW p \in Entries(source.events) PROVE ReadYet(p) /\ ReadYet(p)'
    OBVIOUS
  <2>1. ReadYet(p)'
    BY <1>1 DEF ReadYet
  <2>2. ReadYet(p)
    <3>1. CASE phase = "groups"
      <4>1. p[1] \in Nat /\ p[1] <= Len(source.events) /\ Len(source.events) \in Nat
        BY <1>1, <3>1, EntryPlaces
      <4>2. cursor.event \in Nat
        BY DEF LoadInv, ReadingOK
      <4> QED  BY <1>1, <3>1, <4>1, <4>2 DEF ReadYet
    <3>2. CASE phase # "groups"
      BY <3>2 DEF ReadYet
    <3> QED  BY <3>1, <3>2
  <2> QED  BY <2>1, <2>2
<1>4. KeysRead' /\ BoundAsWritten'
  BY <1>1, <1>2 DEF KeysRead, BoundAsWritten
<1>5. GroupsAsWritten'
  BY <1>1, <1>2, <1>3 DEF GroupsAsWritten
<1>6. ~Overlap(Partitions)'
  BY <1>1, <1>2 DEF Overlap, Partitions
<1> QED  BY <1>1, <1>4, <1>5, <1>6 DEF ReadAsWritten

(* What a promoted file can be refused for.                                *)
LEMMA HasEntry ==
    ASSUME NEW evs, NEW o, Written(evs, o), o.groups # <<>>
    PROVE  \E p \in Entries(evs) : TRUE
<1>1. PICK k \in DOMAIN o.groups : TRUE
  BY DEF Written
<1> QED  BY <1>1 DEF Written

LEMMA NotEmpty ==
    ASSUME EmptyFile, NEW o, Written(source.events, o)
    PROVE  o.groups = <<>>
<1>1. source.events = <<>>
  BY DEF EmptyFile
<1>2. Entries(source.events) = {}
  BY <1>1 DEF Entries
<1> QED  BY <1>2, HasEntry

LEMMA EventTaken ==
    ASSUME LoadInv, Promoted, Written(source.events, origin[1]), ReadAsWritten
    PROVE  ~RefuseEvent
<1> SUFFICES ASSUME RefuseEvent PROVE FALSE
  OBVIOUS
<1>1. /\ Reading /\ cursor.group = 0 /\ (KeyTaken(Entry.id) \/ Entry.resolves = NoTime)
  BY DEF RefuseEvent, AtEvent
<1>2. /\ phase = "groups" /\ source.from = "file" /\ cursor.event \in Nat
      /\ cursor.event \in DOMAIN source.events /\ Entry = source.events[cursor.event]
  BY <1>1, EntryIs
<1>3. Len(events) = cursor.event - 1 /\ events \in Seq([key : Int, resolves : Int])
  BY <1>1, <1>2 DEF LoadInv, ReadingOK, BindingOK
<1>4. Entry.resolves # NoTime
  BY <1>2 DEF Written
<1>5. PICK i \in DOMAIN events : events[i].key = Entry.id
  BY <1>1, <1>4 DEF KeyTaken
<1>6. i \in DOMAIN source.events /\ source.events[i].id = source.events[cursor.event].id
  BY <1>2, <1>5 DEF ReadAsWritten, KeysRead
<1>7. i = cursor.event
  BY <1>2, <1>6 DEF Written
<1>8. cursor.event \notin DOMAIN events
  BY <1>2, <1>3
<1> QED  BY <1>5, <1>7, <1>8

LEMMA GroupTaken ==
    ASSUME LoadInv, Promoted, Written(source.events, origin[1]), ReadAsWritten, RefuseGroup
    PROVE  SomeUpper(origin[1])
<1> DEFINE evs == source.events
           fg  == Entry.groups[cursor.group]
           ids == EntryIds(fg)
           m   == fg.members
<1>1. AtGroup /\ ~GoodEntry(fg, ids)
  BY DEF RefuseGroup
<1>2. /\ phase = "groups" /\ AtCursor \in Entries(evs) /\ AtCursor[1] = cursor.event
      /\ fg = EntryAt(evs, AtCursor) /\ Len(events) = cursor.event
      /\ ids \in Seq(Nat) /\ DOMAIN ids = DOMAIN m
      /\ \A i \in DOMAIN ids : ids[i] \in DOMAIN interned /\ interned[ids[i]] = m[i].contract
      /\ GoodWritten(fg, origin[1])
  BY <1>1, CursorIs
<1>3. /\ fg.kind \in {"complement", "exhaustive", "monotone"} /\ fg.verified = "absent"
      /\ m \in Seq(FileMember)
      /\ fg.kind = "complement" => Len(m) = 1
      /\ fg.kind # "complement" => Len(m) >= 2
      /\ \A i, j \in DOMAIN m : m[i].contract = m[j].contract => i = j
      /\ fg.kind = "monotone" => Ascending(m) \/ SomeUpper(origin[1])
  BY <1>2 DEF GoodWritten
<1>4. BoundAsWritten
  BY <1>2 DEF ReadAsWritten
<1> HIDE DEF ids, fg, m, evs
<1>5. BoundHere(ids)
  <2> SUFFICES ASSUME NEW i \in DOMAIN ids, ids[i] \in DOMAIN binding
               PROVE  binding[ids[i]].event = Len(events)
    BY DEF BoundHere
  <2>1. i \in DOMAIN EntryAt(evs, AtCursor).members
        /\ interned[ids[i]] = EntryAt(evs, AtCursor).members[i].contract
    BY <1>2 DEF m
  <2>2. binding[ids[i]].event = AtCursor[1]
    BY <1>2, <1>4, <2>1 DEF BoundAsWritten, evs
  <2> QED  BY <1>2, <2>2
<1>6. Len(ids) = Len(m)
  BY <1>2, <1>3
<1>7. GoodArity(fg.kind, ids)
  BY <1>3, <1>6 DEF GoodArity
<1>8. GoodShape(fg.kind, ids)
  <2>1. IsInjective(ids)
    BY <1>2, <1>3 DEF IsInjective
  <2> QED  BY <1>3, <1>6, <2>1 DEF GoodShape
<1>9. fg.kind = "monotone" /\ ~Ascending(m)
  BY <1>1, <1>3, <1>5, <1>7, <1>8 DEF GoodEntry, m
<1> QED  BY <1>3, <1>9

(* Of the contracts a promoted file names, the first is Kalshi's.          *)
LEMMA KalshiTraded ==
    ASSUME LoadInv, NEW o, Written(source.events, o), ReadAsWritten, phase = "polymarket",
           o.groups # <<>>
    PROVE  tickers["Kalshi"] # <<>>
<1>1. PICK p \in Entries(source.events) : TRUE
  BY HasEntry
<1>2. ReadYet(p)
  BY DEF ReadYet
<1>3. PICK g \in DOMAIN groups : Named(groups[g], interned) = NamedAt(source.events, p)
  BY <1>1, <1>2 DEF ReadAsWritten, GroupsAsWritten
<1> DEFINE c == groups[g].members[1]
           fg == EntryAt(source.events, p)
<1>4. UnderOneEvent(groups[g], binding, events)
  BY DEF LoadInv, GroupsOK
<1>5. 1 \in DOMAIN groups[g].members /\ c \in DOMAIN binding
  BY <1>4, FirstMember DEF UnderOneEvent
<1>6. c \in DOMAIN interned
  BY <1>5 DEF LoadInv, BindingOK
<1>7. 1 \in DOMAIN fg.members /\ fg.members[1].contract = interned[c]
  BY <1>3, <1>5, NamedAlike
<1>8. interned[c].venue = "Kalshi"
  BY <1>1, <1>7 DEF Written, GoodWritten
<1> HIDE DEF c
<1> SUFFICES ASSUME tickers["Kalshi"] = <<>> PROVE FALSE
  OBVIOUS
<1>9. /\ interned = tickers["Kalshi"] \o tickers["Polymarket"]
      /\ tickers["Polymarket"] \in Seq(Contract)
      /\ \A i \in DOMAIN tickers["Polymarket"] : tickers["Polymarket"][i].venue = "Polymarket"
  <2>1. "Polymarket" \in Venue
    BY DEF Venue
  <2> QED  BY <2>1 DEF LoadInv, TablesOK, StoreOrder
<1>10. interned = tickers["Polymarket"]
  BY <1>9
<1> QED  BY <1>6, <1>8, <1>9, <1>10

-----------------------------------------------------------------------------
LEMMA PromoStep ==
    ASSUME LoadInv, PromoInv, [Next]_vars
    PROVE  PromoInv'
<1>1. ShapesListed /\ ShapesListed'
  BY ShapesStep DEF PromoInv
<1>2. CASE Promoted
  <2> DEFINE o == origin[1]
  <2>1. Written(source.events, o) /\ ReadAsWritten /\ RefusedForLadder
    BY <1>2 DEF PromoInv
  <2>2. /\ source' = source /\ origin' = origin
        /\ \/ InternFile \/ AddEvent \/ AddGroup \/ FileDone \/ CheckPartitions
           \/ EmptyFile \/ RefuseEvent \/ RefuseGroup \/ RefusePartitions
           \/ ExtendWithPolymarket \/ WithoutPolymarket
           \/ phase' \in {"trading", phase}
              /\ UNCHANGED <<source, origin, cursor, tableVars>>
    BY <1>2, PromotedSteps
  <2>3. Written(source.events, o)'
    BY <2>1, <2>2
  <2>4. ReadAsWritten' /\ RefusedForLadder'
    <3>1. CASE InternFile
      <4>1. phase' = "groups"
        BY <3>1 DEF InternFile
      <4> QED  BY <3>1, <4>1, WrittenIntern DEF RefusedForLadder
    <3>2. CASE AddEvent
      <4>1. phase' = "groups"
        BY <3>2 DEF AddEvent, AtEvent, Reading
      <4> QED  BY <1>2, <2>1, <3>2, <4>1, WrittenAddEvent DEF RefusedForLadder
    <3>3. CASE AddGroup
      <4>1. phase' = "groups"
        BY <3>3 DEF AddGroup, AtGroup, Reading
      <4> QED  BY <1>2, <2>1, <3>3, <4>1, WrittenAddGroup DEF RefusedForLadder
    <3>4. CASE FileDone \/ CheckPartitions
      BY <1>2, <2>1, <3>4, WrittenChecked DEF RefusedForLadder
    <3>5. CASE phase' = "refused" /\ (o.groups = <<>> \/ SomeUpper(o))
      BY <2>2, <3>5 DEF ReadAsWritten, RefusedForLadder
    <3>6. CASE EmptyFile
      <4>1. phase' = "refused" /\ o.groups = <<>>
        BY <2>1, <3>6, NotEmpty DEF EmptyFile, Refuse
      <4> QED  BY <3>5, <4>1
    <3>7. CASE RefuseEvent
      BY <1>2, <2>1, <3>7, EventTaken
    <3>8. CASE RefuseGroup
      <4>1. phase' = "refused" /\ SomeUpper(o)
        BY <1>2, <2>1, <3>8, GroupTaken DEF RefuseGroup, Refuse
      <4> QED  BY <3>5, <4>1
    <3>9. CASE RefusePartitions
      <4>1. phase = "check" /\ Overlap(Partitions)
        BY <3>9 DEF RefusePartitions, Conflict
      <4> QED  BY <2>1, <4>1 DEF ReadAsWritten
    <3>10. CASE ExtendWithPolymarket \/ WithoutPolymarket
      <4>1. phase = "polymarket" /\ phase' = Started
        BY <3>10 DEF ExtendWithPolymarket, WithoutPolymarket
      <4>2. CASE tickers["Kalshi"] = <<>>
        <5>1. phase' = "refused"
          BY <4>1, <4>2 DEF Started
        <5>2. o.groups = <<>>
          BY <2>1, <4>1, <4>2, KalshiTraded
        <5> QED  BY <3>5, <5>1, <5>2
      <4>3. CASE tickers["Kalshi"] # <<>>
        <5>1. phase' = "ready"
          BY <4>1, <4>3 DEF Started
        <5> QED  BY <5>1 DEF ReadAsWritten, RefusedForLadder
      <4> QED  BY <4>2, <4>3
    <3>11. CASE phase' \in {"trading", phase} /\ UNCHANGED <<source, origin, cursor, tableVars>>
      <4>1. CASE phase' = "trading"
        BY <4>1 DEF ReadAsWritten, RefusedForLadder
      <4>2. CASE phase' = phase
        <5>1. /\ source' = source /\ origin' = origin /\ cursor' = cursor /\ events' = events
              /\ binding' = binding /\ groups' = groups /\ interned' = interned
          BY <3>11 DEF tableVars
        <5>2. RefusedForLadder'
          BY <2>1, <4>2, <5>1 DEF RefusedForLadder
        <5>3. ReadAsWritten'
          BY <2>1, <4>2, <5>1 DEF ReadAsWritten, KeysRead, BoundAsWritten, GroupsAsWritten, ReadYet,
                                  Overlap, Partitions
        <5> QED  BY <5>2, <5>3
      <4> QED  BY <3>11, <4>1, <4>2
    <3> QED  BY <2>2, <3>1, <3>2, <3>3, <3>4, <3>6, <3>7, <3>8, <3>9, <3>10, <3>11
  <2> QED  BY <1>1, <2>3, <2>4 DEF PromoInv
<1>3. CASE ~Promoted
  <2>1. CASE Promote
    <3> DEFINE o == [listing |-> source, groups |-> groups, interned |-> interned]
    <3>1. /\ phase = "polymarket" /\ OfListing /\ source'.events = RenderedEvents
          /\ origin' = <<o>> /\ phase' = "intern"
      BY <2>1 DEF Promote, OfListing
    <3>2. Written(RenderedEvents, o)
      BY <1>1, <3>1, PromotedIsWritten
    <3> HIDE DEF o
    <3>3. origin'[1] = o
      BY <3>1
    <3>4. Written(source.events, origin[1])'
      BY <3>1, <3>2, <3>3
    <3>5. ReadAsWritten' /\ RefusedForLadder'
      BY <3>1 DEF ReadAsWritten, RefusedForLadder
    <3> QED  BY <1>1, <3>4, <3>5 DEF PromoInv
  <2>2. CASE ~Promote
    <3>1. origin' = origin
      <4>1. CASE ExtendWithPolymarket
        BY <4>1 DEF ExtendWithPolymarket
      <4>2. CASE \/ InternFile \/ AddEvent \/ AddGroup \/ AddListedEvents \/ InternListed
                 \/ AddInferred
        BY <4>2 DEF InternFile, AddEvent, AddGroup, AddListedEvents, InternListed, AddInferred
      <4>3. CASE MovesPhase \/ UNCHANGED registryVars
        BY <4>3 DEF MovesPhase, registryVars
      <4> QED  BY <2>2, <4>1, <4>2, <4>3, StepKinds
    <3>2. ~Promoted'
      BY <1>3, <3>1 DEF Promoted
    <3> QED  BY <1>1, <3>2 DEF PromoInv
  <2> QED  BY <2>1, <2>2
<1> QED  BY <1>2, <1>3

LEMMA PromoInit ==
    ASSUME Init
    PROVE  PromoInv
<1>1. origin = <<>> /\ phase \in {"intern", "events"}
  BY DEF Init, RegistryInit
<1> QED  BY <1>1 DEF PromoInv, ShapesListed, Promoted

LEMMA PromotionKept ==
    ASSUME PromoInv
    PROVE  PromotionKeepsGroups
<1> SUFFICES ASSUME Promoted PROVE PromotionKeepsGroups
  BY DEF PromotionKeepsGroups
<1> DEFINE o == origin[1]
           evs == source.events
<1>1. Written(evs, o) /\ ReadAsWritten /\ RefusedForLadder
  BY DEF PromoInv
<1>2. ASSUME phase = "polymarket"
      PROVE  SameGroups(o.groups, o.interned, groups)
  <2>1. \A p \in Entries(evs) : ReadYet(p)
    BY <1>2 DEF ReadYet
  <2>2. /\ \A g \in DOMAIN groups : \E p \in Entries(evs) :
               Named(groups[g], interned) = NamedAt(evs, p)
        /\ \A p \in Entries(evs) : \E g \in DOMAIN groups :
               Named(groups[g], interned) = NamedAt(evs, p)
    BY <1>1, <1>2, <2>1 DEF ReadAsWritten, GroupsAsWritten
  <2>3. /\ \A p \in Entries(evs) : \E k \in DOMAIN o.groups :
               NamedAt(evs, p) = Named(o.groups[k], o.interned)
        /\ \A k \in DOMAIN o.groups : \E p \in Entries(evs) :
               NamedAt(evs, p) = Named(o.groups[k], o.interned)
    BY <1>1 DEF Written
  <2> HIDE DEF o, evs
  <2>4. {Named(o.groups[k], o.interned) : k \in DOMAIN o.groups}
            = {Named(groups[k], interned) : k \in DOMAIN groups}
    <3>1. \A k \in DOMAIN o.groups : \E g \in DOMAIN groups :
              Named(o.groups[k], o.interned) = Named(groups[g], interned)
      BY <2>2, <2>3
    <3>2. \A g \in DOMAIN groups : \E k \in DOMAIN o.groups :
              Named(o.groups[k], o.interned) = Named(groups[g], interned)
      BY <2>2, <2>3
    <3> QED  BY <3>1, <3>2
  <2> QED  BY <2>4 DEF SameGroups, Named
<1>3. ASSUME phase = "refused", o.groups # <<>>
      PROVE  \E k \in DOMAIN o.groups : UpperLadder(o.listing, o.groups[k], o.interned)
  BY <1>1, <1>3 DEF RefusedForLadder, SomeUpper
<1> QED  BY <1>2, <1>3 DEF PromotionKeepsGroups

(* What discovery wrote is what a start reads: a promoted file comes back  *)
(* as the groups it was written from, contract for contract and in order,  *)
(* and is refused only for a ladder of upper strikes (render_registry_toml *)
(* in main.rs, Registry::parse and check_ladder_order in registry.rs).     *)
THEOREM ArbitragePromotion == Spec => []PromotionKeepsGroups
<1>1. Init => PromoInv
  BY PromoInit
<1>2. LoadInv /\ PromoInv /\ [Next]_vars => PromoInv'
  BY PromoStep
<1>3. PromoInv => PromotionKeepsGroups
  BY PromotionKept
<1> QED  BY <1>1, <1>2, <1>3, LoadInvariant, PTL DEF Spec
=============================================================================
