----------------------------- MODULE DataLemmas -----------------------------
(***************************************************************************)
(* Lemmas about the data of the models.  The least and the greatest of a   *)
(* set of numbers; SumFunctionOnSet, the sum of a function's values over a *)
(* finite set, in which every amount of money is stated; the selections    *)
(* and stable sorts of Places; sequences joined.  The induction theorems   *)
(* of the library take an operator and cannot be instantiated; here        *)
(* induction is a least element of a set of naturals, and the predicate is *)
(* the set of the subsets that have it.                                    *)
(***************************************************************************)
EXTENDS Integers, FiniteSets, Functions, Places, SequencesExt, FiniteSetTheorems,
        FunctionTheorems, WellFoundedInduction, TLAPS

(* A non-empty set of naturals has a least element.                        *)
LEMMA LeastNatural ==
    ASSUME NEW T, T \subseteq Nat, T # {}
    PROVE  \E x \in T : \A y \in T : x <= y
<1> DEFINE R == OpToRel(<, Nat)
<1>1. IsWellFoundedOn(R, Nat)
  BY NatLessThanWellFounded
<1>2. \A x, y \in Nat : y < x => <<y, x>> \in R
  BY DEF OpToRel
<1> HIDE DEF R
<1>3. PICK x \in T : \A y \in T : ~ (<<y, x>> \in R)
  BY <1>1, WFMin
<1>4. ASSUME NEW y \in T
      PROVE  x <= y
  <2>1. x \in Nat /\ y \in Nat
    OBVIOUS
  <2>2. ~ (y < x)
    BY <2>1, <1>2, <1>3
  <2> QED  BY <2>1, <2>2
<1> QED  BY <1>4

(* Induction over a finite set: a family that has the empty set, and every *)
(* subset each of whose elements leaves a member, has all the subsets.     *)
LEMMA FiniteInduction ==
    ASSUME NEW S, IsFiniteSet(S), NEW Good, {} \in Good,
           \A s \in SUBSET S : s # {} /\ (\A x \in s : s \ {x} \in Good) => s \in Good
    PROVE  \A s \in SUBSET S : s \in Good
<1> DEFINE Bad == {n \in Nat : \E s \in SUBSET S : Cardinality(s) = n /\ s \notin Good}
<1>1. SUFFICES ASSUME NEW t \in SUBSET S, t \notin Good PROVE FALSE
  OBVIOUS
<1>2. \A s \in SUBSET S : IsFiniteSet(s) /\ Cardinality(s) \in Nat
  BY FS_Subset, FS_CardinalityType
<1>3. Bad # {}
  BY <1>1, <1>2
<1>4. PICK n \in Bad : \A m \in Bad : n <= m
  BY <1>3, LeastNatural
<1>5. PICK s \in SUBSET S : Cardinality(s) = n /\ s \notin Good
  BY <1>4
<1>6. ASSUME NEW x \in s
      PROVE  s \ {x} \in Good
  <2>1. IsFiniteSet(s) /\ s \ {x} \in SUBSET S
    BY <1>2
  <2>2. Cardinality(s \ {x}) = n - 1
    BY <1>5, <2>1, FS_RemoveElement
  <2>3. Cardinality(s \ {x}) \in Nat
    BY <1>2, <2>1
  <2> QED  BY <1>4, <2>1, <2>2, <2>3
<1> QED  BY <1>5, <1>6

(* A finite set of naturals that is not empty has a greatest one.          *)
LEMMA GreatestNatural ==
    ASSUME NEW S, IsFiniteSet(S), S # {}, S \subseteq Nat
    PROVE  \E x \in S : \A y \in S : x >= y
<1> DEFINE Good == {s \in SUBSET S : s = {} \/ \E x \in s : \A y \in s : x >= y}
<1>1. {} \in Good
  OBVIOUS
<1>2. ASSUME NEW s \in SUBSET S, s # {}, \A x \in s : s \ {x} \in Good
      PROVE  s \in Good
  <2>1. PICK x \in s : TRUE
    BY <1>2
  <2>2. CASE s \ {x} = {}
    <3>1. \A y \in s : x >= y
      BY <2>1, <2>2
    <3> QED  BY <2>1, <3>1
  <2>3. CASE s \ {x} # {}
    <3>1. PICK z \in s \ {x} : \A y \in s \ {x} : z >= y
      BY <1>2, <2>3
    <3>2. CASE z >= x
      BY <3>1, <3>2
    <3>3. CASE x >= z
      <4>1. \A y \in s : x >= y
        BY <2>1, <3>1, <3>3
      <4> QED  BY <2>1, <4>1
    <3>4. z \in Nat /\ x \in Nat
      BY <2>1
    <3> QED  BY <3>2, <3>3, <3>4
  <2> QED  BY <2>2, <2>3
<1>3. S \in Good
  <2> HIDE DEF Good
  <2>1. \A s \in SUBSET S : s # {} /\ (\A x \in s : s \ {x} \in Good) => s \in Good
    BY <1>2
  <2>2. \A s \in SUBSET S : s \in Good
    BY <1>1, <2>1, FiniteInduction
  <2> QED  BY <2>2
<1> QED  BY <1>3

-----------------------------------------------------------------------------
(* What the fold of SumFunctionOnSet is: the function on the subsets of S  *)
(* that takes one chosen element after the other.                          *)
Chosen(s) == CHOOSE x \in s : TRUE
OneMore(g, f, s) == IF s = {} THEN 0 ELSE f[Chosen(s)] + g[s \ {Chosen(s)}]
IsSum(g, f, S) == g = [s \in SUBSET S |-> OneMore(g, f, s)]

(* The recursive function of the fold exists: the smallest number up to    *)
(* which it does not is not 0, and is no successor.                        *)
IsSumUpTo(g, f, S, n) ==
    \A s \in SUBSET S : Cardinality(s) <= n => g[s] = OneMore(g, f, s)

LEMMA SumExists ==
    ASSUME NEW f, NEW S, IsFiniteSet(S)
    PROVE  \E g : IsSum(g, f, S)
<1> DEFINE Bad == {n \in Nat : ~\E g : IsSumUpTo(g, f, S, n)}
<1>1. \A s \in SUBSET S : /\ IsFiniteSet(s) /\ Cardinality(s) \in Nat
                          /\ Cardinality(s) <= Cardinality(S)
  BY FS_Subset, FS_CardinalityType
<1>2. \A s \in SUBSET S : s # {} => /\ Chosen(s) \in s
                                    /\ Cardinality(s \ {Chosen(s)}) = Cardinality(s) - 1
  BY <1>1, FS_RemoveElement DEF Chosen
<1>3. ASSUME NEW n \in Bad, \A m \in Bad : n <= m
      PROVE  FALSE
  <2>1. CASE n = 0
    <3>1. \A s \in SUBSET S : Cardinality(s) <= 0 => s = {}
      BY <1>1, FS_EmptySet
    <3>2. IsSumUpTo([s \in SUBSET S |-> 0], f, S, 0)
      BY <3>1 DEF IsSumUpTo, OneMore
    <3> QED  BY <2>1, <3>2
  <2>2. CASE n # 0
    <3>1. n \in Nat /\ n - 1 \in Nat
      BY <2>2
    <3>2. n - 1 \notin Bad
      BY <1>3, <3>1
    <3>3. PICK g : IsSumUpTo(g, f, S, n - 1)
      BY <3>1, <3>2
    <3> DEFINE h == [s \in SUBSET S |-> OneMore(g, f, s)]
    <3>4. ASSUME NEW s \in SUBSET S, Cardinality(s) <= n, s # {}
          PROVE  h[s] = f[Chosen(s)] + h[s \ {Chosen(s)}]
      <4> DEFINE t == s \ {Chosen(s)}
      <4>1. t \in SUBSET S /\ Cardinality(t) <= n - 1
        BY <1>1, <1>2, <3>1, <3>4
      <4>2. h[t] = g[t]
        BY <3>3, <4>1 DEF IsSumUpTo
      <4>3. h[s] = f[Chosen(s)] + g[t]
        BY <3>4 DEF OneMore
      <4> QED  BY <4>2, <4>3
    <3>5. IsSumUpTo(h, f, S, n)
      <4>1. h[{}] = 0
        BY DEF OneMore
      <4> QED  BY <3>4, <4>1 DEF IsSumUpTo, OneMore
    <3> QED  BY <3>5
  <2> QED  BY <2>1, <2>2
<1>4. Bad = {}
  BY <1>3, LeastNatural
<1>5. Cardinality(S) \in Nat
  BY <1>1
<1>6. PICK g : IsSumUpTo(g, f, S, Cardinality(S))
  BY <1>4, <1>5
<1> DEFINE h == [s \in SUBSET S |-> g[s]]
<1>7. ASSUME NEW s \in SUBSET S
      PROVE  h[s] = OneMore(h, f, s)
  BY <1>1, <1>6 DEF IsSumUpTo, OneMore
<1>8. h = [s \in SUBSET S |-> OneMore(h, f, s)]
  BY <1>7
<1> QED  BY <1>8 DEF IsSum

(* So the sum is what that function says of the whole set.                 *)
LEMMA SumIsSum ==
    ASSUME NEW f, NEW S, IsFiniteSet(S)
    PROVE  \E g : IsSum(g, f, S) /\ SumFunctionOnSet(f, S) = g[S]
<1> DEFINE G == CHOOSE g : g = [s \in SUBSET S |->
                     IF s = {} THEN 0 ELSE f[CHOOSE x \in s : TRUE] + g[s \ {CHOOSE x \in s : TRUE}]]
<1>1. \E g : g = [s \in SUBSET S |->
                     IF s = {} THEN 0 ELSE f[CHOOSE x \in s : TRUE] + g[s \ {CHOOSE x \in s : TRUE}]]
  <2>1. PICK g : IsSum(g, f, S)
    BY SumExists
  <2>2. g = [s \in SUBSET S |->
                IF s = {} THEN 0 ELSE f[CHOOSE x \in s : TRUE] + g[s \ {CHOOSE x \in s : TRUE}]]
    BY <2>1, Zenon DEF IsSum, OneMore, Chosen
  <2> QED  BY <2>2
<1>2. SumFunctionOnSet(f, S) = G[S]
  BY DEF SumFunctionOnSet, FoldFunctionOnSet, MapThenFoldSet
<1>3. IsSum(G, f, S)
  BY <1>1 DEF IsSum, OneMore, Chosen
<1> QED  BY <1>2, <1>3
-----------------------------------------------------------------------------
(* A sum depends on nothing but the values summed.                         *)
LEMMA SumUnique ==
    ASSUME NEW S, NEW T, IsFiniteSet(S), S \subseteq T,
           NEW f, NEW g, \A x \in S : f[x] = g[x],
           NEW F, IsSum(F, f, S), NEW G, IsSum(G, g, T)
    PROVE  \A s \in SUBSET S : F[s] = G[s]
<1> DEFINE Good == {s \in SUBSET S : F[s] = G[s]}
<1>1. \A s \in SUBSET S : F[s] = OneMore(F, f, s) /\ G[s] = OneMore(G, g, s)
  BY DEF IsSum
<1>2. {} \in Good
  BY <1>1 DEF OneMore
<1>3. ASSUME NEW s \in SUBSET S, s # {}, \A x \in s : s \ {x} \in Good
      PROVE  s \in Good
  <2>1. Chosen(s) \in s
    BY <1>3 DEF Chosen
  <2>2. F[s \ {Chosen(s)}] = G[s \ {Chosen(s)}]
    BY <1>3, <2>1
  <2> QED  BY <1>1, <1>3, <2>1, <2>2 DEF OneMore
<1> HIDE DEF Good
<1>4. \A s \in SUBSET S : s \in Good
  BY <1>2, <1>3, FiniteInduction
<1> QED  BY <1>4 DEF Good

LEMMA SumSame ==
    ASSUME NEW S, IsFiniteSet(S), NEW f, NEW g, \A x \in S : f[x] = g[x]
    PROVE  SumFunctionOnSet(f, S) = SumFunctionOnSet(g, S)
<1>1. PICK F : IsSum(F, f, S) /\ SumFunctionOnSet(f, S) = F[S]
  BY SumIsSum
<1>2. PICK G : IsSum(G, g, S) /\ SumFunctionOnSet(g, S) = G[S]
  BY SumIsSum
<1>3. \A s \in SUBSET S : F[s] = G[s]
  BY <1>1, <1>2, SumUnique
<1> QED  BY <1>1, <1>2, <1>3

LEMMA SumEmpty ==
    ASSUME NEW f
    PROVE  SumFunctionOnSet(f, {}) = 0
<1>1. PICK F : IsSum(F, f, {}) /\ SumFunctionOnSet(f, {}) = F[{}]
  BY SumIsSum, FS_EmptySet
<1>2. F[{}] = OneMore(F, f, {})
  BY <1>1 DEF IsSum
<1> QED  BY <1>1, <1>2 DEF OneMore

(* A sum of integers may be taken in any order: whatever element is set    *)
(* aside, the rest adds up to what is missing.                             *)
LEMMA SumIsInt ==
    ASSUME NEW S, IsFiniteSet(S), NEW f, \A x \in S : f[x] \in Int,
           NEW F, IsSum(F, f, S)
    PROVE  \A s \in SUBSET S : F[s] \in Int
<1> DEFINE Good == {s \in SUBSET S : F[s] \in Int}
<1>1. \A s \in SUBSET S : F[s] = OneMore(F, f, s)
  BY DEF IsSum
<1>2. {} \in Good
  BY <1>1 DEF OneMore
<1>3. ASSUME NEW s \in SUBSET S, s # {}, \A x \in s : s \ {x} \in Good
      PROVE  s \in Good
  <2>1. Chosen(s) \in s
    BY <1>3 DEF Chosen
  <2>2. f[Chosen(s)] \in Int /\ F[s \ {Chosen(s)}] \in Int
    BY <1>3, <2>1
  <2>3. F[s] = f[Chosen(s)] + F[s \ {Chosen(s)}]
    BY <1>1, <1>3 DEF OneMore
  <2> QED  BY <2>2, <2>3
<1> HIDE DEF Good
<1>4. \A s \in SUBSET S : s \in Good
  BY <1>2, <1>3, FiniteInduction
<1> QED  BY <1>4 DEF Good

LEMMA SumInAnyOrder ==
    ASSUME NEW S, IsFiniteSet(S), NEW f, \A x \in S : f[x] \in Int,
           NEW F, IsSum(F, f, S)
    PROVE  \A x \in S : F[S] = f[x] + F[S \ {x}]
<1> DEFINE Good == {s \in SUBSET S : \A x \in s : F[s] = f[x] + F[s \ {x}]}
<1>1. \A s \in SUBSET S : F[s] = OneMore(F, f, s) /\ F[s] \in Int
  BY SumIsInt DEF IsSum
<1>2. {} \in Good
  OBVIOUS
<1>3. ASSUME NEW s \in SUBSET S, s # {}, \A x \in s : s \ {x} \in Good
      PROVE  s \in Good
  <2> DEFINE c == Chosen(s)
  <2>1. c \in s /\ F[s] = f[c] + F[s \ {c}]
    BY <1>1, <1>3 DEF Chosen, OneMore
  <2>2. ASSUME NEW x \in s, x # c
        PROVE  F[s] = f[x] + F[s \ {x}]
    <3> DEFINE r == (s \ {c}) \ {x}
    <3>1. F[s \ {c}] = f[x] + F[r]
      BY <1>3, <2>1, <2>2
    <3>2. (s \ {x}) \ {c} = r
      OBVIOUS
    <3>3. F[s \ {x}] = f[c] + F[r]
      BY <1>3, <2>1, <2>2, <3>2
    <3>4. f[x] \in Int /\ f[c] \in Int /\ F[r] \in Int
      BY <1>1, <2>1
    <3> HIDE DEF c, r
    <3> QED  BY <2>1, <3>1, <3>3, <3>4
  <2> QED  BY <2>1, <2>2
<1> HIDE DEF Good
<1>4. \A s \in SUBSET S : s \in Good
  BY <1>2, <1>3, FiniteInduction
<1>5. S \in Good
  BY <1>4
<1> QED  BY <1>5 DEF Good

LEMMA SumRemove ==
    ASSUME NEW S, IsFiniteSet(S), NEW f, \A x \in S : f[x] \in Int, NEW y \in S
    PROVE  /\ SumFunctionOnSet(f, S) \in Int
           /\ SumFunctionOnSet(f, S \ {y}) \in Int
           /\ SumFunctionOnSet(f, S) = f[y] + SumFunctionOnSet(f, S \ {y})
<1> DEFINE R == S \ {y}
<1>1. IsFiniteSet(R) /\ R \subseteq S
  BY FS_RemoveElement
<1> HIDE DEF R
<1>2. PICK F : IsSum(F, f, S) /\ SumFunctionOnSet(f, S) = F[S]
  BY SumIsSum
<1>3. PICK G : IsSum(G, f, R) /\ SumFunctionOnSet(f, R) = G[R]
  BY <1>1, SumIsSum
<1>4. G[R] = F[R]
  <2>1. IsSum(F, f, S) /\ IsSum(G, f, R) /\ \A x \in R : f[x] = f[x]
    BY <1>2, <1>3
  <2>2. \A s \in SUBSET R : G[s] = F[s]
    BY <1>1, <2>1, SumUnique
  <2> QED  BY <2>2
<1>5. F[S] \in Int /\ F[R] \in Int
  BY <1>1, <1>2, SumIsInt
<1>6. F[S] = f[y] + F[S \ {y}]
  BY <1>2, SumInAnyOrder
<1> QED  BY <1>2, <1>3, <1>4, <1>5, <1>6 DEF R
(* The sum of one more element, and with the value of one changed.         *)
LEMMA SumAdd ==
    ASSUME NEW S, IsFiniteSet(S), NEW y, y \notin S,
           NEW f, \A x \in S \cup {y} : f[x] \in Int
    PROVE  /\ SumFunctionOnSet(f, S) \in Int
           /\ SumFunctionOnSet(f, S \cup {y}) = SumFunctionOnSet(f, S) + f[y]
<1>1. IsFiniteSet(S \cup {y}) /\ y \in S \cup {y} /\ (S \cup {y}) \ {y} = S
  BY FS_AddElement
<1>2. /\ SumFunctionOnSet(f, (S \cup {y}) \ {y}) \in Int
      /\ SumFunctionOnSet(f, S \cup {y}) = f[y] + SumFunctionOnSet(f, (S \cup {y}) \ {y})
  BY <1>1, SumRemove
<1>3. \A m, n \in Int : m + n = n + m
  OBVIOUS
<1>4. f[y] \in Int
  OBVIOUS
<1> QED  BY <1>1, <1>2, <1>3, <1>4

LEMMA SumChange ==
    ASSUME NEW S, IsFiniteSet(S), NEW y \in S,
           NEW f, \A x \in S : f[x] \in Int,
           NEW g, \A x \in S : g[x] \in Int, \A x \in S \ {y} : g[x] = f[x]
    PROVE  SumFunctionOnSet(g, S) = SumFunctionOnSet(f, S) - f[y] + g[y]
<1>1. IsFiniteSet(S \ {y})
  BY FS_RemoveElement
<1>2. SumFunctionOnSet(g, S \ {y}) = SumFunctionOnSet(f, S \ {y})
  BY <1>1, SumSame
<1>3. /\ SumFunctionOnSet(f, S \ {y}) \in Int
      /\ SumFunctionOnSet(f, S) = f[y] + SumFunctionOnSet(f, S \ {y})
  BY SumRemove
<1>4. SumFunctionOnSet(g, S) = g[y] + SumFunctionOnSet(g, S \ {y})
  BY SumRemove
<1> QED  BY <1>2, <1>3, <1>4

LEMMA SumInt ==
    ASSUME NEW S, IsFiniteSet(S), NEW f, \A x \in S : f[x] \in Int
    PROVE  SumFunctionOnSet(f, S) \in Int
<1>1. CASE S = {}
  BY <1>1, SumEmpty
<1>2. CASE S # {}
  BY <1>2, SumRemove
<1> QED  BY <1>1, <1>2

(* What holds of the values holds of the sum: it is at least 0 if they     *)
(* are, it is ordered as they are, and it adds up as they do.              *)
LEMMA SumLeq ==
    ASSUME NEW S, IsFiniteSet(S),
           NEW f, \A x \in S : f[x] \in Int,
           NEW g, \A x \in S : g[x] \in Int /\ f[x] <= g[x]
    PROVE  SumFunctionOnSet(f, S) <= SumFunctionOnSet(g, S)
<1> DEFINE Good == {s \in SUBSET S : SumFunctionOnSet(f, s) <= SumFunctionOnSet(g, s)}
<1>1. {} \in Good
  BY SumEmpty
<1>2. ASSUME NEW s \in SUBSET S, s # {}, \A x \in s : s \ {x} \in Good
      PROVE  s \in Good
  <2>1. PICK y \in s : TRUE
    BY <1>2
  <2>2. IsFiniteSet(s)
    BY FS_Subset
  <2>3. /\ SumFunctionOnSet(f, s \ {y}) \in Int
        /\ SumFunctionOnSet(f, s) = f[y] + SumFunctionOnSet(f, s \ {y})
    BY <2>1, <2>2, SumRemove
  <2>4. /\ SumFunctionOnSet(g, s \ {y}) \in Int
        /\ SumFunctionOnSet(g, s) = g[y] + SumFunctionOnSet(g, s \ {y})
    BY <2>1, <2>2, SumRemove
  <2>5. SumFunctionOnSet(f, s \ {y}) <= SumFunctionOnSet(g, s \ {y})
    BY <1>2, <2>1
  <2>6. f[y] \in Int /\ g[y] \in Int /\ f[y] <= g[y]
    BY <2>1
  <2> QED  BY <2>3, <2>4, <2>5, <2>6
<1> HIDE DEF Good
<1>3. \A s \in SUBSET S : s \in Good
  BY <1>1, <1>2, FiniteInduction
<1>4. S \in Good
  BY <1>3
<1> QED  BY <1>4 DEF Good

LEMMA SumPlus ==
    ASSUME NEW S, IsFiniteSet(S),
           NEW f, \A x \in S : f[x] \in Int,
           NEW g, \A x \in S : g[x] \in Int,
           NEW h, \A x \in S : h[x] = f[x] + g[x]
    PROVE  SumFunctionOnSet(h, S) = SumFunctionOnSet(f, S) + SumFunctionOnSet(g, S)
<1> DEFINE Good == {s \in SUBSET S : SumFunctionOnSet(h, s)
                                = SumFunctionOnSet(f, s) + SumFunctionOnSet(g, s)}
<1>1. {} \in Good
  BY SumEmpty
<1>2. ASSUME NEW s \in SUBSET S, s # {}, \A x \in s : s \ {x} \in Good
      PROVE  s \in Good
  <2>1. PICK y \in s : TRUE
    BY <1>2
  <2>2. IsFiniteSet(s)
    BY FS_Subset
  <2>3. /\ SumFunctionOnSet(f, s \ {y}) \in Int
        /\ SumFunctionOnSet(f, s) = f[y] + SumFunctionOnSet(f, s \ {y})
    BY <2>1, <2>2, SumRemove
  <2>4. /\ SumFunctionOnSet(g, s \ {y}) \in Int
        /\ SumFunctionOnSet(g, s) = g[y] + SumFunctionOnSet(g, s \ {y})
    BY <2>1, <2>2, SumRemove
  <2>5. SumFunctionOnSet(h, s) = h[y] + SumFunctionOnSet(h, s \ {y})
    <3>1. \A x \in s : h[x] \in Int
      OBVIOUS
    <3> QED  BY <2>1, <2>2, <3>1, SumRemove
  <2>6. SumFunctionOnSet(h, s \ {y}) = SumFunctionOnSet(f, s \ {y}) + SumFunctionOnSet(g, s \ {y})
    BY <1>2, <2>1
  <2>7. f[y] \in Int /\ g[y] \in Int /\ h[y] = f[y] + g[y]
    BY <2>1
  <2> QED  BY <2>3, <2>4, <2>5, <2>6, <2>7
<1> HIDE DEF Good
<1>3. \A s \in SUBSET S : s \in Good
  BY <1>1, <1>2, FiniteInduction
<1>4. S \in Good
  BY <1>3
<1> QED  BY <1>4 DEF Good

LEMMA SumZero ==
    ASSUME NEW S, IsFiniteSet(S), NEW f, \A x \in S : f[x] = 0
    PROVE  SumFunctionOnSet(f, S) = 0
<1>1. \A x \in S : f[x] \in Int /\ f[x] = f[x] + f[x]
  OBVIOUS
<1>2. SumFunctionOnSet(f, S) = SumFunctionOnSet(f, S) + SumFunctionOnSet(f, S)
  BY <1>1, SumPlus
<1>3. SumFunctionOnSet(f, S) \in Int
  BY <1>1, SumInt
<1>4. \A n \in Int : n = n + n => n = 0
  OBVIOUS
<1> QED  BY <1>2, <1>3, <1>4

LEMMA SumNat ==
    ASSUME NEW S, IsFiniteSet(S), NEW f, \A x \in S : f[x] \in Nat
    PROVE  SumFunctionOnSet(f, S) \in Nat
<1> DEFINE z == [x \in S |-> 0]
<1>1. SumFunctionOnSet(z, S) = 0
  BY SumZero
<1>2. \A x \in S : f[x] \in Int /\ z[x] \in Int /\ z[x] <= f[x]
  OBVIOUS
<1> HIDE DEF z
<1>3. SumFunctionOnSet(z, S) <= SumFunctionOnSet(f, S)
  BY <1>2, SumLeq
<1>4. SumFunctionOnSet(f, S) \in Int
  BY <1>2, SumInt
<1> QED  BY <1>1, <1>3, <1>4

(* A sum over a set is the sum over a part of it and over the rest.        *)
LEMMA SumSplit ==
    ASSUME NEW S, IsFiniteSet(S), NEW T \in SUBSET S, NEW f, \A x \in S : f[x] \in Int
    PROVE  SumFunctionOnSet(f, S) = SumFunctionOnSet(f, T) + SumFunctionOnSet(f, S \ T)
<1> DEFINE Rest == S \ T
           Good == {s \in SUBSET T : SumFunctionOnSet(f, Rest \cup s)
                                = SumFunctionOnSet(f, s) + SumFunctionOnSet(f, Rest)}
<1>1. IsFiniteSet(T) /\ IsFiniteSet(Rest)
  BY FS_Subset
<1>2. SumFunctionOnSet(f, Rest) \in Int
  BY <1>1, SumInt
<1>3. {} \in Good
  <2>1. Rest \cup {} = Rest
    OBVIOUS
  <2> QED  BY <1>2, <2>1, SumEmpty
<1>4. ASSUME NEW s \in SUBSET T, s # {}, \A x \in s : s \ {x} \in Good
      PROVE  s \in Good
  <2>1. PICK y \in s : TRUE
    BY <1>4
  <2>2. IsFiniteSet(s) /\ IsFiniteSet(Rest \cup s)
    BY <1>1, FS_Subset
  <2>3. /\ SumFunctionOnSet(f, s \ {y}) \in Int
        /\ SumFunctionOnSet(f, s) = f[y] + SumFunctionOnSet(f, s \ {y})
    BY <2>1, <2>2, SumRemove
  <2>4. (Rest \cup s) \ {y} = Rest \cup (s \ {y})
    BY <2>1
  <2>5. SumFunctionOnSet(f, Rest \cup s) = f[y] + SumFunctionOnSet(f, Rest \cup (s \ {y}))
    <3>1. y \in Rest \cup s /\ \A x \in Rest \cup s : f[x] \in Int
      BY <2>1
    <3> HIDE DEF Rest
    <3>2. SumFunctionOnSet(f, Rest \cup s) = f[y] + SumFunctionOnSet(f, (Rest \cup s) \ {y})
      BY <2>2, <3>1, SumRemove
    <3> QED  BY <2>4, <3>2
  <2>6. SumFunctionOnSet(f, Rest \cup (s \ {y}))
            = SumFunctionOnSet(f, s \ {y}) + SumFunctionOnSet(f, Rest)
    BY <1>4, <2>1
  <2>7. f[y] \in Int
    BY <2>1
  <2> HIDE DEF Rest
  <2>8. \A a, b, c \in Int : a + (b + c) = (a + b) + c
    OBVIOUS
  <2>9. SumFunctionOnSet(f, Rest \cup s) = SumFunctionOnSet(f, s) + SumFunctionOnSet(f, Rest)
    BY <1>2, <2>3, <2>5, <2>6, <2>7, <2>8
  <2> QED  BY <2>9
<1> HIDE DEF Good
<1>5. \A s \in SUBSET T : s \in Good
  BY <1>1, <1>3, <1>4, FiniteInduction
<1>6. T \in Good /\ Rest \cup T = S
  BY <1>5
<1> QED  BY <1>6 DEF Good

(* A factor common to all the values is one of the sum.                    *)
LEMMA SumScale ==
    ASSUME NEW S, IsFiniteSet(S), NEW c \in Int,
           NEW f, \A x \in S : f[x] \in Int,
           NEW g, \A x \in S : g[x] = c * f[x]
    PROVE  SumFunctionOnSet(g, S) = c * SumFunctionOnSet(f, S)
<1> DEFINE Good == {s \in SUBSET S : SumFunctionOnSet(g, s) = c * SumFunctionOnSet(f, s)}
<1>1. {} \in Good
  BY SumEmpty
<1>2. ASSUME NEW s \in SUBSET S, s # {}, \A x \in s : s \ {x} \in Good
      PROVE  s \in Good
  <2>1. PICK y \in s : TRUE
    BY <1>2
  <2>2. IsFiniteSet(s)
    BY FS_Subset
  <2>3. /\ SumFunctionOnSet(f, s \ {y}) \in Int
        /\ SumFunctionOnSet(f, s) = f[y] + SumFunctionOnSet(f, s \ {y})
    BY <2>1, <2>2, SumRemove
  <2>4. \A x \in s : g[x] \in Int
    OBVIOUS
  <2>5. SumFunctionOnSet(g, s) = g[y] + SumFunctionOnSet(g, s \ {y})
    BY <2>1, <2>2, <2>4, SumRemove
  <2>6. SumFunctionOnSet(g, s \ {y}) = c * SumFunctionOnSet(f, s \ {y})
    BY <1>2, <2>1
  <2>7. \A m, n \in Int : c * (m + n) = c * m + c * n
    OBVIOUS
  <2>8. f[y] \in Int /\ g[y] = c * f[y]
    BY <2>1
  <2> QED  BY <2>3, <2>5, <2>6, <2>7, <2>8
<1> HIDE DEF Good
<1>3. \A s \in SUBSET S : s \in Good
  BY <1>1, <1>2, FiniteInduction
<1>4. S \in Good
  BY <1>3
<1> QED  BY <1>4 DEF Good

(* The sum of a function that is written out over its domain.              *)
LEMMA SumOfFunction ==
    ASSUME NEW S, IsFiniteSet(S), NEW f
    PROVE  SumFunction([x \in S |-> f[x]]) = SumFunctionOnSet(f, S)
<1> DEFINE g == [x \in S |-> f[x]]
<1>1. SumFunctionOnSet(g, S) = SumFunctionOnSet(f, S)
  BY SumSame
<1> QED  BY <1>1 DEF SumFunction

-----------------------------------------------------------------------------
(* The least and the greatest of a finite set of integers.                 *)
LEMMA LeastOfFinite ==
    ASSUME NEW S, IsFiniteSet(S), S \subseteq Int, S # {}
    PROVE  Min(S) \in S /\ \A x \in S : Min(S) <= x
<1> DEFINE Good == {s \in SUBSET S : s = {} \/ \E x \in s : \A y \in s : x <= y}
<1>1. {} \in Good
  OBVIOUS
<1>2. ASSUME NEW s \in SUBSET S, s # {}, \A x \in s : s \ {x} \in Good
      PROVE  s \in Good
  <2>1. PICK x \in s : TRUE
    BY <1>2
  <2>2. \A y \in s : y \in Int
    OBVIOUS
  <2>3. CASE s \ {x} = {}
    <3>1. \A y \in s : y = x
      BY <2>3
    <3> QED  BY <2>1, <2>2, <3>1
  <2>4. CASE s \ {x} # {}
    <3>1. PICK b \in s \ {x} : \A y \in s \ {x} : b <= y
      BY <1>2, <2>1, <2>4
    <3>2. CASE x <= b
      BY <2>1, <2>2, <3>1, <3>2
    <3>3. CASE ~(x <= b)
      BY <2>1, <2>2, <3>1, <3>3
    <3> QED  BY <3>2, <3>3
  <2> QED  BY <2>3, <2>4
<1> HIDE DEF Good
<1>3. S \in Good
  BY <1>1, <1>2, FiniteInduction
<1>4. \E x \in S : \A y \in S : x <= y
  BY <1>3 DEF Good
<1> QED  BY <1>4 DEF Min

LEMMA GreatestOf ==
    ASSUME NEW S, IsFiniteSet(S), S \subseteq Int, S # {}
    PROVE  Max(S) \in S
<1> DEFINE Good == {s \in SUBSET S : s = {} \/ \E x \in s : \A y \in s : x >= y}
<1>1. {} \in Good
  OBVIOUS
<1>2. ASSUME NEW s \in SUBSET S, s # {}, \A x \in s : s \ {x} \in Good
      PROVE  s \in Good
  <2>1. PICK x \in s : TRUE
    BY <1>2
  <2>2. \A y \in s : y \in Int
    OBVIOUS
  <2>3. CASE s \ {x} = {}
    <3>1. \A y \in s : y = x
      BY <2>3
    <3> QED  BY <2>1, <2>2, <3>1
  <2>4. CASE s \ {x} # {}
    <3>1. PICK b \in s \ {x} : \A y \in s \ {x} : b >= y
      BY <1>2, <2>1, <2>4
    <3>2. CASE x >= b
      BY <2>1, <2>2, <3>1, <3>2
    <3>3. CASE ~(x >= b)
      BY <2>1, <2>2, <3>1, <3>3
    <3> QED  BY <3>2, <3>3
  <2> QED  BY <2>3, <2>4
<1> HIDE DEF Good
<1>3. S \in Good
  BY <1>1, <1>2, FiniteInduction
<1>4. \E x \in S : \A y \in S : x >= y
  BY <1>3 DEF Good
<1> QED  BY <1>4 DEF Max

-----------------------------------------------------------------------------

(* The elements of a finite set of numbers have different ranks, and so    *)
(* every number up to their number is the rank of one.                     *)
RankIn(S, x) == Cardinality({m \in S : m <= x})

LEMMA RanksIncrease ==
    ASSUME NEW S, IsFiniteSet(S), S \subseteq Int
    PROVE  /\ Cardinality(S) \in Nat
           /\ \A x \in S : RankIn(S, x) \in 1 .. Cardinality(S)
           /\ \A x, y \in S : x < y <=> RankIn(S, x) < RankIn(S, y)
<1>1. ASSUME NEW x \in S
      PROVE  RankIn(S, x) \in 1 .. Cardinality(S)
  <2>1. IsFiniteSet({m \in S : m <= x}) /\ Cardinality({m \in S : m <= x}) <= Cardinality(S)
    BY FS_Subset
  <2>2. x \in {m \in S : m <= x}
    OBVIOUS
  <2>3. Cardinality({m \in S : m <= x}) # 0 /\ Cardinality({m \in S : m <= x}) \in Nat
    BY <2>1, <2>2, FS_EmptySet, FS_CardinalityType
  <2> QED  BY <2>1, <2>3, FS_CardinalityType DEF RankIn
<1>2. ASSUME NEW x \in S, NEW y \in S, x < y
      PROVE  RankIn(S, x) < RankIn(S, y)
  <2> DEFINE A == {m \in S : m <= x}
             B == {m \in S : m <= y}
  <2>1. A \subseteq B /\ y \in B /\ y \notin A
    <3>1. x \in Int /\ y \in Int /\ \A m \in S : m \in Int
      OBVIOUS
    <3>2. ASSUME NEW m \in A
          PROVE  m \in B
      <4>1. m \in S /\ m \in Int /\ m <= x
        OBVIOUS
      <4> QED  BY <1>2, <3>1, <4>1
    <3>3. y \in B /\ y \notin A
      BY <1>2, <3>1
    <3> QED  BY <3>2, <3>3
  <2>2. IsFiniteSet(B) /\ IsFiniteSet(A)
    BY FS_Subset
  <2>3. Cardinality(A) <= Cardinality(B) /\ Cardinality(A) # Cardinality(B)
    <3> HIDE DEF A, B
    <3> QED  BY <2>1, <2>2, FS_Subset
  <2>4. Cardinality(A) \in Nat /\ Cardinality(B) \in Nat
    BY <2>2, FS_CardinalityType
  <2> QED  BY <2>3, <2>4 DEF RankIn
<1>3. Cardinality(S) \in Nat
  BY FS_CardinalityType
<1>4. ASSUME NEW x \in S, NEW y \in S, RankIn(S, x) < RankIn(S, y)
      PROVE  x < y
  <2>1. x \in Int /\ y \in Int /\ RankIn(S, x) \in Int /\ RankIn(S, y) \in Int
    BY <1>1, <1>3
  <2>2. x # y
    BY <1>4, <2>1
  <2>3. ~(y < x)
    BY <1>2, <1>4, <2>1
  <2> QED  BY <2>1, <2>2, <2>3
<1> QED  BY <1>1, <1>2, <1>3, <1>4

LEMMA IndexSet ==
    ASSUME NEW n \in Nat
    PROVE  IsFiniteSet(1 .. n) /\ Cardinality(1 .. n) = n
BY FS_Interval

LEMMA OntoIfInjective ==
    ASSUME NEW S, IsFiniteSet(S), NEW f \in [S -> 1 .. Cardinality(S)],
           \A x, y \in S : f[x] = f[y] => x = y
    PROVE  \A k \in 1 .. Cardinality(S) : \E x \in S : f[x] = k
<1> DEFINE N == Cardinality(S)
<1>1. N \in Nat
  BY FS_CardinalityType
<1>2. IsFiniteSet(1 .. N) /\ Cardinality(1 .. N) = N
  BY <1>1, IndexSet
<1>3. f \in Injection(S, 1 .. N)
  BY DEF Injection, IsInjective
<1>4. f \in Surjection(S, 1 .. N)
  BY <1>2, <1>3, FS_Injection
<1> QED  BY <1>4 DEF Surjection

(* A set in order: each element once, the smaller ones first.              *)
LEMMA InOrderIs ==
    ASSUME NEW S, IsFiniteSet(S), S \subseteq Int
    PROVE  /\ Cardinality(S) \in Nat
           /\ InOrder(S) \in [1 .. Cardinality(S) -> S]
           /\ \A i, j \in 1 .. Cardinality(S) : i < j => InOrder(S)[i] < InOrder(S)[j]
           /\ \A x \in S : \E k \in 1 .. Cardinality(S) : InOrder(S)[k] = x
<1> DEFINE N == Cardinality(S)
           f == [x \in S |-> RankIn(S, x)]
           o == InOrder(S)
<1>1. /\ N \in Nat
      /\ \A x \in S : RankIn(S, x) \in 1 .. N
      /\ \A x, y \in S : x < y <=> RankIn(S, x) < RankIn(S, y)
  BY RanksIncrease
<1>2. f \in [S -> 1 .. N]
  BY <1>1
<1>3. \A x, y \in S : f[x] = f[y] => x = y
  <2> SUFFICES ASSUME NEW x \in S, NEW y \in S, f[x] = f[y] PROVE x = y
    OBVIOUS
  <2>1. x \in Int /\ y \in Int
    OBVIOUS
  <2> QED  BY <1>1, <2>1
<1>4. \A k \in 1 .. N : \E x \in S : f[x] = k
  <2> HIDE DEF f
  <2> QED  BY <1>2, <1>3, OntoIfInjective
<1>5. ASSUME NEW k \in 1 .. N
      PROVE  o[k] \in S /\ RankIn(S, o[k]) = k
  <2>1. o[k] = CHOOSE x \in S : RankIn(S, x) = k
    BY DEF InOrder, RankIn
  <2>2. \E x \in S : RankIn(S, x) = k
    BY <1>4
  <2> QED  BY <2>1, <2>2
<1>6. o \in [1 .. N -> S]
  BY <1>5 DEF InOrder
<1>7. ASSUME NEW x \in S
      PROVE  \E k \in 1 .. N : o[k] = x
  <2>1. RankIn(S, x) \in 1 .. N
    BY <1>1
  <2>2. o[RankIn(S, x)] \in S /\ f[o[RankIn(S, x)]] = f[x]
    BY <1>5, <2>1
  <2> QED  BY <1>3, <2>1, <2>2
<1>8. ASSUME NEW i \in 1 .. N, NEW j \in 1 .. N, i < j
      PROVE  o[i] < o[j]
  BY <1>1, <1>5, <1>8
<1> QED  BY <1>1, <1>6, <1>7, <1>8

(* What is kept of a sequence: elements of it, in its order, and each of   *)
(* those at the places kept.                                               *)
LEMMA KeptIs ==
    ASSUME NEW T, NEW s \in Seq(T), NEW at \in SUBSET DOMAIN s
    PROVE  /\ Kept(s, at) \in Seq(T)
           /\ Len(Kept(s, at)) = Cardinality(at) /\ Cardinality(at) \in Nat
           /\ DOMAIN Kept(s, at) = 1 .. Cardinality(at)
           /\ \A k \in DOMAIN Kept(s, at) : InOrder(at)[k] \in at /\ Kept(s, at)[k] = s[InOrder(at)[k]]
           /\ \A k, l \in DOMAIN Kept(s, at) : k < l => InOrder(at)[k] < InOrder(at)[l]
           /\ \A i \in at : \E k \in DOMAIN Kept(s, at) : InOrder(at)[k] = i /\ Kept(s, at)[k] = s[i]
<1> DEFINE o == InOrder(at)
<1>1. at \subseteq 1 .. Len(s) /\ Len(s) \in Nat /\ DOMAIN s = 1 .. Len(s)
  OBVIOUS
<1>2. IsFiniteSet(at) /\ at \subseteq Int
  <2>1. IsFiniteSet(1 .. Len(s))
    BY <1>1, IndexSet
  <2> QED  BY <1>1, <2>1, FS_Subset
<1>3. /\ Cardinality(at) \in Nat
      /\ o \in [1 .. Cardinality(at) -> at]
      /\ \A i, j \in 1 .. Cardinality(at) : i < j => o[i] < o[j]
      /\ \A x \in at : \E k \in 1 .. Cardinality(at) : o[k] = x
  BY <1>2, InOrderIs
<1>4. Kept(s, at) = [k \in 1 .. Cardinality(at) |-> s[o[k]]]
  BY <1>3 DEF Kept
<1>5. \A k \in 1 .. Cardinality(at) : s[o[k]] \in T
  BY <1>1, <1>3
<1> HIDE DEF o
<1>6. /\ Kept(s, at) \in Seq(T) /\ Len(Kept(s, at)) = Cardinality(at)
      /\ DOMAIN Kept(s, at) = 1 .. Cardinality(at)
  BY <1>3, <1>4, <1>5
<1>7. /\ \A k \in DOMAIN Kept(s, at) : o[k] \in at /\ Kept(s, at)[k] = s[o[k]]
      /\ \A k, l \in DOMAIN Kept(s, at) : k < l => o[k] < o[l]
      /\ \A i \in at : \E k \in DOMAIN Kept(s, at) : o[k] = i /\ Kept(s, at)[k] = s[i]
  <2>1. \A k \in DOMAIN Kept(s, at) : o[k] \in at /\ Kept(s, at)[k] = s[o[k]]
    BY <1>3, <1>4, <1>6
  <2>2. \A k, l \in DOMAIN Kept(s, at) : k < l => o[k] < o[l]
    BY <1>3, <1>6
  <2>3. \A i \in at : \E k \in DOMAIN Kept(s, at) : o[k] = i
    BY <1>3, <1>6
  <2> QED  BY <2>1, <2>2, <2>3
<1> QED  BY <1>3, <1>6, <1>7 DEF o

(* A rearrangement has the same elements.                                  *)
LEMMA ArrangedIs ==
    ASSUME NEW T, NEW s \in Seq(T), NEW place \in [DOMAIN s -> DOMAIN s],
           \A i, j \in DOMAIN s : place[i] = place[j] => i = j
    PROVE  /\ Arranged(s, place) \in Seq(T) /\ Len(Arranged(s, place)) = Len(s)
           /\ DOMAIN Arranged(s, place) = DOMAIN s
           /\ \A i \in DOMAIN s : Arranged(s, place)[place[i]] = s[i]
           /\ \A k \in DOMAIN s : \E i \in DOMAIN s : place[i] = k /\ Arranged(s, place)[k] = s[i]
<1> DEFINE N == Len(s)
           a == Arranged(s, place)
<1>1. N \in Nat /\ DOMAIN s = 1 .. N
  OBVIOUS
<1>2. IsFiniteSet(DOMAIN s) /\ Cardinality(DOMAIN s) = N
  BY <1>1, IndexSet
<1>3. \A k \in 1 .. N : \E i \in DOMAIN s : place[i] = k
  <2>1. place \in [DOMAIN s -> 1 .. Cardinality(DOMAIN s)]
    BY <1>1, <1>2
  <2>2. \A k \in 1 .. Cardinality(DOMAIN s) : \E i \in DOMAIN s : place[i] = k
    BY <1>2, <2>1, OntoIfInjective
  <2> QED  BY <1>2, <2>2
<1>4. ASSUME NEW k \in 1 .. N
      PROVE  \E i \in DOMAIN s : place[i] = k /\ a[k] = s[i]
  <2>1. a[k] = s[CHOOSE i \in DOMAIN s : place[i] = k]
    BY <1>1 DEF Arranged
  <2> QED  BY <1>3, <2>1
<1>5. a \in [1 .. N -> T]
  <2>1. \A k \in 1 .. N : a[k] \in T
    BY <1>4
  <2> QED  BY <1>1, <2>1 DEF Arranged
<1>6. \A i \in DOMAIN s : a[place[i]] = s[i]
  BY <1>1, <1>4
<1> HIDE DEF a
<1>7. a \in Seq(T) /\ Len(a) = N /\ DOMAIN a = DOMAIN s
  BY <1>1, <1>5
<1> QED  BY <1>1, <1>4, <1>6, <1>7 DEF a

(* Sorted by a key: a rearrangement, and the keys do not decrease.         *)
LEMMA SortedByIs ==
    ASSUME NEW T, NEW s \in Seq(T), NEW key \in [DOMAIN s -> Int]
    PROVE  \E place \in [DOMAIN s -> DOMAIN s] :
              /\ SortedBy(s, key) = Arranged(s, place)
              /\ \A i, j \in DOMAIN s : place[i] = place[j] => i = j
              /\ \A i, j \in DOMAIN s : key[i] < key[j] => place[i] < place[j]
<1> DEFINE N == Len(s)
           before(i) == {j \in DOMAIN s : key[j] < key[i] \/ (key[j] = key[i] /\ j <= i)}
           place == [i \in DOMAIN s |-> Cardinality(before(i))]
<1>1. N \in Nat /\ DOMAIN s = 1 .. N
  OBVIOUS
<1>2. IsFiniteSet(DOMAIN s) /\ Cardinality(DOMAIN s) = N
  BY <1>1, IndexSet
<1>3. ASSUME NEW i \in DOMAIN s
      PROVE  /\ IsFiniteSet(before(i)) /\ Cardinality(before(i)) \in Nat
             /\ place[i] \in DOMAIN s
  <2>1. before(i) \in SUBSET DOMAIN s /\ i \in before(i)
    BY <1>1
  <2> HIDE DEF before
  <2>2. IsFiniteSet(before(i)) /\ Cardinality(before(i)) <= N
    BY <1>2, <2>1, FS_Subset
  <2>3. Cardinality(before(i)) \in Nat /\ Cardinality(before(i)) # 0
    BY <2>1, <2>2, FS_EmptySet, FS_CardinalityType
  <2> QED  BY <1>1, <2>2, <2>3
<1>4. ASSUME NEW i \in DOMAIN s, NEW j \in DOMAIN s,
             key[i] < key[j] \/ (key[i] = key[j] /\ i < j)
      PROVE  place[i] < place[j]
  <2>0. key[i] \in Int /\ key[j] \in Int /\ i \in Int /\ j \in Int
    BY <1>1
  <2>1. before(i) \subseteq before(j)
    <3> SUFFICES ASSUME NEW k \in before(i) PROVE k \in before(j)
      OBVIOUS
    <3>1. k \in DOMAIN s /\ key[k] \in Int /\ k \in Int
      BY <1>1
    <3> QED  BY <1>4, <2>0, <3>1
  <2>2. j \in before(j) /\ j \notin before(i)
    BY <1>4, <2>0
  <2> HIDE DEF before
  <2>3. Cardinality(before(i)) <= Cardinality(before(j))
        /\ Cardinality(before(i)) # Cardinality(before(j))
    BY <1>3, <2>1, <2>2, FS_Subset
  <2> QED  BY <1>3, <2>3
<1>5. \A i, j \in DOMAIN s : place[i] = place[j] => i = j
  <2> SUFFICES ASSUME NEW i \in DOMAIN s, NEW j \in DOMAIN s, place[i] = place[j], i # j
               PROVE  FALSE
    OBVIOUS
  <2>1. key[i] \in Int /\ key[j] \in Int /\ i \in Int /\ j \in Int
        /\ place[i] \in Int /\ place[j] \in Int
    <3>1. place[i] \in DOMAIN s /\ place[j] \in DOMAIN s
      BY <1>3
    <3> HIDE DEF place
    <3>2. \A k \in DOMAIN s : k \in Int
      BY <1>1
    <3> QED  BY <3>1, <3>2
  <2> HIDE DEF place
  <2> QED  BY <1>4, <2>1
<1>6. SortedBy(s, key) = Arranged(s, place)
  BY DEF SortedBy
<1>7. place \in [DOMAIN s -> DOMAIN s]
  BY <1>3
<1> HIDE DEF place
<1> QED  BY <1>4, <1>5, <1>6, <1>7

(* Finite sets from sequences.                                             *)
LEMMA FiniteImage ==
    ASSUME NEW S, IsFiniteSet(S), NEW f
    PROVE  IsFiniteSet({f[x] : x \in S})
<1> DEFINE Good == {s \in SUBSET S : IsFiniteSet({f[x] : x \in s})}
<1>1. {} \in Good
  <2>1. {f[x] : x \in {}} = {}
    OBVIOUS
  <2> QED  BY <2>1, FS_EmptySet
<1>2. ASSUME NEW s \in SUBSET S, s # {}, \A x \in s : s \ {x} \in Good
      PROVE  s \in Good
  <2>1. PICK x \in s : TRUE
    BY <1>2
  <2> DEFINE R == {f[y] : y \in s \ {x}}
  <2>2. IsFiniteSet(R)
    BY <1>2, <2>1
  <2>3. {f[y] : y \in s} = R \cup {f[x]}
    BY <2>1
  <2> HIDE DEF R
  <2>4. IsFiniteSet(R \cup {f[x]})
    BY <2>2, FS_AddElement
  <2> QED  BY <2>3, <2>4
<1> HIDE DEF Good
<1>3. S \in Good
  <2>1. \A s \in SUBSET S : s # {} /\ (\A x \in s : s \ {x} \in Good) => s \in Good
    BY <1>2
  <2>2. \A s \in SUBSET S : s \in Good
    BY <1>1, <2>1, FiniteInduction
  <2> QED  BY <2>2
<1> QED  BY <1>3 DEF Good

LEMMA FiniteRange ==
    ASSUME NEW T, NEW s \in Seq(T)
    PROVE  IsFiniteSet(ToSet(s)) /\ IsFiniteSet(DOMAIN s)
<1>1. Len(s) \in Nat /\ DOMAIN s = 1 .. Len(s)
  OBVIOUS
<1>2. IsFiniteSet(DOMAIN s)
  BY <1>1, IndexSet
<1>3. IsFiniteSet({s[i] : i \in DOMAIN s})
  BY <1>2, FiniteImage
<1> QED  BY <1>2, <1>3 DEF ToSet

-----------------------------------------------------------------------------

(* What is kept of a sequence, element by element.                         *)
PartOf(t, s, at) ==
    /\ \A k \in DOMAIN t : \E i \in at : t[k] = s[i]
    /\ \A i \in at : \E k \in DOMAIN t : t[k] = s[i]

LEMMA KeptPart ==
    ASSUME NEW T, NEW s \in Seq(T), NEW at \in SUBSET DOMAIN s
    PROVE  Kept(s, at) \in Seq(T) /\ PartOf(Kept(s, at), s, at)
<1>1. /\ Kept(s, at) \in Seq(T)
      /\ \A k \in DOMAIN Kept(s, at) :
            InOrder(at)[k] \in at /\ Kept(s, at)[k] = s[InOrder(at)[k]]
      /\ \A i \in at : \E k \in DOMAIN Kept(s, at) : Kept(s, at)[k] = s[i]
  BY KeptIs
<1> DEFINE t == Kept(s, at)
<1>2. \A k \in DOMAIN t : \E i \in at : t[k] = s[i]
  BY <1>1
<1>3. \A i \in at : \E k \in DOMAIN t : t[k] = s[i]
  BY <1>1
<1> QED  BY <1>1, <1>2, <1>3 DEF PartOf

(* One sequence rearranged into another, with the place each came from.    *)
From(t, s, f) ==
    /\ f \in [DOMAIN s -> DOMAIN s] /\ DOMAIN t = DOMAIN s
    /\ \A k \in DOMAIN s : t[k] = s[f[k]]
    /\ \A k, l \in DOMAIN s : f[k] = f[l] => k = l
    /\ \A i \in DOMAIN s : \E k \in DOMAIN s : f[k] = i

LEMMA ArrangedFrom ==
    ASSUME NEW T, NEW s \in Seq(T), NEW place \in [DOMAIN s -> DOMAIN s],
           \A i, j \in DOMAIN s : place[i] = place[j] => i = j
    PROVE  /\ Arranged(s, place) \in Seq(T) /\ Len(Arranged(s, place)) = Len(s)
           /\ \E f : From(Arranged(s, place), s, f) /\ \A i \in DOMAIN s : f[place[i]] = i
<1> DEFINE t == Arranged(s, place)
           f == [k \in DOMAIN s |-> CHOOSE i \in DOMAIN s : place[i] = k]
<1>1. /\ t \in Seq(T) /\ Len(t) = Len(s) /\ DOMAIN t = DOMAIN s
      /\ \A k \in DOMAIN s : \E i \in DOMAIN s : place[i] = k /\ t[k] = s[i]
  BY ArrangedIs
<1>2. ASSUME NEW k \in DOMAIN s
      PROVE  f[k] \in DOMAIN s /\ place[f[k]] = k /\ t[k] = s[f[k]]
  <2>1. PICK i \in DOMAIN s : place[i] = k /\ t[k] = s[i]
    BY <1>1
  <2>2. f[k] \in DOMAIN s /\ place[f[k]] = k
    BY <2>1
  <2>3. f[k] = i
    BY <2>1, <2>2
  <2> QED  BY <2>1, <2>2, <2>3
<1>3. \A i \in DOMAIN s : place[i] \in DOMAIN s /\ f[place[i]] = i
  BY <1>2
<1>4. f \in [DOMAIN s -> DOMAIN s] /\ \A k, l \in DOMAIN s : f[k] = f[l] => k = l
  BY <1>2
<1> HIDE DEF f, t
<1>5. From(t, s, f)
  BY <1>1, <1>2, <1>3, <1>4 DEF From
<1> QED  BY <1>1, <1>3, <1>5 DEF t

LEMMA SortedFrom ==
    ASSUME NEW T, NEW s \in Seq(T), NEW key \in [DOMAIN s -> Int]
    PROVE  /\ SortedBy(s, key) \in Seq(T) /\ Len(SortedBy(s, key)) = Len(s)
           /\ \E f : /\ From(SortedBy(s, key), s, f)
                     /\ \A k, l \in DOMAIN s : k < l => key[f[k]] <= key[f[l]]
<1>1. PICK place \in [DOMAIN s -> DOMAIN s] :
              /\ SortedBy(s, key) = Arranged(s, place)
              /\ \A i, j \in DOMAIN s : place[i] = place[j] => i = j
              /\ \A i, j \in DOMAIN s : key[i] < key[j] => place[i] < place[j]
  BY SortedByIs
<1> DEFINE t == SortedBy(s, key)
<1>2. /\ Arranged(s, place) \in Seq(T) /\ Len(Arranged(s, place)) = Len(s)
      /\ \E f : From(Arranged(s, place), s, f) /\ \A i \in DOMAIN s : f[place[i]] = i
  BY <1>1, ArrangedFrom
<1>3. PICK f : From(t, s, f) /\ \A i \in DOMAIN s : f[place[i]] = i
  BY <1>1, <1>2
<1>4. ASSUME NEW k \in DOMAIN s, NEW l \in DOMAIN s, k < l
      PROVE  key[f[k]] <= key[f[l]]
  <2>1. f[k] \in DOMAIN s /\ f[l] \in DOMAIN s
    BY <1>3 DEF From
  <2>2. place[f[k]] = k /\ place[f[l]] = l
    <3>1. f[place[f[k]]] = f[k] /\ f[place[f[l]]] = f[l]
          /\ place[f[k]] \in DOMAIN s /\ place[f[l]] \in DOMAIN s
      BY <1>3, <2>1
    <3> QED  BY <1>3, <3>1 DEF From
  <2>3. key[f[k]] \in Int /\ key[f[l]] \in Int /\ k \in Int /\ l \in Int
    BY <2>1
  <2>4. ~(key[f[l]] < key[f[k]])
    BY <1>1, <1>4, <2>1, <2>2, <2>3
  <2> QED  BY <2>3, <2>4
<1> QED  BY <1>1, <1>2, <1>3, <1>4

(* What is kept, with nothing known of the elements.                       *)
LEMMA KeptPlaces ==
    ASSUME NEW n \in Nat, NEW s, DOMAIN s = 1 .. n, NEW at \in SUBSET (1 .. n)
    PROVE  /\ \A k \in DOMAIN Kept(s, at) : /\ InOrder(at)[k] \in at
                                            /\ Kept(s, at)[k] = s[InOrder(at)[k]]
           /\ \A k, l \in DOMAIN Kept(s, at) : InOrder(at)[k] = InOrder(at)[l] => k = l
           /\ \A i \in at : \E k \in DOMAIN Kept(s, at) : InOrder(at)[k] = i
<1> DEFINE o == InOrder(at)
<1>1. IsFiniteSet(at) /\ at \subseteq Int
  <2>1. IsFiniteSet(1 .. n)
    BY IndexSet
  <2>2. IsFiniteSet(at)
    BY <2>1, FS_Subset
  <2> QED  BY <2>2
<1>2. /\ Cardinality(at) \in Nat /\ o \in [1 .. Cardinality(at) -> at]
      /\ \A i, j \in 1 .. Cardinality(at) : i < j => o[i] < o[j]
      /\ \A x \in at : \E k \in 1 .. Cardinality(at) : o[k] = x
  BY <1>1, InOrderIs
<1>3. Kept(s, at) = [k \in DOMAIN o |-> s[o[k]]]
  BY DEF Kept
<1> HIDE DEF o
<1>4. DOMAIN Kept(s, at) = 1 .. Cardinality(at) /\ \A k \in DOMAIN Kept(s, at) : Kept(s, at)[k] = s[o[k]]
  BY <1>2, <1>3
<1>5. ASSUME NEW k \in 1 .. Cardinality(at), NEW l \in 1 .. Cardinality(at), o[k] = o[l]
      PROVE  k = l
  <2>1. o[k] \in Int /\ o[l] \in Int /\ (k < l => o[k] < o[l]) /\ (l < k => o[l] < o[k])
    BY <1>1, <1>2
  <2> QED  BY <1>2, <1>5, <2>1
<1> QED  BY <1>2, <1>4, <1>5 DEF o

-----------------------------------------------------------------------------

(* Sequences of sequences, joined.                                         *)
IsFlat(f, s, n) == f = [i \in 1 .. n |-> IF i = 1 THEN s[i] ELSE f[i - 1] \o s[i]]

LEMMA FlatExists ==
    ASSUME NEW s, NEW m \in Nat
    PROVE  \E f : IsFlat(f, s, m)
<1> DEFINE Bad == {n \in Nat : ~\E f : IsFlat(f, s, n)}
<1>1. SUFFICES ASSUME Bad # {} PROVE FALSE
  OBVIOUS
<1>2. Bad \subseteq Nat
  OBVIOUS
<1>3. PICK n \in Bad : \A k \in Bad : n <= k
  <2> HIDE DEF Bad
  <2> QED  BY <1>1, <1>2, LeastNatural
<1>4. CASE n = 0
  <2>1. IsFlat([i \in 1 .. 0 |-> 0], s, 0)
    BY DEF IsFlat
  <2> QED  BY <1>3, <1>4, <2>1
<1>5. CASE n # 0
  <2>1. n - 1 \in Nat /\ n - 1 \notin Bad
    BY <1>3, <1>5
  <2>2. PICK f : IsFlat(f, s, n - 1)
    BY <2>1
  <2> DEFINE h == [i \in 1 .. n |-> IF i = n THEN IF n = 1 THEN s[n] ELSE f[n - 1] \o s[n] ELSE f[i]]
  <2>3. ASSUME NEW i \in 1 .. n
        PROVE  h[i] = IF i = 1 THEN s[i] ELSE h[i - 1] \o s[i]
    <3>1. CASE i = n
      <4>1. i # 1 => h[i - 1] = f[i - 1]
        BY <3>1
      <4> QED  BY <3>1, <4>1
    <3>2. CASE i # n
      <4>1. i \in 1 .. n - 1 /\ h[i] = f[i] /\ (i # 1 => h[i - 1] = f[i - 1])
        BY <3>2
      <4>2. f[i] = IF i = 1 THEN s[i] ELSE f[i - 1] \o s[i]
        BY <2>2, <4>1 DEF IsFlat
      <4> QED  BY <4>1, <4>2
    <3> QED  BY <3>1, <3>2
  <2>4. h = [i \in 1 .. n |-> h[i]]
    OBVIOUS
  <2> HIDE DEF h
  <2>5. IsFlat(h, s, n)
    BY <2>3, <2>4 DEF IsFlat
  <2> QED  BY <1>3, <2>5
<1> QED  BY <1>4, <1>5

Joined(h, a, b) ==
    /\ \A p \in DOMAIN h : (\E q \in DOMAIN a : h[p] = a[q]) \/ (\E q \in DOMAIN b : h[p] = b[q])
    /\ \A q \in DOMAIN a : \E p \in DOMAIN h : h[p] = a[q]
    /\ \A q \in DOMAIN b : \E p \in DOMAIN h : h[p] = b[q]

LEMMA JoinElements ==
    ASSUME NEW T, NEW a \in Seq(T), NEW b \in Seq(T)
    PROVE  a \o b \in Seq(T) /\ Joined(a \o b, a, b)
<1> DEFINE h == a \o b
<1>1. h \in Seq(T) /\ Len(h) = Len(a) + Len(b) /\ Len(a) \in Nat /\ Len(b) \in Nat
  OBVIOUS
<1>2. ASSUME NEW p \in DOMAIN h
      PROVE  (\E q \in DOMAIN a : h[p] = a[q]) \/ (\E q \in DOMAIN b : h[p] = b[q])
  <2>1. p \in 1 .. Len(a) + Len(b)
    BY <1>1
  <2>2. CASE p <= Len(a)
    BY <1>1, <2>1, <2>2
  <2>3. CASE ~(p <= Len(a))
    <3>1. p - Len(a) \in DOMAIN b /\ h[p] = b[p - Len(a)]
      BY <1>1, <2>1, <2>3
    <3> QED  BY <3>1
  <2> QED  BY <2>2, <2>3
<1>3. ASSUME NEW q \in DOMAIN a
      PROVE  q \in DOMAIN h /\ h[q] = a[q]
  BY <1>1
<1>4. ASSUME NEW q \in DOMAIN b
      PROVE  q + Len(a) \in DOMAIN h /\ h[q + Len(a)] = b[q]
  BY <1>1
<1> QED  BY <1>1, <1>2, <1>3, <1>4 DEF Joined

(* What is joined of the first k: an element of one of them each, and each *)
(* of theirs.                                                              *)
Flat(h, s, k) ==
    /\ \A p \in DOMAIN h : \E i \in 1 .. k : \E j \in DOMAIN s[i] : h[p] = s[i][j]
    /\ \A i \in 1 .. k : \A j \in DOMAIN s[i] : \E p \in DOMAIN h : h[p] = s[i][j]

LEMMA FlatStep ==
    ASSUME NEW s, NEW k \in Nat, k >= 1, NEW a, Flat(a, s, k - 1), NEW h, Joined(h, a, s[k])
    PROVE  Flat(h, s, k)
<1>1. ASSUME NEW p \in DOMAIN h
      PROVE  \E i \in 1 .. k : \E j \in DOMAIN s[i] : h[p] = s[i][j]
  <2>1. CASE \E q \in DOMAIN a : h[p] = a[q]
    <3>1. PICK q \in DOMAIN a : h[p] = a[q]
      BY <2>1
    <3>2. PICK i \in 1 .. k - 1 : \E j \in DOMAIN s[i] : a[q] = s[i][j]
      BY <3>1 DEF Flat
    <3>3. i \in 1 .. k
      OBVIOUS
    <3> QED  BY <3>1, <3>2, <3>3
  <2>2. CASE \E q \in DOMAIN s[k] : h[p] = s[k][q]
    <3>1. k \in 1 .. k
      OBVIOUS
    <3> QED  BY <2>2, <3>1
  <2> QED  BY <2>1, <2>2 DEF Joined
<1>2. ASSUME NEW i \in 1 .. k, NEW j \in DOMAIN s[i]
      PROVE  \E p \in DOMAIN h : h[p] = s[i][j]
  <2>1. CASE i = k
    BY <2>1 DEF Joined
  <2>2. CASE i # k
    <3>1. i \in 1 .. k - 1
      BY <2>2
    <3>2. PICK q \in DOMAIN a : a[q] = s[i][j]
      BY <3>1 DEF Flat
    <3>3. PICK p \in DOMAIN h : h[p] = a[q]
      BY DEF Joined
    <3> QED  BY <3>2, <3>3
  <2> QED  BY <2>1, <2>2
<1> QED  BY <1>1, <1>2 DEF Flat

LEMMA FlattenIs ==
    ASSUME NEW T, NEW s \in Seq(Seq(T))
    PROVE  FlattenSeq(s) \in Seq(T) /\ Flat(FlattenSeq(s), s, Len(s))
<1> DEFINE n == Len(s)
           f == CHOOSE g : IsFlat(g, s, n)
<1>1. n \in Nat /\ DOMAIN s = 1 .. n /\ \A i \in 1 .. n : s[i] \in Seq(T)
  OBVIOUS
<1>2. IsFlat(f, s, n)
  <2>1. \E g : IsFlat(g, s, n)
    BY <1>1, FlatExists
  <2> QED  BY <2>1
<1>3. FlattenSeq(s) = IF n = 0 THEN s ELSE f[n]
  BY DEF FlattenSeq, IsFlat
<1> HIDE DEF f
<1>4. \A i \in 1 .. n : f[i] = IF i = 1 THEN s[i] ELSE f[i - 1] \o s[i]
  BY <1>2 DEF IsFlat
<1> DEFINE Bad == {k \in 1 .. n : ~(f[k] \in Seq(T) /\ Flat(f[k], s, k))}
<1>5. Bad = {}
  <2> SUFFICES ASSUME Bad # {} PROVE FALSE
    OBVIOUS
  <2>1. Bad \subseteq Nat
    OBVIOUS
  <2>2. PICK k \in Bad : \A m \in Bad : k <= m
    <3> HIDE DEF Bad
    <3> QED  BY <2>1, LeastNatural
  <2>3. k \in 1 .. n /\ ~(f[k] \in Seq(T) /\ Flat(f[k], s, k))
    OBVIOUS
  <2>4. CASE k = 1
    <3>1. f[1] = s[1] /\ s[1] \in Seq(T)
      BY <1>1, <1>4, <2>3, <2>4
    <3>2. \A i \in 1 .. 1 : i = 1
      OBVIOUS
    <3>3. Flat(s[1], s, 1)
      BY <3>2 DEF Flat
    <3> QED  BY <2>3, <2>4, <3>1, <3>3
  <2>5. CASE k # 1
    <3>1. k \in Nat /\ k >= 1 /\ k - 1 \in 1 .. n
      BY <1>1, <2>3, <2>5
    <3>2. k - 1 \notin Bad
      BY <2>2, <3>1
    <3> DEFINE a == f[k - 1]
               b == s[k]
    <3>3. a \in Seq(T) /\ Flat(a, s, k - 1)
      BY <3>1, <3>2
    <3>4. f[k] = a \o b /\ b \in Seq(T)
      BY <1>1, <1>4, <2>3, <2>5
    <3> HIDE DEF a
    <3>5. f[k] \in Seq(T) /\ Joined(f[k], a, s[k])
      <4> HIDE DEF b
      <4>1. f[k] \in Seq(T) /\ Joined(f[k], a, b)
        BY <3>3, <3>4, JoinElements
      <4> QED  BY <4>1 DEF b
    <3>6. Flat(f[k], s, k)
      BY <3>1, <3>3, <3>5, FlatStep
    <3> QED  BY <2>3, <3>5, <3>6
  <2> QED  BY <2>4, <2>5
<1>6. CASE n = 0
  <2>1. s = <<>> /\ FlattenSeq(s) = <<>> /\ Len(s) = 0
    BY <1>1, <1>3, <1>6
  <2>2. Flat(<<>>, s, 0)
    BY DEF Flat
  <2>3. <<>> \in Seq(T)
    OBVIOUS
  <2> QED  BY <2>1, <2>2, <2>3
<1>7. CASE n # 0
  <2>1. n \in 1 .. n /\ n \notin Bad
    BY <1>1, <1>5, <1>7
  <2>2. f[n] \in Seq(T) /\ Flat(f[n], s, n)
    BY <2>1
  <2> HIDE DEF Bad
  <2> QED  BY <1>3, <1>7, <2>2
<1> QED  BY <1>6, <1>7

(* One sequence after another.                                             *)
LEMMA ConcatIs ==
    ASSUME NEW T, NEW s \in Seq(T), NEW t \in Seq(T)
    PROVE  /\ s \o t \in Seq(T) /\ Len(s \o t) = Len(s) + Len(t)
           /\ Len(s) \in Nat /\ Len(t) \in Nat
           /\ DOMAIN s = 1 .. Len(s) /\ DOMAIN t = 1 .. Len(t)
           /\ DOMAIN (s \o t) = 1 .. Len(s) + Len(t)
           /\ \A i \in DOMAIN s : i \in DOMAIN (s \o t) /\ (s \o t)[i] = s[i]
           /\ \A i \in DOMAIN t : Len(s) + i \in DOMAIN (s \o t) /\ (s \o t)[Len(s) + i] = t[i]
           /\ \A x \in DOMAIN (s \o t) : \/ x \in DOMAIN s
                                         \/ \E i \in DOMAIN t : x = Len(s) + i
<1> DEFINE u == s \o t
<1>1. /\ Len(s) \in Nat /\ Len(t) \in Nat /\ DOMAIN s = 1 .. Len(s) /\ DOMAIN t = 1 .. Len(t)
      /\ u \in Seq(T) /\ Len(u) = Len(s) + Len(t) /\ DOMAIN u = 1 .. Len(s) + Len(t)
  OBVIOUS
<1>2. \A i \in DOMAIN s : i \in DOMAIN u /\ u[i] = s[i]
  OBVIOUS
<1>3. \A i \in DOMAIN t : Len(s) + i \in DOMAIN u /\ u[Len(s) + i] = t[i]
  OBVIOUS
<1>4. ASSUME NEW x \in DOMAIN u
      PROVE  x \in DOMAIN s \/ \E i \in DOMAIN t : x = Len(s) + i
  <2>1. CASE x <= Len(s)
    BY <1>1, <2>1
  <2>2. CASE ~(x <= Len(s))
    <3>1. x - Len(s) \in DOMAIN t /\ x = Len(s) + (x - Len(s))
      BY <1>1, <2>2
    <3> QED  BY <3>1
  <2> QED  BY <2>1, <2>2
<1> QED  BY <1>1, <1>2, <1>3, <1>4

LEMMA ConcatInjective ==
    ASSUME NEW T, NEW s \in Seq(T), NEW t \in Seq(T), IsInjective(s), IsInjective(t),
           \A i \in DOMAIN s : \A j \in DOMAIN t : s[i] # t[j]
    PROVE  IsInjective(s \o t)
<1> DEFINE u == s \o t
<1>1. /\ Len(s) \in Nat /\ DOMAIN t = 1 .. Len(t) /\ Len(t) \in Nat
      /\ \A i \in DOMAIN s : u[i] = s[i]
      /\ \A i \in DOMAIN t : u[Len(s) + i] = t[i]
      /\ \A x \in DOMAIN u : x \in DOMAIN s \/ \E i \in DOMAIN t : x = Len(s) + i
  BY ConcatIs
<1> HIDE DEF u
<1>2. ASSUME NEW a \in DOMAIN u, NEW b \in DOMAIN u, u[a] = u[b]
      PROVE  a = b
  <2>1. CASE a \in DOMAIN s /\ b \in DOMAIN s
    BY <1>1, <1>2, <2>1 DEF IsInjective
  <2>2. CASE a \in DOMAIN s /\ \E i \in DOMAIN t : b = Len(s) + i
    BY <1>1, <1>2, <2>2
  <2>3. CASE b \in DOMAIN s /\ \E i \in DOMAIN t : a = Len(s) + i
    BY <1>1, <1>2, <2>3
  <2>4. CASE (\E i \in DOMAIN t : a = Len(s) + i) /\ (\E i \in DOMAIN t : b = Len(s) + i)
    <3>1. PICK i \in DOMAIN t : a = Len(s) + i
      BY <2>4
    <3>2. PICK j \in DOMAIN t : b = Len(s) + j
      BY <2>4
    <3>3. t[i] = t[j]
      BY <1>1, <1>2, <3>1, <3>2
    <3> QED  BY <3>1, <3>2, <3>3 DEF IsInjective
  <2> QED  BY <1>1, <2>1, <2>2, <2>3, <2>4
<1> QED  BY <1>2 DEF IsInjective, u

LEMMA ConcatTwice ==
    ASSUME NEW T, NEW s \in Seq(T), NEW t \in Seq(T), NEW u \in Seq(T)
    PROVE  s \o (t \o u) = (s \o t) \o u
OBVIOUS
=============================================================================
