------------------------------- MODULE Places -------------------------------
(***************************************************************************)
(* Selections and stable sorts of sequences, said by counting: the place   *)
(* of an element is the number of those that do not come after it.  The    *)
(* standard SelectSeq and SortSeq take an operator, and nothing could be   *)
(* proved of what is built from them.                                      *)
(***************************************************************************)
EXTENDS Integers, FiniteSets

(* A finite set of numbers, least first.                                   *)
InOrder(S) ==
    [k \in 1 .. Cardinality(S) |->
        CHOOSE n \in S : Cardinality({m \in S : m <= n}) = k]

(* What a sequence has at a set of places, in its order.                   *)
Kept(s, at) == LET order == InOrder(at) IN [k \in DOMAIN order |-> s[order[k]]]

(* A sequence rearranged so that each element comes to its place.          *)
Arranged(s, place) == [k \in DOMAIN s |-> s[CHOOSE i \in DOMAIN s : place[i] = k]]

(* Sorted by key, equals in the order they were in.                        *)
SortedBy(s, key) ==
    Arranged(s, [i \in DOMAIN s |->
                    Cardinality({j \in DOMAIN s : \/ key[j] < key[i]
                                                  \/ key[j] = key[i] /\ j <= i})])
=============================================================================
