------------------------------ MODULE Relations -----------------------------
(***************************************************************************)
(* The relations that tie contracts together, each by the resolutions it   *)
(* permits (src/src/registry.rs), and the worst a position can pay under   *)
(* one of them (min_payoff_per_unit in src/src/solver/costing.rs).         *)
(*                                                                         *)
(* A relation is its kind and its members in order: a ladder runs from the *)
(* weakest claim to the strongest, an implication is <<antecedent,         *)
(* consequent>>.  A resolution is the set of members that pay.             *)
(***************************************************************************)
EXTENDS Integers, Sequences, FiniteSetsExt

Kind == {"complement", "exhaustive", "monotone", "implies", "equivalent"}

Resolution(members, yes) == {members[i] : i \in yes}

(* Of a ladder: the first k rungs pay and the others do not.               *)
LadderStates(members) == {Resolution(members, 1 .. k) : k \in 0 .. Len(members)}

ResolutionStates(kind, members) ==
    CASE kind = "complement" -> {Resolution(members, {1}), {}}
      [] kind = "exhaustive" -> {Resolution(members, {i}) : i \in DOMAIN members}
      [] kind = "monotone"   -> LadderStates(members)
      [] kind = "implies"    -> {{}, Resolution(members, {2}), Resolution(members, {1, 2})}
      [] kind = "equivalent" -> {Resolution(members, {1, 2}), {}}

(* A leg is a contract and the outcome bought.                             *)
Pays(leg, state) == (leg.contract \in state) = (leg.side = "yes")

PayoffIn(legs, state) == 100 * Cardinality({i \in DOMAIN legs : Pays(legs[i], state)})

MinPayoff(kind, members, legs) ==
    Min({PayoffIn(legs, state) : state \in ResolutionStates(kind, members)})
=============================================================================
