---------------------------- MODULE Environments ----------------------------
(***************************************************************************)
(* The environments of a PromotionStrategy and what they depend on.        *)
(*                                                                         *)
(* Environments are numbered in the order of spec.environments; the API    *)
(* server keeps their branches distinct (a list map) and refuses an        *)
(* environment that depends on itself.  dependsOn is a list set: its order *)
(* has no meaning.  Stranger is a branch that no environment declares.     *)
(***************************************************************************)
EXTENDS Integers

CONSTANT N      \* environments of the strategy

ASSUME EnvironmentsAssumption == N \in Nat \ {0}

Envs     == 1 .. N
Stranger == 0

\* spec.environments[*].dependsOn, as the API server admits it.
Declarations == {g \in [Envs -> SUBSET (Envs \cup {Stranger})] : \A e \in Envs : e \notin g[e]}

\* Without any dependsOn the environments form a chain in list order.
resolveDependentEnvironments(declared) ==
    IF \E e \in Envs : declared[e] # {}
    THEN declared
    ELSE [e \in Envs |-> IF e = 1 THEN {} ELSE {e - 1}]

-----------------------------------------------------------------------------
(* What validateDAG decides.                                               *)

Known(g) == \A e \in Envs : g[e] \subseteq Envs

\* No environments wait only for each other.
Acyclic(g) == \A S \in SUBSET Envs : S # {} => \E e \in S : g[e] \cap S = {}
=============================================================================
