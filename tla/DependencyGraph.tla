-------------------------- MODULE DependencyGraph --------------------------
(***************************************************************************)
(* The validation of the dependency graph by the DependentsSuccessful-     *)
(* CommitStatus controller: every dependsOn entry names a declared         *)
(* environment, and Kahn's algorithm removes every environment.            *)
(***************************************************************************)
EXTENDS Environments, FiniteSets

(* validateDAG.  The queue is a set: the code takes the oldest entry, and  *)
(* nothing it decides depends on which entry it takes.                     *)

VARIABLES
    graph,      \* g.dependsOn
    step,       \* "check" references, "seed" the queue, "remove", or "done"
    inDegree,
    queue,
    removed,    \* the counter
    gone,       \* the environments it has counted
    verdict     \* "none" yet, "unknown" branch, "cycle", or "valid"

graphVars == <<graph, step, inDegree, queue, removed, gone, verdict>>

checkReferences ==
    /\ step = "check"
    /\ IF Known(graph)
       THEN step' = "seed" /\ verdict' = verdict
       ELSE step' = "done" /\ verdict' = "unknown"
    /\ UNCHANGED <<graph, inDegree, queue, removed, gone>>

seedQueue ==
    /\ step = "seed"
    /\ step' = "remove"
    /\ inDegree' = [e \in Envs |-> Cardinality(graph[e])]
    /\ queue' = {e \in Envs : inDegree'[e] = 0}
    /\ UNCHANGED <<graph, removed, gone, verdict>>

\* Mutant: the last dependency of an environment decides, however many it has.
removeEager ==
    /\ step = "remove"
    /\ \E b \in queue :
         /\ removed' = removed + 1
         /\ gone' = gone \cup {b}
         /\ inDegree' = [e \in Envs |-> IF b \in graph[e] THEN inDegree[e] - 1 ELSE inDegree[e]]
         /\ queue' = (queue \ {b}) \cup {e \in Envs : b \in graph[e]}
    /\ UNCHANGED <<graph, step, verdict>>

\* One round of the loop: a branch leaves the queue, and each of its dependents
\* that has lost its last upstream joins.
remove ==
    /\ step = "remove"
    /\ \E b \in queue :
         /\ removed' = removed + 1
         /\ gone' = gone \cup {b}
         /\ inDegree' = [e \in Envs |-> IF b \in graph[e] THEN inDegree[e] - 1 ELSE inDegree[e]]
         /\ queue' = (queue \ {b}) \cup {e \in Envs : b \in graph[e] /\ inDegree'[e] = 0}
    /\ UNCHANGED <<graph, step, verdict>>

\* Mutant: what the queue never held is not missed.
decideLenient ==
    /\ step = "remove" /\ queue = {}
    /\ step' = "done"
    /\ verdict' = IF removed = 0 THEN "cycle" ELSE "valid"
    /\ UNCHANGED <<graph, inDegree, queue, removed, gone>>

\* Mutant: the loop runs until every environment is removed.
decideWhenEmptied ==
    /\ step = "remove" /\ queue = {} /\ removed = N
    /\ step' = "done" /\ verdict' = "valid"
    /\ UNCHANGED <<graph, inDegree, queue, removed, gone>>

decide ==
    /\ step = "remove" /\ queue = {}
    /\ step' = "done"
    /\ verdict' = IF removed # N THEN "cycle" ELSE "valid"
    /\ UNCHANGED <<graph, inDegree, queue, removed, gone>>

GraphInit ==
    /\ graph \in {resolveDependentEnvironments(g) : g \in Declarations}
    /\ step = "check" /\ verdict = "none"
    /\ inDegree = [e \in Envs |-> 0] /\ queue = {}
    /\ removed = 0 /\ gone = {}

GraphNext == checkReferences \/ seedQueue \/ remove \/ decide

GraphSpec == GraphInit /\ [][GraphNext]_graphVars

-----------------------------------------------------------------------------
\* The degrees, the queue and the counter stay in range: no degree is taken
\* below zero and no environment is removed twice.
GraphTypeOK ==
    /\ graph \in [Envs -> SUBSET (Envs \cup {Stranger})]
    /\ step \in {"check", "seed", "remove", "done"}
    /\ inDegree \in [Envs -> 0 .. N]
    /\ queue \subseteq Envs /\ gone \subseteq Envs /\ queue \cap gone = {}
    /\ removed \in 0 .. N
    /\ verdict \in {"none", "unknown", "cycle", "valid"}

\* validateDAG accepts exactly the graphs in which every reference resolves and
\* no environments wait for each other.
VerdictExact ==
    /\ verdict = "valid" => Known(graph) /\ Acyclic(graph)
    /\ verdict = "unknown" => ~Known(graph)
    /\ verdict = "cycle" => Known(graph) /\ ~Acyclic(graph)

\* The validation ends, on every graph.
Decided == <>(verdict # "none")
=============================================================================
