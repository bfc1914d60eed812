----------------------- MODULE DependencyGraphProofs -----------------------
(***************************************************************************)
(* validateDAG is exact for every number of environments and every graph.  *)
(***************************************************************************)
EXTENDS DependencyGraph, FiniteSetTheorems, TLAPS

\* The environments of S all wait for one another.
Knot(S) == S \subseteq Envs /\ \A e \in S : graph[e] \cap S # {}

\* While the loop runs: the counter counts, a degree is the number of upstreams
\* not yet removed, and an environment has been queued once all of them have.
LoopInv ==
    /\ removed = Cardinality(gone)
    /\ \A e \in Envs : inDegree[e] = Cardinality(graph[e] \ gone)
    /\ \A e \in Envs : e \in queue \cup gone <=> graph[e] \subseteq gone

GraphInv ==
    /\ GraphTypeOK
    /\ step \in {"check", "seed"} => gone = {} /\ removed = 0 /\ queue = {}
    /\ step # "done" => verdict = "none"
    /\ step \in {"seed", "remove"} => Known(graph)
    /\ step = "remove" => LoopInv
    /\ \A S : Knot(S) => S \cap gone = {}
    /\ VerdictExact

LEMMA EnvsFinite == IsFiniteSet(Envs) /\ Cardinality(Envs) = N
BY FS_Interval, EnvironmentsAssumption DEF Envs

\* A set of environments is finite and counts N only if it is all of them.
LEMMA EnvsCount ==
    ASSUME NEW S \in SUBSET Envs
    PROVE  /\ IsFiniteSet(S) /\ Cardinality(S) \in 0 .. N
           /\ Cardinality(S) = N <=> S = Envs
<1>1. IsFiniteSet(S) /\ Cardinality(S) \in Nat
  BY EnvsFinite, FS_Subset, FS_CardinalityType
<1>2. Cardinality(S) <= N
  BY EnvsFinite, FS_Subset
<1>3. Cardinality(S) = N => S = Envs
  BY EnvsFinite, FS_Subset
<1>4. QED
  BY <1>1, <1>2, <1>3, EnvsFinite, EnvironmentsAssumption

\* Removing b takes one upstream from each of its dependents.
LEMMA OneLess ==
    ASSUME NEW D \in SUBSET Envs, NEW G \in SUBSET Envs, NEW b \in Envs, b \notin G
    PROVE  /\ b \in D => Cardinality(D \ (G \cup {b})) = Cardinality(D \ G) - 1
           /\ b \notin D => D \ (G \cup {b}) = D \ G
<1>1. CASE b \in D
  <2>1. D \ (G \cup {b}) = (D \ G) \ {b} /\ b \in D \ G
    BY <1>1
  <2>2. IsFiniteSet(D \ G)
    BY EnvsCount
  <2>3. Cardinality((D \ G) \ {b}) = Cardinality(D \ G) - 1
    BY <2>1, <2>2, FS_RemoveElement
  <2>4. QED
    BY <1>1, <2>1, <2>3
<1>2. CASE b \notin D
  BY <1>2
<1>3. QED
  BY <1>1, <1>2

\* A degree is zero when every upstream is gone.
LEMMA ZeroLeft ==
    ASSUME NEW D \in SUBSET Envs, NEW G \in SUBSET Envs
    PROVE  Cardinality(D \ G) \in 0 .. N /\ (Cardinality(D \ G) = 0 <=> D \subseteq G)
<1>1. IsFiniteSet(D \ G) /\ Cardinality(D \ G) \in 0 .. N
  BY EnvsCount
<1>2. Cardinality(D \ G) = 0 <=> D \ G = {}
  BY <1>1, FS_EmptySet
<1>3. QED
  BY <1>1, <1>2

LEMMA GraphInitInv == GraphInit => GraphInv
<1> SUFFICES ASSUME GraphInit PROVE GraphInv
  OBVIOUS
<1>1. graph \in [Envs -> SUBSET (Envs \cup {Stranger})]
  <2>1. PICK g \in Declarations : graph = resolveDependentEnvironments(g)
    BY DEF GraphInit
  <2>2. g \in [Envs -> SUBSET (Envs \cup {Stranger})]
    BY DEF Declarations
  <2>3. \A e \in Envs : e # 1 => e - 1 \in Envs
    BY EnvironmentsAssumption DEF Envs
  <2>4. [e \in Envs |-> IF e = 1 THEN {} ELSE {e - 1}] \in [Envs -> SUBSET (Envs \cup {Stranger})]
    BY <2>3
  <2>5. QED
    BY <2>1, <2>2, <2>4 DEF resolveDependentEnvironments
<1>2. GraphTypeOK
  BY <1>1, EnvironmentsAssumption DEF GraphInit, GraphTypeOK
<1>3. QED
  BY <1>2 DEF GraphInit, GraphInv, VerdictExact

LEMMA GraphStep == GraphInv /\ [GraphNext]_graphVars => GraphInv'
<1> SUFFICES ASSUME GraphInv, [GraphNext]_graphVars PROVE GraphInv'
  OBVIOUS
<1>t. GraphTypeOK
  BY DEF GraphInv
<1>g. CASE checkReferences
  BY <1>g DEF checkReferences, GraphInv, GraphTypeOK, VerdictExact, Knot, Known, Acyclic
<1>s. CASE seedQueue
  <2>1. Known(graph) /\ gone = {} /\ removed = 0 /\ verdict = "none" /\ graph' = graph
    BY <1>s DEF seedQueue, GraphInv
  <2>2. \A e \in Envs : graph[e] \in SUBSET Envs /\ graph[e] \ gone = graph[e]
    BY <2>1 DEF Known
  <2>3. \A e \in Envs : Cardinality(graph[e]) \in 0 .. N /\ (Cardinality(graph[e]) = 0 <=> graph[e] \subseteq gone)
    BY <2>1, <2>2, ZeroLeft
  <2>4. inDegree' \in [Envs -> 0 .. N] /\ queue' = {e \in Envs : inDegree'[e] = 0}
    BY <1>s, <2>3 DEF seedQueue
  <2>5. GraphTypeOK'
    BY <1>s, <1>t, <2>1, <2>4 DEF seedQueue, GraphTypeOK
  <2>6. LoopInv'
    <3>1. removed' = Cardinality(gone')
      BY <1>s, <2>1, FS_EmptySet DEF seedQueue
    <3>2. \A e \in Envs : inDegree'[e] = Cardinality(graph'[e] \ gone')
      BY <1>s, <2>1, <2>2 DEF seedQueue
    <3>3. \A e \in Envs : e \in queue' \cup gone' <=> graph'[e] \subseteq gone'
      BY <1>s, <2>1, <2>3, <2>4 DEF seedQueue
    <3>4. QED
      BY <3>1, <3>2, <3>3 DEF LoopInv
  <2>7. QED
    BY <1>s, <2>1, <2>5, <2>6 DEF seedQueue, GraphInv, VerdictExact, Knot, Known
<1>r. CASE remove
  <2>1. PICK b \in queue :
          /\ removed' = removed + 1
          /\ gone' = gone \cup {b}
          /\ inDegree' = [e \in Envs |-> IF b \in graph[e] THEN inDegree[e] - 1 ELSE inDegree[e]]
          /\ queue' = (queue \ {b}) \cup {e \in Envs : b \in graph[e] /\ inDegree'[e] = 0}
    BY <1>r DEF remove
  <2>2. step = "remove" /\ graph' = graph /\ step' = step /\ verdict' = verdict /\ verdict = "none"
    BY <1>r DEF remove, GraphInv
  <2>3. LoopInv /\ Known(graph)
    BY <2>2 DEF GraphInv
  <2>4. b \in Envs /\ b \notin gone /\ gone \in SUBSET Envs /\ gone' \in SUBSET Envs
    BY <1>t, <2>1 DEF GraphTypeOK
  <2>5. graph[b] \subseteq gone /\ b \notin graph[b]
    BY <2>3, <2>4 DEF LoopInv
  <2>6. \A e \in Envs : inDegree'[e] = Cardinality(graph[e] \ gone')
    <3> TAKE e \in Envs
    <3>1. graph[e] \in SUBSET Envs
      BY <2>3 DEF Known
    <3>2. inDegree[e] = Cardinality(graph[e] \ gone)
      BY <2>3 DEF LoopInv
    <3>3. /\ b \in graph[e] => Cardinality(graph[e] \ (gone \cup {b})) = Cardinality(graph[e] \ gone) - 1
          /\ b \notin graph[e] => graph[e] \ (gone \cup {b}) = graph[e] \ gone
      BY <2>4, <3>1, OneLess
    <3>4. QED
      BY <2>1, <3>2, <3>3
  <2>7. \A e \in Envs : inDegree'[e] \in 0 .. N /\ (inDegree'[e] = 0 <=> graph[e] \subseteq gone')
    <3> TAKE e \in Envs
    <3>1. graph[e] \in SUBSET Envs
      BY <2>3 DEF Known
    <3>2. Cardinality(graph[e] \ gone') \in 0 .. N /\ (Cardinality(graph[e] \ gone') = 0 <=> graph[e] \subseteq gone')
      BY <2>4, <3>1, ZeroLeft
    <3>3. QED
      BY <2>6, <3>2
  <2>8. inDegree' \in [Envs -> 0 .. N]
    BY <2>1, <2>7
  <2>9. removed' = Cardinality(gone') /\ removed' \in 0 .. N
    <3>1. IsFiniteSet(gone) /\ Cardinality(gone') \in 0 .. N
      BY <2>4, EnvsCount
    <3>2. Cardinality(gone \cup {b}) = Cardinality(gone) + 1
      BY <2>4, <3>1, FS_AddElement
    <3>3. QED
      BY <2>1, <2>3, <3>1, <3>2 DEF LoopInv
  <2>10. \A e \in Envs : e \in queue' \cup gone' <=> graph[e] \subseteq gone'
    <3> TAKE e \in Envs
    <3>1. e \in queue \cup gone <=> graph[e] \subseteq gone
      BY <2>3 DEF LoopInv
    <3>2. CASE b \in graph[e]
      <4>1. e # b /\ e \notin queue \cup gone
        BY <2>4, <2>5, <3>1, <3>2
      <4>2. e \in queue' \cup gone' <=> inDegree'[e] = 0
        BY <2>1, <3>2, <4>1
      <4>3. QED
        BY <2>7, <4>2
    <3>3. CASE b \notin graph[e]
      <4>1. graph[e] \subseteq gone' <=> graph[e] \subseteq gone
        BY <2>1, <3>3
      <4>2. e \in queue' \cup gone' <=> e \in queue \cup gone
        BY <2>1, <3>3
      <4>3. QED
        BY <3>1, <4>1, <4>2
    <3>4. QED
      BY <3>2, <3>3
  <2>11. queue' \cap gone' = {} /\ queue' \subseteq Envs
    <3>1. \A e \in Envs : b \in graph[e] => e \notin gone /\ e # b
      BY <2>3, <2>4, <2>5 DEF LoopInv
    <3>2. QED
      BY <1>t, <2>1, <3>1 DEF GraphTypeOK
  <2>12. GraphTypeOK'
    BY <1>t, <2>2, <2>4, <2>8, <2>9, <2>11 DEF GraphTypeOK
  <2>13. ASSUME NEW S, Knot(S)' PROVE S \cap gone' = {}
    <3>1. Knot(S)
      BY <2>2, <2>13 DEF Knot
    <3>2. S \cap gone = {}
      BY <3>1 DEF GraphInv
    <3>3. b \notin S
      BY <2>5, <3>1, <3>2 DEF Knot
    <3>4. QED
      BY <2>1, <3>2, <3>3
  <2>14. LoopInv'
    BY <2>2, <2>6, <2>9, <2>10 DEF LoopInv
  <2>15. VerdictExact'
    BY <2>2 DEF VerdictExact
  <2>16. QED
    BY <2>2, <2>3, <2>12, <2>13, <2>14, <2>15 DEF GraphInv, Known
<1>d. CASE decide
  <2>1. /\ step = "remove" /\ queue = {} /\ graph' = graph /\ gone' = gone /\ step' = "done"
        /\ verdict' = IF removed # N THEN "cycle" ELSE "valid"
    BY <1>d DEF decide
  <2>2. LoopInv /\ Known(graph) /\ gone \in SUBSET Envs
    BY <1>t, <2>1 DEF GraphInv, GraphTypeOK
  <2>3. ASSUME removed = N PROVE Acyclic(graph)
    <3>1. gone = Envs
      BY <2>2, <2>3, EnvsCount DEF LoopInv
    <3> SUFFICES ASSUME NEW S \in SUBSET Envs, S # {}, \A e \in S : graph[e] \cap S # {}
                 PROVE  FALSE
      BY DEF Acyclic
    <3>2. Knot(S)
      BY DEF Knot
    <3>3. QED
      BY <3>1, <3>2 DEF GraphInv
  <2>4. ASSUME removed # N PROVE ~Acyclic(graph)
    <3> DEFINE Rest == Envs \ gone
    <3>1. gone # Envs
      BY <2>2, <2>4, EnvsFinite DEF LoopInv
    <3>2. Rest # {} /\ Rest \in SUBSET Envs
      BY <2>2, <3>1
    <3>3. \A e \in Rest : graph[e] \cap Rest # {}
      BY <2>1, <2>2 DEF LoopInv, Known
    <3>4. QED
      BY <3>2, <3>3 DEF Acyclic
  <2>5. VerdictExact'
    <3>1. CASE removed = N
      BY <2>1, <2>2, <2>3, <3>1 DEF VerdictExact, Known, Acyclic
    <3>2. CASE removed # N
      BY <2>1, <2>2, <2>4, <3>2 DEF VerdictExact, Known, Acyclic
    <3>3. QED
      BY <3>1, <3>2
  <2>6. QED
    BY <1>d, <1>t, <2>1, <2>5 DEF decide, GraphInv, GraphTypeOK, Knot
<1>u. CASE UNCHANGED graphVars
  BY <1>u DEF graphVars, GraphInv, GraphTypeOK, LoopInv, VerdictExact, Knot, Known, Acyclic
<1>q. QED
  BY <1>g, <1>s, <1>r, <1>d, <1>u DEF GraphNext

\* Degrees, queue and counter stay in range on every graph: no degree is taken
\* below zero, no environment is removed twice.
THEOREM GraphTypeCorrect == GraphSpec => []GraphTypeOK
<1>1. GraphInv => GraphTypeOK
  BY DEF GraphInv
<1>2. QED
  BY <1>1, GraphInitInv, GraphStep, PTL DEF GraphSpec

\* validateDAG accepts a dependency graph if and only if its references resolve
\* and it has no cycle, whatever the number of environments.
THEOREM ValidationIsExact == GraphSpec => []VerdictExact
<1>1. GraphInv => VerdictExact
  BY DEF GraphInv
<1>2. QED
  BY <1>1, GraphInitInv, GraphStep, PTL DEF GraphSpec
=============================================================================
