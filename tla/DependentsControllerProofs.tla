--------------------- MODULE DependentsControllerProofs ---------------------
(***************************************************************************)
(* The controller with the computed verdict implements the gate that is    *)
(* told what validateDAG has to decide, for every number of environments   *)
(* and every graph; what is proved of the gate and of the validation each  *)
(* on its own holds of the two together.                                   *)
(***************************************************************************)
EXTENDS DependentsController, DependentsGateProofs, DependencyGraphProofs

\* The validation is of the graph that the gate evaluates on.
SameGraph == graph = dependsOn

LEMMA SameGraphInit == ControllerInit => SameGraph
BY DEF ControllerInit, SameGraph

LEMMA SameGraphStep == SameGraph /\ [ControllerNext]_controllerVars => SameGraph'
<1> SUFFICES ASSUME SameGraph, [ControllerNext]_controllerVars PROVE SameGraph'
  OBVIOUS
<1>1. CASE ValidateStep
  <2>1. graph' = graph
    BY <1>1 DEF ValidateStep, GraphNext, checkReferences, seedQueue, remove, decide
  <2>2. dependsOn' = dependsOn
    BY <1>1 DEF ValidateStep, vars
  <2>3. QED
    BY <2>1, <2>2 DEF SameGraph
<1>2. CASE GateStep
  <2>1. graph' = graph
    BY <1>2 DEF GateStep, graphVars
  <2>2. CASE ReconcileValidated
    <3>1. dependsOn' = dependsOn
      BY <2>2 DEF ReconcileValidated, Evaluate
    <3>2. QED
      BY <2>1, <3>1 DEF SameGraph
  <2>3. CASE createOrUpdateDependentsSuccessfulCommitStatus
    <3>1. dependsOn' = dependsOn
      BY <2>3, Zenon DEF createOrUpdateDependentsSuccessfulCommitStatus
    <3>2. QED
      BY <2>1, <3>1 DEF SameGraph
  <2>4. QED
    BY <1>2, <2>2, <2>3 DEF GateStep
<1>3. CASE EnvironmentStep
  <2>1. graph' = graph
    BY <1>3 DEF EnvironmentStep, Moves, graphVars
  <2>2. CASE Abort
    <3>1. dependsOn' = dependsOn
      BY <2>2, Zenon DEF Abort
    <3>2. QED
      BY <2>1, <3>1 DEF SameGraph
  <2>3. ASSUME NEW e \in Envs, NEW v, Becomes(e, v) PROVE dependsOn' = dependsOn
    BY <2>3, Zenon DEF Becomes
  <2>4. ASSUME NEW e \in Envs, Promote(e) \/ Health(e) \/ PushCommit(e) \/ PushNote(e) \/ Publish(e)
        PROVE  SameGraph'
    <3>1. CASE Publish(e)
      <4>1. dependsOn' = dependsOn
        BY <3>1, Zenon DEF Publish
      <4>2. QED
        BY <2>1, <4>1 DEF SameGraph
    <3>2. CASE ~Publish(e)
      <4>1. \E v : Becomes(e, v)
        BY <2>4, <3>2, Zenon DEF Promote, Health, PushCommit, PushNote
      <4>2. QED
        BY <2>1, <2>3, <4>1 DEF SameGraph
    <3>3. QED
      BY <3>1, <3>2
  <2>5. QED
    BY <1>3, <2>2, <2>4 DEF EnvironmentStep, Moves
<1>4. CASE UNCHANGED controllerVars
  BY <1>4 DEF controllerVars, vars, graphVars, SameGraph
<1>5. QED
  BY <1>1, <1>2, <1>3, <1>4 DEF ControllerNext

-----------------------------------------------------------------------------
(* The composition and its parts.                                          *)

\* The validation of the composition is the validation.
LEMMA ControllerValidates == ControllerSpec => GraphSpec
<1>1. ControllerInit => GraphInit
  BY DEF ControllerInit
<1>2. [ControllerNext]_controllerVars => [GraphNext]_graphVars
  BY DEF ControllerNext, ValidateStep, GateStep, EnvironmentStep, Moves, controllerVars
<1>3. QED
  BY <1>1, <1>2, PTL DEF ControllerSpec, GraphSpec

\* A step of the composition is one of the gate: with the verdict comes what it
\* stands for.
LEMMA ControllerRefines ==
    ASSUME SameGraph, VerdictExact, [ControllerNext]_controllerVars
    PROVE  [Next]_vars
<1>1. CASE ValidateStep
  BY <1>1 DEF ValidateStep
<1>2. CASE GateStep
  <2>1. CASE ReconcileValidated
    <3>1. verdict = "valid" /\ Evaluate
      BY <2>1 DEF ReconcileValidated
    <3>2. Known(dependsOn) /\ Acyclic(dependsOn)
      BY <3>1 DEF VerdictExact, SameGraph
    <3>3. QED
      BY <3>1, <3>2 DEF Next, Controller, Reconcile
  <2>2. CASE createOrUpdateDependentsSuccessfulCommitStatus
    BY <2>2 DEF Next, Controller
  <2>3. QED
    BY <1>2, <2>1, <2>2 DEF GateStep
<1>3. CASE EnvironmentStep
  BY <1>3 DEF EnvironmentStep, Moves, Next
<1>4. CASE UNCHANGED controllerVars
  BY <1>4 DEF controllerVars
<1>5. QED
  BY <1>1, <1>2, <1>3, <1>4 DEF ControllerNext

-----------------------------------------------------------------------------
(* The theorems.                                                           *)

\* The verdict that Reconcile waits for is exact, in the composition too.
THEOREM ControllerValidatesExactly == ControllerSpec => []VerdictExact
<1>1. QED
  BY ControllerValidates, ValidationIsExact

\* Reconcile with the verdict that Kahn's algorithm computes implements the gate
\* that evaluates nothing on a graph with an unknown branch or a cycle.
THEOREM ControllerImplementsGate == ControllerSpec => Spec
<1>1. ControllerSpec => [](SameGraph /\ VerdictExact)
  BY SameGraphInit, SameGraphStep, ControllerValidatesExactly, PTL DEF ControllerSpec
<1>2. ControllerInit => Init
  BY DEF ControllerInit
<1>3. SameGraph /\ VerdictExact /\ [ControllerNext]_controllerVars => [Next]_vars
  BY ControllerRefines
<1>4. QED
  BY <1>1, <1>2, <1>3, PTL DEF ControllerSpec, Spec

\* So environments take a dry commit in the order of their dependencies, on
\* whatever graph the strategy declares and the controller validates.
THEOREM ControllerIsOrdered == ControllerSpec => Ordered
<1>1. QED
  BY ControllerImplementsGate, PromotionIsOrdered
=============================================================================
