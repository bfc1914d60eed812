------------------------ MODULE DependentsController ------------------------
(***************************************************************************)
(* The DependentsSuccessfulCommitStatus controller with the validation of  *)
(* the graph as it is computed: DependencyGraph's removal of environments  *)
(* decides whether DependentsGate may evaluate.                            *)
(*                                                                         *)
(* The source validates the graph in every reconcile.  The graph is the    *)
(* strategy's spec and does not change here, so one validation stands for  *)
(* them all; it comes first, since it touches nothing that the others see. *)
(***************************************************************************)
EXTENDS DependentsGate, DependencyGraph

CONSTANT Explored   \* graphs whose environments move

ASSUME ExploredAssumption == Explored \subseteq Strategies

ValidateStep == GraphNext /\ UNCHANGED vars

\* Mutant: the verdict is not waited for.
ReconcileUnvalidated == Evaluate

\* Reconcile of the source: the verdict of validateDAG, then the evaluation.
ReconcileValidated == verdict = "valid" /\ Evaluate

GateStep ==
    /\ step = "done"
    /\ ReconcileValidated \/ createOrUpdateDependentsSuccessfulCommitStatus
    /\ UNCHANGED graphVars

Moves(A) ==
    /\ step = "done" /\ dependsOn \in {resolveDependentEnvironments(g) : g \in Explored}
    /\ A /\ UNCHANGED graphVars

EnvironmentStep ==
    \/ Moves(Abort)
    \/ \E e \in Envs : Moves(Promote(e) \/ Health(e) \/ PushCommit(e) \/ PushNote(e) \/ Publish(e))

ControllerInit == Init /\ GraphInit /\ graph = dependsOn

ControllerNext == ValidateStep \/ GateStep \/ EnvironmentStep

controllerVars == <<vars, graphVars>>

ControllerSpec == ControllerInit /\ [][ControllerNext]_controllerVars

\* The validation is one call that runs to its end; the workqueues run what they
\* hold.  Nothing is assumed of the hydrator or of the health of an environment.
ControllerFairSpec ==
    /\ ControllerSpec
    /\ WF_controllerVars(ValidateStep) /\ WF_controllerVars(GateStep)
    /\ \A e \in Envs : WF_controllerVars(Moves(Publish(e))) /\ WF_controllerVars(Moves(Promote(e)))
=============================================================================
