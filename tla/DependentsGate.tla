--------------------------- MODULE DependentsGate ---------------------------
(***************************************************************************)
(* The DependentsSuccessfulCommitStatus controller: the gate that makes    *)
(* environments take a dry commit in the order of their dependencies.      *)
(*                                                                         *)
(* It sees the environments only through the status of the PromotionStra-  *)
(* tegy, which the other controllers copy together one environment at a    *)
(* time; it evaluates one such status and writes one CommitStatus per      *)
(* environment, bound to the hydrated commit proposed there.  Meanwhile    *)
(* the hydrator pushes, policies merge and health changes.                 *)
(*                                                                         *)
(* Dry commits are numbered in the order of their commit times, 0 is the   *)
(* empty string.  A hydrated commit is named by the dry commit it renders. *)
(* The hydrator renders dry commits in order and leaves out what changes   *)
(* nothing: then it only moves the git note on the proposed commit.        *)
(***************************************************************************)
EXTENDS Environments

CONSTANTS MaxDry,       \* dry commits
          MaxPushes,    \* commits and notes the hydrator pushes
          MaxTroubles,  \* times an environment falls ill or a reconcile is cut short
          Strategies    \* values of spec.environments[*].dependsOn

ASSUME GateAssumption == 
    /\ MaxDry \in Nat \ {0} /\ MaxPushes \in Nat /\ MaxTroubles \in Nat
    /\ Strategies \subseteq Declarations

Dries == 0 .. MaxDry

\* EnvironmentStatus: dry commit of the active and of the proposed branch, the
\* one in the note on the proposed commit, and whether the active commit
\* statuses pass.  Blank is the status of an environment not yet reported.
EnvironmentStatus == [act: Dries, prop: Dries, note: Dries, ok: BOOLEAN]
Blank == [act |-> 0, prop |-> 0, note |-> 0, ok |-> TRUE]

\* The CommitStatus of an environment: the commit it is about and its phase.
CommitStatus == [sha: Dries, success: BOOLEAN]
NoStatus == [sha |-> 0, success |-> FALSE]

VARIABLES
    dependsOn,  \* the resolved graph
    env,        \* the environments as they are
    shown,      \* the PromotionStrategy's status
    gates,      \* the CommitStatus of each environment
    at,         \* environment the reconcile in progress is at, 0 when there is none
    due,        \* what it writes: NoStatus where there is nothing to gate
    targets,    \* history: dry commits the proposed commit has been hydrated for
    taken,      \* history: dry commits that were active and healthy
    passed,     \* history: dry commits that changed nothing in a healthy environment
    pushes, troubles    \* so far

vars == <<dependsOn, env, shown, gates, at, due, targets, taken, passed, pushes, troubles>>

-----------------------------------------------------------------------------
(* The evaluation of one status s.                                         *)

getEffectiveHydratedDrySha(v) == IF v.note # 0 THEN v.note ELSE v.prop

\* isUpstreamPending, for one upstream that is not pending: hydrated for the
\* target; on the target, and not behind the time of the environment that asks,
\* or a no-op for it without pending changes; healthy.
\* Mutant: pending changes of a no-op are overlooked.
meetsWithPending(v, target, time) ==
    /\ getEffectiveHydratedDrySha(v) = target
    /\ IF v.act = target THEN v.act >= time
       ELSE getEffectiveHydratedDrySha(v) # v.prop
    /\ v.ok

\* Mutant: only an upstream that is on the target will do.
meetsOnlyMerged(v, target, time) ==
    getEffectiveHydratedDrySha(v) = target /\ v.act = target /\ v.act >= time /\ v.ok

meets(v, target, time) ==
    /\ getEffectiveHydratedDrySha(v) = target
    /\ IF v.act = target THEN v.act >= time
       ELSE getEffectiveHydratedDrySha(v) # v.prop /\ v.act = v.prop
    /\ v.ok

\* evaluateUpstreams: the upstreams are satisfied if they meet the target and,
\* behind the ones that are no-ops, so do theirs.  The source recurses, which
\* on a valid graph finds the set S if there is one.
isPending(s, upstreams, target, time) ==
    ~\E S \in SUBSET Envs :
        /\ upstreams \subseteq S
        /\ \A u \in S : meets(s[u], target, time) /\ (s[u].act = target \/ dependsOn[u] \subseteq S)

\* What updateDependentsSuccessfulCommitStatus writes for e.
Report(s, e) ==
    IF s[e].act = s[e].prop THEN NoStatus
    ELSE [sha |-> s[e].prop,
          success |-> ~isPending(s, dependsOn[e], getEffectiveHydratedDrySha(s[e]), s[e].act)]

-----------------------------------------------------------------------------
(* The controller.                                                         *)

\* Evaluates the status that the strategy shows.
Evaluate ==
    /\ at = 0 /\ at' = 1
    /\ due' = [e \in Envs |-> Report(shown, e)]
    /\ UNCHANGED <<dependsOn, env, shown, gates, targets, taken, passed, pushes, troubles>>

\* On a graph that validateDAG rejects Reconcile returns an error and changes
\* nothing.
Reconcile == Known(dependsOn) /\ Acyclic(dependsOn) /\ Evaluate

Finish == at' = 0 /\ due' = [e \in Envs |-> NoStatus]

\* Mutant: one turn too many.
createOrUpdateBeyond ==
    /\ at \in Envs
    /\ gates' = IF due[at].sha = 0 THEN gates ELSE [gates EXCEPT ![at] = due[at]]
    /\ at' = at + 1 /\ due' = due
    /\ UNCHANGED <<dependsOn, env, shown, targets, taken, passed, pushes, troubles>>

\* One turn of the loop: an environment with nothing to promote keeps its last
\* CommitStatus.
createOrUpdateDependentsSuccessfulCommitStatus ==
    /\ at # 0
    /\ gates' = IF due[at].sha = 0 THEN gates ELSE [gates EXCEPT ![at] = due[at]]
    /\ IF at = N THEN Finish ELSE at' = at + 1 /\ due' = due
    /\ UNCHANGED <<dependsOn, env, shown, targets, taken, passed, pushes, troubles>>

\* A call fails, or the process restarts, between two environments.
Abort ==
    /\ at # 0 /\ troubles < MaxTroubles
    /\ troubles' = troubles + 1
    /\ Finish
    /\ UNCHANGED <<dependsOn, env, shown, gates, targets, taken, passed, pushes>>

-----------------------------------------------------------------------------
(* The environments.                                                       *)

\* Keeps the history of e, whose new status is v.
Becomes(e, v) ==
    /\ env' = [env EXCEPT ![e] = v]
    /\ taken' = [taken EXCEPT ![e] = IF v.ok THEN @ \cup {v.act} ELSE @]
    /\ passed' = [passed EXCEPT ![e] =
                     IF v.ok /\ v.act = v.prop THEN @ \cup {getEffectiveHydratedDrySha(v)} ELSE @]
    /\ (env[e].ok /\ ~v.ok) => troubles < MaxTroubles
    /\ troubles' = IF env[e].ok /\ ~v.ok THEN troubles + 1 ELSE troubles
    /\ UNCHANGED <<dependsOn, shown, gates, at, due>>

\* The policy merges the proposed commit once the CommitStatus found for it is a
\* success.  (ChangeTransferPolicy has the policy's own steps.)  The active
\* commit statuses of the new commit may be pending, or there may be none.
Promote(e) ==
    /\ env[e].act # env[e].prop
    /\ gates[e] = [sha |-> env[e].prop, success |-> TRUE]
    /\ \E ok \in BOOLEAN : Becomes(e, [env[e] EXCEPT !.act = env[e].prop, !.ok = ok])
    /\ UNCHANGED <<targets, pushes>>

\* The active commit statuses begin or cease to pass.
Health(e) ==
    /\ Becomes(e, [env[e] EXCEPT !.ok = ~env[e].ok])
    /\ UNCHANGED <<targets, pushes>>

\* A new proposed commit.
PushCommit(e) ==
    /\ pushes < MaxPushes /\ pushes' = pushes + 1
    /\ \E d \in Dries :
        /\ d > getEffectiveHydratedDrySha(env[e])
        /\ Becomes(e, [env[e] EXCEPT !.prop = d, !.note = 0])
        /\ targets' = [targets EXCEPT ![e] = {d}]

\* A note for the dry commit just rendered, or for one that changed nothing.
PushNote(e) ==
    /\ pushes < MaxPushes /\ pushes' = pushes + 1
    /\ \E d \in Dries :
        /\ d > env[e].note /\ d >= env[e].prop
        /\ Becomes(e, [env[e] EXCEPT !.note = d])
        /\ targets' = [targets EXCEPT ![e] = @ \cup {d}]

\* The policy refreshes its status and the strategy copies it.
Publish(e) ==
    /\ shown[e] # env[e]
    /\ shown' = [shown EXCEPT ![e] = env[e]]
    /\ UNCHANGED <<dependsOn, env, gates, at, due, targets, taken, passed, pushes, troubles>>

-----------------------------------------------------------------------------
Init ==
    /\ dependsOn \in {resolveDependentEnvironments(g) : g \in Strategies}
    /\ env = [e \in Envs |-> [act |-> 1, prop |-> 1, note |-> 0, ok |-> TRUE]]
    /\ shown = [e \in Envs |-> Blank]
    /\ gates = [e \in Envs |-> NoStatus]
    /\ at = 0 /\ due = [e \in Envs |-> NoStatus]
    /\ targets = [e \in Envs |-> {1}] /\ taken = targets /\ passed = targets
    /\ pushes = 0 /\ troubles = 0

Controller == Reconcile \/ createOrUpdateDependentsSuccessfulCommitStatus

Next ==
    \/ Controller \/ Abort
    \/ \E e \in Envs : Promote(e) \/ Health(e) \/ PushCommit(e) \/ PushNote(e) \/ Publish(e)

\* What the gate does, given only what validateDAG has to decide: it evaluates
\* nothing on a graph with an unknown branch or a cycle.  DependentsController,
\* in which the verdict is computed, implements it.
Spec == Init /\ [][Next]_vars

-----------------------------------------------------------------------------
\* Every variable has its type.
TypeOK ==
    /\ dependsOn \in [Envs -> SUBSET (Envs \cup {Stranger})]
    /\ env \in [Envs -> EnvironmentStatus] /\ shown \in [Envs -> EnvironmentStatus]
    /\ gates \in [Envs -> CommitStatus] /\ due \in [Envs -> CommitStatus]
    /\ at \in 0 .. N /\ pushes \in 0 .. MaxPushes /\ troubles \in 0 .. MaxTroubles
    /\ targets \in [Envs -> SUBSET Dries]
    /\ taken \in [Envs -> SUBSET Dries] /\ passed \in [Envs -> SUBSET Dries]

\* The environments of E have had d: each was healthy with d active, or healthy
\* when d changed nothing in it, and then its own upstreams have had d.
HaveHad(E, d) ==
    \E S \in SUBSET Envs :
        /\ E \subseteq S
        /\ \A u \in S : d \in taken[u] \/ (d \in passed[u] /\ dependsOn[u] \subseteq S)

\* An environment takes a commit only after its upstreams have had a dry commit
\* the proposed commit stands for, however stale the status the gate was
\* evaluated on, the gate itself, and the order in which environments report.
Ordered ==
    [][\A e \in Envs : env'[e].act # env[e].act => \E d \in targets[e] : HaveHad(dependsOn[e], d)]_vars

\* Every environment is hydrated for the same dry commit and healthy.
Settled ==
    /\ Known(dependsOn) /\ Acyclic(dependsOn)
    /\ \A e, f \in Envs : getEffectiveHydratedDrySha(env[e]) = getEffectiveHydratedDrySha(env[f])
    /\ \A e \in Envs : env[e].ok

\* Once the hydrator is done and the environments stay healthy, what is proposed
\* anywhere is promoted: the gates do not wait for each other.
EverythingIsPromoted == <>[]Settled => <>[](\A e \in Envs : env[e].act = env[e].prop)
=============================================================================
