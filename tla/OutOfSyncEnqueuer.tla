------------------------- MODULE OutOfSyncEnqueuer -------------------------
(***************************************************************************)
(* The part of the PromotionStrategy controller that wakes the policies    *)
(* whose status lags behind their siblings'.  SCMs send no webhook for a   *)
(* pushed git note, so a policy finds a note only when something makes it  *)
(* reconcile.  Each pass over the strategy compares the effective proposed *)
(* dry commit of every policy with that of the policy whose hydrated       *)
(* commit is the newest, nudges the ones that differ, and starts a chain   *)
(* of timers that nudges again every threshold while the difference lasts. *)
(*                                                                         *)
(* The passes, the timers of the chains and the hourly sweep run           *)
(* concurrently; they share the map of enqueue states, under one mutex     *)
(* that is not held across a nudge.                                        *)
(*                                                                         *)
(* Time is counted in fractions of the threshold; an hour is an event.     *)
(* Environments are numbered in the order of spec.environments.  Dry       *)
(* commits are numbers, 0 is the empty string.                             *)
(***************************************************************************)
EXTENDS Integers

CONSTANTS N,            \* environments of the strategy
          MaxDry,       \* dry commits
          MaxPushes,    \* commits and notes the hydrator pushes
          Threshold,    \* enqueueThreshold, in ticks
          MaxChains,    \* timers per environment
          MaxRestarts   \* restarts of the process

ASSUME EnqueuerAssumption ==
    /\ N \in Nat \ {0} /\ MaxDry \in Nat \ {0} /\ MaxPushes \in Nat
    /\ Threshold \in Nat \ {0} /\ MaxChains \in Nat \ {0} /\ MaxRestarts \in Nat

Envs  == 1 .. N
Slots == 1 .. MaxChains
Dries == 0 .. MaxDry

\* Proposed branch of an environment: dry commit of the tip, dry commit in the
\* git note on it (0: no note), commit time.
Proposed == [dry: Dries, note: Dries, time: 0 .. MaxPushes]

\* ctpDisagreement: own and target effective dry commit; Zero is its zero value.
Disagreements == Dries \X Dries
Zero == <<0, 0>>

\* ctpEnqueueState.  has: the map holds the key; seen: lastSeenTime is less
\* than an hour ago; age: time since lastEnqueueTime, up to the threshold.
EnqueueState == [has: BOOLEAN, armed: Disagreements, seen: BOOLEAN, age: 0 .. Threshold]
NoState == [has |-> FALSE, armed |-> Zero, seen |-> FALSE, age |-> Threshold]

\* A timer of a chain: off, waiting for its time, or past the check for
\* staleness and about to nudge.
Timer == [st: {"off", "wait", "nudge"}, d: Disagreements, left: 0 .. Threshold]
Off   == [st |-> "off", d |-> Zero, left |-> 0]

\* A pass over the strategy: the environment it is at (0: no pass), the
\* disagreement of each environment (Zero: in sync), whether it has armed the
\* state of the environment it is at, and found it rate limited.
PassType == [at: 0 .. N, gap: [Envs -> Disagreements], armed: BOOLEAN, limited: BOOLEAN]
NoPass   == [at |-> 0, gap |-> [e \in Envs |-> Zero], armed |-> FALSE, limited |-> FALSE]

VARIABLES
    git,       \* the proposed branches
    shown,     \* what the policies' statuses show of them
    pushes,    \* commits and notes pushed so far
    nudged,    \* policies whose key is on the workqueue
    woken,     \* the strategy's key is on the workqueue
    pass,      \* the pass in progress
    states,    \* enqueueStates
    timers,    \* pending time.AfterFunc of startRetryChain
    live,      \* environments that still have a policy
    noteBased, \* the strategy is in noteBasedHydratorPromotionStrategies
    restarts

vars  == <<git, shown, pushes, nudged, woken, pass, states, timers, live, noteBased, restarts>>

-----------------------------------------------------------------------------
(* enqueueOutOfSyncCTPs.                                                   *)

getEffectiveProposedDrySha(p) == IF p.note # 0 THEN p.note ELSE p.dry

\* The environment with the newest hydrated commit, the first of them in list
\* order, among those that show a dry commit.
Newest(p) ==
    {e \in live : /\ getEffectiveProposedDrySha(p[e]) # 0
                  /\ \A f \in live : getEffectiveProposedDrySha(p[f]) # 0 =>
                       p[f].time < p[e].time \/ (p[f].time = p[e].time /\ e <= f)}

\* Effective dry commit of the newest environment; 0 when no environment shows one.
Target(p) == IF Newest(p) = {} THEN 0
             ELSE getEffectiveProposedDrySha(p[CHOOSE e \in Newest(p) : TRUE])

OutOfSync(p, e, notes) ==
    /\ Target(p) # 0
    /\ getEffectiveProposedDrySha(p[e]) # Target(p) \/ (notes /\ p[e].note = 0)

\* First environment from e on that has a policy; 0 when the pass is over.
From(e) == IF \E f \in live : f >= e
           THEN CHOOSE f \in live : f >= e /\ \A g \in live : g >= e => f <= g
           ELSE 0

\* The statuses are those of one instant; the code takes each from its own Patch of
\* the policy, some calls apart.
Reconcile ==
    /\ woken /\ pass.at = 0
    /\ woken' = FALSE
    /\ noteBased' = (noteBased \/ \E e \in live : shown[e].note # 0)
    /\ pass' = IF Target(shown) = 0 THEN NoPass
               ELSE [NoPass EXCEPT
                       !.at = From(1),
                       !.gap = [e \in Envs |->
                                  IF e \in live /\ OutOfSync(shown, e, noteBased')
                                  THEN <<getEffectiveProposedDrySha(shown[e]), Target(shown)>>
                                  ELSE Zero]]
    /\ UNCHANGED <<git, shown, pushes, nudged, states, timers, live, restarts>>

\* Mutant: the next number, policy or not.
AdvanceBlindly ==
    pass' = IF pass.at > N THEN NoPass
            ELSE [pass EXCEPT !.at = @ + 1, !.armed = FALSE, !.limited = FALSE]

Advance ==
    pass' = IF From(pass.at + 1) = 0 THEN NoPass
            ELSE [pass EXCEPT !.at = From(pass.at + 1), !.armed = FALSE, !.limited = FALSE]

markConverged ==
    /\ pass.at # 0 /\ pass.gap[pass.at] = Zero
    /\ states' = IF states[pass.at].has
                 THEN [states EXCEPT ![pass.at].armed = Zero, ![pass.at].seen = TRUE]
                 ELSE states
    /\ Advance
    /\ UNCHANGED <<git, shown, pushes, nudged, woken, timers, live, noteBased, restarts>>

\* handleRateLimitedEnqueue up to the unlock.  The model has timers enough, or
\* waits for one to end.
handleRateLimitedEnqueue ==
    /\ pass.at # 0 /\ pass.gap[pass.at] # Zero /\ ~pass.armed
    /\ \E k \in Slots : timers[pass.at][k].st = "off"
    /\ LET e == pass.at
           d == pass.gap[e]
       IN  /\ states' = [states EXCEPT ![e].has = TRUE, ![e].seen = TRUE, ![e].armed = d]
           /\ IF states[e].armed = d
              THEN Advance
              ELSE pass' = [pass EXCEPT !.armed = TRUE, !.limited = states[e].age < Threshold]
    /\ UNCHANGED <<git, shown, pushes, nudged, woken, timers, live, noteBased, restarts>>

\* enqueue: the state is created again if the sweep has just removed it.
\* Mutant: a nudge counts as having seen the policy.
enqueueSeen(e) ==
    /\ states' = [states EXCEPT ![e].has = TRUE, ![e].age = 0, ![e].seen = TRUE]
    /\ nudged' = nudged \cup {e}

enqueue(e) ==
    /\ states' = [states EXCEPT ![e].has = TRUE, ![e].age = 0]
    /\ nudged' = nudged \cup {e}

Waiting(d) == [st |-> "wait", d |-> d, left |-> Threshold]

\* The rest of handleRateLimitedEnqueue: nudge unless rate limited, and start
\* a chain in the first free slot.
\* Mutant: a rate-limited disagreement starts no chain.
startRetryChainUnlimited ==
    /\ pass.armed
    /\ \E k \in Slots :
         /\ timers[pass.at][k].st = "off" /\ \A j \in 1 .. k - 1 : timers[pass.at][j].st # "off"
         /\ timers' = IF pass.limited THEN timers
                      ELSE [timers EXCEPT ![pass.at][k] = Waiting(pass.gap[pass.at])]
    /\ IF pass.limited THEN UNCHANGED <<states, nudged>> ELSE enqueue(pass.at)
    /\ Advance
    /\ UNCHANGED <<git, shown, pushes, woken, live, noteBased, restarts>>

startRetryChain ==
    /\ pass.armed
    /\ \E k \in Slots :
         /\ timers[pass.at][k].st = "off" /\ \A j \in 1 .. k - 1 : timers[pass.at][j].st # "off"
         /\ timers' = [timers EXCEPT ![pass.at][k] = Waiting(pass.gap[pass.at])]
    /\ IF pass.limited THEN UNCHANGED <<states, nudged>> ELSE enqueue(pass.at)
    /\ Advance
    /\ UNCHANGED <<git, shown, pushes, woken, live, noteBased, restarts>>

-----------------------------------------------------------------------------
(* The timers of the chains, the sweep, the restart.                       *)

\* A timer fires: a chain whose disagreement is not the armed one any more ends.
\* Mutant: a chain nudges once.
checkOnce(e, k) ==
    /\ timers[e][k].st = "wait" /\ timers[e][k].left = 0
    /\ timers' = [timers EXCEPT ![e][k] = Off]
    /\ UNCHANGED <<git, shown, pushes, nudged, woken, pass, states, live, noteBased, restarts>>

check(e, k) ==
    /\ timers[e][k].st = "wait" /\ timers[e][k].left = 0
    /\ timers' = [timers EXCEPT ![e][k] =
                     IF states[e].has /\ states[e].armed = @.d THEN [@ EXCEPT !.st = "nudge"] ELSE Off]
    /\ UNCHANGED <<git, shown, pushes, nudged, woken, pass, states, live, noteBased, restarts>>

\* The chain nudges and starts its next timer.
retry(e, k) ==
    /\ timers[e][k].st = "nudge"
    /\ timers' = [timers EXCEPT ![e][k] = Waiting(@.d)]
    /\ enqueue(e)
    /\ UNCHANGED <<git, shown, pushes, woken, pass, live, noteBased, restarts>>

\* startCleanupTimer: states not seen for an hour are removed.
sweep(e) ==
    /\ states[e].has /\ ~states[e].seen
    /\ states' = [states EXCEPT ![e] = NoState]
    /\ UNCHANGED <<git, shown, pushes, nudged, woken, pass, timers, live, noteBased, restarts>>

\* The process restarts: every policy and the strategy are listed and queued.
Restart ==
    /\ restarts < MaxRestarts
    /\ restarts' = restarts + 1
    /\ nudged' = live /\ woken' = TRUE /\ noteBased' = FALSE
    /\ pass' = NoPass
    /\ states' = [e \in Envs |-> NoState]
    /\ timers' = [e \in Envs |-> [k \in Slots |-> Off]]
    /\ UNCHANGED <<git, shown, pushes, live>>

-----------------------------------------------------------------------------
(* Time and the other actors.                                              *)

\* Timers fire when they are due, and between the release of the mutex and the
\* nudge no time passes that this clock can tell.
Tick ==
    /\ ~pass.armed
    /\ \A e \in Envs, k \in Slots : timers[e][k].st = "off" \/ timers[e][k].left > 0
    /\ \E e \in Envs : states[e].age < Threshold \/ \E k \in Slots : timers[e][k].left > 0
    /\ states' = [e \in Envs |-> [states[e] EXCEPT !.age = IF @ < Threshold THEN @ + 1 ELSE @]]
    /\ timers' = [e \in Envs |-> [k \in Slots |->
                     [timers[e][k] EXCEPT !.left = IF @ > 0 THEN @ - 1 ELSE 0]]]
    /\ UNCHANGED <<git, shown, pushes, nudged, woken, pass, live, noteBased, restarts>>

\* An hour goes by in which no pass considers e: it has no policy any more.  (The
\* passes over the others are minutes apart.)
Hour(e) ==
    /\ e \notin live /\ states[e].seen
    /\ states' = [states EXCEPT ![e].seen = FALSE]
    /\ UNCHANGED <<git, shown, pushes, nudged, woken, pass, timers, live, noteBased, restarts>>

\* A policy reconciles: it fetches the branch and its note.  A changed status
\* wakes the strategy, which owns the policy.
Refresh(e) ==
    /\ shown' = [shown EXCEPT ![e] = git[e]]
    /\ woken' = (woken \/ shown[e] # git[e])
    /\ nudged' = nudged \ {e}
    /\ UNCHANGED <<git, pushes, pass, states, timers, live, noteBased, restarts>>

CTPReconcile(e) == e \in nudged /\ e \in live /\ Refresh(e)

\* The strategy's RequeueAfter.
Requeue ==
    /\ pass.at = 0 /\ ~woken
    /\ woken' = TRUE
    /\ UNCHANGED <<git, shown, pushes, nudged, pass, states, timers, live, noteBased, restarts>>

\* The policy's own requeue, which may be far away.
CTPRequeue(e) == e \in live /\ shown[e] # git[e] /\ Refresh(e)

\* A new hydrated commit, of the same or of a later dry commit; its webhook may
\* be lost.
PushCommit(e) ==
    /\ pushes < MaxPushes
    /\ pushes' = pushes + 1
    /\ \E d \in git[e].dry .. MaxDry :
         git' = [git EXCEPT ![e] = [dry |-> d, note |-> 0, time |-> pushes + 1]]
    /\ \E lost \in BOOLEAN : nudged' = IF lost THEN nudged ELSE nudged \cup {e}
    /\ UNCHANGED <<shown, woken, pass, states, timers, live, noteBased, restarts>>

\* A git note on the tip: for its own dry commit, or for a later one that
\* changed nothing here.  No webhook.
PushNote(e) ==
    /\ pushes < MaxPushes
    /\ pushes' = pushes + 1
    /\ \E d \in git[e].dry .. MaxDry :
         /\ d > git[e].note
         /\ git' = [git EXCEPT ![e].note = d]
    /\ UNCHANGED <<shown, nudged, woken, pass, states, timers, live, noteBased, restarts>>

\* The environment is taken out of the strategy, its policy is deleted.
Remove(e) ==
    /\ e \in live /\ pass.at = 0
    /\ live' = live \ {e}
    /\ nudged' = nudged \ {e}
    /\ UNCHANGED <<git, shown, pushes, woken, pass, states, timers, noteBased, restarts>>

-----------------------------------------------------------------------------
Init ==
    /\ git = [e \in Envs |-> [dry |-> 1, note |-> 0, time |-> 0]]
    /\ shown = git
    /\ pushes = 0 /\ nudged = {} /\ woken = FALSE /\ live = Envs
    /\ pass = NoPass
    /\ states = [e \in Envs |-> NoState]
    /\ timers = [e \in Envs |-> [k \in Slots |-> Off]]
    /\ noteBased = FALSE /\ restarts = 0

Strategy == Requeue \/ Reconcile \/ markConverged \/ handleRateLimitedEnqueue \/ startRetryChain

Next ==
    \/ Strategy \/ Tick \/ Restart
    \/ \E e \in Envs :
         \/ \E k \in Slots : check(e, k) \/ retry(e, k)
         \/ sweep(e) \/ Hour(e) \/ CTPReconcile(e) \/ CTPRequeue(e)
         \/ PushCommit(e) \/ PushNote(e) \/ Remove(e)

Spec == Init /\ [][Next]_vars

\* The workqueues run what they hold, timers fire and an hour passes.  A policy's
\* own requeue is not counted on.
FairSpec ==
    /\ Spec
    /\ WF_vars(Strategy) /\ WF_vars(Tick)
    /\ \A e \in Envs :
         /\ WF_vars(CTPReconcile(e)) /\ WF_vars(sweep(e)) /\ WF_vars(Hour(e))
         /\ \A k \in Slots : WF_vars(check(e, k)) /\ WF_vars(retry(e, k))

-----------------------------------------------------------------------------
\* Every variable has its type.
TypeOK ==
    /\ git \in [Envs -> Proposed] /\ shown \in [Envs -> Proposed]
    /\ pushes \in 0 .. MaxPushes /\ restarts \in 0 .. MaxRestarts
    /\ nudged \subseteq Envs /\ live \subseteq Envs
    /\ woken \in BOOLEAN /\ noteBased \in BOOLEAN
    /\ pass \in PassType
    /\ states \in [Envs -> EnqueueState]
    /\ timers \in [Envs -> [Slots -> Timer]]

\* A state armed for a disagreement has a chain that will nudge for it, or the
\* pass is about to start one: as handleRateLimitedEnqueue does nothing for the
\* armed disagreement, a policy without a chain would not be nudged again.
ArmedHasChain ==
    \A e \in Envs : states[e].armed # Zero =>
        \/ \E k \in Slots : timers[e][k].st # "off" /\ timers[e][k].d = states[e].armed
        \/ pass.at = e /\ pass.armed /\ pass.gap[e] = states[e].armed

\* Once the hydrator is done, the status of a policy that disagrees with its
\* siblings shows what its branch holds, although no webhook announces a note.
LaggardsAreRefreshed ==
    <>[](\A e \in live : OutOfSync(shown, e, noteBased) => shown[e] = git[e])

\* The chains of a policy that is gone end: the sweep removes its state.
ChainsOfRemovedEnd ==
    \A e \in Envs : [](e \notin live => <>[](\A k \in Slots : timers[e][k].st = "off"))
=============================================================================
