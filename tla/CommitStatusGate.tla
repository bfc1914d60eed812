-------------------------- MODULE CommitStatusGate --------------------------
(***************************************************************************)
(* A commit status gate on its way to a policy: the controller of the gate *)
(* (TimedCommitStatus, ScheduledCommitStatus, GitCommitStatus or polling   *)
(* WebRequestCommitStatus), the CommitStatus it upserts, the CommitStatus  *)
(* controller that publishes it and wakes the policies that it finds in a  *)
(* field index of the informer cache, and the policy's lookup.             *)
(*                                                                         *)
(* One environment and one gate, whose kind is chosen at the start.  The   *)
(* commits of the branch the gate reports on are numbered; 0 is none.  The *)
(* controller reads the PromotionStrategy's status, which follows the      *)
(* policy's, and its own status from the informer cache.  A reconcile is a *)
(* sequence of steps, one per call that leaves the process, except that    *)
(* the apply of the reconciler's own status, which nobody else reads, is   *)
(* joined to the call before it (a failure may come between the two).      *)
(*                                                                         *)
(* Time is a bounded clock of whole minutes.  A schedule's cron            *)
(* expressions are sets of starting minutes.  The expression of the Git    *)
(* gate is about the commit it reports on, that of the polling gates needs *)
(* a response.  A polling gate reports on the proposed commit, a           *)
(* monitoring one is a polling gate that reports on the active commit.     *)
(* Not modelled: trigger mode, the promotionstrategy context, templates    *)
(* and descriptions, time zones, the difference of failure and pending,    *)
(* the conditions, the gates' default requeue.                             *)
(***************************************************************************)
EXTENDS Integers, FiniteSets, FiniteSetsExt

CONSTANTS MaxSha,     \* commits of the branch
          MaxTime,    \* the clock's end
          Duration,   \* spec.environments[].duration of the timed gate
          Schedules,  \* schedules of the scheduled gate
          Kinds,      \* kinds of gate to look at
          Edited,     \* kinds of gate whose environment may leave the spec
          Lagging,    \* kinds of gate with which the index of policies may lag
          Failing,    \* kinds of gate with which calls fail and processes crash
          MaxFails    \* failed calls and crashes

Shas  == 1 .. MaxSha
Times == 0 .. MaxTime
Never == MaxTime + 1

\* A CronWindow: it opens at each start, for dur minutes.
IsSchedule(s) ==
    /\ IsFiniteSet(s.allow \cup s.exclude)
    /\ \A w \in s.allow \cup s.exclude : w.starts \subseteq Times /\ w.dur \in Nat \ {0}

NoSchedule == [allow |-> {}, exclude |-> {}]

\* Web-request gates in polling mode: reportOn proposed, and active.
Polling == {"polling", "monitoring"}

ASSUME GateAssumption ==
    /\ MaxSha \in Nat \ {0} /\ MaxTime \in Nat /\ Duration \in Nat
    /\ \A s \in Schedules : IsSchedule(s)
    /\ Kinds \subseteq {"timed", "scheduled", "git"} \cup Polling
    /\ Edited \subseteq Kinds /\ Lagging \subseteq Kinds /\ Failing \subseteq Kinds
    /\ MaxFails \in Nat

\* An entry of the gate's status.environments: commit, success, and whether
\* lastRequestTime is within the polling interval.
Entry   == [sha: 0 .. MaxSha, ok: BOOLEAN, recent: BOOLEAN]
NoEntry == [sha |-> 0, ok |-> FALSE, recent |-> FALSE]

\* Commit and success, in the spec of a CommitStatus and in a status.
View     == [sha: 0 .. MaxSha, ok: BOOLEAN]
NoStatus == [sha |-> 0, ok |-> FALSE]

\* A reconcile of the gate: the call it is at, its entry, whether it turned to
\* success, and when the schedule changes.
GIdle == [step |-> "idle", entry |-> NoEntry, turned |-> FALSE, due |-> Never]

VARIABLES
    kind, schedule,  \* of the gate
    now,
    tip,       \* the branch's commit
    since,     \* commit time of each commit
    service,   \* what service or expression say of a commit: no, yes, or no more
    listed,    \* the environment is in the gate's spec
    shown,     \* the environment in the PromotionStrategy's status
    gate, gateCache,   \* the gate's entry, and the informer's copy
    timer,     \* when the gate's requeue is due
    gateQueue, gateRec,
    cs, csCache,       \* the CommitStatus' spec, and the informer's copy
    published,         \* its status.sha
    csQueue, csRec,    \* the commit of the CommitStatus being reconciled, 0 if none
    view,      \* what the policy found last, in its status
    indexed,   \* the commit under which the field index has the policy
    missed,    \* history: the index was behind when a wake-up was due
    policyQueue,
    fails      \* so far

worldVars  == <<kind, schedule, now, tip, since, service>>
gateVars   == <<gate, gateCache, timer, gateQueue, gateRec>>
csVars     == <<csCache, csQueue, csRec>>
policyVars == <<view, indexed, missed, policyQueue>>
vars == <<worldVars, listed, shown, gateVars, cs, published, csVars, policyVars, fails>>

-----------------------------------------------------------------------------
(* Windows.                                                                *)

\* isInsideCronWindow: the starts whose window covers t.
Covering(w, t) == {x \in w.starts : t - w.dur < x /\ x <= t}

Inside(W, t) == {w \in W : Covering(w, t) # {}}

\* End of the latest such window.
WindowEnd(w, t) == Max(Covering(w, t)) + w.dur

NextStarts(W, t) == UNION {{x \in w.starts : x > t} : w \in W \ Inside(W, t)}

\* evaluateWindows: the phase.
Allows(s, t) ==
    /\ Inside(s.exclude, t) = {}
    /\ s.allow = {} \/ Inside(s.allow, t) # {}

\* Mutant: inside an allow window only its end is looked for.
transitionsOfAllow(s, t) ==
    IF Inside(s.exclude, t) # {} THEN {Max({WindowEnd(w, t) : w \in Inside(s.exclude, t)})}
    ELSE IF Inside(s.allow, t) # {} THEN {WindowEnd(w, t) : w \in Inside(s.allow, t)}
    ELSE NextStarts(s.exclude, t) \cup NextStarts(s.allow, t)

\* evaluateWindows: the transitions it reports.
transitions(s, t) ==
    IF Inside(s.exclude, t) # {} THEN {Max({WindowEnd(w, t) : w \in Inside(s.exclude, t)})}
    ELSE NextStarts(s.exclude, t) \cup
         (IF Inside(s.allow, t) # {} THEN {WindowEnd(w, t) : w \in Inside(s.allow, t)}
          ELSE NextStarts(s.allow, t))

-----------------------------------------------------------------------------
(* The controller of the gate.                                             *)

\* calculateRequeueDuration, as a point in time: a pending timed gate comes back
\* every minute, a scheduled one at its first transition; the rest wait for
\* the strategy to change.
timedRequeue(ok) == IF ok THEN Never ELSE Min({now + 1, MaxTime})

calculateRequeueDuration(ok, due) ==
    CASE kind = "timed" -> timedRequeue(ok)
      [] kind = "scheduled" -> due
      [] OTHER -> Never

\* Mutant: the scheduled gate does not look whether there is a proposed commit.
HasCommitUnlessScheduled == listed /\ (shown.sha # 0 \/ kind = "scheduled")

\* The environment has something to report on.
HasCommit == listed /\ shown.sha # 0

Begins(step, entry, turned, due) ==
    /\ gateQueue' = FALSE
    /\ gateRec' = [step |-> step, entry |-> entry, turned |-> turned, due |-> due]

\* With nothing to report there is only the cleanup.
CleansUp == Begins("cleanup", NoEntry, FALSE, Never)

\* An error, to be retried.
Errs == gateQueue' = TRUE /\ UNCHANGED gateRec

Report(ok) == [sha |-> shown.sha, ok |-> ok, recent |-> FALSE]

\* calculateCommitStatusPhase, by the age of the commit.
calculateCommitStatusPhase == now - since[shown.sha] >= Duration

\* Reconcile of the timed gate up to the upsert: it turns from pending only.
ReconcileTimed ==
    LET ok == calculateCommitStatusPhase
    IN  IF HasCommit
        THEN Begins("upsert", Report(ok), gateCache.sha # 0 /\ ~gateCache.ok /\ ok, Never)
        ELSE CleansUp

\* Of the scheduled gate: the first verdict may be a turn, too.
ReconcileScheduled ==
    LET ok == Allows(schedule, now)
    IN  IF HasCommit
        THEN Begins("upsert", Report(ok), ~gateCache.ok /\ ok, Min(transitions(schedule, now) \cup {Never}))
        ELSE CleansUp

evaluateExpression == service[shown.sha] = "yes"

\* Of the Git gate: a missing commit of an environment that is listed is an error.
ReconcileGit ==
    LET ok == evaluateExpression
    IN  IF HasCommit THEN Begins("upsert", Report(ok), ~gateCache.ok /\ ok, Never)
        ELSE IF listed THEN Errs ELSE CleansUp

\* Mutant: any success will do.
SkipsSucceeded == kind = "polling" /\ gateCache.ok

\* A proposed commit that succeeded already is not asked about again; an active
\* one is, for ever.
Skips == kind = "polling" /\ gateCache.ok /\ gateCache.sha = shown.sha

\* No second request is made within the interval.
resolveHTTPExecutionDecision == ~gateCache.recent

\* Without a response the commit is pending; the time of the last request stays.
reconcileOutcomeWithoutNewResponse == [Report(FALSE) EXCEPT !.recent = TRUE]

\* A commit that succeeded is reported again.
ReconcileWebRequestCommitStatusEnvironments ==
    IF Skips THEN Begins("upsert", [gateCache EXCEPT !.sha = shown.sha], FALSE, Never)
    ELSE IF resolveHTTPExecutionDecision
    THEN Begins("request", Report(FALSE), ~gateCache.ok, Never)
    ELSE Begins("upsert", reconcileOutcomeWithoutNewResponse, FALSE, Never)

\* Of the web-request gate: again a missing commit is an error.
ReconcileWebRequest ==
    IF HasCommit THEN ReconcileWebRequestCommitStatusEnvironments
    ELSE IF listed THEN Errs ELSE CleansUp

Reconcile ==
    /\ gateRec.step = "idle" /\ (gateQueue \/ timer <= now)
    /\ timer' = IF timer <= now THEN Never ELSE timer
    /\ CASE kind = "timed"     -> ReconcileTimed
         [] kind = "scheduled" -> ReconcileScheduled
         [] kind = "git"       -> ReconcileGit
         [] kind \in Polling   -> ReconcileWebRequest
    /\ UNCHANGED <<worldVars, listed, shown, gate, gateCache, cs, published, csVars, policyVars, fails>>

\* The service answers for the commit that the request was made for.
Execute ==
    /\ gateRec.step = "request"
    /\ LET ok == service[gateRec.entry.sha] = "yes"
       IN  gateRec' = [gateRec EXCEPT !.step = "upsert", !.turned = @ /\ ok,
                                      !.entry.ok = ok, !.entry.recent = TRUE]
    /\ UNCHANGED <<worldVars, listed, shown, gate, gateCache, timer, gateQueue, cs, published, csVars, policyVars, fails>>

\* HandleReconciliationResult, after success.  Of two requeues the earlier one
\* stays.
applyStatus ==
    /\ gate' = gateRec.entry
    /\ timer' = Min({timer, calculateRequeueDuration(gateRec.entry.ok, gateRec.due)})
    /\ gateRec' = GIdle

\* The policy is told of a turn to success.
EnqueueChangeTransferPolicies == policyQueue' = (policyQueue \/ gateRec.turned)

\* Server-Side Apply of the spec: the status stays.
UpsertCommitStatus ==
    /\ gateRec.step = "upsert"
    /\ cs' = [sha |-> gateRec.entry.sha, ok |-> gateRec.entry.ok]
    /\ EnqueueChangeTransferPolicies
    /\ applyStatus
    /\ UNCHANGED <<worldVars, listed, shown, gateCache, gateQueue, published, csVars, view, indexed, missed, fails>>

\* What the cache holds and no environment of the gate reported is deleted.
CleanupOrphanedCommitStatuses ==
    /\ gateRec.step = "cleanup"
    /\ cs' = IF csCache.sha # 0 THEN NoStatus ELSE cs
    /\ published' = IF csCache.sha # 0 THEN 0 ELSE published
    /\ applyStatus
    /\ UNCHANGED <<worldVars, listed, shown, gateCache, gateQueue, csVars, policyVars, fails>>

\* Mutant: the error is logged and not returned, so nothing is retried.
GateCallFailsQuietly ==
    /\ gateRec.step # "idle" /\ fails < MaxFails
    /\ fails' = fails + 1
    /\ gate' = IF gateRec.step = "request" THEN gateCache ELSE gateRec.entry
    /\ gateRec' = GIdle
    /\ UNCHANGED <<worldVars, listed, shown, gateCache, timer, gateQueue, cs, published, csVars, policyVars>>

\* A call fails and the reconcile is retried.  An entry that was being upserted
\* is in the status already; one whose request failed is not, and the last one
\* is kept.
GateCallFails ==
    /\ gateRec.step # "idle" /\ fails < MaxFails
    /\ fails' = fails + 1
    /\ gate' = IF gateRec.step = "request" THEN gateCache ELSE gateRec.entry
    /\ gateRec' = GIdle /\ gateQueue' = TRUE
    /\ UNCHANGED <<worldVars, listed, shown, gateCache, timer, cs, published, csVars, policyVars>>

\* The calls succeed, the apply of the status does not.
GateStatusFails ==
    /\ gateRec.step = "upsert" /\ fails < MaxFails
    /\ fails' = fails + 1
    /\ cs' = [sha |-> gateRec.entry.sha, ok |-> gateRec.entry.ok]
    /\ EnqueueChangeTransferPolicies
    /\ gateRec' = GIdle /\ gateQueue' = TRUE
    /\ UNCHANGED <<worldVars, listed, shown, gate, gateCache, timer, published, csVars, view, indexed, missed>>

\* The informer sees the gate's status.
DeliverGate ==
    /\ gateCache # gate /\ gateCache' = gate
    /\ UNCHANGED <<worldVars, listed, shown, gate, timer, gateQueue, gateRec, cs, published, csVars, policyVars, fails>>

\* The polling interval ends, and with it the requeue that was set to it.
IntervalElapses ==
    /\ gateRec.step = "idle" /\ (gate.recent \/ gateCache.recent)
    /\ gate' = [gate EXCEPT !.recent = FALSE] /\ gateCache' = [gateCache EXCEPT !.recent = FALSE]
    /\ gateQueue' = TRUE
    /\ UNCHANGED <<worldVars, listed, shown, timer, gateRec, cs, published, csVars, policyVars, fails>>

-----------------------------------------------------------------------------
(* The CommitStatus controller.                                            *)

\* The informer sees the CommitStatus' spec, and its change is a reason to
\* reconcile.
DeliverCommitStatus ==
    /\ csCache # cs /\ csCache' = cs
    /\ csQueue' = TRUE
    /\ UNCHANGED <<worldVars, listed, shown, gateVars, cs, published, csRec, policyVars, fails>>

ReconcileCommitStatus ==
    /\ csRec = 0 /\ csQueue
    /\ csQueue' = FALSE
    /\ csRec' = csCache.sha
    /\ UNCHANGED <<worldVars, listed, shown, gateVars, cs, published, csCache, policyVars, fails>>

\* Mutant: only the policies at the commit before.
TriggersOld == {(indexed = old) : old \in 0 .. published}

\* triggerReconcileChangeTransferPolicy: the policies that the index has at the
\* commit, or at the one that was published before.  The cached status.sha may be
\* an earlier one.
Triggers == {(indexed \in {old, csRec}) : old \in 0 .. published}

\* The SCM has it, the policies are triggered, then the status is applied.
Set ==
    /\ csRec # 0
    /\ \E t \in Triggers : policyQueue' = (policyQueue \/ t)
    /\ missed' = (~policyQueue' /\ (missed \/ indexed # view.sha))
    /\ published' = IF cs.sha = 0 THEN 0 ELSE csRec
    /\ csRec' = 0
    /\ UNCHANGED <<worldVars, listed, shown, gateVars, cs, csCache, csQueue, view, indexed, fails>>

\* The SCM refuses, or it has it and the apply of the status fails.
CommitStatusCallFails ==
    /\ csRec # 0 /\ fails < MaxFails
    /\ fails' = fails + 1
    /\ \E t \in Triggers \cup {FALSE} : policyQueue' = (policyQueue \/ t)
    /\ csRec' = 0 /\ csQueue' = TRUE
    /\ UNCHANGED <<worldVars, listed, shown, gateVars, cs, published, csCache, view, indexed, missed>>

-----------------------------------------------------------------------------
(* The policy and the strategy.                                            *)

\* setCommitStatusState: the CommitStatus whose spec names the commit.
setCommitStatusState == [sha |-> tip, ok |-> csCache.sha = tip /\ csCache.ok]

\* Woken, or on its periodic requeue.  What wakes it while it runs queues it
\* again, so one step will do.
PolicyReconcile ==
    /\ view' = setCommitStatusState
    /\ policyQueue' = FALSE /\ missed' = FALSE
    /\ indexed' = IF kind \in Lagging THEN indexed ELSE tip
    /\ UNCHANGED <<worldVars, listed, shown, gateVars, cs, published, csVars, fails>>

\* The informer sees the policy's status, and indexes it anew.
DeliverPolicy ==
    /\ indexed # view.sha /\ indexed' = view.sha
    /\ UNCHANGED <<worldVars, listed, shown, gateVars, cs, published, csVars, view, missed, policyQueue, fails>>

\* A change of the strategy, or of the spec, wakes the gate.
EnqueueCommitStatusGate == gateQueue' = TRUE

\* The strategy copies the policy's status, which its Patch of the policy
\* returns: it may know it before the informer does.
PublishStrategy ==
    /\ shown # view /\ shown' = view
    /\ EnqueueCommitStatusGate
    /\ UNCHANGED <<worldVars, listed, gate, gateCache, timer, gateRec, cs, published, csVars, policyVars, fails>>

-----------------------------------------------------------------------------
(* The world.                                                              *)

Push ==
    /\ tip < MaxSha
    /\ tip' = tip + 1 /\ since' = [since EXCEPT ![tip + 1] = now]
    /\ UNCHANGED <<kind, schedule, now, service, listed, shown, gateVars, cs, published, csVars, policyVars, fails>>

Tick ==
    /\ kind \in {"timed", "scheduled"} /\ now < MaxTime
    /\ now' = now + 1
    /\ UNCHANGED <<kind, schedule, tip, since, service, listed, shown, gateVars, cs, published, csVars, policyVars, fails>>

\* The service approves the newest commit, or takes the approval back.
Answer ==
    /\ kind \in Polling
    /\ \/ service[tip] = "no" /\ service' = [service EXCEPT ![tip] = "yes"]
       \/ service[tip] = "yes" /\ service' = [service EXCEPT ![tip] = "no more"]
    /\ UNCHANGED <<kind, schedule, now, tip, since, listed, shown, gateVars, cs, published, csVars, policyVars, fails>>

\* The environment leaves the gate's spec.
EditSpec ==
    /\ kind \in Edited /\ listed
    /\ listed' = FALSE /\ EnqueueCommitStatusGate
    /\ UNCHANGED <<worldVars, shown, gate, gateCache, timer, gateRec, cs, published, csVars, policyVars, fails>>

Crash ==
    /\ fails < MaxFails /\ fails' = fails + 1
    /\ gateRec' = GIdle /\ csRec' = 0 /\ timer' = Never
    /\ gateQueue' = TRUE /\ csQueue' = TRUE /\ policyQueue' = TRUE
    /\ gateCache' = gate /\ csCache' = cs /\ indexed' = view.sha
    /\ UNCHANGED <<worldVars, listed, shown, gate, cs, published, view, missed>>

-----------------------------------------------------------------------------
Init ==
    /\ kind \in Kinds
    /\ schedule \in IF kind = "scheduled" THEN Schedules ELSE {NoSchedule}
    /\ now = 0 /\ tip = 1 /\ since = [s \in Shas |-> 0]
    /\ service \in [Shas -> IF kind = "git" THEN {"no", "yes"} ELSE {"no"}]
    /\ listed = TRUE /\ shown = [sha |-> 0, ok |-> FALSE]
    /\ gate = NoEntry /\ gateCache = NoEntry /\ timer = Never
    /\ gateQueue = TRUE /\ gateRec = GIdle
    /\ cs = NoStatus /\ csCache = NoStatus /\ published = 0 /\ csQueue = FALSE /\ csRec = 0
    /\ view = [sha |-> 0, ok |-> FALSE] /\ indexed = 0 /\ missed = FALSE /\ policyQueue = TRUE
    /\ fails = IF kind \in Failing THEN 0 ELSE MaxFails

Gate == Reconcile \/ Execute \/ UpsertCommitStatus \/ CleanupOrphanedCommitStatuses

CommitStatusController == ReconcileCommitStatus \/ Set

Next ==
    \/ Gate \/ GateCallFails \/ GateStatusFails \/ DeliverGate \/ IntervalElapses
    \/ CommitStatusController \/ CommitStatusCallFails \/ DeliverCommitStatus
    \/ PolicyReconcile \/ DeliverPolicy \/ PublishStrategy
    \/ Push \/ Tick \/ Answer \/ EditSpec \/ Crash

Spec == Init /\ [][Next]_vars

\* The workqueues run what they hold, watches deliver, time passes.  The policy
\* reconciles when woken and for a new commit.  Its periodic requeue is counted on
\* only where a wake-up was missed: nothing else depends on it.
FairSpec ==
    /\ Spec
    /\ WF_vars(Gate) /\ WF_vars(DeliverGate) /\ SF_vars(IntervalElapses)
    /\ WF_vars(CommitStatusController) /\ WF_vars(DeliverCommitStatus)
    /\ WF_vars((policyQueue \/ view.sha # tip \/ missed) /\ PolicyReconcile)
    /\ WF_vars(DeliverPolicy) /\ WF_vars(PublishStrategy) /\ WF_vars(Tick)

-----------------------------------------------------------------------------
(* What the gates are for, told without the computations above.            *)

\* Promotion is allowed at time t.
Open(s, t) ==
    LET In(w) == \E x \in w.starts : t \in x .. x + w.dur - 1
    IN  (s.allow = {} \/ \E w \in s.allow : In(w)) /\ ~\E w \in s.exclude : In(w)

\* The condition is met now, for commit s.  A timed gate looks at the age of the
\* commit only, not at whether a promotion is pending in the environment.
Holds(s) ==
    CASE kind = "timed"     -> now >= since[s] + Duration
      [] kind = "scheduled" -> Open(schedule, now)
      [] OTHER              -> service[s] = "yes"

\* It has been met since the commit was there.
Met(s) ==
    /\ s <= tip
    /\ CASE kind = "scheduled" -> \E t \in since[s] .. now : Open(schedule, t)
         [] kind \in Polling   -> service[s] # "no"
         [] OTHER              -> Holds(s)

\* Every variable has its type; a CommitStatus names a commit.
TypeOK ==
    /\ kind \in Kinds /\ schedule \in Schedules \cup {NoSchedule} /\ now \in Times /\ tip \in Shas
    /\ since \in [Shas -> Times] /\ service \in [Shas -> {"no", "yes", "no more"}]
    /\ listed \in BOOLEAN /\ shown \in View /\ view \in View
    /\ gate \in Entry /\ gateCache \in Entry /\ timer \in 0 .. Never
    /\ gateRec \in [step: {"idle", "request", "upsert", "cleanup"}, entry: Entry,
                    turned: BOOLEAN, due: 0 .. Never]
    /\ cs \in View /\ csCache \in View /\ published \in 0 .. MaxSha
    /\ cs.ok => cs.sha # 0
    /\ csRec \in 0 .. MaxSha
    /\ indexed \in 0 .. MaxSha /\ missed \in BOOLEAN
    /\ gateQueue \in BOOLEAN /\ csQueue \in BOOLEAN /\ policyQueue \in BOOLEAN
    /\ fails \in 0 .. MaxFails

\* A scheduled gate that sleeps wakes up before its schedule says otherwise than
\* its status does.
TimerSound ==
    kind = "scheduled" /\ gateRec.step = "idle" /\ ~gateQueue /\ gate.sha # 0
        => \A t \in now .. MaxTime : t < timer => Open(schedule, t) = gate.ok

Contract == INSTANCE GateContract WITH met <- {s \in Shas : Met(s)}

\* What the policy finds keeps the contract of a gate, however stale the
\* strategy, the gate's own status and the CommitStatus are, whatever call
\* fails, and whatever is retried.
Sound == Contract!Spec

\* A policy whose verdict on its commit is not the CommitStatus' will look again:
\* it is queued, or the CommitStatus controller is at that commit or will be, or
\* the index was behind when it was (then the periodic requeue has to help).
PolicyAwake ==
    csCache.sha = view.sha /\ csCache.ok # view.ok
        => policyQueue \/ csQueue \/ csRec = csCache.sha \/ missed

\* Once commits, clock and service stand still, the policy has found what the
\* gate's condition says of its commit.  A poll about a proposed commit that was
\* once answered with a success is not repeated; one about an active commit is, so
\* that a success is lost within the interval, and found again and again.
Settles ==
    /\ <>[](listed =>
               /\ view.sha = tip
               /\ CASE kind = "polling"    -> service[tip] = "yes" => view.ok
                    [] kind = "monitoring" -> view.ok => service[tip] = "yes"
                    [] OTHER               -> view.ok = Holds(tip))
    /\ []<>(kind = "monitoring" /\ service[tip] = "yes" => view.ok)
=============================================================================
