# GitOps Promoter in TLA+

A verification project for GitOps Promoter, the set of Kubernetes controllers that
promotes hydrated manifests from environment to environment through pull requests.
Paths are relative to the repository (`src/`); controllers are in `src/internal/controller/`.

## 1. The system

A hydrator renders each *dry* commit into one *hydrated* commit per environment and pushes it
to that environment's *proposed* branch (`<env>-next`). The promoter moves it to the *active*
branch (`<env>`) through a pull request on the SCM, once the *gates* (CommitStatus resources on
the proposed commit) pass.

| part | state it keeps | operations | works with |
|---|---|---|---|
| **ChangeTransferPolicy** controller | `status` of one environment: active and proposed commits, copy of the PullRequest's status; a finalizer on the PullRequest and on itself | compute status from git, gates and PullRequest; resolve branch conflicts; create or refresh the PullRequest; set `spec.state: merged`; write the promotion-history note; withdraw the finalizer | git, PullRequest, CommitStatus, RestoreActiveCommit, History |
| **PullRequest** controller | `status.id/state/mergedTargetSha`, its finalizer | FindOpen, Create, Update, Merge, Close, Get on the SCM; delete itself when done; release the finalizer when the outcome is on record | SCM |
| **PromotionStrategy** controller | per-policy enqueue state in memory (rate limit, retry chain) | one ChangeTransferPolicy per environment, aggregate their status, wake the ones that lag behind | ChangeTransferPolicy, gates |
| **DependentsSuccessfulCommitStatus** | one CommitStatus per environment | validate the dependency graph, decide whether the upstreams have taken the same dry commit and are healthy | PromotionStrategy status |
| **CommitStatus** controller | `status.sha/phase/id` | post a status on the SCM, wake the policies of the old and new commit | SCM, ChangeTransferPolicy |
| Timed / Scheduled / Git / WebRequest / ArgoCD gates | CommitStatus resources, last evaluation | evaluate a rule, write CommitStatus, requeue at the next boundary | PromotionStrategy status, clock, HTTP, Argo CD |
| **RestoreActiveCommit** controller | `status.activeSha/restoredFrom/blockedDrySha`, its finalizer; restore commits and the *unblocked* stamp in git notes | push a commit with the content of an earlier one, hold promotion back until a user lifts the hold, stamp, delete itself | git, ChangeTransferPolicy |
| **ChangeTransferPolicyHistory** | list of past promotions | rebuild from notes and trailers | git |
| ScmProvider, ClusterScmProvider, GitRepository | finalizers | keep a Secret, a provider, a repository while something uses it | PullRequest, CommitStatus |
| status apply (`internal/utils`) | none | deferred Server-Side Apply of the working copy's status, by name | API server |
| webhook receiver, git, gitauth, settings, instance-id cache, API server, UI, metrics, commands | caches, sockets | I/O and projections | all |

What is hard here. Every controller works on a *copy* of a resource read from an informer cache
that may be behind; it makes remote calls that may fail after they took effect; and it ends by
applying a whole status **by name**, with no resourceVersion and no UID, onto whatever object
carries the name by then. Deletion is asynchronous, gated by two finalizers with two owners,
and a PullRequest's name is reused by its successor. Merges complete late on some SCMs. Nothing
tells the controllers about pushed git notes. `PROJECT.json` lists the hazards line by line.

## 2. Modules

| module | models | state | source |
|---|---|---|---|
| `PullRequest` | PullRequest controller, API server rules for the type, informer cache, workqueue, an abstract SCM, an arbitrary client | `pr` stored object, `cache` informer copy, `rec` reconcile in flight (step, working copy, result), `queued`, `timer`, `scm`, `head`, `lastUid`, `fails` | `pullrequest_controller.go`, `pullrequest_types.go`, `utils.go`, `status_apply.go` |
| `ChangeTransferPolicy` | ChangeTransferPolicy controller of one environment, composed with `PullRequest` | `ctp` persisted copy of the PullRequest's status, `crec` reconcile in flight, `life` of the policy, `dry` commit of each hydrated commit, `passed` checks, `notes` | `changetransferpolicy_controller.go` |
| `OutOfSyncEnqueuer` | the PromotionStrategy controller's nudging of policies that lag behind | `git`, `shown`, `pass` in progress, `states` (the map), `timers` (retry chains), workqueues | `promotionstrategy_controller.go` |
| `RestoreActiveCommit` | RestoreActiveCommit controller, the active branch with its notes, the policy's restore gate, users | `branch`, `stamped`, `obj`, `cache`, `queued`, `rec` per object, `pol` the policy's reconcile, `pr` | `restoreactivecommit_controller.go`, `git.go`, `changetransferpolicy_controller.go` |
| `GateContract` | abstract: what a gate promises the policy that reads it | `met`, `view` | |
| `CommitStatusGate` | a timed, scheduled, Git, polling or monitoring gate, its CommitStatus, the CommitStatus controller, the policy's lookup | `gate`, `gateCache`, `timer`, `gateRec`; `cs`, `csCache`, `published`, `csRec`; `view`, `indexed`, `shown`; clock, commits, service | `timedcommitstatus_`, `scheduledcommitstatus_`, `gitcommitstatus_`, `webrequestcommitstatus_`, `commitstatus_controller.go`, `internal/webrequest`, `internal/utils` |
| `Environments` | the environments and their `dependsOn`, the implicit chain, what a valid graph is | none | `dependentssuccessfulcommitstatus_controller.go` |
| `DependencyGraph` | `validateDAG`, loop by loop | `inDegree`, `queue`, `removed`, `verdict` | same |
| `DependentsGate` | the ordering gate, with environments that hydrate, promote and fall ill; its `Spec` takes the verdict on the graph as given | `env` as it is, `shown` as the strategy reports it, `gates` the CommitStatuses, `due`/`at` the reconcile in flight | same |
| `DependentsController` | composition of the two: the gate evaluates what the loop has accepted | theirs | same |
| `PullRequestProofs`, `ChangeTransferPolicyProofs`, `OutOfSyncEnqueuerProofs`, `RestoreActiveCommitProofs`, `CommitStatusGateProofs`, `DependencyGraphProofs`, `DependentsGateProofs`, `DependentsControllerProofs` | proofs, each about the module it is named after | | |
| `MCPullRequest`, `MCChangeTransferPolicy`, `MCOutOfSyncEnqueuer`, `MCDependentsController`, `MCRestoreActiveCommit`, `MCCommitStatusGate` | TLC roots | | |

Three refinements are checked and proved: the policy is one of the clients `PRSpec` allows (`ChangeTransferPolicy` implements
`PRSpec`), the controller that runs `validateDAG` implements the gate that is told the answer
(`DependentsController` implements `DependentsGate!Spec`), and every gate keeps the contract
(`CommitStatusGate` implements `GateContract!Spec`, where `met` is computed from clock, schedule and service).

An operator whose comment begins with *Mutant* is not part of a specification. It is the definition
below it with a plausible mistake; putting it in that definition's place violates a property
(`PROJECT.json`, `mutants`).

### PullRequest

A reconcile is cut into one action per call that leaves the process, so every other actor can
act between two calls: `Reconcile` (read the cache, choose the lane), `ensureFinalizer`,
`DeleteTerminal`, `FindOpen`, `createPullRequest`, `mergePullRequest` for a live object;
`Get`, `closePullRequest`, `releaseFinalizer` for a terminating one; and
`HandleReconciliationResult`, the deferred status apply that ends every reconcile, errors
included. `FirstStep` and `AfterEnsure` are the source's early returns in order. Update is
optimistic (it succeeds only if the stored object is the one that was read), Server-Side Apply
is not. `Admits` is the list of CEL rules of the type. `Enqueues` is the disjunction of the
watch predicates. Failures: any call may fail without effect (`CallFails`), Create and Merge
may take effect and lose their answer, Merge may answer without the merge commit, the status
apply may fail, the process may crash and restart with a fresh cache.

Abstractions. Title, description, labels, URL, PR creation time and the Ready condition are left
out; the digest and label comparisons of `shouldSkipSCMSync` are a nondeterministic choice. The
merge commit of SCM pull request *i* is named *i*. Versions are compared by content. The SCM
holds one open pull request per pair of branches, merges only the commit it is asked to merge,
and may lose the record of a closed pull request (`Vanish`, the *unknown* state). `OwnerApply`
lets *any* client write *any* spec: the run `policy` shows the real owner is one.

### ChangeTransferPolicy

`CTPReconcile` reads the cache and selects what `handlePRFinalizerRemoval` will do;
`ensurePromotionHistoryNote` and `handlePRFinalizerRemoval` are its two effects; then
`calculateStatus`, `gitMergeStrategyOurs` *or* `createOrUpdatePullRequest`, `mergePullRequests`,
`CTPPersist`. `handleCTPCleanupOnDelete` is the finalizer of a deleted policy.

Abstractions. The policy reads its own status as it is stored; the code reads it from the informer cache (`changetransferpolicy_controller.go:130`). There is no workqueue: every reconcile
schedules the next one, predicates and webhooks only affect latency, so a reconcile may start
at any time. The informer catches up with the stored PullRequest in one step (`CacheSync`), after any delay: versions
in between are skipped, as they are when watch events coalesce, and the argument for `HandedOver` rests on the
cached copy having been the stored one at some time. A commit's checks, once passed, stay passed. The restore gate is in `RestoreActiveCommit`. Left out:
templates and labels, the history object.

### OutOfSyncEnqueuer

SCMs announce no pushed git note, so a policy finds one only when something makes it reconcile.
`Reconcile` starts a pass over the strategy: it compares the effective proposed dry commit of every
policy with that of the newest one. Environment by environment the pass then calls `markConverged`, or
`handleRateLimitedEnqueue` (up to the unlock of the map's mutex) and `startRetryChain` (nudge, arm a
timer). Each timer is two actions, `check` under the mutex and `retry` after it, so that a pass, a
sweep or another chain comes in between. `sweep` is the hourly cleanup and `Restart` loses the map.

Abstractions. A pass reads the policies' statuses at one instant. In the code each comes from the response to the pass's own Patch of that policy
(`promotionstrategy_controller.go:192`, `:353`), so they are some calls apart; the difference is that of a status that changes right after the instant,
which wakes the strategy for another pass, and no property turns on it.
Timers fire on time (`Tick` waits for the due ones). The hour without a pass happens only to a policy that
is gone, because the others are looked at every few minutes. A chain occupies one of `MaxChains` slots per
environment; a pass waits when there is none, which the code never needs to. A webhook for a pushed commit
may be lost, one for a note does not exist.

### RestoreActiveCommit

Each object has its own reconcile in flight: `Reconcile` (read the cache, choose the lane: `FirstStep`,
`NextStep`), `addFinalizer`, `RestoreActiveBranch` (look at branch and notes, refuse, adopt, or prepare),
`pushCommitWithLease`, `unblockRestoreOnDelete` (the stamp), `selfDelete`, `removeFinalizer`, and `applyStatus`, the
deferred apply by name. The policy's part is two steps, `observe` (calculateStatus) and
`PolicyReconcile` (delete superseded objects, adopt a blocked restore that has none, evaluate the gate, pull request,
merge intent), so that branch, notes and objects change in between. The second step joins the deletes, creates, lists and patches that follow
`observe`: what others do between two of those calls is not explored, and `HoldHonoured` is tested from the look to the record, not inside it. Users create, unblock and delete objects, merge
by hand, and push a restore by hand; the hydrator pushes.

Abstractions. Commits of the active branch are positions in it, so ancestry is order; a tree is the dry commit it was hydrated
from, so a restore of a restore's content is recognised as the code recognises equal trees. The note is pushed
before the branch and nothing reads it until the commit lands, hence one step. An incarnation is a number modulo
three. A pull request is none, open or about to be merged. Proposed checks pass. `waived` is a history variable.
Left out: `activePath`, trailers other than the two the gate reads, owner references, a policy that is gone.

### CommitStatusGate

One environment and one gate of one of five kinds: a web-request gate in polling mode counts as two, `polling` when it reports on the proposed
commit and `monitoring` when it reports on the active one and so never stops to ask. A reconcile of the gate begins on the strategy's status (`shown`)
and its own cached status (`gateCache`); `Execute` is the HTTP request, `UpsertCommitStatus` and
`CleanupOrphanedCommitStatuses` write, and the status apply is joined to them because nobody else reads that
status (`GateCallFails` and `GateStatusFails` put a failure before, between and after). The CommitStatus controller
(`ReconcileCommitStatus`, `Set`) publishes and triggers the policies that the field index of the informer cache has at the old or the new commit (`indexed`,
which follows the policy's status by `DeliverPolicy`; the strategy, which copies the status out of its Patch response, may be ahead of it). The policy looks the
CommitStatus up in its cache (`setCommitStatusState`), and the strategy's copy of what it found wakes the gate.
`Open`, `Holds` and `Met` say what each gate is for without the code's computations: the schedule minute by minute, not by
`evaluateWindows`. `missed` is a history variable: the index was behind when a wake-up was due.

Abstractions. Time is whole minutes up to `MaxTime`; the second that the code adds to a requeue is within the minute. Cron
expressions are sets of minutes. Failure and pending are one. The polling interval is an event that ends while no
reconcile runs. A policy reconcile is one step. The Git gate's expression is about the commit it reports on, the default target `active` of a gate that
reports on the proposed commit is left out; the expression of the polling kinds needs a response.
Left out: trigger mode, the `promotionstrategy` context, templates, time zones, and the gates' default requeue,
which no property needs.

### Environments, DependencyGraph, DependentsGate, DependentsController

`DependencyGraph` runs Kahn's algorithm as the code does, with its counters; `Known` and `Acyclic` of
`Environments` are the reference definition. The queue is a set, because the verdict does not depend on
which entry is taken; `gone` remembers what the counter counted.

`DependentsGate` evaluates the status reported by the PromotionStrategy at `Reconcile`, and writes the
result one CommitStatus at a time, while the world moves on: `Publish` brings one environment's status up
to date, the hydrator pushes commits and notes, policies promote, health changes, a reconcile is cut short
(`Abort`). An environment with nothing to promote keeps its old CommitStatus, as in the code.

Abstractions. The recursion of `evaluateUpstreams` through no-op environments is stated as the existence
of a set of environments that meet the target and is closed under the upstreams of its no-ops; on an
acyclic graph, the only kind the evaluation sees, the two agree. Dry commits are numbered by commit time and a
hydrated commit is named by the dry commit it renders. `Promote` is one step: it merges the commit whose gate passes,
and the policy's own steps, with the way round the gate that `gate_bypass` shows, are in
`ChangeTransferPolicy`. `targets`, `taken` and `passed` are history variables that no guard reads. The
graph does not change during a run; URL templates, descriptions, and the deletion of orphaned and legacy
CommitStatuses are left out.

## 3. Runs

| run | configuration | shows |
|---|---|---|
| `pull_request` | 1 incarnation, 2 commits, 1 failure or crash (a second incarnation and asynchronous merges are in `policy`, and in the theorems) | types, `StatusTruthful`, `NotForgotten`, `ReleasedOnlyWithOutcome` |
| `policy` | 2 incarnations, 1 failure, asynchronous merges, cache arbitrarily stale | types, `StatusTruthful`, `MergedAfterAPass`, `PolicyTruthful`, `HandedOver`; refinement: the composition implements `PRSpec` |
| `policy_promotes` | 4 incarnations, 2 hydrated commits, fairness, no disturbance | `PromotionCompletes` |
| `policy_reaps` | 1 incarnation, users and the SCM acting at any point, no failure, fairness | `OutcomeGoes`, `TerminatingIsReleased` |
| `out_of_sync` | 2 environments, 2 pushes, 2 chains each, 1 restart, fairness | types, `ArmedHasChain`, `LaggardsAreRefreshed`, `ChainsOfRemovedEnd` |
| `dependents` | every graph of 3 environments for the validation; environments move in the one where the third depends on the other two and the second on the first; 3 dry commits, 3 pushes, 1 illness or cut, fairness | types, `VerdictExact`, `Decided`, `Ordered`, `EverythingIsPromoted`; refinement of `DependentsGate!Spec` |
| `restore` | a branch of two commits that grows to four, objects for the first (old) and third (not there yet) commit, 2 workers, one each of: user's act on an object, act on the branch, failure or crash, stale start; fairness | types, `NoEmptyRestore`, `LiftedByUser`, `RecordedTruthful`, `AppendOnly`, `HoldHonoured`, `HeldOnlyByHandle`, `ReleaseCompletes` |
| `gates` | 5 kinds of gate, 2 commits, 3 minutes, a duration of 2, a schedule of overlapping allow windows with an exclusion inside and one of a repeated exclusion, 1 failure or crash (not with `monitoring`), an index that lags (`timed`, `git`), an environment that leaves the spec (`git`), fairness | types, `TimerSound`, `PolicyAwake`, `Settles`; refinement of `GateContract!Spec` |
| `gate_bypass`, `open_on_scm`, `abandoned_merge`, `stuck_finalizer` | | the four disagreements below |

Bounds. `MaxUid` incarnations (2 is what a status write landing on a successor needs), `MaxId`
pull requests on the SCM, `MaxSha` hydrated commits (2: one pushed between an intent and its merge), `MaxGen` spec
changes of one incarnation, `MaxFails` failures and crashes together
(1: the interleavings of one failure with everything else), `StaleGen` the generations up to which
the policy may start on a stale cache. In `OutOfSyncEnqueuer` two environments are one that leads and one
that lags, two chains are a stranded one and its successor, and a `Threshold` of one tick separates being
rate limited from not. In `DependentsGate` three environments are a no-op upstream between two others, and three
pushes a commit and its successor while a third environment is behind. In `RestoreActiveCommit` four commits
are a past, a restore of it, and one commit that overtakes either; two objects are two restores that race, or one
and the policy's adoption of it. In `CommitStatusGate` two commits are the one judged and the one proposed meanwhile, and
three minutes hold the start, the end and the overlap of windows; `Edited`, `Lagging` and `Failing` name the kinds of gate that the cleanup, the lag of the index and
a failure are tried with, because what comes after the upsert is the same for every kind, and the safety properties are theorems for all of them. The runs do not check deadlock: with the
bounds used up and nothing to do the system really stops.

Liveness of the PullRequest and the policy is checked without failures (`MaxFails = 0`): one failure takes
`policy_reaps` past 1.7 million states and its liveness check past the minutes a run should take. What a failure may leave behind is the subject of the safety
properties of `pull_request` and `policy`, which allow one anywhere.

Fairness. The workqueues run what they hold (weak fairness of each controller's steps), watches deliver
(`WF CacheSync`), accepted merges complete, checks finish, the policy is always rescheduled. One
strong fairness: a cache that is behind *between* two reconciles catches up between two
reconciles sooner or later, because failing reconciles are retried with exponential backoff while
the delay of a watch does not grow. In `OutOfSyncEnqueuer` timers fire and hours pass; a policy's own
periodic requeue is *not* counted on, since the nudges exist in order not to wait for it. In `DependentsGate`
statuses are published and a policy whose gate stays open promotes. In `RestoreActiveCommit` the controller's steps
for one object are strongly fair: with fewer workers than objects a key waits while others run, but the
workqueue is first in, first out. In `CommitStatusGate` the policy is counted on when it was woken and when it sees a new
commit; its periodic requeue (`RequeueAfter` of every reconcile) is counted on only after a wake-up was missed because the index was behind, where nothing else helps:
without that, TLC finds `Settles` violated. The polling interval is strongly fair: it ends between
two reconciles sooner or later, since reconciles within one interval are finite in number. Nothing is assumed of users, the hydrator, the
health of an environment, or failures.

### Where code and documentation disagree

Four runs expect a violation; `PROJECT.json` quotes the sentences.

* `gate_bypass`: the intent `spec.state: merged` is sticky and `mergeSha` is not. A push between
  the intent and the merge is merged on the checks of the commit before.
* `open_on_scm`: a PullRequest deleted while Create is in flight can lose the id just recorded to
  the status write of a reconcile that read the object before, and is then released while the
  pull request is open.
* `abandoned_merge`: the guard against closing a pending merge reads the state from a cached copy
  that may predate the merge.
* `stuck_finalizer`: a PullRequest deleted before it has an id keeps the policy's finalizer.

Behaviours the models reach that are kept as hazards without a property, because no sentence of the
repository promises otherwise in so many words: withdrawing the finalizer by Server-Side Apply re-creates
an object that has just gone, and the cleanup of a deleted policy looks for its PullRequest in a cache
that may not show it yet.

Seen while modelling, not made into runs:

* A merge intent recorded before a hold appears is not withdrawn, so a restore can be followed by the merge it was to
  hold back (the stickiness of `gate_bypass` again). `HoldHonoured` states what the code does keep: the tip that the reconcile saw is not held,
  neither when it looked nor when it recorded the intent.
* The comment on `mergePullRequests` (`changetransferpolicy_controller.go:1893`) says that deleting the
  RestoreActiveCommit stamps the trailer; `handleFinalizer` stamps only when `blockEnvironment` is false, as its own comment
  says. `LiftedByUser` checks the latter.
* An object whose target is the tip already records the tip as `activeSha` although it restored nothing.
* `docs/gating-promotions/built-in-gates/timed-commit-status.md:17-18` (and `:227`) says that a timed gate is pending while a promotion is pending in the
  environment. The code looks only at the age of the commit (`timedcommitstatus_controller.go:221`, `:283-292`), and so do `Holds` and `Met`; `Sound` is
  the half of the documented condition that the code keeps.
* The comment at `changetransferpolicy_controller.go:405` gives the CommitStatus controller's trigger as the reason why the policy does not own
  CommitStatuses. The trigger finds policies in a field index that may be behind, so it can miss one that a watch would have woken; the policy then learns the verdict at
  its periodic requeue. `PolicyAwake` says that this is the only way to miss it.
* A gate that polls about the active commit with an expression that needs a response turns back to pending at every reconcile within the interval, and its own
  success brings one about, since the strategy's status changes. That is why `Settles` asks of `monitoring` a success again and again and not for good.
* A polling expression that falls back on the output of the last request reports a new commit as a success without a
  request for it, within the interval.
* `docs/gating-promotions/built-in-gates/scheduled-commit-status.md` calls unlisted environments ungated; if the strategy lists the
  key, the policy finds no CommitStatus for them and treats the check as pending.

## 4. Proofs

All theorems hold for every value of the constants the modules' assumptions allow (naturals, at least one
commit, one environment; for the ordering gate, any set of declarations the API server admits; for the scheduled gate, any
set of schedules whose lists of windows are finite and whose durations are positive). Every invariant and every action
property that a passing run checks, and all three refinements, are theorems. The inductive invariants were checked by TLC
on the bounds of the runs before they were proved.

`PullRequestProofs`, about `PRSpec`:

* `TypeCorrect`: `PRSpec => []PRTypeOK`. One lemma per operator that builds an object
  (`StoredType`, `DeletedType`, `ApplyType`, ...), then one case per action (`TypeStep`).
* `StatusIsTruthful`: `PRSpec => []StatusTruthful`. The stored status alone is not inductive: it is
  written from the working copy, which comes from the cache, which comes from the store. `PRInv`
  therefore says of all three copies that they are truthful *about the SCM of now*
  (`CopiesTruthful`), and that the step a reconcile is at is one its working copy justifies
  (`Justified`: a Get has an id, a Merge has an open id, ...). Two facts carry the induction: the
  SCM only moves forward (`ScmMoves`, `Forward`), so that what was true of an older copy stays
  true (`TruthForward`); and the outcomes a step records are those the SCM has just answered.
* `ReleaseNeedsOutcome`: `PRSpec => ReleasedOnlyWithOutcome`, from `PRInv`: a release either fails on a
  conflict or acts on the very object it judged, and an apply by name never removes an object that
  still has the promoter finalizer (`ApplyKeeps`, `DeleteKeeps`).
* `NoLostWakeup`: `PRSpec => []NotForgotten`, the safety half of `TerminatingIsReleased` and without its fairness. "A reconcile is in flight" is
  not inductive: when it ends, something has to have been left behind. `AwaitedInv` says that a terminating object is queued, or that the
  cache differs from it in a way that stays until the watch delivers it (`Moved`: incarnation, generation, deletion or finalizers), or that
  the reconcile in flight will release the finalizer, fail and be retried, or record an outcome that the cache does not have yet (`Attended`). The
  differences stay because the cache is behind and never ahead of an object that only moves forward (`CacheBehind`,
  `Follows`), and `MovedEnqueues` ties each to a watch predicate.

`ChangeTransferPolicyProofs`, about `CTPSpec`, the composition with the PullRequest controller:

* `PolicyImplementsPullRequest`: `CTPSpec => PRSpec`. The policy's two writes are the only ones that are not plainly steps of
  `PullRequest`: its apply has to name a commit of the branch, and its withdrawal of a finalizer has to be one that `OwnerApply`
  allows for. `PolicyKeepsStatusTruthful` and `PolicyReleaseNeedsOutcome` follow from it and the theorems above.
* `PolicyTypeCorrect`, `MergesFollowAPass` (`MergedAfterAPass`) and `OutcomeHandedOver` (`HandedOver`), from `PolicyInv`.
  `MergedAfterAPass` speaks of the SCM, but the merge was asked for by a working copy of the cache of a spec that an earlier
  reconcile applied; `Wanted` says of each of the four copies that whoever asks for a merge had a gate passed.
  `HandedOver` compares the policy's persisted status with the stored object, while the decision was made on a copy that
  may be old: `Current` says that as long as the policy's finalizer is on the object, the outcome an old copy tells is the
  one stored now, because an outcome is final under the admission rules and a successor cannot take the name while the finalizer holds.
  `ReconcileInv` carries what has been done (the note written, the status persisted) to the step that relies on it.
* `PolicyIsTruthful` (`PolicyTruthful`). The persisted status is a copy of a copy, written some steps after it was taken and kept when the object
  is gone. `PolicyTruth` adds the status that the reconcile is about to persist and the copy that its note is taken from;
  `ForwardStep` is the fact that every step of the composition moves the SCM forward. `PolicyNoLostWakeup` follows from the refinement and `NoLostWakeup`.

`OutOfSyncEnqueuerProofs`:

* `EnqueuerTypeCorrect` and `ArmedIsChained` (`ArmedHasChain`). The invariant adds where the pass is when it has armed a
  state without having started the chain (`PassAt`), and that what is armed is in the map (`Present`): the mutex is free in between,
  and sweep, timers of an older chain and the next pass come in.

`RestoreActiveCommitProofs`:

* `RestoreTypeCorrect`, `RestoresAreNotEmpty` (`NoEmptyRestore`), `HoldsLiftedByUser` (`LiftedByUser`), `RecordedIsTruthful`
  (`RecordedTruthful`), `BranchAppendsOnly` (`AppendOnly`). `RestoreInv` says of every copy of an object, stored, cached or
  in the hands of a reconcile, that what it has recorded is so (`Truthful`) and that a recorded object that does not block has
  been waived (`WaivedCopy`), and of a reconcile at its push or its stamp what it has found out before (`Prepared`). A branch that
  only grows keeps all that true (`TruthGrows`), and the lease makes a push whose tip is not the one it looked at fail.
* `HoldsAreHonoured` (`HoldHonoured`): what the policy's reconcile took for released is still released when it records the intent, because a
  stamp is never withdrawn (`FreeIsStamped`), and nobody else records an intent (`IntentOfPolicy`).

`CommitStatusGateProofs`:

* `AllowsIsOpen` and `AllowsStays`: the two facts about `evaluateWindows`. What it computes from cron starts is what the schedule means
  minute by minute, and the phase does not change before the first transition it reports, whatever windows overlap. The case that needs
  the most care is inside an exclusion, where only the *last* end of the covering windows is reported; that there is a
  last one needs the list to be finite (`BoundedDurations`).
* `GateTypeCorrect`, and `ScheduledWakesInTime` (`TimerSound`): `RecInv` says of a reconcile that is about to write that the schedule
  agrees with its entry until `due`, and time that passes only leaves less to agree on (`AgreesStays`).
* `PolicyIsAwake` (`PolicyAwake`), the safety half of `Settles`: a policy whose verdict on its commit differs from the CommitStatus' is queued, or the CommitStatus controller is at
  that commit or queued, or the index was behind. It is inductive as it stands, because the CommitStatus controller publishes the commit that its cache shows unless it is queued again.
* `GateIsSound` (`Sound`): `Spec => GateContract!Spec`. A success travels from the service, the clock or the schedule through five copies to the
  policy. `CopiesBacked` says of each that it is about a commit for which the condition has been met; that set only grows (`WorldMove`),
  so a stale copy is still right about its own commit, and `setCommitStatusState` looks only at copies about the commit it proposes.

`DependencyGraphProofs`, about `GraphSpec`:

* `GraphTypeCorrect`: no degree is taken below zero and no environment is removed twice.
* `ValidationIsExact`: `GraphSpec => []VerdictExact`. `LoopInv` ties the counters to sets: `removed` counts
  `gone`, a degree is the number of upstreams not yet gone, and an environment has been queued exactly when all of
  its upstreams are gone. When the queue is empty, the environments left all wait for one another, so a
  count short of *N* exhibits a cycle; conversely `GraphInv` says that no environment of a `Knot` is ever
  removed, so a count of *N* excludes one.

`DependentsGateProofs`, about `Spec` of `DependentsGate`:

* `GateTypeCorrect`: type correctness.
* `PromotionIsOrdered`: `Spec => Ordered`. Reported statuses, pending writes and CommitStatuses are all
  stale, so `GateInv` says what staleness keeps: a copy is `Sound` (it is not ahead of the branch, what it
  shows healthy is in the history, and if it shows today's proposed commit it names a dry commit that commit has
  stood for), and a success about today's proposed commit is `Founded` on upstreams that have had such a dry
  commit. A step that leaves the environments alone only has to answer for what it copies (`CopiesKeep`); for the others,
  history only grows (`HaveHadGrows`). A success about yesterday's commit promises nothing and
  opens nothing.

`DependentsControllerProofs`, about `ControllerSpec`:

* `ControllerValidatesExactly`, `ControllerImplementsGate` (`ControllerSpec => Spec`) and `ControllerIsOrdered`. The composition
  refines each of its parts: `GraphSpec` because the gate leaves the validation's variables alone, `Spec` because the verdict
  the evaluation waits for is exact on the graph it evaluates (`SameGraph`). `Ordered` of the controller as it computes follows.

Only model-checked: the liveness properties (`PromotionCompletes`, `OutcomeGoes`, `TerminatingIsReleased`, `LaggardsAreRefreshed`,
`ChainsOfRemovedEnd`, `Decided`, `EverythingIsPromoted`, `HeldOnlyByHandle`, `ReleaseCompletes`, `Settles`), which need fairness and are out of
the prover's reach, and the four violations, which are counterexamples. The set formulation of `evaluateUpstreams` is not proved equal to the recursion of the source.

## 5. Plan

1. Done: `PullRequest`, `ChangeTransferPolicy`, their runs, three theorems.
2. Done: the enqueuing of out-of-sync policies.
3. Done: `DependencyGraph`, `DependentsGate`, their composition, four theorems.
4. Done: `RestoreActiveCommit` with the restore gate of the policy.
5. Done: the timed, scheduled, Git, polling and monitoring gates with the CommitStatus controller and its index of policies.
6. Done: every invariant, action property and refinement of the passing runs is a theorem.
7. Done: no lost wake-up, the truth of what the policy shows and notes, and holds at the moment of the intent, each with its theorem.
8. Open: what the cleanup of a gate leaves behind, and the equality of `isPending` with the recursion of
   `evaluateUpstreams` on an acyclic graph, for which TLC is the tool.

### Not modelled

* ArgoCDCommitStatus: aggregation of application health over clusters. Its CommitStatus goes the way of `CommitStatusGate`.
* WebRequest trigger mode and its `promotionstrategy` context: what they do is what the user's expressions say.
* The finalizers of ScmProvider, ClusterScmProvider and GitRepository; the upserting and deleting of a strategy's policies.
* ChangeTransferPolicyHistory: a projection of notes that nothing else reads.
* Git plumbing, HTTP clients of the SCMs, webhook parsing, credentials, settings, the instance-id cache, the dashboard API server, the UI,
  metrics, certificate rotation, commands: I/O, selection or read-only projections.
* The larger part of the repository by lines is generated (deepcopy, OpenAPI, apply configurations, clients) and has no behaviour
  of its own to model.
