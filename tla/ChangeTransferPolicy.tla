------------------------ MODULE ChangeTransferPolicy ------------------------
(***************************************************************************)
(* The ChangeTransferPolicy controller of one environment, composed with   *)
(* the PullRequest controller it drives.  A reconcile looks after a        *)
(* terminating PullRequest (promotion-history note, then its finalizer),   *)
(* computes the status from git, the commit statuses and the cached        *)
(* PullRequest, resolves a branch conflict, creates or refreshes the       *)
(* PullRequest, records the intent to merge, and persists the status.      *)
(*                                                                         *)
(* Both List and Get of this controller read the informer cache.  A        *)
(* reconcile may start at any time: every one schedules the next, and      *)
(* watches and webhooks only bring it forward.                             *)
(*                                                                         *)
(* Not modelled here: RestoreActiveCommit and its gate, the history object,*)
(* templates and labels, active commit statuses.                           *)
(***************************************************************************)
EXTENDS PullRequest, FiniteSetsExt

CONSTANTS AutoMerge,     \* spec.autoMerge
          StaleGen       \* generations up to which a reconcile may start on a stale cache

ASSUME PolicyAssumption == AutoMerge \in BOOLEAN /\ StaleGen \in Nat

VARIABLES
    ctp,     \* persisted status.pullRequest
    crec,    \* the reconcile in flight
    life,    \* the ChangeTransferPolicy itself: live, deleting, gone
    dry,     \* dry commit each proposed hydrated commit was made from
    passed,  \* hydrated commits whose proposed commit statuses all succeeded
    notes    \* merge commits that carry a promotion-history note

ctpVars == <<ctp, crec, life, dry, passed, notes>>
vars    == <<prVars, ctpVars>>

-----------------------------------------------------------------------------
\* status.pullRequest: nil, or a copy of the PullRequest's status.
NilPR     == [id |-> 0, st |-> "nil", mts |-> 0]
Copy(o)   == [id |-> o.id, st |-> o.st, mts |-> o.mts]
StatusPRs == [id: 0 .. MaxId, st: StatusStates \cup {"nil"}, mts: 0 .. MaxId]

\* The active branch: its tip is the last merge, from dry commit ActiveDry.
MergedIds == {i \in Ids : scm[i].st = "merged"}
ActiveDry == IF MergedIds = {} THEN 0 ELSE dry[scm[Max(MergedIds)].sha]

CIdle  == [step |-> "idle", obj |-> NoObject, pr |-> NilPR, prop |-> 0, act |-> 0, ok |-> FALSE]
CSteps == {"idle", "note", "release", "calc", "apply", "merge", "persist"}

CGoto(s) == crec' = [crec EXCEPT !.step = s, !.obj = IF s = "release" THEN @ ELSE NoObject]

-----------------------------------------------------------------------------
(* handlePRFinalizerRemoval.                                               *)

\* A terminating PullRequest that still carries the ctp finalizer.
Held(o) == Exists(o) /\ o.del /\ "ctp" \in o.fins

\* ensurePromotionHistoryNote writes one unless there is one, or nothing to
\* record.
\* Mutant: a merge without its commit is noted too.
NeedsNoteUnchecked(o) == Held(o) /\ o.st = "merged" /\ o.tr /\ o.mts \notin notes

NeedsNote(o) == Held(o) /\ o.st = "merged" /\ o.mts # 0 /\ o.tr /\ o.mts \notin notes

\* The finalizer goes once the persisted status agrees with a final outcome.
\* Mutant: the merge commit is not compared.
MayReleaseByState(o) ==
    Held(o) /\ ctp.id = o.id /\ ctp.st = o.st /\ pullRequestStatusIsFinalized(o)

MayRelease(o) == Held(o) /\ ctp = Copy(o) /\ pullRequestStatusIsFinalized(o)

CTPReconcile ==
    /\ crec.step = "idle" /\ life = "live"
    /\ cache = pr \/ pr.gen <= StaleGen
    /\ LET s == IF NeedsNote(cache) THEN "note"
                ELSE IF MayRelease(cache) THEN "release" ELSE "calc"
       IN  crec' = [CIdle EXCEPT !.step = s, !.pr = ctp,
                                 !.obj = IF s = "calc" THEN NoObject ELSE cache]
    /\ UNCHANGED <<prVars, ctp, life, dry, passed, notes>>

ensurePromotionHistoryNote ==
    /\ crec.step = "note"
    /\ notes' = notes \cup {crec.obj.mts}
    /\ CGoto(IF MayRelease(crec.obj) THEN "release" ELSE "calc")
    /\ UNCHANGED <<prVars, ctp, life, dry, passed>>

\* Apply of the object as read, without the finalizer.
handlePRFinalizerRemoval ==
    /\ crec.step = "release"
    /\ LET o == crec.obj
       IN  /\ ApplyPullRequest(o.spec, o.sha, o.tr, FALSE)
           /\ CGoto(IF ApplyAccepted(Applied(o.spec, o.sha, o.tr, FALSE)) THEN "calc" ELSE "persist")
    /\ UNCHANGED <<cache, rec, queued, timer, scm, head, fails>>
    /\ UNCHANGED <<ctp, life, dry, passed, notes>>

-----------------------------------------------------------------------------
\* setPullRequestState: the last known status survives the object, and is
\* cleared while a successor has none.
\* Mutant: the status of a terminating object is not copied any more.
setPullRequestStateOfLive ==
    IF ~Exists(cache) \/ cache.del THEN crec.pr
    ELSE IF cache.id = 0 /\ cache.st = "" THEN NilPR
    ELSE Copy(cache)

\* Mutant: the state the PullRequest should get is shown as the one it has.
setPullRequestStateDesired ==
    IF ~Exists(cache) THEN crec.pr
    ELSE IF cache.id = 0 /\ cache.st = "" THEN NilPR
    ELSE [Copy(cache) EXCEPT !.st = cache.spec]

setPullRequestState ==
    IF ~Exists(cache) THEN crec.pr
    ELSE IF cache.id = 0 /\ cache.st = "" THEN NilPR
    ELSE Copy(cache)

calculateStatus ==
    /\ crec.step = "calc"
    /\ crec' = [crec EXCEPT !.step = "apply", !.pr = setPullRequestState, !.prop = head,
                            !.act = ActiveDry, !.ok = head \in passed]
    /\ UNCHANGED <<prVars, ctp, life, dry, passed, notes>>

\* A conflict between the branches is resolved by a merge commit on the
\* proposed branch; the push is refused if the branch has moved on.
gitMergeStrategyOurs ==
    /\ crec.step = "apply"
    /\ IF head = crec.prop
       THEN /\ Hydrate
            /\ dry' = [dry EXCEPT ![head + 1] = dry[head]]
       ELSE UNCHANGED <<prVars, dry>>
    /\ CGoto("persist")
    /\ UNCHANGED <<ctp, life, passed, notes>>

\* Nothing to promote: wake the PullRequest if the status shows an open one.
\* Mutant: terminating PullRequests are woken too.
enqueueAnyPullRequest ==
    IF crec.pr.id # 0 /\ crec.pr.st = "open" /\ Exists(cache)
    THEN queued' = TRUE /\ UNCHANGED <<pr, cache, rec, timer, scm, head, lastUid, fails>>
    ELSE UNCHANGED prVars

enqueuePullRequestsForCTP ==
    IF crec.pr.id # 0 /\ crec.pr.st = "open" /\ Exists(cache) /\ ~cache.del
    THEN EnqueuePR ELSE UNCHANGED prVars

\* A resource with a recorded outcome, or a terminating one, is left alone.
\* Otherwise its state is preserved and mergeSha follows the proposed branch.
\* A new resource has no trailers yet.
\* Mutant: mergeSha is written once and never refreshed.
createOnlyPullRequest ==
    /\ crec.step = "apply"
    /\ IF dry[crec.prop] # crec.act /\ ~Exists(cache)
       THEN /\ ApplyPullRequest("open", crec.prop, FALSE, TRUE)
            /\ UNCHANGED <<cache, rec, queued, timer, scm, head, fails>>
       ELSE UNCHANGED prVars
    /\ CGoto("merge")
    /\ UNCHANGED <<ctp, life, dry, passed, notes>>

createOrUpdatePullRequest ==
    /\ crec.step = "apply"
    /\ IF dry[crec.prop] = crec.act
       THEN enqueuePullRequestsForCTP /\ CGoto("merge")
       ELSE IF Exists(cache) /\ (pullRequestStatusFreezesSpec(cache) \/ cache.del)
       THEN UNCHANGED prVars /\ CGoto("merge")
       ELSE /\ ApplyPullRequest(cache.spec, crec.prop, Exists(cache), TRUE)
            /\ CGoto(IF ApplyAccepted(Applied(cache.spec, crec.prop, Exists(cache), TRUE))
                     THEN "merge" ELSE "persist")
            /\ UNCHANGED <<cache, rec, queued, timer, scm, head, fails>>
    /\ UNCHANGED <<ctp, life, dry, passed, notes>>

\* All proposed commit statuses of the commit calculateStatus saw succeeded;
\* the spec applied is the cached one.
\* Mutant: the commit statuses are not looked at.
MayMergeUngated ==
    /\ AutoMerge
    /\ Exists(cache) /\ cache.st = "open" /\ cache.spec = "open" /\ cache.id # 0

MayMerge ==
    /\ crec.ok /\ AutoMerge
    /\ Exists(cache) /\ cache.st = "open" /\ cache.spec = "open" /\ cache.id # 0

mergePullRequests ==
    /\ crec.step = "merge"
    /\ IF MayMerge
       THEN /\ ApplyPullRequest("merged", cache.sha, cache.tr, TRUE)
            /\ UNCHANGED <<cache, rec, queued, timer, scm, head, fails>>
       ELSE UNCHANGED prVars
    /\ CGoto("persist")
    /\ UNCHANGED <<ctp, life, dry, passed, notes>>

\* The deferred status apply.
CTPPersist ==
    /\ crec.step = "persist"
    /\ ctp' = crec.pr
    /\ crec' = CIdle
    /\ UNCHANGED <<prVars, life, dry, passed, notes>>

\* handleFinalizer of a deleted policy: withdraw the ctp finalizer from the
\* PullRequests listed, whatever became of them, then let the policy go.
handleCTPCleanupOnDelete ==
    /\ crec.step = "idle" /\ life = "deleting"
    /\ IF Exists(cache) /\ "ctp" \in cache.fins
       THEN /\ ApplyPullRequest(cache.spec, cache.sha, cache.tr, FALSE)
            /\ life' = IF ApplyAccepted(Applied(cache.spec, cache.sha, cache.tr, FALSE))
                       THEN "gone" ELSE "deleting"
            /\ UNCHANGED <<cache, rec, queued, timer, scm, head, fails>>
       ELSE UNCHANGED prVars /\ life' = "gone"
    /\ UNCHANGED <<ctp, crec, dry, passed, notes>>

\* Any call may fail; the reconcile then persists the status it has.
CTPCallFails ==
    /\ crec.step # "idle"
    /\ OwnerCallFails
    /\ IF crec.step = "persist" THEN crec' = CIdle ELSE CGoto("persist")
    /\ UNCHANGED <<ctp, life, dry, passed, notes>>

\* Both controllers run in one process.
CTPCrash ==
    /\ Crash
    /\ crec' = CIdle
    /\ UNCHANGED <<ctp, life, dry, passed, notes>>

-----------------------------------------------------------------------------
(* The hydrator, the gates and the user.                                   *)

\* A new hydrated commit, of the same or of a new dry commit.
HydrateDry ==
    /\ Hydrate
    /\ \E d \in {dry[head], dry[head] + 1} : dry' = [dry EXCEPT ![head + 1] = d]
    /\ UNCHANGED <<ctp, crec, life, passed, notes>>

ChecksPass(s) ==
    /\ s <= head /\ s \notin passed
    /\ passed' = passed \cup {s}
    /\ UNCHANGED <<prVars, ctp, crec, life, dry, notes>>

DeletePolicy ==
    /\ life = "live"
    /\ life' = "deleting"
    /\ UNCHANGED <<prVars, ctp, crec, dry, passed, notes>>

-----------------------------------------------------------------------------
CTPInit ==
    /\ PRInit
    /\ ctp = NilPR /\ crec = CIdle /\ life = "live"
    /\ dry = [s \in Shas |-> IF s = 1 THEN 1 ELSE 0]
    /\ passed = {} /\ notes = {}

CTPStep ==
    \/ CTPReconcile \/ ensurePromotionHistoryNote \/ handlePRFinalizerRemoval
    \/ calculateStatus \/ gitMergeStrategyOurs \/ createOrUpdatePullRequest
    \/ mergePullRequests \/ CTPPersist \/ handleCTPCleanupOnDelete

\* Steps of the PullRequest controller and of the SCM it works with.
PRStep ==
    \/ Reconcile /\ UNCHANGED ctpVars
    \/ ensureFinalizer /\ UNCHANGED ctpVars
    \/ releaseFinalizer /\ UNCHANGED ctpVars
    \/ DeleteTerminal /\ UNCHANGED ctpVars
    \/ Get /\ UNCHANGED ctpVars
    \/ closePullRequest /\ UNCHANGED ctpVars
    \/ FindOpen /\ UNCHANGED ctpVars
    \/ createPullRequest /\ UNCHANGED ctpVars
    \/ mergePullRequest /\ UNCHANGED ctpVars
    \/ HandleReconciliationResult /\ UNCHANGED ctpVars
    \/ RequeueAfter /\ UNCHANGED ctpVars
    \/ CacheSync /\ UNCHANGED ctpVars
    \/ \E i \in Ids : CompleteMerge(i) /\ UNCHANGED ctpVars

Checks == \E s \in Shas : ChecksPass(s)

Disturbance ==
    \/ UserDelete /\ UNCHANGED ctpVars
    \/ \E i \in Ids : ExternalMerge(i) /\ UNCHANGED ctpVars
    \/ \E i \in Ids : ExternalClose(i) /\ UNCHANGED ctpVars
    \/ \E i \in Ids : Vanish(i) /\ UNCHANGED ctpVars
    \/ DeletePolicy

CTPFailure ==
    \/ CallFails /\ UNCHANGED ctpVars
    \/ StatusApplyFails /\ UNCHANGED ctpVars
    \/ CTPCallFails \/ CTPCrash

QuietNext == CTPStep \/ PRStep \/ HydrateDry \/ Checks

CTPNext == QuietNext \/ Disturbance \/ CTPFailure

CTPSpec == CTPInit /\ [][CTPNext]_vars

\* The workqueues run what they hold and reschedule every policy, watches
\* deliver, checks and accepted merges complete.  A cache that is behind
\* between two reconciles catches up between two reconciles sooner or later:
\* the retries back off exponentially, the watch does not.
Fairness ==
    /\ WF_vars(Controller /\ UNCHANGED ctpVars)
    /\ WF_vars(CacheSync /\ UNCHANGED ctpVars)
    /\ SF_vars(rec.step = "idle" /\ CacheSync /\ UNCHANGED ctpVars)
    /\ WF_vars(CTPStep)
    /\ WF_vars(Checks)
    /\ \A i \in Ids : WF_vars(CompleteMerge(i) /\ UNCHANGED ctpVars)

FairSpec  == CTPSpec /\ Fairness
QuietSpec == CTPInit /\ [][QuietNext]_vars /\ Fairness

-----------------------------------------------------------------------------
\* Every variable of this controller has its type; in particular a note is
\* only ever attached to a real merge commit.
CTPTypeOK ==
    /\ ctp \in StatusPRs
    /\ crec \in [step: CSteps, obj: Object, pr: StatusPRs, prop: 0 .. MaxSha,
                 act: 0 .. MaxSha, ok: BOOLEAN]
    /\ life \in {"live", "deleting", "gone"}
    /\ dry \in [Shas -> 0 .. MaxSha]
    /\ passed \subseteq Shas /\ notes \subseteq Ids

\* What the policy shows of its PullRequest, and the history it writes, is so on
\* the SCM: the status is a copy of a cached copy, persisted at the end of the
\* reconcile and kept when the object is long gone, and a note is written from
\* the copy the reconcile began with.
PolicyTruthful == Truthful(ctp, scm) /\ \A i \in notes : scm[i].st = "merged"

\* While the policy lives, its finalizer leaves a PullRequest only after the
\* outcome was persisted in the policy's own status and, for a merge whose
\* commit message has trailers, after the history note was written.  Between
\* the read, the note, the persisted status and the withdrawal the PullRequest
\* controller keeps writing.  (The id is left out: see FinalizerGuards.)
HandedOver ==
    [][("ctp" \in pr.fins /\ "ctp" \notin pr'.fins /\ life = "live")
          => /\ ctp.st = pr.st /\ ctp.mts = pr.mts /\ pullRequestStatusIsFinalized(pr)
             /\ pr.st = "merged" /\ pr.tr => pr.mts \in notes]_vars

\* What the promoter merged is at least a successor, on the same branch, of a
\* commit whose proposed commit statuses passed, and the policy merges
\* automatically.
MergedAfterAPass ==
    \A i \in Ids : scm[i].by = "promoter" => AutoMerge /\ \E s \in passed : s <= scm[i].sha

\* Left to itself, with checks that pass in the end, an environment ends up
\* with the dry commit of its proposed branch, whatever the hydrator and the
\* conflict resolution push meanwhile.  (Or every incarnation the model has is
\* used up: a status write meant for the previous incarnation ends a new one
\* at once, and another is created.)
PromotionCompletes == <>[](ActiveDry = dry[head] \/ lastUid = MaxUid)

\* A terminating PullRequest with an outcome is gone in the end, unless the
\* policy is deleted.
OutcomeGoes ==
    (pr.del /\ pr.st \in {"merged", "closed", "unknown"}) ~> (~pr.del \/ life # "live")

-----------------------------------------------------------------------------
(* Claims of the documentation and of comments that the code does not keep. *)

\* The promoter merges only commits whose own proposed commit statuses passed
\* (docs/gating-promotions/index.md:10).
GateRespected == \A i \in Ids : scm[i].by = "promoter" => scm[i].sha \in passed

\* The promoter finalizer stays while a pull request is open on the SCM
\* (docs/debugging/finalizers.md:14).
FinalizerGuards ==
    [][("promoter" \in pr.fins /\ "promoter" \notin pr'.fins)
          => \A i \in Ids : scm[i].st # "open"]_vars

\* A pending merge is not abandoned (pullrequest_controller.go:308).
PendingMergeKept ==
    [][\A i \in Ids : scm[i].st = "merging" => scm'[i].st # "closed"]_vars

\* A terminating PullRequest is deleted in the end, the policy living on
\* (changetransferpolicy_controller.go:873).
TerminatingGoes == pr.del ~> (~pr.del \/ life # "live")
=============================================================================
