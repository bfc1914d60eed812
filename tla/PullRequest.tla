---------------------------- MODULE PullRequest ----------------------------
(***************************************************************************)
(* The PullRequest controller: one PullRequest custom resource (the name   *)
(* is a function of the repository and the two branches, so one name per   *)
(* environment), its copy in the informer cache, the reconcile in flight,  *)
(* and the pull requests of the SCM for the same pair of branches.         *)
(*                                                                         *)
(* A reconcile is a sequence of steps, one per call that leaves the        *)
(* process: every other actor may act between two of them.  It works on a  *)
(* copy of the object read from the cache, and always ends by applying the *)
(* status of that copy (HandleReconciliationResult).  Reads and writes are *)
(* those of the API server: Update has optimistic concurrency, Server-Side *)
(* Apply has none and addresses the object by name.                        *)
(*                                                                         *)
(* Not modelled: title, description, labels and URL (the SCM-side Update), *)
(* the Ready condition, events.                                            *)
(***************************************************************************)
EXTENDS Integers, FiniteSets

CONSTANTS MaxUid,      \* incarnations of the resource
          MaxId,       \* pull requests the SCM may hold for the two branches
          MaxSha,      \* hydrated commits pushed to the proposed branch
          MaxGen,      \* spec changes of one incarnation
          MaxFails,    \* failed calls and controller crashes
          Async        \* the SCM may complete a merge after accepting it

ASSUME BoundsAssumption ==
    /\ MaxUid \in Nat /\ MaxId \in Nat /\ MaxSha \in Nat \ {0}
    /\ MaxGen \in Nat /\ MaxFails \in Nat /\ Async \in BOOLEAN

Ids  == 1 .. MaxId
Shas == 1 .. MaxSha

SpecStates   == {"open", "merged", "closed"}
StatusStates == {"", "open", "merged", "closed", "merged-or-closed", "unknown"}
Finalizers   == {"promoter", "ctp"}

(***************************************************************************)
(* A PullRequest object.  uid = 0 stands for "no such object".  The merge  *)
(* commit of SCM pull request i is called i; 0 is the empty string for     *)
(* id and mts (status.id, status.mergedTargetSha).  sha is spec.mergeSha;  *)
(* tr says whether spec.commit.message carries the promoter's trailers;    *)
(* gen and obs are metadata.generation and status.observedGeneration.      *)
(***************************************************************************)
Object ==
    [uid: 0 .. MaxUid, gen: Nat, spec: SpecStates, sha: 0 .. MaxSha, tr: BOOLEAN,
     del: BOOLEAN, fins: SUBSET Finalizers,
     id: 0 .. MaxId, st: StatusStates, mts: 0 .. MaxId, obs: Nat]

NoObject ==
    [uid |-> 0, gen |-> 0, spec |-> "open", sha |-> 0, tr |-> FALSE,
     del |-> FALSE, fins |-> {}, id |-> 0, st |-> "", mts |-> 0, obs |-> 0]

ScmStates == {"none", "open", "merging", "merged", "closed", "gone"}

Steps == {"idle", "ensure", "delete", "release", "get", "close",
          "findopen", "create", "merge", "patch"}

Results == {"done", "error", "later"}

RecType == [step: Steps, obj: Object, result: Results]
ScmType == [st: ScmStates, sha: 0 .. MaxSha, by: {"none", "promoter", "external"}]

VARIABLES
    pr,       \* the object in the API server
    cache,    \* the informer's copy of it
    rec,      \* the reconcile in flight: step, working copy, result
    queued,   \* the workqueue holds the key
    timer,    \* a RequeueAfter is pending
    scm,      \* SCM pull requests by id
    head,     \* tip of the proposed branch
    lastUid,  \* incarnations created so far
    fails     \* failures and crashes so far

prVars == <<pr, cache, rec, queued, timer, scm, head, lastUid, fails>>

-----------------------------------------------------------------------------
(* Predicates of the controller on one object.                             *)

Exists(o) == o.uid # 0

pullRequestIsTerminating(o) == o.del

pullRequestStatusIsTerminal(o) ==
    o.spec = "closed" \/ o.st \in {"merged", "closed", "merged-or-closed"}

pullRequestStatusIsFinalized(o) ==
    \/ o.id = 0
    \/ o.st \in {"closed", "unknown"}
    \/ o.st = "merged" /\ o.mts # 0

pullRequestStatusFreezesSpec(o) == o.st \in {"merged", "closed", "merged-or-closed"}

\* The digest and label comparisons of the source are not modelled: whether
\* they allow the short circuit is left open.
maySkipSCMSync(o) == o.spec = "open" /\ o.id # 0 /\ o.gen > o.obs

\* Watch predicates: does the change from o to n put the key on the queue?
\* Mutant: no event when a terminating object becomes finalized.
EnqueuesNotFinalized(o, n) ==
    \/ o.uid # n.uid
    \/ o.gen # n.gen
    \/ n.del /\ o.fins # n.fins
    \/ ~pullRequestIsTerminating(o) /\ pullRequestIsTerminating(n)
    \/ ~pullRequestStatusIsTerminal(o) /\ pullRequestStatusIsTerminal(n)

Enqueues(o, n) ==
    \/ o.uid # n.uid
    \/ o.gen # n.gen
    \/ n.del /\ o.fins # n.fins
    \/ ~pullRequestIsTerminating(o) /\ pullRequestIsTerminating(n)
    \/ ~pullRequestStatusIsTerminal(o) /\ pullRequestStatusIsTerminal(n)
    \/ /\ pullRequestIsTerminating(n)
       /\ ~pullRequestStatusIsFinalized(o) /\ pullRequestStatusIsFinalized(n)

-----------------------------------------------------------------------------
(* The API server: admission rules of the PullRequest type, and the life   *)
(* of a finalized object.                                                  *)

Admits(old, new) ==
    /\ new.spec = "open" \/ new.id # 0
    /\ new.mts # 0 => new.st = "merged"
    /\ old.mts # 0 => new.mts = old.mts
    /\ old.st \in {"merged", "closed", "merged-or-closed"} =>
           new.spec = old.spec /\ new.sha = old.sha /\ new.tr = old.tr
    /\ old.st \in {"merged", "closed", "unknown"} => new.st = old.st

\* What is stored when o is written: a terminating object without finalizers
\* is removed.
Stored(o) == IF o.del /\ o.fins = {} THEN NoObject ELSE o

\* A main-resource write of the spec and of the ctp finalizer; the generation
\* moves when the spec does.
WithSpec(o, spec, sha, tr) ==
    [o EXCEPT !.spec = spec, !.sha = sha, !.tr = tr,
              !.gen = IF o.spec = spec /\ o.sha = sha /\ o.tr = tr THEN o.gen ELSE o.gen + 1]

\* Server-Side Apply of spec and ctp finalizer, addressed by name: it creates
\* the object when there is none.
Applied(spec, sha, tr, fin) ==
    IF Exists(pr)
    THEN [WithSpec(pr, spec, sha, tr) EXCEPT
            !.fins = IF fin THEN @ \cup {"ctp"} ELSE @ \ {"ctp"}]
    ELSE [NoObject EXCEPT !.uid = lastUid + 1, !.gen = 1, !.spec = spec, !.sha = sha,
                          !.tr = tr, !.fins = IF fin THEN {"ctp"} ELSE {}]

\* The API server refuses to add a finalizer to a terminating object.
ApplyAccepted(new) == Admits(pr, new) /\ (pr.del => new.fins \subseteq pr.fins)

ApplyPullRequest(spec, sha, tr, fin) ==
    LET new == Applied(spec, sha, tr, fin)
    IN  /\ new.uid <= MaxUid /\ new.gen <= MaxGen
        /\ IF ApplyAccepted(new)
           THEN pr' = Stored(new) /\ lastUid' = IF Exists(pr) THEN lastUid ELSE new.uid
           ELSE UNCHANGED <<pr, lastUid>>

-----------------------------------------------------------------------------
(* The reconcile.                                                          *)

Idle == [step |-> "idle", obj |-> NoObject, result |-> "done"]

\* Continue with step s on working copy o.
Goto(s, o) == rec' = [rec EXCEPT !.step = s, !.obj = o]

\* Return from Reconcile: the deferred status apply is still to come.
Return(o, result) == rec' = [step |-> "patch", obj |-> o, result |-> result]

\* First call the controller makes for a non-terminating object that has the
\* promoter finalizer.
AfterEnsure(o) ==
    IF pullRequestStatusIsTerminal(o) THEN {"delete"}
    ELSE IF maySkipSCMSync(o) THEN {"patch", "findopen"}
    ELSE {"findopen"}

\* First call the controller makes for the object it read.
FirstStep(o) ==
    IF pullRequestIsTerminating(o)
    THEN IF "promoter" \notin o.fins THEN {"patch"}
         ELSE IF pullRequestStatusIsFinalized(o) THEN {"release"}
         ELSE {"get"}
    ELSE IF "promoter" \notin o.fins THEN {"ensure"}
         ELSE AfterEnsure(o)

Reconcile ==
    /\ rec.step = "idle" /\ queued
    /\ queued' = FALSE
    /\ IF Exists(cache)
       THEN \E s \in FirstStep(cache) :
              rec' = [step |-> s, obj |-> cache,
                      result |-> IF cache.del THEN "done" ELSE "later"]
       ELSE rec' = rec
    /\ UNCHANGED <<timer, pr, cache, scm, head, lastUid, fails>>

\* Update with optimistic concurrency: it succeeds only on the version read.
\* (A version is compared by its content; a write that left the content alone
\* in between would also be a conflict, which CallFails covers.)
ensureFinalizer ==
    /\ rec.step = "ensure"
    /\ IF rec.obj = pr
       THEN LET o == [pr EXCEPT !.fins = @ \cup {"promoter"}]
            IN  /\ pr' = o
                /\ \E s \in AfterEnsure(o) :
                     rec' = [step |-> s, obj |-> o, result |-> "later"]
       ELSE /\ Return([rec.obj EXCEPT !.fins = @ \cup {"promoter"}], "error")
            /\ pr' = pr
    /\ UNCHANGED <<timer, cache, queued, scm, head, lastUid, fails>>

\* Mutant: a patch that needs no particular version.
releaseFinalizerByPatch ==
    /\ rec.step = "release"
    /\ pr' = IF Exists(pr) THEN Stored([pr EXCEPT !.fins = @ \ {"promoter"}]) ELSE pr
    /\ Return([rec.obj EXCEPT !.fins = @ \ {"promoter"}], "done")
    /\ UNCHANGED <<timer, cache, queued, scm, head, lastUid, fails>>

releaseFinalizer ==
    /\ rec.step = "release"
    /\ pr' = IF rec.obj = pr THEN Stored([pr EXCEPT !.fins = @ \ {"promoter"}]) ELSE pr
    /\ Return([rec.obj EXCEPT !.fins = @ \ {"promoter"}],
              IF rec.obj = pr THEN "done" ELSE "error")
    /\ UNCHANGED <<timer, cache, queued, scm, head, lastUid, fails>>

\* Delete is by name and has no precondition.
Deleted(o) == IF o.del \/ ~Exists(o) THEN o
              ELSE Stored([o EXCEPT !.del = TRUE, !.gen = @ + 1])

DeleteTerminal ==
    /\ rec.step = "delete"
    /\ pr' = Deleted(pr)
    /\ Return(rec.obj, "done")
    /\ UNCHANGED <<timer, cache, queued, scm, head, lastUid, fails>>

\* Mutant: the SCM's answer is copied as it is.
GetRaw ==
    /\ rec.step = "get"
    /\ LET s == scm[rec.obj.id].st
       IN  Return([rec.obj EXCEPT !.st = s, !.mts = IF s = "merged" THEN rec.obj.id ELSE 0], "done")
    /\ UNCHANGED <<timer, pr, cache, queued, scm, head, lastUid, fails>>

\* Terminating lane: Get by status.id.  A recorded merge that the SCM does not
\* confirm is an error; a merge without its commit is recorded and retried.
Get ==
    /\ rec.step = "get"
    /\ LET o == rec.obj
           s == scm[o.id].st
       IN  \/ /\ s = "gone"
              /\ Return([o EXCEPT !.st = "unknown"], "done") /\ fails' = fails
           \/ /\ s \in {"open", "merging", "closed"} /\ o.st = "merged"
              /\ Return(o, "error") /\ fails' = fails
           \/ /\ s = "closed" /\ o.st # "merged"
              /\ Return([o EXCEPT !.st = "closed"], "done") /\ fails' = fails
           \/ /\ s \in {"open", "merging"} /\ o.st # "merged"
              /\ Goto("close", o) /\ fails' = fails
           \/ /\ s = "merged"
              /\ Return([o EXCEPT !.st = "merged", !.mts = o.id], "done") /\ fails' = fails
           \/ /\ s = "merged" /\ fails < MaxFails
              /\ Return([o EXCEPT !.st = "merged", !.mts = 0], "error") /\ fails' = fails + 1
    /\ UNCHANGED <<timer, pr, cache, queued, scm, head, lastUid>>

\* Mutant: the outcome is recorded before the SCM's answer is looked at.
closeOptimistically ==
    /\ rec.step = "close"
    /\ LET i == rec.obj.id
       IN  scm' = IF scm[i].st \in {"open", "merging"} THEN [scm EXCEPT ![i].st = "closed"] ELSE scm
    /\ Return([rec.obj EXCEPT !.st = "closed"], "done")
    /\ UNCHANGED <<timer, pr, cache, queued, head, lastUid, fails>>

\* The SCM refuses to close a pull request that is no longer open.
closePullRequest ==
    /\ rec.step = "close"
    /\ LET i == rec.obj.id
       IN  IF scm[i].st \in {"open", "merging"}
           THEN /\ scm' = [scm EXCEPT ![i].st = "closed"]
                /\ Return([rec.obj EXCEPT !.st = "closed"], "done")
           ELSE scm' = scm /\ Return(rec.obj, "error")
    /\ UNCHANGED <<timer, pr, cache, queued, head, lastUid, fails>>

\* Pull requests the SCM lists as open for the two branches.
OpenIds == {i \in Ids : scm[i].st \in {"open", "merging"}}

\* Whatever is found is recorded, even when a later call (GetUrl, Update, a
\* label call) fails.
FindOpen ==
    /\ rec.step = "findopen"
    /\ LET o == rec.obj
       IN  IF OpenIds # {}
           THEN \E i \in OpenIds :
                  LET n == [o EXCEPT !.id = i, !.st = "open"]
                  IN  \/ o.spec = "merged" /\ Goto("merge", n) /\ fails' = fails
                      \/ o.spec # "merged" /\ Return(n, "later") /\ fails' = fails
                      \/ fails < MaxFails /\ Return(n, "error") /\ fails' = fails + 1
           ELSE /\ IF o.id = 0 THEN Goto("create", o)
                   ELSE Return([o EXCEPT !.st = "merged-or-closed"], "later")
                /\ fails' = fails
    /\ UNCHANGED <<timer, pr, cache, queued, scm, head, lastUid>>

\* The SCM holds one open pull request for a pair of branches, and here at
\* most MaxId in all: it refuses to create another.  When the response is lost
\* the controller learns nothing; when GetUrl fails it still records the id.
createPullRequest ==
    /\ rec.step = "create"
    /\ IF OpenIds # {} \/ \A i \in Ids : scm[i].st # "none"
       THEN scm' = scm /\ fails' = fails /\ Return(rec.obj, "error")
       ELSE \E i \in Ids :
              LET n == [rec.obj EXCEPT !.id = i, !.st = "open"]
              IN  /\ \A j \in Ids : j < i <=> scm[j].st # "none"
                  /\ scm' = [scm EXCEPT ![i].st = "open"]
                  /\ \/ Return(n, "later") /\ fails' = fails
                     \/ /\ fails < MaxFails /\ fails' = fails + 1
                        /\ \E o \in {rec.obj, n} : Return(o, "error")
    /\ UNCHANGED <<timer, pr, cache, queued, head, lastUid>>

\* The SCM merges only the commit it was asked to merge.  It may complete the
\* merge later (Azure DevOps), and may leave the commit out of its answer.
mergePullRequest ==
    /\ rec.step = "merge"
    /\ LET i == rec.obj.id
       IN  IF scm[i].st # "open" \/ head # rec.obj.sha
           THEN scm' = scm /\ fails' = fails /\ Return(rec.obj, "error")
           ELSE \E s \in {"merged"} \cup (IF Async THEN {"merging"} ELSE {}), m \in {0, i}, lost \in BOOLEAN :
                  /\ s = "merging" => m = 0
                  /\ scm' = [scm EXCEPT ![i] = [st |-> s, sha |-> head, by |-> "promoter"]]
                  /\ lost => fails < MaxFails
                  /\ fails' = IF lost THEN fails + 1 ELSE fails
                  /\ IF lost THEN Return(rec.obj, "error")
                     ELSE Return([rec.obj EXCEPT !.st = "merged", !.mts = m], "later")
    /\ UNCHANGED <<timer, pr, cache, queued, head, lastUid>>

\* HandleReconciliationResult: the status of the working copy is applied to
\* whatever object has the name now.  A rejected apply is an error.
StatusApplied == [pr EXCEPT !.id = rec.obj.id, !.st = rec.obj.st,
                            !.mts = rec.obj.mts, !.obs = rec.obj.gen]

HandleReconciliationResult ==
    /\ rec.step = "patch"
    /\ LET ok == Exists(pr) /\ Admits(pr, StatusApplied)
       IN  /\ pr' = IF ok THEN StatusApplied ELSE pr
           /\ queued' = (queued \/ rec.result = "error" \/ (Exists(pr) /\ ~ok))
           /\ timer' = (rec.result = "later" /\ (ok \/ ~Exists(pr)))
    /\ rec' = Idle
    /\ UNCHANGED <<cache, scm, head, lastUid, fails>>

\* Any call of a reconcile may fail and leave no trace but the error.
CallFails ==
    /\ rec.step \notin {"idle", "patch"}
    /\ fails < MaxFails
    /\ fails' = fails + 1
    /\ Return(rec.obj, "error")
    /\ UNCHANGED <<timer, pr, cache, queued, scm, head, lastUid>>

StatusApplyFails ==
    /\ rec.step = "patch"
    /\ fails < MaxFails
    /\ fails' = fails + 1
    /\ rec' = Idle
    /\ queued' = TRUE
    /\ UNCHANGED <<timer, pr, cache, scm, head, lastUid>>

\* A failed call of the owner counts as well.
OwnerCallFails ==
    /\ fails < MaxFails
    /\ fails' = fails + 1
    /\ UNCHANGED <<timer, pr, cache, rec, queued, scm, head, lastUid>>

\* The process dies; its successor lists every object and enqueues it.
Crash ==
    /\ fails < MaxFails
    /\ fails' = fails + 1
    /\ rec' = Idle
    /\ cache' = pr
    /\ queued' = TRUE
    /\ timer' = FALSE
    /\ UNCHANGED <<pr, scm, head, lastUid>>

\* RequeueAfter: minutes, against the fractions of a second of a watch, so the
\* cache has caught up when it fires.
RequeueAfter ==
    /\ timer /\ cache = pr
    /\ timer' = FALSE
    /\ queued' = TRUE
    /\ UNCHANGED <<pr, cache, rec, scm, head, lastUid, fails>>

CacheSync ==
    /\ cache # pr
    /\ cache' = pr
    /\ queued' = (queued \/ Enqueues(cache, pr))
    /\ UNCHANGED <<timer, pr, rec, scm, head, lastUid, fails>>

-----------------------------------------------------------------------------
(* The other actors.                                                       *)

\* Any client may apply any spec, with or without the ctp finalizer: the
\* controller has only the admission rules to rely on.  ChangeTransferPolicy
\* is shown to be such a client.
OwnerApply ==
    /\ \E spec \in SpecStates, s \in 1 .. head, t \in BOOLEAN, fin \in BOOLEAN :
         ApplyPullRequest(spec, s, t, fin)
    /\ UNCHANGED <<timer, cache, rec, queued, scm, head, fails>>

\* EnqueuePR: the owner puts a live object's key on the queue.
EnqueuePR ==
    /\ Exists(cache) /\ ~cache.del
    /\ queued' = TRUE
    /\ UNCHANGED <<timer, pr, cache, rec, scm, head, lastUid, fails>>

UserDelete ==
    /\ Exists(pr) /\ ~pr.del
    /\ pr' = Deleted(pr)
    /\ UNCHANGED <<timer, cache, rec, queued, scm, head, lastUid, fails>>

Hydrate ==
    /\ head < MaxSha
    /\ head' = head + 1
    /\ UNCHANGED <<timer, pr, cache, rec, queued, scm, lastUid, fails>>

ScmStep(i, from, to) ==
    /\ scm[i].st \in from
    /\ scm' = [scm EXCEPT ![i].st = to]
    /\ UNCHANGED <<timer, pr, cache, rec, queued, head, lastUid, fails>>

ExternalMerge(i) ==
    /\ scm[i].st = "open"
    /\ scm' = [scm EXCEPT ![i] = [st |-> "merged", sha |-> head, by |-> "external"]]
    /\ UNCHANGED <<timer, pr, cache, rec, queued, head, lastUid, fails>>

ExternalClose(i) == ScmStep(i, {"open"}, "closed")
CompleteMerge(i) == ScmStep(i, {"merging"}, "merged")
Vanish(i)        == ScmStep(i, {"closed"}, "gone")

-----------------------------------------------------------------------------
PRInit ==
    /\ pr = NoObject /\ cache = NoObject /\ rec = Idle /\ queued = FALSE /\ timer = FALSE
    /\ scm = [i \in Ids |-> [st |-> "none", sha |-> 0, by |-> "none"]]
    /\ head = 1 /\ lastUid = 0 /\ fails = 0

Controller ==
    \/ Reconcile \/ ensureFinalizer \/ releaseFinalizer \/ DeleteTerminal
    \/ Get \/ closePullRequest \/ FindOpen \/ createPullRequest
    \/ mergePullRequest \/ HandleReconciliationResult \/ RequeueAfter

World ==
    \/ OwnerApply \/ EnqueuePR \/ UserDelete \/ Hydrate
    \/ \E i \in Ids : ExternalMerge(i) \/ ExternalClose(i) \/ CompleteMerge(i) \/ Vanish(i)

Failure == CallFails \/ StatusApplyFails \/ OwnerCallFails \/ Crash

PRNext == Controller \/ CacheSync \/ World \/ Failure

PRSpec == PRInit /\ [][PRNext]_prVars

-----------------------------------------------------------------------------
\* Every variable has its type; in particular the SCM's own vocabulary (gone,
\* merging) never reaches status.state.
PRTypeOK ==
    /\ pr \in Object /\ cache \in Object
    /\ rec \in RecType
    /\ queued \in BOOLEAN /\ timer \in BOOLEAN
    /\ scm \in [Ids -> ScmType]
    /\ head \in Shas
    /\ lastUid \in 0 .. MaxUid /\ fails \in 0 .. MaxFails

\* What the status of o says of the SCM s.  A closed or unknown pull request is not
\* open any more; a merged one was accepted for merging (an SCM that completes
\* merges later may still abandon it); a recorded merge commit is real, and is
\* that of the recorded pull request.
Truthful(o, s) ==
    /\ o.mts # 0 => o.mts = o.id /\ o.st = "merged" /\ s[o.mts].st = "merged"
    /\ o.id # 0  => s[o.id].st # "none"
    /\ o.st \in {"closed", "unknown"} => o.id # 0 /\ s[o.id].st \in {"closed", "gone"}
    /\ o.st = "merged" => o.id # 0 /\ s[o.id].st \in {"merging", "merged", "closed", "gone"}

\* The stored status never claims an outcome the SCM does not have, although
\* every status write comes from a copy read earlier, may land on a later
\* version or a later incarnation of the object, and follows calls whose
\* answers are lost.
StatusTruthful == Truthful(pr, scm)

\* The object leaves the API server only with an outcome on record (or without
\* a pull request id): the promoter finalizer is released with optimistic
\* concurrency, so no write can slip between the decision and the release.
ReleasedOnlyWithOutcome ==
    [][(Exists(pr) /\ pr'.uid # pr.uid /\ "promoter" \in pr.fins)
          => pullRequestStatusIsFinalized(pr)]_prVars

\* No wake-up is lost: while a terminating object carries the promoter finalizer,
\* its key is queued, a reconcile is in flight, or the watch has yet to deliver a
\* change that queues the key.  The terminating lane arranges no retry of its own:
\* a reconcile that has recorded an outcome, from whatever copy, ends with
\* nothing but the watch predicates to bring the next.
NotForgotten ==
    pr.del /\ "promoter" \in pr.fins => queued \/ rec.step # "idle" \/ Enqueues(cache, pr)

\* A terminating object does not keep the promoter finalizer for ever: the
\* watch predicates and the retries bring the reconciles that Get, Close and
\* release need.  The fairness it needs is that of the composition with the
\* policy (ChangeTransferPolicy!FairSpec).
TerminatingIsReleased ==
    (pr.del /\ "promoter" \in pr.fins) ~> ("promoter" \notin pr.fins)
=============================================================================
