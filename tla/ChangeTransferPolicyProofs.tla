--------------------- MODULE ChangeTransferPolicyProofs ---------------------
(***************************************************************************)
(* Proofs about the composition of the ChangeTransferPolicy controller     *)
(* with the PullRequest controller, for every bound: the policy is one of  *)
(* the clients that PullRequest allows for, so that everything proved of   *)
(* the PullRequest controller holds in the composition; what it merges was *)
(* let through by a gate; and it lets a PullRequest go only after its      *)
(* outcome was recorded.                                                   *)
(***************************************************************************)
EXTENDS ChangeTransferPolicy, PullRequestProofs, WellFoundedInduction

\* An object names a commit of the proposed branch.
Specified(o) == Exists(o) => o.sha \in 1 .. head

\* An object that asks for a merge does so for a policy whose gate was passed.
Wanted(o) == o.spec = "merged" => AutoMerge /\ passed # {}

\* The id and the state of a status are recorded together.
Paired(o) == o.id = 0 <=> o.st = ""

\* The status tells the outcome for good.
Outcome(o) == o.st \in {"closed", "unknown"} \/ (o.st = "merged" /\ o.mts # 0)

\* As long as the policy holds the stored object, the outcome that a copy o
\* tells is that of the stored object, though o may be old.
Current(o) ==
    Held(o) /\ Outcome(o) /\ "ctp" \in pr.fins =>
        pr.st = o.st /\ pr.mts = o.mts /\ (o.st = "merged" => pr.tr = o.tr)

CopiesInv ==
    /\ Specified(pr) /\ Specified(cache) /\ Specified(crec.obj)
    /\ Wanted(pr) /\ Wanted(cache) /\ Wanted(rec.obj) /\ Wanted(crec.obj)
    /\ Paired(pr) /\ Paired(cache) /\ Paired(rec.obj) /\ Paired(crec.obj)
    /\ rec.step = "merge" => rec.obj.spec = "merged"

\* The branches: what was merged is a commit, the dry commits are numbered no
\* faster than the hydrated ones, and only what was pushed was checked.
BranchInv ==
    /\ passed \subseteq 1 .. head
    /\ \A i \in Ids : scm[i].st \in {"merging", "merged"} => scm[i].sha \in Shas
    /\ \A s \in Shas : dry[s] <= s

\* The reconcile in flight: what it relies on at each step.
ReconcileInv ==
    /\ ctp.st # "" /\ crec.pr.st # ""
    /\ crec.step = "apply" => crec.prop \in 1 .. head
    /\ crec.ok => passed # {}
    /\ crec.step \notin {"note", "release"} => crec.obj = NoObject
    /\ crec.step = "note" => NeedsNote(crec.obj)
    /\ crec.step = "release" => /\ MayRelease(crec.obj)
                                /\ crec.obj.st = "merged" /\ crec.obj.tr => crec.obj.mts \in notes

CurrentInv == Current(cache) /\ Current(crec.obj)

PolicyInv ==
    /\ PRInv /\ CTPTypeOK /\ MergedAfterAPass
    /\ CopiesInv /\ BranchInv /\ ReconcileInv /\ CurrentInv
-----------------------------------------------------------------------------
(* Steps of the PullRequest controller and of the world around it that are *)
(* not an apply of its owner.                                              *)

QuietStep ==
    \/ Controller \/ CacheSync \/ EnqueuePR \/ UserDelete \/ Hydrate \/ Failure
    \/ \E i \in Ids : ExternalMerge(i) \/ ExternalClose(i) \/ CompleteMerge(i) \/ Vanish(i)
    \/ UNCHANGED prVars

SameSpec(o, p) == p.uid = o.uid /\ p.spec = o.spec /\ p.sha = o.sha /\ p.tr = o.tr

\* What they do to the stored object: remove it, or write finalizers, deletion
\* or, as far as the admission rules allow it, the status.
PrMove ==
    \/ pr' = NoObject /\ "ctp" \notin pr.fins
    \/ /\ SameSpec(pr, pr') /\ ("ctp" \in pr'.fins <=> "ctp" \in pr.fins)
       /\ SameStatus(pr, pr') \/ (SameStatus(rec.obj, pr') /\ Admits(pr, pr'))

\* The working copy is a copy, or has recorded a pull request.
RecMove ==
    /\ \E c \in {pr, cache, rec.obj, NoObject} :
          /\ rec'.obj.spec = c.spec
          /\ SameStatus(c, rec'.obj) \/ (rec'.obj.id # 0 /\ rec'.obj.st # "")
    /\ rec'.step = "merge" => rec'.obj.spec = "merged"

ScmMove ==
    \A i \in Ids :
        \/ scm'[i] = scm[i]
        \/ /\ scm'[i].by = scm[i].by /\ scm'[i].sha = scm[i].sha
           /\ scm'[i].st \in {"merging", "merged"} => scm[i].st \in {"merging", "merged"}
        \/ scm'[i].sha = head /\ scm'[i].by = "external"
        \/ scm'[i].sha = head /\ scm'[i].by = "promoter" /\ rec.step = "merge"

LEMMA StoredMove ==
    ASSUME NEW o \in Object, NEW n \in Object, SameSpec(o, n), SameStatus(o, n),
           "ctp" \in n.fins <=> "ctp" \in o.fins
    PROVE  \/ Stored(n) = NoObject /\ "ctp" \notin o.fins
           \/ /\ SameSpec(o, Stored(n)) /\ SameStatus(o, Stored(n))
              /\ "ctp" \in Stored(n).fins <=> "ctp" \in o.fins
<1>1. CASE n.del /\ n.fins = {}
  BY <1>1 DEF Stored
<1>2. CASE ~(n.del /\ n.fins = {})
  BY <1>2 DEF Stored
<1>3. QED
  BY <1>1, <1>2

LEMMA FinsMove ==
    ASSUME NEW o \in Object, NEW f \in SUBSET Finalizers, "ctp" \in f <=> "ctp" \in o.fins
    PROVE  LET n == [o EXCEPT !.fins = f]
           IN  /\ n \in Object /\ SameSpec(o, n) /\ SameStatus(o, n)
               /\ "ctp" \in n.fins <=> "ctp" \in o.fins
BY FinsWriteType, Zenon DEF SameSpec, SameStatus, Object

LEMMA QuietPr == PRInv /\ QuietStep => PrMove
<1> SUFFICES ASSUME PRInv, QuietStep PROVE PrMove
  OBVIOUS
<1>0. pr \in Object /\ rec \in RecType /\ rec.obj \in Object
  BY DEF PRInv, PRTypeOK, RecType
<1>f. pr.fins \in SUBSET Finalizers /\ pr.gen + 1 \in Nat
  BY <1>0, FieldType
<1>u. CASE pr' = pr
  BY <1>u DEF PrMove, SameSpec, SameStatus
<1>d. CASE pr' = Deleted(pr)
  <2> DEFINE n == [pr EXCEPT !.del = TRUE, !.gen = @ + 1]
  <2>1. n \in Object
    BY <1>0, <1>f, DelWriteType
  <2>2. SameSpec(pr, n) /\ SameStatus(pr, n) /\ n.fins = pr.fins
    BY <1>0, Zenon DEF SameSpec, SameStatus, Object
  <2>3. pr' = pr \/ pr' = Stored(n)
    BY <1>d DEF Deleted
  <2> HIDE DEF n
  <2>4. QED
    BY <1>0, <1>u, <2>1, <2>2, <2>3, StoredMove DEF PrMove
<1>1. CASE ensureFinalizer
  <2> DEFINE f == pr.fins \cup {"promoter"}
  <2>1. pr' = pr \/ pr' = [pr EXCEPT !.fins = f]
    BY <1>1 DEF ensureFinalizer
  <2>2. f \in SUBSET Finalizers /\ ("ctp" \in f <=> "ctp" \in pr.fins)
    BY <1>f DEF Finalizers
  <2> HIDE DEF f
  <2>3. QED
    BY <1>0, <1>u, <2>1, <2>2, FinsMove DEF PrMove
<1>2. CASE releaseFinalizer
  <2> DEFINE f == pr.fins \ {"promoter"}
  <2>1. pr' = pr \/ pr' = Stored([pr EXCEPT !.fins = f])
    BY <1>2 DEF releaseFinalizer
  <2>2. f \in SUBSET Finalizers /\ ("ctp" \in f <=> "ctp" \in pr.fins)
    BY <1>f DEF Finalizers
  <2> HIDE DEF f
  <2> DEFINE n == [pr EXCEPT !.fins = f]
  <2>3. n \in Object /\ SameSpec(pr, n) /\ SameStatus(pr, n) /\ ("ctp" \in n.fins <=> "ctp" \in pr.fins)
    BY <1>0, <2>2, FinsMove
  <2> HIDE DEF n
  <2>4. QED
    BY <1>0, <1>u, <2>1, <2>3, StoredMove DEF PrMove, n
<1>3. CASE HandleReconciliationResult
  <2>1. pr' = pr \/ (pr' = StatusApplied /\ Admits(pr, StatusApplied))
    BY <1>3 DEF HandleReconciliationResult
  <2>2. SameSpec(pr, StatusApplied) /\ SameStatus(rec.obj, StatusApplied) /\ StatusApplied.fins = pr.fins
    BY <1>0, Zenon DEF StatusApplied, SameSpec, SameStatus, Object
  <2>3. QED
    BY <1>u, <2>1, <2>2 DEF PrMove
<1>4. CASE DeleteTerminal \/ UserDelete
  BY <1>4, <1>d DEF DeleteTerminal, UserDelete
<1>5. CASE Reconcile \/ Get \/ closePullRequest \/ FindOpen \/ createPullRequest \/ mergePullRequest
           \/ RequeueAfter \/ CacheSync \/ EnqueuePR \/ Hydrate \/ Failure
  BY <1>5, <1>u, Zenon DEF Reconcile, Get, closePullRequest, FindOpen, createPullRequest, mergePullRequest,
     RequeueAfter, CacheSync, EnqueuePR, Hydrate, Failure, CallFails, StatusApplyFails, OwnerCallFails, Crash
<1>6. CASE \E i \in Ids : ExternalMerge(i) \/ ExternalClose(i) \/ CompleteMerge(i) \/ Vanish(i)
  BY <1>6, <1>u DEF ExternalMerge, ExternalClose, CompleteMerge, Vanish, ScmStep
<1>7. CASE UNCHANGED prVars
  BY <1>7, <1>u DEF prVars
<1>8. QED
  BY <1>1, <1>2, <1>3, <1>4, <1>5, <1>6, <1>7 DEF QuietStep, Controller

LEMMA QuietRec ==
    ASSUME PRInv, QuietStep, rec.step = "merge" => rec.obj.spec = "merged"
    PROVE  RecMove
<1>0. pr \in Object /\ cache \in Object /\ rec \in RecType /\ rec.obj \in Object /\ Justified(rec.step, rec.obj)
  BY DEF PRInv, PRTypeOK, RecType
<1>c. ASSUME NEW c \in {pr, cache, rec.obj, NoObject}, rec'.obj = c, rec'.step = "merge" => c.spec = "merged" PROVE RecMove
  BY <1>c DEF RecMove, SameStatus
<1>r. ASSUME NEW r, Return(rec.obj, r) PROVE RecMove
  BY <1>r, <1>c, ReturnEffect
<1>i. CASE rec' = Idle
  <2>1. rec'.obj = NoObject /\ rec'.step = "idle"
    BY <1>i DEF Idle
  <2>2. QED
    BY <1>c, <2>1
<1>w. ASSUME NEW n, NEW r, Return(n, r), n.spec = rec.obj.spec, n.id # 0, n.st # "" PROVE RecMove
  <2>1. rec'.obj = n /\ rec'.step = "patch"
    BY <1>w, ReturnEffect
  <2>2. QED
    BY <1>w, <2>1 DEF RecMove
<1>u. CASE rec' = rec
  BY <1>u, <1>c
<1>1. CASE Reconcile
  <2>1. CASE Exists(cache)
    <3>1. PICK s \in FirstStep(cache) : rec'.step = s /\ rec'.obj = cache
      BY <1>1, <2>1 DEF Reconcile
    <3>2. s # "merge"
      BY DEF FirstStep, AfterEnsure
    <3>3. QED
      BY <1>c, <3>1, <3>2
  <2>2. CASE ~Exists(cache)
    BY <1>1, <1>u, <2>2 DEF Reconcile
  <2>3. QED
    BY <2>1, <2>2
<1>2. CASE ensureFinalizer
  <2> DEFINE o == [pr EXCEPT !.fins = @ \cup {"promoter"}]
             p == [rec.obj EXCEPT !.fins = @ \cup {"promoter"}]
  <2>1. o.spec = pr.spec /\ SameStatus(pr, o) /\ p.spec = rec.obj.spec /\ SameStatus(rec.obj, p)
    BY <1>0, Zenon DEF SameStatus, Object
  <2>2. CASE rec.obj = pr
    <3>1. PICK s \in AfterEnsure(o) : rec'.step = s /\ rec'.obj = o
      BY <1>2, <2>2 DEF ensureFinalizer
    <3>2. s # "merge"
      BY DEF AfterEnsure
    <3> HIDE DEF o
    <3>3. QED
      BY <2>1, <3>1, <3>2 DEF RecMove
  <2>3. CASE rec.obj # pr
    <3>1. rec'.obj = p /\ rec'.step = "patch"
      BY <1>2, <2>3, ReturnEffect DEF ensureFinalizer
    <3> HIDE DEF p
    <3>2. QED
      BY <2>1, <3>1 DEF RecMove
  <2>4. QED
    BY <2>2, <2>3
<1>3. CASE releaseFinalizer
  <2> DEFINE p == [rec.obj EXCEPT !.fins = @ \ {"promoter"}]
  <2>1. p.spec = rec.obj.spec /\ SameStatus(rec.obj, p)
    BY <1>0, Zenon DEF SameStatus, Object
  <2>2. rec'.obj = p /\ rec'.step = "patch"
    BY <1>3, ReturnEffect DEF releaseFinalizer
  <2> HIDE DEF p
  <2>3. QED
    BY <2>1, <2>2 DEF RecMove
<1>4. CASE DeleteTerminal \/ CallFails
  BY <1>4, <1>r DEF DeleteTerminal, CallFails
<1>5. CASE Get
  <2>1. rec.obj.id # 0
    BY <1>0, <1>5 DEF Get, Justified
  <2> DEFINE a == [rec.obj EXCEPT !.st = "unknown"]
             b == [rec.obj EXCEPT !.st = "closed"]
             c == [rec.obj EXCEPT !.st = "merged", !.mts = rec.obj.id]
             d == [rec.obj EXCEPT !.st = "merged", !.mts = 0]
  <2>2. \A n \in {a, b, c, d} : n.spec = rec.obj.spec /\ n.id # 0 /\ n.st # ""
    BY <1>0, <2>1 DEF Object
  <2>3. \/ \E n \in {a, b, c, d}, r \in {"done", "error"} : Return(n, r)
        \/ Return(rec.obj, "error")
        \/ Goto("close", rec.obj)
    BY <1>5, Zenon DEF Get
  <2> HIDE DEF a, b, c, d
  <2>4. CASE Goto("close", rec.obj)
    BY <1>0, <1>c, <2>4, GotoEffect
  <2>5. QED
    BY <1>r, <1>w, <2>2, <2>3, <2>4
<1>6. CASE closePullRequest
  <2>1. rec.obj.id # 0
    BY <1>0, <1>6 DEF closePullRequest, Justified
  <2> DEFINE b == [rec.obj EXCEPT !.st = "closed"]
  <2>2. b.spec = rec.obj.spec /\ b.id # 0 /\ b.st # ""
    BY <1>0, <2>1 DEF Object
  <2>3. Return(b, "done") \/ Return(rec.obj, "error")
    BY <1>6 DEF closePullRequest
  <2> HIDE DEF b
  <2>4. QED
    BY <1>r, <1>w, <2>2, <2>3
<1>7. CASE FindOpen
  <2>1. CASE OpenIds # {}
    <3>1. PICK i \in OpenIds :
            LET n == [rec.obj EXCEPT !.id = i, !.st = "open"]
            IN  \/ rec.obj.spec = "merged" /\ Goto("merge", n)
                \/ Return(n, "later") \/ Return(n, "error")
      BY <1>7, <2>1 DEF FindOpen
    <3> DEFINE n == [rec.obj EXCEPT !.id = i, !.st = "open"]
    <3>2. n.spec = rec.obj.spec /\ n.id = i /\ n.st = "open"
      BY <1>0 DEF Object
    <3>3. i # 0
      BY BoundsAssumption DEF OpenIds, Ids
    <3> HIDE DEF n
    <3>4. CASE rec.obj.spec = "merged" /\ Goto("merge", n)
      <4>1. rec'.obj = n
        BY <1>0, <3>4, GotoEffect
      <4>2. QED
        BY <3>2, <3>3, <3>4, <4>1 DEF RecMove
    <3>5. QED
      BY <1>w, <3>1, <3>2, <3>3, <3>4 DEF n
  <2>2. CASE OpenIds = {} /\ rec.obj.id = 0
    <3>1. Goto("create", rec.obj)
      BY <1>7, <2>2 DEF FindOpen
    <3>2. QED
      BY <1>0, <1>c, <3>1, GotoEffect
  <2>3. CASE OpenIds = {} /\ rec.obj.id # 0
    <3> DEFINE n == [rec.obj EXCEPT !.st = "merged-or-closed"]
    <3>1. Return(n, "later")
      BY <1>7, <2>3 DEF FindOpen
    <3>2. n.spec = rec.obj.spec /\ n.id # 0 /\ n.st # ""
      BY <1>0, <2>3 DEF Object
    <3> HIDE DEF n
    <3>3. QED
      BY <1>w, <3>1, <3>2
  <2>4. QED
    BY <2>1, <2>2, <2>3
<1>8. CASE createPullRequest
  <2>1. \/ \E r : Return(rec.obj, r)
        \/ \E i \in Ids : \E r : Return([rec.obj EXCEPT !.id = i, !.st = "open"], r)
    <3>1. CASE OpenIds # {} \/ \A i \in Ids : scm[i].st # "none"
      BY <1>8, <3>1 DEF createPullRequest
    <3>2. CASE ~(OpenIds # {} \/ \A i \in Ids : scm[i].st # "none")
      <4>1. PICK i \in Ids :
              \/ Return([rec.obj EXCEPT !.id = i, !.st = "open"], "later")
              \/ \E x \in {rec.obj, [rec.obj EXCEPT !.id = i, !.st = "open"]} : Return(x, "error")
        BY <1>8, <3>2 DEF createPullRequest
      <4>2. QED
        BY <4>1
    <3>3. QED
      BY <3>1, <3>2
  <2>2. ASSUME NEW i \in Ids, NEW r, Return([rec.obj EXCEPT !.id = i, !.st = "open"], r) PROVE RecMove
    <3> DEFINE n == [rec.obj EXCEPT !.id = i, !.st = "open"]
    <3>1. n.spec = rec.obj.spec /\ n.id = i /\ n.st = "open" /\ i # 0
      BY <1>0, BoundsAssumption DEF Object, Ids
    <3>2. Return(n, r)
      BY <2>2
    <3> HIDE DEF n
    <3>3. QED
      BY <1>w, <3>1, <3>2
  <2>3. QED
    BY <1>r, <2>1, <2>2
<1>9. CASE mergePullRequest
  <2>1. rec.obj.id # 0
    BY <1>0, <1>9 DEF mergePullRequest, Justified
  <2>2. \/ Return(rec.obj, "error")
        \/ \E m \in {0, rec.obj.id} : Return([rec.obj EXCEPT !.st = "merged", !.mts = m], "later")
    BY <1>9 DEF mergePullRequest
  <2>3. ASSUME NEW m \in {0, rec.obj.id}, Return([rec.obj EXCEPT !.st = "merged", !.mts = m], "later") PROVE RecMove
    <3> DEFINE n == [rec.obj EXCEPT !.st = "merged", !.mts = m]
    <3>1. n.spec = rec.obj.spec /\ n.id # 0 /\ n.st # ""
      BY <1>0, <2>1 DEF Object
    <3>2. Return(n, "later")
      BY <2>3
    <3> HIDE DEF n
    <3>3. QED
      BY <1>w, <3>1, <3>2
  <2>4. QED
    BY <1>r, <2>2, <2>3
<1>10. CASE HandleReconciliationResult \/ StatusApplyFails \/ Crash
  BY <1>10, <1>i DEF HandleReconciliationResult, StatusApplyFails, Crash
<1>11. CASE RequeueAfter \/ CacheSync \/ EnqueuePR \/ UserDelete \/ Hydrate \/ OwnerCallFails
  BY <1>11, <1>u DEF RequeueAfter, CacheSync, EnqueuePR, UserDelete, Hydrate, OwnerCallFails
<1>12. CASE \E i \in Ids : ExternalMerge(i) \/ ExternalClose(i) \/ CompleteMerge(i) \/ Vanish(i)
  BY <1>12, <1>u DEF ExternalMerge, ExternalClose, CompleteMerge, Vanish, ScmStep
<1>13. CASE UNCHANGED prVars
  BY <1>13, <1>u DEF prVars
<1>14. QED
  BY <1>1, <1>2, <1>3, <1>4, <1>5, <1>6, <1>7, <1>8, <1>9, <1>10, <1>11, <1>12, <1>13
     DEF QuietStep, Controller, Failure

LEMMA QuietScm == PRInv /\ QuietStep => ScmMove
<1> SUFFICES ASSUME PRInv, QuietStep PROVE ScmMove
  OBVIOUS
<1>0. scm \in [Ids -> ScmType] /\ rec \in RecType
  BY DEF PRInv, PRTypeOK
<1>u. CASE scm' = scm
  BY <1>u DEF ScmMove
<1>w. ASSUME NEW i, NEW x, scm' = [scm EXCEPT ![i].st = x],
             x \in {"merging", "merged"} => scm[i].st \in {"merging", "merged"}
      PROVE  ScmMove
  <2>1. ASSUME NEW j \in Ids PROVE \/ scm'[j] = scm[j]
                                   \/ j = i /\ scm'[j].by = scm[j].by /\ scm'[j].sha = scm[j].sha /\ scm'[j].st = x
    BY <1>0, <1>w DEF ScmType
  <2>2. QED
    BY <1>w, <2>1 DEF ScmMove
<1>e. ASSUME NEW i, NEW x, NEW b, scm' = [scm EXCEPT ![i] = [st |-> x, sha |-> head, by |-> b]],
             b = "external" \/ (b = "promoter" /\ rec.step = "merge")
      PROVE  ScmMove
  <2>1. \A j \in Ids : scm'[j] = IF j = i THEN [st |-> x, sha |-> head, by |-> b] ELSE scm[j]
    BY <1>0, <1>e
  <2>2. \A j \in Ids : scm'[j] = scm[j] \/ (scm'[j].sha = head /\ scm'[j].by = b)
    BY <2>1
  <2>3. QED
    BY <1>e, <2>2 DEF ScmMove
<1>1. CASE closePullRequest
  BY <1>1, <1>u, <1>w DEF closePullRequest
<1>2. CASE createPullRequest
  <2>1. scm' = scm \/ \E i \in Ids : scm' = [scm EXCEPT ![i].st = "open"]
    BY <1>2 DEF createPullRequest
  <2>2. QED
    BY <1>u, <1>w, <2>1
<1>3. CASE mergePullRequest
  <2>1. /\ rec.step = "merge"
        /\ scm' = scm \/ \E x : scm' = [scm EXCEPT ![rec.obj.id] = [st |-> x, sha |-> head, by |-> "promoter"]]
    BY <1>3 DEF mergePullRequest
  <2>2. QED
    BY <1>u, <1>e, <2>1
<1>4. ASSUME NEW i \in Ids, ExternalMerge(i) PROVE ScmMove
  BY <1>4, <1>e DEF ExternalMerge
<1>5. ASSUME NEW i \in Ids, ExternalClose(i) \/ CompleteMerge(i) \/ Vanish(i) PROVE ScmMove
  <2>1. CASE ExternalClose(i) \/ Vanish(i)
    BY <1>w, <2>1 DEF ExternalClose, Vanish, ScmStep
  <2>2. CASE CompleteMerge(i)
    BY <1>w, <2>2 DEF CompleteMerge, ScmStep
  <2>3. QED
    BY <1>5, <2>1, <2>2
<1>6. CASE Reconcile \/ ensureFinalizer \/ releaseFinalizer \/ DeleteTerminal \/ Get \/ FindOpen
           \/ HandleReconciliationResult \/ RequeueAfter \/ CacheSync \/ EnqueuePR \/ UserDelete \/ Hydrate \/ Failure
  BY <1>6, <1>u, Zenon DEF Reconcile, ensureFinalizer, releaseFinalizer, DeleteTerminal, Get, FindOpen,
     HandleReconciliationResult, RequeueAfter, CacheSync, EnqueuePR, UserDelete, Hydrate, Failure, CallFails,
     StatusApplyFails, OwnerCallFails, Crash
<1>7. CASE UNCHANGED prVars
  BY <1>7, <1>u DEF prVars
<1>8. QED
  BY <1>1, <1>2, <1>3, <1>4, <1>5, <1>6, <1>7 DEF QuietStep, Controller

\* The cache catches up in a step of its own; the branch grows by one commit.
LEMMA QuietRest ==
    QuietStep => /\ cache' = cache \/ (cache' = pr /\ pr' = pr)
                 /\ head' = head \/ head' = head + 1
<1> SUFFICES ASSUME QuietStep
             PROVE  /\ cache' = cache \/ (cache' = pr /\ pr' = pr)
                    /\ head' = head \/ head' = head + 1
  OBVIOUS
<1>1. CASE Controller
  BY <1>1, Zenon DEF Controller, Reconcile, ensureFinalizer, releaseFinalizer, DeleteTerminal, Get, closePullRequest,
     FindOpen, createPullRequest, mergePullRequest, HandleReconciliationResult, RequeueAfter
<1>2. CASE CacheSync \/ EnqueuePR \/ UserDelete \/ Hydrate \/ Failure \/ UNCHANGED prVars
  BY <1>2, Zenon DEF CacheSync, EnqueuePR, UserDelete, Hydrate, Failure, CallFails, StatusApplyFails,
     OwnerCallFails, Crash, prVars
<1>3. CASE \E i \in Ids : ExternalMerge(i) \/ ExternalClose(i) \/ CompleteMerge(i) \/ Vanish(i)
  BY <1>3, Zenon DEF ExternalMerge, ExternalClose, CompleteMerge, Vanish, ScmStep
<1>4. QED
  BY <1>1, <1>2, <1>3 DEF QuietStep
-----------------------------------------------------------------------------
(* The steps of the composition.                                           *)

\* An apply of the policy: of a commit of the branch, a merge only after a
\* gate was passed, and the finalizer never while a copy in reach tells an
\* outcome.
PolicyApply ==
    /\ \E spec \in SpecStates, sha \in 1 .. head, tr \in BOOLEAN, fin \in BOOLEAN :
          /\ ApplyPullRequest(spec, sha, tr, fin)
          /\ spec = "merged" => AutoMerge /\ passed # {}
          /\ fin => crec.obj = NoObject /\ ~(Held(cache) /\ Outcome(cache))
    /\ UNCHANGED <<cache, rec, queued, timer, scm, head, fails>>

LEMMA ApplyEffect ==
    ASSUME PRTypeOK, NEW spec, NEW sha, NEW tr, NEW fin \in BOOLEAN, ApplyPullRequest(spec, sha, tr, fin)
    PROVE  \/ pr' = pr \/ (pr' = NoObject /\ ~fin)
           \/ /\ pr'.spec = spec /\ pr'.sha = sha /\ ("ctp" \in pr'.fins <=> fin)
              /\ SameStatus(pr, pr') \/ SameStatus(NoObject, pr')
<1> DEFINE new == Applied(spec, sha, tr, fin)
<1>1. pr \in Object
  BY DEF PRTypeOK
<1>2. /\ new.spec = spec /\ new.sha = sha /\ ("ctp" \in new.fins <=> fin)
      /\ SameStatus(pr, new) \/ SameStatus(NoObject, new)
  <2>1. CASE Exists(pr)
    <3>1. new.spec = spec /\ new.sha = sha /\ SameStatus(pr, new)
      BY <1>1, <2>1, Zenon DEF Applied, WithSpec, SameStatus, Object
    <3>2. new.fins = IF fin THEN pr.fins \cup {"ctp"} ELSE pr.fins \ {"ctp"}
      BY <1>1, <2>1, Zenon DEF Applied, WithSpec, Object
    <3> HIDE DEF new
    <3>3. QED
      BY <3>1, <3>2
  <2>2. CASE ~Exists(pr)
    <3>1. new.spec = spec /\ new.sha = sha /\ SameStatus(NoObject, new)
      BY <2>2, Zenon DEF Applied, SameStatus, NoObject
    <3>2. new.fins = IF fin THEN {"ctp"} ELSE {}
      BY <2>2, Zenon DEF Applied, NoObject
    <3> HIDE DEF new
    <3>3. QED
      BY <3>1, <3>2
  <2>3. QED
    BY <2>1, <2>2
<1>3. pr' = Stored(new) \/ pr' = pr
  BY DEF ApplyPullRequest
<1> HIDE DEF new
<1>4. QED
  BY <1>2, <1>3 DEF Stored

LEMMA NoObjectFields ==
    /\ NoObject.uid = 0 /\ NoObject.spec = "open" /\ NoObject.fins = {} /\ NoObject.id = 0
    /\ NoObject.st = "" /\ NoObject.mts = 0
BY Zenon DEF NoObject

LEMMA HeldNot == ~Held(NoObject)
BY NoObjectFields DEF Held, Exists

\* Every step of the composition is, to the PullRequest controller, one of its
\* own, one of the world's, or such an apply.
LEMMA Classify == PolicyInv /\ [CTPNext]_vars => QuietStep \/ PolicyApply
<1> SUFFICES ASSUME PolicyInv, [CTPNext]_vars PROVE QuietStep \/ PolicyApply
  OBVIOUS
<1>0. /\ pr \in Object /\ cache \in Object /\ crec.obj \in Object
      /\ Specified(cache) /\ Specified(crec.obj) /\ Wanted(cache) /\ Wanted(crec.obj) /\ ReconcileInv
  BY DEF PolicyInv, PRInv, PRTypeOK, CTPTypeOK, CopiesInv
<1>f. /\ cache.spec \in SpecStates /\ cache.tr \in BOOLEAN
      /\ crec.obj.spec \in SpecStates /\ crec.obj.tr \in BOOLEAN
  BY <1>0, FieldType
<1>u. CASE UNCHANGED prVars
  BY <1>u DEF QuietStep
<1>1. CASE handlePRFinalizerRemoval
  <2>1. Exists(crec.obj)
    BY <1>0, <1>1 DEF handlePRFinalizerRemoval, ReconcileInv, MayRelease, Held
  <2>2. crec.obj.sha \in 1 .. head
    BY <1>0, <2>1 DEF Specified
  <2>3. /\ ApplyPullRequest(crec.obj.spec, crec.obj.sha, crec.obj.tr, FALSE)
        /\ UNCHANGED <<cache, rec, queued, timer, scm, head, fails>>
    BY <1>1 DEF handlePRFinalizerRemoval
  <2>4. crec.obj.spec = "merged" => AutoMerge /\ passed # {}
    BY <1>0 DEF Wanted
  <2>5. PolicyApply
    BY <1>f, <2>2, <2>3, <2>4 DEF PolicyApply
  <2>6. QED
    BY <2>5
<1>2. CASE createOrUpdatePullRequest
  <2>1. CASE dry[crec.prop] = crec.act
    BY <1>2, <1>u, <2>1 DEF createOrUpdatePullRequest, enqueuePullRequestsForCTP, QuietStep
  <2>2. CASE dry[crec.prop] # crec.act /\ Exists(cache) /\ (pullRequestStatusFreezesSpec(cache) \/ cache.del)
    BY <1>2, <1>u, <2>2 DEF createOrUpdatePullRequest
  <2>3. CASE dry[crec.prop] # crec.act /\ ~(Exists(cache) /\ (pullRequestStatusFreezesSpec(cache) \/ cache.del))
    <3>1. /\ ApplyPullRequest(cache.spec, crec.prop, Exists(cache), TRUE) /\ crec.step = "apply"
          /\ UNCHANGED <<cache, rec, queued, timer, scm, head, fails>>
      BY <1>2, <2>3 DEF createOrUpdatePullRequest
    <3>2. crec.prop \in 1 .. head /\ crec.obj = NoObject
      BY <1>0, <3>1 DEF ReconcileInv
    <3>3. ~Held(cache) /\ Exists(cache) \in BOOLEAN
      BY <2>3 DEF Held, Exists
    <3>4. cache.spec = "merged" => AutoMerge /\ passed # {}
      BY <1>0 DEF Wanted
    <3>5. PolicyApply
      BY <1>f, <3>1, <3>2, <3>3, <3>4 DEF PolicyApply
    <3>6. QED
      BY <3>5
  <2>4. QED
    BY <2>1, <2>2, <2>3
<1>3. CASE mergePullRequests
  <2>1. CASE MayMerge
    <3>1. /\ ApplyPullRequest("merged", cache.sha, cache.tr, TRUE) /\ crec.step = "merge"
          /\ UNCHANGED <<cache, rec, queued, timer, scm, head, fails>>
      BY <1>3, <2>1 DEF mergePullRequests
    <3>2. cache.sha \in 1 .. head /\ crec.obj = NoObject /\ AutoMerge /\ passed # {}
      BY <1>0, <2>1, <3>1 DEF MayMerge, Specified, ReconcileInv
    <3>3. ~Outcome(cache)
      BY <2>1 DEF MayMerge, Outcome
    <3>4. "merged" \in SpecStates
      BY DEF SpecStates
    <3>5. PolicyApply
      BY <1>f, <3>1, <3>2, <3>3, <3>4 DEF PolicyApply
    <3>6. QED
      BY <3>5
  <2>2. CASE ~MayMerge
    BY <1>3, <1>u, <2>2 DEF mergePullRequests
  <2>3. QED
    BY <2>1, <2>2
<1>4. CASE handleCTPCleanupOnDelete
  <2>1. CASE Exists(cache) /\ "ctp" \in cache.fins
    <3>1. /\ ApplyPullRequest(cache.spec, cache.sha, cache.tr, FALSE)
          /\ UNCHANGED <<cache, rec, queued, timer, scm, head, fails>>
      BY <1>4, <2>1 DEF handleCTPCleanupOnDelete
    <3>2. cache.sha \in 1 .. head
      BY <1>0, <2>1 DEF Specified
    <3>3. cache.spec = "merged" => AutoMerge /\ passed # {}
      BY <1>0 DEF Wanted
    <3>4. PolicyApply
      BY <1>f, <3>1, <3>2, <3>3 DEF PolicyApply
    <3>5. QED
      BY <3>4
  <2>2. CASE ~(Exists(cache) /\ "ctp" \in cache.fins)
    BY <1>4, <1>u, <2>2 DEF handleCTPCleanupOnDelete
  <2>3. QED
    BY <2>1, <2>2
<1>5. CASE gitMergeStrategyOurs
  BY <1>5, <1>u DEF gitMergeStrategyOurs, QuietStep
<1>6. CASE CTPReconcile \/ ensurePromotionHistoryNote \/ calculateStatus \/ CTPPersist \/ Checks \/ DeletePolicy
  BY <1>6, <1>u DEF CTPReconcile, ensurePromotionHistoryNote, calculateStatus, CTPPersist, Checks, ChecksPass, DeletePolicy
<1>7. CASE PRStep
  BY <1>7 DEF PRStep, QuietStep, Controller
<1>8. CASE HydrateDry \/ CTPFailure
  BY <1>8 DEF HydrateDry, CTPFailure, CTPCallFails, CTPCrash, QuietStep, Failure
<1>9. CASE Disturbance
  BY <1>9, <1>6 DEF Disturbance, QuietStep
<1>10. CASE UNCHANGED vars
  BY <1>10, <1>u DEF vars
<1>11. QED
  BY <1>1, <1>2, <1>3, <1>4, <1>5, <1>6, <1>7, <1>8, <1>9, <1>10 DEF CTPNext, QuietNext, CTPStep

\* Hence every step is a step of PRSpec.
LEMMA StepRefines == PolicyInv /\ [CTPNext]_vars => [PRNext]_prVars
<1> SUFFICES ASSUME PolicyInv, [CTPNext]_vars PROVE [PRNext]_prVars
  OBVIOUS
<1>1. CASE QuietStep
  BY <1>1 DEF QuietStep, PRNext, World
<1>2. CASE PolicyApply
  <2>1. OwnerApply
    BY <1>2 DEF PolicyApply, OwnerApply
  <2>2. QED
    BY <2>1 DEF PRNext, World
<1>3. QED
  BY <1>1, <1>2, Classify
-----------------------------------------------------------------------------
(* Types.                                                                  *)

CrecType ==
    [step: CSteps, obj: Object, pr: StatusPRs, prop: 0 .. MaxSha, act: 0 .. MaxSha, ok: BOOLEAN]

LEMMA BoundsType == MaxId \in Nat /\ MaxSha \in Nat \ {0} /\ 0 \in 0 .. MaxId /\ 0 \in 0 .. MaxSha
BY BoundsAssumption

LEMMA NilType == NilPR \in StatusPRs /\ NilPR.st # ""
BY BoundsType DEF NilPR, StatusPRs

LEMMA CopyType ==
    ASSUME NEW o \in Object
    PROVE  Copy(o) \in StatusPRs /\ Copy(o).id = o.id /\ Copy(o).st = o.st /\ Copy(o).mts = o.mts
<1>1. o.id \in 0 .. MaxId /\ o.st \in StatusStates \cup {"nil"} /\ o.mts \in 0 .. MaxId
  BY FieldType
<1>2. QED
  BY <1>1, Zenon DEF Copy, StatusPRs

LEMMA CIdleType ==
    CIdle \in CrecType /\ CIdle.step = "idle" /\ CIdle.obj = NoObject /\ CIdle.pr = NilPR /\ CIdle.ok = FALSE
BY NilType, NoObjectType, BoundsType DEF CIdle, CrecType, CSteps

LEMMA CGotoEffect ==
    ASSUME crec \in CrecType, NEW s \in CSteps, CGoto(s)
    PROVE  /\ crec' \in CrecType /\ crec'.step = s
           /\ crec'.obj = (IF s = "release" THEN crec.obj ELSE NoObject)
           /\ crec'.pr = crec.pr /\ crec'.prop = crec.prop /\ crec'.ok = crec.ok
<1> DEFINE o == IF s = "release" THEN crec.obj ELSE NoObject
<1>1. crec' = [crec EXCEPT !.step = s, !.obj = o]
  BY DEF CGoto
<1>2. o \in Object
  BY NoObjectType DEF CrecType
<1> HIDE DEF o
<1>3. /\ crec' \in CrecType /\ crec'.step = s /\ crec'.obj = o
      /\ crec'.pr = crec.pr /\ crec'.prop = crec.prop /\ crec'.ok = crec.ok
  BY <1>1, <1>2 DEF CrecType
<1>4. QED
  BY <1>3 DEF o

\* A set of pull request ids that is not empty has a largest one.
LEMMA LargestId ==
    ASSUME NEW S, S \subseteq Ids, S # {}
    PROVE  Max(S) \in S
<1> DEFINE D == {MaxId - i : i \in S}
           R == {ss \in Nat \X Nat : ss[1] < ss[2]}
<1>1. D \subseteq Nat /\ D # {}
  <2>1. \A i \in S : MaxId - i \in Nat
    BY BoundsType DEF Ids
  <2>2. QED
    BY <2>1
<1>2. IsWellFoundedOn(R, Nat)
  BY NatLessThanWellFounded DEF OpToRel
<1> HIDE DEF D, R
<1>3. PICK d \in D : \A e \in D : ~(<<e, d>> \in R)
  BY <1>1, <1>2, WFMin, Zenon
<1>4. \A e \in D : ~(e < d)
  BY <1>1, <1>3 DEF R
<1>5. PICK i \in S : d = MaxId - i
  BY DEF D
<1>6. ASSUME NEW j \in S PROVE i >= j
  <2>1. ~(MaxId - j < MaxId - i)
    BY <1>4, <1>5 DEF D
  <2>2. QED
    BY <2>1, BoundsType DEF Ids
<1>7. QED
  BY <1>6 DEF Max

LEMMA ActiveDryType ==
    ASSUME dry \in [Shas -> 0 .. MaxSha], BranchInv
    PROVE  ActiveDry \in 0 .. MaxSha
<1>1. CASE MergedIds = {}
  BY <1>1, BoundsType DEF ActiveDry
<1>2. CASE MergedIds # {}
  <2>1. Max(MergedIds) \in MergedIds
    BY <1>2, LargestId DEF MergedIds
  <2>2. scm[Max(MergedIds)].sha \in Shas
    BY <2>1 DEF MergedIds, BranchInv
  <2>3. QED
    BY <1>2, <2>2 DEF ActiveDry
<1>3. QED
  BY <1>1, <1>2
-----------------------------------------------------------------------------
(* The invariant, part by part.                                            *)

\* What the steps do to the reconcile's copy and to the gate.
CrecMove ==
    /\ \/ crec'.obj = NoObject
       \/ crec'.obj = crec.obj
       \/ crec'.obj = cache /\ UNCHANGED prVars
    /\ passed \subseteq passed'

LEMMA CrecStep == PolicyInv /\ [CTPNext]_vars => CrecMove
<1> SUFFICES ASSUME PolicyInv, [CTPNext]_vars PROVE CrecMove
  OBVIOUS
<1>0. crec \in CrecType
  BY DEF PolicyInv, CTPTypeOK, CrecType
<1>u. CASE crec' = crec /\ passed \subseteq passed'
  BY <1>u DEF CrecMove
<1>i. CASE crec' = CIdle /\ passed' = passed
  BY <1>i, CIdleType DEF CrecMove
<1>g. ASSUME NEW s \in CSteps, CGoto(s), passed' = passed PROVE CrecMove
  BY <1>0, <1>g, CGotoEffect DEF CrecMove
<1>s. \A s \in {"idle", "note", "release", "calc", "apply", "merge", "persist"} : s \in CSteps
  BY DEF CSteps
<1>1. CASE CTPReconcile
  <2>1. /\ UNCHANGED prVars /\ passed' = passed
        /\ \E s \in CSteps : crec' = [CIdle EXCEPT !.step = s, !.pr = ctp,
                                                   !.obj = IF s = "calc" THEN NoObject ELSE cache]
    BY <1>1, <1>s DEF CTPReconcile
  <2>2. crec'.obj = NoObject \/ crec'.obj = cache
    BY <2>1, CIdleType DEF CrecType
  <2>3. QED
    BY <2>1, <2>2 DEF CrecMove
<1>2. CASE calculateStatus
  <2>1. crec'.obj = crec.obj /\ passed' = passed
    BY <1>0, <1>2 DEF calculateStatus, CrecType
  <2>2. QED
    BY <2>1 DEF CrecMove
<1>3. CASE ensurePromotionHistoryNote \/ handlePRFinalizerRemoval \/ gitMergeStrategyOurs \/ createOrUpdatePullRequest
           \/ mergePullRequests
  BY <1>3, <1>g, <1>s DEF ensurePromotionHistoryNote, handlePRFinalizerRemoval, gitMergeStrategyOurs,
     createOrUpdatePullRequest, mergePullRequests
<1>4. CASE CTPPersist \/ CTPCrash
  BY <1>4, <1>i DEF CTPPersist, CTPCrash
<1>5. CASE CTPCallFails
  BY <1>5, <1>i, <1>g, <1>s DEF CTPCallFails
<1>6. CASE handleCTPCleanupOnDelete \/ HydrateDry \/ Checks \/ DeletePolicy
  BY <1>6, <1>u DEF handleCTPCleanupOnDelete, HydrateDry, Checks, ChecksPass, DeletePolicy
<1>7. CASE UNCHANGED ctpVars
  BY <1>7, <1>u DEF ctpVars
<1>8. QED
  BY <1>1, <1>2, <1>3, <1>4, <1>5, <1>6, <1>7
     DEF CTPNext, QuietNext, CTPStep, PRStep, Disturbance, CTPFailure, vars

\* Facts every part needs.
LEMMA Facts ==
    ASSUME PolicyInv, [CTPNext]_vars
    PROVE  /\ PRTypeOK /\ PRTypeOK' /\ PRInv /\ CrecMove /\ (QuietStep \/ PolicyApply)
           /\ head \in Nat /\ head' \in Nat /\ head \in Shas /\ head <= head'
           /\ cache' = cache \/ (cache' = pr /\ pr' = pr)
           /\ QuietStep => PrMove /\ RecMove /\ ScmMove
           /\ PolicyApply => cache' = cache /\ rec' = rec /\ scm' = scm /\ head' = head
<1>1. PRInv /\ PRTypeOK /\ PRTypeOK'
  BY StepRefines, TypeStep DEF PolicyInv, PRInv
<1>2. head \in Shas /\ head \in Nat /\ head' \in Nat
  BY <1>1, BoundsType DEF PRTypeOK, Shas
<1>3. QuietStep => PrMove /\ RecMove /\ ScmMove
  BY <1>1, QuietPr, QuietRec, QuietScm DEF PolicyInv, CopiesInv
<1>4. PolicyApply => cache' = cache /\ rec' = rec /\ scm' = scm /\ head' = head
  BY DEF PolicyApply
<1>5. (cache' = cache \/ (cache' = pr /\ pr' = pr)) /\ head <= head'
  BY <1>2, <1>4, Classify, QuietRest
<1>6. QED
  BY <1>1, <1>2, <1>3, <1>4, <1>5, Classify, CrecStep

LEMMA CopiesStep == PolicyInv /\ [CTPNext]_vars => CopiesInv'
<1> SUFFICES ASSUME PolicyInv, [CTPNext]_vars PROVE CopiesInv'
  OBVIOUS
<1>0. CopiesInv /\ crec.obj \in Object
  BY DEF PolicyInv, CTPTypeOK
<1>h. \A h \in 1 .. head : h \in 1 .. head'
  BY Facts
<1>p. passed # {} => passed' # {}
  BY Facts DEF CrecMove
<1> DEFINE SpecifiedAfter(o) == Exists(o) => o.sha \in 1 .. head'
           WantedAfter(o) == o.spec = "merged" => AutoMerge /\ passed' # {}
           Good(o) == SpecifiedAfter(o) /\ WantedAfter(o) /\ Paired(o)
<1>1. Good(pr) /\ Good(cache) /\ Good(crec.obj) /\ Good(NoObject) /\ WantedAfter(rec.obj) /\ Paired(rec.obj)
  BY <1>0, <1>h, <1>p, NoObjectFields DEF CopiesInv, Specified, Wanted, Paired, Exists
<1>2. Good(cache')
  BY <1>1, Facts
<1>3. Good(crec'.obj)
  BY <1>1, Facts DEF CrecMove
<1>4. CASE QuietStep
  <2>1. Good(pr')
    <3>1. PrMove
      BY <1>4, Facts
    <3>2. QED
      BY <1>1, <3>1 DEF PrMove, SameSpec, SameStatus, Paired, Exists
  <2>2. WantedAfter(rec'.obj) /\ Paired(rec'.obj) /\ (rec'.step = "merge" => rec'.obj.spec = "merged")
    <3>1. RecMove
      BY <1>4, Facts
    <3>2. QED
      BY <1>1, <3>1 DEF RecMove, SameStatus, Paired
  <2>3. QED
    BY <1>2, <1>3, <2>1, <2>2 DEF CopiesInv, Specified, Wanted, Paired
<1>5. CASE PolicyApply
  <2>1. PICK spec \in SpecStates, sha \in 1 .. head, tr \in BOOLEAN, fin \in BOOLEAN :
          ApplyPullRequest(spec, sha, tr, fin) /\ (spec = "merged" => AutoMerge /\ passed # {})
    BY <1>5 DEF PolicyApply
  <2>2. \/ pr' = pr \/ pr' = NoObject
        \/ pr'.spec = spec /\ pr'.sha = sha /\ (SameStatus(pr, pr') \/ SameStatus(NoObject, pr'))
    BY <2>1, Facts, ApplyEffect
  <2>3. Good(pr')
    BY <1>1, <1>h, <1>p, <2>1, <2>2 DEF SameStatus, Paired
  <2>4. rec' = rec
    BY <1>5, Facts
  <2>5. QED
    BY <1>0, <1>1, <1>2, <1>3, <2>3, <2>4 DEF CopiesInv, Specified, Wanted, Paired
<1>6. QED
  BY <1>4, <1>5, Facts

\* An outcome, once told, is kept by the admission rules for as long as the
\* policy's finalizer keeps the object.
LEMMA CurrentStep == PolicyInv /\ [CTPNext]_vars => CurrentInv'
<1> SUFFICES ASSUME PolicyInv, [CTPNext]_vars PROVE CurrentInv'
  OBVIOUS
<1> DEFINE CurrentAfter(o) ==
             Held(o) /\ Outcome(o) /\ "ctp" \in pr'.fins =>
                 pr'.st = o.st /\ pr'.mts = o.mts /\ (o.st = "merged" => pr'.tr = o.tr)
<1>0. Current(cache) /\ Current(crec.obj)
  BY DEF PolicyInv, CurrentInv
<1>n. CurrentAfter(NoObject)
  BY HeldNot
<1>1. CurrentAfter(cache) /\ CurrentAfter(crec.obj)
  <2>1. CASE QuietStep
    <3>1. PrMove
      BY <2>1, Facts
    <3>2. CASE pr' = NoObject
      BY <3>2, NoObjectFields
    <3>3. CASE pr' # NoObject
      <4>1. /\ pr'.tr = pr.tr /\ ("ctp" \in pr'.fins => "ctp" \in pr.fins)
            /\ SameStatus(pr, pr') \/ Admits(pr, pr')
        BY <3>1, <3>3 DEF PrMove, SameSpec
      <4>2. ASSUME NEW o, Current(o) PROVE CurrentAfter(o)
        BY <4>1, <4>2 DEF Current, Outcome, SameStatus, Admits
      <4>3. QED
        BY <1>0, <4>2
    <3>4. QED
      BY <3>2, <3>3
  <2>2. CASE PolicyApply
    <3>1. PICK spec \in SpecStates, sha \in 1 .. head, tr \in BOOLEAN, fin \in BOOLEAN :
            /\ ApplyPullRequest(spec, sha, tr, fin)
            /\ fin => crec.obj = NoObject /\ ~(Held(cache) /\ Outcome(cache))
      BY <2>2 DEF PolicyApply
    <3>2. pr' = pr \/ pr' = NoObject \/ ("ctp" \in pr'.fins <=> fin)
      BY <3>1, Facts, ApplyEffect
    <3>3. QED
      BY <1>0, <3>1, <3>2, HeldNot, NoObjectFields DEF Current
  <2>3. QED
    BY <2>1, <2>2, Facts
<1>2. CurrentAfter(cache')
  <2>1. CASE cache' = cache
    BY <1>1, <2>1
  <2>2. CASE cache' = pr /\ pr' = pr
    BY <2>2
  <2>3. QED
    BY <2>1, <2>2, Facts
<1>3. CurrentAfter(crec'.obj)
  BY <1>1, <1>n, Facts DEF CrecMove
<1>4. QED
  BY <1>2, <1>3 DEF CurrentInv, Current, Held, Outcome, Exists

\* The promoter merges the tip it checked for, and what passed a gate is no
\* later than the tip.
LEMMA MergedStep == PolicyInv /\ [CTPNext]_vars => MergedAfterAPass'
<1> SUFFICES ASSUME PolicyInv, [CTPNext]_vars PROVE MergedAfterAPass'
  OBVIOUS
<1>0. MergedAfterAPass /\ CopiesInv /\ passed \subseteq 1 .. head /\ passed \subseteq passed'
  BY Facts DEF PolicyInv, BranchInv, CrecMove
<1> SUFFICES ASSUME NEW i \in Ids, scm'[i].by = "promoter"
             PROVE  AutoMerge /\ \E s \in passed' : s <= scm'[i].sha
  BY DEF MergedAfterAPass
<1>1. CASE scm'[i].by = scm[i].by /\ scm'[i].sha = scm[i].sha
  BY <1>0, <1>1 DEF MergedAfterAPass
<1>2. CASE scm'[i].sha = head /\ rec.step = "merge"
  <2>1. AutoMerge /\ passed # {}
    BY <1>0, <1>2 DEF CopiesInv, Wanted
  <2>2. PICK s \in passed : TRUE
    BY <2>1
  <2>3. s <= head
    BY <1>0, <2>2, Facts
  <2>4. QED
    BY <1>0, <1>2, <2>1, <2>3
<1>3. CASE QuietStep
  <2>1. ScmMove
    BY <1>3, Facts
  <2>2. QED
    BY <1>1, <1>2, <2>1 DEF ScmMove
<1>4. CASE PolicyApply
  BY <1>1, <1>4, Facts
<1>5. QED
  BY <1>3, <1>4, Facts

\* Dry commits are numbered with the hydrated commits; only pushed commits are checked.
LEMMA BranchStep ==
    PolicyInv /\ [CTPNext]_vars => BranchInv' /\ dry' \in [Shas -> 0 .. MaxSha] /\ passed' \subseteq Shas
<1> SUFFICES ASSUME PolicyInv, [CTPNext]_vars
             PROVE  BranchInv' /\ dry' \in [Shas -> 0 .. MaxSha] /\ passed' \subseteq Shas
  OBVIOUS
<1>0. /\ BranchInv /\ dry \in [Shas -> 0 .. MaxSha] /\ head \in Nat /\ head' \in Nat /\ head \in Shas /\ head <= head'
      /\ MaxSha \in Nat /\ Shas = 1 .. MaxSha /\ head' \in Shas
  BY Facts, BoundsType DEF PolicyInv, CTPTypeOK, Shas, PRTypeOK
<1>1. \A i \in Ids : scm'[i].st \in {"merging", "merged"} => scm'[i].sha \in Shas
  <2>1. CASE QuietStep
    <3>1. ScmMove
      BY <2>1, Facts
    <3>2. QED
      BY <1>0, <3>1 DEF ScmMove, BranchInv
  <2>2. CASE PolicyApply
    BY <1>0, <2>2, Facts DEF BranchInv
  <2>3. QED
    BY <2>1, <2>2, Facts
<1>2. \/ dry' = dry
      \/ head < MaxSha /\ \E d \in {dry[head], dry[head] + 1} : dry' = [dry EXCEPT ![head + 1] = d]
  <2>1. CASE gitMergeStrategyOurs
    BY <2>1 DEF gitMergeStrategyOurs, Hydrate
  <2>2. CASE HydrateDry
    BY <2>2 DEF HydrateDry, Hydrate
  <2>3. CASE dry' = dry
    BY <2>3
  <2>4. QED
    BY <2>1, <2>2, <2>3 DEF CTPNext, QuietNext, CTPStep, PRStep, Disturbance, CTPFailure, vars, ctpVars,
       CTPReconcile, ensurePromotionHistoryNote, handlePRFinalizerRemoval, calculateStatus, createOrUpdatePullRequest,
       mergePullRequests, CTPPersist, handleCTPCleanupOnDelete, CTPCallFails, CTPCrash, Checks, ChecksPass, DeletePolicy
<1>3. dry' \in [Shas -> 0 .. MaxSha] /\ \A s \in Shas : dry'[s] <= s
  <2>1. CASE dry' = dry
    BY <1>0, <2>1 DEF BranchInv
  <2>2. CASE head < MaxSha /\ \E d \in {dry[head], dry[head] + 1} : dry' = [dry EXCEPT ![head + 1] = d]
    <3>1. PICK d \in {dry[head], dry[head] + 1} : dry' = [dry EXCEPT ![head + 1] = d]
      BY <2>2
    <3>2. dry[head] \in 0 .. MaxSha /\ dry[head] <= head
      BY <1>0 DEF BranchInv
    <3>3. d \in 0 .. MaxSha /\ d <= head + 1
      BY <1>0, <2>2, <3>1, <3>2
    <3>4. \A s \in Shas : dry'[s] = IF s = head + 1 THEN d ELSE dry[s]
      BY <1>0, <3>1
    <3>5. QED
      BY <1>0, <3>1, <3>3, <3>4 DEF BranchInv
  <2>3. QED
    BY <1>2, <2>1, <2>2
<1>4. passed' \subseteq 1 .. head'
  <2>1. passed' = passed \/ \E s \in Shas : s <= head /\ passed' = passed \cup {s}
    BY DEF CTPNext, QuietNext, CTPStep, PRStep, Disturbance, CTPFailure, vars, ctpVars, gitMergeStrategyOurs, HydrateDry,
       CTPReconcile, ensurePromotionHistoryNote, handlePRFinalizerRemoval, calculateStatus, createOrUpdatePullRequest,
       mergePullRequests, CTPPersist, handleCTPCleanupOnDelete, CTPCallFails, CTPCrash, Checks, ChecksPass, DeletePolicy
  <2>2. passed \subseteq 1 .. head
    BY <1>0 DEF BranchInv
  <2>3. \A h \in 1 .. head : h \in 1 .. head'
    BY <1>0
  <2>4. \A h \in Shas : h <= head => h \in 1 .. head
    BY <1>0
  <2>5. QED
    BY <2>1, <2>2, <2>3, <2>4, Zenon
<1>5. QED
  BY <1>0, <1>1, <1>3, <1>4 DEF BranchInv

\* What the policy may release has an outcome on record.
LEMMA ReleaseOutcome ==
    ASSUME NEW o \in Object, ctp.st # "", Paired(o), MayRelease(o)
    PROVE  Held(o) /\ Outcome(o) /\ ctp.st = o.st /\ ctp.mts = o.mts
<1>1. ctp.st = o.st /\ ctp.mts = o.mts /\ Held(o)
  BY CopyType DEF MayRelease
<1>2. Outcome(o)
  BY <1>1 DEF MayRelease, pullRequestStatusIsFinalized, Outcome, Paired
<1>3. QED
  BY <1>1, <1>2

\* The policy's reconcile: types, and what each step relies on.
ReconcileTyped ==
    /\ ctp \in StatusPRs /\ crec \in CrecType /\ life \in {"live", "deleting", "gone"} /\ notes \subseteq Ids
    /\ ReconcileInv

LEMMA ReconcileStep == PolicyInv /\ [CTPNext]_vars => ReconcileTyped'
<1> SUFFICES ASSUME PolicyInv, [CTPNext]_vars PROVE ReconcileTyped'
  OBVIOUS
<1>0. /\ ctp \in StatusPRs /\ crec \in CrecType /\ life \in {"live", "deleting", "gone"} /\ notes \subseteq Ids
      /\ ReconcileInv /\ cache \in Object /\ crec.obj \in Object /\ Paired(cache) /\ Paired(crec.obj)
      /\ crec.pr \in StatusPRs
  BY Facts DEF PolicyInv, CTPTypeOK, CrecType, CopiesInv, PRTypeOK
<1>h. /\ \A h \in 1 .. head : h \in 1 .. head'
      /\ passed # {} => passed' # {}
  BY Facts DEF CrecMove
<1>s. \A s \in {"idle", "note", "release", "calc", "apply", "merge", "persist"} : s \in CSteps
  BY DEF CSteps
<1>u. CASE crec' = crec /\ ctp' = ctp /\ notes' = notes /\ life' \in {"live", "deleting", "gone"}
  <2>1. ReconcileInv'
    BY <1>0, <1>h, <1>u DEF ReconcileInv, NeedsNote, MayRelease
  <2>2. QED
    BY <1>0, <1>u, <2>1 DEF ReconcileTyped
<1>g. ASSUME NEW s \in {"calc", "merge", "persist"}, CGoto(s), ctp' = ctp, notes' \subseteq Ids, life' = life
      PROVE  ReconcileTyped'
  <2>1. /\ crec' \in CrecType /\ crec'.step = s /\ crec'.obj = NoObject
        /\ crec'.pr = crec.pr /\ crec'.ok = crec.ok
    BY <1>0, <1>g, <1>s, CGotoEffect
  <2>2. ReconcileInv'
    BY <1>0, <1>h, <1>g, <2>1 DEF ReconcileInv
  <2>3. QED
    BY <1>0, <1>g, <2>1, <2>2 DEF ReconcileTyped
<1>i. ASSUME crec' = CIdle, ctp' \in {ctp, crec.pr}, notes' = notes, life' = life PROVE ReconcileTyped'
  <2>1. crec' \in CrecType /\ crec'.step = "idle" /\ crec'.obj = NoObject /\ crec'.pr.st # "" /\ crec'.ok = FALSE
    BY <1>i, CIdleType, NilType
  <2>2. ReconcileInv'
    BY <1>0, <1>i, <2>1 DEF ReconcileInv
  <2>3. QED
    BY <1>0, <1>i, <2>1, <2>2 DEF ReconcileTyped
<1>1. CASE CTPReconcile
  <2> DEFINE s == IF NeedsNote(cache) THEN "note" ELSE IF MayRelease(cache) THEN "release" ELSE "calc"
             o == IF s = "calc" THEN NoObject ELSE cache
  <2>1. crec' = [CIdle EXCEPT !.step = s, !.pr = ctp, !.obj = o] /\ ctp' = ctp /\ life' = life /\ notes' = notes
    BY <1>1 DEF CTPReconcile
  <2>2. o \in Object /\ s \in CSteps
    BY <1>0, <1>s, NoObjectType
  <2>3. s = "note" => NeedsNote(o)
    OBVIOUS
  <2>4. s = "release" => MayRelease(o) /\ ~NeedsNote(o) /\ o = cache
    OBVIOUS
  <2>5. s \in {"note", "release", "calc"} /\ (s = "calc" => o = NoObject)
    OBVIOUS
  <2> HIDE DEF s, o
  <2>6. crec' \in CrecType /\ crec'.step = s /\ crec'.obj = o /\ crec'.pr = ctp /\ crec'.ok = FALSE
    BY <1>0, <2>1, <2>2, CIdleType DEF CrecType
  <2>7. s = "release" => (o.st = "merged" /\ o.tr => o.mts \in notes)
    BY <1>0, <2>4, ReleaseOutcome DEF NeedsNote, Outcome, ReconcileInv
  <2>8. ReconcileInv'
    <3>1. (s = "note" => NeedsNote(crec.obj)') /\ (s = "release" => MayRelease(crec.obj)')
      <4>1. NeedsNote(crec.obj)' <=> NeedsNote(o)
        BY <2>1, <2>6 DEF NeedsNote, Held, Exists
      <4>2. MayRelease(crec.obj)' <=> MayRelease(o)
        BY <2>1, <2>6 DEF MayRelease, Held, Exists, Copy, pullRequestStatusIsFinalized
      <4>3. QED
        BY <2>3, <2>4, <4>1, <4>2
    <3>2. ctp'.st # "" /\ crec'.pr.st # "" /\ ~crec'.ok /\ crec'.step # "apply"
      BY <1>0, <2>1, <2>5, <2>6 DEF ReconcileInv
    <3>3. crec'.step \notin {"note", "release"} => crec'.obj = NoObject
      BY <2>5, <2>6
    <3>4. crec'.step = "release" => (crec'.obj.st = "merged" /\ crec'.obj.tr => crec'.obj.mts \in notes')
      BY <2>1, <2>6, <2>7
    <3>5. QED
      BY <2>6, <3>1, <3>2, <3>3, <3>4 DEF ReconcileInv
  <2>9. QED
    BY <1>0, <2>1, <2>6, <2>8 DEF ReconcileTyped
<1>2. CASE ensurePromotionHistoryNote
  <2>1. crec.step = "note" /\ NeedsNote(crec.obj)
    BY <1>0, <1>2 DEF ensurePromotionHistoryNote, ReconcileInv
  <2>2. crec.obj.mts \in Ids
    BY <1>0, <2>1, FieldType DEF NeedsNote, Ids
  <2>3. notes' = notes \cup {crec.obj.mts} /\ notes' \subseteq Ids /\ ctp' = ctp /\ life' = life
    BY <1>0, <1>2, <2>2 DEF ensurePromotionHistoryNote
  <2>4. CASE ~MayRelease(crec.obj)
    BY <1>2, <1>g, <2>3, <2>4 DEF ensurePromotionHistoryNote
  <2>5. CASE MayRelease(crec.obj)
    <3>1. CGoto("release")
      BY <1>2, <2>5 DEF ensurePromotionHistoryNote
    <3>2. /\ crec' \in CrecType /\ crec'.step = "release" /\ crec'.obj = crec.obj
          /\ crec'.pr = crec.pr /\ crec'.ok = crec.ok
      BY <1>0, <1>s, <3>1, CGotoEffect
    <3>3. ReconcileInv'
      BY <1>0, <1>h, <2>3, <2>5, <3>2 DEF ReconcileInv, MayRelease
    <3>4. QED
      BY <1>0, <2>3, <3>2, <3>3 DEF ReconcileTyped
  <2>6. QED
    BY <2>4, <2>5
<1>3. CASE calculateStatus
  <2> DEFINE p == setPullRequestState
             a == ActiveDry
             k == head \in passed
  <2>1. crec' = [crec EXCEPT !.step = "apply", !.pr = p, !.prop = head, !.act = a, !.ok = k]
        /\ ctp' = ctp /\ life' = life /\ notes' = notes /\ crec.step = "calc" /\ head' = head /\ passed' = passed
    BY <1>3 DEF calculateStatus, prVars
  <2>2. p \in StatusPRs /\ p.st # ""
    <3>1. Copy(cache) \in StatusPRs /\ Copy(cache).st = cache.st
      BY <1>0, CopyType
    <3>2. ~(cache.id = 0 /\ cache.st = "") => cache.st # ""
      BY <1>0 DEF Paired
    <3>3. QED
      BY <1>0, <3>1, <3>2, NilType DEF setPullRequestState, ReconcileInv
  <2>3. a \in 0 .. MaxSha
    BY ActiveDryType DEF PolicyInv, CTPTypeOK
  <2>4. k \in BOOLEAN /\ (k => passed # {})
    OBVIOUS
  <2>5. head \in 0 .. MaxSha /\ head \in 1 .. head
    BY Facts, BoundsType DEF Shas
  <2> HIDE DEF p, a, k
  <2>6. /\ crec' \in CrecType /\ crec'.step = "apply" /\ crec'.obj = crec.obj /\ crec'.pr = p
        /\ crec'.prop = head /\ crec'.ok = k
    BY <1>0, <1>s, <2>1, <2>2, <2>3, <2>4, <2>5 DEF CrecType
  <2>7. ReconcileInv'
    BY <1>0, <2>1, <2>2, <2>4, <2>5, <2>6 DEF ReconcileInv
  <2>8. QED
    BY <1>0, <2>1, <2>6, <2>7 DEF ReconcileTyped
<1>4. CASE handlePRFinalizerRemoval \/ gitMergeStrategyOurs \/ createOrUpdatePullRequest \/ mergePullRequests
  <2>1. notes' = notes /\ ctp' = ctp /\ life' = life /\ \E s \in {"calc", "merge", "persist"} : CGoto(s)
    BY <1>4 DEF handlePRFinalizerRemoval, gitMergeStrategyOurs, createOrUpdatePullRequest, mergePullRequests
  <2>2. QED
    BY <1>0, <1>g, <2>1
<1>5. CASE CTPPersist \/ CTPCrash
  BY <1>5, <1>i DEF CTPPersist, CTPCrash
<1>6. CASE CTPCallFails
  BY <1>0, <1>6, <1>i, <1>g DEF CTPCallFails
<1>7. CASE handleCTPCleanupOnDelete \/ HydrateDry \/ Checks \/ DeletePolicy
  BY <1>0, <1>7, <1>u DEF handleCTPCleanupOnDelete, HydrateDry, Checks, ChecksPass, DeletePolicy
<1>8. CASE UNCHANGED ctpVars
  BY <1>0, <1>8, <1>u DEF ctpVars
<1>9. QED
  BY <1>1, <1>2, <1>3, <1>4, <1>5, <1>6, <1>7, <1>8
     DEF CTPNext, QuietNext, CTPStep, PRStep, Disturbance, CTPFailure, vars

LEMMA PolicyStepInv == PolicyInv /\ [CTPNext]_vars => PolicyInv'
<1> SUFFICES ASSUME PolicyInv, [CTPNext]_vars PROVE PolicyInv'
  OBVIOUS
<1>1. PRInv'
  BY StepRefines, TruthStep DEF PolicyInv
<1>2. CTPTypeOK' /\ ReconcileInv'
  BY BranchStep, ReconcileStep DEF ReconcileTyped, CTPTypeOK, CrecType
<1>3. QED
  BY <1>1, <1>2, MergedStep, CopiesStep, BranchStep, CurrentStep DEF PolicyInv

LEMMA PolicyInitInv == CTPInit => PolicyInv
<1> SUFFICES ASSUME CTPInit PROVE PolicyInv
  OBVIOUS
<1>0. /\ PRInit /\ pr = NoObject /\ cache = NoObject /\ rec = Idle /\ head = 1
      /\ scm = [i \in Ids |-> [st |-> "none", sha |-> 0, by |-> "none"]]
      /\ ctp = NilPR /\ crec = CIdle /\ life = "live" /\ passed = {} /\ notes = {}
      /\ dry = [s \in Shas |-> IF s = 1 THEN 1 ELSE 0]
  BY DEF CTPInit, PRInit
<1>1. PRInv
  <2>1. rec.obj = NoObject /\ rec.step = "idle"
    BY <1>0 DEF Idle
  <2>2. QED
    BY <1>0, <2>1, InitType, TruthNoObject DEF PRInv, CopiesTruthful, Justified
<1>2. CTPTypeOK
  <2>1. dry \in [Shas -> 0 .. MaxSha]
    BY <1>0, BoundsType
  <2>2. QED
    BY <1>0, <2>1, NilType, CIdleType DEF CTPTypeOK, CrecType
<1>3. MergedAfterAPass
  BY <1>0 DEF MergedAfterAPass
<1>4. CopiesInv
  <2>1. rec.obj = NoObject /\ rec.step = "idle" /\ crec.obj = NoObject
    BY <1>0, CIdleType DEF Idle
  <2>2. QED
    BY <1>0, <2>1, NoObjectFields DEF CopiesInv, Specified, Wanted, Paired, Exists
<1>5. BranchInv
  <2>1. \A s \in Shas : dry[s] <= s
    BY <1>0, BoundsType DEF Shas
  <2>2. QED
    BY <1>0, <2>1 DEF BranchInv
<1>6. ReconcileInv
  BY <1>0, CIdleType, NilType DEF ReconcileInv
<1>7. CurrentInv
  BY <1>0, CIdleType, HeldNot DEF CurrentInv, Current
<1>8. QED
  BY <1>1, <1>2, <1>3, <1>4, <1>5, <1>6, <1>7 DEF PolicyInv

LEMMA PolicyInvariant == CTPSpec => []PolicyInv
BY PolicyInitInv, PolicyStepInv, PTL DEF CTPSpec
-----------------------------------------------------------------------------
(* The theorems.                                                           *)

\* The policy is one of the clients the PullRequest controller is specified
\* for: whatever it applies, from whatever stale copy, the composition is a
\* behaviour of PRSpec.
THEOREM PolicyImplementsPullRequest == CTPSpec => PRSpec
<1>1. CTPInit => PRInit
  BY DEF CTPInit
<1>2. QED
  BY <1>1, StepRefines, PolicyInvariant, PTL DEF CTPSpec, PRSpec

\* In the composition, too, the stored status never claims an outcome that the
\* SCM does not have.
THEOREM PolicyKeepsStatusTruthful == CTPSpec => []StatusTruthful
BY PolicyImplementsPullRequest, StatusIsTruthful, PTL

\* And the object leaves the API server with the promoter finalizer set only
\* when its outcome is on record, whatever the policy applies and withdraws.
THEOREM PolicyReleaseNeedsOutcome == CTPSpec => ReleasedOnlyWithOutcome
BY PolicyImplementsPullRequest, ReleaseNeedsOutcome

\* Every variable of the policy keeps its type; in particular a history note is
\* only attached to a merge commit.
THEOREM PolicyTypeCorrect == CTPSpec => []CTPTypeOK
<1>1. PolicyInv => CTPTypeOK
  BY DEF PolicyInv
<1>2. QED
  BY <1>1, PolicyInvariant, PTL

\* Whatever the promoter merges, a commit at or before it on the proposed
\* branch passed its gate, and only for a policy that merges automatically.
THEOREM MergesFollowAPass == CTPSpec => []MergedAfterAPass
<1>1. PolicyInv => MergedAfterAPass
  BY DEF PolicyInv
<1>2. QED
  BY <1>1, PolicyInvariant, PTL

\* While the policy lives, its finalizer leaves the PullRequest only after the
\* outcome that the object has at that moment was persisted in the policy's
\* status, and its history note written, though both were decided on a copy.
THEOREM OutcomeHandedOver == CTPSpec => HandedOver
<1> DEFINE Taken == "ctp" \in pr.fins /\ "ctp" \notin pr'.fins /\ life = "live"
           Recorded == /\ ctp.st = pr.st /\ ctp.mts = pr.mts /\ pullRequestStatusIsFinalized(pr)
                       /\ pr.st = "merged" /\ pr.tr => pr.mts \in notes
<1>1. ASSUME PolicyInv, [CTPNext]_vars PROVE [Taken => Recorded]_vars
  <2> SUFFICES ASSUME Taken PROVE Recorded
    OBVIOUS
  <2> USE <1>1
  <2>0. ReconcileInv /\ CurrentInv /\ crec.obj \in Object /\ Paired(crec.obj)
    BY DEF PolicyInv, CTPTypeOK, CopiesInv
  <2>1. CASE handlePRFinalizerRemoval
    <3>1. MayRelease(crec.obj) /\ ctp.st # ""
          /\ (crec.obj.st = "merged" /\ crec.obj.tr => crec.obj.mts \in notes)
      BY <2>0, <2>1 DEF handlePRFinalizerRemoval, ReconcileInv
    <3>2. Held(crec.obj) /\ Outcome(crec.obj) /\ ctp.st = crec.obj.st /\ ctp.mts = crec.obj.mts
      BY <2>0, <3>1, ReleaseOutcome
    <3>3. pr.st = crec.obj.st /\ pr.mts = crec.obj.mts /\ (crec.obj.st = "merged" => pr.tr = crec.obj.tr)
      BY <2>0, <3>2 DEF CurrentInv, Current
    <3>4. pullRequestStatusIsFinalized(pr)
      BY <3>2, <3>3 DEF Outcome, pullRequestStatusIsFinalized
    <3>5. QED
      BY <3>1, <3>2, <3>3, <3>4
  <2>2. CASE QuietStep
    <3>1. PrMove
      BY <2>2, Facts
    <3>2. QED
      BY <3>1 DEF PrMove
  <2>3. CASE ~handlePRFinalizerRemoval /\ ~QuietStep
    <3>1. PICK fin \in BOOLEAN : \E spec, sha, tr : ApplyPullRequest(spec, sha, tr, fin) /\ fin
      <4>1. CASE createOrUpdatePullRequest
        BY <2>3, <4>1 DEF createOrUpdatePullRequest, enqueuePullRequestsForCTP, QuietStep
      <4>2. CASE mergePullRequests
        BY <2>3, <4>2 DEF mergePullRequests, QuietStep
      <4>3. CASE handleCTPCleanupOnDelete
        BY <4>3 DEF handleCTPCleanupOnDelete
      <4>4. CASE CTPReconcile \/ ensurePromotionHistoryNote \/ calculateStatus \/ CTPPersist \/ Checks \/ DeletePolicy
                 \/ gitMergeStrategyOurs \/ HydrateDry
        BY <2>3, <4>4 DEF CTPReconcile, ensurePromotionHistoryNote, calculateStatus, CTPPersist, Checks, ChecksPass,
           DeletePolicy, gitMergeStrategyOurs, HydrateDry, QuietStep
      <4>5. CASE PRStep
        BY <2>3, <4>5 DEF PRStep, QuietStep, Controller
      <4>6. CASE CTPFailure
        BY <2>3, <4>6 DEF CTPFailure, CTPCallFails, CTPCrash, QuietStep, Failure
      <4>7. CASE Disturbance
        BY <2>3, <4>4, <4>7 DEF Disturbance, QuietStep
      <4>8. CASE UNCHANGED vars
        BY <2>3, <4>8 DEF vars, QuietStep
      <4>9. QED
        BY <2>3, <4>1, <4>2, <4>3, <4>4, <4>5, <4>6, <4>7, <4>8 DEF CTPNext, QuietNext, CTPStep
    <3>2. PICK spec, sha, tr : ApplyPullRequest(spec, sha, tr, fin)
      BY <3>1
    <3>3. pr' = pr \/ ("ctp" \in pr'.fins <=> fin)
      BY <3>1, <3>2, Facts, ApplyEffect
    <3>4. QED
      BY <3>1, <3>3
  <2>4. QED
    BY <2>1, <2>2, <2>3
<1>2. QED
  BY <1>1, PolicyInvariant, PTL DEF CTPSpec, HandedOver

\* In the composition, too, a terminating PullRequest is never left without
\* anything that brings its controller back to it.
THEOREM PolicyNoLostWakeup == CTPSpec => []NotForgotten
BY PolicyImplementsPullRequest, NoLostWakeup, PTL
-----------------------------------------------------------------------------
(* What the policy tells of its PullRequest.                               *)

\* The inductive part: the persisted status, the one the reconcile is about to
\* persist, and the copy it takes the note from.
PolicyTruth == PolicyTruthful /\ Truthful(crec.pr, scm) /\ Truthful(crec.obj, scm)

\* An outcome on the SCM is for ever.
LEMMA ForwardStep == PolicyInv /\ [CTPNext]_vars => Forward(scm, scm')
<1> SUFFICES ASSUME PolicyInv, [CTPNext]_vars PROVE Forward(scm, scm')
  OBVIOUS
<1>0. PRTypeOK /\ rec \in RecType /\ rec.obj \in Object /\ Justified(rec.step, rec.obj)
  BY DEF PolicyInv, PRInv, PRTypeOK, RecType
<1>u. CASE scm' = scm
  BY <1>u DEF Forward
<1>1. CASE closePullRequest
  <2>1. rec.obj.id \in Ids
    BY <1>0, <1>1, FieldType DEF closePullRequest, Justified, Ids
  <2>2. \/ scm' = scm
        \/ scm[rec.obj.id].st \in {"open", "merging"} /\ scm' = [scm EXCEPT ![rec.obj.id].st = "closed"]
    BY <1>1 DEF closePullRequest
  <2>3. QED
    BY <1>0, <1>u, <2>1, <2>2, ScmMoves
<1>2. CASE createPullRequest
  <2>1. \/ scm' = scm
        \/ \E i \in Ids : (\A j \in Ids : j < i <=> scm[j].st # "none") /\ scm' = [scm EXCEPT ![i].st = "open"]
    BY <1>2 DEF createPullRequest
  <2>2. ASSUME NEW i \in Ids, \A j \in Ids : j < i <=> scm[j].st # "none", scm' = [scm EXCEPT ![i].st = "open"]
        PROVE  Forward(scm, scm')
    <3>1. scm[i].st = "none"
      BY <2>2 DEF Ids
    <3>2. QED
      BY <1>0, <2>2, <3>1, ScmMoves
  <2>3. QED
    BY <1>u, <2>1, <2>2
<1>3. CASE mergePullRequest
  <2>1. rec.obj.id \in Ids
    BY <1>0, <1>3, FieldType DEF mergePullRequest, Justified, Ids
  <2>2. \/ scm' = scm
        \/ /\ scm[rec.obj.id].st = "open"
           /\ \E x \in {"merged", "merging"} :
                 scm' = [scm EXCEPT ![rec.obj.id] = [st |-> x, sha |-> head, by |-> "promoter"]]
    BY <1>3 DEF mergePullRequest
  <2>3. QED
    BY <1>0, <1>u, <2>1, <2>2, ScmMoves
<1>4. ASSUME NEW i \in Ids, ExternalMerge(i) PROVE Forward(scm, scm')
  <2>1. scm[i].st = "open" /\ scm' = [scm EXCEPT ![i] = [st |-> "merged", sha |-> head, by |-> "external"]]
    BY <1>4 DEF ExternalMerge
  <2>2. QED
    BY <1>0, <2>1, ScmMoves
<1>5. ASSUME NEW i \in Ids, ExternalClose(i) \/ CompleteMerge(i) \/ Vanish(i) PROVE Forward(scm, scm')
  <2>1. PICK x : /\ \/ scm[i].st = "open" /\ x = "closed"
                    \/ scm[i].st = "merging" /\ x = "merged"
                    \/ scm[i].st = "closed" /\ x = "gone"
                 /\ scm' = [scm EXCEPT ![i].st = x]
    BY <1>5 DEF ExternalClose, CompleteMerge, Vanish, ScmStep
  <2>2. QED
    BY <1>0, <2>1, ScmMoves
<1>6. CASE Reconcile \/ ensureFinalizer \/ releaseFinalizer \/ DeleteTerminal \/ Get \/ FindOpen
           \/ HandleReconciliationResult \/ RequeueAfter \/ CacheSync \/ EnqueuePR \/ UserDelete \/ Hydrate \/ Failure
  BY <1>6, <1>u, Zenon DEF Reconcile, ensureFinalizer, releaseFinalizer, DeleteTerminal, Get, FindOpen,
     HandleReconciliationResult, RequeueAfter, CacheSync, EnqueuePR, UserDelete, Hydrate, Failure, CallFails,
     StatusApplyFails, OwnerCallFails, Crash
<1>7. CASE PolicyApply \/ UNCHANGED prVars
  BY <1>7, <1>u DEF PolicyApply, prVars
<1>8. QED
  BY <1>1, <1>2, <1>3, <1>4, <1>5, <1>6, <1>7, Classify DEF QuietStep, Controller

\* A status that was true stays true.
LEMMA StatusForward ==
    ASSUME NEW p \in StatusPRs, NEW s, NEW t, Forward(s, t), Truthful(p, s)
    PROVE  Truthful(p, t)
<1>1. (p.id # 0 => p.id \in Ids) /\ (p.mts # 0 => p.mts \in Ids)
  BY BoundsType DEF StatusPRs, Ids
<1>2. QED
  BY <1>1 DEF Forward, Truthful

\* Nil says nothing, and a copy says what the object says.
LEMMA TruthNil == ASSUME NEW s PROVE Truthful(NilPR, s)
<1>1. NilPR.id = 0 /\ NilPR.st = "nil" /\ NilPR.mts = 0
  BY DEF NilPR
<1>2. QED
  BY <1>1 DEF Truthful

LEMMA TruthCopy == ASSUME NEW o \in Object, NEW s, Truthful(o, s) PROVE Truthful(Copy(o), s)
<1>1. SameStatus(o, Copy(o))
  BY CopyType DEF SameStatus
<1>2. QED
  BY <1>1, TruthSameStatus

LEMMA PolicyTruthStep == PolicyInv /\ PolicyTruth /\ [CTPNext]_vars => PolicyTruth'
<1> SUFFICES ASSUME PolicyInv, PolicyTruth, [CTPNext]_vars PROVE PolicyTruth'
  OBVIOUS
<1>0. /\ ctp \in StatusPRs /\ crec \in CrecType /\ crec.pr \in StatusPRs /\ crec.obj \in Object /\ notes \subseteq Ids
      /\ cache \in Object /\ Truthful(cache, scm) /\ ReconcileInv
  BY DEF PolicyInv, CTPTypeOK, CrecType, PRInv, PRTypeOK, CopiesTruthful
<1>f. Forward(scm, scm')
  BY ForwardStep
<1>1. /\ Truthful(ctp, scm') /\ Truthful(crec.pr, scm') /\ Truthful(crec.obj, scm') /\ Truthful(cache, scm')
      /\ \A i \in notes : scm'[i].st = "merged"
  <2>1. Truthful(crec.obj, scm') /\ Truthful(cache, scm')
    BY <1>0, <1>f, TruthForward DEF PolicyTruth
  <2>2. Truthful(ctp, scm') /\ Truthful(crec.pr, scm')
    BY <1>0, <1>f, StatusForward DEF PolicyTruth, PolicyTruthful
  <2>3. \A i \in notes : scm'[i].st = "merged"
    BY <1>0, <1>f DEF PolicyTruth, PolicyTruthful, Forward
  <2>4. QED
    BY <2>1, <2>2, <2>3
<1>i. ASSUME ctp' \in {ctp, crec.pr}, Truthful(crec'.pr, scm'), Truthful(crec'.obj, scm'),
             \A i \in notes' : scm'[i].st = "merged"
      PROVE  PolicyTruth'
  BY <1>1, <1>i DEF PolicyTruth, PolicyTruthful
<1>u. CASE ctp' = ctp /\ crec' = crec /\ notes' = notes
  BY <1>1, <1>i, <1>u
<1>d. CASE ctp' \in {ctp, crec.pr} /\ crec' = CIdle /\ notes' = notes
  <2>1. crec'.pr = NilPR /\ crec'.obj = NoObject
    BY <1>d, CIdleType
  <2>2. QED
    BY <1>1, <1>d, <1>i, <2>1, TruthNil, TruthNoObject
<1>s. \A s \in {"note", "release", "calc", "apply", "merge", "persist"} : s \in CSteps
  BY DEF CSteps
<1>g. ASSUME NEW s \in {"release", "calc", "merge", "persist"}, CGoto(s), ctp' = ctp,
             \A i \in notes' : scm'[i].st = "merged"
      PROVE  PolicyTruth'
  <2>1. crec'.pr = crec.pr /\ crec'.obj \in {crec.obj, NoObject}
    BY <1>0, <1>g, <1>s, CGotoEffect
  <2>2. QED
    BY <1>1, <1>g, <1>i, <2>1, TruthNoObject
<1>2. CASE CTPReconcile
  <2>1. /\ ctp' = ctp /\ notes' = notes
        /\ \E s \in CSteps : crec' = [CIdle EXCEPT !.step = s, !.pr = ctp,
                                                   !.obj = IF s = "calc" THEN NoObject ELSE cache]
    BY <1>2, <1>s DEF CTPReconcile
  <2>2. crec'.pr = ctp /\ crec'.obj \in {NoObject, cache}
    BY <2>1, CIdleType DEF CrecType
  <2>3. QED
    BY <1>1, <1>i, <2>1, <2>2, TruthNoObject
<1>3. CASE ensurePromotionHistoryNote
  <2>1. NeedsNote(crec.obj) /\ notes' = notes \cup {crec.obj.mts} /\ ctp' = ctp
    BY <1>0, <1>3 DEF ensurePromotionHistoryNote, ReconcileInv
  <2>2. scm'[crec.obj.mts].st = "merged"
    BY <1>1, <2>1 DEF NeedsNote, Truthful
  <2>3. \A i \in notes' : scm'[i].st = "merged"
    BY <1>1, <2>1, <2>2
  <2>4. CGoto("release") \/ CGoto("calc")
    BY <1>3 DEF ensurePromotionHistoryNote
  <2>5. QED
    BY <1>g, <2>1, <2>3, <2>4
<1>4. CASE calculateStatus
  <2> DEFINE p == setPullRequestState
  <2>1. /\ crec' = [crec EXCEPT !.step = "apply", !.pr = p, !.prop = head, !.act = ActiveDry, !.ok = head \in passed]
        /\ ctp' = ctp /\ notes' = notes
    BY <1>4 DEF calculateStatus
  <2>2. Truthful(p, scm')
    <3>1. Truthful(Copy(cache), scm') /\ Truthful(NilPR, scm')
      BY <1>0, <1>1, TruthCopy, TruthNil
    <3>2. p \in {crec.pr, NilPR, Copy(cache)}
      BY DEF setPullRequestState
    <3> HIDE DEF p
    <3>3. QED
      BY <1>1, <3>1, <3>2
  <2> HIDE DEF p
  <2>3. crec'.pr = p /\ crec'.obj = crec.obj
    BY <1>0, <2>1 DEF CrecType
  <2>4. QED
    BY <1>1, <1>i, <2>1, <2>2, <2>3
<1>5. CASE handlePRFinalizerRemoval \/ gitMergeStrategyOurs \/ createOrUpdatePullRequest \/ mergePullRequests
  <2>1. notes' = notes /\ ctp' = ctp /\ \E s \in {"calc", "merge", "persist"} : CGoto(s)
    BY <1>5 DEF handlePRFinalizerRemoval, gitMergeStrategyOurs, createOrUpdatePullRequest, mergePullRequests
  <2>2. QED
    BY <1>1, <1>g, <2>1
<1>6. CASE CTPPersist \/ CTPCrash
  BY <1>6, <1>d DEF CTPPersist, CTPCrash
<1>7. CASE CTPCallFails
  BY <1>1, <1>7, <1>d, <1>g DEF CTPCallFails
<1>8. CASE handleCTPCleanupOnDelete \/ HydrateDry \/ Checks \/ DeletePolicy
  BY <1>8, <1>u DEF handleCTPCleanupOnDelete, HydrateDry, Checks, ChecksPass, DeletePolicy
<1>9. CASE UNCHANGED ctpVars
  BY <1>9, <1>u DEF ctpVars
<1>10. QED
  BY <1>2, <1>3, <1>4, <1>5, <1>6, <1>7, <1>8, <1>9
     DEF CTPNext, QuietNext, CTPStep, PRStep, Disturbance, CTPFailure, vars

\* What the policy shows of its PullRequest is so on the SCM, though it was
\* copied from a cached copy, persisted later and kept after the object went;
\* and only what was merged carries a history note.
THEOREM PolicyIsTruthful == CTPSpec => []PolicyTruthful
<1>1. CTPInit => PolicyTruth
  BY CIdleType, TruthNil, TruthNoObject DEF CTPInit, PolicyTruth, PolicyTruthful
<1>2. CTPSpec => []PolicyTruth
  BY <1>1, PolicyTruthStep, PolicyInvariant, PTL DEF CTPSpec
<1>3. PolicyTruth => PolicyTruthful
  BY DEF PolicyTruth
<1>4. QED
  BY <1>2, <1>3, PTL
=============================================================================
