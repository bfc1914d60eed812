------------------------- MODULE PullRequestProofs -------------------------
(***************************************************************************)
(* What the PullRequest controller keeps for every bound: its types, the   *)
(* truth of the stored status, and the release of the finalizer.           *)
(***************************************************************************)
EXTENDS PullRequest, TLAPS

\* The strengthening of StatusTruthful.  Every copy of the object is truthful,
\* because each of them may end up as the stored status; and a reconcile that
\* reached step s has a working copy o that led it there.
CopiesTruthful == Truthful(pr, scm) /\ Truthful(cache, scm) /\ Truthful(rec.obj, scm)

Justified(s, o) ==
    /\ s = "release" => pullRequestStatusIsFinalized(o)
    /\ s \in {"get", "close", "findopen", "create", "merge"} => o.mts = 0
    /\ s \in {"get", "close", "merge"} => o.id # 0
    /\ s = "close" => o.st # "merged"
    /\ s = "create" => o.id = 0

PRInv == PRTypeOK /\ CopiesTruthful /\ Justified(rec.step, rec.obj)
-----------------------------------------------------------------------------
(* Type correctness.                                                       *)

\* The object that stands for "none" is an object.
LEMMA NoObjectType == NoObject \in Object
<1>1. 0 \in 0 .. MaxUid /\ 0 \in 0 .. MaxSha /\ 0 \in 0 .. MaxId /\ 0 \in Nat
  BY BoundsAssumption
<1>2. "open" \in SpecStates /\ "" \in StatusStates /\ {} \in SUBSET Finalizers
  BY DEF SpecStates, StatusStates
<1>3. QED
  BY <1>1, <1>2, Zenon DEF NoObject, Object

\* The fields of an object.
LEMMA FieldType ==
    ASSUME NEW o \in Object
    PROVE  /\ o.uid \in 0 .. MaxUid /\ o.gen \in Nat /\ o.gen + 1 \in Nat
           /\ o.spec \in SpecStates /\ o.sha \in 0 .. MaxSha
           /\ o.tr \in BOOLEAN /\ o.del \in BOOLEAN /\ o.fins \in SUBSET Finalizers
           /\ o.id \in 0 .. MaxId /\ o.st \in StatusStates /\ o.mts \in 0 .. MaxId
           /\ o.obs \in Nat
<1>1. o.gen \in Nat
  BY DEF Object
<1>2. o.gen + 1 \in Nat
  BY <1>1
<1>3. QED
  BY <1>1, <1>2, Zenon DEF Object

\* The writes the controllers make to an object: spec, finalizers, deletion,
\* the status of a working copy, and the status apply.
LEMMA SpecWriteType ==
    ASSUME NEW o \in Object, NEW spec \in SpecStates, NEW sha \in 0 .. MaxSha,
           NEW tr \in BOOLEAN, NEW g \in Nat
    PROVE  [o EXCEPT !.spec = spec, !.sha = sha, !.tr = tr, !.gen = g] \in Object
BY Zenon DEF Object

LEMMA FinsWriteType ==
    ASSUME NEW o \in Object, NEW f \in SUBSET Finalizers
    PROVE  [o EXCEPT !.fins = f] \in Object
BY Zenon DEF Object

LEMMA DelWriteType ==
    ASSUME NEW o \in Object, NEW g \in Nat
    PROVE  [o EXCEPT !.del = TRUE, !.gen = g] \in Object
BY Zenon DEF Object

LEMMA StateWriteType ==
    ASSUME NEW o \in Object, NEW s \in StatusStates
    PROVE  [o EXCEPT !.st = s] \in Object
BY Zenon DEF Object

LEMMA OpenWriteType ==
    ASSUME NEW o \in Object, NEW i \in 0 .. MaxId, NEW s \in StatusStates
    PROVE  [o EXCEPT !.id = i, !.st = s] \in Object
BY Zenon DEF Object

LEMMA MergeWriteType ==
    ASSUME NEW o \in Object, NEW s \in StatusStates, NEW n \in 0 .. MaxId
    PROVE  [o EXCEPT !.st = s, !.mts = n] \in Object
BY Zenon DEF Object

LEMMA StatusWriteType ==
    ASSUME NEW o \in Object, NEW i \in 0 .. MaxId, NEW s \in StatusStates,
           NEW n \in 0 .. MaxId, NEW g \in Nat
    PROVE  [o EXCEPT !.id = i, !.st = s, !.mts = n, !.obs = g] \in Object
BY Zenon DEF Object

\* Removing a finalized object and deleting one stay in the type.
LEMMA StoredType ==
    ASSUME NEW o \in Object
    PROVE  Stored(o) \in Object
BY NoObjectType DEF Stored

LEMMA DeletedType ==
    ASSUME NEW o \in Object
    PROVE  Deleted(o) \in Object
<1>1. [o EXCEPT !.del = TRUE, !.gen = o.gen + 1] \in Object
  BY FieldType, DelWriteType
<1>2. QED
  BY <1>1, StoredType DEF Deleted

\* Server-Side Apply by any client.
LEMMA ApplyType ==
    ASSUME PRTypeOK, NEW spec \in SpecStates, NEW sha \in 0 .. MaxSha,
           NEW tr \in BOOLEAN, NEW fin \in BOOLEAN,
           ApplyPullRequest(spec, sha, tr, fin)
    PROVE  pr' \in Object /\ lastUid' \in 0 .. MaxUid
<1> DEFINE new == Applied(spec, sha, tr, fin)
<1>1. pr \in Object /\ lastUid \in 0 .. MaxUid
  BY DEF PRTypeOK
<1>2. WithSpec(pr, spec, sha, tr) \in Object
  <2> DEFINE g == IF pr.spec = spec /\ pr.sha = sha /\ pr.tr = tr THEN pr.gen ELSE pr.gen + 1
  <2>1. g \in Nat
    BY <1>1, FieldType
  <2> HIDE DEF g
  <2>2. [pr EXCEPT !.spec = spec, !.sha = sha, !.tr = tr, !.gen = g] \in Object
    BY <1>1, <2>1, SpecWriteType
  <2>3. QED
    BY <2>2 DEF g, WithSpec
<1>3. ASSUME new.uid <= MaxUid
      PROVE  new \in Object
  <2>1. CASE Exists(pr)
    <3> DEFINE w == WithSpec(pr, spec, sha, tr)
    <3>1. w.fins \cup {"ctp"} \in SUBSET Finalizers /\ w.fins \ {"ctp"} \in SUBSET Finalizers
      BY <1>2, FieldType DEF Finalizers
    <3>2. new = [w EXCEPT !.fins = IF fin THEN w.fins \cup {"ctp"} ELSE w.fins \ {"ctp"}]
      BY <2>1 DEF Applied
    <3> DEFINE f == IF fin THEN w.fins \cup {"ctp"} ELSE w.fins \ {"ctp"}
    <3>3. new = [w EXCEPT !.fins = f] /\ f \in SUBSET Finalizers
      BY <3>1, <3>2
    <3> HIDE DEF w, f, new
    <3>4. QED
      BY <1>2, <3>3, FinsWriteType DEF w
  <2>2. CASE ~Exists(pr)
    <3> DEFINE f == IF fin THEN {"ctp"} ELSE {}
    <3>1. new = [uid |-> lastUid + 1, gen |-> 1, spec |-> spec, sha |-> sha, tr |-> tr,
                 del |-> FALSE, fins |-> f, id |-> 0, st |-> "", mts |-> 0, obs |-> 0]
      BY <2>2 DEF Applied, NoObject
    <3>2. lastUid + 1 \in 0 .. MaxUid
      <4> HIDE DEF new, f
      <4>1. new.uid = lastUid + 1
        BY <3>1, Zenon
      <4>2. QED
        BY <1>3, <4>1, <1>1, BoundsAssumption
    <3>3. f \in SUBSET Finalizers /\ 1 \in Nat /\ 0 \in Nat /\ 0 \in 0 .. MaxId
      BY BoundsAssumption DEF Finalizers
    <3>4. "" \in StatusStates
      BY DEF StatusStates
    <3> HIDE DEF f, new
    <3>5. QED
      BY <3>1, <3>2, <3>3, <3>4, Zenon DEF Object
  <2>3. QED
    BY <2>1, <2>2
<1>4. new.uid <= MaxUid /\ pr' \in {Stored(new), pr} /\ lastUid' \in {lastUid, new.uid}
  BY DEF ApplyPullRequest
<1>5. QED
  <2> HIDE DEF new
  <2>1. QED
    BY <1>1, <1>3, <1>4, StoredType, FieldType


\* What a step of a reconcile does to rec keeps its type.
LEMMA RecWriteType ==
    ASSUME NEW s \in Steps, NEW o \in Object, NEW r \in Results
    PROVE  [step |-> s, obj |-> o, result |-> r] \in RecType
BY Zenon DEF RecType

LEMMA GotoType ==
    ASSUME rec \in RecType, NEW s \in Steps, NEW o \in Object, Goto(s, o)
    PROVE  rec' \in RecType
BY Zenon DEF Goto, RecType

LEMMA ReturnType ==
    ASSUME NEW o \in Object, NEW r \in Results, Return(o, r)
    PROVE  rec' \in RecType
<1>1. "patch" \in Steps
  BY DEF Steps
<1>2. QED
  BY <1>1, RecWriteType DEF Return

LEMMA IdleType == Idle \in RecType
<1>1. "idle" \in Steps /\ "done" \in Results
  BY DEF Steps, Results
<1>2. QED
  BY <1>1, NoObjectType, RecWriteType DEF Idle

\* What happens to a pull request of the SCM keeps the type of scm.
LEMMA ScmWriteType ==
    ASSUME scm \in [Ids -> ScmType], NEW i, NEW s \in ScmStates
    PROVE  [scm EXCEPT ![i].st = s] \in [Ids -> ScmType]
<1>1. CASE i \in Ids
  <2>1. scm[i] \in ScmType
    BY <1>1
  <2>2. [scm[i] EXCEPT !.st = s] \in ScmType
    BY <2>1 DEF ScmType
  <2>3. QED
    BY <2>2
<1>2. CASE i \notin Ids
  BY <1>2
<1>3. QED
  BY <1>1, <1>2

LEMMA FirstStepType ==
    ASSUME NEW o \in Object
    PROVE  FirstStep(o) \subseteq Steps /\ AfterEnsure(o) \subseteq Steps
BY DEF FirstStep, AfterEnsure, Steps

-----------------------------------------------------------------------------
\* Every step of the specification keeps the types.
LEMMA TypeStep == PRTypeOK /\ [PRNext]_prVars => PRTypeOK'
<1> SUFFICES ASSUME PRTypeOK, [PRNext]_prVars PROVE PRTypeOK'
  OBVIOUS
<1> USE BoundsAssumption
<1>0. /\ pr \in Object /\ cache \in Object /\ rec \in RecType
      /\ queued \in BOOLEAN /\ timer \in BOOLEAN /\ scm \in [Ids -> ScmType]
      /\ head \in Shas /\ lastUid \in 0 .. MaxUid /\ fails \in 0 .. MaxFails
  BY DEF PRTypeOK
<1>r. rec.step \in Steps /\ rec.obj \in Object /\ rec.result \in Results
  BY <1>0, Zenon DEF RecType
<1>s. /\ \A s \in {"idle", "ensure", "delete", "release", "get", "close",
                     "findopen", "create", "merge", "patch"} : s \in Steps
      /\ "done" \in Results /\ "error" \in Results /\ "later" \in Results
      /\ \A s \in {"open", "merging", "merged", "closed", "gone"} : s \in ScmStates
  BY DEF Steps, Results, ScmStates
<1>1. CASE Reconcile
  <2>1. rec' \in RecType
    <3>1. CASE Exists(cache)
      <4>1. PICK s \in FirstStep(cache) :
              rec' = [step |-> s, obj |-> cache, result |-> IF cache.del THEN "done" ELSE "later"]
        BY <1>1, <3>1 DEF Reconcile
      <4>2. s \in Steps
        BY <1>0, FirstStepType
      <4>3. QED
        BY <1>0, <1>s, <4>1, <4>2, RecWriteType
    <3>2. CASE ~Exists(cache)
      BY <1>0, <1>1, <3>2 DEF Reconcile
    <3>3. QED
      BY <3>1, <3>2
  <2>2. QED
    BY <1>0, <1>1, <2>1, Zenon DEF Reconcile, PRTypeOK
<1>2. CASE ensureFinalizer
  <2> DEFINE o == [pr EXCEPT !.fins = @ \cup {"promoter"}]
             p == [rec.obj EXCEPT !.fins = @ \cup {"promoter"}]
  <2>1. o \in Object /\ p \in Object
    <3>1. /\ pr.fins \cup {"promoter"} \in SUBSET Finalizers
          /\ rec.obj.fins \cup {"promoter"} \in SUBSET Finalizers
      BY <1>0, <1>r, FieldType DEF Finalizers
    <3>2. QED
      BY <1>0, <1>r, <3>1, FinsWriteType
  <2> HIDE DEF o, p
  <2>2. CASE rec.obj = pr
    <3>1. pr' = o /\ \E s \in AfterEnsure(o) : rec' = [step |-> s, obj |-> o, result |-> "later"]
      BY <1>2, <2>2 DEF ensureFinalizer, o
    <3>2. rec' \in RecType
      BY <1>s, <2>1, <3>1, FirstStepType, RecWriteType
    <3>3. QED
      BY <1>0, <1>2, <2>1, <3>1, <3>2, Zenon DEF ensureFinalizer, PRTypeOK
  <2>3. CASE rec.obj # pr
    <3>1. pr' = pr /\ Return(p, "error")
      BY <1>2, <2>3 DEF ensureFinalizer, p
    <3>2. rec' \in RecType
      BY <1>s, <2>1, <3>1, ReturnType
    <3>3. QED
      BY <1>0, <1>2, <3>1, <3>2, Zenon DEF ensureFinalizer, PRTypeOK
  <2>4. QED
    BY <2>2, <2>3
<1>3. CASE releaseFinalizer
  <2> DEFINE o == [pr EXCEPT !.fins = @ \ {"promoter"}]
             p == [rec.obj EXCEPT !.fins = @ \ {"promoter"}]
  <2>1. o \in Object /\ p \in Object
    <3>1. /\ pr.fins \ {"promoter"} \in SUBSET Finalizers
          /\ rec.obj.fins \ {"promoter"} \in SUBSET Finalizers
      BY <1>0, <1>r, FieldType DEF Finalizers
    <3>2. QED
      BY <1>0, <1>r, <3>1, FinsWriteType
  <2> HIDE DEF o, p
  <2>2. /\ pr' \in {Stored(o), pr}
        /\ Return(p, IF rec.obj = pr THEN "done" ELSE "error")
    BY <1>3 DEF releaseFinalizer, o, p
  <2>3. pr' \in Object
    BY <1>0, <2>1, <2>2, StoredType
  <2>4. rec' \in RecType
    BY <1>s, <2>1, <2>2, ReturnType
  <2>5. QED
    BY <1>0, <1>3, <2>3, <2>4, Zenon DEF releaseFinalizer, PRTypeOK
<1>4. CASE DeleteTerminal
  <2>1. pr' \in Object
    BY <1>0, <1>4, DeletedType DEF DeleteTerminal
  <2>2. rec' \in RecType
    BY <1>r, <1>s, <1>4, ReturnType DEF DeleteTerminal
  <2>3. QED
    BY <1>0, <1>4, <2>1, <2>2, Zenon DEF DeleteTerminal, PRTypeOK
<1>5. CASE Get
  <2> DEFINE o == rec.obj
  <2>0. o \in Object /\ o.id \in 0 .. MaxId /\ 0 \in 0 .. MaxId
    BY <1>r, FieldType
  <2>1. /\ [o EXCEPT !.st = "unknown"] \in Object /\ [o EXCEPT !.st = "closed"] \in Object
        /\ [o EXCEPT !.st = "merged", !.mts = o.id] \in Object
        /\ [o EXCEPT !.st = "merged", !.mts = 0] \in Object
    <3>1. "unknown" \in StatusStates /\ "closed" \in StatusStates /\ "merged" \in StatusStates
      BY DEF StatusStates
    <3> HIDE DEF o
    <3>2. QED
      BY <2>0, <3>1, StateWriteType, MergeWriteType
  <2>2. rec' \in RecType
    <3>1. \/ \E n \in Object, r \in Results : Return(n, r)
          \/ Goto("close", o)
      BY <1>5, <1>s, <2>0, <2>1, Zenon DEF Get
    <3>2. QED
      BY <1>0, <1>s, <2>0, <3>1, ReturnType, GotoType
  <2>3. fails' \in 0 .. MaxFails
    <3>1. fails' = fails \/ (fails < MaxFails /\ fails' = fails + 1)
      BY <1>5, Zenon DEF Get
    <3>2. QED
      BY <1>0, <3>1
  <2>4. QED
    BY <1>0, <1>5, <2>2, <2>3, Zenon DEF Get, PRTypeOK
<1>6. CASE closePullRequest
  <2> DEFINE i == rec.obj.id
  <2>1. [rec.obj EXCEPT !.st = "closed"] \in Object
    BY <1>r, StateWriteType DEF StatusStates
  <2>2. rec' \in RecType
    BY <1>6, <1>r, <1>s, <2>1, ReturnType DEF closePullRequest
  <2>3. scm' \in [Ids -> ScmType]
    <3>1. scm' \in {scm, [scm EXCEPT ![i].st = "closed"]}
      BY <1>6 DEF closePullRequest
    <3>2. QED
      BY <1>0, <1>s, <3>1, ScmWriteType
  <2>4. QED
    BY <1>0, <1>6, <2>2, <2>3, Zenon DEF closePullRequest, PRTypeOK
<1>7. CASE FindOpen
  <2> DEFINE o == rec.obj
             found(i) == [o EXCEPT !.id = i, !.st = "open"]
             none == [o EXCEPT !.st = "merged-or-closed"]
  <2>1. o \in Object /\ none \in Object /\ \A i \in OpenIds : found(i) \in Object
    <3>1. "open" \in StatusStates /\ "merged-or-closed" \in StatusStates
      BY DEF StatusStates
    <3>2. \A i \in OpenIds : i \in 0 .. MaxId
      BY DEF OpenIds, Ids
    <3> HIDE DEF o
    <3>3. QED
      BY <1>r, <3>1, <3>2, StateWriteType, OpenWriteType DEF o
  <2> HIDE DEF none, found
  <2>2. \/ \E n \in Object, r \in Results : Return(n, r)
        \/ \E n \in Object : Goto("merge", n)
        \/ Goto("create", o)
    BY <1>7, <1>s, <2>1, Zenon DEF FindOpen, found, none
  <2>3. rec' \in RecType
    BY <1>0, <1>s, <2>1, <2>2, ReturnType, GotoType
  <2>4. fails' \in 0 .. MaxFails
    <3>1. fails' = fails \/ (fails < MaxFails /\ fails' = fails + 1)
      BY <1>7, Zenon DEF FindOpen
    <3>2. QED
      BY <1>0, <3>1
  <2>5. QED
    BY <1>0, <1>7, <2>3, <2>4, Zenon DEF FindOpen, PRTypeOK
<1>8. CASE createPullRequest
  <2> DEFINE found(i) == [rec.obj EXCEPT !.id = i, !.st = "open"]
  <2>1. \A i \in Ids : found(i) \in Object
    <3>1. "open" \in StatusStates /\ \A i \in Ids : i \in 0 .. MaxId
      BY DEF StatusStates, Ids
    <3>2. QED
      BY <1>r, <3>1, OpenWriteType
  <2> HIDE DEF found
  <2>2. rec' \in RecType
    <3>1. \E n \in Object, r \in Results : Return(n, r)
      BY <1>8, <1>r, <1>s, <2>1, Zenon DEF createPullRequest, found
    <3>2. QED
      BY <3>1, ReturnType
  <2>3. scm' \in [Ids -> ScmType]
    <3>1. scm' = scm \/ \E i \in Ids : scm' = [scm EXCEPT ![i].st = "open"]
      BY <1>8, Zenon DEF createPullRequest
    <3>2. QED
      BY <1>0, <1>s, <3>1, ScmWriteType
  <2>4. fails' \in 0 .. MaxFails
    <3>1. fails' = fails \/ (fails < MaxFails /\ fails' = fails + 1)
      BY <1>8, Zenon DEF createPullRequest
    <3>2. QED
      BY <1>0, <3>1
  <2>5. QED
    BY <1>0, <1>8, <2>2, <2>3, <2>4, Zenon DEF createPullRequest, PRTypeOK
<1>9. CASE mergePullRequest
  <2> DEFINE i == rec.obj.id
             done(n) == [rec.obj EXCEPT !.st = "merged", !.mts = n]
             accepted(s) == [st |-> s, sha |-> head, by |-> "promoter"]
  <2>0. i \in 0 .. MaxId /\ 0 \in 0 .. MaxId
    BY <1>r, FieldType
  <2>1. \A n \in {0, i} : done(n) \in Object
    <3>1. "merged" \in StatusStates
      BY DEF StatusStates
    <3>2. QED
      BY <1>r, <2>0, <3>1, MergeWriteType
  <2>2. \A s \in {"merged", "merging"} : accepted(s) \in ScmType
    BY <1>0 DEF ScmType, ScmStates, Shas
  <2> HIDE DEF i, done, accepted
  <2>3. rec' \in RecType
    <3>1. \E n \in Object, r \in Results : Return(n, r)
      BY <1>9, <1>r, <1>s, <2>1, Zenon DEF mergePullRequest, done, i
    <3>2. QED
      BY <3>1, ReturnType
  <2>4. scm' \in [Ids -> ScmType]
    <3>1. scm' = scm \/ \E s \in {"merged", "merging"} : scm' = [scm EXCEPT ![i] = accepted(s)]
      BY <1>9 DEF mergePullRequest, accepted, i
    <3>2. QED
      BY <1>0, <2>2, <3>1
  <2>5. fails' \in 0 .. MaxFails
    <3>1. fails' = fails \/ (fails < MaxFails /\ fails' = fails + 1)
      BY <1>9 DEF mergePullRequest
    <3>2. QED
      BY <1>0, <3>1
  <2>6. QED
    BY <1>0, <1>9, <2>3, <2>4, <2>5, Zenon DEF mergePullRequest, PRTypeOK
<1>10. CASE HandleReconciliationResult
  <2>1. StatusApplied \in Object
    <3>1. /\ rec.obj.id \in 0 .. MaxId /\ rec.obj.st \in StatusStates
          /\ rec.obj.mts \in 0 .. MaxId /\ rec.obj.gen \in Nat
      BY <1>r, FieldType
    <3>2. QED
      BY <1>0, <3>1, StatusWriteType DEF StatusApplied
  <2>2. pr' \in {StatusApplied, pr}
    BY <1>10 DEF HandleReconciliationResult
  <2>3. queued' \in BOOLEAN /\ timer' \in BOOLEAN
    BY <1>10 DEF HandleReconciliationResult
  <2>4. QED
    BY <1>0, <1>10, <2>1, <2>2, <2>3, IdleType DEF HandleReconciliationResult, PRTypeOK
<1>11. CASE RequeueAfter
  BY <1>0, <1>11 DEF RequeueAfter, PRTypeOK
<1>12. CASE CacheSync
  BY <1>0, <1>12 DEF CacheSync, PRTypeOK
<1>13. CASE OwnerApply
  <2>1. PICK spec \in SpecStates, s \in 1 .. head, t \in BOOLEAN, fin \in BOOLEAN :
          ApplyPullRequest(spec, s, t, fin)
    BY <1>13 DEF OwnerApply
  <2>2. s \in 0 .. MaxSha
    BY <1>0 DEF Shas
  <2>3. pr' \in Object /\ lastUid' \in 0 .. MaxUid
    BY <2>1, <2>2, ApplyType
  <2>4. QED
    BY <1>0, <1>13, <2>3, Zenon DEF OwnerApply, PRTypeOK
<1>14. CASE EnqueuePR
  BY <1>0, <1>14 DEF EnqueuePR, PRTypeOK
<1>15. CASE UserDelete
  BY <1>0, <1>15, DeletedType DEF UserDelete, PRTypeOK
<1>16. CASE Hydrate
  BY <1>0, <1>16 DEF Hydrate, PRTypeOK, Shas
<1>17. ASSUME NEW i \in Ids, ExternalMerge(i)
       PROVE  PRTypeOK'
  <2>1. [st |-> "merged", sha |-> head, by |-> "external"] \in ScmType
    BY <1>0 DEF ScmType, ScmStates, Shas
  <2>2. scm' \in [Ids -> ScmType]
    BY <1>0, <1>17, <2>1 DEF ExternalMerge
  <2>3. QED
    BY <1>0, <1>17, <2>2, Zenon DEF ExternalMerge, PRTypeOK
<1>18. ASSUME NEW i \in Ids, ExternalClose(i) \/ CompleteMerge(i) \/ Vanish(i)
       PROVE  PRTypeOK'
  <2>1. PICK s \in {"closed", "merged", "gone"} : \E from : ScmStep(i, from, s)
    BY <1>18 DEF ExternalClose, CompleteMerge, Vanish
  <2>2. scm' \in [Ids -> ScmType]
    BY <1>0, <1>s, <2>1, ScmWriteType DEF ScmStep
  <2>3. QED
    BY <1>0, <2>1, <2>2, Zenon DEF ScmStep, PRTypeOK
<1>19. CASE CallFails
  <2>1. rec' \in RecType
    BY <1>19, <1>r, <1>s, ReturnType DEF CallFails
  <2>2. fails' \in 0 .. MaxFails
    BY <1>0, <1>19 DEF CallFails
  <2>3. QED
    BY <1>0, <1>19, <2>1, <2>2, Zenon DEF CallFails, PRTypeOK
<1>20. CASE StatusApplyFails
  BY <1>0, <1>20, IdleType DEF StatusApplyFails, PRTypeOK
<1>21. CASE OwnerCallFails
  BY <1>0, <1>21 DEF OwnerCallFails, PRTypeOK
<1>22. CASE Crash
  <2>1. fails' \in 0 .. MaxFails /\ lastUid' \in 0 .. MaxUid
    BY <1>0, <1>22 DEF Crash
  <2>2. QED
    BY <1>0, <1>22, <2>1, IdleType, Zenon DEF Crash, PRTypeOK
<1>23. CASE UNCHANGED prVars
  BY <1>0, <1>23 DEF prVars, PRTypeOK
<1>24. QED
  BY <1>1, <1>2, <1>3, <1>4, <1>5, <1>6, <1>7, <1>8, <1>9, <1>10, <1>11, <1>12, <1>13, <1>14,
     <1>15, <1>16, <1>17, <1>18, <1>19, <1>20, <1>21, <1>22, <1>23
     DEF PRNext, Controller, World, Failure

LEMMA InitType == PRInit => PRTypeOK
<1>1. [i \in Ids |-> [st |-> "none", sha |-> 0, by |-> "none"]] \in [Ids -> ScmType]
  BY BoundsAssumption DEF ScmType, ScmStates
<1>2. 1 \in Shas /\ 0 \in 0 .. MaxUid /\ 0 \in 0 .. MaxFails
  BY BoundsAssumption DEF Shas
<1>3. QED
  BY <1>1, <1>2, NoObjectType, IdleType, Zenon DEF PRInit, PRTypeOK

\* Every variable keeps its type, for every bound: no sequence of reads, lost
\* answers, crashes and applies puts the SCM's vocabulary or an id that was
\* never given into the status of a PullRequest.
THEOREM TypeCorrect == PRSpec => []PRTypeOK
BY InitType, TypeStep, PTL DEF PRSpec

-----------------------------------------------------------------------------
(* The truth of the stored status.                                         *)

\* What the SCM forgets, at worst: an outcome is for ever, but for the record
\* of a closed pull request.
Forward(s, t) ==
    \A i \in Ids :
        /\ s[i].st # "none" => t[i].st # "none"
        /\ s[i].st = "merged" => t[i].st = "merged"
        /\ s[i].st \in {"closed", "gone"} => t[i].st \in {"closed", "gone"}
        /\ s[i].st \in {"merging", "merged", "closed", "gone"}
              => t[i].st \in {"merging", "merged", "closed", "gone"}

SameStatus(o, p) == o.id = p.id /\ o.st = p.st /\ o.mts = p.mts

\* A true status stays true while the SCM moves forward.
LEMMA TruthForward ==
    ASSUME NEW o \in Object, NEW s, NEW t, Forward(s, t), Truthful(o, s)
    PROVE  Truthful(o, t)
<1>1. (o.id # 0 => o.id \in Ids) /\ (o.mts # 0 => o.mts \in Ids)
  BY FieldType DEF Ids
<1>2. QED
  BY <1>1 DEF Forward, Truthful

LEMMA TruthSameStatus ==
    ASSUME NEW o, NEW p, NEW s, SameStatus(o, p), Truthful(o, s)
    PROVE  Truthful(p, s)
BY DEF SameStatus, Truthful

LEMMA TruthNoObject == ASSUME NEW s PROVE Truthful(NoObject, s)
<1>1. NoObject.id = 0 /\ NoObject.st = "" /\ NoObject.mts = 0
  BY Zenon DEF NoObject
<1>2. QED
  BY <1>1 DEF Truthful

LEMMA TruthStored ==
    ASSUME NEW o, NEW s, Truthful(o, s)
    PROVE  Truthful(Stored(o), s)
BY TruthNoObject DEF Stored

\* Deletion and finalizers do not touch the status.
LEMMA TruthFins ==
    ASSUME NEW o \in Object, NEW f, NEW s, Truthful(o, s)
    PROVE  Truthful([o EXCEPT !.fins = f], s)
<1>1. SameStatus(o, [o EXCEPT !.fins = f])
  BY DEF SameStatus, Object
<1>2. QED
  BY <1>1, TruthSameStatus

LEMMA TruthDeleted ==
    ASSUME NEW o \in Object, NEW s, Truthful(o, s)
    PROVE  Truthful(Deleted(o), s)
<1> DEFINE d == [o EXCEPT !.del = TRUE, !.gen = @ + 1]
<1>1. SameStatus(o, d)
  BY Zenon DEF SameStatus, Object
<1>2. Truthful(d, s)
  BY <1>1, TruthSameStatus
<1>3. QED
  BY <1>2, TruthStored DEF Deleted

\* An apply keeps the status, or creates an object that has none.
LEMMA TruthApplied ==
    ASSUME PRTypeOK, NEW spec, NEW sha, NEW tr, NEW fin, NEW s, Truthful(pr, s),
           ApplyPullRequest(spec, sha, tr, fin)
    PROVE  Truthful(pr', s)
<1> DEFINE new == Applied(spec, sha, tr, fin)
<1>1. pr \in Object
  BY DEF PRTypeOK
<1>2. Truthful(new, s)
  <2>1. CASE Exists(pr)
    <3>1. SameStatus(pr, new)
      BY <1>1, <2>1, Zenon DEF Applied, WithSpec, SameStatus, Object
    <3>2. QED
      BY <3>1, TruthSameStatus
  <2>2. CASE ~Exists(pr)
    <3>1. SameStatus(NoObject, new)
      BY <2>2, Zenon DEF Applied, SameStatus, NoObject
    <3>2. QED
      BY <3>1, TruthNoObject, TruthSameStatus
  <2>3. QED
    BY <2>1, <2>2
<1>3. pr' = Stored(new) \/ pr' = pr
  BY DEF ApplyPullRequest
<1>4. QED
  BY <1>2, <1>3, TruthStored

\* A merge is recorded with its commit, or without.
LEMMA TruthMerged ==
    ASSUME NEW o \in Object, NEW s, NEW n \in {0, o.id}, o.id # 0,
           s[o.id].st \in {"merging", "merged"}, n # 0 => s[o.id].st = "merged"
    PROVE  Truthful([o EXCEPT !.st = "merged", !.mts = n], s)
<1> DEFINE p == [o EXCEPT !.st = "merged", !.mts = n]
<1>1. p.st = "merged" /\ p.mts = n /\ p.id = o.id
  BY DEF Object
<1> HIDE DEF p
<1>2. Truthful(p, s)
  BY <1>1 DEF Truthful
<1>3. QED
  BY <1>2 DEF p

\* A pull request found or created is recorded as open.
LEMMA TruthOpen ==
    ASSUME NEW o \in Object, NEW s, NEW i, o.mts = 0, s[i].st # "none"
    PROVE  Truthful([o EXCEPT !.id = i, !.st = "open"], s)
<1> DEFINE p == [o EXCEPT !.id = i, !.st = "open"]
<1>1. p.st = "open" /\ p.mts = 0 /\ p.id = i
  BY DEF Object
<1> HIDE DEF p
<1>2. Truthful(p, s)
  BY <1>1 DEF Truthful
<1>3. QED
  BY <1>2 DEF p

\* The step a reconcile starts with, or goes on with after ensureFinalizer.
LEMMA FirstStepJustified ==
    ASSUME NEW o \in Object, NEW s, Truthful(o, s)
    PROVE  /\ \A x \in FirstStep(o) : Justified(x, o)
           /\ \A x \in AfterEnsure(o) : Justified(x, o)
<1>1. \A x \in AfterEnsure(o) : Justified(x, o)
  BY DEF AfterEnsure, Justified, Truthful, pullRequestStatusIsTerminal
<1>2. \A x \in FirstStep(o) : Justified(x, o)
  BY <1>1 DEF FirstStep, Justified, Truthful, pullRequestStatusIsFinalized
<1>3. QED
  BY <1>1, <1>2

\* A pull request that takes one of the SCM's transitions moves the SCM forward.
LEMMA ScmMoves ==
    ASSUME PRTypeOK, NEW i \in Ids, NEW x,
           \/ scm[i].st = "none" /\ x = "open"
           \/ scm[i].st = "open" /\ x \in {"closed", "merging", "merged"}
           \/ scm[i].st = "merging" /\ x \in {"closed", "merged"}
           \/ scm[i].st = "closed" /\ x = "gone",
           \/ scm' = [scm EXCEPT ![i].st = x]
           \/ \E h, b : scm' = [scm EXCEPT ![i] = [st |-> x, sha |-> h, by |-> b]]
    PROVE  Forward(scm, scm') /\ scm'[i].st = x
<1>1. scm \in [Ids -> ScmType] /\ scm[i] \in ScmType
  BY DEF PRTypeOK
<1>2. scm'[i].st = x
  BY <1>1 DEF ScmType
<1>3. \A j \in Ids \ {i} : scm'[j] = scm[j]
  BY <1>1
<1>4. QED
  BY <1>2, <1>3 DEF Forward

\* Return leaves step "patch", with the given working copy.
LEMMA ReturnEffect ==
    ASSUME NEW o, NEW r, Return(o, r)
    PROVE  rec'.obj = o /\ rec'.step = "patch" /\ Justified(rec'.step, rec'.obj)
BY DEF Return, Justified

LEMMA GotoEffect ==
    ASSUME rec \in RecType, NEW s, NEW o, Goto(s, o)
    PROVE  rec'.obj = o /\ rec'.step = s
BY DEF Goto, RecType

LEMMA IdleEffect ==
    ASSUME rec' = Idle, NEW s
    PROVE  Truthful(rec'.obj, s) /\ Justified(rec'.step, rec'.obj)
<1>1. rec'.step = "idle" /\ rec'.obj = NoObject
  BY DEF Idle
<1>2. QED
  BY <1>1, TruthNoObject DEF Justified

\* The induction step: every action keeps PRInv.
LEMMA TruthStep == PRInv /\ [PRNext]_prVars => PRInv'
<1> SUFFICES ASSUME PRInv, [PRNext]_prVars PROVE PRInv'
  OBVIOUS
<1> DEFINE o == rec.obj
<1>t. PRTypeOK /\ PRTypeOK'
  BY TypeStep DEF PRInv
<1>0. /\ pr \in Object /\ cache \in Object /\ rec \in RecType /\ o \in Object
      /\ scm \in [Ids -> ScmType] /\ o.id \in 0 .. MaxId
  BY <1>t, FieldType DEF PRTypeOK, RecType
<1>v. /\ Truthful(pr, scm) /\ Truthful(cache, scm) /\ Truthful(o, scm)
      /\ Justified(rec.step, o)
  BY DEF PRInv, CopiesTruthful
<1>c. ASSUME Forward(scm, scm')
      PROVE  Truthful(pr, scm') /\ Truthful(cache, scm') /\ Truthful(o, scm')
  BY <1>c, <1>0, <1>v, TruthForward
<1>i. ASSUME /\ Truthful(pr', scm') /\ Truthful(cache', scm')
             /\ Truthful(rec'.obj, scm') /\ Justified(rec'.step, rec'.obj)
      PROVE  PRInv'
  BY <1>t, <1>i DEF PRInv, CopiesTruthful
<1> HIDE DEF o
<1>1. CASE Reconcile
  <2>1. scm' = scm /\ pr' = pr /\ cache' = cache
    BY <1>1 DEF Reconcile
  <2>2. Truthful(rec'.obj, scm) /\ Justified(rec'.step, rec'.obj)
    <3>1. CASE Exists(cache)
      <4>1. PICK x \in FirstStep(cache) : rec'.step = x /\ rec'.obj = cache
        BY <1>1, <3>1 DEF Reconcile
      <4>2. QED
        BY <1>0, <1>v, <4>1, FirstStepJustified
    <3>2. CASE ~Exists(cache)
      BY <1>1, <3>2, <1>v DEF Reconcile, o
    <3>3. QED
      BY <3>1, <3>2
  <2>3. QED
    BY <1>v, <1>i, <2>1, <2>2
<1>2. CASE ensureFinalizer
  <2> DEFINE n == [pr EXCEPT !.fins = @ \cup {"promoter"}]
             p == [o EXCEPT !.fins = @ \cup {"promoter"}]
  <2>1. scm' = scm /\ cache' = cache
    BY <1>2 DEF ensureFinalizer
  <2>2. n \in Object /\ Truthful(n, scm) /\ Truthful(p, scm)
    <3>1. pr.fins \cup {"promoter"} \in SUBSET Finalizers
      BY <1>0, FieldType DEF Finalizers
    <3>2. QED
      BY <1>0, <1>v, <3>1, TruthFins, FinsWriteType
  <2> HIDE DEF n, p
  <2>3. CASE rec.obj = pr
    <3>1. pr' = n /\ \E x \in AfterEnsure(n) : rec'.step = x /\ rec'.obj = n
      BY <1>2, <2>3 DEF ensureFinalizer, n
    <3>2. QED
      BY <1>v, <1>i, <2>1, <2>2, <3>1, FirstStepJustified
  <2>4. CASE rec.obj # pr
    <3>1. pr' = pr /\ Return(p, "error")
      BY <1>2, <2>4 DEF ensureFinalizer, p, o
    <3>2. QED
      BY <1>v, <1>i, <2>1, <2>2, <3>1, ReturnEffect
  <2>5. QED
    BY <2>3, <2>4
<1>3. CASE releaseFinalizer
  <2> DEFINE n == [pr EXCEPT !.fins = @ \ {"promoter"}]
             p == [o EXCEPT !.fins = @ \ {"promoter"}]
  <2>1. Truthful(Stored(n), scm) /\ Truthful(p, scm)
    BY <1>0, <1>v, TruthFins, TruthStored
  <2> HIDE DEF n, p
  <2>2. /\ scm' = scm /\ cache' = cache /\ pr' \in {Stored(n), pr}
        /\ Return(p, IF rec.obj = pr THEN "done" ELSE "error")
    BY <1>3 DEF releaseFinalizer, n, p, o
  <2>3. QED
    BY <1>v, <1>i, <2>1, <2>2, ReturnEffect
<1>4. CASE DeleteTerminal
  <2>1. scm' = scm /\ cache' = cache /\ pr' = Deleted(pr) /\ Return(o, "done")
    BY <1>4 DEF DeleteTerminal, o
  <2>2. QED
    BY <1>0, <1>v, <1>i, <2>1, TruthDeleted, ReturnEffect
<1>5. CASE Get
  <2>1. scm' = scm /\ cache' = cache /\ pr' = pr /\ rec.step = "get"
    BY <1>5 DEF Get
  <2>2. o.mts = 0 /\ o.id # 0
    BY <1>v, <2>1 DEF Justified
  <2> DEFINE x == scm[o.id].st
  <2>3. CASE x = "gone" /\ Return([o EXCEPT !.st = "unknown"], "done")
    BY <1>0, <1>v, <1>i, <2>1, <2>2, <2>3, ReturnEffect DEF Truthful, Object
  <2>4. CASE Return(o, "error")
    BY <1>v, <1>i, <2>1, <2>4, ReturnEffect
  <2>5. CASE x = "closed" /\ Return([o EXCEPT !.st = "closed"], "done")
    BY <1>0, <1>v, <1>i, <2>1, <2>2, <2>5, ReturnEffect DEF Truthful, Object
  <2>6. CASE o.st # "merged" /\ Goto("close", o)
    <3>1. rec'.obj = o /\ rec'.step = "close"
      BY <1>0, <2>6, GotoEffect
    <3>2. Justified("close", o)
      BY <2>2, <2>6 DEF Justified
    <3>3. QED
      BY <1>v, <1>i, <2>1, <3>1, <3>2
  <2>m. ASSUME NEW n \in {0, o.id}, NEW r, x = "merged",
               Return([o EXCEPT !.st = "merged", !.mts = n], r)
        PROVE  PRInv'
    <3> DEFINE p == [o EXCEPT !.st = "merged", !.mts = n]
    <3>1. Truthful(p, scm)
      BY <1>0, <2>2, <2>m, TruthMerged
    <3>2. Return(p, r)
      BY <2>m
    <3> HIDE DEF p
    <3>3. rec'.obj = p /\ Justified(rec'.step, rec'.obj)
      BY <3>2, ReturnEffect
    <3>4. Truthful(pr', scm') /\ Truthful(cache', scm') /\ Truthful(rec'.obj, scm')
      BY <1>v, <2>1, <3>1, <3>3
    <3>5. QED
      BY <1>i, <3>3, <3>4, Zenon
  <2>7. CASE x = "merged" /\ Return([o EXCEPT !.st = "merged", !.mts = o.id], "done")
    BY <2>m, <2>7
  <2>8. CASE x = "merged" /\ Return([o EXCEPT !.st = "merged", !.mts = 0], "error")
    BY <2>m, <2>8
  <2>9. QED
    BY <1>5, <2>3, <2>4, <2>5, <2>6, <2>7, <2>8, Zenon DEF Get, o
<1>6. CASE closePullRequest
  <2>1. cache' = cache /\ pr' = pr /\ rec.step = "close"
    BY <1>6 DEF closePullRequest
  <2>2. o.mts = 0 /\ o.id \in Ids
    BY <1>0, <1>v, <2>1 DEF Justified, Ids
  <2>3. CASE scm[o.id].st \in {"open", "merging"}
    <3>1. scm' = [scm EXCEPT ![o.id].st = "closed"] /\ Return([o EXCEPT !.st = "closed"], "done")
      BY <1>6, <2>3 DEF closePullRequest, o
    <3>2. Forward(scm, scm') /\ scm'[o.id].st = "closed"
      BY <1>t, <2>2, <2>3, <3>1, ScmMoves
    <3>3. Truthful([o EXCEPT !.st = "closed"], scm')
      <4> DEFINE p == [o EXCEPT !.st = "closed"]
      <4>1. p.st = "closed" /\ p.mts = 0 /\ p.id = o.id /\ o.id # 0
        BY <1>0, <2>2 DEF Object, Ids
      <4> HIDE DEF p
      <4>2. Truthful(p, scm')
        BY <4>1, <3>2 DEF Truthful
      <4>3. QED
        BY <4>2 DEF p
    <3>4. QED
      BY <1>c, <1>i, <2>1, <3>1, <3>2, <3>3, ReturnEffect
  <2>4. CASE scm[o.id].st \notin {"open", "merging"}
    <3>1. scm' = scm /\ Return(o, "error")
      BY <1>6, <2>4 DEF closePullRequest, o
    <3>2. QED
      BY <1>v, <1>i, <2>1, <3>1, ReturnEffect
  <2>5. QED
    BY <2>3, <2>4
<1>7. CASE FindOpen
  <2> DEFINE n(i) == [o EXCEPT !.id = i, !.st = "open"]
  <2>1. scm' = scm /\ cache' = cache /\ pr' = pr /\ rec.step = "findopen" /\ o.mts = 0
    BY <1>7, <1>v DEF FindOpen, Justified
  <2>2. \A i \in OpenIds : Truthful(n(i), scm) /\ n(i).id # 0 /\ n(i).mts = 0
    <3> SUFFICES ASSUME NEW i \in OpenIds PROVE Truthful(n(i), scm) /\ n(i).id # 0 /\ n(i).mts = 0
      OBVIOUS
    <3>1. scm[i].st # "none" /\ i # 0
      BY DEF OpenIds, Ids
    <3>2. Truthful(n(i), scm)
      BY <1>0, <2>1, <3>1, TruthOpen
    <3>3. n(i).id = i /\ n(i).mts = 0
      BY <1>0, <2>1 DEF Object
    <3>4. QED
      BY <3>1, <3>2, <3>3
  <2>3. Truthful([o EXCEPT !.st = "merged-or-closed"], scm)
    BY <1>0, <1>v, <2>1 DEF Truthful, Object
  <2> HIDE DEF n
  <2>4. \/ \E i \in OpenIds : Goto("merge", n(i))
        \/ \E i \in OpenIds : \E r : Return(n(i), r)
        \/ o.id = 0 /\ Goto("create", o)
        \/ Return([o EXCEPT !.st = "merged-or-closed"], "later")
    BY <1>7, Zenon DEF FindOpen, n, o
  <2>5. CASE \E i \in OpenIds : Goto("merge", n(i))
    BY <1>0, <1>v, <1>i, <2>1, <2>2, <2>5, GotoEffect DEF Justified
  <2>6. CASE \E i \in OpenIds : \E r : Return(n(i), r)
    BY <1>v, <1>i, <2>1, <2>2, <2>6, ReturnEffect
  <2>7. CASE o.id = 0 /\ Goto("create", o)
    BY <1>0, <1>v, <1>i, <2>1, <2>7, GotoEffect DEF Justified
  <2>8. CASE Return([o EXCEPT !.st = "merged-or-closed"], "later")
    BY <1>v, <1>i, <2>1, <2>3, <2>8, ReturnEffect
  <2>9. QED
    BY <2>4, <2>5, <2>6, <2>7, <2>8
<1>8. CASE createPullRequest
  <2> DEFINE n(i) == [o EXCEPT !.id = i, !.st = "open"]
  <2>1. cache' = cache /\ pr' = pr /\ rec.step = "create" /\ o.mts = 0
    BY <1>8, <1>v DEF createPullRequest, Justified
  <2>2. CASE scm' = scm /\ Return(o, "error")
    BY <1>v, <1>i, <2>1, <2>2, ReturnEffect
  <2>3. ASSUME NEW i \in Ids, scm[i].st = "none", scm' = [scm EXCEPT ![i].st = "open"],
               NEW r, Return(o, r) \/ Return(n(i), r)
        PROVE  PRInv'
    <3>1. Forward(scm, scm') /\ scm'[i].st = "open"
      BY <1>t, <2>3, ScmMoves
    <3>2. Truthful(n(i), scm')
      BY <1>0, <2>1, <3>1, TruthOpen
    <3> HIDE DEF n
    <3>3. QED
      BY <1>c, <1>i, <2>1, <2>3, <3>1, <3>2, ReturnEffect
  <2>4. CASE OpenIds # {} \/ \A i \in Ids : scm[i].st # "none"
    <3>1. scm' = scm /\ Return(o, "error")
      BY <1>8, <2>4 DEF createPullRequest, o
    <3>2. QED
      BY <2>2, <3>1
  <2>5. CASE ~(OpenIds # {} \/ \A i \in Ids : scm[i].st # "none")
    <3>1. PICK i \in Ids :
            /\ \A j \in Ids : j < i <=> scm[j].st # "none"
            /\ scm' = [scm EXCEPT ![i].st = "open"]
            /\ \E r : Return(o, r) \/ Return(n(i), r)
      BY <1>8, <2>5, Zenon DEF createPullRequest, o
    <3>2. scm[i].st = "none"
      BY <3>1 DEF Ids
    <3>3. PICK r : Return(o, r) \/ Return(n(i), r)
      BY <3>1
    <3> HIDE DEF n
    <3>4. QED
      BY <2>3, <3>1, <3>2, <3>3, Zenon
  <2>6. QED
    BY <2>4, <2>5
<1>9. CASE mergePullRequest
  <2> DEFINE n(x) == [o EXCEPT !.st = "merged", !.mts = x]
  <2>1. cache' = cache /\ pr' = pr /\ rec.step = "merge" /\ o.id \in Ids
    BY <1>9, <1>0, <1>v DEF mergePullRequest, Justified, Ids, o
  <2>2. CASE scm[o.id].st # "open" \/ head # o.sha
    <3>1. scm' = scm /\ Return(o, "error")
      BY <1>9, <2>2 DEF mergePullRequest, o
    <3>2. QED
      BY <1>v, <1>i, <2>1, <3>1, ReturnEffect
  <2>3. CASE ~(scm[o.id].st # "open" \/ head # o.sha)
    <3>1. PICK s \in {"merged", "merging"}, x \in {0, o.id} :
            /\ s = "merging" => x = 0
            /\ scm' = [scm EXCEPT ![o.id] = [st |-> s, sha |-> head, by |-> "promoter"]]
            /\ Return(o, "error") \/ Return(n(x), "later")
      BY <1>9, <2>3 DEF mergePullRequest, o
    <3>2. Forward(scm, scm') /\ scm'[o.id].st = s
      BY <1>t, <2>1, <2>3, <3>1, ScmMoves
    <3>3. Truthful(n(x), scm')
      <4>1. o.id # 0
        BY <2>1 DEF Ids
      <4>2. scm'[o.id].st \in {"merging", "merged"} /\ (x # 0 => scm'[o.id].st = "merged")
        BY <3>1, <3>2
      <4>3. QED
        BY <1>0, <4>1, <4>2, <3>1, TruthMerged
    <3> HIDE DEF n
    <3>4. QED
      BY <1>c, <1>i, <2>1, <3>1, <3>2, <3>3, ReturnEffect
  <2>4. QED
    BY <2>2, <2>3
<1>10. CASE HandleReconciliationResult
  <2>1. cache' = cache /\ scm' = scm /\ rec' = Idle /\ pr' \in {StatusApplied, pr}
    BY <1>10 DEF HandleReconciliationResult
  <2>2. SameStatus(o, StatusApplied)
    BY <1>0, Zenon DEF SameStatus, StatusApplied, Object, o
  <2>3. Truthful(StatusApplied, scm)
    BY <1>v, <2>2, TruthSameStatus
  <2>4. QED
    BY <1>v, <1>i, <2>1, <2>3, IdleEffect
<1>11. CASE OwnerApply
  <2>1. PICK spec \in SpecStates, s \in 1 .. head, t \in BOOLEAN, fin \in BOOLEAN :
          ApplyPullRequest(spec, s, t, fin)
    BY <1>11 DEF OwnerApply
  <2>2. cache' = cache /\ scm' = scm /\ rec' = rec
    BY <1>11 DEF OwnerApply
  <2>3. Truthful(pr', scm)
    BY <1>t, <1>v, <2>1, TruthApplied
  <2>4. QED
    BY <1>v, <1>i, <2>2, <2>3 DEF o
<1>12. CASE UserDelete
  <2>1. cache' = cache /\ scm' = scm /\ rec' = rec /\ pr' = Deleted(pr)
    BY <1>12 DEF UserDelete
  <2>2. QED
    BY <1>0, <1>v, <1>i, <2>1, TruthDeleted DEF o
<1>13. ASSUME NEW i \in Ids,
              ExternalMerge(i) \/ ExternalClose(i) \/ CompleteMerge(i) \/ Vanish(i)
       PROVE  PRInv'
  <2>1. cache' = cache /\ pr' = pr /\ rec' = rec
    BY <1>13 DEF ExternalMerge, ExternalClose, CompleteMerge, Vanish, ScmStep
  <2>2. CASE ExternalMerge(i)
    <3>1. /\ scm[i].st = "open"
          /\ scm' = [scm EXCEPT ![i] = [st |-> "merged", sha |-> head, by |-> "external"]]
      BY <2>2 DEF ExternalMerge
    <3>2. Forward(scm, scm')
      BY <1>t, <3>1, ScmMoves
    <3>3. QED
      BY <1>c, <1>i, <1>v, <2>1, <3>2 DEF o
  <2>3. CASE ExternalClose(i) \/ CompleteMerge(i) \/ Vanish(i)
    <3>1. PICK x : /\ \/ scm[i].st = "open" /\ x = "closed"
                      \/ scm[i].st = "merging" /\ x = "merged"
                      \/ scm[i].st = "closed" /\ x = "gone"
                   /\ scm' = [scm EXCEPT ![i].st = x]
      BY <2>3 DEF ExternalClose, CompleteMerge, Vanish, ScmStep
    <3>2. Forward(scm, scm')
      BY <1>t, <3>1, ScmMoves
    <3>3. QED
      BY <1>c, <1>i, <1>v, <2>1, <3>2 DEF o
  <2>4. QED
    BY <1>13, <2>2, <2>3
<1>14. CASE CallFails
  <2>1. cache' = cache /\ scm' = scm /\ pr' = pr /\ Return(o, "error")
    BY <1>14 DEF CallFails, o
  <2>2. QED
    BY <1>v, <1>i, <2>1, ReturnEffect
<1>15. CASE StatusApplyFails \/ Crash
  <2>1. cache' \in {cache, pr} /\ scm' = scm /\ pr' = pr /\ rec' = Idle
    BY <1>15 DEF StatusApplyFails, Crash
  <2>2. QED
    BY <1>v, <1>i, <2>1, IdleEffect
<1>16. CASE RequeueAfter \/ CacheSync \/ EnqueuePR \/ Hydrate \/ OwnerCallFails \/ UNCHANGED prVars
  <2>1. cache' \in {cache, pr} /\ scm' = scm /\ pr' = pr /\ rec' = rec
    BY <1>16 DEF RequeueAfter, CacheSync, EnqueuePR, Hydrate, OwnerCallFails, prVars
  <2>2. QED
    BY <1>v, <1>i, <2>1 DEF o
<1>17. QED
  BY <1>1, <1>2, <1>3, <1>4, <1>5, <1>6, <1>7, <1>8, <1>9, <1>10, <1>11, <1>12, <1>13, <1>14,
     <1>15, <1>16 DEF PRNext, Controller, World, Failure

\* PRInv holds initially, hence always.
LEMMA Invariance == PRSpec => []PRInv
<1>1. PRInit => PRInv
  <2> SUFFICES ASSUME PRInit PROVE PRInv
    OBVIOUS
  <2>1. pr = NoObject /\ cache = NoObject /\ rec = Idle
    BY DEF PRInit
  <2>2. rec.obj = NoObject /\ rec.step = "idle"
    BY <2>1 DEF Idle
  <2>3. QED
    BY <2>1, <2>2, InitType, TruthNoObject DEF PRInv, CopiesTruthful, Justified
<1>2. QED
  BY <1>1, TruthStep, PTL DEF PRSpec

\* The stored status never claims an outcome the SCM does not have, for every
\* number of incarnations, pull requests, commits, spec changes and failures:
\* whichever copy a status write comes from, it said the truth when it was read
\* and the SCM does not take an outcome back.
THEOREM StatusIsTruthful == PRSpec => []StatusTruthful
<1>1. PRInv => StatusTruthful
  BY DEF PRInv, CopiesTruthful, StatusTruthful
<1>2. QED
  BY <1>1, Invariance, PTL

-----------------------------------------------------------------------------
(* The release of the promoter finalizer.                                  *)

\* An apply never takes the promoter finalizer away, so it never removes an
\* object that carries it.
LEMMA ApplyKeeps ==
    ASSUME PRTypeOK, NEW spec, NEW sha, NEW tr, NEW fin,
           ApplyPullRequest(spec, sha, tr, fin), Exists(pr), "promoter" \in pr.fins
    PROVE  pr'.uid = pr.uid
<1> DEFINE new == Applied(spec, sha, tr, fin)
<1>1. pr \in Object
  BY DEF PRTypeOK
<1>2. new.uid = pr.uid
  BY <1>1, Zenon DEF Applied, WithSpec, Object
<1>3. new.fins = IF fin THEN pr.fins \cup {"ctp"} ELSE pr.fins \ {"ctp"}
  BY <1>1, Zenon DEF Applied, WithSpec, Object
<1>4. new.fins # {}
  BY <1>3
<1>5. pr' = Stored(new) \/ pr' = pr
  BY DEF ApplyPullRequest
<1>6. QED
  BY <1>2, <1>4, <1>5 DEF Stored

LEMMA DeleteKeeps ==
    ASSUME NEW o \in Object, "promoter" \in o.fins
    PROVE  Deleted(o).uid = o.uid
<1> DEFINE d == [o EXCEPT !.del = TRUE, !.gen = @ + 1]
<1>1. d.uid = o.uid /\ d.fins = o.fins
  BY Zenon DEF Object
<1>2. d.fins # {}
  BY <1>1
<1> HIDE DEF d
<1>3. Deleted(o) = o \/ Deleted(o) = d
  BY <1>2 DEF Deleted, Stored, d
<1>4. QED
  BY <1>1, <1>3

\* The object leaves the API server only with an outcome on record or without
\* an id, for every bound: the one action that takes the promoter finalizer
\* away works on the very version whose status it found finalized.
THEOREM ReleaseNeedsOutcome == PRSpec => ReleasedOnlyWithOutcome
<1> DEFINE Lost == Exists(pr) /\ pr'.uid # pr.uid /\ "promoter" \in pr.fins
<1>1. ASSUME PRInv, [PRNext]_prVars
      PROVE  [Lost => pullRequestStatusIsFinalized(pr)]_prVars
  <2> SUFFICES ASSUME PRNext, Lost PROVE pullRequestStatusIsFinalized(pr)
    BY <1>1
  <2>0. PRTypeOK /\ pr \in Object /\ pr' # pr
    BY <1>1 DEF PRInv, PRTypeOK
  <2>1. CASE releaseFinalizer
    <3>1. rec.step = "release" /\ rec.obj = pr
      BY <2>0, <2>1 DEF releaseFinalizer
    <3>2. QED
      BY <1>1, <3>1 DEF PRInv, Justified
  <2>2. CASE ensureFinalizer
    <3>1. pr' = [pr EXCEPT !.fins = @ \cup {"promoter"}]
      BY <2>0, <2>2 DEF ensureFinalizer
    <3>2. pr'.uid = pr.uid
      BY <2>0, <3>1 DEF Object
    <3>3. QED
      BY <3>2
  <2>3. CASE HandleReconciliationResult
    <3>1. pr' = StatusApplied
      BY <2>0, <2>3 DEF HandleReconciliationResult
    <3>2. pr'.uid = pr.uid
      BY <2>0, <3>1, Zenon DEF StatusApplied, Object
    <3>3. QED
      BY <3>2
  <2>4. CASE DeleteTerminal \/ UserDelete
    BY <2>0, <2>4, DeleteKeeps DEF DeleteTerminal, UserDelete
  <2>5. CASE OwnerApply
    BY <2>0, <2>5, ApplyKeeps DEF OwnerApply
  <2>6. CASE Reconcile \/ Get \/ closePullRequest \/ FindOpen \/ createPullRequest \/ mergePullRequest
             \/ RequeueAfter \/ CacheSync \/ EnqueuePR \/ Hydrate \/ Failure
    BY <2>0, <2>6, Zenon DEF Reconcile, Get, closePullRequest, FindOpen, createPullRequest, mergePullRequest,
       RequeueAfter, CacheSync, EnqueuePR, Hydrate, Failure, CallFails, StatusApplyFails,
       OwnerCallFails, Crash
  <2>7. CASE \E i \in Ids : ExternalMerge(i) \/ ExternalClose(i) \/ CompleteMerge(i) \/ Vanish(i)
    BY <2>0, <2>7 DEF ExternalMerge, ExternalClose, CompleteMerge, Vanish, ScmStep
  <2>8. QED
    BY <2>1, <2>2, <2>3, <2>4, <2>5, <2>6, <2>7 DEF PRNext, Controller, World
<1>2. QED
  BY <1>1, Invariance, PTL DEF PRSpec, ReleasedOnlyWithOutcome

-----------------------------------------------------------------------------
(* No wake-up is lost.                                                     *)

\* Version p of an incarnation is no older than version o: the generation grows,
\* deletion is final, and a terminating object gains no finalizer.
Follows(o, p) ==
    p.uid = o.uid /\ o.gen <= p.gen /\ (o.del => p.del /\ p.fins \subseteq o.fins)

\* The cache is behind, never ahead; only a live object gets the promoter
\* finalizer.
CacheBehind ==
    /\ pr.uid <= lastUid /\ cache.uid <= lastUid
    /\ pr.del => Exists(pr)
    /\ Exists(pr) /\ cache.uid = pr.uid => Follows(cache, pr)
    /\ rec.step = "ensure" => ~rec.obj.del

\* The watch has something to deliver that it will not lose: these differences
\* between the cache and a terminating object only grow.
Moved ==
    cache.uid # pr.uid \/ cache.gen # pr.gen \/ ~cache.del \/ cache.fins # pr.fins

\* Otherwise the reconcile in flight sees to the object: it will release the
\* finalizer, end in an error, or record an outcome that the cache does not
\* show; or one has just done so.
Attended ==
    \/ rec.step = "idle" /\ ~pullRequestStatusIsFinalized(cache) /\ pullRequestStatusIsFinalized(pr)
    \/ rec.step = "release"
    \/ rec.step \in {"get", "close"} /\ ~pullRequestStatusIsFinalized(cache)
    \/ /\ rec.step = "patch"
       /\ \/ rec.result = "error"
          \/ pullRequestStatusIsFinalized(rec.obj) /\ ~pullRequestStatusIsFinalized(cache)

Terminating == pr.del /\ "promoter" \in pr.fins

AwaitedInv == CacheBehind /\ (Terminating => queued \/ Moved \/ Attended)

\* What a step may do to the stored object: nothing, remove it, write a later
\* version of it, or create one.
Written ==
    \/ pr' = pr /\ lastUid' = lastUid
    \/ pr' = NoObject /\ lastUid' = lastUid
    \/ Follows(pr, pr') /\ (pr'.del => Exists(pr)) /\ lastUid' = lastUid
    \/ ~Exists(pr) /\ pr'.uid = lastUid + 1 /\ ~pr'.del /\ lastUid' = lastUid + 1

LEMMA NoObjectIsNone == NoObject.uid = 0 /\ ~NoObject.del
BY Zenon DEF NoObject

LEMMA FollowsFins ==
    ASSUME NEW o \in Object, NEW f, o.del => f \subseteq o.fins
    PROVE  Follows(o, [o EXCEPT !.fins = f])
<1> DEFINE p == [o EXCEPT !.fins = f]
<1>1. p.uid = o.uid /\ p.gen = o.gen /\ p.del = o.del /\ p.fins = f
  BY Zenon DEF Object
<1>2. o.gen \in Nat
  BY FieldType
<1> HIDE DEF p
<1>3. Follows(o, p)
  BY <1>1, <1>2 DEF Follows
<1>4. QED
  BY <1>3 DEF p

LEMMA FollowsDeleted ==
    ASSUME PRTypeOK, pr' = Deleted(pr)
    PROVE  pr' = pr \/ pr' = NoObject \/ (Exists(pr) /\ Follows(pr, pr'))
<1> DEFINE d == [pr EXCEPT !.del = TRUE, !.gen = @ + 1]
<1>0. pr \in Object
  BY DEF PRTypeOK
<1>1. d.uid = pr.uid /\ d.gen = pr.gen + 1 /\ d.del /\ d.fins = pr.fins
  BY <1>0, Zenon DEF Object
<1>2. pr.gen \in Nat
  BY <1>0, FieldType
<1> HIDE DEF d
<1>3. Follows(pr, d)
  BY <1>1, <1>2 DEF Follows
<1>4. pr' = pr \/ (Exists(pr) /\ pr' = Stored(d))
  BY DEF Deleted, d
<1>5. QED
  BY <1>3, <1>4 DEF Stored

LEMMA FollowsStatus ==
    ASSUME PRTypeOK
    PROVE  Follows(pr, StatusApplied) /\ StatusApplied.uid = pr.uid
<1>0. pr \in Object
  BY DEF PRTypeOK
<1> DEFINE n == StatusApplied
<1>1. n.uid = pr.uid /\ n.gen = pr.gen /\ n.del = pr.del /\ n.fins = pr.fins
  BY <1>0, Zenon DEF StatusApplied, Object
<1>2. pr.gen \in Nat
  BY <1>0, FieldType
<1> HIDE DEF n
<1>3. Follows(pr, n) /\ n.uid = pr.uid
  BY <1>1, <1>2 DEF Follows
<1>4. QED
  BY <1>3 DEF n

LEMMA FollowsApply ==
    ASSUME PRTypeOK, NEW spec, NEW sha, NEW tr, NEW fin, ApplyPullRequest(spec, sha, tr, fin)
    PROVE  Written
<1> DEFINE new == Applied(spec, sha, tr, fin)
<1>0. pr \in Object /\ pr.gen \in Nat
  BY FieldType DEF PRTypeOK
<1>1. CASE ~ApplyAccepted(new)
  BY <1>1 DEF ApplyPullRequest, Written
<1>2. CASE ApplyAccepted(new) /\ Exists(pr)
  <2>1. pr' = Stored(new) /\ lastUid' = lastUid
    BY <1>2 DEF ApplyPullRequest
  <2>2. new.uid = pr.uid /\ new.del = pr.del
    BY <1>0, <1>2, Zenon DEF Applied, WithSpec, Object
  <2>3. new.gen = pr.gen \/ new.gen = pr.gen + 1
    BY <1>0, <1>2, Zenon DEF Applied, WithSpec, Object
  <2>4. pr.del => new.fins \subseteq pr.fins
    BY <1>2 DEF ApplyAccepted
  <2> HIDE DEF new
  <2>5. Follows(pr, new)
    BY <1>0, <2>2, <2>3, <2>4 DEF Follows
  <2>6. QED
    BY <1>2, <2>1, <2>5 DEF Stored, Written
<1>3. CASE ApplyAccepted(new) /\ ~Exists(pr)
  <2>1. new.uid = lastUid + 1 /\ ~new.del
    BY <1>3, Zenon DEF Applied, NoObject
  <2>2. pr' = Stored(new) /\ lastUid' = new.uid
    BY <1>3 DEF ApplyPullRequest
  <2> HIDE DEF new
  <2>3. pr' = new
    BY <2>1, <2>2 DEF Stored
  <2>4. QED
    BY <1>3, <2>1, <2>2, <2>3 DEF Written
<1>4. QED
  BY <1>1, <1>2, <1>3

LEMMA WriteStep == PRInv /\ CacheBehind /\ [PRNext]_prVars => Written
<1> SUFFICES ASSUME PRInv, CacheBehind, [PRNext]_prVars PROVE Written
  OBVIOUS
<1>0. PRTypeOK /\ pr \in Object
  BY DEF PRInv, PRTypeOK
<1>1. CASE ensureFinalizer
  <2>1. lastUid' = lastUid
    BY <1>1 DEF ensureFinalizer
  <2>2. CASE rec.obj = pr
    <3>1. pr' = [pr EXCEPT !.fins = pr.fins \cup {"promoter"}]
      BY <1>1, <2>2 DEF ensureFinalizer
    <3>2. ~pr.del
      BY <1>1, <2>2 DEF ensureFinalizer, CacheBehind
    <3>3. Follows(pr, pr')
      BY <1>0, <3>1, <3>2, FollowsFins
    <3>4. pr'.del = pr.del
      BY <1>0, <3>1, Zenon DEF Object
    <3>5. QED
      BY <2>1, <3>2, <3>3, <3>4 DEF Written
  <2>3. CASE rec.obj # pr
    BY <1>1, <2>1, <2>3 DEF ensureFinalizer, Written
  <2>4. QED
    BY <2>2, <2>3
<1>2. CASE releaseFinalizer
  <2> DEFINE n == [pr EXCEPT !.fins = pr.fins \ {"promoter"}]
  <2>1. lastUid' = lastUid /\ (pr' = Stored(n) \/ pr' = pr)
    BY <1>2 DEF releaseFinalizer
  <2>2. Follows(pr, n) /\ n.del = pr.del
    BY <1>0, FollowsFins DEF Object
  <2> HIDE DEF n
  <2>3. QED
    BY <2>1, <2>2 DEF Stored, Written, CacheBehind
<1>3. CASE DeleteTerminal \/ UserDelete
  <2>1. lastUid' = lastUid /\ pr' = Deleted(pr)
    BY <1>3 DEF DeleteTerminal, UserDelete
  <2>2. QED
    BY <1>0, <2>1, FollowsDeleted DEF Written
<1>4. CASE HandleReconciliationResult
  <2>1. lastUid' = lastUid /\ (pr' = pr \/ (Exists(pr) /\ pr' = StatusApplied))
    BY <1>4 DEF HandleReconciliationResult
  <2>2. QED
    BY <1>0, <2>1, FollowsStatus DEF Written
<1>5. CASE OwnerApply
  BY <1>0, <1>5, FollowsApply DEF OwnerApply
<1>6. CASE Reconcile \/ Get \/ closePullRequest \/ FindOpen \/ createPullRequest \/ mergePullRequest
           \/ RequeueAfter \/ CacheSync \/ EnqueuePR \/ Hydrate \/ Failure
  <2>1. pr' = pr /\ lastUid' = lastUid
    BY <1>6, Zenon DEF Reconcile, Get, closePullRequest, FindOpen, createPullRequest, mergePullRequest,
       RequeueAfter, CacheSync, EnqueuePR, Hydrate, Failure, CallFails, StatusApplyFails,
       OwnerCallFails, Crash
  <2>2. QED
    BY <2>1 DEF Written
<1>7. CASE \E i \in Ids : ExternalMerge(i) \/ ExternalClose(i) \/ CompleteMerge(i) \/ Vanish(i)
  BY <1>7 DEF ExternalMerge, ExternalClose, CompleteMerge, Vanish, ScmStep, Written
<1>8. CASE UNCHANGED prVars
  BY <1>8 DEF prVars, Written
<1>9. QED
  BY <1>1, <1>2, <1>3, <1>4, <1>5, <1>6, <1>7, <1>8 DEF PRNext, Controller, World

\* The steps that reach the cache.
LEMMA CacheMoves ==
    [PRNext]_prVars => cache' = cache \/ (cache' = pr /\ pr' = pr)
<1> SUFFICES ASSUME [PRNext]_prVars PROVE cache' = cache \/ (cache' = pr /\ pr' = pr)
  OBVIOUS
<1>1. CASE CacheSync \/ Crash
  BY <1>1 DEF CacheSync, Crash
<1>2. CASE Controller
  BY <1>2, Zenon DEF Controller, Reconcile, ensureFinalizer, releaseFinalizer, DeleteTerminal, Get,
     closePullRequest, FindOpen, createPullRequest, mergePullRequest, HandleReconciliationResult,
     RequeueAfter
<1>3. CASE World
  BY <1>3, Zenon DEF World, OwnerApply, EnqueuePR, UserDelete, Hydrate, ExternalMerge, ExternalClose,
     CompleteMerge, Vanish, ScmStep
<1>4. CASE CallFails \/ StatusApplyFails \/ OwnerCallFails \/ UNCHANGED prVars
  BY <1>4 DEF CallFails, StatusApplyFails, OwnerCallFails, prVars
<1>5. QED
  BY <1>1, <1>2, <1>3, <1>4 DEF PRNext, Failure

\* The finalizer is ensured only on a copy that is live.
LEMMA EnsureStep ==
    PRTypeOK /\ CacheBehind /\ [PRNext]_prVars => (rec'.step = "ensure" => ~rec'.obj.del)
<1> SUFFICES ASSUME PRTypeOK, CacheBehind, [PRNext]_prVars, rec'.step = "ensure"
             PROVE  ~rec'.obj.del
  OBVIOUS
<1>t. rec \in RecType
  BY DEF PRTypeOK
<1>r. ASSUME NEW o, NEW r, Return(o, r) PROVE FALSE
  BY <1>r, ReturnEffect
<1>g. ASSUME NEW s \in {"close", "merge", "create"}, NEW o, Goto(s, o) PROVE FALSE
  BY <1>g, <1>t, GotoEffect
<1>i. rec' # Idle
  BY DEF Idle
<1>u. rec' = rec => ~rec'.obj.del
  BY DEF CacheBehind
<1>1. CASE Reconcile
  <2>1. CASE Exists(cache)
    <3>1. PICK x \in FirstStep(cache) : rec'.step = x /\ rec'.obj = cache
      BY <1>1, <2>1 DEF Reconcile
    <3>2. QED
      BY <3>1 DEF FirstStep, AfterEnsure, pullRequestIsTerminating
  <2>2. CASE ~Exists(cache)
    BY <1>1, <1>u, <2>2 DEF Reconcile
  <2>3. QED
    BY <2>1, <2>2
<1>2. CASE ensureFinalizer
  <2>1. CASE rec.obj = pr
    <3> DEFINE o == [pr EXCEPT !.fins = @ \cup {"promoter"}]
    <3>1. PICK x \in AfterEnsure(o) : rec'.step = x
      BY <1>2, <2>1 DEF ensureFinalizer
    <3>2. QED
      BY <3>1 DEF AfterEnsure
  <2>2. CASE rec.obj # pr
    BY <1>2, <1>r, <2>2 DEF ensureFinalizer
  <2>3. QED
    BY <2>1, <2>2
<1>3. CASE releaseFinalizer \/ DeleteTerminal \/ closePullRequest \/ CallFails
  BY <1>3, <1>r, Zenon DEF releaseFinalizer, DeleteTerminal, closePullRequest, CallFails
<1>4. CASE Get
  BY <1>4, <1>r, <1>g, Zenon DEF Get
<1>5. CASE FindOpen
  BY <1>5, <1>r, <1>g, Zenon DEF FindOpen
<1>6. CASE createPullRequest
  BY <1>6, <1>r, Zenon DEF createPullRequest
<1>7. CASE mergePullRequest
  BY <1>7, <1>r, Zenon DEF mergePullRequest
<1>8. CASE HandleReconciliationResult \/ StatusApplyFails \/ Crash
  BY <1>8, <1>i DEF HandleReconciliationResult, StatusApplyFails, Crash
<1>9. CASE RequeueAfter \/ CacheSync \/ OwnerCallFails \/ World \/ UNCHANGED prVars
  <2>1. rec' = rec
    BY <1>9, Zenon DEF RequeueAfter, CacheSync, OwnerCallFails, prVars, World, OwnerApply, EnqueuePR,
       UserDelete, Hydrate, ExternalMerge, ExternalClose, CompleteMerge, Vanish, ScmStep
  <2>2. QED
    BY <1>u, <2>1
<1>10. QED
  BY <1>1, <1>2, <1>3, <1>4, <1>5, <1>6, <1>7, <1>8, <1>9 DEF PRNext, Controller, Failure

LEMMA BehindStep == PRInv /\ CacheBehind /\ [PRNext]_prVars => CacheBehind'
<1> SUFFICES ASSUME PRInv, CacheBehind, [PRNext]_prVars PROVE CacheBehind'
  OBVIOUS
<1>0. /\ pr.uid \in Nat /\ cache.uid \in Nat /\ lastUid \in Nat
      /\ pr.gen \in Nat /\ cache.gen \in Nat /\ pr'.gen \in Nat
  <2>1. PRTypeOK /\ PRTypeOK'
    BY TypeStep DEF PRInv
  <2>2. pr \in Object /\ cache \in Object /\ pr' \in Object /\ lastUid \in 0 .. MaxUid
    BY <2>1 DEF PRTypeOK
  <2>3. QED
    BY <2>2, FieldType
<1>1. Written /\ (cache' = cache \/ (cache' = pr /\ pr' = pr))
  BY WriteStep, CacheMoves
<1>2. rec'.step = "ensure" => ~rec'.obj.del
  BY EnsureStep DEF PRInv
<1>3. CASE cache' = pr /\ pr' = pr
  <2>1. lastUid' >= lastUid
    BY <1>0, <1>1 DEF Written
  <2>2. Follows(cache, pr)'
    BY <1>0, <1>3 DEF Follows
  <2>3. pr'.uid <= lastUid' /\ cache'.uid <= lastUid'
    <3>1. pr.uid <= lastUid
      BY DEF CacheBehind
    <3>2. lastUid' \in Nat
      BY <1>0, <1>1 DEF Written
    <3>3. QED
      BY <1>0, <1>3, <2>1, <3>1, <3>2
  <2>4. pr'.del => Exists(pr)'
    BY <1>3 DEF CacheBehind, Exists
  <2>5. QED
    BY <1>2, <2>2, <2>3, <2>4 DEF CacheBehind
<1>4. CASE cache' = cache /\ pr' = pr /\ lastUid' = lastUid
  BY <1>2, <1>4 DEF CacheBehind, Exists, Follows
<1>5. CASE cache' = cache /\ pr' = NoObject /\ lastUid' = lastUid
  BY <1>0, <1>2, <1>5, NoObjectIsNone DEF CacheBehind, Exists
<1>6. CASE cache' = cache /\ Follows(pr, pr') /\ (pr'.del => Exists(pr)) /\ lastUid' = lastUid
  <2>1. pr'.uid = pr.uid
    BY <1>6 DEF Follows
  <2>2. ASSUME Exists(pr), cache.uid = pr.uid PROVE Follows(cache, pr')
    <3>1. Follows(cache, pr)
      BY <2>2 DEF CacheBehind
    <3>2. QED
      BY <1>0, <1>6, <3>1 DEF Follows
  <2>3. QED
    BY <1>2, <1>6, <2>1, <2>2 DEF CacheBehind, Exists
<1>7. CASE cache' = cache /\ ~Exists(pr) /\ pr'.uid = lastUid + 1 /\ ~pr'.del /\ lastUid' = lastUid + 1
  BY <1>0, <1>2, <1>7 DEF CacheBehind, Exists
<1>8. QED
  BY <1>1, <1>3, <1>4, <1>5, <1>6, <1>7 DEF Written

\* A difference the watch has to deliver stays one; and what was not terminating
\* differs from the cache once it is.
LEMMA MovedStays ==
    ASSUME PRInv, CacheBehind, Written, cache' = cache, PRTypeOK', Terminating', ~Moved'
    PROVE  Terminating /\ ~Moved
<1>0. pr.gen \in Nat /\ cache.gen \in Nat /\ pr'.gen \in Nat /\ pr.uid \in Nat /\ cache.uid \in Nat /\ lastUid \in Nat
  <2>1. pr \in Object /\ cache \in Object /\ pr' \in Object /\ lastUid \in 0 .. MaxUid
    BY DEF PRTypeOK, PRInv
  <2>2. QED
    BY <2>1, FieldType
<1>1. pr'.del /\ "promoter" \in pr'.fins
  BY DEF Terminating
<1>2. cache.uid = pr'.uid /\ cache.gen = pr'.gen /\ cache.del /\ cache.fins = pr'.fins
  BY DEF Moved
<1>3. CASE pr' = pr
  BY <1>1, <1>2, <1>3 DEF Terminating, Moved
<1>4. CASE Follows(pr, pr') /\ (pr'.del => Exists(pr))
  <2>1. Follows(cache, pr) /\ pr.uid = cache.uid
    BY <1>1, <1>2, <1>4 DEF CacheBehind, Follows
  <2>2. pr.del /\ pr'.fins \subseteq pr.fins /\ pr.fins \subseteq cache.fins
    BY <1>2, <1>4, <2>1 DEF Follows
  <2>3. pr.gen = cache.gen
    BY <1>0, <1>2, <1>4, <2>1 DEF Follows
  <2>4. QED
    BY <1>1, <1>2, <2>1, <2>2, <2>3 DEF Terminating, Moved
<1>5. CASE pr' = NoObject \/ ~pr'.del
  BY <1>1, <1>5, NoObjectIsNone
<1>6. QED
  BY <1>3, <1>4, <1>5 DEF Written

\* Whether a status is finalized depends on the status only.
LEMMA FinalizedSame ==
    ASSUME NEW o, NEW p, SameStatus(o, p)
    PROVE  pullRequestStatusIsFinalized(p) = pullRequestStatusIsFinalized(o)
BY DEF SameStatus, pullRequestStatusIsFinalized

\* What the owner and a delete leave of an object has the status it had.
LEMMA DeletedSame ==
    ASSUME PRTypeOK, pr' = Deleted(pr), pr'.del
    PROVE  SameStatus(pr, pr')
<1> DEFINE d == [pr EXCEPT !.del = TRUE, !.gen = @ + 1]
<1>0. pr \in Object
  BY DEF PRTypeOK
<1>1. SameStatus(pr, d)
  BY <1>0, Zenon DEF SameStatus, Object
<1>2. SameStatus(pr, pr)
  BY DEF SameStatus
<1> HIDE DEF d
<1>3. pr' = pr \/ pr' = d \/ pr' = NoObject
  BY DEF Deleted, Stored, d
<1>4. QED
  BY <1>1, <1>2, <1>3, NoObjectIsNone

LEMMA AppliedSame ==
    ASSUME PRTypeOK, NEW spec, NEW sha, NEW tr, NEW fin, ApplyPullRequest(spec, sha, tr, fin),
           pr'.del
    PROVE  SameStatus(pr, pr')
<1> DEFINE new == Applied(spec, sha, tr, fin)
<1>0. pr \in Object
  BY DEF PRTypeOK
<1>1. pr' = Stored(new) \/ pr' = pr
  BY DEF ApplyPullRequest
<1>2. SameStatus(pr, pr)
  BY DEF SameStatus
<1>3. CASE Exists(pr)
  <2>1. SameStatus(pr, new)
    BY <1>0, <1>3, Zenon DEF Applied, WithSpec, SameStatus, Object
  <2> HIDE DEF new
  <2>2. QED
    BY <1>1, <1>2, <2>1, NoObjectIsNone DEF Stored
<1>4. CASE ~Exists(pr)
  <2>1. ~new.del
    BY <1>4, Zenon DEF Applied, NoObject
  <2> HIDE DEF new
  <2>2. pr' = pr
    BY <1>1, <2>1, NoObjectIsNone DEF Stored
  <2>3. QED
    BY <1>2, <2>2
<1>5. QED
  BY <1>3, <1>4

\* What the watch predicates make of a terminating object.
LEMMA MovedEnqueues ==
    ASSUME Terminating
    PROVE  /\ Moved => Enqueues(cache, pr)
           /\ ~pullRequestStatusIsFinalized(cache) /\ pullRequestStatusIsFinalized(pr)
                 => Enqueues(cache, pr)
BY DEF Terminating, Moved, Enqueues, pullRequestIsTerminating

\* The induction step: one case per action that can end what sees to the object.
LEMMA AwaitedStep == PRInv /\ AwaitedInv /\ [PRNext]_prVars => AwaitedInv'
<1> SUFFICES ASSUME PRInv, AwaitedInv, [PRNext]_prVars, Terminating', ~queued', ~Moved'
             PROVE  Attended'
  BY BehindStep DEF AwaitedInv
<1> DEFINE o == rec.obj
           Fin(x) == pullRequestStatusIsFinalized(x)
<1>t. PRTypeOK /\ PRTypeOK' /\ CacheBehind /\ Written /\ o \in Object /\ rec \in RecType
  BY TypeStep, WriteStep DEF PRInv, AwaitedInv, PRTypeOK, RecType
<1>q. queued \in BOOLEAN
  BY <1>t DEF PRTypeOK
<1>k. ASSUME cache' = cache, queued => queued' PROVE Terminating /\ Attended
  BY <1>k, <1>t, <1>q, MovedStays DEF AwaitedInv
<1>e. ASSUME NEW x, Return(x, "error") PROVE Attended'
  BY <1>e DEF Return, Attended
<1>d. ASSUME NEW x, NEW r, Return(x, r), Fin(x), ~Fin(cache), cache' = cache PROVE Attended'
  BY <1>d DEF Return, Attended
<1>1. CASE Reconcile
  <2>1. cache' = cache /\ pr' = pr
    BY <1>1 DEF Reconcile
  <2>2. cache.del /\ "promoter" \in cache.fins /\ cache.uid = pr.uid /\ Exists(pr)
    BY <1>t, <2>1 DEF Terminating, Moved, CacheBehind
  <2>3. PICK x \in FirstStep(cache) : rec'.step = x
    BY <1>1, <2>2 DEF Reconcile, Exists
  <2>4. x = "release" \/ (x = "get" /\ ~Fin(cache))
    BY <2>2, <2>3 DEF FirstStep, pullRequestIsTerminating
  <2>5. QED
    BY <2>1, <2>3, <2>4 DEF Attended
<1>2. CASE ensureFinalizer \/ DeleteTerminal \/ FindOpen \/ createPullRequest \/ mergePullRequest
  <2>1. cache' = cache /\ queued' = queued
    BY <1>2, Zenon DEF ensureFinalizer, DeleteTerminal, FindOpen, createPullRequest, mergePullRequest
  <2>2. rec.step \in {"ensure", "delete", "findopen", "create", "merge"}
    BY <1>2, Zenon DEF ensureFinalizer, DeleteTerminal, FindOpen, createPullRequest, mergePullRequest
  <2>3. Attended
    BY <1>k, <2>1
  <2>4. QED
    BY <2>2, <2>3 DEF Attended
<1>3. CASE releaseFinalizer
  <2>1. CASE rec.obj = pr
    <3> DEFINE n == [pr EXCEPT !.fins = @ \ {"promoter"}]
    <3>1. pr' = Stored(n)
      BY <1>3, <2>1 DEF releaseFinalizer
    <3>2. "promoter" \notin n.fins
      BY <1>t, <2>1, Zenon DEF Object
    <3> HIDE DEF n
    <3>3. QED
      BY <3>1, <3>2, NoObjectIsNone DEF Stored, Terminating
  <2>2. CASE rec.obj # pr
    BY <1>3, <1>e, <2>2 DEF releaseFinalizer
  <2>3. QED
    BY <2>1, <2>2
<1>4. CASE Get
  <2>1. cache' = cache /\ queued' = queued /\ rec.step = "get"
    BY <1>4 DEF Get
  <2>2. ~Fin(cache)
    BY <1>k, <2>1 DEF Attended
  <2>3. o.id # 0
    BY <2>1 DEF PRInv, Justified
  <2>4. Fin([o EXCEPT !.st = "unknown"]) /\ Fin([o EXCEPT !.st = "closed"])
    BY <1>t DEF pullRequestStatusIsFinalized, Object
  <2>5. Fin([o EXCEPT !.st = "merged", !.mts = o.id])
    BY <1>t, <2>3 DEF pullRequestStatusIsFinalized, Object
  <2>6. \/ \E x : Return(x, "error")
        \/ \E x : Fin(x) /\ Return(x, "done")
        \/ Goto("close", o)
    <3> HIDE DEF Fin
    <3>1. QED
      BY <1>4, <2>4, <2>5, Zenon DEF Get
  <2>7. CASE Goto("close", o)
    <3>1. rec'.step = "close"
      BY <1>t, <2>7, GotoEffect
    <3>2. QED
      BY <2>1, <2>2, <3>1 DEF Attended
  <2> HIDE DEF Fin
  <2>8. QED
    BY <1>e, <1>d, <2>1, <2>2, <2>6, <2>7
<1>5. CASE closePullRequest
  <2>1. cache' = cache /\ queued' = queued /\ rec.step = "close"
    BY <1>5 DEF closePullRequest
  <2>2. ~Fin(cache)
    BY <1>k, <2>1 DEF Attended
  <2>3. Fin([o EXCEPT !.st = "closed"])
    BY <1>t DEF pullRequestStatusIsFinalized, Object
  <2>4. (\E x : Return(x, "error")) \/ Return([o EXCEPT !.st = "closed"], "done")
    BY <1>5, Zenon DEF closePullRequest
  <2> HIDE DEF Fin
  <2>5. QED
    BY <1>e, <1>d, <2>1, <2>2, <2>3, <2>4
<1>6. CASE HandleReconciliationResult
  <2>1. cache' = cache /\ rec' = Idle /\ (queued => queued') /\ rec.step = "patch"
    BY <1>6 DEF HandleReconciliationResult
  <2>2. Terminating /\ Attended
    BY <1>k, <2>1
  <2>3. rec.result # "error" /\ pr' = StatusApplied
    <3>1. Exists(pr)
      BY <1>t, <2>2 DEF Terminating, CacheBehind
    <3>2. QED
      BY <1>6, <3>1 DEF HandleReconciliationResult
  <2>4. Fin(o) /\ ~Fin(cache)
    BY <2>1, <2>2, <2>3 DEF Attended
  <2>5. SameStatus(o, pr')
    BY <1>t, <2>3, Zenon DEF SameStatus, StatusApplied, Object, PRTypeOK
  <2>6. Fin(pr')
    BY <2>4, <2>5, FinalizedSame
  <2>7. rec'.step = "idle"
    BY <2>1 DEF Idle
  <2>8. QED
    BY <2>1, <2>4, <2>6, <2>7 DEF Attended
<1>7. CASE CallFails
  BY <1>7, <1>e DEF CallFails
<1>8. CASE CacheSync
  <2>1. cache' = pr /\ pr' = pr /\ rec' = rec /\ ~queued /\ ~Enqueues(cache, pr)
    BY <1>8 DEF CacheSync
  <2>2. Terminating
    BY <2>1 DEF Terminating
  <2>3. Attended /\ ~(~Fin(cache) /\ Fin(pr))
    BY <2>1, <2>2, MovedEnqueues DEF AwaitedInv
  <2>4. QED
    BY <2>1, <2>3 DEF Attended
<1>9. CASE StatusApplyFails \/ Crash \/ RequeueAfter \/ EnqueuePR
  BY <1>9 DEF StatusApplyFails, Crash, RequeueAfter, EnqueuePR
<1>10. ASSUME cache' = cache, queued' = queued, rec' = rec, SameStatus(pr, pr') PROVE Attended'
  <2>1. Attended /\ (Fin(pr') = Fin(pr))
    BY <1>k, <1>10, FinalizedSame
  <2>2. QED
    BY <1>10, <2>1 DEF Attended
<1>11. CASE OwnerApply
  <2>1. cache' = cache /\ queued' = queued /\ rec' = rec
    BY <1>11 DEF OwnerApply
  <2>2. SameStatus(pr, pr')
    BY <1>t, <1>11, AppliedSame DEF OwnerApply, Terminating
  <2>3. QED
    BY <1>10, <2>1, <2>2
<1>12. CASE UserDelete
  <2>1. cache' = cache /\ queued' = queued /\ rec' = rec /\ pr' = Deleted(pr)
    BY <1>12 DEF UserDelete
  <2>2. SameStatus(pr, pr')
    BY <1>t, <2>1, DeletedSame DEF Terminating
  <2>3. QED
    BY <1>10, <2>1, <2>2
<1>13. CASE Hydrate \/ OwnerCallFails \/ UNCHANGED prVars
  <2>1. cache' = cache /\ queued' = queued /\ rec' = rec /\ pr' = pr
    BY <1>13 DEF Hydrate, OwnerCallFails, prVars
  <2>2. QED
    BY <1>10, <2>1 DEF SameStatus
<1>14. CASE \E i \in Ids : ExternalMerge(i) \/ ExternalClose(i) \/ CompleteMerge(i) \/ Vanish(i)
  <2>1. cache' = cache /\ queued' = queued /\ rec' = rec /\ pr' = pr
    BY <1>14 DEF ExternalMerge, ExternalClose, CompleteMerge, Vanish, ScmStep
  <2>2. QED
    BY <1>10, <2>1 DEF SameStatus
<1>15. QED
  BY <1>1, <1>2, <1>3, <1>4, <1>5, <1>6, <1>7, <1>8, <1>9, <1>11, <1>12, <1>13, <1>14
  DEF PRNext, Controller, World, Failure

LEMMA AwaitedInvariance == PRSpec => []AwaitedInv
<1>1. PRInit => AwaitedInv
  <2> SUFFICES ASSUME PRInit PROVE AwaitedInv
    OBVIOUS
  <2>1. pr = NoObject /\ cache = NoObject /\ rec = Idle /\ lastUid = 0
    BY DEF PRInit
  <2>2. pr.uid = 0 /\ ~pr.del /\ cache.uid = 0 /\ rec.step = "idle"
    BY <2>1, NoObjectIsNone DEF Idle
  <2>3. QED
    BY <2>1, <2>2 DEF AwaitedInv, CacheBehind, Exists, Terminating
<1>2. QED
  BY <1>1, Invariance, AwaitedStep, PTL DEF PRSpec

\* While a terminating object carries the promoter finalizer something is under
\* way that will look at it again, for every bound: whatever the watch has yet to
\* deliver is not overtaken, and a reconcile that finds nothing to deliver works
\* on what the cache still shows, so that what it records is delivered in turn.
THEOREM NoLostWakeup == PRSpec => []NotForgotten
<1>1. AwaitedInv => NotForgotten
  <2> SUFFICES ASSUME AwaitedInv, Terminating, ~queued, rec.step = "idle"
               PROVE  Enqueues(cache, pr)
    BY DEF NotForgotten, Terminating
  <2>1. Moved \/ Attended
    BY DEF AwaitedInv
  <2>2. QED
    BY <2>1, MovedEnqueues DEF Attended
<1>2. QED
  BY <1>1, AwaitedInvariance, PTL
=============================================================================
