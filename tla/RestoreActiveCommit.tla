------------------------ MODULE RestoreActiveCommit ------------------------
(***************************************************************************)
(* Rolling back one environment: RestoreActiveCommit objects, their        *)
(* controller, the active branch with its promotion-history notes, and the *)
(* part of the ChangeTransferPolicy reconcile that honours a restore.      *)
(*                                                                         *)
(* Every commit of the active branch is an index of the sequence branch,   *)
(* so "ancestor of" is "smaller than".  A tree is named by the dry commit  *)
(* it was hydrated from.  Hydrated commits of the proposed branch are      *)
(* numbered in order; Renders gives the dry commit of each.  An object is  *)
(* named after the commit it restores, as the dashboard's command and the  *)
(* policy name it.                                                         *)
(*                                                                         *)
(* A reconcile of an object is a sequence of steps, one per call that      *)
(* leaves the process, on a copy read from the informer cache; it always   *)
(* ends by applying the status of that copy, addressed by name.  Different *)
(* objects are reconciled concurrently, one object by one worker.          *)
(*                                                                         *)
(* The pull request is reduced to what the hold is about: none, open, or   *)
(* open with a recorded intent to merge (ChangeTransferPolicy and          *)
(* PullRequest have the controllers' own steps).                           *)
(* The proposed commit statuses always pass.  Not modelled: activePath,    *)
(* commit messages and trailers, owner references, the Ready condition.    *)
(***************************************************************************)
EXTENDS Integers, Sequences, FiniteSets

CONSTANTS Renders,     \* dry commit of each hydrated commit
          Past,        \* hydrated commits promoted before the start
          MaxCommits,  \* commits on the active branch
          Targets,     \* commits that users may restore, or ask to
          Workers,     \* objects reconciled at once
          MaxActs,     \* what users do to RestoreActiveCommit objects
          MaxMoves,    \* what users do to the branch
          MaxFails,    \* failed calls and crashes
          MaxLags      \* reconciles that start on a stale copy

ASSUME RestoreAssumption ==
    /\ Renders \in Seq(Nat \ {0})
    /\ Past \in 1 .. Len(Renders) /\ MaxCommits \in Nat /\ Past <= MaxCommits
    /\ Targets \subseteq 1 .. MaxCommits + 1 /\ Workers \in Nat
    /\ MaxActs \in Nat /\ MaxMoves \in Nat /\ MaxFails \in Nat /\ MaxLags \in Nat

Commits == 1 .. MaxCommits

Dries == {Renders[h] : h \in 1 .. Len(Renders)}

\* A commit: the hydrated commit it merged and its tree; for a restore, hyd is
\* 0 and from is the commit it restores (Promoter-restored-from).
Commit == [hyd: 0 .. Len(Renders), dry: Dries, from: 0 .. MaxCommits]

(***************************************************************************)
(* An object.  st says whether it exists and is terminating; inc tells an  *)
(* incarnation from its predecessor; block is spec.blockEnvironment; from, *)
(* active and blocked are status.restoredFrom, activeSha and blockedDrySha,*)
(* 0 when empty.                                                           *)
(***************************************************************************)
Object ==
    [st: {"none", "live", "del"}, inc: 0 .. 2, fin: BOOLEAN, block: BOOLEAN,
     from: {0} \cup Targets, active: 0 .. MaxCommits, blocked: {0} \cup Dries]

NoObject ==
    [st |-> "none", inc |-> 0, fin |-> FALSE, block |-> TRUE, from |-> 0, active |-> 0, blocked |-> 0]

Steps == {"idle", "add", "look", "push", "stamp", "delete", "release", "patch"}

\* A reconcile: step, working copy, the tip it saw, and whether it ends in an
\* error or a RequeueAfter.
Idle == [step |-> "idle", obj |-> NoObject, tip |-> 0, again |-> FALSE]

PIdle == [busy |-> FALSE, tip |-> 0, free |-> FALSE, head |-> 0]

VARIABLES
    branch,   \* the active branch
    stamped,  \* commits whose note carries Promoter-restore-unblocked-at
    head,     \* tip of the proposed branch
    obj,      \* the objects in the API server, by name
    cache,    \* the informer's copies
    queued,   \* names on the workqueue, now or after a delay
    rec,      \* the reconcile in flight of each name
    pol,      \* the policy's reconcile in flight
    pr,       \* the pull request: none, open, or merging
    waived,   \* history: commits that an object with blockEnvironment false has named
    acts, moves, fails, lags  \* so far

gitVars    == <<branch, stamped>>
apiVars    == <<obj, waived>>
ctlVars    == <<cache, queued, rec>>
policyVars == <<pol, pr>>
counters   == <<acts, moves, fails, lags>>
vars       == <<gitVars, head, apiVars, ctlVars, policyVars, counters>>

-----------------------------------------------------------------------------
(* The branch.                                                             *)

Tip == Len(branch)

\* RestoreBlockState of commit c.
IsRestore(c) == branch[c].from # 0
Holds(c)     == IsRestore(c) /\ c \notin stamped

\* Commit c of the active branch contains hydrated commit h.
Contains(c, h) == \E i \in 1 .. c : branch[i].hyd >= h

Merged(h)    == Append(branch, [hyd |-> h, dry |-> Renders[h], from |-> 0])
Restored(c)  == Append(branch, [hyd |-> 0, dry |-> branch[c].dry, from |-> c])

-----------------------------------------------------------------------------
(* The API server.                                                         *)

Gone(o) == [NoObject EXCEPT !.inc = o.inc]

Deleted(o) == IF o.st = "none" THEN o ELSE IF o.fin THEN [o EXCEPT !.st = "del"] ELSE Gone(o)

Created(o, block) == [NoObject EXCEPT !.st = "live", !.inc = (o.inc + 1) % 3, !.block = block]

\* Watch predicate: generation or existence changed, or deletion began.
Enqueues(o, n) ==
    \/ o.inc # n.inc \/ o.block # n.block
    \/ (o.st = "none") # (n.st = "none")
    \/ o.st # "del" /\ n.st = "del"

Deliver(n) ==
    /\ cache[n] # obj[n]
    /\ cache' = [cache EXCEPT ![n] = obj[n]]
    /\ queued' = [queued EXCEPT ![n] = @ \/ Enqueues(cache[n], obj[n])]
    /\ UNCHANGED <<gitVars, head, apiVars, rec, policyVars, counters>>

-----------------------------------------------------------------------------
(* The RestoreActiveCommit controller.                                     *)

\* The restore was recorded.
Recorded(o) == o.from # 0

\* The status of copy c is applied to whichever object has the name by now.
Apply(n, c) ==
    IF obj[n].st = "none" THEN UNCHANGED apiVars
    ELSE /\ obj' = [obj EXCEPT ![n].from = c.from, ![n].active = c.active, ![n].blocked = c.blocked]
         /\ waived' = IF ~obj[n].block THEN waived \cup {c.active} ELSE waived

\* Mutant: blockEnvironment is only looked at when the object is deleted.
NextStepIgnores(o) == IF ~Recorded(o) THEN "look" ELSE "none"

\* What a live object that carries the finalizer needs.
NextStep(o) ==
    IF ~Recorded(o) THEN "look" ELSE IF o.block THEN "none" ELSE "stamp"

\* Mutant: a terminating object is stamped whatever blockEnvironment says.
FirstStepStamps(o) ==
    CASE o.st = "live" /\ ~o.fin -> "add"
      [] o.st = "live" -> NextStep(o)
      [] o.st = "del" /\ ~o.fin -> "none"
      [] OTHER -> IF Recorded(o) THEN "stamp" ELSE "release"

\* handleFinalizer, and Reconcile up to its first call that matters.
FirstStep(o) ==
    CASE o.st = "live" /\ ~o.fin -> "add"
      [] o.st = "live" -> NextStep(o)
      [] o.st = "del" /\ ~o.fin -> "none"
      [] OTHER -> IF ~o.block /\ Recorded(o) THEN "stamp" ELSE "release"

Reconcile(n) ==
    /\ rec[n].step = "idle" /\ queued[n]
    /\ Cardinality({m \in Targets : rec[m].step # "idle"}) < Workers
    /\ cache[n] # obj[n] => lags < MaxLags
    /\ lags' = IF cache[n] # obj[n] THEN lags + 1 ELSE lags
    /\ IF cache[n].st = "none" \/ FirstStep(cache[n]) = "none"
       THEN /\ UNCHANGED rec
            /\ queued' = [queued EXCEPT ![n] = cache[n].st = "live"]
            /\ IF cache[n].st = "none" THEN UNCHANGED apiVars ELSE Apply(n, cache[n])
       ELSE /\ rec' = [rec EXCEPT ![n] = [Idle EXCEPT !.step = FirstStep(cache[n]), !.obj = cache[n]]]
            /\ queued' = [queued EXCEPT ![n] = FALSE]
            /\ UNCHANGED apiVars
    /\ UNCHANGED <<gitVars, head, cache, policyVars, acts, moves, fails>>

Goto(n, s) == rec' = [rec EXCEPT ![n].step = s]

\* The reconcile ends; only the status of the copy is needed any more.
Ends(n, o, again) ==
    rec' = [rec EXCEPT ![n] = [Idle EXCEPT !.step = "patch", !.again = again,
                                           !.obj = [NoObject EXCEPT !.inc = o.inc, !.from = o.from,
                                                                    !.active = o.active, !.blocked = o.blocked]]]

Errs(n) == Ends(n, rec[n].obj, TRUE)

\* Mutant: restoredFrom is the restore commit, not the commit it restores.
RecordsCommit(n, c, d) ==
    Ends(n, [rec[n].obj EXCEPT !.from = c, !.active = c, !.blocked = d], TRUE)

\* Mutant: nothing is blocked.
RecordsUnblocked(n, c, d) ==
    Ends(n, [rec[n].obj EXCEPT !.from = n, !.active = c], TRUE)

\* Ends with the outcome of the restore: commit c, which blocks dry commit d.
Records(n, c, d) ==
    Ends(n, [rec[n].obj EXCEPT !.from = n, !.active = c, !.blocked = d], TRUE)

\* Update with the finalizer added: refused unless the copy is current.
addFinalizer(n) ==
    /\ rec[n].step = "add"
    /\ IF obj[n] = rec[n].obj
       THEN /\ obj' = [obj EXCEPT ![n].fin = TRUE]
            /\ IF NextStep(obj[n]) = "none" THEN Ends(n, obj[n], TRUE)
               ELSE rec' = [rec EXCEPT ![n].step = NextStep(obj[n]), ![n].obj = obj'[n]]
       ELSE Errs(n) /\ UNCHANGED obj
    /\ UNCHANGED <<gitVars, head, waived, cache, queued, policyVars, counters>>

\* Mutant: a retry does not look for its own restore commit.
RestoreActiveBranchAfresh(n) ==
    /\ rec[n].step = "look"
    /\ IF n > Tip THEN Errs(n)
       ELSE IF IsRestore(n) THEN Errs(n)
       ELSE rec' = [rec EXCEPT ![n].step = "push", ![n].tip = Tip]
    /\ UNCHANGED <<gitVars, head, apiVars, cache, queued, policyVars, counters>>

\* What RestoreActiveBranch asks git about: the target is on the branch, the tip
\* is a restore of it, that restore was released, the target is a restore.
ensureInHistory(n)     == n <= Tip
hasRestoreMarker(n)    == branch[Tip].from = n
RestoreAlreadyReleased == Tip \in stamped
refuseRestoreTarget(n) == IsRestore(n)

\* RestoreActiveBranch up to the push, on one snapshot of branch and notes.
RestoreActiveBranch(n) ==
    /\ rec[n].step = "look"
    /\ IF ~ensureInHistory(n) THEN Errs(n)
       ELSE IF branch[n].dry = branch[Tip].dry
       THEN IF ~hasRestoreMarker(n) THEN Records(n, Tip, 0)
            ELSE IF RestoreAlreadyReleased THEN Goto(n, "delete")
            ELSE Records(n, Tip, branch[Tip - 1].dry)
       ELSE IF refuseRestoreTarget(n) THEN Errs(n)
       ELSE rec' = [rec EXCEPT ![n].step = "push", ![n].tip = Tip]
    /\ UNCHANGED <<gitVars, head, apiVars, cache, queued, policyVars, counters>>

\* Mutant: the push is forced.
pushCommitForced(n) ==
    /\ rec[n].step = "push"
    /\ branch' = Append(SubSeq(branch, 1, rec[n].tip), [hyd |-> 0, dry |-> branch[n].dry, from |-> n])
    /\ Records(n, rec[n].tip + 1, branch[rec[n].tip].dry)
    /\ UNCHANGED <<stamped, head, apiVars, cache, queued, policyVars, counters>>

\* createRestoreCommit: the note, which nothing reads until the commit lands,
\* then the branch, leased against the tip that was seen.  At the bound of the
\* branch every push is refused.
pushCommitWithLease(n) ==
    /\ rec[n].step = "push"
    /\ IF Tip = rec[n].tip /\ Tip < MaxCommits
       THEN branch' = Restored(n) /\ Records(n, Tip + 1, branch[Tip].dry)
       ELSE branch' = branch /\ Errs(n)
    /\ UNCHANGED <<stamped, head, apiVars, cache, queued, policyVars, counters>>

\* The stamp on commit c: one that is no restore gets none.
UnblockRestore(c) == IF IsRestore(c) THEN stamped \cup {c} ELSE stamped

unblockRestoreOnDelete(n) ==
    /\ rec[n].step = "stamp"
    /\ stamped' = UnblockRestore(rec[n].obj.active)
    /\ Goto(n, IF rec[n].obj.st = "live" THEN "delete" ELSE "release")
    /\ UNCHANGED <<branch, head, apiVars, cache, queued, policyVars, counters>>

\* Delete by name, of unblockAndSelfDelete and deleteAlreadyReleased.
selfDelete(n) ==
    /\ rec[n].step = "delete"
    /\ obj' = [obj EXCEPT ![n] = Deleted(@)]
    /\ Ends(n, rec[n].obj, FALSE)
    /\ UNCHANGED <<gitVars, head, waived, cache, queued, policyVars, counters>>

\* Update without the finalizer.
removeFinalizer(n) ==
    /\ rec[n].step = "release"
    /\ IF obj[n] = rec[n].obj
       THEN obj' = [obj EXCEPT ![n] = Gone(@)] /\ Ends(n, rec[n].obj, FALSE)
       ELSE Errs(n) /\ UNCHANGED obj
    /\ UNCHANGED <<gitVars, head, waived, cache, queued, policyVars, counters>>

\* The deferred status apply.
applyStatus(n) ==
    /\ rec[n].step = "patch"
    /\ Apply(n, rec[n].obj)
    /\ queued' = [queued EXCEPT ![n] = @ \/ rec[n].again]
    /\ rec' = [rec EXCEPT ![n] = Idle]
    /\ UNCHANGED <<gitVars, head, cache, policyVars, counters>>

\* Any call may fail; the status as it stands is applied, unless that failed.
CallFails(n) ==
    /\ rec[n].step # "idle" /\ fails < MaxFails
    /\ fails' = fails + 1
    /\ IF rec[n].step = "patch"
       THEN rec' = [rec EXCEPT ![n] = Idle] /\ queued' = [queued EXCEPT ![n] = TRUE]
       ELSE Errs(n) /\ UNCHANGED queued
    /\ UNCHANGED <<gitVars, head, apiVars, cache, policyVars, acts, moves, lags>>

Crash ==
    /\ fails < MaxFails
    /\ fails' = fails + 1
    /\ rec' = [n \in Targets |-> Idle] /\ pol' = PIdle
    /\ cache' = obj /\ queued' = [n \in Targets |-> TRUE]
    /\ UNCHANGED <<gitVars, head, apiVars, pr, acts, moves, lags>>

-----------------------------------------------------------------------------
(* The ChangeTransferPolicy's reconcile: calculateStatus, then the rest.   *)

observe ==
    /\ ~pol.busy
    /\ pol' = [busy |-> TRUE, tip |-> Tip, free |-> Tip \in stamped, head |-> head]
    /\ UNCHANGED <<gitVars, head, apiVars, ctlVars, pr, counters>>

\* restoreActiveCommitsForPolicy: the live objects of the cache.
Listed == {n \in Targets : cache[n].st = "live"}

\* Recorded restores strictly behind the tip.
restoreActiveCommitSuperseded(o) == o.active # 0 /\ o.active < pol.tip

deleteSupersededRestoreActiveCommits ==
    [n \in Targets |-> IF n \in Listed /\ restoreActiveCommitSuperseded(cache[n])
                     THEN Deleted(obj[n]) ELSE obj[n]]

\* Mutant: a restore by hand is nobody's.
ensureNothing(objects) == objects

\* A blocked restore without an object gets one, named after what it restores;
\* a name that is taken is no error.
ensureRestoreActiveCommitForRestoreTip(objects) ==
    LET c == branch[pol.tip].from
    IN  IF Listed = {} /\ c # 0 /\ ~pol.free /\ objects[c].st = "none"
        THEN [objects EXCEPT ![c] = Created(@, TRUE)]
        ELSE objects

evaluateRevertGate ==
    IF \E n \in Listed : ~Recorded(cache[n]) THEN "pending"
    ELSE IF ~IsRestore(pol.tip) THEN "none"
    ELSE IF pol.free THEN "released" ELSE "held"

skipPullRequestAfterRevert ==
    \/ evaluateRevertGate = "pending"
    \/ evaluateRevertGate = "held" /\ branch[pol.tip - 1].dry = Renders[pol.head]
    \/ IsRestore(pol.tip) /\ Contains(pol.tip, pol.head)

\* createOrUpdatePullRequest keeps the state of a pull request that exists; the
\* SCM opens none for what the branch contains.
createOrUpdatePullRequest ==
    IF \/ Renders[pol.head] = branch[pol.tip].dry
       \/ skipPullRequestAfterRevert
       \/ Contains(Tip, pol.head)
    THEN pr ELSE IF pr = "none" THEN "open" ELSE pr

\* Mutant: only an object that waits for its restore holds a merge back.
mergePullRequestsHeld(p) ==
    IF evaluateRevertGate # "pending" /\ pr # "none" THEN "merging" ELSE p

\* mergePullRequests: the pull request has to be open already.
mergePullRequests(p) ==
    IF evaluateRevertGate \notin {"pending", "held"} /\ pr # "none" THEN "merging" ELSE p

PolicyReconcile ==
    /\ pol.busy
    /\ obj' = ensureRestoreActiveCommitForRestoreTip(deleteSupersededRestoreActiveCommits)
    /\ pr' = mergePullRequests(createOrUpdatePullRequest)
    /\ pol' = PIdle
    /\ UNCHANGED <<gitVars, head, waived, ctlVars, counters>>

-----------------------------------------------------------------------------
(* The pull request controller and the people.                             *)

MergePullRequest ==
    /\ pr = "merging" /\ Tip < MaxCommits
    /\ branch' = Merged(head) /\ pr' = "none"
    /\ UNCHANGED <<stamped, head, apiVars, ctlVars, pol, counters>>

MergeByHand ==
    /\ pr # "none" /\ Tip < MaxCommits /\ moves < MaxMoves
    /\ moves' = moves + 1
    /\ branch' = Merged(head) /\ pr' = "none"
    /\ UNCHANGED <<stamped, head, apiVars, ctlVars, pol, acts, fails, lags>>

RestoreByHand(c) ==
    /\ c < Tip /\ ~IsRestore(c) /\ branch[c].dry # branch[Tip].dry
    /\ Tip < MaxCommits /\ moves < MaxMoves
    /\ moves' = moves + 1
    /\ branch' = Restored(c)
    /\ UNCHANGED <<stamped, head, apiVars, ctlVars, policyVars, acts, fails, lags>>

Hydrate ==
    /\ head < Len(Renders) /\ head' = head + 1
    /\ UNCHANGED <<gitVars, apiVars, ctlVars, policyVars, counters>>

\* A user creates an object, changes blockEnvironment, or deletes the object.
CreateObject(n, block) ==
    /\ acts < MaxActs /\ acts' = acts + 1
    /\ obj[n].st = "none"
    /\ obj' = [obj EXCEPT ![n] = Created(@, block)]
    /\ UNCHANGED <<gitVars, head, waived, ctlVars, policyVars, moves, fails, lags>>

SetBlock(n, block) ==
    /\ acts < MaxActs /\ acts' = acts + 1
    /\ obj[n].st # "none" /\ obj[n].block # block
    /\ obj' = [obj EXCEPT ![n].block = block]
    /\ waived' = IF ~block THEN waived \cup {obj[n].active} ELSE waived
    /\ UNCHANGED <<gitVars, head, ctlVars, policyVars, moves, fails, lags>>

DeleteObject(n) ==
    /\ acts < MaxActs /\ acts' = acts + 1
    /\ obj[n].st = "live"
    /\ obj' = [obj EXCEPT ![n] = Deleted(@)]
    /\ UNCHANGED <<gitVars, head, waived, ctlVars, policyVars, moves, fails, lags>>

-----------------------------------------------------------------------------
Init ==
    /\ branch = [h \in 1 .. Past |-> [hyd |-> h, dry |-> Renders[h], from |-> 0]]
    /\ stamped = {} /\ head = Past
    /\ obj = [n \in Targets |-> NoObject] /\ cache = obj
    /\ queued = [n \in Targets |-> FALSE] /\ rec = [n \in Targets |-> Idle]
    /\ pol = PIdle /\ pr = "none" /\ waived = {}
    /\ acts = 0 /\ moves = 0 /\ fails = 0 /\ lags = 0

Controller(n) ==
    \/ Reconcile(n) \/ addFinalizer(n) \/ RestoreActiveBranch(n) \/ pushCommitWithLease(n)
    \/ unblockRestoreOnDelete(n) \/ selfDelete(n) \/ removeFinalizer(n) \/ applyStatus(n)

Policy == observe \/ PolicyReconcile

User ==
    \/ MergeByHand \/ Hydrate
    \/ \E c \in Targets : RestoreByHand(c)
    \/ \E n \in Targets :
        \/ \E block \in BOOLEAN : CreateObject(n, block)
        \/ \E block \in BOOLEAN : SetBlock(n, block)
        \/ DeleteObject(n)

Next ==
    \/ \E n \in Targets : Controller(n) \/ Deliver(n) \/ CallFails(n)
    \/ Policy \/ MergePullRequest \/ User \/ Crash

Spec == Init /\ [][Next]_vars

\* Workers, informers and the policy's periodic reconcile go on, and the
\* workqueue is first in, first out; users need not act, and calls fail finitely
\* often.
FairSpec ==
    /\ Spec
    /\ \A n \in Targets : SF_vars(Controller(n)) /\ WF_vars(Deliver(n))
    /\ WF_vars(Policy) /\ WF_vars(MergePullRequest)

-----------------------------------------------------------------------------
\* Every variable has its type.
RestoreTypeOK ==
    /\ branch \in Seq(Commit) /\ Len(branch) \in 1 .. MaxCommits
    /\ stamped \subseteq Commits /\ head \in 1 .. Len(Renders)
    /\ obj \in [Targets -> Object] /\ cache \in [Targets -> Object]
    /\ queued \in [Targets -> BOOLEAN]
    /\ rec \in [Targets -> [step: Steps, obj: Object, tip: 0 .. MaxCommits, again: BOOLEAN]]
    /\ pol \in [busy: BOOLEAN, tip: 0 .. MaxCommits, free: BOOLEAN, head: 0 .. Len(Renders)]
    /\ pr \in {"none", "open", "merging"}
    /\ waived \subseteq 0 .. MaxCommits
    /\ acts \in 0 .. MaxActs /\ moves \in 0 .. MaxMoves /\ fails \in 0 .. MaxFails /\ lags \in 0 .. MaxLags

\* The active branch only grows: a restore never drops a promotion that landed
\* while it was being prepared.
AppendOnly == [][Tip' >= Tip /\ SubSeq(branch', 1, Tip) = branch]_vars

\* No restore is pushed onto its own content, however often it is retried,
\* after whatever crash, and by however many objects at once.
NoEmptyRestore ==
    \A c \in 2 .. Tip : IsRestore(c) => branch[c].dry # branch[c - 1].dry

\* A hold is lifted only for a user: somebody set blockEnvironment to false on
\* an object that named the commit.  Deleting objects never lifts it.
LiftedByUser == stamped \subseteq waived

\* What a recorded status says is so: activeSha has the content of spec.sha, and
\* blockedDrySha is what that commit replaced.
RecordedTruthful ==
    \A n \in Targets : obj[n].st # "none" /\ Recorded(obj[n]) =>
        /\ obj[n].active \in 1 .. Tip
        /\ branch[obj[n].active].dry = branch[n].dry
        /\ obj[n].blocked = IF branch[obj[n].active].from = n
                            THEN branch[obj[n].active - 1].dry ELSE 0

\* The intent to merge is recorded only by a reconcile that saw a tip which is
\* not held, neither when it was read nor by now: a hold that a merge overrides
\* came with a commit pushed while the reconcile ran, or after the intent.  Between
\* the calls of PolicyReconcile itself nobody steps in.
HoldHonoured == [][pr # "merging" /\ pr' = "merging" => ~Holds(pol.tip)]_vars

\* The object asks for what can never be restored.
Invalid(n) == obj[n].st = "live" /\ ~Recorded(obj[n]) /\ (n > Tip \/ IsRestore(n))

\* In the end promotion stands still only for a reason a user can see and lift:
\* the tip is a blocked restore and a live object records it, or an object
\* waits for a commit that cannot be restored.
HeldOnlyByHandle ==
    <>[](\/ Contains(Tip, head) \/ Renders[head] = branch[Tip].dry \/ Tip = MaxCommits
         \/ \E n \in Targets : Invalid(n)
         \/ Holds(Tip) /\ \E n \in Targets : obj[n].st = "live" /\ obj[n].active = Tip)

\* A recorded restore whose block is lifted for good goes away.
ReleaseCompletes ==
    \A n \in Targets : []<>~(obj[n].st # "none" /\ Recorded(obj[n]) /\ ~obj[n].block)
=============================================================================
