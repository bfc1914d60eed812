--------------------- MODULE RestoreActiveCommitProofs ---------------------
(***************************************************************************)
(* Proofs about RestoreActiveCommit, for every history, every set of       *)
(* objects and every number of workers, failures and stale starts: the     *)
(* types, and the safety properties.                                       *)
(*                                                                         *)
(* The invariant says of every copy of an object, in the API server, in    *)
(* the informer and in the hands of a reconcile, what RecordedTruthful     *)
(* says of the first, and of every reconcile what it may rely on at the    *)
(* call that it is about to make.                                          *)
(***************************************************************************)
EXTENDS RestoreActiveCommit, TLAPS

RecType == [step: Steps, obj: Object, tip: 0 .. MaxCommits, again: BOOLEAN]

\* A restore is named by an object and restores an earlier commit.
BranchOK ==
    \A c \in 1 .. Tip : branch[c].from \in {0} \cup Targets /\ branch[c].from < c

\* What the copy o of object n has recorded is so.
Truthful(n, o) ==
    Recorded(o) =>
        /\ n \in 1 .. Tip /\ o.active \in 1 .. Tip
        /\ branch[o.active].dry = branch[n].dry
        /\ o.blocked = IF branch[o.active].from = n THEN branch[o.active - 1].dry ELSE 0

\* A recorded object that does not block has been waived.
WaivedCopy(o) == Recorded(o) /\ ~o.block => o.active \in waived

\* A push restores a commit of the branch onto a tip of other content; a stamp
\* is for a recorded restore that was waived.
Prepared(n, r) ==
    /\ r.step = "push" => /\ n \in 1 .. r.tip /\ r.tip \in 1 .. Tip
                          /\ branch[n].dry # branch[r.tip].dry
    /\ r.step = "stamp" => Recorded(r.obj) /\ r.obj.active \in waived

\* The invariant, for one object.
ObjectInv(n) ==
    /\ Truthful(n, obj[n]) /\ Truthful(n, cache[n]) /\ Truthful(n, rec[n].obj)
    /\ WaivedCopy(obj[n]) /\ WaivedCopy(cache[n])
    /\ Prepared(n, rec[n])

PolicyAt == pol.busy => pol.tip \in 1 .. Tip

RestoreInv ==
    /\ RestoreTypeOK /\ BranchOK /\ PolicyAt
    /\ \A n \in Targets : ObjectInv(n)
    /\ NoEmptyRestore /\ LiftedByUser
-----------------------------------------------------------------------------
(* Types of what the actions compute.                                      *)

LEMMA Bounds ==
    /\ MaxCommits \in Nat /\ 0 \in 0 .. MaxCommits /\ Targets \subseteq Nat \ {0}
    /\ Len(Renders) \in Nat /\ 0 \in 0 .. Len(Renders)
    /\ \A h \in 1 .. Len(Renders) : Renders[h] \in Dries
    /\ MaxActs \in Nat /\ MaxMoves \in Nat /\ MaxFails \in Nat /\ MaxLags \in Nat
BY RestoreAssumption DEF Dries

LEMMA NoObjectType == NoObject \in Object
<1>1. "none" \in {"none", "live", "del"} /\ 0 \in 0 .. 2 /\ 0 \in 0 .. MaxCommits
  BY Bounds
<1>2. QED
  BY <1>1, Zenon DEF NoObject, Object

LEMMA IdleType == Idle \in RecType
BY NoObjectType, Bounds DEF Idle, RecType, Steps

LEMMA FieldType ==
    ASSUME NEW o \in Object
    PROVE  /\ o.st \in {"none", "live", "del"} /\ o.inc \in 0 .. 2 /\ o.fin \in BOOLEAN
           /\ o.block \in BOOLEAN /\ o.from \in {0} \cup Targets /\ o.active \in 0 .. MaxCommits
           /\ o.blocked \in {0} \cup Dries
BY Zenon DEF Object

\* The writes of the API server.
LEMMA GoneEffect ==
    ASSUME NEW o \in Object
    PROVE  Gone(o) \in Object /\ ~Recorded(Gone(o)) /\ Gone(o).st = "none"
<1>1. o.inc \in 0 .. 2
  BY FieldType
<1>2. Gone(o) \in Object
  BY <1>1, NoObjectType DEF Gone, Object
<1>3. QED
  BY <1>2 DEF Gone, NoObject, Recorded

\* Deletion keeps spec and status, or nothing is left.
LEMMA DeletedEffect ==
    ASSUME NEW o \in Object
    PROVE  /\ Deleted(o) \in Object
           /\ \/ ~Recorded(Deleted(o))
              \/ /\ Deleted(o).block = o.block /\ Deleted(o).from = o.from
                 /\ Deleted(o).active = o.active /\ Deleted(o).blocked = o.blocked
<1>1. CASE o.st = "none" \/ ~o.fin
  BY <1>1, GoneEffect DEF Deleted
<1>2. CASE ~(o.st = "none" \/ ~o.fin)
  <2>1. Deleted(o) = [o EXCEPT !.st = "del"]
    BY <1>2 DEF Deleted
  <2>2. QED
    BY <2>1 DEF Object
<1>3. QED
  BY <1>1, <1>2

LEMMA CreatedEffect ==
    ASSUME NEW o \in Object, NEW b \in BOOLEAN
    PROVE  Created(o, b) \in Object /\ ~Recorded(Created(o, b))
<1>1. (o.inc + 1) % 3 \in 0 .. 2
  BY FieldType
<1> DEFINE i == (o.inc + 1) % 3
<1>2. Created(o, b) = [NoObject EXCEPT !.st = "live", !.inc = i, !.block = b]
  BY DEF Created
<1> HIDE DEF i
<1>3. i \in 0 .. 2
  BY <1>1 DEF i
<1>4. Created(o, b) \in Object
  BY <1>2, <1>3, NoObjectType DEF Object
<1>5. QED
  BY <1>2, <1>4 DEF NoObject, Recorded

\* The status of copy c on object o.
WithStatus(o, c) == [o EXCEPT !.from = c.from, !.active = c.active, !.blocked = c.blocked]

LEMMA WithStatusEffect ==
    ASSUME NEW o \in Object, NEW c \in Object
    PROVE  /\ WithStatus(o, c) \in Object
           /\ WithStatus(o, c).from = c.from /\ WithStatus(o, c).active = c.active
           /\ WithStatus(o, c).blocked = c.blocked /\ WithStatus(o, c).block = o.block
<1>1. /\ c.from \in {0} \cup Targets /\ c.active \in 0 .. MaxCommits /\ c.blocked \in {0} \cup Dries
  BY FieldType
<1>2. QED
  BY <1>1 DEF WithStatus, Object

LEMMA ApplyEffect ==
    ASSUME obj \in [Targets -> Object], waived \subseteq 0 .. MaxCommits,
           NEW n \in Targets, NEW c \in Object, Apply(n, c)
    PROVE  /\ obj' \in [Targets -> Object] /\ waived' \subseteq 0 .. MaxCommits /\ waived \subseteq waived'
           /\ \A m \in Targets : m # n => obj'[m] = obj[m]
           /\ \/ obj'[n] = obj[n] /\ waived' = waived
              \/ /\ obj'[n] = WithStatus(obj[n], c)
                 /\ ~obj[n].block => c.active \in waived'
<1>1. CASE obj[n].st = "none"
  BY <1>1 DEF Apply, apiVars
<1>2. CASE obj[n].st # "none"
  <2>1. obj' = [obj EXCEPT ![n] = WithStatus(obj[n], c)]
    BY <1>2 DEF Apply, WithStatus
  <2>2. waived' = IF ~obj[n].block THEN waived \cup {c.active} ELSE waived
    BY <1>2 DEF Apply
  <2>3. WithStatus(obj[n], c) \in Object /\ c.active \in 0 .. MaxCommits
    BY WithStatusEffect, FieldType
  <2> HIDE DEF Apply
  <2>4. QED
    BY <2>1, <2>2, <2>3
<1>3. QED
  BY <1>1, <1>2

\* A reconcile ends with the status of its copy.
LEMMA EndsEffect ==
    ASSUME rec \in [Targets -> RecType], NEW n \in Targets, NEW o \in Object, NEW again \in BOOLEAN,
           Ends(n, o, again)
    PROVE  /\ rec' \in [Targets -> RecType]
           /\ \A m \in Targets : m # n => rec'[m] = rec[m]
           /\ rec'[n].step = "patch" /\ rec'[n].obj \in Object
           /\ rec'[n].obj.from = o.from /\ rec'[n].obj.active = o.active /\ rec'[n].obj.blocked = o.blocked
<1> DEFINE c == [NoObject EXCEPT !.inc = o.inc, !.from = o.from, !.active = o.active, !.blocked = o.blocked]
           r == [Idle EXCEPT !.step = "patch", !.again = again, !.obj = c]
<1>1. c \in Object /\ c.from = o.from /\ c.active = o.active /\ c.blocked = o.blocked
  <2>1. NoObject \in Object
    BY NoObjectType
  <2>2. o.inc \in 0 .. 2 /\ o.from \in {0} \cup Targets /\ o.active \in 0 .. MaxCommits /\ o.blocked \in {0} \cup Dries
    BY FieldType
  <2>3. QED
    BY <2>1, <2>2 DEF Object
<1>2. rec' = [rec EXCEPT ![n] = r]
  BY DEF Ends
<1> HIDE DEF c
<1>3. r \in RecType /\ r.step = "patch" /\ r.obj = c
  BY <1>1, IdleType DEF RecType, Steps
<1> HIDE DEF r
<1>4. QED
  BY <1>1, <1>2, <1>3

LEMMA GotoEffect ==
    ASSUME rec \in [Targets -> RecType], NEW n \in Targets, NEW s \in Steps, Goto(n, s)
    PROVE  /\ rec' \in [Targets -> RecType]
           /\ \A m \in Targets : m # n => rec'[m] = rec[m]
           /\ rec'[n].step = s /\ rec'[n].obj = rec[n].obj /\ rec'[n].tip = rec[n].tip
<1>1. rec' = [rec EXCEPT ![n] = [rec[n] EXCEPT !.step = s]]
  BY DEF Goto
<1>2. rec[n] \in RecType
  OBVIOUS
<1>3. [rec[n] EXCEPT !.step = s] \in RecType
  BY <1>2 DEF RecType
<1>4. QED
  BY <1>1, <1>2, <1>3 DEF RecType

LEMMA FirstStepType ==
    ASSUME NEW o \in Object
    PROVE  FirstStep(o) \in Steps \cup {"none"} /\ NextStep(o) \in Steps \cup {"none"}
BY DEF FirstStep, NextStep, Steps

\* A stamp is decided on for a recorded object that does not block.
LEMMA StampDecided ==
    ASSUME NEW o \in Object
    PROVE  /\ FirstStep(o) = "stamp" => Recorded(o) /\ ~o.block
           /\ NextStep(o) = "stamp" => Recorded(o) /\ ~o.block
           /\ FirstStep(o) # "push" /\ NextStep(o) # "push"
BY FieldType DEF FirstStep, NextStep
-----------------------------------------------------------------------------
(* The branch.                                                             *)

Grows == Tip' >= Tip /\ \A c \in 1 .. Tip : branch'[c] = branch[c]

\* What a step may do to the branch: nothing, append the merge of the proposed
\* commit, or append a restore of an earlier commit of other content.
BranchMove ==
    \/ UNCHANGED branch
    \/ Tip < MaxCommits /\ branch' = Merged(head)
    \/ \E c \in Targets : /\ c \in 1 .. Tip /\ branch[c].dry # branch[Tip].dry
                          /\ Tip < MaxCommits /\ branch' = Restored(c)

LEMMA BranchStep == RestoreInv /\ [Next]_vars => BranchMove
<1> SUFFICES ASSUME RestoreInv, [Next]_vars PROVE BranchMove
  OBVIOUS
<1>1. ASSUME NEW n \in Targets, pushCommitWithLease(n) PROVE BranchMove
  <2>1. Prepared(n, rec[n])
    BY DEF RestoreInv, ObjectInv
  <2>2. CASE Tip = rec[n].tip /\ Tip < MaxCommits
    BY <1>1, <2>1, <2>2 DEF pushCommitWithLease, Prepared, BranchMove
  <2>3. CASE ~(Tip = rec[n].tip /\ Tip < MaxCommits)
    BY <1>1, <2>3 DEF pushCommitWithLease, BranchMove
  <2>4. QED
    BY <2>2, <2>3
<1>2. CASE MergePullRequest \/ MergeByHand
  BY <1>2 DEF MergePullRequest, MergeByHand, BranchMove
<1>3. ASSUME NEW c \in Targets, RestoreByHand(c) PROVE BranchMove
  <2>1. c \in Nat \ {0} /\ Tip \in Nat
    BY Bounds DEF RestoreInv, RestoreTypeOK, Tip
  <2>2. c \in 1 .. Tip
    BY <1>3, <2>1 DEF RestoreByHand
  <2>3. QED
    BY <1>3, <2>2 DEF RestoreByHand, BranchMove
<1>4. ASSUME NEW n \in Targets, Controller(n), ~pushCommitWithLease(n) PROVE BranchMove
  BY <1>4 DEF Controller, Reconcile, addFinalizer, RestoreActiveBranch, unblockRestoreOnDelete, selfDelete,
              removeFinalizer, applyStatus, gitVars, BranchMove
<1>5. ASSUME NEW n \in Targets, Deliver(n) \/ CallFails(n) PROVE BranchMove
  BY <1>5 DEF Deliver, CallFails, gitVars, BranchMove
<1>6. CASE Policy \/ Hydrate \/ Crash
  BY <1>6 DEF Policy, observe, PolicyReconcile, Hydrate, Crash, gitVars, BranchMove
<1>7. ASSUME NEW n \in Targets, \/ \E b \in BOOLEAN : CreateObject(n, b) \/ SetBlock(n, b)
                                \/ DeleteObject(n)
      PROVE  BranchMove
  BY <1>7 DEF CreateObject, SetBlock, DeleteObject, gitVars, BranchMove
<1>8. CASE UNCHANGED vars
  BY <1>8 DEF vars, gitVars, BranchMove
<1>9. QED
  BY <1>1, <1>2, <1>3, <1>4, <1>5, <1>6, <1>7, <1>8 DEF Next, User

\* Types of the commits that are appended.
LEMMA CommitType ==
    ASSUME RestoreTypeOK
    PROVE  /\ [hyd |-> head, dry |-> Renders[head], from |-> 0] \in Commit
           /\ \A c \in 1 .. Tip : [hyd |-> 0, dry |-> branch[c].dry, from |-> c] \in Commit
<1>1. head \in 0 .. Len(Renders) /\ Renders[head] \in Dries /\ 0 \in 0 .. MaxCommits
  BY Bounds DEF RestoreTypeOK
<1>2. ASSUME NEW c \in 1 .. Tip
      PROVE  0 \in 0 .. Len(Renders) /\ branch[c].dry \in Dries /\ c \in 0 .. MaxCommits
  <2>1. branch[c] \in Commit /\ Len(branch) \in 1 .. MaxCommits
    BY DEF RestoreTypeOK, Tip
  <2>2. QED
    BY <2>1, Bounds DEF Commit, Tip
<1>3. QED
  BY <1>1, <1>2 DEF Commit

LEMMA AppendEffect ==
    ASSUME NEW S, NEW s \in Seq(S), NEW x \in S
    PROVE  /\ Append(s, x) \in Seq(S) /\ Len(Append(s, x)) = Len(s) + 1
           /\ \A i \in 1 .. Len(s) : Append(s, x)[i] = s[i]
           /\ Append(s, x)[Len(s) + 1] = x
OBVIOUS

\* What follows from BranchMove: the branch keeps its type, grows at its end,
\* and keeps BranchOK and NoEmptyRestore.
LEMMA BranchEffect ==
    ASSUME RestoreTypeOK, BranchOK, NoEmptyRestore, BranchMove
    PROVE  /\ branch' \in Seq(Commit) /\ Len(branch') \in 1 .. MaxCommits
           /\ Grows /\ BranchOK' /\ NoEmptyRestore'
<1>0. branch \in Seq(Commit) /\ Len(branch) \in 1 .. MaxCommits /\ MaxCommits \in Nat /\ Tip = Len(branch)
  BY Bounds DEF RestoreTypeOK, Tip
<1>1. CASE UNCHANGED branch
  <2>1. Tip' = Tip
    BY <1>1 DEF Tip
  <2>2. BranchOK'
    BY <1>1, <2>1 DEF BranchOK
  <2>3. NoEmptyRestore'
    BY <1>1, <2>1 DEF NoEmptyRestore, IsRestore
  <2>4. QED
    BY <1>0, <1>1, <2>1, <2>2, <2>3 DEF Grows
<1>2. ASSUME NEW x \in Commit, branch' = Append(branch, x), Tip < MaxCommits,
             x.from \in {0} \cup Targets, x.from \in 0 .. Tip,
             x.from # 0 => x.dry # branch[Tip].dry
      PROVE  /\ branch' \in Seq(Commit) /\ Len(branch') \in 1 .. MaxCommits
             /\ Grows /\ BranchOK' /\ NoEmptyRestore'
  <2>1. /\ branch' \in Seq(Commit) /\ Len(branch') = Tip + 1
        /\ \A i \in 1 .. Tip : branch'[i] = branch[i]
        /\ branch'[Tip + 1] = x
    BY <1>0, <1>2, AppendEffect
  <2>2. Tip' = Tip + 1 /\ Tip \in Nat /\ Tip >= 1
    BY <1>0, <2>1 DEF Tip
  <2>3. \A c \in 1 .. Tip' : c = Tip + 1 \/ c \in 1 .. Tip
    BY <2>2
  <2>4. BranchOK'
    <3> SUFFICES ASSUME NEW c \in 1 .. Tip'
                 PROVE  branch'[c].from \in {0} \cup Targets /\ branch'[c].from < c
      BY DEF BranchOK
    <3>1. CASE c = Tip + 1
      BY <1>2, <2>1, <2>2, <3>1
    <3>2. CASE c \in 1 .. Tip
      BY <2>1, <3>2 DEF BranchOK
    <3>3. QED
      BY <2>3, <3>1, <3>2
  <2>5. NoEmptyRestore'
    <3> SUFFICES ASSUME NEW c \in 2 .. Tip', branch'[c].from # 0
                 PROVE  branch'[c].dry # branch'[c - 1].dry
      BY DEF NoEmptyRestore, IsRestore
    <3>1. CASE c = Tip + 1
      <4>1. c - 1 = Tip /\ Tip \in 1 .. Tip
        BY <2>2, <3>1
      <4>2. QED
        BY <1>2, <2>1, <3>1, <4>1
    <3>2. CASE c \in 2 .. Tip
      <4>1. c \in 1 .. Tip /\ c - 1 \in 1 .. Tip
        BY <2>2, <3>2
      <4>2. QED
        BY <2>1, <3>2, <4>1 DEF NoEmptyRestore, IsRestore
    <3>3. QED
      BY <2>2, <3>1, <3>2
  <2>6. Len(branch') \in 1 .. MaxCommits
    BY <1>0, <1>2, <2>1, <2>2
  <2>7. QED
    BY <2>1, <2>2, <2>4, <2>5, <2>6 DEF Grows
<1>3. CASE Tip < MaxCommits /\ branch' = Merged(head)
  <2> DEFINE x == [hyd |-> head, dry |-> Renders[head], from |-> 0]
  <2>1. x \in Commit /\ branch' = Append(branch, x) /\ x.from = 0
    BY <1>3, CommitType DEF Merged
  <2>2. x.from \in 0 .. Tip
    BY <1>0, <2>1
  <2> HIDE DEF x
  <2>3. QED
    BY <1>2, <1>3, <2>1, <2>2
<1>4. ASSUME NEW c \in Targets, c \in 1 .. Tip, branch[c].dry # branch[Tip].dry,
             Tip < MaxCommits, branch' = Restored(c)
      PROVE  /\ branch' \in Seq(Commit) /\ Len(branch') \in 1 .. MaxCommits
             /\ Grows /\ BranchOK' /\ NoEmptyRestore'
  <2> DEFINE x == [hyd |-> 0, dry |-> branch[c].dry, from |-> c]
  <2>1. x \in Commit /\ branch' = Append(branch, x) /\ x.from = c /\ x.dry = branch[c].dry
    BY <1>4, CommitType DEF Restored
  <2>2. x.from \in 0 .. Tip
    BY <1>0, <1>4, <2>1
  <2> HIDE DEF x
  <2>3. QED
    BY <1>2, <1>4, <2>1, <2>2
<1>5. QED
  BY <1>1, <1>3, <1>4 DEF BranchMove

\* What the copy o has recorded is so after the step.
TruthAfter(n, o) ==
    Recorded(o) =>
        /\ n \in 1 .. Tip' /\ o.active \in 1 .. Tip'
        /\ branch'[o.active].dry = branch'[n].dry
        /\ o.blocked = IF branch'[o.active].from = n THEN branch'[o.active - 1].dry ELSE 0

\* What is so of a branch is so of a longer one.
LEMMA TruthGrows ==
    ASSUME RestoreTypeOK, Grows, Tip' \in Nat, NEW n \in Targets, NEW o \in Object, Truthful(n, o), BranchOK
    PROVE  TruthAfter(n, o)
<1> SUFFICES ASSUME Recorded(o)
             PROVE  /\ n \in 1 .. Tip' /\ o.active \in 1 .. Tip'
                    /\ branch'[o.active].dry = branch'[n].dry
                    /\ o.blocked = IF branch'[o.active].from = n THEN branch'[o.active - 1].dry ELSE 0
  BY DEF TruthAfter
<1>1. /\ n \in 1 .. Tip /\ o.active \in 1 .. Tip /\ Tip \in Nat
      /\ branch[o.active].dry = branch[n].dry
      /\ o.blocked = IF branch[o.active].from = n THEN branch[o.active - 1].dry ELSE 0
  BY DEF Truthful, RestoreTypeOK, Tip
<1>2. n \in 1 .. Tip' /\ o.active \in 1 .. Tip'
  BY <1>1 DEF Grows
<1>3. branch'[o.active] = branch[o.active] /\ branch'[n] = branch[n]
  BY <1>1 DEF Grows
<1>4. ASSUME branch[o.active].from = n PROVE branch'[o.active - 1] = branch[o.active - 1]
  <2>1. n < o.active
    BY <1>1, <1>4 DEF BranchOK
  <2>2. o.active - 1 \in 1 .. Tip
    BY <1>1, <2>1
  <2>3. QED
    BY <2>2 DEF Grows
<1>5. QED
  BY <1>1, <1>2, <1>3, <1>4
-----------------------------------------------------------------------------
(* The types.                                                              *)

\* p has the spec and status of o, or records nothing.
Keeps(o, p) ==
    \/ ~Recorded(p)
    \/ p.block = o.block /\ p.from = o.from /\ p.active = o.active /\ p.blocked = o.blocked

\* The objects the policy leaves.
LEMMA PolicyObjects ==
    ASSUME RestoreTypeOK, BranchOK, PolicyAt, PolicyReconcile
    PROVE  obj' \in [Targets -> Object] /\ \A n \in Targets : Keeps(obj[n], obj'[n])
<1> DEFINE kept == deleteSupersededRestoreActiveCommits
           c == branch[pol.tip].from
<1>0. obj \in [Targets -> Object]
  BY DEF RestoreTypeOK
<1>1. \A n \in Targets : Deleted(obj[n]) \in Object /\ Keeps(obj[n], Deleted(obj[n]))
  BY <1>0, DeletedEffect DEF Keeps
<1>2. kept \in [Targets -> Object] /\ \A n \in Targets : Keeps(obj[n], kept[n])
  <2>1. \A n \in Targets : Keeps(obj[n], obj[n])
    BY DEF Keeps
  <2>2. QED
    BY <1>0, <1>1, <2>1 DEF deleteSupersededRestoreActiveCommits
<1>3. c # 0 => c \in Targets
  BY DEF PolicyAt, BranchOK, PolicyReconcile
<1>4. obj' = kept \/ (c # 0 /\ obj' = [kept EXCEPT ![c] = Created(kept[c], TRUE)])
  BY DEF PolicyReconcile, ensureRestoreActiveCommitForRestoreTip
<1> HIDE DEF kept, c
<1>5. ASSUME c \in Targets, obj' = [kept EXCEPT ![c] = Created(kept[c], TRUE)]
      PROVE  obj' \in [Targets -> Object] /\ \A n \in Targets : Keeps(obj[n], obj'[n])
  <2>1. Created(kept[c], TRUE) \in Object /\ ~Recorded(Created(kept[c], TRUE))
    BY <1>2, <1>5, CreatedEffect
  <2>2. \A n \in Targets : obj'[n] = IF n = c THEN Created(kept[c], TRUE) ELSE kept[n]
    BY <1>2, <1>5
  <2>3. obj' \in [Targets -> Object]
    BY <1>2, <1>5, <2>1
  <2>4. ASSUME NEW n \in Targets PROVE Keeps(obj[n], obj'[n])
    <3>1. CASE n = c
      BY <2>1, <2>2, <3>1 DEF Keeps
    <3>2. CASE n # c
      BY <1>2, <2>2, <3>2
    <3>3. QED
      BY <3>1, <3>2
  <2>5. QED
    BY <2>3, <2>4
<1>6. QED
  BY <1>2, <1>3, <1>4, <1>5

\* Every step keeps the types.
LEMMA TypeStep == RestoreInv /\ [Next]_vars => RestoreTypeOK'
<1> SUFFICES ASSUME RestoreInv, [Next]_vars PROVE RestoreTypeOK'
  OBVIOUS
<1>i. RestoreTypeOK /\ BranchOK /\ PolicyAt /\ \A n \in Targets : ObjectInv(n)
  BY DEF RestoreInv
<1>0. /\ branch \in Seq(Commit) /\ Len(branch) \in 1 .. MaxCommits
      /\ stamped \subseteq Commits /\ head \in 1 .. Len(Renders)
      /\ obj \in [Targets -> Object] /\ cache \in [Targets -> Object]
      /\ queued \in [Targets -> BOOLEAN] /\ rec \in [Targets -> RecType]
      /\ pol \in [busy: BOOLEAN, tip: 0 .. MaxCommits, free: BOOLEAN, head: 0 .. Len(Renders)]
      /\ pr \in {"none", "open", "merging"} /\ waived \subseteq 0 .. MaxCommits
      /\ acts \in 0 .. MaxActs /\ moves \in 0 .. MaxMoves /\ fails \in 0 .. MaxFails /\ lags \in 0 .. MaxLags
  BY <1>i DEF RestoreTypeOK, RecType
<1>b. branch' \in Seq(Commit) /\ Len(branch') \in 1 .. MaxCommits
  BY BranchStep, BranchEffect DEF RestoreInv
<1> DEFINE Typed ==
      /\ stamped' \subseteq Commits /\ head' \in 1 .. Len(Renders)
      /\ obj' \in [Targets -> Object] /\ cache' \in [Targets -> Object]
      /\ queued' \in [Targets -> BOOLEAN] /\ rec' \in [Targets -> RecType]
      /\ pol' \in [busy: BOOLEAN, tip: 0 .. MaxCommits, free: BOOLEAN, head: 0 .. Len(Renders)]
      /\ pr' \in {"none", "open", "merging"} /\ waived' \subseteq 0 .. MaxCommits
      /\ acts' \in 0 .. MaxActs /\ moves' \in 0 .. MaxMoves /\ fails' \in 0 .. MaxFails /\ lags' \in 0 .. MaxLags
<1> SUFFICES Typed
  BY <1>b DEF RestoreTypeOK, RecType
<1>m. /\ acts \in 0 .. MaxActs /\ lags \in 0 .. MaxLags
      /\ MaxActs \in Nat /\ MaxLags \in Nat
  BY <1>0, Bounds
<1>n. Tip = Len(branch) /\ Tip \in 1 .. MaxCommits /\ MaxCommits \in Nat /\ \A c \in 1 .. Tip : branch[c] \in Commit
  BY <1>0, Bounds DEF Tip
<1>d. \A c \in 1 .. Tip : branch[c].dry \in Dries
  BY <1>n DEF Commit
<1>1. ASSUME NEW n \in Targets, Reconcile(n) PROVE Typed
  <2>1. lags' \in 0 .. MaxLags
    BY <1>m, <1>1 DEF Reconcile
  <2>2. cache[n] \in Object
    BY <1>0
  <2>3. CASE cache[n].st = "none" \/ FirstStep(cache[n]) = "none"
    <3>1. queued' \in [Targets -> BOOLEAN]
      <4>1. queued' = [queued EXCEPT ![n] = (cache[n].st = "live")] /\ (cache[n].st = "live") \in BOOLEAN
        BY <1>1, <2>3 DEF Reconcile
      <4>2. QED
        BY <1>0, <4>1
    <3>2. obj' \in [Targets -> Object] /\ waived' \subseteq 0 .. MaxCommits
      BY <1>0, <1>1, <2>2, <2>3, ApplyEffect DEF Reconcile, apiVars
    <3>3. QED
      BY <1>0, <1>1, <2>1, <2>3, <3>1, <3>2 DEF Reconcile, gitVars, policyVars
  <2>4. CASE ~(cache[n].st = "none" \/ FirstStep(cache[n]) = "none")
    <3>1. FirstStep(cache[n]) \in Steps
      BY <2>2, <2>4, FirstStepType
    <3>2. [Idle EXCEPT !.step = FirstStep(cache[n]), !.obj = cache[n]] \in RecType
      BY <2>2, <3>1, IdleType DEF RecType
    <3>3. rec' \in [Targets -> RecType] /\ queued' \in [Targets -> BOOLEAN]
      BY <1>0, <1>1, <2>4, <3>2 DEF Reconcile
    <3>4. QED
      BY <1>0, <1>1, <2>1, <2>4, <3>3 DEF Reconcile, gitVars, apiVars, policyVars
  <2>5. QED
    BY <2>3, <2>4
<1>e. ASSUME NEW n \in Targets, Errs(n) PROVE rec' \in [Targets -> RecType]
  <2>1. rec[n].obj \in Object
    BY <1>0 DEF RecType
  <2>2. QED
    BY <1>0, <1>e, <2>1, EndsEffect DEF Errs
<1>r. ASSUME NEW n \in Targets, NEW c \in 0 .. MaxCommits, NEW d \in {0} \cup Dries, Records(n, c, d)
      PROVE  rec' \in [Targets -> RecType]
  <2>1. rec[n].obj \in Object
    BY <1>0 DEF RecType
  <2>2. [rec[n].obj EXCEPT !.from = n, !.active = c, !.blocked = d] \in Object
    BY <2>1 DEF Object
  <2>3. QED
    BY <1>0, <1>r, <2>2, EndsEffect DEF Records
<1>2. ASSUME NEW n \in Targets, addFinalizer(n) PROVE Typed
  <2>1. CASE obj[n] = rec[n].obj
    <3>1. obj' = [obj EXCEPT ![n] = [obj[n] EXCEPT !.fin = TRUE]] /\ obj[n] \in Object
      BY <1>0, <1>2, <2>1 DEF addFinalizer
    <3>2. [obj[n] EXCEPT !.fin = TRUE] \in Object
      BY <3>1 DEF Object
    <3>3. obj' \in [Targets -> Object] /\ obj'[n] \in Object
      BY <1>0, <3>1, <3>2
    <3>4. rec' \in [Targets -> RecType]
      <4>1. CASE NextStep(obj[n]) = "none"
        BY <1>0, <1>2, <2>1, <3>1, <4>1, EndsEffect DEF addFinalizer
      <4>2. CASE NextStep(obj[n]) # "none"
        <5>1. NextStep(obj[n]) \in Steps
          BY <3>1, <4>2, FirstStepType
        <5>2. rec' = [rec EXCEPT ![n] = [rec[n] EXCEPT !.step = NextStep(obj[n]), !.obj = obj'[n]]]
          BY <1>2, <2>1, <4>2 DEF addFinalizer
        <5>3. rec[n] \in RecType
          BY <1>0
        <5>4. [rec[n] EXCEPT !.step = NextStep(obj[n]), !.obj = obj'[n]] \in RecType
          BY <3>3, <5>1, <5>3 DEF RecType
        <5>5. QED
          BY <1>0, <5>2, <5>4
      <4>3. QED
        BY <4>1, <4>2
    <3>5. QED
      BY <1>0, <1>2, <3>3, <3>4 DEF addFinalizer, gitVars, policyVars, counters
  <2>2. CASE obj[n] # rec[n].obj
    BY <1>0, <1>2, <1>e, <2>2 DEF addFinalizer, gitVars, policyVars, counters
  <2>3. QED
    BY <2>1, <2>2
<1>3. ASSUME NEW n \in Targets, RestoreActiveBranch(n) PROVE Typed
  <2>1. n \in Nat \ {0}
    BY Bounds
  <2>2. rec' \in [Targets -> RecType]
    <3>1. CASE Errs(n)
      BY <3>1, <1>e
    <3>2. CASE Records(n, Tip, 0)
      BY <3>2, <1>n, <1>r
    <3>3. CASE Goto(n, "delete")
      BY <1>0, <3>3, GotoEffect DEF Steps
    <3>4. CASE hasRestoreMarker(n) /\ Records(n, Tip, branch[Tip - 1].dry)
      <4>1. Tip - 1 \in 1 .. Tip
        BY <1>i, <1>n, <2>1, <3>4 DEF hasRestoreMarker, BranchOK
      <4>2. branch[Tip - 1].dry \in {0} \cup Dries
        BY <1>d, <4>1
      <4>3. Tip \in 0 .. MaxCommits
        BY <1>n
      <4>4. QED
        BY <1>r, <3>4, <4>2, <4>3
    <3>5. CASE rec' = [rec EXCEPT ![n].step = "push", ![n].tip = Tip]
      <4>1. rec[n] \in RecType
        BY <1>0
      <4>2. [rec[n] EXCEPT !.step = "push", !.tip = Tip] \in RecType
        <5>1. Tip \in 0 .. MaxCommits /\ "push" \in Steps
          BY <1>n DEF Steps
        <5> HIDE DEF Tip
        <5>2. QED
          BY <4>1, <5>1 DEF RecType
      <4>3. QED
        BY <1>0, <3>5, <4>2
    <3>6. QED
      BY <1>3, <3>1, <3>2, <3>3, <3>4, <3>5 DEF RestoreActiveBranch
  <2>3. QED
    BY <1>0, <1>3, <2>2 DEF RestoreActiveBranch, gitVars, apiVars, policyVars, counters
<1>4. ASSUME NEW n \in Targets, pushCommitWithLease(n) PROVE Typed
  <2>1. CASE Tip < MaxCommits /\ Records(n, Tip + 1, branch[Tip].dry)
    <3>1. Tip + 1 \in 0 .. MaxCommits /\ branch[Tip].dry \in Dries
      BY <1>d, <1>n, <2>1
    <3>2. QED
      BY <1>0, <1>4, <1>r, <2>1, <3>1 DEF pushCommitWithLease, apiVars, policyVars, counters
  <2>2. CASE Errs(n)
    BY <1>0, <1>4, <1>e, <2>2 DEF pushCommitWithLease, apiVars, policyVars, counters
  <2>3. QED
    BY <1>4, <2>1, <2>2 DEF pushCommitWithLease
<1>5. ASSUME NEW n \in Targets, unblockRestoreOnDelete(n) PROVE Typed
  <2>1. rec[n].obj.active \in 1 .. Tip
    BY <1>5, <1>i DEF unblockRestoreOnDelete, ObjectInv, Prepared, Truthful
  <2>2. stamped' \subseteq Commits
    BY <1>0, <1>5, <1>n, <2>1 DEF unblockRestoreOnDelete, UnblockRestore, Commits
  <2>3. rec' \in [Targets -> RecType]
    BY <1>0, <1>5, GotoEffect DEF unblockRestoreOnDelete, Steps
  <2>4. QED
    BY <1>0, <1>5, <2>2, <2>3 DEF unblockRestoreOnDelete, apiVars, policyVars, counters
<1>6. ASSUME NEW n \in Targets, selfDelete(n) PROVE Typed
  <2>1. rec[n].obj \in Object /\ obj[n] \in Object
    BY <1>0 DEF RecType
  <2>2. rec' \in [Targets -> RecType]
    BY <1>0, <1>6, <2>1, EndsEffect DEF selfDelete
  <2>3. obj' \in [Targets -> Object]
    BY <1>0, <1>6, <2>1, DeletedEffect DEF selfDelete
  <2>4. QED
    BY <1>0, <1>6, <2>2, <2>3 DEF selfDelete, gitVars, policyVars, counters
<1>7. ASSUME NEW n \in Targets, removeFinalizer(n) PROVE Typed
  <2>1. rec[n].obj \in Object /\ obj[n] \in Object
    BY <1>0 DEF RecType
  <2>2. rec' \in [Targets -> RecType]
    BY <1>0, <1>7, <1>e, <2>1, EndsEffect DEF removeFinalizer
  <2>3. obj' \in [Targets -> Object]
    BY <1>0, <1>7, <2>1, GoneEffect DEF removeFinalizer
  <2>4. QED
    BY <1>0, <1>7, <2>2, <2>3 DEF removeFinalizer, gitVars, policyVars, counters
<1>8. ASSUME NEW n \in Targets, applyStatus(n) PROVE Typed
  <2>1. rec[n].obj \in Object /\ rec[n].again \in BOOLEAN
    BY <1>0 DEF RecType
  <2>2. obj' \in [Targets -> Object] /\ waived' \subseteq 0 .. MaxCommits
    BY <1>0, <1>8, <2>1, ApplyEffect DEF applyStatus
  <2>3. queued' \in [Targets -> BOOLEAN]
    BY <1>0, <1>8, <2>1 DEF applyStatus
  <2>4. rec' \in [Targets -> RecType]
    BY <1>0, <1>8, IdleType DEF applyStatus
  <2>5. QED
    BY <1>0, <1>8, <2>2, <2>3, <2>4 DEF applyStatus, gitVars, policyVars, counters
<1>9. ASSUME NEW n \in Targets, CallFails(n) PROVE Typed
  <2>1. fails' \in 0 .. MaxFails
    BY <1>0, <1>9, Bounds DEF CallFails
  <2>2. rec' \in [Targets -> RecType] /\ queued' \in [Targets -> BOOLEAN]
    <3>1. CASE rec[n].step = "patch"
      BY <1>0, <1>9, <3>1, IdleType DEF CallFails
    <3>2. CASE rec[n].step # "patch"
      BY <1>0, <1>9, <1>e, <3>2 DEF CallFails
    <3>3. QED
      BY <3>1, <3>2
  <2>3. QED
    BY <1>0, <1>9, <2>1, <2>2 DEF CallFails, gitVars, apiVars, policyVars
<1>10. ASSUME NEW n \in Targets, Deliver(n) PROVE Typed
  <2>1. cache' \in [Targets -> Object]
    BY <1>0, <1>10 DEF Deliver
  <2>2. queued' \in [Targets -> BOOLEAN]
    <3>1. (queued[n] \/ Enqueues(cache[n], obj[n])) \in BOOLEAN
      BY Zenon
    <3>2. QED
      BY <1>0, <1>10, <3>1 DEF Deliver
  <2>3. QED
    BY <1>0, <1>10, <2>1, <2>2 DEF Deliver, gitVars, apiVars, policyVars, counters
<1>11. CASE Crash
  <2>1. fails' \in 0 .. MaxFails
    BY <1>0, <1>11, Bounds DEF Crash
  <2>2. rec' \in [Targets -> RecType] /\ queued' \in [Targets -> BOOLEAN]
    BY <1>11, IdleType DEF Crash
  <2>3. PIdle \in [busy: BOOLEAN, tip: 0 .. MaxCommits, free: BOOLEAN, head: 0 .. Len(Renders)]
    BY Bounds DEF PIdle
  <2>4. QED
    BY <1>0, <1>11, <2>1, <2>2, <2>3 DEF Crash, gitVars, apiVars
<1>12. CASE observe
  <2>1. (Tip \in stamped) \in BOOLEAN /\ Tip \in 0 .. MaxCommits /\ head \in 0 .. Len(Renders)
    BY <1>0, <1>n, Bounds
  <2>2. pol' \in [busy: BOOLEAN, tip: 0 .. MaxCommits, free: BOOLEAN, head: 0 .. Len(Renders)]
    BY <1>12, <2>1 DEF observe
  <2>3. QED
    BY <1>0, <1>12, <2>2 DEF observe, gitVars, apiVars, ctlVars, counters
<1>13. CASE PolicyReconcile
  <2>1. obj' \in [Targets -> Object]
    BY <1>13, <1>i, PolicyObjects
  <2>2. pr' \in {"none", "open", "merging"}
    BY <1>0, <1>13 DEF PolicyReconcile, mergePullRequests, createOrUpdatePullRequest
  <2>3. PIdle \in [busy: BOOLEAN, tip: 0 .. MaxCommits, free: BOOLEAN, head: 0 .. Len(Renders)]
    BY Bounds DEF PIdle
  <2>4. QED
    BY <1>0, <1>13, <2>1, <2>2, <2>3 DEF PolicyReconcile, gitVars, ctlVars, counters
<1>14. CASE MergePullRequest
  BY <1>0, <1>14 DEF MergePullRequest, apiVars, ctlVars, counters
<1>15. CASE MergeByHand
  <2>1. moves' \in 0 .. MaxMoves
    BY <1>0, <1>15, Bounds DEF MergeByHand
  <2>2. QED
    BY <1>0, <1>15, <2>1 DEF MergeByHand, apiVars, ctlVars
<1>16. ASSUME NEW c \in Targets, RestoreByHand(c) PROVE Typed
  <2>1. moves' \in 0 .. MaxMoves
    BY <1>0, <1>16, Bounds DEF RestoreByHand
  <2>2. QED
    BY <1>0, <1>16, <2>1 DEF RestoreByHand, apiVars, ctlVars, policyVars
<1>17. CASE Hydrate
  <2>1. head' \in 1 .. Len(Renders)
    BY <1>0, <1>17, Bounds DEF Hydrate
  <2>2. QED
    BY <1>0, <1>17, <2>1 DEF Hydrate, gitVars, apiVars, ctlVars, policyVars, counters
<1>18. ASSUME NEW n \in Targets, NEW b \in BOOLEAN, CreateObject(n, b) PROVE Typed
  <2>1. acts' \in 0 .. MaxActs
    BY <1>m, <1>18 DEF CreateObject
  <2>2. obj' \in [Targets -> Object]
    BY <1>0, <1>18, CreatedEffect DEF CreateObject
  <2>3. QED
    BY <1>0, <1>18, <2>1, <2>2 DEF CreateObject, gitVars, ctlVars, policyVars
<1>19. ASSUME NEW n \in Targets, NEW b \in BOOLEAN, SetBlock(n, b) PROVE Typed
  <2>1. acts' \in 0 .. MaxActs
    BY <1>m, <1>19 DEF SetBlock
  <2>2. obj[n] \in Object /\ obj[n].active \in 0 .. MaxCommits
    BY <1>0, FieldType
  <2>3. [obj[n] EXCEPT !.block = b] \in Object
    BY <2>2 DEF Object
  <2>4. obj' \in [Targets -> Object]
    BY <1>0, <1>19, <2>3 DEF SetBlock
  <2>5. waived' \subseteq 0 .. MaxCommits
    BY <1>0, <1>19, <2>2 DEF SetBlock
  <2>6. QED
    BY <1>0, <1>19, <2>1, <2>4, <2>5 DEF SetBlock, gitVars, ctlVars, policyVars
<1>20. ASSUME NEW n \in Targets, DeleteObject(n) PROVE Typed
  <2>1. acts' \in 0 .. MaxActs
    BY <1>0, <1>20, Bounds DEF DeleteObject
  <2>2. obj' \in [Targets -> Object]
    BY <1>0, <1>20, DeletedEffect DEF DeleteObject
  <2>3. QED
    BY <1>0, <1>20, <2>1, <2>2 DEF DeleteObject, gitVars, ctlVars, policyVars
<1>21. CASE UNCHANGED vars
  BY <1>0, <1>21 DEF vars, gitVars, apiVars, ctlVars, policyVars, counters
<1>22. QED
  BY <1>1, <1>2, <1>3, <1>4, <1>5, <1>6, <1>7, <1>8, <1>9, <1>10, <1>11, <1>12, <1>13, <1>14, <1>15, <1>16,
     <1>17, <1>18, <1>19, <1>20, <1>21
     DEF Next, Controller, Policy, User
-----------------------------------------------------------------------------
(* The copies of an object.                                                *)

SameStatus(o, p) == p.from = o.from /\ p.active = o.active /\ p.blocked = o.blocked

\* Facts that hold of every step, for object n.
LEMMA Frame ==
    ASSUME RestoreInv, [Next]_vars, NEW n \in Targets
    PROVE  /\ RestoreTypeOK /\ RestoreTypeOK' /\ Grows /\ BranchOK
           /\ obj[n] \in Object /\ cache[n] \in Object /\ rec[n] \in RecType /\ rec[n].obj \in Object
           /\ TruthAfter(n, obj[n]) /\ TruthAfter(n, cache[n]) /\ TruthAfter(n, rec[n].obj)
<1>1. RestoreTypeOK /\ RestoreTypeOK' /\ Grows /\ BranchOK
  BY TypeStep, BranchStep, BranchEffect DEF RestoreInv
<1>2. obj[n] \in Object /\ cache[n] \in Object /\ rec[n] \in RecType /\ rec[n].obj \in Object
  BY <1>1 DEF RestoreTypeOK, RecType
<1>3. Truthful(n, obj[n]) /\ Truthful(n, cache[n]) /\ Truthful(n, rec[n].obj)
  BY DEF RestoreInv, ObjectInv
<1>4. ASSUME NEW o \in Object, Truthful(n, o) PROVE TruthAfter(n, o)
  <2>1. Tip' \in Nat
    BY <1>1 DEF RestoreTypeOK, Tip
  <2>2. QED
    BY <1>1, <1>4, <2>1, TruthGrows
<1>5. QED
  BY <1>1, <1>2, <1>3, <1>4

\* The object in the API server: kept or forgotten, given the status of a copy,
\* or given another blockEnvironment.
ObjMove(n) ==
    \/ Keeps(obj[n], obj'[n])
    \/ \E c \in {cache[n], rec[n].obj} :
          SameStatus(c, obj'[n]) /\ obj'[n].block = obj[n].block /\ (~obj[n].block => c.active \in waived')
    \/ SameStatus(obj[n], obj'[n]) /\ (~obj'[n].block => obj[n].active \in waived')

LEMMA ObjStep ==
    ASSUME RestoreInv, [Next]_vars
    PROVE  waived \subseteq waived' /\ \A n \in Targets : ObjMove(n)
<1>0. /\ obj \in [Targets -> Object] /\ cache \in [Targets -> Object] /\ waived \subseteq 0 .. MaxCommits
      /\ \A n \in Targets : rec[n].obj \in Object
  BY Frame DEF RestoreInv, RestoreTypeOK
<1> DEFINE Goal == waived \subseteq waived' /\ \A n \in Targets : ObjMove(n)
<1>k. \A n \in Targets : Keeps(obj[n], obj[n])
  BY DEF Keeps
<1>u. CASE UNCHANGED <<obj, waived>>
  BY <1>k, <1>u DEF ObjMove
<1>a. ASSUME NEW n \in Targets, NEW c \in {cache[n], rec[n].obj}, Apply(n, c) PROVE Goal
  <2>0. c \in Object
    BY <1>0, <1>a
  <2>1. /\ waived \subseteq waived' /\ \A m \in Targets : m # n => obj'[m] = obj[m]
        /\ \/ obj'[n] = obj[n]
           \/ obj'[n] = WithStatus(obj[n], c) /\ (~obj[n].block => c.active \in waived')
    BY <1>0, <1>a, <2>0, ApplyEffect
  <2>2. \A m \in Targets : m # n => ObjMove(m)
    BY <1>k, <2>1 DEF ObjMove
  <2>3. CASE obj'[n] = obj[n]
    BY <1>k, <2>1, <2>2, <2>3 DEF ObjMove
  <2>4. CASE obj'[n] = WithStatus(obj[n], c) /\ (~obj[n].block => c.active \in waived')
    <3>1. SameStatus(c, obj'[n]) /\ obj'[n].block = obj[n].block
      BY <1>0, <2>0, <2>4, WithStatusEffect DEF SameStatus
    <3>2. ObjMove(n)
      BY <2>4, <3>1 DEF ObjMove
    <3>3. QED
      BY <2>1, <2>2, <3>2
  <2>5. QED
    BY <2>1, <2>3, <2>4
<1>w. ASSUME NEW n \in Targets, NEW x, obj' = [obj EXCEPT ![n] = x], Keeps(obj[n], x), waived' = waived
      PROVE  Goal
  <2>1. \A m \in Targets : obj'[m] = IF m = n THEN x ELSE obj[m]
    BY <1>0, <1>w
  <2>2. \A m \in Targets : Keeps(obj[m], obj'[m])
    BY <1>k, <1>w, <2>1
  <2>3. QED
    BY <1>w, <2>2 DEF ObjMove
<1>1. ASSUME NEW n \in Targets, Reconcile(n) PROVE Goal
  BY <1>1, <1>a, <1>u DEF Reconcile, apiVars
<1>2. ASSUME NEW n \in Targets, addFinalizer(n) PROVE Goal
  <2>1. CASE obj[n] = rec[n].obj
    <3> DEFINE x == [obj[n] EXCEPT !.fin = TRUE]
    <3>1. obj' = [obj EXCEPT ![n] = x] /\ waived' = waived
      BY <1>2, <2>1 DEF addFinalizer
    <3>2. Keeps(obj[n], x)
      BY <1>0 DEF Keeps, Object
    <3> HIDE DEF x
    <3>3. QED
      BY <1>w, <3>1, <3>2
  <2>2. CASE obj[n] # rec[n].obj
    BY <1>2, <1>u, <2>2 DEF addFinalizer
  <2>3. QED
    BY <2>1, <2>2
<1>3. ASSUME NEW n \in Targets, RestoreActiveBranch(n) \/ pushCommitWithLease(n) \/ unblockRestoreOnDelete(n)
                                \/ Deliver(n) \/ CallFails(n)
      PROVE  Goal
  BY <1>3, <1>u DEF RestoreActiveBranch, pushCommitWithLease, unblockRestoreOnDelete, Deliver, CallFails, apiVars
<1>4. ASSUME NEW n \in Targets, selfDelete(n) \/ DeleteObject(n) PROVE Goal
  <2>1. obj' = [obj EXCEPT ![n] = Deleted(obj[n])] /\ waived' = waived
    BY <1>4 DEF selfDelete, DeleteObject
  <2>2. Keeps(obj[n], Deleted(obj[n]))
    BY <1>0, DeletedEffect DEF Keeps
  <2>3. QED
    BY <1>w, <2>1, <2>2
<1>5. ASSUME NEW n \in Targets, removeFinalizer(n) PROVE Goal
  <2>1. CASE obj[n] = rec[n].obj
    <3>1. obj' = [obj EXCEPT ![n] = Gone(obj[n])] /\ waived' = waived
      BY <1>5, <2>1 DEF removeFinalizer
    <3>2. Keeps(obj[n], Gone(obj[n]))
      BY <1>0, GoneEffect DEF Keeps
    <3>3. QED
      BY <1>w, <3>1, <3>2
  <2>2. CASE obj[n] # rec[n].obj
    BY <1>5, <1>u, <2>2 DEF removeFinalizer
  <2>3. QED
    BY <2>1, <2>2
<1>6. ASSUME NEW n \in Targets, applyStatus(n) PROVE Goal
  BY <1>6, <1>a DEF applyStatus
<1>7. CASE PolicyReconcile
  BY <1>7, PolicyObjects DEF RestoreInv, ObjMove, PolicyReconcile
<1>8. CASE observe \/ Crash \/ MergePullRequest \/ MergeByHand \/ Hydrate
           \/ \E c \in Targets : RestoreByHand(c)
  BY <1>8, <1>u DEF observe, Crash, MergePullRequest, MergeByHand, Hydrate, RestoreByHand, apiVars
<1>9. ASSUME NEW n \in Targets, NEW b \in BOOLEAN, CreateObject(n, b) PROVE Goal
  <2>1. obj' = [obj EXCEPT ![n] = Created(obj[n], b)] /\ waived' = waived
    BY <1>9 DEF CreateObject
  <2>2. Keeps(obj[n], Created(obj[n], b))
    BY <1>0, CreatedEffect DEF Keeps
  <2>3. QED
    BY <1>w, <2>1, <2>2
<1>10. ASSUME NEW n \in Targets, NEW b \in BOOLEAN, SetBlock(n, b) PROVE Goal
  <2> DEFINE x == [obj[n] EXCEPT !.block = b]
  <2>1. obj' = [obj EXCEPT ![n] = x]
    BY <1>10 DEF SetBlock
  <2>2. SameStatus(obj[n], x) /\ x.block = b
    BY <1>0 DEF SameStatus, Object
  <2>3. waived \subseteq waived' /\ (~b => obj[n].active \in waived')
    BY <1>10 DEF SetBlock
  <2> HIDE DEF x
  <2>4. \A m \in Targets : obj'[m] = IF m = n THEN x ELSE obj[m]
    BY <1>0, <2>1
  <2>5. ASSUME NEW m \in Targets PROVE ObjMove(m)
    <3>1. CASE m = n
      BY <2>2, <2>3, <2>4, <3>1 DEF ObjMove
    <3>2. CASE m # n
      BY <1>k, <2>4, <3>2 DEF ObjMove
    <3>3. QED
      BY <3>1, <3>2
  <2>6. QED
    BY <2>3, <2>5
<1>11. CASE UNCHANGED vars
  BY <1>11, <1>u DEF vars, apiVars
<1>12. QED
  BY <1>1, <1>2, <1>3, <1>4, <1>5, <1>6, <1>7, <1>8, <1>9, <1>10, <1>11 DEF Next, Controller, Policy, User

\* The informer's copy is kept, or is the object as it was before the step.
LEMMA CacheStep ==
    ASSUME RestoreInv, [Next]_vars
    PROVE  \A n \in Targets : cache'[n] = cache[n] \/ cache'[n] = obj[n]
<1> DEFINE Goal == \A n \in Targets : cache'[n] = cache[n] \/ cache'[n] = obj[n]
<1>1. ASSUME NEW n \in Targets, Deliver(n) PROVE Goal
  BY <1>1 DEF Deliver, RestoreInv, RestoreTypeOK
<1>2. CASE Crash
  BY <1>2 DEF Crash
<1>3. ASSUME NEW n \in Targets, Controller(n) \/ CallFails(n) PROVE Goal
  BY <1>3 DEF Controller, Reconcile, addFinalizer, RestoreActiveBranch, pushCommitWithLease, unblockRestoreOnDelete,
              selfDelete, removeFinalizer, applyStatus, CallFails
<1>4. CASE Policy \/ MergePullRequest \/ User
  BY <1>4 DEF Policy, observe, PolicyReconcile, MergePullRequest, User, MergeByHand, Hydrate, RestoreByHand,
              CreateObject, SetBlock, DeleteObject, ctlVars
<1>5. CASE UNCHANGED vars
  BY <1>5 DEF vars, ctlVars
<1>6. QED
  BY <1>1, <1>2, <1>3, <1>4, <1>5 DEF Next

\* What reconcile r of object n may rely on after the step.
PreparedAfter(n, r) ==
    /\ r.step = "push" => /\ n \in 1 .. r.tip /\ r.tip \in 1 .. Tip'
                          /\ branch'[n].dry # branch'[r.tip].dry
    /\ r.step = "stamp" => Recorded(r.obj) /\ r.obj.active \in waived'

RecGood(n, r) == TruthAfter(n, r.obj) /\ PreparedAfter(n, r)

\* Every reconcile in flight keeps what it relies on, or has come to rely on
\* what is so.
LEMMA RecStep ==
    ASSUME RestoreInv, [Next]_vars
    PROVE  \A n \in Targets : RecGood(n, rec'[n])
<1> DEFINE Goal == \A n \in Targets : RecGood(n, rec'[n])
<1>0. /\ Tip \in 1 .. MaxCommits /\ MaxCommits \in Nat /\ Tip' \in Nat /\ Grows /\ waived \subseteq waived'
      /\ rec \in [Targets -> RecType] /\ Targets \subseteq Nat \ {0} /\ BranchOK
  <2>1. RestoreTypeOK /\ RestoreTypeOK' /\ Grows /\ BranchOK
    BY BranchStep, BranchEffect, TypeStep DEF RestoreInv
  <2>2. waived \subseteq waived'
    BY ObjStep
  <2>3. rec \in [Targets -> RecType]
    BY <2>1 DEF RestoreTypeOK, RecType
  <2>4. Tip \in 1 .. MaxCommits /\ Tip' \in Nat
    BY <2>1 DEF RestoreTypeOK, Tip
  <2>5. QED
    BY <2>1, <2>2, <2>3, <2>4, Bounds
<1>i. Idle.step = "idle" /\ ~Recorded(Idle.obj)
  BY DEF Idle, NoObject, Recorded
<1>k. ASSUME NEW n \in Targets PROVE RecGood(n, rec[n])
  <2>1. Prepared(n, rec[n]) /\ TruthAfter(n, rec[n].obj) /\ rec[n].tip \in 0 .. MaxCommits
    BY <1>0, Frame DEF RestoreInv, ObjectInv, RecType
  <2>2. ASSUME rec[n].step = "push"
        PROVE  n \in 1 .. rec[n].tip /\ rec[n].tip \in 1 .. Tip' /\ branch'[n].dry # branch'[rec[n].tip].dry
    <3>1. n \in 1 .. rec[n].tip /\ rec[n].tip \in 1 .. Tip /\ branch[n].dry # branch[rec[n].tip].dry
      BY <2>1, <2>2 DEF Prepared
    <3>2. n \in 1 .. Tip /\ rec[n].tip \in 1 .. Tip'
      BY <1>0, <3>1 DEF Grows
    <3>3. QED
      BY <3>1, <3>2, <1>0 DEF Grows
  <2>3. QED
    BY <1>0, <2>1, <2>2 DEF Prepared, PreparedAfter, RecGood
<1>o. ASSUME NEW n \in Targets, \A m \in Targets : m # n => rec'[m] = rec[m], RecGood(n, rec'[n]) PROVE Goal
  BY <1>k, <1>o
<1>e. ASSUME NEW n \in Targets, NEW o \in Object, TruthAfter(n, o), NEW again \in BOOLEAN, Ends(n, o, again) PROVE Goal
  <2>1. /\ \A m \in Targets : m # n => rec'[m] = rec[m]
        /\ rec'[n].step = "patch" /\ SameStatus(o, rec'[n].obj)
    BY <1>0, <1>e, EndsEffect DEF SameStatus
  <2>2. RecGood(n, rec'[n])
    BY <1>e, <2>1 DEF RecGood, TruthAfter, Recorded, SameStatus, PreparedAfter
  <2>3. QED
    BY <1>o, <2>1, <2>2
<1>f. ASSUME NEW n \in Targets, Errs(n) PROVE Goal
  <2>1. rec[n].obj \in Object /\ TruthAfter(n, rec[n].obj)
    BY Frame
  <2>2. QED
    BY <1>e, <1>f, <2>1 DEF Errs
<1>r. ASSUME NEW n \in Targets, NEW c \in 1 .. Tip', NEW d \in {0} \cup Dries, Records(n, c, d),
             n \in 1 .. Tip', branch'[c].dry = branch'[n].dry,
             d = IF branch'[c].from = n THEN branch'[c - 1].dry ELSE 0
      PROVE  Goal
  <2> DEFINE o == [rec[n].obj EXCEPT !.from = n, !.active = c, !.blocked = d]
  <2>1. rec[n].obj \in Object /\ c \in 0 .. MaxCommits
    BY Frame, TypeStep, Bounds DEF RestoreTypeOK, Tip
  <2>2. o \in Object /\ o.active = c /\ o.blocked = d
    BY <2>1 DEF Object
  <2>3. Ends(n, o, TRUE)
    BY <1>r DEF Records
  <2> HIDE DEF o
  <2>4. TruthAfter(n, o)
    BY <1>r, <2>2 DEF TruthAfter
  <2>5. QED
    BY <1>e, <2>2, <2>3, <2>4
<1>g. ASSUME NEW n \in Targets, NEW s \in Steps \ {"push", "stamp"}, Goto(n, s) PROVE Goal
  <2>1. /\ \A m \in Targets : m # n => rec'[m] = rec[m]
        /\ rec'[n].step = s /\ rec'[n].obj = rec[n].obj
    BY <1>0, <1>g, GotoEffect
  <2>2. TruthAfter(n, rec[n].obj)
    BY Frame
  <2>3. RecGood(n, rec'[n])
    BY <2>1, <2>2 DEF RecGood, PreparedAfter
  <2>4. QED
    BY <1>o, <2>1, <2>3
<1>u. CASE rec' = rec
  BY <1>k, <1>u
<1>z. ASSUME NEW n \in Targets, rec' = [rec EXCEPT ![n] = Idle] PROVE Goal
  <2>1. \A m \in Targets : rec'[m] = IF m = n THEN Idle ELSE rec[m]
    BY <1>0, <1>z
  <2>2. RecGood(n, rec'[n])
    BY <1>i, <2>1 DEF RecGood, TruthAfter, PreparedAfter
  <2>3. QED
    BY <1>o, <2>1, <2>2
<1>1. ASSUME NEW n \in Targets, Reconcile(n) PROVE Goal
  <2>1. CASE cache[n].st = "none" \/ FirstStep(cache[n]) = "none"
    BY <1>1, <1>u, <2>1 DEF Reconcile
  <2>2. CASE ~(cache[n].st = "none" \/ FirstStep(cache[n]) = "none")
    <3> DEFINE r == [Idle EXCEPT !.step = FirstStep(cache[n]), !.obj = cache[n]]
    <3>1. rec' = [rec EXCEPT ![n] = r]
      BY <1>1, <2>2 DEF Reconcile
    <3>2. r.step = FirstStep(cache[n]) /\ r.obj = cache[n]
      BY IdleType DEF RecType
    <3> HIDE DEF r
    <3>3. \A m \in Targets : rec'[m] = IF m = n THEN r ELSE rec[m]
      BY <1>0, <3>1
    <3>4. TruthAfter(n, cache[n]) /\ cache[n] \in Object /\ WaivedCopy(cache[n])
      BY Frame DEF RestoreInv, ObjectInv
    <3>5. PreparedAfter(n, r)
      BY <1>0, <3>2, <3>4, StampDecided DEF PreparedAfter, WaivedCopy
    <3>6. RecGood(n, rec'[n])
      BY <3>2, <3>3, <3>4, <3>5 DEF RecGood
    <3>7. QED
      BY <1>o, <3>3, <3>6
  <2>3. QED
    BY <2>1, <2>2
<1>2. ASSUME NEW n \in Targets, addFinalizer(n) PROVE Goal
  <2>0. /\ TruthAfter(n, obj[n]) /\ obj[n] \in Object /\ WaivedCopy(obj[n])
        /\ rec[n] \in RecType /\ obj \in [Targets -> Object]
    BY Frame DEF RestoreInv, ObjectInv, RestoreTypeOK
  <2>1. CASE obj[n] = rec[n].obj /\ NextStep(obj[n]) = "none"
    BY <1>2, <1>e, <2>0, <2>1 DEF addFinalizer
  <2>2. CASE obj[n] = rec[n].obj /\ NextStep(obj[n]) # "none"
    <3> DEFINE x == [obj[n] EXCEPT !.fin = TRUE]
               r == [rec[n] EXCEPT !.step = NextStep(obj[n]), !.obj = obj'[n]]
    <3>1. obj' = [obj EXCEPT ![n] = x] /\ rec' = [rec EXCEPT ![n] = r]
      BY <1>2, <2>2 DEF addFinalizer
    <3>2. SameStatus(obj[n], x) /\ obj'[n] = x
      BY <2>0, <3>1 DEF SameStatus, Object
    <3>3. r.step = NextStep(obj[n]) /\ r.obj = x
      BY <2>0, <3>2 DEF RecType
    <3> HIDE DEF r, x
    <3>4. \A m \in Targets : rec'[m] = IF m = n THEN r ELSE rec[m]
      BY <1>0, <3>1
    <3>5. TruthAfter(n, r.obj)
      BY <2>0, <3>2, <3>3 DEF TruthAfter, Recorded, SameStatus
    <3>6. PreparedAfter(n, r)
      BY <1>0, <2>0, <3>2, <3>3, StampDecided DEF PreparedAfter, WaivedCopy, Recorded, SameStatus
    <3>7. QED
      BY <1>o, <3>4, <3>5, <3>6 DEF RecGood
  <2>3. CASE obj[n] # rec[n].obj
    BY <1>2, <1>f, <2>3 DEF addFinalizer
  <2>4. QED
    BY <2>1, <2>2, <2>3
<1>3. ASSUME NEW n \in Targets, RestoreActiveBranch(n) PROVE Goal
  <2>0. /\ branch' = branch /\ Tip' = Tip /\ n \in Nat \ {0} /\ Tip \in 1 .. Tip /\ waived' = waived
        /\ \A c \in 1 .. Tip : branch[c].dry \in Dries
    <3>1. branch' = branch /\ Tip' = Tip /\ waived' = waived
      BY <1>3 DEF RestoreActiveBranch, gitVars, apiVars, Tip
    <3>2. \A c \in 1 .. Tip : branch[c] \in Commit
      BY DEF RestoreInv, RestoreTypeOK, Tip
    <3>3. \A c \in 1 .. Tip : branch[c].dry \in Dries
      BY <3>2 DEF Commit
    <3>4. QED
      BY <1>0, <3>1, <3>3
  <2>1. CASE Errs(n)
    BY <1>f, <2>1
  <2>2. CASE n <= Tip /\ branch[n].dry = branch[Tip].dry /\ branch[Tip].from # n /\ Records(n, Tip, 0)
    <3>1. n \in 1 .. Tip
      BY <1>0, <2>0, <2>2
    <3>2. QED
      BY <1>r, <2>0, <2>2, <3>1
  <2>3. CASE Goto(n, "delete")
    BY <1>g, <2>3 DEF Steps
  <2>4. CASE n <= Tip /\ branch[n].dry = branch[Tip].dry /\ branch[Tip].from = n /\ Records(n, Tip, branch[Tip - 1].dry)
    <3>1. n \in 1 .. Tip /\ Tip - 1 \in 1 .. Tip
      BY <1>0, <2>0, <2>4 DEF BranchOK
    <3>2. branch[Tip - 1].dry \in {0} \cup Dries
      BY <2>0, <3>1
    <3>3. QED
      BY <1>r, <2>0, <2>4, <3>1, <3>2
  <2>5. CASE n <= Tip /\ branch[n].dry # branch[Tip].dry /\ rec' = [rec EXCEPT ![n].step = "push", ![n].tip = Tip]
    <3> DEFINE r == [rec[n] EXCEPT !.step = "push", !.tip = Tip]
    <3>1. rec' = [rec EXCEPT ![n] = r] /\ rec[n] \in RecType
      BY <1>0, <2>5
    <3>2. r.step = "push" /\ r.tip = Tip /\ r.obj = rec[n].obj
      BY <3>1 DEF RecType
    <3> HIDE DEF r
    <3>3. \A m \in Targets : rec'[m] = IF m = n THEN r ELSE rec[m]
      BY <1>0, <3>1
    <3>4. TruthAfter(n, r.obj)
      BY <3>2, Frame
    <3>5. n \in 1 .. Tip
      BY <1>0, <2>0, <2>5
    <3>6. PreparedAfter(n, r)
      BY <2>0, <2>5, <3>2, <3>5 DEF PreparedAfter
    <3>7. QED
      BY <1>o, <3>3, <3>4, <3>6 DEF RecGood
  <2>6. QED
    BY <1>3, <2>1, <2>2, <2>3, <2>4, <2>5
       DEF RestoreActiveBranch, ensureInHistory, hasRestoreMarker
<1>4. ASSUME NEW n \in Targets, pushCommitWithLease(n) PROVE Goal
  <2>1. CASE Tip = rec[n].tip /\ Tip < MaxCommits
    <3> DEFINE x == [hyd |-> 0, dry |-> branch[n].dry, from |-> n]
    <3>1. n \in 1 .. Tip
      BY <1>4, <2>1 DEF pushCommitWithLease, RestoreInv, ObjectInv, Prepared
    <3>2. x \in Commit /\ branch' = Append(branch, x) /\ x.from = n /\ x.dry = branch[n].dry
      BY <1>4, <2>1, <3>1, CommitType DEF pushCommitWithLease, Restored, RestoreInv
    <3> HIDE DEF x
    <3>3. branch \in Seq(Commit) /\ Tip = Len(branch)
      BY DEF RestoreInv, RestoreTypeOK, Tip
    <3>4. Tip' = Tip + 1 /\ branch'[Tip + 1] = x /\ \A c \in 1 .. Tip : branch'[c] = branch[c]
      BY <3>2, <3>3, AppendEffect DEF Tip
    <3>5. Records(n, Tip + 1, branch[Tip].dry)
      BY <1>4, <2>1 DEF pushCommitWithLease
    <3>6. Tip + 1 \in 1 .. Tip' /\ n \in 1 .. Tip' /\ (Tip + 1) - 1 = Tip /\ Tip \in 1 .. Tip
      BY <1>0, <3>1, <3>4
    <3>7. branch[Tip] \in Commit
      BY <3>3, <3>6
    <3>8. branch[Tip].dry \in {0} \cup Dries
      BY <3>7 DEF Commit
    <3>9. branch'[Tip + 1].dry = branch'[n].dry /\ branch'[Tip + 1].from = n /\ branch'[(Tip + 1) - 1].dry = branch[Tip].dry
      BY <3>1, <3>2, <3>4, <3>6
    <3>10. QED
      BY <1>r, <3>5, <3>6, <3>8, <3>9
  <2>2. CASE ~(Tip = rec[n].tip /\ Tip < MaxCommits)
    BY <1>4, <1>f, <2>2 DEF pushCommitWithLease
  <2>3. QED
    BY <2>1, <2>2
<1>5. ASSUME NEW n \in Targets, unblockRestoreOnDelete(n) PROVE Goal
  BY <1>5, <1>g DEF unblockRestoreOnDelete, Steps
<1>6. ASSUME NEW n \in Targets, selfDelete(n) \/ removeFinalizer(n) PROVE Goal
  <2>1. rec[n].obj \in Object /\ TruthAfter(n, rec[n].obj)
    BY Frame
  <2>2. QED
    BY <1>6, <1>e, <1>f, <2>1 DEF selfDelete, removeFinalizer
<1>7. ASSUME NEW n \in Targets, applyStatus(n) \/ CallFails(n) PROVE Goal
  BY <1>7, <1>f, <1>z DEF applyStatus, CallFails
<1>8. CASE Crash
  BY <1>8, <1>i DEF Crash, RecGood, TruthAfter, PreparedAfter
<1>9. CASE Policy \/ MergePullRequest \/ User \/ UNCHANGED vars \/ \E n \in Targets : Deliver(n)
  BY <1>9, <1>u DEF Policy, observe, PolicyReconcile, MergePullRequest, User, MergeByHand, Hydrate, RestoreByHand,
                    CreateObject, SetBlock, DeleteObject, Deliver, vars, ctlVars
<1>10. QED
  BY <1>1, <1>2, <1>3, <1>4, <1>5, <1>6, <1>7, <1>8, <1>9 DEF Next, Controller
-----------------------------------------------------------------------------
(* The invariant and the theorems.                                         *)

LEMMA ObjectsStep ==
    ASSUME RestoreInv, [Next]_vars
    PROVE  \A n \in Targets : ObjectInv(n)'
<1> SUFFICES ASSUME NEW n \in Targets PROVE ObjectInv(n)'
  OBVIOUS
<1>1. /\ TruthAfter(n, obj[n]) /\ TruthAfter(n, cache[n]) /\ TruthAfter(n, rec[n].obj)
      /\ WaivedCopy(obj[n]) /\ WaivedCopy(cache[n]) /\ waived \subseteq waived'
  BY Frame, ObjStep DEF RestoreInv, ObjectInv
<1>2. ObjMove(n) /\ (cache'[n] = cache[n] \/ cache'[n] = obj[n]) /\ RecGood(n, rec'[n])
  BY ObjStep, CacheStep, RecStep
<1>3. TruthAfter(n, obj'[n])
  BY <1>1, <1>2 DEF ObjMove, Keeps, SameStatus, TruthAfter, Recorded
<1>4. WaivedCopy(obj[n])'
  BY <1>1, <1>2 DEF ObjMove, Keeps, SameStatus, WaivedCopy, Recorded
<1>5. TruthAfter(n, cache'[n]) /\ WaivedCopy(cache[n])'
  BY <1>1, <1>2 DEF WaivedCopy
<1>6. Truthful(n, obj[n])' /\ Truthful(n, cache[n])' /\ Truthful(n, rec[n].obj)'
  BY <1>2, <1>3, <1>5 DEF Truthful, TruthAfter, RecGood
<1>7. Prepared(n, rec[n])'
  BY <1>2 DEF Prepared, PreparedAfter, RecGood
<1>8. QED
  BY <1>4, <1>5, <1>6, <1>7 DEF ObjectInv

LEMMA PolicyAtStep == RestoreInv /\ [Next]_vars => PolicyAt'
<1> SUFFICES ASSUME RestoreInv, [Next]_vars PROVE PolicyAt'
  OBVIOUS
<1>0. PolicyAt /\ Grows /\ Tip \in Nat \ {0} /\ Tip' \in Nat
  <2>1. RestoreTypeOK /\ RestoreTypeOK' /\ Grows
    BY BranchStep, BranchEffect, TypeStep DEF RestoreInv
  <2>2. /\ branch \in Seq(Commit) /\ Len(branch) \in 1 .. MaxCommits
        /\ branch' \in Seq(Commit) /\ MaxCommits \in Nat
    BY <2>1, Bounds DEF RestoreTypeOK
  <2>3. Tip \in Nat \ {0} /\ Tip' \in Nat
    BY <2>2 DEF Tip
  <2>4. QED
    BY <2>1, <2>3 DEF RestoreInv
<1>u. CASE pol' = pol
  BY <1>0, <1>u DEF PolicyAt, Grows
<1>i. CASE pol' = PIdle
  BY <1>i DEF PolicyAt, PIdle
<1>1. CASE observe
  <2>1. pol'.tip = Tip
    BY <1>1 DEF observe
  <2>2. QED
    BY <1>0, <2>1 DEF PolicyAt, Grows
<1>2. CASE PolicyReconcile \/ Crash
  BY <1>2, <1>i DEF PolicyReconcile, Crash
<1>3. ASSUME NEW n \in Targets, Controller(n) \/ Deliver(n) \/ CallFails(n) PROVE PolicyAt'
  BY <1>3, <1>u DEF Controller, Reconcile, addFinalizer, RestoreActiveBranch, pushCommitWithLease,
                    unblockRestoreOnDelete, selfDelete, removeFinalizer, applyStatus, Deliver, CallFails, policyVars
<1>4. CASE MergePullRequest \/ User \/ UNCHANGED vars
  BY <1>4, <1>u DEF MergePullRequest, User, MergeByHand, Hydrate, RestoreByHand, CreateObject, SetBlock,
                    DeleteObject, vars, policyVars
<1>5. QED
  BY <1>1, <1>2, <1>3, <1>4 DEF Next, Policy

\* The stamp is the only write of the notes, and its reconcile relies on a waiver.
LEMMA LiftedStep == RestoreInv /\ [Next]_vars => LiftedByUser'
<1> SUFFICES ASSUME RestoreInv, [Next]_vars PROVE LiftedByUser'
  OBVIOUS
<1>0. stamped \subseteq waived /\ waived \subseteq waived'
  BY ObjStep DEF RestoreInv, LiftedByUser
<1>u. CASE stamped' = stamped
  BY <1>0, <1>u DEF LiftedByUser
<1>1. ASSUME NEW n \in Targets, unblockRestoreOnDelete(n) PROVE LiftedByUser'
  <2>1. rec[n].obj.active \in waived
    BY <1>1 DEF unblockRestoreOnDelete, RestoreInv, ObjectInv, Prepared
  <2>2. QED
    BY <1>0, <1>1, <2>1 DEF unblockRestoreOnDelete, UnblockRestore, LiftedByUser
<1>2. ASSUME NEW n \in Targets, Controller(n), ~unblockRestoreOnDelete(n) PROVE LiftedByUser'
  BY <1>2, <1>u DEF Controller, Reconcile, addFinalizer, RestoreActiveBranch, pushCommitWithLease,
                    selfDelete, removeFinalizer, applyStatus, gitVars
<1>3. CASE Policy \/ MergePullRequest \/ User \/ Crash \/ UNCHANGED vars \/ \E n \in Targets : Deliver(n) \/ CallFails(n)
  BY <1>3, <1>u DEF Policy, observe, PolicyReconcile, MergePullRequest, User, MergeByHand, Hydrate, RestoreByHand,
                    CreateObject, SetBlock, DeleteObject, Crash, vars, Deliver, CallFails, gitVars
<1>4. QED
  BY <1>1, <1>2, <1>3 DEF Next

LEMMA StepInv == RestoreInv /\ [Next]_vars => RestoreInv'
<1> SUFFICES ASSUME RestoreInv, [Next]_vars PROVE RestoreInv'
  OBVIOUS
<1>1. RestoreTypeOK' /\ BranchOK' /\ NoEmptyRestore'
  BY TypeStep, BranchStep, BranchEffect DEF RestoreInv
<1>2. PolicyAt' /\ LiftedByUser' /\ \A n \in Targets : ObjectInv(n)'
  BY PolicyAtStep, LiftedStep, ObjectsStep
<1>3. QED
  BY <1>1, <1>2 DEF RestoreInv

LEMMA InitInv == Init => RestoreInv
<1> SUFFICES ASSUME Init PROVE RestoreInv
  OBVIOUS
<1>0. Past \in 1 .. Len(Renders) /\ Past <= MaxCommits /\ MaxCommits \in Nat /\ Len(Renders) \in Nat /\ Past \in Nat
  BY RestoreAssumption
<1>1. ASSUME NEW h \in 1 .. Past PROVE branch[h] \in Commit /\ branch[h].from = 0
  <2>1. h \in 0 .. Len(Renders) /\ h \in 1 .. Len(Renders) /\ 0 \in 0 .. MaxCommits
    BY <1>0
  <2>2. branch[h] = [hyd |-> h, dry |-> Renders[h], from |-> 0] /\ Renders[h] \in Dries
    BY <2>1, Bounds DEF Init
  <2>3. QED
    BY <2>1, <2>2 DEF Commit
<1>2. branch \in [1 .. Past -> Commit]
  BY <1>1 DEF Init
<1>3. branch \in Seq(Commit) /\ Len(branch) = Past /\ Tip = Past
  BY <1>0, <1>2 DEF Tip
<1>4. ~Recorded(NoObject) /\ Idle.obj = NoObject /\ Idle.step = "idle"
  BY DEF NoObject, Recorded, Idle
<1>5. PIdle \in [busy: BOOLEAN, tip: 0 .. MaxCommits, free: BOOLEAN, head: 0 .. Len(Renders)] /\ ~PIdle.busy
  BY Bounds DEF PIdle
<1>6. RestoreTypeOK
  <2>1. obj \in [Targets -> Object] /\ cache \in [Targets -> Object]
    BY NoObjectType DEF Init
  <2>2. queued \in [Targets -> BOOLEAN] /\ rec \in [Targets -> RecType]
    BY IdleType DEF Init
  <2>3. acts \in 0 .. MaxActs /\ moves \in 0 .. MaxMoves /\ fails \in 0 .. MaxFails /\ lags \in 0 .. MaxLags
    BY Bounds DEF Init
  <2>4. head \in 1 .. Len(Renders) /\ Len(branch) \in 1 .. MaxCommits
    BY <1>0, <1>3 DEF Init
  <2>5. QED
    BY <1>3, <1>5, <2>1, <2>2, <2>3, <2>4 DEF Init, RestoreTypeOK, RecType
<1>7. BranchOK /\ NoEmptyRestore
  BY <1>0, <1>1, <1>3 DEF BranchOK, NoEmptyRestore, IsRestore
<1>8. ASSUME NEW n \in Targets PROVE ObjectInv(n)
  <2>1. obj[n] = NoObject /\ cache[n] = NoObject /\ rec[n] = Idle
    BY DEF Init
  <2>2. QED
    BY <1>4, <2>1 DEF ObjectInv, Truthful, WaivedCopy, Prepared
<1>9. PolicyAt /\ LiftedByUser
  BY <1>5 DEF Init, PolicyAt, LiftedByUser
<1>10. QED
  BY <1>6, <1>7, <1>8, <1>9 DEF RestoreInv

LEMMA RestoreInvariant == Spec => []RestoreInv
BY InitInv, StepInv, PTL DEF Spec

\* Every variable keeps its type, whatever the workers, the policy, the users
\* and the failures do.
THEOREM RestoreTypeCorrect == Spec => []RestoreTypeOK
<1>1. RestoreInv => RestoreTypeOK
  BY DEF RestoreInv
<1>2. QED
  BY <1>1, RestoreInvariant, PTL

\* No restore commit has the content of the commit under it: the lease makes
\* the comparison that RestoreActiveBranch made of the tip hold at the push.
THEOREM RestoresAreNotEmpty == Spec => []NoEmptyRestore
<1>1. RestoreInv => NoEmptyRestore
  BY DEF RestoreInv
<1>2. QED
  BY <1>1, RestoreInvariant, PTL

\* Only a commit that somebody set blockEnvironment to false for is stamped as
\* released, by a reconcile of whatever stale copy.
THEOREM HoldsLiftedByUser == Spec => []LiftedByUser
<1>1. RestoreInv => LiftedByUser
  BY DEF RestoreInv
<1>2. QED
  BY <1>1, RestoreInvariant, PTL

\* What the status of an object says of the active branch is so, though it is
\* applied by name from a copy that may be older than the object.
THEOREM RecordedIsTruthful == Spec => []RecordedTruthful
<1>1. RestoreInv => RecordedTruthful
  BY DEF RestoreInv, ObjectInv, Truthful, RecordedTruthful
<1>2. QED
  BY <1>1, RestoreInvariant, PTL

\* A step appends to the active branch or leaves it: no promotion is lost to a
\* restore that was prepared before it landed.
THEOREM BranchAppendsOnly == Spec => AppendOnly
<1>1. RestoreInv /\ [Next]_vars => [Tip' >= Tip /\ SubSeq(branch', 1, Tip) = branch]_vars
  <2> SUFFICES ASSUME RestoreInv, [Next]_vars
               PROVE  Tip' >= Tip /\ SubSeq(branch', 1, Tip) = branch
    OBVIOUS
  <2>1. /\ branch \in Seq(Commit) /\ branch' \in Seq(Commit) /\ Grows
        /\ Tip = Len(branch) /\ Tip' = Len(branch') /\ Tip \in Nat /\ Tip' \in Nat
    <3>1. RestoreTypeOK /\ RestoreTypeOK' /\ Grows
      BY BranchStep, BranchEffect, TypeStep DEF RestoreInv
    <3>2. branch \in Seq(Commit) /\ branch' \in Seq(Commit)
      BY <3>1 DEF RestoreTypeOK
    <3>3. Tip = Len(branch) /\ Tip' = Len(branch')
      BY DEF Tip
    <3>4. QED
      BY <3>1, <3>2, <3>3
  <2>2. SubSeq(branch', 1, Tip) = branch
    BY <2>1 DEF Grows
  <2>3. QED
    BY <2>1, <2>2 DEF Grows
<1>2. QED
  BY <1>1, RestoreInvariant, PTL DEF Spec, AppendOnly

\* What the policy's reconcile took for released is released: a stamp is never
\* withdrawn.
FreeIsStamped == pol.busy /\ pol.free => pol.tip \in stamped

LEMMA FreeStep == FreeIsStamped /\ [Next]_vars => FreeIsStamped'
<1> SUFFICES ASSUME FreeIsStamped, [Next]_vars PROVE FreeIsStamped'
  OBVIOUS
<1>u. CASE pol' = pol /\ stamped \subseteq stamped'
  BY <1>u DEF FreeIsStamped
<1>i. CASE pol' = PIdle
  BY <1>i DEF FreeIsStamped, PIdle
<1>1. CASE observe
  <2>1. stamped' = stamped /\ pol'.tip = Tip /\ pol'.free = (Tip \in stamped)
    BY <1>1 DEF observe, gitVars
  <2>2. QED
    BY <2>1 DEF FreeIsStamped
<1>2. CASE PolicyReconcile \/ Crash
  BY <1>2, <1>i DEF PolicyReconcile, Crash
<1>3. ASSUME NEW n \in Targets, unblockRestoreOnDelete(n) PROVE FreeIsStamped'
  BY <1>3, <1>u DEF unblockRestoreOnDelete, UnblockRestore, policyVars
<1>4. ASSUME NEW n \in Targets, Controller(n) \/ Deliver(n) \/ CallFails(n), ~unblockRestoreOnDelete(n)
      PROVE  FreeIsStamped'
  BY <1>4, <1>u DEF Controller, Reconcile, addFinalizer, RestoreActiveBranch, pushCommitWithLease,
                    selfDelete, removeFinalizer, applyStatus, Deliver, CallFails, gitVars, policyVars
<1>5. CASE MergePullRequest \/ User \/ UNCHANGED vars
  BY <1>5, <1>u DEF MergePullRequest, User, MergeByHand, Hydrate, RestoreByHand, CreateObject, SetBlock,
                    DeleteObject, vars, gitVars, policyVars
<1>6. QED
  BY <1>1, <1>2, <1>3, <1>4, <1>5 DEF Next, Policy

\* Only the policy's reconcile records the intent to merge.
LEMMA IntentOfPolicy == [Next]_vars /\ pr # "merging" /\ pr' = "merging" => PolicyReconcile
<1> SUFFICES ASSUME [Next]_vars, ~PolicyReconcile, pr # "merging" PROVE pr' # "merging"
  OBVIOUS
<1>1. ASSUME NEW n \in Targets, Controller(n) \/ Deliver(n) \/ CallFails(n) PROVE pr' = pr
  BY <1>1 DEF Controller, Reconcile, addFinalizer, RestoreActiveBranch, pushCommitWithLease,
              unblockRestoreOnDelete, selfDelete, removeFinalizer, applyStatus, Deliver, CallFails, policyVars
<1>2. CASE observe \/ Hydrate \/ Crash \/ UNCHANGED vars
  BY <1>2 DEF observe, Hydrate, Crash, vars, policyVars
<1>3. CASE MergePullRequest \/ MergeByHand
  BY <1>3 DEF MergePullRequest, MergeByHand
<1>4. CASE (\E c \in Targets : RestoreByHand(c))
           \/ \E n \in Targets : \E b \in BOOLEAN : CreateObject(n, b) \/ SetBlock(n, b) \/ DeleteObject(n)
  BY <1>4 DEF RestoreByHand, CreateObject, SetBlock, DeleteObject, policyVars
<1>5. QED
  BY <1>1, <1>2, <1>3, <1>4 DEF Next, Policy, User

\* The policy records the intent to merge only for a tip that is no restore or
\* was released, and it still is when the intent is recorded.
THEOREM HoldsAreHonoured == Spec => HoldHonoured
<1>1. Init => FreeIsStamped
  BY DEF Init, FreeIsStamped, PIdle
<1>2. FreeIsStamped /\ [Next]_vars => [pr # "merging" /\ pr' = "merging" => ~Holds(pol.tip)]_vars
  <2> SUFFICES ASSUME FreeIsStamped, [Next]_vars, pr # "merging", pr' = "merging"
               PROVE  ~Holds(pol.tip)
    OBVIOUS
  <2>1. pol.busy /\ pr' = mergePullRequests(createOrUpdatePullRequest)
    BY IntentOfPolicy DEF PolicyReconcile
  <2>2. createOrUpdatePullRequest # "merging"
    BY DEF createOrUpdatePullRequest
  <2>3. evaluateRevertGate \notin {"pending", "held"}
    BY <2>1, <2>2 DEF mergePullRequests
  <2>4. ~IsRestore(pol.tip) \/ pol.free
    BY <2>3 DEF evaluateRevertGate
  <2>5. QED
    BY <2>1, <2>4 DEF FreeIsStamped, Holds
<1>3. QED
  BY <1>1, <1>2, FreeStep, PTL DEF Spec, HoldHonoured
=============================================================================
