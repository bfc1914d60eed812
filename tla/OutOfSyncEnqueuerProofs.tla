---------------------- MODULE OutOfSyncEnqueuerProofs ----------------------
(***************************************************************************)
(* Proofs about OutOfSyncEnqueuer, for every number of environments, dry   *)
(* commits, chains and restarts: the types, and that a disagreement that   *)
(* is armed has a chain of timers.                                         *)
(***************************************************************************)
EXTENDS OutOfSyncEnqueuer, WellFoundedInduction, TLAPS

\* A pass that has armed a state is at an environment, and what is armed is in
\* the map: markConverged and check look at has first.
PassAt  == pass.armed => pass.at \in Envs
Present == \A e \in Envs : states[e].armed # Zero => states[e].has

EnqueuerInv == TypeOK /\ PassAt /\ Present /\ ArmedHasChain

-----------------------------------------------------------------------------
(* Types of what the actions compute.                                      *)

LEMMA ZeroType == Zero \in Disagreements /\ 0 \in Dries /\ 0 \in 0 .. Threshold /\ Threshold \in 0 .. Threshold
BY EnqueuerAssumption DEF Zero, Disagreements, Dries

LEMMA OffType == Off \in Timer
BY ZeroType DEF Off, Timer

LEMMA NoStateType == NoState \in EnqueueState
BY ZeroType DEF NoState, EnqueueState

LEMMA WaitingType == ASSUME NEW d \in Disagreements PROVE Waiting(d) \in Timer
BY ZeroType DEF Waiting, Timer

LEMMA NoPassType == NoPass \in PassType
<1>1. 0 \in 0 .. N
  BY EnqueuerAssumption
<1>2. [e \in Envs |-> Zero] \in [Envs -> Disagreements]
  BY ZeroType
<1>3. QED
  BY <1>1, <1>2 DEF NoPass, PassType

\* The dry commit that a policy shows is one.
LEMMA EffectiveType ==
    ASSUME NEW p \in Proposed
    PROVE  getEffectiveProposedDrySha(p) \in Dries
BY DEF Proposed, getEffectiveProposedDrySha

LEMMA TargetType ==
    ASSUME NEW p \in [Envs -> Proposed], live \subseteq Envs
    PROVE  Target(p) \in Dries
<1>1. CASE Newest(p) = {}
  BY <1>1, ZeroType DEF Target
<1>2. CASE Newest(p) # {}
  <2> DEFINE e == CHOOSE x \in Newest(p) : TRUE
  <2>1. e \in Newest(p)
    BY <1>2
  <2>2. Newest(p) \subseteq Envs
    BY DEF Newest
  <2>3. p[e] \in Proposed
    BY <2>1, <2>2
  <2> HIDE DEF e
  <2>4. getEffectiveProposedDrySha(p[e]) \in Dries
    BY <2>3, EffectiveType
  <2>5. QED
    BY <1>2, <2>4 DEF Target, e
<1>3. QED
  BY <1>1, <1>2

\* A set of naturals that is not empty has a least element.
LEMMA LeastNat ==
    ASSUME NEW S, S \subseteq Nat, S # {}
    PROVE  \E n \in S : \A m \in S : n <= m
<1> DEFINE R == {ss \in Nat \X Nat : ss[1] < ss[2]}
<1>1. IsWellFoundedOn(R, Nat)
  BY NatLessThanWellFounded DEF OpToRel
<1> HIDE DEF R
<1>2. PICK n \in S : \A m \in S : ~(<<m, n>> \in R)
  BY <1>1, WFMin, Zenon
<1>3. \A m \in S : ~(m < n)
  BY <1>2 DEF R
<1>4. QED
  BY <1>3

\* From yields an environment with a policy, or 0.
LEMMA FromType ==
    ASSUME live \subseteq Envs, NEW e \in Int
    PROVE  From(e) \in 0 .. N /\ (From(e) # 0 => From(e) \in Envs)
<1>n. N \in Nat /\ 0 \in 0 .. N /\ Envs \subseteq 0 .. N
  BY EnqueuerAssumption DEF Envs
<1>1. CASE ~\E f \in live : f >= e
  BY <1>1, <1>n DEF From
<1>2. CASE \E f \in live : f >= e
  <2> DEFINE P(f) == f >= e /\ \A g \in live : g >= e => f <= g
  <2>1. \E f \in live : P(f)
    <3> DEFINE S == {f \in live : f >= e}
    <3>1. S # {}
      BY <1>2
    <3>n. S \subseteq Nat
      <4>1. live \subseteq Nat
        BY <1>n DEF Envs
      <4>2. QED
        BY <4>1
    <3>2. PICK f \in S : \A g \in S : f <= g
      BY <3>1, <3>n, LeastNat
    <3>3. QED
      BY <3>2
  <2>2. (CHOOSE f \in live : P(f)) \in live
    BY <2>1
  <2>3. From(e) = CHOOSE f \in live : P(f)
    BY <1>2 DEF From
  <2>4. QED
    BY <2>2, <2>3, <1>n
<1>3. QED
  BY <1>1, <1>2
\* What remains of the pass after an environment.
LEMMA AdvanceType ==
    ASSUME pass \in PassType, live \subseteq Envs, Advance
    PROVE  pass' \in PassType /\ ~pass'.armed
<1>1. pass.at + 1 \in Int
  BY EnqueuerAssumption DEF PassType
<1>2. From(pass.at + 1) \in 0 .. N
  BY <1>1, FromType
<1>3. CASE From(pass.at + 1) = 0
  BY <1>3, NoPassType DEF Advance, NoPass
<1>4. CASE From(pass.at + 1) # 0
  BY <1>2, <1>4 DEF Advance, PassType
<1>5. QED
  BY <1>3, <1>4

\* The disagreement of the environment the pass is at.
LEMMA GapType ==
    ASSUME pass \in PassType, pass.at # 0
    PROVE  pass.at \in Envs /\ pass.gap[pass.at] \in Disagreements
<1>1. pass.at \in Envs
  BY EnqueuerAssumption DEF PassType, Envs
<1>2. QED
  BY <1>1 DEF PassType

\* Writes to one timer and to one state.
LEMMA TimerWrite ==
    ASSUME timers \in [Envs -> [Slots -> Timer]], NEW e \in Envs, NEW k \in Slots, NEW t \in Timer
    PROVE  /\ [timers EXCEPT ![e][k] = t] \in [Envs -> [Slots -> Timer]]
           /\ [timers EXCEPT ![e][k] = t][e][k] = t
           /\ \A f \in Envs, j \in Slots :
                <<f, j>> # <<e, k>> => [timers EXCEPT ![e][k] = t][f][j] = timers[f][j]
OBVIOUS

LEMMA StateWrite ==
    ASSUME states \in [Envs -> EnqueueState], NEW e \in Envs, NEW s \in EnqueueState
    PROVE  [states EXCEPT ![e] = s] \in [Envs -> EnqueueState]
OBVIOUS

\* A nudge leaves what is armed.
LEMMA EnqueueEffect ==
    ASSUME states \in [Envs -> EnqueueState], nudged \subseteq Envs, NEW e \in Envs, enqueue(e)
    PROVE  /\ states' \in [Envs -> EnqueueState] /\ nudged' \subseteq Envs
           /\ \A f \in Envs : states'[f].armed = states[f].armed /\ (states[f].has => states'[f].has)
           /\ states'[e].has
<1>1. states' = [states EXCEPT ![e] = [states[e] EXCEPT !.has = TRUE, !.age = 0]]
  BY DEF enqueue
<1>2. [states[e] EXCEPT !.has = TRUE, !.age = 0] \in EnqueueState
  BY ZeroType DEF EnqueueState
<1>3. states' \in [Envs -> EnqueueState]
  BY <1>1, <1>2, StateWrite
<1>4. QED
  BY <1>1, <1>3 DEF enqueue, EnqueueState
-----------------------------------------------------------------------------
\* Every step keeps the types; a pass that has armed a state stays at an
\* environment.
LEMMA TypeStep == TypeOK /\ PassAt /\ [Next]_vars => TypeOK' /\ PassAt'
<1> SUFFICES ASSUME TypeOK, PassAt, [Next]_vars PROVE TypeOK' /\ PassAt'
  OBVIOUS
<1>0. /\ git \in [Envs -> Proposed] /\ shown \in [Envs -> Proposed]
      /\ pushes \in 0 .. MaxPushes /\ restarts \in 0 .. MaxRestarts
      /\ nudged \subseteq Envs /\ live \subseteq Envs
      /\ woken \in BOOLEAN /\ noteBased \in BOOLEAN
      /\ pass \in PassType
      /\ states \in [Envs -> EnqueueState]
      /\ timers \in [Envs -> [Slots -> Timer]]
  BY DEF TypeOK
<1>n. /\ MaxPushes \in Nat /\ MaxRestarts \in Nat /\ MaxDry \in Nat /\ Threshold \in Nat
      /\ pushes \in Nat /\ restarts \in Nat
  BY <1>0, EnqueuerAssumption
<1>1. CASE Requeue
  BY <1>0, <1>1 DEF Requeue, TypeOK, PassAt
<1>2. CASE Reconcile
  <2>1. Target(shown) \in Dries
    BY <1>0, TargetType
  <2>2. \A e \in Envs : getEffectiveProposedDrySha(shown[e]) \in Dries
    BY <1>0, EffectiveType
  <2> DEFINE gap == [e \in Envs |-> IF e \in live /\ OutOfSync(shown, e, noteBased')
                                    THEN <<getEffectiveProposedDrySha(shown[e]), Target(shown)>>
                                    ELSE Zero]
  <2>3. gap \in [Envs -> Disagreements]
    BY <2>1, <2>2, ZeroType DEF Disagreements
  <2>4. From(1) \in 0 .. N
    BY <1>0, FromType
  <2>5. pass' = IF Target(shown) = 0 THEN NoPass ELSE [NoPass EXCEPT !.at = From(1), !.gap = gap]
    BY <1>2 DEF Reconcile
  <2> HIDE DEF gap
  <2>6. [NoPass EXCEPT !.at = From(1), !.gap = gap] \in PassType
    BY <2>3, <2>4, NoPassType DEF PassType
  <2>7. pass' \in PassType
    BY <2>5, <2>6, NoPassType
  <2>8. ~pass'.armed
    BY <2>5 DEF NoPass
  <2>9. noteBased' \in BOOLEAN /\ woken' \in BOOLEAN
    BY <1>2, Zenon DEF Reconcile
  <2>10. QED
    BY <1>0, <1>2, <2>7, <2>8, <2>9 DEF Reconcile, TypeOK, PassAt
<1>3. CASE markConverged
  <2>1. pass' \in PassType /\ ~pass'.armed
    BY <1>0, <1>3, AdvanceType DEF markConverged
  <2>2. pass.at \in Envs
    BY <1>0, <1>3, GapType DEF markConverged
  <2>3. [states[pass.at] EXCEPT !.armed = Zero, !.seen = TRUE] \in EnqueueState
    <3>1. states[pass.at] \in EnqueueState
      BY <1>0, <2>2
    <3>2. QED
      BY <3>1, ZeroType DEF EnqueueState
  <2>4. states' \in [Envs -> EnqueueState]
    BY <1>0, <1>3, <2>2, <2>3, StateWrite DEF markConverged
  <2>5. QED
    BY <1>0, <1>3, <2>1, <2>4 DEF markConverged, TypeOK, PassAt
<1>4. CASE handleRateLimitedEnqueue
  <2>1. pass.at \in Envs /\ pass.gap[pass.at] \in Disagreements
    BY <1>0, <1>4, GapType DEF handleRateLimitedEnqueue
  <2>2. [states[pass.at] EXCEPT !.has = TRUE, !.seen = TRUE, !.armed = pass.gap[pass.at]] \in EnqueueState
    <3>1. states[pass.at] \in EnqueueState
      BY <1>0, <2>1
    <3>2. QED
      BY <2>1, <3>1 DEF EnqueueState
  <2>3. states' \in [Envs -> EnqueueState]
    BY <1>0, <1>4, <2>1, <2>2, StateWrite DEF handleRateLimitedEnqueue
  <2>4. pass' \in PassType /\ (pass'.armed => pass'.at \in Envs)
    <3>1. CASE Advance
      BY <1>0, <3>1, AdvanceType
    <3>2. CASE pass' = [pass EXCEPT !.armed = TRUE, !.limited = states[pass.at].age < Threshold]
      <4> DEFINE b == states[pass.at].age < Threshold
      <4>1. b \in BOOLEAN
        <5>1. states[pass.at].age \in Int /\ Threshold \in Int
          BY <1>0, <1>n, <2>1 DEF EnqueueState
        <5>2. QED
          BY <5>1
      <4>2. pass' = [pass EXCEPT !.armed = TRUE, !.limited = b]
        BY <3>2
      <4> HIDE DEF b
      <4>3. QED
        BY <1>0, <2>1, <4>1, <4>2 DEF PassType
    <3>3. QED
      BY <1>4, <3>1, <3>2 DEF handleRateLimitedEnqueue
  <2>5. QED
    BY <1>0, <1>4, <2>3, <2>4 DEF handleRateLimitedEnqueue, TypeOK, PassAt
<1>5. CASE startRetryChain
  <2>1. pass.at \in Envs /\ pass.at # 0
    BY <1>5, EnqueuerAssumption DEF startRetryChain, PassAt, Envs
  <2>2. Waiting(pass.gap[pass.at]) \in Timer
    BY <1>0, <2>1, GapType, WaitingType
  <2>3. timers' \in [Envs -> [Slots -> Timer]]
    BY <1>0, <1>5, <2>1, <2>2, TimerWrite DEF startRetryChain
  <2>4. states' \in [Envs -> EnqueueState] /\ nudged' \subseteq Envs
    BY <1>0, <1>5, <2>1, EnqueueEffect DEF startRetryChain
  <2>5. pass' \in PassType /\ ~pass'.armed
    BY <1>0, <1>5, AdvanceType DEF startRetryChain
  <2>6. QED
    BY <1>0, <1>5, <2>3, <2>4, <2>5 DEF startRetryChain, TypeOK, PassAt
<1>6. CASE Tick
  <2>1. \A e \in Envs : states'[e] \in EnqueueState
    <3> SUFFICES ASSUME NEW e \in Envs PROVE states'[e] \in EnqueueState
      OBVIOUS
    <3>1. states[e] \in EnqueueState /\ states[e].age \in 0 .. Threshold
      BY <1>0 DEF EnqueueState
    <3>2. (IF states[e].age < Threshold THEN states[e].age + 1 ELSE states[e].age) \in 0 .. Threshold
      BY <3>1, <1>n
    <3>3. QED
      BY <1>6, <3>1, <3>2 DEF Tick, EnqueueState
  <2>2. \A e \in Envs, k \in Slots : timers'[e][k] \in Timer
    <3> SUFFICES ASSUME NEW e \in Envs, NEW k \in Slots PROVE timers'[e][k] \in Timer
      OBVIOUS
    <3>1. timers[e][k] \in Timer /\ timers[e][k].left \in 0 .. Threshold
      BY <1>0 DEF Timer
    <3>2. (IF timers[e][k].left > 0 THEN timers[e][k].left - 1 ELSE 0) \in 0 .. Threshold
      BY <3>1, <1>n
    <3>3. QED
      BY <1>6, <3>1, <3>2 DEF Tick, Timer
  <2>3. states' \in [Envs -> EnqueueState]
    BY <1>6, <2>1 DEF Tick
  <2>4. timers' \in [Envs -> [Slots -> Timer]]
    BY <1>6, <2>2 DEF Tick
  <2>5. QED
    BY <1>0, <1>6, <2>3, <2>4 DEF Tick, TypeOK, PassAt
<1>7. CASE Restart
  <2>1. restarts' \in 0 .. MaxRestarts
    BY <1>7, <1>n DEF Restart
  <2>2. states' \in [Envs -> EnqueueState] /\ timers' \in [Envs -> [Slots -> Timer]]
    BY <1>7, NoStateType, OffType DEF Restart
  <2>3. pass' \in PassType /\ ~pass'.armed
    BY <1>7, NoPassType DEF Restart, NoPass
  <2>4. QED
    BY <1>0, <1>7, <2>1, <2>2, <2>3 DEF Restart, TypeOK, PassAt
<1>8. ASSUME NEW e \in Envs, NEW k \in Slots, check(e, k) PROVE TypeOK' /\ PassAt'
  <2>1. [timers[e][k] EXCEPT !.st = "nudge"] \in Timer
    <3>1. timers[e][k] \in Timer
      BY <1>0
    <3>2. QED
      BY <3>1 DEF Timer
  <2>2. timers' \in [Envs -> [Slots -> Timer]]
    BY <1>0, <1>8, <2>1, OffType, TimerWrite DEF check
  <2>3. QED
    BY <1>0, <1>8, <2>2 DEF check, TypeOK, PassAt
<1>9. ASSUME NEW e \in Envs, NEW k \in Slots, retry(e, k) PROVE TypeOK' /\ PassAt'
  <2>1. Waiting(timers[e][k].d) \in Timer
    BY <1>0, WaitingType DEF Timer
  <2>2. timers' \in [Envs -> [Slots -> Timer]]
    BY <1>0, <1>9, <2>1, TimerWrite DEF retry
  <2>3. states' \in [Envs -> EnqueueState] /\ nudged' \subseteq Envs
    BY <1>0, <1>9, EnqueueEffect DEF retry
  <2>4. QED
    BY <1>0, <1>9, <2>2, <2>3 DEF retry, TypeOK, PassAt
<1>10. ASSUME NEW e \in Envs, sweep(e) PROVE TypeOK' /\ PassAt'
  <2>1. states' \in [Envs -> EnqueueState]
    BY <1>0, <1>10, NoStateType, StateWrite DEF sweep
  <2>2. QED
    BY <1>0, <1>10, <2>1 DEF sweep, TypeOK, PassAt
<1>11. ASSUME NEW e \in Envs, Hour(e) PROVE TypeOK' /\ PassAt'
  <2>1. [states[e] EXCEPT !.seen = FALSE] \in EnqueueState
    BY <1>0 DEF EnqueueState
  <2>2. states' \in [Envs -> EnqueueState]
    BY <1>0, <1>11, <2>1, StateWrite DEF Hour
  <2>3. QED
    BY <1>0, <1>11, <2>2 DEF Hour, TypeOK, PassAt
<1>12. ASSUME NEW e \in Envs, Refresh(e) PROVE TypeOK' /\ PassAt'
  <2>1. shown' \in [Envs -> Proposed]
    BY <1>0, <1>12 DEF Refresh
  <2>2. woken' \in BOOLEAN
    BY <1>12, Zenon DEF Refresh
  <2>3. QED
    BY <1>0, <1>12, <2>1, <2>2 DEF Refresh, TypeOK, PassAt
<1>13. ASSUME NEW e \in Envs, PushCommit(e) PROVE TypeOK' /\ PassAt'
  <2>1. pushes + 1 \in 0 .. MaxPushes
    BY <1>13, <1>n DEF PushCommit
  <2>2. PICK d \in git[e].dry .. MaxDry : git' = [git EXCEPT ![e] = [dry |-> d, note |-> 0, time |-> pushes + 1]]
    BY <1>13 DEF PushCommit
  <2>3. git[e].dry \in 0 .. MaxDry
    BY <1>0 DEF Proposed, Dries
  <2>4. d \in Dries
    BY <2>2, <2>3, <1>n DEF Dries
  <2>5. [dry |-> d, note |-> 0, time |-> pushes + 1] \in Proposed
    BY <2>1, <2>4, ZeroType DEF Proposed
  <2>6. git' \in [Envs -> Proposed]
    BY <1>0, <2>2, <2>5
  <2>7. nudged' \subseteq Envs
    BY <1>0, <1>13 DEF PushCommit
  <2>8. QED
    BY <1>0, <1>13, <2>1, <2>6, <2>7 DEF PushCommit, TypeOK, PassAt
<1>14. ASSUME NEW e \in Envs, PushNote(e) PROVE TypeOK' /\ PassAt'
  <2>1. pushes + 1 \in 0 .. MaxPushes
    BY <1>14, <1>n DEF PushNote
  <2>2. PICK d \in git[e].dry .. MaxDry : git' = [git EXCEPT ![e].note = d]
    BY <1>14 DEF PushNote
  <2>3. git[e].dry \in 0 .. MaxDry /\ git[e] \in Proposed
    BY <1>0 DEF Proposed, Dries
  <2>4. d \in Dries
    BY <2>2, <2>3, <1>n DEF Dries
  <2>5. [git[e] EXCEPT !.note = d] \in Proposed
    BY <2>3, <2>4 DEF Proposed
  <2>6. git' \in [Envs -> Proposed]
    BY <1>0, <2>2, <2>5
  <2>7. QED
    BY <1>0, <1>14, <2>1, <2>6 DEF PushNote, TypeOK, PassAt
<1>15. ASSUME NEW e \in Envs, Remove(e) PROVE TypeOK' /\ PassAt'
  BY <1>0, <1>15 DEF Remove, TypeOK, PassAt
<1>16. CASE UNCHANGED vars
  BY <1>0, <1>16 DEF vars, TypeOK, PassAt
<1>17. QED
  BY <1>1, <1>2, <1>3, <1>4, <1>5, <1>6, <1>7, <1>8, <1>9, <1>10, <1>11, <1>12, <1>13, <1>14, <1>15, <1>16
     DEF Next, Strategy, CTPReconcile, CTPRequeue
-----------------------------------------------------------------------------
\* A chain of e for disagreement d.
Chained(e, d) == \E k \in Slots : timers[e][k].st # "off" /\ timers[e][k].d = d

\* What the invariant says of one environment.
Cover(e) ==
    states[e].armed # Zero =>
        /\ states[e].has
        /\ Chained(e, states[e].armed) \/ (pass.at = e /\ pass.armed /\ pass.gap[e] = states[e].armed)

LEMMA CoverInv == Present /\ ArmedHasChain <=> \A e \in Envs : Cover(e)
BY DEF Present, ArmedHasChain, Cover, Chained

\* The induction step, one environment at a time.
LEMMA ChainStep ==
    ASSUME TypeOK, PassAt, TypeOK', [Next]_vars, NEW f \in Envs, Cover(f)
    PROVE  Cover(f)'
<1>0. /\ nudged \subseteq Envs /\ live \subseteq Envs
      /\ pass \in PassType /\ pass' \in PassType
      /\ states \in [Envs -> EnqueueState] /\ states' \in [Envs -> EnqueueState]
      /\ timers \in [Envs -> [Slots -> Timer]] /\ timers' \in [Envs -> [Slots -> Timer]]
  BY DEF TypeOK
<1>n. pass.at = f => pass.at # 0
  BY EnqueuerAssumption DEF Envs
<1>s. ASSUME UNCHANGED <<pass, states, timers>> PROVE Cover(f)'
  BY <1>s DEF Cover, Chained
\* The chains of f and its state stay, and the pass has not armed it.
<1>k. ASSUME \A k \in Slots : timers'[f][k].st = timers[f][k].st /\ timers'[f][k].d = timers[f][k].d,
             states'[f].armed = states[f].armed, states[f].has => states'[f].has,
             ~(pass.at = f /\ pass.armed) \/ UNCHANGED pass
      PROVE  Cover(f)'
  BY <1>k DEF Cover, Chained
<1>2. CASE Reconcile
  <2>1. ~(pass.at = f /\ pass.armed)
    BY <1>2, <1>n DEF Reconcile
  <2>2. QED
    BY <1>2, <1>k, <2>1 DEF Reconcile
<1>3. CASE markConverged
  <2>1. pass.at \in Envs
    BY <1>0, <1>3, GapType DEF markConverged
  <2>2. CASE pass.at = f
    <3>1. CASE states[f].has
      <4>1. states'[f].armed = Zero
        BY <1>0, <1>3, <2>2, <3>1 DEF markConverged, EnqueueState
      <4>2. QED
        BY <4>1 DEF Cover
    <3>2. CASE ~states[f].has
      BY <1>3, <2>2, <3>2 DEF markConverged, Cover
    <3>3. QED
      BY <3>1, <3>2
  <2>3. CASE pass.at # f
    <3>1. states'[f] = states[f]
      BY <1>0, <1>3, <2>1, <2>3 DEF markConverged
    <3>2. QED
      BY <1>3, <1>k, <2>3, <3>1 DEF markConverged
  <2>4. QED
    BY <2>2, <2>3
<1>4. CASE handleRateLimitedEnqueue
  <2>1. pass.at \in Envs /\ pass.gap[pass.at] \in Disagreements
    BY <1>0, <1>4, GapType DEF handleRateLimitedEnqueue
  <2>2. CASE pass.at = f
    <3>1. states'[f].armed = pass.gap[f] /\ states'[f].has
      BY <1>0, <1>4, <2>2 DEF handleRateLimitedEnqueue, EnqueueState
    <3>2. CASE states[f].armed = pass.gap[f]
      BY <1>4, <1>k, <3>1, <3>2 DEF handleRateLimitedEnqueue
    <3>3. CASE states[f].armed # pass.gap[f]
      <4>1. PICK b : pass' = [pass EXCEPT !.armed = TRUE, !.limited = b]
        BY <1>4, <2>2, <3>3 DEF handleRateLimitedEnqueue
      <4>2. pass \in PassType
        BY <1>0
      <4>3. pass'.armed /\ pass'.at = f /\ pass'.gap[f] = pass.gap[f]
        BY <2>2, <4>1, <4>2 DEF PassType
      <4>4. QED
        BY <3>1, <4>3 DEF Cover
    <3>4. QED
      BY <3>2, <3>3
  <2>3. CASE pass.at # f
    <3>1. states'[f] = states[f]
      BY <1>0, <1>4, <2>1, <2>3 DEF handleRateLimitedEnqueue
    <3>2. QED
      BY <1>4, <1>k, <2>3, <3>1 DEF handleRateLimitedEnqueue
  <2>4. QED
    BY <2>2, <2>3
<1>5. CASE startRetryChain
  <2>1. pass.at \in Envs /\ pass.at # 0
    BY <1>5, EnqueuerAssumption DEF startRetryChain, PassAt, Envs
  <2>2. Waiting(pass.gap[pass.at]) \in Timer
    BY <1>0, <2>1, GapType, WaitingType
  <2>3. PICK k \in Slots : /\ timers[pass.at][k].st = "off"
                           /\ timers' = [timers EXCEPT ![pass.at][k] = Waiting(pass.gap[pass.at])]
    BY <1>5 DEF startRetryChain
  <2>4. /\ timers'[pass.at][k] = Waiting(pass.gap[pass.at])
        /\ \A e \in Envs, j \in Slots : <<e, j>> # <<pass.at, k>> => timers'[e][j] = timers[e][j]
    BY <1>0, <2>1, <2>2, <2>3, TimerWrite
  <2>5. states'[f].armed = states[f].armed /\ (states[f].has => states'[f].has)
    BY <1>0, <1>5, <2>1, EnqueueEffect DEF startRetryChain
  <2>6. CASE pass.at = f
    <3>1. ASSUME Chained(f, states[f].armed) PROVE Chained(f, states[f].armed)'
      <4>1. PICK j \in Slots : timers[f][j].st # "off" /\ timers[f][j].d = states[f].armed
        BY <3>1 DEF Chained
      <4>2. timers'[f][j] = timers[f][j]
        BY <2>3, <2>4, <2>6, <4>1
      <4>3. QED
        BY <2>5, <4>1, <4>2 DEF Chained
    <3>2. ASSUME pass.gap[f] = states[f].armed PROVE Chained(f, states[f].armed)'
      BY <2>4, <2>5, <2>6, <3>2 DEF Chained, Waiting
    <3>3. QED
      BY <2>5, <3>1, <3>2 DEF Cover
  <2>7. CASE pass.at # f
    <3>1. \A j \in Slots : timers'[f][j] = timers[f][j]
      BY <2>4, <2>7
    <3>2. QED
      BY <1>k, <2>5, <2>7, <3>1
  <2>8. QED
    BY <2>6, <2>7
<1>6. CASE Tick
  <2>1. \A k \in Slots : timers'[f][k].st = timers[f][k].st /\ timers'[f][k].d = timers[f][k].d
    <3> SUFFICES ASSUME NEW k \in Slots
                 PROVE  timers'[f][k].st = timers[f][k].st /\ timers'[f][k].d = timers[f][k].d
      OBVIOUS
    <3>1. timers[f][k] \in Timer
      BY <1>0
    <3>2. timers'[f][k] = [timers[f][k] EXCEPT !.left = IF @ > 0 THEN @ - 1 ELSE 0]
      BY <1>6 DEF Tick
    <3>3. QED
      BY <3>1, <3>2 DEF Timer
  <2>2. states'[f].armed = states[f].armed /\ states'[f].has = states[f].has
    BY <1>0, <1>6 DEF Tick, EnqueueState
  <2>3. QED
    BY <1>6, <1>k, <2>1, <2>2 DEF Tick
<1>7. CASE Restart
  <2>1. states'[f].armed = Zero
    BY <1>7 DEF Restart, NoState
  <2>2. QED
    BY <2>1 DEF Cover
<1>8. ASSUME NEW e \in Envs, NEW k \in Slots, check(e, k) PROVE Cover(f)'
  <2> DEFINE t == IF states[e].has /\ states[e].armed = timers[e][k].d
                  THEN [timers[e][k] EXCEPT !.st = "nudge"] ELSE Off
  <2>0. timers[e][k] \in Timer
    BY <1>0
  <2>1. timers[e][k] \in Timer /\ [timers[e][k] EXCEPT !.st = "nudge"] \in Timer
    BY <2>0 DEF Timer
  <2>2. t \in Timer /\ timers' = [timers EXCEPT ![e][k] = t]
    BY <1>8, <2>1, OffType DEF check
  <2>3. timers'[e][k] = t /\ \A g \in Envs, j \in Slots : <<g, j>> # <<e, k>> => timers'[g][j] = timers[g][j]
    BY <1>0, <2>2, TimerWrite
  <2>4. ASSUME Chained(f, states[f].armed), states[f].has PROVE Chained(f, states[f].armed)'
    <3>1. PICK j \in Slots : timers[f][j].st # "off" /\ timers[f][j].d = states[f].armed
      BY <2>4 DEF Chained
    <3>2. CASE <<f, j>> # <<e, k>>
      BY <1>8, <2>3, <3>1, <3>2 DEF Chained, check
    <3>3. CASE <<f, j>> = <<e, k>>
      <4>1. f = e /\ j = k
        BY <3>3
      <4>2. timers'[f][j] = [timers[f][j] EXCEPT !.st = "nudge"]
        BY <2>3, <2>4, <3>1, <4>1
      <4>3. timers'[f][j].st = "nudge" /\ timers'[f][j].d = timers[f][j].d
        BY <2>1, <4>1, <4>2 DEF Timer
      <4>4. QED
        BY <1>8, <3>1, <4>3 DEF Chained, check
    <3>4. QED
      BY <3>2, <3>3
  <2>5. QED
    BY <1>8, <2>4 DEF Cover, check
<1>9. ASSUME NEW e \in Envs, NEW k \in Slots, retry(e, k) PROVE Cover(f)'
  <2>1. Waiting(timers[e][k].d) \in Timer
    BY <1>0, WaitingType DEF Timer
  <2>2. /\ timers'[e][k] = Waiting(timers[e][k].d)
        /\ \A g \in Envs, j \in Slots : <<g, j>> # <<e, k>> => timers'[g][j] = timers[g][j]
    BY <1>0, <1>9, <2>1, TimerWrite DEF retry
  <2>3. states'[f].armed = states[f].armed /\ (states[f].has => states'[f].has)
    BY <1>0, <1>9, EnqueueEffect DEF retry
  <2>4. ASSUME Chained(f, states[f].armed) PROVE Chained(f, states[f].armed)'
    <3>1. PICK j \in Slots : timers[f][j].st # "off" /\ timers[f][j].d = states[f].armed
      BY <2>4 DEF Chained
    <3>2. timers'[f][j].st # "off" /\ timers'[f][j].d = timers[f][j].d
      BY <2>2, <3>1 DEF Waiting
    <3>3. QED
      BY <2>3, <3>1, <3>2 DEF Chained
  <2>5. QED
    BY <1>9, <2>3, <2>4 DEF Cover, retry
<1>10. ASSUME NEW e \in Envs, sweep(e) PROVE Cover(f)'
  <2>1. CASE e = f
    <3>1. states'[f].armed = Zero
      BY <1>0, <1>10, <2>1 DEF sweep, NoState
    <3>2. QED
      BY <3>1 DEF Cover
  <2>2. CASE e # f
    BY <1>0, <1>10, <1>k, <2>2 DEF sweep
  <2>3. QED
    BY <2>1, <2>2
<1>11. ASSUME NEW e \in Envs, Hour(e) PROVE Cover(f)'
  <2>1. states'[f].armed = states[f].armed /\ states'[f].has = states[f].has
    BY <1>0, <1>11 DEF Hour, EnqueueState
  <2>2. QED
    BY <1>11, <1>k, <2>1 DEF Hour
<1>12. QED
  <2>1. CASE Requeue
    BY <1>s, <2>1 DEF Requeue
  <2>2. ASSUME NEW e \in Envs, Refresh(e) \/ PushCommit(e) \/ PushNote(e) \/ Remove(e) PROVE Cover(f)'
    BY <1>s, <2>2 DEF Refresh, PushCommit, PushNote, Remove
  <2>3. CASE UNCHANGED vars
    BY <1>s, <2>3 DEF vars
  <2>4. QED
    BY <1>2, <1>3, <1>4, <1>5, <1>6, <1>7, <1>8, <1>9, <1>10, <1>11, <2>1, <2>2, <2>3
       DEF Next, Strategy, CTPReconcile, CTPRequeue

LEMMA InitInv == Init => EnqueuerInv
<1> SUFFICES ASSUME Init PROVE EnqueuerInv
  OBVIOUS
<1>1. [dry |-> 1, note |-> 0, time |-> 0] \in Proposed
  BY EnqueuerAssumption DEF Proposed, Dries
<1>2. pushes \in 0 .. MaxPushes /\ restarts \in 0 .. MaxRestarts
  BY EnqueuerAssumption DEF Init
<1>3. TypeOK
  BY <1>1, <1>2, NoPassType, NoStateType, OffType DEF Init, TypeOK
<1>4. PassAt
  BY DEF Init, PassAt, NoPass
<1>5. \A e \in Envs : Cover(e)
  BY DEF Init, Cover, NoState
<1>6. QED
  BY <1>3, <1>4, <1>5, CoverInv DEF EnqueuerInv

LEMMA StepInv == EnqueuerInv /\ [Next]_vars => EnqueuerInv'
<1> SUFFICES ASSUME EnqueuerInv, [Next]_vars PROVE EnqueuerInv'
  OBVIOUS
<1>1. TypeOK' /\ PassAt'
  BY TypeStep DEF EnqueuerInv
<1>2. \A f \in Envs : Cover(f)
  BY CoverInv DEF EnqueuerInv
<1>3. \A f \in Envs : Cover(f)'
  BY <1>1, <1>2, ChainStep DEF EnqueuerInv
<1>4. Present' /\ ArmedHasChain'
  BY <1>3 DEF Present, ArmedHasChain, Cover, Chained
<1>5. QED
  BY <1>1, <1>4 DEF EnqueuerInv

\* Every variable of the enqueuer keeps its type, for every number of
\* environments, chains and restarts: a pass is always at an environment of the
\* strategy, although environments leave it, and a nudge goes to one.
THEOREM EnqueuerTypeCorrect == Spec => []TypeOK
<1>1. EnqueuerInv => TypeOK
  BY DEF EnqueuerInv
<1>2. QED
  BY <1>1, InitInv, StepInv, PTL DEF Spec

\* A disagreement that is armed has a chain of timers, or the pass that armed it
\* is about to start one: passes, firing timers, the sweep and restarts may
\* interleave as they like, handleRateLimitedEnqueue never returns early for a
\* policy that nothing will nudge.
THEOREM ArmedIsChained == Spec => []ArmedHasChain
<1>1. EnqueuerInv => ArmedHasChain
  BY DEF EnqueuerInv
<1>2. QED
  BY <1>1, InitInv, StepInv, PTL DEF Spec
=============================================================================
