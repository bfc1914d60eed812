------------------------ MODULE DependentsGateProofs ------------------------
(***************************************************************************)
(* The gate keeps the order of the dependencies, for every number of       *)
(* environments, every graph and every number of commits.                  *)
(***************************************************************************)
EXTENDS DependentsGate, TLAPS

\* A copy v of the status of e tells what was the case once: it is not ahead of
\* the branch, what it shows healthy is in the history, and it shows the
\* proposed commit of now only with a dry commit that commit has stood for.
Sound(e, v) ==
    /\ v.prop # 0 /\ v.prop <= env[e].prop
    /\ v.prop <= getEffectiveHydratedDrySha(v)
    /\ v.ok => v.act \in taken[e]
    /\ v.ok /\ v.act = v.prop => getEffectiveHydratedDrySha(v) \in passed[e]
    /\ v.prop = env[e].prop => getEffectiveHydratedDrySha(v) \in targets[e]

\* A success on the proposed commit of now is founded on a dry commit it stands for.
Founded(e, g) ==
    /\ g.sha <= env[e].prop
    /\ g.success => \E d \in Dries : /\ HaveHad(dependsOn[e], d)
                                     /\ g.sha = env[e].prop => d \in targets[e]

GateInv ==
    /\ TypeOK
    /\ \A e \in Envs : Sound(e, env[e])
    /\ \A e \in Envs : shown[e] = Blank \/ Sound(e, shown[e])
    /\ \A e \in Envs : Founded(e, gates[e]) /\ Founded(e, due[e])

\* Nothing is founded on an absent CommitStatus.
LEMMA NoStatusFounded ==
    ASSUME NEW e \in Envs, TypeOK PROVE Founded(e, NoStatus)
BY GateAssumption DEF Founded, NoStatus, TypeOK, EnvironmentStatus, Dries

\* History only grows, so what environments have had they keep.
LEMMA HaveHadGrows ==
    ASSUME NEW E, NEW d, HaveHad(E, d), dependsOn' = dependsOn,
           \A u \in Envs : taken[u] \subseteq taken'[u] /\ passed[u] \subseteq passed'[u]
    PROVE  HaveHad(E, d)'
<1>1. PICK S \in SUBSET Envs :
        /\ E \subseteq S
        /\ \A u \in S : d \in taken[u] \/ (d \in passed[u] /\ dependsOn[u] \subseteq S)
  BY DEF HaveHad
<1>2. \A u \in S : d \in taken'[u] \/ (d \in passed'[u] /\ dependsOn'[u] \subseteq S)
  BY <1>1
<1>3. QED
  BY <1>1, <1>2 DEF HaveHad

\* A success the evaluation reports is founded on what the status shows.
LEMMA ReportFounded ==
    ASSUME GateInv, NEW e \in Envs
    PROVE  Report(shown, e) \in CommitStatus /\ Founded(e, Report(shown, e))
<1> DEFINE v == shown[e]
           d == getEffectiveHydratedDrySha(v)
<1>0. TypeOK /\ v \in EnvironmentStatus
  BY DEF GateInv, TypeOK
<1>1. CASE v.act = v.prop
  <2>1. Report(shown, e) = NoStatus
    BY <1>1 DEF Report
  <2>2. NoStatus \in CommitStatus
    BY GateAssumption DEF NoStatus, CommitStatus, Dries
  <2>3. QED
    BY <1>0, <2>1, <2>2, NoStatusFounded
<1>2. CASE v.act # v.prop
  <2> DEFINE pending == isPending(shown, dependsOn[e], d, v.act)
  <2>1. Report(shown, e) = [sha |-> v.prop, success |-> ~pending]
    BY <1>2 DEF Report
  <2>2. Sound(e, v)
    BY <1>2 DEF GateInv, Blank
  <2>3. v.prop \in Dries /\ d \in Dries /\ d # 0 /\ env[e].prop \in Dries
    BY <1>0, <2>2, GateAssumption DEF Sound, EnvironmentStatus, getEffectiveHydratedDrySha, Dries, TypeOK
  <2>4. ASSUME ~pending PROVE HaveHad(dependsOn[e], d)
    <3>1. PICK S \in SUBSET Envs :
            /\ dependsOn[e] \subseteq S
            /\ \A u \in S : /\ meets(shown[u], d, v.act)
                            /\ shown[u].act = d \/ dependsOn[u] \subseteq S
      BY <2>4 DEF isPending
    <3>2. ASSUME NEW u \in S PROVE d \in taken[u] \/ (d \in passed[u] /\ dependsOn[u] \subseteq S)
      <4>1. getEffectiveHydratedDrySha(shown[u]) = d /\ shown[u].ok /\ u \in Envs
        BY <3>1, <3>2 DEF meets
      <4>2. shown[u] # Blank
        BY <2>3, <4>1 DEF Blank, getEffectiveHydratedDrySha
      <4>3. Sound(u, shown[u])
        BY <4>1, <4>2 DEF GateInv
      <4>4. CASE shown[u].act = d
        BY <4>1, <4>3, <4>4 DEF Sound
      <4>5. CASE shown[u].act # d
        <5>1. shown[u].act = shown[u].prop /\ dependsOn[u] \subseteq S
          BY <3>1, <3>2, <4>5 DEF meets
        <5>2. QED
          BY <4>1, <4>3, <5>1 DEF Sound
      <4>6. QED
        BY <4>4, <4>5
    <3>3. QED
      BY <3>1, <3>2 DEF HaveHad
  <2>5. Report(shown, e).sha = v.prop /\ Report(shown, e).success = ~pending
    BY <2>1
  <2>6. Report(shown, e) \in CommitStatus
    BY <2>1, <2>3 DEF CommitStatus
  <2>7. v.prop <= env[e].prop /\ (v.prop = env[e].prop => d \in targets[e])
    BY <2>2 DEF Sound
  <2>8. QED
    BY <2>3, <2>4, <2>5, <2>6, <2>7 DEF Founded
<1>3. QED
  BY <1>1, <1>2

\* The environment e takes the status v: everything said of copies and gates stays true.
LEMMA BecomesKeeps ==
    ASSUME GateInv, NEW e \in Envs, NEW v \in EnvironmentStatus, Becomes(e, v),
           NEW T \in SUBSET Dries, targets' = [targets EXCEPT ![e] = T],
           env[e].prop <= v.prop,
           v.prop <= getEffectiveHydratedDrySha(v),
           getEffectiveHydratedDrySha(v) \in T,
           v.prop = env[e].prop => targets[e] \subseteq T,
           pushes' \in 0 .. MaxPushes
    PROVE  GateInv'
<1>0. TypeOK
  BY DEF GateInv
<1>1. getEffectiveHydratedDrySha(v) \in Dries
  BY DEF getEffectiveHydratedDrySha, EnvironmentStatus
<1>2. /\ env' = [env EXCEPT ![e] = v]
      /\ taken' = [taken EXCEPT ![e] = IF v.ok THEN @ \cup {v.act} ELSE @]
      /\ passed' = [passed EXCEPT ![e] =
                       IF v.ok /\ v.act = v.prop THEN @ \cup {getEffectiveHydratedDrySha(v)} ELSE @]
      /\ dependsOn' = dependsOn /\ shown' = shown /\ gates' = gates /\ at' = at /\ due' = due
  BY DEF Becomes
<1>3. \A u \in Envs : taken[u] \subseteq taken'[u] /\ passed[u] \subseteq passed'[u]
  BY <1>0, <1>2 DEF TypeOK
<1>4. troubles' \in 0 .. MaxTroubles
  BY <1>0, GateAssumption DEF Becomes, TypeOK
<1>5. taken' \in [Envs -> SUBSET Dries] /\ passed' \in [Envs -> SUBSET Dries]
  BY <1>0, <1>1, <1>2 DEF TypeOK, EnvironmentStatus
<1>6. env' \in [Envs -> EnvironmentStatus] /\ targets' \in [Envs -> SUBSET Dries]
  BY <1>0, <1>2 DEF TypeOK
<1>7. TypeOK'
  BY <1>0, <1>2, <1>4, <1>5, <1>6 DEF TypeOK
<1>8. \A u \in Envs : /\ env[u].prop \in Dries /\ env'[u].prop \in Dries
                      /\ env[u].prop <= env'[u].prop
                      /\ env[u].prop = env'[u].prop => targets[u] \subseteq targets'[u]
  BY <1>0, <1>2, <1>6 DEF TypeOK, EnvironmentStatus, Dries
<1>9. ASSUME NEW u \in Envs, NEW w \in EnvironmentStatus, Sound(u, w) PROVE Sound(u, w)'
  BY <1>3, <1>8, <1>9 DEF Sound, EnvironmentStatus, Dries
<1>10. Sound(e, v)'
  <2>1. v.prop # 0
    <3>1. Sound(e, env[e])
      BY DEF GateInv
    <3>2. QED
      BY <1>0, <3>1 DEF Sound, TypeOK, EnvironmentStatus, Dries
  <2>2. env'[e] = v /\ targets'[e] = T
    BY <1>0, <1>2 DEF TypeOK
  <2>3. v.ok => v.act \in taken'[e]
    BY <1>0, <1>2 DEF TypeOK
  <2>4. v.ok /\ v.act = v.prop => getEffectiveHydratedDrySha(v) \in passed'[e]
    BY <1>0, <1>2 DEF TypeOK
  <2>5. v.prop <= v.prop
    BY DEF EnvironmentStatus, Dries
  <2>6. QED
    BY <2>1, <2>2, <2>3, <2>4, <2>5 DEF Sound
<1>11. \A u \in Envs : Sound(u, env[u])'
  <2> TAKE u \in Envs
  <2>1. CASE u = e
    BY <1>0, <1>2, <1>10, <2>1 DEF TypeOK, Sound
  <2>2. CASE u # e
    <3>1. Sound(u, env[u]) /\ env[u] \in EnvironmentStatus /\ env'[u] = env[u]
      BY <1>0, <1>2, <2>2 DEF GateInv, TypeOK
    <3>2. QED
      BY <1>3, <1>8, <3>1 DEF Sound, EnvironmentStatus, Dries
  <2>3. QED
    BY <2>1, <2>2
<1>12. \A u \in Envs : (shown[u] = Blank \/ Sound(u, shown[u]))'
  <2> TAKE u \in Envs
  <2>1. shown[u] \in EnvironmentStatus /\ shown'[u] = shown[u]
    BY <1>0, <1>2 DEF TypeOK
  <2>2. CASE shown[u] = Blank
    BY <2>1, <2>2
  <2>3. CASE Sound(u, shown[u])
    BY <1>3, <1>8, <2>1, <2>3 DEF Sound, EnvironmentStatus, Dries
  <2>4. QED
    BY <2>2, <2>3 DEF GateInv
<1>13. ASSUME NEW u \in Envs, NEW g \in CommitStatus, Founded(u, g)
       PROVE  /\ g.sha <= env'[u].prop
              /\ g.success => \E d \in Dries : /\ HaveHad(dependsOn[u], d)'
                                               /\ g.sha = env'[u].prop => d \in targets'[u]
  <2>1. g.sha \in Dries /\ g.sha <= env[u].prop
    BY <1>13 DEF Founded, CommitStatus
  <2>2. g.sha <= env'[u].prop
    BY <1>8, <2>1 DEF Dries
  <2>3. ASSUME g.success
        PROVE  \E d \in Dries : /\ HaveHad(dependsOn[u], d)'
                                /\ g.sha = env'[u].prop => d \in targets'[u]
    <3>1. PICK d \in Dries : HaveHad(dependsOn[u], d) /\ (g.sha = env[u].prop => d \in targets[u])
      BY <1>13, <2>3 DEF Founded
    <3>2. HaveHad(dependsOn[u], d)'
      BY <1>2, <1>3, <3>1, HaveHadGrows
    <3>3. g.sha = env'[u].prop => d \in targets'[u]
      BY <1>8, <2>1, <3>1 DEF Dries
    <3>4. QED
      BY <3>2, <3>3
  <2>4. QED
    BY <2>2, <2>3
<1>14. \A u \in Envs : Founded(u, gates[u])' /\ Founded(u, due[u])'
  <2> TAKE u \in Envs
  <2>1. /\ gates[u] \in CommitStatus /\ due[u] \in CommitStatus
        /\ Founded(u, gates[u]) /\ Founded(u, due[u])
    BY <1>0 DEF GateInv, TypeOK
  <2>2. Founded(u, gates[u])'
    BY <1>2, <1>13, <2>1 DEF Founded
  <2>3. Founded(u, due[u])'
    BY <1>2, <1>13, <2>1 DEF Founded
  <2>4. QED
    BY <2>2, <2>3
<1>15. QED
  BY <1>7, <1>11, <1>12, <1>14 DEF GateInv

\* What is founded stays founded while the environments stand still.
LEMMA FoundedStays ==
    ASSUME NEW e \in Envs, NEW g, Founded(e, g), UNCHANGED <<dependsOn, env, targets, taken, passed>>
    PROVE  /\ g.sha <= env'[e].prop
           /\ g.success => \E d \in Dries : /\ HaveHad(dependsOn[e], d)'
                                            /\ g.sha = env'[e].prop => d \in targets'[e]
<1>1. g.sha <= env'[e].prop
  BY DEF Founded
<1>2. ASSUME g.success
      PROVE  \E d \in Dries : /\ HaveHad(dependsOn[e], d)'
                              /\ g.sha = env'[e].prop => d \in targets'[e]
  <2>1. PICK d \in Dries : HaveHad(dependsOn[e], d) /\ (g.sha = env[e].prop => d \in targets[e])
    BY <1>2 DEF Founded
  <2>2. HaveHad(dependsOn[e], d)'
    BY <2>1, HaveHadGrows
  <2>3. QED
    BY <2>1, <2>2
<1>3. QED
  BY <1>1, <1>2

\* Steps that leave the environments alone: what they copy was said of the state
\* before, and is true of the state after.
LEMMA CopiesKeep ==
    ASSUME GateInv, TypeOK', UNCHANGED <<dependsOn, env, targets, taken, passed>>,
           \A e \in Envs : shown'[e] = Blank \/ Sound(e, shown'[e]),
           \A e \in Envs : Founded(e, gates'[e]) /\ Founded(e, due'[e])
    PROVE  GateInv'
<1>1. ASSUME NEW e \in Envs PROVE Sound(e, env[e])'
  <2>1. Sound(e, env[e])
    BY DEF GateInv
  <2>2. QED
    BY <2>1 DEF Sound
<1>2. ASSUME NEW e \in Envs PROVE (shown[e] = Blank \/ Sound(e, shown[e]))'
  <2>1. CASE shown'[e] = Blank
    BY <2>1
  <2>2. CASE Sound(e, shown'[e])
    BY <2>2 DEF Sound
  <2>3. QED
    BY <2>1, <2>2
<1>3. ASSUME NEW e \in Envs PROVE Founded(e, gates[e])' /\ Founded(e, due[e])'
  <2>1. Founded(e, gates'[e]) /\ Founded(e, due'[e])
    OBVIOUS
  <2>2. Founded(e, gates[e])'
    BY <2>1, FoundedStays DEF Founded
  <2>3. Founded(e, due[e])'
    BY <2>1, FoundedStays DEF Founded
  <2>4. QED
    BY <2>2, <2>3
<1>4. QED
  BY <1>1, <1>2, <1>3 DEF GateInv

LEMMA GateInitInv == Init => GateInv
<1> SUFFICES ASSUME Init PROVE GateInv
  OBVIOUS
<1>1. dependsOn \in [Envs -> SUBSET (Envs \cup {Stranger})]
  <2>1. PICK g \in Declarations : dependsOn = resolveDependentEnvironments(g)
    BY GateAssumption DEF Init
  <2>2. g \in [Envs -> SUBSET (Envs \cup {Stranger})]
    BY DEF Declarations
  <2>3. \A e \in Envs : e # 1 => e - 1 \in Envs
    BY EnvironmentsAssumption DEF Envs
  <2>4. [e \in Envs |-> IF e = 1 THEN {} ELSE {e - 1}] \in [Envs -> SUBSET (Envs \cup {Stranger})]
    BY <2>3
  <2>5. QED
    BY <2>1, <2>2, <2>4 DEF resolveDependentEnvironments
<1>2. 1 \in Dries /\ 0 \in Dries
  BY GateAssumption DEF Dries
<1>3. TypeOK
  BY <1>1, <1>2, EnvironmentsAssumption, GateAssumption
     DEF Init, TypeOK, EnvironmentStatus, CommitStatus, Blank, NoStatus
<1>4. \A e \in Envs : Sound(e, env[e])
  BY DEF Init, Sound, getEffectiveHydratedDrySha
<1>5. \A e \in Envs : shown[e] = Blank
  BY DEF Init
<1>6. \A e \in Envs : gates[e] = NoStatus /\ due[e] = NoStatus
  BY DEF Init
<1>7. QED
  BY <1>3, <1>4, <1>5, <1>6, NoStatusFounded DEF GateInv

\* The induction step: every action keeps GateInv.
LEMMA GateInvStep == GateInv /\ [Next]_vars => GateInv'
<1> SUFFICES ASSUME GateInv, [Next]_vars PROVE GateInv'
  OBVIOUS
<1>0. TypeOK
  BY DEF GateInv
<1>n. NoStatus \in CommitStatus
  BY GateAssumption DEF NoStatus, CommitStatus, Dries
<1>1. CASE Reconcile
  <2>1. \A e \in Envs : due'[e] = Report(shown, e)
    BY <1>1 DEF Reconcile, Evaluate
  <2>2. due' \in [Envs -> CommitStatus] /\ at' \in 0 .. N
    BY <1>1, ReportFounded, EnvironmentsAssumption DEF Reconcile, Evaluate
  <2>3. TypeOK'
    BY <1>0, <1>1, <2>2 DEF Reconcile, Evaluate, TypeOK
  <2>4. \A e \in Envs : Founded(e, due'[e])
    BY <2>1, ReportFounded
  <2>5. \A e \in Envs : /\ shown'[e] = Blank \/ Sound(e, shown'[e])
                        /\ Founded(e, gates'[e])
    BY <1>1 DEF Reconcile, Evaluate, GateInv
  <2>6. UNCHANGED <<dependsOn, env, targets, taken, passed>>
    BY <1>1 DEF Reconcile, Evaluate
  <2>7. QED
    BY <2>3, <2>4, <2>5, <2>6, CopiesKeep
<1>2. CASE createOrUpdateDependentsSuccessfulCommitStatus
  <2>1. at \in Envs /\ at' \in 0 .. N
    BY <1>0, <1>2, EnvironmentsAssumption
       DEF createOrUpdateDependentsSuccessfulCommitStatus, Finish, TypeOK, Envs
  <2>2. due' \in [Envs -> CommitStatus] /\ \A e \in Envs : due'[e] \in {due[e], NoStatus}
    BY <1>0, <1>2, <1>n DEF createOrUpdateDependentsSuccessfulCommitStatus, Finish, TypeOK
  <2>3. gates' \in [Envs -> CommitStatus] /\ \A e \in Envs : gates'[e] \in {gates[e], due[e]}
    BY <1>0, <1>2, <2>1 DEF createOrUpdateDependentsSuccessfulCommitStatus, TypeOK
  <2>4. TypeOK'
    BY <1>0, <1>2, <2>1, <2>2, <2>3 DEF createOrUpdateDependentsSuccessfulCommitStatus, TypeOK
  <2>5. \A e \in Envs : Founded(e, gates'[e]) /\ Founded(e, due'[e])
    BY <1>0, <2>2, <2>3, NoStatusFounded DEF GateInv
  <2>6. /\ \A e \in Envs : shown'[e] = Blank \/ Sound(e, shown'[e])
        /\ UNCHANGED <<dependsOn, env, targets, taken, passed>>
    BY <1>2 DEF createOrUpdateDependentsSuccessfulCommitStatus, GateInv
  <2>7. QED
    BY <2>4, <2>5, <2>6, CopiesKeep
<1>3. CASE Abort
  <2>1. TypeOK'
    BY <1>0, <1>3, <1>n, EnvironmentsAssumption, GateAssumption DEF Abort, Finish, TypeOK
  <2>2. \A e \in Envs : Founded(e, due'[e])
    BY <1>0, <1>3, NoStatusFounded DEF Abort, Finish
  <2>3. /\ \A e \in Envs : /\ shown'[e] = Blank \/ Sound(e, shown'[e])
                          /\ Founded(e, gates'[e])
        /\ UNCHANGED <<dependsOn, env, targets, taken, passed>>
    BY <1>3 DEF Abort, GateInv
  <2>4. QED
    BY <2>1, <2>2, <2>3, CopiesKeep
<1>4. ASSUME NEW e \in Envs, Promote(e) PROVE GateInv'
  <2>1. PICK ok \in BOOLEAN : Becomes(e, [env[e] EXCEPT !.act = env[e].prop, !.ok = ok])
    BY <1>4 DEF Promote
  <2> DEFINE v == [env[e] EXCEPT !.act = env[e].prop, !.ok = ok]
  <2>2. /\ v \in EnvironmentStatus /\ v.prop = env[e].prop /\ v.note = env[e].note
        /\ targets[e] \in SUBSET Dries
    BY <1>0 DEF TypeOK, EnvironmentStatus
  <2>3. getEffectiveHydratedDrySha(v) = getEffectiveHydratedDrySha(env[e])
    BY <2>2 DEF getEffectiveHydratedDrySha
  <2>4. Sound(e, env[e])
    BY DEF GateInv
  <2>5. targets' = [targets EXCEPT ![e] = targets[e]] /\ pushes' \in 0 .. MaxPushes
    BY <1>0, <1>4 DEF Promote, TypeOK
  <2> HIDE DEF v
  <2>6. QED
    BY <2>1, <2>2, <2>3, <2>4, <2>5, BecomesKeeps DEF v, Sound
<1>5. ASSUME NEW e \in Envs, Health(e) PROVE GateInv'
  <2> DEFINE v == [env[e] EXCEPT !.ok = ~env[e].ok]
  <2>1. Becomes(e, v)
    BY <1>5 DEF Health
  <2>2. /\ v \in EnvironmentStatus /\ v.prop = env[e].prop /\ v.note = env[e].note
        /\ targets[e] \in SUBSET Dries
    BY <1>0 DEF TypeOK, EnvironmentStatus
  <2>3. getEffectiveHydratedDrySha(v) = getEffectiveHydratedDrySha(env[e])
    BY <2>2 DEF getEffectiveHydratedDrySha
  <2>4. Sound(e, env[e])
    BY DEF GateInv
  <2>5. targets' = [targets EXCEPT ![e] = targets[e]] /\ pushes' \in 0 .. MaxPushes
    BY <1>0, <1>5 DEF Health, TypeOK
  <2> HIDE DEF v
  <2>6. QED
    BY <2>1, <2>2, <2>3, <2>4, <2>5, BecomesKeeps DEF Sound
<1>6. ASSUME NEW e \in Envs, PushCommit(e) PROVE GateInv'
  <2>1. PICK d \in Dries :
          /\ d > getEffectiveHydratedDrySha(env[e])
          /\ Becomes(e, [env[e] EXCEPT !.prop = d, !.note = 0])
          /\ targets' = [targets EXCEPT ![e] = {d}]
    BY <1>6 DEF PushCommit
  <2> DEFINE v == [env[e] EXCEPT !.prop = d, !.note = 0]
  <2>2. v \in EnvironmentStatus /\ v.prop = d /\ v.note = 0 /\ env[e] \in EnvironmentStatus
    <3>1. env[e] \in EnvironmentStatus /\ 0 \in Dries
      BY <1>0, GateAssumption DEF TypeOK, Dries
    <3>2. QED
      BY <3>1 DEF EnvironmentStatus
  <2>3. getEffectiveHydratedDrySha(v) = d
    BY <2>2 DEF getEffectiveHydratedDrySha
  <2>4. env[e].prop <= getEffectiveHydratedDrySha(env[e]) /\ getEffectiveHydratedDrySha(env[e]) \in Dries
    BY <2>2 DEF GateInv, Sound, EnvironmentStatus, getEffectiveHydratedDrySha
  <2>5. env[e].prop < d /\ d <= d /\ env[e].prop \in Dries
    BY <2>1, <2>2, <2>4 DEF EnvironmentStatus, Dries
  <2>6. env[e].prop <= d /\ d # env[e].prop
    BY <2>5 DEF Dries
  <2>7. pushes' \in 0 .. MaxPushes
    BY <1>0, <1>6, GateAssumption DEF PushCommit, TypeOK
  <2>8. Becomes(e, v) /\ targets' = [targets EXCEPT ![e] = {d}] /\ {d} \in SUBSET Dries /\ d \in {d}
    BY <2>1
  <2> HIDE DEF v
  <2>9. QED
    BY <2>2, <2>3, <2>5, <2>6, <2>7, <2>8, BecomesKeeps
<1>7. ASSUME NEW e \in Envs, PushNote(e) PROVE GateInv'
  <2>1. PICK d \in Dries :
          /\ d > env[e].note /\ d >= env[e].prop
          /\ Becomes(e, [env[e] EXCEPT !.note = d])
          /\ targets' = [targets EXCEPT ![e] = @ \cup {d}]
    BY <1>7 DEF PushNote
  <2> DEFINE v == [env[e] EXCEPT !.note = d]
  <2>2. /\ v \in EnvironmentStatus /\ v.prop = env[e].prop /\ v.note = d
        /\ env[e] \in EnvironmentStatus
    BY <1>0 DEF TypeOK, EnvironmentStatus
  <2>3. d # 0 /\ env[e].prop <= d /\ env[e].prop <= env[e].prop
    BY <2>1, <2>2 DEF EnvironmentStatus, Dries
  <2>4. getEffectiveHydratedDrySha(v) = d
    BY <2>2, <2>3 DEF getEffectiveHydratedDrySha
  <2>5. targets' = [targets EXCEPT ![e] = targets[e] \cup {d}] /\ targets[e] \cup {d} \in SUBSET Dries
    BY <1>0, <2>1 DEF TypeOK
  <2>6. pushes' \in 0 .. MaxPushes
    BY <1>0, <1>7, GateAssumption DEF PushNote, TypeOK
  <2>7. Becomes(e, v)
    BY <2>1
  <2> HIDE DEF v
  <2>8. QED
    BY <2>2, <2>3, <2>4, <2>5, <2>6, <2>7, BecomesKeeps
<1>8. ASSUME NEW e \in Envs, Publish(e) PROVE GateInv'
  <2>1. shown' \in [Envs -> EnvironmentStatus] /\ \A u \in Envs : shown'[u] \in {shown[u], env[u]}
    BY <1>0, <1>8 DEF Publish, TypeOK
  <2>2. TypeOK'
    BY <1>0, <1>8, <2>1 DEF Publish, TypeOK
  <2>3. \A u \in Envs : shown'[u] = Blank \/ Sound(u, shown'[u])
    BY <2>1 DEF GateInv
  <2>4. /\ \A u \in Envs : Founded(u, gates'[u]) /\ Founded(u, due'[u])
        /\ UNCHANGED <<dependsOn, env, targets, taken, passed>>
    BY <1>8 DEF Publish, GateInv
  <2>5. QED
    BY <2>2, <2>3, <2>4, CopiesKeep
<1>9. CASE UNCHANGED vars
  <2>1. TypeOK'
    BY <1>0, <1>9 DEF vars, TypeOK
  <2>2. /\ \A e \in Envs : shown'[e] = Blank \/ Sound(e, shown'[e])
        /\ \A e \in Envs : Founded(e, gates'[e]) /\ Founded(e, due'[e])
        /\ UNCHANGED <<dependsOn, env, targets, taken, passed>>
    BY <1>9 DEF vars, GateInv
  <2>3. QED
    BY <2>1, <2>2, CopiesKeep
<1>10. QED
  BY <1>1, <1>2, <1>3, <1>4, <1>5, <1>6, <1>7, <1>8, <1>9 DEF Next, Controller

\* Type correctness of the gate and the environments.
THEOREM GateTypeCorrect == Spec => []TypeOK
<1>1. GateInv => TypeOK
  BY DEF GateInv
<1>2. QED
  BY <1>1, GateInitInv, GateInvStep, PTL DEF Spec

\* Only a merge changes what is active, and it has a founded success.
LEMMA MergeIsOrdered ==
    GateInv /\ [Next]_vars =>
        [\A e \in Envs : env'[e].act # env[e].act =>
            \E d \in targets[e] : HaveHad(dependsOn[e], d)]_vars
<1> SUFFICES ASSUME GateInv, Next, NEW e \in Envs, env'[e].act # env[e].act
             PROVE  \E d \in targets[e] : HaveHad(dependsOn[e], d)
  BY DEF vars
<1>0. TypeOK
  BY DEF GateInv
<1>1. ASSUME NEW u \in Envs, PushCommit(u) \/ PushNote(u) \/ Health(u) PROVE env'[e].act = env[e].act
  <2>1. env \in [Envs -> EnvironmentStatus]
    BY <1>0 DEF TypeOK
  <2>2. PICK v : env' = [env EXCEPT ![u] = v] /\ v.act = env[u].act
    <3>1. CASE PushCommit(u)
      BY <2>1, <3>1 DEF PushCommit, Becomes, EnvironmentStatus
    <3>2. CASE PushNote(u)
      BY <2>1, <3>2 DEF PushNote, Becomes, EnvironmentStatus
    <3>3. CASE Health(u)
      BY <2>1, <3>3 DEF Health, Becomes, EnvironmentStatus
    <3>4. QED
      BY <1>1, <3>1, <3>2, <3>3
  <2>3. QED
    BY <2>1, <2>2
<1>2. Controller \/ Abort \/ (\E u \in Envs : Publish(u)) => env'[e].act = env[e].act
  BY DEF Controller, Reconcile, Evaluate, createOrUpdateDependentsSuccessfulCommitStatus, Abort, Publish
<1>3. \A u \in Envs : Promote(u) /\ u # e => env'[e].act = env[e].act
  BY <1>0 DEF Promote, Becomes, TypeOK
<1>4. Promote(e)
  BY <1>1, <1>2, <1>3 DEF Next
<1>5. gates[e].sha = env[e].prop /\ gates[e].success
  BY <1>4 DEF Promote
<1>6. QED
  BY <1>5 DEF GateInv, Founded

\* Environments take a commit in the order of their dependencies: for every graph,
\* every number of environments and commits, however stale the status evaluated.
THEOREM PromotionIsOrdered == Spec => Ordered
<1>1. QED
  BY GateInitInv, GateInvStep, MergeIsOrdered, PTL DEF Spec, Ordered
=============================================================================
