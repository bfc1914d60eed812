----------------------- MODULE CommitStatusGateProofs -----------------------
(***************************************************************************)
(* Proofs about CommitStatusGate, for every number of commits and of       *)
(* failures, every length of the clock and every set of schedules: the     *)
(* types, that a scheduled gate wakes up in time, that a policy whose      *)
(* verdict is out of date looks again, and that what it finds keeps        *)
(* GateContract.                                                           *)
(***************************************************************************)
EXTENDS CommitStatusGate, Sequences, FiniteSetTheorems, TLAPS

\* The commits for which the condition has been met.
MetShas == {s \in Shas : Met(s)}

\* A success, wherever a copy of it is kept, is of such a commit.
Backed(e) == e.sha <= tip /\ (e.ok => e.sha \in MetShas)

CopiesBacked ==
    /\ Backed(gate) /\ Backed(gateCache) /\ Backed(gateRec.entry)
    /\ Backed(cs) /\ Backed(csCache) /\ Backed(view) /\ Backed(shown)

\* Commits are not of the future.
SinceInv == \A s \in Shas : s <= tip => since[s] <= now

\* Until a point in time the schedule says what it says now.
Agrees(ok, until) == \A t \in now .. MaxTime : t < until => Open(schedule, t) = ok

\* What a reconcile of the gate that is under way knows.
RecInv ==
    /\ gateRec.step = "request" => kind \in Polling /\ gateRec.entry.sha # 0
    /\ kind = "scheduled" /\ gateRec.step = "upsert" => Agrees(gateRec.entry.ok, gateRec.due)
    /\ gateRec.step = "cleanup" => gateRec.entry = NoEntry

\* Only the scheduled gate has a schedule.
ScheduleInv == IF kind = "scheduled" THEN schedule \in Schedules ELSE schedule = NoSchedule

GateInv == TypeOK /\ ScheduleInv /\ SinceInv /\ CopiesBacked /\ RecInv /\ TimerSound /\ PolicyAwake

-----------------------------------------------------------------------------
(* Least and greatest elements.                                            *)

\* A set of naturals that is not empty has a least element.
LEMMA LeastNatural ==
    ASSUME NEW S, S \subseteq Nat, S # {}
    PROVE  \E n \in S : \A m \in S : n <= m
<1> DEFINE R == {ss \in Nat \X Nat : ss[1] < ss[2]}
<1>1. IsWellFoundedOn(R, Nat)
  BY NatLessThanWellFounded DEF OpToRel
<1> HIDE DEF R
<1>2. PICK n \in S : \A m \in S : ~(<<m, n>> \in R)
  BY <1>1, WFMin, Zenon
<1>3. \A m \in S : ~(m < n)
  BY <1>2 DEF R
<1>4. QED
  BY <1>3

LEMMA MinNatural ==
    ASSUME NEW S, S \subseteq Nat, S # {}
    PROVE  Min(S) \in S /\ \A m \in S : Min(S) <= m
BY LeastNatural DEF Min

LEMMA MinOfTwo ==
    ASSUME NEW a \in Nat, NEW b \in Nat
    PROVE  Min({a, b}) \in {a, b} /\ Min({a, b}) <= a /\ Min({a, b}) <= b
BY MinNatural, {a, b} \subseteq Nat, {a, b} # {}

\* A bounded one has a greatest.
LEMMA MaxNatural ==
    ASSUME NEW S, S \subseteq Nat, S # {}, NEW b \in Nat, \A m \in S : m <= b
    PROVE  Max(S) \in S /\ \A m \in S : Max(S) >= m
<1> DEFINE D == {b - m : m \in S}
<1>1. D \subseteq Nat /\ D # {}
  <2>1. \A m \in S : b - m \in Nat
    OBVIOUS
  <2>2. QED
    BY <2>1
<1>2. PICK d \in D : \A e \in D : d <= e
  BY <1>1, LeastNatural
<1>3. PICK n \in S : d = b - n
  OBVIOUS
<1>4. ASSUME NEW m \in S PROVE n >= m
  <2>1. b - n <= b - m
    BY <1>2, <1>3
  <2>2. m \in Nat /\ n \in Nat
    OBVIOUS
  <2>3. QED
    BY <2>1, <2>2
<1>5. QED
  BY <1>4 DEF Max

\* A list of naturals is bounded: there is no least prefix without a bound.
LEMMA BoundedList ==
    ASSUME NEW L \in Nat, NEW f \in [1 .. L -> Nat]
    PROVE  \E d \in Nat : \A n \in 1 .. L : f[n] <= d
<1> DEFINE Bounded(k) == \E d \in Nat : \A n \in 1 .. k : f[n] <= d
           Bad == {k \in 0 .. L : ~Bounded(k)}
<1>1. Bad = {}
  <2> SUFFICES ASSUME Bad # {} PROVE FALSE
    OBVIOUS
  <2>1. PICK k \in Bad : \A j \in Bad : k <= j
    BY Bad \subseteq Nat, LeastNatural
  <2>2. k # 0
    <3>1. \A n \in 1 .. 0 : f[n] <= 0
      OBVIOUS
    <3>2. Bounded(0)
      BY <3>1
    <3>3. QED
      BY <3>2
  <2>3. k \in 1 .. L /\ k - 1 \in 0 .. L
    BY <2>2
  <2>4. k - 1 \notin Bad
    <3>1. ~(k <= k - 1)
      BY <2>3
    <3>2. QED
      BY <3>1, <2>1
  <2>5. PICK d \in Nat : \A n \in 1 .. k - 1 : f[n] <= d
    BY <2>3, <2>4
  <2>6. f[k] \in Nat
    BY <2>3
  <2>7. ASSUME NEW n \in 1 .. k PROVE f[n] <= d + f[k]
    <3>0. n \in 1 .. L
      BY <2>3
    <3>1. f[n] \in Nat
      BY <3>0
    <3>2. CASE n = k
      BY <3>1, <3>2, <2>6
    <3>3. CASE n # k
      <4>1. n \in 1 .. k - 1
        BY <3>3, <2>3
      <4>2. f[n] <= d /\ d \in Nat
        BY <4>1, <2>5
      <4> HIDE DEF Bounded, Bad
      <4>3. QED
        BY <4>2, <3>1, <2>6
    <3>4. QED
      BY <3>2, <3>3
  <2>8. Bounded(k)
    <3>1. d + f[k] \in Nat
      <4> HIDE DEF Bounded, Bad
      <4>1. QED
        BY <2>6
    <3>2. QED
      BY <2>7, <3>1
  <2>9. QED
    BY <2>8
<1>2. Bounded(L)
  <2>1. L \in 0 .. L
    OBVIOUS
  <2> HIDE DEF Bounded
  <2>2. QED
    BY <1>1, <2>1
<1>3. QED
  BY <1>2

\* The lists of windows in a spec are finite, and so their durations bounded.
LEMMA BoundedDurations ==
    ASSUME NEW W, IsFiniteSet(W), \A w \in W : w.dur \in Nat
    PROVE  \E d \in Nat : \A w \in W : w.dur <= d
<1>1. PICK q \in Seq(W) : \A w \in W : \E n \in 1 .. Len(q) : q[n] = w
  BY DEF IsFiniteSet
<1> DEFINE L == Len(q)
           f == [n \in 1 .. L |-> q[n].dur]
<1>2. L \in Nat /\ \A n \in 1 .. L : q[n] \in W
  BY <1>1
<1>3. f \in [1 .. L -> Nat]
  BY <1>2
<1> HIDE DEF L
<1>4. PICK d \in Nat : \A n \in 1 .. L : f[n] <= d
  BY <1>2, <1>3, BoundedList
<1>5. ASSUME NEW w \in W PROVE w.dur <= d
  <2>1. PICK n \in 1 .. L : q[n] = w
    BY <1>1 DEF L
  <2>2. f[n] <= d
    BY <1>4
  <2>3. QED
    BY <2>1, <2>2
<1>6. QED
  BY <1>5

-----------------------------------------------------------------------------
(* Windows.                                                                *)

LEMMA BoundsType ==
    /\ MaxSha \in Nat \ {0} /\ MaxTime \in Nat /\ Duration \in Nat /\ MaxFails \in Nat
    /\ Never \in Nat /\ Shas \subseteq Nat /\ Times \subseteq Nat
BY GateAssumption DEF Never, Shas, Times

LEMMA ScheduleType ==
    ASSUME NEW s \in Schedules \cup {NoSchedule}
    PROVE  IsSchedule(s)
<1>1. CASE s = NoSchedule
  <2>1. s.allow \cup s.exclude = {}
    BY <1>1 DEF NoSchedule
  <2>2. IsFiniteSet({})
    BY FS_EmptySet
  <2>3. QED
    BY <2>1, <2>2 DEF IsSchedule
<1>2. CASE s \in Schedules
  BY <1>2, GateAssumption
<1>3. QED
  BY <1>1, <1>2

\* A window of a schedule.
Window(w) == w.starts \subseteq Times /\ w.dur \in Nat \ {0}

LEMMA WindowType ==
    ASSUME NEW s, IsSchedule(s), NEW w \in s.allow \cup s.exclude
    PROVE  Window(w)
BY DEF IsSchedule, Window

\* The window that covers t and ends last.
LEMMA WindowEndType ==
    ASSUME NEW w, Window(w), NEW t \in Times, Covering(w, t) # {}
    PROVE  /\ Max(Covering(w, t)) \in Covering(w, t)
           /\ WindowEnd(w, t) \in Nat /\ WindowEnd(w, t) <= MaxTime + w.dur
           /\ t < WindowEnd(w, t)
<1>1. Covering(w, t) \subseteq Nat /\ \A x \in Covering(w, t) : x <= MaxTime
  BY BoundsType DEF Covering, Window, Times
<1>2. Max(Covering(w, t)) \in Covering(w, t)
  BY <1>1, MaxNatural, BoundsType
<1> DEFINE x == Max(Covering(w, t))
<1>3. x \in Nat /\ x <= MaxTime /\ t - w.dur < x
  BY <1>1, <1>2 DEF Covering
<1>4. t \in Nat /\ w.dur \in Nat /\ MaxTime \in Nat
  BY BoundsType DEF Window
<1> HIDE DEF x
<1>5. x + w.dur \in Nat /\ x + w.dur <= MaxTime + w.dur /\ t < x + w.dur
  BY <1>3, <1>4
<1>6. QED
  BY <1>2, <1>5 DEF WindowEnd, x

\* The last end of the exclusions that cover t.
LEMMA LastEndType ==
    ASSUME NEW s, IsSchedule(s), NEW t \in Times, Inside(s.exclude, t) # {}
    PROVE  LET S == {WindowEnd(w, t) : w \in Inside(s.exclude, t)}
           IN  Max(S) \in S /\ S \subseteq Nat
<1> DEFINE W == s.allow \cup s.exclude
           S == {WindowEnd(w, t) : w \in Inside(s.exclude, t)}
<1>1. PICK d \in Nat : \A w \in W : w.dur <= d
  <2>1. IsFiniteSet(W) /\ \A w \in W : w.dur \in Nat
    BY DEF IsSchedule
  <2> HIDE DEF W
  <2>2. QED
    BY <2>1, BoundedDurations
<1>2. ASSUME NEW w \in Inside(s.exclude, t)
      PROVE  WindowEnd(w, t) \in Nat /\ WindowEnd(w, t) <= MaxTime + d
  <2>1. w \in W /\ Covering(w, t) # {}
    BY DEF Inside
  <2>2. Window(w)
    BY <2>1, WindowType
  <2>3. WindowEnd(w, t) \in Nat /\ WindowEnd(w, t) <= MaxTime + w.dur
    BY <2>1, <2>2, WindowEndType
  <2>4. w.dur <= d /\ w.dur \in Nat
    BY <2>1, <2>2, <1>1 DEF Window
  <2>5. QED
    BY <2>3, <2>4, BoundsType
<1>3. S \subseteq Nat /\ S # {} /\ \A m \in S : m <= MaxTime + d
  BY <1>2
<1>4. MaxTime + d \in Nat
  BY BoundsType
<1> HIDE DEF S
<1>5. Max(S) \in S
  BY <1>3, <1>4, MaxNatural
<1>6. QED
  BY <1>3, <1>5 DEF S

\* A window covers t exactly when some start of it does.
LEMMA CoveringIsIn ==
    ASSUME NEW w, Window(w), NEW t \in Times
    PROVE  Covering(w, t) # {} <=> \E x \in w.starts : t \in x .. x + w.dur - 1
<1>1. ASSUME NEW x \in w.starts
      PROVE  t \in x .. x + w.dur - 1 <=> t - w.dur < x /\ x <= t
  <2>1. x \in Nat /\ t \in Nat /\ w.dur \in Nat
    BY BoundsType DEF Window
  <2>2. QED
    BY <2>1
<1>2. QED
  BY <1>1 DEF Covering

\* evaluateWindows: the phase it computes from the starts before t is what the
\* schedule means, whatever windows it lists.
THEOREM AllowsIsOpen ==
    ASSUME NEW s, IsSchedule(s), NEW t \in Times
    PROVE  Allows(s, t) = Open(s, t)
<1> DEFINE In(w) == \E x \in w.starts : t \in x .. x + w.dur - 1
<1>1. ASSUME NEW w \in s.allow \cup s.exclude
      PROVE  Covering(w, t) # {} <=> In(w)
  BY WindowType, CoveringIsIn
<1> HIDE DEF In
<1>2. Inside(s.exclude, t) = {} <=> ~\E w \in s.exclude : In(w)
  BY <1>1 DEF Inside
<1>3. Inside(s.allow, t) # {} <=> \E w \in s.allow : In(w)
  BY <1>1 DEF Inside
<1>4. Allows(s, t) <=> Open(s, t)
  BY <1>2, <1>3 DEF Allows, Open, In
<1>5. Allows(s, t) \in BOOLEAN /\ Open(s, t) \in BOOLEAN
  BY DEF Allows, Open
<1>6. QED
  BY <1>4, <1>5

\* Windows that do not cover t do not cover u before the next of their starts.
LEMMA OutsideStays ==
    ASSUME NEW W, \A w \in W : Window(w), NEW t \in Times, NEW u \in Times, t <= u,
           Inside(W, t) = {}, \A x \in NextStarts(W, t) : u < x
    PROVE  Inside(W, u) = {}
<1> SUFFICES ASSUME NEW w \in W, NEW x \in Covering(w, u) PROVE FALSE
  BY DEF Inside
<1>1. x \in w.starts /\ x \in Nat /\ w.dur \in Nat /\ t \in Nat /\ u \in Nat
  BY BoundsType DEF Covering, Window
<1>2. u - w.dur < x /\ x <= u
  BY DEF Covering
<1>3. w \notin Inside(W, t)
  OBVIOUS
<1>4. CASE x <= t
  <2>1. t - w.dur < x
    BY <1>1, <1>2
  <2>2. x \in Covering(w, t)
    BY <1>1, <1>4, <2>1 DEF Covering
  <2>3. QED
    BY <1>3, <2>2 DEF Inside
<1>5. CASE x > t
  <2>1. x \in NextStarts(W, t)
    BY <1>1, <1>3, <1>5 DEF NextStarts
  <2>2. QED
    BY <1>1, <1>2, <2>1
<1>6. QED
  BY <1>1, <1>4, <1>5

\* A window that covers t covers u before its end.
LEMMA InsideStays ==
    ASSUME NEW W, NEW t \in Times, NEW u \in Times, t <= u, NEW w \in Inside(W, t), Window(w),
           u < WindowEnd(w, t)
    PROVE  w \in Inside(W, u)
<1> DEFINE x == Max(Covering(w, t))
<1>1. w \in W /\ Covering(w, t) # {}
  BY DEF Inside
<1>2. x \in Covering(w, t)
  BY <1>1, WindowEndType
<1>3. x \in w.starts /\ x <= t /\ x \in Nat /\ w.dur \in Nat /\ t \in Nat /\ u \in Nat
  BY <1>2, BoundsType DEF Covering, Window
<1>4. u < x + w.dur
  BY DEF WindowEnd
<1> HIDE DEF x
<1>5. u - w.dur < x /\ x <= u
  BY <1>3, <1>4
<1>6. x \in Covering(w, u)
  BY <1>3, <1>5 DEF Covering
<1>7. QED
  BY <1>1, <1>6 DEF Inside

\* evaluateWindows: before the first transition that it reports the phase stays,
\* whatever windows overlap.
THEOREM AllowsStays ==
    ASSUME NEW s, IsSchedule(s), NEW t \in Times, NEW u \in Times, t <= u,
           \A x \in transitions(s, t) : u < x
    PROVE  Allows(s, u) = Allows(s, t)
<1>w. \A w \in s.allow \cup s.exclude : Window(w)
  BY WindowType
<1>b. Allows(s, u) \in BOOLEAN /\ Allows(s, t) \in BOOLEAN
  BY DEF Allows
<1>1. CASE Inside(s.exclude, t) # {}
  <2> DEFINE S == {WindowEnd(w, t) : w \in Inside(s.exclude, t)}
  <2>1. Max(S) \in S /\ Max(S) \in transitions(s, t)
    BY <1>1, LastEndType DEF transitions
  <2>2. PICK w \in Inside(s.exclude, t) : Max(S) = WindowEnd(w, t)
    BY <2>1
  <2>3. u < WindowEnd(w, t)
    BY <2>1, <2>2
  <2>4. w \in s.exclude
    BY DEF Inside
  <2>5. w \in Inside(s.exclude, u)
    BY <2>3, <2>4, <1>w, InsideStays
  <2>6. QED
    BY <1>1, <2>5 DEF Allows
<1>2. CASE Inside(s.exclude, t) = {}
  <2>1. NextStarts(s.exclude, t) \subseteq transitions(s, t)
    BY <1>2 DEF transitions
  <2>2. Inside(s.exclude, u) = {}
    BY <1>2, <2>1, <1>w, OutsideStays
  <2>3. CASE Inside(s.allow, t) # {}
    <3>1. PICK w \in Inside(s.allow, t) : TRUE
      BY <2>3
    <3>2. WindowEnd(w, t) \in transitions(s, t)
      BY <1>2, <2>3, <3>1 DEF transitions
    <3>3. w \in s.allow
      BY DEF Inside
    <3>4. w \in Inside(s.allow, u)
      BY <3>2, <3>3, <1>w, InsideStays
    <3>5. QED
      BY <1>2, <2>2, <2>3, <3>4, <1>b DEF Allows
  <2>4. CASE Inside(s.allow, t) = {}
    <3>1. NextStarts(s.allow, t) \subseteq transitions(s, t)
      BY <1>2, <2>4 DEF transitions
    <3>2. Inside(s.allow, u) = {}
      BY <2>4, <3>1, <1>w, OutsideStays
    <3>3. QED
      BY <1>2, <2>2, <2>4, <3>2, <1>b DEF Allows
  <2>5. QED
    BY <2>3, <2>4
<1>3. QED
  BY <1>1, <1>2

LEMMA TransitionsType ==
    ASSUME NEW s, IsSchedule(s), NEW t \in Times
    PROVE  transitions(s, t) \subseteq Nat
<1>w. \A w \in s.allow \cup s.exclude : Window(w)
  BY WindowType
<1>1. ASSUME NEW W, \A w \in W : Window(w) PROVE NextStarts(W, t) \subseteq Nat
  <2>1. ASSUME NEW w \in W PROVE w.starts \subseteq Nat
    BY <1>1, BoundsType DEF Window
  <2>2. QED
    BY <2>1 DEF NextStarts
<1>2. NextStarts(s.exclude, t) \subseteq Nat /\ NextStarts(s.allow, t) \subseteq Nat
  BY <1>1, <1>w
<1>3. ASSUME NEW w \in Inside(s.allow, t) PROVE WindowEnd(w, t) \in Nat
  BY <1>w, WindowEndType DEF Inside
<1>4. Inside(s.exclude, t) # {}
      => Max({WindowEnd(w, t) : w \in Inside(s.exclude, t)}) \in Nat
  <2> DEFINE T == {WindowEnd(w, t) : w \in Inside(s.exclude, t)}
  <2>1. Inside(s.exclude, t) # {} => Max(T) \in T /\ T \subseteq Nat
    BY LastEndType
  <2> HIDE DEF T
  <2>2. Inside(s.exclude, t) # {} => Max(T) \in Nat
    BY <2>1
  <2>3. QED
    BY <2>2 DEF T
<1>5. transitions(s, t) \subseteq Nat
  BY <1>2, <1>3, <1>4 DEF transitions
<1>6. QED
  BY <1>5

\* The time of the requeue.
LEMMA DueType ==
    ASSUME NEW s, IsSchedule(s), NEW t \in Times
    PROVE  LET d == Min(transitions(s, t) \cup {Never})
           IN  d \in 0 .. Never /\ \A x \in transitions(s, t) : d <= x
<1> DEFINE S == transitions(s, t) \cup {Never}
<1>6. S \subseteq Nat /\ S # {} /\ Never \in S
  BY TransitionsType, BoundsType
<1> HIDE DEF S
<1>7. Min(S) \in S /\ \A m \in S : Min(S) <= m
  BY <1>6, MinNatural
<1>8. Min(S) \in 0 .. Never
  <2>1. Min(S) \in Nat /\ Min(S) <= Never
    BY <1>6, <1>7
  <2>2. QED
    BY <2>1, BoundsType
<1>9. QED
  BY <1>7, <1>8 DEF S

-----------------------------------------------------------------------------
(* Types.                                                                  *)

RecType == [step: {"idle", "request", "upsert", "cleanup"}, entry: Entry,
            turned: BOOLEAN, due: 0 .. Never]

LEMMA ConstantTypes ==
    NoEntry \in Entry /\ NoStatus \in View /\ GIdle \in RecType /\ Never \in 0 .. Never
BY BoundsType DEF NoEntry, Entry, NoStatus, View, GIdle, RecType

\* A reconcile that begins.
LEMMA BeginsType ==
    ASSUME NEW step \in {"idle", "request", "upsert", "cleanup"}, NEW entry \in Entry,
           NEW turned \in BOOLEAN, NEW due \in 0 .. Never, Begins(step, entry, turned, due)
    PROVE  /\ gateRec' \in RecType /\ gateQueue' = FALSE
           /\ gateRec'.step = step /\ gateRec'.entry = entry /\ gateRec'.due = due
BY DEF Begins, RecType

LEMMA ReportType ==
    ASSUME shown \in View, NEW ok \in BOOLEAN
    PROVE  Report(ok) \in Entry /\ Report(ok).sha = shown.sha /\ Report(ok).ok = ok
BY DEF Report, View, Entry

\* Where a reconcile of the gate gets to at once: what it reports is backed, and
\* a scheduled gate has found out how long that stays.
Started ==
    /\ gateRec' \in RecType /\ gateQueue' \in BOOLEAN
    /\ Backed(gateRec'.entry)
    /\ gateRec'.step = "request" => kind \in Polling /\ gateRec'.entry.sha # 0
    /\ gateRec'.step = "cleanup" => gateRec'.entry = NoEntry
    /\ kind = "scheduled" => /\ gateRec'.step # "idle"
                             /\ gateRec'.step = "upsert" => Agrees(gateRec'.entry.ok, gateRec'.due)

LEMMA CleansUpStarts == ASSUME TypeOK, CleansUp PROVE Started
<1>1. /\ gateRec' \in RecType /\ gateQueue' = FALSE
      /\ gateRec'.step = "cleanup" /\ gateRec'.entry = NoEntry
  BY ConstantTypes, BeginsType DEF CleansUp
<1>2. Backed(NoEntry)
  <2>1. tip \in Nat /\ NoEntry.sha = 0 /\ NoEntry.ok = FALSE
    BY BoundsType DEF TypeOK, NoEntry
  <2>2. QED
    BY <2>1 DEF Backed
<1>3. QED
  BY <1>1, <1>2 DEF Started

LEMMA ErrsStarts == ASSUME GateInv, Errs, kind # "scheduled" PROVE Started
BY DEF Errs, Started, GateInv, TypeOK, RecType, CopiesBacked, RecInv

\* A report on the commit that is shown.
LEMMA ReportStarts ==
    ASSUME TypeOK, Backed(shown), NEW ok \in BOOLEAN, NEW turned \in BOOLEAN, NEW due \in 0 .. Never,
           Begins("upsert", Report(ok), turned, due), ok => shown.sha \in MetShas,
           kind = "scheduled" => Agrees(ok, due)
    PROVE  Started
<1>1. Report(ok) \in Entry /\ Report(ok).sha = shown.sha /\ Report(ok).ok = ok
  BY ReportType DEF TypeOK
<1>2. /\ gateRec' \in RecType /\ gateQueue' = FALSE
      /\ gateRec'.step = "upsert" /\ gateRec'.entry = Report(ok) /\ gateRec'.due = due
  BY <1>1, BeginsType
<1>3. Backed(Report(ok))
  BY <1>1 DEF Backed
<1>4. QED
  BY <1>1, <1>2, <1>3 DEF Started

\* The commit that is shown is one, and it is there since some time.
LEMMA ShownType ==
    ASSUME TypeOK, SinceInv, Backed(shown), HasCommit
    PROVE  /\ shown.sha \in Shas /\ shown.sha <= tip /\ now \in Nat
           /\ since[shown.sha] \in Nat /\ since[shown.sha] <= now
<1>1. shown.sha \in Shas
  <2>1. shown.sha \in 0 .. MaxSha /\ shown.sha # 0 /\ MaxSha \in Nat
    BY BoundsType DEF TypeOK, View, HasCommit
  <2>2. QED
    BY <2>1 DEF Shas
<1>2. shown.sha <= tip
  BY DEF Backed
<1>3. since[shown.sha] \in Times /\ now \in Times
  BY <1>1 DEF TypeOK
<1>4. QED
  BY <1>1, <1>2, <1>3, BoundsType DEF SinceInv

LEMMA TimedStarts == ASSUME GateInv, kind = "timed", ReconcileTimed PROVE Started
<1>i. TypeOK /\ SinceInv /\ Backed(shown)
  BY DEF GateInv, CopiesBacked
<1>1. CASE ~HasCommit
  BY <1>1, <1>i, CleansUpStarts DEF ReconcileTimed
<1>2. CASE HasCommit
  <2> DEFINE ok == calculateCommitStatusPhase
             turned == gateCache.sha # 0 /\ ~gateCache.ok /\ ok
  <2>1. Begins("upsert", Report(ok), turned, Never)
    BY <1>2 DEF ReconcileTimed
  <2>2. ok => shown.sha \in MetShas
    <3>1. /\ shown.sha \in Shas /\ shown.sha <= tip /\ now \in Nat
          /\ since[shown.sha] \in Nat /\ Duration \in Nat
      BY <1>i, <1>2, ShownType, BoundsType
    <3>2. ok => Holds(shown.sha)
      BY <3>1 DEF calculateCommitStatusPhase, Holds
    <3>3. ok => Met(shown.sha)
      BY <3>1, <3>2 DEF Met, Polling
    <3>4. QED
      BY <3>1, <3>3 DEF MetShas
  <2>3. ok \in BOOLEAN /\ turned \in BOOLEAN
    BY DEF calculateCommitStatusPhase
  <2> HIDE DEF ok, turned
  <2>4. QED
    BY <1>i, <2>1, <2>2, <2>3, ConstantTypes, ReportStarts
<1>3. QED
  BY <1>1, <1>2

LEMMA ScheduledStarts == ASSUME GateInv, kind = "scheduled", ReconcileScheduled PROVE Started
<1>i. TypeOK /\ SinceInv /\ Backed(shown) /\ IsSchedule(schedule) /\ now \in Times
  BY ScheduleType DEF GateInv, CopiesBacked, TypeOK
<1>1. CASE ~HasCommit
  BY <1>1, <1>i, CleansUpStarts DEF ReconcileScheduled
<1>2. CASE HasCommit
  <2> DEFINE ok == Allows(schedule, now)
             turned == ~gateCache.ok /\ ok
             due == Min(transitions(schedule, now) \cup {Never})
  <2>1. Begins("upsert", Report(ok), turned, due)
    BY <1>2 DEF ReconcileScheduled
  <2>2. ok \in BOOLEAN /\ turned \in BOOLEAN
    BY DEF Allows
  <2>3. due \in 0 .. Never /\ \A x \in transitions(schedule, now) : due <= x
    BY <1>i, DueType
  <2>4. ok => shown.sha \in MetShas
    <3>1. /\ shown.sha \in Shas /\ shown.sha <= tip /\ now \in Nat
          /\ since[shown.sha] \in Nat /\ since[shown.sha] <= now
      BY <1>i, <1>2, ShownType
    <3>2. ok = Open(schedule, now)
      BY <1>i, AllowsIsOpen
    <3>3. now \in since[shown.sha] .. now
      BY <3>1
    <3>4. ok => Met(shown.sha)
      BY <3>1, <3>2, <3>3 DEF Met, Polling
    <3>5. QED
      BY <3>1, <3>4 DEF MetShas
  <2>5. Agrees(ok, due)
    <3>1. SUFFICES ASSUME NEW t \in now .. MaxTime, t < due PROVE Open(schedule, t) = ok
      BY DEF Agrees
    <3>2. t \in Times /\ now <= t
      BY <1>i, BoundsType DEF Times
    <3>3. ASSUME NEW x \in transitions(schedule, now) PROVE t < x
      <4>1. t < due /\ due <= x /\ due \in Nat /\ t \in Nat
        BY <2>3, <3>1, <3>2, BoundsType
      <4>2. x \in Nat
        BY <1>i, TransitionsType
      <4>3. QED
        BY <4>1, <4>2
    <3>4. Allows(schedule, t) = Allows(schedule, now)
      BY <1>i, <3>2, <3>3, AllowsStays
    <3>5. Allows(schedule, t) = Open(schedule, t)
      BY <1>i, <3>2, AllowsIsOpen
    <3>6. QED
      BY <3>4, <3>5
  <2> HIDE DEF ok, turned, due
  <2>6. QED
    BY <1>i, <2>1, <2>2, <2>3, <2>4, <2>5, ReportStarts
<1>3. QED
  BY <1>1, <1>2

LEMMA GitStarts == ASSUME GateInv, kind = "git", ReconcileGit PROVE Started
<1>i. TypeOK /\ SinceInv /\ Backed(shown)
  BY DEF GateInv, CopiesBacked
<1>1. CASE ~HasCommit
  BY <1>1, <1>i, CleansUpStarts, ErrsStarts DEF ReconcileGit
<1>2. CASE HasCommit
  <2> DEFINE ok == evaluateExpression
             turned == ~gateCache.ok /\ ok
  <2>1. Begins("upsert", Report(ok), turned, Never)
    BY <1>2 DEF ReconcileGit
  <2>2. ok => shown.sha \in MetShas
    <3>1. shown.sha \in Shas /\ shown.sha <= tip
      BY <1>i, <1>2, ShownType
    <3>2. QED
      BY <3>1 DEF evaluateExpression, MetShas, Met, Holds
  <2>3. ok \in BOOLEAN /\ turned \in BOOLEAN
    BY DEF evaluateExpression
  <2> HIDE DEF ok, turned
  <2>4. QED
    BY <1>i, <2>1, <2>2, <2>3, ConstantTypes, ReportStarts
<1>3. QED
  BY <1>1, <1>2

LEMMA WebRequestStarts == ASSUME GateInv, kind \in Polling, ReconcileWebRequest PROVE Started
<1>i. TypeOK /\ SinceInv /\ Backed(shown) /\ Backed(gateCache)
  BY DEF GateInv, CopiesBacked
<1>t. shown \in View /\ gateCache \in Entry /\ gateCache.ok \in BOOLEAN /\ (~gateCache.ok) \in BOOLEAN
  BY <1>i DEF TypeOK, Entry
<1>1. CASE ~HasCommit
  BY <1>1, <1>i, CleansUpStarts, ErrsStarts DEF ReconcileWebRequest, Polling
<1>2. CASE HasCommit
  <2>r. ReconcileWebRequestCommitStatusEnvironments
    BY <1>2 DEF ReconcileWebRequest
  <2>s. shown.sha \in Shas /\ shown.sha <= tip /\ shown.sha # 0
    BY <1>i, <1>2, ShownType DEF HasCommit
  <2>1. CASE Skips
    <3> DEFINE e == [gateCache EXCEPT !.sha = shown.sha]
    <3>1. Begins("upsert", e, FALSE, Never)
      BY <2>1, <2>r DEF ReconcileWebRequestCommitStatusEnvironments
    <3>2. e = gateCache
      BY <2>1, <1>t DEF Skips, Entry
    <3> HIDE DEF e
    <3>3. /\ gateRec' \in RecType /\ gateQueue' = FALSE
          /\ gateRec'.step = "upsert" /\ gateRec'.entry = gateCache
      BY <3>1, <3>2, <1>t, ConstantTypes, BeginsType
    <3>4. QED
      BY <3>3, <1>i DEF Started, Polling
  <2>2. CASE ~Skips /\ resolveHTTPExecutionDecision
    <3>1. Begins("request", Report(FALSE), ~gateCache.ok, Never)
      BY <2>2, <2>r DEF ReconcileWebRequestCommitStatusEnvironments
    <3>2. Report(FALSE) \in Entry /\ Report(FALSE).sha = shown.sha /\ Report(FALSE).ok = FALSE
      BY <1>t, ReportType
    <3>3. /\ gateRec' \in RecType /\ gateQueue' = FALSE
          /\ gateRec'.step = "request" /\ gateRec'.entry = Report(FALSE)
      BY <3>1, <3>2, <1>t, ConstantTypes, BeginsType
    <3>4. QED
      BY <3>2, <3>3, <2>s DEF Started, Backed
  <2>3. CASE ~Skips /\ ~resolveHTTPExecutionDecision
    <3> DEFINE e == reconcileOutcomeWithoutNewResponse
    <3>1. Begins("upsert", e, FALSE, Never)
      BY <2>3, <2>r DEF ReconcileWebRequestCommitStatusEnvironments
    <3>2. e \in Entry /\ e.sha = shown.sha /\ e.ok = FALSE
      BY <1>t, ReportType DEF reconcileOutcomeWithoutNewResponse, Entry
    <3> HIDE DEF e
    <3>3. /\ gateRec' \in RecType /\ gateQueue' = FALSE
          /\ gateRec'.step = "upsert" /\ gateRec'.entry = e
      BY <3>1, <3>2, ConstantTypes, BeginsType
    <3>4. QED
      BY <3>2, <3>3, <2>s DEF Started, Backed, Polling
  <2>4. QED
    BY <2>1, <2>2, <2>3
<1>3. QED
  BY <1>1, <1>2

LEMMA ReconcileStarts ==
    ASSUME GateInv, Reconcile
    PROVE  /\ Started
           /\ timer' \in 0 .. Never
           /\ UNCHANGED <<worldVars, listed, shown, gate, gateCache, cs, published, csVars, policyVars, fails>>
<1>1. kind \in {"timed", "scheduled", "git"} \cup Polling
  BY GateAssumption DEF GateInv, TypeOK
<1>2. Started
  <2>1. CASE kind = "timed"
    BY <2>1, TimedStarts DEF Reconcile, Polling
  <2>2. CASE kind = "scheduled"
    BY <2>2, ScheduledStarts DEF Reconcile, Polling
  <2>3. CASE kind = "git"
    BY <2>3, GitStarts DEF Reconcile, Polling
  <2>4. CASE kind \in Polling
    BY <2>4, WebRequestStarts DEF Reconcile, Polling
  <2>5. QED
    BY <1>1, <2>1, <2>2, <2>3, <2>4
<1>3. timer' \in 0 .. Never
  BY ConstantTypes DEF Reconcile, GateInv, TypeOK
<1>4. QED
  BY <1>2, <1>3 DEF Reconcile

\* The requeue is set, to a time, and of a scheduled gate to its first transition.
LEMMA RequeueType ==
    ASSUME TypeOK, NEW ok \in BOOLEAN, NEW due \in 0 .. Never
    PROVE  LET d == Min({timer, calculateRequeueDuration(ok, due)})
           IN  d \in 0 .. Never /\ (kind = "scheduled" => d <= due)
<1> DEFINE c == calculateRequeueDuration(ok, due)
<1>1. timedRequeue(ok) \in 0 .. Never
  <2>1. CASE ok
    BY <2>1, ConstantTypes DEF timedRequeue
  <2>2. CASE ~ok
    <3>0. now \in Nat /\ MaxTime \in Nat
      BY BoundsType DEF TypeOK
    <3>1. now + 1 \in Nat /\ MaxTime \in Nat
      BY <3>0
    <3>2. /\ Min({now + 1, MaxTime}) \in {now + 1, MaxTime}
          /\ Min({now + 1, MaxTime}) <= MaxTime
      BY <3>1, MinOfTwo
    <3>3. QED
      BY <2>2, <3>1, <3>2 DEF timedRequeue, Never
  <2>3. QED
    BY <2>1, <2>2
<1>2. c \in 0 .. Never /\ (kind = "scheduled" => c = due)
  BY <1>1, ConstantTypes DEF calculateRequeueDuration
<1> HIDE DEF c
<1>3. timer \in 0 .. Never
  BY DEF TypeOK
<1>4. Min({timer, c}) \in {timer, c} /\ Min({timer, c}) <= c
  BY <1>2, <1>3, BoundsType, MinOfTwo
<1>5. Min({timer, c}) \in 0 .. Never /\ (kind = "scheduled" => Min({timer, c}) <= due)
  BY <1>2, <1>3, <1>4
<1>6. QED
  BY <1>5 DEF c

\* The reconcile ends with its entry in the status.
LEMMA ApplyStatusType ==
    ASSUME TypeOK, applyStatus
    PROVE  /\ gate' \in Entry /\ gate' = gateRec.entry
           /\ timer' \in 0 .. Never /\ (kind = "scheduled" => timer' <= gateRec.due)
           /\ gateRec' \in RecType /\ gateRec' = GIdle
<1>1. gateRec.entry \in Entry /\ gateRec.due \in 0 .. Never
  BY DEF TypeOK
<1>2. gateRec.entry.ok \in BOOLEAN
  BY <1>1 DEF Entry
<1>3. timer' \in 0 .. Never /\ (kind = "scheduled" => timer' <= gateRec.due)
  BY <1>1, <1>2, RequeueType DEF applyStatus
<1>4. QED
  BY <1>1, <1>3, ConstantTypes DEF applyStatus

\* The CommitStatus gets the entry that was computed.
LEMMA UpsertType ==
    ASSUME GateInv, cs' = [sha |-> gateRec.entry.sha, ok |-> gateRec.entry.ok]
    PROVE  cs' \in View /\ (cs'.ok => cs'.sha # 0)
<1>1. gateRec.entry \in Entry /\ Backed(gateRec.entry)
  BY DEF GateInv, TypeOK, CopiesBacked
<1>2. cs'.ok => cs'.sha \in Shas
  BY <1>1 DEF Backed, MetShas
<1>3. QED
  BY <1>1, <1>2 DEF Entry, View, Shas

LEMMA TriggersType == Triggers \cup {FALSE} \subseteq BOOLEAN
<1>1. \A old : (indexed \in {old, csRec}) \in BOOLEAN
  OBVIOUS
<1>2. QED
  BY <1>1, Zenon DEF Triggers

LEMMA FailsType ==
    ASSUME TypeOK, fails < MaxFails, fails' = fails + 1
    PROVE  fails' \in 0 .. MaxFails
<1>1. fails \in 0 .. MaxFails /\ MaxFails \in Nat
  BY BoundsType DEF TypeOK
<1>2. QED
  BY <1>1

LEMMA TypeStep == GateInv /\ [Next]_vars => TypeOK'
<1> SUFFICES ASSUME GateInv, [Next]_vars PROVE TypeOK'
  OBVIOUS
<1>t. TypeOK
  BY DEF GateInv
<1>1. CASE Reconcile
  BY <1>t, <1>1, ReconcileStarts DEF TypeOK, Started, RecType, worldVars, csVars, policyVars
<1>2. CASE Execute
  <2>1. gateRec \in RecType
    BY <1>t DEF TypeOK, RecType
  <2>2. gateRec' \in RecType
    BY <1>2, <2>1 DEF Execute, RecType, Entry
  <2>3. QED
    BY <1>t, <1>2, <2>2 DEF TypeOK, Execute, RecType, worldVars, csVars, policyVars
<1>3. CASE UpsertCommitStatus
  <2>1. gateRec.turned \in BOOLEAN /\ policyQueue' \in BOOLEAN
    BY <1>t, <1>3 DEF TypeOK, UpsertCommitStatus, EnqueueChangeTransferPolicies
  <2>2. QED
    BY <1>t, <1>3, <2>1, ApplyStatusType, UpsertType
    DEF TypeOK, UpsertCommitStatus, RecType, worldVars, csVars
<1>4. CASE CleanupOrphanedCommitStatuses
  <2>1. cs' \in View /\ published' \in 0 .. MaxSha /\ (cs'.ok => cs'.sha # 0)
    <3>1. NoStatus \in View /\ ~NoStatus.ok /\ 0 \in 0 .. MaxSha
      BY BoundsType, ConstantTypes DEF NoStatus
    <3>2. QED
      BY <1>t, <1>4, <3>1 DEF TypeOK, CleanupOrphanedCommitStatuses
  <2>2. QED
    BY <1>t, <1>4, <2>1, ApplyStatusType
    DEF TypeOK, CleanupOrphanedCommitStatuses, RecType, worldVars, csVars, policyVars
<1>5. CASE GateCallFails
  <2>1. gateRec \in RecType /\ gateCache \in Entry
    BY <1>t DEF TypeOK, RecType
  <2>2. gate' \in Entry
    <3>1. gateRec.entry \in Entry
      BY <2>1 DEF RecType
    <3>2. QED
      BY <1>5, <2>1, <3>1 DEF GateCallFails
  <2>3. gateRec' \in RecType /\ gateQueue' \in BOOLEAN
    BY <1>5, ConstantTypes DEF GateCallFails
  <2>4. fails' \in 0 .. MaxFails
    BY <1>t, <1>5, FailsType DEF GateCallFails
  <2>5. QED
    BY <1>t, <1>5, <2>2, <2>3, <2>4
    DEF TypeOK, GateCallFails, RecType, worldVars, csVars, policyVars
<1>6. CASE GateStatusFails
  <2>1. gateRec.turned \in BOOLEAN /\ policyQueue' \in BOOLEAN
    BY <1>t, <1>6 DEF TypeOK, GateStatusFails, EnqueueChangeTransferPolicies
  <2>2. QED
    BY <1>t, <1>6, <2>1, ConstantTypes, UpsertType, FailsType
    DEF TypeOK, GateStatusFails, RecType, worldVars, csVars
<1>7. CASE DeliverGate
  <2>1. gateCache' \in Entry /\ gateQueue' \in BOOLEAN
    BY <1>t, <1>7 DEF TypeOK, DeliverGate
  <2>2. QED
    BY <1>t, <1>7, <2>1 DEF TypeOK, DeliverGate, worldVars, csVars, policyVars
<1>8. CASE IntervalElapses
  <2>1. gate' \in Entry /\ gateCache' \in Entry
    BY <1>t, <1>8 DEF TypeOK, IntervalElapses, Entry
  <2>2. QED
    BY <1>t, <1>8, <2>1 DEF TypeOK, IntervalElapses, worldVars, csVars, policyVars
<1>9. CASE ReconcileCommitStatus
  <2>1. csCache.sha \in 0 .. MaxSha
    BY <1>t DEF TypeOK, View
  <2>2. QED
    BY <1>t, <1>9, <2>1 DEF TypeOK, ReconcileCommitStatus, worldVars, gateVars, policyVars
<1>10. CASE Set
  <2>1. policyQueue' \in BOOLEAN /\ missed' \in BOOLEAN
    BY <1>t, <1>10, TriggersType DEF TypeOK, Set
  <2>2. 0 \in 0 .. MaxSha
    BY BoundsType
  <2>3. QED
    BY <1>t, <1>10, <2>1, <2>2 DEF TypeOK, Set, worldVars, gateVars
<1>11. CASE CommitStatusCallFails
  <2>1. policyQueue' \in BOOLEAN
    BY <1>t, <1>11, TriggersType DEF TypeOK, CommitStatusCallFails
  <2>2. 0 \in 0 .. MaxSha
    BY BoundsType
  <2>3. QED
    BY <1>t, <1>11, <2>1, <2>2, FailsType DEF TypeOK, CommitStatusCallFails, worldVars, gateVars
<1>12. CASE DeliverCommitStatus
  BY <1>t, <1>12 DEF TypeOK, DeliverCommitStatus, worldVars, gateVars, policyVars
<1>13. CASE PolicyReconcile
  <2>1. view' \in View
    <3>0. tip \in Shas /\ MaxSha \in Nat
      BY <1>t, BoundsType DEF TypeOK
    <3>1. tip \in 0 .. MaxSha
      BY <3>0 DEF Shas
    <3>2. (csCache.sha = tip /\ csCache.ok) \in BOOLEAN
      OBVIOUS
    <3>3. QED
      BY <1>13, <3>1, <3>2 DEF PolicyReconcile, setCommitStatusState, View
  <2>2. indexed' \in 0 .. MaxSha
    <3>1. tip \in Shas /\ MaxSha \in Nat /\ indexed \in 0 .. MaxSha
      BY <1>t, BoundsType DEF TypeOK
    <3>2. tip \in 0 .. MaxSha
      BY <3>1 DEF Shas
    <3>3. QED
      BY <1>13, <3>1, <3>2 DEF PolicyReconcile
  <2>3. QED
    BY <1>t, <1>13, <2>1, <2>2 DEF TypeOK, PolicyReconcile, worldVars, gateVars, csVars
<1>14. CASE PublishStrategy
  BY <1>t, <1>14
  DEF TypeOK, PublishStrategy, EnqueueCommitStatusGate, worldVars, csVars, policyVars
<1>15. CASE Push
  <2>1. tip' \in Shas
    <3>1. tip \in Shas /\ tip < MaxSha /\ tip' = tip + 1 /\ MaxSha \in Nat
      BY <1>t, <1>15, BoundsType DEF TypeOK, Push
    <3>2. QED
      BY <3>1 DEF Shas
  <2>2. since' \in [Shas -> Times]
    BY <1>t, <1>15 DEF TypeOK, Push
  <2>3. QED
    BY <1>t, <1>15, <2>1, <2>2 DEF TypeOK, Push, gateVars, csVars, policyVars
<1>16. CASE Tick
  <2>1. now' \in Times
    <3>1. now \in Times /\ now < MaxTime /\ now' = now + 1 /\ MaxTime \in Nat
      BY <1>t, <1>16, BoundsType DEF TypeOK, Tick
    <3>2. QED
      BY <3>1 DEF Times
  <2>2. QED
    BY <1>t, <1>16, <2>1 DEF TypeOK, Tick, gateVars, csVars, policyVars
<1>17. CASE Answer
  <2>1. service' \in [Shas -> {"no", "yes", "no more"}]
    BY <1>t, <1>17 DEF TypeOK, Answer
  <2>2. QED
    BY <1>t, <1>17, <2>1 DEF TypeOK, Answer, gateVars, csVars, policyVars
<1>18. CASE EditSpec
  BY <1>t, <1>18 DEF TypeOK, EditSpec, EnqueueCommitStatusGate, worldVars, csVars, policyVars
<1>19. CASE Crash
  <2>1. 0 \in 0 .. MaxSha /\ indexed' \in 0 .. MaxSha
    <3>1. view.sha \in 0 .. MaxSha
      BY <1>t DEF TypeOK, View
    <3>2. QED
      BY <1>19, <3>1, BoundsType DEF Crash
  <2>2. QED
    BY <1>t, <1>19, <2>1, ConstantTypes, FailsType DEF TypeOK, Crash, RecType, worldVars
<1>20. CASE UNCHANGED vars
  BY <1>t, <1>20 DEF TypeOK, vars, worldVars, gateVars, csVars, policyVars
<1>21. CASE DeliverPolicy
  <2>1. indexed' \in 0 .. MaxSha
    BY <1>t, <1>21 DEF TypeOK, DeliverPolicy, View
  <2>2. QED
    BY <1>t, <1>21, <2>1 DEF TypeOK, DeliverPolicy, worldVars, gateVars, csVars
<1>22. QED
  BY <1>1, <1>2, <1>3, <1>4, <1>5, <1>6, <1>7, <1>8, <1>9, <1>10, <1>11, <1>12, <1>13, <1>14,
     <1>15, <1>16, <1>17, <1>18, <1>19, <1>20, <1>21 DEF Next, Gate, CommitStatusController

-----------------------------------------------------------------------------
(* The world: commits and time are added, answers are not unsaid.          *)

WorldMove ==
    /\ kind' = kind /\ schedule' = schedule
    /\ tip <= tip' /\ now <= now'
    /\ MetShas \subseteq MetShas'
    /\ view' = view \/ MetShas' = MetShas

LEMMA WorldUnchanged ==
    ASSUME TypeOK, UNCHANGED worldVars
    PROVE  WorldMove
<1>1. tip \in Nat /\ now \in Nat
  BY BoundsType DEF TypeOK
<1>2. MetShas' = MetShas
  BY DEF MetShas, Met, Holds, worldVars
<1>3. QED
  BY <1>1, <1>2 DEF WorldMove, worldVars

LEMMA WorldStep == GateInv /\ [Next]_vars => WorldMove /\ SinceInv' /\ ScheduleInv'
<1> SUFFICES ASSUME GateInv, [Next]_vars PROVE WorldMove /\ SinceInv' /\ ScheduleInv'
  OBVIOUS
<1>t. TypeOK /\ SinceInv /\ ScheduleInv
  BY DEF GateInv
<1>n. /\ tip \in Nat /\ now \in Nat /\ MaxTime \in Nat /\ Duration \in Nat
      /\ \A s \in Shas : s \in Nat /\ since[s] \in Nat
  BY <1>t, BoundsType DEF TypeOK
<1>1. CASE UNCHANGED worldVars
  BY <1>t, <1>1, WorldUnchanged DEF SinceInv, ScheduleInv, worldVars
<1>2. CASE Push
  <2>1. /\ tip' = tip + 1 /\ tip' \in Shas /\ since' = [since EXCEPT ![tip + 1] = now]
        /\ UNCHANGED <<kind, schedule, now, service, view>>
    BY <1>2, TypeStep DEF Push, policyVars, TypeOK
  <2>2. ASSUME NEW s \in Shas, s <= tip PROVE since'[s] = since[s]
    <3>1. s # tip + 1
      BY <1>n, <2>2
    <3>2. QED
      BY <3>1, <2>1, <1>t DEF TypeOK
  <2>3. ASSUME NEW s \in MetShas PROVE s \in MetShas'
    <3>1. s \in Shas /\ s <= tip
      BY DEF MetShas, Met
    <3>2. since'[s] = since[s] /\ s <= tip'
      BY <3>1, <2>1, <2>2, <1>n
    <3>3. QED
      BY <3>1, <3>2, <2>1 DEF MetShas, Met, Holds
  <2>4. SinceInv'
    <3> SUFFICES ASSUME NEW s \in Shas, s <= tip' PROVE since'[s] <= now'
      BY DEF SinceInv
    <3>1. CASE s <= tip
      BY <3>1, <2>1, <2>2, <1>t DEF SinceInv
    <3>2. CASE s = tip + 1
      <4>1. since'[s] = now
        BY <3>2, <2>1, <1>t DEF TypeOK
      <4>2. QED
        BY <4>1, <2>1, <1>n
    <3>3. s <= tip \/ s = tip + 1
      <4>1. s \in Nat /\ s <= tip + 1
        BY <2>1, <1>n
      <4>2. QED
        BY <4>1, <1>n
    <3>4. QED
      BY <3>1, <3>2, <3>3
  <2>5. QED
    BY <1>t, <1>n, <2>1, <2>3, <2>4 DEF WorldMove, ScheduleInv
<1>3. CASE Tick
  <2>1. now' = now + 1 /\ UNCHANGED <<kind, schedule, tip, since, service, view>>
    BY <1>3 DEF Tick, policyVars
  <2>2. ASSUME NEW s \in MetShas PROVE s \in MetShas'
    <3>1. s \in Shas /\ s <= tip /\ since[s] \in Nat /\ Met(s)
      BY <1>n DEF MetShas, Met
    <3>2. CASE kind = "scheduled"
      <4>1. PICK t \in since[s] .. now : Open(schedule, t)
        BY <3>1, <3>2 DEF Met, Polling
      <4>2. t \in since[s] .. now'
        BY <3>1, <2>1, <1>n
      <4>3. QED
        BY <3>1, <3>2, <4>1, <4>2, <2>1 DEF MetShas, Met
    <3>3. CASE kind = "timed"
      <4>1. now >= since[s] + Duration
        BY <3>1, <3>3 DEF Met, Holds, Polling
      <4>2. now' >= since[s] + Duration
        BY <4>1, <3>1, <2>1, <1>n
      <4>3. QED
        BY <3>1, <3>3, <4>2, <2>1 DEF MetShas, Met, Holds
    <3>4. QED
      BY <1>3, <3>2, <3>3 DEF Tick
  <2>3. SinceInv'
    BY <1>n, <1>t, <2>1 DEF SinceInv
  <2>4. QED
    BY <1>t, <1>n, <2>1, <2>2, <2>3 DEF WorldMove, ScheduleInv
<1>4. CASE Answer
  <2>1. kind \in Polling /\ UNCHANGED <<kind, schedule, now, tip, since, view>>
    BY <1>4 DEF Answer, policyVars
  <2>2. ASSUME NEW s \in Shas, service[s] # "no" PROVE service'[s] # "no"
    BY <1>4, <1>t, <2>2 DEF Answer, TypeOK
  <2>3. MetShas \subseteq MetShas'
    BY <2>1, <2>2 DEF MetShas, Met, Polling
  <2>4. SinceInv'
    BY <1>t, <2>1 DEF SinceInv
  <2>5. QED
    BY <1>t, <1>n, <2>1, <2>3, <2>4 DEF WorldMove, ScheduleInv
<1>5. QED
  <2>1. UNCHANGED worldVars \/ Push \/ Tick \/ Answer
    BY DEF Next, Gate, CommitStatusController, Reconcile, Execute, UpsertCommitStatus,
       CleanupOrphanedCommitStatuses, GateCallFails, GateStatusFails, DeliverGate, IntervalElapses,
       ReconcileCommitStatus, Set, CommitStatusCallFails, DeliverCommitStatus, PolicyReconcile, DeliverPolicy,
       PublishStrategy, EditSpec, Crash, vars
  <2>2. QED
    BY <1>1, <1>2, <1>3, <1>4, <2>1

-----------------------------------------------------------------------------
(* Every copy of a success is backed.                                      *)

\* What is backed stays so, and so does what is copied from it.
LEMMA BackedStays ==
    ASSUME WorldMove, TypeOK, TypeOK', NEW e, e.sha \in Nat, Backed(e)
    PROVE  e.sha <= tip' /\ (e.ok => e.sha \in MetShas')
<1>1. tip \in Nat /\ tip' \in Nat
  BY BoundsType DEF TypeOK
<1>2. e.sha <= tip /\ tip <= tip' /\ MetShas \subseteq MetShas'
  BY DEF Backed, WorldMove
<1>3. e.sha <= tip'
  BY <1>1, <1>2
<1>4. QED
  BY <1>2, <1>3 DEF Backed

\* Backed, of the next state.
BackedNext(e) == e.sha <= tip' /\ (e.ok => e.sha \in MetShas')

LEMMA OldCopies ==
    ASSUME GateInv, WorldMove, TypeOK'
    PROVE  /\ BackedNext(gate) /\ BackedNext(gateCache) /\ BackedNext(gateRec.entry)
           /\ BackedNext(cs) /\ BackedNext(csCache) /\ BackedNext(view) /\ BackedNext(shown)
           /\ BackedNext(NoEntry) /\ BackedNext(NoStatus) /\ BackedNext(GIdle.entry)
<1>1. \A n \in 0 .. MaxSha : n \in Nat
  BY BoundsType
<1>2. /\ gate.sha \in Nat /\ gateCache.sha \in Nat /\ gateRec.entry.sha \in Nat
      /\ cs.sha \in Nat /\ csCache.sha \in Nat /\ view.sha \in Nat /\ shown.sha \in Nat
  BY <1>1 DEF GateInv, TypeOK, Entry, View
<1>3. TypeOK /\ tip' \in Nat
  BY BoundsType DEF GateInv, TypeOK
<1>4. ASSUME NEW e, e.sha \in Nat, Backed(e) PROVE BackedNext(e)
  BY <1>3, <1>4, BackedStays DEF BackedNext
<1>5. BackedNext(NoEntry) /\ BackedNext(NoStatus) /\ BackedNext(GIdle.entry)
  BY <1>3 DEF BackedNext, NoEntry, NoStatus, GIdle
<1>6. QED
  BY <1>2, <1>4, <1>5 DEF GateInv, CopiesBacked

LEMMA CopiesStep ==
    ASSUME GateInv, [Next]_vars, WorldMove, TypeOK'
    PROVE  CopiesBacked'
<1>o. /\ BackedNext(gate) /\ BackedNext(gateCache) /\ BackedNext(gateRec.entry)
      /\ BackedNext(cs) /\ BackedNext(csCache) /\ BackedNext(view) /\ BackedNext(shown)
      /\ BackedNext(NoEntry) /\ BackedNext(NoStatus) /\ BackedNext(GIdle.entry)
  BY OldCopies
<1>t. TypeOK
  BY DEF GateInv
<1> SUFFICES /\ BackedNext(gate') /\ BackedNext(gateCache') /\ BackedNext(gateRec'.entry)
             /\ BackedNext(cs') /\ BackedNext(csCache') /\ BackedNext(view') /\ BackedNext(shown')
  BY DEF CopiesBacked, Backed, BackedNext
<1>c. ASSUME cs' = [sha |-> gateRec.entry.sha, ok |-> gateRec.entry.ok] PROVE BackedNext(cs')
  BY <1>o, <1>c DEF BackedNext
<1>1. CASE Reconcile
  <2>1. /\ Backed(gateRec'.entry) /\ UNCHANGED worldVars
        /\ UNCHANGED <<gate, gateCache, cs, csCache, view, shown>>
    BY <1>1, ReconcileStarts DEF Started, csVars, policyVars
  <2>2. MetShas' = MetShas /\ tip' = tip
    BY <2>1 DEF MetShas, Met, Holds, worldVars
  <2>3. BackedNext(gateRec'.entry)
    BY <2>1, <2>2 DEF Backed, BackedNext
  <2>4. QED
    BY <1>o, <2>1, <2>3
<1>2. CASE Execute
  <2>1. /\ UNCHANGED worldVars /\ UNCHANGED <<gate, gateCache, cs, csCache, view, shown>>
        /\ kind \in Polling /\ gateRec.entry.sha # 0
    BY <1>2 DEF Execute, csVars, policyVars, GateInv, RecInv
  <2>2. /\ gateRec'.entry.sha = gateRec.entry.sha
        /\ gateRec'.entry.ok = (service[gateRec.entry.sha] = "yes")
    <3>1. gateRec \in RecType
      BY <1>t DEF TypeOK, RecType
    <3>2. QED
      BY <1>2, <3>1 DEF Execute, RecType, Entry
  <2>3. gateRec.entry.sha \in Shas /\ gateRec.entry.sha <= tip
    <3>1. gateRec.entry.sha \in 0 .. MaxSha /\ MaxSha \in Nat
      BY <1>t, BoundsType DEF TypeOK, Entry
    <3>2. Backed(gateRec.entry)
      BY DEF GateInv, CopiesBacked
    <3>3. QED
      BY <2>1, <3>1, <3>2 DEF Shas, Backed
  <2>4. service[gateRec.entry.sha] = "yes" => gateRec.entry.sha \in MetShas
    BY <2>1, <2>3 DEF MetShas, Met, Polling
  <2>5. MetShas \subseteq MetShas'
    BY DEF WorldMove
  <2>6. BackedNext(gateRec'.entry)
    BY <1>o, <2>2, <2>4, <2>5 DEF BackedNext
  <2>7. QED
    BY <1>o, <2>1, <2>6
<1>3. CASE UpsertCommitStatus
  BY <1>o, <1>c, <1>3 DEF UpsertCommitStatus, applyStatus, csVars
<1>4. CASE CleanupOrphanedCommitStatuses
  BY <1>o, <1>4 DEF CleanupOrphanedCommitStatuses, applyStatus, csVars, policyVars
<1>5. CASE GateCallFails
  BY <1>o, <1>5 DEF GateCallFails, csVars, policyVars
<1>6. CASE GateStatusFails
  BY <1>o, <1>c, <1>6 DEF GateStatusFails, csVars
<1>7. CASE DeliverGate
  BY <1>o, <1>7 DEF DeliverGate, csVars, policyVars
<1>8. CASE IntervalElapses
  <2>1. /\ gate'.sha = gate.sha /\ gate'.ok = gate.ok
        /\ gateCache'.sha = gateCache.sha /\ gateCache'.ok = gateCache.ok
    BY <1>8, <1>t DEF IntervalElapses, TypeOK, Entry
  <2>2. BackedNext(gate') /\ BackedNext(gateCache')
    BY <1>o, <2>1 DEF BackedNext
  <2>3. QED
    BY <1>o, <1>8, <2>2 DEF IntervalElapses, csVars, policyVars
<1>9. CASE ReconcileCommitStatus
  BY <1>o, <1>9 DEF ReconcileCommitStatus, gateVars, policyVars
<1>10. CASE Set
  BY <1>o, <1>10 DEF Set, gateVars
<1>11. CASE CommitStatusCallFails
  BY <1>o, <1>11 DEF CommitStatusCallFails, gateVars
<1>12. CASE DeliverCommitStatus
  BY <1>o, <1>12 DEF DeliverCommitStatus, gateVars, policyVars
<1>13. CASE PolicyReconcile
  <2>1. view'.sha = tip /\ view'.ok = (csCache.sha = tip /\ csCache.ok) /\ tip' = tip /\ tip \in Nat
    BY <1>13, <1>t, BoundsType DEF PolicyReconcile, setCommitStatusState, worldVars, TypeOK
  <2>2. BackedNext(view')
    <3>1. view'.sha <= tip'
      BY <2>1
    <3>2. view'.ok => view'.sha \in MetShas'
      BY <1>o, <2>1 DEF BackedNext
    <3>3. QED
      BY <3>1, <3>2 DEF BackedNext
  <2>3. QED
    BY <1>o, <1>13, <2>2 DEF PolicyReconcile, gateVars, csVars
<1>14. CASE PublishStrategy
  BY <1>o, <1>14 DEF PublishStrategy, csVars, policyVars
<1>15. CASE Push \/ Tick \/ Answer
  BY <1>o, <1>15 DEF Push, Tick, Answer, gateVars, csVars, policyVars
<1>16. CASE EditSpec
  BY <1>o, <1>16 DEF EditSpec, csVars, policyVars
<1>17. CASE Crash
  BY <1>o, <1>17 DEF Crash
<1>18. CASE UNCHANGED vars
  BY <1>o, <1>18 DEF vars, gateVars, csVars, policyVars
<1>19. CASE DeliverPolicy
  BY <1>o, <1>19 DEF DeliverPolicy, gateVars, csVars
<1>20. QED
  BY <1>1, <1>2, <1>3, <1>4, <1>5, <1>6, <1>7, <1>8, <1>9, <1>10, <1>11, <1>12, <1>13, <1>14,
     <1>15, <1>16, <1>17, <1>18, <1>19 DEF Next, Gate, CommitStatusController

-----------------------------------------------------------------------------
(* A scheduled gate wakes up in time.                                      *)

\* Time that passes leaves less to agree on.
LEMMA AgreesStays ==
    ASSUME TypeOK, TypeOK', WorldMove, NEW ok, NEW until, Agrees(ok, until)
    PROVE  \A t \in now' .. MaxTime : t < until => Open(schedule', t) = ok
<1>1. now \in Nat /\ now' \in Nat /\ now <= now' /\ schedule' = schedule /\ MaxTime \in Nat
  BY BoundsType DEF TypeOK, WorldMove
<1>2. ASSUME NEW t \in now' .. MaxTime PROVE t \in now .. MaxTime
  BY <1>1
<1>3. QED
  BY <1>1, <1>2 DEF Agrees

\* The steps at which a reconcile is neither begun nor ended.
LEMMA ReconcileGoesOn ==
    ASSUME GateInv, [Next]_vars
    PROVE  \/ Reconcile \/ Execute \/ UpsertCommitStatus \/ CleanupOrphanedCommitStatuses
           \/ gateRec' = GIdle /\ gateQueue' = TRUE
           \/ gateRec' = gateRec /\ gateQueue' = TRUE
           \/ UNCHANGED <<gate, timer, gateRec, gateQueue>>
BY DEF Next, Gate, CommitStatusController, GateCallFails, GateStatusFails, DeliverGate, IntervalElapses,
   ReconcileCommitStatus, Set, CommitStatusCallFails, DeliverCommitStatus, PolicyReconcile, DeliverPolicy,
   PublishStrategy, EnqueueCommitStatusGate, Push, Tick, Answer, EditSpec, Crash, vars, gateVars

LEMMA RecStep ==
    ASSUME GateInv, [Next]_vars, WorldMove, TypeOK'
    PROVE  RecInv'
<1>t. TypeOK /\ RecInv
  BY DEF GateInv
<1>k. kind' = kind
  BY DEF WorldMove
<1>i. CASE gateRec' = GIdle
  BY <1>i DEF RecInv, GIdle
<1>1. CASE Reconcile
  <2>1. Started /\ UNCHANGED worldVars
    BY <1>1, ReconcileStarts
  <2>2. QED
    BY <2>1 DEF Started, RecInv, Agrees, worldVars
<1>2. CASE Execute
  <2>1. gateRec'.step = "upsert" /\ gateRec.step = "request"
    BY <1>2, <1>t DEF Execute, TypeOK
  <2>2. kind \in Polling
    BY <2>1, <1>t DEF RecInv
  <2>3. QED
    BY <2>1, <2>2, <1>k DEF RecInv, Polling
<1>3. CASE gateRec' = gateRec
  <2>1. ASSUME kind = "scheduled", gateRec.step = "upsert"
        PROVE  \A t \in now' .. MaxTime : t < gateRec.due => Open(schedule', t) = gateRec.entry.ok
    <3>1. Agrees(gateRec.entry.ok, gateRec.due)
      BY <2>1, <1>t DEF RecInv
    <3>2. QED
      BY <3>1, <1>t, AgreesStays
  <2>2. QED
    BY <1>3, <1>k, <1>t, <2>1 DEF RecInv, Agrees
<1>4. QED
  BY <1>i, <1>1, <1>2, <1>3, ReconcileGoesOn
  DEF UpsertCommitStatus, CleanupOrphanedCommitStatuses, applyStatus

LEMMA TimerStep ==
    ASSUME GateInv, [Next]_vars, WorldMove, TypeOK'
    PROVE  TimerSound'
<1>t. TypeOK /\ RecInv /\ TimerSound
  BY DEF GateInv
<1> SUFFICES ASSUME kind' = "scheduled", gateRec'.step = "idle", ~gateQueue', gate'.sha # 0
             PROVE  \A t \in now' .. MaxTime : t < timer' => Open(schedule', t) = gate'.ok
  BY DEF TimerSound
<1>k. kind = "scheduled"
  BY DEF WorldMove
<1>1. CASE Reconcile
  BY <1>1, <1>k, ReconcileStarts DEF Started
<1>2. CASE Execute
  BY <1>2, <1>t DEF Execute, TypeOK
<1>3. CASE UpsertCommitStatus
  <2>1. gateRec.step = "upsert" /\ applyStatus
    BY <1>3 DEF UpsertCommitStatus
  <2>2. Agrees(gateRec.entry.ok, gateRec.due)
    BY <2>1, <1>k, <1>t DEF RecInv
  <2>3. \A t \in now' .. MaxTime : t < gateRec.due => Open(schedule', t) = gateRec.entry.ok
    BY <2>2, <1>t, AgreesStays
  <2>4. gate' = gateRec.entry /\ timer' <= gateRec.due
    BY <2>1, <1>k, <1>t, ApplyStatusType
  <2>5. ASSUME NEW t \in now' .. MaxTime, t < timer' PROVE t < gateRec.due
    <3>1. now' \in Nat /\ timer' \in 0 .. Never /\ gateRec.due \in 0 .. Never /\ Never \in Nat
      BY <1>t, BoundsType DEF TypeOK
    <3>2. QED
      BY <3>1, <2>4, <2>5
  <2>6. QED
    BY <2>3, <2>4, <2>5
<1>4. CASE CleanupOrphanedCommitStatuses
  <2>1. gateRec.entry = NoEntry /\ gate' = gateRec.entry
    BY <1>4, <1>t DEF CleanupOrphanedCommitStatuses, applyStatus, RecInv
  <2>2. QED
    BY <2>1 DEF NoEntry
<1>5. CASE UNCHANGED <<gate, timer, gateRec, gateQueue>>
  <2>1. Agrees(gate.ok, timer)
    BY <1>5, <1>k, <1>t DEF TimerSound, Agrees
  <2>2. \A t \in now' .. MaxTime : t < timer => Open(schedule', t) = gate.ok
    BY <2>1, <1>t, AgreesStays
  <2>3. QED
    BY <1>5, <2>2
<1>6. QED
  BY <1>1, <1>2, <1>3, <1>4, <1>5, ReconcileGoesOn

-----------------------------------------------------------------------------
(* A policy whose verdict is out of date looks again.                      *)

\* The other steps leave the CommitStatus controller, the policy's verdict and the
\* history alone, and withdraw no wake-up.
LEMMA AwakeGoesOn ==
    ASSUME GateInv, [Next]_vars
    PROVE  \/ ReconcileCommitStatus \/ Set
           \/ csQueue' = TRUE
           \/ PolicyReconcile
           \/ UNCHANGED <<csCache, csQueue, csRec, view, missed>> /\ (policyQueue => policyQueue')
BY DEF Next, Gate, CommitStatusController, Reconcile, Execute, UpsertCommitStatus,
   CleanupOrphanedCommitStatuses, EnqueueChangeTransferPolicies, GateCallFails, GateStatusFails,
   DeliverGate, IntervalElapses, CommitStatusCallFails, DeliverCommitStatus, DeliverPolicy,
   PublishStrategy, Push, Tick, Answer, EditSpec, Crash, vars, csVars, policyVars

LEMMA AwakeStep ==
    ASSUME GateInv, [Next]_vars, TypeOK'
    PROVE  PolicyAwake'
<1>t. TypeOK /\ PolicyAwake
  BY DEF GateInv
<1> SUFFICES ASSUME csCache'.sha = view'.sha, csCache'.ok # view'.ok
             PROVE  policyQueue' \/ csQueue' \/ csRec' = csCache'.sha \/ missed'
  BY DEF PolicyAwake
<1>1. CASE ReconcileCommitStatus
  BY <1>1 DEF ReconcileCommitStatus
<1>2. CASE Set
  <2>1. UNCHANGED <<csCache, csQueue, view>>
    BY <1>2 DEF Set
  <2>2. policyQueue \/ csQueue \/ csRec = csCache.sha \/ missed
    BY <1>t, <2>1 DEF PolicyAwake
  <2>3. policyQueue => policyQueue'
    BY <1>2 DEF Set
  <2>4. missed => policyQueue' \/ missed'
    BY <1>2 DEF Set
  <2>5. CASE csRec = csCache.sha /\ indexed = view.sha
    <3>1. \A t \in Triggers : t
      BY <2>1, <2>5 DEF Triggers
    <3>2. policyQueue'
      BY <1>2, <3>1 DEF Set
    <3>3. QED
      BY <3>2
  <2>6. CASE indexed # view.sha
    BY <1>2, <2>6 DEF Set
  <2>7. QED
    BY <2>1, <2>2, <2>3, <2>4, <2>5, <2>6
<1>3. CASE csQueue' = TRUE
  BY <1>3
<1>4. CASE PolicyReconcile
  <2>1. view'.sha = tip /\ view'.ok = (csCache.sha = tip /\ csCache.ok) /\ csCache' = csCache
    BY <1>4 DEF PolicyReconcile, setCommitStatusState, csVars
  <2>2. csCache.ok \in BOOLEAN
    BY <1>t DEF TypeOK, View
  <2>3. QED
    BY <2>1, <2>2
<1>5. CASE UNCHANGED <<csCache, csQueue, csRec, view, missed>> /\ (policyQueue => policyQueue')
  BY <1>t, <1>5 DEF PolicyAwake
<1>6. QED
  BY <1>1, <1>2, <1>3, <1>4, <1>5, AwakeGoesOn

-----------------------------------------------------------------------------
(* The theorems.                                                           *)

LEMMA GateInit == Init => GateInv
<1> SUFFICES ASSUME Init PROVE GateInv
  OBVIOUS
<1>1. tip = 1 /\ 1 \in Shas /\ now = 0 /\ 0 \in Times /\ 0 \in 0 .. MaxSha /\ 0 \in 0 .. MaxFails
  BY BoundsType DEF Init, Shas, Times
<1>2. TypeOK
  <2>1. service \in [Shas -> {"no", "yes", "no more"}]
    BY DEF Init
  <2>2. since \in [Shas -> Times]
    BY <1>1 DEF Init
  <2>3. shown \in View /\ view \in View
    BY <1>1 DEF Init, View
  <2>4. NoStatus.ok = FALSE
    BY DEF NoStatus
  <2>5. fails \in 0 .. MaxFails /\ indexed \in 0 .. MaxSha
    BY <1>1, BoundsType DEF Init
  <2>6. QED
    BY <1>1, <2>1, <2>2, <2>3, <2>4, <2>5, ConstantTypes DEF Init, TypeOK, RecType
<1>3. SinceInv /\ ScheduleInv
  BY <1>1 DEF Init, SinceInv, ScheduleInv
<1>4. CopiesBacked
  BY <1>1 DEF Init, CopiesBacked, Backed, NoEntry, NoStatus, GIdle
<1>5. RecInv /\ TimerSound /\ PolicyAwake
  BY DEF Init, RecInv, TimerSound, PolicyAwake, GIdle, NoEntry
<1>6. QED
  BY <1>2, <1>3, <1>4, <1>5 DEF GateInv

LEMMA GateStep == GateInv /\ [Next]_vars => GateInv'
<1> SUFFICES ASSUME GateInv, [Next]_vars PROVE GateInv'
  OBVIOUS
<1>1. TypeOK' /\ WorldMove /\ SinceInv' /\ ScheduleInv'
  BY TypeStep, WorldStep
<1>2. QED
  BY <1>1, CopiesStep, RecStep, TimerStep, AwakeStep DEF GateInv

LEMMA GateInvariant == Spec => []GateInv
<1>1. QED
  BY GateInit, GateStep, PTL DEF Spec

\* Types: every variable of the gate, of the CommitStatus and of the policy's
\* lookup keeps its type, whatever fails; a CommitStatus that has success names
\* a commit.
THEOREM GateTypeCorrect == Spec => []TypeOK
<1>1. GateInv => TypeOK
  BY DEF GateInv
<1>2. QED
  BY <1>1, GateInvariant, PTL

\* evaluateWindows and calculateRequeueDuration: whatever windows the spec
\* lists, a scheduled gate that sleeps wakes up before its schedule says
\* otherwise than its status does.
THEOREM ScheduledWakesInTime == Spec => []TimerSound
<1>1. GateInv => TimerSound
  BY DEF GateInv
<1>2. QED
  BY <1>1, GateInvariant, PTL

\* triggerReconcileChangeTransferPolicy: a policy whose verdict on its commit is not
\* the CommitStatus' is queued, or will be when the CommitStatus controller is
\* done, unless the index was behind when it looked the policy up; whatever fails
\* and whichever of the two statuses is stale.
THEOREM PolicyIsAwake == Spec => []PolicyAwake
<1>1. GateInv => PolicyAwake
  BY DEF GateInv
<1>2. QED
  BY <1>1, GateInvariant, PTL

\* The contract: setCommitStatusState finds success for a commit only after the
\* condition of the gate was met for that very commit.
THEOREM GateIsSound == Spec => Sound
<1>1. Init => Contract!Init
  BY DEF Init, Contract!Init
<1>2. GateInv /\ [Next]_vars
      => [Contract!Meet \/ Contract!Look]_<<MetShas, view>>
  <2> SUFFICES ASSUME GateInv, [Next]_vars
               PROVE  [Contract!Meet \/ Contract!Look]_<<MetShas, view>>
    OBVIOUS
  <2>1. WorldMove /\ GateInv'
    BY WorldStep, GateStep
  <2>2. CASE view' = view
    <3>1. MetShas \subseteq MetShas' /\ MetShas' \subseteq Shas
      BY <2>1 DEF WorldMove, MetShas
    <3>2. Contract!Meet
      BY <2>2, <3>1 DEF Contract!Meet, MetShas
    <3>3. QED
      BY <3>2
  <2>3. CASE view' # view
    <3>1. PolicyReconcile
      BY <2>3 DEF Next, Gate, CommitStatusController, Reconcile, Execute, UpsertCommitStatus,
         CleanupOrphanedCommitStatuses, GateCallFails, GateStatusFails, DeliverGate, IntervalElapses,
         ReconcileCommitStatus, Set, CommitStatusCallFails, DeliverCommitStatus, DeliverPolicy, PublishStrategy,
         Push, Tick, Answer, EditSpec, Crash, vars, policyVars
    <3>2. MetShas' = MetShas
      BY <2>1, <2>3 DEF WorldMove
    <3>3. view'.sha \in Shas /\ view'.ok \in BOOLEAN
      BY <3>1, <2>1 DEF PolicyReconcile, setCommitStatusState, GateInv, TypeOK
    <3>4. view'.ok => view'.sha \in MetShas
      BY <2>1, <3>2 DEF GateInv, CopiesBacked, Backed
    <3>5. Contract!Look
      BY <3>2, <3>3, <3>4 DEF Contract!Look, MetShas
    <3>6. QED
      BY <3>5
  <2>4. QED
    BY <2>2, <2>3
<1>3. QED
  BY <1>1, <1>2, GateInvariant, PTL DEF Spec, Sound, Contract!Spec, MetShas
=============================================================================
