---------------------------- MODULE AgendaProofs ----------------------------
(***************************************************************************)
(* Proofs about Agenda: type correctness, the inductive invariant IInv,    *)
(* freedom from deadlock, and that the executor implements WorkPool.       *)
(***************************************************************************)
EXTENDS Agenda, FiniteSetTheorems, WellFoundedInduction, TLAPS

Control == {"off", "claiming", "waiting", "running", "dropping"}

\* notify_one and notify_all only turn sleepers into claimers.
LEMMA NotifyOne ==
  ASSUME NEW p \in [Thread -> Control], notify_one(p)
  PROVE  /\ pc' \in [Thread -> Control]
         /\ \A w \in Thread :
               pc'[w] = p[w] \/ (p[w] = "waiting" /\ pc'[w] = "claiming")
BY DEF notify_one, Control

LEMMA NotifyAll ==
  ASSUME NEW p \in [Thread -> Control], notify_all(p)
  PROVE  /\ pc' \in [Thread -> Control]
         /\ \A w \in Thread :
               pc'[w] = p[w] \/ (p[w] = "waiting" /\ pc'[w] = "claiming")
BY DEF notify_all, Control

\* The outcome of cleanup on the waiting threads.
LEMMA CleanupWakes ==
  ASSUME NEW th \in Thread, NEW fail, pc \in [Thread -> Control], cleanup(th, fail)
  PROVE  /\ pc' \in [Thread -> Control]
         /\ pc'[th] = "dropping"
         /\ \A w \in Thread \ {th} :
               pc'[w] = pc[w] \/ (pc[w] = "waiting" /\ pc'[w] = "claiming")
<1> DEFINE p == [pc EXCEPT ![th] = "dropping"]
<1>1. p \in [Thread -> Control]
  BY DEF Control
<1>2. notify_one(p) \/ notify_all(p)
  BY DEF cleanup
<1>3. /\ pc' \in [Thread -> Control]
      /\ \A w \in Thread :
            pc'[w] = p[w] \/ (p[w] = "waiting" /\ pc'[w] = "claiming")
  <2> HIDE DEF p
  <2> QED BY <1>1, <1>2, NotifyOne, NotifyAll
<1> QED BY <1>3

-----------------------------------------------------------------------------
LEMMA InitType == Init => TypeOK
BY BoundAssumption DEF Init, TypeOK

LEMMA ScheduleType ==
  ASSUME TypeOK, NEW t \in Task, schedule(t)
  PROVE  /\ tasks_' \in SUBSET Task
         /\ order' \in [Task -> Nat]
         /\ refs' \in [Segment -> SUBSET Task]
         /\ num_submitted_' \in Nat
         /\ pc' \in [Thread -> Control]
<1> USE DEF TypeOK
<1>1. pc' \in [Thread -> Control]
  BY NotifyOne DEF schedule, Control
<1> QED BY <1>1 DEF schedule

LEMMA NextType == TypeOK /\ [Next]_vars => TypeOK'
<1> SUFFICES ASSUME TypeOK, [Next]_vars PROVE TypeOK'
  OBVIOUS
<1> USE TaskAssumption, BoundAssumption DEF Control
<1>1. ASSUME NEW th \in Thread, Claim(th) PROVE TypeOK'
  BY <1>1 DEF Claim, TypeOK
<1>2. ASSUME NEW th \in Thread, WaitForWork(th) PROVE TypeOK'
  BY <1>2 DEF WaitForWork, TypeOK
<1>3. ASSUME NEW th \in Thread, Leave(th) PROVE TypeOK'
  BY <1>3 DEF Leave, TypeOK
<1>4. ASSUME NEW th \in Thread, NEW t \in Task, Spawn(th, t) PROVE TypeOK'
  BY <1>4, ScheduleType DEF Spawn, TypeOK
<1>5. ASSUME NEW th \in Thread, Retry(th) PROVE TypeOK'
  BY <1>5 DEF Retry, TypeOK
<1>6. ASSUME NEW th \in Thread, NEW fail \in BOOLEAN, cleanup(th, fail) PROVE TypeOK'
  <2>1. pc' \in [Thread -> Control]
    BY <1>6, CleanupWakes DEF TypeOK
  <2>2. classes_' \in [task_type_e -> Int]
    <3> DEFINE c == ClassOf[cur[th]]
    <3>1. classes_' = [classes_ EXCEPT ![c] = classes_[c] - 1]
      BY <1>6 DEF cleanup
    <3>2. classes_ \in [task_type_e -> Int]
      BY DEF TypeOK
    <3> HIDE DEF c
    <3>3. ASSUME NEW k \in task_type_e PROVE classes_'[k] \in Int
      BY <3>1, <3>2, <3>3
    <3> QED BY <3>1, <3>2, <3>3
  <2>3. /\ num_working_' \in Int
        /\ num_done_' \in Nat
        /\ num_failed_' \in Nat
        /\ attempt' \in [Thread -> 0..MaxAttempts]
    BY <1>6 DEF cleanup, TypeOK
  <2>4. UNCHANGED <<tasks_, order, segments_in_flight_, refs, num_submitted_, cur,
                    main, progress, runs>>
    BY <1>6 DEF cleanup
  <2> QED BY <2>1, <2>2, <2>3, <2>4 DEF TypeOK
<1>7. ASSUME NEW th \in Thread, DropSegment(th) PROVE TypeOK'
  <2>1. pc' \in [Thread -> Control]
    BY <1>7, NotifyOne DEF DropSegment, TypeOK
  <2> QED BY <1>7, <2>1 DEF DropSegment, TypeOK
<1>8. ASSUME NEW th \in Thread, Dropped(th) PROVE TypeOK'
  BY <1>8 DEF Dropped, TypeOK
<1>9. ASSUME NEW t \in Task, Submit(t) PROVE TypeOK'
  BY <1>9, ScheduleType DEF Submit, TypeOK
<1>10. ASSUME NEW quiet \in BOOLEAN, run(quiet) PROVE TypeOK'
  BY <1>10 DEF run, TypeOK
<1>11. CASE draw_progress
  BY <1>11 DEF draw_progress, TypeOK
<1>12. CASE Return
  BY <1>12 DEF Return, TypeOK
<1>13. CASE UNCHANGED vars
  BY <1>13 DEF vars, TypeOK
<1>14. ASSUME NEW th \in Thread, WakeUp(th) PROVE TypeOK'
  BY <1>14 DEF WakeUp, TypeOK
<1> QED
  BY <1>1, <1>2, <1>3, <1>4, <1>5, <1>6, <1>7, <1>8, <1>9, <1>10, <1>11, <1>12, <1>13,
     <1>14
     DEF Next, Step

\* Every variable of the executor keeps its type (agenda.h, class agenda).
THEOREM TypeCorrect == Spec => []TypeOK
BY InitType, NextType, PTL DEF Spec

-----------------------------------------------------------------------------
\* The sets the counters count are finite.
LEMMA Finite ==
  ASSUME TypeOK
  PROVE  /\ IsFiniteSet(tasks_) /\ Cardinality(tasks_) \in Nat
         /\ IsFiniteSet(Working) /\ Cardinality(Working) \in Nat
         /\ \A c : IsFiniteSet(WorkingOn(c)) /\ Cardinality(WorkingOn(c)) \in Nat
         /\ IsFiniteSet(Live) /\ Cardinality(Live) \in Nat
<1>1. tasks_ \in SUBSET Task /\ IsFiniteSet(Task)
  BY TaskAssumption DEF TypeOK
<1>2. Working \in SUBSET Thread /\ IsFiniteSet(Thread)
  BY ThreadAssumption DEF Working
<1>3. \A c : WorkingOn(c) \in SUBSET Thread
  BY DEF Working, WorkingOn
<1>4. Live \in SUBSET Segment /\ IsFiniteSet(Segment)
  <2>1. IsFiniteSet(Task) /\ IsFiniteSet(1..MaxSegments)
    BY TaskAssumption, FS_Interval
  <2>2. IsFiniteSet(Segment)
    BY <2>1, FS_Product DEF Segment
  <2> QED BY <2>2 DEF Live
<1>5. IsFiniteSet(tasks_)
  BY <1>1, FS_Subset
<1>6. IsFiniteSet(Working)
  BY <1>2, FS_Subset
<1>7. \A c : IsFiniteSet(WorkingOn(c))
  BY <1>2, <1>3, FS_Subset
<1>8. IsFiniteSet(Live)
  BY <1>4, FS_Subset
<1> QED BY <1>5, <1>6, <1>7, <1>8, FS_CardinalityType

\* Everything the invariant says but NoEarlyLeave.
Core == Accounting /\ Budget /\ OneExecutor /\ Ownership

\* Steps that start no body, end none and touch neither queue nor segments.
LEMMA SameCrew ==
  ASSUME IInv, TypeOK',
         \A w \in Thread : pc'[w] = "running" <=> pc[w] = "running",
         \A w \in Thread : pc'[w] = "dropping" <=> pc[w] = "dropping",
         UNCHANGED <<tasks_, order, classes_, num_working_, segments_in_flight_,
                     refs, num_submitted_, num_done_, cur>>
  PROVE  Core'
<1>1. Working' = Working /\ Live' = Live
  BY DEF Working, Live
<1>2. \A c : WorkingOn(c)' = WorkingOn(c)
  BY <1>1 DEF WorkingOn
<1>3. Accounting'
  BY <1>1, <1>2 DEF IInv, Accounting
<1>4. Budget' /\ OneExecutor'
  BY DEF IInv, Budget, OneExecutor
<1>5. Ownership'
  BY <1>1 DEF IInv, Ownership, Allocated, HandedOver
<1> QED BY <1>3, <1>4, <1>5 DEF Core

\* A scheduled task is new, and the segment it takes along is one its running
\* parent owns.
LEMMA ScheduleCore ==
  ASSUME IInv, TypeOK', NEW t \in Task, schedule(t),
         Parent[t] = NoTask \/ \E th \in Working : cur[th] = Parent[t],
         UNCHANGED <<classes_, num_working_, segments_in_flight_, num_done_, cur>>
  PROVE  Core'
<1> USE DEF IInv
<1>1. t \notin tasks_ /\ \A th \in Thread : cur[th] # t
  BY TaskAssumption DEF Ownership, schedule
<1>2. \A w \in Thread : pc'[w] = pc[w] \/ (pc[w] = "waiting" /\ pc'[w] = "claiming")
  BY NotifyOne DEF schedule, TypeOK, Control
<1>3. Working' = Working
  BY <1>2 DEF Working
<1>4. \A c : WorkingOn(c)' = WorkingOn(c)
  BY <1>3 DEF WorkingOn
<1>5. ASSUME NEW s \in HandedOver(t)
      PROVE  s \in Segment /\ Parent[t] \in refs[s]
  <2>1. s = <<Parent[t], Carries[t]>> /\ Carries[t] # 0
    BY <1>5 DEF HandedOver
  <2>2. /\ Parent[t] \in Task /\ Needs[Parent[t]] \in 0..MaxSegments
        /\ Carries[t] \in 1..Needs[Parent[t]]
    BY <2>1, TaskAssumption
  <2>3. s \in Allocated(Parent[t])
    BY <2>1, <2>2 DEF Allocated
  <2>4. s \in Segment
    BY <2>1, <2>2, TaskAssumption DEF Segment
  <2> QED BY <2>2, <2>3, <2>4, TaskAssumption DEF Ownership
<1>6. Live' = Live
  BY <1>5 DEF Live, schedule, TypeOK
<1>7. Accounting'
  <2>1. Cardinality(tasks_') = Cardinality(tasks_) + 1
    BY <1>1, Finite, FS_AddElement DEF schedule
  <2>2. num_submitted_' = num_submitted_ + 1
    BY DEF schedule
  <2>3. num_submitted_' = num_done_' + num_working_' + Cardinality(tasks_')
    BY <2>1, <2>2, Finite DEF Accounting, TypeOK
  <2> QED BY <1>3, <1>4, <1>6, <2>3 DEF Accounting
<1>8. Budget'
  BY DEF Budget
<1>9. OneExecutor'
  BY <1>1 DEF OneExecutor, schedule
<1>10. Ownership'
  <2>1. \A th \in Thread : cur'[th] # NoTask <=> pc'[th] \in {"running", "dropping"}
    BY <1>2 DEF Ownership
  <2>2. \A u \in Task : u # t => order'[u] = order[u]
    BY DEF schedule, TypeOK
  <2>3. order'[t] # 0
    BY DEF schedule, TypeOK
  <2>4. \A u \in tasks_' : order'[u] # 0
    BY <2>2, <2>3 DEF schedule, TypeOK, Ownership
  <2>5. \A th \in Thread : cur'[th] # NoTask => order'[cur'[th]] # 0
    BY <1>1, <2>2 DEF TypeOK, Ownership
  <2>6. ASSUME NEW u \in Task, order'[u] # 0, Parent[u] # NoTask
        PROVE  order'[Parent[u]] # 0 /\ Parent[u] \notin tasks_'
    <3>1. Parent[u] \in Task
      BY <2>6, TaskAssumption
    <3>2. order[Parent[u]] # 0 /\ Parent[u] \notin tasks_
      <4>1. CASE u = t
        <5>1. PICK th \in Working : cur[th] = Parent[t]
          BY <2>6, <4>1
        <5> QED BY <4>1, <5>1, <2>6 DEF Ownership, OneExecutor, Working
      <4>2. CASE u # t
        BY <4>2, <2>2, <2>6 DEF Ownership
      <4> QED BY <4>1, <4>2
    <3>3. Parent[u] # t
      BY <3>2 DEF schedule
    <3> QED BY <3>1, <3>2, <3>3, <2>2 DEF schedule
  <2>7. ASSUME NEW s \in Segment, NEW u \in refs'[s]
        PROVE  /\ u \in tasks_' \/ \E th \in Thread : cur'[th] = u
               /\ s \in HandedOver(u) \/ (s \in Allocated(u) /\ u \notin tasks_')
    <3>1. CASE u \in refs[s]
      BY <1>1, <3>1 DEF schedule, Ownership
    <3>2. CASE u \notin refs[s]
      BY <3>2, <2>7 DEF schedule, TypeOK
    <3> QED BY <3>1, <3>2
  <2>8. ASSUME NEW th \in Working', NEW s \in Allocated(cur'[th])
        PROVE  cur'[th] \in refs'[s]
    <3>1. cur[th] \in refs[s]
      BY <1>3, <2>8 DEF Ownership
    <3>2. s \in Segment
      <4>1. cur[th] \in Task
        BY <1>3, <2>8 DEF TypeOK, Ownership, Working
      <4> QED BY <4>1, <2>8, TaskAssumption DEF Allocated, Segment
    <3> QED BY <3>1, <3>2 DEF schedule, TypeOK
  <2>9. \A s \in Segment : \A u \in refs'[s] :
           /\ u \in tasks_' \/ \E th \in Thread : cur'[th] = u
           /\ s \in HandedOver(u) \/ (s \in Allocated(u) /\ u \notin tasks_')
    BY <2>7
  <2>10. \A th \in Working' : \A s \in Allocated(cur'[th]) : cur'[th] \in refs'[s]
    BY <2>8
  <2>11. \A u \in Task : order'[u] # 0 /\ Parent[u] # NoTask
            => order'[Parent[u]] # 0 /\ Parent[u] \notin tasks_'
    BY <2>6
  <2> QED BY <2>1, <2>4, <2>5, <2>9, <2>10, <2>11 DEF Ownership, HandedOver, Allocated
<1> QED BY <1>7, <1>8, <1>9, <1>10 DEF Core

-----------------------------------------------------------------------------
\* The segments of a task are as many as it asks for.
LEMMA AllocatedSize ==
  ASSUME NEW t \in Task
  PROVE  IsFiniteSet(Allocated(t)) /\ Cardinality(Allocated(t)) = Needs[t]
<1>1. Needs[t] \in Nat
  BY TaskAssumption
<1>2. IsFiniteSet(1..Needs[t]) /\ Cardinality(1..Needs[t]) = Needs[t]
  BY <1>1, FS_Interval
<1>3. IsFiniteSet({t}) /\ Cardinality({t}) = 1
  BY FS_Singleton
<1> DEFINE one == {t}
           places == 1..Needs[t]
<1>4. /\ IsFiniteSet(one) /\ IsFiniteSet(places)
      /\ Cardinality(one) = 1 /\ Cardinality(places) = Needs[t]
  BY <1>2, <1>3
<1>5. Allocated(t) = one \X places
  BY DEF Allocated
<1> HIDE DEF one, places
<1>6. /\ IsFiniteSet(one \X places)
      /\ Cardinality(one \X places) = Cardinality(one) * Cardinality(places)
  BY <1>4, FS_Product
<1>7. Cardinality(one) * Cardinality(places) = 1 * Needs[t]
  BY <1>4
<1> QED BY <1>1, <1>5, <1>6, <1>7

\* A claimed task starts its body and gets segments nobody else owns.
LEMMA ClaimCore ==
  ASSUME IInv, TypeOK', NEW th \in Thread, Claim(th)
  PROVE  Core'
<1> USE DEF IInv
<1>1. PICK t \in tasks_ :
        /\ FirstCandidate(t)
        /\ tasks_' = tasks_ \ {t}
        /\ num_working_' = num_working_ + 1
        /\ classes_' = [classes_ EXCEPT ![ClassOf[t]] = @ + 1]
        /\ segments_in_flight_' = segments_in_flight_ + Needs[t]
        /\ refs' = [s \in Segment |-> IF s \in Allocated(t) THEN {t} ELSE refs[s]]
        /\ cur' = [cur EXCEPT ![th] = t]
        /\ pc' = [pc EXCEPT ![th] = "running"]
  BY DEF Claim
<1>2. /\ t \in Task /\ t # NoTask
      /\ Needs[t] \in 0..MaxSegments /\ ClassOf[t] \in task_type_e
  BY TaskAssumption DEF TypeOK
<1>3. /\ Needs[t] <= MaxSegments - segments_in_flight_
      /\ classes_[ClassOf[t]] < Limit[ClassOf[t]]
  BY <1>1 DEF FirstCandidate, Candidate, InScannedBucket, segments_avail
<1>4. pc[th] = "claiming" /\ UNCHANGED <<order, num_submitted_, num_done_>>
  BY DEF Claim
<1>5. cur[th] = NoTask /\ \A w \in Thread : cur[w] # t
  BY <1>1, <1>4 DEF OneExecutor, Ownership
<1>6. Working' = Working \cup {th} /\ th \notin Working
  BY <1>1, <1>4 DEF Working, TypeOK
<1>7. \A w \in Thread : w # th => cur'[w] = cur[w]
  BY <1>1 DEF TypeOK
<1>8. cur'[th] = t
  BY <1>1 DEF TypeOK
<1>9. WorkingOn(ClassOf[t])' = WorkingOn(ClassOf[t]) \cup {th}
  BY <1>6, <1>7, <1>8 DEF WorkingOn, Working
<1>10. \A c : c # ClassOf[t] => WorkingOn(c)' = WorkingOn(c)
  BY <1>6, <1>7, <1>8 DEF WorkingOn, Working
<1>11. ASSUME NEW s \in Allocated(t)
       PROVE  s \in Segment /\ refs[s] = {}
  <2>1. s \in Segment
    BY <1>2, <1>11, TaskAssumption DEF Allocated, Segment
  <2>2. ASSUME NEW u \in refs[s] PROVE FALSE
    <3>1. u \in Task /\ order[u] # 0
      BY <2>1, <2>2, TaskAssumption DEF TypeOK, Ownership
    <3>2. s[1] = t
      BY <1>11 DEF Allocated
    <3>3. CASE s \in HandedOver(u)
      <4>1. Parent[u] = t
        BY <3>2, <3>3 DEF HandedOver
      <4> QED BY <1>2, <3>1, <4>1 DEF Ownership
    <3>4. CASE s \in Allocated(u) /\ u \notin tasks_
      BY <3>2, <3>4 DEF Allocated
    <3> QED BY <2>1, <2>2, <3>3, <3>4 DEF Ownership
  <2> QED BY <2>1, <2>2
<1>12. Live' = Live \cup Allocated(t) /\ Live \cap Allocated(t) = {}
  BY <1>1, <1>11 DEF Live, TypeOK
<1>13. Accounting'
  <2>1. Cardinality(Working') = Cardinality(Working) + 1
    BY <1>6, Finite, FS_AddElement
  <2>2. num_working_' = Cardinality(Working')
    BY <1>1, <2>1 DEF Accounting
  <2>3. ASSUME NEW c \in task_type_e
        PROVE  classes_'[c] = Cardinality(WorkingOn(c)')
    <3>1. CASE c = ClassOf[t]
      <4>1. th \notin WorkingOn(c)
        BY <1>6 DEF WorkingOn
      <4>2. Cardinality(WorkingOn(c)') = Cardinality(WorkingOn(c)) + 1
        BY <1>9, <3>1, <4>1, Finite, FS_AddElement
      <4> QED BY <1>1, <3>1, <4>2 DEF Accounting, TypeOK
    <3>2. CASE c # ClassOf[t]
      BY <1>1, <1>10, <3>2 DEF Accounting, TypeOK
    <3> QED BY <3>1, <3>2
  <2>4. segments_in_flight_' = Cardinality(Live')
    <3>1. /\ IsFiniteSet(Allocated(t)) /\ Cardinality(Allocated(t)) = Needs[t]
          /\ IsFiniteSet(Live) /\ Cardinality(Live) \in Nat
          /\ Cardinality({}) = 0
      BY <1>2, AllocatedSize, Finite, FS_EmptySet
    <3>2. Cardinality(Live \cup Allocated(t))
            = Cardinality(Live) + Cardinality(Allocated(t)) - Cardinality(Live \cap Allocated(t))
      BY <3>1, FS_Union
    <3>3. Cardinality(Live') = Cardinality(Live) + Needs[t]
      <4>1. Cardinality(Live') = Cardinality(Live \cup Allocated(t))
        BY <1>12
      <4>2. Cardinality(Live \cap Allocated(t)) = 0
        BY <1>12, <3>1
      <4> QED BY <1>2, <3>1, <3>2, <4>1, <4>2
    <3> QED BY <1>1, <3>3 DEF Accounting
  <2>5. num_submitted_' = num_done_' + num_working_' + Cardinality(tasks_')
    <3>1. Cardinality(tasks_') = Cardinality(tasks_) - 1
      BY <1>1, Finite, FS_RemoveElement
    <3> QED BY <1>1, <1>4, <3>1, Finite DEF Accounting, TypeOK
  <2> QED BY <2>2, <2>3, <2>4, <2>5 DEF Accounting
<1>14. Budget'
  <2>1. segments_in_flight_' \in 0..MaxSegments
    BY <1>1, <1>2, <1>3, TaskAssumption DEF Budget
  <2>2. ASSUME NEW c \in task_type_e PROVE classes_'[c] \in 0..Limit[c]
    <3>1. classes_[c] \in 0..Limit[c] /\ Limit[c] \in Nat
      BY ThreadAssumption DEF Budget
    <3>2. CASE c = ClassOf[t]
      <4>1. classes_'[c] = classes_[c] + 1
        BY <1>1, <3>2 DEF TypeOK
      <4> QED BY <1>3, <3>1, <3>2, <4>1
    <3>3. CASE c # ClassOf[t]
      <4>1. classes_'[c] = classes_[c]
        BY <1>1, <3>3 DEF TypeOK
      <4> QED BY <3>1, <4>1
    <3> QED BY <3>2, <3>3
  <2> QED BY <2>1, <2>2 DEF Budget
<1>15. OneExecutor'
  <2>1. \A th1, th2 \in Thread :
           cur'[th1] # NoTask /\ cur'[th1] = cur'[th2] => th1 = th2
    BY <1>5, <1>7, <1>8 DEF OneExecutor
  <2>2. \A w \in Thread : cur'[w] \notin tasks_'
    BY <1>1, <1>7, <1>8 DEF OneExecutor
  <2> QED BY <2>1, <2>2 DEF OneExecutor
<1>16. Ownership'
  <2>1. \A w \in Thread : cur'[w] # NoTask <=> pc'[w] \in {"running", "dropping"}
    BY <1>1, <1>2, <1>7, <1>8 DEF Ownership, TypeOK
  <2>2. \A u \in tasks_' : order'[u] # 0
    BY <1>1, <1>4 DEF Ownership
  <2>3. \A w \in Thread : cur'[w] # NoTask => order'[cur'[w]] # 0
    BY <1>1, <1>4, <1>7, <1>8 DEF Ownership
  <2>4. \A u \in Task : order'[u] # 0 /\ Parent[u] # NoTask
           => order'[Parent[u]] # 0 /\ Parent[u] \notin tasks_'
    BY <1>1, <1>4 DEF Ownership
  <2>5. ASSUME NEW s \in Segment, NEW u \in refs'[s]
        PROVE  /\ u \in tasks_' \/ \E w \in Thread : cur'[w] = u
               /\ s \in HandedOver(u) \/ (s \in Allocated(u) /\ u \notin tasks_')
    <3>1. CASE s \in Allocated(t)
      BY <1>1, <1>8, <2>5, <3>1
    <3>2. CASE s \notin Allocated(t)
      <4>1. u \in refs[s]
        BY <1>1, <2>5, <3>2
      <4>2. u \in tasks_' \/ \E w \in Thread : cur'[w] = u
        BY <1>1, <1>5, <1>7, <1>8, <4>1, TaskAssumption DEF Ownership, TypeOK
      <4> QED BY <1>1, <4>1, <4>2 DEF Ownership
    <3> QED BY <3>1, <3>2
  <2>6. ASSUME NEW w \in Working', NEW s \in Allocated(cur'[w])
        PROVE  cur'[w] \in refs'[s]
    <3>1. CASE w = th
      BY <1>1, <1>8, <1>11, <2>6, <3>1
    <3>2. CASE w # th
      <4>1. w \in Working /\ cur'[w] = cur[w] /\ cur[w] \in Task /\ cur[w] # t
        BY <1>5, <1>6, <1>7, <2>6, <3>2 DEF Working, TypeOK, Ownership
      <4>2. s \in Segment /\ s \notin Allocated(t)
        BY <2>6, <4>1, TaskAssumption DEF Allocated, Segment
      <4>3. cur[w] \in refs[s]
        BY <2>6, <4>1 DEF Ownership
      <4> QED BY <1>1, <4>1, <4>2, <4>3
    <3> QED BY <3>1, <3>2
  <2> QED BY <2>1, <2>2, <2>3, <2>4, <2>5, <2>6 DEF Ownership, HandedOver, Allocated
<1> QED BY <1>13, <1>14, <1>15, <1>16 DEF Core

-----------------------------------------------------------------------------
\* A body ends; its thread still keeps the task and the segments.
LEMMA CleanupCore ==
  ASSUME IInv, TypeOK', NEW th \in Thread, NEW fail, cleanup(th, fail)
  PROVE  Core'
<1> USE DEF IInv
<1>1. /\ pc[th] = "running"
      /\ num_working_' = num_working_ - 1
      /\ classes_' = [classes_ EXCEPT ![ClassOf[cur[th]]] = @ - 1]
      /\ num_done_' = num_done_ + 1
      /\ UNCHANGED <<tasks_, order, segments_in_flight_, refs, num_submitted_, cur>>
  BY DEF cleanup
<1>2. /\ pc'[th] = "dropping"
      /\ \A w \in Thread \ {th} :
            pc'[w] = pc[w] \/ (pc[w] = "waiting" /\ pc'[w] = "claiming")
  BY CleanupWakes DEF TypeOK, Control
<1>3. th \in Working
  BY <1>1 DEF Working
<1> DEFINE k == ClassOf[cur[th]]
<1>0. /\ classes_' = [classes_ EXCEPT ![k] = @ - 1]
      /\ \A w \in Thread : ClassOf[cur'[w]] = ClassOf[cur[w]]
  BY <1>1
<1>k. PICK c0 : c0 = k
  OBVIOUS
<1> HIDE DEF k
<1>4. Working' = Working \ {th}
  BY <1>2 DEF Working
<1>5. WorkingOn(c0)' = WorkingOn(c0) \ {th}
  BY <1>0, <1>4 DEF WorkingOn, Working
<1>6. \A c : c # c0 => WorkingOn(c)' = WorkingOn(c)
  BY <1>0, <1>k, <1>4 DEF WorkingOn, Working, k
<1>7. Live' = Live
  BY <1>1 DEF Live
<1>8. Accounting'
  <2>1. num_working_' = Cardinality(Working')
    BY <1>1, <1>3, <1>4, Finite, FS_RemoveElement DEF Accounting
  <2>2. ASSUME NEW c \in task_type_e
        PROVE  classes_'[c] = Cardinality(WorkingOn(c)')
    <3>1. CASE c = c0
      <4>1. th \in WorkingOn(c)
        BY <1>3, <1>k, <3>1 DEF WorkingOn, k
      <4>2. Cardinality(WorkingOn(c)') = Cardinality(WorkingOn(c)) - 1
        BY <1>5, <3>1, <4>1, Finite, FS_RemoveElement
      <4> QED BY <1>0, <1>k, <3>1, <4>2 DEF Accounting, TypeOK
    <3>2. CASE c # c0
      BY <1>0, <1>k, <1>6, <3>2 DEF Accounting, TypeOK
    <3> QED BY <3>1, <3>2
  <2>3. num_submitted_' = num_done_' + num_working_' + Cardinality(tasks_')
    BY <1>1, Finite DEF Accounting, TypeOK
  <2> QED BY <1>1, <1>7, <2>1, <2>2, <2>3 DEF Accounting
<1>9. Budget'
  <2>1. segments_in_flight_' \in 0..MaxSegments
    BY <1>1 DEF Budget
  <2>2. ASSUME NEW c \in task_type_e PROVE classes_'[c] \in 0..Limit[c]
    <3>1. classes_[c] \in 0..Limit[c] /\ Limit[c] \in Nat
      BY ThreadAssumption DEF Budget
    <3>2. classes_'[c] \in {classes_[c], classes_[c] - 1}
      BY <1>0 DEF TypeOK
    <3>3. classes_'[c] = Cardinality(WorkingOn(c)')
      BY <1>8 DEF Accounting
    <3>4. Cardinality(WorkingOn(c)') \in Nat
      <4>1. WorkingOn(c)' \in SUBSET WorkingOn(c)
        BY <1>5, <1>6
      <4>2. IsFiniteSet(WorkingOn(c)')
        BY <4>1, Finite, FS_Subset
      <4> QED BY <4>2, FS_CardinalityType
    <3> QED BY <3>1, <3>2, <3>3, <3>4
  <2> QED BY <2>1, <2>2 DEF Budget
<1>10. OneExecutor'
  BY <1>1 DEF OneExecutor
<1>11. Ownership'
  <2>1. \A w \in Thread : pc[w] \in {"running", "dropping"}
                            <=> pc'[w] \in {"running", "dropping"}
    BY <1>1, <1>2
  <2>2. Working' \in SUBSET Working
    BY <1>4
  <2> QED BY <1>1, <2>1, <2>2 DEF Ownership, HandedOver, Allocated
<1> QED BY <1>8, <1>9, <1>10, <1>11 DEF Core

\* A finished task lets go of one segment; the segment is free when that was
\* its last owner.
LEMMA DropSegmentCore ==
  ASSUME IInv, TypeOK', NEW th \in Thread, DropSegment(th)
  PROVE  Core'
<1> USE DEF IInv
<1>1. PICK s \in Segment :
        /\ cur[th] \in refs[s]
        /\ refs' = [refs EXCEPT ![s] = @ \ {cur[th]}]
        /\ IF refs[s] = {cur[th]}
             THEN /\ segments_in_flight_' = segments_in_flight_ - 1
                  /\ notify_one(pc)
             ELSE UNCHANGED <<segments_in_flight_, pc>>
  BY DEF DropSegment
<1>2. /\ pc[th] = "dropping"
      /\ UNCHANGED <<tasks_, order, classes_, num_working_, num_submitted_,
                     num_done_, cur>>
  BY DEF DropSegment
<1>3. \A w \in Thread : pc'[w] = pc[w] \/ (pc[w] = "waiting" /\ pc'[w] = "claiming")
  BY <1>1, NotifyOne DEF TypeOK, Control
<1>4. Working' = Working
  BY <1>3 DEF Working
<1>5. \A c : WorkingOn(c)' = WorkingOn(c)
  BY <1>2, <1>4 DEF WorkingOn
<1>6. segments_in_flight_' = Cardinality(Live') /\ Live' \in SUBSET Live
  <2>1. CASE refs[s] = {cur[th]}
    <3>1. Live' = Live \ {s} /\ s \in Live
      BY <1>1, <2>1 DEF Live, TypeOK
    <3>2. Cardinality(Live') = Cardinality(Live) - 1
      BY <3>1, Finite, FS_RemoveElement
    <3> QED BY <1>1, <2>1, <3>1, <3>2 DEF Accounting
  <2>2. CASE refs[s] # {cur[th]}
    <3>1. Live' = Live
      BY <1>1, <2>2 DEF Live, TypeOK
    <3> QED BY <1>1, <2>2, <3>1 DEF Accounting
  <2> QED BY <2>1, <2>2
<1>7. Accounting'
  BY <1>2, <1>4, <1>5, <1>6 DEF Accounting
<1>8. Budget'
  <2>1. segments_in_flight_' \in Nat
    BY <1>6, Finite, FS_Subset, FS_CardinalityType
  <2>2. segments_in_flight_' \in {segments_in_flight_, segments_in_flight_ - 1}
    BY <1>1
  <2>3. segments_in_flight_' \in 0..MaxSegments
    BY <2>1, <2>2, TaskAssumption DEF Budget
  <2> QED BY <1>2, <2>3 DEF Budget
<1>9. OneExecutor'
  BY <1>2 DEF OneExecutor
<1>10. Ownership'
  <2>1. \A w \in Thread : pc[w] \in {"running", "dropping"}
                            <=> pc'[w] \in {"running", "dropping"}
    BY <1>3
  <2>2. \A x \in Segment : refs'[x] \subseteq refs[x]
    BY <1>1 DEF TypeOK
  <2>3. ASSUME NEW w \in Working', NEW x \in Allocated(cur'[w])
        PROVE  cur'[w] \in refs'[x]
    <3>1. w \in Working /\ cur'[w] = cur[w] /\ cur[w] \in refs[x]
      BY <1>2, <1>4, <2>3 DEF Ownership
    <3>2. cur[w] \in Task
      BY <3>1 DEF Ownership, Working, TypeOK
    <3>3. x \in Segment
      BY <2>3, <3>1, <3>2, TaskAssumption DEF Allocated, Segment
    <3>4. cur[w] # cur[th]
      BY <1>2, <3>1, <3>2, TaskAssumption DEF OneExecutor, Working
    <3> QED BY <1>1, <3>1, <3>3, <3>4 DEF TypeOK
  <2> QED BY <1>2, <2>1, <2>2, <2>3 DEF Ownership, HandedOver, Allocated
<1> QED BY <1>7, <1>8, <1>9, <1>10 DEF Core

\* The task object is gone once it owns nothing.
LEMMA DroppedCore ==
  ASSUME IInv, TypeOK', NEW th \in Thread, Dropped(th)
  PROVE  Core'
<1> USE DEF IInv
<1>1. /\ pc[th] = "dropping"
      /\ \A s \in Segment : cur[th] \notin refs[s]
      /\ cur' = [cur EXCEPT ![th] = NoTask]
      /\ pc' = [pc EXCEPT ![th] = "claiming"]
      /\ UNCHANGED <<tasks_, order, classes_, num_working_, segments_in_flight_,
                     refs, num_submitted_, num_done_>>
  BY DEF Dropped
<1>2. /\ cur'[th] = NoTask /\ pc'[th] = "claiming"
      /\ \A w \in Thread \ {th} : cur'[w] = cur[w] /\ pc'[w] = pc[w]
  BY <1>1 DEF TypeOK
<1>3. Working' = Working /\ th \notin Working
  BY <1>1, <1>2 DEF Working
<1>4. \A c : WorkingOn(c)' = WorkingOn(c)
  BY <1>2, <1>3 DEF WorkingOn, Working
<1>5. Live' = Live
  BY <1>1 DEF Live
<1>6. Accounting'
  BY <1>1, <1>3, <1>4, <1>5 DEF Accounting
<1>7. Budget'
  BY <1>1 DEF Budget
<1>8. OneExecutor'
  BY <1>1, <1>2, TaskAssumption DEF OneExecutor, TypeOK
<1>9. Ownership'
  <2>1. \A w \in Thread : cur'[w] # NoTask <=> pc'[w] \in {"running", "dropping"}
    BY <1>2 DEF Ownership
  <2>2. \A w \in Thread : cur'[w] # NoTask => order'[cur'[w]] # 0
    BY <1>1, <1>2 DEF Ownership
  <2>3. \A s \in Segment : \A u \in refs'[s] :
           u \in tasks_' \/ \E w \in Thread : cur'[w] = u
    BY <1>1, <1>2 DEF Ownership
  <2>4. \A w \in Working' : \A s \in Allocated(cur'[w]) : cur'[w] \in refs'[s]
    BY <1>1, <1>2, <1>3 DEF Ownership, Allocated, Working
  <2> QED BY <1>1, <2>1, <2>2, <2>3, <2>4 DEF Ownership, HandedOver, Allocated
<1> QED BY <1>6, <1>7, <1>8, <1>9 DEF Core

-----------------------------------------------------------------------------
\* While a body runs the counter says so, and nobody has left.
LEMMA RunningCounts ==
  ASSUME IInv, NEW th \in Thread, pc[th] = "running"
  PROVE  num_working_ # 0 /\ main = "joining" /\ \A w \in Thread : pc[w] # "off"
<1> USE DEF IInv
<1>1. th \in Working
  BY DEF Working
<1>2. num_working_ # 0
  BY <1>1, Finite, FS_EmptySet DEF Accounting
<1>3. main = "joining"
  BY DEF NoEarlyLeave, TypeOK
<1> QED BY <1>2, <1>3 DEF NoEarlyLeave

LEMMA ThreadNonempty == Thread # {}
<1>1. Cardinality(Thread) # 0
  BY ThreadAssumption DEF task_type_e, taskUnbound, taskCPUBound, taskIOBound
<1> QED BY <1>1, ThreadAssumption, FS_EmptySet

LEMMA NextInv == IInv /\ [Next]_vars => IInv'
<1> SUFFICES ASSUME IInv, [Next]_vars PROVE IInv'
  OBVIOUS
<1>0. TypeOK'
  BY NextType DEF IInv
<1> SUFFICES Core' /\ NoEarlyLeave'
  BY <1>0 DEF IInv, Core
<1>1. ASSUME NEW th \in Thread, Claim(th) PROVE Core' /\ NoEarlyLeave'
  <2>1. Core'
    BY <1>0, <1>1, ClaimCore
  <2>2. pc[th] = "claiming" /\ main' = main /\ tasks_ # {}
    BY <1>1 DEF Claim
  <2>3. main = "joining" /\ \A w \in Thread : pc[w] # "off"
    BY <2>2 DEF IInv, NoEarlyLeave, TypeOK
  <2>4. \A w \in Thread : pc'[w] # "off"
    BY <1>1, <2>3 DEF Claim, IInv, TypeOK
  <2> QED BY <2>1, <2>2, <2>3, <2>4 DEF NoEarlyLeave
<1>2. ASSUME NEW th \in Thread, WaitForWork(th) PROVE Core' /\ NoEarlyLeave'
  <2>1. Core'
    BY <1>0, <1>2, SameCrew DEF WaitForWork, IInv, TypeOK
  <2> QED BY <1>2, <2>1 DEF WaitForWork, NoEarlyLeave, IInv, TypeOK
<1>3. ASSUME NEW th \in Thread, Leave(th) PROVE Core' /\ NoEarlyLeave'
  <2>1. Core'
    BY <1>0, <1>3, SameCrew DEF Leave, IInv, TypeOK
  <2> QED BY <1>3, <2>1 DEF Leave, NoEarlyLeave, IInv, TypeOK
<1>4. ASSUME NEW th \in Thread, NEW t \in Task, Spawn(th, t)
      PROVE  Core' /\ NoEarlyLeave'
  <2>1. pc[th] = "running" /\ schedule(t) /\ main' = main
    BY <1>4 DEF Spawn
  <2>2. th \in Working /\ cur[th] = Parent[t]
    BY <1>4 DEF Spawn, Working
  <2>3. Core'
    BY <1>0, <1>4, <2>1, <2>2, ScheduleCore DEF Spawn
  <2>4. main = "joining" /\ \A w \in Thread : pc[w] # "off"
    BY <2>1, RunningCounts
  <2>5. \A w \in Thread : pc'[w] # "off"
    BY <2>1, <2>4, NotifyOne DEF schedule, IInv, TypeOK, Control
  <2> QED BY <2>1, <2>3, <2>4, <2>5 DEF NoEarlyLeave
<1>5. ASSUME NEW th \in Thread, Retry(th) PROVE Core' /\ NoEarlyLeave'
  <2>1. Core'
    BY <1>0, <1>5, SameCrew DEF Retry
  <2> QED BY <1>5, <2>1 DEF Retry, NoEarlyLeave, IInv
<1>6. ASSUME NEW th \in Thread, NEW fail \in BOOLEAN, cleanup(th, fail)
      PROVE  Core' /\ NoEarlyLeave'
  <2>1. Core'
    BY <1>0, <1>6, CleanupCore
  <2>2. main = "joining" /\ \A w \in Thread : pc[w] # "off"
    BY <1>6, RunningCounts DEF cleanup
  <2>3. \A w \in Thread : pc'[w] # "off"
    BY <1>6, <2>2, CleanupWakes DEF IInv, TypeOK, Control
  <2> QED BY <1>6, <2>1, <2>2, <2>3 DEF cleanup, NoEarlyLeave
<1>7. ASSUME NEW th \in Thread, DropSegment(th) PROVE Core' /\ NoEarlyLeave'
  <2>1. Core'
    BY <1>0, <1>7, DropSegmentCore
  <2>2. \A w \in Thread : pc'[w] = "off" <=> pc[w] = "off"
    BY <1>7, NotifyOne DEF DropSegment, IInv, TypeOK, Control
  <2> QED BY <1>7, <2>1, <2>2 DEF DropSegment, NoEarlyLeave, IInv
<1>8. ASSUME NEW th \in Thread, Dropped(th) PROVE Core' /\ NoEarlyLeave'
  <2>1. Core'
    BY <1>0, <1>8, DroppedCore
  <2>2. /\ pc[th] = "dropping"
        /\ \A w \in Thread : pc'[w] = "off" => pc[w] = "off"
    BY <1>8 DEF Dropped, IInv, TypeOK
  <2> QED BY <1>8, <2>1, <2>2 DEF Dropped, NoEarlyLeave, IInv
<1>9. ASSUME NEW t \in Task, Submit(t) PROVE Core' /\ NoEarlyLeave'
  <2>1. main = "idle" /\ main' = main /\ Parent[t] = NoTask /\ schedule(t)
    BY <1>9 DEF Submit
  <2>2. Core'
    BY <1>0, <1>9, <2>1, ScheduleCore DEF Submit
  <2>3. \A w \in Thread : pc'[w] = pc[w]
    BY <2>1, NotifyOne DEF schedule, IInv, NoEarlyLeave, TypeOK, Control
  <2> QED BY <2>1, <2>2, <2>3 DEF NoEarlyLeave, IInv
<1>10. ASSUME NEW quiet \in BOOLEAN, run(quiet) PROVE Core' /\ NoEarlyLeave'
  <2>1. /\ main = "idle" /\ main' = "joining"
        /\ \A w \in Thread : pc[w] = "off" /\ pc'[w] = "claiming"
    BY <1>10 DEF run, IInv, NoEarlyLeave
  <2>2. Core'
    BY <1>0, <1>10, <2>1, SameCrew DEF run
  <2> QED BY <2>1, <2>2 DEF NoEarlyLeave
<1>11. CASE draw_progress
  <2>1. Core'
    BY <1>0, <1>11, SameCrew DEF draw_progress
  <2> QED BY <1>11, <2>1 DEF draw_progress, NoEarlyLeave, IInv
<1>12. CASE Return
  <2>1. Core'
    BY <1>0, <1>12, SameCrew DEF Return
  <2> QED BY <1>12, <2>1 DEF Return, NoEarlyLeave, IInv
<1>13. CASE UNCHANGED vars
  <2>1. Core'
    BY <1>0, <1>13, SameCrew DEF vars
  <2> QED BY <1>13, <2>1 DEF vars, NoEarlyLeave, IInv
<1>14. ASSUME NEW th \in Thread, WakeUp(th) PROVE Core' /\ NoEarlyLeave'
  <2>1. Core'
    BY <1>0, <1>14, SameCrew DEF WakeUp, IInv, TypeOK
  <2> QED BY <1>14, <2>1 DEF WakeUp, NoEarlyLeave, IInv, TypeOK
<1> QED
  BY <1>1, <1>2, <1>3, <1>4, <1>5, <1>6, <1>7, <1>8, <1>9, <1>10, <1>11, <1>12, <1>13,
     <1>14
     DEF Next, Step

LEMMA InitInv == Init => IInv
<1> SUFFICES ASSUME Init PROVE IInv
  OBVIOUS
<1>1. TypeOK
  BY InitType
<1>2. Working = {} /\ Live = {} /\ \A c : WorkingOn(c) = {}
  BY DEF Init, Working, WorkingOn, Live
<1>3. Accounting
  BY <1>2, FS_EmptySet DEF Init, Accounting
<1>4. Budget
  BY ThreadAssumption, TaskAssumption DEF Init, Budget
<1>5. OneExecutor /\ NoEarlyLeave
  BY DEF Init, OneExecutor, NoEarlyLeave
<1>6. Ownership
  BY <1>2 DEF Init, Ownership
<1> QED BY <1>1, <1>3, <1>4, <1>5, <1>6 DEF IInv

LEMMA Inductive == Spec => []IInv
BY InitInv, NextInv, PTL DEF Spec

\* The counters claim_task decides by agree with the threads, the owners of
\* segments and the queue (claim_task, cleanup, segment_deleter, schedule).
THEOREM CountersAreRight == Spec => []Accounting
BY Inductive, PTL DEF IInv

\* Neither the memory budget nor a class limit is ever exceeded (claim_task,
\* get_segments).
THEOREM BudgetIsKept == Spec => []Budget
BY Inductive, PTL DEF IInv

\* claim_task hands a task object to one worker only.
THEOREM TasksAreExclusive == Spec => []OneExecutor
BY Inductive, PTL DEF IInv

\* No worker leaves while work is queued or may still be scheduled, and run()
\* leaves none behind (claim_task, run).
THEOREM Termination == Spec => []NoEarlyLeave
BY Inductive, PTL DEF IInv

\* A segment outlives the pump it was allocated for exactly as long as a task
\* it was handed to (segment_ptr, segment_deleter).
THEOREM SegmentsAreOwned == Spec => []Ownership
BY Inductive, PTL DEF IInv

\* When run() comes back everything submitted has been executed and every
\* segment is free (run, segment_deleter).
THEOREM RunIsComplete == Spec => RunFinishesAll
<1>1. IInv /\ [Next]_vars
        => [main = "joining" /\ main' = "idle" =>
              /\ tasks_ = {}
              /\ num_done_ = num_submitted_
              /\ segments_in_flight_ = 0]_vars
  <2> SUFFICES ASSUME IInv, Next, main = "joining", main' = "idle"
               PROVE  /\ tasks_ = {}
                      /\ num_done_ = num_submitted_
                      /\ segments_in_flight_ = 0
    OBVIOUS
  <2> USE DEF IInv
  <2>1. Return
    BY DEF Next, Step, Claim, WaitForWork, WakeUp, Leave, Spawn, Retry, cleanup, DropSegment,
           Dropped, Submit, run, draw_progress
  <2>2. \A th \in Thread : pc[th] = "off"
    BY <2>1 DEF Return
  <2>3. tasks_ = {} /\ num_working_ = 0
    BY <2>2, ThreadNonempty DEF NoEarlyLeave
  <2>4. num_done_ = num_submitted_
    BY <2>3, FS_EmptySet DEF Accounting, TypeOK
  <2>5. Live = {}
    BY <2>2, <2>3, TaskAssumption DEF Ownership, Live, TypeOK
  <2> QED BY <2>3, <2>4, <2>5, FS_EmptySet DEF Accounting
<1> QED BY <1>1, Inductive, PTL DEF Spec, RunFinishesAll

-----------------------------------------------------------------------------
\* A queue that is not empty has a greatest segment requirement.
LEMMA GreatestExists ==
  ASSUME TypeOK, tasks_ # {}
  PROVE  \E t \in tasks_ : Greatest(Needs[t])
<1> DEFINE slack == {MaxSegments - Needs[t] : t \in tasks_}
           below == OpToRel(<, Nat)
<1>1. \A t \in tasks_ : Needs[t] \in 0..MaxSegments
  BY TaskAssumption DEF TypeOK
<1>2. slack \subseteq Nat /\ slack # {}
  BY <1>1, TaskAssumption
<1>3. \E x \in slack : \A y \in slack : <<y, x>> \notin below
  <2> HIDE DEF slack, below
  <2>1. IsWellFoundedOn(below, Nat)
    BY NatLessThanWellFounded DEF below
  <2> QED BY <1>2, <2>1, WFMin
<1>4. PICK x \in slack : \A y \in slack : <<y, x>> \notin below
  BY <1>3
<1>5. \A y \in slack : ~(y < x)
  BY <1>2, <1>4 DEF OpToRel
<1>6. PICK t \in tasks_ : x = MaxSegments - Needs[t]
  BY <1>4
<1>7. \A u \in tasks_ : Needs[u] <= Needs[t]
  <2> TAKE u \in tasks_
  <2>1. ~(MaxSegments - Needs[u] < x)
    BY <1>5
  <2> QED BY <1>1, <1>6, <2>1, TaskAssumption
<1> QED BY <1>7 DEF Greatest

\* With nobody at work the free segments suffice for the greatest requirement
\* or a task that carries a segment, and so needs none, is queued: the two
\* buckets claim_task scans are enough.
LEMMA IdleClaims ==
  ASSUME IInv, tasks_ # {}, \A th \in Thread : pc[th] \notin {"running", "dropping"}
  PROVE  Claimable
<1> USE DEF IInv
<1>1. /\ tasks_ \in SUBSET Task
      /\ \A t \in Task : Needs[t] \in 0..MaxSegments /\ ClassOf[t] \in task_type_e
      /\ MaxSegments \in Nat
  BY TaskAssumption DEF TypeOK
<1>2. \A c \in task_type_e : classes_[c] < Limit[c]
  <2>1. \A c \in task_type_e : WorkingOn(c) = {}
    BY DEF WorkingOn, Working
  <2>2. \A c \in task_type_e : classes_[c] = 0
    BY <2>1, FS_EmptySet DEF Accounting
  <2> QED BY <2>2, ThreadAssumption
<1>3. SUFFICES \E t \in tasks_ : InScannedBucket(t)
  BY <1>1, <1>2, <1>3 DEF Claimable, Candidate
<1>4. PICK g \in tasks_ : Greatest(Needs[g])
  BY GreatestExists
<1>5. segments_in_flight_ \in 0..MaxSegments
  BY DEF Budget
<1>6. CASE Needs[g] <= segments_avail
  BY <1>4, <1>6 DEF InScannedBucket
<1>7. CASE ~(Needs[g] <= segments_avail)
  <2>1. segments_in_flight_ # 0
    BY <1>1, <1>4, <1>5, <1>7 DEF segments_avail
  <2>2. PICK s \in Segment : refs[s] # {}
    BY <2>1, FS_EmptySet DEF Accounting, Live
  <2>3. PICK t \in refs[s] : t \in tasks_
    BY <2>2, TaskAssumption DEF Ownership, TypeOK
  <2>4. Carries[t] # 0
    BY <2>3 DEF Ownership, HandedOver
  <2>5. Needs[t] = 0
    BY <1>1, <2>3, <2>4, TaskAssumption
  <2>6. Needs[t] <= segments_avail /\ Least(Needs[t])
    BY <1>1, <1>5, <2>5 DEF segments_avail, Least
  <2>7. Needs[g] > segments_avail
    BY <1>1, <1>4, <1>5, <1>7 DEF segments_avail
  <2> QED BY <1>4, <2>3, <2>6, <2>7 DEF InScannedBucket
<1> QED BY <1>6, <1>7

\* The executor cannot deadlock over segments or class limits, whatever the
\* tasks are and however they pass segments on (claim_task).
THEOREM NoDeadlock == Spec => []NeverStuck
<1>1. IInv => NeverStuck
  BY IdleClaims DEF NeverStuck
<1> QED BY <1>1, Inductive, PTL

-----------------------------------------------------------------------------
\* Sleeping workers.  NeverAllAsleep needs that nobody sleeps once all is done.
\* Without segments claim_task can find a task for each place of a class for which
\* one is queued; there are never more of those places than workers on their way
\* to claim_task while another sleeps.
Awake == {th \in Thread : pc[th] \in {"claiming", "dropping"}}
Sleeping == \E th \in Thread : pc[th] = "waiting"
Queued(c) == {t \in tasks_ : ClassOf[t] = c}
Room(c) == Limit[c] - classes_[c]
Places(c) == IF Cardinality(Queued(c)) <= Room(c) THEN Cardinality(Queued(c)) ELSE Room(c)
Open == Places(taskUnbound) + Places(taskCPUBound) + Places(taskIOBound)

WakeInv ==
  /\ NeverAllAsleep
  /\ tasks_ = {} /\ num_working_ = 0 => ~Sleeping
  /\ NoSegmentsAsked /\ Sleeping => Open <= Cardinality(Awake)

LEMMA Classes ==
  /\ task_type_e = {taskUnbound, taskCPUBound, taskIOBound}
  /\ taskUnbound # taskCPUBound /\ taskUnbound # taskIOBound /\ taskCPUBound # taskIOBound
BY DEF task_type_e, taskUnbound, taskCPUBound, taskIOBound

\* The sets that are counted are finite.
LEMMA AwakeFinite ==
  /\ IsFiniteSet(Awake) /\ Cardinality(Awake) \in Nat
  /\ IsFiniteSet(Awake') /\ Cardinality(Awake') \in Nat
<1>1. Awake \in SUBSET Thread /\ Awake' \in SUBSET Thread
  BY DEF Awake
<1>2. \A S \in SUBSET Thread : IsFiniteSet(S) /\ Cardinality(S) \in Nat
  BY ThreadAssumption, FS_Subset, FS_CardinalityType
<1> QED BY <1>1, <1>2

LEMMA QueuedFinite ==
  ASSUME TypeOK, NEW c
  PROVE  IsFiniteSet(Queued(c)) /\ Cardinality(Queued(c)) \in Nat
<1>1. Queued(c) \in SUBSET tasks_
  BY DEF Queued
<1> QED BY <1>1, Finite, FS_Subset, FS_CardinalityType

LEMMA PlacesType ==
  ASSUME TypeOK, Budget, NEW c \in task_type_e
  PROVE  /\ Room(c) \in Nat /\ Places(c) \in Nat /\ Cardinality(Queued(c)) \in Nat
         /\ Places(c) = 0 <=> Queued(c) = {} \/ Room(c) = 0
<1>1. Limit[c] \in Nat /\ classes_[c] \in 0..Limit[c]
  BY ThreadAssumption DEF Budget
<1>2. Room(c) \in Nat
  BY <1>1 DEF Room
<1>3. /\ IsFiniteSet(Queued(c)) /\ Cardinality(Queued(c)) \in Nat
      /\ Cardinality(Queued(c)) = 0 <=> Queued(c) = {}
  BY QueuedFinite, FS_EmptySet
<1> QED BY <1>2, <1>3 DEF Places

LEMMA NextPlaces ==
  ASSUME TypeOK', Budget', NEW c \in task_type_e
  PROVE  Room(c)' \in Nat /\ Places(c)' \in Nat /\ Cardinality(Queued(c)') \in Nat
<1>1. Limit[c] \in Nat /\ classes_'[c] \in 0..Limit[c]
  BY ThreadAssumption DEF Budget
<1>2. Room(c)' \in Nat
  BY <1>1 DEF Room
<1>3. Queued(c)' \in SUBSET Task /\ IsFiniteSet(Task)
  BY TaskAssumption DEF Queued, TypeOK
<1>4. Cardinality(Queued(c)') \in Nat
  BY <1>3, FS_Subset, FS_CardinalityType
<1> QED BY <1>2, <1>4 DEF Places

\* A step concerns one class.
LEMMA OneClass ==
  ASSUME TypeOK, Budget, TypeOK', Budget', NEW c0 \in task_type_e, NEW d \in Int,
         \A c \in task_type_e : c # c0 => Places(c)' = Places(c),
         Places(c0)' <= Places(c0) + d
  PROVE  Open \in Nat /\ Open' \in Nat /\ Open' <= Open + d
<1>1. /\ Places(taskUnbound) \in Nat /\ Places(taskCPUBound) \in Nat /\ Places(taskIOBound) \in Nat
      /\ Places(taskUnbound)' \in Nat /\ Places(taskCPUBound)' \in Nat
      /\ Places(taskIOBound)' \in Nat
  <2>1. \A c \in task_type_e : Places(c) \in Nat
    BY PlacesType
  <2>2. \A c \in task_type_e : Places(c)' \in Nat
    BY NextPlaces
  <2> QED BY <2>1, <2>2, Classes
<1>2. CASE c0 = taskUnbound
  <2>1. /\ Places(taskUnbound)' <= Places(taskUnbound) + d
        /\ Places(taskCPUBound)' = Places(taskCPUBound)
        /\ Places(taskIOBound)' = Places(taskIOBound)
    BY <1>2, Classes
  <2> QED BY <1>1, <2>1 DEF Open
<1>3. CASE c0 = taskCPUBound
  <2>1. /\ Places(taskCPUBound)' <= Places(taskCPUBound) + d
        /\ Places(taskUnbound)' = Places(taskUnbound)
        /\ Places(taskIOBound)' = Places(taskIOBound)
    BY <1>3, Classes
  <2> QED BY <1>1, <2>1 DEF Open
<1>4. CASE c0 = taskIOBound
  <2>1. /\ Places(taskIOBound)' <= Places(taskIOBound) + d
        /\ Places(taskUnbound)' = Places(taskUnbound)
        /\ Places(taskCPUBound)' = Places(taskCPUBound)
    BY <1>4, Classes
  <2> QED BY <1>1, <2>1 DEF Open
<1> QED BY <1>2, <1>3, <1>4, Classes

\* What claim_task could find without segments.
LEMMA FreePlace ==
  ASSUME IInv, NoSegmentsAsked, NEW t \in tasks_, classes_[ClassOf[t]] < Limit[ClassOf[t]]
  PROVE  Claimable
<1>1. /\ \A u \in tasks_ : u \in Task /\ Needs[u] = 0
      /\ segments_in_flight_ \in 0..MaxSegments /\ MaxSegments \in Nat
  BY TaskAssumption DEF IInv, TypeOK, Ownership, Budget, NoSegmentsAsked
<1>2. InScannedBucket(t)
  BY <1>1 DEF InScannedBucket, Greatest, segments_avail
<1> QED BY <1>2 DEF Claimable, Candidate

LEMMA NothingOpen ==
  ASSUME IInv, NoSegmentsAsked, tasks_ = {} \/ ~Claimable
  PROVE  Open = 0
<1>1. ASSUME NEW c \in task_type_e PROVE Places(c) = 0
  <2>1. CASE Queued(c) = {}
    BY <2>1, PlacesType DEF IInv
  <2>2. CASE Queued(c) # {}
    <3>1. PICK t \in tasks_ : ClassOf[t] = c
      BY <2>2 DEF Queued
    <3>2. ~(classes_[c] < Limit[c])
      BY <3>1, FreePlace
    <3>3. classes_[c] \in 0..Limit[c] /\ Limit[c] \in Nat
      BY ThreadAssumption DEF IInv, Budget
    <3>4. Room(c) = 0
      BY <3>2, <3>3 DEF Room
    <3> QED BY <3>4, PlacesType DEF IInv
  <2> QED BY <2>1, <2>2
<1> QED BY <1>1, Classes DEF Open

LEMMA SomethingOpen ==
  ASSUME IInv, Claimable
  PROVE  Open \in Nat /\ Open # 0
<1>1. PICK t \in tasks_ : classes_[ClassOf[t]] < Limit[ClassOf[t]]
  BY DEF Claimable, Candidate
<1>2. ClassOf[t] \in task_type_e
  BY TaskAssumption DEF IInv, TypeOK
<1>3. Room(ClassOf[t]) # 0 /\ Queued(ClassOf[t]) # {}
  <2>1. /\ classes_[ClassOf[t]] \in Int /\ Limit[ClassOf[t]] \in Nat
    BY <1>2, ThreadAssumption DEF IInv, TypeOK
  <2> QED BY <1>1, <2>1 DEF Room, Queued
<1>4. Places(ClassOf[t]) # 0
  BY <1>2, <1>3, PlacesType DEF IInv
<1>5. \A c \in task_type_e : Places(c) \in Nat
  BY PlacesType DEF IInv
<1> QED BY <1>2, <1>4, <1>5, Classes DEF Open

-----------------------------------------------------------------------------
\* Steps that wake nobody but those who are to look at the queue, and leave the
\* queue and the classes alone.
LEMMA WakeSame ==
  ASSUME IInv, WakeInv, UNCHANGED <<tasks_, order, classes_, num_working_>>,
         \A w \in Thread : pc'[w] = "waiting" => pc[w] = "waiting",
         \A w \in Thread : pc[w] = "running" => pc'[w] = "running",
         Awake \subseteq Awake'
  PROVE  WakeInv'
<1>1. Sleeping' => Sleeping
  BY DEF Sleeping
<1>2. NeverAllAsleep'
  BY <1>1 DEF WakeInv, NeverAllAsleep, Sleeping, Awake
<1>3. NoSegmentsAsked' <=> NoSegmentsAsked
  BY DEF NoSegmentsAsked
<1>4. Open' = Open
  BY DEF Open, Places, Queued, Room
<1>5. Cardinality(Awake) <= Cardinality(Awake')
  BY AwakeFinite, FS_Subset
<1>6. NoSegmentsAsked' /\ Sleeping' => Open' <= Cardinality(Awake')
  <2>1. SUFFICES ASSUME NoSegmentsAsked', Sleeping' PROVE Open <= Cardinality(Awake')
    BY <1>4
  <2>2. Open <= Cardinality(Awake)
    BY <1>1, <1>3, <2>1 DEF WakeInv
  <2>3. Open \in Int
    BY PlacesType, Classes DEF IInv, Open
  <2> QED BY <1>5, <2>2, <2>3, AwakeFinite
<1> QED BY <1>1, <1>2, <1>6 DEF WakeInv

\* schedule adds at most one place and wakes one sleeper.
LEMMA WakeSchedule ==
  ASSUME IInv, TypeOK', Budget', WakeInv, NEW t \in Task, schedule(t),
         UNCHANGED <<classes_, num_working_>>
  PROVE  WakeInv'
<1>1. /\ tasks_' = tasks_ \cup {t} /\ t \notin tasks_ /\ ClassOf[t] \in task_type_e
      /\ \A u \in Task : order[u] # 0 => order'[u] # 0
  BY TaskAssumption DEF schedule, IInv, TypeOK, Ownership
<1>2. NoSegmentsAsked' => NoSegmentsAsked
  BY <1>1 DEF NoSegmentsAsked
<1>3. pc \in [Thread -> Control]
  BY DEF IInv, TypeOK, Control
<1>4. CASE ~Sleeping
  <2>1. ~Sleeping'
    BY <1>4 DEF schedule, notify_one, Sleeping
  <2> QED BY <2>1 DEF WakeInv, NeverAllAsleep, Sleeping
<1>5. CASE Sleeping
  <2>1. PICK w \in Thread : pc[w] = "waiting" /\ pc' = [pc EXCEPT ![w] = "claiming"]
    BY <1>5 DEF schedule, notify_one, Sleeping
  <2>2. NeverAllAsleep'
    BY <1>3, <2>1 DEF NeverAllAsleep
  <2>3. Awake' = Awake \cup {w} /\ w \notin Awake
    BY <1>3, <2>1 DEF Awake
  <2>4. Cardinality(Awake') = Cardinality(Awake) + 1
    BY <2>3, AwakeFinite, FS_AddElement
  <2>5. \A c \in task_type_e : c # ClassOf[t] => Places(c)' = Places(c)
    <3>1. \A c \in task_type_e : c # ClassOf[t] => Queued(c)' = Queued(c)
      BY <1>1 DEF Queued
    <3> QED BY <3>1 DEF Places, Room
  <2>6. Places(ClassOf[t])' <= Places(ClassOf[t]) + 1
    <3> DEFINE q == Queued(ClassOf[t])
    <3>1. Queued(ClassOf[t])' = q \cup {t} /\ t \notin q
      BY <1>1 DEF Queued
    <3>2. IsFiniteSet(q) /\ Cardinality(q) \in Nat
      BY QueuedFinite DEF IInv
    <3>3. Cardinality(Queued(ClassOf[t])') = Cardinality(q) + 1
      <4> HIDE DEF q
      <4> QED BY <3>1, <3>2, FS_AddElement
    <3>4. Room(ClassOf[t])' = Room(ClassOf[t]) /\ Room(ClassOf[t]) \in Nat
      BY <1>1, PlacesType DEF Room, IInv
    <3> QED BY <3>2, <3>3, <3>4 DEF Places
  <2>7. Open \in Nat /\ Open' \in Nat /\ Open' <= Open + 1
    BY <1>1, <2>5, <2>6, OneClass DEF IInv
  <2>8. NoSegmentsAsked' => Open' <= Cardinality(Awake')
    <3>1. NoSegmentsAsked' => Open <= Cardinality(Awake)
      BY <1>2, <1>5 DEF WakeInv
    <3> QED BY <2>4, <2>7, <3>1, AwakeFinite
  <2> QED BY <1>1, <2>2, <2>8 DEF WakeInv
<1> QED BY <1>4, <1>5

\* A claim takes a place and the worker that was to look for it.
LEMMA WakeClaim ==
  ASSUME IInv, TypeOK', Budget', WakeInv, NEW th \in Thread, Claim(th)
  PROVE  WakeInv'
<1>1. PICK t \in tasks_ :
        /\ FirstCandidate(t)
        /\ tasks_' = tasks_ \ {t}
        /\ num_working_' = num_working_ + 1
        /\ classes_' = [classes_ EXCEPT ![ClassOf[t]] = @ + 1]
        /\ pc' = [pc EXCEPT ![th] = "running"]
  BY DEF Claim
<1>2. /\ pc[th] = "claiming" /\ UNCHANGED order
      /\ pc \in [Thread -> Control]
  BY DEF Claim, IInv, TypeOK, Control
<1>3. ClassOf[t] \in task_type_e /\ classes_ \in [task_type_e -> Int]
  BY TaskAssumption DEF IInv, TypeOK
<1>4. num_working_' # 0
  BY <1>1, Finite DEF IInv, Accounting
<1>5. NeverAllAsleep'
  BY <1>1, <1>2 DEF NeverAllAsleep
<1>6. Sleeping' => Sleeping
  BY <1>1, <1>2 DEF Sleeping
<1>7. NoSegmentsAsked' <=> NoSegmentsAsked
  BY <1>2 DEF NoSegmentsAsked
<1>8. Awake' = Awake \ {th} /\ th \in Awake
  BY <1>1, <1>2 DEF Awake
<1>9. Cardinality(Awake') = Cardinality(Awake) - 1
  BY <1>8, AwakeFinite, FS_RemoveElement
<1>10. \A c \in task_type_e : c # ClassOf[t] => Places(c)' = Places(c)
  <2>1. \A c \in task_type_e : c # ClassOf[t] => Queued(c)' = Queued(c)
    BY <1>1 DEF Queued
  <2>2. \A c \in task_type_e : c # ClassOf[t] => Room(c)' = Room(c)
    BY <1>1, <1>3 DEF Room
  <2> QED BY <2>1, <2>2 DEF Places
<1>11. Places(ClassOf[t])' <= Places(ClassOf[t]) - 1
  <2> DEFINE q == Queued(ClassOf[t])
  <2>1. Queued(ClassOf[t])' = q \ {t} /\ t \in q
    BY <1>1 DEF Queued
  <2>2. IsFiniteSet(q) /\ Cardinality(q) \in Nat
    BY QueuedFinite DEF IInv
  <2>3. Cardinality(Queued(ClassOf[t])') = Cardinality(q) - 1
    <3> HIDE DEF q
    <3> QED BY <2>1, <2>2, FS_RemoveElement
  <2>4. Room(ClassOf[t])' = Room(ClassOf[t]) - 1
    <3>1. classes_'[ClassOf[t]] = classes_[ClassOf[t]] + 1
      BY <1>1, <1>3
    <3>2. Limit[ClassOf[t]] \in Nat /\ classes_[ClassOf[t]] \in Int
      BY <1>3, ThreadAssumption
    <3> QED BY <3>1, <3>2 DEF Room
  <2>5. Room(ClassOf[t]) \in Nat
    BY <1>3, PlacesType DEF IInv
  <2> QED BY <2>2, <2>3, <2>4, <2>5 DEF Places
<1>12. Open \in Nat /\ Open' \in Nat /\ Open' <= Open + (-1)
  <2>1. Places(ClassOf[t])' <= Places(ClassOf[t]) + (-1)
    BY <1>3, <1>11, PlacesType DEF IInv
  <2>2. -1 \in Int
    OBVIOUS
  <2> QED BY <1>3, <1>10, <2>1, <2>2, OneClass DEF IInv
<1>13. NoSegmentsAsked' /\ Sleeping' => Open' <= Cardinality(Awake')
  <2>1. NoSegmentsAsked' /\ Sleeping' => Open <= Cardinality(Awake)
    BY <1>6, <1>7 DEF WakeInv
  <2> QED BY <1>9, <1>12, <2>1, AwakeFinite
<1> QED BY <1>4, <1>5, <1>13 DEF WakeInv

\* A worker falls asleep only when a body runs, or a finished task is still being
\* released, and claim_task finds no place.
LEMMA WakeWait ==
  ASSUME IInv, WakeInv, NEW th \in Thread, WaitForWork(th)
  PROVE  WakeInv'
<1>1. /\ pc[th] = "claiming" /\ pc' = [pc EXCEPT ![th] = "waiting"]
      /\ UNCHANGED <<tasks_, order, classes_, num_working_>>
      /\ (tasks_ = {} /\ num_working_ # 0) \/ (tasks_ # {} /\ ~Claimable)
      /\ pc \in [Thread -> Control]
  BY DEF WaitForWork, IInv, TypeOK, Control
<1>2. \E w \in Thread : pc[w] \in {"running", "dropping"}
  <2>1. CASE tasks_ = {}
    <3>1. Working # {}
      BY <1>1, <2>1, FS_EmptySet DEF IInv, Accounting
    <3> QED BY <3>1 DEF Working
  <2>2. CASE tasks_ # {}
    BY <1>1, <2>2, IdleClaims
  <2> QED BY <2>1, <2>2
<1>3. NeverAllAsleep'
  BY <1>1, <1>2 DEF NeverAllAsleep
<1>4. NoSegmentsAsked' => Open' = 0
  <2>1. (NoSegmentsAsked' <=> NoSegmentsAsked) /\ Open' = Open
    BY <1>1 DEF NoSegmentsAsked, Open, Places, Queued, Room
  <2> QED BY <1>1, <2>1, NothingOpen
<1>5. NoSegmentsAsked' /\ Sleeping' => Open' <= Cardinality(Awake')
  BY <1>4, AwakeFinite
<1>6. tasks_' = {} /\ num_working_' = 0 => ~Sleeping'
  BY <1>1
<1> QED BY <1>3, <1>5, <1>6 DEF WakeInv

\* The end of a body frees a place in its class, and its worker is to look at the
\* queue next; the end of the last one wakes everybody.
LEMMA WakeCleanup ==
  ASSUME IInv, TypeOK', Budget', WakeInv, NEW th \in Thread, NEW fail, cleanup(th, fail)
  PROVE  WakeInv'
<1> DEFINE p == [pc EXCEPT ![th] = "dropping"]
           c0 == ClassOf[cur[th]]
<1>1. /\ pc[th] = "running" /\ UNCHANGED <<tasks_, order>>
      /\ classes_' = [classes_ EXCEPT ![c0] = classes_[c0] - 1]
      /\ pc \in [Thread -> Control]
  BY DEF cleanup, IInv, TypeOK, Control
<1>2. /\ pc' \in [Thread -> Control]
      /\ pc'[th] = "dropping"
      /\ \A w \in Thread \ {th} :
            pc'[w] = pc[w] \/ (pc[w] = "waiting" /\ pc'[w] = "claiming")
  BY <1>1, CleanupWakes
<1>3. NeverAllAsleep'
  BY <1>2 DEF NeverAllAsleep
<1>4. tasks_' = {} /\ num_working_' = 0 => ~Sleeping'
  <2>1. SUFFICES ASSUME tasks_' = {}, num_working_' = 0 PROVE ~Sleeping'
    OBVIOUS
  <2>2. notify_all(p)
    BY <1>1, <2>1 DEF cleanup
  <2> QED BY <2>2 DEF notify_all, Sleeping
<1>5. c0 \in task_type_e
  BY <1>1, TaskAssumption DEF IInv, TypeOK, Ownership
<1>6. classes_ \in [task_type_e -> Int] /\ Limit[c0] \in Nat
  BY <1>5, ThreadAssumption DEF IInv, TypeOK
<1> HIDE DEF c0, p
<1>7. \A c \in task_type_e : c # c0 => Places(c)' = Places(c)
  <2>1. \A c \in task_type_e : c # c0 => Room(c)' = Room(c)
    BY <1>1, <1>6 DEF Room
  <2>2. \A c \in task_type_e : Queued(c)' = Queued(c)
    BY <1>1 DEF Queued
  <2> QED BY <2>1, <2>2 DEF Places
<1>8. Open \in Nat /\ Open' \in Nat /\ Open' <= Open + 1
  <2>1. PICK c \in task_type_e : c = c0
    BY <1>5
  <2>2. Room(c)' = Room(c) + 1
    <3>1. classes_'[c] = classes_[c] - 1
      BY <1>1, <1>6, <2>1
    <3> QED BY <1>6, <2>1, <3>1 DEF Room
  <2>3. Queued(c)' = Queued(c)
    BY <1>1 DEF Queued
  <2>4. Room(c) \in Nat /\ Cardinality(Queued(c)) \in Nat
    BY PlacesType DEF IInv
  <2>5. Places(c)' <= Places(c) + 1
    BY <2>2, <2>3, <2>4 DEF Places
  <2> QED BY <1>7, <2>1, <2>5, OneClass DEF IInv
<1>9. Cardinality(Awake) + 1 <= Cardinality(Awake')
  <2>1. th \notin Awake /\ Awake \cup {th} \subseteq Awake'
    BY <1>1, <1>2 DEF Awake
  <2>2. /\ IsFiniteSet(Awake \cup {th})
        /\ Cardinality(Awake \cup {th}) = Cardinality(Awake) + 1
    BY <2>1, AwakeFinite, FS_AddElement
  <2>3. Cardinality(Awake \cup {th}) <= Cardinality(Awake')
    BY <2>1, AwakeFinite, FS_Subset
  <2> QED BY <2>2, <2>3
<1>10. NoSegmentsAsked' /\ Sleeping' => Open' <= Cardinality(Awake')
  <2>1. Sleeping' => Sleeping
    BY <1>2 DEF Sleeping
  <2>2. NoSegmentsAsked' <=> NoSegmentsAsked
    BY <1>1 DEF NoSegmentsAsked
  <2>3. NoSegmentsAsked' /\ Sleeping' => Open <= Cardinality(Awake)
    BY <2>1, <2>2 DEF WakeInv
  <2> QED BY <1>8, <1>9, <2>3, AwakeFinite
<1> QED BY <1>3, <1>4, <1>10 DEF WakeInv

LEMMA WakeStep == IInv /\ IInv' /\ WakeInv /\ [Next]_vars => WakeInv'
<1> SUFFICES ASSUME IInv, IInv', WakeInv, [Next]_vars PROVE WakeInv'
  OBVIOUS
<1>t. TypeOK' /\ Budget' /\ pc \in [Thread -> Control]
  BY DEF IInv, TypeOK, Control
<1>1. ASSUME NEW th \in Thread, Claim(th) PROVE WakeInv'
  BY <1>1, <1>t, WakeClaim
<1>2. ASSUME NEW th \in Thread, WaitForWork(th) PROVE WakeInv'
  BY <1>2, WakeWait
<1>3. ASSUME NEW th \in Thread, Leave(th) PROVE WakeInv'
  <2>1. ~Sleeping /\ pc' = [pc EXCEPT ![th] = "off"]
    BY <1>3 DEF Leave, WakeInv
  <2>2. ~Sleeping'
    BY <1>t, <2>1 DEF Sleeping
  <2> QED BY <2>2 DEF WakeInv, NeverAllAsleep, Sleeping
<1>4. ASSUME NEW th \in Thread, NEW t \in Task, Spawn(th, t) PROVE WakeInv'
  BY <1>4, <1>t, WakeSchedule DEF Spawn
<1>5. ASSUME NEW th \in Thread, Retry(th) PROVE WakeInv'
  BY <1>5, WakeSame DEF Retry, Awake
<1>6. ASSUME NEW th \in Thread, NEW fail \in BOOLEAN, cleanup(th, fail) PROVE WakeInv'
  BY <1>6, <1>t, WakeCleanup
<1>7. ASSUME NEW th \in Thread, DropSegment(th) PROVE WakeInv'
  <2>1. \A w \in Thread : pc'[w] = pc[w] \/ (pc[w] = "waiting" /\ pc'[w] = "claiming")
    BY <1>7, <1>t, NotifyOne DEF DropSegment
  <2>2. Awake \subseteq Awake'
    BY <2>1 DEF Awake
  <2>3. UNCHANGED <<tasks_, order, classes_, num_working_>>
    BY <1>7 DEF DropSegment
  <2> QED BY <2>1, <2>2, <2>3, WakeSame
<1>8. ASSUME NEW th \in Thread, Dropped(th) PROVE WakeInv'
  <2>1. pc[th] = "dropping" /\ pc' = [pc EXCEPT ![th] = "claiming"]
    BY <1>8 DEF Dropped
  <2>2. Awake \subseteq Awake'
    BY <1>t, <2>1 DEF Awake
  <2>3. /\ \A w \in Thread : pc'[w] = "waiting" => pc[w] = "waiting"
        /\ \A w \in Thread : pc[w] = "running" => pc'[w] = "running"
    BY <1>t, <2>1
  <2>4. UNCHANGED <<tasks_, order, classes_, num_working_>>
    BY <1>8 DEF Dropped
  <2> QED BY <2>2, <2>3, <2>4, WakeSame
<1>9. ASSUME NEW t \in Task, Submit(t) PROVE WakeInv'
  BY <1>9, <1>t, WakeSchedule DEF Submit
<1>10. ASSUME NEW quiet \in BOOLEAN, run(quiet) PROVE WakeInv'
  BY <1>10 DEF run, WakeInv, NeverAllAsleep, Sleeping
<1>11. CASE draw_progress \/ Return \/ UNCHANGED vars
  BY <1>11, WakeSame DEF draw_progress, Return, vars, Awake
<1>12. ASSUME NEW th \in Thread, WakeUp(th) PROVE WakeInv'
  <2>1. pc[th] = "waiting" /\ pc' = [pc EXCEPT ![th] = "claiming"]
    BY <1>12 DEF WakeUp
  <2>2. Awake \subseteq Awake'
    BY <1>t, <2>1 DEF Awake
  <2>3. /\ \A w \in Thread : pc'[w] = "waiting" => pc[w] = "waiting"
        /\ \A w \in Thread : pc[w] = "running" => pc'[w] = "running"
    BY <1>t, <2>1
  <2>4. UNCHANGED <<tasks_, order, classes_, num_working_>>
    BY <1>12 DEF WakeUp
  <2> QED BY <2>2, <2>3, <2>4, WakeSame
<1> QED
  BY <1>1, <1>2, <1>3, <1>4, <1>5, <1>6, <1>7, <1>8, <1>9, <1>10, <1>11, <1>12
     DEF Next, Step

LEMMA WakeInvariance == Spec => []WakeInv
<1>1. Init => WakeInv
  BY DEF Init, WakeInv, NeverAllAsleep, Sleeping
<1> QED BY <1>1, WakeStep, Inductive, PTL DEF Spec

\* No wake-up is lost, for every number of threads and tasks: a sleeping worker is
\* never alone, and without segments it never sleeps beside a task it could run
\* while nobody is on the way to claim_task (schedule, claim_task, cleanup).
THEOREM NobodyOversleeps == Spec => []NoLostWakeup
<1>1. ASSUME IInv, WakeInv PROVE NoLostWakeup
  <2>1. NeverAllAsleep
    BY <1>1 DEF WakeInv
  <2>2. ASSUME NoSegmentsAsked, Claimable, \E th \in Thread : pc[th] = "waiting"
        PROVE  \E th \in Thread : pc[th] \in {"claiming", "dropping"}
    <3>1. Open \in Nat /\ Open # 0
      BY <1>1, <2>2, SomethingOpen
    <3>2. Open <= Cardinality(Awake)
      BY <1>1, <2>2 DEF WakeInv, Sleeping
    <3>3. Cardinality(Awake) # 0
      BY <3>1, <3>2, AwakeFinite
    <3>4. Awake # {}
      BY <3>3, FS_EmptySet
    <3> QED BY <3>4 DEF Awake
  <2> QED BY <2>1, <2>2 DEF NoLostWakeup
<1> QED BY <1>1, Inductive, WakeInvariance, PTL

-----------------------------------------------------------------------------
\* The executor implements the abstract pool.
Active == {cur[th] : th \in Working}
Finished == {t \in Task : order[t] # 0 /\ t \notin tasks_
                          /\ \A th \in Working : cur[th] # t}

LEMMA PoolInit == Init => Pool!Init
BY DEF Init, Pool!Init, Working

\* Steps that neither schedule, start nor end a body.
LEMMA PoolSame ==
  ASSUME IInv, UNCHANGED <<tasks_, order>>,
         \A w \in Thread : pc'[w] = "running" <=> pc[w] = "running",
         \A w \in Working : cur'[w] = cur[w]
  PROVE  Active' = Active /\ Finished' = Finished
<1>1. Working' = Working
  BY DEF Working
<1> QED BY <1>1 DEF Active, Finished

LEMMA PoolSchedule ==
  ASSUME IInv, NEW t \in Task, schedule(t),
         (Parent[t] = NoTask /\ main = "idle") \/ Parent[t] \in Active,
         UNCHANGED <<cur, main>>
  PROVE  Pool!Schedule(t)
<1> USE DEF IInv
<1>1. order[t] = 0 /\ tasks_' = tasks_ \cup {t}
  BY DEF schedule
<1>2. t \notin tasks_ /\ \A th \in Working : cur[th] # t
  BY <1>1, TaskAssumption DEF Ownership, Working
<1>3. Working' = Working
  BY NotifyOne DEF schedule, TypeOK, Control, Working
<1>4. Active' = Active
  BY <1>3 DEF Active
<1>5. /\ \A u \in Task : u # t => order'[u] = order[u]
      /\ order'[t] # 0
  BY DEF schedule, TypeOK
<1>6. Finished' = Finished
  BY <1>1, <1>2, <1>3, <1>5 DEF Finished
<1> QED
  BY <1>1, <1>2, <1>4, <1>6 DEF Pool!Schedule, Active, Finished

LEMMA PoolNext == IInv /\ [Next]_vars => [Pool!Next]_(Pool!vars)
<1> SUFFICES ASSUME IInv, [Next]_vars
             PROVE  Pool!Next \/ UNCHANGED Pool!vars
  OBVIOUS
<1> USE DEF IInv
<1>s. SUFFICES Pool!Next \/ UNCHANGED <<tasks_, Active, Finished, main>>
  BY <1>s DEF Pool!vars, Active, Finished
<1>1. ASSUME NEW th \in Thread, Claim(th) PROVE \E t \in Task : Pool!Start(t)
  <2>1. PICK t \in tasks_ :
          /\ tasks_' = tasks_ \ {t}
          /\ cur' = [cur EXCEPT ![th] = t]
          /\ pc' = [pc EXCEPT ![th] = "running"]
    BY <1>1 DEF Claim
  <2>2. pc[th] = "claiming" /\ UNCHANGED <<order, main>>
    BY <1>1 DEF Claim
  <2>3. main = "joining"
    BY <2>2 DEF NoEarlyLeave, TypeOK
  <2>4. /\ Working' = Working \cup {th} /\ th \notin Working
        /\ cur'[th] = t /\ \A w \in Working : cur'[w] = cur[w]
    BY <2>1, <2>2 DEF Working, TypeOK
  <2>5. Active' = Active \cup {t}
    BY <2>4 DEF Active
  <2>6. Finished' = Finished
    BY <2>1, <2>2, <2>4 DEF Finished
  <2>7. t \in Task
    BY DEF TypeOK
  <2> QED BY <2>1, <2>2, <2>3, <2>5, <2>6, <2>7 DEF Pool!Start, Active, Finished
<1>2. ASSUME NEW th \in Thread,
             WaitForWork(th) \/ WakeUp(th) \/ Leave(th) \/ Retry(th)
      PROVE  UNCHANGED <<tasks_, Active, Finished, main>>
  BY <1>2, PoolSame DEF WaitForWork, WakeUp, Leave, Retry, TypeOK
<1>3. ASSUME NEW th \in Thread, NEW t \in Task, Spawn(th, t) PROVE Pool!Schedule(t)
  <2>1. Parent[t] \in Active
    BY <1>3 DEF Spawn, Active, Working
  <2> QED BY <1>3, <2>1, PoolSchedule DEF Spawn
<1>4. ASSUME NEW th \in Thread, NEW fail \in BOOLEAN, cleanup(th, fail)
      PROVE  \E t \in Task : Pool!Finish(t)
  <2>1. pc[th] = "running" /\ UNCHANGED <<tasks_, order, cur, main>>
    BY <1>4 DEF cleanup
  <2>2. th \in Working /\ Working' = Working \ {th}
    BY <1>4, <2>1, CleanupWakes DEF Working, TypeOK, Control
  <2>3. cur[th] \in Task /\ order[cur[th]] # 0 /\ cur[th] \notin tasks_
    BY <2>1 DEF Ownership, OneExecutor, TypeOK
  <2>4. \A w \in Working' : cur[w] # cur[th]
    BY <2>2, <2>3, TaskAssumption DEF OneExecutor, Working
  <2>5. Active' = Active \ {cur[th]} /\ cur[th] \in Active
    BY <2>1, <2>2, <2>4 DEF Active
  <2>6. Finished' = Finished \cup {cur[th]}
    BY <2>1, <2>2, <2>3, <2>4 DEF Finished
  <2>7. PICK t \in Task : t = cur[th]
    BY <2>3
  <2>8. Pool!Finish(t)
    BY <2>1, <2>5, <2>6, <2>7 DEF Pool!Finish, Active, Finished
  <2> QED BY <2>8
<1>5. ASSUME NEW th \in Thread, DropSegment(th)
      PROVE  UNCHANGED <<tasks_, Active, Finished, main>>
  <2>1. \A w \in Thread : pc'[w] = "running" <=> pc[w] = "running"
    BY <1>5, NotifyOne DEF DropSegment, TypeOK, Control
  <2> QED BY <1>5, <2>1, PoolSame DEF DropSegment
<1>6. ASSUME NEW th \in Thread, Dropped(th)
      PROVE  UNCHANGED <<tasks_, Active, Finished, main>>
  <2>1. /\ \A w \in Thread : pc'[w] = "running" <=> pc[w] = "running"
        /\ \A w \in Working : cur'[w] = cur[w]
    BY <1>6 DEF Dropped, TypeOK, Working
  <2> QED BY <1>6, <2>1, PoolSame DEF Dropped
<1>7. ASSUME NEW t \in Task, Submit(t) PROVE Pool!Schedule(t)
  BY <1>7, PoolSchedule DEF Submit
<1>8. ASSUME NEW quiet \in BOOLEAN, run(quiet) PROVE Pool!Run
  <2>1. \A w \in Thread : pc[w] = "off" /\ pc'[w] = "claiming"
    BY <1>8 DEF run, NoEarlyLeave
  <2>2. Active' = Active /\ Finished' = Finished
    BY <1>8, <2>1, PoolSame DEF run
  <2> QED BY <1>8, <2>2 DEF run, Pool!Run, Active, Finished
<1>9. CASE draw_progress
  BY <1>9, PoolSame DEF draw_progress
<1>10. CASE Return
  <2>1. tasks_ = {}
    BY <1>10, ThreadNonempty DEF Return, NoEarlyLeave
  <2>2. Active = {}
    BY <1>10 DEF Return, Active, Working
  <2>3. Active' = Active /\ Finished' = Finished
    BY <1>10, PoolSame DEF Return
  <2>4. Pool!Return
    BY <1>10, <2>1, <2>2, <2>3 DEF Return, Pool!Return, Active, Finished
  <2> QED BY <2>4 DEF Pool!Next
<1>11. CASE UNCHANGED vars
  BY <1>11, PoolSame DEF vars
<1> QED
  BY <1>1, <1>2, <1>3, <1>4, <1>5, <1>6, <1>7, <1>8, <1>9, <1>10, <1>11
     DEF Next, Step, Pool!Next

\* Each step of the worker threads is a step of the abstract pool or leaves it
\* alone, for every crew, task tree and segment budget.
THEOREM Refinement == Spec => ImplementsPool
BY PoolInit, PoolNext, Inductive, PTL DEF Spec, ImplementsPool, Pool!Spec
=============================================================================
