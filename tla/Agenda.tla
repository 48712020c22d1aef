------------------------------- MODULE Agenda -------------------------------
(***************************************************************************)
(* The task executor of es3: class agenda and class task_executor          *)
(* (es3/agenda.h, es3/agenda.cpp).                                         *)
(*                                                                         *)
(* A fixed crew of worker threads drains a queue of tasks.  A task belongs *)
(* to a class (unbound, CPU bound, IO bound) with a limit on how many run  *)
(* at once, and asks for a number of memory segments, of which only        *)
(* max_segments_in_flight_ exist.  A running task may schedule further     *)
(* tasks and hand one of its segments to each.  All shared state is        *)
(* guarded by the mutex m_, so every critical section is one action; the   *)
(* workers sleep on a single condition variable, condition_.               *)
(***************************************************************************)
EXTENDS Integers, FiniteSets

CONSTANTS
  Task,          \* the task objects the program may create
  NoTask,        \* a null sync_task_ptr
  Thread,        \* the worker threads run() starts
  Limit,         \* class_limits_: how many tasks of a class may run at once
  ClassOf,       \* sync_task::get_class of each task
  Needs,         \* sync_task::needs_segments of each task
  Parent,        \* the task whose body schedules this one; NoTask: the caller of run()
  Carries,       \* which segment of its parent a task takes along (0: none)
  MaxSegments,   \* max_segments_in_flight_
  MaxAttempts,   \* tries of a task whose body ends with a warning (10 in the code)
  MaxRuns        \* bound on the number of run() calls a command makes

\* task_type_e; std::map keeps the classes in the order of these numbers.
taskUnbound == 0
taskCPUBound == 1
taskIOBound == 2
task_type_e == {taskUnbound, taskCPUBound, taskIOBound}

\* Each class has at least one thread and run() starts one thread for every
\* place in a class.
ASSUME ThreadAssumption ==
  /\ Limit \in [task_type_e -> Nat \ {0}]
  /\ IsFiniteSet(Thread)
  /\ Cardinality(Thread)
       = Limit[taskUnbound] + Limit[taskCPUBound] + Limit[taskIOBound]

\* No task asks for more segments than exist, and a task that arrives with a
\* segment of its parent (part_upload_task, write_segment_task) asks for none.
ASSUME TaskAssumption ==
  /\ IsFiniteSet(Task)
  /\ NoTask \notin Task
  /\ MaxSegments \in Nat
  /\ ClassOf \in [Task -> task_type_e]
  /\ Needs \in [Task -> 0..MaxSegments]
  /\ Parent \in [Task -> Task \cup {NoTask}]
  /\ Carries \in [Task -> 0..MaxSegments]
  /\ \A t \in Task : Carries[t] # 0 =>
        /\ Needs[t] = 0
        /\ Parent[t] # NoTask
        /\ Carries[t] <= Needs[Parent[t]]

ASSUME BoundAssumption ==
  /\ MaxAttempts \in Nat \ {0}
  /\ MaxRuns \in Nat

VARIABLES
  tasks_,               \* the queue
  order,                \* place of a task in scheduling order, 0 before it is scheduled
  classes_,             \* number of running tasks of each class
  num_working_,         \* number of running tasks
  segments_in_flight_,  \* number of segments handed out
  refs,                 \* the tasks that keep a segment alive (shared_ptr owners)
  num_submitted_, num_done_, num_failed_,
  pc,                   \* what each thread is doing
  cur,                  \* the task a thread has claimed
  attempt,              \* its try, from 1
  main,                 \* the caller of run()
  progress,             \* the thread that draws the progress line
  runs                  \* number of run() calls so far

vars == <<tasks_, order, classes_, num_working_, segments_in_flight_, refs,
          num_submitted_, num_done_, num_failed_, pc, cur, attempt,
          main, progress, runs>>

\* A segment is named by the task it was allocated for and its place in the
\* vector get_segments returned.
Segment == Task \X (1..MaxSegments)
Allocated(t) == {t} \X (1..Needs[t])
HandedOver(t) == IF Carries[t] = 0 THEN {} ELSE {<<Parent[t], Carries[t]>>}

TypeOK ==
  /\ tasks_ \in SUBSET Task
  /\ order \in [Task -> Nat]
  /\ classes_ \in [task_type_e -> Int]
  /\ num_working_ \in Int
  /\ segments_in_flight_ \in Int
  /\ refs \in [Segment -> SUBSET Task]
  /\ num_submitted_ \in Nat /\ num_done_ \in Nat /\ num_failed_ \in Nat
  /\ pc \in [Thread -> {"off", "claiming", "waiting", "running", "dropping"}]
  /\ cur \in [Thread -> Task \cup {NoTask}]
  /\ attempt \in [Thread -> 0..MaxAttempts]
  /\ main \in {"idle", "joining"}
  /\ progress \in {"off", "drawing"}
  /\ runs \in 0..MaxRuns

Init ==
  /\ tasks_ = {}
  /\ order = [t \in Task |-> 0]
  /\ classes_ = [c \in task_type_e |-> 0]
  /\ num_working_ = 0
  /\ segments_in_flight_ = 0
  /\ refs = [s \in Segment |-> {}]
  /\ num_submitted_ = 0 /\ num_done_ = 0 /\ num_failed_ = 0
  /\ pc = [th \in Thread |-> "off"]
  /\ cur = [th \in Thread |-> NoTask]
  /\ attempt = [th \in Thread |-> 0]
  /\ main = "idle"
  /\ progress = "off"
  /\ runs = 0

-----------------------------------------------------------------------------
\* condition_.notify_one(), for threads whose own step leads to p: one of the
\* sleeping threads wakes and goes round the claim loop; without a sleeper the
\* call is lost.
notify_one(p) ==
  \/ /\ \A w \in Thread : p[w] # "waiting"
     /\ pc' = p
  \/ \E w \in Thread : p[w] = "waiting" /\ pc' = [p EXCEPT ![w] = "claiming"]

\* condition_.notify_all()
notify_all(p) ==
  pc' = [w \in Thread |-> IF p[w] = "waiting" THEN "claiming" ELSE p[w]]

\* Mutant: the call to notify_one in schedule is forgotten.
schedule_Silent(t) ==
  /\ order[t] = 0
  /\ tasks_' = tasks_ \cup {t}
  /\ order' = [order EXCEPT ![t] = num_submitted_ + 1]
  /\ num_submitted_' = num_submitted_ + 1
  /\ refs' = [s \in Segment |-> IF s \in HandedOver(t) THEN refs[s] \cup {t}
                                                       ELSE refs[s]]
  /\ UNCHANGED pc

\* agenda::schedule: the task joins the queue behind the tasks of its size and
\* class (every ordinal() is 0) and one sleeper is woken.
schedule(t) ==
  /\ order[t] = 0
  /\ tasks_' = tasks_ \cup {t}
  /\ order' = [order EXCEPT ![t] = num_submitted_ + 1]
  /\ num_submitted_' = num_submitted_ + 1
  /\ refs' = [s \in Segment |-> IF s \in HandedOver(t) THEN refs[s] \cup {t}
                                                       ELSE refs[s]]
  /\ notify_one(pc)

-----------------------------------------------------------------------------
\* What claim_task sees.  tasks_ is keyed by segment requirement: the scan
\* looks only at the greatest key and, when that does not fit into the free
\* segments, at the least one.
segments_avail_Ignored == MaxSegments  \* mutant: segments in use are not subtracted
segments_avail == MaxSegments - segments_in_flight_

Greatest(n) == \A u \in tasks_ : Needs[u] <= n
Least(n) == \A u \in tasks_ : n <= Needs[u]

\* Mutant: only the greatest requirement is tried.
InScannedBucket_GreatestOnly(t) ==
  /\ t \in tasks_
  /\ Needs[t] <= segments_avail
  /\ Greatest(Needs[t])

InScannedBucket(t) ==
  /\ t \in tasks_
  /\ Needs[t] <= segments_avail
  /\ \/ Greatest(Needs[t])
     \/ /\ Least(Needs[t])
        /\ \E u \in tasks_ : Needs[u] > segments_avail

Candidate(t) ==
  /\ InScannedBucket(t)
  /\ classes_[ClassOf[t]] < Limit[ClassOf[t]]

\* The classes are tried in order and the front of the task map is taken.
FirstCandidate(t) ==
  /\ Candidate(t)
  /\ \A u \in tasks_ : Candidate(u) =>
        \/ ClassOf[t] < ClassOf[u]
        \/ ClassOf[t] = ClassOf[u] /\ order[t] <= order[u]

Claimable == \E t \in tasks_ : Candidate(t)

\* Mutant: the claimed task is not taken out of the queue.
Claim_NotErased(th) ==
  /\ pc[th] = "claiming"
  /\ \E t \in tasks_ :
        /\ FirstCandidate(t)
        /\ num_working_' = num_working_ + 1
        /\ classes_' = [classes_ EXCEPT ![ClassOf[t]] = @ + 1]
        /\ segments_in_flight_' = segments_in_flight_ + Needs[t]
        /\ refs' = [s \in Segment |-> IF s \in Allocated(t) THEN {t} ELSE refs[s]]
        /\ cur' = [cur EXCEPT ![th] = t]
        /\ attempt' = [attempt EXCEPT ![th] = 1]
        /\ pc' = [pc EXCEPT ![th] = "running"]
  /\ UNCHANGED <<tasks_, order, num_submitted_, num_done_, num_failed_, main,
                 progress, runs>>

\* claim_task, a task is found: it leaves the queue and its segments are
\* allocated (get_segments).
Claim(th) ==
  /\ pc[th] = "claiming"
  /\ \E t \in tasks_ :
        /\ FirstCandidate(t)
        /\ tasks_' = tasks_ \ {t}
        /\ num_working_' = num_working_ + 1
        /\ classes_' = [classes_ EXCEPT ![ClassOf[t]] = @ + 1]
        /\ segments_in_flight_' = segments_in_flight_ + Needs[t]
        /\ refs' = [s \in Segment |-> IF s \in Allocated(t) THEN {t} ELSE refs[s]]
        /\ cur' = [cur EXCEPT ![th] = t]
        /\ attempt' = [attempt EXCEPT ![th] = 1]
        /\ pc' = [pc EXCEPT ![th] = "running"]
  /\ UNCHANGED <<order, num_submitted_, num_done_, num_failed_, main, progress, runs>>

\* claim_task, nothing to take but work is queued or running: condition_.wait.
WaitForWork(th) ==
  /\ pc[th] = "claiming"
  /\ \/ tasks_ = {} /\ num_working_ # 0
     \/ tasks_ # {} /\ ~Claimable
  /\ pc' = [pc EXCEPT ![th] = "waiting"]
  /\ UNCHANGED <<tasks_, order, classes_, num_working_, segments_in_flight_, refs,
                 num_submitted_, num_done_, num_failed_, cur, attempt,
                 main, progress, runs>>

\* condition_.wait may return without a notification (a spurious wake-up); the
\* worker looks at the queue again.
WakeUp(th) ==
  /\ pc[th] = "waiting"
  /\ pc' = [pc EXCEPT ![th] = "claiming"]
  /\ UNCHANGED <<tasks_, order, classes_, num_working_, segments_in_flight_, refs,
                 num_submitted_, num_done_, num_failed_, cur, attempt,
                 main, progress, runs>>

\* Mutant: an empty queue alone ends a worker.
Leave_WhenEmpty(th) ==
  /\ pc[th] = "claiming"
  /\ tasks_ = {}
  /\ pc' = [pc EXCEPT ![th] = "off"]
  /\ UNCHANGED <<tasks_, order, classes_, num_working_, segments_in_flight_, refs,
                 num_submitted_, num_done_, num_failed_, cur, attempt,
                 main, progress, runs>>

\* claim_task, nothing queued and nobody working: the thread ends.
Leave(th) ==
  /\ pc[th] = "claiming"
  /\ tasks_ = {}
  /\ num_working_ = 0
  /\ pc' = [pc EXCEPT ![th] = "off"]
  /\ UNCHANGED <<tasks_, order, classes_, num_working_, segments_in_flight_, refs,
                 num_submitted_, num_done_, num_failed_, cur, attempt,
                 main, progress, runs>>

-----------------------------------------------------------------------------
\* The body of the running task schedules another one.
Spawn(th, t) ==
  /\ pc[th] = "running"
  /\ Parent[t] = cur[th]
  /\ schedule(t)
  /\ UNCHANGED <<classes_, num_working_, segments_in_flight_, num_done_, num_failed_,
                 cur, attempt, main, progress, runs>>

\* Mutant: the tries are not counted.
Retry_Endless(th) ==
  /\ pc[th] = "running"
  /\ attempt' = [attempt EXCEPT ![th] = @ + 1]
  /\ UNCHANGED <<tasks_, order, classes_, num_working_, segments_in_flight_, refs,
                 num_submitted_, num_done_, num_failed_, pc, cur,
                 main, progress, runs>>

\* The body throws a warning (errWarn, errNone) and is tried again.
Retry(th) ==
  /\ pc[th] = "running"
  /\ attempt[th] < MaxAttempts
  /\ attempt' = [attempt EXCEPT ![th] = @ + 1]
  /\ UNCHANGED <<tasks_, order, classes_, num_working_, segments_in_flight_, refs,
                 num_submitted_, num_done_, num_failed_, pc, cur,
                 main, progress, runs>>

\* Mutant: the end of the last task wakes one worker only.
cleanup_WakesOne(th, fail) ==
  /\ pc[th] = "running"
  /\ num_working_' = num_working_ - 1
  /\ classes_' = [classes_ EXCEPT ![ClassOf[cur[th]]] = @ - 1]
  /\ notify_one([pc EXCEPT ![th] = "dropping"])
  /\ num_done_' = num_done_ + 1
  /\ num_failed_' = num_failed_ + (IF fail THEN 1 ELSE 0)
  /\ attempt' = [attempt EXCEPT ![th] = 0]
  /\ UNCHANGED <<tasks_, order, segments_in_flight_, refs, num_submitted_, cur,
                 main, progress, runs>>

\* Mutant: a failed task is put back into the queue.
cleanup_Requeues(th, fail) ==
  /\ pc[th] = "running"
  /\ num_working_' = num_working_ - 1
  /\ classes_' = [classes_ EXCEPT ![ClassOf[cur[th]]] = @ - 1]
  /\ notify_one([pc EXCEPT ![th] = "dropping"])
  /\ tasks_' = IF fail THEN tasks_ \cup {cur[th]} ELSE tasks_
  /\ num_done_' = num_done_ + 1
  /\ num_failed_' = num_failed_ + (IF fail THEN 1 ELSE 0)
  /\ attempt' = [attempt EXCEPT ![th] = 0]
  /\ UNCHANGED <<order, segments_in_flight_, refs, num_submitted_, cur,
                 main, progress, runs>>

\* The body returns, throws anything but a warning, or warns for the last
\* time; task_executor::cleanup follows.
cleanup(th, fail) ==
  /\ pc[th] = "running"
  /\ num_working_' = num_working_ - 1
  /\ classes_' = [classes_ EXCEPT ![ClassOf[cur[th]]] = @ - 1]
  /\ LET p == [pc EXCEPT ![th] = "dropping"]
     IN  IF tasks_ = {} /\ num_working_' = 0 THEN notify_all(p) ELSE notify_one(p)
  /\ num_done_' = num_done_ + 1
  /\ num_failed_' = num_failed_ + (IF fail THEN 1 ELSE 0)
  /\ attempt' = [attempt EXCEPT ![th] = 0]
  /\ UNCHANGED <<tasks_, order, segments_in_flight_, refs, num_submitted_, cur,
                 main, progress, runs>>

\* Mutant: every owner that lets go of a segment gives it back.
DropSegment_EachOwner(th) ==
  /\ pc[th] = "dropping"
  /\ \E s \in Segment :
        /\ cur[th] \in refs[s]
        /\ refs' = [refs EXCEPT ![s] = @ \ {cur[th]}]
        /\ segments_in_flight_' = segments_in_flight_ - 1
        /\ notify_one(pc)
  /\ UNCHANGED <<tasks_, order, classes_, num_working_, num_submitted_, num_done_,
                 num_failed_, cur, attempt, main, progress, runs>>

\* The executor lets go of one segment of the finished task; the last owner
\* runs segment_deleter.
DropSegment(th) ==
  /\ pc[th] = "dropping"
  /\ \E s \in Segment :
        /\ cur[th] \in refs[s]
        /\ refs' = [refs EXCEPT ![s] = @ \ {cur[th]}]
        /\ IF refs[s] = {cur[th]}
             THEN /\ segments_in_flight_' = segments_in_flight_ - 1
                  /\ notify_one(pc)
             ELSE UNCHANGED <<segments_in_flight_, pc>>
  /\ UNCHANGED <<tasks_, order, classes_, num_working_, num_submitted_, num_done_,
                 num_failed_, cur, attempt, main, progress, runs>>

\* Mutant: the executor forgets the task before its segments are released.
Dropped_Early(th) ==
  /\ pc[th] = "dropping"
  /\ cur' = [cur EXCEPT ![th] = NoTask]
  /\ pc' = [pc EXCEPT ![th] = "claiming"]
  /\ UNCHANGED <<tasks_, order, classes_, num_working_, segments_in_flight_, refs,
                 num_submitted_, num_done_, num_failed_, attempt,
                 main, progress, runs>>

\* The task object is gone; the executor loops back to claim_task.
Dropped(th) ==
  /\ pc[th] = "dropping"
  /\ \A s \in Segment : cur[th] \notin refs[s]
  /\ cur' = [cur EXCEPT ![th] = NoTask]
  /\ pc' = [pc EXCEPT ![th] = "claiming"]
  /\ UNCHANGED <<tasks_, order, classes_, num_working_, segments_in_flight_, refs,
                 num_submitted_, num_done_, num_failed_, attempt,
                 main, progress, runs>>

-----------------------------------------------------------------------------
\* A command schedules a task between two runs.
Submit(t) ==
  /\ main = "idle"
  /\ Parent[t] = NoTask
  /\ schedule(t)
  /\ UNCHANGED <<classes_, num_working_, segments_in_flight_, num_done_, num_failed_,
                 cur, attempt, main, progress, runs>>

\* agenda::run starts the crew and, unless quiet_, the progress thread.
run(quiet) ==
  /\ main = "idle"
  /\ runs < MaxRuns
  /\ runs' = runs + 1
  /\ main' = "joining"
  /\ pc' = [th \in Thread |-> "claiming"]
  /\ progress' = IF quiet THEN "off" ELSE "drawing"
  /\ UNCHANGED <<tasks_, order, classes_, num_working_, segments_in_flight_, refs,
                 num_submitted_, num_done_, num_failed_, cur, attempt>>

\* draw_progress looks at the queue between two frames and ends with the work.
draw_progress ==
  /\ progress = "drawing"
  /\ num_working_ = 0 /\ tasks_ = {}
  /\ progress' = "off"
  /\ UNCHANGED <<tasks_, order, classes_, num_working_, segments_in_flight_, refs,
                 num_submitted_, num_done_, num_failed_, pc, cur, attempt,
                 main, runs>>

\* Mutant: run() joins the first thread that ends.
Return_JoinsOne ==
  /\ main = "joining"
  /\ \E th \in Thread : pc[th] = "off"
  /\ progress = "off"
  /\ main' = "idle"
  /\ UNCHANGED <<tasks_, order, classes_, num_working_, segments_in_flight_, refs,
                 num_submitted_, num_done_, num_failed_, pc, cur, attempt,
                 progress, runs>>

\* agenda::run has joined every thread.
Return ==
  /\ main = "joining"
  /\ \A th \in Thread : pc[th] = "off"
  /\ progress = "off"
  /\ main' = "idle"
  /\ UNCHANGED <<tasks_, order, classes_, num_working_, segments_in_flight_, refs,
                 num_submitted_, num_done_, num_failed_, pc, cur, attempt,
                 progress, runs>>

-----------------------------------------------------------------------------
\* One step of a worker.
Step(th) ==
  \/ Claim(th)
  \/ WaitForWork(th)
  \/ Leave(th)
  \/ \E t \in Task : Spawn(th, t)
  \/ Retry(th)
  \/ \E fail \in BOOLEAN : cleanup(th, fail)
  \/ DropSegment(th)
  \/ Dropped(th)

Next ==
  \/ \E th \in Thread : Step(th) \/ WakeUp(th)
  \/ \E t \in Task : Submit(t)
  \/ \E quiet \in BOOLEAN : run(quiet)
  \/ draw_progress
  \/ Return

Spec == Init /\ [][Next]_vars

\* The operating system schedules every thread, and every task body ends.
\* Nothing relies on a spurious wake-up.
Fairness ==
  /\ \A th \in Thread : WF_vars(Step(th))
  /\ WF_vars(draw_progress)
  /\ WF_vars(Return)

FairSpec == Spec /\ Fairness

-----------------------------------------------------------------------------
Working == {th \in Thread : pc[th] = "running"}
WorkingOn(c) == {th \in Working : ClassOf[cur[th]] = c}
Live == {s \in Segment : refs[s] # {}}

\* The counters claim_task decides by are never out of step with what the
\* threads do: num_working_ and classes_ count the running bodies,
\* segments_in_flight_ the segments somebody still owns, and no submitted task
\* is forgotten (schedule, claim_task, cleanup, segment_deleter).
Accounting ==
  /\ num_working_ = Cardinality(Working)
  /\ \A c \in task_type_e : classes_[c] = Cardinality(WorkingOn(c))
  /\ segments_in_flight_ = Cardinality(Live)
  /\ num_submitted_ = num_done_ + num_working_ + Cardinality(tasks_)

\* The memory budget and the class limits are kept whatever tasks arrive and
\* however they hand their segments on (the assertion of get_segments).
Budget ==
  /\ segments_in_flight_ \in 0..MaxSegments
  /\ \A c \in task_type_e : classes_[c] \in 0..Limit[c]

\* No two workers execute the same task object, and a queued task is not being
\* executed: claim_task hands a task out once.
OneExecutor ==
  /\ \A th1, th2 \in Thread :
        cur[th1] # NoTask /\ cur[th1] = cur[th2] => th1 = th2
  /\ \A th \in Thread : cur[th] \notin tasks_

\* A worker leaves a run only when nothing is queued and no body is running
\* that could still schedule work (the two tests at the top of claim_task), and
\* none is left behind when run() has returned.
NoEarlyLeave ==
  /\ main = "idle" => \A th \in Thread : pc[th] = "off"
  /\ main = "joining" /\ (\E th \in Thread : pc[th] = "off")
        => tasks_ = {} /\ num_working_ = 0

\* Where the owners of segments and the relatives of a task are.  A segment is
\* owned by the task it was allocated for or by one it was handed to, never
\* before the first has been claimed and only until the task object is gone; a
\* running body still owns all it asked for.
Ownership ==
  /\ \A th \in Thread : cur[th] # NoTask <=> pc[th] \in {"running", "dropping"}
  /\ \A t \in tasks_ : order[t] # 0
  /\ \A th \in Thread : cur[th] # NoTask => order[cur[th]] # 0
  /\ \A t \in Task : order[t] # 0 /\ Parent[t] # NoTask
        => order[Parent[t]] # 0 /\ Parent[t] \notin tasks_
  /\ \A s \in Segment : \A t \in refs[s] :
        /\ t \in tasks_ \/ \E th \in Thread : cur[th] = t
        /\ s \in HandedOver(t) \/ (s \in Allocated(t) /\ t \notin tasks_)
  /\ \A th \in Working : \A s \in Allocated(cur[th]) : cur[th] \in refs[s]

\* The inductive invariant behind the properties below and the refinement.
IInv ==
  /\ TypeOK
  /\ Accounting
  /\ Budget
  /\ OneExecutor
  /\ Ownership
  /\ NoEarlyLeave

\* Queued tasks never block each other for good: when no body runs and no
\* finished task is still being released, claim_task finds something to do.
NeverStuck ==
  tasks_ # {} /\ (\A th \in Thread : pc[th] \notin {"running", "dropping"})
     => Claimable

\* While a worker sleeps another one is awake or at work, so somebody is left to
\* wake it: run() cannot hang.
NeverAllAsleep ==
  (\E th \in Thread : pc[th] = "waiting")
     => \E th \in Thread : pc[th] \in {"claiming", "running", "dropping"}

\* A wake-up is never lost: if a worker sleeps although claim_task would find a
\* task, another worker is already on its way to claim_task and need not wait
\* for a task body to end.  That holds as long as no task of this agenda has asked
\* for segments, as in a listing.  With several requirements in the queue a claim
\* that takes the last task of one exposes those of the next to claim_task, which
\* wakes nobody for them.
NoSegmentsAsked == \A t \in Task : order[t] # 0 => Needs[t] = 0

NoLostWakeup ==
  /\ NeverAllAsleep
  /\ NoSegmentsAsked /\ Claimable /\ (\E th \in Thread : pc[th] = "waiting")
       => \E th \in Thread : pc[th] \in {"claiming", "dropping"}

\* When run() returns, every task submitted so far has been executed and its
\* segments are free again, so tasks_count() is 0 in its caller.
RunFinishesAll ==
  [][main = "joining" /\ main' = "idle" =>
        /\ tasks_ = {}
        /\ num_done_ = num_submitted_
        /\ segments_in_flight_ = 0]_vars

\* run() returns.
RunReturns == main = "joining" ~> main = "idle"

\* The abstract pool of WorkPool: a task is pending while it is queued, active
\* while a body runs, finished afterwards.
Pool == INSTANCE WorkPool WITH
  pending <- tasks_,
  active <- {cur[th] : th \in Working},
  finished <- {t \in Task : order[t] # 0 /\ t \notin tasks_
                            /\ \A th \in Working : cur[th] # t}

\* Every step of the executor is a step of that pool or leaves it alone: each
\* scheduled task is executed once, by one worker, and run() comes back only
\* when all are done (schedule, claim_task, cleanup, run).
ImplementsPool == Pool!Spec

\* The comment in claim_task: "Unbound tasks are allowed to exceed their limits
\* and borrow threads from other classes", so a worker does not go to sleep on
\* an unbound task it could take.
UnboundMayBorrow ==
  [][\A th \in Thread : pc[th] = "claiming" /\ pc'[th] = "waiting" =>
        ~\E t \in tasks_ : ClassOf[t] = taskUnbound /\ InScannedBucket(t)]_vars
=============================================================================
