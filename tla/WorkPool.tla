------------------------------ MODULE WorkPool ------------------------------
(***************************************************************************)
(* What the executor of es3 promises to the code that uses it: every task  *)
(* handed to agenda::schedule is executed by exactly one worker, from      *)
(* start to finish once, and agenda::run comes back only when all of it,   *)
(* including what running tasks scheduled meanwhile, is done.              *)
(***************************************************************************)
CONSTANTS
  Task,    \* the task objects the program may create
  NoTask,  \* the caller of run(), as the parent of a task
  Parent   \* who schedules a task

VARIABLES
  pending,   \* scheduled and not started
  active,    \* being executed
  finished,  \* executed
  main       \* the caller of run(): "idle" or "joining"

vars == <<pending, active, finished, main>>

Init ==
  /\ pending = {} /\ active = {} /\ finished = {}
  /\ main = "idle"

\* A task is scheduled once: by the command between two runs, or by the
\* running task it belongs to.
Schedule(t) ==
  /\ t \notin pending \cup active \cup finished
  /\ \/ Parent[t] = NoTask /\ main = "idle"
     \/ Parent[t] \in active
  /\ pending' = pending \cup {t}
  /\ UNCHANGED <<active, finished, main>>

Start(t) ==
  /\ main = "joining"
  /\ t \in pending
  /\ pending' = pending \ {t}
  /\ active' = active \cup {t}
  /\ UNCHANGED <<finished, main>>

Finish(t) ==
  /\ t \in active
  /\ active' = active \ {t}
  /\ finished' = finished \cup {t}
  /\ UNCHANGED <<pending, main>>

Run ==
  /\ main = "idle"
  /\ main' = "joining"
  /\ UNCHANGED <<pending, active, finished>>

Return ==
  /\ main = "joining"
  /\ pending = {} /\ active = {}
  /\ main' = "idle"
  /\ UNCHANGED <<pending, active, finished>>

Next ==
  \/ \E t \in Task : Schedule(t) \/ Start(t) \/ Finish(t)
  \/ Run
  \/ Return

Spec == Init /\ [][Next]_vars
=============================================================================
