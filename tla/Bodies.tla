------------------------------- MODULE Bodies -------------------------------
(***************************************************************************)
(* The pool of WorkPool with a look into the bodies it executes: how far   *)
(* each has come, at which try, and which of them failed.  The loop of     *)
(* task_executor::operator() (es3/agenda.cpp) starts a body that ended     *)
(* with a warning again and gives up on any other error.                   *)
(***************************************************************************)
EXTENDS WorkPool, Integers

CONSTANT MaxAttempts  \* tries of a task (10 in the code)

VARIABLES
  failed,   \* the tasks num_failed_ counts
  attempt,  \* the try a task is at, 0 before it is started
  pc        \* how far the body of a task has come

bodies == <<failed, attempt, pc>>

InitBodies ==
  /\ Init
  /\ failed = {}
  /\ attempt = [t \in Task |-> 0]
  /\ pc = [t \in Task |-> "none"]

\* A worker takes the task and calls its body.
Enter(t) ==
  /\ Start(t)
  /\ pc' = [pc EXCEPT ![t] = "entry"]
  /\ attempt' = [attempt EXCEPT ![t] = 1]
  /\ UNCHANGED failed

Goto(t, where) ==
  /\ pc' = [pc EXCEPT ![t] = where]
  /\ UNCHANGED <<vars, failed, attempt>>

\* The body schedules another task.
Spawn(u) == Schedule(u) /\ UNCHANGED bodies

\* The body is over: it returned, or it threw what the executor gives up on.
End(t, ok) ==
  /\ Finish(t)
  /\ failed' = IF ok THEN failed ELSE failed \cup {t}
  /\ pc' = [pc EXCEPT ![t] = "none"]
  /\ UNCHANGED attempt

\* Mutant: one try too many.
Warn_OneMore(t) ==
  \/ /\ attempt[t] <= MaxAttempts
     /\ attempt' = [attempt EXCEPT ![t] = @ + 1]
     /\ pc' = [pc EXCEPT ![t] = "entry"]
     /\ UNCHANGED <<vars, failed>>
  \/ attempt[t] > MaxAttempts /\ End(t, FALSE)

\* Mutant: the executor never gives up, its count of tries starts over.
Warn_Endless(t) ==
  /\ attempt' = [attempt EXCEPT ![t] = IF @ < MaxAttempts THEN @ + 1 ELSE 1]
  /\ pc' = [pc EXCEPT ![t] = "entry"]
  /\ UNCHANGED <<vars, failed>>

\* The body threw errWarn: it starts over, or fails at the last try.
Warn(t) ==
  \/ /\ attempt[t] < MaxAttempts
     /\ attempt' = [attempt EXCEPT ![t] = @ + 1]
     /\ pc' = [pc EXCEPT ![t] = "entry"]
     /\ UNCHANGED <<vars, failed>>
  \/ attempt[t] = MaxAttempts /\ End(t, FALSE)
=============================================================================
