---------------------------- MODULE SharedLock ----------------------------
(***************************************************************************)
(* What a signal semaphore of exec.library promises: a lock each task may  *)
(* take several times, either for one task alone or for several tasks that *)
(* share it.                                                               *)
(***************************************************************************)
EXTENDS Naturals

CONSTANTS Task, NoTask

VARIABLES
  writer,  \* the task that has the lock for itself, NoTask if none
  holds    \* how many times each task has taken the lock

TypeOK == writer \in Task \cup {NoTask} /\ holds \in [Task -> Nat]

Init == writer = NoTask /\ holds = [t \in Task |-> 0]

Alone(t) == \A u \in Task \ {t} : holds[u] = 0

Take(t) == holds' = [holds EXCEPT ![t] = @ + 1]

\* A free lock is taken for one task alone, or shared.
AcquireExclusive(t) ==
  /\ writer = NoTask /\ Alone(t) /\ holds[t] = 0
  /\ Take(t) /\ writer' = t

AcquireShared(t) ==
  /\ writer = NoTask
  /\ Take(t) /\ UNCHANGED writer

\* Its exclusive holder may take it again, either way.
Nest(t) ==
  /\ writer = t
  /\ Take(t) /\ UNCHANGED writer

Release(t) ==
  /\ holds[t] > 0
  /\ holds' = [holds EXCEPT ![t] = @ - 1]
  /\ writer' = IF holds[t] = 1 /\ writer = t THEN NoTask ELSE writer

Next == \E t \in Task : AcquireExclusive(t) \/ AcquireShared(t) \/ Nest(t) \/ Release(t)

Spec == Init /\ [][Next]_<<writer, holds>>

\* A task that has the lock for itself is the only one that has it.
Exclusive == writer # NoTask => holds[writer] > 0 /\ Alone(writer)
===========================================================================
