---------------------------- MODULE Semaphores ----------------------------
(***************************************************************************)
(* A signal semaphore (lib.exec/semaphores.c).  Every operation runs       *)
(* inside Forbid, so it is one step: Sched shows that a task inside Forbid *)
(* keeps the CPU.  The exception is the Wait in the two Obtain functions,  *)
(* which is called inside Forbid as well.  Schedule does not switch there, *)
(* so WaitTask returns behind the print that says it cannot, and Wait      *)
(* tests again: the task goes round that loop and keeps the CPU.  spinning *)
(* is that task.  Interrupts are still served, but no interrupt server     *)
(* releases a semaphore or posts SIGF_SEMAPHORE.                           *)
(***************************************************************************)
EXTENDS Integers, FiniteSets, ExecLists

CONSTANTS
  Task,     \* the tasks that use the semaphore
  NoTask,   \* NULL
  MaxHold   \* bound on how often one task takes it

ASSUME SemAssumption ==
  /\ IsFiniteSet(Task)
  /\ NoTask \notin Task
  /\ MaxHold \in Nat

VARIABLES
  owner,        \* ss_Owner
  nestCount,    \* ss_NestCount
  queueCount,   \* ss_QueueCount, a UINT32: -1 stands for 2^32 - 1
  type,         \* ss_Type: "NONE" (0), "SIMPLE" or "SHARED"
  waitQueue,    \* ss_WaitQueue, as the sr_Waiter of its requests
  sigSem,       \* the tasks with SIGF_SEMAPHORE in SigRecvd
  spinning,     \* the task inside Wait, NoTask if none
  wanted,       \* what that task will set ss_Type to
  lap,          \* where in the loop of Wait it is
  holds         \* history: how often each task has obtained, and not released

sem  == <<owner, nestCount, queueCount, type, waitQueue>>
spin == <<spinning, wanted, lap>>
vars == <<sem, sigSem, spin, holds>>

\* InitSemaphore.  It leaves ss_Type alone, which nothing reads before it is set.
Init ==
  /\ owner = NoTask
  /\ nestCount = 0
  /\ queueCount = -1
  /\ type = "NONE"
  /\ waitQueue = <<>>
  /\ sigSem = {}
  /\ spinning = NoTask
  /\ wanted = "SIMPLE"
  /\ lap = "test"
  /\ holds = [t \in Task |-> 0]
---------------------------------------------------------------------------
\* A task calls these functions only while no task is stuck inside Forbid.
Running(t) == spinning = NoTask

MayTake(t) == Running(t) /\ holds[t] < MaxHold

\* The semaphore is given to t once more, as ss_Owner o and ss_Type ty.
Take(t, o, ty) ==
  /\ owner' = o
  /\ type' = ty
  /\ nestCount' = nestCount + 1
  /\ holds' = [holds EXCEPT ![t] = @ + 1]

\* The else branch of Obtain: queue a request and call Wait.
StartWait(t, ty) ==
  /\ queueCount' = queueCount + 1
  /\ sigSem' = sigSem \ {t}
  /\ waitQueue' = AddTail(waitQueue, t)
  /\ spinning' = t
  /\ wanted' = ty
  /\ lap' = "test"
  /\ UNCHANGED <<owner, nestCount, type, holds>>

\* The branches Obtain and Attempt have in common.
TakeExclusive(t) ==
  /\ queueCount' = queueCount + 1
  /\ \/ queueCount = -1 /\ Take(t, t, "SIMPLE")
     \/ queueCount # -1 /\ owner = t /\ Take(t, owner, type)
  /\ UNCHANGED <<waitQueue, sigSem, spin>>

\* Seeded fault: shared takers do not look at the owner.
Bug_TakeSharedAlways(t) ==
  /\ queueCount' = queueCount + 1
  /\ \/ queueCount = -1 /\ Take(t, NoTask, "SHARED")
     \/ queueCount # -1 /\ Take(t, owner, type)
  /\ UNCHANGED <<waitQueue, sigSem, spin>>

TakeShared(t) ==
  /\ queueCount' = queueCount + 1
  /\ \/ queueCount = -1 /\ Take(t, NoTask, "SHARED")
     \/ queueCount # -1 /\ owner \in {t, NoTask} /\ Take(t, owner, type)
  /\ UNCHANGED <<waitQueue, sigSem, spin>>

\* Seeded fault: Wait lets the other tasks run.
Bug_ObtainYields(t) ==
  /\ MayTake(t)
  /\ \/ TakeExclusive(t)
     \/ /\ queueCount # -1 /\ owner # t
        /\ queueCount' = queueCount + 1
        /\ waitQueue' = AddTail(waitQueue, t)
        /\ UNCHANGED <<owner, nestCount, type, holds, sigSem, spin>>

ObtainSemaphore(t) ==
  /\ MayTake(t)
  /\ \/ TakeExclusive(t)
     \/ queueCount # -1 /\ owner # t /\ StartWait(t, "SIMPLE")

ObtainSemaphoreShared(t) ==
  /\ MayTake(t)
  /\ \/ TakeShared(t)
     \/ queueCount # -1 /\ owner \notin {t, NoTask} /\ StartWait(t, "SHARED")

\* Seeded fault: a failed attempt undoes an increment it has not made.
Bug_AttemptUndoesTwice(t) ==
  /\ MayTake(t)
  /\ \/ TakeExclusive(t)
     \/ /\ queueCount # -1 /\ owner # t
        /\ queueCount' = queueCount - 1
        /\ UNCHANGED <<owner, nestCount, type, waitQueue, sigSem, spin, holds>>

\* A failed attempt takes its increment of ss_QueueCount back.
AttemptSemaphore(t) ==
  /\ MayTake(t)
  /\ \/ TakeExclusive(t)
     \/ queueCount # -1 /\ owner # t /\ UNCHANGED vars

AttemptSemaphoreShared(t) ==
  /\ MayTake(t)
  /\ \/ TakeShared(t)
     \/ queueCount # -1 /\ owner \notin {t, NoTask} /\ UNCHANGED vars

\* Seeded fault: owner and type survive.
Bug_ReleaseKeepsOwner(t) ==
  /\ Running(t) /\ holds[t] > 0
  /\ holds' = [holds EXCEPT ![t] = @ - 1]
  /\ nestCount' = nestCount - 1
  /\ queueCount' = queueCount - 1
  /\ UNCHANGED <<owner, type, waitQueue, sigSem, spin>>

\* The last release hands over to the first waiter, counting it in NestCount (as
\* the waiter will again), or frees the semaphore.  QueueCount >= 0 is always true
\* of a UINT32.
ReleaseSemaphore(t) ==
  /\ Running(t) /\ holds[t] > 0
  /\ holds' = [holds EXCEPT ![t] = @ - 1]
  /\ UNCHANGED spin
  /\ IF nestCount > 1
     THEN /\ nestCount' = nestCount - 1
          /\ queueCount' = queueCount - 1
          /\ UNCHANGED <<owner, type, waitQueue, sigSem>>
     ELSE IF ~IsListEmpty(waitQueue)
     THEN /\ owner' = Head(waitQueue)
          /\ sigSem' = sigSem \cup {Head(waitQueue)}
          /\ waitQueue' = Tail(waitQueue)
          /\ queueCount' = queueCount - 1
          /\ UNCHANGED <<nestCount, type>>
     ELSE /\ owner' = NoTask
          /\ queueCount' = -1
          /\ type' = "NONE"
          /\ nestCount' = nestCount - 1
          /\ UNCHANGED <<waitQueue, sigSem>>

\* A lap of the loop in Wait.  When the signal is there, Obtain goes on; when it is
\* not, WaitTask comes back to the print behind Schedule, and the loop tests again.
WaitLap(t) ==
  /\ spinning = t
  /\ UNCHANGED <<queueCount, waitQueue, wanted>>
  /\ IF lap = "test" /\ t \in sigSem
     THEN /\ Take(t, IF wanted = "SIMPLE" THEN t ELSE NoTask, wanted)
          /\ sigSem' = sigSem \ {t}
          /\ spinning' = NoTask
          /\ UNCHANGED lap
     ELSE /\ lap' = IF lap = "test" THEN "never" ELSE "test"
          /\ UNCHANGED <<owner, nestCount, type, sigSem, spinning, holds>>

Next == \E t \in Task :
  \/ ObtainSemaphore(t) \/ ObtainSemaphoreShared(t)
  \/ AttemptSemaphore(t) \/ AttemptSemaphoreShared(t)
  \/ ReleaseSemaphore(t) \/ WaitLap(t)

Spec == Init /\ [][Next]_vars

---------------------------------------------------------------------------
TypeOK ==
  /\ owner \in Task \cup {NoTask}
  /\ nestCount \in Nat
  /\ queueCount \in Nat \cup {-1}
  /\ type \in {"NONE", "SIMPLE", "SHARED"}
  /\ waitQueue \in Seq(Task)
  /\ sigSem \subseteq Task
  /\ spinning \in Task \cup {NoTask}
  /\ wanted \in {"SIMPLE", "SHARED"}
  /\ lap \in {"test", "never"}
  /\ holds \in [Task -> 0..MaxHold]

\* One element for each time a task has taken the semaphore.
Taken == {h \in Task \X (1..MaxHold) : h[2] <= holds[h[1]]}

\* The two counters agree with what the tasks have really obtained: NestCount
\* counts it, and QueueCount is one less, plus the tasks that wait.  Both go up and
\* down in different branches of five functions (semaphores.c:43,92,101,133,183).
CountsExact ==
  /\ nestCount = Cardinality(Taken)
  /\ queueCount = nestCount - 1 + Len(waitQueue)

Alone(t) == \A u \in Task \ {t} : holds[u] = 0

\* Owner and Type say how the semaphore is held: by one task alone, shared without
\* an owner, or not at all (semaphores.c:46,116,136).
OwnerExact ==
  /\ type = "SIMPLE" => owner \in Task /\ holds[owner] > 0 /\ Alone(owner)
  /\ type # "SIMPLE" => owner = NoTask
  /\ type = "NONE" <=> \A t \in Task : holds[t] = 0

\* A semaphore is waited for by the task that spins in Wait and by no other, so the
\* release that would serve it, and the hand-over in ReleaseSemaphore, cannot come.
WaiterStopsTheRest ==
  /\ waitQueue = IF spinning = NoTask THEN <<>> ELSE <<spinning>>
  /\ spinning # NoTask => type # "NONE" /\ spinning \notin sigSem

\* The semaphore is a lock that is exclusive or shared (semaphores.h SS_TYPE).
Lock == INSTANCE SharedLock WITH
          writer <- IF type = "SIMPLE" THEN owner ELSE NoTask

LockSpec == Lock!Spec
===========================================================================
