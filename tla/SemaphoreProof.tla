-------------------------- MODULE SemaphoreProof --------------------------
(***************************************************************************)
(* Theorems about Semaphores, for any finite number of tasks.              *)
(*                                                                         *)
(* The invariants need one another: the counters are exact because the     *)
(* wait queue is empty whenever a task runs, and who holds the semaphore   *)
(* follows from the counters, because ReleaseSemaphore decides by them.    *)
(* Together they are inductive.  The holds are counted as the cardinality  *)
(* of Taken, so that one step adds or removes one element.                 *)
(***************************************************************************)
EXTENDS Semaphores, FiniteSetTheorems, TLAPS

Inv == TypeOK /\ CountsExact /\ OwnerExact /\ WaiterStopsTheRest
---------------------------------------------------------------------------
(***************************************************************************)
(* Counting holds.                                                         *)
(***************************************************************************)
\* Taken for the holds h.
TakenBy(h) == {x \in Task \X (1..MaxHold) : x[2] <= h[x[1]]}

\* It is finite, and empty when nobody holds anything.
LEMMA TakenByFinite ==
  ASSUME NEW h \in [Task -> 0..MaxHold]
  PROVE  /\ IsFiniteSet(TakenBy(h)) /\ Cardinality(TakenBy(h)) \in Nat
         /\ Cardinality(TakenBy(h)) = 0 <=> \A t \in Task : h[t] = 0
<1>1. IsFiniteSet(Task \X (1..MaxHold))
  <2>1. IsFiniteSet(Task) /\ IsFiniteSet(1..MaxHold)
    BY SemAssumption, FS_Interval
  <2> QED
    BY <2>1, FS_Product
<1>2. IsFiniteSet(TakenBy(h))
  BY <1>1, FS_Subset DEF TakenBy
<1>3. Cardinality(TakenBy(h)) = 0 <=> TakenBy(h) = {}
  BY <1>2, FS_EmptySet
<1>4. TakenBy(h) = {} <=> \A t \in Task : h[t] = 0
  <2>1. ASSUME TakenBy(h) = {}, NEW t \in Task PROVE h[t] = 0
    <3>1. h[t] \in 0..MaxHold /\ <<t, 1>> \notin TakenBy(h)
      BY <2>1
    <3> QED
      BY <3>1, SemAssumption DEF TakenBy
  <2>2. ASSUME \A t \in Task : h[t] = 0 PROVE TakenBy(h) = {}
    BY <2>2 DEF TakenBy
  <2> QED
    BY <2>1, <2>2
<1> QED
  BY <1>2, <1>3, <1>4, FS_CardinalityType

\* The same of the state.
LEMMA TakenFinite ==
  ASSUME TypeOK
  PROVE  /\ IsFiniteSet(Taken) /\ Cardinality(Taken) \in Nat
         /\ Cardinality(Taken) = 0 <=> \A t \in Task : holds[t] = 0
<1>1. Taken = TakenBy(holds) /\ holds \in [Task -> 0..MaxHold]
  BY DEF Taken, TakenBy, TypeOK
<1> QED
  BY <1>1, TakenByFinite

\* Obtaining adds one element.
LEMMA TakenGrows ==
  ASSUME TypeOK, NEW t \in Task, holds[t] < MaxHold,
         holds' = [holds EXCEPT ![t] = @ + 1]
  PROVE  /\ Cardinality(Taken') = Cardinality(Taken) + 1
         /\ holds' \in [Task -> 0..MaxHold]
<1>1. holds[t] \in 0..MaxHold /\ holds[t] + 1 \in 1..MaxHold
  BY SemAssumption DEF TypeOK
<1>2. \A u \in Task : holds'[u] = IF u = t THEN holds[t] + 1 ELSE holds[u]
  BY DEF TypeOK
<1>3. <<t, holds[t] + 1>> \notin Taken
  BY <1>1 DEF Taken
<1>4. Taken' = Taken \cup {<<t, holds[t] + 1>>}
  <2>1. ASSUME NEW u \in Task, NEW i \in 1..MaxHold
        PROVE  i <= holds'[u] <=> i <= holds[u] \/ (u = t /\ i = holds[t] + 1)
    BY <1>1, <1>2 DEF TypeOK
  <2> QED
    BY <1>1, <2>1 DEF Taken
<1>5. holds' \in [Task -> 0..MaxHold]
  BY <1>1 DEF TypeOK
<1> QED
  BY <1>3, <1>4, <1>5, TakenFinite, FS_AddElement

\* Releasing removes one.
LEMMA TakenShrinks ==
  ASSUME TypeOK, NEW t \in Task, holds[t] > 0,
         holds' = [holds EXCEPT ![t] = @ - 1]
  PROVE  /\ Cardinality(Taken') = Cardinality(Taken) - 1
         /\ holds' \in [Task -> 0..MaxHold]
<1>1. holds[t] \in 1..MaxHold
  BY SemAssumption DEF TypeOK
<1>2. \A u \in Task : holds'[u] = IF u = t THEN holds[t] - 1 ELSE holds[u]
  BY DEF TypeOK
<1>3. <<t, holds[t]>> \in Taken
  BY <1>1 DEF Taken
<1>4. Taken' = Taken \ {<<t, holds[t]>>}
  <2>1. ASSUME NEW u \in Task, NEW i \in 1..MaxHold
        PROVE  i <= holds'[u] <=> i <= holds[u] /\ ~(u = t /\ i = holds[t])
    BY <1>1, <1>2 DEF TypeOK
  <2> QED
    BY <2>1 DEF Taken
<1>5. holds' \in [Task -> 0..MaxHold]
  <2>1. holds[t] - 1 \in 0..MaxHold
    BY <1>1, SemAssumption
  <2> QED
    BY <2>1 DEF TypeOK
<1> QED
  BY <1>3, <1>4, <1>5, TakenFinite, FS_RemoveElement
---------------------------------------------------------------------------
(***************************************************************************)
(* The invariant.                                                          *)
(***************************************************************************)
\* InitSemaphore makes a free semaphore.
LEMMA InvInit == Init => Inv
<1> SUFFICES ASSUME Init PROVE Inv
  OBVIOUS
<1>1. TypeOK
  BY SemAssumption DEF Init, TypeOK
<1>2. CountsExact
  BY <1>1, TakenFinite DEF Init, CountsExact
<1> QED
  BY <1>1, <1>2 DEF Init, Inv, OwnerExact, WaiterStopsTheRest

\* A running task finds nobody waiting, and a free semaphore held by nobody.
LEMMA RunningFacts ==
  ASSUME Inv, NEW t, Running(t)
  PROVE  /\ waitQueue = <<>> /\ spinning = NoTask /\ queueCount = nestCount - 1
         /\ queueCount = -1 <=> type = "NONE"
         /\ \A u \in Task : holds[u] > 0 => nestCount > 0
<1>1. waitQueue = <<>> /\ spinning = NoTask
  BY DEF Inv, Running, WaiterStopsTheRest
<1>2. queueCount = nestCount - 1 /\ nestCount \in Nat
  BY <1>1 DEF Inv, CountsExact, TypeOK
<1>3. nestCount = 0 <=> \A u \in Task : holds[u] = 0
  BY TakenFinite DEF Inv, CountsExact
<1>4. \A u \in Task : holds[u] \in 0..MaxHold
  BY DEF Inv, TypeOK
<1> QED
  BY <1>1, <1>2, <1>3, <1>4 DEF Inv, OwnerExact

\* Taking the semaphore once more keeps the invariant, if it is free, or already
\* held the way it is taken.
LEMMA TakeKeeps ==
  ASSUME Inv, NEW t \in Task, MayTake(t), NEW o, NEW ty, Take(t, o, ty),
         queueCount' = queueCount + 1,
         UNCHANGED <<waitQueue, sigSem, spin>>,
         \/ type = "NONE" /\ ty = "SIMPLE" /\ o = t
         \/ type = "NONE" /\ ty = "SHARED" /\ o = NoTask
         \/ type = "SIMPLE" /\ owner = t /\ ty = type /\ o = owner
         \/ type = "SHARED" /\ ty = type /\ o = owner
  PROVE  Inv'
<1> USE DEF Inv
<1>1. holds[t] < MaxHold /\ holds' = [holds EXCEPT ![t] = @ + 1]
  BY DEF MayTake, Take
<1>2. Cardinality(Taken') = Cardinality(Taken) + 1 /\ holds' \in [Task -> 0..MaxHold]
  BY <1>1, TakenGrows
<1>3. /\ owner' = o /\ type' = ty /\ nestCount' = nestCount + 1
      /\ waitQueue = <<>> /\ spinning = NoTask
  BY RunningFacts DEF Take, MayTake
<1>4. TypeOK'
  BY <1>2, <1>3 DEF TypeOK, OwnerExact, spin
<1>5. CountsExact'
  BY <1>2, <1>3 DEF CountsExact, TypeOK
<1>6. \A u \in Task : holds'[u] = IF u = t THEN holds[t] + 1 ELSE holds[u]
  BY <1>1 DEF TypeOK
<1>7. holds'[t] > 0
  BY <1>6 DEF TypeOK
<1>8. OwnerExact'
  BY <1>3, <1>6, <1>7 DEF OwnerExact, Alone
<1>9. WaiterStopsTheRest'
  BY <1>3 DEF WaiterStopsTheRest, spin
<1> QED
  BY <1>4, <1>5, <1>8, <1>9

\* So do the branches Obtain and Attempt have in common,
LEMMA TakeExclusiveKeeps ==
  ASSUME Inv, NEW t \in Task, MayTake(t), TakeExclusive(t) PROVE Inv'
<1>1. queueCount = -1 <=> type = "NONE"
  BY RunningFacts DEF MayTake
<1>2. owner = t => type = "SIMPLE"
  BY SemAssumption DEF Inv, OwnerExact
<1>3. CASE queueCount = -1 /\ Take(t, t, "SIMPLE")
  BY <1>1, <1>3, TakeKeeps DEF TakeExclusive
<1>4. CASE queueCount # -1 /\ owner = t /\ Take(t, owner, type)
  BY <1>2, <1>4, TakeKeeps DEF TakeExclusive
<1> QED
  BY <1>3, <1>4 DEF TakeExclusive

\* and the shared ones.
LEMMA TakeSharedKeeps ==
  ASSUME Inv, NEW t \in Task, MayTake(t), TakeShared(t) PROVE Inv'
<1>1. queueCount = -1 <=> type = "NONE"
  BY RunningFacts DEF MayTake
<1>2. type \in {"NONE", "SIMPLE", "SHARED"} /\ owner = NoTask => type # "SIMPLE"
  BY SemAssumption DEF Inv, OwnerExact, TypeOK
<1>3. CASE queueCount = -1 /\ Take(t, NoTask, "SHARED")
  BY <1>1, <1>3, TakeKeeps DEF TakeShared
<1>4. CASE queueCount # -1 /\ owner \in {t, NoTask} /\ Take(t, owner, type)
  <2>1. \/ type = "SIMPLE" /\ owner = t
        \/ type = "SHARED"
    BY <1>1, <1>2, <1>4 DEF Inv, TypeOK
  <2> QED
    BY <1>4, <2>1, TakeKeeps DEF TakeShared
<1> QED
  BY <1>3, <1>4 DEF TakeShared

\* A task that has to wait stops, and becomes the only waiter.
LEMMA StartWaitKeeps ==
  ASSUME Inv, NEW t \in Task, MayTake(t), NEW ty \in {"SIMPLE", "SHARED"},
         StartWait(t, ty), queueCount # -1
  PROVE  Inv'
<1> USE DEF Inv
<1>1. waitQueue = <<>> /\ type # "NONE" /\ queueCount = nestCount - 1 /\ t # NoTask
  BY RunningFacts, SemAssumption DEF MayTake
<1>2. waitQueue' = <<t>> /\ spinning' = t /\ sigSem' = sigSem \ {t}
  BY <1>1 DEF StartWait, AddTail
<1>3. TypeOK'
  BY <1>2 DEF StartWait, TypeOK
<1>4. CountsExact'
  BY <1>1, <1>2 DEF StartWait, CountsExact, Taken, TypeOK
<1>5. OwnerExact'
  BY DEF StartWait, OwnerExact, Alone
<1>6. WaiterStopsTheRest'
  BY <1>1, <1>2 DEF StartWait, WaiterStopsTheRest
<1> QED
  BY <1>3, <1>4, <1>5, <1>6

\* What ReleaseSemaphore does when nobody waits: the last release frees it.
LEMMA ReleaseFacts ==
  ASSUME Inv, NEW t \in Task, ReleaseSemaphore(t)
  PROVE  /\ holds[t] > 0 /\ holds' = [holds EXCEPT ![t] = @ - 1]
         /\ holds' \in [Task -> 0..MaxHold]
         /\ nestCount > 0 /\ nestCount' = nestCount - 1 /\ queueCount' = nestCount' - 1
         /\ nestCount' = Cardinality(Taken')
         /\ waitQueue = <<>> /\ UNCHANGED <<waitQueue, sigSem, spin>>
         /\ IF nestCount' > 0 THEN UNCHANGED <<owner, type>>
                              ELSE owner' = NoTask /\ type' = "NONE"
<1> USE DEF Inv
<1>1. holds[t] > 0 /\ holds' = [holds EXCEPT ![t] = @ - 1] /\ Running(t)
  BY DEF ReleaseSemaphore
<1>2. waitQueue = <<>> /\ queueCount = nestCount - 1 /\ nestCount > 0 /\ nestCount \in Nat
  BY <1>1, RunningFacts DEF TypeOK
<1>3. Cardinality(Taken') = Cardinality(Taken) - 1 /\ holds' \in [Task -> 0..MaxHold]
  BY <1>1, TakenShrinks
<1>4. /\ nestCount' = nestCount - 1 /\ queueCount' = nestCount' - 1
      /\ UNCHANGED <<waitQueue, sigSem, spin>>
      /\ IF nestCount' > 0 THEN UNCHANGED <<owner, type>>
                           ELSE owner' = NoTask /\ type' = "NONE"
  BY <1>2 DEF ReleaseSemaphore, IsListEmpty
<1> QED
  BY <1>1, <1>2, <1>3, <1>4 DEF CountsExact

\* It keeps the invariant.
LEMMA ReleaseKeeps ==
  ASSUME Inv, NEW t \in Task, ReleaseSemaphore(t) PROVE Inv'
<1> USE DEF Inv
<1>1. /\ holds[t] > 0 /\ holds' = [holds EXCEPT ![t] = @ - 1]
      /\ holds' \in [Task -> 0..MaxHold]
      /\ nestCount > 0 /\ nestCount' = nestCount - 1 /\ queueCount' = nestCount' - 1
      /\ nestCount' = Cardinality(Taken')
      /\ waitQueue = <<>> /\ UNCHANGED <<waitQueue, sigSem, spin>>
      /\ IF nestCount' > 0 THEN UNCHANGED <<owner, type>>
                           ELSE owner' = NoTask /\ type' = "NONE"
  BY ReleaseFacts
<1>2. TypeOK'
  <2>1. nestCount' \in Nat /\ queueCount' \in Nat \cup {-1}
    BY <1>1 DEF TypeOK
  <2> QED
    BY <1>1, <2>1 DEF TypeOK, spin
<1>3. CountsExact'
  BY <1>1, <1>2 DEF CountsExact, TypeOK
<1>4. \A u \in Task : holds'[u] = IF u = t THEN holds[t] - 1 ELSE holds[u]
  BY <1>1 DEF TypeOK
<1>5. nestCount' = 0 <=> \A u \in Task : holds'[u] = 0
  <2>1. Taken' = TakenBy(holds')
    BY DEF Taken, TakenBy
  <2> QED
    BY <1>1, <2>1, TakenByFinite
<1>6. OwnerExact'
  <2>1. CASE nestCount' = 0
    <3>1. type' = "NONE" /\ owner' = NoTask
      BY <1>1, <2>1
    <3> QED
      BY <1>5, <2>1, <3>1 DEF OwnerExact
  <2>2. CASE nestCount' # 0
    <3>1. UNCHANGED <<owner, type>> /\ \E u \in Task : holds'[u] # 0
      BY <1>1, <1>2, <1>5, <2>2 DEF TypeOK
    <3>2. type # "NONE"
      BY <1>1 DEF OwnerExact
    <3>3. CASE type = "SIMPLE"
      <4>1. /\ owner \in Task /\ t = owner
            /\ \A u \in Task \ {owner} : holds'[u] = 0
        BY <1>1, <1>4, <3>3 DEF OwnerExact, Alone
      <4>2. holds'[owner] # 0 /\ holds'[owner] \in 0..MaxHold
        BY <1>1, <3>1, <4>1
      <4>3. holds'[owner] > 0
        BY <4>2
      <4> QED
        BY <3>1, <3>2, <3>3, <4>1, <4>3 DEF OwnerExact, Alone
    <3>4. CASE type = "SHARED"
      BY <3>1, <3>4 DEF OwnerExact
    <3> QED
      BY <3>2, <3>3, <3>4 DEF TypeOK
  <2> QED
    BY <2>1, <2>2
<1>7. WaiterStopsTheRest'
  BY <1>1 DEF WaiterStopsTheRest, spin, ReleaseSemaphore, Running
<1> QED
  BY <1>2, <1>3, <1>6, <1>7

\* A lap in Wait changes nothing but the place.
LEMMA LapFacts ==
  ASSUME Inv, NEW t \in Task, WaitLap(t)
  PROVE  /\ UNCHANGED <<sem, sigSem, spinning, wanted, holds>>
         /\ lap' \in {"test", "never"}
<1>1. t \notin sigSem
  BY SemAssumption DEF Inv, WaitLap, WaiterStopsTheRest
<1> QED
  BY <1>1 DEF WaitLap, sem

\* Every step keeps the invariant.
LEMMA InvStep == Inv /\ [Next]_vars => Inv'
<1> SUFFICES ASSUME Inv, [Next]_vars PROVE Inv'
  OBVIOUS
<1>1. ASSUME UNCHANGED <<sem, sigSem, spinning, wanted, holds>>,
             lap' \in {"test", "never"}
      PROVE  Inv'
  BY <1>1 DEF sem, Inv, TypeOK, CountsExact, Taken, OwnerExact, Alone,
              WaiterStopsTheRest
<1>2. CASE UNCHANGED vars
  BY <1>1, <1>2 DEF vars, spin, Inv, TypeOK
<1>3. ASSUME NEW t \in Task, ObtainSemaphore(t) PROVE Inv'
  BY <1>3, TakeExclusiveKeeps, StartWaitKeeps DEF ObtainSemaphore
<1>4. ASSUME NEW t \in Task, ObtainSemaphoreShared(t) PROVE Inv'
  BY <1>4, TakeSharedKeeps, StartWaitKeeps DEF ObtainSemaphoreShared
<1>5. ASSUME NEW t \in Task, AttemptSemaphore(t) PROVE Inv'
  BY <1>2, <1>5, TakeExclusiveKeeps DEF AttemptSemaphore
<1>6. ASSUME NEW t \in Task, AttemptSemaphoreShared(t) PROVE Inv'
  BY <1>2, <1>6, TakeSharedKeeps DEF AttemptSemaphoreShared
<1>7. ASSUME NEW t \in Task, ReleaseSemaphore(t) PROVE Inv'
  BY <1>7, ReleaseKeeps
<1>8. ASSUME NEW t \in Task, WaitLap(t) PROVE Inv'
  BY <1>1, <1>8, LapFacts
<1> QED
  BY <1>2, <1>3, <1>4, <1>5, <1>6, <1>7, <1>8 DEF Next
---------------------------------------------------------------------------
(***************************************************************************)
(* The theorems.                                                           *)
(***************************************************************************)
\* Inv holds in every state.
LEMMA InvAlways == Spec => []Inv
BY InvInit, InvStep, PTL DEF Spec

\* Every variable keeps its type: QueueCount, a UINT32 that starts at -1, never goes
\* below that.
THEOREM SemTypeCorrect == Spec => []TypeOK
<1>1. Inv => TypeOK
  BY DEF Inv
<1> QED
  BY <1>1, InvAlways, PTL

\* NestCount and QueueCount count the holders and the waiters, however obtains,
\* attempts and releases nest.
THEOREM SemCountersCorrect == Spec => []CountsExact
<1>1. Inv => CountsExact
  BY DEF Inv
<1> QED
  BY <1>1, InvAlways, PTL

\* Owner and Type say who holds the semaphore, and how.
THEOREM SemOwnerCorrect == Spec => []OwnerExact
<1>1. Inv => OwnerExact
  BY DEF Inv
<1> QED
  BY <1>1, InvAlways, PTL

\* A semaphore is waited for only by the task that has stopped all others, so that
\* the hand-over in ReleaseSemaphore is never executed.
THEOREM HandOverDead == Spec => []WaiterStopsTheRest
<1>1. Inv => WaiterStopsTheRest
  BY DEF Inv
<1> QED
  BY <1>1, InvAlways, PTL

\* Each call is a step of the abstract lock, or none.
LEMMA LockStep ==
  ASSUME Inv, [Next]_vars
  PROVE  [Lock!Next]_<<IF type = "SIMPLE" THEN owner ELSE NoTask, holds>>
<1> USE DEF Inv
<1> DEFINE writer == IF type = "SIMPLE" THEN owner ELSE NoTask
<1>1. CASE UNCHANGED <<owner, type, holds>>
  BY <1>1
<1>2. ASSUME NEW t \in Task, MayTake(t), TakeExclusive(t) PROVE Lock!Next
  <2>1. \A u \in Task : holds[u] \in 0..MaxHold
    BY DEF TypeOK
  <2>2. CASE queueCount = -1 /\ Take(t, t, "SIMPLE")
    <3>1. type = "NONE" /\ \A u \in Task : holds[u] = 0
      BY <1>2, <2>2, RunningFacts DEF MayTake, OwnerExact
    <3> QED
      BY <2>2, <3>1 DEF Take, Lock!Next, Lock!AcquireExclusive, Lock!Alone, Lock!Take
  <2>3. CASE queueCount # -1 /\ owner = t /\ Take(t, owner, type)
    <3>1. type = "SIMPLE"
      BY <2>3, SemAssumption DEF OwnerExact
    <3> QED
      BY <2>3, <3>1 DEF Take, Lock!Next, Lock!Nest, Lock!Take
  <2> QED
    BY <1>2, <2>2, <2>3 DEF TakeExclusive
<1>3. ASSUME NEW t \in Task, MayTake(t), TakeShared(t) PROVE Lock!Next
  <2>1. CASE queueCount = -1 /\ Take(t, NoTask, "SHARED")
    <3>1. type = "NONE"
      BY <1>3, <2>1, RunningFacts DEF MayTake
    <3> QED
      BY <2>1, <3>1 DEF Take, Lock!Next, Lock!AcquireShared, Lock!Take
  <2>2. CASE queueCount # -1 /\ owner \in {t, NoTask} /\ Take(t, owner, type)
    <3>1. CASE type = "SIMPLE"
      <4>1. owner = t
        BY <2>2, <3>1, SemAssumption DEF OwnerExact
      <4> QED
        BY <2>2, <3>1, <4>1 DEF Take, Lock!Next, Lock!Nest, Lock!Take
    <3>2. CASE type # "SIMPLE"
      BY <2>2, <3>2 DEF Take, Lock!Next, Lock!AcquireShared, Lock!Take
    <3> QED
      BY <3>1, <3>2
  <2> QED
    BY <1>3, <2>1, <2>2 DEF TakeShared
<1>4. ASSUME NEW t \in Task, ReleaseSemaphore(t) PROVE Lock!Next
  <2>1. /\ holds[t] > 0 /\ holds' = [holds EXCEPT ![t] = @ - 1]
        /\ holds' \in [Task -> 0..MaxHold] /\ nestCount' \in Nat
        /\ nestCount' = Cardinality(Taken')
        /\ IF nestCount' > 0 THEN UNCHANGED <<owner, type>>
                             ELSE owner' = NoTask /\ type' = "NONE"
    BY <1>4, ReleaseFacts, ReleaseKeeps DEF TypeOK
  <2>2. /\ holds[t] \in 0..MaxHold
        /\ \A u \in Task : holds'[u] = IF u = t THEN holds[t] - 1 ELSE holds[u]
    BY <2>1 DEF TypeOK
  <2>3. nestCount' = 0 <=> \A u \in Task : holds'[u] = 0
    <3>1. Taken' = TakenBy(holds')
      BY DEF Taken, TakenBy
    <3> QED
      BY <2>1, <3>1, TakenByFinite
  <2>4. writer' = IF holds[t] = 1 /\ writer = t THEN NoTask ELSE writer
    <3>1. CASE type = "SIMPLE"
      <4>1. owner = t /\ \A u \in Task \ {t} : holds'[u] = 0
        BY <2>1, <2>2, <3>1 DEF OwnerExact, Alone
      <4>2. holds'[t] = 0 <=> holds[t] = 1
        BY <2>2
      <4>3. nestCount' = 0 <=> holds[t] = 1
        BY <2>3, <4>1, <4>2
      <4> QED
        BY <2>1, <3>1, <4>1, <4>3
    <3>2. CASE type # "SIMPLE"
      BY <2>1, <3>2
    <3> QED
      BY <3>1, <3>2
  <2> QED
    BY <2>1, <2>4 DEF Lock!Next, Lock!Release
<1>5. ASSUME NEW t \in Task, NEW ty, StartWait(t, ty) PROVE UNCHANGED <<owner, type, holds>>
  BY <1>5 DEF StartWait
<1>6. ASSUME NEW t \in Task, WaitLap(t) PROVE UNCHANGED <<owner, type, holds>>
  BY <1>6, LapFacts DEF sem
<1> HIDE DEF writer
<1>7. CASE Next
  BY <1>1, <1>2, <1>3, <1>4, <1>5, <1>6, <1>7 DEF Next, ObtainSemaphore,
     ObtainSemaphoreShared, AttemptSemaphore, AttemptSemaphoreShared, vars, sem
<1>8. CASE UNCHANGED vars
  BY <1>1, <1>8 DEF vars, sem
<1> QED
  BY <1>7, <1>8

\* The semaphore implements the lock that is exclusive or shared: what its counters
\* and its two fields decide is what the lock allows.
THEOREM SemaphoreIsLock == Spec => LockSpec
<1>1. Init => Lock!Init
  BY DEF Init, Lock!Init
<1>2. Inv /\ [Next]_vars => [Lock!Next]_<<IF type = "SIMPLE" THEN owner ELSE NoTask, holds>>
  BY LockStep
<1> QED
  BY <1>1, <1>2, InvAlways, PTL DEF Spec, LockSpec, Lock!Spec
===========================================================================
