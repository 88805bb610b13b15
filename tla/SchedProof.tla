---------------------------- MODULE SchedProof ----------------------------
(***************************************************************************)
(* Theorems about Sched, for any number of tasks and signals, any          *)
(* priorities and any nesting of Forbid, when no task blocks inside        *)
(* Forbid.                                                                 *)
(*                                                                         *)
(* None of the invariants is inductive by itself: a wakeup keeps even the  *)
(* type of TaskWait only if the queues are exact; that the CPU is never    *)
(* switched inside Forbid rests on every saved TDNestCnt being -1, that on *)
(* the place a task can be interrupted at, and that a task is resumed at   *)
(* such a place on the queues again.  Inv puts them together with Control, *)
(* which says where the CPU and the tasks that lost it can be.             *)
(***************************************************************************)
EXTENDS Sched, ExecListTheorems

\* The places a task can lose the CPU at and be resumed at.
Places(t) == IF t = Idle THEN {"idle0", "idle"}
             ELSE {"user", "forbid", "test", "sleep", "load", "store", "setold"}

Unforbidden == {"idle0", "idle", "test", "sleep", "waitsched", "load", "store", "exit"}

Control ==
  /\ pc = "boot" <=> cpu = NoTask
  /\ cpu \in Tasks => pc \in Places(cpu) \cup (IF cpu = Idle THEN {}
                                               ELSE {"permit", "waitsched", "exit"})
  /\ pc \in Unforbidden => held[cpu] = 0
  /\ cpu \in Tasks /\ state[cpu] = "REMOVED" <=> pc = "exit"
  /\ cpu = NoTask => tdNest = -1
  /\ \A t \in Tasks : savedNest[t] = -1
  /\ \A t \in Tasks : state[t] = "READY" =>
       saved[t].pc \in Places(t) /\ (saved[t].pc = "forbid" => nestReg[t] = -1)
  /\ \A t \in Tasks : state[t] = "WAIT" => t # Idle /\ waitCtx[t].pc = "test"

Inv ==
  /\ TypeOK
  /\ QueuesExact
  /\ ReadySorted
  /\ NotReached
  /\ ForbidExclusive
  /\ Resumable
  /\ Control
-----------------------------------------------------------------------------
(***************************************************************************)
(* Types.                                                                  *)
(***************************************************************************)
\* Requeueing keeps TaskReady a list of tasks.
LEMMA RequeuedType ==
  ASSUME TypeOK
  PROVE  Requeued \in Seq(Tasks) /\ (~IsListEmpty(ready) => Requeued # <<>>)
<1>1. CASE Preempted
  <2>1. thisTask \in Tasks
    BY <1>1 DEF TypeOK, Preempted
  <2> QED
    BY <1>1, <2>1, EnqueueMembers DEF Requeued, TypeOK
<1>2. CASE ~Preempted
  BY <1>2 DEF Requeued, TypeOK, IsListEmpty
<1> QED
  BY <1>1, <1>2

\* A context is what Here makes.
LEMMA HereType ==
  ASSUME NEW label \in PC, NEW off \in BOOLEAN
  PROVE  Here(label, off) \in Context
BY DEF Here, Context

\* The variables Schedule may change keep their types.
LEMMA ScheduleType ==
  ASSUME TypeOK, NEW here \in Context, Schedule(here)
  PROVE  /\ thisTask' \in Tasks \cup {NoTask} /\ tdNest' \in Int
         /\ ready' \in Seq(Tasks)
         /\ state' \in [Tasks -> {"NONE", "READY", "RUN", "WAIT", "REMOVED"}]
         /\ saved' \in [Tasks -> Context] /\ savedNest' \in [Tasks -> Int]
         /\ left' \in [Tasks -> Context]
         /\ cpu' \in Tasks \cup {NoTask} /\ pc' \in PC /\ irqOff' \in BOOLEAN
<1>1. here.pc \in PC /\ here.off \in BOOLEAN
  BY DEF Context
<1>2. CASE ScheduleReturns(here)
  BY <1>1, <1>2 DEF ScheduleReturns, TypeOK
<1>3. CASE tdNest < 0 /\ ~IsListEmpty(ready) /\ Dispatch(here)
  <2> DEFINE next  == Head(Requeued)
             ctx   == IF thisTask = NoTask THEN saved
                      ELSE [saved EXCEPT ![thisTask] = here]
             nests == IF Preempted THEN [savedNest EXCEPT ![thisTask] = tdNest]
                      ELSE savedNest
  <2>1. Requeued \in Seq(Tasks) /\ Requeued # <<>>
    BY <1>3, RequeuedType
  <2>2. next \in Tasks /\ Tail(Requeued) \in Seq(Tasks)
    BY <2>1, HeadTailProperties
  <2>3. ctx \in [Tasks -> Context] /\ nests \in [Tasks -> Int]
    BY DEF TypeOK, Preempted
  <2>4. PutAway \in [Tasks -> {"NONE", "READY", "RUN", "WAIT", "REMOVED"}]
    BY DEF TypeOK, PutAway
  <2>5. left' \in [Tasks -> Context]
    BY <1>3 DEF Dispatch, TypeOK
  <2>6. /\ ready' = Tail(Requeued) /\ state' = [PutAway EXCEPT ![next] = "RUN"]
        /\ saved' = ctx /\ savedNest' = nests /\ tdNest' = nests[next]
        /\ thisTask' = next /\ cpu' = next
        /\ pc' = ctx[next].pc /\ irqOff' = ctx[next].off
    BY <1>3 DEF Dispatch
  <2>7. ctx[next].pc \in PC /\ ctx[next].off \in BOOLEAN
    BY <2>2, <2>3 DEF Context
  <2> HIDE DEF next, ctx, nests
  <2> QED
    BY <2>2, <2>3, <2>4, <2>5, <2>6, <2>7
<1> QED
  BY <1>2, <1>3 DEF Schedule

\* The variables a wakeup may change keep their types.
WakeupTyped ==
  /\ waiting' \in Seq(Tasks) /\ ready' \in Seq(Tasks)
  /\ state' \in [Tasks -> {"NONE", "READY", "RUN", "WAIT", "REMOVED"}]
  /\ saved' \in [Tasks -> Context]
  /\ sigRecvd' \in [Tasks -> SUBSET Sig]

\* A wakeup keeps the types.
LEMMA WakeupType ==
  ASSUME TypeOK, QueuesExact, NEW t \in Tasks, NEW signal \in SUBSET Sig,
         WakeupTask(t, signal)
  PROVE  WakeupTyped
<1>1. CASE state[t] = "WAIT"
  <2>1. ready' \in Seq(Tasks)
    BY <1>1, EnqueueMembers DEF WakeupTask, TypeOK
  <2>2. waiting' \in Seq(Tasks)
    BY <1>1, UnlinkMembers DEF WakeupTask, TypeOK, QueuesExact
  <2> QED
    BY <1>1, <2>1, <2>2 DEF WakeupTask, TypeOK, WakeupTyped
<1>2. CASE state[t] # "WAIT"
  BY <1>2 DEF WakeupTask, TypeOK, WakeupTyped
<1> QED
  BY <1>1, <1>2

\* The boot state is well typed.
LEMMA TypeInit == Init => TypeOK
<1> SUFFICES ASSUME Init PROVE TypeOK
  OBVIOUS
<1>1. \A t \in Tasks : Entry(t) \in Context
  BY DEF Entry, Context, PC
<1>2. Idle \in Tasks
  BY DEF Tasks
<1>3. ready \in Seq(Tasks) /\ waiting \in Seq(Tasks)
  BY <1>2 DEF Init
<1>4. pri \in [Tasks \cup {NoTask} -> Int]
  BY SchedAssumption DEF Init
<1> QED
  BY <1>1, <1>3, <1>4 DEF Init, TypeOK, PC

\* Every step keeps the types, given that the queues are exact.
LEMMA TypeStep ==
  ASSUME TypeOK, QueuesExact, [Next]_vars
  PROVE  TypeOK'
<1> USE DEF GoTo, At
<1>1. CASE Boot
  <2>1. Here("ponr", irqOff) \in Context
    BY HereType DEF TypeOK, PC
  <2> QED
    BY <1>1, <2>1, ScheduleType DEF Boot, TypeOK, sigs
<1>2. ASSUME NEW t \in Task, AddTask(t) PROVE TypeOK'
  <2>1. t \in Tasks /\ Entry(t) \in Context
    BY DEF Tasks, Entry, Context, PC
  <2>2. ready' \in Seq(Tasks)
    BY <1>2, <2>1, EnqueueMembers DEF AddTask, TypeOK
  <2>3. /\ state' \in [Tasks -> {"NONE", "READY", "RUN", "WAIT", "REMOVED"}]
        /\ saved' \in [Tasks -> Context] /\ left' \in [Tasks -> Context]
        /\ savedNest' \in [Tasks -> Int] /\ sigRecvd' \in [Tasks -> SUBSET Sig]
    BY <1>2, <2>1 DEF AddTask, TypeOK
  <2>4. UNCHANGED <<thisTask, tdNest, waiting, pri, waitCtx, signalSet, reg, nestReg,
                    cpus, held>>
    BY <1>2 DEF AddTask
  <2> QED
    BY <2>2, <2>3, <2>4 DEF TypeOK, cpus
<1>3. CASE TaskReturn
  BY <1>3 DEF TaskReturn, TypeOK, lists, ctxs, sigs, PC
<1>4. CASE TaskExit
  <2>1. Here("notreached", irqOff) \in Context
    BY HereType DEF TypeOK, PC
  <2> QED
    BY <1>4, <2>1, ScheduleType DEF TaskExit, TypeOK, sigs
<1>5. CASE ForbidLoad
  <2>1. nestReg' \in [Tasks -> Int] /\ pc' \in PC
    BY <1>5 DEF ForbidLoad, TypeOK, PC
  <2> QED
    BY <1>5, <2>1 DEF ForbidLoad, TypeOK, lists, ctxs, sigs
<1>6. CASE ForbidStore
  BY <1>6 DEF ForbidStore, TypeOK, lists, ctxs, sigs, PC
<1>7. CASE PermitLoad
  BY <1>7 DEF PermitLoad, TypeOK, lists, ctxs, sigs, PC
<1>8. CASE PermitStore
  BY <1>8 DEF PermitStore, TypeOK, lists, ctxs, sigs, PC
<1>9. CASE Disable \/ Enable
  BY <1>9 DEF Disable, Enable, TypeOK, lists, ctxs, sigs
<1>10. ASSUME NEW S \in SUBSET Sig, WaitCall(S) \/ SetSignalLoad(S) PROVE TypeOK'
  BY <1>10 DEF WaitCall, SetSignalLoad, TypeOK, lists, ctxs, PC
<1>11. CASE WaitTest
  BY <1>11 DEF WaitTest, TypeOK, lists, ctxs, sigs, PC
<1>12. CASE WaitSleep
  <2>1. Here("test", irqOff) \in Context
    BY HereType DEF TypeOK, PC
  <2>2. waiting' \in Seq(Tasks)
    BY <1>12, AddHeadMembers DEF WaitSleep, TypeOK
  <2> QED
    BY <1>12, <2>1, <2>2 DEF WaitSleep, TypeOK, sigs, PC
<1>13. CASE WaitSchedule
  <2>1. Here("never", irqOff) \in Context
    BY HereType DEF TypeOK, PC
  <2> QED
    BY <1>13, <2>1, ScheduleType DEF WaitSchedule, TypeOK, sigs
<1>14. CASE WaitLoad \/ WaitStore
  <2>1. CASE WaitLoad
    BY <2>1 DEF WaitLoad, TypeOK, lists, ctxs, PC
  <2>2. CASE WaitStore
    BY <2>2 DEF WaitStore, TypeOK, lists, ctxs, PC
  <2> QED
    BY <1>14, <2>1, <2>2
<1>15. ASSUME NEW S \in SUBSET Sig, SetSignalStore(S) PROVE TypeOK'
  BY <1>15 DEF SetSignalStore, TypeOK, lists, ctxs, PC
<1>16. ASSUME NEW t \in Task, NEW S \in SUBSET Sig, Signal(t, S) PROVE TypeOK'
  <2>1. t \in Tasks
    BY DEF Tasks
  <2> QED
    BY <1>16, <2>1, WakeupType DEF Signal, TypeOK, cpus, WakeupTyped
<1>17. ASSUME NEW p \in Int, NEW label \in PC, SetTaskPri(p, label) PROVE TypeOK'
  <2>1. Here(label, irqOff) \in Context
    BY HereType DEF TypeOK
  <2> QED
    BY <1>17, <2>1, ScheduleType DEF SetTaskPri, TypeOK, sigs
<1>18. CASE IdleStart \/ \E p \in NewPri : ChangePri(p)
  BY <1>17, <1>18, SchedAssumption DEF IdleStart, ChangePri, PC, IdlePri
<1>19. CASE Interrupt
  <2>1. WakeupTyped
    <3>1. CASE UNCHANGED <<lists, state, saved, sigRecvd>>
      BY <3>1 DEF TypeOK, lists, WakeupTyped
    <3>2. ASSUME NEW t \in Task, NEW S \in SUBSET Sig, WakeupTask(t, S)
          PROVE  WakeupTyped
      BY <3>2, WakeupType DEF Tasks
    <3> QED
      BY <1>19, <3>1, <3>2 DEF Interrupt
  <2> QED
    BY <1>19, <2>1 DEF Interrupt, TypeOK, WakeupTyped
<1>20. CASE IRQ_Tick
  <2>1. Here(pc, FALSE) \in Context
    BY HereType DEF TypeOK
  <2> QED
    BY <1>20, <2>1, ScheduleType DEF IRQ_Tick, TypeOK, sigs
<1>21. CASE UNCHANGED vars
  BY <1>21 DEF vars, lists, ctxs, sigs, cpus, TypeOK
<1> QED
  BY <1>1, <1>2, <1>3, <1>4, <1>5, <1>6, <1>7, <1>8, <1>9, <1>10, <1>11, <1>12,
     <1>13, <1>14, <1>15, <1>16, <1>18, <1>19, <1>20, <1>21 DEF Next, TaskStep
-----------------------------------------------------------------------------
(***************************************************************************)
(* The scheduler's steps.                                                  *)
(***************************************************************************)

\* Where the CPU may be switched, the running task is not inside Forbid.
LEMMA SwitchableMeansUnforbidden ==
  ASSUME Inv, tdNest < 0
  PROVE  /\ tdNest = -1 /\ pc # "permit"
         /\ \A t \in Tasks : held[t] = 0
<1>1. CASE cpu = NoTask
  BY <1>1, SchedAssumption DEF Inv, Control, ForbidExclusive
<1>2. CASE cpu \in Tasks
  <2>1. held[cpu] \in Nat /\ tdNest = IF pc = "permit" THEN held[cpu] ELSE held[cpu] - 1
    BY <1>2 DEF Inv, TypeOK, ForbidExclusive
  <2>2. pc # "permit" /\ held[cpu] = 0 /\ tdNest = -1
    BY <2>1
  <2> QED
    BY <2>2 DEF Inv, ForbidExclusive
<1> QED
  BY <1>1, <1>2 DEF Inv, TypeOK

\* TaskReady with thisTask put back: all that can run, once each, in order.
LEMMA RequeuedFacts ==
  ASSUME Inv
  PROVE  /\ Requeued \in Seq(Tasks) /\ Distinct(Requeued)
         /\ SortedBy(Requeued, pri)
         /\ ToSet(Requeued) =
              {t \in Tasks : state[t] = "READY" \/ (Preempted /\ t = thisTask)}
<1> USE DEF Inv
<1>1. \A t \in Tasks : pri[t] \in Int
  BY DEF TypeOK
<1>2. CASE Preempted
  <2>1. thisTask \in Tasks /\ thisTask \notin ToSet(ready)
    BY <1>2 DEF TypeOK, Preempted, QueuesExact
  <2>2. ready \in Seq(Tasks) /\ Requeued = Enqueue(ready, thisTask, pri)
    BY <1>2 DEF TypeOK, Requeued
  <2>3. Requeued \in Seq(Tasks) /\ ToSet(Requeued) = ToSet(ready) \cup {thisTask}
    BY <2>1, <2>2, EnqueueMembers
  <2>4. Distinct(Requeued)
    BY <2>1, <2>2, EnqueueDistinct DEF QueuesExact
  <2>5. SortedBy(Requeued, pri)
    BY <1>1, <2>1, <2>2, EnqueueSorted DEF ReadySorted
  <2> QED
    BY <1>2, <2>1, <2>3, <2>4, <2>5 DEF QueuesExact
<1>3. CASE ~Preempted
  BY <1>3 DEF Requeued, QueuesExact, ReadySorted, TypeOK
<1> QED
  BY <1>2, <1>3

\* A switch keeps the invariant, if thisTask is saved at a place it can be
\* resumed at.
LEMMA DispatchKeeps ==
  ASSUME Inv, TypeOK', NEW here \in Context,
         tdNest < 0, ~IsListEmpty(ready), Dispatch(here),
         UNCHANGED <<waiting, waitCtx, nestReg, held>>,
         \A t \in Tasks : pri'[t] = pri[t],
         Preempted => /\ here.pc \in Places(thisTask)
                      /\ here.pc = "forbid" => nestReg[thisTask] = -1
  PROVE  Inv'
<1> DEFINE next  == Head(Requeued)
           ctx   == IF thisTask = NoTask THEN saved
                    ELSE [saved EXCEPT ![thisTask] = here]
           nests == IF Preempted THEN [savedNest EXCEPT ![thisTask] = tdNest]
                    ELSE savedNest
<1>1. /\ ready' = Tail(Requeued) /\ state' = [PutAway EXCEPT ![next] = "RUN"]
      /\ saved' = ctx /\ savedNest' = nests /\ tdNest' = nests[next]
      /\ left' = IF thisTask = NoTask THEN left ELSE [left EXCEPT ![thisTask] = here]
      /\ thisTask' = next /\ cpu' = next
      /\ pc' = ctx[next].pc /\ irqOff' = ctx[next].off
  BY DEF Dispatch
<1>2. /\ Requeued \in Seq(Tasks) /\ Requeued # <<>> /\ Distinct(Requeued)
      /\ SortedBy(Requeued, pri)
      /\ ToSet(Requeued) =
           {t \in Tasks : state[t] = "READY" \/ (Preempted /\ t = thisTask)}
  BY RequeuedFacts, RequeuedType DEF Inv
<1>3. /\ next \in ToSet(Requeued) /\ next \in Tasks
      /\ Tail(Requeued) \in Seq(Tasks) /\ Distinct(Tail(Requeued))
      /\ ToSet(Tail(Requeued)) = ToSet(Requeued) \ {next}
      /\ SortedBy(Tail(Requeued), pri)
  BY <1>2, TailOfList
<1> HIDE DEF next, ctx, nests
<1>4. tdNest = -1 /\ \A t \in Tasks : held[t] = 0
  BY SwitchableMeansUnforbidden
<1>5. \A t \in Tasks : state'[t] = IF t = next THEN "RUN" ELSE PutAway[t]
  BY <1>1 DEF PutAway
<1>6. \A t \in Tasks : /\ state[t] \in {"RUN", "REMOVED"} <=> t = thisTask
                       /\ state[t] \in {"NONE", "READY", "RUN", "WAIT", "REMOVED"}
  BY DEF Inv, QueuesExact, TypeOK
<1>7. \A t \in Tasks : state'[t] = "READY" <=> t \in ToSet(Tail(Requeued))
  BY <1>2, <1>3, <1>5, <1>6 DEF PutAway, Preempted
<1>8. \A t \in Tasks : state'[t] = "WAIT" <=> state[t] = "WAIT"
  BY <1>2, <1>3, <1>5, <1>6 DEF PutAway, Preempted
<1>9. \A t \in Tasks : state'[t] \in {"RUN", "REMOVED"} <=> t = next
  BY <1>2, <1>3, <1>5, <1>6 DEF PutAway, Preempted
<1>10. NoTask \notin Tasks
  BY SchedAssumption
<1>11. \A t \in Tasks : ctx[t] = IF t = thisTask THEN here ELSE saved[t]
  BY <1>10 DEF ctx, Inv, TypeOK
<1>12. \A t \in Tasks : /\ t = thisTask => left'[t] = here
                        /\ t # thisTask => left'[t] = left[t]
  BY <1>1, <1>10 DEF Inv, TypeOK
<1>13. \A t \in Tasks : nests[t] = -1
  BY <1>4 DEF nests, Inv, Control, TypeOK, Preempted
<1>14. \A t \in ToSet(Requeued) :
         ctx[t].pc \in Places(t) /\ (ctx[t].pc = "forbid" => nestReg[t] = -1)
  BY <1>2, <1>6, <1>11 DEF Inv, Control
<1>15. pc' \in Places(next) /\ (pc' = "forbid" => nestReg[next] = -1)
  BY <1>1, <1>3, <1>14
<1>16. QueuesExact'
  <2>1. ToSet(ready') = {t \in Tasks : state'[t] = "READY"}
    BY <1>1, <1>2, <1>3, <1>7
  <2>2. waiting' = waiting /\ ToSet(waiting) = {t \in Tasks : state[t] = "WAIT"}
    BY DEF Inv, QueuesExact
  <2>3. ToSet(waiting') = {t \in Tasks : state'[t] = "WAIT"}
    BY <1>8, <2>2
  <2>4. Distinct(ready') /\ Distinct(waiting')
    BY <1>1, <1>3, <2>2 DEF Inv, QueuesExact
  <2>5. thisTask' = IF pc' \in {"boot", "waitsched", "never"} THEN NoTask ELSE cpu'
    BY <1>1, <1>15 DEF Places
  <2>6. \A t \in Tasks : state'[t] \in {"RUN", "REMOVED"} <=> t = thisTask'
    BY <1>1, <1>9
  <2> QED
    BY <2>1, <2>3, <2>4, <2>5, <2>6 DEF QueuesExact
<1>17. ReadySorted'
  <2>1. \A i \in 1..Len(ready') : ready'[i] \in Tasks
    BY <1>1, <1>3, ElementOfSeq
  <2> QED
    BY <1>1, <1>3, <2>1 DEF ReadySorted, SortedBy
<1>18. NotReached'
  <2>1. state[Idle] \in {"READY", "RUN"} /\ Idle \in Tasks
    BY DEF Inv, NotReached, Tasks
  <2>2. state'[Idle] \in {"READY", "RUN"}
    BY <1>5, <1>6, <1>10, <2>1 DEF PutAway, Preempted
  <2> QED
    BY <1>15, <2>2 DEF NotReached, Places
<1>19. ForbidExclusive'
  BY <1>1, <1>3, <1>4, <1>13, <1>15 DEF ForbidExclusive, Places
<1>20. Resumable'
  <2>1. ASSUME NEW t \in Tasks, state'[t] = "READY" PROVE saved'[t] = left'[t]
    <3>1. t = thisTask \/ state[t] = "READY"
      BY <1>2, <1>3, <1>7, <2>1
    <3> QED
      BY <1>1, <1>11, <1>12, <3>1 DEF Inv, Resumable
  <2>2. ASSUME NEW t \in Tasks, state'[t] = "WAIT" PROVE waitCtx'[t] = left'[t]
    <3>1. state[t] = "WAIT" /\ t # thisTask
      BY <1>6, <1>8, <2>2
    <3> QED
      BY <1>12, <3>1 DEF Inv, Resumable
  <2> QED
    BY <2>1, <2>2 DEF Resumable
<1>21. Control'
  <2>1. cpu' \in Tasks /\ cpu' # NoTask /\ pc' \in Places(cpu') /\ state'[cpu'] = "RUN"
    BY <1>1, <1>3, <1>5, <1>10, <1>15
  <2>2. \A t \in Tasks : state'[t] = "READY" =>
          saved'[t].pc \in Places(t) /\ (saved'[t].pc = "forbid" => nestReg'[t] = -1)
    BY <1>1, <1>3, <1>7, <1>14
  <2>3. \A t \in Tasks : state'[t] = "WAIT" => t # Idle /\ waitCtx'[t].pc = "test"
    BY <1>8 DEF Inv, Control
  <2>4. \A t \in Tasks : savedNest'[t] = -1 /\ held'[t] = 0
    BY <1>1, <1>4, <1>13
  <2> QED
    BY <2>1, <2>2, <2>3, <2>4 DEF Control, Places
<1> QED
  BY <1>16, <1>17, <1>18, <1>19, <1>20, <1>21 DEF Inv

\* A wakeup moves the task from TaskWait to TaskReady with the context it left.
LEMMA WakeupKeeps ==
  ASSUME Inv, NEW t \in Tasks, NEW signal \in SUBSET Sig, WakeupTask(t, signal),
         UNCHANGED <<thisTask, tdNest, pri, waitCtx, savedNest, left, nestReg,
                     cpu, pc, held>>
  PROVE  /\ QueuesExact' /\ ReadySorted' /\ NotReached'
         /\ ForbidExclusive' /\ Resumable' /\ Control'
<1> USE DEF Inv
<1>1. CASE state[t] # "WAIT"
  <2>1. UNCHANGED <<waiting, saved, state, ready>>
    BY <1>1 DEF WakeupTask
  <2> QED
    BY <2>1 DEF QueuesExact, ReadySorted, SortedBy, Distinct, ToSet, NotReached,
                ForbidExclusive, Resumable, Control
<1>2. CASE state[t] = "WAIT"
  <2>1. /\ waiting' = Unlink(waiting, t)
        /\ saved' = [saved EXCEPT ![t] = waitCtx[t]]
        /\ state' = [state EXCEPT ![t] = "READY"]
        /\ ready' = Enqueue(ready, t, pri)
    BY <1>2 DEF WakeupTask
  <2>2. t \in ToSet(waiting) /\ t \notin ToSet(ready) /\ t # thisTask
    BY <1>2 DEF QueuesExact
  <2>3. ready \in Seq(Tasks) /\ waiting \in Seq(Tasks) /\ \A x \in Tasks : pri[x] \in Int
    BY DEF TypeOK
  <2>4. /\ ToSet(ready') = ToSet(ready) \cup {t} /\ Distinct(ready')
        /\ ready' \in Seq(Tasks)
    BY <2>1, <2>2, <2>3, EnqueueMembers, EnqueueDistinct DEF QueuesExact
  <2>5. ToSet(waiting') = ToSet(waiting) \ {t} /\ Distinct(waiting')
    BY <2>1, <2>2, <2>3, UnlinkMembers DEF QueuesExact
  <2>6. \A x \in Tasks : state'[x] = IF x = t THEN "READY" ELSE state[x]
    BY <2>1 DEF TypeOK
  <2>7. QueuesExact'
    <3>1. ToSet(ready') = {x \in Tasks : state'[x] = "READY"}
      BY <2>4, <2>6 DEF QueuesExact
    <3>2. ToSet(waiting') = {x \in Tasks : state'[x] = "WAIT"}
      BY <2>5, <2>6 DEF QueuesExact
    <3>3. \A x \in Tasks : state'[x] \in {"RUN", "REMOVED"} <=> x = thisTask'
      BY <1>2, <2>2, <2>6 DEF QueuesExact
    <3> QED
      BY <2>4, <2>5, <3>1, <3>2, <3>3 DEF QueuesExact
  <2>8. ReadySorted'
    <3>1. SortedBy(ready', pri)
      BY <2>1, <2>3, EnqueueSorted DEF ReadySorted
    <3> QED
      BY <3>1 DEF ReadySorted
  <2>9. NotReached'
    BY <1>2, <2>6 DEF NotReached, Tasks
  <2>10. ForbidExclusive'
    BY DEF ForbidExclusive
  <2>11. \A x \in Tasks : saved'[x] = IF x = t THEN waitCtx[t] ELSE saved[x]
    BY <2>1 DEF TypeOK
  <2>12. Resumable'
    BY <1>2, <2>6, <2>11 DEF Resumable
  <2>13. Control'
    <3>1. t # Idle /\ waitCtx[t].pc = "test"
      BY <1>2 DEF Control
    <3>2. \A x \in Tasks : state'[x] = "READY" =>
            saved'[x].pc \in Places(x) /\ (saved'[x].pc = "forbid" => nestReg'[x] = -1)
      BY <2>6, <2>11, <3>1 DEF Control, Places
    <3>3. \A x \in Tasks : state'[x] = "WAIT" => x # Idle /\ waitCtx'[x].pc = "test"
      BY <2>6 DEF Control
    <3>4. cpu \in Tasks /\ state'[cpu] = "REMOVED" <=> pc = "exit"
      BY <1>2, <2>6 DEF Control
    <3> QED
      BY <3>2, <3>3, <3>4 DEF Control
  <2> QED
    BY <2>7, <2>8, <2>9, <2>10, <2>12, <2>13
<1> QED
  BY <1>1, <1>2

\* A step of the running task's own code moves the CPU but no task.
LEMMA LocalStep ==
  ASSUME Inv,
         UNCHANGED <<thisTask, lists, state, saved, waitCtx, savedNest, left, cpu>>,
         \A t \in Tasks : pri'[t] = pri[t],
         pc \notin {"boot", "waitsched", "never"},
         pc' \notin {"boot", "waitsched", "never", "notreached", "ponr"}
  PROVE  QueuesExact' /\ ReadySorted' /\ NotReached' /\ Resumable'
<1> USE DEF Inv
<1>1. QueuesExact' /\ NotReached' /\ Resumable'
  BY DEF lists, QueuesExact, Distinct, ToSet, NotReached, Resumable
<1>2. ReadySorted'
  <2>1. ready' = ready /\ \A i \in 1..Len(ready) : ready[i] \in Tasks
    BY ElementOfSeq DEF lists, TypeOK
  <2> QED
    BY <2>1 DEF ReadySorted, SortedBy
<1> QED
  BY <1>1, <1>2
-----------------------------------------------------------------------------
(***************************************************************************)
(* The invariant.                                                          *)
(***************************************************************************)

\* The boot state satisfies it.
LEMMA InvInit == Init => Inv
<1> SUFFICES ASSUME Init PROVE Inv
  OBVIOUS
<1> USE SchedAssumption DEF Init
<1>1. TypeOK
  BY TypeInit
<1>2. Idle \in Tasks /\ \A t \in Tasks : t # NoTask
  BY DEF Tasks
<1>3. QueuesExact
  BY <1>2 DEF QueuesExact, Distinct, ToSet
<1>4. ReadySorted
  BY DEF ReadySorted, SortedBy
<1>5. NotReached /\ ForbidExclusive /\ Resumable
  BY <1>2 DEF NotReached, ForbidExclusive, Resumable
<1>6. Control
  BY <1>2 DEF Control, Entry, Places, Unforbidden
<1> QED
  BY <1>1, <1>3, <1>4, <1>5, <1>6 DEF Inv

\* Schedule called where only a switch is possible: nothing is forbidden, and the
\* idle task is ready if it does not run.
LEMMA ScheduleSwitches ==
  ASSUME Inv, NEW here, Schedule(here),
         pc \in {"boot", "exit", "waitsched"}
  PROVE  tdNest < 0 /\ ~IsListEmpty(ready) /\ Dispatch(here)
<1> USE DEF Inv
<1>1. tdNest = -1
  BY DEF Control, ForbidExclusive, Unforbidden, TypeOK
<1>2. state[Idle] = "READY"
  <2>1. Idle \in Tasks /\ state[Idle] \in {"READY", "RUN"} /\ Idle # NoTask
    BY SchedAssumption DEF NotReached, Tasks
  <2>2. CASE pc \in {"boot", "waitsched"}
    BY <2>1, <2>2 DEF QueuesExact
  <2>3. CASE pc = "exit"
    BY <2>1, <2>3 DEF QueuesExact, Control
  <2> QED
    BY <2>2, <2>3
<1>3. ready # <<>>
  <2>1. Idle \in ToSet(ready)
    BY <1>2 DEF QueuesExact, Tasks
  <2> QED
    BY <2>1 DEF ToSet
<1> QED
  BY <1>1, <1>3 DEF Schedule, IsListEmpty

\* Every step keeps the invariant.
LEMMA InvStep ==
  ASSUME BlockInForbid = FALSE, Inv, [Next]_vars
  PROVE  Inv'
<1> USE DEF Inv, GoTo, At
<1>0. TypeOK'
  BY TypeStep
<1>1. CASE Boot
  <2> DEFINE here == Here("ponr", irqOff)
  <2>1. Schedule(here) /\ here \in Context
    BY <1>1, HereType DEF Boot, TypeOK, PC
  <2> HIDE DEF here
  <2>2. tdNest < 0 /\ ~IsListEmpty(ready) /\ Dispatch(here)
    BY <1>1, <2>1, ScheduleSwitches DEF Boot
  <2>3. ~Preempted
    BY <1>1 DEF Boot, Preempted, QueuesExact
  <2> QED
    BY <1>0, <1>1, <2>1, <2>2, <2>3, DispatchKeeps DEF Boot
<1>2. ASSUME NEW t \in Task, AddTask(t) PROVE Inv'
  <2>1. t \in Tasks /\ t # Idle /\ t # NoTask
    BY SchedAssumption DEF Tasks
  <2>2. /\ t \notin ToSet(ready) /\ t \notin ToSet(waiting) /\ t # thisTask
        /\ state[t] = "NONE"
    BY <1>2, <2>1 DEF AddTask, QueuesExact
  <2>3. /\ ready' = Enqueue(ready, t, pri)
        /\ UNCHANGED <<thisTask, tdNest, waiting, pri, waitCtx, nestReg, cpu, pc,
                       irqOff, irq, held>>
    BY <1>2 DEF AddTask, cpus
  <2>4. \A x \in Tasks : /\ state'[x] = IF x = t THEN "READY" ELSE state[x]
                         /\ saved'[x] = IF x = t THEN Entry(t) ELSE saved[x]
                         /\ left'[x] = IF x = t THEN Entry(t) ELSE left[x]
                         /\ savedNest'[x] = IF x = t THEN -1 ELSE savedNest[x]
    BY <1>2 DEF AddTask, TypeOK
  <2>5. ready \in Seq(Tasks) /\ \A x \in Tasks : pri[x] \in Int
    BY DEF TypeOK
  <2>6. ToSet(ready') = ToSet(ready) \cup {t} /\ Distinct(ready')
    BY <2>1, <2>2, <2>3, <2>5, EnqueueMembers, EnqueueDistinct DEF QueuesExact
  <2>7. QueuesExact'
    <3>1. ToSet(ready') = {x \in Tasks : state'[x] = "READY"}
      BY <2>1, <2>4, <2>6 DEF QueuesExact
    <3>2. ToSet(waiting') = {x \in Tasks : state'[x] = "WAIT"}
      BY <2>2, <2>3, <2>4 DEF QueuesExact
    <3>3. \A x \in Tasks : state'[x] \in {"RUN", "REMOVED"} <=> x = thisTask'
      BY <2>2, <2>3, <2>4 DEF QueuesExact
    <3> QED
      BY <2>3, <2>6, <3>1, <3>2, <3>3 DEF QueuesExact
  <2>8. ReadySorted'
    BY <2>1, <2>3, <2>5, EnqueueSorted DEF ReadySorted
  <2>9. NotReached' /\ ForbidExclusive' /\ Resumable'
    BY <2>1, <2>3, <2>4 DEF NotReached, ForbidExclusive, Resumable, Tasks
  <2>10. Control'
    <3>1. cpu \in Tasks /\ state'[cpu] = "REMOVED" <=> pc = "exit"
      BY <2>2, <2>4 DEF Control
    <3>2. \A x \in Tasks : state'[x] = "READY" =>
            saved'[x].pc \in Places(x) /\ (saved'[x].pc = "forbid" => nestReg'[x] = -1)
      BY <2>1, <2>3, <2>4 DEF Control, Entry, Places
    <3>3. /\ \A x \in Tasks : state'[x] = "WAIT" => x # Idle /\ waitCtx'[x].pc = "test"
          /\ \A x \in Tasks : savedNest'[x] = -1
      BY <2>3, <2>4 DEF Control
    <3> QED
      BY <2>3, <3>1, <3>2, <3>3 DEF Control
  <2> QED
    BY <1>0, <2>7, <2>8, <2>9, <2>10
<1>3. CASE TaskReturn
  <2>1. /\ cpu \in Tasks /\ cpu # Idle /\ pc = "user" /\ held[cpu] = 0 /\ pc' = "exit"
        /\ thisTask = cpu
        /\ UNCHANGED <<thisTask, tdNest, ready, waiting, pri, saved, waitCtx, savedNest,
                       left, nestReg, held, cpu, irqOff, irq>>
    <3>1. cpu \in Tasks /\ pc = "user" /\ held[cpu] = 0 /\ pc' = "exit"
      BY <1>3 DEF TaskReturn, MayBlock
    <3>2. cpu # Idle /\ thisTask = cpu
      BY <3>1 DEF Control, Places, QueuesExact
    <3> QED
      BY <1>3, <3>1, <3>2 DEF TaskReturn, lists, ctxs
  <2>2. \A x \in Tasks : state'[x] = IF x = cpu THEN "REMOVED" ELSE state[x]
    BY <1>3 DEF TaskReturn, TypeOK
  <2>3. state[cpu] = "RUN"
    BY <2>1 DEF QueuesExact, Control
  <2>4. QueuesExact'
    <3>1. \A x \in Tasks : /\ state'[x] = "READY" <=> state[x] = "READY"
                           /\ state'[x] = "WAIT" <=> state[x] = "WAIT"
                           /\ state'[x] \in {"RUN", "REMOVED"} <=> x = thisTask
      BY <2>1, <2>2, <2>3 DEF QueuesExact
    <3> QED
      BY <2>1, <3>1 DEF QueuesExact
  <2>5. ReadySorted' /\ NotReached' /\ ForbidExclusive' /\ Resumable'
    <3>1. ReadySorted'
      BY <2>1 DEF ReadySorted
    <3>2. NotReached'
      BY <2>1, <2>2 DEF NotReached, Tasks
    <3>3. ForbidExclusive'
      BY <2>1 DEF ForbidExclusive
    <3>4. Resumable'
      BY <2>1, <2>2, <2>3 DEF Resumable
    <3> QED
      BY <3>1, <3>2, <3>3, <3>4
  <2>6. Control'
    BY <2>1, <2>2, <2>3 DEF Control, Places, Unforbidden
  <2> QED
    BY <1>0, <2>4, <2>5, <2>6
<1>4. CASE TaskExit
  <2> DEFINE here == Here("notreached", irqOff)
  <2>1. Schedule(here) /\ here \in Context
    BY <1>4, HereType DEF TaskExit, TypeOK, PC
  <2> HIDE DEF here
  <2>2. tdNest < 0 /\ ~IsListEmpty(ready) /\ Dispatch(here)
    BY <1>4, <2>1, ScheduleSwitches DEF TaskExit
  <2>3. ~Preempted
    BY <1>4 DEF TaskExit, Preempted, QueuesExact, Control
  <2> QED
    BY <1>0, <1>4, <2>1, <2>2, <2>3, DispatchKeeps DEF TaskExit
\* The actions that move only the CPU, TDNestCnt or signals.
<1> DEFINE Running(p) == p \in Places(cpu) \/ (p = "permit" /\ cpu # Idle)
<1>5. ASSUME UNCHANGED <<thisTask, lists, state, ctxs, cpu>>,
             \A t \in Tasks : pri'[t] = pri[t],
             cpu \in Tasks, Running(pc), Running(pc'),
             ForbidExclusive', pc' \in Unforbidden => held'[cpu] = 0,
             \A t \in Tasks : t # cpu => nestReg'[t] = nestReg[t]
      PROVE  Inv'
  <2>1. UNCHANGED <<thisTask, lists, state, saved, waitCtx, savedNest, left, cpu>>
    BY <1>5 DEF ctxs
  <2>2. /\ pc \notin {"boot", "waitsched", "never", "exit"}
        /\ pc' \notin {"boot", "waitsched", "never", "notreached", "ponr", "exit"}
    BY <1>5 DEF Places
  <2>3. QueuesExact' /\ ReadySorted' /\ NotReached' /\ Resumable'
    BY <1>5, <2>1, <2>2, LocalStep
  <2>4. Control'
    <3>1. cpu # NoTask /\ state[cpu] = "RUN"
      BY <1>5, <2>2, SchedAssumption DEF Control, QueuesExact
    <3>2. \A t \in Tasks : state[t] = "READY" => t # cpu
      BY <3>1
    <3>3. \A t \in Tasks : state'[t] = "READY" =>
            saved'[t].pc \in Places(t) /\ (saved'[t].pc = "forbid" => nestReg'[t] = -1)
      BY <1>5, <2>1, <3>2 DEF Control
    <3>4. \A t \in Tasks : /\ state'[t] = "WAIT" => t # Idle /\ waitCtx'[t].pc = "test"
                           /\ savedNest'[t] = -1
      BY <2>1 DEF Control
    <3> QED
      BY <1>5, <2>1, <2>2, <3>1, <3>3, <3>4 DEF Control
  <2> QED
    BY <1>0, <1>5, <2>3, <2>4
<1>6. CASE ForbidLoad
  <2>1. /\ cpu \in Tasks /\ cpu # Idle /\ pc = "user" /\ pc' = "forbid"
        /\ nestReg' = [nestReg EXCEPT ![cpu] = tdNest]
        /\ UNCHANGED <<tdNest, held, cpu>>
    BY <1>6 DEF ForbidLoad, Control, Places
  <2>2. ForbidExclusive'
    BY <2>1 DEF ForbidExclusive, TypeOK
  <2> QED
    BY <1>6, <2>1, <2>2, <1>5 DEF ForbidLoad, Places, Unforbidden, TypeOK
<1>7. CASE ForbidStore
  <2>1. /\ cpu \in Tasks /\ cpu # Idle /\ pc = "forbid" /\ pc' = "user"
        /\ tdNest' = nestReg[cpu] + 1 /\ UNCHANGED cpu
        /\ held' = [held EXCEPT ![cpu] = @ + 1]
        /\ nestReg' = [nestReg EXCEPT ![cpu] = 0]
    BY <1>7 DEF ForbidStore, Control, Places
  <2>2. ForbidExclusive'
    <3>1. nestReg[cpu] = held[cpu] - 1 /\ held[cpu] \in Nat
      BY <2>1 DEF ForbidExclusive, TypeOK
    <3>2. \A t \in Tasks : held'[t] = IF t = cpu THEN held[cpu] + 1 ELSE held[t]
      BY <2>1 DEF TypeOK
    <3>3. tdNest' = held'[cpu] - 1
      BY <2>1, <3>1, <3>2
    <3> QED
      BY <2>1, <3>2, <3>3 DEF ForbidExclusive
  <2> QED
    BY <1>7, <2>1, <2>2, <1>5 DEF ForbidStore, Places, Unforbidden, TypeOK
<1>8. CASE PermitLoad
  <2>1. /\ cpu \in Tasks /\ cpu # Idle /\ pc = "user" /\ pc' = "permit"
        /\ nestReg' = [nestReg EXCEPT ![cpu] = tdNest]
        /\ held' = [held EXCEPT ![cpu] = @ - 1]
        /\ UNCHANGED <<tdNest, cpu>>
    BY <1>8 DEF PermitLoad, Control, Places
  <2>2. ForbidExclusive'
    BY <2>1 DEF ForbidExclusive, TypeOK
  <2> QED
    BY <1>8, <2>1, <2>2, <1>5 DEF PermitLoad, Places, Unforbidden, TypeOK
<1>9. CASE PermitStore
  <2>1. /\ cpu \in Tasks /\ cpu # Idle /\ pc = "permit" /\ pc' = "user"
        /\ tdNest' = nestReg[cpu] - 1 /\ UNCHANGED <<cpu, held>>
        /\ nestReg' = [nestReg EXCEPT ![cpu] = 0]
    BY <1>9 DEF PermitStore, Control, Places
  <2>2. ForbidExclusive'
    BY <2>1 DEF ForbidExclusive, TypeOK
  <2> QED
    BY <1>9, <2>1, <2>2, <1>5 DEF PermitStore, Places, Unforbidden, TypeOK
<1>10. CASE Disable \/ Enable
  <2>1. /\ cpu \in Tasks /\ pc = "user"
        /\ UNCHANGED <<thisTask, tdNest, lists, state, pri, ctxs, cpu, pc, nestReg, held>>
    BY <1>10 DEF Disable, Enable
  <2>2. ForbidExclusive'
    BY <2>1 DEF ForbidExclusive
  <2> QED
    BY <2>1, <2>2, <1>5 DEF Control, Places, Unforbidden
<1>11. ASSUME UNCHANGED <<thisTask, tdNest, lists, state, pri, ctxs, cpu, nestReg, held>>,
              cpu \in Tasks, pc \in {"user", "test", "load", "store", "setold"},
              \/ pc' \in {"user", "setold"}
              \/ held[cpu] = 0 /\ pc' \in {"test", "sleep", "load", "store"}
       PROVE  Inv'
  <2>1. ForbidExclusive'
    BY <1>11 DEF ForbidExclusive
  <2> QED
    BY <1>11, <2>1, <1>5 DEF Control, Places, Unforbidden
<1>12. ASSUME NEW S \in SUBSET Sig, WaitCall(S) \/ SetSignalLoad(S) PROVE Inv'
  BY <1>11, <1>12 DEF WaitCall, SetSignalLoad, MayBlock
<1>13. CASE WaitTest \/ WaitLoad
  BY <1>11, <1>13 DEF WaitTest, WaitLoad, Control, Unforbidden
<1>14. ASSUME NEW S \in SUBSET Sig, WaitStore \/ SetSignalStore(S) PROVE Inv'
  BY <1>11, <1>14 DEF WaitStore, SetSignalStore
<1>15. CASE WaitSleep
  <2>1. /\ cpu \in Tasks /\ cpu # Idle /\ pc = "sleep" /\ held[cpu] = 0
        /\ thisTask = cpu /\ tdNest = -1 /\ state[cpu] = "RUN"
    <3>1. cpu \in Tasks /\ pc = "sleep"
      BY <1>15 DEF WaitSleep
    <3>2. cpu # Idle /\ held[cpu] = 0 /\ thisTask = cpu
      BY <3>1 DEF Control, Places, Unforbidden, QueuesExact
    <3>3. tdNest = -1
      BY <3>1, <3>2 DEF ForbidExclusive, TypeOK
    <3>4. state[cpu] = "RUN"
      BY <3>1, <3>2 DEF QueuesExact, Control
    <3> QED
      BY <3>1, <3>2, <3>3, <3>4
  <2>2. /\ waiting' = AddHead(waiting, cpu) /\ thisTask' = NoTask /\ pc' = "waitsched"
        /\ UNCHANGED <<tdNest, ready, pri, saved, cpu, nestReg, held>>
    BY <1>15 DEF WaitSleep
  <2>3. \A x \in Tasks :
          /\ state'[x] = IF x = cpu THEN "WAIT" ELSE state[x]
          /\ waitCtx'[x] = IF x = cpu THEN Here("test", irqOff) ELSE waitCtx[x]
          /\ left'[x] = IF x = cpu THEN Here("test", irqOff) ELSE left[x]
          /\ savedNest'[x] = IF x = cpu THEN tdNest ELSE savedNest[x]
    BY <1>15 DEF WaitSleep, TypeOK
  <2>4. QueuesExact'
    <3>1. cpu \notin ToSet(waiting) /\ waiting \in Seq(Tasks)
      BY <2>1 DEF QueuesExact, TypeOK
    <3>2. ToSet(waiting') = ToSet(waiting) \cup {cpu} /\ Distinct(waiting')
      BY <2>1, <2>2, <3>1, AddHeadMembers DEF QueuesExact
    <3>3. ToSet(waiting') = {x \in Tasks : state'[x] = "WAIT"}
      BY <2>1, <2>3, <3>2 DEF QueuesExact
    <3>4. ToSet(ready') = {x \in Tasks : state'[x] = "READY"} /\ Distinct(ready')
      BY <2>1, <2>2, <2>3 DEF QueuesExact
    <3>5. \A x \in Tasks : state'[x] \in {"RUN", "REMOVED"} <=> x = thisTask'
      BY <2>1, <2>2, <2>3, SchedAssumption DEF QueuesExact
    <3> QED
      BY <2>2, <3>2, <3>3, <3>4, <3>5 DEF QueuesExact
  <2>5. ReadySorted'
    BY <2>2 DEF ReadySorted
  <2>6. NotReached' /\ ForbidExclusive'
    BY <2>1, <2>2, <2>3 DEF NotReached, ForbidExclusive, Tasks
  <2>7. Resumable'
    BY <2>1, <2>2, <2>3 DEF Resumable
  <2>8. Control'
    <3>1. \A x \in Tasks : state'[x] = "READY" =>
            saved'[x].pc \in Places(x) /\ (saved'[x].pc = "forbid" => nestReg'[x] = -1)
      BY <2>1, <2>2, <2>3 DEF Control
    <3>2. \A x \in Tasks : state'[x] = "WAIT" => x # Idle /\ waitCtx'[x].pc = "test"
      BY <2>1, <2>3 DEF Control, Here
    <3>3. \A x \in Tasks : savedNest'[x] = -1
      BY <2>1, <2>3 DEF Control
    <3> QED
      BY <2>1, <2>2, <2>3, <3>1, <3>2, <3>3, SchedAssumption DEF Control, Unforbidden
  <2> QED
    BY <1>0, <2>4, <2>5, <2>6, <2>7, <2>8
<1>16. CASE WaitSchedule
  <2> DEFINE here == Here("never", irqOff)
  <2>1. Schedule(here) /\ here \in Context
    BY <1>16, HereType DEF WaitSchedule, TypeOK, PC
  <2> HIDE DEF here
  <2>2. tdNest < 0 /\ ~IsListEmpty(ready) /\ Dispatch(here)
    BY <1>16, <2>1, ScheduleSwitches DEF WaitSchedule
  <2>3. ~Preempted
    BY <1>16 DEF WaitSchedule, Preempted, QueuesExact
  <2> QED
    BY <1>0, <1>16, <2>1, <2>2, <2>3, DispatchKeeps DEF WaitSchedule
<1>17. ASSUME NEW t \in Task, NEW S \in SUBSET Sig, Signal(t, S) PROVE Inv'
  <2>1. t \in Tasks
    BY DEF Tasks
  <2> QED
    BY <1>0, <1>17, <2>1, WakeupKeeps DEF Signal, cpus
\* Schedule from the tick or from SetTaskPri: it comes back to the same place, or
\* switches at a place the task can be resumed at.
<1>18. ASSUME NEW here \in Context, Schedule(here),
              UNCHANGED <<waiting, waitCtx, nestReg, held>>,
              \A t \in Tasks : pri'[t] = pri[t],
              here.pc = pc \/ (pc = "idle0" /\ here.pc = "idle")
       PROVE  Inv'
  <2>1. CASE tdNest < 0 /\ ~IsListEmpty(ready) /\ Dispatch(here)
    <3>1. ASSUME Preempted
          PROVE  /\ here.pc \in Places(thisTask)
                 /\ here.pc = "forbid" => nestReg[thisTask] = -1
      <4>1. thisTask = cpu /\ cpu \in Tasks /\ state[cpu] = "RUN"
        BY <3>1 DEF Preempted, QueuesExact, TypeOK
      <4>2. pc \notin {"permit", "waitsched", "exit"} /\ tdNest = -1
        BY <2>1, <3>1, <4>1, SwitchableMeansUnforbidden DEF Control, QueuesExact, Preempted
      <4>3. pc \in Places(cpu)
        BY <4>1, <4>2 DEF Control
      <4>4. pc = "forbid" => nestReg[cpu] = -1
        BY <4>1, <4>2 DEF ForbidExclusive
      <4> QED
        BY <1>18, <4>1, <4>3, <4>4 DEF Places
    <3> QED
      BY <1>0, <1>18, <2>1, <3>1, DispatchKeeps
  <2>2. CASE (tdNest >= 0 \/ IsListEmpty(ready)) /\ ScheduleReturns(here)
    <3>1. pc \notin {"boot", "exit", "waitsched"}
      BY <1>18, <2>2, ScheduleSwitches DEF TypeOK
    <3>2. cpu \in Tasks /\ Running(pc)
      BY <3>1 DEF Control, TypeOK
    <3>3. Running(here.pc)
      BY <1>18, <3>2 DEF Places
    <3>4. /\ pc' = here.pc
          /\ UNCHANGED <<thisTask, tdNest, ready, state, saved, savedNest, left, cpu>>
      BY <2>2 DEF ScheduleReturns
    <3>5. ForbidExclusive'
      BY <1>18, <3>4 DEF ForbidExclusive
    <3>6. here.pc \in Unforbidden => held[cpu] = 0
      BY <1>18 DEF Control, Unforbidden
    <3> QED
      BY <1>5, <1>18, <3>2, <3>3, <3>4, <3>5, <3>6 DEF lists, ctxs
  <2> QED
    BY <1>18, <2>1, <2>2 DEF Schedule
<1>19. ASSUME NEW p \in Int, NEW label \in PC, SetTaskPri(p, label),
              label = pc \/ (pc = "idle0" /\ label = "idle")
       PROVE  Inv'
  <2>1. Here(label, irqOff) \in Context /\ Here(label, irqOff).pc = label
    BY HereType DEF TypeOK, Here
  <2>2. \A t \in Tasks : pri'[t] = pri[t]
    BY <1>19, SchedAssumption DEF SetTaskPri, TypeOK
  <2> QED
    BY <1>18, <1>19, <2>1, <2>2 DEF SetTaskPri
<1>20. CASE IdleStart \/ \E p \in NewPri : ChangePri(p)
  BY <1>19, <1>20, SchedAssumption DEF IdleStart, ChangePri, PC, IdlePri
<1>21. CASE Interrupt
  <2>1. UNCHANGED <<thisTask, tdNest, pri, waitCtx, savedNest, left, nestReg,
                    cpu, pc, held>>
    BY <1>21 DEF Interrupt
  <2>2. CASE UNCHANGED <<lists, state, saved, sigRecvd>>
    BY <1>0, <2>1, <2>2 DEF lists, QueuesExact, ReadySorted, NotReached, ForbidExclusive,
                            Resumable, Control
  <2>3. ASSUME NEW t \in Task, NEW S \in SUBSET Sig, WakeupTask(t, S) PROVE Inv'
    <3>1. t \in Tasks
      BY DEF Tasks
    <3> QED
      BY <1>0, <2>1, <2>3, <3>1, WakeupKeeps
  <2> QED
    BY <1>21, <2>2, <2>3 DEF Interrupt
<1>22. CASE IRQ_Tick
  <2>1. Here(pc, FALSE) \in Context /\ Here(pc, FALSE).pc = pc
    BY HereType DEF TypeOK, Here
  <2> QED
    BY <1>18, <1>22, <2>1 DEF IRQ_Tick
<1>23. CASE UNCHANGED vars
  BY <1>0, <1>23 DEF vars, lists, ctxs, cpus, QueuesExact, ReadySorted, NotReached,
                     ForbidExclusive, Resumable, Control
<1> QED
  BY <1>1, <1>2, <1>3, <1>4, <1>6, <1>7, <1>8, <1>9, <1>10, <1>12, <1>13, <1>14, <1>15,
     <1>16, <1>17, <1>20, <1>21, <1>22, <1>23 DEF Next, TaskStep
-----------------------------------------------------------------------------
(***************************************************************************)
(* The theorems.                                                           *)
(***************************************************************************)

\* Inv holds in every state.
LEMMA InvAlways == ASSUME BlockInForbid = FALSE PROVE Spec => []Inv
<1>1. Init => Inv
  BY InvInit
<1>2. Inv /\ [Next]_vars => Inv'
  BY InvStep
<1> QED
  BY <1>1, <1>2, PTL DEF Spec

\* Every variable keeps its type: in particular no list of tasks ever holds
\* anything but tasks, through any sequence of switches and wakeups.
THEOREM TypeCorrect == ASSUME BlockInForbid = FALSE PROVE Spec => []TypeOK
<1>1. Inv => TypeOK
  BY DEF Inv
<1> QED
  BY <1>1, InvAlways, PTL

\* TaskReady and TaskWait hold exactly the tasks whose State says so, once each,
\* and TaskReady in priority order (schedule.c, messages.c, list.c).
THEOREM QueuesCorrect ==
  ASSUME BlockInForbid = FALSE PROVE Spec => [](QueuesExact /\ ReadySorted)
<1>1. Inv => QueuesExact /\ ReadySorted
  BY DEF Inv
<1> QED
  BY <1>1, InvAlways, PTL

\* The unreachable places of WaitTask, TaskRun and ExecInit are unreachable, and
\* the idle task can always run.
THEOREM NeverReached == ASSUME BlockInForbid = FALSE PROVE Spec => []NotReached
<1>1. Inv => NotReached
  BY DEF Inv
<1> QED
  BY <1>1, InvAlways, PTL

\* TDNestCnt counts the Forbid calls of the running task, and no other task is
\* inside one (ables.c), although both are split by the tick.
THEOREM ForbidCorrect == ASSUME BlockInForbid = FALSE PROVE Spec => []ForbidExclusive
<1>1. Inv => ForbidExclusive
  BY DEF Inv
<1> QED
  BY <1>1, InvAlways, PTL

\* A task is resumed in the context it was left in (schedule.c, messages.c:158).
THEOREM ResumedRight == ASSUME BlockInForbid = FALSE PROVE Spec => []Resumable
<1>1. Inv => Resumable
  BY DEF Inv
<1> QED
  BY <1>1, InvAlways, PTL

\* Only Dispatch changes the task that has the CPU, and only below TDNestCnt 0.
LEMMA SwitchNeedsDispatch ==
  ASSUME [Next]_vars, cpu' # cpu
  PROVE  tdNest < 0 /\ \E here : Dispatch(here)
<1>1. ASSUME NEW here, Schedule(here) PROVE tdNest < 0 /\ \E h : Dispatch(h)
  BY <1>1 DEF Schedule, ScheduleReturns
<1> QED
  BY <1>1 DEF Next, TaskStep, GoTo, cpus, vars, Boot, AddTask, TaskReturn, TaskExit,
     ForbidLoad, ForbidStore, PermitLoad, PermitStore, Disable, Enable, WaitCall,
     SetSignalLoad, WaitTest, WaitSleep, WaitSchedule, WaitLoad, WaitStore,
     SetSignalStore, Signal, SetTaskPri, ChangePri, IdleStart, Interrupt, IRQ_Tick

\* Forbid works: the task inside it keeps the CPU until its Permit, whatever
\* interrupts, wakeups and priority changes come (schedule.c:119, timer.c:33).
THEOREM ForbidKeepsCPU ==
  ASSUME BlockInForbid = FALSE PROVE Spec => NoSwitchInForbid
<1>1. ASSUME Inv, [Next]_vars
      PROVE  (cpu \in Tasks /\ held[cpu] > 0) => cpu' = cpu
  BY <1>1, SwitchNeedsDispatch, SwitchableMeansUnforbidden
<1> QED
  BY <1>1, InvAlways, PTL DEF Spec, NoSwitchInForbid
----------------------------------------------------------------------------
(***************************************************************************)
(* Signals and dispatching, on top of Inv.  What a task has loaded from    *)
(* SigRecvd, or found there, must still be true where the task goes on,    *)
(* however often it loses the CPU on the way; Masked says where a task     *)
(* that lost it with interrupts disabled can be.                           *)
(***************************************************************************)
\* With interrupts disabled a task loses the CPU only through Schedule, never between
\* two accesses to its signals; and nobody interrupts the boot.
Masked ==
  /\ \A t \in Tasks : state[t] = "READY" /\ saved[t].off =>
       saved[t].pc \notin {"store", "setold", "sleep"}
  /\ pc = "boot" => irqOff /\ irq = "none"

SigInv == WaitFindsSignal /\ SafeWhenDisabled /\ Masked
----------------------------------------------------------------------------
\* What a switch does: it resumes a ready task, or the one it has preempted, from its
\* context, and leaves the others.
LEMMA Switch ==
  ASSUME Inv, NEW here \in Context, tdNest < 0, ~IsListEmpty(ready), Dispatch(here)
  PROVE  /\ thisTask' \in Tasks /\ cpu' = thisTask'
         /\ (state[thisTask'] = "READY" /\ thisTask' # thisTask)
              \/ (Preempted /\ thisTask' = thisTask)
         /\ pc' = saved'[thisTask'].pc /\ irqOff' = saved'[thisTask'].off
         /\ \A t \in Tasks :
              /\ saved'[t] = IF t = thisTask THEN here ELSE saved[t]
              /\ state'[t] = "WAIT" => state[t] = "WAIT"
              /\ state'[t] = "READY" =>
                   /\ t # thisTask'
                   /\ (state[t] = "READY" /\ t # thisTask) \/ (Preempted /\ t = thisTask)
         /\ ready' = Tail(Requeued) /\ thisTask' = Head(Requeued)
<1> USE DEF Inv
<1> DEFINE next == Head(Requeued)
<1>1. next \in Tasks /\ next \in ToSet(Requeued)
  BY RequeuedFacts, RequeuedType, TailOfList
<1>2. state[next] = "READY" \/ (Preempted /\ next = thisTask)
  BY <1>1, RequeuedFacts
<1>3. thisTask \in Tasks => state[thisTask] \in {"RUN", "REMOVED"}
  BY DEF QueuesExact
<1>4. /\ thisTask' = next /\ cpu' = next /\ ready' = Tail(Requeued)
      /\ saved' = (IF thisTask = NoTask THEN saved ELSE [saved EXCEPT ![thisTask] = here])
      /\ state' = [PutAway EXCEPT ![next] = "RUN"]
      /\ pc' = saved'[next].pc /\ irqOff' = saved'[next].off
  BY DEF Dispatch
<1>5. \A t \in Tasks : saved'[t] = IF t = thisTask THEN here ELSE saved[t]
  BY <1>4, SchedAssumption DEF TypeOK
<1>6. \A t \in Tasks : state'[t] = IF t = next THEN "RUN"
                                   ELSE IF t # thisTask THEN state[t]
                                   ELSE IF Preempted THEN "READY" ELSE "NONE"
  BY <1>4 DEF PutAway
<1> HIDE DEF next
<1> QED
  BY <1>1, <1>2, <1>3, <1>4, <1>5, <1>6 DEF next

\* Schedule loses no signal: a task that is switched off between two accesses has
\* interrupts enabled there.
LEMMA ScheduleSignals ==
  ASSUME Inv, SigInv, NEW here \in Context, Schedule(here),
         UNCHANGED <<waitCtx, sigs>>,
         here.pc = pc \/ here.pc \notin {"load", "store", "setold", "sleep"},
         here.off => here.pc \notin {"store", "setold", "sleep"},
         here.pc # "boot"
  PROVE  SigInv'
<1> USE DEF Inv, SigInv
<1>0. UNCHANGED <<sigRecvd, signalSet, reg>>
  BY DEF sigs
<1>1. CASE ScheduleReturns(here)
  <2>1. /\ pc' = here.pc /\ irqOff' = here.off
        /\ UNCHANGED <<thisTask, state, saved, cpu>>
    BY <1>1 DEF ScheduleReturns
  <2>2. WaitFindsSignal'
    BY <1>0, <2>1 DEF WaitFindsSignal
  <2>3. SafeWhenDisabled'
    BY <1>0, <2>1 DEF SafeWhenDisabled
  <2>4. Masked'
    BY <2>1 DEF Masked
  <2> QED
    BY <2>2, <2>3, <2>4
<1>2. CASE tdNest < 0 /\ ~IsListEmpty(ready) /\ Dispatch(here)
  <2>1. /\ thisTask' \in Tasks /\ cpu' = thisTask'
        /\ (state[thisTask'] = "READY" /\ thisTask' # thisTask)
             \/ (Preempted /\ thisTask' = thisTask)
        /\ pc' = saved'[thisTask'].pc /\ irqOff' = saved'[thisTask'].off
        /\ \A t \in Tasks :
             /\ saved'[t] = IF t = thisTask THEN here ELSE saved[t]
             /\ state'[t] = "WAIT" => state[t] = "WAIT"
             /\ state'[t] = "READY" =>
                  /\ t # thisTask'
                  /\ (state[t] = "READY" /\ t # thisTask) \/ (Preempted /\ t = thisTask)
    BY <1>2, Switch
  <2>2. WaitFindsSignal'
    BY <1>0, <2>1 DEF WaitFindsSignal
  <2>3. SafeWhenDisabled'
    <3>1. irqOff' => pc' \notin {"store", "setold", "sleep"}
      BY <2>1 DEF Masked
    <3> QED
      BY <1>0, <2>1, <3>1 DEF SafeWhenDisabled
  <2>4. Masked'
    <3>1. saved'[thisTask'].pc # "boot"
      BY <2>1 DEF Control, Places
    <3> QED
      BY <2>1, <3>1 DEF Masked
  <2> QED
    BY <2>2, <2>3, <2>4
<1> QED
  BY <1>1, <1>2 DEF Schedule

\* A wakeup only adds signals, and a woken task tests again.
LEMMA WakeupSignals ==
  ASSUME Inv, SigInv, NEW t \in Tasks, NEW signal \in SUBSET Sig, WakeupTask(t, signal),
         UNCHANGED <<thisTask, waitCtx, signalSet, reg, cpu, pc>>,
         irqOff' /\ irq' = "none" => pc \notin {"store", "setold", "sleep"},
         pc # "boot"
  PROVE  SigInv'
<1> USE DEF Inv, SigInv
<1>1. \A x \in Tasks : sigRecvd'[x] = IF x = t THEN sigRecvd[t] \cup signal ELSE sigRecvd[x]
  BY DEF WakeupTask, TypeOK
<1>2. CASE state[t] # "WAIT"
  <2>1. UNCHANGED <<waiting, saved, state, ready>>
    BY <1>2 DEF WakeupTask
  <2> QED
    BY <1>1, <1>2, <2>1 DEF WaitFindsSignal, SafeWhenDisabled, Masked
<1>3. CASE state[t] = "WAIT"
  <2>1. \A x \in Tasks : /\ saved'[x] = IF x = t THEN waitCtx[t] ELSE saved[x]
                         /\ state'[x] = IF x = t THEN "READY" ELSE state[x]
    BY <1>3 DEF WakeupTask, TypeOK
  <2>2. waitCtx[t].pc = "test" /\ t # thisTask
    BY <1>3 DEF Control, QueuesExact
  <2> QED
    BY <1>1, <2>1, <2>2 DEF WaitFindsSignal, SafeWhenDisabled, Masked
<1> QED
  BY <1>2, <1>3

\* A step of the running task's own code disturbs nobody else's signals.
LEMMA OwnSignals ==
  ASSUME Inv, SigInv, cpu \in Tasks, thisTask = cpu,
         UNCHANGED <<thisTask, saved, waitCtx, cpu>>,
         \A t \in Tasks : t # cpu => /\ state'[t] = state[t] /\ sigRecvd'[t] = sigRecvd[t]
                                     /\ signalSet'[t] = signalSet[t] /\ reg'[t] = reg[t],
         state'[cpu] \notin {"READY", "WAIT"},
         pc' # "boot",
         pc' = "load" => sigRecvd'[cpu] \cap signalSet'[cpu] # {},
         pc' = "store" => reg'[cpu] \cap signalSet'[cpu] # {},
         irqOff' /\ irq' = "none" /\ pc' \in {"store", "setold"} => reg'[cpu] = sigRecvd'[cpu],
         irqOff' /\ irq' = "none" /\ pc' = "sleep" => sigRecvd'[cpu] \cap signalSet'[cpu] = {}
  PROVE  SigInv'
<1> USE DEF Inv, SigInv
<1>1. WaitFindsSignal'
  BY DEF WaitFindsSignal
<1>2. SafeWhenDisabled'
  BY DEF SafeWhenDisabled
<1>3. Masked'
  BY DEF Masked
<1> QED
  BY <1>1, <1>2, <1>3

\* At the beginning nobody waits.
LEMMA SigInvInit == Init => SigInv
BY SchedAssumption DEF Init, SigInv, WaitFindsSignal, SafeWhenDisabled, Masked, Entry

\* Every step keeps it.
LEMMA SigInvStep ==
  ASSUME Inv, SigInv, [Next]_vars
  PROVE  SigInv'
<1> USE DEF Inv
<1>0. /\ cpu \in Tasks /\ pc \notin {"boot", "waitsched", "never"} =>
           thisTask = cpu /\ state[cpu] \in {"RUN", "REMOVED"}
      /\ cpu \in Tasks => pc # "boot"
  BY SchedAssumption DEF QueuesExact, Control, TypeOK
<1>1. CASE Boot
  BY <1>1, ScheduleSignals, HereType DEF Boot, PC, TypeOK, Here
<1>2. ASSUME NEW t \in Task, AddTask(t) PROVE SigInv'
  <2>1. /\ t \in Tasks /\ t # thisTask
    BY <1>2 DEF AddTask, QueuesExact, Tasks
  <2>2. \A x \in Tasks : /\ state'[x] = IF x = t THEN "READY" ELSE state[x]
                         /\ saved'[x] = IF x = t THEN Entry(t) ELSE saved[x]
                         /\ x # t => sigRecvd'[x] = sigRecvd[x]
    BY <1>2 DEF AddTask, TypeOK
  <2>3. UNCHANGED <<thisTask, waitCtx, signalSet, reg, cpu, pc, irqOff, irq>>
    BY <1>2 DEF AddTask, cpus
  <2>4. Entry(t).pc \in {"user", "idle0"} /\ Entry(t).off = FALSE
    BY DEF Entry
  <2>5. pc \in {"user", "boot"} /\ (cpu \in Tasks => t # cpu)
    BY <1>0, <1>2, <2>1 DEF AddTask, At
  <2> QED
    BY <2>1, <2>2, <2>3, <2>4, <2>5 DEF SigInv, WaitFindsSignal, SafeWhenDisabled, Masked
<1>3. CASE TaskReturn \/ ForbidLoad \/ ForbidStore \/ PermitLoad \/ PermitStore
           \/ Disable \/ Enable
  <2>1. /\ cpu \in Tasks /\ pc \in {"user", "forbid", "permit"}
        /\ pc' \in {"user", "forbid", "permit", "exit"}
        /\ UNCHANGED <<thisTask, saved, waitCtx, cpu, sigs>>
        /\ (state' = [state EXCEPT ![cpu] = "REMOVED"] \/ state' = state)
    BY <1>3 DEF TaskReturn, ForbidLoad, ForbidStore, PermitLoad, PermitStore, Disable,
                Enable, At, GoTo, ctxs
  <2> QED
    <3>1. /\ thisTask = cpu
          /\ \A t \in Tasks : state'[t] = state[t] \/ (t = cpu /\ state'[t] = "REMOVED")
      BY <1>0, <2>1 DEF TypeOK
    <3>2. state'[cpu] \notin {"READY", "WAIT"}
      BY <1>0, <2>1, <3>1
    <3> QED
      BY <2>1, <3>1, <3>2, OwnSignals DEF sigs
<1>4. CASE TaskExit
  BY <1>4, ScheduleSignals, HereType DEF TaskExit, PC, TypeOK, Here, At
<1>5. ASSUME NEW S \in SUBSET Sig, WaitCall(S) \/ SetSignalLoad(S) PROVE SigInv'
  <2>1. /\ cpu \in Tasks /\ pc = "user" /\ pc' \in {"test", "setold"}
        /\ UNCHANGED <<thisTask, saved, state, waitCtx, cpu, irqOff, irq, sigRecvd>>
        /\ signalSet' = [signalSet EXCEPT ![cpu] = S]
        /\ \/ pc' = "test" /\ reg' = reg
           \/ pc' = "setold" /\ reg' = [reg EXCEPT ![cpu] = sigRecvd[cpu]]
    BY <1>5 DEF WaitCall, SetSignalLoad, At, GoTo, ctxs
  <2> QED
    BY <1>0, <2>1, OwnSignals DEF TypeOK
<1>6. CASE WaitTest
  <2>1. /\ cpu \in Tasks /\ pc = "test"
        /\ pc' = (IF sigRecvd[cpu] \cap signalSet[cpu] = {} THEN "sleep" ELSE "load")
        /\ UNCHANGED <<thisTask, saved, state, waitCtx, cpu, sigRecvd, signalSet, reg>>
    BY <1>6 DEF WaitTest, At, GoTo, ctxs, sigs
  <2>2. thisTask = cpu /\ state[cpu] \notin {"READY", "WAIT"}
    BY <1>0, <2>1
  <2> QED
    BY <2>1, <2>2, OwnSignals
<1>7. CASE WaitSleep
  <2>1. /\ cpu \in Tasks /\ pc = "sleep" /\ pc' = "waitsched" /\ thisTask' = NoTask
        /\ irq = "none"
        /\ UNCHANGED <<saved, cpu, sigRecvd, signalSet, reg>>
    BY <1>7 DEF WaitSleep, At, sigs
  <2>2. \A x \in Tasks : /\ state'[x] = IF x = cpu THEN "WAIT" ELSE state[x]
                         /\ waitCtx'[x] = IF x = cpu THEN Here("test", irqOff) ELSE waitCtx[x]
    BY <1>7 DEF WaitSleep, TypeOK
  <2>3. irqOff => sigRecvd[cpu] \cap signalSet[cpu] = {}
    BY <2>1 DEF SigInv, SafeWhenDisabled
  <2>4. WaitFindsSignal'
    BY <1>0, <2>1, <2>2, SchedAssumption DEF SigInv, WaitFindsSignal
  <2>5. SafeWhenDisabled' /\ Masked'
    BY <2>1, <2>2, <2>3 DEF SigInv, SafeWhenDisabled, Masked, Here
  <2> QED
    BY <2>4, <2>5 DEF SigInv
<1>8. CASE WaitSchedule
  BY <1>8, ScheduleSignals, HereType DEF WaitSchedule, PC, TypeOK, Here, At
<1>9. CASE WaitLoad
  <2>1. /\ cpu \in Tasks /\ pc = "load" /\ pc' = "store"
        /\ UNCHANGED <<thisTask, saved, state, waitCtx, cpu, sigRecvd, signalSet>>
        /\ reg' = [reg EXCEPT ![cpu] = sigRecvd[cpu]]
    BY <1>9 DEF WaitLoad, At, GoTo, ctxs
  <2>2. sigRecvd[cpu] \cap signalSet[cpu] # {}
    BY <1>0, <2>1 DEF SigInv, WaitFindsSignal
  <2> QED
    BY <1>0, <2>1, <2>2, OwnSignals DEF TypeOK
<1>10. ASSUME NEW S \in SUBSET Sig, WaitStore \/ SetSignalStore(S) PROVE SigInv'
  <2>1. /\ cpu \in Tasks /\ pc \in {"store", "setold"} /\ pc' = "user"
        /\ UNCHANGED <<thisTask, saved, state, waitCtx, cpu>>
        /\ \A t \in Tasks : t # cpu => /\ sigRecvd'[t] = sigRecvd[t]
                                       /\ signalSet'[t] = signalSet[t] /\ reg'[t] = reg[t]
    BY <1>10 DEF WaitStore, SetSignalStore, At, GoTo, ctxs, TypeOK
  <2> QED
    BY <1>0, <2>1, OwnSignals
<1>11. ASSUME NEW t \in Task, NEW S \in SUBSET Sig, Signal(t, S) PROVE SigInv'
  BY <1>11, WakeupSignals DEF Signal, cpus, At, Tasks
<1>12. CASE IdleStart \/ \E p \in NewPri : ChangePri(p)
  <2>1. PICK label \in {"user", "idle"} : Schedule(Here(label, irqOff)) /\ UNCHANGED <<waitCtx, sigs>>
    BY <1>12 DEF IdleStart, ChangePri, SetTaskPri
  <2>2. pc # "boot"
    BY <1>12 DEF IdleStart, ChangePri, At
  <2> QED
    BY <2>1, <2>2, ScheduleSignals, HereType DEF PC, TypeOK, Here
<1>13. CASE Interrupt
  <2>1. /\ UNCHANGED <<thisTask, waitCtx, signalSet, reg, cpu, pc>>
        /\ irq' = "tick" /\ pc # "boot"
    BY <1>13 DEF Interrupt, SigInv, Masked
  <2>2. CASE UNCHANGED <<lists, state, saved, sigRecvd>>
    BY <2>1, <2>2 DEF SigInv, WaitFindsSignal, SafeWhenDisabled, Masked
  <2>3. ASSUME NEW t \in Task, NEW S \in SUBSET Sig, WakeupTask(t, S) PROVE SigInv'
    BY <2>1, <2>3, WakeupSignals DEF Tasks
  <2> QED
    BY <1>13, <2>2, <2>3 DEF Interrupt
<1>14. CASE IRQ_Tick
  <2>1. pc # "boot"
    BY <1>14 DEF IRQ_Tick, SigInv, Masked
  <2> QED
    BY <1>14, <2>1, ScheduleSignals, HereType DEF IRQ_Tick, PC, TypeOK, Here
<1>15. CASE UNCHANGED vars
  BY <1>15 DEF vars, ctxs, sigs, cpus, SigInv, WaitFindsSignal, SafeWhenDisabled, Masked
<1> QED
  BY <1>1, <1>2, <1>3, <1>4, <1>5, <1>6, <1>7, <1>8, <1>9, <1>10, <1>11, <1>12, <1>13,
     <1>14, <1>15 DEF Next, TaskStep
----------------------------------------------------------------------------
(***************************************************************************)
(* The theorems.                                                           *)
(***************************************************************************)
\* SigInv holds in every state.
LEMMA SigInvAlways == ASSUME BlockInForbid = FALSE PROVE Spec => []SigInv
<1>1. Init => SigInv
  BY SigInvInit
<1>2. Inv /\ SigInv /\ [Next]_vars => SigInv'
  BY SigInvStep
<1> QED
  BY <1>1, <1>2, InvAlways, PTL DEF Spec

\* A task that has disabled interrupts around SetSignal or Wait loses no signal and
\* does not sleep on one it has (messages.c lib_Wait, lib_SetSignal).
THEOREM SafeIfDisabled == ASSUME BlockInForbid = FALSE PROVE Spec => []SafeWhenDisabled
<1>1. SigInv => SafeWhenDisabled
  BY DEF SigInv
<1> QED
  BY <1>1, SigInvAlways, PTL

\* Wait returns with a signal it was asked for, although any signal ends its sleep
\* and the task may lose the CPU at any place in it (messages.c:139,154).
THEOREM WaitDelivers == ASSUME BlockInForbid = FALSE PROVE Spec => []WaitFindsSignal
<1>1. SigInv => WaitFindsSignal
  BY DEF SigInv
<1> QED
  BY <1>1, SigInvAlways, PTL

\* Whoever gets the CPU, or keeps it over a tick outside Forbid, has a priority no
\* ready task exceeds (schedule.c:33-48, timer.c:33).
THEOREM HighestRuns == ASSUME BlockInForbid = FALSE PROVE Spec => PriorityDispatch
<1> DEFINE Highest == \A t \in ToSet(ready') : pri'[cpu'] >= pri'[t]
<1>1. ASSUME Inv, NEW here \in Context, Schedule(here), tdNest < 0 \/ cpu' # cpu,
             \A t \in Tasks : pri'[t] = pri[t]
      PROVE  Highest
  <2>1. CASE (tdNest >= 0 \/ IsListEmpty(ready)) /\ ScheduleReturns(here)
    <3>1. ready' = <<>>
      BY <1>1, <2>1 DEF ScheduleReturns, Schedule, IsListEmpty, Inv, TypeOK
    <3> QED
      BY <3>1 DEF ToSet
  <2>2. CASE tdNest < 0 /\ ~IsListEmpty(ready) /\ Dispatch(here)
    <3>1. ready' = Tail(Requeued) /\ cpu' = Head(Requeued)
      BY <1>1, <2>2, Switch
    <3>2. Requeued \in Seq(Tasks) /\ Requeued # <<>> /\ SortedBy(Requeued, pri)
      BY <1>1, <2>2, RequeuedFacts, RequeuedType DEF Inv
    <3>3. /\ Head(Requeued) \in Tasks /\ Tail(Requeued) \in Seq(Tasks)
          /\ \A t \in ToSet(Tail(Requeued)) : pri[Head(Requeued)] >= pri[t]
      BY <3>2, TailOfList
    <3>4. \A t \in ToSet(Tail(Requeued)) : t \in Tasks
      BY <3>3, ElementOfSeq, LenProperties DEF ToSet
    <3> QED
      BY <1>1, <3>1, <3>3, <3>4
  <2> QED
    BY <1>1, <2>1, <2>2 DEF Schedule
<1>2. ASSUME Inv, SigInv, Next, cpu' # cpu \/ (irq = "tick" /\ tdNest < 0)
      PROVE  Highest
  <2> USE DEF Inv
  <2>1. CASE Boot
    BY <1>1, <1>2, <2>1, HereType DEF Boot, PC, TypeOK, SigInv, Masked
  <2>2. CASE TaskExit
    BY <1>1, <1>2, <2>2, HereType DEF TaskExit, PC, TypeOK, At
  <2>3. CASE WaitSchedule
    BY <1>1, <1>2, <2>3, HereType DEF WaitSchedule, PC, TypeOK, At
  <2>4. CASE IdleStart \/ \E p \in NewPri : ChangePri(p)
    <3>1. PICK label \in {"user", "idle"}, p \in Int : At(pc) /\ SetTaskPri(p, label)
      BY <2>4, SchedAssumption DEF IdleStart, ChangePri, At, IdlePri
    <3>2. \A t \in Tasks : pri'[t] = pri[t]
      BY <3>1, SchedAssumption DEF SetTaskPri, TypeOK
    <3> QED
      BY <1>1, <1>2, <3>1, <3>2, HereType DEF SetTaskPri, PC, TypeOK, At
  <2>5. CASE IRQ_Tick
    BY <1>1, <1>2, <2>5, HereType DEF IRQ_Tick, PC, TypeOK
  <2>6. ASSUME UNCHANGED cpu, irq = "none" PROVE Highest
    BY <1>2, <2>6
  <2>7. ASSUME NEW t \in Task, AddTask(t) PROVE Highest
    BY <1>2, <2>6, <2>7 DEF AddTask, At, cpus, SigInv, Masked, TypeOK
  <2>8. CASE TaskReturn \/ ForbidLoad \/ ForbidStore \/ PermitLoad \/ PermitStore
             \/ Disable \/ Enable \/ WaitTest \/ WaitSleep \/ WaitLoad \/ WaitStore
    BY <2>6, <2>8 DEF TaskReturn, ForbidLoad, ForbidStore, PermitLoad, PermitStore, Disable,
                      Enable, WaitTest, WaitSleep, WaitLoad, WaitStore, At, GoTo
  <2>9. ASSUME NEW S \in SUBSET Sig, WaitCall(S) \/ SetSignalLoad(S) \/ SetSignalStore(S)
        PROVE  Highest
    BY <2>6, <2>9 DEF WaitCall, SetSignalLoad, SetSignalStore, At, GoTo
  <2>10. ASSUME NEW t \in Task, NEW S \in SUBSET Sig, Signal(t, S) PROVE Highest
    BY <2>6, <2>10 DEF Signal, At, cpus
  <2>11. CASE Interrupt
    BY <2>6, <2>11 DEF Interrupt
  <2> QED
    BY <1>2, <2>1, <2>2, <2>3, <2>4, <2>5, <2>7, <2>8, <2>9, <2>10, <2>11 DEF Next, TaskStep
<1>3. Inv /\ SigInv /\ [Next]_vars =>
        [cpu' # cpu \/ (irq = "tick" /\ tdNest < 0) => Highest]_vars
  BY <1>2
<1> QED
  BY <1>3, InvAlways, SigInvAlways, PTL DEF Spec, PriorityDispatch
============================================================================
