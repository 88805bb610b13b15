------------------------------- MODULE Sched -------------------------------
(***************************************************************************)
(* The task scheduler of exec.library on its one ARM core: AddTask, task   *)
(* exit, Wait, Signal, SetSignal, SetTaskPri, Forbid/Permit,               *)
(* Disable/Enable, Schedule/Dispatch, and the 10 ms timer interrupt that   *)
(* preempts (lib.exec/schedule.c, tasks.c, messages.c, ables.c, irq.c,     *)
(* raspi/timer.c).                                                         *)
(*                                                                         *)
(* The CPU is modelled as it is: one program counter (pc), one interrupt   *)
(* mask (irqOff) and the stack it runs on (cpu).  A switch saves the       *)
(* program counter and mask of the task that leaves in that task's         *)
(* SavedContext (or WaitContext) and loads those of the task that comes;   *)
(* a task that is resumed from the wrong context goes on at the wrong      *)
(* place, here as on the machine.  Code that runs with interrupts enabled  *)
(* is cut at each access to shared state, since the timer may preempt      *)
(* between any two; code that runs with them disabled is one step.         *)
(***************************************************************************)
EXTENDS Integers, FiniteSets, ExecLists

CONSTANTS
  Task,          \* the Task structures clients may create
  Idle,          \* the idle task, made by CreateSysBase
  NoTask,        \* NULL: no thisTask; also the CPU before the first Dispatch
  Sig,           \* the signal bits tasks and interrupt servers use
  StartPri,      \* ln_Pri each task is created with
  NewPri,        \* priorities passed to SetTaskPri
  MaxNest,       \* bound on how deep a task nests Forbid
  UsesDisable,   \* whether tasks call Disable/Enable themselves
  BlockInForbid  \* whether a task may call Wait, or return, inside Forbid

Tasks   == Task \cup {Idle}
IdlePri == -125  \* what lib_Idle asks SetTaskPri for

ASSUME SchedAssumption ==
  /\ Idle \notin Task
  /\ NoTask \notin Tasks
  /\ StartPri \in [Tasks -> Int]
  /\ \A t \in Task : StartPri[t] > StartPri[Idle]
  /\ NewPri \subseteq Int
  /\ MaxNest \in Nat
  /\ UsesDisable \in BOOLEAN
  /\ BlockInForbid \in BOOLEAN

VARIABLES
  thisTask,   \* SysBase->thisTask
  tdNest,     \* SysBase->TDNestCnt: task switching is allowed below 0
  ready,      \* SysBase->TaskReady
  waiting,    \* SysBase->TaskWait
  state,      \* Task->State; "NONE" while the structure is not allocated
  pri,        \* Task->Node.ln_Pri; pri[NoTask] is the byte at that offset of NULL
  saved,      \* Task->SavedContext: where Dispatch resumes the task
  waitCtx,    \* Task->WaitContext: where Wait put the task to sleep
  savedNest,  \* Task->TDNestCnt
  sigRecvd,   \* Task->SigRecvd
  signalSet,  \* that argument of the Wait or SetSignal the task is in
  reg,        \* SigRecvd as the task has loaded it
  nestReg,    \* TDNestCnt as the task has loaded it
  cpu,        \* the task on whose stack the CPU executes
  pc,         \* where in the code the CPU is
  irqOff,     \* the I bit of CPSR
  irq,        \* the interrupt being served: "none" or "tick"
  held,       \* history: Forbid calls of each task not yet undone by Permit
  left        \* history: the context each task really had when it lost the CPU

lists == <<ready, waiting>>
ctxs  == <<saved, waitCtx, savedNest, left>>
sigs  == <<sigRecvd, signalSet, reg>>
cpus  == <<cpu, pc, irqOff, irq>>
vars  == <<thisTask, tdNest, lists, state, pri, ctxs, sigs, cpus, nestReg, held>>

\* The places the CPU can be interrupted at, or be resumed at.  "never" is the
\* DPrintF behind Schedule in WaitTask, "notreached" the loop behind Schedule in
\* TaskRun, "ponr" the print behind Schedule in ExecInit.
PC == {"boot", "ponr", "idle0", "idle", "user", "forbid", "permit", "test",
       "sleep", "waitsched", "never", "load", "store", "setold", "exit",
       "notreached"}
Context == [pc : PC, off : BOOLEAN]

\* TaskRun enables interrupts and calls the task's function.
Entry(t) == [pc |-> IF t = Idle THEN "idle0" ELSE "user", off |-> FALSE]
-----------------------------------------------------------------------------
(***************************************************************************)
(* The state in which ExecInit, single-tasking until then, reaches         *)
(* Schedule: CreateSysBase has made the idle task, Permit has taken        *)
(* TDNestCnt from 0 to -1, and interrupts are masked until the first       *)
(* TaskRun.  thisTask is never assigned before that: the model takes the   *)
(* memory SysBase lies in to read as zero.                                 *)
(***************************************************************************)
Init ==
  /\ thisTask = NoTask
  /\ tdNest = -1
  /\ ready = <<Idle>>
  /\ waiting = <<>>
  /\ state = [t \in Tasks |-> IF t = Idle THEN "READY" ELSE "NONE"]
  /\ pri = [t \in Tasks \cup {NoTask} |-> IF t = NoTask THEN 0 ELSE StartPri[t]]
  /\ saved = [t \in Tasks |-> Entry(t)]
  /\ waitCtx = saved
  /\ savedNest = [t \in Tasks |-> -1]
  /\ sigRecvd = [t \in Tasks |-> {}]
  /\ signalSet = [t \in Tasks |-> {}]
  /\ reg = [t \in Tasks |-> {}]
  /\ nestReg = [t \in Tasks |-> 0]
  /\ cpu = NoTask
  /\ pc = "boot"
  /\ irqOff = TRUE
  /\ irq = "none"
  /\ held = [t \in Tasks |-> 0]
  /\ left = saved
-----------------------------------------------------------------------------
(***************************************************************************)
(* Schedule and Dispatch.  here is the context Schedule would return to.   *)
(***************************************************************************)
Here(label, off) == [pc |-> label, off |-> off]

Preempted == thisTask # NoTask /\ state[thisTask] = "RUN"

\* Seeded faults: the preempted task goes to the front; it is forgotten.
Bug_RequeueFirst == IF Preempted THEN AddHead(ready, thisTask) ELSE ready
Bug_NotRequeued == ready

\* TaskReady once Dispatch has put back a thisTask that can still run.
Requeued == IF Preempted THEN Enqueue(ready, thisTask, pri) ELSE ready

\* Seeded fault: REMOVED is not told from DEAD.
Bug_PutAwayDead ==
  [t \in Tasks |-> IF t # thisTask THEN state[t]
                   ELSE IF Preempted THEN "READY" ELSE "DEAD"]

\* States once Dispatch has put thisTask away: still ready, or freed if it was
\* REMOVED.  Wait has already cleared thisTask, so it is never in WAIT here.
PutAway ==
  [t \in Tasks |-> IF t # thisTask THEN state[t]
                   ELSE IF Preempted THEN "READY" ELSE "NONE"]

\* Resume the head of TaskReady from its SavedContext, after thisTask has been
\* saved and put away.
Dispatch(here) ==
  LET next  == Head(Requeued)
      ctx   == IF thisTask = NoTask THEN saved ELSE [saved EXCEPT ![thisTask] = here]
      nests == IF Preempted THEN [savedNest EXCEPT ![thisTask] = tdNest] ELSE savedNest
  IN  /\ ready' = Tail(Requeued)
      /\ state' = [PutAway EXCEPT ![next] = "RUN"]
      /\ saved' = ctx
      /\ savedNest' = nests
      /\ left' = IF thisTask = NoTask THEN left ELSE [left EXCEPT ![thisTask] = here]
      /\ tdNest' = nests[next]
      /\ thisTask' = next
      /\ cpu' = next
      /\ pc' = ctx[next].pc
      /\ irqOff' = ctx[next].off

ScheduleReturns(here) ==
  /\ pc' = here.pc
  /\ irqOff' = here.off
  /\ UNCHANGED <<thisTask, tdNest, ready, state, saved, savedNest, left, cpu>>

\* Seeded fault: TDNestCnt is not looked at.
Bug_ScheduleInForbid(here) ==
  \/ IsListEmpty(ready) /\ ScheduleReturns(here)
  \/ ~IsListEmpty(ready) /\ Dispatch(here)

Schedule(here) ==
  \/ (tdNest >= 0 \/ IsListEmpty(ready)) /\ ScheduleReturns(here)
  \/ tdNest < 0 /\ ~IsListEmpty(ready) /\ Dispatch(here)

Boot ==
  /\ pc = "boot"
  /\ Schedule(Here("ponr", irqOff))
  /\ UNCHANGED <<waiting, pri, waitCtx, sigs, irq, nestReg, held>>
-----------------------------------------------------------------------------
(***************************************************************************)
(* What a task does.  Its own code is at "user"; between two interrupts    *)
(* the CPU executes the code of the task it runs.                          *)
(***************************************************************************)
At(label) == cpu \in Tasks /\ pc = label /\ irq = "none"

GoTo(label) == pc' = label /\ UNCHANGED <<cpu, irqOff, irq>>

MayBlock == held[cpu] = 0 \/ BlockInForbid

\* TaskCreate and AddTask, called by a task or before multitasking starts.  The
\* structure comes cleared from AllocVec.
AddTask(t) ==
  /\ At("user") \/ pc = "boot"
  /\ state[t] = "NONE"
  /\ state' = [state EXCEPT ![t] = "READY"]
  /\ saved' = [saved EXCEPT ![t] = Entry(t)]
  /\ left' = [left EXCEPT ![t] = Entry(t)]
  /\ savedNest' = [savedNest EXCEPT ![t] = -1]
  /\ sigRecvd' = [sigRecvd EXCEPT ![t] = {}]
  /\ ready' = Enqueue(ready, t, pri)
  /\ UNCHANGED <<thisTask, tdNest, waiting, pri, waitCtx, signalSet, reg, nestReg,
                 cpus, held>>

\* TaskRun, when the task's function has returned: State = REMOVED, then
\* Schedule, with interrupts enabled in between.
TaskReturn ==
  /\ At("user") /\ MayBlock
  /\ state' = [state EXCEPT ![cpu] = "REMOVED"]
  /\ GoTo("exit")
  /\ UNCHANGED <<thisTask, tdNest, lists, pri, ctxs, sigs, nestReg, held>>

TaskExit ==
  /\ At("exit")
  /\ Schedule(Here("notreached", irqOff))
  /\ UNCHANGED <<waiting, pri, waitCtx, sigs, irq, nestReg, held>>

\* Forbid and Permit are TDNestCnt++ and TDNestCnt--: a load and a store.
ForbidLoad ==
  /\ At("user") /\ held[cpu] < MaxNest
  /\ nestReg' = [nestReg EXCEPT ![cpu] = tdNest]
  /\ GoTo("forbid")
  /\ UNCHANGED <<thisTask, tdNest, lists, state, pri, ctxs, sigs, held>>

ForbidStore ==
  /\ At("forbid")
  /\ tdNest' = nestReg[cpu] + 1
  /\ held' = [held EXCEPT ![cpu] = @ + 1]
  /\ nestReg' = [nestReg EXCEPT ![cpu] = 0]
  /\ GoTo("user")
  /\ UNCHANGED <<thisTask, lists, state, pri, ctxs, sigs>>

PermitLoad ==
  /\ At("user") /\ held[cpu] > 0
  /\ nestReg' = [nestReg EXCEPT ![cpu] = tdNest]
  /\ held' = [held EXCEPT ![cpu] = @ - 1]
  /\ GoTo("permit")
  /\ UNCHANGED <<thisTask, tdNest, lists, state, pri, ctxs, sigs>>

PermitStore ==
  /\ At("permit")
  /\ tdNest' = nestReg[cpu] - 1
  /\ nestReg' = [nestReg EXCEPT ![cpu] = 0]
  /\ GoTo("user")
  /\ UNCHANGED <<thisTask, lists, state, pri, ctxs, sigs, held>>

Disable ==
  /\ At("user") /\ UsesDisable /\ ~irqOff
  /\ irqOff' = TRUE
  /\ UNCHANGED <<thisTask, tdNest, lists, state, pri, ctxs, sigs, cpu, pc, irq,
                 nestReg, held>>

Enable ==
  /\ At("user") /\ irqOff
  /\ irqOff' = FALSE
  /\ UNCHANGED <<thisTask, tdNest, lists, state, pri, ctxs, sigs, cpu, pc, irq,
                 nestReg, held>>

\* Wait(S): while no wanted signal has been received, sleep; then take the
\* wanted ones out of SigRecvd.  The test and the final update run with
\* interrupts as the caller left them.
WaitCall(S) ==
  /\ At("user") /\ MayBlock
  /\ signalSet' = [signalSet EXCEPT ![cpu] = S]
  /\ GoTo("test")
  /\ UNCHANGED <<thisTask, tdNest, lists, state, pri, ctxs, sigRecvd, reg, nestReg,
                 held>>

WaitTest ==
  /\ At("test")
  /\ GoTo(IF sigRecvd[cpu] \cap signalSet[cpu] = {} THEN "sleep" ELSE "load")
  /\ UNCHANGED <<thisTask, tdNest, lists, state, pri, ctxs, sigs, nestReg, held>>

\* Seeded fault: the loop of Wait is an if, so the task is resumed behind it.
Bug_SleepOnce ==
  /\ At("sleep")
  /\ waitCtx' = [waitCtx EXCEPT ![cpu] = Here("load", irqOff)]
  /\ left' = [left EXCEPT ![cpu] = Here("load", irqOff)]
  /\ savedNest' = [savedNest EXCEPT ![cpu] = tdNest]
  /\ waiting' = AddHead(waiting, cpu)
  /\ state' = [state EXCEPT ![cpu] = "WAIT"]
  /\ thisTask' = NoTask
  /\ pc' = "waitsched"
  /\ irqOff' = TRUE
  /\ UNCHANGED <<tdNest, ready, pri, saved, sigs, cpu, irq, nestReg, held>>

\* WaitPrepare and WaitTask up to its Schedule, with interrupts disabled.  The
\* task will be resumed behind context_save, where WaitFinish restores the mask
\* and the loop tests again.
WaitSleep ==
  /\ At("sleep")
  /\ waitCtx' = [waitCtx EXCEPT ![cpu] = Here("test", irqOff)]
  /\ left' = [left EXCEPT ![cpu] = Here("test", irqOff)]
  /\ savedNest' = [savedNest EXCEPT ![cpu] = tdNest]
  /\ waiting' = AddHead(waiting, cpu)
  /\ state' = [state EXCEPT ![cpu] = "WAIT"]
  /\ thisTask' = NoTask
  /\ pc' = "waitsched"
  /\ irqOff' = TRUE
  /\ UNCHANGED <<tdNest, ready, pri, saved, sigs, cpu, irq, nestReg, held>>

WaitSchedule ==
  /\ At("waitsched")
  /\ Schedule(Here("never", irqOff))
  /\ UNCHANGED <<waiting, pri, waitCtx, sigs, irq, nestReg, held>>

WaitLoad ==
  /\ At("load")
  /\ reg' = [reg EXCEPT ![cpu] = sigRecvd[cpu]]
  /\ GoTo("store")
  /\ UNCHANGED <<thisTask, tdNest, lists, state, pri, ctxs, sigRecvd, signalSet,
                 nestReg, held>>

WaitStore ==
  /\ At("store")
  /\ sigRecvd' = [sigRecvd EXCEPT ![cpu] = reg[cpu] \ signalSet[cpu]]
  /\ reg' = [reg EXCEPT ![cpu] = {}]
  /\ signalSet' = [signalSet EXCEPT ![cpu] = {}]
  /\ GoTo("user")
  /\ UNCHANGED <<thisTask, tdNest, lists, state, pri, ctxs, nestReg, held>>

\* SetSignal reads SigRecvd before it disables interrupts, and writes after.
SetSignalLoad(S) ==
  /\ At("user")
  /\ reg' = [reg EXCEPT ![cpu] = sigRecvd[cpu]]
  /\ signalSet' = [signalSet EXCEPT ![cpu] = S]
  /\ GoTo("setold")
  /\ UNCHANGED <<thisTask, tdNest, lists, state, pri, ctxs, sigRecvd, nestReg, held>>

SetSignalStore(newSignals) ==
  /\ At("setold")
  /\ sigRecvd' = [sigRecvd EXCEPT ![cpu] =
                    (reg[cpu] \ signalSet[cpu]) \cup (newSignals \cap signalSet[cpu])]
  /\ reg' = [reg EXCEPT ![cpu] = {}]
  /\ signalSet' = [signalSet EXCEPT ![cpu] = {}]
  /\ GoTo("user")
  /\ UNCHANGED <<thisTask, tdNest, lists, state, pri, ctxs, nestReg, held>>

\* Seeded faults: the task stays in TaskWait; SavedContext is not renewed; only
\* the complete set wakes.
Bug_WakeupNoRemove(t, signal) ==
  /\ IF state[t] = "WAIT"
     THEN /\ saved' = [saved EXCEPT ![t] = waitCtx[t]]
          /\ state' = [state EXCEPT ![t] = "READY"]
          /\ ready' = Enqueue(ready, t, pri)
     ELSE UNCHANGED <<saved, state, ready>>
  /\ sigRecvd' = [sigRecvd EXCEPT ![t] = @ \cup signal]
  /\ UNCHANGED waiting

Bug_WakeupOldContext(t, signal) ==
  /\ IF state[t] = "WAIT"
     THEN /\ waiting' = Unlink(waiting, t)
          /\ state' = [state EXCEPT ![t] = "READY"]
          /\ ready' = Enqueue(ready, t, pri)
     ELSE UNCHANGED <<waiting, state, ready>>
  /\ sigRecvd' = [sigRecvd EXCEPT ![t] = @ \cup signal]
  /\ UNCHANGED saved

Bug_WakeupOnAll(t, signal) ==
  /\ IF state[t] = "WAIT" /\ signalSet[t] \subseteq sigRecvd[t] \cup signal
     THEN /\ waiting' = Unlink(waiting, t)
          /\ saved' = [saved EXCEPT ![t] = waitCtx[t]]
          /\ state' = [state EXCEPT ![t] = "READY"]
          /\ ready' = Enqueue(ready, t, pri)
     ELSE UNCHANGED <<waiting, saved, state, ready>>
  /\ sigRecvd' = [sigRecvd EXCEPT ![t] = @ \cup signal]

\* WakeupTask: any signal readies a waiting task, wanted or not.  There is no
\* Schedule: a woken task of higher priority runs from the next tick on.
WakeupTask(t, signal) ==
  /\ IF state[t] = "WAIT"
     THEN /\ waiting' = Unlink(waiting, t)
          /\ saved' = [saved EXCEPT ![t] = waitCtx[t]]
          /\ state' = [state EXCEPT ![t] = "READY"]
          /\ ready' = Enqueue(ready, t, pri)
     ELSE UNCHANGED <<waiting, saved, state, ready>>
  /\ sigRecvd' = [sigRecvd EXCEPT ![t] = @ \cup signal]

Signal(t, signal) ==
  /\ At("user") /\ state[t] # "NONE"
  /\ WakeupTask(t, signal)
  /\ UNCHANGED <<thisTask, tdNest, pri, waitCtx, savedNest, left, signalSet, reg,
                 nestReg, cpus, held>>

\* SetTaskPri assigns NULL to its task argument where it means to test it, so
\* the priority goes to the byte at offset ln_Pri of address 0, whatever the
\* task; then it reschedules, unless its caller forbids it.  The Forbid and Permit
\* around the assignment undo each other, and Schedule repeats the tests SetTaskPri
\* makes before the call.
SetTaskPri(p, label) ==
  /\ pri' = [pri EXCEPT ![NoTask] = p]
  /\ Schedule(Here(label, irqOff))
  /\ UNCHANGED <<waiting, waitCtx, sigs, irq, nestReg, held>>

ChangePri(p) == At("user") /\ SetTaskPri(p, "user")

\* lib_Idle: one SetTaskPri, then an endless loop.
IdleStart == At("idle0") /\ SetTaskPri(IdlePri, "idle")
-----------------------------------------------------------------------------
(***************************************************************************)
(* The timer interrupt.  Servers of higher priority on the same line, such *)
(* as timer.device's, run first and may signal; IRQ_Tick then reschedules. *)
(***************************************************************************)
Interrupt ==
  /\ ~irqOff /\ irq = "none"
  /\ irq' = "tick"
  /\ irqOff' = TRUE
  /\ \/ UNCHANGED <<lists, state, saved, sigRecvd>>
     \/ \E t \in Task, signal \in SUBSET Sig \ {{}} :
          state[t] # "NONE" /\ WakeupTask(t, signal)
  /\ UNCHANGED <<thisTask, tdNest, pri, waitCtx, savedNest, left, signalSet, reg,
                 cpu, pc, nestReg, held>>

IRQ_Tick ==
  /\ irq = "tick"
  /\ irq' = "none"
  /\ Schedule(Here(pc, FALSE))
  /\ UNCHANGED <<waiting, pri, waitCtx, sigs, nestReg, held>>
-----------------------------------------------------------------------------
TaskStep ==
  \/ \E t \in Task : AddTask(t)
  \/ TaskReturn \/ TaskExit
  \/ ForbidLoad \/ ForbidStore \/ PermitLoad \/ PermitStore
  \/ Disable \/ Enable
  \/ \E S \in SUBSET Sig \ {{}} : WaitCall(S) \/ SetSignalLoad(S)
  \/ WaitTest \/ WaitSleep \/ WaitSchedule \/ WaitLoad \/ WaitStore
  \/ \E S \in SUBSET Sig : SetSignalStore(S)
  \/ \E t \in Task, S \in SUBSET Sig \ {{}} : Signal(t, S)
  \/ \E p \in NewPri : ChangePri(p)
  \/ IdleStart

Next == Boot \/ TaskStep \/ Interrupt \/ IRQ_Tick

Spec == Init /\ [][Next]_vars

\* The free-running timer keeps raising its interrupt, and kernel code that runs
\* with interrupts masked (boot, the handler, the switch in Wait) runs to its end.
Fairness ==
  /\ WF_vars(Boot) /\ WF_vars(WaitSchedule)
  /\ WF_vars(Interrupt) /\ WF_vars(IRQ_Tick)

FairSpec == Spec /\ Fairness
-----------------------------------------------------------------------------
(***************************************************************************)
(* What the scheduler promises.                                            *)
(***************************************************************************)
TypeOK ==
  /\ thisTask \in Tasks \cup {NoTask}
  /\ tdNest \in Int
  /\ ready \in Seq(Tasks) /\ waiting \in Seq(Tasks)
  /\ state \in [Tasks -> {"NONE", "READY", "RUN", "WAIT", "REMOVED"}]
  /\ pri \in [Tasks \cup {NoTask} -> Int]
  /\ saved \in [Tasks -> Context]
  /\ waitCtx \in [Tasks -> Context]
  /\ savedNest \in [Tasks -> Int]
  /\ sigRecvd \in [Tasks -> SUBSET Sig]
  /\ signalSet \in [Tasks -> SUBSET Sig]
  /\ reg \in [Tasks -> SUBSET Sig]
  /\ nestReg \in [Tasks -> Int]
  /\ cpu \in Tasks \cup {NoTask}
  /\ pc \in PC
  /\ irqOff \in BOOLEAN
  /\ irq \in {"none", "tick"}
  /\ held \in [Tasks -> Nat]
  /\ left \in [Tasks -> Context]

\* Each task is where its State says: a READY task is linked once in TaskReady, a
\* WAIT task once in TaskWait, and only thisTask runs or is on its way out; and
\* thisTask is the task whose stack the CPU is on, except before the first Dispatch
\* and while Wait hands the CPU over.  Wakeups in interrupts, preemption and exit
\* all relink tasks (schedule.c Dispatch, messages.c WaitTask and WakeupTask).
QueuesExact ==
  /\ Distinct(ready) /\ ToSet(ready) = {t \in Tasks : state[t] = "READY"}
  /\ Distinct(waiting) /\ ToSet(waiting) = {t \in Tasks : state[t] = "WAIT"}
  /\ \A t \in Tasks : state[t] \in {"RUN", "REMOVED"} <=> t = thisTask
  /\ thisTask = IF pc \in {"boot", "waitsched", "never"} THEN NoTask ELSE cpu

\* TaskReady is in priority order whenever the CPU can look at it, although
\* Schedule only ever takes its head (schedule.c, list.c Enqueue).
ReadySorted == SortedBy(ready, pri)

\* The places the code says are not reached are not: with no Wait and no return
\* inside Forbid, Schedule never comes back to WaitTask, TaskRun or ExecInit, and
\* Dispatch finds a task ("where is IDLE?"), since the idle task stays runnable.
NotReached == pc \notin {"never", "notreached", "ponr"} /\ state[Idle] \in {"READY", "RUN"}

\* TDNestCnt is one global that each switch saves and restores, and Forbid and
\* Permit change it with a load and a store that a tick may split; it still counts
\* exactly the Forbid calls of the running task, and no other task is inside one.
ForbidExclusive ==
  \A t \in Tasks :
    IF t = cpu
    THEN /\ tdNest = IF pc = "permit" THEN held[t] ELSE held[t] - 1
         /\ pc \in {"forbid", "permit"} => nestReg[t] = tdNest
    ELSE held[t] = 0

\* A task that does not have the CPU will go on where it lost it.  There are two
\* contexts per task, and WakeupTask has to copy the right one (messages.c:158).
Resumable ==
  \A t \in Tasks : /\ state[t] = "READY" => saved[t] = left[t]
                   /\ state[t] = "WAIT" => waitCtx[t] = left[t]

\* Wait and SetSignal read SigRecvd, decide, and write it in separate steps.  A
\* caller that has disabled interrupts around them cannot lose a signal: nothing
\* is posted between its reads and its writes, and it never sleeps on a signal it
\* has already got (messages.c lib_Wait, lib_SetSignal).
SafeWhenDisabled ==
  /\ irqOff /\ irq = "none" /\ cpu \in Tasks =>
       /\ pc \in {"store", "setold"} => reg[cpu] = sigRecvd[cpu]
       /\ pc = "sleep" => sigRecvd[cpu] \cap signalSet[cpu] = {}
  /\ \A t \in Tasks : state[t] = "WAIT" /\ waitCtx[t].off =>
       sigRecvd[t] \cap signalSet[t] = {}

\* When Wait gets to collecting, at least one signal it was asked for is there,
\* even though WakeupTask ends the sleep on any signal (messages.c:139,154).
WaitFindsSignal ==
  \A t \in Tasks :
    LET at == IF t = thisTask THEN pc
              ELSE IF state[t] = "READY" THEN saved[t].pc ELSE "none"
    IN  /\ at = "load" => sigRecvd[t] \cap signalSet[t] # {}
        /\ at = "store" => reg[t] \cap signalSet[t] # {}

\* Inside Forbid a task keeps the CPU, whatever ticks, wakeups and priority
\* changes happen (schedule.c:119, timer.c:33).
NoSwitchInForbid ==
  [][(cpu \in Tasks /\ held[cpu] > 0) => cpu' = cpu]_vars

\* After a switch, and after every tick outside Forbid, no ready task has a higher
\* priority than the one that runs (schedule.c:33-48, timer.c:33).
PriorityDispatch ==
  [][cpu' # cpu \/ (irq = "tick" /\ tdNest < 0) =>
       \A t \in ToSet(ready') : pri'[cpu'] >= pri'[t]]_vars

\* Tasks of equal priority share the CPU: a ready one gets it, since Enqueue puts
\* a preempted or woken task behind its equals (list.c:57).
RoundRobin == \A t \in Task : (state[t] = "READY") ~> (state[t] = "RUN")
=============================================================================
