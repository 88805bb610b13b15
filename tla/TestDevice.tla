----------------------------- MODULE TestDevice -----------------------------
(***************************************************************************)
(* testdev.device: a device with a task of its own, its clients, and the   *)
(* timer that calls it (dev.test, with DoIO, SendIO, WaitIO of             *)
(* lib.exec/io.c and PutMsg, GetMsg, ReplyMsg, Wait, Signal of             *)
(* messages.c).  The device task reads requests from TaskPort and is       *)
(* called by a timer request of its own.                                   *)
(*                                                                         *)
(* All tasks share one CPU.  The device's priority is above its clients',  *)
(* and a wakeup does not switch: a woken task gets the CPU at the next     *)
(* tick, or when the running one sleeps.  Task code is cut where a tick    *)
(* can come between two accesses to shared state; a stretch inside Disable *)
(* is one step, and so is the interrupt.                                   *)
(***************************************************************************)
EXTENDS Integers, FiniteSets, ExecLists

CONSTANTS
  Client,   \* the tasks that use the device, each with one request and reply port
  Dev,      \* the device task
  Idle,     \* the idle task
  NoReq,    \* NULL
  Uses      \* the commands each client gives the device

Task == Client \cup {Dev, Idle}

Command == {"READ", "WRITE", "UPDATE"}

ASSUME TestDeviceAssumption ==
  /\ IsFiniteSet(Client)
  /\ Dev \notin Client /\ Idle \notin Client \cup {Dev} /\ NoReq \notin Client
  /\ Uses \in [Client -> SUBSET Command]

VARIABLES
  cpu,       \* the task that runs
  ready,     \* TaskReady
  pc,        \* where each task is
  sig,       \* SigRecvd of each task
  reg,       \* SigRecvd as a task in Wait has loaded it
  taskPort,  \* TaskPort->mp_MsgList
  port,      \* mp_MsgList of each client's reply port
  type,      \* ln_Type of each request
  quick,     \* IOF_QUICK in io_Flags of each request
  cmd,       \* io_Command of each request
  error,     \* io_Error of each request
  sync,      \* whether the client is in DoIO, not in SendIO or WaitIO
  current,   \* ior, the request the device has taken from TaskPort
  timer,     \* how often the timer request is linked in the timer's list
  aborted    \* history: the client has called AbortIO for this request

sched   == <<cpu, ready>>
signals == <<sig, reg>>
request == <<type, quick, cmd, error>>
device  == <<current, timer>>
vars    == <<sched, pc, signals, taskPort, port, request, sync, device, aborted>>

IOERR_NOCMD == -3

WaitPC   == {"test", "sleep", "asleep", "load", "store"}
ClientPC == {"user", "put", "putsig", "flags", "sent", "waitio", "remove"}
DevPC    == {"serve", "perform", "reply", "replysig", "timer"}

Signals == {"task", "time", "reply"}

\* The signals each task waits for: those of TaskPort and TimerPort, or that of
\* the reply port.
Wanted(t) == IF t = Dev THEN {"task", "time"} ELSE {"reply"}

\* Seeded fault: the device task is created with its clients' priority.
Bug_EqualPri == [t \in Task |-> IF t = Idle THEN -128 ELSE 0]

\* tdev_Init creates the device task with priority 10; the demo tasks have 0 or -1.
pri == [t \in Task |-> IF t = Dev THEN 10 ELSE IF t = Idle THEN -128 ELSE 0]

\* The device has made its ports and sent its timer request; the clients have
\* opened it.
Init ==
  /\ cpu = Dev
  /\ \E q \in SetToSeqs(Client) : ready = Append(q, Idle)
  /\ pc = [t \in Task |-> IF t = Dev THEN "test" ELSE "user"]
  /\ sig = [t \in Task |-> {}]
  /\ reg = [t \in Task |-> {}]
  /\ taskPort = <<>>
  /\ port = [c \in Client |-> <<>>]
  /\ type = [c \in Client |-> "REPLYMSG"]
  /\ quick = [c \in Client |-> FALSE]
  /\ cmd = [c \in Client |-> "UPDATE"]
  /\ error = [c \in Client |-> 0]
  /\ sync = [c \in Client |-> FALSE]
  /\ current = NoReq
  /\ timer = 1
  /\ aborted = [c \in Client |-> FALSE]
-----------------------------------------------------------------------------
At(t, label) == cpu = t /\ pc[t] = label

GoTo(t, label) == pc' = [pc EXCEPT ![t] = label]

\* Seeded fault: a signal is only posted to a task that sleeps.
Bug_WakeupAsleepOnly(t, s, label) ==
  /\ sig' = IF pc[t] = "asleep" THEN [sig EXCEPT ![t] = @ \cup {s}] ELSE sig
  /\ ready' = IF pc[t] = "asleep" THEN Enqueue(ready, t, pri) ELSE ready
  /\ pc' = [u \in Task |-> IF u = t /\ pc[t] = "asleep" THEN "test"
                           ELSE IF u = cpu THEN label ELSE pc[u]]

\* WakeupTask, called by the running task, which goes on at label.
WakeupTask(t, s, label) ==
  /\ sig' = [sig EXCEPT ![t] = @ \cup {s}]
  /\ ready' = IF pc[t] = "asleep" THEN Enqueue(ready, t, pri) ELSE ready
  /\ pc' = [u \in Task |-> IF u = t /\ pc[t] = "asleep" THEN "test"
                           ELSE IF u = cpu THEN label ELSE pc[u]]

\* Wait: the test and the update of SigRecvd run with interrupts enabled.
WaitTest(t) ==
  /\ At(t, "test")
  /\ GoTo(t, IF sig[t] \cap Wanted(t) = {} THEN "sleep" ELSE "load")
  /\ UNCHANGED <<sched, signals, taskPort, port, request, sync, device, aborted>>

WaitSleep(t) ==
  /\ At(t, "sleep")
  /\ GoTo(t, "asleep")
  /\ cpu' = Head(ready)
  /\ ready' = Tail(ready)
  /\ UNCHANGED <<signals, taskPort, port, request, sync, device, aborted>>

WaitLoad(t) ==
  /\ At(t, "load")
  /\ reg' = [reg EXCEPT ![t] = sig[t]]
  /\ GoTo(t, "store")
  /\ UNCHANGED <<sched, sig, taskPort, port, request, sync, device, aborted>>

\* The device serves its port if TaskPort's signal is among those received, and
\* takes it for the timer's call only otherwise.
WaitStore(t) ==
  /\ At(t, "store")
  /\ sig' = [sig EXCEPT ![t] = reg[t] \ Wanted(t)]
  /\ reg' = [reg EXCEPT ![t] = {}]
  /\ GoTo(t, IF t # Dev THEN "waitio"
             ELSE IF "task" \in reg[t] THEN "serve" ELSE "timer")
  /\ UNCHANGED <<sched, taskPort, port, request, sync, device, aborted>>

Wait(t) == WaitTest(t) \/ WaitSleep(t) \/ WaitLoad(t) \/ WaitStore(t)
-----------------------------------------------------------------------------
(***************************************************************************)
(* A client.                                                               *)
(***************************************************************************)
\* What tdev_PerformIO leaves in io_Error: CMD_WRITE is not implemented.
Outcome(command) == IF command = "WRITE" THEN IOERR_NOCMD ELSE 0

\* DoIO: tdev_BeginIO performs what can be done quickly at once, with IOF_QUICK
\* left set, and DoIO returns.
DoIO(c, command) ==
  /\ At(c, "user")
  /\ cmd' = [cmd EXCEPT ![c] = command]
  /\ quick' = [quick EXCEPT ![c] = TRUE]
  /\ type' = [type EXCEPT ![c] = "NONE"]
  /\ aborted' = [aborted EXCEPT ![c] = FALSE]
  /\ IF command \in {"READ", "WRITE"}
     THEN /\ error' = [error EXCEPT ![c] = 0]
          /\ sync' = [sync EXCEPT ![c] = TRUE]
          /\ GoTo(c, "put")
     ELSE /\ error' = [error EXCEPT ![c] = Outcome(command)]
          /\ UNCHANGED <<sync, pc>>
  /\ UNCHANGED <<sched, signals, taskPort, port, device>>

SendIO(c, command) ==
  /\ At(c, "user")
  /\ cmd' = [cmd EXCEPT ![c] = command]
  /\ quick' = [quick EXCEPT ![c] = FALSE]
  /\ type' = [type EXCEPT ![c] = "MESSAGE"]
  /\ error' = [error EXCEPT ![c] = 0]
  /\ sync' = [sync EXCEPT ![c] = FALSE]
  /\ aborted' = [aborted EXCEPT ![c] = FALSE]
  /\ GoTo(c, "put")
  /\ UNCHANGED <<sched, signals, taskPort, port, device>>

\* PutMsg to TaskPort: link under Disable, then Signal.
PutMsg(c) ==
  /\ At(c, "put")
  /\ type' = [type EXCEPT ![c] = "MESSAGE"]
  /\ taskPort' = AddTail(taskPort, c)
  /\ GoTo(c, "putsig")
  /\ UNCHANGED <<sched, signals, port, quick, cmd, error, sync, device, aborted>>

\* Seeded fault: the port is taken for a PA_IGNORE one.
Bug_PutMsgIgnore(c) ==
  /\ At(c, "putsig")
  /\ GoTo(c, "flags")
  /\ UNCHANGED <<sched, signals, taskPort, port, request, sync, device, aborted>>

PutMsgSignal(c) ==
  /\ At(c, "putsig")
  /\ WakeupTask(Dev, "task", "flags")
  /\ UNCHANGED <<cpu, reg, taskPort, port, request, sync, device, aborted>>

\* tdev_BeginIO returns to SendIO, which returns, or to DoIO, which waits unless
\* IOF_QUICK is still set.
BeginIOReturn(c) ==
  /\ At(c, "flags")
  /\ GoTo(c, IF ~sync[c] THEN "sent" ELSE IF quick'[c] THEN "user" ELSE "waitio")
  /\ UNCHANGED <<sched, signals, taskPort, port, type, cmd, error, sync, device,
                 aborted>>

\* Seeded fault: IOF_QUICK is not cleared.
Bug_BeginIOKeepsQuick(c) == UNCHANGED quick /\ BeginIOReturn(c)

\* IOF_QUICK is cleared only behind PutMsg, when the device may have replied.
BeginIODone(c) == quick' = [quick EXCEPT ![c] = FALSE] /\ BeginIOReturn(c)

\* tdev_AbortIO only clears io_Error.
AbortIO(c) ==
  /\ At(c, "sent")
  /\ error' = [error EXCEPT ![c] = 0]
  /\ aborted' = [aborted EXCEPT ![c] = TRUE]
  /\ UNCHANGED <<sched, pc, signals, taskPort, port, type, quick, cmd, sync, device>>

WaitIO(c) ==
  /\ At(c, "sent")
  /\ GoTo(c, "waitio")
  /\ UNCHANGED <<sched, signals, taskPort, port, request, sync, device, aborted>>

WaitIOLoop(c) ==
  /\ At(c, "waitio")
  /\ GoTo(c, IF ~quick[c] /\ type[c] = "MESSAGE" THEN "test" ELSE "remove")
  /\ UNCHANGED <<sched, signals, taskPort, port, request, sync, device, aborted>>

\* Seeded fault: the reply is left in the port.
Bug_WaitIOLeaves(c) ==
  /\ At(c, "remove")
  /\ GoTo(c, "user")
  /\ UNCHANGED <<sched, signals, taskPort, port, request, sync, device, aborted>>

\* The reply is taken out of its port, and WaitIO, and DoIO with it, returns.
WaitIORemove(c) ==
  /\ At(c, "remove")
  /\ port' = IF type[c] = "REPLYMSG" THEN [port EXCEPT ![c] = Unlink(@, c)] ELSE port
  /\ GoTo(c, "user")
  /\ UNCHANGED <<sched, signals, taskPort, request, sync, device, aborted>>

ClientStep(c) ==
  \/ \E command \in Uses[c] : DoIO(c, command) \/ SendIO(c, command)
  \/ PutMsg(c) \/ PutMsgSignal(c) \/ BeginIODone(c)
  \/ AbortIO(c) \/ WaitIO(c) \/ WaitIOLoop(c) \/ WaitIORemove(c)
  \/ Wait(c)
-----------------------------------------------------------------------------
(***************************************************************************)
(* The device task, dev_Task, behind its set-up.                           *)
(***************************************************************************)
\* GetMsg: the next request, or back to Wait when there is none.
GetMsg ==
  /\ At(Dev, "serve")
  /\ IF IsListEmpty(taskPort)
     THEN UNCHANGED taskPort /\ current' = NoReq /\ GoTo(Dev, "test")
     ELSE /\ current' = Head(taskPort)
          /\ taskPort' = Tail(taskPort)
          /\ GoTo(Dev, "perform")
  /\ UNCHANGED <<sched, signals, port, request, sync, timer, aborted>>

PerformIO ==
  /\ At(Dev, "perform")
  /\ error' = [error EXCEPT ![current] = Outcome(cmd[current])]
  /\ GoTo(Dev, "reply")
  /\ UNCHANGED <<sched, signals, taskPort, port, type, quick, cmd, sync, device, aborted>>

\* ReplyMsg: link under Disable, then Signal.
ReplyMsg ==
  /\ At(Dev, "reply")
  /\ type' = [type EXCEPT ![current] = "REPLYMSG"]
  /\ port' = [port EXCEPT ![current] = AddTail(@, current)]
  /\ GoTo(Dev, "replysig")
  /\ UNCHANGED <<sched, signals, taskPort, quick, cmd, error, sync, device, aborted>>

ReplyMsgSignal ==
  /\ At(Dev, "replysig")
  /\ WakeupTask(current, "reply", "serve")
  /\ UNCHANGED <<cpu, reg, taskPort, port, request, sync, device, aborted>>

\* The timer has called: SendIO of the timer request.  Its reply stays linked in
\* TimerPort, which nothing reads; that link is not modelled.
TimerCalled ==
  /\ At(Dev, "timer")
  /\ timer' = timer + 1
  /\ GoTo(Dev, "test")
  /\ UNCHANGED <<sched, signals, taskPort, port, request, sync, current, aborted>>

DeviceStep == GetMsg \/ PerformIO \/ ReplyMsg \/ ReplyMsgSignal \/ TimerCalled \/ Wait(Dev)
-----------------------------------------------------------------------------
\* TaskReady once the timer's server has woken the device task, if it has, and
\* Dispatch has put the running task back.
Preempted(woken) ==
  Enqueue(IF woken THEN Enqueue(ready, Dev, pri) ELSE ready, cpu, pri)

\* The timer interrupt: the timer's server may find the device's request due and
\* replies to it; then IRQ_Tick reschedules.
Interrupt ==
  /\ \E due \in IF timer > 0 THEN BOOLEAN ELSE {FALSE} :
       LET woken == due /\ pc[Dev] = "asleep"
       IN  /\ timer' = IF due THEN timer - 1 ELSE timer
           /\ sig' = IF due THEN [sig EXCEPT ![Dev] = @ \cup {"time"}] ELSE sig
           /\ pc' = IF woken THEN [pc EXCEPT ![Dev] = "test"] ELSE pc
           /\ cpu' = Head(Preempted(woken))
           /\ ready' = Tail(Preempted(woken))
  /\ UNCHANGED <<reg, taskPort, port, request, sync, current, aborted>>

Next == DeviceStep \/ Interrupt \/ \E c \in Client : ClientStep(c)

Spec == Init /\ [][Next]_vars

\* Interrupts keep coming; the CPU executes the task it has; a client whose turn
\* comes again and again gets on with the call it is in.
FairSpec ==
  /\ Spec
  /\ WF_vars(Interrupt) /\ WF_vars(DeviceStep)
  /\ \A c \in Client : SF_vars(ClientStep(c))
-----------------------------------------------------------------------------
(***************************************************************************)
(* What the device promises.                                               *)
(***************************************************************************)
TypeOK ==
  /\ cpu \in Task /\ ready \in Seq(Task)
  /\ pc \in [Task -> WaitPC \cup ClientPC \cup DevPC]
  /\ sig \in [Task -> SUBSET Signals] /\ reg \in [Task -> SUBSET Signals]
  /\ \A t \in Task : sig[t] \subseteq Wanted(t) /\ reg[t] \subseteq Wanted(t)
  /\ taskPort \in Seq(Client)
  /\ port \in [Client -> Seq(Client)]
  /\ type \in [Client -> {"NONE", "MESSAGE", "REPLYMSG"}]
  /\ quick \in [Client -> BOOLEAN]
  /\ cmd \in [Client -> Command]
  /\ error \in [Client -> {0, IOERR_NOCMD}]
  /\ sync \in [Client -> BOOLEAN]
  /\ current \in Client \cup {NoReq}
  /\ timer \in 0..1
  /\ aborted \in [Client -> BOOLEAN]

InService(c) == current = c /\ pc[Dev] \in {"perform", "reply"}

Places(c) ==
  {p \in {"TaskPort", "device", "reply port"} :
     \/ p = "TaskPort" /\ c \in ToSet(taskPort)
     \/ p = "device" /\ InService(c)
     \/ p = "reply port" /\ port[c] # <<>>}

\* A request is in one place: waiting in TaskPort, in the hands of the device, in
\* its reply port, or with its client; and its ln_Type, by which WaitIO decides to
\* wait and to unlink, says which (io.c:68,75; messages.c:24,57).
OnePlace ==
  /\ TypeOK
  /\ Distinct(taskPort)
  /\ \A c \in Client :
       /\ port[c] \in {<<>>, <<c>>}
       /\ IF pc[c] \in {"user", "put"}
          THEN Places(c) = {}
          ELSE \/ type[c] = "REPLYMSG" /\ Places(c) = {"reply port"}
               \/ type[c] = "MESSAGE" /\ Places(c) \in {{"TaskPort"}, {"device"}}

\* The device never sleeps on a request, but for one whose client has not come to
\* the Signal of PutMsg yet.  Wait's test and its sleep are separate, and so are the
\* two halves of its update of SigRecvd; what saves the device is that it runs above
\* its clients, so that none of them can post in between (messages.c:139,147).
NothingForgotten ==
  pc[Dev] = "asleep" => \A c \in ToSet(taskPort) : pc[c] = "putsig"

\* A client that sleeps although its reply has come has the signal at least: the
\* device posts to the client whether it sleeps already or not (messages.c:169).
ReplySignalled ==
  \A c \in Client : pc[c] = "asleep" /\ type[c] = "REPLYMSG" =>
                      "reply" \in sig[c] \/ (current = c /\ pc[Dev] = "replysig")

\* When DoIO or WaitIO returns, io_Error is what the command's execution has left
\* there, although IOF_QUICK is cleared after the request has been handed over
\* (testdevice.c:57,58), unless the client has aborted it.
Answered ==
  \A c \in Client : pc[c] = "user" /\ ~aborted[c] => error[c] = Outcome(cmd[c])

\* Every request in TaskPort is replied to in the end, if the device gets to sleep
\* again and again: its timer calls every 10 seconds, a thousand ticks.
Served ==
  []<>(pc[Dev] = "asleep") =>
    \A c \in Client : (c \in ToSet(taskPort)) ~> (type[c] = "REPLYMSG")
=============================================================================
