---------------------------- MODULE TimerDevice ----------------------------
(***************************************************************************)
(* timer.device's requests on UNIT_VBLANK and UNIT_WAITUNTIL and its time  *)
(* commands, with the exec.library calls a client makes for them: DoIO, or *)
(* SendIO, AbortIO and WaitIO (dev.timer/io.c, _timerirq.c, lib.exec/io.c, *)
(* messages.c).  Each task has one request and one reply port.             *)
(*                                                                         *)
(* Task code is cut where the timer interrupt can come between an access   *)
(* to shared state and the next, and so between the two stores of the      *)
(* Remove in AbortIO; a stretch inside Disable is one step, and so is the  *)
(* interrupt.  Which task runs is left open: Sched shows who may.          *)
(* io_Error is left out: it is 0 whatever ends a request, for AbortIO does *)
(* not set IOERR_ABORTED.                                                  *)
(*                                                                         *)
(* The lists are sequences here, and TimerLinks adds their links.  Two     *)
(* things a client may do put the links at odds with any sequence, and     *)
(* torn says that one of them has come to pass: a neighbour of a request   *)
(* has changed between the two stores of its Remove, or a request that is  *)
(* still linked has been sent again.  The model follows the device up to   *)
(* there.                                                                  *)
(***************************************************************************)
EXTENDS Integers, FiniteSets, ExecLists

CONSTANTS
  Task,    \* the tasks, each standing for its request as well
  Delay,   \* the tr_time of a UNIT_VBLANK request, in periods of the 10 ms interrupt
  Past,    \* how far that of a UNIT_WAITUNTIL request lies behind CurrentTime, if it does
  Ahead,   \* how far TR_SETSYSTIME puts CurrentTime ahead of Elapsed
  Longest, MaxTicks   \* bounds on how far due times are followed back, and on ticks

N == Cardinality(Task)

ASSUME TimerAssumption ==
  /\ IsFiniteSet(Task)
  /\ Delay \subseteq Nat
  /\ Past \subseteq Nat \ {0}
  /\ Ahead \subseteq Nat
  /\ Longest \in Nat /\ \A d \in Past : d < Longest
  /\ MaxTicks \in Nat /\ \A d \in Delay \cup Ahead : d + N <= MaxTicks

VARIABLES
  list,    \* Lists[UNIT_VBLANK]
  until,   \* Lists[UNIT_WAITUNTIL]
  ahead,   \* CurrentTime less Elapsed
  due,     \* tr_time of each request in a list, less Elapsed; 0 when in none
  type,    \* ln_Type of each request
  port,    \* mp_MsgList of each reply port
  sig,     \* whether SigRecvd of the task has the signal of its port
  pc,      \* where each task is
  asked,   \* history: the delay asked for
  ticks,   \* history: the interrupts since then, until the request left the list
  ended,   \* history: what has ended the request of the last call
  torn     \* whether the links of a list have come apart

request == <<type, port>>
history == <<asked, ticks, ended>>
waiting == <<list, until, ahead>>
vars    == <<waiting, due, request, sig, pc, history, torn>>

\* "sent": between SendIO and WaitIO.  "waitio": the loop of WaitIO; "test",
\* "sleep", "asleep" and "collect": in the Wait it calls; "remove": behind the
\* loop.  "abort", "unlink" and "reply": in AbortIO, before Remove, between its two
\* stores and before ReplyMsg.
PC == {"user", "sent", "waitio", "test", "sleep", "asleep", "collect", "remove",
       "abort", "unlink", "reply"}

\* OpenDevice has left the requests as NT_REPLYMSG.
Init ==
  /\ list = <<>>
  /\ until = <<>>
  /\ ahead = 0
  /\ due = [t \in Task |-> 0]
  /\ type = [t \in Task |-> "REPLYMSG"]
  /\ port = [t \in Task |-> <<>>]
  /\ sig = [t \in Task |-> FALSE]
  /\ pc = [t \in Task |-> "user"]
  /\ asked = [t \in Task |-> 0]
  /\ ticks = [t \in Task |-> 0]
  /\ ended = [t \in Task |-> "none"]
  /\ torn = FALSE
----------------------------------------------------------------------------
GoTo(t, label) == pc' = [pc EXCEPT ![t] = label]

Linked(t) == t \in ToSet(list) \cup ToSet(until)

Without(q, t) == IF t \in ToSet(q) THEN Unlink(q, t) ELSE q

\* Remove unlinks a request from whichever list it is in.
RemoveNode(t) ==
  /\ list' = Without(list, t)
  /\ until' = Without(until, t)
  /\ port' = [port EXCEPT ![t] = Without(@, t)]

\* AddWaiter puts the request in front of the first one with a smaller time: what
\* Enqueue does with priorities.
AddWaiter(q, t) == Enqueue(q, t, due')

\* BeginIO with TR_ADDREQUEST, due d periods from now.  It clears IOF_QUICK, so that
\* DoIO goes on to WaitIO as SendIO's caller will.
Enter(t, d) ==
  /\ type' = [type EXCEPT ![t] = "MESSAGE"]
  /\ due' = [due EXCEPT ![t] = d]
  /\ asked' = [asked EXCEPT ![t] = d]
  /\ ticks' = [ticks EXCEPT ![t] = 0]
  /\ ended' = [ended EXCEPT ![t] = "none"]
  /\ UNCHANGED <<port, sig, ahead>>

AddRequest(t) ==
  \E d \in Delay : Enter(t, d) /\ list' = AddWaiter(list, t) /\ UNCHANGED until

\* UNIT_WAITUNTIL queues a time that has passed.
AddUntil(t) ==
  \E d \in Past : Enter(t, ahead - d) /\ until' = AddWaiter(until, t) /\ UNCHANGED list

\* ReplyMsg, with the SigRecvd part of the Signal it sends.
ReplyMsg(t) ==
  /\ type' = [type EXCEPT ![t] = "REPLYMSG"]
  /\ port' = [port EXCEPT ![t] = AddTail(@, t)]
  /\ sig' = [sig EXCEPT ![t] = TRUE]

\* A time that lies ahead, like an unknown command, is replied to at once, with
\* IOF_QUICK as it was.
ReplyNow(t) ==
  /\ ReplyMsg(t)
  /\ ended' = [ended EXCEPT ![t] = "quick"]
  /\ UNCHANGED <<waiting, due, asked, ticks>>

\* Neither call looks whether the request is still in its port, where a quick reply
\* to DoIO has left it.
DoIO(t) ==
  /\ pc[t] = "user"
  /\ \/ (AddRequest(t) \/ AddUntil(t)) /\ GoTo(t, "waitio")
     \/ ReplyNow(t) /\ UNCHANGED pc

SendIO(t) ==
  /\ pc[t] = "user"
  /\ AddRequest(t) \/ AddUntil(t) \/ ReplyNow(t)
  /\ GoTo(t, "sent")

\* The two time commands by DoIO: done and not replied to.
GetSysTime(t) ==
  /\ pc[t] = "user"
  /\ type' = [type EXCEPT ![t] = "MESSAGE"]
  /\ UNCHANGED <<waiting, due, port, sig, pc, history>>

SetSysTime(t) ==
  /\ pc[t] = "user"
  /\ type' = [type EXCEPT ![t] = "MESSAGE"]
  /\ ahead' \in Ahead
  /\ UNCHANGED <<list, until, due, port, sig, pc, history>>

GetMsg(t) ==
  /\ pc[t] = "user" /\ port[t] # <<>>
  /\ port' = [port EXCEPT ![t] = Tail(@)]
  /\ ended' = [ended EXCEPT ![t] = "none"]
  /\ UNCHANGED <<waiting, due, type, sig, pc, asked, ticks>>

WaitIO(t) ==
  /\ pc[t] = "sent"
  /\ GoTo(t, "waitio")
  /\ UNCHANGED <<waiting, due, request, sig, history>>

\* Seeded fault: the while of WaitIO is an if.
Bug_WaitIOOnce(t) ==
  /\ pc[t] = "waitio"
  /\ GoTo(t, IF type[t] = "MESSAGE" /\ ~sig[t] THEN "test" ELSE "remove")
  /\ UNCHANGED <<waiting, due, request, sig, history>>

WaitIOLoop(t) ==
  /\ pc[t] = "waitio"
  /\ GoTo(t, IF type[t] = "MESSAGE" THEN "test" ELSE "remove")
  /\ UNCHANGED <<waiting, due, request, sig, history>>

\* Wait on the signal of the port.
WaitTest(t) ==
  /\ pc[t] = "test"
  /\ GoTo(t, IF sig[t] THEN "collect" ELSE "sleep")
  /\ UNCHANGED <<waiting, due, request, sig, history>>

WaitSleep(t) ==
  /\ pc[t] = "sleep"
  /\ GoTo(t, "asleep")
  /\ UNCHANGED <<waiting, due, request, sig, history>>

WaitCollect(t) ==
  /\ pc[t] = "collect"
  /\ sig' = [sig EXCEPT ![t] = FALSE]
  /\ GoTo(t, "waitio")
  /\ UNCHANGED <<waiting, due, request, history>>

\* The history is that of the request under way.
Forget(t) ==
  /\ asked' = [asked EXCEPT ![t] = 0]
  /\ ticks' = [ticks EXCEPT ![t] = 0]
  /\ ended' = [ended EXCEPT ![t] = "none"]

\* Seeded fault: the reply is left in the port.
Bug_WaitIOLeaves(t) ==
  /\ pc[t] = "remove"
  /\ GoTo(t, "user")
  /\ Forget(t)
  /\ UNCHANGED <<waiting, due, request, sig>>

\* WaitIO takes the reply out of the port, without touching the signal.
WaitIORemove(t) ==
  /\ pc[t] = "remove"
  /\ IF type[t] = "REPLYMSG" THEN RemoveNode(t) ELSE UNCHANGED <<list, until, port>>
  /\ GoTo(t, "user")
  /\ Forget(t)
  /\ UNCHANGED <<ahead, due, type, sig>>

\* WaitIO of a request that has been replied to, and maybe waited for: it unlinks the
\* request, linked or not.
WaitIOAgain(t) ==
  /\ pc[t] = "user" /\ type[t] = "REPLYMSG"
  /\ RemoveNode(t)
  /\ Forget(t)
  /\ UNCHANGED <<ahead, due, type, sig, pc>>

\* AbortIO: the test, the two stores of Remove and ReplyMsg, with interrupts enabled
\* in between.  The first store makes the node behind point past the request, the
\* second the node in front, from where it is out of the list.
AbortIO(t) ==
  /\ pc[t] = "sent"
  /\ type[t] # "REPLYMSG"
  /\ GoTo(t, "abort")
  /\ UNCHANGED <<waiting, due, request, sig, history>>

AbortRemove(t) ==
  /\ pc[t] = "abort"
  /\ GoTo(t, "unlink")
  /\ UNCHANGED <<waiting, due, request, sig, history>>

AbortUnlink(t) ==
  /\ pc[t] = "unlink"
  /\ RemoveNode(t)
  /\ due' = [due EXCEPT ![t] = 0]
  /\ ended' = [ended EXCEPT ![t] = "abort"]
  /\ GoTo(t, "reply")
  /\ UNCHANGED <<ahead, type, sig, asked, ticks>>

AbortReply(t) ==
  /\ pc[t] = "reply"
  /\ ReplyMsg(t)
  /\ GoTo(t, "sent")
  /\ UNCHANGED <<waiting, due, history>>

\* FastAddTime moves Elapsed and CurrentTime, and with them every due time, by one
\* period.  A time that lies further back than any new one can is not told from
\* others like it.
Passed == [t \in Task |-> IF Linked(t) /\ due[t] > -Longest THEN due[t] - 1 ELSE due[t]]

\* Seeded fault: only the head of the list is looked at.
Bug_OverdueHead(q) == {i \in 1..Len(q) : i = 1 /\ due[q[i]] < 1}

\* Where in a list the requests are whose time lies behind Elapsed, once that has moved.
Overdue(q) == {i \in 1..Len(q) : due[q[i]] < 1}

\* Timer3IRQServer: of each list the first overdue request from the head is replied
\* to, and the loop is left.
Called(q) == IF Overdue(q) = {} THEN {} ELSE {q[Min(Overdue(q))]}
AllBut(q) == IF Overdue(q) = {} THEN q ELSE Unlink(q, q[Min(Overdue(q))])

\* A signal wakes its task if that is asleep.
Tick ==
  LET out == Called(list) \cup Called(until)
  IN  /\ ticks' = [t \in Task |-> IF Linked(t) /\ ticks[t] < MaxTicks THEN ticks[t] + 1
                                                 ELSE ticks[t]]
      /\ list' = AllBut(list)
      /\ until' = AllBut(until)
      /\ due' = [t \in Task |-> IF t \in out THEN 0 ELSE Passed[t]]
      /\ type' = [t \in Task |-> IF t \in out THEN "REPLYMSG" ELSE type[t]]
      /\ port' = [t \in Task |-> IF t \in out THEN AddTail(port[t], t) ELSE port[t]]
      /\ sig' = [t \in Task |-> sig[t] \/ t \in out]
      /\ pc' = [t \in Task |-> IF t \in out /\ pc[t] = "asleep" THEN "test" ELSE pc[t]]
      /\ ended' = [t \in Task |-> IF t \in out THEN "tick" ELSE ended[t]]
      /\ UNCHANGED <<ahead, asked>>

\* Whether a request is in a list, and between which others.
Place(q, t) ==
  LET Pair == {i \in 1..Len(q) - 1 : t \in {q[i], q[i + 1]}}
  IN  <<t \in ToSet(q), {<<q[i], q[i + 1]>> : i \in Pair}>>

\* A list changes next to a request that somebody is about to unlink with links read
\* before the change or, as AbortUnlink reads both again, half before and half after.
Disturbed ==
  \E t \in Task :
    /\ pc[t] = "unlink" /\ pc'[t] = "unlink"
    /\ Place(list', t) # Place(list, t) \/ Place(until', t) # Place(until, t)

\* A request is linked while it is linked in its port.
LinkedAgain(t) == port[t] # <<>> /\ (Linked(t)' \/ Len(port'[t]) > 1)

Call(t) ==
  \/ DoIO(t) \/ SendIO(t) \/ GetSysTime(t) \/ SetSysTime(t) \/ GetMsg(t)
  \/ WaitIO(t) \/ WaitIOLoop(t) \/ WaitTest(t) \/ WaitSleep(t) \/ WaitCollect(t)
  \/ WaitIORemove(t) \/ WaitIOAgain(t)
  \/ AbortIO(t) \/ AbortRemove(t) \/ AbortUnlink(t) \/ AbortReply(t)

TaskStep(t) == ~torn /\ Call(t) /\ torn' = (Disturbed \/ LinkedAgain(t))

Interrupt == ~torn /\ Tick /\ torn' = Disturbed

\* Behind the damage nothing is modelled.
Damaged == torn /\ UNCHANGED vars

Next == Interrupt \/ (\E t \in Task : TaskStep(t)) \/ Damaged

Spec == Init /\ [][Next]_vars

\* The hardware timer keeps interrupting, and every task gets the CPU.
FairSpec == Spec /\ WF_vars(Interrupt) /\ \A t \in Task : WF_vars(TaskStep(t))
----------------------------------------------------------------------------
TypeOK ==
  /\ list \in Seq(Task) /\ until \in Seq(Task)
  /\ ahead \in Nat
  /\ due \in [Task -> Int]
  /\ type \in [Task -> {"MESSAGE", "REPLYMSG"}]
  /\ port \in [Task -> Seq(Task)]
  /\ sig \in [Task -> BOOLEAN]
  /\ pc \in [Task -> PC]
  /\ asked \in [Task -> Int]
  /\ ticks \in [Task -> Nat]
  /\ ended \in [Task -> {"none", "quick", "tick", "abort"}]
  /\ torn \in BOOLEAN

\* A request is linked in one list at most, and once: one of the device's while it is
\* a message, its reply port's from the reply until WaitIO has returned, or the caller
\* of a quick DoIO has taken it.  So it is though the interrupt may reply between any
\* two steps of AbortIO, whose Remove may then take the request out of its port, and
\* though a client may wait twice; as long as no list is torn (dev.timer/io.c:122-129,
\* lib.exec/io.c:77-82, _timerirq.c:29).
OnePlace ==
  /\ TypeOK
  /\ ~torn =>
       /\ Distinct(list) /\ Distinct(until) /\ ToSet(list) \cap ToSet(until) = {}
       /\ \A t \in Task :
            /\ Linked(t) => type[t] = "MESSAGE"
            /\ ~Linked(t) /\ type[t] = "MESSAGE" => pc[t] \in {"reply", "user"}
            /\ port[t] = IF \/ pc[t] = "reply"
                            \/ pc[t] # "user" /\ type[t] = "MESSAGE"
                            \/ pc[t] = "user" /\ ended[t] # "quick"
                         THEN <<>> ELSE <<t>>

\* WaitIO does not return before the reply, even though the signal it waits for may
\* be left over from an earlier request: it leaves the signal set when the reply
\* came before the first Wait (lib.exec/io.c:70-83).
WaitIOWaits == ~torn => \A t \in Task : pc[t] \in {"user", "remove"} => ~Linked(t)

\* Every client of UNIT_VBLANK asks for a period at least per other client.
LongDelays == \A d \in Delay : d >= N - 1

\* No request is replied to before its time.  One of UNIT_VBLANK waits for the periods
\* it asked for and at most one more for every task, although one interrupt replies to
\* one request of a list and starts with the latest (_timerirq.c:24-52,
\* dev.timer/io.c:34), if LongDelays: clients that ask for less may come back in front
\* of it for ever.  Clients of UNIT_WAITUNTIL do not delay it.
Punctual ==
  ~torn =>
    \A t \in Task :
      /\ ended[t] = "tick" => ticks[t] > asked[t]
      /\ LongDelays /\ t \in ToSet(list) => ticks[t] < asked[t] + N

\* DoIO comes back, unless a list is torn: "5Sec Timeout" (raspi/platform.c:204).
DoIOReturns == \A t \in Task : (pc[t] = "waitio") ~> (pc[t] = "user" \/ torn)
============================================================================
