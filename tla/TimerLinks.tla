----------------------------- MODULE TimerLinks -----------------------------
(***************************************************************************)
(* TimerDevice with the links of its lists: those of the device, and the   *)
(* reply ports.  Each step makes the stores its list functions make, from  *)
(* the links it finds (dev.timer/io.c, _timerirq.c, lib.exec/list.c,       *)
(* messages.c); AddWaiter and the interrupt walk along them.               *)
(***************************************************************************)
EXTENDS TimerDevice

CONSTANT NULL

Links == INSTANCE LinkedLists

VARIABLE mem   \* ln_Succ and ln_Pred of the requests and of the list headers

Named(name) == Links!Header(<<"head", name>>, <<"tail", name>>)

Vblank    == Named("vblank")
WaitUntil == Named("waituntil")
Port(t)   == Named(t)

Headers == {Vblank, WaitUntil} \cup {Port(t) : t \in Task}
Cell    == Task \cup {l.head : l \in Headers} \cup {l.tail : l \in Headers}

\* The lists are empty, and the links of each request are those its last stay in its
\* port has left: it has been used before.
LinksInit ==
  LET heads == {l.head : l \in Headers}
      tails == {l.tail : l \in Headers}
      Of(c) == IF c \in Task THEN Port(c) ELSE CHOOSE l \in Headers : c \in {l.head, l.tail}
  IN  mem = [succ |-> [c \in Cell |-> IF c \in tails THEN NULL ELSE Of(c).tail],
             pred |-> [c \in Cell |-> IF c \in heads THEN NULL ELSE Of(c).head]]

\* No walk is longer.
Bound == N + 1

\* AddWaiter: in front of the first request with a smaller time, or at the tail.
AddWaiterLinks(l, t) ==
  LET at == Links!WalkEnd(mem, l, {u \in Task : due'[u] < due'[t]}, Bound)
  IN  IF at = l.tail THEN Links!LinkTail(mem, l, t)
      ELSE Links!LinkBehind(mem, l, t, mem.pred[at])

\* Seeded fault: the interrupt replies without Remove.
Bug_CallLinks(m, l) ==
  LET at == Links!WalkEnd(m, l, {u \in Task : due[u] < 1}, Bound)
  IN  IF at = l.tail THEN m ELSE Links!LinkTail(m, Port(at), at)

\* What the interrupt does to one list: the first overdue request goes to its port.
CallLinks(m, l) ==
  LET at == Links!WalkEnd(m, l, {u \in Task : due[u] < 1}, Bound)
  IN  IF at = l.tail THEN m ELSE Links!LinkTail(Links!RemoveNode(m, at), Port(at), at)

InterruptLinks == CallLinks(CallLinks(mem, Vblank), WaitUntil)

Linking(t) ==
  \/ AddRequest(t) /\ mem' = AddWaiterLinks(Vblank, t)
  \/ AddUntil(t) /\ mem' = AddWaiterLinks(WaitUntil, t)
  \/ ReplyNow(t) /\ mem' = Links!LinkTail(mem, Port(t), t)

LinkStep(t) ==
  \/ (DoIO(t) \/ SendIO(t)) /\ Linking(t)
  \/ GetMsg(t) /\ mem' = Links!RemHead(mem, Port(t)).mem
  \/ /\ WaitIORemove(t)
     /\ mem' = IF type[t] = "REPLYMSG" THEN Links!RemoveNode(mem, t) ELSE mem
  \/ WaitIOAgain(t) /\ mem' = Links!RemoveNode(mem, t)
  \/ AbortRemove(t) /\ mem' = Links!RemoveStore1(mem, t)
  \/ AbortUnlink(t) /\ mem' = Links!RemoveStore2(mem, t)
  \/ AbortReply(t) /\ mem' = Links!LinkTail(mem, Port(t), t)
  \/ /\ \/ GetSysTime(t) \/ SetSysTime(t) \/ WaitIO(t) \/ WaitIOLoop(t)
        \/ WaitTest(t) \/ WaitSleep(t) \/ WaitCollect(t) \/ AbortIO(t)
     /\ UNCHANGED mem

LinksNext ==
  \/ Interrupt /\ mem' = InterruptLinks
  \/ \E t \in Task : TaskStep(t) /\ LinkStep(t)
  \/ Damaged /\ UNCHANGED mem

LinksSpec == Init /\ LinksInit /\ [][LinksNext]_<<vars, mem>>
----------------------------------------------------------------------------
\* Forward, the links are those of the sequence.
Forward(l, q) ==
  LET chain == <<l.head>> \o q \o <<l.tail>>
  IN  \A i \in 1..Len(q) + 1 : mem.succ[chain[i]] = chain[i + 1]

\* The unprotected Remove of AbortIO is right as long as nothing changes next to the
\* request between its two stores, and a second WaitIO as long as a request has its
\* port for itself: but for the lists somebody is just removing from, whose links hold
\* in the forward direction, which is the one the interrupt walks, every list links
\* what it should in both directions (dev.timer/io.c:126, lib.exec/list.c:96-100,
\* lib.exec/io.c:77-82).
LinksExact ==
  ~torn =>
    \A <<l, q>> \in {<<Vblank, list>>, <<WaitUntil, until>>}
                      \cup {<<Port(t), port[t]>> : t \in Task} :
      IF \E t \in ToSet(q) : pc[t] = "unlink" THEN Forward(l, q)
                                              ELSE Links!Represents(mem, l, q)
=============================================================================
