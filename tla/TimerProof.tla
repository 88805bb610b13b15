----------------------------- MODULE TimerProof -----------------------------
(***************************************************************************)
(* Theorems about TimerDevice, for any tasks, delays and times, and about  *)
(* the arithmetic on times, words and numerals of ArithmeticCalls, for any *)
(* width of a word and any number of 64 bits.                              *)
(*                                                                         *)
(* OnePlace and WaitIOWaits are inductive only together: that the Remove   *)
(* of WaitIO takes a request out of its port, and not out of a list of the *)
(* device, is WaitIOWaits, which rests on a request that is a message      *)
(* being linked.  Placed joins them, task by task, and adds that AbortIO   *)
(* has unlinked what it replies to.  Punctual has an argument of its own,  *)
(* TimeInv.  Both hold until a list is torn; what comes behind is open.    *)
(*                                                                         *)
(* ArithmeticCorrect rests on one lemma about loops, LoopEnds: a loop that *)
(* keeps an invariant and lowers a variant has ended within the rounds it  *)
(* is given.  Each routine's loop has its invariant: Exact and Starts for  *)
(* the trial subtractions, Up for the shifts before them, Scale for the    *)
(* pairs of words, Partial for the loops that write a number; those end    *)
(* because a round at least halves what is left (Halvings).                *)
(***************************************************************************)
EXTENDS TimerDevice, ArithmeticCalls, ExecListTheorems, FiniteSetTheorems, FunctionTheorems, TLAPS

Placed(t) ==
  /\ Linked(t) => type[t] = "MESSAGE" /\ pc[t] \notin {"user", "remove", "reply"}
  /\ ~Linked(t) /\ type[t] = "MESSAGE" => pc[t] \in {"reply", "user"}
  /\ pc[t] = "reply" => port[t] = <<>>
  /\ pc[t] # "user" /\ type[t] = "MESSAGE" => port[t] = <<>>
  /\ pc[t] = "user" => port[t] = IF ended[t] = "quick" THEN <<t>> ELSE <<>>
  /\ pc[t] \notin {"reply", "user"} /\ type[t] # "MESSAGE" => port[t] = <<t>>

ListsDistinct ==
  Distinct(list) /\ Distinct(until) /\ ToSet(list) \cap ToSet(until) = {}

TimerInv == TypeOK /\ ListsDistinct /\ \A t \in Task : Placed(t)

\* What holds in every state: a torn list holds anything.
UntilTorn == TypeOK /\ (~torn => TimerInv)
----------------------------------------------------------------------------
(***************************************************************************)
(* Lists of requests.                                                      *)
(***************************************************************************)
\* Remove takes a request out of the list, if it is in it.
LEMMA WithoutMembers ==
  ASSUME NEW S, NEW q \in Seq(S), NEW t, Distinct(q)
  PROVE  /\ Without(q, t) \in Seq(S) /\ Distinct(Without(q, t))
         /\ ToSet(Without(q, t)) = ToSet(q) \ {t}
BY UnlinkMembers DEF Without

\* Of a port with one request at most, its Remove leaves nothing.
LEMMA ShortWithout ==
  ASSUME NEW t \in Task, NEW q, q \in {<<>>, <<t>>}
  PROVE  Without(q, t) = <<>>
<1>1. CASE q = <<t>>
  <2>1. q \in Seq(Task) /\ Distinct(q) /\ ToSet(q) = {t}
    BY <1>1, ShortLists
  <2>2. Without(q, t) \in Seq(Task) /\ ToSet(Without(q, t)) = {}
    BY <2>1, WithoutMembers
  <2> HIDE <1>1
  <2> QED
    BY <2>2, ShortLists
<1>2. CASE q = <<>>
  <2>1. t \notin ToSet(<<>>)
    BY DEF ToSet
  <2> QED
    BY <1>2, <2>1 DEF Without
<1> QED
  BY <1>1, <1>2

\* The interrupt takes what it replies to out of its list, and nothing else.
LEMMA CalledMembers ==
  ASSUME NEW q \in Seq(Task), Distinct(q), due \in [Task -> Int]
  PROVE  /\ Called(q) \subseteq ToSet(q)
         /\ AllBut(q) \in Seq(Task) /\ Distinct(AllBut(q))
         /\ ToSet(AllBut(q)) = ToSet(q) \ Called(q)
<1>1. CASE Overdue(q) = {}
  BY <1>1 DEF Called, AllBut
<1>2. CASE Overdue(q) # {}
  <2> DEFINE k == Min(Overdue(q))
  <2>1. Overdue(q) \in SUBSET Nat /\ \A i \in Overdue(q) : i \in 1..Len(q)
    BY LenProperties DEF Overdue
  <2>2. k \in Overdue(q)
    BY <1>2, <2>1, MinIsLeast
  <2>3. k \in 1..Len(q) /\ q[k] \in ToSet(q)
    BY <2>1, <2>2, LenProperties DEF ToSet
  <2>4. Called(q) = {q[k]} /\ AllBut(q) = Unlink(q, q[k])
    BY <1>2 DEF Called, AllBut
  <2> HIDE DEF k
  <2> QED
    BY <2>3, <2>4, UnlinkMembers
<1> QED
  BY <1>1, <1>2
----------------------------------------------------------------------------
(***************************************************************************)
(* The invariant.                                                          *)
(***************************************************************************)
\* At the beginning no request is under way.
LEMMA TimerInit == Init => TimerInv /\ ~torn
<1> SUFFICES ASSUME Init PROVE TimerInv /\ ~torn
  OBVIOUS
<1>1. <<>> \in Seq(Task) /\ ToSet(<<>>) = {} /\ Distinct(<<>>)
  BY DEF ToSet, Distinct
<1>2. ListsDistinct /\ ~torn
  BY <1>1 DEF Init, ListsDistinct
<1>3. TypeOK
  <2>1. /\ port \in [Task -> Seq(Task)] /\ sig \in [Task -> BOOLEAN]
        /\ torn \in BOOLEAN /\ list \in Seq(Task) /\ until \in Seq(Task)
    BY <1>1, Zenon DEF Init
  <2>2. /\ ahead \in Nat /\ due \in [Task -> Int] /\ pc \in [Task -> PC]
        /\ asked \in [Task -> Int] /\ ticks \in [Task -> Nat]
        /\ type \in [Task -> {"MESSAGE", "REPLYMSG"}]
        /\ ended \in [Task -> {"none", "quick", "tick", "abort"}]
    BY DEF Init, PC
  <2> QED
    BY <2>1, <2>2 DEF TypeOK
<1>4. ASSUME NEW t \in Task PROVE Placed(t)
  BY <1>1 DEF Init, Placed, Linked
<1> QED
  BY <1>2, <1>3, <1>4 DEF TimerInv

\* A step of one task leaves the requests of the others where they are.
LEMMA OneTask ==
  ASSUME TimerInv, NEW t \in Task, TypeOK', ListsDistinct', Placed(t)',
         \A u \in Task \ {t} : /\ (u \in ToSet(list)) = (u \in ToSet(list'))
                               /\ (u \in ToSet(until)) = (u \in ToSet(until'))
                               /\ type'[u] = type[u] /\ port'[u] = port[u]
                               /\ pc'[u] = pc[u] /\ ended'[u] = ended[u]
  PROVE  TimerInv'
BY DEF TimerInv, Placed, Linked

\* A new request is in no list, and goes into one.
LEMMA RequestKeeps ==
  ASSUME TimerInv, NEW t \in Task, AddRequest(t) \/ AddUntil(t), pc[t] = "user",
         port[t] = <<>>, torn' \in BOOLEAN,
         NEW label \in {"waitio", "sent"}, GoTo(t, label)
  PROVE  TimerInv'
<1>1. /\ ~Linked(t) /\ port[t] = <<>> /\ list \in Seq(Task) /\ until \in Seq(Task)
  BY DEF TimerInv, Placed, TypeOK
<1>2. PICK d \in Int : Enter(t, d)
  BY TimerAssumption DEF AddRequest, AddUntil, TimerInv, TypeOK
<1>3. /\ type' = [type EXCEPT ![t] = "MESSAGE"] /\ due' = [due EXCEPT ![t] = d]
      /\ asked' = [asked EXCEPT ![t] = d] /\ ticks' = [ticks EXCEPT ![t] = 0]
      /\ ended' = [ended EXCEPT ![t] = "none"] /\ pc' = [pc EXCEPT ![t] = label]
      /\ UNCHANGED <<port, sig, ahead>>
  BY <1>2 DEF Enter, GoTo
<1>4. \/ list' = Enqueue(list, t, due') /\ until' = until
      \/ until' = Enqueue(until, t, due') /\ list' = list
  BY DEF AddRequest, AddUntil, AddWaiter
<1>5. ASSUME NEW q \in Seq(Task), Distinct(q), t \notin ToSet(q), NEW p
      PROVE  /\ Enqueue(q, t, p) \in Seq(Task) /\ Distinct(Enqueue(q, t, p))
             /\ ToSet(Enqueue(q, t, p)) = ToSet(q) \cup {t}
  BY <1>5, EnqueueMembers, EnqueueDistinct
<1>6. /\ list' \in Seq(Task) /\ until' \in Seq(Task) /\ ListsDistinct'
      /\ ToSet(list') \cup ToSet(until') = ToSet(list) \cup ToSet(until) \cup {t}
      /\ ToSet(list') \subseteq ToSet(list) \cup {t}
      /\ ToSet(until') \subseteq ToSet(until) \cup {t}
      /\ ToSet(list) \subseteq ToSet(list') /\ ToSet(until) \subseteq ToSet(until')
  BY <1>1, <1>4, <1>5 DEF TimerInv, ListsDistinct, Linked
<1>7. TypeOK'
  BY <1>3, <1>6 DEF TimerInv, TypeOK, PC
<1>8. Placed(t)'
  BY <1>1, <1>3, <1>6 DEF TimerInv, TypeOK, Placed, Linked
<1>9. ASSUME NEW u \in Task \ {t}
      PROVE  /\ (u \in ToSet(list)) = (u \in ToSet(list'))
             /\ (u \in ToSet(until)) = (u \in ToSet(until'))
             /\ type'[u] = type[u] /\ port'[u] = port[u]
             /\ pc'[u] = pc[u] /\ ended'[u] = ended[u]
  <2>1. /\ (u \in ToSet(list)) = (u \in ToSet(list'))
        /\ (u \in ToSet(until)) = (u \in ToSet(until'))
    BY <1>6
  <2>2. type'[u] = type[u] /\ port'[u] = port[u] /\ pc'[u] = pc[u] /\ ended'[u] = ended[u]
    BY <1>3 DEF TimerInv, TypeOK
  <2> QED
    BY <2>1, <2>2
<1> QED
  BY <1>6, <1>7, <1>8, <1>9, OneTask

\* What is replied to at once is in its port, and in no list.
LEMMA ReplyNowKeeps ==
  ASSUME TimerInv, NEW t \in Task, ReplyNow(t), pc[t] = "user", port[t] = <<>>,
         torn' \in BOOLEAN, pc' = pc \/ GoTo(t, "sent")
  PROVE  TimerInv'
<1>1. /\ ~Linked(t) /\ port[t] = <<>> /\ pc[t] = "user"
  BY DEF TimerInv, Placed
<1>2. /\ type' = [type EXCEPT ![t] = "REPLYMSG"] /\ port' = [port EXCEPT ![t] = <<t>>]
      /\ sig' = [sig EXCEPT ![t] = TRUE] /\ ended' = [ended EXCEPT ![t] = "quick"]
      /\ UNCHANGED <<list, until, ahead, due, asked, ticks>>
  BY <1>1, ShortLists DEF ReplyNow, ReplyMsg, waiting
<1>3. pc' = pc \/ pc' = [pc EXCEPT ![t] = "sent"]
  BY DEF GoTo
<1>4. TypeOK'
  BY <1>2, <1>3, ShortLists DEF TimerInv, TypeOK, PC
<1>5. ListsDistinct' /\ Placed(t)'
  BY <1>1, <1>2, <1>3 DEF TimerInv, TypeOK, ListsDistinct, Placed, Linked
<1> QED
  BY <1>2, <1>3, <1>4, <1>5, OneTask DEF TimerInv, TypeOK

\* A time command is done where it is called; the reply of a quick DoIO is taken out.
LEMMA UserKeeps ==
  ASSUME TimerInv, NEW t \in Task, GetSysTime(t) \/ SetSysTime(t) \/ GetMsg(t),
         torn' \in BOOLEAN
  PROVE  TimerInv'
<1>1. /\ pc[t] = "user" /\ ~Linked(t)
      /\ port[t] = IF ended[t] = "quick" THEN <<t>> ELSE <<>>
  BY DEF TimerInv, Placed, GetSysTime, SetSysTime, GetMsg
<1>2. /\ type' \in {type, [type EXCEPT ![t] = "MESSAGE"]} /\ ahead' \in Nat
      /\ UNCHANGED <<list, until, due, sig, pc, asked, ticks>>
  BY TimerAssumption DEF GetSysTime, SetSysTime, GetMsg, waiting, history, TimerInv, TypeOK
<1>3. CASE GetMsg(t)
  <2>1. /\ type' = type /\ port' = [port EXCEPT ![t] = <<>>]
        /\ ended' = [ended EXCEPT ![t] = "none"]
    BY <1>1, <1>3, ShortLists DEF GetMsg
  <2>2. TypeOK' /\ ListsDistinct' /\ Placed(t)'
    BY <1>1, <1>2, <2>1 DEF TimerInv, TypeOK, PC, ListsDistinct, Placed, Linked
  <2> QED
    BY <1>2, <2>1, <2>2, OneTask DEF TimerInv, TypeOK
<1>4. CASE GetSysTime(t) \/ SetSysTime(t)
  <2>1. /\ type' = [type EXCEPT ![t] = "MESSAGE"] /\ UNCHANGED <<port, ended>>
    BY <1>4 DEF GetSysTime, SetSysTime, history
  <2>2. TypeOK' /\ ListsDistinct' /\ Placed(t)'
    BY <1>1, <1>2, <2>1 DEF TimerInv, TypeOK, PC, ListsDistinct, Placed, Linked
  <2> QED
    BY <1>2, <2>1, <2>2, OneTask DEF TimerInv, TypeOK
<1> QED
  BY <1>3, <1>4

\* WaitIO and Wait only move their task on; they get to "remove" after the reply.
LEMMA WaitKeeps ==
  ASSUME TimerInv, NEW t \in Task,
         \/ WaitIO(t) \/ WaitIOLoop(t) \/ WaitTest(t) \/ WaitSleep(t) \/ WaitCollect(t)
         \/ AbortIO(t) \/ AbortRemove(t),
         torn' \in BOOLEAN
  PROVE  TimerInv'
<1>1. PICK label \in PC :
        /\ pc' = [pc EXCEPT ![t] = label]
        /\ label \notin {"user", "reply"} /\ (label = "remove" => type[t] # "MESSAGE")
  BY DEF WaitIO, WaitIOLoop, WaitTest, WaitSleep, WaitCollect, AbortIO, AbortRemove, GoTo, PC
<1>2. /\ UNCHANGED <<list, until, ahead, due, type, port, asked, ticks, ended>>
      /\ sig' = sig \/ sig' = [sig EXCEPT ![t] = FALSE]
      /\ pc[t] \notin {"user", "reply"}
  BY DEF WaitIO, WaitIOLoop, WaitTest, WaitSleep, WaitCollect, AbortIO, AbortRemove,
         waiting, request, history
<1>3. TypeOK' /\ ListsDistinct'
  BY <1>1, <1>2 DEF TimerInv, TypeOK, PC, ListsDistinct
<1>4. Placed(t)'
  BY <1>1, <1>2 DEF TimerInv, TypeOK, Placed, Linked
<1> QED
  BY <1>1, <1>2, <1>3, <1>4, OneTask DEF TimerInv, TypeOK

\* Remove takes a request out of whichever list it is in, its port included.
LEMMA RemoveKeeps ==
  ASSUME TimerInv, NEW t \in Task, WaitIORemove(t) \/ WaitIOAgain(t) \/ AbortUnlink(t),
         torn' \in BOOLEAN
  PROVE  TimerInv'
<1>1. pc[t] \in {"remove", "user", "unlink"} /\ port[t] \in {<<>>, <<t>>}
  BY DEF TimerInv, Placed, WaitIORemove, WaitIOAgain, AbortUnlink
<1>2. pc[t] # "unlink" => type[t] = "REPLYMSG" /\ ~Linked(t)
  BY DEF TimerInv, Placed, TypeOK, WaitIORemove, WaitIOAgain, AbortUnlink
<1>3. RemoveNode(t)
  BY <1>2 DEF WaitIORemove, WaitIOAgain, AbortUnlink
<1>4. /\ list' \in Seq(Task) /\ Distinct(list') /\ ToSet(list') = ToSet(list) \ {t}
      /\ until' \in Seq(Task) /\ Distinct(until') /\ ToSet(until') = ToSet(until) \ {t}
  BY <1>3, WithoutMembers DEF RemoveNode, TimerInv, TypeOK, ListsDistinct
<1>5. port' = [port EXCEPT ![t] = <<>>]
  <2>1. Without(port[t], t) = <<>>
    BY <1>1, ShortWithout
  <2> QED
    BY <1>3, <2>1 DEF RemoveNode
<1>6. /\ UNCHANGED <<ahead, type, sig>>
      /\ \/ /\ pc[t] # "unlink" /\ due' = due
            /\ pc' = [pc EXCEPT ![t] = "user"] \/ (pc[t] = "user" /\ pc' = pc)
            /\ asked' = [asked EXCEPT ![t] = 0] /\ ticks' = [ticks EXCEPT ![t] = 0]
            /\ ended' = [ended EXCEPT ![t] = "none"]
         \/ /\ pc[t] = "unlink" /\ pc' = [pc EXCEPT ![t] = "reply"]
            /\ due' = [due EXCEPT ![t] = 0] /\ UNCHANGED <<asked, ticks>>
            /\ ended' = [ended EXCEPT ![t] = "abort"]
  BY DEF WaitIORemove, WaitIOAgain, AbortUnlink, GoTo, Forget
<1>7. TypeOK'
  <2>1. port' \in [Task -> Seq(Task)]
    <3>1. <<>> \in Seq(Task)
      OBVIOUS
    <3> QED
      BY <1>5, <3>1 DEF TimerInv, TypeOK
  <2>2. /\ due' \in [Task -> Int] /\ asked' \in [Task -> Int] /\ ticks' \in [Task -> Nat]
        /\ pc' \in [Task -> PC]
        /\ ended' \in [Task -> {"none", "quick", "tick", "abort"}]
    <3>1. /\ due \in [Task -> Int] /\ asked \in [Task -> Int] /\ ticks \in [Task -> Nat]
          /\ pc \in [Task -> PC]
          /\ ended \in [Task -> {"none", "quick", "tick", "abort"}]
      BY DEF TimerInv, TypeOK
    <3>2. due' \in [Task -> Int]
      BY <1>6, <3>1
    <3>3. asked' \in [Task -> Int] /\ ticks' \in [Task -> Nat]
      BY <1>6, <3>1
    <3>4. pc' \in [Task -> PC]
      BY <1>6, <3>1 DEF PC
    <3>5. ended' \in [Task -> {"none", "quick", "tick", "abort"}]
      BY <1>6, <3>1
    <3> QED
      BY <3>2, <3>3, <3>4, <3>5
  <2> QED
    BY <1>4, <1>6, <2>1, <2>2 DEF TimerInv, TypeOK
<1>8. ListsDistinct' /\ Placed(t)'
  <2>1. ListsDistinct' /\ ~Linked(t)'
    BY <1>4 DEF TimerInv, ListsDistinct, Linked
  <2>2. port'[t] = <<>> /\ type'[t] = type[t]
    BY <1>5, <1>6 DEF TimerInv, TypeOK
  <2>3. CASE pc[t] # "unlink"
    <3>1. pc'[t] = "user" /\ ended'[t] = "none"
      BY <1>6, <2>3 DEF TimerInv, TypeOK
    <3> QED
      BY <1>2, <2>1, <2>2, <2>3, <3>1 DEF Placed
  <2>4. CASE pc[t] = "unlink"
    <3>1. pc'[t] = "reply"
      BY <1>6, <2>4 DEF TimerInv, TypeOK
    <3> QED
      BY <2>1, <2>2, <3>1 DEF Placed
  <2> QED
    BY <1>1, <2>1, <2>3, <2>4
<1>9. ASSUME NEW u \in Task \ {t}
      PROVE  /\ (u \in ToSet(list)) = (u \in ToSet(list'))
             /\ (u \in ToSet(until)) = (u \in ToSet(until'))
             /\ type'[u] = type[u] /\ port'[u] = port[u]
             /\ pc'[u] = pc[u] /\ ended'[u] = ended[u]
  <2>1. /\ (u \in ToSet(list)) = (u \in ToSet(list'))
        /\ (u \in ToSet(until)) = (u \in ToSet(until'))
    BY <1>4
  <2>2. type'[u] = type[u] /\ port'[u] = port[u] /\ pc'[u] = pc[u] /\ ended'[u] = ended[u]
    BY <1>5, <1>6 DEF TimerInv, TypeOK
  <2> QED
    BY <2>1, <2>2
<1> QED
  BY <1>7, <1>8, <1>9, OneTask

\* AbortIO replies to what it has removed.
LEMMA AbortReplyKeeps ==
  ASSUME TimerInv, NEW t \in Task, AbortReply(t), torn' \in BOOLEAN
  PROVE  TimerInv'
<1>1. pc[t] = "reply" /\ ~Linked(t) /\ port[t] = <<>>
  BY DEF TimerInv, Placed, AbortReply
<1>2. /\ type' = [type EXCEPT ![t] = "REPLYMSG"] /\ port' = [port EXCEPT ![t] = <<t>>]
      /\ sig' = [sig EXCEPT ![t] = TRUE] /\ pc' = [pc EXCEPT ![t] = "sent"]
      /\ UNCHANGED <<list, until, ahead, due, asked, ticks, ended>>
  BY <1>1, ShortLists DEF AbortReply, ReplyMsg, GoTo, waiting, history
<1>3. TypeOK'
  BY <1>2, ShortLists DEF TimerInv, TypeOK, PC
<1>4. ListsDistinct' /\ Placed(t)'
  BY <1>1, <1>2 DEF TimerInv, TypeOK, ListsDistinct, Placed, Linked
<1> QED
  BY <1>2, <1>3, <1>4, OneTask DEF TimerInv, TypeOK

\* The interrupt moves requests from the device's lists to their ports.
LEMMA TickKeeps ==
  ASSUME TimerInv, Tick, torn' \in BOOLEAN
  PROVE  TimerInv'
<1> DEFINE out == Called(list) \cup Called(until)
<1>1. /\ Called(list) \subseteq ToSet(list) /\ Called(until) \subseteq ToSet(until)
      /\ list' \in Seq(Task) /\ Distinct(list') /\ ToSet(list') = ToSet(list) \ Called(list)
      /\ until' \in Seq(Task) /\ Distinct(until') /\ ToSet(until') = ToSet(until) \ Called(until)
  BY CalledMembers DEF Tick, TimerInv, TypeOK, ListsDistinct
<1>2. ListsDistinct' /\ \A t \in Task : Linked(t)' <=> Linked(t) /\ t \notin out
  BY <1>1 DEF TimerInv, ListsDistinct, Linked
<1>3. /\ type' = [t \in Task |-> IF t \in out THEN "REPLYMSG" ELSE type[t]]
      /\ port' = [t \in Task |-> IF t \in out THEN AddTail(port[t], t) ELSE port[t]]
      /\ sig' = [t \in Task |-> sig[t] \/ t \in out]
      /\ pc' = [t \in Task |-> IF t \in out /\ pc[t] = "asleep" THEN "test" ELSE pc[t]]
      /\ ended' = [t \in Task |-> IF t \in out THEN "tick" ELSE ended[t]]
      /\ UNCHANGED <<ahead, asked>>
  BY DEF Tick
<1>4. \A t \in Task : t \in out =>
        /\ Linked(t) /\ pc[t] \notin {"user", "remove", "reply"} /\ port[t] = <<>>
        /\ port'[t] = <<t>>
  <2>1. \A t \in Task : t \in out => Linked(t)
    BY <1>1 DEF Linked
  <2>2. \A t \in Task : t \in out => port[t] = <<>> /\ pc[t] \notin {"user", "remove", "reply"}
    BY <2>1 DEF TimerInv, Placed
  <2> QED
    BY <1>3, <2>1, <2>2, ShortLists
<1>5. due' \in [Task -> Int] /\ ticks' \in [Task -> Nat]
  BY DEF Tick, TimerInv, TypeOK, Passed
<1>6. TypeOK'
  <2>1. port' \in [Task -> Seq(Task)]
    <3>1. ASSUME NEW t \in Task
          PROVE  (IF t \in out THEN AddTail(port[t], t) ELSE port[t]) \in Seq(Task)
      <4>1. CASE t \in out
        <5>1. AddTail(port[t], t) = <<t>>
          BY <1>4, <4>1, ShortLists
        <5> QED
          BY <4>1, <5>1, ShortLists
      <4>2. CASE t \notin out
        BY <4>2 DEF TimerInv, TypeOK
      <4> QED
        BY <4>1, <4>2
    <3> HIDE DEF out
    <3> QED
      BY <1>3, <3>1
  <2>2. sig' \in [Task -> BOOLEAN]
    BY <1>3
  <2> QED
    BY <1>1, <1>3, <1>5, <2>1, <2>2 DEF TimerInv, TypeOK, PC
<1>7. ASSUME NEW t \in Task PROVE Placed(t)'
  <2>1. CASE t \in out
    BY <1>2, <1>3, <1>4, <2>1 DEF Placed
  <2>2. CASE t \notin out
    BY <1>2, <1>3, <2>2 DEF Placed, TimerInv
  <2> QED
    BY <2>1, <2>2
<1> QED
  BY <1>2, <1>6, <1>7 DEF TimerInv

\* A request that is sent from its port tears a list.
LEMMA SentAgain ==
  ASSUME TimerInv, NEW t \in Task, DoIO(t) \/ SendIO(t), port[t] # <<>>
  PROVE  LinkedAgain(t) /\ (torn' \in BOOLEAN => TypeOK')
<1>1. /\ list \in Seq(Task) /\ until \in Seq(Task) /\ Distinct(list) /\ Distinct(until)
      /\ pc[t] = "user" /\ ~Linked(t) /\ port[t] = <<t>>
  BY DEF TimerInv, TypeOK, ListsDistinct, Placed, DoIO, SendIO
<1>2. pc' \in [Task -> PC]
  BY DEF DoIO, SendIO, GoTo, TimerInv, TypeOK, PC
<1>3. CASE AddRequest(t) \/ AddUntil(t)
  <2>1. PICK d \in Int : Enter(t, d)
    BY <1>3, TimerAssumption DEF AddRequest, AddUntil, TimerInv, TypeOK
  <2>2. \/ list' = Enqueue(list, t, due') /\ until' = until
        \/ until' = Enqueue(until, t, due') /\ list' = list
    BY <1>3 DEF AddRequest, AddUntil, AddWaiter
  <2>3. ASSUME NEW q \in Seq(Task), NEW p
        PROVE  Enqueue(q, t, p) \in Seq(Task) /\ ToSet(Enqueue(q, t, p)) = ToSet(q) \cup {t}
    BY EnqueueMembers
  <2>4. list' \in Seq(Task) /\ until' \in Seq(Task) /\ Linked(t)'
    BY <1>1, <2>2, <2>3 DEF Linked
  <2> QED
    BY <1>2, <2>1, <2>4 DEF LinkedAgain, Enter, TimerInv, TypeOK
<1>4. CASE ReplyNow(t)
  <2> DEFINE q == AddTail(<<t>>, t)
  <2>1. /\ type' = [type EXCEPT ![t] = "REPLYMSG"] /\ port' = [port EXCEPT ![t] = q]
        /\ sig' = [sig EXCEPT ![t] = TRUE] /\ ended' = [ended EXCEPT ![t] = "quick"]
        /\ UNCHANGED <<list, until, ahead, due, asked, ticks>>
    BY <1>1, <1>4 DEF ReplyNow, ReplyMsg, waiting
  <2>2. q \in Seq(Task) /\ Len(q) > 1
    BY DEF AddTail
  <2> HIDE DEF q
  <2>3. port'[t] = q
    BY <2>1 DEF TimerInv, TypeOK
  <2> QED
    BY <1>1, <1>2, <2>1, <2>2, <2>3 DEF LinkedAgain, TimerInv, TypeOK
<1> QED
  BY <1>3, <1>4 DEF DoIO, SendIO

\* Every step keeps the invariant.
LEMMA TimerStep ==
  UntilTorn /\ [Next]_vars =>
    /\ UntilTorn'
    /\ ~torn' => ~torn /\ ((\E t \in Task : Call(t)) \/ Tick \/ UNCHANGED vars)
<1> SUFFICES ASSUME UntilTorn, [Next]_vars
             PROVE  /\ UntilTorn'
                    /\ ~torn' =>
                         ~torn /\ ((\E t \in Task : Call(t)) \/ Tick \/ UNCHANGED vars)
  OBVIOUS
<1>1. CASE UNCHANGED vars
  <2>1. UNCHANGED <<list, until, ahead, due, type, port, sig, pc, asked, ticks, ended, torn>>
    BY <1>1 DEF vars, waiting, request, history
  <2>2. UntilTorn'
    BY <2>1 DEF UntilTorn, TimerInv, TypeOK, ListsDistinct, Placed, Linked
  <2> QED
    BY <1>1, <2>1, <2>2
<1>2. ASSUME NEW t \in Task, TaskStep(t)
      PROVE  UntilTorn' /\ ~torn /\ Call(t)
  <2>1. ~torn /\ Call(t) /\ TimerInv
    BY <1>2 DEF TaskStep, UntilTorn
  <2>2. torn' \in BOOLEAN /\ (LinkedAgain(t) => torn')
    BY <1>2 DEF TaskStep
  <2>3. CASE DoIO(t) \/ SendIO(t)
    <3>1. CASE port[t] = <<>>
      BY <2>1, <2>2, <2>3, <3>1, RequestKeeps, ReplyNowKeeps DEF DoIO, SendIO, UntilTorn, TimerInv
    <3>2. CASE port[t] # <<>>
      BY <2>1, <2>2, <2>3, <3>2, SentAgain DEF UntilTorn
    <3> QED
      BY <2>1, <3>1, <3>2
  <2>4. CASE ~DoIO(t) /\ ~SendIO(t)
    <3>1. TimerInv'
      BY <2>1, <2>2, <2>4, UserKeeps, WaitKeeps, RemoveKeeps, AbortReplyKeeps DEF Call
    <3> QED
      BY <2>1, <3>1 DEF UntilTorn, TimerInv
  <2> QED
    BY <2>3, <2>4
<1>3. CASE Interrupt
  <2>1. ~torn /\ Tick /\ TimerInv /\ torn' \in BOOLEAN
    BY <1>3 DEF Interrupt, UntilTorn, Disturbed
  <2> QED
    BY <2>1, TickKeeps DEF UntilTorn, TimerInv
<1> QED
  BY <1>1, <1>2, <1>3 DEF Next, Damaged
----------------------------------------------------------------------------
(***************************************************************************)
(* The theorems.                                                           *)
(***************************************************************************)
\* TimerInv holds until a list is torn.
LEMMA TimerInvAlways == Spec => []UntilTorn
<1>1. Init => UntilTorn
  BY TimerInit DEF UntilTorn, TimerInv
<1>2. UntilTorn /\ [Next]_vars => UntilTorn'
  BY TimerStep
<1> QED
  BY <1>1, <1>2, PTL DEF Spec

\* A request is in one list, or in none, whatever aborts, quick replies, second calls
\* of WaitIO and interrupts race for it, the interrupt between the two stores of a
\* Remove included, until a neighbour changes there or a request is sent from its port
\* (dev.timer/io.c:122-129, _timerirq.c:29).
THEOREM RequestsInOnePlace == Spec => []OnePlace
<1>1. ASSUME UntilTorn PROVE OnePlace
  <2>1. ASSUME ~torn, NEW t \in Task
        PROVE  /\ Linked(t) => type[t] = "MESSAGE"
               /\ ~Linked(t) /\ type[t] = "MESSAGE" => pc[t] \in {"reply", "user"}
               /\ port[t] = IF \/ pc[t] = "reply"
                               \/ pc[t] # "user" /\ type[t] = "MESSAGE"
                               \/ pc[t] = "user" /\ ended[t] # "quick"
                            THEN <<>> ELSE <<t>>
    <3>1. Placed(t)
      BY <1>1, <2>1 DEF UntilTorn, TimerInv
    <3>2. CASE pc[t] = "reply"
      BY <3>1, <3>2 DEF Placed
    <3>3. CASE pc[t] = "user"
      BY <3>1, <3>3 DEF Placed
    <3>4. CASE pc[t] \notin {"reply", "user"}
      BY <3>1, <3>4 DEF Placed
    <3> QED
      BY <3>2, <3>3, <3>4
  <2>2. TypeOK /\ (~torn => ListsDistinct)
    BY <1>1 DEF UntilTorn, TimerInv
  <2> QED
    BY <2>1, <2>2 DEF OnePlace, ListsDistinct
<1> QED
  BY <1>1, TimerInvAlways, PTL

\* WaitIO returns after the reply, with signals left over or not (lib.exec/io.c:70-83).
THEOREM WaitIOReturnsAfterReply == Spec => []WaitIOWaits
<1>1. UntilTorn => WaitIOWaits
  BY DEF UntilTorn, TimerInv, Placed, WaitIOWaits
<1> QED
  BY <1>1, TimerInvAlways, PTL
----------------------------------------------------------------------------
(***************************************************************************)
(* Punctual.  An interrupt replies to one request of a list, so that a     *)
(* request may be overdue and stay.  What bounds its wait is not how long  *)
(* the list is but who can still be replied to instead: a request that has *)
(* been late for some interrupts has been passed over once in each of      *)
(* them, and a client that has had its reply comes back, if at all, with a *)
(* time that lies as far ahead as there are others still to come: that is  *)
(* what LongDelays is for.                                                 *)
(***************************************************************************)
\* By how many interrupts a request has outwaited the delay asked for.
Late(t) == ticks[t] - asked[t]

\* The due time is what is left of the delay, as far as it is followed.
Timed(t) ==
  /\ Linked(t) => /\ ticks[t] <= MaxTicks /\ asked[t] < MaxTicks
                  /\ \/ due[t] = asked[t] - ticks[t]
                     \/ due[t] <= 0 /\ ticks[t] >= asked[t]
  /\ t \in ToSet(list) => asked[t] + N <= MaxTicks
  /\ ended[t] = "tick" => ticks[t] > asked[t]

\* The other clients whose request, if they have one, will not be overdue before
\* that of t has been late for as many interrupts as there are clients.
Behind(t) == {u \in Task \ {t} : u \in ToSet(list) => due[u] >= N - Late(t)}

Overtaken(t) ==
  t \in ToSet(list) /\ Late(t) >= 0 => Cardinality(Behind(t)) >= Late(t)

TimeInv ==
  /\ ahead \in Ahead \cup {0}
  /\ \A t \in Task : Timed(t) /\ (LongDelays => Overtaken(t))

\* A client has fewer others than there are clients.
LEMMA OthersFinite ==
  ASSUME NEW t \in Task
  PROVE  /\ N \in Nat /\ N >= 1
         /\ IsFiniteSet(Task \ {t}) /\ Cardinality(Task \ {t}) = N - 1
         /\ IsFiniteSet(Behind(t)) /\ Cardinality(Behind(t)) \in Nat
         /\ Cardinality(Behind(t)) <= N - 1
<1>1. IsFiniteSet(Task)
  BY TimerAssumption
<1>2. N \in Nat /\ IsFiniteSet(Task \ {t}) /\ Cardinality(Task \ {t}) = N - 1
  BY <1>1, FS_CardinalityType, FS_RemoveElement DEF N
<1>3. Cardinality(Task \ {t}) \in Nat
  BY <1>2, FS_CardinalityType
<1>4. Behind(t) \subseteq Task \ {t}
  BY DEF Behind
<1>5. /\ IsFiniteSet(Behind(t)) /\ Cardinality(Behind(t)) \in Nat
      /\ Cardinality(Behind(t)) <= Cardinality(Task \ {t})
  BY <1>2, <1>4, FS_Subset, FS_CardinalityType
<1> QED
  BY <1>2, <1>3, <1>5

\* A request in UNIT_VBLANK's list is never later than there are other clients.
LEMMA LateBound ==
  ASSUME TypeOK, NEW t \in Task, Overtaken(t), t \in ToSet(list)
  PROVE  ticks[t] < asked[t] + N
<1>1. ticks[t] \in Int /\ asked[t] \in Int /\ Late(t) = ticks[t] - asked[t]
  BY DEF TypeOK, Late
<1>2. /\ N \in Nat /\ N >= 1 /\ Cardinality(Behind(t)) \in Nat
      /\ Cardinality(Behind(t)) <= N - 1
  BY OthersFinite
<1>3. Late(t) >= 0 => Cardinality(Behind(t)) >= Late(t)
  BY DEF Overtaken
<1> QED
  BY <1>1, <1>2, <1>3

\* At the beginning the lists are empty.
LEMMA TimeInit == Init => TimeInv
<1>1. ToSet(<<>>) = {}
  BY DEF ToSet
<1> QED
  BY <1>1 DEF Init, TimeInv, Timed, Overtaken, Linked

\* No step but the interrupt makes a request later: it is enough that others do not
\* get in before one that is late.
LEMMA NotLater ==
  ASSUME TypeOK, TypeOK', NEW t \in Task, Overtaken(t),
         t \in ToSet(list') => \/ ticks'[t] - asked'[t] <= 0
                              \/ /\ t \in ToSet(list)
                                 /\ ticks'[t] = ticks[t] /\ asked'[t] = asked[t],
         \A u \in Task \ {t} : u \in ToSet(list') =>
           \/ u \in ToSet(list) /\ due'[u] = due[u]
           \/ due'[u] >= N - 1
  PROVE  Overtaken(t)'
<1> SUFFICES ASSUME t \in ToSet(list'), Late(t)' >= 0
             PROVE  Cardinality(Behind(t)') >= Late(t)'
  BY DEF Overtaken
<1>1. /\ ticks[t] \in Int /\ asked[t] \in Int /\ ticks'[t] \in Int /\ asked'[t] \in Int
      /\ Late(t) = ticks[t] - asked[t] /\ Late(t)' = ticks'[t] - asked'[t]
      /\ due \in [Task -> Int] /\ due' \in [Task -> Int]
  BY DEF TypeOK, Late
<1>2. N' = N
  BY DEF N
<1>3. /\ N \in Nat /\ IsFiniteSet(Task \ {t})
      /\ Cardinality(Behind(t)) \in Nat
  BY OthersFinite
<1>4. Behind(t)' = {u \in Task \ {t} : u \in ToSet(list') => due'[u] >= N - Late(t)'}
  BY <1>2 DEF Behind
<1>5. Behind(t)' \subseteq Task \ {t}
  BY <1>4
<1>6. IsFiniteSet(Behind(t)') /\ Cardinality(Behind(t)') \in Nat
  BY <1>3, <1>5, FS_Subset, FS_CardinalityType
<1>7. CASE Late(t)' <= 0
  BY <1>1, <1>6, <1>7
<1>8. CASE Late(t)' >= 1
  <2>1. t \in ToSet(list) /\ Late(t)' = Late(t)
    BY <1>1, <1>8
  <2>2. ASSUME NEW u \in Behind(t) PROVE u \in Behind(t)'
    <3>1. u \in Task \ {t} /\ (u \in ToSet(list) => due[u] >= N - Late(t))
      BY DEF Behind
    <3>2. due'[u] \in Int /\ due[u] \in Int
      BY <1>1, <3>1
    <3>3. u \in ToSet(list') => due'[u] >= N - Late(t)'
      BY <1>1, <1>3, <1>8, <2>1, <3>1, <3>2
    <3> QED
      BY <1>4, <3>1, <3>3
  <2>3. Cardinality(Behind(t)) <= Cardinality(Behind(t)')
    BY <1>6, <2>2, FS_Subset
  <2>4. Cardinality(Behind(t)) >= Late(t)
    BY <1>8, <2>1 DEF Overtaken
  <2> QED
    BY <1>1, <1>3, <1>6, <2>1, <2>3, <2>4
<1> QED
  BY <1>1, <1>7, <1>8

\* A step of one task that brings nothing into a list, and takes nothing but its own
\* request out of one.
LEMMA NothingAdded ==
  ASSUME TimerInv, TypeOK', TimeInv, NEW t \in Task, ahead' \in Ahead \cup {0},
         ToSet(list') \subseteq ToSet(list), ToSet(until') \subseteq ToSet(until),
         \A u \in Task : Linked(u)' =>
           due'[u] = due[u] /\ asked'[u] = asked[u] /\ ticks'[u] = ticks[u],
         \A u \in Task : ended'[u] = "tick" =>
           ended[u] = "tick" /\ asked'[u] = asked[u] /\ ticks'[u] = ticks[u]
  PROVE  TimeInv'
<1>1. ASSUME NEW u \in Task PROVE Timed(u)'
  BY DEF TimeInv, Timed, Linked, N
<1>2. ASSUME NEW u \in Task, LongDelays PROVE Overtaken(u)'
  <2>1. \A w \in Task : w \in ToSet(list') =>
          /\ w \in ToSet(list) /\ due'[w] = due[w]
          /\ asked'[w] = asked[w] /\ ticks'[w] = ticks[w]
    BY DEF Linked
  <2> QED
    BY <1>2, <2>1, NotLater DEF TimerInv, TimeInv
<1>3. LongDelays' = LongDelays
  BY DEF LongDelays, N
<1> QED
  BY <1>1, <1>2, <1>3 DEF TimeInv

\* A new request is due when it says, and not before those that are late.
LEMMA RequestOnTime ==
  ASSUME TimerInv, TypeOK', TimeInv, NEW t \in Task, AddRequest(t) \/ AddUntil(t),
         pc[t] = "user"
  PROVE  TimeInv'
<1>1. /\ ~Linked(t) /\ list \in Seq(Task) /\ until \in Seq(Task)
      /\ t \notin ToSet(list) /\ t \notin ToSet(until)
  BY DEF TimerInv, Placed, TypeOK, Linked
<1>2. PICK d \in Int :
        /\ Enter(t, d)
        /\ \/ d \in Delay /\ list' = Enqueue(list, t, due') /\ until' = until
           \/ /\ \E p \in Past : d = ahead - p
              /\ until' = Enqueue(until, t, due') /\ list' = list
  BY TimerAssumption DEF AddRequest, AddUntil, AddWaiter, TimerInv, TypeOK
<1>3. /\ due' = [due EXCEPT ![t] = d] /\ asked' = [asked EXCEPT ![t] = d]
      /\ ticks' = [ticks EXCEPT ![t] = 0] /\ ended' = [ended EXCEPT ![t] = "none"]
      /\ ahead' = ahead
  BY <1>2 DEF Enter
<1>4. /\ due'[t] = d /\ asked'[t] = d /\ ticks'[t] = 0 /\ ended'[t] = "none"
      /\ \A u \in Task \ {t} : /\ due'[u] = due[u] /\ asked'[u] = asked[u]
                               /\ ticks'[u] = ticks[u] /\ ended'[u] = ended[u]
  BY <1>3 DEF TimerInv, TypeOK
<1>5. /\ ToSet(list') \subseteq ToSet(list) \cup {t}
      /\ ToSet(until') \subseteq ToSet(until) \cup {t}
      /\ t \in ToSet(list') => d \in Delay
  <2>1. ASSUME NEW q \in Seq(Task) PROVE ToSet(Enqueue(q, t, due')) = ToSet(q) \cup {t}
    BY EnqueueMembers
  <2> QED
    BY <1>1, <1>2, <2>1
<1>6. N \in Nat /\ N >= 1 /\ N' = N /\ MaxTicks \in Nat /\ ahead \in Ahead \cup {0}
  BY OthersFinite, TimerAssumption DEF TimeInv, N
<1>7. /\ d < MaxTicks
      /\ t \in ToSet(list') => d + N <= MaxTicks /\ d >= 0 /\ (LongDelays => d >= N - 1)
  <2>1. ASSUME d \in Delay
        PROVE  d + N <= MaxTicks /\ d >= 0 /\ (LongDelays => d >= N - 1)
    BY <2>1, TimerAssumption DEF LongDelays
  <2>2. ASSUME NEW p \in Past, d = ahead - p PROVE d < MaxTicks
    <3>1. p \in Nat /\ p > 0 /\ ahead \in Nat
      BY TimerAssumption DEF TimerInv, TypeOK
    <3>2. ahead = 0 \/ ahead + N <= MaxTicks
      BY <1>6, TimerAssumption
    <3> QED
      BY <1>6, <2>2, <3>1, <3>2
  <2>3. d \in Delay => d < MaxTicks
    BY <1>6, <2>1
  <2> QED
    BY <1>2, <1>5, <2>1, <2>2, <2>3
<1>8. ASSUME NEW u \in Task PROVE Timed(u)'
  <2>1. CASE u = t
    BY <1>4, <1>6, <1>7, <2>1 DEF Timed
  <2>2. CASE u # t
    <3>1. /\ Linked(u)' => Linked(u)
          /\ u \in ToSet(list') => u \in ToSet(list)
      BY <1>5, <2>2 DEF Linked
    <3>2. Timed(u)
      BY DEF TimeInv
    <3> QED
      BY <1>4, <1>6, <2>2, <3>1, <3>2 DEF Timed
  <2> QED
    BY <2>1, <2>2
<1>9. ASSUME NEW u \in Task, LongDelays PROVE Overtaken(u)'
  <2>1. Overtaken(u) /\ TypeOK
    BY <1>9 DEF TimeInv, TimerInv
  <2>2. u \in ToSet(list') =>
          \/ ticks'[u] - asked'[u] <= 0
          \/ u \in ToSet(list) /\ ticks'[u] = ticks[u] /\ asked'[u] = asked[u]
    BY <1>4, <1>5, <1>7
  <2>3. \A w \in Task \ {u} : w \in ToSet(list') =>
          \/ w \in ToSet(list) /\ due'[w] = due[w]
          \/ due'[w] >= N - 1
    BY <1>4, <1>5, <1>7, <1>9
  <2> QED
    BY <2>1, <2>2, <2>3, NotLater
<1>10. LongDelays' = LongDelays
  BY DEF LongDelays, N
<1> QED
  BY <1>3, <1>6, <1>8, <1>9, <1>10 DEF TimeInv

\* The other steps of a task queue nothing.
LEMMA TaskOnTime ==
  ASSUME TimerInv, TypeOK', TimeInv, NEW t \in Task, Call(t)
  PROVE  TimeInv'
<1>1. CASE (AddRequest(t) \/ AddUntil(t)) /\ pc[t] = "user"
  BY <1>1, RequestOnTime
<1>2. CASE ReplyNow(t)
  <2>1. /\ UNCHANGED <<list, until, ahead, due, asked, ticks>>
        /\ ended' = [ended EXCEPT ![t] = "quick"]
    BY <1>2 DEF ReplyNow, waiting
  <2>2. \A u \in Task : ended'[u] = "tick" => ended[u] = "tick"
    BY <2>1 DEF TimerInv, TypeOK
  <2> QED
    BY <2>1, <2>2, NothingAdded DEF TimeInv
<1>3. CASE GetSysTime(t) \/ SetSysTime(t)
  <2>1. UNCHANGED <<list, until, due, asked, ticks, ended>> /\ ahead' \in Ahead \cup {0}
    BY <1>3 DEF GetSysTime, SetSysTime, waiting, history, TimeInv
  <2> QED
    BY <2>1, NothingAdded
<1>4. CASE GetMsg(t)
  <2>1. /\ UNCHANGED <<list, until, ahead, due, asked, ticks>>
        /\ ended' = [ended EXCEPT ![t] = "none"]
    BY <1>4 DEF GetMsg, waiting
  <2>2. \A u \in Task : ended'[u] = "tick" => ended[u] = "tick"
    BY <2>1 DEF TimerInv, TypeOK
  <2> QED
    BY <2>1, <2>2, NothingAdded DEF TimeInv
<1>5. CASE \/ WaitIO(t) \/ WaitIOLoop(t) \/ WaitTest(t) \/ WaitSleep(t) \/ WaitCollect(t)
           \/ AbortIO(t) \/ AbortRemove(t) \/ AbortReply(t)
  <2>1. UNCHANGED <<list, until, ahead, due, asked, ticks, ended>>
    BY <1>5 DEF WaitIO, WaitIOLoop, WaitTest, WaitSleep, WaitCollect, AbortIO, AbortRemove,
                AbortReply, waiting, history
  <2> QED
    BY <2>1, NothingAdded DEF TimeInv
<1>6. CASE WaitIORemove(t) \/ WaitIOAgain(t) \/ AbortUnlink(t)
  <2>1. RemoveNode(t) \/ UNCHANGED <<list, until>>
    BY <1>6 DEF WaitIORemove, WaitIOAgain, AbortUnlink
  <2>2. /\ ToSet(list') \subseteq ToSet(list) /\ ToSet(until') \subseteq ToSet(until)
        /\ t \notin ToSet(list') /\ t \notin ToSet(until')
    <3>1. CASE RemoveNode(t)
      BY <3>1, WithoutMembers DEF RemoveNode, TimerInv, TypeOK, ListsDistinct
    <3>2. CASE UNCHANGED <<list, until>> /\ ~RemoveNode(t)
      <4>1. pc[t] = "remove"
        BY <1>6, <3>2 DEF WaitIORemove, WaitIOAgain, AbortUnlink
      <4> QED
        BY <3>2, <4>1 DEF TimerInv, Placed, Linked
    <3> QED
      BY <2>1, <3>1, <3>2
  <2>3. /\ ahead' = ahead
        /\ \A u \in Task \ {t} : /\ due'[u] = due[u] /\ asked'[u] = asked[u]
                                 /\ ticks'[u] = ticks[u] /\ ended'[u] = ended[u]
        /\ ended'[t] # "tick"
    BY <1>6 DEF WaitIORemove, WaitIOAgain, AbortUnlink, Forget, TimerInv, TypeOK
  <2>4. \A u \in Task : Linked(u)' => u # t
    BY <2>2 DEF Linked
  <2> QED
    BY <2>2, <2>3, <2>4, NothingAdded DEF TimeInv
<1> QED
  BY <1>1, <1>2, <1>3, <1>4, <1>5, <1>6 DEF Call, DoIO, SendIO

\* If any request of a list is overdue, the interrupt replies to one that is.
LEMMA CalledOverdue ==
  ASSUME NEW q \in Seq(Task)
  PROVE  /\ \A u \in Called(q) : due[u] < 1
         /\ (\E u \in ToSet(q) : due[u] < 1) => Called(q) # {}
<1>1. Overdue(q) \in SUBSET Nat
  BY LenProperties DEF Overdue
<1>2. CASE Overdue(q) = {}
  <2>1. ASSUME NEW u \in ToSet(q) PROVE ~(due[u] < 1)
    <3>1. PICK i \in 1..Len(q) : q[i] = u
      BY LenProperties DEF ToSet
    <3> QED
      BY <1>2, <3>1 DEF Overdue
  <2> QED
    BY <1>2, <2>1 DEF Called
<1>3. CASE Overdue(q) # {}
  <2>1. Min(Overdue(q)) \in Overdue(q)
    BY <1>1, <1>3, MinIsLeast
  <2>2. due[q[Min(Overdue(q))]] < 1
    BY <2>1 DEF Overdue
  <2> QED
    BY <1>3, <2>2 DEF Called
<1> QED
  BY <1>2, <1>3

\* The interrupt brings every request nearer, and replies to one that is overdue if
\* it leaves one that is.
LEMMA TickOnTime ==
  ASSUME TimerInv, TypeOK', TimeInv, Tick
  PROVE  TimeInv'
<1> DEFINE out == Called(list) \cup Called(until)
<1>1. /\ Called(list) \subseteq ToSet(list) /\ Called(until) \subseteq ToSet(until)
      /\ ToSet(list') = ToSet(list) \ Called(list)
      /\ ToSet(until') = ToSet(until) \ Called(until)
      /\ ToSet(list) \cap ToSet(until) = {}
  BY CalledMembers DEF Tick, TimerInv, TypeOK, ListsDistinct
<1>2. \A u \in out : due[u] < 1
  BY CalledOverdue DEF TimerInv, TypeOK
<1>3. /\ ticks' = [t \in Task |-> IF Linked(t) /\ ticks[t] < MaxTicks THEN ticks[t] + 1
                                                 ELSE ticks[t]]
      /\ due' = [t \in Task |-> IF t \in out THEN 0 ELSE Passed[t]]
      /\ ended' = [t \in Task |-> IF t \in out THEN "tick" ELSE ended[t]]
      /\ UNCHANGED <<ahead, asked>>
  BY DEF Tick
<1>4. MaxTicks \in Nat /\ Longest \in Nat /\ N' = N
  BY TimerAssumption DEF N
<1>5. ASSUME NEW t \in Task
      PROVE  /\ ticks[t] \in Nat /\ asked[t] \in Int /\ due[t] \in Int
             /\ asked'[t] = asked[t]
             /\ ticks'[t] = IF Linked(t) /\ ticks[t] < MaxTicks THEN ticks[t] + 1 ELSE ticks[t]
             /\ ended'[t] = IF t \in out THEN "tick" ELSE ended[t]
             /\ Linked(t)' <=> Linked(t) /\ t \notin out
             /\ t \in out => Linked(t) /\ due[t] <= 0
             /\ Linked(t)' => due'[t] = IF due[t] > -Longest THEN due[t] - 1 ELSE due[t]
  <2>1. ticks[t] \in Nat /\ asked[t] \in Int /\ due[t] \in Int
    BY DEF TimerInv, TypeOK
  <2>2. /\ Linked(t)' <=> Linked(t) /\ t \notin out
        /\ t \in out => Linked(t)
    BY <1>1 DEF Linked
  <2>3. t \in out => due[t] <= 0
    BY <1>2, <2>1
  <2>4. Linked(t)' => due'[t] = IF due[t] > -Longest THEN due[t] - 1 ELSE due[t]
    BY <1>3, <2>2 DEF Passed
  <2> QED
    BY <1>3, <2>1, <2>2, <2>3, <2>4
<1> HIDE DEF out
<1>6. ASSUME NEW t \in Task PROVE Timed(t)'
  <2>1. Timed(t)
    BY DEF TimeInv
  <2>2. Linked(t) => /\ ticks'[t] <= MaxTicks /\ asked[t] < MaxTicks
                     /\ due[t] <= 0 => ticks'[t] > asked[t]
    BY <1>4, <1>5, <2>1 DEF Timed
  <2>3. Linked(t)' => \/ due'[t] = asked'[t] - ticks'[t]
                      \/ due'[t] <= 0 /\ ticks'[t] >= asked'[t]
    BY <1>4, <1>5, <2>1, <2>2 DEF Timed
  <2>4. t \in ToSet(list') => asked'[t] + N <= MaxTicks
    BY <1>1, <1>5, <2>1 DEF Timed
  <2>5. ended'[t] = "tick" => ticks'[t] > asked'[t]
    <3>1. CASE t \in out
      BY <1>5, <2>2, <3>1
    <3>2. CASE t \notin out
      BY <1>5, <2>1, <3>2 DEF Timed
    <3> QED
      BY <3>1, <3>2
  <2> QED
    BY <1>4, <1>5, <2>2, <2>3, <2>4, <2>5 DEF Timed
<1>7. ASSUME NEW t \in Task, LongDelays PROVE Overtaken(t)'
  <2> SUFFICES ASSUME t \in ToSet(list'), Late(t)' >= 0
               PROVE  Cardinality(Behind(t)') >= Late(t)'
    BY DEF Overtaken
  <2>1. /\ t \in ToSet(list) /\ t \notin Called(list) /\ Linked(t)
        /\ Timed(t) /\ Overtaken(t)
    BY <1>1, <1>7 DEF TimeInv, Linked
  <2>2. ticks[t] < asked[t] + N /\ asked[t] + N <= MaxTicks /\ N \in Nat
    BY <2>1, LateBound, OthersFinite DEF Timed, TimerInv
  <2>3. /\ Late(t) = ticks[t] - asked[t] /\ Late(t)' = Late(t) + 1
        /\ Late(t) \in Int /\ Late(t) <= N - 1
    BY <1>4, <1>5, <2>1, <2>2 DEF Late
  <2>4. Behind(t)' = {u \in Task \ {t} : u \in ToSet(list') => due'[u] >= N - Late(t)'}
    BY <1>4 DEF Behind
  <2>5. /\ IsFiniteSet(Behind(t)) /\ Cardinality(Behind(t)) \in Nat
        /\ IsFiniteSet(Task \ {t})
    BY OthersFinite
  <2>6. IsFiniteSet(Behind(t)') /\ Cardinality(Behind(t)') \in Nat
    <3>1. Behind(t)' \subseteq Task \ {t}
      BY <2>4
    <3> QED
      BY <2>5, <3>1, FS_Subset, FS_CardinalityType
  <2>7. CASE Late(t) < 0
    BY <2>3, <2>6, <2>7
  <2>8. CASE Late(t) >= 0
    <3>1. due[t] < 1
      BY <1>5, <2>1, <2>3, <2>8 DEF Timed
    <3>2. PICK u \in Called(list) : TRUE
      BY <2>1, <3>1, CalledOverdue DEF TimerInv, TypeOK
    <3>3. /\ u \in Task \ {t} /\ u \in ToSet(list) /\ u \notin ToSet(list')
          /\ due[u] \in Int /\ due[u] < 1
      <4>1. u \in Task
        BY <1>1 DEF TimerInv, TypeOK, ToSet
      <4>2. u \in ToSet(list) /\ u # t /\ u \notin ToSet(list')
        BY <1>1, <2>1
      <4>3. due[u] < 1
        BY CalledOverdue DEF TimerInv, TypeOK
      <4> QED
        BY <1>5, <4>1, <4>2, <4>3
    <3>4. u \notin Behind(t) /\ u \in Behind(t)'
      <4>1. ~(due[u] >= N - Late(t))
        BY <2>2, <2>3, <2>8, <3>3
      <4> QED
        BY <2>4, <3>3, <4>1 DEF Behind
    <3>5. ASSUME NEW w \in Behind(t) PROVE w \in Behind(t)'
      <4>1. w \in Task \ {t} /\ (w \in ToSet(list) => due[w] >= N - Late(t))
        BY DEF Behind
      <4>2. w \in ToSet(list') => due'[w] >= N - Late(t)'
        <5>1. SUFFICES ASSUME w \in ToSet(list') PROVE due'[w] >= N - Late(t)'
          OBVIOUS
        <5>2. w \in ToSet(list) /\ Linked(w)'
          BY <1>1, <5>1 DEF Linked
        <5>3. due[w] \in Int /\ due'[w] = IF due[w] > -Longest THEN due[w] - 1 ELSE due[w]
          BY <1>5, <4>1, <5>2
        <5> QED
          BY <1>4, <2>2, <2>3, <4>1, <5>2, <5>3
      <4> QED
        BY <2>4, <4>1, <4>2
    <3>6. /\ IsFiniteSet(Behind(t) \cup {u})
          /\ Cardinality(Behind(t) \cup {u}) = Cardinality(Behind(t)) + 1
      BY <2>5, <3>4, FS_AddElement
    <3>7. Behind(t) \cup {u} \subseteq Behind(t)'
      BY <3>4, <3>5
    <3>8. Cardinality(Behind(t) \cup {u}) <= Cardinality(Behind(t)')
      BY <2>6, <3>7, FS_Subset
    <3>9. Cardinality(Behind(t)) >= Late(t)
      BY <2>1, <2>8 DEF Overtaken
    <3> QED
      BY <2>3, <2>5, <2>6, <3>6, <3>8, <3>9
  <2> QED
    BY <2>3, <2>7, <2>8
<1>8. LongDelays' = LongDelays
  BY <1>4 DEF LongDelays
<1> QED
  BY <1>3, <1>6, <1>7, <1>8 DEF TimeInv

\* Every step keeps the bound on the wait.
LEMMA TimeStep ==
  UntilTorn /\ (~torn => TimeInv) /\ [Next]_vars => (~torn' => TimeInv')
<1> SUFFICES ASSUME UntilTorn, ~torn => TimeInv, [Next]_vars, ~torn' PROVE TimeInv'
  OBVIOUS
<1>1. /\ ~torn /\ TimerInv /\ TimeInv /\ TypeOK'
      /\ (\E t \in Task : Call(t)) \/ Tick \/ UNCHANGED vars
  BY TimerStep DEF UntilTorn
<1>2. CASE UNCHANGED vars
  <2>1. UNCHANGED <<list, until, ahead, due, asked, ticks, ended>>
    BY <1>2 DEF vars, waiting, history
  <2> QED
    BY <1>1, <2>1 DEF TimeInv, Timed, Overtaken, Behind, Late, Linked, N, LongDelays
<1> QED
  BY <1>1, <1>2, TaskOnTime, TickOnTime

\* None is replied to early; and no client of UNIT_VBLANK is kept waiting for more than
\* a period for every task, if each asks for a period per other client, though an
\* interrupt replies to one request of a list and starts with the latest
\* (_timerirq.c:24-52).
THEOREM RepliesOnTime == Spec => []Punctual
<1>1. UntilTorn /\ (~torn => TimeInv) => Punctual
  BY LateBound DEF UntilTorn, TimerInv, TimeInv, Timed, Punctual
<1>2. Init => (~torn => TimeInv)
  BY TimeInit
<1>3. Spec => [](~torn => TimeInv)
  BY <1>2, TimerInvAlways, TimeStep, PTL DEF Spec
<1> QED
  BY <1>1, <1>3, TimerInvAlways, PTL
----------------------------------------------------------------------------
(***************************************************************************)
(* Arithmetic, from here on.  First, powers of two.                        *)
(***************************************************************************)
\* The subsets of 1..n + 1 are those of 1..n, each without n + 1 and with it.
LEMMA Doubles ==
  ASSUME NEW n \in Nat
  PROVE  2^n \in Nat /\ 2^(n + 1) = 2 * 2^n
<1> DEFINE A == SUBSET (1..n)
           B == {X \cup {n + 1} : X \in A}
<1>1. /\ IsFiniteSet(1..n) /\ Cardinality(1..n) = n
      /\ IsFiniteSet(1..n + 1) /\ Cardinality(1..n + 1) = n + 1
  BY FS_Interval
<1>2. /\ IsFiniteSet(A) /\ Cardinality(A) = 2^n
      /\ Cardinality(SUBSET (1..n + 1)) = 2^(n + 1)
  BY <1>1, FS_SUBSET
<1>3. SUBSET (1..n + 1) = A \cup B
  <2>1. ASSUME NEW X \in SUBSET (1..n + 1) PROVE X \in A \cup B
    <3>1. X \ {n + 1} \in A
      OBVIOUS
    <3>2. CASE n + 1 \in X
      BY <3>1, <3>2, X = (X \ {n + 1}) \cup {n + 1}
    <3>3. CASE n + 1 \notin X
      BY <3>3
    <3> QED
      BY <3>2, <3>3
  <2>2. ASSUME NEW X \in A PROVE X \in SUBSET (1..n + 1) /\ X \cup {n + 1} \in SUBSET (1..n + 1)
    OBVIOUS
  <2>3. B \subseteq SUBSET (1..n + 1) /\ A \subseteq SUBSET (1..n + 1)
    BY <2>2
  <2> HIDE DEF A, B
  <2> QED
    BY <2>1, <2>3
<1>4. A \cap B = {}
  OBVIOUS
<1>5. IsFiniteSet(B) /\ Cardinality(B) = Cardinality(A)
  <2> DEFINE f == [X \in A |-> X \cup {n + 1}]
  <2>1. \A X, Y \in A : X \cup {n + 1} = Y \cup {n + 1} => X = Y
    <3>1. \A X \in A : X = (X \cup {n + 1}) \ {n + 1}
      OBVIOUS
    <3> QED
      BY <3>1
  <2>2. f \in [A -> B]
    OBVIOUS
  <2>3. \A X, Y \in A : f[X] = f[Y] => X = Y
    BY <2>1
  <2>4. \A Y \in B : \E X \in A : f[X] = Y
    OBVIOUS
  <2> HIDE DEF f, A, B
  <2>5. f \in Bijection(A, B)
    BY <2>2, <2>3, <2>4, Fun_IsBij
  <2>6. ExistsBijection(A, B)
    BY <2>5, Fun_ExistsBij
  <2> QED
    BY <1>2, <2>6, FS_Bijection
<1>6. Cardinality(A \cup B) = Cardinality(A) + Cardinality(B)
  <2> HIDE DEF A, B
  <2>1. Cardinality(A \cap B) = 0
    BY <1>4, FS_EmptySet
  <2>2. Cardinality(A \cup B) = Cardinality(A) + Cardinality(B) - Cardinality(A \cap B)
    BY <1>2, <1>5, FS_Union
  <2>3. Cardinality(A) \in Nat /\ Cardinality(B) \in Nat
    BY <1>2, <1>5, FS_CardinalityType
  <2> QED
    BY <2>1, <2>2, <2>3
<1> HIDE DEF A, B
<1>7. Cardinality(A) \in Nat
  BY <1>2, FS_CardinalityType
<1>8. 2^(n + 1) = Cardinality(A) + Cardinality(A)
  BY <1>2, <1>3, <1>5, <1>6, Zenon
<1>9. 2^n = Cardinality(A)
  BY <1>2
<1>10. \A x, y, k \in Nat : y = k + k /\ x = k => x \in Nat /\ y = 2 * x
  OBVIOUS
<1>11. 2^(n + 1) \in Nat
  BY <1>7, <1>8
<1> QED
  BY <1>7, <1>8, <1>9, <1>10, <1>11, Zenon

\* What the powers of two are made of.
LEMMA Powers ==
  /\ 2^0 = 1 /\ 2^1 = 2 /\ 2^2 = 4 /\ 2^3 = 8 /\ 2^4 = 16
  /\ \A n \in Nat : 2^n \in Nat \ {0} /\ 2^n >= 1
  /\ \A n \in Nat : 2^(n + 1) = 2 * 2^n
<1>1. 2^0 = 1 /\ 2^1 = 2 /\ 2^2 = 4 /\ 2^3 = 8 /\ 2^4 = 16
  OBVIOUS
<1> DEFINE S == {n \in Nat : 2^n >= 1}
<1>2. 0 \in S /\ \A n \in Nat : n \in S => n + 1 \in S
  BY <1>1, Doubles
<1> HIDE DEF S
<1>3. \A n \in Nat : n \in S
  BY <1>2, AllNats
<1> QED
  BY <1>1, <1>3, Doubles DEF S

\* Exponents add up.
LEMMA PowersAdd ==
  \A m, n \in Nat : 2^(m + n) = 2^m * 2^n
<1> SUFFICES ASSUME NEW m \in Nat PROVE \A n \in Nat : 2^(m + n) = 2^m * 2^n
  OBVIOUS
<1> DEFINE S == {n \in Nat : 2^(m + n) = 2^m * 2^n}
<1>1. 0 \in S
  BY Powers
<1>2. ASSUME NEW n \in Nat, n \in S PROVE n + 1 \in S
  <2>1. /\ 2^(m + n) = 2^m * 2^n /\ m + (n + 1) = (m + n) + 1 /\ m + n \in Nat
        /\ 2^((m + n) + 1) = 2 * 2^(m + n) /\ 2^(n + 1) = 2 * 2^n
    BY <1>2, Powers
  <2>2. 2^m \in Nat /\ 2^n \in Nat
    BY Powers
  <2>3. 2 * (2^m * 2^n) = 2^m * (2 * 2^n)
    BY <2>2
  <2> QED
    BY <2>1, <2>3
<1> HIDE DEF S
<1>3. \A n \in Nat : n \in S
  BY <1>1, <1>2, AllNats
<1> QED
  BY <1>3 DEF S

\* A higher exponent makes a higher power, at least twice as high.
LEMMA PowersOrder ==
  \A m, n \in Nat : m < n => 2 * 2^m <= 2^n
<1> SUFFICES ASSUME NEW m \in Nat, NEW n \in Nat, m < n PROVE 2 * 2^m <= 2^n
  OBVIOUS
<1>1. n - m - 1 \in Nat /\ n = (m + 1) + (n - m - 1) /\ m + 1 \in Nat
  OBVIOUS
<1>2. 2^n = 2^(m + 1) * 2^(n - m - 1) /\ 2^(m + 1) = 2 * 2^m
  BY <1>1, PowersAdd, Powers
<1>3. 2^(n - m - 1) >= 1 /\ 2^(n - m - 1) \in Nat /\ 2^m \in Nat
  BY <1>1, Powers
<1> QED
  BY <1>2, <1>3
----------------------------------------------------------------------------
(***************************************************************************)
(* Words.                                                                  *)
(***************************************************************************)
\* A quotient and a remainder below the divisor are the quotient and the remainder.
LEMMA DivUnique ==
  ASSUME NEW a \in Int, NEW b \in Nat \ {0}, NEW q \in Int, NEW r \in Nat, a = b * q + r, r < b
  PROVE  a \div b = q /\ a % b = r
OBVIOUS

\* The same, as a formula to instantiate.
LEMMA DivRule ==
  \A b \in Nat \ {0}, d, q \in Int, r \in Nat : d = b * q + r /\ r < b => d \div b = q /\ d % b = r
BY DivUnique

\* Quotient and remainder.
LEMMA DivExists ==
  ASSUME NEW a \in Int, NEW b \in Nat \ {0}
  PROVE  /\ a \div b \in Int /\ a % b \in Nat
         /\ a = b * (a \div b) + (a % b) /\ a % b < b
         /\ a >= 0 => a \div b \in Nat
OBVIOUS

\* The same, of naturals and with names.
LEMMA DivNat ==
  ASSUME NEW a \in Nat, NEW b \in Nat \ {0}
  PROVE  \E q, r \in Nat : a \div b = q /\ a % b = r /\ a = b * q + r /\ r < b
<1>1. a \div b \in Nat /\ a % b \in Nat /\ a = b * (a \div b) + (a % b) /\ a % b < b
  BY DivExists
<1> QED
  BY <1>1, Zenon

\* The limits of the loops that shift up.
LEMMA Limits ==
  /\ W \in Nat /\ W >= 4
  /\ 2^(W - 4) \in Nat \ {0} /\ 2^(W - 3) = 2 * 2^(W - 4)
  /\ Half = 8 * 2^(W - 4) /\ Base = 16 * 2^(W - 4) /\ Base = 2 * Half
  /\ Half \in Nat \ {0} /\ Base \in Nat \ {0} /\ Base >= 16
<1>1. W \in Nat /\ W >= 4
  BY ArithmeticAssumption
<1>2. W - 4 \in Nat /\ W - 3 = (W - 4) + 1 /\ W - 1 = (W - 4) + 3 /\ W = (W - 4) + 4
  BY <1>1
<1>3. 2^(W - 4) \in Nat \ {0} /\ 2^(W - 4) >= 1
  BY <1>2, Powers
<1>4. 2^((W - 4) + 1) = 2^(W - 4) * 2 /\ 2^((W - 4) + 3) = 2^(W - 4) * 8
      /\ 2^((W - 4) + 4) = 2^(W - 4) * 16
  <2>1. /\ 2^((W - 4) + 1) = 2^(W - 4) * 2^1 /\ 2^((W - 4) + 3) = 2^(W - 4) * 2^3
        /\ 2^((W - 4) + 4) = 2^(W - 4) * 2^4
    <3>1. 1 \in Nat /\ 3 \in Nat /\ 4 \in Nat
      OBVIOUS
    <3> QED
      BY <1>2, <3>1, PowersAdd, Zenon
  <2> QED
    BY <2>1, Powers, Zenon
<1>5. 2^(W - 3) = 2^(W - 4) * 2 /\ Half = 2^(W - 4) * 8 /\ Base = 2^(W - 4) * 16
  BY <1>2, <1>4, Zenon DEF Half, Base
<1> QED
  BY <1>1, <1>3, <1>5

\* Shifts of a word by less than its bits.
LEMMA LslIs ==
  ASSUME NEW x \in Nat, NEW n \in Nat, n < W, x * 2^n < Base
  PROVE  Lsl(x, n) = x * 2^n
<1>1. x * 2^n \in Nat
  BY Powers
<1>2. (x * 2^n) % Base = x * 2^n
  BY <1>1, DivUnique, Limits
<1> QED
  BY <1>2, Limits DEF Lsl

\* A shift down divides: from W places on, by more than any word.
LEMMA LsrIs ==
  ASSUME NEW x \in Nat, x < Base, NEW n \in Nat
  PROVE  Lsr(x, n) = x \div 2^n
<1>1. CASE n < W
  BY <1>1, Limits DEF Lsr
<1>2. CASE n >= W
  <2>1. 2^n >= Base /\ 2^n \in Nat \ {0}
    <3>1. CASE n = W
      BY <3>1, Powers DEF Base
    <3>2. CASE n > W
      BY <3>2, Powers, PowersOrder, Limits DEF Base
    <3> QED
      BY <1>2, <3>1, <3>2, Limits
  <2>2. x \div 2^n = 0
    BY <2>1, Limits, DivUnique, x = 2^n * 0 + x
  <2> QED
    BY <1>2, <2>2, Limits DEF Lsr
<1> QED
  BY <1>1, <1>2, Limits

\* What is a multiple of the divisor is shifted down without a rest.
LEMMA LsrMultiple ==
  ASSUME NEW c \in Nat, NEW n \in Nat, n < W
  PROVE  Lsr(c * 2^n, n) = c
<1>1. n < W /\ n \in Nat /\ 2^n \in Nat \ {0}
  BY Limits, Powers
<1>2. (c * 2^n) \div 2^n = c
  BY <1>1, DivUnique, c * 2^n = 2^n * c + 0, c * 2^n \in Int
<1> QED
  BY <1>1, <1>2, Limits DEF Lsr
----------------------------------------------------------------------------
(***************************************************************************)
(* The loop of trial subtractions.  Exact(x, a, b, c): what the registers  *)
(* x hold of the division of a by b is right down to the bits below c.     *)
(***************************************************************************)
Exact(x, a, b, c) ==
  /\ x.dividend + b * x.result = a
  /\ x.dividend < b * c
  /\ \E k \in Nat : x.result = c * k

\* The registers that a subtraction leaves alone.
Same(x, y) == y \in Registers /\ y.divisor = x.divisor /\ y.curbit = x.curbit /\ y.order = x.order

\* Registers with another dividend and result.
With(x, d, q) == [x EXCEPT !.dividend = d, !.result = q]

\* What With changes, and what it leaves.
LEMMA WithIs ==
  ASSUME NEW x \in Registers, NEW d \in Nat, NEW q \in Nat
  PROVE  Same(x, With(x, d, q)) /\ With(x, d, q).dividend = d /\ With(x, d, q).result = q
BY DEF Same, Registers, With

\* A subtraction with a bit of curbit left makes one more bit of the quotient right.
LEMMA RealSubtract ==
  ASSUME NEW x \in Registers, NEW a \in Nat, NEW b \in Nat \ {0}, NEW c \in Nat \ {0}, NEW n \in 0..3,
         x.curbit = c * 2^n, x.divisor = (b * c) * 2^n, Exact(x, a, b, 2 * c)
  PROVE  /\ Same(x, Subtract(x, n)) /\ Exact(Subtract(x, n), a, b, c)
         /\ Subtract(x, n).result >= x.result
         /\ x.dividend >= Lsr(x.divisor, n) => Subtract(x, n).result >= c
<1> DEFINE y == Subtract(x, n)
<1>1. Lsr(x.curbit, n) = c /\ Lsr(x.divisor, n) = b * c /\ b * c \in Nat
  <2>1. b * c \in Nat
    OBVIOUS
  <2>2. n \in Nat /\ n < W
    BY Limits
  <2>3. Lsr((b * c) * 2^n, n) = b * c
    BY <2>1, <2>2, LsrMultiple
  <2>4. Lsr(c * 2^n, n) = c
    BY <2>2, LsrMultiple
  <2> QED
    BY <2>1, <2>3, <2>4
<1>2. x.dividend \in Nat /\ x.result \in Nat /\ x.order \in Int /\ x.curbit \in Nat /\ x.divisor \in Nat
  BY DEF Registers
<1>3. PICK k \in Nat : x.result = (2 * c) * k
  BY DEF Exact
<1>4. Orr(x.result, c) = x.result + c
  <2>1. x.result \div c = 2 * k
    BY <1>2, <1>3, DivUnique, x.result = c * (2 * k) + 0
  <2>2. (2 * k) % 2 = 0
    BY DivUnique, 2 * k = 2 * k + 0
  <2> QED
    BY <2>1, <2>2 DEF Orr
<1>5. CASE x.dividend >= b * c
  <2>1. y = With(x, x.dividend - b * c, x.result + c)
    BY <1>1, <1>4, <1>5 DEF Subtract, With
  <2>2. y.dividend = x.dividend - b * c /\ y.result = x.result + c /\ Same(x, y)
    <3>1. x.dividend - b * c \in Nat /\ x.result + c \in Nat
      BY <1>1, <1>2, <1>5
    <3> HIDE DEF y
    <3> QED
      BY <2>1, <3>1, WithIs
  <2> HIDE DEF y
  <2>3. y.result = c * (2 * k + 1) /\ 2 * k + 1 \in Nat
    BY <1>3, <2>2
  <2>4. b * (x.result + c) = b * x.result + b * c /\ b * (2 * c) = b * c + b * c
    BY <1>2
  <2>5. b * x.result \in Nat
    BY <1>2
  <2>6. Exact(y, a, b, c)
    <3>1. x.dividend + b * x.result = a /\ x.dividend < b * c + b * c
      BY <2>4 DEF Exact
    <3>2. y.dividend + b * y.result = a /\ y.dividend < b * c
      BY <1>1, <1>2, <2>2, <2>4, <2>5, <3>1
    <3> QED
      BY <2>3, <3>2 DEF Exact
  <2> QED
    BY <1>2, <2>2, <2>6 DEF y
<1>6. CASE ~(x.dividend >= b * c)
  <2>1. y = x
    BY <1>1, <1>6 DEF Subtract
  <2>2. x.result = c * (2 * k) /\ 2 * k \in Nat
    BY <1>3
  <2>3. Exact(x, a, b, c)
    <3>1. x.dividend < b * c
      BY <1>1, <1>2, <1>6
    <3> QED
      BY <2>2, <3>1 DEF Exact
  <2> QED
    BY <1>1, <1>2, <1>6, <2>1, <2>3 DEF Same
<1> QED
  BY <1>5, <1>6

\* A subtraction with no bit left changes the dividend alone.
LEMMA JunkSubtract ==
  ASSUME NEW x \in Registers, NEW n \in 0..3, x.curbit < 2^n
  PROVE  /\ Same(x, Subtract(x, n))
         /\ Subtract(x, n).result = x.result
         /\ Subtract(x, n).dividend = IF x.dividend >= Lsr(x.divisor, n)
                                      THEN x.dividend - Lsr(x.divisor, n) ELSE x.dividend
<1>1. x.dividend \in Nat /\ x.result \in Nat /\ x.order \in Int /\ x.curbit \in Nat /\ x.divisor \in Nat
  BY DEF Registers
<1>2. n < W /\ n \in Nat /\ 2^n \in Nat \ {0}
  BY Limits, Powers
<1>3. Lsr(x.curbit, n) = 0
  BY <1>1, <1>2, DivUnique, x.curbit = 2^n * 0 + x.curbit DEF Lsr
<1>4. Lsr(x.divisor, n) \in Nat
  BY <1>1, <1>2, DivExists DEF Lsr
<1>5. Orr(x.result, 0) = x.result
  BY DEF Orr
<1>6. CASE x.dividend >= Lsr(x.divisor, n)
  <2>1. Subtract(x, n) = With(x, x.dividend - Lsr(x.divisor, n), x.result)
    BY <1>3, <1>5, <1>6 DEF Subtract, With
  <2>2. x.dividend - Lsr(x.divisor, n) \in Nat
    BY <1>1, <1>4, <1>6
  <2>3. /\ Same(x, Subtract(x, n)) /\ Subtract(x, n).result = x.result
        /\ Subtract(x, n).dividend = x.dividend - Lsr(x.divisor, n)
    BY <1>1, <2>1, <2>2, WithIs
  <2> QED
    BY <1>6, <2>3
<1>7. CASE ~(x.dividend >= Lsr(x.divisor, n))
  BY <1>1, <1>7 DEF Subtract, Same
<1> QED
  BY <1>6, <1>7

\* The registers after the first n subtractions of a batch.
Done(x, n) ==
  IF n = 0 THEN x ELSE
  IF n = 1 THEN Subtract(x, 0) ELSE
  IF n = 2 THEN Subtract(Subtract(x, 0), 1) ELSE
  IF n = 3 THEN Subtract(Subtract(Subtract(x, 0), 1), 2)
  ELSE Batch(x)

\* One trial subtraction more.
LEMMA DoneStep ==
  \A x : \A n \in 0..3 : Done(x, n + 1) = Subtract(Done(x, n), n)
BY DEF Done, Batch

\* A batch that begins with the k-th bit: after n subtractions the bits from the
\* (k + 1 - n)-th on are right.
Starts(x, a, b, k) ==
  x \in Registers /\ x.curbit = 2^k /\ x.divisor = b * 2^k /\ Exact(x, a, b, 2 * 2^k)

\* A trial subtraction of the divisor times a power of two finds the bit of that
\* power (_udivsi3.s).
LEMMA StepReal ==
  ASSUME NEW a \in Nat, NEW b \in Nat \ {0}, NEW k \in Nat, NEW x, Starts(x, a, b, k),
         NEW n \in 0..3, n <= k,
         Same(x, Done(x, n)), Exact(Done(x, n), a, b, 2 * 2^(k - n))
  PROVE  /\ Same(x, Done(x, n + 1)) /\ Exact(Done(x, n + 1), a, b, 2^(k - n))
         /\ Done(x, n + 1).result >= Done(x, n).result
         /\ Done(x, n).dividend >= Lsr(x.divisor, n) => Done(x, n + 1).result >= 2^(k - n)
<1> DEFINE c == 2^(k - n)
           y == Done(x, n)
<1>1. c \in Nat \ {0} /\ 2^k = c * 2^n /\ 2^n \in Nat
  <2>1. k - n \in Nat /\ n \in Nat /\ k = (k - n) + n
    OBVIOUS
  <2>2. 2^((k - n) + n) = 2^(k - n) * 2^n
    BY <2>1, PowersAdd
  <2> QED
    BY <2>1, <2>2, Powers
<1>2. y \in Registers /\ y.curbit = x.curbit /\ y.divisor = x.divisor /\ y.order = x.order
  BY DEF Same
<1>3. Exact(y, a, b, 2 * c)
  OBVIOUS
<1>4. Done(x, n + 1) = Subtract(y, n)
  BY DoneStep
<1> HIDE DEF c, y
<1>5. y.curbit = c * 2^n /\ y.divisor = (b * c) * 2^n
  <2>1. b * (c * 2^n) = (b * c) * 2^n
    BY <1>1
  <2> QED
    BY <1>1, <1>2, <2>1 DEF Starts
<1>6. /\ Same(y, Subtract(y, n)) /\ Exact(Subtract(y, n), a, b, c)
      /\ Subtract(y, n).result >= y.result
      /\ y.dividend >= Lsr(y.divisor, n) => Subtract(y, n).result >= c
  BY <1>1, <1>2, <1>3, <1>5, RealSubtract
<1>7. Same(x, Done(x, n + 1))
  BY <1>2, <1>4, <1>6 DEF Same
<1> QED
  BY <1>2, <1>4, <1>6, <1>7 DEF c, y

\* Once curbit has been shifted out, a trial subtraction finds no bit, but may take
\* from the dividend.
LEMMA StepJunk ==
  ASSUME NEW a \in Nat, NEW b \in Nat \ {0}, NEW k \in Nat, NEW x, Starts(x, a, b, k),
         NEW n \in 0..3, n > k, Same(x, Done(x, n))
  PROVE  /\ Same(x, Done(x, n + 1))
         /\ Done(x, n + 1).result = Done(x, n).result
         /\ Done(x, n + 1).dividend = IF Done(x, n).dividend >= Lsr(x.divisor, n)
                                      THEN Done(x, n).dividend - Lsr(x.divisor, n)
                                      ELSE Done(x, n).dividend
<1> DEFINE y == Done(x, n)
<1>1. y \in Registers /\ y.curbit = x.curbit /\ y.divisor = x.divisor /\ y.order = x.order
  BY DEF Same
<1>2. Done(x, n + 1) = Subtract(y, n)
  BY DoneStep
<1>3. y.curbit < 2^n
  <2>1. 2 * 2^k <= 2^n /\ 2^k \in Nat \ {0} /\ 2^n \in Nat
    BY Powers, PowersOrder
  <2> QED
    BY <1>1, <2>1 DEF Starts
<1> HIDE DEF y
<1>4. /\ Same(y, Subtract(y, n)) /\ Subtract(y, n).result = y.result
      /\ Subtract(y, n).dividend = IF y.dividend >= Lsr(y.divisor, n)
                                   THEN y.dividend - Lsr(y.divisor, n) ELSE y.dividend
  BY <1>1, <1>3, JunkSubtract
<1> QED
  BY <1>1, <1>2, <1>4 DEF Same, y

\* As long as there are bits.
LEMMA BatchReal ==
  ASSUME NEW a \in Nat, NEW b \in Nat \ {0}, NEW k \in Nat, NEW x, Starts(x, a, b, k)
  PROVE  \A n \in 0..4 : n <= k + 1 => Same(x, Done(x, n)) /\ Exact(Done(x, n), a, b, 2^(k + 1 - n))
<1> DEFINE P(n) == n <= k + 1 => Same(x, Done(x, n)) /\ Exact(Done(x, n), a, b, 2^(k + 1 - n))
<1>1. P(0)
  <2>1. 2^(k + 1) = 2 * 2^k /\ k + 1 - 0 = k + 1
    BY Powers
  <2> QED
    BY <2>1 DEF Starts, Same, Done
<1>2. ASSUME NEW n \in 0..3, P(n) PROVE P(n + 1)
  <2> SUFFICES ASSUME n <= k
               PROVE  Same(x, Done(x, n + 1)) /\ Exact(Done(x, n + 1), a, b, 2^(k + 1 - (n + 1)))
    OBVIOUS
  <2>1. k - n \in Nat /\ k + 1 - n = (k - n) + 1 /\ k + 1 - (n + 1) = k - n
    OBVIOUS
  <2>2. Same(x, Done(x, n)) /\ Exact(Done(x, n), a, b, 2 * 2^(k - n))
    BY <1>2, <2>1, Powers
  <2> QED
    BY <2>1, <2>2, StepReal
<1> HIDE DEF P
<1>3. P(1) /\ P(2) /\ P(3) /\ P(4)
  <2>1. P(0 + 1)
    BY <1>1, <1>2
  <2>2. P(1 + 1)
    BY <1>2, <2>1
  <2>3. P(2 + 1)
    BY <1>2, <2>2
  <2>4. P(3 + 1)
    BY <1>2, <2>3
  <2> QED
    BY <2>1, <2>2, <2>3, <2>4
<1> QED
  BY <1>1, <1>3 DEF P

\* The last batch may subtract too much, but not from the quotient.
LEMMA BatchAll ==
  ASSUME NEW a \in Nat, NEW b \in Nat \ {0}, NEW k \in Nat, NEW x, Starts(x, a, b, k)
  PROVE  /\ \A n \in 0..4 : Same(x, Done(x, n))
         /\ k <= 3 => /\ a % b = Done(x, k + 1).dividend /\ a \div b = Done(x, k + 1).result
                      /\ \A n \in 0..4 : n > k => Done(x, n).result = Done(x, k + 1).result
<1> DEFINE P(n) == /\ Same(x, Done(x, n))
                   /\ n > k => Done(x, n).result = Done(x, k + 1).result
<1>1. P(0)
  BY DEF Starts, Same, Done
<1>2. ASSUME NEW n \in 0..3, P(n) PROVE P(n + 1)
  <2>1. CASE n <= k
    <3>1. Same(x, Done(x, n + 1))
      BY <2>1, BatchReal, n + 1 \in 0..4, n + 1 <= k + 1
    <3> QED
      BY <2>1, <3>1, n + 1 > k => n + 1 = k + 1
  <2>2. CASE n > k
    BY <1>2, <2>2, StepJunk
  <2> QED
    BY <2>1, <2>2
<1> HIDE DEF P
<1>3. P(1) /\ P(2) /\ P(3) /\ P(4)
  <2>1. P(0 + 1)
    BY <1>1, <1>2
  <2>2. P(1 + 1)
    BY <1>2, <2>1
  <2>3. P(2 + 1)
    BY <1>2, <2>2
  <2>4. P(3 + 1)
    BY <1>2, <2>3
  <2> QED
    BY <2>1, <2>2, <2>3, <2>4
<1>4. \A n \in 0..4 : P(n)
  BY <1>1, <1>3
<1>5. ASSUME k <= 3
      PROVE  a % b = Done(x, k + 1).dividend /\ a \div b = Done(x, k + 1).result
  <2> DEFINE y == Done(x, k + 1)
  <2>1. k + 1 \in 0..4 /\ k + 1 <= k + 1 /\ k + 1 - (k + 1) = 0
    BY <1>5
  <2>2. Same(x, y) /\ Exact(y, a, b, 2^(k + 1 - (k + 1)))
    BY <2>1, BatchReal
  <2> HIDE DEF y
  <2>3. Same(x, y) /\ Exact(y, a, b, 1)
    BY <2>1, <2>2, Powers
  <2>4. y.dividend \in Nat /\ y.result \in Nat
    BY <2>3 DEF Same, Registers
  <2>5. a = b * y.result + y.dividend /\ y.dividend < b
    BY <2>3, <2>4 DEF Exact
  <2>6. \A q, r \in Nat : a = b * q + r /\ r < b => a \div b = q /\ a % b = r
    BY DivUnique
  <2>7. a \div b = y.result /\ a % b = y.dividend
    BY <2>4, <2>5, <2>6, Zenon
  <2> QED
    BY <2>7 DEF y
<1> QED
  BY <1>4, <1>5 DEF P

\* The loop of batches.
Lower(s) == [s EXCEPT !.curbit = Lsr(@, 4), !.divisor = Lsr(@, 4)]
Pass == [x \in Registers |-> IF Over(Batch(x)) THEN x ELSE Lower(Batch(x))]

\* What Lower changes, and what it leaves.
LEMMA LowerIs ==
  ASSUME NEW s \in Registers, NEW c \in Nat, NEW d \in Nat, Lsr(s.curbit, 4) = c, Lsr(s.divisor, 4) = d
  PROVE  /\ Lower(s) \in Registers /\ Lower(s).dividend = s.dividend /\ Lower(s).result = s.result
         /\ Lower(s).order = s.order /\ Lower(s).curbit = c /\ Lower(s).divisor = d
BY DEF Lower, Registers

\* A batch that is not the last begins with the fourth bit at least, and the next one four
\* bits further down.
LEMMA NextPass ==
  ASSUME NEW a \in Nat, NEW b \in Nat \ {0}, NEW k \in Nat, NEW x, Starts(x, a, b, k),
         ~Over(Batch(x))
  PROVE  k >= 4 /\ Starts(Lower(Batch(x)), a, b, k - 4) /\ Lower(Batch(x)).order = x.order
<1> DEFINE y == Batch(x)
<1>1. Same(x, y)
  <2>1. Same(x, Done(x, 4))
    BY BatchAll
  <2> QED
    BY <2>1 DEF Done
<1>2. y \in Registers /\ y.curbit = 2^k /\ y.divisor = b * 2^k /\ y.order = x.order
  BY <1>1 DEF Same, Starts
<1>3. W > 4 /\ Lsr(2^k, 4) = 2^k \div 2^4 /\ 2^k \div 2^4 # 0
  BY <1>2, Limits DEF Over, Lsr
<1>4. k >= 4
  <2> SUFFICES ASSUME k < 4 PROVE FALSE
    OBVIOUS
  <2>1. 2 * 2^k <= 2^4 /\ 2^k \in Nat \ {0} /\ 2^4 \in Nat \ {0}
    BY Powers, PowersOrder
  <2>2. 2^k \div 2^4 = 0
    BY <2>1, DivUnique, 2^k = 2^4 * 0 + 2^k
  <2> QED
    BY <1>3, <2>2
<1> DEFINE c == 2^(k - 4)
<1>5. c \in Nat \ {0} /\ 2^k = c * 2^4 /\ 2^(k - 3) = 2 * c /\ k - 4 \in Nat
  <2>1. k - 4 \in Nat /\ k = (k - 4) + 4 /\ k - 3 = (k - 4) + 1
    BY <1>4
  <2>2. 2^((k - 4) + 4) = 2^(k - 4) * 2^4
    BY <2>1, PowersAdd
  <2> QED
    BY <2>1, <2>2, Powers
<1>6. Exact(y, a, b, 2 * c)
  <2>1. 4 \in 0..4 /\ 4 <= k + 1 /\ k + 1 - 4 = k - 3
    BY <1>4
  <2>2. Exact(Done(x, 4), a, b, 2^(k + 1 - 4))
    BY <2>1, BatchReal
  <2> QED
    BY <1>5, <2>1, <2>2 DEF Done
<1> HIDE DEF c, y
<1>7. Lsr(y.curbit, 4) = c /\ Lsr(y.divisor, 4) = b * c /\ b * c \in Nat
  <2>1. b * c \in Nat /\ b * (c * 2^4) = (b * c) * 2^4
    BY <1>5, Powers
  <2>2. Lsr(c * 2^4, 4) = c
    BY <1>3, <1>5, LsrMultiple
  <2>3. Lsr((b * c) * 2^4, 4) = b * c
    BY <1>3, <2>1, LsrMultiple
  <2> QED
    BY <1>2, <1>5, <2>1, <2>2, <2>3
<1>8. /\ Lower(y) \in Registers /\ Lower(y).dividend = y.dividend /\ Lower(y).result = y.result
      /\ Lower(y).order = y.order /\ Lower(y).curbit = c /\ Lower(y).divisor = b * c
  BY <1>2, <1>5, <1>7, LowerIs
<1>9. Exact(Lower(y), a, b, 2 * c)
  BY <1>6, <1>8 DEF Exact
<1> QED
  BY <1>2, <1>4, <1>8, <1>9 DEF Starts, c, y

\* The loop ends, with a batch that is over.
LEMMA LastPassIs ==
  ASSUME NEW a \in Nat, NEW b \in Nat \ {0}, NEW k0 \in 0..W - 1, NEW x0, Starts(x0, a, b, k0)
  PROVE  \E k \in 0..W - 1 : Starts(LastPass(x0), a, b, k) /\ Over(Batch(LastPass(x0)))
<1> DEFINE I == {x \in Registers : \E k \in 0..W - 1 : Starts(x, a, b, k)}
           v == [x \in I |-> CHOOSE k \in 0..W - 1 : x.curbit = 2^k]
           z == LastPass(x0)
<1>1. W \in Nat
  BY Limits
<1>2. ASSUME NEW x \in I, NEW k \in 0..W - 1, Starts(x, a, b, k) PROVE v[x] = k
  <2>1. \A m \in 0..W - 1 : 2^m = 2^k => m = k
    <3> SUFFICES ASSUME NEW m \in 0..W - 1, 2^m = 2^k PROVE m = k
      OBVIOUS
    <3>1. m \in Nat /\ k \in Nat
      BY <1>1
    <3>2. 2^m \in Nat \ {0} /\ (m < k => 2 * 2^m <= 2^k) /\ (k < m => 2 * 2^k <= 2^m)
      BY <3>1, Powers, PowersOrder
    <3> QED
      BY <3>1, <3>2
  <2>2. x.curbit = 2^k
    BY <1>2 DEF Starts
  <2> QED
    BY <2>1, <2>2
<1>3. v \in [I -> Nat]
  <2>1. v = [x \in I |-> v[x]]
    OBVIOUS
  <2> HIDE DEF v
  <2>2. ASSUME NEW x \in I PROVE v[x] \in Nat
    <3>1. PICK k \in 0..W - 1 : Starts(x, a, b, k)
      OBVIOUS
    <3>2. v[x] = k
      BY <1>2, <3>1
    <3> QED
      BY <1>1, <3>2
  <2> HIDE DEF I
  <2> QED
    BY <2>1, <2>2
<1> HIDE DEF v
<1>4. ASSUME NEW x \in I PROVE Pass[x] \in I /\ (Pass[x] = x \/ v[Pass[x]] < v[x])
  <2>1. PICK k \in 0..W - 1 : Starts(x, a, b, k)
    OBVIOUS
  <2>2. CASE Over(Batch(x))
    BY <2>2 DEF Pass
  <2>3. CASE ~Over(Batch(x))
    <3>1. k >= 4 /\ Starts(Lower(Batch(x)), a, b, k - 4)
      BY <1>1, <2>1, <2>3, NextPass
    <3>2. Pass[x] = Lower(Batch(x)) /\ Pass[x] \in Registers
      BY <2>3, <3>1 DEF Pass, Starts
    <3>3. k - 4 \in 0..W - 1 /\ k - 4 < k
      BY <1>1, <3>1
    <3>4. Pass[x] \in I /\ Starts(Pass[x], a, b, k - 4)
      BY <3>1, <3>2, <3>3
    <3>5. v[Pass[x]] = k - 4 /\ v[x] = k
      BY <1>2, <2>1, <3>3, <3>4
    <3> QED
      BY <3>3, <3>4, <3>5
  <2> QED
    BY <2>2, <2>3
<1>5. x0 \in I /\ v[x0] <= W
  <2>1. x0 \in I
    BY DEF Starts
  <2> QED
    BY <1>1, <1>2, <2>1
<1>6. z = Rounds(Pass, x0, W)
  BY DEF LastPass, Pass, Lower
<1> HIDE DEF I, z
<1>7. z \in I /\ Pass[z] = z
  BY <1>1, <1>3, <1>4, <1>5, <1>6, LoopEnds
<1>8. PICK k \in 0..W - 1 : Starts(z, a, b, k)
  BY <1>7 DEF I
<1>9. Over(Batch(z))
  <2> SUFFICES ASSUME ~Over(Batch(z)) PROVE FALSE
    OBVIOUS
  <2>1. z \in Registers
    BY <1>8 DEF Starts
  <2>2. k \in Nat /\ k >= 4 /\ Starts(Lower(Batch(z)), a, b, k - 4)
    BY <1>1, <1>8, NextPass
  <2>3. Pass[z] = Lower(Batch(z))
    BY <2>1 DEF Pass
  <2>4. 2^k = 2^(k - 4)
    BY <1>7, <1>8, <2>2, <2>3 DEF Starts
  <2>5. 2 * 2^(k - 4) <= 2^k /\ 2^k \in Nat \ {0}
    BY <2>2, k - 4 \in Nat, k - 4 < k, Powers, PowersOrder
  <2> QED
    BY <2>4, <2>5
<1> QED
  BY <1>8, <1>9 DEF z

\* The division is then exact, whatever the batch began with.
LEMMA LastBatch ==
  ASSUME NEW a \in Nat, NEW b \in Nat \ {0}, NEW k \in 0..W - 1, NEW x, Starts(x, a, b, k),
         Over(Batch(x))
  PROVE  /\ Batch(x).result = a \div b
         /\ k >= 4 => Batch(x).dividend = 0 /\ a % b = 0
<1> DEFINE y == Batch(x)
<1>1. W \in Nat /\ W >= 4 /\ k \in Nat /\ Done(x, 4) = y
  BY Limits DEF Done
<1>2. Same(x, y)
  <2>1. Same(x, Done(x, 4))
    BY <1>1, BatchAll
  <2> QED
    BY <1>1, <2>1
<1>3. CASE k <= 3
  <2>1. /\ a \div b = Done(x, k + 1).result
        /\ \A n \in 0..4 : n > k => Done(x, n).result = Done(x, k + 1).result
    BY <1>1, <1>3, BatchAll
  <2> HIDE DEF y
  <2> QED
    BY <1>1, <1>3, <2>1, 4 \in 0..4, 4 > k DEF y
<1>4. CASE k >= 4
  <2>1. 4 \in 0..4 /\ 4 <= k + 1
    BY <1>4
  <2>2. Exact(Done(x, 4), a, b, 2^(k + 1 - 4))
    BY <1>1, <2>1, BatchReal
  <2> HIDE DEF y
  <2>3. Exact(y, a, b, 2^(k + 1 - 4))
    BY <1>1, <2>2
  <2>4. Lsr(y.curbit, 4) # 0
    <3>1. W > 4 /\ k - 4 \in Nat /\ k = (k - 4) + 4 /\ 4 \in Nat
      BY <1>1, <1>4
    <3>2. 2^((k - 4) + 4) = 2^(k - 4) * 2^4
      BY <3>1, PowersAdd, Zenon
    <3>3. 2^(k - 4) \in Nat \ {0}
      BY <3>1, Powers
    <3>4. Lsr(2^(k - 4) * 2^4, 4) = 2^(k - 4)
      BY <3>1, <3>3, LsrMultiple
    <3>5. y.curbit = 2^k
      BY <1>2 DEF Same, Starts
    <3> QED
      BY <3>1, <3>2, <3>3, <3>4, <3>5
  <2>5. y.dividend = 0 /\ y.result \in Nat
    BY <1>2, <2>4 DEF Over, y, Same, Registers
  <2>6. a = b * y.result + 0 /\ 0 < b
    BY <2>3, <2>5 DEF Exact
  <2>7. \A q, r \in Nat : a = b * q + r /\ r < b => a \div b = q /\ a % b = r
    BY DivUnique
  <2>8. a \div b = y.result /\ a % b = 0
    BY <2>5, <2>6, <2>7, 0 \in Nat, Zenon
  <2> QED
    BY <2>5, <2>8 DEF y
<1> QED
  BY <1>1, <1>3, <1>4

\* The loop finds the whole quotient (_udivsi3.s).
LEMMA DivLoopIs ==
  ASSUME NEW a \in Nat, NEW b \in Nat \ {0}, NEW k \in 0..W - 1, NEW x, Starts(x, a, b, k)
  PROVE  DivLoop(x).result = a \div b
<1>1. PICK m \in 0..W - 1 : Starts(LastPass(x), a, b, m) /\ Over(Batch(LastPass(x)))
  BY LastPassIs
<1>2. Batch(LastPass(x)).result = a \div b
  BY <1>1, LastBatch
<1> QED
  BY <1>2 DEF DivLoop
----------------------------------------------------------------------------
(***************************************************************************)
(* What the last batch subtracts too much is put back.                     *)
(***************************************************************************)
LEMMA OverdoneIs ==
  ASSUME NEW a \in Nat, NEW b \in Nat \ {0}, NEW k \in 0..W - 1, NEW x, Starts(x, a, b, k),
         NEW n \in 1..3
  PROVE  n \in Overdone(x) <=> /\ Done(x, n).dividend >= Lsr(x.divisor, n)
                               /\ n > k \/ k - n >= W - 3
<1>1. W \in Nat /\ W >= 4
  BY Limits
<1> DEFINE place == CHOOSE m \in 0..W - 1 : 2^m = x.curbit
<1>2. place = k
  <2>1. \A m \in 0..W - 1 : 2^m = 2^k => m = k
    <3> SUFFICES ASSUME NEW m \in 0..W - 1, 2^m = 2^k PROVE m = k
      OBVIOUS
    <3>1. m \in Nat /\ k \in Nat
      BY <1>1
    <3>2. 2^m \in Nat \ {0} /\ (m < k => 2 * 2^m <= 2^k) /\ (k < m => 2 * 2^k <= 2^m)
      BY <3>1, Powers, PowersOrder
    <3> QED
      BY <3>1, <3>2
  <2>2. x.curbit = 2^k
    BY DEF Starts
  <2> QED
    BY <2>1, <2>2
<1>3. Ror(k, n) >= W - 3 <=> n > k \/ k - n >= W - 3
  <2>1. CASE n > k
    <3>1. k - n = W * (-1) + (W + k - n) /\ W + k - n \in Nat /\ W + k - n < W /\ k - n \in Int
      BY <1>1, <2>1
    <3>2. \A d \in Int, r \in Nat : d = W * (-1) + r /\ r < W => d % W = r
      BY <1>1, DivUnique, W \in Nat \ {0}, -1 \in Int
    <3>3. (k - n) % W = W + k - n
      BY <3>1, <3>2
    <3> QED
      BY <1>1, <2>1, <3>3 DEF Ror
  <2>2. CASE n <= k
    <3>1. (k - n) % W = k - n
      BY <1>1, <2>2, DivUnique, k - n = W * 0 + (k - n)
    <3> QED
      BY <1>1, <2>2, <3>1 DEF Ror
  <2> QED
    BY <1>1, <2>1, <2>2
<1> DEFINE t(m) == IF m = 0 THEN Subtract(x, 0) ELSE
                   IF m = 1 THEN Subtract(Subtract(x, 0), 1)
                   ELSE Subtract(Subtract(Subtract(x, 0), 1), 2)
<1>4. Overdone(x) = {m \in 1..3 : t(m - 1).dividend >= Lsr(x.divisor, m) /\ Ror(place, m) >= W - 3}
  BY DEF Overdone
<1>5. t(n - 1) = Done(x, n)
  BY DEF Done
<1> HIDE DEF place, t
<1> QED
  BY <1>2, <1>3, <1>4, <1>5

\* No trial subtraction lowers the result.
LEMMA ResultGrows ==
  ASSUME NEW a \in Nat, NEW b \in Nat \ {0}, NEW k \in 0..W - 1, NEW x, Starts(x, a, b, k)
  PROVE  \A n \in 0..3 : /\ Done(x, n).result \in Nat /\ Done(x, n + 1).result \in Nat
                         /\ Done(x, n + 1).result >= Done(x, n).result
<1> SUFFICES ASSUME NEW n \in 0..3
             PROVE  /\ Done(x, n).result \in Nat /\ Done(x, n + 1).result \in Nat
                    /\ Done(x, n + 1).result >= Done(x, n).result
  OBVIOUS
<1>1. k \in Nat
  BY Limits
<1>2. Same(x, Done(x, n)) /\ Same(x, Done(x, n + 1))
  BY <1>1, BatchAll, n \in 0..4, n + 1 \in 0..4
<1>3. Done(x, n).result \in Nat /\ Done(x, n + 1).result \in Nat
  BY <1>2 DEF Same, Registers
<1>4. CASE n <= k
  <2>1. k - n \in Nat /\ k + 1 - n = (k - n) + 1 /\ n \in 0..4 /\ n <= k + 1
    BY <1>1, <1>4
  <2>2. Exact(Done(x, n), a, b, 2^(k + 1 - n))
    BY <1>1, <2>1, BatchReal
  <2>3. Exact(Done(x, n), a, b, 2 * 2^(k - n))
    BY <2>1, <2>2, Powers
  <2> QED
    BY <1>1, <1>2, <1>3, <1>4, <2>3, StepReal
<1>5. CASE n > k
  BY <1>1, <1>2, <1>3, <1>5, StepJunk
<1> QED
  BY <1>1, <1>3, <1>4, <1>5

\* A subtraction with a bit that is high enough shows in the quotient.
LEMMA HighBit ==
  ASSUME NEW a \in Nat, NEW b \in Nat \ {0}, NEW k \in 0..W - 1, NEW x, Starts(x, a, b, k),
         Over(Batch(x)), a \div b < 2^(W - 3), NEW n \in 1..3, n <= k, n \in Overdone(x)
  PROVE  FALSE
<1>1. k \in Nat /\ W \in Nat /\ W >= 4 /\ n \in Nat
  BY Limits
<1>2. Done(x, n).dividend >= Lsr(x.divisor, n) /\ k - n >= W - 3
  BY <1>1, OverdoneIs
<1>3. k - n \in Nat /\ k + 1 - n = (k - n) + 1 /\ n \in 0..4 /\ n \in 0..3 /\ n <= k + 1 /\ W - 3 \in Nat
  BY <1>1
<1>4. Done(x, n + 1).result >= 2^(k - n)
  <2>1. Same(x, Done(x, n)) /\ Exact(Done(x, n), a, b, 2^(k + 1 - n))
    BY <1>1, <1>3, BatchReal
  <2>2. Exact(Done(x, n), a, b, 2 * 2^(k - n))
    BY <1>3, <2>1, Powers
  <2> QED
    BY <1>1, <1>2, <1>3, <2>1, <2>2, StepReal
<1>5. Done(x, 4).result >= Done(x, n + 1).result
  <2>1. /\ Done(x, 1 + 1).result \in Nat /\ Done(x, 2 + 1).result \in Nat /\ Done(x, 3 + 1).result \in Nat
        /\ Done(x, 2 + 1).result >= Done(x, 1 + 1).result
        /\ Done(x, 3 + 1).result >= Done(x, 2 + 1).result
    <3>1. 1 \in 0..3 /\ 2 \in 0..3 /\ 3 \in 0..3 /\ 1 + 1 = 2 /\ 2 + 1 = 3
      OBVIOUS
    <3> QED
      BY <3>1, ResultGrows
  <2>2. /\ Done(x, 2).result \in Nat /\ Done(x, 3).result \in Nat /\ Done(x, 4).result \in Nat
        /\ Done(x, 3).result >= Done(x, 2).result /\ Done(x, 4).result >= Done(x, 3).result
    BY <2>1
  <2>3. n + 1 = 2 \/ n + 1 = 3 \/ n + 1 = 4
    OBVIOUS
  <2> QED
    BY <2>2, <2>3
<1>6. Done(x, 4).result = a \div b
  BY LastBatch DEF Done
<1>7. 2^(k - n) >= 2^(W - 3)
  <2>1. W - 3 = k - n \/ W - 3 < k - n
    BY <1>1, <1>2
  <2>2. 2^(W - 3) \in Nat /\ (W - 3 < k - n => 2 * 2^(W - 3) <= 2^(k - n)) /\ 2^(k - n) \in Nat
    BY <1>3, Powers, PowersOrder
  <2> QED
    BY <2>1, <2>2
<1>8. 2^(k - n) \in Nat /\ 2^(W - 3) \in Nat /\ a \div b \in Nat /\ Done(x, n + 1).result \in Nat
  BY <1>3, Powers, DivExists, ResultGrows
<1> QED
  BY <1>4, <1>5, <1>6, <1>7, <1>8

\* The loop and what is put back leave the remainder, if the quotient is not so large
\* that the bits of overdone are also bits of curbit (_umodsi3.s).
LEMMA ModLoopIs ==
  ASSUME NEW a \in Nat, NEW b \in Nat \ {0}, NEW k0 \in 0..W - 1, NEW x0, Starts(x0, a, b, k0),
         a \div b < 2^(W - 3)
  PROVE  ModLoop(x0) = a % b
<1> DEFINE x == LastPass(x0)
<1>1. PICK k \in 0..W - 1 : Starts(x, a, b, k) /\ Over(Batch(x))
  BY LastPassIs
<1>2. ModLoop(x0) = Batch(x).dividend + PutBack(x, 1) + PutBack(x, 2) + PutBack(x, 3)
  BY DEF ModLoop
<1> HIDE DEF x
<1>3. k \in Nat /\ W \in Nat /\ W >= 4
  BY Limits
<1>4. ASSUME NEW n \in 1..3, n <= k PROVE PutBack(x, n) = 0
  <2>1. n \notin Overdone(x)
    BY <1>1, <1>4, HighBit
  <2> QED
    BY <2>1 DEF PutBack
<1>5. ASSUME NEW n \in 1..3, n > k
      PROVE  /\ Done(x, n + 1).dividend + PutBack(x, n) = Done(x, n).dividend
             /\ Done(x, n).dividend \in Nat /\ Done(x, n + 1).dividend \in Nat /\ PutBack(x, n) \in Nat
  <2>1. n \in 0..3 /\ n \in 0..4 /\ n + 1 \in 0..4
    OBVIOUS
  <2>2. Same(x, Done(x, n)) /\ Same(x, Done(x, n + 1))
    BY <1>1, <1>3, <2>1, BatchAll
  <2>3. Done(x, n).dividend \in Nat /\ Done(x, n + 1).dividend \in Nat
    BY <2>2 DEF Same, Registers
  <2>4. Done(x, n + 1).dividend = IF Done(x, n).dividend >= Lsr(x.divisor, n)
                                  THEN Done(x, n).dividend - Lsr(x.divisor, n)
                                  ELSE Done(x, n).dividend
    BY <1>1, <1>3, <1>5, <2>1, <2>2, StepJunk
  <2>5. n \in Overdone(x) <=> Done(x, n).dividend >= Lsr(x.divisor, n)
    BY <1>1, <1>5, OverdoneIs
  <2>6. Lsr(x.divisor, n) \in Nat
    <3>1. x.divisor \in Nat /\ 2^n \in Nat \ {0}
      BY <1>1, Powers DEF Starts, Registers
    <3>2. n < W
      BY <1>3
    <3> QED
      BY <1>3, <3>1, <3>2, DivExists DEF Lsr
  <2> QED
    BY <2>3, <2>4, <2>5, <2>6 DEF PutBack
<1>6. Batch(x) = Done(x, 4)
  BY DEF Done
<1>7. CASE k >= 4
  <2>1. Batch(x).dividend = 0 /\ a % b = 0
    BY <1>1, <1>7, LastBatch
  <2>2. PutBack(x, 1) = 0 /\ PutBack(x, 2) = 0 /\ PutBack(x, 3) = 0
    BY <1>4, <1>7
  <2> QED
    BY <1>2, <2>1, <2>2
<1>8. CASE k <= 3
  <2>1. a % b = Done(x, k + 1).dividend
    BY <1>1, <1>3, <1>8, BatchAll
  <2>2. a % b \in Nat
    BY DivExists
  <2>3. ModLoop(x0) = Done(x, 4).dividend + PutBack(x, 1) + PutBack(x, 2) + PutBack(x, 3)
    BY <1>2, <1>6
  <2>4. CASE k = 0
    <3>1. Done(x, 1 + 1).dividend + PutBack(x, 1) = Done(x, 1).dividend /\ PutBack(x, 1) \in Nat
      BY <1>5, <2>4
    <3>2. Done(x, 2 + 1).dividend + PutBack(x, 2) = Done(x, 2).dividend /\ PutBack(x, 2) \in Nat
      BY <1>5, <2>4
    <3>3. Done(x, 3 + 1).dividend + PutBack(x, 3) = Done(x, 3).dividend /\ PutBack(x, 3) \in Nat
          /\ Done(x, 3 + 1).dividend \in Nat
      BY <1>5, <2>4
    <3> QED
      BY <2>1, <2>2, <2>3, <2>4, <3>1, <3>2, <3>3
  <2>5. CASE k = 1
    <3>1. PutBack(x, 1) = 0
      BY <1>4, <2>5
    <3>2. Done(x, 2 + 1).dividend + PutBack(x, 2) = Done(x, 2).dividend /\ PutBack(x, 2) \in Nat
      BY <1>5, <2>5
    <3>3. Done(x, 3 + 1).dividend + PutBack(x, 3) = Done(x, 3).dividend /\ PutBack(x, 3) \in Nat
          /\ Done(x, 3 + 1).dividend \in Nat
      BY <1>5, <2>5
    <3> QED
      BY <2>1, <2>2, <2>3, <2>5, <3>1, <3>2, <3>3
  <2>6. CASE k = 2
    <3>1. PutBack(x, 1) = 0 /\ PutBack(x, 2) = 0
      BY <1>4, <2>6
    <3>2. Done(x, 3 + 1).dividend + PutBack(x, 3) = Done(x, 3).dividend /\ PutBack(x, 3) \in Nat
          /\ Done(x, 3 + 1).dividend \in Nat
      BY <1>5, <2>6
    <3> QED
      BY <2>1, <2>2, <2>3, <2>6, <3>1, <3>2
  <2>7. CASE k = 3
    <3>1. PutBack(x, 1) = 0 /\ PutBack(x, 2) = 0 /\ PutBack(x, 3) = 0
      BY <1>4, <2>7
    <3> QED
      BY <2>1, <2>2, <2>3, <2>7, <3>1
  <2> QED
    BY <1>3, <1>8, <2>4, <2>5, <2>6, <2>7
<1> QED
  BY <1>3, <1>7, <1>8
----------------------------------------------------------------------------
(***************************************************************************)
(* The divisor is shifted up to the dividend.                              *)
(***************************************************************************)
\* The divisor has been shifted by m from where the curbit is 2^k0.
Up(x, a, b, k0, m) ==
  /\ x \in Registers /\ x.dividend = a /\ x.result = 0 /\ x.order = m
  /\ x.curbit = 2^(m + k0) /\ x.divisor = b * 2^(m + k0) /\ b * 2^(m + k0) < Base

\* The divisor has not been shifted out of its word, nor has curbit.
LEMMA UpBound ==
  ASSUME NEW a \in Nat, NEW b \in Nat \ {0}, NEW k0 \in Nat, NEW x, NEW m \in Nat, Up(x, a, b, k0, m)
  PROVE  m + k0 \in 0..W - 1 /\ 2^(m + k0) \in Nat \ {0} /\ 2^(m + k0) <= b * 2^(m + k0)
<1>1. m + k0 \in Nat /\ W \in Nat /\ 2^(m + k0) \in Nat \ {0} /\ 2^W \in Nat
  BY Powers, Limits
<1>2. 2^(m + k0) <= b * 2^(m + k0)
  <2>1. \A p, q \in Nat : q # 0 => p <= q * p
    OBVIOUS
  <2> QED
    BY <1>1, <2>1
<1>3. 2^(m + k0) < 2^W
  <2>1. b * 2^(m + k0) < 2^W /\ b * 2^(m + k0) \in Nat
    BY <1>1 DEF Up, Base
  <2> QED
    BY <1>1, <1>2, <2>1
<1>4. m + k0 < W
  <2>1. CASE W < m + k0
    <3>1. 2 * 2^W <= 2^(m + k0)
      BY <1>1, <2>1, PowersOrder
    <3> QED
      BY <1>1, <1>3, <3>1
  <2>2. CASE W = m + k0
    BY <1>1, <1>3, <2>2
  <2> QED
    BY <1>1, <2>1, <2>2
<1> QED
  BY <1>1, <1>2, <1>4

\* What ShiftedBy changes, and what it leaves.
LEMMA ShiftedByIs ==
  ASSUME NEW x \in Registers, NEW n \in Nat, NEW d \in Nat, NEW c \in Nat,
         Lsl(x.divisor, n) = d, Lsl(x.curbit, n) = c
  PROVE  /\ ShiftedBy(x, n) \in Registers
         /\ ShiftedBy(x, n).dividend = x.dividend /\ ShiftedBy(x, n).result = x.result
         /\ ShiftedBy(x, n).order = x.order + n
         /\ ShiftedBy(x, n).divisor = d /\ ShiftedBy(x, n).curbit = c
<1>1. ShiftedBy(x, n) = [x EXCEPT !.divisor = d, !.curbit = c, !.order = @ + n]
  BY DEF ShiftedBy
<1>2. x.order + n \in Int
  BY DEF Registers
<1> QED
  BY <1>1, <1>2 DEF Registers

\* Below a limit that leaves the room, the divisor can be shifted by n more.
LEMMA UpMore ==
  ASSUME NEW a \in Nat, NEW b \in Nat \ {0}, NEW k0 \in Nat, NEW x, NEW m \in Nat, Up(x, a, b, k0, m),
         NEW limit \in Nat, NEW n \in Nat, limit * 2^n <= Base, x.divisor < limit
  PROVE  Up(ShiftedBy(x, n), a, b, k0, m + n)
<1> DEFINE c == 2^(m + k0)
           p == 2^n
<1>1. c \in Nat \ {0} /\ c <= b * c /\ p \in Nat \ {0} /\ b * c \in Nat
  BY UpBound, Powers
<1>2. 2^((m + n) + k0) = c * p
  BY PowersAdd, (m + n) + k0 = (m + k0) + n, m + k0 \in Nat
<1>3. x \in Registers /\ x.divisor = b * c /\ x.curbit = c /\ x.dividend = a /\ x.result = 0 /\ x.order = m
  BY DEF Up
<1>4. Base \in Nat /\ Base = 2^W /\ W \in Nat
  BY Limits DEF Base
<1>5. limit * p <= Base
  OBVIOUS
<1> HIDE DEF c, p
<1>6. (b * c) * p < Base /\ c * p < Base /\ c * p \in Nat /\ (b * c) * p \in Nat /\ p <= c * p
      /\ (b * c) * p = b * (c * p)
  <2>1. \A u, w, q \in Nat : u < w /\ q # 0 => u * q < w * q
    OBVIOUS
  <2>2. \A u, w, q \in Nat : u <= w => u * q <= w * q
    OBVIOUS
  <2>3. \A u, w, q \in Nat : u * q \in Nat /\ (w * u) * q = w * (u * q)
    OBVIOUS
  <2>4. (b * c) * p < limit * p
    BY <1>1, <1>3, <2>1
  <2>5. c * p <= (b * c) * p /\ 1 * p <= c * p
    BY <1>1, <2>2
  <2>6. limit * p \in Nat /\ (b * c) * p \in Nat /\ c * p \in Nat /\ (b * c) * p = b * (c * p)
    BY <1>1, <2>3
  <2> QED
    BY <1>1, <1>4, <1>5, <2>4, <2>5, <2>6
<1>7. n < W
  <2>1. 2^n < 2^W
    BY <1>1, <1>4, <1>6 DEF p
  <2>2. 2^n \in Nat /\ 2^W \in Nat /\ (W < n => 2 * 2^W <= 2^n)
    BY <1>4, Powers, PowersOrder
  <2> QED
    BY <1>4, <2>1, <2>2
<1>8. Lsl(x.divisor, n) = (b * c) * p /\ Lsl(x.curbit, n) = c * p
  BY <1>1, <1>3, <1>6, <1>7, LslIs DEF p
<1>9. /\ ShiftedBy(x, n) \in Registers
      /\ ShiftedBy(x, n).dividend = a /\ ShiftedBy(x, n).result = 0 /\ ShiftedBy(x, n).order = m + n
      /\ ShiftedBy(x, n).divisor = (b * c) * p /\ ShiftedBy(x, n).curbit = c * p
  BY <1>3, <1>6, <1>8, ShiftedByIs
<1> QED
  BY <1>2, <1>6, <1>9 DEF Up

\* A loop that shifts up ends at its limit or at the dividend.
LEMMA ShiftUpIs ==
  ASSUME NEW a \in Nat, NEW b \in Nat \ {0}, NEW k0 \in Nat, NEW x0, NEW m0 \in Nat, Up(x0, a, b, k0, m0),
         NEW limit \in Nat, NEW n \in Nat \ {0}, limit * 2^n <= Base
  PROVE  \E m \in Nat : /\ Up(ShiftUp(x0, limit, n), a, b, k0, m)
                        /\ b * 2^(m + k0) >= limit \/ b * 2^(m + k0) >= a
<1> DEFINE round == [x \in Registers |-> IF x.divisor < limit /\ x.divisor < x.dividend
                                         THEN ShiftedBy(x, n) ELSE x]
           I == {x \in Registers : \E m \in Nat : Up(x, a, b, k0, m)}
           v == [x \in I |-> W - x.order]
           z == ShiftUp(x0, limit, n)
<1>1. W \in Nat
  BY Limits
<1>2. ASSUME NEW x \in I PROVE v[x] \in Nat /\ v[x] <= W /\ x.order \in Nat
  <2>1. PICK m \in Nat : Up(x, a, b, k0, m)
    OBVIOUS
  <2>2. m \in 0..W - 1 /\ x.order = m
    <3>1. m + k0 \in 0..W - 1
      BY <2>1, UpBound
    <3> QED
      BY <1>1, <2>1, <3>1 DEF Up
  <2> QED
    BY <1>1, <2>2
<1>3. v \in [I -> Nat]
  BY <1>2
<1>4. ASSUME NEW x \in I, x.divisor < limit /\ x.divisor < x.dividend
      PROVE  /\ round[x] \in I /\ v[round[x]] < v[x] /\ round[x] # x
  <2>1. PICK m \in Nat : Up(x, a, b, k0, m)
    OBVIOUS
  <2>2. Up(ShiftedBy(x, n), a, b, k0, m + n)
    BY <1>4, <2>1, UpMore
  <2>3. round[x] = ShiftedBy(x, n) /\ m + n \in Nat
    BY <1>4
  <2>4. round[x] \in I
    BY <2>2, <2>3 DEF Up
  <2>5. round[x].order = m + n /\ x.order = m
    BY <2>1, <2>2, <2>3 DEF Up
  <2>6. v[round[x]] = W - (m + n) /\ v[x] = W - m
    BY <2>4, <2>5
  <2> QED
    BY <1>1, <2>4, <2>5, <2>6
<1>5. ASSUME NEW x \in I, ~(x.divisor < limit /\ x.divisor < x.dividend) PROVE round[x] = x
  BY <1>5
<1>6. x0 \in I
  BY DEF Up
<1>7. z = Rounds(round, x0, W)
  BY DEF ShiftUp
<1> HIDE DEF v, z, round
<1>8. ASSUME NEW x \in I PROVE round[x] \in I /\ (round[x] = x \/ v[round[x]] < v[x])
  BY <1>4, <1>5
<1>9. v[x0] <= W
  BY <1>2, <1>6
<1> HIDE DEF I
<1>10. z \in I /\ round[z] = z
  BY <1>1, <1>3, <1>6, <1>7, <1>8, <1>9, LoopEnds
<1>11. PICK m \in Nat : Up(z, a, b, k0, m)
  BY <1>10 DEF I
<1>12. ~(z.divisor < limit /\ z.divisor < z.dividend)
  BY <1>4, <1>10
<1>13. z.divisor = b * 2^(m + k0) /\ z.dividend = a /\ b * 2^(m + k0) \in Nat
  BY <1>11, UpBound DEF Up
<1> QED
  BY <1>11, <1>12, <1>13 DEF z

\* The divisor then is more than half of the dividend: the division can begin.
LEMMA AlignIs ==
  ASSUME NEW a \in Nat, a < Base, NEW b \in Nat \ {0}, NEW k0 \in Nat, NEW x0, Up(x0, a, b, k0, 0)
  PROVE  \E k \in 0..W - 1 : Starts(Align(x0), a, b, k)
<1> DEFINE y == ShiftUp(x0, 2^(W - 4), 4)
           z == ShiftUp(y, Half, 1)
<1>1. PICK m \in Nat : Up(y, a, b, k0, m)
  <2>1. 2^(W - 4) \in Nat /\ 2^(W - 4) * 2^4 <= Base
    BY Limits, Powers
  <2>2. 0 \in Nat /\ 4 \in Nat \ {0}
    OBVIOUS
  <2> QED
    BY <2>1, <2>2, ShiftUpIs
<1> HIDE DEF y
<1>2. PICK l \in Nat : Up(z, a, b, k0, l) /\ (b * 2^(l + k0) >= Half \/ b * 2^(l + k0) >= a)
  <2>1. Half \in Nat /\ Half * 2^1 <= Base
    BY Limits, Powers
  <2>2. 1 \in Nat \ {0}
    OBVIOUS
  <2> QED
    BY <1>1, <2>1, <2>2, ShiftUpIs
<1>3. z = Align(x0)
  BY DEF Align, y
<1> HIDE DEF z
<1> DEFINE c == 2^(l + k0)
<1>4. l + k0 \in 0..W - 1 /\ c \in Nat \ {0} /\ b * c \in Nat
  BY <1>2, UpBound
<1>5. z \in Registers /\ z.dividend = a /\ z.result = 0 /\ z.curbit = c /\ z.divisor = b * c
  BY <1>2 DEF Up
<1>6. b * c >= Half \/ b * c >= a
  BY <1>2
<1> HIDE DEF c
<1>7. Exact(z, a, b, 2 * c)
  <2>1. b * (2 * c) = 2 * (b * c) /\ b * 0 = 0
    BY <1>4
  <2>2. a < 2 * (b * c) \/ a = 0
    BY <1>4, <1>6, Limits
  <2>3. b * c >= 1
    <3>1. \A p, q \in Nat \ {0} : p * q >= 1
      OBVIOUS
    <3> QED
      BY <1>4, <3>1
  <2>4. a < 2 * (b * c)
    BY <1>4, <2>2, <2>3
  <2>5. z.result = (2 * c) * 0
    BY <1>4, <1>5
  <2>6. z.dividend + b * z.result = a /\ z.dividend < b * (2 * c)
    BY <1>5, <2>1, <2>4
  <2> QED
    BY <2>5, <2>6, 0 \in Nat DEF Exact
<1> QED
  BY <1>3, <1>4, <1>5, <1>7 DEF Starts, c

\* At first nothing has been shifted.
LEMMA RegsIs ==
  ASSUME NEW a \in Nat, NEW b \in Nat \ {0}, b < Base
  PROVE  Up(Regs(a, b), a, b, 0, 0)
<1>1. 2^(0 + 0) = 1 /\ b * 1 = b
  BY Powers
<1> QED
  BY <1>1 DEF Up, Regs, Registers

\* __udivsi3 divides.
LEMMA UDivIs ==
  ASSUME NEW a \in Word, NEW b \in Word \ {0}
  PROVE  UDiv(a, b) = a \div b
<1>1. a \in Nat /\ a < Base /\ b \in Nat \ {0} /\ b < Base
  BY Limits DEF Word
<1>2. CASE a < b
  <2>1. a \div b = 0
    BY <1>1, <1>2, DivUnique, a = b * 0 + a
  <2> QED
    BY <1>2, <2>1 DEF UDiv
<1>3. CASE ~(a < b)
  <2>1. PICK k \in 0..W - 1 : Starts(Align(Regs(a, b)), a, b, k)
    BY <1>1, 0 \in Nat, RegsIs, AlignIs
  <2>2. DivLoop(Align(Regs(a, b))).result = a \div b
    BY <1>1, <2>1, DivLoopIs
  <2> QED
    BY <1>3, <2>2 DEF UDiv
<1> QED
  BY <1>2, <1>3

\* __umodsi3 leaves the remainder, of a quotient that keeps the three top bits free.
LEMMA UModIs ==
  ASSUME NEW a \in Word, NEW b \in Word \ {0}, a \div b < 2^(W - 3)
  PROVE  UMod(a, b) = a % b
<1>1. a \in Nat /\ a < Base /\ b \in Nat \ {0} /\ b < Base
  BY Limits DEF Word
<1>2. CASE a < b
  <2>1. a % b = a
    BY <1>1, <1>2, DivUnique, a = b * 0 + a
  <2> QED
    BY <1>2, <2>1 DEF UMod
<1>3. CASE ~(a < b)
  <2>1. PICK k \in 0..W - 1 : Starts(Align(Regs(a, b)), a, b, k)
    BY <1>1, 0 \in Nat, RegsIs, AlignIs
  <2>2. ModLoop(Align(Regs(a, b))) = a % b
    BY <1>1, <2>1, ModLoopIs
  <2> QED
    BY <1>3, <2>2 DEF UMod
<1> QED
  BY <1>2, <1>3

\* __aeabi_uidivmod leaves the remainder.
LEMMA UDivModIs ==
  ASSUME NEW a \in Word, NEW b \in Word \ {0}
  PROVE  UDivMod(a, b).rem = a % b
<1>1. a \in Nat /\ a < Base /\ b \in Nat \ {0} /\ b < Base /\ Base \in Nat \ {0}
  BY Limits DEF Word
<1>2. UDiv(a, b) = a \div b
  BY UDivIs
<1> DEFINE q == a \div b
           r == a % b
<1>3. q \in Nat /\ r \in Nat /\ a = b * q + r /\ r < b
  BY <1>1, DivExists
<1>4. UDivMod(a, b).rem = (a - q * b) % Base
  BY <1>2 DEF UDivMod, Unsigned
<1> HIDE DEF q, r
<1>5. q * b = b * q /\ b * q \in Nat
  BY <1>1, <1>3
<1>6. a - q * b = r /\ r < Base
  BY <1>1, <1>3, <1>5
<1>7. r % Base = r
  BY <1>1, <1>3, <1>6, DivUnique, r = Base * 0 + r
<1> QED
  BY <1>4, <1>6, <1>7 DEF r
----------------------------------------------------------------------------
(***************************************************************************)
(* Signed division.                                                        *)
(***************************************************************************)
\* A word that is not zero has a top bit.
LEMMA TopBit ==
  ASSUME NEW x \in Nat \ {0}, x < Base
  PROVE  \E k \in 0..W - 1 : 2^k <= x /\ x < 2^(k + 1)
<1> DEFINE S == {n \in Nat : x < 2^n => \E k \in 0..n - 1 : 2^k <= x /\ x < 2^(k + 1)}
<1>1. 0 \in S
  BY Powers
<1>2. ASSUME NEW n \in Nat, n \in S PROVE n + 1 \in S
  <2> SUFFICES ASSUME x < 2^(n + 1) PROVE \E k \in 0..n : 2^k <= x /\ x < 2^(k + 1)
    BY (n + 1) - 1 = n, n + 1 \in Nat
  <2>1. CASE x < 2^n
    <3>1. PICK k \in 0..n - 1 : 2^k <= x /\ x < 2^(k + 1)
      BY <1>2, <2>1
    <3> QED
      BY <3>1, k \in 0..n
  <2>2. CASE ~(x < 2^n)
    <3>1. 2^n <= x /\ n \in 0..n
      BY <2>2, Powers
    <3> QED
      BY <3>1
  <2> QED
    BY <2>1, <2>2
<1> HIDE DEF S
<1>3. \A n \in Nat : n \in S
  BY <1>1, <1>2, AllNats
<1>4. W \in S
  BY <1>3, Limits
<1> QED
  BY <1>4 DEF S, Base

\* Clz counts the zeros above the top bit.
LEMMA ClzIs ==
  ASSUME NEW x \in Nat, NEW k \in 0..W - 1, 2^k <= x, x < 2^(k + 1)
  PROVE  Clz(x) = W - 1 - k
<1>1. W \in Nat /\ W >= 4 /\ k \in Nat /\ k + 1 \in Nat
  BY Limits
<1>2. ASSUME NEW n \in 0..W - 1 PROVE Lsr(x, n) = 0 <=> n > k
  <2>1. n \in Nat /\ n < W /\ 2^n \in Nat \ {0} /\ 2^k \in Nat
    BY <1>1, Powers
  <2>2. Lsr(x, n) = x \div 2^n
    BY <1>1, <2>1 DEF Lsr
  <2>3. CASE n > k
    <3>1. 2^(k + 1) <= 2^n
      <4>1. k + 1 = n \/ k + 1 < n
        BY <1>1, <2>1, <2>3
      <4>2. 2^(k + 1) \in Nat /\ (k + 1 < n => 2 * 2^(k + 1) <= 2^n)
        BY <1>1, <2>1, Powers, PowersOrder
      <4> QED
        BY <2>1, <4>1, <4>2
    <3>2. x < 2^n
      BY <1>1, <2>1, <3>1, Powers
    <3>3. x \div 2^n = 0
      BY <2>1, <3>2, DivUnique, x = 2^n * 0 + x
    <3> QED
      BY <2>2, <2>3, <3>3
  <2>4. CASE ~(n > k)
    <3>1. 2^n <= 2^k
      <4>1. n = k \/ n < k
        BY <1>1, <2>1, <2>4
      <4>2. n < k => 2 * 2^n <= 2^k
        BY <1>1, <2>1, PowersOrder
      <4> QED
        BY <2>1, <4>1, <4>2
    <3>2. x >= 2^n
      BY <2>1, <3>1
    <3>3. x \div 2^n # 0
      <4> SUFFICES ASSUME x \div 2^n = 0 PROVE FALSE
        OBVIOUS
      <4>1. x = 2^n * (x \div 2^n) + (x % 2^n) /\ x % 2^n < 2^n /\ x % 2^n \in Nat
        BY <2>1, DivExists
      <4>2. 2^n * 0 = 0
        BY <2>1
      <4> QED
        BY <2>1, <3>2, <4>1, <4>2
    <3> QED
      BY <2>2, <2>4, <3>3
  <2> QED
    BY <2>3, <2>4
<1>3. {n \in 0..W - 1 : Lsr(x, n) = 0} = k + 1..W - 1
  <2>1. {n \in 0..W - 1 : Lsr(x, n) = 0} = {n \in 0..W - 1 : n > k}
    BY <1>2
  <2>2. {n \in 0..W - 1 : n > k} = k + 1..W - 1
    BY <1>1
  <2> QED
    BY <2>1, <2>2
<1>4. Cardinality(k + 1..W - 1) = W - 1 - k
  <2>1. k + 1 \in Int /\ W - 1 \in Int
    BY <1>1
  <2>2. Cardinality(k + 1..W - 1) = IF k + 1 > W - 1 THEN 0 ELSE (W - 1) - (k + 1) + 1
    BY <2>1, FS_Interval
  <2> QED
    BY <1>1, <2>2
<1> QED
  BY <1>3, <1>4 DEF Clz

\* The divisor shifted up has the top bit of the dividend.
LEMMA ShiftedUpIs ==
  ASSUME NEW a \in Nat, a < Base, NEW b \in Nat \ {0}, b < a
  PROVE  /\ Lsl(b, Clz(b) - Clz(a)) = ShiftedUp(a, b)
         /\ ShiftedUp(a, b) \in Nat \ {0} /\ ShiftedUp(a, b) < Base /\ a < 2 * ShiftedUp(a, b)
<1>1. W \in Nat /\ W >= 4 /\ Base \in Nat /\ Base = 2^W /\ b < Base
  BY Limits DEF Base
<1>2. PICK k \in 0..W - 1 : 2^k <= a /\ a < 2^(k + 1)
  BY TopBit
<1>3. PICK l \in 0..W - 1 : 2^l <= b /\ b < 2^(l + 1)
  BY <1>1, TopBit
<1>4. Clz(a) = W - 1 - k /\ Clz(b) = W - 1 - l
  BY <1>2, <1>3, ClzIs
<1>5. k \in Nat /\ l \in Nat /\ 2^k \in Nat /\ 2^l \in Nat /\ 2^(k + 1) = 2 * 2^k /\ 2^(l + 1) = 2 * 2^l
  BY <1>1, Powers
<1>6. l <= k
  <2> SUFFICES ASSUME k < l PROVE FALSE
    BY <1>5
  <2>1. 2 * 2^k <= 2^l
    BY <1>5, PowersOrder
  <2> QED
    BY <1>2, <1>3, <1>5, <2>1
<1> DEFINE p == 2^(k - l)
<1>7. k - l \in Nat /\ k = l + (k - l) /\ k - l < W /\ Clz(b) - Clz(a) = k - l
  BY <1>1, <1>4, <1>5, <1>6
<1>8. p \in Nat \ {0} /\ 2^k = 2^l * p
  <2>1. 2^(l + (k - l)) = 2^l * 2^(k - l)
    BY <1>5, <1>7, PowersAdd
  <2> QED
    BY <1>7, <2>1, Powers
<1>9. 2 * 2^k <= Base
  BY <1>1, <1>5, PowersOrder
<1> HIDE DEF p
<1>10. b * p \in Nat \ {0} /\ b * p < 2 * 2^k /\ 2^k <= b * p
  <2>1. \A u, w, q \in Nat : u < w /\ q # 0 => u * q < w * q
    OBVIOUS
  <2>2. \A u, w, q \in Nat : u <= w => u * q <= w * q
    OBVIOUS
  <2>3. \A u, q \in Nat : u * q \in Nat /\ (2 * u) * q = 2 * (u * q)
    OBVIOUS
  <2>4. b * p < (2 * 2^l) * p /\ 2^l * p <= b * p
    BY <1>3, <1>5, <1>8, <2>1, <2>2
  <2>5. b * p \in Nat /\ (2 * 2^l) * p = 2 * (2^l * p)
    BY <1>5, <1>8, <2>3
  <2>6. 2^k >= 1
    BY <1>5, Powers
  <2> QED
    BY <1>5, <1>8, <2>4, <2>5, <2>6
<1>11. ShiftedUp(a, b) = b * p
  BY <1>7 DEF ShiftedUp, p
<1>12. b * p < Base
  BY <1>1, <1>5, <1>9, <1>10
<1>13. Lsl(b, k - l) = b * p
  BY <1>7, <1>12, LslIs DEF p
<1>14. a < 2 * (b * p)
  BY <1>2, <1>5, <1>10
<1> QED
  BY <1>7, <1>10, <1>11, <1>12, <1>13, <1>14

\* ARM_DIV_BODY divides by the divisor its first half has shifted up (_divsi3.s).
LEMMA DivBodyIs ==
  ASSUME NEW a \in Nat, a < Base, NEW b \in Nat \ {0}, b < a
  PROVE  DivBody(a, b) = a \div ShiftedUp(a, b)
<1> DEFINE up == ShiftedUp(a, b)
           r  == IF up < 2^(W - 3) THEN [Regs(a, Lsl(up, 3)) EXCEPT !.curbit = 8] ELSE Regs(a, up)
<1>1. Lsl(b, Clz(b) - Clz(a)) = up /\ up \in Nat \ {0} /\ up < Base
  BY ShiftedUpIs
<1>2. DivBody(a, b) = DivLoop(Align(r)).result
  BY <1>1 DEF DivBody
<1> HIDE DEF up
<1>3. \E k0 \in Nat : Up(r, a, up, k0, 0)
  <2>1. CASE up < 2^(W - 3)
    <3>1. up * 2^3 < Base /\ 2^3 = 8 /\ 3 < W /\ 2^(0 + 3) = 8 /\ up * 8 \in Nat
      BY <1>1, <2>1, Limits, Powers
    <3>2. Lsl(up, 3) = up * 8
      <4>1. 3 \in Nat /\ up \in Nat
        BY <1>1
      <4>2. Lsl(up, 3) = up * 2^3
        BY <3>1, <4>1, LslIs
      <4> QED
        BY <3>1, <4>2
    <3>3. r = [dividend |-> a, divisor |-> up * 8, curbit |-> 8, result |-> 0, order |-> 0]
      BY <2>1, <3>2 DEF Regs
    <3>4. Up(r, a, up, 3, 0)
      BY <3>1, <3>3 DEF Up, Registers
    <3> QED
      BY <3>4, 3 \in Nat
  <2>2. CASE ~(up < 2^(W - 3))
    BY <1>1, <2>2, RegsIs, 0 \in Nat
  <2> QED
    BY <2>1, <2>2
<1> HIDE DEF r
<1>4. PICK k \in 0..W - 1 : Starts(Align(r), a, up, k)
  BY <1>1, <1>3, AlignIs
<1>5. DivLoop(Align(r)).result = a \div up
  BY <1>1, <1>4, DivLoopIs
<1> QED
  BY <1>2, <1>5 DEF up

\* The body of the remainder: the divisor shifted up is subtracted once at most.
LEMMA NoRound ==
  ASSUME NEW round, NEW s, round[s] = s
  PROVE  \A n \in Nat : Rounds(round, s, n) = s
<1>1. \A n \in Nat : Rounds(round, s, n) \in {s}
  BY LoopKeeps
<1> QED
  BY <1>1

\* A loop that ends with its first round.
LEMMA OneRound ==
  ASSUME NEW round, NEW s, NEW t, round[s] = t, round[t] = t
  PROVE  \A n \in Nat : n # 0 => Rounds(round, s, n) = t
<1> DEFINE S == {n \in Nat : Rounds(round, s, n + 1) = t}
<1>1. 0 \in S
  <2>1. Rounds(round, s, 0) = s /\ Rounds(round, s, 0 + 1) = round[Rounds(round, s, 0)]
    BY RoundsStep, 0 \in Nat
  <2> QED
    BY <2>1
<1>2. ASSUME NEW n \in Nat, n \in S PROVE n + 1 \in S
  <2>1. Rounds(round, s, (n + 1) + 1) = round[Rounds(round, s, n + 1)]
    BY RoundsStep, n + 1 \in Nat
  <2> QED
    BY <1>2, <2>1
<1> HIDE DEF S
<1>3. \A n \in Nat : n \in S
  BY <1>1, <1>2, AllNats
<1> SUFFICES ASSUME NEW n \in Nat, n # 0 PROVE Rounds(round, s, n) = t
  OBVIOUS
<1>4. n - 1 \in S /\ (n - 1) + 1 = n
  BY <1>3
<1> QED
  BY <1>4 DEF S

\* No round where the divisor is not below the dividend, or not below the limit; one
\* where the round brings it there.
LEMMA ShiftUpNone ==
  ASSUME NEW x \in Registers, NEW limit, NEW n, ~(x.divisor < limit /\ x.divisor < x.dividend)
  PROVE  ShiftUp(x, limit, n) = x
<1> DEFINE round == [y \in Registers |-> IF y.divisor < limit /\ y.divisor < y.dividend
                                         THEN ShiftedBy(y, n) ELSE y]
<1>1. round[x] = x
  OBVIOUS
<1>2. ShiftUp(x, limit, n) = Rounds(round, x, W)
  BY DEF ShiftUp
<1> HIDE DEF round
<1> QED
  BY <1>1, <1>2, NoRound, Limits

\* A loop that shifts up once.
LEMMA ShiftUpOnce ==
  ASSUME NEW x \in Registers, NEW limit, NEW n, x.divisor < limit /\ x.divisor < x.dividend,
         ShiftedBy(x, n) \in Registers, ~(ShiftedBy(x, n).divisor < ShiftedBy(x, n).dividend)
  PROVE  ShiftUp(x, limit, n) = ShiftedBy(x, n)
<1> DEFINE round == [y \in Registers |-> IF y.divisor < limit /\ y.divisor < y.dividend
                                         THEN ShiftedBy(y, n) ELSE y]
<1>1. round[x] = ShiftedBy(x, n) /\ round[ShiftedBy(x, n)] = ShiftedBy(x, n)
  OBVIOUS
<1>2. ShiftUp(x, limit, n) = Rounds(round, x, W)
  BY DEF ShiftUp
<1> HIDE DEF round
<1> QED
  BY <1>1, <1>2, OneRound, Limits

\* A divisor that has the top bit of the dividend is shifted once at most.
LEMMA AlignNear ==
  ASSUME NEW a \in Nat, NEW u \in Nat \ {0}, u < Base, a < 2 * u
  PROVE  \E m \in {0, 1, 4} : Up(Align(Regs(a, u)), a, u, 0, m) /\ (m = 0 \/ u < a)
<1> DEFINE x == Regs(a, u)
           y == ShiftUp(x, 2^(W - 4), 4)
<1>1. Up(x, a, u, 0, 0)
  BY RegsIs
<1>2. Align(x) = ShiftUp(y, Half, 1)
  BY DEF Align
<1>3. x \in Registers /\ x.divisor = u /\ x.dividend = a
  BY <1>1, Powers DEF Up, Regs, Registers
<1> HIDE DEF x
<1>4. CASE u >= a
  <2>1. y = x
    BY <1>3, <1>4, ShiftUpNone
  <2>2. ShiftUp(x, Half, 1) = x
    BY <1>3, <1>4, ShiftUpNone
  <2> QED
    BY <1>1, <1>2, <2>1, <2>2 DEF x
<1>5. CASE u < a /\ u < 2^(W - 4)
  <2>1. Up(ShiftedBy(x, 4), a, u, 0, 4)
    <3>1. 2^(W - 4) \in Nat /\ 2^(W - 4) * 2^4 <= Base
      BY Limits, Powers
    <3>2. 0 \in Nat /\ 4 \in Nat /\ 0 + 4 = 4
      OBVIOUS
    <3>3. Up(ShiftedBy(x, 4), a, u, 0, 0 + 4)
      BY <1>1, <1>3, <1>5, <3>1, <3>2, UpMore
    <3> QED
      BY <3>2, <3>3
  <2> DEFINE z == ShiftedBy(x, 4)
  <2>2. z \in Registers /\ z.dividend = a /\ z.divisor = u * 16
    BY <2>1, Powers DEF Up
  <2>3. ~(z.divisor < z.dividend)
    BY <2>2
  <2>4. y = z
    BY <1>3, <1>5, <2>2, <2>3, ShiftUpOnce
  <2> HIDE DEF y, z
  <2>5. ShiftUp(z, Half, 1) = z
    BY <2>2, <2>3, ShiftUpNone
  <2> QED
    BY <1>2, <1>5, <2>1, <2>4, <2>5 DEF x, z
<1>6. CASE u < a /\ ~(u < 2^(W - 4))
  <2>1. y = x
    BY <1>3, <1>6, ShiftUpNone
  <2>2. CASE u < Half
    <3>1. Up(ShiftedBy(x, 1), a, u, 0, 1)
      <4>1. Half \in Nat /\ Half * 2^1 <= Base
        BY Limits, Powers
      <4>2. 0 \in Nat /\ 1 \in Nat /\ 0 + 1 = 1
        OBVIOUS
      <4>3. Up(ShiftedBy(x, 1), a, u, 0, 0 + 1)
        BY <1>1, <1>3, <2>2, <4>1, <4>2, UpMore
      <4> QED
        BY <4>2, <4>3
    <3> DEFINE z == ShiftedBy(x, 1)
    <3>2. z \in Registers /\ z.dividend = a /\ z.divisor = u * 2
      BY <3>1, Powers DEF Up
    <3>3. ShiftUp(x, Half, 1) = z
      BY <1>3, <1>6, <2>2, <3>2, ShiftUpOnce
    <3> QED
      BY <1>2, <1>6, <2>1, <3>1, <3>3 DEF x
  <2>3. CASE ~(u < Half)
    <3>1. ShiftUp(x, Half, 1) = x
      BY <1>3, <2>3, ShiftUpNone
    <3> QED
      BY <1>1, <1>2, <2>1, <3>1 DEF x
  <2> QED
    BY <2>2, <2>3
<1> QED
  BY <1>4, <1>5, <1>6

\* What a trial subtraction leaves of the dividend.
LEMMA SubtractIs ==
  ASSUME NEW x \in Registers, NEW n, NEW d \in Nat, Lsr(x.divisor, n) = d
  PROVE  /\ x.dividend >= d => Subtract(x, n).dividend = x.dividend - d
         /\ x.dividend < d => Subtract(x, n) = x
BY DEF Subtract, Registers

\* Registers with another order, and with the divisor shifted down.
Ordered(x, o) == [x EXCEPT !.order = o]
Divisor(x, d) == [x EXCEPT !.divisor = d]

\* What Ordered changes, and what it leaves.
LEMMA OrderedIs ==
  ASSUME NEW x \in Registers, NEW o \in Int
  PROVE  /\ Ordered(x, o) \in Registers /\ Ordered(x, o).dividend = x.dividend
         /\ Ordered(x, o).divisor = x.divisor /\ Ordered(x, o).order = o
BY DEF Ordered, Registers

\* What Divisor changes, and what it leaves.
LEMMA DivisorIs ==
  ASSUME NEW x \in Registers, NEW d \in Nat
  PROVE  /\ Divisor(x, d) \in Registers /\ Divisor(x, d).dividend = x.dividend
         /\ Divisor(x, d).divisor = d /\ Divisor(x, d).order = x.order
BY DEF Divisor, Registers

\* The last of the subtractions that are left, with the divisor where it was.
LEMMA RestIs ==
  ASSUME NEW x \in Registers, NEW a \in Nat, NEW u \in Nat \ {0}, x.dividend = a, a < 2 * u,
         \/ x.order = -3 /\ x.divisor = u
         \/ x.order = -2 /\ x.divisor = u * 2
  PROVE  Rest(x) = IF a >= u THEN a - u ELSE a
<1>1. 0 < W /\ 1 < W /\ 0 \in Nat /\ 1 \in Nat /\ 2^0 = 1 /\ 2^1 = 2
  BY Limits, Powers
<1>2. Lsr(u, 0) = u /\ Lsr(u * 2, 1) = u /\ Lsr(u * 2, 0) = u * 2
  <2>1. u * 1 = u /\ u * 2 \in Nat /\ (u * 2) * 1 = u * 2
    OBVIOUS
  <2>2. Lsr(u * 2^0, 0) = u /\ Lsr(u * 2^1, 1) = u /\ Lsr((u * 2) * 2^0, 0) = u * 2
    BY <1>1, <2>1, LsrMultiple
  <2> QED
    BY <1>1, <2>1, <2>2
<1>3. ASSUME NEW y \in Registers, y.divisor = u, y.dividend = a
      PROVE  Subtract(y, 0).dividend = IF a >= u THEN a - u ELSE a
  <2>1. /\ y.dividend >= u => Subtract(y, 0).dividend = y.dividend - u
        /\ y.dividend < u => Subtract(y, 0) = y
    BY <1>2, <1>3, SubtractIs
  <2> QED
    BY <1>3, <2>1
<1>4. CASE x.order = -3 /\ x.divisor = u
  <2>1. Rest(x) = Subtract(x, 0).dividend
    BY <1>4 DEF Rest
  <2> QED
    BY <1>3, <1>4, <2>1
<1>5. CASE x.order = -2 /\ x.divisor = u * 2
  <2>1. Rest(x) = Subtract(Half1(Subtract(x, 0)), 0).dividend
    BY <1>5 DEF Rest
  <2>2. Subtract(x, 0) = x
    <3>1. u * 2 \in Nat /\ Lsr(x.divisor, 0) = u * 2 /\ x.dividend < u * 2
      BY <1>2, <1>5
    <3> QED
      BY <3>1, SubtractIs
  <2>3. Half1(x) = Divisor(x, u)
    BY <1>2, <1>5 DEF Half1, Divisor
  <2>4. Divisor(x, u) \in Registers /\ Divisor(x, u).divisor = u /\ Divisor(x, u).dividend = a
    BY DivisorIs
  <2> QED
    BY <1>3, <2>1, <2>2, <2>3, <2>4
<1> QED
  BY <1>4, <1>5

\* A batch with a divisor so high subtracts nothing.
LEMMA BatchNone ==
  ASSUME NEW x \in Registers, NEW a \in Nat, NEW u \in Nat \ {0}, x.dividend = a, a < 2 * u,
         x.divisor = u * 16
  PROVE  Batch(x) = x
<1>1. ASSUME NEW n \in 0..3, NEW d \in Nat, Lsr(x.divisor, n) = d, 2 * u <= d PROVE Subtract(x, n) = x
  <2>1. x.dividend < d
    BY <1>1
  <2> QED
    BY <1>1, <2>1, SubtractIs
<1>2. /\ Lsr((u * 16) * 2^0, 0) = u * 16 /\ Lsr((u * 8) * 2^1, 1) = u * 8
      /\ Lsr((u * 4) * 2^2, 2) = u * 4 /\ Lsr((u * 2) * 2^3, 3) = u * 2
  <2>1. /\ 0 < W /\ 1 < W /\ 2 < W /\ 3 < W /\ 0 \in Nat /\ 1 \in Nat /\ 2 \in Nat /\ 3 \in Nat
        /\ u * 16 \in Nat /\ u * 8 \in Nat /\ u * 4 \in Nat /\ u * 2 \in Nat
    BY Limits
  <2> QED
    BY <2>1, LsrMultiple
<1>3. /\ (u * 16) * 2^0 = u * 16 /\ (u * 8) * 2^1 = u * 16
      /\ (u * 4) * 2^2 = u * 16 /\ (u * 2) * 2^3 = u * 16
  BY Powers
<1>4. /\ Lsr(x.divisor, 0) = u * 16 /\ Lsr(x.divisor, 1) = u * 8
      /\ Lsr(x.divisor, 2) = u * 4 /\ Lsr(x.divisor, 3) = u * 2
  BY <1>2, <1>3
<1>5. /\ u * 16 \in Nat /\ u * 8 \in Nat /\ u * 4 \in Nat /\ u * 2 \in Nat
      /\ 2 * u <= u * 16 /\ 2 * u <= u * 8 /\ 2 * u <= u * 4 /\ 2 * u <= u * 2
  OBVIOUS
<1>6. Subtract(x, 0) = x /\ Subtract(x, 1) = x /\ Subtract(x, 2) = x /\ Subtract(x, 3) = x
  <2>1. Subtract(x, 0) = x
    BY <1>1, <1>4, <1>5, 0 \in 0..3
  <2>2. Subtract(x, 1) = x
    BY <1>1, <1>4, <1>5, 1 \in 0..3
  <2>3. Subtract(x, 2) = x
    BY <1>1, <1>4, <1>5, 2 \in 0..3
  <2>4. Subtract(x, 3) = x
    BY <1>1, <1>4, <1>5, 3 \in 0..3
  <2> QED
    BY <2>1, <2>2, <2>3, <2>4
<1> QED
  BY <1>6 DEF Batch

\* ARM_MOD_BODY leaves the remainder of a division by the divisor its first half has
\* shifted up (_modsi3.s).
LEMMA ModBodyIs ==
  ASSUME NEW a \in Nat, a < Base, NEW b \in Nat \ {0}, b < a
  PROVE  ModBody(a, b) = a % ShiftedUp(a, b)
<1> DEFINE u == ShiftedUp(a, b)
           z == Align(Regs(a, u))
           s == Ordered(z, z.order - 3)
           t == OrderLoop(s)
<1>1. Lsl(b, Clz(b) - Clz(a)) = u /\ u \in Nat \ {0} /\ u < Base /\ a < 2 * u
  BY ShiftedUpIs
<1>2. ModBody(a, b) = IF s.order < 0 THEN Rest(s)
                      ELSE IF t.order % 4 = 0 \/ t.dividend = 0 THEN t.dividend ELSE Rest(t)
  BY <1>1 DEF ModBody, Ordered
<1>3. a % u = a % ShiftedUp(a, b)
  OBVIOUS
<1> HIDE DEF u
<1>4. PICK m \in {0, 1, 4} : Up(z, a, u, 0, m) /\ (m = 0 \/ u < a)
  BY <1>1, AlignNear
<1>5. a % u = IF a >= u THEN a - u ELSE a
  <2>1. \A q, r \in Nat : a = u * q + r /\ r < u => a \div u = q /\ a % u = r
    BY <1>1, DivUnique
  <2>2. CASE a >= u
    <3>1. a = u * 1 + (a - u) /\ a - u < u /\ a - u \in Nat /\ 1 \in Nat
      BY <1>1, <2>2
    <3>2. a % u = a - u
      BY <2>1, <3>1
    <3> QED
      BY <2>2, <3>2
  <2>3. CASE ~(a >= u)
    <3>1. a = u * 0 + a /\ a < u /\ 0 \in Nat
      BY <1>1, <2>3
    <3>2. a % u = a
      BY <2>1, <3>1
    <3> QED
      BY <2>3, <3>2
  <2> QED
    BY <2>2, <2>3
<1>6. z \in Registers /\ z.dividend = a /\ z.order = m /\ z.divisor = u * 2^(m + 0) /\ u * 2^(m + 0) < Base
  BY <1>4 DEF Up
<1>7. m + 0 = m
  OBVIOUS
<1> HIDE DEF z
<1>8. s \in Registers /\ s.dividend = a /\ s.order = m - 3 /\ s.divisor = u * 2^m
  <2>1. z.order - 3 \in Int
    BY <1>6
  <2> QED
    BY <1>6, <1>7, <2>1, OrderedIs
<1> HIDE DEF s
<1>9. CASE m = 0
  <2>1. s.order = -3 /\ s.divisor = u
    BY <1>1, <1>8, <1>9, Powers
  <2>2. Rest(s) = IF a >= u THEN a - u ELSE a
    BY <1>1, <1>8, <2>1, RestIs
  <2> QED
    BY <1>2, <1>5, <1>3, <2>1, <2>2
<1>10. CASE m = 1
  <2>1. s.order = -2 /\ s.divisor = u * 2
    BY <1>8, <1>10, Powers
  <2>2. Rest(s) = IF a >= u THEN a - u ELSE a
    BY <1>1, <1>8, <2>1, RestIs
  <2> QED
    BY <1>2, <1>5, <1>3, <2>1, <2>2
<1>11. CASE m = 4
  <2>1. s.order = 1 /\ s.divisor = u * 16 /\ a >= 1
    BY <1>1, <1>4, <1>8, <1>11, Powers
  <2>2. Batch(s) = s
    BY <1>1, <1>8, <2>1, BatchNone
  <2>3. Lsr(s.divisor, 4) = u
    <3>1. 4 < W
      <4>1. 4 + 0 \in 0..W - 1
        BY <1>1, <1>4, <1>11, UpBound, 0 \in Nat, 4 \in Nat
      <4> QED
        BY <4>1, Limits
    <3>2. Lsr(u * 2^4, 4) = u
      BY <1>1, <3>1, LsrMultiple, 4 \in Nat
    <3> QED
      BY <2>1, <3>2, Powers
  <2> DEFINE w == Divisor(s, u)
  <2>4. OrderPass(s) = Ordered(w, w.order - 4)
    <3>1. w = [Batch(s) EXCEPT !.divisor = Lsr(@, 4)]
      BY <2>2, <2>3 DEF Divisor
    <3>2. w.dividend >= 1
      BY <1>1, <1>8, <2>1, DivisorIs
    <3> HIDE DEF w
    <3> QED
      BY <3>1, <3>2 DEF OrderPass, Ordered
  <2>5. w \in Registers /\ w.dividend = a /\ w.divisor = u /\ w.order = 1
    BY <1>1, <1>8, <2>1, DivisorIs
  <2> HIDE DEF w
  <2>6. /\ OrderPass(s) \in Registers /\ OrderPass(s).dividend = a /\ OrderPass(s).divisor = u
        /\ OrderPass(s).order = -3
    BY <2>4, <2>5, OrderedIs
  <2> DEFINE round == [x \in Registers |-> IF OrderPass(x).dividend >= 1 /\ OrderPass(x).order >= 0
                                           THEN OrderPass(x) ELSE x]
  <2>7. round[s] = s
    BY <1>8, <2>6
  <2>8. t = OrderPass(Rounds(round, s, W))
    BY DEF OrderLoop
  <2> HIDE DEF round, t
  <2>9. t = OrderPass(s)
    BY <2>7, <2>8, NoRound, Limits
  <2>10. t.order % 4 = 1
    BY <2>6, <2>9
  <2>11. Rest(t) = IF a >= u THEN a - u ELSE a
    BY <1>1, <2>6, <2>9, RestIs
  <2> QED
    BY <1>2, <1>5, <1>3, <2>1, <2>6, <2>9, <2>10, <2>11
<1> QED
  BY <1>9, <1>10, <1>11

\* A word is the sign and the amount of the number it stands for.
LEMMA SignedIs ==
  ASSUME NEW x \in Word
  PROVE  /\ Signed(x) \in Int /\ Abs(Signed(x)) \in Nat /\ Abs(Signed(x)) < Base
         /\ x # 0 => Abs(Signed(x)) # 0
         /\ Signed(x) = IF Signed(x) < 0 THEN -Abs(Signed(x)) ELSE Abs(Signed(x))
BY Limits DEF Word, Signed, Abs

\* Neg negates.
LEMMA NegIs ==
  ASSUME NEW q \in Nat, q < Base
  PROVE  Unsigned(q) = q /\ Unsigned(-q) = Neg(q) /\ Neg(0) = 0
<1>1. Base \in Nat \ {0}
  BY Limits
<1>2. \A d \in Int, r \in Nat : d = Base * (-1) + r /\ r < Base => d % Base = r
  BY <1>1, DivUnique, -1 \in Int
<1>3. \A d \in Int, r \in Nat : d = Base * 0 + r /\ r < Base => d % Base = r
  BY <1>1, DivUnique, 0 \in Int
<1>4. \A d \in Int, r \in Nat : d = Base * 1 + r /\ r < Base => d % Base = r
  BY <1>1, DivUnique, 1 \in Int
<1>5. q % Base = q
  BY <1>1, <1>3
<1>6. Neg(0) = 0
  <2>1. (Base - 0) = Base * 1 + 0 /\ Base - 0 \in Int /\ 0 < Base /\ 0 \in Nat
    BY <1>1
  <2> QED
    BY <1>4, <2>1 DEF Neg
<1>7. CASE q = 0
  BY <1>5, <1>6, <1>7 DEF Unsigned
<1>8. CASE q # 0
  <2>1. Base - q \in Nat /\ Base - q < Base /\ -q = Base * (-1) + (Base - q) /\ -q \in Int
        /\ Base - q = Base * 0 + (Base - q) /\ Base - q \in Int
    BY <1>1, <1>8
  <2>2. (-q) % Base = Base - q /\ (Base - q) % Base = Base - q
    BY <1>2, <1>3, <2>1
  <2> QED
    BY <1>5, <1>6, <2>2 DEF Unsigned, Neg
<1> QED
  BY <1>7, <1>8

\* The divisor a signed division really divides by.
Divider(a, b) == IF IsPower(b) \/ a <= b THEN b ELSE ShiftedUp(a, b)

\* Its quotient and remainder are words.
LEMMA DividerIs ==
  ASSUME NEW a \in Nat, a < Base, NEW b \in Nat \ {0}
  PROVE  /\ Divider(a, b) \in Nat \ {0}
         /\ a \div Divider(a, b) \in Nat /\ a \div Divider(a, b) < Base
         /\ a % Divider(a, b) \in Nat /\ a % Divider(a, b) < Base
<1> DEFINE d == Divider(a, b)
<1>1. d \in Nat \ {0}
  <2>1. CASE IsPower(b) \/ a <= b
    BY <2>1 DEF Divider
  <2>2. CASE ~(IsPower(b) \/ a <= b)
    BY <2>2, ShiftedUpIs DEF Divider
  <2> QED
    BY <2>1, <2>2
<1> HIDE DEF d
<1>2. a \div d \in Nat /\ a % d \in Nat /\ a = d * (a \div d) + (a % d)
  BY <1>1, DivExists
<1> DEFINE q == a \div d
           r == a % d
<1>3. q <= a /\ r <= a
  <2>1. \A u, w \in Nat : u # 0 => w <= u * w /\ u * w \in Nat
    OBVIOUS
  <2> HIDE DEF q, r
  <2>2. q <= d * q /\ d * q \in Nat /\ a = d * q + r /\ q \in Nat /\ r \in Nat
    BY <1>1, <1>2, <2>1 DEF q, r
  <2> QED
    BY <2>2
<1>4. q < Base /\ r < Base
  <2> HIDE DEF q, r
  <2>1. q \in Nat /\ r \in Nat
    BY <1>2 DEF q, r
  <2> QED
    BY <1>3, <2>1, Limits
<1> QED
  BY <1>1, <1>2, <1>4 DEF d

\* To divide by a power of two is to shift down.
LEMMA PowerIs ==
  ASSUME NEW b \in Nat \ {0}, IsPower(b), NEW a \in Nat, a < Base
  PROVE  Lsr(a, W - 1 - Clz(b)) = a \div b
<1>1. W \in Nat
  BY Limits
<1>2. PICK k \in 0..W - 1 : b = 2^k
  BY DEF IsPower
<1>3. 2^k <= b /\ b < 2^(k + 1) /\ k \in Nat
  BY <1>1, <1>2, Powers
<1>4. W - 1 - Clz(b) = k
  BY <1>1, <1>2, <1>3, ClzIs
<1> QED
  BY <1>1, <1>2, <1>4 DEF Lsr

\* The quotient of __divsi3 has the sign of both signs.
LEMMA SDivIs ==
  ASSUME NEW x \in Word, NEW y \in Word \ {0}, NEW a, NEW b,
         a = Abs(Signed(x)), b = Abs(Signed(y)), NEW q, q = a \div Divider(a, b)
  PROVE  SDiv(x, y) = IF (Signed(x) < 0) = (Signed(y) < 0) THEN q ELSE Neg(q)
<1>1. a \in Nat /\ a < Base /\ b \in Nat \ {0} /\ b < Base
  BY SignedIs
<1>2. q \in Nat /\ q < Base
  BY <1>1, DividerIs
<1> DEFINE WithSign(p) == IF (Signed(x) < 0) = (Signed(y) < 0) THEN p ELSE Neg(p)
<1>3. SDiv(x, y) = IF b = 1 THEN WithSign(a % Base)
                   ELSE IF a < b THEN 0
                   ELSE IF a = b THEN WithSign(1)
                   ELSE IF IsPower(b) THEN WithSign(Lsr(a, W - 1 - Clz(b)))
                   ELSE WithSign(DivBody(a, b))
  BY DEF SDiv
<1>4. WithSign(0) = 0
  BY NegIs, <1>2, 0 \in Nat
<1> HIDE DEF WithSign
<1>5. \A p, r \in Nat : a = b * p + r /\ r < b => a \div b = p /\ a % b = r
  BY <1>1, DivUnique
<1>6. CASE b = 1
  <2>1. IsPower(b)
    BY <1>6, Powers, Limits, 0 \in 0..W - 1 DEF IsPower
  <2>2. a \div b = a
    BY <1>1, <1>5, <1>6, a = b * a + 0, 0 \in Nat
  <2>3. a % Base = a
    BY <1>1, NegIs DEF Unsigned
  <2> QED
    BY <1>3, <1>6, <2>1, <2>2, <2>3 DEF Divider, WithSign
<1>7. CASE b # 1 /\ a < b
  <2>1. a \div b = 0
    BY <1>1, <1>5, <1>7, a = b * 0 + a, 0 \in Nat
  <2>2. Divider(a, b) = b
    BY <1>1, <1>7 DEF Divider
  <2> QED
    BY <1>3, <1>4, <1>7, <2>1, <2>2 DEF WithSign
<1>8. CASE b # 1 /\ a = b
  <2>1. a \div b = 1
    BY <1>1, <1>5, <1>8, a = b * 1 + 0, 0 \in Nat, 1 \in Nat
  <2>2. Divider(a, b) = b /\ ~(a < b)
    BY <1>1, <1>8 DEF Divider
  <2> QED
    BY <1>3, <1>8, <2>1, <2>2 DEF WithSign
<1>9. CASE b # 1 /\ b < a /\ IsPower(b)
  <2>1. Lsr(a, W - 1 - Clz(b)) = a \div b
    BY <1>1, <1>9, PowerIs
  <2>2. ~(a < b) /\ a # b
    BY <1>1, <1>9
  <2> QED
    BY <1>3, <1>9, <2>1, <2>2 DEF Divider, WithSign
<1>10. CASE b # 1 /\ b < a /\ ~IsPower(b)
  <2>1. DivBody(a, b) = a \div ShiftedUp(a, b)
    BY <1>1, <1>10, DivBodyIs
  <2>2. ~(a < b) /\ a # b /\ ~(a <= b)
    BY <1>1, <1>10
  <2> QED
    BY <1>3, <1>10, <2>1, <2>2 DEF Divider, WithSign
<1> QED
  BY <1>1, <1>6, <1>7, <1>8, <1>9, <1>10

\* The remainder of __modsi3 has the sign of the dividend.
LEMMA SModIs ==
  ASSUME NEW x \in Word, NEW y \in Word \ {0}, NEW a, NEW b,
         a = Abs(Signed(x)), b = Abs(Signed(y)), NEW r, r = a % Divider(a, b)
  PROVE  SMod(x, y) = IF Signed(x) < 0 THEN Neg(r) ELSE r
<1>1. a \in Nat /\ a < Base /\ b \in Nat \ {0} /\ b < Base
  BY SignedIs
<1> DEFINE m == IF b = 1 \/ a = b THEN 0
                ELSE IF a < b THEN a
                ELSE IF IsPower(b) THEN a % b
                ELSE ModBody(a, b)
<1>2. SMod(x, y) = IF Signed(x) < 0 THEN Neg(m) ELSE m
  BY DEF SMod
<1>3. \A p, t \in Nat : a = b * p + t /\ t < b => a \div b = p /\ a % b = t
  BY <1>1, DivUnique
<1>4. m = r
  <2>1. CASE b = 1
    <3>1. IsPower(b)
      BY <2>1, Powers, Limits, 0 \in 0..W - 1 DEF IsPower
    <3>2. a % b = 0
      BY <1>1, <1>3, <2>1, a = b * a + 0, 0 \in Nat
    <3> QED
      BY <2>1, <3>1, <3>2 DEF Divider
  <2>2. CASE b # 1 /\ a < b
    <3>1. a % b = a
      BY <1>1, <1>3, <2>2, a = b * 0 + a, 0 \in Nat
    <3>2. Divider(a, b) = b /\ a # b
      BY <1>1, <2>2 DEF Divider
    <3> QED
      BY <2>2, <3>1, <3>2
  <2>3. CASE b # 1 /\ a = b
    <3>1. a % b = 0
      BY <1>1, <1>3, <2>3, a = b * 1 + 0, 0 \in Nat, 1 \in Nat
    <3>2. Divider(a, b) = b
      BY <1>1, <2>3 DEF Divider
    <3> QED
      BY <2>3, <3>1, <3>2
  <2>4. CASE b # 1 /\ b < a /\ IsPower(b)
    <3>1. ~(a < b) /\ a # b
      BY <1>1, <2>4
    <3> QED
      BY <2>4, <3>1 DEF Divider
  <2>5. CASE b # 1 /\ b < a /\ ~IsPower(b)
    <3>1. ModBody(a, b) = a % ShiftedUp(a, b)
      BY <1>1, <2>5, ModBodyIs
    <3>2. ~(a < b) /\ a # b /\ ~(a <= b)
      BY <1>1, <2>5
    <3> QED
      BY <2>5, <3>1, <3>2 DEF Divider
  <2> QED
    BY <1>1, <2>1, <2>2, <2>3, <2>4, <2>5
<1> QED
  BY <1>2, <1>4

\* The quotient and the remainder of signed numbers, from those of their magnitudes.
LEMMA SignedDivision ==
  ASSUME NEW x \in Int, NEW y \in Int \ {0}, NEW a, NEW b, a = Abs(x), b = Abs(y)
  PROVE  /\ Quotient(x, y) = IF (x < 0) = (y < 0) THEN a \div b ELSE -(a \div b)
         /\ Remainder(x, y) = IF x < 0 THEN -(a % b) ELSE a % b
<1>1. a \in Nat /\ b \in Nat \ {0}
  BY DEF Abs
<1> DEFINE q == a \div b
           r == a % b
<1>2. q \in Nat /\ r \in Nat /\ a = b * q + r /\ b * q \in Nat
  <2>1. PICK p, t \in Nat : a \div b = p /\ a % b = t /\ a = b * p + t /\ t < b
    BY <1>1, DivNat
  <2>2. q = p /\ r = t
    BY <2>1
  <2>3. b * p \in Nat
    BY <1>1
  <2> HIDE DEF q, r
  <2> QED
    BY <2>1, <2>2, <2>3, Zenon
<1>3. Quotient(x, y) = IF (x < 0) = (y < 0) THEN q ELSE -q
  BY DEF Quotient
<1> HIDE DEF q, r
<1>4. Remainder(x, y) = x - Quotient(x, y) * y
  BY DEF Remainder
<1>5. CASE x < 0 /\ y < 0
  <2>1. x = -a /\ y = -b
    BY <1>5 DEF Abs
  <2>2. Quotient(x, y) = q
    BY <1>3, <1>5
  <2>3. q * (-b) = -(b * q)
    BY <1>1, <1>2
  <2>4. x - q * y = -r
    BY <1>1, <1>2, <2>1, <2>3
  <2> QED
    BY <1>3, <1>4, <1>5, <2>2, <2>4 DEF q, r
<1>6. CASE x < 0 /\ ~(y < 0)
  <2>1. x = -a /\ y = b
    BY <1>6 DEF Abs
  <2>2. Quotient(x, y) = -q
    BY <1>3, <1>6
  <2>3. (-q) * b = -(b * q)
    BY <1>1, <1>2
  <2>4. x - (-q) * y = -r
    BY <1>1, <1>2, <2>1, <2>3
  <2> QED
    BY <1>3, <1>4, <1>6, <2>2, <2>4 DEF q, r
<1>7. CASE ~(x < 0) /\ y < 0
  <2>1. x = a /\ y = -b
    BY <1>7 DEF Abs
  <2>2. Quotient(x, y) = -q
    BY <1>3, <1>7
  <2>3. (-q) * (-b) = b * q
    BY <1>1, <1>2
  <2>4. x - (-q) * y = r
    BY <1>1, <1>2, <2>1, <2>3
  <2> QED
    BY <1>3, <1>4, <1>7, <2>2, <2>4 DEF q, r
<1>8. CASE ~(x < 0) /\ ~(y < 0)
  <2>1. x = a /\ y = b
    BY <1>8 DEF Abs
  <2>2. Quotient(x, y) = q
    BY <1>3, <1>8
  <2>3. q * b = b * q
    BY <1>1, <1>2
  <2>4. x - q * y = r
    BY <1>1, <1>2, <2>1, <2>3
  <2> QED
    BY <1>3, <1>4, <1>8, <2>2, <2>4 DEF q, r
<1> QED
  BY <1>5, <1>6, <1>7, <1>8

\* Signed division, as DivisionExact states it.
LEMMA SignedExact ==
  ASSUME NEW x \in Word, NEW y \in Word \ {0}, NEW sx, NEW sy, sx = Signed(x), sy = Signed(y)
  PROVE  IF IsPower(Abs(sy)) \/ Abs(sx) <= Abs(sy)
         THEN SDiv(x, y) = Unsigned(Quotient(sx, sy)) /\ SMod(x, y) = Unsigned(Remainder(sx, sy))
         ELSE /\ SDiv(x, y) = Unsigned(Sign(sx) * Sign(sy) * (Abs(sx) \div ShiftedUp(Abs(sx), Abs(sy))))
              /\ SMod(x, y) = Unsigned(Sign(sx) * (Abs(sx) % ShiftedUp(Abs(sx), Abs(sy))))
<1> DEFINE a == Abs(sx)
           b == Abs(sy)
           q == a \div Divider(a, b)
           r == a % Divider(a, b)
<1>1. /\ a \in Nat /\ a < Base /\ b \in Nat \ {0} /\ sx \in Int /\ sy \in Int
      /\ sx = IF sx < 0 THEN -a ELSE a
      /\ sy = IF sy < 0 THEN -b ELSE b
  BY SignedIs
<1>2. SDiv(x, y) = IF (sx < 0) = (sy < 0) THEN q ELSE Neg(q)
  BY SDivIs
<1>3. SMod(x, y) = IF sx < 0 THEN Neg(r) ELSE r
  BY SModIs
<1>4. q \in Nat /\ q < Base /\ r \in Nat /\ r < Base
  BY <1>1, DividerIs
<1>5. Unsigned(q) = q /\ Unsigned(-q) = Neg(q) /\ Unsigned(r) = r /\ Unsigned(-r) = Neg(r)
  BY <1>4, NegIs
<1>6. CASE IsPower(b) \/ a <= b
  <2>1. q = a \div b /\ r = a % b
    BY <1>6 DEF Divider
  <2>2. sy # 0
    BY <1>1
  <2>3. /\ Quotient(sx, sy) = IF (sx < 0) = (sy < 0) THEN a \div b ELSE -(a \div b)
        /\ Remainder(sx, sy) = IF sx < 0 THEN -(a % b) ELSE a % b
    BY <1>1, <2>2, SignedDivision
  <2> HIDE DEF a, b, q, r
  <2>4. SDiv(x, y) = Unsigned(Quotient(sx, sy))
    BY <1>2, <1>5, <2>1, <2>3
  <2>5. SMod(x, y) = Unsigned(Remainder(sx, sy))
    BY <1>3, <1>5, <2>1, <2>3
  <2> QED
    BY <1>6, <2>4, <2>5 DEF a, b
<1>7. CASE ~(IsPower(b) \/ a <= b)
  <2>1. q = a \div ShiftedUp(a, b) /\ r = a % ShiftedUp(a, b)
    BY <1>7 DEF Divider
  <2> HIDE DEF a, b, q, r
  <2>2. sx # 0 /\ sy # 0
    BY <1>1, <1>7
  <2>3. /\ Sign(sx) = IF sx < 0 THEN -1 ELSE 1
        /\ Sign(sy) = IF sy < 0 THEN -1 ELSE 1
    BY <1>1, <2>2 DEF Sign
  <2>4. Sign(sx) * Sign(sy) * q = IF (sx < 0) = (sy < 0) THEN q ELSE -q
    <3>1. /\ 1 * 1 * q = q /\ 1 * (-1) * q = -q /\ (-1) * 1 * q = -q /\ (-1) * (-1) * q = q
      BY <1>4
    <3>2. CASE sx < 0 /\ sy < 0
      BY <2>3, <3>1, <3>2
    <3>3. CASE sx < 0 /\ ~(sy < 0)
      BY <2>3, <3>1, <3>3
    <3>4. CASE ~(sx < 0) /\ sy < 0
      BY <2>3, <3>1, <3>4
    <3>5. CASE ~(sx < 0) /\ ~(sy < 0)
      BY <2>3, <3>1, <3>5
    <3> QED
      BY <3>2, <3>3, <3>4, <3>5
  <2>5. Sign(sx) * r = IF sx < 0 THEN -r ELSE r
    <3>1. 1 * r = r /\ (-1) * r = -r
      BY <1>4
    <3> QED
      BY <2>3, <3>1
  <2>6. SDiv(x, y) = Unsigned(Sign(sx) * Sign(sy) * q)
    BY <1>2, <1>5, <2>4
  <2>7. SMod(x, y) = Unsigned(Sign(sx) * r)
    BY <1>3, <1>5, <2>5
  <2> QED
    BY <1>7, <2>1, <2>6, <2>7 DEF a, b
<1> QED
  BY <1>6, <1>7
----------------------------------------------------------------------------
(***************************************************************************)
(* Shifts of pairs of words.                                               *)
(***************************************************************************)
LEMMA LongIs ==
  ASSUME NEW n \in 0..Base * Base - 1
  PROVE  /\ Lo(n) \in Nat /\ Lo(n) < Base /\ Hi(n) \in Nat /\ Hi(n) < Base /\ n = Hi(n) * Base + Lo(n)
         /\ n \in Nat /\ Base * Base \in Nat \ {0}
<1>1. Base \in Nat \ {0} /\ Base * Base \in Nat \ {0} /\ n \in Nat /\ n < Base * Base
  <2>1. Base \in Nat \ {0}
    BY Limits
  <2>2. \A p \in Nat \ {0} : p * p \in Nat \ {0}
    OBVIOUS
  <2> QED
    BY <2>1, <2>2
<1> DEFINE q == n \div Base
           r == n % Base
<1>2. q \in Nat /\ r \in Nat /\ n = Base * q + r /\ r < Base
  BY <1>1, DivNat
<1> HIDE DEF q, r
<1>3. q < Base
  <2> SUFFICES ASSUME Base <= q PROVE FALSE
    BY <1>1, <1>2
  <2>1. \A u, w, p \in Nat : u <= w => p * u <= p * w /\ p * u \in Nat /\ p * w \in Nat
    OBVIOUS
  <2>2. Base * Base <= Base * q /\ Base * q \in Nat
    BY <1>1, <1>2, <2>1
  <2> QED
    BY <1>1, <1>2, <2>2
<1>4. Base * q = q * Base
  BY <1>1, <1>2
<1>5. Lo(n) = r /\ Hi(n) = q
  BY DEF Lo, Hi, q, r
<1> QED
  BY <1>1, <1>2, <1>3, <1>4, <1>5

\* Quotients and remainders by a product, and of sums.
LEMMA SmallQuotient ==
  ASSUME NEW x \in Nat, NEW b \in Nat \ {0}, x < b
  PROVE  x \div b = 0 /\ x % b = x
BY DivUnique, x = b * 0 + x

\* A word's halves of i and j bits.
Halves(x, i, j) ==
  /\ x = (x \div 2^j) * 2^j + (x % 2^j) /\ x \div 2^j \in Nat /\ x % 2^j \in Nat
  /\ x \div 2^j < 2^i /\ x % 2^j < 2^j /\ 2^i \in Nat \ {0} /\ 2^j \in Nat \ {0}
  /\ Base = 2^i * 2^j

\* The two shifts that move a word across the border of a pair lose nothing.
LEMMA Split ==
  ASSUME NEW x \in Nat, x < Base, NEW i \in Nat, NEW j \in Nat, i + j = W
  PROVE  Halves(x, i, j)
<1>1. 2^i \in Nat \ {0} /\ 2^j \in Nat \ {0} /\ Base = 2^i * 2^j
  BY PowersAdd, Powers DEF Base
<1> DEFINE q == x \div 2^j
           r == x % 2^j
           p == 2^j
           t == 2^i
<1>2. q \in Nat /\ r \in Nat /\ x = p * q + r /\ r < p
  BY <1>1, DivNat
<1>3. p \in Nat \ {0} /\ t \in Nat \ {0} /\ Base = t * p
  BY <1>1
<1> HIDE DEF q, r, p, t
<1>4. q < t
  <2> SUFFICES ASSUME t <= q PROVE FALSE
    BY <1>2, <1>3
  <2>1. \A u, w, v \in Nat : u <= w => u * v <= v * w /\ u * v \in Nat /\ v * w \in Nat
    OBVIOUS
  <2>2. t * p <= p * q /\ p * q \in Nat /\ t * p \in Nat
    BY <1>2, <1>3, <2>1
  <2> QED
    BY <1>2, <1>3, <2>2
<1>5. p * q = q * p
  BY <1>2, <1>3
<1> QED
  BY <1>1, <1>2, <1>4, <1>5 DEF Halves, q, r, p, t

\* What a shift by k leaves in a word, by its halves of k and W - k bits.
LEMMA LslSplit ==
  ASSUME NEW x \in Nat, x < Base, NEW k \in Nat, k <= W
  PROVE  /\ Lsl(x, k) = (x % 2^(W - k)) * 2^k
         /\ Lsr(x, W - k) = x \div 2^(W - k)
         /\ (x \div 2^(W - k)) < 2^k
         /\ x * 2^k = (x \div 2^(W - k)) * Base + (x % 2^(W - k)) * 2^k
         /\ (x % 2^(W - k)) * 2^k < Base
         /\ x \div 2^(W - k) \in Nat /\ x % 2^(W - k) \in Nat /\ 2^k \in Nat \ {0}
<1>1. W \in Nat /\ W - k \in Nat /\ k + (W - k) = W /\ (W - k) + k = W /\ Base \in Nat \ {0}
  BY Limits
<1> DEFINE q == x \div 2^(W - k)
           r == x % 2^(W - k)
           p == 2^(W - k)
           t == 2^k
<1>2. x = q * p + r /\ q \in Nat /\ r \in Nat /\ q < t /\ r < p /\ t \in Nat \ {0} /\ p \in Nat \ {0}
      /\ Base = t * p
  <2>1. Halves(x, k, W - k)
    BY <1>1, Split
  <2> QED
    BY <2>1, Zenon DEF Halves
<1>3. Lsr(x, W - k) = q
  BY <1>1, LsrIs
<1>4. k >= W => Lsl(x, k) = 0 /\ r = 0
  <2> SUFFICES ASSUME k >= W PROVE Lsl(x, k) = 0 /\ r = 0
    OBVIOUS
  <2>1. p = 1
    BY <1>1, Powers, W - k = 0
  <2> HIDE DEF p, q, t, r
  <2> QED
    BY <1>2, <2>1 DEF Lsl
<1>5. k < W => Lsl(x, k) = (x * t) % Base
  BY <1>1 DEF Lsl
<1> HIDE DEF q, r, p, t
<1>6. x * t = q * Base + r * t /\ r * t < Base /\ r * t \in Nat /\ x * t \in Nat /\ q * Base = Base * q
  <2>1. \A u, w, v \in Nat : u < w /\ v # 0 => u * v < v * w
    OBVIOUS
  <2>2. (q * p + r) * t = q * (t * p) + r * t /\ r * t \in Nat /\ x * t \in Nat
    BY <1>2
  <2>3. r * t < t * p
    BY <1>2, <2>1
  <2>4. q * Base = Base * q
    BY <1>1, <1>2
  <2> QED
    BY <1>2, <2>2, <2>3, <2>4
<1>7. (x * t) % Base = r * t
  <2>1. \A d \in Int, e \in Nat : d = Base * q + e /\ e < Base => d % Base = e
    BY <1>1, <1>2, DivUnique, q \in Int
  <2> QED
    BY <1>6, <2>1
<1>8. Lsl(x, k) = r * t
  <2>1. 0 * t = 0
    BY <1>2
  <2> QED
    BY <1>1, <1>4, <1>5, <1>7, <2>1
<1> QED
  BY <1>2, <1>3, <1>6, <1>8 DEF q, r, p, t

\* __ashldi3 multiplies by a power of two, as far as the pair of words has room.
LEMMA ShiftLeftIs ==
  ASSUME NEW n \in 0..Base * Base - 1, NEW k \in Nat
  PROVE  ShiftLeft(n, k) = (n * 2^k) % (Base * Base)
<1> DEFINE lo == Lo(n)
           hi == Hi(n)
           t == 2^k
<1>1. /\ lo \in Nat /\ lo < Base /\ hi \in Nat /\ hi < Base /\ n = hi * Base + lo
      /\ n \in Nat /\ Base * Base \in Nat \ {0} /\ Base \in Nat \ {0} /\ W \in Nat
  BY LongIs, Limits
<1>2. t \in Nat \ {0}
  BY Powers
<1>3. \A d \in Int, q \in Int, r \in Nat : d = (Base * Base) * q + r /\ r < Base * Base
                                           => d % (Base * Base) = r
  BY <1>1, DivUnique
<1>4. \A d \in Int, q \in Int, r \in Nat : d = Base * q + r /\ r < Base => d % Base = r
  BY <1>1, DivUnique
<1>5. CASE k < W
  <2> DEFINE q0 == lo \div 2^(W - k)
             r0 == lo % 2^(W - k)
             q1 == hi \div 2^(W - k)
             r1 == hi % 2^(W - k)
  <2>0. k <= W
    BY <1>1, <1>5
  <2>1. /\ Lsl(lo, k) = r0 * t /\ Lsr(lo, W - k) = q0 /\ q0 < t /\ lo * t = q0 * Base + r0 * t
        /\ r0 * t < Base /\ q0 \in Nat /\ r0 \in Nat
    BY <1>1, <2>0, LslSplit
  <2>2. /\ Lsl(hi, k) = r1 * t /\ hi * t = q1 * Base + r1 * t /\ q1 < t
        /\ r1 * t < Base /\ q1 \in Nat /\ r1 \in Nat
    BY <1>1, <2>0, LslSplit
  <2>3. r1 * t + q0 < Base /\ r1 * t \in Nat
    \* r1 < 2^(W - k) and q0 < 2^k
    <3> DEFINE p == 2^(W - k)
    <3>1. r1 < p /\ Base = t * p /\ p \in Nat
      <4>1. W - k \in Nat /\ k + (W - k) = W
        BY <1>1, <1>5
      <4>2. Halves(hi, k, W - k)
        BY <1>1, <4>1, Split
      <4> QED
        BY <4>2 DEF Halves
    <3> HIDE DEF p, q0, r0, q1, r1, t
    <3>2. (r1 + 1) * t <= p * t
      <4>1. \A u, w, v \in Nat : u <= w => u * v <= w * v
        OBVIOUS
      <4>2. r1 + 1 <= p /\ r1 + 1 \in Nat
        BY <2>2, <3>1
      <4> QED
        BY <1>2, <3>1, <4>1, <4>2
    <3>3. (r1 + 1) * t = r1 * t + t /\ p * t = t * p /\ r1 * t \in Nat
      BY <1>2, <2>2, <3>1
    <3> QED
      BY <1>1, <1>2, <2>1, <2>2, <3>1, <3>2, <3>3
  <2>4. ShiftLeft(n, k) = ((r1 * t + q0) % Base) * Base + r0 * t
    BY <1>5, <2>1, <2>2 DEF ShiftLeft, Long
  <2> HIDE DEF q0, r0, q1, r1, t, lo, hi
  <2>5. (r1 * t + q0) % Base = r1 * t + q0
    <3>1. r1 * t + q0 \in Nat /\ Base * 0 = 0
      BY <1>1, <2>1, <2>3
    <3>2. r1 * t + q0 = Base * 0 + (r1 * t + q0)
      BY <3>1
    <3> QED
      BY <1>4, <2>3, <3>1, <3>2
  <2>6. n * t = (Base * Base) * q1 + ((r1 * t + q0) * Base + r0 * t)
    <3>1. (hi * Base + lo) * t = (hi * t) * Base + lo * t
      BY <1>1, <1>2
    <3>2. (q1 * Base + r1 * t) * Base = (Base * Base) * q1 + (r1 * t) * Base
      BY <1>1, <2>2, <2>3
    <3>3. (r1 * t + q0) * Base = (r1 * t) * Base + q0 * Base
      BY <1>1, <2>1, <2>3
    <3>4. (r1 * t) * Base \in Nat /\ q0 * Base \in Nat /\ r0 * t \in Nat /\ (Base * Base) * q1 \in Nat
          /\ (r1 * t + q0) * Base \in Nat
      BY <1>1, <1>2, <2>1, <2>2, <2>3
    <3> QED
      BY <1>1, <2>1, <2>2, <3>1, <3>2, <3>3, <3>4
  <2>7. (r1 * t + q0) * Base + r0 * t < Base * Base
        /\ (r1 * t + q0) * Base + r0 * t \in Nat
    <3>1. \A u \in Nat : u < Base => (u + 1) * Base <= Base * Base /\ (u + 1) * Base = u * Base + Base
                                     /\ u * Base \in Nat
      <4>1. \A u, w, v \in Nat : u <= w => u * v <= w * v
        OBVIOUS
      <4> SUFFICES ASSUME NEW u \in Nat, u < Base
                   PROVE  (u + 1) * Base <= Base * Base /\ (u + 1) * Base = u * Base + Base
                          /\ u * Base \in Nat
        OBVIOUS
      <4>2. u + 1 \in Nat /\ u + 1 <= Base
        BY <1>1
      <4>3. (u + 1) * Base <= Base * Base
        BY <1>1, <4>1, <4>2
      <4> QED
        BY <1>1, <4>3
    <3>2. r1 * t + q0 \in Nat /\ r0 * t \in Nat
      BY <1>2, <2>1, <2>3
    <3> QED
      BY <1>1, <2>1, <2>3, <3>1, <3>2
  <2>8. (n * t) % (Base * Base) = (r1 * t + q0) * Base + r0 * t
    <3>1. n * t \in Int /\ q1 \in Int
      BY <1>1, <1>2, <2>2
    <3> QED
      BY <1>3, <2>6, <2>7, <3>1
  <2> QED
    BY <2>4, <2>5, <2>8 DEF t
<1>6. CASE ~(k < W)
  <2>1. k - W \in Nat /\ k = W + (k - W)
    BY <1>1, <1>6
  <2> DEFINE p == 2^(k - W)
  <2>2. t = Base * p /\ p \in Nat \ {0}
    <3>1. 2^(W + (k - W)) = 2^W * 2^(k - W)
      BY <1>1, <2>1, PowersAdd
    <3> QED
      BY <2>1, <3>1, Powers DEF Base
  <2>3. Lsl(lo, k) = 0
    BY <1>1, <1>6 DEF Lsl
  <2>4. ShiftLeft(n, k) = Lsl(lo, k - W) * Base + 0
    BY <1>6, <2>3 DEF ShiftLeft, Long
  <2>5. Lsl(lo, k - W) = (lo * p) % Base
    <3>1. CASE k - W < W
      BY <1>1, <3>1 DEF Lsl
    <3>2. CASE ~(k - W < W)
      <4>1. k - W - W \in Nat /\ k - W = W + (k - W - W)
        BY <1>1, <2>1, <3>2
      <4>2. p = Base * 2^(k - W - W) /\ 2^(k - W - W) \in Nat
        <5>1. 2^(W + (k - W - W)) = 2^W * 2^(k - W - W)
          BY <1>1, <4>1, PowersAdd
        <5> QED
          BY <4>1, <5>1, Powers DEF Base
      <4> DEFINE s == 2^(k - W - W)
      <4> HIDE DEF s, p, lo
      <4>3. lo * (Base * s) = Base * (lo * s) + 0 /\ lo * s \in Nat /\ lo * (Base * s) \in Int
        BY <1>1, <4>2 DEF s
      <4>4. (lo * p) % Base = 0
        BY <1>1, <1>4, <4>2, <4>3, 0 \in Nat DEF s
      <4> QED
        BY <1>1, <2>1, <3>2, <4>4 DEF Lsl
    <3> QED
      BY <3>1, <3>2
  <2> HIDE DEF p, t, lo, hi
  <2> DEFINE m == (lo * p) % Base
             d == (lo * p) \div Base
  <2>6. lo * p = Base * d + m /\ d \in Nat /\ m \in Nat /\ m < Base
    <3>1. lo * p \in Int /\ lo * p >= 0
      BY <1>1, <2>2
    <3> QED
      BY <1>1, <3>1, DivExists
  <2> HIDE DEF m, d
  <2>7. n * t = (Base * Base) * (hi * p + d) + m * Base
    <3>1. (hi * Base + lo) * (Base * p) = (Base * Base) * (hi * p) + (lo * p) * Base
      BY <1>1, <2>2
    <3>2. (Base * d + m) * Base = (Base * Base) * d + m * Base
      BY <1>1, <2>6
    <3>3. (Base * Base) * (hi * p + d) = (Base * Base) * (hi * p) + (Base * Base) * d
      BY <1>1, <2>2, <2>6
    <3>4. (Base * Base) * (hi * p) \in Nat /\ (Base * Base) * d \in Nat /\ m * Base \in Nat
      BY <1>1, <2>2, <2>6
    <3> QED
      BY <1>1, <2>2, <2>6, <3>1, <3>2, <3>3, <3>4
  <2>8. m * Base < Base * Base /\ m * Base \in Nat
    <3>1. \A u, w, v \in Nat : u < w /\ v # 0 => u * v < w * v
      OBVIOUS
    <3> QED
      BY <1>1, <2>6, <3>1
  <2>9. (n * t) % (Base * Base) = m * Base
    <3>1. n * t \in Int /\ hi * p + d \in Int
      BY <1>1, <1>2, <2>2, <2>6
    <3> QED
      BY <1>3, <2>7, <2>8, <3>1
  <2>10. Lsl(lo, k - W) = m
    BY <2>5 DEF m
  <2> QED
    BY <2>4, <2>8, <2>9, <2>10 DEF t
<1> QED
  BY <1>5, <1>6

\* The lower word of a shift to the right by less than a word.
RightParts(lo, hi, k, p, q0, r0, q1, r1) ==
  /\ p # 0 /\ Base = 2^k * p
  /\ lo = q0 * 2^k + r0 /\ r0 < 2^k /\ hi = q1 * 2^k + r1 /\ r1 < 2^k /\ q1 < p
  /\ Lsr(hi, k) = q1
  /\ r1 * p + q0 < Base /\ r1 * p + q0 \in Nat
  /\ (Lsr(lo, k) + Lsl(hi, W - k)) % Base = r1 * p + q0

\* Both words of a pair have their parts.
LEMMA RightHalf ==
  ASSUME NEW lo \in Nat, lo < Base, NEW hi \in Nat, hi < Base, NEW k \in Nat, k < W
  PROVE  \E p, q0, r0, q1, r1 \in Nat : RightParts(lo, hi, k, p, q0, r0, q1, r1)
<1>1. W \in Nat /\ W - k \in Nat /\ W - k <= W /\ W - (W - k) = k /\ (W - k) + k = W /\ Base \in Nat \ {0}
  BY Limits
<1> DEFINE t == 2^k
           p == 2^(W - k)
           q0 == lo \div t
           r0 == lo % t
           q1 == hi \div t
           r1 == hi % t
<1>2. Halves(lo, W - k, k) /\ Halves(hi, W - k, k)
  BY <1>1, Split
<1>3. /\ lo = q0 * t + r0 /\ q0 \in Nat /\ r0 \in Nat /\ q0 < p /\ r0 < t
      /\ t \in Nat \ {0} /\ p \in Nat \ {0} /\ Base = p * t
  BY <1>2, Zenon DEF Halves
<1>4. hi = q1 * t + r1 /\ q1 \in Nat /\ r1 \in Nat /\ q1 < p /\ r1 < t
  BY <1>2, Zenon DEF Halves
<1>5. Lsr(lo, k) = q0 /\ Lsr(hi, k) = q1
  BY LsrIs
<1>6. Lsl(hi, W - k) = r1 * p
  <2>1. Lsl(hi, W - k) = (hi % 2^(W - (W - k))) * 2^(W - k)
    BY <1>1, LslSplit
  <2> QED
    BY <1>1, <2>1
<1> HIDE DEF q0, r0, q1, r1, p, t
<1>7. r1 * p + q0 < Base /\ r1 * p \in Nat /\ p * t = t * p
  <2>1. \A u, w, v \in Nat : u <= w => u * v <= w * v
    OBVIOUS
  <2>2. r1 + 1 \in Nat /\ r1 + 1 <= t
    BY <1>3, <1>4
  <2>3. (r1 + 1) * p <= t * p
    BY <1>3, <2>1, <2>2
  <2>4. (r1 + 1) * p = r1 * p + p /\ r1 * p \in Nat /\ p * t = t * p
    BY <1>3, <1>4
  <2> QED
    BY <1>1, <1>3, <1>4, <2>3, <2>4
<1>8. (q0 + r1 * p) % Base = r1 * p + q0
  <2>1. r1 * p + q0 \in Nat /\ q0 + r1 * p = r1 * p + q0
    BY <1>3, <1>7
  <2> QED
    BY <1>1, <1>7, <2>1, SmallQuotient
<1>9. r1 * p + q0 \in Nat
  BY <1>3, <1>7
<1>10. (Lsr(lo, k) + Lsl(hi, W - k)) % Base = r1 * p + q0
  BY <1>5, <1>6, <1>8
<1>11. p # 0 /\ Base = t * p
  BY <1>3, <1>7
<1>12. RightParts(lo, hi, k, p, q0, r0, q1, r1)
  BY <1>3, <1>4, <1>5, <1>7, <1>9, <1>10, <1>11, Zenon DEF t, RightParts
<1>13. p \in Nat /\ q0 \in Nat /\ r0 \in Nat /\ q1 \in Nat /\ r1 \in Nat
  BY <1>3, <1>4
<1> QED
  BY <1>12, <1>13, Zenon

\* __lshrdi3 divides by a power of two.
LEMMA ShiftRightIs ==
  ASSUME NEW n \in 0..Base * Base - 1, NEW k \in Nat
  PROVE  ShiftRight(n, k) = n \div 2^k
<1> DEFINE lo == Lo(n)
           hi == Hi(n)
           t == 2^k
<1>1. /\ lo \in Nat /\ lo < Base /\ hi \in Nat /\ hi < Base /\ n = hi * Base + lo
      /\ n \in Nat /\ Base \in Nat \ {0} /\ W \in Nat
  BY LongIs, Limits
<1>2. t \in Nat \ {0}
  BY Powers
<1>3. \A q, r \in Nat : n = t * q + r /\ r < t => n \div t = q
  BY <1>2, DivRule
<1>4. CASE k < W
  <2>0. PICK p, q0, r0, q1, r1 \in Nat : RightParts(lo, hi, k, p, q0, r0, q1, r1)
    BY <1>1, <1>4, RightHalf
  <2>1. /\ p # 0 /\ Base = t * p
        /\ lo = q0 * t + r0 /\ r0 < t /\ hi = q1 * t + r1 /\ r1 < t /\ q1 < p
        /\ Lsr(hi, k) = q1
        /\ r1 * p + q0 < Base /\ r1 * p + q0 \in Nat
        /\ (Lsr(lo, k) + Lsl(hi, W - k)) % Base = r1 * p + q0
    BY <2>0, Zenon DEF RightParts
  <2>2. ShiftRight(n, k) = q1 * Base + (r1 * p + q0)
    BY <1>4, <2>1 DEF ShiftRight, Long
  <2> HIDE DEF lo, hi, t
  <2>3. n = t * (q1 * Base + (r1 * p + q0)) + r0
    <3>1. (q1 * t + r1) * Base = t * (q1 * Base) + r1 * Base
      BY <1>1, <1>2
    <3>2. r1 * (t * p) = t * (r1 * p)
      BY <1>2
    <3>3. t * (q1 * Base + (r1 * p + q0)) = t * (q1 * Base) + t * (r1 * p) + q0 * t
      BY <1>1, <1>2
    <3>4. t * (q1 * Base) \in Nat /\ t * (r1 * p) \in Nat /\ q0 * t \in Nat
      BY <1>1, <1>2
    <3> QED
      BY <1>1, <2>1, <3>1, <3>2, <3>3, <3>4
  <2>4. q1 * Base + (r1 * p + q0) \in Nat
    BY <1>1
  <2> QED
    BY <1>3, <2>1, <2>2, <2>3, <2>4 DEF t
<1>5. CASE ~(k < W)
  <2>1. k - W \in Nat /\ k = W + (k - W)
    BY <1>1, <1>5
  <2> DEFINE p == 2^(k - W)
             q == hi \div p
             r == hi % p
  <2>2. t = Base * p /\ p \in Nat \ {0}
    <3>1. 2^(W + (k - W)) = 2^W * 2^(k - W)
      BY <1>1, <2>1, PowersAdd
    <3> QED
      BY <2>1, <3>1, Powers DEF Base
  <2>3. Lsr(hi, k) = 0 /\ Lsr(hi, k - W) = q
    <3>1. Lsr(hi, k) = 0
      BY <1>1, <1>5 DEF Lsr
    <3> QED
      BY <1>1, <2>1, <3>1, LsrIs
  <2>4. ShiftRight(n, k) = 0 * Base + q
    BY <1>5, <2>3 DEF ShiftRight, Long
  <2>5. hi = p * q + r /\ r < p /\ q \in Nat /\ r \in Nat
    BY <1>1, <2>2, DivNat
  <2> HIDE DEF lo, hi, t, p, q, r
  <2>6. n = t * q + (r * Base + lo) /\ r * Base + lo < t /\ r * Base + lo \in Nat
    <3>1. (p * q + r) * Base = (Base * p) * q + r * Base
      BY <1>1, <2>2, <2>5
    <3>2. (r + 1) * Base <= p * Base /\ (r + 1) * Base = r * Base + Base /\ r * Base \in Nat
          /\ p * Base = Base * p
      <4>1. \A u, w, v \in Nat : u <= w => u * v <= w * v
        OBVIOUS
      <4>2. r + 1 <= p /\ r + 1 \in Nat
        BY <2>2, <2>5
      <4>3. (r + 1) * Base <= p * Base
        BY <1>1, <2>2, <4>1, <4>2
      <4> QED
        BY <1>1, <2>2, <2>5, <4>3
    <3>3. (Base * p) * q \in Nat
      BY <1>1, <2>2, <2>5
    <3> QED
      BY <1>1, <2>2, <2>5, <3>1, <3>2, <3>3
  <2>7. n \div t = q
    BY <1>3, <2>5, <2>6
  <2> QED
    BY <1>1, <2>4, <2>5, <2>7 DEF t
<1> QED
  BY <1>4, <1>5

\* An arithmetic shift down divides the signed number, and rounds down.
LEMMA AsrIs ==
  ASSUME NEW x \in Word, NEW j \in Nat
  PROVE  Asr(x, j) = Unsigned(Signed(x) \div 2^j)
<1>1. W \in Nat /\ 2^j \in Nat \ {0} /\ x \in Nat /\ x < Base /\ Base = 2 * Half /\ Half \in Nat
  BY Limits, Powers DEF Word
<1>2. CASE j < W
  BY <1>1, <1>2 DEF Asr
<1>3. CASE ~(j < W)
  <2>1. 2^j >= Base
    <3>1. 2^W = Base /\ (W < j => 2 * 2^W <= 2^j) /\ Base \in Nat
      BY <1>1, PowersOrder, Limits DEF Base
    <3> QED
      BY <1>1, <1>3, <3>1
  <2>2. Asr(x, j) = Unsigned(IF x >= Half THEN -1 ELSE 0)
    BY <1>1, <1>3 DEF Asr
  <2>3. Signed(x) \div 2^j = IF x >= Half THEN -1 ELSE 0
    <3> DEFINE t == 2^j
    <3>1. \A d, q \in Int, r \in Nat : d = t * q + r /\ r < t => d \div t = q
      BY <1>1, DivUnique
    <3>2. t \in Nat \ {0} /\ t >= Base /\ t * (-1) = -t /\ t * 0 = 0
      BY <1>1, <2>1
    <3> HIDE DEF t
    <3>3. CASE x >= Half
      <4>1. Signed(x) = x - Base
        BY <3>3 DEF Signed
      <4>2. x - Base = t * (-1) + (x - Base + t) /\ x - Base + t \in Nat /\ x - Base + t < t
            /\ x - Base \in Int /\ -1 \in Int
        BY <1>1, <3>2
      <4>3. (x - Base) \div t = -1
        BY <3>1, <4>2
      <4> QED
        BY <3>3, <4>1, <4>3 DEF t
    <3>4. CASE ~(x >= Half)
      <4>1. Signed(x) = x
        BY <3>4 DEF Signed
      <4>2. x = t * 0 + x /\ x < t /\ x \in Int /\ 0 \in Int
        BY <1>1, <3>2
      <4>3. x \div t = 0
        BY <1>1, <3>1, <4>2
      <4> QED
        BY <3>4, <4>1, <4>3 DEF t
    <3> QED
      BY <3>3, <3>4
  <2> QED
    BY <2>2, <2>3
<1> QED
  BY <1>2, <1>3

\* A pair of words as a signed number.
SignedLong(n) == IF n >= Half * Base THEN n - Base * Base ELSE n

\* The sign of a pair of words is that of its upper word.
LEMMA SignedLongIs ==
  ASSUME NEW n \in 0..Base * Base - 1
  PROVE  SignedLong(n) = Signed(Hi(n)) * Base + Lo(n)
<1> DEFINE lo == Lo(n)
           hi == Hi(n)
<1>1. /\ lo \in Nat /\ lo < Base /\ hi \in Nat /\ hi < Base /\ n = hi * Base + lo
      /\ n \in Nat /\ Base \in Nat \ {0} /\ Half \in Nat
  BY LongIs, Limits
<1> HIDE DEF lo, hi
<1>2. n >= Half * Base <=> hi >= Half
  <2>1. \A u, w, v \in Nat : u <= w => u * v <= w * v
    OBVIOUS
  <2>2. Half * Base \in Nat /\ hi * Base \in Nat /\ (hi + 1) * Base = hi * Base + Base
    BY <1>1
  <2>3. hi >= Half => hi * Base >= Half * Base
    BY <1>1, <2>1
  <2>4. hi < Half => (hi + 1) * Base <= Half * Base
    <3>1. hi < Half => hi + 1 <= Half /\ hi + 1 \in Nat
      BY <1>1
    <3> QED
      BY <1>1, <2>1, <3>1
  <2> QED
    BY <1>1, <2>2, <2>3, <2>4
<1>3. (hi - Base) * Base = hi * Base - Base * Base /\ hi * Base \in Nat /\ Base * Base \in Nat
  BY <1>1
<1>4. SignedLong(n) = Signed(hi) * Base + lo
  BY <1>1, <1>2, <1>3 DEF SignedLong, Signed
<1> QED
  BY <1>4 DEF lo, hi

\* __ashrdi3 divides the signed number by a power of two, and rounds down.
LEMMA ShiftRightSignedIs ==
  ASSUME NEW n \in 0..Base * Base - 1, NEW k \in Nat
  PROVE  ShiftRightSigned(n, k) = (SignedLong(n) \div 2^k) % (Base * Base)
<1> DEFINE lo == Lo(n)
           hi == Hi(n)
           h == Signed(hi)
           s == SignedLong(n)
           t == 2^k
<1>1. /\ lo \in Nat /\ lo < Base /\ hi \in Nat /\ hi < Base /\ Base * Base \in Nat \ {0}
      /\ Base \in Nat \ {0} /\ W \in Nat /\ hi \in Word
  BY LongIs, Limits DEF Word
<1>2. t \in Nat \ {0}
  BY Powers
<1>3. /\ h \in Int /\ s = h * Base + lo /\ s \in Int
      /\ h = hi \/ h = hi - Base
      /\ IF h < 0 THEN -Base <= h ELSE h < Base
  <2>1. h \in Int /\ (h = hi \/ h = hi - Base)
    BY <1>1 DEF Signed
  <2>2. s = h * Base + lo
    BY SignedLongIs
  <2> HIDE DEF h, s, lo, hi
  <2>3. h * Base \in Int
    BY <1>1, <2>1
  <2> QED
    BY <1>1, <2>1, <2>2, <2>3
<1>4. \A q \in Int, r \in Nat : s = t * q + r /\ r < t => s \div t = q
  BY <1>2, <1>3, DivUnique
<1>5. \A d, q \in Int, r \in Nat : d = (Base * Base) * q + r /\ r < Base * Base => d % (Base * Base) = r
  BY <1>1, DivUnique
<1>6. Asr(hi, k) = Unsigned(h \div t)
  BY <1>1, AsrIs
<1>7. CASE k < W
  <2>0. PICK p, q0, r0, q1, r1 \in Nat : RightParts(lo, hi, k, p, q0, r0, q1, r1)
    BY <1>1, <1>7, RightHalf
  <2>1. /\ p # 0 /\ Base = t * p
        /\ lo = q0 * t + r0 /\ r0 < t /\ hi = q1 * t + r1 /\ r1 < t /\ q1 < p
        /\ Lsr(hi, k) = q1
        /\ r1 * p + q0 < Base /\ r1 * p + q0 \in Nat
        /\ (Lsr(lo, k) + Lsl(hi, W - k)) % Base = r1 * p + q0
    BY <2>0, Zenon DEF RightParts
  <2>2. ShiftRightSigned(n, k) = Unsigned(h \div t) * Base + (r1 * p + q0)
    BY <1>6, <1>7, <2>1 DEF ShiftRightSigned, Long
  <2> DEFINE m == r1 * p + q0
  <2>3. m \in Nat /\ m < Base
    BY <2>1
  <2> HIDE DEF lo, hi, t, h, s
  <2>4. PICK q \in Int : h = t * q + r1 /\ h \div t = q
    <3>1. CASE h = hi
      <4>1. h = t * q1 + r1 /\ q1 \in Int
        BY <1>2, <2>1, <3>1
      <4>2. h \div t = q1
        BY <1>2, <1>3, <2>1, <4>1, DivUnique
      <4> QED
        BY <4>1, <4>2
    <3>2. CASE h = hi - Base
      <4>1. t * (q1 - p) = q1 * t - t * p /\ q1 * t \in Nat /\ t * p \in Nat
        BY <1>2
      <4>2. h = t * (q1 - p) + r1 /\ q1 - p \in Int
        BY <2>1, <3>2, <4>1
      <4>3. \A j \in Int : h = t * j + r1 => h \div t = j
        BY <1>2, <1>3, <2>1, DivRule
      <4>4. h \div t = q1 - p
        BY <4>2, <4>3
      <4> QED
        BY <4>2, <4>4
    <3> QED
      BY <1>3, <3>1, <3>2
  <2>5. s = t * (q * Base + m) + r0
    <3>1. (t * q + r1) * Base = t * (q * Base) + r1 * Base
      BY <1>1, <1>2
    <3>2. r1 * (t * p) = t * (r1 * p)
      BY <1>2
    <3>3. t * (q * Base + (r1 * p + q0)) = t * (q * Base) + t * (r1 * p) + q0 * t
      BY <1>1, <1>2
    <3>4. t * (q * Base) \in Int /\ t * (r1 * p) \in Nat /\ q0 * t \in Nat
      BY <1>1, <1>2
    <3> QED
      BY <1>1, <1>3, <2>1, <2>4, <3>1, <3>2, <3>3, <3>4
  <2> HIDE DEF m
  <2>6. s \div t = q * Base + m
    <3>1. q * Base + m \in Int
      BY <1>1, <2>3
    <3> QED
      BY <1>4, <2>1, <2>5, <3>1
  <2>7. PICK e \in Int, u \in Nat : q = Base * e + u /\ u < Base /\ Unsigned(q) = u
    <3>1. q \div Base \in Int /\ q % Base \in Nat /\ q = Base * (q \div Base) + (q % Base) /\ q % Base < Base
      BY <1>1, DivExists
    <3> QED
      BY <3>1 DEF Unsigned
  <2>8. q * Base + m = (Base * Base) * e + (u * Base + m)
    <3>1. (Base * e + u) * Base = (Base * Base) * e + u * Base
      BY <1>1
    <3>2. (Base * Base) * e \in Int /\ u * Base \in Nat
      BY <1>1
    <3> QED
      BY <2>3, <2>7, <3>1, <3>2
  <2>9. u * Base + m < Base * Base /\ u * Base + m \in Nat
    <3>1. \A v, w, z \in Nat : v <= w => v * z <= w * z
      OBVIOUS
    <3>2. u + 1 <= Base /\ u + 1 \in Nat
      BY <1>1, <2>7
    <3>3. (u + 1) * Base <= Base * Base
      BY <1>1, <3>1, <3>2
    <3>4. (u + 1) * Base = u * Base + Base /\ u * Base \in Nat
      BY <1>1
    <3> QED
      BY <1>1, <2>3, <3>3, <3>4
  <2>10. (s \div t) % (Base * Base) = u * Base + m
    <3>1. q * Base + m \in Int
      BY <1>1, <2>3
    <3> QED
      BY <1>5, <2>6, <2>8, <2>9, <3>1
  <2>11. ShiftRightSigned(n, k) = u * Base + m
    BY <2>2, <2>4, <2>7 DEF m
  <2> QED
    BY <2>10, <2>11 DEF s, t
<1>8. CASE ~(k < W)
  <2>1. k - W \in Nat /\ k = W + (k - W)
    BY <1>1, <1>8
  <2> DEFINE p == 2^(k - W)
             q == h \div p
             r == h % p
  <2>2. t = Base * p /\ p \in Nat \ {0}
    <3>1. 2^(W + (k - W)) = 2^W * 2^(k - W)
      BY <1>1, <2>1, PowersAdd
    <3> QED
      BY <2>1, <3>1, Powers DEF Base
  <2>3. Asr(hi, k - W) = Unsigned(q)
    BY <1>1, <2>1, AsrIs
  <2>4. ShiftRightSigned(n, k) = Unsigned(h \div t) * Base + Unsigned(q)
    BY <1>6, <1>8, <2>3 DEF ShiftRightSigned, Long
  <2>5. h = p * q + r /\ r < p /\ q \in Int /\ r \in Nat
    BY <1>3, <2>2, DivExists
  <2> HIDE DEF lo, hi, h, s, t, p, q, r
  <2>6. s \div t = q
    <3>1. (p * q + r) * Base = (Base * p) * q + r * Base /\ (Base * p) * q \in Int
      BY <1>1, <2>2, <2>5
    <3>2. (r + 1) * Base <= p * Base /\ (r + 1) * Base = r * Base + Base /\ r * Base \in Nat
          /\ p * Base = Base * p /\ Base * p \in Nat
      <4>1. \A u, w, v \in Nat : u <= w => u * v <= w * v
        OBVIOUS
      <4>2. r + 1 <= p /\ r + 1 \in Nat
        BY <2>2, <2>5
      <4>3. (r + 1) * Base <= p * Base
        BY <1>1, <2>2, <4>1, <4>2
      <4> QED
        BY <1>1, <2>2, <2>5, <4>3
    <3>3. s = t * q + (r * Base + lo) /\ r * Base + lo < t /\ r * Base + lo \in Nat
      BY <1>1, <1>3, <2>2, <2>5, <3>1, <3>2
    <3> QED
      BY <1>4, <2>5, <3>3
  <2>7. CASE h < 0
    <3>1. h \div t = -1
      <4>1. Base <= Base * p /\ Base * p \in Nat /\ t * (-1) = -t
        <5>1. \A u, w \in Nat : w # 0 => u <= u * w /\ u * w \in Nat
          OBVIOUS
        <5> QED
          BY <1>1, <1>2, <2>2, <5>1
      <4>2. h = t * (-1) + (h + t) /\ h + t \in Nat /\ h + t < t /\ -1 \in Int
        BY <1>1, <1>3, <2>2, <2>7, <4>1
      <4>3. \A j \in Int, i \in Nat : h = t * j + i /\ i < t => h \div t = j
        BY <1>2, <1>3, DivUnique
      <4> QED
        BY <4>2, <4>3
    <3>2. q < 0 /\ -Base <= q
      <4>1. q >= 0 => p * q >= 0
        BY <2>2, <2>5
      <4>2. q < -Base => p * q + r < -Base
        <5> SUFFICES ASSUME q < -Base PROVE p * q + r < -Base
          OBVIOUS
        <5>1. \A u, w \in Nat : w # 0 => u <= w * u /\ w * u \in Nat
          OBVIOUS
        <5>2. -q - 1 \in Nat /\ p * (-q - 1) = -(p * q) - p /\ p * q \in Int
          BY <1>1, <2>2, <2>5
        <5>3. -q - 1 <= p * (-q - 1)
          BY <2>2, <5>1, <5>2
        <5> QED
          BY <1>1, <2>2, <2>5, <5>2, <5>3
      <4>3. p * q \in Int
        BY <2>2, <2>5
      <4> QED
        BY <1>1, <1>3, <2>5, <2>7, <4>1, <4>2, <4>3
    <3>3. Unsigned(-1) = Base - 1 /\ Unsigned(q) = q + Base
      <4>1. \A d \in Int, i \in Nat : d = Base * (-1) + i /\ i < Base => d % Base = i
        BY <1>1, DivUnique, -1 \in Int
      <4>2. /\ -1 = Base * (-1) + (Base - 1) /\ Base - 1 \in Nat /\ Base - 1 < Base /\ -1 \in Int
            /\ q = Base * (-1) + (q + Base) /\ q + Base \in Nat /\ q + Base < Base
        BY <1>1, <2>5, <3>2
      <4> QED
        BY <2>5, <4>1, <4>2 DEF Unsigned
    <3>4. (Base - 1) * Base + (q + Base) = Base * Base + q
      <4>1. (Base - 1) * Base = Base * Base - Base
        BY <1>1
      <4> QED
        BY <1>1, <2>5, <4>1
    <3>5. q % (Base * Base) = Base * Base + q
      <4>1. Base <= Base * Base /\ (Base * Base) * (-1) = -(Base * Base) /\ Base * Base \in Nat
        <5>1. \A u \in Nat \ {0} : u <= u * u
          OBVIOUS
        <5> QED
          BY <1>1, <5>1
      <4>2. q = (Base * Base) * (-1) + (Base * Base + q) /\ Base * Base + q \in Nat
            /\ Base * Base + q < Base * Base /\ -1 \in Int
        BY <1>1, <2>5, <3>2, <4>1
      <4> QED
        BY <1>5, <2>5, <4>2
    <3> QED
      BY <2>4, <2>6, <3>1, <3>3, <3>4, <3>5 DEF s, t
  <2>8. CASE ~(h < 0)
    <3>1. h \div t = 0
      <4>1. Base <= Base * p /\ Base * p \in Nat
        <5>1. \A u, w \in Nat : w # 0 => u <= u * w /\ u * w \in Nat
          OBVIOUS
        <5> QED
          BY <1>1, <2>2, <5>1
      <4>2. h \in Nat /\ h < t
        BY <1>1, <1>3, <2>2, <2>8, <4>1
      <4> QED
        BY <1>2, <4>2, SmallQuotient
    <3>2. q >= 0 /\ q < Base
      <4>1. q < 0 => p * q + r < 0
        <5> SUFFICES ASSUME q < 0 PROVE p * q + r < 0
          OBVIOUS
        <5>1. \A u \in Nat : p * u >= 0 /\ p * u \in Nat
          BY <2>2
        <5>2. -q - 1 \in Nat /\ p * (-q - 1) = -(p * q) - p /\ p * q \in Int
          BY <2>2, <2>5
        <5>3. p * (-q - 1) >= 0
          BY <5>1, <5>2
        <5> QED
          BY <2>2, <2>5, <5>2, <5>3
      <4>2. q >= 0 => q <= p * q
        BY <2>2, <2>5
      <4>3. p * q \in Int
        BY <2>2, <2>5
      <4> QED
        BY <1>1, <1>3, <2>5, <2>8, <4>1, <4>2, <4>3
    <3>3. q \in Nat /\ q < Base /\ q < Base * Base
      <4>1. \A u \in Nat \ {0} : u <= u * u /\ u * u \in Nat
        OBVIOUS
      <4> QED
        BY <1>1, <2>5, <3>2, <4>1
    <3>4. Unsigned(0) = 0 /\ Unsigned(q) = q
      BY <1>1, <3>3, NegIs, 0 \in Nat
    <3>5. q % (Base * Base) = q
      BY <1>1, <3>3, SmallQuotient
    <3>6. 0 * Base + q = q
      BY <1>1, <2>5
    <3> QED
      BY <2>4, <2>6, <3>1, <3>4, <3>5, <3>6 DEF s, t
  <2> QED
    BY <2>7, <2>8
<1> QED
  BY <1>7, <1>8
----------------------------------------------------------------------------
(***************************************************************************)
(* Times.                                                                  *)
(***************************************************************************)
\* A word differs from the number it stands for by a multiple of the base.
LEMMA UnsignedIs ==
  ASSUME NEW i \in Int
  PROVE  \E e \in Int : Unsigned(i) = i + Base * e /\ Unsigned(i) \in Nat /\ Unsigned(i) < Base
<1>1. Base \in Nat \ {0}
  BY Limits
<1> DEFINE q == i \div Base
           r == i % Base
<1>2. q \in Int /\ r \in Nat /\ i = Base * q + r /\ r < Base
  BY <1>1, DivExists
<1>3. Unsigned(i) = r
  BY DEF Unsigned
<1> HIDE DEF q, r
<1>4. Base * (-q) = -(Base * q) /\ -q \in Int /\ Base * q \in Int
  BY <1>1, <1>2
<1>5. r = i + Base * (-q)
  BY <1>2, <1>4
<1> QED
  BY <1>2, <1>3, <1>4, <1>5

\* A number in the range of a signed word survives being stored in a word.
LEMMA SignedUnsigned ==
  ASSUME NEW i \in Int, -Half <= i, i < Half
  PROVE  Signed(Unsigned(i)) = i
<1>1. Base \in Nat \ {0} /\ Half \in Nat /\ Base = 2 * Half
  BY Limits
<1>2. CASE i >= 0
  <2>1. i = Base * 0 + i /\ i < Base /\ i \in Nat
    BY <1>1, <1>2
  <2>2. i % Base = i
    BY <1>1, <2>1, SmallQuotient
  <2> QED
    BY <1>1, <2>1, <2>2 DEF Signed, Unsigned
<1>3. CASE i < 0
  <2>1. i = Base * (-1) + (i + Base) /\ i + Base < Base /\ i + Base \in Nat /\ -1 \in Int
    BY <1>1, <1>3
  <2>2. i % Base = i + Base
    BY <1>1, <2>1, DivRule
  <2>3. i + Base >= Half
    BY <1>1
  <2> QED
    BY <1>1, <2>2, <2>3 DEF Signed, Unsigned
<1> QED
  BY <1>2, <1>3

\* A million is below the sign bit.
LEMMA MillionIs ==
  Million \in Nat \ {0} /\ Million <= Half
BY ArithmeticAssumption, Limits DEF Half

\* CmpTime orders times that are not too far apart (timerfuncs.c).
LEMMA CmpTimeIs ==
  ASSUME NEW s \in [secs : Word, micro : Word], NEW d \in [secs : Word, micro : Word],
         Abs(s.secs - d.secs) < Half, s.micro < Million, d.micro < Million
  PROVE  CmpTime(s, d) = Sign(Micros(s) - Micros(d))
<1> DEFINE i == s.secs - d.secs
           j == s.micro - d.micro
           m == Million
<1>1. i \in Int /\ j \in Int /\ s.secs \in Nat /\ d.secs \in Nat /\ s.micro \in Nat /\ d.micro \in Nat
  BY Limits DEF Word
<1>2. m \in Nat \ {0} /\ Half \in Nat /\ -Half <= i /\ i < Half /\ -m < j /\ j < m /\ -Half <= j /\ j < Half
  BY <1>1, MillionIs, Limits DEF Abs
<1>3. Micros(s) - Micros(d) = i * m + j
  <2>1. (s.secs - d.secs) * m = s.secs * m - d.secs * m /\ s.secs * m \in Nat /\ d.secs * m \in Nat
    BY <1>1, <1>2
  <2> QED
    BY <1>1, <2>1 DEF Micros
<1>4. CmpTime(s, d) = Sign(Signed(Unsigned(IF i = 0 THEN j ELSE i)))
  <2>1. d.secs = s.secs <=> i = 0
    BY <1>1
  <2>2. Signed(Unsigned(IF i = 0 THEN j ELSE i)) = IF i = 0 THEN j ELSE i
    BY <1>1, <1>2, SignedUnsigned
  <2> QED
    BY <2>1, <2>2 DEF CmpTime, Sign
<1> HIDE DEF i, j, m
<1>5. Signed(Unsigned(IF i = 0 THEN j ELSE i)) = IF i = 0 THEN j ELSE i
  BY <1>1, <1>2, SignedUnsigned
<1>6. CASE i = 0
  <2>1. i * m + j = j
    BY <1>1, <1>2, <1>6
  <2> QED
    BY <1>3, <1>4, <1>5, <1>6, <2>1
<1>7. CASE i > 0
  <2>1. i * m >= m
    <3>1. \A u, w \in Nat : u # 0 => u * w >= w
      OBVIOUS
    <3> QED
      BY <1>1, <1>2, <1>7, <3>1
  <2>2. i * m + j > 0 /\ i * m \in Int
    BY <1>1, <1>2, <2>1
  <2> QED
    BY <1>1, <1>3, <1>4, <1>5, <1>7, <2>2 DEF Sign
<1>8. CASE i < 0
  <2>1. i * m <= -m
    <3>1. \A u, w \in Nat : u # 0 => u * w >= w
      OBVIOUS
    <3>2. -i \in Nat /\ -i # 0 /\ (-i) * m = -(i * m) /\ i * m \in Int
      BY <1>1, <1>2, <1>8
    <3>3. (-i) * m >= m
      BY <1>2, <3>1, <3>2
    <3> QED
      BY <1>2, <3>2, <3>3
  <2>2. i * m + j < 0 /\ i * m \in Int
    BY <1>1, <1>2, <2>1
  <2> QED
    BY <1>1, <1>3, <1>4, <1>5, <1>8, <2>2 DEF Sign
<1> QED
  BY <1>1, <1>6, <1>7, <1>8

\* Two numbers of microseconds that differ by whole rounds of the seconds.
Wrapped(i, j) == \E e \in Int : i = j + (Base * Million) * e

\* What differs by whole rounds of the clock is congruent.
LEMMA WrappedIs ==
  ASSUME NEW i \in Int, NEW j \in Int, Wrapped(i, j)
  PROVE  (i - j) % (Base * Million) = 0
<1>1. PICK e \in Int : i = j + (Base * Million) * e
  BY DEF Wrapped
<1> DEFINE b == Base * Million
<1>2. b \in Nat \ {0}
  <2>1. \A u, w \in Nat \ {0} : u * w \in Nat \ {0}
    OBVIOUS
  <2> QED
    BY <2>1, Limits, MillionIs
<1>3. i = j + b * e
  BY <1>1
<1> HIDE DEF b
<1>4. i - j = b * e + 0 /\ i - j \in Int /\ 0 \in Nat /\ 0 < b
  BY <1>2, <1>3
<1>5. (i - j) % b = 0
  BY <1>2, <1>4, DivRule
<1> QED
  BY <1>5 DEF b

\* A time made of seconds that differ from s by rounds.
LEMMA MicrosWrapped ==
  ASSUME NEW s \in Int, NEW e \in Int, NEW m \in Int, NEW t, t.secs = s + Base * e, t.micro = m
  PROVE  Micros(t) \in Int /\ Wrapped(Micros(t), s * Million + m)
<1> DEFINE k == Million
           b == Base
<1>1. k \in Nat /\ b \in Nat
  BY MillionIs, Limits
<1>2. Micros(t) = (s + b * e) * k + m
  BY DEF Micros
<1>3. Base * Million = b * k
  OBVIOUS
<1> HIDE DEF k, b
<1>4. (s + b * e) * k = s * k + (b * k) * e /\ s * k \in Int /\ (b * k) * e \in Int
  BY <1>1
<1>5. Micros(t) \in Int /\ Micros(t) = (s * k + m) + (b * k) * e
  BY <1>2, <1>4
<1> QED
  BY <1>3, <1>5 DEF Wrapped, k

\* Carry moves whole seconds from the microseconds to the seconds.
LEMMA CarryIs ==
  ASSUME NEW t, t.secs \in Nat, t.micro \in Nat
  PROVE  \E q, r \in Nat, e \in Int :
           /\ r < Million /\ t.micro = Million * q + r
           /\ Carry(t).micro = r /\ Carry(t).secs = t.secs + q + Base * e
           /\ Carry(t).secs \in Nat
<1>1. PICK q, r \in Nat : /\ t.micro \div Million = q /\ t.micro % Million = r
                          /\ t.micro = Million * q + r /\ r < Million
  BY MillionIs, DivNat
<1>2. t.secs + q \in Int
  OBVIOUS
<1>3. PICK e \in Int : /\ Unsigned(t.secs + q) = (t.secs + q) + Base * e
                       /\ Unsigned(t.secs + q) \in Nat
  BY <1>2, UnsignedIs
<1>4. Carry(t).secs = Unsigned(t.secs + q) /\ Carry(t).micro = r
  BY <1>1 DEF Carry
<1> QED
  BY <1>1, <1>3, <1>4

\* AddTime adds (timerfuncs.c).
LEMMA AddTimeIs ==
  ASSUME NEW s \in [secs : Word, micro : Word], NEW d \in [secs : Word, micro : Word],
         s.micro + d.micro < Base
  PROVE  /\ AddTime(s, d).micro < Million
         /\ (Micros(AddTime(s, d)) - Micros(s) - Micros(d)) % (Base * Million) = 0
<1> DEFINE t == [secs |-> Unsigned(d.secs + s.secs), micro |-> Unsigned(d.micro + s.micro)]
           k == Million
           z == AddTime(s, d)
<1>1. s.secs \in Nat /\ d.secs \in Nat /\ s.micro \in Nat /\ d.micro \in Nat /\ k \in Nat \ {0}
      /\ Base \in Nat
  BY Limits, MillionIs DEF Word
<1>2. Unsigned(d.micro + s.micro) = d.micro + s.micro
  <2>1. d.micro + s.micro \in Nat /\ d.micro + s.micro < Base
    BY <1>1
  <2> QED
    BY <2>1, NegIs
<1>3. PICK e \in Int : /\ Unsigned(d.secs + s.secs) = (d.secs + s.secs) + Base * e
                       /\ Unsigned(d.secs + s.secs) \in Nat
  BY <1>1, UnsignedIs, d.secs + s.secs \in Int
<1>4. /\ t.secs = (d.secs + s.secs) + Base * e /\ t.secs \in Nat
      /\ t.micro = d.micro + s.micro /\ t.micro \in Nat
  BY <1>1, <1>2, <1>3
<1>5. z = Carry(t)
  BY DEF AddTime
<1> HIDE DEF t
<1>6. PICK q, r \in Nat, f \in Int :
        /\ r < Million /\ t.micro = Million * q + r
        /\ Carry(t).micro = r /\ Carry(t).secs = t.secs + q + Base * f
  BY <1>4, CarryIs
<1> HIDE DEF z
<1>7. z.secs = ((d.secs + s.secs) + q) + Base * (e + f)
  <2>1. Base * (e + f) = Base * e + Base * f /\ Base * e \in Int /\ Base * f \in Int
    BY <1>1
  <2> QED
    BY <1>1, <1>4, <1>5, <1>6, <2>1
<1>8. z.micro = r
  BY <1>5, <1>6
<1>9. Micros(z) \in Int /\ Wrapped(Micros(z), ((d.secs + s.secs) + q) * Million + r)
  <2>1. (d.secs + s.secs) + q \in Int /\ e + f \in Int /\ r \in Int
    BY <1>1
  <2> QED
    BY <1>7, <1>8, <2>1, MicrosWrapped
<1>10. ((d.secs + s.secs) + q) * k + r = Micros(s) + Micros(d) /\ Micros(s) \in Int /\ Micros(d) \in Int
  <2>1. ((d.secs + s.secs) + q) * k = d.secs * k + s.secs * k + k * q
    BY <1>1
  <2>2. d.secs * k \in Nat /\ s.secs * k \in Nat /\ k * q \in Nat
    BY <1>1
  <2>3. d.micro + s.micro = k * q + r
    BY <1>4, <1>6
  <2>4. Micros(s) = s.secs * k + s.micro /\ Micros(d) = d.secs * k + d.micro
    BY DEF Micros
  <2> HIDE DEF k
  <2> QED
    BY <1>1, <2>1, <2>2, <2>3, <2>4
<1>11. (Micros(z) - (Micros(s) + Micros(d))) % (Base * Million) = 0
  <2>1. Wrapped(Micros(z), Micros(s) + Micros(d)) /\ Micros(s) + Micros(d) \in Int
    BY <1>9, <1>10
  <2> QED
    BY <1>9, <2>1, WrappedIs
<1>12. Micros(z) - (Micros(s) + Micros(d)) = Micros(z) - Micros(s) - Micros(d)
  BY <1>9, <1>10
<1> QED
  BY <1>6, <1>8, <1>11, <1>12 DEF z

\* A time that Carry has normalised is the same time.
LEMMA CarryKeeps ==
  ASSUME NEW s \in [secs : Word, micro : Word]
  PROVE  /\ Carry(s).micro < Million
         /\ (Micros(Carry(s)) - Micros(s)) % (Base * Million) = 0
<1> DEFINE k == Million
           x == Carry(s)
<1>1. s.secs \in Nat /\ s.micro \in Nat /\ k \in Nat \ {0} /\ Base \in Nat
  BY Limits, MillionIs DEF Word
<1>2. PICK q, r \in Nat, e \in Int :
        /\ r < Million /\ s.micro = Million * q + r
        /\ x.micro = r /\ x.secs = s.secs + q + Base * e /\ x.secs \in Nat
  BY <1>1, CarryIs
<1> HIDE DEF x
<1>3. Micros(x) \in Int /\ Wrapped(Micros(x), (s.secs + q) * Million + r)
  <2>1. s.secs + q \in Int /\ x.secs = (s.secs + q) + Base * e /\ r \in Int
    BY <1>1, <1>2
  <2> QED
    BY <1>2, <2>1, MicrosWrapped
<1>4. (s.secs + q) * k + r = Micros(s) /\ Micros(s) \in Int
  <2>1. (s.secs + q) * k = s.secs * k + k * q /\ s.secs * k \in Nat /\ k * q \in Nat
    BY <1>1
  <2>2. s.micro = k * q + r
    BY <1>2
  <2>3. Micros(s) = s.secs * k + s.micro
    BY DEF Micros
  <2> HIDE DEF k
  <2> QED
    BY <1>1, <2>1, <2>2, <2>3
<1>5. (Micros(x) - Micros(s)) % (Base * Million) = 0
  BY <1>3, <1>4, WrappedIs
<1> QED
  BY <1>2, <1>5 DEF x

\* SubTime subtracts (timerfuncs.c).
LEMMA SubTimeIs ==
  ASSUME NEW s \in [secs : Word, micro : Word], NEW d \in [secs : Word, micro : Word]
  PROVE  /\ SubTime(s, d).dst.micro \in 0..Million - 1
         /\ (Micros(SubTime(s, d).dst) - Micros(d) + Micros(s)) % (Base * Million) = 0
<1> DEFINE k == Million
           x == Carry(s)
           y == Carry(d)
           w == IF y.micro < x.micro THEN 1 ELSE 0
           z == SubTime(s, d).dst
<1>1. s.secs \in Nat /\ d.secs \in Nat /\ s.micro \in Nat /\ d.micro \in Nat /\ k \in Nat \ {0}
      /\ Base \in Nat
  BY Limits, MillionIs DEF Word
<1>2. PICK qs, rs \in Nat, es \in Int :
        /\ rs < Million /\ s.micro = Million * qs + rs
        /\ x.micro = rs /\ x.secs = s.secs + qs + Base * es /\ x.secs \in Nat
  BY <1>1, CarryIs
<1>3. PICK qd, rd \in Nat, ed \in Int :
        /\ rd < Million /\ d.micro = Million * qd + rd
        /\ y.micro = rd /\ y.secs = d.secs + qd + Base * ed /\ y.secs \in Nat
  BY <1>1, CarryIs
<1>4. z = [secs |-> Unsigned(y.secs - w - x.secs), micro |-> y.micro + w * Million - x.micro]
  BY DEF SubTime
<1>5. w \in {0, 1} /\ (rd < rs <=> w = 1)
  BY <1>2, <1>3
<1> HIDE DEF w, x, y, z
<1>6. y.secs - w - x.secs \in Int
  BY <1>2, <1>3, <1>5
<1>7. PICK e \in Int : Unsigned(y.secs - w - x.secs) = (y.secs - w - x.secs) + Base * e
  BY <1>6, UnsignedIs
<1> DEFINE m == rd + w * k - rs
           h == (d.secs + qd) - w - (s.secs + qs)
<1>8. z.micro = m /\ m \in Nat /\ m < k
  <2>1. w = 0 => w * k = 0
    BY <1>1
  <2>2. w = 1 => w * k = k
    BY <1>1
  <2>3. z.micro = m
    BY <1>2, <1>3, <1>4
  <2> HIDE DEF z
  <2> QED
    BY <1>1, <1>2, <1>3, <1>5, <2>1, <2>2, <2>3
<1>9. z.secs = h + Base * (ed - es + e)
  <2>1. Base * (ed - es + e) = Base * ed - Base * es + Base * e
    BY <1>1
  <2>2. Base * ed \in Int /\ Base * es \in Int /\ Base * e \in Int
    BY <1>1
  <2>3. z.secs = (y.secs - w - x.secs) + Base * e
    BY <1>4, <1>7
  <2> QED
    BY <1>1, <1>2, <1>3, <1>5, <2>1, <2>2, <2>3
<1>10. Micros(z) \in Int /\ Wrapped(Micros(z), h * Million + m)
  <2>1. h \in Int /\ ed - es + e \in Int /\ m \in Int
    BY <1>1, <1>5, <1>8
  <2> HIDE DEF h, m
  <2> QED
    BY <1>8, <1>9, <2>1, MicrosWrapped
<1>11. h * k + m = Micros(d) - Micros(s) /\ Micros(s) \in Int /\ Micros(d) \in Int
  <2>1. ((d.secs + qd) - w - (s.secs + qs)) * k = d.secs * k + k * qd - w * k - s.secs * k - k * qs
    BY <1>1, <1>5
  <2>2. /\ d.secs * k \in Nat /\ s.secs * k \in Nat /\ k * qd \in Nat /\ k * qs \in Nat /\ w * k \in Nat
    BY <1>1, <1>5
  <2>3. d.micro = k * qd + rd /\ s.micro = k * qs + rs
    BY <1>2, <1>3
  <2>4. Micros(s) = s.secs * k + s.micro /\ Micros(d) = d.secs * k + d.micro
    BY DEF Micros
  <2> HIDE DEF k
  <2> QED
    BY <1>1, <2>1, <2>2, <2>3, <2>4
<1>12. (Micros(z) - (Micros(d) - Micros(s))) % (Base * Million) = 0
  <2>1. Wrapped(Micros(z), Micros(d) - Micros(s)) /\ Micros(d) - Micros(s) \in Int
    BY <1>10, <1>11
  <2> QED
    BY <1>10, <2>1, WrappedIs
<1>13. Micros(z) - (Micros(d) - Micros(s)) = Micros(z) - Micros(d) + Micros(s)
  BY <1>10, <1>11
<1>14. z.micro \in 0..Million - 1
  BY <1>1, <1>8
<1> QED
  BY <1>12, <1>13, <1>14 DEF z
----------------------------------------------------------------------------
(***************************************************************************)
(* Division of a pair of words.                                            *)
(***************************************************************************)
LEMMA PowerOnce ==
  ASSUME NEW m \in Nat, NEW n \in Nat, 2^m = 2^n
  PROVE  m = n
<1>1. 2^m \in Nat \ {0} /\ (m < n => 2 * 2^m <= 2^n) /\ (n < m => 2 * 2^n <= 2^m)
  BY Powers, PowersOrder
<1> QED
  BY <1>1

\* and leaves the time it subtracts what it was.
LEMMA SubTimeKeeps ==
  ASSUME NEW s \in [secs : Word, micro : Word], NEW d \in [secs : Word, micro : Word]
  PROVE  /\ SubTime(s, d).src.micro < Million
         /\ (Micros(SubTime(s, d).src) - Micros(s)) % (Base * Million) = 0
<1>1. SubTime(s, d).src = Carry(s)
  BY DEF SubTime
<1> QED
  BY <1>1, CarryKeeps

\* Pairs with another divisor, and with another remainder.
Scaled(x, b, d) == [x EXCEPT !.b = b, !.d = d]
Less(x, rem, res) == [x EXCEPT !.rem = rem, !.res = res]

IsScaled(y, x, i, j) == y \in Pairs /\ y.rem = x.rem /\ y.res = x.res /\ y.b = i /\ y.d = j

\* What Scaled changes, and what it leaves.
LEMMA ScaledIs ==
  ASSUME NEW x \in Pairs, NEW i \in Nat, NEW j \in Nat
  PROVE  IsScaled(Scaled(x, i, j), x, i, j)
BY DEF IsScaled, Scaled, Pairs

IsLess(y, x, i, j) == y \in Pairs /\ y.rem = i /\ y.res = j /\ y.b = x.b /\ y.d = x.d

\* What Less changes, and what it leaves.
LEMMA LessIs ==
  ASSUME NEW x \in Pairs, NEW i \in Nat, NEW j \in Nat
  PROVE  IsLess(Less(x, i, j), x, i, j)
BY DEF IsLess, Less, Pairs

\* The divisor b has been doubled k times, and it divides what res leaves of n.
Scale(x, b, n, k) ==
  /\ x \in Pairs /\ x.d = 2^k /\ x.b = b * 2^k /\ x.b < Base * Base
  /\ x.rem + b * x.res = n

\* The numbers of a pair of words.
LEMMA Squares ==
  /\ Base * Base \in Nat \ {0} /\ Base * Base = 2^(W + W) /\ Base * Base = 2 * (Half * Base)
  /\ Half * Base \in Nat /\ W + W \in Nat
<1>1. W \in Nat /\ Half \in Nat /\ Base \in Nat \ {0} /\ Base = 2 * Half /\ Base = 2^W
  BY Limits DEF Base
<1>2. Base * Base = 2^(W + W)
  BY <1>1, PowersAdd
<1>3. (2 * Half) * Base = 2 * (Half * Base) /\ Half * Base \in Nat
  BY <1>1
<1>4. Base * Base \in Nat \ {0}
  <2>1. \A u \in Nat \ {0} : u * u \in Nat \ {0}
    OBVIOUS
  <2> QED
    BY <1>1, <2>1
<1> QED
  BY <1>1, <1>2, <1>3, <1>4

\* A divisor scaled by 2^k is a pair of words, and so is 2^k.
LEMMA ScaleBound ==
  ASSUME NEW b \in Nat \ {0}, NEW n \in Nat, NEW k \in Nat, NEW x, Scale(x, b, n, k)
  PROVE  /\ 2^k \in Nat \ {0} /\ b * 2^k \in Nat \ {0} /\ 2^k <= b * 2^k /\ k < W + W
         /\ x.rem \in Nat /\ x.res \in Nat
<1>1. 2^k \in Nat \ {0}
  BY Powers
<1>2. b * 2^k \in Nat \ {0} /\ 2^k <= b * 2^k
  <2>1. \A u, w \in Nat \ {0} : u * w \in Nat \ {0} /\ w <= u * w
    OBVIOUS
  <2> QED
    BY <1>1, <2>1
<1>3. 2^k < 2^(W + W) /\ 2^(W + W) \in Nat
  BY <1>1, <1>2, Squares DEF Scale
<1>4. k < W + W
  <2>1. W + W \in Nat
    BY Squares
  <2>2. W + W < k => 2 * 2^(W + W) <= 2^k
    BY <2>1, PowersOrder
  <2>3. CASE W + W = k
    BY <1>3, <2>3, <1>1
  <2>4. CASE W + W < k
    BY <1>1, <1>3, <2>2, <2>4
  <2> QED
    BY <2>1, <2>3, <2>4
<1> QED
  BY <1>1, <1>2, <1>4 DEF Scale, Pairs

\* A variant for both loops: how often the divisor has been doubled.
Doublings(x) == CHOOSE k \in Nat : x.d = 2^k

\* The power by which the divisor is scaled can be read off.
LEMMA DoublingsIs ==
  ASSUME NEW b, NEW n, NEW k \in Nat, NEW x, Scale(x, b, n, k)
  PROVE  Doublings(x) = k
<1>1. x.d = 2^k
  BY DEF Scale
<1>2. \A m \in Nat : x.d = 2^m => m = k
  BY <1>1, PowerOnce
<1> QED
  BY <1>1, <1>2 DEF Doublings

DoubleRound == [x \in Pairs |-> IF x.b > 0 /\ x.b < Half * Base /\ x.b < x.rem
                                THEN Scaled(x, (x.b + x.b) % (Base * Base), (x.d + x.d) % (Base * Base))
                                ELSE x]

\* One round of doubling.
LEMMA DoubleOnce ==
  ASSUME NEW b \in Nat \ {0}, NEW n \in Nat, NEW k \in Nat, NEW x, Scale(x, b, n, k),
         x.b > 0 /\ x.b < Half * Base /\ x.b < x.rem
  PROVE  /\ Scale(DoubleRound[x], b, n, k + 1) /\ DoubleRound[x] # x
         /\ DoubleRound[x].rem = x.rem
<1> DEFINE c == 2^k
<1>1. c \in Nat \ {0} /\ b * c \in Nat \ {0} /\ c <= b * c
  BY ScaleBound
<1>2. x \in Pairs /\ x.d = c /\ x.b = b * c /\ x.rem + b * x.res = n
  BY DEF Scale
<1>3. DoubleRound[x] = Scaled(x, (x.b + x.b) % (Base * Base), (x.d + x.d) % (Base * Base))
  BY <1>2 DEF DoubleRound
<1>4. 2^(k + 1) = 2 * c
  BY Powers
<1> HIDE DEF c
<1>5. b * (2 * c) = 2 * (b * c)
  BY <1>1
<1>6. x.b + x.b = 2 * (b * c) /\ x.d + x.d = 2 * c /\ 2 * (b * c) < Base * Base /\ 2 * c < Base * Base
      /\ 2 * (b * c) \in Nat /\ 2 * c \in Nat
  BY <1>1, <1>2, Squares
<1>7. (x.b + x.b) % (Base * Base) = 2 * (b * c) /\ (x.d + x.d) % (Base * Base) = 2 * c
  BY <1>6, Squares, SmallQuotient
<1> DEFINE y == DoubleRound[x]
<1>8. y \in Pairs /\ y.rem = x.rem /\ y.res = x.res /\ y.b = 2 * (b * c) /\ y.d = 2 * c
  <2>1. y = Scaled(x, 2 * (b * c), 2 * c)
    BY <1>3, <1>7
  <2> HIDE DEF y
  <2>2. 2 * (b * c) \in Nat /\ 2 * c \in Nat /\ x \in Pairs
    BY <1>2, <1>6
  <2>3. IsScaled(y, x, 2 * (b * c), 2 * c)
    BY <2>1, <2>2, ScaledIs, Zenon
  <2> QED
    BY <2>3 DEF IsScaled
<1> HIDE DEF y
<1>9. Scale(y, b, n, k + 1)
  BY <1>2, <1>4, <1>5, <1>6, <1>8 DEF Scale
<1>10. y # x
  BY <1>1, <1>2, <1>8
<1> QED
  BY <1>8, <1>9, <1>10 DEF y

\* The divisor is doubled until it is more than half of what remains.
LEMMA DoubledIs ==
  ASSUME NEW b \in Nat \ {0}, NEW n \in Nat, n < Base * Base, NEW p, Scale(p, b, n, 0)
  PROVE  \E k \in Nat : Scale(Doubled(p), b, n, k) /\ Doubled(p).rem < 2 * Doubled(p).b
<1> DEFINE I == {x \in Pairs : \E k \in Nat : Scale(x, b, n, k)}
           v == [x \in I |-> W + W - Doublings(x)]
           z == Doubled(p)
<1>1. ASSUME NEW x \in I PROVE v[x] \in Nat /\ v[x] <= W + W /\ Doublings(x) \in Nat
  <2>1. PICK k \in Nat : Scale(x, b, n, k)
    OBVIOUS
  <2>2. Doublings(x) = k /\ k < W + W
    BY <2>1, DoublingsIs, ScaleBound
  <2>3. v[x] = W + W - Doublings(x)
    OBVIOUS
  <2> HIDE DEF v, I
  <2> QED
    BY <2>2, <2>3, Limits
<1>2. v \in [I -> Nat]
  BY <1>1
<1>3. ASSUME NEW x \in I, x.b > 0 /\ x.b < Half * Base /\ x.b < x.rem
      PROVE  DoubleRound[x] \in I /\ DoubleRound[x] # x /\ v[DoubleRound[x]] < v[x]
  <2>1. PICK k \in Nat : Scale(x, b, n, k)
    OBVIOUS
  <2>2. Scale(DoubleRound[x], b, n, k + 1) /\ DoubleRound[x] # x /\ k + 1 \in Nat
    BY <1>3, <2>1, DoubleOnce
  <2>3. DoubleRound[x] \in I
    BY <2>2 DEF Scale
  <2>4. Doublings(x) = k /\ Doublings(DoubleRound[x]) = k + 1
    BY <2>1, <2>2, DoublingsIs
  <2>5. v[x] = W + W - k /\ v[DoubleRound[x]] = W + W - (k + 1)
    BY <2>3, <2>4
  <2>6. k < W + W
    BY <2>1, ScaleBound
  <2> HIDE DEF v, I
  <2> QED
    BY <2>2, <2>3, <2>5, <2>6, Limits
<1>4. ASSUME NEW x \in I, ~(x.b > 0 /\ x.b < Half * Base /\ x.b < x.rem)
      PROVE  DoubleRound[x] = x
  BY <1>4 DEF DoubleRound
<1>5. p \in I
  BY DEF Scale
<1>6. z = Rounds(DoubleRound, p, W + W)
  BY DEF Doubled, DoubleRound, Scaled
<1> HIDE DEF v, z
<1>7. ASSUME NEW x \in I PROVE DoubleRound[x] \in I /\ (DoubleRound[x] = x \/ v[DoubleRound[x]] < v[x])
  BY <1>3, <1>4
<1>8. v[p] <= W + W
  BY <1>1, <1>5
<1> HIDE DEF I
<1>9. z \in I /\ DoubleRound[z] = z
  BY <1>2, <1>5, <1>6, <1>7, <1>8, LoopEnds, Squares
<1>10. PICK k \in Nat : Scale(z, b, n, k)
  BY <1>9 DEF I
<1>11. ~(z.b > 0 /\ z.b < Half * Base /\ z.b < z.rem)
  BY <1>3, <1>9
<1>12. z.rem < 2 * z.b
  <2>1. z.b \in Nat \ {0} /\ z.rem \in Nat /\ z.res \in Nat /\ z.rem + b * z.res = n
    BY <1>10, ScaleBound DEF Scale
  <2>2. b * z.res \in Nat
    BY <2>1
  <2>3. z.rem <= n
    BY <2>1, <2>2
  <2> QED
    BY <1>11, <2>1, <2>3, Squares
<1> QED
  BY <1>10, <1>12 DEF z

\* A subtraction leaves less than the divisor.
LEMMA TakenIs ==
  ASSUME NEW b \in Nat \ {0}, NEW n \in Nat, NEW k \in Nat, NEW x, Scale(x, b, n, k), x.rem < 2 * x.b
  PROVE  Scale(Taken(x), b, n, k) /\ Taken(x).rem < x.b /\ Taken(x).b = x.b /\ Taken(x).d = x.d
<1> DEFINE c == 2^k
<1>1. c \in Nat \ {0} /\ b * c \in Nat \ {0} /\ x.rem \in Nat /\ x.res \in Nat
  BY ScaleBound
<1>2. x \in Pairs /\ x.d = c /\ x.b = b * c /\ x.rem + b * x.res = n /\ b * c < Base * Base
  BY DEF Scale
<1> HIDE DEF c
<1>3. CASE x.rem >= x.b
  <2>1. Taken(x) = Less(x, x.rem - x.b, x.res + x.d)
    BY <1>3 DEF Taken, Less
  <2>2. x.rem - x.b \in Nat /\ x.res + x.d \in Nat
    BY <1>1, <1>2, <1>3
  <2> DEFINE y == Taken(x)
  <2>3. y \in Pairs /\ y.rem = x.rem - b * c /\ y.res = x.res + c /\ y.b = x.b /\ y.d = x.d
    <3>1. IsLess(y, x, x.rem - x.b, x.res + x.d)
      BY <1>2, <2>1, <2>2, LessIs, Zenon
    <3>2. x.rem - x.b = x.rem - b * c /\ x.res + x.d = x.res + c
      BY <1>2
    <3> HIDE DEF y
    <3> QED
      BY <3>1, <3>2, Zenon DEF IsLess
  <2> HIDE DEF y
  <2>4. b * (x.res + c) = b * x.res + b * c /\ b * x.res \in Nat
    BY <1>1
  <2>5. y.rem + b * y.res = n /\ y.rem < x.b
    BY <1>1, <1>2, <2>3, <2>4
  <2> QED
    BY <1>2, <2>3, <2>5 DEF y, Scale, c
<1>4. CASE ~(x.rem >= x.b)
  BY <1>1, <1>2, <1>4 DEF Taken
<1> QED
  BY <1>3, <1>4

HalfRound ==
  [x \in Pairs |-> IF x.d \div 2 = 0 THEN x
                    ELSE Scaled(Taken(x), Taken(x).b \div 2, Taken(x).d \div 2)]

\* One round of halving: what remains is less than twice the divisor again.
LEMMA HalfOnce ==
  ASSUME NEW b \in Nat \ {0}, NEW n \in Nat, NEW k \in Nat, NEW x, Scale(x, b, n, k), x.rem < 2 * x.b
  PROVE  /\ k = 0 <=> x.d \div 2 = 0
         /\ k # 0 => /\ Scale(HalfRound[x], b, n, k - 1) /\ HalfRound[x].rem < 2 * HalfRound[x].b
                     /\ HalfRound[x] # x
<1>1. x.d = 2^k /\ x \in Pairs
  BY DEF Scale
<1>2. CASE k = 0
  <2>1. x.d = 1
    BY <1>1, <1>2, Powers
  <2>2. 1 \div 2 = 0
    OBVIOUS
  <2> QED
    BY <1>2, <2>1, <2>2
<1>3. CASE k # 0
  <2> DEFINE c == 2^(k - 1)
             y == Taken(x)
             w == HalfRound[x]
  <2>1. c \in Nat \ {0} /\ 2^k = 2 * c /\ k - 1 \in Nat
    <3>1. k - 1 \in Nat /\ k = (k - 1) + 1
      BY <1>3
    <3>2. 2^((k - 1) + 1) = 2 * 2^(k - 1)
      BY <3>1, Powers
    <3> QED
      BY <3>1, <3>2, Powers
  <2>2. Scale(y, b, n, k) /\ y.rem < x.b /\ y.b = x.b /\ y.d = x.d
    BY TakenIs
  <2> HIDE DEF c, y
  <2>3. y \in Pairs /\ y.d = 2 * c /\ y.b = b * (2 * c) /\ y.b < Base * Base /\ y.rem + b * y.res = n
    BY <2>1, <2>2 DEF Scale
  <2>4. b * (2 * c) = 2 * (b * c) /\ b * c \in Nat \ {0}
    <3>1. \A u, m \in Nat \ {0} : u * m \in Nat \ {0}
      OBVIOUS
    <3>2. b * c \in Nat \ {0}
      BY <2>1, <3>1
    <3> QED
      BY <2>1, <3>2
  <2>5. y.d \div 2 = c /\ y.b \div 2 = b * c
    <3>1. \A u \in Nat : (2 * u) \div 2 = u
      OBVIOUS
    <3> QED
      BY <2>1, <2>3, <2>4, <3>1
  <2>6. x.d \div 2 # 0
    BY <2>1, <2>2, <2>5
  <2>7. w = Scaled(y, y.b \div 2, y.d \div 2)
    BY <1>1, <2>6 DEF HalfRound, y
  <2> HIDE DEF w
  <2>8. w \in Pairs /\ w.rem = y.rem /\ w.res = y.res /\ w.b = b * c /\ w.d = c
    <3>1. w = Scaled(y, b * c, c) /\ y \in Pairs /\ b * c \in Nat /\ c \in Nat
      BY <2>1, <2>3, <2>4, <2>5, <2>7
    <3>2. IsScaled(w, y, b * c, c)
      BY <3>1, ScaledIs, Zenon
    <3> QED
      BY <3>2 DEF IsScaled
  <2>9. w.b < Base * Base
    BY <2>3, <2>4, <2>8, Squares
  <2>10. Scale(w, b, n, k - 1)
    BY <2>3, <2>8, <2>9 DEF Scale, c
  <2>11. w.rem < 2 * w.b
    BY <2>2, <2>3, <2>4, <2>8
  <2>12. w # x
    BY <1>1, <2>1, <2>8
  <2> QED
    BY <1>3, <2>6, <2>10, <2>11, <2>12 DEF w
<1> QED
  BY <1>2, <1>3

\* Halving it again finds the quotient bit by bit, and leaves the remainder.
LEMMA HalvedIs ==
  ASSUME NEW b \in Nat \ {0}, NEW n \in Nat, NEW k0 \in Nat, NEW p, Scale(p, b, n, k0), p.rem < 2 * p.b
  PROVE  Halved(p).res = n \div b /\ Halved(p).rem = n % b
<1> DEFINE I == {x \in Pairs : \E k \in Nat : Scale(x, b, n, k) /\ x.rem < 2 * x.b}
           v == [x \in I |-> Doublings(x)]
           z == Rounds(HalfRound, p, W + W)
<1>1. ASSUME NEW x \in I PROVE v[x] \in Nat
  <2>1. PICK k \in Nat : Scale(x, b, n, k)
    OBVIOUS
  <2> QED
    BY <2>1, DoublingsIs
<1>2. v \in [I -> Nat]
  BY <1>1
<1>3. ASSUME NEW x \in I, x.d \div 2 # 0
      PROVE  HalfRound[x] \in I /\ HalfRound[x] # x /\ v[HalfRound[x]] < v[x]
  <2>1. PICK k \in Nat : Scale(x, b, n, k) /\ x.rem < 2 * x.b
    OBVIOUS
  <2>2. k # 0 /\ k - 1 \in Nat
    BY <1>3, <2>1, HalfOnce
  <2>3. Scale(HalfRound[x], b, n, k - 1) /\ HalfRound[x].rem < 2 * HalfRound[x].b /\ HalfRound[x] # x
    BY <2>1, <2>2, HalfOnce
  <2>4. HalfRound[x] \in I
    BY <2>2, <2>3 DEF Scale
  <2>5. v[x] = k /\ v[HalfRound[x]] = k - 1
    BY <2>1, <2>2, <2>3, <2>4, DoublingsIs
  <2> QED
    BY <2>3, <2>4, <2>5
<1>4. ASSUME NEW x \in I, x.d \div 2 = 0 PROVE HalfRound[x] = x
  BY <1>4 DEF HalfRound
<1>5. p \in I /\ v[p] <= W + W
  <2>1. p \in I
    BY DEF Scale
  <2>2. Doublings(p) = k0 /\ k0 < W + W
    BY DoublingsIs, ScaleBound
  <2> QED
    BY <2>1, <2>2, Squares
<1>6. Halved(p) = Taken(z)
  BY DEF Halved, HalfRound, Scaled
<1> HIDE DEF v, z
<1>7. ASSUME NEW x \in I PROVE HalfRound[x] \in I /\ (HalfRound[x] = x \/ v[HalfRound[x]] < v[x])
  BY <1>3, <1>4
<1> HIDE DEF I
<1>8. z \in I /\ HalfRound[z] = z
  BY <1>2, <1>5, <1>7, LoopEnds, Squares DEF z
<1>9. z.d \div 2 = 0
  BY <1>3, <1>8
<1>10. PICK k \in Nat : Scale(z, b, n, k) /\ z.rem < 2 * z.b
  BY <1>8 DEF I
<1>11. k = 0
  BY <1>9, <1>10, HalfOnce
<1>12. Scale(Taken(z), b, n, 0) /\ Taken(z).rem < z.b /\ z.b = b * 1
  <2>1. Scale(Taken(z), b, n, k) /\ Taken(z).rem < z.b
    BY <1>10, TakenIs
  <2>2. z.b = b * 2^k
    BY <1>10 DEF Scale
  <2> QED
    BY <1>11, <2>1, <2>2, Powers
<1> DEFINE y == Taken(z)
<1>13. y.rem \in Nat /\ y.res \in Nat /\ y.rem + b * y.res = n /\ y.rem < b
  <2>1. y.rem \in Nat /\ y.res \in Nat
    BY <1>12, ScaleBound, 0 \in Nat
  <2>2. y.rem + b * y.res = n
    BY <1>12 DEF Scale
  <2>3. z.b = b
    BY <1>12
  <2> QED
    BY <1>12, <2>1, <2>2, <2>3
<1> HIDE DEF y
<1>14. n = b * y.res + y.rem
  <2>1. b * y.res \in Nat
    BY <1>13
  <2> QED
    BY <1>13, <2>1
<1>15. n \div b = y.res /\ n % b = y.rem
  BY <1>13, <1>14, DivRule, n \in Int, y.res \in Int
<1> QED
  BY <1>6, <1>15 DEF y

\* __div64_32 divides (div64.c).
LEMMA Div64Is ==
  ASSUME NEW n \in 0..Base * Base - 1, NEW b \in Word \ {0}
  PROVE  Div64(n, b) = [quot |-> n \div b, rem |-> n % b]
<1> DEFINE lo == Lo(n)
           hi == Hi(n)
           high == IF hi >= b THEN UDiv(hi, b) ELSE 0
           p == [rem |-> n - high * b * Base, res |-> high * Base, b |-> b, d |-> 1]
<1>1. /\ lo \in Nat /\ lo < Base /\ hi \in Nat /\ hi < Base /\ n = hi * Base + lo
      /\ n \in Nat /\ n < Base * Base /\ Base \in Nat \ {0} /\ hi \in Word /\ b \in Nat \ {0} /\ b < Base
  BY LongIs, Limits DEF Word
<1>2. PICK q, r \in Nat : hi \div b = q /\ hi % b = r /\ hi = b * q + r /\ r < b
  BY <1>1, DivNat
<1>3. high = q
  <2>1. CASE hi >= b
    BY <1>1, <1>2, <2>1, UDivIs
  <2>2. CASE ~(hi >= b)
    <3>1. hi \div b = 0
      BY <1>1, <2>2, SmallQuotient
    <3> QED
      BY <1>2, <2>2, <3>1
  <2> QED
    BY <2>1, <2>2
<1>4. Div64(n, b) = [quot |-> Halved(Doubled(p)).res, rem |-> Halved(Doubled(p)).rem]
  BY DEF Div64
<1> HIDE DEF lo, hi, high
<1>5. n - q * b * Base \in Nat /\ q * Base \in Nat /\ (n - q * b * Base) + b * (q * Base) = n
  <2>1. (b * q + r) * Base = b * (q * Base) + r * Base /\ q * b * Base = b * (q * Base)
    BY <1>1
  <2>2. b * (q * Base) \in Nat /\ r * Base \in Nat /\ q * Base \in Nat
    BY <1>1
  <2> QED
    BY <1>1, <1>2, <2>1, <2>2
<1>6. p = [rem |-> n - q * b * Base, res |-> q * Base, b |-> b, d |-> 1]
  BY <1>3
<1> HIDE DEF p
<1>7. Scale(p, b, n, 0)
  <2>1. b * 2^0 = b /\ 2^0 = 1
    BY <1>1, Powers
  <2>2. b < Base * Base
    <3>1. \A u \in Nat \ {0} : u <= u * u /\ u * u \in Nat
      OBVIOUS
    <3>2. Base <= Base * Base /\ Base * Base \in Nat
      BY <1>1, <3>1
    <3> QED
      BY <1>1, <3>2
  <2>3. p \in Pairs /\ p.rem = n - q * b * Base /\ p.res = q * Base /\ p.b = b /\ p.d = 1
    BY <1>1, <1>5, <1>6 DEF Pairs
  <2> QED
    BY <1>5, <2>1, <2>2, <2>3 DEF Scale
<1>8. PICK k \in Nat : Scale(Doubled(p), b, n, k) /\ Doubled(p).rem < 2 * Doubled(p).b
  BY <1>1, <1>7, DoubledIs
<1>9. Halved(Doubled(p)).res = n \div b /\ Halved(Doubled(p)).rem = n % b
  BY <1>1, <1>8, HalvedIs
<1> QED
  BY <1>4, <1>9
----------------------------------------------------------------------------
(***************************************************************************)
(* Numbers into digits and back.                                           *)
(***************************************************************************)
\* Quotients and remainders by sixteen and by ten.
LEMMA Sixteenths ==
  \A a \in Nat : \E q, r \in Nat : a \div 16 = q /\ a % 16 = r /\ a = 16 * q + r /\ r < 16
<1> TAKE a \in Nat
<1>1. a \div 16 \in Nat /\ a % 16 \in Nat /\ a = 16 * (a \div 16) + (a % 16) /\ a % 16 < 16
  OBVIOUS
<1> QED
  BY <1>1, Zenon

\* The multiplications and shifts that stand for a division by ten.
LEMMA TenthIs ==
  \A a \in 0..1000 : \E e, r \in Nat : Tenth(a) = e /\ a = 10 * e + r /\ r < 10
<1> TAKE a \in 0..1000
<1>1. PICK e, r \in Nat : a = 10 * e + r /\ r < 10
  <2>1. a \div 10 \in Nat /\ a % 10 \in Nat /\ a = 10 * (a \div 10) + (a % 10) /\ a % 10 < 10
    OBVIOUS
  <2> QED
    BY <2>1, Zenon
<1>2. a * 205 = 2048 * e + (2 * e + 205 * r) /\ 2 * e + 205 * r \in 0..2047 /\ a * 205 \in Nat
  BY <1>1
<1>3. Tenth(a) = e
  BY <1>1, <1>2 DEF Tenth
<1> QED
  BY <1>1, <1>3

LEMMA ThirdTenthIs ==
  \A a \in 0..68 : \E e, r \in Nat : (a * 13) \div 128 = e /\ a = 10 * e + r /\ r < 10
<1> TAKE a \in 0..68
<1>1. PICK e, r \in Nat : a = 10 * e + r /\ r < 10
  <2>1. a \div 10 \in Nat /\ a % 10 \in Nat /\ a = 10 * (a \div 10) + (a % 10) /\ a % 10 < 10
    OBVIOUS
  <2> QED
    BY <2>1, Zenon
<1>2. a * 13 = 128 * e + (2 * e + 13 * r) /\ 2 * e + 13 * r \in 0..127 /\ a * 13 \in Nat
  BY <1>1
<1>3. (a * 13) \div 128 = e
  BY <1>1, <1>2
<1> QED
  BY <1>1, <1>3

\* The five digits that DecDigits makes, and what it looks at to stop, are those of the
\* number divided by ten again and again.
LEMMA DecDigitsIs ==
  ASSUME NEW q \in Nat, NEW q1, q1 = q \div 10, NEW q2, q2 = q1 \div 10,
         NEW q3, q3 = q2 \div 10, NEW q4, q4 = q3 \div 10
  PROVE  q < FivePlaces =>
           /\ q1 \in Nat /\ q2 \in Nat /\ q3 \in Nat /\ q4 \in 0..9
           /\ PutDecFull(q) = <<q % 10, q1 % 10, q2 % 10, q3 % 10, q4 % 10>>
           /\ Above(q)[1] = 0 <=> q1 = 0
           /\ Above(q)[2] = 0 <=> q2 = 0
           /\ Above(q)[3] = 0 <=> q3 = 0
           /\ Above(q)[4] = 0 <=> q4 = 0
<1>0. q < FivePlaces => q3 \in 0..99 /\ Hex3(q) \in 0..24
  BY DEF Hex3, FivePlaces
<1> SUFFICES ASSUME q3 \in 0..99, Hex3(q) \in 0..24
             PROVE  /\ q1 \in Nat /\ q2 \in Nat /\ q3 \in Nat /\ q4 \in 0..9
                    /\ PutDecFull(q) = <<q % 10, q1 % 10, q2 % 10, q3 % 10, q4 % 10>>
                    /\ Above(q)[1] = 0 <=> q1 = 0
                    /\ Above(q)[2] = 0 <=> q2 = 0
                    /\ Above(q)[3] = 0 <=> q3 = 0
                    /\ Above(q)[4] = 0 <=> q4 = 0
  BY <1>0
<1>1. PICK h0, h1, h2, h3 \in Nat :
        /\ q % 16 = h0 /\ Hex1(q) = h1 /\ Hex2(q) = h2 /\ Hex3(q) = h3
        /\ h0 < 16 /\ h1 < 16 /\ h2 < 16 /\ h3 <= 24
        /\ q = 4096 * h3 + 256 * h2 + 16 * h1 + h0
  <2>1. PICK e1, r0 \in Nat : q \div 16 = e1 /\ q % 16 = r0 /\ q = 16 * e1 + r0 /\ r0 < 16
    BY Sixteenths, Zenon
  <2>2. PICK e2, r1 \in Nat : e1 \div 16 = e2 /\ e1 % 16 = r1 /\ e1 = 16 * e2 + r1 /\ r1 < 16
    BY Sixteenths, Zenon
  <2>3. PICK e3, r2 \in Nat : e2 \div 16 = e3 /\ e2 % 16 = r2 /\ e2 = 16 * e3 + r2 /\ r2 < 16
    BY Sixteenths, Zenon
  <2>4. q = 256 * e2 + (16 * r1 + r0) /\ 16 * r1 + r0 \in Nat /\ 16 * r1 + r0 < 256
    BY <2>1, <2>2
  <2>5. q = 4096 * e3 + (256 * r2 + 16 * r1 + r0) /\ 256 * r2 + 16 * r1 + r0 \in Nat
        /\ 256 * r2 + 16 * r1 + r0 < 4096
    BY <2>1, <2>2, <2>3
  <2>6. q \div 256 = e2 /\ q \div 4096 = e3
    BY <2>4, <2>5, DivRule
  <2>7. (q % 16) = r0 /\ Hex1(q) = r1 /\ Hex2(q) = r2 /\ Hex3(q) = e3
    BY <2>1, <2>2, <2>3, <2>6 DEF Hex1, Hex2, Hex3
  <2> QED
    BY <2>1, <2>2, <2>3, <2>5, <2>7
<1>2. PICK a \in 0..339 : Ones(q) = a /\ a = 6 * (h3 + h2 + h1) + h0
  BY <1>1 DEF Ones
<1>3. PICK e0, r0 \in Nat : Tenth(a) = e0 /\ a = 10 * e0 + r0 /\ r0 < 10
  <2>1. a \in 0..1000
    OBVIOUS
  <2> QED
    BY <2>1, TenthIs, Zenon
<1>4. PICK b \in 0..339 : Tens(q) = b /\ b = e0 + 9 * h3 + 5 * h2 + h1
  BY <1>1, <1>2, <1>3 DEF Tens
<1>5. q1 = b + 400 * h3 + 20 * h2 /\ q % 10 = r0
  <2>1. q = 10 * (409 * h3 + 25 * h2 + h1 + e0) + r0 /\ 409 * h3 + 25 * h2 + h1 + e0 \in Nat
    BY <1>1, <1>2, <1>3
  <2>2. q \div 10 = 409 * h3 + 25 * h2 + h1 + e0 /\ q % 10 = r0
    BY <1>3, <2>1, DivRule
  <2> QED
    BY <1>4, <2>2
<1>6. PICK e1, r1 \in Nat : Tenth(b) = e1 /\ b = 10 * e1 + r1 /\ r1 < 10
  <2>1. b \in 0..1000
    OBVIOUS
  <2> QED
    BY <2>1, TenthIs, Zenon
<1>7. PICK c \in 0..63 : Hundreds(q) = c /\ c = e1 + 2 * h2
  BY <1>1, <1>4, <1>6 DEF Hundreds
<1>8. q2 = c + 40 * h3 /\ q1 % 10 = r1
  <2>1. q1 = 10 * (40 * h3 + 2 * h2 + e1) + r1 /\ 40 * h3 + 2 * h2 + e1 \in Nat /\ q1 \in Nat
    BY <1>5, <1>6
  <2>2. q1 \div 10 = 40 * h3 + 2 * h2 + e1 /\ q1 % 10 = r1
    BY <1>6, <2>1, DivRule
  <2> QED
    BY <1>7, <2>2
<1>9. PICK e2, r2 \in Nat : ThirdTenth(q) = e2 /\ c = 10 * e2 + r2 /\ r2 < 10
  BY <1>7, ThirdTenthIs DEF ThirdTenth
<1>10. PICK d \in 0..102 : Thousands(q) = d /\ d = e2 + 4 * h3
  BY <1>1, <1>9 DEF Thousands
<1>11. q3 = d /\ q2 % 10 = r2
  <2>1. q2 = 10 * (4 * h3 + e2) + r2 /\ 4 * h3 + e2 \in Nat /\ q2 \in Nat
    BY <1>8, <1>9
  <2>2. q2 \div 10 = 4 * h3 + e2 /\ q2 % 10 = r2
    BY <1>9, <2>1, DivRule
  <2> QED
    BY <1>10, <2>2
<1>12. PICK e3, r3 \in Nat : Tenth(d) = e3 /\ d = 10 * e3 + r3 /\ r3 < 10
  <2>1. d \in 0..1000
    OBVIOUS
  <2> QED
    BY <2>1, TenthIs, Zenon
<1>13. q4 = e3 /\ q3 % 10 = r3 /\ e3 < 10 /\ e3 % 10 = e3
  BY <1>11, <1>12
<1>14. PutDecFull(q) = <<r0, r1, r2, r3, e3>>
  <2>1. a - 10 * e0 = r0 /\ b - 10 * e1 = r1 /\ c - 10 * e2 = r2 /\ d - 10 * e3 = r3
    BY <1>3, <1>6, <1>9, <1>12
  <2> QED
    BY <1>2, <1>3, <1>4, <1>6, <1>7, <1>9, <1>10, <1>12, <2>1 DEF PutDecFull
<1>15. Above(q) = <<b, IF h3 # 0 THEN 1 ELSE c, d, e3>>
  BY <1>1, <1>4, <1>7, <1>10, <1>12 DEF Above
<1>16. PutDecFull(q) = <<q % 10, q1 % 10, q2 % 10, q3 % 10, q4 % 10>>
  BY <1>5, <1>8, <1>11, <1>13, <1>14, Zenon
<1>17. b = 0 <=> q1 = 0
  BY <1>4, <1>5
<1>18. (IF h3 # 0 THEN 1 ELSE c) = 0 <=> q2 = 0
  BY <1>8
<1>19. q1 \in Nat /\ q2 \in Nat /\ q3 \in Nat /\ q4 \in 0..9
  BY <1>5, <1>8, <1>11, <1>13
<1> QED
  BY <1>11, <1>13, <1>15, <1>16, <1>17, <1>18, <1>19

\* What is left of a number, digit by digit.
LEMMA LeftStep ==
  \A base \in Nat \ {0}, n \in Nat :
    /\ Left(n, base, 0) = n
    /\ \A k \in Nat : Left(n, base, k) \in Nat /\ Left(n, base, k + 1) = Left(n, base, k) \div base
<1> TAKE base \in Nat \ {0}, n \in Nat
<1> DEFINE round == [x \in Nat |-> x \div base]
<1>1. \A x \in Nat : round[x] \in Nat
  OBVIOUS
<1>2. \A x \in Nat : round[x] = x \div base
  OBVIOUS
<1> HIDE DEF round
<1>3. \A k \in Nat : Rounds(round, n, k) \in Nat
  BY <1>1, LoopKeeps
<1>4. Rounds(round, n, 0) = n /\ \A k \in Nat : Rounds(round, n, k + 1) = round[Rounds(round, n, k)]
  BY RoundsStep
<1>5. \A k : Left(n, base, k) = Rounds(round, n, k)
  BY DEF Left, round
<1> QED
  BY <1>2, <1>3, <1>4, <1>5

\* The digits behind the first k are those of what is left.
LEMMA LeftAdds ==
  \A base \in Nat \ {0}, n \in Nat, k \in Nat, i \in Nat :
    Left(Left(n, base, k), base, i) = Left(n, base, k + i)
<1> SUFFICES ASSUME NEW base \in Nat \ {0}, NEW n \in Nat, NEW k \in Nat
             PROVE  \A i \in Nat : Left(Left(n, base, k), base, i) = Left(n, base, k + i)
  OBVIOUS
<1> DEFINE m == Left(n, base, k)
           S == {i \in Nat : Left(m, base, i) = Left(n, base, k + i)}
<1>1. m \in Nat
  BY LeftStep
<1> HIDE DEF m
<1>2. 0 \in S
  BY <1>1, LeftStep DEF m
<1>3. ASSUME NEW i \in Nat, i \in S PROVE i + 1 \in S
  <2>1. Left(m, base, i + 1) = Left(m, base, i) \div base
    BY <1>1, LeftStep
  <2>2. Left(n, base, (k + i) + 1) = Left(n, base, k + i) \div base
    BY LeftStep, k + i \in Nat
  <2>3. (k + i) + 1 = k + (i + 1)
    OBVIOUS
  <2> QED
    BY <1>3, <2>1, <2>2, <2>3
<1> HIDE DEF S
<1>4. \A i \in Nat : i \in S
  BY <1>2, <1>3, AllNats
<1> QED
  BY <1>4 DEF S, m

\* A smaller number leaves no more.
LEMMA LeftOrder ==
  \A m, n \in Nat : m <= n => \A k \in Nat : Left(m, 2, k) <= Left(n, 2, k)
<1> SUFFICES ASSUME NEW m \in Nat, NEW n \in Nat, m <= n
             PROVE  \A k \in Nat : Left(m, 2, k) <= Left(n, 2, k)
  OBVIOUS
<1> DEFINE S == {k \in Nat : Left(m, 2, k) <= Left(n, 2, k)}
<1>1. 2 \in Nat \ {0}
  OBVIOUS
<1>2. 0 \in S
  BY <1>1, LeftStep
<1>3. ASSUME NEW k \in Nat, k \in S PROVE k + 1 \in S
  <2>1. /\ Left(m, 2, k) \in Nat /\ Left(m, 2, k + 1) = Left(m, 2, k) \div 2
        /\ Left(n, 2, k) \in Nat /\ Left(n, 2, k + 1) = Left(n, 2, k) \div 2
    BY <1>1, LeftStep
  <2>2. \A x, y \in Nat : x <= y => x \div 2 <= y \div 2
    OBVIOUS
  <2> QED
    BY <1>3, <2>1, <2>2
<1> HIDE DEF S
<1>4. \A k \in Nat : k \in S
  BY <1>2, <1>3, AllNats
<1> QED
  BY <1>4 DEF S

\* The number of bits of a number: how often it can be halved.
Halvings(n) == CHOOSE k \in Nat : Left(n, 2, k) = 0 /\ \A j \in Nat : Left(n, 2, j) = 0 => k <= j
Short == {n \in Nat : \E k \in Nat : Left(n, 2, k) = 0}

LEMMA HalvingsIs ==
  \A n \in Short : /\ Halvings(n) \in Nat /\ Left(n, 2, Halvings(n)) = 0
                   /\ \A j \in Nat : Left(n, 2, j) = 0 => Halvings(n) <= j
<1> TAKE n \in Short
<1> DEFINE K == {k \in Nat : Left(n, 2, k) = 0}
<1>1. K # {} /\ K \in SUBSET Nat
  BY DEF Short
<1>2. \E k \in K : \A j \in K : k <= j
  <2> HIDE DEF K
  <2> QED
    BY <1>1, MinIsLeast
<1>3. \E k \in Nat : Left(n, 2, k) = 0 /\ \A j \in Nat : Left(n, 2, j) = 0 => k <= j
  BY <1>2
<1> QED
  BY <1>3 DEF Halvings

\* What is at most half a number has fewer bits.
LEMMA HalvingsFall ==
  \A n \in Short, m \in Nat : n # 0 /\ m <= n \div 2 => m \in Short /\ Halvings(m) < Halvings(n)
<1> SUFFICES ASSUME NEW n \in Short, NEW m \in Nat, n # 0, m <= n \div 2
             PROVE  m \in Short /\ Halvings(m) < Halvings(n)
  OBVIOUS
<1> DEFINE h == Halvings(n)
<1>1. n \in Nat /\ h \in Nat /\ Left(n, 2, h) = 0 /\ 2 \in Nat \ {0} /\ n \div 2 \in Nat
  <2>1. n \in Nat
    BY DEF Short
  <2> QED
    BY <2>1, HalvingsIs
<1> HIDE DEF h
<1>2. h # 0
  BY <1>1, LeftStep
<1>3. h - 1 \in Nat /\ 1 + (h - 1) = h
  BY <1>1, <1>2
<1>4. Left(n, 2, 1) = n \div 2
  <2>1. Left(n, 2, 0) = n /\ Left(n, 2, 0 + 1) = Left(n, 2, 0) \div 2
    BY <1>1, LeftStep
  <2> QED
    BY <2>1
<1>5. Left(n \div 2, 2, h - 1) = 0
  BY <1>1, <1>3, <1>4, LeftAdds
<1>6. Left(m, 2, h - 1) = 0
  <2>1. Left(m, 2, h - 1) <= Left(n \div 2, 2, h - 1)
    BY <1>1, <1>3, LeftOrder
  <2>2. Left(m, 2, h - 1) \in Nat
    BY <1>1, <1>3, LeftStep
  <2> QED
    BY <1>5, <2>1, <2>2
<1>7. m \in Short
  BY <1>3, <1>6 DEF Short
<1>8. Halvings(m) <= h - 1 /\ Halvings(m) \in Nat
  BY <1>3, <1>6, <1>7, HalvingsIs
<1> QED
  BY <1>1, <1>7, <1>8 DEF h

\* The first digits of a number, and some behind them.
Lowest(a, n, base) == \A i \in 1..Len(a) : a[i] = Left(n, base, i - 1) % base

LEMMA JoinDigits ==
  \A base \in Nat \ {0}, n \in Nat, a, b \in Seq(Nat) :
    Lowest(a, n, base) /\ Lowest(b, Left(n, base, Len(a)), base) =>
      /\ Left(n, base, Len(a) + Len(b)) = Left(Left(n, base, Len(a)), base, Len(b))
      /\ Lowest(a \o b, n, base)
<1> SUFFICES ASSUME NEW base \in Nat \ {0}, NEW n \in Nat, NEW a \in Seq(Nat), NEW b \in Seq(Nat),
                    Lowest(a, n, base), Lowest(b, Left(n, base, Len(a)), base)
             PROVE  /\ Left(n, base, Len(a) + Len(b)) = Left(Left(n, base, Len(a)), base, Len(b))
                    /\ Lowest(a \o b, n, base)
  OBVIOUS
<1>1. a \o b \in Seq(Nat) /\ Len(a \o b) = Len(a) + Len(b) /\ Len(a) \in Nat /\ Len(b) \in Nat
  OBVIOUS
<1>2. Left(n, base, Len(a) + Len(b)) = Left(Left(n, base, Len(a)), base, Len(b))
  BY <1>1, LeftAdds
<1>3. ASSUME NEW i \in 1..Len(a \o b) PROVE (a \o b)[i] = Left(n, base, i - 1) % base
  <2>1. CASE i <= Len(a)
    <3>1. i \in 1..Len(a) /\ (a \o b)[i] = a[i]
      BY <1>1, <2>1
    <3> QED
      BY <3>1 DEF Lowest
  <2>2. CASE i > Len(a)
    <3>1. i - Len(a) \in 1..Len(b) /\ (a \o b)[i] = b[i - Len(a)]
      BY <1>1, <2>2
    <3>2. Len(a) + ((i - Len(a)) - 1) = i - 1 /\ (i - Len(a)) - 1 \in Nat
      BY <1>1, <3>1
    <3>3. Left(Left(n, base, Len(a)), base, (i - Len(a)) - 1) = Left(n, base, i - 1)
      BY <1>1, <3>2, LeftAdds
    <3> QED
      BY <3>1, <3>3 DEF Lowest
  <2> QED
    BY <1>1, <2>1, <2>2
<1> QED
  BY <1>1, <1>2, <1>3 DEF Lowest

\* What has been written of n: the digits so far, and what is left to write.
Partial(x, n, base) ==
  /\ x \in Writing /\ x.num = Left(n, base, Len(x.digits))
  /\ Lowest(x.digits, n, base)

LEMMA UnwrittenIs ==
  ASSUME NEW base \in Nat \ {0}, NEW n \in Nat
  PROVE  Partial(Unwritten(n), n, base)
<1>1. Unwritten(n) \in Writing /\ Unwritten(n).num = n /\ Unwritten(n).digits = <<>>
      /\ Len(<<>>) = 0
  BY DEF Unwritten, Writing
<1> QED
  <2>1. Unwritten(n).num = Left(n, base, Len(Unwritten(n).digits))
    BY <1>1, LeftStep
  <2>2. \A i \in 1..Len(Unwritten(n).digits) : FALSE
    BY <1>1
  <2> QED
    BY <1>1, <2>1, <2>2 DEF Partial, Lowest

\* Writing some more of it.
LEMMA WriteMore ==
  ASSUME NEW base \in Nat \ {0}, NEW n \in Nat, NEW x, Partial(x, n, base), NEW b \in Seq(Nat),
         Lowest(b, x.num, base)
  PROVE  Partial([num |-> Left(x.num, base, Len(b)), digits |-> x.digits \o b], n, base)
<1> DEFINE y == [num |-> Left(x.num, base, Len(b)), digits |-> x.digits \o b]
<1>1. x.num \in Nat /\ x.digits \in Seq(Nat) /\ x.num = Left(n, base, Len(x.digits)) /\ Len(b) \in Nat
  BY DEF Partial, Writing
<1>2. /\ x.digits \o b \in Seq(Nat)
      /\ Left(n, base, Len(x.digits \o b)) = Left(x.num, base, Len(b))
      /\ Lowest(x.digits \o b, n, base)
  <2>1. Lowest(x.digits, n, base) /\ Lowest(b, Left(n, base, Len(x.digits)), base)
    BY <1>1, Zenon DEF Partial
  <2>2. /\ Left(n, base, Len(x.digits) + Len(b)) = Left(Left(n, base, Len(x.digits)), base, Len(b))
        /\ Lowest(x.digits \o b, n, base)
    BY <1>1, <2>1, JoinDigits, Zenon
  <2>3. x.digits \o b \in Seq(Nat) /\ Len(x.digits \o b) = Len(x.digits) + Len(b)
    BY <1>1
  <2> QED
    BY <1>1, <2>2, <2>3, Zenon
<1>3. y \in Writing
  BY <1>1, <1>2, LeftStep DEF Writing
<1> QED
  BY <1>2, <1>3 DEF Partial

\* Five digits of any number, written as put_dec_full does it.
LEMMA FiveDigitsAre ==
  ASSUME NEW n \in Nat
  PROVE  /\ PutDecFull(n % FivePlaces) \in Seq(Nat) /\ Len(PutDecFull(n % FivePlaces)) = 5
         /\ Left(n, 10, 5) = n \div FivePlaces
         /\ \A i \in 1..5 : PutDecFull(n % FivePlaces)[i] = Left(n, 10, i - 1) % 10
<1> DEFINE q == n % FivePlaces
           q1 == q \div 10
           q2 == q1 \div 10
           q3 == q2 \div 10
           q4 == q3 \div 10
           n1 == n \div 10
           n2 == n1 \div 10
           n3 == n2 \div 10
           n4 == n3 \div 10
           h == n \div FivePlaces
<1>1. q \in Nat /\ q < FivePlaces /\ h \in Nat /\ n = 100000 * h + q
  BY DEF FivePlaces
<1> HIDE DEF q, h
<1>2. /\ q1 \in Nat /\ q2 \in Nat /\ q3 \in Nat /\ q4 \in 0..9
      /\ PutDecFull(q) = <<q % 10, q1 % 10, q2 % 10, q3 % 10, q4 % 10>>
  <2>1. q < FivePlaces =>
          /\ q1 \in Nat /\ q2 \in Nat /\ q3 \in Nat /\ q4 \in 0..9
          /\ PutDecFull(q) = <<q % 10, q1 % 10, q2 % 10, q3 % 10, q4 % 10>>
    BY <1>1, DecDigitsIs
  <2> QED
    BY <1>1, <2>1
<1>3. n1 = 10000 * h + q1 /\ n % 10 = q % 10
  BY <1>1
<1> HIDE DEF q1, n1
<1>4. n2 = 1000 * h + q2 /\ n1 % 10 = q1 % 10
  BY <1>1, <1>2, <1>3
<1> HIDE DEF q2, n2
<1>5. n3 = 100 * h + q3 /\ n2 % 10 = q2 % 10
  BY <1>1, <1>2, <1>4
<1> HIDE DEF q3, n3
<1>6. n4 = 10 * h + q4 /\ n3 % 10 = q3 % 10
  BY <1>1, <1>2, <1>5
<1> HIDE DEF q4, n4
<1>7. n4 \div 10 = h /\ n4 % 10 = q4 % 10
  BY <1>1, <1>2, <1>6
<1>8. /\ Left(n, 10, 0) = n /\ Left(n, 10, 1) = n1 /\ Left(n, 10, 2) = n2 /\ Left(n, 10, 3) = n3
      /\ Left(n, 10, 4) = n4 /\ Left(n, 10, 5) = h
  <2>1. /\ Left(n, 10, 0) = n /\ Left(n, 10, 0 + 1) = Left(n, 10, 0) \div 10
        /\ Left(n, 10, 1 + 1) = Left(n, 10, 1) \div 10 /\ Left(n, 10, 2 + 1) = Left(n, 10, 2) \div 10
        /\ Left(n, 10, 3 + 1) = Left(n, 10, 3) \div 10 /\ Left(n, 10, 4 + 1) = Left(n, 10, 4) \div 10
    <3>1. 10 \in Nat \ {0} /\ 0 \in Nat /\ 1 \in Nat /\ 2 \in Nat /\ 3 \in Nat /\ 4 \in Nat
      OBVIOUS
    <3> QED
      BY <3>1, LeftStep
  <2>2. 0 + 1 = 1 /\ 1 + 1 = 2 /\ 2 + 1 = 3 /\ 3 + 1 = 4 /\ 4 + 1 = 5
    OBVIOUS
  <2> QED
    BY <1>7, <2>1, <2>2 DEF n1, n2, n3, n4
<1>9. PutDecFull(q) = <<n % 10, n1 % 10, n2 % 10, n3 % 10, n4 % 10>>
  BY <1>2, <1>3, <1>4, <1>5, <1>6, <1>7
<1>10. n1 \in Nat /\ n2 \in Nat /\ n3 \in Nat /\ n4 \in Nat
  BY <1>1, <1>2, <1>3, <1>4, <1>5, <1>6
<1>11. n % 10 \in Nat /\ n1 % 10 \in Nat /\ n2 % 10 \in Nat /\ n3 % 10 \in Nat /\ n4 % 10 \in Nat
  BY <1>10
<1>12. PutDecFull(q) \in Seq(Nat) /\ Len(PutDecFull(q)) = 5
  BY <1>9, <1>11
<1>13. ASSUME NEW i \in 1..5 PROVE PutDecFull(q)[i] = Left(n, 10, i - 1) % 10
  <2>1. i = 1 \/ i = 2 \/ i = 3 \/ i = 4 \/ i = 5
    OBVIOUS
  <2>2. 1 - 1 = 0 /\ 2 - 1 = 1 /\ 3 - 1 = 2 /\ 4 - 1 = 3 /\ 5 - 1 = 4
    OBVIOUS
  <2>3. /\ PutDecFull(q)[1] = n % 10 /\ PutDecFull(q)[2] = n1 % 10 /\ PutDecFull(q)[3] = n2 % 10
        /\ PutDecFull(q)[4] = n3 % 10 /\ PutDecFull(q)[5] = n4 % 10
    BY <1>9
  <2> QED
    BY <1>8, <2>1, <2>2, <2>3, Zenon
<1> QED
  BY <1>8, <1>12, <1>13 DEF q, h

\* The front of a sequence.
LEMMA FrontOf ==
  \A q \in Seq(Nat), k \in 1..5 :
    Len(q) = 5 => /\ SubSeq(q, 1, k) \in Seq(Nat) /\ Len(SubSeq(q, 1, k)) = k
                  /\ \A i \in 1..k : SubSeq(q, 1, k)[i] = q[i]
<1> SUFFICES ASSUME NEW q \in Seq(Nat), NEW k \in 1..5, Len(q) = 5
             PROVE  /\ SubSeq(q, 1, k) \in Seq(Nat) /\ Len(SubSeq(q, 1, k)) = k
                    /\ \A i \in 1..k : SubSeq(q, 1, k)[i] = q[i]
  OBVIOUS
<1> DEFINE front == SubSeq(q, 1, k)
<1>1. k \in Int /\ 1 \in Int /\ (IF 1 <= k THEN k - 1 + 1 ELSE 0) = k /\ k - 1 + 1 = k
  OBVIOUS
<1>2. ASSUME NEW i \in 1..k PROVE q[i] \in Nat
  <2>1. i \in 1..Len(q)
    OBVIOUS
  <2> QED
    BY <2>1, ElementOfSeq, Zenon
<1>3. /\ front \in Seq(Nat) /\ Len(front) = k
      /\ \A i \in 1..k - 1 + 1 : front[i] = q[1 + i - 1]
  BY <1>1, <1>2, SubSeqProperties, Z3
<1> HIDE DEF front
<1>4. \A i \in 1..k : 1 + i - 1 = i
  OBVIOUS
<1>5. \A i \in 1..k : front[i] = q[i]
  BY <1>1, <1>3, <1>4
<1> QED
  BY <1>3, <1>5 DEF front

\* put_dec_trunc writes the numeral of a number of at most five digits.
LEMMA PutDecTruncIs ==
  ASSUME NEW n \in Nat
  PROVE  n < FivePlaces => PutDecTrunc(n) \in Seq(Nat) /\ IsNumeral(PutDecTrunc(n), n, 10)
<1> DEFINE q1 == n \div 10
           q2 == q1 \div 10
           q3 == q2 \div 10
           q4 == q3 \div 10
           Stop(k) == (k = 5 \/ Above(n)[k] = 0) /\ \A j \in 1..k - 1 : Above(n)[j] # 0
           last == CHOOSE k \in 1..5 : Stop(k)
           full == PutDecFull(n)
           ds == PutDecTrunc(n)
<1>1. n < FivePlaces => n % FivePlaces = n /\ n \div FivePlaces = 0
  BY DEF FivePlaces
<1>0. q1 = n \div 10 /\ q2 = q1 \div 10 /\ q3 = q2 \div 10 /\ q4 = q3 \div 10
  OBVIOUS
<1> HIDE DEF q1, q2, q3, q4
<1>2. n < FivePlaces =>
        /\ Above(n)[1] = 0 <=> q1 = 0
        /\ Above(n)[2] = 0 <=> q2 = 0
        /\ Above(n)[3] = 0 <=> q3 = 0
        /\ Above(n)[4] = 0 <=> q4 = 0
  BY <1>0, DecDigitsIs
<1>3. n < FivePlaces =>
        /\ full \in Seq(Nat) /\ Len(full) = 5 /\ Left(n, 10, 5) = 0
        /\ \A i \in 1..5 : full[i] = Left(n, 10, i - 1) % 10
  <2>1. /\ PutDecFull(n % FivePlaces) \in Seq(Nat) /\ Len(PutDecFull(n % FivePlaces)) = 5
        /\ Left(n, 10, 5) = n \div FivePlaces
        /\ \A i \in 1..5 : PutDecFull(n % FivePlaces)[i] = Left(n, 10, i - 1) % 10
    BY FiveDigitsAre
  <2> QED
    BY <1>1, <2>1
<1> SUFFICES ASSUME Above(n)[1] = 0 <=> q1 = 0, Above(n)[2] = 0 <=> q2 = 0,
                    Above(n)[3] = 0 <=> q3 = 0, Above(n)[4] = 0 <=> q4 = 0,
                    full \in Seq(Nat), Len(full) = 5, Left(n, 10, 5) = 0,
                    \A i \in 1..5 : full[i] = Left(n, 10, i - 1) % 10
             PROVE  ds \in Seq(Nat) /\ IsNumeral(ds, n, 10)
  BY <1>2, <1>3
<1> HIDE DEF full
<1>4. /\ Left(n, 10, 0) = n /\ Left(n, 10, 1) = q1 /\ Left(n, 10, 2) = q2 /\ Left(n, 10, 3) = q3
      /\ Left(n, 10, 4) = q4
  <2>1. /\ Left(n, 10, 0) = n /\ Left(n, 10, 0 + 1) = Left(n, 10, 0) \div 10
        /\ Left(n, 10, 1 + 1) = Left(n, 10, 1) \div 10 /\ Left(n, 10, 2 + 1) = Left(n, 10, 2) \div 10
        /\ Left(n, 10, 3 + 1) = Left(n, 10, 3) \div 10
    <3>1. 10 \in Nat \ {0} /\ 0 \in Nat /\ 1 \in Nat /\ 2 \in Nat /\ 3 \in Nat
      OBVIOUS
    <3> QED
      BY <3>1, LeftStep
  <2>2. 0 + 1 = 1 /\ 1 + 1 = 2 /\ 2 + 1 = 3 /\ 3 + 1 = 4
    OBVIOUS
  <2> QED
    BY <2>1, <2>2 DEF q1, q2, q3, q4
<1>5. \A j \in 1..4 : Above(n)[j] = 0 <=> Left(n, 10, j) = 0
  <2>1. \A j \in 1..4 : j = 1 \/ j = 2 \/ j = 3 \/ j = 4
    OBVIOUS
  <2> QED
    BY <1>4, <2>1
<1>6. last \in 1..5 /\ Stop(last)
  <2>1. \E k \in 1..5 : Stop(k)
    <3> HIDE DEF Stop
    <3>1. Stop(1) \/ Stop(2) \/ Stop(3) \/ Stop(4) \/ Stop(5)
      <4>1. 1..1 - 1 = {} /\ 1..2 - 1 = {1} /\ 1..3 - 1 = {1, 2} /\ 1..4 - 1 = {1, 2, 3}
            /\ 1..5 - 1 = {1, 2, 3, 4}
        OBVIOUS
      <4> QED
        BY <4>1 DEF Stop
    <3> QED
      BY <3>1
  <2> HIDE DEF Stop
  <2> QED
    BY <2>1
<1>7. ds = SubSeq(full, 1, last)
  BY Zenon DEF PutDecTrunc, full, last, Stop
<1> HIDE DEF last, ds
<1>8. ds \in Seq(Nat) /\ Len(ds) = last /\ \A i \in 1..last : ds[i] = full[i]
  <2>1. last \in 1..5 /\ full \in Seq(Nat) /\ Len(full) = 5
    BY <1>6
  <2> HIDE DEF full
  <2> QED
    BY <1>7, <2>1, FrontOf, Zenon
<1>9. Left(n, 10, last) = 0
  <2>1. CASE last = 5
    BY <2>1
  <2>2. CASE last # 5
    <3>1. last \in 1..4 /\ Above(n)[last] = 0
      BY <1>6, <2>2
    <3> QED
      BY <1>5, <3>1
  <2> QED
    BY <2>1, <2>2
<1>10. ASSUME last > 1 PROVE ds[last] # 0
  <2>1. last - 1 \in 1..4 /\ last - 1 \in 1..last - 1 /\ last \in 1..5
    BY <1>6, <1>10
  <2>2. Left(n, 10, last - 1) # 0
    <3>1. Above(n)[last - 1] # 0
      BY <1>6, <2>1
    <3> QED
      BY <1>5, <2>1, <3>1
  <2>3. Left(n, 10, last - 1) \in Nat /\ Left(n, 10, (last - 1) + 1) = Left(n, 10, last - 1) \div 10
    <3>1. last - 1 \in Nat /\ 10 \in Nat \ {0}
      BY <2>1
    <3> QED
      BY <3>1, LeftStep, Zenon
  <2>4. (last - 1) + 1 = last
    BY <2>1
  <2>5. Left(n, 10, last - 1) \div 10 = 0
    BY <1>9, <2>3, <2>4
  <2>6. \A x \in Nat : x \div 10 = 0 => x % 10 = x
    OBVIOUS
  <2>7. Left(n, 10, last - 1) % 10 # 0
    BY <2>2, <2>3, <2>5, <2>6
  <2> QED
    BY <1>8, <2>1, <2>7
<1>11. ASSUME NEW i \in 1..Len(ds) PROVE ds[i] = Left(n, 10, i - 1) % 10
  <2>1. i \in 1..5 /\ i \in 1..last
    BY <1>6, <1>8
  <2> QED
    BY <1>8, <2>1
<1>12. ds # <<>>
  BY <1>6, <1>8
<1> QED
  BY <1>8, <1>9, <1>10, <1>11, <1>12 DEF IsNumeral

\* A loop that writes: I, an invariant of what is left and what is written, is kept, and
\* every round leaves at most half the number.
LEMMA WritingEnds ==
  ASSUME NEW round, NEW s, NEW I \in SUBSET Writing, s \in I, \A x \in I : round[x] \in I,
         \A x \in I : round[x] = x \/ (x.num # 0 /\ round[x].num <= x.num \div 2),
         Left(s.num, 2, 64) = 0
  PROVE  /\ Rounds(round, s, MaxDigits) \in I
         /\ round[Rounds(round, s, MaxDigits)] = Rounds(round, s, MaxDigits)
<1> DEFINE J == {x \in I : x.num \in Short}
           v == [x \in J |-> Halvings(x.num)]
<1>1. s \in J /\ Halvings(s.num) <= 64 /\ Halvings(s.num) \in Nat
  <2>1. s.num \in Nat /\ 64 \in Nat
    BY DEF Writing
  <2>2. s.num \in Short
    BY <2>1 DEF Short
  <2> QED
    BY <2>1, <2>2, HalvingsIs
<1>2. ASSUME NEW x \in J
      PROVE  /\ round[x] \in J /\ Halvings(x.num) \in Nat
             /\ round[x] = x \/ Halvings(round[x].num) < Halvings(x.num)
  <2>1. x \in I /\ x.num \in Short /\ round[x] \in I /\ Halvings(x.num) \in Nat
    BY HalvingsIs
  <2>2. CASE round[x] = x
    BY <2>1, <2>2
  <2>3. CASE round[x] # x
    <3>1. x.num # 0 /\ round[x].num <= x.num \div 2 /\ round[x].num \in Nat
      BY <2>1, <2>3 DEF Writing
    <3>2. round[x].num \in Short /\ Halvings(round[x].num) < Halvings(x.num)
      BY <2>1, <3>1, HalvingsFall
    <3> QED
      BY <2>1, <3>2
  <2> QED
    BY <2>2, <2>3
<1>3. /\ v \in [J -> Nat] /\ v[s] <= MaxDigits /\ MaxDigits \in Nat
      /\ \A x \in J : round[x] = x \/ v[round[x]] < v[x]
  BY <1>1, <1>2 DEF MaxDigits
<1>4. \A x \in J : round[x] \in J
  BY <1>2
<1> HIDE DEF v, J
<1>5. /\ Rounds(round, s, MaxDigits) \in J
      /\ round[Rounds(round, s, MaxDigits)] = Rounds(round, s, MaxDigits)
  BY <1>1, <1>3, <1>4, LoopEnds
<1> QED
  BY <1>5 DEF J

\* put_dec writes the numeral of any number of 64 bits.
LEMMA PutDecIs ==
  ASSUME NEW n \in Nat, Left(n, 2, 64) = 0
  PROVE  IsNumeral(PutDec(n), n, 10)
<1> DEFINE round == [x \in Writing |-> IF x.num < FivePlaces THEN x
                      ELSE Written(x, FivePlaces, PutDecFull(DoDiv(x.num, FivePlaces).rem))]
           I == {x \in Writing : Partial(x, n, 10) /\ (x.digits = <<>> \/ x.num # 0)}
           s == Unwritten(n)
           z == FullFives(n)
<1>1. ASSUME NEW x \in Writing
      PROVE  round[x] = IF x.num < FivePlaces THEN x
                        ELSE Written(x, FivePlaces, PutDecFull(DoDiv(x.num, FivePlaces).rem))
  OBVIOUS
<1>2. z = Rounds(round, s, MaxDigits)
  BY Zenon DEF FullFives
<1> HIDE DEF round, z
<1>3. 10 \in Nat \ {0}
  OBVIOUS
<1>4. s \in I /\ s.num = n
  <2>1. Partial(s, n, 10)
    BY <1>3, UnwrittenIs
  <2>2. s.digits = <<>> /\ s.num = n
    BY DEF Unwritten
  <2> HIDE DEF s
  <2> QED
    BY <2>1, <2>2 DEF Partial
<1>5. ASSUME NEW x \in I, ~(x.num < FivePlaces)
      PROVE  round[x] \in I /\ x.num # 0 /\ round[x].num <= x.num \div 2
  <2> DEFINE b == PutDecFull(x.num % FivePlaces)
             y == [num |-> Left(x.num, 10, Len(b)), digits |-> x.digits \o b]
  <2>1. x \in Writing /\ Partial(x, n, 10) /\ x.num \in Nat /\ x.digits \in Seq(Nat)
    BY DEF Writing
  <2>2. /\ b \in Seq(Nat) /\ Len(b) = 5 /\ Left(x.num, 10, 5) = x.num \div FivePlaces
        /\ \A i \in 1..5 : b[i] = Left(x.num, 10, i - 1) % 10
    BY <2>1, FiveDigitsAre
  <2>3. round[x] = [num |-> x.num \div FivePlaces, digits |-> x.digits \o b]
    BY <1>1, <1>5, <2>1 DEF Written, DoDiv
  <2> HIDE DEF b
  <2>4. Partial(y, n, 10)
    <3>1. Lowest(b, x.num, 10)
      BY <2>2 DEF Lowest
    <3> QED
      BY <1>3, <2>1, <2>2, <3>1, WriteMore
  <2>5. round[x] = y
    BY <2>2, <2>3
  <2>6. x.num \div FivePlaces # 0 /\ x.num # 0 /\ x.num \div FivePlaces <= x.num \div 2
    BY <1>5, <2>1 DEF FivePlaces
  <2>7. round[x] \in I
    <3> HIDE DEF y
    <3>1. Partial(round[x], n, 10) /\ round[x] \in Writing
      BY <2>4, <2>5 DEF Partial
    <3>2. round[x].num # 0
      BY <2>3, <2>6
    <3> QED
      BY <3>1, <3>2
  <2> QED
    BY <2>3, <2>6, <2>7
<1>6. ASSUME NEW x \in I, x.num < FivePlaces PROVE round[x] = x
  BY <1>1, <1>6
<1>7. /\ I \in SUBSET Writing
      /\ \A x \in I : round[x] \in I
      /\ \A x \in I : round[x] = x \/ (x.num # 0 /\ round[x].num <= x.num \div 2)
  <2>1. I \in SUBSET Writing
    OBVIOUS
  <2> HIDE DEF I, s
  <2> QED
    BY <1>5, <1>6, <2>1
<1>8. z \in I /\ round[z] = z
  <2> HIDE DEF I, s
  <2> QED
    BY <1>2, <1>4, <1>7, WritingEnds
<1>9. z.num < FivePlaces
  <2> SUFFICES ASSUME ~(z.num < FivePlaces) PROVE FALSE
    OBVIOUS
  <2>1. z.num # 0 /\ round[z].num <= z.num \div 2
    BY <1>5, <1>8
  <2>2. z.num \in Nat
    BY <1>8 DEF Writing
  <2> QED
    BY <1>8, <2>1, <2>2
<1> DEFINE b == PutDecTrunc(z.num)
<1>10. z \in Writing /\ Partial(z, n, 10) /\ z.num \in Nat /\ z.digits \in Seq(Nat)
  BY <1>8 DEF Writing
<1>11. b \in Seq(Nat) /\ IsNumeral(b, z.num, 10)
  BY <1>9, <1>10, PutDecTruncIs
<1>12. PutDec(n) = z.digits \o b
  BY Zenon DEF PutDec, z
<1> HIDE DEF b
<1>13. /\ z.num = Left(n, 10, Len(z.digits)) /\ Lowest(z.digits, n, 10) /\ Lowest(b, z.num, 10)
       /\ Left(z.num, 10, Len(b)) = 0 /\ b # <<>> /\ (Len(b) > 1 => b[Len(b)] # 0)
  BY <1>10, <1>11 DEF Partial, IsNumeral, Lowest
<1>14. /\ z.digits \o b \in Seq(Nat) /\ Len(z.digits \o b) = Len(z.digits) + Len(b)
       /\ Left(n, 10, Len(z.digits \o b)) = Left(z.num, 10, Len(b))
       /\ Lowest(z.digits \o b, n, 10)
  <2>1. /\ Left(n, 10, Len(z.digits) + Len(b)) = Left(Left(n, 10, Len(z.digits)), 10, Len(b))
        /\ Lowest(z.digits \o b, n, 10)
    <3>1. Lowest(b, Left(n, 10, Len(z.digits)), 10)
      BY <1>13, Zenon
    <3> QED
      BY <1>3, <1>10, <1>11, <1>13, <3>1, JoinDigits, Zenon
  <2>2. z.digits \o b \in Seq(Nat) /\ Len(z.digits \o b) = Len(z.digits) + Len(b)
    BY <1>10, <1>11
  <2> QED
    BY <1>13, <2>1, <2>2, Zenon
<1>15. Len(b) \in Nat /\ Len(b) >= 1 /\ Len(z.digits) \in Nat
  BY <1>10, <1>11, <1>13
<1>16. (z.digits \o b)[Len(z.digits) + Len(b)] = b[Len(b)]
  BY <1>10, <1>11, <1>15
<1>17. ASSUME Len(z.digits \o b) > 1 PROVE b[Len(b)] # 0
  <2>1. CASE Len(b) > 1
    BY <1>13, <2>1
  <2>2. CASE Len(b) = 1
    <3>1. z.num # 0
      <4>1. z.digits # <<>>
        BY <1>14, <1>17, <2>2
      <4> QED
        BY <1>8, <4>1
    <3>2. b[1] = Left(z.num, 10, 0) % 10 /\ Left(z.num, 10, 1) = 0
      BY <1>13, <2>2 DEF Lowest
    <3>3. Left(z.num, 10, 0) = z.num /\ Left(z.num, 10, 0 + 1) = Left(z.num, 10, 0) \div 10
      BY <1>3, <1>10, LeftStep
    <3>4. b[1] = z.num % 10 /\ z.num \div 10 = 0
      BY <3>2, <3>3
    <3> QED
      BY <1>10, <2>2, <3>1, <3>4
  <2>3. Len(b) > 1 \/ Len(b) = 1
    <3>1. \A k \in Nat : k >= 1 => k > 1 \/ k = 1
      OBVIOUS
    <3> QED
      BY <1>15, <3>1, Zenon
  <2> QED
    BY <2>1, <2>2, <2>3, Zenon
<1>18. z.digits \o b # <<>> /\ Left(n, 10, Len(z.digits \o b)) = 0
  BY <1>13, <1>14, <1>15
<1> QED
  BY <1>12, <1>14, <1>16, <1>17, <1>18 DEF IsNumeral, Lowest

\* A sequence with one more at its end.
LEMMA OneMore ==
  ASSUME NEW S, NEW a \in Seq(S), NEW c \in S
  PROVE  a \o <<c>> \in Seq(S) /\ Len(a \o <<c>>) = Len(a) + 1 /\ (a \o <<c>>)[Len(a) + 1] = c
OBVIOUS

\* The division loops write the numeral of any number of 64 bits, in every base the code
\* asks for.
LEMMA DigitsOfIs ==
  ASSUME NEW base \in {8, 10, 16}, NEW n \in Nat, Left(n, 2, 64) = 0
  PROVE  DigitsOf(n, base) \in Seq(0..base - 1) /\ IsNumeral(DigitsOf(n, base), n, base)
<1> DEFINE round == [x \in Writing |-> IF x.num = 0 THEN x ELSE PutDigit(x, base)]
           Good(x) == /\ Partial(x, n, base) /\ x.digits \in Seq(0..base - 1) /\ x.digits # <<>>
                      /\ x.num = 0 /\ Len(x.digits) > 1 => x.digits[Len(x.digits)] # 0
           I == {x \in Writing : Good(x)}
           s == PutDigit(Unwritten(n), base)
           z == Rounds(round, s, MaxDigits)
<1>1. ASSUME NEW x \in Writing PROVE round[x] = IF x.num = 0 THEN x ELSE PutDigit(x, base)
  OBVIOUS
<1>2. DigitsOf(n, base) = z.digits
  BY Zenon DEF DigitsOf
<1> HIDE DEF round, z
<1>3. base \in Nat \ {0}
  OBVIOUS
<1>4. ASSUME NEW x, Partial(x, n, base), x.digits \in Seq(0..base - 1)
      PROVE  LET y == PutDigit(x, base) IN
             /\ Partial(y, n, base) /\ y.digits \in Seq(0..base - 1)
             /\ Len(y.digits) = Len(x.digits) + 1
             /\ y.digits[Len(y.digits)] = x.num % base /\ y.num = x.num \div base
             /\ y.num \in Nat /\ y.num <= x.num \div 2
  <2> DEFINE b == <<x.num % base>>
             y == [num |-> Left(x.num, base, Len(b)), digits |-> x.digits \o b]
             p == PutDigit(x, base)
  <2>1. x \in Writing /\ x.num \in Nat /\ x.digits \in Seq(Nat)
    BY <1>4 DEF Partial, Writing
  <2>2. x.num % base \in 0..base - 1 /\ x.num \div base \in Nat /\ x.num \div base <= x.num \div 2
    BY <2>1
  <2>3. b \in Seq(Nat) /\ Len(b) = 1 /\ b[1] = x.num % base /\ b \in Seq(0..base - 1)
    BY <2>2
  <2>4. Left(x.num, base, 0) = x.num /\ Left(x.num, base, 1) = x.num \div base
    <3>1. Left(x.num, base, 0) = x.num /\ Left(x.num, base, 0 + 1) = Left(x.num, base, 0) \div base
      BY <1>3, <2>1, LeftStep
    <3> QED
      BY <3>1
  <2>5. p = [num |-> x.num \div base, digits |-> x.digits \o b]
    BY DEF PutDigit, Written, DoDiv
  <2> HIDE DEF b, p
  <2>6. Partial(y, n, base)
    <3>1. Lowest(b, x.num, base)
      BY <2>3, <2>4 DEF Lowest
    <3> QED
      BY <1>3, <1>4, <2>3, <3>1, WriteMore
  <2>7. p = y
    BY <2>3, <2>4, <2>5
  <2>8. /\ x.digits \o b \in Seq(0..base - 1) /\ Len(x.digits \o b) = Len(x.digits) + 1
        /\ (x.digits \o b)[Len(x.digits) + 1] = x.num % base
    BY <1>4, <2>2, OneMore, Zenon DEF b
  <2>9. p.digits = x.digits \o b /\ p.num = x.num \div base
    BY <2>5
  <2> HIDE DEF y
  <2>10. /\ Partial(p, n, base) /\ p.digits \in Seq(0..base - 1) /\ Len(p.digits) = Len(x.digits) + 1
         /\ p.digits[Len(p.digits)] = x.num % base
    BY <2>6, <2>7, <2>8, <2>9
  <2> QED
    BY <2>2, <2>9, <2>10 DEF p
<1>5. s \in I /\ s.num <= n /\ s.num \in Nat
  <2> DEFINE x == Unwritten(n)
  <2>1. Partial(x, n, base) /\ x.digits = <<>> /\ x.num = n
    BY <1>3, UnwrittenIs DEF Unwritten
  <2> HIDE DEF x
  <2>2. x.digits \in Seq(0..base - 1) /\ Len(x.digits) = 0
    BY <2>1
  <2>3. s = PutDigit(x, base)
    BY DEF x
  <2> HIDE DEF s
  <2>4. /\ Partial(s, n, base) /\ s.digits \in Seq(0..base - 1) /\ Len(s.digits) = 0 + 1
        /\ s.num \in Nat /\ s.num <= n \div 2
    BY <1>4, <2>1, <2>2, <2>3
  <2>5. s \in Writing
    BY <2>4 DEF Partial
  <2>6. Good(s)
    <3>1. s.digits # <<>> /\ ~(Len(s.digits) > 1)
      <4>1. Len(s.digits) = 1
        BY <2>4
      <4>2. Len(<<>>) = 0 /\ 1 # 0 /\ ~(1 > 1)
        OBVIOUS
      <4> QED
        BY <4>1, <4>2, Zenon
    <3> QED
      BY <2>4, <3>1, Zenon
  <2>7. s.num <= n
    BY <2>4
  <2> HIDE DEF Good
  <2> QED
    BY <2>4, <2>5, <2>6, <2>7
<1>6. ASSUME NEW x \in I, x.num # 0
      PROVE  round[x] \in I /\ round[x].num <= x.num \div 2
  <2> DEFINE y == PutDigit(x, base)
  <2>1. x \in Writing /\ Partial(x, n, base) /\ x.digits \in Seq(0..base - 1) /\ x.num \in Nat
    BY DEF Writing
  <2>2. round[x] = y
    BY <1>1, <1>6, <2>1
  <2> HIDE DEF y, I
  <2>3. /\ Partial(y, n, base) /\ y.digits \in Seq(0..base - 1)
        /\ Len(y.digits) = Len(x.digits) + 1
        /\ y.digits[Len(y.digits)] = x.num % base /\ y.num = x.num \div base
        /\ y.num \in Nat /\ y.num <= x.num \div 2
    BY <1>4, <2>1 DEF y
  <2>4. y.num = 0 => x.num % base = x.num
    <3>1. \A k \in Nat : k \div base = 0 => k % base = k
      OBVIOUS
    <3> QED
      BY <2>1, <2>3, <3>1
  <2>5. y \in Writing
    BY <2>3 DEF Partial
  <2>6. y.digits # <<>>
    BY <2>1, <2>3
  <2>7. Good(y)
    BY <1>6, <2>3, <2>4, <2>6
  <2> HIDE DEF Good
  <2> QED
    BY <2>2, <2>3, <2>5, <2>7 DEF I
<1>7. ASSUME NEW x \in I, x.num = 0 PROVE round[x] = x
  BY <1>1, <1>7
<1>8. /\ I \in SUBSET Writing
      /\ \A x \in I : round[x] \in I
      /\ \A x \in I : round[x] = x \/ (x.num # 0 /\ round[x].num <= x.num \div 2)
  <2>1. I \in SUBSET Writing
    OBVIOUS
  <2> HIDE DEF I, s
  <2> QED
    BY <1>6, <1>7, <2>1
<1>9. Left(s.num, 2, 64) = 0
  <2> HIDE DEF s
  <2>1. 2 \in Nat \ {0} /\ 64 \in Nat
    OBVIOUS
  <2>2. Left(s.num, 2, 64) <= Left(n, 2, 64) /\ Left(s.num, 2, 64) \in Nat
    BY <1>5, <2>1, LeftOrder, LeftStep
  <2> QED
    BY <2>2
<1>10. z \in I /\ round[z] = z
  <2> HIDE DEF I, s
  <2> QED
    BY <1>5, <1>8, <1>9, WritingEnds DEF z
<1>11. z.num = 0
  <2> SUFFICES ASSUME z.num # 0 PROVE FALSE
    OBVIOUS
  <2>1. round[z].num <= z.num \div 2
    BY <1>6, <1>10
  <2>2. z.num \in Nat
    BY <1>10 DEF Writing
  <2> QED
    BY <1>10, <2>1, <2>2
<1>12. /\ Partial(z, n, base) /\ z.digits \in Seq(0..base - 1) /\ z.digits # <<>>
       /\ Len(z.digits) > 1 => z.digits[Len(z.digits)] # 0
  BY <1>10, <1>11
<1> QED
  BY <1>2, <1>11, <1>12 DEF IsNumeral, Partial, Lowest

\* A reading that moves on by one character or not at all ends within as many rounds
\* as there are characters.
LEMMA ReadingEnds ==
  ASSUME NEW round, NEW s, NEW L \in Nat, NEW I, s \in I, s.end = 1, \A x \in I : x.end \in 1..L + 1,
         \A x \in I : round[x] \in I,
         \A x \in I : round[x] = x \/ round[x].end = x.end + 1
  PROVE  Rounds(round, s, L) \in I /\ round[Rounds(round, s, L)] = Rounds(round, s, L)
<1> DEFINE v == [x \in I |-> L + 1 - x.end]
<1>1. \A x \in I : L + 1 - x.end \in Nat /\ v[x] = L + 1 - x.end /\ x.end \in Nat
  OBVIOUS
<1>2. v \in [I -> Nat]
  BY <1>1
<1> HIDE DEF v
<1>3. v[s] <= L
  BY <1>1
<1>4. ASSUME NEW x \in I PROVE round[x] = x \/ v[round[x]] < v[x]
  <2>1. round[x] \in I
    OBVIOUS
  <2>2. v[round[x]] = L + 1 - round[x].end /\ v[x] = L + 1 - x.end /\ x.end \in Nat
    BY <1>1, <2>1
  <2> QED
    BY <2>2
<1> QED
  BY <1>2, <1>3, <1>4, LoopEnds

\* The loop of simple_strtoul reads a numeral as the number it was made from.
LEMMA GatherIs ==
  ASSUME NEW base \in {8, 10, 16}, NEW n \in Nat, NEW d \in Seq(0..base - 1),
         IsNumeral(d, n, base), NEW small \in BOOLEAN
  PROVE  Gather(Reversed(d, small), 1, base) = [value |-> n, end |-> Len(d) + 1]
<1> DEFINE t == Reversed(d, small)
           L == Len(d)
           Digit(x) == DigitValue(At(t, x.end))
           round == [x \in Reading |->
                       IF DigitValue(At(t, x.end)) \in 0..base - 1
                       THEN [value |-> x.value * base + DigitValue(At(t, x.end)), end |-> x.end + 1]
                       ELSE x]
           I == {x \in Reading : x.end \in 1..L + 1 /\ x.value = Left(n, base, L + 1 - x.end)}
           s == [value |-> 0, end |-> 1]
           z == Rounds(round, s, L)
<1>1. ASSUME NEW x \in Reading
      PROVE  round[x] = IF Digit(x) \in 0..base - 1
                        THEN [value |-> x.value * base + Digit(x), end |-> x.end + 1] ELSE x
  OBVIOUS
<1>2. L \in Nat /\ L >= 1 /\ base \in Nat \ {0}
  BY DEF IsNumeral
<1>3. /\ t = [i \in 1..L |-> DigitChar(d[L + 1 - i], small)] /\ Len(t) = L
  BY <1>2 DEF Reversed
<1>4. Gather(t, 1, base) = Rounds(round, s, Len(t))
  BY Zenon DEF Gather
<1> HIDE DEF round, t, z
<1>5. ASSUME NEW k \in 0..base - 1 PROVE DigitValue(DigitChar(k, small)) = k
  BY DEF DigitValue, DigitChar, Zero
<1>6. ASSUME NEW e \in 1..L
      PROVE  /\ DigitValue(At(t, e)) = Left(n, base, L - e) % base
             /\ DigitValue(At(t, e)) \in 0..base - 1
  <2>1. L + 1 - e \in 1..L /\ (L + 1 - e) - 1 = L - e
    BY <1>2
  <2>2. At(t, e) = DigitChar(d[L + 1 - e], small)
    BY <1>3 DEF At
  <2>3. d[L + 1 - e] \in 0..base - 1
    BY <2>1
  <2>4. d[L + 1 - e] = Left(n, base, L - e) % base
    BY <2>1 DEF IsNumeral
  <2> QED
    BY <1>5, <2>2, <2>3, <2>4
<1>7. s \in I
  <2>1. Left(n, base, L) = 0
    BY DEF IsNumeral
  <2>2. s \in Reading /\ s.end = 1 /\ s.value = 0 /\ L + 1 - s.end = L
    BY <1>2 DEF Reading
  <2> QED
    BY <1>2, <2>1, <2>2
<1>8. ASSUME NEW x \in I, x.end <= L
      PROVE  round[x] \in I /\ round[x].end = x.end + 1
  <2> DEFINE e == x.end
  <2>1. x \in Reading /\ e \in 1..L /\ x.value = Left(n, base, L + 1 - e)
    BY <1>2, <1>8
  <2>2. round[x] = [value |-> x.value * base + (Left(n, base, L - e) % base), end |-> e + 1]
    <3>1. Digit(x) = Left(n, base, L - e) % base /\ Digit(x) \in 0..base - 1
      BY <1>6, <2>1
    <3>2. round[x] = [value |-> x.value * base + Digit(x), end |-> x.end + 1]
      BY <1>1, <2>1, <3>1, Zenon
    <3> QED
      BY <3>1, <3>2, Zenon
  <2>3. L - e \in Nat /\ (L - e) + 1 = L + 1 - e /\ L + 1 - (e + 1) = L - e
    BY <1>2, <2>1
  <2>4. /\ Left(n, base, L - e) \in Nat
        /\ Left(n, base, (L - e) + 1) = Left(n, base, L - e) \div base
    BY <1>2, <2>3, LeftStep
  <2>5. \A k \in Nat : (k \div base) * base + (k % base) = k
    <3>1. base = 8 \/ base = 10 \/ base = 16
      OBVIOUS
    <3>2. \A k \in Nat : (k \div 8) * 8 + (k % 8) = k
      OBVIOUS
    <3>3. \A k \in Nat : (k \div 10) * 10 + (k % 10) = k
      OBVIOUS
    <3>4. \A k \in Nat : (k \div 16) * 16 + (k % 16) = k
      OBVIOUS
    <3> QED
      BY <3>1, <3>2, <3>3, <3>4, Zenon
  <2>6. x.value * base + (Left(n, base, L - e) % base) = Left(n, base, L - e)
    BY <2>1, <2>3, <2>4, <2>5
  <2>7. round[x] = [value |-> Left(n, base, L - e), end |-> e + 1]
    BY <2>2, <2>6
  <2>8. e + 1 \in 1..L + 1 /\ e + 1 \in Nat
    BY <1>2, <2>1
  <2> HIDE DEF e
  <2>9. round[x] \in Reading /\ round[x].end = e + 1 /\ round[x].value = Left(n, base, L + 1 - (e + 1))
    BY <2>3, <2>4, <2>7, <2>8 DEF Reading
  <2>10. round[x] \in I
    BY <2>8, <2>9
  <2> QED
    BY <2>9, <2>10 DEF e
<1>9. ASSUME NEW x \in I, ~(x.end <= L) PROVE round[x] = x
  <2>1. x \in Reading /\ x.end = L + 1
    BY <1>2, <1>9
  <2>2. At(t, x.end) = 0
    BY <1>2, <1>3, <2>1 DEF At
  <2>3. DigitValue(0) = -1
    BY DEF DigitValue, Zero
  <2>4. Digit(x) \notin 0..base - 1
    BY <2>2, <2>3
  <2> QED
    BY <1>1, <2>1, <2>4
<1>10. /\ s.end = 1 /\ \A x \in I : x.end \in 1..L + 1
       /\ \A x \in I : round[x] \in I
       /\ \A x \in I : round[x] = x \/ round[x].end = x.end + 1
  <2>1. s.end = 1 /\ \A x \in I : x.end \in 1..L + 1
    OBVIOUS
  <2> HIDE DEF I, s
  <2> QED
    BY <1>8, <1>9, <2>1
<1>11. z \in I /\ round[z] = z
  <2>1. z = Rounds(round, s, L)
    BY DEF z
  <2>2. L \in Nat
    BY <1>2
  <2> HIDE DEF I, s, L
  <2> QED
    BY <1>7, <1>10, <2>1, <2>2, ReadingEnds
<1>12. z.end = L + 1
  <2>1. z.end \in 1..L + 1
    BY <1>11
  <2>2. ~(z.end <= L)
    <3> HIDE DEF I
    <3>1. z.end <= L => round[z].end = z.end + 1
      BY <1>8, <1>11
    <3>2. z.end \in Nat => z.end + 1 # z.end
      OBVIOUS
    <3> QED
      BY <1>2, <1>11, <2>1, <3>1, <3>2
  <2> QED
    BY <1>2, <2>1, <2>2
<1>13. z.value = n
  <2>1. z.value = Left(n, base, 0)
    BY <1>2, <1>11, <1>12
  <2> QED
    BY <1>2, <2>1, LeftStep
<1>14. z = [value |-> n, end |-> L + 1]
  <2>1. z \in Reading
    BY <1>11
  <2> QED
    BY <1>12, <1>13, <2>1 DEF Reading
<1> QED
  BY <1>3, <1>4, <1>14 DEF t, z
----------------------------------------------------------------------------
(***************************************************************************)
(* The calls.                                                              *)
(***************************************************************************)
LEMMA IdleExact ==
  ASSUME call = Idle
  PROVE  ArithmeticExact
<1>1. call.op = "none"
  BY DEF Idle
<1> QED
  BY <1>1 DEF ArithmeticExact, DivisionExact, LongsExact, TimesExact, NumeralsExact

\* The calls that divide words,
LEMMA DivideExact ==
  ASSUME NEW a \in Word, NEW b \in Word \ {0}, Divide(a, b)
  PROVE  ArithmeticExact'
<1>1. /\ call'.op = "divide" /\ call'.a = a /\ call'.b = b /\ call'.udiv = UDiv(a, b)
      /\ call'.umod = UMod(a, b) /\ call'.rem = UDivMod(a, b).rem /\ call'.sdiv = SDiv(a, b)
      /\ call'.smod = SMod(a, b)
  BY DEF Divide
<1>2. UDiv(a, b) = a \div b /\ UDivMod(a, b).rem = a % b
  BY UDivIs, UDivModIs
<1>3. a \div b < 2^(W - 3) => UMod(a, b) = a % b
  BY UModIs
<1> DEFINE x == Signed(a)
           y == Signed(b)
<1>4. IF IsPower(Abs(y)) \/ Abs(x) <= Abs(y)
      THEN SDiv(a, b) = Unsigned(Quotient(x, y)) /\ SMod(a, b) = Unsigned(Remainder(x, y))
      ELSE /\ SDiv(a, b) = Unsigned(Sign(x) * Sign(y) * (Abs(x) \div ShiftedUp(Abs(x), Abs(y))))
           /\ SMod(a, b) = Unsigned(Sign(x) * (Abs(x) % ShiftedUp(Abs(x), Abs(y))))
  BY SignedExact
<1>5. DivisionExact'
  BY <1>1, <1>2, <1>3, <1>4, Zenon DEF DivisionExact
<1>6. LongsExact' /\ TimesExact' /\ NumeralsExact'
  BY <1>1 DEF LongsExact, TimesExact, NumeralsExact
<1> QED
  BY <1>5, <1>6 DEF ArithmeticExact

\* that divide pairs of words,
LEMMA LongExact ==
  ASSUME NEW n \in Longs, NEW b \in Word \ {0}, DivideLong(n, b)
  PROVE  ArithmeticExact'
<1>1. call'.op = "long" /\ call'.n = n /\ call'.b = b /\ call'.div = Div64(n, b)
  BY DEF DivideLong
<1>2. n \in 0..Base * Base - 1
  BY CallsAssumption
<1>3. Div64(n, b) = [quot |-> n \div b, rem |-> n % b]
  BY <1>2, Div64Is
<1>4. LongsExact'
  BY <1>1, <1>3 DEF LongsExact
<1>5. DivisionExact' /\ TimesExact' /\ NumeralsExact'
  BY <1>1 DEF DivisionExact, TimesExact, NumeralsExact
<1> QED
  BY <1>4, <1>5 DEF ArithmeticExact

\* that shift them,
LEMMA ShiftExact ==
  ASSUME NEW n \in Longs, NEW k \in Shifts, Shift(n, k)
  PROVE  ArithmeticExact'
<1>1. /\ call'.op = "shift" /\ call'.n = n /\ call'.k = k /\ call'.left = ShiftLeft(n, k)
      /\ call'.right = ShiftRight(n, k) /\ call'.signed = ShiftRightSigned(n, k)
  BY DEF Shift
<1>2. n \in 0..Base * Base - 1 /\ k \in Nat
  BY ArithmeticAssumption, CallsAssumption
<1>3. /\ ShiftLeft(n, k) = (n * 2^k) % (Base * Base) /\ ShiftRight(n, k) = n \div 2^k
      /\ ShiftRightSigned(n, k) = (SignedLong(n) \div 2^k) % (Base * Base)
  BY <1>2, ShiftLeftIs, ShiftRightIs, ShiftRightSignedIs
<1>4. LongsExact'
  BY <1>1, <1>3 DEF LongsExact, SignedLong
<1>5. DivisionExact' /\ TimesExact' /\ NumeralsExact'
  BY <1>1 DEF DivisionExact, TimesExact, NumeralsExact
<1> QED
  BY <1>4, <1>5 DEF ArithmeticExact

\* that calculate with times,
LEMMA TimeExact ==
  ASSUME NEW s \in TimeVals, NEW d \in TimeVals, Time(s, d)
  PROVE  ArithmeticExact'
<1>1. /\ call'.op = "time" /\ call'.s = s /\ call'.d = d /\ call'.cmp = CmpTime(s, d)
      /\ call'.add = AddTime(s, d) /\ call'.sub = SubTime(s, d)
  BY DEF Time
<1>2. s \in [secs : Word, micro : Word] /\ d \in [secs : Word, micro : Word]
  BY CallsAssumption
<1>3. /\ (Abs(s.secs - d.secs) < Half /\ s.micro < Million /\ d.micro < Million)
           => CmpTime(s, d) = Sign(Micros(s) - Micros(d))
  BY <1>2, CmpTimeIs
<1>4. s.micro + d.micro < Base =>
        /\ AddTime(s, d).micro < Million
        /\ (Micros(AddTime(s, d)) - Micros(s) - Micros(d)) % (Base * Million) = 0
  BY <1>2, AddTimeIs
<1>5. /\ SubTime(s, d).dst.micro \in 0..Million - 1
      /\ (Micros(SubTime(s, d).dst) - Micros(d) + Micros(s)) % (Base * Million) = 0
  BY <1>2, SubTimeIs
<1>8. /\ SubTime(s, d).src.micro < Million
      /\ (Micros(SubTime(s, d).src) - Micros(s)) % (Base * Million) = 0
  BY <1>2, SubTimeKeeps
<1>6. TimesExact'
  BY <1>1, <1>3, <1>4, <1>5, <1>8, Zenon DEF TimesExact
<1>7. DivisionExact' /\ LongsExact' /\ NumeralsExact'
  BY <1>1 DEF DivisionExact, LongsExact, NumeralsExact
<1> QED
  BY <1>6, <1>7 DEF ArithmeticExact

\* and that write numbers and read them.
LEMMA NumberExact ==
  ASSUME NEW n \in Printed, NEW base \in {8, 10, 16}, NEW small \in BOOLEAN,
         WriteNumber(n, base, small)
  PROVE  ArithmeticExact'
<1> DEFINE d == DigitsOf(n, base)
<1>1. /\ call'.op = "number" /\ call'.n = n /\ call'.base = base /\ call'.digits = d
      /\ call'.dec = PutDec(n) /\ call'.read = Gather(Reversed(d, small), 1, base)
  BY DEF WriteNumber
<1>2. n \in Nat /\ Left(n, 2, 64) = 0
  BY CallsAssumption
<1>3. d \in Seq(0..base - 1) /\ IsNumeral(d, n, base)
  BY <1>2, DigitsOfIs
<1> HIDE DEF d
<1>4. IsNumeral(PutDec(n), n, 10)
  BY <1>2, PutDecIs
<1>5. Gather(Reversed(d, small), 1, base) = [value |-> n, end |-> Len(d) + 1]
  BY <1>2, <1>3, GatherIs
<1>6. NumeralsExact'
  <2>1. IsNumeral(call.digits, call.n, call.base)'
    BY <1>1, <1>3 DEF IsNumeral
  <2>2. IsNumeral(call.dec, call.n, 10)'
    BY <1>1, <1>4 DEF IsNumeral
  <2>3. call'.read = [value |-> call'.n, end |-> Len(call'.digits) + 1]
    BY <1>1, <1>5
  <2> QED
    BY <2>1, <2>2, <2>3 DEF NumeralsExact
<1>7. DivisionExact' /\ LongsExact' /\ TimesExact'
  BY <1>1 DEF DivisionExact, LongsExact, TimesExact
<1> QED
  BY <1>6, <1>7 DEF ArithmeticExact

\* The compiler's run-time routines, the arithmetic on times and the writing and reading
\* of numbers give the results that ArithmeticExact states, on words of every size from
\* four bits on: for every pair of words, every choice of pairs of words, places to shift
\* by and times, and every number of 64 bits in every base (_udivsi3.s, _umodsi3.s,
\* _divsi3.s, _modsi3.s, div64.c, _ashldi3.s, _ashrdi3.s, _lshrdi3.s, timerfuncs.c,
\* vsprintf.c, rawdoformat.c, uart.c).
THEOREM ArithmeticCorrect == ArithmeticSpec => []ArithmeticExact
<1>1. SupInit => ArithmeticExact
  BY IdleExact DEF SupInit
<1>2. ArithmeticExact /\ [(call = Idle /\ ArithmeticCall) \/ Return]_call => ArithmeticExact'
  <2> SUFFICES ASSUME ArithmeticExact, [(call = Idle /\ ArithmeticCall) \/ Return]_call
               PROVE  ArithmeticExact'
    OBVIOUS
  <2>1. CASE \E a \in Word, b \in Word \ {0} : Divide(a, b)
    BY <2>1, DivideExact
  <2>2. CASE \E n \in Longs, b \in Word \ {0} : DivideLong(n, b)
    BY <2>2, LongExact
  <2>3. CASE \E n \in Longs, k \in Shifts : Shift(n, k)
    BY <2>3, ShiftExact
  <2>4. CASE \E s, d \in TimeVals : Time(s, d)
    BY <2>4, TimeExact
  <2>5. CASE \E n \in Printed, base \in {8, 10, 16}, small \in BOOLEAN : WriteNumber(n, base, small)
    BY <2>5, NumberExact
  <2>6. CASE Return
    <3>1. call'.op = "none"
      BY <2>6 DEF Return, Idle
    <3> QED
      BY <3>1 DEF ArithmeticExact, DivisionExact, LongsExact, TimesExact, NumeralsExact
  <2>7. CASE UNCHANGED call
    BY <2>7 DEF ArithmeticExact, DivisionExact, LongsExact, TimesExact, NumeralsExact, IsNumeral
  <2> QED
    BY <2>1, <2>2, <2>3, <2>4, <2>5, <2>6, <2>7 DEF ArithmeticCall
<1> QED
  BY <1>1, <1>2, PTL DEF ArithmeticSpec
=============================================================================
