-------------------------- MODULE TestDeviceProof --------------------------
(***************************************************************************)
(* Theorems about TestDevice, for any number of clients and any use they   *)
(* make of the device.                                                     *)
(*                                                                         *)
(* Nothing protects the two halves of Wait's update of SigRecvd, nor its   *)
(* test from its sleep.  What saves the device task is OneCPU: while it is *)
(* anywhere but asleep or just woken, no client runs.  Heard is what it    *)
(* has seen of its signals by then; Held says where a client's request is, *)
(* Known that the device knows of it, Told that the client knows of its    *)
(* reply, and Done what io_Error is worth.                                 *)
(***************************************************************************)
EXTENDS TestDevice, ExecListTheorems, FiniteSetTheorems, TLAPS

\* Where the tasks may be.
Steps ==
  /\ pc[Dev] \in WaitPC \cup DevPC
  /\ \A c \in Client : pc[c] \in WaitPC \cup ClientPC
  /\ pc[Idle] = "user"

\* A device task that can run has the CPU, or has just been woken.
OneCPU ==
  /\ Distinct(ready) /\ SortedBy(ready, pri)
  /\ cpu \notin ToSet(ready)
  /\ Idle \in ToSet(ready) \cup {cpu}
  /\ \A t \in ToSet(ready) \cup {cpu} : pc[t] # "asleep"
  /\ cpu # Dev => \/ pc[Dev] = "asleep"
                  \/ pc[Dev] = "test" /\ Dev \in ToSet(ready)

Heard ==
  /\ pc[Dev] \in {"sleep", "asleep"} => "task" \notin sig[Dev]
  /\ pc[Dev] = "load" => sig[Dev] # {}
  /\ pc[Dev] = "store" => reg[Dev] # {} /\ ("task" \in sig[Dev] => "task" \in reg[Dev])
  /\ \/ "time" \in sig[Dev]
     \/ pc[Dev] = "store" /\ "time" \in reg[Dev]
     \/ pc[Dev] = "timer"
     => timer = 0
  /\ pc[Dev] = "timer" => "time" \notin sig[Dev]
  /\ pc[Dev] \in {"perform", "reply", "replysig"} => current \in Client

Waiting(c) == c \in ToSet(taskPort)

Held(c) ==
  /\ port[c] \in {<<>>, <<c>>}
  /\ pc[c] \in {"user", "put"} => ~Waiting(c) /\ ~InService(c) /\ port[c] = <<>>
  /\ pc[c] \notin {"user", "put"} =>
       /\ type[c] \in {"MESSAGE", "REPLYMSG"}
       /\ type[c] = "REPLYMSG" => ~Waiting(c) /\ ~InService(c) /\ port[c] = <<c>>
       /\ type[c] = "MESSAGE" => (Waiting(c) <=> ~InService(c)) /\ port[c] = <<>>
  /\ pc[c] \notin {"user", "put", "putsig", "flags"} => ~quick[c]
  /\ pc[c] = "remove" => type[c] = "REPLYMSG"

Known(c) ==
  Waiting(c) => \/ pc[c] = "putsig" \/ "task" \in sig[Dev]
                \/ pc[Dev] \in {"serve", "perform", "reply", "replysig"}

Told(c) ==
  pc[c] \in {"test", "sleep", "asleep"} /\ type[c] = "REPLYMSG" =>
    "reply" \in sig[c] \/ (current = c /\ pc[Dev] = "replysig")

Done(c) ==
  \/ pc[c] = "user"
  \/ pc[c] # "put" /\ type[c] = "REPLYMSG"
  \/ current = c /\ pc[Dev] = "reply"
  => aborted[c] \/ error[c] = Outcome(cmd[c])

ClientOK(c) == Held(c) /\ Known(c) /\ Told(c) /\ Done(c)

DevInv ==
  /\ TypeOK /\ Steps /\ OneCPU /\ Heard /\ Distinct(taskPort)
  /\ \A c \in Client : ClientOK(c)
----------------------------------------------------------------------------
(***************************************************************************)
(* The CPU.                                                                *)
(***************************************************************************)
\* The tasks are different, and the device's priority is the highest.
LEMMA Tasks ==
  /\ Dev \in Task /\ Idle \in Task /\ Dev # Idle
  /\ \A c \in Client : c \in Task /\ c # Dev /\ c # Idle /\ c # NoReq
  /\ \A t \in Task : pri[t] \in Int /\ (t # Dev => pri[t] < pri[Dev])
BY TestDeviceAssumption DEF Task, pri

\* Of a list in the order of priority the device task, if it is in it, is the head.
LEMMA DevFirst ==
  ASSUME NEW q \in Seq(Task), q # <<>>, Distinct(q), SortedBy(q, pri)
  PROVE  /\ Head(q) \in Task /\ Tail(q) \in Seq(Task)
         /\ Distinct(Tail(q)) /\ SortedBy(Tail(q), pri)
         /\ Head(q) \in ToSet(q) /\ ToSet(Tail(q)) = ToSet(q) \ {Head(q)}
         /\ Dev \in ToSet(q) => Head(q) = Dev
<1>1. /\ Head(q) \in Task /\ Tail(q) \in Seq(Task)
      /\ Distinct(Tail(q)) /\ SortedBy(Tail(q), pri)
      /\ Head(q) \in ToSet(q) /\ ToSet(Tail(q)) = ToSet(q) \ {Head(q)}
      /\ \A x \in ToSet(Tail(q)) : pri[Head(q)] >= pri[x]
  BY TailOfList
<1>2. ASSUME Dev \in ToSet(q), Head(q) # Dev PROVE FALSE
  <2>1. pri[Head(q)] >= pri[Dev]
    BY <1>1, <1>2
  <2>2. pri[Head(q)] \in Int /\ pri[Dev] \in Int /\ pri[Head(q)] < pri[Dev]
    BY <1>1, <1>2, Tasks
  <2> QED
    BY <2>1, <2>2
<1> QED
  BY <1>1, <1>2

\* A task that joins TaskReady takes the place its priority gives it.
LEMMA Joined ==
  ASSUME NEW q \in Seq(Task), Distinct(q), SortedBy(q, pri), NEW t \in Task,
         t \notin ToSet(q)
  PROVE  /\ Enqueue(q, t, pri) \in Seq(Task) /\ Enqueue(q, t, pri) # <<>>
         /\ Distinct(Enqueue(q, t, pri)) /\ SortedBy(Enqueue(q, t, pri), pri)
         /\ ToSet(Enqueue(q, t, pri)) = ToSet(q) \cup {t}
BY Tasks, EnqueueMembers, EnqueueDistinct, EnqueueSorted

\* The running task goes on, and nobody else moves.
LEMMA GoOn ==
  ASSUME DevInv, UNCHANGED sched, NEW label,
         pc' = [pc EXCEPT ![cpu] = label], label # "asleep"
  PROVE  OneCPU'
<1>1. cpu' = cpu /\ ready' = ready
  BY DEF sched
<1>2. /\ \A t \in Task \ {cpu} : pc'[t] = pc[t]
      /\ pc'[cpu] = label /\ cpu \in Task
      /\ \A t \in ToSet(ready) : t \in Task
      /\ Dev \in Task
  BY Tasks DEF DevInv, TypeOK, ToSet
<1> QED
  BY <1>1, <1>2 DEF DevInv, OneCPU

\* The running task wakes another and goes on.
LEMMA WakesOne ==
  ASSUME DevInv, NEW t \in Client \cup {Dev}, NEW s, NEW label, WakeupTask(t, s, label),
         cpu' = cpu, t # cpu, label # "asleep"
  PROVE  /\ OneCPU' /\ ready' \in Seq(Task)
         /\ pc'[cpu] = label
         /\ pc'[t] = IF pc[t] = "asleep" THEN "test" ELSE pc[t]
         /\ \A u \in Task \ {t, cpu} : pc'[u] = pc[u]
<1>1. /\ ready \in Seq(Task) /\ cpu \in Task /\ t \in Task /\ Dev \in Task
      /\ Distinct(ready) /\ SortedBy(ready, pri)
      /\ \A u \in ToSet(ready) : u \in Task
      /\ pc[t] = "asleep" => t \notin ToSet(ready)
  BY Tasks DEF DevInv, TypeOK, OneCPU, ToSet
<1>2. /\ pc'[cpu] = label
      /\ pc'[t] = IF pc[t] = "asleep" THEN "test" ELSE pc[t]
      /\ \A u \in Task \ {t, cpu} : pc'[u] = pc[u]
  BY <1>1 DEF WakeupTask
<1>3. ready' = IF pc[t] = "asleep" THEN Enqueue(ready, t, pri) ELSE ready
  BY DEF WakeupTask
<1>4. CASE pc[t] = "asleep"
  <2>1. /\ ready' \in Seq(Task) /\ Distinct(ready') /\ SortedBy(ready', pri)
        /\ ToSet(ready') = ToSet(ready) \cup {t}
    BY <1>1, <1>3, <1>4, Joined
  <2>2. \A u \in ToSet(ready') \cup {cpu} : pc'[u] # "asleep"
    BY <1>1, <1>2, <1>4, <2>1 DEF DevInv, OneCPU
  <2>3. cpu # Dev => \/ pc'[Dev] = "asleep"
                     \/ pc'[Dev] = "test" /\ Dev \in ToSet(ready')
    BY <1>1, <1>2, <1>4, <2>1 DEF DevInv, OneCPU
  <2> QED
    BY <1>2, <2>1, <2>2, <2>3 DEF DevInv, OneCPU
<1>5. CASE pc[t] # "asleep"
  <2>1. ready' = ready
    BY <1>3, <1>5
  <2> QED
    BY <1>1, <1>2, <1>5, <2>1 DEF DevInv, OneCPU
<1> QED
  BY <1>4, <1>5

\* A task that sleeps leaves the CPU to the head of TaskReady.
LEMMA SleepsOne ==
  ASSUME DevInv, NEW t \in Client \cup {Dev}, WaitSleep(t)
  PROVE  OneCPU' /\ cpu' \in Task /\ ready' \in Seq(Task)
<1>1. /\ cpu = t /\ pc[t] = "sleep" /\ pc' = [pc EXCEPT ![t] = "asleep"]
      /\ cpu' = Head(ready) /\ ready' = Tail(ready)
  BY DEF WaitSleep, At, GoTo
<1>2. /\ ready \in Seq(Task) /\ t \in Task /\ Dev \in Task
      /\ Idle \in ToSet(ready) /\ t \notin ToSet(ready)
      /\ Distinct(ready) /\ SortedBy(ready, pri)
      /\ \A u \in ToSet(ready) : u \in Task /\ pc[u] # "asleep"
  BY <1>1, Tasks DEF DevInv, TypeOK, OneCPU, ToSet
<1>3. ready # <<>>
  BY <1>2 DEF ToSet
<1>4. /\ cpu' \in Task /\ ready' \in Seq(Task)
      /\ Distinct(ready') /\ SortedBy(ready', pri)
      /\ cpu' \in ToSet(ready) /\ ToSet(ready') = ToSet(ready) \ {cpu'}
      /\ Dev \in ToSet(ready) => cpu' = Dev
  BY <1>1, <1>2, <1>3, DevFirst
<1>5. pc'[t] = "asleep" /\ \A u \in Task \ {t} : pc'[u] = pc[u]
  BY <1>1, <1>2 DEF DevInv, TypeOK
<1>6. cpu' # Dev => pc'[Dev] = "asleep"
  BY <1>1, <1>2, <1>4, <1>5 DEF DevInv, OneCPU
<1> QED
  BY <1>2, <1>4, <1>5, <1>6 DEF OneCPU

\* A tick gives the CPU to the device task if it can run.
LEMMA TickSwitches ==
  ASSUME DevInv, Interrupt
  PROVE  /\ OneCPU' /\ cpu' \in Task /\ ready' \in Seq(Task)
         /\ pc[Dev] # "asleep" => pc' = pc
         /\ pc[Dev] = "asleep" => pc' = pc \/ pc' = [pc EXCEPT ![Dev] = "test"]
<1>1. PICK woken \in BOOLEAN :
        /\ woken => pc[Dev] = "asleep"
        /\ pc' = IF woken THEN [pc EXCEPT ![Dev] = "test"] ELSE pc
        /\ cpu' = Head(Preempted(woken)) /\ ready' = Tail(Preempted(woken))
  <2>1. PICK due \in BOOLEAN :
          LET woken == due /\ pc[Dev] = "asleep"
          IN  /\ pc' = IF woken THEN [pc EXCEPT ![Dev] = "test"] ELSE pc
              /\ cpu' = Head(Preempted(woken)) /\ ready' = Tail(Preempted(woken))
    BY DEF Interrupt
  <2> QED
    BY <2>1
<1>2. /\ ready \in Seq(Task) /\ cpu \in Task /\ Dev \in Task /\ Idle \in Task
      /\ Distinct(ready) /\ SortedBy(ready, pri)
      /\ cpu \notin ToSet(ready) /\ Idle \in ToSet(ready) \cup {cpu}
      /\ \A u \in ToSet(ready) \cup {cpu} : u \in Task /\ pc[u] # "asleep"
      /\ cpu # Dev => \/ pc[Dev] = "asleep"
                      \/ pc[Dev] = "test" /\ Dev \in ToSet(ready)
  BY Tasks DEF DevInv, TypeOK, OneCPU, ToSet
<1> DEFINE q == IF woken THEN Enqueue(ready, Dev, pri) ELSE ready
<1>3. /\ q \in Seq(Task) /\ Distinct(q) /\ SortedBy(q, pri)
      /\ ToSet(q) = ToSet(ready) \cup (IF woken THEN {Dev} ELSE {})
  <2>1. CASE woken
    BY <1>1, <1>2, <2>1, Joined
  <2>2. CASE ~woken
    BY <1>2, <2>2
  <2> QED
    BY <2>1, <2>2
<1>4. Preempted(woken) = Enqueue(q, cpu, pri)
  BY DEF Preempted
<1>5. cpu \notin ToSet(q)
  BY <1>1, <1>2, <1>3
<1> HIDE DEF q
<1>6. /\ cpu' \in Task /\ ready' \in Seq(Task)
      /\ Distinct(ready') /\ SortedBy(ready', pri)
      /\ cpu' \in ToSet(q) \cup {cpu} /\ ToSet(ready') = (ToSet(q) \cup {cpu}) \ {cpu'}
      /\ Dev \in ToSet(q) \cup {cpu} => cpu' = Dev
  <2> DEFINE e == Enqueue(q, cpu, pri)
  <2>1. /\ e \in Seq(Task) /\ e # <<>> /\ Distinct(e) /\ SortedBy(e, pri)
        /\ ToSet(e) = ToSet(q) \cup {cpu}
    BY <1>2, <1>3, <1>5, Joined
  <2>2. cpu' = Head(e) /\ ready' = Tail(e)
    BY <1>1, <1>4
  <2> HIDE DEF e
  <2>3. /\ Head(e) \in Task /\ Tail(e) \in Seq(Task)
        /\ Distinct(Tail(e)) /\ SortedBy(Tail(e), pri)
        /\ Head(e) \in ToSet(e) /\ ToSet(Tail(e)) = ToSet(e) \ {Head(e)}
        /\ Dev \in ToSet(e) => Head(e) = Dev
    BY <2>1, DevFirst
  <2> QED
    BY <2>1, <2>2, <2>3
<1>7. /\ \A u \in Task \ {Dev} : pc'[u] = pc[u]
      /\ pc'[Dev] = IF woken THEN "test" ELSE pc[Dev]
  BY <1>1, <1>2 DEF DevInv, TypeOK
<1>8. OneCPU'
  <2>1. cpu' \notin ToSet(ready') /\ Idle \in ToSet(ready') \cup {cpu'}
    BY <1>2, <1>3, <1>6
  <2>2. \A u \in ToSet(ready') \cup {cpu'} : pc'[u] # "asleep"
    BY <1>2, <1>3, <1>6, <1>7
  <2>3. cpu' # Dev => pc'[Dev] = "asleep"
    BY <1>1, <1>2, <1>3, <1>6, <1>7
  <2> QED
    BY <1>6, <2>1, <2>2, <2>3 DEF OneCPU
<1> QED
  BY <1>1, <1>6, <1>8
----------------------------------------------------------------------------
(***************************************************************************)
(* The steps of a client.                                                  *)
(***************************************************************************)
\* A step leaves the request of a client as it is.
Same(u) ==
  /\ port'[u] = port[u] /\ type'[u] = type[u] /\ quick'[u] = quick[u]
  /\ cmd'[u] = cmd[u] /\ error'[u] = error[u] /\ aborted'[u] = aborted[u]
  /\ Waiting(u)' = Waiting(u)

\* What a client does to its own request disturbs neither the device nor others.
LEMMA ClientAlone ==
  ASSUME DevInv, NEW c \in Client, cpu = c,
         NEW label \in (WaitPC \cup ClientPC) \ {"asleep"},
         pc' = [pc EXCEPT ![c] = label], UNCHANGED <<sched, device>>,
         TypeOK', Distinct(taskPort'),
         \A t \in Task \ {c} : sig'[t] = sig[t] /\ reg'[t] = reg[t],
         \A u \in Client \ {c} : Same(u),
         ClientOK(c)'
  PROVE  DevInv'
<1>1. /\ pc'[c] = label /\ \A t \in Task \ {c} : pc'[t] = pc[t]
      /\ current' = current /\ timer' = timer
      /\ c \in Task /\ c # Dev /\ c # Idle /\ Dev \in Task /\ Idle \in Task
      /\ \A u \in Client : u \in Task
  BY Tasks DEF DevInv, TypeOK, device
<1>2. OneCPU'
  BY GoOn
<1>3. Steps'
  BY <1>1 DEF DevInv, Steps
<1>4. Heard'
  <2>1. /\ pc'[Dev] = pc[Dev] /\ sig'[Dev] = sig[Dev] /\ reg'[Dev] = reg[Dev]
        /\ timer' = timer /\ current' = current
    BY <1>1
  <2> QED
    BY <2>1 DEF DevInv, Heard
<1>5. ASSUME NEW u \in Client \ {c} PROVE ClientOK(u)'
  <2>1. /\ pc'[u] = pc[u] /\ pc'[Dev] = pc[Dev] /\ current' = current /\ Same(u)
        /\ sig'[u] = sig[u] /\ sig'[Dev] = sig[Dev] /\ ClientOK(u)
    BY <1>1 DEF DevInv
  <2>2. Held(u)'
    BY <2>1 DEF ClientOK, Held, Same, InService
  <2>3. Known(u)' /\ Told(u)'
    BY <2>1 DEF ClientOK, Known, Told, Same
  <2>4. Done(u)'
    BY <2>1 DEF ClientOK, Done, Same
  <2> QED
    BY <2>2, <2>3, <2>4 DEF ClientOK
<1> QED
  BY <1>2, <1>3, <1>4, <1>5 DEF DevInv

\* DoIO and SendIO start with a request that is in no place.
LEMMA StartKeeps ==
  ASSUME DevInv, NEW c \in Client, NEW command \in Uses[c],
         DoIO(c, command) \/ SendIO(c, command)
  PROVE  DevInv'
<1>1. command \in Command /\ c \in Task /\ Outcome(command) \in {0, IOERR_NOCMD}
  BY Tasks, TestDeviceAssumption DEF Outcome
<1>2. PICK label \in {"user", "put"}, e \in {0, IOERR_NOCMD}, q \in BOOLEAN,
           y \in {"NONE", "MESSAGE"} :
        /\ pc' = [pc EXCEPT ![c] = label] /\ error' = [error EXCEPT ![c] = e]
        /\ quick' = [quick EXCEPT ![c] = q] /\ type' = [type EXCEPT ![c] = y]
        /\ label = "user" => e = Outcome(command)
  <2>1. pc[c] = "user" /\ pc = [pc EXCEPT ![c] = "user"]
    BY DEF DoIO, SendIO, At, DevInv, TypeOK
  <2>2. CASE DoIO(c, command) /\ command \in {"READ", "WRITE"}
    BY <1>1, <2>1, <2>2 DEF DoIO, GoTo
  <2>3. CASE DoIO(c, command) /\ command \notin {"READ", "WRITE"}
    BY <1>1, <2>1, <2>3 DEF DoIO, GoTo
  <2>4. CASE SendIO(c, command)
    BY <1>1, <2>1, <2>4 DEF SendIO, GoTo
  <2> QED
    BY <2>2, <2>3, <2>4
<1>3. /\ cpu = c /\ pc[c] = "user" /\ cmd' = [cmd EXCEPT ![c] = command]
      /\ aborted' = [aborted EXCEPT ![c] = FALSE]
      /\ sync' \in [Client -> BOOLEAN]
      /\ UNCHANGED <<sched, signals, taskPort, port, device>>
  BY DEF DoIO, SendIO, At, DevInv, TypeOK
<1>4. UNCHANGED <<cpu, ready, sig, reg, current, timer>>
  BY <1>3 DEF sched, signals, device
<1>5. TypeOK'
  BY <1>1, <1>2, <1>3, <1>4 DEF DevInv, TypeOK, ClientPC
<1>6. /\ pc'[c] = label /\ type'[c] = y /\ error'[c] = e /\ cmd'[c] = command
      /\ pc'[Dev] = pc[Dev] /\ Waiting(c)' = Waiting(c) /\ port'[c] = port[c]
      /\ InService(c)' = InService(c)
  BY <1>1, <1>2, <1>3, <1>4, Tasks DEF DevInv, TypeOK, Waiting, InService
<1>7. ClientOK(c)
  BY DEF DevInv
<1>8. ClientOK(c)'
  <2>1. Held(c)'
    BY <1>3, <1>6, <1>7 DEF ClientOK, Held
  <2>2. Known(c)' /\ Told(c)'
    BY <1>3, <1>6, <1>7 DEF ClientOK, Held, Known, Told
  <2>3. Done(c)'
    BY <1>2, <1>3, <1>4, <1>6, <1>7 DEF ClientOK, Held, Done, InService
  <2> QED
    BY <2>1, <2>2, <2>3 DEF ClientOK
<1>9. \A u \in Client \ {c} : Same(u)
  BY <1>2, <1>3 DEF DevInv, TypeOK, Same, Waiting
<1>10. Distinct(taskPort')
  BY <1>3 DEF DevInv
<1> QED
  BY <1>2, <1>3, <1>4, <1>5, <1>8, <1>9, <1>10, ClientAlone DEF ClientPC, WaitPC

\* PutMsg links the request in TaskPort, where the device does not know of it yet.
LEMMA PutKeeps ==
  ASSUME DevInv, NEW c \in Client, PutMsg(c)
  PROVE  DevInv'
<1>1. /\ cpu = c /\ pc[c] = "put" /\ pc' = [pc EXCEPT ![c] = "putsig"]
      /\ type' = [type EXCEPT ![c] = "MESSAGE"] /\ taskPort' = Append(taskPort, c)
      /\ UNCHANGED <<cpu, ready, sig, reg, port, quick, cmd, error, sync, current, timer,
                     aborted>>
  BY DEF PutMsg, At, GoTo, AddTail, sched, signals, device
<1>2. ~Waiting(c) /\ ~InService(c) /\ port[c] = <<>>
  BY <1>1 DEF DevInv, ClientOK, Held
<1>3. /\ taskPort' \in Seq(Client) /\ Distinct(taskPort')
      /\ ToSet(taskPort') = ToSet(taskPort) \cup {c}
  BY <1>1, <1>2, AddTailMembers DEF DevInv, TypeOK, Waiting, AddTail
<1>4. TypeOK'
  BY <1>1, <1>3 DEF DevInv, TypeOK, ClientPC
<1>5. /\ pc'[c] = "putsig" /\ type'[c] = "MESSAGE" /\ Waiting(c)'
      /\ pc'[Dev] = pc[Dev] /\ port'[c] = <<>> /\ ~InService(c)'
  BY <1>1, <1>2, <1>3, Tasks DEF DevInv, TypeOK, Waiting, InService
<1>6. ClientOK(c)'
  BY <1>5 DEF ClientOK, Held, Known, Told, Done, InService
<1>7. \A u \in Client \ {c} : Same(u)
  BY <1>1, <1>3 DEF DevInv, TypeOK, Same, Waiting
<1>8. UNCHANGED <<sched, device>>
  BY <1>1 DEF sched, device
<1> QED
  BY <1>1, <1>3, <1>4, <1>6, <1>7, <1>8, ClientAlone DEF ClientPC, WaitPC

\* Behind PutMsg the client gets to its Wait, without a trace of IOF_QUICK.
LEMMA CallKeeps ==
  ASSUME DevInv, NEW c \in Client,
         BeginIODone(c) \/ AbortIO(c) \/ WaitIO(c) \/ WaitIOLoop(c)
  PROVE  DevInv'
<1>1. /\ cpu = c /\ UNCHANGED <<cpu, ready, sig, reg, taskPort, port, type, cmd, sync,
                                 current, timer>>
      /\ UNCHANGED <<sched, device>>
  BY DEF BeginIODone, BeginIOReturn, AbortIO, WaitIO, WaitIOLoop, At, sched, signals,
         request, device
<1>2. PICK label \in {"sent", "waitio", "test", "remove"} :
        /\ pc' = [pc EXCEPT ![c] = label]
        /\ label = "test" => type[c] = "MESSAGE"
        /\ label = "remove" => type[c] # "MESSAGE"
  <2>1. CASE BeginIODone(c)
    <3>1. ~quick'[c]
      BY <2>1 DEF BeginIODone, DevInv, TypeOK
    <3> QED
      BY <2>1, <3>1 DEF BeginIODone, BeginIOReturn, GoTo
  <2>2. CASE AbortIO(c)
    BY <2>2 DEF AbortIO, At, DevInv, TypeOK
  <2>3. CASE WaitIO(c)
    BY <2>3 DEF WaitIO, GoTo
  <2>4. CASE WaitIOLoop(c)
    <3>1. ~quick[c]
      BY <2>4 DEF WaitIOLoop, At, DevInv, ClientOK, Held
    <3> QED
      BY <2>4, <3>1 DEF WaitIOLoop, GoTo
  <2> QED
    BY <2>1, <2>2, <2>3, <2>4
<1>3. /\ pc[c] \in {"flags", "sent", "waitio"}
      /\ quick' \in {quick, [quick EXCEPT ![c] = FALSE]}
      /\ pc[c] = "flags" => quick' = [quick EXCEPT ![c] = FALSE]
      /\ \/ error' = error /\ aborted' = aborted
         \/ error' = [error EXCEPT ![c] = 0] /\ aborted' = [aborted EXCEPT ![c] = TRUE]
  BY DEF BeginIODone, BeginIOReturn, AbortIO, WaitIO, WaitIOLoop, At, request
<1>4. TypeOK'
  BY <1>1, <1>2, <1>3 DEF DevInv, TypeOK, ClientPC, WaitPC
<1>5. /\ pc'[c] = label /\ pc'[Dev] = pc[Dev] /\ ~quick'[c]
      /\ type'[c] = type[c] /\ port'[c] = port[c] /\ cmd'[c] = cmd[c]
      /\ Waiting(c)' = Waiting(c) /\ InService(c)' = InService(c)
      /\ aborted'[c] \/ (aborted'[c] = aborted[c] /\ error'[c] = error[c])
  <2>1. pc'[c] = label /\ pc'[Dev] = pc[Dev]
    BY <1>2, Tasks DEF DevInv, TypeOK
  <2>2. ~quick'[c]
    BY <1>3 DEF DevInv, TypeOK, ClientOK, Held
  <2>3. aborted'[c] \/ (aborted'[c] = aborted[c] /\ error'[c] = error[c])
    BY <1>3 DEF DevInv, TypeOK
  <2> QED
    BY <1>1, <2>1, <2>2, <2>3 DEF Waiting, InService
<1>6. ClientOK(c)
  BY DEF DevInv
<1>7. ClientOK(c)'
  <2>1. Held(c)'
    BY <1>2, <1>3, <1>5, <1>6 DEF ClientOK, Held
  <2>2. Known(c)'
    BY <1>1, <1>3, <1>5, <1>6 DEF ClientOK, Known
  <2>3. Told(c)'
    BY <1>2, <1>5 DEF Told
  <2>4. Done(c)'
    BY <1>1, <1>3, <1>5, <1>6 DEF ClientOK, Done
  <2> QED
    BY <2>1, <2>2, <2>3, <2>4 DEF ClientOK
<1>8. \A u \in Client \ {c} : Same(u)
  BY <1>1, <1>3 DEF DevInv, TypeOK, Same, Waiting
<1>9. Distinct(taskPort')
  BY <1>1 DEF DevInv
<1> QED
  BY <1>1, <1>2, <1>4, <1>7, <1>8, <1>9, ClientAlone DEF ClientPC, WaitPC

\* WaitIO takes the reply, the only request there, out of its port.
LEMMA RemoveKeeps ==
  ASSUME DevInv, NEW c \in Client, WaitIORemove(c)
  PROVE  DevInv'
<1>1. /\ cpu = c /\ pc[c] = "remove" /\ pc' = [pc EXCEPT ![c] = "user"]
      /\ UNCHANGED <<cpu, ready, sig, reg, taskPort, type, quick, cmd, error, sync,
                     current, timer, aborted>>
      /\ UNCHANGED <<sched, device>>
  BY DEF WaitIORemove, At, GoTo, sched, signals, request, device
<1>2. /\ type[c] = "REPLYMSG" /\ port[c] = <<c>> /\ ~Waiting(c) /\ ~InService(c)
      /\ ClientOK(c)
  BY <1>1 DEF DevInv, ClientOK, Held
<1>3. Unlink(port[c], c) = <<>>
  BY <1>2, ShortUnlink
<1>4. port' = [port EXCEPT ![c] = <<>>]
  BY <1>2, <1>3 DEF WaitIORemove
<1>5. port' \in [Client -> Seq(Client)]
  <2>1. <<>> \in Seq(Client)
    OBVIOUS
  <2> QED
    BY <1>4, <2>1 DEF DevInv, TypeOK
<1>6. TypeOK'
  BY <1>1, <1>5 DEF DevInv, TypeOK, ClientPC
<1>7. /\ pc'[c] = "user" /\ pc'[Dev] = pc[Dev] /\ port'[c] = <<>>
      /\ Waiting(c)' = Waiting(c) /\ InService(c)' = InService(c)
  BY <1>1, <1>4, Tasks DEF DevInv, TypeOK, Waiting, InService
<1>8. ClientOK(c)'
  BY <1>1, <1>2, <1>7 DEF ClientOK, Held, Known, Told, Done
<1>9. \A u \in Client \ {c} : Same(u)
  BY <1>1, <1>4 DEF DevInv, TypeOK, Same, Waiting
<1>10. Distinct(taskPort')
  BY <1>1 DEF DevInv
<1> QED
  BY <1>1, <1>6, <1>8, <1>9, <1>10, ClientAlone DEF ClientPC, WaitPC

\* A client in Wait, but for its sleep.
LEMMA ClientWaits ==
  ASSUME DevInv, NEW c \in Client, WaitTest(c) \/ WaitLoad(c) \/ WaitStore(c)
  PROVE  DevInv'
<1>1. /\ cpu = c /\ c \in Task /\ c # Dev
      /\ UNCHANGED <<cpu, ready, taskPort, port, type, quick, cmd, error, sync,
                     current, timer, aborted>>
      /\ UNCHANGED <<sched, device>>
  BY Tasks DEF WaitTest, WaitLoad, WaitStore, At, sched, request, device
<1>2. PICK label \in {"sleep", "load", "store", "waitio"} :
        /\ pc' = [pc EXCEPT ![c] = label]
        /\ label = "sleep" => /\ pc[c] = "test" /\ "reply" \notin sig[c]
                             /\ sig' = sig
  BY <1>1 DEF WaitTest, WaitLoad, WaitStore, At, GoTo, Wanted, signals
<1>3. /\ sig[c] \subseteq {"reply"} /\ reg[c] \subseteq {"reply"}
      /\ sig \in [Task -> SUBSET Signals] /\ reg \in [Task -> SUBSET Signals]
  BY <1>1 DEF DevInv, TypeOK, Wanted
<1>4. /\ \E v \in SUBSET {"reply"} : sig' = [sig EXCEPT ![c] = v]
      /\ \E v \in SUBSET {"reply"} : reg' = [reg EXCEPT ![c] = v]
  <2>1. sig = [sig EXCEPT ![c] = sig[c]] /\ reg = [reg EXCEPT ![c] = reg[c]]
    BY <1>3
  <2>2. CASE WaitTest(c)
    BY <1>3, <2>1, <2>2 DEF WaitTest, signals
  <2>3. CASE WaitLoad(c)
    BY <1>3, <2>1, <2>3 DEF WaitLoad
  <2>4. CASE WaitStore(c)
    <3>1. reg[c] \ Wanted(c) \in SUBSET {"reply"} /\ {} \in SUBSET {"reply"}
      BY <1>3
    <3> QED
      BY <2>4, <3>1 DEF WaitStore
  <2> QED
    BY <2>2, <2>3, <2>4
<1>5. /\ \A t \in Task \ {c} : sig'[t] = sig[t] /\ reg'[t] = reg[t]
      /\ sig'[c] \subseteq {"reply"} /\ reg'[c] \subseteq {"reply"}
      /\ sig' \in [Task -> SUBSET Signals] /\ reg' \in [Task -> SUBSET Signals]
  BY <1>1, <1>3, <1>4 DEF Signals
<1>6. TypeOK'
  <2>1. \A t \in Task : sig'[t] \subseteq Wanted(t) /\ reg'[t] \subseteq Wanted(t)
    BY <1>1, <1>5 DEF DevInv, TypeOK, Wanted
  <2>2. pc' \in [Task -> WaitPC \cup ClientPC \cup DevPC]
    BY <1>2 DEF DevInv, TypeOK, WaitPC, ClientPC
  <2> QED
    BY <1>1, <1>5, <2>1, <2>2 DEF DevInv, TypeOK
<1>7. /\ pc'[c] = label /\ pc'[Dev] = pc[Dev] /\ sig'[Dev] = sig[Dev]
      /\ Waiting(c)' = Waiting(c) /\ InService(c)' = InService(c)
  BY <1>1, <1>2, <1>5, Tasks DEF DevInv, TypeOK, Waiting, InService
<1>8. pc[c] \in {"test", "load", "store"} /\ ClientOK(c)
  BY DEF WaitTest, WaitLoad, WaitStore, At, DevInv
<1>9. ClientOK(c)'
  <2>1. Held(c)'
    BY <1>1, <1>7, <1>8 DEF ClientOK, Held
  <2>2. Known(c)'
    BY <1>7, <1>8 DEF ClientOK, Known
  <2>3. Told(c)'
    BY <1>1, <1>2, <1>7, <1>8 DEF ClientOK, Told
  <2>4. Done(c)'
    BY <1>1, <1>7, <1>8 DEF ClientOK, Done
  <2> QED
    BY <2>1, <2>2, <2>3, <2>4 DEF ClientOK
<1>10. \A u \in Client \ {c} : Same(u)
  BY <1>1 DEF Same, Waiting
<1>11. Distinct(taskPort')
  BY <1>1 DEF DevInv
<1> QED
  BY <1>1, <1>2, <1>5, <1>6, <1>9, <1>10, <1>11, ClientAlone DEF ClientPC, WaitPC

\* A task that sleeps has seen no signal; what is posted to it behind its test stays.
LEMMA SleepKeeps ==
  ASSUME DevInv, NEW t \in Client \cup {Dev}, WaitSleep(t)
  PROVE  DevInv'
<1>1. /\ pc[t] = "sleep" /\ pc' = [pc EXCEPT ![t] = "asleep"] /\ t \in Task
      /\ UNCHANGED <<sig, reg, taskPort, port, type, quick, cmd, error, sync, current,
                     timer, aborted>>
  BY Tasks DEF WaitSleep, At, GoTo, signals, request, device
<1>2. OneCPU' /\ cpu' \in Task /\ ready' \in Seq(Task)
  BY SleepsOne
<1>3. TypeOK'
  BY <1>1, <1>2 DEF DevInv, TypeOK, WaitPC
<1>4. \A u \in Task : pc'[u] = IF u = t THEN "asleep" ELSE pc[u]
  BY <1>1 DEF DevInv, TypeOK
<1>5. Steps' /\ Heard' /\ Distinct(taskPort')
  BY <1>1, <1>4, Tasks DEF DevInv, Steps, Heard, WaitPC, ClientPC
<1>6. ASSUME NEW c \in Client PROVE ClientOK(c)'
  <2>1. /\ pc'[c] = IF c = t THEN "asleep" ELSE pc[c]
        /\ pc'[Dev] = IF Dev = t THEN "asleep" ELSE pc[Dev]
        /\ c # Dev /\ ClientOK(c)
    BY <1>4, Tasks DEF DevInv
  <2>2. Held(c)'
    BY <1>1, <2>1 DEF ClientOK, Held, Waiting, InService
  <2>3. Known(c)' /\ Told(c)' /\ Done(c)'
    BY <1>1, <2>1 DEF ClientOK, Known, Told, Done, Waiting
  <2> QED
    BY <2>2, <2>3 DEF ClientOK
<1> QED
  BY <1>2, <1>3, <1>5, <1>6 DEF DevInv

\* The Signal of PutMsg: from here on the device task knows of the request.
LEMMA PutSignalKeeps ==
  ASSUME DevInv, NEW c \in Client, PutMsgSignal(c)
  PROVE  DevInv'
<1>1. /\ cpu = c /\ pc[c] = "putsig" /\ WakeupTask(Dev, "task", "flags") /\ cpu' = cpu
      /\ c \in Task /\ c # Dev /\ Dev \in Task /\ Idle \in Task /\ c # Idle /\ Dev # Idle
      /\ UNCHANGED <<reg, taskPort, port, type, quick, cmd, error, sync, current, timer,
                     aborted>>
  BY Tasks DEF PutMsgSignal, At, request, device
<1>2. pc[Dev] \in {"asleep", "test"}
  BY <1>1 DEF DevInv, OneCPU
<1>3. /\ OneCPU' /\ ready' \in Seq(Task) /\ pc'[c] = "flags" /\ pc'[Dev] = "test"
      /\ \A u \in Task \ {c, Dev} : pc'[u] = pc[u]
  <2>1. /\ OneCPU' /\ ready' \in Seq(Task) /\ pc'[cpu] = "flags"
        /\ pc'[Dev] = IF pc[Dev] = "asleep" THEN "test" ELSE pc[Dev]
        /\ \A u \in Task \ {Dev, cpu} : pc'[u] = pc[u]
    BY <1>1, WakesOne
  <2> QED
    BY <1>1, <1>2, <2>1
<1>4. sig' = [sig EXCEPT ![Dev] = @ \cup {"task"}]
  BY <1>1 DEF WakeupTask
<1>5. /\ sig' \in [Task -> SUBSET Signals] /\ sig'[Dev] = sig[Dev] \cup {"task"}
      /\ \A u \in Task \ {Dev} : sig'[u] = sig[u]
  BY <1>1, <1>4 DEF DevInv, TypeOK, Signals
<1>6. TypeOK'
  <2>1. pc' \in [Task -> WaitPC \cup ClientPC \cup DevPC]
    BY <1>1 DEF DevInv, TypeOK, WakeupTask, WaitPC, ClientPC
  <2>2. \A u \in Task : sig'[u] \subseteq Wanted(u) /\ reg'[u] \subseteq Wanted(u)
    BY <1>1, <1>5 DEF DevInv, TypeOK, Wanted
  <2> QED
    BY <1>1, <1>3, <1>5, <2>1, <2>2 DEF DevInv, TypeOK
<1>7. Steps'
  BY <1>1, <1>3, Tasks DEF DevInv, Steps, WaitPC, ClientPC
<1>8. Heard'
  BY <1>1, <1>2, <1>3, <1>5 DEF DevInv, Heard
<1>9. ASSUME NEW u \in Client PROVE ClientOK(u)'
  <2>1. /\ pc'[u] = IF u = c THEN "flags" ELSE pc[u]
        /\ u # Dev /\ ClientOK(u) /\ sig'[u] = sig[u] /\ "task" \in sig'[Dev]
        /\ ~InService(u) /\ ~InService(u)' /\ Waiting(u)' = Waiting(u)
    BY <1>1, <1>2, <1>3, <1>5, Tasks DEF DevInv, InService, Waiting
  <2>2. Held(u)'
    BY <1>1, <2>1 DEF ClientOK, Held
  <2>3. Known(u)' /\ Told(u)'
    BY <1>1, <1>2, <2>1 DEF ClientOK, Known, Told
  <2>4. Done(u)'
    BY <1>1, <1>3, <2>1 DEF ClientOK, Done
  <2> QED
    BY <2>2, <2>3, <2>4 DEF ClientOK
<1> QED
  BY <1>1, <1>3, <1>6, <1>7, <1>8, <1>9 DEF DevInv
----------------------------------------------------------------------------
(***************************************************************************)
(* The steps of the device task.                                           *)
(***************************************************************************)
\* The device task in Wait: nobody posts between its test and its sleep but the timer,
\* and it leaves with a signal.
LEMMA DeviceWaits ==
  ASSUME DevInv, WaitTest(Dev) \/ WaitLoad(Dev) \/ WaitStore(Dev)
  PROVE  DevInv'
<1>1. /\ cpu = Dev /\ Dev \in Task
      /\ UNCHANGED <<cpu, ready, taskPort, port, type, quick, cmd, error, sync,
                     current, timer, aborted>>
      /\ UNCHANGED sched
  BY Tasks DEF WaitTest, WaitLoad, WaitStore, At, sched, request, device
<1>2. PICK label \in {"sleep", "load", "store", "serve", "timer"} :
        pc' = [pc EXCEPT ![Dev] = label]
  BY <1>1 DEF WaitTest, WaitLoad, WaitStore, GoTo
<1>3. /\ pc'[Dev] = label /\ \A u \in Task \ {Dev} : pc'[u] = pc[u]
      /\ sig \in [Task -> SUBSET Signals] /\ reg \in [Task -> SUBSET Signals]
      /\ sig[Dev] \subseteq {"task", "time"} /\ reg[Dev] \subseteq {"task", "time"}
      /\ Wanted(Dev) = {"task", "time"}
  BY <1>1, <1>2 DEF DevInv, TypeOK, Wanted
<1>4. /\ sig' \in [Task -> SUBSET Signals] /\ reg' \in [Task -> SUBSET Signals]
      /\ \A u \in Task \ {Dev} : sig'[u] = sig[u] /\ reg'[u] = reg[u]
      /\ \/ /\ pc[Dev] = "test" /\ sig'[Dev] = sig[Dev] /\ reg'[Dev] = reg[Dev]
            /\ label = IF sig[Dev] = {} THEN "sleep" ELSE "load"
         \/ /\ pc[Dev] = "load" /\ sig'[Dev] = sig[Dev] /\ reg'[Dev] = sig[Dev]
            /\ label = "store"
         \/ /\ pc[Dev] = "store" /\ sig'[Dev] = {} /\ reg'[Dev] = {}
            /\ label = IF "task" \in reg[Dev] THEN "serve" ELSE "timer"
  <2>1. CASE WaitTest(Dev)
    <3>1. /\ pc[Dev] = "test" /\ sig' = sig /\ reg' = reg
          /\ pc' = [pc EXCEPT ![Dev] = IF sig[Dev] \cap Wanted(Dev) = {} THEN "sleep"
                                       ELSE "load"]
      BY <2>1 DEF WaitTest, At, GoTo, signals
    <3>2. sig[Dev] \cap Wanted(Dev) = sig[Dev]
      BY <1>3
    <3>3. label = IF sig[Dev] = {} THEN "sleep" ELSE "load"
      BY <1>1, <1>3, <3>1, <3>2 DEF DevInv, TypeOK
    <3> QED
      BY <1>3, <3>1, <3>3
  <2>2. CASE WaitLoad(Dev)
    <3>1. /\ pc[Dev] = "load" /\ sig' = sig /\ reg' = [reg EXCEPT ![Dev] = sig[Dev]]
          /\ pc' = [pc EXCEPT ![Dev] = "store"]
      BY <2>2 DEF WaitLoad, At, GoTo
    <3>2. label = "store"
      BY <1>1, <1>3, <3>1 DEF DevInv, TypeOK
    <3> QED
      BY <1>1, <1>3, <3>1, <3>2
  <2>3. CASE WaitStore(Dev)
    <3>1. /\ pc[Dev] = "store" /\ sig' = [sig EXCEPT ![Dev] = {}]
          /\ reg' = [reg EXCEPT ![Dev] = {}]
          /\ pc' = [pc EXCEPT ![Dev] = IF "task" \in reg[Dev] THEN "serve" ELSE "timer"]
      <4>1. reg[Dev] \ Wanted(Dev) = {}
        BY <1>3
      <4> QED
        BY <2>3, <4>1 DEF WaitStore, At, GoTo
    <3>2. label = IF "task" \in reg[Dev] THEN "serve" ELSE "timer"
      BY <1>1, <1>3, <3>1 DEF DevInv, TypeOK
    <3> QED
      BY <1>1, <1>3, <3>1, <3>2
  <2> QED
    BY <2>1, <2>2, <2>3
<1>5. TypeOK'
  <2>1. pc' \in [Task -> WaitPC \cup ClientPC \cup DevPC]
    BY <1>2 DEF DevInv, TypeOK, WaitPC, DevPC
  <2>2. \A u \in Task : sig'[u] \subseteq Wanted(u) /\ reg'[u] \subseteq Wanted(u)
    BY <1>3, <1>4 DEF DevInv, TypeOK
  <2> QED
    BY <1>1, <1>4, <2>1, <2>2 DEF DevInv, TypeOK
<1>6. OneCPU'
  BY <1>1, <1>2, GoOn
<1>7. Steps' /\ Distinct(taskPort')
  BY <1>1, <1>3, Tasks DEF DevInv, Steps, WaitPC, DevPC
<1>8. Heard'
  <2>1. Heard /\ "task" \notin {} /\ "time" \notin {}
    BY DEF DevInv
  <2> QED
    BY <1>1, <1>3, <1>4, <2>1 DEF Heard
<1>9. ASSUME NEW u \in Client PROVE ClientOK(u)'
  <2>1. /\ pc'[u] = pc[u] /\ sig'[u] = sig[u] /\ ClientOK(u) /\ Heard
        /\ ~InService(u) /\ ~InService(u)' /\ Waiting(u)' = Waiting(u)
    BY <1>1, <1>3, <1>4, Tasks DEF DevInv, InService, Waiting
  <2>2. Held(u)'
    BY <1>1, <2>1 DEF ClientOK, Held
  <2>3. Known(u)'
    BY <1>3, <1>4, <2>1 DEF ClientOK, Known, Heard
  <2>4. Told(u)' /\ Done(u)'
    BY <1>1, <1>3, <1>4, <2>1 DEF ClientOK, Told, Done
  <2> QED
    BY <2>2, <2>3, <2>4 DEF ClientOK
<1> QED
  BY <1>5, <1>6, <1>7, <1>8, <1>9 DEF DevInv

\* A step of the device task that leaves signals, clients and the timer alone.
LEMMA DeviceAlone ==
  ASSUME DevInv, cpu = Dev, NEW label \in {"test", "perform", "reply", "replysig"},
         pc' = [pc EXCEPT ![Dev] = label], UNCHANGED <<sched, sig, reg, timer>>,
         TypeOK', Distinct(taskPort'),
         pc[Dev] \notin WaitPC \cup {"timer"},
         label \in {"perform", "reply", "replysig"} => current' \in Client,
         \A c \in Client : ClientOK(c)'
  PROVE  DevInv'
<1>1. /\ pc'[Dev] = label /\ \A u \in Task \ {Dev} : pc'[u] = pc[u]
  BY Tasks DEF DevInv, TypeOK
<1>2. OneCPU'
  BY GoOn
<1>3. Steps'
  BY <1>1, Tasks DEF DevInv, Steps, WaitPC, DevPC
<1>4. Heard'
  BY <1>1 DEF DevInv, Heard
<1> QED
  BY <1>2, <1>3, <1>4 DEF DevInv

\* GetMsg takes the first request out of TaskPort, or sends the device back to Wait
\* with the port empty.
LEMMA GetKeeps ==
  ASSUME DevInv, GetMsg
  PROVE  DevInv'
<1>1. /\ cpu = Dev /\ pc[Dev] = "serve" /\ Dev \in Task
      /\ UNCHANGED <<cpu, ready, sig, reg, port, type, quick, cmd, error, sync, timer,
                     aborted>>
      /\ UNCHANGED <<sched, sig, reg, timer>>
  BY Tasks DEF GetMsg, At, sched, signals, request
<1>2. CASE taskPort = <<>>
  <2>1. taskPort' = taskPort /\ current' = NoReq /\ pc' = [pc EXCEPT ![Dev] = "test"]
    BY <1>2 DEF GetMsg, GoTo, IsListEmpty
  <2>2. TypeOK'
    BY <1>1, <2>1 DEF DevInv, TypeOK, WaitPC
  <2>3. ASSUME NEW c \in Client PROVE ClientOK(c)'
    <3>1. /\ pc'[c] = pc[c] /\ pc'[Dev] = "test" /\ ClientOK(c)
          /\ ~InService(c) /\ ~InService(c)' /\ Waiting(c)' = Waiting(c)
      BY <1>1, <2>1, Tasks DEF DevInv, TypeOK, InService, Waiting
    <3>2. ~Waiting(c)
      BY <1>2 DEF Waiting, ToSet
    <3>3. Held(c)' /\ Known(c)'
      BY <1>1, <3>1, <3>2 DEF ClientOK, Held, Known
    <3>4. Told(c)' /\ Done(c)'
      BY <1>1, <3>1 DEF ClientOK, Told, Done
    <3> QED
      BY <3>3, <3>4 DEF ClientOK
  <2>4. Distinct(taskPort')
    BY <2>1 DEF DevInv
  <2> QED
    BY <1>1, <2>1, <2>2, <2>3, <2>4, DeviceAlone DEF WaitPC
<1>3. CASE taskPort # <<>>
  <2>1. /\ current' = Head(taskPort) /\ taskPort' = Tail(taskPort)
        /\ pc' = [pc EXCEPT ![Dev] = "perform"]
    BY <1>3 DEF GetMsg, GoTo, IsListEmpty
  <2>2. /\ current' \in Client /\ current' \in ToSet(taskPort) /\ taskPort' \in Seq(Client)
        /\ Distinct(taskPort') /\ ToSet(taskPort') = ToSet(taskPort) \ {current'}
    BY <1>3, <2>1, TailOfList DEF DevInv, TypeOK
  <2>3. TypeOK'
    BY <1>1, <2>1, <2>2 DEF DevInv, TypeOK, DevPC
  <2>4. ASSUME NEW c \in Client PROVE ClientOK(c)'
    <3>1. /\ pc'[c] = pc[c] /\ pc'[Dev] = "perform" /\ ClientOK(c)
          /\ ~InService(c) /\ (InService(c)' <=> c = current')
          /\ (Waiting(c)' <=> Waiting(c) /\ c # current')
          /\ c = current' => Waiting(c)
      BY <1>1, <2>1, <2>2, Tasks DEF DevInv, TypeOK, InService, Waiting
    <3>2. Held(c)' /\ Known(c)'
      BY <1>1, <3>1 DEF ClientOK, Held, Known
    <3>3. Told(c)' /\ Done(c)'
      BY <1>1, <3>1 DEF ClientOK, Told, Done
    <3> QED
      BY <3>2, <3>3 DEF ClientOK
  <2> QED
    BY <1>1, <2>1, <2>2, <2>3, <2>4, DeviceAlone DEF WaitPC
<1> QED
  BY <1>2, <1>3

\* The command is executed with the request in the device's hands.
LEMMA PerformKeeps ==
  ASSUME DevInv, PerformIO
  PROVE  DevInv'
<1>1. /\ cpu = Dev /\ pc[Dev] = "perform" /\ Dev \in Task
      /\ pc' = [pc EXCEPT ![Dev] = "reply"]
      /\ error' = [error EXCEPT ![current] = Outcome(cmd[current])]
      /\ UNCHANGED <<cpu, ready, sig, reg, taskPort, port, type, quick, cmd, sync, current,
                     timer, aborted>>
      /\ UNCHANGED <<sched, sig, reg, timer>>
  BY Tasks DEF PerformIO, At, GoTo, sched, signals, device
<1>2. current \in Client /\ Outcome(cmd[current]) \in {0, IOERR_NOCMD}
  BY <1>1 DEF DevInv, Heard, Outcome
<1>3. TypeOK'
  BY <1>1, <1>2 DEF DevInv, TypeOK, DevPC
<1>4. ASSUME NEW c \in Client PROVE ClientOK(c)'
  <2>1. /\ pc'[c] = pc[c] /\ pc'[Dev] = "reply" /\ ClientOK(c)
        /\ InService(c)' = InService(c) /\ Waiting(c)' = Waiting(c)
        /\ error'[c] = IF c = current THEN Outcome(cmd[c]) ELSE error[c]
        /\ c = current => InService(c)
    BY <1>1, <1>2, Tasks DEF DevInv, TypeOK, InService, Waiting
  <2>2. Held(c)' /\ Known(c)' /\ Told(c)'
    BY <1>1, <2>1 DEF ClientOK, Held, Known, Told
  <2>3. Done(c)'
    BY <1>1, <2>1 DEF ClientOK, Done
  <2> QED
    BY <2>2, <2>3 DEF ClientOK
<1>5. Distinct(taskPort')
  BY <1>1 DEF DevInv
<1> QED
  BY <1>1, <1>2, <1>3, <1>4, <1>5, DeviceAlone DEF WaitPC

\* ReplyMsg moves the request to its port, with its outcome.
LEMMA ReplyKeeps ==
  ASSUME DevInv, ReplyMsg
  PROVE  DevInv'
<1>1. /\ cpu = Dev /\ pc[Dev] = "reply" /\ Dev \in Task
      /\ pc' = [pc EXCEPT ![Dev] = "replysig"]
      /\ type' = [type EXCEPT ![current] = "REPLYMSG"]
      /\ port' = [port EXCEPT ![current] = AddTail(@, current)]
      /\ UNCHANGED <<cpu, ready, sig, reg, taskPort, quick, cmd, error, sync, current,
                     timer, aborted>>
      /\ UNCHANGED <<sched, sig, reg, timer>>
  BY Tasks DEF ReplyMsg, At, GoTo, sched, signals, device
<1>2. current \in Client /\ InService(current)
  BY <1>1 DEF DevInv, Heard, InService
<1>3. /\ port[current] = <<>> /\ pc[current] \notin {"user", "put", "remove"}
      /\ ~Waiting(current)
  BY <1>2 DEF DevInv, ClientOK, Held
<1>4. port' = [port EXCEPT ![current] = <<current>>] /\ <<current>> \in Seq(Client)
  BY <1>1, <1>2, <1>3, ShortLists
<1>5. TypeOK'
  BY <1>1, <1>2, <1>4 DEF DevInv, TypeOK, DevPC
<1>6. ASSUME NEW c \in Client PROVE ClientOK(c)'
  <2>1. /\ pc'[c] = pc[c] /\ pc'[Dev] = "replysig" /\ ClientOK(c)
        /\ ~InService(c)' /\ Waiting(c)' = Waiting(c)
        /\ type'[c] = IF c = current THEN "REPLYMSG" ELSE type[c]
        /\ port'[c] = IF c = current THEN <<c>> ELSE port[c]
        /\ c # current => ~InService(c)
    BY <1>1, <1>2, <1>4, Tasks DEF DevInv, TypeOK, InService, Waiting
  <2>2. Held(c)'
    BY <1>1, <1>3, <2>1 DEF ClientOK, Held
  <2>3. Known(c)' /\ Told(c)'
    BY <1>1, <2>1 DEF ClientOK, Known, Told
  <2>4. Done(c)'
    BY <1>1, <1>3, <2>1 DEF ClientOK, Done
  <2> QED
    BY <2>2, <2>3, <2>4 DEF ClientOK
<1>7. Distinct(taskPort')
  BY <1>1 DEF DevInv
<1> QED
  BY <1>1, <1>2, <1>5, <1>6, <1>7, DeviceAlone DEF WaitPC

\* The Signal of ReplyMsg, to a client that sleeps already or not.
LEMMA ReplySignalKeeps ==
  ASSUME DevInv, ReplyMsgSignal
  PROVE  DevInv'
<1>1. /\ cpu = Dev /\ pc[Dev] = "replysig" /\ Dev \in Task /\ cpu' = cpu
      /\ WakeupTask(current, "reply", "serve")
      /\ UNCHANGED <<reg, taskPort, port, type, quick, cmd, error, sync, current, timer,
                     aborted>>
  BY Tasks DEF ReplyMsgSignal, At, request, device
<1>2. current \in Client /\ current \in Task /\ current # Dev /\ current # Idle
  BY <1>1, Tasks DEF DevInv, Heard
<1>3. /\ OneCPU' /\ ready' \in Seq(Task) /\ pc'[Dev] = "serve"
      /\ pc'[current] = IF pc[current] = "asleep" THEN "test" ELSE pc[current]
      /\ \A u \in Task \ {current, Dev} : pc'[u] = pc[u]
  <2>1. /\ OneCPU' /\ ready' \in Seq(Task) /\ pc'[cpu] = "serve"
        /\ pc'[current] = IF pc[current] = "asleep" THEN "test" ELSE pc[current]
        /\ \A u \in Task \ {current, cpu} : pc'[u] = pc[u]
    BY <1>1, <1>2, WakesOne
  <2> QED
    BY <1>1, <2>1
<1>4. sig' = [sig EXCEPT ![current] = @ \cup {"reply"}]
  BY <1>1 DEF WakeupTask
<1>5. /\ sig' \in [Task -> SUBSET Signals] /\ sig'[current] = sig[current] \cup {"reply"}
      /\ \A u \in Task \ {current} : sig'[u] = sig[u]
  BY <1>2, <1>4 DEF DevInv, TypeOK, Signals
<1>6. TypeOK'
  <2>1. pc' \in [Task -> WaitPC \cup ClientPC \cup DevPC]
    BY <1>1 DEF DevInv, TypeOK, WakeupTask, WaitPC, DevPC
  <2>2. \A u \in Task : sig'[u] \subseteq Wanted(u) /\ reg'[u] \subseteq Wanted(u)
    BY <1>1, <1>2, <1>5 DEF DevInv, TypeOK, Wanted
  <2> QED
    BY <1>1, <1>3, <1>5, <2>1, <2>2 DEF DevInv, TypeOK
<1>7. Steps'
  BY <1>2, <1>3, Tasks DEF DevInv, Steps, WaitPC, DevPC
<1>8. Heard'
  <2>1. pc'[Dev] = "serve" /\ sig'[Dev] = sig[Dev] /\ timer' = timer
    BY <1>1, <1>2, <1>3, <1>5
  <2> QED
    BY <1>1, <2>1 DEF DevInv, Heard
<1>9. ASSUME NEW c \in Client PROVE ClientOK(c)'
  <2>1. /\ pc'[c] = IF c = current /\ pc[c] = "asleep" THEN "test" ELSE pc[c]
        /\ ClientOK(c) /\ sig[c] \subseteq sig'[c]
        /\ c = current => "reply" \in sig'[c]
        /\ ~InService(c) /\ ~InService(c)' /\ Waiting(c)' = Waiting(c)
    BY <1>1, <1>2, <1>3, <1>5, Tasks DEF DevInv, InService, Waiting
  <2>2. Held(c)'
    BY <1>1, <2>1 DEF ClientOK, Held
  <2>3. Known(c)' /\ Told(c)'
    BY <1>1, <1>3, <2>1 DEF ClientOK, Known, Told
  <2>4. Done(c)'
    BY <1>1, <1>3, <2>1 DEF ClientOK, Done
  <2> QED
    BY <2>2, <2>3, <2>4 DEF ClientOK
<1>10. Distinct(taskPort')
  BY <1>1 DEF DevInv
<1> QED
  BY <1>3, <1>6, <1>7, <1>8, <1>9, <1>10 DEF DevInv

\* The timer's call makes the device send its timer request again, which has left the
\* timer's list by then.
LEMMA TimerKeeps ==
  ASSUME DevInv, TimerCalled
  PROVE  DevInv'
<1>1. /\ cpu = Dev /\ pc[Dev] = "timer" /\ Dev \in Task
      /\ pc' = [pc EXCEPT ![Dev] = "test"] /\ timer' = timer + 1
      /\ UNCHANGED <<cpu, ready, sig, reg, taskPort, port, type, quick, cmd, error, sync,
                     current, aborted>>
      /\ UNCHANGED sched
  BY Tasks DEF TimerCalled, At, GoTo, sched, signals, request
<1>2. timer = 0 /\ "time" \notin sig[Dev]
  BY <1>1 DEF DevInv, Heard
<1>3. TypeOK'
  BY <1>1, <1>2 DEF DevInv, TypeOK, WaitPC
<1>4. OneCPU'
  BY <1>1, GoOn
<1>5. pc'[Dev] = "test" /\ \A u \in Task \ {Dev} : pc'[u] = pc[u]
  BY <1>1 DEF DevInv, TypeOK
<1>6. Steps' /\ Heard' /\ Distinct(taskPort')
  BY <1>1, <1>2, <1>5, Tasks DEF DevInv, Steps, Heard, WaitPC
<1>7. ASSUME NEW c \in Client PROVE ClientOK(c)'
  <2>1. /\ pc'[c] = pc[c] /\ ClientOK(c)
        /\ ~InService(c) /\ ~InService(c)' /\ Waiting(c)' = Waiting(c)
    BY <1>1, <1>5, Tasks DEF DevInv, InService, Waiting
  <2>2. Held(c)' /\ Known(c)'
    BY <1>1, <1>5, <2>1 DEF ClientOK, Held, Known
  <2>3. Told(c)' /\ Done(c)'
    BY <1>1, <1>5, <2>1 DEF ClientOK, Told, Done
  <2> QED
    BY <2>2, <2>3 DEF ClientOK
<1> QED
  BY <1>3, <1>4, <1>6, <1>7 DEF DevInv

\* The interrupt posts the timer's signal, at any step of the device task.
LEMMA InterruptKeeps ==
  ASSUME DevInv, Interrupt
  PROVE  DevInv'
<1>1. /\ OneCPU' /\ cpu' \in Task /\ ready' \in Seq(Task)
      /\ pc[Dev] # "asleep" => pc' = pc
      /\ pc[Dev] = "asleep" => pc' = pc \/ pc' = [pc EXCEPT ![Dev] = "test"]
  BY TickSwitches
<1>2. /\ UNCHANGED <<reg, taskPort, port, type, quick, cmd, error, sync, current, aborted>>
      /\ \/ timer' = timer /\ sig' = sig
         \/ /\ timer > 0 /\ timer' = timer - 1
            /\ sig' = [sig EXCEPT ![Dev] = @ \cup {"time"}]
  <2>1. PICK due \in IF timer > 0 THEN BOOLEAN ELSE {FALSE} :
          /\ timer' = IF due THEN timer - 1 ELSE timer
          /\ sig' = IF due THEN [sig EXCEPT ![Dev] = @ \cup {"time"}] ELSE sig
    BY DEF Interrupt
  <2> QED
    BY <2>1 DEF Interrupt, request
<1>3. /\ \A u \in Task \ {Dev} : pc'[u] = pc[u]
      /\ pc'[Dev] = pc[Dev] \/ (pc[Dev] = "asleep" /\ pc'[Dev] = "test")
      /\ Dev \in Task
  BY <1>1, Tasks DEF DevInv, TypeOK
<1>4. /\ sig' \in [Task -> SUBSET Signals] /\ timer' \in 0..1
      /\ \A u \in Task \ {Dev} : sig'[u] = sig[u]
      /\ \/ timer' = timer /\ sig'[Dev] = sig[Dev]
         \/ timer = 1 /\ timer' = 0 /\ sig'[Dev] = sig[Dev] \cup {"time"}
  <2>1. sig \in [Task -> SUBSET Signals] /\ timer \in {0, 1}
    BY DEF DevInv, TypeOK
  <2>2. CASE timer' = timer /\ sig' = sig
    BY <2>1, <2>2
  <2>3. CASE /\ timer > 0 /\ timer' = timer - 1
             /\ sig' = [sig EXCEPT ![Dev] = @ \cup {"time"}]
    <3>1. timer = 1 /\ timer' = 0
      BY <2>1, <2>3
    <3>2. /\ sig' \in [Task -> SUBSET Signals] /\ sig'[Dev] = sig[Dev] \cup {"time"}
          /\ \A u \in Task \ {Dev} : sig'[u] = sig[u]
      BY <1>3, <2>1, <2>3 DEF Signals
    <3> QED
      BY <3>1, <3>2
  <2> QED
    BY <1>2, <2>2, <2>3
<1>5. TypeOK'
  <2>1. pc' \in [Task -> WaitPC \cup ClientPC \cup DevPC]
    BY <1>1 DEF DevInv, TypeOK, WaitPC
  <2>2. \A u \in Task : sig'[u] \subseteq Wanted(u) /\ reg'[u] \subseteq Wanted(u)
    BY <1>2, <1>4 DEF DevInv, TypeOK, Wanted
  <2> QED
    BY <1>1, <1>2, <1>4, <2>1, <2>2 DEF DevInv, TypeOK
<1>6. Steps' /\ Distinct(taskPort')
  BY <1>2, <1>3, Tasks DEF DevInv, Steps, WaitPC
<1>7. Heard'
  <2>1. Heard
    BY DEF DevInv
  <2>2. reg' = reg /\ current' = current
    BY <1>2
  <2> QED
    BY <1>3, <1>4, <2>1, <2>2 DEF Heard
<1>8. ASSUME NEW c \in Client PROVE ClientOK(c)'
  <2>1. /\ pc'[c] = pc[c] /\ ClientOK(c) /\ sig'[c] = sig[c] /\ sig[Dev] \subseteq sig'[Dev]
        /\ InService(c)' = InService(c) /\ Waiting(c)' = Waiting(c)
    BY <1>2, <1>3, <1>4, Tasks DEF DevInv, InService, Waiting
  <2>2. Held(c)'
    BY <1>2, <2>1 DEF ClientOK, Held
  <2>3. Known(c)' /\ Told(c)' /\ Done(c)'
    BY <1>2, <1>3, <2>1 DEF ClientOK, Known, Told, Done
  <2> QED
    BY <2>2, <2>3 DEF ClientOK
<1> QED
  BY <1>1, <1>5, <1>6, <1>7, <1>8 DEF DevInv
----------------------------------------------------------------------------
(***************************************************************************)
(* The invariant and the theorems.                                         *)
(***************************************************************************)
\* The clients are ready in any order, behind the device, before the idle task.
LEMMA FirstReady ==
  ASSUME NEW q \in SetToSeqs(Client)
  PROVE  /\ Append(q, Idle) \in Seq(Task)
         /\ Distinct(Append(q, Idle)) /\ SortedBy(Append(q, Idle), pri)
         /\ Dev \notin ToSet(Append(q, Idle)) /\ Idle \in ToSet(Append(q, Idle))
<1>1. Cardinality(Client) \in Nat
  BY TestDeviceAssumption, FS_CardinalityType
<1>2. q \in [1..Cardinality(Client) -> Client]
  BY DEF SetToSeqs
<1>3. q \in Seq(Client) /\ Len(q) = Cardinality(Client)
  BY <1>1, <1>2, IsASeq, LenProperties
<1>4. Distinct(q)
  BY <1>3 DEF SetToSeqs, Distinct
<1>5. q \in Seq(Task) /\ Idle \in Task /\ \A c \in ToSet(q) : c \in Client
  BY <1>2, <1>3, Tasks DEF ToSet
<1> DEFINE e == Append(q, Idle)
<1>6. /\ e \in Seq(Task) /\ ToSet(e) = ToSet(q) \cup {Idle} /\ Distinct(e)
  BY <1>4, <1>5, Tasks, AddTailMembers DEF AddTail
<1>7. SortedBy(e, pri)
  <2>1. /\ Len(q) \in Nat /\ Len(e) = Len(q) + 1 /\ \A i \in 1..Len(q) : e[i] = q[i]
        /\ e[Len(q) + 1] = Idle /\ \A i \in 1..Len(q) : q[i] \in Client
    BY <1>3, <1>5, AppendProperties, LenProperties
  <2>2. pri[Idle] = -128 /\ \A c \in Client : pri[c] = 0
    BY Tasks DEF pri
  <2> HIDE DEF e
  <2>3. ASSUME NEW i \in 1..Len(e), NEW j \in 1..Len(e), i < j
        PROVE  pri[e[i]] >= pri[e[j]]
    <3>1. i \in 1..Len(q) /\ pri[e[i]] = 0
      BY <2>1, <2>2, <2>3
    <3>2. CASE j \in 1..Len(q)
      BY <2>1, <2>2, <3>1, <3>2
    <3>3. CASE j = Len(q) + 1
      BY <2>1, <2>2, <3>1, <3>3
    <3> QED
      BY <2>1, <3>2, <3>3
  <2> QED
    BY <2>3 DEF SortedBy
<1> QED
  BY <1>5, <1>6, <1>7, Tasks

LEMMA DevInit == Init => DevInv
<1> SUFFICES ASSUME Init PROVE DevInv
  OBVIOUS
<1>1. PICK q \in SetToSeqs(Client) : ready = Append(q, Idle)
  BY DEF Init
<1>2. /\ ready \in Seq(Task) /\ Distinct(ready) /\ SortedBy(ready, pri)
      /\ Dev \notin ToSet(ready) /\ Idle \in ToSet(ready)
      /\ \A t \in ToSet(ready) : t \in Task
  BY <1>1, FirstReady DEF ToSet
<1>3. <<>> \in Seq(Client) /\ ToSet(<<>>) = {} /\ Distinct(<<>>)
  BY DEF ToSet, Distinct
<1>4. TypeOK
  BY <1>2, <1>3, Tasks DEF Init, TypeOK, WaitPC, ClientPC, Signals, Wanted, Command
<1>5. Steps /\ OneCPU
  BY <1>2, Tasks DEF Init, Steps, OneCPU, WaitPC, ClientPC
<1>6. Heard
  BY Tasks DEF Init, Heard
<1>7. ASSUME NEW c \in Client PROVE ClientOK(c)
  <2>1. /\ pc[c] = "user" /\ pc[Dev] = "test" /\ port[c] = <<>> /\ taskPort = <<>>
        /\ error[c] = 0 /\ cmd[c] = "UPDATE"
    BY Tasks DEF Init
  <2>2. ~Waiting(c) /\ ~InService(c)
    BY <1>3, <2>1 DEF Waiting, InService
  <2>3. Held(c) /\ Known(c) /\ Told(c)
    BY <2>1, <2>2 DEF Held, Known, Told
  <2>4. Done(c)
    BY <2>1 DEF Done, Outcome
  <2> QED
    BY <2>3, <2>4 DEF ClientOK
<1>8. Distinct(taskPort)
  BY <1>3 DEF Init
<1> QED
  BY <1>4, <1>5, <1>6, <1>7, <1>8 DEF DevInv

\* Every step keeps the invariant.
LEMMA DevStep == DevInv /\ [Next]_vars => DevInv'
<1> SUFFICES ASSUME DevInv, [Next]_vars PROVE DevInv'
  OBVIOUS
<1>1. ASSUME NEW c \in Client, ClientStep(c) PROVE DevInv'
  <2>1. CASE \E command \in Uses[c] : DoIO(c, command) \/ SendIO(c, command)
    BY <2>1, StartKeeps
  <2>2. CASE Wait(c)
    BY <2>2, ClientWaits, SleepKeeps DEF Wait
  <2>3. CASE PutMsg(c) \/ PutMsgSignal(c) \/ WaitIORemove(c)
    BY <2>3, PutKeeps, PutSignalKeeps, RemoveKeeps
  <2>4. CASE BeginIODone(c) \/ AbortIO(c) \/ WaitIO(c) \/ WaitIOLoop(c)
    BY <2>4, CallKeeps
  <2> QED
    BY <1>1, <2>1, <2>2, <2>3, <2>4 DEF ClientStep
<1>2. CASE DeviceStep
  <2>1. CASE Wait(Dev)
    BY <2>1, DeviceWaits, SleepKeeps DEF Wait
  <2> QED
    BY <1>2, <2>1, GetKeeps, PerformKeeps, ReplyKeeps, ReplySignalKeeps, TimerKeeps
    DEF DeviceStep
<1>3. CASE UNCHANGED vars
  <2>1. UNCHANGED <<cpu, ready, pc, sig, reg, taskPort, port, type, quick, cmd, error, sync,
                    current, timer, aborted>>
    BY <1>3 DEF vars, sched, signals, request, device
  <2>2. TypeOK' /\ Steps' /\ OneCPU' /\ Heard' /\ Distinct(taskPort')
    BY <2>1 DEF DevInv, TypeOK, Steps, OneCPU, Heard
  <2>3. ASSUME NEW c \in Client PROVE ClientOK(c)'
    BY <2>1 DEF DevInv, ClientOK, Held, Known, Told, Done, Waiting, InService
  <2> QED
    BY <2>2, <2>3 DEF DevInv
<1> QED
  BY <1>1, <1>2, <1>3, InterruptKeeps DEF Next

\* DevInv holds in every state.
LEMMA DevInvAlways == Spec => []DevInv
BY DevInit, DevStep, PTL DEF Spec

\* A request is in TaskPort, with the device, in its reply port or with its client,
\* and ln_Type tells WaitIO which (io.c:68,75; messages.c:24,57).
THEOREM RequestInOnePlace == Spec => []OnePlace
<1>1. ASSUME DevInv PROVE OnePlace
  <2>1. ASSUME NEW c \in Client
        PROVE  /\ port[c] \in {<<>>, <<c>>}
               /\ IF pc[c] \in {"user", "put"}
                  THEN Places(c) = {}
                  ELSE \/ type[c] = "REPLYMSG" /\ Places(c) = {"reply port"}
                       \/ type[c] = "MESSAGE" /\ Places(c) \in {{"TaskPort"}, {"device"}}
    <3>1. Held(c)
      BY <1>1 DEF DevInv, ClientOK
    <3>2. <<c>> # <<>>
      OBVIOUS
    <3>3. ~Waiting(c) /\ ~InService(c) /\ port[c] = <<>> => Places(c) = {}
      BY DEF Places, Waiting
    <3>4. ~Waiting(c) /\ ~InService(c) /\ port[c] = <<c>> => Places(c) = {"reply port"}
      BY <3>2 DEF Places, Waiting
    <3>5. Waiting(c) /\ ~InService(c) /\ port[c] = <<>> => Places(c) = {"TaskPort"}
      BY DEF Places, Waiting
    <3>6. ~Waiting(c) /\ InService(c) /\ port[c] = <<>> => Places(c) = {"device"}
      BY DEF Places, Waiting
    <3> QED
      BY <3>1, <3>3, <3>4, <3>5, <3>6 DEF Held
  <2> QED
    BY <1>1, <2>1 DEF DevInv, OnePlace
<1> QED
  BY <1>1, DevInvAlways, PTL

\* The device sleeps on no request whose client has posted it: it runs above its
\* clients, who cannot come between the halves of its Wait (messages.c:139,147).
THEOREM NoRequestForgotten == Spec => []NothingForgotten
<1>1. DevInv => NothingForgotten
  BY DEF DevInv, ClientOK, Known, Waiting, Heard, NothingForgotten, TypeOK, ToSet
<1> QED
  BY <1>1, DevInvAlways, PTL

\* A client asleep on a reply has its signal, or is about to get it (messages.c:169).
THEOREM RepliesSignalled == Spec => []ReplySignalled
<1>1. DevInv => ReplySignalled
  BY DEF DevInv, ClientOK, Told, ReplySignalled
<1> QED
  BY <1>1, DevInvAlways, PTL

\* DoIO and WaitIO return what the command has left in io_Error, although IOF_QUICK is
\* cleared after the request was handed over (testdevice.c:57,58).
THEOREM CallsAnswered == Spec => []Answered
<1>1. DevInv => Answered
  BY DEF DevInv, ClientOK, Done, Answered
<1> QED
  BY <1>1, DevInvAlways, PTL
=============================================================================
