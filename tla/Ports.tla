------------------------------- MODULE Ports -------------------------------
(***************************************************************************)
(* Message ports (lib.exec/ports.c, messages.c, tasks.c): the public list  *)
(* and the searches that walk it without Forbid, the signal bits that      *)
(* ports are given, and WaitPort against the tasks and interrupts that     *)
(* send.  The list is kept at the level of its links, since a search       *)
(* stands on a node while other tasks relink it.  FindSemaphore and the    *)
(* list of semaphores (semaphores.c:16-35) are the same code.              *)
(*                                                                         *)
(* A server makes ports, publishes them and waits at them; a client looks  *)
(* for ports and sends to them.  Whoever runs may lose the CPU between any *)
(* two steps; what is inside Forbid or Disable is one step.                *)
(***************************************************************************)
EXTENDS FiniteSets, LinkedLists

CONSTANTS
  Server, Client,
  Port,           \* the memory AllocVec can give for MsgPorts
  LHead, LTail,   \* the two cells of SysBase->PortList
  Name, NameOf,   \* ln_Name of each port
  Pri,            \* ln_Pri of each port
  Bits,           \* SigAlloc has the bits 0 to Bits - 1
  MaxMail         \* bound on the messages in a port

PortList == Header(LHead, LTail)
Cell     == Port \cup {LHead, LTail}
Bound    == Cardinality(Port)

ASSUME PortsAssumption ==
  /\ IsFiniteSet(Port)
  /\ NULL \notin Cell \cup Server
  /\ Server \cap Client = {}
  /\ LHead \notin Port \cup {LTail} /\ LTail \notin Port
  /\ NameOf \in [Port -> Name]
  /\ Pri \in [Port -> Int]
  /\ Bits \in Nat /\ MaxMail \in Nat

VARIABLES
  mem,       \* ln_Succ and ln_Pred of the cells
  owner,     \* mp_SigTask of each port in use, NULL otherwise
  sigBit,    \* mp_SigBit
  mail,      \* how many messages mp_MsgList holds
  sigAlloc, sigRecvd,  \* of each server
  pc,        \* where each task is
  at,        \* the port a server is busy with; the node a search stands on
  reg,       \* SigRecvd as the server has loaded it
  name,      \* what a client looks for
  public,    \* history: the public list as a sequence
  unlinked,  \* history: what has left the list since each search began
  steady,    \* history: what has been public ever since
  confused,  \* history: some of what had left has been linked or allocated again
  missed     \* history: a signal came between the test of Wait and the sleep

ports   == <<mem, owner, sigBit, mail, public>>
signals == <<sigAlloc, sigRecvd, reg, missed>>
walk    == <<name, unlinked, steady, confused>>
vars    == <<ports, signals, walk, pc, at>>

PC == {"user", "alloc", "load", "store",
       "waitport", "test", "sleep", "asleep", "collect", "clear",
       "look", "next", "found", "none", "signal"}

Init ==
  /\ mem = NewList([succ |-> [c \in Cell |-> NULL], pred |-> [c \in Cell |-> NULL]],
                   PortList)
  /\ owner = [p \in Port |-> NULL]
  /\ sigBit = [p \in Port |-> 0]
  /\ mail = [p \in Port |-> 0]
  /\ public = <<>>
  /\ sigAlloc = [s \in Server |-> {}]
  /\ sigRecvd = [s \in Server |-> {}]
  /\ reg = [s \in Server |-> {}]
  /\ missed = [s \in Server |-> FALSE]
  /\ name = [c \in Client |-> NULL]
  /\ unlinked = [c \in Client |-> {}]
  /\ steady = [c \in Client |-> {}]
  /\ confused = [c \in Client |-> FALSE]
  /\ pc = [t \in Server \cup Client |-> "user"]
  /\ at = [t \in Server \cup Client |-> NULL]
----------------------------------------------------------------------------
GoTo(t, label) == pc' = [pc EXCEPT ![t] = label]

\* Back to the caller, where the locals are gone.
Return(t) == GoTo(t, "user") /\ at' = [at EXCEPT ![t] = NULL]

IsPublic(p) == p \in ToSet(public)
Searching(c) == pc[c] \in {"look", "next", "found", "none"}

\* A search may stand on a node that has left the list, or come to one along links
\* that are no longer those of the list.
Reused(p) ==
  confused' = [c \in Client |-> confused[c] \/ (Searching(c) /\ p \in unlinked[c])]

\* CreateMsgPort: AllocVec with MEMF_CLEAR, or no memory.
CreateMsgPort(s, p) ==
  /\ pc[s] = "user"
  /\ owner[p] = NULL
  /\ GoTo(s, "alloc")
  /\ at' = [at EXCEPT ![s] = p]
  /\ owner' = [owner EXCEPT ![p] = s]
  /\ mem' = SetPred(SetSucc(mem, p, NULL), p, NULL)
  /\ Reused(p)
  /\ UNCHANGED <<sigBit, mail, public, signals, name, unlinked, steady>>

\* AllocSignal(-1): the highest free bit; without one the port is freed again.
FreeBits(s) == (0..Bits - 1) \ sigAlloc[s]

AllocSignal(s) ==
  /\ pc[s] = "alloc"
  /\ IF FreeBits(s) = {}
     THEN /\ owner' = [owner EXCEPT ![at[s]] = NULL]
          /\ Return(s)
          /\ UNCHANGED <<sigAlloc, sigBit>>
     ELSE LET bit == Max(FreeBits(s))
          IN  /\ sigAlloc' = [sigAlloc EXCEPT ![s] = @ \cup {bit}]
              /\ sigBit' = [sigBit EXCEPT ![at[s]] = bit]
              /\ GoTo(s, "load")
              /\ UNCHANGED <<owner, at>>
  /\ UNCHANGED <<mem, mail, public, sigRecvd, reg, missed, walk>>

\* SigRecvd &= ~mask1, with interrupts enabled: a signal in between is lost.
AllocLoad(s) ==
  /\ pc[s] = "load"
  /\ reg' = [reg EXCEPT ![s] = sigRecvd[s]]
  /\ GoTo(s, "store")
  /\ UNCHANGED <<ports, sigAlloc, sigRecvd, missed, walk, at>>

AllocStore(s) ==
  /\ pc[s] = "store"
  /\ sigRecvd' = [sigRecvd EXCEPT ![s] = reg[s] \ {sigBit[at[s]]}]
  /\ reg' = [reg EXCEPT ![s] = {}]
  /\ Return(s)
  /\ UNCHANGED <<ports, sigAlloc, missed, walk>>

\* AddPort: NewListType empties the port, then Enqueue inside Forbid.
AddPort(s, p) ==
  /\ pc[s] = "user"
  /\ owner[p] = s /\ ~IsPublic(p)
  /\ mem' = LinkByPri(mem, PortList, p, Pri, Bound)
  /\ mail' = [mail EXCEPT ![p] = 0]
  /\ public' = Enqueue(public, p, Pri)
  /\ Reused(p)
  /\ UNCHANGED <<owner, sigBit, signals, name, unlinked, steady, pc, at>>

\* What a search has to know of a node that leaves the list.
Leaves(p) ==
  /\ public' = Unlink(public, p)
  /\ unlinked' = [c \in Client |-> IF Searching(c) THEN unlinked[c] \cup {p} ELSE {}]
  /\ steady' = [c \in Client |-> steady[c] \ {p}]

\* Seeded fault: the links of the removed node are cleared, as RemTail does.
Bug_RemPortClears(s, p) ==
  /\ pc[s] = "user"
  /\ owner[p] = s /\ IsPublic(p)
  /\ mem' = SetPred(SetSucc(RemoveNode(mem, p), p, NULL), p, NULL)
  /\ Leaves(p)
  /\ UNCHANGED <<owner, sigBit, mail, signals, name, confused, pc, at>>

\* RemPort: Remove inside Forbid.
RemPort(s, p) ==
  /\ pc[s] = "user"
  /\ owner[p] = s /\ IsPublic(p)
  /\ mem' = RemoveNode(mem, p)
  /\ Leaves(p)
  /\ UNCHANGED <<owner, sigBit, mail, signals, name, confused, pc, at>>

\* Seeded fault: the bit is not given back.
Bug_DeleteKeepsBit(s, p) ==
  /\ pc[s] = "user"
  /\ owner[p] = s /\ ~IsPublic(p)
  /\ \A c \in Client : pc[c] = "signal" => at[c] # p
  /\ owner' = [owner EXCEPT ![p] = NULL]
  /\ mail' = [mail EXCEPT ![p] = 0]
  /\ mem' = SetPred(SetSucc(mem, p, NULL), p, NULL)
  /\ Reused(p)
  /\ UNCHANGED <<sigBit, public, signals, name, unlinked, steady, pc, at>>

\* DeleteMsgPort: FreeSignal and FreeVec, whose chunk overwrites the links.  A server
\* deletes a port that is not public and that nobody is sending to.
DeleteMsgPort(s, p) ==
  /\ pc[s] = "user"
  /\ owner[p] = s /\ ~IsPublic(p)
  /\ \A c \in Client : pc[c] = "signal" => at[c] # p
  /\ sigAlloc' = [sigAlloc EXCEPT ![s] = @ \ {sigBit[p]}]
  /\ owner' = [owner EXCEPT ![p] = NULL]
  /\ sigBit' = [sigBit EXCEPT ![p] = 0]
  /\ mail' = [mail EXCEPT ![p] = 0]
  /\ mem' = SetPred(SetSucc(mem, p, NULL), p, NULL)
  /\ Reused(p)
  /\ UNCHANGED <<public, sigRecvd, reg, missed, name, unlinked, steady, pc, at>>
----------------------------------------------------------------------------
\* WaitPort tests the port before each Wait, and returns when there is a message.
WaitPortCall(s, p) ==
  /\ pc[s] = "user"
  /\ owner[p] = s
  /\ at' = [at EXCEPT ![s] = p]
  /\ GoTo(s, "waitport")
  /\ UNCHANGED <<ports, signals, walk>>

\* Seeded fault: the signal is waited for first.
Bug_WaitPortBlind(s) ==
  /\ pc[s] = "waitport"
  /\ GoTo(s, "test")
  /\ UNCHANGED <<ports, signals, walk, at>>

WaitPort(s) ==
  /\ pc[s] = "waitport"
  /\ IF mail[at[s]] = 0 THEN GoTo(s, "test") /\ UNCHANGED at ELSE Return(s)
  /\ UNCHANGED <<ports, signals, walk>>

\* Wait, cut as in Sched: test, sleep, and SigRecvd &= ~signalSet.
WaitTest(s) ==
  /\ pc[s] = "test"
  /\ GoTo(s, IF sigBit[at[s]] \in sigRecvd[s] THEN "collect" ELSE "sleep")
  /\ UNCHANGED <<ports, signals, walk, at>>

WaitSleep(s) ==
  /\ pc[s] = "sleep"
  /\ GoTo(s, "asleep")
  /\ UNCHANGED <<ports, signals, walk, at>>

WaitLoad(s) ==
  /\ pc[s] = "collect"
  /\ reg' = [reg EXCEPT ![s] = sigRecvd[s]]
  /\ GoTo(s, "clear")
  /\ UNCHANGED <<ports, sigAlloc, sigRecvd, missed, walk, at>>

WaitStore(s) ==
  /\ pc[s] = "clear"
  /\ sigRecvd' = [sigRecvd EXCEPT ![s] = reg[s] \ {sigBit[at[s]]}]
  /\ missed' = [missed EXCEPT ![s] = FALSE]
  /\ reg' = [reg EXCEPT ![s] = {}]
  /\ GoTo(s, "waitport")
  /\ UNCHANGED <<ports, sigAlloc, walk, at>>

\* GetMsg: RemHead inside Disable.
GetMsg(s, p) ==
  /\ pc[s] = "user"
  /\ owner[p] = s /\ mail[p] > 0
  /\ mail' = [mail EXCEPT ![p] = @ - 1]
  /\ UNCHANGED <<mem, owner, sigBit, public, signals, walk, pc, at>>
----------------------------------------------------------------------------
\* PutMsg and ReplyMsg: AddTail, then Signal, which ends a sleep whatever it is for.
Post(p) == mail' = [mail EXCEPT ![p] = @ + 1]

SignalOwner(p) ==
  LET s == owner[p]
  IN  /\ sigRecvd' = [sigRecvd EXCEPT ![s] = @ \cup {sigBit[p]}]
      /\ missed' = [missed EXCEPT ![s] = IF pc[s] = "sleep" THEN TRUE
                                         ELSE @ /\ pc[s] # "asleep"]

\* The reader of a port that its owner has made and not yet begun to delete.
Open(p) == owner[p] # NULL /\ ~(pc[owner[p]] \in {"alloc", "load", "store"} /\ at[owner[p]] = p)

PutMsg(c, p) ==
  /\ pc[c] = "user"
  /\ Open(p) /\ mail[p] < MaxMail
  /\ Post(p)
  /\ at' = [at EXCEPT ![c] = p]
  /\ GoTo(c, "signal")
  /\ UNCHANGED <<mem, owner, sigBit, public, signals, walk>>

PutMsgSignal(c) ==
  LET s == owner[at[c]]
  IN  /\ pc[c] = "signal"
      /\ SignalOwner(at[c])
      /\ pc' = [pc EXCEPT ![c] = "user", ![s] = IF @ = "asleep" THEN "test" ELSE @]
      /\ at' = [at EXCEPT ![c] = NULL]
      /\ UNCHANGED <<ports, sigAlloc, reg, walk>>

\* An interrupt server replies to a request: both steps at once.
InterruptReply(p) ==
  LET s == owner[p]
  IN  /\ Open(p) /\ mail[p] < MaxMail
      /\ Post(p)
      /\ SignalOwner(p)
      /\ pc' = [pc EXCEPT ![s] = IF @ = "asleep" THEN "test" ELSE @]
      /\ UNCHANGED <<mem, owner, sigBit, public, sigAlloc, reg, walk, at>>
----------------------------------------------------------------------------
\* FindPort: FindName from lh_Head, without Forbid.
FindPort(c, n) ==
  /\ pc[c] = "user"
  /\ name' = [name EXCEPT ![c] = n]
  /\ at' = [at EXCEPT ![c] = mem.succ[LHead]]
  /\ steady' = [steady EXCEPT ![c] = ToSet(public)]
  /\ unlinked' = [unlinked EXCEPT ![c] = {}]
  /\ confused' = [confused EXCEPT ![c] = FALSE]
  /\ GoTo(c, "look")
  /\ UNCHANGED <<ports, signals>>

FindLook(c) ==
  /\ pc[c] = "look"
  /\ GoTo(c, IF at[c] = NULL \/ mem.succ[at[c]] = NULL THEN "none"
             ELSE IF NameOf[at[c]] = name[c] THEN "found" ELSE "next")
  /\ UNCHANGED <<ports, signals, walk, at>>

FindNext(c) ==
  /\ pc[c] = "next"
  /\ at' = [at EXCEPT ![c] = mem.succ[at[c]]]
  /\ GoTo(c, "look")
  /\ UNCHANGED <<ports, signals, walk>>

FindReturn(c) ==
  /\ pc[c] \in {"found", "none"}
  /\ name' = [name EXCEPT ![c] = NULL]
  /\ steady' = [steady EXCEPT ![c] = {}]
  /\ unlinked' = [unlinked EXCEPT ![c] = {}]
  /\ confused' = [confused EXCEPT ![c] = FALSE]
  /\ Return(c)
  /\ UNCHANGED <<ports, signals>>

ServerStep(s) ==
  \/ \E p \in Port : \/ CreateMsgPort(s, p) \/ AddPort(s, p) \/ RemPort(s, p)
                     \/ DeleteMsgPort(s, p) \/ WaitPortCall(s, p) \/ GetMsg(s, p)
  \/ AllocSignal(s) \/ AllocLoad(s) \/ AllocStore(s)
  \/ WaitPort(s) \/ WaitTest(s) \/ WaitSleep(s) \/ WaitLoad(s) \/ WaitStore(s)

ClientStep(c) ==
  \/ \E p \in Port : PutMsg(c, p)
  \/ \E n \in Name : FindPort(c, n)
  \/ PutMsgSignal(c) \/ FindLook(c) \/ FindNext(c) \/ FindReturn(c)

Next ==
  \/ \E s \in Server : ServerStep(s)
  \/ \E c \in Client : ClientStep(c)
  \/ \E p \in Port : InterruptReply(p)

Spec == Init /\ [][Next]_vars
----------------------------------------------------------------------------
LinkType ==
  /\ mem \in [succ : [Cell -> Cell \cup {NULL}], pred : [Cell -> Cell \cup {NULL}]]
  /\ public \in Seq(Port)

PortType ==
  /\ owner \in [Port -> Server \cup {NULL}]
  /\ sigBit \in [Port -> Nat]
  /\ mail \in [Port -> 0..MaxMail]

SignalType ==
  /\ sigAlloc \in [Server -> SUBSET (0..Bits - 1)]
  /\ sigRecvd \in [Server -> SUBSET (0..Bits - 1)]
  /\ reg \in [Server -> SUBSET (0..Bits - 1)]
  /\ missed \in [Server -> BOOLEAN]

TaskType ==
  /\ pc \in [Server \cup Client -> PC]
  /\ at \in [Server \cup Client -> Cell \cup {NULL}]

WalkType ==
  /\ name \in [Client -> Name \cup {NULL}]
  /\ unlinked \in [Client -> SUBSET Port]
  /\ steady \in [Client -> SUBSET Port]
  /\ confused \in [Client -> BOOLEAN]

TypeOK == LinkType /\ PortType /\ SignalType /\ TaskType /\ WalkType

\* The links of PortList are those of a list, in both directions, of the public ports
\* in the order of their priorities (lib.exec/list.c:45-65,96-100, ports.c:8-27):
\* the list of pointers implements the sequence the other modules take it for.
ListExact ==
  /\ TypeOK
  /\ Represents(mem, PortList, public)
  /\ Distinct(public) /\ SortedBy(public, Pri)

\* FindPort finds a port that is public all the time it looks, although it walks
\* without Forbid: it goes on from a node that has been removed.  Only if a port that
\* left the list meanwhile is published or allocated again may it miss one
\* (lib.exec/ports.c:17-27, list.c:153-161; FindSemaphore, semaphores.c:32-35).
FindPortFinds ==
  \A c \in Client :
    ~confused[c] =>
      /\ pc[c] = "none" => \A p \in steady[c] : NameOf[p] # name[c]
      /\ pc[c] = "found" => at[c] \in steady[c] \cup unlinked[c] \cup ToSet(public)

\* The ports of a task that CreateMsgPort has found a bit for.
Mine(s) == {p \in Port : owner[p] = s /\ ~(pc[s] = "alloc" /\ at[s] = p)}

\* Each port of a task has a signal bit of its own, and no bit is allocated that no
\* port has: over any sequence of creating, failing and deleting, with ports coming
\* and going in the same memory (ports.c:38-71, tasks.c:95-138).
BitsOwned ==
  \A s \in Server :
    /\ sigAlloc[s] = {sigBit[p] : p \in Mine(s)}
    /\ Cardinality(sigAlloc[s]) = Cardinality(Mine(s))

\* A task is asleep in WaitPort on a port with a message only while the sender has
\* not signalled yet, or when the signal fell between the test and the sleep of
\* Wait (messages.c:139): signals lost in AllocSignal and Wait (tasks.c:123,
\* messages.c:147), or left over from a deleted port, do no harm, as WaitPort looks
\* at the port itself each time round (ports.c:31-34).
SleepsOnMail ==
  \A s \in Server :
    pc[s] = "asleep" /\ mail[at[s]] > 0 =>
      missed[s] \/ \E c \in Client : pc[c] = "signal" /\ at[c] = at[s]
============================================================================
