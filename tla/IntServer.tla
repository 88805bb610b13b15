----------------------------- MODULE IntServer -----------------------------
(***************************************************************************)
(* Interrupt servers (lib.exec/intserver.c): chains of servers by          *)
(* exception and by interrupt line, and the dispatch of an interrupt, from *)
(* the exception entry through the exception's chain and the controller's  *)
(* pending registers to the line's chain.  is_Count and is_Cycles, which   *)
(* nobody reads, are left out.                                             *)
(***************************************************************************)
EXTENDS ExecLists, Integers, FiniteSets

CONSTANTS
  Server,      \* interrupt servers of drivers
  Claims,      \* those that return a non-zero value
  SrvPri,      \* is_Node.ln_Pri of every server, the kernel's own included
  Tick,        \* exec.library's server of the system timer
  Lines        \* lines that are enabled and may become pending

KernelServer == {"_IRQServer", "prefetch_abort", "data_abort", "swi_exception", "exc_undef"}

\* The controller has 64 lines of the GPU and 8 of the core (raspi_irq.h:5-80).
ASSUME IntAssumption ==
  /\ Lines \subseteq 0..71
  /\ (Server \cup {Tick}) \cap KernelServer = {}
  /\ \A s \in Server \cup {Tick} \cup KernelServer : SrvPri[s] \in Int

VARIABLES
  exc,         \* SysBase->ExcServer
  irq,         \* SysBase->IRQServer; the chains of other lines stay empty
  pending,     \* lines the controller holds pending
  added,       \* history: servers in the order they were added
  called       \* history: the last interrupt's pending lines and the servers it called

intVars == <<exc, irq, pending, added, called>>

ExcVectors == 8
FiqVec == 28                      \* EXC_FIQ_VEC, the vector's address
EXC_IRQ == 5
EXC_FIQ == 6
Timer3 == 3                       \* IRQ_TIMER3

NoCall == [at |-> {}, exc |-> {}, irq |-> {}]

\* A number that is too large is refused; 8 itself would be let through.
ExcAdded(e, n, s) == IF n > ExcVectors THEN e ELSE [e EXCEPT ![n] = Enqueue(e[n], s, SrvPri)]

\* _InitExcServer.
InitExcServer ==
  LET empty == [n \in 0..ExcVectors - 1 |-> <<>>]
      irqs  == ExcAdded(empty, EXC_IRQ, "_IRQServer")
      abort == ExcAdded(ExcAdded(irqs, 3, "prefetch_abort"), 4, "data_abort")
      swi   == ExcAdded(abort, 2, "swi_exception")
  IN  ExcAdded(ExcAdded(ExcAdded(swi, FiqVec, "exc_undef"), 1, "exc_undef"), 0, "exc_undef")

\* CreateSysBase and Platform_InitTimer.
IntInit ==
  /\ exc = InitExcServer
  /\ irq = [n \in Lines |-> IF n = Timer3 THEN <<Tick>> ELSE <<>>]
  /\ pending = {} /\ added = <<Tick>> /\ called = NoCall
----------------------------------------------------------------------------
\* 0x077CB531 shifted up, in halves of 16 bits, and IRQBits * 0x077CB531.
HalfSize == 65536
Shifted[n \in 0..31] ==
  IF n = 0 THEN [hi |-> 1916, lo |-> 46385]
  ELSE LET x == Shifted[n - 1]
       IN  [hi |-> (2 * x.hi + (2 * x.lo) \div HalfSize) % HalfSize, lo |-> (2 * x.lo) % HalfSize]

Product(bits) ==
  FoldSet(LAMBDA n, x : LET lo == x.lo + Shifted[n].lo
                        IN  [hi |-> (x.hi + Shifted[n].hi + lo \div HalfSize) % HalfSize, lo |-> lo % HalfSize],
          [hi |-> 0, lo |-> 0], bits)

DeBruijn == <<0, 1, 28, 2, 29, 14, 24, 3, 30, 22, 20, 15, 25, 17, 4, 8,
              31, 27, 13, 23, 21, 19, 16, 7, 26, 12, 18, 6, 11, 5, 10, 9>>

\* Seeded fault: the table is indexed by the lower bits of the upper half.
Bug_LowBits(bits) == DeBruijn[(Product(bits).hi % 32) + 1]

\* Which bit is set, if one is.
BitPosition(bits) == DeBruijn[(Product(bits).hi \div 2048) + 1]

Pend1(p) == {n \in p : n < 32}
Pend2(p) == {n - 32 : n \in {m \in p : m \in 32..63}}
Pend3(p) == {n - 64 : n \in {m \in p : m >= 64}} \cup (IF Pend1(p) # {} THEN {8} ELSE {})
            \cup (IF Pend2(p) # {} THEN {9} ELSE {})

\* The line _IRQServer takes an interrupt for.
LineOf(p) ==
  IF 8 \in Pend3(p) THEN BitPosition(Pend1(p))
  ELSE IF 9 \in Pend3(p) THEN BitPosition(Pend2(p)) + 32
  ELSE BitPosition(Pend3(p)) + 64

\* A chain is gone through up to the first server that returns a non-zero value.
Called(chain, yes) ==
  LET k == SelectInSeq(chain, LAMBDA s : s \in yes)
  IN  IF k = 0 THEN chain ELSE SubSeq(chain, 1, k)

\* The interrupt: _ExcServer(5), and _IRQServer where its turn comes.  _IRQServer is
\* void: what _ExcServer takes for its result may be anything.  A server that claims
\* the interrupt has served its device, which gives up the line; writing the pending
\* registers does nothing.
Interrupt ==
  /\ pending # {}
  /\ \E yes \in {Claims, Claims \cup {"_IRQServer"}} :
       LET outer == Called(exc[EXC_IRQ], yes)
           n     == LineOf(pending)
           inner == IF "_IRQServer" \in ToSet(outer) /\ n \in Lines
                    THEN Called(irq[n], Claims) ELSE <<>>
       IN  /\ called' = [at |-> pending, exc |-> ToSet(outer), irq |-> ToSet(inner)]
           /\ pending' = IF ToSet(inner) \cap Claims # {} THEN pending \ {n} ELSE pending
  /\ UNCHANGED <<exc, irq, added>>

\* A device raises its line.
Raise(n) ==
  /\ n \in Lines \ pending
  /\ pending' = pending \cup {n} /\ called' = NoCall
  /\ UNCHANGED <<exc, irq, added>>

\* Remove takes the server out of the chain it is in.
Without(chain, s) == IF s \in ToSet(chain) THEN Unlink(chain, s) ELSE chain

\* AddIntServer, AddExcServer, RemIntServer and RemExcServer, with interrupts disabled.
AddIntServer(s, n) ==
  /\ s \notin ToSet(added)
  /\ irq' = [irq EXCEPT ![n] = Enqueue(@, s, SrvPri)]
  /\ added' = Append(added, s) /\ called' = NoCall
  /\ UNCHANGED <<exc, pending>>

AddExcServer(s, n) ==
  /\ s \notin ToSet(added)
  /\ exc' = ExcAdded(exc, n, s)
  /\ added' = Append(added, s) /\ called' = NoCall
  /\ UNCHANGED <<irq, pending>>

RemServer(s) ==
  /\ s \in ToSet(added)
  /\ irq' = [n \in DOMAIN irq |-> Without(irq[n], s)]
  /\ exc' = [n \in DOMAIN exc |-> Without(exc[n], s)]
  /\ added' = Unlink(added, s) /\ called' = NoCall
  /\ UNCHANGED pending

IntNext ==
  \/ \E n \in Lines : Raise(n) \/ \E s \in Server : AddIntServer(s, n)
  \/ \E s \in Server : AddExcServer(s, EXC_IRQ) \/ RemServer(s)
  \/ Interrupt

IntSpec == IntInit /\ [][IntNext]_intVars
----------------------------------------------------------------------------
Before(s, t) ==
  \/ SrvPri[s] > SrvPri[t]
  \/ /\ SrvPri[s] = SrvPri[t]
     /\ \E i, j \in 1..Len(added) : i < j /\ added[i] = s /\ added[j] = t

\* Of these servers, the ones behind nobody who claims.
Reached(S) == {s \in S : \A t \in S \cap Claims : s = t \/ ~Before(t, s)}

IntTypeOK ==
  /\ pending \subseteq Lines /\ Distinct(added) /\ ToSet(added) \subseteq Server \cup {Tick}
  /\ \A n \in DOMAIN irq : ToSet(irq[n]) \subseteq Server \cup {Tick}

OneBitFound == \A n \in 0..31 : BitPosition({n}) = n

\* The pending lines of the register that is looked at first.
FirstBank(p) ==
  IF \E n \in p : n < 32 THEN {n \in p : n < 32}
  ELSE IF \E n \in p : n < 64 THEN {n \in p : n < 64} ELSE p

\* When one line of a register is pending, an interrupt calls exactly those servers of
\* that line that no server before them cuts off, by priority and then by age, in
\* whatever order they came and went, unless a server of the exception itself, above
\* the kernel's own, claims it first; of the registers the first is served.  Of the
\* exceptions only FIQ has no server: the address of its vector is taken for its
\* number (intserver.c:17-77, 102-201).
DispatchExact ==
  /\ IntTypeOK
  /\ OneBitFound
  /\ \A n \in 0..6 : exc[n] = <<>> <=> n = EXC_FIQ
  /\ called # NoCall =>
       IF "_IRQServer" \notin called.exc
       THEN \E s \in Claims \cap called.exc : SrvPri[s] > SrvPri["_IRQServer"]
       ELSE \A n \in Lines : FirstBank(called.at) = {n} => called.irq = Reached(ToSet(irq[n]))
=============================================================================
