# PowerOS for the Raspberry Pi: verification project

PowerOS is an Amiga-like kernel for one ARM core: `exec.library` with
pre-emptive tasks, signals, semaphores, memory lists, message ports and device
I/O, `timer.device` and a test device on top of it, and the code that boots the
board. This directory holds TLA+ models of its core, the TLC runs that check
them and the theorems TLAPS proves about them. Paths below are relative to
`src/src/`; `exec` is `kickstart/lib.exec`.

## Inventory

| component | state it keeps | operations | hard about it | what makes it correct |
|---|---|---|---|---|
| scheduler (`exec/schedule.c`, `raspi/timer.c`) | `thisTask`, `TDNestCnt`, `TaskReady`, a `SavedContext` per task | `Schedule`, `Dispatch`, the tick | pre-emption at any instruction; the context to resume from | the highest ready task runs; a task resumes where it stopped; equals share the CPU |
| tasks (`exec/tasks.c`) | `State`, priority, signal allocation | `TaskCreate`, `AddTask`, task return, `SetTaskPri`, `AllocSignal` | exit and creation against the tick | a task is in the list its `State` names |
| signals (`exec/messages.c`) | `SigRecvd`, `SigWait`, `WaitContext`, `TaskWait` | `Wait`, `Signal`, `SetSignal` | test and sleep are separate; read-modify-write with interrupts on | no signal is lost; `Wait` returns with a wanted one |
| `Forbid`, `Disable` (`exec/ables.c`, `irq.c`) | `TDNestCnt`, the interrupt mask | nesting counter; mask save and restore | the counter is saved and restored by each switch | nobody else runs inside `Forbid` |
| lists (`exec/list.c`) | doubly linked nodes | `AddHead`, `AddTail`, `Enqueue`, `Insert`, `Remove`, ... | every other component relies on them | order, no duplicates |
| semaphores (`exec/semaphores.c`) | owner, two counters, type, wait queue | `Obtain`, `Attempt`, `Release`, and shared forms | waiting inside `Forbid`; hand-over | exclusive or shared, and obtained in the end |
| memory (`exec/memory.c`) | a free list per region, `mh_Free` | `AddMemList`, `AllocVec`, `FreeVec`, `Allocate`, `Deallocate` | splitting and joining; units against bytes | blocks disjoint; nothing lost; free lists joined |
| ports (`exec/ports.c`, `messages.c`) | message lists, public list | `PutMsg`, `GetMsg`, `ReplyMsg`, `WaitPort`, ... | interrupts reply | a message is in one list |
| I/O (`exec/io.c`, `devices.c`) | request flags, type and error | `DoIO`, `SendIO`, `WaitIO`, `AbortIO`, `OpenDevice` | reply against wait and abort | `WaitIO` returns after the reply, once |
| `timer.device` (`kickstart/dev.timer`) | waiter lists, elapsed and current time | requests, abort, the interrupt server | one reply per interrupt; abort against interrupt | never early, hardly late |
| interrupts (`exec/intserver.c`, `raspi/exception*`) | server chains | dispatch of a pending line | several lines pending | each server of the right chain is called, in order |
| libraries, devices, residents (`exec/library.c`, `devices.c`, `resident.c`, `setfunction.c`) | resident, library and device lists, open counts, jump tables, checksums | scan, init, open, close, sum, patch, add, remove | counts changed outside `Forbid`; sums interrupted by patches | set up once, in order; counts are opens; a sum covers the jump table |
| `test.device` (`kickstart/dev.test`) | a device task, its port and timer request | `BeginIO`, `AbortIO`, the device's loop | re-used requests; wakeups for two reasons | a request is in one list, and is answered |
| `expansion.library` (`kickstart/lib.expansion`) | the mount list | `MakeDosNode`, `AddDosNode` | three allocations; check before lock | nodes are whole or gone; names are unique |
| `utility.library` (`kickstart/lib.util`) | none: tag lists and strings of the caller | tag walks, clones, filters; comparisons | skipped and chained items | all functions see the items a walk sees |
| support (`exec/vsprintf.c`, `rawdoformat.c`, `_memory.s`, `_div*.s`, ...) | none | formats, readers, copies, division | reciprocals, alignments, unrolled loops | each is the function it is named for |
| boot (`raspi/platform.c`, `exec/_functab.c`) | `SysBase` | `ExecInit`, `CreateSysBase` | the first dispatch | single tasking until `Permit` |

Tasks and interrupts interact through shared lists and through signals: an
interrupt server replies to a message, the reply posts a signal, the signal
relinks the waiting task, and the tick at the end of the same interrupt
switches to it. Every component runs on the guarantees of `Forbid` and
`Disable`.

`PROJECT.json` lists each hazard at its line, with the property that would
catch it, or why none does.

## Modules

| module | what it is |
|---|---|
| `ExecLists` | lists as sequences; `Enqueue` as "in front of the first strictly lower" |
| `ExecListTheorems` | lemmas: what `Enqueue`, `AddHead`, `Unlink` do to members, duplicates and order; what loops keep and when they end |
| `LinkedLists` | `list.c` store by store: cells with `ln_Succ` and `ln_Pred`, headers of two overlapping cells |
| `Sched`, `SchedProof` | scheduler, tasks, signals, `Forbid`, `Disable`, the tick; theorems |
| `SharedLock` | abstract: a lock held alone or shared |
| `Semaphores`, `SemaphoreProof` | a signal semaphore; theorems, among them that it implements `SharedLock` |
| `Heap` | abstract: disjoint blocks out of a pool |
| `Memory`, `MemoryProof` | memory lists; theorems, among them that they implement `Heap`, and that the copies and fills of `BlockCalls` are right |
| `Ports`, `PortsProof` | message ports: the public list over `LinkedLists`, signal bits, `WaitPort`; theorems, among them that the links implement the sequence |
| `TimerDevice` | timer requests and time commands against the timer interrupt |
| `TimerLinks` | the same with the links of the device's lists and the reply ports, by `LinkedLists` |
| `TestDevice`, `TestDeviceProof` | a device with a task of its own: clients, `TaskPort`, reply ports, the timer that calls it; theorems |
| `Libraries` | boot from residents; libraries and devices opened, summed, patched, removed |
| `Expansion` | device nodes and the mount list |
| `IntServer` | server chains of exceptions and lines, and the dispatch of an interrupt |
| `LibrariesProof` | theorems about the last three, which all keep lists of named nodes |
| `Arithmetic`, `Blocks`, `Numerals`, `Text`, `Data` | pure algorithms: division, shifts, times; memory copies and fills; numbers into digits and back; formats and readers; tag lists, strings |
| `Loops` | what a loop of such an algorithm makes of a state |
| `Calls`, `ArithmeticCalls`, `BlockCalls`, `Support` | calls of these algorithms, and reference definitions of their results |
| `TimerProof` | theorems about `TimerDevice`, and about the arithmetic on times, words and numerals of `ArithmeticCalls` |
| `MCSched`, `MCMemory`, `MCPorts`, `MCTimerDevice`, `MCTestDevice`, `MCLibraries`, `MCSupport` | constants for TLC; `MCLibraries` composes `Libraries` with `Expansion`, `MCSupport` composes `Support` with `IntServer` |

**Sched.** The CPU is explicit: `pc`, `irqOff` and the stack `cpu`. A switch
stores them as the context of the task that leaves, and loads those of the task
that comes, so a wrong context makes the model go on at the wrong place. Code
that runs with interrupts enabled is cut at each access to shared state
(`ForbidLoad`/`ForbidStore`, `WaitTest`/`WaitSleep`/`WaitLoad`/`WaitStore`,
`SetSignalLoad`/`SetSignalStore`); code inside `interrupts_disable` is one step.
`Interrupt` masks, lets a server wake a task (as `timer.device` does), and
`IRQ_Tick` ends the interrupt with `Schedule`. `held` and `left` are history:
who is inside how many `Forbid`s, and where each task really lost the CPU.

**Semaphores.** `Sched` shows that a task inside `Forbid` keeps the CPU, so each
function is one step. The `Wait` of the two obtain functions is inside
`Forbid` too: `Schedule` returns at once, and the task goes round the loop of
`Wait`. `spinning` is that task.

**Memory.** One unit is 8 bytes. A free list is the sequence of its chunks; the
constant addresses of the regions include the five units by which
`AddMemList` overruns a region, so regions are assumed that far apart.
`lost` collects the blocks `FreeVec` drops.

**LinkedLists and Ports.** An operator of `LinkedLists` returns the memory a
function of `list.c` leaves; `Remove` is two. `PortList` is kept that way,
because `FindPort` walks it without `Forbid`: `at` is the node a search stands
on, which another task may unlink, free, allocate and publish again meanwhile.
`ListExact` says that the links represent the sequence `public`, so it is also
the refinement of `LinkedLists` to `ExecLists`, on which the other modules
stand. The two load-and-store pairs of `AllocSignal` and the test and sleep of
`Wait` are steps of their own. `steady`, `unlinked`, `confused` and `missed`
are history: what was public all along a search, what left the list during it,
whether a node the search could stand on came back, and whether a signal fell
between the test and the sleep.

**TimerDevice.** Times are relative to `Elapsed`, which `Tick` advances. `list`
holds requests of `UNIT_VBLANK` and `UNIT_MICROHZ`, which the code treats
alike, and `until` those of `UNIT_WAITUNTIL`; `ahead` is how far `CurrentTime`
has been set before `Elapsed`. The client code is cut where the interrupt may
come, and so between the two stores of the `Remove` in `AbortIO`, which nothing
protects; which task runs is left open, as `Sched` covers that. A `DoIO` that is
answered at once leaves its reply in the port, since `IOF_QUICK` is still set,
until the client takes it out with `GetMsg` or waits for it (`WaitIOAgain`); the
next call does not ask whether it has. Times in the past are cut off at `Longest`
and waiting times at `MaxTicks`, beyond which no guard and no property tells them
apart.

Two things a client may do leave links that belong to no list, and `torn` becomes
true with the step that does it: the neighbourhood of a request changes between
the two stores of its `Remove` (`Disturbed`: the interrupt replies to a neighbour,
or another task inserts or removes one), or a request is linked that still is in
its port (`LinkedAgain`). The model ends there, in `Damaged`, and the properties say
what holds until then. That sequences are right that long is checked, not assumed:
`TimerLinks` lets each step of `TimerDevice` make the stores of its list functions,
from the links as they are, and `LinksExact` compares those with the sequences.
That, or `OnePlace`, fails as soon as either condition is taken out of `torn`.

**TestDevice.** One CPU and `TaskReady`, as in `Sched`, but at the level of messages: who
runs decides which of the client's and the device's steps can fall between each
other. The device's priority, 10, is above its clients', and a wakeup does not switch,
so a client runs on past `PutMsg` until the tick, and the device, once
it runs, runs until it sleeps. Requests are named by their clients. The timer
is one counter, the number of times the device's request is linked in its list;
an interrupt may find it due whenever it is linked. The ports and the first
timer request are set up. `aborted` is history.

**Libraries.** The boot is `RomTagScanner`, which inserts residents by
priority, and the two passes of `InitResidentCode`, "single" in `ExecInit` and
"cold" in `ExecTask`. Afterwards tasks call: `OpenLibrary`, whose open
vector runs outside `Forbid`, is cut at the load and the store of
`lib_OpenCnt`; `SumLibrary` is cut where it calls `Permit` to let others run.
`vec` is each library's jump table by negative offset from its base, and
`Sum` takes the bounds of the loop in the code, which leave nothing to sum. `torn`, `leaked`, `inits`
and `removed` are history.

**Expansion.** `MakeDosNode` is cut at its three allocations, `AddDosNode`
between search, semaphore and `Enqueue`. `OpenLibrary("dos.library")`
always fails, as there is none. Waiting for the semaphore stops the system
(`WaiterStopsTheRest`), which `stuck` says.

**IntServer.** A chain is a list by priority. `Interrupt` enters the
exception's chain, whose server reads the pending registers, looks up a line
and runs that line's chain until a server claims the interrupt.

**Arithmetic, Blocks, Numerals, Text, Data, Calls, ArithmeticCalls, BlockCalls, Support.** Each
routine is an operator with the loops, limits and constants of its code;
`ArithmeticCalls`, `BlockCalls` and `Support`, which extends both, call it with arguments of the instance and record them with the result in `call`, and the properties compare
that with a definition that is not the algorithm: integer division, the text
read back, the bytes one by one, the items a walk of the tags should see. Words have `W` bits;
the masks in the assembler code scale with it. The `.s` files are assembled
without the C preprocessor, so the lines between `#if`, `#else` and
`#endif` are all there, and the model has them all. A loop of `Arithmetic`, `Blocks`
or `Numerals` is `Rounds` of its body, a function that leaves alone the states in which
the loop has ended; it is given more rounds than it can use, which `TimerProof` and
`MemoryProof` show for every width and size. A copy may overlap with its source
only where the code can bear it: from 32 bytes on, with the destination the lower one
(`BlocksAssumption`).

## Runs

| run | shows | bounds |
|---|---|---|
| `sched_core` | queues, `Forbid`, dispatch rules, the places the code calls unreachable; right context, no signal lost under `Disable`, `Wait` delivers | 2 tasks and idle, different priorities, 2 signals (symmetric), `Forbid` nested 2 deep, at most one signal in use inside `Forbid` (`OneSignalInForbid`) |
| `sched_fair` | equal priorities share the CPU | 2 tasks of priority 0 |
| `sem_lock` | counters, owner, exclusion, refinement of `SharedLock`, what a waiter does | 3 tasks, 3 holds each |
| `mem_lists` | free lists, refinement of `Heap`, when address 0 is cleared | 2 regions of 17 and 8 units, requests of 1, 3, 9 bytes (3, 3, 4 units) |
| `ports` | links, searches without `Forbid`, signal bits, `WaitPort` | 1 server, 1 client, 3 ports of which 2 share a name, 2 bits, 1 message per port, symmetry |
| `timer_requests` | until a list is torn: its links, one list per request, `WaitIO`, punctuality | 3 tasks that wait, with delays of 2 and 3 periods; or 3 that send and at most 2 that abort; or at most 2 with every kind of call; symmetry |
| `test_device` | a request is in one place and is answered and served; the device never sleeps on one; replies wake clients | 2 clients: one whose command always goes to the device and fails there, one whose command `DoIO` does quickly and `SendIO` does not |
| `libraries` | boot order, lists, open counts; device nodes and duplicates | 2 libraries, 2 devices, 2 tasks; 3 callers, 3 nodes and 2 names for the mount list |
| `support` | dispatch of interrupts; every algorithm against its reference | words of 7 bits, all pairs; copies of 0 to 70 bytes at every alignment, apart and overlapping; numbers up to 2147483647 (TLC integers), 99999 and 100000 among them; see `MCSupport` for the rest |
| `signed_division` | **violated**: the remainder of a signed division | as `support` |
| `timer_doio` | **violated**: lost wakeup in `DoIO` | 1 task, 1 period |
| `libraries_sum` | **violated**: `SumLibrary` sums the jump table | as `libraries` |

Why the bounds are enough: two client tasks and the idle task give every order
of pre-emption, wakeup and exit that involves a running task, the one it is
switched for, and a third one waiting in a list; the `Forbid` count and the
queues are proved for any number of tasks. Three semaphore tasks allow a writer,
a sharer and a bystander, and the properties are proved for any number. The
larger memory region splits into up to five blocks, which gives all cases of
joining (neither side, either, both), and the smaller one is exhausted by two.
Three ports are a search's node, the one it goes on to and a third that comes
or goes; with two bits, one allocation fails. With three requests of two delays
the bound in `Punctual` is reached: one less is violated, as it is with delays
below `LongDelays`; three requests in a list give one a neighbour on each side;
`UNIT_WAITUNTIL` has a list of its own, so
that two tasks give all orders within it and one across. Two clients of the
device put requests behind each other in `TaskPort` and let the tick choose
between a client in `PutMsg`, one asleep and the device. Two tasks tear an
increment or a sum of one library; which group of calls the tasks make is
chosen at the start, as the groups share no variable that both write. Words of 7
bits leave room for the three top bits of the masks and an unrolled round of
the division loops; copies of up to 70 bytes reach every block size, every
alignment and every tail of `_memory.s`. Numbers are within the 31 bits that
TLC has, so the 64-bit path of `vsprintf` is checked there only.

**Fairness.** `Sched!Fairness`: the timer is free-running, so an interrupt comes
whenever interrupts stay enabled; its handler, the switch in `Wait` and the boot
code run to their end. No task's own code is assumed to make progress, nor to
give up the CPU. `RoundRobin` is checked without `Disable` and `Forbid`, since a
task may stay inside them for ever. `TimerDevice!FairSpec`: interrupts keep coming and
each task gets the CPU, which `RoundRobin` shows for equal priorities. `DoIOReturns` does not ask for a
return from a torn list.
`TestDevice!FairSpec`: interrupts keep coming, the CPU executes the device when
it has it, and each client, if it has the CPU again and again, gets on with its
call (strong fairness: the tick takes the CPU from it in between). `Served`
needs the device to sleep again and again, as a timer that is due at every tick
would let no client run; the real one is due every 10 seconds.

Deadlock is checked except in `libraries` and `libraries_sum`, where the bounded counts, a halted
boot and a task that waits for the mount list's semaphore stop the system.

## Findings

1. `Wait` can miss a signal between its test and its sleep
   (`exec/messages.c:139`): `DoIO` may never return. Run `timer_doio`.
2. Both halves of the body of `__modsi3` and `__divsi3`, meant as `#if` and
   `#else`, are executed (`exec/_modsi3.s:35`): signed division is right only if the divisor
   is a power of two or not below the dividend. Run `signed_division`; what the
   routines compute instead is part of `DivisionExact`. `__umodsi3` leaves its
   loop early when the quotient needs one of the three top bits.
3. `SumLibrary` begins `lib_NegSize` bytes above the base, where it means to "Get
   start of jumptable" (`exec/library.c:85`), so that its loop ends before it begins:
   every sum is 0, and neither a stray write nor a patch that races it is ever
   noticed. Run `libraries_sum`.

What the properties state as facts of the code, because it is so:

* `ObtainSemaphore` and its shared form wait inside `Forbid`
  (`exec/semaphores.c:61, 151`): the first contention stops everything but
  interrupts (`WaiterStopsTheRest`, proved).
* The first chunk of a region overruns it (`exec/memory.c:25`); blocks above
  `mh_Upper` are never freed. `FreeListExact` counts them as `lost`.
* `AddWaiter` sorts descending (`dev.timer/io.c:32`), and one interrupt answers
  one request of a list: `Punctual` has one period per task for that.
* The test device sends its timer request again only if no request came at the
  same time (`dev.test/_functab.c:109`); `NothingForgotten` and `Served` hold
  without it.
* `AbortIO` unlinks with interrupts enabled (`dev.timer/io.c:126`): if the interrupt
  replies to the request behind it between the two stores, the list leads to that
  request again, which is in its port by then. Only a change next to a request that is
  being unlinked, and a client that sends a request again while it is in its port,
  can tear a list (`LinksExact`).
* Requests of less than a period per other client may wait for ever: `Punctual` has
  its bound under `LongDelays` only. The clients in the repository ask for 5 or 10
  seconds, hundreds of periods.
* `Stricmp` and its kin return a UINT32 (`lib.util/cstr.c:98, 112, 126`): a string that
  sorts first compares as a large positive number, and no result is below 0.
* `_InitExcServer` passes the address of the FIQ vector as its number, which
  `AddExcServer` refuses; with several lines pending, the de Bruijn lookup
  (`exec/intserver.c:153`) names some other line. `DispatchExact` is stated
  accordingly, and for one pending line.
* Two overlapping `AddDosNode` calls mount one name twice (`DuplicatesOverlap`,
  proved).
* `0X`, which `%#X` prints, is not read back as hexadecimal; 0xdf and 0xff
  change under a turn to upper case and back.

Seen while modelling, and plain from one line each: `SetTaskPri` assigns `NULL`
to `task` (`exec/tasks.c:146`), so no priority ever changes; `timer_AbortIO` does not
report `IOERR_ABORTED` (`dev.timer/io.c:127`); requests of `UNIT_ECLOCK` are
never answered; `TR_GETSYSTIME` reads the two halves of the time with
interrupts enabled (`dev.timer/io.c:18`); `tdev_Init` returns no value;
`RefreshTagItemClones` writes no end mark and relies on cleared memory;
`SetFunction` returns what `Permit` leaves in the register.

## Proofs

`SchedProof` (for any finite or infinite set of tasks, any signals and
priorities, any nesting of `Forbid`) assumes `BlockInForbid = FALSE`: no task waits or returns
inside `Forbid`. Without it the claims are false, since `Schedule` comes back
where the code says it does not.

* The inductive invariant `Inv` joins `TypeOK`, `QueuesExact`, `ReadySorted`,
  `NotReached`, `ForbidExclusive` and `Resumable` with `Control`, which says where
  the CPU and the tasks that lost it can be: a ready task is saved at a place it
  may be resumed at, every saved nest count is -1, code that may give up the CPU
  holds no `Forbid`, and a waiting task came through `Wait`. `QueuesExact` alone
  is not inductive: that `Dispatch` finds a task needs `NotReached`, and that the
  running task is not linked anywhere needs `Control`.
* One lemma covers `Schedule` from any caller, so that the tick, task exit, the
  switch in `Wait`, boot and `SetTaskPri` each only show its hypotheses.
* Theorems: `TypeCorrect`, `QueuesCorrect`, `NeverReached`, `ForbidCorrect`,
  `ResumedRight`, and the action property `ForbidKeepsCPU`.

The second part of `SchedProof` goes on from `Inv`, under the same assumption. `SafeIfDisabled` and
`WaitDelivers` are proved together: `SigInv` joins both properties with `Masked`,
that a task that lost the CPU with interrupts disabled is not between two accesses
to its signals (only `Schedule` takes the CPU from it then), and that nobody
interrupts the boot. What has to be carried along is that a value loaded from
`SigRecvd`, or a signal found there, is still true where the task goes on.
`HighestRuns` is an action property: `Schedule` takes the head of a list whose
order `Requeued` keeps.

`PortsProof` (any finite set of ports, any servers, clients, priorities and
numbers of bits) has two parts. The first is about `list.c` itself. `Chain` reads
the links cell by cell from the head to the tail, `LinkIsInsert` and
`RemoveIsUnlink` say that the stores of `Insert` and `Remove` make the chain of
the longer and of the shorter sequence, and `WalkIsList` that a walk of the links
visits the sequence: `Walk` is a recursive function, which is unfolded from an
explicit witness and compared at the least place where it could differ. So
`LinkIsEnqueue` has `Enqueue` on links insert where `Enqueue` on sequences does.
The second part is the invariant `PortsInv`.

* `ListIsExact` (`ListExact`): the links stay those of the sequence `public`. It
  needs `Placed`, that a port in the list is not one that `CreateMsgPort` still
  makes or one that has been freed.
* `BitsAreOwned` (`BitsOwned`): `BitsApart` says that the bits of a server's
  ports are allocated and no two are equal, while the load and store of
  `AllocSignal` are apart; the count then is a bijection.
* `NoSleepOnMail` (`SleepsOnMail`): `Roused` follows a message from the send to
  the signal, through the test and the sleep of `Wait`.
* `SearchesFind` (`FindPortFinds`): `Walking` says that the links lead from
  no node on the search's `Ground` (what is public or has left the list during the
  search) to anything else, and that a port that has been public all along can
  still be reached. Reaching is stated without a path: whatever set contains the
  node the search stands on, and is closed under the links, contains the
  port. Taking a node out or putting one in changes the closed sets by that
  node only.

`TimerProof` (any finite set of clients, any delays and times): `OnePlace` and
`WaitIOWaits` are inductive only together, and with `torn` (`UntilTorn`;
`RequestsInOnePlace`, `WaitIOReturnsAfterReply`). That the `Remove` of `WaitIO` takes
a request out of its port and out of no list of the device is `WaitIOWaits`, which
rests on a message being linked; `Placed` says both of each request, and that
`AbortIO` has unlinked what it is about to reply to. A call on a request that is
still in its port keeps the invariant because it tears the list, unless it links
nothing (`SentAgain`). What a list holds after `Enqueue` and `Remove` comes from
`ExecListTheorems`.

`RepliesOnTime` (`Punctual`) does not need the order of the list. A
request is late because interrupts have answered others instead. `Overtaken` counts the clients who cannot be
answered before it any more, as their time lies beyond what its lateness allows:
an interrupt that passes over a late request answers another client, who can
only come back with a delay of at least one less than the number of clients
(`LongDelays`, a condition of the bound, not an assumption), and so joins them. That no
request is answered early needs no such condition. There is one for each interrupt the request has been late, and there are
only as many as other clients. `Timed` ties the due time to the delay and the
interrupts seen.

`TestDeviceProof` (any finite set of clients, any commands): `RequestInOnePlace`,
`NoRequestForgotten`, `RepliesSignalled` and `CallsAnswered`. The device's `Wait`
has the same gaps as everybody's; they do no harm because of `OneCPU`: the device is
above its clients, so that no client runs while it is anywhere but asleep or just
woken. Then `Heard` says which signals it may have seen, and for each
client `Held` where its request is, `Known` that the device knows of it or
will be signalled, `Told` the same of the reply, and `Done` what `io_Error` is
worth.

`SemaphoreProof` (any finite set of tasks, any `MaxHold`): `TypeOK`,
`CountsExact`, `OwnerExact` and `WaiterStopsTheRest` are inductive together
(`SemTypeCorrect`, `SemCountersCorrect`, `SemOwnerCorrect`, `HandOverDead`).
That every variable keeps its type is not among the properties of `sem_lock`; the theorem
says it of every instance.
The holds are counted as the cardinality of a set of pairs, so that one call
adds or removes one element. `SemaphoreIsLock` then maps each step to a step of
`SharedLock` or a stutter.

`LibrariesProof` has three parts. About `Libraries` (any modules, tasks, priorities and
function tables): `ListsCorrect`, `BootCorrect` and `OpenCountCorrect`.
They are about `Next` with all calls mixed; the run's groups of calls are a part
of that. `Booting` says how far each pass of `InitResidentCode` has come, from
which the order follows, and `Halted` keeps it where a failure stops the boot.
`Located` has each module in the list of its kind, removed, or with one task that
has begun `AddLibrary`. `lib_OpenCnt` is compared with the cardinality of the
set of pairs of a task and one of its opens, so that each call adds or removes
one pair, modulo 2^16.

About `Expansion` (any callers, nodes and names): `NodesAreWhole` and
`OnlyOverlapDuplicates`. The invariant adds to them `Owned`, which blocks the
node of each running call has at its step and that no two calls share a node,
and `Searched`, that a call which got past its search holds a name none of the
nodes had that were mounted when the search began. Both theorems come from one
induction, as a node that is linked must be known to be whole, and to be one
that no other search can have met.

About `IntServer` (any drivers and priorities, any enabled lines): `DispatchCorrect`.
`TableFinds` and `BitIsFound` compute the de Bruijn look-up for each of the 32
bits; `LineIsFound` carries that through the three registers. The chains are
`Ordered` by priority and age, and a claim cuts off just those behind
it. `KernelInFront` says that only higher servers stand in front of
`_IRQServer`, so that only they can keep it from being called.

`MemoryProof` (any regions that lie far enough apart for the overrun of
`AddMemList`, any priorities and requests): `FreeListExactAlways`,
`MemoryImplementsHeap` and `OnlyFragmentsClearVectorsAlways`. Lemmas on lists of
chunks come first: what unlinking, splitting, linking and joining do to the order of
the addresses and to the cells covered. `Ordered(q, S)` allows two chunks to
touch at the places in `S` only; linking a block opens two such places, and each of
the two joins closes one. The invariant `MemInv` then speaks of sets of cells: in
each region the free list covers exactly what the blocks do not. That a block
is given back to the region it came from, although `FreeVec` compares other
bounds than those of the first chunk, is `FoundRegion`. That a request needs no
more units than it has bytes, from three bytes on, is `UnitsBound`.

The second part of `MemoryProof` is about `BlockCalls`: `BlocksCorrect`
(`BlocksExact`), for any memory, blocks and sizes that `BlocksAssumption` allows.

* `Moved` says that the first j bytes of the block have been copied and no other byte
  has changed. `SourceKept`: with the destination below the source, what has been written
  is not what is still to be read. So k more bytes (`MoveOnce`), any number of
  times (`MoveTimesIs`), and the phases of an aligned copy, whose counts add up to
  the block (`AlignedIs`).
* `Down` is the same from the last byte on, for short blocks, which must not overlap.
* `Ahead` adds the register of the misaligned copies: the `left` last bytes of
  the word it holds are the next bytes of the source. `StoreEightIs` and `StoreByteIs`
  keep it, `RefilledIs` when the word is used up; its first word may begin
  before the block, and its last end behind it, so it says nothing of bytes that
  are not of the block.
* `Filled`, for `MemSet`. That the loops that align the destination keep it is enough:
  whatever they leave, the last phase fills.

The second part of `TimerProof` is about `ArithmeticCalls`: `ArithmeticCorrect`
(`ArithmeticExact`), for words of any width from four bits on
(`ArithmeticAssumption`: the loops that shift by four want four), any pairs of
words, times and places to shift by, and any numbers of 64 bits to write
(`CallsAssumption`; a number has 64 bits if halving it 64 times leaves nothing).

* There is no rule of induction here that takes an operator, so a set of naturals with no
  least element outside it stands for one (`AllNats`), and powers of two are what
  sets have subsets (`Powers`).
* `LoopEnds`, in `ExecListTheorems`: a loop whose body keeps a set of states and lowers a natural number,
  or leaves the state alone, has ended after as many rounds as that number. `Rounds`
  is a recursive function, which is unfolded from explicit witnesses (`CourseExists`).
* Trial subtraction: `Exact` says that what has been found and what remains make up
  the dividend, and what remains is below the divisor times the next bit. In the last
  batch curbit runs out before the divisor does; `StepJunk` says that the quotient then
  stays right, and `ModLoopIs` that `__umodsi3` puts back just what is taken too much,
  as long as the quotient keeps the three top bits free. Above that the property claims
  nothing, and the model shows remainders that are wrong.
* Shifting the divisor up: `Up` says how far it has come, and `UpMore` that it loses
  no bit at a limit. Of signed division the theorem says what it computes: the
  quotient by the divisor the first half of the body has shifted up (`DivBodyIs`,
  `ModBodyIs`).
* Pairs of words: `ShiftLeftIs`, `ShiftRightIs` and `ShiftRightSignedIs` from how two
  words share the bits of a shifted one; `Div64Is` from `Scale`, a divisor doubled k times.
* Numerals (`NumeralsExact`): `Left(n, base, k)` is what is left of a number without its
  lowest k digits, and `Partial` the invariant of every loop that writes one: what has been
  written are its lowest digits, and what is left is `Left`. `put_dec_full` makes five
  digits at a time without dividing: weights of hexadecimal digits, and multiplications by
  205 and 13 that are tenths only below a limit (`TenthIs`, `ThirdTenthIs`), which none of
  the sums reaches (`DecDigitsIs`); `put_dec_trunc` stops at the first place with nothing
  above it (`PutDecTruncIs`). The loops end because a round at least halves what is left
  (`Halvings`, `WritingEnds`), so the 64 rounds of `MaxDigits` are enough. `GatherIs`: the
  loop of `simple_strtoul` has, before each digit, `Left` of the number without the digits
  it has yet to read; no value on the way is above the number, so one that fits
  the type of the result does not overflow.
* Times: `CmpTimeIs`, `AddTimeIs`, `SubTimeIs` and `SubTimeKeeps`, modulo the range of the clock.

Only model-checked: every liveness property (`RoundRobin`, `Served`: the prover
has no rule for fairness), `LinksExact`, and `TextExact` and `DataExact`. `Text`'s formats
(widths, precisions, prefixes, the readers' suffixes) are compared with a reader of their
own on bounded inputs; `Text` and `Data` use RECURSIVE operators, and what `Data`
computes for every tag list and string needs induction over data: both
stay with TLC's bounded inputs. The specification of
`Support` is theirs too, so that `ArithmeticCorrect` is about the arithmetic calls
alone, `ArithmeticSpec`, and `BlocksCorrect` about the copies and fills, `BlockSpec`; the
run checks them among the others. The properties that are violated have no theorem
either.

## Not modelled

* I/O: the UART, ATAG parsing, the demo programs of `raspi/platform.c`, alerts and debug output.
* The vectors' entry code and the register dumps of the fault handlers; `Switch` and
  `Launch` hooks and CPU usage counters, which nothing reads.
* Address formats (`%pI4`, ...) and the bounded `snprintf` family, which are
  compiled out.
* Requests of `UNIT_ECLOCK` and `UNIT_WAITECLOCK` and `ReadEClock`;
  `CheckIO` and the creation of requests.
* What `timer.device` does with a torn list, and a client of `test.device` that waits
  twice. The test device links its timer request again without unlinking its reply from
  `TimerPort`; `TestDevice` leaves that port's list out.
* That the surplus of a region's first chunk is memory of something else: `Memory` has
  the regions far enough apart.
* A `Wait` inside `Forbid`, in `Sched` (`BlockInForbid`); `Semaphores` has the one of
  `exec/semaphores.c`. Several pending lines of one register.
* The bytes of names: `MakeDosNode` copies one more than it asks for, into the eight that
  `Allocate` adds.
* `TDNestCnt` is an integer, not a byte. Stack contents and the memory of tasks
  that exit are left out (`Memory` models the freeing itself).

## Plan

Done: the core (`Sched`, `Semaphores`, `Memory`), the devices (`TimerDevice`,
`TestDevice`), ports at the level of links, libraries and residents, interrupt
servers, the mount list, and the pure algorithms. Left, in this order:

1. The walks of `Data` and `BitNames` of `Text` as `Rounds`, and theorems about them.
2. `TestDevice`'s `CheckIO` and the life of a request; `ECLOCK` units.
3. A theorem for `LinksExact`, from those of `PortsProof` on `Insert` and `Remove`;
   what the interrupt does on a torn list.

## Running

    tlc -workers 2 -config MCSched.cfg MCSched     # and the other .cfg files
    tlapm SchedProof.tla                           # and the other proof modules

The `Bug_` operators are seeded faults: each stands in front of the definition
it would replace, and every property fails for at least one of them.
