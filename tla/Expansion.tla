----------------------------- MODULE Expansion -----------------------------
(***************************************************************************)
(* expansion.library's mount list (lib.expansion/makedosnode.c,            *)
(* adddosnode.c).  A task makes a device node of three blocks of memory    *)
(* and mounts it.  dos.library does not exist, so every call tries to open *)
(* it and goes on to the list.  The search for a duplicate comes before    *)
(* the semaphore is obtained, and other tasks may link nodes during it.    *)
(***************************************************************************)
EXTENDS ExecLists, Integers

CONSTANTS
  Maker,           \* the tasks that mount devices
  Node,            \* the memory AllocVec can give for nodes
  DosName,         \* non-empty names
  NoName,          \* the empty name
  BootPri,         \* bootPri of each node
  None

ASSUME ExpansionAssumption ==
  None \notin Node /\ BootPri \in [Node -> Int]

VARIABLES
  blocks,     \* which blocks of each node are allocated
  dosName,    \* dn_Node.ln_Name
  mount,      \* MountList
  lock,       \* the owner of MountListLock
  step, node, \* each task: where it is, with which node
  found,      \* the search has met a node of that name
  sawAt,      \* history: what was mounted when the search for each node began
  stuck       \* a task waits for the lock, inside Forbid: nobody runs any more

expVars == <<blocks, dosName, mount, lock, step, node, found, sawAt, stuck>>

Whole == {"node", "dosName", "execName"}

ExpInit ==
  /\ blocks = [n \in Node |-> {}]
  /\ dosName = [n \in Node |-> NoName]
  /\ mount = <<>> /\ lock = None
  /\ step = [t \in Maker |-> "idle"]
  /\ node = [t \in Maker |-> None]
  /\ found = [t \in Maker |-> FALSE]
  /\ sawAt = [n \in Node |-> {}]
  /\ stuck = FALSE

At(t, label) == ~stuck /\ step[t] = label
Step(t, label) == step' = [step EXCEPT ![t] = label]
Idle(t) == Step(t, "idle") /\ node' = [node EXCEPT ![t] = None]
Add(n, b) == blocks' = [blocks EXCEPT ![n] = @ \cup {b}]

\* MakeDosNode: the node with its message and environment; NULL without memory.
MakeDosNode(t, n, name) ==
  /\ At(t, "idle") /\ blocks[n] = {}
  /\ Add(n, "node")
  /\ dosName' = [dosName EXCEPT ![n] = name]
  /\ Step(t, "dosName") /\ node' = [node EXCEPT ![t] = n]
  /\ UNCHANGED <<mount, lock, found, sawAt, stuck>>

\* The block for the copy of dosName: AllocVec returns NULL for an empty name.
MakeDosName(t) ==
  /\ At(t, "dosName") /\ dosName[node[t]] # NoName
  /\ Add(node[t], "dosName")
  /\ Step(t, "execName")
  /\ UNCHANGED <<dosName, mount, lock, node, found, sawAt, stuck>>

MakeExecName(t) ==
  /\ At(t, "execName")
  /\ Add(node[t], "execName")
  /\ Step(t, "made")
  /\ UNCHANGED <<dosName, mount, lock, node, found, sawAt, stuck>>

\* Seeded fault: only the node is freed when the second name has no memory.
Bug_FailKeepsName(t) ==
  /\ At(t, "dosName") \/ At(t, "execName")
  /\ blocks' = [blocks EXCEPT ![node[t]] = @ \ {"node"}]
  /\ dosName' = [dosName EXCEPT ![node[t]] = NoName]
  /\ Idle(t)
  /\ UNCHANGED <<mount, lock, found, sawAt, stuck>>

\* No memory for one of the names: what has been allocated is freed.
MakeFails(t) ==
  /\ At(t, "dosName") \/ At(t, "execName")
  /\ blocks' = [blocks EXCEPT ![node[t]] =
                  @ \ (IF step[t] = "dosName" THEN {"node"} ELSE {"node", "dosName"})]
  /\ dosName' = [dosName EXCEPT ![node[t]] = NoName]
  /\ Idle(t)
  /\ UNCHANGED <<mount, lock, found, sawAt, stuck>>

Same(n, q) == \E i \in 1..Len(q) : dosName[q[i]] = dosName[n]

\* Seeded fault: no search.
Bug_AddDosNodeBlind(t) ==
  /\ At(t, "made")
  /\ sawAt' = [sawAt EXCEPT ![node[t]] = ToSet(mount)]
  /\ found' = found
  /\ Step(t, "obtain")
  /\ UNCHANGED <<blocks, dosName, mount, lock, node, stuck>>

\* AddDosNode, once OpenLibrary has failed: the search begins.  Nothing ever leaves
\* the list, so what is there now is met.
AddDosNode(t) ==
  /\ At(t, "made")
  /\ sawAt' = [sawAt EXCEPT ![node[t]] = ToSet(mount)]
  /\ found' = [found EXCEPT ![t] = Same(node[t], mount)]
  /\ Step(t, "search")
  /\ UNCHANGED <<blocks, dosName, mount, lock, node, stuck>>

\* The search ends, and may have met what was linked meanwhile.  The caller of a call
\* that fails still has its node; it tries no more.
SearchEnd(t) ==
  /\ At(t, "search")
  /\ \E dup \in BOOLEAN :
       /\ found[t] => dup
       /\ dup => Same(node[t], mount)
       /\ IF dup THEN Idle(t) ELSE Step(t, "obtain") /\ UNCHANGED node
  /\ found' = [found EXCEPT ![t] = FALSE]
  /\ UNCHANGED <<blocks, dosName, mount, lock, sawAt, stuck>>

\* ObtainSemaphore: who has to wait waits for good, and so does everybody else.
Obtain(t) ==
  /\ At(t, "obtain")
  /\ IF lock = None THEN lock' = t /\ Step(t, "link") /\ UNCHANGED stuck
                    ELSE stuck' = TRUE /\ UNCHANGED <<lock, step>>
  /\ UNCHANGED <<blocks, dosName, mount, node, found, sawAt>>

Mount(t) ==
  /\ At(t, "link")
  /\ mount' = Enqueue(mount, node[t], BootPri)
  /\ Step(t, "release")
  /\ UNCHANGED <<blocks, dosName, lock, node, found, sawAt, stuck>>

Release(t) ==
  /\ At(t, "release")
  /\ lock' = None
  /\ Idle(t)
  /\ UNCHANGED <<blocks, dosName, mount, found, sawAt, stuck>>

MakerStep(t) ==
  \/ \E n \in Node, name \in DosName \cup {NoName} : MakeDosNode(t, n, name)
  \/ MakeDosName(t) \/ MakeExecName(t) \/ MakeFails(t)
  \/ AddDosNode(t) \/ SearchEnd(t) \/ Obtain(t) \/ Mount(t) \/ Release(t)

ExpNext == \E t \in Maker : MakerStep(t)

ExpSpec == ExpInit /\ [][ExpNext]_expVars
----------------------------------------------------------------------------
Steps == {"idle", "dosName", "execName", "made", "search", "obtain", "link", "release"}

ExpTypeOK ==
  /\ blocks \in [Node -> SUBSET Whole]
  /\ dosName \in [Node -> DosName \cup {NoName}]
  /\ mount \in Seq(Node)
  /\ lock \in Maker \cup {None}
  /\ step \in [Maker -> Steps]
  /\ node \in [Maker -> Node \cup {None}]
  /\ found \in [Maker -> BOOLEAN]
  /\ sawAt \in [Node -> SUBSET Node]
  /\ stuck \in BOOLEAN

\* A node has all of its blocks, or none, or is just being made by one task: no path
\* of MakeDosNode leaks or keeps half a node (makedosnode.c:65-71), and what is
\* mounted, by one call each, is whole and named.
NodesWhole ==
  \A n \in Node :
    /\ blocks[n] \in {{}, Whole} \/ \E t \in Maker : node[t] = n /\ step[t] \in {"dosName", "execName"}
    /\ \A i \in 1..Len(mount) : mount[i] = n => blocks[n] = Whole /\ dosName[n] # NoName

\* Two nodes of one name are mounted only if each of the two searches began before
\* the other node was linked: calls that follow each other leave no duplicate, calls
\* that overlap may (adddosnode.c:32-41, where the search is outside the semaphore).
DuplicatesOverlap ==
  \A i, j \in 1..Len(mount) :
    i # j /\ dosName[mount[i]] = dosName[mount[j]] =>
      mount[i] # mount[j] /\ mount[i] \notin sawAt[mount[j]]
============================================================================
