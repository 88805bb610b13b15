---------------------------- MODULE LinkedLists ----------------------------
(***************************************************************************)
(* Exec lists at the level of their links (lib.exec/list.c).  A memory m   *)
(* holds ln_Succ and ln_Pred of every cell.  A list header is two cells    *)
(* that overlap: its head, whose ln_Succ is lh_Head, and its tail, whose   *)
(* ln_Pred is lh_TailPred; lh_Tail, always NULL, is the ln_Pred of the one *)
(* and the ln_Succ of the other.  Each operator returns the memory behind  *)
(* the stores of one function.                                             *)
(***************************************************************************)
EXTENDS ExecLists

CONSTANT NULL

\* The addresses of a list header's two overlapping cells.
Header(h, t) == [head |-> h, tail |-> t]

SetSucc(m, c, v) == [m EXCEPT !.succ[c] = v]
SetPred(m, c, v) == [m EXCEPT !.pred[c] = v]

NewList(m, l) ==
  [succ |-> [m.succ EXCEPT ![l.head] = l.tail, ![l.tail] = NULL],
   pred |-> [m.pred EXCEPT ![l.head] = NULL, ![l.tail] = l.head]]

\* The four stores that link node n between two neighbours.
Link(m, a, n, b) ==
  [succ |-> [m.succ EXCEPT ![n] = b, ![a] = n],
   pred |-> [m.pred EXCEPT ![n] = a, ![b] = n]]

LinkHead(m, l, n) == Link(m, l.head, n, m.succ[l.head])
LinkTail(m, l, n) == Link(m, m.pred[l.tail], n, l.tail)

\* The cell k steps behind cell c, or NULL once the links have run out.
Behind(m, c) ==
  LET cell[k \in Nat] == IF k = 0 THEN c
                         ELSE IF cell[k - 1] = NULL THEN NULL
                         ELSE m.succ[cell[k - 1]]
  IN  cell

\* Where a walk from the head ends: at the first cell that is in stops, or at the tail.
\* Bound is more than the nodes of any list.
WalkEnd(m, l, stops, bound) ==
  LET cell == Behind(m, m.succ[l.head])
      ends == {k \in 0..bound : /\ cell[k] # NULL
                              /\ (m.succ[cell[k]] = NULL \/ cell[k] \in stops)}
  IN  cell[Min(ends)]

\* Seeded fault: the new node goes in front of its equals.
Bug_LinkByPriFirst(m, l, n, pri, bound) ==
  LET at == WalkEnd(m, l, {c \in DOMAIN pri : pri[n] >= pri[c]}, bound)
  IN  IF m.succ[m.succ[l.head]] = NULL THEN LinkHead(m, l, n)
      ELSE Link(m, m.pred[at], n, at)

\* Enqueue: in front of the first node of strictly lower priority.
LinkByPri(m, l, n, pri, bound) ==
  LET at == WalkEnd(m, l, {c \in DOMAIN pri : pri[n] > pri[c]}, bound)
  IN  IF m.succ[m.succ[l.head]] = NULL THEN LinkHead(m, l, n)
      ELSE Link(m, m.pred[at], n, at)

\* Insert: behind a node; at the head behind NULL, at the tail behind the tail.
LinkBehind(m, l, n, a) ==
  IF a = NULL THEN LinkHead(m, l, n)
  ELSE IF m.succ[a] = NULL THEN LinkTail(m, l, n)
  ELSE Link(m, a, n, m.succ[a])

\* Remove is two stores.  The second loads both links again.
RemoveStore1(m, n)  == SetPred(m, m.succ[n], m.pred[n])
RemoveStore2(m, n) == SetSucc(m, m.pred[n], m.succ[n])
RemoveNode(m, n) == RemoveStore2(RemoveStore1(m, n), n)

\* RemHead and RemTail, with the node they return.  The one leaves the links of the
\* node as they are, the other clears them.
RemHead(m, l) ==
  LET first == m.succ[l.head]
      next  == m.succ[first]
  IN  IF next = NULL THEN [mem |-> m, node |-> NULL]
      ELSE [mem |-> SetSucc(SetPred(m, next, l.head), l.head, next), node |-> first]

RemTail(m, l) ==
  LET last == m.pred[l.tail]
      rest == SetPred(m, l.tail, m.pred[last])
  IN  IF m.pred[last] = NULL THEN [mem |-> m, node |-> NULL]
      ELSE [mem |-> SetPred(SetSucc(SetSucc(rest, m.pred[last], m.succ[last]),
                                    last, NULL), last, NULL),
            node |-> last]

\* FindName: the first node of that name, or NULL.
FindName(m, l, name, nameOf, bound) ==
  LET at == WalkEnd(m, l, {c \in DOMAIN nameOf : nameOf[c] = name}, bound)
  IN  IF m.succ[at] = NULL THEN NULL ELSE at

\* The links are those of a list that holds the nodes of sequence q, in both
\* directions: what every user of a list relies on.
Represents(m, l, q) ==
  LET chain == <<l.head>> \o q \o <<l.tail>>
  IN  /\ \A i \in 1..Len(q) + 1 : /\ m.succ[chain[i]] = chain[i + 1]
                                  /\ m.pred[chain[i + 1]] = chain[i]
      /\ m.succ[l.tail] = NULL
      /\ m.pred[l.head] = NULL
=============================================================================
