----------------------------- MODULE ExecLists -----------------------------
(***************************************************************************)
(* Exec lists (lib.exec/list.c) seen as the sequence of their nodes, head  *)
(* first.  A node is whatever the owner of the list links into it; its     *)
(* ln_Pri is looked up in a function pri.  The list header, whose two      *)
(* overlapping sentinels close both ends, is not a node.                   *)
(***************************************************************************)
EXTENDS Integers, SequencesExt

\* The places a node of priority p may take in list q: in front of a node of
\* strictly lower priority, or behind the last node.
EnqueuePlaces(q, p, pri) ==
  {i \in 1..Len(q) : p > pri[q[i]]} \cup {Len(q) + 1}

\* Enqueue walks from the head to the first strictly lower node and links the
\* new node in front of it, so that equal priorities stay in arrival order.
Enqueue(q, n, pri) == InsertAt(q, Min(EnqueuePlaces(q, pri[n], pri)), n)

AddHead(q, n) == <<n>> \o q
AddTail(q, n) == Append(q, n)

\* Remove unlinks a node the caller knows to be in the list.
Unlink(q, n) == RemoveAt(q, CHOOSE i \in 1..Len(q) : q[i] = n)

IsListEmpty(q) == q = <<>>

\* What users of Enqueue rely on: no node stands behind a lower one.
SortedBy(q, pri) == \A i, j \in 1..Len(q) : i < j => pri[q[i]] >= pri[q[j]]

Distinct(q) == \A i, j \in 1..Len(q) : i # j => q[i] # q[j]
=============================================================================
