--------------------------- MODULE IntrusiveList ---------------------------
(***************************************************************************)
(* The doubly linked intrusive list of the external library stdx, as the   *)
(* managers use it: a list is the sequence of its nodes, and a node is in  *)
(* at most one list, at most once.  push_back is Append, front is Head,    *)
(* pop_front is Tail; insert(pos, node) is InsertAt.                       *)
(***************************************************************************)
EXTENDS Integers, Sequences, SequencesExt

Nodes(list) == {list[i] : i \in 1..Len(list)}

\* No node is linked twice.
Linear(list) == \A i, j \in 1..Len(list) : list[i] = list[j] => i = j

\* Node n precedes node m.
Before(list, n, m) ==
    \E i, j \in 1..Len(list) : i < j /\ list[i] = n /\ list[j] = m

\* insert(pos, n): n is placed in front of the node at position pos.
Insert(list, pos, n) == InsertAt(list, pos, n)

PositionOf(list, n) == CHOOSE i \in 1..Len(list) : list[i] = n

\* remove(n): n is linked in the list and its neighbours are joined.
Unlink(list, n) == RemoveAt(list, PositionOf(list, n))
=============================================================================
