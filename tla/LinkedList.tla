----------------------------- MODULE LinkedList ------------------------------
(***************************************************************************)
(* Doubly linked lists (src/src/cmi_dlist.h): a ring of nodes through a    *)
(* head, the way the registry of a thread keeps its objects.  A node that  *)
(* is in no list is linked to itself, or to nothing before it has been     *)
(* initialized.                                                            *)
(***************************************************************************)
EXTENDS Sequences, Naturals

CONSTANTS
  Node, Head0,            \* the nodes, and the head of the list
  Null

ListAssumption == Head0 \notin Node /\ Null \notin Node \cup {Head0}

VARIABLES
  list,                   \* the links of each node, next and prev
  order                   \* the nodes in the list, first to last

Nodes == Node \cup {Head0}

-----------------------------------------------------------------------------
(* The functions, one assignment after the other.                          *)
Linked(l, n, m) == [l EXCEPT !.next[n] = m]
LinkedBack(l, n, m) == [l EXCEPT !.prev[n] = m]

(* cmi_dlist_create, and cmi_dlist_terminate *)
Unset(l, n) == LinkedBack(Linked(l, n, Null), n, Null)

(* cmi_dlist_initialize *)
Alone(l, n) == LinkedBack(Linked(l, n, n), n, n)

IsEmpty(l) == l.next[Head0] = Head0

InsertAfter(l, old, new) ==
  LET t == LinkedBack(Linked(l, new, l.next[old]), new, old)
      u == Linked(t, old, new)
  IN  LinkedBack(u, u.next[new], new)

InsertBefore(l, old, new) ==
  LET t == Linked(LinkedBack(l, new, l.prev[old]), new, old)
      u == LinkedBack(t, old, new)
  IN  Linked(u, u.prev[new], new)

InsertFirst(l, new) == InsertAfter(l, Head0, new)
InsertLast(l, new) == InsertBefore(l, Head0, new)

(* Faulty: the node stays linked to where it was.                          *)
UnlinkDangling(l, n) ==
  IF l.next[n] \in {Null, n} THEN l
  ELSE LET t == LinkedBack(l, l.next[n], l.prev[n])
       IN  Linked(t, t.prev[n], t.next[n])

Unlink(l, n) ==
  IF l.next[n] \in {Null, n} THEN l
  ELSE LET t == LinkedBack(l, l.next[n], l.prev[n])
           u == Linked(t, t.prev[n], t.next[n])
       IN  Alone(u, n)

First(l) == IF l.next[Head0] # Head0 THEN l.next[Head0] ELSE Null
Last(l) == IF l.prev[Head0] # Head0 THEN l.prev[Head0] ELSE Null

RemoveFirst(l) == IF First(l) = Null THEN l ELSE Unlink(l, First(l))
RemoveLast(l) == IF Last(l) = Null THEN l ELSE Unlink(l, Last(l))

-----------------------------------------------------------------------------
(* What a client does: it inserts no node that is in the list already, and *)
(* initializes or terminates none that is.                                 *)
Listed == {order[i] : i \in 1..Len(order)}

Loose(n) == n \notin Listed /\ (n = Head0 => order = <<>>)

ListInit ==
  /\ list = [next |-> [n \in Nodes |-> Null], prev |-> [n \in Nodes |-> Null]]
  /\ order = <<>>

Initialize(n) ==
  /\ Loose(n)
  /\ list' = Alone(list, n)
  /\ UNCHANGED order

Terminate(n) ==
  /\ Loose(n)
  /\ list' = Unset(list, n)
  /\ UNCHANGED order

Ready == list.next[Head0] # Null

AddFirst(n) ==
  /\ Ready /\ n \notin Listed
  /\ list' = InsertFirst(list, n)
  /\ order' = <<n>> \o order

AddLast(n) ==
  /\ Ready /\ n \notin Listed
  /\ list' = InsertLast(list, n)
  /\ order' = Append(order, n)

(* Next to the i-th node.                                                  *)
AddAfter(i, n) ==
  /\ n \notin Listed
  /\ list' = InsertAfter(list, order[i], n)
  /\ order' = SubSeq(order, 1, i) \o <<n>> \o SubSeq(order, i + 1, Len(order))

AddBefore(i, n) ==
  /\ n \notin Listed
  /\ list' = InsertBefore(list, order[i], n)
  /\ order' = SubSeq(order, 1, i - 1) \o <<n>> \o SubSeq(order, i, Len(order))

(* Any node may be unlinked, and an empty head.                            *)
Remove(n) ==
  /\ n = Head0 => order = <<>>
  /\ list' = Unlink(list, n)
  /\ order' = IF n \notin Listed THEN order
              ELSE LET i == CHOOSE i \in 1..Len(order) : order[i] = n
                   IN  SubSeq(order, 1, i - 1) \o SubSeq(order, i + 1, Len(order))

TakeFirst ==
  /\ Ready
  /\ list' = RemoveFirst(list)
  /\ order' = IF order = <<>> THEN <<>> ELSE Tail(order)

TakeLast ==
  /\ Ready
  /\ list' = RemoveLast(list)
  /\ order' = IF order = <<>> THEN <<>> ELSE SubSeq(order, 1, Len(order) - 1)

ListNext ==
  \/ \E n \in Nodes : Initialize(n) \/ Terminate(n) \/ Remove(n)
  \/ \E n \in Node : AddFirst(n) \/ AddLast(n)
  \/ \E n \in Node, i \in 1..Len(order) : AddAfter(i, n) \/ AddBefore(i, n)
  \/ TakeFirst \/ TakeLast

-----------------------------------------------------------------------------
(* Every node that is linked is what its neighbors take for theirs.        *)
RingTrue ==
  \A n \in Nodes :
    /\ list.next[n] = Null <=> list.prev[n] = Null
    /\ list.next[n] # Null => /\ list.prev[list.next[n]] = n
                              /\ list.next[list.prev[n]] = n

(* However nodes are inserted, unlinked and taken, the links run through   *)
(* the nodes that are in the list in their order, in both directions, and  *)
(* lead nowhere else from any other.                                       *)
ListTrue ==
  LET n == Len(order)
      at(i) == IF i \in 1..n THEN order[i] ELSE Head0
  IN  /\ RingTrue
      /\ Ready => \A i \in 0..n : list.next[at(i)] = at(i + 1)
      /\ order # <<>> => Ready
      /\ Ready => /\ IsEmpty(list) <=> order = <<>>
                  /\ First(list) = IF order = <<>> THEN Null ELSE order[1]
                  /\ Last(list) = IF order = <<>> THEN Null ELSE order[n]
      /\ \A m \in Node \ Listed : list.next[m] \in {m, Null}

=============================================================================
