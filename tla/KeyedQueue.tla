----------------------------- MODULE KeyedQueue -----------------------------
(***************************************************************************)
(* What src/src/cmi_hashheap.c promises to its users (the event queue, the *)
(* guards' wait queues, the pools' holders, the priority queues): a set of *)
(* items under unique keys, of which the first in rank can be taken, and   *)
(* any one can be found, removed or moved by its key.  There is no heap    *)
(* and no hash map here.  An item has two ranks and a payload; result is   *)
(* what the last call has returned.                                        *)
(***************************************************************************)
EXTENDS Integers, FiniteSets

CONSTANTS Handle,    \* keys supplied by callers, such as a process's handle
          DRank,     \* values of the first rank, the lower first
          IRank,     \* values of the second rank, the higher first
          Payload,   \* what can be matched
          Any        \* the wildcard CMI_ANY_ITEM

VARIABLES queue, counter, result

Item == [key: Nat \ {0}, drank: DRank, irank: IRank, load: Payload]

\* a goes before b: the earlier, of these the more urgent, then the older.
Before(a, b) ==
    \/ a.drank < b.drank
    \/ a.drank = b.drank /\ a.irank > b.irank
    \/ a.drank = b.drank /\ a.irank = b.irank /\ a.key < b.key

First(q) == CHOOSE a \in q : \A b \in q \ {a} : Before(a, b)
Keys(q) == {a.key : a \in q}
Matching(q, p) == {a \in q : p \in {a.load, Any}}

Init ==
    /\ \A a, b \in queue : a.key = b.key => a = b
    /\ \A a \in queue : a.key \in Handle \cup 1 .. counter
    /\ result = <<>>

Enqueue == \E k \in {0} \cup (Handle \ Keys(queue)), d \in DRank, i \in IRank, p \in Payload :
    LET key == IF k = 0 THEN counter + 1 ELSE k
    IN  /\ counter' = counter + 1
        /\ queue' = queue \cup {[key |-> key, drank |-> d, irank |-> i, load |-> p]}
        /\ result' = <<>>

Dequeue ==
    /\ \/ queue = {} /\ queue' = {} /\ result' = <<"none">>
       \/ /\ queue # {}
          /\ queue' = queue \ {First(queue)}
          /\ result' = <<"item", First(queue).key, First(queue).load>>
    /\ UNCHANGED counter

Remove == \E k \in Handle \cup 1 .. counter :
    /\ queue' = {a \in queue : a.key # k}
    /\ result' = <<"removed", k \in Keys(queue)>>
    /\ UNCHANGED counter

\* A search by key finds what is there.
Find == \E k \in Handle \cup 1 .. counter :
    /\ result' = <<"found", k \in Keys(queue)>>
    /\ UNCHANGED <<queue, counter>>

Reprioritize == \E a \in queue, d \in DRank, i \in IRank :
    /\ queue' = (queue \ {a}) \cup {[a EXCEPT !.drank = d, !.irank = i]}
    /\ result' = <<>>
    /\ UNCHANGED counter

PatternFind == \E p \in Payload \cup {Any} :
    /\ \/ Matching(queue, p) = {} /\ result' = <<"match", 0, 0>>
       \/ \E a \in Matching(queue, p) :
              result' = <<"match", a.key, Cardinality(Matching(queue, p))>>
    /\ UNCHANGED <<queue, counter>>

PatternCancel == \E p \in Payload \cup {Any} :
    /\ queue' = queue \ Matching(queue, p)
    /\ result' = <<"cancelled", Cardinality(Matching(queue, p))>>
    /\ UNCHANGED counter

Clear == queue' = {} /\ counter' \in {0, counter} /\ result' = <<>>

Next == Enqueue \/ Dequeue \/ Remove \/ Find \/ Reprioritize
        \/ PatternFind \/ PatternCancel \/ Clear

vars == <<queue, counter, result>>
QueueSpec == Init /\ [][Next]_vars
=============================================================================
