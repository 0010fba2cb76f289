------------------------------ MODULE HashHeap ------------------------------
(***************************************************************************)
(* src/src/cmi_hashheap.c: a binary heap in an array, with an open hash    *)
(* map from keys to places in the heap that is built when it is first      *)
(* needed, keeps a tombstone for every item that has left, and is cleaned  *)
(* when it is too full or the heap is doubled.                             *)
(*                                                                         *)
(* h is the struct: heap[1 .. heap_count] as a sequence, hash_map as a     *)
(* function, heap_exp_cur as exp.  An item's slot is its hash_index, read  *)
(* only while the map is active and 0 before that.  result is what the     *)
(* last call has returned.                                                 *)
(***************************************************************************)
EXTENDS Integers, FiniteSets, Sequences

CONSTANTS Handle, DRank, IRank, Payload, Any,
          Hash(_, _),     \* hash_key: the key, and the size of the map
          InitExp,        \* heap_exp_init
          Preloads,       \* what may be there when we begin: dranks, in order of entry
          MaxExp, MaxCounter      \* bounds of the model: size to grow to, items

HashHeapAssumption ==
    /\ Handle \subseteq Nat \ (0 .. MaxCounter)
    /\ DRank \subseteq Int /\ IRank \subseteq Int
    /\ Preloads \subseteq Seq(DRank)
    /\ InitExp \in Nat \ {0} /\ MaxExp \in Nat /\ MaxCounter \in Nat
    /\ Any \notin Payload

VARIABLES h, result

vars == <<h, result>>

HeapSize(s) == 2 ^ s.exp
HashSize(s) == 2 * HeapSize(s)
EmptyMap(e) == [i \in 0 .. 2 ^ (e + 1) - 1 |-> [key |-> 0, place |-> 0]]
Count(s) == Len(s.heap)

Least(S) == CHOOSE n \in S : \A m \in S : n <= m

\* default_compare
Before(a, b) ==
    \/ a.drank < b.drank
    \/ a.drank = b.drank /\ a.irank > b.irank
    \/ a.drank = b.drank /\ a.irank = b.irank /\ a.key < b.key

-----------------------------------------------------------------------------
(* The hash map.                                                           *)

Probe(s, key, n) == (Hash(key, HashSize(s)) + n) % HashSize(s)

\* hash_find_slot: the first slot on the key's way that no live item has.
FindSlot(s, key) ==
    Probe(s, key, Least({n \in DOMAIN s.map : s.map[Probe(s, key, n)].place = 0}))

\* cmi_hash_find_index: the place under the key, 0 if there is none; the
\* search ends at a slot that was never used.
FindIndex(s, key) ==
    LET at(n) == s.map[Probe(s, key, n)]
        ends == {n \in DOMAIN s.map : at(n).key \in {key, 0}}
    IN  IF ends = {} THEN 0
        ELSE IF at(Least(ends)).key = 0 THEN 0 ELSE at(Least(ends)).place

\* The item at place k is entered in the map.
Entered(s, k) ==
    LET slot == FindSlot(s, s.heap[k].key)
    IN  [s EXCEPT !.map[slot] = [key |-> s.heap[k].key, place |-> k],
                  !.heap[k].slot = slot]

\* hash_init: every item of the heap, in its order.
HashInit(s) ==
    LET upto[k \in 0 .. Count(s)] == IF k = 0 THEN s ELSE Entered(upto[k - 1], k)
    IN  upto[Count(s)]

Activated(s) == IF s.active THEN s ELSE [HashInit(s) EXCEPT !.active = TRUE]

\* hash_rehash: the live entries of the old map, in the order of its slots.
Rehashed(s, old) ==
    LET n == Cardinality(DOMAIN old)
        upto[i \in 0 .. n] ==
            IF i = 0 THEN s
            ELSE IF old[i - 1].key # 0 /\ old[i - 1].place # 0
                 THEN Entered(upto[i - 1], old[i - 1].place)
                 ELSE upto[i - 1]
    IN  upto[n]

\* hashheap_grow
Grown(s) ==
    LET big == [s EXCEPT !.exp = @ + 1, !.map = EmptyMap(s.exp + 1), !.tombstones = 0]
    IN  IF s.active THEN Rehashed(big, s.map) ELSE big

\* hashheap_compact
Compacted(s) == [HashInit([s EXCEPT !.map = EmptyMap(s.exp)]) EXCEPT !.tombstones = 0]

-----------------------------------------------------------------------------
(* The heap.  Each tag that moves tells its slot in the map so.            *)

Ancestors(k) == {k \div 2 ^ e : e \in 0 .. k} \ {0}

Placed(s, heap, moved) ==
    [s EXCEPT
        !.heap = heap,
        !.map = IF ~s.active THEN @
                ELSE [i \in DOMAIN @ |->
                        LET here == {k \in moved : heap[k].slot = i}
                        IN  IF here = {} THEN @[i]
                            ELSE [@[i] EXCEPT !.place = CHOOSE k \in here : TRUE]]]

\* heap_up: the tag at k rises as long as it goes before the one above.
HeapUp(s, k) ==
    LET heap == s.heap
        rest[j \in 1 .. k] ==
            IF j > 1 /\ Before(heap[k], heap[j \div 2]) THEN rest[j \div 2] ELSE j
        way == {j \in Ancestors(k) : j >= rest[k]}
    IN  Placed(s, [j \in DOMAIN heap |-> IF j = rest[k] THEN heap[k]
                                          ELSE IF j \in way THEN heap[j \div 2]
                                          ELSE heap[j]], way)

\* heap_down: it sinks as long as it does not go before the first of the two
\* below.
HeapDown(s, k) ==
    LET heap == s.heap
        n == Len(heap)
        child(j) == IF 2 * j + 1 <= n /\ Before(heap[2 * j + 1], heap[2 * j])
                    THEN 2 * j + 1 ELSE 2 * j
        rest[j \in k .. n] ==
            IF 2 * j > n \/ Before(heap[k], heap[child(j)]) THEN j ELSE rest[child(j)]
        way == {j \in Ancestors(rest[k]) : j >= k}
    IN  Placed(s, [j \in DOMAIN heap |-> IF j = rest[k] THEN heap[k]
                                          ELSE IF j \in way THEN heap[child(j)]
                                          ELSE heap[j]], way)

-----------------------------------------------------------------------------
(* The operations on the struct.                                           *)

Fresh(e) == [heap |-> <<>>, map |-> EmptyMap(e), exp |-> e,
             active |-> FALSE, tombstones |-> 0, counter |-> 0]

\* Faulty: the map is never cleaned.
SpaciousUncompacted(s) == IF Count(s) = HeapSize(s) THEN Grown(s) ELSE s

\* Space for one more: cmi_hashheap_enqueue up to the point where it has it.
Spacious(s) ==
    IF Count(s) = HeapSize(s) THEN Grown(s)
    ELSE IF s.active /\ Count(s) + s.tombstones >= (3 * HashSize(s)) \div 4
    THEN Compacted(s) ELSE s

\* The last place of the heap, entered where there may be a tombstone.
Appended(s, tag) ==
    LET t == [s EXCEPT !.heap = Append(@, tag)]
        reused == s.map[FindSlot(s, tag.key)].key # 0
    IN  IF ~s.active THEN t
        ELSE [Entered(t, Count(t)) EXCEPT !.tombstones = IF reused THEN @ - 1 ELSE @]

Enqueued(s, tag) ==
    LET t == Appended([Spacious(s) EXCEPT !.counter = @ + 1], tag)
    IN  HeapUp(t, Count(t))

\* The item at place k becomes a tombstone, if the map is in use.
Buried(s, k) ==
    IF s.active THEN [s EXCEPT !.map[s.heap[k].slot].place = 0, !.tombstones = @ + 1] ELSE s

\* The last item moves to place k.
Filled(s, k) ==
    LET last == s.heap[Count(s)]
        t == [s EXCEPT !.heap = [j \in 1 .. Count(s) - 1 |-> IF j = k THEN last ELSE s.heap[j]]]
    IN  IF s.active /\ k < Count(s) THEN [t EXCEPT !.map[last.slot].place = k] ELSE t

\* Faulty: the moved item only sinks.
RemovedAtSinking(s, k) ==
    LET t == Filled(Buried(s, k), k) IN IF k = Count(s) THEN t ELSE HeapDown(t, k)

Dequeued(s) ==
    LET t == Filled(Buried(s, 1), 1)
    IN  IF Count(t) > 1 THEN HeapDown(t, 1) ELSE t

RemovedAt(s, k) ==
    LET sinks == Before(s.heap[k], s.heap[Count(s)])
        t == Filled(Buried(s, k), k)
    IN  IF k = Count(s) THEN t ELSE IF sinks THEN HeapDown(t, k) ELSE HeapUp(t, k)

Removed(s, key) ==
    LET t == Activated(s)
    IN  IF Count(s) = 0 THEN s
        ELSE IF FindIndex(t, key) = 0 THEN t ELSE RemovedAt(t, FindIndex(t, key))

Ranked(s, key, drank, irank) ==
    LET t == Activated(s)
        k == FindIndex(t, key)
        u == [t EXCEPT !.heap[k].drank = drank, !.heap[k].irank = irank]
    IN  IF Before(t.heap[k], u.heap[k]) THEN HeapDown(u, k) ELSE HeapUp(u, k)

\* item_match for one of the four places, the others alike.
Matches(tag, p) == p \in {tag.load, Any}

\* The keys that match, in the order of the heap array.
Matching(s, p) ==
    LET here == SelectSeq(s.heap, LAMBDA tag : Matches(tag, p))
    IN  [i \in DOMAIN here |-> here[i].key]

\* The bytes match_buf is given for them when no larger heap was searched in
\* the thread before; keys written beyond its end are taken to survive.
MatchRoom(s) == HeapSize(s)

\* The second pass of cmi_hashheap_pattern_cancel.
Cancelled(s, keys) ==
    LET upto[i \in 0 .. Len(keys)] == IF i = 0 THEN s ELSE Removed(upto[i - 1], keys[i])
    IN  upto[Len(keys)]

-----------------------------------------------------------------------------
Live == {h.heap[k].key : k \in DOMAIN h.heap}
Anyone == Handle \cup 1 .. h.counter

Loaded(dranks) ==
    LET tag(n) == [key |-> n, drank |-> dranks[n], irank |-> CHOOSE i \in IRank : TRUE,
                   load |-> CHOOSE p \in Payload : TRUE, slot |-> 0]
        upto[n \in 0 .. Len(dranks)] ==
            IF n = 0 THEN Fresh(InitExp) ELSE Enqueued(upto[n - 1], tag(n))
    IN  upto[Len(dranks)]

Init == h \in {Loaded(d) : d \in Preloads} /\ result = <<>>

(* A key of 0 asks for a new one.  A supplied one is not in the heap.       *)
Enqueue == \E k \in {0} \cup (Handle \ Live), d \in DRank, i \in IRank, p \in Payload :
    LET key == IF k = 0 THEN h.counter + 1 ELSE k
    IN  /\ h.counter < MaxCounter
        /\ Count(h) < 2 ^ MaxExp
        /\ h' = Enqueued(h, [key |-> key, drank |-> d, irank |-> i, load |-> p, slot |-> 0])
        /\ result' = <<>>
    
Dequeue ==
    /\ IF Count(h) = 0 THEN h' = h /\ result' = <<"none">>
       ELSE h' = Dequeued(h) /\ result' = <<"item", h.heap[1].key, h.heap[1].load>>

Remove == \E k \in Anyone :
    /\ h' = Removed(h, k)
    /\ result' = <<"removed", Count(h') # Count(h)>>

(* cmi_hashheap_is_enqueued, and the searches that fetch an item or a rank. *)
Find == \E k \in Anyone :
    /\ h' = IF Count(h) = 0 THEN h ELSE Activated(h)
    /\ result' = <<"found", Count(h) # 0 /\ FindIndex(h', k) # 0>>

(* The callers make sure the key is there: idx # 0 is asserted.             *)
Reprioritize == \E k \in Live, d \in DRank, i \in IRank :
    /\ h' = Ranked(h, k, d, i)
    /\ result' = <<>>

PatternFind == \E p \in Payload \cup {Any} :
    /\ result' = <<"match", IF Matching(h, p) = <<>> THEN 0 ELSE Matching(h, p)[1],
                   Len(Matching(h, p))>>
    /\ UNCHANGED h

PatternCancel == \E p \in Payload \cup {Any} :
    /\ h' = Cancelled(h, Matching(h, p))
    /\ result' = <<"cancelled", Len(Matching(h, p))>>

Clear ==
    /\ h' = [Fresh(h.exp) EXCEPT !.counter = h.counter]
    /\ result' = <<>>

Reset ==
    /\ h' = Fresh(InitExp)
    /\ result' = <<>>

Next == Enqueue \/ Dequeue \/ Remove \/ Find \/ Reprioritize
        \/ PatternFind \/ PatternCancel \/ Clear \/ Reset

Spec == Init /\ [][Next]_vars

-----------------------------------------------------------------------------
(* Properties.                                                             *)

(* While the map is active it and the heap agree: the slot of every item   *)
(* names the item's key and place, every slot with a place belongs to the  *)
(* item there, and the other used slots are counted as tombstones.  Every  *)
(* move of a tag (heap_up, heap_down, the last item filling a gap), every  *)
(* rehash and every reuse of a tombstone has to keep this.                 *)
IndexFaithful == h.active =>
    /\ \A k \in DOMAIN h.heap :
           h.map[h.heap[k].slot] = [key |-> h.heap[k].key, place |-> k]
    /\ \A i \in DOMAIN h.map : h.map[i].place # 0 =>
           h.map[i].place <= Count(h) /\ h.heap[h.map[i].place].slot = i
    /\ h.tombstones = Cardinality({i \in DOMAIN h.map : h.map[i].key # 0 /\ h.map[i].place = 0})

(* However long items are put in and taken out while the heap never fills, *)
(* some slot of the map is left that was never used, so that a search for  *)
(* a key that is not there need not visit the whole map (the reason        *)
(* hashheap_compact gives for itself).                                     *)
SearchesEnd == \E i \in DOMAIN h.map : h.map[i].key = 0

(* Searches through the index find what is in the heap, and end.           *)
IndexSound == IndexFaithful /\ SearchesEnd

(* The hash heap is a keyed queue: what leaves is the first in rank of what *)
(* is there, a search finds exactly what is there under the key, and a     *)
(* removal, a change of rank or a cancelled pattern touches nothing else.  *)
Queue == INSTANCE KeyedQueue WITH
    counter <- h.counter,
    queue <- {[key |-> h.heap[k].key, drank |-> h.heap[k].drank,
               irank |-> h.heap[k].irank, load |-> h.heap[k].load] : k \in DOMAIN h.heap}

Implements == Queue!QueueSpec

=============================================================================
