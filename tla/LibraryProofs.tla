--------------------------- MODULE LibraryProofs ----------------------------
(***************************************************************************)
(* Proofs about LibrarySystem: linked lists and memory pools keep what is  *)
(* put into them, and coroutines their registry, stacks and contexts, for  *)
(* every number of them and every size.                                    *)
(*                                                                         *)
(* A linked list is right if its links run through the sequence that the   *)
(* calls have made, from the head and back to it, in both directions       *)
(* (Ring), and whatever is not in it is linked to itself or to nothing     *)
(* (Apart).  A call changes two or four links, and the ring is put         *)
(* together again place by place: PutIn and TakenOut say how the places    *)
(* before and after correspond.                                            *)
(*                                                                         *)
(* A memory pool is right if what it has handed out, chunk by chunk        *)
(* (HandedOut), is what the program has and what was given back, without   *)
(* any object being both (PoolSound).  A new chunk is taken only when      *)
(* nothing is left of the last one.                                        *)
(*                                                                         *)
(* Coroutines are right if there is a sequence of them (reg) through which *)
(* the registry leads, both ways, such that each stack is that of one in   *)
(* the sequence or is once on a shelf of its size (Coherent).  Until the   *)
(* thread ends, those in the sequence are those that have been initialized,*)
(* and all that run but the current one have saved their contexts.         *)
(***************************************************************************)
EXTENDS LibrarySystem, SequenceTheorems, FiniteSetTheorems, WellFoundedInduction, TLAPS

-----------------------------------------------------------------------------
(* Linked lists.                                                            *)
Linkable == L!Nodes \union {Null}

ListTyped(l) == l \in [next : [L!Nodes -> Linkable], prev : [L!Nodes -> Linkable]]

At(s, i) == IF i \in 1 .. Len(s) THEN s[i] ELSE ListHead

Distinct(s) == \A i, j \in 1 .. Len(s) : s[i] = s[j] => i = j

Among(n, s) == \E i \in 1 .. Len(s) : s[i] = n

\* The links of l run through s, in both directions.
Ring(l, s) == \A i \in 0 .. Len(s) :
    l.next[At(s, i)] = At(s, i + 1) /\ l.prev[At(s, i + 1)] = At(s, i)

\* A node that is not in s is linked to itself, or to nothing.
Apart(l, s) == \A m \in Node :
    ~Among(m, s) => l.next[m] = l.prev[m] /\ l.next[m] \in {m, Null}

Unready(l, s) == s = <<>> /\ l.next[ListHead] = Null /\ l.prev[ListHead] = Null

ListSound(l, s) ==
    /\ ListTyped(l) /\ s \in Seq(Node) /\ Distinct(s) /\ Apart(l, s)
    /\ Unready(l, s) \/ Ring(l, s)

\* t is s with n put in after the place k, or with the place k taken out.
PutIn(t, s, k, n) ==
    /\ t \in Seq(Node) /\ Len(t) = Len(s) + 1
    /\ \A j \in 1 .. Len(t) :
           t[j] = IF j <= k THEN s[j] ELSE IF j = k + 1 THEN n ELSE s[j - 1]

TakenOut(t, s, k) ==
    /\ t \in Seq(Node) /\ Len(t) = Len(s) - 1
    /\ \A j \in 1 .. Len(t) : t[j] = IF j < k THEN s[j] ELSE s[j + 1]

NextSet(q, l, n, m) == \A x \in L!Nodes : q.next[x] = IF x = n THEN m ELSE l.next[x]
PrevSet(q, l, n, m) == \A x \in L!Nodes : q.prev[x] = IF x = n THEN m ELSE l.prev[x]

LEMMA LinkedTyped ==
    ASSUME NEW l, ListTyped(l), NEW n \in L!Nodes, NEW m \in Linkable
    PROVE  /\ ListTyped(L!Linked(l, n, m))
           /\ ListTyped(L!LinkedBack(l, n, m))
           /\ L!Linked(l, n, m).prev = l.prev
           /\ L!LinkedBack(l, n, m).next = l.next
           /\ NextSet(L!Linked(l, n, m), l, n, m)
           /\ PrevSet(L!LinkedBack(l, n, m), l, n, m)
  BY DEF ListTyped, L!Linked, L!LinkedBack, NextSet, PrevSet

LEMMA NamesApart == ListHead \notin Node /\ Null \notin Node \union {ListHead}
  BY LibraryAssumption DEF L!ListAssumption

USE NamesApart

LEMMA AtNode ==
    ASSUME NEW s \in Seq(Node), NEW i \in Int
    PROVE  /\ At(s, i) \in L!Nodes
           /\ At(s, i) = ListHead <=> i \notin 1 .. Len(s)
  BY DEF At, L!Nodes

(* Of the places 0 to Len(s) the head is the first, and of 1 to Len(s) + 1  *)
(* the last; no two hold the same node.                                     *)
LEMMA AtInjective ==
    ASSUME NEW s \in Seq(Node), Distinct(s)
    PROVE  /\ \A i, j \in 0 .. Len(s) : At(s, i) = At(s, j) => i = j
           /\ \A i, j \in 1 .. Len(s) + 1 : At(s, i) = At(s, j) => i = j
<1>1. \A i \in 1 .. Len(s) : s[i] \in Node /\ s[i] # ListHead
  BY DEF L!Nodes
<1>. QED BY <1>1 DEF At, Distinct

LEMMA PutInKeeps ==
    ASSUME NEW l, NEW s, ListSound(l, s), Ring(l, s),
           NEW k \in 0 .. Len(s), NEW n \in Node, ~Among(n, s),
           NEW t, PutIn(t, s, k, n), NEW q, ListTyped(q),
           \A x \in L!Nodes : q.next[x] = IF x = At(s, k) THEN n
                                           ELSE IF x = n THEN At(s, k + 1) ELSE l.next[x],
           \A x \in L!Nodes : q.prev[x] = IF x = At(s, k + 1) THEN n
                                           ELSE IF x = n THEN At(s, k) ELSE l.prev[x]
    PROVE  ListSound(q, t) /\ Ring(q, t)
<1>. /\ ListTyped(l) /\ s \in Seq(Node) /\ Distinct(s) /\ Apart(l, s) /\ Len(s) \in Nat
     /\ n # ListHead /\ n \in L!Nodes
  BY DEF ListSound, L!Nodes
<1>1. /\ At(s, k) # n /\ At(s, k + 1) # n /\ At(s, k) \in L!Nodes /\ At(s, k + 1) \in L!Nodes
  BY DEF At, Among, L!Nodes
<1>2. \A i \in 0 .. Len(t) : At(t, i) = IF i <= k THEN At(s, i) ELSE IF i = k + 1 THEN n ELSE At(s, i - 1)
  BY DEF At, PutIn
<1>2a. \A i \in 0 .. Len(t) : At(t, i + 1) = IF i + 1 <= k THEN At(s, i + 1) ELSE IF i = k THEN n ELSE At(s, i)
  BY DEF At, PutIn
<1>3. Distinct(t)
  <2>0. Len(t) \in Nat
    BY DEF PutIn
  <2>. SUFFICES ASSUME NEW i \in 1 .. Len(t), NEW j \in 1 .. Len(t), i < j, t[i] = t[j]
                PROVE  FALSE
    <3>1. ASSUME \A i, j \in 1 .. Len(t) : i < j => t[i] # t[j]
          PROVE  Distinct(t)
      <4>. SUFFICES ASSUME NEW i \in 1 .. Len(t), NEW j \in 1 .. Len(t), t[i] = t[j] PROVE i = j
        BY DEF Distinct
      <4>1. ~(i < j) /\ ~(j < i)
        BY <3>1
      <4>. QED BY <4>1, <2>0
    <3>. QED BY <3>1
  <2>2. CASE j <= k
    BY <2>2 DEF PutIn, Distinct
  <2>3. CASE j = k + 1
    BY <2>3 DEF PutIn, Among
  <2>4. CASE j > k + 1
    <3>1. t[j] = s[j - 1] /\ j - 1 \in 1 .. Len(s)
      BY <2>4 DEF PutIn
    <3>2. CASE i <= k
      <4>1. t[i] = s[i] /\ i \in 1 .. Len(s) /\ i # j - 1
        BY <3>2, <2>4 DEF PutIn
      <4>. QED BY <3>1, <4>1 DEF Distinct
    <3>3. CASE i = k + 1
      BY <3>1, <3>3 DEF PutIn, Among
    <3>4. CASE i > k + 1
      <4>1. t[i] = s[i - 1] /\ i - 1 \in 1 .. Len(s)
        BY <3>4 DEF PutIn
      <4>2. i - 1 = j - 1
        BY <4>1, <3>1 DEF Distinct
      <4>3. i \in Int /\ j \in Int
        BY DEF PutIn
      <4>. QED BY <4>2, <4>3
    <3>. QED BY <3>2, <3>3, <3>4
  <2>. QED BY <2>2, <2>3, <2>4
<1>4. Apart(q, t)
  <2>. SUFFICES ASSUME NEW m \in Node, ~Among(m, t)
                PROVE  q.next[m] = q.prev[m] /\ q.next[m] \in {m, Null}
    BY DEF Apart
  <2>1. m # n
    <3>1. k + 1 \in 1 .. Len(t) /\ t[k + 1] = n
      BY DEF PutIn
    <3>. QED BY <3>1 DEF Among
  <2>2. ~Among(m, s)
    <3>. SUFFICES ASSUME NEW i \in 1 .. Len(s), s[i] = m PROVE FALSE
      BY DEF Among
    <3>1. CASE i <= k
      BY <3>1 DEF PutIn, Among
    <3>2. CASE i > k
      <4>1. i + 1 \in 1 .. Len(t) /\ t[i + 1] = s[i]
        BY <3>2 DEF PutIn
      <4>. QED BY <4>1 DEF Among
    <3>. QED BY <3>1, <3>2
  <2>3. m # At(s, k) /\ m # At(s, k + 1)
    BY <2>2 DEF At, Among
  <2>4. m \in L!Nodes
    BY DEF L!Nodes
  <2>. QED BY <1>1, <2>1, <2>2, <2>3, <2>4 DEF Apart, ListTyped
<1>5. Ring(q, t)
  <2>. SUFFICES ASSUME NEW i \in 0 .. Len(t)
                PROVE  q.next[At(t, i)] = At(t, i + 1) /\ q.prev[At(t, i + 1)] = At(t, i)
    BY DEF Ring
  <2>0. Len(t) = Len(s) + 1
    BY DEF PutIn
  <2>1. \A j \in 0 .. Len(s) : At(s, j) \in L!Nodes /\ At(s, j + 1) \in L!Nodes /\ At(s, j) # n /\ At(s, j + 1) # n
    BY DEF At, Among, L!Nodes
  <2>2. \A j \in 0 .. Len(s) : j # k => At(s, j) # At(s, k) /\ At(s, j + 1) # At(s, k + 1)
    BY AtInjective
  <2>3. CASE i < k
    <3>1. At(t, i) = At(s, i) /\ At(t, i + 1) = At(s, i + 1) /\ i \in 0 .. Len(s)
      BY <1>2, <1>2a, <2>3
    <3>. QED BY <3>1, <2>1, <2>2, <2>3, <1>1 DEF Ring, ListTyped
  <2>4. CASE i = k
    <3>1. At(t, i) = At(s, k) /\ At(t, i + 1) = n
      BY <1>2, <1>2a, <2>4
    <3>. QED BY <3>1, <1>1 DEF ListTyped
  <2>5. CASE i = k + 1
    <3>1. At(t, i) = n /\ At(t, i + 1) = At(s, k + 1)
      BY <1>2, <1>2a, <2>5
    <3>. QED BY <3>1, <1>1 DEF ListTyped
  <2>6. CASE i > k + 1
    <3>1. At(t, i) = At(s, i - 1) /\ At(t, i + 1) = At(s, i) /\ i - 1 \in 0 .. Len(s) /\ (i - 1) + 1 = i
      BY <1>2, <1>2a, <2>6, <2>0
    <3>2. l.next[At(s, i - 1)] = At(s, i) /\ l.prev[At(s, i)] = At(s, i - 1)
      BY <3>1 DEF Ring
    <3>3. At(s, i - 1) # At(s, k) /\ At(s, i) # At(s, k + 1) /\ At(s, i - 1) # n /\ At(s, i) # n
             /\ At(s, i) \in L!Nodes /\ At(s, i - 1) \in L!Nodes
      BY <3>1, <2>1, <2>2, <2>6
    <3>. QED BY <3>1, <3>2, <3>3, <1>1 DEF ListTyped
  <2>. QED BY <2>3, <2>4, <2>5, <2>6, <2>0
<1>. QED BY <1>3, <1>4, <1>5 DEF ListSound, PutIn

LEMMA TakenOutKeeps ==
    ASSUME NEW l, NEW s, ListSound(l, s), Ring(l, s), NEW k \in 1 .. Len(s),
           NEW t, TakenOut(t, s, k), NEW q, ListTyped(q),
           \A x \in L!Nodes : q.next[x] = IF x = s[k] THEN s[k]
                                           ELSE IF x = At(s, k - 1) THEN At(s, k + 1) ELSE l.next[x],
           \A x \in L!Nodes : q.prev[x] = IF x = s[k] THEN s[k]
                                           ELSE IF x = At(s, k + 1) THEN At(s, k - 1) ELSE l.prev[x]
    PROVE  ListSound(q, t) /\ Ring(q, t)
<1>. DEFINE n == s[k]
<1>. /\ ListTyped(l) /\ s \in Seq(Node) /\ Distinct(s) /\ Apart(l, s) /\ Len(s) \in Nat
     /\ n # ListHead /\ n \in L!Nodes /\ n \in Node
  BY DEF ListSound, L!Nodes
<1>1. /\ At(s, k - 1) # n /\ At(s, k + 1) # n /\ At(s, k - 1) \in L!Nodes /\ At(s, k + 1) \in L!Nodes
  BY DEF At, Distinct, L!Nodes
<1>2. \A i \in 0 .. Len(t) : At(t, i) = IF i < k THEN At(s, i) ELSE At(s, i + 1)
  BY DEF At, TakenOut
<1>2a. \A i \in 0 .. Len(t) : At(t, i + 1) = IF i + 1 < k THEN At(s, i + 1) ELSE At(s, i + 2)
  BY DEF At, TakenOut
<1>3. Distinct(t)
  BY DEF Distinct, TakenOut
<1>4. Apart(q, t)
  <2>. SUFFICES ASSUME NEW m \in Node, ~Among(m, t)
                PROVE  q.next[m] = q.prev[m] /\ q.next[m] \in {m, Null}
    BY DEF Apart
  <2>0. m \in L!Nodes
    BY DEF L!Nodes
  <2>1. CASE m = n
    BY <2>1, <2>0, <1>1 DEF ListTyped
  <2>2. CASE m # n
    <3>1. ~Among(m, s)
      <4>. SUFFICES ASSUME NEW i \in 1 .. Len(s), s[i] = m PROVE FALSE
        BY DEF Among
      <4>1. CASE i < k
        BY <4>1 DEF TakenOut, Among
      <4>2. CASE i > k
        <5>1. i - 1 \in 1 .. Len(t) /\ t[i - 1] = s[i]
          BY <4>2 DEF TakenOut
        <5>. QED BY <5>1 DEF Among
      <4>. QED BY <4>1, <4>2, <2>2
    <3>2. m # At(s, k - 1) /\ m # At(s, k + 1)
      BY <3>1 DEF At, Among
    <3>. QED BY <2>0, <2>2, <1>1, <3>1, <3>2 DEF Apart, ListTyped
  <2>. QED BY <2>1, <2>2
<1>5. Ring(q, t)
  <2>. SUFFICES ASSUME NEW i \in 0 .. Len(t)
                PROVE  q.next[At(t, i)] = At(t, i + 1) /\ q.prev[At(t, i + 1)] = At(t, i)
    BY DEF Ring
  <2>0. Len(t) = Len(s) - 1
    BY DEF TakenOut
  <2>1. \A j \in 0 .. Len(s) :
           /\ At(s, j) \in L!Nodes /\ At(s, j + 1) \in L!Nodes
           /\ j # k => At(s, j) # n
           /\ j + 1 # k => At(s, j + 1) # n
    BY DEF At, Distinct, L!Nodes
  <2>2. \A j \in 0 .. Len(s) :
           /\ j # k - 1 => At(s, j) # At(s, k - 1)
           /\ j # k => At(s, j + 1) # At(s, k + 1)
    BY AtInjective
  <2>3. CASE i + 1 < k
    <3>1. At(t, i) = At(s, i) /\ At(t, i + 1) = At(s, i + 1) /\ i \in 0 .. Len(s)
      BY <1>2, <1>2a, <2>3
    <3>. QED BY <3>1, <2>1, <2>2, <2>3, <1>1 DEF Ring, ListTyped
  <2>4. CASE i + 1 = k
    <3>1. At(t, i) = At(s, k - 1) /\ At(t, i + 1) = At(s, k + 1)
      <4>1. i = k - 1 /\ i + 2 = k + 1 /\ i + 1 = k
        BY <2>4
      <4>2. At(t, i) = At(s, k - 1)
        BY <4>1, <1>2
      <4>3. At(t, i + 1) = At(s, i + 2)
        BY <1>2a, <2>4
      <4>. QED BY <4>1, <4>2, <4>3
    <3>. QED BY <3>1, <1>1 DEF ListTyped
  <2>5. CASE i + 1 > k
    <3>1. At(t, i) = At(s, i + 1) /\ At(t, i + 1) = At(s, i + 2) /\ i + 1 \in 0 .. Len(s) /\ (i + 1) + 1 = i + 2
      BY <1>2, <1>2a, <2>5, <2>0
    <3>2. l.next[At(s, i + 1)] = At(s, i + 2) /\ l.prev[At(s, i + 2)] = At(s, i + 1)
      BY <3>1 DEF Ring
    <3>3. At(s, i + 1) # At(s, k - 1) /\ At(s, i + 2) # At(s, k + 1) /\ At(s, i + 1) # n /\ At(s, i + 2) # n
             /\ At(s, i + 1) \in L!Nodes /\ At(s, i + 2) \in L!Nodes
      BY <3>1, <2>1, <2>2, <2>5
    <3>. QED BY <3>1, <3>2, <3>3, <1>1 DEF ListTyped
  <2>. QED BY <2>3, <2>4, <2>5, <2>0
<1>. QED BY <1>3, <1>4, <1>5 DEF ListSound, TakenOut

LEMMA InsertAfterKeeps ==
    ASSUME NEW l, NEW s, ListSound(l, s), Ring(l, s),
           NEW k \in 0 .. Len(s), NEW n \in Node, ~Among(n, s),
           NEW t, PutIn(t, s, k, n)
    PROVE  LET q == L!InsertAfter(l, At(s, k), n) IN ListSound(q, t) /\ Ring(q, t)
<1>. DEFINE old == At(s, k)
            b == L!Linked(l, n, l.next[old])
            a == L!LinkedBack(b, n, old)
            u == L!Linked(a, old, n)
            q == L!LinkedBack(u, u.next[n], n)
<1>0. /\ ListTyped(l) /\ s \in Seq(Node) /\ n \in L!Nodes
      /\ old \in L!Nodes /\ At(s, k + 1) \in L!Nodes /\ old # n /\ At(s, k + 1) # n
  BY DEF ListSound, L!Nodes, At, Among
<1>1. l.next[old] = At(s, k + 1)
  BY DEF Ring
<1>2a. ListTyped(b) /\ NextSet(b, l, n, At(s, k + 1)) /\ b.prev = l.prev
  BY <1>0, <1>1, LinkedTyped DEF Linkable
<1>2. ListTyped(a) /\ PrevSet(a, b, n, old) /\ a.next = b.next
  BY <1>0, <1>2a, LinkedTyped DEF Linkable
<1>3. /\ ListTyped(u) /\ NextSet(u, a, old, n) /\ u.prev = a.prev
  BY <1>0, <1>2, LinkedTyped DEF Linkable
<1>4. u.next[n] = At(s, k + 1)
  BY <1>0, <1>2a, <1>2, <1>3 DEF ListTyped, NextSet, PrevSet
<1>5. /\ ListTyped(q) /\ q.next = u.next /\ PrevSet(q, u, At(s, k + 1), n)
  BY <1>0, <1>3, <1>4, LinkedTyped DEF Linkable
<1>6. ListSound(q, t) /\ Ring(q, t)
  <2>. HIDE DEF q, u, a, b
  <2>. QED BY <1>2a, <1>2, <1>3, <1>5, PutInKeeps DEF NextSet, PrevSet
<1>. QED BY <1>6 DEF L!InsertAfter

LEMMA InsertBeforeKeeps ==
    ASSUME NEW l, NEW s, ListSound(l, s), Ring(l, s),
           NEW k \in 0 .. Len(s), NEW n \in Node, ~Among(n, s),
           NEW t, PutIn(t, s, k, n)
    PROVE  LET q == L!InsertBefore(l, At(s, k + 1), n) IN ListSound(q, t) /\ Ring(q, t)
<1>. DEFINE old == At(s, k + 1)
            b == L!LinkedBack(l, n, l.prev[old])
            a == L!Linked(b, n, old)
            u == L!LinkedBack(a, old, n)
            q == L!Linked(u, u.prev[n], n)
<1>0. /\ ListTyped(l) /\ s \in Seq(Node) /\ n \in L!Nodes
      /\ old \in L!Nodes /\ At(s, k) \in L!Nodes /\ old # n /\ At(s, k) # n
  BY DEF ListSound, L!Nodes, At, Among
<1>1. l.prev[old] = At(s, k)
  BY DEF Ring
<1>2a. ListTyped(b) /\ PrevSet(b, l, n, At(s, k)) /\ b.next = l.next
  BY <1>0, <1>1, LinkedTyped DEF Linkable
<1>2. ListTyped(a) /\ NextSet(a, b, n, old) /\ a.prev = b.prev
  BY <1>0, <1>2a, LinkedTyped DEF Linkable
<1>3. /\ ListTyped(u) /\ PrevSet(u, a, old, n) /\ u.next = a.next
  BY <1>0, <1>2, LinkedTyped DEF Linkable
<1>4. u.prev[n] = At(s, k)
  BY <1>0, <1>2a, <1>2, <1>3 DEF ListTyped, NextSet, PrevSet
<1>4a. q = L!Linked(u, At(s, k), n)
  BY <1>4
<1>5. /\ ListTyped(q) /\ q.prev = u.prev /\ NextSet(q, u, At(s, k), n)
  <2>. HIDE DEF q, u
  <2>. QED BY <1>0, <1>3, <1>4a, LinkedTyped DEF Linkable
<1>6. ListSound(q, t) /\ Ring(q, t)
  <2>. HIDE DEF q, u, a, b
  <2>. QED BY <1>2a, <1>2, <1>3, <1>5, PutInKeeps DEF NextSet, PrevSet
<1>. QED BY <1>6 DEF L!InsertBefore

LEMMA UnlinkKeeps ==
    ASSUME NEW l, NEW s, ListSound(l, s), Ring(l, s),
           NEW k \in 1 .. Len(s), NEW t, TakenOut(t, s, k)
    PROVE  LET q == L!Unlink(l, s[k]) IN ListSound(q, t) /\ Ring(q, t)
<1>. DEFINE n == s[k]
            a == L!LinkedBack(l, l.next[n], l.prev[n])
            u == L!Linked(a, a.prev[n], a.next[n])
            v == L!Linked(u, n, n)
            q == L!LinkedBack(v, n, n)
<1>0. /\ ListTyped(l) /\ s \in Seq(Node) /\ n \in L!Nodes /\ Len(s) \in Nat
      /\ At(s, k - 1) \in L!Nodes /\ At(s, k + 1) \in L!Nodes
      /\ At(s, k - 1) # n /\ At(s, k + 1) # n /\ At(s, k + 1) # Null
  BY DEF ListSound, L!Nodes, At, Distinct
<1>1. l.next[n] = At(s, k + 1) /\ l.prev[n] = At(s, k - 1)
  <2>1. At(s, k) = n /\ k \in 0 .. Len(s) /\ k - 1 \in 0 .. Len(s) /\ (k - 1) + 1 = k
    BY <1>0 DEF At
  <2>. QED BY <2>1 DEF Ring
<1>2. /\ ListTyped(a) /\ a.next = l.next
      /\ PrevSet(a, l, At(s, k + 1), At(s, k - 1))
  BY <1>0, <1>1, LinkedTyped DEF Linkable
<1>3. a.prev[n] = At(s, k - 1) /\ a.next[n] = At(s, k + 1)
  BY <1>0, <1>1, <1>2 DEF ListTyped, NextSet, PrevSet
<1>3a. u = L!Linked(a, At(s, k - 1), At(s, k + 1))
  BY <1>3
<1>4. ListTyped(u) /\ NextSet(u, a, At(s, k - 1), At(s, k + 1)) /\ u.prev = a.prev
  <2>. HIDE DEF u, a
  <2>. QED BY <1>0, <1>2, <1>3a, LinkedTyped, Zenon DEF Linkable
<1>5. /\ ListTyped(v) /\ NextSet(v, u, n, n) /\ v.prev = u.prev
  <2>. HIDE DEF u, a
  <2>. QED BY ONLY <1>0, <1>4, LinkedTyped DEF Linkable, v
<1>6. /\ ListTyped(q) /\ q.next = v.next /\ PrevSet(q, v, n, n)
  <2>. HIDE DEF v, u, a
  <2>. QED BY ONLY <1>0, <1>5, LinkedTyped DEF Linkable, q
<1>7. ListSound(q, t) /\ Ring(q, t)
  <2>. HIDE DEF q, u, a, v
  <2>. QED BY <1>2, <1>4, <1>5, <1>6, TakenOutKeeps DEF NextSet, PrevSet
<1>8. L!Unlink(l, n) = q
  BY <1>0, <1>1 DEF L!Unlink, L!Alone
<1>. QED BY <1>7, <1>8

(* A node in no list is initialized or cleared.                             *)
LEMMA LooseKeeps ==
    ASSUME NEW l, NEW s, ListSound(l, s), NEW n \in L!Nodes, NEW m \in {n, Null},
           ~Among(n, s), n = ListHead => s = <<>>, NEW q, ListTyped(q),
           NextSet(q, l, n, m),
           PrevSet(q, l, n, m)
    PROVE  ListSound(q, s)
<1>. /\ ListTyped(l) /\ s \in Seq(Node) /\ Distinct(s) /\ Apart(l, s) /\ Len(s) \in Nat
  BY DEF ListSound
<1>1. Apart(q, s)
  BY DEF Apart, ListTyped, L!Nodes, NextSet, PrevSet
<1>2. CASE n = ListHead
  <2>1. s = <<>> /\ \A i \in 0 .. Len(s) : At(s, i) = ListHead /\ At(s, i + 1) = ListHead
    BY <1>2 DEF At
  <2>3. CASE m = Null
    BY <2>1, <2>3, <1>1, <1>2 DEF ListTyped, L!Nodes, ListSound, Unready, NextSet, PrevSet
  <2>4. m = n => Ring(q, s)
    BY <2>1, <1>2 DEF Ring, ListTyped, NextSet, PrevSet, L!Nodes
  <2>. QED BY <2>3, <2>4, <1>1 DEF ListSound
<1>3. CASE n # ListHead
  <2>1. \A i \in 0 .. Len(s) : At(s, i) # n /\ At(s, i + 1) # n /\ At(s, i) \in L!Nodes /\ At(s, i + 1) \in L!Nodes
    BY <1>3 DEF At, Among, L!Nodes
  <2>2. Ring(l, s) => Ring(q, s)
    BY <2>1 DEF Ring, ListTyped, NextSet, PrevSet
  <2>3. Unready(l, s) => Unready(q, s)
    BY <1>3 DEF Unready, ListTyped, L!Nodes, NextSet, PrevSet
  <2>. QED BY <2>2, <2>3, <1>1 DEF ListSound
<1>. QED BY <1>2, <1>3

LEMMA PutInSeq ==
    ASSUME NEW s \in Seq(Node), NEW n \in Node
    PROVE  /\ \A k \in 0 .. Len(s) :
                  PutIn(SubSeq(s, 1, k) \o <<n>> \o SubSeq(s, k + 1, Len(s)), s, k, n)
           /\ PutIn(<<n>> \o s, s, 0, n)
           /\ PutIn(Append(s, n), s, Len(s), n)
<1>. Len(s) \in Nat /\ \A i \in 1 .. Len(s) : s[i] \in Node
  OBVIOUS
<1>1. ASSUME NEW k \in 0 .. Len(s)
      PROVE  PutIn(SubSeq(s, 1, k) \o <<n>> \o SubSeq(s, k + 1, Len(s)), s, k, n)
  <2>. DEFINE a == SubSeq(s, 1, k)
              b == SubSeq(s, k + 1, Len(s))
              c == a \o <<n>>
              t == c \o b
  <2>1. a \in Seq(Node) /\ Len(a) = k /\ \A j \in 1 .. k : a[j] = s[j]
    BY SubSeqProperties
  <2>2. b \in Seq(Node) /\ Len(b) = Len(s) - k /\ \A j \in 1 .. Len(s) - k : b[j] = s[k + 1 + j - 1]
    BY SubSeqProperties
  <2>3. /\ c \in Seq(Node) /\ Len(c) = k + 1
        /\ \A j \in 1 .. k + 1 : c[j] = IF j <= k THEN s[j] ELSE n
    <3>. HIDE DEF a
    <3>. QED BY <2>1
  <2>4. /\ t \in Seq(Node) /\ Len(t) = Len(c) + Len(b)
        /\ \A j \in 1 .. Len(c) + Len(b) : t[j] = IF j <= Len(c) THEN c[j] ELSE b[j - Len(c)]
    <3>. HIDE DEF c, b
    <3>. QED BY <2>2, <2>3, ConcatProperties
  <2>5. ASSUME NEW j \in 1 .. Len(t)
        PROVE  t[j] = IF j <= k THEN s[j] ELSE IF j = k + 1 THEN n ELSE s[j - 1]
    <3>. HIDE DEF a, b, c, t
    <3>1. CASE j <= k + 1
      BY <2>2, <2>3, <2>4, <3>1
    <3>2. CASE j > k + 1
      <4>1. j - (k + 1) \in 1 .. Len(s) - k /\ k + 1 + (j - (k + 1)) - 1 = j - 1
        BY <2>2, <2>3, <2>4, <3>2
      <4>2. t[j] = b[j - (k + 1)]
        BY <2>2, <2>3, <2>4, <3>2
      <4>. QED BY <2>2, <4>1, <4>2, <3>2
    <3>. QED BY <3>1, <3>2, <2>2, <2>3, <2>4
  <2>6. Len(t) = Len(s) + 1
    <3>. HIDE DEF a, b, c, t
    <3>. QED BY <2>2, <2>3, <2>4
  <2>7. PutIn(t, s, k, n)
    <3>. HIDE DEF a, b, c, t
    <3>. QED BY <2>4, <2>5, <2>6 DEF PutIn
  <2>. QED BY <2>7
<1>2. PutIn(<<n>> \o s, s, 0, n)
  BY DEF PutIn
<1>3. PutIn(Append(s, n), s, Len(s), n)
  BY DEF PutIn
<1>. QED BY <1>1, <1>2, <1>3

LEMMA TakenOutSeq ==
    ASSUME NEW s \in Seq(Node), s # <<>>
    PROVE  /\ \A k \in 1 .. Len(s) :
                  TakenOut(SubSeq(s, 1, k - 1) \o SubSeq(s, k + 1, Len(s)), s, k)
           /\ TakenOut(Tail(s), s, 1)
           /\ TakenOut(SubSeq(s, 1, Len(s) - 1), s, Len(s))
<1>. Len(s) \in Nat \ {0} /\ \A i \in 1 .. Len(s) : s[i] \in Node
  OBVIOUS
<1>1. ASSUME NEW k \in 1 .. Len(s)
      PROVE  TakenOut(SubSeq(s, 1, k - 1) \o SubSeq(s, k + 1, Len(s)), s, k)
  <2>. DEFINE a == SubSeq(s, 1, k - 1)
              b == SubSeq(s, k + 1, Len(s))
              t == a \o b
  <2>1. a \in Seq(Node) /\ Len(a) = k - 1 /\ \A j \in 1 .. k - 1 : a[j] = s[j]
    BY SubSeqProperties
  <2>2. b \in Seq(Node) /\ Len(b) = Len(s) - k /\ \A j \in 1 .. Len(s) - k : b[j] = s[k + 1 + j - 1]
    BY SubSeqProperties
  <2>4. /\ t \in Seq(Node) /\ Len(t) = Len(a) + Len(b)
        /\ \A j \in 1 .. Len(a) + Len(b) : t[j] = IF j <= Len(a) THEN a[j] ELSE b[j - Len(a)]
    <3>. HIDE DEF a, b
    <3>. QED BY ONLY <2>1, <2>2, ConcatProperties
  <2>5. ASSUME NEW j \in 1 .. Len(t)
        PROVE  t[j] = IF j < k THEN s[j] ELSE s[j + 1]
    <3>. HIDE DEF a, b, t
    <3>1. CASE j < k
      BY <2>1, <2>2, <2>4, <3>1
    <3>2. CASE j >= k
      <4>1. j - (k - 1) \in 1 .. Len(s) - k /\ k + 1 + (j - (k - 1)) - 1 = j + 1
        BY <2>1, <2>2, <2>4, <3>2
      <4>2. t[j] = b[j - (k - 1)]
        BY <2>1, <2>2, <2>4, <3>2
      <4>. QED BY <2>2, <4>1, <4>2, <3>2
    <3>. QED BY <3>1, <3>2, <2>1, <2>2, <2>4
  <2>6. Len(t) = Len(s) - 1
    <3>. HIDE DEF a, b, t
    <3>. QED BY <2>1, <2>2, <2>4
  <2>7. TakenOut(t, s, k)
    <3>. HIDE DEF a, b, t
    <3>. QED BY <2>4, <2>5, <2>6 DEF TakenOut
  <2>. QED BY <2>7
<1>2. TakenOut(Tail(s), s, 1)
  BY DEF TakenOut
<1>3. TakenOut(SubSeq(s, 1, Len(s) - 1), s, Len(s))
  <2>. DEFINE a == SubSeq(s, 1, Len(s) - 1)
  <2>0. Len(s) - 1 \in Int /\ \A i \in 1 .. Len(s) - 1 : s[i] \in Node
    OBVIOUS
  <2>1. a \in Seq(Node) /\ Len(a) = Len(s) - 1 /\ \A j \in 1 .. Len(s) - 1 : a[j] = s[1 + j - 1]
    <3>1. \A j \in 1 .. (Len(s) - 1) - 1 + 1 : a[j] = s[1 + j - 1]
      BY <2>0, SubSeqProperties
    <3>2. a \in Seq(Node) /\ Len(a) = IF 1 <= Len(s) - 1 THEN (Len(s) - 1) - 1 + 1 ELSE 0
      BY <2>0, SubSeqProperties
    <3>. HIDE DEF a
    <3>3. Len(a) = Len(s) - 1
      BY <3>2
    <3>4. \A j \in 1 .. Len(s) - 1 : a[j] = s[1 + j - 1]
      BY <3>1
    <3>. QED BY <3>2, <3>3, <3>4
  <2>. HIDE DEF a
  <2>2. TakenOut(a, s, Len(s))
    BY <2>1 DEF TakenOut
  <2>. QED BY <2>2 DEF a
<1>. QED BY <1>1, <1>2, <1>3

LEMMA ListStarts == L!ListInit => ListSound(list, order)
  BY DEF L!ListInit, ListSound, ListTyped, Distinct, Apart, Unready, Linkable, L!Nodes

LEMMA ListKeeps ==
    ASSUME ListSound(list, order), L!ListNext
    PROVE  ListSound(list', order')
<1>. /\ ListTyped(list) /\ order \in Seq(Node) /\ Len(order) \in Nat
  BY DEF ListSound
<1>0. \A n : n \in L!Listed <=> Among(n, order)
  BY DEF L!Listed, Among
<1>1. \A n \in L!Nodes : L!Loose(n) => ~Among(n, order) /\ (n = ListHead => order = <<>>)
  BY <1>0 DEF L!Loose
<1>2. (L!Ready \/ order # <<>>) => Ring(list, order)
  BY DEF ListSound, Unready, L!Ready
<1>3. ASSUME NEW n \in L!Nodes, L!Initialize(n) PROVE ListSound(list', order')
  <2>. DEFINE a == L!Linked(list, n, n)
              q == L!LinkedBack(a, n, n)
  <2>1. ListTyped(a) /\ NextSet(a, list, n, n) /\ a.prev = list.prev
    BY LinkedTyped DEF Linkable
  <2>2. ListTyped(q) /\ PrevSet(q, a, n, n) /\ q.next = a.next
    BY <2>1, LinkedTyped DEF Linkable
  <2>3. list' = q /\ order' = order /\ L!Loose(n)
    BY <1>3 DEF L!Initialize, L!Alone
  <2>. HIDE DEF q, a
  <2>. QED BY <1>1, <2>1, <2>2, <2>3, LooseKeeps DEF NextSet, PrevSet
<1>4. ASSUME NEW n \in L!Nodes, L!Terminate(n) PROVE ListSound(list', order')
  <2>. DEFINE a == L!Linked(list, n, Null)
              q == L!LinkedBack(a, n, Null)
  <2>1. ListTyped(a) /\ NextSet(a, list, n, Null) /\ a.prev = list.prev
    BY LinkedTyped DEF Linkable
  <2>2. ListTyped(q) /\ PrevSet(q, a, n, Null) /\ q.next = a.next
    BY <2>1, LinkedTyped DEF Linkable
  <2>3. list' = q /\ order' = order /\ L!Loose(n)
    BY <1>4 DEF L!Terminate, L!Unset
  <2>. HIDE DEF q, a
  <2>. QED BY <1>1, <2>1, <2>2, <2>3, LooseKeeps DEF NextSet, PrevSet
<1>5. ASSUME NEW n \in L!Nodes, L!Remove(n) PROVE ListSound(list', order')
  <2>1. CASE ~Among(n, order)
    <3>1. order' = order
      BY <1>0, <1>5, <2>1 DEF L!Remove
    <3>2. list.next[n] \in {Null, n}
      <4>1. CASE n = ListHead
        <5>1. order = <<>>
          BY <1>5, <4>1 DEF L!Remove
        <5>. QED BY <5>1, <4>1 DEF ListSound, Unready, Ring, At
      <4>2. CASE n # ListHead
        BY <2>1, <4>2 DEF ListSound, Apart, L!Nodes
      <4>. QED BY <4>1, <4>2
    <3>3. list' = list
      BY <1>5, <3>2 DEF L!Remove, L!Unlink
    <3>. QED BY <3>1, <3>3
  <2>2. CASE Among(n, order)
    <3>. DEFINE i == CHOOSE i \in 1 .. Len(order) : order[i] = n
    <3>1. i \in 1 .. Len(order) /\ order[i] = n
      BY <2>2 DEF Among
    <3>2. order' = SubSeq(order, 1, i - 1) \o SubSeq(order, i + 1, Len(order))
      BY <1>0, <1>5, <2>2 DEF L!Remove
    <3>3. list' = L!Unlink(list, order[i])
      BY <1>5, <3>1 DEF L!Remove
    <3>. HIDE DEF i
    <3>4. order # <<>>
      BY <3>1
    <3>5. TakenOut(order', order, i)
      BY <3>1, <3>2, <3>4, TakenOutSeq
    <3>. QED BY <1>2, <3>1, <3>3, <3>4, <3>5, UnlinkKeeps
  <2>. QED BY <2>1, <2>2
<1>6. ASSUME NEW n \in Node, L!AddFirst(n) PROVE ListSound(list', order')
  <2>1. list' = L!InsertAfter(list, At(order, 0), n) /\ PutIn(order', order, 0, n)
    BY <1>6, PutInSeq DEF L!AddFirst, L!InsertFirst, At
  <2>2. ~Among(n, order) /\ Ring(list, order)
    BY <1>6, <1>0, <1>2 DEF L!AddFirst
  <2>. QED BY <2>1, <2>2, InsertAfterKeeps
<1>7. ASSUME NEW n \in Node, L!AddLast(n) PROVE ListSound(list', order')
  <2>0. At(order, Len(order) + 1) = ListHead /\ Len(order) \in 0 .. Len(order)
    BY DEF At
  <2>1. list' = L!InsertBefore(list, At(order, Len(order) + 1), n)
    BY <1>7, <2>0 DEF L!AddLast, L!InsertLast
  <2>3. PutIn(order', order, Len(order), n)
    BY <1>7, PutInSeq DEF L!AddLast
  <2>2. ~Among(n, order) /\ Ring(list, order)
    BY <1>7, <1>0, <1>2 DEF L!AddLast
  <2>. QED BY <2>0, <2>1, <2>2, <2>3, InsertBeforeKeeps
<1>8. ASSUME NEW n \in Node, NEW i \in 1 .. Len(order), L!AddAfter(i, n)
      PROVE  ListSound(list', order')
  <2>1. list' = L!InsertAfter(list, At(order, i), n) /\ PutIn(order', order, i, n)
    BY <1>8, PutInSeq DEF L!AddAfter, At
  <2>2. ~Among(n, order) /\ Ring(list, order)
    BY <1>8, <1>0, <1>2 DEF L!AddAfter
  <2>. QED BY <2>1, <2>2, InsertAfterKeeps
<1>9. ASSUME NEW n \in Node, NEW i \in 1 .. Len(order), L!AddBefore(i, n)
      PROVE  ListSound(list', order')
  <2>0. i - 1 \in 0 .. Len(order) /\ (i - 1) + 1 = i
    OBVIOUS
  <2>1. list' = L!InsertBefore(list, At(order, i), n)
    BY <1>9 DEF L!AddBefore, At
  <2>2. PutIn(order', order, i - 1, n)
    BY <1>9, <2>0, PutInSeq DEF L!AddBefore
  <2>3. ~Among(n, order) /\ Ring(list, order)
    BY <1>9, <1>0, <1>2 DEF L!AddBefore
  <2>. QED BY <2>0, <2>1, <2>2, <2>3, InsertBeforeKeeps
<1>10. CASE L!TakeFirst
  <2>1. CASE order = <<>>
    <3>1. L!First(list) = Null
      BY <1>2, <1>10, <2>1 DEF L!TakeFirst, Ring, At, L!First
    <3>. QED BY <3>1, <1>10, <2>1 DEF L!TakeFirst, L!RemoveFirst
  <2>2. CASE order # <<>>
    <3>0. 0 \in 0 .. Len(order) /\ 1 \in 1 .. Len(order) /\ At(order, 0) = ListHead /\ At(order, 0 + 1) = order[1]
      BY <2>2 DEF At
    <3>1. L!First(list) = order[1] /\ order[1] # Null
      BY <1>2, <2>2, <3>0 DEF Ring, L!First
    <3>2. list' = L!Unlink(list, order[1]) /\ TakenOut(order', order, 1)
      BY <3>1, <1>10, <2>2, TakenOutSeq DEF L!TakeFirst, L!RemoveFirst
    <3>. QED BY <3>0, <3>2, <1>2, <2>2, UnlinkKeeps
  <2>. QED BY <2>1, <2>2
<1>11. CASE L!TakeLast
  <2>1. CASE order = <<>>
    <3>1. L!Last(list) = Null
      BY <1>2, <1>11, <2>1 DEF L!TakeLast, Ring, At, L!Last
    <3>. QED BY <3>1, <1>11, <2>1 DEF L!TakeLast, L!RemoveLast
  <2>2. CASE order # <<>>
    <3>0. /\ Len(order) \in 0 .. Len(order) /\ Len(order) \in 1 .. Len(order)
          /\ At(order, Len(order)) = order[Len(order)] /\ At(order, Len(order) + 1) = ListHead
      BY <2>2 DEF At
    <3>1. L!Last(list) = order[Len(order)] /\ order[Len(order)] # Null
      BY <1>2, <2>2, <3>0 DEF Ring, L!Last
    <3>2. list' = L!Unlink(list, order[Len(order)]) /\ TakenOut(order', order, Len(order))
      BY <3>1, <1>11, <2>2, TakenOutSeq DEF L!TakeLast, L!RemoveLast
    <3>. QED BY <3>0, <3>2, <1>2, <2>2, UnlinkKeeps
  <2>. QED BY <2>1, <2>2
<1>. QED BY <1>3, <1>4, <1>5, <1>6, <1>7, <1>8, <1>9, <1>10, <1>11 DEF L!ListNext

LEMMA ListSoundTrue == ListSound(list, order) => L!ListTrue
<1>. SUFFICES ASSUME ListSound(list, order) PROVE L!ListTrue
  OBVIOUS
<1>. /\ ListTyped(list) /\ order \in Seq(Node) /\ Len(order) \in Nat /\ Distinct(order)
     /\ Apart(list, order)
  BY DEF ListSound
<1>0. \A n : n \in L!Listed <=> Among(n, order)
  BY DEF L!Listed, Among
<1>1. \A m \in Node : ~Among(m, order) => list.next[m] = list.prev[m] /\ list.next[m] \in {m, Null}
  BY DEF Apart
<1>2. CASE Unready(list, order)
  <2>1. \A m \in Node : ~Among(m, order)
    BY <1>2 DEF Unready, Among
  <2>2. L!RingTrue
    BY <1>1, <1>2, <2>1 DEF L!RingTrue, L!Nodes, Unready
  <2>. QED BY <1>0, <1>1, <1>2, <2>1, <2>2 DEF L!ListTrue, L!Ready, Unready
<1>3. CASE Ring(list, order)
  <2>1. \A i \in 0 .. Len(order) : At(order, i) \in L!Nodes /\ At(order, i + 1) \in L!Nodes
    BY AtNode
  <2>2. ASSUME NEW n \in L!Nodes
        PROVE  /\ list.next[n] = Null <=> list.prev[n] = Null
               /\ list.next[n] # Null => /\ list.prev[list.next[n]] = n
                                         /\ list.next[list.prev[n]] = n
    <3>1. CASE \E i \in 0 .. Len(order) : n = At(order, i)
      <4>1. PICK i \in 0 .. Len(order) : n = At(order, i)
        BY <3>1
      <4>2. PICK j \in 0 .. Len(order) : n = At(order, j + 1)
        <5>1. CASE i = 0
          <6>1. Len(order) \in 0 .. Len(order) /\ n = At(order, Len(order) + 1)
            BY <4>1, <5>1 DEF At
          <6>. QED BY <6>1
        <5>2. CASE i # 0
          <6>1. i - 1 \in 0 .. Len(order) /\ (i - 1) + 1 = i
            BY <5>2
          <6>. QED BY <6>1, <4>1
        <5>. QED BY <5>1, <5>2
      <4>3. /\ list.next[n] = At(order, i + 1) /\ list.prev[At(order, i + 1)] = n
        BY <1>3, <4>1 DEF Ring
      <4>4. /\ list.prev[n] = At(order, j) /\ list.next[At(order, j)] = n
        BY <1>3, <4>2 DEF Ring
      <4>5. At(order, i + 1) # Null /\ At(order, j) # Null
        BY <2>1 DEF L!Nodes
      <4>. QED BY <4>3, <4>4, <4>5
    <3>2. CASE ~\E i \in 0 .. Len(order) : n = At(order, i)
      <4>1. n # ListHead /\ ~Among(n, order)
        BY <3>2 DEF At, Among
      <4>. QED BY <4>1, <1>1 DEF L!Nodes
    <3>. QED BY <3>1, <3>2
  <2>3. L!RingTrue
    BY <2>2 DEF L!RingTrue
  <2>4. \A i \in 0 .. Len(order) : list.next[At(order, i)] = At(order, i + 1)
    BY <1>3 DEF Ring
  <2>5. /\ At(order, 0) = ListHead /\ At(order, Len(order) + 1) = ListHead
        /\ list.next[ListHead] = At(order, 1) /\ list.prev[ListHead] = At(order, Len(order))
    <3>1. At(order, 0) = ListHead /\ At(order, Len(order) + 1) = ListHead
      BY DEF At
    <3>2. 0 \in 0 .. Len(order) /\ Len(order) \in 0 .. Len(order) /\ 0 + 1 = 1
      OBVIOUS
    <3>. QED BY <3>1, <3>2, <1>3 DEF Ring
  <2>6. L!Ready
    BY <2>5, AtNode DEF L!Ready, L!Nodes
  <2>7. /\ L!IsEmpty(list) <=> order = <<>>
        /\ L!First(list) = IF order = <<>> THEN Null ELSE order[1]
        /\ L!Last(list) = IF order = <<>> THEN Null ELSE order[Len(order)]
    BY <2>5 DEF L!IsEmpty, L!First, L!Last, At
  <2>. QED BY <1>0, <1>1, <2>3, <2>4, <2>6, <2>7 DEF L!ListTrue, At
<1>. QED BY <1>2, <1>3 DEF ListSound

-----------------------------------------------------------------------------
(* Memory pools.                                                            *)
Objects == Nat \X Nat

PoolTyped(q) ==
    /\ DOMAIN q = {"cookie", "incr", "current", "chunks", "room", "free", "virgin", "left"}
    /\ q.cookie \in {"static", "uninitialized", "initialized"}
    /\ q.incr \in Nat /\ q.current \in Nat /\ q.room \in Nat
    /\ q.chunks \in Seq(Nat \ {0}) /\ q.free \in Seq(Objects)
    /\ q.virgin \in Nat /\ q.left \in Nat

\* How many objects of the k-th chunk have been handed out.
Used(q, k) == IF k = Len(q.chunks) THEN q.virgin - 1 ELSE q.chunks[k]

HandedOut(q, o) == o[1] \in 1 .. Len(q.chunks) /\ o[2] \in 1 .. Used(q, o[1])

InFree(o, f) == \E i \in 1 .. Len(f) : f[i] = o

\* T are the objects of the pool q that the program has.
PoolSound(q, T) ==
    /\ PoolTyped(q) /\ T \subseteq Objects
    /\ q.cookie = "initialized" => q.incr # 0
    /\ q.cookie # "initialized" => q.chunks = <<>> /\ q.room = 0
    /\ q.cookie = "static" => q = Pool!StaticPool
    /\ Len(q.chunks) <= q.room
    /\ q.chunks = <<>> => q.left = 0
    /\ q.chunks # <<>> => q.virgin # 0 /\ q.virgin - 1 + q.left = q.chunks[Len(q.chunks)]
    /\ \A i, j \in 1 .. Len(q.free) : q.free[i] = q.free[j] => i = j
    /\ \A o \in T : ~InFree(o, q.free)
    /\ \A o \in Objects : o \in T \/ InFree(o, q.free) <=> HandedOut(q, o)

LEMMA Sizes ==
    /\ ObjectSize \in Nat \ {0} /\ PageSize \in Nat \ {0} /\ Requested \in Nat \ {0}
    /\ GrowthLimit \in Nat /\ ListSize \in Nat \ {0}
  BY LibraryAssumption

LEMMA RoundedUp ==
    ASSUME NEW x \in Nat, NEW y \in Nat \ {0}
    PROVE  /\ (x + y - 1) \div y \in Nat
           /\ ((x + y - 1) \div y) * y >= x
  OBVIOUS

LEMMA PagesSuffice ==
    ASSUME NEW n \in Nat
    PROVE  /\ Pool!Pages(n) \in Nat
           /\ Pool!Pages(n) * PageSize >= n * ObjectSize
<1>1. n * ObjectSize \in Nat
  BY Sizes
<1>. QED BY <1>1, Sizes, RoundedUp DEF Pool!Pages

LEMMA FitsOne == Pool!Fits(Pool!Pages(Requested)) \in Nat \ {0}
<1>. DEFINE x == Pool!Pages(Requested) * PageSize
<1>1. x \in Nat /\ x >= Requested * ObjectSize /\ Requested * ObjectSize >= ObjectSize
  BY Sizes, PagesSuffice
<1>2. x \in Nat /\ x >= ObjectSize
  BY <1>1, Sizes
<1>. HIDE DEF x
<1>3. x \div ObjectSize \in Nat \ {0}
  BY <1>2, Sizes
<1>. QED BY <1>3 DEF x, Pool!Fits

(* Empty pools, before their first use and after the last.                  *)
LEMMA EmptySound ==
    PoolSound(Pool!StaticPool, {}) /\ PoolSound(Pool!Terminated, {}) /\ PoolSound(Pool!Initialized, {})
<1>1. PoolTyped(Pool!StaticPool)
  BY DEF PoolTyped, Pool!StaticPool
<1>2. PoolTyped(Pool!Terminated)
  BY DEF PoolTyped, Pool!StaticPool, Pool!Terminated
<1>3. PoolTyped(Pool!Initialized)
  BY Sizes, FitsOne DEF PoolTyped, Pool!StaticPool, Pool!Terminated, Pool!Initialized
<1>4. \A q : q.chunks = <<>> /\ q.free = <<>> =>
          \A o \in Objects : ~InFree(o, q.free) /\ ~HandedOut(q, o)
  BY DEF InFree, HandedOut
<1>5. PoolSound(Pool!StaticPool, {})
  BY <1>1, <1>4 DEF PoolSound, Pool!StaticPool
<1>6. PoolSound(Pool!Terminated, {})
  BY <1>2, <1>4 DEF PoolSound, Pool!StaticPool, Pool!Terminated
<1>7. PoolSound(Pool!Initialized, {})
  <2>1. /\ Pool!Initialized.cookie = "initialized" /\ Pool!Initialized.chunks = <<>>
        /\ Pool!Initialized.free = <<>> /\ Pool!Initialized.left = 0
        /\ Pool!Initialized.incr # 0
    BY FitsOne DEF Pool!StaticPool, Pool!Terminated, Pool!Initialized
  <2>. QED BY <1>3, <1>4, <2>1 DEF PoolSound, PoolTyped
<1>. QED BY <1>5, <1>6, <1>7

LEMMA CarvedSound ==
    ASSUME NEW q, NEW T, PoolSound(q, T), q.left # 0
    PROVE  PoolSound(Pool!Carved(q), T \union {Pool!NextVirgin(q)})
<1>. DEFINE r == Pool!Carved(q)
            x == Pool!NextVirgin(q)
            c == Len(q.chunks)
<1>1. /\ PoolTyped(q) /\ T \subseteq Objects /\ c \in Nat /\ q.chunks # <<>> /\ c # 0
      /\ q.left \in Nat /\ q.virgin \in Nat /\ q.chunks[c] \in Nat
      /\ q.virgin # 0 /\ q.virgin - 1 + q.left = q.chunks[c]
      /\ q.cookie = "initialized"
  BY DEF PoolSound, PoolTyped, Pool!StaticPool
<1>2. /\ PoolTyped(r) /\ r.chunks = q.chunks /\ r.free = q.free /\ r.virgin = q.virgin + 1
      /\ r.left = q.left - 1 /\ r.cookie = q.cookie /\ r.incr = q.incr /\ r.room = q.room
  BY <1>1 DEF PoolTyped, Pool!Carved
<1>3. x \in Objects /\ x = <<c, q.virgin>> /\ x[1] = c /\ x[2] = q.virgin
  BY <1>1 DEF Pool!NextVirgin, Objects
<1>4. \A o \in Objects : HandedOut(r, o) <=> HandedOut(q, o) \/ o = x
  <2>. SUFFICES ASSUME NEW a \in Nat, NEW b \in Nat
                PROVE  HandedOut(r, <<a, b>>) <=> HandedOut(q, <<a, b>>) \/ <<a, b>> = x
    BY DEF Objects
  <2>1. CASE a = c
    BY <1>1, <1>2, <1>3, <2>1 DEF HandedOut, Used
  <2>2. CASE a # c
    BY <1>1, <1>2, <1>3, <2>2 DEF HandedOut, Used
  <2>. QED BY <2>1, <2>2
<1>5. ~HandedOut(q, x)
  BY <1>1, <1>3 DEF HandedOut, Used
<1>6. x \notin T /\ ~InFree(x, q.free)
  BY <1>3, <1>5 DEF PoolSound
<1>7. r.virgin # 0 /\ r.virgin - 1 + r.left = r.chunks[Len(r.chunks)]
  BY <1>1, <1>2
<1>. HIDE DEF r, x, c
<1>8. \A o \in T \union {x} : ~InFree(o, r.free)
  BY <1>2, <1>6 DEF PoolSound
<1>9. \A o \in Objects : o \in T \union {x} \/ InFree(o, r.free) <=> HandedOut(r, o)
  BY <1>2, <1>4 DEF PoolSound
<1>10. /\ r.incr # 0 /\ Len(r.chunks) <= r.room
       /\ \A i, j \in 1 .. Len(r.free) : r.free[i] = r.free[j] => i = j
  BY <1>1, <1>2 DEF PoolSound
<1>11. T \union {x} \subseteq Objects /\ PoolTyped(r) /\ r.cookie = "initialized" /\ r.chunks # <<>>
  BY <1>1, <1>2, <1>3
<1>12. /\ r.cookie = "initialized" => r.incr # 0
       /\ r.cookie # "initialized" => r.chunks = <<>> /\ r.room = 0
       /\ r.cookie = "static" => r = Pool!StaticPool
       /\ r.chunks = <<>> => r.left = 0
       /\ r.chunks # <<>> => r.virgin # 0 /\ r.virgin - 1 + r.left = r.chunks[Len(r.chunks)]
  BY <1>7, <1>10, <1>11
<1>. QED
  <2>. SUFFICES PoolSound(r, T \union {x})
    BY DEF r, x
  <2>. QED BY ONLY <1>8, <1>9, <1>10, <1>11, <1>12 DEF PoolSound

LEMMA ExpandedSound ==
    ASSUME NEW q, NEW T, PoolSound(q, T), q.cookie # "uninitialized", q.left = 0
    PROVE  PoolSound(Pool!Expanded(q), T) /\ Pool!Expanded(q).left # 0
<1>. DEFINE p == IF q.cookie = "static" THEN Pool!Initialized ELSE q
            n == IF p.current = 0 THEN p.incr
                 ELSE IF p.current < GrowthLimit THEN 2 * p.current ELSE p.current
            r == [p EXCEPT !.current = n, !.chunks = Append(@, n), !.virgin = 1, !.left = n,
                           !.room = IF Len(p.chunks) = @ THEN @ + ListSize ELSE @]
            c == Len(p.chunks)
<1>1. PoolSound(p, T) /\ p.cookie = "initialized" /\ p.left = 0
  <2>1. CASE q.cookie = "static"
    <3>1. T = {}
      <4>1. \A o \in Objects : ~HandedOut(q, o)
        BY <2>1 DEF PoolSound, HandedOut
      <4>. QED BY <4>1 DEF PoolSound
    <3>. QED BY <2>1, <3>1, EmptySound DEF Pool!StaticPool, Pool!Terminated, Pool!Initialized
  <2>2. CASE q.cookie # "static"
    BY <2>2 DEF PoolSound, PoolTyped
  <2>. QED BY <2>1, <2>2
<1>2. Pool!Expanded(q) = r
  BY DEF Pool!Expanded
<1>. HIDE DEF p
<1>3. PoolTyped(p) /\ c \in Nat /\ n \in Nat \ {0} /\ p.chunks \in Seq(Nat \ {0}) /\ p.room \in Nat
  BY <1>1, Sizes DEF PoolSound, PoolTyped
<1>. HIDE DEF n
<1>4. /\ PoolTyped(r) /\ r.chunks = Append(p.chunks, n) /\ r.free = p.free /\ r.virgin = 1
      /\ r.left = n /\ r.cookie = p.cookie /\ r.incr = p.incr
      /\ r.room = IF c = p.room THEN p.room + ListSize ELSE p.room
  BY <1>3, Sizes DEF PoolTyped
<1>5. /\ Len(r.chunks) = c + 1 /\ r.chunks # <<>> /\ r.chunks[c + 1] = n
      /\ \A k \in 1 .. c : r.chunks[k] = p.chunks[k]
  BY <1>3, <1>4
<1>. HIDE DEF r
<1>6. \A k \in 1 .. c : Used(p, k) = p.chunks[k]
  BY <1>1, <1>3 DEF Used, PoolSound, PoolTyped
<1>7. \A o \in Objects : HandedOut(r, o) <=> HandedOut(p, o)
  <2>. SUFFICES ASSUME NEW a \in Nat, NEW b \in Nat
                PROVE  HandedOut(r, <<a, b>>) <=> HandedOut(p, <<a, b>>)
    BY DEF Objects
  <2>1. CASE a \in 1 .. c
    <3>1. Used(r, a) = Used(p, a)
      BY <1>3, <1>5, <1>6, <2>1 DEF Used
    <3>. QED BY <1>3, <1>5, <2>1, <3>1 DEF HandedOut
  <2>2. CASE a \notin 1 .. c
    BY <1>3, <1>4, <1>5, <2>2 DEF HandedOut, Used
  <2>. QED BY <2>1, <2>2
<1>8. c <= p.room
  BY <1>1 DEF PoolSound
<1>9. c + 1 <= r.room
  BY <1>3, <1>4, <1>8, Sizes
<1>10. PoolSound(r, T) /\ r.left # 0
  <2>. HIDE DEF c
  <2>. QED BY <1>1, <1>3, <1>4, <1>5, <1>7, <1>9 DEF PoolSound
<1>. QED BY <1>2, <1>10

LEMMA AllocatedSound ==
    ASSUME NEW q, NEW T, PoolSound(q, T), q.cookie # "uninitialized"
    PROVE  LET a == Pool!Allocated(q) IN PoolSound(a.pool, T \union {a.object})
<1>1. CASE q.free = <<>>
  <2>. DEFINE e == IF q.left > 0 THEN q ELSE Pool!Expanded(q)
  <2>0. q.left \in Nat
    BY DEF PoolSound, PoolTyped
  <2>1. PoolSound(e, T) /\ e.left # 0
    <3>1. CASE q.left > 0
      BY <2>0, <3>1
    <3>2. CASE ~(q.left > 0)
      BY <2>0, <3>2, ExpandedSound
    <3>. QED BY <3>1, <3>2
  <2>2. Pool!Allocated(q) = [object |-> Pool!NextVirgin(e), pool |-> Pool!Carved(e)]
    BY <1>1 DEF Pool!Allocated
  <2>. HIDE DEF e
  <2>. QED BY <2>1, <2>2, CarvedSound
<1>2. CASE q.free # <<>>
  <2>. DEFINE r == [q EXCEPT !.free = Tail(@)]
              x == Head(q.free)
  <2>1. Pool!Allocated(q) = [object |-> x, pool |-> r]
    BY <1>2 DEF Pool!Allocated
  <2>2. PoolTyped(q) /\ q.free \in Seq(Objects) /\ Len(q.free) \in Nat \ {0}
    BY <1>2 DEF PoolSound, PoolTyped
  <2>3. /\ x \in Objects /\ x = q.free[1] /\ Tail(q.free) \in Seq(Objects)
        /\ Len(Tail(q.free)) = Len(q.free) - 1
        /\ \A i \in 1 .. Len(q.free) - 1 : Tail(q.free)[i] = q.free[i + 1]
    BY <1>2, <2>2, HeadTailProperties
  <2>4. /\ PoolTyped(r) /\ r.free = Tail(q.free) /\ r.chunks = q.chunks /\ r.virgin = q.virgin
        /\ r.left = q.left /\ r.cookie = q.cookie /\ r.incr = q.incr /\ r.room = q.room
    BY <2>2, <2>3 DEF PoolTyped
  <2>. HIDE DEF x
  <2>5. \A o \in Objects : HandedOut(r, o) <=> HandedOut(q, o)
    BY <2>4 DEF HandedOut, Used
  <2>6. \A o : InFree(o, q.free) <=> InFree(o, r.free) \/ o = x
    <3>. SUFFICES ASSUME NEW o PROVE InFree(o, q.free) <=> InFree(o, r.free) \/ o = x
      OBVIOUS
    <3>1. ASSUME NEW i \in 1 .. Len(q.free), q.free[i] = o PROVE InFree(o, r.free) \/ o = x
      <4>1. CASE i = 1
        BY <4>1, <3>1, <2>3
      <4>2. CASE i # 1
        <5>1. i - 1 \in 1 .. Len(q.free) - 1 /\ (i - 1) + 1 = i
          BY <4>2, <2>2
        <5>. QED BY <5>1, <3>1, <2>3, <2>4 DEF InFree
      <4>. QED BY <4>1, <4>2
    <3>2. ASSUME NEW i \in 1 .. Len(r.free), r.free[i] = o PROVE InFree(o, q.free)
      <4>1. i + 1 \in 1 .. Len(q.free) /\ q.free[i + 1] = o
        BY <3>2, <2>2, <2>3, <2>4
      <4>. QED BY <4>1 DEF InFree
    <3>3. 1 \in 1 .. Len(q.free)
      BY <2>2
    <3>. QED BY <3>1, <3>2, <3>3, <2>3 DEF InFree
  <2>7. ~InFree(x, r.free)
    BY <2>2, <2>3, <2>4 DEF InFree, PoolSound
  <2>8. \A i, j \in 1 .. Len(r.free) : r.free[i] = r.free[j] => i = j
    <3>. SUFFICES ASSUME NEW i \in 1 .. Len(r.free), NEW j \in 1 .. Len(r.free),
                         r.free[i] = r.free[j]
                  PROVE  i = j
      OBVIOUS
    <3>1. /\ i + 1 \in 1 .. Len(q.free) /\ j + 1 \in 1 .. Len(q.free)
          /\ q.free[i + 1] = q.free[j + 1]
      BY <2>2, <2>3, <2>4
    <3>2. i + 1 = j + 1
      BY <3>1 DEF PoolSound
    <3>. QED BY <3>2, <2>2, <2>3, <2>4
  <2>9. q.cookie = "initialized"
    BY <1>2 DEF PoolSound, PoolTyped, Pool!StaticPool
  <2>. HIDE DEF r
  <2>10. PoolSound(r, T \union {x})
    BY <2>3, <2>4, <2>5, <2>6, <2>7, <2>8, <2>9 DEF PoolSound
  <2>. QED BY <2>1, <2>10
<1>. QED BY <1>1, <1>2

LEMMA FreedSound ==
    ASSUME NEW q, NEW T, PoolSound(q, T), NEW x \in T
    PROVE  PoolSound(Pool!Freed(q, x), T \ {x})
<1>. DEFINE r == Pool!Freed(q, x)
            f == <<x>> \o q.free
<1>1. PoolTyped(q) /\ x \in Objects /\ q.free \in Seq(Objects) /\ Len(q.free) \in Nat
  BY DEF PoolSound, PoolTyped
<1>2. /\ f \in Seq(Objects) /\ Len(f) = Len(q.free) + 1 /\ f[1] = x
      /\ \A i \in 2 .. Len(f) : f[i] = q.free[i - 1]
  BY <1>1
<1>. HIDE DEF f
<1>3. /\ PoolTyped(r) /\ r.free = f /\ r.chunks = q.chunks /\ r.virgin = q.virgin
      /\ r.left = q.left /\ r.cookie = q.cookie /\ r.incr = q.incr /\ r.room = q.room
  BY <1>1, <1>2 DEF PoolTyped, Pool!Freed, f
<1>4. \A o \in Objects : HandedOut(r, o) <=> HandedOut(q, o)
  BY <1>3 DEF HandedOut, Used
<1>5. \A o : InFree(o, f) <=> InFree(o, q.free) \/ o = x
  <2>. SUFFICES ASSUME NEW o PROVE InFree(o, f) <=> InFree(o, q.free) \/ o = x
    OBVIOUS
  <2>1. ASSUME NEW i \in 1 .. Len(f), f[i] = o PROVE InFree(o, q.free) \/ o = x
    <3>1. CASE i = 1
      BY <3>1, <2>1, <1>2
    <3>2. CASE i # 1
      <4>1. i - 1 \in 1 .. Len(q.free) /\ q.free[i - 1] = o
        BY <3>2, <2>1, <1>1, <1>2
      <4>. QED BY <4>1 DEF InFree
    <3>. QED BY <3>1, <3>2
  <2>2. ASSUME NEW i \in 1 .. Len(q.free), q.free[i] = o PROVE InFree(o, f)
    <3>1. i + 1 \in 2 .. Len(f) /\ i + 1 \in 1 .. Len(f) /\ (i + 1) - 1 = i
      BY <1>1, <1>2
    <3>. QED BY <3>1, <2>2, <1>2 DEF InFree
  <2>3. 1 \in 1 .. Len(f)
    BY <1>1, <1>2
  <2>. QED BY <2>1, <2>2, <2>3, <1>2 DEF InFree
<1>6. ~InFree(x, q.free) /\ HandedOut(q, x)
  BY <1>1 DEF PoolSound
<1>7. \A i, j \in 1 .. Len(f) : f[i] = f[j] => i = j
  <2>. SUFFICES ASSUME NEW i \in 1 .. Len(f), NEW j \in 1 .. Len(f), f[i] = f[j] PROVE i = j
    OBVIOUS
  <2>1. \A k \in 2 .. Len(f) : f[k] = q.free[k - 1] /\ k - 1 \in 1 .. Len(q.free) /\ f[k] # x
    BY <1>1, <1>2, <1>6 DEF InFree
  <2>2. CASE i # 1 /\ j # 1
    <3>1. i \in 2 .. Len(f) /\ j \in 2 .. Len(f)
      BY <2>2, <1>1, <1>2
    <3>2. /\ i - 1 \in 1 .. Len(q.free) /\ j - 1 \in 1 .. Len(q.free)
          /\ q.free[i - 1] = q.free[j - 1]
      BY <3>1, <2>1
    <3>3. i - 1 = j - 1
      BY <3>2 DEF PoolSound
    <3>. QED BY <3>1, <3>3
  <2>3. CASE i = 1 \/ j = 1
    BY <2>1, <2>3, <1>1, <1>2
  <2>. QED BY <2>2, <2>3
<1>8. q.cookie = "initialized"
  BY <1>6 DEF PoolSound, PoolTyped, HandedOut
<1>. HIDE DEF r
<1>9. \A o \in T \ {x} : ~InFree(o, r.free)
  BY <1>3, <1>5 DEF PoolSound
<1>10. \A o \in Objects : o \in T \ {x} \/ InFree(o, r.free) <=> HandedOut(r, o)
  BY <1>3, <1>4, <1>5 DEF PoolSound
<1>11. /\ T \ {x} \subseteq Objects /\ r.incr # 0 /\ Len(r.chunks) <= r.room
       /\ r.chunks = <<>> => r.left = 0
       /\ r.chunks # <<>> => r.virgin # 0 /\ r.virgin - 1 + r.left = r.chunks[Len(r.chunks)]
  BY <1>3, <1>8 DEF PoolSound
<1>12. r.cookie = "initialized" /\ \A i, j \in 1 .. Len(r.free) : r.free[i] = r.free[j] => i = j
  BY <1>3, <1>7, <1>8
<1>13. /\ T \ {x} \subseteq Objects /\ PoolTyped(r)
       /\ r.cookie = "initialized" => r.incr # 0
       /\ r.cookie # "initialized" => r.chunks = <<>> /\ r.room = 0
       /\ r.cookie = "static" => r = Pool!StaticPool
  BY <1>3, <1>11, <1>12
<1>. QED
  <2>. SUFFICES PoolSound(r, T \ {x})
    BY DEF r
  <2>. QED BY ONLY <1>9, <1>10, <1>11, <1>12, <1>13 DEF PoolSound

(* Nothing was handed out by a pool without chunks.                         *)
LEMMA NoneHeld ==
    ASSUME NEW q, NEW T, PoolSound(q, T), q.chunks = <<>>
    PROVE  T = {}
<1>1. \A o \in Objects : ~HandedOut(q, o)
  BY DEF HandedOut
<1>. QED BY <1>1 DEF PoolSound

LEMMA Larger ==
    ASSUME NEW a \in Nat, NEW b \in Nat, NEW c \in Nat, a <= b
    PROVE  a * c <= b * c /\ a * c \in Nat /\ b * c \in Nat
<1>1. PICK d \in Nat : b = a + d
  <2>1. b - a \in Nat /\ b = a + (b - a)
    OBVIOUS
  <2>. QED BY <2>1
<1>2. b * c = a * c + d * c
  BY <1>1
<1>3. d * c \in Nat /\ a * c \in Nat
  OBVIOUS
<1>. QED BY <1>2, <1>3

(* An object lies within the pages of its chunk.                            *)
LEMMA LiesWithin ==
    ASSUME NEW q, NEW T, PoolSound(q, T), NEW o \in T
    PROVE  o[2] * ObjectSize <= Pool!Pages(q.chunks[o[1]]) * PageSize
<1>. DEFINE k == o[1]
            n == q.chunks[k]
<1>1. /\ PoolTyped(q) /\ o \in Objects /\ HandedOut(q, o) /\ q.chunks \in Seq(Nat \ {0})
  BY DEF PoolSound, PoolTyped
<1>2. o[2] \in Nat /\ k \in 1 .. Len(q.chunks) /\ n \in Nat /\ o[2] <= Used(q, k)
  BY <1>1 DEF HandedOut, Objects
<1>3. Used(q, k) \in Nat /\ Used(q, k) <= n
  <2>1. q.virgin \in Nat /\ q.left \in Nat /\ q.virgin - 1 + q.left = q.chunks[Len(q.chunks)]
    BY <1>1, <1>2 DEF PoolSound, PoolTyped
  <2>2. q.virgin # 0
    BY <1>1, <1>2 DEF PoolSound
  <2>. QED BY <1>2, <2>1, <2>2 DEF Used
<1>4. o[2] <= n
  <2>1. \A a, b, c \in Nat : a <= b /\ b <= c => a <= c
    OBVIOUS
  <2>. HIDE DEF n, k
  <2>. QED BY <1>2, <1>3, <2>1
<1>5. o[2] * ObjectSize <= n * ObjectSize /\ o[2] * ObjectSize \in Nat /\ n * ObjectSize \in Nat
  <2>. HIDE DEF n
  <2>. QED BY <1>2, <1>4, Sizes, Larger
<1>6. n * ObjectSize <= Pool!Pages(n) * PageSize /\ Pool!Pages(n) * PageSize \in Nat
  <2>. HIDE DEF n
  <2>1. Pool!Pages(n) \in Nat /\ Pool!Pages(n) * PageSize >= n * ObjectSize
    BY <1>2, PagesSuffice
  <2>. QED BY <2>1, Sizes, Larger, <1>5
<1>7. \A a, b, c \in Nat : a <= b /\ b <= c => a <= c
  OBVIOUS
<1>8. o[2] * ObjectSize <= Pool!Pages(n) * PageSize
  <2>. HIDE DEF n
  <2>. QED BY <1>5, <1>6, <1>7
<1>. QED BY <1>8

LEMMA PoolSoundTrue ==
    ASSUME NEW q, NEW T, PoolSound(q, T)
    PROVE  LET c == Len(q.chunks)
           IN  /\ c <= q.room
               /\ \A i, j \in DOMAIN q.free : q.free[i] = q.free[j] => i = j
               /\ T \intersect ToSet(q.free) = {}
               /\ T \union ToSet(q.free) =
                      UNION {{k} \X (1 .. IF k = c THEN q.virgin - 1 ELSE q.chunks[k]) :
                                 k \in 1 .. c}
               /\ c > 0 => q.virgin - 1 + q.left = q.chunks[c]
               /\ \A o \in T : o[2] * ObjectSize <= Pool!Pages(q.chunks[o[1]]) * PageSize
<1>. DEFINE c == Len(q.chunks)
            U == UNION {{k} \X (1 .. IF k = c THEN q.virgin - 1 ELSE q.chunks[k]) : k \in 1 .. c}
<1>1. /\ PoolTyped(q) /\ q.free \in Seq(Objects) /\ DOMAIN q.free = 1 .. Len(q.free)
      /\ T \subseteq Objects /\ q.chunks \in Seq(Nat \ {0}) /\ q.virgin \in Nat
  BY DEF PoolSound, PoolTyped
<1>2. \A o : o \in ToSet(q.free) <=> InFree(o, q.free)
  BY <1>1 DEF ToSet, InFree
<1>3. \A o \in ToSet(q.free) : o \in Objects
  BY <1>1 DEF ToSet
<1>4. \A o : o \in U <=> o \in Objects /\ HandedOut(q, o)
  <2>1. ASSUME NEW o \in U PROVE o \in Objects /\ HandedOut(q, o)
    <3>1. PICK k \in 1 .. c : o \in {k} \X (1 .. Used(q, k))
      BY DEF Used
    <3>. QED BY <3>1, <1>1 DEF Objects, HandedOut
  <2>2. ASSUME NEW o \in Objects, HandedOut(q, o) PROVE o \in U
    <3>1. o[1] \in 1 .. c /\ o \in {o[1]} \X (1 .. Used(q, o[1]))
      BY <2>2 DEF Objects, HandedOut
    <3>. QED BY <3>1 DEF Used
  <2>. QED BY <2>1, <2>2
<1>. HIDE DEF U
<1>5. T \union ToSet(q.free) = U
  BY <1>1, <1>2, <1>3, <1>4 DEF PoolSound
<1>6. T \intersect ToSet(q.free) = {}
  BY <1>2 DEF PoolSound
<1>7. \A i, j \in DOMAIN q.free : q.free[i] = q.free[j] => i = j
  BY <1>1 DEF PoolSound
<1>8. c <= q.room /\ (c > 0 => q.virgin - 1 + q.left = q.chunks[c])
  BY <1>1 DEF PoolSound
<1>. QED BY <1>5, <1>6, <1>7, <1>8, LiesWithin DEF U

PoolsSound ==
    /\ pool = [p \in Pools |-> pool[p]] /\ held = [p \in Pools |-> held[p]]
    /\ \A p \in Pools : PoolSound(pool[p], held[p])

LEMMA PoolsStart == LibraryInit => PoolsSound
<1>. SUFFICES ASSUME LibraryInit PROVE PoolsSound
  OBVIOUS
<1>1. /\ pool = [p \in Pools |-> IF p = StaticName THEN Pool!StaticPool ELSE Pool!Terminated]
      /\ held = [p \in Pools |-> {}]
  BY DEF LibraryInit
<1>. QED BY <1>1, EmptySound DEF PoolsSound

(* One pool changes.                                                        *)
LEMMA PoolChanges ==
    ASSUME PoolsSound, NEW p \in Pools, NEW q, NEW S, PoolSound(q, S),
           pool' = [pool EXCEPT ![p] = q], held' = [held EXCEPT ![p] = S]
    PROVE  PoolsSound'
<1>1. \A r \in Pools : /\ pool'[r] = IF r = p THEN q ELSE pool[r]
                       /\ held'[r] = IF r = p THEN S ELSE held[r]
  BY DEF PoolsSound
<1>2. pool' = [r \in Pools |-> pool'[r]] /\ held' = [r \in Pools |-> held'[r]]
  BY DEF PoolsSound
<1>3. ASSUME NEW r \in Pools PROVE PoolSound(pool'[r], held'[r])
  <2>1. CASE r = p
    BY <1>1, <2>1
  <2>2. CASE r # p
    BY <1>1, <2>2 DEF PoolsSound
  <2>. QED BY <2>1, <2>2
<1>. QED BY <1>2, <1>3 DEF PoolsSound

LEMMA PoolsKeep ==
    ASSUME PoolsSound, PoolSteps
    PROVE  PoolsSound'
<1>0. \A p \in Pools : held = [held EXCEPT ![p] = held[p]]
  BY DEF PoolsSound
<1>1. ASSUME NEW p \in Pools, InitializePool(p) PROVE PoolsSound'
  <2>1. held[p] = {}
    BY <1>1, NoneHeld DEF PoolsSound, PoolSound, InitializePool
  <2>2. /\ pool' = [pool EXCEPT ![p] = Pool!Initialized]
        /\ held' = [held EXCEPT ![p] = {}]
    BY <1>0, <1>1, <2>1 DEF InitializePool
  <2>. QED BY <2>2, EmptySound, PoolChanges
<1>2. ASSUME NEW p \in Pools, TerminatePool(p) PROVE PoolsSound'
  BY <1>2, EmptySound, PoolChanges DEF TerminatePool
<1>3. ASSUME NEW p \in Pools, Alloc(p) PROVE PoolsSound'
  <2>. DEFINE a == Pool!Allocated(pool[p])
  <2>1. PoolSound(a.pool, held[p] \union {a.object})
    BY <1>3, AllocatedSound DEF Alloc, PoolsSound
  <2>2. /\ pool' = [pool EXCEPT ![p] = a.pool]
        /\ held' = [held EXCEPT ![p] = held[p] \union {a.object}]
    BY <1>3 DEF Alloc
  <2>. HIDE DEF a
  <2>. QED BY <2>1, <2>2, PoolChanges
<1>4. ASSUME NEW p \in Pools, Free(p) PROVE PoolsSound'
  <2>1. PICK o \in held[p] : /\ pool' = [pool EXCEPT ![p] = Pool!Freed(pool[p], o)]
                             /\ held' = [held EXCEPT ![p] = held[p] \ {o}]
    BY <1>4 DEF Free
  <2>2. PoolSound(Pool!Freed(pool[p], o), held[p] \ {o})
    BY FreedSound DEF PoolsSound
  <2>. QED BY <2>1, <2>2, PoolChanges
<1>5. CASE ThreadCleanup
  <2>. DEFINE q == IF pool[StaticName].cookie = "initialized" THEN Pool!Terminated
                   ELSE pool[StaticName]
  <2>0. StaticName \in Pools
    BY DEF Pools
  <2>1. PoolSound(q, {})
    <3>1. CASE pool[StaticName].cookie = "initialized"
      BY <3>1, EmptySound
    <3>2. CASE pool[StaticName].cookie # "initialized"
      <4>1. PoolSound(pool[StaticName], held[StaticName])
        BY <2>0 DEF PoolsSound
      <4>2. held[StaticName] = {}
        BY <3>2, <4>1, NoneHeld DEF PoolSound
      <4>. QED BY <3>2, <4>1, <4>2
    <3>. QED BY <3>1, <3>2
  <2>2. pool' = [pool EXCEPT ![StaticName] = q] /\ held' = [held EXCEPT ![StaticName] = {}]
    BY <1>5 DEF ThreadCleanup
  <2>. HIDE DEF q
  <2>. QED BY <2>0, <2>1, <2>2, PoolChanges
<1>. QED BY <1>1, <1>2, <1>3, <1>4, <1>5 DEF PoolSteps

-----------------------------------------------------------------------------
(* Both, in whatever part of the library is in use.                         *)
MemorySound == PoolsSound /\ ListSound(list, order)

LEMMA MemoryKeeps ==
    ASSUME MemorySound, [LibraryNext]_libraryVars
    PROVE  MemorySound'
<1>1. UNCHANGED poolVars => PoolsSound'
  BY DEF MemorySound, PoolsSound, poolVars
<1>2. UNCHANGED listVars => ListSound(list', order')
  BY DEF MemorySound, listVars
<1>3. CASE PoolSteps
  BY <1>2, <1>3, PoolsKeep DEF MemorySound, PoolSteps
<1>4. CASE ListSteps
  BY <1>1, <1>4, ListKeeps DEF MemorySound, ListSteps
<1>5. CASE HeapSteps \/ DatasetSteps \/ SeriesSteps \/ TableSteps \/ DrawSteps
           \/ CoroutineSteps \/ UNCHANGED libraryVars
  <2>1. UNCHANGED <<poolVars, listVars>>
    BY <1>5 DEF HeapSteps, DatasetSteps, SeriesSteps, TableSteps, DrawSteps, CoroutineSteps,
                libraryVars
  <2>. QED BY <1>1, <1>2, <2>1 DEF MemorySound
<1>. QED BY <1>3, <1>4, <1>5 DEF LibraryNext

(* However objects are taken and given back, no object of a memory pool is  *)
(* in two hands or lost, each lies in its chunk, and the list of chunks has *)
(* room for them (src/src/cmi_mempool.c); and a doubly linked list leads to *)
(* all that was put into it, in order both ways, and nowhere else           *)
(* (src/src/cmi_dlist.c): for any sizes of objects and pages, growth of     *)
(* chunks and number of list nodes.                                         *)
THEOREM MemoryTrueCorrect == LibrarySpec => []MemoryTrue
<1>1. LibraryInit => MemorySound
  BY PoolsStart, ListStarts DEF LibraryInit, MemorySound
<1>2. MemorySound /\ [LibraryNext]_libraryVars => MemorySound'
  BY MemoryKeeps
<1>3. MemorySound => MemoryTrue
  <2>. SUFFICES ASSUME MemorySound PROVE MemoryTrue
    OBVIOUS
  <2>1. PoolTrue
    BY PoolSoundTrue DEF MemorySound, PoolsSound, PoolTrue
  <2>. QED BY <2>1, ListSoundTrue DEF MemorySound, MemoryTrue
<1>. QED BY <1>1, <1>2, <1>3, PTL DEF LibrarySpec

-----------------------------------------------------------------------------
(* Coroutines.  What their states have: a record for each, one of whom is   *)
(* main, and the fields of the thread.                                      *)
Strand == Coroutine \union {Main}

Fields == {"exists", "status", "caller", "parent", "stack", "size", "saved", "prev", "next"}

Shaped(t) ==
    /\ DOMAIN t = {"is", "current", "registry", "stacks", "spare", "phase"}
    /\ DOMAIN t.is = Strand /\ \A c \in Strand : DOMAIN t.is[c] = Fields

\* The registry leads through reg, and back.
Nth(reg, i) == IF i \in 1 .. Len(reg) THEN reg[i] ELSE NoCoroutine

Chained(t, reg) ==
    /\ reg \in Seq(Coroutine) /\ Distinct(reg) /\ t.registry = Nth(reg, 1)
    /\ \A i \in 1 .. Len(reg) : /\ t.is[reg[i]].next = Nth(reg, i + 1)
                                /\ t.is[reg[i]].prev = Nth(reg, i - 1)

\* The spare stacks, on shelves by their sizes.
Shelf == [size : Nat, free : Seq(Nat)]

IsSpare(q, x) == \E i \in 1 .. Len(q) : \E j \in 1 .. Len(q[i].free) : q[i].free[j] = x

Fitting(q, sizes) == \A i \in 1 .. Len(q) : \A j \in 1 .. Len(q[i].free) :
    q[i].free[j] \in 1 .. Len(sizes) /\ sizes[q[i].free[j]] = q[i].size

Once(q) == \A i, k \in 1 .. Len(q) :
    \A j \in 1 .. Len(q[i].free), m \in 1 .. Len(q[k].free) :
        q[i].free[j] = q[k].free[m] => i = k /\ j = m

Shelved(q, sizes) == q \in Seq(Shelf) /\ Fitting(q, sizes) /\ Once(q)

\* Each stack is one's who is in reg, or spare.
Stacked(t, reg) ==
    /\ t.stacks \in Seq(Nat) /\ Shelved(t.spare, t.stacks)
    /\ \A c \in Coroutine : Among(c, reg) =>
           /\ t.is[c].stack \in 1 .. Len(t.stacks) /\ t.is[c].size \in Nat
           /\ t.stacks[t.is[c].stack] = C!Rounded(t.is[c].size)
           /\ ~IsSpare(t.spare, t.is[c].stack)
    /\ \A c, d \in Coroutine :
           Among(c, reg) /\ Among(d, reg) /\ t.is[c].stack = t.is[d].stack => c = d
    /\ \A x \in 1 .. Len(t.stacks) :
           IsSpare(t.spare, x) \/ \E c \in Coroutine : Among(c, reg) /\ t.is[c].stack = x

\* Until the end, who is in reg and who may be passed control.
Members(t, reg) == \A c \in Coroutine :
    /\ Among(c, reg) <=> t.is[c].status # "uninitialized"
    /\ t.is[c].status # "uninitialized" => t.is[c].exists

Related(t) == \A c \in Strand :
    /\ t.is[c].parent \in Strand \union {NoCoroutine} /\ t.is[c].parent # c
    /\ t.is[c].caller \in Strand \union {NoCoroutine}

Led(t) ==
    /\ t.current \in Strand \union {NoCoroutine}
    /\ t.current = NoCoroutine => /\ ~t.is[Main].exists
                                  /\ \A c \in Strand : t.is[c].status = "uninitialized"
    /\ t.current # NoCoroutine => t.is[Main].exists /\ t.is[Main].status = "running"

Lively(t, reg) == Members(t, reg) /\ Related(t) /\ Led(t)

Controlled(t) == t.current # NoCoroutine =>
    /\ t.is[t.current].status = "running"
    /\ \A c \in Strand : t.is[c].status = "running" /\ c # t.current => t.is[c].saved

Phases == {"working", "recovering", "cleaning", "ended"}

Coherent(t, reg) ==
    /\ Shaped(t) /\ Chained(t, reg) /\ Stacked(t, reg)
    /\ t.phase \in Phases
    /\ t.phase \in {"working", "recovering"} => Lively(t, reg)
    /\ t.phase = "working" => Controlled(t)
    /\ t.phase = "recovering" => t.current = Main
    /\ t.phase = "ended" => t.stacks = <<>>

\* Parts of the state that stay.
SameLinks(t, u) ==
    /\ u.registry = t.registry
    /\ \A d \in Strand : u.is[d].next = t.is[d].next /\ u.is[d].prev = t.is[d].prev
SameStacks(t, u) ==
    /\ u.stacks = t.stacks /\ u.spare = t.spare
    /\ \A d \in Strand : u.is[d].stack = t.is[d].stack /\ u.is[d].size = t.is[d].size
SameRest(t, u) ==
    /\ u.current = t.current /\ u.phase = t.phase
    /\ \A d \in Strand : /\ u.is[d].exists = t.is[d].exists /\ u.is[d].status = t.is[d].status
                         /\ u.is[d].caller = t.is[d].caller /\ u.is[d].parent = t.is[d].parent
                         /\ u.is[d].saved = t.is[d].saved

LEMMA Strands ==
    /\ Main \notin Coroutine /\ NoCoroutine \notin Strand /\ Main \in Strand
    /\ Coroutine \subseteq Strand /\ IsFiniteSet(Coroutine)
  BY LibraryAssumption DEF Strand

LEMMA SameLinksChained ==
    ASSUME NEW t, NEW u, NEW reg, Chained(t, reg), SameLinks(t, u)
    PROVE  Chained(u, reg)
<1>1. \A i \in 1 .. Len(reg) : reg[i] \in Strand
  BY Strands DEF Chained
<1>. QED BY <1>1 DEF Chained, SameLinks

LEMMA SameStacked ==
    ASSUME NEW t, NEW u, NEW reg, Stacked(t, reg), SameStacks(t, u)
    PROVE  Stacked(u, reg)
<1>1. \A c \in Coroutine : u.is[c].stack = t.is[c].stack /\ u.is[c].size = t.is[c].size
  BY Strands DEF SameStacks
<1>. QED BY <1>1 DEF Stacked, SameStacks

(* The registry.                                                            *)
LEMMA RegistryAddDoes ==
    ASSUME NEW t, Shaped(t), NEW reg, Chained(t, reg), NEW c \in Coroutine, ~Among(c, reg)
    PROVE  LET u == C!RegistryAdd(t, c)
           IN  /\ Shaped(u) /\ SameStacks(t, u) /\ SameRest(t, u)
               /\ Chained(u, <<c>> \o reg)
               /\ \A d : Among(d, <<c>> \o reg) <=> d = c \/ Among(d, reg)
<1>. DEFINE first == t.registry
            v == [t EXCEPT !.is[c].prev = NoCoroutine, !.is[c].next = first, !.registry = c]
            u == C!RegistryAdd(t, c)
            r == <<c>> \o reg
<1>0. /\ reg \in Seq(Coroutine) /\ Len(reg) \in Nat /\ c \in Strand /\ first = Nth(reg, 1)
  BY Strands DEF Chained
<1>1. /\ Shaped(v) /\ v.stacks = t.stacks /\ v.spare = t.spare /\ v.current = t.current
      /\ v.phase = t.phase /\ v.registry = c
  BY <1>0 DEF Shaped, Fields
<1>2. \A d \in Strand : /\ v.is[d].next = IF d = c THEN first ELSE t.is[d].next
                        /\ v.is[d].prev = IF d = c THEN NoCoroutine ELSE t.is[d].prev
  BY <1>0 DEF Shaped, Fields
<1>3. \A d \in Strand : /\ v.is[d].exists = t.is[d].exists /\ v.is[d].status = t.is[d].status
                        /\ v.is[d].caller = t.is[d].caller /\ v.is[d].parent = t.is[d].parent
                        /\ v.is[d].saved = t.is[d].saved
                        /\ v.is[d].stack = t.is[d].stack /\ v.is[d].size = t.is[d].size
  BY <1>0 DEF Shaped, Fields
<1>. HIDE DEF v
<1>4. u = IF first = NoCoroutine THEN v ELSE [v EXCEPT !.is[first].prev = c]
  BY DEF C!RegistryAdd, v
<1>5. first # NoCoroutine => first \in Strand /\ 1 \in 1 .. Len(reg) /\ first = reg[1]
  BY <1>0, Strands DEF Nth
<1>. HIDE DEF u, first
<1>6. /\ Shaped(u) /\ u.stacks = t.stacks /\ u.spare = t.spare /\ u.current = t.current
      /\ u.phase = t.phase /\ u.registry = c
  BY <1>1, <1>4, <1>5 DEF Shaped, Fields
<1>7. \A d \in Strand : /\ u.is[d].next = IF d = c THEN first ELSE t.is[d].next
                        /\ u.is[d].prev = IF first # NoCoroutine /\ d = first THEN c
                                          ELSE IF d = c THEN NoCoroutine ELSE t.is[d].prev
  BY <1>1, <1>2, <1>4, <1>5 DEF Shaped, Fields
<1>8. \A d \in Strand : /\ u.is[d].exists = t.is[d].exists /\ u.is[d].status = t.is[d].status
                        /\ u.is[d].caller = t.is[d].caller /\ u.is[d].parent = t.is[d].parent
                        /\ u.is[d].saved = t.is[d].saved
                        /\ u.is[d].stack = t.is[d].stack /\ u.is[d].size = t.is[d].size
  BY <1>1, <1>3, <1>4, <1>5 DEF Shaped, Fields
<1>9. /\ r \in Seq(Coroutine) /\ Len(r) = Len(reg) + 1 /\ r[1] = c
      /\ \A i \in 2 .. Len(r) : r[i] = reg[i - 1] /\ i - 1 \in 1 .. Len(reg)
      /\ \A i \in 1 .. Len(reg) : i + 1 \in 2 .. Len(r) /\ r[i + 1] = reg[i]
  BY <1>0
<1>. HIDE DEF r
<1>10. \A d : Among(d, r) <=> d = c \/ Among(d, reg)
  <2>. SUFFICES ASSUME NEW d PROVE Among(d, r) <=> d = c \/ Among(d, reg)
    OBVIOUS
  <2>1. ASSUME NEW i \in 1 .. Len(r), r[i] = d PROVE d = c \/ Among(d, reg)
    BY <1>0, <1>9, <2>1 DEF Among
  <2>2. ASSUME NEW i \in 1 .. Len(reg), reg[i] = d PROVE Among(d, r)
    <3>1. i + 1 \in 1 .. Len(r) /\ r[i + 1] = d
      BY <1>0, <1>9, <2>2
    <3>. QED BY <3>1 DEF Among
  <2>3. Among(c, r)
    <3>1. 1 \in 1 .. Len(r)
      BY <1>0, <1>9
    <3>. QED BY <3>1, <1>9 DEF Among
  <2>. QED BY <2>1, <2>2, <2>3 DEF Among
<1>11. Distinct(r)
  <2>. SUFFICES ASSUME NEW i \in 1 .. Len(r), NEW j \in 1 .. Len(r), r[i] = r[j] PROVE i = j
    BY DEF Distinct
  <2>1. CASE i = 1 \/ j = 1
    BY <1>0, <1>9, <2>1 DEF Among
  <2>2. CASE i # 1 /\ j # 1
    <3>1. i - 1 \in 1 .. Len(reg) /\ j - 1 \in 1 .. Len(reg) /\ reg[i - 1] = reg[j - 1]
      BY <1>0, <1>9, <2>2
    <3>2. i - 1 = j - 1
      BY <3>1 DEF Chained, Distinct
    <3>. QED BY <3>2, <1>0
  <2>. QED BY <2>1, <2>2
<1>12. Chained(u, r)
  <2>1. u.registry = Nth(r, 1)
    BY <1>0, <1>6, <1>9 DEF Nth
  <2>2. ASSUME NEW i \in 1 .. Len(r)
        PROVE  u.is[r[i]].next = Nth(r, i + 1) /\ u.is[r[i]].prev = Nth(r, i - 1)
    <3>1. CASE i = 1
      <4>1. r[i] = c /\ Nth(r, i - 1) = NoCoroutine /\ c # first
        BY <1>0, <1>5, <1>9, <3>1, Strands DEF Nth, Among
      <4>2. Nth(r, i + 1) = first
        BY <1>0, <1>9, <3>1 DEF Nth
      <4>. QED BY <1>0, <1>7, <4>1, <4>2
    <3>2. CASE i # 1
      <4>0. i - 1 \in 1 .. Len(reg) /\ r[i] = reg[i - 1] /\ r[i] \in Strand /\ r[i] # c
        BY <1>0, <1>9, <3>2, Strands DEF Among
      <4>1. Nth(r, i + 1) = Nth(reg, i)
        BY <1>0, <1>9, <3>2 DEF Nth
      <4>2. t.is[r[i]].next = Nth(reg, i) /\ t.is[r[i]].prev = Nth(reg, i - 2)
        <5>1. (i - 1) + 1 = i /\ (i - 1) - 1 = i - 2
          BY <4>0
        <5>. QED BY <4>0, <5>1 DEF Chained
      <4>3. CASE i = 2
        <5>1. r[i] = first /\ first # NoCoroutine /\ Nth(r, i - 1) = c
          BY <1>0, <1>9, <4>0, <4>3, Strands DEF Nth
        <5>. QED BY <1>7, <4>0, <4>1, <4>2, <5>1
      <4>4. CASE i # 2
        <5>1. i - 2 \in 1 .. Len(reg) /\ Nth(reg, i - 2) = Nth(r, i - 1)
          BY <1>0, <1>9, <3>2, <4>4 DEF Nth
        <5>2. first # NoCoroutine => r[i] # first
          BY <1>5, <4>0, <4>4 DEF Chained, Distinct
        <5>. QED BY <1>7, <4>0, <4>1, <4>2, <5>1, <5>2
      <4>. QED BY <4>3, <4>4
    <3>. QED BY <3>1, <3>2
  <2>. QED BY <1>9, <1>11, <2>1, <2>2 DEF Chained
<1>. QED BY <1>6, <1>8, <1>10, <1>12 DEF SameStacks, SameRest, u, r

\* r is reg without the place k.
Cut(r, reg, k) ==
    /\ r \in Seq(Coroutine) /\ Len(r) = Len(reg) - 1
    /\ \A j \in 1 .. Len(r) : r[j] = IF j < k THEN reg[j] ELSE reg[j + 1]

LEMMA CutLeaves ==
    ASSUME NEW reg \in Seq(Coroutine), Distinct(reg), NEW k \in 1 .. Len(reg)
    PROVE  \E r : /\ Cut(r, reg, k) /\ Distinct(r)
                  /\ \A d : Among(d, r) <=> Among(d, reg) /\ d # reg[k]
<1>. DEFINE n == Len(reg) - 1
            r == [j \in 1 .. n |-> IF j < k THEN reg[j] ELSE reg[j + 1]]
<1>0. n \in Nat /\ Len(reg) = n + 1
  OBVIOUS
<1>1. r \in [1 .. n -> Coroutine]
  <2>. SUFFICES ASSUME NEW j \in 1 .. n PROVE (IF j < k THEN reg[j] ELSE reg[j + 1]) \in Coroutine
    OBVIOUS
  <2>. QED BY <1>0
<1>2. r \in Seq(Coroutine) /\ Len(r) = n
  BY <1>0, <1>1
<1>3. \A j \in 1 .. n : r[j] = IF j < k THEN reg[j] ELSE reg[j + 1]
  OBVIOUS
<1>. HIDE DEF r
<1>4. Cut(r, reg, k)
  BY <1>2, <1>3 DEF Cut
<1>5. Distinct(r)
  <2>. SUFFICES ASSUME NEW i \in 1 .. n, NEW j \in 1 .. n, r[i] = r[j] PROVE i = j
    BY <1>2 DEF Distinct
  <2>. QED BY <1>0, <1>3 DEF Distinct
<1>6. ASSUME NEW d PROVE Among(d, r) <=> Among(d, reg) /\ d # reg[k]
  <2>1. ASSUME NEW i \in 1 .. n, r[i] = d PROVE Among(d, reg) /\ d # reg[k]
    <3>1. CASE i < k
      BY <1>0, <1>3, <2>1, <3>1 DEF Among, Distinct
    <3>2. CASE ~(i < k)
      <4>1. i + 1 \in 1 .. Len(reg) /\ reg[i + 1] = d /\ i + 1 # k
        BY <1>0, <1>3, <2>1, <3>2
      <4>. QED BY <4>1 DEF Among, Distinct
    <3>. QED BY <3>1, <3>2
  <2>2. ASSUME NEW i \in 1 .. Len(reg), reg[i] = d, d # reg[k] PROVE Among(d, r)
    <3>1. CASE i < k
      <4>1. i \in 1 .. Len(r) /\ r[i] = d
        BY <1>0, <1>2, <1>3, <2>2, <3>1
      <4>. QED BY <4>1 DEF Among
    <3>2. CASE i > k
      <4>1. i - 1 \in 1 .. n /\ ~(i - 1 < k) /\ (i - 1) + 1 = i
        BY <1>0, <3>2
      <4>2. i - 1 \in 1 .. Len(r) /\ r[i - 1] = d
        BY <1>2, <1>3, <2>2, <4>1
      <4>. QED BY <4>2 DEF Among
    <3>3. i # k /\ i \in Int /\ k \in Int
      BY <2>2
    <3>. QED BY <3>1, <3>2, <3>3
  <2>. QED BY <1>2, <2>1, <2>2 DEF Among
<1>. QED BY <1>4, <1>5, <1>6

LEMMA RegistryRemoveDoes ==
    ASSUME NEW t, Shaped(t), NEW reg, Chained(t, reg), NEW c \in Coroutine, Among(c, reg)
    PROVE  LET u == C!RegistryRemove(t, c)
           IN  /\ Shaped(u) /\ SameStacks(t, u) /\ SameRest(t, u)
               /\ \E r : /\ Chained(u, r)
                         /\ \A d : Among(d, r) <=> Among(d, reg) /\ d # c
<1>. DEFINE before == t.is[c].prev
            after == t.is[c].next
            v == IF before # NoCoroutine THEN [t EXCEPT !.is[before].next = after]
                 ELSE [t EXCEPT !.registry = after]
            u == C!RegistryRemove(t, c)
<1>0. /\ reg \in Seq(Coroutine) /\ Distinct(reg) /\ Len(reg) \in Nat /\ c \in Strand
      /\ \A i \in 1 .. Len(reg) : reg[i] \in Coroutine /\ reg[i] \in Strand /\ reg[i] # NoCoroutine
  BY Strands DEF Chained
<1>k. PICK k \in 1 .. Len(reg) : reg[k] = c
  BY DEF Among
<1>1. /\ before = Nth(reg, k - 1) /\ after = Nth(reg, k + 1)
      /\ before # NoCoroutine <=> k # 1
      /\ before # NoCoroutine => before \in Strand /\ k - 1 \in 1 .. Len(reg) /\ before = reg[k - 1]
      /\ after # NoCoroutine <=> k # Len(reg)
      /\ after # NoCoroutine => after \in Strand /\ k + 1 \in 1 .. Len(reg) /\ after = reg[k + 1]
  <2>1. before = Nth(reg, k - 1) /\ after = Nth(reg, k + 1)
    BY <1>k DEF Chained
  <2>. HIDE DEF before, after
  <2>2. /\ k # 1 => k - 1 \in 1 .. Len(reg) /\ before = reg[k - 1]
        /\ k = 1 => before = NoCoroutine
    BY <1>0, <2>1 DEF Nth
  <2>3. /\ k # Len(reg) => k + 1 \in 1 .. Len(reg) /\ after = reg[k + 1]
        /\ k = Len(reg) => after = NoCoroutine
    BY <1>0, <2>1 DEF Nth
  <2>. QED BY <1>0, <2>1, <2>2, <2>3
<1>2. PICK r : /\ Cut(r, reg, k) /\ Distinct(r)
               /\ \A d : Among(d, r) <=> Among(d, reg) /\ d # c
  BY <1>0, <1>k, CutLeaves
<1>3. u = IF after # NoCoroutine THEN [v EXCEPT !.is[after].prev = before] ELSE v
  BY DEF C!RegistryRemove
<1>. HIDE DEF u, before, after
<1>4. /\ Shaped(v) /\ SameStacks(t, v) /\ SameRest(t, v)
      /\ v.registry = IF before # NoCoroutine THEN t.registry ELSE after
      /\ \A d \in Strand : v.is[d].next = IF before # NoCoroutine /\ d = before THEN after
                                         ELSE t.is[d].next
      /\ \A d \in Strand : v.is[d].prev = t.is[d].prev
  <2>1. CASE before # NoCoroutine
    <3>1. v = [t EXCEPT !.is[before].next = after] /\ before \in Strand
      BY <1>1, <2>1
    <3>. HIDE DEF v
    <3>2. Shaped(v) /\ v.registry = t.registry
      BY <3>1 DEF Shaped, Fields
    <3>3. \A d \in Strand : /\ v.is[d].next = IF d = before THEN after ELSE t.is[d].next
                            /\ v.is[d].prev = t.is[d].prev
      BY <3>1 DEF Shaped, Fields
    <3>4. SameStacks(t, v) /\ SameRest(t, v)
      BY <3>1 DEF Shaped, Fields, SameStacks, SameRest
    <3>. QED BY <2>1, <3>2, <3>3, <3>4
  <2>2. CASE before = NoCoroutine
    <3>1. v = [t EXCEPT !.registry = after]
      BY <2>2
    <3>. HIDE DEF v
    <3>2. Shaped(v) /\ v.registry = after /\ v.is = t.is
      BY <3>1 DEF Shaped
    <3>3. SameStacks(t, v) /\ SameRest(t, v)
      BY <3>1 DEF Shaped, SameStacks, SameRest
    <3>. QED BY <2>2, <3>2, <3>3
  <2>. QED BY <2>1, <2>2
<1>. HIDE DEF v
<1>5. /\ Shaped(u) /\ SameStacks(t, u) /\ SameRest(t, u) /\ u.registry = v.registry
      /\ \A d \in Strand : u.is[d].next = v.is[d].next
      /\ \A d \in Strand : u.is[d].prev = IF after # NoCoroutine /\ d = after THEN before
                                         ELSE v.is[d].prev
  <2>1. CASE after # NoCoroutine
    <3>1. u = [v EXCEPT !.is[after].prev = before] /\ after \in Strand /\ Shaped(v)
      BY <1>1, <1>3, <1>4, <2>1
    <3>2. Shaped(u) /\ u.registry = v.registry
      BY <3>1 DEF Shaped, Fields
    <3>3. \A d \in Strand : /\ u.is[d].next = v.is[d].next
                            /\ u.is[d].prev = IF d = after THEN before ELSE v.is[d].prev
      BY <3>1 DEF Shaped, Fields
    <3>4. SameStacks(v, u) /\ SameRest(v, u)
      BY <3>1 DEF Shaped, Fields, SameStacks, SameRest
    <3>5. SameStacks(t, u) /\ SameRest(t, u)
      BY <1>4, <3>4 DEF SameStacks, SameRest
    <3>. QED BY <2>1, <3>2, <3>3, <3>5
  <2>2. CASE after = NoCoroutine
    <3>1. u = v
      BY <1>3, <2>2
    <3>. QED BY <1>4, <2>2, <3>1
  <2>. QED BY <2>1, <2>2
<1>n. \A d \in Strand : u.is[d].next = IF before # NoCoroutine /\ d = before THEN after
                                      ELSE t.is[d].next
  BY <1>4, <1>5
<1>p. \A d \in Strand : u.is[d].prev = IF after # NoCoroutine /\ d = after THEN before
                                      ELSE t.is[d].prev
  BY <1>4, <1>5
<1>6. Chained(u, r)
  <2>0. Len(r) = Len(reg) - 1 /\ r \in Seq(Coroutine)
    BY <1>2 DEF Cut
  <2>1. u.registry = Nth(r, 1)
    <3>1. CASE k = 1
      <4>1. u.registry = Nth(reg, 2)
        BY <1>1, <1>4, <1>5, <3>1
      <4>2. Nth(reg, 2) = Nth(r, 1)
        BY <1>0, <1>2, <2>0, <3>1 DEF Nth, Cut
      <4>. QED BY <4>1, <4>2
    <3>2. CASE k # 1
      <4>1. u.registry = Nth(reg, 1)
        BY <1>1, <1>4, <1>5, <3>2 DEF Chained
      <4>2. Nth(reg, 1) = Nth(r, 1)
        BY <1>0, <1>2, <2>0, <3>2 DEF Nth, Cut
      <4>. QED BY <4>1, <4>2
    <3>. QED BY <3>1, <3>2
  <2>2. ASSUME NEW i \in 1 .. Len(r)
        PROVE  u.is[r[i]].next = Nth(r, i + 1) /\ u.is[r[i]].prev = Nth(r, i - 1)
    <3>. DEFINE j == IF i < k THEN i ELSE i + 1
    <3>0. j \in 1 .. Len(reg) /\ r[i] = reg[j] /\ reg[j] \in Strand
      BY <1>0, <1>2, <2>0 DEF Cut
    <3>1. t.is[r[i]].next = Nth(reg, j + 1) /\ t.is[r[i]].prev = Nth(reg, j - 1)
      <4>. HIDE DEF j
      <4>. QED BY <3>0 DEF Chained
    <3>2. u.is[r[i]].next = Nth(r, i + 1)
      <4>1. CASE j = k - 1
        <5>1. before = r[i] /\ before # NoCoroutine
          BY <1>0, <1>1, <3>0, <4>1
        <5>2. u.is[r[i]].next = Nth(reg, k + 1)
          BY <1>1, <1>n, <1>p, <3>0, <5>1
        <5>3. Nth(reg, k + 1) = Nth(r, i + 1)
          BY <1>0, <1>2, <2>0, <4>1 DEF Nth, Cut
        <5>. QED BY <5>2, <5>3
      <4>2. CASE j # k - 1
        <5>1. before # NoCoroutine => before # r[i]
          <6>. HIDE DEF j
          <6>. QED BY <1>0, <1>1, <3>0, <4>2 DEF Distinct
        <5>2. u.is[r[i]].next = Nth(reg, j + 1)
          <6>. HIDE DEF j
          <6>. QED BY <1>n, <1>p, <3>0, <3>1, <5>1
        <5>3. Nth(reg, j + 1) = Nth(r, i + 1)
          BY <1>0, <1>2, <2>0, <4>2 DEF Nth, Cut
        <5>. QED BY <5>2, <5>3
      <4>. QED BY <4>1, <4>2
    <3>3. u.is[r[i]].prev = Nth(r, i - 1)
      <4>1. CASE j = k + 1
        <5>1. after = r[i] /\ after # NoCoroutine
          BY <1>0, <1>1, <3>0, <4>1
        <5>2. u.is[r[i]].prev = Nth(reg, k - 1)
          BY <1>1, <1>n, <1>p, <3>0, <5>1
        <5>3. Nth(reg, k - 1) = Nth(r, i - 1)
          BY <1>0, <1>2, <2>0, <4>1 DEF Nth, Cut
        <5>. QED BY <5>2, <5>3
      <4>2. CASE j # k + 1
        <5>1. after # NoCoroutine => after # r[i]
          <6>. HIDE DEF j
          <6>. QED BY <1>0, <1>1, <3>0, <4>2 DEF Distinct
        <5>2. u.is[r[i]].prev = Nth(reg, j - 1)
          <6>. HIDE DEF j
          <6>. QED BY <1>n, <1>p, <3>0, <3>1, <5>1
        <5>3. Nth(reg, j - 1) = Nth(r, i - 1)
          BY <1>0, <1>2, <2>0, <4>2 DEF Nth, Cut
        <5>. QED BY <5>2, <5>3
      <4>. QED BY <4>1, <4>2
    <3>. QED BY <3>2, <3>3
  <2>. QED BY <1>2, <2>0, <2>1, <2>2 DEF Chained
<1>8. /\ Shaped(u) /\ SameStacks(t, u) /\ SameRest(t, u)
      /\ \E q : Chained(u, q) /\ \A d : Among(d, q) <=> Among(d, reg) /\ d # c
  BY <1>2, <1>5, <1>6
<1>. QED BY <1>8 DEF u

(* The shelves.                                                             *)
LEMMA Rounds ==
    ASSUME NEW size \in Nat
    PROVE  C!Rounded(size) \in Nat /\ size <= C!Rounded(size)
<1>. DEFINE n == (size + PageSize - 1) \div PageSize
<1>1. n \in Nat /\ n * PageSize >= size
  BY Sizes, RoundedUp
<1>2. C!Rounded(size) = n * PageSize
  BY DEF C!Rounded
<1>. HIDE DEF n
<1>3. n * PageSize \in Nat
  BY <1>1, Sizes
<1>. QED BY <1>1, <1>2, <1>3

\* q has every place of p, but that at i.
LEMMA ShelvedPop ==
    ASSUME NEW sizes \in Seq(Nat), NEW q, Shelved(q, sizes), NEW i \in 1 .. Len(q),
           q[i].free # <<>>
    PROVE  LET p == [q EXCEPT ![i].free = Tail(@)]
           IN  /\ Shelved(p, sizes) /\ Head(q[i].free) \in 1 .. Len(sizes)
               /\ sizes[Head(q[i].free)] = q[i].size
               /\ \A x : IsSpare(p, x) <=> IsSpare(q, x) /\ x # Head(q[i].free)
<1>. DEFINE p == [q EXCEPT ![i].free = Tail(@)]
            f == q[i].free
            first == Head(f)
<1>0. /\ q \in Seq(Shelf) /\ f \in Seq(Nat) /\ Len(q) \in Nat /\ \A k \in 1 .. Len(q) : q[k] \in Shelf
  <2>1. q \in Seq(Shelf) /\ Len(q) \in Nat /\ \A k \in 1 .. Len(q) : q[k] \in Shelf
    BY DEF Shelved
  <2>2. f \in Seq(Nat)
    BY <2>1 DEF Shelf
  <2>. QED BY <2>1, <2>2
<1>1. /\ Len(f) \in Nat \ {0} /\ first = f[1] /\ Tail(f) \in Seq(Nat) /\ Len(Tail(f)) = Len(f) - 1
      /\ \A j \in 1 .. Len(f) - 1 : Tail(f)[j] = f[j + 1]
  BY <1>0
<1>2. /\ p \in Seq(Shelf) /\ Len(p) = Len(q)
      /\ \A k \in 1 .. Len(q) : k # i => p[k] = q[k]
      /\ p[i].free = Tail(f) /\ p[i].size = q[i].size
  <2>. DEFINE v == [q[i] EXCEPT !.free = Tail(f)]
  <2>1. v \in Shelf /\ v.free = Tail(f) /\ v.size = q[i].size
    BY <1>0, <1>1 DEF Shelf
  <2>2. p = [q EXCEPT ![i] = v]
    OBVIOUS
  <2>. HIDE DEF p, f, v
  <2>3. /\ p \in Seq(Shelf) /\ Len(p) = Len(q) /\ p[i] = v
        /\ \A k \in 1 .. Len(q) : k # i => p[k] = q[k]
    BY <1>0, <2>1, <2>2
  <2>. QED BY <2>1, <2>3
<1>. HIDE DEF p, f, first
<1>. DEFINE To(k, j) == IF k = i THEN j + 1 ELSE j
<1>3. ASSUME NEW k \in 1 .. Len(q), NEW j \in 1 .. Len(p[k].free)
      PROVE  /\ To(k, j) \in 1 .. Len(q[k].free) /\ p[k].free[j] = q[k].free[To(k, j)]
             /\ p[k].size = q[k].size
             /\ To(k, j) # 1 \/ k # i
             /\ j \in Nat
  <2>1. CASE k = i
    <3>1. p[k].free = Tail(f) /\ q[k].free = f /\ p[k].size = q[k].size /\ To(k, j) = j + 1
      BY <1>2, <2>1 DEF f
    <3>2. j \in 1 .. Len(f) - 1
      BY <1>1, <3>1
    <3>3. j \in Nat /\ j + 1 \in 1 .. Len(f) /\ j + 1 # 1 /\ Tail(f)[j] = f[j + 1]
      BY <1>1, <3>2
    <3>. HIDE DEF To
    <3>. QED BY <3>1, <3>3
  <2>2. CASE k # i
    BY <1>0, <1>2, <2>2
  <2>. QED BY <2>1, <2>2
<1>4. Shelved(p, sizes)
  <2>1. ASSUME NEW k \in 1 .. Len(q), NEW j \in 1 .. Len(p[k].free)
        PROVE  p[k].free[j] \in 1 .. Len(sizes) /\ sizes[p[k].free[j]] = p[k].size
    <3>. HIDE DEF To
    <3>1. /\ To(k, j) \in 1 .. Len(q[k].free) /\ p[k].free[j] = q[k].free[To(k, j)]
          /\ p[k].size = q[k].size
      BY <1>3
    <3>. QED BY <3>1 DEF Shelved, Fitting
  <2>2. ASSUME NEW k \in 1 .. Len(q), NEW j \in 1 .. Len(p[k].free),
               NEW l \in 1 .. Len(q), NEW m \in 1 .. Len(p[l].free),
               p[k].free[j] = p[l].free[m]
        PROVE  k = l /\ j = m
    <3>1. k = l /\ To(k, j) = To(l, m)
      <4>. HIDE DEF To
      <4>1. /\ To(k, j) \in 1 .. Len(q[k].free) /\ To(l, m) \in 1 .. Len(q[l].free)
            /\ q[k].free[To(k, j)] = q[l].free[To(l, m)]
        BY <1>3, <2>2
      <4>. QED BY <4>1 DEF Shelved, Once
    <3>2. j \in Nat /\ m \in Nat
      BY <1>3
    <3>. QED BY <3>1, <3>2
  <2>3. Fitting(p, sizes)
    BY ONLY <1>2, <2>1 DEF Fitting
  <2>4. Once(p)
    BY ONLY <1>2, <2>2 DEF Once
  <2>. QED BY ONLY <1>2, <2>3, <2>4 DEF Shelved
<1>5. 1 \in 1 .. Len(f)
  BY <1>1
<1>6. ASSUME NEW x PROVE IsSpare(p, x) <=> IsSpare(q, x) /\ x # first
  <2>1. ASSUME NEW k \in 1 .. Len(q), NEW j \in 1 .. Len(p[k].free), p[k].free[j] = x
        PROVE  IsSpare(q, x) /\ x # first
    <3>1. /\ To(k, j) \in 1 .. Len(q[k].free) /\ x = q[k].free[To(k, j)]
          /\ To(k, j) # 1 \/ k # i
      BY <1>3, <2>1
    <3>. HIDE DEF To
    <3>2. x # f[1]
      BY <1>5, <3>1 DEF Shelved, Once, f
    <3>. QED BY <1>1, <3>1, <3>2 DEF IsSpare
  <2>2. ASSUME NEW k \in 1 .. Len(q), NEW j \in 1 .. Len(q[k].free), q[k].free[j] = x, x # first
        PROVE  IsSpare(p, x)
    <3>1. CASE k # i
      <4>1. k \in 1 .. Len(p) /\ j \in 1 .. Len(p[k].free) /\ p[k].free[j] = x
        BY <1>2, <2>2, <3>1
      <4>. QED BY <4>1 DEF IsSpare
    <3>2. CASE k = i
      <4>1. j # 1 /\ j \in 1 .. Len(f) /\ f[j] = x
        BY <1>1, <2>2, <3>2 DEF f
      <4>2. j - 1 \in 1 .. Len(f) - 1 /\ (j - 1) + 1 = j
        BY <1>1, <4>1
      <4>3. k \in 1 .. Len(p) /\ j - 1 \in 1 .. Len(p[k].free) /\ p[k].free[j - 1] = x
        BY <1>1, <1>2, <3>2, <4>1, <4>2
      <4>. QED BY <4>3 DEF IsSpare
    <3>. QED BY <3>1, <3>2
  <2>. QED BY <1>2, <2>1, <2>2 DEF IsSpare
<1>7. first \in 1 .. Len(sizes) /\ sizes[first] = q[i].size
  BY <1>1, <1>5 DEF Shelved, Fitting, f
<1>. QED BY <1>4, <1>6, <1>7 DEF p, f, first

\* A stack is put on a shelf of its size, the first on it.
Pushed(q, p, sizes, s) ==
    /\ Shelved(p, sizes)
    /\ \A x : IsSpare(p, x) <=> IsSpare(q, x) \/ x = s

LEMMA ShelvedPush ==
    ASSUME NEW sizes \in Seq(Nat), NEW q, Shelved(q, sizes), NEW i \in 1 .. Len(q),
           NEW s \in 1 .. Len(sizes), sizes[s] = q[i].size, ~IsSpare(q, s)
    PROVE  Pushed(q, [q EXCEPT ![i].free = <<s>> \o @], sizes, s)
<1>. DEFINE f == q[i].free
            g == <<s>> \o f
            p == [q EXCEPT ![i].free = <<s>> \o @]
<1>0. /\ q \in Seq(Shelf) /\ f \in Seq(Nat) /\ Len(q) \in Nat /\ \A k \in 1 .. Len(q) : q[k] \in Shelf
      /\ s \in Nat /\ Len(f) \in Nat
  <2>1. q \in Seq(Shelf) /\ Len(q) \in Nat /\ \A k \in 1 .. Len(q) : q[k] \in Shelf
    BY DEF Shelved
  <2>2. f \in Seq(Nat)
    BY <2>1 DEF Shelf
  <2>3. s \in Nat /\ Len(f) \in Nat
    BY <2>2
  <2>. QED BY <2>1, <2>2, <2>3
<1>1. /\ g \in Seq(Nat) /\ Len(g) = Len(f) + 1 /\ g[1] = s
      /\ \A j \in 2 .. Len(g) : j - 1 \in 1 .. Len(f) /\ g[j] = f[j - 1]
      /\ \A j \in 1 .. Len(f) : j + 1 \in 1 .. Len(g) /\ g[j + 1] = f[j]
  BY <1>0
<1>2. /\ p \in Seq(Shelf) /\ Len(p) = Len(q)
      /\ \A k \in 1 .. Len(q) : k # i => p[k] = q[k]
      /\ p[i].free = g /\ p[i].size = q[i].size
  <2>1. [q[i] EXCEPT !.free = g] \in Shelf
    <3>. HIDE DEF g
    <3>. QED BY <1>0, <1>1 DEF Shelf
  <2>. DEFINE a == [q[i] EXCEPT !.free = g]
  <2>2. p = [q EXCEPT ![i] = a]
    OBVIOUS
  <2>. HIDE DEF p, f, g
  <2>4. a.free = g /\ a.size = q[i].size
    BY <1>0 DEF Shelf
  <2>. HIDE DEF a
  <2>5. q \in Seq(Shelf) /\ i \in 1 .. Len(q) /\ a \in Shelf
    BY <1>0, <2>1 DEF a
  <2>. HIDE DEF Shelf
  <2>3. p \in Seq(Shelf) /\ Len(p) = Len(q) /\ p[i] = a
    BY ONLY <2>2, <2>5
  <2>6. \A k \in 1 .. Len(q) : k # i => p[k] = q[k]
    BY ONLY <2>2, <2>5
  <2>. QED BY <2>3, <2>4, <2>6
<1>. HIDE DEF p, f, g
<1>. DEFINE To(k, j) == IF k = i THEN j - 1 ELSE j
<1>3. ASSUME NEW k \in 1 .. Len(q), NEW j \in 1 .. Len(p[k].free), ~(k = i /\ j = 1)
      PROVE  /\ To(k, j) \in 1 .. Len(q[k].free) /\ p[k].free[j] = q[k].free[To(k, j)]
             /\ p[k].size = q[k].size /\ j \in Nat
             /\ p[k].free[j] # s
  <2>1. /\ To(k, j) \in 1 .. Len(q[k].free) /\ p[k].free[j] = q[k].free[To(k, j)]
        /\ p[k].size = q[k].size /\ j \in Nat
    <3>1. CASE k = i
      <4>1. p[k].free = g /\ q[k].free = f /\ p[k].size = q[k].size /\ To(k, j) = j - 1
        BY <1>2, <3>1 DEF f
      <4>2. j \in 2 .. Len(g) /\ j \in Nat
        BY <1>0, <1>1, <1>3, <3>1, <4>1
      <4>3. j - 1 \in 1 .. Len(f) /\ g[j] = f[j - 1]
        BY <1>1, <4>2
      <4>. HIDE DEF To
      <4>. QED BY <4>1, <4>2, <4>3
    <3>2. CASE k # i
      BY <1>0, <1>2, <3>2
    <3>. QED BY <3>1, <3>2
  <2>. HIDE DEF To
  <2>2. p[k].free[j] # s
    BY <2>1 DEF IsSpare
  <2>. QED BY <2>1, <2>2
<1>4. Shelved(p, sizes)
  <2>1. ASSUME NEW k \in 1 .. Len(q), NEW j \in 1 .. Len(p[k].free)
        PROVE  p[k].free[j] \in 1 .. Len(sizes) /\ sizes[p[k].free[j]] = p[k].size
    <3>1. CASE k = i /\ j = 1
      BY <1>1, <1>2, <3>1
    <3>2. CASE ~(k = i /\ j = 1)
      <4>. HIDE DEF To
      <4>1. /\ To(k, j) \in 1 .. Len(q[k].free) /\ p[k].free[j] = q[k].free[To(k, j)]
            /\ p[k].size = q[k].size
        BY <1>3, <3>2
      <4>. QED BY <4>1 DEF Shelved, Fitting
    <3>. QED BY <3>1, <3>2
  <2>2. ASSUME NEW k \in 1 .. Len(q), NEW j \in 1 .. Len(p[k].free),
               NEW l \in 1 .. Len(q), NEW m \in 1 .. Len(p[l].free),
               p[k].free[j] = p[l].free[m]
        PROVE  k = l /\ j = m
    <3>1. CASE (k = i /\ j = 1) \/ (l = i /\ m = 1)
      <4>1. p[i].free[1] = s
        BY <1>1, <1>2
      <4>. HIDE DEF To
      <4>2. (k = i /\ j = 1) \/ p[k].free[j] # s
        BY <1>3
      <4>3. (l = i /\ m = 1) \/ p[l].free[m] # s
        BY <1>3
      <4>. QED BY <2>2, <3>1, <4>1, <4>2, <4>3
    <3>2. CASE ~(k = i /\ j = 1) /\ ~(l = i /\ m = 1)
      <4>1. k = l /\ To(k, j) = To(l, m)
        <5>. HIDE DEF To
        <5>. DEFINE a == To(k, j)  b == To(l, m)
        <5>1. /\ a \in 1 .. Len(q[k].free) /\ b \in 1 .. Len(q[l].free)
              /\ q[k].free[a] = q[l].free[b]
          BY <1>3, <2>2, <3>2
        <5>. HIDE DEF a, b
        <5>2. Once(q)
          BY DEF Shelved
        <5>3. k = l /\ a = b
          BY <5>1, <5>2 DEF Once
        <5>. QED BY <5>3 DEF a, b
      <4>2. j \in Nat /\ m \in Nat
        BY <1>3, <3>2
      <4>. QED BY <4>1, <4>2
    <3>. QED BY <3>1, <3>2
  <2>3. Fitting(p, sizes)
    <3>. HIDE DEF To
    <3>. QED BY <1>2, <2>1 DEF Fitting
  <2>4. Once(p)
    <3>. HIDE DEF To
    <3>. QED BY <1>2, <2>2 DEF Once
  <2>. QED BY <1>2, <2>3, <2>4 DEF Shelved
<1>5. IsSpare(p, s)
  <2>1. i \in 1 .. Len(p) /\ 1 \in 1 .. Len(p[i].free) /\ p[i].free[1] = s
    BY <1>0, <1>1, <1>2
  <2>. QED BY <2>1 DEF IsSpare
<1>6. ASSUME NEW x PROVE IsSpare(p, x) <=> IsSpare(q, x) \/ x = s
  <2>1. ASSUME NEW k \in 1 .. Len(q), NEW j \in 1 .. Len(p[k].free), p[k].free[j] = x, x # s
        PROVE  IsSpare(q, x)
    <3>1. ~(k = i /\ j = 1)
      BY <1>1, <1>2, <2>1
    <3>2. To(k, j) \in 1 .. Len(q[k].free) /\ x = q[k].free[To(k, j)]
      BY <1>3, <2>1, <3>1
    <3>. HIDE DEF To
    <3>. QED BY <3>2 DEF IsSpare
  <2>2. ASSUME NEW k \in 1 .. Len(q), NEW j \in 1 .. Len(q[k].free), q[k].free[j] = x
        PROVE  IsSpare(p, x)
    <3>1. CASE k # i
      <4>1. k \in 1 .. Len(p) /\ j \in 1 .. Len(p[k].free) /\ p[k].free[j] = x
        BY <1>2, <2>2, <3>1
      <4>. QED BY <4>1 DEF IsSpare
    <3>2. CASE k = i
      <4>3. k \in 1 .. Len(p) /\ j + 1 \in 1 .. Len(p[k].free) /\ p[k].free[j + 1] = x
        BY <1>1, <1>2, <2>2, <3>2 DEF f
      <4>. QED BY <4>3 DEF IsSpare
    <3>. QED BY <3>1, <3>2
  <2>. QED BY <1>2, <1>5, <2>1, <2>2 DEF IsSpare
<1>7. Pushed(q, p, sizes, s)
  BY <1>4, <1>6 DEF Pushed
<1>. QED BY <1>7 DEF p

\* A new shelf, in front of the others.
LEMMA ShelvedFirst ==
    ASSUME NEW sizes \in Seq(Nat), NEW q, Shelved(q, sizes),
           NEW s \in 1 .. Len(sizes), NEW size \in Nat, sizes[s] = size, ~IsSpare(q, s)
    PROVE  LET p == <<[size |-> size, free |-> <<s>>]>> \o q
           IN  /\ Shelved(p, sizes)
               /\ \A x : IsSpare(p, x) <=> IsSpare(q, x) \/ x = s
<1>. DEFINE new == [size |-> size, free |-> <<s>>]
            p == <<new>> \o q
<1>0. q \in Seq(Shelf) /\ Len(q) \in Nat /\ s \in Nat
  BY DEF Shelved
<1>1. /\ new \in Shelf /\ new.size = size /\ Len(new.free) = 1 /\ new.free[1] = s
  BY <1>0 DEF Shelf
<1>. HIDE DEF new
<1>2. /\ p \in Seq(Shelf) /\ Len(p) = Len(q) + 1 /\ p[1] = new
      /\ \A k \in 2 .. Len(p) : k - 1 \in 1 .. Len(q) /\ p[k] = q[k - 1]
      /\ \A k \in 1 .. Len(q) : k + 1 \in 1 .. Len(p) /\ p[k + 1] = q[k]
  BY <1>0, <1>1
<1>. HIDE DEF p
<1>3. 1 \in 1 .. Len(p) /\ 1 \in 1 .. Len(p[1].free) /\ p[1].free[1] = s
  BY <1>0, <1>1, <1>2
<1>4. ASSUME NEW k \in 1 .. Len(p), NEW j \in 1 .. Len(p[k].free)
      PROVE  \/ k = 1 /\ j = 1
             \/ /\ k - 1 \in 1 .. Len(q) /\ p[k] = q[k - 1] /\ j \in 1 .. Len(q[k - 1].free)
                /\ p[k].free[j] # s /\ k \in Nat
  <2>1. CASE k = 1
    <3>1. p[k].free = new.free /\ 1 .. Len(new.free) = {1}
      BY <1>1, <1>2, <2>1
    <3>. QED BY <2>1, <3>1
  <2>2. CASE k # 1
    <3>1. k - 1 \in 1 .. Len(q) /\ p[k] = q[k - 1] /\ k \in Nat
      BY <1>0, <1>2, <2>2
    <3>2. j \in 1 .. Len(q[k - 1].free) /\ p[k].free[j] = q[k - 1].free[j]
      BY <3>1
    <3>3. p[k].free[j] # s
      BY <3>1, <3>2 DEF IsSpare
    <3>. QED BY <3>1, <3>2, <3>3
  <2>. QED BY <2>1, <2>2
<1>5. Shelved(p, sizes)
  <2>1. ASSUME NEW k \in 1 .. Len(p), NEW j \in 1 .. Len(p[k].free)
        PROVE  p[k].free[j] \in 1 .. Len(sizes) /\ sizes[p[k].free[j]] = p[k].size
    <3>1. CASE k = 1 /\ j = 1
      BY <1>1, <1>2, <3>1
    <3>2. CASE ~(k = 1 /\ j = 1)
      <4>1. k - 1 \in 1 .. Len(q) /\ p[k] = q[k - 1] /\ j \in 1 .. Len(q[k - 1].free)
        BY <1>4, <3>2
      <4>. QED BY <4>1 DEF Shelved, Fitting
    <3>. QED BY <3>1, <3>2
  <2>2. ASSUME NEW k \in 1 .. Len(p), NEW j \in 1 .. Len(p[k].free),
               NEW l \in 1 .. Len(p), NEW m \in 1 .. Len(p[l].free),
               p[k].free[j] = p[l].free[m]
        PROVE  k = l /\ j = m
    <3>1. CASE (k = 1 /\ j = 1) \/ (l = 1 /\ m = 1)
      BY <1>3, <1>4, <2>2, <3>1
    <3>2. CASE ~(k = 1 /\ j = 1) /\ ~(l = 1 /\ m = 1)
      <4>1. /\ k - 1 \in 1 .. Len(q) /\ p[k] = q[k - 1] /\ j \in 1 .. Len(q[k - 1].free)
            /\ k \in Nat
        BY <1>4, <3>2
      <4>2. /\ l - 1 \in 1 .. Len(q) /\ p[l] = q[l - 1] /\ m \in 1 .. Len(q[l - 1].free)
            /\ l \in Nat
        BY <1>4, <3>2
      <4>. DEFINE a == k - 1  b == l - 1
      <4>3. /\ a \in 1 .. Len(q) /\ b \in 1 .. Len(q)
            /\ j \in 1 .. Len(q[a].free) /\ m \in 1 .. Len(q[b].free)
            /\ q[a].free[j] = q[b].free[m]
        BY <2>2, <4>1, <4>2
      <4>. HIDE DEF a, b
      <4>4. a = b /\ j = m
        BY <4>3 DEF Shelved, Once
      <4>. QED BY <4>1, <4>2, <4>4 DEF a, b
    <3>. QED BY <3>1, <3>2
  <2>3. Fitting(p, sizes)
    BY ONLY <1>2, <2>1 DEF Fitting
  <2>4. Once(p)
    BY ONLY <1>2, <2>2 DEF Once
  <2>. QED BY ONLY <1>2, <2>3, <2>4 DEF Shelved
<1>6. ASSUME NEW x PROVE IsSpare(p, x) <=> IsSpare(q, x) \/ x = s
  <2>1. ASSUME NEW k \in 1 .. Len(p), NEW j \in 1 .. Len(p[k].free), p[k].free[j] = x, x # s
        PROVE  IsSpare(q, x)
    <3>1. k - 1 \in 1 .. Len(q) /\ j \in 1 .. Len(q[k - 1].free) /\ q[k - 1].free[j] = x
      BY <1>3, <1>4, <2>1
    <3>. QED BY <3>1 DEF IsSpare
  <2>2. ASSUME NEW k \in 1 .. Len(q), NEW j \in 1 .. Len(q[k].free), q[k].free[j] = x
        PROVE  IsSpare(p, x)
    <3>1. k + 1 \in 1 .. Len(p) /\ j \in 1 .. Len(p[k + 1].free) /\ p[k + 1].free[j] = x
      BY <1>2, <2>2
    <3>. QED BY <3>1 DEF IsSpare
  <2>. QED BY <1>3, <2>1, <2>2 DEF IsSpare
<1>. QED BY <1>5, <1>6 DEF p, new

(* A stack is taken from its shelf or made, and put back.                  *)
Allocated(t, u, reg, c, size) ==
    LET s == u.is[c].stack
    IN  /\ Shaped(u) /\ SameLinks(t, u) /\ SameRest(t, u)
        /\ \A d \in Strand : /\ d # c => u.is[d].stack = t.is[d].stack
                             /\ u.is[d].size = t.is[d].size
        /\ u.stacks \in Seq(Nat) /\ Shelved(u.spare, u.stacks)
        /\ s \in 1 .. Len(u.stacks) /\ u.stacks[s] = C!Rounded(size)
        /\ ~IsSpare(u.spare, s)
        /\ \A d \in Coroutine : Among(d, reg) => t.is[d].stack # s
        /\ \A x \in 1 .. Len(t.stacks) : x \in 1 .. Len(u.stacks) /\ u.stacks[x] = t.stacks[x]
        /\ \A x \in 1 .. Len(u.stacks) : x # s => x \in 1 .. Len(t.stacks)
        /\ \A x : x # s => (IsSpare(u.spare, x) <=> IsSpare(t.spare, x))

LEMMA StackAllocDoes ==
    ASSUME NEW t, Shaped(t), NEW reg, Stacked(t, reg), NEW c \in Coroutine, NEW size \in Nat
    PROVE  Allocated(t, C!StackAlloc(t, c, size), reg, c, size)
<1>. DEFINE R == C!Rounded(size)
            spare == {i \in C!Place(t, R) : t.spare[i].free # <<>>}
            u == C!StackAlloc(t, c, size)
            s == u.is[c].stack
            Changed(v, x, st, sp) == v = [t EXCEPT !.is[c].stack = x, !.stacks = st, !.spare = sp]
<1>0. /\ t.stacks \in Seq(Nat) /\ Shelved(t.spare, t.stacks) /\ Len(t.stacks) \in Nat
      /\ R \in Nat /\ c \in Strand
  BY Strands, Rounds DEF Stacked
<1>1. ASSUME NEW v, NEW x, NEW st, NEW sp, Changed(v, x, st, sp)
      PROVE  /\ Shaped(v) /\ SameLinks(t, v) /\ SameRest(t, v)
             /\ \A d \in Strand : /\ d # c => v.is[d].stack = t.is[d].stack
                                  /\ v.is[d].size = t.is[d].size
             /\ v.is[c].stack = x /\ v.stacks = st /\ v.spare = sp
  <2>1. Shaped(v) /\ v.stacks = st /\ v.spare = sp /\ v.is[c].stack = x
    BY <1>0, <1>1 DEF Shaped, Fields
  <2>2. SameLinks(t, v)
    BY <1>0, <1>1 DEF Shaped, Fields, SameLinks
  <2>3. SameRest(t, v)
    BY <1>0, <1>1 DEF Shaped, Fields, SameRest
  <2>4. \A d \in Strand : /\ d # c => v.is[d].stack = t.is[d].stack
                          /\ v.is[d].size = t.is[d].size
    BY <1>0, <1>1 DEF Shaped, Fields
  <2>. QED BY <2>1, <2>2, <2>3, <2>4
<1>2. CASE spare = {}
  <2>. DEFINE new == Len(t.stacks) + 1
              st == Append(t.stacks, R)
  <2>1. u = [t EXCEPT !.stacks = Append(@, R), !.is[c].stack = new]
    BY <1>2 DEF C!StackAlloc
  <2>2. Changed(u, new, st, t.spare)
    <3>. HIDE DEF new, u, R
    <3>. QED BY ONLY <2>1, Shaped(t), Zenon DEF Shaped, Changed
  <2>3. /\ st \in Seq(Nat) /\ Len(st) = new /\ new \in Nat /\ st[new] = R
        /\ \A x \in 1 .. Len(t.stacks) : x \in 1 .. new /\ st[x] = t.stacks[x] /\ x # new
        /\ \A x \in 1 .. new : x # new => x \in 1 .. Len(t.stacks)
        /\ new \in 1 .. new /\ new \notin 1 .. Len(t.stacks)
    <3>. HIDE DEF R
    <3>. QED BY <1>0
  <2>. HIDE DEF u, R, new, st, Changed
  <2>4. /\ Shaped(u) /\ SameLinks(t, u) /\ SameRest(t, u)
        /\ \A d \in Strand : /\ d # c => u.is[d].stack = t.is[d].stack
                             /\ u.is[d].size = t.is[d].size
        /\ s = new /\ u.stacks = st /\ u.spare = t.spare
    BY <1>1, <2>2
  <2>. HIDE DEF s
  <2>5. Shelved(t.spare, st) /\ ~IsSpare(t.spare, new)
    <3>1. \A i \in 1 .. Len(t.spare) : \A j \in 1 .. Len(t.spare[i].free) :
              /\ t.spare[i].free[j] \in 1 .. Len(t.stacks)
              /\ t.stacks[t.spare[i].free[j]] = t.spare[i].size
      BY <1>0 DEF Shelved, Fitting
    <3>2. Fitting(t.spare, st)
      BY <2>3, <3>1 DEF Fitting
    <3>3. ~IsSpare(t.spare, new)
      BY <2>3, <3>1 DEF IsSpare
    <3>. QED BY <1>0, <3>2, <3>3 DEF Shelved
  <2>6. \A d \in Coroutine : Among(d, reg) => t.is[d].stack # new
    BY <2>3 DEF Stacked
  <2>7. /\ u.stacks \in Seq(Nat) /\ Shelved(u.spare, u.stacks)
        /\ s \in 1 .. Len(u.stacks) /\ u.stacks[s] = R
        /\ ~IsSpare(u.spare, s)
        /\ \A d \in Coroutine : Among(d, reg) => t.is[d].stack # s
        /\ \A x \in 1 .. Len(t.stacks) : x \in 1 .. Len(u.stacks) /\ u.stacks[x] = t.stacks[x]
        /\ \A x \in 1 .. Len(u.stacks) : x # s => x \in 1 .. Len(t.stacks)
        /\ \A x : x # s => (IsSpare(u.spare, x) <=> IsSpare(t.spare, x))
    BY <2>3, <2>4, <2>5, <2>6
  <2>. QED BY <2>4, <2>7 DEF u, R, s, Allocated
<1>3. CASE spare # {}
  <2>. DEFINE i == CHOOSE i \in spare : TRUE
              x0 == Head(t.spare[i].free)
              sp == [t.spare EXCEPT ![i].free = Tail(@)]
  <2>1. i \in spare
    BY <1>3
  <2>2. u = [t EXCEPT !.is[c].stack = x0, !.spare[i].free = Tail(@)]
    BY <1>3 DEF C!StackAlloc
  <2>. HIDE DEF i
  <2>3. /\ i \in 1 .. Len(t.spare) /\ t.spare[i].free # <<>>
        /\ t.spare[i].size = R
    <3>1. DOMAIN t.spare = 1 .. Len(t.spare)
      BY <1>0 DEF Shelved
    <3>. HIDE DEF R
    <3>. QED BY <2>1, <3>1 DEF C!Place
  <2>4. Changed(u, x0, t.stacks, sp)
    <3>. HIDE DEF u, R
    <3>. QED BY ONLY <2>2, Shaped(t), Zenon DEF Shaped, Changed, sp, x0
  <2>5. /\ Shelved(sp, t.stacks) /\ x0 \in 1 .. Len(t.stacks) /\ t.stacks[x0] = R
        /\ \A x : IsSpare(sp, x) <=> IsSpare(t.spare, x) /\ x # x0
    <3>. HIDE DEF R
    <3>. QED BY <1>0, <2>3, ShelvedPop
  <2>6. IsSpare(t.spare, x0)
    <3>1. t.spare[i].free \in Seq(Nat)
      <4>1. t.spare[i] \in Shelf
        BY <1>0, <2>3 DEF Shelved
      <4>. QED BY <4>1 DEF Shelf
    <3>2. 1 \in 1 .. Len(t.spare[i].free) /\ t.spare[i].free[1] = x0
      BY <2>3, <3>1
    <3>. QED BY <2>3, <3>2 DEF IsSpare
  <2>. HIDE DEF u, R, x0, sp, Changed
  <2>7. /\ Shaped(u) /\ SameLinks(t, u) /\ SameRest(t, u)
        /\ \A d \in Strand : /\ d # c => u.is[d].stack = t.is[d].stack
                             /\ u.is[d].size = t.is[d].size
        /\ s = x0 /\ u.stacks = t.stacks /\ u.spare = sp
    BY <1>1, <2>4
  <2>. HIDE DEF s
  <2>8. \A d \in Coroutine : Among(d, reg) => t.is[d].stack # x0
    BY <2>6 DEF Stacked
  <2>9. /\ u.stacks \in Seq(Nat) /\ Shelved(u.spare, u.stacks)
        /\ s \in 1 .. Len(u.stacks) /\ u.stacks[s] = R
        /\ ~IsSpare(u.spare, s)
        /\ \A d \in Coroutine : Among(d, reg) => t.is[d].stack # s
        /\ \A x \in 1 .. Len(t.stacks) : x \in 1 .. Len(u.stacks) /\ u.stacks[x] = t.stacks[x]
        /\ \A x \in 1 .. Len(u.stacks) : x # s => x \in 1 .. Len(t.stacks)
        /\ \A x : x # s => (IsSpare(u.spare, x) <=> IsSpare(t.spare, x))
    BY <1>0, <2>5, <2>7, <2>8
  <2>. QED BY <2>7, <2>9 DEF u, R, s, Allocated
<1>. QED BY <1>2, <1>3

LEMMA StackFreeDoes ==
    ASSUME NEW t, Shaped(t), t.stacks \in Seq(Nat), Shelved(t.spare, t.stacks),
           NEW x \in 1 .. Len(t.stacks), NEW size \in Nat, t.stacks[x] = C!Rounded(size),
           ~IsSpare(t.spare, x)
    PROVE  LET u == C!StackFree(t, x, size)
           IN  /\ Shaped(u) /\ u.is = t.is /\ u.registry = t.registry
               /\ u.current = t.current /\ u.phase = t.phase /\ u.stacks = t.stacks
               /\ Shelved(u.spare, u.stacks)
               /\ \A y : IsSpare(u.spare, y) <=> IsSpare(t.spare, y) \/ y = x
<1>. DEFINE R == C!Rounded(size)
            at == C!Place(t, R)
            u == C!StackFree(t, x, size)
            Good(sp) == /\ Shelved(sp, t.stacks)
                        /\ \A y : IsSpare(sp, y) <=> IsSpare(t.spare, y) \/ y = x
<1>0. R \in Nat
  BY Rounds
<1>1. ASSUME NEW sp, u = [t EXCEPT !.spare = sp], Good(sp)
      PROVE  /\ Shaped(u) /\ u.is = t.is /\ u.registry = t.registry
             /\ u.current = t.current /\ u.phase = t.phase /\ u.stacks = t.stacks
             /\ Shelved(u.spare, u.stacks)
             /\ \A y : IsSpare(u.spare, y) <=> IsSpare(t.spare, y) \/ y = x
  <2>. HIDE DEF u
  <2>1. /\ Shaped(u) /\ u.is = t.is /\ u.registry = t.registry
        /\ u.current = t.current /\ u.phase = t.phase /\ u.stacks = t.stacks /\ u.spare = sp
    BY <1>1 DEF Shaped
  <2>. QED BY <1>1, <2>1
<1>2. CASE at = {}
  <2>. DEFINE sp == <<[size |-> R, free |-> <<x>>]>> \o t.spare
  <2>1. u = [t EXCEPT !.spare = sp]
    BY <1>2 DEF C!StackFree
  <2>2. Good(sp)
    <3>. HIDE DEF R
    <3>. QED BY <1>0, ShelvedFirst DEF R
  <2>. HIDE DEF u, sp, Good
  <2>. QED BY <1>1, <2>1, <2>2 DEF u
<1>3. CASE at # {}
  <2>. DEFINE i == CHOOSE i \in at : TRUE
              sp == [t.spare EXCEPT ![i].free = <<x>> \o @]
  <2>1. i \in at
    BY <1>3
  <2>2. u = [t EXCEPT !.spare[i].free = <<x>> \o @]
    BY <1>3 DEF C!StackFree
  <2>. HIDE DEF i
  <2>3. i \in 1 .. Len(t.spare) /\ t.spare[i].size = R
    <3>1. DOMAIN t.spare = 1 .. Len(t.spare)
      BY DEF Shelved
    <3>. HIDE DEF R
    <3>. QED BY <2>1, <3>1 DEF C!Place
  <2>4. u = [t EXCEPT !.spare = sp]
    <3>. DEFINE f == <<x>> \o t.spare[i].free
    <3>1. u = [t EXCEPT !.spare[i].free = f] /\ sp = [t.spare EXCEPT ![i].free = f]
      BY <2>2
    <3>. HIDE DEF u, f, sp
    <3>. QED BY <3>1 DEF Shaped
  <2>5. Good(sp)
    <3>1. t.stacks[x] = t.spare[i].size
      BY <2>3
    <3>. HIDE DEF R
    <3>2. Pushed(t.spare, sp, t.stacks, x)
      BY <2>3, <3>1, ShelvedPush
    <3>. HIDE DEF sp
    <3>. QED BY <3>2 DEF Pushed
  <2>. HIDE DEF u, sp, Good
  <2>. QED BY <1>1, <2>4, <2>5 DEF u
<1>. QED BY <1>2, <1>3

\* The registry and the stacks depend on those in reg alone.
SameStructure(t, u, reg) ==
    /\ u.registry = t.registry /\ u.stacks = t.stacks /\ u.spare = t.spare
    /\ \A d \in Coroutine : Among(d, reg) =>
           /\ u.is[d].next = t.is[d].next /\ u.is[d].prev = t.is[d].prev
           /\ u.is[d].stack = t.is[d].stack /\ u.is[d].size = t.is[d].size

LEMMA StructureKept ==
    ASSUME NEW t, NEW u, NEW reg, Chained(t, reg), Stacked(t, reg), SameStructure(t, u, reg)
    PROVE  Chained(u, reg) /\ Stacked(u, reg)
<1>1. \A i \in 1 .. Len(reg) : reg[i] \in Coroutine /\ Among(reg[i], reg)
  BY DEF Chained, Among
<1>2. Chained(u, reg)
  <2>1. \A i \in 1 .. Len(reg) : /\ u.is[reg[i]].next = t.is[reg[i]].next
                                 /\ u.is[reg[i]].prev = t.is[reg[i]].prev
    BY <1>1 DEF SameStructure
  <2>2. u.registry = t.registry
    BY DEF SameStructure
  <2>. QED BY <2>1, <2>2 DEF Chained
<1>3. Stacked(u, reg)
  <2>1. /\ u.stacks = t.stacks /\ u.spare = t.spare
        /\ \A d \in Coroutine : Among(d, reg) =>
               u.is[d].stack = t.is[d].stack /\ u.is[d].size = t.is[d].size
    BY DEF SameStructure
  <2>. QED BY ONLY Stacked(t, reg), <2>1 DEF Stacked
<1>. QED BY <1>2, <1>3

LEMMA NoneLeft ==
    ASSUME NEW t, NEW reg, Chained(t, reg)
    PROVE  /\ t.registry = NoCoroutine <=> reg = <<>>
           /\ t.registry # NoCoroutine => t.registry \in Coroutine /\ Among(t.registry, reg)
<1>1. reg \in Seq(Coroutine) /\ t.registry = Nth(reg, 1) /\ Len(reg) \in Nat
  BY DEF Chained
<1>2. CASE reg = <<>>
  BY <1>1, <1>2 DEF Nth
<1>3. CASE reg # <<>>
  <2>1. 1 \in 1 .. Len(reg) /\ reg[1] \in Coroutine
    BY <1>1, <1>3
  <2>2. t.registry = reg[1]
    BY <1>1, <2>1 DEF Nth
  <2>. QED BY <1>3, <2>1, <2>2, Strands DEF Among
<1>. QED BY <1>2, <1>3

(* One that has a stack leaves the registry, and the stack is put away.     *)
LEMMA LeavesAndFrees ==
    ASSUME NEW t, NEW reg, Shaped(t), Chained(t, reg), Stacked(t, reg),
           NEW c \in Coroutine, Among(c, reg)
    PROVE  LET u == C!StackFree(C!RegistryRemove(t, c), t.is[c].stack, t.is[c].size)
           IN  /\ Shaped(u) /\ SameRest(t, u)
               /\ \E r : /\ Chained(u, r) /\ Stacked(u, r)
                         /\ \A d : Among(d, r) <=> Among(d, reg) /\ d # c
<1>. DEFINE v == C!RegistryRemove(t, c)
            x == t.is[c].stack
            size == t.is[c].size
            u == C!StackFree(v, x, size)
<1>1. /\ Shaped(v) /\ SameStacks(t, v) /\ SameRest(t, v)
      /\ \E r : Chained(v, r) /\ \A d : Among(d, r) <=> Among(d, reg) /\ d # c
  BY RegistryRemoveDoes
<1>. HIDE DEF v
<1>2. PICK r : Chained(v, r) /\ \A d : Among(d, r) <=> Among(d, reg) /\ d # c
  BY <1>1
<1>3. /\ v.stacks = t.stacks /\ v.spare = t.spare
      /\ \A d \in Coroutine : v.is[d].stack = t.is[d].stack /\ v.is[d].size = t.is[d].size
  BY <1>1, Strands DEF SameStacks
<1>4. /\ t.stacks \in Seq(Nat) /\ Shelved(t.spare, t.stacks)
      /\ x \in 1 .. Len(t.stacks) /\ size \in Nat /\ t.stacks[x] = C!Rounded(size)
      /\ ~IsSpare(t.spare, x)
  BY DEF Stacked
<1>. HIDE DEF x, size
<1>5. /\ Shaped(u) /\ u.is = v.is /\ u.registry = v.registry
      /\ u.current = v.current /\ u.phase = v.phase /\ u.stacks = v.stacks
      /\ Shelved(u.spare, u.stacks)
      /\ \A y : IsSpare(u.spare, y) <=> IsSpare(v.spare, y) \/ y = x
  <2>1. /\ v.stacks \in Seq(Nat) /\ Shelved(v.spare, v.stacks)
        /\ x \in 1 .. Len(v.stacks) /\ v.stacks[x] = C!Rounded(size)
        /\ ~IsSpare(v.spare, x)
    BY <1>3, <1>4
  <2>2. Shaped(v) /\ size \in Nat
    BY <1>1, <1>4
  <2>. QED BY ONLY <2>1, <2>2, StackFreeDoes DEF u
<1>. HIDE DEF u
<1>6. Chained(u, r)
  <2>1. u.is = v.is /\ u.registry = v.registry
    BY <1>5
  <2>. QED BY <1>2, <2>1 DEF Chained
<1>7. SameRest(t, u)
  BY <1>1, <1>5 DEF SameRest
<1>8. Stacked(u, r)
  <2>1. /\ u.stacks = t.stacks /\ \A y : IsSpare(u.spare, y) <=> IsSpare(t.spare, y) \/ y = x
        /\ \A d \in Coroutine : u.is[d].stack = t.is[d].stack /\ u.is[d].size = t.is[d].size
    BY <1>3, <1>5
  <2>2. ASSUME NEW d \in Coroutine, Among(d, r)
        PROVE  /\ u.is[d].stack \in 1 .. Len(u.stacks) /\ u.is[d].size \in Nat
               /\ u.stacks[u.is[d].stack] = C!Rounded(u.is[d].size)
               /\ ~IsSpare(u.spare, u.is[d].stack)
    <3>1. Among(d, reg) /\ d # c
      BY <1>2, <2>2
    <3>2. t.is[d].stack # x
      BY <3>1 DEF Stacked, x
    <3>. QED BY <2>1, <3>1, <3>2 DEF Stacked
  <2>3. \A d, e \in Coroutine :
            Among(d, r) /\ Among(e, r) /\ u.is[d].stack = u.is[e].stack => d = e
    BY <1>2, <2>1 DEF Stacked
  <2>4. ASSUME NEW y \in 1 .. Len(u.stacks)
        PROVE  IsSpare(u.spare, y) \/ \E d \in Coroutine : Among(d, r) /\ u.is[d].stack = y
    <3>1. CASE IsSpare(t.spare, y) \/ y = x
      BY <2>1, <3>1
    <3>2. CASE ~IsSpare(t.spare, y) /\ y # x
      <4>1. PICK d \in Coroutine : Among(d, reg) /\ t.is[d].stack = y
        BY <2>1, <3>2 DEF Stacked
      <4>2. d # c
        BY <3>2, <4>1 DEF x
      <4>. QED BY <1>2, <2>1, <4>1, <4>2
    <3>. QED BY <3>1, <3>2
  <2>5. u.stacks \in Seq(Nat) /\ Shelved(u.spare, u.stacks)
    BY <1>4, <1>5, <2>1
  <2>. QED BY <2>2, <2>3, <2>4, <2>5 DEF Stacked
<1>9. /\ Shaped(u) /\ SameRest(t, u)
      /\ \E q : /\ Chained(u, q) /\ Stacked(u, q)
                /\ \A d : Among(d, q) <=> Among(d, reg) /\ d # c
  <2>1. \A d : Among(d, r) <=> Among(d, reg) /\ d # c
    BY <1>2
  <2>2. Shaped(u)
    BY <1>5
  <2>. QED BY ONLY <1>6, <1>7, <1>8, <2>1, <2>2, Zenon
<1>. QED BY <1>9 DEF u, v, x, size

(* A new one gets a stack and enters the registry.                          *)
Entered(t, u, c, reg, r) ==
    /\ Shaped(u) /\ u.current = t.current /\ u.phase = t.phase
    /\ \A d \in Strand : /\ u.is[d].exists = t.is[d].exists
                         /\ u.is[d].status = IF d = c THEN "initialized" ELSE t.is[d].status
                         /\ u.is[d].caller = t.is[d].caller
                         /\ u.is[d].parent = t.is[d].parent
                         /\ u.is[d].saved = t.is[d].saved
    /\ Chained(u, r) /\ Stacked(u, r)
    /\ \A d : Among(d, r) <=> d = c \/ Among(d, reg)

LEMMA EntersAndAllocates ==
    ASSUME NEW t, NEW reg, Shaped(t), Chained(t, reg), Stacked(t, reg),
           NEW c \in Coroutine, ~Among(c, reg), NEW size \in Nat,
           NEW v, v = C!StackAlloc(t, c, size),
           NEW w, w = [v EXCEPT !.is[c].size = size, !.is[c].status = "initialized"],
           NEW u, u = C!RegistryAdd(w, c)
    PROVE  Entered(t, u, c, reg, <<c>> \o reg)
<1>. DEFINE s == v.is[c].stack
            r == <<c>> \o reg
<1>0. c \in Strand
  BY Strands
<1>1. /\ Shaped(v) /\ SameLinks(t, v) /\ SameRest(t, v)
      /\ \A d \in Strand : /\ d # c => v.is[d].stack = t.is[d].stack
                           /\ v.is[d].size = t.is[d].size
      /\ v.stacks \in Seq(Nat) /\ Shelved(v.spare, v.stacks)
      /\ s \in 1 .. Len(v.stacks) /\ v.stacks[s] = C!Rounded(size)
      /\ ~IsSpare(v.spare, s)
      /\ \A d \in Coroutine : Among(d, reg) => t.is[d].stack # s
      /\ \A x \in 1 .. Len(t.stacks) : x \in 1 .. Len(v.stacks) /\ v.stacks[x] = t.stacks[x]
      /\ \A x \in 1 .. Len(v.stacks) : x # s => x \in 1 .. Len(t.stacks)
      /\ \A x : x # s => (IsSpare(v.spare, x) <=> IsSpare(t.spare, x))
  <2>1. Allocated(t, v, reg, c, size)
    BY StackAllocDoes
  <2>. QED BY <2>1 DEF Allocated
<1>2. /\ Shaped(w) /\ w.stacks = v.stacks /\ w.spare = v.spare
      /\ w.current = v.current /\ w.phase = v.phase
  BY <1>0, <1>1 DEF Shaped, Fields
<1>3. SameLinks(v, w)
  BY <1>0, <1>1 DEF Shaped, Fields, SameLinks
<1>4. \A d \in Strand : /\ w.is[d].exists = v.is[d].exists /\ w.is[d].caller = v.is[d].caller
                        /\ w.is[d].parent = v.is[d].parent /\ w.is[d].saved = v.is[d].saved
                        /\ w.is[d].status = IF d = c THEN "initialized" ELSE v.is[d].status
  BY <1>0, <1>1 DEF Shaped, Fields
<1>5. \A d \in Strand : /\ w.is[d].stack = v.is[d].stack
                        /\ w.is[d].size = IF d = c THEN size ELSE v.is[d].size
  BY <1>0, <1>1 DEF Shaped, Fields
<1>6. Chained(w, reg)
  BY <1>1, <1>3, SameLinksChained
<1>7. /\ Shaped(u) /\ SameStacks(w, u) /\ SameRest(w, u)
      /\ Chained(u, r) /\ \A d : Among(d, r) <=> d = c \/ Among(d, reg)
  BY <1>2, <1>6, RegistryAddDoes
<1>. HIDE DEF s, r
<1>8. /\ u.stacks = v.stacks /\ u.spare = v.spare
      /\ \A d \in Coroutine : /\ u.is[d].stack = IF d = c THEN s ELSE t.is[d].stack
                              /\ u.is[d].size = IF d = c THEN size ELSE t.is[d].size
  <2>1. \A d \in Coroutine : d \in Strand
    BY Strands
  <2>2. /\ u.stacks = w.stacks /\ u.spare = w.spare
        /\ \A d \in Strand : u.is[d].stack = w.is[d].stack /\ u.is[d].size = w.is[d].size
    BY ONLY <1>7 DEF SameStacks
  <2>3. \A d \in Strand : d # c => v.is[d].stack = t.is[d].stack /\ v.is[d].size = t.is[d].size
    BY ONLY <1>1
  <2>. QED BY ONLY <1>2, <1>5, <2>1, <2>2, <2>3 DEF s
<1>9. s \in 1 .. Len(u.stacks) /\ u.stacks[s] = C!Rounded(size) /\ ~IsSpare(u.spare, s)
  BY ONLY <1>1, <1>8
<1>10. u.stacks \in Seq(Nat) /\ Shelved(u.spare, u.stacks)
  BY ONLY <1>1, <1>8
<1>11. \A d \in Coroutine : Among(d, reg) => t.is[d].stack # s
  BY ONLY <1>1
<1>12. \A x \in 1 .. Len(t.stacks) : x \in 1 .. Len(u.stacks) /\ u.stacks[x] = t.stacks[x]
  BY ONLY <1>1, <1>8
<1>13. \A x \in 1 .. Len(u.stacks) : x # s => x \in 1 .. Len(t.stacks)
  BY ONLY <1>1, <1>8
<1>14. \A x : x # s => (IsSpare(u.spare, x) <=> IsSpare(t.spare, x))
  BY ONLY <1>1, <1>8
<1>15. u.is[c].stack = s /\ u.is[c].size = size
  BY ONLY <1>8, c \in Coroutine
<1>16. \A d \in Coroutine : d # c => u.is[d].stack = t.is[d].stack /\ u.is[d].size = t.is[d].size
  BY ONLY <1>8
<1>17. \A d : Among(d, r) <=> d = c \/ Among(d, reg)
  BY ONLY <1>7
<1>18. SameRest(t, v) /\ SameRest(w, u)
  BY ONLY <1>1, <1>7
<1>19. Stacked(u, r)
  <2>1. ASSUME NEW d \in Coroutine, Among(d, r)
        PROVE  /\ u.is[d].stack \in 1 .. Len(u.stacks) /\ u.is[d].size \in Nat
               /\ u.stacks[u.is[d].stack] = C!Rounded(u.is[d].size)
               /\ ~IsSpare(u.spare, u.is[d].stack)
               /\ d # c => Among(d, reg) /\ u.is[d].stack # s
    <3>1. CASE d = c
      BY ONLY <1>9, <1>15, <3>1, size \in Nat
    <3>2. CASE d # c
      <4>1. Among(d, reg) /\ u.is[d].stack = t.is[d].stack /\ u.is[d].size = t.is[d].size
        BY ONLY <1>16, <1>17, <2>1, <3>2, d \in Coroutine
      <4>2. /\ t.is[d].stack \in 1 .. Len(t.stacks) /\ t.is[d].size \in Nat
            /\ t.stacks[t.is[d].stack] = C!Rounded(t.is[d].size)
            /\ ~IsSpare(t.spare, t.is[d].stack)
        BY ONLY <4>1, Stacked(t, reg), d \in Coroutine DEF Stacked
      <4>3. t.is[d].stack # s
        BY ONLY <1>11, <4>1, d \in Coroutine
      <4>4. /\ t.is[d].stack \in 1 .. Len(u.stacks)
            /\ u.stacks[t.is[d].stack] = t.stacks[t.is[d].stack]
        BY ONLY <1>12, <4>2
      <4>5. ~IsSpare(u.spare, t.is[d].stack)
        BY ONLY <1>14, <4>2, <4>3
      <4>. QED BY ONLY <4>1, <4>2, <4>3, <4>4, <4>5
    <3>. QED BY ONLY <3>1, <3>2, Zenon
  <2>2. ASSUME NEW d \in Coroutine, NEW e \in Coroutine, Among(d, r), Among(e, r),
               u.is[d].stack = u.is[e].stack
        PROVE  d = e
    <3>1. CASE d = c \/ e = c
      BY ONLY <1>15, <2>1, <2>2, <3>1, d \in Coroutine, e \in Coroutine
    <3>2. CASE d # c /\ e # c
      <4>1. Among(d, reg) /\ Among(e, reg)
        BY ONLY <1>17, <2>2, <3>2
      <4>2. t.is[d].stack = t.is[e].stack
        BY ONLY <1>16, <2>2, <3>2, d \in Coroutine, e \in Coroutine
      <4>. QED BY ONLY <4>1, <4>2, Stacked(t, reg), d \in Coroutine, e \in Coroutine
                  DEF Stacked
    <3>. QED BY ONLY <3>1, <3>2
  <2>3. ASSUME NEW y \in 1 .. Len(u.stacks)
        PROVE  IsSpare(u.spare, y) \/ \E d \in Coroutine : Among(d, r) /\ u.is[d].stack = y
    <3>1. CASE y = s
      BY ONLY <1>15, <1>17, <3>1, c \in Coroutine
    <3>2. CASE y # s
      <4>1. y \in 1 .. Len(t.stacks) /\ (IsSpare(u.spare, y) <=> IsSpare(t.spare, y))
        BY ONLY <1>13, <1>14, <3>2, y \in 1 .. Len(u.stacks)
      <4>2. CASE IsSpare(t.spare, y)
        BY ONLY <4>1, <4>2
      <4>3. CASE ~IsSpare(t.spare, y)
        <5>1. PICK d \in Coroutine : Among(d, reg) /\ t.is[d].stack = y
          BY ONLY <4>1, <4>3, Stacked(t, reg) DEF Stacked
        <5>2. d # c /\ Among(d, r) /\ u.is[d].stack = y
          BY ONLY <1>16, <1>17, <5>1, ~Among(c, reg), d \in Coroutine
        <5>. QED BY ONLY <5>2, d \in Coroutine
      <4>. QED BY ONLY <4>2, <4>3
    <3>. QED BY ONLY <3>1, <3>2
  <2>4. \A d \in Coroutine : Among(d, r) =>
            /\ u.is[d].stack \in 1 .. Len(u.stacks) /\ u.is[d].size \in Nat
            /\ u.stacks[u.is[d].stack] = C!Rounded(u.is[d].size)
            /\ ~IsSpare(u.spare, u.is[d].stack)
    BY ONLY <2>1, Zenon
  <2>5. \A d, e \in Coroutine :
            Among(d, r) /\ Among(e, r) /\ u.is[d].stack = u.is[e].stack => d = e
    BY ONLY <2>2, Zenon
  <2>6. \A y \in 1 .. Len(u.stacks) :
            IsSpare(u.spare, y) \/ \E d \in Coroutine : Among(d, r) /\ u.is[d].stack = y
    BY ONLY <2>3, Zenon
  <2>. QED BY ONLY <1>10, <2>4, <2>5, <2>6 DEF Stacked
<1>20. /\ u.current = t.current /\ u.phase = t.phase
       /\ \A d \in Strand : /\ u.is[d].exists = t.is[d].exists
                            /\ u.is[d].status = IF d = c THEN "initialized" ELSE t.is[d].status
                            /\ u.is[d].caller = t.is[d].caller
                            /\ u.is[d].parent = t.is[d].parent
                            /\ u.is[d].saved = t.is[d].saved
  <2>1. u.current = t.current /\ u.phase = t.phase
    BY ONLY <1>2, <1>18 DEF SameRest
  <2>2. ASSUME NEW d \in Strand
        PROVE  /\ u.is[d].exists = t.is[d].exists
               /\ u.is[d].status = IF d = c THEN "initialized" ELSE t.is[d].status
               /\ u.is[d].caller = t.is[d].caller
               /\ u.is[d].parent = t.is[d].parent
               /\ u.is[d].saved = t.is[d].saved
    <3>1. /\ v.is[d].exists = t.is[d].exists /\ v.is[d].status = t.is[d].status
          /\ v.is[d].caller = t.is[d].caller /\ v.is[d].parent = t.is[d].parent
          /\ v.is[d].saved = t.is[d].saved
      BY ONLY <1>18, d \in Strand DEF SameRest
    <3>2. /\ u.is[d].exists = w.is[d].exists /\ u.is[d].status = w.is[d].status
          /\ u.is[d].caller = w.is[d].caller /\ u.is[d].parent = w.is[d].parent
          /\ u.is[d].saved = w.is[d].saved
      BY ONLY <1>18, d \in Strand DEF SameRest
    <3>. QED BY ONLY <1>4, <3>1, <3>2, d \in Strand
  <2>. QED BY ONLY <2>1, <2>2
<1>. QED BY <1>7, <1>19, <1>20, Zenon DEF r, Entered

(* The invariant.                                                          *)
CoroutinesSound == \E reg : Coherent(co, reg)

\* What passing control does.
Passed(t, u, to) ==
    /\ Shaped(u) /\ u.current = to /\ u.phase = t.phase
    /\ u.registry = t.registry /\ u.stacks = t.stacks /\ u.spare = t.spare
    /\ \A d \in Strand : u.is[d].next = t.is[d].next /\ u.is[d].prev = t.is[d].prev
    /\ \A d \in Strand : u.is[d].stack = t.is[d].stack /\ u.is[d].size = t.is[d].size
    /\ \A d \in Strand : /\ u.is[d].exists = t.is[d].exists
                         /\ u.is[d].status = t.is[d].status
                         /\ u.is[d].parent = t.is[d].parent
                         /\ u.is[d].caller = IF d = to THEN t.current ELSE t.is[d].caller
                         /\ u.is[d].saved = IF d = to THEN FALSE
                                            ELSE IF d = t.current THEN TRUE
                                            ELSE t.is[d].saved

LEMMA SwitchedDoes ==
    ASSUME NEW t, Shaped(t), t.current \in Strand, NEW to \in Strand
    PROVE  Passed(t, C!Switched(t, to), to)
<1>. DEFINE from == t.current
            v == [t EXCEPT !.is[from].saved = TRUE]
            w == [v EXCEPT !.is[to].saved = FALSE, !.is[to].caller = from, !.current = to]
<1>1. C!Switched(t, to) = w
  BY DEF C!Switched
<1>2. /\ Shaped(v) /\ v.phase = t.phase
      /\ v.registry = t.registry /\ v.stacks = t.stacks /\ v.spare = t.spare
  BY DEF Shaped, Fields
<1>3. \A d \in Strand : /\ v.is[d].next = t.is[d].next /\ v.is[d].prev = t.is[d].prev
                        /\ v.is[d].stack = t.is[d].stack /\ v.is[d].size = t.is[d].size
  BY DEF Shaped, Fields
<1>4. \A d \in Strand : /\ v.is[d].exists = t.is[d].exists /\ v.is[d].status = t.is[d].status
                        /\ v.is[d].parent = t.is[d].parent /\ v.is[d].caller = t.is[d].caller
                        /\ v.is[d].saved = IF d = from THEN TRUE ELSE t.is[d].saved
  BY DEF Shaped, Fields
<1>. HIDE DEF v, from
<1>5. /\ Shaped(w) /\ w.phase = v.phase /\ w.current = to
      /\ w.registry = v.registry /\ w.stacks = v.stacks /\ w.spare = v.spare
  BY <1>2 DEF Shaped, Fields
<1>6. \A d \in Strand : /\ w.is[d].next = v.is[d].next /\ w.is[d].prev = v.is[d].prev
                        /\ w.is[d].stack = v.is[d].stack /\ w.is[d].size = v.is[d].size
  BY <1>2 DEF Shaped, Fields
<1>7. \A d \in Strand : /\ w.is[d].exists = v.is[d].exists /\ w.is[d].status = v.is[d].status
                        /\ w.is[d].parent = v.is[d].parent
                        /\ w.is[d].caller = IF d = to THEN from ELSE v.is[d].caller
                        /\ w.is[d].saved = IF d = to THEN FALSE ELSE v.is[d].saved
  <2>1. \A d \in Strand : /\ w.is[d].exists = v.is[d].exists
                          /\ w.is[d].status = v.is[d].status
                          /\ w.is[d].parent = v.is[d].parent
    BY ONLY <1>2, to \in Strand DEF Shaped, Fields, w
  <2>2. \A d \in Strand : w.is[d].caller = IF d = to THEN from ELSE v.is[d].caller
    BY ONLY <1>2, to \in Strand DEF Shaped, Fields, w
  <2>3. \A d \in Strand : w.is[d].saved = IF d = to THEN FALSE ELSE v.is[d].saved
    BY ONLY <1>2, to \in Strand DEF Shaped, Fields, w
  <2>. QED BY ONLY <2>1, <2>2, <2>3
<1>. HIDE DEF w
<1>8. /\ Shaped(w) /\ w.current = to /\ w.phase = t.phase
      /\ w.registry = t.registry /\ w.stacks = t.stacks /\ w.spare = t.spare
  BY <1>2, <1>5
<1>9. \A d \in Strand : /\ w.is[d].next = t.is[d].next /\ w.is[d].prev = t.is[d].prev
                        /\ w.is[d].stack = t.is[d].stack /\ w.is[d].size = t.is[d].size
  BY <1>3, <1>6
<1>10. \A d \in Strand : /\ w.is[d].exists = t.is[d].exists
                         /\ w.is[d].status = t.is[d].status
                         /\ w.is[d].parent = t.is[d].parent
                         /\ w.is[d].caller = IF d = to THEN from ELSE t.is[d].caller
                         /\ w.is[d].saved = IF d = to THEN FALSE
                                            ELSE IF d = from THEN TRUE
                                            ELSE t.is[d].saved
  BY <1>4, <1>7
<1>. QED BY <1>1, <1>8, <1>9, <1>10 DEF from, Passed

\* Control may be passed to one that runs, once all that run are saved but
\* this one and the one that passes it.
LEMMA SwitchedSound ==
    ASSUME NEW t, NEW reg, Shaped(t), Chained(t, reg), Stacked(t, reg), Lively(t, reg),
           t.phase = "working", t.current \in Strand,
           NEW to \in Strand, t.is[to].status = "running",
           \A d \in Strand : t.is[d].status = "running" /\ d # t.current /\ d # to => t.is[d].saved
    PROVE  Coherent(C!Switched(t, to), reg)
<1>. DEFINE u == C!Switched(t, to)
<1>0. Passed(t, u, to)
  BY SwitchedDoes
<1>. HIDE DEF u
<1>1. /\ Shaped(u) /\ u.current = to /\ u.phase = t.phase
      /\ u.registry = t.registry /\ u.stacks = t.stacks /\ u.spare = t.spare
      /\ \A d \in Strand : u.is[d].next = t.is[d].next /\ u.is[d].prev = t.is[d].prev
      /\ \A d \in Strand : u.is[d].stack = t.is[d].stack /\ u.is[d].size = t.is[d].size
      /\ \A d \in Strand : /\ u.is[d].exists = t.is[d].exists
                           /\ u.is[d].status = t.is[d].status
                           /\ u.is[d].parent = t.is[d].parent
                           /\ u.is[d].caller = IF d = to THEN t.current ELSE t.is[d].caller
                           /\ u.is[d].saved = IF d = to THEN FALSE
                                              ELSE IF d = t.current THEN TRUE
                                              ELSE t.is[d].saved
  BY <1>0 DEF Passed
<1>2. SameStructure(t, u, reg)
  BY <1>1, Strands DEF SameStructure
<1>3. Chained(u, reg) /\ Stacked(u, reg)
  BY <1>2, StructureKept
<1>4. Lively(u, reg)
  <2>0. \A c \in Coroutine : u.is[c].status = t.is[c].status /\ u.is[c].exists = t.is[c].exists
    BY <1>1, Strands
  <2>1. Members(u, reg)
    BY <2>0 DEF Lively, Members
  <2>2. Related(u)
    <3>1. \A c \in Strand : /\ u.is[c].parent = t.is[c].parent
                            /\ u.is[c].caller \in {t.current, t.is[c].caller}
      BY <1>1
    <3>. QED BY <3>1 DEF Lively, Related
  <2>3. Led(u)
    <3>1. u.current \in Strand /\ u.current # NoCoroutine /\ t.current # NoCoroutine
      BY <1>1, Strands
    <3>2. u.is[Main].exists = t.is[Main].exists /\ u.is[Main].status = t.is[Main].status
      BY <1>1, Strands
    <3>. QED BY <3>1, <3>2 DEF Lively, Led
  <2>. QED BY <2>1, <2>2, <2>3 DEF Lively
<1>5. Controlled(u)
  BY <1>1 DEF Controlled
<1>. QED BY <1>1, <1>3, <1>4, <1>5 DEF Coherent, Phases, u

LEMMA Runs ==
    ASSUME NEW reg, Coherent(co, reg), co.phase = "working"
    PROVE  /\ co.current \in Strand \union {NoCoroutine} /\ Lively(co, reg) /\ Controlled(co)
           /\ Shaped(co) /\ Chained(co, reg) /\ Stacked(co, reg)
           /\ co.current # NoCoroutine => co.current \in Strand /\ co.is[co.current].status = "running"
  BY DEF Coherent, Lively, Led, Controlled

LEMMA TransferKeeps ==
    ASSUME NEW reg, Coherent(co, reg), NEW c \in Strand, C!Transfer(c) \/ C!Yield
    PROVE  Coherent(co', reg)
<1>1. PICK to : C!MayPassTo(to) /\ co' = C!Switched(co, to)
               /\ (to = c \/ to = co.is[co.current].caller)
  BY DEF C!Transfer, C!Yield
<1>2. co.phase = "working" /\ co.current # NoCoroutine /\ co.is[to].status = "running"
      /\ to # NoCoroutine
  BY <1>1 DEF C!MayPassTo, C!Running
<1>3. co.current \in Strand /\ Lively(co, reg) /\ Controlled(co)
  BY <1>2, Runs
<1>4. to \in Strand
  BY <1>1, <1>2, <1>3 DEF Lively, Related
<1>5. \A d \in Strand : co.is[d].status = "running" /\ d # co.current => co.is[d].saved
  BY <1>2, <1>3 DEF Controlled
<1>6. Shaped(co) /\ Chained(co, reg) /\ Stacked(co, reg)
  BY DEF Coherent
<1>7. Coherent(C!Switched(co, to), reg)
  BY <1>2, <1>3, <1>4, <1>5, <1>6, SwitchedSound
<1>. QED BY <1>1, <1>7

\* One's status and context change, and nothing else that matters here.
LEMMA StatusChanges ==
    ASSUME NEW reg, NEW t, Shaped(t), Chained(t, reg), Stacked(t, reg), Lively(t, reg),
           NEW u, Shaped(u), NEW c \in Coroutine, t.is[c].status # "uninitialized",
           u.registry = t.registry, u.stacks = t.stacks, u.spare = t.spare,
           u.current = t.current, t.current # NoCoroutine,
           u.is[c].status \in {"initialized", "finished", "running"},
           \A d \in Strand : /\ u.is[d].next = t.is[d].next /\ u.is[d].prev = t.is[d].prev
                             /\ u.is[d].stack = t.is[d].stack /\ u.is[d].size = t.is[d].size,
           \A d \in Strand : /\ u.is[d].exists = t.is[d].exists
                             /\ d # c => u.is[d].status = t.is[d].status
                             /\ d # c => u.is[d].parent = t.is[d].parent
                             /\ u.is[d].caller = t.is[d].caller,
           u.is[c].parent \in Strand \union {NoCoroutine}, u.is[c].parent # c
    PROVE  Chained(u, reg) /\ Stacked(u, reg) /\ Lively(u, reg)
<1>1. SameStructure(t, u, reg)
  BY Strands DEF SameStructure
<1>2. Chained(u, reg) /\ Stacked(u, reg)
  BY <1>1, StructureKept
<1>3. ASSUME NEW d \in Coroutine
      PROVE  /\ u.is[d].exists = t.is[d].exists
             /\ u.is[d].status # "uninitialized" <=> t.is[d].status # "uninitialized"
  <2>1. d \in Strand
    BY Strands
  <2>2. u.is[d].exists = t.is[d].exists /\ (d # c => u.is[d].status = t.is[d].status)
    BY <2>1
  <2>. QED BY <2>2
<1>4. Members(u, reg)
  <2>1. Members(t, reg)
    BY DEF Lively
  <2>. QED BY <1>3, <2>1 DEF Members
<1>5. Related(u)
  <2>1. \A d \in Strand : /\ u.is[d].parent \in Strand \union {NoCoroutine} /\ u.is[d].parent # d
                          /\ u.is[d].caller = t.is[d].caller
    BY DEF Lively, Related
  <2>. QED BY <2>1 DEF Lively, Related
<1>6. Led(u)
  <2>1. Main # c /\ Main \in Strand
    BY Strands
  <2>2. u.is[Main].exists = t.is[Main].exists /\ u.is[Main].status = t.is[Main].status
    BY <2>1
  <2>. QED BY <2>2 DEF Lively, Led
<1>. QED BY <1>2, <1>4, <1>5, <1>6 DEF Lively

\* Nothing but one's status and parent and saved context.
SameApart(t, u, c) ==
    /\ Shaped(u) /\ u.registry = t.registry /\ u.stacks = t.stacks /\ u.spare = t.spare
    /\ u.current = t.current /\ u.phase = t.phase
    /\ \A d \in Strand : /\ u.is[d].next = t.is[d].next /\ u.is[d].prev = t.is[d].prev
                         /\ u.is[d].stack = t.is[d].stack /\ u.is[d].size = t.is[d].size
    /\ \A d \in Strand : /\ u.is[d].exists = t.is[d].exists
                         /\ u.is[d].caller = t.is[d].caller
    /\ \A d \in Strand : d # c => /\ u.is[d].status = t.is[d].status
                                  /\ u.is[d].parent = t.is[d].parent
                                  /\ u.is[d].saved = t.is[d].saved

\* Only the status of c changes, to x.
Statused(t, u, c, x) ==
    /\ SameApart(t, u, c) /\ u.is[c].status = x
    /\ u.is[c].parent = t.is[c].parent /\ u.is[c].saved = t.is[c].saved

LEMMA StatusSet ==
    ASSUME NEW t, Shaped(t), NEW c \in Strand, NEW x
    PROVE  Statused(t, [t EXCEPT !.is[c].status = x], c, x)
<1>. DEFINE u == [t EXCEPT !.is[c].status = x]
<1>0. u = [t EXCEPT !.is[c].status = x]
  OBVIOUS
<1>. HIDE DEF u
<1>1. /\ Shaped(u) /\ u.registry = t.registry /\ u.stacks = t.stacks /\ u.spare = t.spare
      /\ u.current = t.current /\ u.phase = t.phase
  BY <1>0 DEF Shaped, Fields
<1>2. \A d \in Strand : /\ u.is[d].next = t.is[d].next /\ u.is[d].prev = t.is[d].prev
                        /\ u.is[d].stack = t.is[d].stack /\ u.is[d].size = t.is[d].size
  BY <1>0 DEF Shaped, Fields
<1>3. \A d \in Strand : /\ u.is[d].exists = t.is[d].exists
                        /\ u.is[d].caller = t.is[d].caller
                        /\ u.is[d].parent = t.is[d].parent /\ u.is[d].saved = t.is[d].saved
                        /\ u.is[d].status = IF d = c THEN x ELSE t.is[d].status
  BY <1>0 DEF Shaped, Fields
<1>4. Statused(t, u, c, x)
  BY <1>1, <1>2, <1>3 DEF SameApart, Statused
<1>. QED BY <1>4 DEF u

LEMMA StatusChangesOnly ==
    ASSUME NEW reg, NEW t, Shaped(t), Chained(t, reg), Stacked(t, reg), Lively(t, reg),
           NEW c \in Coroutine, t.is[c].status # "uninitialized",
           NEW u, SameApart(t, u, c), u.is[c].status \in {"initialized", "finished", "running"},
           u.is[c].parent \in Strand \union {NoCoroutine}, u.is[c].parent # c
    PROVE  Chained(u, reg) /\ Stacked(u, reg) /\ Lively(u, reg)
<1>1. t.current # NoCoroutine
  BY Strands DEF Lively, Led
<1>2. u.is[c].status \in {"initialized", "finished", "running"}
  OBVIOUS
<1>. QED BY <1>1, <1>2, StatusChanges DEF SameApart

LEMMA ResetOrStopKeeps ==
    ASSUME NEW reg, Coherent(co, reg), NEW c \in Coroutine, C!Reset(c) \/ C!Stop(c)
    PROVE  Coherent(co', reg)
<1>1. PICK x \in {"initialized", "finished"} : co' = [co EXCEPT !.is[c].status = x]
  BY DEF C!Reset, C!Stop
<1>2. co.phase = "working" /\ c # co.current /\ co.is[c].status # "uninitialized"
  BY DEF C!Reset, C!Stop, C!Touchable, C!Running
<1>3. Shaped(co) /\ Chained(co, reg) /\ Stacked(co, reg) /\ Lively(co, reg) /\ Controlled(co)
  BY <1>2, Runs
<1>4. c \in Strand
  BY Strands
<1>5. /\ SameApart(co, co', c) /\ co'.is[c].status = x
      /\ co'.is[c].parent = co.is[c].parent /\ co'.is[c].saved = co.is[c].saved
  <2>. DEFINE u == [co EXCEPT !.is[c].status = x]
  <2>1. Statused(co, u, c, x)
    BY <1>3, <1>4, StatusSet
  <2>2. co' = u
    BY <1>1
  <2>. HIDE DEF u
  <2>. QED BY <2>1, <2>2 DEF Statused
<1>6. co'.is[c].parent \in Strand \union {NoCoroutine} /\ co'.is[c].parent # c
  BY <1>3, <1>4, <1>5 DEF Lively, Related
<1>7. Chained(co', reg) /\ Stacked(co', reg) /\ Lively(co', reg)
  <2>1. co'.is[c].status \in {"initialized", "finished", "running"}
    BY <1>5
  <2>2. SameApart(co, co', c)
    BY <1>5
  <2>. QED BY ONLY <1>2, <1>3, <1>6, <2>1, <2>2, c \in Coroutine, StatusChangesOnly
<1>8. Controlled(co')
  <2>1. /\ co'.current = co.current
        /\ \A d \in Strand : d # c => /\ co'.is[d].status = co.is[d].status
                                      /\ co'.is[d].saved = co.is[d].saved
    BY <1>5 DEF SameApart
  <2>2. co.current # NoCoroutine => co.current \in Strand
    BY <1>2, Runs
  <2>. QED BY <1>2, <1>3, <1>5, <2>1, <2>2 DEF Controlled
<1>9. Shaped(co') /\ co'.phase = "working"
  BY <1>2, <1>5 DEF SameApart
<1>. QED BY <1>7, <1>8, <1>9 DEF Coherent, Phases

LEMMA ExitKeeps ==
    ASSUME NEW reg, Coherent(co, reg), C!Exit
    PROVE  Coherent(co', reg)
<1>. DEFINE me == co.current
            to == co.is[me].parent
            t == [co EXCEPT !.is[me].status = "finished"]
<1>1. /\ me \in Coroutine /\ co.phase = "working" /\ to # NoCoroutine
      /\ co.is[to].status = "running" /\ co' = C!Switched(t, to)
  BY DEF C!Exit, C!MayPassTo, C!Running
<1>2. /\ Shaped(co) /\ Chained(co, reg) /\ Stacked(co, reg) /\ Lively(co, reg) /\ Controlled(co)
      /\ me \in Strand /\ co.is[me].status = "running"
  BY <1>1, Runs, Strands
<1>3. to \in Strand /\ to # me
  BY <1>1, <1>2 DEF Lively, Related
<1>4. /\ SameApart(co, t, me) /\ t.is[me].status = "finished" /\ t.is[me].parent = to
  <2>. HIDE DEF me
  <2>1. Statused(co, t, me, "finished")
    BY <1>2, StatusSet
  <2>. HIDE DEF t
  <2>. QED BY <2>1 DEF Statused
<1>. HIDE DEF t, to, me
<1>5. Chained(t, reg) /\ Stacked(t, reg) /\ Lively(t, reg)
  <2>1. t.is[me].parent \in Strand \union {NoCoroutine} /\ t.is[me].parent # me
    BY <1>3, <1>4
  <2>2. co.is[me].status # "uninitialized" /\ t.is[me].status \in {"initialized", "finished", "running"}
    BY <1>2, <1>4
  <2>3. me \in Coroutine /\ SameApart(co, t, me)
    BY <1>1, <1>4
  <2>. QED BY ONLY <1>2, <2>1, <2>2, <2>3, StatusChangesOnly
<1>6. /\ Shaped(t) /\ t.current = me /\ t.phase = "working"
      /\ \A d \in Strand : d # me => /\ t.is[d].status = co.is[d].status
                                     /\ t.is[d].saved = co.is[d].saved
  BY <1>1, <1>4 DEF SameApart, me
<1>7. \A d \in Strand : t.is[d].status = "running" /\ d # t.current /\ d # to => t.is[d].saved
  <2>1. me # NoCoroutine
    BY <1>2, Strands
  <2>2. \A d \in Strand : co.is[d].status = "running" /\ d # me => co.is[d].saved
    BY <1>2, <2>1 DEF Controlled, me
  <2>. QED BY <1>6, <2>2
<1>8. t.is[to].status = "running"
  BY <1>1, <1>3, <1>6
<1>9. Coherent(C!Switched(t, to), reg)
  BY <1>2, <1>3, <1>5, <1>6, <1>7, <1>8, SwitchedSound
<1>. QED BY <1>1, <1>9

LEMMA StartKeeps ==
    ASSUME NEW reg, Coherent(co, reg), NEW c \in Coroutine, C!Start(c)
    PROVE  Coherent(co', reg)
<1>. DEFINE v == C!ContextInit(co, c)
            t == [v EXCEPT !.is[c].parent = v.current, !.is[c].status = "running"]
<1>1. /\ co.phase = "working" /\ co.current # NoCoroutine
      /\ co.is[c].status \in {"initialized", "finished"} /\ co' = C!Switched(t, c)
  BY DEF C!Start
<1>2. /\ Shaped(co) /\ Chained(co, reg) /\ Stacked(co, reg) /\ Lively(co, reg) /\ Controlled(co)
      /\ co.current \in Strand /\ co.is[co.current].status = "running" /\ c \in Strand
  BY <1>1, Runs, Strands
<1>3. v = [co EXCEPT !.is[c].saved = TRUE]
  BY DEF C!ContextInit
<1>. HIDE DEF v
<1>4. /\ SameApart(co, v, c) /\ v.is[c].status = co.is[c].status
  <2>1. /\ Shaped(v) /\ v.registry = co.registry /\ v.stacks = co.stacks /\ v.spare = co.spare
        /\ v.current = co.current /\ v.phase = co.phase
    BY <1>2, <1>3 DEF Shaped, Fields
  <2>2. \A d \in Strand : /\ v.is[d].next = co.is[d].next /\ v.is[d].prev = co.is[d].prev
                          /\ v.is[d].stack = co.is[d].stack /\ v.is[d].size = co.is[d].size
    BY <1>2, <1>3 DEF Shaped, Fields
  <2>3. \A d \in Strand : /\ v.is[d].exists = co.is[d].exists
                          /\ v.is[d].caller = co.is[d].caller
                          /\ v.is[d].parent = co.is[d].parent
                          /\ d # c => v.is[d].saved = co.is[d].saved
                          /\ v.is[d].status = co.is[d].status
    BY <1>2, <1>3 DEF Shaped, Fields
  <2>. QED BY <1>2, <2>1, <2>2, <2>3 DEF SameApart
<1>5. SameApart(v, t, c) /\ t.is[c].status = "running" /\ t.is[c].parent = co.current
  <2>0. Shaped(v) /\ v.current = co.current
    BY <1>4 DEF SameApart
  <2>1. /\ Shaped(t) /\ t.registry = v.registry /\ t.stacks = v.stacks /\ t.spare = v.spare
        /\ t.current = v.current /\ t.phase = v.phase
    BY <1>2, <2>0 DEF Shaped, Fields
  <2>2. \A d \in Strand : /\ t.is[d].next = v.is[d].next /\ t.is[d].prev = v.is[d].prev
                          /\ t.is[d].stack = v.is[d].stack /\ t.is[d].size = v.is[d].size
    BY <1>2, <2>0 DEF Shaped, Fields
  <2>3. \A d \in Strand : /\ t.is[d].exists = v.is[d].exists
                          /\ t.is[d].caller = v.is[d].caller
                          /\ t.is[d].saved = v.is[d].saved
                          /\ t.is[d].parent = IF d = c THEN co.current ELSE v.is[d].parent
                          /\ t.is[d].status = IF d = c THEN "running" ELSE v.is[d].status
    BY <1>2, <2>0 DEF Shaped, Fields
  <2>. QED BY <1>2, <2>1, <2>2, <2>3 DEF SameApart
<1>. HIDE DEF t
<1>6. SameApart(co, t, c)
  BY <1>4, <1>5 DEF SameApart
<1>7. co.current # c
  BY <1>1, <1>2
<1>8. Chained(t, reg) /\ Stacked(t, reg) /\ Lively(t, reg)
  <2>1. t.is[c].parent \in Strand \union {NoCoroutine} /\ t.is[c].parent # c
    BY <1>2, <1>5, <1>7
  <2>2. co.is[c].status # "uninitialized" /\ t.is[c].status \in {"initialized", "finished", "running"}
    BY <1>1, <1>5
  <2>. QED BY <1>1, <1>2, <1>6, <2>1, <2>2, StatusChangesOnly
<1>9. /\ Shaped(t) /\ t.current = co.current /\ t.phase = "working"
      /\ \A d \in Strand : d # c => /\ t.is[d].status = co.is[d].status
                                    /\ t.is[d].saved = co.is[d].saved
  BY <1>1, <1>6 DEF SameApart
<1>10. \A d \in Strand : t.is[d].status = "running" /\ d # t.current /\ d # c => t.is[d].saved
  <2>2. \A d \in Strand : co.is[d].status = "running" /\ d # co.current => co.is[d].saved
    BY <1>1, <1>2 DEF Controlled
  <2>. QED BY <1>9, <2>2
<1>11. Coherent(C!Switched(t, c), reg)
  <2>1. t.current \in Strand
    BY <1>2, <1>9
  <2>. QED BY <2>1, <1>2, <1>5, <1>8, <1>9, <1>10, SwitchedSound
<1>. QED BY <1>1, <1>11

LEMMA Blank ==
    \A x \in BOOLEAN : LET z == [C!Zeroed EXCEPT !.exists = x]
                       IN  /\ DOMAIN z = Fields /\ z.exists = x /\ z.status = "uninitialized"
                           /\ z.caller = NoCoroutine /\ z.parent = NoCoroutine /\ z.saved = FALSE
  BY DEF C!Zeroed, Fields

LEMMA CreateOrDestroyKeeps ==
    ASSUME NEW reg, Coherent(co, reg), NEW c \in Coroutine, C!Create(c) \/ C!Destroy(c)
    PROVE  Coherent(co', reg)
<1>1. PICK x \in BOOLEAN : co' = [co EXCEPT !.is[c] = [C!Zeroed EXCEPT !.exists = x]]
  <2>1. CASE C!Create(c)
    <3>1. co' = [co EXCEPT !.is[c] = [C!Zeroed EXCEPT !.exists = TRUE]]
      BY <2>1 DEF C!Create
    <3>. QED BY <3>1
  <2>2. CASE C!Destroy(c)
    <3>. DEFINE z == [C!Zeroed EXCEPT !.exists = FALSE]
    <3>1. z = C!Zeroed
      <4>1. /\ C!Zeroed.exists = FALSE
            /\ C!Zeroed = [f \in DOMAIN C!Zeroed |-> C!Zeroed[f]]
            /\ "exists" \in DOMAIN C!Zeroed
        BY DEF C!Zeroed
      <4>. QED BY <4>1
    <3>2. co' = [co EXCEPT !.is[c] = C!Zeroed]
      BY <2>2 DEF C!Destroy
    <3>. QED BY <3>1, <3>2
  <2>. QED BY <2>1, <2>2
<1>2. co.phase = "working" /\ (~co.is[c].exists \/ co.is[c].status = "uninitialized")
  BY DEF C!Create, C!Destroy
<1>3. Shaped(co) /\ Chained(co, reg) /\ Stacked(co, reg) /\ Lively(co, reg) /\ Controlled(co)
  BY <1>2, Runs
<1>4. c \in Strand /\ c # Main /\ c # NoCoroutine
  BY Strands
<1>5. co.is[c].status = "uninitialized" /\ ~Among(c, reg)
  BY <1>2, <1>3 DEF Lively, Members
<1>6. c # co.current
  BY <1>2, <1>4, <1>5, Runs
<1>. DEFINE z == [C!Zeroed EXCEPT !.exists = x]
<1>7. /\ DOMAIN z = Fields /\ z.status = "uninitialized"
      /\ z.caller = NoCoroutine /\ z.parent = NoCoroutine
  BY Blank
<1>8. co' = [co EXCEPT !.is[c] = z]
  BY <1>1
<1>. HIDE DEF z
<1>9. /\ Shaped(co') /\ co'.registry = co.registry /\ co'.stacks = co.stacks
      /\ co'.spare = co.spare /\ co'.current = co.current /\ co'.phase = "working"
      /\ co'.is[c] = z /\ \A d \in Strand : d # c => co'.is[d] = co.is[d]
  BY <1>2, <1>3, <1>4, <1>7, <1>8 DEF Shaped
<1>10. \A d \in Coroutine : d \in Strand /\ (Among(d, reg) => d # c)
  BY <1>5, Strands
<1>11. SameStructure(co, co', reg)
  BY <1>9, <1>10 DEF SameStructure
<1>12. Chained(co', reg) /\ Stacked(co', reg)
  BY <1>3, <1>11, StructureKept
<1>13. Members(co', reg)
  BY <1>3, <1>5, <1>7, <1>9, <1>10 DEF Lively, Members
<1>14. Related(co')
  BY <1>3, <1>4, <1>7, <1>9 DEF Lively, Related
<1>15. Led(co')
  <2>1. Main \in Strand /\ co'.is[Main] = co.is[Main]
    BY <1>4, <1>9, Strands
  <2>2. \A d \in Strand : co'.is[d].status = co.is[d].status
    BY <1>5, <1>7, <1>9
  <2>. QED BY <1>3, <1>9, <2>1, <2>2 DEF Lively, Led
<1>16. Controlled(co')
  <2>1. \A d \in Strand : co'.is[d].status = "running" =>
            co.is[d].status = "running" /\ co'.is[d].saved = co.is[d].saved
    BY <1>7, <1>9
  <2>2. co.current # NoCoroutine => co'.is[co.current].status = "running"
    BY <1>2, <1>6, <1>9, Runs
  <2>. QED BY <1>3, <1>9, <2>1, <2>2 DEF Controlled
<1>. QED BY <1>9, <1>12, <1>13, <1>14, <1>15, <1>16 DEF Coherent, Lively, Phases

LEMMA RecoverKeeps ==
    ASSUME NEW reg, Coherent(co, reg), C!Recover
    PROVE  Coherent(co', reg)
<1>1. /\ co.phase = "working" /\ co.current \in Coroutine
      /\ co' = [co EXCEPT !.current = Main, !.is[Main].saved = FALSE, !.phase = "recovering"]
  BY DEF C!Recover
<1>2. /\ Shaped(co) /\ Chained(co, reg) /\ Stacked(co, reg) /\ Lively(co, reg)
      /\ Main \in Strand /\ Main # NoCoroutine /\ co.current # NoCoroutine
  BY <1>1, Runs, Strands
<1>3. /\ Shaped(co') /\ co'.registry = co.registry /\ co'.stacks = co.stacks
      /\ co'.spare = co.spare /\ co'.current = Main /\ co'.phase = "recovering"
  BY <1>1, <1>2 DEF Shaped, Fields
<1>4. \A d \in Strand : /\ co'.is[d].next = co.is[d].next /\ co'.is[d].prev = co.is[d].prev
                        /\ co'.is[d].stack = co.is[d].stack /\ co'.is[d].size = co.is[d].size
  BY <1>1, <1>2 DEF Shaped, Fields
<1>5. \A d \in Strand : /\ co'.is[d].exists = co.is[d].exists
                        /\ co'.is[d].caller = co.is[d].caller
                        /\ co'.is[d].parent = co.is[d].parent
                        /\ co'.is[d].status = co.is[d].status
  BY <1>1, <1>2 DEF Shaped, Fields
<1>6. \A d \in Coroutine : d \in Strand
  BY Strands
<1>7. SameStructure(co, co', reg)
  BY <1>3, <1>4, <1>6 DEF SameStructure
<1>8. Chained(co', reg) /\ Stacked(co', reg)
  BY <1>2, <1>7, StructureKept
<1>9. Members(co', reg)
  BY <1>2, <1>5, <1>6 DEF Lively, Members
<1>10. Related(co')
  BY <1>2, <1>5 DEF Lively, Related
<1>11. Led(co')
  BY <1>2, <1>3, <1>5 DEF Lively, Led
<1>. QED BY <1>3, <1>8, <1>9, <1>10, <1>11 DEF Coherent, Lively, Phases

LEMMA InitializeKeeps ==
    ASSUME NEW reg, Coherent(co, reg), NEW c \in Coroutine, C!Initialize(c)
    PROVE  Coherent(co', <<c>> \o reg)
<1>1. PICK size \in StackSizes :
          /\ co.phase = "working" /\ co.is[c].exists /\ co.is[c].status = "uninitialized"
          /\ co' = LET t == C!StackAlloc(C!WithMain(co), c, size)
                   IN  C!RegistryAdd([t EXCEPT !.is[c].size = size,
                                               !.is[c].status = "initialized"], c)
  BY Zenon DEF C!Initialize
<1>2. size \in Nat
  BY LibraryAssumption
<1>3. Shaped(co) /\ Chained(co, reg) /\ Stacked(co, reg) /\ Lively(co, reg) /\ Controlled(co)
  BY <1>1, Runs
<1>4. /\ c \in Strand /\ c # Main /\ c # NoCoroutine /\ Main \in Strand /\ Main # NoCoroutine
      /\ \A d \in Coroutine : d \in Strand /\ d # Main
  BY Strands
<1>. DEFINE m == C!WithMain(co)
<1>5. Coherent(m, reg) /\ m.phase = "working" /\ m.current # NoCoroutine
      /\ m.is[c].status = "uninitialized" /\ m.is[c].exists
  <2>1. CASE co.is[Main].exists
    <3>1. m = co
      BY <2>1 DEF C!WithMain
    <3>2. co.current # NoCoroutine
      BY <1>3, <2>1 DEF Lively, Led
    <3>. QED BY <1>1, <3>1, <3>2
  <2>2. CASE ~co.is[Main].exists
    <3>1. m = [co EXCEPT !.is[Main].exists = TRUE, !.is[Main].status = "running", !.current = Main]
      BY <2>2 DEF C!WithMain
    <3>2. co.current = NoCoroutine /\ \A d \in Strand : co.is[d].status = "uninitialized"
      BY <1>3, <2>2 DEF Lively, Led
    <3>. HIDE DEF m
    <3>3. /\ Shaped(m) /\ m.registry = co.registry /\ m.stacks = co.stacks
          /\ m.spare = co.spare /\ m.current = Main /\ m.phase = co.phase
      BY <1>3, <1>4, <3>1 DEF Shaped, Fields
    <3>4. \A d \in Strand : /\ m.is[d].next = co.is[d].next /\ m.is[d].prev = co.is[d].prev
                            /\ m.is[d].stack = co.is[d].stack /\ m.is[d].size = co.is[d].size
      BY <1>3, <1>4, <3>1 DEF Shaped, Fields
    <3>5. \A d \in Strand : /\ m.is[d].exists = IF d = Main THEN TRUE ELSE co.is[d].exists
                            /\ m.is[d].caller = co.is[d].caller
                            /\ m.is[d].parent = co.is[d].parent
                            /\ m.is[d].status = IF d = Main THEN "running" ELSE co.is[d].status
      <4>1. Shaped(co)
        BY <1>3
      <4>. QED BY ONLY <1>4, <3>1, <4>1 DEF Shaped, Fields
    <3>6. SameStructure(co, m, reg)
      BY <1>4, <3>3, <3>4 DEF SameStructure
    <3>7. Chained(m, reg) /\ Stacked(m, reg)
      BY <1>3, <3>6, StructureKept
    <3>8. Members(m, reg)
      BY <1>3, <1>4, <3>5 DEF Lively, Members
    <3>9. Related(m)
      BY <1>3, <3>5 DEF Lively, Related
    <3>10. Led(m)
      BY <1>4, <3>3, <3>5 DEF Led
    <3>11. Controlled(m)
      BY <1>4, <3>2, <3>3, <3>5 DEF Controlled
    <3>. QED BY <1>1, <1>4, <3>3, <3>5, <3>7, <3>8, <3>9, <3>10, <3>11
             DEF Coherent, Lively, Phases
  <2>. QED BY <2>1, <2>2
<1>. DEFINE v == C!StackAlloc(m, c, size)
            w == [v EXCEPT !.is[c].size = size, !.is[c].status = "initialized"]
            u == C!RegistryAdd(w, c)
            r == <<c>> \o reg
<1>6. co' = u
  BY <1>1
<1>. HIDE DEF m
<1>7. /\ Shaped(m) /\ Chained(m, reg) /\ Stacked(m, reg) /\ Lively(m, reg) /\ Controlled(m)
  BY <1>5 DEF Coherent
<1>8. ~Among(c, reg)
  BY <1>5, <1>7 DEF Lively, Members
<1>9. /\ Shaped(u) /\ u.current = m.current /\ u.phase = m.phase
      /\ \A d \in Strand : /\ u.is[d].exists = m.is[d].exists
                           /\ u.is[d].status = IF d = c THEN "initialized" ELSE m.is[d].status
                           /\ u.is[d].caller = m.is[d].caller
                           /\ u.is[d].parent = m.is[d].parent
                           /\ u.is[d].saved = m.is[d].saved
      /\ Chained(u, r) /\ Stacked(u, r)
      /\ \A d : Among(d, r) <=> d = c \/ Among(d, reg)
  <2>1. /\ v = C!StackAlloc(m, c, size) /\ u = C!RegistryAdd(w, c)
        /\ w = [v EXCEPT !.is[c].size = size, !.is[c].status = "initialized"]
    OBVIOUS
  <2>. HIDE DEF u, v, w
  <2>2. Entered(m, u, c, reg, r)
    BY ONLY <1>2, <1>7, <1>8, <2>1, c \in Coroutine, EntersAndAllocates, Zenon DEF r
  <2>. HIDE DEF r
  <2>. QED BY <2>2 DEF Entered
<1>. HIDE DEF u, v, w, r
<1>10. Members(u, r)
  <2>1. \A d \in Coroutine : /\ u.is[d].exists = m.is[d].exists
                             /\ u.is[d].status = IF d = c THEN "initialized" ELSE m.is[d].status
                             /\ Among(d, r) <=> d = c \/ Among(d, reg)
    BY <1>4, <1>9
  <2>. QED BY <1>5, <1>7, <2>1 DEF Lively, Members
<1>11. Related(u)
  BY <1>7, <1>9 DEF Lively, Related
<1>12. Led(u)
  BY <1>4, <1>5, <1>7, <1>9 DEF Lively, Led
<1>13. Controlled(u)
  <2>1. m.current \in Strand /\ m.is[m.current].status = "running" /\ m.current # c
    BY <1>5, <1>7 DEF Lively, Led, Controlled
  <2>2. u.is[u.current].status = "running"
    BY <1>9, <2>1
  <2>3. \A d \in Strand : u.is[d].status = "running" => m.is[d].status = "running"
    BY <1>9
  <2>. QED BY <1>5, <1>7, <1>9, <2>2, <2>3 DEF Controlled
<1>14. Coherent(u, r)
  BY <1>5, <1>9, <1>10, <1>11, <1>12, <1>13 DEF Coherent, Lively, Phases
<1>. QED BY <1>6, <1>14 DEF r

(* Tearing down, one at a time or, when the thread ends, all.              *)
LEMMA TerminateKeeps ==
    ASSUME NEW reg, Coherent(co, reg), NEW c \in Coroutine, C!Terminate(c)
    PROVE  \E r : Coherent(co', r)
<1>. DEFINE t == C!StackFree(C!RegistryRemove(co, c), co.is[c].stack, co.is[c].size)
            p == IF t.registry = NoCoroutine THEN "working" ELSE t.phase
            z == [C!Zeroed EXCEPT !.exists = TRUE]
<1>1. /\ co.phase \in {"working", "recovering"} /\ c # co.current
      /\ co.is[c].status # "uninitialized"
      /\ co' = [t EXCEPT !.is[c] = z, !.phase = p]
  BY DEF C!Terminate, C!Touchable
<1>2. Shaped(co) /\ Chained(co, reg) /\ Stacked(co, reg) /\ Lively(co, reg)
  BY <1>1 DEF Coherent
<1>3. c \in Strand /\ c # Main /\ \A d \in Coroutine : d \in Strand
  BY Strands
<1>4. Among(c, reg)
  BY <1>1, <1>2 DEF Lively, Members
<1>5. /\ Shaped(t) /\ SameRest(co, t)
      /\ \E r : /\ Chained(t, r) /\ Stacked(t, r)
                /\ \A d : Among(d, r) <=> Among(d, reg) /\ d # c
  BY <1>2, <1>4, LeavesAndFrees
<1>6. /\ DOMAIN z = Fields /\ z.exists = TRUE /\ z.status = "uninitialized"
      /\ z.caller = NoCoroutine /\ z.parent = NoCoroutine
  BY Blank
<1>. HIDE DEF t, z
<1>7. PICK r : /\ Chained(t, r) /\ Stacked(t, r)
               /\ \A d : Among(d, r) <=> Among(d, reg) /\ d # c
  BY <1>5
<1>8. /\ Shaped(co') /\ co'.registry = t.registry /\ co'.stacks = t.stacks
      /\ co'.spare = t.spare /\ co'.current = t.current /\ co'.phase = p
      /\ co'.is[c] = z /\ \A d \in Strand : d # c => co'.is[d] = t.is[d]
  <2>. HIDE DEF p
  <2>1. co' = [t EXCEPT !.is[c] = z, !.phase = p] /\ Shaped(t) /\ c \in Strand
    BY <1>1, <1>3, <1>5
  <2>. QED BY <1>6, <2>1 DEF Shaped
<1>9. /\ t.current = co.current /\ t.phase = co.phase
      /\ \A d \in Strand : d # c =>
             /\ co'.is[d].exists = co.is[d].exists /\ co'.is[d].status = co.is[d].status
             /\ co'.is[d].caller = co.is[d].caller /\ co'.is[d].parent = co.is[d].parent
             /\ co'.is[d].saved = co.is[d].saved
  BY <1>5, <1>8 DEF SameRest
<1>10. SameStructure(t, co', r)
  BY <1>3, <1>7, <1>8 DEF SameStructure
<1>11. Chained(co', r) /\ Stacked(co', r)
  BY <1>7, <1>10, StructureKept
<1>12. Members(co', r)
  <2>1. ASSUME NEW d \in Coroutine
        PROVE  /\ Among(d, r) <=> co'.is[d].status # "uninitialized"
               /\ co'.is[d].status # "uninitialized" => co'.is[d].exists
    <3>1. CASE d = c
      BY <1>6, <1>7, <1>8, <3>1
    <3>2. CASE d # c
      <4>1. co'.is[d].exists = co.is[d].exists /\ co'.is[d].status = co.is[d].status
        BY <1>3, <1>9, <3>2
      <4>2. /\ Among(d, reg) <=> co.is[d].status # "uninitialized"
            /\ co.is[d].status # "uninitialized" => co.is[d].exists
        BY <1>2 DEF Lively, Members
      <4>. QED BY <1>7, <3>2, <4>1, <4>2
    <3>. QED BY <3>1, <3>2
  <2>. QED BY <2>1 DEF Members
<1>13. Related(co')
  <2>1. ASSUME NEW d \in Strand
        PROVE  /\ co'.is[d].parent \in Strand \union {NoCoroutine} /\ co'.is[d].parent # d
               /\ co'.is[d].caller \in Strand \union {NoCoroutine}
    <3>1. CASE d = c
      BY <1>3, <1>6, <1>8, <3>1, Strands
    <3>2. CASE d # c
      BY <1>2, <1>9, <3>2 DEF Lively, Related
    <3>. QED BY <3>1, <3>2
  <2>. QED BY <2>1 DEF Related
<1>14. Led(co')
  <2>1. Main \in Strand /\ Main # c
    BY <1>3, Strands
  <2>2. co'.current = co.current
    BY <1>8, <1>9
  <2>3. co.current # NoCoroutine
    BY <1>1, <1>2, <1>3 DEF Lively, Led
  <2>4. co'.is[Main].exists = co.is[Main].exists /\ co'.is[Main].status = co.is[Main].status
    BY <1>9, <2>1
  <2>. QED BY <1>2, <2>2, <2>3, <2>4 DEF Lively, Led
<1>15. co'.phase = "working" => Controlled(co')
  <2>. SUFFICES ASSUME co'.phase = "working" PROVE Controlled(co')
    OBVIOUS
  <2>1. co.current \in Strand /\ co'.current = co.current
    BY <1>1, <1>2, <1>3, <1>8, <1>9 DEF Lively, Led
  <2>2. CASE co.phase = "working"
    <3>1. Controlled(co) /\ co.current # NoCoroutine
      BY <2>1, <2>2, Strands DEF Coherent
    <3>2. \A d \in Strand : co'.is[d].status = "running" => d # c
      BY <1>6, <1>8
    <3>. QED BY <1>1, <1>9, <2>1, <3>1, <3>2 DEF Controlled
  <2>3. CASE co.phase = "recovering"
    <3>1. co.current = Main
      BY <2>3 DEF Coherent
    <3>2. t.registry = NoCoroutine
      <4>1. t.phase = "recovering"
        BY <1>9, <2>3
      <4>. QED BY <1>8, <4>1
    <3>3. \A d : ~Among(d, r)
      BY <1>7, <3>2, NoneLeft DEF Among
    <3>4. \A d \in Coroutine : co'.is[d].status = "uninitialized"
      BY <1>12, <3>3 DEF Members
    <3>5. co'.is[Main].status = "running"
      BY <1>14, <2>1, <3>1, Strands DEF Led
    <3>. QED BY <2>1, <3>1, <3>4, <3>5 DEF Controlled, Strand
  <2>. QED BY <1>1, <2>2, <2>3
<1>16. /\ p \in {"working", "recovering"}
       /\ p = "recovering" => co.current = Main
  BY <1>1, <1>9 DEF Coherent
<1>17. Coherent(co', r)
  <2>1. co'.phase = p /\ co'.current = co.current
    BY <1>8, <1>9
  <2>. HIDE DEF p
  <2>. QED BY <1>8, <1>11, <1>12, <1>13, <1>14, <1>15, <1>16, <2>1 DEF Coherent, Lively, Phases
<1>. QED BY <1>17

LEMMA CleanUpFirstKeeps ==
    ASSUME NEW reg, Coherent(co, reg), C!CleanUpFirst
    PROVE  \E r : Coherent(co', r)
<1>. DEFINE c == co.registry
            t == C!StackFree(C!RegistryRemove(co, c), co.is[c].stack, co.is[c].size)
<1>1. c # NoCoroutine /\ co' = [t EXCEPT !.phase = "cleaning", !.is[c].exists = c \in Embedded]
  BY DEF C!CleanUpFirst
<1>2. Shaped(co) /\ Chained(co, reg) /\ Stacked(co, reg)
  BY DEF Coherent
<1>3. c \in Coroutine /\ Among(c, reg) /\ c \in Strand
  BY <1>1, <1>2, NoneLeft, Strands
<1>. HIDE DEF c
<1>4. /\ Shaped(t) /\ SameRest(co, t)
      /\ \E r : /\ Chained(t, r) /\ Stacked(t, r)
                /\ \A d : Among(d, r) <=> Among(d, reg) /\ d # c
  BY <1>2, <1>3, LeavesAndFrees
<1>. HIDE DEF t
<1>5. PICK r : Chained(t, r) /\ Stacked(t, r)
  BY <1>4
<1>6. /\ Shaped(co') /\ co'.registry = t.registry /\ co'.stacks = t.stacks
      /\ co'.spare = t.spare /\ co'.phase = "cleaning"
  BY <1>1, <1>3, <1>4 DEF Shaped, Fields
<1>7. \A d \in Strand : /\ co'.is[d].next = t.is[d].next /\ co'.is[d].prev = t.is[d].prev
                        /\ co'.is[d].stack = t.is[d].stack /\ co'.is[d].size = t.is[d].size
  BY <1>1, <1>3, <1>4 DEF Shaped, Fields
<1>8. SameStructure(t, co', r)
  BY <1>6, <1>7, Strands DEF SameStructure
<1>9. Chained(co', r) /\ Stacked(co', r)
  BY <1>5, <1>8, StructureKept
<1>10. Coherent(co', r)
  BY <1>6, <1>9 DEF Coherent, Phases
<1>. QED BY <1>10

LEMMA CleanUpStacksKeeps ==
    ASSUME NEW reg, Coherent(co, reg), C!CleanUpStacks
    PROVE  Coherent(co', reg)
<1>. DEFINE collected == UNION {{l.free[i] : i \in DOMAIN l.free} :
                                    l \in {co.spare[i] : i \in DOMAIN co.spare}}
            left == [s \in DOMAIN co.stacks \ collected |-> co.stacks[s]]
<1>1. /\ co.registry = NoCoroutine
      /\ co' = [co EXCEPT !.spare = <<>>, !.phase = "ended", !.stacks = left]
  BY DEF C!CleanUpStacks
<1>2. Shaped(co) /\ Chained(co, reg) /\ Stacked(co, reg)
  BY DEF Coherent
<1>3. reg = <<>> /\ \A d : ~Among(d, reg)
  BY <1>1, <1>2, NoneLeft DEF Among
<1>4. \A x \in 1 .. Len(co.stacks) : IsSpare(co.spare, x)
  BY <1>2, <1>3 DEF Stacked
<1>5. \A x : IsSpare(co.spare, x) => x \in collected
  <2>. SUFFICES ASSUME NEW x, NEW i \in 1 .. Len(co.spare), NEW j \in 1 .. Len(co.spare[i].free),
                       co.spare[i].free[j] = x
                PROVE  x \in collected
    BY DEF IsSpare
  <2>1. co.spare \in Seq(Shelf) /\ co.spare[i] \in Shelf
    BY <1>2 DEF Stacked, Shelved
  <2>2. co.spare[i].free \in Seq(Nat)
    BY <2>1 DEF Shelf
  <2>3. i \in DOMAIN co.spare /\ j \in DOMAIN co.spare[i].free
    BY <2>1, <2>2
  <2>. QED BY <2>3
<1>6. DOMAIN co.stacks = 1 .. Len(co.stacks)
  BY <1>2 DEF Stacked
<1>7. left = <<>>
  <2>. HIDE DEF collected
  <2>1. DOMAIN co.stacks \ collected = {}
    BY <1>4, <1>5, <1>6
  <2>. QED BY <2>1
<1>. HIDE DEF left
<1>8. /\ Shaped(co') /\ co'.is = co.is /\ co'.registry = co.registry
      /\ co'.stacks = <<>> /\ co'.spare = <<>> /\ co'.phase = "ended"
  BY <1>1, <1>2, <1>7 DEF Shaped
<1>9. Chained(co', reg)
  BY <1>2, <1>8 DEF Chained
<1>10. Stacked(co', reg)
  <2>1. <<>> \in Seq(Nat) /\ <<>> \in Seq(Shelf) /\ 1 .. Len(<<>>) = {}
    OBVIOUS
  <2>2. Shelved(<<>>, <<>>)
    BY <2>1 DEF Shelved, Fitting, Once
  <2>. QED BY <1>3, <1>8, <2>1, <2>2 DEF Stacked
<1>. QED BY <1>8, <1>9, <1>10 DEF Coherent, Phases

LEMMA CoroutinesStart == LibraryInit => CoroutinesSound
<1>. SUFFICES ASSUME LibraryInit PROVE CoroutinesSound
  OBVIOUS
<1>1. co = C!Idle
  BY DEF LibraryInit
<1>2. /\ Shaped(co) /\ co.current = NoCoroutine /\ co.registry = NoCoroutine
      /\ co.stacks = <<>> /\ co.spare = <<>> /\ co.phase = "working"
      /\ \A d \in Strand : /\ co.is[d].status = "uninitialized"
                           /\ co.is[d].caller = NoCoroutine /\ co.is[d].parent = NoCoroutine
                           /\ co.is[d].exists <=> d \in Embedded
  BY <1>1 DEF C!Idle, C!Zeroed, Shaped, Fields, Strand
<1>3. <<>> \in Seq(Coroutine) /\ <<>> \in Seq(Nat) /\ <<>> \in Seq(Shelf) /\ 1 .. Len(<<>>) = {}
  OBVIOUS
<1>4. \A d : ~Among(d, <<>>)
  BY <1>3 DEF Among
<1>5. Chained(co, <<>>)
  BY <1>2, <1>3 DEF Chained, Distinct, Nth
<1>6. Stacked(co, <<>>)
  <2>1. Shelved(<<>>, <<>>)
    BY <1>3 DEF Shelved, Fitting, Once
  <2>. QED BY <1>2, <1>3, <1>4, <2>1 DEF Stacked
<1>7. Members(co, <<>>)
  BY <1>2, <1>4, Strands DEF Members
<1>8. Related(co)
  BY <1>2, Strands DEF Related
<1>9. Led(co)
  <2>1. Main \in Strand /\ Main \notin Embedded
    BY LibraryAssumption, Strands
  <2>. QED BY <1>2, <2>1 DEF Led
<1>10. Controlled(co)
  BY <1>2 DEF Controlled
<1>11. Coherent(co, <<>>)
  BY <1>2, <1>5, <1>6, <1>7, <1>8, <1>9, <1>10 DEF Coherent, Lively, Phases
<1>. QED BY <1>11 DEF CoroutinesSound

LEMMA CoroutinesKeep ==
    ASSUME CoroutinesSound, C!CoroutineNext
    PROVE  CoroutinesSound'
<1>1. PICK reg : Coherent(co, reg)
  BY DEF CoroutinesSound
<1>. SUFFICES \E r : Coherent(co', r)
  BY DEF CoroutinesSound
<1>2. ASSUME NEW c \in Coroutine, C!Create(c) \/ C!Destroy(c) PROVE \E r : Coherent(co', r)
  BY <1>1, <1>2, CreateOrDestroyKeeps
<1>3. ASSUME NEW c \in Coroutine, C!Initialize(c) PROVE \E r : Coherent(co', r)
  BY <1>1, <1>3, InitializeKeeps
<1>4. ASSUME NEW c \in Coroutine, C!Reset(c) \/ C!Stop(c) PROVE \E r : Coherent(co', r)
  BY <1>1, <1>4, ResetOrStopKeeps
<1>5. ASSUME NEW c \in Coroutine, C!Terminate(c) PROVE \E r : Coherent(co', r)
  BY <1>1, <1>5, TerminateKeeps
<1>6. ASSUME NEW c \in Coroutine, C!Start(c) PROVE \E r : Coherent(co', r)
  BY <1>1, <1>6, StartKeeps
<1>7. ASSUME NEW c \in Strand, C!Transfer(c) \/ C!Yield PROVE \E r : Coherent(co', r)
  BY <1>1, <1>7, TransferKeeps
<1>8. CASE C!Exit
  BY <1>1, <1>8, ExitKeeps
<1>9. CASE C!Recover
  BY <1>1, <1>9, RecoverKeeps
<1>10. CASE C!CleanUpFirst
  BY <1>1, <1>10, CleanUpFirstKeeps
<1>11. CASE C!CleanUpStacks
  BY <1>1, <1>11, CleanUpStacksKeeps
<1>12. Main \in Strand /\ Strand = Coroutine \union {Main}
  BY DEF Strand
<1>. QED BY <1>2, <1>3, <1>4, <1>5, <1>6, <1>7, <1>8, <1>9, <1>10, <1>11, <1>12
         DEF C!CoroutineNext

(* What the property sees.                                                  *)
LEMMA LeastNatural ==
    ASSUME NEW T \in SUBSET Nat, T # {}
    PROVE  \E x \in T : \A y \in T : x <= y
<1>. DEFINE R == OpToRel(<, Nat)
<1>1. IsWellFoundedOn(R, Nat)
  BY NatLessThanWellFounded, Zenon DEF R
<1>2. \A x, y \in Nat : x < y => <<x, y>> \in R
  BY DEF OpToRel
<1>. HIDE DEF R
<1>3. PICK x \in T : \A y \in T : ~(<<y, x>> \in R)
  <2>1. T \subseteq Nat
    OBVIOUS
  <2>. QED BY <1>1, <2>1, WFMin
<1>4. \A y \in T : ~(y < x)
  BY <1>2, <1>3
<1>. QED BY <1>4

\* The first n places of the registry, from its head along the links.
Extended(s, n) == Append(s, IF s[n] = NoCoroutine THEN NoCoroutine ELSE co.is[s[n]].next)

Follows(f, m) ==
    f = [n \in 0 .. m |-> IF n = 0 THEN <<co.registry>> ELSE Extended(f[n - 1], n)]

Places(reg, n) == [i \in 1 .. n |-> Nth(reg, i)]

LEMMA ExtendedDoes ==
    ASSUME NEW reg, Chained(co, reg), NEW n \in Nat \ {0}
    PROVE  Extended(Places(reg, n), n) = Places(reg, n + 1)
<1>. DEFINE s == Places(reg, n)
            S == Coroutine \union {NoCoroutine}
            next == IF s[n] = NoCoroutine THEN NoCoroutine ELSE co.is[s[n]].next
<1>0. reg \in Seq(Coroutine) /\ Len(reg) \in Nat
  BY DEF Chained
<1>1. \A i \in Int : Nth(reg, i) \in S
  BY <1>0 DEF Nth
<1>2. s \in Seq(S) /\ Len(s) = n /\ \A i \in 1 .. n : s[i] = Nth(reg, i)
  <2>1. s = [i \in 1 .. n |-> Nth(reg, i)]
    BY DEF Places
  <2>2. \A i \in 1 .. n : Nth(reg, i) \in S
    BY <1>1
  <2>. HIDE DEF s, S
  <2>3. s \in [1 .. n -> S]
    BY <2>1, <2>2
  <2>. QED BY <2>1, <2>3
<1>. HIDE DEF s
<1>3. next = Nth(reg, n + 1)
  <2>1. s[n] = Nth(reg, n)
    BY <1>2
  <2>2. CASE n \in 1 .. Len(reg)
    <3>1. s[n] = reg[n] /\ reg[n] \in Coroutine /\ reg[n] # NoCoroutine
      BY <1>0, <2>1, <2>2, Strands DEF Nth
    <3>2. co.is[reg[n]].next = Nth(reg, n + 1)
      BY <2>2 DEF Chained
    <3>. QED BY <3>1, <3>2
  <2>3. CASE n \notin 1 .. Len(reg)
    <3>1. n + 1 \notin 1 .. Len(reg)
      BY <1>0, <2>3
    <3>. QED BY <2>1, <2>3, <3>1 DEF Nth
  <2>. QED BY <2>2, <2>3
<1>. HIDE DEF next
<1>4. Extended(s, n) = Append(s, next)
  BY DEF Extended, next
<1>5. Append(s, next) = [i \in 1 .. n + 1 |-> IF i <= n THEN s[i] ELSE next]
  <2>1. next \in S
    BY <1>1, <1>3
  <2>2. \A i \in 1 .. n + 1 : Append(s, next)[i] = IF i <= n THEN s[i] ELSE next
    <3>. HIDE DEF S
    <3>. QED BY <1>2, <2>1
  <2>3. Append(s, next) \in Seq(S) /\ Len(Append(s, next)) = n + 1
    <3>. HIDE DEF S
    <3>. QED BY <1>2, <2>1
  <2>4. Append(s, next) = [i \in 1 .. n + 1 |-> Append(s, next)[i]]
    <3>. DEFINE a == Append(s, next)
    <3>1. a \in Seq(S) /\ Len(a) = n + 1
      BY <2>3
    <3>. HIDE DEF a, S
    <3>2. a = [i \in 1 .. n + 1 |-> a[i]]
      BY <3>1
    <3>. QED BY <3>2 DEF a
  <2>. QED BY <2>2, <2>4
<1>6. \A i \in 1 .. n + 1 : (IF i <= n THEN s[i] ELSE next) = Nth(reg, i)
  <2>. SUFFICES ASSUME NEW i \in 1 .. n + 1 PROVE (IF i <= n THEN s[i] ELSE next) = Nth(reg, i)
    OBVIOUS
  <2>1. CASE i <= n
    BY <1>2, <2>1
  <2>2. CASE ~(i <= n)
    <3>1. i = n + 1
      BY <2>2
    <3>. QED BY <1>3, <2>2, <3>1
  <2>. QED BY <2>1, <2>2
<1>7. Append(s, next) = [i \in 1 .. n + 1 |-> Nth(reg, i)]
  BY <1>5, <1>6
<1>. QED BY <1>4, <1>7 DEF s, Places

LEMMA FollowsOnly ==
    ASSUME NEW reg, Chained(co, reg), NEW m \in Nat
    PROVE  /\ \E f : Follows(f, m)
           /\ \A f : Follows(f, m) => f[m] = Places(reg, m + 1)
<1>1. <<co.registry>> = Places(reg, 1)
  <2>1. co.registry = Nth(reg, 1)
    BY DEF Chained
  <2>2. <<co.registry>> = [i \in 1 .. 1 |-> co.registry]
    OBVIOUS
  <2>3. \A i \in 1 .. 1 : co.registry = Nth(reg, i)
    BY <2>1
  <2>. QED BY <2>2, <2>3 DEF Places
<1>2. \A n \in 1 .. m : Extended(Places(reg, n), n) = Places(reg, n + 1)
  BY ExtendedDoes
<1>3. \E f : Follows(f, m)
  <2>. DEFINE f == [n \in 0 .. m |-> Places(reg, n + 1)]
  <2>1. \A n \in 0 .. m : f[n] = IF n = 0 THEN <<co.registry>> ELSE Extended(f[n - 1], n)
    <3>. SUFFICES ASSUME NEW n \in 0 .. m
                  PROVE  f[n] = IF n = 0 THEN <<co.registry>> ELSE Extended(f[n - 1], n)
      OBVIOUS
    <3>1. CASE n = 0
      BY <1>1, <3>1
    <3>2. CASE n # 0
      <4>1. n \in 1 .. m /\ n - 1 \in 0 .. m /\ (n - 1) + 1 = n
        BY <3>2
      <4>2. f[n] = Places(reg, n + 1) /\ f[n - 1] = Places(reg, n)
        BY <4>1
      <4>. QED BY <1>2, <3>2, <4>1, <4>2
    <3>. QED BY <3>1, <3>2
  <2>2. f = [n \in 0 .. m |-> f[n]]
    OBVIOUS
  <2>. HIDE DEF f
  <2>3. f = [n \in 0 .. m |-> IF n = 0 THEN <<co.registry>> ELSE Extended(f[n - 1], n)]
    BY <2>1, <2>2
  <2>. QED BY <2>3 DEF Follows
<1>4. ASSUME NEW f, Follows(f, m) PROVE f[m] = Places(reg, m + 1)
  <2>. DEFINE Wrong == {n \in 0 .. m : f[n] # Places(reg, n + 1)}
  <2>1. \A n \in 0 .. m : f[n] = IF n = 0 THEN <<co.registry>> ELSE Extended(f[n - 1], n)
    BY <1>4 DEF Follows
  <2>2. Wrong = {}
    <3>. SUFFICES ASSUME Wrong # {} PROVE FALSE
      OBVIOUS
    <3>0. Wrong \in SUBSET Nat
      OBVIOUS
    <3>1. PICK n \in Wrong : \A k \in Wrong : n <= k
      <4>. HIDE DEF Wrong
      <4>. QED BY <3>0, LeastNatural
    <3>2. n \in 0 .. m /\ f[n] # Places(reg, n + 1)
      BY <3>1
    <3>3. CASE n = 0
      BY <1>1, <2>1, <3>2, <3>3
    <3>4. CASE n # 0
      <4>1. n \in 1 .. m /\ n - 1 \in 0 .. m /\ (n - 1) + 1 = n /\ ~(n <= n - 1)
        BY <3>2, <3>4
      <4>2. f[n - 1] = Places(reg, n)
        BY <3>1, <4>1
      <4>. QED BY <1>2, <2>1, <3>2, <3>4, <4>1, <4>2
    <3>. QED BY <3>3, <3>4
  <2>. QED BY <2>2
<1>. QED BY <1>3, <1>4

LEMMA RegisteredIs ==
    ASSUME NEW reg, Chained(co, reg)
    PROVE  LET n == Cardinality(Coroutine)
           IN  C!Registered = Places(reg, n + 1) /\ Len(reg) <= n /\ n \in Nat
<1>. DEFINE n == Cardinality(Coroutine)
<1>1. n \in Nat
  BY Strands, FS_CardinalityType
<1>2. Len(reg) <= n
  <2>1. reg \in [1 .. Len(reg) -> Coroutine] /\ Len(reg) \in Nat
    BY DEF Chained
  <2>2. reg \in Injection(1 .. Len(reg), Coroutine)
    BY <2>1 DEF Chained, Distinct, Injection, IsInjective
  <2>3. Cardinality(1 .. Len(reg)) <= n
    BY <2>2, Strands, FS_Injection
  <2>4. Cardinality(1 .. Len(reg)) = Len(reg)
    <3>1. 1 \in Int /\ Len(reg) \in Int
      BY <2>1
    <3>2. Cardinality(1 .. Len(reg)) = IF 1 > Len(reg) THEN 0 ELSE Len(reg) - 1 + 1
      BY <3>1, FS_Interval
    <3>. QED BY <2>1, <3>2
  <2>. QED BY <2>3, <2>4
<1>3. C!Registered = (CHOOSE f : Follows(f, n))[n]
  <2>1. C!Cardinality(Coroutine) = n
    BY DEF C!Cardinality, Cardinality
  <2>2. C!Registered = (CHOOSE f : Follows(f, C!Cardinality(Coroutine)))[C!Cardinality(Coroutine)]
    BY DEF C!Registered, Follows, Extended
  <2>. QED BY <2>1, <2>2
<1>. HIDE DEF n
<1>4. Follows(CHOOSE f : Follows(f, n), n)
  BY <1>1, FollowsOnly
<1>5. C!Registered = Places(reg, n + 1)
  BY <1>1, <1>3, <1>4, FollowsOnly
<1>. QED BY <1>1, <1>2, <1>5 DEF n

\* Those that are found in the places of the registry.
Found(r) == {r[i] : i \in DOMAIN r} \ {NoCoroutine}
Having(reg) == {c \in Coroutine : Among(c, reg)}

LEMMA FoundAre ==
    ASSUME NEW reg, Chained(co, reg)
    PROVE  LET r == C!Registered
           IN  /\ \E n \in Nat : /\ n = C!Cardinality(Coroutine)
                                 /\ DOMAIN r = 1 .. n + 1 /\ Len(reg) <= n
               /\ \A i \in DOMAIN r : r[i] = Nth(reg, i)
               /\ Found(r) = Having(reg)
<1>. DEFINE n == Cardinality(Coroutine)
            r == C!Registered
<1>0. reg \in Seq(Coroutine) /\ Len(reg) \in Nat
  BY DEF Chained
<1>1. r = Places(reg, n + 1) /\ Len(reg) <= n /\ n \in Nat
  BY RegisteredIs
<1>2. n = C!Cardinality(Coroutine)
  BY DEF C!Cardinality, Cardinality
<1>. HIDE DEF n, r
<1>3. DOMAIN r = 1 .. n + 1 /\ \A i \in DOMAIN r : r[i] = Nth(reg, i)
  BY <1>1 DEF Places
<1>4. Found(r) = Having(reg)
  <2>1. ASSUME NEW c \in Found(r) PROVE c \in Having(reg)
    <3>1. PICK i \in DOMAIN r : c = Nth(reg, i)
      BY <1>3, <2>1 DEF Found
    <3>2. i \in 1 .. Len(reg) /\ c = reg[i]
      BY <2>1, <3>1 DEF Nth, Found
    <3>. QED BY <1>0, <3>2 DEF Having, Among
  <2>2. ASSUME NEW c \in Having(reg) PROVE c \in Found(r)
    <3>1. PICK i \in 1 .. Len(reg) : reg[i] = c
      BY <2>2 DEF Having, Among
    <3>2. i \in DOMAIN r
      BY <1>0, <1>1, <1>3
    <3>3. r[i] = c /\ c # NoCoroutine
      BY <1>3, <2>2, <3>1, <3>2, Strands DEF Nth, Having
    <3>. QED BY <3>2, <3>3 DEF Found
  <2>. QED BY <2>1, <2>2
<1>. QED BY <1>1, <1>2, <1>3, <1>4 DEF r

LEMMA RegistrySound ==
    ASSUME NEW reg, Coherent(co, reg)
    PROVE  C!RegistryTrue
<1>. DEFINE r == C!Registered
<1>0. Chained(co, reg)
  BY DEF Coherent
<1>1. PICK n \in Nat : n = C!Cardinality(Coroutine) /\ DOMAIN r = 1 .. n + 1 /\ Len(reg) <= n
  BY <1>0, FoundAre
<1>2. (\A i \in DOMAIN r : r[i] = Nth(reg, i)) /\ Found(r) = Having(reg)
  BY <1>0, FoundAre
<1>. HIDE DEF r
<1>3. reg \in Seq(Coroutine) /\ Len(reg) \in Nat
  BY <1>0 DEF Chained
<1>4. r[C!Cardinality(Coroutine) + 1] = NoCoroutine
  <2>1. n + 1 \in DOMAIN r /\ n + 1 \notin 1 .. Len(reg)
    BY <1>1, <1>3
  <2>. QED BY <1>1, <1>2, <2>1 DEF Nth
<1>5. ASSUME NEW i \in DOMAIN r, i > 1, r[i] # NoCoroutine
      PROVE  co.is[r[i]].prev = r[i - 1]
  <2>1. i \in 1 .. Len(reg) /\ r[i] = reg[i]
    BY <1>2, <1>5 DEF Nth
  <2>2. i - 1 \in DOMAIN r
    BY <1>1, <1>5
  <2>3. co.is[reg[i]].prev = Nth(reg, i - 1)
    BY <1>0, <2>1 DEF Chained
  <2>. QED BY <1>2, <2>1, <2>2, <2>3
<1>6. co.phase \in {"working", "recovering"} =>
          Found(r) = {c \in Coroutine : co.is[c].status # "uninitialized"}
  <2>. SUFFICES ASSUME co.phase \in {"working", "recovering"}
                PROVE  Having(reg) = {c \in Coroutine : co.is[c].status # "uninitialized"}
    BY <1>2
  <2>1. Members(co, reg)
    BY DEF Coherent, Lively
  <2>. QED BY <2>1 DEF Members, Having
<1>7. C!RegistryTrue <=>
        /\ r[C!Cardinality(Coroutine) + 1] = NoCoroutine
        /\ \A i \in DOMAIN r : i > 1 /\ r[i] # NoCoroutine => co.is[r[i]].prev = r[i - 1]
        /\ co.phase \in {"working", "recovering"} =>
               Found(r) = {c \in Coroutine : co.is[c].status # "uninitialized"}
  BY DEF C!RegistryTrue, Found, r
<1>. QED BY <1>4, <1>5, <1>6, <1>7

\* Whose a stack is, and where it is spare.
Users(reg, s) == {c \in Having(reg) : co.is[c].stack = s}
Spots(s) ==
    {at \in UNION {{i} \X DOMAIN co.spare[i].free : i \in DOMAIN co.spare} :
        co.spare[at[1]].free[at[2]] = s}

LEMMA StacksSound ==
    ASSUME NEW reg, Coherent(co, reg)
    PROVE  C!StacksTrue
<1>. DEFINE r == C!Registered
            q == co.spare
            sizes == co.stacks
<1>0. Chained(co, reg) /\ Stacked(co, reg) /\ (co.phase = "ended" => sizes = <<>>)
  BY DEF Coherent
<1>1. Found(r) = Having(reg)
  BY <1>0, FoundAre
<1>2. /\ sizes \in Seq(Nat) /\ q \in Seq(Shelf) /\ Fitting(q, sizes) /\ Once(q)
      /\ DOMAIN sizes = 1 .. Len(sizes) /\ DOMAIN q = 1 .. Len(q)
  BY <1>0 DEF Stacked, Shelved
<1>3. \A c \in Having(reg) :
          /\ co.is[c].stack \in 1 .. Len(sizes) /\ co.is[c].size \in Nat
          /\ sizes[co.is[c].stack] = C!Rounded(co.is[c].size)
          /\ ~IsSpare(q, co.is[c].stack)
  BY <1>0 DEF Stacked, Having
<1>4. \A c, d \in Having(reg) : co.is[c].stack = co.is[d].stack => c = d
  BY <1>0 DEF Stacked, Having
<1>5. \A x \in 1 .. Len(sizes) : IsSpare(q, x) \/ \E c \in Having(reg) : co.is[c].stack = x
  BY <1>0 DEF Stacked, Having
<1>6. \A i \in 1 .. Len(q) : q[i].free \in Seq(Nat) /\ DOMAIN q[i].free = 1 .. Len(q[i].free)
  <2>. SUFFICES ASSUME NEW i \in 1 .. Len(q)
                PROVE  q[i].free \in Seq(Nat) /\ DOMAIN q[i].free = 1 .. Len(q[i].free)
    OBVIOUS
  <2>. HIDE DEF q
  <2>1. q[i] \in Shelf
    BY <1>2
  <2>2. q[i].free \in Seq(Nat)
    BY <2>1 DEF Shelf
  <2>. QED BY <2>2
<1>. HIDE DEF r
<1>7. ASSUME NEW s, NEW at PROVE at \in Spots(s) <=>
        \E i \in 1 .. Len(q) : \E j \in 1 .. Len(q[i].free) : at = <<i, j>> /\ q[i].free[j] = s
  BY <1>2, <1>6 DEF Spots
<1>8. ASSUME NEW s \in 1 .. Len(sizes)
      PROVE  C!Cardinality(Users(reg, s)) + C!Cardinality(Spots(s)) = 1
  <2>0. /\ \A x : C!Cardinality({x}) = 1
        /\ C!Cardinality({}) = 0
    <3>1. \A S : C!Cardinality(S) = Cardinality(S)
      BY DEF C!Cardinality, Cardinality
    <3>. QED BY <3>1, FS_Singleton, FS_EmptySet
  <2>1. CASE IsSpare(q, s)
    <3>1. PICK i \in 1 .. Len(q) : \E j \in 1 .. Len(q[i].free) : q[i].free[j] = s
      BY <2>1 DEF IsSpare
    <3>1a. PICK j \in 1 .. Len(q[i].free) : q[i].free[j] = s
      BY <3>1
    <3>2. Spots(s) = {<<i, j>>}
      <4>1. <<i, j>> \in Spots(s)
        BY <1>7, <3>1a
      <4>2. ASSUME NEW at \in Spots(s) PROVE at = <<i, j>>
        <5>1. PICK k \in 1 .. Len(q) : \E m \in 1 .. Len(q[k].free) : at = <<k, m>> /\ q[k].free[m] = s
          BY <1>7, <4>2
        <5>1a. PICK m \in 1 .. Len(q[k].free) : at = <<k, m>> /\ q[k].free[m] = s
          BY <5>1
        <5>2. k = i /\ m = j
          BY <1>2, <3>1a, <5>1a DEF Once
        <5>. QED BY <5>1a, <5>2
      <4>. QED BY <4>1, <4>2
    <3>3. Users(reg, s) = {}
      BY <1>3, <2>1 DEF Users
    <3>4. C!Cardinality(Users(reg, s)) = 0 /\ C!Cardinality(Spots(s)) = 1
      BY <2>0, <3>2, <3>3, Zenon
    <3>5. 0 + 1 = 1
      OBVIOUS
    <3>. QED BY <3>4, <3>5, Zenon
  <2>2. CASE ~IsSpare(q, s)
    <3>1. PICK c \in Having(reg) : co.is[c].stack = s
      BY <1>5, <2>2
    <3>2. Users(reg, s) = {c}
      BY <1>4, <3>1 DEF Users
    <3>3. Spots(s) = {}
      BY <1>7, <2>2 DEF IsSpare
    <3>4. C!Cardinality(Users(reg, s)) = 1 /\ C!Cardinality(Spots(s)) = 0
      BY <2>0, <3>2, <3>3, Zenon
    <3>5. 1 + 0 = 1
      OBVIOUS
    <3>. QED BY <3>4, <3>5, Zenon
  <2>. QED BY <2>1, <2>2
<1>9. ASSUME NEW s \in 1 .. Len(sizes), NEW c \in Having(reg), co.is[c].stack = s
      PROVE  co.is[c].size <= sizes[s] /\ sizes[s] = C!Rounded(co.is[c].size)
  BY <1>3, <1>9, Rounds
<1>10. ASSUME NEW s \in 1 .. Len(sizes), NEW at \in Spots(s)
       PROVE  q[at[1]].size = sizes[s]
  <2>1. PICK i \in 1 .. Len(q) : \E j \in 1 .. Len(q[i].free) : at = <<i, j>> /\ q[i].free[j] = s
    BY <1>7, <1>10
  <2>1a. PICK j \in 1 .. Len(q[i].free) : at = <<i, j>> /\ q[i].free[j] = s
    BY <2>1
  <2>2. sizes[q[i].free[j]] = q[i].size
    BY <1>2, <2>1a DEF Fitting
  <2>. QED BY <2>1a, <2>2
<1>11. C!StacksTrue <=>
        /\ \A s \in DOMAIN sizes :
               /\ C!Cardinality({c \in Having(reg) : co.is[c].stack = s}) + C!Cardinality(Spots(s)) = 1
               /\ \A c \in Having(reg) : co.is[c].stack = s =>
                      co.is[c].size <= sizes[s] /\ sizes[s] = C!Rounded(co.is[c].size)
               /\ \A at \in Spots(s) : q[at[1]].size = sizes[s]
        /\ co.phase = "ended" => DOMAIN sizes = {}
  <2>1. C!StacksTrue <=>
        /\ \A s \in DOMAIN sizes :
               /\ C!Cardinality({c \in Found(r) : co.is[c].stack = s}) + C!Cardinality(Spots(s)) = 1
               /\ \A c \in Found(r) : co.is[c].stack = s =>
                      co.is[c].size <= sizes[s] /\ sizes[s] = C!Rounded(co.is[c].size)
               /\ \A at \in Spots(s) : q[at[1]].size = sizes[s]
        /\ co.phase = "ended" => DOMAIN sizes = {}
    BY DEF C!StacksTrue, Found, Spots, r
  <2>. HIDE DEF q, sizes
  <2>. QED BY <1>1, <2>1
<1>12. co.phase = "ended" => DOMAIN sizes = {}
  BY <1>0
<1>13. \A s : Users(reg, s) = {c \in Having(reg) : co.is[c].stack = s}
  BY DEF Users
<1>. HIDE DEF q, sizes
<1>. QED BY <1>2, <1>8, <1>9, <1>10, <1>11, <1>12, <1>13

LEMMA ControlSound ==
    ASSUME NEW reg, Coherent(co, reg)
    PROVE  C!ControlTrue
  BY DEF Coherent, Controlled, C!ControlTrue, C!Running, Strand

(* Whatever coroutines are made, started, passed control, stopped, reset,   *)
(* torn down or abandoned, the registry leads to all that have a stack and  *)
(* to no other, no stack is lost or used twice, and wherever control may be *)
(* passed a context is saved (src/src/cmi_coroutine.c): for any number of   *)
(* coroutines, any stack sizes and any size of a page.                      *)
THEOREM CoroutinesTrueCorrect == LibrarySpec => []CoroutinesTrue
<1>1. LibraryInit => CoroutinesSound
  BY CoroutinesStart
<1>2. CoroutinesSound /\ [LibraryNext]_libraryVars => CoroutinesSound'
  <2>. SUFFICES ASSUME CoroutinesSound, [LibraryNext]_libraryVars PROVE CoroutinesSound'
    OBVIOUS
  <2>1. CASE CoroutineSteps
    BY <2>1, CoroutinesKeep DEF CoroutineSteps
  <2>2. CASE HeapSteps \/ DatasetSteps \/ SeriesSteps \/ PoolSteps \/ TableSteps \/ DrawSteps
               \/ ListSteps \/ UNCHANGED libraryVars
    <3>1. co' = co
      BY <2>2 DEF HeapSteps, DatasetSteps, SeriesSteps, PoolSteps, TableSteps, DrawSteps, ListSteps,
                  libraryVars
    <3>. QED BY <3>1 DEF CoroutinesSound
  <2>. QED BY <2>1, <2>2 DEF LibraryNext
<1>3. CoroutinesSound => CoroutinesTrue
  BY RegistrySound, StacksSound, ControlSound DEF CoroutinesSound, CoroutinesTrue, C!CoroutinesTrue
<1>. QED BY <1>1, <1>2, <1>3, PTL DEF LibrarySpec
=============================================================================
