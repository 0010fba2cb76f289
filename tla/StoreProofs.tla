----------------------------- MODULE StoreProofs -----------------------------
(***************************************************************************)
(* Buffers, object queues and priority queues implement the bounded store: *)
(* every step of module StoreSystem is a move of module BoundedStore, or   *)
(* leaves the store and the hands of the processes as they are.            *)
(***************************************************************************)
EXTENDS StoreSystem, FiniteSetTheorems, TLAPS

K == INSTANCE KernelProofs WITH Guard <- Door, Satisfied <- IsReady

-----------------------------------------------------------------------------
(* The operators that StoreSystem and ProcessSystem instantiate are those  *)
(* that the lemmas on the kernel are about.                                *)
LEMMA SameSets ==
  /\ \A S : K!Cardinality(S) = Cardinality(S) /\ Store!Cardinality(S) = Cardinality(S)
  /\ \A S : K!IsFiniteSet(S) <=> IsFiniteSet(S)
<1>1. \A S : K!Cardinality(S) = Cardinality(S)
  BY SMTT(30) DEF K!Cardinality, Cardinality
<1>2. \A S : Store!Cardinality(S) = Cardinality(S)
  BY DEF Cardinality, Store!Cardinality
<1>3. \A S : K!IsFiniteSet(S) <=> IsFiniteSet(S)
  BY SMTT(30) DEF K!IsFiniteSet, IsFiniteSet
<1>. QED BY <1>1, <1>2, <1>3

LEMMA SameSignal ==
  ASSUME NEW s, NEW g
  PROVE  Kernel!Signal(s, g) = K!Signal(s, g)
  BY SMTT(30) DEF K!Signal, Kernel!Signal, K!HeardAt, Kernel!HeardAt, K!Granted, Kernel!Granted,
         K!Asserted, Kernel!Asserted, K!Schedule, Kernel!Schedule, K!Enter, Kernel!Enter,
         K!Leave, Kernel!Leave, K!GuardKey, Kernel!GuardKey, K!Front, Kernel!Front,
         K!Cardinality, Kernel!Cardinality

(* Those that the calls of a store make signal a door that nothing         *)
(* observes.                                                               *)
LEMMA SameRing ==
  ASSUME NEW s, NEW g, s.observers[g] = <<>>
  PROVE  Signal(s, g) = K!Signal(s, g)
<1>1. Granted(s, g) = K!Granted(s, g)
  BY DEF K!Granted, Granted, K!Asserted, Asserted, K!Schedule, Schedule, K!Enter, Enter,
         K!Leave, Leave, K!GuardKey, GuardKey, K!Front, Front, K!Cardinality, Cardinality
<1>2. Signal(s, g) = Granted(s, g)
  BY DEF Signal
<1>3. K!Signal(s, g) = K!Granted(s, g)
  BY DEF K!Signal
<1>. QED BY <1>1, <1>2, <1>3

LEMMA SameCancelAwaiteds ==
  ASSUME NEW s, NEW p
  PROVE  Kernel!CancelAwaiteds(s, p) = K!CancelAwaiteds(s, p)
<1> DEFINE g == s.ticket[p].guard
           mine == IF g = NoOne THEN {} ELSE K!Entries(s, g, s.ticket[p].key)
           t == [K!CancelEvents(s, K!Swept(s, p)) EXCEPT
                   !.timers[p] = {},
                   !.ticket[p] = K!NoTicket,
                   !.joins[p]  = NoOne,
                   !.queue     = [h \in Door |-> IF h = g THEN K!Leave(@[h], mine)
                                                 ELSE @[h]],
                   !.waiters   = [q \in Process |->
                                    IF q = s.joins[p] THEN K!Unlink(@[q], p) ELSE @[q]]]
<1>1. K!CancelAwaiteds(s, p) = IF g # NoOne /\ mine = {} THEN K!Signal(t, g) ELSE t
  BY DEF K!CancelAwaiteds
<1>2. Kernel!CancelAwaiteds(s, p)
        = IF g # NoOne /\ mine = {} THEN Kernel!Signal(t, g) ELSE t
  BY DEF Kernel!CancelAwaiteds, Kernel!CancelEvents, K!CancelEvents, Kernel!Leave, K!Leave,
         Kernel!Cardinality, K!Cardinality, Kernel!Swept, K!Swept, Kernel!Unchecked,
         K!Unchecked, Kernel!TimerEvents, K!TimerEvents, Kernel!Entries, K!Entries,
         Kernel!Unlink, K!Unlink, Kernel!Occurrence, K!Occurrence, Kernel!NoTicket,
         K!NoTicket
<1> HIDE DEF t
<1>3. Kernel!Signal(t, g) = K!Signal(t, g)
  BY SameSignal
<1>. QED BY <1>1, <1>2, <1>3

LEMMA SameGuardResume ==
  ASSUME NEW s, NEW p, NEW sig
  PROVE  Kernel!GuardResume(s, p, sig) = K!GuardResume(s, p, sig)
<1> DEFINE g == s.call[p].on
           mine == K!Entries(s, g, s.call[p].key)
           t == K!RemoveTicket(s, p, g)
           left == [t EXCEPT !.queue[g] = K!Leave(@, mine)]
<1>1. K!GuardResume(s, p, sig) =
        IF sig = "success" THEN K!Asserted(t, mine = {}, "guard_wait")
        ELSE IF mine # {} THEN left
        ELSE IF sig # "cancelled" THEN K!Signal(t, g) ELSE t
  BY DEF K!GuardResume
<1>2. Kernel!RemoveTicket(s, p, g) = t
  BY DEF Kernel!RemoveTicket, K!RemoveTicket, Kernel!NoTicket, K!NoTicket
<1>3. Kernel!Entries(s, g, s.call[p].key) = mine
  BY DEF Kernel!Entries, K!Entries
<1> HIDE DEF t, mine
<1>4. Kernel!Leave(t.queue[g], mine) = K!Leave(t.queue[g], mine)
  BY DEF Kernel!Leave, K!Leave, Kernel!Cardinality, K!Cardinality
<1>5. Kernel!Asserted(t, mine = {}, "guard_wait") = K!Asserted(t, mine = {}, "guard_wait")
  BY DEF Kernel!Asserted, K!Asserted
<1>6. Kernel!Signal(t, g) = K!Signal(t, g)
  BY SameSignal
<1>7. Kernel!GuardResume(s, p, sig) =
        IF sig = "success" THEN Kernel!Asserted(t, mine = {}, "guard_wait")
        ELSE IF mine # {} THEN [t EXCEPT !.queue[g] = Kernel!Leave(t.queue[g], mine)]
        ELSE IF sig # "cancelled" THEN Kernel!Signal(t, g) ELSE t
  BY <1>2, <1>3 DEF Kernel!GuardResume
<1>. QED BY <1>1, <1>4, <1>5, <1>6, <1>7

(* The calls that the clients' own code makes.                             *)
LEMMA SameCalls ==
  /\ \A s, p, sig : Return(s, p, sig) = K!Return(s, p, sig)
  /\ \A s, p, fn, g : GuardWait(s, p, fn, g) = K!GuardWait(s, p, fn, g)
  /\ Idle = K!Idle /\ NoTicket = K!NoTicket
<1>1. \A s, p, sig : Return(s, p, sig) = K!Return(s, p, sig)
  BY DEF K!Return, Return, K!Idle, Idle
<1>2. \A s, p, fn, g : GuardWait(s, p, fn, g) = K!GuardWait(s, p, fn, g)
  BY DEF K!GuardWait, GuardWait, K!Block, Block, K!AddTicket, AddTicket, K!Enter, Enter,
         K!FreshKey, FreshKey, K!KeysInUse, KeysInUse, K!Cardinality, Cardinality
<1>3. Idle = K!Idle /\ NoTicket = K!NoTicket
  BY DEF Idle, K!Idle, NoTicket, K!NoTicket
<1>. QED BY <1>1, <1>2, <1>3

(* Those of the processes and of the dispatcher.                           *)
LEMMA SameProcessCalls ==
  /\ \A s, p, sig : Kernel!Return(s, p, sig) = K!Return(s, p, sig)
  /\ \A s, p, fn, on, key : Kernel!Block(s, p, fn, on, key) = K!Block(s, p, fn, on, key)
  /\ \A s, p : Kernel!Finished(s, p) = K!Finished(s, p)
  /\ \A s, p : Kernel!CancelAwaiteds(s, p) = K!CancelAwaiteds(s, p)
  /\ \A s, p, sig : Kernel!WakeWaiters(s, p, sig) = K!WakeWaiters(s, p, sig)
  /\ \A s, p, q : Kernel!WaitProcess(s, p, q) = K!WaitProcess(s, p, q)
  /\ \A s, p, sig : Kernel!GuardResume(s, p, sig) = K!GuardResume(s, p, sig)
  /\ \A s, p, g : Kernel!GuardCancel(s, p, g) = K!GuardCancel(s, p, g)
  /\ \A s, p, pri : Kernel!PrioritySet(s, p, pri) = K!PrioritySet(s, p, pri)
  /\ \A s, p, delay, sig : Kernel!TimerAdd(s, p, delay, sig) = K!TimerAdd(s, p, delay, sig)
  /\ \A s, p, key : Kernel!TimerCancel(s, p, key) = K!TimerCancel(s, p, key)
  /\ \A s, p : Kernel!TimersClear(s, p) = K!TimersClear(s, p)
  /\ \A s, kind, p, key, sig, delay, pri :
       Kernel!Schedule(s, kind, p, key, sig, delay, pri)
         = K!Schedule(s, kind, p, key, sig, delay, pri)
  /\ \A s, holds, name : Kernel!Asserted(s, holds, name) = K!Asserted(s, holds, name)
  /\ \A A : Kernel!First(A) = K!First(A)
  /\ \A s : Kernel!Dequeue(s) = K!Dequeue(s)
  /\ \A ws, x : Kernel!Unlink(ws, x) = K!Unlink(ws, x)
<1>1. \A s, p, sig : Kernel!Return(s, p, sig) = K!Return(s, p, sig)
  BY DEF Kernel!Return, K!Return, Kernel!Idle, K!Idle
<1>2. \A s, p, fn, on, key : Kernel!Block(s, p, fn, on, key) = K!Block(s, p, fn, on, key)
  BY DEF Kernel!Block, K!Block
<1>3. \A s, p : Kernel!Finished(s, p) = K!Finished(s, p)
  BY DEF Kernel!Finished, K!Finished, Kernel!Idle, K!Idle
<1>4. \A s, p : Kernel!CancelAwaiteds(s, p) = K!CancelAwaiteds(s, p)
  BY SameCancelAwaiteds
<1>5. \A s, p, sig : Kernel!WakeWaiters(s, p, sig) = K!WakeWaiters(s, p, sig)
  BY DEF Kernel!WakeWaiters, K!WakeWaiters, Kernel!Cardinality, K!Cardinality
<1>6. \A s, p, q : Kernel!WaitProcess(s, p, q) = K!WaitProcess(s, p, q)
  BY DEF Kernel!WaitProcess, K!WaitProcess, Kernel!Block, K!Block
<1>7. \A s, p, sig : Kernel!GuardResume(s, p, sig) = K!GuardResume(s, p, sig)
  BY SameGuardResume
<1>8. \A s, p, g : Kernel!GuardCancel(s, p, g) = K!GuardCancel(s, p, g)
  BY DEF Kernel!GuardCancel, K!GuardCancel, Kernel!Leave, K!Leave, Kernel!Schedule,
         K!Schedule, Kernel!Enter, K!Enter, Kernel!Cardinality, K!Cardinality,
         Kernel!Entries, K!Entries, Kernel!GuardKey, K!GuardKey
<1>9. \A s, p, pri : Kernel!PrioritySet(s, p, pri) = K!PrioritySet(s, p, pri)
  BY DEF Kernel!PrioritySet, K!PrioritySet, Kernel!Asserted, K!Asserted, Kernel!Entries,
         K!Entries, Kernel!TimerEvents, K!TimerEvents
<1>10. \A s, p, delay, sig :
         Kernel!TimerAdd(s, p, delay, sig) = K!TimerAdd(s, p, delay, sig)
  BY DEF Kernel!TimerAdd, K!TimerAdd, Kernel!FreshKey, K!FreshKey, Kernel!KeysInUse,
         K!KeysInUse, Kernel!Schedule, K!Schedule, Kernel!Enter, K!Enter,
         Kernel!Cardinality, K!Cardinality
<1>11. \A s, p, key : Kernel!TimerCancel(s, p, key) = K!TimerCancel(s, p, key)
  BY DEF Kernel!TimerCancel, K!TimerCancel, Kernel!TimerEvents, K!TimerEvents,
         Kernel!CancelEvents, K!CancelEvents, Kernel!Leave, K!Leave, Kernel!Cardinality,
         K!Cardinality
<1>12. \A s, p : Kernel!TimersClear(s, p) = K!TimersClear(s, p)
  BY DEF Kernel!TimersClear, K!TimersClear, Kernel!Asserted, K!Asserted,
         Kernel!TimerEvents, K!TimerEvents, Kernel!CancelEvents, K!CancelEvents,
         Kernel!Leave, K!Leave, Kernel!Cardinality, K!Cardinality
<1>13. \A s, kind, p, key, sig, delay, pri :
        Kernel!Schedule(s, kind, p, key, sig, delay, pri)
          = K!Schedule(s, kind, p, key, sig, delay, pri)
  BY DEF Kernel!Schedule, K!Schedule, Kernel!Enter, K!Enter, Kernel!Cardinality,
         K!Cardinality
<1>14. \A s, holds, name : Kernel!Asserted(s, holds, name) = K!Asserted(s, holds, name)
  BY DEF Kernel!Asserted, K!Asserted
<1>15. \A A : Kernel!First(A) = K!First(A)
  BY DEF Kernel!First, K!First, Kernel!Before, K!Before
<1>16. \A s : Kernel!Dequeue(s) = K!Dequeue(s)
  BY DEF Kernel!Dequeue, K!Dequeue, Kernel!Leave, K!Leave, Kernel!Cardinality,
         K!Cardinality, Kernel!First, K!First, Kernel!Before, K!Before
<1>17. \A ws, x : Kernel!Unlink(ws, x) = K!Unlink(ws, x)
  BY DEF Kernel!Unlink, K!Unlink, Kernel!Occurrence, K!Occurrence
<1>. QED BY <1>1, <1>2, <1>3, <1>4, <1>5, <1>6, <1>7, <1>8, <1>9, <1>10, <1>11,
            <1>12, <1>13, <1>14, <1>15, <1>16, <1>17

-----------------------------------------------------------------------------
(* The contents of the store are numbered, as the queues are, and never    *)
(* more than the capacity.                                                 *)
Stock(items) == K!Numbered(items) /\ Cardinality(items) <= Capacity

LEMMA CountIsNatural ==
  ASSUME NEW S, K!Numbered(S)
  PROVE  IsFiniteSet(S) /\ Cardinality(S) \in Nat
  BY SameSets, FS_CardinalityType DEF K!Numbered

LEMMA StockWithout ==
  ASSUME NEW S, Stock(S), NEW gone \in SUBSET S
  PROVE  Stock(Store!Without(S, gone)) /\ IsFiniteSet(gone)
<1>1. Store!Without(S, gone) = K!Leave(S, gone)
  BY SameSets DEF Store!Without, K!Leave
<1>2. K!Numbered(S) /\ IsFiniteSet(S) /\ Cardinality(S) \in Nat /\ Cardinality(S) <= Capacity
  BY CountIsNatural DEF Stock
<1>3. IsFiniteSet(gone) /\ Cardinality(gone) \in Nat
  BY <1>2, FS_Subset, FS_CardinalityType
<1>4. /\ K!Numbered(K!Leave(S, gone))
      /\ K!Cardinality(K!Leave(S, gone)) = K!Cardinality(S) - K!Cardinality(gone)
  BY <1>2, K!LeaveNumbered
<1>5. /\ Cardinality(K!Leave(S, gone)) = Cardinality(S) - Cardinality(gone)
  BY <1>4, SameSets
<1>6. Capacity \in Nat
  BY StoreAssumption
<1>7. Cardinality(K!Leave(S, gone)) <= Capacity
  BY <1>2, <1>3, <1>5, <1>6
<1>. QED BY <1>1, <1>3, <1>4, <1>7 DEF Stock

LEMMA StockAdded ==
  ASSUME NEW S, Stock(S), NEW o, NEW rank, NEW n \in Nat, Cardinality(S) + n <= Capacity
  PROVE  Stock(Store!Added(S, o, rank, n))
<1> DEFINE m == Cardinality(S)
           x(i) == [obj |-> o, rank |-> rank, tag |-> m + i]
           T == {x(i) : i \in 1..n}
           F == [i \in 1..n |-> x(i)]
<1>1. K!Numbered(S) /\ m \in Nat
  BY CountIsNatural DEF Stock
<1>2. \A i \in 1..n : "tag" \in DOMAIN x(i) /\ x(i).tag = m + i
  OBVIOUS
<1>3. Store!Added(S, o, rank, n) = S \cup T
  BY SameSets DEF Store!Added
<1> HIDE DEF x, m
<1>4. F \in Bijection(1..n, T)
  BY <1>1, <1>2 DEF Bijection, Injection, Surjection, IsInjective
<1>5. IsFiniteSet(1..n) /\ Cardinality(1..n) = n
  BY FS_Interval
<1>6. IsFiniteSet(T) /\ Cardinality(T) = n
  BY <1>4, <1>5, FS_Bijection DEF ExistsBijection
<1>7. \A t \in T : "tag" \in DOMAIN t /\ \E i \in 1..n : t.tag = m + i
  BY <1>2
<1>8. \A t, u \in T : t.tag = u.tag => t = u
  BY <1>1, <1>2
<1> HIDE DEF T
<1>9. /\ K!IsFiniteSet(T) /\ K!Cardinality(T) = n /\ K!Cardinality(S) = m
  BY <1>6, SameSets DEF m
<1>10. /\ K!Numbered(S \cup T)
       /\ K!Cardinality(S \cup T) = K!Cardinality(S) + K!Cardinality(T)
  BY <1>1, <1>7, <1>8, <1>9, K!ExtendNumbered, Zenon
<1>11. Cardinality(S \cup T) = m + n
  BY <1>9, <1>10, SameSets
<1>. QED BY <1>3, <1>10, <1>11 DEF Stock, m

(* A change of the rank of one that is there.                              *)
LEMMA StockReranked ==
  ASSUME NEW S, Stock(S), NEW x \in S, NEW rank
  PROVE  Stock((S \ {x}) \cup {[x EXCEPT !.rank = rank]})
<1> DEFINE y == [x EXCEPT !.rank = rank]
           T == (S \ {x}) \cup {y}
           F == [e \in S |-> IF e = x THEN y ELSE e]
<1>1. K!Numbered(S) /\ Cardinality(S) <= Capacity
  BY DEF Stock
<1>2. \A e \in S : "tag" \in DOMAIN e /\ e.tag \in 1..K!Cardinality(S)
  BY <1>1 DEF K!Numbered
<1>3. "tag" \in DOMAIN y /\ y.tag = x.tag
  BY <1>2
<1> HIDE DEF y
<1>4. F \in [S -> T] /\ \A t \in T : \E e \in S : t = F[e]
  <2>1. F[x] = y /\ \A e \in S \ {x} : F[e] = e
    OBVIOUS
  <2>. QED BY <2>1
<1>5. \A e \in S : "tag" \in DOMAIN F[e] /\ F[e].tag = e.tag
  BY <1>2, <1>3
<1> HIDE DEF F, T
<1>6. \A e \in S : "tag" \in DOMAIN F[e] /\ F[e].tag \in 1..K!Cardinality(S)
  BY <1>2, <1>5
<1>7. \A e, f \in S : F[e].tag = F[f].tag => e = f
  BY <1>1, <1>5 DEF K!Numbered
<1>8. K!Numbered(T) /\ K!Cardinality(T) = K!Cardinality(S)
  <2>1. K!IsFiniteSet(S)
    BY <1>1 DEF K!Numbered
  <2>. QED BY <1>4, <1>6, <1>7, <2>1, K!NumberedImage
<1>. QED BY <1>1, <1>8, SameSets DEF Stock, T, y

LEMMA ReceivedCounts ==
  ASSUME NEW had \in [Object -> Nat], NEW gone, IsFiniteSet(gone)
  PROVE  /\ Store!Received(had, gone) \in [Object -> Nat]
         /\ \A o \in Object : had[o] <= Store!Received(had, gone)[o]
<1> DEFINE c(o) == Cardinality({g \in gone : g.obj = o})
<1>1. \A o : c(o) \in Nat
  <2>1. ASSUME NEW o PROVE c(o) \in Nat
    <3>1. {g \in gone : g.obj = o} \in SUBSET gone
      OBVIOUS
    <3>. QED BY <3>1, FS_Subset, FS_CardinalityType
  <2>. QED BY <2>1
<1>2. Store!Received(had, gone) = [o \in Object |-> had[o] + c(o)]
  BY SameSets DEF Store!Received
<1> HIDE DEF c
<1>. QED BY <1>1, <1>2

-----------------------------------------------------------------------------
(* What a call that waits at a door still has to move: a put has it in     *)
(* hand.                                                                   *)
Pending(door, l, had) ==
  /\ {"rem", "obj", "rank"} \subseteq DOMAIN l /\ l.rem \in Nat \ {0}
  /\ door = "rear" => l.obj \in Object /\ l.rank \in Rank /\ l.rem <= had[l.obj]

(* The call c of a process that has the locals l and has had in hand.      *)
Consistent(c, l, had) ==
  /\ c.fn \in K!Unguarded \cup {"get", "put"}
  /\ c.fn = "get" => c.on = "front" /\ Pending("front", l, had)
  /\ c.fn = "put" => c.on = "rear" /\ Pending("rear", l, had)

Own == {"kind", "items", "hand", "claim", "cancelled"}

Stocked(s) ==
  /\ K!Steady(s) /\ Own \subseteq DOMAIN s
  /\ Stock(s.items)
  /\ s.hand \in [Process -> [Object -> Nat]]
  /\ DOMAIN s.claim = Process

ClaimAt(s, p) == Consistent(s.call[p], s.claim[p], s.hand[p])

(* While a call of p is under way.                                         *)
Within(s, p) == Stocked(s) /\ \A q \in Process : q # p => ClaimAt(s, q)

Sound(s) == Stocked(s) /\ \A q \in Process : ClaimAt(s, q)

LEMMA SoundWithin ==
  ASSUME NEW s, Sound(s), NEW p PROVE Within(s, p)
  BY DEF Sound, Within

LEMMA WithinSound ==
  ASSUME NEW s, NEW p \in Process, Within(s, p), ClaimAt(s, p) PROVE Sound(s)
  BY DEF Sound, Within

(* Nothing happens to the store.                                           *)
Settled(s, t) == t.items = s.items /\ t.hand = s.hand

(* Nor to the locals.                                                      *)
Kept(s, t) == Settled(s, t) /\ t.claim = s.claim /\ t.kind = s.kind

(* Nobody but p changes its call.                                          *)
OthersStay(s, t, p) == \A q \in Process : q # p => t.call[q] = s.call[q]

LEMMA ForeignKept ==
  ASSUME NEW s, Own \subseteq DOMAIN s, NEW t, K!Foreign(s, t)
  PROVE  Kept(s, t) /\ Own \subseteq DOMAIN t
  BY DEF K!Foreign, Kept, Settled, Own, K!Fields

LEMMA ForeignWithin ==
  ASSUME NEW s, NEW p, Within(s, p), NEW t, K!Steady(t), K!Foreign(s, t),
         OthersStay(s, t, p)
  PROVE  Within(t, p) /\ Kept(s, t)
<1>1. Kept(s, t) /\ Own \subseteq DOMAIN t
  BY ForeignKept DEF Within, Stocked
<1>2. Stocked(t)
  BY <1>1 DEF Within, Stocked, Kept, Settled
<1>3. \A q \in Process : q # p => ClaimAt(t, q)
  BY <1>1 DEF Within, ClaimAt, OthersStay, Kept, Settled
<1>. QED BY <1>1, <1>2, <1>3 DEF Within

LEMMA CalmWithin ==
  ASSUME NEW s, NEW p, Within(s, p), NEW t, K!Calm(s, t)
  PROVE  /\ Within(t, p) /\ Kept(s, t) /\ t.call = s.call
         /\ t.running = s.running
<1>1. K!Steady(t) /\ K!Foreign(s, t) /\ t.call = s.call /\ t.running = s.running
  BY DEF K!Calm, K!Still, K!Aside
<1>2. OthersStay(s, t, p)
  BY <1>1 DEF OthersStay
<1>. QED BY <1>1, <1>2, ForeignWithin

LEMMA CalmSound ==
  ASSUME NEW s, Sound(s), NEW t, K!Calm(s, t)
  PROVE  Sound(t) /\ Kept(s, t) /\ t.call = s.call /\ t.running = s.running
<1>1. K!Steady(t) /\ K!Foreign(s, t) /\ t.call = s.call /\ t.running = s.running
  BY DEF K!Calm, K!Still, K!Aside
<1>2. Kept(s, t) /\ Own \subseteq DOMAIN t
  BY <1>1, ForeignKept DEF Sound, Stocked
<1>3. Stocked(t)
  BY <1>1, <1>2 DEF Sound, Stocked, Kept, Settled
<1>4. \A q \in Process : ClaimAt(t, q)
  BY <1>1, <1>2 DEF Sound, ClaimAt, Kept, Settled
<1>. QED BY <1>1, <1>2, <1>3, <1>4 DEF Sound

(* A call of p ends, or p is not in a call that waits at a door.           *)
LEMMA UnguardedClaim ==
  ASSUME NEW s, NEW p, s.call[p].fn \in K!Unguarded
  PROVE  ClaimAt(s, p)
  BY DEF ClaimAt, Consistent, K!Unguarded

-----------------------------------------------------------------------------
(* One move of the bounded store, from contents c and hands h on.          *)
Moves(c, h, d, g) ==
  \/ \E p \in Process, o \in Object, rank \in Rank, n \in 1..Capacity :
       /\ n <= h[p][o]
       /\ Cardinality(c) + n <= Capacity
       /\ d = Store!Added(c, o, rank, n)
       /\ g = [h EXCEPT ![p][o] = @ - n]
  \/ \E p \in Process, n \in 1..Cardinality(c) :
       /\ d = Store!Without(c, Store!Served(c, n))
       /\ g = [h EXCEPT ![p] = Store!Received(@, Store!Served(c, n))]
  \/ \E p \in Process, x \in c :
       /\ d = Store!Without(c, {x})
       /\ g = [h EXCEPT ![p] = Store!Received(@, {x})]
  \/ \E x \in c, rank \in Rank :
       /\ d = (c \ {x}) \cup {[x EXCEPT !.rank = rank]}
       /\ g = h

Stored(s, t) == Settled(s, t) \/ Moves(s.items, s.hand, t.items, t.hand)

LEMMA StoredAround ==
  ASSUME NEW s, NEW t, NEW u, NEW v, Settled(s, t), Stored(t, u), Settled(u, v)
  PROVE  Stored(s, v)
  BY DEF Stored, Settled

LEMMA SettledStored ==
  ASSUME NEW s, NEW t, NEW u, Settled(s, t), Stored(t, u) PROVE Stored(s, u)
  BY DEF Stored, Settled

LEMMA StepOfStore ==
  Stored(sys, sys') => [Store!Move]_<<sys.items, sys.hand>>
<1> SUFFICES ASSUME Stored(sys, sys') PROVE [Store!Move]_<<sys.items, sys.hand>>
  OBVIOUS
<1>1. CASE Settled(sys, sys')
  BY <1>1 DEF Settled
<1>2. CASE Moves(sys.items, sys.hand, sys.items', sys.hand')
  <2>1. Cardinality(sys.items) = Store!Cardinality(sys.items)
    BY SameSets
  <2>2. CASE \E p \in Process, o \in Object, rank \in Rank, n \in 1..Capacity :
               /\ n <= sys.hand[p][o]
               /\ Cardinality(sys.items) + n <= Capacity
               /\ sys.items' = Store!Added(sys.items, o, rank, n)
               /\ sys.hand' = [sys.hand EXCEPT ![p][o] = @ - n]
    BY <2>1, <2>2 DEF Store!Move, Store!Deposit
  <2>3. CASE \E p \in Process, n \in 1..Cardinality(sys.items) :
               /\ sys.items' = Store!Without(sys.items, Store!Served(sys.items, n))
               /\ sys.hand' = [sys.hand EXCEPT
                                 ![p] = Store!Received(@, Store!Served(sys.items, n))]
    BY <2>1, <2>3 DEF Store!Move, Store!Collect, Store!Remove
  <2>4. CASE \E p \in Process, x \in sys.items :
               /\ sys.items' = Store!Without(sys.items, {x})
               /\ sys.hand' = [sys.hand EXCEPT ![p] = Store!Received(@, {x})]
    BY <2>4 DEF Store!Move, Store!Withdraw, Store!Remove
  <2>5. CASE \E x \in sys.items, rank \in Rank :
               /\ sys.items' = (sys.items \ {x}) \cup {[x EXCEPT !.rank = rank]}
               /\ sys.hand' = sys.hand
    BY <2>5 DEF Store!Move, Store!Rerank
  <2>. QED BY <1>2, <2>2, <2>3, <2>4, <2>5 DEF Moves
<1>. QED BY <1>1, <1>2 DEF Stored

-----------------------------------------------------------------------------
(* Changes of what is the store's own.                                     *)
WithOwn(s, I, H, C) == [s EXCEPT !.items = I, !.hand = H, !.claim = C]

LEMMA OwnSet ==
  ASSUME NEW s, K!Steady(s), Own \subseteq DOMAIN s, NEW I, NEW H, NEW C
  PROVE  LET t == WithOwn(s, I, H, C)
         IN  /\ K!Steady(t) /\ Own \subseteq DOMAIN t
             /\ t.items = I /\ t.hand = H /\ t.claim = C
             /\ t.kind = s.kind /\ t.call = s.call /\ t.running = s.running
<1> DEFINE t == [s EXCEPT !.items = I, !.hand = H, !.claim = C]
<1>1. DOMAIN t = DOMAIN s /\ t = [f \in DOMAIN t |-> t[f]]
  OBVIOUS
<1>2. {"items", "hand", "claim", "kind"} \subseteq DOMAIN s
  BY DEF Own
<1>3. t.items = I /\ t.hand = H /\ t.claim = C /\ t.kind = s.kind
  BY <1>2
<1>4. \A f \in K!Fields : t[f] = s[f]
  BY DEF K!Steady, K!Fields
<1> HIDE DEF t
<1>5. K!Steady(t) /\ t.call = s.call /\ t.running = s.running
  BY <1>1, <1>4, K!ForeignSteady
<1>6. Own \subseteq DOMAIN t
  BY <1>1
<1>. QED BY <1>3, <1>5, <1>6 DEF t, WithOwn

LEMMA ClaimSet ==
  ASSUME NEW s, NEW p \in Process, Within(s, p), NEW x
  PROVE  LET t == [s EXCEPT !.claim[p] = x]
         IN  /\ Within(t, p) /\ Settled(s, t) /\ t.claim[p] = x
             /\ t.kind = s.kind /\ t.call = s.call /\ t.running = s.running
<1> DEFINE C == [s.claim EXCEPT ![p] = x]
           t == [s EXCEPT !.claim = C]
           u == WithOwn(s, s.items, s.hand, C)
<1>1. K!Steady(s) /\ Own \subseteq DOMAIN s /\ DOMAIN s.claim = Process
  BY DEF Within, Stocked
<1>2. C[p] = x /\ DOMAIN C = Process /\ \A q \in Process : q # p => C[q] = s.claim[q]
  BY <1>1
<1>3. s = [f \in DOMAIN s |-> s[f]]
  BY <1>1 DEF K!Steady
<1> HIDE DEF C
<1>4. u = t
  BY <1>1, <1>3 DEF Own, WithOwn
<1>5. /\ K!Steady(u) /\ Own \subseteq DOMAIN u
      /\ u.items = s.items /\ u.hand = s.hand /\ u.claim = C
      /\ u.kind = s.kind /\ u.call = s.call /\ u.running = s.running
  BY <1>1, OwnSet
<1> HIDE DEF u, t
<1>6. Stocked(t) /\ \A q \in Process : q # p => ClaimAt(t, q)
  BY <1>2, <1>4, <1>5 DEF Within, Stocked, ClaimAt
<1>. QED BY <1>2, <1>4, <1>5, <1>6 DEF Within, Settled, t, C

LEMMA MovedWithin ==
  ASSUME NEW s, NEW p \in Process, Within(s, p), NEW door \in Door, NEW n,
         Pending(door, s.claim[p], s.hand[p]), n \in 1..s.claim[p].rem,
         n <= Ready(s, door)
  PROVE  LET t == Moved(s, p, door, n)
         IN  /\ Within(t, p) /\ Stored(s, t)
             /\ t.kind = s.kind /\ t.call = s.call /\ t.running = s.running
             /\ n < s.claim[p].rem => Pending(door, t.claim[p], t.hand[p])
<1> DEFINE c == s.claim[p]
           x == [c EXCEPT !.rem = c.rem - n]
           C == [s.claim EXCEPT ![p] = x]
           S == s.items
<1>1. /\ K!Steady(s) /\ Own \subseteq DOMAIN s /\ DOMAIN s.claim = Process
      /\ Stock(S) /\ s.hand \in [Process -> [Object -> Nat]]
  BY DEF Within, Stocked
<1>2. Cardinality(S) \in Nat /\ Cardinality(S) <= Capacity /\ Capacity \in Nat
  BY <1>1, CountIsNatural, StoreAssumption DEF Stock
<1>3. /\ {"rem", "obj", "rank"} \subseteq DOMAIN c /\ c.rem \in Nat \ {0}
      /\ n \in Nat \ {0} /\ n <= c.rem
  BY DEF Pending
<1>4. /\ C[p] = x /\ DOMAIN C = Process /\ \A q \in Process : q # p => C[q] = s.claim[q]
      /\ C = [s.claim EXCEPT ![p].rem = @ - n]
  BY <1>1
<1>5. /\ {"rem", "obj", "rank"} \subseteq DOMAIN x
      /\ x.obj = c.obj /\ x.rank = c.rank /\ x.rem = c.rem - n
  BY <1>3
<1> HIDE DEF C, x
<1>6. CASE door = "front"
  <2> DEFINE gone == Store!Served(S, n)
             I == Store!Without(S, gone)
             h == Store!Received(s.hand[p], gone)
             H == [s.hand EXCEPT ![p] = h]
             t == WithOwn(s, I, H, C)
  <2>1. Moved(s, p, door, n) = t
    BY <1>4, <1>6 DEF Moved, WithOwn
  <2>2. gone \in SUBSET S
    BY DEF Store!Served
  <2> HIDE DEF gone
  <2>3. Stock(I) /\ IsFiniteSet(gone)
    BY <1>1, <2>2, StockWithout
  <2>4. h \in [Object -> Nat]
    BY <1>1, <2>3, ReceivedCounts
  <2> HIDE DEF h
  <2>5. H \in [Process -> [Object -> Nat]] /\ \A q \in Process : q # p => H[q] = s.hand[q]
    BY <1>1, <2>4
  <2> HIDE DEF I, H
  <2>6. /\ K!Steady(t) /\ Own \subseteq DOMAIN t
        /\ t.items = I /\ t.hand = H /\ t.claim = C
        /\ t.kind = s.kind /\ t.call = s.call /\ t.running = s.running
    BY <1>1, OwnSet
  <2> HIDE DEF t
  <2>7. Stocked(t)
    BY <1>4, <2>3, <2>5, <2>6 DEF Stocked
  <2>8. \A q \in Process : q # p => ClaimAt(t, q)
    BY <1>4, <2>5, <2>6 DEF Within, ClaimAt
  <2>9. n \in 1..Cardinality(S)
    BY <1>2, <1>3, <1>6 DEF Ready
  <2>10. Moves(S, s.hand, I, H)
    <3>1. I = Store!Without(S, Store!Served(S, n))
      BY DEF I, gone
    <3>2. H = [s.hand EXCEPT ![p] = Store!Received(@, Store!Served(S, n))]
      BY DEF H, h, gone
    <3>. QED BY <2>9, <3>1, <3>2 DEF Moves
  <2>11. n < c.rem => Pending(door, t.claim[p], t.hand[p])
    BY <1>3, <1>4, <1>5, <1>6, <2>6 DEF Pending
  <2>. QED BY <2>1, <2>6, <2>7, <2>8, <2>10, <2>11 DEF Within, Stored
<1>7. CASE door = "rear"
  <2> DEFINE o == c.obj
             I == Store!Added(S, o, c.rank, n)
             h == [s.hand[p] EXCEPT ![o] = s.hand[p][o] - n]
             H == [s.hand EXCEPT ![p] = h]
             t == WithOwn(s, I, H, C)
  <2>1. Moved(s, p, door, n) = t
    BY <1>4, <1>7 DEF Moved, WithOwn
  <2>2. o \in Object /\ c.rank \in Rank /\ c.rem <= s.hand[p][o]
    BY <1>7 DEF Pending
  <2>3. s.hand[p] \in [Object -> Nat] /\ s.hand[p][o] \in Nat
    BY <1>1, <2>2
  <2>4. h \in [Object -> Nat] /\ h[o] = s.hand[p][o] - n
    BY <1>3, <2>2, <2>3
  <2>5. Cardinality(S) + n <= Capacity /\ n \in Nat /\ n \in 1..Capacity
    BY <1>2, <1>3, <1>7 DEF Ready
  <2> HIDE DEF o
  <2>6. Stock(I)
    BY <1>1, <2>5, StockAdded
  <2> HIDE DEF h
  <2>7. /\ H \in [Process -> [Object -> Nat]] /\ H[p] = h
        /\ \A q \in Process : q # p => H[q] = s.hand[q]
    BY <1>1, <2>4
  <2>8. H = [s.hand EXCEPT ![p][o] = @ - n]
    BY DEF h
  <2> HIDE DEF I, H
  <2>9. /\ K!Steady(t) /\ Own \subseteq DOMAIN t
        /\ t.items = I /\ t.hand = H /\ t.claim = C
        /\ t.kind = s.kind /\ t.call = s.call /\ t.running = s.running
    BY <1>1, OwnSet
  <2> HIDE DEF t
  <2>10. Stocked(t)
    BY <1>4, <2>6, <2>7, <2>9 DEF Stocked
  <2>11. \A q \in Process : q # p => ClaimAt(t, q)
    BY <1>4, <2>7, <2>9 DEF Within, ClaimAt
  <2>12. Moves(S, s.hand, I, H)
    <3>1. n <= s.hand[p][o]
      BY <1>3, <2>2, <2>3
    <3>2. I = Store!Added(S, o, c.rank, n)
      BY DEF I
    <3>. QED BY <2>2, <2>5, <2>8, <3>1, <3>2 DEF Moves
  <2>13. n < c.rem => Pending(door, t.claim[p], t.hand[p])
    <3>1. x.rem <= h[o]
      BY <1>3, <1>5, <2>2, <2>3, <2>4
    <3>2. x.obj = o
      BY <1>5 DEF o
    <3>3. n < c.rem => x.rem \in Nat \ {0}
      BY <1>3, <1>5
    <3>. QED BY <1>4, <1>5, <2>2, <2>7, <2>9, <3>1, <3>2, <3>3 DEF Pending
  <2>. QED BY <2>1, <2>9, <2>10, <2>11, <2>12, <2>13 DEF Within, Stored
<1>. QED BY <1>6, <1>7 DEF Door

-----------------------------------------------------------------------------
(* The turns of the loops.                                                 *)
LEMMA ReturnSound ==
  ASSUME NEW s, NEW p \in Process, Within(s, p), NEW sig
  PROVE  LET t == K!Return(s, p, sig) IN Sound(t) /\ Settled(s, t)
<1> DEFINE t == K!Return(s, p, sig)
<1>1. K!Steady(s) /\ DOMAIN s.call = Process
  BY DEF Within, Stocked, K!Steady, K!CallsOK
<1>2. K!Steady(t) /\ K!Aside(s, t) /\ t.call = [s.call EXCEPT ![p] = K!Idle]
  BY <1>1, K!ReturnSteady
<1> HIDE DEF t
<1>3. t.call[p].fn \in K!Unguarded /\ OthersStay(s, t, p)
  BY <1>1, <1>2 DEF OthersStay, K!Idle, K!Unguarded
<1>4. Within(t, p) /\ Settled(s, t)
  BY <1>2, <1>3, ForeignWithin DEF K!Aside, Kept
<1>5. Sound(t)
  BY <1>3, <1>4, UnguardedClaim, WithinSound
<1>. QED BY <1>4, <1>5 DEF t

LEMMA DoneSound ==
  ASSUME NEW s, NEW p \in Process, Within(s, p), NEW sig
  PROVE  LET t == Done(s, p, sig) IN Sound(t) /\ Settled(s, t)
<1> DEFINE u == [s EXCEPT !.claim[p] = NoClaim]
           t == K!Return(u, p, sig)
<1>1. Done(s, p, sig) = t
  BY SameCalls DEF Done
<1>2. Within(u, p) /\ Settled(s, u)
  BY ClaimSet
<1> HIDE DEF u
<1>3. Sound(t) /\ Settled(u, t)
  BY <1>2, ReturnSound
<1> HIDE DEF t
<1>. QED BY <1>1, <1>2, <1>3 DEF Settled

LEMMA RingWithin ==
  ASSUME NEW s, NEW p, Within(s, p), NEW door \in Door
  PROVE  LET t == Signal(s, door)
         IN  /\ Within(t, p) /\ Kept(s, t) /\ t.call = s.call
             /\ t.running = s.running
<1> DEFINE t == K!Signal(s, door)
<1>1. K!Steady(s) /\ s.observers[door] = <<>>
  BY DEF Within, Stocked, K!Steady
<1>2. Signal(s, door) = t
  BY <1>1, SameRing
<1>3. K!Calm(s, t)
  BY <1>1, K!SignalCalm
<1> HIDE DEF t
<1>. QED BY <1>2, <1>3, CalmWithin

LEMMA WaitSound ==
  ASSUME NEW s, NEW p \in Process, Within(s, p), NEW door \in Door,
         Pending(door, s.claim[p], s.hand[p])
  PROVE  LET t == GuardWait(s, p, Call(door), door) IN Sound(t) /\ Settled(s, t)
<1> DEFINE fn == Call(door)
           c == K!CallIn(fn, door, K!FreshKey(s))
           t == K!GuardWait(s, p, fn, door)
<1>1. K!Steady(s) /\ DOMAIN s.call = Process
  BY DEF Within, Stocked, K!Steady, K!CallsOK
<1>2. GuardWait(s, p, fn, door) = t
  BY SameCalls
<1>3. K!Steady(t) /\ K!Aside(s, t) /\ t.call = [s.call EXCEPT ![p] = c]
  BY <1>1, K!GuardWaitSteady
<1>4. c.fn = fn /\ c.on = door
  BY DEF K!CallIn
<1> HIDE DEF t, c
<1>5. t.call[p] = c /\ OthersStay(s, t, p)
  BY <1>1, <1>3 DEF OthersStay
<1>6. Within(t, p) /\ Kept(s, t)
  BY <1>3, <1>5, ForeignWithin DEF K!Aside
<1>7. ClaimAt(t, p)
  BY <1>4, <1>5, <1>6 DEF ClaimAt, Consistent, Kept, Settled, Call, Door
<1>8. Sound(t)
  BY <1>6, <1>7, WithinSound
<1>. QED BY <1>2, <1>6, <1>8 DEF Kept

LEMMA OppositeDoor ==
  ASSUME NEW door \in Door PROVE Opposite(door) \in Door
  BY DEF Opposite, Door

LEMMA ReadyCounts ==
  ASSUME NEW s, NEW p, Within(s, p), NEW door
  PROVE  Ready(s, door) \in Int
<1>1. Cardinality(s.items) \in Nat /\ Capacity \in Nat
  BY CountIsNatural, StoreAssumption DEF Within, Stocked, Stock
<1>. QED BY <1>1 DEF Ready

LEMMA BufferTurnSound ==
  ASSUME NEW s, NEW p \in Process, Within(s, p), NEW door \in Door,
         Pending(door, s.claim[p], s.hand[p])
  PROVE  LET t == BufferTurn(s, p, door) IN Sound(t) /\ Stored(s, t)
<1> DEFINE c == s.claim[p]
           n == Ready(s, door)
           opp == Opposite(door)
<1>1. n \in Int /\ opp \in Door /\ c.rem \in Nat \ {0}
  BY ReadyCounts, OppositeDoor DEF Pending
<1> HIDE DEF n, opp
<1>2. CASE n >= c.rem
  <2> DEFINE m == Moved(s, p, door, c.rem)
             all == Signal(m, opp)
             rung == IF Ready(all, door) > 0 THEN Signal(all, door) ELSE all
             t == Done(rung, p, "success")
  <2>1. BufferTurn(s, p, door) = t
    BY <1>2 DEF BufferTurn, n, opp
  <2>2. Within(m, p) /\ Stored(s, m)
    <3>1. c.rem \in 1..c.rem /\ c.rem <= Ready(s, door)
      BY <1>1, <1>2 DEF n
    <3>. QED BY <3>1, MovedWithin
  <2> HIDE DEF m
  <2>3. Within(all, p) /\ Settled(m, all)
    BY <1>1, <2>2, RingWithin DEF Kept
  <2> HIDE DEF all
  <2>4. Within(Signal(all, door), p) /\ Settled(all, Signal(all, door))
    BY <2>3, RingWithin DEF Kept
  <2>5. Within(rung, p) /\ Settled(all, rung)
    BY <2>3, <2>4 DEF Settled
  <2> HIDE DEF rung
  <2>6. Sound(t) /\ Settled(rung, t)
    BY <2>5, DoneSound
  <2> HIDE DEF t
  <2>7. Settled(m, t)
    BY <2>3, <2>5, <2>6 DEF Settled
  <2>8. Stored(s, t)
    BY <2>2, <2>7, StoredAround DEF Settled
  <2>. QED BY <2>1, <2>6, <2>8
<1>3. CASE ~(n >= c.rem)
  <2> DEFINE m == Moved(s, p, door, n)
             few == IF n > 0 THEN Signal(m, opp) ELSE s
             u == Signal(few, opp)
             t == GuardWait(u, p, Call(door), door)
  <2>1. BufferTurn(s, p, door) = t
    BY <1>3 DEF BufferTurn, n, opp
  <2>2. ASSUME n > 0
        PROVE  /\ Within(m, p) /\ Stored(s, m) /\ Pending(door, m.claim[p], m.hand[p])
    <3>1. n \in 1..c.rem /\ n <= Ready(s, door) /\ n < c.rem
      BY <1>1, <1>3, <2>2 DEF n
    <3>. QED BY <3>1, MovedWithin
  <2> HIDE DEF m
  <2>3. /\ Within(few, p) /\ Stored(s, few) /\ Pending(door, few.claim[p], few.hand[p])
    <3>1. CASE n > 0
      <4> DEFINE r == Signal(m, opp)
      <4>1. Within(r, p) /\ Kept(m, r)
        BY <1>1, <2>2, <3>1, RingWithin
      <4> HIDE DEF r
      <4>2. Stored(s, r)
        BY <2>2, <3>1, <4>1, StoredAround DEF Settled, Kept
      <4>3. Pending(door, r.claim[p], r.hand[p])
        BY <2>2, <3>1, <4>1 DEF Kept, Settled
      <4>. QED BY <3>1, <4>1, <4>2, <4>3 DEF r
    <3>2. CASE ~(n > 0)
      BY <3>2 DEF Stored, Settled
    <3>. QED BY <3>1, <3>2
  <2> HIDE DEF few
  <2>4. Within(u, p) /\ Kept(few, u)
    BY <1>1, <2>3, RingWithin
  <2> HIDE DEF u
  <2>5. Pending(door, u.claim[p], u.hand[p])
    BY <2>3, <2>4 DEF Kept, Settled
  <2>6. Sound(t) /\ Settled(u, t)
    BY <2>4, <2>5, WaitSound
  <2> HIDE DEF t
  <2>7. Settled(few, t)
    BY <2>4, <2>6 DEF Kept, Settled
  <2>8. Stored(s, t)
    BY <2>3, <2>7, StoredAround DEF Settled
  <2>. QED BY <2>1, <2>6, <2>8
<1>. QED BY <1>2, <1>3

LEMMA QueueTurnSound ==
  ASSUME NEW s, NEW p \in Process, Within(s, p), NEW door \in Door,
         Pending(door, s.claim[p], s.hand[p])
  PROVE  LET t == QueueTurn(s, p, door) IN Sound(t) /\ Stored(s, t)
<1>1. Ready(s, door) \in Int /\ Opposite(door) \in Door /\ s.claim[p].rem \in Nat \ {0}
  BY ReadyCounts, OppositeDoor DEF Pending
<1>2. CASE IsReady(s, door, p)
  <2> DEFINE m == Moved(s, p, door, 1)
             u == Signal(m, Opposite(door))
             t == Done(u, p, "success")
  <2>1. QueueTurn(s, p, door) = t
    BY <1>2 DEF QueueTurn
  <2>2. Within(m, p) /\ Stored(s, m)
    <3>1. 1 \in 1..s.claim[p].rem /\ 1 <= Ready(s, door)
      BY <1>1, <1>2 DEF IsReady
    <3>. QED BY <3>1, MovedWithin
  <2> HIDE DEF m
  <2>3. Within(u, p) /\ Settled(m, u)
    BY <1>1, <2>2, RingWithin DEF Kept
  <2> HIDE DEF u
  <2>4. Sound(t) /\ Settled(u, t)
    BY <2>3, DoneSound
  <2> HIDE DEF t
  <2>5. Settled(m, t)
    BY <2>3, <2>4 DEF Settled
  <2>6. Stored(s, t)
    BY <2>2, <2>5, StoredAround DEF Settled
  <2>. QED BY <2>1, <2>4, <2>6
<1>3. CASE ~IsReady(s, door, p)
  <2>1. QueueTurn(s, p, door) = GuardWait(s, p, Call(door), door)
    BY <1>3 DEF QueueTurn
  <2>2. Sound(GuardWait(s, p, Call(door), door))
        /\ Settled(s, GuardWait(s, p, Call(door), door))
    BY WaitSound
  <2>. QED BY <2>1, <2>2 DEF Stored
<1>. QED BY <1>2, <1>3

-----------------------------------------------------------------------------
(* The event loop.                                                         *)
StepOK(s, t) == Sound(t) /\ Stored(s, t)

LEMMA CalmStep ==
  ASSUME NEW s, Sound(s), NEW t, K!Calm(s, t) PROVE StepOK(s, t)
  BY CalmSound DEF StepOK, Stored, Kept

LEMMA StepAfter ==
  ASSUME NEW s, NEW t, NEW u, Settled(s, t), StepOK(t, u) PROVE StepOK(s, u)
  BY SettledStored DEF StepOK

LEMMA ReturnStep ==
  ASSUME NEW s, NEW p \in Process, Within(s, p), NEW sig
  PROVE  StepOK(s, K!Return(s, p, sig))
  BY ReturnSound DEF StepOK, Stored

LEMMA ContinuedStep ==
  ASSUME NEW s, Sound(s), NEW p \in Process, s.call[p].on \in Door,
         s.call[p].fn \notin K!Unguarded, NEW sig
  PROVE  StepOK(s, Continued(s, p, sig))
<1> DEFINE door == s.call[p].on
<1>1. Within(s, p) /\ Pending(door, s.claim[p], s.hand[p])
  BY DEF Sound, Within, ClaimAt, Consistent
<1>2. StepOK(s, Done(s, p, sig))
  BY <1>1, DoneSound DEF StepOK, Stored
<1>3. StepOK(s, BufferTurn(s, p, door))
  BY <1>1, BufferTurnSound DEF StepOK
<1>4. StepOK(s, QueueTurn(s, p, door))
  BY <1>1, QueueTurnSound DEF StepOK
<1>. QED BY <1>2, <1>3, <1>4 DEF Continued

LEMMA ResumedStep ==
  ASSUME NEW s, Sound(s), NEW p \in Process, NEW sig
  PROVE  StepOK(s, Resumed(s, p, sig))
<1> DEFINE c == s.call[p]
<1>1. K!Steady(s) /\ K!CallOK(c) /\ Within(s, p) /\ ClaimAt(s, p)
  BY DEF Sound, Within, Stocked, K!Steady, K!CallsOK
<1>2. CASE c.fn = "hold"
  <2> DEFINE t == IF sig = "success" THEN s ELSE K!TimerCancel(s, p, c.key)
             u == K!TimerCancel(s, p, c.key)
  <2>1. Resumed(s, p, sig) = K!Return(t, p, sig)
    BY <1>2, SameProcessCalls DEF Resumed
  <2>2. K!Calm(s, u)
    BY <1>1, K!TimerCancelCalm
  <2> HIDE DEF u
  <2>3. Within(u, p) /\ Settled(s, u)
    BY <1>1, <2>2, CalmWithin DEF Kept
  <2>4. t = u \/ t = s
    BY DEF u
  <2> HIDE DEF t
  <2>5. Within(t, p) /\ Settled(s, t)
    BY <1>1, <2>3, <2>4 DEF Settled
  <2>. QED BY <2>1, <2>5, ReturnStep, StepAfter
<1>3. CASE c.fn = "join"
  <2> DEFINE lists == [s.waiters EXCEPT ![c.on] = K!Unlink(s.waiters[c.on], p)]
             t == [s EXCEPT !.waiters = lists]
             x == IF t.joins[p] = c.on THEN NoOne ELSE t.joins[p]
             u == [t EXCEPT !.joins = [t.joins EXCEPT ![p] = x]]
  <2>1. Resumed(s, p, sig) = K!Return(u, p, sig)
    BY <1>3, SameProcessCalls DEF Resumed
  <2>2. lists \in [Process -> Seq(Process)]
    <3>1. s.waiters \in [Process -> Seq(Process)]
      BY <1>1 DEF K!Steady
    <3>2. \A q \in Process : K!Unlink(s.waiters[q], p) \in Seq(Process)
      BY <3>1, K!UnlinkKeeps
    <3>. QED BY <3>1, <3>2
  <2> HIDE DEF lists
  <2>3. K!Calm(s, t)
    BY <1>1, <2>2, K!WaitersSet
  <2> HIDE DEF t, x
  <2>4. K!Calm(t, u)
    BY <2>3, K!FreeSet DEF K!Calm
  <2> HIDE DEF u
  <2>5. Within(u, p) /\ Settled(s, u)
    BY <1>1, <2>3, <2>4, K!CalmTransitive, CalmWithin DEF Kept
  <2>. QED BY <2>1, <2>5, ReturnStep, StepAfter
<1>4. CASE c.fn \in {"yield", "none"}
  <2>1. Resumed(s, p, sig) = K!Return(s, p, sig)
    BY <1>4, SameProcessCalls DEF Resumed
  <2>. QED BY <1>1, <2>1, ReturnStep
<1>5. CASE c.fn \in {"get", "put"}
  <2> DEFINE t == K!GuardResume(s, p, sig)
  <2>1. Resumed(s, p, sig) = Continued(t, p, sig)
    BY <1>5, SameProcessCalls DEF Resumed
  <2>2. c.on \in Door /\ c.fn \notin K!Unguarded
    BY <1>1, <1>5 DEF K!CallOK, K!Unguarded
  <2>3. K!Calm(s, t)
    BY <1>1, <2>2, K!GuardResumeCalm
  <2> HIDE DEF t
  <2>4. Sound(t) /\ Settled(s, t) /\ t.call = s.call
    BY <2>3, CalmSound DEF Kept
  <2>5. StepOK(t, Continued(t, p, sig))
    BY <2>2, <2>4, ContinuedStep
  <2>. QED BY <2>1, <2>4, <2>5, StepAfter
<1>. QED BY <1>1, <1>2, <1>3, <1>4, <1>5 DEF ClaimAt, Consistent, K!Unguarded

LEMMA StepSelf ==
  ASSUME NEW s, Sound(s) PROVE StepOK(s, s)
  BY DEF StepOK, Stored, Settled

LEMMA ResumedIfAliveStep ==
  ASSUME NEW s, Sound(s), NEW p \in Process, NEW sig
  PROVE  StepOK(s, ResumedIfAlive(s, p, sig))
  BY ResumedStep, StepSelf DEF ResumedIfAlive

LEMMA AssertedStep ==
  ASSUME NEW s, NEW t, StepOK(s, t), NEW holds, NEW name
  PROVE  StepOK(s, K!Asserted(t, holds, name))
<1> DEFINE u == K!Asserted(t, holds, name)
<1>1. K!Calm(t, u)
  BY K!AssertedCalm DEF StepOK, Sound, Stocked
<1> HIDE DEF u
<1>2. Sound(u) /\ Settled(t, u)
  BY <1>1, CalmSound DEF StepOK, Kept
<1>3. Stored(s, u)
  BY <1>2, StoredAround DEF StepOK, Settled
<1>. QED BY <1>2, <1>3 DEF StepOK, u

(* What comes before, and what comes after.                                *)
LEMMA CalmBefore ==
  ASSUME NEW s, Sound(s), NEW t, K!Calm(s, t)
  PROVE  Sound(t) /\ Settled(s, t) /\ t.call = s.call
  BY CalmSound DEF Kept

LEMMA StartEventStep ==
  ASSUME NEW s, Sound(s), NEW p \in Process
  PROVE  StepOK(s, StartEvent(s, p))
<1> DEFINE x == [s.status EXCEPT ![p] = "running"]
           t == [s EXCEPT !.status = x]
           u == K!Return(t, p, "success")
           holds == s.status[p] # "running"
<1>1. StartEvent(s, p) = K!Asserted(u, holds, "coroutine_start")
  BY SameProcessCalls DEF StartEvent
<1>2. K!Steady(s) /\ Within(s, p)
  BY SoundWithin DEF Sound, Stocked
<1>3. DOMAIN x = Process
  BY <1>2 DEF K!Steady
<1> HIDE DEF x, holds
<1>4. K!Steady(t) /\ K!Foreign(s, t) /\ t.call = s.call
  BY <1>2, <1>3, K!StatusSet
<1> HIDE DEF t
<1>5. OthersStay(s, t, p)
  BY <1>4 DEF OthersStay
<1>6. Within(t, p) /\ Settled(s, t)
  BY <1>2, <1>4, <1>5, ForeignWithin DEF Kept
<1>7. StepOK(s, u)
  BY <1>6, ReturnStep, StepAfter
<1> HIDE DEF u
<1>. QED BY <1>1, <1>7, AssertedStep

LEMMA WakeupTimeStep ==
  ASSUME NEW s, Sound(s), NEW p \in Process, NEW key, NEW sig
  PROVE  StepOK(s, WakeupTime(s, p, key, sig))
<1> DEFINE t == [s EXCEPT !.timers = [s.timers EXCEPT ![p] = s.timers[p] \ {key}]]
<1>1. WakeupTime(s, p, key, sig)
        = IF key \notin s.timers[p] THEN s ELSE ResumedIfAlive(t, p, sig)
  BY DEF WakeupTime
<1>2. K!Calm(s, t)
  BY K!FreeSet DEF Sound, Stocked
<1> HIDE DEF t
<1>3. Sound(t) /\ Settled(s, t)
  BY <1>2, CalmBefore
<1>4. StepOK(s, ResumedIfAlive(t, p, sig))
  BY <1>3, ResumedIfAliveStep, StepAfter
<1>. QED BY <1>1, <1>4, StepSelf

LEMMA WakeupGuardStep ==
  ASSUME NEW s, Sound(s), NEW p \in Process, NEW key, NEW sig
  PROVE  StepOK(s, WakeupGuard(s, p, key, sig))
  BY ResumedIfAliveStep, StepSelf DEF WakeupGuard

LEMMA WakeupProcessStep ==
  ASSUME NEW s, Sound(s), NEW p \in Process, NEW sig
  PROVE  StepOK(s, WakeupProcess(s, p, sig))
<1> DEFINE t == [s EXCEPT !.joins = [s.joins EXCEPT ![p] = NoOne]]
           u == IF s.joins[p] = NoOne THEN s ELSE ResumedIfAlive(t, p, sig)
           holds == \/ s.joins[p] # NoOne
                    \/ s.timers[p] # {}
                    \/ s.ticket[p] # Kernel!NoTicket
<1>1. WakeupProcess(s, p, sig) = K!Asserted(u, holds, "wakeup_event_process")
  BY SameProcessCalls DEF WakeupProcess
<1> HIDE DEF holds
<1>2. K!Calm(s, t)
  BY K!FreeSet DEF Sound, Stocked
<1> HIDE DEF t
<1>3. Sound(t) /\ Settled(s, t)
  BY <1>2, CalmBefore
<1>4. StepOK(s, u)
  BY <1>3, ResumedIfAliveStep, StepAfter, StepSelf
<1> HIDE DEF u
<1>. QED BY <1>1, <1>4, AssertedStep

LEMMA WakeupInterruptStep ==
  ASSUME NEW s, Sound(s), NEW p \in Process, NEW sig
  PROVE  StepOK(s, WakeupInterrupt(s, p, sig))
<1> DEFINE t == K!CancelAwaiteds(s, p)
<1>1. WakeupInterrupt(s, p, sig)
        = IF s.status[p] = "running" THEN Resumed(t, p, sig) ELSE s
  BY SameProcessCalls DEF WakeupInterrupt
<1>2. K!Calm(s, t)
  BY K!CancelAwaitedsCalm DEF Sound, Stocked
<1> HIDE DEF t
<1>3. Sound(t) /\ Settled(s, t)
  BY <1>2, CalmBefore
<1>4. StepOK(s, Resumed(t, p, sig))
  BY <1>3, ResumedStep, StepAfter
<1>. QED BY <1>1, <1>4, StepSelf

LEMMA ExecutedStep ==
  ASSUME NEW s, Sound(s), s.agenda # {}
  PROVE  StepOK(s, Executed(s))
<1> DEFINE e == K!First(s.agenda)
           t == K!Dequeue(s)
<1>1. Executed(s) =
        CASE e.kind = "start" -> StartEvent(t, e.proc)
          [] e.kind = "time" -> WakeupTime(t, e.proc, e.key, e.sig)
          [] e.kind \in {"grant", "cancelled"} -> WakeupGuard(t, e.proc, e.key, e.sig)
          [] e.kind = "process" -> WakeupProcess(t, e.proc, e.sig)
          [] e.kind = "interrupt" -> WakeupInterrupt(t, e.proc, e.sig)
          [] e.kind \in {"preempt", "resume"} -> ResumedIfAlive(t, e.proc, e.sig)
  BY SameProcessCalls DEF Executed
<1>2. K!Calm(s, t) /\ K!EventOK(e)
  BY K!DequeueCalm DEF Sound, Stocked
<1> HIDE DEF t, e
<1>3. Sound(t) /\ Settled(s, t) /\ e.proc \in Process /\ e.kind \in K!Kinds
  BY <1>2, CalmBefore DEF K!EventOK
<1>4. CASE e.kind = "start"
  BY <1>1, <1>3, <1>4, StartEventStep, StepAfter
<1>5. CASE e.kind = "time"
  BY <1>1, <1>3, <1>5, WakeupTimeStep, StepAfter
<1>6. CASE e.kind \in {"grant", "cancelled"}
  BY <1>1, <1>3, <1>6, WakeupGuardStep, StepAfter
<1>7. CASE e.kind = "process"
  BY <1>1, <1>3, <1>7, WakeupProcessStep, StepAfter
<1>8. CASE e.kind = "interrupt"
  BY <1>1, <1>3, <1>8, WakeupInterruptStep, StepAfter
<1>9. CASE e.kind \in {"preempt", "resume"}
  BY <1>1, <1>3, <1>9, ResumedIfAliveStep, StepAfter
<1>. QED BY <1>3, <1>4, <1>5, <1>6, <1>7, <1>8, <1>9 DEF K!Kinds

-----------------------------------------------------------------------------
(* The calls of the processes.                                             *)
LEMMA ClientPriorities ==
  /\ \A pri \in Urgency : pri \in Int
  /\ \A p \in Process : \A pri \in Ranks[p] : pri \in Int
  /\ \A d \in Duration : d \in Int
  BY ClientAssumption

(* A process blocks outside the store.                                     *)
LEMMA BlockStep ==
  ASSUME NEW s, NEW p \in Process, Within(s, p), NEW t, K!Steady(t), K!Aside(s, t),
         NEW c, c.fn \in K!Unguarded, t.call = [s.call EXCEPT ![p] = c]
  PROVE  StepOK(s, t)
<1>1. DOMAIN s.call = Process
  BY DEF Within, Stocked, K!Steady, K!CallsOK
<1>2. t.call[p] = c /\ OthersStay(s, t, p)
  BY <1>1 DEF OthersStay
<1>3. Within(t, p) /\ Settled(s, t)
  BY <1>2, ForeignWithin DEF K!Aside, Kept
<1>. QED BY <1>2, <1>3, UnguardedClaim, WithinSound DEF StepOK, Stored

LEMMA HoldStep ==
  ASSUME Sound(sys), NEW p \in Process, NEW d \in Duration, Hold(p, d)
  PROVE  StepOK(sys, sys')
<1> DEFINE k == Kernel!FreshKey(sys)
           c == K!CallIn("hold", NoOne, k)
           t == K!TimerAdd(sys, p, d, "success")
           u == K!Block(t, p, "hold", NoOne, k)
<1>1. sys' = u
  BY SameProcessCalls DEF Hold
<1> HIDE DEF k
<1>2. K!Calm(sys, t)
  BY ClientPriorities, K!TimerAddCalm DEF Sound, Stocked
<1> HIDE DEF t
<1>3. Sound(t) /\ Settled(sys, t) /\ K!Steady(t)
  BY <1>2, CalmBefore DEF K!Calm
<1>4. "hold" \in K!Unguarded
  BY DEF K!Unguarded
<1>5. K!Steady(u) /\ K!Aside(t, u)
  BY <1>3, <1>4, K!BlockSteady
<1>6. u.call = [t.call EXCEPT ![p] = c]
  BY <1>3, K!BlockCall
<1>7. c.fn \in K!Unguarded
  BY <1>4 DEF K!CallIn
<1> HIDE DEF u, c
<1>8. StepOK(t, u)
  BY <1>3, <1>5, <1>6, <1>7, SoundWithin, BlockStep
<1>. QED BY <1>1, <1>3, <1>8, StepAfter

LEMMA YieldStep ==
  ASSUME Sound(sys), NEW p \in Process, Yield(p)
  PROVE  StepOK(sys, sys')
<1> DEFINE c == K!CallIn("yield", NoOne, 0)
           u == K!Block(sys, p, "yield", NoOne, 0)
<1>1. sys' = u
  BY SameProcessCalls DEF Yield
<1>2. "yield" \in K!Unguarded /\ K!Steady(sys)
  BY DEF K!Unguarded, Sound, Stocked
<1>3. K!Steady(u) /\ K!Aside(sys, u)
  BY <1>2, K!BlockSteady
<1>4. u.call = [sys.call EXCEPT ![p] = c]
  BY <1>2, K!BlockCall
<1>5. c.fn \in K!Unguarded
  BY <1>2 DEF K!CallIn
<1> HIDE DEF u, c
<1>. QED BY <1>1, <1>3, <1>4, <1>5, SoundWithin, BlockStep

LEMMA JoinStep ==
  ASSUME Sound(sys), NEW p \in Process, NEW q \in Process, Join(p, q)
  PROVE  StepOK(sys, sys')
<1> DEFINE c == K!CallIn("join", q, 0)
           u == K!WaitProcess(sys, p, q)
<1>1. sys' = u
  BY SameProcessCalls DEF Join
<1>2. "join" \in K!Unguarded /\ K!Steady(sys)
  BY DEF K!Unguarded, Sound, Stocked
<1>3. K!Steady(u) /\ K!Aside(sys, u) /\ u.call = [sys.call EXCEPT ![p] = c]
  BY <1>2, K!WaitProcessSteady
<1>4. c.fn \in K!Unguarded
  BY <1>2 DEF K!CallIn
<1> HIDE DEF u, c
<1>. QED BY <1>1, <1>3, <1>4, SoundWithin, BlockStep

LEMMA SetTimerStep ==
  ASSUME Sound(sys), NEW p \in Process, NEW d \in Duration, SetTimer(p, d)
  PROVE  StepOK(sys, sys')
<1> DEFINE t == K!TimerAdd(sys, p, d, "timeout")
<1>1. sys' = t
  BY SameProcessCalls DEF SetTimer
<1>2. K!Calm(sys, t)
  BY ClientPriorities, K!TimerAddCalm DEF Sound, Stocked
<1> HIDE DEF t
<1>. QED BY <1>1, <1>2, CalmStep

LEMMA ClearTimersStep ==
  ASSUME Sound(sys), NEW p \in Process, ClearTimers(p)
  PROVE  StepOK(sys, sys')
<1> DEFINE t == K!TimersClear(sys, p)
<1>1. sys' = t
  BY SameProcessCalls DEF ClearTimers
<1>2. K!Calm(sys, t)
  BY K!TimersClearCalm DEF Sound, Stocked
<1> HIDE DEF t
<1>. QED BY <1>1, <1>2, CalmStep

(* Interrupt, Resume and Start schedule an event.                          *)
LEMMA ScheduleStep ==
  ASSUME NEW s, Sound(s), NEW kind \in K!Kinds, NEW p \in Process, NEW sig,
         NEW pri \in Int
  PROVE  StepOK(s, K!Schedule(s, kind, p, 0, sig, 0, pri))
  BY K!ScheduleCalm, CalmStep DEF Sound, Stocked

LEMMA InterruptStep ==
  ASSUME Sound(sys), NEW p \in Process, NEW q \in Process, NEW pri \in Urgency,
         Interrupt(p, q, pri)
  PROVE  StepOK(sys, sys')
<1>1. sys' = K!Schedule(sys, "interrupt", q, 0, "interrupted", 0, pri)
  BY SameProcessCalls DEF Interrupt
<1>2. "interrupt" \in K!Kinds
  BY DEF K!Kinds
<1>. QED BY <1>1, <1>2, ClientPriorities, ScheduleStep

LEMMA ResumeStep ==
  ASSUME Sound(sys), NEW p \in Process, NEW q \in Process, Resume(p, q)
  PROVE  StepOK(sys, sys')
<1>1. sys' = K!Schedule(sys, "resume", q, 0, "success", 0, sys.prio[q])
  BY SameProcessCalls DEF Resume
<1>2. "resume" \in K!Kinds /\ sys.prio[q] \in Int
  BY DEF K!Kinds, Sound, Stocked, K!Steady
<1>. QED BY <1>1, <1>2, ScheduleStep

LEMMA StartStep ==
  ASSUME Sound(sys), NEW p \in Process, NEW q \in Process, Start(p, q)
  PROVE  StepOK(sys, sys')
<1>1. sys' = K!Schedule(sys, "start", q, 0, "success", 0, sys.prio[q])
  BY SameProcessCalls DEF Start
<1>2. "start" \in K!Kinds /\ sys.prio[q] \in Int
  BY DEF K!Kinds, Sound, Stocked, K!Steady
<1>. QED BY <1>1, <1>2, ScheduleStep

LEMMA DroppedWithin ==
  ASSUME NEW s, NEW p \in Process, Within(s, p)
  PROVE  LET t == Dropped(s, p)
         IN  Within(t, p) /\ Settled(s, t) /\ t.call = s.call
  BY ClaimSet DEF Dropped

(* A process ends.                                                         *)
LEMMA FinishedWithin ==
  ASSUME NEW s, NEW p \in Process, Within(s, p)
  PROVE  LET t == K!Finished(s, p)
         IN  Within(t, p) /\ Settled(s, t) /\ ClaimAt(t, p)
<1> DEFINE t == K!Finished(s, p)
<1>1. K!Steady(s) /\ DOMAIN s.call = Process
  BY DEF Within, Stocked, K!Steady, K!CallsOK
<1>2. K!Steady(t) /\ K!Foreign(s, t) /\ t.call = [s.call EXCEPT ![p] = K!Idle]
  BY <1>1, K!FinishedSteady
<1> HIDE DEF t
<1>3. t.call[p].fn \in K!Unguarded /\ OthersStay(s, t, p)
  BY <1>1, <1>2 DEF OthersStay, K!Idle, K!Unguarded
<1>4. Within(t, p) /\ Settled(s, t)
  BY <1>2, <1>3, ForeignWithin DEF Kept
<1>. QED BY <1>3, <1>4, UnguardedClaim DEF t

LEMMA StopStep ==
  ASSUME Sound(sys), NEW p \in Process, NEW q \in Process, Stop(p, q)
  PROVE  StepOK(sys, sys')
<1> DEFINE a == K!Finished(sys, q)
           b == K!CancelAwaiteds(a, q)
           c == Dropped(b, q)
           d == K!WakeWaiters(c, q, "stopped")
<1>1. sys' = d
  BY SameProcessCalls DEF Stop
<1>2. DOMAIN sys.call = Process /\ Within(sys, q)
  BY SoundWithin DEF Sound, Stocked, K!Steady, K!CallsOK
<1>3. Within(a, q) /\ Settled(sys, a) /\ a.call[q].fn \in K!Unguarded
  <2>1. Within(a, q) /\ Settled(sys, a)
    BY <1>2, FinishedWithin
  <2>2. a.call = [sys.call EXCEPT ![q] = K!Idle]
    BY K!FinishedSteady DEF Sound, Stocked
  <2> HIDE DEF a
  <2>3. a.call[q].fn \in K!Unguarded
    BY <1>2, <2>2 DEF K!Idle, K!Unguarded
  <2>. QED BY <2>1, <2>3
<1> HIDE DEF a
<1>4. K!Calm(a, b)
  BY <1>3, K!CancelAwaitedsCalm DEF Within, Stocked
<1> HIDE DEF b
<1>5. Within(b, q) /\ Settled(a, b) /\ b.call = a.call
  BY <1>3, <1>4, CalmWithin DEF Kept
<1>6. Within(c, q) /\ Settled(b, c) /\ c.call = b.call
  BY <1>5, DroppedWithin
<1> HIDE DEF c
<1>7. Sound(c)
  BY <1>3, <1>5, <1>6, UnguardedClaim, WithinSound
<1>8. K!Calm(c, d)
  BY <1>7, K!WakeWaitersCalm DEF Sound, Stocked
<1> HIDE DEF d
<1>9. StepOK(c, d)
  BY <1>7, <1>8, CalmStep
<1>10. Settled(sys, c)
  BY <1>3, <1>5, <1>6 DEF Settled
<1>. QED BY <1>1, <1>9, <1>10, StepAfter

LEMMA ExitStep ==
  ASSUME Sound(sys), NEW p \in Process, Exit(p)
  PROVE  StepOK(sys, sys')
<1> DEFINE a == Dropped(sys, p)
           b == K!CancelAwaiteds(a, p)
           c == K!WakeWaiters(b, p, "success")
           t == K!Finished(c, p)
           u == [t EXCEPT !.running = NoOne]
<1>1. sys' = u
  BY SameProcessCalls DEF Exit
<1>2. Within(a, p) /\ Settled(sys, a)
  BY SoundWithin, DroppedWithin
<1> HIDE DEF a
<1>3. K!Calm(a, b)
  BY <1>2, K!CancelAwaitedsCalm DEF Within, Stocked
<1> HIDE DEF b
<1>4. Within(b, p) /\ Settled(a, b)
  BY <1>2, <1>3, CalmWithin DEF Kept
<1>5. K!Calm(b, c)
  BY <1>4, K!WakeWaitersCalm DEF Within, Stocked
<1> HIDE DEF c
<1>6. Within(c, p) /\ Settled(b, c)
  BY <1>4, <1>5, CalmWithin DEF Kept
<1>7. Within(t, p) /\ Settled(c, t) /\ ClaimAt(t, p)
  BY <1>6, FinishedWithin
<1> HIDE DEF t
<1>8. K!Steady(u) /\ K!Aside(t, u) /\ u.call = t.call
  BY <1>7, K!RunningSet DEF Within, Stocked
<1> HIDE DEF u
<1>9. OthersStay(t, u, p)
  BY <1>8 DEF OthersStay
<1>10. Within(u, p) /\ Kept(t, u)
  BY <1>7, <1>8, <1>9, ForeignWithin DEF K!Aside
<1>11. Sound(u)
  BY <1>7, <1>8, <1>10, WithinSound DEF ClaimAt, Kept, Settled
<1>12. Settled(sys, u)
  BY <1>2, <1>4, <1>6, <1>7, <1>10 DEF Settled, Kept
<1>. QED BY <1>1, <1>11, <1>12 DEF StepOK, Stored

LEMMA SetPriorityStep ==
  ASSUME Sound(sys), NEW p \in Process, NEW q \in Process, NEW pri \in Ranks[q],
         SetPriority(p, q, pri)
  PROVE  StepOK(sys, sys')
<1> DEFINE t == K!PrioritySet(sys, q, pri)
<1>1. sys' = t
  BY SameProcessCalls DEF SetPriority, Reprioritized
<1>2. pri \in Int /\ K!Steady(sys) /\ Within(sys, q)
  BY ClientPriorities, SoundWithin DEF Sound, Stocked
<1>3. K!Steady(t) /\ K!Foreign(sys, t) /\ t.call = sys.call
  BY <1>2, K!PrioritySetSteady
<1> HIDE DEF t
<1>4. OthersStay(sys, t, q)
  BY <1>3 DEF OthersStay
<1>5. Within(t, q) /\ Kept(sys, t)
  BY <1>2, <1>3, <1>4, ForeignWithin
<1>6. Sound(t)
  BY <1>3, <1>5, WithinSound DEF Sound, ClaimAt, Kept, Settled
<1>. QED BY <1>1, <1>5, <1>6 DEF StepOK, Stored, Kept

LEMMA CancelStep ==
  ASSUME Sound(sys), NEW p \in Process, NEW q \in Process, NEW g \in Door,
         Cancel(p, q, g)
  PROVE  StepOK(sys, sys')
<1> DEFINE t == K!GuardCancel(sys, q, g)
<1>1. sys' = t
  BY SameProcessCalls DEF Cancel
<1>2. K!Calm(sys, t)
  BY K!GuardCancelCalm DEF Sound, Stocked
<1> HIDE DEF t
<1>. QED BY <1>1, <1>2, CalmStep

-----------------------------------------------------------------------------
(* The calls of the store.                                                 *)
Locals(n, o, rank, had) ==
  [want |-> n, rem |-> n, obj |-> o, rank |-> rank, had |-> had]

LEMMA ClaimWithin ==
  ASSUME Sound(sys), NEW p \in Process, NEW n \in Nat \ {0}, NEW o, NEW rank,
         NEW door \in Door,
         door = "rear" => o \in Object /\ rank \in Rank /\ n <= sys.hand[p][o]
  PROVE  LET t == Claim(p, n, o, rank)
         IN  Within(t, p) /\ Settled(sys, t) /\ Pending(door, t.claim[p], t.hand[p])
<1> DEFINE x == Locals(n, o, rank, sys.hand[p])
           t == [sys EXCEPT !.claim[p] = x]
<1>1. Claim(p, n, o, rank) = t
  BY DEF Claim, Locals
<1>2. Pending(door, x, sys.hand[p])
  BY DEF Pending, Locals
<1> HIDE DEF x
<1>3. Within(t, p) /\ Settled(sys, t) /\ t.claim[p] = x
  BY SoundWithin, ClaimSet
<1> HIDE DEF t
<1>. QED BY <1>1, <1>2, <1>3 DEF Settled

LEMMA BufferCallStep ==
  ASSUME Sound(sys), NEW p \in Process, NEW n \in Nat \ {0}, NEW o, NEW rank,
         NEW door \in Door,
         door = "rear" => o \in Object /\ rank \in Rank /\ n <= sys.hand[p][o]
  PROVE  StepOK(sys, BufferTurn(Claim(p, n, o, rank), p, door))
<1> DEFINE t == Claim(p, n, o, rank)
<1>1. Within(t, p) /\ Settled(sys, t) /\ Pending(door, t.claim[p], t.hand[p])
  BY ClaimWithin
<1> HIDE DEF t
<1>2. StepOK(t, BufferTurn(t, p, door))
  BY <1>1, BufferTurnSound DEF StepOK
<1>3. StepOK(sys, BufferTurn(t, p, door))
  BY <1>1, <1>2, StepAfter
<1>. QED BY <1>3 DEF t

LEMMA QueueCallStep ==
  ASSUME Sound(sys), NEW p \in Process, NEW o, NEW rank,
         NEW door \in Door,
         door = "rear" => o \in Object /\ rank \in Rank /\ 1 <= sys.hand[p][o]
  PROVE  StepOK(sys, QueueTurn(Claim(p, 1, o, rank), p, door))
<1> DEFINE t == Claim(p, 1, o, rank)
<1>1. Within(t, p) /\ Settled(sys, t) /\ Pending(door, t.claim[p], t.hand[p])
  BY ClaimWithin
<1> HIDE DEF t
<1>2. StepOK(t, QueueTurn(t, p, door))
  BY <1>1, QueueTurnSound DEF StepOK
<1>3. StepOK(sys, QueueTurn(t, p, door))
  BY <1>1, <1>2, StepAfter
<1>. QED BY <1>3 DEF t

LEMMA StoreCallStep ==
  ASSUME Sound(sys), NEW p \in Process,
         \/ \E n \in Sizes : BufferGet(p, n)
         \/ \E o \in Object, n \in Sizes : BufferPut(p, o, n)
         \/ ObjectGet(p)
         \/ \E o \in Object : ObjectPut(p, o)
         \/ PriorityGet(p)
         \/ \E o \in Object, rank \in Rank : PriorityPut(p, o, rank)
  PROVE  StepOK(sys, sys')
<1>1. /\ \A n \in Sizes : n \in Nat \ {0}
      /\ 0 \in Rank /\ "front" \in Door /\ "rear" \in Door
  BY StoreAssumption DEF Door
<1>2. \A o \in Object : sys.hand[p][o] \in Nat
  BY DEF Sound, Stocked
<1>3. CASE \E n \in Sizes : BufferGet(p, n)
  BY <1>1, <1>3, BufferCallStep DEF BufferGet
<1>4. CASE \E o \in Object, n \in Sizes : BufferPut(p, o, n)
  BY <1>1, <1>4, BufferCallStep DEF BufferPut
<1>5. CASE ObjectGet(p)
  BY <1>1, <1>5, QueueCallStep DEF ObjectGet
<1>6. CASE \E o \in Object : ObjectPut(p, o)
  BY <1>1, <1>2, <1>6, QueueCallStep DEF ObjectPut
<1>7. CASE PriorityGet(p)
  BY <1>1, <1>7, QueueCallStep DEF PriorityGet
<1>8. CASE \E o \in Object, rank \in Rank : PriorityPut(p, o, rank)
  BY <1>1, <1>2, <1>8, QueueCallStep DEF PriorityPut
<1>. QED BY <1>3, <1>4, <1>5, <1>6, <1>7, <1>8

(* What is moved without a wait.                                           *)
WithItems(s, I, H, b) == [s EXCEPT !.items = I, !.hand = H, !.cancelled = b]

LEMMA ItemsSet ==
  ASSUME NEW s, Sound(s), NEW p \in Process, NEW I, Stock(I), NEW b,
         NEW H \in [Process -> [Object -> Nat]],
         \A q \in Process : \A o \in Object : s.hand[q][o] <= H[q][o]
  PROVE  LET t == WithItems(s, I, H, b)
         IN  Sound(t) /\ t.items = I /\ t.hand = H
<1> DEFINE t == WithItems(s, I, H, b)
<1>1. DOMAIN t = DOMAIN s /\ t = [f \in DOMAIN t |-> t[f]]
  BY DEF WithItems
<1>2. /\ K!Steady(s) /\ Own \subseteq DOMAIN s /\ DOMAIN s.claim = Process
      /\ s.hand \in [Process -> [Object -> Nat]]
  BY DEF Sound, Stocked
<1>3. {"items", "hand", "claim", "cancelled"} \subseteq DOMAIN s
  BY <1>2 DEF Own
<1>4. t.items = I /\ t.hand = H /\ t.claim = s.claim
  BY <1>3 DEF WithItems
<1>5. \A f \in K!Fields : t[f] = s[f]
  BY <1>2 DEF K!Steady, K!Fields, WithItems
<1> HIDE DEF t
<1>6. K!Steady(t) /\ t.call = s.call
  BY <1>1, <1>2, <1>5, K!ForeignSteady
<1>7. Stocked(t)
  BY <1>1, <1>2, <1>4, <1>6 DEF Stocked
<1>8. ASSUME NEW q \in Process PROVE ClaimAt(t, q)
  <2> DEFINE l == s.claim[q]
             c == s.call[q]
  <2>1. Consistent(c, l, s.hand[q])
    BY DEF Sound, ClaimAt
  <2>2. \A o \in Object : s.hand[q][o] \in Nat /\ H[q][o] \in Nat /\ s.hand[q][o] <= H[q][o]
    BY <1>2
  <2>3. \A n \in Nat, o \in Object : n <= s.hand[q][o] => n <= H[q][o]
    BY <2>2
  <2>4. \A door : Pending(door, l, s.hand[q]) => Pending(door, l, H[q])
    BY <2>3 DEF Pending
  <2>5. Consistent(c, l, H[q])
    BY <2>1, <2>4 DEF Consistent
  <2>. QED BY <1>4, <1>6, <2>5 DEF ClaimAt
<1>. QED BY <1>4, <1>7, <1>8 DEF Sound, t

LEMMA WithdrawStep ==
  ASSUME Sound(sys), NEW p \in Process, NEW x \in sys.items, Withdraw(p, x)
  PROVE  StepOK(sys, sys')
<1> DEFINE I == Store!Without(sys.items, {x})
           h == Store!Received(sys.hand[p], {x})
           H == [sys.hand EXCEPT ![p] = h]
           done == TRUE
           t == WithItems(sys, I, H, done)
<1>1. sys' = t
  BY DEF Withdraw, WithItems
<1>2. Stock(sys.items) /\ sys.hand \in [Process -> [Object -> Nat]] /\ {x} \in SUBSET sys.items
  BY DEF Sound, Stocked
<1>3. Stock(I) /\ IsFiniteSet({x})
  BY <1>2, StockWithout
<1>4. h \in [Object -> Nat] /\ \A o \in Object : sys.hand[p][o] <= h[o]
  BY <1>2, <1>3, ReceivedCounts
<1>5. Moves(sys.items, sys.hand, I, H)
  BY DEF Moves
<1> HIDE DEF I, h
<1>6. /\ H \in [Process -> [Object -> Nat]]
      /\ \A q \in Process : \A o \in Object : sys.hand[q][o] <= H[q][o]
  <2>1. H[p] = h /\ \A q \in Process : q # p => H[q] = sys.hand[q]
    BY <1>2
  <2>2. \A q \in Process : \A o \in Object : sys.hand[q][o] \in Nat
    BY <1>2
  <2>. QED BY <1>2, <1>4, <2>1, <2>2
<1> HIDE DEF H, done
<1>7. Sound(t) /\ t.items = I /\ t.hand = H
  BY <1>3, <1>6, ItemsSet
<1> HIDE DEF t
<1>. QED BY <1>1, <1>5, <1>7 DEF StepOK, Stored

LEMMA RerankStep ==
  ASSUME Sound(sys), NEW p \in Process, NEW x \in sys.items, NEW rank \in Rank,
         Rerank(p, x, rank)
  PROVE  StepOK(sys, sys')
<1> DEFINE I == (sys.items \ {x}) \cup {[x EXCEPT !.rank = rank]}
           t == WithItems(sys, I, sys.hand, sys.cancelled)
<1>1. /\ Stock(sys.items) /\ sys.hand \in [Process -> [Object -> Nat]]
      /\ Own \subseteq DOMAIN sys /\ sys = [f \in DOMAIN sys |-> sys[f]]
  BY DEF Sound, Stocked, K!Steady
<1>2. Stock(I)
  BY <1>1, StockReranked
<1>3. Moves(sys.items, sys.hand, I, sys.hand)
  BY DEF Moves
<1>4. sys' = [sys EXCEPT !.items = I]
  BY DEF Rerank
<1> HIDE DEF I
<1>5. t = [sys EXCEPT !.items = I]
  BY <1>1 DEF WithItems, Own
<1>6. \A q \in Process : \A o \in Object : sys.hand[q][o] <= sys.hand[q][o]
  <2>1. \A q \in Process : \A o \in Object : sys.hand[q][o] \in Nat
    BY <1>1
  <2>. QED BY <2>1
<1>7. Sound(t) /\ t.items = I /\ t.hand = sys.hand
  BY <1>1, <1>2, <1>6, ItemsSet
<1> HIDE DEF t
<1>. QED BY <1>3, <1>4, <1>5, <1>7 DEF StepOK, Stored

LEMMA ClientStep ==
  ASSUME Sound(sys), NEW p \in Process, Client(p)
  PROVE  StepOK(sys, sys')
<1>1. CASE \/ \E n \in Sizes : BufferGet(p, n)
           \/ \E o \in Object, n \in Sizes : BufferPut(p, o, n)
           \/ ObjectGet(p)
           \/ \E o \in Object : ObjectPut(p, o)
           \/ PriorityGet(p)
           \/ \E o \in Object, rank \in Rank : PriorityPut(p, o, rank)
  BY <1>1, StoreCallStep
<1>2. CASE \E x \in sys.items : Withdraw(p, x)
  BY <1>2, WithdrawStep
<1>3. CASE \E x \in sys.items, rank \in Rank : Rerank(p, x, rank)
  BY <1>3, RerankStep
<1>4. CASE \E d \in Duration : Hold(p, d)
  BY <1>4, HoldStep
<1>5. CASE Yield(p)
  BY <1>5, YieldStep
<1>6. CASE \E d \in Duration : SetTimer(p, d)
  BY <1>6, SetTimerStep
<1>7. CASE ClearTimers(p)
  BY <1>7, ClearTimersStep
<1>8. CASE \E q \in Process, pri \in Urgency : Interrupt(p, q, pri)
  BY <1>8, InterruptStep
<1>9. CASE \E q \in Process : Resume(p, q)
  BY <1>9, ResumeStep
<1>10. CASE \E q \in Process : Stop(p, q)
  BY <1>10, StopStep
<1>11. CASE \E q \in Process : Start(p, q)
  BY <1>11, StartStep
<1>12. CASE Exit(p)
  BY <1>12, ExitStep
<1>13. CASE \E q \in Process : \E pri \in Ranks[q] : SetPriority(p, q, pri)
  BY <1>13, SetPriorityStep
<1>14. CASE \E q \in Process : Join(p, q)
  BY <1>14, JoinStep
<1>15. CASE \E q \in Process, g \in Door : Cancel(p, q, g)
  BY <1>15, CancelStep
<1>. QED BY <1>1, <1>2, <1>3, <1>4, <1>5, <1>6, <1>7, <1>8, <1>9, <1>10, <1>11,
            <1>12, <1>13, <1>14, <1>15 DEF Client, ProcessCall

LEMMA NextStep ==
  ASSUME Sound(sys), Next PROVE StepOK(sys, sys')
<1>1. CASE Dispatch
  <2>1. sys' = Executed(sys) /\ sys.agenda # {}
    BY <1>1 DEF Dispatch, Dispatching
  <2>. QED BY <2>1, ExecutedStep
<1>2. CASE \E p \in Process : Client(p)
  BY <1>2, ClientStep
<1>. QED BY <1>1, <1>2 DEF Next

(* A trial begins with an empty store.                                     *)
LEMMA InitSound == Init => Sound(sys) /\ Store!StoreInit
<1> SUFFICES ASSUME Init PROVE Sound(sys) /\ Store!StoreInit
  OBVIOUS
<1> DEFINE Agenda(order) ==
             {[kind |-> "start", proc |-> p, key |-> 0,
               sig |-> "success", delay |-> 0, prio |-> InitPrio[p],
               tag |-> order[p]] : p \in Process}
<1>1. PICK order \in [Process -> 1..Cardinality(Process)], kind \in Kind :
        /\ \A p, q \in Process : p # q => order[p] # order[q]
        /\ sys =
             [agenda  |-> Agenda(order),
              running |-> NoOne,
              status  |-> [p \in Process |-> "initialized"],
              prio    |-> InitPrio,
              call    |-> [p \in Process |-> Idle],
              timers  |-> [p \in Process |-> {}],
              ticket  |-> [p \in Process |-> NoTicket],
              joins   |-> [p \in Process |-> NoOne],
              waiters |-> [p \in Process |-> <<>>],
              queue   |-> [g \in Door |-> {}],
              observers |-> [g \in Door |-> <<>>],
              untold  |-> [p \in Process |-> {}],
              failed  |-> "none",
              kind    |-> kind,
              items   |-> {},
              hand    |-> Share[kind],
              claim   |-> [p \in Process |-> NoClaim],
              cancelled |-> FALSE]
  BY DEF Init
<1>2. InitPrio \in [Process -> Int]
  BY StoreAssumption, ClientAssumption
<1>3. K!AgendaOK(Agenda(order))
  <2>1. K!Ordered(Process, order)
    BY <1>1, SameSets DEF K!Ordered
  <2>2. K!IsFiniteSet(Process)
    BY FiniteAssumption, SameSets
  <2>3. K!AgendaOK(K!FirstAgenda(Process, order, InitPrio))
    BY <1>2, <2>1, <2>2, K!FirstAgendaOK
  <2>4. Agenda(order) = K!FirstAgenda(Process, order, InitPrio)
    BY DEF K!FirstAgenda, K!FirstEvent
  <2>. QED BY <2>3, <2>4
<1> HIDE DEF Agenda
<1>4. K!Fields \subseteq DOMAIN sys /\ Own \subseteq DOMAIN sys
  BY <1>1 DEF K!Fields, Own
<1>5. sys = [f \in DOMAIN sys |-> sys[f]]
  BY <1>1
<1>6. K!Fresh(sys) /\ sys.agenda = Agenda(order) /\ sys.prio = InitPrio
  BY <1>1, SameCalls DEF K!Fresh
<1>7. K!Steady(sys)
  BY <1>2, <1>3, <1>4, <1>5, <1>6, K!FreshSteady
<1>8. sys.items = {} /\ sys.hand = Share[kind] /\ sys.claim = [p \in Process |-> NoClaim]
  BY <1>1
<1>9. sys.hand \in [Process -> [Object -> Nat]]
  BY <1>8, StoreAssumption
<1>10. Stock({})
  <2>1. K!Numbered({}) /\ Cardinality({}) = 0 /\ Capacity \in Nat
    BY K!NumberedEmpty, FS_EmptySet, StoreAssumption
  <2>. QED BY <2>1 DEF Stock
<1>11. \A p \in Process : ClaimAt(sys, p)
  <2>1. \A p \in Process : sys.call[p].fn \in K!Unguarded
    BY <1>6 DEF K!Fresh, K!Idle, K!Unguarded
  <2>. QED BY <2>1, UnguardedClaim
<1>12. Sound(sys)
  BY <1>4, <1>7, <1>8, <1>9, <1>10, <1>11 DEF Sound, Stocked
<1>. QED BY <1>8, <1>9, <1>12 DEF Store!StoreInit

-----------------------------------------------------------------------------
(* The inductive invariant.                                                *)
StoreSound == Sound(sys)

(* Buffers, object queues and priority queues implement the bounded store: *)
(* with any number of processes, objects and ranks and any capacity, and   *)
(* however gets and puts are interrupted, timed out, cancelled or stopped, *)
(* each step of a trial is one move of the store or none.  Nothing is lost *)
(* or made, the capacity is never exceeded, and what leaves is first in    *)
(* line (cmb_buffer.c, cmb_objectqueue.c, cmb_priorityqueue.c).            *)
THEOREM ImplementsCorrect == Spec => Implements
<1>1. Init => StoreSound /\ Store!StoreInit
  BY InitSound DEF StoreSound
<1>2. StoreSound /\ [Next]_sys => StoreSound'
  <2>1. StoreSound /\ Next => StoreSound'
    BY NextStep DEF StoreSound, StepOK
  <2>2. StoreSound /\ UNCHANGED sys => StoreSound'
    BY DEF StoreSound
  <2>. QED BY <2>1, <2>2
<1>3. StoreSound /\ [Next]_sys => [Store!Move]_<<sys.items, sys.hand>>
  <2>1. StoreSound /\ Next => [Store!Move]_<<sys.items, sys.hand>>
    BY NextStep, StepOfStore DEF StoreSound, StepOK
  <2>2. UNCHANGED sys => [Store!Move]_<<sys.items, sys.hand>>
    OBVIOUS
  <2>. QED BY <2>1, <2>2
<1>. QED BY <1>1, <1>2, <1>3, PTL DEF Spec, Implements, Store!StoreSpec

=============================================================================
