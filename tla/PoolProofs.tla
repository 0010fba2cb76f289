----------------------------- MODULE PoolProofs -----------------------------
(***************************************************************************)
(* The books of the resource pools balance: whatever processes take in     *)
(* parts, take from one another, put back, drop or lose, the units in use  *)
(* are those on record, the record has the priorities of the present, and  *)
(* each process has in its list what it holds.                             *)
(***************************************************************************)
EXTENDS PoolSystem, FiniteSetTheorems, TLAPS

K == INSTANCE KernelProofs WITH Guard <- Pool, Satisfied <- IsAvailable

-----------------------------------------------------------------------------
(* The operators that PoolSystem and ProcessSystem instantiate are those  *)
(* that the lemmas on the kernel are about.                                *)
LEMMA SameSets ==
  /\ \A S : K!Cardinality(S) = Cardinality(S)
  /\ \A S : K!IsFiniteSet(S) <=> IsFiniteSet(S)
<1>1. \A S : K!Cardinality(S) = Cardinality(S)
  BY Zenon DEF K!Cardinality, Cardinality
<1>2. \A S : K!IsFiniteSet(S) <=> IsFiniteSet(S)
  BY SMTT(30) DEF K!IsFiniteSet, IsFiniteSet
<1>. QED BY <1>1, <1>2

LEMMA SameSignal ==
  ASSUME NEW s, NEW g
  PROVE  Kernel!Signal(s, g) = K!Signal(s, g)
  BY SMTT(30) DEF K!Signal, Kernel!Signal, K!HeardAt, Kernel!HeardAt, K!Granted, Kernel!Granted,
         K!Asserted, Kernel!Asserted, K!Schedule, Kernel!Schedule, K!Enter, Kernel!Enter,
         K!Leave, Kernel!Leave, K!GuardKey, Kernel!GuardKey, K!Front, Kernel!Front,
         K!Cardinality, Kernel!Cardinality

(* So does the call of a pool itself.                                      *)
LEMMA SameRing ==
  ASSUME NEW s, NEW g
  PROVE  Signal(s, g) = K!Signal(s, g)
  BY SMTT(30) DEF K!Signal, Signal, K!HeardAt, HeardAt, K!Granted, Granted,
         K!Asserted, Asserted, K!Schedule, Schedule, K!Enter, Enter,
         K!Leave, Leave, K!GuardKey, GuardKey, K!Front, Front,
         K!Cardinality, Cardinality

LEMMA SameCancelAwaiteds ==
  ASSUME NEW s, NEW p
  PROVE  /\ Kernel!CancelAwaiteds(s, p) = K!CancelAwaiteds(s, p)
         /\ CancelAwaiteds(s, p) = K!CancelAwaiteds(s, p)
<1> DEFINE g == s.ticket[p].guard
           mine == IF g = NoOne THEN {} ELSE K!Entries(s, g, s.ticket[p].key)
           t == [K!CancelEvents(s, K!Swept(s, p)) EXCEPT
                   !.timers[p] = {},
                   !.ticket[p] = K!NoTicket,
                   !.joins[p]  = NoOne,
                   !.queue     = [h \in Pool |-> IF h = g THEN K!Leave(@[h], mine)
                                                 ELSE @[h]],
                   !.waiters   = [q \in Process |->
                                    IF q = s.joins[p] THEN K!Unlink(@[q], p) ELSE @[q]]]
<1>1. K!CancelAwaiteds(s, p) = IF g # NoOne /\ mine = {} THEN K!Signal(t, g) ELSE t
  BY SMTT(30) DEF K!CancelAwaiteds
<1>2. Kernel!CancelAwaiteds(s, p)
        = IF g # NoOne /\ mine = {} THEN Kernel!Signal(t, g) ELSE t
  BY SMTT(30) DEF Kernel!CancelAwaiteds, Kernel!CancelEvents, K!CancelEvents, Kernel!Leave, K!Leave,
         Kernel!Cardinality, K!Cardinality, Kernel!Swept, K!Swept, Kernel!Unchecked,
         K!Unchecked, Kernel!TimerEvents, K!TimerEvents, Kernel!Entries, K!Entries,
         Kernel!Unlink, K!Unlink, Kernel!Occurrence, K!Occurrence, Kernel!NoTicket,
         K!NoTicket
<1>3. CancelAwaiteds(s, p) = IF g # NoOne /\ mine = {} THEN Signal(t, g) ELSE t
  BY SMTT(30) DEF CancelAwaiteds, CancelEvents, K!CancelEvents, Leave, K!Leave,
         Cardinality, K!Cardinality, Swept, K!Swept, Unchecked, K!Unchecked,
         TimerEvents, K!TimerEvents, Entries, K!Entries, Unlink, K!Unlink,
         Occurrence, K!Occurrence, NoTicket, K!NoTicket
<1> HIDE DEF t
<1>4. Kernel!Signal(t, g) = K!Signal(t, g) /\ Signal(t, g) = K!Signal(t, g)
  BY SameSignal, SameRing
<1>. QED BY <1>1, <1>2, <1>3, <1>4

LEMMA SameGuardResume ==
  ASSUME NEW s, NEW p, NEW sig
  PROVE  Kernel!GuardResume(s, p, sig) = K!GuardResume(s, p, sig)
<1> DEFINE g == s.call[p].on
           mine == K!Entries(s, g, s.call[p].key)
           t == K!RemoveTicket(s, p, g)
           left == [t EXCEPT !.queue[g] = K!Leave(@, mine)]
<1>1. K!GuardResume(s, p, sig) =
        IF sig = "success" THEN K!Asserted(t, mine = {}, "guard_wait")
        ELSE IF mine # {} THEN left
        ELSE IF sig # "cancelled" THEN K!Signal(t, g) ELSE t
  BY DEF K!GuardResume
<1>2. Kernel!RemoveTicket(s, p, g) = t
  BY DEF Kernel!RemoveTicket, K!RemoveTicket, Kernel!NoTicket, K!NoTicket
<1>3. Kernel!Entries(s, g, s.call[p].key) = mine
  BY DEF Kernel!Entries, K!Entries
<1> HIDE DEF t, mine
<1>4. Kernel!Leave(t.queue[g], mine) = K!Leave(t.queue[g], mine)
  BY DEF Kernel!Leave, K!Leave, Kernel!Cardinality, K!Cardinality
<1>5. Kernel!Asserted(t, mine = {}, "guard_wait") = K!Asserted(t, mine = {}, "guard_wait")
  BY DEF Kernel!Asserted, K!Asserted
<1>6. Kernel!Signal(t, g) = K!Signal(t, g)
  BY SameSignal
<1>7. Kernel!GuardResume(s, p, sig) =
        IF sig = "success" THEN Kernel!Asserted(t, mine = {}, "guard_wait")
        ELSE IF mine # {} THEN [t EXCEPT !.queue[g] = Kernel!Leave(t.queue[g], mine)]
        ELSE IF sig # "cancelled" THEN Kernel!Signal(t, g) ELSE t
  BY <1>2, <1>3 DEF Kernel!GuardResume
<1>. QED BY <1>1, <1>4, <1>5, <1>6, <1>7

(* The calls that the clients' own code makes.                             *)
LEMMA SameCalls ==
  /\ \A s, p, sig : Return(s, p, sig) = K!Return(s, p, sig)
  /\ \A s, p, fn, g : GuardWait(s, p, fn, g) = K!GuardWait(s, p, fn, g)
  /\ Idle = K!Idle /\ NoTicket = K!NoTicket
  /\ \A s, holds, name : Asserted(s, holds, name) = K!Asserted(s, holds, name)
  /\ \A s, kind, p, key, sig, delay, pri :
       Schedule(s, kind, p, key, sig, delay, pri)
         = K!Schedule(s, kind, p, key, sig, delay, pri)
  /\ \A ws, x : Unlink(ws, x) = K!Unlink(ws, x)
<1>1. \A s, p, sig : Return(s, p, sig) = K!Return(s, p, sig)
  BY DEF K!Return, Return, K!Idle, Idle
<1>2. \A s, p, fn, g : GuardWait(s, p, fn, g) = K!GuardWait(s, p, fn, g)
  BY DEF K!GuardWait, GuardWait, K!Block, Block, K!AddTicket, AddTicket, K!Enter, Enter,
         K!FreshKey, FreshKey, K!KeysInUse, KeysInUse, K!Cardinality, Cardinality
<1>3. Idle = K!Idle /\ NoTicket = K!NoTicket
  BY DEF Idle, K!Idle, NoTicket, K!NoTicket
<1>4. \A s, holds, name : Asserted(s, holds, name) = K!Asserted(s, holds, name)
  BY DEF Asserted, K!Asserted
<1>5. \A s, kind, p, key, sig, delay, pri :
        Schedule(s, kind, p, key, sig, delay, pri)
          = K!Schedule(s, kind, p, key, sig, delay, pri)
  BY DEF Schedule, K!Schedule, Enter, K!Enter, Cardinality, K!Cardinality
<1>6. \A ws, x : Unlink(ws, x) = K!Unlink(ws, x)
  BY DEF Unlink, K!Unlink, Occurrence, K!Occurrence
<1>. QED BY <1>1, <1>2, <1>3, <1>4, <1>5, <1>6

(* Those of the processes and of the dispatcher.                           *)
LEMMA SameProcessCalls ==
  /\ \A s, p, sig : Kernel!Return(s, p, sig) = K!Return(s, p, sig)
  /\ \A s, p, fn, on, key : Kernel!Block(s, p, fn, on, key) = K!Block(s, p, fn, on, key)
  /\ \A s, p : Kernel!Finished(s, p) = K!Finished(s, p)
  /\ \A s, p : Kernel!CancelAwaiteds(s, p) = K!CancelAwaiteds(s, p)
  /\ \A s, p, sig : Kernel!WakeWaiters(s, p, sig) = K!WakeWaiters(s, p, sig)
  /\ \A s, p, q : Kernel!WaitProcess(s, p, q) = K!WaitProcess(s, p, q)
  /\ \A s, p, sig : Kernel!GuardResume(s, p, sig) = K!GuardResume(s, p, sig)
  /\ \A s, p, g : Kernel!GuardCancel(s, p, g) = K!GuardCancel(s, p, g)
  /\ \A s, p, pri : Kernel!PrioritySet(s, p, pri) = K!PrioritySet(s, p, pri)
  /\ \A s, p, delay, sig : Kernel!TimerAdd(s, p, delay, sig) = K!TimerAdd(s, p, delay, sig)
  /\ \A s, p, key : Kernel!TimerCancel(s, p, key) = K!TimerCancel(s, p, key)
  /\ \A s, p : Kernel!TimersClear(s, p) = K!TimersClear(s, p)
  /\ \A s, kind, p, key, sig, delay, pri :
       Kernel!Schedule(s, kind, p, key, sig, delay, pri)
         = K!Schedule(s, kind, p, key, sig, delay, pri)
  /\ \A s, holds, name : Kernel!Asserted(s, holds, name) = K!Asserted(s, holds, name)
  /\ \A A : Kernel!First(A) = K!First(A)
  /\ \A s : Kernel!Dequeue(s) = K!Dequeue(s)
  /\ \A ws, x : Kernel!Unlink(ws, x) = K!Unlink(ws, x)
<1>1. \A s, p, sig : Kernel!Return(s, p, sig) = K!Return(s, p, sig)
  BY DEF Kernel!Return, K!Return, Kernel!Idle, K!Idle
<1>2. \A s, p, fn, on, key : Kernel!Block(s, p, fn, on, key) = K!Block(s, p, fn, on, key)
  BY DEF Kernel!Block, K!Block
<1>3. \A s, p : Kernel!Finished(s, p) = K!Finished(s, p)
  BY DEF Kernel!Finished, K!Finished, Kernel!Idle, K!Idle
<1>4. \A s, p : Kernel!CancelAwaiteds(s, p) = K!CancelAwaiteds(s, p)
  BY SameCancelAwaiteds
<1>5. \A s, p, sig : Kernel!WakeWaiters(s, p, sig) = K!WakeWaiters(s, p, sig)
  BY DEF Kernel!WakeWaiters, K!WakeWaiters, Kernel!Cardinality, K!Cardinality
<1>6. \A s, p, q : Kernel!WaitProcess(s, p, q) = K!WaitProcess(s, p, q)
  BY DEF Kernel!WaitProcess, K!WaitProcess, Kernel!Block, K!Block
<1>7. \A s, p, sig : Kernel!GuardResume(s, p, sig) = K!GuardResume(s, p, sig)
  BY SameGuardResume
<1>8. \A s, p, g : Kernel!GuardCancel(s, p, g) = K!GuardCancel(s, p, g)
  BY DEF Kernel!GuardCancel, K!GuardCancel, Kernel!Leave, K!Leave, Kernel!Schedule,
         K!Schedule, Kernel!Enter, K!Enter, Kernel!Cardinality, K!Cardinality,
         Kernel!Entries, K!Entries, Kernel!GuardKey, K!GuardKey
<1>9. \A s, p, pri : Kernel!PrioritySet(s, p, pri) = K!PrioritySet(s, p, pri)
  BY DEF Kernel!PrioritySet, K!PrioritySet, Kernel!Asserted, K!Asserted, Kernel!Entries,
         K!Entries, Kernel!TimerEvents, K!TimerEvents
<1>10. \A s, p, delay, sig :
         Kernel!TimerAdd(s, p, delay, sig) = K!TimerAdd(s, p, delay, sig)
  BY DEF Kernel!TimerAdd, K!TimerAdd, Kernel!FreshKey, K!FreshKey, Kernel!KeysInUse,
         K!KeysInUse, Kernel!Schedule, K!Schedule, Kernel!Enter, K!Enter,
         Kernel!Cardinality, K!Cardinality
<1>11. \A s, p, key : Kernel!TimerCancel(s, p, key) = K!TimerCancel(s, p, key)
  BY DEF Kernel!TimerCancel, K!TimerCancel, Kernel!TimerEvents, K!TimerEvents,
         Kernel!CancelEvents, K!CancelEvents, Kernel!Leave, K!Leave, Kernel!Cardinality,
         K!Cardinality
<1>12. \A s, p : Kernel!TimersClear(s, p) = K!TimersClear(s, p)
  BY DEF Kernel!TimersClear, K!TimersClear, Kernel!Asserted, K!Asserted,
         Kernel!TimerEvents, K!TimerEvents, Kernel!CancelEvents, K!CancelEvents,
         Kernel!Leave, K!Leave, Kernel!Cardinality, K!Cardinality
<1>13. \A s, kind, p, key, sig, delay, pri :
        Kernel!Schedule(s, kind, p, key, sig, delay, pri)
          = K!Schedule(s, kind, p, key, sig, delay, pri)
  BY DEF Kernel!Schedule, K!Schedule, Kernel!Enter, K!Enter, Kernel!Cardinality,
         K!Cardinality
<1>14. \A s, holds, name : Kernel!Asserted(s, holds, name) = K!Asserted(s, holds, name)
  BY DEF Kernel!Asserted, K!Asserted
<1>15. \A A : Kernel!First(A) = K!First(A)
  BY DEF Kernel!First, K!First, Kernel!Before, K!Before
<1>16. \A s : Kernel!Dequeue(s) = K!Dequeue(s)
  BY DEF Kernel!Dequeue, K!Dequeue, Kernel!Leave, K!Leave, Kernel!Cardinality,
         K!Cardinality, Kernel!First, K!First, Kernel!Before, K!Before
<1>17. \A ws, x : Kernel!Unlink(ws, x) = K!Unlink(ws, x)
  BY DEF Kernel!Unlink, K!Unlink, Kernel!Occurrence, K!Occurrence
<1>. QED BY <1>1, <1>2, <1>3, <1>4, <1>5, <1>6, <1>7, <1>8, <1>9, <1>10, <1>11,
            <1>12, <1>13, <1>14, <1>15, <1>16, <1>17

-----------------------------------------------------------------------------
(* The units that the records in H stand for, numbered from 1 for each     *)
(* process.                                                                *)
Units(H) ==
  {u \in Process \X (Nat \ {0}) : \E h \in H : h.proc = u[1] /\ u[2] <= h.amount}

HolderFields == {"proc", "amount", "prio", "since"}

(* A record as it should be, when processes have the priorities prio.      *)
RecordOK(h, prio) ==
  /\ DOMAIN h = HolderFields
  /\ h.proc \in Process /\ h.amount \in Nat \ {0} /\ h.since \in Nat
  /\ h.prio = prio[h.proc]

(* The records in H stand for n units.                                     *)
Holding(H, prio, n) ==
  /\ IsFiniteSet(H)
  /\ \A h \in H : RecordOK(h, prio)
  /\ \A h, k \in H : h.proc = k.proc => h = k
  /\ IsFiniteSet(Units(H)) /\ Cardinality(Units(H)) = n

LEMMA HoldingNone ==
  ASSUME NEW prio PROVE Holding({}, prio, 0)
<1>1. Units({}) = {}
  BY DEF Units
<1>. QED BY <1>1, FS_EmptySet DEF Holding

LEMMA UnitsOfOne ==
  ASSUME NEW h, NEW prio, RecordOK(h, prio)
  PROVE  IsFiniteSet(Units({h})) /\ Cardinality(Units({h})) = h.amount
<1> DEFINE n == h.amount
           p == h.proc
           U == {u \in Process \X (Nat \ {0}) : u[1] = p /\ u[2] <= n}
           F == [i \in 1..n |-> <<p, i>>]
<1>1. n \in Nat /\ p \in Process
  BY DEF RecordOK
<1>2. Units({h}) = U
  BY DEF Units
<1> HIDE DEF n, p
<1>3. F \in Bijection(1..n, U)
  <2>1. \A i \in 1..n : F[i] \in U /\ F[i][2] = i
    BY <1>1
  <2>2. \A u \in U : u[2] \in 1..n /\ u = F[u[2]]
    BY <1>1
  <2> HIDE DEF F, U
  <2>3. F \in [1..n -> U]
    BY <2>1 DEF F
  <2>4. \A i, j \in 1..n : F[i] = F[j] => i = j
    BY <2>1
  <2>. QED BY <2>2, <2>3, <2>4 DEF Bijection, Injection, Surjection, IsInjective
<1>4. IsFiniteSet(1..n) /\ Cardinality(1..n) = n
  BY <1>1, FS_Interval
<1> HIDE DEF F, U
<1>5. IsFiniteSet(U) /\ Cardinality(U) = n
  BY <1>3, <1>4, FS_Bijection DEF ExistsBijection
<1>. QED BY <1>2, <1>5 DEF n

LEMMA DisjointUnion ==
  ASSUME NEW A, NEW B, IsFiniteSet(A), IsFiniteSet(B), A \cap B = {}
  PROVE  /\ IsFiniteSet(A \cup B)
         /\ Cardinality(A \cup B) = Cardinality(A) + Cardinality(B)
  BY SameSets, K!DisjointCount

(* What is left without one of the records.                                *)
LEMMA HoldingWithout ==
  ASSUME NEW H, NEW prio, NEW n, Holding(H, prio, n), NEW h \in H
  PROVE  /\ Holding(H \ {h}, prio, n - h.amount)
         /\ h.amount \in Nat \ {0} /\ n \in Nat /\ h.amount <= n
<1> DEFINE G == H \ {h}
           A == Units(G)
           B == Units({h})
<1>1. RecordOK(h, prio) /\ h.amount \in Nat \ {0}
  BY DEF Holding, RecordOK
<1>2. Units(H) = A \cup B
  BY DEF Units
<1>3. A \cap B = {}
  BY DEF Units, Holding
<1>4. IsFiniteSet(B) /\ Cardinality(B) = h.amount
  BY <1>1, UnitsOfOne
<1>5. IsFiniteSet(Units(H)) /\ Cardinality(Units(H)) = n /\ IsFiniteSet(H)
  BY DEF Holding
<1>6. IsFiniteSet(A) /\ IsFiniteSet(G)
  <2>1. A \in SUBSET Units(H) /\ G \in SUBSET H
    BY <1>2
  <2>. QED BY <1>5, <2>1, FS_Subset
<1> HIDE DEF A, B
<1>7. Cardinality(Units(H)) = Cardinality(A) + Cardinality(B) /\ Cardinality(A) \in Nat
  BY <1>2, <1>3, <1>4, <1>6, DisjointUnion, FS_CardinalityType
<1>8. /\ Cardinality(A) = n - h.amount /\ n \in Nat /\ h.amount <= n
  BY <1>1, <1>4, <1>5, <1>7
<1>9. (\A k \in G : RecordOK(k, prio)) /\ \A j, k \in G : j.proc = k.proc => j = k
  BY DEF Holding
<1> HIDE DEF G
<1>. QED BY <1>1, <1>6, <1>8, <1>9 DEF Holding, A, G

(* What there is with one more.                                            *)
LEMMA HoldingWith ==
  ASSUME NEW H, NEW prio, NEW n, Holding(H, prio, n), NEW h, RecordOK(h, prio),
         \A k \in H : k.proc # h.proc
  PROVE  Holding(H \cup {h}, prio, n + h.amount)
<1> DEFINE G == H \cup {h}
           A == Units(H)
           B == Units({h})
<1>1. Units(G) = A \cup B
  BY DEF Units
<1>2. A \cap B = {}
  BY DEF Units
<1>3. IsFiniteSet(B) /\ Cardinality(B) = h.amount
  BY UnitsOfOne
<1>4. IsFiniteSet(A) /\ Cardinality(A) = n
  BY DEF Holding
<1>5. IsFiniteSet(G)
  BY FS_AddElement DEF Holding
<1> HIDE DEF A, B
<1>6. IsFiniteSet(Units(G)) /\ Cardinality(Units(G)) = n + h.amount
  BY <1>1, <1>2, <1>3, <1>4, DisjointUnion
<1>7. (\A k \in G : RecordOK(k, prio)) /\ \A j, k \in G : j.proc = k.proc => j = k
  BY DEF Holding
<1> HIDE DEF G
<1>. QED BY <1>5, <1>6, <1>7 DEF Holding, G

(* A change of the records that is none of the amounts.                    *)
LEMMA HoldingChanged ==
  ASSUME NEW H, NEW prio, NEW n, Holding(H, prio, n), NEW T, NEW F \in [H -> T], NEW new,
         \A t \in T : \E h \in H : t = F[h],
         \A h \in H : RecordOK(F[h], new) /\ F[h].proc = h.proc /\ F[h].amount = h.amount
  PROVE  Holding(T, new, n)
<1>1. Units(T) = Units(H)
  BY DEF Units
<1>2. IsFiniteSet(T)
  <2>1. F \in Surjection(H, T)
    BY DEF Surjection
  <2>. QED BY <2>1, FS_Surjection DEF Holding
<1>3. \A t \in T : RecordOK(t, new)
  OBVIOUS
<1>4. ASSUME NEW t \in T, NEW u \in T, t.proc = u.proc PROVE t = u
  <2>1. PICK h \in H, k \in H : t = F[h] /\ u = F[k]
    OBVIOUS
  <2>2. h.proc = k.proc
    BY <1>4, <2>1
  <2>3. h = k
    BY <2>2 DEF Holding
  <2>. QED BY <2>1, <2>3
<1>. QED BY <1>1, <1>2, <1>3, <1>4 DEF Holding

LEMMA TimesCount ==
  ASSUME NEW H, IsFiniteSet(H)
  PROVE  /\ IsFiniteSet(Times(H)) /\ Cardinality(Times(H)) \in Nat
         /\ \A n : Cardinality({t \in Times(H) : t <= n}) \in Nat
<1> DEFINE F == [h \in H |-> h.since]
<1>1. F \in Surjection(H, Times(H))
  BY DEF Times, Surjection
<1> HIDE DEF F
<1>2. IsFiniteSet(Times(H))
  BY <1>1, FS_Surjection
<1>3. ASSUME NEW n PROVE Cardinality({t \in Times(H) : t <= n}) \in Nat
  <2>1. {t \in Times(H) : t <= n} \in SUBSET Times(H)
    OBVIOUS
  <2>. QED BY <1>2, <2>1, FS_Subset, FS_CardinalityType
<1>. QED BY <1>2, <1>3, FS_CardinalityType

LEMMA HoldingRenumbered ==
  ASSUME NEW H, NEW prio, NEW n, Holding(H, prio, n)
  PROVE  Holding(Renumbered(H), prio, n)
<1> DEFINE c(h) == Cardinality({t \in Times(H) : t <= h.since})
           F == [h \in H |-> [h EXCEPT !.since = c(h)]]
           T == Renumbered(H)
<1>1. \A h : c(h) \in Nat
  BY TimesCount DEF Holding
<1>2. F \in [H -> T] /\ \A t \in T : \E h \in H : t = F[h]
  BY DEF Renumbered
<1> HIDE DEF c, T
<1>3. \A h \in H : RecordOK(F[h], prio) /\ F[h].proc = h.proc /\ F[h].amount = h.amount
  BY <1>1 DEF Holding, RecordOK, HolderFields
<1> HIDE DEF F
<1>4. Holding(T, prio, n)
  BY <1>2, <1>3, HoldingChanged
<1>. QED BY <1>4 DEF T

(* The amount of the record of p becomes m.                                *)
WithAmount(H, p, m) == {IF h.proc = p THEN [h EXCEPT !.amount = m] ELSE h : h \in H}

LEMMA HoldingAmount ==
  ASSUME NEW H, NEW prio, NEW n, Holding(H, prio, n), NEW h \in H, NEW m \in Nat \ {0}
  PROVE  Holding(WithAmount(H, h.proc, m), prio, (n - h.amount) + m)
<1> DEFINE g == [h EXCEPT !.amount = m]
<1>1. WithAmount(H, h.proc, m) = (H \ {h}) \cup {g}
  BY DEF WithAmount, Holding
<1>2. RecordOK(h, prio) /\ \A k \in H \ {h} : k.proc # h.proc
  BY DEF Holding
<1>3. RecordOK(g, prio) /\ g.proc = h.proc /\ g.amount = m
  BY <1>2 DEF RecordOK, HolderFields
<1> HIDE DEF g
<1>4. Holding(H \ {h}, prio, n - h.amount)
  BY HoldingWithout
<1>5. Holding((H \ {h}) \cup {g}, prio, (n - h.amount) + g.amount)
  BY <1>2, <1>3, <1>4, HoldingWith
<1>. QED BY <1>1, <1>3, <1>5

(* Of the records of a pool, one is the weakest.                           *)
LEMMA WeakestHolder ==
  ASSUME NEW s, NEW b, NEW n, Holding(s.holders[b], s.prio, n), s.holders[b] # {},
         s.prio \in [Process -> Int]
  PROVE  Victim(s, b) \in s.holders[b]
<1> DEFINE H == s.holders[b]
           R == {x \in H \X H : Weaker(x[1], x[2])}
<1>1. Victim(s, b) = CHOOSE h \in H : \A k \in H \ {h} : Weaker(h, k)
  BY DEF Victim
<1>2. /\ \A h \in H : h.proc \in Process /\ h.prio \in Int /\ h.since \in Nat
      /\ \A h, k \in H : h.proc = k.proc => h = k
  BY DEF Holding, RecordOK
<1>3. /\ \A p \in Process : Handle[p] \in Nat
      /\ \A p, q \in Process : Handle[p] = Handle[q] => p = q
  BY PoolAssumption
<1>4. \A h, k \in H : <<h, k>> \in R <=> Weaker(h, k)
  OBVIOUS
<1> HIDE DEF H, R
<1>5. \A h, k \in H : h # k => Weaker(h, k) \/ Weaker(k, h)
  BY <1>2, <1>3 DEF Weaker
<1>6. \A h, k, l \in H : Weaker(h, k) /\ Weaker(k, l) => Weaker(h, l)
  BY <1>2, <1>3 DEF Weaker
<1>7. \A h \in H : ~Weaker(h, h)
  BY <1>2, <1>3 DEF Weaker
<1>8. K!Orders(R, H)
  BY <1>4, <1>5, <1>6, <1>7 DEF K!Orders
<1>9. K!IsFiniteSet(H) /\ H # {}
  BY SameSets DEF Holding, H
<1>10. \E h \in H : \A k \in H \ {h} : <<h, k>> \in R
  BY <1>8, <1>9, K!Earliest
<1>11. \E h \in H : \A k \in H \ {h} : Weaker(h, k)
  BY <1>4, <1>10
<1>. QED BY <1>1, <1>11 DEF H

-----------------------------------------------------------------------------
(* The fields of a state that are the pools' own, and when they agree: at  *)
(* pool b, d units are in use that nobody has on record.                   *)
Own == {"inUse", "holders", "recent", "held", "claim"}

Locals == [initial : Nat, want : Nat, rem : Nat, mug : BOOLEAN]

Has(H, p) == \E h \in H : h.proc = p

Listed(H, p, list, b) == IF Has(H, p) THEN K!Once(list, b) ELSE K!Never(list, b)

Unaccounted(b, d, c) == IF c = b THEN d ELSE 0

Balanced(prio, inUse, holders, held, claim, b, d) ==
  /\ inUse \in [Pool -> Int] /\ \A c \in Pool : inUse[c] <= Capacity[c]
  /\ DOMAIN holders = Pool
  /\ \A c \in Pool : Holding(holders[c], prio, inUse[c] - Unaccounted(b, d, c))
  /\ held \in [Process -> Seq(Pool)]
  /\ \A p \in Process, c \in Pool : Listed(holders[c], p, held[p], c)
  /\ claim \in [Process -> Locals]

Books(s, b, d) == Balanced(s.prio, s.inUse, s.holders, s.held, s.claim, b, d)

Off(s, b, d) == K!Steady(s) /\ Own \subseteq DOMAIN s /\ Books(s, b, d)

(* Between the calls all units in use are on record.                       *)
Sound(s) == Pool # {} /\ \A b \in Pool : Off(s, b, 0)

LEMMA SoundSteady ==
  ASSUME NEW s, Sound(s)
  PROVE  /\ K!Steady(s) /\ DOMAIN s.call = Process
         /\ \A p \in Process : K!CallOK(s.call[p]) /\ s.prio[p] \in Int
<1>1. K!Steady(s)
  BY DEF Sound, Off
<1>. QED BY <1>1 DEF K!Steady, K!CallsOK

LEMMA OffSound ==
  ASSUME NEW s, NEW b \in Pool, Off(s, b, 0) PROVE Sound(s)
<1> SUFFICES ASSUME NEW c \in Pool PROVE Off(s, c, 0)
  BY DEF Sound
<1>1. \A x \in Pool : Unaccounted(c, 0, x) = Unaccounted(b, 0, x)
  BY DEF Unaccounted
<1>. QED BY <1>1 DEF Off, Books, Balanced

LEMMA SoundCount ==
  ASSUME NEW s, NEW b \in Pool, NEW d, Off(s, b, d)
  PROVE  /\ s.inUse \in [Pool -> Int] /\ s.inUse[b] <= Capacity[b]
         /\ Capacity[b] \in Nat \ {0}
         /\ Holding(s.holders[b], s.prio, s.inUse[b] - d)
         /\ \A p \in Process : s.claim[p] \in Locals
         /\ s.prio \in [Process -> Int]
  BY PoolAssumption DEF Off, Books, Balanced, Unaccounted, K!Steady

(* What is not the pools' own changes.                                     *)
LEMMA ForeignOff ==
  ASSUME NEW s, NEW b, NEW d, Off(s, b, d), NEW t, K!Steady(t), K!Foreign(s, t),
         t.prio = s.prio
  PROVE  Off(t, b, d) /\ \A f \in Own : t[f] = s[f]
<1>1. \A f \in Own : f \in DOMAIN s \ K!Fields
  BY DEF Off, Own, K!Fields
<1>2. \A f \in Own : t[f] = s[f]
  BY <1>1 DEF K!Foreign
<1>3. /\ t.inUse = s.inUse /\ t.holders = s.holders /\ t.held = s.held
      /\ t.claim = s.claim
  BY <1>2 DEF Own
<1>4. Own \subseteq DOMAIN t
  BY DEF Off, K!Foreign
<1>. QED BY <1>2, <1>3, <1>4 DEF Off, Books

LEMMA CalmOff ==
  ASSUME NEW s, NEW b, NEW d, Off(s, b, d), NEW t, K!Calm(s, t)
  PROVE  Off(t, b, d) /\ \A f \in Own : t[f] = s[f]
  BY ForeignOff DEF K!Calm, K!Still, K!Aside

LEMMA ForeignSound ==
  ASSUME NEW s, Sound(s), NEW t, K!Steady(t), K!Foreign(s, t), t.prio = s.prio
  PROVE  Sound(t)
  BY ForeignOff DEF Sound

LEMMA CalmSound ==
  ASSUME NEW s, Sound(s), NEW t, K!Calm(s, t) PROVE Sound(t)
  BY CalmOff DEF Sound

-----------------------------------------------------------------------------
(* Changes of what is the pools' own.                                      *)
WithOwn(s, U, H, R, L, C) ==
  [s EXCEPT !.inUse = U, !.holders = H, !.recent = R, !.held = L, !.claim = C]

LEMMA OwnPut ==
  ASSUME NEW s, K!Steady(s), Own \subseteq DOMAIN s, NEW U, NEW H, NEW R, NEW L, NEW C,
         NEW b, NEW d, Balanced(s.prio, U, H, L, C, b, d)
  PROVE  LET t == WithOwn(s, U, H, R, L, C)
         IN  /\ Off(t, b, d)
             /\ t.inUse = U /\ t.holders = H /\ t.held = L /\ t.claim = C
             /\ t.prio = s.prio
<1> DEFINE t == WithOwn(s, U, H, R, L, C)
<1>1. DOMAIN t = DOMAIN s /\ t = [f \in DOMAIN t |-> t[f]]
  BY DEF WithOwn
<1>2. {"inUse", "holders", "recent", "held", "claim"} \subseteq DOMAIN s
  BY DEF Own
<1>3. t.inUse = U /\ t.holders = H /\ t.held = L /\ t.claim = C
  BY <1>2 DEF WithOwn
<1>4. \A f \in K!Fields : t[f] = s[f]
  BY DEF K!Steady, K!Fields, WithOwn
<1> HIDE DEF t
<1>5. K!Steady(t) /\ t.prio = s.prio
  BY <1>1, <1>4, K!ForeignSteady
<1>6. Own \subseteq DOMAIN t
  BY <1>1
<1>. QED BY <1>3, <1>5, <1>6 DEF Off, Books, t

LEMMA OwnSet ==
  ASSUME NEW s, NEW b0, NEW d0, Off(s, b0, d0), NEW U, NEW H, NEW R, NEW L, NEW C,
         NEW b, NEW d, Balanced(s.prio, U, H, L, C, b, d)
  PROVE  LET t == WithOwn(s, U, H, R, L, C)
         IN  /\ Off(t, b, d)
             /\ t.inUse = U /\ t.holders = H /\ t.held = L /\ t.claim = C
             /\ t.prio = s.prio
<1>1. K!Steady(s) /\ Own \subseteq DOMAIN s
  BY DEF Off
<1>. QED BY <1>1, OwnPut

(* A field that is not changed is set to what it is.                       *)
LEMMA OwnSame ==
  ASSUME NEW s, NEW b, NEW d, Off(s, b, d)
  PROVE  /\ \A U : [s EXCEPT !.inUse = U]
                     = WithOwn(s, U, s.holders, s.recent, s.held, s.claim)
         /\ \A H : [s EXCEPT !.holders = H]
                     = WithOwn(s, s.inUse, H, s.recent, s.held, s.claim)
         /\ \A R : [s EXCEPT !.recent = R]
                     = WithOwn(s, s.inUse, s.holders, R, s.held, s.claim)
         /\ \A C : [s EXCEPT !.claim = C]
                     = WithOwn(s, s.inUse, s.holders, s.recent, s.held, C)
<1>1. s = [f \in DOMAIN s |-> s[f]] /\ Own \subseteq DOMAIN s
  BY DEF Off, K!Steady
<1>2. ASSUME NEW U
      PROVE  [s EXCEPT !.inUse = U] = WithOwn(s, U, s.holders, s.recent, s.held, s.claim)
  BY <1>1 DEF Own, WithOwn
<1>3. ASSUME NEW H
      PROVE  [s EXCEPT !.holders = H]
               = WithOwn(s, s.inUse, H, s.recent, s.held, s.claim)
  BY <1>1 DEF Own, WithOwn
<1>4. ASSUME NEW R
      PROVE  [s EXCEPT !.recent = R]
               = WithOwn(s, s.inUse, s.holders, R, s.held, s.claim)
  BY <1>1 DEF Own, WithOwn
<1>5. ASSUME NEW C
      PROVE  [s EXCEPT !.claim = C]
               = WithOwn(s, s.inUse, s.holders, s.recent, s.held, C)
  BY <1>1 DEF Own, WithOwn
<1>. QED BY <1>2, <1>3, <1>4, <1>5

(* The locals of a call.                                                   *)
LEMMA ClaimsSet ==
  ASSUME NEW s, NEW b, NEW d, Off(s, b, d), NEW p \in Process, NEW x \in Locals
  PROVE  LET t == [s EXCEPT !.claim[p] = x] IN Off(t, b, d) /\ t.inUse = s.inUse
<1> DEFINE C == [s.claim EXCEPT ![p] = x]
<1>1. Books(s, b, d)
  BY DEF Off
<1>2. C \in [Process -> Locals]
  BY <1>1 DEF Books, Balanced
<1> HIDE DEF C
<1>3. Balanced(s.prio, s.inUse, s.holders, s.held, C, b, d)
  BY <1>1, <1>2 DEF Books, Balanced
<1>4. /\ Off(WithOwn(s, s.inUse, s.holders, s.recent, s.held, C), b, d)
      /\ WithOwn(s, s.inUse, s.holders, s.recent, s.held, C).inUse = s.inUse
  BY <1>3, OwnSet
<1>5. [s EXCEPT !.claim[p] = x] = [s EXCEPT !.claim = C]
  BY DEF C
<1>6. [s EXCEPT !.claim = C] = WithOwn(s, s.inUse, s.holders, s.recent, s.held, C)
  BY OwnSame
<1>. QED BY <1>4, <1>5, <1>6

LEMMA RecentSet ==
  ASSUME NEW s, Sound(s), NEW R PROVE Sound([s EXCEPT !.recent = R])
<1> SUFFICES ASSUME NEW b \in Pool PROVE Off([s EXCEPT !.recent = R], b, 0)
  BY DEF Sound
<1>1. Off(s, b, 0) /\ Balanced(s.prio, s.inUse, s.holders, s.held, s.claim, b, 0)
  BY DEF Sound, Off, Books
<1>2. Off(WithOwn(s, s.inUse, s.holders, R, s.held, s.claim), b, 0)
  BY <1>1, OwnSet
<1>. QED BY <1>1, <1>2, OwnSame

(* The count is corrected by the units that nobody has on record.          *)
LEMMA UseSet ==
  ASSUME NEW s, NEW b \in Pool, NEW d \in Int, Off(s, b, d), NEW n,
         n = s.inUse[b] - d, n <= Capacity[b]
  PROVE  LET t == [s EXCEPT !.inUse[b] = n] IN Sound(t) /\ t.holders = s.holders
<1> DEFINE U == [s.inUse EXCEPT ![b] = n]
<1>1. /\ Books(s, b, d) /\ s.inUse \in [Pool -> Int] /\ n \in Int
  <2>1. Books(s, b, d) /\ s.inUse \in [Pool -> Int]
    BY DEF Off, Books, Balanced
  <2>. QED BY <2>1
<1>2. U \in [Pool -> Int] /\ U[b] = n /\ \A c \in Pool : c # b => U[c] = s.inUse[c]
  BY <1>1
<1> HIDE DEF U
<1>3. \A c \in Pool : U[c] <= Capacity[c]
  BY <1>1, <1>2 DEF Books, Balanced
<1>4. \A c \in Pool : U[c] - Unaccounted(b, 0, c) = s.inUse[c] - Unaccounted(b, d, c)
  BY <1>1, <1>2 DEF Unaccounted
<1>5. Balanced(s.prio, U, s.holders, s.held, s.claim, b, 0)
  BY <1>1, <1>2, <1>3, <1>4 DEF Books, Balanced
<1>6. /\ Off(WithOwn(s, U, s.holders, s.recent, s.held, s.claim), b, 0)
      /\ WithOwn(s, U, s.holders, s.recent, s.held, s.claim).holders = s.holders
  BY <1>5, OwnSet
<1>7. [s EXCEPT !.inUse[b] = n] = [s EXCEPT !.inUse = U]
  BY DEF U
<1>8. [s EXCEPT !.inUse = U] = WithOwn(s, U, s.holders, s.recent, s.held, s.claim)
  BY OwnSame
<1>. QED BY <1>6, <1>7, <1>8, OffSound

-----------------------------------------------------------------------------
(* What a process has on record.                                           *)
LEMMA HasRecord ==
  ASSUME NEW s, NEW p, NEW b PROVE Record(s, p, b) # {} <=> Has(s.holders[b], p)
  BY DEF Record, Has

LEMMA TheRecord ==
  ASSUME NEW s, NEW b \in Pool, NEW d, Off(s, b, d), NEW p, Record(s, p, b) # {}
  PROVE  \E h \in s.holders[b] :
           /\ h.proc = p /\ Record(s, p, b) = {h} /\ Held(s, p, b) = h.amount
           /\ h.amount \in Nat \ {0} /\ p \in Process
<1>1. Holding(s.holders[b], s.prio, s.inUse[b] - d)
  BY SoundCount
<1>2. PICK h \in s.holders[b] : h.proc = p
  BY DEF Record
<1>3. Record(s, p, b) = {h}
  BY <1>1, <1>2 DEF Record, Holding
<1>4. (CHOOSE k \in {h} : TRUE) = h
  OBVIOUS
<1>5. Held(s, p, b) = h.amount
  BY <1>3, <1>4 DEF Held
<1>6. h.amount \in Nat \ {0} /\ h.proc \in Process
  BY <1>1 DEF Holding, RecordOK
<1>. QED BY <1>2, <1>3, <1>5, <1>6

LEMMA HeldNatural ==
  ASSUME NEW s, NEW b \in Pool, NEW d, Off(s, b, d), NEW p
  PROVE  Held(s, p, b) \in Nat /\ (Held(s, p, b) = 0 <=> Record(s, p, b) = {})
<1>1. CASE Record(s, p, b) = {}
  BY <1>1 DEF Held
<1>2. CASE Record(s, p, b) # {}
  <2>1. PICK h \in s.holders[b] : Held(s, p, b) = h.amount /\ h.amount \in Nat \ {0}
    BY <1>2, TheRecord
  <2>. QED BY <1>2, <2>1
<1>. QED BY <1>1, <1>2

LEMMA HasRenumbered ==
  ASSUME NEW H, NEW prio, NEW n, Holding(H, prio, n)
  PROVE  \A p : Has(Renumbered(H), p) <=> Has(H, p)
<1> DEFINE c(h) == Cardinality({t \in Times(H) : t <= h.since})
<1>1. Renumbered(H) = {[h EXCEPT !.since = c(h)] : h \in H}
  BY DEF Renumbered
<1> HIDE DEF c
<1>2. \A h \in H : [h EXCEPT !.since = c(h)].proc = h.proc
  BY DEF Holding, RecordOK, HolderFields
<1>. QED BY <1>1, <1>2 DEF Has

LEMMA HasAmount ==
  ASSUME NEW H, NEW prio, NEW n, Holding(H, prio, n), NEW q, NEW m
  PROVE  \A p : Has(WithAmount(H, q, m), p) <=> Has(H, p)
<1>1. \A h \in H : (IF h.proc = q THEN [h EXCEPT !.amount = m] ELSE h).proc = h.proc
  BY DEF Holding, RecordOK, HolderFields
<1>. QED BY <1>1 DEF Has, WithAmount

(* Both records of a holder are deleted: its units are on no record.       *)
LEMMA ForgetOff ==
  ASSUME NEW s, NEW b \in Pool, NEW d \in Int, Off(s, b, d), NEW p \in Process,
         Record(s, p, b) # {}
  PROVE  LET t == Forget(s, p, b)
         IN  /\ Off(t, b, d + Held(s, p, b)) /\ t.inUse = s.inUse /\ t.claim = s.claim
             /\ t.prio = s.prio /\ Record(t, p, b) = {}
             /\ \A q \in Process, c \in Pool : Record(s, q, c) = {} => Record(t, q, c) = {}
<1> DEFINE n == Held(s, p, b)
           G == s.holders[b] \ Record(s, p, b)
           H == [s.holders EXCEPT ![b] = Renumbered(G)]
           R == [s.recent EXCEPT ![b] = s.recent[b] \ {p}]
           L == [s.held EXCEPT ![p] = K!Unlink(s.held[p], b)]
           t == WithOwn(s, s.inUse, H, R, L, s.claim)
<1>1. Forget(s, p, b) = t
  <2>1. Unlink(s.held[p], b) = K!Unlink(s.held[p], b)
    BY SameCalls
  <2>2. Forget(s, p, b) = [s EXCEPT !.held = L, !.holders = H, !.recent = R]
    BY <2>1 DEF Forget, RemoveHoldable
  <2> HIDE DEF H, L, R
  <2>3. [s EXCEPT !.held = L, !.holders = H, !.recent = R] = t
    <3>1. s = [f \in DOMAIN s |-> s[f]] /\ Own \subseteq DOMAIN s
      BY DEF Off, K!Steady
    <3>. QED BY <3>1 DEF Own, WithOwn
  <2>. QED BY <2>2, <2>3
<1>2. /\ DOMAIN s.holders = Pool /\ s.held \in [Process -> Seq(Pool)]
      /\ \A c \in Pool : Holding(s.holders[c], s.prio, s.inUse[c] - Unaccounted(b, d, c))
      /\ \A q \in Process, c \in Pool : Listed(s.holders[c], q, s.held[q], c)
      /\ s.inUse \in [Pool -> Int] /\ \A c \in Pool : s.inUse[c] <= Capacity[c]
      /\ s.claim \in [Process -> Locals]
  BY DEF Off, Books, Balanced
<1>3. PICK h \in s.holders[b] : /\ h.proc = p /\ Record(s, p, b) = {h} /\ n = h.amount
                                /\ h.amount \in Nat \ {0}
  BY TheRecord
<1>4. Holding(G, s.prio, (s.inUse[b] - d) - n)
  <2>1. Holding(s.holders[b], s.prio, s.inUse[b] - d)
    BY SoundCount
  <2>. QED BY <1>3, <2>1, HoldingWithout
<1>5. \A q : Has(G, q) <=> q # p /\ Has(s.holders[b], q)
  BY <1>3 DEF Has, Record
<1> HIDE DEF G, n
<1>6. Holding(Renumbered(G), s.prio, s.inUse[b] - (d + n))
  <2>1. (s.inUse[b] - d) - n = s.inUse[b] - (d + n)
    BY <1>2, <1>3
  <2>. QED BY <1>4, <2>1, HoldingRenumbered
<1>7. \A q : Has(Renumbered(G), q) <=> q # p /\ Has(s.holders[b], q)
  BY <1>4, <1>5, HasRenumbered
<1>8. DOMAIN H = Pool /\ H[b] = Renumbered(G) /\ \A c \in Pool : c # b => H[c] = s.holders[c]
  BY <1>2
<1>9. K!Unlink(s.held[p], b) \in Seq(Pool)
  BY <1>2, K!UnlinkKeeps
<1>10. /\ L \in [Process -> Seq(Pool)] /\ L[p] = K!Unlink(s.held[p], b)
       /\ \A q \in Process : q # p => L[q] = s.held[q]
  BY <1>2, <1>9
<1>11. \A q \in Process, c \in Pool : Has(H[c], q) => Has(s.holders[c], q)
  BY <1>7, <1>8
<1>12. ~Has(H[b], p)
  BY <1>7, <1>8
<1> HIDE DEF H, L, R
<1>13. ASSUME NEW q \in Process, NEW c \in Pool PROVE Listed(H[c], q, L[q], c)
  <2>1. Listed(s.holders[c], q, s.held[q], c) /\ s.held[q] \in Seq(Pool)
    BY <1>2
  <2>2. CASE q # p
    <3>1. Has(H[c], q) <=> Has(s.holders[c], q)
      BY <1>7, <1>8, <2>2
    <3>. QED BY <1>10, <2>1, <2>2, <3>1 DEF Listed
  <2>3. CASE q = p /\ c # b
    <3>1. H[c] = s.holders[c] /\ L[q] = K!Unlink(s.held[q], b)
      BY <1>8, <1>10, <2>3
    <3>2. /\ K!Never(s.held[q], c) => K!Never(L[q], c)
          /\ K!Once(s.held[q], c) => K!Once(L[q], c)
      BY <2>1, <2>3, <3>1, K!UnlinkKeeps
    <3>. QED BY <2>1, <3>1, <3>2 DEF Listed
  <2>4. CASE q = p /\ c = b
    <3>1. K!Once(s.held[p], b) \/ K!Never(s.held[p], b)
      BY <2>1, <2>4 DEF Listed
    <3>2. K!Never(L[q], c)
      BY <1>10, <2>1, <2>4, <3>1, K!UnlinkKeeps
    <3>. QED BY <1>12, <2>4, <3>2 DEF Listed
  <2>. QED BY <2>2, <2>3, <2>4
<1>14. ASSUME NEW c \in Pool
       PROVE  Holding(H[c], s.prio, s.inUse[c] - Unaccounted(b, d + n, c))
  <2>1. CASE c = b
    BY <1>6, <1>8, <2>1 DEF Unaccounted
  <2>2. CASE c # b
    BY <1>2, <1>8, <2>2 DEF Unaccounted
  <2>. QED BY <2>1, <2>2
<1>15. Balanced(s.prio, s.inUse, H, L, s.claim, b, d + n)
  BY <1>2, <1>8, <1>10, <1>13, <1>14 DEF Balanced
<1>16. /\ Off(t, b, d + n) /\ t.inUse = s.inUse /\ t.holders = H /\ t.claim = s.claim
       /\ t.prio = s.prio
  BY <1>15, OwnSet
<1> HIDE DEF t
<1>17. Record(t, p, b) = {}
  BY <1>12, <1>16, HasRecord
<1>18. \A q \in Process, c \in Pool : Record(s, q, c) = {} => Record(t, q, c) = {}
  BY <1>11, <1>16, HasRecord
<1>. QED BY <1>1, <1>16, <1>17, <1>18 DEF n

(* Its amount changes.                                                     *)
LEMMA AmountOff ==
  ASSUME NEW s, NEW b \in Pool, NEW d \in Int, Off(s, b, d), NEW p \in Process,
         Record(s, p, b) # {}, NEW m \in Nat \ {0}
  PROVE  LET t == Amount(s, p, b, m)
         IN  /\ Off(t, b, (d + Held(s, p, b)) - m) /\ t.inUse = s.inUse
             /\ t.claim = s.claim
<1> DEFINE n == Held(s, p, b)
           e == (d + n) - m
           G == WithAmount(s.holders[b], p, m)
           H == [s.holders EXCEPT ![b] = G]
           t == WithOwn(s, s.inUse, H, s.recent, s.held, s.claim)
<1>1. Amount(s, p, b, m) = t
  <2>1. Amount(s, p, b, m) = [s EXCEPT !.holders = H]
    BY DEF Amount, WithAmount
  <2>. QED BY <2>1, OwnSame
<1>2. /\ DOMAIN s.holders = Pool /\ s.held \in [Process -> Seq(Pool)]
      /\ \A c \in Pool : Holding(s.holders[c], s.prio, s.inUse[c] - Unaccounted(b, d, c))
      /\ \A q \in Process, c \in Pool : Listed(s.holders[c], q, s.held[q], c)
      /\ s.inUse \in [Pool -> Int] /\ \A c \in Pool : s.inUse[c] <= Capacity[c]
      /\ s.claim \in [Process -> Locals]
  BY DEF Off, Books, Balanced
<1>3. PICK h \in s.holders[b] : h.proc = p /\ n = h.amount /\ h.amount \in Nat \ {0}
  BY TheRecord
<1>4. Holding(s.holders[b], s.prio, s.inUse[b] - d)
  BY SoundCount
<1>5. \A q : Has(G, q) <=> Has(s.holders[b], q)
  BY <1>4, HasAmount
<1>6. Holding(G, s.prio, ((s.inUse[b] - d) - n) + m)
  BY <1>3, <1>4, HoldingAmount
<1> HIDE DEF G, n
<1>7. ((s.inUse[b] - d) - n) + m = s.inUse[b] - e
  BY <1>2, <1>3
<1> HIDE DEF e
<1>8. DOMAIN H = Pool /\ H[b] = G /\ \A c \in Pool : c # b => H[c] = s.holders[c]
  BY <1>2
<1> HIDE DEF H
<1>9. \A q \in Process, c \in Pool : Listed(H[c], q, s.held[q], c)
  BY <1>2, <1>5, <1>8 DEF Listed
<1>10. \A c \in Pool : Holding(H[c], s.prio, s.inUse[c] - Unaccounted(b, e, c))
  BY <1>2, <1>6, <1>7, <1>8 DEF Unaccounted
<1>11. Balanced(s.prio, s.inUse, H, s.held, s.claim, b, e)
  BY <1>2, <1>8, <1>9, <1>10 DEF Balanced
<1>12. Off(t, b, e) /\ t.inUse = s.inUse /\ t.claim = s.claim
  BY <1>11, OwnSet
<1> HIDE DEF t
<1>. QED BY <1>1, <1>12 DEF e, n

(* A new record of p.                                                      *)
NewRecord(p, n, pri, now) == [proc |-> p, amount |-> n, prio |-> pri, since |-> now]

LEMMA SinceNatural ==
  ASSUME NEW s, NEW b \in Pool, NEW d, Off(s, b, d) PROVE Since(s, b) \in Nat
<1>1. Cardinality(Times(s.holders[b])) \in Nat
  BY SoundCount, TimesCount DEF Holding
<1>. QED BY <1>1 DEF Since

LEMMA TakeOff ==
  ASSUME NEW s, NEW b \in Pool, NEW d \in Int, Off(s, b, d), NEW p \in Process,
         NEW n \in Nat \ {0}
  PROVE  LET t == Take(s, p, b, n)
         IN  Off(t, b, d - n) /\ t.inUse = s.inUse /\ t.claim = s.claim
<1>1. CASE Record(s, p, b) # {}
  <2> DEFINE m == Held(s, p, b)
             t == Amount(s, p, b, m + n)
  <2>1. Take(s, p, b, n) = t
    BY <1>1 DEF Take
  <2>2. m \in Nat
    BY HeldNatural
  <2>3. Off(t, b, (d + m) - (m + n)) /\ t.inUse = s.inUse /\ t.claim = s.claim
    <3>1. m + n \in Nat \ {0}
      BY <2>2
    <3>. QED BY <1>1, <3>1, AmountOff
  <2> HIDE DEF t, m
  <2>4. (d + m) - (m + n) = d - n
    BY <2>2
  <2>. QED BY <2>1, <2>3, <2>4
<1>2. CASE Record(s, p, b) = {}
  <2> DEFINE e == d - n
             now == Since(s, b)
             r == NewRecord(p, n, s.prio[p], now)
             G == s.holders[b] \cup {r}
             H == [s.holders EXCEPT ![b] = G]
             R == [s.recent EXCEPT ![b] = s.recent[b] \cup {p}]
             L == [s.held EXCEPT ![p] = <<b>> \o s.held[p]]
             t == WithOwn(s, s.inUse, H, R, L, s.claim)
  <2>1. Take(s, p, b, n) = t
    <3>1. Take(s, p, b, n) = [s EXCEPT !.held = L, !.recent = R, !.holders = H]
      BY <1>2 DEF Take, NewRecord
    <3> HIDE DEF H, L, R
    <3>2. s = [f \in DOMAIN s |-> s[f]] /\ Own \subseteq DOMAIN s
      BY DEF Off, K!Steady
    <3>3. [s EXCEPT !.held = L, !.recent = R, !.holders = H] = t
      BY <3>2 DEF Own, WithOwn
    <3>. QED BY <3>1, <3>3
  <2>2. /\ DOMAIN s.holders = Pool /\ s.held \in [Process -> Seq(Pool)]
        /\ \A c \in Pool : Holding(s.holders[c], s.prio, s.inUse[c] - Unaccounted(b, d, c))
        /\ \A q \in Process, c \in Pool : Listed(s.holders[c], q, s.held[q], c)
        /\ s.inUse \in [Pool -> Int] /\ \A c \in Pool : s.inUse[c] <= Capacity[c]
        /\ s.claim \in [Process -> Locals]
    BY DEF Off, Books, Balanced
  <2>3. now \in Nat
    BY SinceNatural
  <2> HIDE DEF now
  <2>4. RecordOK(r, s.prio) /\ r.proc = p /\ r.amount = n
    BY <2>3 DEF RecordOK, HolderFields, NewRecord
  <2> HIDE DEF r
  <2>5. ~Has(s.holders[b], p)
    BY <1>2, HasRecord
  <2>6. Holding(G, s.prio, (s.inUse[b] - d) + n)
    <3>1. Holding(s.holders[b], s.prio, s.inUse[b] - d)
      BY SoundCount
    <3>2. \A k \in s.holders[b] : k.proc # r.proc
      BY <2>4, <2>5 DEF Has
    <3>. QED BY <2>4, <3>1, <3>2, HoldingWith
  <2>7. \A q : Has(G, q) <=> q = p \/ Has(s.holders[b], q)
    BY <2>4 DEF Has
  <2> HIDE DEF G
  <2>8. (s.inUse[b] - d) + n = s.inUse[b] - e
    BY <2>2
  <2> HIDE DEF e
  <2>9. DOMAIN H = Pool /\ H[b] = G /\ \A c \in Pool : c # b => H[c] = s.holders[c]
    BY <2>2
  <2>10. <<b>> \o s.held[p] \in Seq(Pool)
    BY <2>2, K!PrependKeeps
  <2>11. /\ L \in [Process -> Seq(Pool)] /\ L[p] = <<b>> \o s.held[p]
         /\ \A q \in Process : q # p => L[q] = s.held[q]
    BY <2>2, <2>10
  <2> HIDE DEF H, L, R
  <2>12. ASSUME NEW q \in Process, NEW c \in Pool PROVE Listed(H[c], q, L[q], c)
    <3>1. Listed(s.holders[c], q, s.held[q], c) /\ s.held[q] \in Seq(Pool)
      BY <2>2
    <3>2. CASE q # p
      <4>1. Has(H[c], q) <=> Has(s.holders[c], q)
        BY <2>7, <2>9, <3>2
      <4>. QED BY <2>11, <3>1, <3>2, <4>1 DEF Listed
    <3>3. CASE q = p /\ c # b
      <4>1. H[c] = s.holders[c] /\ L[q] = <<b>> \o s.held[q]
        BY <2>9, <2>11, <3>3
      <4>2. /\ K!Never(s.held[q], c) => K!Never(L[q], c)
            /\ K!Once(s.held[q], c) => K!Once(L[q], c)
        BY <3>1, <3>3, <4>1, K!PrependKeeps
      <4>. QED BY <3>1, <4>1, <4>2 DEF Listed
    <3>4. CASE q = p /\ c = b
      <4>1. K!Never(s.held[p], b) /\ Has(H[c], q)
        BY <2>5, <2>7, <2>9, <3>1, <3>4 DEF Listed
      <4>2. K!Once(L[q], c)
        BY <2>11, <3>1, <3>4, <4>1, K!PrependKeeps
      <4>. QED BY <4>1, <4>2 DEF Listed
    <3>. QED BY <3>2, <3>3, <3>4
  <2>13. \A c \in Pool : Holding(H[c], s.prio, s.inUse[c] - Unaccounted(b, e, c))
    BY <2>2, <2>6, <2>8, <2>9 DEF Unaccounted
  <2>14. Balanced(s.prio, s.inUse, H, L, s.claim, b, e)
    BY <2>2, <2>9, <2>11, <2>12, <2>13 DEF Balanced
  <2>15. Off(t, b, e) /\ t.inUse = s.inUse /\ t.claim = s.claim
    BY <2>14, OwnSet
  <2> HIDE DEF t
  <2>. QED BY <2>1, <2>15 DEF e
<1>. QED BY <1>1, <1>2

-----------------------------------------------------------------------------
(* The calls of the pools.                                                 *)
LEMMA ClaimAmounts ==
  ASSUME NEW c \in Locals
  PROVE  /\ c.initial \in Nat /\ c.rem \in Nat
         /\ \A n \in Nat : n <= c.rem => [c EXCEPT !.rem = c.rem - n] \in Locals
<1>1. c.initial \in Nat /\ c.rem \in Nat
  BY DEF Locals
<1>2. ASSUME NEW n \in Nat, n <= c.rem PROVE [c EXCEPT !.rem = c.rem - n] \in Locals
  <2>1. c.rem - n \in Nat
    BY <1>1, <1>2
  <2>. QED BY <2>1 DEF Locals
<1>. QED BY <1>1, <1>2

LEMMA TookOff ==
  ASSUME NEW s, NEW b \in Pool, NEW d \in Int, Off(s, b, d), NEW p \in Process,
         NEW n \in Nat \ {0}, n <= s.claim[p].rem
  PROVE  LET t == Took(s, p, b, n) IN Off(t, b, d - n) /\ t.inUse = s.inUse
<1> DEFINE u == Take(s, p, b, n)
           c == s.claim[p]
           x == [c EXCEPT !.rem = c.rem - n]
           t == [u EXCEPT !.claim[p] = x]
<1>1. Off(u, b, d - n) /\ u.inUse = s.inUse /\ u.claim = s.claim
  BY TakeOff
<1>2. Took(s, p, b, n) = t
  BY <1>1 DEF Took
<1>3. x \in Locals
  BY SoundCount, ClaimAmounts
<1> HIDE DEF u, x
<1>4. Off(t, b, d - n) /\ t.inUse = u.inUse
  BY <1>1, <1>3, ClaimsSet
<1>. QED BY <1>1, <1>2, <1>4

LEMMA RingSound ==
  ASSUME NEW s, Sound(s), NEW b \in Pool
  PROVE  LET t == Signal(s, b) IN Sound(t) /\ t.holders = s.holders
<1> DEFINE t == K!Signal(s, b)
<1>1. K!Steady(s) /\ Off(s, b, 0)
  BY DEF Sound, Off
<1>2. K!Calm(s, t) /\ Signal(s, b) = t
  BY <1>1, K!SignalCalm, SameRing
<1> HIDE DEF t
<1>3. Sound(t) /\ t.holders = s.holders
  BY <1>1, <1>2, CalmSound, CalmOff DEF Own
<1>. QED BY <1>2, <1>3

(* Somebody loses all it holds, and who preempts it takes what it needs.   *)
LEMMA MuggedSound ==
  ASSUME NEW s, NEW b \in Pool, Sound(s), NEW p \in Process, s.holders[b] # {},
         s.claim[p].rem > 0
  PROVE  Sound(Mugged(s, p, b))
<1> DEFINE h == Victim(s, b)
           q == h.proc
           n == Least(h.amount, s.claim[p].rem)
           a == Forget(s, q, b)
           c == K!CancelAwaiteds(a, q)
           e == [c EXCEPT !.untold = [c.untold EXCEPT ![q] = c.untold[q] \cup {b}]]
           f == K!Schedule(e, "interrupt", q, 0, "preempted", 0, s.prio[q])
           g == Took(f, p, b, n)
           left == g.inUse[b] - (h.amount - n)
           t == [g EXCEPT !.inUse[b] = left]
<1>1. Mugged(s, p, b) = t
  BY SameCancelAwaiteds, SameCalls DEF Mugged
<1>2. Off(s, b, 0) /\ Holding(s.holders[b], s.prio, s.inUse[b] - 0)
  BY SoundCount DEF Sound
<1>3. /\ s.inUse \in [Pool -> Int] /\ s.inUse[b] <= Capacity[b] /\ Capacity[b] \in Nat
      /\ s.claim[p] \in Locals /\ s.prio \in [Process -> Int]
  BY <1>2, SoundCount
<1>4. h \in s.holders[b]
  BY <1>2, <1>3, WeakestHolder
<1>5. h.amount \in Nat \ {0} /\ q \in Process
  BY <1>2, <1>4 DEF Holding, RecordOK
<1>6. Record(s, q, b) # {} /\ Held(s, q, b) = h.amount
  <2>1. h \in Record(s, q, b)
    BY <1>4 DEF Record
  <2>2. PICK k \in s.holders[b] : Record(s, q, b) = {k} /\ Held(s, q, b) = k.amount
    BY <1>2, <2>1, TheRecord
  <2>. QED BY <2>1, <2>2
<1>7. n \in Nat \ {0} /\ n <= s.claim[p].rem /\ n <= h.amount
  BY <1>3, <1>5, ClaimAmounts DEF Least
<1>8. s.prio[q] \in Int
  BY <1>3, <1>5
<1> HIDE DEF n, h
<1> DEFINE m == h.amount
<1>9. Off(a, b, m) /\ a.inUse = s.inUse /\ a.claim = s.claim
  <2>1. Off(a, b, 0 + Held(s, q, b)) /\ a.inUse = s.inUse /\ a.claim = s.claim
    BY <1>2, <1>5, <1>6, ForgetOff
  <2>2. 0 + Held(s, q, b) = m
    BY <1>5, <1>6
  <2> HIDE DEF a, m
  <2>. QED BY <2>1, <2>2
<1> HIDE DEF a, m
<1>10. K!Calm(a, c)
  BY <1>5, <1>9, K!CancelAwaitedsCalm DEF Off
<1> HIDE DEF c
<1>11. K!Steady(c)
  BY <1>10 DEF K!Calm
<1>12. K!Calm(c, e)
  BY <1>11, K!FreeSet
<1> HIDE DEF e
<1>13. K!Steady(e) /\ "interrupt" \in K!Kinds
  BY <1>12 DEF K!Calm, K!Kinds
<1>14. K!Calm(e, f)
  BY <1>5, <1>8, <1>13, K!ScheduleCalm
<1> HIDE DEF f
<1>15. K!Calm(a, f)
  BY <1>10, <1>12, <1>14, K!CalmTransitive
<1>16. Off(f, b, m) /\ f.inUse = s.inUse /\ f.claim = s.claim
  BY <1>9, <1>15, CalmOff DEF Own
<1>17. Off(g, b, m - n) /\ g.inUse = s.inUse
  <2>1. n <= f.claim[p].rem /\ m \in Int
    BY <1>5, <1>7, <1>16 DEF m
  <2>. QED BY <1>7, <1>16, <2>1, TookOff
<1> HIDE DEF g
<1>18. left = g.inUse[b] - (m - n) /\ m - n \in Int /\ left <= Capacity[b]
  BY <1>3, <1>5, <1>7, <1>17 DEF m
<1> HIDE DEF left
<1>19. Sound(t)
  BY <1>17, <1>18, UseSet
<1> HIDE DEF t
<1>. QED BY <1>1, <1>19

(* What holds at first and holds on from each number to the next holds at  *)
(* the last one.                                                           *)
LEMMA Stepwise ==
  ASSUME NEW n \in Nat, NEW S, 0 \in S, \A i \in 1..n : i - 1 \in S => i \in S
  PROVE  n \in S
<1> DEFINE T == {i \in 0..n : i \notin S}
<1> SUFFICES ASSUME T # {} PROVE FALSE
  OBVIOUS
<1>1. T \in SUBSET Nat
  OBVIOUS
<1>2. PICK x \in T : \A y \in T : x <= y
  BY <1>1, K!LeastNatural
<1>3. x \in 1..n /\ x \notin S /\ x - 1 \in 0..n /\ ~(x <= x - 1)
  BY <1>2
<1>4. x - 1 \in S
  BY <1>2, <1>3
<1>. QED BY <1>3, <1>4

(* One turn of the loop in which p takes units of a pool from their        *)
(* holders, and of the loop in which it drops what it has in its list; and *)
(* the function that goes from turn to turn.                               *)
Fleeced(t, p, b) ==
  IF /\ t.claim[p].rem > 0
     /\ t.holders[b] # {}
     /\ Victim(t, b).prio < t.prio[p]
  THEN Mugged(t, p, b) ELSE t

Turn(t, p, b, bs, i) == IF bs = <<>> THEN Fleeced(t, p, b) ELSE DropHolder(t, p, bs[i])

Goes(s, p, b, bs, f, n) ==
  f = [i \in 0..n |-> IF i = 0 THEN s ELSE Turn(f[i - 1], p, b, bs, i)]

Fleeces(s, p, b, f, n) ==
  f = [i \in 0..n |-> IF i = 0 THEN s ELSE Fleeced(f[i - 1], p, b)]

Drops(s, p, bs, f, n) ==
  f = [i \in 0..n |-> IF i = 0 THEN s ELSE DropHolder(f[i - 1], p, bs[i])]

LEMMA GoesOn ==
  ASSUME NEW s, NEW p, NEW b, NEW bs, NEW m \in Nat, NEW f, Goes(s, p, b, bs, f, m)
  PROVE  \E g : Goes(s, p, b, bs, g, m + 1)
<1> DEFINE Step(t, i) == Turn(t, p, b, bs, i)
           g == [i \in 0..m + 1 |-> IF i = m + 1 THEN Step(f[m], m + 1) ELSE f[i]]
<1>1. f = [i \in 0..m |-> IF i = 0 THEN s ELSE Step(f[i - 1], i)]
  BY DEF Goes
<1> HIDE DEF Step
<1>2. \A i \in 0..m : f[i] = IF i = 0 THEN s ELSE Step(f[i - 1], i)
  BY <1>1
<1>3. ASSUME NEW i \in 0..m + 1
      PROVE  g[i] = IF i = 0 THEN s ELSE Step(g[i - 1], i)
  <2>1. CASE i = 0
    <3>1. g[0] = f[0] /\ f[0] = s
      BY <1>2
    <3>. QED BY <2>1, <3>1
  <2>2. CASE i \in 1..m
    <3>1. i \in 0..m /\ i - 1 \in 0..m /\ i # 0 /\ i # m + 1 /\ i - 1 # m + 1
      BY <2>2
    <3>2. g[i] = f[i] /\ g[i - 1] = f[i - 1]
      BY <3>1
    <3>. QED BY <1>2, <3>1, <3>2
  <2>3. CASE i = m + 1
    <3>1. g[m + 1] = Step(f[m], m + 1) /\ g[m] = f[m] /\ (m + 1) - 1 = m /\ m + 1 # 0
      OBVIOUS
    <3>. QED BY <2>3, <3>1
  <2>. QED BY <2>1, <2>2, <2>3
<1>4. g = [i \in 0..m + 1 |-> g[i]]
  OBVIOUS
<1> HIDE DEF g
<1>5. g = [i \in 0..m + 1 |-> IF i = 0 THEN s ELSE Step(g[i - 1], i)]
  BY <1>3, <1>4
<1>. QED BY <1>5 DEF Goes, Step

LEMMA GoesThrough ==
  ASSUME NEW s, NEW p, NEW b, NEW bs, NEW n \in Nat
  PROVE  \E f : Goes(s, p, b, bs, f, n)
<1> DEFINE S == {m \in Nat : \E f : Goes(s, p, b, bs, f, m)}
<1>1. 0 \in S
  <2> DEFINE f == [i \in 0..0 |-> s]
  <2>1. Goes(s, p, b, bs, f, 0)
    BY DEF Goes
  <2>. QED BY <2>1
<1>2. ASSUME NEW i \in 1..n, i - 1 \in S PROVE i \in S
  <2>1. i - 1 \in Nat /\ (i - 1) + 1 = i /\ i \in Nat
    OBVIOUS
  <2>2. PICK f : Goes(s, p, b, bs, f, i - 1)
    BY <1>2
  <2>3. \E g : Goes(s, p, b, bs, g, (i - 1) + 1)
    BY <2>1, <2>2, GoesOn
  <2>. QED BY <2>1, <2>3
<1> HIDE DEF S
<1>3. n \in S
  BY <1>1, <1>2, Stepwise
<1>. QED BY <1>3 DEF S

LEMMA FleecedSteps ==
  ASSUME NEW s, NEW p, NEW b, NEW n \in Nat
  PROVE  LET f == CHOOSE f : Fleeces(s, p, b, f, n)
         IN  f[0] = s /\ \A i \in 1..n : f[i] = Fleeced(f[i - 1], p, b)
<1> DEFINE f == CHOOSE f : Fleeces(s, p, b, f, n)
<1>1. \E g : Fleeces(s, p, b, g, n)
  <2>1. PICK g : Goes(s, p, b, <<>>, g, n)
    BY GoesThrough
  <2>2. Fleeces(s, p, b, g, n)
    BY <2>1 DEF Goes, Fleeces, Turn
  <2>. QED BY <2>2
<1>2. Fleeces(s, p, b, f, n)
  BY <1>1
<1> HIDE DEF f
<1>3. \A i \in 0..n : f[i] = IF i = 0 THEN s ELSE Fleeced(f[i - 1], p, b)
  BY <1>2 DEF Fleeces
<1>4. 0 \in 0..n /\ \A i \in 1..n : i \in 0..n /\ i # 0
  OBVIOUS
<1>. QED BY <1>3, <1>4 DEF f

LEMMA DroppedSteps ==
  ASSUME NEW s, NEW p, NEW bs, NEW n \in Nat, n > 0 => bs # <<>>
  PROVE  LET f == CHOOSE f : Drops(s, p, bs, f, n)
         IN  f[0] = s /\ \A i \in 1..n : f[i] = DropHolder(f[i - 1], p, bs[i])
<1> DEFINE f == CHOOSE f : Drops(s, p, bs, f, n)
<1>1. \E g : Drops(s, p, bs, g, n)
  <2>1. PICK g : Goes(s, p, NoOne, bs, g, n)
    BY GoesThrough
  <2>2. \A i \in 0..n : i # 0 => Turn(g[i - 1], p, NoOne, bs, i) = DropHolder(g[i - 1], p, bs[i])
    BY DEF Turn
  <2>3. g = [i \in 0..n |-> IF i = 0 THEN s ELSE Turn(g[i - 1], p, NoOne, bs, i)]
    BY <2>1 DEF Goes
  <2>4. g = [i \in 0..n |-> IF i = 0 THEN s ELSE DropHolder(g[i - 1], p, bs[i])]
    BY <2>2, <2>3
  <2>. QED BY <2>4 DEF Drops
<1>2. Drops(s, p, bs, f, n)
  BY <1>1
<1> HIDE DEF f
<1>3. \A i \in 0..n : f[i] = IF i = 0 THEN s ELSE DropHolder(f[i - 1], p, bs[i])
  BY <1>2 DEF Drops
<1>4. 0 \in 0..n /\ \A i \in 1..n : i \in 0..n /\ i # 0
  OBVIOUS
<1>. QED BY <1>3, <1>4 DEF f

LEMMA MugAllSound ==
  ASSUME NEW s, NEW b \in Pool, Sound(s), NEW p \in Process
  PROVE  Sound(MugAll(s, p, b))
<1> DEFINE n == Cardinality(s.holders[b])
           f == CHOOSE f : Fleeces(s, p, b, f, n)
           S == {i \in 0..n : Sound(f[i])}
<1>1. MugAll(s, p, b) = f[n]
  BY DEF MugAll, Fleeces, Fleeced
<1>2. n \in Nat
  BY SoundCount, FS_CardinalityType DEF Sound, Holding
<1> HIDE DEF n
<1>3. f[0] = s /\ \A i \in 1..n : f[i] = Fleeced(f[i - 1], p, b)
  BY <1>2, FleecedSteps
<1> HIDE DEF f
<1>4. 0 \in S
  BY <1>2, <1>3
<1>5. ASSUME NEW i \in 1..n, i - 1 \in S PROVE i \in S
  <2>1. Sound(f[i - 1])
    BY <1>5
  <2>2. Sound(Fleeced(f[i - 1], p, b))
    BY <2>1, MuggedSound DEF Fleeced
  <2>. QED BY <1>2, <1>3, <2>2
<1> HIDE DEF S
<1>6. n \in S
  BY <1>2, <1>4, <1>5, Stepwise
<1>. QED BY <1>1, <1>6 DEF S

LEMMA ReturnSound ==
  ASSUME NEW s, Sound(s), NEW p \in Process, NEW sig
  PROVE  Sound(K!Return(s, p, sig))
<1> DEFINE t == K!Return(s, p, sig)
<1>1. K!Steady(t) /\ K!Aside(s, t)
  BY SoundSteady, K!ReturnSteady
<1> HIDE DEF t
<1>2. Sound(t)
  BY <1>1, ForeignSound DEF K!Aside
<1>. QED BY <1>2 DEF t

LEMMA ClaimSound ==
  ASSUME NEW s, Sound(s), NEW p \in Process, NEW x \in Locals
  PROVE  Sound([s EXCEPT !.claim[p] = x])
  BY ClaimsSet DEF Sound

LEMMA LeavingSound ==
  ASSUME NEW s, NEW b \in Pool, Sound(s), NEW p \in Process, NEW sig
  PROVE  Sound(Leaving(s, p, sig))
<1> DEFINE t == K!Return(s, p, sig)
<1>1. Leaving(s, p, sig) = [t EXCEPT !.claim[p] = NoClaim]
  BY SameCalls DEF Leaving
<1>2. Sound(t)
  BY ReturnSound
<1>3. NoClaim \in Locals
  BY DEF NoClaim, Locals
<1> HIDE DEF t
<1>. QED BY <1>1, <1>2, <1>3, ClaimSound

LEMMA WaitSound ==
  ASSUME NEW s, NEW b \in Pool, Sound(s), NEW p \in Process
  PROVE  Sound(GuardWait(s, p, "acquire", b))
<1> DEFINE fn == "acquire"
           t == K!GuardWait(s, p, fn, b)
<1>1. GuardWait(s, p, "acquire", b) = t
  BY SameCalls
<1> HIDE DEF fn
<1>2. K!Steady(t) /\ K!Aside(s, t)
  BY K!GuardWaitSteady DEF Sound, Off
<1> HIDE DEF t
<1>. QED BY <1>1, <1>2, ForeignSound DEF K!Aside

LEMMA AcquireLoopSound ==
  ASSUME NEW s, NEW b \in Pool, Sound(s), NEW p \in Process
  PROVE  Sound(AcquireLoop(s, p, b))
<1> DEFINE n == Least(Available(s, b), s.claim[p].rem)
           r == Took(s, p, b, n)
           k == r.inUse[b] + n
           t == IF n = 0 THEN s ELSE [r EXCEPT !.inUse[b] = k]
           all == MugAll(t, p, b)
           u == IF t.claim[p].mug THEN all ELSE t
<1>1. AcquireLoop(s, p, b)
        = IF u.claim[p].rem = 0 THEN Leaving(Signal(u, b), p, "success")
          ELSE GuardWait(u, p, "acquire", b)
  BY DEF AcquireLoop
<1>2. /\ Off(s, b, 0) /\ s.inUse \in [Pool -> Int] /\ s.inUse[b] <= Capacity[b]
      /\ Capacity[b] \in Nat /\ s.claim[p].rem \in Nat
  BY SoundCount, ClaimAmounts DEF Sound
<1>3. n \in Nat /\ n <= s.claim[p].rem /\ n <= Capacity[b] - s.inUse[b]
  BY <1>2 DEF Least, Available
<1> HIDE DEF n
<1>4. ASSUME n # 0 PROVE Sound([r EXCEPT !.inUse[b] = k])
  <2> DEFINE d == 0 - n
  <2>1. Off(r, b, d) /\ r.inUse = s.inUse
    BY <1>2, <1>3, <1>4, TookOff
  <2> HIDE DEF r
  <2>2. k = r.inUse[b] - d /\ d \in Int /\ k <= Capacity[b]
    BY <1>2, <1>3, <2>1
  <2> HIDE DEF d, k
  <2>. QED BY <2>1, <2>2, UseSet
<1> HIDE DEF r, k
<1>5. Sound(t)
  BY <1>4
<1> HIDE DEF t
<1>6. Sound(all)
  BY <1>5, MugAllSound
<1> HIDE DEF all
<1>7. Sound(u)
  BY <1>5, <1>6
<1> HIDE DEF u
<1>8. Sound(Signal(u, b))
  BY <1>7, RingSound
<1>9. Sound(Leaving(Signal(u, b), p, "success"))
  BY <1>8, LeavingSound
<1>10. Sound(GuardWait(u, p, "acquire", b))
  BY <1>7, WaitSound
<1>. QED BY <1>1, <1>9, <1>10

(* A process that has n on record gives some of it back, or all.           *)
LEMMA ForgetSound ==
  ASSUME NEW s, NEW b \in Pool, Sound(s), NEW p \in Process, Record(s, p, b) # {},
         NEW t, t = Forget(s, p, b), NEW n, n = Held(s, p, b)
  PROVE  LET u == [t EXCEPT !.inUse[b] = @ - n]
         IN  /\ Sound(u) /\ Record(u, p, b) = {}
             /\ \A q \in Process, c \in Pool : Record(s, q, c) = {} => Record(u, q, c) = {}
<1> DEFINE k == t.inUse[b] - n
           u == [t EXCEPT !.inUse[b] = k]
<1>1. /\ Off(s, b, 0) /\ s.inUse \in [Pool -> Int] /\ s.inUse[b] <= Capacity[b]
      /\ Capacity[b] \in Nat /\ n \in Nat
  BY SoundCount, HeldNatural DEF Sound
<1>2. /\ Off(t, b, 0 + n) /\ t.inUse = s.inUse /\ Record(t, p, b) = {}
      /\ \A q \in Process, c \in Pool : Record(s, q, c) = {} => Record(t, q, c) = {}
  BY <1>1, ForgetOff
<1>3. 0 + n = n
  BY <1>1
<1>4. k = t.inUse[b] - n /\ k <= Capacity[b] /\ n \in Int
  BY <1>1, <1>2
<1> HIDE DEF k
<1>5. Sound(u) /\ u.holders = t.holders
  BY <1>2, <1>3, <1>4, UseSet
<1> HIDE DEF u
<1>6. Record(u, p, b) = {}
  BY <1>2, <1>5 DEF Record
<1>7. \A q \in Process, c \in Pool : Record(s, q, c) = {} => Record(u, q, c) = {}
  BY <1>2, <1>5 DEF Record
<1>. QED BY <1>5, <1>6, <1>7 DEF u, k

LEMMA AmountSound ==
  ASSUME NEW s, NEW b \in Pool, Sound(s), NEW p \in Process, NEW m \in Nat \ {0},
         m <= Held(s, p, b), NEW e, e = Held(s, p, b) - m
  PROVE  Sound([Amount(s, p, b, m) EXCEPT !.inUse[b] = @ - e])
<1> DEFINE n == Held(s, p, b)
           t == Amount(s, p, b, m)
           k == t.inUse[b] - e
<1>1. /\ Off(s, b, 0) /\ s.inUse \in [Pool -> Int] /\ s.inUse[b] <= Capacity[b]
      /\ Capacity[b] \in Nat /\ n \in Nat /\ (n = 0 <=> Record(s, p, b) = {})
  BY SoundCount, HeldNatural DEF Sound
<1>2. Record(s, p, b) # {}
  BY <1>1
<1>3. Off(t, b, (0 + n) - m) /\ t.inUse = s.inUse
  BY <1>1, <1>2, AmountOff
<1>4. (0 + n) - m = e /\ e \in Nat
  BY <1>1
<1> HIDE DEF t, n
<1>5. k = t.inUse[b] - e /\ k <= Capacity[b]
  BY <1>1, <1>3, <1>4
<1> HIDE DEF k
<1>6. Sound([t EXCEPT !.inUse[b] = k])
  BY <1>3, <1>4, <1>5, UseSet
<1>. QED BY <1>6 DEF k, t

LEMMA RolledBackSound ==
  ASSUME NEW s, NEW b \in Pool, Sound(s), NEW p \in Process
  PROVE  Sound(RolledBack(s, p, b))
<1> DEFINE first == s.claim[p].initial
           now == Held(s, p, b)
<1>1. /\ Off(s, b, 0) /\ s.inUse \in [Pool -> Int] /\ s.inUse[b] <= Capacity[b]
      /\ first \in Nat /\ now \in Nat /\ (now = 0 <=> Record(s, p, b) = {})
  BY SoundCount, ClaimAmounts, HeldNatural DEF Sound
<1>2. CASE first = 0 /\ now = 0
  <2> DEFINE k == s.inUse[b] - 0
  <2>1. RolledBack(s, p, b) = [s EXCEPT !.inUse[b] = k]
    BY <1>2 DEF RolledBack
  <2>2. k <= Capacity[b]
    BY <1>1
  <2> HIDE DEF k
  <2>. QED BY <1>1, <2>1, <2>2, UseSet DEF k
<1>3. CASE first = 0 /\ now # 0
  <2> DEFINE t == Forget(s, p, b)
  <2>1. RolledBack(s, p, b) = [t EXCEPT !.inUse[b] = @ - now]
    BY <1>3 DEF RolledBack
  <2> HIDE DEF now
  <2>2. Record(s, p, b) # {} /\ now = Held(s, p, b)
    BY <1>1, <1>3 DEF now
  <2> HIDE DEF t
  <2>3. t = Forget(s, p, b)
    BY DEF t
  <2>. QED BY <2>1, <2>2, <2>3, ForgetSound
<1>4. CASE first # 0 /\ now < first
  <2> DEFINE no == FALSE
             t == K!Asserted(s, no, "reset_holder")
  <2>1. RolledBack(s, p, b) = t
    BY <1>4, SameCalls DEF RolledBack
  <2> HIDE DEF no
  <2>2. K!Calm(s, t)
    BY K!AssertedCalm DEF Sound, Off
  <2> HIDE DEF t
  <2>. QED BY <2>1, <2>2, CalmSound
<1>5. CASE first # 0 /\ ~(now < first)
  <2> DEFINE e == now - first
             t == [Amount(s, p, b, first) EXCEPT !.inUse[b] = @ - e]
  <2>1. RolledBack(s, p, b) = Signal(t, b)
    BY <1>5 DEF RolledBack
  <2>2. first \in Nat \ {0} /\ first <= Held(s, p, b) /\ e = Held(s, p, b) - first
    BY <1>1, <1>5
  <2> HIDE DEF e, first
  <2>3. Sound(t)
    BY <2>2, AmountSound
  <2> HIDE DEF t
  <2>. QED BY <2>1, <2>3, RingSound
<1>. QED BY <1>2, <1>3, <1>4, <1>5

LEMMA ContinuedSound ==
  ASSUME NEW s, Sound(s), NEW p \in Process, s.call[p].on \in Pool, NEW sig
  PROVE  Sound(Continued(s, p, sig))
<1> DEFINE b == s.call[p].on
<1>1. Sound(AcquireLoop(s, p, b))
  BY AcquireLoopSound
<1>2. Sound(Leaving(s, p, sig))
  BY LeavingSound
<1>3. Sound(RolledBack(s, p, b))
  BY RolledBackSound
<1>4. Sound(Leaving(RolledBack(s, p, b), p, sig))
  BY <1>3, LeavingSound
<1>. QED BY <1>1, <1>2, <1>4 DEF Continued

-----------------------------------------------------------------------------
(* A process gives up what it holds of one pool, and of all in its list.   *)
LEMMA DropHolderSound ==
  ASSUME NEW s, NEW b \in Pool, Sound(s), NEW p \in Process
  PROVE  LET t == DropHolder(s, p, b)
         IN  /\ Sound(t) /\ Record(t, p, b) = {}
             /\ \A c \in Pool : Record(s, p, c) = {} => Record(t, p, c) = {}
<1>1. CASE Record(s, p, b) = {}
  BY <1>1 DEF DropHolder
<1>2. CASE Record(s, p, b) # {}
  <2> DEFINE t == Forget(s, p, b)
             n == Held(s, p, b)
             u == [t EXCEPT !.inUse[b] = @ - n]
             v == Signal(u, b)
  <2>1. DropHolder(s, p, b) = v
    BY <1>2 DEF DropHolder
  <2> HIDE DEF t, n
  <2>2. t = Forget(s, p, b) /\ n = Held(s, p, b)
    BY DEF t, n
  <2>3. /\ Sound(u) /\ Record(u, p, b) = {}
        /\ \A c \in Pool : Record(s, p, c) = {} => Record(u, p, c) = {}
    BY <1>2, <2>2, ForgetSound
  <2> HIDE DEF u
  <2>4. Sound(v) /\ v.holders = u.holders
    BY <2>3, RingSound
  <2> HIDE DEF v
  <2>. QED BY <2>1, <2>3, <2>4 DEF Record
<1>. QED BY <1>1, <1>2

(* All that a process holds is in its list.                                *)
LEMMA HoldsWhatIsListed ==
  ASSUME NEW s, Sound(s), NEW p \in Process
  PROVE  /\ s.held[p] \in Seq(Pool)
         /\ \A b \in Pool : /\ K!Once(s.held[p], b) <=> Record(s, p, b) # {}
                            /\ K!Never(s.held[p], b) <=> Record(s, p, b) = {}
<1>1. PICK c \in Pool : Off(s, c, 0)
  BY DEF Sound
<1>2. /\ s.held \in [Process -> Seq(Pool)]
      /\ \A b \in Pool : Listed(s.holders[b], p, s.held[p], b)
  BY <1>1 DEF Off, Books, Balanced
<1>3. ASSUME NEW b \in Pool
      PROVE  /\ K!Once(s.held[p], b) <=> Record(s, p, b) # {}
             /\ K!Never(s.held[p], b) <=> Record(s, p, b) = {}
  <2>1. ~(K!Once(s.held[p], b) /\ K!Never(s.held[p], b))
    BY DEF K!Once, K!Never
  <2>. QED BY <1>2, <2>1, HasRecord DEF Listed
<1>. QED BY <1>2, <1>3

LEMMA AllDropped ==
  ASSUME NEW s, Sound(s), NEW p \in Process
  PROVE  LET f == CHOOSE f : Drops(s, p, s.held[p], f, Len(s.held[p]))
             t == f[Len(s.held[p])]
         IN  Sound(t) /\ \A c \in Pool : Record(t, p, c) = {}
<1> DEFINE bs == s.held[p]
           n == Len(bs)
           f == CHOOSE f : Drops(s, p, bs, f, n)
           S == {i \in 0..n : /\ Sound(f[i])
                              /\ \A j \in 1..i : Record(f[i], p, bs[j]) = {}
                              /\ \A c \in Pool : Record(s, p, c) = {} => Record(f[i], p, c) = {}}
<1>1. bs \in Seq(Pool) /\ \A b \in Pool : K!Never(bs, b) <=> Record(s, p, b) = {}
  BY HoldsWhatIsListed
<1> HIDE DEF bs
<1>2. n \in Nat /\ (n > 0 => bs # <<>>) /\ \A i \in 1..n : bs[i] \in Pool
  BY <1>1
<1>3. \A b \in Pool : K!Never(bs, b) <=> \A i \in 1..n : bs[i] # b
  BY DEF K!Never
<1> HIDE DEF n
<1>4. f[0] = s /\ \A i \in 1..n : f[i] = DropHolder(f[i - 1], p, bs[i])
  BY <1>2, DroppedSteps
<1> HIDE DEF f
<1>5. 0 \in S
  BY <1>2, <1>4
<1>6. ASSUME NEW i \in 1..n, i - 1 \in S PROVE i \in S
  <2> DEFINE t == f[i - 1]
             u == DropHolder(t, p, bs[i])
  <2>1. /\ Sound(t) /\ \A j \in 1..i - 1 : Record(t, p, bs[j]) = {}
        /\ \A c \in Pool : Record(s, p, c) = {} => Record(t, p, c) = {}
    BY <1>6
  <2>2. /\ Sound(u) /\ Record(u, p, bs[i]) = {}
        /\ \A c \in Pool : Record(t, p, c) = {} => Record(u, p, c) = {}
    BY <1>2, <2>1, DropHolderSound
  <2>3. f[i] = u
    BY <1>4
  <2> HIDE DEF t, u
  <2>4. \A j \in 1..i : j \in 1..i - 1 \/ j = i
    BY <1>2
  <2>5. \A j \in 1..i - 1 : bs[j] \in Pool
    BY <1>2
  <2>6. \A j \in 1..i : Record(u, p, bs[j]) = {}
    BY <2>1, <2>2, <2>4, <2>5
  <2>7. i \in 0..n
    BY <1>2
  <2>. QED BY <2>1, <2>2, <2>3, <2>6, <2>7
<1>7. n \in S
  <2> HIDE DEF S
  <2>. QED BY <1>2, <1>5, <1>6, Stepwise
<1>8. /\ Sound(f[n]) /\ \A j \in 1..n : Record(f[n], p, bs[j]) = {}
      /\ \A c \in Pool : Record(s, p, c) = {} => Record(f[n], p, c) = {}
  BY <1>7
<1>9. ASSUME NEW c \in Pool PROVE Record(f[n], p, c) = {}
  <2>1. CASE Record(s, p, c) = {}
    BY <1>8, <2>1
  <2>2. CASE Record(s, p, c) # {}
    <3>1. PICK j \in 1..n : bs[j] = c
      BY <1>1, <1>3, <2>2
    <3>. QED BY <1>8, <3>1
  <2>. QED BY <2>1, <2>2
<1>. QED BY <1>8, <1>9 DEF f, n, bs

(* The list of a process that holds nothing is emptied.                    *)
LEMMA ListEmptied ==
  ASSUME NEW s, Sound(s), NEW p \in Process, \A c \in Pool : Record(s, p, c) = {}
  PROVE  Sound([s EXCEPT !.held[p] = <<>>, !.claim[p] = NoClaim])
<1> DEFINE L == [s.held EXCEPT ![p] = <<>>]
           C == [s.claim EXCEPT ![p] = NoClaim]
<1>1. PICK b \in Pool : Off(s, b, 0)
  BY DEF Sound
<1>2. Balanced(s.prio, s.inUse, s.holders, s.held, s.claim, b, 0)
  BY <1>1 DEF Off, Books
<1>3. C \in [Process -> Locals]
  <2>1. NoClaim \in Locals
    BY DEF NoClaim, Locals
  <2>. QED BY <1>2, <2>1 DEF Balanced
<1>4. /\ L \in [Process -> Seq(Pool)] /\ L[p] = <<>>
      /\ \A q \in Process : q # p => L[q] = s.held[q]
  BY <1>2 DEF Balanced
<1>5. [s EXCEPT !.held[p] = <<>>, !.claim[p] = NoClaim]
        = [s EXCEPT !.held = L, !.claim = C]
  BY DEF L, C
<1> HIDE DEF L, C
<1>6. ASSUME NEW q \in Process, NEW c \in Pool PROVE Listed(s.holders[c], q, L[q], c)
  <2>1. CASE q # p
    BY <1>2, <1>4, <2>1 DEF Balanced
  <2>2. CASE q = p
    <3>1. ~Has(s.holders[c], q)
      BY <2>2, HasRecord
    <3>2. K!Never(<<>>, c)
      BY DEF K!Never
    <3>. QED BY <1>4, <2>2, <3>1, <3>2 DEF Listed
  <2>. QED BY <2>1, <2>2
<1>7. Balanced(s.prio, s.inUse, s.holders, L, C, b, 0)
  BY <1>2, <1>3, <1>4, <1>6 DEF Balanced
<1>8. Off(WithOwn(s, s.inUse, s.holders, s.recent, L, C), b, 0)
  BY <1>1, <1>7, OwnSet
<1>9. [s EXCEPT !.held = L, !.claim = C]
        = WithOwn(s, s.inUse, s.holders, s.recent, L, C)
  <2>1. s = [f \in DOMAIN s |-> s[f]] /\ Own \subseteq DOMAIN s
    BY <1>1 DEF Off, K!Steady
  <2>. QED BY <2>1 DEF Own, WithOwn
<1>. QED BY <1>5, <1>8, <1>9, OffSound

LEMMA DroppedSound ==
  ASSUME NEW s, Sound(s), NEW p \in Process
  PROVE  Sound(Dropped(s, p))
<1> DEFINE f == CHOOSE f : Drops(s, p, s.held[p], f, Len(s.held[p]))
           t == f[Len(s.held[p])]
<1>1. Dropped(s, p) = [t EXCEPT !.held[p] = <<>>, !.claim[p] = NoClaim]
  BY DEF Dropped, Drops
<1>2. Sound(t) /\ \A c \in Pool : Record(t, p, c) = {}
  BY AllDropped
<1> HIDE DEF t
<1>. QED BY <1>1, <1>2, ListEmptied

-----------------------------------------------------------------------------
(* The records of a process take note of its priority.                     *)
WithPriority(H, p, pri) == {IF h.proc = p THEN [h EXCEPT !.prio = pri] ELSE h : h \in H}

LEMMA HoldingPriority ==
  ASSUME NEW H, NEW prio, NEW n, Holding(H, prio, n), NEW p \in Process, NEW pri,
         DOMAIN prio = Process
  PROVE  /\ Holding(WithPriority(H, p, pri), [prio EXCEPT ![p] = pri], n)
         /\ \A q : Has(WithPriority(H, p, pri), q) <=> Has(H, q)
<1> DEFINE F == [h \in H |-> IF h.proc = p THEN [h EXCEPT !.prio = pri] ELSE h]
           T == WithPriority(H, p, pri)
           new == [prio EXCEPT ![p] = pri]
<1>1. F \in [H -> T] /\ \A t \in T : \E h \in H : t = F[h]
  BY DEF WithPriority
<1>2. new[p] = pri /\ \A q \in Process : q # p => new[q] = prio[q]
  OBVIOUS
<1> HIDE DEF new
<1>3. ASSUME NEW h \in H
      PROVE  RecordOK(F[h], new) /\ F[h].proc = h.proc /\ F[h].amount = h.amount
  <2>1. RecordOK(h, prio)
    BY DEF Holding
  <2>2. CASE h.proc = p
    <3>1. F[h] = [h EXCEPT !.prio = pri]
      BY <2>2
    <3> HIDE DEF F
    <3>. QED BY <1>2, <2>1, <2>2, <3>1 DEF RecordOK, HolderFields
  <2>3. CASE h.proc # p
    <3>1. F[h] = h
      BY <2>3
    <3> HIDE DEF F
    <3>. QED BY <1>2, <2>1, <2>3, <3>1 DEF RecordOK
  <2>. QED BY <2>2, <2>3
<1>4. \A q : Has(T, q) <=> Has(H, q)
  <2> HIDE DEF F, T
  <2>. QED BY <1>1, <1>3 DEF Has
<1> HIDE DEF F, T
<1>5. Holding(T, new, n)
  BY <1>1, <1>3, HoldingChanged
<1>. QED BY <1>4, <1>5 DEF T, new

LEMMA ReprioritizedSound ==
  ASSUME NEW s, Sound(s), NEW p \in Process, NEW pri \in Int
  PROVE  Sound(Reprioritized(K!PrioritySet(s, p, pri), p, pri))
<1> DEFINE t == K!PrioritySet(s, p, pri)
           H == [b \in Pool |-> WithPriority(t.holders[b], p, pri)]
           new == [s.prio EXCEPT ![p] = pri]
           u == [t EXCEPT !.holders = H]
           w == WithOwn(t, t.inUse, H, t.recent, t.held, t.claim)
           holds == \A i \in 1..Len(t.held[p]) : Record(t, p, t.held[p][i]) # {}
<1>1. Reprioritized(t, p, pri) = K!Asserted(u, holds, "reprioritize_holder")
  BY SameCalls DEF Reprioritized, WithPriority
<1> HIDE DEF holds
<1>2. PICK b \in Pool : Off(s, b, 0)
  BY DEF Sound
<1>3. K!Steady(t) /\ K!Foreign(s, t) /\ t.prio = new
  BY <1>2, K!PrioritySetSteady DEF Off
<1>4. \A f \in Own : f \in DOMAIN s \ K!Fields
  BY <1>2 DEF Off, Own, K!Fields
<1> HIDE DEF t
<1>5. (\A f \in Own : t[f] = s[f]) /\ Own \subseteq DOMAIN t
  BY <1>3, <1>4 DEF K!Foreign
<1>6. /\ t.inUse = s.inUse /\ t.holders = s.holders /\ t.held = s.held
      /\ t.claim = s.claim
  BY <1>5 DEF Own
<1>7. Balanced(s.prio, t.inUse, t.holders, t.held, t.claim, b, 0)
  BY <1>2, <1>6 DEF Off, Books
<1>8. DOMAIN s.prio = Process
  BY SoundCount, <1>2
<1>9. ASSUME NEW c \in Pool
      PROVE  /\ Holding(H[c], new, t.inUse[c] - Unaccounted(b, 0, c))
             /\ \A q : Has(H[c], q) <=> Has(t.holders[c], q)
  <2>1. H[c] = WithPriority(t.holders[c], p, pri)
    OBVIOUS
  <2>2. Holding(t.holders[c], s.prio, t.inUse[c] - Unaccounted(b, 0, c))
    BY <1>7 DEF Balanced
  <2> HIDE DEF H, new
  <2>. QED BY <1>8, <2>1, <2>2, HoldingPriority DEF new
<1>10. DOMAIN H = Pool
  OBVIOUS
<1> HIDE DEF H, new
<1>11. Balanced(t.prio, t.inUse, H, t.held, t.claim, b, 0)
  BY <1>3, <1>7, <1>9, <1>10 DEF Balanced, Listed
<1>12. u = w
  <2>1. t = [f \in DOMAIN t |-> t[f]]
    BY <1>3 DEF K!Steady
  <2>. QED BY <1>5, <2>1 DEF Own, WithOwn
<1>13. Off(w, b, 0)
  BY <1>3, <1>5, <1>11, OwnPut
<1> HIDE DEF u, w
<1>14. Sound(u)
  BY <1>12, <1>13, OffSound
<1> DEFINE v == K!Asserted(u, holds, "reprioritize_holder")
<1>15. K!Calm(u, v)
  BY <1>14, SoundSteady, K!AssertedCalm
<1> HIDE DEF v
<1>16. Sound(v)
  BY <1>14, <1>15, CalmSound
<1>. QED BY <1>1, <1>16 DEF v, t

LEMMA ReleasedSound ==
  ASSUME NEW s, NEW b \in Pool, Sound(s), NEW p \in Process, NEW n \in Nat \ {0}
  PROVE  Sound(Released(s, p, b, n))
<1> DEFINE now == Held(s, p, b)
           x == IF now = n THEN Forget(s, p, b) ELSE Amount(s, p, b, now - n)
<1>1. now \in Nat /\ (now = 0 <=> Record(s, p, b) = {})
  BY HeldNatural DEF Sound
<1>2. Released(s, p, b, n) = IF now < n THEN Asserted(s, FALSE, "release")
                             ELSE Signal([x EXCEPT !.inUse[b] = @ - n], b)
  BY DEF Released
<1>3. CASE now < n
  <2> DEFINE no == FALSE
             t == K!Asserted(s, no, "release")
  <2>1. Released(s, p, b, n) = t
    BY <1>2, <1>3, SameCalls
  <2> HIDE DEF no
  <2>2. K!Calm(s, t)
    BY SoundSteady, K!AssertedCalm
  <2> HIDE DEF t
  <2>. QED BY <2>1, <2>2, CalmSound
<1>4. CASE now = n
  <2> DEFINE t == Forget(s, p, b)
             u == [t EXCEPT !.inUse[b] = @ - n]
  <2>1. x = t /\ ~(now < n)
    BY <1>1, <1>4
  <2> HIDE DEF x, t
  <2>2. Released(s, p, b, n) = Signal(u, b)
    BY <1>2, <2>1
  <2>3. Record(s, p, b) # {} /\ n = Held(s, p, b)
    BY <1>1, <1>4
  <2>4. t = Forget(s, p, b)
    BY DEF t
  <2>5. Sound(u)
    BY <2>3, <2>4, ForgetSound
  <2> HIDE DEF u
  <2>. QED BY <2>2, <2>5, RingSound
<1>5. CASE now > n
  <2> DEFINE m == now - n
             t == Amount(s, p, b, m)
             u == [t EXCEPT !.inUse[b] = @ - n]
  <2>1. x = t /\ ~(now < n)
    BY <1>1, <1>5
  <2> HIDE DEF x
  <2>2. Released(s, p, b, n) = Signal(u, b)
    <3> HIDE DEF t
    <3>. QED BY <1>2, <2>1
  <2>3. m \in Nat \ {0} /\ m <= Held(s, p, b) /\ n = Held(s, p, b) - m
    BY <1>1, <1>5
  <2> HIDE DEF m
  <2>4. Sound(u)
    BY <2>3, AmountSound
  <2> HIDE DEF u
  <2>. QED BY <2>2, <2>4, RingSound
<1>. QED BY <1>1, <1>3, <1>4, <1>5

LEMMA ClaimedSound ==
  ASSUME NEW s, NEW b \in Pool, Sound(s), NEW p \in Process, NEW n \in Nat \ {0},
         NEW mug \in BOOLEAN
  PROVE  Sound(Claimed(s, p, b, n, mug))
<1> DEFINE x == [initial |-> Held(s, p, b), want |-> n, rem |-> n, mug |-> mug]
           t == [s EXCEPT !.claim[p] = x]
<1>1. Claimed(s, p, b, n, mug) = AcquireLoop(t, p, b)
  BY DEF Claimed
<1>2. Held(s, p, b) \in Nat
  BY HeldNatural DEF Sound
<1>3. x \in Locals
  BY <1>2 DEF Locals
<1> HIDE DEF x
<1>4. Sound(t)
  BY <1>3, ClaimSound
<1> HIDE DEF t
<1>. QED BY <1>1, <1>4, AcquireLoopSound

-----------------------------------------------------------------------------
(* The events.                                                             *)
LEMMA ResumedSound ==
  ASSUME NEW s, Sound(s), NEW p \in Process, NEW sig
  PROVE  Sound(Resumed(s, p, sig))
<1> DEFINE c == s.call[p]
<1>1. K!Steady(s) /\ K!CallOK(c)
  BY SoundSteady
<1>2. CASE c.fn = "hold"
  <2> DEFINE t == IF sig = "success" THEN s ELSE K!TimerCancel(s, p, c.key)
             u == K!TimerCancel(s, p, c.key)
  <2>1. Resumed(s, p, sig) = K!Return(t, p, sig)
    BY <1>2, SameProcessCalls DEF Resumed
  <2>2. K!Calm(s, u)
    BY <1>1, K!TimerCancelCalm
  <2>3. t = u \/ t = s
    BY DEF u
  <2> HIDE DEF t, u
  <2>4. Sound(t)
    BY <2>2, <2>3, CalmSound
  <2>. QED BY <2>1, <2>4, ReturnSound
<1>3. CASE c.fn = "join"
  <2> DEFINE lists == [s.waiters EXCEPT ![c.on] = K!Unlink(s.waiters[c.on], p)]
             t == [s EXCEPT !.waiters = lists]
             x == IF t.joins[p] = c.on THEN NoOne ELSE t.joins[p]
             u == [t EXCEPT !.joins = [t.joins EXCEPT ![p] = x]]
  <2>1. Resumed(s, p, sig) = K!Return(u, p, sig)
    BY <1>3, SameProcessCalls DEF Resumed
  <2>2. lists \in [Process -> Seq(Process)]
    <3>1. s.waiters \in [Process -> Seq(Process)]
      BY <1>1 DEF K!Steady
    <3>2. \A q \in Process : K!Unlink(s.waiters[q], p) \in Seq(Process)
      BY <3>1, K!UnlinkKeeps
    <3>. QED BY <3>1, <3>2
  <2> HIDE DEF lists
  <2>3. K!Calm(s, t)
    BY <1>1, <2>2, K!WaitersSet
  <2> HIDE DEF t, x
  <2>4. K!Calm(t, u)
    BY <2>3, K!FreeSet DEF K!Calm
  <2> HIDE DEF u
  <2>5. Sound(u)
    BY <2>3, <2>4, K!CalmTransitive, CalmSound
  <2>. QED BY <2>1, <2>5, ReturnSound
<1>4. CASE c.fn \in {"yield", "none"}
  <2>1. Resumed(s, p, sig) = K!Return(s, p, sig)
    BY <1>4, SameProcessCalls DEF Resumed
  <2>. QED BY <2>1, ReturnSound
<1>5. CASE c.fn \notin {"hold", "join", "yield", "none"}
  <2> DEFINE t == K!GuardResume(s, p, sig)
  <2>1. Resumed(s, p, sig) = Continued(t, p, sig)
    BY <1>5, SameProcessCalls DEF Resumed
  <2>2. c.on \in Pool
    BY <1>1, <1>5 DEF K!CallOK, K!Unguarded
  <2>3. K!Calm(s, t)
    BY <1>1, <2>2, K!GuardResumeCalm
  <2> HIDE DEF t
  <2>4. Sound(t) /\ t.call[p].on \in Pool
    BY <2>2, <2>3, CalmSound DEF K!Calm, K!Still
  <2>. QED BY <2>1, <2>4, ContinuedSound
<1>. QED BY <1>2, <1>3, <1>4, <1>5

LEMMA ResumedIfAliveSound ==
  ASSUME NEW s, Sound(s), NEW p \in Process, NEW sig
  PROVE  Sound(ResumedIfAlive(s, p, sig))
  BY ResumedSound DEF ResumedIfAlive

LEMMA AssertedSound ==
  ASSUME NEW s, Sound(s), NEW holds, NEW name
  PROVE  Sound(K!Asserted(s, holds, name))
<1> DEFINE t == K!Asserted(s, holds, name)
<1>1. K!Calm(s, t)
  BY SoundSteady, K!AssertedCalm
<1> HIDE DEF t
<1>2. Sound(t)
  BY <1>1, CalmSound
<1>. QED BY <1>2 DEF t

LEMMA StartEventSound ==
  ASSUME NEW s, Sound(s), NEW p \in Process
  PROVE  Sound(StartEvent(s, p))
<1> DEFINE x == [s.status EXCEPT ![p] = "running"]
           t == [s EXCEPT !.status = x]
           u == K!Return(t, p, "success")
           holds == s.status[p] # "running"
<1>1. StartEvent(s, p) = K!Asserted(u, holds, "coroutine_start")
  BY SameProcessCalls DEF StartEvent
<1>2. K!Steady(s) /\ DOMAIN x = Process
  BY SoundSteady DEF K!Steady
<1> HIDE DEF x, holds
<1>3. K!Steady(t) /\ K!Foreign(s, t) /\ t.prio = s.prio
  BY <1>2, K!StatusSet
<1> HIDE DEF t
<1>4. Sound(t)
  BY <1>3, ForeignSound
<1>5. Sound(u)
  BY <1>4, ReturnSound
<1> HIDE DEF u
<1>. QED BY <1>1, <1>5, AssertedSound

LEMMA WakeupTimeSound ==
  ASSUME NEW s, Sound(s), NEW p \in Process, NEW key, NEW sig
  PROVE  Sound(WakeupTime(s, p, key, sig))
<1> DEFINE t == [s EXCEPT !.timers = [s.timers EXCEPT ![p] = s.timers[p] \ {key}]]
<1>1. WakeupTime(s, p, key, sig)
        = IF key \notin s.timers[p] THEN s ELSE ResumedIfAlive(t, p, sig)
  BY DEF WakeupTime
<1>2. K!Calm(s, t)
  BY SoundSteady, K!FreeSet
<1> HIDE DEF t
<1>3. Sound(ResumedIfAlive(t, p, sig))
  BY <1>2, CalmSound, ResumedIfAliveSound
<1>. QED BY <1>1, <1>3

LEMMA WakeupGuardSound ==
  ASSUME NEW s, Sound(s), NEW p \in Process, NEW key, NEW sig
  PROVE  Sound(WakeupGuard(s, p, key, sig))
  BY ResumedIfAliveSound DEF WakeupGuard

LEMMA WakeupProcessSound ==
  ASSUME NEW s, Sound(s), NEW p \in Process, NEW sig
  PROVE  Sound(WakeupProcess(s, p, sig))
<1> DEFINE t == [s EXCEPT !.joins = [s.joins EXCEPT ![p] = NoOne]]
           u == IF s.joins[p] = NoOne THEN s ELSE ResumedIfAlive(t, p, sig)
           holds == \/ s.joins[p] # NoOne
                    \/ s.timers[p] # {}
                    \/ s.ticket[p] # Kernel!NoTicket
<1>1. WakeupProcess(s, p, sig) = K!Asserted(u, holds, "wakeup_event_process")
  BY SameProcessCalls DEF WakeupProcess
<1> HIDE DEF holds
<1>2. K!Calm(s, t)
  BY SoundSteady, K!FreeSet
<1> HIDE DEF t
<1>3. Sound(u)
  BY <1>2, CalmSound, ResumedIfAliveSound
<1> HIDE DEF u
<1>. QED BY <1>1, <1>3, AssertedSound

LEMMA WakeupInterruptSound ==
  ASSUME NEW s, Sound(s), NEW p \in Process, NEW sig
  PROVE  Sound(WakeupInterrupt(s, p, sig))
<1> DEFINE t == K!CancelAwaiteds(s, p)
<1>1. WakeupInterrupt(s, p, sig)
        = IF s.status[p] = "running" THEN Resumed(t, p, sig) ELSE s
  BY SameProcessCalls DEF WakeupInterrupt
<1>2. K!Calm(s, t)
  BY SoundSteady, K!CancelAwaitedsCalm
<1> HIDE DEF t
<1>3. Sound(Resumed(t, p, sig))
  BY <1>2, CalmSound, ResumedSound
<1>. QED BY <1>1, <1>3

LEMMA ExecutedSound ==
  ASSUME NEW s, Sound(s), s.agenda # {}
  PROVE  Sound(Executed(s))
<1> DEFINE e == K!First(s.agenda)
           t == K!Dequeue(s)
<1>1. Executed(s) =
        CASE e.kind = "start" -> StartEvent(t, e.proc)
          [] e.kind = "time" -> WakeupTime(t, e.proc, e.key, e.sig)
          [] e.kind \in {"grant", "cancelled"} -> WakeupGuard(t, e.proc, e.key, e.sig)
          [] e.kind = "process" -> WakeupProcess(t, e.proc, e.sig)
          [] e.kind = "interrupt" -> WakeupInterrupt(t, e.proc, e.sig)
          [] e.kind \in {"preempt", "resume"} -> ResumedIfAlive(t, e.proc, e.sig)
  BY SameProcessCalls DEF Executed
<1>2. K!Calm(s, t) /\ K!EventOK(e)
  BY SoundSteady, K!DequeueCalm
<1> HIDE DEF t, e
<1>3. Sound(t) /\ e.proc \in Process /\ e.kind \in K!Kinds
  BY <1>2, CalmSound DEF K!EventOK
<1>4. CASE e.kind = "start"
  BY <1>1, <1>3, <1>4, StartEventSound
<1>5. CASE e.kind = "time"
  BY <1>1, <1>3, <1>5, WakeupTimeSound
<1>6. CASE e.kind \in {"grant", "cancelled"}
  BY <1>1, <1>3, <1>6, WakeupGuardSound
<1>7. CASE e.kind = "process"
  BY <1>1, <1>3, <1>7, WakeupProcessSound
<1>8. CASE e.kind = "interrupt"
  BY <1>1, <1>3, <1>8, WakeupInterruptSound
<1>9. CASE e.kind \in {"preempt", "resume"}
  BY <1>1, <1>3, <1>9, ResumedIfAliveSound
<1>. QED BY <1>3, <1>4, <1>5, <1>6, <1>7, <1>8, <1>9 DEF K!Kinds

LEMMA DispatchSound ==
  ASSUME Sound(sys), Dispatch PROVE Sound(sys')
<1> DEFINE R == [b \in Pool |-> {}]
           t == [sys EXCEPT !.recent = R]
<1>1. sys' = Executed(sys) \/ sys' = Executed(t)
  BY DEF Dispatch, Dispatched
<1>2. sys.agenda # {}
  BY DEF Dispatch, Dispatching
<1> HIDE DEF R
<1>3. Sound(t) /\ t.agenda = sys.agenda
  <2>1. Sound(t)
    BY RecentSet
  <2>2. "agenda" \in DOMAIN sys
    BY SoundSteady DEF K!Steady, K!Fields
  <2>. QED BY <2>1, <2>2
<1> HIDE DEF t
<1>. QED BY <1>1, <1>2, <1>3, ExecutedSound

-----------------------------------------------------------------------------
(* The calls of the processes.                                             *)
LEMMA ClientPriorities ==
  /\ \A pri \in Urgency : pri \in Int
  /\ \A p \in Process : \A pri \in Ranks[p] : pri \in Int
  /\ \A d \in Duration : d \in Int
  BY ClientAssumption

LEMMA HoldSound ==
  ASSUME Sound(sys), NEW p \in Process, NEW d \in Duration, Hold(p, d)
  PROVE  Sound(sys')
<1> DEFINE k == Kernel!FreshKey(sys)
           t == K!TimerAdd(sys, p, d, "success")
           u == K!Block(t, p, "hold", NoOne, k)
<1>1. sys' = u
  BY SameProcessCalls DEF Hold
<1> HIDE DEF k
<1>2. K!Calm(sys, t)
  BY SoundSteady, ClientPriorities, K!TimerAddCalm
<1> HIDE DEF t
<1>3. Sound(t) /\ K!Steady(t)
  BY <1>2, CalmSound, SoundSteady
<1>4. "hold" \in K!Unguarded
  BY DEF K!Unguarded
<1>5. K!Steady(u) /\ K!Aside(t, u)
  BY <1>3, <1>4, K!BlockSteady
<1> HIDE DEF u
<1>. QED BY <1>1, <1>3, <1>5, ForeignSound DEF K!Aside

LEMMA YieldSound ==
  ASSUME Sound(sys), NEW p \in Process, Yield(p) PROVE Sound(sys')
<1> DEFINE u == K!Block(sys, p, "yield", NoOne, 0)
<1>1. sys' = u
  BY SameProcessCalls DEF Yield
<1>2. "yield" \in K!Unguarded /\ K!Steady(sys)
  BY SoundSteady DEF K!Unguarded
<1>3. K!Steady(u) /\ K!Aside(sys, u)
  BY <1>2, K!BlockSteady
<1> HIDE DEF u
<1>. QED BY <1>1, <1>3, ForeignSound DEF K!Aside

LEMMA JoinSound ==
  ASSUME Sound(sys), NEW p \in Process, NEW q \in Process, Join(p, q)
  PROVE  Sound(sys')
<1> DEFINE u == K!WaitProcess(sys, p, q)
<1>1. sys' = u
  BY SameProcessCalls DEF Join
<1>2. K!Steady(u) /\ K!Aside(sys, u)
  BY SoundSteady, K!WaitProcessSteady
<1> HIDE DEF u
<1>. QED BY <1>1, <1>2, ForeignSound DEF K!Aside

LEMMA TimersSound ==
  ASSUME Sound(sys), NEW p \in Process,
         (\E d \in Duration : SetTimer(p, d)) \/ ClearTimers(p)
  PROVE  Sound(sys')
<1>1. CASE \E d \in Duration : SetTimer(p, d)
  <2>1. PICK d \in Duration : SetTimer(p, d)
    BY <1>1
  <2> DEFINE t == K!TimerAdd(sys, p, d, "timeout")
  <2>2. sys' = t
    BY <2>1, SameProcessCalls DEF SetTimer
  <2>3. K!Calm(sys, t)
    BY SoundSteady, ClientPriorities, K!TimerAddCalm
  <2> HIDE DEF t
  <2>. QED BY <2>2, <2>3, CalmSound
<1>2. CASE ClearTimers(p)
  <2> DEFINE t == K!TimersClear(sys, p)
  <2>1. sys' = t
    BY <1>2, SameProcessCalls DEF ClearTimers
  <2>2. K!Calm(sys, t)
    BY SoundSteady, K!TimersClearCalm
  <2> HIDE DEF t
  <2>. QED BY <2>1, <2>2, CalmSound
<1>. QED BY <1>1, <1>2

(* Interrupt, Resume and Start schedule an event.                          *)
LEMMA ScheduleSound ==
  ASSUME NEW s, Sound(s), NEW kind \in K!Kinds, NEW p \in Process, NEW sig,
         NEW pri \in Int
  PROVE  Sound(K!Schedule(s, kind, p, 0, sig, 0, pri))
<1> DEFINE t == K!Schedule(s, kind, p, 0, sig, 0, pri)
<1>1. K!Calm(s, t)
  BY SoundSteady, K!ScheduleCalm
<1> HIDE DEF t
<1>2. Sound(t)
  BY <1>1, CalmSound
<1>. QED BY <1>2 DEF t

LEMMA SchedulingSound ==
  ASSUME Sound(sys), NEW p \in Process, NEW q \in Process,
         \/ \E pri \in Urgency : Interrupt(p, q, pri)
         \/ Resume(p, q)
         \/ Start(p, q)
  PROVE  Sound(sys')
<1>1. /\ "interrupt" \in K!Kinds /\ "resume" \in K!Kinds /\ "start" \in K!Kinds
      /\ sys.prio[q] \in Int
  BY SoundSteady DEF K!Kinds
<1>2. CASE \E pri \in Urgency : Interrupt(p, q, pri)
  <2>1. PICK pri \in Urgency : Interrupt(p, q, pri)
    BY <1>2
  <2>2. sys' = K!Schedule(sys, "interrupt", q, 0, "interrupted", 0, pri)
    BY <2>1, SameProcessCalls DEF Interrupt
  <2>. QED BY <1>1, <2>2, ClientPriorities, ScheduleSound
<1>3. CASE Resume(p, q)
  <2>1. sys' = K!Schedule(sys, "resume", q, 0, "success", 0, sys.prio[q])
    BY <1>3, SameProcessCalls DEF Resume
  <2>. QED BY <1>1, <2>1, ScheduleSound
<1>4. CASE Start(p, q)
  <2>1. sys' = K!Schedule(sys, "start", q, 0, "success", 0, sys.prio[q])
    BY <1>4, SameProcessCalls DEF Start
  <2>. QED BY <1>1, <2>1, ScheduleSound
<1>. QED BY <1>2, <1>3, <1>4

(* A process ends.                                                         *)
LEMMA FinishedSound ==
  ASSUME NEW s, Sound(s), NEW p \in Process PROVE Sound(K!Finished(s, p))
<1> DEFINE t == K!Finished(s, p)
<1>1. K!Steady(t) /\ K!Foreign(s, t) /\ t.prio = s.prio
  BY SoundSteady, K!FinishedSteady
<1> HIDE DEF t
<1>2. Sound(t)
  BY <1>1, ForeignSound
<1>. QED BY <1>2 DEF t

LEMMA CancelledSound ==
  ASSUME NEW s, Sound(s), NEW p \in Process PROVE Sound(K!CancelAwaiteds(s, p))
<1> DEFINE t == K!CancelAwaiteds(s, p)
<1>1. K!Calm(s, t)
  BY SoundSteady, K!CancelAwaitedsCalm
<1> HIDE DEF t
<1>2. Sound(t)
  BY <1>1, CalmSound
<1>. QED BY <1>2 DEF t

LEMMA WokenSound ==
  ASSUME NEW s, Sound(s), NEW p \in Process, NEW sig
  PROVE  Sound(K!WakeWaiters(s, p, sig))
<1> DEFINE t == K!WakeWaiters(s, p, sig)
<1>1. K!Calm(s, t)
  BY SoundSteady, K!WakeWaitersCalm
<1> HIDE DEF t
<1>2. Sound(t)
  BY <1>1, CalmSound
<1>. QED BY <1>2 DEF t

LEMMA StopSound ==
  ASSUME Sound(sys), NEW p \in Process, NEW q \in Process, Stop(p, q)
  PROVE  Sound(sys')
<1> DEFINE a == K!Finished(sys, q)
           b == K!CancelAwaiteds(a, q)
           c == Dropped(b, q)
<1>1. sys' = K!WakeWaiters(c, q, "stopped")
  BY SameProcessCalls DEF Stop
<1>2. Sound(a)
  BY FinishedSound
<1> HIDE DEF a
<1>3. Sound(b)
  BY <1>2, CancelledSound
<1> HIDE DEF b
<1>4. Sound(c)
  BY <1>3, DroppedSound
<1> HIDE DEF c
<1>. QED BY <1>1, <1>4, WokenSound

LEMMA ExitSound ==
  ASSUME Sound(sys), NEW p \in Process, Exit(p)
  PROVE  Sound(sys')
<1> DEFINE a == Dropped(sys, p)
           b == K!CancelAwaiteds(a, p)
           c == K!WakeWaiters(b, p, "success")
           t == K!Finished(c, p)
           u == [t EXCEPT !.running = NoOne]
<1>1. sys' = u
  BY SameProcessCalls DEF Exit
<1>2. Sound(a)
  BY DroppedSound
<1> HIDE DEF a
<1>3. Sound(b)
  BY <1>2, CancelledSound
<1> HIDE DEF b
<1>4. Sound(c)
  BY <1>3, WokenSound
<1> HIDE DEF c
<1>5. Sound(t)
  BY <1>4, FinishedSound
<1> HIDE DEF t
<1>6. K!Steady(u) /\ K!Aside(t, u)
  BY <1>5, SoundSteady, K!RunningSet
<1> HIDE DEF u
<1>. QED BY <1>1, <1>5, <1>6, ForeignSound DEF K!Aside

LEMMA SetPrioritySound ==
  ASSUME Sound(sys), NEW p \in Process, NEW q \in Process, NEW pri \in Ranks[q],
         SetPriority(p, q, pri)
  PROVE  Sound(sys')
<1>1. sys' = Reprioritized(K!PrioritySet(sys, q, pri), q, pri)
  BY SameProcessCalls DEF SetPriority
<1>. QED BY <1>1, ClientPriorities, ReprioritizedSound

LEMMA CancelSound ==
  ASSUME Sound(sys), NEW p \in Process, NEW q \in Process, NEW g \in Pool,
         Cancel(p, q, g)
  PROVE  Sound(sys')
<1> DEFINE t == K!GuardCancel(sys, q, g)
<1>1. sys' = t
  BY SameProcessCalls DEF Cancel
<1>2. K!Calm(sys, t)
  BY SoundSteady, K!GuardCancelCalm
<1> HIDE DEF t
<1>. QED BY <1>1, <1>2, CalmSound

LEMMA PoolCallSound ==
  ASSUME Sound(sys), NEW p \in Process, NEW b \in Pool, NEW n \in Sizes,
         Acquire(p, b, n) \/ Preempt(p, b, n) \/ Release(p, b, n)
  PROVE  Sound(sys')
<1>1. n \in Nat \ {0}
  BY PoolAssumption
<1>2. \A mug \in BOOLEAN : Sound(Claimed(sys, p, b, n, mug))
  BY <1>1, ClaimedSound
<1>3. Sound(Released(sys, p, b, n))
  BY <1>1, ReleasedSound
<1>. QED BY <1>2, <1>3 DEF Acquire, Preempt, Release, Claim

LEMMA ClientSound ==
  ASSUME Sound(sys), NEW p \in Process, Client(p)
  PROVE  Sound(sys')
<1>1. CASE \/ \E b \in Pool, n \in Sizes : Acquire(p, b, n)
           \/ \E b \in Pool, n \in Sizes : Preempt(p, b, n)
           \/ \E b \in Pool, n \in Sizes : Release(p, b, n)
  BY <1>1, PoolCallSound
<1>2. CASE \E d \in Duration : Hold(p, d)
  BY <1>2, HoldSound
<1>3. CASE Yield(p)
  BY <1>3, YieldSound
<1>4. CASE (\E d \in Duration : SetTimer(p, d)) \/ ClearTimers(p)
  BY <1>4, TimersSound
<1>5. CASE \/ \E q \in Process, pri \in Urgency : Interrupt(p, q, pri)
           \/ \E q \in Process : Resume(p, q)
           \/ \E q \in Process : Start(p, q)
  BY <1>5, SchedulingSound
<1>6. CASE \E q \in Process : Stop(p, q)
  BY <1>6, StopSound
<1>7. CASE Exit(p)
  BY <1>7, ExitSound
<1>8. CASE \E q \in Process : \E pri \in Ranks[q] : SetPriority(p, q, pri)
  BY <1>8, SetPrioritySound
<1>9. CASE \E q \in Process : Join(p, q)
  BY <1>9, JoinSound
<1>10. CASE \E q \in Process, g \in Pool : Cancel(p, q, g)
  BY <1>10, CancelSound
<1>. QED BY <1>1, <1>2, <1>3, <1>4, <1>5, <1>6, <1>7, <1>8, <1>9, <1>10
         DEF Client, ProcessCall

LEMMA NextSound ==
  ASSUME Sound(sys), [Next]_sys PROVE Sound(sys')
<1>1. CASE UNCHANGED sys
  BY <1>1 DEF Sound, Off, Books, K!Steady
<1>2. CASE Dispatch
  BY <1>2, DispatchSound
<1>3. CASE \E p \in Process : Client(p)
  BY <1>3, ClientSound
<1>. QED BY <1>1, <1>2, <1>3 DEF Next

-----------------------------------------------------------------------------
(* In the beginning nobody holds anything.                                 *)
LEMMA InitSound == Init /\ Pool # {} => Sound(sys)
<1> SUFFICES ASSUME Init, Pool # {} PROVE Sound(sys)
  OBVIOUS
<1> DEFINE Agenda(order) ==
             {[kind |-> "start", proc |-> p, key |-> 0,
               sig |-> "success", delay |-> 0, prio |-> InitPrio[p],
               tag |-> order[p]] : p \in Starters}
           none == [b \in Pool |-> {}]
           zero == [b \in Pool |-> 0]
           empty == [p \in Process |-> <<>>]
           claims == [p \in Process |-> NoClaim]
<1>1. PICK order \in Orders(Starters) :
        sys =
          [agenda  |-> Agenda(order),
           running |-> NoOne,
           status  |-> [p \in Process |-> "initialized"],
           prio    |-> InitPrio,
           call    |-> [p \in Process |-> Idle],
           timers  |-> [p \in Process |-> {}],
           ticket  |-> [p \in Process |-> NoTicket],
           joins   |-> [p \in Process |-> NoOne],
           waiters |-> empty,
           queue   |-> none,
           observers |-> [b \in Pool |-> <<>>],
           untold  |-> [p \in Process |-> {}],
           failed  |-> "none",
           inUse   |-> zero,
           holders |-> none,
           recent  |-> none,
           held    |-> empty,
           claim   |-> claims]
  BY DEF Init, Beginning
<1>2. InitPrio \in [Process -> Int]
  BY PoolAssumption, ClientAssumption
<1>3. K!AgendaOK(Agenda(order))
  <2>1. Starters \in SUBSET Process
    BY DEF Starters
  <2>2. K!Ordered(Starters, order)
    BY SameSets DEF Orders, K!Ordered
  <2>3. K!IsFiniteSet(Process)
    BY FiniteAssumption, SameSets
  <2>4. K!AgendaOK(K!FirstAgenda(Starters, order, InitPrio))
    BY <1>2, <2>1, <2>2, <2>3, K!FirstAgendaOK
  <2>5. Agenda(order) = K!FirstAgenda(Starters, order, InitPrio)
    BY DEF K!FirstAgenda, K!FirstEvent
  <2>. QED BY <2>4, <2>5
<1> HIDE DEF Agenda
<1>4. K!Fields \subseteq DOMAIN sys /\ Own \subseteq DOMAIN sys
  BY <1>1 DEF K!Fields, Own
<1>5. sys = [f \in DOMAIN sys |-> sys[f]]
  BY <1>1
<1>6. K!Fresh(sys) /\ sys.agenda = Agenda(order) /\ sys.prio = InitPrio
  BY <1>1, SameCalls DEF K!Fresh
<1>7. K!Steady(sys)
  BY <1>2, <1>3, <1>4, <1>5, <1>6, K!FreshSteady
<1>8. /\ sys.inUse = zero /\ sys.holders = none /\ sys.held = empty
      /\ sys.claim = claims
  BY <1>1
<1>9. zero \in [Pool -> Int] /\ \A c \in Pool : zero[c] <= Capacity[c]
  BY PoolAssumption
<1>10. claims \in [Process -> Locals]
  BY DEF NoClaim, Locals
<1>11. empty \in [Process -> Seq(Pool)]
  OBVIOUS
<1>12. \A p \in Process, c \in Pool : Listed(none[c], p, empty[p], c)
  <2>1. \A c : K!Never(<<>>, c)
    BY DEF K!Never
  <2>. QED BY <2>1 DEF Listed, Has
<1>13. \A b, c \in Pool : Holding(none[c], sys.prio, zero[c] - Unaccounted(b, 0, c))
  BY HoldingNone DEF Unaccounted
<1>14. DOMAIN none = Pool
  OBVIOUS
<1> HIDE DEF zero, none, empty, claims
<1>15. \A b \in Pool : Balanced(sys.prio, zero, none, empty, claims, b, 0)
  BY <1>9, <1>10, <1>11, <1>12, <1>13, <1>14 DEF Balanced
<1>. QED BY <1>4, <1>7, <1>8, <1>15 DEF Sound, Off, Books

-----------------------------------------------------------------------------
(* What it means.                                                          *)
Conserved(s, b) ==
  LET holding == {h.proc : h \in s.holders[b]}
      units   == UNION {{<<p, i>> : i \in 1..Held(s, p, b)} : p \in holding}
  IN  /\ Cardinality(holding) = Cardinality(s.holders[b])
      /\ s.inUse[b] = Cardinality(units)

LEMMA SoundConserves ==
  ASSUME NEW s, Sound(s), NEW b \in Pool PROVE Conserved(s, b)
<1> DEFINE H == s.holders[b]
           holding == {h.proc : h \in H}
           units   == UNION {{<<p, i>> : i \in 1..Held(s, p, b)} : p \in holding}
           F == [h \in H |-> h.proc]
<1>1. /\ Off(s, b, 0) /\ s.inUse[b] \in Int
      /\ Holding(H, s.prio, s.inUse[b] - 0)
  BY SoundCount DEF Sound
<1>2. Cardinality(holding) = Cardinality(H)
  <2>1. F \in Bijection(H, holding)
    BY <1>1 DEF Holding, Bijection, Injection, Surjection, IsInjective
  <2>2. IsFiniteSet(H)
    BY <1>1 DEF Holding
  <2> HIDE DEF F, holding, H
  <2>. QED BY <2>1, <2>2, FS_Bijection DEF ExistsBijection
<1>3. \A h \in H : Held(s, h.proc, b) = h.amount /\ h.proc \in Process /\ h.amount \in Nat
  <2>1. SUFFICES ASSUME NEW h \in H
                 PROVE  /\ Held(s, h.proc, b) = h.amount /\ h.proc \in Process
                        /\ h.amount \in Nat
    OBVIOUS
  <2>2. h \in Record(s, h.proc, b)
    BY DEF Record
  <2>3. PICK k \in H : /\ Record(s, h.proc, b) = {k} /\ Held(s, h.proc, b) = k.amount
                       /\ k.amount \in Nat \ {0} /\ h.proc \in Process
    BY <1>1, <2>2, TheRecord
  <2>. QED BY <2>2, <2>3
<1>4. units = Units(H)
  <2>1. ASSUME NEW u \in units PROVE u \in Units(H)
    <3>1. PICK h \in H : \E i \in 1..Held(s, h.proc, b) : u = <<h.proc, i>>
      OBVIOUS
    <3>2. PICK i \in 1..h.amount : u = <<h.proc, i>>
      BY <1>3, <3>1
    <3>. QED BY <1>3, <3>2 DEF Units
  <2>2. ASSUME NEW u \in Units(H) PROVE u \in units
    <3>1. PICK h \in H : h.proc = u[1] /\ u[2] <= h.amount
      BY DEF Units
    <3>2. u = <<h.proc, u[2]>> /\ u[2] \in 1..h.amount
      BY <1>3, <3>1 DEF Units
    <3>. QED BY <1>3, <3>2
  <2>. QED BY <2>1, <2>2
<1>5. s.inUse[b] = Cardinality(Units(H))
  BY <1>1 DEF Holding
<1>. QED BY <1>2, <1>4, <1>5 DEF Conserved

LEMMA SoundLists ==
  ASSUME NEW s, Sound(s), NEW p \in Process, NEW b \in Pool
  PROVE  Cardinality({i \in 1..Len(s.held[p]) : s.held[p][i] = b})
           = Cardinality(Record(s, p, b))
<1> DEFINE at == {i \in 1..Len(s.held[p]) : s.held[p][i] = b}
<1>1. Off(s, b, 0)
  BY DEF Sound
<1>2. CASE Record(s, p, b) = {}
  <2>1. at = {}
    BY <1>2, HoldsWhatIsListed DEF K!Never
  <2>. QED BY <1>2, <2>1
<1>3. CASE Record(s, p, b) # {}
  <2>1. PICK h \in s.holders[b] : Record(s, p, b) = {h}
    BY <1>1, <1>3, TheRecord
  <2>2. K!Once(s.held[p], b)
    BY <1>3, HoldsWhatIsListed
  <2>3. PICK i \in 1..Len(s.held[p]) :
          s.held[p][i] = b /\ \A j \in 1..Len(s.held[p]) : s.held[p][j] = b => j = i
    BY <2>2 DEF K!Once
  <2>4. at = {i}
    BY <2>3
  <2>. QED BY <2>1, <2>4, FS_Singleton
<1>. QED BY <1>2, <1>3

(* The inductive invariant: the books of all pools balance.                *)
PoolsSound == Pool = {} \/ Sound(sys)

(* The count of units in use, the records of the holders, their priorities *)
(* and the processes' own lists agree at all times, for any processes,     *)
(* pools, capacities and amounts, and whatever is acquired in parts,       *)
(* mugged, put back, dropped, promoted or stopped meanwhile: the assertion *)
(* sum_holder_items(hhp) == in_use of acquire_inner never fails, victims   *)
(* are chosen by the priority they have, and what a process that ends      *)
(* drops is all it holds (cmb_resourcepool.c).                             *)
THEOREM HoldersTrueCorrect == Spec => []HoldersTrue
<1>1. Init => PoolsSound
  BY InitSound DEF PoolsSound
<1>2. PoolsSound /\ [Next]_sys => PoolsSound'
  BY NextSound DEF PoolsSound
<1>3. PoolsSound => HoldersTrue
  <2>1. CASE Pool = {}
    BY <2>1 DEF HoldersTrue, UnitsConserved, HoldersFaithful, ListsFaithful
  <2>2. CASE Sound(sys)
    <3>1. UnitsConserved
      <4>1. \A b \in Pool : Conserved(sys, b)
        BY <2>2, SoundConserves
      <4>. QED BY <4>1 DEF UnitsConserved, Conserved
    <3>2. HoldersFaithful
      <4>1. \A b \in Pool : Holding(sys.holders[b], sys.prio, sys.inUse[b] - 0)
        BY <2>2, SoundCount DEF Sound
      <4>. QED BY <4>1 DEF HoldersFaithful, Holding, RecordOK
    <3>3. ListsFaithful
      BY <2>2, SoundLists DEF ListsFaithful
    <3>. QED BY <3>1, <3>2, <3>3 DEF HoldersTrue
  <2>. QED BY <2>1, <2>2 DEF PoolsSound
<1>. QED BY <1>1, <1>2, <1>3, PTL DEF Spec

=============================================================================
