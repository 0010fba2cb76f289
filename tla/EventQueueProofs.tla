-------------------------- MODULE EventQueueProofs --------------------------
(***************************************************************************)
(* What TLAPS proves of the event queue for every set of processes, every  *)
(* set of priorities and every bound: typing, that no scheduled event lies *)
(* in the past, that the clock never runs backwards, and that of the       *)
(* processes that wait for events none is forgotten or woken twice, and    *)
(* each is told what became of its event.                                  *)
(***************************************************************************)
EXTENDS EventQueue, TLAPS

(* Whatever leaves the queue, and whatever sequence of events enters it    *)
(* under fresh handles, it stays a function from issued handles to events, *)
(* and each of these was there before or comes from the sequence.          *)
LEMMA RequeueEvents ==
  ASSUME TypeOK, NEW gone, NEW evs \in Seq(Event),
         NEW h \in DOMAIN Requeue(gone, evs)
  PROVE  /\ h \in 1..(counter + Len(evs))
         /\ \/ h \in DOMAIN queue \ gone /\ Requeue(gone, evs)[h] = queue[h]
            \/ \E i \in 1..Len(evs) : Requeue(gone, evs)[h] = evs[i]
<1>1. Len(evs) \in Nat /\ counter \in Nat /\ DOMAIN queue \subseteq 1..counter
  BY DEF TypeOK
<1>2. h \in (DOMAIN queue \ gone) \cup (counter + 1)..(counter + Len(evs))
  BY DEF Requeue
<1>3. CASE h > counter
  <2>1. h \in 1..(counter + Len(evs)) /\ h - counter \in 1..Len(evs)
    BY <1>1, <1>2, <1>3
  <2>. QED BY <1>2, <1>3, <2>1 DEF Requeue
<1>4. CASE ~(h > counter)
  <2>1. h \in DOMAIN queue \ gone /\ h \in 1..(counter + Len(evs))
    BY <1>1, <1>2, <1>4
  <2>. QED BY <1>2, <1>4, <2>1 DEF Requeue
<1>. QED BY <1>3, <1>4

LEMMA RequeueType ==
  ASSUME TypeOK, NEW gone, NEW evs \in Seq(Event)
  PROVE  /\ counter + Len(evs) \in Nat
         /\ DOMAIN Requeue(gone, evs) \subseteq 1..(counter + Len(evs))
         /\ Requeue(gone, evs) \in [DOMAIN Requeue(gone, evs) -> Event]
<1>1. Len(evs) \in Nat /\ counter \in Nat
  BY DEF TypeOK
<1>2. \A i \in 1..Len(evs) : evs[i] \in Event
  OBVIOUS
<1>3. \A h \in DOMAIN queue : queue[h] \in Event
  BY DEF TypeOK
<1>4. \A h \in DOMAIN Requeue(gone, evs) : Requeue(gone, evs)[h] \in Event
  BY <1>2, <1>3, RequeueEvents
<1>5. Requeue(gone, evs) = [h \in DOMAIN Requeue(gone, evs) |-> Requeue(gone, evs)[h]]
  BY DEF Requeue
<1>. QED BY <1>1, <1>4, <1>5, RequeueEvents

(* A wakeup for a registered waiter is an event of the given time.         *)
LEMMA WakeupType ==
  ASSUME TypeOK,
         NEW action \in Outcomes, NEW h \in DOMAIN queue,
         NEW i \in 1..Len(queue[h].waiters), NEW t \in Times
  PROVE  /\ Wakeup(action, h, i, t) \in Event
         /\ Wakeup(action, h, i, t).time = t
<1>1. queue[h] \in Event /\ h \in Nat
  BY DEF TypeOK
<1>2. queue[h].waiters[i] \in Process
  BY <1>1 DEF Event
<1>3. ProcPrio[queue[h].waiters[i]] \in Int
  BY <1>2, PrioAssumption
<1>4. <<>> \in Seq(Process)
  OBVIOUS
<1>. QED
  BY <1>1, <1>2, <1>3, <1>4 DEF Wakeup, Event, Actions

LEMMA WakeupsType ==
  ASSUME TypeOK, NEW action \in Outcomes, NEW h \in DOMAIN queue, NEW t \in Times
  PROVE  /\ Wakeups(action, h, t) \in Seq(Event)
         /\ \A i \in 1..Len(Wakeups(action, h, t)) :
              Wakeups(action, h, t)[i].time = t
<1>1. Len(queue[h].waiters) \in Nat
  BY DEF TypeOK, Event
<1>2. Wakeups(action, h, t) \in [1..Len(queue[h].waiters) -> Event]
  BY WakeupType DEF Wakeups
<1>3. /\ Wakeups(action, h, t) \in Seq(Event)
      /\ Len(Wakeups(action, h, t)) = Len(queue[h].waiters)
  BY <1>1, <1>2
<1>. QED
  BY <1>3, WakeupType DEF Wakeups

-----------------------------------------------------------------------------
Inv == TypeOK /\ NoPastEvents

LEMMA InitInv == Init => Inv
  BY BoundAssumption DEF Init, Inv, TypeOK, NoPastEvents, Times

(* A step that requeues keeps the invariant if neither what stays nor what *)
(* enters lies before the clock it leaves.                                 *)
LEMMA RequeueInv ==
  ASSUME Inv, NEW gone, NEW evs \in Seq(Event),
         queue' = Requeue(gone, evs),
         counter' = counter + Len(evs),
         simTime' \in Times,
         \A k \in DOMAIN queue : k \notin gone => queue[k].time >= simTime',
         \A i \in 1..Len(evs) : evs[i].time >= simTime',
         current' \in Nat,
         awaiting' \in [Process -> Nat],
         fate' \in [Process -> {"none", "pending", "cleared"} \cup Outcomes],
         told' \in [Process -> {"none"} \cup Outcomes]
  PROVE  Inv'
<1>1. TypeOK'
  <2>1. /\ counter' \in Nat
        /\ DOMAIN queue' \subseteq 1..counter'
        /\ queue' \in [DOMAIN queue' -> Event]
    BY RequeueType DEF Inv
  <2>. QED BY <2>1 DEF TypeOK, Times
<1>2. NoPastEvents'
  <2> SUFFICES ASSUME NEW k \in DOMAIN queue'
               PROVE  queue'[k].time >= simTime'
    BY DEF NoPastEvents
  <2>1. \/ k \in DOMAIN queue \ gone /\ queue'[k] = queue[k]
        \/ \E i \in 1..Len(evs) : queue'[k] = evs[i]
    BY RequeueEvents DEF Inv
  <2>. QED BY <2>1
<1>. QED BY <1>1, <1>2 DEF Inv

LEMMA SettleType ==
  ASSUME TypeOK, NEW gone, NEW how \in Outcomes
  PROVE  Settle(gone, how) \in [Process -> {"none", "pending", "cleared"} \cup Outcomes]
  BY DEF TypeOK, Settle

LEMMA SlotOf ==
  ASSUME NEW gone, NEW w \in WakeSlots(gone)
  PROVE  /\ w[1] \in gone /\ w[2] \in 1..Len(queue[w[1]].waiters)
         /\ w = <<w[1], w[2]>>
  BY DEF WakeSlots

(* Cancelling a set of scheduled events, with all the wakeups it causes.   *)
LEMMA RemoveInv ==
  ASSUME Inv, NEW gone \in SUBSET DOMAIN queue, Remove(gone)
  PROVE  Inv' /\ simTime' = simTime
<1>1. PICK n \in 0..(MaxHandle - counter) :
        \E f \in [1..n -> WakeSlots(gone)] :
          /\ WakeOrder(gone, n, f)
          /\ queue' = Requeue(gone,
                        [j \in 1..n |->
                           Wakeup("cancelled", f[j][1], f[j][2], simTime)])
          /\ counter' = counter + n
          /\ fate' = Settle(gone, "cancelled")
          /\ UNCHANGED <<simTime, current, awaiting, told>>
  BY DEF Remove
<1>2. PICK f \in [1..n -> WakeSlots(gone)] :
        queue' = Requeue(gone,
                   [j \in 1..n |->
                      Wakeup("cancelled", f[j][1], f[j][2], simTime)])
  BY <1>1
<1> DEFINE evs == [j \in 1..n |->
                     Wakeup("cancelled", f[j][1], f[j][2], simTime)]
<1>3. ASSUME NEW j \in 1..n
      PROVE  evs[j] \in Event /\ evs[j].time = simTime
  <2>1. f[j] \in WakeSlots(gone)
    OBVIOUS
  <2>2. f[j][1] \in DOMAIN queue /\ f[j][2] \in 1..Len(queue[f[j][1]].waiters)
    BY <2>1, SlotOf
  <2>. QED
    BY <2>2, WakeupType DEF Inv, TypeOK, Outcomes
<1>4. evs \in Seq(Event) /\ Len(evs) = n
  <2>1. evs \in [1..n -> Event] /\ n \in Nat
    BY <1>3
  <2>. QED BY <2>1
<1> HIDE DEF evs
<1>5. queue' = Requeue(gone, evs)
  BY <1>2 DEF evs
<1>6. \A k \in DOMAIN queue : queue[k].time >= simTime'
  BY <1>1 DEF Inv, NoPastEvents
<1>7. \A i \in 1..Len(evs) : evs[i].time >= simTime'
  BY <1>1, <1>3, <1>4 DEF Inv, TypeOK, Times
<1>8. fate' \in [Process -> {"none", "pending", "cleared"} \cup Outcomes]
  BY <1>1, SettleType DEF Inv, Outcomes
<1>. QED
  BY <1>1, <1>4, <1>5, <1>6, <1>7, <1>8, RequeueInv DEF Inv, TypeOK

(* A dispatch takes the event of the lowest time, so that neither what     *)
(* stays in the queue nor the wakeups of that same time lie before it.     *)
LEMMA DispatchTime ==
  ASSUME Inv, NEW h \in DOMAIN queue, IsFirst(h)
  PROVE  /\ queue[h].time \in Times
         /\ queue[h].time >= simTime
         /\ queue[h].time >= queue[h].time
         /\ \A k \in DOMAIN queue : queue[k].time >= queue[h].time
<1>1. \A k \in DOMAIN queue : queue[k].time \in Times /\ queue[k].time \in Int
  BY DEF Inv, TypeOK, Event, Times
<1>2. ASSUME NEW k \in DOMAIN queue
      PROVE  queue[k].time >= queue[h].time
  BY <1>1 DEF IsFirst, Before
<1>. QED BY <1>1, <1>2 DEF Inv, NoPastEvents

LEMMA ExecuteInv ==
  ASSUME Inv, NEW h \in DOMAIN queue, ExecuteClient(h)
  PROVE  Inv' /\ simTime' >= simTime
<1> DEFINE gone == {h}
           wakes == Wakeups("occurred", h, queue[h].time)
<1>1. /\ queue[h].time \in Times
      /\ queue[h].time >= simTime
      /\ queue[h].time >= queue[h].time
      /\ \A k \in DOMAIN queue : queue[k].time >= queue[h].time
  BY DispatchTime DEF ExecuteClient
<1>2. /\ wakes \in Seq(Event)
      /\ \A i \in 1..Len(wakes) : wakes[i].time = queue[h].time
  BY <1>1, WakeupsType DEF Inv, Outcomes
<1>3. /\ queue' = Requeue(gone, wakes)
      /\ counter' = counter + Len(wakes)
      /\ simTime' = queue[h].time
      /\ current' = h /\ h \in Nat
      /\ fate' = Settle(gone, "occurred")
      /\ UNCHANGED <<awaiting, told>>
  BY DEF ExecuteClient, Inv, TypeOK
<1> HIDE DEF gone, wakes
<1>4. fate' \in [Process -> {"none", "pending", "cleared"} \cup Outcomes]
  BY <1>3, SettleType DEF Inv, Outcomes
<1>. QED BY <1>1, <1>2, <1>3, <1>4, RequeueInv DEF Inv, TypeOK

LEMMA DeliverInv ==
  ASSUME Inv, NEW h \in DOMAIN queue, Deliver(h)
  PROVE  Inv' /\ simTime' >= simTime
<1> DEFINE gone == {h}
           evs == <<>>
<1>1. /\ queue[h].time \in Times
      /\ queue[h].time >= simTime
      /\ \A k \in DOMAIN queue : queue[k].time >= queue[h].time
  BY DispatchTime DEF Deliver
<1>2. evs \in Seq(Event) /\ Len(evs) = 0
  OBVIOUS
<1>3. /\ queue' = Requeue(gone, evs)
      /\ counter' = counter + Len(evs)
      /\ simTime' = queue[h].time
      /\ current' = h /\ h \in Nat
      /\ fate' = fate
  BY <1>2 DEF Deliver, Inv, TypeOK
<1> HIDE DEF gone, evs
<1>4. awaiting' \in [Process -> Nat]
  BY DEF Deliver, Inv, TypeOK
<1>5. told' \in [Process -> {"none"} \cup Outcomes]
  <2>1. queue[h].action \in Outcomes
    BY DEF Deliver, Inv, TypeOK, Event, Actions
  <2>. QED BY <2>1 DEF Deliver, Inv, TypeOK
<1>6. \A i \in 1..Len(evs) : evs[i].time >= simTime'
  BY <1>2
<1>. QED BY <1>1, <1>2, <1>3, <1>4, <1>5, <1>6, RequeueInv DEF Inv, TypeOK

LEMMA ScheduleInv ==
  ASSUME Inv, NEW subj \in Subject, NEW t \in Times, NEW pri \in Priority,
         Schedule(subj, t, pri)
  PROVE  Inv' /\ simTime' = simTime
<1> DEFINE ev == [action |-> "client", subject |-> subj, object |-> 0,
                  time |-> t, prio |-> pri, waiters |-> <<>>]
           gone == {}
           evs == <<ev>>
<1>1. ev \in Event /\ ev.time = t
  <2>1. pri \in Int /\ <<>> \in Seq(Process)
    BY PrioAssumption
  <2>. QED BY <2>1 DEF Event, Actions
<1>2. /\ t >= simTime
      /\ queue' = Requeue(gone, evs)
      /\ counter' = counter + 1
      /\ UNCHANGED <<simTime, current, awaiting, fate, told>>
  BY DEF Schedule
<1> HIDE DEF ev
<1>3. evs \in Seq(Event) /\ Len(evs) = 1 /\ \A i \in 1..1 : evs[i] = ev
  BY <1>1
<1> HIDE DEF gone, evs
<1>4. \A k \in DOMAIN queue : queue[k].time >= simTime'
  BY <1>2 DEF Inv, NoPastEvents
<1>. QED BY <1>1, <1>2, <1>3, <1>4, RequeueInv DEF Inv, TypeOK

LEMMA WithoutFirstType ==
  ASSUME NEW ws \in Seq(Process), NEW p
  PROVE  WithoutFirst(ws, p) \in Seq(Process)
<1>1. \A i \in 1..Len(ws) :
        /\ SubSeq(ws, 1, i - 1) \in Seq(Process)
        /\ SubSeq(ws, i + 1, Len(ws)) \in Seq(Process)
  OBVIOUS
<1>2. FirstTag(ws, p) \subseteq 1..Len(ws)
  BY DEF FirstTag
<1>. QED BY <1>1, <1>2 DEF WithoutFirst

(* Registering and deregistering a waiter leave every event at its time.   *)
LEMMA WaitEventInv ==
  ASSUME Inv, NEW p \in Process, NEW h \in DOMAIN queue, WaitEvent(p, h)
  PROVE  Inv' /\ simTime' = simTime
<1>1. h \in Nat /\ queue[h] \in Event
  BY DEF Inv, TypeOK
<1>2. <<p>> \o queue[h].waiters \in Seq(Process)
  BY <1>1 DEF Event
<1>3. /\ queue' = [queue EXCEPT ![h].waiters = <<p>> \o queue[h].waiters]
      /\ awaiting' = [awaiting EXCEPT ![p] = h]
      /\ fate' = [fate EXCEPT ![p] = "pending"]
      /\ told' = [told EXCEPT ![p] = "none"]
      /\ UNCHANGED <<simTime, counter, current>>
  BY DEF WaitEvent
<1>4. [queue[h] EXCEPT !.waiters = <<p>> \o queue[h].waiters] \in Event
  BY <1>1, <1>2 DEF Event
<1>5. DOMAIN queue' = DOMAIN queue /\ queue' \in [DOMAIN queue -> Event]
  BY <1>3, <1>4 DEF Inv, TypeOK
<1>6. TypeOK'
  BY <1>1, <1>3, <1>5 DEF Inv, TypeOK
<1>7. \A k \in DOMAIN queue : queue'[k].time = queue[k].time
  BY <1>1, <1>3 DEF Event
<1>. QED BY <1>3, <1>5, <1>6, <1>7 DEF Inv, NoPastEvents

LEMMA LeaveWaitInv ==
  ASSUME Inv, NEW p \in Process, LeaveWait(p)
  PROVE  Inv' /\ simTime' = simTime
<1> DEFINE W(h) == WithoutFirst(queue[h].waiters, p)
<1>1. \A h \in DOMAIN queue : queue[h] \in Event
  BY DEF Inv, TypeOK
<1>2. ASSUME NEW h \in DOMAIN queue
      PROVE  W(h) \in Seq(Process)
  BY <1>1, WithoutFirstType DEF Event
<1> HIDE DEF W
<1>3. /\ queue' = [h \in DOMAIN queue |->
                     IF h = awaiting[p]
                     THEN [queue[h] EXCEPT !.waiters = W(h)]
                     ELSE queue[h]]
      /\ awaiting' = [awaiting EXCEPT ![p] = 0]
      /\ fate' = [fate EXCEPT ![p] = "none"]
      /\ UNCHANGED <<simTime, counter, current, told>>
  BY DEF LeaveWait, W
<1>4. \A h \in DOMAIN queue : [queue[h] EXCEPT !.waiters = W(h)] \in Event
  BY <1>1, <1>2 DEF Event
<1>5. DOMAIN queue' = DOMAIN queue /\ queue' \in [DOMAIN queue -> Event]
  BY <1>1, <1>3, <1>4
<1>6. TypeOK'
  BY <1>3, <1>5 DEF Inv, TypeOK
<1>7. \A k \in DOMAIN queue : queue'[k].time = queue[k].time
  BY <1>1, <1>3 DEF Event
<1>. QED BY <1>3, <1>5, <1>6, <1>7 DEF Inv, NoPastEvents

LEMMA RescheduleInv ==
  ASSUME Inv, NEW h \in DOMAIN queue, NEW t \in Times, Reschedule(h, t)
  PROVE  Inv' /\ simTime' = simTime
<1>1. /\ t >= simTime
      /\ queue' = [queue EXCEPT ![h].time = t]
      /\ UNCHANGED <<simTime, counter, current, awaiting, fate, told>>
  BY DEF Reschedule
<1>2. [queue[h] EXCEPT !.time = t] \in Event
  BY DEF Inv, TypeOK, Event
<1>3. DOMAIN queue' = DOMAIN queue /\ queue' \in [DOMAIN queue -> Event]
  BY <1>1, <1>2 DEF Inv, TypeOK
<1>4. \A k \in DOMAIN queue :
        queue'[k].time = IF k = h THEN t ELSE queue[k].time
  BY <1>1, <1>3 DEF Inv, TypeOK, Event
<1>. QED BY <1>1, <1>3, <1>4 DEF Inv, TypeOK, NoPastEvents

LEMMA ReprioritizeInv ==
  ASSUME Inv, NEW h \in DOMAIN queue, NEW pri \in Priority, Reprioritize(h, pri)
  PROVE  Inv' /\ simTime' = simTime
<1>1. /\ queue' = [queue EXCEPT ![h].prio = pri]
      /\ UNCHANGED <<simTime, counter, current, awaiting, fate, told>>
  BY DEF Reprioritize
<1>2. [queue[h] EXCEPT !.prio = pri] \in Event
  BY PrioAssumption DEF Inv, TypeOK, Event
<1>3. DOMAIN queue' = DOMAIN queue /\ queue' \in [DOMAIN queue -> Event]
  BY <1>1, <1>2 DEF Inv, TypeOK
<1>4. \A k \in DOMAIN queue : queue'[k].time = queue[k].time
  BY <1>1, <1>3 DEF Inv, TypeOK, Event
<1>. QED BY <1>1, <1>3, <1>4 DEF Inv, TypeOK, NoPastEvents

LEMMA ClearInv ==
  ASSUME Inv, Clear
  PROVE  Inv' /\ simTime' = simTime
  BY DEF Clear, Inv, TypeOK, NoPastEvents

-----------------------------------------------------------------------------
LEMMA NextInv ==
  ASSUME Inv, [Next]_vars
  PROVE  Inv' /\ simTime' >= simTime
<1>1. simTime \in Int /\ simTime >= simTime
  BY DEF Inv, TypeOK, Times
<1>2. CASE UNCHANGED vars
  BY <1>1, <1>2 DEF vars, Inv, TypeOK, NoPastEvents
<1>3. ASSUME NEW subj \in Subject, NEW t \in Times, NEW pri \in Priority,
             Schedule(subj, t, pri)
      PROVE  Inv' /\ simTime' >= simTime
  BY <1>1, <1>3, ScheduleInv
<1>4. ASSUME NEW h \in DOMAIN queue, ExecuteClient(h)
      PROVE  Inv' /\ simTime' >= simTime
  BY <1>4, ExecuteInv
<1>5. ASSUME NEW h \in DOMAIN queue, Deliver(h)
      PROVE  Inv' /\ simTime' >= simTime
  BY <1>5, DeliverInv
<1>6. ASSUME NEW p \in Process, NEW h \in DOMAIN queue, WaitEvent(p, h)
      PROVE  Inv' /\ simTime' >= simTime
  BY <1>1, <1>6, WaitEventInv
<1>7. ASSUME NEW p \in Process, LeaveWait(p)
      PROVE  Inv' /\ simTime' >= simTime
  BY <1>1, <1>7, LeaveWaitInv
<1>8. ASSUME NEW h \in DOMAIN queue, Cancel(h)
      PROVE  Inv' /\ simTime' >= simTime
  <2>1. {h} \in SUBSET DOMAIN queue /\ Remove({h})
    BY <1>8 DEF Cancel
  <2>. QED BY <1>1, <2>1, RemoveInv
<1>9. ASSUME NEW subj \in Subject, PatternCancel(subj)
      PROVE  Inv' /\ simTime' >= simTime
  <2>1. Matches(subj) \in SUBSET DOMAIN queue /\ Remove(Matches(subj))
    BY <1>9 DEF PatternCancel, Matches
  <2>. QED BY <1>1, <2>1, RemoveInv
<1>10. ASSUME NEW h \in DOMAIN queue, NEW t \in Times, Reschedule(h, t)
       PROVE  Inv' /\ simTime' >= simTime
  BY <1>1, <1>10, RescheduleInv
<1>11. ASSUME NEW h \in DOMAIN queue, NEW pri \in Priority, Reprioritize(h, pri)
       PROVE  Inv' /\ simTime' >= simTime
  BY <1>1, <1>11, ReprioritizeInv
<1>12. ASSUME Clear
       PROVE  Inv' /\ simTime' >= simTime
  BY <1>1, <1>12, ClearInv
<1>. QED
  BY <1>2, <1>3, <1>4, <1>5, <1>6, <1>7, <1>8, <1>9, <1>10, <1>11, <1>12 DEF Next

LEMMA SpecInv == Spec => []Inv
<1>1. Init => Inv
  BY InitInv
<1>2. Inv /\ [Next]_vars => Inv'
  BY NextInv
<1>. QED BY <1>1, <1>2, PTL DEF Spec

(* The types of the state: handles of scheduled events were issued, and    *)
(* every scheduled event is well formed, wakeups included.                 *)
THEOREM TypeCorrect == Spec => []TypeOK
<1>1. Inv => TypeOK
  BY DEF Inv
<1>. QED BY <1>1, SpecInv, PTL

(* No call of the API leaves or puts an event behind the clock, so the     *)
(* debug assertion of cmb_event_execute_next never fails.                  *)
THEOREM NoPastEventsCorrect == Spec => []NoPastEvents
<1>1. Inv => NoPastEvents
  BY DEF Inv
<1>. QED BY <1>1, SpecInv, PTL

(* The clock of a trial never runs backwards.                              *)
THEOREM ClockMonotoneCorrect == Spec => ClockMonotone
<1>1. Inv /\ [Next]_vars => [simTime' >= simTime]_vars
  BY NextInv
<1>. QED BY <1>1, SpecInv, PTL DEF Spec, ClockMonotone

-----------------------------------------------------------------------------
(* The processes that wait for events.  What is said of them is not        *)
(* inductive.  That a wakeup answers at most one wait rests on handles: it *)
(* names the event by a handle that has left the queue and is never issued *)
(* again, so that no later wait can be for it.  That a process is woken    *)
(* once rests on the waiter lists: it stands in one list only, that of its *)
(* present event, and once.                                                *)
IsWakeup(h) == queue[h].action # "client"

Answers(h, p) ==
  IsWakeup(h) /\ queue[h].subject = p /\ queue[h].object = awaiting[p]

(* Wakeups are not waited for, and are about events that are gone.         *)
WakeupsDead ==
  \A h \in DOMAIN queue :
    IsWakeup(h) =>
      /\ queue[h].waiters = <<>>
      /\ queue[h].subject \in Process
      /\ queue[h].object \in 1..counter
      /\ queue[h].object \notin DOMAIN queue

(* Who stands in a waiter list waits for that event, and stands there once.*)
WaitersWait ==
  \A h \in DOMAIN queue : \A i \in 1..Len(queue[h].waiters) :
    LET p == queue[h].waiters[i]
    IN  /\ awaiting[p] = h /\ fate[p] = "pending"
        /\ \A j \in 1..Len(queue[h].waiters) : queue[h].waiters[j] = p => j = i

(* A process that waits stands in the list of a scheduled event, or one    *)
(* wakeup answers it at this instant, or the queue was cleared.            *)
Waiting(p) ==
  /\ fate[p] = "pending"
  /\ awaiting[p] \in DOMAIN queue
  /\ ~IsWakeup(awaiting[p])
  /\ \E i \in 1..Len(queue[awaiting[p]].waiters) : queue[awaiting[p]].waiters[i] = p

Answered(p) ==
  /\ fate[p] \in Outcomes
  /\ \E h \in DOMAIN queue :
       /\ Answers(h, p)
       /\ queue[h].action = fate[p] /\ queue[h].time = simTime
       /\ \A k \in DOMAIN queue : Answers(k, p) => k = h

Dropped(p) ==
  /\ fate[p] = "cleared"
  /\ awaiting[p] \notin DOMAIN queue
  /\ \A k \in DOMAIN queue : ~Answers(k, p)

WaitsKept ==
  \A p \in Process :
    /\ awaiting[p] <= counter
    /\ awaiting[p] # 0 => Waiting(p) \/ Answered(p) \/ Dropped(p)

WaitInv == Inv /\ WakeupsDead /\ WaitersWait /\ WaitsKept /\ TruthfulReturn

LEMMA InitWaitInv == Init => WaitInv
<1> SUFFICES ASSUME Init PROVE WaitInv
  OBVIOUS
<1>1. Inv
  BY InitInv
<1>2. DOMAIN queue = {}
  BY DEF Init
<1>. QED
  BY <1>1, <1>2 DEF Init, WaitInv, WakeupsDead, WaitersWait, WaitsKept, TruthfulReturn

(* The invariant says all that the property does.                          *)
LEMMA WaitInvAccounts == WaitInv => WaiterAccounted
<1> SUFFICES ASSUME WaitInv, NEW p \in Process
             PROVE  /\ awaiting[p] # 0 /\ fate[p] = "pending" =>
                         /\ awaiting[p] \in DOMAIN queue
                         /\ \E i \in 1..Len(queue[awaiting[p]].waiters) :
                              Registrations(p) = {<<awaiting[p], i>>}
                         /\ LiveWakeups(p) = {}
                    /\ awaiting[p] # 0 /\ fate[p] \in Outcomes =>
                         /\ Registrations(p) = {}
                         /\ \E h \in DOMAIN queue :
                              /\ LiveWakeups(p) = {h}
                              /\ queue[h].action = fate[p]
                              /\ queue[h].time = simTime
                    /\ awaiting[p] = 0 => Registrations(p) = {}
  BY DEF WaiterAccounted
<1>1. ASSUME NEW w \in Registrations(p)
      PROVE  /\ awaiting[p] = w[1] /\ fate[p] = "pending" /\ w = <<w[1], w[2]>>
             /\ w[1] \in DOMAIN queue /\ w[2] \in 1..Len(queue[w[1]].waiters)
             /\ \A j \in 1..Len(queue[w[1]].waiters) :
                  queue[w[1]].waiters[j] = p => j = w[2]
  <2>1. w \in WakeSlots(DOMAIN queue) /\ queue[w[1]].waiters[w[2]] = p
    BY DEF Registrations
  <2>2. w[1] \in DOMAIN queue /\ w[2] \in 1..Len(queue[w[1]].waiters) /\ w = <<w[1], w[2]>>
    BY <2>1, SlotOf
  <2>. QED BY <2>1, <2>2 DEF WaitInv, WaitersWait
<1>2. DOMAIN queue \subseteq 1..counter /\ counter \in Nat
  BY DEF WaitInv, Inv, TypeOK
<1>3. ASSUME awaiting[p] # 0, fate[p] = "pending"
      PROVE  /\ awaiting[p] \in DOMAIN queue
             /\ \E i \in 1..Len(queue[awaiting[p]].waiters) :
                  Registrations(p) = {<<awaiting[p], i>>}
             /\ LiveWakeups(p) = {}
  <2>1. Waiting(p)
    BY <1>3 DEF WaitInv, WaitsKept, Answered, Dropped, Outcomes
  <2>2. PICK i \in 1..Len(queue[awaiting[p]].waiters) :
          queue[awaiting[p]].waiters[i] = p
    BY <2>1 DEF Waiting
  <2>3. <<awaiting[p], i>> \in Registrations(p)
    BY <2>1, <2>2 DEF Registrations, WakeSlots, Waiting
  <2>4. \A w \in Registrations(p) : w = <<awaiting[p], i>>
    BY <1>1, <2>2
  <2>5. LiveWakeups(p) = {}
    BY <2>1 DEF LiveWakeups, WaitInv, WakeupsDead, IsWakeup, Waiting
  <2>. QED BY <2>1, <2>3, <2>4, <2>5 DEF Waiting
<1>4. ASSUME awaiting[p] # 0, fate[p] \in Outcomes
      PROVE  /\ Registrations(p) = {}
             /\ \E h \in DOMAIN queue :
                  /\ LiveWakeups(p) = {h}
                  /\ queue[h].action = fate[p]
                  /\ queue[h].time = simTime
  <2>1. Answered(p)
    BY <1>4 DEF WaitInv, WaitsKept, Waiting, Dropped, Outcomes
  <2>2. PICK h \in DOMAIN queue :
          /\ Answers(h, p)
          /\ queue[h].action = fate[p] /\ queue[h].time = simTime
          /\ \A k \in DOMAIN queue : Answers(k, p) => k = h
    BY <2>1 DEF Answered
  <2>3. LiveWakeups(p) = {h}
    BY <2>2 DEF LiveWakeups, Answers, IsWakeup
  <2>4. Registrations(p) = {}
    BY <1>1, <1>4 DEF Outcomes
  <2>. QED BY <2>2, <2>3, <2>4
<1>5. awaiting[p] = 0 => Registrations(p) = {}
  BY <1>1, <1>2
<1>. QED BY <1>3, <1>4, <1>5

-----------------------------------------------------------------------------
(* What Requeue makes of the queue, seen from either side.                 *)
LEMMA RequeueOld ==
  ASSUME TypeOK, NEW gone, NEW evs \in Seq(Event), NEW h \in DOMAIN queue \ gone
  PROVE  h \in DOMAIN Requeue(gone, evs) /\ Requeue(gone, evs)[h] = queue[h]
<1>1. h \in Nat /\ counter \in Nat /\ ~(h > counter)
  BY DEF TypeOK
<1>. QED BY <1>1 DEF Requeue

LEMMA RequeueNew ==
  ASSUME TypeOK, NEW gone, NEW evs \in Seq(Event), NEW i \in 1..Len(evs)
  PROVE  /\ counter + i \in DOMAIN Requeue(gone, evs)
         /\ Requeue(gone, evs)[counter + i] = evs[i]
         /\ counter + i \notin DOMAIN queue
<1>1. /\ counter \in Nat /\ Len(evs) \in Nat
      /\ counter + i > counter /\ (counter + i) - counter = i
      /\ counter + i \in (counter + 1)..(counter + Len(evs))
      /\ DOMAIN queue \subseteq 1..counter
  BY DEF TypeOK
<1>. QED BY <1>1 DEF Requeue

LEMMA RequeueSplit ==
  ASSUME TypeOK, NEW gone, NEW evs \in Seq(Event),
         NEW h \in DOMAIN Requeue(gone, evs)
  PROVE  \/ h \in DOMAIN queue \ gone /\ Requeue(gone, evs)[h] = queue[h]
         \/ \E i \in 1..Len(evs) :
              /\ h = counter + i /\ h \notin DOMAIN queue
              /\ Requeue(gone, evs)[h] = evs[i]
<1>1. Len(evs) \in Nat /\ counter \in Nat /\ DOMAIN queue \subseteq 1..counter
  BY DEF TypeOK
<1>2. h \in (DOMAIN queue \ gone) \cup (counter + 1)..(counter + Len(evs))
  BY DEF Requeue
<1>3. CASE h \in DOMAIN queue \ gone
  BY <1>3, RequeueOld
<1>4. CASE h \in (counter + 1)..(counter + Len(evs))
  <2>1. h - counter \in 1..Len(evs) /\ h = counter + (h - counter)
    BY <1>1, <1>4
  <2>. QED BY <2>1, RequeueNew
<1>. QED BY <1>2, <1>3, <1>4

(* Events of clients leave the queue, by dispatch or cancellation, and for *)
(* each of their waiters, found by its slot, one wakeup enters it, for the *)
(* present instant.  The clock does not pass the wakeups that are there.   *)
Departs(gone, how, evs, slot) ==
  /\ gone \subseteq DOMAIN queue /\ \A h \in gone : ~IsWakeup(h)
  /\ how \in Outcomes
  /\ queue' = Requeue(gone, evs)
  /\ counter' = counter + Len(evs)
  /\ awaiting' = awaiting /\ told' = told
  /\ fate' = Settle(gone, how)
  /\ \A j \in 1..Len(evs) :
       /\ slot[j][1] \in gone
       /\ slot[j][2] \in 1..Len(queue[slot[j][1]].waiters)
       /\ evs[j] = Wakeup(how, slot[j][1], slot[j][2], simTime')
  /\ \A j, k \in 1..Len(evs) :
       slot[j][1] = slot[k][1] /\ slot[j][2] = slot[k][2] => j = k
  /\ \A h \in gone : \A i \in 1..Len(queue[h].waiters) :
       \E j \in 1..Len(evs) : slot[j][1] = h /\ slot[j][2] = i
  /\ \A h \in DOMAIN queue :
       IsWakeup(h) /\ queue[h].time = simTime => simTime' = simTime

LEMMA DepartureWaits ==
  ASSUME WaitInv, Inv', NEW gone, NEW how, NEW evs \in Seq(Event), NEW slot,
         Departs(gone, how, evs, slot)
  PROVE  WaitInv'
<1> USE DEF Departs
<1>1. /\ TypeOK /\ counter \in Nat /\ Len(evs) \in Nat
      /\ DOMAIN queue \subseteq 1..counter
      /\ awaiting \in [Process -> Nat]
      /\ fate \in [Process -> {"none", "pending", "cleared"} \cup Outcomes]
      /\ \A h \in DOMAIN queue : queue[h] \in Event /\ queue[h].waiters \in Seq(Process)
  BY DEF WaitInv, Inv, TypeOK, Event
(* The wakeup for slot j.                                                  *)
<1>2. ASSUME NEW j \in 1..Len(evs)
      PROVE  /\ evs[j].action = how /\ how # "client"
             /\ evs[j].subject = queue[slot[j][1]].waiters[slot[j][2]]
             /\ evs[j].subject \in Process
             /\ evs[j].object = slot[j][1]
             /\ evs[j].time = simTime' /\ evs[j].waiters = <<>>
             /\ awaiting[evs[j].subject] = slot[j][1]
             /\ fate[evs[j].subject] = "pending"
  <2>1. slot[j][1] \in DOMAIN queue /\ slot[j][2] \in 1..Len(queue[slot[j][1]].waiters)
    OBVIOUS
  <2>2. evs[j] = Wakeup(how, slot[j][1], slot[j][2], simTime')
    OBVIOUS
  <2>. HIDE DEF Departs
  <2>3. PICK h \in DOMAIN queue : h = slot[j][1]
    BY <2>1
  <2>4. PICK i \in 1..Len(queue[h].waiters) : i = slot[j][2]
    BY <2>1, <2>3
  <2>5. queue[h].waiters \in Seq(Process)
    BY <1>1
  <2>6. queue[h].waiters[i] \in Process
    BY <2>5
  <2>7. awaiting[queue[h].waiters[i]] = h /\ fate[queue[h].waiters[i]] = "pending"
    BY DEF WaitInv, WaitersWait
  <2>8. how # "client"
    BY DEF Departs, Outcomes
  <2>9. /\ evs[j].action = how /\ evs[j].subject = queue[h].waiters[i] /\ evs[j].object = h
        /\ evs[j].time = simTime' /\ evs[j].waiters = <<>>
    BY <2>2, <2>3, <2>4 DEF Wakeup
  <2>. QED BY <2>3, <2>4, <2>6, <2>7, <2>8, <2>9
<1>3. \A h \in DOMAIN queue' :
        \/ h \in DOMAIN queue \ gone /\ queue'[h] = queue[h]
        \/ \E i \in 1..Len(evs) :
             h = counter + i /\ h \notin DOMAIN queue /\ queue'[h] = evs[i]
  BY <1>1, RequeueSplit
<1>4. \A h \in DOMAIN queue \ gone : h \in DOMAIN queue' /\ queue'[h] = queue[h]
  BY <1>1, RequeueOld
<1>5. \A i \in 1..Len(evs) : counter + i \in DOMAIN queue' /\ queue'[counter + i] = evs[i]
  BY <1>1, RequeueNew
<1>6. \A h \in gone : h \notin DOMAIN queue'
  BY <1>3
<1>7. WakeupsDead'
  <2> SUFFICES ASSUME NEW h \in DOMAIN queue', IsWakeup(h)'
               PROVE  /\ queue'[h].waiters = <<>>
                      /\ queue'[h].subject \in Process
                      /\ queue'[h].object \in 1..counter'
                      /\ queue'[h].object \notin DOMAIN queue'
    BY DEF WakeupsDead
  <2>1. CASE h \in DOMAIN queue \ gone /\ queue'[h] = queue[h]
    <3>1. /\ queue[h].waiters = <<>>
          /\ queue[h].subject \in Process
          /\ queue[h].object \in 1..counter
          /\ queue[h].object \notin DOMAIN queue
      BY <2>1 DEF WaitInv, WakeupsDead, IsWakeup
    <3>2. queue[h].object \notin DOMAIN queue'
      BY <1>1, <1>3, <3>1
    <3>. QED BY <1>1, <2>1, <3>1, <3>2
  <2>2. ASSUME NEW i \in 1..Len(evs), queue'[h] = evs[i]
        PROVE  /\ queue'[h].waiters = <<>>
               /\ queue'[h].subject \in Process
               /\ queue'[h].object \in 1..counter'
               /\ queue'[h].object \notin DOMAIN queue'
    <3>1. evs[i].object \in gone /\ evs[i].object \in 1..counter
      BY <1>1, <1>2
    <3>. QED BY <1>1, <1>2, <1>6, <2>2, <3>1
  <2>. QED BY <1>3, <2>1, <2>2
<1>8. WaitersWait'
  <2> SUFFICES ASSUME NEW h \in DOMAIN queue', NEW i \in 1..Len(queue'[h].waiters)
               PROVE  LET p == queue'[h].waiters[i]
                      IN  /\ awaiting'[p] = h /\ fate'[p] = "pending"
                          /\ \A j \in 1..Len(queue'[h].waiters) :
                               queue'[h].waiters[j] = p => j = i
    BY DEF WaitersWait
  <2>1. h \in DOMAIN queue \ gone /\ queue'[h] = queue[h]
    BY <1>2, <1>3
  <2>2. queue[h].waiters[i] \in Process
    BY <1>1, <2>1
  <2>. QED BY <2>1, <2>2 DEF WaitInv, WaitersWait, Settle
<1>9. ASSUME NEW p \in Process, awaiting[p] # 0
      PROVE  (Waiting(p) \/ Answered(p) \/ Dropped(p))'
  <2>1. CASE Waiting(p) /\ awaiting[p] \notin gone
    BY <1>4, <2>1 DEF Waiting, IsWakeup, Settle
  <2>2. CASE Waiting(p) /\ awaiting[p] \in gone
    <3>1. PICK i \in 1..Len(queue[awaiting[p]].waiters) :
            queue[awaiting[p]].waiters[i] = p
      BY <2>2 DEF Waiting
    <3>2. PICK j \in 1..Len(evs) : slot[j][1] = awaiting[p] /\ slot[j][2] = i
      BY <2>2, <3>1
    <3>3. queue[slot[j][1]].waiters[slot[j][2]] = p
      BY <3>1, <3>2
    <3>4. PICK h : /\ h = counter + j
                   /\ h \in DOMAIN queue' /\ queue'[h] = evs[j]
                   /\ evs[j].subject = p /\ evs[j].object = awaiting[p]
                   /\ evs[j].action = how /\ how # "client" /\ evs[j].time = simTime'
      BY <1>2, <1>5, <3>2, <3>3
    <3>5. ASSUME NEW k \in DOMAIN queue', Answers(k, p)'
          PROVE  k = h
      <4>1. ~(k \in DOMAIN queue \ gone /\ queue'[k] = queue[k])
        BY <2>2, <3>5 DEF Answers, IsWakeup, WaitInv, WakeupsDead
      <4>2. PICK m \in 1..Len(evs) : k = counter + m /\ queue'[k] = evs[m]
        BY <1>3, <4>1
      <4>3. /\ slot[m][1] = awaiting[p] /\ queue[slot[m][1]].waiters[slot[m][2]] = p
            /\ slot[m][2] \in 1..Len(queue[awaiting[p]].waiters)
        <5>1. evs[m].object = awaiting[p] /\ evs[m].subject = p
          BY <3>5, <4>2 DEF Answers
        <5>2. slot[m][2] \in 1..Len(queue[slot[m][1]].waiters)
          OBVIOUS
        <5>. QED BY <1>2, <5>1, <5>2
      <4>4. \A n \in 1..Len(queue[awaiting[p]].waiters) :
              queue[awaiting[p]].waiters[n] = p => n = i
        BY <2>2, <3>1 DEF WaitInv, WaitersWait
      <4>5. slot[m][2] = i
        BY <4>3, <4>4
      <4>6. m = j
        BY <3>2, <4>3, <4>5
      <4>. QED BY <3>4, <4>2, <4>6
    <3>6. fate'[p] = how
      BY <2>2 DEF Waiting, Settle
    <3>7. Answers(h, p)'
      BY <3>4 DEF Answers, IsWakeup
    <3>8. Answered(p)'
      BY <3>4, <3>5, <3>6, <3>7 DEF Answered
    <3>. QED BY <3>8
  <2>3. CASE Answered(p)
    <3>1. PICK h \in DOMAIN queue :
            /\ Answers(h, p)
            /\ queue[h].action = fate[p] /\ queue[h].time = simTime
            /\ \A k \in DOMAIN queue : Answers(k, p) => k = h
      BY <2>3 DEF Answered
    <3>2. h \notin gone /\ simTime' = simTime /\ queue'[h] = queue[h] /\ h \in DOMAIN queue'
      BY <1>4, <3>1 DEF Answers
    <3>3. fate'[p] = fate[p] /\ fate[p] # "pending"
      BY <2>3 DEF Answered, Outcomes, Settle
    <3>4. ASSUME NEW k \in DOMAIN queue', Answers(k, p)'
          PROVE  k = h
      <4>1. CASE k \in DOMAIN queue \ gone /\ queue'[k] = queue[k]
        BY <3>1, <3>4, <4>1 DEF Answers, IsWakeup
      <4>2. ASSUME NEW m \in 1..Len(evs), queue'[k] = evs[m]
            PROVE  FALSE
        <5>1. evs[m].subject = p
          BY <3>4, <4>2 DEF Answers
        <5>. QED BY <1>2, <3>3, <5>1
      <4>. QED BY <1>3, <4>1, <4>2
    <3>5. Answers(h, p)'
      BY <3>1, <3>2 DEF Answers, IsWakeup
    <3>6. Answered(p)'
      BY <2>3, <3>1, <3>2, <3>3, <3>4, <3>5 DEF Answered
    <3>. QED BY <3>6
  <2>4. CASE Dropped(p)
    <3>1. fate[p] = "cleared" /\ awaiting[p] \notin DOMAIN queue /\ awaiting[p] <= counter
      BY <2>4 DEF Dropped, WaitInv, WaitsKept
    <3>2. awaiting[p] \notin DOMAIN queue'
      BY <1>1, <1>3, <3>1
    <3>3. ASSUME NEW k \in DOMAIN queue', Answers(k, p)'
          PROVE  FALSE
      <4>1. CASE k \in DOMAIN queue \ gone /\ queue'[k] = queue[k]
        BY <2>4, <3>3, <4>1 DEF Answers, IsWakeup, Dropped
      <4>2. ASSUME NEW m \in 1..Len(evs), queue'[k] = evs[m]
            PROVE  FALSE
        <5>1. evs[m].subject = p
          BY <3>3, <4>2 DEF Answers
        <5>. QED BY <1>2, <3>1, <5>1
      <4>. QED BY <1>3, <3>3, <4>1, <4>2
    <3>4. Dropped(p)'
      BY <3>1, <3>2, <3>3 DEF Dropped, Settle
    <3>. QED BY <3>4
  <2>5. Waiting(p) \/ Answered(p) \/ Dropped(p)
    BY <1>9 DEF WaitInv, WaitsKept
  <2>. QED BY <2>1, <2>2, <2>3, <2>4, <2>5
<1>10. WaitsKept'
  <2>1. \A p \in Process : awaiting'[p] <= counter'
    BY <1>1 DEF WaitInv, WaitsKept
  <2>. QED BY <1>9, <2>1 DEF WaitsKept
<1>11. TruthfulReturn'
  <2> SUFFICES ASSUME NEW p \in Process, awaiting[p] = 0, told[p] # "none", fate'[p] # "none"
               PROVE  told[p] = fate'[p]
    BY DEF TruthfulReturn
  <2>1. fate'[p] = fate[p]
    BY <1>1 DEF Settle
  <2>. QED BY <2>1 DEF WaitInv, TruthfulReturn
<1>. QED BY <1>7, <1>8, <1>10, <1>11 DEF WaitInv

LEMMA ExecuteWaits ==
  ASSUME WaitInv, NEW h \in DOMAIN queue, ExecuteClient(h)
  PROVE  WaitInv'
<1> DEFINE gone == {h}
           evs == Wakeups("occurred", h, queue[h].time)
           slot == [j \in 1..Len(evs) |-> <<h, j>>]
<1>1. Inv /\ Inv'
  BY ExecuteInv DEF WaitInv
<1>2. /\ queue' = Requeue(gone, evs)
      /\ counter' = counter + Len(evs)
      /\ simTime' = queue[h].time
      /\ fate' = Settle(gone, "occurred")
      /\ awaiting' = awaiting /\ told' = told
      /\ gone \in SUBSET DOMAIN queue
      /\ \A k \in gone : ~IsWakeup(k)
  BY DEF ExecuteClient, IsWakeup
<1>3. evs \in Seq(Event) /\ Len(evs) = Len(queue[h].waiters)
  <2>1. queue[h].time \in Times
    BY <1>1, DispatchTime DEF ExecuteClient
  <2>2. Len(queue[h].waiters) \in Nat
    BY <1>1 DEF Inv, TypeOK, Event
  <2>. QED BY <1>1, <2>1, <2>2, WakeupsType DEF Inv, Outcomes, Wakeups
<1>4. \A j \in 1..Len(evs) :
        /\ slot[j][1] = h /\ slot[j][2] = j
        /\ evs[j] = Wakeup("occurred", h, j, simTime')
  BY <1>2, <1>3 DEF Wakeups
<1>5. \A i \in 1..Len(queue[h].waiters) :
        \E j \in 1..Len(evs) : slot[j][1] = h /\ slot[j][2] = i
  BY <1>3, <1>4
<1>6. \A k \in DOMAIN queue :
        IsWakeup(k) /\ queue[k].time = simTime => simTime' = simTime
  <2>1. /\ \A k \in DOMAIN queue : queue[k].time >= queue[h].time
        /\ queue[h].time >= simTime
    BY <1>1, DispatchTime DEF ExecuteClient
  <2>2. simTime \in Int /\ queue[h].time \in Int
    BY <1>1 DEF Inv, TypeOK, Times, Event
  <2>. QED BY <1>2, <2>1, <2>2
<1>7. \A k \in gone : k = h
  OBVIOUS
<1>8. "occurred" \in Outcomes
  BY DEF Outcomes
<1> HIDE DEF gone, evs, slot
<1>9. \A j \in 1..Len(evs) :
        /\ slot[j][1] \in gone
        /\ slot[j][2] \in 1..Len(queue[slot[j][1]].waiters)
        /\ evs[j] = Wakeup("occurred", slot[j][1], slot[j][2], simTime')
  BY <1>3, <1>4 DEF gone
<1>10. \A j, k \in 1..Len(evs) :
         slot[j][1] = slot[k][1] /\ slot[j][2] = slot[k][2] => j = k
  BY <1>4
<1>11. \A k \in gone : \A i \in 1..Len(queue[k].waiters) :
         \E j \in 1..Len(evs) : slot[j][1] = k /\ slot[j][2] = i
  BY <1>5, <1>7
<1>12. Departs(gone, "occurred", evs, slot)
  BY <1>2, <1>6, <1>8, <1>9, <1>10, <1>11 DEF Departs
<1>. QED BY <1>1, <1>3, <1>12, DepartureWaits

LEMMA RemoveWaits ==
  ASSUME WaitInv, NEW gone \in SUBSET DOMAIN queue, Remove(gone),
         \A h \in gone : ~IsWakeup(h)
  PROVE  WaitInv'
<1>1. PICK n \in 0..(MaxHandle - counter) :
        \E f \in [1..n -> WakeSlots(gone)] :
          /\ WakeOrder(gone, n, f)
          /\ queue' = Requeue(gone,
                        [j \in 1..n |->
                           Wakeup("cancelled", f[j][1], f[j][2], simTime)])
          /\ counter' = counter + n
          /\ fate' = Settle(gone, "cancelled")
          /\ UNCHANGED <<simTime, current, awaiting, told>>
  BY DEF Remove
<1>2. PICK f \in [1..n -> WakeSlots(gone)] :
        /\ WakeOrder(gone, n, f)
        /\ queue' = Requeue(gone,
                      [j \in 1..n |->
                         Wakeup("cancelled", f[j][1], f[j][2], simTime)])
  BY <1>1
<1> DEFINE evs == [j \in 1..n |->
                     Wakeup("cancelled", f[j][1], f[j][2], simTime)]
<1>3. Inv /\ Inv'
  BY RemoveInv DEF WaitInv
<1>4. ASSUME NEW j \in 1..n
      PROVE  /\ evs[j] \in Event
             /\ f[j][1] \in gone /\ f[j][2] \in 1..Len(queue[f[j][1]].waiters)
             /\ f[j] = <<f[j][1], f[j][2]>>
             /\ evs[j] = Wakeup("cancelled", f[j][1], f[j][2], simTime')
  <2>1. f[j] \in WakeSlots(gone)
    OBVIOUS
  <2>2. /\ f[j][1] \in gone /\ f[j][2] \in 1..Len(queue[f[j][1]].waiters)
        /\ f[j] = <<f[j][1], f[j][2]>>
    BY <2>1, SlotOf
  <2>3. evs[j] \in Event
    BY <1>3, <2>2, WakeupType DEF Inv, TypeOK, Outcomes
  <2>. QED BY <1>1, <2>2, <2>3
<1>5. evs \in Seq(Event) /\ Len(evs) = n
  <2>1. evs \in [1..n -> Event] /\ n \in Nat
    BY <1>4
  <2>. QED BY <2>1
<1> HIDE DEF evs
<1>6. /\ queue' = Requeue(gone, evs)
      /\ counter' = counter + Len(evs)
      /\ fate' = Settle(gone, "cancelled")
      /\ awaiting' = awaiting /\ told' = told /\ simTime' = simTime
      /\ "cancelled" \in Outcomes
  BY <1>1, <1>2, <1>5 DEF evs, Outcomes
<1>7. \A j, k \in 1..Len(evs) :
        f[j][1] = f[k][1] /\ f[j][2] = f[k][2] => j = k
  <2>1. n \in Int /\ \A j, k \in 1..n : j < k => f[j] # f[k]
    BY <1>2 DEF WakeOrder
  <2>2. \A j, k \in 1..n :
          f[j][1] = f[k][1] /\ f[j][2] = f[k][2] => f[j] = f[k]
    BY <1>4
  <2>. QED BY <1>5, <2>1, <2>2
<1>8. ASSUME NEW h \in gone, NEW i \in 1..Len(queue[h].waiters)
      PROVE  \E j \in 1..Len(evs) : f[j][1] = h /\ f[j][2] = i
  <2>1. <<h, i>> \in WakeSlots(gone)
    BY DEF WakeSlots
  <2>2. PICK j \in 1..n : f[j] = <<h, i>>
    BY <1>2, <2>1 DEF WakeOrder
  <2>. QED BY <1>5, <2>2
<1>9. \A h \in DOMAIN queue :
        IsWakeup(h) /\ queue[h].time = simTime => simTime' = simTime
  BY <1>6
<1>10. Departs(gone, "cancelled", evs, f)
  BY <1>4, <1>5, <1>6, <1>7, <1>8, <1>9 DEF Departs
<1>. QED BY <1>3, <1>5, <1>10, DepartureWaits

(* A step that leaves the wakeups and the waiters of every event as they   *)
(* are, and may add events of clients that nobody waits for.               *)
LEMMA SteadyWaits ==
  ASSUME WaitInv, Inv',
         counter' >= counter,
         UNCHANGED <<simTime, awaiting, fate, told>>,
         \A h \in DOMAIN queue :
           /\ h \in DOMAIN queue'
           /\ queue'[h].waiters = queue[h].waiters
           /\ queue'[h].action = queue[h].action
           /\ IsWakeup(h) => queue'[h] = queue[h],
         \A h \in DOMAIN queue' :
           \/ h \in DOMAIN queue
           \/ h > counter /\ queue'[h].action = "client" /\ queue'[h].waiters = <<>>
  PROVE  WaitInv'
<1>1. /\ counter \in Nat /\ counter' \in Nat
      /\ DOMAIN queue \subseteq 1..counter
      /\ awaiting \in [Process -> Nat]
  BY DEF WaitInv, Inv, TypeOK
<1>2. \A h \in DOMAIN queue' :
        IsWakeup(h)' => h \in DOMAIN queue /\ IsWakeup(h) /\ queue'[h] = queue[h]
  BY DEF IsWakeup
<1>3. WakeupsDead'
  <2> SUFFICES ASSUME NEW h \in DOMAIN queue', IsWakeup(h)'
               PROVE  /\ queue'[h].waiters = <<>>
                      /\ queue'[h].subject \in Process
                      /\ queue'[h].object \in 1..counter'
                      /\ queue'[h].object \notin DOMAIN queue'
    BY DEF WakeupsDead
  <2>1. h \in DOMAIN queue /\ IsWakeup(h) /\ queue'[h] = queue[h]
    BY <1>2
  <2>2. /\ queue[h].waiters = <<>>
        /\ queue[h].subject \in Process
        /\ queue[h].object \in 1..counter
        /\ queue[h].object \notin DOMAIN queue
    BY <2>1 DEF WaitInv, WakeupsDead
  <2>3. queue[h].object \notin DOMAIN queue'
    BY <1>1, <2>2
  <2>. QED BY <1>1, <2>1, <2>2, <2>3
<1>4. WaitersWait'
  <2> SUFFICES ASSUME NEW h \in DOMAIN queue', NEW i \in 1..Len(queue'[h].waiters)
               PROVE  LET p == queue'[h].waiters[i]
                      IN  /\ awaiting'[p] = h /\ fate'[p] = "pending"
                          /\ \A j \in 1..Len(queue'[h].waiters) :
                               queue'[h].waiters[j] = p => j = i
    BY DEF WaitersWait
  <2>1. h \in DOMAIN queue /\ queue'[h].waiters = queue[h].waiters
    OBVIOUS
  <2>. QED BY <2>1 DEF WaitInv, WaitersWait
<1>5. ASSUME NEW p \in Process, awaiting[p] # 0
      PROVE  (Waiting(p) \/ Answered(p) \/ Dropped(p))'
  <2>1. awaiting[p] <= counter
    BY DEF WaitInv, WaitsKept
  <2>2. awaiting[p] \in DOMAIN queue' => awaiting[p] \in DOMAIN queue
    BY <1>1, <2>1
  <2>3. CASE Waiting(p)
    BY <2>3 DEF Waiting, IsWakeup
  <2>4. CASE Answered(p)
    <3>1. PICK h \in DOMAIN queue :
            /\ Answers(h, p)
            /\ queue[h].action = fate[p] /\ queue[h].time = simTime
            /\ \A k \in DOMAIN queue : Answers(k, p) => k = h
      BY <2>4 DEF Answered
    <3>2. h \in DOMAIN queue' /\ queue'[h] = queue[h]
      BY <3>1 DEF Answers
    <3>3. Answers(h, p)'
      BY <3>1, <3>2 DEF Answers, IsWakeup
    <3>4. \A k \in DOMAIN queue' : Answers(k, p)' => k = h
      BY <1>2, <3>1 DEF Answers
    <3>. QED BY <2>4, <3>1, <3>2, <3>3, <3>4 DEF Answered
  <2>5. CASE Dropped(p)
    BY <1>2, <2>2, <2>5 DEF Dropped, Answers
  <2>. QED BY <1>5, <2>3, <2>4, <2>5 DEF WaitInv, WaitsKept
<1>6. WaitsKept'
  BY <1>1, <1>5 DEF WaitInv, WaitsKept
<1>7. TruthfulReturn'
  BY DEF WaitInv, TruthfulReturn
<1>. QED BY <1>3, <1>4, <1>6, <1>7 DEF WaitInv

LEMMA ScheduleWaits ==
  ASSUME WaitInv, NEW subj \in Subject, NEW t \in Times, NEW pri \in Priority,
         Schedule(subj, t, pri)
  PROVE  WaitInv'
<1> DEFINE ev == [action |-> "client", subject |-> subj, object |-> 0,
                  time |-> t, prio |-> pri, waiters |-> <<>>]
           gone == {}
           evs == <<ev>>
<1>1. ev \in Event /\ ev.action = "client" /\ ev.waiters = <<>>
  <2>1. pri \in Int /\ <<>> \in Seq(Process)
    BY PrioAssumption
  <2>. QED BY <2>1 DEF Event, Actions
<1>2. Inv /\ Inv' /\ TypeOK
  BY ScheduleInv DEF WaitInv, Inv
<1>3. /\ queue' = Requeue(gone, evs)
      /\ counter' = counter + 1
      /\ UNCHANGED <<simTime, awaiting, fate, told>>
  BY DEF Schedule
<1>4. counter \in Nat
  BY <1>2 DEF TypeOK
<1> HIDE DEF ev
<1>5. evs \in Seq(Event) /\ Len(evs) = 1 /\ \A i \in 1..Len(evs) : evs[i] = ev
  BY <1>1
<1>6. gone = {}
  OBVIOUS
<1> HIDE DEF gone, evs
<1>7. \A h \in DOMAIN queue : h \in DOMAIN queue' /\ queue'[h] = queue[h]
  BY <1>2, <1>3, <1>5, <1>6, RequeueOld
<1>8. ASSUME NEW h \in DOMAIN queue'
      PROVE  \/ h \in DOMAIN queue
             \/ h > counter /\ queue'[h].action = "client" /\ queue'[h].waiters = <<>>
  <2>1. \/ h \in DOMAIN queue \ gone /\ queue'[h] = queue[h]
        \/ \E i \in 1..Len(evs) :
             h = counter + i /\ h \notin DOMAIN queue /\ queue'[h] = evs[i]
    BY <1>2, <1>3, <1>5, RequeueSplit
  <2>. QED BY <1>1, <1>4, <1>5, <2>1
<1>9. counter' >= counter
  BY <1>3, <1>4
<1>. QED BY <1>2, <1>3, <1>7, <1>8, <1>9, SteadyWaits

LEMMA RescheduleWaits ==
  ASSUME WaitInv, NEW h \in DOMAIN queue, NEW t \in Times, Reschedule(h, t)
  PROVE  WaitInv'
<1>1. /\ ~IsWakeup(h)
      /\ queue' = [queue EXCEPT ![h].time = t]
      /\ UNCHANGED <<simTime, counter, awaiting, fate, told>>
  BY DEF Reschedule, IsWakeup
<1>2. Inv' /\ queue \in [DOMAIN queue -> Event] /\ counter \in Nat
  BY RescheduleInv DEF WaitInv, Inv, TypeOK
<1>3. /\ DOMAIN queue' = DOMAIN queue
      /\ \A k \in DOMAIN queue :
           /\ queue'[k].waiters = queue[k].waiters
           /\ queue'[k].action = queue[k].action
           /\ k # h => queue'[k] = queue[k]
  BY <1>1, <1>2 DEF Event
<1>4. counter' >= counter
  BY <1>1, <1>2
<1>. QED BY <1>1, <1>2, <1>3, <1>4, SteadyWaits

LEMMA ReprioritizeWaits ==
  ASSUME WaitInv, NEW h \in DOMAIN queue, NEW pri \in Priority, Reprioritize(h, pri)
  PROVE  WaitInv'
<1>1. /\ ~IsWakeup(h)
      /\ queue' = [queue EXCEPT ![h].prio = pri]
      /\ UNCHANGED <<simTime, counter, awaiting, fate, told>>
  BY DEF Reprioritize, IsWakeup
<1>2. Inv' /\ queue \in [DOMAIN queue -> Event] /\ counter \in Nat
  BY ReprioritizeInv DEF WaitInv, Inv, TypeOK
<1>3. /\ DOMAIN queue' = DOMAIN queue
      /\ \A k \in DOMAIN queue :
           /\ queue'[k].waiters = queue[k].waiters
           /\ queue'[k].action = queue[k].action
           /\ k # h => queue'[k] = queue[k]
  BY <1>1, <1>2 DEF Event
<1>4. counter' >= counter
  BY <1>1, <1>2
<1>. QED BY <1>1, <1>2, <1>3, <1>4, SteadyWaits

LEMMA ClearWaits ==
  ASSUME WaitInv, Clear
  PROVE  WaitInv'
<1>1. Inv' /\ DOMAIN queue' = {}
  BY ClearInv DEF Clear, WaitInv
<1>2. /\ fate' = [p \in Process |-> IF awaiting[p] # 0 THEN "cleared" ELSE fate[p]]
      /\ UNCHANGED <<simTime, counter, awaiting, told>>
  BY DEF Clear
<1>3. WakeupsDead' /\ WaitersWait'
  BY <1>1 DEF WakeupsDead, WaitersWait
<1>4. WaitsKept'
  BY <1>1, <1>2 DEF WaitInv, WaitsKept, Dropped
<1>5. TruthfulReturn'
  BY <1>2 DEF WaitInv, TruthfulReturn
<1>. QED BY <1>1, <1>3, <1>4, <1>5 DEF WaitInv

LEMMA DeliverWaits ==
  ASSUME WaitInv, NEW h \in DOMAIN queue, Deliver(h)
  PROVE  WaitInv'
<1> DEFINE p == queue[h].subject
           gone == {h}
           evs == <<>>
<1>1. Inv /\ Inv' /\ TypeOK
  BY DeliverInv DEF WaitInv, Inv
<1>2. /\ evs \in Seq(Event) /\ 1..Len(evs) = {}
      /\ DOMAIN queue \ gone = {k \in DOMAIN queue : k # h}
  OBVIOUS
<1>3. queue' = Requeue(gone, evs)
  BY DEF Deliver
<1> HIDE DEF gone, evs, p
<1>4. /\ \A k \in DOMAIN queue' : k \in DOMAIN queue /\ k # h /\ queue'[k] = queue[k]
      /\ \A k \in DOMAIN queue : k # h => k \in DOMAIN queue' /\ queue'[k] = queue[k]
  <2>1. ASSUME NEW k \in DOMAIN queue'
        PROVE  k \in DOMAIN queue /\ k # h /\ queue'[k] = queue[k]
    <3>1. k \in DOMAIN queue \ gone /\ queue'[k] = queue[k]
      BY <1>1, <1>2, <1>3, RequeueSplit
    <3>. QED BY <1>2, <3>1
  <2>2. ASSUME NEW k \in DOMAIN queue, k # h
        PROVE  k \in DOMAIN queue' /\ queue'[k] = queue[k]
    <3>1. k \in DOMAIN queue \ gone
      BY <1>2, <2>2
    <3>. QED BY <1>1, <1>2, <1>3, <3>1, RequeueOld
  <2>. QED BY <2>1, <2>2
<1>5. /\ IsWakeup(h) /\ p \in Process
      /\ queue[h].object \notin DOMAIN queue /\ queue[h].object # 0
      /\ queue[h].action \in Outcomes
  BY <1>1 DEF Deliver, IsWakeup, WaitInv, WakeupsDead, TypeOK, Event, Actions, p
<1>6. /\ UNCHANGED <<counter, fate>>
      /\ \A q \in Process : awaiting'[q] # 0 =>
           awaiting'[q] = awaiting[q] /\ ~Answers(h, q)
      /\ \A q \in Process :
           \/ awaiting'[q] = awaiting[q] /\ told'[q] = told[q]
           \/ /\ q = p /\ awaiting[q] = queue[h].object
              /\ awaiting'[q] = 0 /\ told'[q] = queue[h].action
  BY <1>1, <1>5 DEF Deliver, Answers, TypeOK, p
<1>7. \A k \in DOMAIN queue : queue[k].time = simTime => simTime' = simTime
  <2>1. /\ \A k \in DOMAIN queue : queue[k].time >= queue[h].time
        /\ queue[h].time >= simTime
    BY <1>1, DispatchTime DEF Deliver
  <2>2. simTime \in Int /\ queue[h].time \in Int /\ simTime' = queue[h].time
    BY <1>1 DEF Deliver, TypeOK, Times, Event
  <2>. QED BY <2>1, <2>2
<1>8. WakeupsDead'
  BY <1>4, <1>6 DEF WaitInv, WakeupsDead, IsWakeup
<1>9. \A q \in Process : fate[q] = "pending" /\ awaiting[q] \in DOMAIN queue =>
        awaiting'[q] = awaiting[q]
  BY <1>5, <1>6
<1>10. WaitersWait'
  <2> SUFFICES ASSUME NEW k \in DOMAIN queue', NEW i \in 1..Len(queue'[k].waiters)
               PROVE  LET q == queue'[k].waiters[i]
                      IN  /\ awaiting'[q] = k /\ fate'[q] = "pending"
                          /\ \A j \in 1..Len(queue'[k].waiters) :
                               queue'[k].waiters[j] = q => j = i
    BY DEF WaitersWait
  <2>1. k \in DOMAIN queue /\ queue'[k] = queue[k]
    BY <1>4
  <2>2. queue[k].waiters[i] \in Process
    BY <1>1, <2>1 DEF TypeOK, Event
  <2>. QED BY <1>6, <1>9, <2>1, <2>2 DEF WaitInv, WaitersWait
<1>11. ASSUME NEW q \in Process, awaiting'[q] # 0
       PROVE  (Waiting(q) \/ Answered(q) \/ Dropped(q))'
  <2>1. awaiting'[q] = awaiting[q] /\ fate'[q] = fate[q]
    BY <1>6, <1>11
  <2>2. CASE Waiting(q)
    BY <1>4, <1>5, <2>1, <2>2 DEF Waiting, IsWakeup
  <2>3. CASE Answered(q)
    <3>1. PICK k \in DOMAIN queue :
            /\ Answers(k, q)
            /\ queue[k].action = fate[q] /\ queue[k].time = simTime
            /\ \A m \in DOMAIN queue : Answers(m, q) => m = k
      BY <2>3 DEF Answered
    <3>2. /\ k \in DOMAIN queue' /\ queue'[k] = queue[k] /\ simTime' = simTime
          /\ Answers(k, q)'
      BY <1>4, <1>6, <1>7, <1>11, <2>1, <3>1 DEF Answers, IsWakeup
    <3>3. \A m \in DOMAIN queue' : Answers(m, q)' => m = k
      BY <1>4, <2>1, <3>1 DEF Answers, IsWakeup
    <3>. QED BY <2>1, <2>3, <3>1, <3>2, <3>3 DEF Answered
  <2>4. CASE Dropped(q)
    BY <1>4, <2>1, <2>4 DEF Dropped, Answers, IsWakeup
  <2>. QED BY <1>11, <2>1, <2>2, <2>3, <2>4 DEF WaitInv, WaitsKept
<1>12. WaitsKept'
  <2>1. \A q \in Process : awaiting'[q] <= counter'
    BY <1>1, <1>6 DEF WaitInv, WaitsKept, TypeOK
  <2>. QED BY <1>11, <2>1 DEF WaitsKept
<1>13. TruthfulReturn'
  <2> SUFFICES ASSUME NEW q \in Process,
                      awaiting'[q] = 0, told'[q] # "none", fate'[q] # "none"
               PROVE  told'[q] = fate'[q]
    BY DEF TruthfulReturn
  <2>1. CASE awaiting'[q] = awaiting[q] /\ told'[q] = told[q]
    BY <1>6, <2>1 DEF WaitInv, TruthfulReturn
  <2>2. CASE /\ q = p /\ awaiting[q] = queue[h].object
             /\ awaiting'[q] = 0 /\ told'[q] = queue[h].action
    <3>1. Answers(h, q)
      BY <1>5, <2>2 DEF Answers, p
    <3>2. Answered(q)
      BY <1>5, <2>2, <3>1 DEF WaitInv, WaitsKept, Waiting, Dropped
    <3>. QED BY <1>6, <2>2, <3>1, <3>2 DEF Answered
  <2>. QED BY <1>6, <2>1, <2>2
<1>. QED BY <1>1, <1>8, <1>10, <1>12, <1>13 DEF WaitInv

(* Registering one more waiter in front of the others.                     *)
LEMMA WaitEventWaits ==
  ASSUME WaitInv, NEW p \in Process, NEW h \in DOMAIN queue, WaitEvent(p, h)
  PROVE  WaitInv'
<1> DEFINE ws == queue[h].waiters
           vs == <<p>> \o ws
<1>1. Inv /\ Inv' /\ TypeOK
  BY WaitEventInv DEF WaitInv, Inv
<1>2. ws \in Seq(Process) /\ queue[h] \in Event /\ h # 0
  BY <1>1 DEF TypeOK, Event
<1>3. /\ Len(vs) = Len(ws) + 1 /\ vs[1] = p
      /\ \A i \in 1..Len(ws) : i + 1 \in 1..Len(vs) /\ vs[i + 1] = ws[i]
      /\ \A i \in 1..Len(vs) : i = 1 \/ (i - 1 \in 1..Len(ws) /\ vs[i] = ws[i - 1])
  BY <1>2
<1>4. /\ ~IsWakeup(h) /\ awaiting[p] = 0
      /\ awaiting' = [awaiting EXCEPT ![p] = h]
      /\ fate' = [fate EXCEPT ![p] = "pending"]
      /\ told' = [told EXCEPT ![p] = "none"]
      /\ UNCHANGED <<simTime, counter, current>>
  BY DEF WaitEvent, IsWakeup
<1>5. /\ DOMAIN queue' = DOMAIN queue
      /\ \A k \in DOMAIN queue : k # h => queue'[k] = queue[k]
      /\ queue'[h].waiters = vs /\ queue'[h].action = queue[h].action
  <2>1. queue' = [queue EXCEPT ![h].waiters = vs]
    BY DEF WaitEvent
  <2>. QED BY <1>1, <1>2, <2>1 DEF TypeOK, Event
<1>6. /\ awaiting'[p] = h /\ fate'[p] = "pending" /\ told'[p] = "none"
      /\ \A q \in Process : q # p =>
           awaiting'[q] = awaiting[q] /\ fate'[q] = fate[q] /\ told'[q] = told[q]
  BY <1>1, <1>4 DEF TypeOK
<1>7. \A k \in DOMAIN queue' : IsWakeup(k)' => IsWakeup(k) /\ queue'[k] = queue[k]
  BY <1>4, <1>5 DEF IsWakeup
<1>8. WakeupsDead'
  BY <1>4, <1>5, <1>7 DEF WaitInv, WakeupsDead
<1>9. /\ \A k \in DOMAIN queue : \A i \in 1..Len(queue[k].waiters) :
           /\ queue[k].waiters[i] \in Process /\ queue[k].waiters[i] # p
           /\ awaiting[queue[k].waiters[i]] = k /\ fate[queue[k].waiters[i]] = "pending"
      /\ \A i, j \in 1..Len(ws) : ws[i] = ws[j] => i = j
  <2>1. \A k \in DOMAIN queue : \A i \in 1..Len(queue[k].waiters) :
          /\ queue[k].waiters[i] \in Process
          /\ awaiting[queue[k].waiters[i]] = k /\ fate[queue[k].waiters[i]] = "pending"
    <3>1. \A k \in DOMAIN queue : queue[k].waiters \in Seq(Process)
      BY <1>1 DEF TypeOK, Event
    <3>. QED BY <3>1 DEF WaitInv, WaitersWait
  <2>2. 0 \notin DOMAIN queue
    BY <1>1 DEF TypeOK
  <2>3. \A i, j \in 1..Len(ws) : ws[i] = ws[j] => i = j
    BY DEF WaitInv, WaitersWait
  <2>. QED BY <1>4, <2>1, <2>2, <2>3
<1> HIDE DEF ws, vs
<1>10. WaitersWait'
  <2>1. ASSUME NEW k \in DOMAIN queue, k # h, NEW i \in 1..Len(queue'[k].waiters)
        PROVE  LET q == queue'[k].waiters[i]
               IN  /\ awaiting'[q] = k /\ fate'[q] = "pending"
                   /\ \A j \in 1..Len(queue'[k].waiters) :
                        queue'[k].waiters[j] = q => j = i
    <3>1. queue'[k] = queue[k]
      BY <1>5, <2>1
    <3>. QED BY <1>6, <1>9, <3>1 DEF WaitInv, WaitersWait
  <2>2. ASSUME NEW i \in 1..Len(vs)
        PROVE  /\ awaiting'[vs[i]] = h /\ fate'[vs[i]] = "pending"
               /\ \A j \in 1..Len(vs) : vs[j] = vs[i] => j = i
    <3>1. CASE i = 1
      <4>1. vs[i] = p
        BY <1>3, <3>1
      <4>2. ASSUME NEW j \in 1..Len(vs), j # 1
            PROVE  vs[j] # p
        <5>1. PICK n \in 1..Len(ws) : n = j - 1 /\ vs[j] = ws[n]
          BY <1>3, <4>2
        <5>. QED BY <1>9, <5>1 DEF ws
      <4>. QED BY <1>6, <3>1, <4>1, <4>2
    <3>2. CASE i - 1 \in 1..Len(ws) /\ vs[i] = ws[i - 1]
      <4>1. PICK m \in 1..Len(ws) : m = i - 1 /\ vs[i] = ws[m]
        BY <3>2
      <4>2. /\ ws[m] \in Process /\ ws[m] # p
            /\ awaiting[ws[m]] = h /\ fate[ws[m]] = "pending"
        BY <1>9 DEF ws
      <4>3. ASSUME NEW j \in 1..Len(vs), vs[j] = vs[i]
            PROVE  j = i
        <5>1. j # 1
          BY <1>3, <4>1, <4>2, <4>3
        <5>2. PICK n \in 1..Len(ws) : n = j - 1 /\ vs[j] = ws[n]
          BY <1>3, <5>1
        <5>3. n = m
          BY <1>9, <4>1, <4>3, <5>2
        <5>. QED BY <4>1, <5>2, <5>3
      <4>. QED BY <1>6, <4>1, <4>2, <4>3
    <3>. QED BY <1>3, <3>1, <3>2
  <2>. QED BY <1>5, <2>1, <2>2 DEF WaitersWait
<1>11. Waiting(p)'
  <2>1. 1 \in 1..Len(vs)
    BY <1>2, <1>3 DEF ws
  <2>. QED BY <1>3, <1>4, <1>5, <1>6, <2>1 DEF Waiting, IsWakeup
<1>12. ASSUME NEW q \in Process, q # p, awaiting'[q] # 0
       PROVE  (Waiting(q) \/ Answered(q) \/ Dropped(q))'
  <2>1. awaiting'[q] = awaiting[q] /\ fate'[q] = fate[q]
    BY <1>6, <1>12
  <2>2. CASE Waiting(q)
    <3>1. PICK i \in 1..Len(queue[awaiting[q]].waiters) :
            queue[awaiting[q]].waiters[i] = q
      BY <2>2 DEF Waiting
    <3>2. \E j \in 1..Len(queue'[awaiting[q]].waiters) :
            queue'[awaiting[q]].waiters[j] = q
      <4>1. CASE awaiting[q] = h
        <5>1. i \in 1..Len(ws) /\ ws[i] = q
          BY <3>1, <4>1 DEF ws
        <5>2. i + 1 \in 1..Len(vs) /\ vs[i + 1] = q
          BY <1>3, <5>1
        <5>. QED BY <1>5, <4>1, <5>2
      <4>2. CASE awaiting[q] # h
        BY <1>5, <2>2, <3>1, <4>2 DEF Waiting
      <4>. QED BY <4>1, <4>2
    <3>3. ~IsWakeup(awaiting[q])'
      BY <1>5, <1>7, <2>1, <2>2 DEF Waiting
    <3>. QED BY <1>5, <2>1, <2>2, <3>2, <3>3 DEF Waiting
  <2>3. CASE Answered(q)
    <3>1. PICK k \in DOMAIN queue :
            /\ Answers(k, q)
            /\ queue[k].action = fate[q] /\ queue[k].time = simTime
            /\ \A m \in DOMAIN queue : Answers(m, q) => m = k
      BY <2>3 DEF Answered
    <3>2. k \in DOMAIN queue' /\ queue'[k] = queue[k] /\ Answers(k, q)'
      BY <1>4, <1>5, <2>1, <3>1 DEF Answers, IsWakeup
    <3>3. \A m \in DOMAIN queue' : Answers(m, q)' => m = k
      BY <1>5, <1>7, <2>1, <3>1 DEF Answers
    <3>. QED BY <1>4, <2>1, <2>3, <3>1, <3>2, <3>3 DEF Answered
  <2>4. CASE Dropped(q)
    BY <1>5, <1>7, <2>1, <2>4 DEF Dropped, Answers
  <2>. QED BY <1>12, <2>1, <2>2, <2>3, <2>4 DEF WaitInv, WaitsKept
<1>13. WaitsKept'
  <2>1. h <= counter
    BY <1>1 DEF TypeOK
  <2>2. \A q \in Process : awaiting'[q] <= counter'
    BY <1>4, <1>6, <2>1 DEF WaitInv, WaitsKept
  <2>. QED BY <1>11, <1>12, <2>2 DEF WaitsKept
<1>14. TruthfulReturn'
  BY <1>6 DEF WaitInv, TruthfulReturn
<1>. QED BY <1>1, <1>8, <1>10, <1>13, <1>14 DEF WaitInv

(* A list in which p stands at most once, without its first tag of p.      *)
LEMMA WithoutFirstSplit ==
  ASSUME NEW ws \in Seq(Process), NEW p,
         \A i, j \in 1..Len(ws) : ws[i] = p /\ ws[j] = p => i = j
  PROVE  \/ /\ WithoutFirst(ws, p) = ws
            /\ \A i \in 1..Len(ws) : ws[i] # p
         \/ \E i \in 1..Len(ws) :
              /\ ws[i] = p
              /\ Len(WithoutFirst(ws, p)) = Len(ws) - 1
              /\ \A k \in 1..(Len(ws) - 1) :
                   WithoutFirst(ws, p)[k] = IF k < i THEN ws[k] ELSE ws[k + 1]
<1>1. CASE FirstTag(ws, p) = {}
  <2>1. ASSUME NEW i \in 1..Len(ws), ws[i] = p
        PROVE  i \in FirstTag(ws, p)
    <3>1. \A k \in 1..(i - 1) : k \in 1..Len(ws) /\ k # i
      OBVIOUS
    <3>. QED BY <2>1, <3>1 DEF FirstTag
  <2>. QED BY <1>1, <2>1 DEF WithoutFirst
<1>2. CASE FirstTag(ws, p) # {}
  <2> DEFINE i == CHOOSE i \in FirstTag(ws, p) : TRUE
  <2>1. i \in FirstTag(ws, p)
    BY <1>2
  <2>2. WithoutFirst(ws, p) = SubSeq(ws, 1, i - 1) \o SubSeq(ws, i + 1, Len(ws))
    BY <1>2 DEF WithoutFirst
  <2>3. i \in 1..Len(ws) /\ ws[i] = p
    BY <2>1 DEF FirstTag
  <2> HIDE DEF i
  <2>4. /\ SubSeq(ws, 1, i - 1) \in Seq(Process)
        /\ Len(SubSeq(ws, 1, i - 1)) = i - 1
        /\ \A k \in 1..(i - 1) : SubSeq(ws, 1, i - 1)[k] = ws[k]
    BY <2>3
  <2>5. /\ SubSeq(ws, i + 1, Len(ws)) \in Seq(Process)
        /\ Len(SubSeq(ws, i + 1, Len(ws))) = Len(ws) - i
        /\ \A k \in 1..(Len(ws) - i) : SubSeq(ws, i + 1, Len(ws))[k] = ws[k + i]
    BY <2>3
  <2> DEFINE a == SubSeq(ws, 1, i - 1)
             b == SubSeq(ws, i + 1, Len(ws))
  <2>6. /\ a \in Seq(Process) /\ b \in Seq(Process)
        /\ Len(a) = i - 1 /\ Len(b) = Len(ws) - i
    BY <2>4, <2>5
  <2> HIDE DEF a, b
  <2>7. /\ Len(a \o b) = Len(ws) - 1
        /\ \A k \in 1..(Len(ws) - 1) :
             (a \o b)[k] = IF k < i THEN a[k] ELSE b[k - (i - 1)]
    <3>1. Len(a \o b) = Len(a) + Len(b) /\ Len(a) + Len(b) = Len(ws) - 1
      BY <2>3, <2>6
    <3>2. \A k \in 1..(Len(a) + Len(b)) :
            (a \o b)[k] = IF k <= Len(a) THEN a[k] ELSE b[k - Len(a)]
      BY <2>6
    <3>. QED BY <2>3, <2>6, <3>1, <3>2
  <2>8. ASSUME NEW k \in 1..(Len(ws) - 1)
        PROVE  (a \o b)[k] = IF k < i THEN ws[k] ELSE ws[k + 1]
    <3>1. CASE k < i
      <4>1. k \in 1..(i - 1)
        BY <2>3, <3>1
      <4>. QED BY <2>4, <2>7, <3>1, <4>1 DEF a
    <3>2. CASE ~(k < i)
      <4>1. PICK m \in 1..(Len(ws) - i) : m = k - (i - 1) /\ m + i = k + 1
        BY <2>3, <3>2
      <4>2. b[m] = ws[m + i]
        BY <2>5 DEF b
      <4>. QED BY <2>7, <3>2, <4>1, <4>2
    <3>. QED BY <3>1, <3>2
  <2>. QED BY <2>2, <2>3, <2>7, <2>8 DEF a, b
<1>. QED BY <1>1, <1>2

(* The waiters that stay: all but p, each once if it stood there once.     *)
LEMMA WithoutFirstKeeps ==
  ASSUME NEW ws \in Seq(Process), NEW p,
         \A i, j \in 1..Len(ws) : ws[i] = ws[j] => i = j
  PROVE  LET vs == WithoutFirst(ws, p)
         IN  /\ \A k \in 1..Len(vs) :
                  vs[k] # p /\ \E i \in 1..Len(ws) : vs[k] = ws[i]
             /\ \A k, m \in 1..Len(vs) : vs[k] = vs[m] => k = m
             /\ \A i \in 1..Len(ws) :
                  ws[i] # p => \E k \in 1..Len(vs) : vs[k] = ws[i]
<1> DEFINE vs == WithoutFirst(ws, p)
<1>1. CASE vs = ws /\ \A i \in 1..Len(ws) : ws[i] # p
  BY <1>1
<1>2. ASSUME NEW i \in 1..Len(ws), ws[i] = p, Len(vs) = Len(ws) - 1,
             \A k \in 1..(Len(ws) - 1) : vs[k] = IF k < i THEN ws[k] ELSE ws[k + 1]
      PROVE  /\ \A k \in 1..Len(vs) :
                  vs[k] # p /\ \E j \in 1..Len(ws) : vs[k] = ws[j]
             /\ \A k, m \in 1..Len(vs) : vs[k] = vs[m] => k = m
             /\ \A j \in 1..Len(ws) :
                  ws[j] # p => \E k \in 1..Len(vs) : vs[k] = ws[j]
  <2> HIDE DEF vs
  <2>1. \A k \in 1..Len(vs) : \E j \in 1..Len(ws) :
          /\ vs[k] = ws[j] /\ j # i
          /\ j = IF k < i THEN k ELSE k + 1
    BY <1>2
  <2>2. \A k \in 1..Len(vs) :
          vs[k] # p /\ \E j \in 1..Len(ws) : vs[k] = ws[j]
    BY <1>2, <2>1
  <2>3. ASSUME NEW k \in 1..Len(vs), NEW m \in 1..Len(vs), vs[k] = vs[m]
        PROVE  k = m
    <3>1. PICK j \in 1..Len(ws) : vs[k] = ws[j] /\ j = IF k < i THEN k ELSE k + 1
      BY <2>1
    <3>2. PICK l \in 1..Len(ws) : vs[m] = ws[l] /\ l = IF m < i THEN m ELSE m + 1
      BY <2>1
    <3>3. j = l
      BY <2>3, <3>1, <3>2
    <3>. QED BY <3>1, <3>2, <3>3
  <2>4. ASSUME NEW j \in 1..Len(ws), ws[j] # p
        PROVE  \E k \in 1..Len(vs) : vs[k] = ws[j]
    <3>1. CASE j < i
      <4>1. j \in 1..(Len(ws) - 1) /\ j \in 1..Len(vs)
        BY <1>2, <3>1
      <4>. QED BY <1>2, <3>1, <4>1
    <3>2. CASE j > i
      <4>1. PICK k \in 1..Len(vs) : k = j - 1 /\ k + 1 = j /\ ~(k < i)
        BY <1>2, <3>2
      <4>2. vs[k] = ws[k + 1]
        BY <1>2, <4>1
      <4>. QED BY <4>1, <4>2
    <3>. QED BY <1>2, <2>4, <3>1, <3>2
  <2>. QED BY <2>2, <2>3, <2>4
<1>3. \A i, j \in 1..Len(ws) : ws[i] = p /\ ws[j] = p => i = j
  OBVIOUS
<1> HIDE DEF vs
<1>4. \/ vs = ws /\ \A i \in 1..Len(ws) : ws[i] # p
      \/ \E i \in 1..Len(ws) :
           /\ ws[i] = p
           /\ Len(vs) = Len(ws) - 1
           /\ \A k \in 1..(Len(ws) - 1) : vs[k] = IF k < i THEN ws[k] ELSE ws[k + 1]
  BY <1>3, WithoutFirstSplit DEF vs
<1>5. /\ \A k \in 1..Len(vs) :
           vs[k] # p /\ \E i \in 1..Len(ws) : vs[k] = ws[i]
      /\ \A k, m \in 1..Len(vs) : vs[k] = vs[m] => k = m
      /\ \A i \in 1..Len(ws) :
           ws[i] # p => \E k \in 1..Len(vs) : vs[k] = ws[i]
  <2>1. CASE vs = ws /\ \A i \in 1..Len(ws) : ws[i] # p
    BY <2>1, <1>1
  <2>2. CASE \E i \in 1..Len(ws) :
               /\ ws[i] = p
               /\ Len(vs) = Len(ws) - 1
               /\ \A k \in 1..(Len(ws) - 1) :
                    vs[k] = IF k < i THEN ws[k] ELSE ws[k + 1]
    <3>1. PICK i \in 1..Len(ws) :
               /\ ws[i] = p
               /\ Len(vs) = Len(ws) - 1
               /\ \A k \in 1..(Len(ws) - 1) :
                    vs[k] = IF k < i THEN ws[k] ELSE ws[k + 1]
      BY <2>2
    <3>. QED BY <1>2, <3>1
  <2>. QED BY <1>4, <2>1, <2>2
<1>. QED BY <1>5 DEF vs

LEMMA LeaveWaitWaits ==
  ASSUME WaitInv, NEW p \in Process, LeaveWait(p)
  PROVE  WaitInv'
<1> DEFINE W(h) == WithoutFirst(queue[h].waiters, p)
<1>1. Inv /\ Inv' /\ TypeOK
  BY LeaveWaitInv DEF WaitInv, Inv
<1>2. /\ \A h \in DOMAIN queue : queue[h] \in Event /\ queue[h].waiters \in Seq(Process)
      /\ DOMAIN queue \subseteq 1..counter /\ counter \in Nat
  BY <1>1 DEF TypeOK, Event
<1>3. ASSUME NEW h \in DOMAIN queue
      PROVE  /\ \A k \in 1..Len(W(h)) :
                  /\ W(h)[k] # p
                  /\ \E i \in 1..Len(queue[h].waiters) : W(h)[k] = queue[h].waiters[i]
             /\ \A k, m \in 1..Len(W(h)) : W(h)[k] = W(h)[m] => k = m
             /\ \A i \in 1..Len(queue[h].waiters) :
                  queue[h].waiters[i] # p =>
                    \E k \in 1..Len(W(h)) : W(h)[k] = queue[h].waiters[i]
  <2>1. \A i, j \in 1..Len(queue[h].waiters) :
          queue[h].waiters[i] = queue[h].waiters[j] => i = j
    BY DEF WaitInv, WaitersWait
  <2>. QED BY <1>2, <2>1, WithoutFirstKeeps
<1> HIDE DEF W
<1>4. /\ awaiting[p] # 0
      /\ queue' = [h \in DOMAIN queue |->
                     IF h = awaiting[p]
                     THEN [queue[h] EXCEPT !.waiters = W(h)]
                     ELSE queue[h]]
      /\ awaiting' = [awaiting EXCEPT ![p] = 0]
      /\ fate' = [fate EXCEPT ![p] = "none"]
      /\ UNCHANGED <<simTime, counter, told>>
  BY DEF LeaveWait, W
<1>5. /\ DOMAIN queue' = DOMAIN queue
      /\ \A h \in DOMAIN queue : h # awaiting[p] => queue'[h] = queue[h]
      /\ awaiting[p] \in DOMAIN queue =>
           /\ queue'[awaiting[p]].waiters = W(awaiting[p])
           /\ queue'[awaiting[p]].action = queue[awaiting[p]].action
           /\ ~IsWakeup(awaiting[p])
  <2>1. awaiting[p] \in DOMAIN queue => ~IsWakeup(awaiting[p])
    <3>1. Waiting(p) \/ Answered(p) \/ Dropped(p)
      BY <1>4 DEF WaitInv, WaitsKept
    <3>2. Answered(p) => awaiting[p] \notin DOMAIN queue
      BY DEF Answered, Answers, WaitInv, WakeupsDead
    <3>. QED BY <3>1, <3>2 DEF Waiting, Dropped
  <2>. QED BY <1>2, <1>4, <2>1 DEF Event
<1>6. /\ awaiting'[p] = 0 /\ fate'[p] = "none"
      /\ \A q \in Process : q # p =>
           awaiting'[q] = awaiting[q] /\ fate'[q] = fate[q]
  BY <1>1, <1>4 DEF TypeOK
<1>7. /\ \A k \in DOMAIN queue' : IsWakeup(k)' => IsWakeup(k) /\ queue'[k] = queue[k]
      /\ \A k \in DOMAIN queue : IsWakeup(k) => IsWakeup(k)' /\ queue'[k] = queue[k]
  BY <1>5 DEF IsWakeup
<1>8. WakeupsDead'
  BY <1>4, <1>5, <1>7 DEF WaitInv, WakeupsDead
<1>9. \A h \in DOMAIN queue : \A i \in 1..Len(queue[h].waiters) :
        /\ queue[h].waiters[i] \in Process
        /\ awaiting[queue[h].waiters[i]] = h /\ fate[queue[h].waiters[i]] = "pending"
  BY <1>2 DEF WaitInv, WaitersWait
<1>10. WaitersWait'
  <2>1. ASSUME NEW h \in DOMAIN queue, h # awaiting[p],
               NEW i \in 1..Len(queue'[h].waiters)
        PROVE  LET q == queue'[h].waiters[i]
               IN  /\ awaiting'[q] = h /\ fate'[q] = "pending"
                   /\ \A j \in 1..Len(queue'[h].waiters) :
                        queue'[h].waiters[j] = q => j = i
    <3>1. queue'[h] = queue[h]
      BY <1>5, <2>1
    <3>2. queue[h].waiters[i] \in Process /\ queue[h].waiters[i] # p
      BY <1>9, <2>1, <3>1
    <3>. QED BY <1>6, <3>1, <3>2 DEF WaitInv, WaitersWait
  <2>2. ASSUME NEW h \in DOMAIN queue, h = awaiting[p],
               NEW i \in 1..Len(queue'[h].waiters)
        PROVE  LET q == queue'[h].waiters[i]
               IN  /\ awaiting'[q] = h /\ fate'[q] = "pending"
                   /\ \A j \in 1..Len(queue'[h].waiters) :
                        queue'[h].waiters[j] = q => j = i
    <3>1. queue'[h].waiters = W(h)
      BY <1>5, <2>2
    <3>2. i \in 1..Len(W(h)) /\ \E j \in 1..Len(queue[h].waiters) :
                                 W(h)[i] = queue[h].waiters[j]
      <4>1. i \in 1..Len(W(h))
        BY <3>1
      <4>. QED BY <1>3, <4>1
    <3>3. /\ W(h)[i] \in Process /\ W(h)[i] # p
          /\ awaiting[W(h)[i]] = h /\ fate[W(h)[i]] = "pending"
      BY <1>3, <1>9, <3>1, <3>2
    <3>. QED BY <1>3, <1>6, <3>1, <3>3
  <2>. QED BY <1>5, <2>1, <2>2 DEF WaitersWait
<1>11. ASSUME NEW q \in Process, q # p, awaiting'[q] # 0
       PROVE  (Waiting(q) \/ Answered(q) \/ Dropped(q))'
  <2>1. awaiting'[q] = awaiting[q] /\ fate'[q] = fate[q]
    BY <1>6, <1>11
  <2>2. CASE Waiting(q)
    <3>1. PICK i \in 1..Len(queue[awaiting[q]].waiters) :
            queue[awaiting[q]].waiters[i] = q
      BY <2>2 DEF Waiting
    <3>2. \E j \in 1..Len(queue'[awaiting[q]].waiters) :
            queue'[awaiting[q]].waiters[j] = q
      <4>1. CASE awaiting[q] = awaiting[p]
        <5>1. \E k \in 1..Len(W(awaiting[q])) : W(awaiting[q])[k] = q
          BY <1>3, <1>11, <2>2, <3>1 DEF Waiting
        <5>. QED BY <1>5, <2>2, <4>1, <5>1 DEF Waiting
      <4>2. CASE awaiting[q] # awaiting[p]
        BY <1>5, <2>2, <3>1, <4>2 DEF Waiting
      <4>. QED BY <4>1, <4>2
    <3>3. ~IsWakeup(awaiting[q])'
      BY <1>5, <1>7, <2>1, <2>2 DEF Waiting
    <3>. QED BY <1>5, <2>1, <2>2, <3>2, <3>3 DEF Waiting
  <2>3. CASE Answered(q)
    <3>1. PICK k \in DOMAIN queue :
            /\ Answers(k, q)
            /\ queue[k].action = fate[q] /\ queue[k].time = simTime
            /\ \A m \in DOMAIN queue : Answers(m, q) => m = k
      BY <2>3 DEF Answered
    <3>2. k \in DOMAIN queue' /\ queue'[k] = queue[k] /\ Answers(k, q)'
      BY <1>5, <1>7, <2>1, <3>1 DEF Answers
    <3>3. \A m \in DOMAIN queue' : Answers(m, q)' => m = k
      BY <1>5, <1>7, <2>1, <3>1 DEF Answers
    <3>. QED BY <1>4, <2>1, <2>3, <3>1, <3>2, <3>3 DEF Answered
  <2>4. CASE Dropped(q)
    BY <1>5, <1>7, <2>1, <2>4 DEF Dropped, Answers
  <2>. QED BY <1>11, <2>1, <2>2, <2>3, <2>4 DEF WaitInv, WaitsKept
<1>12. WaitsKept'
  <2>1. \A q \in Process : awaiting'[q] <= counter'
    BY <1>2, <1>4, <1>6 DEF WaitInv, WaitsKept
  <2>. QED BY <1>6, <1>11, <2>1 DEF WaitsKept
<1>13. TruthfulReturn'
  BY <1>4, <1>6 DEF WaitInv, TruthfulReturn
<1>. QED BY <1>1, <1>8, <1>10, <1>12, <1>13 DEF WaitInv

-----------------------------------------------------------------------------
LEMMA NextWaitInv ==
  ASSUME WaitInv, [Next]_vars
  PROVE  WaitInv'
<1>1. CASE UNCHANGED vars
  BY <1>1 DEF vars, WaitInv, Inv, TypeOK, NoPastEvents, WakeupsDead, WaitersWait,
              WaitsKept, Waiting, Answered, Dropped, Answers, IsWakeup, TruthfulReturn
<1>2. ASSUME NEW subj \in Subject, NEW t \in Times, NEW pri \in Priority,
             Schedule(subj, t, pri)
      PROVE  WaitInv'
  BY <1>2, ScheduleWaits
<1>3. ASSUME NEW h \in DOMAIN queue, ExecuteClient(h)
      PROVE  WaitInv'
  BY <1>3, ExecuteWaits
<1>4. ASSUME NEW h \in DOMAIN queue, Deliver(h)
      PROVE  WaitInv'
  BY <1>4, DeliverWaits
<1>5. ASSUME NEW p \in Process, NEW h \in DOMAIN queue, WaitEvent(p, h)
      PROVE  WaitInv'
  BY <1>5, WaitEventWaits
<1>6. ASSUME NEW p \in Process, LeaveWait(p)
      PROVE  WaitInv'
  BY <1>6, LeaveWaitWaits
<1>7. ASSUME NEW h \in DOMAIN queue, Cancel(h)
      PROVE  WaitInv'
  <2>1. /\ {h} \in SUBSET DOMAIN queue /\ Remove({h})
        /\ \A k \in {h} : ~IsWakeup(k)
    BY <1>7 DEF Cancel, IsWakeup
  <2>. QED BY <2>1, RemoveWaits
<1>8. ASSUME NEW subj \in Subject, PatternCancel(subj)
      PROVE  WaitInv'
  <2>1. /\ Matches(subj) \in SUBSET DOMAIN queue /\ Remove(Matches(subj))
        /\ \A k \in Matches(subj) : ~IsWakeup(k)
    BY <1>8 DEF PatternCancel, Matches, IsWakeup
  <2>. QED BY <2>1, RemoveWaits
<1>9. ASSUME NEW h \in DOMAIN queue, NEW t \in Times, Reschedule(h, t)
      PROVE  WaitInv'
  BY <1>9, RescheduleWaits
<1>10. ASSUME NEW h \in DOMAIN queue, NEW pri \in Priority, Reprioritize(h, pri)
       PROVE  WaitInv'
  BY <1>10, ReprioritizeWaits
<1>11. ASSUME Clear
       PROVE  WaitInv'
  BY <1>11, ClearWaits
<1>. QED
  BY <1>1, <1>2, <1>3, <1>4, <1>5, <1>6, <1>7, <1>8, <1>9, <1>10, <1>11 DEF Next

LEMMA SpecWaitInv == Spec => []WaitInv
<1>1. Init => WaitInv
  BY InitWaitInv
<1>2. WaitInv /\ [Next]_vars => WaitInv'
  BY NextWaitInv
<1>. QED BY <1>1, <1>2, PTL DEF Spec

(* No process that waits for an event is forgotten and none is woken twice *)
(* (wake_event_waiters_occurred and _cancelled, cmi_event_add_waiter and   *)
(* cmi_event_remove_waiter), however many processes and events there are.  *)
THEOREM WaiterAccountedCorrect == Spec => []WaiterAccounted
<1>1. WaitInv => WaiterAccounted
  BY WaitInvAccounts
<1>. QED BY <1>1, SpecWaitInv, PTL

(* cmb_process_wait_event returns what became of its event, whatever older *)
(* wakeups are still on their way (wakeup_event_occurred and _cancelled).  *)
THEOREM TruthfulReturnCorrect == Spec => []TruthfulReturn
<1>1. WaitInv => TruthfulReturn
  BY DEF WaitInv
<1>. QED BY <1>1, SpecWaitInv, PTL
=============================================================================
