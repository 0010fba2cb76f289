----------------------------- MODULE EventQueue -----------------------------
(***************************************************************************)
(* The event queue of a Cimba trial (src/src/cmb_event.c) and the          *)
(* processes that wait for events in it (cmb_process_wait_event).          *)
(*                                                                         *)
(* One thread runs one trial.  Its dispatcher pops the event that comes    *)
(* first, sets the clock to the event's time, schedules a wakeup for every *)
(* process that waits for the event and calls the event's action.  Events  *)
(* are named by handles, which a hashheap issues from a counter that only  *)
(* a fresh queue starts from zero.  The priority order and the keyed       *)
(* lookup of that hashheap are taken as given here.                        *)
(*                                                                         *)
(* Every action below is one call of the API, made by the main program, by *)
(* an event's action or by a process between two dispatches, or one        *)
(* dispatch.                                                               *)
(***************************************************************************)
EXTENDS Integers, Sequences

CONSTANTS
  Process,     \* the processes that may wait for events
  ProcPrio,    \* the priority of each process
  Subject,     \* the subjects of the client's events, for pattern matches
  Priority,    \* the priorities that events are given
  MaxTime,     \* bound: the clock runs from 0 to MaxTime
  MaxHandle    \* bound: no call schedules past this handle

ASSUME PrioAssumption ==
  /\ Priority \subseteq Int
  /\ ProcPrio \in [Process -> Int]

ASSUME BoundAssumption == MaxTime \in Nat /\ MaxHandle \in Nat

VARIABLES
  simTime,     \* sim_time
  queue,       \* event_queue: the scheduled events by handle
  counter,     \* item_counter of the hashheap, the last handle issued
  current,     \* the handle in heap[0], cmb_event_current(); 0 is none
  awaiting,    \* the EVENT awaitable of each process, a handle; 0 is none
  fate,        \* history: what became of the event of the last wait
  told         \* history: what that wait returned

vars == <<simTime, queue, counter, current, awaiting, fate, told>>

Times == 0..MaxTime

(***************************************************************************)
(* What an event does when it is executed: run a client's action, or       *)
(* deliver to a process that a given event occurred or was cancelled.      *)
(***************************************************************************)
Outcomes == {"occurred", "cancelled"}
Actions == {"client"} \cup Outcomes

Event == [action  : Actions,
          subject : Process \cup Subject,
          object  : Nat,
          time    : Times,
          prio    : Int,
          waiters : Seq(Process)]

(* event_compare: earlier time, then higher priority, then lower handle.   *)
Before(h, k) ==
  LET a == queue[h]
      b == queue[k]
  IN  \/ a.time < b.time
      \/ a.time = b.time /\ a.prio > b.prio
      \/ a.time = b.time /\ a.prio = b.prio /\ h < k

(* The event at the top of the heap.                                       *)
IsFirst(h) == \A k \in DOMAIN queue \ {h} : Before(h, k)

(* The wakeups for the processes that wait for event h, in the order in    *)
(* which the waiter list, pushed and popped at its head, hands them out.   *)
Wakeup(action, h, i, t) ==
  LET pp == queue[h].waiters[i]
  IN  [action |-> action, subject |-> pp, object |-> h,
       time |-> t, prio |-> ProcPrio[pp], waiters |-> <<>>]

Wakeups(action, h, t) ==
  [i \in 1..Len(queue[h].waiters) |-> Wakeup(action, h, i, t)]

(* Faulty variants, by which the properties are tested, precede what they  *)
(* vary, and nothing else uses them.  Here the counter is read before it   *)
(* is incremented.                                                         *)
RequeuePostIncrement(gone, evs) ==
  [h \in (DOMAIN queue \ gone) \cup counter..(counter + Len(evs) - 1) |->
     IF h >= counter THEN evs[h - counter + 1] ELSE queue[h]]

(* The queue without the events in gone and with the events of the         *)
(* sequence evs under the handles that follow the counter.                 *)
Requeue(gone, evs) ==
  [h \in (DOMAIN queue \ gone) \cup (counter + 1)..(counter + Len(evs)) |->
     IF h > counter THEN evs[h - counter] ELSE queue[h]]

(* What became of the waits, when the events in gone left in this way.     *)
Settle(gone, how) ==
  [p \in Process |-> IF fate[p] = "pending" /\ awaiting[p] \in gone
                     THEN how ELSE fate[p]]

-----------------------------------------------------------------------------
(* cmb_event_queue_initialize at time 0, on a fresh hashheap.              *)
Init ==
  /\ simTime = 0
  /\ queue = [h \in {} |-> {}]
  /\ counter = 0
  /\ current = 0
  /\ awaiting = [p \in Process |-> 0]
  /\ fate = [p \in Process |-> "none"]
  /\ told = [p \in Process |-> "none"]

(* Faulty: the time is not checked.                                        *)
ScheduleAnyTime(subj, t, pri) ==
  /\ counter < MaxHandle
  /\ queue' = Requeue({},
                <<[action |-> "client", subject |-> subj, object |-> 0,
                   time |-> t, prio |-> pri, waiters |-> <<>>]>>)
  /\ counter' = counter + 1
  /\ UNCHANGED <<simTime, current, awaiting, fate, told>>

(* cmb_event_schedule: never in the past.                                  *)
Schedule(subj, t, pri) ==
  /\ counter < MaxHandle
  /\ t >= simTime
  /\ queue' = Requeue({},
                <<[action |-> "client", subject |-> subj, object |-> 0,
                   time |-> t, prio |-> pri, waiters |-> <<>>]>>)
  /\ counter' = counter + 1
  /\ UNCHANGED <<simTime, current, awaiting, fate, told>>

(* cmb_event_execute_next, when a client's event comes first.              *)
ExecuteClient(h) ==
  LET wakes == Wakeups("occurred", h, queue[h].time)
  IN  /\ IsFirst(h)
      /\ queue[h].action = "client"
      /\ counter + Len(wakes) <= MaxHandle
      /\ queue' = Requeue({h}, wakes)
      /\ counter' = counter + Len(wakes)
      /\ simTime' = queue[h].time
      /\ current' = h
      /\ fate' = Settle({h}, "occurred")
      /\ UNCHANGED <<awaiting, told>>

(* Faulty: a wakeup resumes its process out of any wait.                   *)
DeliverUnchecked(h) ==
  LET p == queue[h].subject
  IN  /\ IsFirst(h)
      /\ queue[h].action # "client"
      /\ simTime' = queue[h].time
      /\ current' = h
      /\ queue' = Requeue({h}, <<>>)
      /\ IF awaiting[p] # 0
         THEN /\ awaiting' = [awaiting EXCEPT ![p] = 0]
              /\ told' = [told EXCEPT ![p] = queue[h].action]
         ELSE UNCHANGED <<awaiting, told>>
      /\ UNCHANGED <<counter, fate>>

(* cmb_event_execute_next, when a wakeup comes first.  The wakeup resumes  *)
(* its process, with the result in its name, only if the process is still  *)
(* in the wait the wakeup was issued for; then wait_event drops the        *)
(* EVENT awaitable and returns.                                            *)
Deliver(h) ==
  LET p == queue[h].subject
  IN  /\ IsFirst(h)
      /\ queue[h].action # "client"
      /\ simTime' = queue[h].time
      /\ current' = h
      /\ queue' = Requeue({h}, <<>>)
      /\ IF awaiting[p] = queue[h].object
         THEN /\ awaiting' = [awaiting EXCEPT ![p] = 0]
              /\ told' = [told EXCEPT ![p] = queue[h].action]
         ELSE UNCHANGED <<awaiting, told>>
      /\ UNCHANGED <<counter, fate>>

(* cmb_process_wait_event up to its yield: the process becomes the first   *)
(* of the event's waiters and the event its awaitable.  A process waits    *)
(* for one event at a time.                                                *)
WaitEvent(p, h) ==
  /\ queue[h].action = "client"
  /\ awaiting[p] = 0
  /\ queue' = [queue EXCEPT ![h].waiters = <<p>> \o @]
  /\ awaiting' = [awaiting EXCEPT ![p] = h]
  /\ fate' = [fate EXCEPT ![p] = "pending"]
  /\ told' = [told EXCEPT ![p] = "none"]
  /\ UNCHANGED <<simTime, counter, current>>

(* The waiter list ws once the first tag of p, if any, is unlinked.        *)
FirstTag(ws, p) ==
  {i \in 1..Len(ws) : ws[i] = p /\ \A k \in 1..(i - 1) : ws[k] # p}

WithoutFirst(ws, p) ==
  IF FirstTag(ws, p) = {} THEN ws
  ELSE LET i == CHOOSE i \in FirstTag(ws, p) : TRUE
       IN  SubSeq(ws, 1, i - 1) \o SubSeq(ws, i + 1, Len(ws))

(* Faulty: the process does not deregister from the event.                 *)
LeaveWaitKeepsTag(p) ==
  /\ awaiting[p] # 0
  /\ awaiting' = [awaiting EXCEPT ![p] = 0]
  /\ fate' = [fate EXCEPT ![p] = "none"]
  /\ UNCHANGED <<simTime, queue, counter, current, told>>

(* A process leaves its wait for another reason (a timeout, an interrupt,  *)
(* its stop): it deregisters from the event, if that is still scheduled,   *)
(* and drops the awaitable.  Wakeups already scheduled stay.               *)
LeaveWait(p) ==
  /\ awaiting[p] # 0
  /\ queue' = [h \in DOMAIN queue |->
                 IF h = awaiting[p]
                 THEN [queue[h] EXCEPT !.waiters = WithoutFirst(@, p)]
                 ELSE queue[h]]
  /\ awaiting' = [awaiting EXCEPT ![p] = 0]
  /\ fate' = [fate EXCEPT ![p] = "none"]
  /\ UNCHANGED <<simTime, counter, current, told>>

(* The orders in which the wakeups of the cancelled events in gone can be  *)
(* scheduled: event by event, in an order of the heap array that the       *)
(* caller does not know, and within an event in the order of its waiters.  *)
WakeSlots(gone) ==
  UNION {{h} \X (1..Len(queue[h].waiters)) : h \in gone}

WakeOrder(gone, n, f) ==
  /\ \A w \in WakeSlots(gone) : \E j \in 1..n : f[j] = w
  /\ \A j, k \in 1..n :
       j < k =>
         /\ f[j] # f[k]
         /\ f[j][1] = f[k][1] =>
              /\ f[j][2] < f[k][2]
              /\ \A m \in j..k : f[m][1] = f[j][1]

(* The events in gone leave the queue, and their waiters are told.         *)
Remove(gone) ==
  \E n \in 0..(MaxHandle - counter) :
    \E f \in [1..n -> WakeSlots(gone)] :
      /\ WakeOrder(gone, n, f)
      /\ queue' = Requeue(gone,
                    [j \in 1..n |->
                       Wakeup("cancelled", f[j][1], f[j][2], simTime)])
      /\ counter' = counter + n
      /\ fate' = Settle(gone, "cancelled")
      /\ UNCHANGED <<simTime, current, awaiting, told>>

(* cmb_event_cancel of a handle that is scheduled; false and no effect     *)
(* otherwise.                                                              *)
Cancel(h) ==
  /\ queue[h].action = "client"
  /\ Remove({h})

(* cmb_event_pattern_cancel with the client's action and one subject: all  *)
(* events found in a first pass are cancelled in a second one, so that the *)
(* wakeups scheduled by the second are never candidates themselves.        *)
Matches(subj) ==
  {h \in DOMAIN queue : queue[h].action = "client" /\ queue[h].subject = subj}

PatternCancel(subj) ==
  /\ Matches(subj) # {}
  /\ Remove(Matches(subj))

(* Faulty: the time is not checked.                                        *)
RescheduleAnyTime(h, t) ==
  /\ queue[h].action = "client"
  /\ queue' = [queue EXCEPT ![h].time = t]
  /\ UNCHANGED <<simTime, counter, current, awaiting, fate, told>>

(* cmb_event_reschedule: a new time, never in the past; same handle.       *)
Reschedule(h, t) ==
  /\ queue[h].action = "client"
  /\ t >= simTime
  /\ queue' = [queue EXCEPT ![h].time = t]
  /\ UNCHANGED <<simTime, counter, current, awaiting, fate, told>>

(* cmb_event_reprioritize: a new priority; same time and handle.           *)
Reprioritize(h, pri) ==
  /\ queue[h].action = "client"
  /\ queue' = [queue EXCEPT ![h].prio = pri]
  /\ UNCHANGED <<simTime, counter, current, awaiting, fate, told>>

(* cmb_event_queue_clear: the heap is zeroed, its slot 0 included; nobody  *)
(* is told, and the counter goes on.                                       *)
Clear ==
  /\ DOMAIN queue # {}
  /\ queue' = [h \in {} |-> {}]
  /\ current' = 0
  /\ fate' = [p \in Process |-> IF awaiting[p] # 0 THEN "cleared" ELSE fate[p]]
  /\ UNCHANGED <<simTime, counter, awaiting, told>>

Next ==
  \/ \E subj \in Subject, t \in Times, pri \in Priority :
       Schedule(subj, t, pri)
  \/ \E h \in DOMAIN queue : ExecuteClient(h)
  \/ \E h \in DOMAIN queue : Deliver(h)
  \/ \E p \in Process, h \in DOMAIN queue : WaitEvent(p, h)
  \/ \E p \in Process : LeaveWait(p)
  \/ \E h \in DOMAIN queue : Cancel(h)
  \/ \E subj \in Subject : PatternCancel(subj)
  \/ \E h \in DOMAIN queue, t \in Times : Reschedule(h, t)
  \/ \E h \in DOMAIN queue, pri \in Priority : Reprioritize(h, pri)
  \/ Clear

Spec == Init /\ [][Next]_vars

-----------------------------------------------------------------------------
TypeOK ==
  /\ simTime \in Times
  /\ counter \in Nat
  /\ current \in Nat
  /\ DOMAIN queue \subseteq 1..counter
  /\ queue \in [DOMAIN queue -> Event]
  /\ awaiting \in [Process -> Nat]
  /\ fate \in [Process -> {"none", "pending", "cleared"} \cup Outcomes]
  /\ told \in [Process -> {"none"} \cup Outcomes]

(* No event is ever left behind by the clock: what is scheduled lies at or *)
(* after the current time, whatever was rescheduled, cancelled or woken    *)
(* (the assertions of cmb_event_schedule, cmb_event_reschedule and         *)
(* cmb_event_execute_next).                                                *)
NoPastEvents == \A h \in DOMAIN queue : queue[h].time >= simTime

(* The wakeups on their way to p that answer its present wait.             *)
LiveWakeups(p) ==
  {h \in DOMAIN queue :
     queue[h].action # "client" /\ queue[h].subject = p
       /\ queue[h].object = awaiting[p]}

Registrations(p) ==
  {w \in WakeSlots(DOMAIN queue) : queue[w[1]].waiters[w[2]] = p}

(* No waiting process is forgotten and none is woken twice: as long as its *)
(* event is scheduled a process stands in that event's waiter list, once,  *)
(* and in no other; from the moment the event occurred or was cancelled    *)
(* exactly one wakeup that says so is scheduled, for the same instant      *)
(* (wake_event_waiters_occurred and _cancelled, cmi_event_add_waiter and   *)
(* cmi_event_remove_waiter).  Only cmb_event_queue_clear drops waits.      *)
WaiterAccounted ==
  \A p \in Process :
    /\ awaiting[p] # 0 /\ fate[p] = "pending" =>
         /\ awaiting[p] \in DOMAIN queue
         /\ \E i \in 1..Len(queue[awaiting[p]].waiters) :
              Registrations(p) = {<<awaiting[p], i>>}
         /\ LiveWakeups(p) = {}
    /\ awaiting[p] # 0 /\ fate[p] \in Outcomes =>
         /\ Registrations(p) = {}
         /\ \E h \in DOMAIN queue :
              /\ LiveWakeups(p) = {h}
              /\ queue[h].action = fate[p]
              /\ queue[h].time = simTime
    /\ awaiting[p] = 0 => Registrations(p) = {}

(* What wait_event returns is what became of the event it waited for, even *)
(* when wakeups of an earlier wait of the same process are still on their  *)
(* way (the staleness checks of wakeup_event_occurred and _cancelled).     *)
TruthfulReturn ==
  \A p \in Process :
    awaiting[p] = 0 /\ told[p] # "none" /\ fate[p] # "none" => told[p] = fate[p]

(* The clock never runs backwards (cmb_event_execute_next).                *)
ClockMonotone == [][simTime' >= simTime]_vars

=============================================================================
