---------------------------- MODULE ProcessKernel ----------------------------
(***************************************************************************)
(* What the processes of a Cimba trial share: the dispatcher's agenda of   *)
(* wakeup events (cmb_event.c), each process's awaitables, its waiters and *)
(* the call it is blocked in (cmb_process.c), and the priority queues in   *)
(* front of guarded resources (cmb_resourceguard.c).                       *)
(*                                                                         *)
(* All of it runs in one thread without preemption, and one call of the    *)
(* code changes many of these things one after the other.  The module is   *)
(* therefore a collection of functions from a state s, a record, to the    *)
(* state after the call of the same name; a module that instantiates it    *)
(* keeps such a record in a variable and composes its actions from them.   *)
(* The fields used here are                                                *)
(*   agenda    the scheduled events                                        *)
(*   running   the process that runs, NoOne while the dispatcher does      *)
(*   status    the coroutine status of each process                        *)
(*   prio      the priority of each process                                *)
(*   call      the blocking call each process is suspended in              *)
(*   timers    the TIME awaitables of each process, timer handles          *)
(*   ticket    its RESOURCE awaitable: a guard and the key of its entry    *)
(*   joins     its PROCESS awaitable                                       *)
(*   waiters   the processes that wait for it to finish, list head first   *)
(*   queue     the entries in the queue of each guard                      *)
(*   observers the guards that observe each guard, list head first         *)
(*   untold    history: what was taken from each process by a preemption   *)
(*             that it has not been told of                                *)
(*   failed    the assertion that ended the trial, "none" so far           *)
(* The EVENT awaitable is in module EventQueue, and nothing here has it.   *)
(*                                                                         *)
(* Two encodings keep the states finite without a bound on the length of a *)
(* behaviour.  Times are relative: an event carries the delay from now.    *)
(* And order is a position: the events of the agenda, and the entries of a *)
(* queue, are numbered 1..n in the order in which they entered, which is   *)
(* what the handles and keys that the code compares mean.  Keys only have  *)
(* to be told apart, so the least one nothing refers to is taken again.    *)
(***************************************************************************)
EXTENDS Integers, Sequences, FiniteSets

CONSTANTS
  Process,               \* the processes
  Guard,                 \* the guards
  NoOne,                 \* the null pointer
  Satisfied(_, _, _)     \* demand of a process at the front of a guard, in s

-----------------------------------------------------------------------------
(* Numbered sets.                                                          *)
Enter(S, e) == S \cup {[e EXCEPT !.tag = Cardinality(S) + 1]}

Leave(S, gone) ==
  {[e EXCEPT !.tag = @ - Cardinality({g \in gone : g.tag < e.tag})] :
     e \in S \ gone}

(* The list ws once the first, and only, occurrence of x is unlinked.      *)
Occurrence(ws, x) ==
  {i \in 1..Len(ws) : ws[i] = x /\ \A k \in 1..(i - 1) : ws[k] # x}

Unlink(ws, x) ==
  IF Occurrence(ws, x) = {} THEN ws
  ELSE LET i == CHOOSE i \in Occurrence(ws, x) : TRUE
       IN  SubSeq(ws, 1, i - 1) \o SubSeq(ws, i + 1, Len(ws))

(* The assertions of the code, all enabled: the first that fails aborts.   *)
Asserted(s, holds, name) ==
  IF holds \/ s.failed # "none" THEN s ELSE [s EXCEPT !.failed = name]

-----------------------------------------------------------------------------
(* Events.  The kind of an event stands for its action, proc for its       *)
(* subject, and key and sig for its object: the key of a guard entry or    *)
(* the event's own handle if it is a timer, and the signal to be passed.   *)
Kinds == {"start", "time", "grant", "cancelled", "preempt", "interrupt",
          "process", "resume"}

Signals == {"success", "preempted", "interrupted", "stopped", "cancelled",
            "timeout"}

(* event_compare                                                           *)
Before(e, f) ==
  \/ e.delay < f.delay
  \/ e.delay = f.delay /\ e.prio > f.prio
  \/ e.delay = f.delay /\ e.prio = f.prio /\ e.tag < f.tag

First(agenda) == CHOOSE e \in agenda : \A f \in agenda \ {e} : Before(e, f)

(* cmb_event_schedule, for an event about process p                        *)
Schedule(s, kind, p, key, sig, delay, pri) ==
  [s EXCEPT !.agenda = Enter(@, [kind |-> kind, proc |-> p, key |-> key,
                                 sig |-> sig, delay |-> delay, prio |-> pri,
                                 tag |-> 0])]

(* cmb_event_cancel and cmb_event_pattern_cancel                           *)
CancelEvents(s, gone) == [s EXCEPT !.agenda = Leave(@, gone)]

(* cmb_event_execute_next up to the call of the action: the first event    *)
(* leaves, and the clock moves to its time.                                *)
Dequeue(s) ==
  LET e == First(s.agenda)
  IN  [s EXCEPT !.agenda = {[f EXCEPT !.delay = @ - e.delay] :
                              f \in Leave(@, {e})}]

-----------------------------------------------------------------------------
(* The calls a process can be blocked in, and its awaitables.              *)
Idle == [fn |-> "none", on |-> NoOne, key |-> 0]
NoTicket == [guard |-> NoOne, key |-> 0]

(* cmi_coroutine_yield, to the dispatcher                                  *)
Block(s, p, fn, on, key) ==
  [s EXCEPT !.call[p] = [fn |-> fn, on |-> on, key |-> key],
            !.running = NoOne]

(* Control is back in the client's code of p, with the result sig.  Told   *)
(* that it was preempted, a process looks up what it has left.             *)
Return(s, p, sig) ==
  [s EXCEPT !.running = p,
            !.call[p] = Idle,
            !.untold[p] = IF sig = "preempted" THEN {} ELSE @]

(* cmi_coroutine_exit and cmi_coroutine_stop *)
Finished(s, p) ==
  [s EXCEPT !.status[p] = "finished", !.call[p] = Idle, !.untold[p] = {}]

KeysInUse(s) ==
  (UNION {s.timers[p] \cup {s.ticket[p].key, s.call[p].key} : p \in Process})
    \cup {e.key : e \in s.agenda}

FreshKey(s) ==
  CHOOSE k \in 1..(Cardinality(KeysInUse(s)) + 1) :
    k \notin KeysInUse(s) /\ \A j \in 1..(k - 1) : j \in KeysInUse(s)

(* cmb_process_timer_add; the new timer has the key FreshKey(s).           *)
TimerAdd(s, p, delay, sig) ==
  [Schedule(s, "time", p, FreshKey(s), sig, delay, s.prio[p])
     EXCEPT !.timers[p] = @ \cup {FreshKey(s)}]

(* cmb_process_timer_cancel                                                *)
TimerEvents(s, p, keys) ==
  {e \in s.agenda : e.kind = "time" /\ e.proc = p /\ e.key \in keys}

TimerCancel(s, p, key) ==
  [CancelEvents(s, TimerEvents(s, p, {key})) EXCEPT !.timers[p] = @ \ {key}]

(* cmb_process_timers_clear                                                *)
TimersClear(s, p) ==
  [Asserted(CancelEvents(s, TimerEvents(s, p, s.timers[p])),
          \A k \in s.timers[p] : TimerEvents(s, p, {k}) # {}, "timers_clear")
     EXCEPT !.timers[p] = {}]

(* cmb_process_wait_process on a process that has not finished             *)
WaitProcess(s, p, q) ==
  Block([s EXCEPT !.joins[p] = q, !.waiters[q] = <<p>> \o @],
        p, "join", q, 0)

(* wake_process_waiters                                                    *)
WakeWaiters(s, p, sig) ==
  LET ws == s.waiters[p]
  IN  [s EXCEPT !.agenda = @ \cup
                  {[kind |-> "process", proc |-> ws[i], key |-> 0,
                    sig |-> sig, delay |-> 0, prio |-> s.prio[ws[i]],
                    tag |-> Cardinality(s.agenda) + i] : i \in 1..Len(ws)},
                !.waiters[p] = <<>>]

-----------------------------------------------------------------------------
(* Guards.  An entry in the queue of a guard carries the priority that its *)
(* process had on entry or was given since; the order of entry decides     *)
(* between equals (guard_queue_check).                                     *)
FrontLatest(s, g) ==    \* faulty: last in, first out
  CHOOSE w \in s.queue[g] : \A v \in s.queue[g] \ {w} :
    w.prio > v.prio \/ (w.prio = v.prio /\ w.tag > v.tag)

Front(s, g) ==
  CHOOSE w \in s.queue[g] : \A v \in s.queue[g] \ {w} :
    w.prio > v.prio \/ (w.prio = v.prio /\ w.tag < v.tag)

Entries(s, g, key) == {w \in s.queue[g] : w.key = key}

(* cmi_process_guard_key                                                   *)
GuardKey(s, p, g) == IF s.ticket[p].guard = g THEN s.ticket[p].key ELSE 0

(* The first half of cmb_resourceguard_signal: at most the front waiter is  *)
(* dequeued, and only if its demand is satisfied now.  It is resumed       *)
(* later, by the event scheduled here.                                     *)
Granted(s, g) ==
  IF s.queue[g] = {} \/ ~Satisfied(s, g, Front(s, g).proc) THEN s
  ELSE LET w == Front(s, g)
           p == w.proc
       IN  Asserted(Schedule([s EXCEPT !.queue[g] = Leave(@, {w})],
                           "grant", p, GuardKey(s, p, g), "success",
                           0, s.prio[p]),
                  GuardKey(s, p, g) # 0, "guard_signal")

(* The guards that hear a signal at g, in order: g, and what each of its   *)
(* observers forwards, from the head of the list on.  No cycles.           *)
HeardAt(s, g) ==
  LET heard[todo \in Seq(Guard)] ==
        IF todo = <<>> THEN <<>>
        ELSE <<Head(todo)>> \o heard[s.observers[Head(todo)] \o Tail(todo)]
  IN  heard[<<g>>]

(* cmb_resourceguard_signal                                                *)
Signal(s, g) ==
  IF s.observers[g] = <<>> THEN Granted(s, g)
  ELSE LET gs == HeardAt(s, g)
           after[i \in 0..Len(gs)] ==
             IF i = 0 THEN s ELSE Granted(after[i - 1], gs[i])
       IN  after[Len(gs)]

(* cmb_resourceguard_register and _unregister of an observer               *)
Register(s, g, o) == [s EXCEPT !.observers[g] = <<o>> \o @]

Unregister(s, g, o) == [s EXCEPT !.observers[g] = Unlink(@, o)]

(* cmi_process_add_awaitable and _remove_awaitable, of a guard             *)
AddTicket(s, p, g, k) == [s EXCEPT !.ticket[p] = [guard |-> g, key |-> k]]

RemoveTicket(s, p, g) ==
  [s EXCEPT !.ticket[p] = IF @.guard = g THEN NoTicket ELSE @]

(* cmb_resourceguard_wait up to its yield, called from fn                  *)
GuardWait(s, p, fn, g) ==
  LET k == FreshKey(s)
  IN  Block([AddTicket(s, p, g, k) EXCEPT
               !.queue[g] = Enter(@, [proc |-> p, key |-> k,
                                      prio |-> s.prio[p], tag |-> 0])],
            p, fn, g, k)

(* Faulty: a waiter that is thrown out stays in the queue.                 *)
GuardResumeStaysQueued(s, p, sig) ==
  LET g == s.call[p].on
      t == RemoveTicket(s, p, g)
  IN  IF sig \notin {"success", "cancelled"} THEN Signal(t, g) ELSE t

(* cmb_resourceguard_wait from there on, resumed with sig.  A waiter that  *)
(* was thrown out but is no longer queued was granted the resource, or so  *)
(* the code assumes, and hands it on.                                      *)
GuardResume(s, p, sig) ==
  LET g    == s.call[p].on
      mine == Entries(s, g, s.call[p].key)
      t    == RemoveTicket(s, p, g)
  IN  IF sig = "success" THEN Asserted(t, mine = {}, "guard_wait")
      ELSE IF mine # {} THEN [t EXCEPT !.queue[g] = Leave(@, mine)]
      ELSE IF sig # "cancelled" THEN Signal(t, g)
      ELSE t

(* Faulty: the process is not told.                                        *)
GuardCancelSilently(s, p, g) ==
  [s EXCEPT !.queue[g] = Leave(@, Entries(s, g, GuardKey(s, p, g)))]

(* cmb_resourceguard_cancel                                                *)
GuardCancel(s, p, g) ==
  LET k == GuardKey(s, p, g)
  IN  IF k = 0 \/ Entries(s, g, k) = {} THEN s
      ELSE Schedule([s EXCEPT !.queue[g] = Leave(@, Entries(s, g, k))],
                    "cancelled", p, k, "cancelled", 0, s.prio[p])

(* cmi_process_awaiting_key                                                *)
AwaitingKey(s, p, key) == key # 0 /\ s.ticket[p].key = key

(* cmi_process_cancel_awaiteds: every awaitable is dropped, with its timer *)
(* event, queue entry or waiter tag; if there is a ticket but no entry any *)
(* more the guard is signalled in the process's stead; and the wakeups     *)
(* that are not checked for staleness when they fire are cancelled.        *)
Unchecked == {"preempt", "interrupt", "resume"}

SweptNoTimers(s, p) ==                                     \* faulty
  {e \in s.agenda : e.proc = p /\ e.kind \in Unchecked}

Swept(s, p) ==
  TimerEvents(s, p, s.timers[p])
    \cup {e \in s.agenda : e.proc = p /\ e.kind \in Unchecked}

(* Faulty: the queue entry stays; a grant on its way is not handed on.     *)
CancelAwaitedsStaysQueued(s, p) ==
  [CancelEvents(s, Swept(s, p)) EXCEPT
     !.timers[p] = {}, !.ticket[p] = NoTicket, !.joins[p] = NoOne]

CancelAwaitedsKeepsGrant(s, p) ==
  [CancelEvents(s, Swept(s, p)) EXCEPT
     !.timers[p] = {}, !.ticket[p] = NoTicket, !.joins[p] = NoOne,
     !.queue = [g \in Guard |-> Leave(@[g], {w \in @[g] : w.proc = p})]]

CancelAwaiteds(s, p) ==
  LET g    == s.ticket[p].guard
      mine == IF g = NoOne THEN {} ELSE Entries(s, g, s.ticket[p].key)
      t    == [CancelEvents(s, Swept(s, p)) EXCEPT
                 !.timers[p] = {},
                 !.ticket[p] = NoTicket,
                 !.joins[p]  = NoOne,
                 !.queue     = [h \in Guard |-> IF h = g THEN Leave(@[h], mine)
                                                ELSE @[h]],
                 !.waiters   = [q \in Process |->
                                  IF q = s.joins[p] THEN Unlink(@[q], p)
                                  ELSE @[q]]]
  IN  IF g # NoOne /\ mine = {} THEN Signal(t, g) ELSE t

(* Faulty: only the timers follow.                                         *)
PrioritySetTimers(s, p, pri) ==
  [s EXCEPT !.prio[p] = pri,
            !.agenda  = {IF e \in TimerEvents(s, p, s.timers[p])
                         THEN [e EXCEPT !.prio = pri] ELSE e : e \in @}]

(* cmb_process_priority_set, without the callbacks of what p holds: its    *)
(* timers and its queue entry follow, and both have to be there.           *)
PrioritySet(s, p, pri) ==
  LET g    == s.ticket[p].guard
      mine == IF g = NoOne THEN {} ELSE Entries(s, g, s.ticket[p].key)
      due  == TimerEvents(s, p, s.timers[p])
  IN  Asserted(
        [s EXCEPT
           !.prio[p] = pri,
           !.agenda  = {IF e \in due THEN [e EXCEPT !.prio = pri] ELSE e :
                          e \in @},
           !.queue   = [h \in Guard |->
                          IF h # g THEN @[h]
                          ELSE {IF w \in mine THEN [w EXCEPT !.prio = pri]
                                ELSE w : w \in @[h]}]],
        /\ g = NoOne \/ mine # {}
        /\ \A k \in s.timers[p] : TimerEvents(s, p, {k}) # {},
        "priority_set")

=============================================================================
