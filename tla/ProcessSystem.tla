---------------------------- MODULE ProcessSystem ----------------------------
(***************************************************************************)
(* The processes of a Cimba trial and their dispatcher (cmb_process.c,     *)
(* cmb_event.c): they hold, set timers, interrupt, resume, stop, restart,  *)
(* promote and join each other, on the kernel of module ProcessKernel.     *)
(*                                                                         *)
(* A step is either one call of the API by the running process, up to its  *)
(* return or to the point where it gives up control, or one event executed *)
(* by the dispatcher together with everything the process it resumes does  *)
(* until it is back from its blocking call, or blocks again inside it.     *)
(* What a process calls next is its own affair: it chooses freely from its *)
(* repertoire, as far as the headers permit the call.                      *)
(*                                                                         *)
(* A module that instantiates this one adds things to wait for, each with  *)
(* a guard, the calls that wait for them, and how those calls go on.       *)
(***************************************************************************)
EXTENDS Integers, Sequences, FiniteSets

CONSTANTS
  Process, Guard, NoOne,
  Satisfied(_, _, _),      \* see ProcessKernel
  Continued(_, _, _),      \* in s, process p, blocked in a call that waits at
                           \* a guard, is back from that wait with sig
  Dropped(_, _),           \* in s, p gives up all it holds
  Reprioritized(_, _, _),  \* in s, what p holds takes note of its priority
  Priority,                \* the priorities in use
  Urgency,                 \* the priorities of interrupts
  Ranks,                   \* the priorities each process is given
  Repertoire,              \* the calls each process makes
  Duration,                \* the durations of holds and timers
  MaxAgenda                \* bound: no process adds timers, interrupts,
                           \* resumes, starts or cancels to an agenda this long

VARIABLE sys     \* the state of the trial, see ProcessKernel

Kernel == INSTANCE ProcessKernel

-----------------------------------------------------------------------------
(* cmi_coroutine_resume: the call that p is blocked in goes on with sig.   *)
Resumed(s, p, sig) ==
  LET c == s.call[p]
  IN  CASE c.fn = "hold" ->
             Kernel!Return(IF sig = "success" THEN s
                           ELSE Kernel!TimerCancel(s, p, c.key), p, sig)
        [] c.fn = "join" ->
             Kernel!Return([s EXCEPT
                              !.waiters[c.on] = Kernel!Unlink(@, p),
                              !.joins[p] = IF @ = c.on THEN NoOne ELSE @],
                           p, sig)
        [] c.fn \in {"yield", "none"} -> Kernel!Return(s, p, sig)
        [] OTHER -> Continued(Kernel!GuardResume(s, p, sig), p, sig)

ResumedIfAlive(s, p, sig) ==
  IF s.status[p] = "running" THEN Resumed(s, p, sig) ELSE s

(* The actions of events.                                                  *)
StartEvent(s, p) ==
  Kernel!Asserted(
    Kernel!Return([s EXCEPT !.status[p] = "running"], p, "success"),
    s.status[p] # "running", "coroutine_start")

WakeupTime(s, p, key, sig) ==
  IF key \notin s.timers[p] THEN s
  ELSE ResumedIfAlive([s EXCEPT !.timers[p] = @ \ {key}], p, sig)

WakeupGuard(s, p, key, sig) ==
  IF Kernel!AwaitingKey(s, p, key) THEN ResumedIfAlive(s, p, sig) ELSE s

WakeupProcess(s, p, sig) ==
  Kernel!Asserted(
    IF s.joins[p] = NoOne THEN s
    ELSE ResumedIfAlive([s EXCEPT !.joins[p] = NoOne], p, sig),
    \/ s.joins[p] # NoOne
    \/ s.timers[p] # {}
    \/ s.ticket[p] # Kernel!NoTicket, "wakeup_event_process")

WakeupInterrupt(s, p, sig) ==
  IF s.status[p] = "running" THEN Resumed(Kernel!CancelAwaiteds(s, p), p, sig)
  ELSE s

(* cmb_event_execute_next *)
Executed(s) ==
  LET e == Kernel!First(s.agenda)
      t == Kernel!Dequeue(s)
      p == e.proc
  IN  CASE e.kind = "start" -> StartEvent(t, p)
        [] e.kind = "time" -> WakeupTime(t, p, e.key, e.sig)
        [] e.kind \in {"grant", "cancelled"} -> WakeupGuard(t, p, e.key, e.sig)
        [] e.kind = "process" -> WakeupProcess(t, p, e.sig)
        [] e.kind = "interrupt" -> WakeupInterrupt(t, p, e.sig)
        [] e.kind \in {"preempt", "resume"} -> ResumedIfAlive(t, p, e.sig)

(* The dispatcher is in control.                                           *)
Dispatching ==
  /\ sys.running = NoOne
  /\ sys.failed = "none"
  /\ sys.agenda # {}

-----------------------------------------------------------------------------
(* The calls of the running process p.                                     *)
Calling(p, op) ==
  /\ sys.running = p
  /\ op \in Repertoire[p]
  /\ sys.failed = "none"

Room == Cardinality(sys.agenda) < MaxAgenda

(* cmb_process_hold *)
Hold(p, d) ==
  /\ Calling(p, "hold")
  /\ sys' = Kernel!Block(Kernel!TimerAdd(sys, p, d, "success"),
                         p, "hold", NoOne, Kernel!FreshKey(sys))

(* cmb_process_yield *)
Yield(p) ==
  /\ Calling(p, "yield")
  /\ sys' = Kernel!Block(sys, p, "yield", NoOne, 0)

(* cmb_process_timer_add, by a process for itself *)
SetTimer(p, d) ==
  /\ Calling(p, "timer") /\ Room
  /\ sys' = Kernel!TimerAdd(sys, p, d, "timeout")

(* cmb_process_timers_clear, by a process for itself *)
ClearTimers(p) ==
  /\ Calling(p, "untimer")
  /\ sys.timers[p] # {}
  /\ sys' = Kernel!TimersClear(sys, p)

(* cmb_process_interrupt *)
Interrupt(p, q, pri) ==
  /\ Calling(p, "interrupt") /\ Room
  /\ sys' = Kernel!Schedule(sys, "interrupt", q, 0, "interrupted", 0, pri)

(* cmb_process_resume, once, of a process that has yielded *)
Resume(p, q) ==
  /\ Calling(p, "resume") /\ Room
  /\ sys.call[q].fn = "yield"
  /\ \A e \in sys.agenda : e.kind # "resume" \/ e.proc # q
  /\ sys' = Kernel!Schedule(sys, "resume", q, 0, "success", 0, sys.prio[q])

(* Faulty: q keeps what it holds.                                          *)
StopHolding(p, q) ==
  /\ Calling(p, "stop")
  /\ p # q
  /\ sys.status[q] = "running"
  /\ sys' = Kernel!WakeWaiters(
              Kernel!CancelAwaiteds(Kernel!Finished(sys, q), q), q, "stopped")

(* cmb_process_stop of a running process; without effect on another one    *)
Stop(p, q) ==
  /\ Calling(p, "stop")
  /\ p # q
  /\ sys.status[q] = "running"
  /\ sys' = Kernel!WakeWaiters(
              Dropped(Kernel!CancelAwaiteds(Kernel!Finished(sys, q), q), q),
              q, "stopped")

(* cmb_process_start of a process that has finished *)
Start(p, q) ==
  /\ Calling(p, "start") /\ Room
  /\ sys.status[q] = "finished"
  /\ \A e \in sys.agenda : e.kind # "start" \/ e.proc # q
  /\ sys' = Kernel!Schedule(sys, "start", q, 0, "success", 0, sys.prio[q])

(* cmb_process_exit, also by a return from the process function *)
Exit(p) ==
  /\ Calling(p, "exit")
  /\ sys' = [Kernel!Finished(
                Kernel!WakeWaiters(Kernel!CancelAwaiteds(Dropped(sys, p), p),
                                   p, "success"), p)
               EXCEPT !.running = NoOne]

(* cmb_process_priority_set *)
SetPriority(p, q, pri) ==
  /\ Calling(p, "priority")
  /\ pri # sys.prio[q]
  /\ sys' = Reprioritized(Kernel!PrioritySet(sys, q, pri), q, pri)

(* cmb_process_wait_process; it returns at once from one that has finished *)
Join(p, q) ==
  /\ Calling(p, "join")
  /\ p # q
  /\ sys.status[q] # "finished"
  /\ sys' = Kernel!WaitProcess(sys, p, q)

(* cmb_resourceguard_cancel of the wait of q at g *)
Cancel(p, q, g) ==
  /\ Calling(p, "cancel") /\ Room
  /\ sys.ticket[q].guard = g
  /\ sys' = Kernel!GuardCancel(sys, q, g)

ProcessCall(p) ==
  \/ \E d \in Duration : Hold(p, d)
  \/ Yield(p)
  \/ \E d \in Duration : SetTimer(p, d)
  \/ ClearTimers(p)
  \/ \E q \in Process, pri \in Urgency : Interrupt(p, q, pri)
  \/ \E q \in Process : Resume(p, q)
  \/ \E q \in Process : Stop(p, q)
  \/ \E q \in Process : Start(p, q)
  \/ Exit(p)
  \/ \E q \in Process : \E pri \in Ranks[q] : SetPriority(p, q, pri)
  \/ \E q \in Process : Join(p, q)
  \/ \E q \in Process, g \in Guard : Cancel(p, q, g)

-----------------------------------------------------------------------------
(* The types of the fields of sys.                                         *)
Event == [kind  : Kernel!Kinds,
          proc  : Process,
          key   : Nat,
          sig   : Kernel!Signals,
          delay : Nat,
          prio  : Priority,
          tag   : Nat \ {0}]

Entry == [proc : Process, key : Nat \ {0}, prio : Priority, tag : Nat \ {0}]

Blocking(guarded) ==
  [fn  : {"none", "hold", "yield", "join"} \cup guarded,
   on  : Process \cup Guard \cup {NoOne},
   key : Nat]

Ticket == [guard : Guard \cup {NoOne}, key : Nat]

Statuses == {"initialized", "running", "finished"}

KernelAssertions == {"coroutine_start", "timers_clear", "guard_signal",
                     "guard_wait", "priority_set", "wakeup_event_process"}

(* No assertion of the code ever fails, whatever the processes do within   *)
(* the headers' terms: among them that a wait is over when it returns      *)
(* (cmb_resourceguard_wait), that a waiter whose priority changes is       *)
(* queued (cmi_hashheap_drank) and that only the holder releases.          *)
NoAbort == sys.failed = "none"

(* The same where processes stop, join, resume and promote one another,    *)
(* but for the two assertions that then can fail: priority_set, for a      *)
(* waiter that was granted its resource and has not been resumed yet, and  *)
(* that of wakeup_event_process, which a stale wakeup reaches.             *)
NoOtherAbort ==
  sys.failed \in {"none", "priority_set", "wakeup_event_process"}

(* The front waiter at a guard is never left waiting for what is there to  *)
(* be had unless somebody has been told: a grant is on its way to a        *)
(* process that is still in the wait it was issued for.  It is what makes  *)
(* waits end although only the front waiter is ever signalled, and         *)
(* although it may leave by a timeout, an interrupt, a preemption or its   *)
(* stop between the signal and its resumption (cmb_resourceguard_wait,     *)
(* cmi_process_cancel_awaiteds).                                           *)
GrantUnderway(g) ==
  \E e \in sys.agenda :
    /\ e.kind = "grant"
    /\ Kernel!AwaitingKey(sys, e.proc, e.key)
    /\ sys.ticket[e.proc].guard = g
    /\ sys.status[e.proc] = "running"

Stranded(g) ==
  /\ sys.queue[g] # {}
  /\ Satisfied(sys, g, Kernel!Front(sys, g).proc)
  /\ ~GrantUnderway(g)

NoStrandedWaiter == \A g \in Guard : ~Stranded(g)

(* No blocked process is lost: one that holds has its timer, one that      *)
(* joins another is in its list of waiters or about to be told, one that   *)
(* waits at a guard is queued or about to be told; or it is going to be    *)
(* interrupted, preempted or resumed out of the call.                      *)
Underway(p, kinds) ==
  \E e \in sys.agenda : e.proc = p /\ e.kind \in kinds

NoLostProcess ==
  \A p \in Process :
    LET c == sys.call[p]
    IN  sys.status[p] = "running" /\ sys.running # p =>
          \/ Underway(p, Kernel!Unchecked)
          \/ c.fn = "yield"
          \/ /\ c.fn = "hold"
             /\ c.key \in sys.timers[p]
             /\ Kernel!TimerEvents(sys, p, {c.key}) # {}
          \/ /\ c.fn = "join"
             /\ sys.joins[p] = c.on
             /\ \/ Kernel!Occurrence(sys.waiters[c.on], p) # {}
                \/ Underway(p, {"process"})
          \/ /\ c.on \in Guard
             /\ sys.ticket[p] = [guard |-> c.on, key |-> c.key]
             /\ \/ Kernel!Entries(sys, c.on, c.key) # {}
                \/ \E e \in sys.agenda :
                     /\ e.kind \in {"grant", "cancelled"}
                     /\ e.proc = p /\ e.key = c.key

(* Every entry in the queue of a guard is the present wait of a live       *)
(* process, at the priority that the process has now, and a process is     *)
(* queued once (priority_set, remove_key, guard_wait).                     *)
QueueFaithful ==
  \A g \in Guard : \A w \in sys.queue[g] :
    /\ sys.ticket[w.proc] = [guard |-> g, key |-> w.key]
    /\ sys.call[w.proc].on = g /\ sys.call[w.proc].key = w.key
    /\ sys.status[w.proc] = "running"
    /\ w.prio = sys.prio[w.proc]

(* The timers a process believes to be set are those that are scheduled,   *)
(* one event each, at the priority of the process.                         *)
TimersFaithful ==
  \A p \in Process :
    /\ \A k \in sys.timers[p] : Cardinality(Kernel!TimerEvents(sys, p, {k})) = 1
    /\ \A e \in sys.agenda :
         e.kind = "time" /\ e.proc = p =>
           e.key \in sys.timers[p] /\ e.prio = sys.prio[p]

(* What a process waits for is recorded with the process and where it will *)
(* be found, in a queue or among the events, and the two agree.            *)
AwaitablesFaithful == QueueFaithful /\ TimersFaithful

(* A process that runs has been told of everything that was taken from it: *)
(* it cannot lose a resource without hearing, before anything else, that   *)
(* it was preempted (cmb_resource_preempt, cmb_resourcepool_preempt).      *)
BeliefSound ==
  \A p \in Process : sys.running = p => sys.untold[p] = {}

(* A process that has finished waits nowhere, stands in no list of waiters *)
(* and has none, and none of the wakeups that are taken at face value is   *)
(* scheduled for it: no timer, no preemption, no resumption                *)
(* (cmb_process_exit, cmb_process_stop).  Other events of its former life  *)
(* may be left.  A grant or a cancellation is recognised by its key; but   *)
(* cmi_process_cancel_awaiteds does not look for the wakeup of a join,     *)
(* which the process takes for an answer if it is started again and joins  *)
(* another one, and an interrupt sent after its end meets it as well.      *)
FinishedIsGone ==
  \A p \in Process :
    sys.status[p] = "finished" =>
      /\ sys.timers[p] = {} /\ sys.ticket[p] = Kernel!NoTicket
      /\ sys.joins[p] = NoOne
      /\ sys.waiters[p] = <<>>
      /\ \A q \in Process : Kernel!Occurrence(sys.waiters[q], p) = {}
      /\ \A g \in Guard : \A w \in sys.queue[g] : w.proc # p
      /\ ~Underway(p, {"time", "preempt", "resume"})

=============================================================================
