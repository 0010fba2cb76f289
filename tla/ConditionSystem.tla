--------------------------- MODULE ConditionSystem ---------------------------
(***************************************************************************)
(* A condition variable (cmb_condition.c).  Processes wait until the world *)
(* suits them, each in its own way; whoever changes the world signals the  *)
(* condition, and everyone who is suited then is resumed.  The condition   *)
(* may also observe the guard of a resource, which forwards its signals;   *)
(* some of those who wait need the resource free as well.  What else       *)
(* processes do is in module ProcessSystem.                                *)
(***************************************************************************)
EXTENDS Integers, Sequences, FiniteSets

CONSTANTS
  Process, NoOne,
  World,                                 \* the states of the world
  Suits,                                 \* the ones that suit each process
  NeedsFree,                             \* who needs the resource free too
  InitWorld, InitPrio,
  Priority, Urgency, Ranks, Repertoire,                 \* see ProcessSystem
  Duration, MaxAgenda

Guarded == {"condition", "resource"}

ASSUME NullAssumption == NoOne \notin Process \cup Guarded

ASSUME ConditionAssumption ==
  /\ Suits \in [Process -> SUBSET World]
  /\ NeedsFree \subseteq Process
  /\ InitWorld \in World
  /\ InitPrio \in [Process -> Priority]

ASSUME ClientAssumption ==
  /\ Priority \subseteq Int
  /\ Urgency \subseteq Priority
  /\ Ranks \in [Process -> SUBSET Priority]
  /\ Duration \subseteq Nat
  /\ MaxAgenda \in Nat

VARIABLES
  sys,         \* the state of the trial, see ProcessKernel
  witnessed    \* history: who is in a wait during which it was once suited

(* The demand functions: the application's, and that of a resource.        *)
Suited(s, p) ==
  /\ s.world \in Suits[p]
  /\ p \in NeedsFree => s.holder = NoOne

Satisfied(s, g, p) ==
  IF g = "condition" THEN Suited(s, p) ELSE s.holder = NoOne

INSTANCE ProcessKernel WITH Guard <- Guarded

(***************************************************************************)
(* Besides the kernel's fields, the state has                              *)
(*   world     what the processes wait for                                 *)
(*   silent    history: the world changed and nobody has signalled since   *)
(*   holder    the process that holds the resource                         *)
(***************************************************************************)
Init ==
  /\ witnessed = {}
  /\ \E order \in [Process -> 1..Cardinality(Process)] :
       /\ \A p, q \in Process : p # q => order[p] # order[q]
       /\ sys =
            [agenda  |-> {[kind |-> "start", proc |-> p, key |-> 0,
                           sig |-> "success", delay |-> 0,
                           prio |-> InitPrio[p], tag |-> order[p]] :
                            p \in Process},
             running |-> NoOne,
             status  |-> [p \in Process |-> "initialized"],
             prio    |-> InitPrio,
             call    |-> [p \in Process |-> Idle],
             timers  |-> [p \in Process |-> {}],
             ticket  |-> [p \in Process |-> NoTicket],
             joins   |-> [p \in Process |-> NoOne],
             waiters |-> [p \in Process |-> <<>>],
             queue   |-> [g \in Guarded |-> {}],
             observers |-> [g \in Guarded |-> IF g = "resource"
                                              THEN <<"condition">> ELSE <<>>],
             untold  |-> [p \in Process |-> {}],
             failed  |-> "none",
             world   |-> InitWorld,
             silent  |-> FALSE,
             holder  |-> NoOne]

-----------------------------------------------------------------------------
(* cmb_resource_acquire from its loop on, as in ResourceSystem             *)
AcquireLoop(s, p, mayGrab) ==
  IF s.holder = NoOne /\ mayGrab THEN Return([s EXCEPT !.holder = p], p, "success")
  ELSE GuardWait(s, p, "acquire", "resource")

(* cmb_condition_wait returns whatever the wait returns, and looks at      *)
(* nothing.                                                                *)
Continued(s, p, sig) ==
  IF s.call[p].fn = "acquire" /\ sig = "success" THEN AcquireLoop(s, p, TRUE)
  ELSE Return(s, p, sig)

(* cmb_resource_release; the guard forwards the signal                     *)
Released(s) == Signal([s EXCEPT !.holder = NoOne], "resource")

Dropped(s, p) == IF s.holder = p THEN Released(s) ELSE s

Reprioritized(s, p, pri) == s

INSTANCE ProcessSystem WITH Guard <- Guarded

-----------------------------------------------------------------------------
(* The heap arrays that the queue of a guard may have: every entry is      *)
(* ahead of those in the slots 2i and 2i + 1.                              *)
Ahead(v, w) == v.prio > w.prio \/ (v.prio = w.prio /\ v.tag < w.tag)

HeapArrays(S) ==
  {f \in [1..Cardinality(S) -> S] :
     /\ \A i, j \in DOMAIN f : i # j => f[i] # f[j]
     /\ \A i \in 2..Cardinality(S) : Ahead(f[i \div 2], f[i])}

(* Faulty: only the front waiter is examined; all are resumed, suited or   *)
(* not.                                                                    *)
SignalledFront(s, f) ==
  [Granted(s, "condition") EXCEPT !.silent = FALSE]

SignalledAnyone(s, f) ==
  LET Wakeup(i) == [kind |-> "grant", proc |-> f[i].proc, key |-> f[i].key,
                    sig |-> "success", delay |-> 0, prio |-> s.prio[f[i].proc],
                    tag |-> Cardinality(s.agenda) + i]
  IN  [s EXCEPT !.agenda = @ \cup {Wakeup(i) : i \in DOMAIN f},
                !.queue["condition"] = {},
                !.silent = FALSE]

(* cmb_condition_signal: two passes over the heap array, which first       *)
(* schedule wakeups for all who are suited, in the order of the array, and *)
(* then remove them from the queue.  It is not forwarded.                  *)
Signalled(s, f) ==
  LET suited    == {i \in DOMAIN f : Suited(s, f[i].proc)}
      Wakeup(i) == [kind |-> "grant", proc |-> f[i].proc, key |-> f[i].key,
                    sig |-> "success", delay |-> 0, prio |-> s.prio[f[i].proc],
                    tag |-> Cardinality(s.agenda)
                              + Cardinality({j \in suited : j <= i})]
  IN  [s EXCEPT !.agenda = @ \cup {Wakeup(i) : i \in suited},
                !.queue["condition"] = Leave(@, {f[i] : i \in suited}),
                !.silent = FALSE]

Dispatch == Dispatching /\ sys' = Executed(sys)

(* cmb_condition_wait, by a process that does not find what it waits for   *)
Wait(p) ==
  /\ Calling(p, "wait")
  /\ ~Suited(sys, p)
  /\ sys' = GuardWait(sys, p, "wait", "condition")

SignalCondition(p) ==
  /\ Calling(p, "signal")
  /\ \E f \in HeapArrays(sys.queue["condition"]) : sys' = Signalled(sys, f)

Change(p, v) ==
  /\ Calling(p, "change")
  /\ v # sys.world
  /\ sys' = [sys EXCEPT !.world = v, !.silent = TRUE]

Acquire(p) ==
  /\ Calling(p, "acquire")
  /\ sys.holder # p
  /\ sys' = AcquireLoop(sys, p, sys.queue["resource"] = {})

Release(p) ==
  /\ Calling(p, "release")
  /\ sys.holder = p
  /\ sys' = Released(sys)

(* cmb_resourceguard_register of the condition's guard with the resource's,*)
(* as tut_4_1.c and test_resourceguard.c call it, once at a time, and      *)
(* _unregister; not cmb_condition_subscribe, which casts the condition     *)
(* itself to a guard.                                                      *)
Subscribe(p) ==
  /\ Calling(p, "subscribe")
  /\ sys.observers["resource"] = <<>>
  /\ sys' = Register(sys, "resource", "condition")

Unsubscribe(p) ==
  /\ Calling(p, "subscribe")
  /\ sys' = Unregister(sys, "resource", "condition")

Client(p) ==
  \/ Wait(p)
  \/ SignalCondition(p)
  \/ \E v \in World : Change(p, v)
  \/ Acquire(p)
  \/ Release(p)
  \/ Subscribe(p)
  \/ Unsubscribe(p)
  \/ ProcessCall(p)

(* Who is in the same wait as before, and was suited then or is now        *)
Witnesses ==
  {p \in Process :
     /\ sys'.call[p].fn = "wait"
     /\ \/ p \in witnessed /\ sys.call[p] = sys'.call[p]
        \/ Suited(sys', p)}

Next ==
  /\ Dispatch \/ \E p \in Process : Client(p)
  /\ witnessed' = Witnesses

Spec == Init /\ [][Next]_<<sys, witnessed>>

-----------------------------------------------------------------------------
(* Whoever waits for the world alone is never left waiting in a world that *)
(* suits it once the condition was signalled after the last change, though *)
(* the order in which waiters are resumed, cancelled, interrupted and come *)
(* back is anyone's guess (cmb_condition_signal).                          *)
SignalReachesAll ==
  sys.silent \/ \A w \in sys.queue["condition"] :
                  w.proc \in NeedsFree \/ ~Suited(sys, w.proc)

(* A wait for a condition that returns success was suited at some time     *)
(* since it was begun; wakeups issued for an earlier wait do not end it    *)
(* (wakeup_event_condition).                                               *)
WaitTruthful ==
  [][\A p \in Process :
       /\ sys.call[p].fn = "wait" /\ sys'.running = p
       /\ First(sys.agenda).sig = "success"
       => p \in witnessed]_<<sys, witnessed>>

=============================================================================
