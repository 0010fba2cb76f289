--------------------------- MODULE ResourceSystem ---------------------------
(***************************************************************************)
(* Binary resources (cmb_resource.c): processes acquire, preempt and       *)
(* release them, and do to each other what module ProcessSystem has.       *)
(***************************************************************************)
EXTENDS Integers, Sequences, FiniteSets

CONSTANTS
  Process, Resource, NoOne,
  InitPrio,                              \* the priority each process starts with
  Priority, Urgency, Ranks, Repertoire,                 \* see ProcessSystem
  Duration, MaxAgenda

ASSUME NullAssumption == NoOne \notin Process \cup Resource

ASSUME FiniteAssumption == IsFiniteSet(Process)

ASSUME PrioAssumption == InitPrio \in [Process -> Priority]

ASSUME ClientAssumption ==
  /\ Priority \subseteq Int
  /\ Urgency \subseteq Priority
  /\ Ranks \in [Process -> SUBSET Priority]
  /\ Duration \subseteq Nat
  /\ MaxAgenda \in Nat

VARIABLE sys     \* the state of the trial, see ProcessKernel and Init

(* is_available, the demand function of all who wait for a resource.       *)
IsAvailable(s, r, p) == s.holder[r] = NoOne

INSTANCE ProcessKernel WITH Guard <- Resource, Satisfied <- IsAvailable

(***************************************************************************)
(* Besides the kernel's fields, the state has                              *)
(*   holder    the process that holds each resource                        *)
(*   held      the resources in each process's list, head first            *)
(***************************************************************************)
Init ==
  \E order \in [Process -> 1..Cardinality(Process)] :
    /\ \A p, q \in Process : p # q => order[p] # order[q]
    /\ sys =
         [agenda  |-> {[kind |-> "start", proc |-> p, key |-> 0,
                        sig |-> "success", delay |-> 0, prio |-> InitPrio[p],
                        tag |-> order[p]] : p \in Process},
          running |-> NoOne,
          status  |-> [p \in Process |-> "initialized"],
          prio    |-> InitPrio,
          call    |-> [p \in Process |-> Idle],
          timers  |-> [p \in Process |-> {}],
          ticket  |-> [p \in Process |-> NoTicket],
          joins   |-> [p \in Process |-> NoOne],
          waiters |-> [p \in Process |-> <<>>],
          queue   |-> [r \in Resource |-> {}],
          observers |-> [r \in Resource |-> <<>>],
          untold  |-> [p \in Process |-> {}],
          failed  |-> "none",
          holder  |-> [r \in Resource |-> NoOne],
          held    |-> [p \in Process |-> <<>>]]

-----------------------------------------------------------------------------
(* resource_grab *)
Grab(s, p, r) == [s EXCEPT !.holder[r] = p, !.held[p] = <<r>> \o @]

(* The loop of cmb_resource_acquire; mayGrab is the code's may_grab.       *)
AcquireLoop(s, p, r, mayGrab) ==
  IF s.holder[r] = NoOne /\ mayGrab THEN Return(Grab(s, p, r), p, "success")
  ELSE GuardWait(s, p, "acquire", r)

Continued(s, p, sig) ==
  IF sig = "success" THEN AcquireLoop(s, p, s.call[p].on, TRUE)
  ELSE Return(s, p, sig)

(* cmi_process_drop_resources with resource_drop_holder: from the head of  *)
(* the list on, each resource becomes free and its guard is signalled.     *)
Dropped(s, p) ==
  LET rs       == s.held[p]
      served   == {i \in 1..Len(rs) : s.queue[rs[i]] # {}}
      Place(i) == Cardinality({j \in served : j <= i})
      Grant(i) == LET q == Front(s, rs[i]).proc
                  IN  [kind |-> "grant", proc |-> q,
                       key |-> GuardKey(s, q, rs[i]), sig |-> "success",
                       delay |-> 0, prio |-> s.prio[q],
                       tag |-> Cardinality(s.agenda) + Place(i)]
      dropped  == {rs[i] : i \in 1..Len(rs)}
  IN  Asserted(
        [s EXCEPT
           !.agenda  = @ \cup {Grant(i) : i \in served},
           !.queue   = [r \in Resource |->
                          IF r \in dropped /\ @[r] # {}
                          THEN Leave(@[r], {Front(s, r)}) ELSE @[r]],
           !.holder  = [r \in Resource |-> IF r \in dropped THEN NoOne
                                           ELSE @[r]],
           !.held[p] = <<>>],
        \A r \in dropped : s.holder[r] = p, "drop_holder")

(* A resource has no reprio callback.                                      *)
Reprioritized(s, p, pri) == s

INSTANCE ProcessSystem WITH Guard <- Resource, Satisfied <- IsAvailable

-----------------------------------------------------------------------------
Dispatch == Dispatching /\ sys' = Executed(sys)

(* A process can tell by the results of its calls what it holds, once it   *)
(* has been told of its losses.                                            *)
Believes(p, r) == sys.holder[r] = p \/ r \in sys.untold[p]

(* cmb_resource_acquire: who finds the guard's queue empty may grab.       *)
Acquire(p, r) ==
  /\ Calling(p, "acquire")
  /\ ~Believes(p, r)
  /\ sys' = AcquireLoop(sys, p, r, sys.queue[r] = {})

(* Faulty: the awaitables are not cancelled.                               *)
EvictedStillWaiting(s, q, r) ==
  Schedule([s EXCEPT !.held[q] = Unlink(@, r), !.holder[r] = NoOne,
                     !.untold[q] = @ \cup {r}],
           "preempt", q, 0, "preempted", 0, s.prio[q])

(* cmb_resource_preempt: a free resource is taken whoever waits for it, a  *)
(* weaker holder is thrown out of it and of whatever it is blocked in.     *)
Evicted(s, q, r) ==
  Schedule([CancelAwaiteds([s EXCEPT !.held[q] = Unlink(@, r)], q)
              EXCEPT !.holder[r] = NoOne, !.untold[q] = @ \cup {r}],
           "preempt", q, 0, "preempted", 0, s.prio[q])

Preempt(p, r) ==
  LET q == sys.holder[r]
  IN  /\ Calling(p, "preempt")
      /\ ~Believes(p, r)
      /\ sys' = IF q = NoOne THEN Grab(sys, p, r)
                ELSE IF sys.prio[p] > sys.prio[q]
                THEN Grab(Evicted(sys, q, r), p, r)
                ELSE AcquireLoop(sys, p, r, sys.queue[r] = {})

(* cmb_resource_release *)
Release(p, r) ==
  /\ Calling(p, "release")
  /\ Believes(p, r)
  /\ sys' = IF sys.holder[r] # p THEN Asserted(sys, FALSE, "release")
            ELSE Signal([sys EXCEPT !.held[p] = Unlink(@, r),
                                    !.holder[r] = NoOne], r)

Client(p) ==
  \/ \E r \in Resource : Acquire(p, r)
  \/ \E r \in Resource : Preempt(p, r)
  \/ \E r \in Resource : Release(p, r)
  \/ ProcessCall(p)

Next == Dispatch \/ \E p \in Process : Client(p)

Spec == Init /\ [][Next]_sys

-----------------------------------------------------------------------------
State ==
  [agenda  : SUBSET Event,
   running : Process \cup {NoOne},
   status  : [Process -> Statuses],
   prio    : [Process -> Priority],
   call    : [Process -> Blocking({"acquire"})],
   timers  : [Process -> SUBSET (Nat \ {0})],
   ticket  : [Process -> Ticket],
   joins   : [Process -> Process \cup {NoOne}],
   waiters : [Process -> Seq(Process)],
   queue   : [Resource -> SUBSET Entry],
   observers : [Resource -> {<<>>}],
   untold  : [Process -> SUBSET Resource],
   failed  : KernelAssertions \cup {"none", "drop_holder", "release"},
   holder  : [Resource -> Process \cup {NoOne}],
   held    : [Process -> Seq(Resource)]]

TypeOK == sys \in State

(* The two records of who holds what agree: a resource is in the list of   *)
(* its holder, once, and in no other list, and only a process that is      *)
(* alive holds one.  Every grab, release, preempt, stop and exit has to    *)
(* change both.                                                            *)
HolderListed ==
  \A r \in Resource, p \in Process :
    LET places == {i \in 1..Len(sys.held[p]) : sys.held[p][i] = r}
    IN  IF sys.holder[r] = p
        THEN Cardinality(places) = 1 /\ sys.status[p] = "running"
        ELSE places = {}

(* "Changing a process' priority with cmb_process_priority_set() will also *)
(* have effect on any priority queues it may be waiting in" (the           *)
(* tutorial); cmi_hashheap_drank asserts that the process is in the queue. *)
(* The code does not keep it.                                              *)
PriorityMayChange == sys.failed # "priority_set"

-----------------------------------------------------------------------------
(* Programs in which no wakeup hits a call that it was not meant for.  A   *)
(* resume is not tied to the yield that it answers: where a timer may end  *)
(* the yield first, it goes on to end whatever the process calls next.     *)
(* Nor is the news of a preemption tied to the call that was blocked: an   *)
(* interrupt may overtake it, and it may overtake a resume.                *)
Uncalled(op) == \A p \in Process : op \notin Repertoire[p]

MildPrograms ==
  /\ Uncalled("resume") \/ \A p \in Process : ~({"yield", "timer"} \subseteq Repertoire[p])
  /\ Uncalled("preempt") \/ (Uncalled("interrupt") /\ Uncalled("resume"))

-----------------------------------------------------------------------------
(* The resources in the hands of considerate processes of one priority:    *)
(* each holds one resource at a time and releases it in the end, and none  *)
(* calls acquire in the instant between the release of a resource and the  *)
(* resumption of the waiter that was granted it, when the code lets it go  *)
(* first.                                                                  *)
Considerate(p) ==
  \/ \E r \in Resource :
       /\ \A q \in Resource : ~Believes(p, q)
       /\ ~GrantUnderway(r)
       /\ Acquire(p, r)
  \/ \E r \in Resource : Release(p, r)
  \/ \E d \in Duration : Hold(p, d)

(* The dispatcher runs while there are events; a process that runs does    *)
(* not call acquire and release forever without letting time pass; and one *)
(* that comes back to run with a resource in hand releases it some time.   *)
FairSpec ==
  /\ Init
  /\ [][Dispatch \/ \E p \in Process : Considerate(p)]_sys
  /\ WF_sys(Dispatch)
  /\ \A p \in Process : WF_sys(\E d \in Duration : Hold(p, d))
  /\ \A p \in Process, r \in Resource : SF_sys(Release(p, r))

(* Every process that waits for a resource gets it in the end              *)
(* (cmb_resource_acquire): no wakeup is lost, and one that finds the       *)
(* resource taken when it is resumed does not wait forever.                *)
EventuallyServed ==
  \A p \in Process, r \in Resource :
    sys.call[p].fn = "acquire" /\ sys.call[p].on = r ~> sys.holder[r] = p

=============================================================================
