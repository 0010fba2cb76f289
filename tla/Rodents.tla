------------------------------ MODULE Rodents ------------------------------
(***************************************************************************)
(* Cat and mice (tutorial/tut_2_1.c): mice and rats collect units of a     *)
(* pool, the pile of cheese, hold on to them and drop some; rats take them *)
(* from weaker rodents, and every now and then the cat interrupts one in   *)
(* whatever it does.  Each of them chooses what to ask for and its own     *)
(* priority anew in every round, so that one can ask for more than there   *)
(* is and wait until the cat chases it away.                               *)
(*                                                                         *)
(* A process calls the pool and the kernel the way it does in PoolSystem,  *)
(* whose state it shares, but in the order of its program.  How long it    *)
(* holds is drawn from a continuous distribution: an end of a hold falls   *)
(* between any two others, and never together with one.  Only the order of *)
(* the times in the agenda is kept.                                        *)
(***************************************************************************)
EXTENDS PoolSystem

CONSTANTS
  Mice, Rats, Cats,
  Cheese,                 \* the pool
  Bites,                  \* what each rodent may ask for in one round
  Moods                   \* the priorities it may give itself

Rodent == Mice \cup Rats

ASSUME RodentAssumption ==
  /\ Mice \cup Rats \cup Cats \subseteq Process
  /\ Mice \cap Rats = {} /\ Rodent \cap Cats = {}
  /\ Cheese \in Pool
  /\ \A p \in Rodent : Bites[p] \subseteq 1..Capacity[Cheese]
  /\ Moods \in [Rodent -> SUBSET Priority]

VARIABLE stage   \* where each animal is in its program: at its call, which
                 \* is blocked or has just returned, and what it had when it
                 \* began to hold

At(call, had) == [at |-> call, had |-> had]

NoStage == [p \in Process |-> At("nothing", 0)]

(* The arrays of struct simulation, one after the other; run_trial starts  *)
(* the animals in that order, with any priorities.                         *)
Animals == Rodent \cup Cats

Kind(p) == CASE p \in Mice -> 1 [] p \in Rats -> 2 [] p \in Cats -> 3

Place(p) ==
  Cardinality({q \in Animals : \/ Kind(q) < Kind(p)
                               \/ Kind(q) = Kind(p) /\ Handle[q] <= Handle[p]})

TrialInit ==
  /\ \E pri \in [Process -> Priority] :
       /\ \A p \in Process \ Rodent : pri[p] = InitPrio[p]
       /\ sys = Beginning(Animals, [p \in Animals |-> Place(p)], pri)
  /\ stage = [p \in Process |-> At(IF p \in Animals THEN "start" ELSE "nothing",
                                   0)]

Playing == stage # NoStage

-----------------------------------------------------------------------------
(* The agenda with the times of its events, and their handles, numbered    *)
(* from 1.                                                                 *)
Compacted(s) ==
  LET Later(e, f) == f.delay < e.delay \/ (f.delay = e.delay /\ f.tag <= e.tag)
      times == {e.delay : e \in s.agenda} \ {0}
  IN  [s EXCEPT !.agenda =
         {[e EXCEPT !.delay = Cardinality({d \in times : d <= e.delay}),
                    !.tag = Cardinality({f \in s.agenda : Later(e, f)})] :
            e \in s.agenda}]

(* cmb_process_hold(cmb_random_exponential(...)): the d-th of the times in *)
(* the agenda will be the end of the hold.                                 *)
HoldUntil(s, p, d) ==
  LET t == [s EXCEPT !.agenda =
              {[e EXCEPT !.delay = IF @ >= d THEN @ + 1 ELSE @] : e \in @}]
  IN  Block(TimerAdd(t, p, d, "success"), p, "hold", NoOne, FreshKey(t))

Ends(s) == 1 .. (Cardinality({e.delay : e \in s.agenda} \ {0}) + 1)

(* The end of the call at p's stage has come, and p runs on.               *)
Awake(p, call) ==
  /\ sys.running = p
  /\ sys.failed = "none"
  /\ stage[p].at = call

Rest(p, s, call) ==
  /\ \E d \in Ends(Compacted(s)) : sys' = HoldUntil(Compacted(s), p, d)
  /\ stage' = [stage EXCEPT ![p] = At(call, Held(s, p, Cheese))]

-----------------------------------------------------------------------------
(* One call each of the rounds of a mouse or a rat.                        *)
Ask(p, mug) ==
  /\ Awake(p, "start") \/ Awake(p, "rest")
  /\ \E n \in Bites[p], pri \in Moods[p] :
       sys' = Claimed(Reprioritized(PrioritySet(sys, p, pri), p, pri),
                      p, Cheese, n, mug)
  /\ stage' = [stage EXCEPT ![p] = At("ask", 0)]

Carry(p) == Awake(p, "ask") /\ Rest(p, sys, "carry")

(* It never drops its last piece if that is all it has.                    *)
Drop(p) ==
  /\ Awake(p, "carry")
  /\ LET had == Held(sys, p, Cheese)
     IN  \/ had <= 1 /\ Rest(p, sys, "rest")
         \/ /\ had > 1
            /\ \E n \in 1..had : Rest(p, Released(sys, p, Cheese, n), "rest")

mousefunc(p) == Ask(p, FALSE) \/ Carry(p) \/ Drop(p)

ratfunc(p) == Ask(p, TRUE) \/ Carry(p) \/ Drop(p)

Sleep(c) ==
  /\ Awake(c, "start") \/ Awake(c, "chase")
  /\ Rest(c, sys, "sleep")

Chase(c) ==
  /\ Awake(c, "sleep") \/ Awake(c, "chase")
  /\ \E p \in Rodent :
       Rest(c, Schedule(sys, "interrupt", p, 0, "interrupted", 0, 0), "chase")

catfunc(c) == Sleep(c) \/ Chase(c)

(* end_sim_evt, at a time at which nothing else happens: all are stopped   *)
(* in the order of the arrays.                                             *)
Stopped(s, p) ==
  IF s.status[p] # "running" THEN s
  ELSE WakeWaiters(Dropped(CancelAwaiteds(Finished(s, p), p), p), p, "stopped")

EndSim ==
  /\ Dispatching
  /\ \A e \in sys.agenda : e.delay > 0
  /\ \A p \in Animals : sys.status[p] = "running"
  /\ LET after[i \in 0..Cardinality(Animals)] ==
           IF i = 0 THEN sys
           ELSE Stopped(after[i - 1], CHOOSE p \in Animals : Place(p) = i)
     IN  sys' = after[Cardinality(Animals)]
  /\ UNCHANGED stage

NextEvent ==
  /\ Dispatching
  /\ sys' = Compacted(Dispatched(sys))
  /\ UNCHANGED stage

TrialNext ==
  /\ Playing
  /\ \/ NextEvent
     \/ EndSim
     \/ \E p \in Mice : mousefunc(p)
     \/ \E p \in Rats : ratfunc(p)
     \/ \E p \in Cats : catfunc(p)

-----------------------------------------------------------------------------
(* A run is one of clients that do as they like, or of the animals.        *)
RodentsSpec ==
  /\ (Init /\ stage = NoStage) \/ TrialInit
  /\ [][(~Playing /\ Next /\ UNCHANGED stage) \/ TrialNext]_<<sys, stage>>

(* Whatever the animals do to each other over the pile, no assertion       *)
(* fails, none of them is lost in a blocking call, and once the end of the *)
(* simulation has stopped them all, in the middle of their claims and with *)
(* grants on their way, all the cheese is back and nobody is queued for it *)
(* (end_sim_evt, cmb_process_stop).                                        *)
PileTrue ==
  Playing =>
    /\ sys.failed = "none"
    /\ NoLostProcess
    /\ (\A p \in Rodent : sys.status[p] = "finished") =>
         /\ sys.inUse[Cheese] = 0
         /\ sys.holders[Cheese] = {} /\ sys.queue[Cheese] = {}

(* What CHECK_OUTCOME prints after a hold is so: a rodent that was         *)
(* preempted meanwhile has nothing left, and one that was interrupted      *)
(* still has the same amount as before (tut_2_1.c:67-78).                  *)
HoldHonoured ==
  [][\A p \in Rodent :
       Playing /\ sys.call[p].fn = "hold" /\ sys'.running = p =>
         Held(sys', p, Cheese) =
           IF First(sys.agenda).sig = "preempted" THEN 0 ELSE stage[p].had
    ]_<<sys, stage>>

(* The results of all calls that can be cut short are true, those of free  *)
(* clients and those of the animals, and the pile comes out even.          *)
OutcomesTrue == ClaimHonoured /\ HoldHonoured /\ []PileTrue

=============================================================================
