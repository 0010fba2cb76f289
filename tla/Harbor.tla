------------------------------- MODULE Harbor -------------------------------
(***************************************************************************)
(* The harbor of the tutorial (tut_4_1.c to tut_4_3.c), the program that   *)
(* puts the most parts of the library together: ships wait for the weather *)
(* at a condition that observes the pools of tugs and berths, collect a    *)
(* berth and tugs, announce themselves on a channel, unload, collect the   *)
(* tugs again to leave, and are buried by a process that waits at another  *)
(* condition.  Every process has the same priority and every duration is   *)
(* drawn from a continuous distribution: what is due at one instant is     *)
(* dispatched, in order, before anything else can happen.                  *)
(***************************************************************************)
EXTENDS Integers, Sequences, FiniteSets, SequencesExt, FiniteSetsExt

CONSTANTS
  MaxShips,
  Size,
  NumTugs, NumBerths, TugsNeeded,
  World, Suits,                  \* wind and depth, and what suits each size
  Nobody, Departures             \* no ship; the process that buries ships

Ship == 1..MaxShips              \* in the order of their names
Guard == Size \cup {"harbormaster", "tugs", "comms"}

ASSUME HarborAssumption ==
  /\ MaxShips \in Nat
  /\ NumTugs \in Nat
  /\ NumBerths \in [Size -> Nat]
  /\ TugsNeeded \in [Size -> Nat \ {0}]
  /\ Suits \in [Size -> SUBSET World]
  /\ Nobody \notin Ship
  /\ Departures \notin Ship
  /\ Size \cap {"harbormaster", "tugs", "comms"} = {}

(* A ship that leaves keeps the tugs it has while it waits for the rest.   *)
(* Enough for one more when all berths are taken by ships that lack one:   *)
(* true of 10 tugs and 3 large berths in load_params, not of the 10 tugs   *)
(* and 5 or more large berths among the trials of tut_4_2.c.               *)
ASSUME TugsSuffice ==
  MapThenSumSet(LAMBDA z : NumBerths[z] * (TugsNeeded[z] - 1), Size) < NumTugs

VARIABLE
  h    \* world     the weather and the tide
       \* size      of the ships that have been made so far, by name
       \* at        where each ship is in its process function: "starting",
       \*           the guard where it waits, "calling", "moving",
       \*           "unloading", "departed", "buried" or "stopped"
       \* leaving   the ships that have unloaded
       \* active    the ships on their way, by time of arrival
       \* departed  the ones on the list of departed ships, latest first
       \* queue     the ships that wait at each guard
       \* due       who is to be resumed at this instant, in order
       \* berthed   the ships that hold a berth
       \* tugs      how many tugs each ship holds
       \* claim     how many more it wants
       \* caller    the ship that holds the channel
       \* over      the simulation has ended

(* The harbor when its processes have been started.                        *)
Empty(w) ==
  [world    |-> w,
   size     |-> <<>>,
   at       |-> <<>>,
   leaving  |-> {},
   active   |-> <<>>,
   departed |-> <<>>,
   queue    |-> [g \in Guard |-> <<>>],
   due      |-> <<>>,
   berthed  |-> {},
   tugs     |-> [n \in Ship |-> 0],
   claim    |-> [n \in Ship |-> 0],
   caller   |-> Nobody,
   over     |-> FALSE]

Init == \E w \in World : h = Empty(w)

-----------------------------------------------------------------------------
TugsFree(s) == NumTugs - MapThenSumSet(LAMBDA n : s.tugs[n], Ship)

BerthsFree(s, z) ==
  NumBerths[z] - Cardinality({n \in s.berthed : s.size[n] = z})

(* Faulty: a tug is a tug.                                                 *)
ReadyWithOneTug(s, n) ==
  LET z == s.size[n]
  IN  /\ s.world \in Suits[z]
      /\ TugsFree(s) >= 1
      /\ BerthsFree(s, z) >= 1

(* is_ready_to_dock, the demand function of the harbormaster.              *)
Ready(s, n) ==
  LET z == s.size[n]
  IN  /\ s.world \in Suits[z]
      /\ TugsFree(s) >= TugsNeeded[z]
      /\ BerthsFree(s, z) >= 1

Demand(s, g, n) ==
  CASE g = "harbormaster" -> Ready(s, n)
    [] g = "tugs"         -> TugsFree(s) > 0
    [] g = "comms"        -> s.caller = Nobody
    [] OTHER              -> BerthsFree(s, g) > 0

Granted(s, g) ==
  LET line == s.queue[g]
  IN  IF line # <<>> /\ Demand(s, g, Head(line))
        THEN [s EXCEPT !.queue[g] = Tail(line), !.due = Append(@, Head(line))]
        ELSE s

(* The harbormaster observes the guards of the pools, not the channel's.   *)
Signal(s, g) ==
  IF g = "comms" THEN Granted(s, g) ELSE Granted(Granted(s, g), "harbormaster")

Queued(s, g, n) == [s EXCEPT !.queue[g] = Append(@, n), !.at[n] = g]

-----------------------------------------------------------------------------
(* The process of a ship, from the last of its calls that may wait back to *)
(* the first.                                                              *)
AskComms(s, n, mayGrab) ==
  IF s.caller = Nobody /\ (mayGrab \/ s.queue["comms"] = <<>>)
    THEN [s EXCEPT !.caller = n, !.at[n] = "calling"]
    ELSE Queued(s, "comms", n)

(* Faulty: nobody is told of the tugs that are left over.                  *)
AskTugsQuietly(s, n, claim) ==
  LET share == IF claim <= TugsFree(s) THEN claim ELSE TugsFree(s)
      taken == [s EXCEPT !.tugs[n] = @ + share, !.claim[n] = claim - share]
  IN  IF share = claim
        THEN AskComms(taken, n, FALSE)
        ELSE Queued(taken, "tugs", n)

(* A ship takes the tugs there are, whoever waits for them, and goes to    *)
(* the end of the queue for the rest.                                      *)
AskTugs(s, n, claim) ==
  LET share == IF claim <= TugsFree(s) THEN claim ELSE TugsFree(s)
      taken == [s EXCEPT !.tugs[n] = @ + share, !.claim[n] = claim - share]
  IN  IF share = claim
        THEN AskComms(Signal(taken, "tugs"), n, FALSE)
        ELSE Queued(taken, "tugs", n)

AskBerth(s, n) ==
  LET z == s.size[n]
  IN  IF BerthsFree(s, z) >= 1
        THEN AskTugs(Signal([s EXCEPT !.berthed = @ \cup {n}], z), n,
                     TugsNeeded[z])
        ELSE Queued(s, z, n)

Dock(s, n) ==
  IF Ready(s, n) THEN AskBerth(s, n) ELSE Queued(s, "harbormaster", n)

(* A ship that has been started, or resumed where it waits.                *)
Continued(s, n) ==
  CASE s.at[n] = "starting"     -> Dock([s EXCEPT !.active = Append(@, n)], n)
    [] s.at[n] = "harbormaster" -> Dock(s, n)
    [] s.at[n] = "tugs"         -> AskTugs(s, n, s.claim[n])
    [] s.at[n] = "comms"        -> AskComms(s, n, TRUE)
    [] OTHER                    -> AskBerth(s, n)

TugsReleased(s, n) ==
  Signal([s EXCEPT !.tugs[n] = @ - TugsNeeded[s.size[n]]], "tugs")

BerthReleased(s, n) == Signal([s EXCEPT !.berthed = @ \ {n}], s.size[n])

CommsReleased(s, n) == Signal([s EXCEPT !.caller = Nobody], "comms")

(* The list is pushed and Davy Jones signalled; Departures waits for it,   *)
(* unless it has been called already.                                      *)
Departed(s, n) ==
  [s EXCEPT !.at[n] = "departed",
            !.active = SelectSeq(@, LAMBDA m : m # n),
            !.departed = <<n>> \o @,
            !.due = IF Departures \in Range(@) THEN @ ELSE Append(@, Departures)]

Buried(s) ==
  [s EXCEPT !.at[Head(s.departed)] = "buried", !.departed = Tail(@)]

(* A ship is stopped: it leaves its queue, or passes on the wakeup it does *)
(* not live to see, and what it holds is dropped, the latest first.        *)
Stopped(s, n) ==
  LET gone   == [s EXCEPT !.at[n] = "stopped",
                          !.active = Tail(@),
                          !.leaving = @ \ {n},
                          !.claim[n] = 0,
                          !.queue = [g \in Guard |->
                                       SelectSeq(@[g], LAMBDA m : m # n)],
                          !.due = SelectSeq(@, LAMBDA m : m # n)]
      passed == IF n \in Range(s.due) THEN Signal(gone, s.at[n]) ELSE gone
      silent == IF s.caller = n THEN CommsReleased(passed, n) ELSE passed
      alone  == IF s.tugs[n] > 0
                  THEN Signal([silent EXCEPT !.tugs[n] = 0], "tugs") ELSE silent
  IN  IF n \in s.berthed THEN BerthReleased(alone, n) ELSE alone

-----------------------------------------------------------------------------
(* Nothing but the next wakeup happens while one is due.                   *)
Quiet == h.due = <<>> /\ ~h.over

Wake ==
  /\ h.due # <<>>
  /\ LET n == Head(h.due)
         s == [h EXCEPT !.due = Tail(@)]
     IN  h' = IF n = Departures THEN Buried(s) ELSE Continued(s, n)

(* The arrival process makes a ship and starts it.                         *)
Arrive(z) ==
  /\ Quiet
  /\ Len(h.size) < MaxShips
  /\ h' = [h EXCEPT !.size = Append(@, z),
                    !.at = Append(@, "starting"),
                    !.due = <<Len(h.size) + 1>>]

(* On the hour: the weather, then the tide, which signals the condition.   *)
(* The ones who are ready are examined as they lie in the heap.            *)
HeapOrders(line) ==
  {f \in [DOMAIN line -> DOMAIN line] :
     /\ IsInjective(f)
     /\ \A i \in DOMAIN line : i > 1 => f[i \div 2] < f[i]}

Hour(w) ==
  /\ Quiet
  /\ \E f \in HeapOrders(h.queue["harbormaster"]) :
       LET line  == h.queue["harbormaster"]
           heap  == [i \in DOMAIN line |-> line[f[i]]]
           s     == [h EXCEPT !.world = w]
       IN  h' = [s EXCEPT
                   !.due = SelectSeq(heap, LAMBDA n : Ready(s, n)),
                   !.queue["harbormaster"] =
                      SelectSeq(line, LAMBDA n : ~Ready(s, n))]

(* The ends of a ship's holds.                                             *)
Holding(n, where) == Quiet /\ n \in DOMAIN h.at /\ h.at[n] = where

Announced(n) ==
  /\ Holding(n, "calling")
  /\ h' = [CommsReleased(h, n) EXCEPT !.at[n] = "moving"]

(* Faulty: the tugs stay with the ship.                                    *)
MooredWithTugs(s, n) == [s EXCEPT !.at[n] = "unloading"]

Moored(s, n) == [TugsReleased(s, n) EXCEPT !.at[n] = "unloading"]

Docked(n) ==
  /\ Holding(n, "moving")
  /\ n \notin h.leaving
  /\ h' = Moored(h, n)

Unloaded(n) ==
  /\ Holding(n, "unloading")
  /\ h' = AskTugs([h EXCEPT !.leaving = @ \cup {n}], n, TugsNeeded[h.size[n]])

Undocked(n) ==
  /\ Holding(n, "moving")
  /\ n \in h.leaving
  /\ h' = Departed(TugsReleased(BerthReleased(h, n), n), n)

HoldOver ==
  \E n \in Ship : Announced(n) \/ Docked(n) \/ Unloaded(n) \/ Undocked(n)

(* Every process is stopped, the active ships in the order of arrival, and *)
(* the event queue is cleared.                                             *)
EndSim ==
  /\ Quiet
  /\ h' = [FoldLeft(Stopped, h, h.active) EXCEPT !.due = <<>>, !.over = TRUE]

(* tut_4_3.c: a ship at the quay meets with an error that has the whole    *)
(* trial abandoned.  trial_cleanup stops the ships and frees the departed. *)
Abandon(n) ==
  /\ Holding(n, "moving")
  /\ n \notin h.leaving
  /\ h' = [FoldLeft(Stopped, h, h.active)
             EXCEPT !.due = <<>>, !.departed = <<>>, !.over = TRUE]

Next ==
  \/ Wake
  \/ \E z \in Size : Arrive(z)
  \/ \E w \in World : Hour(w)
  \/ HoldOver
  \/ EndSim
  \/ \E n \in Ship : Abandon(n)

(* Events are executed until none is left, every hold ends, and the wind   *)
(* and the water, random as they are, suit every size time and again.      *)
Fairness ==
  /\ WF_h(Wake)
  /\ WF_h(HoldOver)
  /\ \A z \in Size : SF_h(\E w \in Suits[z] : Hour(w))


-----------------------------------------------------------------------------
Waiting(n) == h.at[n] \in Guard

InHarbor == {"comms", "calling", "moving", "unloading", "tugs"}

(* What is_ready_to_dock looks at is what the ship then gets: a ship that  *)
(* has been cleared to dock waits neither for a berth nor for tugs, though *)
(* it acquires them one after the other and signals others in between.     *)
(* Berths, tugs and the channel are held by the ships whose place in the   *)
(* process says so, in the right number, and by no one at the end.         *)
HoldingsFit ==
  /\ TugsFree(h) >= 0
  /\ \A z \in Size : BerthsFree(h, z) >= 0
  /\ \A n \in DOMAIN h.at :
       LET needed == TugsNeeded[h.size[n]]
       IN  /\ h.at[n] \notin Size
           /\ h.at[n] = "tugs" => n \in h.leaving
           /\ n \in h.berthed <=> h.at[n] \in InHarbor
           /\ h.caller = n <=> h.at[n] = "calling"
           /\ h.tugs[n] =
                CASE h.at[n] = "tugs" -> needed - h.claim[n]
                  [] h.at[n] \in {"comms", "calling", "moving"} -> needed
                  [] OTHER -> 0

(* Whoever waits is in the queue it waits in or about to be resumed, once; *)
(* the list of active ships is who has arrived and not left, in order; and *)
(* when all that is due has happened, no queue is left whose first ship    *)
(* could go on, and no ship that has left is unburied: every change that a *)
(* queue waits for is signalled, directly or through the harbormaster's    *)
(* observation of the pools.                                               *)
NobodyForgotten ==
  /\ \A n \in DOMAIN h.at :
       LET places == {g \in Guard : n \in Range(h.queue[g])}
       IN  IF Waiting(n)
             THEN places = IF n \in Range(h.due) THEN {} ELSE {h.at[n]}
             ELSE /\ places = {}
                  /\ n \in Range(h.due) => h.at[n] = "starting"
  /\ \A g \in Guard : IsInjective(h.queue[g])
  /\ IsInjective(h.due)
  /\ h.active = SelectSeq([n \in DOMAIN h.at |-> n],
                          LAMBDA n : Waiting(n) \/ h.at[n] \in InHarbor)
  /\ Quiet => /\ h.departed = <<>>
              /\ \A g \in Guard :
                   h.queue[g] # <<>> => ~Demand(h, g, Head(h.queue[g]))

(* Every ship that arrives leaves again, unless the simulation ends first: *)
(* time and again the harbor is empty, there being only so many ships,     *)
(* although ships that leave collect their tugs piece by piece and go to   *)
(* the end of the queue each time.                                         *)
EveryShipLeaves == []<>(h.over \/ \A n \in DOMAIN h.at : h.at[n] = "buried")

=============================================================================
