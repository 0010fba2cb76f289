------------------------------ MODULE Queueing ------------------------------
(***************************************************************************)
(* One trial of the M/M/1 queue, in its two forms: the tutorial's          *)
(* (tut_1_7.c) keeps customers as a level in a buffer, whose history is    *)
(* recorded between warm-up and end, and is stopped by events; the         *)
(* benchmark's (MM1_single.c) passes a number of objects through an object *)
(* queue, adds up their times in the system and ends by itself.            *)
(*                                                                         *)
(* Durations are drawn from continuous distributions, so that no two       *)
(* processes are due at one instant: holds end at even times, the trial's  *)
(* own events are scheduled for odd ones.                                  *)
(***************************************************************************)
EXTENDS Integers, Sequences, SequencesExt

CONSTANTS
  Duration,            \* halves of what a hold may last
  Warmup, Span,        \* in the same unit, odd and even
  NumObjects

QueueingAssumption ==
  /\ Duration \subseteq Nat \ {0}
  /\ Warmup \in Nat /\ Warmup % 2 = 1
  /\ Span \in Nat \ {0} /\ Span % 2 = 0
  /\ NumObjects \in Nat \ {0}

VARIABLE
  q    \* program   "buffer", "objects" or "none"
       \* now       the time
       \* queue     the customers there, by their time of arrival
       \* arrives   when the arrival process is due, or Never
       \* serves    when the server is due, or Never
       \* served    the customer in service, or Never
       \* granted   the server has been signalled and is about to run
       \* made      how many objects the arrival process has put
       \* lent      the objects that are out of the memory pool
       \* count     obj_cnt
       \* sum       sum_wait
       \* events    start_rec, stop_rec and end_sim, as scheduled
       \* recording whether the queue keeps its history
       \* history   of its length, with times
       \* area      what has been waited, for comparison
       \* stage     "running" or "over"

Never == -1

Over ==
  [program |-> "none", now |-> 0, queue |-> <<>>, arrives |-> Never, serves |-> Never,
   served |-> Never, granted |-> FALSE, made |-> 0, lent |-> 0, count |-> 0, sum |-> 0,
   events |-> <<>>, recording |-> FALSE, history |-> <<>>, area |-> 0, stage |-> "over"]

(* Both processes have been started: one holds, the other waits.           *)
Begun(program, d) ==
  [Over EXCEPT !.program = program, !.arrives = 2 * d, !.stage = "running"]

BufferInit ==
  \E d \in Duration :
    q = [Begun("buffer", d) EXCEPT !.events = <<"start_rec", "stop_rec", "end_sim">>]

ObjectsInit == \E d \in Duration : q = Begun("objects", d)

Init == BufferInit \/ ObjectsInit

-----------------------------------------------------------------------------
EventTime == IF Head(q.events) = "start_rec" THEN Warmup ELSE Warmup + Span

Times ==
  ({q.arrives, q.serves} \ {Never}) \cup (IF q.events = <<>> THEN {} ELSE {EventTime})

Soonest(t) == ~q.granted /\ t \in Times /\ \A u \in Times : t <= u

(* Time goes by for who waits, while it counts.                            *)
Waiting(s) ==
  Len(s.queue) + (IF s.program = "objects" /\ s.served # Never THEN 1 ELSE 0)

Counts(s) == s.program = "objects" \/ s.recording

At(s, t) ==
  [s EXCEPT !.now = t,
            !.area = @ + IF Counts(s) THEN (t - s.now) * Waiting(s) ELSE 0]

(* The end of a hold that begins now, unlike the other process's.          *)
HoldEnds(s, other) == {s.now + 2 * d : d \in Duration} \ {other}

Recorded(s) ==
  [s EXCEPT !.history = IF s.recording THEN Append(@, <<Len(s.queue), s.now>>) ELSE @]

(* Faulty: the history has the length before the put.                      *)
PutAfterRecord(s) ==
  [Recorded(s) EXCEPT !.queue = Append(@, s.now), !.granted = s.serves = Never]

(* cmb_buffer_put or cmb_objectqueue_put: there is always room.            *)
Put(s) ==
  LET t == Recorded([s EXCEPT !.queue = Append(@, s.now)])
  IN  [t EXCEPT !.granted = s.serves = Never]

(* arrival_proc and arrivalfunc.                                           *)
ArriveForever(s) == {[Put(s) EXCEPT !.arrives = u] : u \in HoldEnds(s, s.serves)}

ArriveObject(s) ==
  LET t == [Put(s) EXCEPT !.made = @ + 1, !.lent = @ + 1]
  IN  IF t.made = NumObjects
        THEN {[t EXCEPT !.arrives = Never]}
        ELSE {[t EXCEPT !.arrives = u] : u \in HoldEnds(s, s.serves)}

Arrive ==
  /\ q.arrives # Never
  /\ Soonest(q.arrives)
  /\ LET s == At(q, q.arrives)
     IN  q' \in IF q.program = "buffer" THEN ArriveForever(s) ELSE ArriveObject(s)

(* A get that finds something, or waits at the guard; then a hold.         *)
Get(s) ==
  IF s.queue = <<>>
    THEN {[s EXCEPT !.serves = Never, !.served = Never, !.granted = FALSE]}
    ELSE LET t == Recorded([s EXCEPT !.queue = Tail(@), !.served = Head(s.queue),
                                     !.granted = FALSE])
         IN  {[t EXCEPT !.serves = u] : u \in HoldEnds(s, s.arrives)}

Wake ==
  /\ q.granted
  /\ q' \in Get(q)

(* service_proc goes on to the next; servicefunc counts the object first.  *)
ServedObject(s) ==
  [s EXCEPT !.sum = @ + (s.now - s.served), !.count = @ + 1, !.lent = @ - 1]

Serve ==
  /\ q.serves # Never
  /\ Soonest(q.serves)
  /\ LET s == At(q, q.serves)
     IN  q' \in Get(IF q.program = "objects" THEN ServedObject(s) ELSE s)

EventDue(name) ==
  /\ q.events # <<>>
  /\ Head(q.events) = name
  /\ Soonest(EventTime)

StartRec ==
  /\ EventDue("start_rec")
  /\ q' = Recorded([At(q, EventTime) EXCEPT !.recording = TRUE, !.events = Tail(@)])

StopRec ==
  /\ EventDue("stop_rec")
  /\ q' = [Recorded(At(q, EventTime)) EXCEPT !.recording = FALSE, !.events = Tail(@)]

EndSim ==
  /\ EventDue("end_sim")
  /\ q' = [q EXCEPT !.arrives = Never, !.serves = Never, !.events = <<>>]

(* No event is left.  The server that still waits is stopped.              *)
Finish ==
  /\ q.stage = "running"
  /\ Times = {}
  /\ ~q.granted
  /\ q' = [q EXCEPT !.stage = "over"]

Next == Arrive \/ Wake \/ Serve \/ StartRec \/ StopRec \/ EndSim \/ Finish

-----------------------------------------------------------------------------
(* cmb_timeseries_summarize and cmb_wtdsummary_mean: the weights and the   *)
(* weighted sum, of which the average is made.                             *)
Weight(i) == q.history[i + 1][2] - q.history[i][2]

Summary ==
  FoldLeft(LAMBDA s, i : <<s[1] + Weight(i), s[2] + Weight(i) * q.history[i][1]>>,
           <<0, 0>>, [i \in 1 .. Len(q.history) - 1 |-> i])

(* Customers are served in the order of their arrival, by a server that    *)
(* is idle only when nobody is there.  When the trial is over, what it     *)
(* reports is what has happened: the average of the history is the time    *)
(* that customers have spent in the queue from warm-up to end, over the    *)
(* time between; and the objects' times in the system add up to the        *)
(* objects that were in the system at each time (Little's law), all of     *)
(* them gone and back in their pool.                                       *)
AverageTrue ==
  /\ \A i \in 1 .. Len(q.queue) - 1 : q.queue[i] < q.queue[i + 1]
  /\ q.queue # <<>> => q.served < q.queue[1]
  /\ q.stage = "running" /\ q.serves = Never /\ Times # {} =>
       q.queue = <<>> \/ q.granted
  /\ q.stage = "over" /\ q.program = "buffer" => Summary = <<Span, q.area>>
  /\ q.stage = "over" /\ q.program = "objects" =>
       q.sum = q.area /\ q.count = NumObjects /\ q.lent = 0 /\ q.queue = <<>>

=============================================================================
