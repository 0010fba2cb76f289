-------------------------------- MODULE Park --------------------------------
(***************************************************************************)
(* The amusement park of the tutorial (tut_3_1.c): visitors walk from one  *)
(* attraction to another, balk at long queues, jockey to shorter ones and  *)
(* renege when they run out of patience, while servers take them from the  *)
(* queues in batches.  A visitor in a queue has set its timers and yielded;*)
(* it is the server, another process, that clears them and resumes it.     *)
(* Durations are drawn from continuous distributions: what is due at one   *)
(* instant is dispatched, in order, before anything else can happen.       *)
(***************************************************************************)
EXTENDS Integers, Sequences, FiniteSets, SequencesExt

CONSTANTS
  MaxVisitors,
  Attraction,
  Line, LinesOf,              \* the queues, and the ones of each attraction
  Server, LineOf, BatchSize,  \* who serves which queue, how many at a time
  Balking,                    \* queue lengths at which visitors may balk
  Undertaker, NoLine          \* the departure process; no queue

Visitor == 1..MaxVisitors

VARIABLE
  v    \* gold      the visitors with a goldcard, higher in priority
       \* at        what each visitor does: "starting", "walking", "queued",
       \*           "exited" or "buried"
       \* in        the queue each is in, as it sees it
       \* timers    its timers, "jockey" and "renege"
       \* line      the entries of each queue: who, with which priority
       \* batch     the visitors that each server has taken
       \* idle      the servers that wait at the front guard of each queue
       \* riding    the servers whose ride is on
       \* due       the wakeups of this instant, in order
       \* departed  the queue of visitors that have left
       \* open      whether the entrance is open
       \* failed    an assertion has failed

-----------------------------------------------------------------------------
(* Wakeups and entries of a queue: the higher priority first, then the     *)
(* older.                                                                  *)
Put(seq, x) ==
  LET ahead == SelectSeq(seq, LAMBDA y : y.prio >= x.prio)
  IN  ahead \o <<x>> \o SelectSeq(seq, LAMBDA y : y.prio < x.prio)

Prio(s, p) == IF p \in s.gold THEN 5 ELSE 0

Wakes(s, p) == [s EXCEPT !.due = Put(@, [who |-> p, prio |-> Prio(s, p)])]

InLine(s, q, n) == \E i \in DOMAIN s.line[q] : s.line[q][i].who = n

Spot(s, q, n) == CHOOSE i \in DOMAIN s.line[q] : s.line[q][i].who = n

(* The first of the attraction's queues that are shortest.                 *)
Shortest(s, a) ==
  LET len(i) == Len(s.line[LinesOf[a][i]])
      i      == CHOOSE i \in DOMAIN LinesOf[a] :
                  \A j \in DOMAIN LinesOf[a] :
                    IF j < i THEN len(i) < len(j) ELSE len(i) <= len(j)
  IN  LinesOf[a][i]

(* cmb_priorityqueue_put, which never waits in a queue without limit: the  *)
(* first of the servers that wait is resumed.                              *)
Joined(s, q, n, prio) ==
  LET t == [s EXCEPT !.line[q] = Put(@, [who |-> n, prio |-> prio]),
                     !.in[n] = q]
  IN  IF s.idle[q] = <<>> THEN t
      ELSE Wakes([t EXCEPT !.idle[q] = Tail(@)], Head(s.idle[q]))

(* cmb_priorityqueue_cancel, and the assertion that the entry is found.    *)
Left(s, q, n) ==
  [s EXCEPT !.line[q] = SelectSeq(@, LAMBDA x : x.who # n),
            !.failed = @ \/ ~InLine(s, q, n)]

-----------------------------------------------------------------------------
(* A visitor that has left joins the queue of the departed and finishes.   *)
Gone(s, n) ==
  LET t == [s EXCEPT !.at[n] = "exited", !.departed = Append(@, n)]
  IN  IF \E i \in DOMAIN s.due : s.due[i].who = Undertaker
      THEN t ELSE Wakes(t, Undertaker)

(* At an attraction it joins the shortest queue or walks on.               *)
Lined(s, n, a, patience) ==
  LET q == Shortest(s, a)
  IN  IF Len(s.line[q]) > patience THEN s
      ELSE Joined([s EXCEPT !.at[n] = "queued",
                            !.timers[n] = {"jockey", "renege"}],
                  q, n, Prio(s, n))

(* The jockeying timer: if another queue is shorter than the visitor's     *)
(* place in its own, it moves there and is let in ahead of its peers.      *)
Jockeyed(s, n) ==
  LET old == s.in[n]
      new == Shortest(s, CHOOSE a \in Attraction : old \in Range(LinesOf[a]))
      t   == [s EXCEPT !.timers[n] = @ \ {"jockey"}]
  IN  IF Len(s.line[new]) < Spot(s, old, n)
      THEN Joined(Left(t, old, n), new, n, Prio(s, n) + 1)
      ELSE t

(* The reneging timer.                                                     *)
Reneged(s, n) ==
  [Left(s, s.in[n], n) EXCEPT !.at[n] = "walking", !.timers[n] = {},
                              !.in[n] = NoLine]

-----------------------------------------------------------------------------
(* Faulty: the visitors keep their timers.                                 *)
BoardedWithTimers(s, w) ==
  LET q    == LineOf[w]
      rest == Len(s.line[q]) - BatchSize[w]
      k    == IF rest > 0 THEN BatchSize[w] ELSE Len(s.line[q])
      took == [i \in 1..k |-> s.line[q][i].who]
  IN  IF k = 0 THEN [s EXCEPT !.idle[q] = Append(@, w)]
      ELSE [s EXCEPT !.line[q] = SubSeq(@, k + 1, Len(@)),
                     !.batch[w] = took,
                     !.riding = @ \cup {w}]

(* A server opens for the next batch: it takes visitors until it is full   *)
(* or the queue is empty, and waits if there is none.                      *)
Boarded(s, w) ==
  LET q    == LineOf[w]
      rest == Len(s.line[q]) - BatchSize[w]
      k    == IF rest > 0 THEN BatchSize[w] ELSE Len(s.line[q])
      took == [i \in 1..k |-> s.line[q][i].who]
  IN  IF k = 0 THEN [s EXCEPT !.idle[q] = Append(@, w)]
      ELSE [s EXCEPT !.line[q] = SubSeq(@, k + 1, Len(@)),
                     !.batch[w] = took,
                     !.timers = [n \in DOMAIN @ |->
                                   IF n \in Range(took) THEN {} ELSE @[n]],
                     !.riding = @ \cup {w}]

Unboarded(s, w) ==
  Boarded([FoldLeft(Wakes, s, s.batch[w]) EXCEPT !.batch[w] = <<>>,
                                                 !.riding = @ \ {w}], w)

(* The departure process takes all the visitors that have left; they have  *)
(* finished, or an assertion fails.                                        *)
Buried(s) ==
  [s EXCEPT !.at = [n \in DOMAIN @ |->
                      IF n \in Range(s.departed) THEN "buried" ELSE @[n]],
            !.failed = @ \/ \E n \in Range(s.departed) : s.at[n] # "exited",
            !.departed = <<>>]

(* What a wakeup makes its process do.  A visitor that is resumed in a     *)
(* queue has had its ride.                                                 *)
Resumed(s, p) ==
  CASE p = Undertaker -> Buried(s)
    [] p \in Server   -> Boarded(s, p)
    [] OTHER          -> [s EXCEPT !.at[p] = "walking", !.in[p] = NoLine]

-----------------------------------------------------------------------------
(* The park when its processes have been started.                          *)
Empty ==
  [gold     |-> {},
   at       |-> <<>>,
   in       |-> <<>>,
   timers   |-> <<>>,
   line     |-> [q \in Line |-> <<>>],
   batch    |-> [w \in Server |-> <<>>],
   idle     |-> [q \in Line |-> SetToSeq({w \in Server : LineOf[w] = q})],
   riding   |-> {},
   due      |-> <<>>,
   departed |-> <<>>,
   open     |-> TRUE,
   failed   |-> FALSE]

Init == v = Empty

Quiet == v.due = <<>> /\ ~v.failed

Wake ==
  /\ v.due # <<>>
  /\ v' = Resumed([v EXCEPT !.due = Tail(@)], Head(v.due).who)

(* The arrival process makes a visitor and starts it, and it sets off.     *)
Enter(isGold) ==
  /\ Quiet
  /\ v.open
  /\ Len(v.at) < MaxVisitors
  /\ LET n == Len(v.at) + 1
     IN  v' = [v EXCEPT !.gold = IF isGold THEN @ \cup {n} ELSE @,
                        !.at = Append(@, "starting"),
                        !.in = Append(@, NoLine),
                        !.timers = Append(@, {}),
                        !.due = <<[who |-> n, prio |-> IF isGold THEN 5 ELSE 0]>>]

(* The end of a walk.  Where it leads was drawn when it began, and the     *)
(* visitor's patience when it was made; nothing depends on them before.    *)
Walking(n) == Quiet /\ n \in DOMAIN v.at /\ v.at[n] = "walking"

Arrive(n, a) ==
  /\ Walking(n)
  /\ \E patience \in Balking : v' = Lined(v, n, a, patience)

Leave(n) ==
  /\ Walking(n)
  /\ v' = Gone(v, n)

(* The timers, in the order in which they were set.                        *)
JockeyTimer(n) ==
  /\ Quiet
  /\ n \in DOMAIN v.at /\ "jockey" \in v.timers[n]
  /\ v' = Jockeyed(v, n)

RenegeTimer(n) ==
  /\ Quiet
  /\ n \in DOMAIN v.at /\ v.timers[n] = {"renege"}
  /\ v' = Reneged(v, n)

RideOver(w) ==
  /\ Quiet
  /\ w \in v.riding
  /\ v' = Unboarded(v, w)

EndSim ==
  /\ Quiet
  /\ v.open
  /\ v' = [v EXCEPT !.open = FALSE]

Next ==
  \/ Wake
  \/ \E isGold \in BOOLEAN : Enter(isGold)
  \/ \E n \in Visitor : \/ \E a \in Attraction : Arrive(n, a)
                        \/ Leave(n)
                        \/ JockeyTimer(n)
                        \/ RenegeTimer(n)
  \/ \E w \in Server : RideOver(w)
  \/ EndSim

-----------------------------------------------------------------------------
(* The entries and wakeups of a visitor, wherever they are.                *)
Entries(n) ==
  {<<q, i>> \in Line \X (1..MaxVisitors) :
     i <= Len(v.line[q]) /\ v.line[q][i].who = n}

Aboard(n) == {w \in Server : n \in Range(v.batch[w])}

Called(p) == {i \in DOMAIN v.due : v.due[i].who = p}

(* A visitor in a queue has one entry there, in the queue it believes to   *)
(* be in, and a timer that will make it leave; one that was taken by a     *)
(* server of that queue has neither, and is on one ride or about to be     *)
(* resumed from it; and elsewhere it has nothing of all this.  So no timer *)
(* goes off during a ride, no cancel misses its entry, nobody rides twice  *)
(* or waits forever, and nobody waits while a server does: a get, a put    *)
(* and a timer are events of different processes that must each find all   *)
(* of it in order.                                                         *)
VisitorsTracked ==
  /\ ~v.failed
  /\ \A n \in DOMAIN v.at :
       IF v.at[n] = "queued"
       THEN \/ /\ \E i \in 1..MaxVisitors : Entries(n) = {<<v.in[n], i>>}
               /\ "renege" \in v.timers[n]
               /\ Aboard(n) = {} /\ Called(n) = {}
            \/ /\ Entries(n) = {} /\ v.timers[n] = {}
               /\ Cardinality(Aboard(n)) + Cardinality(Called(n)) = 1
               /\ \A w \in Aboard(n) : LineOf[w] = v.in[n] /\ w \in v.riding
       ELSE /\ Entries(n) = {} /\ v.timers[n] = {} /\ Aboard(n) = {}
            /\ Called(n) # {} => v.at[n] = "starting"
  /\ \A w \in Server : Len(v.batch[w]) <= BatchSize[w]
  /\ v.due = <<>> =>
       /\ v.departed = <<>>
       /\ \A q \in Line : v.idle[q] # <<>> => v.line[q] = <<>>
=============================================================================
