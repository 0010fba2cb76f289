----------------------------- MODULE StoreSystem -----------------------------
(***************************************************************************)
(* Buffers, object queues and priority queues (cmb_buffer.c,               *)
(* cmb_objectqueue.c, cmb_priorityqueue.c).  A store has two doors, each a *)
(* guard: getters wait at the front until it has content, putters at the   *)
(* rear until it has space.  Whoever goes through one door rings at the    *)
(* other.  Buffers move amounts, in parts if need be, the queues one       *)
(* object in a call.  What else processes do is in module ProcessSystem.   *)
(***************************************************************************)
EXTENDS Integers, Sequences, FiniteSets

CONSTANTS
  Process, NoOne,
  Kind,                  \* which of the three kinds of store there may be
  Object,                \* what is put in, in a buffer units
  Rank,                  \* the priorities of objects in a priority queue
  Capacity,
  Sizes,                 \* the amounts in one call of a buffer
  Share,                 \* how many of each object a process starts with,
                         \* in a trial with each kind of store
  InitPrio,              \* the priority each process starts with
  Priority, Urgency, Ranks, Repertoire,                 \* see ProcessSystem
  Duration, MaxAgenda

Door == {"front", "rear"}

ASSUME NullAssumption == NoOne \notin Process \cup Door

ASSUME FiniteAssumption == IsFiniteSet(Process)

ASSUME StoreAssumption ==
  /\ Kind \subseteq {"buffer", "objectqueue", "priorityqueue"}
  /\ Capacity \in Nat \ {0}
  /\ Sizes \subseteq Nat \ {0}
  /\ Share \in [Kind -> [Process -> [Object -> Nat]]]
  /\ Rank \subseteq Int /\ 0 \in Rank
  /\ InitPrio \in [Process -> Priority]

ASSUME ClientAssumption ==
  /\ Priority \subseteq Int
  /\ Urgency \subseteq Priority
  /\ Ranks \in [Process -> SUBSET Priority]
  /\ Duration \subseteq Nat
  /\ MaxAgenda \in Nat

VARIABLE sys     \* the state of the trial, see ProcessKernel

Store == INSTANCE BoundedStore WITH contents <- sys.items, hand <- sys.hand

(* What there is for the next one at a door, content or space.             *)
Ready(s, door) ==
  IF door = "front" THEN Cardinality(s.items)
  ELSE Capacity - Cardinality(s.items)

(* has_content and has_space, the demand functions                         *)
IsReady(s, door, p) == Ready(s, door) > 0

INSTANCE ProcessKernel WITH Guard <- Door, Satisfied <- IsReady

(***************************************************************************)
(* Besides the kernel's fields, the state has                              *)
(*   kind      the kind of store this trial has                            *)
(*   items     its contents, numbered by time of entry                     *)
(*   hand      how many of each object each process has, outside the store *)
(*   claim     the local variables of the get or put of each process: how  *)
(*             many it wants to move and how many remain, what it puts in  *)
(*             at what rank, and (history) what it had in hand before      *)
(*   cancelled whether an object was ever cancelled (history)              *)
(***************************************************************************)
Nothing == [o \in Object |-> 0]

NoClaim == [want |-> 0, rem |-> 0, obj |-> NoOne, rank |-> 0, had |-> Nothing]

Init ==
  \E order \in [Process -> 1..Cardinality(Process)], kind \in Kind :
    /\ \A p, q \in Process : p # q => order[p] # order[q]
    /\ sys =
         [agenda  |-> {[kind |-> "start", proc |-> p, key |-> 0,
                        sig |-> "success", delay |-> 0, prio |-> InitPrio[p],
                        tag |-> order[p]] : p \in Process},
          running |-> NoOne,
          status  |-> [p \in Process |-> "initialized"],
          prio    |-> InitPrio,
          call    |-> [p \in Process |-> Idle],
          timers  |-> [p \in Process |-> {}],
          ticket  |-> [p \in Process |-> NoTicket],
          joins   |-> [p \in Process |-> NoOne],
          waiters |-> [p \in Process |-> <<>>],
          queue   |-> [g \in Door |-> {}],
          observers |-> [g \in Door |-> <<>>],
          untold  |-> [p \in Process |-> {}],
          failed  |-> "none",
          kind    |-> kind,
          items   |-> {},
          hand    |-> Share[kind],
          claim   |-> [p \in Process |-> NoClaim],
          cancelled |-> FALSE]

-----------------------------------------------------------------------------
Opposite(door) == IF door = "front" THEN "rear" ELSE "front"

Call(door) == IF door = "front" THEN "get" ELSE "put"

(* n objects go through the door, on behalf of the call that p is in.      *)
Moved(s, p, door, n) ==
  LET c    == s.claim[p]
      gone == Store!Served(s.items, n)
  IN  IF door = "front"
      THEN [s EXCEPT !.items    = Store!Without(@, gone),
                     !.hand[p]  = Store!Received(@, gone),
                     !.claim[p].rem = @ - n]
      ELSE [s EXCEPT !.items    = Store!Added(@, c.obj, c.rank, n),
                     !.hand[p][c.obj] = @ - n,
                     !.claim[p].rem = @ - n]

Done(s, p, sig) == Return([s EXCEPT !.claim[p] = NoClaim], p, sig)

(* Faulty: who has all it wants does not tell those behind it that there   *)
(* is more; what was moved in part is not told at the other door; it is    *)
(* not deducted from the claim.                                            *)
BufferTurnLeftovers(s, p, door) ==
  LET c == s.claim[p]
      n == Ready(s, door)
  IN  IF n >= c.rem
      THEN Done(Signal(Moved(s, p, door, c.rem), Opposite(door)), p, "success")
      ELSE GuardWait(Signal(Moved(s, p, door, n), Opposite(door)),
                     p, Call(door), door)

BufferTurnRecount(s, p, door) ==
  LET c == s.claim[p]
      n == Ready(s, door)
  IN  IF n >= c.rem
      THEN Done(Signal(Signal(Moved(s, p, door, c.rem), Opposite(door)), door),
                p, "success")
      ELSE GuardWait(Signal([Moved(s, p, door, n) EXCEPT !.claim[p] = c],
                            Opposite(door)),
                     p, Call(door), door)

(* One turn of the loop of cmb_buffer_get or cmb_buffer_put.               *)
BufferTurn(s, p, door) ==
  LET c   == s.claim[p]
      n   == Ready(s, door)
      all == Signal(Moved(s, p, door, c.rem), Opposite(door))
      few == IF n > 0 THEN Signal(Moved(s, p, door, n), Opposite(door)) ELSE s
  IN  IF n >= c.rem
      THEN Done(IF Ready(all, door) > 0 THEN Signal(all, door) ELSE all,
                p, "success")
      ELSE GuardWait(Signal(few, Opposite(door)), p, Call(door), door)

(* Faulty: a put into a full queue goes ahead.                             *)
QueueTurnOverfull(s, p, door) ==
  IF IsReady(s, door, p) \/ door = "rear"
  THEN Done(Signal(Moved(s, p, door, 1), Opposite(door)), p, "success")
  ELSE GuardWait(s, p, Call(door), door)

(* One turn of the loop of get or put of an object or priority queue       *)
QueueTurn(s, p, door) ==
  IF IsReady(s, door, p)
  THEN Done(Signal(Moved(s, p, door, 1), Opposite(door)), p, "success")
  ELSE GuardWait(s, p, Call(door), door)

(* Back from the wait, the call takes another turn.  Thrown out of it, it  *)
(* returns with what it has moved so far.                                  *)
Continued(s, p, sig) ==
  LET door == s.call[p].on
  IN  IF sig # "success" THEN Done(s, p, sig)
      ELSE IF s.kind = "buffer" THEN BufferTurn(s, p, door)
      ELSE QueueTurn(s, p, door)

(* A store is not held; the locals of a stopped process are gone.          *)
Dropped(s, p) == [s EXCEPT !.claim[p] = NoClaim]

Reprioritized(s, p, pri) == s

INSTANCE ProcessSystem WITH Guard <- Door, Satisfied <- IsReady

-----------------------------------------------------------------------------
Dispatch == Dispatching /\ sys' = Executed(sys)

Claim(p, n, o, rank) ==
  [sys EXCEPT !.claim[p] = [want |-> n, rem |-> n, obj |-> o, rank |-> rank,
                            had |-> sys.hand[p]]]

(* cmb_buffer_get, of n units                                              *)
BufferGet(p, n) ==
  /\ Calling(p, "get")
  /\ sys.kind = "buffer"
  /\ sys' = BufferTurn(Claim(p, n, NoOne, 0), p, "front")

(* cmb_buffer_put, of n units of what the buffer holds                     *)
BufferPut(p, o, n) ==
  /\ Calling(p, "put")
  /\ sys.kind = "buffer"
  /\ n <= sys.hand[p][o]
  /\ sys' = BufferTurn(Claim(p, n, o, 0), p, "rear")

(* cmb_objectqueue_get                                                     *)
ObjectGet(p) ==
  /\ Calling(p, "get")
  /\ sys.kind = "objectqueue"
  /\ sys' = QueueTurn(Claim(p, 1, NoOne, 0), p, "front")

(* cmb_objectqueue_put: who finds space goes first, whoever waits          *)
ObjectPut(p, o) ==
  /\ Calling(p, "put")
  /\ sys.kind = "objectqueue"
  /\ sys.hand[p][o] > 0
  /\ sys' = QueueTurn(Claim(p, 1, o, 0), p, "rear")

(* cmb_priorityqueue_get                                                   *)
PriorityGet(p) ==
  /\ Calling(p, "get")
  /\ sys.kind = "priorityqueue"
  /\ sys' = QueueTurn(Claim(p, 1, NoOne, 0), p, "front")

(* cmb_priorityqueue_put                                                   *)
PriorityPut(p, o, rank) ==
  /\ Calling(p, "put")
  /\ sys.kind = "priorityqueue"
  /\ sys.hand[p][o] > 0
  /\ sys' = QueueTurn(Claim(p, 1, o, rank), p, "rear")

(* cmb_priorityqueue_cancel, by a process that then has the object.  It    *)
(* makes space, and rings no bell.                                         *)
Withdraw(p, x) ==
  /\ Calling(p, "withdraw")
  /\ sys.kind = "priorityqueue"
  /\ sys' = [sys EXCEPT !.items = Store!Without(@, {x}),
                        !.hand[p] = Store!Received(@, {x}),
                        !.cancelled = TRUE]

(* cmb_priorityqueue_reprioritize                                          *)
Rerank(p, x, rank) ==
  /\ Calling(p, "rerank")
  /\ sys.kind = "priorityqueue"
  /\ sys' = [sys EXCEPT !.items = (@ \ {x}) \cup {[x EXCEPT !.rank = rank]}]

Client(p) ==
  \/ \E n \in Sizes : BufferGet(p, n)
  \/ \E o \in Object, n \in Sizes : BufferPut(p, o, n)
  \/ ObjectGet(p)
  \/ \E o \in Object : ObjectPut(p, o)
  \/ PriorityGet(p)
  \/ \E o \in Object, rank \in Rank : PriorityPut(p, o, rank)
  \/ \E x \in sys.items : Withdraw(p, x)
  \/ \E x \in sys.items, rank \in Rank : Rerank(p, x, rank)
  \/ ProcessCall(p)

Next == Dispatch \/ \E p \in Process : Client(p)

Spec == Init /\ [][Next]_sys

-----------------------------------------------------------------------------
(* Getters and putters that interrupt and stop each other, that time out   *)
(* between the bell and their turn, or come late to it, still do nothing   *)
(* but move objects, in order and one at a time: however a transfer is cut *)
(* short, the store as a whole behaves like a bounded store.               *)
Implements == Store!StoreSpec

(* Nobody waits at the front of a store with content, or at the rear of    *)
(* one with space, unless an object was cancelled: every other way to make *)
(* content or space, and every way to leave a door that one was called to, *)
(* rings for the next one.                                                 *)
StrandedOnlyByCancel == NoStrandedWaiter \/ sys.cancelled

(* A process that is back from a get or put that had to wait has moved     *)
(* what the result and the amount that the call reports say: all of it on  *)
(* success, otherwise, from a queue nothing, and from a buffer as much as  *)
(* is reported (cmb_buffer_get, cmb_buffer_put).                           *)
TransferHonoured ==
  [][\A p \in Process :
       sys.call[p].fn \in {"get", "put"} /\ sys'.running = p =>
         LET sig   == First(sys.agenda).sig
             c     == sys.claim[p]
             moved == IF sig = "success" THEN c.want ELSE c.want - c.rem
         IN  /\ sig # "success" /\ sys.kind # "buffer" => moved = 0
             /\ \E o \in Object :
                  sys'.hand[p] = [c.had EXCEPT ![o] =
                                    IF sys.call[p].fn = "get" THEN @ + moved
                                    ELSE @ - moved]]_sys

=============================================================================
