----------------------------- MODULE PoolSystem -----------------------------
(***************************************************************************)
(* Resource pools (cmb_resourcepool.c): processes acquire units of them in *)
(* any amount, take them from weaker holders, and release them in parts.   *)
(* What else they do to each other is in module ProcessSystem.             *)
(*                                                                         *)
(* An acquire is greedy: it takes what is available, then, if it may       *)
(* preempt, what weaker processes hold, and waits for the rest with what   *)
(* it has in hand.  A process thrown out of that wait puts back what the   *)
(* call collected, except if it was preempted: then it has nothing left.   *)
(***************************************************************************)
EXTENDS Integers, Sequences, FiniteSets

CONSTANTS
  Process, Pool, NoOne,
  Capacity,                              \* the units in each pool
  Sizes,                                 \* the units in one call
  Handle,                                \* the handle of each process
  InitPrio,                              \* the priority each process starts with
  Priority, Urgency, Ranks, Repertoire,                 \* see ProcessSystem
  Duration, MaxAgenda

ASSUME NullAssumption == NoOne \notin Process \cup Pool

ASSUME FiniteAssumption == IsFiniteSet(Process)

ASSUME PoolAssumption ==
  /\ Capacity \in [Pool -> Nat \ {0}]
  /\ Sizes \subseteq Nat \ {0}
  /\ Handle \in [Process -> Nat \ {0}]
  /\ \A p, q \in Process : Handle[p] = Handle[q] => p = q
  /\ InitPrio \in [Process -> Priority]

ASSUME ClientAssumption ==
  /\ Priority \subseteq Int
  /\ Urgency \subseteq Priority
  /\ Ranks \in [Process -> SUBSET Priority]
  /\ Duration \subseteq Nat
  /\ MaxAgenda \in Nat

VARIABLE sys     \* the state of the trial, see ProcessKernel and Init

Available(s, b) == Capacity[b] - s.inUse[b]

(* is_available, the demand function of all who wait for a pool.           *)
IsAvailable(s, b, p) == Available(s, b) > 0

INSTANCE ProcessKernel WITH Guard <- Pool, Satisfied <- IsAvailable

(***************************************************************************)
(* Besides the kernel's fields, the state has                              *)
(*   inUse     the units of each pool that are in use                      *)
(*   holders   who holds units of each pool, how many, with what priority  *)
(*             and since when; only the order of these times is kept       *)
(*   recent    who became a holder of each pool at the present time        *)
(*   held      the pools in each process's list, head first                *)
(*   claim     the local variables of acquire_inner in each process: what  *)
(*             it held at first, what it wants in addition, what of that   *)
(*             remains to be had, and whether it preempts                  *)
(***************************************************************************)
NoClaim == [initial |-> 0, want |-> 0, rem |-> 0, mug |-> FALSE]

Beginning(starters, order, pri) ==
  [agenda  |-> {[kind |-> "start", proc |-> p, key |-> 0, sig |-> "success",
                 delay |-> 0, prio |-> pri[p], tag |-> order[p]] :
                  p \in starters},
   running |-> NoOne,
   status  |-> [p \in Process |-> "initialized"],
   prio    |-> pri,
   call    |-> [p \in Process |-> Idle],
   timers  |-> [p \in Process |-> {}],
   ticket  |-> [p \in Process |-> NoTicket],
   joins   |-> [p \in Process |-> NoOne],
   waiters |-> [p \in Process |-> <<>>],
   queue   |-> [b \in Pool |-> {}],
   observers |-> [b \in Pool |-> <<>>],
   untold  |-> [p \in Process |-> {}],
   failed  |-> "none",
   inUse   |-> [b \in Pool |-> 0],
   holders |-> [b \in Pool |-> {}],
   recent  |-> [b \in Pool |-> {}],
   held    |-> [p \in Process |-> <<>>],
   claim   |-> [p \in Process |-> NoClaim]]

(* The orders in which starters can be started.                            *)
Orders(starters) ==
  {o \in [starters -> 1..Cardinality(starters)] :
     \A p, q \in starters : p # q => o[p] # o[q]}

-----------------------------------------------------------------------------
(* The holders of a pool.                                                  *)
Record(s, p, b) == {h \in s.holders[b] : h.proc = p}

(* cmb_resourcepool_held *)
Held(s, p, b) ==
  IF Record(s, p, b) = {} THEN 0
  ELSE (CHOOSE h \in Record(s, p, b) : TRUE).amount

(* holder_queue_rank: who is preempted before whom.                        *)
Weaker(h, k) ==
  \/ h.prio < k.prio
  \/ h.prio = k.prio /\ h.since > k.since
  \/ h.prio = k.prio /\ h.since = k.since /\ Handle[h.proc] > Handle[k.proc]

Victim(s, b) ==
  CHOOSE h \in s.holders[b] : \A k \in s.holders[b] \ {h} : Weaker(h, k)

(* Times of entry are numbered from 1, and now is the last one there is if *)
(* anybody entered now.                                                    *)
Times(S) == {h.since : h \in S}

Since(s, b) ==
  Cardinality(Times(s.holders[b])) + (IF s.recent[b] = {} THEN 1 ELSE 0)

Renumbered(S) ==
  {[h EXCEPT !.since = Cardinality({t \in Times(S) : t <= @})] : h \in S}

(* The amount that p holds becomes n.                                      *)
Amount(s, p, b, n) ==
  [s EXCEPT !.holders[b] =
     {IF h.proc = p THEN [h EXCEPT !.amount = n] ELSE h : h \in @}]

(* update_record: p holds n more.                                          *)
Take(s, p, b, n) ==
  IF Record(s, p, b) # {} THEN Amount(s, p, b, Held(s, p, b) + n)
  ELSE [s EXCEPT !.held[p] = <<b>> \o @,
                 !.recent[b] = @ \cup {p},
                 !.holders[b] = @ \cup {[proc |-> p, amount |-> n,
                                         prio |-> s.prio[p],
                                         since |-> Since(s, b)]}]

(* cmi_process_remove_holdable, of the one tag there is: see ListsFaithful *)
RemoveHoldable(s, p, b) ==
  [s EXCEPT !.held[p] = Unlink(@, b)]

(* Both records of p as a holder of b are deleted.                         *)
Forget(s, p, b) ==
  [RemoveHoldable(s, p, b) EXCEPT !.holders[b] = Renumbered(@ \ Record(s, p, b)),
                                  !.recent[b] = @ \ {p}]

-----------------------------------------------------------------------------
(* acquire_inner *)
Least(m, n) == IF m < n THEN m ELSE n

Took(s, p, b, n) == [Take(s, p, b, n) EXCEPT !.claim[p].rem = @ - n]

(* Faulty: what is left of the loot stays in use.                          *)
MuggedKeepsSurplus(s, p, b) ==
  LET h == Victim(s, b)
      q == h.proc
  IN  Took(Schedule([CancelAwaiteds(Forget(s, q, b), q)
                       EXCEPT !.untold[q] = @ \cup {b}],
                    "interrupt", q, 0, "preempted", 0, s.prio[q]),
           p, b, Least(h.amount, s.claim[p].rem))

(* The weakest holder loses everything it has and is thrown out of what it *)
(* is blocked in; p takes what it needs and puts back the rest.            *)
Mugged(s, p, b) ==
  LET h == Victim(s, b)
      q == h.proc
      n == Least(h.amount, s.claim[p].rem)
  IN  [Took(Schedule([CancelAwaiteds(Forget(s, q, b), q)
                        EXCEPT !.untold[q] = @ \cup {b}],
                     "interrupt", q, 0, "preempted", 0, s.prio[q]),
            p, b, n)
         EXCEPT !.inUse[b] = @ - (h.amount - n)]

MugAll(s, p, b) ==
  LET most == Cardinality(s.holders[b])
      after[i \in 0..most] ==
        IF i = 0 THEN s
        ELSE LET t == after[i - 1]
             IN  IF /\ t.claim[p].rem > 0
                    /\ t.holders[b] # {}
                    /\ Victim(t, b).prio < t.prio[p]
                 THEN Mugged(t, p, b) ELSE t
  IN  after[most]

Leaving(s, p, sig) == [Return(s, p, sig) EXCEPT !.claim[p] = NoClaim]

(* Faulty: nobody is told of what is left over.                            *)
AcquireLoopSilently(s, p, b) ==
  LET n == Least(Available(s, b), s.claim[p].rem)
      t == IF n = 0 THEN s
           ELSE [Took(s, p, b, n) EXCEPT !.inUse[b] = @ + n]
      u == IF t.claim[p].mug THEN MugAll(t, p, b) ELSE t
  IN  IF u.claim[p].rem = 0 THEN Leaving(u, p, "success")
      ELSE GuardWait(u, p, "acquire", b)

(* One turn of the loop.                                                   *)
AcquireLoop(s, p, b) ==
  LET n == Least(Available(s, b), s.claim[p].rem)
      t == IF n = 0 THEN s
           ELSE [Took(s, p, b, n) EXCEPT !.inUse[b] = @ + n]
      u == IF t.claim[p].mug THEN MugAll(t, p, b) ELSE t
  IN  IF u.claim[p].rem = 0 THEN Leaving(Signal(u, b), p, "success")
      ELSE GuardWait(u, p, "acquire", b)

(* Faulty: a first helping is kept.                                        *)
RolledBackInPart(s, p, b) ==
  LET first == s.claim[p].initial
      now   == Held(s, p, b)
  IN  IF first = 0 THEN s
      ELSE Signal([Amount(s, p, b, first)
                     EXCEPT !.inUse[b] = @ - (now - first)], b)

(* What the call has collected is put back.  One that held some before it  *)
(* finds its record; one that did not leaves without ringing the bell.     *)
RolledBack(s, p, b) ==
  LET first == s.claim[p].initial
      now   == Held(s, p, b)
  IN  IF first = 0
      THEN [IF now = 0 THEN s ELSE Forget(s, p, b) EXCEPT !.inUse[b] = @ - now]
      ELSE IF now < first THEN Asserted(s, FALSE, "reset_holder")
      ELSE Signal([Amount(s, p, b, first)
                     EXCEPT !.inUse[b] = @ - (now - first)], b)

Continued(s, p, sig) ==
  LET b == s.call[p].on
  IN  IF sig = "success" THEN AcquireLoop(s, p, b)
      ELSE IF sig = "preempted" THEN Leaving(s, p, sig)
      ELSE Leaving(RolledBack(s, p, b), p, sig)

(* cmi_process_drop_resources with resourcepool_drop_holder, from the head *)
(* of the list on.                                                         *)
DropHolder(s, p, b) ==
  IF Record(s, p, b) = {} THEN s
  ELSE Signal([Forget(s, p, b) EXCEPT !.inUse[b] = @ - Held(s, p, b)], b)

Dropped(s, p) ==
  LET bs == s.held[p]
      after[i \in 0..Len(bs)] ==
        IF i = 0 THEN s ELSE DropHolder(after[i - 1], p, bs[i])
  IN  [after[Len(bs)] EXCEPT !.held[p] = <<>>, !.claim[p] = NoClaim]

(* reprioritize_holder, for every pool in the list of p                    *)
Reprioritized(s, p, pri) ==
  Asserted(
    [s EXCEPT !.holders =
       [b \in Pool |-> {IF h.proc = p THEN [h EXCEPT !.prio = pri] ELSE h :
                          h \in @[b]}]],
    \A i \in 1..Len(s.held[p]) : Record(s, p, s.held[p][i]) # {},
    "reprioritize_holder")

INSTANCE ProcessSystem WITH Guard <- Pool, Satisfied <- IsAvailable

-----------------------------------------------------------------------------
(* cmb_event_execute_next *)
Dispatched(s) ==
  Executed(IF First(s.agenda).delay = 0 THEN s
           ELSE [s EXCEPT !.recent = [b \in Pool |-> {}]])

(* cmb_resourcepool_acquire and cmb_resourcepool_preempt of n units        *)
Claimed(s, p, b, n, mug) ==
  AcquireLoop([s EXCEPT !.claim[p] = [initial |-> Held(s, p, b), want |-> n,
                                      rem |-> n, mug |-> mug]], p, b)

(* cmb_resourcepool_release *)
Released(s, p, b, n) ==
  LET now == Held(s, p, b)
  IN  IF now < n THEN Asserted(s, FALSE, "release")
      ELSE Signal([IF now = n THEN Forget(s, p, b) ELSE Amount(s, p, b, now - n)
                     EXCEPT !.inUse[b] = @ - n], b)

Starters == {p \in Process : Repertoire[p] # {}}

Init ==
  \E order \in Orders(Starters) : sys = Beginning(Starters, order, InitPrio)

Dispatch == Dispatching /\ sys' = Dispatched(sys)

(* A claim by a process that does not hold so many that it could never     *)
(* have them.                                                              *)
Claim(p, b, n, mug) ==
  /\ Held(sys, p, b) + n <= Capacity[b]
  /\ sys' = Claimed(sys, p, b, n, mug)

Acquire(p, b, n) == Calling(p, "acquire") /\ Claim(p, b, n, FALSE)

Preempt(p, b, n) == Calling(p, "preempt") /\ Claim(p, b, n, TRUE)

(* A release of what p believes to hold.                                   *)
Release(p, b, n) ==
  /\ Calling(p, "release")
  /\ n <= Held(sys, p, b) \/ b \in sys.untold[p]
  /\ sys' = Released(sys, p, b, n)

Client(p) ==
  \/ \E b \in Pool, n \in Sizes : Acquire(p, b, n)
  \/ \E b \in Pool, n \in Sizes : Preempt(p, b, n)
  \/ \E b \in Pool, n \in Sizes : Release(p, b, n)
  \/ ProcessCall(p)

Next == Dispatch \/ \E p \in Process : Client(p)

Spec == Init /\ [][Next]_sys

-----------------------------------------------------------------------------
Holder(b) == [proc : Process, amount : 1..Capacity[b], prio : Priority,
              since : Nat \ {0}]

TypeOK ==
  /\ sys.agenda \subseteq Event
  /\ sys.running \in Process \cup {NoOne}
  /\ sys.status \in [Process -> Statuses]
  /\ sys.prio \in [Process -> Priority]
  /\ sys.call \in [Process -> Blocking({"acquire"})]
  /\ sys.timers \in [Process -> SUBSET (Nat \ {0})]
  /\ sys.ticket \in [Process -> Ticket]
  /\ sys.joins \in [Process -> Process \cup {NoOne}]
  /\ sys.waiters \in [Process -> Seq(Process)]
  /\ \A b \in Pool : /\ sys.queue[b] \subseteq Entry
                     /\ sys.inUse[b] \in 0..Capacity[b]
                     /\ sys.holders[b] \subseteq Holder(b)
                     /\ sys.recent[b] \subseteq Process
  /\ sys.untold \in [Process -> SUBSET Pool]
  /\ sys.failed \in KernelAssertions \cup
       {"none", "reset_holder", "reprioritize_holder", "release"}
  /\ sys.held \in [Process -> Seq(Pool)]
  /\ sys.claim \in [Process -> [initial : Nat, want : Nat, rem : Nat,
                                mug : BOOLEAN]]

(* The units in use are those that somebody has on record, whatever was    *)
(* taken in parts, mugged, rolled back or dropped (the assertion           *)
(* sum_holder_items(hhp) == in_use of acquire_inner), and no process has   *)
(* two records.                                                            *)
UnitsConserved ==
  \A b \in Pool :
    LET holding == {h.proc : h \in sys.holders[b]}
        units   == UNION {{<<p, i>> : i \in 1..Held(sys, p, b)} : p \in holding}
    IN  /\ Cardinality(holding) = Cardinality(sys.holders[b])
        /\ sys.inUse[b] = Cardinality(units)

(* Victims are chosen by what priority they have now, not by what they had *)
(* when they became holders (reprioritize_holder).                         *)
HoldersFaithful ==
  \A b \in Pool : \A h \in sys.holders[b] : h.prio = sys.prio[h.proc]

(* A pool is in the list of a process once if the process is among its     *)
(* holders, and otherwise not at all: what a process drops when it ends,   *)
(* and what is told of its priority, is what it holds.                     *)
ListsFaithful ==
  \A p \in Process, b \in Pool :
    Cardinality({i \in 1..Len(sys.held[p]) : sys.held[p][i] = b})
      = Cardinality(Record(sys, p, b))

(* The record of holders agrees with the count of units and with the       *)
(* processes, whoever took, mugged, dropped or was promoted.               *)
HoldersTrue == UnitsConserved /\ HoldersFaithful /\ ListsFaithful

(* A process that is back from a call it was blocked in holds what the     *)
(* result says: all it wanted on success, what it held before the call if  *)
(* it was interrupted, and nothing if it was preempted, provided that it   *)
(* was robbed of this pool.  One that was preempted of something else is   *)
(* left with what it had and with what the call had collected so far,      *)
(* which cmb_resourcepool.h:135-139 does not say.                          *)
ClaimHonoured ==
  [][\A p \in Process :
       sys.call[p].fn = "acquire" /\ sys'.running = p =>
         LET sig == First(sys.agenda).sig
             b   == sys.call[p].on
             c   == sys.claim[p]
         IN  Held(sys', p, b) =
               CASE sig = "success" -> c.initial + c.want
                 [] sig = "preempted" /\ b \in sys.untold[p] -> 0
                 [] sig = "preempted" /\ b \notin sys.untold[p] ->
                      c.initial + c.want - c.rem
                 [] OTHER -> c.initial]_sys

(* If ever a waiter is left behind with units available, it is because a   *)
(* process that had held none before its call put some back when it was    *)
(* thrown out; no grab, mugging, release, stop or timeout does it.         *)
StrandedOnlyByRollback ==
  [][\A b \in Pool :
       Stranded(b)' /\ ~Stranded(b) =>
         \E p \in Process : /\ sys.call[p].fn = "acquire"
                            /\ sys.call[p].on = b
                            /\ sys.claim[p].initial = 0
                            /\ Held(sys, p, b) > 0
                            /\ sys'.running = p]_sys

=============================================================================
