------------------------- MODULE ResourceAbortProofs -------------------------
(***************************************************************************)
(* Proofs about ResourceSystem: where no wakeup hits a call that it was not *)
(* meant for (MildPrograms), no assertion of the code fails but the two of *)
(* NoOtherAbort, a process that runs knows of all its losses, and what     *)
(* module ResourceProofs shows of the waits holds without a condition.     *)
(*                                                                         *)
(* It needs more than the records of module ResourceProofs, which say      *)
(* what a wakeup is about but not whether it is still wanted.  An event is *)
(* due (EventDue) if it finds its process in the state that its sender     *)
(* meant: a start one that is not alive, the end of a hold the process in  *)
(* that hold, a resume one in its yield.  There is one start and one resume *)
(* for a process at most (OnceIn); and who has lost something that it does *)
(* not know of is blocked, without anything that would wake it before the  *)
(* news does (LossTold).                                                   *)
(*                                                                         *)
(* Of a call that leaves all the processes where they are and adds at most *)
(* a grant, a cancellation or the news of an exit, nothing else matters    *)
(* (Plain); and a process that goes on, blocks or ends must leave no event *)
(* behind that was due in its former call (Turn).                          *)
(***************************************************************************)
EXTENDS ResourceProofs

-----------------------------------------------------------------------------
(* The events and losses that a process may have.                          *)
EventDue(s, e) ==
  LET p == e.proc
      c == s.call[p]
  IN  /\ e.kind = "start" => s.status[p] # "running"
      /\ e.kind = "time" =>
           \/ e.sig = "timeout" /\ "timer" \in Repertoire[p]
           \/ e.sig = "success" /\ c.fn = "hold" /\ c.key = e.key
      /\ e.kind = "resume" =>
           ~Uncalled("resume") /\ "yield" \in Repertoire[p] /\ c.fn = "yield"
      /\ e.kind = "preempt" => ~Uncalled("preempt") /\ e.sig = "preempted"
      /\ e.kind = "interrupt" => ~Uncalled("interrupt") /\ e.sig = "interrupted"
      /\ e.kind = "process" => ~Uncalled("join")

LossTold(s, p) ==
  s.untold[p] # {} =>
    /\ ~Uncalled("preempt") /\ s.running # p /\ s.status[p] = "running"
    /\ s.timers[p] = {} /\ s.ticket[p] = NoTicket /\ s.joins[p] = NoOne

OnceIn(A) ==
  \A e, f \in A :
    e.kind \in {"start", "resume"} /\ f.kind = e.kind /\ f.proc = e.proc => e = f

ProcessDue(s, p) ==
  /\ LossTold(s, p)
  /\ s.call[p].fn = "yield" => "yield" \in Repertoire[p]
  /\ s.waiters[p] # <<>> => ~Uncalled("join")

Due(s) ==
  /\ DOMAIN s.untold = Process
  /\ \A e \in s.agenda : EventDue(s, e)
  /\ OnceIn(s.agenda)
  /\ \A p \in Process : ProcessDue(s, p)

-----------------------------------------------------------------------------
(* Fewer events, renumbered, and harmless ones.                            *)
Like(e, f) == f.kind = e.kind /\ f.proc = e.proc /\ f.key = e.key /\ f.sig = e.sig

Harmless(e) ==
  \/ e.kind \in {"grant", "cancelled"}
  \/ e.kind = "process" /\ ~Uncalled("join")

Thinner(A, B) ==
  /\ \A f \in B : Harmless(f) \/ \E e \in A : Like(e, f)
  /\ OnceIn(A) => OnceIn(B)

LEMMA ThinnerTransitive ==
  ASSUME NEW A, NEW B, NEW C, Thinner(A, B), Thinner(B, C) PROVE Thinner(A, C)
<1>1. ASSUME NEW g \in C PROVE Harmless(g) \/ \E e \in A : Like(e, g)
  <2>1. CASE Harmless(g)
    BY <2>1
  <2>2. CASE \E f \in B : Like(f, g)
    <3>1. PICK f \in B : Like(f, g)
      BY <2>2
    <3>2. Harmless(f) => Harmless(g)
      BY <3>1 DEF Harmless, Like
    <3>3. \A e : Like(e, f) => Like(e, g)
      BY <3>1 DEF Like
    <3>. QED BY <3>1, <3>2, <3>3 DEF Thinner
  <2>. QED BY <2>1, <2>2 DEF Thinner
<1>. QED BY <1>1 DEF Thinner

LEMMA SameThinner == ASSUME NEW A PROVE Thinner(A, A)
  BY DEF Thinner, Like

LEMMA LeaveThinner ==
  ASSUME NEW A, AgendaOK(A), NEW gone PROVE Thinner(A, Leave(A, gone))
<1> DEFINE n(e) == Cardinality({g \in gone : g.tag < e.tag})
           F(e) == [e EXCEPT !.tag = e.tag - n(e)]
<1>1. \A f \in Leave(A, gone) : \E e \in A : f = F(e)
  BY DEF Leave
<1>2. ASSUME NEW e \in A PROVE Like(e, F(e))
  <2>1. ASSUME NEW m PROVE Like(e, [e EXCEPT !.tag = m])
    BY DEF AgendaOK, EventOK, EventFields, Like
  <2>. QED BY <2>1
<1> HIDE DEF F
<1>3. OnceIn(A) => OnceIn(Leave(A, gone))
  <2> SUFFICES ASSUME OnceIn(A), NEW f \in Leave(A, gone), NEW h \in Leave(A, gone),
                      f.kind \in {"start", "resume"}, h.kind = f.kind, h.proc = f.proc
               PROVE  f = h
    BY DEF OnceIn
  <2>1. PICK e \in A : f = F(e)
    BY <1>1
  <2>2. PICK k \in A : h = F(k)
    BY <1>1
  <2>3. Like(e, f) /\ Like(k, h)
    BY <1>2, <2>1, <2>2
  <2>4. e = k
    BY <2>3 DEF OnceIn, Like
  <2>. QED BY <2>1, <2>2, <2>4
<1>. QED BY <1>1, <1>2, <1>3 DEF Thinner

LEMMA HarmlessThinner ==
  ASSUME NEW A, NEW B, \A f \in B : Harmless(f) PROVE Thinner(A, A \cup B)
  BY DEF Thinner, Harmless, Like, OnceIn

LEMMA EnterLike ==
  ASSUME NEW A, NEW e, EventOK(e)
  PROVE  \E f : Enter(A, e) = A \cup {f} /\ Like(e, f)
<1> DEFINE f == [e EXCEPT !.tag = Cardinality(A) + 1]
<1>1. ASSUME NEW m PROVE Like(e, [e EXCEPT !.tag = m])
  BY DEF EventOK, EventFields, Like
<1>2. Enter(A, e) = A \cup {f} /\ Like(e, f)
  BY <1>1 DEF Enter
<1>. QED BY <1>2

(* No event of p was meant for a hold or a yield.                          *)
Undue(A, p) ==
  \A e \in A : e.proc = p =>
    e.kind # "resume" /\ ~(e.kind = "time" /\ e.sig = "success")

LEMMA UndueKept ==
  ASSUME NEW A, NEW B, Thinner(A, B), NEW p, Undue(A, p) PROVE Undue(B, p)
  BY DEF Thinner, Undue, Harmless, Like

-----------------------------------------------------------------------------
(* All processes stay where they are.                                      *)
Looser(s, t, q) ==
  /\ t.timers[q] \subseteq s.timers[q]
  /\ t.ticket[q] \in {s.ticket[q], NoTicket}
  /\ t.joins[q] \in {s.joins[q], NoOne}

Unjoined(s, t) == \A q \in Process : s.waiters[q] = <<>> => t.waiters[q] = <<>>

Plain(s, t) ==
  /\ Thinner(s.agenda, t.agenda)
  /\ t.status = s.status /\ t.call = s.call /\ t.running = s.running
  /\ t.untold = s.untold
  /\ \A q \in Process : Looser(s, t, q)
  /\ Unjoined(s, t)

LEMMA PlainTransitive ==
  ASSUME NEW s, NEW t, NEW u, Plain(s, t), Plain(t, u) PROVE Plain(s, u)
<1>1. Thinner(s.agenda, u.agenda)
  BY ThinnerTransitive DEF Plain
<1>2. \A q \in Process : Looser(s, u, q)
  BY DEF Plain, Looser
<1>3. Unjoined(s, u)
  BY DEF Plain, Unjoined
<1>. QED BY <1>1, <1>2, <1>3 DEF Plain

LEMMA LikeDue ==
  ASSUME NEW s, NEW t, NEW e, EventDue(s, e), NEW f, Like(e, f),
         t.status[e.proc] = s.status[e.proc], t.call[e.proc] = s.call[e.proc]
  PROVE  EventDue(t, f)
  BY DEF EventDue, Like

LEMMA PlainDue ==
  ASSUME NEW s, Due(s), NEW t, Plain(s, t) PROVE Due(t)
<1>1. ASSUME NEW f \in t.agenda PROVE EventDue(t, f)
  <2>1. CASE Harmless(f)
    BY <2>1 DEF Harmless, EventDue
  <2>2. CASE \E e \in s.agenda : Like(e, f)
    BY <2>2, LikeDue DEF Due, Plain
  <2>. QED BY <2>1, <2>2 DEF Plain, Thinner
<1>2. ASSUME NEW p \in Process PROVE ProcessDue(t, p)
  <2>1. ProcessDue(s, p) /\ Looser(s, t, p)
    BY DEF Due, Plain
  <2>2. LossTold(t, p)
    BY <2>1 DEF ProcessDue, LossTold, Looser, Plain
  <2>3. t.waiters[p] # <<>> => s.waiters[p] # <<>>
    BY DEF Plain, Unjoined
  <2>. QED BY <2>1, <2>2, <2>3 DEF ProcessDue, Plain
<1>3. OnceIn(t.agenda) /\ DOMAIN t.untold = Process
  BY DEF Due, Plain, Thinner
<1>. QED BY <1>1, <1>2, <1>3 DEF Due

-----------------------------------------------------------------------------
(* The calls of the kernel that are plain.                                 *)
LEMMA PlainSet ==
  ASSUME NEW s, Steady(s), NEW x
  PROVE  /\ Plain(s, s)
         /\ Plain(s, [s EXCEPT !.queue = x]) /\ Plain(s, [s EXCEPT !.prio = x])
         /\ Plain(s, [s EXCEPT !.held = x]) /\ Plain(s, [s EXCEPT !.holder = x])
         /\ Plain(s, [s EXCEPT !.failed = x])
  BY SameThinner DEF Plain, Looser, Unjoined, Steady, Fields

LEMMA AgendaPlain ==
  ASSUME NEW s, Steady(s), NEW A, Thinner(s.agenda, A)
  PROVE  Plain(s, [s EXCEPT !.agenda = A])
  BY DEF Plain, Looser, Unjoined, Steady, Fields

LEMMA AssertedPlain ==
  ASSUME NEW s, Steady(s), NEW holds, NEW name
  PROVE  Plain(s, Asserted(s, holds, name))
  BY PlainSet DEF Asserted

LEMMA CancelEventsPlain ==
  ASSUME NEW s, Steady(s), NEW gone PROVE Plain(s, CancelEvents(s, gone))
<1> DEFINE A == Leave(s.agenda, gone)
<1>1. Thinner(s.agenda, A)
  BY LeaveThinner DEF Steady
<1>2. CancelEvents(s, gone) = [s EXCEPT !.agenda = A]
  BY DEF CancelEvents
<1> HIDE DEF A
<1>. QED BY <1>1, <1>2, AgendaPlain

LEMMA DequeuePlain ==
  ASSUME NEW s, Steady(s) PROVE Plain(s, Dequeue(s))
<1> DEFINE n == First(s.agenda).delay
           A == Leave(s.agenda, {First(s.agenda)})
           F(f) == [f EXCEPT !.delay = f.delay - n]
           B == {F(f) : f \in A}
<1>1. Thinner(s.agenda, A)
  BY LeaveThinner DEF Steady
<1>2. ASSUME NEW f \in A PROVE Like(f, F(f))
  <2>1. DOMAIN f = EventFields
    BY DEF Leave, Steady, AgendaOK, EventOK
  <2>2. ASSUME NEW m PROVE Like(f, [f EXCEPT !.delay = m])
    BY <2>1 DEF EventFields, Like
  <2>. QED BY <2>2
<1>3. Dequeue(s) = [s EXCEPT !.agenda = B]
  BY DEF Dequeue
<1>4. \A h \in B : \E f \in A : h = F(f)
  OBVIOUS
<1> HIDE DEF A, F, B
<1>5. Thinner(A, B)
  <2>1. OnceIn(A) => OnceIn(B)
    <3> SUFFICES ASSUME OnceIn(A), NEW f \in B, NEW h \in B,
                        f.kind \in {"start", "resume"}, h.kind = f.kind, h.proc = f.proc
                 PROVE  f = h
      BY DEF OnceIn
    <3>1. PICK e \in A : f = F(e)
      BY <1>4
    <3>2. PICK k \in A : h = F(k)
      BY <1>4
    <3>3. Like(e, f) /\ Like(k, h)
      BY <1>2, <3>1, <3>2
    <3>4. e = k
      BY <3>3 DEF OnceIn, Like
    <3>. QED BY <3>1, <3>2, <3>4
  <2>. QED BY <1>2, <1>4, <2>1 DEF Thinner
<1>6. Thinner(s.agenda, B)
  BY <1>1, <1>5, ThinnerTransitive
<1>. QED BY <1>3, <1>6, AgendaPlain

LEMMA SchedulePlain ==
  ASSUME NEW s, Steady(s), NEW kind \in {"grant", "cancelled"}, NEW p \in Process, NEW key,
         NEW sig, NEW delay \in Int, NEW pri \in Int
  PROVE  Plain(s, Schedule(s, kind, p, key, sig, delay, pri))
<1> DEFINE e == [kind |-> kind, proc |-> p, key |-> key, sig |-> sig, delay |-> delay,
                 prio |-> pri, tag |-> 0]
           A == Enter(s.agenda, e)
<1>1. EventOK(e) /\ Harmless(e)
  BY DEF EventOK, EventFields, Harmless, Kinds
<1>2. Schedule(s, kind, p, key, sig, delay, pri) = [s EXCEPT !.agenda = A]
  BY DEF Schedule
<1> HIDE DEF e
<1>3. Thinner(s.agenda, A)
  <2>1. PICK f : A = s.agenda \cup {f} /\ Like(e, f)
    BY <1>1, EnterLike
  <2>2. Harmless(f)
    BY <1>1, <2>1 DEF Harmless, Like
  <2>. QED BY <2>1, <2>2, HarmlessThinner
<1> HIDE DEF A
<1>. QED BY <1>2, <1>3, AgendaPlain

LEMMA GrantedPlain ==
  ASSUME NEW s, Steady(s), NEW g \in Resource PROVE Plain(s, Granted(s, g))
<1> DEFINE w == Front(s, g)
           p == w.proc
           k == GuardKey(s, p, g)
           Q == [s.queue EXCEPT ![g] = Leave(s.queue[g], {w})]
           t == [s EXCEPT !.queue = Q]
           u == Schedule(t, "grant", p, k, "success", 0, s.prio[p])
           v == Asserted(u, k # 0, "guard_signal")
<1>1. CASE Granted(s, g) = s
  BY <1>1, PlainSet
<1>2. CASE s.queue[g] # {} /\ Granted(s, g) = v
  <2>1. w \in s.queue[g] /\ p \in Process /\ s.prio[p] \in Int
    BY <1>2, FrontProcess
  <2>2. QueueOK(Leave(s.queue[g], {w}))
    BY <2>1, QueueLeave DEF Steady, QueuesOK
  <2>3. Plain(s, t) /\ Steady(t)
    BY <2>2, PlainSet, QueueAt DEF Calm
  <2> DEFINE kind == "grant"
             sig == "success"
  <2>4. kind \in {"grant", "cancelled"} /\ kind \in Kinds /\ 0 \in Int
    BY DEF Kinds
  <2> HIDE DEF t, p, kind, sig, k
  <2>5. Plain(t, Schedule(t, kind, p, k, sig, 0, s.prio[p]))
    BY <2>1, <2>3, <2>4, SchedulePlain
  <2>6. Steady(Schedule(t, kind, p, k, sig, 0, s.prio[p]))
    BY <2>1, <2>3, <2>4, ScheduleCalm DEF Calm
  <2>7. Plain(t, u) /\ Steady(u)
    BY <2>5, <2>6 DEF kind, sig
  <2> HIDE DEF u
  <2>8. Plain(u, v)
    BY <2>7, AssertedPlain
  <2> HIDE DEF v
  <2>. QED BY <1>2, <2>3, <2>7, <2>8, PlainTransitive
<1>3. Granted(s, g) = s \/ (s.queue[g] # {} /\ Granted(s, g) = v)
  BY DEF Granted
<1>. QED BY <1>1, <1>2, <1>3

LEMMA SignalPlain ==
  ASSUME NEW s, Steady(s), NEW g \in Resource PROVE Plain(s, Signal(s, g))
<1>1. Signal(s, g) = Granted(s, g)
  BY DEF Signal, Steady
<1>. QED BY <1>1, GrantedPlain

LEMMA TimersAtPlain ==
  ASSUME NEW s, Steady(s), DOMAIN s.timers = Process, NEW p \in Process, NEW x,
         x \subseteq s.timers[p]
  PROVE  Plain(s, [s EXCEPT !.timers = [s.timers EXCEPT ![p] = x]])
  BY SameThinner DEF Plain, Looser, Unjoined, Steady, Fields

LEMMA TimerCancelPlain ==
  ASSUME NEW s, Steady(s), DOMAIN s.timers = Process, NEW p \in Process, NEW key
  PROVE  LET t == TimerCancel(s, p, key)
         IN  /\ Plain(s, t)
             /\ \A e \in t.agenda : ~(e.kind = "time" /\ e.proc = p /\ e.key = key)
<1> DEFINE gone == TimerEvents(s, p, {key})
           t == CancelEvents(s, gone)
           u == [t EXCEPT !.timers = [t.timers EXCEPT ![p] = t.timers[p] \ {key}]]
<1>1. Plain(s, t)
  BY CancelEventsPlain
<1>2. gone \in SUBSET s.agenda
  BY DEF TimerEvents
<1> HIDE DEF gone
<1>3. Steady(t) /\ t.timers = s.timers
  BY <1>2, CancelEventsCalm DEF Calm, CancelEvents, Steady, Fields
<1>4. TimerCancel(s, p, key) = u
  BY DEF TimerCancel, gone
<1>5. t.agenda = Leave(s.agenda, gone)
  BY DEF CancelEvents, Steady, Fields
<1> HIDE DEF t
<1>6. Plain(t, u) /\ u.agenda = t.agenda
  <2>1. t.timers[p] \ {key} \subseteq t.timers[p]
    OBVIOUS
  <2>2. Plain(t, u)
    BY <1>3, <2>1, TimersAtPlain
  <2>. QED BY <1>3, <2>2 DEF Steady, Fields
<1>7. ASSUME NEW f \in u.agenda PROVE ~(f.kind = "time" /\ f.proc = p /\ f.key = key)
  <2>1. PICK e \in s.agenda \ gone :
          f = [e EXCEPT !.tag = e.tag - Cardinality({g \in gone : g.tag < e.tag})]
    BY <1>5, <1>6 DEF Leave
  <2>2. DOMAIN e = EventFields
    BY DEF Steady, AgendaOK, EventOK
  <2>3. f.kind = e.kind /\ f.proc = e.proc /\ f.key = e.key
    BY <2>1, <2>2 DEF EventFields
  <2>. QED BY <2>1, <2>3 DEF gone, TimerEvents
<1> HIDE DEF u
<1>. QED BY <1>1, <1>4, <1>6, <1>7, PlainTransitive

LEMMA TimersClearPlain ==
  ASSUME NEW s, Steady(s), DOMAIN s.timers = Process, NEW p \in Process
  PROVE  Plain(s, TimersClear(s, p))
<1> DEFINE gone == TimerEvents(s, p, s.timers[p])
           holds == \A k \in s.timers[p] : TimerEvents(s, p, {k}) # {}
           t == CancelEvents(s, gone)
           u == Asserted(t, holds, "timers_clear")
           v == [u EXCEPT !.timers = [u.timers EXCEPT ![p] = {}]]
<1>1. Plain(s, t)
  BY CancelEventsPlain
<1>2. gone \in SUBSET s.agenda
  BY DEF TimerEvents
<1> HIDE DEF gone, holds
<1>3. Steady(t) /\ t.timers = s.timers
  BY <1>2, CancelEventsCalm DEF Calm, CancelEvents, Steady, Fields
<1>4. TimersClear(s, p) = v
  BY DEF TimersClear, gone, holds
<1> HIDE DEF t
<1>5. Plain(t, u)
  BY <1>3, AssertedPlain
<1>6. Steady(u) /\ u.timers = s.timers
  BY <1>3, AssertedCalm DEF Calm, Asserted, Steady, Fields
<1> HIDE DEF u
<1>7. Plain(u, v)
  BY <1>6, TimersAtPlain
<1> HIDE DEF v
<1>. QED BY <1>1, <1>4, <1>5, <1>7, PlainTransitive

LEMMA WakeWaitersPlain ==
  ASSUME NEW s, Steady(s), NEW p \in Process, NEW sig,
         s.waiters[p] # <<>> => ~Uncalled("join")
  PROVE  Plain(s, WakeWaiters(s, p, sig))
<1> DEFINE ws == s.waiters[p]
           F(i) == [kind |-> "process", proc |-> ws[i], key |-> 0,
                    sig |-> sig, delay |-> 0, prio |-> s.prio[ws[i]],
                    tag |-> Cardinality(s.agenda) + i]
           B == {F(i) : i \in 1..Len(ws)}
           us == [s.waiters EXCEPT ![p] = <<>>]
           t == WakeWaiters(s, p, sig)
<1>1. t = [s EXCEPT !.agenda = s.agenda \cup B, !.waiters = us]
  BY DEF WakeWaiters
<1>2. ASSUME NEW f \in B PROVE Harmless(f)
  <2>1. PICK i \in 1..Len(ws) : f = F(i)
    OBVIOUS
  <2>2. ws # <<>>
    BY <2>1
  <2>3. f.kind = "process"
    BY <2>1
  <2>. QED BY <2>2, <2>3 DEF Harmless
<1>3. \A q \in Process : s.waiters[q] = <<>> => us[q] = <<>>
  BY DEF Steady, ListsOK
<1> HIDE DEF ws, F, B, us, t
<1>4. Thinner(s.agenda, s.agenda \cup B)
  BY <1>2, HarmlessThinner
<1>5. /\ t.agenda = s.agenda \cup B /\ t.waiters = us
      /\ t.status = s.status /\ t.call = s.call /\ t.running = s.running
      /\ t.untold = s.untold /\ t.timers = s.timers /\ t.ticket = s.ticket
      /\ t.joins = s.joins
  BY <1>1 DEF Steady, Fields
<1>. QED BY <1>3, <1>4, <1>5 DEF Plain, Looser, Unjoined, t

LEMMA RelievedPlain ==
  ASSUME NEW s, Steady(s), DOMAIN s.timers = Process, DOMAIN s.joins = Process,
         NEW p \in Process
  PROVE  Plain(s, Relieved(s, p))
<1> DEFINE g == s.ticket[p].guard
           mine == IF g = NoOne THEN {} ELSE Entries(s, g, s.ticket[p].key)
           t == Relieved(s, p)
<1>1. t = [CancelEvents(s, Swept(s, p)) EXCEPT
             !.timers[p] = {},
             !.ticket[p] = NoTicket,
             !.joins[p]  = NoOne,
             !.queue     = [h \in Resource |-> IF h = g THEN Leave(@[h], mine)
                                               ELSE @[h]],
             !.waiters   = [q \in Process |->
                              IF q = s.joins[p] THEN Unlink(@[q], p)
                              ELSE @[q]]]
  BY DEF Relieved
<1> HIDE DEF g, mine, t
<1>2. /\ t.agenda = Leave(s.agenda, Swept(s, p))
      /\ t.status = s.status /\ t.call = s.call /\ t.running = s.running
      /\ t.untold = s.untold
      /\ t.timers = [s.timers EXCEPT ![p] = {}]
      /\ t.ticket = [s.ticket EXCEPT ![p] = NoTicket]
      /\ t.joins = [s.joins EXCEPT ![p] = NoOne]
      /\ \A q \in Process : t.waiters[q] = IF q = s.joins[p] THEN Unlink(s.waiters[q], p)
                                           ELSE s.waiters[q]
  BY <1>1 DEF CancelEvents, Steady, Fields
<1>3. Thinner(s.agenda, t.agenda)
  BY <1>2, LeaveThinner DEF Steady
<1>4. Unlink(<<>>, p) = <<>>
  BY DEF Unlink, Occurrence
<1>5. \A q \in Process : Looser(s, t, q)
  BY <1>2 DEF Looser, Steady, TicketsOK
<1>6. Unjoined(s, t)
  BY <1>2, <1>4 DEF Unjoined
<1>. QED BY <1>2, <1>3, <1>5, <1>6 DEF Plain, t

LEMMA CancelAwaitedsPlain ==
  ASSUME NEW s, Steady(s), DOMAIN s.timers = Process, DOMAIN s.joins = Process,
         NEW p \in Process
  PROVE  Plain(s, CancelAwaiteds(s, p))
<1> DEFINE t == Relieved(s, p)
           g == s.ticket[p].guard
<1>1. g \in Resource \cup {NoOne}
  BY DEF Steady, TicketsOK, TicketOK
<1>2. Plain(s, t)
  BY RelievedPlain
<1>3. Steady(t)
  BY RelievedCalm DEF Calm
<1>4. CancelAwaiteds(s, p) = t \/ (g # NoOne /\ CancelAwaiteds(s, p) = Signal(t, g))
  BY CancelAwaitedsIs
<1> HIDE DEF t, g
<1>5. g # NoOne => Plain(t, Signal(t, g))
  BY <1>1, <1>3, SignalPlain
<1>. QED BY <1>2, <1>4, <1>5, PlainTransitive

LEMMA QueueAtPlain ==
  ASSUME NEW s, Steady(s), NEW g, NEW Q
  PROVE  Plain(s, [s EXCEPT !.queue = [s.queue EXCEPT ![g] = Q]])
  BY PlainSet

LEMMA GuardResumePlain ==
  ASSUME NEW s, Steady(s), NEW p \in Process, NEW sig, s.call[p].on \in Resource
  PROVE  Plain(s, GuardResume(s, p, sig))
<1> DEFINE g == s.call[p].on
           mine == Entries(s, g, s.call[p].key)
           t == RemoveTicket(s, p, g)
           holds == mine = {}
           u == Asserted(t, holds, "guard_wait")
           v == [t EXCEPT !.queue = [t.queue EXCEPT ![g] = Leave(t.queue[g], mine)]]
           w == Signal(t, g)
<1>1. Plain(s, t)
  <2> DEFINE x == IF s.ticket[p].guard = g THEN NoTicket ELSE s.ticket[p]
  <2>1. t = [s EXCEPT !.ticket = [s.ticket EXCEPT ![p] = x]]
    BY DEF RemoveTicket
  <2>2. x \in {s.ticket[p], NoTicket}
    OBVIOUS
  <2> HIDE DEF x, t
  <2>. QED BY <2>1, <2>2, SameThinner DEF Plain, Looser, Unjoined, Steady, TicketsOK, Fields
<1>2. Steady(t)
  BY RemoveTicketCalm DEF Calm
<1>3. GuardResume(s, p, sig) \in {t, u, v, w}
  BY DEF GuardResume
<1> HIDE DEF t, mine, holds
<1>4. Plain(t, u) /\ Plain(t, v)
  BY <1>2, AssertedPlain, QueueAtPlain
<1>5. Plain(t, w)
  BY <1>2, SignalPlain
<1> HIDE DEF u, v, w
<1>. QED BY <1>1, <1>3, <1>4, <1>5, PlainTransitive

LEMMA GuardCancelPlain ==
  ASSUME NEW s, Steady(s), NEW p \in Process, NEW g \in Resource
  PROVE  Plain(s, GuardCancel(s, p, g))
<1> DEFINE k == GuardKey(s, p, g)
           gone == Entries(s, g, k)
           Q == Leave(s.queue[g], gone)
           t == [s EXCEPT !.queue = [s.queue EXCEPT ![g] = Q]]
           kind == "cancelled"
           u == Schedule(t, kind, p, k, "cancelled", 0, s.prio[p])
<1>1. GuardCancel(s, p, g) = s \/ GuardCancel(s, p, g) = u
  BY DEF GuardCancel
<1>2. Plain(s, t) /\ Plain(s, s)
  BY QueueAtPlain, PlainSet
<1>3. QueueOK(Q)
  BY QueueLeave DEF Steady, QueuesOK, Entries
<1>4. kind \in {"grant", "cancelled"} /\ 0 \in Int /\ s.prio[p] \in Int
  BY DEF Steady
<1> HIDE DEF Q, k, kind
<1>5. Steady(t)
  BY <1>3, QueueAt DEF Calm
<1> HIDE DEF t
<1>6. Plain(t, u)
  BY <1>4, <1>5, SchedulePlain
<1> HIDE DEF u
<1>. QED BY <1>1, <1>2, <1>6, PlainTransitive

LEMMA RaiseThinner ==
  ASSUME NEW A, AgendaOK(A), NEW due, NEW pri PROVE Thinner(A, Raise(A, due, pri))
<1> DEFINE F(e) == IF e \in due THEN [e EXCEPT !.prio = pri] ELSE e
           B == Raise(A, due, pri)
<1>1. \A f \in B : \E e \in A : f = F(e)
  BY DEF Raise
<1>2. ASSUME NEW e \in A PROVE Like(e, F(e))
  BY DEF AgendaOK, EventOK, EventFields, Like
<1> HIDE DEF F, B
<1>3. OnceIn(A) => OnceIn(B)
  <2> SUFFICES ASSUME OnceIn(A), NEW f \in B, NEW h \in B,
                      f.kind \in {"start", "resume"}, h.kind = f.kind, h.proc = f.proc
               PROVE  f = h
    BY DEF OnceIn
  <2>1. PICK e \in A : f = F(e)
    BY <1>1
  <2>2. PICK k \in A : h = F(k)
    BY <1>1
  <2>3. Like(e, f) /\ Like(k, h)
    BY <1>2, <2>1, <2>2
  <2>4. e = k
    BY <2>3 DEF OnceIn, Like
  <2>. QED BY <2>1, <2>2, <2>4
<1>. QED BY <1>1, <1>2, <1>3 DEF Thinner, B

LEMMA PrioritySetPlain ==
  ASSUME NEW s, Steady(s), NEW p \in Process, NEW pri
  PROVE  Plain(s, PrioritySet(s, p, pri))
<1> DEFINE g == s.ticket[p].guard
           mine == IF g = NoOne THEN {} ELSE Entries(s, g, s.ticket[p].key)
           due == TimerEvents(s, p, s.timers[p])
           Q == [h \in Resource |->
                   IF h # g THEN s.queue[h]
                   ELSE {IF w \in mine THEN [w EXCEPT !.prio = pri] ELSE w : w \in s.queue[h]}]
           P == [s.prio EXCEPT ![p] = pri]
           A == Raise(s.agenda, due, pri)
           t == [s EXCEPT !.prio = P, !.agenda = A, !.queue = Q]
           holds == /\ g = NoOne \/ mine # {}
                    /\ \A k \in s.timers[p] : TimerEvents(s, p, {k}) # {}
           u == PrioritySet(s, p, pri)
<1>1. u = Asserted(t, holds, "priority_set")
  BY DEF PrioritySet, Raise
<1>2. Thinner(s.agenda, A)
  BY RaiseThinner DEF Steady
<1> HIDE DEF mine, due, Q, P, A, holds, u
<1>3. /\ u.agenda = A /\ u.status = s.status /\ u.call = s.call /\ u.running = s.running
      /\ u.untold = s.untold /\ u.timers = s.timers /\ u.ticket = s.ticket
      /\ u.joins = s.joins /\ u.waiters = s.waiters
  BY <1>1 DEF Asserted, Steady, Fields
<1>. QED BY <1>2, <1>3 DEF Plain, Looser, Unjoined, u

LEMMA DroppedPlain ==
  ASSUME NEW s, Steady(s), NEW p \in Process, NEW gone, Owned(s, gone)
  PROVE  Plain(s, Dropped(s, p)) /\ Dropped(s, p).failed = s.failed
<1> DEFINE rs == s.held[p]
           A == s.agenda
           served == {i \in 1..Len(rs) : s.queue[rs[i]] # {}}
           Place(i) == Cardinality({j \in served : j <= i})
           Next1(i) == Front(s, rs[i]).proc
           Grant(i) == [kind |-> "grant", proc |-> Next1(i),
                        key |-> GuardKey(s, Next1(i), rs[i]), sig |-> "success",
                        delay |-> 0, prio |-> s.prio[Next1(i)],
                        tag |-> Cardinality(A) + Place(i)]
           dropped == {rs[i] : i \in 1..Len(rs)}
           B == {Grant(i) : i \in served}
           queue == [r \in Resource |-> IF r \in dropped /\ s.queue[r] # {}
                                        THEN Leave(s.queue[r], {Front(s, r)})
                                        ELSE s.queue[r]]
           holder == [r \in Resource |-> IF r \in dropped THEN NoOne ELSE s.holder[r]]
           holds == \A r \in dropped : s.holder[r] = p
           t == Dropped(s, p)
<1>1. t = Asserted([s EXCEPT !.agenda = A \cup B, !.queue = queue, !.holder = holder,
                             !.held = [s.held EXCEPT ![p] = <<>>]], holds, "drop_holder")
  BY DEF Dropped, Steady, Fields
<1>2. rs \in Seq(Resource) /\ Len(rs) \in Nat
  BY DEF Steady, ListsOK
<1>3. holds
  <2> SUFFICES ASSUME NEW i \in 1..Len(rs) PROVE s.holder[rs[i]] = p
    OBVIOUS
  <2> DEFINE r == rs[i]
  <2>1. r \in Resource
    BY <1>2
  <2>2. ~Never(rs, r)
    BY DEF Never
  <2> HIDE DEF r
  <2>3. s.holder[r] # p => Never(s.held[p], r)
    BY <2>1 DEF Owned
  <2>. QED BY <2>2, <2>3 DEF r
<1>4. ASSUME NEW f \in B PROVE Harmless(f)
  <2>1. PICK i \in served : f = Grant(i)
    OBVIOUS
  <2>2. f.kind = "grant"
    BY <2>1
  <2>. QED BY <2>2 DEF Harmless
<1> HIDE DEF B, A, queue, holder, holds, t, rs
<1>5. Thinner(A, A \cup B)
  BY <1>4, HarmlessThinner
<1>6. /\ t.agenda = A \cup B /\ t.status = s.status /\ t.call = s.call
      /\ t.running = s.running /\ t.untold = s.untold /\ t.timers = s.timers
      /\ t.ticket = s.ticket /\ t.joins = s.joins /\ t.waiters = s.waiters
      /\ t.failed = s.failed
  BY <1>1, <1>3 DEF Asserted, Steady, Fields
<1>. QED BY <1>5, <1>6 DEF Plain, Looser, Unjoined, t, A

-----------------------------------------------------------------------------
(* One process moves, and the others stay where they are.                  *)
Beside(s, t, p) ==
  /\ \A q \in Process \ {p} :
       /\ t.status[q] = s.status[q] /\ t.call[q] = s.call[q]
       /\ t.untold[q] = s.untold[q]
       /\ Looser(s, t, q)
  /\ t.running \in {p, s.running, NoOne}
  /\ DOMAIN t.untold = Process
  /\ \A q \in Process : t.waiters[q] # <<>> => s.waiters[q] # <<>> \/ ~Uncalled("join")

LEMMA LocalDue ==
  ASSUME NEW s, Steady(s), Due(s), NEW p \in Process, NEW t, Beside(s, t, p),
         \A f \in t.agenda : f.proc # p => Harmless(f) \/ \E e \in s.agenda : Like(e, f),
         \A f \in t.agenda : f.proc = p => EventDue(t, f),
         OnceIn(t.agenda), LossTold(t, p),
         t.call[p].fn = "yield" => "yield" \in Repertoire[p]
  PROVE  Due(t)
<1>1. ASSUME NEW f \in t.agenda, f.proc # p PROVE EventDue(t, f)
  <2>1. CASE Harmless(f)
    BY <2>1 DEF Harmless, EventDue
  <2>2. CASE \E e \in s.agenda : Like(e, f)
    <3>1. PICK e \in s.agenda : Like(e, f)
      BY <2>2
    <3>2. e.proc \in Process \ {p} /\ EventDue(s, e)
      BY <1>1, <3>1 DEF Steady, AgendaOK, EventOK, Due, Like
    <3>. QED BY <3>1, <3>2, LikeDue DEF Beside
  <2>. QED BY <1>1, <2>1, <2>2
<1>2. ASSUME NEW q \in Process PROVE ProcessDue(t, q)
  <2>1. ProcessDue(s, q)
    BY DEF Due
  <2>2. t.waiters[q] # <<>> => ~Uncalled("join")
    BY <2>1 DEF Beside, ProcessDue
  <2>3. CASE q = p
    BY <2>2, <2>3 DEF ProcessDue
  <2>4. CASE q # p
    <3>1. LossTold(t, q)
      BY <2>1, <2>4, NullAssumption DEF Beside, Looser, ProcessDue, LossTold
    <3>. QED BY <2>1, <2>2, <2>4, <3>1 DEF Beside, ProcessDue
  <2>. QED BY <2>3, <2>4
<1>. QED BY <1>1, <1>2 DEF Due, Beside

(* A process goes on, blocks or ends, and knows of all its losses.         *)
Turn(s, t, p) ==
  /\ Beside(s, t, p)
  /\ Thinner(s.agenda, t.agenda) /\ Undue(t.agenda, p)
  /\ t.status[p] = "running" =>
       \/ s.status[p] = "running"
       \/ \A e \in t.agenda : ~(e.kind = "start" /\ e.proc = p)
  /\ t.untold[p] = {}
  /\ t.call[p].fn = "yield" => "yield" \in Repertoire[p]

LEMMA TurnDue ==
  ASSUME NEW s, Steady(s), Due(s), NEW p \in Process, NEW t, Turn(s, t, p)
  PROVE  Due(t)
<1>1. ASSUME NEW f \in t.agenda, f.proc = p PROVE EventDue(t, f)
  <2>1. CASE Harmless(f)
    BY <2>1 DEF Harmless, EventDue
  <2>2. CASE \E e \in s.agenda : Like(e, f)
    <3>1. PICK e \in s.agenda : Like(e, f)
      BY <2>2
    <3>2. EventDue(s, e) /\ e.proc = p
      BY <1>1, <3>1 DEF Due, Like
    <3>3. /\ f.kind # "resume" /\ ~(f.kind = "time" /\ f.sig = "success")
          /\ f.kind = "start" => t.status[p] # "running" \/ s.status[p] = "running"
      BY <1>1 DEF Turn, Undue
    <3>. QED BY <1>1, <3>1, <3>2, <3>3 DEF EventDue, Like
  <2>. QED BY <2>1, <2>2 DEF Turn, Thinner
<1>2. OnceIn(t.agenda)
  BY DEF Due, Turn, Thinner
<1>3. LossTold(t, p)
  BY DEF Turn, LossTold
<1>4. Beside(s, t, p)
  BY DEF Turn
<1>5. \A f \in t.agenda : f.proc # p => Harmless(f) \/ \E e \in s.agenda : Like(e, f)
  BY DEF Turn, Thinner
<1>6. t.call[p].fn = "yield" => "yield" \in Repertoire[p]
  BY DEF Turn
<1>. QED BY <1>1, <1>2, <1>3, <1>4, <1>5, <1>6, LocalDue

(* Only a hold is ended by its timer, and only a yield by a resume.        *)
LEMMA IdleUndue ==
  ASSUME NEW s, Due(s), NEW p,
         s.call[p].fn \notin {"hold", "yield"}
  PROVE  Undue(s.agenda, p)
  BY DEF Due, EventDue, Undue

LEMMA ReturnDue ==
  ASSUME NEW s, Steady(s), Due(s), NEW p \in Process, s.status[p] = "running",
         Undue(s.agenda, p), NEW sig, s.untold[p] = {} \/ sig = "preempted"
  PROVE  LET t == Return(s, p, sig)
         IN  Due(t) /\ t.failed = s.failed
<1> DEFINE x == IF sig = "preempted" THEN {} ELSE s.untold[p]
           t == Return(s, p, sig)
<1>1. t = [s EXCEPT !.running = p, !.call = [s.call EXCEPT ![p] = Idle],
                    !.untold = [s.untold EXCEPT ![p] = x]]
  BY DEF Return
<1>2. x = {} /\ DOMAIN s.untold = Process
  BY DEF Due
<1> HIDE DEF x, t
<1>3. /\ t.agenda = s.agenda /\ t.status = s.status /\ t.timers = s.timers
      /\ t.ticket = s.ticket /\ t.joins = s.joins /\ t.waiters = s.waiters
      /\ t.failed = s.failed /\ t.running = p
      /\ t.call = [s.call EXCEPT ![p] = Idle] /\ t.untold = [s.untold EXCEPT ![p] = x]
  BY <1>1 DEF Steady, Fields
<1>4. t.call[p].fn = "none"
  BY <1>3 DEF Idle, Steady, CallsOK
<1>5. Beside(s, t, p)
  BY <1>2, <1>3 DEF Beside, Looser
<1>6. Turn(s, t, p)
  BY <1>2, <1>3, <1>4, <1>5, SameThinner DEF Turn
<1>. QED BY <1>3, <1>6, TurnDue DEF t

LEMMA BlockDue ==
  ASSUME NEW s, Steady(s), Due(s), NEW p \in Process, s.status[p] = "running",
         Undue(s.agenda, p), s.untold[p] = {},
         NEW fn, NEW on, NEW key, fn = "yield" => "yield" \in Repertoire[p]
  PROVE  LET t == Block(s, p, fn, on, key)
         IN  Due(t) /\ t.failed = s.failed
<1> DEFINE c == [fn |-> fn, on |-> on, key |-> key]
           t == Block(s, p, fn, on, key)
<1>1. t = [s EXCEPT !.call = [s.call EXCEPT ![p] = c], !.running = NoOne]
  BY DEF Block
<1>2. c.fn = fn /\ DOMAIN s.untold = Process
  BY DEF Due
<1> HIDE DEF c, t
<1>3. /\ t.agenda = s.agenda /\ t.status = s.status /\ t.timers = s.timers
      /\ t.ticket = s.ticket /\ t.joins = s.joins /\ t.waiters = s.waiters
      /\ t.failed = s.failed /\ t.running = NoOne /\ t.untold = s.untold
      /\ t.call = [s.call EXCEPT ![p] = c]
  BY <1>1 DEF Steady, Fields
<1>4. t.call[p].fn = fn
  BY <1>2, <1>3 DEF Steady, CallsOK
<1>5. Beside(s, t, p)
  BY <1>2, <1>3 DEF Beside, Looser
<1>6. Turn(s, t, p)
  BY <1>2, <1>3, <1>4, <1>5, SameThinner DEF Turn
<1>. QED BY <1>3, <1>6, TurnDue DEF t

LEMMA WaitProcessDue ==
  ASSUME NEW s, Steady(s), Due(s), NEW p \in Process, s.status[p] = "running",
         Undue(s.agenda, p), s.untold[p] = {}, DOMAIN s.joins = Process,
         NEW q \in Process, ~Uncalled("join")
  PROVE  LET t == WaitProcess(s, p, q)
         IN  Due(t) /\ t.failed = s.failed
<1> DEFINE c == [fn |-> "join", on |-> q, key |-> 0]
           js == [s.joins EXCEPT ![p] = q]
           ws == [s.waiters EXCEPT ![q] = <<p>> \o s.waiters[q]]
           t == WaitProcess(s, p, q)
<1>1. t = [s EXCEPT !.joins = js, !.waiters = ws,
                    !.call = [s.call EXCEPT ![p] = c], !.running = NoOne]
  BY DEF WaitProcess, Block, Steady, Fields
<1>2. c.fn = "join" /\ DOMAIN s.untold = Process /\ \A r \in Process \ {p} : js[r] = s.joins[r]
  BY DEF Due
<1> HIDE DEF c, t, js, ws
<1>3. /\ t.agenda = s.agenda /\ t.status = s.status /\ t.timers = s.timers
      /\ t.ticket = s.ticket /\ t.joins = js
      /\ t.failed = s.failed /\ t.running = NoOne /\ t.untold = s.untold
      /\ t.call = [s.call EXCEPT ![p] = c]
  BY <1>1 DEF Steady, Fields
<1>4. t.call[p].fn = "join"
  BY <1>2, <1>3 DEF Steady, CallsOK
<1>5. Beside(s, t, p)
  BY <1>2, <1>3 DEF Beside, Looser
<1>6. Turn(s, t, p)
  BY <1>2, <1>3, <1>4, <1>5, SameThinner DEF Turn
<1>. QED BY <1>3, <1>6, TurnDue DEF t

LEMMA GuardWaitDue ==
  ASSUME NEW s, Steady(s), Due(s), NEW p \in Process, s.status[p] = "running",
         Undue(s.agenda, p), s.untold[p] = {}, NEW g
  PROVE  LET t == GuardWait(s, p, "acquire", g)
         IN  Due(t) /\ t.failed = s.failed
<1> DEFINE k == FreshKey(s)
           c == [fn |-> "acquire", on |-> g, key |-> k]
           ts == [s.ticket EXCEPT ![p] = [guard |-> g, key |-> k]]
           Q == [s.queue EXCEPT ![g] = Enter(s.queue[g], [proc |-> p, key |-> k,
                                                         prio |-> s.prio[p], tag |-> 0])]
           t == GuardWait(s, p, "acquire", g)
<1>1. t = [s EXCEPT !.ticket = ts, !.queue = Q,
                    !.call = [s.call EXCEPT ![p] = c], !.running = NoOne]
  BY DEF GuardWait, AddTicket, Block, Steady, Fields
<1>2. c.fn = "acquire" /\ DOMAIN s.untold = Process /\ \A r \in Process \ {p} : ts[r] = s.ticket[r]
  BY DEF Due, Steady, TicketsOK
<1> HIDE DEF c, t, ts, Q
<1>3. /\ t.agenda = s.agenda /\ t.status = s.status /\ t.timers = s.timers
      /\ t.ticket = ts /\ t.joins = s.joins /\ t.waiters = s.waiters
      /\ t.failed = s.failed /\ t.running = NoOne /\ t.untold = s.untold
      /\ t.call = [s.call EXCEPT ![p] = c]
  BY <1>1 DEF Steady, Fields
<1>4. t.call[p].fn = "acquire"
  BY <1>2, <1>3 DEF Steady, CallsOK
<1>5. Beside(s, t, p)
  BY <1>2, <1>3 DEF Beside, Looser
<1>6. Turn(s, t, p)
  BY <1>2, <1>3, <1>4, <1>5, SameThinner DEF Turn
<1>. QED BY <1>3, <1>6, TurnDue DEF t

LEMMA GrabPlain ==
  ASSUME NEW s, Steady(s), NEW p \in Process, NEW r \in Resource
  PROVE  LET t == Grab(s, p, r)
         IN  Plain(s, t) /\ t.agenda = s.agenda /\ t.failed = s.failed
<1> DEFINE t == Grab(s, p, r)
<1>1. /\ t.agenda = s.agenda /\ t.status = s.status /\ t.timers = s.timers
      /\ t.ticket = s.ticket /\ t.joins = s.joins /\ t.waiters = s.waiters
      /\ t.failed = s.failed /\ t.running = s.running /\ t.untold = s.untold
      /\ t.call = s.call
  BY DEF Grab, Steady, Fields
<1>. QED BY <1>1, SameThinner DEF Plain, Looser, Unjoined

LEMMA AcquireLoopDue ==
  ASSUME NEW s, Steady(s), Due(s), NEW p \in Process, s.status[p] = "running",
         Undue(s.agenda, p), s.untold[p] = {}, NEW r \in Resource, NEW mayGrab
  PROVE  LET t == AcquireLoop(s, p, r, mayGrab)
         IN  Due(t) /\ t.failed = s.failed
<1> DEFINE a == Grab(s, p, r)
           sig == "success"
           t == Return(a, p, sig)
           u == GuardWait(s, p, "acquire", r)
<1>1. AcquireLoop(s, p, r, mayGrab) \in {t, u}
  BY DEF AcquireLoop
<1>2. Plain(s, a) /\ a.agenda = s.agenda /\ a.failed = s.failed
  BY GrabPlain
<1>3. Steady(a)
  BY GrabSteady
<1> HIDE DEF a, sig
<1>4. Due(a) /\ a.status[p] = "running" /\ a.untold[p] = {} /\ Undue(a.agenda, p)
  BY <1>2, PlainDue DEF Plain
<1>5. Due(t) /\ t.failed = a.failed
  BY <1>3, <1>4, ReturnDue
<1>6. Due(u) /\ u.failed = s.failed
  BY GuardWaitDue
<1> HIDE DEF t, u
<1>. QED BY <1>1, <1>2, <1>5, <1>6

LEMMA ContinuedDue ==
  ASSUME NEW s, Steady(s), Due(s), NEW p \in Process, s.status[p] = "running",
         s.call[p].on \in Resource, Undue(s.agenda, p), NEW sig,
         s.untold[p] = {} \/ sig = "preempted"
  PROVE  LET t == Continued(s, p, sig)
         IN  Due(t) /\ t.failed = s.failed
<1> DEFINE a == AcquireLoop(s, p, s.call[p].on, TRUE)
           b == Return(s, p, sig)
<1>1. Continued(s, p, sig) = IF sig = "success" THEN a ELSE b
  BY DEF Continued
<1>2. ASSUME NEW mayGrab, sig = "success"
      PROVE  LET t == AcquireLoop(s, p, s.call[p].on, mayGrab)
             IN  Due(t) /\ t.failed = s.failed
  <2>1. s.untold[p] = {}
    BY <1>2
  <2>. QED BY <2>1, AcquireLoopDue
<1>3. sig = "success" => Due(a) /\ a.failed = s.failed
  BY <1>2
<1>4. Due(b) /\ b.failed = s.failed
  BY ReturnDue
<1> HIDE DEF a, b
<1>. QED BY <1>1, <1>3, <1>4

-----------------------------------------------------------------------------
(* cmi_coroutine_resume, with what the process waits for or has lost.      *)
Wanted(s, p, sig) ==
  LET fn == s.call[p].fn
  IN  /\ s.untold[p] = {} \/ sig = "preempted"
      /\ fn = "yield" \/ (fn = "hold" /\ sig = "success") => Undue(s.agenda, p)

LEMMA HoldOverUndue ==
  ASSUME NEW s, Steady(s), Due(s), DOMAIN s.timers = Process, NEW p \in Process,
         s.call[p].fn = "hold"
  PROVE  LET t == TimerCancel(s, p, s.call[p].key)
         IN  Due(t) /\ Undue(t.agenda, p)
<1> DEFINE key == s.call[p].key
           t == TimerCancel(s, p, key)
<1>1. /\ Plain(s, t)
      /\ \A e \in t.agenda : ~(e.kind = "time" /\ e.proc = p /\ e.key = key)
  BY TimerCancelPlain
<1> HIDE DEF t
<1>2. Due(t) /\ t.call = s.call
  BY <1>1, PlainDue DEF Plain
<1>3. Undue(t.agenda, p)
  BY <1>1, <1>2 DEF Due, EventDue, Undue
<1>. QED BY <1>2, <1>3 DEF t

LEMMA ResumedDue ==
  ASSUME NEW s, Steady(s), Due(s), DOMAIN s.timers = Process, DOMAIN s.joins = Process,
         NEW p \in Process, s.status[p] = "running", NEW sig, Wanted(s, p, sig),
         s.call[p].fn = "join" => s.call[p].on \in Process,
         s.call[p].fn = "acquire" => GuardResume(s, p, sig).failed = s.failed
  PROVE  LET t == Resumed(s, p, sig)
         IN  Due(t) /\ t.failed = s.failed
<1> DEFINE c == s.call[p]
<1>1. CallOK(c) /\ (s.untold[p] = {} \/ sig = "preempted")
  BY DEF Steady, CallsOK, Wanted
<1>2. c.fn \notin {"hold", "yield"} => Undue(s.agenda, p)
  BY IdleUndue
<1>3. CASE c.fn = "hold"
  <2> DEFINE a == TimerCancel(s, p, c.key)
             t == IF sig = "success" THEN s ELSE a
             u == Return(t, p, sig)
  <2>1. Resumed(s, p, sig) = u
    BY <1>3, SameCalls DEF Resumed
  <2>2. Due(a) /\ Undue(a.agenda, p)
    BY <1>3, HoldOverUndue
  <2>3. Plain(s, a)
    BY TimerCancelPlain
  <2>4. Steady(a) /\ a.status = s.status
    BY TimerCancelCalm DEF Calm, Still, Owners
  <2>5. a.failed = s.failed /\ a.untold = s.untold
    BY DEF TimerCancel, CancelEvents, Steady, Fields
  <2> HIDE DEF a
  <2>6. /\ Steady(t) /\ Due(t) /\ Undue(t.agenda, p) /\ t.status[p] = "running"
        /\ t.failed = s.failed /\ (t.untold[p] = {} \/ sig = "preempted")
    BY <1>1, <1>3, <2>2, <2>4, <2>5 DEF Wanted
  <2> HIDE DEF t
  <2>7. Due(u) /\ u.failed = t.failed
    BY <2>6, ReturnDue
  <2>. QED BY <2>1, <2>6, <2>7
<1>4. CASE c.fn = "join"
  <2> DEFINE lists == [s.waiters EXCEPT ![c.on] = Unlink(s.waiters[c.on], p)]
             a == [s EXCEPT !.waiters = lists]
             x == IF a.joins[p] = c.on THEN NoOne ELSE a.joins[p]
             js == [a.joins EXCEPT ![p] = x]
             b == [a EXCEPT !.joins = js]
  <2>1. Resumed(s, p, sig) = Return(b, p, sig)
    BY <1>4, SameCalls DEF Resumed
  <2>2. lists \in [Process -> Seq(Process)]
    <3>1. s.waiters \in [Process -> Seq(Process)]
      BY DEF Steady, ListsOK
    <3>2. \A q \in Process : Unlink(s.waiters[q], p) \in Seq(Process)
      BY <3>1, UnlinkKeeps
    <3>. QED BY <3>1, <3>2
  <2>3. \A q \in Process : s.waiters[q] = <<>> => lists[q] = <<>>
    <3>1. Unlink(<<>>, p) = <<>>
      BY DEF Unlink, Occurrence
    <3>. QED BY <3>1 DEF Steady, ListsOK
  <2>4. Steady(a)
    BY <2>2, WaitersSet DEF Calm
  <2>5. a.joins = s.joins
    BY DEF Steady, Fields
  <2>6. \A q \in Process : js[q] \in {s.joins[q], NoOne}
    BY <2>5
  <2> HIDE DEF lists, js
  <2>7. /\ b.agenda = s.agenda /\ b.status = s.status /\ b.timers = s.timers
        /\ b.ticket = s.ticket /\ b.joins = js /\ b.waiters = lists
        /\ b.failed = s.failed /\ b.running = s.running /\ b.untold = s.untold
        /\ b.call = s.call
    BY DEF Steady, Fields
  <2>8. Plain(s, b)
    BY <2>3, <2>6, <2>7, SameThinner DEF Plain, Looser, Unjoined
  <2> HIDE DEF a
  <2>9. Steady(b)
    BY <2>4, FreeSet DEF Calm
  <2> HIDE DEF b
  <2>10. Due(b) /\ Undue(b.agenda, p)
    BY <1>2, <1>4, <2>7, <2>8, PlainDue
  <2>11. Due(Return(b, p, sig)) /\ Return(b, p, sig).failed = b.failed
    BY <1>1, <2>7, <2>9, <2>10, ReturnDue
  <2>. QED BY <2>1, <2>7, <2>11
<1>5. CASE c.fn \in {"yield", "none"}
  <2>1. Resumed(s, p, sig) = Return(s, p, sig)
    BY <1>5, SameCalls DEF Resumed
  <2>2. Undue(s.agenda, p)
    BY <1>2, <1>5 DEF Wanted
  <2>. QED BY <1>1, <2>1, <2>2, ReturnDue
<1>6. CASE c.fn = "acquire"
  <2> DEFINE t == GuardResume(s, p, sig)
             u == Continued(t, p, sig)
  <2>1. Resumed(s, p, sig) = u
    BY <1>6, SameCalls DEF Resumed
  <2>2. c.on \in Resource
    BY <1>1, <1>6 DEF CallOK
  <2>3. Calm(s, t) /\ Plain(s, t)
    BY <2>2, GuardResumeCalm, GuardResumePlain
  <2>4. t.failed = s.failed
    BY <1>6
  <2> HIDE DEF t
  <2>5. /\ Steady(t) /\ t.status[p] = "running" /\ t.call[p].on \in Resource
        /\ t.untold[p] = {} \/ sig = "preempted"
    BY <1>1, <2>2, <2>3 DEF Calm, Still, Owners, Plain
  <2>6. Due(t) /\ Undue(t.agenda, p)
    BY <1>2, <1>6, <2>3, PlainDue, UndueKept DEF Plain
  <2>7. Due(u) /\ u.failed = t.failed
    BY <2>5, <2>6, ContinuedDue
  <2>. QED BY <2>1, <2>4, <2>7
<1>. QED BY <1>1, <1>3, <1>4, <1>5, <1>6 DEF CallOK

(* guard_wait: who is told of success is not queued any more.              *)
Unqueued(s, p, sig) ==
  LET c == s.call[p]
  IN  sig = "success" /\ c.fn = "acquire" => Entries(s, c.on, c.key) = {}

LEMMA GuardResumeKept ==
  ASSUME NEW s, Steady(s), NEW open, NEW p \in Process, Fine(s, {}, open, {p}),
         s.call[p].fn = "acquire", NEW sig, Opened(s, p, sig, open), Unqueued(s, p, sig)
  PROVE  GuardResume(s, p, sig).failed = s.failed
<1> DEFINE g == s.call[p].on
           t == GuardResume(s, p, sig)
           out == {p}
<1>1. CASE sig = "success"
  <2> DEFINE a == RemoveTicket(s, p, g)
  <2>1. t = Asserted(a, Entries(s, g, s.call[p].key) = {}, "guard_wait")
    BY <1>1 DEF GuardResume
  <2>2. Entries(s, g, s.call[p].key) = {}
    BY <1>1 DEF Unqueued
  <2>3. a.failed = s.failed
    BY DEF RemoveTicket, Steady, Fields
  <2> HIDE DEF a, t
  <2>. QED BY <2>1, <2>2, <2>3 DEF Asserted, t
<1>2. CASE sig # "success"
  <2>1. sig = "cancelled" => ~Tells(Own(s, p), g)
    BY DEF Opened
  <2>2. /\ t.failed = "none" => s.failed = "none"
        /\ t.ticket[p] = NoTicket /\ t.joins[p] = NoOne
        /\ t.failed = "none" => Fine(t, {}, open \cup {s.call[p].on}, out \cup {p})
        /\ sig # "success" => Fine(t, {}, open, out \cup {p})
        /\ sig # "success" => t.failed = s.failed
    BY <2>1, GuardResumeFine
  <2>. QED BY <1>2, <2>2
<1>. QED BY <1>1, <1>2

LEMMA JoinedProcess ==
  ASSUME NEW s, NEW dying, Core(s, dying), NEW p \in Process, s.call[p].fn = "join"
  PROVE  s.call[p].on \in Process
<1>1. Sound(Own(s, p)) /\ Own(s, p).call = s.call[p]
  BY OwnIs DEF Core
<1>. QED BY <1>1 DEF Sound

LEMMA AliveDue ==
  ASSUME NEW s, Steady(s), Due(s), NEW open, NEW p \in Process, Fine(s, {}, open, {p}),
         NEW sig, Opened(s, p, sig, open), Wanted(s, p, sig), Unqueued(s, p, sig)
  PROVE  LET t == ResumedIfAlive(s, p, sig)
         IN  Due(t) /\ t.failed = s.failed
<1> DEFINE t == Resumed(s, p, sig)
<1>1. ResumedIfAlive(s, p, sig) = IF s.status[p] = "running" THEN t ELSE s
  BY DEF ResumedIfAlive
<1>2. Core(s, {}) /\ DOMAIN s.timers = Process /\ DOMAIN s.joins = Process
  BY DEF Fine, Core, Shaped
<1>3. s.call[p].fn = "join" => s.call[p].on \in Process
  BY <1>2, JoinedProcess
<1>4. s.call[p].fn = "acquire" => GuardResume(s, p, sig).failed = s.failed
  BY GuardResumeKept
<1>5. s.status[p] = "running" => Due(t) /\ t.failed = s.failed
  BY <1>2, <1>3, <1>4, ResumedDue
<1> HIDE DEF t
<1>. QED BY <1>1, <1>5

(* What is left on the agenda after the first event.                       *)
LEMMA DequeueOnce ==
  ASSUME NEW s, Steady(s), s.agenda # {}, OnceIn(s.agenda), NEW h \in Dequeue(s).agenda,
         First(s.agenda).kind \in {"start", "resume"}, h.kind = First(s.agenda).kind
  PROVE  h.proc # First(s.agenda).proc
<1> DEFINE e == First(s.agenda)
           A == Leave(s.agenda, {e})
           n(f) == Cardinality({g \in {e} : g.tag < f.tag})
<1>1. AgendaOK(s.agenda) /\ e \in s.agenda
  BY FirstOf DEF Steady
<1>2. Dequeue(s).agenda = {[f EXCEPT !.delay = f.delay - e.delay] : f \in A}
  BY DEF Dequeue, Steady, Fields
<1> HIDE DEF e, n
<1>3. PICK f \in A : h = [f EXCEPT !.delay = f.delay - e.delay]
  BY <1>2 DEF e
<1>4. PICK k \in s.agenda \ {e} : f = [k EXCEPT !.tag = k.tag - n(k)]
  BY <1>3 DEF Leave, n
<1>5. DOMAIN k = EventFields
  BY <1>1 DEF AgendaOK, EventOK
<1>6. f.kind = k.kind /\ f.proc = k.proc /\ DOMAIN f = EventFields
  BY <1>4, <1>5 DEF EventFields
<1>7. h.kind = k.kind /\ h.proc = k.proc
  BY <1>3, <1>6 DEF EventFields
<1>. QED BY <1>1, <1>4, <1>7 DEF OnceIn, e

-----------------------------------------------------------------------------
(* The events.                                                             *)
LEMMA DequeuedDue ==
  ASSUME NEW s, Steady(s), s.agenda # {}, Settled(s, {}), s.running = NoOne, Due(s)
  PROVE  LET e == First(s.agenda)
             d == Dequeue(s)
         IN  /\ e.proc \in Process /\ e \in s.agenda /\ EventDue(s, e)
             /\ e.kind # "cancelled" => e.sig # "cancelled"
             /\ Steady(d) /\ Due(d) /\ Core(s, {}) /\ Fine(s, {}, {}, {})
             /\ ProcessDue(s, e.proc)
             /\ d.status = s.status /\ d.call = s.call /\ d.untold = s.untold
             /\ d.timers = s.timers /\ d.ticket = s.ticket /\ d.joins = s.joins
             /\ d.queue = s.queue /\ d.failed = s.failed /\ d.running = NoOne
             /\ DOMAIN d.timers = Process /\ DOMAIN d.joins = Process
<1> DEFINE e == First(s.agenda)
           d == Dequeue(s)
           out == {}
<1>1. Fine(s, {}, {}, out) /\ Core(s, {}) /\ Shaped(s)
  BY IdleFine DEF Fine, Core
<1>2. /\ e.proc \in Process /\ e.kind \in Kinds
      /\ e.kind # "cancelled" => e.sig # "cancelled"
      /\ e.kind = "cancelled" => e.sig = "cancelled"
      /\ e.kind = "grant" => e.sig = "success"
      /\ e.kind \in {"preempt", "resume"} => s.status[e.proc] = "running"
  BY <1>1, EventTells
<1>3. e \in s.agenda
  BY FirstOf DEF Steady
<1>4. Steady(d)
  BY DequeueCalm DEF Calm
<1>5. Due(d)
  BY DequeuePlain, PlainDue
<1>6. /\ d.status = s.status /\ d.call = s.call /\ d.untold = s.untold
      /\ d.timers = s.timers /\ d.ticket = s.ticket /\ d.joins = s.joins
      /\ d.queue = s.queue /\ d.failed = s.failed /\ d.running = NoOne
  BY DEF Dequeue, Steady, Fields
<1> HIDE DEF d, e
<1>. QED BY <1>1, <1>2, <1>3, <1>4, <1>5, <1>6 DEF Due, Shaped, d, e

LEMMA StartEventDue ==
  ASSUME NEW s, Steady(s), s.agenda # {}, Settled(s, {}), s.running = NoOne, Due(s),
         First(s.agenda).kind = "start"
  PROVE  LET t == StartEvent(Dequeue(s), First(s.agenda).proc)
         IN  Due(t) /\ t.failed = s.failed
<1> DEFINE e == First(s.agenda)
           p == e.proc
           d == Dequeue(s)
           sig == "success"
           a == Risen(d, p)
           t == Return(a, p, sig)
<1>1. /\ p \in Process /\ EventDue(s, e) /\ ProcessDue(s, p) /\ Core(s, {})
      /\ Steady(d) /\ Due(d)
      /\ d.status = s.status /\ d.call = s.call /\ d.untold = s.untold
      /\ d.failed = s.failed
  BY DequeuedDue
<1>2. d.status[p] # "running" /\ d.untold[p] = {}
  BY <1>1 DEF EventDue, ProcessDue, LossTold
<1>3. d.call[p].fn = "none"
  <2>1. Placed(Own(s, p))
    BY <1>1 DEF Core
  <2>. QED BY <1>1, <1>2, <2>1, OwnIs DEF Placed
<1>4. \A h \in d.agenda : ~(h.kind = "start" /\ h.proc = p)
  BY DequeueOnce DEF Due
<1> HIDE DEF d, e
<1>5. /\ t.agenda = d.agenda /\ t.timers = d.timers
      /\ t.ticket = d.ticket /\ t.joins = d.joins /\ t.waiters = d.waiters
      /\ t.failed = d.failed /\ t.running = p
      /\ t.status = [d.status EXCEPT ![p] = "running"]
      /\ t.call = [d.call EXCEPT ![p] = Idle] /\ t.untold = [d.untold EXCEPT ![p] = @]
  BY <1>1 DEF Return, Risen, Steady, Fields
<1> HIDE DEF t
<1>6. t.call[p].fn = "none" /\ Undue(t.agenda, p) /\ DOMAIN d.untold = Process
  <2>1. Undue(d.agenda, p)
    BY <1>1, <1>3, IdleUndue
  <2>2. DOMAIN d.call = Process /\ DOMAIN d.untold = Process
    BY <1>1 DEF Steady, CallsOK, Due
  <2>. QED BY <1>1, <1>5, <2>1, <2>2 DEF Idle
<1>7. Beside(d, t, p)
  BY <1>1, <1>5, <1>6 DEF Beside, Looser
<1>8. Turn(d, t, p)
  BY <1>1, <1>2, <1>4, <1>5, <1>6, <1>7, SameThinner DEF Turn
<1>9. Due(t)
  BY <1>1, <1>8, TurnDue
<1>10. StartEvent(d, p) = Asserted(t, d.status[p] # "running", "coroutine_start")
  BY SameCalls DEF StartEvent, Risen, t
<1>11. StartEvent(d, p) = t
  BY <1>2, <1>10 DEF Asserted
<1>. QED BY <1>1, <1>5, <1>9, <1>11 DEF d, e

LEMMA TimeEventDue ==
  ASSUME NEW s, Steady(s), s.agenda # {}, Settled(s, {}), s.running = NoOne, Due(s),
         First(s.agenda).kind = "time", MildPrograms
  PROVE  LET e == First(s.agenda)
             t == WakeupTime(Dequeue(s), e.proc, e.key, e.sig)
         IN  Due(t) /\ t.failed = s.failed
<1> DEFINE e == First(s.agenda)
           p == e.proc
           d == Dequeue(s)
           a == TimerOver(d, p, e.key)
           out == {}
<1>1. /\ p \in Process /\ EventDue(s, e) /\ ProcessDue(s, p) /\ Core(s, {})
      /\ Steady(d) /\ Due(d) /\ Fine(s, {}, {}, out)
      /\ d.status = s.status /\ d.call = s.call /\ d.untold = s.untold
      /\ d.failed = s.failed /\ d.timers = s.timers /\ DOMAIN d.timers = Process
  BY DequeuedDue
<1>2. /\ e.key \in d.timers[p]
      /\ Fine(a, {}, {}, out \cup {p}) /\ a.failed = s.failed
      /\ a.call = s.call /\ a.joins = s.joins /\ a.ticket = s.ticket
      /\ a.status = s.status
  BY <1>1, DequeueTimeFine
<1>3. e.sig # "cancelled"
  BY <1>1 DEF EventDue
<1>4. e.key # 0 /\ \A f \in Facts(d.agenda, p) : f.key # e.key
  <2>1. TimersSet(Own(s, p)) /\ Own(s, p).timers = s.timers[p] /\ UniqueEvents(s.agenda)
    BY <1>1, OwnIs DEF Core, Sound, Shaped
  <2>2. e.key # 0
    BY <1>1, <1>2, <2>1 DEF TimersSet
  <2>3. e.key # 0 => \A f \in Facts(d.agenda, p) : f.key # e.key
    BY <2>1, DequeueFacts
  <2>. QED BY <2>2, <2>3
<1>5. Plain(d, a)
  <2>1. d.timers[p] \ {e.key} \subseteq d.timers[p]
    OBVIOUS
  <2>2. Plain(d, [d EXCEPT !.timers = [d.timers EXCEPT ![p] = d.timers[p] \ {e.key}]])
    BY <1>1, <2>1, TimersAtPlain
  <2>. QED BY <2>2 DEF TimerOver
<1>6. Steady(a) /\ a.agenda = d.agenda /\ a.untold = s.untold
  BY <1>1, FreeSet DEF TimerOver, Calm, Steady, Fields
<1>7. WakeupTime(d, p, e.key, e.sig) = ResumedIfAlive(a, p, e.sig)
  BY <1>2 DEF WakeupTime, TimerOver
<1>8. e.kind = "time" /\ out \cup {p} = {p}
  OBVIOUS
<1> HIDE DEF a, d, e
<1>9. a.untold[p] = {}
  BY <1>1, <1>2, <1>6 DEF ProcessDue, LossTold
<1>10. Due(a)
  BY <1>1, <1>5, PlainDue
<1>11. Opened(a, p, e.sig, {})
  BY <1>3 DEF Opened
<1>12. Unqueued(a, p, e.sig)
  BY <1>1, <1>2, <1>8 DEF EventDue, Unqueued
<1>13. Wanted(a, p, e.sig)
  <2>1. ASSUME a.call[p].fn = "yield" PROVE Undue(a.agenda, p)
    <3>1. "yield" \in Repertoire[p] /\ "timer" \in Repertoire[p]
      BY <1>1, <1>2, <1>8, <2>1 DEF EventDue, ProcessDue
    <3>2. Uncalled("resume")
      BY <1>1, <3>1 DEF MildPrograms
    <3>. QED BY <1>10, <2>1, <3>2 DEF Due, EventDue, Undue
  <2>2. ASSUME a.call[p].fn = "hold", e.sig = "success" PROVE Undue(a.agenda, p)
    <3>1. a.call[p].key = e.key
      BY <1>1, <1>2, <1>8, <2>2 DEF EventDue
    <3>2. ASSUME NEW h \in a.agenda, h.proc = p, h.kind = "time", h.sig = "success"
          PROVE  FALSE
      <4>1. h.key = e.key
        BY <1>10, <2>2, <3>1, <3>2 DEF Due, EventDue
      <4>2. Fact(h) \in Facts(d.agenda, p) /\ Fact(h).key = h.key
        BY <1>6, <3>2 DEF Facts, Fact
      <4>. QED BY <1>4, <4>1, <4>2
    <3>3. \A h \in a.agenda : h.proc = p => h.kind # "resume"
      BY <1>10, <2>2 DEF Due, EventDue
    <3>. QED BY <3>2, <3>3 DEF Undue
  <2>. QED BY <1>9, <2>1, <2>2 DEF Wanted
<1> DEFINE t == ResumedIfAlive(a, p, e.sig)
<1>14. Fine(a, {}, {}, {p})
  BY <1>2, <1>8
<1>15. Due(t) /\ t.failed = a.failed
  BY <1>1, <1>6, <1>10, <1>11, <1>12, <1>13, <1>14, AliveDue
<1> HIDE DEF t
<1>. QED BY <1>2, <1>7, <1>15 DEF t, d, e

LEMMA GuardEventDue ==
  ASSUME NEW s, Steady(s), s.agenda # {}, Settled(s, {}), s.running = NoOne, Due(s),
         First(s.agenda).kind \in {"grant", "cancelled"}
  PROVE  LET e == First(s.agenda)
             t == WakeupGuard(Dequeue(s), e.proc, e.key, e.sig)
         IN  Due(t) /\ t.failed = s.failed
<1> DEFINE e == First(s.agenda)
           p == e.proc
           d == Dequeue(s)
           open == IF e.kind = "grant" THEN {s.ticket[p].guard} ELSE {}
           t == ResumedIfAlive(d, p, e.sig)
<1>1. /\ p \in Process /\ ProcessDue(s, p) /\ Core(s, {})
      /\ Steady(d) /\ Due(d)
      /\ d.status = s.status /\ d.call = s.call /\ d.untold = s.untold
      /\ d.failed = s.failed /\ d.ticket = s.ticket /\ d.queue = s.queue
  BY DequeuedDue
<1>2. WakeupGuard(d, p, e.key, e.sig) = IF AwaitingKey(s, p, e.key) THEN t ELSE d
  <2>1. Kernel!AwaitingKey(d, p, e.key) = AwaitingKey(s, p, e.key)
    BY <1>1 DEF AwaitingKey, Kernel!AwaitingKey
  <2> HIDE DEF d, e, t
  <2>. QED BY <2>1 DEF WakeupGuard, t
<1>3. CASE AwaitingKey(s, p, e.key)
  <2>1. /\ Fine(d, {}, open, {p}) /\ Opened(d, p, e.sig, open)
        /\ d.call[p].fn = "acquire" /\ d.call = s.call /\ d.ticket[p] # NoTicket
        /\ \A w \in Own(s, p).waits : w.key # e.key
    BY <1>3, GuardEventOpens
  <2> HIDE DEF open, d, e
  <2>2. /\ s.call[p].on \in Resource /\ s.call[p].key = e.key
        /\ s.call[p].key \in {s.ticket[p].key, s.call[p].key}
    <3>1. Placed(Own(s, p)) /\ Own(s, p).ticket = s.ticket[p] /\ Own(s, p).call = s.call[p]
      BY <1>1, OwnIs DEF Core
    <3>2. s.call[p].on \in Resource
      BY <1>1, <2>1 DEF Steady, CallsOK, CallOK
    <3>3. s.call[p].key = s.ticket[p].key
      BY <1>1, <2>1, <3>1 DEF Placed
    <3>. QED BY <1>3, <3>2, <3>3 DEF AwaitingKey
  <2>3. Entries(d, d.call[p].on, d.call[p].key) = {}
    <3> DEFINE g == s.call[p].on
               k == s.call[p].key
    <3> SUFFICES ASSUME NEW w \in Entries(s, g, k) PROVE FALSE
      BY <1>1 DEF Entries
    <3>1. w \in s.queue[g] /\ w.proc = p /\ w.key = k
      BY <1>1, <2>2, EntriesOwn
    <3>2. Wait(g, w) \in Own(s, w.proc).waits
      BY <1>1, <2>2, <3>1, EntryWait
    <3>3. Wait(g, w).key = w.key
      BY DEF Wait
    <3>. QED BY <2>1, <2>2, <3>1, <3>2, <3>3
  <2>4. Unqueued(d, p, e.sig)
    BY <2>3 DEF Unqueued
  <2>5. d.untold[p] = {}
    BY <1>1, <2>1 DEF ProcessDue, LossTold
  <2>6. Wanted(d, p, e.sig)
    BY <2>1, <2>5 DEF Wanted
  <2>7. Due(t) /\ t.failed = d.failed
    BY <1>1, <2>1, <2>4, <2>6, AliveDue
  <2> HIDE DEF t
  <2>. QED BY <1>1, <1>2, <1>3, <2>7 DEF d, e
<1> HIDE DEF t, d, e
<1>. QED BY <1>1, <1>2, <1>3 DEF d, e

LEMMA ProcessEventDue ==
  ASSUME NEW s, Steady(s), s.agenda # {}, Settled(s, {}), s.running = NoOne, Due(s),
         First(s.agenda).kind = "process"
  PROVE  LET e == First(s.agenda)
             t == WakeupProcess(Dequeue(s), e.proc, e.sig)
         IN  /\ Due(t)
             /\ \/ t.failed = s.failed
                \/ t.failed = "wakeup_event_process" /\ ~Uncalled("join")
<1> DEFINE e == First(s.agenda)
           p == e.proc
           d == Dequeue(s)
           js == [d.joins EXCEPT ![p] = NoOne]
           v == [d EXCEPT !.joins = js]
           r == Resumed(v, p, e.sig)
           u == IF d.joins[p] = NoOne THEN d ELSE ResumedIfAlive(v, p, e.sig)
           holds == \/ d.joins[p] # NoOne
                    \/ d.timers[p] # {}
                    \/ d.ticket[p] # Kernel!NoTicket
           name == "wakeup_event_process"
           t == Asserted(u, holds, name)
<1>1. /\ p \in Process /\ EventDue(s, e) /\ ProcessDue(s, p) /\ Core(s, {})
      /\ Steady(d) /\ Due(d)
      /\ d.status = s.status /\ d.call = s.call /\ d.untold = s.untold
      /\ d.failed = s.failed /\ d.joins = s.joins
      /\ DOMAIN d.timers = Process /\ DOMAIN d.joins = Process
  BY DequeuedDue
<1>2. ~Uncalled("join")
  BY <1>1 DEF EventDue
<1>3. WakeupProcess(d, p, e.sig) = t
  BY SameCalls DEF WakeupProcess
<1>4. d.joins[p] # NoOne => holds
  OBVIOUS
<1> HIDE DEF holds, name, d, e
<1>5. CASE d.joins[p] = NoOne
  <2>1. u = d
    BY <1>5
  <2> HIDE DEF u
  <2>2. Plain(d, t) /\ t.failed \in {d.failed, name}
    BY <1>1, <2>1, AssertedPlain DEF Asserted, Steady, Fields
  <2>3. Due(t)
    BY <1>1, <2>2, PlainDue
  <2>. QED BY <1>1, <1>2, <1>3, <2>2, <2>3 DEF d, e, name
<1>6. CASE d.joins[p] # NoOne
  <2>1. s.call[p].fn = "join" /\ s.status[p] = "running"
    <3>1. Placed(Own(s, p)) /\ Own(s, p).joins = s.joins[p] /\ Own(s, p).call = s.call[p]
      BY <1>1, OwnIs DEF Core
    <3>2. s.call[p].fn = "join"
      BY <1>1, <1>6, <3>1 DEF Placed
    <3>. QED BY <3>1, <3>2, OwnIs DEF Placed
  <2>2. s.call[p].on \in Process
    BY <1>1, <2>1, JoinedProcess
  <2>3. \A q \in Process : js[q] \in {d.joins[q], NoOne}
    BY <1>1
  <2>4. DOMAIN js = Process
    BY <1>1
  <2> HIDE DEF js
  <2>5. /\ v.agenda = d.agenda /\ v.status = d.status /\ v.timers = d.timers
        /\ v.ticket = d.ticket /\ v.joins = js /\ v.waiters = d.waiters
        /\ v.failed = d.failed /\ v.running = d.running /\ v.untold = d.untold
        /\ v.call = d.call
    BY <1>1 DEF Steady, Fields
  <2>6. Steady(v)
    BY <1>1, FreeSet DEF Calm
  <2>7. u = r
    BY <1>1, <1>6, <2>1, <2>5 DEF ResumedIfAlive
  <2> HIDE DEF v, u
  <2>8. Due(v)
    <3>1. Plain(d, v)
      BY <2>3, <2>5, SameThinner DEF Plain, Looser, Unjoined
    <3>. QED BY <1>1, <3>1, PlainDue
  <2>9. Wanted(v, p, e.sig)
    BY <1>1, <1>6, <2>1, <2>5 DEF ProcessDue, LossTold, Wanted
  <2>10. Due(r) /\ r.failed = v.failed
    BY <1>1, <2>1, <2>2, <2>4, <2>5, <2>6, <2>8, <2>9, ResumedDue
  <2> HIDE DEF r
  <2>11. t = r
    BY <1>4, <1>6, <2>7 DEF Asserted
  <2> HIDE DEF t
  <2>. QED BY <1>1, <1>3, <2>5, <2>10, <2>11 DEF d, e
<1>. QED BY <1>5, <1>6

LEMMA BareUndue ==
  ASSUME NEW s, NEW p \in Process, Bare(Own(s, p)) PROVE Undue(s.agenda, p)
<1> SUFFICES ASSUME NEW e \in s.agenda, e.proc = p
             PROVE  e.kind # "resume" /\ e.kind # "time"
  BY DEF Undue
<1>1. Fact(e) \in Own(s, p).facts /\ Fact(e).kind = e.kind
  BY OwnIs DEF Facts, Fact
<1>. QED BY <1>1 DEF Bare, Unchecked

LEMMA InterruptEventDue ==
  ASSUME NEW s, Steady(s), s.agenda # {}, Settled(s, {}), s.running = NoOne, Due(s),
         First(s.agenda).kind = "interrupt", MildPrograms
  PROVE  LET e == First(s.agenda)
             t == WakeupInterrupt(Dequeue(s), e.proc, e.sig)
         IN  Due(t) /\ t.failed = s.failed
<1> DEFINE e == First(s.agenda)
           p == e.proc
           d == Dequeue(s)
           a == CancelAwaiteds(d, p)
           u == ResumedIfAlive(a, p, e.sig)
           t == WakeupInterrupt(d, p, e.sig)
           out == {}
           rest == out \cup {p}
<1>1. /\ p \in Process /\ EventDue(s, e) /\ ProcessDue(s, p) /\ Fine(s, {}, {}, out)
      /\ Steady(d) /\ Due(d)
      /\ d.status = s.status /\ d.call = s.call /\ d.untold = s.untold
      /\ d.failed = s.failed
      /\ DOMAIN d.timers = Process /\ DOMAIN d.joins = Process
  BY DequeuedDue
<1>2. /\ Fine(d, {}, Given(s, e), out \cup {p})
      /\ e.kind # "grant" => Fine(d, {}, {}, out \cup {p})
      /\ /\ e.kind \in {"grant", "cancelled"}
         /\ ~AwaitingKey(s, p, e.key)
         => Fine(d, {}, {}, out)
      /\ e.kind = "process" /\ s.joins[p] = NoOne => Fine(d, {}, {}, out)
  BY <1>1, DequeueFine
<1>3. Fine(d, {}, {}, rest) /\ rest \cup {p} = {p}
  BY <1>2
<1>4. e.sig = "interrupted" /\ d.untold[p] = {}
  <2>1. e.sig = "interrupted" /\ ~Uncalled("interrupt")
    BY <1>1 DEF EventDue
  <2>. QED BY <1>1, <2>1 DEF MildPrograms, ProcessDue, LossTold
<1> HIDE DEF d, e, rest
<1>5. Plain(d, a) /\ Calm(d, a)
  BY <1>1, CancelAwaitedsPlain, CancelAwaitedsCalm
<1>6. Fine(a, {}, {}, rest \cup {p}) /\ a.failed = d.failed /\ Bare(Own(a, p))
  BY <1>1, <1>3, CancelAwaitedsFine
<1>7. t = IF d.status[p] = "running" THEN Resumed(a, p, e.sig) ELSE d
  BY SameCalls DEF WakeupInterrupt
<1> HIDE DEF a, t
<1>8. Steady(a) /\ a.status = d.status
  BY <1>5 DEF Calm, Still, Owners
<1>9. t = IF d.status[p] = "running" THEN u ELSE d
  BY <1>7, <1>8 DEF ResumedIfAlive
<1>10. Due(a) /\ Undue(a.agenda, p) /\ Fine(a, {}, {}, {p}) /\ a.untold[p] = {}
  BY <1>1, <1>3, <1>4, <1>5, <1>6, PlainDue, BareUndue DEF Plain
<1>11. Wanted(a, p, e.sig) /\ Unqueued(a, p, e.sig) /\ Opened(a, p, e.sig, {})
  BY <1>4, <1>10 DEF Wanted, Unqueued, Opened
<1>12. Due(u) /\ u.failed = a.failed
  BY <1>1, <1>8, <1>10, <1>11, AliveDue
<1> HIDE DEF u
<1>. QED BY <1>1, <1>6, <1>9, <1>12 DEF d, e, t

LEMMA UncheckedEventDue ==
  ASSUME NEW s, Steady(s), s.agenda # {}, Settled(s, {}), s.running = NoOne, Due(s),
         First(s.agenda).kind \in {"preempt", "resume"}, MildPrograms
  PROVE  LET e == First(s.agenda)
             t == ResumedIfAlive(Dequeue(s), e.proc, e.sig)
         IN  Due(t) /\ t.failed = s.failed
<1> DEFINE e == First(s.agenda)
           p == e.proc
           d == Dequeue(s)
           t == ResumedIfAlive(d, p, e.sig)
           out == {}
<1>1. /\ p \in Process /\ EventDue(s, e) /\ ProcessDue(s, p) /\ Fine(s, {}, {}, out)
      /\ e.kind # "cancelled" => e.sig # "cancelled"
      /\ Steady(d) /\ Due(d)
      /\ d.status = s.status /\ d.call = s.call /\ d.untold = s.untold
      /\ d.failed = s.failed
  BY DequeuedDue
<1>2. /\ Fine(d, {}, Given(s, e), out \cup {p})
      /\ e.kind # "grant" => Fine(d, {}, {}, out \cup {p})
      /\ /\ e.kind \in {"grant", "cancelled"}
         /\ ~AwaitingKey(s, p, e.key)
         => Fine(d, {}, {}, out)
      /\ e.kind = "process" /\ s.joins[p] = NoOne => Fine(d, {}, {}, out)
  BY <1>1, DequeueFine
<1>3. Fine(d, {}, {}, {p})
  BY <1>2
<1>4. e.kind = "resume" => \A h \in d.agenda : ~(h.kind = "resume" /\ h.proc = p)
  BY DequeueOnce DEF Due
<1>5. e.kind \in {"preempt", "resume"}
  OBVIOUS
<1> HIDE DEF d, e
<1>6. Opened(d, p, e.sig, {})
  BY <1>1, <1>5 DEF Opened
<1>7. ASSUME e.kind = "preempt" PROVE Due(t) /\ t.failed = d.failed
  <2>1. e.sig = "preempted" /\ Uncalled("resume")
    BY <1>1, <1>7 DEF EventDue, MildPrograms
  <2>2. Unqueued(d, p, e.sig)
    BY <2>1 DEF Unqueued
  <2>3. d.call[p].fn = "yield" => Undue(d.agenda, p)
    BY <1>1, <2>1 DEF Due, EventDue, Undue
  <2>4. Wanted(d, p, e.sig)
    BY <2>1, <2>3 DEF Wanted
  <2> HIDE DEF t
  <2>5. Due(t) /\ t.failed = d.failed
    BY <1>1, <1>3, <1>6, <2>2, <2>4, AliveDue DEF t
  <2>. QED BY <2>5
<1>8. ASSUME e.kind = "resume" PROVE Due(t) /\ t.failed = d.failed
  <2>1. d.call[p].fn = "yield" /\ d.untold[p] = {}
    BY <1>1, <1>8 DEF EventDue, MildPrograms, ProcessDue, LossTold
  <2>2. Unqueued(d, p, e.sig)
    BY <2>1 DEF Unqueued
  <2>3. Undue(d.agenda, p)
    BY <1>1, <1>4, <1>8, <2>1 DEF Due, EventDue, Undue
  <2>4. Wanted(d, p, e.sig)
    BY <2>1, <2>3 DEF Wanted
  <2> HIDE DEF t
  <2>5. Due(t) /\ t.failed = d.failed
    BY <1>1, <1>3, <1>6, <2>2, <2>4, AliveDue DEF t
  <2>. QED BY <2>5
<1> HIDE DEF t
<1>9. Due(t) /\ t.failed = d.failed
  BY <1>5, <1>7, <1>8
<1>. QED BY <1>1, <1>9 DEF t, d, e

Stale == "wakeup_event_process"

LEMMA ExecutedDue ==
  ASSUME NEW s, Steady(s), s.agenda # {}, Settled(s, {}), s.running = NoOne, Due(s),
         MildPrograms
  PROVE  LET t == Executed(s)
         IN  Due(t) /\ (t.failed = s.failed \/ (t.failed = Stale /\ ~Uncalled("join")))
<1> DEFINE e == First(s.agenda)
           d == Dequeue(s)
           a == StartEvent(d, e.proc)
           b == WakeupTime(d, e.proc, e.key, e.sig)
           c == WakeupGuard(d, e.proc, e.key, e.sig)
           f == WakeupProcess(d, e.proc, e.sig)
           g == WakeupInterrupt(d, e.proc, e.sig)
           h == ResumedIfAlive(d, e.proc, e.sig)
           t == Executed(s)
<1>1. t = CASE e.kind = "start" -> a
            [] e.kind = "time" -> b
            [] e.kind \in {"grant", "cancelled"} -> c
            [] e.kind = "process" -> f
            [] e.kind = "interrupt" -> g
            [] e.kind \in {"preempt", "resume"} -> h
  BY SameCalls DEF Executed
<1>2. e.kind \in Kinds
  BY FirstOf DEF Steady, AgendaOK, EventOK
<1>3. e.kind = "start" => Due(a) /\ a.failed = s.failed
  BY StartEventDue
<1>4. e.kind = "time" => Due(b) /\ b.failed = s.failed
  BY TimeEventDue
<1>5. e.kind \in {"grant", "cancelled"} => Due(c) /\ c.failed = s.failed
  BY GuardEventDue
<1>6. e.kind = "process" =>
        Due(f) /\ (f.failed = s.failed \/ (f.failed = Stale /\ ~Uncalled("join")))
  BY ProcessEventDue DEF Stale
<1>7. e.kind = "interrupt" => Due(g) /\ g.failed = s.failed
  BY InterruptEventDue
<1>8. e.kind \in {"preempt", "resume"} => Due(h) /\ h.failed = s.failed
  BY UncheckedEventDue
<1> HIDE DEF a, b, c, d, e, f, g, h, t
<1>9. \/ e.kind = "start" /\ t = a
      \/ e.kind = "time" /\ t = b
      \/ e.kind \in {"grant", "cancelled"} /\ t = c
      \/ e.kind = "process" /\ t = f
      \/ e.kind = "interrupt" /\ t = g
      \/ e.kind \in {"preempt", "resume"} /\ t = h
  BY <1>1, <1>2 DEF Kinds
<1>. QED BY <1>3, <1>4, <1>5, <1>6, <1>7, <1>8, <1>9 DEF t

-----------------------------------------------------------------------------
(* The calls of the client.                                                *)
LEMMA CallerDue ==
  ASSUME NEW s, Fit(s), Settled(s, {}), Due(s), NEW p \in Process, s.running = p
  PROVE  /\ Steady(s) /\ Fine(s, {}, {}, {p})
         /\ s.status[p] = "running" /\ s.call[p].fn = "none"
         /\ s.untold[p] = {} /\ Undue(s.agenda, p)
         /\ DOMAIN s.timers = Process /\ DOMAIN s.joins = Process
<1>1. /\ Steady(s) /\ Core(s, {}) /\ Fine(s, {}, {}, {p})
      /\ s.status[p] = "running" /\ s.call[p].fn = "none"
  BY CallerFree
<1>2. DOMAIN s.timers = Process /\ DOMAIN s.joins = Process
  BY <1>1 DEF Core, Shaped
<1>3. s.untold[p] = {}
  BY DEF Due, ProcessDue, LossTold
<1>4. Undue(s.agenda, p)
  BY <1>1, IdleUndue
<1>. QED BY <1>1, <1>2, <1>3, <1>4

LEMMA AgendaMoreDue ==
  ASSUME NEW s, Steady(s), Due(s), NEW e, EventDue(s, e), NEW f, Like(e, f),
         NEW t, t.agenda = s.agenda \cup {f},
         e.kind \in {"start", "resume"} =>
           \A g \in s.agenda : g.kind # e.kind \/ g.proc # e.proc,
         t.status = s.status, t.call = s.call, t.running = s.running,
         t.untold = s.untold, t.ticket = s.ticket, t.joins = s.joins,
         t.waiters = s.waiters,
         \A q \in Process : t.timers[q] = s.timers[q] \/ s.untold[q] = {}
  PROVE  Due(t)
<1>1. EventDue(s, f)
  BY LikeDue
<1>2. ASSUME NEW g \in t.agenda PROVE EventDue(t, g)
  <2>1. EventDue(s, g)
    BY <1>1 DEF Due
  <2>. QED BY <2>1 DEF EventDue
<1>3. OnceIn(t.agenda)
  BY DEF Due, OnceIn, Like
<1>4. ASSUME NEW q \in Process PROVE ProcessDue(t, q)
  <2>1. ProcessDue(s, q)
    BY DEF Due
  <2>2. LossTold(t, q)
    BY <2>1 DEF ProcessDue, LossTold
  <2>. QED BY <2>1, <2>2 DEF ProcessDue
<1>. QED BY <1>2, <1>3, <1>4 DEF Due

LEMMA ScheduleDue ==
  ASSUME NEW s, Steady(s), Due(s), NEW kind \in Kinds, NEW q \in Process, NEW sig,
         NEW pri \in Int,
         EventDue(s, [kind |-> kind, proc |-> q, key |-> 0, sig |-> sig, delay |-> 0,
                      prio |-> pri, tag |-> 0]),
         kind \in {"start", "resume"} => \A g \in s.agenda : g.kind # kind \/ g.proc # q
  PROVE  LET t == Schedule(s, kind, q, 0, sig, 0, pri)
         IN  Due(t) /\ t.failed = s.failed
<1> DEFINE e == [kind |-> kind, proc |-> q, key |-> 0, sig |-> sig, delay |-> 0,
                 prio |-> pri, tag |-> 0]
           A == Enter(s.agenda, e)
           t == Schedule(s, kind, q, 0, sig, 0, pri)
<1>1. EventOK(e) /\ e.kind = kind /\ e.proc = q
  BY DEF EventOK, EventFields
<1>2. EventDue(s, e)
  OBVIOUS
<1>3. t = [s EXCEPT !.agenda = A]
  BY DEF Schedule
<1> HIDE DEF e
<1>4. PICK f : A = s.agenda \cup {f} /\ Like(e, f)
  BY <1>1, EnterLike
<1> HIDE DEF A, t
<1>5. /\ t.agenda = A /\ t.status = s.status /\ t.call = s.call /\ t.running = s.running
      /\ t.untold = s.untold /\ t.ticket = s.ticket /\ t.joins = s.joins
      /\ t.waiters = s.waiters /\ t.timers = s.timers /\ t.failed = s.failed
  BY <1>3 DEF Steady, Fields
<1>6. t.agenda = s.agenda \cup {f} /\ \A r \in Process : t.timers[r] = s.timers[r] \/ s.untold[r] = {}
  BY <1>4, <1>5
<1>7. Due(t)
  BY <1>1, <1>2, <1>4, <1>5, <1>6, AgendaMoreDue
<1>. QED BY <1>5, <1>7 DEF t

LEMMA TimerAddIs ==
  ASSUME NEW s, Steady(s), DOMAIN s.timers = Process, NEW p \in Process, NEW delay \in Int,
         NEW sig
  PROVE  LET t == TimerAdd(s, p, delay, sig)
         IN  /\ \E f : /\ t.agenda = s.agenda \cup {f}
                       /\ Like([kind |-> "time", proc |-> p, key |-> FreshKey(s),
                                sig |-> sig, delay |-> delay, prio |-> s.prio[p],
                                tag |-> 0], f)
             /\ t.status = s.status /\ t.call = s.call /\ t.running = s.running
             /\ t.untold = s.untold /\ t.ticket = s.ticket /\ t.joins = s.joins
             /\ t.waiters = s.waiters /\ t.failed = s.failed /\ DOMAIN t = Fields
             /\ \A q \in Process \ {p} : t.timers[q] = s.timers[q]
<1> DEFINE k == FreshKey(s)
           e == [kind |-> "time", proc |-> p, key |-> k, sig |-> sig, delay |-> delay,
                 prio |-> s.prio[p], tag |-> 0]
           A == Enter(s.agenda, e)
           t == TimerAdd(s, p, delay, sig)
<1>1. EventOK(e)
  BY DEF EventOK, EventFields, Kinds, Steady
<1>2. \E f : A = s.agenda \cup {f} /\ Like(e, f)
  <2> HIDE DEF e
  <2>. QED BY <1>1, EnterLike
<1>3. t = [[s EXCEPT !.agenda = A] EXCEPT
             !.timers = [s.timers EXCEPT ![p] = s.timers[p] \cup {k}]]
  BY DEF TimerAdd, Schedule, Steady, Fields
<1> HIDE DEF A, k, t
<1>4. /\ t.agenda = A
      /\ t.status = s.status /\ t.call = s.call /\ t.running = s.running
      /\ t.untold = s.untold /\ t.ticket = s.ticket /\ t.joins = s.joins
      /\ t.waiters = s.waiters /\ t.failed = s.failed /\ DOMAIN t = Fields
      /\ \A q \in Process \ {p} : t.timers[q] = s.timers[q]
  BY <1>3 DEF Steady, Fields
<1>. QED BY <1>2, <1>4 DEF k, t

LEMMA HoldDue ==
  ASSUME Fit(sys), Settled(sys, {}), Due(sys), NEW p \in Process, NEW d \in Duration,
         Hold(p, d)
  PROVE  Due(sys') /\ sys'.failed = sys.failed
<1> DEFINE k == FreshKey(sys)
           sig == "success"
           a == TimerAdd(sys, p, d, sig)
           t == Block(a, p, "hold", NoOne, k)
           e == [kind |-> "time", proc |-> p, key |-> k, sig |-> sig, delay |-> d,
                 prio |-> sys.prio[p], tag |-> 0]
<1>1. sys.running = p /\ d \in Int
  BY ClientPriorities DEF Hold, Calling
<1>2. /\ Steady(sys) /\ Fine(sys, {}, {}, {p})
      /\ sys.status[p] = "running" /\ sys.call[p].fn = "none"
      /\ sys.untold[p] = {} /\ Undue(sys.agenda, p)
      /\ DOMAIN sys.timers = Process /\ DOMAIN sys.joins = Process
  BY <1>1, CallerDue
<1>3. sys' = t
  BY SameCalls DEF Hold
<1>4. e.kind = "time" /\ e.proc = p /\ e.key = k /\ e.sig = "success"
  OBVIOUS
<1> HIDE DEF sig
<1>5. /\ \E f : a.agenda = sys.agenda \cup {f} /\ Like(e, f)
      /\ a.status = sys.status /\ a.call = sys.call /\ a.running = sys.running
      /\ a.untold = sys.untold /\ a.ticket = sys.ticket /\ a.joins = sys.joins
      /\ a.waiters = sys.waiters /\ a.failed = sys.failed /\ DOMAIN a = Fields
      /\ \A q \in Process \ {p} : a.timers[q] = sys.timers[q]
  BY <1>1, <1>2, TimerAddIs
<1> HIDE DEF e, k, a
<1>6. PICK f : a.agenda = sys.agenda \cup {f} /\ Like(e, f)
  BY <1>5
<1> DEFINE c == [fn |-> "hold", on |-> NoOne, key |-> k]
<1>7. t = [a EXCEPT !.call = [a.call EXCEPT ![p] = c], !.running = NoOne]
  BY DEF Block
<1>8. c.fn = "hold" /\ c.key = k
  OBVIOUS
<1> HIDE DEF c, t
<1>9. /\ t.agenda = a.agenda /\ t.status = sys.status /\ t.timers = a.timers
      /\ t.ticket = sys.ticket /\ t.joins = sys.joins /\ t.waiters = sys.waiters
      /\ t.failed = sys.failed /\ t.running = NoOne /\ t.untold = sys.untold
      /\ t.call = [sys.call EXCEPT ![p] = c]
  BY <1>5, <1>7 DEF Fields
<1>10. t.call[p] = c /\ DOMAIN t.untold = Process
  BY <1>2, <1>9 DEF Steady, CallsOK, Due
<1>11. Beside(sys, t, p)
  BY <1>5, <1>9, <1>10 DEF Beside, Looser
<1>12. f.proc = p /\ EventDue(t, f)
  BY <1>4, <1>6, <1>8, <1>10 DEF Like, EventDue
<1>13. ASSUME NEW g \in t.agenda, g.proc = p PROVE EventDue(t, g)
  <2>1. g = f \/ (EventDue(sys, g) /\ g \in sys.agenda)
    <3>1. t.agenda = sys.agenda \cup {f}
      BY <1>6, <1>9
    <3>. QED BY <1>13, <3>1 DEF Due
  <2>2. ASSUME EventDue(sys, g), g \in sys.agenda PROVE EventDue(t, g)
    <3>1. g.kind # "resume" /\ ~(g.kind = "time" /\ g.sig = "success")
      BY <1>2, <1>13, <2>2 DEF Undue
    <3>. QED BY <1>9, <1>13, <2>2, <3>1 DEF EventDue
  <2>. QED BY <1>12, <2>1, <2>2
<1>14. \A g \in t.agenda : g.proc # p => Harmless(g) \/ \E h \in sys.agenda : Like(h, g)
  BY <1>6, <1>9, <1>12 DEF Like
<1>15. OnceIn(t.agenda)
  BY <1>4, <1>6, <1>9 DEF Due, OnceIn, Like
<1>16. LossTold(t, p) /\ t.call[p].fn # "yield"
  BY <1>2, <1>8, <1>9, <1>10 DEF LossTold
<1>17. Due(t)
  BY <1>2, <1>11, <1>13, <1>14, <1>15, <1>16, LocalDue
<1>. QED BY <1>3, <1>9, <1>17

LEMMA SetTimerDue ==
  ASSUME Fit(sys), Settled(sys, {}), Due(sys), NEW p \in Process, NEW d \in Duration,
         SetTimer(p, d)
  PROVE  Due(sys') /\ sys'.failed = sys.failed
<1> DEFINE k == FreshKey(sys)
           sig == "timeout"
           t == TimerAdd(sys, p, d, sig)
           e == [kind |-> "time", proc |-> p, key |-> k, sig |-> sig, delay |-> d,
                 prio |-> sys.prio[p], tag |-> 0]
<1>1. sys.running = p /\ d \in Int /\ "timer" \in Repertoire[p]
  BY ClientPriorities DEF SetTimer, Calling
<1>2. Steady(sys) /\ sys.untold[p] = {} /\ DOMAIN sys.timers = Process
  BY <1>1, CallerDue
<1>3. sys' = t
  BY SameCalls DEF SetTimer
<1>4. EventDue(sys, e) /\ e.kind = "time"
  BY <1>1 DEF EventDue
<1> HIDE DEF sig
<1>5. /\ \E f : t.agenda = sys.agenda \cup {f} /\ Like(e, f)
      /\ t.status = sys.status /\ t.call = sys.call /\ t.running = sys.running
      /\ t.untold = sys.untold /\ t.ticket = sys.ticket /\ t.joins = sys.joins
      /\ t.waiters = sys.waiters /\ t.failed = sys.failed /\ DOMAIN t = Fields
      /\ \A q \in Process \ {p} : t.timers[q] = sys.timers[q]
  BY <1>1, <1>2, TimerAddIs
<1> HIDE DEF e, k, t
<1>6. PICK f : t.agenda = sys.agenda \cup {f} /\ Like(e, f)
  BY <1>5
<1>7. \A q \in Process : t.timers[q] = sys.timers[q] \/ sys.untold[q] = {}
  BY <1>2, <1>5
<1>8. Due(t)
  BY <1>2, <1>4, <1>5, <1>6, <1>7, AgendaMoreDue
<1>. QED BY <1>3, <1>5, <1>8

LEMMA YieldDue ==
  ASSUME Fit(sys), Settled(sys, {}), Due(sys), NEW p \in Process, Yield(p)
  PROVE  Due(sys') /\ sys'.failed = sys.failed
<1>1. sys.running = p /\ "yield" \in Repertoire[p]
  BY DEF Yield, Calling
<1>2. /\ Steady(sys) /\ Fine(sys, {}, {}, {p})
      /\ sys.status[p] = "running" /\ sys.call[p].fn = "none"
      /\ sys.untold[p] = {} /\ Undue(sys.agenda, p)
      /\ DOMAIN sys.timers = Process /\ DOMAIN sys.joins = Process
  BY <1>1, CallerDue
<1> DEFINE fn == "yield"
           t == Block(sys, p, fn, NoOne, 0)
<1>3. sys' = t
  BY SameCalls DEF Yield
<1>4. fn = "yield" => "yield" \in Repertoire[p]
  BY <1>1
<1> HIDE DEF fn
<1>5. Due(t) /\ t.failed = sys.failed
  BY <1>2, <1>4, BlockDue
<1>. QED BY <1>3, <1>5

LEMMA ClearTimersDue ==
  ASSUME Fit(sys), Settled(sys, {}), Due(sys), NEW p \in Process, ClearTimers(p)
  PROVE  Due(sys') /\ sys'.failed = sys.failed
<1> DEFINE t == TimersClear(sys, p)
           out == {p}
<1>1. sys.running = p
  BY DEF ClearTimers, Calling
<1>2. Steady(sys) /\ Fine(sys, {}, {}, out) /\ DOMAIN sys.timers = Process
  BY <1>1, CallerDue
<1>3. sys' = t
  BY SameCalls DEF ClearTimers
<1>4. Fine(t, {}, {}, out \cup {p}) /\ t.failed = sys.failed
  BY <1>2, TimersClearFine
<1>5. Plain(sys, t)
  BY <1>2, TimersClearPlain
<1>. QED BY <1>3, <1>4, <1>5, PlainDue

LEMMA InterruptDue ==
  ASSUME Fit(sys), Settled(sys, {}), Due(sys), NEW p \in Process, NEW q \in Process,
         NEW pri \in Urgency, Interrupt(p, q, pri)
  PROVE  Due(sys') /\ sys'.failed = sys.failed
<1>1. sys' = Schedule(sys, "interrupt", q, 0, "interrupted", 0, pri)
  BY SameCalls DEF Interrupt
<1>2. Steady(sys) /\ ~Uncalled("interrupt") /\ pri \in Int
  BY ClientPriorities DEF Fit, Good, Interrupt, Calling, Uncalled
<1>3. PICK kind, sig : kind = "interrupt" /\ sig = "interrupted"
  OBVIOUS
<1>4. kind \in Kinds /\ kind \notin {"start", "resume"}
  BY <1>3 DEF Kinds
<1>5. EventDue(sys, [kind |-> kind, proc |-> q, key |-> 0, sig |-> sig, delay |-> 0,
                     prio |-> pri, tag |-> 0])
  BY <1>2, <1>3 DEF EventDue
<1>6. /\ Due(Schedule(sys, kind, q, 0, sig, 0, pri))
      /\ Schedule(sys, kind, q, 0, sig, 0, pri).failed = sys.failed
  BY <1>2, <1>4, <1>5, ScheduleDue
<1>. QED BY <1>1, <1>3, <1>6

LEMMA ResumeDue ==
  ASSUME Fit(sys), Settled(sys, {}), Due(sys), NEW p \in Process, NEW q \in Process,
         Resume(p, q)
  PROVE  Due(sys') /\ sys'.failed = sys.failed
<1>1. sys' = Schedule(sys, "resume", q, 0, "success", 0, sys.prio[q])
  BY SameCalls DEF Resume
<1> DEFINE pri == sys.prio[q]
<1>2. Steady(sys) /\ ~Uncalled("resume") /\ pri \in Int
  BY DEF Fit, Good, Steady, Resume, Calling, Uncalled
<1>3. sys.call[q].fn = "yield" /\ \A g \in sys.agenda : g.kind # "resume" \/ g.proc # q
  BY DEF Resume
<1>4. "yield" \in Repertoire[q]
  BY <1>3 DEF Due, ProcessDue
<1>5. PICK kind, sig : kind = "resume" /\ sig = "success"
  OBVIOUS
<1>6. kind \in Kinds
  BY <1>5 DEF Kinds
<1> HIDE DEF pri
<1>7. EventDue(sys, [kind |-> kind, proc |-> q, key |-> 0, sig |-> sig, delay |-> 0,
                     prio |-> pri, tag |-> 0])
  BY <1>2, <1>3, <1>4, <1>5 DEF EventDue
<1>8. kind \in {"start", "resume"} => \A g \in sys.agenda : g.kind # kind \/ g.proc # q
  BY <1>3, <1>5
<1>9. /\ Due(Schedule(sys, kind, q, 0, sig, 0, pri))
      /\ Schedule(sys, kind, q, 0, sig, 0, pri).failed = sys.failed
  BY <1>2, <1>6, <1>7, <1>8, ScheduleDue
<1>. QED BY <1>1, <1>5, <1>9 DEF pri

LEMMA StartDue ==
  ASSUME Fit(sys), Settled(sys, {}), Due(sys), NEW p \in Process, NEW q \in Process,
         Start(p, q)
  PROVE  Due(sys') /\ sys'.failed = sys.failed
<1>1. sys' = Schedule(sys, "start", q, 0, "success", 0, sys.prio[q])
  BY SameCalls DEF Start
<1> DEFINE pri == sys.prio[q]
<1>2. Steady(sys) /\ pri \in Int
  BY DEF Fit, Good, Steady
<1>3. /\ sys.status[q] = "finished"
      /\ \A g \in sys.agenda : g.kind # "start" \/ g.proc # q
  BY DEF Start
<1>4. PICK kind, sig : kind = "start" /\ sig = "success"
  OBVIOUS
<1>5. kind \in Kinds
  BY <1>4 DEF Kinds
<1> HIDE DEF pri
<1>6. EventDue(sys, [kind |-> kind, proc |-> q, key |-> 0, sig |-> sig, delay |-> 0,
                     prio |-> pri, tag |-> 0])
  BY <1>3, <1>4 DEF EventDue
<1>7. kind \in {"start", "resume"} => \A g \in sys.agenda : g.kind # kind \/ g.proc # q
  BY <1>3, <1>4
<1>8. /\ Due(Schedule(sys, kind, q, 0, sig, 0, pri))
      /\ Schedule(sys, kind, q, 0, sig, 0, pri).failed = sys.failed
  BY <1>2, <1>5, <1>6, <1>7, ScheduleDue
<1>. QED BY <1>1, <1>4, <1>8 DEF pri

LEMMA JoinDue ==
  ASSUME Fit(sys), Settled(sys, {}), Due(sys), NEW p \in Process, NEW q \in Process,
         Join(p, q)
  PROVE  Due(sys') /\ sys'.failed = sys.failed
<1> DEFINE t == WaitProcess(sys, p, q)
<1>1. sys.running = p /\ ~Uncalled("join")
  BY DEF Join, Calling, Uncalled
<1>2. /\ Steady(sys) /\ Fine(sys, {}, {}, {p})
      /\ sys.status[p] = "running" /\ sys.call[p].fn = "none"
      /\ sys.untold[p] = {} /\ Undue(sys.agenda, p)
      /\ DOMAIN sys.timers = Process /\ DOMAIN sys.joins = Process
  BY <1>1, CallerDue
<1>3. sys' = t
  BY SameCalls DEF Join
<1>4. Due(t) /\ t.failed = sys.failed
  BY <1>1, <1>2, WaitProcessDue
<1>. QED BY <1>3, <1>4

LEMMA CancelDue ==
  ASSUME Fit(sys), Settled(sys, {}), Due(sys), NEW p \in Process, NEW q \in Process,
         NEW g \in Resource, Cancel(p, q, g)
  PROVE  Due(sys') /\ sys'.failed = sys.failed
<1> DEFINE t == GuardCancel(sys, q, g)
           out == {sys.running}
<1>1. Steady(sys) /\ Fine(sys, {}, {}, out)
  BY DEF Fit, Good, Settled
<1>2. sys' = t
  BY SameCalls DEF Cancel
<1> HIDE DEF out
<1>3. Fine(t, {}, {}, out) /\ t.failed = sys.failed
  BY <1>1, GuardCancelFine
<1>4. Plain(sys, t)
  BY <1>1, GuardCancelPlain
<1> HIDE DEF t
<1>. QED BY <1>2, <1>3, <1>4, PlainDue

LEMMA SetPriorityDue ==
  ASSUME Fit(sys), Settled(sys, {}), Due(sys), NEW p \in Process, NEW q \in Process,
         NEW pri \in Ranks[q], SetPriority(p, q, pri)
  PROVE  /\ Due(sys')
         /\ \/ sys'.failed = sys.failed
            \/ sys'.failed = "priority_set" /\ ~Uncalled("priority")
<1> DEFINE t == PrioritySet(sys, q, pri)
<1>1. Steady(sys)
  BY DEF Fit, Good
<1>2. sys' = t /\ ~Uncalled("priority")
  BY SameCalls DEF SetPriority, Reprioritized, Calling, Uncalled
<1>3. Plain(sys, t)
  BY <1>1, PrioritySetPlain
<1>4. t.failed = sys.failed \/ t.failed = "priority_set"
  BY <1>1 DEF PrioritySet, Asserted, Steady, Fields
<1> HIDE DEF t
<1>. QED BY <1>2, <1>3, <1>4, PlainDue

LEMMA LoopDue ==
  ASSUME NEW s, Fit(s), Settled(s, {}), Due(s), NEW p \in Process, s.running = p,
         NEW r \in Resource
  PROVE  LET t == AcquireLoop(s, p, r, s.queue[r] = {})
         IN  Due(t) /\ t.failed = s.failed
<1> DEFINE mayGrab == s.queue[r] = {}
           t == AcquireLoop(s, p, r, mayGrab)
<1>1. /\ Steady(s) /\ Fine(s, {}, {}, {p})
      /\ s.status[p] = "running" /\ s.call[p].fn = "none"
      /\ s.untold[p] = {} /\ Undue(s.agenda, p)
      /\ DOMAIN s.timers = Process /\ DOMAIN s.joins = Process
  BY CallerDue
<1> HIDE DEF mayGrab
<1>2. Due(t) /\ t.failed = s.failed
  BY <1>1, AcquireLoopDue
<1>. QED BY <1>2 DEF mayGrab

LEMMA AcquireDue ==
  ASSUME Fit(sys), Settled(sys, {}), Due(sys), NEW p \in Process, NEW r \in Resource,
         Acquire(p, r)
  PROVE  Due(sys') /\ sys'.failed = sys.failed
<1>1. sys.running = p /\ sys' = AcquireLoop(sys, p, r, sys.queue[r] = {})
  BY DEF Acquire, Calling
<1>. QED BY <1>1, LoopDue

-----------------------------------------------------------------------------
LEMMA VacatedPlain ==
  ASSUME NEW s, Steady(s), NEW q \in Process, NEW r \in Resource
  PROVE  LET a == [s EXCEPT !.held = [s.held EXCEPT ![q] = Unlink(s.held[q], r)]]
             t == Vacated(s, q, r)
         IN  Plain(s, a) /\ Plain(s, t) /\ t.failed = s.failed
<1> DEFINE a == [s EXCEPT !.held = [s.held EXCEPT ![q] = Unlink(s.held[q], r)]]
           t == Vacated(s, q, r)
<1>1. /\ t.agenda = s.agenda /\ t.status = s.status /\ t.timers = s.timers
      /\ t.ticket = s.ticket /\ t.joins = s.joins /\ t.waiters = s.waiters
      /\ t.failed = s.failed /\ t.running = s.running /\ t.untold = s.untold
      /\ t.call = s.call
  BY DEF Vacated, Steady, Fields
<1>2. Plain(s, a)
  BY PlainSet
<1> HIDE DEF a, t
<1>3. Plain(s, t)
  BY <1>1, SameThinner DEF Plain, Looser, Unjoined
<1>. QED BY <1>1, <1>2, <1>3 DEF a, t

LEMMA ReleaseDue ==
  ASSUME Fit(sys), Settled(sys, {}), Due(sys), NEW p \in Process, NEW r \in Resource,
         Release(p, r)
  PROVE  Due(sys') /\ sys'.failed = sys.failed
<1> DEFINE a == [sys EXCEPT !.held = [sys.held EXCEPT ![p] = Unlink(sys.held[p], r)]]
           b == Vacated(sys, p, r)
           t == Signal(b, r)
           open == {r}
           out == {p}
<1>1. sys.running = p /\ Believes(p, r)
  BY DEF Release, Calling
<1>2. /\ Steady(sys) /\ Fine(sys, {}, {}, {p})
      /\ sys.status[p] = "running" /\ sys.call[p].fn = "none"
      /\ sys.untold[p] = {} /\ Undue(sys.agenda, p)
      /\ DOMAIN sys.timers = Process /\ DOMAIN sys.joins = Process
  BY <1>1, CallerDue
<1>3. sys.holder[r] = p
  BY <1>1, <1>2 DEF Believes
<1>4. sys' = t
  BY <1>3 DEF Release, Vacated
<1>5. /\ Steady(a) /\ Unseen(sys, a) /\ a.holder = sys.holder /\ a.failed = sys.failed
      /\ a.running = sys.running /\ a.call = sys.call
      /\ Steady(b) /\ Unseen(sys, b) /\ b.failed = sys.failed
      /\ b.holder = [sys.holder EXCEPT ![r] = NoOne]
      /\ b.running = sys.running /\ b.call = sys.call
  BY <1>2, VacatedSteady
<1>6. Plain(sys, a) /\ Plain(sys, b) /\ b.failed = sys.failed
  BY <1>2, VacatedPlain
<1> HIDE DEF a, b
<1>7. Fine(b, {}, {r}, {p})
  BY <1>2, <1>5, VacatedFine DEF Steady
<1>8. Plain(b, t)
  BY <1>5, SignalPlain
<1> HIDE DEF open, out
<1>9. /\ Fine(t, {}, open, out) /\ t.failed = b.failed
      /\ Fine(t, {}, open \ {r}, out)
      /\ t.ticket = b.ticket /\ t.joins = b.joins
      /\ \A q \in Process : Own(b, q).waits = {} => Own(t, q) = Own(b, q)
  BY <1>5, <1>7, SignalFine DEF open, out
<1> HIDE DEF t
<1>10. Due(b)
  BY <1>6, PlainDue
<1>11. Due(t)
  BY <1>8, <1>10, PlainDue
<1>. QED BY <1>4, <1>6, <1>9, <1>11

(* Who loses a resource is not told of anything before the loss.           *)
LEMMA EvictedDue ==
  ASSUME NEW s, Fit(s), Settled(s, {}), Due(s), NEW p \in Process, s.running = p,
         NEW r \in Resource, NEW q \in Process, s.holder[r] = q, q # p,
         ~Uncalled("preempt")
  PROVE  Due(Evicted(s, q, r))
<1> DEFINE lists == [s.held EXCEPT ![q] = Unlink(s.held[q], r)]
           a == [s EXCEPT !.held = lists]
           b == CancelAwaiteds(a, q)
           loss == [b.untold EXCEPT ![q] = b.untold[q] \cup {r}]
           holder == [b.holder EXCEPT ![r] = NoOne]
           e == [kind |-> "preempt", proc |-> q, key |-> 0, sig |-> "preempted",
                 delay |-> 0, prio |-> s.prio[q], tag |-> 0]
           A == Enter(b.agenda, e)
           t == Evicted(s, q, r)
           out == {p}
           none == {}
<1>1. Steady(s) /\ Fine(s, none, none, out) /\ s.status[q] = "running" /\ s.prio[q] \in Int
  BY CallerFree DEF Fit, Good, Owned, Steady
<1>2. /\ Steady(a) /\ Unseen(s, a) /\ a.holder = s.holder
      /\ a.status = s.status /\ a.running = s.running /\ Plain(s, a)
  <2> DEFINE v == Vacated(s, q, r)
             a1 == [s EXCEPT !.held = [s.held EXCEPT ![q] = Unlink(s.held[q], r)]]
  <2>1. /\ Steady(a1) /\ Unseen(s, a1) /\ a1.holder = s.holder /\ a1.failed = s.failed
        /\ a1.running = s.running /\ a1.call = s.call
        /\ Steady(v) /\ Unseen(s, v) /\ v.failed = s.failed
        /\ v.holder = [s.holder EXCEPT ![r] = NoOne]
        /\ v.running = s.running /\ v.call = s.call
    BY <1>1, VacatedSteady
  <2>2. Plain(s, a1) /\ Plain(s, v) /\ v.failed = s.failed
    BY <1>1, VacatedPlain
  <2>3. a = a1
    OBVIOUS
  <2> HIDE DEF v, a, a1
  <2>. QED BY <2>1, <2>2, <2>3 DEF Plain
<1>3. t = [b EXCEPT !.holder = holder, !.untold = loss, !.agenda = A]
  BY DEF Evicted, Schedule
<1>4. EventOK(e) /\ e.kind = "preempt" /\ e.sig = "preempted" /\ e.proc = q
  BY <1>1 DEF EventOK, EventFields, Kinds
<1> HIDE DEF a, lists, out, none, e
<1>5. Fine(a, none, none, out)
  BY <1>1, <1>2, UnseenFine
<1>6. /\ Fine(b, none, none, out \cup {q}) /\ b.failed = a.failed
      /\ Bare(Own(b, q))
  BY <1>2, <1>5, CancelAwaitedsFine
<1>7. Calm(a, b)
  BY <1>2, CancelAwaitedsCalm
<1>8. Plain(a, b)
  <2>1. DOMAIN a.timers = Process /\ DOMAIN a.joins = Process
    BY <1>5 DEF Fine, Core, Shaped
  <2>. QED BY <1>2, <2>1, CancelAwaitedsPlain
<1> HIDE DEF b
<1>9. Steady(b) /\ Due(b) /\ b.status = s.status /\ b.running = p
  <2>1. Due(a)
    BY <1>2, PlainDue
  <2>. QED BY <1>2, <1>7, <1>8, <2>1, PlainDue DEF Calm, Still, Owners
<1>10. b.timers[q] = {} /\ b.ticket[q] = NoTicket /\ b.joins[q] = NoOne
  BY <1>6, OwnIs DEF Bare
<1>11. PICK f : A = b.agenda \cup {f} /\ Like(e, f)
  BY <1>4, EnterLike
<1> HIDE DEF A, loss, holder, t
<1>12. /\ t.agenda = b.agenda \cup {f} /\ t.untold = loss /\ t.status = b.status
       /\ t.call = b.call /\ t.running = b.running /\ t.timers = b.timers
       /\ t.ticket = b.ticket /\ t.joins = b.joins /\ t.waiters = b.waiters
  BY <1>3, <1>9, <1>11 DEF Steady, Fields
<1>13. /\ DOMAIN loss = Process
       /\ \A z \in Process \ {q} : loss[z] = b.untold[z]
  BY <1>9 DEF loss, Due
<1>14. Beside(b, t, q)
  BY <1>12, <1>13 DEF Beside, Looser
<1>15. f.proc = q /\ f.kind = "preempt" /\ f.sig = "preempted"
  BY <1>4, <1>11 DEF Like
<1>16. EventDue(t, f)
  BY <1>15 DEF EventDue
<1>17. ASSUME NEW g \in b.agenda PROVE EventDue(t, g)
  <2>1. EventDue(b, g)
    BY <1>9 DEF Due
  <2>. QED BY <1>12, <2>1 DEF EventDue
<1>18. \A g \in t.agenda : g.proc # q => Harmless(g) \/ \E h \in b.agenda : Like(h, g)
  BY <1>12, <1>15 DEF Like
<1>19. OnceIn(t.agenda)
  BY <1>9, <1>12, <1>15 DEF Due, OnceIn
<1>20. LossTold(t, q)
  BY <1>1, <1>9, <1>10, <1>12 DEF LossTold
<1>21. t.call[q].fn = "yield" => "yield" \in Repertoire[q]
  BY <1>9, <1>12 DEF Due, ProcessDue
<1>22. \A g \in t.agenda : g.proc = q => EventDue(t, g)
  BY <1>12, <1>16, <1>17
<1>23. Due(t)
  BY <1>9, <1>14, <1>18, <1>19, <1>20, <1>21, <1>22, LocalDue
<1>. QED BY <1>23 DEF t

LEMMA PreemptDue ==
  ASSUME Fit(sys), Settled(sys, {}), Due(sys), NEW p \in Process, NEW r \in Resource,
         Preempt(p, r)
  PROVE  Due(sys') /\ sys'.failed = sys.failed
<1> DEFINE q == sys.holder[r]
<1>1. sys.running = p /\ ~Uncalled("preempt") /\ q # p
  BY DEF Preempt, Calling, Uncalled, Believes
<1>2. Steady(sys) /\ q \in Process \cup {NoOne}
  BY DEF Fit, Good, Steady
<1>3. CASE q = NoOne
  <2> DEFINE t == Grab(sys, p, r)
  <2>1. sys' = t
    BY <1>3 DEF Preempt
  <2>2. Plain(sys, t) /\ t.agenda = sys.agenda /\ t.failed = sys.failed
    BY <1>2, GrabPlain
  <2> HIDE DEF t
  <2>. QED BY <2>1, <2>2, PlainDue
<1>4. CASE q # NoOne /\ sys.prio[p] > sys.prio[q]
  <2> DEFINE t == Evicted(sys, q, r)
             u == Grab(t, p, r)
  <2>1. sys' = u
    BY <1>4 DEF Preempt
  <2>2. q \in Process
    BY <1>2, <1>4
  <2>3. /\ Fine(t, {}, {r}, {p}) /\ Steady(t)
        /\ t.running = p /\ t.call = sys.call /\ t.failed = sys.failed
    BY <1>1, <2>2, EvictedFine
  <2>4. Due(t)
    BY <1>1, <2>2, EvictedDue
  <2> HIDE DEF t
  <2>5. Plain(t, u) /\ u.agenda = t.agenda /\ u.failed = t.failed
    BY <2>3, GrabPlain
  <2> HIDE DEF u
  <2>. QED BY <2>1, <2>3, <2>4, <2>5, PlainDue
<1>5. CASE q # NoOne /\ ~(sys.prio[p] > sys.prio[q])
  <2>1. sys' = AcquireLoop(sys, p, r, sys.queue[r] = {})
    BY <1>5 DEF Preempt
  <2>. QED BY <1>1, <2>1, LoopDue
<1>. QED BY <1>3, <1>4, <1>5

-----------------------------------------------------------------------------
(* A process ends.                                                         *)
LEMMA FinishedIs ==
  ASSUME NEW s, Steady(s), DOMAIN s.untold = Process, NEW p \in Process
  PROVE  LET t == Finished(s, p)
         IN  /\ t.agenda = s.agenda /\ t.running = s.running /\ t.timers = s.timers
             /\ t.ticket = s.ticket /\ t.joins = s.joins /\ t.waiters = s.waiters
             /\ t.failed = s.failed
             /\ t.untold = [s.untold EXCEPT ![p] = {}]
<1> DEFINE t == Finished(s, p)
           x == [s.status EXCEPT ![p] = "finished"]
           y == [s.call EXCEPT ![p] = Idle]
           z == [s.untold EXCEPT ![p] = {}]
<1>1. t = [s EXCEPT !.status = x, !.call = y, !.untold = z]
  BY DEF Finished
<1> HIDE DEF x, y, z, t
<1>2. /\ t.agenda = s.agenda /\ t.running = s.running /\ t.timers = s.timers
      /\ t.ticket = s.ticket /\ t.joins = s.joins /\ t.waiters = s.waiters
      /\ t.failed = s.failed /\ t.untold = z
  BY <1>1 DEF Steady, Fields
<1>. QED BY <1>2 DEF t, z

LEMMA StopDue ==
  ASSUME Fit(sys), Settled(sys, {}), Due(sys), NEW p \in Process, NEW q \in Process,
         Stop(p, q)
  PROVE  Due(sys') /\ sys'.failed = sys.failed
<1> DEFINE none == {}
           dying == none \cup {q}
           out == {p}
           both == out \cup {q}
           a == Finished(sys, q)
           b == CancelAwaiteds(a, q)
           c == Dropped(b, q)
           d == WakeWaiters(c, q, "stopped")
<1>1. sys' = d /\ p # q /\ sys.running = p
  BY SameCalls DEF Stop, Calling
<1>2. /\ Steady(sys) /\ Owned(sys, {}) /\ Fine(sys, none, none, out)
      /\ DOMAIN sys.timers = Process /\ DOMAIN sys.joins = Process
      /\ DOMAIN sys.untold = Process
  BY <1>1, CallerDue DEF Fit, Good, Due
<1> HIDE DEF none, out
<1>3. /\ Fine(a, dying, none, out \ {q})
      /\ a.status[q] = "finished" /\ a.call[q].fn = "none"
      /\ \A r \in Process \ {q} : a.status[r] = sys.status[r] /\ a.call[r] = sys.call[r]
      /\ \A r \in Process : Own(a, r).lists = Own(sys, r).lists
      /\ Bare(Own(sys, q)) => Bare(Own(a, q))
  BY <1>2, FinishedFine
<1>4. Steady(a) /\ a.holder = sys.holder /\ a.held = sys.held /\ a.running = sys.running
  BY <1>2, FinishedSteady
<1>5. /\ a.agenda = sys.agenda /\ a.running = sys.running /\ a.timers = sys.timers
      /\ a.ticket = sys.ticket /\ a.joins = sys.joins /\ a.waiters = sys.waiters
      /\ a.failed = sys.failed
      /\ a.untold = [sys.untold EXCEPT ![q] = {}]
  BY <1>2, FinishedIs
<1>6. Fine(a, dying, none, out)
  BY <1>3, FineMore
<1>7. Owned(a, {q})
  BY <1>2, <1>3, <1>4 DEF Owned
<1> HIDE DEF a, dying
<1>8. /\ Fine(b, dying, none, both) /\ b.failed = a.failed
      /\ Bare(Own(b, q))
  BY <1>4, <1>6, CancelAwaitedsFine
<1>9. Calm(a, b)
  BY <1>4, CancelAwaitedsCalm
<1>10. Plain(a, b)
  BY <1>2, <1>4, <1>5, CancelAwaitedsPlain
<1> HIDE DEF b, both
<1>11. Steady(b) /\ Owned(b, {q}) /\ b.status = a.status
  BY <1>7, <1>9 DEF Calm, Still, Owners, Owned
<1>12. Beside(sys, b, q)
  BY <1>2, <1>3, <1>5, <1>10 DEF Beside, Plain, Looser, Unjoined
<1>13. Turn(sys, b, q)
  <2>1. Undue(b.agenda, q)
    BY <1>8, BareUndue
  <2>2. b.untold[q] = {} /\ b.call[q].fn = "none" /\ b.status[q] = "finished"
    BY <1>2, <1>3, <1>5, <1>10 DEF Plain
  <2>. QED BY <1>5, <1>10, <1>12, <2>1, <2>2 DEF Turn, Plain
<1>14. Due(b)
  BY <1>2, <1>13, TurnDue
<1>15. Freed(b, q, c)
  BY <1>11, DroppedFreed
<1>16. Plain(b, c) /\ c.failed = b.failed
  BY <1>11, DroppedPlain
<1>17. Steady(c)
  BY <1>15 DEF Freed
<1>18. Fine(c, dying, none, both)
  <2>1. Fine(b, dying, {}, both)
    BY <1>8 DEF none
  <2>2. /\ Fine(c, dying, {}, both)
        /\ \A r \in Process : Own(b, r).waits = {} => Own(c, r) = Own(b, r)
    BY <1>11, <2>1, DroppedFine
  <2>. QED BY <2>2 DEF none
<1> HIDE DEF c
<1>19. Due(c)
  BY <1>14, <1>16, PlainDue
<1> DEFINE sig == "stopped"
           e == WakeWaiters(c, q, sig)
<1>20. sig # "cancelled" /\ d = e
  OBVIOUS
<1> HIDE DEF sig, d
<1>21. /\ Fine(e, dying, none, both) /\ e.failed = c.failed
       /\ \A r \in Process : q \notin Own(e, r).lists
       /\ Bare(Own(c, q)) => Bare(Own(e, q))
  BY <1>17, <1>18, <1>20, WakeWaitersFine
<1>22. Plain(c, e)
  <2>1. c.waiters[q] # <<>> => ~Uncalled("join")
    BY <1>19 DEF Due, ProcessDue
  <2>. QED BY <1>17, <2>1, WakeWaitersPlain
<1> HIDE DEF e
<1>23. Due(e)
  BY <1>19, <1>22, PlainDue
<1>. QED BY <1>1, <1>5, <1>8, <1>16, <1>20, <1>21, <1>23

LEMMA ExitDue ==
  ASSUME Fit(sys), Settled(sys, {}), Due(sys), NEW p \in Process, Exit(p)
  PROVE  Due(sys') /\ sys'.failed = sys.failed
<1> DEFINE none == {}
           out == {p}
           both == out \cup {p}
           sig == "success"
           a == Dropped(sys, p)
           b == CancelAwaiteds(a, p)
           c == WakeWaiters(b, p, sig)
           d == Finished(c, p)
           e == [d EXCEPT !.running = NoOne]
<1>1. sys' = e /\ sys.running = p
  BY SameCalls DEF Exit, Calling
<1>2. Steady(sys) /\ Owned(sys, {}) /\ Fine(sys, {}, {}, out)
  BY <1>1, CallerFree DEF Fit, Good
<1>3. sig # "cancelled"
  OBVIOUS
<1> HIDE DEF out, sig, e
<1>4. /\ Fine(a, {}, {}, out)
      /\ \A q \in Process : Own(sys, q).waits = {} => Own(a, q) = Own(sys, q)
  BY <1>2, DroppedFine
<1>5. Freed(sys, p, a)
  BY <1>2, DroppedFreed
<1>6. Plain(sys, a) /\ a.failed = sys.failed
  BY <1>2, DroppedPlain
<1>7. Steady(a) /\ Fine(a, none, none, out)
  BY <1>4, <1>5 DEF Freed
<1> HIDE DEF a, none
<1>8. DOMAIN a.timers = Process /\ DOMAIN a.joins = Process
  BY <1>7 DEF Fine, Core, Shaped
<1>9. /\ Fine(b, none, none, both) /\ b.failed = a.failed
      /\ Bare(Own(b, p))
  BY <1>7, CancelAwaitedsFine
<1>10. Steady(b)
  BY <1>7, CancelAwaitedsCalm DEF Calm
<1>11. Plain(a, b)
  BY <1>7, <1>8, CancelAwaitedsPlain
<1>12. Due(b)
  <2>1. Due(a)
    BY <1>6, PlainDue
  <2> HIDE DEF b
  <2>. QED BY <1>11, <2>1, PlainDue
<1> HIDE DEF b, both
<1>13. /\ Fine(c, none, none, both) /\ c.failed = b.failed
       /\ \A q \in Process : p \notin Own(c, q).lists
       /\ Bare(Own(b, p)) => Bare(Own(c, p))
  BY <1>3, <1>9, <1>10, WakeWaitersFine
<1>14. Steady(c)
  BY <1>10, WakeWaitersCalm DEF Calm
<1>15. Plain(b, c)
  <2>1. b.waiters[p] # <<>> => ~Uncalled("join")
    BY <1>12 DEF Due, ProcessDue
  <2>. QED BY <1>10, <2>1, WakeWaitersPlain
<1> HIDE DEF c
<1>16. Due(c) /\ Undue(c.agenda, p)
  BY <1>9, <1>12, <1>13, <1>15, PlainDue, BareUndue
<1>17. /\ Fine(d, none \cup {p}, none, both \ {p})
       /\ d.status[p] = "finished" /\ d.call[p].fn = "none"
       /\ \A q \in Process \ {p} : d.status[q] = c.status[q] /\ d.call[q] = c.call[q]
       /\ \A q \in Process : Own(d, q).lists = Own(c, q).lists
       /\ Bare(Own(c, p)) => Bare(Own(d, p))
  BY <1>13, <1>14, FinishedFine
<1>18. Steady(d)
  BY <1>14, FinishedSteady
<1>19. DOMAIN c.untold = Process
  BY <1>16 DEF Due
<1>20. /\ d.agenda = c.agenda /\ d.running = c.running /\ d.timers = c.timers
       /\ d.ticket = c.ticket /\ d.joins = c.joins /\ d.waiters = c.waiters
       /\ d.failed = c.failed
       /\ d.untold = [c.untold EXCEPT ![p] = {}]
  BY <1>14, <1>19, FinishedIs
<1> HIDE DEF d
<1>21. /\ e.agenda = d.agenda /\ e.running = NoOne /\ e.timers = d.timers
       /\ e.ticket = d.ticket /\ e.joins = d.joins /\ e.waiters = d.waiters
       /\ e.failed = d.failed /\ e.untold = d.untold /\ e.status = d.status
       /\ e.call = d.call
  BY <1>18 DEF e, Steady, Fields
<1>22. Beside(c, e, p)
  BY <1>17, <1>19, <1>20, <1>21 DEF Beside, Looser
<1>23. Turn(c, e, p)
  BY <1>16, <1>17, <1>19, <1>20, <1>21, <1>22, SameThinner DEF Turn
<1>24. Due(e)
  BY <1>14, <1>16, <1>23, TurnDue
<1>. QED BY <1>1, <1>6, <1>9, <1>13, <1>20, <1>21, <1>24

-----------------------------------------------------------------------------
(* The two assertions that may fail, and the calls without which they do   *)
(* not.                                                                    *)
Tolerable(s) ==
  \/ s.failed = "none"
  \/ s.failed = "priority_set" /\ ~Uncalled("priority")
  \/ s.failed = Stale /\ ~Uncalled("join")

LEMMA ClientDue ==
  ASSUME Fit(sys), Settled(sys, {}), Due(sys), NEW p \in Process, Client(p)
  PROVE  Due(sys') /\ Tolerable(sys')
<1>0. sys.failed = "none"
  BY Running
<1>1. ASSUME \/ \E r \in Resource : Acquire(p, r) \/ Preempt(p, r) \/ Release(p, r)
             \/ \E d \in Duration : Hold(p, d) \/ SetTimer(p, d)
             \/ Yield(p) \/ ClearTimers(p) \/ Exit(p)
             \/ \E q \in Process, pri \in Urgency : Interrupt(p, q, pri)
             \/ \E q \in Process : Resume(p, q) \/ Stop(p, q) \/ Start(p, q) \/ Join(p, q)
             \/ \E q \in Process, g \in Resource : Cancel(p, q, g)
      PROVE  Due(sys') /\ sys'.failed = sys.failed
  <2>1. CASE \E r \in Resource : Acquire(p, r) \/ Preempt(p, r) \/ Release(p, r)
    BY <2>1, AcquireDue, PreemptDue, ReleaseDue
  <2>2. CASE \E d \in Duration : Hold(p, d) \/ SetTimer(p, d)
    BY <2>2, HoldDue, SetTimerDue
  <2>3. CASE Yield(p) \/ ClearTimers(p) \/ Exit(p)
    BY <2>3, YieldDue, ClearTimersDue, ExitDue
  <2>4. CASE \E q \in Process, pri \in Urgency : Interrupt(p, q, pri)
    BY <2>4, InterruptDue
  <2>5. CASE \E q \in Process : Resume(p, q) \/ Stop(p, q) \/ Start(p, q) \/ Join(p, q)
    BY <2>5, ResumeDue, StopDue, StartDue, JoinDue
  <2>6. CASE \E q \in Process, g \in Resource : Cancel(p, q, g)
    BY <2>6, CancelDue
  <2>. QED BY <1>1, <2>1, <2>2, <2>3, <2>4, <2>5, <2>6
<1>2. ASSUME \E q \in Process : \E pri \in Ranks[q] : SetPriority(p, q, pri)
      PROVE  Due(sys') /\ Tolerable(sys')
  BY <1>0, <1>2, SetPriorityDue DEF Tolerable
<1>. QED BY <1>0, <1>1, <1>2 DEF Client, ProcessCall, Tolerable

LEMMA InitDue == Init => Due(sys)
<1> SUFFICES ASSUME Init PROVE Due(sys)
  OBVIOUS
<1>1. PICK order \in [Process -> 1..Cardinality(Process)] :
        sys =
          [agenda  |-> {[kind |-> "start", proc |-> p, key |-> 0,
                         sig |-> "success", delay |-> 0, prio |-> InitPrio[p],
                         tag |-> order[p]] : p \in Process},
           running |-> NoOne,
           status  |-> [p \in Process |-> "initialized"],
           prio    |-> InitPrio,
           call    |-> [p \in Process |-> Idle],
           timers  |-> [p \in Process |-> {}],
           ticket  |-> [p \in Process |-> NoTicket],
           joins   |-> [p \in Process |-> NoOne],
           waiters |-> [p \in Process |-> <<>>],
           queue   |-> [r \in Resource |-> {}],
           observers |-> [r \in Resource |-> <<>>],
           untold  |-> [p \in Process |-> {}],
           failed  |-> "none",
           holder  |-> [r \in Resource |-> NoOne],
           held    |-> [p \in Process |-> <<>>]]
  BY DEF Init
<1> DEFINE E(p) == [kind |-> "start", proc |-> p, key |-> 0, sig |-> "success",
                    delay |-> 0, prio |-> InitPrio[p], tag |-> order[p]]
           A == {E(p) : p \in Process}
<1>2. \A p : E(p).kind = "start" /\ E(p).proc = p
  OBVIOUS
<1> HIDE DEF E
<1>3. /\ \A e \in A : e.kind = "start" /\ e.proc \in Process
      /\ \A e, f \in A : e.proc = f.proc => e = f
  BY <1>2
<1>4. /\ sys.agenda = A
      /\ sys.status = [p \in Process |-> "initialized"]
      /\ sys.call = [p \in Process |-> Idle]
      /\ sys.waiters = [p \in Process |-> <<>>]
      /\ sys.untold = [p \in Process |-> {}]
  BY <1>1 DEF E
<1>5. Idle.fn = "none"
  BY DEF Idle
<1>6. \A p \in Process : ProcessDue(sys, p)
  BY <1>5, <1>4 DEF ProcessDue, LossTold
<1>7. \A e \in sys.agenda : EventDue(sys, e)
  <2> HIDE DEF A
  <2>. QED BY <1>3, <1>4 DEF EventDue
<1>8. OnceIn(sys.agenda)
  <2> HIDE DEF A
  <2>. QED BY <1>3, <1>4 DEF OnceIn
<1>. QED BY <1>6, <1>7, <1>8, <1>4 DEF Due

(* The inductive invariant.                                                *)
SysDue == SysSettled /\ Due(sys) /\ Tolerable(sys)

LEMMA TolerableOther == Tolerable(sys) => NoOtherAbort
  BY DEF Tolerable, NoOtherAbort, Stale

LEMMA NextDue ==
  ASSUME MildPrograms PROVE SysDue /\ [Next]_sys => SysDue'
<1> SUFFICES ASSUME SysDue, [Next]_sys PROVE SysDue'
  OBVIOUS
<1>1. SysSettled' /\ Fit(sys) /\ Settled(sys, {})
  BY NextSettled, TolerableOther DEF SysDue, SysSettled
<1>2. Due(sys') /\ Tolerable(sys')
  <2>1. CASE Dispatch
    <3>1. /\ sys' = Executed(sys) /\ sys.agenda # {} /\ sys.running = NoOne
          /\ sys.failed = "none"
      BY <2>1 DEF Dispatch, Dispatching
    <3>2. Steady(sys) /\ Due(sys)
      BY <1>1 DEF Fit, Good, SysDue
    <3> DEFINE t == Executed(sys)
    <3>3. Due(t) /\ (t.failed = sys.failed \/ (t.failed = Stale /\ ~Uncalled("join")))
      BY <1>1, <3>1, <3>2, ExecutedDue
    <3> HIDE DEF t
    <3>4. sys' = t
      BY <3>1 DEF t
    <3>. QED BY <3>1, <3>3, <3>4 DEF Tolerable
  <2>2. CASE \E p \in Process : Client(p)
    BY <1>1, <2>2, ClientDue DEF SysDue
  <2>3. CASE UNCHANGED sys
    BY <2>3 DEF SysDue, Tolerable
  <2>. QED BY <2>1, <2>2, <2>3 DEF Next
<1>3. Due(sys)' /\ Tolerable(sys)'
  BY <1>2 DEF Due, Tolerable, EventDue, ProcessDue, LossTold
<1>. QED BY <1>1, <1>3 DEF SysDue

LEMMA SpecDue == ASSUME MildPrograms PROVE Spec => []SysDue
<1>1. Init => SysDue
  <2>1. Init => SysSettled
    BY InitFit, InitSettled DEF SysSettled
  <2>2. Init => sys.failed = "none"
    BY DEF Init
  <2>. QED BY <2>1, <2>2, InitDue DEF SysDue, Tolerable
<1>2. SysDue /\ [Next]_sys => SysDue'
  BY NextDue
<1>. QED BY <1>1, <1>2, PTL DEF Spec

(* In mild programs no assertion fails but the two of NoOtherAbort,        *)
(* however many processes and resources there are: no process is started   *)
(* while it is alive (cmi_coroutine_start), a timer that is to be cleared  *)
(* is scheduled (cmb_process_timers_clear), whoever is granted a resource  *)
(* waits for it (cmb_resourceguard_signal) and is out of the queue when it *)
(* is resumed (cmb_resourceguard_wait), what a process drops it holds      *)
(* (resource_drop_holder), and who releases a resource has it              *)
(* (cmb_resource_release).                                                 *)
THEOREM NoOtherAbortCorrect == ASSUME MildPrograms PROVE Spec => []NoOtherAbort
<1>1. SysDue => NoOtherAbort
  BY TolerableOther DEF SysDue
<1>. QED BY <1>1, SpecDue, PTL

(* If moreover nobody changes a priority or joins another process, no      *)
(* assertion fails at all: these two calls are what it takes.              *)
THEOREM NoAbortCorrect ==
  ASSUME MildPrograms, Uncalled("priority"), Uncalled("join")
  PROVE  Spec => []NoAbort
<1>1. SysDue => NoAbort
  BY DEF SysDue, Tolerable, NoAbort
<1>. QED BY <1>1, SpecDue, PTL

(* In mild programs a process that runs has been told of every resource    *)
(* that was taken from it by a preemption, whatever it was blocked in and  *)
(* whatever else was on its way to it (cmb_resource_preempt).              *)
THEOREM BeliefSoundCorrect == ASSUME MildPrograms PROVE Spec => []BeliefSound
<1>1. SysDue => BeliefSound
  BY DEF SysDue, Due, ProcessDue, LossTold, BeliefSound
<1>. QED BY <1>1, SpecDue, PTL

(* What module ResourceProofs shows under the condition that only the      *)
(* two assertions have failed needs none in mild programs: the records of  *)
(* the waits agree, nobody waits in vain for a free resource, no blocked   *)
(* process is lost, and one that has finished waits nowhere and has no     *)
(* timer, preemption or resumption to come.                                *)
THEOREM WaitsCorrect ==
  ASSUME MildPrograms
  PROVE  Spec => [](AwaitablesFaithful /\ NoStrandedWaiter /\ NoLostProcess /\ FinishedIsGone)
<1>1. SysDue => NoOtherAbort
  BY TolerableOther DEF SysDue
<1>. QED BY <1>1, SpecDue, AwaitablesFaithfulCorrect, NoStrandedWaiterCorrect,
            NoLostProcessCorrect, FinishedIsGoneCorrect, PTL

=============================================================================
