---------------------------- MODULE TrialsProofs ----------------------------
(***************************************************************************)
(* Proofs about Trials, whatever the number of callers, workers, trials    *)
(* and objects: first that cimba_run deals out each trial once and counts  *)
(* the abandoned ones; then that the registry of a thread accounts for     *)
(* every object that its trial has made, in an order in which they can be  *)
(* torn down, so that trials end without failed assertions but for those   *)
(* that Trials names, and leave their thread as they found it.             *)
(***************************************************************************)
EXTENDS Trials, FiniteSetTheorems, SequenceTheorems, WellFoundedInduction, TLAPS

-----------------------------------------------------------------------------
(* The inductive invariant.                                                *)

Calls == {"before", "locked", "creating", "joined", "unlocked", "returned"}
Places == {"none", "loop", "trial", "count", "after", "exit", "done"}
Idle == {"none", "done"}

SharedType ==
    /\ mutex \in Caller \cup {None}
    /\ call \in [Caller -> Calls]
    /\ created \subseteq Worker
    /\ next \in Nat /\ failed \in Nat
    /\ at \in [Worker -> Places]
    /\ trial \in [Worker -> -1 .. Total - 1]
    /\ cast \subseteq Object
    /\ taken \in [0 .. Total - 1 -> Nat]
    /\ gaveUp \in [Caller -> Nat]
    /\ aborted \in BOOLEAN

\* The mutex is had from its lock to its unlock, and workers are at work only
\* for a caller who waits for them.
MutexKept ==
    \A c \in Caller : mutex = c <=> call[c] \in {"locked", "creating", "joined"}
WorkersLed ==
    \A w \in Worker : at[w] \notin Idle =>
        mutex \in Caller /\ call[mutex] = "creating" /\ w \in created

\* The counter tells which trials have been taken; a worker leaves its loop
\* only when it has passed the last.
CounterTells == \A i \in 0 .. Total - 1 : taken[i] = IF i < next THEN 1 ELSE 0
AllTaken ==
    \A c \in Caller :
        /\ call[c] = "joined" => next >= Total
        /\ call[c] = "creating" =>
               \A w \in created : at[w] \in {"exit", "done"} => next >= Total

\* An abandoned trial is counted, or its worker is about to count it.
Counting == {w \in Worker : at[w] = "count"}
FailuresCounted ==
    \A c \in Caller :
        /\ call[c] \in {"before", "locked"} => gaveUp[c] = 0
        /\ call[c] = "creating" => gaveUp[c] = failed + Cardinality(Counting)
        /\ call[c] = "joined" => gaveUp[c] = failed

SharedInv ==
    SharedType /\ MutexKept /\ WorkersLed /\ CounterTells /\ AllTaken /\ FailuresCounted

-----------------------------------------------------------------------------
LEMMA InitShared == Init => SharedInv
<1> SUFFICES ASSUME Init PROVE SharedInv
  OBVIOUS
<1> USE TrialsAssumption
<1>1. SharedType
  <2>1. trial \in [Worker -> -1 .. Total - 1] /\ taken \in [0 .. Total - 1 -> Nat]
    BY DEF Init
  <2>2. cast \subseteq Object /\ gaveUp \in [Caller -> Nat]
    BY DEF Init
  <2>3. call \in [Caller -> Calls] /\ at \in [Worker -> Places]
    BY DEF Init, Calls, Places
  <2>4. mutex \in Caller \cup {None} /\ created \subseteq Worker
        /\ next \in Nat /\ failed \in Nat /\ aborted \in BOOLEAN
    BY DEF Init
  <2> QED BY <2>1, <2>2, <2>3, <2>4 DEF SharedType
<1>2. MutexKept /\ WorkersLed /\ CounterTells /\ AllTaken /\ FailuresCounted
  BY DEF Init, MutexKept, WorkersLed, Idle, CounterTells, AllTaken, FailuresCounted
<1> QED BY <1>1, <1>2 DEF SharedInv

(* What a trial's body does, it does to the memory of its thread.           *)
LEMMA BodyKeeps ==
    ASSUME NEW w \in Worker, Body(w)
    PROVE  UNCHANGED <<cast, shared, at, trial, taken, gaveUp, aborted>>
  BY DEF Body, InitializeQueue, Create, Initialize, Start, Record, Acquire, Await,
         LeaveQueue, Register, Unregister, Finish, Terminate, Destroy, SetCleanup,
         TerminateQueue, Becomes

(* Of the workers that are about to count, one more or one less.            *)
LEMMA CountingFinite == IsFiniteSet(Counting) /\ Cardinality(Counting) \in Nat
<1>1. Counting \subseteq Worker
  BY DEF Counting
<1>2. IsFiniteSet(Counting)
  BY <1>1, TrialsAssumption, FS_Subset
<1> QED BY <1>2, FS_CardinalityType

LEMMA OneMoreCounts ==
    ASSUME NEW w \in Worker, SharedType, at[w] # "count", at' = [at EXCEPT ![w] = "count"]
    PROVE  Cardinality(Counting') = Cardinality(Counting) + 1
<1>1. Counting' = Counting \cup {w} /\ w \notin Counting
  BY DEF Counting, SharedType
<1> QED BY <1>1, CountingFinite, FS_AddElement

LEMMA OneLessCounts ==
    ASSUME NEW w \in Worker, NEW p, p # "count", SharedType, at[w] = "count",
           at' = [at EXCEPT ![w] = p]
    PROVE  Cardinality(Counting') = Cardinality(Counting) - 1
<1>1. Counting' = Counting \ {w} /\ w \in Counting
  BY DEF Counting, SharedType
<1> QED BY <1>1, CountingFinite, FS_RemoveElement

LEMMA SameCount ==
    ASSUME NEW w \in Worker, NEW p, p # "count", SharedType, at[w] # "count",
           at' = [at EXCEPT ![w] = p]
    PROVE  Counting' = Counting
  BY DEF Counting, SharedType

LEMMA StepShared == SharedInv /\ [Next]_vars => SharedInv'
<1> SUFFICES ASSUME SharedInv, [Next]_vars PROVE SharedInv'
  OBVIOUS
<1> USE TrialsAssumption DEF SharedInv
<1>lock. ASSUME NEW c \in Caller, Lock(c) PROVE SharedInv'
  <2> USE <1>lock DEF Lock
  <2>1. SharedType'
    BY DEF SharedType, Calls
  <2>2. MutexKept' /\ WorkersLed'
    BY DEF SharedType, MutexKept, WorkersLed
  <2>3. CounterTells' /\ AllTaken'
    BY DEF SharedType, CounterTells, AllTaken
  <2>4. Counting' = Counting
    BY DEF Counting
  <2>5. FailuresCounted'
    BY <2>4 DEF SharedType, FailuresCounted
  <2> QED BY <2>1, <2>2, <2>3, <2>5
<1>launch. ASSUME NEW c \in Caller, Launch(c) PROVE SharedInv'
  <2> USE <1>launch DEF Launch
  <2>1. SharedType'
    BY DEF SharedType, Calls
  <2>2. \A w \in Worker : at[w] \in Idle
    BY DEF SharedType, WorkersLed, MutexKept
  <2>3. MutexKept' /\ WorkersLed'
    BY <2>2 DEF SharedType, MutexKept, WorkersLed
  <2>4. CounterTells' /\ AllTaken'
    BY DEF SharedType, CounterTells, AllTaken, MutexKept
  <2>5. Counting' = {}
    BY <2>2 DEF Counting, Idle
  <2>6. FailuresCounted'
    BY <2>5, FS_EmptySet DEF SharedType, FailuresCounted, MutexKept
  <2> QED BY <2>1, <2>3, <2>4, <2>6
<1>create. ASSUME NEW c \in Caller, CreateWorker(c) PROVE SharedInv'
  <2>1. PICK w \in Worker \ created :
            /\ call[c] = "creating" /\ created' = created \cup {w}
            /\ at' = [at EXCEPT ![w] = "loop"] /\ trial' = [trial EXCEPT ![w] = -1]
            /\ UNCHANGED <<cast, mutex, call, next, failed, result, taken, gaveUp, aborted>>
    BY <1>create DEF CreateWorker
  <2>2. SharedType'
    BY <2>1 DEF SharedType, Places
  <2>3. at[w] # "count"
    BY <2>1 DEF WorkersLed, Idle
  <2>4. MutexKept' /\ WorkersLed'
    BY <2>1 DEF SharedType, MutexKept, WorkersLed, Idle
  <2>5. CounterTells' /\ AllTaken'
    BY <2>1 DEF SharedType, CounterTells, AllTaken
  <2>6. Counting' = Counting
    BY <2>1, <2>3, SameCount
  <2>7. FailuresCounted'
    BY <2>1, <2>6 DEF SharedType, FailuresCounted
  <2> QED BY <2>2, <2>4, <2>5, <2>7
<1>join. ASSUME NEW c \in Caller, JoinWorkers(c) PROVE SharedInv'
  <2> USE <1>join DEF JoinWorkers
  <2>1. SharedType'
    BY DEF SharedType, Calls
  <2>2. MutexKept' /\ WorkersLed'
    BY DEF SharedType, MutexKept, WorkersLed, Idle
  <2>3. CounterTells' /\ AllTaken'
    BY DEF SharedType, CounterTells, AllTaken
  <2>4. Counting = {}
    BY DEF Counting
  <2>5. Cardinality(Counting) = 0
    BY <2>4, FS_EmptySet
  <2>6. Counting' = Counting
    BY DEF Counting
  <2>7. failed \in Nat /\ failed' = failed /\ gaveUp' = gaveUp
        /\ call' = [call EXCEPT ![c] = "joined"] /\ call[c] = "creating"
    BY DEF SharedType
  <2>8. call \in [Caller -> Calls]
    BY DEF SharedType
  <2>9. gaveUp[c] = failed
    BY <2>5, <2>7 DEF FailuresCounted
  <2>10. \A d \in Caller : d # c => call[d] # "creating" /\ call'[d] = call[d]
    BY <2>7, <2>8 DEF MutexKept
  <2>11. FailuresCounted'
    BY <2>6, <2>7, <2>8, <2>9, <2>10 DEF FailuresCounted
  <2> QED BY <2>1, <2>2, <2>3, <2>11
<1>unlock. ASSUME NEW c \in Caller, Unlock(c) PROVE SharedInv'
  <2> USE <1>unlock DEF Unlock
  <2>1. SharedType'
    BY DEF SharedType, Calls
  <2>2. MutexKept' /\ WorkersLed'
    BY DEF SharedType, MutexKept, WorkersLed
  <2>3. CounterTells' /\ AllTaken' /\ FailuresCounted'
    BY DEF SharedType, CounterTells, AllTaken, FailuresCounted, Counting
  <2> QED BY <2>1, <2>2, <2>3
<1>return. ASSUME NEW c \in Caller, Return(c) PROVE SharedInv'
  <2> USE <1>return DEF Return
  <2>1. SharedType'
    BY DEF SharedType, Calls
  <2>2. MutexKept' /\ WorkersLed'
    BY DEF SharedType, MutexKept, WorkersLed
  <2>3. CounterTells' /\ AllTaken' /\ FailuresCounted'
    BY Zenon DEF SharedType, CounterTells, AllTaken, FailuresCounted, Counting
  <2> QED BY <2>1, <2>2, <2>3
<1>take. ASSUME NEW w \in Worker, TakeTrial(w) PROVE SharedInv'
  <2> USE <1>take
  <2>0. /\ mutex \in Caller /\ call[mutex] = "creating" /\ w \in created
        /\ UNCHANGED <<cast, mutex, call, created, failed, gaveUp, aborted>>
        /\ at[w] = "loop" /\ next' = next + 1
    BY DEF TakeTrial, WorkersLed, Idle
  <2>1. PICK p \in {"exit", "trial"} :
            at' = [at EXCEPT ![w] = p] /\ (p = "exit" => next >= Total)
    BY DEF TakeTrial
  <2>2. SharedType'
    <3>1. CASE next >= Total
      <4>1. UNCHANGED <<trial, taken>>
        BY <3>1 DEF TakeTrial
      <4> QED BY <4>1, <2>0, <2>1 DEF SharedType, Places
    <3>2. CASE ~(next >= Total)
      <4>1. next \in 0 .. Total - 1
        BY <3>2 DEF SharedType
      <4>2. taken' = [taken EXCEPT ![next] = @ + 1] /\ trial' = [trial EXCEPT ![w] = next]
        BY <3>2 DEF TakeTrial
      <4>3. taken' \in [0 .. Total - 1 -> Nat] /\ trial' \in [Worker -> -1 .. Total - 1]
        BY <4>1, <4>2 DEF SharedType
      <4>4. at' \in [Worker -> Places]
        BY <2>1 DEF SharedType, Places
      <4> QED BY <4>3, <4>4, <2>0 DEF SharedType
    <3> QED BY <3>1, <3>2
  <2>3. MutexKept' /\ WorkersLed'
    BY <2>0, <2>1 DEF SharedType, MutexKept, WorkersLed
  <2>4. CounterTells'
    BY DEF TakeTrial, SharedType, CounterTells
  <2>5. AllTaken'
    BY <2>0, <2>1 DEF SharedType, AllTaken, MutexKept
  <2>6. Counting' = Counting
    BY <2>0, <2>1, SameCount
  <2>7. FailuresCounted'
    BY <2>0, <2>6 DEF FailuresCounted
  <2> QED BY <2>2, <2>3, <2>4, <2>5, <2>7
<1>finish. ASSUME NEW w \in Worker, FinishTrial(w) PROVE SharedInv'
  <2> USE <1>finish DEF FinishTrial, shared
  <2>1. SharedType'
    BY DEF SharedType, Places
  <2>2. at[w] = "trial"
    BY DEF Within
  <2>3. MutexKept' /\ WorkersLed' /\ CounterTells' /\ AllTaken'
    BY <2>2 DEF SharedType, MutexKept, WorkersLed, CounterTells, AllTaken, Idle
  <2>4. Counting' = Counting
    BY <2>2, SameCount
  <2>5. FailuresCounted'
    BY <2>4 DEF FailuresCounted
  <2> QED BY <2>1, <2>3, <2>5
<1>abandon. ASSUME NEW w \in Worker, Abandon(w) PROVE SharedInv'
  <2> USE <1>abandon
  <2>1. /\ at[w] = "trial" /\ at' = [at EXCEPT ![w] = "count"] /\ aborted' \in BOOLEAN
        /\ gaveUp' = [gaveUp EXCEPT ![mutex] = @ + 1]
        /\ UNCHANGED <<cast, shared, trial, taken>>
    BY DEF Abandon, Within
  <2>2. mutex \in Caller /\ call[mutex] = "creating" /\ w \in created
    BY <2>1 DEF WorkersLed, Idle
  <2> USE DEF shared
  <2>3. SharedType'
    BY <2>1, <2>2 DEF SharedType, Places
  <2>4. MutexKept' /\ WorkersLed' /\ CounterTells' /\ AllTaken'
    BY <2>1, <2>2 DEF SharedType, MutexKept, WorkersLed, CounterTells, AllTaken, Idle
  <2>5. Cardinality(Counting') = Cardinality(Counting) + 1
    BY <2>1, OneMoreCounts
  <2>6. \A c \in Caller : c # mutex => call[c] \notin {"locked", "creating", "joined"}
    BY DEF MutexKept
  <2>7. gaveUp \in [Caller -> Nat] /\ failed \in Nat
    BY DEF SharedType
  <2>8. Cardinality(Counting) \in Nat
    BY CountingFinite
  <2>9. gaveUp'[mutex] = failed + Cardinality(Counting')
    <3>1. gaveUp[mutex] = failed + Cardinality(Counting)
      BY <2>2 DEF FailuresCounted
    <3>2. gaveUp'[mutex] = gaveUp[mutex] + 1
      BY <2>1, <2>2, <2>7
    <3> QED BY <2>5, <2>7, <2>8, <3>1, <3>2
  <2>10. \A c \in Caller : c # mutex => gaveUp'[c] = gaveUp[c]
    BY <2>1, <2>7
  <2>11. FailuresCounted'
    BY <2>1, <2>2, <2>6, <2>9, <2>10 DEF FailuresCounted
  <2> QED BY <2>3, <2>4, <2>11
<1>count. ASSUME NEW w \in Worker, CountFailure(w) PROVE SharedInv'
  <2> USE <1>count DEF CountFailure
  <2>1. SharedType'
    BY DEF SharedType, Places
  <2>2. mutex \in Caller /\ call[mutex] = "creating" /\ w \in created
    BY DEF WorkersLed, Idle
  <2>3. MutexKept' /\ WorkersLed' /\ CounterTells' /\ AllTaken'
    BY <2>2 DEF SharedType, MutexKept, WorkersLed, CounterTells, AllTaken, Idle
  <2>4. Cardinality(Counting') = Cardinality(Counting) - 1
    BY OneLessCounts
  <2>5. \A c \in Caller : call[c] = "joined" => FALSE
    BY <2>2 DEF MutexKept
  <2>6. FailuresCounted'
    BY <2>2, <2>4, <2>5, CountingFinite DEF SharedType, FailuresCounted
  <2> QED BY <2>1, <2>3, <2>6
<1>after. ASSUME NEW w \in Worker, AfterTrial(w) PROVE SharedInv'
  <2> USE <1>after DEF AfterTrial, shared
  <2>1. SharedType'
    BY DEF SharedType, Places
  <2>2. MutexKept' /\ WorkersLed' /\ CounterTells' /\ AllTaken'
    BY DEF SharedType, MutexKept, WorkersLed, CounterTells, AllTaken, Idle
  <2>3. Counting' = Counting
    BY SameCount
  <2>4. FailuresCounted'
    BY <2>3 DEF FailuresCounted
  <2> QED BY <2>1, <2>2, <2>4
<1>exit. ASSUME NEW w \in Worker, ExitThread(w) PROVE SharedInv'
  <2> USE <1>exit DEF ExitThread, shared
  <2>1. SharedType'
    BY DEF SharedType, Places
  <2>2. MutexKept' /\ WorkersLed' /\ CounterTells' /\ AllTaken'
    BY DEF SharedType, MutexKept, WorkersLed, CounterTells, AllTaken, Idle
  <2>3. Counting' = Counting
    BY SameCount
  <2>4. FailuresCounted'
    BY <2>3 DEF FailuresCounted
  <2> QED BY <2>1, <2>2, <2>4
<1>body. ASSUME UNCHANGED <<cast, shared, at, trial, taken, gaveUp, aborted>> PROVE SharedInv'
  BY <1>body DEF shared, SharedType, MutexKept, WorkersLed, CounterTells, AllTaken,
                 FailuresCounted, Counting
<1>1. ASSUME NEW c \in Caller, Run(c) PROVE SharedInv'
  BY <1>1, <1>lock, <1>launch, <1>create, <1>join, <1>unlock, <1>return DEF Run
<1>2. ASSUME NEW w \in Worker, Work(w) PROVE SharedInv'
  BY <1>2, <1>take, <1>finish, <1>abandon, <1>count, <1>after, <1>exit DEF Work
<1>3. ASSUME NEW w \in Worker, Body(w) PROVE SharedInv'
  <2>1. UNCHANGED <<cast, shared, at, trial, taken, gaveUp, aborted>>
    BY <1>3, BodyKeeps
  <2> QED BY <2>1, <1>body
<1>4. ASSUME UNCHANGED vars PROVE SharedInv'
  <2>1. UNCHANGED <<cast, shared, at, trial, taken, gaveUp, aborted>>
    BY <1>4 DEF vars, shared
  <2> QED BY <2>1, <1>body
<1> QED BY <1>1, <1>2, <1>3, <1>4 DEF Next

LEMMA SpecSharedInv == Spec => []SharedInv
<1> QED BY InitShared, StepShared, PTL DEF Spec

(* None of the experiment's trials is started twice, and all have been     *)
(* started, and the abandoned ones counted, when the workers of cimba_run  *)
(* have been joined.                                                       *)
THEOREM EveryTrialOnceCorrect == Spec => []EveryTrialOnce
<1>1. SharedInv => EveryTrialOnce
  BY TrialsAssumption DEF SharedInv, SharedType, CounterTells, AllTaken, FailuresCounted,
                          EveryTrialOnce
<1> QED BY <1>1, SpecSharedInv, PTL

-----------------------------------------------------------------------------
(* The registry of a thread.                                               *)

(* The inductive invariant: first what the memory of a thread may hold.    *)

Duties == {"destroy", "terminate", "history"}
Items == Object \X Duties
Lives == {"none", "raw", "ready", "running", "finished"}
Live == {"ready", "running", "finished"}
Keepers == {o \in Object :
    Kind[o] \in {"resource", "pool", "buffer", "objectqueue", "priorityqueue"}}
Someone == Process \cup {Other}

Worlds ==
    [registry : Seq(Items), linked : BOOLEAN, life : [Object -> Lives],
     history : [Object -> BOOLEAN], recording : [Object -> BOOLEAN],
     holder : [Resource -> Someone \cup {None}], queued : [Guarded -> SUBSET Someone],
     observers : [Resource -> SUBSET Condition],
     queue : BOOLEAN, main : BOOLEAN, armed : BOOLEAN, cleanup : BOOLEAN]

\* No item is entered twice, and the later of two that an object has entered
\* stands before the earlier.
Distinct(s) == \A i, j \in 1 .. Len(s) : s[i] = s[j] => i = j
Ahead(s, x, y) == \A i, j \in 1 .. Len(s) : s[i] = x /\ s[j] = y => i < j
InOrder(s) == \A o \in Object :
    /\ Ahead(s, <<o, "history">>, <<o, "terminate">>)
    /\ Ahead(s, <<o, "terminate">>, <<o, "destroy">>)
Orderly(s) == Distinct(s) /\ InOrder(s)

\* The items that are left tell what has been made of each object.
Left(s, i) == {s[j] : j \in i + 1 .. Len(s)}
Agrees(v, left) == \A o \in Object :
    /\ <<o, "destroy">> \in left <=> v.life[o] # "none"
    /\ <<o, "terminate">> \in left <=> v.life[o] \in Live
    /\ <<o, "history">> \in left <=> v.history[o]
    /\ v.history[o] \/ v.recording[o] => v.life[o] \in Live /\ o \in Keepers
    /\ o \in Resource => (v.holder[o] # None => v.life[o] \in Live)

\* Only what there is has a queue and observers, and while a resource is held
\* its observers are there, too.
Waited(v) ==
    /\ \A g \in Guarded : v.queued[g] # {} => v.life[g] # "none"
    /\ \A r \in Resource : v.observers[r] # {} => v.life[r] # "none"
Heard(v) == \A r \in Resource :
    v.holder[r] # None => \A c \in v.observers[r] : v.life[c] # "none"

Sound(v) ==
    Orderly(v.registry) /\ Agrees(v, Left(v.registry, 0)) /\ Waited(v) /\ Heard(v)

\* Nothing is left of a trial's objects.
Cleared(v) ==
    /\ v.registry = <<>> /\ v.life = Blank.life /\ v.history = Blank.history
    /\ v.recording = Blank.recording /\ v.holder = Blank.holder /\ v.queued = Blank.queued
    /\ v.observers = Blank.observers

\* What the memory of a thread holds at each place.
Fits(v, place, over) ==
    /\ v.main
    /\ place = "trial" => Sound(v)
    /\ place \in {"count", "after"} /\ ~over => Cleared(v)
    /\ place \in {"loop", "exit"} => Cleared(v) /\ ~v.queue /\ ~v.armed /\ ~v.cleanup
WorldInv ==
    world \in [Worker -> Worlds] /\ \A w \in Worker : Fits(world[w], at[w], aborted)

-----------------------------------------------------------------------------
(* The registry as a sequence.                                             *)

LEMMA UnlinkedIndex ==
    ASSUME NEW S, NEW s \in Seq(S), NEW k \in 1 .. Len(s)
    PROVE  LET t == SubSeq(s, 1, k - 1) \o SubSeq(s, k + 1, Len(s))
           IN  /\ t \in Seq(S) /\ Len(t) = Len(s) - 1
               /\ \A i \in 1 .. Len(t) : t[i] = s[IF i < k THEN i ELSE i + 1]
<1> DEFINE a == SubSeq(s, 1, k - 1)  b == SubSeq(s, k + 1, Len(s))  t == a \o b
<1>1. Len(s) \in Nat /\ \A i \in 1 .. Len(s) : s[i] \in S
  OBVIOUS
<1>2. a \in Seq(S) /\ Len(a) = k - 1 /\ \A i \in 1 .. k - 1 : a[i] = s[i]
  BY <1>1
<1>3. b \in Seq(S) /\ Len(b) = Len(s) - k /\ \A i \in 1 .. Len(s) - k : b[i] = s[k + i]
  BY <1>1
<1> HIDE DEF a, b
<1>concat. /\ t \in Seq(S) /\ Len(t) = Len(a) + Len(b)
           /\ \A i \in 1 .. Len(a) + Len(b) :
                  t[i] = IF i <= Len(a) THEN a[i] ELSE b[i - Len(a)]
  BY <1>2, <1>3, ConcatProperties, Zenon
<1> HIDE DEF t
<1>5. t \in Seq(S) /\ Len(t) = Len(s) - 1
  BY <1>1, <1>2, <1>3, <1>concat
<1>6. ASSUME NEW i \in 1 .. Len(t) PROVE t[i] = s[IF i < k THEN i ELSE i + 1]
  <2>1. i \in 1 .. Len(s) - 1
    BY <1>5
  <2>2. CASE i < k
    <3>1. i \in 1 .. k - 1 /\ i <= Len(a) /\ i \in 1 .. Len(a) + Len(b)
      BY <1>2, <1>3, <2>1, <2>2
    <3> QED BY <1>2, <1>concat, <2>2, <3>1
  <2>3. CASE ~(i < k)
    <3>1. /\ i - Len(a) \in 1 .. Len(s) - k /\ ~(i <= Len(a)) /\ i \in 1 .. Len(a) + Len(b)
          /\ k + (i - Len(a)) = i + 1
      BY <1>1, <1>2, <1>3, <2>1, <2>3
    <3> QED BY <1>3, <1>concat, <2>3, <3>1
  <2> QED BY <2>2, <2>3
<1> QED BY <1>5, <1>6 DEF t, a, b

(* Unlinking takes one item out of a list that has it once, and leaves the *)
(* others in their order.                                                  *)
LEMMA UnlinkedType ==
    ASSUME NEW S, NEW s \in Seq(S), NEW x PROVE Unlinked(s, x) \in Seq(S)
<1>1. CASE \E i \in 1 .. Len(s) : s[i] = x
  <2> DEFINE k == CHOOSE i \in 1 .. Len(s) : s[i] = x
  <2>1. k \in 1 .. Len(s)
    BY <1>1
  <2>2. Unlinked(s, x) = SubSeq(s, 1, k - 1) \o SubSeq(s, k + 1, Len(s))
    BY <1>1 DEF Unlinked
  <2> HIDE DEF k
  <2> QED BY <2>1, <2>2, UnlinkedIndex
<1>2. CASE ~\E i \in 1 .. Len(s) : s[i] = x
  BY <1>2 DEF Unlinked
<1> QED BY <1>1, <1>2

LEMMA UnlinkedKeeps ==
    ASSUME NEW S, NEW s \in Seq(S), Orderly(s), NEW x
    PROVE  Orderly(Unlinked(s, x)) /\ Left(Unlinked(s, x), 0) = Left(s, 0) \ {x}
<1>1. CASE \E i \in 1 .. Len(s) : s[i] = x
  <2> DEFINE k == CHOOSE i \in 1 .. Len(s) : s[i] = x
             t == Unlinked(s, x)
             Old(i) == IF i < k THEN i ELSE i + 1
             New(j) == IF j < k THEN j ELSE j - 1
  <2>1. k \in 1 .. Len(s) /\ s[k] = x
    BY <1>1
  <2>2. t = SubSeq(s, 1, k - 1) \o SubSeq(s, k + 1, Len(s))
    BY <1>1 DEF Unlinked
  <2> HIDE DEF k, t
  <2>3. Len(t) = Len(s) - 1 /\ \A i \in 1 .. Len(t) : t[i] = s[Old(i)]
    BY <2>1, <2>2, UnlinkedIndex
  <2>4. Len(s) \in Nat
    OBVIOUS
  <2>5. \A i \in 1 .. Len(t) : Old(i) \in 1 .. Len(s) /\ Old(i) # k
    BY <2>1, <2>3, <2>4
  <2>6. \A i, j \in 1 .. Len(t) : (Old(i) = Old(j) => i = j) /\ (Old(i) < Old(j) => i < j)
    BY <2>1, <2>3, <2>4
  <2>7. \A j \in 1 .. Len(s) : j # k => New(j) \in 1 .. Len(t) /\ Old(New(j)) = j
    BY <2>1, <2>3, <2>4
  <2> HIDE DEF Old, New
  <2>8. Distinct(t)
    BY <2>3, <2>5, <2>6 DEF Orderly, Distinct
  <2>9. ASSUME NEW y, NEW z, Ahead(s, y, z) PROVE Ahead(t, y, z)
    BY <2>3, <2>5, <2>6, <2>9 DEF Ahead
  <2>10. InOrder(t)
    BY <2>9 DEF Orderly, InOrder
  <2>11. ASSUME NEW y PROVE y \in Left(t, 0) <=> y \in Left(s, 0) /\ y # x
    <3>1. ASSUME NEW i \in 1 .. Len(t), y = t[i] PROVE y \in Left(s, 0) /\ y # x
      <4>1. y = s[Old(i)] /\ Old(i) \in 1 .. Len(s) /\ Old(i) # k
        BY <2>3, <2>5, <3>1
      <4> QED BY <2>1, <4>1 DEF Left, Orderly, Distinct
    <3>2. ASSUME NEW j \in 1 .. Len(s), y = s[j], y # x PROVE y \in Left(t, 0)
      <4>1. j # k
        BY <2>1, <3>2
      <4>2. New(j) \in 1 .. Len(t) /\ t[New(j)] = s[j]
        BY <2>3, <2>7, <4>1
      <4> QED BY <3>2, <4>2 DEF Left
    <3>3. /\ y \in Left(t, 0) => \E i \in 1 .. Len(t) : y = t[i]
          /\ y \in Left(s, 0) => \E j \in 1 .. Len(s) : y = s[j]
      BY DEF Left
    <3> QED BY <3>1, <3>2, <3>3
  <2>12. Left(t, 0) = Left(s, 0) \ {x}
    BY <2>11
  <2> QED BY <2>8, <2>10, <2>12 DEF Orderly, t
<1>2. CASE ~\E i \in 1 .. Len(s) : s[i] = x
  BY <1>2 DEF Unlinked, Left
<1> QED BY <1>1, <1>2

(* What is entered goes to the head of the list.                           *)
LEMMA EnteredIndex ==
    ASSUME NEW S, NEW s \in Seq(S), NEW x \in S, NEW t, t = <<x>> \o s
    PROVE  /\ t \in Seq(S) /\ Len(t) = Len(s) + 1 /\ t[1] = x
           /\ \A i \in 2 .. Len(t) : t[i] = s[i - 1]
  OBVIOUS

LEMMA EnteredKeeps ==
    ASSUME NEW S, NEW s \in Seq(S), Orderly(s), NEW x \in S, x \notin Left(s, 0),
           \A o \in Object :
               /\ x = <<o, "destroy">> => <<o, "terminate">> \notin Left(s, 0)
               /\ x = <<o, "terminate">> => <<o, "history">> \notin Left(s, 0)
    PROVE  Orderly(<<x>> \o s) /\ Left(<<x>> \o s, 0) = Left(s, 0) \cup {x}
<1> DEFINE t == <<x>> \o s
<1>1. /\ Len(t) = Len(s) + 1 /\ t[1] = x
      /\ \A i \in 2 .. Len(t) : t[i] = s[i - 1]
  BY EnteredIndex
<1>2. Len(s) \in Nat
  OBVIOUS
<1> HIDE DEF t
<1>3. \A i \in 2 .. Len(t) : i - 1 \in 1 .. Len(s) /\ t[i] = s[i - 1]
  BY <1>1, <1>2
<1>4. \A j \in 1 .. Len(s) : j + 1 \in 2 .. Len(t) /\ t[j + 1] = s[j]
  BY <1>1, <1>2
<1>5. \A j \in 1 .. Len(s) : s[j] \in Left(s, 0) /\ s[j] # x
  BY DEF Left
<1>6. \A i \in 1 .. Len(t) : i = 1 \/ i \in 2 .. Len(t)
  BY <1>1, <1>2
<1>7. Distinct(t)
  <2> SUFFICES ASSUME NEW i \in 1 .. Len(t), NEW j \in 1 .. Len(t), t[i] = t[j] PROVE i = j
    BY DEF Distinct
  <2>1. CASE i = 1 \/ j = 1
    BY <1>1, <1>3, <1>5, <1>6, <2>1
  <2>2. CASE i \in 2 .. Len(t) /\ j \in 2 .. Len(t)
    <3>1. s[i - 1] = s[j - 1]
      BY <1>3, <2>2
    <3>2. i - 1 = j - 1
      BY <1>3, <2>2, <3>1 DEF Orderly, Distinct
    <3> QED BY <3>2
  <2> QED BY <1>6, <2>1, <2>2
<1>8. ASSUME NEW y, NEW z, Ahead(s, y, z), x = z => y \notin Left(s, 0), y # z
      PROVE  Ahead(t, y, z)
  <2> SUFFICES ASSUME NEW i \in 1 .. Len(t), NEW j \in 1 .. Len(t), t[i] = y, t[j] = z
               PROVE  i < j
    BY DEF Ahead
  <2>1. CASE i = 1
    BY <1>6, <1>8, <2>1
  <2>2. CASE i \in 2 .. Len(t) /\ j = 1
    BY <1>1, <1>3, <1>5, <1>8, <2>2
  <2>3. CASE i \in 2 .. Len(t) /\ j \in 2 .. Len(t)
    <3>1. i - 1 < j - 1
      BY <1>3, <1>8, <2>3 DEF Ahead
    <3> QED BY <3>1
  <2> QED BY <1>6, <2>1, <2>2, <2>3
<1>9. InOrder(t)
  <2> SUFFICES ASSUME NEW o \in Object
               PROVE  /\ Ahead(t, <<o, "history">>, <<o, "terminate">>)
                      /\ Ahead(t, <<o, "terminate">>, <<o, "destroy">>)
    BY DEF InOrder
  <2>1. Ahead(t, <<o, "history">>, <<o, "terminate">>)
    BY <1>8 DEF Orderly, InOrder
  <2>2. Ahead(t, <<o, "terminate">>, <<o, "destroy">>)
    BY <1>8 DEF Orderly, InOrder
  <2> QED BY <2>1, <2>2
<1>10. Left(t, 0) = Left(s, 0) \cup {x}
  <2>1. \A y \in Left(t, 0) : y \in Left(s, 0) \/ y = x
    BY <1>1, <1>3, <1>6 DEF Left
  <2>2. x \in Left(t, 0)
    BY <1>1, <1>2 DEF Left
  <2>3. \A y \in Left(s, 0) : \E j \in 1 .. Len(s) : y = s[j]
    BY DEF Left
  <2>4. \A y \in Left(s, 0) : y \in Left(t, 0)
    BY <1>1, <1>2, <1>4, <2>3 DEF Left
  <2> QED BY <2>1, <2>2, <2>4
<1> QED BY <1>7, <1>9, <1>10 DEF Orderly, t

-----------------------------------------------------------------------------
(* What initialize and terminate make of the memory of a thread.           *)

SameThread(v, t) ==
    /\ t.queue = v.queue /\ t.main = v.main /\ t.armed = v.armed /\ t.cleanup = v.cleanup

BegunFrom(v, o, t) ==
    /\ t \in Worlds /\ SameThread(v, t) /\ t.linked
    /\ t.life = [v.life EXCEPT ![o] = "ready"] /\ t.history = v.history
    /\ t.recording = v.recording /\ t.holder = v.holder /\ t.queued = v.queued
    /\ t.observers = v.observers
    /\ t.registry = <<<<o, "terminate">>>> \o v.registry

MadeFrom(v, o, t) ==
    /\ t \in Worlds /\ SameThread(v, t) /\ t.linked
    /\ t.life = [v.life EXCEPT ![o] = "ready"]
    /\ t.history = IF o \in Keepers THEN [v.history EXCEPT ![o] = TRUE] ELSE v.history
    /\ t.recording = v.recording /\ t.holder = v.holder /\ t.queued = v.queued
    /\ t.observers = IF o \in Resource THEN [v.observers EXCEPT ![o] = {}] ELSE v.observers
    /\ t.registry = IF o \in Keepers
                    THEN <<<<o, "history">>>> \o (<<<<o, "terminate">>>> \o v.registry)
                    ELSE <<<<o, "terminate">>>> \o v.registry

TornFrom(v, o, t) ==
    /\ t \in Worlds /\ SameThread(v, t) /\ t.linked = v.linked
    /\ t.life = [v.life EXCEPT ![o] = "raw"]
    /\ t.history = IF o \in Keepers THEN [v.history EXCEPT ![o] = FALSE] ELSE v.history
    /\ t.recording = IF o \in Keepers THEN [v.recording EXCEPT ![o] = FALSE] ELSE v.recording
    /\ t.holder = IF o \in Resource THEN [v.holder EXCEPT ![o] = None] ELSE v.holder
    /\ t.queued = v.queued /\ t.observers = v.observers
    /\ t.registry = IF o \in Keepers
                    THEN Unlinked(Unlinked(v.registry, <<o, "history">>), <<o, "terminate">>)
                    ELSE Unlinked(v.registry, <<o, "terminate">>)

LEMMA EntryType ==
    ASSUME NEW s \in Seq(Items), NEW o \in Object, NEW d \in Duties
    PROVE  <<<<o, d>>>> \o s \in Seq(Items)
  BY DEF Items

LEMMA BegunFields ==
    ASSUME NEW v \in Worlds, NEW o \in Object PROVE BegunFrom(v, o, Begun(v, o))
<1> DEFINE t == Begun(v, o)
           s == <<<<o, "terminate">>>> \o v.registry
<1>1. s \in Seq(Items)
  BY EntryType DEF Worlds, Duties
<1>2. t = [v EXCEPT !.life = [v.life EXCEPT ![o] = "ready"], !.registry = s, !.linked = TRUE]
  BY DEF Begun, Registered, Worlds
<1> HIDE DEF s, t
<1>3. [v.life EXCEPT ![o] = "ready"] \in [Object -> Lives]
  BY DEF Worlds, Lives
<1>4. t \in Worlds
  BY <1>1, <1>2, <1>3 DEF Worlds
<1> QED BY <1>2, <1>4 DEF BegunFrom, s, t, Worlds, SameThread

LEMMA HistoryBegunFields ==
    ASSUME NEW v \in Worlds, NEW o \in Object, NEW t, t = HistoryBegun(v, o)
    PROVE  /\ t \in Worlds /\ SameThread(v, t) /\ t.linked
           /\ t.history = [v.history EXCEPT ![o] = TRUE] /\ t.life = v.life
           /\ t.recording = v.recording /\ t.holder = v.holder /\ t.queued = v.queued
           /\ t.observers = v.observers
           /\ t.registry = <<<<o, "history">>>> \o v.registry
<1> DEFINE s == <<<<o, "history">>>> \o v.registry
<1>1. s \in Seq(Items)
  BY EntryType DEF Worlds, Duties
<1>2. t = [v EXCEPT !.history = [v.history EXCEPT ![o] = TRUE], !.registry = s, !.linked = TRUE]
  BY DEF HistoryBegun, Registered, Worlds
<1> HIDE DEF s
<1>3. [v.history EXCEPT ![o] = TRUE] \in [Object -> BOOLEAN]
  BY DEF Worlds
<1>4. t \in Worlds
  BY <1>1, <1>2, <1>3 DEF Worlds
<1> QED BY <1>2, <1>4 DEF s, Worlds, SameThread

LEMMA InitializedFields ==
    ASSUME NEW v \in Worlds, NEW o \in Object
    PROVE  MadeFrom(v, o, Initialized(v, o))
<1>1. Kind[o] \in Kinds
  BY TrialsAssumption
<1>2. CASE o \in Keepers
  <2> DEFINE b == IF o \in Resource THEN [v EXCEPT !.observers[o] = {}] ELSE v
             t == Begun(b, o)  u == HistoryBegun(t, o)
  <2>1. Initialized(v, o) = u
    <3>1. CASE o \in Resource
      BY <3>1 DEF Resource, Initialized, ResourceBegun
    <3>2. CASE o \notin Resource
      BY <1>1, <1>2, <3>2 DEF Kinds, Keepers, Resource, Initialized, PoolBegun, BufferBegun,
                              ObjectqueueBegun, PriorityqueueBegun
    <3> QED BY <3>1, <3>2
  <2>b. /\ b \in Worlds /\ SameThread(v, b)
        /\ b.life = v.life /\ b.history = v.history /\ b.recording = v.recording
        /\ b.holder = v.holder /\ b.queued = v.queued /\ b.registry = v.registry
        /\ b.observers = IF o \in Resource THEN [v.observers EXCEPT ![o] = {}] ELSE v.observers
    <3>1. CASE o \in Resource
      <4>1. b = [v EXCEPT !.observers = [v.observers EXCEPT ![o] = {}]]
        BY <3>1 DEF Worlds
      <4>2. [v.observers EXCEPT ![o] = {}] \in [Resource -> SUBSET Condition]
        BY DEF Worlds
      <4> HIDE DEF b
      <4> QED BY <3>1, <4>1, <4>2 DEF Worlds, SameThread
    <3>2. CASE o \notin Resource
      BY <3>2 DEF SameThread
    <3> QED BY <3>1, <3>2
  <2> HIDE DEF b
  <2>2. /\ t \in Worlds /\ SameThread(v, t) /\ t.linked
        /\ t.life = [v.life EXCEPT ![o] = "ready"] /\ t.history = v.history
        /\ t.recording = v.recording /\ t.holder = v.holder /\ t.queued = v.queued
        /\ t.observers = b.observers
        /\ t.registry = <<<<o, "terminate">>>> \o v.registry
    <3>1. BegunFrom(b, o, t)
      BY <2>b, BegunFields
    <3> HIDE DEF t
    <3> QED BY <2>b, <3>1 DEF BegunFrom, SameThread
  <2> HIDE DEF t
  <2>3. /\ u \in Worlds /\ SameThread(t, u) /\ u.linked
        /\ u.history = [t.history EXCEPT ![o] = TRUE] /\ u.life = t.life
        /\ u.recording = t.recording /\ u.holder = t.holder /\ u.queued = t.queued
        /\ u.observers = t.observers
        /\ u.registry = <<<<o, "history">>>> \o t.registry
    <3>1. t \in Worlds
      BY <2>2
    <3> QED BY <3>1, HistoryBegunFields
  <2> HIDE DEF u
  <2> QED BY <1>2, <2>1, <2>b, <2>2, <2>3 DEF MadeFrom, SameThread
<1>3. CASE o \notin Keepers
  <2> DEFINE t == Begun(v, o)
  <2>1. Initialized(v, o) = t
    BY <1>1, <1>3 DEF Kinds, Keepers, Initialized, ProcessBegun, ConditionBegun, DatasetBegun,
                      TimeseriesBegun, DatasummaryBegun
  <2>n. o \notin Resource
    BY <1>3 DEF Resource, Keepers
  <2>2. /\ t \in Worlds /\ SameThread(v, t) /\ t.linked
        /\ t.life = [v.life EXCEPT ![o] = "ready"] /\ t.history = v.history
        /\ t.recording = v.recording /\ t.holder = v.holder /\ t.queued = v.queued
        /\ t.observers = v.observers
        /\ t.registry = <<<<o, "terminate">>>> \o v.registry
    BY BegunFields DEF BegunFrom
  <2> HIDE DEF t
  <2> QED BY <1>3, <2>1, <2>n, <2>2 DEF MadeFrom
<1> QED BY <1>2, <1>3

LEMMA HistoryEndedFields ==
    ASSUME NEW v \in Worlds, NEW o \in Object, NEW t, t = HistoryEnded(v, o)
    PROVE  /\ t \in Worlds /\ SameThread(v, t) /\ t.linked = v.linked /\ t.life = v.life
           /\ t.history = [v.history EXCEPT ![o] = FALSE]
           /\ t.recording = [v.recording EXCEPT ![o] = FALSE]
           /\ t.holder = v.holder /\ t.queued = v.queued /\ t.observers = v.observers
           /\ t.registry = Unlinked(v.registry, <<o, "history">>)
<1> DEFINE s == Unlinked(v.registry, <<o, "history">>)
<1>1. s \in Seq(Items)
  BY UnlinkedType DEF Worlds
<1>2. t = [v EXCEPT !.history = [v.history EXCEPT ![o] = FALSE],
                    !.recording = [v.recording EXCEPT ![o] = FALSE], !.registry = s]
  BY DEF HistoryEnded, Unregistered, Worlds
<1> HIDE DEF s
<1>3. /\ [v.history EXCEPT ![o] = FALSE] \in [Object -> BOOLEAN]
      /\ [v.recording EXCEPT ![o] = FALSE] \in [Object -> BOOLEAN]
  BY DEF Worlds
<1>4. t \in Worlds
  BY <1>1, <1>2, <1>3 DEF Worlds
<1> QED BY <1>2, <1>4 DEF s, Worlds, SameThread

LEMMA EndedFields ==
    ASSUME NEW v \in Worlds, NEW o \in Object, NEW t, t = Ended(v, o)
    PROVE  /\ t \in Worlds /\ SameThread(v, t) /\ t.linked = v.linked
           /\ t.life = [v.life EXCEPT ![o] = "raw"] /\ t.history = v.history
           /\ t.recording = v.recording /\ t.holder = v.holder /\ t.queued = v.queued
           /\ t.observers = v.observers
           /\ t.registry = Unlinked(v.registry, <<o, "terminate">>)
<1> DEFINE s == Unlinked(v.registry, <<o, "terminate">>)
<1>1. s \in Seq(Items)
  BY UnlinkedType DEF Worlds
<1>2. t = [v EXCEPT !.life = [v.life EXCEPT ![o] = "raw"], !.registry = s]
  BY DEF Ended, Unregistered, Worlds
<1> HIDE DEF s
<1>3. [v.life EXCEPT ![o] = "raw"] \in [Object -> Lives]
  BY DEF Worlds, Lives
<1>4. t \in Worlds
  BY <1>1, <1>2, <1>3 DEF Worlds
<1> QED BY <1>2, <1>4 DEF s, Worlds, SameThread

LEMMA HolderDroppedFields ==
    ASSUME NEW v \in Worlds, NEW o \in Resource, NEW t, t = HolderDropped(v, o)
    PROVE  /\ t \in Worlds /\ SameThread(v, t) /\ t.linked = v.linked /\ t.life = v.life
           /\ t.history = v.history /\ t.recording = v.recording
           /\ t.holder = [v.holder EXCEPT ![o] = None] /\ t.queued = v.queued
           /\ t.observers = v.observers
           /\ t.registry = v.registry
<1>1. t = [v EXCEPT !.holder = [v.holder EXCEPT ![o] = None]]
  BY DEF HolderDropped, Worlds
<1>2. [v.holder EXCEPT ![o] = None] \in [Resource -> Someone \cup {None}]
  BY DEF Worlds
<1>3. t \in Worlds
  BY <1>1, <1>2 DEF Worlds
<1> QED BY <1>1, <1>3 DEF Worlds, SameThread

LEMMA TerminatedFields ==
    ASSUME NEW v \in Worlds, NEW o \in Object
    PROVE  TornFrom(v, o, Terminated(v, o))
<1>1. Kind[o] \in Kinds
  BY TrialsAssumption
<1>2. ASSUME NEW d \in Worlds, o \in Keepers, Terminated(v, o) = Ended(HistoryEnded(d, o), o),
             SameThread(v, d), d.linked = v.linked, d.life = v.life, d.history = v.history,
             d.recording = v.recording, d.queued = v.queued,
             d.observers = v.observers, d.registry = v.registry,
             d.holder = IF o \in Resource THEN [v.holder EXCEPT ![o] = None] ELSE v.holder
      PROVE  TornFrom(v, o, Terminated(v, o))
  <2> DEFINE t == HistoryEnded(d, o)  u == Ended(t, o)
  <2>1. /\ t \in Worlds /\ SameThread(d, t) /\ t.linked = d.linked /\ t.life = d.life
        /\ t.history = [d.history EXCEPT ![o] = FALSE]
        /\ t.recording = [d.recording EXCEPT ![o] = FALSE]
        /\ t.holder = d.holder /\ t.queued = d.queued /\ t.observers = d.observers
        /\ t.registry = Unlinked(d.registry, <<o, "history">>)
    BY HistoryEndedFields
  <2> HIDE DEF t
  <2>2. /\ u \in Worlds /\ SameThread(t, u) /\ u.linked = t.linked
        /\ u.life = [t.life EXCEPT ![o] = "raw"] /\ u.history = t.history
        /\ u.recording = t.recording /\ u.holder = t.holder /\ u.queued = t.queued
        /\ u.observers = t.observers
        /\ u.registry = Unlinked(t.registry, <<o, "terminate">>)
    BY <2>1, EndedFields
  <2>3. Terminated(v, o) = u
    BY <1>2 DEF t
  <2> HIDE DEF u
  <2> QED BY <1>2, <2>1, <2>2, <2>3 DEF TornFrom, SameThread
<1>3. CASE o \in Resource
  <2> DEFINE d == HolderDropped(v, o)
  <2>1. o \in Keepers /\ Terminated(v, o) = Ended(HistoryEnded(d, o), o)
    BY <1>3 DEF Resource, Keepers, Terminated, ResourceTorn
  <2>2. /\ d \in Worlds /\ SameThread(v, d) /\ d.linked = v.linked /\ d.life = v.life
        /\ d.history = v.history /\ d.recording = v.recording
        /\ d.holder = [v.holder EXCEPT ![o] = None] /\ d.queued = v.queued
        /\ d.observers = v.observers
        /\ d.registry = v.registry
    BY <1>3, HolderDroppedFields
  <2> HIDE DEF d
  <2> QED BY <1>2, <1>3, <2>1, <2>2
<1>4. CASE o \in Keepers /\ o \notin Resource
  <2>1. Terminated(v, o) = Ended(HistoryEnded(v, o), o)
    BY <1>4 DEF Resource, Keepers, Terminated, PoolTorn, BufferTorn, ObjectqueueTorn,
                PriorityqueueTorn
  <2> QED BY <1>2, <1>4, <2>1 DEF SameThread
<1>5. CASE o \notin Keepers
  <2> DEFINE t == Ended(v, o)
  <2>1. Terminated(v, o) = t /\ o \notin Resource
    BY <1>1, <1>5 DEF Kinds, Keepers, Resource, Terminated, ProcessTorn, ConditionTorn,
                      DatasetTorn, TimeseriesTorn, DatasummaryTorn
  <2>2. /\ t \in Worlds /\ SameThread(v, t) /\ t.linked = v.linked
        /\ t.life = [v.life EXCEPT ![o] = "raw"] /\ t.history = v.history
        /\ t.recording = v.recording /\ t.holder = v.holder /\ t.queued = v.queued
        /\ t.observers = v.observers
        /\ t.registry = Unlinked(v.registry, <<o, "terminate">>)
    BY EndedFields
  <2> HIDE DEF t
  <2> QED BY <1>5, <2>1, <2>2 DEF TornFrom
<1> QED BY <1>3, <1>4, <1>5

-----------------------------------------------------------------------------
(* What a trial does to its objects keeps its memory sound.                *)

LEMMA BlankCleared == Blank \in Worlds /\ Cleared(Blank)
<1>1. <<>> \in Seq(Items)
  OBVIOUS
<1> QED BY <1>1 DEF Blank, Worlds, Cleared, Lives

LEMMA ClearedSound == ASSUME NEW v \in Worlds, Cleared(v) PROVE Sound(v)
<1>1. v.registry = <<>> /\ Len(v.registry) = 0
  BY DEF Cleared
<1>2. Orderly(v.registry)
  BY <1>1 DEF Orderly, Distinct, InOrder, Ahead
<1>3. Left(v.registry, 0) = {}
  BY <1>1 DEF Left
<1>4. /\ \A o \in Object : v.life[o] = "none" /\ v.history[o] = FALSE /\ v.recording[o] = FALSE
      /\ \A r \in Resource : v.holder[r] = None /\ v.observers[r] = {}
      /\ \A g \in Guarded : v.queued[g] = {}
  BY DEF Cleared, Blank
<1>5. \A o \in Resource : o \in Object
  BY DEF Resource
<1> QED BY <1>2, <1>3, <1>4, <1>5 DEF Sound, Agrees, Waited, Heard, Live

\* What soundness does not look at.
LEMMA SoundSame ==
    ASSUME NEW v, NEW t, Sound(v), t.registry = v.registry, t.life = v.life,
           t.history = v.history, t.recording = v.recording, t.holder = v.holder,
           t.queued = v.queued /\ t.observers = v.observers
    PROVE  Sound(t)
  BY DEF Sound, Agrees, Waited, Heard

\* Who waits and who observes, if nothing goes.
LEMMA StillWaited ==
    ASSUME NEW v \in Worlds, Waited(v), Heard(v), NEW t,
           \A o \in Object : v.life[o] # "none" => t.life[o] # "none",
           \A g \in Guarded : t.queued[g] # {} => v.queued[g] # {} \/ v.life[g] # "none",
           \A r \in Resource :
               /\ t.observers[r] # {} => v.observers[r] # {} \/ v.life[r] # "none"
               /\ \A c \in t.observers[r] :
                      c \in v.observers[r] \/ (c \in Condition /\ v.life[c] # "none")
               /\ t.holder[r] # None =>
                      v.holder[r] # None \/ \A c \in v.observers[r] : v.life[c] # "none"
    PROVE  Waited(t) /\ Heard(t)
<1>1. /\ \A g \in Guarded : g \in Object
      /\ \A r \in Resource : r \in Object /\ r \in Guarded
      /\ \A c \in Condition : c \in Object
  BY DEF Guarded, Resource, Condition
<1>2. \A r \in Resource : \A c \in v.observers[r] : c \in Condition
  BY DEF Worlds
<1>3. Waited(t)
  BY <1>1 DEF Waited
<1>4. Heard(t)
  BY <1>1, <1>2 DEF Heard
<1> QED BY <1>3, <1>4

\* What is left to be torn down follows what is.
LEMMA AgreesDestroyed ==
    ASSUME NEW v \in Worlds, NEW left, Agrees(v, left), NEW o \in Object, v.life[o] = "raw",
           NEW t, t.life = [v.life EXCEPT ![o] = "none"], t.history = v.history,
           t.recording = v.recording, t.holder = v.holder
    PROVE  Agrees(t, left \ {<<o, "destroy">>})
<1> DEFINE new == left \ {<<o, "destroy">>}
<1> SUFFICES ASSUME NEW p \in Object
             PROVE  /\ <<p, "destroy">> \in new <=> t.life[p] # "none"
                    /\ <<p, "terminate">> \in new <=> t.life[p] \in Live
                    /\ <<p, "history">> \in new <=> t.history[p]
                    /\ t.history[p] \/ t.recording[p] => t.life[p] \in Live /\ p \in Keepers
                    /\ p \in Resource => (t.holder[p] # None => t.life[p] \in Live)
  BY DEF Agrees
<1>1. t.life[p] = IF p = o THEN "none" ELSE v.life[p]
  BY DEF Worlds
<1> QED BY <1>1 DEF Agrees, Live

LEMMA AgreesForgotten ==
    ASSUME NEW v \in Worlds, NEW left, Agrees(v, left), NEW o \in Object,
           NEW t, t.life = v.life, t.history = [v.history EXCEPT ![o] = FALSE],
           t.recording = v.recording, t.holder = v.holder
    PROVE  Agrees(t, left \ {<<o, "history">>})
<1> DEFINE new == left \ {<<o, "history">>}
<1> SUFFICES ASSUME NEW p \in Object
             PROVE  /\ <<p, "destroy">> \in new <=> t.life[p] # "none"
                    /\ <<p, "terminate">> \in new <=> t.life[p] \in Live
                    /\ <<p, "history">> \in new <=> t.history[p]
                    /\ t.history[p] \/ t.recording[p] => t.life[p] \in Live /\ p \in Keepers
                    /\ p \in Resource => (t.holder[p] # None => t.life[p] \in Live)
  BY DEF Agrees
<1>1. t.history[p] = IF p = o THEN FALSE ELSE v.history[p]
  BY DEF Worlds
<1> QED BY <1>1 DEF Agrees

TornAt(v, o, t, p) ==
    /\ t.life[p] = IF p = o THEN "raw" ELSE v.life[p]
    /\ t.history[p] = IF p = o /\ o \in Keepers THEN FALSE ELSE v.history[p]
    /\ t.recording[p] = IF p = o /\ o \in Keepers THEN FALSE ELSE v.recording[p]
    /\ p \in Resource => t.holder[p] = IF p = o THEN None ELSE v.holder[p]

LEMMA TornValues ==
    ASSUME NEW v \in Worlds, NEW o \in Object, NEW t, TornFrom(v, o, t), NEW p \in Object
    PROVE  TornAt(v, o, t, p)
<1>1. t.life[p] = IF p = o THEN "raw" ELSE v.life[p]
  BY DEF TornFrom, Worlds
<1>2. /\ v.history \in [Object -> BOOLEAN] /\ v.recording \in [Object -> BOOLEAN]
      /\ t.history = IF o \in Keepers THEN [v.history EXCEPT ![o] = FALSE] ELSE v.history
      /\ t.recording = IF o \in Keepers THEN [v.recording EXCEPT ![o] = FALSE] ELSE v.recording
  BY DEF TornFrom, Worlds
<1>3. t.history[p] = IF p = o /\ o \in Keepers THEN FALSE ELSE v.history[p]
  BY <1>2
<1>4. t.recording[p] = IF p = o /\ o \in Keepers THEN FALSE ELSE v.recording[p]
  BY <1>2
<1>5. /\ v.holder \in [Resource -> Someone \cup {None}]
      /\ t.holder = IF o \in Resource THEN [v.holder EXCEPT ![o] = None] ELSE v.holder
  BY DEF TornFrom, Worlds
<1>6. p \in Resource => t.holder[p] = IF p = o THEN None ELSE v.holder[p]
  BY <1>5
<1> QED BY <1>1, <1>3, <1>4, <1>6 DEF TornAt

LEMMA AgreesTerminated ==
    ASSUME NEW v \in Worlds, NEW left, Agrees(v, left), NEW o \in Object, v.life[o] \in Live,
           NEW t, TornFrom(v, o, t)
    PROVE  Agrees(t, left \ {<<o, "terminate">>, <<o, "history">>})
<1> DEFINE new == left \ {<<o, "terminate">>, <<o, "history">>}
<1> SUFFICES ASSUME NEW p \in Object
             PROVE  /\ <<p, "destroy">> \in new <=> t.life[p] # "none"
                    /\ <<p, "terminate">> \in new <=> t.life[p] \in Live
                    /\ <<p, "history">> \in new <=> t.history[p]
                    /\ t.history[p] \/ t.recording[p] => t.life[p] \in Live /\ p \in Keepers
                    /\ p \in Resource => (t.holder[p] # None => t.life[p] \in Live)
  BY DEF Agrees
<1>1. TornAt(v, o, t, p)
  BY TornValues
<1>2. CASE p = o
  BY <1>1, <1>2 DEF TornAt, Agrees, Live
<1>3. CASE p # o
  BY <1>1, <1>3 DEF TornAt, Agrees
<1> QED BY <1>2, <1>3

LEMMA CreatedSound ==
    ASSUME NEW v \in Worlds, Sound(v), NEW o \in Object, v.life[o] = "none", NEW t,
           t = Registered([v EXCEPT !.life[o] = "raw"], <<o, "destroy">>)
    PROVE  t \in Worlds /\ SameThread(v, t) /\ Sound(t)
<1> DEFINE x == <<o, "destroy">>  s == <<x>> \o v.registry  left == Left(v.registry, 0)
<1>1. s \in Seq(Items) /\ x \in Items /\ v.registry \in Seq(Items)
  BY EntryType DEF Worlds, Duties, Items
<1>2. t = [v EXCEPT !.life = [v.life EXCEPT ![o] = "raw"], !.registry = s, !.linked = TRUE]
  BY DEF Registered, Worlds
<1>3. x \notin left /\ <<o, "terminate">> \notin left
  BY DEF Sound, Agrees, Live
<1>4. Orderly(s) /\ Left(s, 0) = left \cup {x}
  BY <1>1, <1>3, EnteredKeeps DEF Sound
<1> HIDE DEF s, left
<1>5. [v.life EXCEPT ![o] = "raw"] \in [Object -> Lives]
  BY DEF Worlds, Lives
<1>6. t \in Worlds /\ SameThread(v, t)
  BY <1>1, <1>2, <1>5 DEF Worlds, SameThread
<1>7. /\ t.registry = s /\ t.life = [v.life EXCEPT ![o] = "raw"] /\ t.history = v.history
      /\ t.recording = v.recording /\ t.holder = v.holder /\ t.queued = v.queued
      /\ t.observers = v.observers
  BY <1>2 DEF Worlds
<1>8. Agrees(t, left \cup {x})
  <2> SUFFICES ASSUME NEW p \in Object
               PROVE  /\ <<p, "destroy">> \in left \cup {x} <=> t.life[p] # "none"
                      /\ <<p, "terminate">> \in left \cup {x} <=> t.life[p] \in Live
                      /\ <<p, "history">> \in left \cup {x} <=> t.history[p]
                      /\ t.history[p] \/ t.recording[p] => t.life[p] \in Live /\ p \in Keepers
                      /\ p \in Resource => (t.holder[p] # None => t.life[p] \in Live)
    BY DEF Agrees
  <2>1. Agrees(v, left)
    BY DEF Sound, left
  <2>2. t.life[p] = IF p = o THEN "raw" ELSE v.life[p]
    BY <1>7 DEF Worlds
  <2> QED BY <1>3, <1>7, <2>1, <2>2 DEF Agrees, Live
<1>9. Waited(t) /\ Heard(t)
  <2>1. \A p \in Object : v.life[p] # "none" => t.life[p] # "none"
    BY <1>7 DEF Worlds
  <2> QED BY <1>7, <2>1, StillWaited DEF Sound
<1> QED BY <1>4, <1>6, <1>7, <1>8, <1>9 DEF Sound

LEMMA InitializedSound ==
    ASSUME NEW v \in Worlds, Sound(v), NEW o \in Object, v.life[o] = "raw"
    PROVE  LET t == Initialized(v, o) IN t \in Worlds /\ SameThread(v, t) /\ Sound(t)
<1> DEFINE t == Initialized(v, o)
           x == <<o, "terminate">>  y == <<o, "history">>
           s == <<x>> \o v.registry  u == <<y>> \o s  left == Left(v.registry, 0)
           new == IF o \in Keepers THEN {x, y} ELSE {x}
<1>1. MadeFrom(v, o, t)
  BY InitializedFields
<1> HIDE DEF t
<1>2. v.registry \in Seq(Items) /\ s \in Seq(Items) /\ x \in Items /\ y \in Items
  BY EntryType DEF Worlds, Duties, Items
<1>3. Agrees(v, left) /\ x \notin left /\ y \notin left
  BY DEF Sound, Agrees, Live
<1>4. Orderly(s) /\ Left(s, 0) = left \cup {x}
  <2>1. v.registry \in Seq(Items) /\ Orderly(v.registry)
    BY DEF Worlds, Sound
  <2>2. \A q \in Object :
          /\ x = <<q, "destroy">> => <<q, "terminate">> \notin left
          /\ x = <<q, "terminate">> => <<q, "history">> \notin left
    <3>1. \A q \in Object : x # <<q, "destroy">> /\ (x = <<q, "terminate">> => q = o)
      OBVIOUS
    <3> QED BY <1>3, <3>1
  <2> HIDE DEF x, y
  <2> QED BY <1>2, <1>3, <2>1, <2>2, EnteredKeeps
<1> HIDE DEF s, left
<1>5. y \notin Left(s, 0)
  BY <1>3, <1>4
<1>6. Orderly(u) /\ Left(u, 0) = Left(s, 0) \cup {y}
  <2>1. \A q \in Object : y # <<q, "destroy">> /\ y # <<q, "terminate">>
    OBVIOUS
  <2> HIDE DEF x, y
  <2> QED BY <1>2, <1>4, <1>5, <2>1, EnteredKeeps
<1> HIDE DEF u
<1>7. Orderly(t.registry) /\ Left(t.registry, 0) = left \cup new
  <2>1. CASE o \in Keepers
    <3>1. t.registry = u
      BY <1>1, <2>1 DEF MadeFrom, u, s
    <3> QED BY <1>4, <1>6, <2>1, <3>1
  <2>2. CASE o \notin Keepers
    <3>1. t.registry = s
      BY <1>1, <2>2 DEF MadeFrom, s
    <3> QED BY <1>4, <2>2, <3>1
  <2> QED BY <2>1, <2>2
<1>8. Agrees(t, left \cup new)
  <2> SUFFICES ASSUME NEW p \in Object
               PROVE  /\ <<p, "destroy">> \in left \cup new <=> t.life[p] # "none"
                      /\ <<p, "terminate">> \in left \cup new <=> t.life[p] \in Live
                      /\ <<p, "history">> \in left \cup new <=> t.history[p]
                      /\ t.history[p] \/ t.recording[p] => t.life[p] \in Live /\ p \in Keepers
                      /\ p \in Resource => (t.holder[p] # None => t.life[p] \in Live)
    BY DEF Agrees
  <2>1. /\ t.life[p] = IF p = o THEN "ready" ELSE v.life[p]
        /\ t.history[p] = IF p = o /\ o \in Keepers THEN TRUE ELSE v.history[p]
        /\ t.recording = v.recording /\ t.holder = v.holder
    <3>1. v.life \in [Object -> Lives] /\ v.history \in [Object -> BOOLEAN]
      BY DEF Worlds
    <3>2. /\ t.life = [v.life EXCEPT ![o] = "ready"]
          /\ t.recording = v.recording /\ t.holder = v.holder
          /\ t.history = IF o \in Keepers THEN [v.history EXCEPT ![o] = TRUE] ELSE v.history
      BY <1>1 DEF MadeFrom
    <3> QED BY <3>1, <3>2
  <2>2. CASE p = o
    BY <1>3, <2>1, <2>2 DEF Agrees, Live
  <2>3. CASE p # o
    BY <1>3, <2>1, <2>3 DEF Agrees
  <2> QED BY <2>2, <2>3
<1>9. Waited(t) /\ Heard(t)
  <2>1. \A p \in Object : v.life[p] # "none" => t.life[p] # "none"
    BY <1>1 DEF MadeFrom, Worlds
  <2>2. t.holder = v.holder /\ t.queued = v.queued
    BY <1>1 DEF MadeFrom
  <2>3. \A r \in Resource : t.observers[r] \subseteq v.observers[r]
    BY <1>1 DEF MadeFrom, Worlds
  <2> QED BY <2>1, <2>2, <2>3, StillWaited DEF Sound
<1>10. t \in Worlds /\ SameThread(v, t)
  BY <1>1 DEF MadeFrom
<1> QED BY <1>7, <1>8, <1>9, <1>10 DEF Sound, t

LEMMA TerminatedSound ==
    ASSUME NEW v \in Worlds, Sound(v), NEW o \in Object, v.life[o] \in Live
    PROVE  LET t == Terminated(v, o) IN t \in Worlds /\ SameThread(v, t) /\ Sound(t)
<1> DEFINE t == Terminated(v, o)
           x == <<o, "terminate">>  y == <<o, "history">>
           s == Unlinked(v.registry, y)  left == Left(v.registry, 0)
<1>1. TornFrom(v, o, t)
  BY TerminatedFields
<1> HIDE DEF t
<1>2. v.registry \in Seq(Items) /\ s \in Seq(Items)
  BY UnlinkedType DEF Worlds
<1>3. Agrees(v, left) /\ Orderly(v.registry) /\ (o \notin Keepers => y \notin left)
  BY DEF Sound, Agrees
<1>4. Orderly(s) /\ Left(s, 0) = left \ {y}
  BY <1>2, <1>3, UnlinkedKeeps
<1>5. Orderly(Unlinked(s, x)) /\ Left(Unlinked(s, x), 0) = Left(s, 0) \ {x}
  BY <1>2, <1>4, UnlinkedKeeps
<1>6. Orderly(Unlinked(v.registry, x)) /\ Left(Unlinked(v.registry, x), 0) = left \ {x}
  BY <1>2, <1>3, UnlinkedKeeps
<1>7. t.registry = IF o \in Keepers THEN Unlinked(s, x) ELSE Unlinked(v.registry, x)
  BY <1>1 DEF TornFrom
<1> HIDE DEF s, left
<1>8. Orderly(t.registry) /\ Left(t.registry, 0) = left \ {x, y}
  <2>1. CASE o \in Keepers
    BY <1>4, <1>5, <1>7, <2>1
  <2>2. CASE o \notin Keepers
    BY <1>3, <1>6, <1>7, <2>2
  <2> QED BY <2>1, <2>2
<1>9. Agrees(t, left \ {x, y})
  BY <1>1, <1>3, AgreesTerminated
<1>10. Waited(t) /\ Heard(t)
  <2>1. \A p \in Object : v.life[p] # "none" => t.life[p] # "none"
    BY <1>1 DEF TornFrom, Worlds
  <2>2. t.queued = v.queued /\ t.observers = v.observers
    BY <1>1 DEF TornFrom
  <2>3. \A r \in Resource : t.holder[r] # None => v.holder[r] # None
    BY <1>1 DEF TornFrom, Worlds
  <2> QED BY <2>1, <2>2, <2>3, StillWaited DEF Sound
<1>11. t \in Worlds /\ SameThread(v, t)
  BY <1>1 DEF TornFrom
<1> QED BY <1>8, <1>9, <1>10, <1>11 DEF Sound, t

\* What is freed has no queue and no observers.
FreedFrom(v, o, t) ==
    /\ t \in Worlds /\ SameThread(v, t) /\ t.linked = v.linked
    /\ t.life = [v.life EXCEPT ![o] = "none"] /\ t.history = v.history
    /\ t.recording = v.recording /\ t.holder = v.holder /\ t.registry = v.registry
    /\ \A g \in Guarded : t.queued[g] = IF g = o THEN {} ELSE v.queued[g]
    /\ \A r \in Resource : t.observers[r] = IF r = o THEN {} ELSE v.observers[r]

LEMMA FreedFields ==
    ASSUME NEW v \in Worlds, NEW o \in Object PROVE FreedFrom(v, o, Freed(v, o))
<1> DEFINE t == Freed(v, o)
           l == [v.life EXCEPT ![o] = "none"]
           q == [g \in Guarded |-> IF g = o THEN {} ELSE v.queued[g]]
           b == [r \in Resource |-> IF r = o THEN {} ELSE v.observers[r]]
<1>1. t = [v EXCEPT !.life = l, !.queued = q, !.observers = b]
  BY DEF Freed, Worlds
<1>2. /\ l \in [Object -> Lives] /\ q \in [Guarded -> SUBSET Someone]
      /\ b \in [Resource -> SUBSET Condition]
  BY DEF Worlds, Lives
<1>3. /\ \A g \in Guarded : q[g] = IF g = o THEN {} ELSE v.queued[g]
      /\ \A r \in Resource : b[r] = IF r = o THEN {} ELSE v.observers[r]
  OBVIOUS
<1> HIDE DEF t, l, q, b
<1>4. t \in Worlds /\ t.life = l /\ t.queued = q /\ t.observers = b
  BY <1>1, <1>2 DEF Worlds
<1>5. FreedFrom(v, o, t)
  BY <1>1, <1>3, <1>4 DEF FreedFrom, Worlds, SameThread, l
<1> QED BY <1>5 DEF t

LEMMA FreedWaited ==
    ASSUME NEW v \in Worlds, Waited(v), NEW o \in Object, NEW t, FreedFrom(v, o, t)
    PROVE  Waited(t)
<1>1. \A p \in Object : p # o => t.life[p] = v.life[p]
  BY DEF FreedFrom, Worlds
<1>2. Guarded \subseteq Object /\ Resource \subseteq Object
  BY DEF Guarded, Resource, Condition
<1>3. \A g \in Guarded : t.queued[g] # {} => g # o /\ t.queued[g] = v.queued[g]
  BY DEF FreedFrom
<1>4. \A r \in Resource : t.observers[r] # {} => r # o /\ t.observers[r] = v.observers[r]
  BY DEF FreedFrom
<1> QED BY <1>1, <1>2, <1>3, <1>4 DEF Waited

LEMMA DestroyedSound ==
    ASSUME NEW v \in Worlds, Sound(v), NEW o \in Object, v.life[o] = "raw",
           \A r \in Resource : o \in v.observers[r] => v.holder[r] = None,
           NEW t, t = Unregistered(Freed(v, o), <<o, "destroy">>)
    PROVE  t \in Worlds /\ SameThread(v, t) /\ Sound(t)
<1> DEFINE x == <<o, "destroy">>  s == Unlinked(v.registry, x)  left == Left(v.registry, 0)
           u == Freed(v, o)
<1>1. s \in Seq(Items) /\ v.registry \in Seq(Items)
  BY UnlinkedType DEF Worlds
<1>2. FreedFrom(v, o, u)
  BY FreedFields
<1>3. t = [u EXCEPT !.registry = s]
  BY <1>2 DEF Unregistered, FreedFrom, Worlds
<1>4. Agrees(v, left) /\ Orderly(v.registry)
  BY DEF Sound
<1>5. Orderly(s) /\ Left(s, 0) = left \ {x}
  BY <1>1, <1>4, UnlinkedKeeps
<1> HIDE DEF s, left, u
<1>6. /\ t \in Worlds /\ SameThread(u, t) /\ t.registry = s /\ t.life = u.life
      /\ t.history = u.history /\ t.recording = u.recording /\ t.holder = u.holder
      /\ t.queued = u.queued /\ t.observers = u.observers
  BY <1>1, <1>2, <1>3 DEF FreedFrom, Worlds, SameThread
<1>7. Agrees(t, left \ {x})
  BY <1>2, <1>4, <1>6, AgreesDestroyed DEF FreedFrom
<1>8. Waited(t)
  <2>1. Waited(u)
    BY <1>2, FreedWaited DEF Sound
  <2> QED BY <1>6, <2>1 DEF Waited
<1>9. Heard(t)
  <2> SUFFICES ASSUME NEW r \in Resource, t.holder[r] # None, NEW c \in t.observers[r]
               PROVE  t.life[c] # "none"
    BY DEF Heard
  <2>1. r # o /\ v.holder[r] # None /\ c \in v.observers[r]
    BY <1>2, <1>6 DEF FreedFrom
  <2>2. c # o /\ c \in Object /\ v.life[c] # "none"
    BY <2>1 DEF Sound, Heard, Worlds, Condition
  <2> QED BY <1>2, <1>6, <2>2 DEF FreedFrom, Worlds
<1>10. SameThread(v, t)
  BY <1>2, <1>6 DEF FreedFrom, SameThread
<1> QED BY <1>5, <1>6, <1>7, <1>8, <1>9, <1>10 DEF Sound

-----------------------------------------------------------------------------
(* The demolition of a registry.                                           *)

LEMMA LeastNatural ==
    ASSUME NEW T \in SUBSET Nat, T # {}
    PROVE  \E x \in T : \A y \in T : x <= y
<1> DEFINE R == OpToRel(<, Nat)
<1>1. IsWellFoundedOn(R, Nat)
  BY NatLessThanWellFounded
<1>2. \A x, y \in Nat : x < y => <<x, y>> \in R
  BY DEF OpToRel
<1> HIDE DEF R
<1>3. PICK x \in T : \A y \in T : ~(<<y, x>> \in R)
  BY <1>1, WFMin
<1>4. \A y \in T : ~(y < x)
  BY <1>2, <1>3
<1> QED BY <1>4

\* The function that takes the demolition from item to item exists.
Goes(v, f, m) ==
    f = [i \in 0 .. m |-> IF i = 0 THEN [ok |-> TRUE, sure |-> TRUE, w |-> v]
                          ELSE Torn(f[i - 1], v.registry[i])]

LEMMA GoesOn ==
    ASSUME NEW v, NEW m \in Nat, NEW f, Goes(v, f, m)
    PROVE  \E g : Goes(v, g, m + 1)
<1> DEFINE first == [ok |-> TRUE, sure |-> TRUE, w |-> v]
           Step(d, i) == Torn(d, v.registry[i])
           g == [i \in 0 .. m + 1 |-> IF i = m + 1 THEN Step(f[m], m + 1) ELSE f[i]]
<1>1. f = [i \in 0 .. m |-> IF i = 0 THEN first ELSE Step(f[i - 1], i)]
  BY DEF Goes
<1> HIDE DEF first, Step
<1>2. \A i \in 0 .. m : f[i] = IF i = 0 THEN first ELSE Step(f[i - 1], i)
  BY <1>1
<1>3. ASSUME NEW i \in 0 .. m + 1
      PROVE  g[i] = IF i = 0 THEN first ELSE Step(g[i - 1], i)
  <2>1. CASE i = 0
    <3>1. g[0] = f[0] /\ f[0] = first
      BY <1>2
    <3> QED BY <2>1, <3>1
  <2>2. CASE i \in 1 .. m
    <3>1. i \in 0 .. m /\ i - 1 \in 0 .. m /\ i # 0 /\ i # m + 1 /\ i - 1 # m + 1
      BY <2>2
    <3>2. g[i] = f[i] /\ g[i - 1] = f[i - 1]
      BY <3>1
    <3> QED BY <1>2, <3>1, <3>2
  <2>3. CASE i = m + 1
    <3>1. g[m + 1] = Step(f[m], m + 1) /\ g[m] = f[m] /\ (m + 1) - 1 = m /\ m + 1 # 0
      OBVIOUS
    <3> QED BY <2>3, <3>1
  <2> QED BY <2>1, <2>2, <2>3
<1>4. g = [i \in 0 .. m + 1 |-> g[i]]
  OBVIOUS
<1> HIDE DEF g
<1>5. g = [i \in 0 .. m + 1 |-> IF i = 0 THEN first ELSE Step(g[i - 1], i)]
  BY <1>3, <1>4
<1> QED BY <1>5 DEF Goes, first, Step

LEMMA GoesThrough == ASSUME NEW v, NEW n \in Nat PROVE \E f : Goes(v, f, n)
<1> DEFINE Stuck == {m \in Nat : ~\E f : Goes(v, f, m)}
<1> SUFFICES ASSUME Stuck # {} PROVE FALSE
  OBVIOUS
<1>1. PICK m \in Stuck : \A k \in Stuck : m <= k
  BY LeastNatural
<1>2. m \in Nat /\ ~\E f : Goes(v, f, m)
  OBVIOUS
<1>3. CASE m = 0
  <2> DEFINE f == [i \in 0 .. 0 |-> [ok |-> TRUE, sure |-> TRUE, w |-> v]]
  <2>1. Goes(v, f, 0)
    BY DEF Goes
  <2> QED BY <1>2, <1>3, <2>1
<1>4. CASE m # 0
  <2>1. m - 1 \in Nat /\ m - 1 \notin Stuck /\ (m - 1) + 1 = m
    BY <1>1, <1>2, <1>4
  <2>2. PICK f : Goes(v, f, m - 1)
    BY <2>1
  <2>3. \E g : Goes(v, g, (m - 1) + 1)
    BY <2>1, <2>2, GoesOn
  <2> QED BY <1>2, <2>1, <2>3
<1> QED BY <1>3, <1>4

LEMMA DemolitionSteps ==
    ASSUME NEW v, Len(v.registry) \in Nat
    PROVE  LET d == Demolition(v)
           IN  /\ d[0] = [ok |-> TRUE, sure |-> TRUE, w |-> v]
               /\ \A i \in 1 .. Len(v.registry) : d[i] = Torn(d[i - 1], v.registry[i])
<1> DEFINE n == Len(v.registry)  d == Demolition(v)
<1>1. d = CHOOSE f : Goes(v, f, n)
  BY DEF Demolition, Goes
<1>2. \E f : Goes(v, f, n)
  BY GoesThrough
<1> HIDE DEF d, n
<1>3. Goes(v, d, n)
  BY <1>1, <1>2
<1>4. \A i \in 0 .. n : d[i] = IF i = 0 THEN [ok |-> TRUE, sure |-> TRUE, w |-> v]
                                ELSE Torn(d[i - 1], v.registry[i])
  BY <1>3 DEF Goes
<1>5. n \in Nat
  BY DEF n
<1>6. 0 \in 0 .. n /\ \A i \in 1 .. n : i \in 0 .. n /\ i # 0
  BY <1>5
<1> QED BY <1>4, <1>6 DEF d, n

\* A demolition takes away; the items that are left agree with what is left of
\* the objects, and only a resource in trouble makes it go wrong.
Less(v, u) ==
    /\ \A g \in Guarded : u.queued[g] \subseteq v.queued[g]
    /\ \A r \in Resource :
           /\ u.observers[r] \subseteq v.observers[r]
           /\ u.holder[r] # None => v.holder[r] # None
           /\ u.recording[r] => v.recording[r]
Standing(v, d, i) ==
    /\ d = [ok |-> d.ok, sure |-> d.sure, w |-> d.w] /\ d.ok \in BOOLEAN /\ d.sure \in BOOLEAN
    /\ d.w \in Worlds /\ SameThread(v, d.w) /\ d.w.linked = v.linked
    /\ Agrees(d.w, Left(v.registry, i)) /\ Waited(d.w) /\ Less(v, d.w)
    /\ ~Trouble(v) => d.ok /\ d.sure

LEMMA LeftNext ==
    ASSUME NEW s, Len(s) \in Nat, Orderly(s), NEW i \in 1 .. Len(s)
    PROVE  /\ Left(s, i) = Left(s, i - 1) \ {s[i]} /\ s[i] \in Left(s, i - 1)
           /\ \A o \in Object :
                  /\ s[i] = <<o, "destroy">> => <<o, "terminate">> \notin Left(s, i - 1)
                  /\ s[i] = <<o, "terminate">> => <<o, "history">> \notin Left(s, i - 1)
<1>1. ASSUME NEW y PROVE y \in Left(s, i) <=> y \in Left(s, i - 1) /\ y # s[i]
  <2>1. ASSUME NEW j \in i + 1 .. Len(s), y = s[j] PROVE y \in Left(s, i - 1) /\ y # s[i]
    BY <2>1 DEF Left, Orderly, Distinct
  <2>2. ASSUME NEW j \in (i - 1) + 1 .. Len(s), y = s[j], y # s[i] PROVE y \in Left(s, i)
    <3>1. j \in i + 1 .. Len(s)
      BY <2>2
    <3> QED BY <2>2, <3>1 DEF Left
  <2> QED BY <2>1, <2>2 DEF Left
<1>2. s[i] \in Left(s, i - 1)
  BY DEF Left
<1>3. ASSUME NEW x, NEW y, Ahead(s, x, y), s[i] = y PROVE x \notin Left(s, i - 1)
  BY <1>3 DEF Ahead, Left
<1> QED BY <1>1, <1>2, <1>3 DEF Orderly, InOrder

(* A signal to an observer in whose queue somebody is, or that is gone.  If *)
(* it is gone, its destructor was before this one.                          *)
LEMMA EchoesTrouble ==
    ASSUME NEW v \in Worlds, Sound(v), NEW i \in 1 .. Len(v.registry), NEW u \in Worlds,
           Agrees(u, Left(v.registry, i - 1)), Less(v, u), Echoes(u, v.registry[i])
    PROVE  Trouble(v)
<1>1. v.registry \in Seq(Items) /\ Len(v.registry) \in Nat
  BY DEF Worlds
<1>2. PICK o \in Object, k \in Duties : v.registry[i] = <<o, k>>
  BY <1>1 DEF Items
<1>3. k = "terminate" /\ o \in Resource /\ u.holder[o] # None
  BY <1>2 DEF Echoes
<1>4. PICK c \in u.observers[o] : ~Quiet(u, c)
  BY <1>2 DEF Echoes
<1>5. c \in v.observers[o] /\ c \in Condition /\ c \in Guarded /\ c \in Object
  BY <1>3, <1>4 DEF Less, Worlds, Guarded, Condition
<1>6. v.holder[o] # None /\ u.queued[c] \subseteq v.queued[c]
  BY <1>3, <1>5 DEF Less
<1>7. CASE u.queued[c] # {}
  <2>1. v.queued[c] # {}
    BY <1>6, <1>7
  <2> QED BY <1>3, <1>5, <1>6, <2>1 DEF Trouble, Overheard
<1>8. CASE u.life[c] = "none"
  <2> DEFINE x == <<c, "destroy">>
  <2>1. x \notin Left(v.registry, i - 1)
    BY <1>5, <1>8 DEF Agrees
  <2>2. v.life[c] # "none"
    BY <1>3, <1>5, <1>6 DEF Sound, Heard
  <2>3. x \in Left(v.registry, 0)
    BY <1>5, <2>2 DEF Sound, Agrees
  <2> HIDE DEF x
  <2>4. PICK j \in 0 + 1 .. Len(v.registry) : v.registry[j] = x
    BY <2>3 DEF Left
  <2>5. ~(j \in (i - 1) + 1 .. Len(v.registry))
    BY <2>1, <2>4 DEF Left
  <2>6. j \in 1 .. Len(v.registry) /\ j < i
    BY <1>1, <2>4, <2>5
  <2>7. Before(v.registry, x, <<o, "terminate">>)
    BY <1>2, <1>3, <2>4, <2>6 DEF Before
  <2> QED BY <1>3, <1>5, <1>6, <2>7 DEF Trouble, Overheard, x
<1> QED BY <1>4, <1>7, <1>8 DEF Quiet

LEMMA TornStands ==
    ASSUME NEW v \in Worlds, Sound(v), v.main, NEW i \in 1 .. Len(v.registry),
           NEW d, Standing(v, d, i - 1)
    PROVE  Standing(v, Torn(d, v.registry[i]), i)
<1> DEFINE item == v.registry[i]  old == Left(v.registry, i - 1)  left == Left(v.registry, i)
           e == Torn(d, item)  u == d.w  t == TornDown(u, item)
<1>1. v.registry \in Seq(Items) /\ Len(v.registry) \in Nat /\ Orderly(v.registry)
  BY DEF Worlds, Sound
<1>2. PICK o \in Object, k \in Duties : item = <<o, k>>
  BY <1>1 DEF Items
<1>3. /\ left = old \ {item} /\ item \in old
      /\ k = "destroy" => <<o, "terminate">> \notin old
      /\ k = "terminate" => <<o, "history">> \notin old
  BY <1>1, <1>2, LeftNext
<1>4. /\ e = [ok |-> e.ok, sure |-> e.sure, w |-> e.w] /\ e.w = t
      /\ e.ok = (d.ok /\ TeardownAllowed(u, item)) /\ e.sure = (d.sure /\ ~Echoes(u, item))
  BY DEF Torn
<1>5. /\ u \in Worlds /\ u.main /\ Agrees(u, old) /\ Waited(u) /\ Less(v, u)
      /\ SameThread(v, u) /\ u.linked = v.linked /\ (~Trouble(v) => d.ok /\ d.sure)
  BY DEF Standing, SameThread
<1>6. ~Trouble(v) => e.sure
  BY <1>4, <1>5, EchoesTrouble
<1>7. t = TornDown(u, <<o, k>>)
  BY <1>2
<1> DEFINE Allowed == TeardownAllowed(u, <<o, k>>)
<1>8. e.ok = (d.ok /\ Allowed) /\ e.ok \in BOOLEAN /\ e.sure \in BOOLEAN
  BY <1>2, <1>4 DEF Standing
<1>9. left = old \ {<<o, k>>} /\ <<o, k>> \in old
  BY <1>2, <1>3
<1> HIDE DEF left, old, e, u, item
\* What is to be shown of the memory and of the assertions.
<1> DEFINE Rest ==
        /\ t \in Worlds /\ SameThread(u, t) /\ t.linked = u.linked
        /\ Agrees(t, left) /\ Waited(t) /\ Less(u, t)
        /\ ~Trouble(v) => Allowed
<1>10. ASSUME k = "destroy" PROVE Rest
  <2>1. t = Freed(u, o)
    BY <1>7, <1>10 DEF TornDown
  <2>2. FreedFrom(u, o, t)
    BY <1>5, <2>1, FreedFields
  <2>3. u.life[o] = "raw"
    <3>1. u.life[o] \in Lives /\ u.life[o] # "none" /\ u.life[o] \notin Live
      BY <1>3, <1>5, <1>9, <1>10 DEF Agrees, Worlds
    <3> QED BY <3>1 DEF Lives, Live
  <2>4. Allowed
    BY <1>5, <1>10, <2>3 DEF TeardownAllowed
  <2> HIDE DEF t, Allowed
  <2>5. Agrees(t, left)
    BY <1>5, <1>9, <1>10, <2>2, <2>3, AgreesDestroyed DEF FreedFrom
  <2>6. Waited(t)
    BY <1>5, <2>2, FreedWaited
  <2>7. Less(u, t)
    BY <2>2 DEF FreedFrom, Less
  <2> QED BY <2>2, <2>4, <2>5, <2>6, <2>7 DEF FreedFrom
<1>11. ASSUME k = "terminate" PROVE Rest
  <2>1. TornFrom(u, o, t)
    <3>1. t = Terminated(u, o)
      BY <1>7, <1>11 DEF TornDown
    <3> QED BY <1>5, <3>1, TerminatedFields
  <2> HIDE DEF t
  <2>2. u.life[o] \in Live
    BY <1>5, <1>9, <1>11 DEF Agrees
  <2>3. left = old \ {<<o, "terminate">>, <<o, "history">>}
    BY <1>3, <1>9, <1>11
  <2>4. Agrees(t, left)
    BY <1>5, <2>1, <2>2, <2>3, AgreesTerminated
  <2>5. /\ t \in Worlds /\ SameThread(u, t) /\ t.linked = u.linked
        /\ t.queued = u.queued /\ t.observers = u.observers
    BY <2>1 DEF TornFrom
  <2>6. \A p \in Object :
            /\ t.life[p] = IF p = o THEN "raw" ELSE u.life[p]
            /\ t.recording[p] = IF p = o /\ o \in Keepers THEN FALSE ELSE u.recording[p]
            /\ p \in Resource => t.holder[p] = IF p = o THEN None ELSE u.holder[p]
    <3>1. \A p \in Object : TornAt(u, o, t, p)
      BY <1>5, <2>1, TornValues
    <3> QED BY <3>1 DEF TornAt
  <2>7. Less(u, t)
    <3>1. \A r \in Resource : r \in Object
      BY DEF Resource
    <3> QED BY <2>5, <2>6, <3>1 DEF Less
  <2>8. o \in Resource =>
            (u.queued[o] = {} /\ ~(u.holder[o] # None /\ u.recording[o]) => Allowed)
    BY <1>11 DEF TeardownAllowed, Process, Resource, Sampled
  <2>9. o \notin Resource => Allowed
    BY <1>5, <1>11 DEF TeardownAllowed
  <2> HIDE DEF Allowed
  <2>10. Waited(t)
    <3>1. \A p \in Object : u.life[p] # "none" => t.life[p] # "none"
      BY <2>6
    <3>2. Guarded \subseteq Object /\ Resource \subseteq Object
      BY DEF Guarded, Resource, Condition
    <3> QED BY <1>5, <2>5, <3>1, <3>2 DEF Waited
  <2>11. ~Trouble(v) => Allowed
    <3>1. o \in Resource =>
              /\ u.queued[o] # {} => v.queued[o] # {}
              /\ u.holder[o] # None /\ u.recording[o] => v.holder[o] # None /\ v.recording[o]
      BY <1>5 DEF Less, Guarded
    <3> QED BY <2>8, <2>9, <3>1 DEF Trouble
  <2> QED BY <2>4, <2>5, <2>7, <2>10, <2>11
<1>12. ASSUME k = "history" PROVE Rest
  <2>1. t = [u EXCEPT !.history = [u.history EXCEPT ![o] = FALSE]]
    BY <1>5, <1>7, <1>12 DEF TornDown, Worlds
  <2>2. Allowed
    BY <1>12 DEF TeardownAllowed
  <2>3. [u.history EXCEPT ![o] = FALSE] \in [Object -> BOOLEAN]
    BY <1>5 DEF Worlds
  <2> HIDE DEF t, Allowed
  <2>4. /\ t \in Worlds /\ SameThread(u, t) /\ t.linked = u.linked
        /\ t.queued = u.queued /\ t.observers = u.observers
        /\ t.holder = u.holder /\ t.recording = u.recording
        /\ t.life = u.life /\ t.history = [u.history EXCEPT ![o] = FALSE]
    BY <1>5, <2>1, <2>3 DEF Worlds, SameThread
  <2>5. Agrees(t, left)
    BY <1>5, <1>9, <1>12, <2>4, AgreesForgotten
  <2>6. Waited(t) /\ Less(u, t)
    BY <1>5, <2>4 DEF Waited, Less
  <2> QED BY <2>2, <2>4, <2>5, <2>6
<1> HIDE DEF Rest
<1>13. Rest
  <2>1. k = "destroy" \/ k = "terminate" \/ k = "history"
    BY DEF Duties
  <2> QED BY <1>10, <1>11, <1>12, <2>1, Zenon
<1> HIDE DEF t, Allowed
<1>14. Less(v, t)
  <2>1. Less(v, u) /\ Less(u, t)
    BY <1>5, <1>13 DEF Rest
  <2> QED BY <2>1 DEF Less
<1>15. t \in Worlds /\ SameThread(v, t) /\ t.linked = v.linked
  BY <1>5, <1>13 DEF Rest, SameThread
<1>16. Agrees(t, left) /\ Waited(t) /\ (~Trouble(v) => e.ok /\ e.sure)
  BY <1>5, <1>6, <1>8, <1>13 DEF Rest
<1>17. Standing(v, e, i)
  BY <1>4, <1>8, <1>14, <1>15, <1>16 DEF Standing, left
<1> QED BY <1>17 DEF e, item

LEMMA DemolitionStands ==
    ASSUME NEW v \in Worlds, Sound(v), v.main
    PROVE  \A i \in 0 .. Len(v.registry) : Standing(v, Demolition(v)[i], i)
<1> DEFINE d == Demolition(v)
           Falls == {i \in 0 .. Len(v.registry) : ~Standing(v, d[i], i)}
<1>1. Len(v.registry) \in Nat /\ Orderly(v.registry)
  BY DEF Worlds, Sound
<1>2. /\ d[0] = [ok |-> TRUE, sure |-> TRUE, w |-> v]
      /\ \A i \in 1 .. Len(v.registry) : d[i] = Torn(d[i - 1], v.registry[i])
  BY <1>1, DemolitionSteps
<1> HIDE DEF d
<1>3. Standing(v, d[0], 0)
  <2> DEFINE e == d[0]
  <2>1. e = [ok |-> TRUE, sure |-> TRUE, w |-> v]
    BY <1>2
  <2> HIDE DEF e
  <2>2. e.ok = TRUE /\ e.sure = TRUE /\ e.w = v
    BY <2>1
  <2>3. Standing(v, e, 0)
    BY <2>1, <2>2 DEF Standing, Less, SameThread, Sound
  <2> QED BY <2>3 DEF e
<1> SUFFICES ASSUME Falls # {} PROVE FALSE
  BY DEF d
<1>4. Falls \in SUBSET Nat
  BY <1>1
<1>5. PICK i \in Falls : \A j \in Falls : i <= j
  BY <1>4, LeastNatural
<1>6. i \in 1 .. Len(v.registry)
  BY <1>1, <1>3
<1>7. i - 1 \in 0 .. Len(v.registry) /\ i - 1 \notin Falls
  BY <1>1, <1>5, <1>6
<1>8. Standing(v, d[i - 1], i - 1)
  BY <1>7
<1>9. Standing(v, d[i], i)
  BY <1>1, <1>2, <1>6, <1>8, TornStands
<1> QED BY <1>9

\* A demolition that is not ended on the way leaves nothing.
LEMMA DemolishedClears ==
    ASSUME NEW v \in Worlds, Sound(v), v.main
    PROVE  LET end == Demolished(v)
           IN  /\ end.w \in Worlds /\ end.w.main
               /\ Cleared(end.w)
               /\ ~Trouble(v) => end.ok /\ end.sure
<1> DEFINE n == Len(v.registry)  d == Demolition(v)[n]  end == Demolished(v)
<1>1. n \in Nat
  BY DEF Worlds
<1>2. Standing(v, d, n)
  BY <1>1, DemolitionStands
<1> HIDE DEF d
<1>3. end = [ok |-> d.ok, sure |-> d.sure, w |-> [d.w EXCEPT !.registry = <<>>]]
  <2>1. end = [d EXCEPT !.w.registry = <<>>]
    BY DEF Demolished, d
  <2> QED BY <1>2, <2>1 DEF Standing
<1>4. end.ok = d.ok /\ end.sure = d.sure /\ end.w = [d.w EXCEPT !.registry = <<>>]
  BY <1>3
<1> HIDE DEF end
<1>5. d.w \in Worlds /\ d.w.main /\ Agrees(d.w, {}) /\ Waited(d.w)
  <2>1. Left(v.registry, n) = {}
    BY <1>1 DEF Left
  <2> QED BY <1>2, <2>1 DEF Standing, SameThread
<1>6. /\ end.w \in Worlds /\ end.w.main /\ end.w.registry = <<>>
      /\ end.w.life = d.w.life /\ end.w.history = d.w.history
      /\ end.w.recording = d.w.recording /\ end.w.holder = d.w.holder
      /\ end.w.queued = d.w.queued /\ end.w.observers = d.w.observers
  <2>1. <<>> \in Seq(Items)
    OBVIOUS
  <2> QED BY <1>4, <1>5, <2>1 DEF Worlds
<1>7. \A o \in Object : d.w.life[o] = "none" /\ d.w.history[o] = FALSE /\ d.w.recording[o] = FALSE
  BY <1>5 DEF Agrees, Live, Worlds
<1>8. /\ \A r \in Resource : d.w.holder[r] = None /\ d.w.observers[r] = {}
      /\ \A g \in Guarded : d.w.queued[g] = {}
  <2>1. Guarded \subseteq Object /\ Resource \subseteq Object
    BY DEF Guarded, Resource, Condition
  <2> QED BY <1>5, <1>7, <2>1 DEF Agrees, Waited, Live
<1>9. /\ d.w.life = [o \in Object |-> "none"] /\ d.w.history = [o \in Object |-> FALSE]
      /\ d.w.recording = [o \in Object |-> FALSE] /\ d.w.holder = [r \in Resource |-> None]
  <2> DEFINE u == d.w
  <2>1. /\ u.life \in [Object -> Lives] /\ u.history \in [Object -> BOOLEAN]
        /\ u.recording \in [Object -> BOOLEAN] /\ u.holder \in [Resource -> Someone \cup {None}]
    BY <1>5 DEF Worlds
  <2>2. /\ \A o \in Object : u.life[o] = "none" /\ u.history[o] = FALSE /\ u.recording[o] = FALSE
        /\ \A r \in Resource : u.holder[r] = None
    BY <1>7, <1>8
  <2> HIDE DEF u
  <2>3. u.life = [o \in Object |-> "none"]
    BY <2>1, <2>2
  <2>4. u.history = [o \in Object |-> FALSE] /\ u.recording = [o \in Object |-> FALSE]
    BY <2>1, <2>2
  <2>5. u.holder = [r \in Resource |-> None]
    BY <2>1, <2>2
  <2> QED BY <2>3, <2>4, <2>5 DEF u
<1>10. d.w.queued = [g \in Guarded |-> {}] /\ d.w.observers = [r \in Resource |-> {}]
  <2> DEFINE u == d.w
  <2>1. /\ u.queued \in [Guarded -> SUBSET Someone]
        /\ u.observers \in [Resource -> SUBSET Condition]
    BY <1>5 DEF Worlds
  <2>2. /\ \A r \in Resource : u.observers[r] = {}
        /\ \A g \in Guarded : u.queued[g] = {}
    BY <1>8
  <2> HIDE DEF u
  <2>3. u.queued = [g \in Guarded |-> {}] /\ u.observers = [r \in Resource |-> {}]
    BY <2>1, <2>2
  <2> QED BY <2>3 DEF u
<1>11. Cleared(end.w)
  BY <1>4, <1>6, <1>9, <1>10 DEF Cleared, Blank
<1> QED BY <1>2, <1>4, <1>6, <1>11 DEF Standing, end

-----------------------------------------------------------------------------
(* The steps.                                                              *)

LEMMA InitWorld == Init => WorldInv
  BY BlankCleared DEF Init, WorldInv, Fits, Blank

LEMMA SomeoneStays ==
    ASSUME NEW w \in Worker, SharedType, WorldInv, NEW new \in Worlds, NEW place,
           world' = [world EXCEPT ![w] = new], at' = [at EXCEPT ![w] = place],
           aborted => aborted', Fits(new, place, aborted')
    PROVE  WorldInv'
<1>1. world' \in [Worker -> Worlds]
  BY DEF WorldInv
<1>2. ASSUME NEW u \in Worker PROVE Fits(world[u], at[u], aborted)'
  <2>1. CASE u = w
    <3>1. world'[u] = new /\ at'[u] = place
      BY <2>1 DEF WorldInv, SharedType
    <3> QED BY <3>1
  <2>2. CASE u # w
    <3>1. world'[u] = world[u] /\ at'[u] = at[u]
      BY <2>2 DEF WorldInv, SharedType
    <3>2. Fits(world[u], at[u], aborted)
      BY DEF WorldInv
    <3> QED BY <3>1, <3>2 DEF Fits
  <2> QED BY <2>1, <2>2
<1> QED BY <1>1, <1>2 DEF WorldInv

\* What processes do in a trial.
LEMMA LivedSound ==
    ASSUME NEW v \in Worlds, Sound(v), NEW o \in Object, v.life[o] \in Live, NEW s \in Live,
           NEW t, t = [v EXCEPT !.life[o] = s]
    PROVE  t \in Worlds /\ SameThread(v, t) /\ Sound(t)
<1>1. t = [v EXCEPT !.life = [v.life EXCEPT ![o] = s]]
  BY DEF Worlds
<1>2. [v.life EXCEPT ![o] = s] \in [Object -> Lives]
  BY DEF Worlds, Lives, Live
<1>3. /\ t \in Worlds /\ SameThread(v, t) /\ t.registry = v.registry /\ t.history = v.history
      /\ t.recording = v.recording /\ t.holder = v.holder /\ t.queued = v.queued
      /\ t.observers = v.observers
      /\ t.life = [v.life EXCEPT ![o] = s]
  BY <1>1, <1>2 DEF Worlds, SameThread
<1>4. ASSUME NEW p \in Object
      PROVE  /\ t.life[p] \in Live <=> v.life[p] \in Live
             /\ t.life[p] # "none" <=> v.life[p] # "none"
  <2>1. CASE p = o
    <3>1. t.life[p] = s /\ v.life[p] \in Live
      BY <1>3, <2>1 DEF Worlds
    <3> QED BY <3>1 DEF Live
  <2>2. CASE p # o
    BY <1>3, <2>2 DEF Worlds
  <2> QED BY <2>1, <2>2
<1> DEFINE left == Left(v.registry, 0)
<1>5. Agrees(t, left)
  <2>1. Agrees(v, left)
    BY DEF Sound
  <2> HIDE DEF left
  <2> QED BY <1>3, <1>4, <2>1 DEF Agrees
<1>6. Waited(t) /\ Heard(t)
  BY <1>3, <1>4, StillWaited DEF Sound
<1> QED BY <1>3, <1>5, <1>6 DEF Sound

LEMMA RecordedSound ==
    ASSUME NEW v \in Worlds, Sound(v), NEW o \in Object, v.history[o],
           NEW t, t = [v EXCEPT !.recording[o] = TRUE]
    PROVE  t \in Worlds /\ SameThread(v, t) /\ Sound(t)
<1>1. t = [v EXCEPT !.recording = [v.recording EXCEPT ![o] = TRUE]]
  BY DEF Worlds
<1>2. [v.recording EXCEPT ![o] = TRUE] \in [Object -> BOOLEAN]
  BY DEF Worlds
<1>3. /\ t \in Worlds /\ SameThread(v, t) /\ t.registry = v.registry /\ t.history = v.history
      /\ t.life = v.life /\ t.holder = v.holder /\ t.queued = v.queued
      /\ t.observers = v.observers
      /\ t.recording = [v.recording EXCEPT ![o] = TRUE]
  BY <1>1, <1>2 DEF Worlds, SameThread
<1>4. \A p \in Object : t.recording[p] => v.recording[p] \/ v.history[p]
  BY <1>3 DEF Worlds
<1> DEFINE left == Left(v.registry, 0)
<1>5. Agrees(t, left)
  <2>1. Agrees(v, left)
    BY DEF Sound
  <2> HIDE DEF left
  <2> QED BY <1>3, <1>4, <2>1 DEF Agrees
<1> QED BY <1>3, <1>5 DEF Sound, Waited, Heard

Holding(v, h, q) ==
    /\ h \in [Resource -> Someone \cup {None}] /\ q \in [Guarded -> SUBSET Someone]
    /\ \A r \in Resource : h[r] # None =>
           \/ v.holder[r] # None
           \/ v.life[r] \in Live /\ \A c \in v.observers[r] : v.life[c] # "none"
    /\ \A g \in Guarded : q[g] # {} => v.queued[g] # {} \/ v.life[g] # "none"

LEMMA HeldSound ==
    ASSUME NEW v \in Worlds, Sound(v), NEW h, NEW q, Holding(v, h, q),
           NEW t, t = [v EXCEPT !.holder = h, !.queued = q]
    PROVE  t \in Worlds /\ SameThread(v, t) /\ Sound(t)
<1>1. /\ t \in Worlds /\ SameThread(v, t) /\ t.registry = v.registry /\ t.history = v.history
      /\ t.life = v.life /\ t.holder = h /\ t.queued = q /\ t.recording = v.recording
      /\ t.observers = v.observers
  BY DEF Holding, Worlds, SameThread
<1> DEFINE left == Left(v.registry, 0)
<1>2. Agrees(t, left)
  <2>1. Agrees(v, left)
    BY DEF Sound
  <2> HIDE DEF left
  <2> QED BY <1>1, <2>1 DEF Holding, Agrees
<1>3. Waited(t) /\ Heard(t)
  <2>1. Waited(v) /\ Heard(v)
    BY DEF Sound
  <2>2. t.life = v.life /\ t.observers = v.observers /\ t.queued = q /\ t.holder = h
    BY <1>1
  <2>3. /\ \A g \in Guarded : q[g] # {} => v.queued[g] # {} \/ v.life[g] # "none"
        /\ \A r \in Resource : h[r] # None =>
               v.holder[r] # None \/ \A c \in v.observers[r] : v.life[c] # "none"
    BY DEF Holding
  <2> QED BY <2>1, <2>2, <2>3, StillWaited
<1> QED BY <1>1, <1>2, <1>3 DEF Sound

LEMMA ObservedSound ==
    ASSUME NEW v \in Worlds, Sound(v), NEW b \in [Resource -> SUBSET Condition],
           \A r \in Resource :
               /\ b[r] # {} => v.observers[r] # {} \/ v.life[r] # "none"
               /\ \A c \in b[r] : c \in v.observers[r] \/ v.life[c] # "none",
           NEW t, t = [v EXCEPT !.observers = b]
    PROVE  t \in Worlds /\ SameThread(v, t) /\ Sound(t)
<1>1. /\ t \in Worlds /\ SameThread(v, t) /\ t.registry = v.registry /\ t.history = v.history
      /\ t.life = v.life /\ t.holder = v.holder /\ t.queued = v.queued /\ t.observers = b
      /\ t.recording = v.recording
  BY DEF Worlds, SameThread
<1>2. Agrees(t, Left(v.registry, 0))
  BY <1>1 DEF Sound, Agrees
<1>3. \A r \in Resource : \A c \in b[r] : c \in Condition
  OBVIOUS
<1>4. Waited(t) /\ Heard(t)
  BY <1>1, <1>3, StillWaited DEF Sound
<1> QED BY <1>1, <1>2, <1>4 DEF Sound

LEMMA WithoutSound ==
    ASSUME NEW w \in Worker, world[w] \in Worlds, Sound(world[w]), NEW p
    PROVE  /\ Without(w, p) \in Worlds /\ SameThread(world[w], Without(w, p))
           /\ Sound(Without(w, p)) /\ Without(w, p).life = world[w].life
<1> DEFINE v == world[w]
           h == [r \in Resource |-> IF v.holder[r] = p THEN None ELSE v.holder[r]]
           q == [g \in Guarded |-> v.queued[g] \ {p}]
<1>1. Without(w, p) = [v EXCEPT !.holder = h, !.queued = q]
  BY DEF Without
<1>2. v \in Worlds /\ Sound(v)
  OBVIOUS
<1>3. Holding(v, h, q)
  BY <1>2 DEF Holding, Worlds
<1> DEFINE t == [v EXCEPT !.holder = h, !.queued = q]
<1> HIDE DEF h, q, v
<1>5. t \in Worlds /\ SameThread(v, t) /\ Sound(t) /\ t.life = v.life
  <2>1. t = [v EXCEPT !.holder = h, !.queued = q]
    OBVIOUS
  <2> HIDE DEF t
  <2>2. t \in Worlds /\ SameThread(v, t) /\ Sound(t)
    BY <1>2, <1>3, <2>1, HeldSound
  <2>5. t.life = v.life
    BY <1>2, <2>1 DEF Worlds
  <2> QED BY <2>2, <2>5
<1> HIDE DEF t
<1> QED BY <1>1, <1>5 DEF t, v

LEMMA BodySound ==
    ASSUME NEW w \in Worker, SharedType, WorldInv, Body(w)
    PROVE  \E new \in Worlds :
               at[w] = "trial" /\ new.main /\ Sound(new) /\ world' = [world EXCEPT ![w] = new]
<1> DEFINE v == world[w]
<1>1. at[w] = "trial"
  BY DEF Body, InitializeQueue, Create, Initialize, Start, Record, Acquire, Await,
         LeaveQueue, Register, Unregister, Finish, Terminate, Destroy, SetCleanup,
         TerminateQueue, Detailed, Elaborating, Within
<1>2. v \in Worlds /\ v.main /\ Sound(v)
  BY <1>1 DEF WorldInv, Fits
<1>3. cast \subseteq Object
  BY DEF SharedType
<1> DEFINE Done == \E new \in Worlds : /\ new.main /\ Sound(new)
                                        /\ world' = [world EXCEPT ![w] = new]
<1> HIDE DEF v
<1>4. ASSUME NEW new, Becomes(w, new), new \in Worlds /\ SameThread(v, new) /\ Sound(new)
      PROVE  Done
  BY <1>2, <1>4 DEF Becomes, SameThread
<1>5. ASSUME NEW new, Becomes(w, new), new \in Worlds, new.main = v.main,
             new.registry = v.registry, new.life = v.life, new.history = v.history,
             new.recording = v.recording, new.holder = v.holder, new.queued = v.queued,
             new.observers = v.observers
      PROVE  Done
  <2>1. Sound(new)
    BY <1>2, <1>5, SoundSame
  <2> QED BY <1>2, <1>5, <2>1 DEF Becomes
<1>6. CASE InitializeQueue(w)
  <2> DEFINE new == [v EXCEPT !.queue = TRUE]
  <2>1. Becomes(w, new)
    BY <1>6 DEF InitializeQueue, v
  <2>2. /\ new \in Worlds /\ new.main = v.main /\ new.registry = v.registry
        /\ new.life = v.life /\ new.history = v.history /\ new.recording = v.recording
        /\ new.holder = v.holder /\ new.queued = v.queued /\ new.observers = v.observers
    BY <1>2 DEF Worlds
  <2> HIDE DEF new, Done
  <2>3. Done
    BY <1>5, <2>1, <2>2
  <2> QED BY <1>1, <2>3 DEF Done
<1>7. CASE SetCleanup(w)
  <2> DEFINE new == [v EXCEPT !.cleanup = TRUE]
  <2>1. Becomes(w, new)
    BY <1>7 DEF SetCleanup, v
  <2>2. /\ new \in Worlds /\ new.main = v.main /\ new.registry = v.registry
        /\ new.life = v.life /\ new.history = v.history /\ new.recording = v.recording
        /\ new.holder = v.holder /\ new.queued = v.queued /\ new.observers = v.observers
    BY <1>2 DEF Worlds
  <2> HIDE DEF new, Done
  <2>3. Done
    BY <1>5, <2>1, <2>2
  <2> QED BY <1>1, <2>3 DEF Done
<1>8. CASE TerminateQueue(w)
  <2> DEFINE new == [v EXCEPT !.queue = FALSE]
  <2>1. Becomes(w, new)
    BY <1>8 DEF TerminateQueue, v
  <2>2. /\ new \in Worlds /\ new.main = v.main /\ new.registry = v.registry
        /\ new.life = v.life /\ new.history = v.history /\ new.recording = v.recording
        /\ new.holder = v.holder /\ new.queued = v.queued /\ new.observers = v.observers
    BY <1>2 DEF Worlds
  <2> HIDE DEF new, Done
  <2>3. Done
    BY <1>5, <2>1, <2>2
  <2> QED BY <1>1, <2>3 DEF Done
<1>9. CASE Create(w)
  <2>1. PICK o \in cast : /\ v.life[o] = "none"
                          /\ Becomes(w, Registered([v EXCEPT !.life[o] = "raw"], <<o, "destroy">>))
    BY <1>9 DEF Create, v
  <2> DEFINE new == Registered([v EXCEPT !.life[o] = "raw"], <<o, "destroy">>)
  <2>2. new \in Worlds /\ SameThread(v, new) /\ Sound(new)
    BY <1>2, <1>3, <2>1, CreatedSound
  <2> HIDE DEF new, Done
  <2>3. Done
    BY <1>4, <2>1, <2>2 DEF new
  <2> QED BY <1>1, <2>3 DEF Done
<1>10. CASE Initialize(w)
  <2>1. PICK o \in cast : v.life[o] = "raw" /\ Becomes(w, Initialized(v, o))
    BY <1>10 DEF Initialize, v
  <2> DEFINE new == Initialized(v, o)
  <2>2. new \in Worlds /\ SameThread(v, new) /\ Sound(new)
    BY <1>2, <1>3, <2>1, InitializedSound
  <2> HIDE DEF new, Done
  <2>3. Done
    BY <1>4, <2>1, <2>2 DEF new
  <2> QED BY <1>1, <2>3 DEF Done
<1>11. CASE Start(w)
  <2>1. PICK p \in Process : /\ v.life[p] \in {"ready", "finished"}
                             /\ Becomes(w, [v EXCEPT !.life[p] = "running"])
    BY <1>11 DEF Start, v
  <2> DEFINE new == [v EXCEPT !.life[p] = "running"]
  <2>2. p \in Object /\ v.life[p] \in Live /\ "running" \in Live
    BY <2>1 DEF Process, Live
  <2>3. new \in Worlds /\ SameThread(v, new) /\ Sound(new)
    BY <1>2, <2>2, LivedSound
  <2> HIDE DEF new, Done
  <2>4. Done
    BY <1>4, <2>1, <2>3 DEF new
  <2> QED BY <1>1, <2>4 DEF Done
<1>12. CASE Record(w)
  <2>1. PICK o \in cast : v.history[o] /\ Becomes(w, [v EXCEPT !.recording[o] = TRUE])
    BY <1>12 DEF Record, v
  <2> DEFINE new == [v EXCEPT !.recording[o] = TRUE]
  <2>2. new \in Worlds /\ SameThread(v, new) /\ Sound(new)
    BY <1>2, <1>3, <2>1, RecordedSound
  <2> HIDE DEF new, Done
  <2>3. Done
    BY <1>4, <2>1, <2>2 DEF new
  <2> QED BY <1>1, <2>3 DEF Done
<1>13. CASE Acquire(w)
  <2>1. PICK p \in Running(w) : \E r \in Resource :
            /\ v.life[r] = "ready" /\ \A c \in v.observers[r] : v.life[c] # "none"
            /\ Becomes(w, IF v.holder[r] = None
                          THEN [v EXCEPT !.holder[r] = p, !.queued[r] = @ \ {p}]
                          ELSE [v EXCEPT !.queued[r] = @ \cup {p}])
    BY <1>13 DEF Acquire, v
  <2>2. PICK r \in Resource :
            /\ v.life[r] = "ready" /\ \A c \in v.observers[r] : v.life[c] # "none"
            /\ Becomes(w, IF v.holder[r] = None
                          THEN [v EXCEPT !.holder[r] = p, !.queued[r] = @ \ {p}]
                          ELSE [v EXCEPT !.queued[r] = @ \cup {p}])
    BY <2>1
  <2> DEFINE h == IF v.holder[r] = None THEN [v.holder EXCEPT ![r] = p] ELSE v.holder
             q == IF v.holder[r] = None
                  THEN [v.queued EXCEPT ![r] = @ \ {p}] ELSE [v.queued EXCEPT ![r] = @ \cup {p}]
             new == [v EXCEPT !.holder = h, !.queued = q]
  <2>3. p \in Someone
    BY DEF Running, Someone
  <2>4. /\ v.holder \in [Resource -> Someone \cup {None}]
        /\ v.queued \in [Guarded -> SUBSET Someone] /\ r \in Guarded
    BY <1>2 DEF Worlds, Guarded
  <2>5. h \in [Resource -> Someone \cup {None}] /\ q \in [Guarded -> SUBSET Someone]
    BY <2>3, <2>4
  <2>6. Becomes(w, new)
    <3>1. CASE v.holder[r] = None
      <4>1. [v EXCEPT !.holder[r] = p, !.queued[r] = @ \ {p}] = new
        BY <1>2, <3>1 DEF Worlds
      <4> QED BY <2>2, <3>1, <4>1
    <3>2. CASE v.holder[r] # None
      <4>1. [v EXCEPT !.queued[r] = @ \cup {p}] = new
        BY <1>2, <3>2 DEF Worlds
      <4> QED BY <2>2, <3>2, <4>1
    <3> QED BY <3>1, <3>2
  <2>7. Holding(v, h, q)
    <3>1. \A x \in Resource : h[x] # None => v.holder[x] # None \/ x = r
      BY <2>4
    <3>2. \A g \in Guarded : q[g] # {} => v.queued[g] # {} \/ g = r
      BY <2>4
    <3>3. v.life[r] \in Live /\ v.life[r] # "none"
      BY <2>2 DEF Live
    <3> QED BY <2>2, <2>5, <3>1, <3>2, <3>3 DEF Holding
  <2> HIDE DEF h, q
  <2>8. new \in Worlds /\ SameThread(v, new) /\ Sound(new)
    BY <1>2, <2>7, HeldSound
  <2> HIDE DEF new, Done
  <2>9. Done
    BY <1>4, <2>6, <2>8
  <2> QED BY <1>1, <2>9 DEF Done
<1>14. CASE Finish(w)
  <2>1. CASE \E p \in Process \cap Running(w) :
                 Becomes(w, [Without(w, p) EXCEPT !.life[p] = "finished"])
    <3>1. PICK p \in Process \cap Running(w) :
                   Becomes(w, [Without(w, p) EXCEPT !.life[p] = "finished"])
      BY <2>1
    <3> DEFINE u == Without(w, p)  new == [u EXCEPT !.life[p] = "finished"]
    <3>2. u \in Worlds /\ SameThread(v, u) /\ Sound(u) /\ u.life = v.life
      BY <1>2, WithoutSound DEF v
    <3>3. p \in Object /\ v.life[p] \in Live /\ "finished" \in Live
      BY TrialsAssumption DEF Process, Running, Live, v
    <3> HIDE DEF u
    <3>4. new \in Worlds /\ SameThread(u, new) /\ Sound(new)
      BY <3>2, <3>3, LivedSound
    <3>5. SameThread(v, new)
      BY <3>2, <3>4 DEF SameThread
    <3> HIDE DEF Done
    <3>6. Done
      BY <1>4, <3>1, <3>4, <3>5 DEF u
    <3> QED BY <1>1, <3>6 DEF Done
  <2>2. CASE Becomes(w, Without(w, Other))
    <3>1. /\ Without(w, Other) \in Worlds /\ SameThread(v, Without(w, Other))
          /\ Sound(Without(w, Other))
      BY <1>2, WithoutSound DEF v
    <3> HIDE DEF Done
    <3>2. Done
      BY <1>4, <2>2, <3>1
    <3> QED BY <1>1, <3>2 DEF Done
  <2> QED BY <1>14, <2>1, <2>2 DEF Finish
<1>15. CASE Terminate(w)
  <2>1. PICK o \in cast : /\ v.life[o] \in {"ready", "finished"}
                          /\ Becomes(w, Terminated(v, o))
    BY <1>15 DEF Terminate, v
  <2> DEFINE new == Terminated(v, o)
  <2>2. v.life[o] \in Live
    BY <2>1 DEF Live
  <2>3. new \in Worlds /\ SameThread(v, new) /\ Sound(new)
    BY <1>2, <1>3, <2>1, <2>2, TerminatedSound
  <2> HIDE DEF new, Done
  <2>4. Done
    BY <1>4, <2>1, <2>3 DEF new
  <2> QED BY <1>1, <2>4 DEF Done
<1>16. CASE Destroy(w)
  <2>1. PICK o \in cast : /\ v.life[o] = "raw"
                          /\ \A r \in Resource : o \in v.observers[r] => v.holder[r] = None
                          /\ Becomes(w, Unregistered(Freed(v, o), <<o, "destroy">>))
    BY <1>16 DEF Destroy, v
  <2> DEFINE new == Unregistered(Freed(v, o), <<o, "destroy">>)
  <2>2. new \in Worlds /\ SameThread(v, new) /\ Sound(new)
    BY <1>2, <1>3, <2>1, DestroyedSound
  <2> HIDE DEF new, Done
  <2>3. Done
    BY <1>4, <2>1, <2>2 DEF new
  <2> QED BY <1>1, <2>3 DEF Done
<1>17. ASSUME NEW g \in Guarded, NEW q, q \in SUBSET Someone, q # {} => v.life[g] # "none",
              Becomes(w, [v EXCEPT !.queued[g] = q])
       PROVE  Done
  <2> DEFINE all == [v.queued EXCEPT ![g] = q]
             new == [v EXCEPT !.holder = v.holder, !.queued = all]
  <2>1. /\ v.holder \in [Resource -> Someone \cup {None}]
        /\ v.queued \in [Guarded -> SUBSET Someone]
    BY <1>2 DEF Worlds
  <2>2. all \in [Guarded -> SUBSET Someone]
        /\ \A x \in Guarded : all[x] # {} => v.queued[x] # {} \/ v.life[x] # "none"
    BY <1>17, <2>1
  <2>3. [v EXCEPT !.queued[g] = q] = new
    BY <1>2 DEF Worlds
  <2> HIDE DEF all
  <2>4. Holding(v, v.holder, all)
    BY <2>1, <2>2 DEF Holding
  <2>5. new \in Worlds /\ SameThread(v, new) /\ Sound(new)
    BY <1>2, <2>4, HeldSound
  <2> HIDE DEF new, Done
  <2> QED BY <1>4, <1>17, <2>3, <2>5
<1>18. CASE Await(w)
  <2>1. PICK p \in Running(w), c \in Condition :
            v.life[c] = "ready" /\ Becomes(w, [v EXCEPT !.queued[c] = v.queued[c] \cup {p}])
    BY <1>18 DEF Await, v
  <2>2. /\ c \in Guarded /\ v.life[c] # "none"
        /\ v.queued[c] \cup {p} \in SUBSET Someone
    BY <1>2, <2>1 DEF Worlds, Guarded, Running, Someone
  <2> HIDE DEF Done
  <2>3. Done
    BY <1>17, <2>1, <2>2
  <2> QED BY <1>1, <2>3 DEF Done
<1>19. CASE LeaveQueue(w)
  <2>1. PICK g \in Guarded : \E p \in v.queued[g] :
            Becomes(w, [v EXCEPT !.queued[g] = v.queued[g] \ {p}])
    BY <1>19 DEF LeaveQueue, v
  <2>2. PICK p \in v.queued[g] : Becomes(w, [v EXCEPT !.queued[g] = v.queued[g] \ {p}])
    BY <2>1
  <2>3. v.queued[g] \ {p} \in SUBSET Someone /\ v.life[g] # "none"
    BY <1>2, <2>2 DEF Worlds, Sound, Waited
  <2> HIDE DEF Done
  <2>4. Done
    BY <1>17, <2>2, <2>3
  <2> QED BY <1>1, <2>4 DEF Done
<1>20. ASSUME NEW r \in Resource, NEW b, b \in SUBSET Condition, v.life[r] # "none",
              \A c \in b : c \in v.observers[r] \/ v.life[c] # "none",
              Becomes(w, [v EXCEPT !.observers[r] = b])
       PROVE  Done
  <2> DEFINE all == [v.observers EXCEPT ![r] = b]  new == [v EXCEPT !.observers = all]
  <2>1. v.observers \in [Resource -> SUBSET Condition]
    BY <1>2 DEF Worlds
  <2>2. /\ all \in [Resource -> SUBSET Condition]
        /\ \A x \in Resource :
               /\ all[x] # {} => v.observers[x] # {} \/ v.life[x] # "none"
               /\ \A c \in all[x] : c \in v.observers[x] \/ v.life[c] # "none"
    BY <1>20, <2>1
  <2>3. [v EXCEPT !.observers[r] = b] = new
    BY <1>2 DEF Worlds
  <2> HIDE DEF all
  <2>4. new \in Worlds /\ SameThread(v, new) /\ Sound(new)
    BY <1>2, <2>2, ObservedSound
  <2> HIDE DEF new, Done
  <2> QED BY <1>4, <1>20, <2>3, <2>4
<1>21. CASE Register(w)
  <2>1. PICK c \in Condition, r \in Resource :
            /\ v.life[c] = "ready" /\ v.life[r] = "ready"
            /\ Becomes(w, [v EXCEPT !.observers[r] = v.observers[r] \cup {c}])
    BY <1>21 DEF Register, v
  <2>2. v.observers[r] \cup {c} \in SUBSET Condition
    BY <1>2 DEF Worlds
  <2> HIDE DEF Done
  <2>3. Done
    BY <1>20, <2>1, <2>2
  <2> QED BY <1>1, <2>3 DEF Done
<1>22. CASE Unregister(w)
  <2>1. PICK r \in Resource : \E c \in v.observers[r] :
            /\ v.life[r] = "ready"
            /\ Becomes(w, [v EXCEPT !.observers[r] = v.observers[r] \ {c}])
    BY <1>22 DEF Unregister, v
  <2>2. PICK c : /\ v.life[r] = "ready"
               /\ Becomes(w, [v EXCEPT !.observers[r] = v.observers[r] \ {c}])
    BY <2>1
  <2>3. v.observers[r] \ {c} \in SUBSET Condition
    BY <1>2 DEF Worlds
  <2> HIDE DEF Done
  <2>4. Done
    BY <1>20, <2>2, <2>3
  <2> QED BY <1>1, <2>4 DEF Done
<1> QED BY <1>6, <1>7, <1>8, <1>9, <1>10, <1>11, <1>12, <1>13, <1>14, <1>15, <1>16,
           <1>18, <1>19, <1>21, <1>22 DEF Body

\* The jump has gone to the main coroutine.
LEMMA RecoveredSound ==
    ASSUME NEW v \in Worlds, Sound(v), NEW main
    PROVE  LET u == Recovered([v EXCEPT !.main = main])
           IN  /\ u \in Worlds /\ u.main /\ Sound(u) /\ u.queued = v.queued
               /\ u.registry = v.registry /\ u.observers = v.observers
               /\ u.holder = v.holder /\ u.recording = v.recording
<1> DEFINE u == Recovered([v EXCEPT !.main = main])
<1>1. /\ u \in Worlds /\ u.main /\ u.registry = v.registry /\ u.life = v.life
      /\ u.history = v.history /\ u.recording = v.recording /\ u.holder = v.holder
      /\ u.queued = v.queued /\ u.observers = v.observers
  BY DEF Recovered, Worlds
<1> HIDE DEF u
<1>2. Sound(u)
  BY <1>1, SoundSame
<1> QED BY <1>1, <1>2 DEF u

LEMMA StepWorld == SharedInv /\ WorldInv /\ [Next]_vars => WorldInv'
<1> SUFFICES ASSUME SharedInv, WorldInv, [Next]_vars PROVE WorldInv'
  OBVIOUS
<1>0. SharedType
  BY DEF SharedInv
<1>1. ASSUME NEW w \in Worker PROVE world[w] \in Worlds /\ Fits(world[w], at[w], aborted)
  BY <1>1 DEF WorldInv
<1>idle. ASSUME UNCHANGED <<world, at, aborted>> PROVE WorldInv'
  BY <1>idle DEF WorldInv, Fits
<1>run. ASSUME NEW c \in Caller, Run(c) PROVE WorldInv'
  <2>1. CASE CreateWorker(c)
    <3>1. PICK w \in Worker : /\ at' = [at EXCEPT ![w] = "loop"] /\ aborted' = aborted
                              /\ world' = [world EXCEPT ![w] = Blank]
      BY <2>1 DEF CreateWorker
    <3>2. Blank \in Worlds /\ Fits(Blank, "loop", aborted')
      BY BlankCleared DEF Fits, Blank
    <3> QED BY <1>0, <3>1, <3>2, SomeoneStays
  <2>2. CASE Lock(c) \/ Launch(c) \/ JoinWorkers(c) \/ Unlock(c) \/ Return(c)
    <3>1. UNCHANGED <<world, at, aborted>>
      BY <2>2 DEF Lock, Launch, JoinWorkers, Unlock, Return
    <3> QED BY <1>idle, <3>1
  <2> QED BY <1>run, <2>1, <2>2 DEF Run
<1>take. ASSUME NEW w \in Worker, TakeTrial(w) PROVE WorldInv'
  <2> DEFINE v == world[w]
  <2>1. v \in Worlds /\ Fits(v, "loop", aborted) /\ aborted' = aborted
    BY <1>1, <1>take DEF TakeTrial
  <2>2. CASE next >= Total
    <3>1. at' = [at EXCEPT ![w] = "exit"] /\ world' = [world EXCEPT ![w] = v]
      BY <1>take, <2>2 DEF TakeTrial, WorldInv
    <3>2. Fits(v, "exit", aborted')
      BY <2>1 DEF Fits
    <3> QED BY <1>0, <2>1, <3>1, <3>2, SomeoneStays
  <2>3. CASE ~(next >= Total)
    <3> DEFINE new == [v EXCEPT !.armed = TRUE]
    <3>1. at' = [at EXCEPT ![w] = "trial"] /\ world' = [world EXCEPT ![w] = new]
      BY <1>take, <2>3 DEF TakeTrial
    <3>2. Cleared(v) /\ v.main
      BY <2>1 DEF Fits
    <3> HIDE DEF v
    <3>3. /\ new \in Worlds /\ new.main = v.main /\ new.registry = v.registry
          /\ new.life = v.life /\ new.history = v.history /\ new.recording = v.recording
          /\ new.holder = v.holder /\ new.queued = v.queued /\ new.observers = v.observers
      BY <2>1 DEF Worlds
    <3> HIDE DEF new
    <3>4. Cleared(new)
      BY <3>2, <3>3 DEF Cleared
    <3>5. Fits(new, "trial", aborted')
      BY <3>2, <3>3, <3>4, ClearedSound DEF Fits
    <3> QED BY <1>0, <2>1, <3>1, <3>3, <3>5, SomeoneStays
  <2> QED BY <2>2, <2>3
<1>finish. ASSUME NEW w \in Worker, FinishTrial(w) PROVE WorldInv'
  <2> DEFINE v == world[w]
             new == [v EXCEPT !.registry = <<>>, !.life = Blank.life, !.history = Blank.history,
                              !.recording = Blank.recording, !.holder = Blank.holder,
                              !.queued = Blank.queued, !.observers = Blank.observers,
                              !.linked = TRUE]
  <2>1. /\ at' = [at EXCEPT ![w] = "after"] /\ world' = [world EXCEPT ![w] = new] /\ ~aborted
    BY <1>finish DEF FinishTrial, Within
  <2>2. v \in Worlds /\ v.main
    BY <1>1 DEF Fits
  <2>3. /\ Blank \in Worlds /\ Blank.registry = <<>>
    BY BlankCleared DEF Blank
  <2> HIDE DEF v
  <2>4. new \in Worlds /\ new.main /\ Cleared(new)
    BY <2>2, <2>3 DEF Worlds, Cleared
  <2> HIDE DEF new
  <2>5. Fits(new, "after", aborted')
    BY <2>4 DEF Fits
  <2> QED BY <1>0, <2>1, <2>4, <2>5, SomeoneStays
<1>abandon. ASSUME NEW w \in Worker, Abandon(w) PROVE WorldInv'
  <2>1. PICK main \in BOOLEAN :
            LET end == Demolished(Recovered([world[w] EXCEPT !.main = main]))
            IN  world' = [world EXCEPT ![w] = end.w]
    BY <1>abandon DEF Abandon
  <2> DEFINE u == Recovered([world[w] EXCEPT !.main = main])  end == Demolished(u)
  <2>2. at[w] = "trial" /\ ~aborted /\ at' = [at EXCEPT ![w] = "count"]
    BY <1>abandon DEF Abandon, Within
  <2>3. u \in Worlds /\ u.main /\ Sound(u)
    BY <1>1, <2>2, RecoveredSound DEF Fits
  <2> HIDE DEF u
  <2>4. end.w \in Worlds /\ end.w.main /\ Cleared(end.w)
    BY <2>3, DemolishedClears
  <2>5. world' = [world EXCEPT ![w] = end.w]
    BY <2>1 DEF u
  <2> HIDE DEF end
  <2>6. Fits(end.w, "count", aborted')
    BY <2>4 DEF Fits
  <2> QED BY <1>0, <2>2, <2>4, <2>5, <2>6, SomeoneStays
<1>count. ASSUME NEW w \in Worker, CountFailure(w) PROVE WorldInv'
  <2> DEFINE v == world[w]
  <2>1. /\ at' = [at EXCEPT ![w] = "after"] /\ world' = [world EXCEPT ![w] = v]
        /\ aborted' = aborted
    BY <1>count DEF CountFailure, WorldInv
  <2>2. v \in Worlds /\ Fits(v, "after", aborted')
    BY <1>1, <1>count DEF CountFailure, Fits
  <2> HIDE DEF v
  <2> QED BY <1>0, <2>1, <2>2, SomeoneStays
<1>after. ASSUME NEW w \in Worker, AfterTrial(w) PROVE WorldInv'
  <2> DEFINE v == world[w]  new == Disarmed(v)
  <2>1. /\ at' = [at EXCEPT ![w] = "loop"] /\ world' = [world EXCEPT ![w] = new]
        /\ aborted' = aborted
    BY <1>after DEF AfterTrial
  <2>2. v \in Worlds /\ v.main /\ Cleared(v)
    BY <1>1, <1>after DEF AfterTrial, Fits
  <2> HIDE DEF v
  <2>3. new \in Worlds /\ new.main /\ Cleared(new) /\ ~new.queue /\ ~new.armed /\ ~new.cleanup
    BY <2>2 DEF Disarmed, Worlds, Cleared
  <2> HIDE DEF new
  <2>4. Fits(new, "loop", aborted')
    BY <2>3 DEF Fits
  <2> QED BY <1>0, <2>1, <2>3, <2>4, SomeoneStays
<1>exit. ASSUME NEW w \in Worker, ExitThread(w) PROVE WorldInv'
  <2> DEFINE v == world[w]
  <2>1. /\ at' = [at EXCEPT ![w] = "done"] /\ world' = [world EXCEPT ![w] = v]
        /\ aborted' = aborted
    BY <1>exit DEF ExitThread, WorldInv
  <2>2. v \in Worlds /\ Fits(v, "done", aborted')
    BY <1>1 DEF Fits
  <2> HIDE DEF v
  <2> QED BY <1>0, <2>1, <2>2, SomeoneStays
<1>body. ASSUME NEW w \in Worker, Body(w) PROVE WorldInv'
  <2>1. PICK new \in Worlds :
            at[w] = "trial" /\ new.main /\ Sound(new) /\ world' = [world EXCEPT ![w] = new]
    BY <1>0, <1>body, BodySound
  <2>2. at' = at /\ aborted' = aborted
    BY <1>body, BodyKeeps
  <2>3. at' = [at EXCEPT ![w] = "trial"]
    BY <1>0, <2>1, <2>2 DEF SharedType
  <2>4. Fits(new, "trial", aborted')
    BY <2>1 DEF Fits
  <2> QED BY <1>0, <2>1, <2>2, <2>3, <2>4, SomeoneStays
<1>work. ASSUME NEW w \in Worker, Work(w) PROVE WorldInv'
  BY <1>work, <1>take, <1>finish, <1>abandon, <1>count, <1>after, <1>exit DEF Work
<1>2. CASE UNCHANGED vars
  BY <1>2, <1>idle DEF vars
<1> QED BY <1>run, <1>work, <1>body, <1>2 DEF Next

LEMMA SpecWorldInv == Spec => [](SharedInv /\ WorldInv)
<1> QED BY InitShared, StepShared, InitWorld, StepWorld, PTL DEF Spec

-----------------------------------------------------------------------------
(* Each trial finds its thread as the first one did, whichever way the     *)
(* earlier trial ended, whatever it had made and at whatever point it was  *)
(* abandoned.                                                              *)
THEOREM CleanSlateCorrect == Spec => []CleanSlate
<1>1. WorldInv => CleanSlate
  <2> SUFFICES ASSUME WorldInv, NEW w \in Worker, at[w] \in {"loop", "exit"}
               PROVE  [world[w] EXCEPT !.linked = FALSE] = Blank
    BY DEF CleanSlate
  <2> DEFINE v == world[w]
  <2>1. v \in Worlds /\ v.main /\ Cleared(v) /\ ~v.queue /\ ~v.armed /\ ~v.cleanup
    BY DEF WorldInv, Fits
  <2> HIDE DEF v
  <2> DEFINE u == [v EXCEPT !.linked = FALSE]
  <2>2. /\ u \in Worlds /\ u.linked = FALSE /\ u.registry = v.registry /\ u.life = v.life
        /\ u.history = v.history /\ u.recording = v.recording /\ u.holder = v.holder
        /\ u.queued = v.queued
        /\ u.observers = v.observers /\ u.queue = FALSE /\ u.main = TRUE /\ u.armed = FALSE
        /\ u.cleanup = FALSE
    BY <2>1 DEF Worlds
  <2> HIDE DEF u
  <2>3. u = [registry |-> u.registry, linked |-> u.linked, life |-> u.life,
             history |-> u.history, recording |-> u.recording, holder |-> u.holder,
             queued |-> u.queued, observers |-> u.observers, queue |-> u.queue,
             main |-> u.main, armed |-> u.armed, cleanup |-> u.cleanup]
    BY <2>2 DEF Worlds
  <2>4. u = [registry |-> <<>>, linked |-> FALSE, life |-> Blank.life,
             history |-> Blank.history, recording |-> Blank.recording,
             holder |-> Blank.holder, queued |-> Blank.queued,
             observers |-> Blank.observers, queue |-> FALSE, main |-> TRUE,
             armed |-> FALSE, cleanup |-> FALSE]
    BY <2>1, <2>2, <2>3 DEF Cleared
  <2>5. u = Blank
    BY <2>4 DEF Blank
  <2> QED BY <2>5 DEF u, v
<1> QED BY <1>1, SpecWorldInv, PTL

(* No assertion fails and nothing is used after it is gone while trials    *)
(* end, but for a thread that has never made an object, and, when a trial  *)
(* is abandoned, for a resource that is waited for, or that is held and    *)
(* recorded, or held and observed by a condition that is waited for or was *)
(* made after it.                                                          *)
THEOREM OnlyResourcesAbortCorrect == Spec => OnlyResourcesAbort
<1> DEFINE Only == \/ aborted
                   \/ \E w \in Worker : FinishTrial(w) /\ Untouched(w)
                   \/ \E w \in Worker : Abandon(w) /\ Trouble(world[w])
<1>1. SharedInv /\ WorldInv /\ [Next]_vars => [aborted' => Only]_vars
  <2> SUFFICES ASSUME WorldInv, Next, aborted', ~aborted PROVE Only
    BY DEF vars
  <2>1. ASSUME NEW w \in Worker, Abandon(w) PROVE Trouble(world[w])
    <3>1. PICK main \in BOOLEAN :
              LET end == Demolished(Recovered([world[w] EXCEPT !.main = main]))
              IN  ~(end.ok /\ end.sure)
      BY <2>1 DEF Abandon
    <3> DEFINE u == Recovered([world[w] EXCEPT !.main = main])
    <3>2. world[w] \in Worlds /\ Sound(world[w])
      BY <2>1 DEF Abandon, Within, WorldInv, Fits
    <3>3. /\ u \in Worlds /\ u.main /\ Sound(u) /\ u.queued = world[w].queued
          /\ u.holder = world[w].holder /\ u.recording = world[w].recording
          /\ u.observers = world[w].observers /\ u.registry = world[w].registry
      BY <3>2, RecoveredSound
    <3> HIDE DEF u
    <3>4. Trouble(u)
      BY <3>1, <3>3, DemolishedClears DEF u
    <3> QED BY <3>3, <3>4 DEF Trouble, Overheard
  <2>2. ASSUME NEW w \in Worker, FinishTrial(w) PROVE Untouched(w)
    BY <2>2 DEF FinishTrial, Untouched
  <2>3. ASSUME NEW c \in Caller, Run(c) PROVE FALSE
    BY <2>3 DEF Run, Lock, Launch, CreateWorker, JoinWorkers, Unlock, Return
  <2>4. ASSUME NEW w \in Worker,
               TakeTrial(w) \/ CountFailure(w) \/ AfterTrial(w) \/ ExitThread(w)
        PROVE  FALSE
    BY <2>4 DEF TakeTrial, CountFailure, AfterTrial, ExitThread
  <2>5. ASSUME NEW w \in Worker, Body(w) PROVE FALSE
    BY <2>5, BodyKeeps
  <2> QED BY <2>1, <2>2, <2>3, <2>4, <2>5 DEF Next, Work
<1> QED BY <1>1, SpecWorldInv, PTL DEF Spec, OnlyResourcesAbort

=============================================================================
