------------------------------- MODULE Trials -------------------------------
(***************************************************************************)
(* src/src/cimba.c and src/src/cmi_memregistry.c: cimba_run starts worker  *)
(* threads, which take the trials of an experiment from a shared counter.  *)
(* A trial makes simulation objects, each of which enters the thread's     *)
(* registry with its destructors; it returns, or abandons itself by a long *)
(* jump from wherever it is, and then the worker tears down what is left   *)
(* and takes the next trial.                                               *)
(*                                                                         *)
(* The objects are all that the library makes, processes, resources, pools,*)
(* buffers, queues, conditions and statistics; what processes do to them   *)
(* is kept to who holds a resource, who waits for it or for a condition,   *)
(* and which conditions observe a resource.  A step of one thread that     *)
(* touches only its own memory is one step, whatever its length.           *)
(***************************************************************************)
EXTENDS Integers, FiniteSets, Sequences

CONSTANTS Caller,              \* threads that call cimba_run, once each
          Worker,              \* cmg_worker_threads
          Total,               \* num_trials
          Object, Kind,        \* what a trial may make
          Cast,                \* sets of objects, one of which it does make
          Other,               \* a process whose own object is not looked at
          Elaborate,           \* experiments and trials that make them
          None

Kinds == {"process", "resource", "pool", "buffer", "objectqueue", "priorityqueue",
          "condition", "dataset", "timeseries", "datasummary"}
Process == {o \in Object : Kind[o] = "process"}
Resource == {o \in Object : Kind[o] = "resource"}
Condition == {o \in Object : Kind[o] = "condition"}
Guarded == Resource \cup Condition

ASSUME TrialsAssumption ==
    /\ Worker # {} /\ IsFiniteSet(Worker)
    /\ Total \in Nat \ {0}
    /\ Elaborate \subseteq Caller \X (0 .. Total - 1)
    /\ Kind \in [Object -> Kinds]
    /\ Cast \subseteq SUBSET Object
    /\ Other \notin Object /\ None \notin Object \cup Caller \cup {Other}

VARIABLES
    mutex,      \* who has cmg_experiment_mutex
    call,       \* where each caller is in cimba_run
    created,    \* the workers it has started
    next,       \* cmg_next_trial_idx
    failed,     \* cmi_failed_trials
    result,     \* what cimba_run has returned
    at,         \* where each worker is
    trial,      \* and in which trial
    world,      \* its thread-local memory
    cast,       \* what its elaborate trials make
    taken,      \* how often each trial of the experiment was started
    gaveUp,     \* how many trials were abandoned, by the caller of their experiment
    aborted     \* the program has ended, by an assertion that failed or by the
                \* use of what is gone

vars ==
    <<mutex, call, created, next, failed, result, at, trial, world, cast, taken, gaveUp, aborted>>
shared == <<mutex, call, created, next, failed, result>>

Blank ==
    [registry |-> <<>>,                       \* cmi_memregistry, the latest first
     linked |-> FALSE,                        \* it has been initialized
     life |-> [o \in Object |-> "none"],      \* raw: created; ready: initialized
     history |-> [o \in Object |-> FALSE],    \* its time series is initialized
     recording |-> [o \in Object |-> FALSE],
     holder |-> [r \in Resource |-> None],
     queued |-> [g \in Guarded |-> {}],       \* the guard's queue
     observers |-> [r \in Resource |-> {}],   \* and the conditions it signals
     queue |-> FALSE,                         \* event_queue # NULL
     main |-> TRUE,                           \* coroutine_current = coroutine_main
     armed |-> FALSE,                         \* cmi_recovery_armed
     cleanup |-> FALSE]                       \* trial_cleanup_func # NULL

Init ==
    /\ mutex = None /\ next = 0 /\ failed = 0 /\ aborted = FALSE
    /\ call = [c \in Caller |-> "before"]
    /\ created = {}
    /\ result = [c \in Caller |-> -1]
    /\ at = [w \in Worker |-> "none"]
    /\ trial = [w \in Worker |-> -1]
    /\ world = [w \in Worker |-> Blank]
    /\ cast \in Cast
    /\ taken = [i \in 0 .. Total - 1 |-> 0]
    /\ gaveUp = [c \in Caller |-> 0]

-----------------------------------------------------------------------------
(* The registry and the destructors.                                       *)

Registered(w, item) == [w EXCEPT !.registry = <<item>> \o @, !.linked = TRUE]

\* cmi_dlist_unlink; an item that is in no list links to itself and stays so.
Unlinked(list, item) ==
    IF \E i \in 1 .. Len(list) : list[i] = item
    THEN LET k == CHOOSE i \in 1 .. Len(list) : list[i] = item
         IN  SubSeq(list, 1, k - 1) \o SubSeq(list, k + 1, Len(list))
    ELSE list
Unregistered(w, item) == [w EXCEPT !.registry = Unlinked(@, item)]

\* What initialize makes of an object, and enters: its destructor and, for
\* all that keep one, that of the history, which is the latter of the two.
Begun(w, o) == Registered([w EXCEPT !.life[o] = "ready"], <<o, "terminate">>)
HistoryBegun(w, o) == Registered([w EXCEPT !.history[o] = TRUE], <<o, "history">>)

ProcessBegun(w, o) == Begun(w, o)
ResourceBegun(w, o) == HistoryBegun(Begun([w EXCEPT !.observers[o] = {}], o), o)
PoolBegun(w, o) == HistoryBegun(Begun(w, o), o)
BufferBegun(w, o) == HistoryBegun(Begun(w, o), o)
ObjectqueueBegun(w, o) == HistoryBegun(Begun(w, o), o)
PriorityqueueBegun(w, o) == HistoryBegun(Begun(w, o), o)
ConditionBegun(w, o) == Begun(w, o)
DatasetBegun(w, o) == Begun(w, o)
TimeseriesBegun(w, o) == DatasetBegun(w, o)
DatasummaryBegun(w, o) == Begun(w, o)

Initialized(w, o) ==
    CASE Kind[o] = "process" -> ProcessBegun(w, o)
      [] Kind[o] = "resource" -> ResourceBegun(w, o)
      [] Kind[o] = "pool" -> PoolBegun(w, o)
      [] Kind[o] = "buffer" -> BufferBegun(w, o)
      [] Kind[o] = "objectqueue" -> ObjectqueueBegun(w, o)
      [] Kind[o] = "priorityqueue" -> PriorityqueueBegun(w, o)
      [] Kind[o] = "condition" -> ConditionBegun(w, o)
      [] Kind[o] = "dataset" -> DatasetBegun(w, o)
      [] Kind[o] = "timeseries" -> TimeseriesBegun(w, o)
      [] OTHER -> DatasummaryBegun(w, o)

\* What terminate makes of it; the entries go with it, unless the registry is
\* being demolished and has given them up already.  The parent class of all
\* but processes and statistics looks at its cookie first.
HistoryEnded(w, o) ==
    Unregistered([w EXCEPT !.history[o] = FALSE, !.recording[o] = FALSE], <<o, "history">>)
Ended(w, o) == Unregistered([w EXCEPT !.life[o] = "raw"], <<o, "terminate">>)

ProcessTorn(w, o) == Ended(w, o)
\* resource_drop_holder, called by the destructor of a resource in use.  It
\* signals the guard, which forwards to the observers: see Echoes.
HolderDropped(w, o) == [w EXCEPT !.holder[o] = None]
ResourceTorn(w, o) == Ended(HistoryEnded(HolderDropped(w, o), o), o)
PoolTorn(w, o) == Ended(HistoryEnded(w, o), o)
BufferTorn(w, o) == Ended(HistoryEnded(w, o), o)
ObjectqueueTorn(w, o) == Ended(HistoryEnded(w, o), o)
PriorityqueueTorn(w, o) == Ended(HistoryEnded(w, o), o)
ConditionTorn(w, o) == Ended(w, o)
DatasetTorn(w, o) == Ended(w, o)
TimeseriesTorn(w, o) == DatasetTorn(w, o)
DatasummaryTorn(w, o) == Ended(w, o)

Terminated(w, o) ==
    CASE Kind[o] = "process" -> ProcessTorn(w, o)
      [] Kind[o] = "resource" -> ResourceTorn(w, o)
      [] Kind[o] = "pool" -> PoolTorn(w, o)
      [] Kind[o] = "buffer" -> BufferTorn(w, o)
      [] Kind[o] = "objectqueue" -> ObjectqueueTorn(w, o)
      [] Kind[o] = "priorityqueue" -> PriorityqueueTorn(w, o)
      [] Kind[o] = "condition" -> ConditionTorn(w, o)
      [] Kind[o] = "dataset" -> DatasetTorn(w, o)
      [] Kind[o] = "timeseries" -> TimeseriesTorn(w, o)
      [] OTHER -> DatasummaryTorn(w, o)

\* The assertions on the way, in a demolition: those of cmb_process_terminate,
\* of cmb_resource_terminate and the sample that it takes, and of the destroys.
Sampled(w, o) == ~w.recording[o] \/ w.history[o]

TeardownAllowed(w, item) ==
    LET o == item[1] IN
    CASE item[2] = "terminate" /\ o \in Process -> w.main
      [] item[2] = "terminate" /\ o \in Resource ->
             w.queued[o] = {} /\ (w.holder[o] # None => Sampled(w, o))
      [] item[2] = "destroy" -> w.life[o] = "raw" /\ (o \in Process => w.main)
      [] OTHER -> TRUE

\* The memory of an object, and its guard in it.
Freed(w, o) ==
    [w EXCEPT !.life[o] = "none",
              !.queued = [g \in Guarded |-> IF g = o THEN {} ELSE @[g]],
              !.observers = [r \in Resource |-> IF r = o THEN {} ELSE @[r]]]

TornDown(w, item) ==
    LET o == item[1] IN
    CASE item[2] = "terminate" -> Terminated(w, o)
      [] item[2] = "destroy" -> Freed(w, o)
      [] OTHER -> [w EXCEPT !.history[o] = FALSE]

\* A guard that is signalled reads its queue, and asks the process in front of
\* it.  There must be a queue; and if somebody is in it, that one, what its
\* demand looks at and the queue itself, which is freed before the condition
\* is, may be gone: nothing can be said.
Quiet(w, c) == w.life[c] # "none" /\ w.queued[c] = {}

\* The destructor of a resource in use signals its observers.
Echoes(w, item) ==
    LET o == item[1] IN
    /\ item[2] = "terminate" /\ o \in Resource
    /\ w.holder[o] # None
    /\ \E c \in w.observers[o] : ~Quiet(w, c)

\* One destructor; ok turns FALSE at the first assertion that fails, and sure
\* at the first use of what may be gone.
Torn(d, item) ==
    [ok |-> d.ok /\ TeardownAllowed(d.w, item),
     sure |-> d.sure /\ ~Echoes(d.w, item),
     w |-> TornDown(d.w, item)]

\* cmi_memregistry_cleanup, from the head of the list on.
Demolition(w) ==
    LET upto[i \in 0 .. Len(w.registry)] ==
            IF i = 0 THEN [ok |-> TRUE, sure |-> TRUE, w |-> w]
            ELSE Torn(upto[i - 1], w.registry[i])
    IN  upto
Demolished(w) == [Demolition(w)[Len(w.registry)] EXCEPT !.w.registry = <<>>]

-----------------------------------------------------------------------------
(* What a trial does, between the worker's call of its function and its    *)
(* return.                                                                 *)

Within(w) == at[w] = "trial" /\ ~aborted
Elaborating(w) == Within(w) /\ <<mutex, trial[w]>> \in Elaborate
Detailed(w) == Elaborating(w) /\ world[w].queue
Running(w) == {Other} \cup {p \in Process : world[w].life[p] = "running"}

Becomes(w, new) ==
    /\ world' = [world EXCEPT ![w] = new]
    /\ UNCHANGED <<cast, shared, at, trial, taken, gaveUp, aborted>>

(* cmb_event_queue_initialize asserts that there is no queue.               *)
InitializeQueue(w) ==
    /\ Elaborating(w) /\ ~world[w].queue
    /\ Becomes(w, [world[w] EXCEPT !.queue = TRUE])

(* Not in the place of a condition that some guard would still signal.      *)
Create(w) == \E o \in cast :
    /\ Detailed(w) /\ world[w].life[o] = "none"
    /\ \A r \in Resource : o \notin world[w].observers[r]
    /\ Becomes(w, Registered([world[w] EXCEPT !.life[o] = "raw"], <<o, "destroy">>))

Initialize(w) == \E o \in cast :
    /\ Detailed(w) /\ world[w].life[o] = "raw"
    /\ Becomes(w, Initialized(world[w], o))

Start(w) == \E p \in Process :
    /\ Detailed(w) /\ world[w].life[p] \in {"ready", "finished"}
    /\ Becomes(w, [world[w] EXCEPT !.life[p] = "running"])

Record(w) == \E o \in cast :
    /\ Detailed(w) /\ world[w].history[o] /\ ~world[w].recording[o]
    /\ Becomes(w, [world[w] EXCEPT !.recording[o] = TRUE])

(* A running process gets the resource, or joins its queue.  A resource is  *)
(* not used any more once a condition that observes it has been destroyed.  *)
Acquire(w) == \E p \in Running(w), r \in Resource :
    /\ Detailed(w) /\ world[w].life[r] = "ready"
    /\ world[w].holder[r] # p
    /\ p = Other => world[w].holder[r] = None
    /\ \A g \in Guarded \ {r} : p \notin world[w].queued[g]
    /\ \A c \in world[w].observers[r] : world[w].life[c] # "none"
    /\ Becomes(w, IF world[w].holder[r] = None
                  THEN [world[w] EXCEPT !.holder[r] = p, !.queued[r] = @ \ {p}]
                  ELSE [world[w] EXCEPT !.queued[r] = @ \cup {p}])

(* cmb_condition_wait, and the end of a wait of any kind.                   *)
Await(w) == \E p \in Running(w), c \in Condition :
    /\ Detailed(w) /\ world[w].life[c] = "ready"
    /\ \A g \in Guarded : p \notin world[w].queued[g]
    /\ Becomes(w, [world[w] EXCEPT !.queued[c] = @ \cup {p}])

LeaveQueue(w) == \E g \in Guarded : \E p \in world[w].queued[g] :
    /\ Detailed(w)
    /\ Becomes(w, [world[w] EXCEPT !.queued[g] = @ \ {p}])

(* cmb_resourceguard_register of the guard of a condition with that of a    *)
(* resource, and cmb_resourceguard_unregister.                              *)
Register(w) == \E c \in Condition, r \in Resource :
    /\ Detailed(w) /\ world[w].life[c] = "ready" /\ world[w].life[r] = "ready"
    /\ c \notin world[w].observers[r]
    /\ Becomes(w, [world[w] EXCEPT !.observers[r] = @ \cup {c}])

Unregister(w) == \E r \in Resource : \E c \in world[w].observers[r] :
    /\ Detailed(w) /\ world[w].life[r] = "ready"
    /\ Becomes(w, [world[w] EXCEPT !.observers[r] = @ \ {c}])

Without(w, p) ==
    [world[w] EXCEPT !.holder = [r \in Resource |-> IF @[r] = p THEN None ELSE @[r]],
                     !.queued = [g \in Guarded |-> @[g] \ {p}]]

(* A process that ends lets go of what it holds and waits for.              *)
Finish(w) ==
    /\ Detailed(w)
    /\ \/ \E p \in Process \cap Running(w) :
              Becomes(w, [Without(w, p) EXCEPT !.life[p] = "finished"])
       \/ Becomes(w, Without(w, Other))

(* The assertions of cmb_process_terminate and cmb_resource_terminate are   *)
(* the caller's to keep.  Nor does it terminate a condition that is waited  *)
(* for, or a resource that is held, which its holder would drop later on.   *)
Terminate(w) == \E o \in cast :
    /\ Detailed(w) /\ world[w].life[o] \in {"ready", "finished"}
    /\ o \in Guarded => world[w].queued[o] = {}
    /\ o \in Resource => world[w].holder[o] = None
    /\ Becomes(w, Terminated(world[w], o))

(* A condition may be destroyed while it is registered with a guard that    *)
(* has nobody left to signal about.                                         *)
Destroy(w) == \E o \in cast :
    /\ Detailed(w) /\ world[w].life[o] = "raw"
    /\ \A r \in Resource : o \in world[w].observers[r] =>
           world[w].holder[r] = None /\ world[w].queued[r] = {}
    /\ Becomes(w, Unregistered(Freed(world[w], o), <<o, "destroy">>))

SetCleanup(w) ==
    /\ Detailed(w) /\ ~world[w].cleanup
    /\ Becomes(w, [world[w] EXCEPT !.cleanup = TRUE])

TerminateQueue(w) ==
    /\ Detailed(w)
    /\ Becomes(w, [world[w] EXCEPT !.queue = FALSE])

-----------------------------------------------------------------------------
(* thread_worker_func                                                      *)

(* Faulty: the counter is read and written in two steps.                    *)
TakeTrialRacy(w) ==
    /\ at[w] = "loop" /\ ~aborted
    /\ next' \in {next, next + 1}
    /\ IF next >= Total
       THEN at' = [at EXCEPT ![w] = "exit"] /\ UNCHANGED <<cast, trial, world, taken>>
       ELSE /\ at' = [at EXCEPT ![w] = "trial"]
            /\ trial' = [trial EXCEPT ![w] = next]
            /\ world' = [world EXCEPT ![w].armed = TRUE]
            /\ taken' = [taken EXCEPT ![next] = @ + 1]
    /\ UNCHANGED <<cast, mutex, call, created, failed, result, gaveUp, aborted>>

(* The index is fetched and incremented in one step.                        *)
TakeTrial(w) ==
    /\ at[w] = "loop" /\ ~aborted
    /\ next' = next + 1
    /\ IF next >= Total
       THEN at' = [at EXCEPT ![w] = "exit"] /\ UNCHANGED <<cast, trial, world, taken>>
       ELSE /\ at' = [at EXCEPT ![w] = "trial"]
            /\ trial' = [trial EXCEPT ![w] = next]
            /\ world' = [world EXCEPT ![w].armed = TRUE]
            /\ taken' = [taken EXCEPT ![next] = @ + 1]
    /\ UNCHANGED <<cast, mutex, call, created, failed, result, gaveUp, aborted>>

(* Objects that are left are no longer registered, and not torn down.  The *)
(* worker asks whether the registry is empty also if nothing has ever been *)
(* entered, and the assertion of cmi_dlist_is_empty fails.  A trial that   *)
(* is not looked at has made objects, and has torn them down.              *)
FinishTrial(w) ==
    /\ Within(w)
    /\ at' = [at EXCEPT ![w] = "after"]
    /\ world' = [world EXCEPT ![w] =
                    [@ EXCEPT !.registry = <<>>, !.life = Blank.life, !.history = Blank.history,
                              !.recording = Blank.recording, !.holder = Blank.holder,
                              !.queued = Blank.queued, !.observers = Blank.observers,
                              !.linked = TRUE]]
    /\ aborted' = (Elaborating(w) /\ ~world[w].linked)
    /\ UNCHANGED <<cast, shared, trial, taken, gaveUp>>

\* Faulty: the process that gave up stays the current coroutine.
RecoveredNot(w) == w

\* What the long jump has skipped: cmi_coroutine_recovery_finalize.
Recovered(w) == [w EXCEPT !.main = TRUE]

(* cimba_trial_abandon, in the trial function or in a process, and what the *)
(* worker does where the jump ends.  A use of what is gone may end it.      *)
Abandon(w) ==
    /\ Within(w) /\ world[w].armed
    /\ \E main \in BOOLEAN :
           /\ main \/ Running(w) \cap Process # {}
           /\ LET end == Demolished(Recovered([world[w] EXCEPT !.main = main]))
              IN  /\ world' = [world EXCEPT ![w] = end.w]
                  /\ aborted' \in {~end.ok, ~(end.ok /\ end.sure)}
    /\ at' = [at EXCEPT ![w] = "count"]
    /\ gaveUp' = [gaveUp EXCEPT ![mutex] = @ + 1]
    /\ UNCHANGED <<cast, shared, trial, taken>>

CountFailure(w) ==
    /\ at[w] = "count" /\ ~aborted
    /\ failed' = failed + 1
    /\ at' = [at EXCEPT ![w] = "after"]
    /\ UNCHANGED <<cast, mutex, call, created, next, result, trial, world, taken, gaveUp, aborted>>

\* Faulty: the cleanup function stays set for the thread's next trial.
DisarmedOnly(w) == [w EXCEPT !.queue = FALSE, !.armed = FALSE]

Disarmed(w) == [w EXCEPT !.queue = FALSE, !.armed = FALSE, !.cleanup = FALSE]

AfterTrial(w) ==
    /\ at[w] = "after" /\ ~aborted
    /\ world' = [world EXCEPT ![w] = Disarmed(@)]
    /\ at' = [at EXCEPT ![w] = "loop"]
    /\ UNCHANGED <<cast, shared, trial, taken, gaveUp, aborted>>

ExitThread(w) ==
    /\ at[w] = "exit" /\ ~aborted
    /\ at' = [at EXCEPT ![w] = "done"]
    /\ UNCHANGED <<cast, shared, trial, world, taken, gaveUp, aborted>>

-----------------------------------------------------------------------------
(* cimba_run                                                               *)

Lock(c) ==
    /\ call[c] = "before" /\ mutex = None /\ ~aborted
    /\ mutex' = c
    /\ call' = [call EXCEPT ![c] = "locked"]
    /\ UNCHANGED <<cast, created, next, failed, result, at, trial, world, taken, gaveUp, aborted>>

(* The globals, before there are workers to read them.                      *)
Launch(c) ==
    /\ call[c] = "locked" /\ ~aborted
    /\ next' = 0 /\ failed' = 0
    /\ created' = {}
    /\ taken' = [i \in 0 .. Total - 1 |-> 0]
    /\ call' = [call EXCEPT ![c] = "creating"]
    /\ UNCHANGED <<cast, mutex, result, at, trial, world, gaveUp, aborted>>

(* Workers run while others are still to be created.                        *)
CreateWorker(c) == \E w \in Worker \ created :
    /\ call[c] = "creating" /\ ~aborted
    /\ created' = created \cup {w}
    /\ at' = [at EXCEPT ![w] = "loop"]
    /\ trial' = [trial EXCEPT ![w] = -1]
    /\ world' = [world EXCEPT ![w] = Blank]
    /\ UNCHANGED <<cast, mutex, call, next, failed, result, taken, gaveUp, aborted>>

(* Faulty: the mutex is kept.                                               *)
UnlockNot(c) ==
    /\ call[c] = "joined" /\ ~aborted
    /\ call' = [call EXCEPT ![c] = "unlocked"]
    /\ UNCHANGED <<cast, mutex, created, next, failed, result, at, trial, world, taken,
                   gaveUp, aborted>>

JoinWorkers(c) ==
    /\ call[c] = "creating" /\ created = Worker /\ ~aborted
    /\ \A w \in Worker : at[w] = "done"
    /\ call' = [call EXCEPT ![c] = "joined"]
    /\ UNCHANGED <<cast, mutex, created, next, failed, result, at, trial, world, taken,
                   gaveUp, aborted>>

Unlock(c) ==
    /\ call[c] = "joined" /\ ~aborted
    /\ mutex' = None
    /\ call' = [call EXCEPT ![c] = "unlocked"]
    /\ UNCHANGED <<cast, created, next, failed, result, at, trial, world, taken, gaveUp, aborted>>

(* The count is read when the mutex is free again.                          *)
Return(c) ==
    /\ call[c] = "unlocked" /\ ~aborted
    /\ result' = [result EXCEPT ![c] = failed]
    /\ call' = [call EXCEPT ![c] = "returned"]
    /\ UNCHANGED <<cast, mutex, created, next, failed, at, trial, world, taken, gaveUp, aborted>>

Run(c) == Lock(c) \/ Launch(c) \/ CreateWorker(c) \/ JoinWorkers(c) \/ Unlock(c) \/ Return(c)

Body(w) ==
    InitializeQueue(w) \/ Create(w) \/ Initialize(w) \/ Start(w) \/ Record(w) \/ Acquire(w)
    \/ Await(w) \/ LeaveQueue(w) \/ Register(w) \/ Unregister(w)
    \/ Finish(w) \/ Terminate(w) \/ Destroy(w) \/ SetCleanup(w) \/ TerminateQueue(w)

Work(w) ==
    TakeTrial(w) \/ FinishTrial(w) \/ Abandon(w) \/ CountFailure(w) \/ AfterTrial(w)
    \/ ExitThread(w)

Next == (\E c \in Caller : Run(c)) \/ (\E w \in Worker : Work(w) \/ Body(w))

(* The threads do not stop for ever, and trial functions return: their      *)
(* bodies get no fairness, their ends do.                                   *)
Progress == (\E c \in Caller : Run(c)) \/ (\E w \in Worker : Work(w))
Spec == Init /\ [][Next]_vars /\ WF_vars(Progress)

-----------------------------------------------------------------------------
(* Properties.                                                             *)

(* However the workers race for the counter, are created late or lose a    *)
(* trial to an error, none of the experiment's trials is started twice,    *)
(* and all have been started, and the abandoned ones counted, when the     *)
(* workers have been joined.                                               *)
EveryTrialOnce ==
    /\ \A i \in DOMAIN taken : taken[i] <= 1
    /\ \A c \in Caller : call[c] = "joined" =>
           failed = gaveUp[c] /\ \A i \in DOMAIN taken : taken[i] = 1

(* Each trial finds its thread as the first one did: no event queue, an    *)
(* empty registry, no objects, no cleanup function of an earlier trial,    *)
(* and the main coroutine current, whichever way the earlier trial ended.  *)
CleanSlate ==
    \A w \in Worker :
        at[w] \in {"loop", "exit"} => [world[w] EXCEPT !.linked = FALSE] = Blank

(* No assertion fails, and nothing is used after it is gone, while trials  *)
(* end, but for two reasons.  One is that a trial returns that has not     *)
(* made any object, on a thread on which none did: the list that is asked  *)
(* whether it is empty is not one yet.  The other is that a trial is       *)
(* abandoned with a resource that is waited for, which the destructor of   *)
(* the resource asserts not to be; or that is held, and either recorded,   *)
(* where it samples a history that has been torn down before it, or        *)
(* observed by a condition, which it signals and which is waited for, or   *)
(* was made after the resource and is gone before it (cmb_resource.c:67).  *)
(* Anything else that a trial leaves behind is torn down once and in order.*)
Before(list, x, y) ==
    \E i, j \in 1 .. Len(list) : i < j /\ list[i] = x /\ list[j] = y
Overheard(v, r) == \E c \in v.observers[r] :
    \/ v.queued[c] # {}
    \/ Before(v.registry, <<c, "destroy">>, <<r, "terminate">>)
Trouble(v) == \E r \in Resource :
    \/ v.queued[r] # {}
    \/ v.holder[r] # None /\ (v.recording[r] \/ Overheard(v, r))
Untouched(w) == Elaborating(w) /\ ~world[w].linked
OnlyResourcesAbort ==
    [][aborted' => \/ aborted
                   \/ \E w \in Worker : FinishTrial(w) /\ Untouched(w)
                   \/ \E w \in Worker : Abandon(w) /\ Trouble(world[w])]_vars

(* Every call of cimba_run returns, unless the program is aborted.          *)
EveryRunReturns == <>(aborted \/ \A c \in Caller : call[c] = "returned")

=============================================================================
