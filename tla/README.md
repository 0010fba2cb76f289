# A TLA+ model of Cimba

Cimba is a C library for discrete-event simulation. A *trial* is one run of a
simulated world; trials run in parallel, one per worker thread, and share
nothing. Inside a trial everything happens in one thread: a dispatcher takes
events from a queue in the order of simulated time, and *processes*, stackful
coroutines, are resumed by events and run until they block. There is no
preemption, and no data race inside a trial. What makes the code hard is
something else: every wakeup is *scheduled*, not made at once, so between the
decision to resume a process and its resumption any other event of the same
timestamp may stop it, interrupt it, time it out or take away what it was
granted.

This directory holds TLA+ modules translated from the C source, configurations
to check them with TLC on small instances, and proofs for TLAPS.

    tlc -config MCContend.cfg MCResourceSystem
    tlapm PoolProofs.tla

Paths below are those of the repository: `src/` is the implementation, `src/cmi_*`
its internal part, `include/` the API, `tutorial/` and `benchmark/` the client
programs.

## Inventory

| component | state | operations | told by, tells |
|---|---|---|---|
| event queue `cmb_event.c` | clock, events by handle, the current event, per event a list of waiting processes | schedule, execute_next, cancel, reschedule, reprioritize, pattern find/count/cancel, clear | everyone schedules into it; it calls the actions |
| process `cmb_process.c` | coroutine status, priority, list of *awaitables* (timers, a guard, a process, an event), list of held resources, list of waiters | start, stop, exit, hold, yield, resume, timers, interrupt, priority_set, wait_process, wait_event | wakeup events resume it; guards and events name it in their lists |
| resource guard `cmb_resourceguard.c` | priority queue of waiting processes with a demand predicate each, observers | wait, signal, cancel, remove_key, register | all resources wait in one; a signal schedules a grant event |
| binary resource `cmb_resource.c` | holder | acquire, preempt, release, drop_holder | its guard; the holder's list |
| resource pool `cmb_resourcepool.c` | capacity, units in use, holders with amounts | acquire, preempt, release, drop, reprio | its guard; the holders' lists |
| buffer `cmb_buffer.c` | level, capacity | get, put, in any amounts | two guards, front and rear |
| object queue, priority queue `cmb_objectqueue.c`, `cmb_priorityqueue.c` | items, capacity | get, put, position, cancel, reprioritize | two guards |
| condition `cmb_condition.c` | its guard, what it observes | wait, signal, register its guard, cancel, remove | signals of other guards are forwarded to it |
| hashheap `cmi_hashheap.c` | binary heap in an array, open-addressing index by key | enqueue, dequeue, remove, reprioritize, find, pattern cancel, grow, compact | event queue, guards, pools and priority queues are hashheaps |
| coroutines `cmi_coroutine.c` | current, caller, status, stacks and their recycling | start, stop, exit, transfer, yield, resume, recovery | processes are coroutines |
| lists, memory pool `cmi_dlist.h`, `cmi_mempool.c` | rings of nodes; chunks and free list | add, unlink; alloc, free, expand | registry, waiters, awaitables; events and tags |
| trials `cimba.c`, registry `cmi_memregistry.c` | next trial, failures, worker threads; objects to tear down | run, worker loop, abandon; add, remove, demolition | worker threads share the counters; a trial's objects register |
| statistics `cmb_dataset.c`, `cmb_datasummary.c`, `cmb_timeseries.c`, `cmb_wtdsummary.c` | samples, moments, times and weights | add, merge, sort, median, histograms, autocorrelation | resources record their history in time series |
| random numbers `cmb_random.c` | generator state, bits left over from flips, alias tables | seed, uniform integers, dice, discrete and counting distributions | trials draw from one stream per thread |
| tutorial and benchmark programs | queue, cat and mice, park, harbor, radar (CPU and GPU), experiments | complete clients | use all of the above |
| logger, assertions | | | end a process or a trial |

What makes each correct:

* **event queue**: the clock never runs backwards; nothing scheduled lies in the
  past; a process that waits for an event is told once, and the truth.
* **process**: no blocked process is lost; timers, awaitables and events agree;
  a wakeup for a wait that is over is not taken for the present one; a process
  that ended waits nowhere, and no timer, preemption or resumption is left for it.
* **guard**: no waiter stays behind while what it waits for is to be had.
* **resources and pools**: the holder's list and the resource's record agree;
  units add up; a process believes to hold what it holds.
* **buffers and queues**: contents are conserved across partial transfers that
  are interrupted; a full or empty one does not strand the other side.
* **condition**: each waiter whose predicate holds at a signal is woken.
* **hashheap**: it implements a keyed priority queue, across growth, compaction
  and removal in the middle.
* **trials**: each is run once, and an abandoned one ends with everything torn
  down and nothing left over for the next.
* **statistics, random numbers**: what is kept incrementally equals what the
  definition over all samples says; choices have the chances they are given.
* **client programs**: nobody is forgotten, nothing is held in excess, results
  end up where they belong.

The hazards, each with its line in the source and the properties that cover it,
are listed in `PROJECT.json`.

## Modules

    EventQueue <- EventQueueProofs
        ^- MCEventQueue

    ProcessKernel <--- ProcessSystem
        ^                  ^
        +-- ResourceSystem +----------------------- MCResourceSystem
        +-- PoolSystem ----+-- Rodents ------------ MCPoolSystem
        +-- StoreSystem ---+-- BoundedStore ------- MCStoreSystem
        +-- ConditionSystem +---------------------- MCConditionSystem

    ResourceSystem <- ResourceProofs <- ResourceAbortProofs

    ProcessKernel <- KernelProofs
                        ^- PoolProofs ---> PoolSystem
                        ^- StoreProofs --> StoreSystem

    Trials <- TrialsProofs
        ^- MCTrials

    LibrarySystem <- LibraryProofs
        ^- MCLibrarySystem
        HashHeap, KeyedQueue         the hash heap and what it promises
        DatasetSystem, Timeseries    over Dataset, Moments, Ratio
        MemoryPool, AliasTable, Draws, Coroutines, LinkedList

    TutorialSystem --- MCTutorial
        Harbor, Park, Experiment, Queueing
        RadarGpu <- Radar

**EventQueue** models `cmb_event.c` and waits for events. The variables `simTime`,
`queue`, `counter` and `current` are `sim_time`, the hashheap `event_queue`, its
`item_counter` and the handle in `heap[0]`; `awaiting` is a process's EVENT
awaitable. Each action is one API call, or one `cmb_event_execute_next`
(`ExecuteClient` for an action of the client, `Deliver` for a wakeup). A wakeup
is an event like any other: it carries the handle of the event waited for and
resumes its process only if that is still the one awaited. Cancelling several
events schedules wakeups in an order that depends on the heap array, so
`Remove` allows every order that keeps the waiters of one event together.
`fate` and `told` are history variables: what became of the event last waited
for, and what the wait returned. The only function of a process here is to wait.

**ProcessKernel** is what processes, guards and the dispatcher share. Because one
call of the API changes many of these things one after the other, it is a
library of functions from a state record to the state after the call of the
same name, `cancel_awaiteds` with all that it sweeps, for instance, and
`resourceguard_wait` in two halves, before its yield (`GuardWait`) and after
(`GuardResume`). What the code asserts is a field: the first assertion that
fails, debug or release, is recorded in `failed` and ends the behaviour.

**ProcessSystem** is the dispatcher and the calls of `cmb_process.c`. The state is
one record, `sys`. A step is either one call by the running process, up to its
return or to its yield, or one event: it is executed, and a process that it
resumes runs until its blocking call has returned or blocks again. What a
process calls next is free within the `Repertoire` that a run gives it and within
the terms of the headers. The module does not know what processes wait for. Its
parameters are operators: `Satisfied` is the demand predicate that a guard
evaluates, `Continued` what a blocking call does after its wait, `Dropped` the drop
callback of what a stopped process holds, `Reprioritized` the callback of a
priority change. They are the function pointers of the C code. It also has the
properties that every client of the kernel shares.

**ResourceSystem** adds binary resources: `holder`, the list `held` of each process,
and acquire, preempt and release. `AcquireLoop` is the loop of
`cmb_resource_acquire`, which waits again if the resource was taken meanwhile.
`FairSpec` restricts the calls and adds fairness.

**PoolSystem** adds resource pools: units in use, holders, and acquire, preempt and
release of amounts. A call of `acquire_inner` that has to wait keeps its locals in
`claim`. Holders are preempted in the order of `holder_queue_rank`: priority, time
of entry, handle. Of the time only the order is kept: `since` numbers the distinct
times of entry of those who are holders, and `recent` has the processes that
entered now, so that another one who enters at this instant gets the same number.
Handles are the process pointers in the code; here a constant orders them.
**Rodents** is `tut_2_1.c`, cat and mice, on the same state: every animal follows
its program, and how long it holds is an unknown place between the other times.

**StoreSystem** is buffer, object queue and priority queue, one `Kind` per
behaviour, with the two guards as `Door`s and the demands at each. A `claim` is
what the call on a process's stack still has to move. **BoundedStore** is what
all three promise: deposits and withdrawals of whole objects, within capacity,
the one in front first. It knows neither guards nor waiting, and StoreSystem
implements it (`Implements`).

**ConditionSystem** is a condition, a resource whose guard it observes, and a world
that its waiters' predicates look at. A signal evaluates every waiter's predicate
before it wakes any, and wakes them in the order of the heap array; `HeapArrays`
has every array that the queue may be in.

**Trials** has the threads that call `cimba_run`, the workers they start, the shared
counters, and each thread's registry of objects with their destructors, with the
demolition of what a returned or abandoned trial leaves (`Demolition`, one
destructor after the other from the head of the list). The objects are all kinds
the library has; of what processes do to them only holding a resource, waiting for
it or for a condition, and registering a condition with the guard of a resource is
kept, because the destructors look at that. The program does not use what it has
destroyed itself: `Create`, `Acquire`, `Terminate` and `Destroy` have the guards that
this takes. Whether the demolition does is what `OnlyResourcesAbort` is about; a use of
what may be gone may end the program or not (`Echoes`).

**LibrarySystem** puts the parts side by side that share no state: in one behaviour
one of them, its `subject`, is used in any order of calls. **HashHeap** is the heap
as a sequence and the open hash map with its tombstones, and implements
**KeyedQueue**. **Dataset**, **Moments**, **Timeseries** compute with exact
fractions (**Ratio**); the sort of **Dataset** is that of all three; **DatasetSystem** has
the calls on datasets and summaries. **MemoryPool** has the chunks and the free
list, **AliasTable** the construction of alias tables, **Draws** the generator's
seeding and the draws that keep or count something, **Coroutines** the transfer of
control between coroutines, their stacks and the registry of a thread,
**LinkedList** the pointers of doubly linked lists.

**TutorialSystem** does the same for the client programs. **Harbor** is `tut_4_1.c`
to `tut_4_3.c` as one state machine of ships, tugs, berths, weather and the
undertaker; **Park** is `tut_3_1.c`; **Queueing** the M/M/1 queue of `tut_1_7.c` and
of the benchmarks; **Radar** and **RadarGpu** are `tut_5_1.c` to
`tut_5_3.cu`; **Experiment** has the main programs: the array of trials, their
execution in any order, and the walk through it that writes the file to plot.

| kernel and systems | code |
|---|---|
| `agenda`, `Dispatch` | `event_queue`, `cmb_event_execute_next` and the wakeup functions |
| `running`, `status`, `call` | the current coroutine, `CMI_COROUTINE_*`, the blocking call on its stack |
| `timers`, `ticket`, `joins` | awaitables of type TIME, RESOURCE (guard and key), PROCESS |
| `waiters`, `held`, `prio` | `waiters`, `resources`, `priority` of `struct cmb_process` |
| `queue`, `Front`, `Signal` | the guard's hashheap, `guard_queue_check`, `cmb_resourceguard_signal` |
| `observers` | `observers` of the guard |
| `holder` | `rp->holder` |
| `inUse`, `holders` | `rpp->in_use`, the hashheap `rpp->holders` |
| `claim` | `initially_held`, `req_amount`, `rem_claim`, `preempt` in `acquire_inner`; amount and object in `cmb_buffer_get`, `cmb_objectqueue_put`, ... |
| `untold` | history: what was taken from a process that it has not been told of |

| trials | code |
|---|---|
| `mutex`, `next`, `failed`, `created` | the lock of `cimba_run`, `cmg_next_trial_idx`, the failure count, the worker threads |
| `call`, `at`, `trial` | where a caller is in `cimba_run`, where a worker is in its loop, its index |
| `world[w].registry`, `.linked` | the thread's list in `cmi_memregistry.c`, and whether its head has been initialised |
| `world[w].life`, `.history`, `.recording` | what has been created, initialised, is being recorded |
| `world[w].holder`, `.queued`, `.observers` | what the destructors of a resource assert about, and whom they signal |

Encodings. In the process systems times are relative: an event carries its delay
from now, so the clock needs no bound and states recur. Handles and keys matter
in the code in two ways, as order and as identity. As order they become
positions: the events of the agenda and the entries of a queue are numbered in
order of entry. As identity they are keys, and a key that nothing refers to is
used again; in the code it never is, but nobody could tell. A wait for an event
does not occur in ProcessSystem, and a process in EventQueue has no other
awaitable. A priority is an integer, `double`s are exact fractions.

Definitions with a comment "faulty" stand before the one they vary. They are
not part of the model: put in the place of that definition, each makes a
property fail, which shows that the property depends on the code it is about.

## Runs

| run | configuration | shows |
|---|---|---|
| event_queue | 2 processes, clock 0..1, 5 handles | `TypeOK`, `NoPastEvents`, `WaiterAccounted`, `TruthfulReturn`, `ClockMonotone` |
| contend | 3 processes of 2 priorities, 2 resources, agenda 2; acquire, preempt, release, hold, timers | `NoAbort`: no assertion fails; `BeliefSound`: who believes to hold a resource does, or is yet to be told what it lost |
| disturb | 3 processes, of which one controls the others, 1 resource, agenda 2; interrupts, resumes, stops, restarts, promotions, cancels, joins, exits | `HolderListed`, `NoStrandedWaiter`, `NoLostProcess`, `AwaitablesFaithful`, `FinishedIsGone`, and `NoOtherAbort`: only two assertions can fail, see below |
| fairness | 3 considerate processes, 1 resource | `EventuallyServed`, and absence of deadlock |
| pool | 3 processes and two pools, of 3 units and of 1, in amounts of 1 and 2, agenda 1; or two mice, a rat and a cat | `HoldersTrue`: units add up, records have the priorities of the present, and a pool is in a process's list once if it holds some and else not; `OutcomesTrue`: a call returns what it says; `StrandedOnlyByRollback` |
| stores | 3 processes and a buffer, an object queue or a priority queue of capacity 2 with 3 objects | `Implements`: it is a `BoundedStore`; `TransferHonoured`: what a call moved is what it says; `StrandedOnlyByCancel` |
| condition | 2 waiters and a third process, a world of 2 states, an observed resource | `SignalReachesAll`, `WaitTruthful` |
| trials | 2 callers of 2 trials each, 2 workers, every kind of object, two of them at a time, a resource and its observer among them | `EveryTrialOnce`, `CleanSlate`, `OnlyResourcesAbort`, `EveryRunReturns` |
| library | one library part per behaviour, see the bounds | `IndexSound` and `Implements` of the hash heap; `SamplesTrue`, `SeriesTrue`, `MemoryTrue`, `ChoicesTrue`, `CoroutinesTrue` |
| tutorial | one client program per behaviour | `HoldingsFit`, `NobodyForgotten`, `EveryShipLeaves` of the harbor; `VisitorsTracked` of the park; `RadarTrue`, `RadarSound`; `ResultsTrue` of queue and experiments |
| priority_abort, reproducible | as `disturb` and `library`, with other repertoires | counterexamples to what the documentation says, see below |

Every property has, in `PROJECT.json`, at least one mutation of the code under
which its run reports it violated.

**Bounds of the event queue.** `MaxHandle` = 5 lets an event with two waiters be
followed by their two wakeups and by another event, which they can wait for
while an old wakeup is scheduled. `MaxTime` = 1 gives a now and a later. Both are
bounds of TLC's only: what is proved holds for all of them.

**Bounds of the process systems.** Only the calls a process can make without
blocking lengthen the agenda, so `MaxAgenda` bounds just those; wakeups are never
refused. With two it admits a timer next to the timer of another process's hold,
grants come on top. One `Duration` suffices because what matters is whether two
events coincide, and holds begun at different instants end at the same time or
not: delays are counted from now, and an event of delay 0 is what coincides.
Three processes are a holder, a granted waiter and one behind it, the smallest
party in which a departure of the second can strand the third. Where two of three
processes are alike they are a symmetry set, and so are resources; no liveness is
checked with symmetry. In `disturb` promotions only go down (`PeersSink`),
because upwards they meet the aborting case of `priority_abort` early.

In `pool` three units in amounts of one and two are the fewest with which a
process that holds some can collect part of a second claim and lose it again,
a victim can have more than its robber needs, and one holder's units do not
satisfy a claim. The second pool has one unit: it is what somebody else can be robbed of while
it collects units of the first. A claim that, with what its process holds already,
exceeds the capacity is left out: it would wait forever. The priority of interrupts
(`Urgency`) is not above any process's, so that news of a preemption is not
overtaken; what happens otherwise is said below. Cat and mice have three units
too, mice bite one and the rat three, so that it has to rob both.

A store of capacity 2 with claims of 1 to 3 units can be filled, emptied and
transferred through in parts that do not fit at once.

**Bounds of the library.** The parts share no state, so a behaviour that uses one of
them is as good as one that uses all. The hash heap has room for two items and may
double once; it takes four new items, under keys of its own and under one that a
caller supplies (`Handles`), or begins with six, which is the least number at which
removing an inner item moves the last one up. The multiplicative hash sends
several of these keys to one slot. Datasets and summaries have four samples in
all of three values, and so do series: enough for a copy of two, and for arrays of
two to grow. A history has a mark where two empty summaries were merged, whose
division 0/0 leaves moments that are no numbers. A series from which something was
read or written beyond an array is not followed further, as C says nothing of it; a
series that is sorted by value is not added to before it is sorted back, as
`cmb_timeseries.h` says it is no longer a time series. Random words have two bits;
every sequence of them is tried, over three draws in two trials. The linked list
has three nodes, a first, an inner and a last one.

**Bounds of the client programs.** Durations are continuous in the programs, so two
processes are never due at one instant: the models have no ties, except where the
programs make them. In the harbor four ships of two sizes contend for two berths
of each and three tugs; `TugsSuffice` is the boundary, since with two tugs of
which a ship needs two, ships that leave can lock each other up (below). The
radar lives on a grid of nine by nine cells, with angles in eighths of a turn and
distances measured as on a square, so that every number is a fraction; one ridge
hides a target at some places of the orbit and not at others. Experiments have
two scenarios, levels, terrains, repetitions and workers, one abandoned trial.

**Deadlock** is checked in `fairness` only: elsewhere processes may all end, or
yield without anybody to resume them, and then a trial ends.

**Fairness.** `FairSpec` of ResourceSystem assumes three things. The dispatcher
takes a step while there are events and no process runs, as
`cmb_event_queue_execute` loops until the queue is empty: weak fairness of
`Dispatch`. A process that runs does not call acquire and release in turn forever
without letting time pass: weak fairness of `Hold`. And one that comes to run
again and again with a resource in hand releases it: strong fairness of
`Release`. The last two are assumptions on the user's model, not on the library.
The processes are *considerate*: they do not call acquire in the instant between
release and the resumption of the waiter granted; without that the property is
false, because `cmb_resource_acquire` lets a caller grab when nobody is queued, and
a granted waiter is not queued any more. In Trials all threads together make
progress (`WF_vars(Progress)`): the operating system runs some thread that can run,
and a trial ends, or is abandoned, after finitely many calls. In Harbor waking and
holding are weakly fair, and weather that suits each kind of ship comes again and
again, as a random walk has it.

### What the code does not keep

Two runs report counterexamples, quoted with their lines in `PROJECT.json`.

* `PriorityMayChange` (`priority_abort`): the priority of a process that is granted
  a resource but not resumed yet cannot be changed: `cmi_hashheap_drank` asserts
  that its queue entry exists. With assertions off it reads slot 0 of the heap.
* `Reproducible` (`reproducible`): the bits that `cmb_random_flip` has left over
  survive into the next trial of the thread, which then draws other numbers from
  the same seed.

The others were met while modelling and have no run. The models follow the code,
and the properties above are stated so as to hold with them.

* A caller at the timestamp of a release jumps ahead of the waiter that was granted
  the resource, who queues again, at the end. An interrupted waiter signals the
  guard when it leaves, even if it was not the one granted; the next one is woken
  for nothing and loses its place. One departure can signal a guard twice.
* The wakeup for a join has no identity; one left over from a join that timed out
  ends the next join with success while the other runs on, even in the next life
  of a process that was stopped and started again: `cmi_process_cancel_awaiteds`
  does not look for it, and `FinishedIsGone` leaves it out. If the process waits
  for nothing, `wakeup_event_process` asserts that it does: with that of
  `priority_abort`, the assertions that `NoOtherAbort` leaves out.
* `cmb_process_resume` is not tied to the yield it was meant for: if a timer ends
  that yield first, the resumption may hit a wait for a resource with a success
  signal, and `cmb_resourceguard_wait` fails its assertion. No repertoire of the
  passing runs has both timers and resumes.
* An interrupt of higher priority sweeps the news of a preemption; the victim goes
  on to release what it lost. For pools it makes `acquire_inner` roll back to what
  its process had before it was robbed, and `reset_holder` fails its assertion.
* A process that waits at one pool and is preempted of something else returns from
  the acquire with `CMB_PROCESS_PREEMPTED`, and keeps what it had and what the call
  had collected (`cmb_resourcepool.c:559-563`), where `cmb_resourcepool.h:135-139`
  has it return empty-handed. `ClaimHonoured` tells the two cases apart.
* An acquire of a pool that is interrupted or times out gives back the units it
  collected; if its process had held none before, it does not signal the guard,
  and a waiter whom they would serve sleeps on. `StrandedOnlyByRollback` shows that
  nothing else strands a waiter. Likewise `cmb_priorityqueue_cancel` makes space
  without a signal (`StrandedOnlyByCancel`).
* Clearing the event queue forgets those who wait for its events.
* `cmb_condition_subscribe` and `cmb_condition_unsubscribe` (`cmb_condition.h:187` and
  `206`) pass the condition itself for its guard, which is not its first member
  (`cmb_condition.h:62-66`): a signal forwarded to it would take other fields for the
  queue. Nothing in the repository calls them: the programs and the tests register the
  condition's guard (`tut_4_1.c:499`, `test_resourceguard.c:477`), and so do the models.
* A forwarded signal is `cmb_resourceguard_signal`, which wakes only the front
  waiter of the condition, where `cmb_condition.h:16-30` has all; and
  `cmb_condition_signal` does not pass a signal on to the condition's own observers.
* `cmb_buffer.h:123-124` and `144-145` describe what get and put return the wrong way
  round. A pattern cancel in a hash heap counts matches before it allocates.
* A thread that never registered anything asks an unlinked list whether it is
  empty (`cimba.c:301`, assertion at `cmi_dlist.h:84`). A resource that is held and
  recorded, or waited for, fails an assertion in its destructor, although
  `docs/background.rst:1113` lets a trial be abandoned anywhere: `OnlyResourcesAbort`.
  The destructor of one that is held signals its guard (`cmb_resource.c:67`), and the
  guard its observers: a condition that was made later is gone by then, as objects are
  torn down in reverse, and of one that is waited for the waiter may be.
  `cimba.c:399` returns what `cimba.h:171` does not say.
* `cmb_timeseries_copy` gives a copy arrays of times and weights for its samples only
  (lines 345 and 357), but the size of its source's array of values; a sample that is
  added while that has room is written beyond the other two. `cmb_timeseries_finalize`
  asserts that a series may be empty (line 187) and then reads the value before the
  first. `SeriesTrue` has these two cases, and says that there are no others.
* Merging two empty summaries divides zero by zero, and what is added to or merged
  with the result has no moments either, except that a weighted one starts afresh with
  its first sample. The autocorrelations of lags near the length of a dataset can
  exceed 1, against the assertions of `cmb_dataset.c:742` and `802`: of 1, 0, 0, −1 the
  third is −3/2. `MomentsTrue` has the first; the models leave these assertions out.
* `cmb_timeseries.c:490`: the weighted median differs from its definition when the
  cumulated weight meets one half. A parent of a coroutine may be its own child,
  and `cmi_coroutine` walks such a cycle forever; a thread's clean-up leaves statuses.
* Tutorial programs: in the harbor tugs can be held in part by ships that leave,
  each waiting for more. In `tut_4_3.c` line 573 resets the result to 0.0 and so
  defeats the sentinel −1.0 that lines 717 and 823 look for: a trial that is abandoned
  enters the averages as 0.0, which `LevelsTrue` states. The assertion in
  `t_crit_95` (`tut_1_7.c`, `tut_4_3.c`) has its bounds reversed, and the
  interpolation starts from the wrong end. The half-widths use the standard
  deviation, not that of the mean. `stop_rec` starts the tugs' recording anew
  (`tut_4_1.c:445`, `tut_4_3.c:494`).
* Radar: a turn that ends between two dwells loses its rest (`tut_5_1.c:1480`), and so
  does the last stretch of a drive. The processor's gate leaves out the beam's own
  movement during a dwell, the device does not unwrap it and sweeps once too often
  in each orbit. Their Doppler and horizon verdicts differ. `tut_5_2.cu` tests the beam
  first and leaves the verdict of a target that is not lit, `tut_5_3.cu` (1155-1186)
  gives those of horizon and lobe to all: `RadarGpu` has both. The statistics of
  `tut_5_3.c` add sentinels of −1.


## Proofs

TLC checks the instances above; TLAPS proves the following for every value of the
constants. The assumptions are those that the modules state about their constants
(`PrioAssumption`, `BoundAssumption`, `TrialsAssumption`, `LibraryAssumption`; in
ResourceSystem, PoolSystem and StoreSystem `NullAssumption`, `FiniteAssumption`, `ClientAssumption`, with
`PoolAssumption` and `StoreAssumption`: priorities are integers, bounds naturals,
capacities and amounts positive, threads and processes finitely many, each object of
one kind, the handles of two processes different, the sizes of objects, pages, stacks
and chunks positive, coroutines finitely many and main none of them, and the null pointer
no object), which TLC evaluates in every run.

| module | theorem | states for all constants |
|---|---|---|
| EventQueueProofs | `TypeCorrect`, `NoPastEventsCorrect`, `ClockMonotoneCorrect` | typing; no scheduled event in the past; the clock never runs backwards |
| EventQueueProofs | `WaiterAccountedCorrect` | whoever waits for an event is listed once, with that event, or its one wakeup is scheduled |
| EventQueueProofs | `TruthfulReturnCorrect` | a wait returns success only if the event was executed, cancelled only if it was cancelled |
| ResourceProofs | `HolderListedCorrect` | a resource is in the list of its holder, once, and in no other; holders are alive |
| ResourceProofs | `AwaitablesFaithfulCorrect` | queues, tickets, timers and their events agree, at the priority the process has now |
| ResourceProofs | `NoStrandedWaiterCorrect` | nobody waits for a free resource unless a grant is on its way to one who still waits for it |
| ResourceProofs | `NoLostProcessCorrect` | whoever is blocked is in the list, the queue or the agenda from which its call will be ended |
| ResourceProofs | `FinishedIsGoneCorrect` | a finished process waits nowhere, and no timer, preemption or resumption is scheduled for it |
| ResourceAbortProofs | `NoOtherAbortCorrect` | in mild programs no assertion fails but the two that a promotion and a stale join wakeup can fail |
| ResourceAbortProofs | `NoAbortCorrect` | in mild programs without promotions and joins, no assertion fails |
| ResourceAbortProofs | `BeliefSoundCorrect` | in mild programs, whoever runs knows of everything that was taken from it |
| ResourceAbortProofs | `WaitsCorrect` | in mild programs the four properties of ResourceProofs hold without their condition |
| PoolProofs | `HoldersTrueCorrect` | the units in use are those on record, at the priorities of the present, and in a process's list is what it holds |
| StoreProofs | `ImplementsCorrect` | buffer, object queue and priority queue implement BoundedStore: every step is a deposit or a withdrawal of whole objects, or neither |
| LibraryProofs | `MemoryTrueCorrect` | a memory pool hands out every object to one at a time and loses none; a linked list leads to what was put into it, both ways, and nowhere else |
| LibraryProofs | `CoroutinesTrueCorrect` | the registry of coroutines finds exactly those that have a stack, no stack is lost, used twice or too small, and wherever control may be passed a context is saved |
| TrialsProofs | `EveryTrialOnceCorrect` | no trial is started twice; all have been, and the failures counted, when a caller's workers have been joined |
| TrialsProofs | `CleanSlateCorrect` | a worker enters a trial with nothing left of the one before |
| TrialsProofs | `OnlyResourcesAbortCorrect` | demolition fails no assertion and uses nothing that is gone, but for what is named: a list never used, and a resource that is waited for, or held and recorded, or held and observed by a condition that is waited for or was made later |

**EventQueueProofs.** `NoPastEvents` needs the typing for one thing only: handles are
issued once, `DOMAIN queue \subseteq 1 .. counter`, so that what enters does not
overwrite what is there. The rest is one lemma about `Requeue` (what leaves, what
enters), cited for every action.

**Waits for events (EventQueueProofs).** Neither `WaiterAccounted` nor
`TruthfulReturn` is inductive. A wakeup names an event by its
handle and is honoured if the process still awaits that handle, so that a stale wakeup
is harmless only because handles that have left the queue are not issued again
(`WakeupsDead`). A process is woken once because it stands in one waiter list, that
of the event it awaits, once (`WaitersWait`). `WaitsKept` has the converse: a process
that awaits something stands there or is about to be told. With `Inv`, of the first three
theorems, and `TruthfulReturn` these are `WaitInv`. The lemmas say what `Requeue` does to
these (`DepartureWaits`, for events that are executed, cancelled one by one or by a
pattern), what `WithoutFirst` leaves (a process that gives up), and that the other
calls leave waits alone.

**ResourceProofs.** `HolderListed` is about two fields, and most of
its proof about the others. What a step does to a holder depends on the event that is
first, the waiter in front, the call that its process is blocked in and the guard it
waits at; all must exist and be of the right kind. `Steady` says so. Its core is
that the agenda and the queues are `Numbered`, 1 to n in the order of entry: then the
order of dispatch is total and has a least element (`Earliest`), which the CHOOSE
in `First` and `Front` picks. `EnterNumbered`, `LeaveNumbered`, `ExtendNumbered`
and `NumberedImage` keep it through insertions, sweeps, wakeups of many at once, and
changes of time or priority. Most calls of the kernel are then `Calm`: steady, with
owners and running process as before, one lemma per call. `Fit` adds the property
itself (`Owned`) and that whoever runs is alive, without which a grab would make a
dead process a holder; while a process ends, between `Finished` and `Dropped`, it may
hold resources though dead, which is the second parameter of `Owned`. The
assertions of the code are fields here, so that the theorem covers behaviours with
failed assertions up to the failure. ProcessSystem instantiates the kernel under
a name, so its operators are shown equal to those of ResourceSystem (`SameCalls`).

**Waits for resources (ResourceProofs).** The four properties of waits are proved
together, because none is inductive without the others: a grant that reaches a process
is harmless if it is stale and answers the wait if it is not, and which of the two it
is depends on the ticket, the call, the queue and the agenda at once. `Own(s, p)`
gathers the records of one process, with the events and entries about it stripped of
the numbers that order them; a step is then a change of one or two such views, and
`LocalCore` says that the others need not be looked at. The invariant of a state is
`Core` (`Shaped`: one entry, one event for a key, one place in a list; `Sound`: timers
are timer events, a queue entry is the ticket's, unanswered, at the present priority;
`Placed`: a ticket or join is that of the blocked call, and nothing comes to the dead;
`Apart`: no two waits share a key, for `FreshKey` looks through all records) with
`Served` (of a free resource that is waited for somebody has been told) and `Awake`
(the blocked can be reached) and `RunnerIdle` (who runs is not blocked). Between the
calls of one action it does not hold: `Fine(s, dying, open, out)` leaves out the
processes being taken apart, the guards still to be signalled and the processes that
have control. A release opens a guard and `SignalFine` closes it; a process that is
thrown out of a wait whose grant it had opens the guard, and `GuardResume` or
`CancelAwaiteds` closes it (`Given`, `Opened`); a stop makes its victim dying until
`Dropped` and the wakeups of its waiters are done (`StopFine`).

The theorems read *NoOtherAbort implies the property*. A failed assertion ends the
program, so that what the model computes for the rest of that step is never
executed. The condition is the very one that the run `disturb` checks: the two
assertions it excepts may fail, but a promotion and a join wakeup leave the records
in order even then (`SetPriorityFine`, `ProcessEventFine`), and no other event fails
them (`ExecutedQuiet`).

**ResourceAbortProofs.** Whether an assertion fails depends on the client programs, and
`MildPrograms` (in ResourceSystem) says which: no process both yields and sets timers,
unless nobody calls `cmb_process_resume`; and if anybody preempts, nobody interrupts or
resumes. These are the cases of a wakeup that hits a call it was not meant for, and each
one is needed: with both yields and timers in one process, TLC finds the failed assertion
of `cmb_resourceguard_wait` (a timer ends the yield, the resumption ends the wait for a
resource that comes next); with preemptions and resumes the same one (the news of the
preemption takes the place of the timer); and with preemptions and interrupts, a process
that runs without knowing what it lost. The programs of all runs of ResourceSystem are
mild (`MildAssumption`); nobody promotes or joins in `contend`, which checks `NoAbort`.
The records of ResourceProofs say what a wakeup is about, not whether it is
still wanted. The inductive invariant therefore adds `Due`: every event finds its
process in the state its sender meant (`EventDue`: a start one that is not alive, the
end of a hold the process in that hold, a resume one in its yield), there is one start
and one resume for a process at most (`OnceIn`), and who has lost something that it does
not know of is blocked, without anything that would wake it before the news does
(`LossTold`). A call that leaves every process where it is and adds at most a grant, a
cancellation or the news of an exit keeps it without further ado (`Plain`); a process
that goes on, blocks or ends must leave no event behind that was due in its former
call (`Turn`). Each assertion is then met where the code makes it; the invariant is
`SysDue`, which needs `SysSettled` of ResourceProofs for that, and the other way
round: so long as it holds no assertion fails but the two, and therefore the theorems
of ResourceProofs need no condition (`WaitsCorrect`).

**KernelProofs.** What a call of the kernel does to agenda, queues and processes, for
any `Process`, `Guard` and `Satisfied`: PoolProofs and StoreProofs instantiate it as `K`.
`Steady` is as in ResourceProofs, which has lemmas of its own because a steady state
there knows about holders too. A call is `Calm` if it leaves a steady state steady and
every field that is not the kernel's as it was (`Foreign`); the calls that also leave
the blocking calls alone are `Still`. `ProcessCall` and the dispatcher are split into
such pieces, the operators a client passes in between them.

**StoreProofs.** The abstract contents are `items`, and the units in the hands of the
processes. Refinement needs an invariant (`Sound`): the contents are numbered in their
order and within capacity, hands are natural numbers, and a put that is blocked has in
its hand all that it still has to put (`Consistent`), so that what a resumed call moves
is there. While a process is on its way through its call, the others' claims are as
they should be and its own need not (`Within`). A step of StoreSystem is then a
sequence of kernel calls, which change neither contents nor hands (`Settled`), around
at most one transfer (`Moved`), and a transfer is an action of BoundedStore (`Moves`):
the loop of a put or get blocks after what it could move. Each of the three kinds has
its lemma. The initial states map by their definition; `SameCalls` and the like equate
the operators that two instances of one module define.

**PoolProofs.** During a call the books need not balance: `cmb_resourcepool_release`
erases a record before it lowers the count, a robber takes part of what its victim
had. `Off(s, b, d)` says that they do but for `d` units of pool `b`, which are in use
and on no record, and `Sound` is `Off` by nothing at every pool. It says more than
`HoldersTrue`: a process has one record, of a positive amount; use is within capacity;
claims are of numbers. The sum over the records is counted as the cardinality of a
set (`Units`), so that a change of one record changes it by as much. Each call is a lemma
about what `d` becomes, `Take`, `Amount`, `Forget`, and what calls make of them. The
loops over victims (`MugAll`) and over what a dying process holds (`Dropped`) are
recursive functions over an interval; `Stepwise` carries a property from one turn to the
next. The victim that the CHOOSE in `Victim` picks exists because `Weaker`
is a strict total order on the records of a pool, which it is because no two handles
are equal. The theorem is about the clients of PoolSystem; for cat and mice, which
make the same calls in the order of their programs, the run checks it.

**LibraryProofs.** The parts of the library share nothing, so that each part has an
invariant of its own, those of pools and lists together `MemorySound`. A linked list is right if it is a `Ring` through the
sequence `order`, history of the calls, and everything else is `Apart`. A call changes
two or four links, in `Linked` and `LinkedBack`; where the places before and after
correspond is said by `PutIn` and `TakenOut`, so that one lemma serves additions at
either end and in the middle, and another one removals. Nodes that are not in the list
may be linked again (`LooseKeeps`). Of a memory pool `PoolSound` says that what it has
handed out, all of the older chunks and the last one up to `virgin` (`HandedOut`), is what
the program has and what was given back; that a chunk is taken only when nothing is left
of the last one makes the older ones complete. Whole pages suffice for the objects of a
chunk by arithmetic (`PagesSuffice`), for any two sizes.

**Coroutines (LibraryProofs).** `CoroutinesTrue` follows the links of the registry and
counts owners of stacks; neither says why the next call is right. The invariant
`CoroutinesSound` says that there is a sequence of coroutines through which the registry
leads both ways (`Chained`), and that every stack belongs to one of the sequence or lies
once on one shelf, that of its size (`Stacked`). It holds in all phases, so that what the
cleanup of a thread meets, whatever was abandoned before, is covered. While the thread
works or recovers, the sequence is of those that have been initialized, nobody is its
own parent, and main is there and runs (`Lively`); while it works, who has control runs
and all others that run have saved their contexts (`Controlled`), which is what makes
the next transfer land somewhere. Each helper has a lemma about what it does to the
sequence or the shelves (`RegistryAddDoes`, `RegistryRemoveDoes`, `StackAllocDoes`,
`StackFreeDoes`), each call one that puts them together. That the registry as the
property walks it is the sequence is shown place by place, by a least place that would
be wrong (`FollowsOnly`).

**TrialsProofs.** `SharedInv` says what the lock protects: one caller at most is inside
(`MutexKept`), each worker belongs to that caller (`WorkersLed`), the counter tells
which trials have been given out (`CounterTells`), a worker that has left its loop saw
none left (`AllTaken`), and the failure count together with the workers that are
about to add to it is the number of abandoned trials (`FailuresCounted`, with the
library's theorems on cardinalities). How one trial goes is hidden behind `BodyKeeps`.

**The registry (TrialsProofs).** A trial may be abandoned anywhere, so its thread's registry
has to be sound at all times (`Sound`): every entry occurs once and an object's own
entries are in the order in which they must be undone, history, terminate, destroy
(`Orderly`); the list has an entry for exactly what has been made (`Agrees`); only what
there is has a queue or observers (`Waited`), and the observers of what is held are
there (`Heard`). A demolition only takes away (`Less`), so an observer that is gone when
its guard is signalled had its destructor called before: `EchoesTrouble`. The
demolition is a recursive function over the length of the registry; that each of its
steps leaves a sound rest, and the last one an empty memory, is shown by a least
counterexample among the naturals. `WorldInv` adds what a thread's memory must be like
at each place of the worker's loop (`Fits`).

**What stays with TLC.** Liveness (`EventuallyServed`, `EveryRunReturns`,
`EveryShipLeaves`) needs fairness and ENABLED, which the prover does not have.
What recursive functions compute for every input (`KeyedQueue` by the heap,
statistics, the sort, alias tables, radar) needs induction over data. What calls of
pools and stores return (`OutcomesTrue`, `TransferHonoured`), that nobody is
stranded there but in the ways that are named (`StrandedOnlyByRollback`,
`StrandedOnlyByCancel`), which assertions fail there, the properties of conditions, of
the library's other parts and of the client programs, are model-checked only, on the
bounds above. Of programs that are not mild nothing is claimed about assertions and beliefs:
there they do fail.

## Not modelled

* The context switch in assembler, stacks and their guard pages, thread and signal
  handling of the platforms: their effect is that of `Coroutines` and `Trials`.
* Continuous distributions and the ziggurat tables they use, which are numerical;
  `Draws` takes the word 0 as never drawn, and compares two trials of one seed.
* Rounding, overflow of sums, and what is printed: reports, histograms, logging other
  than its effect on control.
* The generators of the tables and their Python counterparts.
* Programs that repeat a part that is modelled: `tut_1_1.c` to `tut_1_6.c` are stages
  of `tut_1_7.c`. The unit tests are clients, and no program of their own.

## Plan

Done: the models of all parts, their runs, and the theorems above. Left to prove, in
this order:

1. PoolSystem and StoreSystem: who is stranded, along the lines of `NoStrandedWaiter`,
   and which assertions can fail, along those of `NoOtherAbort`.
2. Harbor: `HoldingsFit`.
