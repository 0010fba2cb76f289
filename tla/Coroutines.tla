----------------------------- MODULE Coroutines -----------------------------
(***************************************************************************)
(* The coroutines of one thread (src/src/cmi_coroutine.c) and their stacks *)
(* (cmi_coroutine_context.c for Linux): who has control, where it goes when*)
(* it is passed on, which stacks are used and recycled, and the registry   *)
(* by which the end of a thread finds whatever is left.  Processes use     *)
(* them in one pattern, ProcessKernel; here they are used in any.          *)
(***************************************************************************)
EXTENDS Naturals, Sequences, FiniteSets

CONSTANTS Coroutine, Embedded,  \* all, and those within another object
          Main, NoCoroutine,
          StackSizes, PageSize,
          MaxStacks             \* a bound

VARIABLE co
(* co.is[c]     what struct cmi_coroutine has, and whether its context is   *)
(*              saved on its stack                                          *)
(* co.current   coroutine_current                                           *)
(* co.registry  the head of the list                                        *)
(* co.stacks    the size of each stack there is                             *)
(* co.spare     stack_list: the recycled stacks of each size                *)
(* co.phase     "working", "recovering" from an abandoned trial,            *)
(*              "cleaning" up before the thread ends, or "ended"            *)

Zeroed == [exists |-> FALSE, status |-> "uninitialized", caller |-> NoCoroutine,
           parent |-> NoCoroutine, stack |-> 0, size |-> 0, saved |-> FALSE,
           prev |-> NoCoroutine, next |-> NoCoroutine]

Idle ==
    [is |-> [c \in Coroutine \union {Main} |-> [Zeroed EXCEPT !.exists = c \in Embedded]],
     current |-> NoCoroutine, registry |-> NoCoroutine,
     stacks |-> <<>>, spare |-> <<>>, phase |-> "working"]

Running(c) == co.is[c].status = "running"

-----------------------------------------------------------------------------
(* The registry, a list with links both ways.                               *)

RegistryAdd(t, c) ==
    LET first == t.registry
        u == [t EXCEPT !.is[c].prev = NoCoroutine, !.is[c].next = first, !.registry = c]
    IN  IF first = NoCoroutine THEN u ELSE [u EXCEPT !.is[first].prev = c]

(* Faulty: the one behind keeps its link back.                              *)
RegistryRemoveHalf(t, c) ==
    LET d == t.is[c]
    IN  IF d.prev # NoCoroutine THEN [t EXCEPT !.is[d.prev].next = d.next]
        ELSE [t EXCEPT !.registry = d.next]

RegistryRemove(t, c) ==
    LET d == t.is[c]
        u == IF d.prev # NoCoroutine THEN [t EXCEPT !.is[d.prev].next = d.next]
             ELSE [t EXCEPT !.registry = d.next]
    IN  IF d.next # NoCoroutine THEN [u EXCEPT !.is[d.next].prev = d.prev] ELSE u

-----------------------------------------------------------------------------
(* Stacks of whole pages.  One that was freed waits in the list of its size.*)

Rounded(size) == ((size + PageSize - 1) \div PageSize) * PageSize

(* The list of a size is the first in stack_list that has it.               *)
Place(t, size) == {i \in DOMAIN t.spare : t.spare[i].size = size}

StackAlloc(t, c, size) ==
    LET spare == {i \in Place(t, Rounded(size)) : t.spare[i].free # <<>>}
        new == Len(t.stacks) + 1
    IN  IF spare = {} THEN [t EXCEPT !.stacks = Append(@, Rounded(size)), !.is[c].stack = new]
        ELSE LET i == CHOOSE i \in spare : TRUE
             IN  [t EXCEPT !.is[c].stack = Head(t.spare[i].free),
                           !.spare[i].free = Tail(@)]

StackFree(t, stack, size) ==
    LET at == Place(t, Rounded(size))
    IN  IF at = {} THEN [t EXCEPT !.spare = <<[size |-> Rounded(size), free |-> <<stack>>]>> \o @]
        ELSE [t EXCEPT !.spare[CHOOSE i \in at : TRUE].free = <<stack>> \o @]

-----------------------------------------------------------------------------
(* Making and unmaking.  The assertions exclude main and whoever runs.      *)

Create(c) ==
    /\ co.phase = "working" /\ ~co.is[c].exists
    /\ co' = [co EXCEPT !.is[c] = [Zeroed EXCEPT !.exists = TRUE]]

(* create_main                                                              *)
WithMain(t) ==
    IF t.is[Main].exists THEN t
    ELSE [t EXCEPT !.is[Main].exists = TRUE, !.is[Main].status = "running", !.current = Main]

Initialize(c) == \E size \in StackSizes :
    /\ co.phase = "working" /\ co.is[c].exists /\ co.is[c].status = "uninitialized"
    /\ LET t == StackAlloc(WithMain(co), c, size)
       IN  /\ Len(t.stacks) <= MaxStacks
           /\ co' = RegistryAdd([t EXCEPT !.is[c].size = size, !.is[c].status = "initialized"], c)

Touchable(c) == c # co.current /\ co.is[c].status # "uninitialized"

Reset(c) ==
    /\ co.phase = "working" /\ Touchable(c)
    /\ co' = [co EXCEPT !.is[c].status = "initialized"]

(* The whole struct is cleared, links and all.                              *)
Terminate(c) ==
    /\ co.phase \in {"working", "recovering"} /\ Touchable(c)
    /\ LET t == StackFree(RegistryRemove(co, c), co.is[c].stack, co.is[c].size)
       IN  co' = [t EXCEPT !.is[c] = [Zeroed EXCEPT !.exists = TRUE],
                           !.phase = IF t.registry = NoCoroutine THEN "working" ELSE @]

Destroy(c) ==
    /\ co.phase = "working" /\ c \notin Embedded
    /\ co.is[c].exists /\ co.is[c].status = "uninitialized"
    /\ co' = [co EXCEPT !.is[c] = Zeroed]

-----------------------------------------------------------------------------
(* Passing control.                                                         *)

(* cmi_coroutine_transfer: the context of the one is saved, and that of the *)
(* other taken from its stack.                                              *)
Switched(t, to) ==
    LET from == t.current
    IN  [t EXCEPT !.is[from].saved = TRUE, !.is[to].saved = FALSE,
                  !.is[to].caller = from, !.current = to]

MayPassTo(c) == co.phase = "working" /\ co.current # NoCoroutine /\ c # NoCoroutine /\ Running(c)

(* cmi_coroutine_context_init: a context that launches the function.        *)
ContextInit(t, c) == [t EXCEPT !.is[c].saved = TRUE]

(* cmi_coroutine_start: also when one that finished or was stopped left     *)
(* another context on the stack.                                            *)
Start(c) ==
    /\ co.phase = "working" /\ co.current # NoCoroutine
    /\ co.is[c].status \in {"initialized", "finished"}
    /\ LET t == ContextInit(co, c)
       IN  co' = Switched([t EXCEPT !.is[c].parent = t.current, !.is[c].status = "running"], c)

Transfer(c) == MayPassTo(c) /\ c # co.current /\ co' = Switched(co, c)

(* To the caller, the last one that passed control here.                    *)
Yield ==
    /\ co.current # NoCoroutine
    /\ LET to == co.is[co.current].caller
       IN  MayPassTo(to) /\ co' = Switched(co, to)

(* To the parent, the one that started this one.                            *)
Exit ==
    /\ co.current \in Coroutine
    /\ LET me == co.current
           to == co.is[me].parent
       IN  MayPassTo(to) /\ co' = Switched([co EXCEPT !.is[me].status = "finished"], to)

(* One that stops itself exits.                                             *)
Stop(c) ==
    /\ co.phase = "working" /\ c # co.current /\ Running(c)
    /\ co' = [co EXCEPT !.is[c].status = "finished"]

-----------------------------------------------------------------------------
(* The ends.                                                                *)

(* recovery_prepare, a long jump, and recovery_finalize: the thread is in   *)
(* main again, and whoever it left is not to be resumed.  What there is is  *)
(* terminated before anything else is run (worker_thread_func).             *)
Recover ==
    /\ co.phase = "working" /\ co.current \in Coroutine
    /\ co' = [co EXCEPT !.current = Main, !.is[Main].saved = FALSE, !.phase = "recovering"]

(* cmi_coroutine_thread_cleanup: one coroutine after the other, as the      *)
(* registry has them, and then the stacks that were collected.              *)
CleanUpFirst ==
    /\ co.phase \in {"working", "cleaning"} /\ co.current = Main /\ co.registry # NoCoroutine
    /\ LET c == co.registry
           t == StackFree(RegistryRemove(co, c), co.is[c].stack, co.is[c].size)
       IN  co' = [t EXCEPT !.phase = "cleaning", !.is[c].exists = c \in Embedded]

CleanUpStacks ==
    /\ co.phase \in {"working", "cleaning"} /\ co.current = Main /\ co.registry = NoCoroutine
    /\ LET collected == UNION {{l.free[i] : i \in DOMAIN l.free} :
                                   l \in {co.spare[i] : i \in DOMAIN co.spare}}
       IN  co' = [co EXCEPT !.spare = <<>>, !.phase = "ended",
                            !.stacks = [s \in DOMAIN @ \ collected |-> @[s]]]

CoroutineNext ==
    \/ \E c \in Coroutine :
           \/ Create(c) \/ Initialize(c) \/ Reset(c) \/ Terminate(c) \/ Destroy(c)
           \/ Start(c) \/ Stop(c)
    \/ \E c \in Coroutine \union {Main} : Transfer(c)
    \/ Yield \/ Exit \/ Recover \/ CleanUpFirst \/ CleanUpStacks

-----------------------------------------------------------------------------
(* Properties.                                                              *)

\* Those that have been initialized, or what the cleanup has left of them.
Registered ==
    LET after[n \in 0 .. Cardinality(Coroutine)] ==
            IF n = 0 THEN <<co.registry>>
            ELSE LET last == after[n - 1][n]
                 IN  Append(after[n - 1],
                            IF last = NoCoroutine THEN NoCoroutine ELSE co.is[last].next)
    IN  after[Cardinality(Coroutine)]

(* Whatever is made, restarted, stopped, torn down or abandoned in whatever *)
(* order, the registry leads to every coroutine that has a stack, and to no *)
(* other (what cmi_coroutine_thread_cleanup relies on).                     *)
RegistryTrue ==
    LET r == Registered
        there == {r[i] : i \in DOMAIN r} \ {NoCoroutine}
    IN  /\ r[Cardinality(Coroutine) + 1] = NoCoroutine
        /\ \A i \in DOMAIN r : i > 1 /\ r[i] # NoCoroutine => co.is[r[i]].prev = r[i - 1]
        /\ co.phase \in {"working", "recovering"} =>
               there = {c \in Coroutine : co.is[c].status # "uninitialized"}

(* Every stack is that of one coroutine, which is large enough, or spare in *)
(* the list of its own size; when the thread has ended none is left.        *)
StacksTrue ==
    LET r == Registered
        users == {r[i] : i \in DOMAIN r} \ {NoCoroutine}
        spare(s) == {at \in UNION {{i} \X DOMAIN co.spare[i].free : i \in DOMAIN co.spare} :
                        co.spare[at[1]].free[at[2]] = s}
    IN  /\ \A s \in DOMAIN co.stacks :
               /\ Cardinality({c \in users : co.is[c].stack = s}) + Cardinality(spare(s)) = 1
               /\ \A c \in users : co.is[c].stack = s =>
                      co.is[c].size <= co.stacks[s] /\ co.stacks[s] = Rounded(co.is[c].size)
               /\ \A at \in spare(s) : co.spare[at[1]].size = co.stacks[s]
        /\ co.phase = "ended" => DOMAIN co.stacks = {}

(* Wherever control may be passed, somebody waits for it: the context is    *)
(* saved there; and whoever has control has not finished.                   *)
ControlTrue == co.phase = "working" /\ co.current # NoCoroutine =>
    /\ Running(co.current)
    /\ \A c \in Coroutine \union {Main} : Running(c) /\ c # co.current => co.is[c].saved

CoroutinesTrue == RegistryTrue /\ StacksTrue /\ ControlTrue
=============================================================================
