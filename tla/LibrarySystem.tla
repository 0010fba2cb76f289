--------------------------- MODULE LibrarySystem ----------------------------
(* The parts of the library that programs call and that never call back:    *)
(* the hash heap, datasets and summaries, time series, memory pools, tables *)
(* for random choices, draws by counting, coroutines, and linked lists.     *)
(* They share nothing, so a behaviour exercises one.                        *)
EXTENDS DatasetSystem, Functions, SequencesExt

CONSTANTS Handle, DRank, IRank, Payload, Anything, Hash(_, _), InitExp, Preloads,
          MaxExp, MaxCounter,     \* see HashHeap
          Series, Instant,        \* names, and times as fractions
          MaxObservations,        \* most samples of all series
          MemPool,                \* names of pools that are not static
          MaxChunks,              \* most chunks of all pools
          ObjectSize, PageSize, Requested, GrowthLimit, ListSize,
          Bits,                   \* in a random word
          Shares, MaxEntries,     \* probabilities are multiples of 1 / Shares
          WordBits, Dropped, Streams, Chances, Rates,
          MaxDraws,               \* see Draws
          Coroutine, Embedded, Main, NoCoroutine, StackSizes,
          MaxStacks,              \* see Coroutines
          Node, ListHead, Null    \* see LinkedList

INSTANCE Timeseries
Pool == INSTANCE MemoryPool
Table == INSTANCE AliasTable

VARIABLES
    subject,    \* the part in use
    heap, result,   \* a hash heap, and what its last call returned
    series,     \* the time series
    observed,   \* the samples and times that were added to each
    pool,       \* the memory pools
    held,       \* the objects of each that the program has
    exited,     \* the thread has ended
    pa,         \* the probabilities of a table
    table,      \* and its construction
    draws,      \* the draws
    co,         \* the coroutines
    list, order \* a doubly linked list

H == INSTANCE HashHeap WITH h <- heap, Any <- Anything
D == INSTANCE Draws
C == INSTANCE Coroutines
L == INSTANCE LinkedList WITH Head0 <- ListHead

ASSUME LibraryAssumption ==
    /\ MaxObservations \in Nat /\ MaxChunks \in Nat
    /\ ObjectSize \in Nat \ {0} /\ PageSize \in Nat \ {0} /\ Requested \in Nat \ {0}
    /\ GrowthLimit \in Nat /\ ListSize \in Nat \ {0}
    /\ Embedded \subseteq Coroutine /\ {Main, NoCoroutine} \intersect Coroutine = {}
    /\ Main # NoCoroutine /\ IsFiniteSet(Coroutine)
    /\ StackSizes \subseteq Nat \ {0} /\ MaxStacks \in Nat
    /\ H!HashHeapAssumption /\ L!ListAssumption
    /\ Bits \in Nat /\ Shares \in Nat \ {0} /\ MaxEntries \in Nat

heapVars == <<heap, result>>
seriesVars == <<series, observed>>
poolVars == <<pool, held, exited>>
tableVars == <<pa, table>>
listVars == <<list, order>>
libraryVars ==
    <<subject, heapVars, dataVars, seriesVars, poolVars, tableVars, draws, co, listVars>>

StaticName == "static"
Pools == MemPool \union {StaticName}

Distribution == UNION {
    {[i \in 1 .. n |-> Frac(c[i], Shares)] :
        c \in {c \in [1 .. n -> 0 .. Shares] : FoldLeft(+, 0, c) = Shares}} : n \in 1 .. MaxEntries}

LibraryInit ==
    /\ subject \in {"heap", "data", "plain", "weighted", "series", "pool", "table", "draws",
                    "coroutines", "list"}
    /\ IF subject = "heap" THEN H!Init ELSE heap = H!Fresh(InitExp) /\ result = <<>>
    /\ DataInit
    /\ series = [s \in Series |-> UninitializedSeries]
    /\ observed = [s \in Series |-> <<>>]
    /\ pool = [p \in Pools |-> IF p = StaticName THEN Pool!StaticPool ELSE Pool!Terminated]
    /\ held = [p \in Pools |-> {}]
    /\ exited = FALSE
    /\ pa \in IF subject = "table" THEN Distribution ELSE {<<Whole(1)>>}
    /\ table = Table!Started(pa)
    /\ IF subject = "draws" THEN D!DrawsInit ELSE draws = D!Started(<<>>)
    /\ co = C!Idle
    /\ L!ListInit

-----------------------------------------------------------------------------
(* Time series.                                                             *)

Turns(s, new, seen) ==
    /\ series' = [series EXCEPT ![s] = new]
    /\ observed' = [observed EXCEPT ![s] = seen]

Observations == SumOf([s \in Series |-> series[s].xa], Series)

\* A series in the order of its times, with the last sample at the end. Once
\* sorted by value it is "no longer a timeseries" (cmb_timeseries.h), and the
\* programs do not add to it until it is sorted back.
InSequence(s) ==
    LET d == series[s]
        n == Len(d.xa)
    IN  n > 0 => /\ Ascending(d.ta) /\ d.wa[n] = Zero
                 /\ <<d.xa[n], d.ta[n]>> = observed[s][n]

(* The assertions of cmb_timeseries_add: it is initialized, time does not go*)
(* back, and the last sample has no weight yet.                             *)
MayAdd(s, t) ==
    LET d == series[s]
        n == Len(d.xa)
    IN  d.live /\ (n > 0 => AtMost(d.ta[n], t) /\ d.wa[n] = Zero)

InitializeSeries(s) == ~series[s].live /\ Turns(s, FreshSeries, <<>>)
TerminateSeries(s) == series[s].live /\ Turns(s, UninitializedSeries, <<>>)
ResetSeries(s) == series[s].live /\ Turns(s, FreshSeries, <<>>)

Observe(s) == \E x \in Sample, t \in Instant :
    /\ MayAdd(s, t) /\ InSequence(s) /\ Observations < MaxObservations
    /\ Turns(s, SeriesAdded(series[s], x, t), Append(observed[s], <<x, t>>))

Finalize(s) == \E t \in Instant :
    LET d == series[s]
    IN  /\ MayAdd(s, t) /\ InSequence(s) /\ Observations < MaxObservations
        /\ Turns(s, Finalized(d, t),
                 IF d.xa = <<>> THEN <<>> ELSE Append(observed[s], <<Last(d.xa), t>>))

SortByValue(s) == series[s].live /\ Turns(s, SortedByValue(series[s]), observed[s])
SortByTime(s) == series[s].live /\ Turns(s, SortedByTime(series[s]), observed[s])

CopySeries(s) == \E r \in Series \ {s} :
    /\ series[r].live
    /\ Observations - Len(series[s].xa) + Len(series[r].xa) <= MaxObservations
    /\ Turns(s, SeriesCopied(series[r]), observed[r])

(* Beyond an array there is no saying what a program does.                  *)
SeriesSteps ==
    /\ \A s \in Series : series[s].intact
    /\ \E s \in Series :
           \/ InitializeSeries(s) \/ TerminateSeries(s) \/ ResetSeries(s)
           \/ Observe(s) \/ Finalize(s) \/ SortByValue(s) \/ SortByTime(s) \/ CopySeries(s)
    /\ UNCHANGED <<heapVars, dataVars, poolVars, tableVars, draws, co, listVars>>

-----------------------------------------------------------------------------
(* Memory pools of one thread.                                              *)

InitializePool(p) ==
    /\ p # StaticName /\ pool[p].cookie = "uninitialized"
    /\ pool' = [pool EXCEPT ![p] = Pool!Initialized]
    /\ UNCHANGED <<held, exited>>

TerminatePool(p) ==
    /\ p # StaticName /\ pool[p].cookie = "initialized"
    /\ pool' = [pool EXCEPT ![p] = Pool!Terminated]
    /\ held' = [held EXCEPT ![p] = {}]
    /\ UNCHANGED exited

Chunks == MapThenSumSet(LAMBDA p : Len(pool[p].chunks), Pools)

Alloc(p) ==
    LET a == Pool!Allocated(pool[p])
    IN  /\ pool[p].cookie # "uninitialized" /\ ~exited
        /\ Chunks + Len(a.pool.chunks) - Len(pool[p].chunks) <= MaxChunks
        /\ pool' = [pool EXCEPT ![p] = a.pool]
        /\ held' = [held EXCEPT ![p] = @ \union {a.object}]
        /\ UNCHANGED exited

Free(p) == \E o \in held[p] :
    /\ pool' = [pool EXCEPT ![p] = Pool!Freed(@, o)]
    /\ held' = [held EXCEPT ![p] = @ \ {o}]
    /\ UNCHANGED exited

(* cmi_mempool_thread_cleanup: the static pools that were used are on the   *)
(* list of the thread.                                                      *)
ThreadCleanup ==
    /\ ~exited /\ exited' = TRUE
    /\ pool' = [pool EXCEPT ![StaticName] =
                   IF @.cookie = "initialized" THEN Pool!Terminated ELSE @]
    /\ held' = [held EXCEPT ![StaticName] = {}]

PoolSteps ==
    /\ \/ \E p \in Pools : InitializePool(p) \/ TerminatePool(p) \/ Alloc(p) \/ Free(p)
       \/ ThreadCleanup
    /\ UNCHANGED <<heapVars, dataVars, seriesVars, tableVars, draws, co, listVars>>

-----------------------------------------------------------------------------
(* cmb_random_alias_create, one turn of a loop at a time.                   *)

Pair == table.small # <<>> /\ table.large # <<>> /\ table' = Table!Paired(table)
FillLarge == table.small = <<>> /\ table.large # <<>> /\ table' = Table!FilledLarge(table)
FillSmall == table.large = <<>> /\ table.small # <<>> /\ table' = Table!FilledSmall(table)

TableSteps ==
    /\ Pair \/ FillLarge \/ FillSmall
    /\ UNCHANGED <<heapVars, dataVars, seriesVars, poolVars, pa, draws, co, listVars>>

HeapSteps == H!Next /\ UNCHANGED <<dataVars, seriesVars, poolVars, tableVars, draws, co, listVars>>
DatasetSteps ==
    /\ \/ subject = "data" /\ DataSteps
       \/ subject = "plain" /\ PlainSteps
       \/ subject = "weighted" /\ WeightedSteps
    /\ UNCHANGED <<heapVars, seriesVars, poolVars, tableVars, draws, co, listVars>>
DrawSteps ==
    /\ D!DrawsNext
    /\ UNCHANGED <<heapVars, dataVars, seriesVars, poolVars, tableVars, co, listVars>>
CoroutineSteps ==
    /\ C!CoroutineNext
    /\ UNCHANGED <<heapVars, dataVars, seriesVars, poolVars, tableVars, draws, listVars>>
ListSteps ==
    /\ L!ListNext
    /\ UNCHANGED <<heapVars, dataVars, seriesVars, poolVars, tableVars, draws, co>>

LibraryNext ==
    /\ UNCHANGED subject
    /\ \/ subject = "heap" /\ HeapSteps
       \/ DatasetSteps
       \/ subject = "series" /\ SeriesSteps
       \/ subject = "pool" /\ PoolSteps
       \/ subject = "table" /\ TableSteps
       \/ subject = "draws" /\ DrawSteps
       \/ subject = "coroutines" /\ CoroutineSteps
       \/ subject = "list" /\ ListSteps

LibrarySpec == LibraryInit /\ [][LibraryNext]_libraryVars

-----------------------------------------------------------------------------
(* Properties.                                                              *)

\* The samples of a series as they were added, with the time to the next.
Triples(seen) ==
    [i \in DOMAIN seen |->
        <<seen[i][1], seen[i][2],
          IF i = Len(seen) THEN Zero ELSE seen[i + 1][2] -- seen[i][2]>>]

\* The weight of the triples whose sample satisfies a test.
WeightOf(tr, test(_)) == Total(LAMBDA i : IF test(tr[i][1]) THEN tr[i][3] ELSE Zero, Len(tr))

\* q is a quantile by weight, no less than the smallest sample: the samples
\* below it weigh no more than the part, and those up to the next no less.
IsQuantile(tr, q, part) ==
    LET w == part ** Total(LAMBDA i : tr[i][3], Len(tr))
        above == {tr[i][1] : i \in {i \in DOMAIN tr : AtMost(q, tr[i][1])}}
    IN  /\ \E i \in DOMAIN tr : AtMost(tr[i][1], q)
        /\ AtMost(WeightOf(tr, LAMBDA x : Below(x, q)), w)
        /\ \E next \in above :
               /\ \A x \in above : AtMost(next, x)
               /\ AtMost(w, WeightOf(tr, LAMBDA x : AtMost(x, next)))

FiveNumbersTrue(tr, five, median) ==
    /\ Ascending(five)
    /\ median # five[3] => median = Zero /\ five[3] = five[1]
    /\ \A k \in 2 .. 4 : IsQuantile(tr, five[k], Frac(k - 1, 4))

SeriesHistogramTrue(d, tr) == \A bins \in 1 .. MaxBins :
    LET edge(k) == d.min ++ Whole(k) ** ((d.max -- d.min) // Whole(bins))
    IN  Below(d.min, d.max) =>
            \A b \in 0 .. bins + 1 :
                SeriesHistogram(d, bins)[b] =
                    WeightOf(tr, LAMBDA x : /\ b > 0 => AtMost(edge(b - 1), x)
                                            /\ b <= bins => Below(x, edge(b)))

(* Searches through the index of a hash heap find what is in the heap, and  *)
(* end.                                                                     *)
IndexSound == subject = "heap" => H!IndexSound

(* A hash heap is a keyed queue.                                            *)
Implements == H!Implements

(* However a series is sorted, sorted back and copied, each sample keeps its*)
(* time and its weight, which is the time until the next sample was added;  *)
(* the five numbers are quantiles by weight, in order; and a series in the  *)
(* order of time is summarized and counted by weight. There is room for the *)
(* samples, but for those added to a copy whose xa had room left; and that, *)
(* and finalizing an empty series, is all that reaches beyond an array.     *)
SeriesTrue == subject = "series" => \A s \in Series :
    LET d == series[s]
        tr == Triples(observed[s])
        n == Len(tr)
        lasting == SelectSeq(tr, LAMBDA triple : triple[3] # Zero)
    IN  /\ Len(d.xa) = n /\ d.room <= d.cursize /\ n <= d.cursize
        /\ IF d.intact THEN n <= d.room ELSE n > 0 => d.copied /\ d.room < n
        /\ d.room < d.cursize => d.copied
        /\ \E p \in Permutations(1 .. n) :
               \A i \in 1 .. n : <<d.xa[i], d.ta[i], d.wa[i]>> = tr[p[i]]
        /\ n > 0 => FiveNumbersTrue(tr, SeriesFiveNumbers(d), SeriesMedian(d))
        /\ n > 0 /\ InSequence(s) =>
               /\ SeriesHistogramTrue(d, tr)
               /\ Describes(SeriesSummarized(d).ds, [i \in DOMAIN lasting |-> lasting[i][1]],
                            [i \in DOMAIN lasting |-> lasting[i][3]])

PoolTrue == \A p \in Pools :
    LET q == pool[p]
        c == Len(q.chunks)
    IN  /\ c <= q.room
        /\ \A i, j \in DOMAIN q.free : q.free[i] = q.free[j] => i = j
        /\ held[p] \intersect ToSet(q.free) = {}
        /\ held[p] \union ToSet(q.free) =
               UNION {{k} \X (1 .. IF k = c THEN q.virgin - 1 ELSE q.chunks[k]) : k \in 1 .. c}
        /\ c > 0 => q.virgin - 1 + q.left = q.chunks[c]
        /\ \A o \in held[p] : o[2] * ObjectSize <= Pool!Pages(q.chunks[o[1]]) * PageSize

(* However objects are taken and given back while a pool grows, no object   *)
(* is in two hands, none is lost between two chunks, each lies in its chunk,*)
(* and the list of chunks has room for them; and a list like that of the    *)
(* registry leads to all that was put into it, in order, and nowhere else.  *)
MemoryTrue ==
    /\ subject = "pool" => PoolTrue
    /\ subject = "list" => L!ListTrue

(* An alias table gives every index its probability, and while it is made   *)
(* the entries that are left have an average of one to share.               *)
TableTrue ==
    LET n == Len(pa)
        stacks == ToSet(table.small) \union ToSet(table.large)
    IN  /\ Total(LAMBDA i : IF i \in stacks THEN table.work[i] ELSE Zero, n)
               = Whole(Cardinality(stacks))
        /\ stacks = {} => \A k \in 1 .. n : Table!Probability(table, k) = pa[k]

(* A die of n sides shows each as often as the others for the words it      *)
(* accepts, and a loaded one each by its probability, also when its sides   *)
(* lie at either end of the range of a word, or on both sides of zero.      *)
DiceTrue ==
    LET n == Len(pa)
        half == 2 ^ (Bits - 1)
        grid == {Frac(k, Shares) : k \in 0 .. Shares - 1}
        accepted == {x \in Table!Word : Table!Accepted(x, n)}
    IN  \A k \in 1 .. n :
            /\ Frac(Cardinality({x \in grid : Table!ChosenBy(pa, x) = k}), Shares) = pa[k]
            /\ \A a \in {-half, -1, half - n} :
                   LET side == a + k - 1
                   IN  /\ Table!LoadedDice(a, k) = side
                       /\ Cardinality({x \in accepted : Table!Dice(a, a + n - 1, x) = side})
                              = 2 ^ Bits \div n

(* What is drawn at random has its distribution, whatever was drawn before  *)
(* it: from a table, as a side of a die, or by counting.                    *)
ChoicesTrue ==
    /\ subject = "table" => TableTrue
    /\ subject = "table" /\ table = Table!Started(pa) => DiceTrue
    /\ subject = "draws" => D!DrawsTrue

(* A trial draws the same numbers whenever it is given the same seed, also  *)
(* on a thread that has run another one (docs/background.rst:604-608).      *)
Reproducible == subject = "draws" => D!Reproducible

(* Whatever is made, restarted, stopped, torn down or abandoned: the        *)
(* registry finds what has a stack, no stack is lost or used twice, and     *)
(* wherever control may be passed a context is saved.                       *)
CoroutinesTrue == subject = "coroutines" => C!CoroutinesTrue
=============================================================================
