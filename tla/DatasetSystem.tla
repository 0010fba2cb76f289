--------------------------- MODULE DatasetSystem ----------------------------
(* Datasets and summaries in use: every call of src/src/cmb_dataset.c,      *)
(* src/src/cmb_datasummary.c and src/src/cmb_wtdsummary.c that changes one, *)
(* in any order, with targets that are sources as well.                     *)
EXTENDS Integers, Sequences, FiniteSets, FiniteSetsExt, Ratio, Moments, Dataset

CONSTANTS Data, Summary,     \* names
          Sample, Weight,    \* fractions
          MaxSamples,        \* most samples of all datasets, or of all summaries
          MaxLag, MaxBins    \* what is asked of a dataset

ASSUME DatasetAssumption ==
    /\ InitSize \in Nat \ {0}
    /\ MaxSamples \in Nat /\ MaxLag \in Nat /\ MaxBins \in Nat
    /\ \A x \in Sample : Below(Zero -- Huge, x) /\ Below(x, Huge)

VARIABLES
    data,       \* the datasets
    given,      \* how often each sample was given to each of them
    plain,      \* cmb_datasummary objects
    weighted,   \* cmb_wtdsummary objects
    added,      \* the samples each summary stands for
    addedTo     \* and those of each weighted one, with their weights

dataVars == <<data, given, plain, weighted, added, addedTo>>

DataInit ==
    /\ data = [d \in Data |-> Uninitialized]
    /\ given = [d \in Data |-> [x \in Sample |-> 0]]
    /\ plain = [s \in Summary |-> EmptySummary]
    /\ weighted = [s \in Summary |-> EmptyWeighted]
    /\ added = [s \in Summary |-> <<>>]
    /\ addedTo = [s \in Summary |-> <<>>]

SumOf(f, S) == MapThenSumSet(LAMBDA s : Len(f[s]), S)
Samples == SumOf([d \in Data |-> data[d].xa], Data)

-----------------------------------------------------------------------------
(* Calls on datasets.                                                       *)

Becomes(d, new, bag) ==
    /\ data' = [data EXCEPT ![d] = new]
    /\ given' = [given EXCEPT ![d] = bag]
    /\ UNCHANGED <<plain, weighted, added, addedTo>>

Nothing == [x \in Sample |-> 0]

Initialize(d) == ~data[d].live /\ Becomes(d, Fresh, Nothing)
Terminate(d) == data[d].live /\ Becomes(d, Uninitialized, Nothing)
Reset(d) == data[d].live /\ Becomes(d, Fresh, Nothing)

Add(d) == \E x \in Sample :
    /\ data[d].live /\ Samples < MaxSamples
    /\ Becomes(d, Added(data[d], x), [given[d] EXCEPT ![x] = @ + 1])

Sort(d) == data[d].live /\ Becomes(d, Sorted(data[d]), given[d])

Copy(d) == \E s \in Data \ {d} :
    /\ data[s].live
    /\ Samples - Len(data[d].xa) + Len(data[s].xa) <= MaxSamples
    /\ Becomes(d, Copied(data[s]), given[s])

Merge(d) == \E s, t \in Data :
    /\ data[s].live /\ data[t].live
    /\ Samples - Len(data[d].xa) + Len(data[s].xa) + Len(data[t].xa) <= MaxSamples
    /\ Becomes(d, Merged(data, d, s, t), [x \in Sample |-> given[s][x] + given[t][x]])

-----------------------------------------------------------------------------
(* Calls on summaries.                                                      *)

Counted(f) == SumOf(f, Summary)

(* What a merged summary stands for. Two empty ones divide zero by zero,    *)
(* which leaves a mark.                                                     *)
Together(seen, other, mark) == IF seen \o other = <<>> THEN <<mark>> ELSE seen \o other
NoPair == <<Nan, Nan>>

AddPlain(s) == \E x \in Sample :
    /\ Counted(added) < MaxSamples
    /\ plain' = [plain EXCEPT ![s] = SummaryAdd(@, x)]
    /\ added' = [added EXCEPT ![s] = Append(@, x)]
    /\ UNCHANGED <<data, given, weighted, addedTo>>

ResetPlain(s) ==
    /\ plain' = [plain EXCEPT ![s] = EmptySummary]
    /\ added' = [added EXCEPT ![s] = <<>>]
    /\ UNCHANGED <<data, given, weighted, addedTo>>

MergePlain(u) == \E s, t \in Summary :
    /\ plain' = [plain EXCEPT ![u] = SummaryMerged(plain[s], plain[t])]
    /\ added' = [added EXCEPT ![u] = Together(added[s], added[t], Nan)]
    /\ Counted(added') <= MaxSamples
    /\ UNCHANGED <<data, given, weighted, addedTo>>

AddWeighted(s) == \E x \in Sample, w \in Weight :
    /\ Counted(addedTo) < MaxSamples
    /\ weighted' = [weighted EXCEPT ![s] = WeightedAdd(@, x, w)]
    /\ addedTo' = [addedTo EXCEPT ![s] = IF w = Zero THEN @
                                         ELSE IF weighted[s].ds.count = 0 THEN <<<<x, w>>>>
                                         ELSE Append(@, <<x, w>>)]
    /\ UNCHANGED <<data, given, plain, added>>

MergeWeighted(u) == \E s, t \in Summary :
    /\ weighted' = [weighted EXCEPT ![u] = WeightedMerged(weighted[s], weighted[t])]
    /\ addedTo' = [addedTo EXCEPT ![u] = Together(addedTo[s], addedTo[t], NoPair)]
    /\ Counted(addedTo') <= MaxSamples
    /\ UNCHANGED <<data, given, plain, added>>

DataSteps == \E d \in Data :
    Initialize(d) \/ Terminate(d) \/ Reset(d) \/ Add(d) \/ Sort(d) \/ Copy(d) \/ Merge(d)
PlainSteps == \E s \in Summary : AddPlain(s) \/ ResetPlain(s) \/ MergePlain(s)
WeightedSteps == \E s \in Summary : AddWeighted(s) \/ MergeWeighted(s)

-----------------------------------------------------------------------------
(* Properties.                                                              *)

Times(xs, x) == Cardinality({i \in DOMAIN xs : xs[i] = x})

\* No sample is lost or counted twice.
SamplesKept == \A d \in Data, x \in Sample : Times(data[d].xa, x) = given[d][x]

(* The k-th smallest sample, by counting.                                   *)
Ranked(xs, k) == CHOOSE x \in {xs[i] : i \in DOMAIN xs} :
    /\ Cardinality({i \in DOMAIN xs : Below(xs[i], x)}) < k
    /\ Cardinality({i \in DOMAIN xs : AtMost(xs[i], x)}) >= k

\* The median of the samples of rank a, .., b.
Middle(xs, a, b) ==
    (Ranked(xs, (a + b) \div 2) ++ Ranked(xs, (a + b + 1) \div 2)) // Whole(2)

OrderTrue(d) ==
    LET xs == d.xa
        n == Len(xs)
    IN  /\ Ascending(Sorted(d).xa)
        /\ n > 0 => Median(d) = Middle(xs, 1, n)
        /\ n >= 4 => FiveNumbers(d) =
               <<Ranked(xs, 1), Middle(xs, 1, n \div 2), Middle(xs, 1, n),
                 Middle(xs, n - n \div 2 + 1, n), Ranked(xs, n)>>

\* The edges of the bins as they are printed.
HistogramTrue(d) == \A bins \in 1 .. MaxBins, low, high \in Sample :
    LET lim == Limits(d, low, high)
        edge(k) == lim[1] ++ Whole(k) ** ((lim[2] -- lim[1]) // Whole(bins))
        inBin(x, b) == /\ b > 0 => AtMost(edge(b - 1), x)
                       /\ b <= bins => Below(x, edge(b))
    IN  AtMost(low, high) /\ Below(lim[1], lim[2]) =>
            \A b \in 0 .. bins + 1 :
                Histogram(d, low, high, bins)[b] =
                    Cardinality({i \in DOMAIN d.xa : inBin(d.xa[i], b)})

\* Each autoregression satisfies the Yule-Walker equations of its order.
YuleWalker(d) ==
    LET acf == ACF(d, MaxLag)
        phis == Autoregressions(acf, MaxLag)
        lag(k) == acf[IF k < 0 THEN -k ELSE k]
    IN  \A n \in 1 .. MaxLag : (\A j \in 1 .. n : phis[n][j] # Nan) =>
            \A k \in 1 .. n : acf[k] = Total(LAMBDA j : phis[n][j] ** lag(k - j), n)

(* Whatever is added, sorted, copied and merged, also into a source, a      *)
(* dataset keeps its samples, has room for them, knows their extremes, and  *)
(* what is computed of it, by sorting a copy or counting into bins or       *)
(* recursion over lags, is what these numbers are defined to be.            *)
DatasetTrue == SamplesKept /\ \A n \in Data :
    LET d == data[n] IN
    /\ Len(d.xa) <= d.cursize
    /\ \A i \in DOMAIN d.xa : AtMost(d.min, d.xa[i]) /\ AtMost(d.xa[i], d.max)
    /\ OrderTrue(d)
    /\ HistogramTrue(d)
    /\ Len(d.xa) > MaxLag + 1 => YuleWalker(d)
    /\ Describes(Summarized(d), d.xa, [i \in DOMAIN d.xa |-> Whole(1)])

\* The moments of a summary that two empty ones were merged into.
Spoilt(d) == \A m \in {d.m1, d.m2, d.m3, d.m4} : m = Nan

(* However samples are spread over summaries that are merged, also into one *)
(* of the sources, the summary of all of them has the count, the extremes   *)
(* and the central moments of all of them; and the moments are lost for good*)
(* once two empty summaries were merged, and never otherwise.               *)
MomentsTrue == \A s \in Summary :
    LET xs == SelectSeq(added[s], LAMBDA x : x # Nan)
        pairs == SelectSeq(addedTo[s], LAMBDA pair : pair # NoPair)
        ys == [i \in DOMAIN pairs |-> pairs[i][1]]
        ws == [i \in DOMAIN pairs |-> pairs[i][2]]
    IN  /\ IF xs = added[s] THEN Describes(plain[s], xs, [i \in DOMAIN xs |-> Whole(1)])
           ELSE Spoilt(plain[s]) /\ plain[s].count = Len(xs)
        /\ IF pairs = addedTo[s] THEN Describes(weighted[s].ds, ys, ws)
           ELSE Spoilt(weighted[s].ds) /\ weighted[s].ds.count = Len(ys)
        /\ weighted[s].wsum = Total(LAMBDA i : ws[i], Len(ws))

(* However samples are kept, one by one or summarized, what is computed of  *)
(* them is what it is defined to be.                                        *)
SamplesTrue == DatasetTrue /\ MomentsTrue
=============================================================================
