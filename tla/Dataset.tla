------------------------------ MODULE Dataset -------------------------------
(* src/src/cmb_dataset.c: arrays of samples that double when they are full, *)
(* are copied and merged, also into one of the sources, and sorted; and what*)
(* is computed of them.                                                     *)
EXTENDS Integers, Sequences, SequencesExt, FiniteSets, Ratio, Moments

CONSTANT InitSize  \* CMI_DATASET_INIT_SZ

-----------------------------------------------------------------------------
(* The heapsort, also of time series: arrays of the same length, of which   *)
(* the first is the key and the others move along.                          *)
(* cmi_dataset_swap, in every array.                                        *)
Swapped(arrays, i, j) ==
    [k \in DOMAIN arrays |->
        [arrays[k] EXCEPT ![i] = arrays[k][j], ![j] = arrays[k][i]]]

(* The place of the biggest of an element of the first n and its children.  *)
Biggest(key, n, i) ==
    LET l == IF 2 * i <= n /\ Below(key[i], key[2 * i]) THEN 2 * i ELSE i
    IN  IF 2 * i + 1 <= n /\ Below(key[l], key[2 * i + 1]) THEN 2 * i + 1 ELSE l

(* One turn of heapify's loop; at a root that is the biggest it is over.    *)
Sunk(s, n) ==
    LET big == Biggest(s.arrays[1], n, s.root)
    IN  IF big = s.root THEN s
        ELSE [arrays |-> Swapped(s.arrays, s.root, big), root |-> big]

(* heapify: no path from a root is longer than n.                           *)
Heapified(arrays, n, root) ==
    FoldLeft(LAMBDA s, turn : Sunk(s, n), [arrays |-> arrays, root |-> root],
             [turn \in 1 .. n |-> turn]).arrays

Heapsorted(arrays) ==
    LET n == Len(arrays[1])
        heap == FoldLeft(LAMBDA a, k : Heapified(a, n, n \div 2 + 1 - k), arrays,
                         [k \in 1 .. n \div 2 |-> k])
    IN  FoldLeft(LAMBDA a, k : Heapified(Swapped(a, 1, n + 1 - k), n - k, 1), heap,
                 [k \in 1 .. n - 1 |-> k])

Ascending(key) == \A i \in 1 .. Len(key) - 1 : AtMost(key[i], key[i + 1])

-----------------------------------------------------------------------------
(* live is the cookie; cursize is the room in xa, which is NULL at 0.       *)
Uninitialized == [live |-> FALSE, xa |-> <<>>, cursize |-> 0, min |-> Huge, max |-> Zero -- Huge]
Fresh == [Uninitialized EXCEPT !.live = TRUE]

Expanded(d) == [d EXCEPT !.cursize = IF @ = 0 THEN InitSize ELSE 2 * @]

Added(d, x) ==
    LET e == IF Len(d.xa) = d.cursize THEN Expanded(d) ELSE d
    IN  [e EXCEPT !.xa = Append(@, x), !.min = SmallerOf(x, @), !.max = LargerOf(x, @)]

Sorted(d) == IF d.cursize = 0 THEN d ELSE [d EXCEPT !.xa = Heapsorted(<<@>>)[1]]

(* Copying keeps the room, and merging gives just enough.                   *)
Copied(s) == [s EXCEPT !.live = TRUE]

(* Faulty: the target is cleared before the sources are read.               *)
MergedLate(d, target, s, t) ==
    LET left == IF s = target THEN Fresh ELSE d[s]
        right == IF t = target THEN Fresh ELSE d[t]
        xs == left.xa \o right.xa
    IN  [live |-> TRUE, xa |-> xs,
         cursize |-> IF xs = <<>> THEN 0 ELSE (Len(xs) \div InitSize + 1) * InitSize,
         min |-> SmallerOf(left.min, right.min), max |-> LargerOf(left.max, right.max)]

Merged(d, target, s, t) ==
    LET xs == d[s].xa \o d[t].xa
    IN  [live |-> TRUE, xa |-> xs,
         cursize |-> IF xs = <<>> THEN 0 ELSE (Len(xs) \div InitSize + 1) * InitSize,
         min |-> SmallerOf(d[s].min, d[t].min), max |-> LargerOf(d[s].max, d[t].max)]

Summarized(d) == FoldLeft(LAMBDA s, x : SummaryAdd(s, x), EmptySummary, d.xa)

-----------------------------------------------------------------------------
(* Order statistics, of a copy that is sorted.                              *)

(* data_array_median of the elements a, .., b of v.                         *)
MedianOf(v, a, b) ==
    LET n == b - a + 1
    IN  IF n % 2 = 0 THEN (v[a + n \div 2 - 1] ++ v[a + n \div 2]) // Whole(2)
        ELSE v[a + n \div 2]

Median(d) == MedianOf(Sorted(d).xa, 1, Len(d.xa))

FiveNumbers(d) ==
    LET v == Sorted(d).xa
        n == Len(v)
    IN  <<d.min, MedianOf(v, 1, n \div 2), MedianOf(v, 1, n),
          MedianOf(v, n - n \div 2 + 1, n), d.max>>

-----------------------------------------------------------------------------
(* Histograms: bin 0 is below low, bin bins + 1 from high on.               *)

(* low = high stands for the range of the samples.                          *)
Limits(d, low, high) == IF low = high THEN <<d.min, d.max>> ELSE <<low, high>>

BinOf(x, low, high, bins) ==
    IF Below(x, low) THEN 0
    ELSE IF Below(high, x) THEN bins + 1
    ELSE 1 + Floor((x -- low) // ((high -- low) // Whole(bins)))

Histogram(d, low, high, bins) ==
    LET lim == Limits(d, low, high)
    IN  FoldLeft(LAMBDA h, x : [h EXCEPT ![BinOf(x, lim[1], lim[2], bins)] = @ + 1],
                 [b \in 0 .. bins + 1 |-> 0], d.xa)

-----------------------------------------------------------------------------
(* Autocorrelation: the coefficients 0 .. n, of a dataset that varies. As   *)
(* without the debug assertions that they lie between -1 and 1 (742, 802):  *)
(* those of lags near the length of a dataset need not.                     *)

ACF(d, n) ==
    LET xs == d.xa
        N == Len(xs)
        pass == FoldLeft(LAMBDA m, i :
                            LET e == xs[i] -- m[1]
                                r == e // Whole(i)
                            IN  <<m[1] ++ r, m[2] ++ e ** (e -- r)>>,
                         <<Zero, Zero>>, [i \in 1 .. N |-> i])
        var == pass[2] // Whole(N - 1)
        acov(k) == Total(LAMBDA i : (xs[i] -- pass[1]) ** (xs[i + k] -- pass[1]), N - k)
                   // Whole(N - k)
    IN  [k \in 0 .. n |-> IF k = 0 THEN Whole(1)
                          ELSE IF var = Zero THEN Zero
                          ELSE acov(k) // var]

(* Durbin-Levinson: from the coefficients of the autoregression of order    *)
(* k - 1 to those of order k.                                               *)
NextOrder(phi, acf, k) ==
    LET last == (acf[k] -- Total(LAMBDA j : phi[j] ** acf[k - j], k - 1))
                // (Whole(1) -- Total(LAMBDA j : phi[j] ** acf[j], k - 1))
    IN  [j \in 1 .. k |-> IF j = k THEN last ELSE phi[j] -- last ** phi[k - j]]

(* The autoregressions of the orders 1 .. n; PACF k is the last of order k. *)
Autoregressions(acf, n) ==
    FoldLeft(LAMBDA phis, k : Append(phis, NextOrder(phis[k - 1], acf, k)),
             <<<<acf[1]>>>>, [k \in 1 .. n - 1 |-> k + 1])
=============================================================================
