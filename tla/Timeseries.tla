----------------------------- MODULE Timeseries -----------------------------
(* src/src/cmb_timeseries.c: a dataset whose samples carry the time they    *)
(* were taken and, as a weight, the time until the next one.                *)
EXTENDS Integers, Sequences, SequencesExt, Ratio, Moments

CONSTANT InitSize  \* CMI_DATASET_INIT_SZ
LOCAL Base == INSTANCE Dataset

(* room is what ta and wa are allocated for, cursize what xa is; intact that*)
(* nothing was read or written beyond an array; copied is a history: the    *)
(* arrays were made by cmb_timeseries_copy.                                 *)
UninitializedSeries ==
    [live |-> FALSE, xa |-> <<>>, ta |-> <<>>, wa |-> <<>>, cursize |-> 0, room |-> 0,
     min |-> Huge, max |-> Zero -- Huge, intact |-> TRUE, copied |-> FALSE]
FreshSeries == [UninitializedSeries EXCEPT !.live = TRUE]

SeriesExpanded(d) ==
    LET e == Base!Expanded(d)
    IN  [e EXCEPT !.room = e.cursize]

(* cmb_timeseries_add: the new sample weighs nothing, and the one before it *)
(* the time that has passed. Only a full xa makes the three arrays grow: in *)
(* a copy the sample may lie beyond ta and wa.                              *)
SeriesAdded(d, x, t) ==
    LET e == IF Len(d.xa) = d.cursize THEN SeriesExpanded(d) ELSE d
        n == Len(d.xa)
    IN  [Base!Added(e, x) EXCEPT
            !.intact = @ /\ n < e.room,
            !.ta = Append(@, t),
            !.wa = [i \in 1 .. n + 1 |->
                       IF i = n THEN t -- d.ta[n] ELSE IF i = n + 1 THEN Zero ELSE d.wa[i]]]

(* cmb_timeseries_finalize: of an empty series it reads the value before the*)
(* first one, which the assertion allows.                                   *)
Finalized(d, t) ==
    IF d.xa = <<>> THEN [d EXCEPT !.intact = FALSE] ELSE SeriesAdded(d, Last(d.xa), t)

(* The copy has room for as many values as its source, and for as many      *)
(* times and weights as the source has samples.                             *)
SeriesCopied(s) == [Base!Copied(s) EXCEPT !.room = Len(s.xa), !.copied = TRUE]

(* Faulty: the weights stay where they are.                                 *)
SortedWithoutWeights(d) ==
    LET a == Base!Heapsorted(<<d.xa, d.ta>>)
    IN  IF d.cursize = 0 THEN d ELSE [d EXCEPT !.xa = a[1], !.ta = a[2]]

SortedByValue(d) ==
    LET a == Base!Heapsorted(<<d.xa, d.ta, d.wa>>)
    IN  IF d.cursize = 0 THEN d ELSE [d EXCEPT !.xa = a[1], !.ta = a[2], !.wa = a[3]]

SortedByTime(d) ==
    LET a == Base!Heapsorted(<<d.ta, d.xa, d.wa>>)
    IN  IF d.cursize = 0 THEN d ELSE [d EXCEPT !.ta = a[1], !.xa = a[2], !.wa = a[3]]

(* The last sample weighs nothing and is left out.                          *)
SeriesSummarized(d) ==
    FoldLeft(LAMBDA s, i : WeightedAdd(s, d.xa[i], d.wa[i]), EmptyWeighted,
             [i \in 1 .. Len(d.xa) - 1 |-> i])

(* timeseries_histogram_fill, between the extremes of the series.           *)
SeriesHistogram(d, bins) ==
    FoldLeft(LAMBDA h, i : [h EXCEPT ![Base!BinOf(d.xa[i], d.min, d.max, bins)] = @ ++ d.wa[i]],
             [b \in 0 .. bins + 1 |-> Zero], [i \in 1 .. Len(d.xa) - 1 |-> i])

-----------------------------------------------------------------------------
(* Quantiles by weight, of a copy that is sorted by value.                  *)

Cumulated(d) == [i \in DOMAIN d.wa |-> Total(LAMBDA j : d.wa[j], i)]

\* The place after which the cumulated weight passes w: 0 for none.
Passing(cum, w) ==
    SelectInSeq([i \in 1 .. Len(cum) - 1 |-> i],
                LAMBDA i : AtMost(cum[i], w) /\ Below(w, cum[i + 1]))

Interpolated(x, cum, i, w) ==
    x[i] ++ ((x[i + 1] -- x[i]) ** (w -- cum[i])) // (cum[i + 1] -- cum[i])

\* The value at a part of the weight, and below that of the smallest value.
ValueAt(x, cum, part, below) ==
    LET w == part ** Last(cum)
        i == Passing(cum, w)
    IN  IF i = 0 THEN below ELSE Interpolated(x, cum, i, w)

SeriesFiveNumbers(d) ==
    LET s == SortedByValue(SeriesCopied(d))
        quartile(k) == ValueAt(s.xa, Cumulated(s), Frac(k, 4), d.min)
    IN  <<d.min, quartile(1), quartile(2), quartile(3), d.max>>

(* cmb_timeseries_median: zero where the five numbers have the minimum.     *)
SeriesMedian(d) ==
    LET s == SortedByValue(SeriesCopied(d))
    IN  ValueAt(s.xa, Cumulated(s), Frac(1, 2), Zero)
=============================================================================
