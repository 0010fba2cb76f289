------------------------------ MODULE Moments -------------------------------
(* src/src/cmb_datasummary.c and src/src/cmb_wtdsummary.c: running          *)
(* summaries of samples, plain and weighted, with the central moments kept  *)
(* as sums of powers of the distance to the mean.  Two summaries merge into *)
(* one, which the threads of an experiment do with what they collected.     *)
EXTENDS Integers, Sequences, Ratio

(* DBL_MAX, which no sample reaches.                                        *)
Huge == Whole(1000)

SmallerOf(p, q) == IF Below(p, q) THEN p ELSE q
LargerOf(p, q) == IF Below(q, p) THEN p ELSE q
Three == Whole(3)
Four == Whole(4)
Six == Whole(6)

EmptySummary ==
    [count |-> 0, min |-> Huge, max |-> Zero -- Huge,
     m1 |-> Zero, m2 |-> Zero, m3 |-> Zero, m4 |-> Zero]

SummaryAdd(d, y) ==
    LET e == y -- d.m1
        r == e // Whole(d.count + 1)
        m2 == d.m2 ++ e ** (e -- r)
        m3 == d.m3 ++ e ** (e ** e -- r ** r) -- Three ** r ** m2
    IN  [count |-> d.count + 1, min |-> SmallerOf(y, d.min), max |-> LargerOf(y, d.max),
         m1 |-> d.m1 ++ r, m2 |-> m2, m3 |-> m3,
         m4 |-> d.m4 ++ e ** (e ** e ** e -- r ** r ** r) -- Six ** r ** r ** m2 -- Four ** r ** m3]

(* The moments of two summaries of weights a and b.                         *)
MergedMoments(d, e, a, b) ==
    LET g == e.m1 -- d.m1
        r == g // (a ++ b)
        p == a ** b
    IN  [m1 |-> d.m1 ++ b ** r,
         m2 |-> d.m2 ++ e.m2 ++ p ** g ** r,
         m3 |-> d.m3 ++ e.m3 ++ p ** (a -- b) ** g ** r ** r
                ++ Three ** (a ** e.m2 -- b ** d.m2) ** r,
         m4 |-> d.m4 ++ e.m4 ++ p ** (a ** a -- p ++ b ** b) ** g ** r ** r ** r
                ++ Six ** (a ** a ** e.m2 ++ b ** b ** d.m2) ** r ** r
                ++ Four ** (a ** e.m3 -- b ** d.m3) ** r]

SummaryMerged(d, e) ==
    LET m == MergedMoments(d, e, Whole(d.count), Whole(e.count))
    IN  [count |-> d.count + e.count, min |-> SmallerOf(d.min, e.min),
         max |-> LargerOf(d.max, e.max), m1 |-> m.m1, m2 |-> m.m2, m3 |-> m.m3, m4 |-> m.m4]

(* The sample variance, and the squares of skewness and kurtosis's parts    *)
(* need no root: only the variance is given.                                *)
Variance(d) == IF d.count > 1 THEN d.m2 // Whole(d.count - 1) ELSE Zero

-----------------------------------------------------------------------------
(* Weighted samples.                                                        *)

EmptyWeighted == [ds |-> EmptySummary, wsum |-> Zero]

WeightedAdd(s, x, w) ==
    LET d == s.ds
        m == MergedMoments(d, [EmptySummary EXCEPT !.m1 = x], s.wsum, w)
    IN  IF w = Zero THEN s
        ELSE IF d.count = 0
        THEN [ds |-> [EmptySummary EXCEPT !.count = 1, !.min = x, !.max = x, !.m1 = x],
              wsum |-> w]
        ELSE [ds |-> [count |-> d.count + 1, min |-> SmallerOf(x, d.min),
                      max |-> LargerOf(x, d.max),
                      m1 |-> m.m1, m2 |-> m.m2, m3 |-> m.m3, m4 |-> m.m4],
              wsum |-> s.wsum ++ w]

WeightedMerged(s, t) ==
    LET d == s.ds
        e == t.ds
        m == MergedMoments(d, e, s.wsum, t.wsum)
    IN  [ds |-> [count |-> d.count + e.count, min |-> SmallerOf(d.min, e.min),
                 max |-> LargerOf(d.max, e.max),
                 m1 |-> m.m1, m2 |-> m.m2, m3 |-> m.m3, m4 |-> m.m4],
         wsum |-> s.wsum ++ t.wsum]

-----------------------------------------------------------------------------
(* What they stand for: the definition of mean and central moments of a     *)
(* sequence of values xs with weights ws.                                   *)

Mean(xs, ws) ==
    Total(LAMBDA i : ws[i] ** xs[i], Len(xs)) // Total(LAMBDA i : ws[i], Len(xs))

Moment(xs, ws, k) ==
    LET mu == Mean(xs, ws)
    IN  Total(LAMBDA i : ws[i] ** Power(xs[i] -- mu, k), Len(xs))

Describes(d, xs, ws) ==
    /\ d.count = Len(xs)
    /\ IF xs = <<>> THEN d = EmptySummary
       ELSE /\ d.min \in {xs[i] : i \in DOMAIN xs} /\ d.max \in {xs[i] : i \in DOMAIN xs}
            /\ \A i \in DOMAIN xs : AtMost(d.min, xs[i]) /\ AtMost(xs[i], d.max)
            /\ d.m1 = Mean(xs, ws)
            /\ <<d.m2, d.m3, d.m4>> = [k \in 1 .. 3 |-> Moment(xs, ws, k + 1)]
=============================================================================
