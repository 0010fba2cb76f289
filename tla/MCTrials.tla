------------------------------ MODULE MCTrials ------------------------------
(* Small instances of Trials.                                              *)
EXTENDS Trials, TLC

CONSTANTS main, other, p, r, l, b, oq, pq, c, d, ts, ds

Callers == {main, other}
Elaborated == {<<main, 0>>}
Objects == {p, r, l, b, oq, pq, c, d, ts, ds}
KindOf ==
    p :> "process" @@ r :> "resource" @@ l :> "pool" @@ b :> "buffer" @@ oq :> "objectqueue"
    @@ pq :> "priorityqueue" @@ c :> "condition" @@ d :> "dataset" @@ ts :> "timeseries"
    @@ ds :> "datasummary"
\* Two objects at a time, so that one may outlive the other.
Casts == {{p, r}, {r, c}, {p, l}, {b, d}, {oq, ds}, {pq, ts}}
=============================================================================
