---------------------------- MODULE AliasTable ------------------------------
(* The discrete random choices of src/src/cmb_random.c as functions of the  *)
(* random words they draw: a uniform integer, a choice by the cumulated     *)
(* probabilities, and the alias table with its sampling.                    *)
EXTENDS Integers, Sequences, SequencesExt, FiniteSets, Ratio

CONSTANT Bits  \* in a random word: 64
Word == 0 .. 2 ^ Bits - 1

(* cmb_random_discrete_uniform keeps the low half of x * s, and draws again *)
(* when it is below 2^Bits mod s.                                           *)
Accepted(x, s) ==
    LET l == (x * s) % 2 ^ Bits
    IN  l >= s \/ l >= (2 ^ Bits - s) % s

UniformOf(x, s) == (x * s) \div 2 ^ Bits

(* cmb_random_discrete_nonuniform of a number x of [0, 1).                  *)
ChosenBy(pa, x) ==
    LET n == Len(pa)
        at == SelectInSeq([i \in 1 .. n - 1 |-> i],
                          LAMBDA i : Below(x, Total(LAMBDA j : pa[j], i)))
    IN  IF at = 0 THEN n ELSE at

(* The span from a to b, and a with an offset, in the unsigned words that   *)
(* cmb_random_dice and cmb_random_loaded_dice, of the i'th choice, compute  *)
(* with.                                                                    *)
Unsigned(a) == a % 2 ^ Bits
Span(a, b) == Unsigned(Unsigned(b) - Unsigned(a))
Shifted(a, offset) ==
    LET u == Unsigned(Unsigned(a) + offset)
    IN  IF u < 2 ^ (Bits - 1) THEN u ELSE u - 2 ^ Bits

Dice(a, b, x) == Shifted(a, UniformOf(x, Span(a, b) + 1))
LoadedDice(a, i) == Shifted(a, i - 1)

-----------------------------------------------------------------------------
(* The table under construction: indices on the stacks small and large by   *)
(* what is left of their work, and the entries that are done.               *)

Sized(t, i) ==
    IF Below(t.work[i], Whole(1)) THEN [t EXCEPT !.small = Append(@, i)]
    ELSE [t EXCEPT !.large = Append(@, i)]

Started(pa) ==
    LET n == Len(pa)
        sum == Total(LAMBDA j : pa[j], n)
        empty == [work |-> [i \in 1 .. n |-> (pa[i] ** Whole(n)) // sum],
                  small |-> <<>>, large |-> <<>>,
                  prob |-> [i \in 1 .. n |-> Zero], alias |-> [i \in 1 .. n |-> 1]]
    IN  FoldLeft(LAMBDA t, i : Sized(t, i), empty, [i \in 1 .. n |-> i])

\* alias_secure.
Secured(p) == IF AtMost(p, Zero) THEN Zero ELSE IF AtMost(Whole(1), p) THEN Whole(1) ELSE p

(* Faulty: the large one goes back before its work is taken.                *)
PairedEarly(t) ==
    LET l == Last(t.small)
        g == Last(t.large)
    IN  [t EXCEPT !.small = Front(@), !.prob[l] = Secured(t.work[l]), !.alias[l] = g,
                  !.work[g] = (t.work[g] ++ t.work[l]) -- Whole(1)]

(* One turn: a small one is filled up by a large one.                       *)
Paired(t) ==
    LET l == Last(t.small)
        g == Last(t.large)
        u == [t EXCEPT !.small = Front(@), !.large = Front(@),
                       !.prob[l] = Secured(t.work[l]), !.alias[l] = g,
                       !.work[g] = (t.work[g] ++ t.work[l]) -- Whole(1)]
    IN  Sized(u, g)

(* What remains is full.                                                    *)
FilledLarge(t) == [t EXCEPT !.large = Front(@), !.prob[Last(t.large)] = Whole(1)]
FilledSmall(t) == [t EXCEPT !.small = Front(@), !.prob[Last(t.small)] = Whole(1)]

(* cmb_random_alias_sample: entry i, or its alias with the rest.            *)
Probability(t, k) ==
    LET n == Len(t.work)
        into(i) == (IF i = k THEN t.prob[i] ELSE Zero)
                   ++ (IF t.alias[i] = k THEN Whole(1) -- t.prob[i] ELSE Zero)
    IN  Total(LAMBDA i : into(i), n) // Whole(n)
=============================================================================
