------------------------------- MODULE Draws --------------------------------
(* The discrete distributions of src/src/cmb_random.c that count: how they  *)
(* draw the words of the generator of a thread, and what the thread keeps   *)
(* between two draws, namely the bits left of a word for flips of a coin,   *)
(* and the denominator for the last chance of success.                      *)
EXTENDS Integers, Sequences, SequencesExt, FiniteSetsExt, Ratio

CONSTANTS
    WordBits, Dropped,      \* the bits of a word, and those that a double drops
    Streams,                \* what a generator may yield from the seed
    Chances,                \* of success: 1, or 1 - 1 / 2^k
    Rates,                  \* of arrivals
    MaxDraws                \* bound of the model, over both trials

VARIABLE draws
(* draws.stream         the words that the generator yields from the seed       *)
(* draws.seeded, draws.at   whether it was seeded, how many words it has yielded    *)
(* draws.bits, bitpos   static variables of cmb_random_flip                     *)
(* draws.prev, denom    static variables of cmb_random_geometric                *)
(* draws.left           history: bitpos at the seeding                          *)
(* draws.log            history: the draws since then, each with the words it   *)
(*                  had to itself                                           *)
(* draws.past           history: left and log of the trial before, if any       *)
(* draws.tossed, sides  history: the words for flips, and the flips             *)

Started(stream) ==
    [stream |-> stream, seeded |-> FALSE, at |-> 0, bits |-> 0, bitpos |-> 0,
     prev |-> Zero, denom |-> Zero, left |-> 0, log |-> <<>>, past |-> {},
     tossed |-> <<>>, sides |-> <<>>]

DrawsInit == draws \in {Started(s) : s \in Streams}

Number(w) == Frac(w \div 2 ^ Dropped, 2 ^ (WordBits - Dropped))

(* What the ziggurat makes of a word, in multiples of the logarithm of 2.   *)
StdExponential(w) == Whole(w)
Exponential(mean, w) == mean ** StdExponential(w)

Bernoulli(p, w) == IF Below(Number(w), p) THEN 1 ELSE 0

(* -log(1 - p), in the same measure.                                        *)
Logarithm(p) == CHOOSE k \in 1 .. WordBits : Whole(1) -- p = Frac(1, 2 ^ k)

Erlang(k, mean, words) == Total(LAMBDA i : Exponential(mean, words[i]), k)

-----------------------------------------------------------------------------
\* The next n words.
Next(n) == SubSeq(draws.stream, draws.at + 1, draws.at + n)

Drawn(s, call, n, value) ==
    [s EXCEPT !.at = @ + n,
              !.log = Append(@, [call |-> call, words |-> Next(n), value |-> value])]

MayDraw(n) ==
    /\ draws.seeded
    /\ draws.at + n <= Len(draws.stream)
    /\ Len(draws.log) + FoldSet(LAMBDA t, made : made + Len(t.log), 0, draws.past) < MaxDraws

Initialize ==
    /\ ~draws.seeded
    /\ draws' = [draws EXCEPT !.seeded = TRUE, !.at = 0, !.left = draws.bitpos, !.log = <<>>]

Terminate ==
    /\ draws.seeded /\ draws.past = {}
    /\ draws' = [draws EXCEPT !.seeded = FALSE, !.past = {[left |-> draws.left, log |-> draws.log]}]

Flip ==
    LET fresh == draws.bitpos = 0
        n == IF fresh THEN 1 ELSE 0
        bits == IF fresh THEN Next(1)[1] ELSE draws.bits
        pos == (IF fresh THEN WordBits ELSE draws.bitpos) - 1
        side == (bits \div 2 ^ pos) % 2
    IN  /\ MayDraw(n)
        /\ draws' = [Drawn(draws, <<"flip">>, n, side) EXCEPT
                    !.bits = bits, !.bitpos = pos,
                    !.tossed = @ \o Next(n), !.sides = Append(@, side)]

(* The denominator is computed anew when the chance is another one.         *)
Cached(s, p) == IF p = s.prev THEN s ELSE [s EXCEPT !.prev = p, !.denom = Whole(Logarithm(p))]

Trials(s, w) == -Floor(Zero -- (StdExponential(w) // s.denom))

Geometric(p) ==
    IF p = Whole(1) THEN MayDraw(0) /\ draws' = Drawn(draws, <<"geometric", p>>, 0, 1)
    ELSE /\ MayDraw(1)
         /\ LET s == Cached(draws, p)
            IN  draws' = Drawn(s, <<"geometric", p>>, 1, Trials(s, Next(1)[1]))

(* Each success is one of the trials that it takes.                         *)
NegativeBinomial(m, p) ==
    LET call == <<"negative binomial", m, p>>
        s == Cached(draws, p)
    IN  IF p = Whole(1) THEN MayDraw(0) /\ draws' = Drawn(draws, call, 0, 0)
        ELSE /\ MayDraw(m)
             /\ draws' = Drawn(s, call, m, FoldLeft(LAMBDA n, w : n + Trials(s, w) - 1, 0, Next(m)))

Binomial(n, p) ==
    /\ MayDraw(n)
    /\ draws' = Drawn(draws, <<"binomial", n, p>>, n,
                      FoldLeft(LAMBDA k, w : k + Bernoulli(p, w), 0, Next(n)))

(* One interval after the other, until unit time is over.                   *)
Poisson(r) == \E n \in 1 .. Len(draws.stream) :
    LET past(k) == Below(Whole(1), Erlang(k, Whole(1) // r, Next(k)))
    IN  /\ MayDraw(n)
        /\ past(n) /\ ~past(n - 1)
        /\ draws' = Drawn(draws, <<"poisson", r>>, n, n - 1)

DrawsNext ==
    \/ Initialize
    \/ Terminate
    \/ Flip
    \/ \E p \in Chances : Geometric(p) \/ NegativeBinomial(2, p) \/ Binomial(2, p)
    \/ \E r \in Rates : Poisson(r)

-----------------------------------------------------------------------------
(* The least number of trials in which an exponential time is over, if each *)
(* fails with the chance 1 - p.                                             *)
TrialsFor(p, w) ==
    IF p = Whole(1) THEN 1
    ELSE CHOOSE k \in 1 .. 2 ^ WordBits :
             /\ AtMost(StdExponential(w), Whole(k * Logarithm(p)))
             /\ k > 1 => Below(Whole((k - 1) * Logarithm(p)), StdExponential(w))

IsValue(e) ==
    LET kind == e.call[1]
        p == Last(e.call)
    IN  CASE kind = "flip" -> e.value \in {0, 1}
          [] kind = "geometric" ->
                 e.value = IF p = Whole(1) THEN 1 ELSE TrialsFor(p, e.words[1])
          [] kind = "negative binomial" ->
                 e.value + 2 = IF p = Whole(1) THEN 2
                               ELSE TrialsFor(p, e.words[1]) + TrialsFor(p, e.words[2])
          [] kind = "binomial" ->
                 e.value = Quantify({1, 2}, LAMBDA i : Below(Number(e.words[i]), p))
          [] kind = "poisson" ->
                 \* No more than p arrivals a unit of time, as rates go.
                 /\ AtMost(Erlang(e.value, Whole(1), e.words), p)
                 /\ Below(p, Erlang(e.value + 1, Whole(1), e.words))

(* Draws of the same kinds in the same order have the same values.          *)
SameValues(log, other) ==
    \A i \in 1 .. Len(log) :
        /\ i <= Len(other)
        /\ \A j \in 1 .. i : log[j].call = other[j].call
        => log[i].value = other[i].value

(* Every draw has the value that its definition gives for the words that it *)
(* took, whatever was drawn before it and with which parameters; no bit of a*)
(* word for flips is used twice, or left out; and a trial that begins with  *)
(* no bits left of another one is repeated by its seed.                     *)
DrawsTrue ==
    /\ \A i \in DOMAIN draws.log : IsValue(draws.log[i])
    /\ Len(draws.tossed) * WordBits = Len(draws.sides) + draws.bitpos
    /\ \A i \in DOMAIN draws.sides :
           draws.sides[i] = (draws.tossed[1 + (i - 1) \div WordBits]
                           \div 2 ^ (WordBits - 1 - ((i - 1) % WordBits))) % 2
    /\ draws.left = 0 => \A t \in draws.past : t.left = 0 => SameValues(draws.log, t.log)

(* A trial draws the same numbers whenever it is given the same seed,       *)
(* whatever the thread has run before it.                                   *)
Reproducible == \A t \in draws.past : SameValues(draws.log, t.log)
=============================================================================
