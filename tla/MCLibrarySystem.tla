-------------------------- MODULE MCLibrarySystem ---------------------------
(* Small instances of LibrarySystem.                                        *)
EXTENDS LibrarySystem

CONSTANTS d1, d2, m1, k1, k2

(* The Fibonacci hash, its factor 2^64 / phi to six digits: exact for the  *)
(* keys of these instances.                                                *)
FibonacciHash(key, size) == (((key * 618034) % 1000000) * size) \div 1000000

(* Nothing, and six items of which the last, under the third, goes before *)
(* the second: it has to rise when it takes the place of the fourth.       *)
Starts == {<<>>, <<0, 1, 0, 1, 1, 0>>}

Handles == {12}
Ranks == {0, 1}
Urgencies == {0}

MCSample == {Whole(0), Whole(1), Whole(3)}
MCWeight == {Whole(0), Whole(1), Whole(2)}
MCInstant == {Whole(0), Whole(1), Whole(3)}

MCStreams == [1 .. 3 -> 1 .. 3]
MCChances == {Whole(1), Frac(1, 2), Frac(3, 4)}
MCRates == {Whole(1), Whole(2)}

Names == Permutations({d1, d2})
=============================================================================
