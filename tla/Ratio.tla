------------------------------- MODULE Ratio --------------------------------
(* Fractions in lowest terms, which stand for the double values of the      *)
(* statistics: exact, so that what is checked of them is the formula and    *)
(* not its rounding.  Nan is the result of a division by zero and of every  *)
(* operation on it.                                                         *)
EXTENDS Integers, Sequences, SequencesExt

Rational == Int \X Nat

LOCAL gcd[x \in Int, y \in Nat] == IF y = 0 THEN x ELSE gcd[y, x % y]
LOCAL Over[n \in Int, d \in Nat, g \in Nat] == <<n \div g, d \div g>>

Nan == <<0, 0>>

(* The fraction n / d.                                                      *)
LOCAL Reduced[n \in Int, d \in Int] ==
    CASE d = 0 -> Nan
      [] d > 0 -> Over[n, d, gcd[n, d]]
      [] d < 0 -> Over[-n, -d, gcd[-n, -d]]
Frac(n, d) == Reduced[n, d]

Whole(n) == <<n, 1>>
Zero == Whole(0)

(* Common factors are cancelled before they are multiplied out.             *)
LOCAL Cross[a \in Rational, b \in Rational] == <<a[1] * b[1], a[2] * b[2]>>
LOCAL Product[p \in Rational, q \in Rational] ==
    IF p[2] = 0 \/ q[2] = 0 THEN Nan
    ELSE Cross[Frac(p[1], q[2]), Frac(q[1], p[2])]
LOCAL Upturned[q \in Rational] == Frac(q[2], q[1])
p ** q == Product[p, q]
p // q == p ** Upturned[q]

LOCAL Joined[p \in Rational, q \in Rational, g \in Nat] ==
    Frac(p[1] * (q[2] \div g) + q[1] * (p[2] \div g), (p[2] \div g) * q[2])
LOCAL Plus[p \in Rational, q \in Rational] ==
    IF p[2] = 0 \/ q[2] = 0 THEN Nan ELSE Joined[p, q, gcd[p[2], q[2]]]
LOCAL Negative[q \in Rational] == <<-q[1], q[2]>>
p ++ q == Plus[p, q]
p -- q == p ++ Negative[q]

(* Comparisons, FALSE if one side is Nan.                                   *)
LOCAL Less[p \in Rational, q \in Rational] ==
    p[2] # 0 /\ q[2] # 0 /\ p[1] * q[2] < q[1] * p[2]
LOCAL NotMore[p \in Rational, q \in Rational] ==
    p[2] # 0 /\ q[2] # 0 /\ p[1] * q[2] <= q[1] * p[2]
Below(p, q) == Less[p, q]
AtMost(p, q) == NotMore[p, q]

Power(p, n) == FoldLeft(LAMBDA r, i : r ** p, Whole(1), [i \in 1 .. n |-> i])

(* The sum of f(i) for i from 1 to n.                                       *)
Total(f(_), n) == FoldLeft(LAMBDA r, i : r ++ f(i), Zero, [i \in 1 .. n |-> i])

(* The largest integer that is not above a fraction.                        *)
Floor(p) == p[1] \div p[2]
=============================================================================
