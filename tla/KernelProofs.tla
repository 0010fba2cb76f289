---------------------------- MODULE KernelProofs ----------------------------
(***************************************************************************)
(* What the calls of the kernel (module ProcessKernel) do to a trial,      *)
(* whatever its processes wait for: they leave it steady, and leave alone  *)
(* every field that is not the kernel's, so that a module that adds fields *)
(* of its own need not look into them.                                     *)
(*                                                                         *)
(* Steadiness is what makes them well defined.  The dispatcher executes    *)
(* the first event of the agenda, and a guard grants the front entry of    *)
(* its queue: that there is such an event or entry, and that it is about a *)
(* process, holds only as long as the agenda and the queues are numbered   *)
(* 1..n in the order of their insertion, through every insertion, removal, *)
(* sweep and change of priority.                                           *)
(***************************************************************************)
EXTENDS ProcessKernel, FiniteSetTheorems, FunctionTheorems, SequenceTheorems,
        WellFoundedInduction, TLAPS

-----------------------------------------------------------------------------
(* Numbered sets: the agenda, and the queue of a guard.                    *)
Numbered(S) ==
  /\ IsFiniteSet(S)
  /\ \A e \in S : "tag" \in DOMAIN e /\ e.tag \in 1..Cardinality(S)
  /\ \A e, f \in S : e.tag = f.tag => e = f

LEMMA NumberedEmpty == Numbered({})
  BY FS_EmptySet DEF Numbered

(* A renaming of the elements of a set that gives them numbers.            *)
LEMMA NumberedImage ==
  ASSUME NEW S, IsFiniteSet(S), NEW T, NEW F \in [S -> T],
         \A t \in T : \E e \in S : t = F[e],
         \A e \in S : "tag" \in DOMAIN F[e] /\ F[e].tag \in 1..Cardinality(S),
         \A e, f \in S : F[e].tag = F[f].tag => e = f
  PROVE  Numbered(T) /\ Cardinality(T) = Cardinality(S)
<1>1. F \in Bijection(S, T)
  BY DEF Bijection, Injection, Surjection, IsInjective
<1>2. ExistsBijection(S, T)
  BY <1>1 DEF ExistsBijection
<1>3. IsFiniteSet(T) /\ Cardinality(T) = Cardinality(S)
  BY <1>2, FS_Bijection
<1>4. ASSUME NEW t \in T
      PROVE  "tag" \in DOMAIN t /\ t.tag \in 1..Cardinality(T)
  BY <1>3
<1>5. ASSUME NEW t \in T, NEW u \in T, t.tag = u.tag
      PROVE  t = u
  <2>1. PICK e \in S : t = F[e]
    OBVIOUS
  <2>2. PICK f \in S : u = F[f]
    OBVIOUS
  <2>3. QED BY <1>5, <2>1, <2>2
<1>. QED BY <1>3, <1>4, <1>5 DEF Numbered

(* Every number is given to an element.                                    *)
LEMMA NumberedOnto ==
  ASSUME NEW S, Numbered(S), NEW k \in 1..Cardinality(S)
  PROVE  \E e \in S : e.tag = k
<1> DEFINE n == Cardinality(S)
           F == [e \in S |-> e.tag]
<1>1. IsFiniteSet(S) /\ n \in Nat
  BY FS_CardinalityType DEF Numbered
<1>2. F \in Injection(S, 1..n)
  BY DEF Numbered, Injection, IsInjective
<1>3. IsFiniteSet(1..n) /\ Cardinality(1..n) = n
  BY <1>1, FS_Interval
<1> HIDE DEF n
<1>4. F \in Surjection(S, 1..n)
  BY <1>2, <1>3, FS_Injection DEF n
<1>. QED BY <1>4 DEF Surjection, n

(* At most as many elements as there are numbers between two.              *)
Between(T, a, b) == \A g \in T : a < g.tag /\ g.tag < b

LEMMA CountBetween ==
  ASSUME NEW S, Numbered(S), NEW T \in SUBSET S, NEW a \in Int, NEW b \in Int,
         a < b, Between(T, a, b)
  PROVE  IsFiniteSet(T) /\ Cardinality(T) \in Nat /\ Cardinality(T) <= b - a - 1
<1> DEFINE F == [g \in T |-> g.tag]
           I == (a + 1)..(b - 1)
<1>1. \A g \in S : g.tag \in Int
  <2>1. Cardinality(S) \in Nat
    BY FS_CardinalityType DEF Numbered
  <2>. QED BY <2>1 DEF Numbered
<1>2. F \in Injection(T, I)
  BY <1>1 DEF Numbered, Between, Injection, IsInjective
<1>3. IsFiniteSet(I) /\ Cardinality(I) = b - a - 1
  <2> DEFINE low == a + 1
             high == b - 1
  <2>1. low \in Int /\ high \in Int
    OBVIOUS
  <2>2. (IF low > high THEN 0 ELSE high - low + 1) = b - a - 1
    OBVIOUS
  <2> HIDE DEF low, high
  <2>3. IsFiniteSet(low..high)
        /\ Cardinality(low..high) = IF low > high THEN 0 ELSE high - low + 1
    BY <2>1, FS_Interval
  <2>. QED BY <2>2, <2>3 DEF low, high
<1> HIDE DEF I
<1>4. IsFiniteSet(T) /\ Cardinality(T) <= b - a - 1
  BY <1>2, <1>3, FS_Injection
<1>. QED BY <1>4, FS_CardinalityType

LEMMA DisjointCount ==
  ASSUME NEW A, NEW B, IsFiniteSet(A), IsFiniteSet(B), A \cap B = {}
  PROVE  /\ IsFiniteSet(A \cup B)
         /\ Cardinality(A \cup B) = Cardinality(A) + Cardinality(B)
<1>1. Cardinality(A) \in Nat /\ Cardinality(B) \in Nat /\ Cardinality(A \cap B) = 0
  BY FS_CardinalityType, FS_EmptySet
<1>2. IsFiniteSet(A \cup B)
      /\ Cardinality(A \cup B) = Cardinality(A) + Cardinality(B) - Cardinality(A \cap B)
  BY FS_Union
<1>. QED BY <1>1, <1>2

(* One that enters comes last.                                             *)
LEMMA EnterNumbered ==
  ASSUME NEW S, Numbered(S), NEW e, "tag" \in DOMAIN e
  PROVE  /\ Numbered(Enter(S, e))
         /\ Cardinality(Enter(S, e)) = Cardinality(S) + 1
<1> DEFINE n == Cardinality(S)
           x == [e EXCEPT !.tag = n + 1]
<1>1. IsFiniteSet(S) /\ n \in Nat
  BY FS_CardinalityType DEF Numbered
<1>2. "tag" \in DOMAIN x /\ x.tag = n + 1
  OBVIOUS
<1>3. Enter(S, e) = S \cup {x}
  BY DEF Enter
<1> HIDE DEF x
<1>4. x \notin S
  BY <1>1, <1>2 DEF Numbered
<1>5. IsFiniteSet(S \cup {x}) /\ Cardinality(S \cup {x}) = n + 1
  BY <1>1, <1>4, FS_AddElement
<1> HIDE DEF n
<1>6. \A f \in S : "tag" \in DOMAIN f /\ f.tag \in 1..n
  BY DEF Numbered, n
<1>7. Numbered(S \cup {x})
  <2>1. \A f \in S \cup {x} : "tag" \in DOMAIN f /\ f.tag \in 1..(n + 1)
    BY <1>1, <1>2, <1>6
  <2>2. \A f, g \in S \cup {x} : f.tag = g.tag => f = g
    BY <1>1, <1>2, <1>6 DEF Numbered
  <2>. QED BY <1>5, <2>1, <2>2 DEF Numbered
<1>. QED BY <1>3, <1>5, <1>7 DEF n

(* Several enter at once, numbered on from those that are there.           *)
LEMMA ExtendNumbered ==
  ASSUME NEW S, Numbered(S), NEW T, IsFiniteSet(T),
         \A t \in T : /\ "tag" \in DOMAIN t
                      /\ \E i \in 1..Cardinality(T) : t.tag = Cardinality(S) + i,
         \A t, u \in T : t.tag = u.tag => t = u
  PROVE  /\ Numbered(S \cup T)
         /\ Cardinality(S \cup T) = Cardinality(S) + Cardinality(T)
<1> DEFINE n == Cardinality(S)
           m == Cardinality(T)
<1>1. IsFiniteSet(S) /\ n \in Nat /\ m \in Nat
  BY FS_CardinalityType DEF Numbered
<1>2. \A f \in S : "tag" \in DOMAIN f /\ f.tag \in 1..n
  BY DEF Numbered
<1>3. \A t \in T : "tag" \in DOMAIN t /\ t.tag \in (n + 1)..(n + m)
  BY <1>1
<1>4. S \cap T = {}
  BY <1>1, <1>2, <1>3
<1>5. IsFiniteSet(S \cup T) /\ Cardinality(S \cup T) = n + m
  BY <1>1, <1>4, DisjointCount
<1> HIDE DEF n, m
<1>6. \A f \in S \cup T : "tag" \in DOMAIN f /\ f.tag \in 1..(n + m)
  BY <1>1, <1>2, <1>3
<1>7. \A f, g \in S \cup T : f.tag = g.tag => f = g
  BY <1>1, <1>2, <1>3 DEF Numbered
<1>. QED BY <1>5, <1>6, <1>7 DEF Numbered, n, m

(* Those that are left are numbered again, without gaps.                   *)
LEMMA LeaveNumbered ==
  ASSUME NEW S, Numbered(S), NEW gone \in SUBSET S
  PROVE  /\ Numbered(Leave(S, gone))
         /\ Cardinality(Leave(S, gone)) = Cardinality(S) - Cardinality(gone)
<1> DEFINE n == Cardinality(S)
           left == S \ gone
           Lower(e) == {g \in gone : g.tag < e.tag}
           c(e) == Cardinality(Lower(e))
           F == [e \in left |-> [e EXCEPT !.tag = e.tag - c(e)]]
<1>1. /\ IsFiniteSet(S) /\ n \in Nat
      /\ IsFiniteSet(gone) /\ Cardinality(gone) \in Nat
      /\ IsFiniteSet(left) /\ Cardinality(left) = n - Cardinality(gone)
  <2>1. IsFiniteSet(S) /\ n \in Nat
    BY FS_CardinalityType DEF Numbered
  <2>2. IsFiniteSet(gone) /\ Cardinality(gone) \in Nat
    BY <2>1, FS_Subset, FS_CardinalityType
  <2>3. S \cap gone = gone
    OBVIOUS
  <2>4. IsFiniteSet(left) /\ Cardinality(left) = n - Cardinality(gone)
    BY <2>1, <2>3, FS_Difference
  <2>. QED BY <2>1, <2>2, <2>4
<1>2. \A e \in S : "tag" \in DOMAIN e /\ e.tag \in 1..n /\ e.tag \in Int
  BY <1>1 DEF Numbered
<1>3. \A e \in left : Lower(e) \in SUBSET S /\ Between(Lower(e), 0, e.tag)
  BY <1>2 DEF Between
<1>4. Leave(S, gone) = {F[e] : e \in left}
  BY DEF Leave
<1>5. \A e \in left : "tag" \in DOMAIN F[e] /\ F[e].tag = e.tag - c(e)
  BY <1>2
<1>6. ASSUME NEW e \in left
      PROVE  IsFiniteSet(Lower(e)) /\ c(e) \in Nat /\ c(e) <= e.tag - 1
  <2> DEFINE L == Lower(e)
  <2>1. 0 < e.tag /\ e.tag \in Int
    BY <1>2
  <2>2. L \in SUBSET S /\ Between(L, 0, e.tag)
    BY <1>3
  <2> HIDE DEF L
  <2>3. IsFiniteSet(L) /\ Cardinality(L) \in Nat /\ Cardinality(L) <= e.tag - 0 - 1
    BY <2>1, <2>2, CountBetween
  <2>4. Cardinality(L) <= e.tag - 1
    BY <2>1, <2>3
  <2>. QED BY <2>3, <2>4 DEF L
<1>7. ASSUME NEW e \in left, NEW f \in left, e.tag < f.tag
      PROVE  e.tag - c(e) < f.tag - c(f)
  <2> DEFINE Mid == {g \in gone : e.tag < g.tag /\ g.tag < f.tag}
             L == Lower(e)
             M == Lower(f)
  <2>1. e.tag \in Int /\ f.tag \in Int
    BY <1>2
  <2>2. M = L \cup Mid /\ L \cap Mid = {}
    <3>1. \A g \in gone : g.tag # e.tag /\ g.tag \in Int
      BY <1>2 DEF Numbered
    <3>. QED BY <1>7, <2>1, <3>1
  <2>3. Mid \in SUBSET S /\ Between(Mid, e.tag, f.tag)
    BY DEF Between
  <2> HIDE DEF Mid
  <2>4. /\ IsFiniteSet(Mid) /\ Cardinality(Mid) \in Nat
        /\ Cardinality(Mid) <= f.tag - e.tag - 1
    BY <1>7, <2>1, <2>3, CountBetween
  <2>5. IsFiniteSet(L) /\ Cardinality(L) \in Nat
    BY <1>6
  <2> HIDE DEF L, M
  <2>6. Cardinality(M) = Cardinality(L) + Cardinality(Mid)
    BY <2>2, <2>4, <2>5, DisjointCount
  <2>7. e.tag - Cardinality(L) < f.tag - Cardinality(M)
    BY <2>1, <2>4, <2>5, <2>6
  <2>. QED BY <2>7 DEF L, M
<1>8. ASSUME NEW e \in left
      PROVE  e.tag - c(e) \in 1..Cardinality(left)
  <2> DEFINE Upper == {g \in gone : e.tag < g.tag /\ g.tag < n + 1}
             L == Lower(e)
  <2>1. e.tag \in 1..n /\ e.tag \in Int /\ n + 1 \in Int /\ e.tag < n + 1
    BY <1>1, <1>2
  <2>2. gone = L \cup Upper /\ L \cap Upper = {}
    <3>1. \A g \in gone : g.tag # e.tag /\ g.tag \in 1..n
      BY <1>2 DEF Numbered
    <3>. QED BY <1>1, <2>1, <3>1
  <2>3. Upper \in SUBSET S /\ Between(Upper, e.tag, n + 1)
    BY DEF Between
  <2> HIDE DEF Upper
  <2>4. IsFiniteSet(L) /\ Cardinality(L) \in Nat /\ Cardinality(L) <= e.tag - 1
    BY <1>6
  <2> HIDE DEF L, n
  <2>5. IsFiniteSet(Upper) /\ Cardinality(Upper) \in Nat
        /\ Cardinality(Upper) <= (n + 1) - e.tag - 1
    BY <2>1, <2>3, CountBetween
  <2>6. Cardinality(gone) = Cardinality(L) + Cardinality(Upper)
    BY <2>2, <2>4, <2>5, DisjointCount
  <2>7. Cardinality(left) = n - Cardinality(gone)
    BY <1>1
  <2> HIDE DEF left
  <2>8. e.tag - Cardinality(L) \in 1..Cardinality(left)
    BY <1>1, <2>1, <2>4, <2>5, <2>6, <2>7
  <2>. QED BY <2>8 DEF L
<1> HIDE DEF c, left, n
<1>9. ASSUME NEW e \in left, NEW f \in left, F[e].tag = F[f].tag
      PROVE  e = f
  <2>1. e \in S /\ f \in S /\ e.tag \in Int /\ f.tag \in Int
    BY <1>2 DEF left
  <2>2. c(e) \in Nat /\ c(f) \in Nat
    BY <1>6
  <2>3. ~(e.tag < f.tag) /\ ~(f.tag < e.tag)
    BY <1>7, <1>5, <1>9, <2>1, <2>2
  <2>. QED BY <2>1, <2>3 DEF Numbered
<1> DEFINE T == {F[e] : e \in left}
<1>10. F \in [left -> T] /\ \A t \in T : \E e \in left : t = F[e]
  OBVIOUS
<1>11. \A e \in left : "tag" \in DOMAIN F[e] /\ F[e].tag \in 1..Cardinality(left)
  BY <1>8, <1>5
<1> HIDE DEF F, T
<1>12. Numbered(T) /\ Cardinality(T) = Cardinality(left)
  BY <1>1, <1>9, <1>10, <1>11, NumberedImage
<1>. QED BY <1>1, <1>4, <1>12 DEF T, n

(* Enough for a first element: there are finitely many, and each comes     *)
(* before each other one or after it.                                      *)
Orders(R, S) ==
  /\ \A e, f \in S : e # f => <<e, f>> \in R \/ <<f, e>> \in R
  /\ \A e, f, g \in S : <<e, f>> \in R /\ <<f, g>> \in R => <<e, g>> \in R
  /\ \A e \in S : <<e, e>> \notin R

LEMMA LeastNatural ==
  ASSUME NEW T \in SUBSET Nat, T # {}
  PROVE  \E x \in T : \A y \in T : x <= y
<1> DEFINE R == OpToRel(<, Nat)
<1>1. IsWellFoundedOn(R, Nat)
  BY NatLessThanWellFounded
<1>2. \A x, y \in Nat : x < y => <<x, y>> \in R
  BY DEF OpToRel
<1> HIDE DEF R
<1>3. PICK x \in T : \A y \in T : ~(<<y, x>> \in R)
  BY <1>1, WFMin
<1>4. \A y \in T : ~(y < x)
  BY <1>2, <1>3
<1>. QED BY <1>4

LEMMA Earliest ==
  ASSUME NEW S, IsFiniteSet(S), S # {}, NEW R, Orders(R, S)
  PROVE  \E e \in S : \A f \in S \ {e} : <<e, f>> \in R
<1> DEFINE Earlier(e) == {f \in S : <<f, e>> \in R}
           N == {Cardinality(Earlier(e)) : e \in S}
<1>1. \A e \in S : Earlier(e) \in SUBSET S
  OBVIOUS
<1>2. ASSUME NEW A \in SUBSET S PROVE IsFiniteSet(A) /\ Cardinality(A) \in Nat
  BY FS_Subset, FS_CardinalityType
<1>3. N \in SUBSET Nat /\ N # {}
  BY <1>1, <1>2
<1> HIDE DEF N
<1>4. PICK n \in N : \A m \in N : n <= m
  BY <1>3, LeastNatural
<1>5. PICK e \in S : n = Cardinality(Earlier(e))
  BY DEF N
<1>6. ASSUME NEW f \in S, <<f, e>> \in R PROVE FALSE
  <2> DEFINE A == Earlier(e)
             B == Earlier(f)
  <2>1. B \in SUBSET A /\ f \in A /\ f \notin B
    BY <1>6 DEF Orders
  <2>2. Cardinality(A) = n /\ Cardinality(B) \in N
    BY <1>5 DEF N
  <2>3. A \in SUBSET S
    OBVIOUS
  <2> HIDE DEF A, B
  <2>4. IsFiniteSet(A) /\ Cardinality(A) \in Nat
    BY <1>2, <2>3
  <2>5. Cardinality(B) \in Nat /\ Cardinality(B) < Cardinality(A)
    BY <2>1, <2>4, FS_Subset, FS_CardinalityType
  <2>. QED BY <1>4, <2>2, <2>4, <2>5
<1>7. \A f \in S \ {e} : <<e, f>> \in R
  BY <1>6 DEF Orders
<1>. QED BY <1>7

-----------------------------------------------------------------------------
(* Lists.                                                                  *)
Never(ws, x) == \A i \in 1..Len(ws) : ws[i] # x
Once(ws, x) ==
  \E i \in 1..Len(ws) : ws[i] = x /\ \A j \in 1..Len(ws) : ws[j] = x => j = i

LEMMA Prepended ==
  ASSUME NEW S, NEW ws \in Seq(S), NEW x \in S, NEW t, t = <<x>> \o ws
  PROVE  /\ t \in Seq(S) /\ Len(t) = Len(ws) + 1 /\ t[1] = x
         /\ \A i \in 2..Len(t) : t[i] = ws[i - 1]
  OBVIOUS

(* Prepending lists the new member, and changes nothing for the others.    *)
LEMMA PrependKeeps ==
  ASSUME NEW S, NEW ws \in Seq(S), NEW x \in S
  PROVE  /\ <<x>> \o ws \in Seq(S)
         /\ Never(ws, x) => Once(<<x>> \o ws, x)
         /\ \A y : y # x => /\ Never(ws, y) => Never(<<x>> \o ws, y)
                            /\ Once(ws, y) => Once(<<x>> \o ws, y)
<1> DEFINE t == <<x>> \o ws
<1>1. /\ t \in Seq(S) /\ Len(t) = Len(ws) + 1 /\ t[1] = x
      /\ \A i \in 2..Len(t) : t[i] = ws[i - 1]
  BY Prepended
<1> HIDE DEF t
<1>2. Len(ws) \in Nat
  OBVIOUS
<1>3. \A i \in 1..Len(t) : i = 1 \/ (i - 1 \in 1..Len(ws) /\ t[i] = ws[i - 1])
  BY <1>1, <1>2
<1>4. \A i \in 1..Len(ws) : i + 1 \in 1..Len(t) /\ t[i + 1] = ws[i] /\ i + 1 # 1
  BY <1>1, <1>2
<1>5. 1 \in 1..Len(t)
  BY <1>1, <1>2
<1>6. Never(ws, x) => Once(t, x)
  BY <1>1, <1>3, <1>5 DEF Never, Once
<1>7. ASSUME NEW y, y # x, Never(ws, y) PROVE Never(t, y)
  BY <1>1, <1>3, <1>7 DEF Never
<1>8. ASSUME NEW y, y # x, Once(ws, y) PROVE Once(t, y)
  <2>1. PICK i \in 1..Len(ws) : ws[i] = y /\ \A j \in 1..Len(ws) : ws[j] = y => j = i
    BY <1>8 DEF Once
  <2>2. i + 1 \in 1..Len(t) /\ t[i + 1] = y
    BY <1>4, <2>1
  <2>3. ASSUME NEW j \in 1..Len(t), t[j] = y PROVE j = i + 1
    <3>1. j - 1 \in 1..Len(ws) /\ ws[j - 1] = y
      BY <1>1, <1>3, <1>8, <2>3
    <3>2. j - 1 = i
      BY <2>1, <3>1
    <3>. QED BY <3>2
  <2>. QED BY <2>2, <2>3 DEF Once
<1>. QED BY <1>1, <1>6, <1>7, <1>8 DEF t

(* A list without its i-th member: where the others are then.              *)
LEMMA WithoutIndex ==
  ASSUME NEW S, NEW ws \in Seq(S), NEW k \in 1..Len(ws)
  PROVE  LET t == SubSeq(ws, 1, k - 1) \o SubSeq(ws, k + 1, Len(ws))
         IN  /\ t \in Seq(S) /\ Len(t) = Len(ws) - 1
             /\ \A i \in 1..Len(t) : t[i] = ws[IF i < k THEN i ELSE i + 1]
<1> DEFINE a == SubSeq(ws, 1, k - 1)
           b == SubSeq(ws, k + 1, Len(ws))
           t == a \o b
<1>1. Len(ws) \in Nat /\ \A i \in 1..Len(ws) : ws[i] \in S
  OBVIOUS
<1>2. a \in Seq(S) /\ Len(a) = k - 1 /\ \A i \in 1..(k - 1) : a[i] = ws[i]
  BY <1>1
<1>3. b \in Seq(S) /\ Len(b) = Len(ws) - k /\ \A i \in 1..(Len(ws) - k) : b[i] = ws[k + i]
  BY <1>1
<1> HIDE DEF a, b
<1>4. /\ t \in Seq(S) /\ Len(t) = Len(a) + Len(b)
           /\ \A i \in 1..(Len(a) + Len(b)) :
                  t[i] = IF i <= Len(a) THEN a[i] ELSE b[i - Len(a)]
  BY <1>2, <1>3, ConcatProperties, Zenon
<1> HIDE DEF t
<1>5. t \in Seq(S) /\ Len(t) = Len(ws) - 1
  BY <1>1, <1>2, <1>3, <1>4
<1>6. ASSUME NEW i \in 1..Len(t)
      PROVE  t[i] = ws[IF i < k THEN i ELSE i + 1]
  <2>1. i \in 1..(Len(ws) - 1)
    BY <1>5
  <2>2. CASE i < k
    <3>1. i \in 1..(k - 1) /\ i <= Len(a) /\ i \in 1..(Len(a) + Len(b))
      BY <1>2, <1>3, <2>1, <2>2
    <3>. QED BY <1>2, <1>4, <2>2, <3>1
  <2>3. CASE ~(i < k)
    <3>1. /\ i - Len(a) \in 1..(Len(ws) - k) /\ ~(i <= Len(a))
          /\ i \in 1..(Len(a) + Len(b)) /\ k + (i - Len(a)) = i + 1
      BY <1>1, <1>2, <1>3, <2>1, <2>3
    <3>. QED BY <1>3, <1>4, <2>3, <3>1
  <2>. QED BY <2>2, <2>3
<1>. QED BY <1>5, <1>6 DEF t, a, b

(* Unlinking takes out one occurrence, and keeps the others.               *)
LEMMA UnlinkKeeps ==
  ASSUME NEW S, NEW ws \in Seq(S), NEW x
  PROVE  /\ Unlink(ws, x) \in Seq(S)
         /\ Once(ws, x) \/ Never(ws, x) => Never(Unlink(ws, x), x)
         /\ \A y : y # x => /\ Never(ws, y) => Never(Unlink(ws, x), y)
                            /\ Once(ws, y) => Once(Unlink(ws, x), y)
<1>1. CASE Occurrence(ws, x) = {}
  <2>1. Unlink(ws, x) = ws
    BY <1>1 DEF Unlink
  <2>2. ~Once(ws, x)
    BY <1>1 DEF Once, Occurrence
  <2>. QED BY <2>1, <2>2
<1>2. CASE Occurrence(ws, x) # {}
  <2> DEFINE k == CHOOSE i \in Occurrence(ws, x) : TRUE
             t == Unlink(ws, x)
             Old(i) == IF i < k THEN i ELSE i + 1
             New(j) == IF j < k THEN j ELSE j - 1
  <2>1. k \in Occurrence(ws, x)
    BY <1>2
  <2>2. t = SubSeq(ws, 1, k - 1) \o SubSeq(ws, k + 1, Len(ws))
    BY <1>2 DEF Unlink
  <2> HIDE DEF k, t
  <2>3. k \in 1..Len(ws) /\ ws[k] = x /\ Len(ws) \in Nat
    BY <2>1 DEF Occurrence
  <2>4. t \in Seq(S) /\ Len(t) = Len(ws) - 1 /\ \A i \in 1..Len(t) : t[i] = ws[Old(i)]
    BY <2>2, <2>3, WithoutIndex
  <2>5. \A i \in 1..Len(t) : Old(i) \in 1..Len(ws) /\ Old(i) # k
    BY <2>3, <2>4
  <2>6. \A i, j \in 1..Len(t) : Old(i) = Old(j) => i = j
    BY <2>3, <2>4
  <2>7. \A j \in 1..Len(ws) : j # k => New(j) \in 1..Len(t) /\ Old(New(j)) = j
    BY <2>3, <2>4
  <2> HIDE DEF Old, New
  <2>8. Once(ws, x) => Never(t, x)
    BY <2>3, <2>4, <2>5 DEF Once, Never
  <2>9. ~Never(ws, x)
    BY <2>3 DEF Never
  <2>10. ASSUME NEW y, Never(ws, y) PROVE Never(t, y)
    BY <2>4, <2>5, <2>10 DEF Never
  <2>11. ASSUME NEW y, y # x, Once(ws, y) PROVE Once(t, y)
    <3>1. PICK i \in 1..Len(ws) : ws[i] = y /\ \A j \in 1..Len(ws) : ws[j] = y => j = i
      BY <2>11 DEF Once
    <3>2. i # k
      BY <2>3, <2>11, <3>1
    <3>3. New(i) \in 1..Len(t) /\ Old(New(i)) = i
      BY <2>7, <3>2
    <3>4. t[New(i)] = y
      BY <2>4, <3>1, <3>3
    <3>5. ASSUME NEW j \in 1..Len(t), t[j] = y PROVE j = New(i)
      <4>1. Old(j) = i
        BY <2>4, <2>5, <3>1, <3>5
      <4>. QED BY <2>6, <3>3, <4>1
    <3>. QED BY <3>3, <3>4, <3>5 DEF Once
  <2>. QED BY <2>4, <2>8, <2>9, <2>10, <2>11 DEF t
<1>. QED BY <1>1, <1>2

-----------------------------------------------------------------------------
(* The agenda.                                                             *)
EventFields == {"kind", "proc", "key", "sig", "delay", "prio", "tag"}

EventOK(e) ==
  /\ DOMAIN e = EventFields
  /\ e.kind \in Kinds /\ e.proc \in Process
  /\ e.delay \in Int /\ e.prio \in Int

AgendaOK(A) == Numbered(A) /\ \A e \in A : EventOK(e)

(* What enters the agenda is an event, and what leaves it leaves events.   *)
LEMMA AgendaEnter ==
  ASSUME NEW A, AgendaOK(A), NEW e, EventOK(e)
  PROVE  AgendaOK(Enter(A, e))
<1>1. "tag" \in DOMAIN e
  BY DEF EventOK, EventFields
<1>2. Numbered(Enter(A, e))
  BY <1>1, EnterNumbered DEF AgendaOK
<1>3. ASSUME NEW n PROVE EventOK([e EXCEPT !.tag = n])
  BY DEF EventOK, EventFields
<1>4. \A f \in Enter(A, e) : EventOK(f)
  BY <1>3 DEF AgendaOK, Enter
<1>. QED BY <1>2, <1>4 DEF AgendaOK

LEMMA AgendaLeave ==
  ASSUME NEW A, AgendaOK(A), NEW gone \in SUBSET A
  PROVE  AgendaOK(Leave(A, gone))
<1>1. Numbered(Leave(A, gone))
  BY LeaveNumbered DEF AgendaOK
<1>2. ASSUME NEW e \in A, NEW n PROVE EventOK([e EXCEPT !.tag = n])
  BY DEF AgendaOK, EventOK, EventFields
<1>3. \A f \in Leave(A, gone) : EventOK(f)
  BY <1>2 DEF Leave
<1>. QED BY <1>1, <1>3 DEF AgendaOK

(* Events that change, but neither their number nor their types.           *)
LEMMA AgendaChanged ==
  ASSUME NEW A, AgendaOK(A), NEW B, NEW F \in [A -> B],
         \A f \in B : \E e \in A : f = F[e],
         \A e \in A : EventOK(F[e]) /\ F[e].tag = e.tag
  PROVE  AgendaOK(B)
<1>1. IsFiniteSet(A) /\ \A e \in A : e.tag \in 1..Cardinality(A)
  BY DEF AgendaOK, Numbered
<1>2. \A e \in A : "tag" \in DOMAIN F[e]
  BY DEF EventOK, EventFields
<1>3. \A e, f \in A : F[e].tag = F[f].tag => e = f
  BY DEF AgendaOK, Numbered
<1>4. Numbered(B)
  BY <1>1, <1>2, <1>3, NumberedImage
<1>. QED BY <1>4 DEF AgendaOK

(* There is a first event (cmb_event_execute_next).                        *)
LEMMA FirstOf ==
  ASSUME NEW A, AgendaOK(A), A # {}
  PROVE  First(A) \in A
<1> DEFINE R == {x \in A \X A : Before(x[1], x[2])}
<1>1. \A e, f \in A : <<e, f>> \in R <=> Before(e, f)
  OBVIOUS
<1> HIDE DEF R
<1>2. Cardinality(A) \in Nat
  BY FS_CardinalityType DEF AgendaOK, Numbered
<1>3. \A e \in A : e.delay \in Int /\ e.prio \in Int /\ e.tag \in Int
  BY <1>2 DEF AgendaOK, Numbered, EventOK
<1>4. \A e, f \in A : e # f => e.tag # f.tag
  BY DEF AgendaOK, Numbered
<1>5. \A e, f \in A : e # f => Before(e, f) \/ Before(f, e)
  BY <1>3, <1>4 DEF Before
<1>6. \A e, f, g \in A : Before(e, f) /\ Before(f, g) => Before(e, g)
  BY <1>3 DEF Before
<1>7. \A e \in A : ~Before(e, e)
  BY <1>3 DEF Before
<1>8. Orders(R, A)
  BY <1>1, <1>5, <1>6, <1>7 DEF Orders
<1>9. PICK e \in A : \A f \in A \ {e} : <<e, f>> \in R
  BY <1>8, Earliest DEF AgendaOK, Numbered
<1>10. \A f \in A \ {e} : Before(e, f)
  BY <1>1, <1>9
<1>. QED BY <1>10 DEF First

(* A sequence of events is appended, F[i] at the place[i]-th place.         *)
Appends(A, I, B, F, place) ==
  /\ IsFiniteSet(I) /\ F \in [I -> B] /\ \A f \in B : \E i \in I : f = F[i]
  /\ place \in [I -> 1..Cardinality(I)]
  /\ \A i, j \in I : place[i] = place[j] => i = j
  /\ \A i \in I : EventOK(F[i]) /\ F[i].tag = Cardinality(A) + place[i]

LEMMA AgendaAppend ==
  ASSUME NEW A, AgendaOK(A), NEW I, NEW B, NEW F, NEW place,
         Appends(A, I, B, F, place)
  PROVE  AgendaOK(A \cup B)
<1>. USE DEF Appends
<1>1. Cardinality(A) \in Nat /\ Cardinality(I) \in Nat
  BY FS_CardinalityType DEF AgendaOK, Numbered
<1>2. \A i \in I : "tag" \in DOMAIN F[i]
  BY DEF EventOK, EventFields
<1>3. \A i, j \in I : F[i].tag = F[j].tag => i = j
  BY <1>1
<1>4. F \in Bijection(I, B)
  BY <1>3 DEF Bijection, Injection, Surjection, IsInjective
<1>5. ExistsBijection(I, B)
  BY <1>4 DEF ExistsBijection
<1>6. IsFiniteSet(B) /\ Cardinality(B) = Cardinality(I)
  BY <1>5, FS_Bijection
<1>7. \A f \in B : /\ "tag" \in DOMAIN f
                   /\ \E n \in 1..Cardinality(B) : f.tag = Cardinality(A) + n
  BY <1>2, <1>6
<1>8. \A f, g \in B : f.tag = g.tag => f = g
  BY <1>3
<1>9. Numbered(A)
  BY DEF AgendaOK
<1>10. Numbered(A \cup B)
  BY <1>6, <1>7, <1>8, <1>9, ExtendNumbered
<1>. QED BY <1>10 DEF AgendaOK

-----------------------------------------------------------------------------
(* The queue of a guard.                                                   *)
EntryFields == {"proc", "key", "prio", "tag"}

EntryOK(w) == DOMAIN w = EntryFields /\ w.proc \in Process /\ w.prio \in Int

QueueOK(Q) == Numbered(Q) /\ \A w \in Q : EntryOK(w)

(* The same for the entries of a queue.                                    *)
LEMMA QueueEnter ==
  ASSUME NEW Q, QueueOK(Q), NEW w, EntryOK(w)
  PROVE  QueueOK(Enter(Q, w))
<1>1. "tag" \in DOMAIN w
  BY DEF EntryOK, EntryFields
<1>2. Numbered(Enter(Q, w))
  BY <1>1, EnterNumbered DEF QueueOK
<1>3. ASSUME NEW n PROVE EntryOK([w EXCEPT !.tag = n])
  BY DEF EntryOK, EntryFields
<1>4. \A v \in Enter(Q, w) : EntryOK(v)
  BY <1>3 DEF QueueOK, Enter
<1>. QED BY <1>2, <1>4 DEF QueueOK

LEMMA QueueLeave ==
  ASSUME NEW Q, QueueOK(Q), NEW gone \in SUBSET Q
  PROVE  QueueOK(Leave(Q, gone))
<1>1. Numbered(Leave(Q, gone))
  BY LeaveNumbered DEF QueueOK
<1>2. ASSUME NEW w \in Q, NEW n PROVE EntryOK([w EXCEPT !.tag = n])
  BY DEF QueueOK, EntryOK, EntryFields
<1>3. \A v \in Leave(Q, gone) : EntryOK(v)
  BY <1>2 DEF Leave
<1>. QED BY <1>1, <1>3 DEF QueueOK

LEMMA QueueChanged ==
  ASSUME NEW Q, QueueOK(Q), NEW T, NEW F \in [Q -> T],
         \A v \in T : \E w \in Q : v = F[w],
         \A w \in Q : EntryOK(F[w]) /\ F[w].tag = w.tag
  PROVE  QueueOK(T)
<1>1. IsFiniteSet(Q) /\ \A w \in Q : w.tag \in 1..Cardinality(Q)
  BY DEF QueueOK, Numbered
<1>2. \A w \in Q : "tag" \in DOMAIN F[w]
  BY DEF EntryOK, EntryFields
<1>3. \A v, w \in Q : F[v].tag = F[w].tag => v = w
  BY DEF QueueOK, Numbered
<1>4. Numbered(T)
  BY <1>1, <1>2, <1>3, NumberedImage
<1>. QED BY <1>4 DEF QueueOK

(* There is a front entry (cmb_resourceguard_signal).                      *)
LEMMA FrontOf ==
  ASSUME NEW s, NEW g, QueueOK(s.queue[g]), s.queue[g] # {}
  PROVE  Front(s, g) \in s.queue[g]
<1> DEFINE Q == s.queue[g]
           Ahead(w, v) == w.prio > v.prio \/ (w.prio = v.prio /\ w.tag < v.tag)
           R == {x \in Q \X Q : Ahead(x[1], x[2])}
<1>1. Front(s, g) = CHOOSE w \in Q : \A v \in Q \ {w} : Ahead(w, v)
  BY DEF Front
<1>2. QueueOK(Q) /\ Q # {}
  OBVIOUS
<1> HIDE DEF Q
<1>3. \A w, v \in Q : <<w, v>> \in R <=> Ahead(w, v)
  OBVIOUS
<1> HIDE DEF R
<1>4. Cardinality(Q) \in Nat
  BY <1>2, FS_CardinalityType DEF QueueOK, Numbered
<1>5. \A w \in Q : w.prio \in Int /\ w.tag \in Int
  BY <1>2, <1>4 DEF QueueOK, Numbered, EntryOK
<1>6. \A w, v \in Q : w # v => w.tag # v.tag
  BY <1>2 DEF QueueOK, Numbered
<1>7. Orders(R, Q)
  <2>1. \A w, v \in Q : w # v => Ahead(w, v) \/ Ahead(v, w)
    BY <1>5, <1>6
  <2>2. \A u, v, w \in Q : Ahead(u, v) /\ Ahead(v, w) => Ahead(u, w)
    BY <1>5
  <2>3. \A w \in Q : ~Ahead(w, w)
    BY <1>5
  <2> HIDE DEF Ahead
  <2>. QED BY <1>3, <2>1, <2>2, <2>3 DEF Orders
<1>8. PICK w \in Q : \A v \in Q \ {w} : <<w, v>> \in R
  BY <1>2, <1>7, Earliest DEF QueueOK, Numbered
<1> HIDE DEF Ahead
<1>9. \A v \in Q \ {w} : Ahead(w, v)
  BY <1>3, <1>8
<1>. QED BY <1>1, <1>9 DEF Q

-----------------------------------------------------------------------------
(* What has to be true of a state so that the calls of the kernel are      *)
(* about events, entries and processes that exist.                         *)
Fields ==
  {"agenda", "running", "status", "prio", "call", "timers", "ticket", "joins",
   "waiters", "queue", "observers", "untold", "failed"}

QueuesOK(queue) ==
  DOMAIN queue = Guard /\ \A g \in Guard : QueueOK(queue[g])

Unguarded == {"none", "hold", "yield", "join"}

CallOK(c) == c.fn \notin Unguarded => c.on \in Guard

CallsOK(call) == DOMAIN call = Process /\ \A p \in Process : CallOK(call[p])

TicketOK(t) == t.guard \in Guard \cup {NoOne}

TicketsOK(ticket) ==
  DOMAIN ticket = Process /\ \A p \in Process : TicketOK(ticket[p])

Steady(s) ==
  /\ Fields \subseteq DOMAIN s
  /\ s = [f \in DOMAIN s |-> s[f]]
  /\ AgendaOK(s.agenda) /\ QueuesOK(s.queue)
  /\ CallsOK(s.call) /\ TicketsOK(s.ticket)
  /\ s.waiters \in [Process -> Seq(Process)]
  /\ s.prio \in [Process -> Int]
  /\ \A g \in Guard : s.observers[g] = <<>>
  /\ DOMAIN s.status = Process

(* What is not the kernel's stays as it is.                                *)
Foreign(s, t) ==
  DOMAIN t = DOMAIN s /\ \A f \in DOMAIN s \ Fields : t[f] = s[f]

(* Nobody starts or ends, or changes in rank, but may come to run or block.*)
Aside(s, t) ==
  Foreign(s, t) /\ t.status = s.status /\ t.prio = s.prio

(* Nor does anybody come to run or block.                                  *)
Still(s, t) == Aside(s, t) /\ t.running = s.running /\ t.call = s.call

Calm(s, t) == Steady(t) /\ Still(s, t)

LEMMA CalmTransitive ==
  ASSUME NEW s, NEW t, NEW u, Calm(s, t), Calm(t, u) PROVE Calm(s, u)
  BY DEF Calm, Still, Aside, Foreign

(* Changes of the fields that the calls treat apart from the others.       *)
LEMMA AgendaSet ==
  ASSUME NEW s, Steady(s), NEW A, AgendaOK(A)
  PROVE  Calm(s, [s EXCEPT !.agenda = A])
  BY DEF Calm, Still, Aside, Foreign, Steady, Fields

LEMMA QueueSet ==
  ASSUME NEW s, Steady(s), NEW Q, QueuesOK(Q)
  PROVE  Calm(s, [s EXCEPT !.queue = Q])
  BY DEF Calm, Still, Aside, Foreign, Steady, Fields

LEMMA FreeSet ==
  ASSUME NEW s, Steady(s), NEW x
  PROVE  /\ Calm(s, [s EXCEPT !.timers = x]) /\ Calm(s, [s EXCEPT !.joins = x])
         /\ Calm(s, [s EXCEPT !.untold = x]) /\ Calm(s, [s EXCEPT !.failed = x])
<1>1. Calm(s, [s EXCEPT !.timers = x])
  BY DEF Calm, Still, Aside, Foreign, Steady, Fields
<1>2. Calm(s, [s EXCEPT !.joins = x])
  BY DEF Calm, Still, Aside, Foreign, Steady, Fields
<1>3. Calm(s, [s EXCEPT !.untold = x])
  BY DEF Calm, Still, Aside, Foreign, Steady, Fields
<1>4. Calm(s, [s EXCEPT !.failed = x])
  BY DEF Calm, Still, Aside, Foreign, Steady, Fields
<1>. QED BY <1>1, <1>2, <1>3, <1>4

LEMMA TicketSet ==
  ASSUME NEW s, Steady(s), NEW x, TicketsOK(x)
  PROVE  Calm(s, [s EXCEPT !.ticket = x])
  BY DEF Calm, Still, Aside, Foreign, Steady, Fields

LEMMA WaitersSet ==
  ASSUME NEW s, Steady(s), NEW x \in [Process -> Seq(Process)]
  PROVE  Calm(s, [s EXCEPT !.waiters = x])
  BY DEF Calm, Still, Aside, Foreign, Steady, Fields

LEMMA PrioSet ==
  ASSUME NEW s, Steady(s), NEW x \in [Process -> Int]
  PROVE  LET t == [s EXCEPT !.prio = x]
         IN  /\ Steady(t) /\ Foreign(s, t) /\ t.prio = x
             /\ t.status = s.status /\ t.running = s.running /\ t.call = s.call
  BY DEF Foreign, Steady, Fields

LEMMA CallSet ==
  ASSUME NEW s, Steady(s), NEW x, CallsOK(x)
  PROVE  LET t == [s EXCEPT !.call = x]
         IN  Steady(t) /\ Aside(s, t) /\ t.running = s.running /\ t.call = x
  BY DEF Aside, Foreign, Steady, Fields

LEMMA RunningSet ==
  ASSUME NEW s, Steady(s), NEW x
  PROVE  LET t == [s EXCEPT !.running = x]
         IN  Steady(t) /\ Aside(s, t) /\ t.call = s.call /\ t.running = x
  BY DEF Aside, Foreign, Steady, Fields

LEMMA StatusSet ==
  ASSUME NEW s, Steady(s), NEW x, DOMAIN x = Process
  PROVE  LET t == [s EXCEPT !.status = x]
         IN  /\ Steady(t) /\ Foreign(s, t) /\ t.prio = s.prio
             /\ t.running = s.running /\ t.call = s.call /\ t.status = x
  BY DEF Foreign, Steady, Fields

(* A change of the fields that are not the kernel's.                       *)
LEMMA ForeignSteady ==
  ASSUME NEW s, Steady(s), NEW t, DOMAIN t = DOMAIN s,
         t = [f \in DOMAIN t |-> t[f]],
         \A f \in Fields : t[f] = s[f]
  PROVE  /\ Steady(t) /\ t.status = s.status /\ t.prio = s.prio
         /\ t.running = s.running /\ t.call = s.call
  BY DEF Steady, Fields

-----------------------------------------------------------------------------
(* The calls of the kernel.                                                *)

LEMMA AssertedCalm ==
  ASSUME NEW s, Steady(s), NEW holds, NEW name
  PROVE  Calm(s, Asserted(s, holds, name))
<1>1. Calm(s, s)
  BY DEF Calm, Still, Aside, Foreign
<1>. QED BY <1>1, FreeSet DEF Asserted

LEMMA ScheduleCalm ==
  ASSUME NEW s, Steady(s), NEW kind \in Kinds, NEW p \in Process, NEW key, NEW sig,
         NEW delay \in Int, NEW pri \in Int
  PROVE  Calm(s, Schedule(s, kind, p, key, sig, delay, pri))
<1> DEFINE e == [kind |-> kind, proc |-> p, key |-> key, sig |-> sig,
                 delay |-> delay, prio |-> pri, tag |-> 0]
<1>1. EventOK(e)
  BY DEF EventOK, EventFields
<1>2. AgendaOK(Enter(s.agenda, e))
  BY <1>1, AgendaEnter DEF Steady
<1>3. Schedule(s, kind, p, key, sig, delay, pri) = [s EXCEPT !.agenda = Enter(s.agenda, e)]
  BY DEF Schedule
<1>. QED BY <1>2, <1>3, AgendaSet

LEMMA CancelEventsCalm ==
  ASSUME NEW s, Steady(s), NEW gone \in SUBSET s.agenda
  PROVE  Calm(s, CancelEvents(s, gone))
<1>1. AgendaOK(Leave(s.agenda, gone))
  BY AgendaLeave DEF Steady
<1>. QED BY <1>1, AgendaSet DEF CancelEvents

LEMMA DequeueCalm ==
  ASSUME NEW s, Steady(s), s.agenda # {}
  PROVE  Calm(s, Dequeue(s)) /\ EventOK(First(s.agenda))
<1> DEFINE A == s.agenda
           e == First(A)
           L == Leave(A, {e})
           B == {[f EXCEPT !.delay = f.delay - e.delay] : f \in L}
           F == [f \in L |-> [f EXCEPT !.delay = f.delay - e.delay]]
<1>1. AgendaOK(A)
  BY DEF Steady
<1>2. e \in A
  BY <1>1, FirstOf
<1>3. EventOK(e)
  BY <1>1, <1>2 DEF AgendaOK
<1>4. AgendaOK(L)
  BY <1>1, <1>2, AgendaLeave
<1>5. Dequeue(s) = [s EXCEPT !.agenda = B]
  BY DEF Dequeue
<1> HIDE DEF L, e
<1>6. F \in [L -> B] /\ \A f \in B : \E x \in L : f = F[x]
  OBVIOUS
<1>7. ASSUME NEW f \in L PROVE EventOK(F[f]) /\ F[f].tag = f.tag
  <2>1. EventOK(f)
    BY <1>4 DEF AgendaOK
  <2>2. F[f] = [f EXCEPT !.delay = f.delay - e.delay]
    OBVIOUS
  <2>. QED BY <1>3, <2>1, <2>2 DEF EventOK, EventFields
<1> HIDE DEF F, B
<1>8. AgendaOK(B)
  BY <1>4, <1>6, <1>7, AgendaChanged
<1>. QED BY <1>3, <1>5, <1>8, AgendaSet DEF e

(* Control is given up, and comes back.                                    *)
CallIn(fn, on, key) == [fn |-> fn, on |-> on, key |-> key]

LEMMA BlockSteady ==
  ASSUME NEW s, Steady(s), NEW p \in Process, NEW fn, NEW on, NEW key,
         fn \notin Unguarded => on \in Guard
  PROVE  LET t == Block(s, p, fn, on, key)
         IN  Steady(t) /\ Aside(s, t) /\ t.running = NoOne
<1> DEFINE c == CallIn(fn, on, key)
           calls == [s.call EXCEPT ![p] = c]
           u == [s EXCEPT !.call = calls]
           t == [u EXCEPT !.running = NoOne]
<1>1. CallOK(c)
  BY DEF CallOK, CallIn
<1>2. CallsOK(calls)
  BY <1>1 DEF Steady, CallsOK
<1>3. Block(s, p, fn, on, key) = t
  BY DEF Block, CallIn
<1> HIDE DEF calls
<1>4. Steady(u) /\ Aside(s, u) /\ u.running = s.running /\ u.call = calls
  BY <1>2, CallSet
<1> HIDE DEF u
<1>5. Steady(t) /\ Aside(u, t) /\ t.call = u.call /\ t.running = NoOne
  BY <1>4, RunningSet
<1> HIDE DEF t
<1>. QED BY <1>3, <1>4, <1>5 DEF Aside, Foreign

LEMMA BlockCall ==
  ASSUME NEW s, Steady(s), NEW p, NEW fn, NEW on, NEW key
  PROVE  Block(s, p, fn, on, key).call = [s.call EXCEPT ![p] = CallIn(fn, on, key)]
  BY DEF Block, Steady, Fields, CallIn

LEMMA ReturnSteady ==
  ASSUME NEW s, Steady(s), NEW p \in Process, NEW sig
  PROVE  LET t == Return(s, p, sig)
         IN  /\ Steady(t) /\ Aside(s, t) /\ t.running = p
             /\ t.call = [s.call EXCEPT ![p] = Idle]
<1> DEFINE calls == [s.call EXCEPT ![p] = Idle]
           u == [s EXCEPT !.running = p]
           v == [u EXCEPT !.call = calls]
           w == [v EXCEPT !.untold = [v.untold EXCEPT ![p] = IF sig = "preempted" THEN {}
                                                             ELSE v.untold[p]]]
<1>1. CallOK(Idle)
  BY DEF CallOK, Idle, Unguarded
<1>2. CallsOK(calls)
  BY <1>1 DEF Steady, CallsOK
<1>3. Return(s, p, sig) = w
  BY DEF Return, Steady, Fields
<1> HIDE DEF calls
<1>4. Steady(u) /\ Aside(s, u) /\ u.call = s.call /\ u.running = p
  BY RunningSet
<1> HIDE DEF u
<1>5. Steady(v) /\ Aside(u, v) /\ v.running = u.running /\ v.call = calls
  BY <1>2, <1>4, CallSet
<1> HIDE DEF v
<1>6. Calm(v, w)
  BY <1>5, FreeSet
<1> HIDE DEF w
<1>. QED BY <1>3, <1>4, <1>5, <1>6 DEF Calm, Still, Aside, Foreign, calls

(* A process ends.                                                         *)
LEMMA FinishedSteady ==
  ASSUME NEW s, Steady(s), NEW p \in Process
  PROVE  LET t == Finished(s, p)
         IN  /\ Steady(t) /\ Foreign(s, t) /\ t.running = s.running /\ t.prio = s.prio
             /\ t.call = [s.call EXCEPT ![p] = Idle]
<1> DEFINE calls == [s.call EXCEPT ![p] = Idle]
           status == [s.status EXCEPT ![p] = "finished"]
           u == [s EXCEPT !.status = status]
           v == [u EXCEPT !.call = calls]
           w == [v EXCEPT !.untold = [v.untold EXCEPT ![p] = {}]]
<1>1. CallOK(Idle)
  BY DEF CallOK, Idle, Unguarded
<1>2. CallsOK(calls)
  BY <1>1 DEF Steady, CallsOK
<1>3. DOMAIN status = Process
  BY DEF Steady
<1>4. Finished(s, p) = w
  BY DEF Finished, Steady, Fields
<1> HIDE DEF calls, status
<1>5. /\ Steady(u) /\ Foreign(s, u) /\ u.prio = s.prio
      /\ u.running = s.running /\ u.call = s.call /\ u.status = status
  BY <1>3, StatusSet
<1> HIDE DEF u
<1>6. Steady(v) /\ Aside(u, v) /\ v.running = u.running /\ v.call = calls
  BY <1>2, <1>5, CallSet
<1> HIDE DEF v
<1>7. Calm(v, w)
  BY <1>6, FreeSet
<1> HIDE DEF w
<1>. QED BY <1>4, <1>5, <1>6, <1>7 DEF Calm, Still, Aside, Foreign, calls

(* Timers.                                                                 *)
LEMMA TimerAddCalm ==
  ASSUME NEW s, Steady(s), NEW p \in Process, NEW delay \in Int, NEW sig
  PROVE  Calm(s, TimerAdd(s, p, delay, sig))
<1> DEFINE k == FreshKey(s)
           t == Schedule(s, "time", p, k, sig, delay, s.prio[p])
           u == [t EXCEPT !.timers = [t.timers EXCEPT ![p] = t.timers[p] \cup {k}]]
<1>1. s.prio[p] \in Int /\ "time" \in Kinds
  BY DEF Steady, Kinds
<1>2. TimerAdd(s, p, delay, sig) = u
  BY DEF TimerAdd
<1>3. Calm(s, t)
  BY <1>1, ScheduleCalm
<1> HIDE DEF t
<1>4. Calm(t, u)
  BY <1>3, FreeSet DEF Calm
<1> HIDE DEF u
<1>. QED BY <1>2, <1>3, <1>4, CalmTransitive

LEMMA TimerCancelCalm ==
  ASSUME NEW s, Steady(s), NEW p \in Process, NEW key
  PROVE  Calm(s, TimerCancel(s, p, key))
<1> DEFINE t == CancelEvents(s, TimerEvents(s, p, {key}))
           u == [t EXCEPT !.timers = [t.timers EXCEPT ![p] = t.timers[p] \ {key}]]
<1>1. TimerEvents(s, p, {key}) \in SUBSET s.agenda
  BY DEF TimerEvents
<1>2. TimerCancel(s, p, key) = u
  BY DEF TimerCancel
<1>3. Calm(s, t)
  BY <1>1, CancelEventsCalm
<1> HIDE DEF t
<1>4. Calm(t, u)
  BY <1>3, FreeSet DEF Calm
<1> HIDE DEF u
<1>. QED BY <1>2, <1>3, <1>4, CalmTransitive

LEMMA TimersClearCalm ==
  ASSUME NEW s, Steady(s), NEW p \in Process
  PROVE  Calm(s, TimersClear(s, p))
<1> DEFINE holds == \A k \in s.timers[p] : TimerEvents(s, p, {k}) # {}
           t == CancelEvents(s, TimerEvents(s, p, s.timers[p]))
           u == Asserted(t, holds, "timers_clear")
           v == [u EXCEPT !.timers = [u.timers EXCEPT ![p] = {}]]
<1>1. TimerEvents(s, p, s.timers[p]) \in SUBSET s.agenda
  BY DEF TimerEvents
<1>2. TimersClear(s, p) = v
  BY DEF TimersClear
<1> HIDE DEF holds
<1>3. Calm(s, t)
  BY <1>1, CancelEventsCalm
<1> HIDE DEF t
<1>4. Calm(t, u)
  BY <1>3, AssertedCalm DEF Calm
<1> HIDE DEF u
<1>5. Calm(u, v)
  BY <1>4, FreeSet DEF Calm
<1> HIDE DEF v
<1>. QED BY <1>2, <1>3, <1>4, <1>5, CalmTransitive

(* Joins.                                                                  *)
LEMMA WaitProcessSteady ==
  ASSUME NEW s, Steady(s), NEW p \in Process, NEW q \in Process
  PROVE  LET t == WaitProcess(s, p, q)
         IN  /\ Steady(t) /\ Aside(s, t) /\ t.running = NoOne
             /\ t.call = [s.call EXCEPT ![p] = CallIn("join", q, 0)]
<1> DEFINE u == [s EXCEPT !.joins = [s.joins EXCEPT ![p] = q]]
           lists == [u.waiters EXCEPT ![q] = <<p>> \o u.waiters[q]]
           v == [u EXCEPT !.waiters = lists]
           t == Block(v, p, "join", q, 0)
<1>1. WaitProcess(s, p, q) = t
  BY DEF WaitProcess
<1>2. Calm(s, u)
  BY FreeSet
<1> HIDE DEF u
<1>3. lists \in [Process -> Seq(Process)]
  <2>1. u.waiters \in [Process -> Seq(Process)]
    BY <1>2 DEF Calm, Steady
  <2>2. <<p>> \o u.waiters[q] \in Seq(Process)
    BY <2>1, PrependKeeps
  <2>. QED BY <2>1, <2>2
<1> HIDE DEF lists
<1>4. Calm(u, v)
  BY <1>2, <1>3, WaitersSet DEF Calm
<1> HIDE DEF v
<1>5. Steady(v)
  BY <1>4 DEF Calm
<1>6. Steady(t) /\ Aside(v, t) /\ t.running = NoOne
  BY <1>5, BlockSteady DEF Unguarded
<1>7. t.call = [v.call EXCEPT ![p] = CallIn("join", q, 0)]
  BY <1>5, BlockCall
<1> HIDE DEF t
<1>. QED BY <1>1, <1>2, <1>4, <1>6, <1>7 DEF Calm, Still, Aside, Foreign

LEMMA WakeWaitersCalm ==
  ASSUME NEW s, Steady(s), NEW p \in Process, NEW sig
  PROVE  Calm(s, WakeWaiters(s, p, sig))
<1> DEFINE ws == s.waiters[p]
           A == s.agenda
           I == 1..Len(ws)
           Woken(i) == [kind |-> "process", proc |-> ws[i], key |-> 0,
                        sig |-> sig, delay |-> 0, prio |-> s.prio[ws[i]],
                        tag |-> Cardinality(A) + i]
           B == {Woken(i) : i \in I}
           F == [i \in I |-> Woken(i)]
           place == [i \in I |-> i]
           t == [s EXCEPT !.agenda = A \cup B]
           u == [t EXCEPT !.waiters = [t.waiters EXCEPT ![p] = <<>>]]
<1>1. s.waiters \in [Process -> Seq(Process)] /\ s.prio \in [Process -> Int]
  BY DEF Steady
<1>2. ws \in Seq(Process) /\ Len(ws) \in Nat
  BY <1>1
<1>3. IsFiniteSet(I) /\ Cardinality(I) = Len(ws)
  BY <1>2, FS_Interval
<1>4. AgendaOK(A)
  BY DEF Steady
<1>5. WakeWaiters(s, p, sig) = u
  BY DEF WakeWaiters
<1>6. \A i \in I : ws[i] \in Process /\ s.prio[ws[i]] \in Int
  <2>1. \A i \in I : ws[i] \in Process
    BY <1>2
  <2>. QED BY <1>1, <2>1
<1> HIDE DEF ws
<1>7. \A i \in I : EventOK(Woken(i)) /\ Woken(i).tag = Cardinality(A) + i
  BY <1>6 DEF EventOK, EventFields, Kinds
<1> HIDE DEF Woken, A
<1>8. F \in [I -> B] /\ \A f \in B : \E i \in I : f = F[i]
  OBVIOUS
<1>9. \A i \in I : EventOK(F[i]) /\ F[i].tag = Cardinality(A) + place[i]
  BY <1>7
<1>10. place \in [I -> 1..Cardinality(I)] /\ \A i, j \in I : place[i] = place[j] => i = j
  BY <1>3
<1> HIDE DEF I, B, F, place
<1>11. Appends(A, I, B, F, place)
  BY <1>3, <1>8, <1>9, <1>10 DEF Appends
<1>12. Calm(s, t)
  <2>1. AgendaOK(A \cup B)
    BY <1>4, <1>11, AgendaAppend
  <2>. QED BY <2>1, AgendaSet
<1> HIDE DEF t
<1>13. [t.waiters EXCEPT ![p] = <<>>] \in [Process -> Seq(Process)]
  BY <1>12 DEF Calm, Steady
<1>14. Calm(t, u)
  BY <1>12, <1>13, WaitersSet DEF Calm
<1> HIDE DEF u
<1>. QED BY <1>5, <1>12, <1>14, CalmTransitive

(* A new queue at one guard, or a new ticket for one process.              *)
LEMMA QueueAt ==
  ASSUME NEW s, Steady(s), NEW g \in Guard, NEW Q, QueueOK(Q)
  PROVE  Calm(s, [s EXCEPT !.queue = [s.queue EXCEPT ![g] = Q]])
<1> DEFINE queue == [s.queue EXCEPT ![g] = Q]
<1>1. QueuesOK(queue)
  BY DEF Steady, QueuesOK
<1> HIDE DEF queue
<1>2. Calm(s, [s EXCEPT !.queue = queue])
  BY <1>1, QueueSet
<1>. QED BY <1>2 DEF queue

LEMMA TicketAt ==
  ASSUME NEW s, Steady(s), NEW p \in Process, NEW x, TicketOK(x)
  PROVE  Calm(s, [s EXCEPT !.ticket = [s.ticket EXCEPT ![p] = x]])
<1> DEFINE ticket == [s.ticket EXCEPT ![p] = x]
<1>1. TicketsOK(ticket)
  BY DEF Steady, TicketsOK
<1> HIDE DEF ticket
<1>2. Calm(s, [s EXCEPT !.ticket = ticket])
  BY <1>1, TicketSet
<1>. QED BY <1>2 DEF ticket

(* The front entry is about a process.                                     *)
LEMMA FrontProcess ==
  ASSUME NEW s, Steady(s), NEW g \in Guard, s.queue[g] # {}
  PROVE  /\ Front(s, g) \in s.queue[g]
         /\ Front(s, g).proc \in Process /\ s.prio[Front(s, g).proc] \in Int
<1>1. QueueOK(s.queue[g])
  BY DEF Steady, QueuesOK
<1>2. Front(s, g) \in s.queue[g]
  BY <1>1, FrontOf
<1>3. Front(s, g).proc \in Process
  BY <1>1, <1>2 DEF QueueOK, EntryOK
<1>. QED BY <1>2, <1>3 DEF Steady

(* Guards.                                                                 *)
LEMMA GrantedCalm ==
  ASSUME NEW s, Steady(s), NEW g \in Guard
  PROVE  Calm(s, Granted(s, g))
<1>1. Calm(s, s)
  BY DEF Calm, Still, Aside, Foreign
<1>2. CASE s.queue[g] # {} /\ Satisfied(s, g, Front(s, g).proc)
  <2> DEFINE w == Front(s, g)
             p == w.proc
             k == GuardKey(s, p, g)
             Q == Leave(s.queue[g], {w})
             t == [s EXCEPT !.queue = [s.queue EXCEPT ![g] = Q]]
             u == Schedule(t, "grant", p, k, "success", 0, s.prio[p])
             v == Asserted(u, k # 0, "guard_signal")
  <2>1. w \in s.queue[g] /\ p \in Process /\ s.prio[p] \in Int
    BY <1>2, FrontProcess
  <2>2. QueueOK(Q)
    BY <2>1, QueueLeave DEF Steady, QueuesOK
  <2>3. Granted(s, g) = v
    BY <1>2 DEF Granted
  <2> HIDE DEF Q
  <2>4. Calm(s, t)
    BY <2>2, QueueAt
  <2> HIDE DEF t, k, w
  <2>5. "grant" \in Kinds /\ 0 \in Int
    BY DEF Kinds
  <2>6. Calm(t, u)
    BY <2>1, <2>4, <2>5, ScheduleCalm DEF Calm
  <2> HIDE DEF u
  <2>7. Calm(u, v)
    BY <2>6, AssertedCalm DEF Calm
  <2> HIDE DEF v
  <2>. QED BY <2>3, <2>4, <2>6, <2>7, CalmTransitive
<1>3. CASE ~(s.queue[g] # {} /\ Satisfied(s, g, Front(s, g).proc))
  <2>1. Granted(s, g) = s
    BY <1>3 DEF Granted
  <2>. QED BY <1>1, <2>1
<1>. QED BY <1>2, <1>3

LEMMA SignalCalm ==
  ASSUME NEW s, Steady(s), NEW g \in Guard
  PROVE  Calm(s, Signal(s, g))
<1>1. s.observers[g] = <<>>
  BY DEF Steady
<1>2. Signal(s, g) = Granted(s, g)
  BY <1>1 DEF Signal
<1>. QED BY <1>2, GrantedCalm

LEMMA GuardWaitSteady ==
  ASSUME NEW s, Steady(s), NEW p \in Process, NEW fn, NEW g \in Guard
  PROVE  LET t == GuardWait(s, p, fn, g)
             c == CallIn(fn, g, FreshKey(s))
         IN  /\ Steady(t) /\ Aside(s, t) /\ t.running = NoOne
             /\ t.call = [s.call EXCEPT ![p] = c]
<1> DEFINE k == FreshKey(s)
           x == [guard |-> g, key |-> k]
           w == [proc |-> p, key |-> k, prio |-> s.prio[p], tag |-> 0]
           u == [s EXCEPT !.ticket = [s.ticket EXCEPT ![p] = x]]
           Q == Enter(u.queue[g], w)
           v == [u EXCEPT !.queue = [u.queue EXCEPT ![g] = Q]]
           t == Block(v, p, fn, g, k)
<1>1. GuardWait(s, p, fn, g) = t
  BY DEF GuardWait, AddTicket
<1> HIDE DEF k
<1>2. TicketOK(x)
  BY DEF TicketOK
<1> HIDE DEF x
<1>3. Calm(s, u)
  BY <1>2, TicketAt
<1> HIDE DEF u
<1>4. EntryOK(w)
  BY DEF Steady, EntryOK, EntryFields
<1> HIDE DEF w
<1>5. QueueOK(Q)
  BY <1>3, <1>4, QueueEnter DEF Calm, Steady, QueuesOK
<1> HIDE DEF Q
<1>6. Calm(u, v)
  BY <1>3, <1>5, QueueAt DEF Calm
<1> HIDE DEF v
<1>7. Steady(v)
  BY <1>6 DEF Calm
<1>8. Steady(t) /\ Aside(v, t) /\ t.running = NoOne
  BY <1>7, BlockSteady
<1>9. t.call = [v.call EXCEPT ![p] = CallIn(fn, g, k)]
  BY <1>7, BlockCall
<1> HIDE DEF t
<1>. QED BY <1>1, <1>3, <1>6, <1>8, <1>9 DEF Calm, Still, Aside, Foreign, k

LEMMA RemoveTicketCalm ==
  ASSUME NEW s, Steady(s), NEW p \in Process, NEW g
  PROVE  Calm(s, RemoveTicket(s, p, g))
<1> DEFINE x == IF s.ticket[p].guard = g THEN NoTicket ELSE s.ticket[p]
<1>1. TicketOK(x)
  BY DEF Steady, TicketsOK, TicketOK, NoTicket
<1>2. RemoveTicket(s, p, g) = [s EXCEPT !.ticket = [s.ticket EXCEPT ![p] = x]]
  BY DEF RemoveTicket
<1> HIDE DEF x
<1>. QED BY <1>1, <1>2, TicketAt

LEMMA GuardResumeCalm ==
  ASSUME NEW s, Steady(s), NEW p \in Process, NEW sig, s.call[p].on \in Guard
  PROVE  Calm(s, GuardResume(s, p, sig))
<1> DEFINE g == s.call[p].on
           mine == Entries(s, g, s.call[p].key)
           t == RemoveTicket(s, p, g)
           Q == Leave(t.queue[g], mine)
           u == [t EXCEPT !.queue = [t.queue EXCEPT ![g] = Q]]
<1>1. GuardResume(s, p, sig) =
        IF sig = "success" THEN Asserted(t, mine = {}, "guard_wait")
        ELSE IF mine # {} THEN u
        ELSE IF sig # "cancelled" THEN Signal(t, g)
        ELSE t
  BY DEF GuardResume
<1>2. g \in Guard
  OBVIOUS
<1>3. mine \in SUBSET t.queue[g]
  BY DEF Entries, RemoveTicket, Steady, Fields
<1> HIDE DEF mine
<1>4. Calm(s, t)
  BY RemoveTicketCalm
<1> HIDE DEF t, g
<1>5. QueueOK(Q)
  BY <1>2, <1>3, <1>4, QueueLeave DEF Calm, Steady, QueuesOK
<1> HIDE DEF Q
<1>6. Calm(t, u)
  BY <1>2, <1>4, <1>5, QueueAt DEF Calm
<1>7. Calm(t, Asserted(t, mine = {}, "guard_wait"))
  BY <1>4, AssertedCalm DEF Calm
<1>8. Calm(t, Signal(t, g))
  BY <1>2, <1>4, SignalCalm DEF Calm
<1> HIDE DEF u
<1>. QED BY <1>1, <1>4, <1>6, <1>7, <1>8, CalmTransitive

LEMMA GuardCancelCalm ==
  ASSUME NEW s, Steady(s), NEW p \in Process, NEW g \in Guard
  PROVE  Calm(s, GuardCancel(s, p, g))
<1> DEFINE k == GuardKey(s, p, g)
           mine == Entries(s, g, k)
           Q == Leave(s.queue[g], mine)
           t == [s EXCEPT !.queue = [s.queue EXCEPT ![g] = Q]]
           u == Schedule(t, "cancelled", p, k, "cancelled", 0, s.prio[p])
<1>1. GuardCancel(s, p, g) = IF k = 0 \/ mine = {} THEN s ELSE u
  BY DEF GuardCancel
<1>2. mine \in SUBSET s.queue[g]
  BY DEF Entries
<1> HIDE DEF mine, k
<1>3. QueueOK(Q)
  BY <1>2, QueueLeave DEF Steady, QueuesOK
<1> HIDE DEF Q
<1>4. Calm(s, t)
  BY <1>3, QueueAt
<1> HIDE DEF t
<1>5. "cancelled" \in Kinds /\ 0 \in Int /\ s.prio[p] \in Int
  BY DEF Kinds, Steady
<1>6. Calm(t, u)
  BY <1>4, <1>5, ScheduleCalm DEF Calm
<1> HIDE DEF u
<1>7. Calm(s, s)
  BY DEF Calm, Still, Aside, Foreign
<1>. QED BY <1>1, <1>4, <1>6, <1>7, CalmTransitive

(* What a process waits for is cancelled, or follows its priority.         *)
(* cmi_process_cancel_awaiteds up to the signal.                           *)
Relieved(s, p) ==
  LET g    == s.ticket[p].guard
      mine == IF g = NoOne THEN {} ELSE Entries(s, g, s.ticket[p].key)
  IN  [CancelEvents(s, Swept(s, p)) EXCEPT
         !.timers[p] = {},
         !.ticket[p] = NoTicket,
         !.joins[p]  = NoOne,
         !.queue     = [h \in Guard |-> IF h = g THEN Leave(@[h], mine)
                                           ELSE @[h]],
         !.waiters   = [q \in Process |->
                          IF q = s.joins[p] THEN Unlink(@[q], p)
                          ELSE @[q]]]

LEMMA RelievedCalm ==
  ASSUME NEW s, Steady(s), NEW p \in Process
  PROVE  Calm(s, Relieved(s, p))
<1> DEFINE g == s.ticket[p].guard
           mine == IF g = NoOne THEN {} ELSE Entries(s, g, s.ticket[p].key)
           a == CancelEvents(s, Swept(s, p))
           b == [a EXCEPT !.timers = [a.timers EXCEPT ![p] = {}]]
           c == [b EXCEPT !.ticket = [b.ticket EXCEPT ![p] = NoTicket]]
           d == [c EXCEPT !.joins = [c.joins EXCEPT ![p] = NoOne]]
           queue == [h \in Guard |-> IF h = g THEN Leave(d.queue[h], mine)
                                        ELSE d.queue[h]]
           e == [d EXCEPT !.queue = queue]
           lists == [q \in Process |-> IF q = s.joins[p] THEN Unlink(e.waiters[q], p)
                                       ELSE e.waiters[q]]
           t == [e EXCEPT !.waiters = lists]
<1>1. Relieved(s, p) = t
  BY DEF Relieved
<1>2. g \in Guard \cup {NoOne}
  BY DEF Steady, TicketsOK, TicketOK
<1>3. g \in Guard => mine \in SUBSET s.queue[g]
  BY DEF Entries
<1>4. Swept(s, p) \in SUBSET s.agenda
  BY DEF Swept, TimerEvents
<1>5. a.queue = s.queue
  BY DEF CancelEvents, Steady, Fields
<1> HIDE DEF mine, g
<1>6. Calm(s, a)
  BY <1>4, CancelEventsCalm
<1> HIDE DEF a
<1>7. Calm(a, b) /\ b.queue = s.queue
  <2>1. Steady(a)
    BY <1>6 DEF Calm
  <2>2. b.queue = s.queue
    BY <1>5, <2>1 DEF Steady, Fields
  <2>. QED BY <2>1, <2>2, FreeSet
<1> HIDE DEF b
<1>8. TicketOK(NoTicket)
  BY DEF TicketOK, NoTicket
<1>9. Calm(b, c)
  BY <1>7, <1>8, TicketAt DEF Calm
<1>10. c.queue = s.queue
  BY <1>7 DEF Calm, Steady, Fields
<1> HIDE DEF c
<1>11. Calm(c, d) /\ d.queue = s.queue
  <2>1. Steady(c)
    BY <1>9 DEF Calm
  <2>2. d.queue = s.queue
    BY <1>10, <2>1 DEF Steady, Fields
  <2>. QED BY <2>1, <2>2, FreeSet
<1> HIDE DEF d
<1>12. QueuesOK(queue)
  <2>1. QueuesOK(d.queue)
    BY <1>11 DEF Calm, Steady
  <2>2. ASSUME NEW h \in Guard PROVE QueueOK(queue[h])
    BY <1>3, <1>11, <2>1, QueueLeave DEF QueuesOK
  <2>. QED BY <2>2 DEF QueuesOK
<1> HIDE DEF queue
<1>13. Calm(d, e)
  BY <1>11, <1>12, QueueSet DEF Calm
<1> HIDE DEF e
<1>14. lists \in [Process -> Seq(Process)]
  <2>1. e.waiters \in [Process -> Seq(Process)]
    BY <1>13 DEF Calm, Steady
  <2>2. \A q \in Process : Unlink(e.waiters[q], p) \in Seq(Process)
    BY <2>1, UnlinkKeeps
  <2>. QED BY <2>1, <2>2
<1> HIDE DEF lists
<1>15. Calm(e, t)
  BY <1>13, <1>14, WaitersSet DEF Calm
<1> HIDE DEF t
<1>16. Calm(s, t)
  BY <1>6, <1>7, <1>9, <1>11, <1>13, <1>15, CalmTransitive
<1>. QED BY <1>1, <1>16

LEMMA CancelAwaitedsIs ==
  ASSUME NEW s, NEW p
  PROVE  LET g    == s.ticket[p].guard
             mine == IF g = NoOne THEN {} ELSE Entries(s, g, s.ticket[p].key)
             t    == Relieved(s, p)
         IN  CancelAwaiteds(s, p) = IF g # NoOne /\ mine = {} THEN Signal(t, g) ELSE t
  BY DEF CancelAwaiteds, Relieved

LEMMA CancelAwaitedsCalm ==
  ASSUME NEW s, Steady(s), NEW p \in Process
  PROVE  Calm(s, CancelAwaiteds(s, p))
<1> DEFINE t == Relieved(s, p)
<1>1. Calm(s, t)
  BY RelievedCalm
<1> HIDE DEF t
<1>2. \A g \in Guard : Calm(t, Signal(t, g))
  BY <1>1, SignalCalm DEF Calm
<1>3. s.ticket[p].guard \in Guard \cup {NoOne}
  BY DEF Steady, TicketsOK, TicketOK
<1>4. \/ CancelAwaiteds(s, p) = t
      \/ s.ticket[p].guard # NoOne /\ CancelAwaiteds(s, p) = Signal(t, s.ticket[p].guard)
  BY CancelAwaitedsIs DEF t
<1>. QED BY <1>1, <1>2, <1>3, <1>4, CalmTransitive

LEMMA PrioritySetSteady ==
  ASSUME NEW s, Steady(s), NEW p \in Process, NEW pri \in Int
  PROVE  LET t == PrioritySet(s, p, pri)
         IN  /\ Steady(t) /\ Foreign(s, t) /\ t.prio = [s.prio EXCEPT ![p] = pri]
             /\ t.status = s.status /\ t.running = s.running /\ t.call = s.call
<1> DEFINE g == s.ticket[p].guard
           mine == IF g = NoOne THEN {} ELSE Entries(s, g, s.ticket[p].key)
           due == TimerEvents(s, p, s.timers[p])
           a == [s EXCEPT !.prio = [s.prio EXCEPT ![p] = pri]]
           A == {IF e \in due THEN [e EXCEPT !.prio = pri] ELSE e : e \in a.agenda}
           F == [e \in a.agenda |-> IF e \in due THEN [e EXCEPT !.prio = pri] ELSE e]
           b == [a EXCEPT !.agenda = A]
           Raised(Q) == {IF w \in mine THEN [w EXCEPT !.prio = pri] ELSE w : w \in Q}
           G(Q) == [w \in Q |-> IF w \in mine THEN [w EXCEPT !.prio = pri] ELSE w]
           queue == [h \in Guard |-> IF h # g THEN b.queue[h] ELSE Raised(b.queue[h])]
           t == [b EXCEPT !.queue = queue]
           holds == /\ g = NoOne \/ mine # {}
                    /\ \A k \in s.timers[p] : TimerEvents(s, p, {k}) # {}
           u == Asserted(t, holds, "priority_set")
<1>1. PrioritySet(s, p, pri) = u
  BY DEF PrioritySet
<1> HIDE DEF mine, due, g, holds
<1>2. /\ Steady(a) /\ Foreign(s, a) /\ a.prio = [s.prio EXCEPT ![p] = pri]
      /\ a.status = s.status /\ a.running = s.running /\ a.call = s.call
  <2>1. [s.prio EXCEPT ![p] = pri] \in [Process -> Int]
    BY DEF Steady
  <2>. QED BY <2>1, PrioSet
<1> HIDE DEF a
<1>3. AgendaOK(A)
  <2>1. AgendaOK(a.agenda)
    BY <1>2 DEF Calm, Steady
  <2>2. F \in [a.agenda -> A] /\ \A f \in A : \E e \in a.agenda : f = F[e]
    OBVIOUS
  <2>3. ASSUME NEW e \in a.agenda PROVE EventOK(F[e]) /\ F[e].tag = e.tag
    <3>1. EventOK(e)
      BY <2>1 DEF AgendaOK
    <3>2. EventOK([e EXCEPT !.prio = pri]) /\ [e EXCEPT !.prio = pri].tag = e.tag
      BY <3>1 DEF EventOK, EventFields
    <3>. QED BY <3>1, <3>2
  <2> HIDE DEF A, F
  <2>. QED BY <2>1, <2>2, <2>3, AgendaChanged
<1> HIDE DEF A
<1>4. Calm(a, b)
  BY <1>2, <1>3, AgendaSet DEF Calm
<1> HIDE DEF b
<1>5. ASSUME NEW Q, QueueOK(Q) PROVE QueueOK(Raised(Q))
  <2> DEFINE T == Raised(Q)
             H == G(Q)
  <2>1. H \in [Q -> T] /\ \A v \in T : \E w \in Q : v = H[w]
    OBVIOUS
  <2>2. ASSUME NEW w \in Q PROVE EntryOK(H[w]) /\ H[w].tag = w.tag
    <3>1. EntryOK(w)
      BY <1>5 DEF QueueOK
    <3>2. EntryOK([w EXCEPT !.prio = pri]) /\ [w EXCEPT !.prio = pri].tag = w.tag
      BY <3>1 DEF EntryOK, EntryFields
    <3>. QED BY <3>1, <3>2
  <2> HIDE DEF T, H
  <2>3. QueueOK(T)
    BY <1>5, <2>1, <2>2, QueueChanged
  <2>. QED BY <2>3 DEF T
<1> HIDE DEF Raised
<1>6. QueuesOK(queue)
  <2>1. QueuesOK(b.queue)
    BY <1>4 DEF Calm, Steady
  <2>. QED BY <1>5, <2>1 DEF QueuesOK
<1> HIDE DEF queue
<1>7. Calm(b, t)
  BY <1>4, <1>6, QueueSet DEF Calm
<1> HIDE DEF t
<1>8. Calm(t, u)
  BY <1>7, AssertedCalm DEF Calm
<1> HIDE DEF u
<1>9. Calm(a, u)
  BY <1>4, <1>7, <1>8, CalmTransitive
<1>. QED BY <1>1, <1>2, <1>9 DEF Calm, Still, Aside, Foreign

-----------------------------------------------------------------------------
(* How a trial begins: one start event for each of some processes, in some *)
(* order.                                                                  *)
FirstEvent(order, prio, p) ==
  [kind |-> "start", proc |-> p, key |-> 0, sig |-> "success", delay |-> 0,
   prio |-> prio[p], tag |-> order[p]]

FirstAgenda(starters, order, prio) == {FirstEvent(order, prio, p) : p \in starters}

Ordered(starters, order) ==
  /\ order \in [starters -> 1..Cardinality(starters)]
  /\ \A p, q \in starters : p # q => order[p] # order[q]

LEMMA FirstAgendaOK ==
  ASSUME IsFiniteSet(Process), NEW S \in SUBSET Process, NEW order, Ordered(S, order),
         NEW prio \in [Process -> Int]
  PROVE  AgendaOK(FirstAgenda(S, order, prio))
<1> DEFINE A == FirstAgenda(S, order, prio)
           F == [p \in S |-> FirstEvent(order, prio, p)]
<1>1. F \in [S -> A] /\ \A f \in A : \E p \in S : f = F[p]
  BY DEF FirstAgenda
<1>2. \A p \in S : EventOK(F[p]) /\ F[p].tag = order[p]
  BY DEF FirstEvent, EventOK, EventFields, Kinds
<1> HIDE DEF F, A
<1>3. \A p \in S : "tag" \in DOMAIN F[p] /\ F[p].tag \in 1..Cardinality(S)
  BY <1>2 DEF EventOK, EventFields, Ordered
<1>4. \A p, q \in S : F[p].tag = F[q].tag => p = q
  BY <1>2 DEF Ordered
<1>5. IsFiniteSet(S)
  BY FS_Subset
<1>6. Numbered(A)
  BY <1>1, <1>3, <1>4, <1>5, NumberedImage
<1>7. \A f \in A : EventOK(f)
  BY <1>1, <1>2
<1>. QED BY <1>6, <1>7 DEF AgendaOK, A

(* Nobody waits for anything.                                              *)
Fresh(s) ==
  /\ s.queue = [g \in Guard |-> {}] /\ s.observers = [g \in Guard |-> <<>>]
  /\ s.call = [p \in Process |-> Idle] /\ s.ticket = [p \in Process |-> NoTicket]
  /\ s.waiters = [p \in Process |-> <<>>] /\ DOMAIN s.status = Process

LEMMA FreshSteady ==
  ASSUME NEW s, Fields \subseteq DOMAIN s, s = [f \in DOMAIN s |-> s[f]],
         AgendaOK(s.agenda), s.prio \in [Process -> Int], Fresh(s)
  PROVE  Steady(s)
<1>1. QueuesOK(s.queue)
  <2>1. QueueOK({})
    BY NumberedEmpty DEF QueueOK
  <2>. QED BY <2>1 DEF QueuesOK, Fresh
<1>2. CallsOK(s.call) /\ TicketsOK(s.ticket)
  BY DEF CallsOK, CallOK, Idle, Unguarded, TicketsOK, TicketOK, NoTicket, Fresh
<1>3. s.waiters \in [Process -> Seq(Process)] /\ \A g \in Guard : s.observers[g] = <<>>
  BY DEF Fresh
<1>. QED BY <1>1, <1>2, <1>3 DEF Steady, Fresh

=============================================================================
