--------------------------- MODULE ResourceProofs ---------------------------
(***************************************************************************)
(* Proofs about ResourceSystem: that the two records of who holds what     *)
(* always agree, whatever the processes do to each other; and, in a second *)
(* part with an introduction of its own, that waits end as they should.    *)
(*                                                                         *)
(* HolderListed is not inductive.  What an event does depends on the call  *)
(* that its process is blocked in, and on what it waits for, so the state  *)
(* has to be steady; and a grab by a process that runs keeps the holders   *)
(* alive only because whoever runs is alive.                               *)
(*                                                                         *)
(* The first part is about the calls of the kernel (module ProcessKernel,  *)
(* as ResourceSystem instantiates it): they leave a trial steady, and      *)
(* leave alone who holds what and who is alive.  Steadiness is what makes  *)
(* them well defined.  The dispatcher executes the first event of the      *)
(* agenda, and a guard grants the front entry of its queue: that there is  *)
(* such an event or entry, and that it is about a process, holds only as   *)
(* long as the agenda and the queues are numbered 1..n in the order of     *)
(* their insertion, through every insertion, removal, sweep and change of  *)
(* priority.                                                               *)
(***************************************************************************)
EXTENDS ResourceSystem, FiniteSetTheorems, FunctionTheorems, SequenceTheorems,
        WellFoundedInduction, TLAPS

-----------------------------------------------------------------------------
(* Numbered sets: the agenda, and the queue of a guard.                    *)
Numbered(S) ==
  /\ IsFiniteSet(S)
  /\ \A e \in S : "tag" \in DOMAIN e /\ e.tag \in 1..Cardinality(S)
  /\ \A e, f \in S : e.tag = f.tag => e = f

LEMMA NumberedEmpty == Numbered({})
  BY FS_EmptySet DEF Numbered

(* A renaming of the elements of a set that gives them numbers.            *)
LEMMA NumberedImage ==
  ASSUME NEW S, IsFiniteSet(S), NEW T, NEW F \in [S -> T],
         \A t \in T : \E e \in S : t = F[e],
         \A e \in S : "tag" \in DOMAIN F[e] /\ F[e].tag \in 1..Cardinality(S),
         \A e, f \in S : F[e].tag = F[f].tag => e = f
  PROVE  Numbered(T) /\ Cardinality(T) = Cardinality(S)
<1>1. F \in Bijection(S, T)
  BY DEF Bijection, Injection, Surjection, IsInjective
<1>2. ExistsBijection(S, T)
  BY <1>1 DEF ExistsBijection
<1>3. IsFiniteSet(T) /\ Cardinality(T) = Cardinality(S)
  BY <1>2, FS_Bijection
<1>4. ASSUME NEW t \in T
      PROVE  "tag" \in DOMAIN t /\ t.tag \in 1..Cardinality(T)
  BY <1>3
<1>5. ASSUME NEW t \in T, NEW u \in T, t.tag = u.tag
      PROVE  t = u
  <2>1. PICK e \in S : t = F[e]
    OBVIOUS
  <2>2. PICK f \in S : u = F[f]
    OBVIOUS
  <2>3. QED BY <1>5, <2>1, <2>2
<1>. QED BY <1>3, <1>4, <1>5 DEF Numbered

(* Every number is given to an element.                                    *)
LEMMA NumberedOnto ==
  ASSUME NEW S, Numbered(S), NEW k \in 1..Cardinality(S)
  PROVE  \E e \in S : e.tag = k
<1> DEFINE n == Cardinality(S)
           F == [e \in S |-> e.tag]
<1>1. IsFiniteSet(S) /\ n \in Nat
  BY FS_CardinalityType DEF Numbered
<1>2. F \in Injection(S, 1..n)
  BY DEF Numbered, Injection, IsInjective
<1>3. IsFiniteSet(1..n) /\ Cardinality(1..n) = n
  BY <1>1, FS_Interval
<1> HIDE DEF n
<1>4. F \in Surjection(S, 1..n)
  BY <1>2, <1>3, FS_Injection DEF n
<1>. QED BY <1>4 DEF Surjection, n

(* At most as many elements as there are numbers between two.              *)
Between(T, a, b) == \A g \in T : a < g.tag /\ g.tag < b

LEMMA CountBetween ==
  ASSUME NEW S, Numbered(S), NEW T \in SUBSET S, NEW a \in Int, NEW b \in Int,
         a < b, Between(T, a, b)
  PROVE  IsFiniteSet(T) /\ Cardinality(T) \in Nat /\ Cardinality(T) <= b - a - 1
<1> DEFINE F == [g \in T |-> g.tag]
           I == (a + 1)..(b - 1)
<1>1. \A g \in S : g.tag \in Int
  <2>1. Cardinality(S) \in Nat
    BY FS_CardinalityType DEF Numbered
  <2>. QED BY <2>1 DEF Numbered
<1>2. F \in Injection(T, I)
  BY <1>1 DEF Numbered, Between, Injection, IsInjective
<1>3. IsFiniteSet(I) /\ Cardinality(I) = b - a - 1
  <2> DEFINE low == a + 1
             high == b - 1
  <2>1. low \in Int /\ high \in Int
    OBVIOUS
  <2>2. (IF low > high THEN 0 ELSE high - low + 1) = b - a - 1
    OBVIOUS
  <2> HIDE DEF low, high
  <2>3. IsFiniteSet(low..high)
        /\ Cardinality(low..high) = IF low > high THEN 0 ELSE high - low + 1
    BY <2>1, FS_Interval
  <2>. QED BY <2>2, <2>3 DEF low, high
<1> HIDE DEF I
<1>4. IsFiniteSet(T) /\ Cardinality(T) <= b - a - 1
  BY <1>2, <1>3, FS_Injection
<1>. QED BY <1>4, FS_CardinalityType

LEMMA DisjointCount ==
  ASSUME NEW A, NEW B, IsFiniteSet(A), IsFiniteSet(B), A \cap B = {}
  PROVE  /\ IsFiniteSet(A \cup B)
         /\ Cardinality(A \cup B) = Cardinality(A) + Cardinality(B)
<1>1. Cardinality(A) \in Nat /\ Cardinality(B) \in Nat /\ Cardinality(A \cap B) = 0
  BY FS_CardinalityType, FS_EmptySet
<1>2. IsFiniteSet(A \cup B)
      /\ Cardinality(A \cup B) = Cardinality(A) + Cardinality(B) - Cardinality(A \cap B)
  BY FS_Union
<1>. QED BY <1>1, <1>2

(* One that enters comes last.                                             *)
LEMMA EnterNumbered ==
  ASSUME NEW S, Numbered(S), NEW e, "tag" \in DOMAIN e
  PROVE  /\ Numbered(Enter(S, e))
         /\ Cardinality(Enter(S, e)) = Cardinality(S) + 1
<1> DEFINE n == Cardinality(S)
           x == [e EXCEPT !.tag = n + 1]
<1>1. IsFiniteSet(S) /\ n \in Nat
  BY FS_CardinalityType DEF Numbered
<1>2. "tag" \in DOMAIN x /\ x.tag = n + 1
  OBVIOUS
<1>3. Enter(S, e) = S \cup {x}
  BY DEF Enter
<1> HIDE DEF x
<1>4. x \notin S
  BY <1>1, <1>2 DEF Numbered
<1>5. IsFiniteSet(S \cup {x}) /\ Cardinality(S \cup {x}) = n + 1
  BY <1>1, <1>4, FS_AddElement
<1> HIDE DEF n
<1>6. \A f \in S : "tag" \in DOMAIN f /\ f.tag \in 1..n
  BY DEF Numbered, n
<1>7. Numbered(S \cup {x})
  <2>1. \A f \in S \cup {x} : "tag" \in DOMAIN f /\ f.tag \in 1..(n + 1)
    BY <1>1, <1>2, <1>6
  <2>2. \A f, g \in S \cup {x} : f.tag = g.tag => f = g
    BY <1>1, <1>2, <1>6 DEF Numbered
  <2>. QED BY <1>5, <2>1, <2>2 DEF Numbered
<1>. QED BY <1>3, <1>5, <1>7 DEF n

(* Several enter at once, numbered on from those that are there.           *)
LEMMA ExtendNumbered ==
  ASSUME NEW S, Numbered(S), NEW T, IsFiniteSet(T),
         \A t \in T : /\ "tag" \in DOMAIN t
                      /\ \E i \in 1..Cardinality(T) : t.tag = Cardinality(S) + i,
         \A t, u \in T : t.tag = u.tag => t = u
  PROVE  Numbered(S \cup T)
<1> DEFINE n == Cardinality(S)
           m == Cardinality(T)
<1>1. IsFiniteSet(S) /\ n \in Nat /\ m \in Nat
  BY FS_CardinalityType DEF Numbered
<1>2. \A f \in S : "tag" \in DOMAIN f /\ f.tag \in 1..n
  BY DEF Numbered
<1>3. \A t \in T : "tag" \in DOMAIN t /\ t.tag \in (n + 1)..(n + m)
  BY <1>1
<1>4. S \cap T = {}
  BY <1>1, <1>2, <1>3
<1>5. IsFiniteSet(S \cup T) /\ Cardinality(S \cup T) = n + m
  BY <1>1, <1>4, DisjointCount
<1> HIDE DEF n, m
<1>6. \A f \in S \cup T : "tag" \in DOMAIN f /\ f.tag \in 1..(n + m)
  BY <1>1, <1>2, <1>3
<1>7. \A f, g \in S \cup T : f.tag = g.tag => f = g
  BY <1>1, <1>2, <1>3 DEF Numbered
<1>. QED BY <1>5, <1>6, <1>7 DEF Numbered

(* Those that are left are numbered again, without gaps.                   *)
LEMMA LeaveNumbered ==
  ASSUME NEW S, Numbered(S), NEW gone \in SUBSET S
  PROVE  Numbered(Leave(S, gone))
<1> DEFINE n == Cardinality(S)
           left == S \ gone
           Lower(e) == {g \in gone : g.tag < e.tag}
           c(e) == Cardinality(Lower(e))
           F == [e \in left |-> [e EXCEPT !.tag = e.tag - c(e)]]
<1>1. /\ IsFiniteSet(S) /\ n \in Nat
      /\ IsFiniteSet(gone) /\ Cardinality(gone) \in Nat
      /\ IsFiniteSet(left) /\ Cardinality(left) = n - Cardinality(gone)
  <2>1. IsFiniteSet(S) /\ n \in Nat
    BY FS_CardinalityType DEF Numbered
  <2>2. IsFiniteSet(gone) /\ Cardinality(gone) \in Nat
    BY <2>1, FS_Subset, FS_CardinalityType
  <2>3. S \cap gone = gone
    OBVIOUS
  <2>4. IsFiniteSet(left) /\ Cardinality(left) = n - Cardinality(gone)
    BY <2>1, <2>3, FS_Difference
  <2>. QED BY <2>1, <2>2, <2>4
<1>2. \A e \in S : "tag" \in DOMAIN e /\ e.tag \in 1..n /\ e.tag \in Int
  BY <1>1 DEF Numbered
<1>3. \A e \in left : Lower(e) \in SUBSET S /\ Between(Lower(e), 0, e.tag)
  BY <1>2 DEF Between
<1>4. Leave(S, gone) = {F[e] : e \in left}
  BY DEF Leave
<1>5. \A e \in left : "tag" \in DOMAIN F[e] /\ F[e].tag = e.tag - c(e)
  BY <1>2
<1>6. ASSUME NEW e \in left
      PROVE  IsFiniteSet(Lower(e)) /\ c(e) \in Nat /\ c(e) <= e.tag - 1
  <2> DEFINE L == Lower(e)
  <2>1. 0 < e.tag /\ e.tag \in Int
    BY <1>2
  <2>2. L \in SUBSET S /\ Between(L, 0, e.tag)
    BY <1>3
  <2> HIDE DEF L
  <2>3. IsFiniteSet(L) /\ Cardinality(L) \in Nat /\ Cardinality(L) <= e.tag - 0 - 1
    BY <2>1, <2>2, CountBetween
  <2>4. Cardinality(L) <= e.tag - 1
    BY <2>1, <2>3
  <2>. QED BY <2>3, <2>4 DEF L
<1>7. ASSUME NEW e \in left, NEW f \in left, e.tag < f.tag
      PROVE  e.tag - c(e) < f.tag - c(f)
  <2> DEFINE Mid == {g \in gone : e.tag < g.tag /\ g.tag < f.tag}
             L == Lower(e)
             M == Lower(f)
  <2>1. e.tag \in Int /\ f.tag \in Int
    BY <1>2
  <2>2. M = L \cup Mid /\ L \cap Mid = {}
    <3>1. \A g \in gone : g.tag # e.tag /\ g.tag \in Int
      BY <1>2 DEF Numbered
    <3>. QED BY <1>7, <2>1, <3>1
  <2>3. Mid \in SUBSET S /\ Between(Mid, e.tag, f.tag)
    BY DEF Between
  <2> HIDE DEF Mid
  <2>4. /\ IsFiniteSet(Mid) /\ Cardinality(Mid) \in Nat
        /\ Cardinality(Mid) <= f.tag - e.tag - 1
    BY <1>7, <2>1, <2>3, CountBetween
  <2>5. IsFiniteSet(L) /\ Cardinality(L) \in Nat
    BY <1>6
  <2> HIDE DEF L, M
  <2>6. Cardinality(M) = Cardinality(L) + Cardinality(Mid)
    BY <2>2, <2>4, <2>5, DisjointCount
  <2>7. e.tag - Cardinality(L) < f.tag - Cardinality(M)
    BY <2>1, <2>4, <2>5, <2>6
  <2>. QED BY <2>7 DEF L, M
<1>8. ASSUME NEW e \in left
      PROVE  e.tag - c(e) \in 1..Cardinality(left)
  <2> DEFINE Upper == {g \in gone : e.tag < g.tag /\ g.tag < n + 1}
             L == Lower(e)
  <2>1. e.tag \in 1..n /\ e.tag \in Int /\ n + 1 \in Int /\ e.tag < n + 1
    BY <1>1, <1>2
  <2>2. gone = L \cup Upper /\ L \cap Upper = {}
    <3>1. \A g \in gone : g.tag # e.tag /\ g.tag \in 1..n
      BY <1>2 DEF Numbered
    <3>. QED BY <1>1, <2>1, <3>1
  <2>3. Upper \in SUBSET S /\ Between(Upper, e.tag, n + 1)
    BY DEF Between
  <2> HIDE DEF Upper
  <2>4. IsFiniteSet(L) /\ Cardinality(L) \in Nat /\ Cardinality(L) <= e.tag - 1
    BY <1>6
  <2> HIDE DEF L, n
  <2>5. IsFiniteSet(Upper) /\ Cardinality(Upper) \in Nat
        /\ Cardinality(Upper) <= (n + 1) - e.tag - 1
    BY <2>1, <2>3, CountBetween
  <2>6. Cardinality(gone) = Cardinality(L) + Cardinality(Upper)
    BY <2>2, <2>4, <2>5, DisjointCount
  <2>7. Cardinality(left) = n - Cardinality(gone)
    BY <1>1
  <2> HIDE DEF left
  <2>8. e.tag - Cardinality(L) \in 1..Cardinality(left)
    BY <1>1, <2>1, <2>4, <2>5, <2>6, <2>7
  <2>. QED BY <2>8 DEF L
<1> HIDE DEF c, left, n
<1>9. ASSUME NEW e \in left, NEW f \in left, F[e].tag = F[f].tag
      PROVE  e = f
  <2>1. e \in S /\ f \in S /\ e.tag \in Int /\ f.tag \in Int
    BY <1>2 DEF left
  <2>2. c(e) \in Nat /\ c(f) \in Nat
    BY <1>6
  <2>3. ~(e.tag < f.tag) /\ ~(f.tag < e.tag)
    BY <1>7, <1>5, <1>9, <2>1, <2>2
  <2>. QED BY <2>1, <2>3 DEF Numbered
<1> DEFINE T == {F[e] : e \in left}
<1>10. F \in [left -> T] /\ \A t \in T : \E e \in left : t = F[e]
  OBVIOUS
<1>11. \A e \in left : "tag" \in DOMAIN F[e] /\ F[e].tag \in 1..Cardinality(left)
  BY <1>8, <1>5
<1> HIDE DEF F, T
<1>12. Numbered(T)
  BY <1>1, <1>9, <1>10, <1>11, NumberedImage
<1>. QED BY <1>4, <1>12 DEF T

(* Enough for a first element: there are finitely many, and each comes     *)
(* before each other one or after it.                                      *)
Orders(R, S) ==
  /\ \A e, f \in S : e # f => <<e, f>> \in R \/ <<f, e>> \in R
  /\ \A e, f, g \in S : <<e, f>> \in R /\ <<f, g>> \in R => <<e, g>> \in R
  /\ \A e \in S : <<e, e>> \notin R

LEMMA LeastNatural ==
  ASSUME NEW T \in SUBSET Nat, T # {}
  PROVE  \E x \in T : \A y \in T : x <= y
<1> DEFINE R == OpToRel(<, Nat)
<1>1. IsWellFoundedOn(R, Nat)
  BY NatLessThanWellFounded
<1>2. \A x, y \in Nat : x < y => <<x, y>> \in R
  BY DEF OpToRel
<1> HIDE DEF R
<1>3. PICK x \in T : \A y \in T : ~(<<y, x>> \in R)
  BY <1>1, WFMin
<1>4. \A y \in T : ~(y < x)
  BY <1>2, <1>3
<1>. QED BY <1>4

LEMMA Earliest ==
  ASSUME NEW S, IsFiniteSet(S), S # {}, NEW R, Orders(R, S)
  PROVE  \E e \in S : \A f \in S \ {e} : <<e, f>> \in R
<1> DEFINE Earlier(e) == {f \in S : <<f, e>> \in R}
           N == {Cardinality(Earlier(e)) : e \in S}
<1>1. \A e \in S : Earlier(e) \in SUBSET S
  OBVIOUS
<1>2. ASSUME NEW A \in SUBSET S PROVE IsFiniteSet(A) /\ Cardinality(A) \in Nat
  BY FS_Subset, FS_CardinalityType
<1>3. N \in SUBSET Nat /\ N # {}
  BY <1>1, <1>2
<1> HIDE DEF N
<1>4. PICK n \in N : \A m \in N : n <= m
  BY <1>3, LeastNatural
<1>5. PICK e \in S : n = Cardinality(Earlier(e))
  BY DEF N
<1>6. ASSUME NEW f \in S, <<f, e>> \in R PROVE FALSE
  <2> DEFINE A == Earlier(e)
             B == Earlier(f)
  <2>1. B \in SUBSET A /\ f \in A /\ f \notin B
    BY <1>6 DEF Orders
  <2>2. Cardinality(A) = n /\ Cardinality(B) \in N
    BY <1>5 DEF N
  <2>3. A \in SUBSET S
    OBVIOUS
  <2> HIDE DEF A, B
  <2>4. IsFiniteSet(A) /\ Cardinality(A) \in Nat
    BY <1>2, <2>3
  <2>5. Cardinality(B) \in Nat /\ Cardinality(B) < Cardinality(A)
    BY <2>1, <2>4, FS_Subset, FS_CardinalityType
  <2>. QED BY <1>4, <2>2, <2>4, <2>5
<1>7. \A f \in S \ {e} : <<e, f>> \in R
  BY <1>6 DEF Orders
<1>. QED BY <1>7

-----------------------------------------------------------------------------
(* Lists.                                                                  *)
Never(ws, x) == \A i \in 1..Len(ws) : ws[i] # x
Once(ws, x) ==
  \E i \in 1..Len(ws) : ws[i] = x /\ \A j \in 1..Len(ws) : ws[j] = x => j = i

LEMMA Prepended ==
  ASSUME NEW S, NEW ws \in Seq(S), NEW x \in S, NEW t, t = <<x>> \o ws
  PROVE  /\ t \in Seq(S) /\ Len(t) = Len(ws) + 1 /\ t[1] = x
         /\ \A i \in 2..Len(t) : t[i] = ws[i - 1]
  OBVIOUS

(* Prepending lists the new member, and changes nothing for the others.    *)
LEMMA PrependKeeps ==
  ASSUME NEW S, NEW ws \in Seq(S), NEW x \in S
  PROVE  /\ <<x>> \o ws \in Seq(S)
         /\ Never(ws, x) => Once(<<x>> \o ws, x)
         /\ \A y : y # x => /\ Never(ws, y) => Never(<<x>> \o ws, y)
                            /\ Once(ws, y) => Once(<<x>> \o ws, y)
<1> DEFINE t == <<x>> \o ws
<1>1. /\ t \in Seq(S) /\ Len(t) = Len(ws) + 1 /\ t[1] = x
      /\ \A i \in 2..Len(t) : t[i] = ws[i - 1]
  BY Prepended
<1> HIDE DEF t
<1>2. Len(ws) \in Nat
  OBVIOUS
<1>3. \A i \in 1..Len(t) : i = 1 \/ (i - 1 \in 1..Len(ws) /\ t[i] = ws[i - 1])
  BY <1>1, <1>2
<1>4. \A i \in 1..Len(ws) : i + 1 \in 1..Len(t) /\ t[i + 1] = ws[i] /\ i + 1 # 1
  BY <1>1, <1>2
<1>5. 1 \in 1..Len(t)
  BY <1>1, <1>2
<1>6. Never(ws, x) => Once(t, x)
  BY <1>1, <1>3, <1>5 DEF Never, Once
<1>7. ASSUME NEW y, y # x, Never(ws, y) PROVE Never(t, y)
  BY <1>1, <1>3, <1>7 DEF Never
<1>8. ASSUME NEW y, y # x, Once(ws, y) PROVE Once(t, y)
  <2>1. PICK i \in 1..Len(ws) : ws[i] = y /\ \A j \in 1..Len(ws) : ws[j] = y => j = i
    BY <1>8 DEF Once
  <2>2. i + 1 \in 1..Len(t) /\ t[i + 1] = y
    BY <1>4, <2>1
  <2>3. ASSUME NEW j \in 1..Len(t), t[j] = y PROVE j = i + 1
    <3>1. j - 1 \in 1..Len(ws) /\ ws[j - 1] = y
      BY <1>1, <1>3, <1>8, <2>3
    <3>2. j - 1 = i
      BY <2>1, <3>1
    <3>. QED BY <3>2
  <2>. QED BY <2>2, <2>3 DEF Once
<1>. QED BY <1>1, <1>6, <1>7, <1>8 DEF t

(* A list without its i-th member: where the others are then.              *)
LEMMA WithoutIndex ==
  ASSUME NEW S, NEW ws \in Seq(S), NEW k \in 1..Len(ws)
  PROVE  LET t == SubSeq(ws, 1, k - 1) \o SubSeq(ws, k + 1, Len(ws))
         IN  /\ t \in Seq(S) /\ Len(t) = Len(ws) - 1
             /\ \A i \in 1..Len(t) : t[i] = ws[IF i < k THEN i ELSE i + 1]
<1> DEFINE a == SubSeq(ws, 1, k - 1)
           b == SubSeq(ws, k + 1, Len(ws))
           t == a \o b
<1>1. Len(ws) \in Nat /\ \A i \in 1..Len(ws) : ws[i] \in S
  OBVIOUS
<1>2. a \in Seq(S) /\ Len(a) = k - 1 /\ \A i \in 1..(k - 1) : a[i] = ws[i]
  BY <1>1
<1>3. b \in Seq(S) /\ Len(b) = Len(ws) - k /\ \A i \in 1..(Len(ws) - k) : b[i] = ws[k + i]
  BY <1>1
<1> HIDE DEF a, b
<1>4. /\ t \in Seq(S) /\ Len(t) = Len(a) + Len(b)
           /\ \A i \in 1..(Len(a) + Len(b)) :
                  t[i] = IF i <= Len(a) THEN a[i] ELSE b[i - Len(a)]
  BY <1>2, <1>3, ConcatProperties, Zenon
<1> HIDE DEF t
<1>5. t \in Seq(S) /\ Len(t) = Len(ws) - 1
  BY <1>1, <1>2, <1>3, <1>4
<1>6. ASSUME NEW i \in 1..Len(t)
      PROVE  t[i] = ws[IF i < k THEN i ELSE i + 1]
  <2>1. i \in 1..(Len(ws) - 1)
    BY <1>5
  <2>2. CASE i < k
    <3>1. i \in 1..(k - 1) /\ i <= Len(a) /\ i \in 1..(Len(a) + Len(b))
      BY <1>2, <1>3, <2>1, <2>2
    <3>. QED BY <1>2, <1>4, <2>2, <3>1
  <2>3. CASE ~(i < k)
    <3>1. /\ i - Len(a) \in 1..(Len(ws) - k) /\ ~(i <= Len(a))
          /\ i \in 1..(Len(a) + Len(b)) /\ k + (i - Len(a)) = i + 1
      BY <1>1, <1>2, <1>3, <2>1, <2>3
    <3>. QED BY <1>3, <1>4, <2>3, <3>1
  <2>. QED BY <2>2, <2>3
<1>. QED BY <1>5, <1>6 DEF t, a, b

(* Unlinking takes out one occurrence, and keeps the others.               *)
LEMMA UnlinkKeeps ==
  ASSUME NEW S, NEW ws \in Seq(S), NEW x
  PROVE  /\ Unlink(ws, x) \in Seq(S)
         /\ Once(ws, x) \/ Never(ws, x) => Never(Unlink(ws, x), x)
         /\ \A y : y # x => /\ Never(ws, y) => Never(Unlink(ws, x), y)
                            /\ Once(ws, y) => Once(Unlink(ws, x), y)
<1>1. CASE Occurrence(ws, x) = {}
  <2>1. Unlink(ws, x) = ws
    BY <1>1 DEF Unlink
  <2>2. ~Once(ws, x)
    BY <1>1 DEF Once, Occurrence
  <2>. QED BY <2>1, <2>2
<1>2. CASE Occurrence(ws, x) # {}
  <2> DEFINE k == CHOOSE i \in Occurrence(ws, x) : TRUE
             t == Unlink(ws, x)
             Old(i) == IF i < k THEN i ELSE i + 1
             New(j) == IF j < k THEN j ELSE j - 1
  <2>1. k \in Occurrence(ws, x)
    BY <1>2
  <2>2. t = SubSeq(ws, 1, k - 1) \o SubSeq(ws, k + 1, Len(ws))
    BY <1>2 DEF Unlink
  <2> HIDE DEF k, t
  <2>3. k \in 1..Len(ws) /\ ws[k] = x /\ Len(ws) \in Nat
    BY <2>1 DEF Occurrence
  <2>4. t \in Seq(S) /\ Len(t) = Len(ws) - 1 /\ \A i \in 1..Len(t) : t[i] = ws[Old(i)]
    BY <2>2, <2>3, WithoutIndex
  <2>5. \A i \in 1..Len(t) : Old(i) \in 1..Len(ws) /\ Old(i) # k
    BY <2>3, <2>4
  <2>6. \A i, j \in 1..Len(t) : Old(i) = Old(j) => i = j
    BY <2>3, <2>4
  <2>7. \A j \in 1..Len(ws) : j # k => New(j) \in 1..Len(t) /\ Old(New(j)) = j
    BY <2>3, <2>4
  <2> HIDE DEF Old, New
  <2>8. Once(ws, x) => Never(t, x)
    BY <2>3, <2>4, <2>5 DEF Once, Never
  <2>9. ~Never(ws, x)
    BY <2>3 DEF Never
  <2>10. ASSUME NEW y, Never(ws, y) PROVE Never(t, y)
    BY <2>4, <2>5, <2>10 DEF Never
  <2>11. ASSUME NEW y, y # x, Once(ws, y) PROVE Once(t, y)
    <3>1. PICK i \in 1..Len(ws) : ws[i] = y /\ \A j \in 1..Len(ws) : ws[j] = y => j = i
      BY <2>11 DEF Once
    <3>2. i # k
      BY <2>3, <2>11, <3>1
    <3>3. New(i) \in 1..Len(t) /\ Old(New(i)) = i
      BY <2>7, <3>2
    <3>4. t[New(i)] = y
      BY <2>4, <3>1, <3>3
    <3>5. ASSUME NEW j \in 1..Len(t), t[j] = y PROVE j = New(i)
      <4>1. Old(j) = i
        BY <2>4, <2>5, <3>1, <3>5
      <4>. QED BY <2>6, <3>3, <4>1
    <3>. QED BY <3>3, <3>4, <3>5 DEF Once
  <2>. QED BY <2>4, <2>8, <2>9, <2>10, <2>11 DEF t
<1>. QED BY <1>1, <1>2

-----------------------------------------------------------------------------
(* The agenda.                                                             *)
EventFields == {"kind", "proc", "key", "sig", "delay", "prio", "tag"}

EventOK(e) ==
  /\ DOMAIN e = EventFields
  /\ e.kind \in Kinds /\ e.proc \in Process
  /\ e.delay \in Int /\ e.prio \in Int

AgendaOK(A) == Numbered(A) /\ \A e \in A : EventOK(e)

(* What enters the agenda is an event, and what leaves it leaves events.   *)
LEMMA AgendaEnter ==
  ASSUME NEW A, AgendaOK(A), NEW e, EventOK(e)
  PROVE  AgendaOK(Enter(A, e))
<1>1. "tag" \in DOMAIN e
  BY DEF EventOK, EventFields
<1>2. Numbered(Enter(A, e))
  BY <1>1, EnterNumbered DEF AgendaOK
<1>3. ASSUME NEW n PROVE EventOK([e EXCEPT !.tag = n])
  BY DEF EventOK, EventFields
<1>4. \A f \in Enter(A, e) : EventOK(f)
  BY <1>3 DEF AgendaOK, Enter
<1>. QED BY <1>2, <1>4 DEF AgendaOK

LEMMA AgendaLeave ==
  ASSUME NEW A, AgendaOK(A), NEW gone \in SUBSET A
  PROVE  AgendaOK(Leave(A, gone))
<1>1. Numbered(Leave(A, gone))
  BY LeaveNumbered DEF AgendaOK
<1>2. ASSUME NEW e \in A, NEW n PROVE EventOK([e EXCEPT !.tag = n])
  BY DEF AgendaOK, EventOK, EventFields
<1>3. \A f \in Leave(A, gone) : EventOK(f)
  BY <1>2 DEF Leave
<1>. QED BY <1>1, <1>3 DEF AgendaOK

(* Events that change, but neither their number nor their types.           *)
LEMMA AgendaChanged ==
  ASSUME NEW A, AgendaOK(A), NEW B, NEW F \in [A -> B],
         \A f \in B : \E e \in A : f = F[e],
         \A e \in A : EventOK(F[e]) /\ F[e].tag = e.tag
  PROVE  AgendaOK(B)
<1>1. IsFiniteSet(A) /\ \A e \in A : e.tag \in 1..Cardinality(A)
  BY DEF AgendaOK, Numbered
<1>2. \A e \in A : "tag" \in DOMAIN F[e]
  BY DEF EventOK, EventFields
<1>3. \A e, f \in A : F[e].tag = F[f].tag => e = f
  BY DEF AgendaOK, Numbered
<1>4. Numbered(B)
  BY <1>1, <1>2, <1>3, NumberedImage
<1>. QED BY <1>4 DEF AgendaOK

(* There is a first event (cmb_event_execute_next).                        *)
LEMMA FirstOf ==
  ASSUME NEW A, AgendaOK(A), A # {}
  PROVE  First(A) \in A
<1> DEFINE R == {x \in A \X A : Before(x[1], x[2])}
<1>1. \A e, f \in A : <<e, f>> \in R <=> Before(e, f)
  OBVIOUS
<1> HIDE DEF R
<1>2. Cardinality(A) \in Nat
  BY FS_CardinalityType DEF AgendaOK, Numbered
<1>3. \A e \in A : e.delay \in Int /\ e.prio \in Int /\ e.tag \in Int
  BY <1>2 DEF AgendaOK, Numbered, EventOK
<1>4. \A e, f \in A : e # f => e.tag # f.tag
  BY DEF AgendaOK, Numbered
<1>5. \A e, f \in A : e # f => Before(e, f) \/ Before(f, e)
  BY <1>3, <1>4 DEF Before
<1>6. \A e, f, g \in A : Before(e, f) /\ Before(f, g) => Before(e, g)
  BY <1>3 DEF Before
<1>7. \A e \in A : ~Before(e, e)
  BY <1>3 DEF Before
<1>8. Orders(R, A)
  BY <1>1, <1>5, <1>6, <1>7 DEF Orders
<1>9. PICK e \in A : \A f \in A \ {e} : <<e, f>> \in R
  BY <1>8, Earliest DEF AgendaOK, Numbered
<1>10. \A f \in A \ {e} : Before(e, f)
  BY <1>1, <1>9
<1>. QED BY <1>10 DEF First

(* A sequence of events is appended, F[i] at the place[i]-th place.         *)
Appends(A, I, B, F, place) ==
  /\ IsFiniteSet(I) /\ F \in [I -> B] /\ \A f \in B : \E i \in I : f = F[i]
  /\ place \in [I -> 1..Cardinality(I)]
  /\ \A i, j \in I : place[i] = place[j] => i = j
  /\ \A i \in I : EventOK(F[i]) /\ F[i].tag = Cardinality(A) + place[i]

LEMMA AgendaAppend ==
  ASSUME NEW A, AgendaOK(A), NEW I, NEW B, NEW F, NEW place,
         Appends(A, I, B, F, place)
  PROVE  AgendaOK(A \cup B)
<1>. USE DEF Appends
<1>1. Cardinality(A) \in Nat /\ Cardinality(I) \in Nat
  BY FS_CardinalityType DEF AgendaOK, Numbered
<1>2. \A i \in I : "tag" \in DOMAIN F[i]
  BY DEF EventOK, EventFields
<1>3. \A i, j \in I : F[i].tag = F[j].tag => i = j
  BY <1>1
<1>4. F \in Bijection(I, B)
  BY <1>3 DEF Bijection, Injection, Surjection, IsInjective
<1>5. ExistsBijection(I, B)
  BY <1>4 DEF ExistsBijection
<1>6. IsFiniteSet(B) /\ Cardinality(B) = Cardinality(I)
  BY <1>5, FS_Bijection
<1>7. \A f \in B : /\ "tag" \in DOMAIN f
                   /\ \E n \in 1..Cardinality(B) : f.tag = Cardinality(A) + n
  BY <1>2, <1>6
<1>8. \A f, g \in B : f.tag = g.tag => f = g
  BY <1>3
<1>9. Numbered(A)
  BY DEF AgendaOK
<1>10. Numbered(A \cup B)
  BY <1>6, <1>7, <1>8, <1>9, ExtendNumbered
<1>. QED BY <1>10 DEF AgendaOK

-----------------------------------------------------------------------------
(* The queue of a guard.                                                   *)
EntryFields == {"proc", "key", "prio", "tag"}

EntryOK(w) == DOMAIN w = EntryFields /\ w.proc \in Process /\ w.prio \in Int

QueueOK(Q) == Numbered(Q) /\ \A w \in Q : EntryOK(w)

(* The same for the entries of a queue.                                    *)
LEMMA QueueEnter ==
  ASSUME NEW Q, QueueOK(Q), NEW w, EntryOK(w)
  PROVE  QueueOK(Enter(Q, w))
<1>1. "tag" \in DOMAIN w
  BY DEF EntryOK, EntryFields
<1>2. Numbered(Enter(Q, w))
  BY <1>1, EnterNumbered DEF QueueOK
<1>3. ASSUME NEW n PROVE EntryOK([w EXCEPT !.tag = n])
  BY DEF EntryOK, EntryFields
<1>4. \A v \in Enter(Q, w) : EntryOK(v)
  BY <1>3 DEF QueueOK, Enter
<1>. QED BY <1>2, <1>4 DEF QueueOK

LEMMA QueueLeave ==
  ASSUME NEW Q, QueueOK(Q), NEW gone \in SUBSET Q
  PROVE  QueueOK(Leave(Q, gone))
<1>1. Numbered(Leave(Q, gone))
  BY LeaveNumbered DEF QueueOK
<1>2. ASSUME NEW w \in Q, NEW n PROVE EntryOK([w EXCEPT !.tag = n])
  BY DEF QueueOK, EntryOK, EntryFields
<1>3. \A v \in Leave(Q, gone) : EntryOK(v)
  BY <1>2 DEF Leave
<1>. QED BY <1>1, <1>3 DEF QueueOK

LEMMA QueueChanged ==
  ASSUME NEW Q, QueueOK(Q), NEW T, NEW F \in [Q -> T],
         \A v \in T : \E w \in Q : v = F[w],
         \A w \in Q : EntryOK(F[w]) /\ F[w].tag = w.tag
  PROVE  QueueOK(T)
<1>1. IsFiniteSet(Q) /\ \A w \in Q : w.tag \in 1..Cardinality(Q)
  BY DEF QueueOK, Numbered
<1>2. \A w \in Q : "tag" \in DOMAIN F[w]
  BY DEF EntryOK, EntryFields
<1>3. \A v, w \in Q : F[v].tag = F[w].tag => v = w
  BY DEF QueueOK, Numbered
<1>4. Numbered(T)
  BY <1>1, <1>2, <1>3, NumberedImage
<1>. QED BY <1>4 DEF QueueOK

(* There is a front entry (cmb_resourceguard_signal).                      *)
LEMMA FrontOf ==
  ASSUME NEW s, NEW g, QueueOK(s.queue[g]), s.queue[g] # {}
  PROVE  Front(s, g) \in s.queue[g]
<1> DEFINE Q == s.queue[g]
           Ahead(w, v) == w.prio > v.prio \/ (w.prio = v.prio /\ w.tag < v.tag)
           R == {x \in Q \X Q : Ahead(x[1], x[2])}
<1>1. Front(s, g) = CHOOSE w \in Q : \A v \in Q \ {w} : Ahead(w, v)
  BY DEF Front
<1>2. QueueOK(Q) /\ Q # {}
  OBVIOUS
<1> HIDE DEF Q
<1>3. \A w, v \in Q : <<w, v>> \in R <=> Ahead(w, v)
  OBVIOUS
<1> HIDE DEF R
<1>4. Cardinality(Q) \in Nat
  BY <1>2, FS_CardinalityType DEF QueueOK, Numbered
<1>5. \A w \in Q : w.prio \in Int /\ w.tag \in Int
  BY <1>2, <1>4 DEF QueueOK, Numbered, EntryOK
<1>6. \A w, v \in Q : w # v => w.tag # v.tag
  BY <1>2 DEF QueueOK, Numbered
<1>7. Orders(R, Q)
  <2>1. \A w, v \in Q : w # v => Ahead(w, v) \/ Ahead(v, w)
    BY <1>5, <1>6
  <2>2. \A u, v, w \in Q : Ahead(u, v) /\ Ahead(v, w) => Ahead(u, w)
    BY <1>5
  <2>3. \A w \in Q : ~Ahead(w, w)
    BY <1>5
  <2> HIDE DEF Ahead
  <2>. QED BY <1>3, <2>1, <2>2, <2>3 DEF Orders
<1>8. PICK w \in Q : \A v \in Q \ {w} : <<w, v>> \in R
  BY <1>2, <1>7, Earliest DEF QueueOK, Numbered
<1> HIDE DEF Ahead
<1>9. \A v \in Q \ {w} : Ahead(w, v)
  BY <1>3, <1>8
<1>. QED BY <1>1, <1>9 DEF Q

-----------------------------------------------------------------------------
(* What has to be true of a state so that the calls of the kernel are      *)
(* about events, entries and processes that exist.                         *)
Fields ==
  {"agenda", "running", "status", "prio", "call", "timers", "ticket", "joins",
   "waiters", "queue", "observers", "untold", "failed", "holder", "held"}

QueuesOK(queue) ==
  DOMAIN queue = Resource /\ \A g \in Resource : QueueOK(queue[g])

CallOK(c) ==
  /\ c.fn \in {"none", "hold", "yield", "join", "acquire"}
  /\ c.fn = "acquire" => c.on \in Resource

CallsOK(call) == DOMAIN call = Process /\ \A p \in Process : CallOK(call[p])

TicketOK(t) == t.guard \in Resource \cup {NoOne}

TicketsOK(ticket) ==
  DOMAIN ticket = Process /\ \A p \in Process : TicketOK(ticket[p])

ListsOK(s) ==
  /\ s.waiters \in [Process -> Seq(Process)]
  /\ s.held \in [Process -> Seq(Resource)]

Steady(s) ==
  /\ DOMAIN s = Fields
  /\ AgendaOK(s.agenda) /\ QueuesOK(s.queue)
  /\ CallsOK(s.call) /\ TicketsOK(s.ticket) /\ ListsOK(s)
  /\ s.prio \in [Process -> Int]
  /\ \A g \in Resource : s.observers[g] = <<>>
  /\ DOMAIN s.status = Process
  /\ s.holder \in [Resource -> Process \cup {NoOne}]

(* Nothing changes hands, and nobody starts or ends.                       *)
Owners(s, t) == t.holder = s.holder /\ t.held = s.held /\ t.status = s.status

(* Nor does anybody come to run or block.                                  *)
Still(s, t) == Owners(s, t) /\ t.running = s.running /\ t.call = s.call

Calm(s, t) == Steady(t) /\ Still(s, t)

LEMMA CalmTransitive ==
  ASSUME NEW s, NEW t, NEW u, Calm(s, t), Calm(t, u) PROVE Calm(s, u)
  BY DEF Calm, Still, Owners

(* Changes of the fields that the calls treat apart from the others.       *)
LEMMA AgendaSet ==
  ASSUME NEW s, Steady(s), NEW A, AgendaOK(A)
  PROVE  Calm(s, [s EXCEPT !.agenda = A])
  BY DEF Calm, Still, Owners, Steady, Fields, ListsOK

LEMMA QueueSet ==
  ASSUME NEW s, Steady(s), NEW Q, QueuesOK(Q)
  PROVE  Calm(s, [s EXCEPT !.queue = Q])
  BY DEF Calm, Still, Owners, Steady, Fields, ListsOK

LEMMA FreeSet ==
  ASSUME NEW s, Steady(s), NEW x
  PROVE  /\ Calm(s, [s EXCEPT !.timers = x]) /\ Calm(s, [s EXCEPT !.joins = x])
         /\ Calm(s, [s EXCEPT !.untold = x]) /\ Calm(s, [s EXCEPT !.failed = x])
  BY DEF Calm, Still, Owners, Steady, Fields, ListsOK

LEMMA TicketSet ==
  ASSUME NEW s, Steady(s), NEW x, TicketsOK(x)
  PROVE  Calm(s, [s EXCEPT !.ticket = x])
  BY DEF Calm, Still, Owners, Steady, Fields, ListsOK

LEMMA WaitersSet ==
  ASSUME NEW s, Steady(s), NEW x \in [Process -> Seq(Process)]
  PROVE  Calm(s, [s EXCEPT !.waiters = x])
  BY DEF Calm, Still, Owners, Steady, Fields, ListsOK

LEMMA PrioSet ==
  ASSUME NEW s, Steady(s), NEW x \in [Process -> Int]
  PROVE  Calm(s, [s EXCEPT !.prio = x])
  BY DEF Calm, Still, Owners, Steady, Fields, ListsOK

LEMMA CallSet ==
  ASSUME NEW s, Steady(s), NEW x, CallsOK(x)
  PROVE  LET t == [s EXCEPT !.call = x]
         IN  Steady(t) /\ Owners(s, t) /\ t.running = s.running
  BY DEF Owners, Steady, Fields, ListsOK

LEMMA RunningSet ==
  ASSUME NEW s, Steady(s), NEW x
  PROVE  LET t == [s EXCEPT !.running = x]
         IN  Steady(t) /\ Owners(s, t) /\ t.call = s.call /\ t.running = x
  BY DEF Owners, Steady, Fields, ListsOK

LEMMA StatusSet ==
  ASSUME NEW s, Steady(s), NEW x, DOMAIN x = Process
  PROVE  LET t == [s EXCEPT !.status = x]
         IN  /\ Steady(t) /\ t.holder = s.holder /\ t.held = s.held
             /\ t.running = s.running /\ t.call = s.call /\ t.status = x
  BY DEF Steady, Fields, ListsOK

LEMMA HolderSet ==
  ASSUME NEW s, Steady(s), NEW h \in [Resource -> Process \cup {NoOne}]
  PROVE  LET t == [s EXCEPT !.holder = h]
         IN  /\ Steady(t) /\ t.holder = h /\ t.held = s.held
             /\ t.running = s.running /\ t.call = s.call /\ t.status = s.status
  BY DEF Steady, Fields, ListsOK

LEMMA HeldSet ==
  ASSUME NEW s, Steady(s), NEW l \in [Process -> Seq(Resource)]
  PROVE  LET t == [s EXCEPT !.held = l]
         IN  /\ Steady(t) /\ t.holder = s.holder /\ t.held = l
             /\ t.running = s.running /\ t.call = s.call /\ t.status = s.status
  BY DEF Steady, Fields, ListsOK

-----------------------------------------------------------------------------
(* The calls of the kernel leave the resources alone.                      *)

LEMMA AssertedCalm ==
  ASSUME NEW s, Steady(s), NEW holds, NEW name
  PROVE  Calm(s, Asserted(s, holds, name))
<1>1. Calm(s, s)
  BY DEF Calm, Still, Owners
<1>. QED BY <1>1, FreeSet DEF Asserted

LEMMA ScheduleCalm ==
  ASSUME NEW s, Steady(s), NEW kind \in Kinds, NEW p \in Process, NEW key, NEW sig,
         NEW delay \in Int, NEW pri \in Int
  PROVE  Calm(s, Schedule(s, kind, p, key, sig, delay, pri))
<1> DEFINE e == [kind |-> kind, proc |-> p, key |-> key, sig |-> sig,
                 delay |-> delay, prio |-> pri, tag |-> 0]
<1>1. EventOK(e)
  BY DEF EventOK, EventFields
<1>2. AgendaOK(Enter(s.agenda, e))
  BY <1>1, AgendaEnter DEF Steady
<1>3. Schedule(s, kind, p, key, sig, delay, pri) = [s EXCEPT !.agenda = Enter(s.agenda, e)]
  BY DEF Schedule
<1>. QED BY <1>2, <1>3, AgendaSet

LEMMA CancelEventsCalm ==
  ASSUME NEW s, Steady(s), NEW gone \in SUBSET s.agenda
  PROVE  Calm(s, CancelEvents(s, gone))
<1>1. AgendaOK(Leave(s.agenda, gone))
  BY AgendaLeave DEF Steady
<1>. QED BY <1>1, AgendaSet DEF CancelEvents

LEMMA DequeueCalm ==
  ASSUME NEW s, Steady(s), s.agenda # {}
  PROVE  Calm(s, Dequeue(s)) /\ EventOK(First(s.agenda))
<1> DEFINE A == s.agenda
           e == First(A)
           L == Leave(A, {e})
           B == {[f EXCEPT !.delay = f.delay - e.delay] : f \in L}
           F == [f \in L |-> [f EXCEPT !.delay = f.delay - e.delay]]
<1>1. AgendaOK(A)
  BY DEF Steady
<1>2. e \in A
  BY <1>1, FirstOf
<1>3. EventOK(e)
  BY <1>1, <1>2 DEF AgendaOK
<1>4. AgendaOK(L)
  BY <1>1, <1>2, AgendaLeave
<1>5. Dequeue(s) = [s EXCEPT !.agenda = B]
  BY DEF Dequeue
<1> HIDE DEF L, e
<1>6. F \in [L -> B] /\ \A f \in B : \E x \in L : f = F[x]
  OBVIOUS
<1>7. ASSUME NEW f \in L PROVE EventOK(F[f]) /\ F[f].tag = f.tag
  <2>1. EventOK(f)
    BY <1>4 DEF AgendaOK
  <2>2. F[f] = [f EXCEPT !.delay = f.delay - e.delay]
    OBVIOUS
  <2>. QED BY <1>3, <2>1, <2>2 DEF EventOK, EventFields
<1> HIDE DEF F, B
<1>8. AgendaOK(B)
  BY <1>4, <1>6, <1>7, AgendaChanged
<1>. QED BY <1>3, <1>5, <1>8, AgendaSet DEF e

(* Control is given up, and comes back.                                    *)
LEMMA BlockSteady ==
  ASSUME NEW s, Steady(s), NEW p \in Process, NEW fn, NEW on, NEW key,
         fn \in {"hold", "yield", "join", "acquire"},
         fn = "acquire" => on \in Resource
  PROVE  LET t == Block(s, p, fn, on, key)
         IN  Steady(t) /\ Owners(s, t) /\ t.running = NoOne
<1> DEFINE c == [fn |-> fn, on |-> on, key |-> key]
           calls == [s.call EXCEPT ![p] = c]
           u == [s EXCEPT !.call = calls]
           t == [u EXCEPT !.running = NoOne]
<1>1. CallOK(c)
  BY DEF CallOK
<1>2. CallsOK(calls)
  BY <1>1 DEF Steady, CallsOK
<1> HIDE DEF calls
<1>3. Steady(u) /\ Owners(s, u)
  BY <1>2, CallSet
<1> HIDE DEF u
<1>4. Steady(t) /\ Owners(u, t) /\ t.running = NoOne
  BY <1>3, RunningSet
<1>5. Block(s, p, fn, on, key) = t
  BY DEF Block, t, u, calls
<1> HIDE DEF t
<1>. QED BY <1>3, <1>4, <1>5 DEF Owners

LEMMA ReturnSteady ==
  ASSUME NEW s, Steady(s), NEW p \in Process, NEW sig
  PROVE  LET t == Return(s, p, sig)
         IN  Steady(t) /\ Owners(s, t) /\ t.running = p
<1> DEFINE calls == [s.call EXCEPT ![p] = Idle]
           u == [s EXCEPT !.running = p]
           v == [u EXCEPT !.call = calls]
           w == [v EXCEPT !.untold = [v.untold EXCEPT ![p] = IF sig = "preempted" THEN {}
                                                             ELSE v.untold[p]]]
<1>1. CallOK(Idle)
  BY DEF CallOK, Idle
<1>2. CallsOK(calls)
  BY <1>1 DEF Steady, CallsOK
<1>3. Return(s, p, sig) = w
  BY DEF Return
<1> HIDE DEF calls
<1>4. Steady(u) /\ Owners(s, u) /\ u.running = p
  BY RunningSet
<1> HIDE DEF u
<1>5. Steady(v) /\ Owners(u, v) /\ v.running = p
  BY <1>2, <1>4, CallSet
<1> HIDE DEF v
<1>6. Calm(v, w)
  BY <1>5, FreeSet
<1> HIDE DEF w
<1>. QED BY <1>3, <1>4, <1>5, <1>6 DEF Calm, Still, Owners

(* Timers.                                                                 *)
LEMMA TimerAddCalm ==
  ASSUME NEW s, Steady(s), NEW p \in Process, NEW delay \in Int, NEW sig
  PROVE  Calm(s, TimerAdd(s, p, delay, sig))
<1> DEFINE k == FreshKey(s)
           t == Schedule(s, "time", p, k, sig, delay, s.prio[p])
           u == [t EXCEPT !.timers = [t.timers EXCEPT ![p] = t.timers[p] \cup {k}]]
<1>1. s.prio[p] \in Int /\ "time" \in Kinds
  BY DEF Steady, Kinds
<1>2. TimerAdd(s, p, delay, sig) = u
  BY DEF TimerAdd
<1>3. Calm(s, t)
  BY <1>1, ScheduleCalm
<1> HIDE DEF t
<1>4. Calm(t, u)
  BY <1>3, FreeSet DEF Calm
<1> HIDE DEF u
<1>. QED BY <1>2, <1>3, <1>4, CalmTransitive

LEMMA TimerCancelCalm ==
  ASSUME NEW s, Steady(s), NEW p \in Process, NEW key
  PROVE  Calm(s, TimerCancel(s, p, key))
<1> DEFINE t == CancelEvents(s, TimerEvents(s, p, {key}))
           u == [t EXCEPT !.timers = [t.timers EXCEPT ![p] = t.timers[p] \ {key}]]
<1>1. TimerEvents(s, p, {key}) \in SUBSET s.agenda
  BY DEF TimerEvents
<1>2. TimerCancel(s, p, key) = u
  BY DEF TimerCancel
<1>3. Calm(s, t)
  BY <1>1, CancelEventsCalm
<1> HIDE DEF t
<1>4. Calm(t, u)
  BY <1>3, FreeSet DEF Calm
<1> HIDE DEF u
<1>. QED BY <1>2, <1>3, <1>4, CalmTransitive

LEMMA TimersClearCalm ==
  ASSUME NEW s, Steady(s), NEW p \in Process
  PROVE  Calm(s, TimersClear(s, p))
<1> DEFINE holds == \A k \in s.timers[p] : TimerEvents(s, p, {k}) # {}
           t == CancelEvents(s, TimerEvents(s, p, s.timers[p]))
           u == Asserted(t, holds, "timers_clear")
           v == [u EXCEPT !.timers = [u.timers EXCEPT ![p] = {}]]
<1>1. TimerEvents(s, p, s.timers[p]) \in SUBSET s.agenda
  BY DEF TimerEvents
<1>2. TimersClear(s, p) = v
  BY DEF TimersClear
<1> HIDE DEF holds
<1>3. Calm(s, t)
  BY <1>1, CancelEventsCalm
<1> HIDE DEF t
<1>4. Calm(t, u)
  BY <1>3, AssertedCalm DEF Calm
<1> HIDE DEF u
<1>5. Calm(u, v)
  BY <1>4, FreeSet DEF Calm
<1> HIDE DEF v
<1>. QED BY <1>2, <1>3, <1>4, <1>5, CalmTransitive

(* Joins.                                                                  *)
LEMMA WaitProcessSteady ==
  ASSUME NEW s, Steady(s), NEW p \in Process, NEW q \in Process
  PROVE  LET t == WaitProcess(s, p, q)
         IN  Steady(t) /\ Owners(s, t) /\ t.running = NoOne
<1> DEFINE u == [s EXCEPT !.joins = [s.joins EXCEPT ![p] = q]]
           lists == [u.waiters EXCEPT ![q] = <<p>> \o u.waiters[q]]
           v == [u EXCEPT !.waiters = lists]
           t == Block(v, p, "join", q, 0)
<1>1. WaitProcess(s, p, q) = t
  BY DEF WaitProcess
<1>2. Calm(s, u)
  BY FreeSet
<1> HIDE DEF u
<1>3. lists \in [Process -> Seq(Process)]
  <2>1. u.waiters \in [Process -> Seq(Process)]
    BY <1>2 DEF Calm, Steady, ListsOK
  <2>2. <<p>> \o u.waiters[q] \in Seq(Process)
    BY <2>1, PrependKeeps
  <2>. QED BY <2>1, <2>2
<1> HIDE DEF lists
<1>4. Calm(u, v)
  BY <1>2, <1>3, WaitersSet DEF Calm
<1> HIDE DEF v
<1>5. Steady(t) /\ Owners(v, t) /\ t.running = NoOne
  BY <1>4, BlockSteady DEF Calm
<1> HIDE DEF t
<1>. QED BY <1>1, <1>2, <1>4, <1>5 DEF Calm, Still, Owners

LEMMA WakeWaitersCalm ==
  ASSUME NEW s, Steady(s), NEW p \in Process, NEW sig
  PROVE  Calm(s, WakeWaiters(s, p, sig))
<1> DEFINE ws == s.waiters[p]
           A == s.agenda
           I == 1..Len(ws)
           Woken(i) == [kind |-> "process", proc |-> ws[i], key |-> 0,
                        sig |-> sig, delay |-> 0, prio |-> s.prio[ws[i]],
                        tag |-> Cardinality(A) + i]
           B == {Woken(i) : i \in I}
           F == [i \in I |-> Woken(i)]
           place == [i \in I |-> i]
           t == [s EXCEPT !.agenda = A \cup B]
           u == [t EXCEPT !.waiters = [t.waiters EXCEPT ![p] = <<>>]]
<1>1. s.waiters \in [Process -> Seq(Process)] /\ s.prio \in [Process -> Int]
  BY DEF Steady, ListsOK
<1>2. ws \in Seq(Process) /\ Len(ws) \in Nat
  BY <1>1
<1>3. IsFiniteSet(I) /\ Cardinality(I) = Len(ws)
  BY <1>2, FS_Interval
<1>4. AgendaOK(A)
  BY DEF Steady
<1>5. WakeWaiters(s, p, sig) = u
  BY DEF WakeWaiters
<1>6. \A i \in I : ws[i] \in Process /\ s.prio[ws[i]] \in Int
  <2>1. \A i \in I : ws[i] \in Process
    BY <1>2
  <2>. QED BY <1>1, <2>1
<1> HIDE DEF ws
<1>7. \A i \in I : EventOK(Woken(i)) /\ Woken(i).tag = Cardinality(A) + i
  BY <1>6 DEF EventOK, EventFields, Kinds
<1> HIDE DEF Woken, A
<1>8. F \in [I -> B] /\ \A f \in B : \E i \in I : f = F[i]
  OBVIOUS
<1>9. \A i \in I : EventOK(F[i]) /\ F[i].tag = Cardinality(A) + place[i]
  BY <1>7
<1>10. place \in [I -> 1..Cardinality(I)] /\ \A i, j \in I : place[i] = place[j] => i = j
  BY <1>3
<1> HIDE DEF I, B, F, place
<1>11. Appends(A, I, B, F, place)
  BY <1>3, <1>8, <1>9, <1>10 DEF Appends
<1>12. Calm(s, t)
  <2>1. AgendaOK(A \cup B)
    BY <1>4, <1>11, AgendaAppend
  <2>. QED BY <2>1, AgendaSet
<1> HIDE DEF t
<1>13. [t.waiters EXCEPT ![p] = <<>>] \in [Process -> Seq(Process)]
  BY <1>12 DEF Calm, Steady, ListsOK
<1>14. Calm(t, u)
  BY <1>12, <1>13, WaitersSet DEF Calm
<1> HIDE DEF u
<1>. QED BY <1>5, <1>12, <1>14, CalmTransitive

(* A new queue at one guard, or a new ticket for one process.              *)
LEMMA QueueAt ==
  ASSUME NEW s, Steady(s), NEW g \in Resource, NEW Q, QueueOK(Q)
  PROVE  Calm(s, [s EXCEPT !.queue = [s.queue EXCEPT ![g] = Q]])
<1> DEFINE queue == [s.queue EXCEPT ![g] = Q]
<1>1. QueuesOK(queue)
  BY DEF Steady, QueuesOK
<1> HIDE DEF queue
<1>2. Calm(s, [s EXCEPT !.queue = queue])
  BY <1>1, QueueSet
<1>. QED BY <1>2 DEF queue

LEMMA TicketAt ==
  ASSUME NEW s, Steady(s), NEW p \in Process, NEW x, TicketOK(x)
  PROVE  Calm(s, [s EXCEPT !.ticket = [s.ticket EXCEPT ![p] = x]])
<1> DEFINE ticket == [s.ticket EXCEPT ![p] = x]
<1>1. TicketsOK(ticket)
  BY DEF Steady, TicketsOK
<1> HIDE DEF ticket
<1>2. Calm(s, [s EXCEPT !.ticket = ticket])
  BY <1>1, TicketSet
<1>. QED BY <1>2 DEF ticket

(* The front entry is about a process.                                     *)
LEMMA FrontProcess ==
  ASSUME NEW s, Steady(s), NEW g \in Resource, s.queue[g] # {}
  PROVE  /\ Front(s, g) \in s.queue[g]
         /\ Front(s, g).proc \in Process /\ s.prio[Front(s, g).proc] \in Int
<1>1. QueueOK(s.queue[g])
  BY DEF Steady, QueuesOK
<1>2. Front(s, g) \in s.queue[g]
  BY <1>1, FrontOf
<1>3. Front(s, g).proc \in Process
  BY <1>1, <1>2 DEF QueueOK, EntryOK
<1>. QED BY <1>2, <1>3 DEF Steady

(* Guards.                                                                 *)
LEMMA GrantedCalm ==
  ASSUME NEW s, Steady(s), NEW g \in Resource
  PROVE  Calm(s, Granted(s, g))
<1>1. Calm(s, s)
  BY DEF Calm, Still, Owners
<1>2. CASE s.queue[g] # {} /\ IsAvailable(s, g, Front(s, g).proc)
  <2> DEFINE w == Front(s, g)
             p == w.proc
             k == GuardKey(s, p, g)
             Q == Leave(s.queue[g], {w})
             t == [s EXCEPT !.queue = [s.queue EXCEPT ![g] = Q]]
             u == Schedule(t, "grant", p, k, "success", 0, s.prio[p])
             v == Asserted(u, k # 0, "guard_signal")
  <2>1. w \in s.queue[g] /\ p \in Process /\ s.prio[p] \in Int
    BY <1>2, FrontProcess
  <2>2. QueueOK(Q)
    BY <2>1, QueueLeave DEF Steady, QueuesOK
  <2>3. Granted(s, g) = v
    BY <1>2 DEF Granted
  <2> HIDE DEF Q
  <2>4. Calm(s, t)
    BY <2>2, QueueAt
  <2> HIDE DEF t, k, w
  <2>5. "grant" \in Kinds /\ 0 \in Int
    BY DEF Kinds
  <2>6. Calm(t, u)
    BY <2>1, <2>4, <2>5, ScheduleCalm DEF Calm
  <2> HIDE DEF u
  <2>7. Calm(u, v)
    BY <2>6, AssertedCalm DEF Calm
  <2> HIDE DEF v
  <2>. QED BY <2>3, <2>4, <2>6, <2>7, CalmTransitive
<1>3. CASE ~(s.queue[g] # {} /\ IsAvailable(s, g, Front(s, g).proc))
  <2>1. Granted(s, g) = s
    BY <1>3 DEF Granted
  <2>. QED BY <1>1, <2>1
<1>. QED BY <1>2, <1>3

LEMMA SignalCalm ==
  ASSUME NEW s, Steady(s), NEW g \in Resource
  PROVE  Calm(s, Signal(s, g))
<1>1. s.observers[g] = <<>>
  BY DEF Steady
<1>2. Signal(s, g) = Granted(s, g)
  BY <1>1 DEF Signal
<1>. QED BY <1>2, GrantedCalm

LEMMA GuardWaitSteady ==
  ASSUME NEW s, Steady(s), NEW p \in Process, NEW g \in Resource
  PROVE  LET t == GuardWait(s, p, "acquire", g)
         IN  Steady(t) /\ Owners(s, t) /\ t.running = NoOne
<1> DEFINE k == FreshKey(s)
           x == [guard |-> g, key |-> k]
           w == [proc |-> p, key |-> k, prio |-> s.prio[p], tag |-> 0]
           u == [s EXCEPT !.ticket = [s.ticket EXCEPT ![p] = x]]
           Q == Enter(u.queue[g], w)
           v == [u EXCEPT !.queue = [u.queue EXCEPT ![g] = Q]]
           t == Block(v, p, "acquire", g, k)
<1>1. GuardWait(s, p, "acquire", g) = t
  BY DEF GuardWait, AddTicket
<1> HIDE DEF k
<1>2. TicketOK(x)
  BY DEF TicketOK
<1> HIDE DEF x
<1>3. Calm(s, u)
  BY <1>2, TicketAt
<1> HIDE DEF u
<1>4. EntryOK(w)
  BY DEF Steady, EntryOK, EntryFields
<1> HIDE DEF w
<1>5. QueueOK(Q)
  BY <1>3, <1>4, QueueEnter DEF Calm, Steady, QueuesOK
<1> HIDE DEF Q
<1>6. Calm(u, v)
  BY <1>3, <1>5, QueueAt DEF Calm
<1> HIDE DEF v
<1>7. Steady(t) /\ Owners(v, t) /\ t.running = NoOne
  BY <1>6, BlockSteady DEF Calm
<1> HIDE DEF t
<1>. QED BY <1>1, <1>3, <1>6, <1>7 DEF Calm, Still, Owners

LEMMA RemoveTicketCalm ==
  ASSUME NEW s, Steady(s), NEW p \in Process, NEW g
  PROVE  Calm(s, RemoveTicket(s, p, g))
<1> DEFINE x == IF s.ticket[p].guard = g THEN NoTicket ELSE s.ticket[p]
<1>1. TicketOK(x)
  BY DEF Steady, TicketsOK, TicketOK, NoTicket
<1>2. RemoveTicket(s, p, g) = [s EXCEPT !.ticket = [s.ticket EXCEPT ![p] = x]]
  BY DEF RemoveTicket
<1> HIDE DEF x
<1>. QED BY <1>1, <1>2, TicketAt

LEMMA GuardResumeCalm ==
  ASSUME NEW s, Steady(s), NEW p \in Process, NEW sig, s.call[p].on \in Resource
  PROVE  Calm(s, GuardResume(s, p, sig))
<1> DEFINE g == s.call[p].on
           mine == Entries(s, g, s.call[p].key)
           t == RemoveTicket(s, p, g)
           Q == Leave(t.queue[g], mine)
           u == [t EXCEPT !.queue = [t.queue EXCEPT ![g] = Q]]
<1>1. GuardResume(s, p, sig) =
        IF sig = "success" THEN Asserted(t, mine = {}, "guard_wait")
        ELSE IF mine # {} THEN u
        ELSE IF sig # "cancelled" THEN Signal(t, g)
        ELSE t
  BY DEF GuardResume
<1>2. g \in Resource
  OBVIOUS
<1>3. mine \in SUBSET t.queue[g]
  BY DEF Entries, RemoveTicket, Steady, Fields
<1> HIDE DEF mine
<1>4. Calm(s, t)
  BY RemoveTicketCalm
<1> HIDE DEF t, g
<1>5. QueueOK(Q)
  BY <1>2, <1>3, <1>4, QueueLeave DEF Calm, Steady, QueuesOK
<1> HIDE DEF Q
<1>6. Calm(t, u)
  BY <1>2, <1>4, <1>5, QueueAt DEF Calm
<1>7. Calm(t, Asserted(t, mine = {}, "guard_wait"))
  BY <1>4, AssertedCalm DEF Calm
<1>8. Calm(t, Signal(t, g))
  BY <1>2, <1>4, SignalCalm DEF Calm
<1> HIDE DEF u
<1>. QED BY <1>1, <1>4, <1>6, <1>7, <1>8, CalmTransitive

LEMMA GuardCancelCalm ==
  ASSUME NEW s, Steady(s), NEW p \in Process, NEW g \in Resource
  PROVE  Calm(s, GuardCancel(s, p, g))
<1> DEFINE k == GuardKey(s, p, g)
           mine == Entries(s, g, k)
           Q == Leave(s.queue[g], mine)
           t == [s EXCEPT !.queue = [s.queue EXCEPT ![g] = Q]]
           u == Schedule(t, "cancelled", p, k, "cancelled", 0, s.prio[p])
<1>1. GuardCancel(s, p, g) = IF k = 0 \/ mine = {} THEN s ELSE u
  BY DEF GuardCancel
<1>2. mine \in SUBSET s.queue[g]
  BY DEF Entries
<1> HIDE DEF mine, k
<1>3. QueueOK(Q)
  BY <1>2, QueueLeave DEF Steady, QueuesOK
<1> HIDE DEF Q
<1>4. Calm(s, t)
  BY <1>3, QueueAt
<1> HIDE DEF t
<1>5. "cancelled" \in Kinds /\ 0 \in Int /\ s.prio[p] \in Int
  BY DEF Kinds, Steady
<1>6. Calm(t, u)
  BY <1>4, <1>5, ScheduleCalm DEF Calm
<1> HIDE DEF u
<1>7. Calm(s, s)
  BY DEF Calm, Still, Owners
<1>. QED BY <1>1, <1>4, <1>6, <1>7, CalmTransitive

(* What a process waits for is cancelled, or follows its priority.         *)
(* cmi_process_cancel_awaiteds up to the signal.                           *)
Relieved(s, p) ==
  LET g    == s.ticket[p].guard
      mine == IF g = NoOne THEN {} ELSE Entries(s, g, s.ticket[p].key)
  IN  [CancelEvents(s, Swept(s, p)) EXCEPT
         !.timers[p] = {},
         !.ticket[p] = NoTicket,
         !.joins[p]  = NoOne,
         !.queue     = [h \in Resource |-> IF h = g THEN Leave(@[h], mine)
                                           ELSE @[h]],
         !.waiters   = [q \in Process |->
                          IF q = s.joins[p] THEN Unlink(@[q], p)
                          ELSE @[q]]]

LEMMA RelievedCalm ==
  ASSUME NEW s, Steady(s), NEW p \in Process
  PROVE  Calm(s, Relieved(s, p))
<1> DEFINE g == s.ticket[p].guard
           mine == IF g = NoOne THEN {} ELSE Entries(s, g, s.ticket[p].key)
           a == CancelEvents(s, Swept(s, p))
           b == [a EXCEPT !.timers = [a.timers EXCEPT ![p] = {}]]
           c == [b EXCEPT !.ticket = [b.ticket EXCEPT ![p] = NoTicket]]
           d == [c EXCEPT !.joins = [c.joins EXCEPT ![p] = NoOne]]
           queue == [h \in Resource |-> IF h = g THEN Leave(d.queue[h], mine)
                                        ELSE d.queue[h]]
           e == [d EXCEPT !.queue = queue]
           lists == [q \in Process |-> IF q = s.joins[p] THEN Unlink(e.waiters[q], p)
                                       ELSE e.waiters[q]]
           t == [e EXCEPT !.waiters = lists]
<1>1. Relieved(s, p) = t
  BY DEF Relieved
<1>2. g \in Resource \cup {NoOne}
  BY DEF Steady, TicketsOK, TicketOK
<1>3. g \in Resource => mine \in SUBSET s.queue[g]
  BY DEF Entries
<1>4. Swept(s, p) \in SUBSET s.agenda
  BY DEF Swept, TimerEvents
<1>5. a.queue = s.queue
  BY DEF CancelEvents, Steady, Fields
<1> HIDE DEF mine, g
<1>6. Calm(s, a)
  BY <1>4, CancelEventsCalm
<1> HIDE DEF a
<1>7. Calm(a, b) /\ b.queue = s.queue
  BY <1>5, <1>6, FreeSet DEF Calm, Steady, Fields
<1> HIDE DEF b
<1>8. TicketOK(NoTicket)
  BY DEF TicketOK, NoTicket
<1>9. Calm(b, c)
  BY <1>7, <1>8, TicketAt DEF Calm
<1>10. c.queue = s.queue
  BY <1>7 DEF Calm, Steady, Fields
<1> HIDE DEF c
<1>11. Calm(c, d) /\ d.queue = s.queue
  BY <1>9, <1>10, FreeSet DEF Calm, Steady, Fields
<1> HIDE DEF d
<1>12. QueuesOK(queue)
  <2>1. QueuesOK(d.queue)
    BY <1>11 DEF Calm, Steady
  <2>2. ASSUME NEW h \in Resource PROVE QueueOK(queue[h])
    BY <1>3, <1>11, <2>1, QueueLeave DEF QueuesOK
  <2>. QED BY <2>2 DEF QueuesOK
<1> HIDE DEF queue
<1>13. Calm(d, e)
  BY <1>11, <1>12, QueueSet DEF Calm
<1> HIDE DEF e
<1>14. lists \in [Process -> Seq(Process)]
  <2>1. e.waiters \in [Process -> Seq(Process)]
    BY <1>13 DEF Calm, Steady, ListsOK
  <2>2. \A q \in Process : Unlink(e.waiters[q], p) \in Seq(Process)
    BY <2>1, UnlinkKeeps
  <2>. QED BY <2>1, <2>2
<1> HIDE DEF lists
<1>15. Calm(e, t)
  BY <1>13, <1>14, WaitersSet DEF Calm
<1> HIDE DEF t
<1>16. Calm(s, t)
  BY <1>6, <1>7, <1>9, <1>11, <1>13, <1>15, CalmTransitive
<1>. QED BY <1>1, <1>16

LEMMA CancelAwaitedsIs ==
  ASSUME NEW s, NEW p
  PROVE  LET g    == s.ticket[p].guard
             mine == IF g = NoOne THEN {} ELSE Entries(s, g, s.ticket[p].key)
             t    == Relieved(s, p)
         IN  CancelAwaiteds(s, p) = IF g # NoOne /\ mine = {} THEN Signal(t, g) ELSE t
  BY DEF CancelAwaiteds, Relieved

LEMMA CancelAwaitedsCalm ==
  ASSUME NEW s, Steady(s), NEW p \in Process
  PROVE  Calm(s, CancelAwaiteds(s, p))
<1> DEFINE t == Relieved(s, p)
<1>1. Calm(s, t)
  BY RelievedCalm
<1> HIDE DEF t
<1>2. \A g \in Resource : Calm(t, Signal(t, g))
  BY <1>1, SignalCalm DEF Calm
<1>3. s.ticket[p].guard \in Resource \cup {NoOne}
  BY DEF Steady, TicketsOK, TicketOK
<1>4. \/ CancelAwaiteds(s, p) = t
      \/ s.ticket[p].guard # NoOne /\ CancelAwaiteds(s, p) = Signal(t, s.ticket[p].guard)
  BY CancelAwaitedsIs DEF t
<1>. QED BY <1>1, <1>2, <1>3, <1>4, CalmTransitive

LEMMA PrioritySetCalm ==
  ASSUME NEW s, Steady(s), NEW p \in Process, NEW pri \in Int
  PROVE  Calm(s, PrioritySet(s, p, pri))
<1> DEFINE g == s.ticket[p].guard
           mine == IF g = NoOne THEN {} ELSE Entries(s, g, s.ticket[p].key)
           due == TimerEvents(s, p, s.timers[p])
           a == [s EXCEPT !.prio = [s.prio EXCEPT ![p] = pri]]
           A == {IF e \in due THEN [e EXCEPT !.prio = pri] ELSE e : e \in a.agenda}
           F == [e \in a.agenda |-> IF e \in due THEN [e EXCEPT !.prio = pri] ELSE e]
           b == [a EXCEPT !.agenda = A]
           Raised(Q) == {IF w \in mine THEN [w EXCEPT !.prio = pri] ELSE w : w \in Q}
           G(Q) == [w \in Q |-> IF w \in mine THEN [w EXCEPT !.prio = pri] ELSE w]
           queue == [h \in Resource |-> IF h # g THEN b.queue[h] ELSE Raised(b.queue[h])]
           t == [b EXCEPT !.queue = queue]
           holds == /\ g = NoOne \/ mine # {}
                    /\ \A k \in s.timers[p] : TimerEvents(s, p, {k}) # {}
           u == Asserted(t, holds, "priority_set")
<1>1. PrioritySet(s, p, pri) = u
  BY DEF PrioritySet
<1> HIDE DEF mine, due, g, holds
<1>2. Calm(s, a)
  <2>1. [s.prio EXCEPT ![p] = pri] \in [Process -> Int]
    BY DEF Steady
  <2>. QED BY <2>1, PrioSet
<1> HIDE DEF a
<1>3. AgendaOK(A)
  <2>1. AgendaOK(a.agenda)
    BY <1>2 DEF Calm, Steady
  <2>2. F \in [a.agenda -> A] /\ \A f \in A : \E e \in a.agenda : f = F[e]
    OBVIOUS
  <2>3. ASSUME NEW e \in a.agenda PROVE EventOK(F[e]) /\ F[e].tag = e.tag
    <3>1. EventOK(e)
      BY <2>1 DEF AgendaOK
    <3>2. EventOK([e EXCEPT !.prio = pri]) /\ [e EXCEPT !.prio = pri].tag = e.tag
      BY <3>1 DEF EventOK, EventFields
    <3>. QED BY <3>1, <3>2
  <2> HIDE DEF A, F
  <2>. QED BY <2>1, <2>2, <2>3, AgendaChanged
<1> HIDE DEF A
<1>4. Calm(a, b)
  BY <1>2, <1>3, AgendaSet DEF Calm
<1> HIDE DEF b
<1>5. ASSUME NEW Q, QueueOK(Q) PROVE QueueOK(Raised(Q))
  <2> DEFINE T == Raised(Q)
             H == G(Q)
  <2>1. H \in [Q -> T] /\ \A v \in T : \E w \in Q : v = H[w]
    OBVIOUS
  <2>2. ASSUME NEW w \in Q PROVE EntryOK(H[w]) /\ H[w].tag = w.tag
    <3>1. EntryOK(w)
      BY <1>5 DEF QueueOK
    <3>2. EntryOK([w EXCEPT !.prio = pri]) /\ [w EXCEPT !.prio = pri].tag = w.tag
      BY <3>1 DEF EntryOK, EntryFields
    <3>. QED BY <3>1, <3>2
  <2> HIDE DEF T, H
  <2>3. QueueOK(T)
    BY <1>5, <2>1, <2>2, QueueChanged
  <2>. QED BY <2>3 DEF T
<1> HIDE DEF Raised
<1>6. QueuesOK(queue)
  <2>1. QueuesOK(b.queue)
    BY <1>4 DEF Calm, Steady
  <2>. QED BY <1>5, <2>1 DEF QueuesOK
<1> HIDE DEF queue
<1>7. Calm(b, t)
  BY <1>4, <1>6, QueueSet DEF Calm
<1> HIDE DEF t
<1>8. Calm(t, u)
  BY <1>7, AssertedCalm DEF Calm
<1> HIDE DEF u
<1>. QED BY <1>1, <1>2, <1>4, <1>7, <1>8, CalmTransitive

(* The members of a set of numbers, counted from the least on.             *)
LEMMA Counting ==
  ASSUME NEW n \in Nat, NEW I \in SUBSET (1..n)
  PROVE  LET place == [i \in I |-> Cardinality({j \in I : j <= i})]
         IN  /\ IsFiniteSet(I) /\ place \in [I -> 1..Cardinality(I)]
             /\ \A i, j \in I : place[i] = place[j] => i = j
<1> DEFINE Upto(i) == {j \in I : j <= i}
           place == [i \in I |-> Cardinality(Upto(i))]
<1>1. IsFiniteSet(I)
  <2>1. IsFiniteSet(1..n)
    BY FS_Interval
  <2>. QED BY <2>1, FS_Subset
<1>2. ASSUME NEW A \in SUBSET I PROVE IsFiniteSet(A) /\ Cardinality(A) \in Nat
                                    /\ Cardinality(A) <= Cardinality(I)
  BY <1>1, FS_Subset, FS_CardinalityType
<1>3. ASSUME NEW i \in I PROVE Cardinality(Upto(i)) \in 1..Cardinality(I)
  <2> DEFINE A == Upto(i)
  <2>1. A \in SUBSET I /\ i \in A
    OBVIOUS
  <2> HIDE DEF A
  <2>2. IsFiniteSet(A) /\ Cardinality(A) \in Nat /\ Cardinality(A) <= Cardinality(I)
    BY <1>2, <2>1
  <2>3. Cardinality(A) # 0
    BY <2>1, <2>2, FS_EmptySet
  <2>4. Cardinality(I) \in Nat
    BY <1>1, FS_CardinalityType
  <2>5. Cardinality(A) \in 1..Cardinality(I)
    BY <2>2, <2>3, <2>4
  <2>. QED BY <2>5 DEF A
<1>4. ASSUME NEW i \in I, NEW j \in I, i < j
      PROVE  Cardinality(Upto(i)) # Cardinality(Upto(j))
  <2> DEFINE A == Upto(i)
             B == Upto(j)
  <2>1. A \in SUBSET B /\ j \in B /\ j \notin A /\ B \in SUBSET I
    <3>1. i \in Int /\ j \in Int /\ \A k \in I : k \in Int
      OBVIOUS
    <3>2. \A k \in I : k <= i => k <= j
      BY <1>4, <3>1
    <3>3. j <= j /\ ~(j <= i)
      BY <1>4, <3>1
    <3>. QED BY <3>2, <3>3
  <2> HIDE DEF A, B
  <2>2. IsFiniteSet(B)
    BY <1>1, <2>1, FS_Subset
  <2>3. Cardinality(A) # Cardinality(B)
    <3>1. Cardinality(B) = Cardinality(A) => B = A
      BY <2>1, <2>2, FS_Subset
    <3>. QED BY <2>1, <3>1
  <2>. QED BY <2>3 DEF A, B
<1>5. \A i \in I : place[i] = Cardinality(Upto(i))
  OBVIOUS
<1>6. place \in [I -> 1..Cardinality(I)]
  <2>1. place = [i \in I |-> place[i]]
    OBVIOUS
  <2>2. \A i \in I : place[i] \in 1..Cardinality(I)
    BY <1>3, <1>5
  <2> HIDE DEF Upto
  <2>. QED BY <2>1, <2>2
<1> HIDE DEF Upto
<1>7. ASSUME NEW i \in I, NEW j \in I, place[i] = place[j] PROVE i = j
  <2>1. i \in Int /\ j \in Int
    OBVIOUS
  <2>2. ~(i < j) /\ ~(j < i)
    BY <1>4, <1>5, <1>7
  <2>. QED BY <2>1, <2>2
<1>. QED BY <1>1, <1>6, <1>7 DEF Upto

(* What p held is free.                                                    *)
Freed(s, p, t) ==
  /\ Steady(t)
  /\ t.running = s.running /\ t.call = s.call /\ t.status = s.status
  /\ t.held = [s.held EXCEPT ![p] = <<>>]
  /\ \A r \in Resource : t.holder[r] = IF Never(s.held[p], r) THEN s.holder[r] ELSE NoOne

(* From the head of the list on, each resource is freed, and each guard    *)
(* that has a queue grants its front: as many grants as queues, numbered   *)
(* in turn.                                                                *)
LEMMA DroppedFreed ==
  ASSUME NEW s, Steady(s), NEW p \in Process
  PROVE  Freed(s, p, Dropped(s, p))
<1> DEFINE rs == s.held[p]
           A == s.agenda
           served == {i \in 1..Len(rs) : s.queue[rs[i]] # {}}
           Place(i) == Cardinality({j \in served : j <= i})
           Next1(i) == Front(s, rs[i]).proc
           Grant(i) == [kind |-> "grant", proc |-> Next1(i),
                        key |-> GuardKey(s, Next1(i), rs[i]), sig |-> "success",
                        delay |-> 0, prio |-> s.prio[Next1(i)],
                        tag |-> Cardinality(A) + Place(i)]
           dropped == {rs[i] : i \in 1..Len(rs)}
           B == {Grant(i) : i \in served}
           F == [i \in served |-> Grant(i)]
           place == [i \in served |-> Place(i)]
           a == [s EXCEPT !.agenda = A \cup B]
           queue == [r \in Resource |-> IF r \in dropped /\ a.queue[r] # {}
                                        THEN Leave(a.queue[r], {Front(s, r)})
                                        ELSE a.queue[r]]
           b == [a EXCEPT !.queue = queue]
           holder == [r \in Resource |-> IF r \in dropped THEN NoOne ELSE b.holder[r]]
           c == [b EXCEPT !.holder = holder]
           lists == [c.held EXCEPT ![p] = <<>>]
           d == [c EXCEPT !.held = lists]
           holds == \A r \in dropped : s.holder[r] = p
           t == Asserted(d, holds, "drop_holder")
<1>1. Dropped(s, p) = t
  BY DEF Dropped
<1> HIDE DEF holds
<1>2. rs \in Seq(Resource) /\ Len(rs) \in Nat
  BY DEF Steady, ListsOK
<1>3. \A r \in Resource : r \in dropped <=> ~Never(rs, r)
  BY DEF Never
<1>4. \A i \in 1..Len(rs) : rs[i] \in Resource
  BY <1>2
<1> HIDE DEF rs, dropped
<1>5. /\ served \in SUBSET (1..Len(rs))
      /\ \A i \in served : rs[i] \in Resource /\ s.queue[rs[i]] # {}
  BY <1>4
<1> HIDE DEF served
<1>6. \A i \in served : Next1(i) \in Process /\ s.prio[Next1(i)] \in Int
  BY <1>5, FrontProcess
<1>7. /\ IsFiniteSet(served) /\ place \in [served -> 1..Cardinality(served)]
      /\ \A i, j \in served : place[i] = place[j] => i = j
  BY <1>2, <1>5, Counting
<1> HIDE DEF Next1
<1>8. \A i \in served : EventOK(Grant(i)) /\ Grant(i).tag = Cardinality(A) + Place(i)
  BY <1>6 DEF EventOK, EventFields, Kinds
<1> HIDE DEF Grant, A, Place
<1>9. F \in [served -> B] /\ \A f \in B : \E i \in served : f = F[i]
  OBVIOUS
<1>10. \A i \in served : EventOK(F[i]) /\ F[i].tag = Cardinality(A) + place[i]
  BY <1>8
<1> HIDE DEF B, F, place
<1>11. Appends(A, served, B, F, place)
  BY <1>7, <1>9, <1>10 DEF Appends
<1>12. AgendaOK(A \cup B)
  BY <1>11, AgendaAppend DEF Steady, A
<1>13. Calm(s, a) /\ a.queue = s.queue
  BY <1>12, AgendaSet DEF Steady, Fields
<1> HIDE DEF a
<1>14. QueuesOK(queue)
  <2>1. QueuesOK(s.queue)
    BY DEF Steady
  <2>2. ASSUME NEW r \in Resource PROVE QueueOK(queue[r])
    <3>1. CASE r \in dropped /\ s.queue[r] # {}
      <4>1. Front(s, r) \in s.queue[r]
        BY <3>1, FrontProcess
      <4>2. queue[r] = Leave(s.queue[r], {Front(s, r)})
        BY <1>13, <3>1
      <4>. QED BY <2>1, <4>1, <4>2, QueueLeave DEF QueuesOK
    <3>2. CASE ~(r \in dropped /\ s.queue[r] # {})
      BY <1>13, <2>1, <3>2 DEF QueuesOK
    <3>. QED BY <3>1, <3>2
  <2>. QED BY <2>2 DEF QueuesOK
<1> HIDE DEF queue
<1>15. Calm(a, b)
  BY <1>13, <1>14, QueueSet DEF Calm
<1>16. Calm(s, b)
  BY <1>13, <1>15, CalmTransitive
<1> HIDE DEF b
<1>17. /\ Steady(b) /\ b.holder = s.holder /\ b.held = s.held /\ b.status = s.status
       /\ b.running = s.running /\ b.call = s.call
  BY <1>16 DEF Calm, Still, Owners
<1>18. holder \in [Resource -> Process \cup {NoOne}]
  BY <1>17 DEF Steady
<1>19. lists = [s.held EXCEPT ![p] = <<>>]
  BY <1>17 DEF Steady, Fields
<1>20. lists \in [Process -> Seq(Resource)]
  <2>1. c.held = s.held
    BY <1>17 DEF Steady, Fields
  <2> HIDE DEF c
  <2>. QED BY <1>17, <2>1 DEF Steady, ListsOK
<1>21. \A r \in Resource : holder[r] = IF Never(rs, r) THEN s.holder[r] ELSE NoOne
  BY <1>3, <1>17
<1> HIDE DEF holder
<1>22. /\ Steady(c) /\ c.holder = holder /\ c.held = s.held
       /\ c.running = s.running /\ c.call = s.call /\ c.status = s.status
  BY <1>17, <1>18, HolderSet
<1> HIDE DEF c, lists
<1>23. /\ Steady(d) /\ d.holder = holder /\ d.held = lists
       /\ d.running = s.running /\ d.call = s.call /\ d.status = s.status
  BY <1>20, <1>22, HeldSet
<1> HIDE DEF d
<1>24. Calm(d, t)
  BY <1>23, AssertedCalm
<1> HIDE DEF t
<1>. QED BY <1>1, <1>17, <1>19, <1>21, <1>23, <1>24 DEF Freed, Calm, Still, Owners, rs

-----------------------------------------------------------------------------
(* The operators that ProcessSystem instantiates are those of the kernel.  *)
LEMMA SameSignal ==
  ASSUME NEW s, NEW g PROVE Kernel!Signal(s, g) = Signal(s, g)
  BY DEF Kernel!Signal, Signal, Kernel!HeardAt, HeardAt, Kernel!Granted, Granted,
         Kernel!Asserted, Asserted, Kernel!Schedule, Schedule, Kernel!Enter, Enter,
         Kernel!Leave, Leave, Kernel!GuardKey, GuardKey, Kernel!Front, Front,
         Kernel!Cardinality, Cardinality

LEMMA SameCancelAwaiteds ==
  ASSUME NEW s, NEW p
  PROVE  Kernel!CancelAwaiteds(s, p) = CancelAwaiteds(s, p)
<1> DEFINE g == s.ticket[p].guard
           mine == IF g = NoOne THEN {} ELSE Entries(s, g, s.ticket[p].key)
           t == [CancelEvents(s, Swept(s, p)) EXCEPT
                   !.timers[p] = {},
                   !.ticket[p] = NoTicket,
                   !.joins[p]  = NoOne,
                   !.queue     = [h \in Resource |-> IF h = g THEN Leave(@[h], mine)
                                                     ELSE @[h]],
                   !.waiters   = [q \in Process |->
                                    IF q = s.joins[p] THEN Unlink(@[q], p) ELSE @[q]]]
<1>1. CancelAwaiteds(s, p) = IF g # NoOne /\ mine = {} THEN Signal(t, g) ELSE t
  BY DEF CancelAwaiteds
<1>2. Kernel!CancelAwaiteds(s, p)
        = IF g # NoOne /\ mine = {} THEN Kernel!Signal(t, g) ELSE t
  BY DEF Kernel!CancelAwaiteds, Kernel!CancelEvents, CancelEvents, Kernel!Leave, Leave,
         Kernel!Cardinality, Cardinality, Kernel!Swept, Swept, Kernel!Unchecked, Unchecked,
         Kernel!TimerEvents, TimerEvents, Kernel!Entries, Entries, Kernel!Unlink, Unlink,
         Kernel!Occurrence, Occurrence, Kernel!NoTicket, NoTicket
<1> HIDE DEF t
<1>3. Kernel!Signal(t, g) = Signal(t, g)
  BY SameSignal
<1>. QED BY <1>1, <1>2, <1>3

LEMMA SameGuardResume ==
  ASSUME NEW s, NEW p, NEW sig
  PROVE  Kernel!GuardResume(s, p, sig) = GuardResume(s, p, sig)
<1> DEFINE g == s.call[p].on
           mine == Entries(s, g, s.call[p].key)
           t == RemoveTicket(s, p, g)
           left == [t EXCEPT !.queue[g] = Leave(@, mine)]
<1>1. GuardResume(s, p, sig) =
        IF sig = "success" THEN Asserted(t, mine = {}, "guard_wait")
        ELSE IF mine # {} THEN left
        ELSE IF sig # "cancelled" THEN Signal(t, g) ELSE t
  BY DEF GuardResume
<1>2. Kernel!RemoveTicket(s, p, g) = t
  BY DEF Kernel!RemoveTicket, RemoveTicket, Kernel!NoTicket, NoTicket
<1>3. Kernel!Entries(s, g, s.call[p].key) = mine
  BY DEF Kernel!Entries, Entries
<1> HIDE DEF t, mine
<1>4. Kernel!Leave(t.queue[g], mine) = Leave(t.queue[g], mine)
  BY DEF Kernel!Leave, Leave, Kernel!Cardinality, Cardinality
<1>5. Kernel!Asserted(t, mine = {}, "guard_wait") = Asserted(t, mine = {}, "guard_wait")
  BY DEF Kernel!Asserted, Asserted
<1>6. Kernel!Signal(t, g) = Signal(t, g)
  BY SameSignal
<1>7. Kernel!GuardResume(s, p, sig) =
        IF sig = "success" THEN Kernel!Asserted(t, mine = {}, "guard_wait")
        ELSE IF mine # {} THEN [t EXCEPT !.queue[g] = Kernel!Leave(t.queue[g], mine)]
        ELSE IF sig # "cancelled" THEN Kernel!Signal(t, g) ELSE t
  BY <1>2, <1>3 DEF Kernel!GuardResume
<1>. QED BY <1>1, <1>4, <1>5, <1>6, <1>7

LEMMA SameCalls ==
  /\ \A s, p, sig : Kernel!Return(s, p, sig) = Return(s, p, sig)
  /\ \A s, p, fn, on, key : Kernel!Block(s, p, fn, on, key) = Block(s, p, fn, on, key)
  /\ \A s, p : Kernel!Finished(s, p) = Finished(s, p)
  /\ \A s, p : Kernel!CancelAwaiteds(s, p) = CancelAwaiteds(s, p)
  /\ \A s, p, sig : Kernel!WakeWaiters(s, p, sig) = WakeWaiters(s, p, sig)
  /\ \A s, p, q : Kernel!WaitProcess(s, p, q) = WaitProcess(s, p, q)
  /\ \A s, p, sig : Kernel!GuardResume(s, p, sig) = GuardResume(s, p, sig)
  /\ \A s, p, g : Kernel!GuardCancel(s, p, g) = GuardCancel(s, p, g)
  /\ \A s, p, pri : Kernel!PrioritySet(s, p, pri) = PrioritySet(s, p, pri)
  /\ \A s, p, delay, sig : Kernel!TimerAdd(s, p, delay, sig) = TimerAdd(s, p, delay, sig)
  /\ \A s, p, key : Kernel!TimerCancel(s, p, key) = TimerCancel(s, p, key)
  /\ \A s, p : Kernel!TimersClear(s, p) = TimersClear(s, p)
  /\ \A s : Kernel!FreshKey(s) = FreshKey(s)
  /\ \A s, kind, p, key, sig, delay, pri :
       Kernel!Schedule(s, kind, p, key, sig, delay, pri)
         = Schedule(s, kind, p, key, sig, delay, pri)
  /\ \A s, holds, name : Kernel!Asserted(s, holds, name) = Asserted(s, holds, name)
  /\ \A A : Kernel!First(A) = First(A)
  /\ \A s : Kernel!Dequeue(s) = Dequeue(s)
  /\ \A ws, x : Kernel!Unlink(ws, x) = Unlink(ws, x)
<1>1. \A s, p, sig : Kernel!Return(s, p, sig) = Return(s, p, sig)
  BY DEF Kernel!Return, Return, Kernel!Idle, Idle
<1>2. \A s, p, fn, on, key : Kernel!Block(s, p, fn, on, key) = Block(s, p, fn, on, key)
  BY DEF Kernel!Block, Block
<1>3. \A s, p : Kernel!Finished(s, p) = Finished(s, p)
  BY DEF Kernel!Finished, Finished, Kernel!Idle, Idle
<1>4. \A s, p : Kernel!CancelAwaiteds(s, p) = CancelAwaiteds(s, p)
  BY SameCancelAwaiteds
<1>5. \A s, p, sig : Kernel!WakeWaiters(s, p, sig) = WakeWaiters(s, p, sig)
  BY DEF Kernel!WakeWaiters, WakeWaiters, Kernel!Cardinality, Cardinality
<1>6. \A s, p, q : Kernel!WaitProcess(s, p, q) = WaitProcess(s, p, q)
  BY DEF Kernel!WaitProcess, WaitProcess, Kernel!Block, Block
<1>7. \A s, p, sig : Kernel!GuardResume(s, p, sig) = GuardResume(s, p, sig)
  BY SameGuardResume
<1>8. \A s, p, g : Kernel!GuardCancel(s, p, g) = GuardCancel(s, p, g)
  BY DEF Kernel!GuardCancel, GuardCancel, Kernel!Leave, Leave, Kernel!Schedule,
         Schedule, Kernel!Enter, Enter, Kernel!Cardinality, Cardinality, Kernel!Entries,
         Entries, Kernel!GuardKey, GuardKey
<1>9. \A s, p, pri : Kernel!PrioritySet(s, p, pri) = PrioritySet(s, p, pri)
  BY DEF Kernel!PrioritySet, PrioritySet, Kernel!Asserted, Asserted, Kernel!Entries,
         Entries, Kernel!TimerEvents, TimerEvents
<1>10. \A s, p, delay, sig : Kernel!TimerAdd(s, p, delay, sig) = TimerAdd(s, p, delay, sig)
  BY DEF Kernel!TimerAdd, TimerAdd, Kernel!FreshKey, FreshKey, Kernel!KeysInUse,
         KeysInUse, Kernel!Schedule, Schedule, Kernel!Enter, Enter, Kernel!Cardinality,
         Cardinality
<1>11. \A s, p, key : Kernel!TimerCancel(s, p, key) = TimerCancel(s, p, key)
  BY DEF Kernel!TimerCancel, TimerCancel, Kernel!TimerEvents, TimerEvents,
         Kernel!CancelEvents, CancelEvents, Kernel!Leave, Leave, Kernel!Cardinality,
         Cardinality
<1>12. \A s, p : Kernel!TimersClear(s, p) = TimersClear(s, p)
  BY DEF Kernel!TimersClear, TimersClear, Kernel!Asserted, Asserted,
         Kernel!TimerEvents, TimerEvents, Kernel!CancelEvents, CancelEvents, Kernel!Leave,
         Leave, Kernel!Cardinality, Cardinality
<1>13. \A s : Kernel!FreshKey(s) = FreshKey(s)
  BY DEF Kernel!FreshKey, FreshKey, Kernel!Cardinality, Cardinality, Kernel!KeysInUse,
         KeysInUse
<1>14. \A s, kind, p, key, sig, delay, pri :
        Kernel!Schedule(s, kind, p, key, sig, delay, pri)
          = Schedule(s, kind, p, key, sig, delay, pri)
  BY DEF Kernel!Schedule, Schedule, Kernel!Enter, Enter, Kernel!Cardinality,
         Cardinality
<1>15. \A s, holds, name : Kernel!Asserted(s, holds, name) = Asserted(s, holds, name)
  BY DEF Kernel!Asserted, Asserted
<1>16. \A A : Kernel!First(A) = First(A)
  BY DEF Kernel!First, First, Kernel!Before, Before
<1>17. \A s : Kernel!Dequeue(s) = Dequeue(s)
  BY DEF Kernel!Dequeue, Dequeue, Kernel!Leave, Leave, Kernel!Cardinality,
         Cardinality, Kernel!First, First, Kernel!Before, Before
<1>18. \A ws, x : Kernel!Unlink(ws, x) = Unlink(ws, x)
  BY DEF Kernel!Unlink, Unlink, Kernel!Occurrence, Occurrence
<1>. QED BY <1>1, <1>2, <1>3, <1>4, <1>5, <1>6, <1>7, <1>8, <1>9, <1>10, <1>11,
            <1>12, <1>13, <1>14, <1>15, <1>16, <1>17, <1>18

-----------------------------------------------------------------------------
(* The two records of who holds what agree, and holders are alive, those   *)
(* in dying apart.                                                         *)
Owned(s, dying) ==
  \A r \in Resource, p \in Process :
    /\ s.holder[r] = p => Once(s.held[p], r) /\ (p \in dying \/ s.status[p] = "running")
    /\ s.holder[r] # p => Never(s.held[p], r)

(* Whoever runs is alive.                                                  *)
RunnerAlive(s) == \A p \in Process : s.running = p => s.status[p] = "running"

Good(s) == Steady(s) /\ Owned(s, {})

Fit(s) == Good(s) /\ RunnerAlive(s)

LEMMA OwnersGood ==
  ASSUME NEW s, Good(s), NEW t, Steady(t), Owners(s, t) PROVE Good(t)
  BY DEF Good, Owners, Owned

LEMMA CalmGood ==
  ASSUME NEW s, Good(s), NEW t, Calm(s, t)
  PROVE  Good(t) /\ t.running = s.running /\ t.status = s.status /\ t.call = s.call
  BY OwnersGood DEF Calm, Still, Owners

LEMMA CalmFit ==
  ASSUME NEW s, Fit(s), NEW t, Calm(s, t) PROVE Fit(t)
  BY CalmGood DEF Fit, RunnerAlive

(* A process has blocked.                                                  *)
LEMMA BlockedFit ==
  ASSUME NEW s, Good(s), NEW t, Steady(t), Owners(s, t), t.running = NoOne
  PROVE  Fit(t)
  BY NullAssumption, OwnersGood DEF Fit, RunnerAlive

LEMMA ReturnFit ==
  ASSUME NEW s, Good(s), NEW p \in Process, s.status[p] = "running", NEW sig
  PROVE  Fit(Return(s, p, sig))
<1> DEFINE t == Return(s, p, sig)
<1>1. Steady(t) /\ Owners(s, t) /\ t.running = p
  BY ReturnSteady DEF Good
<1> HIDE DEF t
<1>2. Fit(t)
  BY <1>1, OwnersGood DEF Fit, RunnerAlive, Owners
<1>. QED BY <1>2 DEF t

LEMMA GrabGood ==
  ASSUME NEW s, Good(s), NEW p \in Process, s.status[p] = "running",
         NEW r \in Resource, s.holder[r] = NoOne
  PROVE  LET t == Grab(s, p, r)
         IN  /\ Good(t) /\ t.running = s.running /\ t.call = s.call
             /\ t.status = s.status
<1> DEFINE holder == [s.holder EXCEPT ![r] = p]
           t == [s EXCEPT !.holder = holder]
           list == <<r>> \o t.held[p]
           lists == [t.held EXCEPT ![p] = list]
           u == [t EXCEPT !.held = lists]
<1>1. Grab(s, p, r) = u
  BY DEF Grab
<1>2. Steady(s) /\ Owned(s, {})
  BY DEF Good
<1>3. holder \in [Resource -> Process \cup {NoOne}]
  BY <1>2 DEF Steady
<1> HIDE DEF holder
<1>4. /\ Steady(t) /\ t.holder = holder /\ t.held = s.held
      /\ t.running = s.running /\ t.call = s.call /\ t.status = s.status
  BY <1>2, <1>3, HolderSet
<1> HIDE DEF t
<1>5. s.held \in [Process -> Seq(Resource)]
  BY <1>2 DEF Steady, ListsOK
<1>6. \A q \in Process : s.holder[r] # q
  BY NullAssumption
<1>7. Never(s.held[p], r)
  BY <1>2, <1>6 DEF Owned
<1>8. /\ list \in Seq(Resource) /\ Once(list, r)
      /\ \A x : x # r => /\ Never(s.held[p], x) => Never(list, x)
                         /\ Once(s.held[p], x) => Once(list, x)
  BY <1>4, <1>5, <1>7, PrependKeeps
<1> HIDE DEF list
<1>9. lists \in [Process -> Seq(Resource)]
  BY <1>4, <1>5, <1>8
<1>10. lists[p] = list /\ \A q \in Process : q # p => lists[q] = s.held[q]
  BY <1>4, <1>5
<1> HIDE DEF lists
<1>11. /\ Steady(u) /\ u.holder = holder /\ u.held = lists
       /\ u.running = s.running /\ u.call = s.call /\ u.status = s.status
  BY <1>4, <1>9, HeldSet
<1> HIDE DEF u
<1>12. holder[r] = p /\ \A x \in Resource : x # r => holder[x] = s.holder[x]
  BY <1>2 DEF holder, Steady
<1>13. Owned(u, {})
  <2> SUFFICES ASSUME NEW x \in Resource, NEW q \in Process
               PROVE  /\ holder[x] = q => Once(lists[q], x) /\ s.status[q] = "running"
                      /\ holder[x] # q => Never(lists[q], x)
    BY <1>11 DEF Owned
  <2>1. /\ s.holder[x] = q => Once(s.held[q], x) /\ s.status[q] = "running"
        /\ s.holder[x] # q => Never(s.held[q], x)
    BY <1>2 DEF Owned
  <2>2. CASE x = r /\ q = p
    BY <1>8, <1>10, <1>12, <2>2
  <2>3. CASE x = r /\ q # p
    BY <1>6, <1>10, <1>12, <2>1, <2>3
  <2>4. CASE x # r /\ q = p
    BY <1>8, <1>10, <1>12, <2>1, <2>4
  <2>5. CASE x # r /\ q # p
    BY <1>10, <1>12, <2>1, <2>5
  <2>. QED BY <2>2, <2>3, <2>4, <2>5
<1>. QED BY <1>1, <1>11, <1>13 DEF Good

(* A resource is taken from its holder.                                    *)
Taken(s, p, r, t) ==
  /\ Steady(t) /\ t.status = s.status
  /\ t.holder = [s.holder EXCEPT ![r] = NoOne]
  /\ t.held = [s.held EXCEPT ![p] = Unlink(s.held[p], r)]

LEMMA TakenGood ==
  ASSUME NEW s, Good(s), NEW p \in Process, NEW r \in Resource, s.holder[r] = p,
         NEW t, Taken(s, p, r, t)
  PROVE  Good(t)
<1> DEFINE list == Unlink(s.held[p], r)
<1>1. Steady(s) /\ Owned(s, {})
  BY DEF Good
<1>2. s.held \in [Process -> Seq(Resource)] /\ DOMAIN s.holder = Resource
  BY <1>1 DEF Steady, ListsOK
<1>3. Once(s.held[p], r)
  BY <1>1 DEF Owned
<1>4. /\ Never(list, r)
      /\ \A x : x # r => /\ Never(s.held[p], x) => Never(list, x)
                         /\ Once(s.held[p], x) => Once(list, x)
  BY <1>2, <1>3, UnlinkKeeps
<1> HIDE DEF list
<1>5. t.held[p] = list /\ \A q \in Process : q # p => t.held[q] = s.held[q]
  BY <1>2 DEF Taken, list
<1>6. t.holder[r] = NoOne /\ \A x \in Resource : x # r => t.holder[x] = s.holder[x]
  BY <1>2 DEF Taken
<1>7. \A q \in Process : NoOne # q
  BY NullAssumption
<1>8. Steady(t) /\ t.status = s.status
  BY DEF Taken
<1>9. Owned(t, {})
  <2> SUFFICES ASSUME NEW x \in Resource, NEW q \in Process
               PROVE  /\ t.holder[x] = q => Once(t.held[q], x) /\ t.status[q] = "running"
                      /\ t.holder[x] # q => Never(t.held[q], x)
    BY DEF Owned
  <2>1. /\ s.holder[x] = q => Once(s.held[q], x) /\ s.status[q] = "running"
        /\ s.holder[x] # q => Never(s.held[q], x)
    BY <1>1 DEF Owned
  <2>2. CASE x = r /\ q = p
    BY <1>4, <1>5, <1>6, <1>7, <2>2
  <2>3. CASE x = r /\ q # p
    BY <1>5, <1>6, <1>7, <2>1, <2>3
  <2>4. CASE x # r /\ q = p
    BY <1>4, <1>5, <1>6, <1>8, <2>1, <2>4
  <2>5. CASE x # r /\ q # p
    BY <1>5, <1>6, <1>8, <2>1, <2>5
  <2>. QED BY <2>2, <2>3, <2>4, <2>5
<1>. QED BY <1>8, <1>9 DEF Good

LEMMA FreedOwned ==
  ASSUME NEW s, Steady(s), NEW dying, Owned(s, dying), NEW p \in Process,
         NEW t, Freed(s, p, t)
  PROVE  Owned(t, dying \ {p}) /\ \A r \in Resource : t.holder[r] # p
<1>1. s.held \in [Process -> Seq(Resource)]
  BY DEF Steady, ListsOK
<1>2. t.held[p] = <<>> /\ \A q \in Process : q # p => t.held[q] = s.held[q]
  BY <1>1 DEF Freed
<1>3. \A r \in Resource : t.holder[r] = IF Never(s.held[p], r) THEN s.holder[r] ELSE NoOne
  BY DEF Freed
<1>4. \A q \in Process : NoOne # q
  BY NullAssumption
<1>5. \A ws, x : ~(Once(ws, x) /\ Never(ws, x))
  BY DEF Once, Never
<1>6. \A r \in Resource : t.holder[r] # p
  BY <1>3, <1>4, <1>5 DEF Owned
<1>7. ASSUME NEW r \in Resource, NEW q \in Process, q # p
      PROVE  t.holder[r] = q <=> s.holder[r] = q
  <2>1. CASE Never(s.held[p], r)
    BY <1>3, <2>1
  <2>2. CASE ~Never(s.held[p], r)
    <3>1. s.holder[r] = p
      BY <2>2 DEF Owned
    <3>. QED BY <1>3, <1>4, <1>7, <2>2, <3>1
  <2>. QED BY <2>1, <2>2
<1>8. \A r : Never(<<>>, r)
  BY DEF Never
<1>9. t.status = s.status
  BY DEF Freed
<1>10. Owned(t, dying \ {p})
  <2> SUFFICES ASSUME NEW r \in Resource, NEW q \in Process
               PROVE  /\ t.holder[r] = q =>
                           /\ Once(t.held[q], r)
                           /\ q \in dying \ {p} \/ t.status[q] = "running"
                      /\ t.holder[r] # q => Never(t.held[q], r)
    BY DEF Owned
  <2>1. CASE q = p
    BY <1>2, <1>6, <1>8, <2>1
  <2>2. CASE q # p
    BY <1>2, <1>7, <1>9, <2>2 DEF Owned
  <2>. QED BY <2>1, <2>2
<1>. QED BY <1>6, <1>10

-----------------------------------------------------------------------------
(* A blocked call goes on.                                                 *)
LEMMA AcquireLoopFit ==
  ASSUME NEW s, Good(s), NEW p \in Process, s.status[p] = "running",
         NEW r \in Resource, NEW mayGrab
  PROVE  Fit(AcquireLoop(s, p, r, mayGrab))
<1>1. CASE s.holder[r] = NoOne /\ mayGrab
  <2> DEFINE t == Grab(s, p, r)
  <2>1. Good(t) /\ t.status = s.status
    BY <1>1, GrabGood
  <2> HIDE DEF t
  <2>2. Fit(Return(t, p, "success"))
    BY <2>1, ReturnFit
  <2>. QED BY <1>1, <2>2 DEF AcquireLoop, t
<1>2. CASE ~(s.holder[r] = NoOne /\ mayGrab)
  <2> DEFINE t == GuardWait(s, p, "acquire", r)
  <2>1. Steady(t) /\ Owners(s, t) /\ t.running = NoOne
    BY GuardWaitSteady DEF Good
  <2> HIDE DEF t
  <2>2. Fit(t)
    BY <2>1, BlockedFit
  <2>. QED BY <1>2, <2>2 DEF AcquireLoop, t
<1>. QED BY <1>1, <1>2

LEMMA ContinuedFit ==
  ASSUME NEW s, Good(s), NEW p \in Process, s.status[p] = "running",
         s.call[p].on \in Resource, NEW sig
  PROVE  Fit(Continued(s, p, sig))
  BY AcquireLoopFit, ReturnFit DEF Continued

LEMMA ResumedFit ==
  ASSUME NEW s, Good(s), NEW p \in Process, s.status[p] = "running", NEW sig
  PROVE  Fit(Resumed(s, p, sig))
<1> DEFINE c == s.call[p]
<1>1. Steady(s) /\ CallOK(c)
  BY DEF Good, Steady, CallsOK
<1>2. CASE c.fn = "hold"
  <2> DEFINE t == IF sig = "success" THEN s ELSE TimerCancel(s, p, c.key)
  <2>1. Resumed(s, p, sig) = Return(t, p, sig)
    BY <1>2, SameCalls DEF Resumed
  <2>2. Good(t) /\ t.status = s.status
    BY <1>1, TimerCancelCalm, CalmGood
  <2> HIDE DEF t
  <2>. QED BY <2>1, <2>2, ReturnFit
<1>3. CASE c.fn = "join"
  <2> DEFINE lists == [s.waiters EXCEPT ![c.on] = Unlink(s.waiters[c.on], p)]
             t == [s EXCEPT !.waiters = lists]
             x == IF t.joins[p] = c.on THEN NoOne ELSE t.joins[p]
             u == [t EXCEPT !.joins = [t.joins EXCEPT ![p] = x]]
  <2>1. Resumed(s, p, sig) = Return(u, p, sig)
    BY <1>3, SameCalls DEF Resumed
  <2>2. lists \in [Process -> Seq(Process)]
    <3>1. s.waiters \in [Process -> Seq(Process)]
      BY <1>1 DEF Steady, ListsOK
    <3>2. \A q \in Process : Unlink(s.waiters[q], p) \in Seq(Process)
      BY <3>1, UnlinkKeeps
    <3>. QED BY <3>1, <3>2
  <2> HIDE DEF lists
  <2>3. Calm(s, t)
    BY <1>1, <2>2, WaitersSet
  <2> HIDE DEF t, x
  <2>4. Calm(t, u)
    BY <2>3, FreeSet DEF Calm
  <2> HIDE DEF u
  <2>5. Good(u) /\ u.status = s.status
    BY <2>3, <2>4, CalmTransitive, CalmGood
  <2>. QED BY <2>1, <2>5, ReturnFit
<1>4. CASE c.fn \in {"yield", "none"}
  <2>1. Resumed(s, p, sig) = Return(s, p, sig)
    BY <1>4, SameCalls DEF Resumed
  <2>. QED BY <2>1, ReturnFit
<1>5. CASE c.fn = "acquire"
  <2> DEFINE t == GuardResume(s, p, sig)
  <2>1. Resumed(s, p, sig) = Continued(t, p, sig)
    BY <1>5, SameCalls DEF Resumed
  <2>2. c.on \in Resource
    BY <1>1, <1>5 DEF CallOK
  <2>3. Calm(s, t)
    BY <1>1, <2>2, GuardResumeCalm
  <2> HIDE DEF t
  <2>4. Good(t) /\ t.status = s.status /\ t.call = s.call
    BY <2>3, CalmGood
  <2>. QED BY <2>1, <2>2, <2>4, ContinuedFit
<1>. QED BY <1>1, <1>2, <1>3, <1>4, <1>5 DEF CallOK

LEMMA ResumedIfAliveFit ==
  ASSUME NEW s, Fit(s), NEW p \in Process, NEW sig
  PROVE  Fit(ResumedIfAlive(s, p, sig))
  BY ResumedFit DEF ResumedIfAlive, Fit

LEMMA AssertedFit ==
  ASSUME NEW s, Fit(s), NEW holds, NEW name
  PROVE  Fit(Asserted(s, holds, name))
  BY AssertedCalm, CalmFit DEF Fit, Good

(* The actions of the events.                                              *)
LEMMA StartEventFit ==
  ASSUME NEW s, Fit(s), NEW p \in Process
  PROVE  Fit(StartEvent(s, p))
<1> DEFINE x == [s.status EXCEPT ![p] = "running"]
           t == [s EXCEPT !.status = x]
           u == Return(t, p, "success")
<1>1. StartEvent(s, p) = Asserted(u, s.status[p] # "running", "coroutine_start")
  BY SameCalls DEF StartEvent
<1>2. Steady(s) /\ Owned(s, {})
  BY DEF Fit, Good
<1>3. /\ DOMAIN x = Process /\ x[p] = "running"
      /\ \A q \in Process : s.status[q] = "running" => x[q] = "running"
  BY <1>2 DEF Steady
<1> HIDE DEF x
<1>4. Steady(t) /\ t.holder = s.holder /\ t.held = s.held /\ t.status = x
  BY <1>2, <1>3, StatusSet
<1> HIDE DEF t
<1>5. Good(t) /\ t.status[p] = "running"
  BY <1>2, <1>3, <1>4 DEF Good, Owned
<1>6. Fit(u)
  BY <1>5, ReturnFit
<1> HIDE DEF u
<1>. QED BY <1>1, <1>6, AssertedFit

LEMMA WakeupTimeFit ==
  ASSUME NEW s, Fit(s), NEW p \in Process, NEW key, NEW sig
  PROVE  Fit(WakeupTime(s, p, key, sig))
<1> DEFINE t == [s EXCEPT !.timers = [s.timers EXCEPT ![p] = s.timers[p] \ {key}]]
<1>1. WakeupTime(s, p, key, sig)
        = IF key \notin s.timers[p] THEN s ELSE ResumedIfAlive(t, p, sig)
  BY DEF WakeupTime
<1>2. Calm(s, t)
  BY FreeSet DEF Fit, Good
<1> HIDE DEF t
<1>3. Fit(ResumedIfAlive(t, p, sig))
  BY <1>2, CalmFit, ResumedIfAliveFit
<1>. QED BY <1>1, <1>3

LEMMA WakeupGuardFit ==
  ASSUME NEW s, Fit(s), NEW p \in Process, NEW key, NEW sig
  PROVE  Fit(WakeupGuard(s, p, key, sig))
  BY ResumedIfAliveFit DEF WakeupGuard

LEMMA WakeupProcessFit ==
  ASSUME NEW s, Fit(s), NEW p \in Process, NEW sig
  PROVE  Fit(WakeupProcess(s, p, sig))
<1> DEFINE t == [s EXCEPT !.joins = [s.joins EXCEPT ![p] = NoOne]]
           u == IF s.joins[p] = NoOne THEN s ELSE ResumedIfAlive(t, p, sig)
           holds == \/ s.joins[p] # NoOne
                    \/ s.timers[p] # {}
                    \/ s.ticket[p] # Kernel!NoTicket
<1>1. WakeupProcess(s, p, sig) = Asserted(u, holds, "wakeup_event_process")
  BY SameCalls DEF WakeupProcess
<1> HIDE DEF holds
<1>2. Calm(s, t)
  BY FreeSet DEF Fit, Good
<1> HIDE DEF t
<1>3. Fit(u)
  BY <1>2, CalmFit, ResumedIfAliveFit
<1> HIDE DEF u
<1>. QED BY <1>1, <1>3, AssertedFit

LEMMA WakeupInterruptFit ==
  ASSUME NEW s, Fit(s), NEW p \in Process, NEW sig
  PROVE  Fit(WakeupInterrupt(s, p, sig))
<1> DEFINE t == CancelAwaiteds(s, p)
<1>1. WakeupInterrupt(s, p, sig)
        = IF s.status[p] = "running" THEN Resumed(t, p, sig) ELSE s
  BY SameCalls DEF WakeupInterrupt
<1>2. Calm(s, t)
  BY CancelAwaitedsCalm DEF Fit, Good
<1> HIDE DEF t
<1>3. Good(t) /\ t.status = s.status
  BY <1>2, CalmGood DEF Fit
<1>. QED BY <1>1, <1>3, ResumedFit

LEMMA ExecutedFit ==
  ASSUME NEW s, Fit(s), s.agenda # {}
  PROVE  Fit(Executed(s))
<1> DEFINE e == First(s.agenda)
           t == Dequeue(s)
<1>1. Executed(s) =
        CASE e.kind = "start" -> StartEvent(t, e.proc)
          [] e.kind = "time" -> WakeupTime(t, e.proc, e.key, e.sig)
          [] e.kind \in {"grant", "cancelled"} -> WakeupGuard(t, e.proc, e.key, e.sig)
          [] e.kind = "process" -> WakeupProcess(t, e.proc, e.sig)
          [] e.kind = "interrupt" -> WakeupInterrupt(t, e.proc, e.sig)
          [] e.kind \in {"preempt", "resume"} -> ResumedIfAlive(t, e.proc, e.sig)
  BY SameCalls DEF Executed
<1>2. Calm(s, t) /\ EventOK(e)
  BY DequeueCalm DEF Fit, Good
<1> HIDE DEF t, e
<1>3. Fit(t) /\ e.proc \in Process /\ e.kind \in Kinds
  BY <1>2, CalmFit DEF EventOK
<1>4. CASE e.kind = "start"
  BY <1>1, <1>3, <1>4, StartEventFit
<1>5. CASE e.kind = "time"
  BY <1>1, <1>3, <1>5, WakeupTimeFit
<1>6. CASE e.kind \in {"grant", "cancelled"}
  BY <1>1, <1>3, <1>6, WakeupGuardFit
<1>7. CASE e.kind = "process"
  BY <1>1, <1>3, <1>7, WakeupProcessFit
<1>8. CASE e.kind = "interrupt"
  BY <1>1, <1>3, <1>8, WakeupInterruptFit
<1>9. CASE e.kind \in {"preempt", "resume"}
  BY <1>1, <1>3, <1>9, ResumedIfAliveFit
<1>. QED BY <1>3, <1>4, <1>5, <1>6, <1>7, <1>8, <1>9 DEF Kinds

-----------------------------------------------------------------------------
(* A process ends.                                                         *)
LEMMA FinishedSteady ==
  ASSUME NEW s, Steady(s), NEW p \in Process
  PROVE  LET t == Finished(s, p)
         IN  /\ Steady(t) /\ t.holder = s.holder /\ t.held = s.held
             /\ t.running = s.running
             /\ \A q \in Process : q # p => t.status[q] = s.status[q]
<1> DEFINE x == [s.status EXCEPT ![p] = "finished"]
           calls == [s.call EXCEPT ![p] = Idle]
           u == [s EXCEPT !.status = x]
           v == [u EXCEPT !.call = calls]
           w == [v EXCEPT !.untold = [v.untold EXCEPT ![p] = {}]]
<1>1. Finished(s, p) = w
  BY DEF Finished
<1>2. DOMAIN x = Process /\ \A q \in Process : q # p => x[q] = s.status[q]
  BY DEF Steady
<1>3. CallsOK(calls)
  <2>1. CallOK(Idle)
    BY DEF CallOK, Idle
  <2>. QED BY <2>1 DEF Steady, CallsOK
<1> HIDE DEF x, calls
<1>4. /\ Steady(u) /\ u.holder = s.holder /\ u.held = s.held
      /\ u.running = s.running /\ u.status = x
  BY <1>2, StatusSet
<1> HIDE DEF u
<1>5. Steady(v) /\ Owners(u, v) /\ v.running = u.running
  BY <1>3, <1>4, CallSet
<1> HIDE DEF v
<1>6. Calm(v, w)
  BY <1>5, FreeSet
<1> HIDE DEF w
<1>. QED BY <1>1, <1>2, <1>4, <1>5, <1>6 DEF Calm, Still, Owners

LEMMA StoppedFit ==
  ASSUME NEW s, Fit(s), NEW q \in Process, s.running # q, NEW sig
  PROVE  Fit(WakeWaiters(Dropped(CancelAwaiteds(Finished(s, q), q), q), q, sig))
<1> DEFINE a == Finished(s, q)
           b == CancelAwaiteds(a, q)
           c == Dropped(b, q)
           d == WakeWaiters(c, q, sig)
<1>1. Steady(s) /\ Owned(s, {}) /\ RunnerAlive(s)
  BY DEF Fit, Good
<1>2. /\ Steady(a) /\ a.holder = s.holder /\ a.held = s.held /\ a.running = s.running
      /\ \A p \in Process : p # q => a.status[p] = s.status[p]
  BY <1>1, FinishedSteady
<1> HIDE DEF a
<1>3. Owned(a, {q}) /\ RunnerAlive(a)
  <2>1. RunnerAlive(a)
    BY <1>1, <1>2 DEF RunnerAlive
  <2>2. Owned(a, {q})
    BY <1>1, <1>2 DEF Owned
  <2>. QED BY <2>1, <2>2
<1>4. Calm(a, b)
  BY <1>2, CancelAwaitedsCalm
<1> HIDE DEF b
<1>5. Steady(b) /\ Owned(b, {q}) /\ b.running = a.running /\ b.status = a.status
  BY <1>3, <1>4 DEF Calm, Still, Owners, Owned
<1>6. Freed(b, q, c)
  BY <1>5, DroppedFreed
<1> HIDE DEF c
<1>7. Owned(c, {q} \ {q})
  BY <1>5, <1>6, FreedOwned
<1>8. Steady(c) /\ c.running = a.running /\ c.status = a.status
  BY <1>5, <1>6 DEF Freed
<1>9. Owned(c, {})
  BY <1>7 DEF Owned
<1>10. Fit(c)
  BY <1>3, <1>8, <1>9 DEF Fit, Good, RunnerAlive
<1>11. Calm(c, d)
  BY <1>8, WakeWaitersCalm
<1> HIDE DEF d
<1>12. Fit(d)
  BY <1>10, <1>11, CalmFit
<1>. QED BY <1>12 DEF a, b, c, d

LEMMA ExitedFit ==
  ASSUME NEW s, Fit(s), NEW p \in Process, NEW sig
  PROVE  LET t == Finished(WakeWaiters(CancelAwaiteds(Dropped(s, p), p), p, sig), p)
         IN  Fit([t EXCEPT !.running = NoOne])
<1> DEFINE a == Dropped(s, p)
           b == CancelAwaiteds(a, p)
           c == WakeWaiters(b, p, sig)
           t == Finished(c, p)
           u == [t EXCEPT !.running = NoOne]
<1>1. Steady(s) /\ Owned(s, {})
  BY DEF Fit, Good
<1>2. Freed(s, p, a)
  BY <1>1, DroppedFreed
<1> HIDE DEF a
<1>3. Owned(a, {} \ {p}) /\ \A r \in Resource : a.holder[r] # p
  BY <1>1, <1>2, FreedOwned
<1>4. Steady(a) /\ Owned(a, {})
  <2>1. Owned(a, {})
    BY <1>3 DEF Owned
  <2>. QED BY <1>2, <2>1 DEF Freed
<1>5. Calm(a, b)
  BY <1>4, CancelAwaitedsCalm
<1> HIDE DEF b
<1>6. Calm(b, c)
  BY <1>5, WakeWaitersCalm DEF Calm
<1> HIDE DEF c
<1>7. Calm(a, c)
  BY <1>5, <1>6, CalmTransitive
<1>8. /\ Steady(t) /\ t.holder = c.holder /\ t.held = c.held
      /\ \A q \in Process : q # p => t.status[q] = c.status[q]
  BY <1>7, FinishedSteady DEF Calm
<1> HIDE DEF t
<1>9. t.holder = a.holder /\ t.held = a.held /\ c.status = a.status
  BY <1>7, <1>8 DEF Calm, Still, Owners
<1>10. Owned(t, {})
  BY <1>3, <1>4, <1>8, <1>9 DEF Owned
<1>11. Good(t)
  BY <1>8, <1>10 DEF Good
<1>12. Steady(u) /\ Owners(t, u) /\ u.running = NoOne
  BY <1>8, RunningSet
<1> HIDE DEF u
<1>13. Fit(u)
  BY <1>11, <1>12, BlockedFit
<1>. QED BY <1>13 DEF a, b, c, t, u

-----------------------------------------------------------------------------
(* The calls of the client.                                                *)
LEMMA CallerAlive ==
  ASSUME Fit(sys), NEW p \in Process, NEW op, Calling(p, op)
  PROVE  /\ Good(sys) /\ Steady(sys)
         /\ sys.running = p /\ sys.status[p] = "running"
  BY DEF Fit, Good, RunnerAlive, Calling

LEMMA ClientPriorities ==
  /\ \A pri \in Urgency : pri \in Int
  /\ \A p \in Process : \A pri \in Ranks[p] : pri \in Int
  /\ \A d \in Duration : d \in Int
  BY ClientAssumption

LEMMA HoldFit ==
  ASSUME Fit(sys), NEW p \in Process, NEW d \in Duration, Hold(p, d)
  PROVE  Fit(sys')
<1> DEFINE k == FreshKey(sys)
           t == TimerAdd(sys, p, d, "success")
           u == Block(t, p, "hold", NoOne, k)
<1>1. Good(sys) /\ Steady(sys)
  BY CallerAlive DEF Hold
<1>2. sys' = u
  BY SameCalls DEF Hold
<1> HIDE DEF k
<1>3. Calm(sys, t)
  BY <1>1, ClientPriorities, TimerAddCalm
<1> HIDE DEF t
<1>4. Good(t)
  BY <1>1, <1>3, CalmGood
<1>5. Steady(u) /\ Owners(t, u) /\ u.running = NoOne
  BY <1>4, BlockSteady DEF Good
<1> HIDE DEF u
<1>. QED BY <1>2, <1>4, <1>5, BlockedFit

LEMMA YieldFit ==
  ASSUME Fit(sys), NEW p \in Process, Yield(p)
  PROVE  Fit(sys')
<1> DEFINE u == Block(sys, p, "yield", NoOne, 0)
<1>1. Good(sys) /\ Steady(sys)
  BY CallerAlive DEF Yield
<1>2. sys' = u
  BY SameCalls DEF Yield
<1>3. Steady(u) /\ Owners(sys, u) /\ u.running = NoOne
  BY <1>1, BlockSteady
<1> HIDE DEF u
<1>. QED BY <1>1, <1>2, <1>3, BlockedFit

LEMMA SetTimerFit ==
  ASSUME Fit(sys), NEW p \in Process, NEW d \in Duration, SetTimer(p, d)
  PROVE  Fit(sys')
<1> DEFINE t == TimerAdd(sys, p, d, "timeout")
<1>1. sys' = t
  BY SameCalls DEF SetTimer
<1>2. Calm(sys, t)
  BY ClientPriorities, TimerAddCalm DEF Fit, Good
<1> HIDE DEF t
<1>. QED BY <1>1, <1>2, CalmFit

LEMMA ClearTimersFit ==
  ASSUME Fit(sys), NEW p \in Process, ClearTimers(p)
  PROVE  Fit(sys')
<1> DEFINE t == TimersClear(sys, p)
<1>1. sys' = t
  BY SameCalls DEF ClearTimers
<1>2. Calm(sys, t)
  BY TimersClearCalm DEF Fit, Good
<1> HIDE DEF t
<1>. QED BY <1>1, <1>2, CalmFit

(* Interrupt, Resume and Start schedule an event.                          *)
LEMMA ScheduleFit ==
  ASSUME NEW s, Fit(s), NEW kind \in Kinds, NEW p \in Process, NEW sig,
         NEW pri \in Int
  PROVE  Fit(Schedule(s, kind, p, 0, sig, 0, pri))
  BY ScheduleCalm, CalmFit DEF Fit, Good

LEMMA InterruptFit ==
  ASSUME Fit(sys), NEW p \in Process, NEW q \in Process, NEW pri \in Urgency,
         Interrupt(p, q, pri)
  PROVE  Fit(sys')
<1>1. sys' = Schedule(sys, "interrupt", q, 0, "interrupted", 0, pri)
  BY SameCalls DEF Interrupt
<1>2. "interrupt" \in Kinds
  BY DEF Kinds
<1>. QED BY <1>1, <1>2, ClientPriorities, ScheduleFit

LEMMA ResumeFit ==
  ASSUME Fit(sys), NEW p \in Process, NEW q \in Process, Resume(p, q)
  PROVE  Fit(sys')
<1>1. sys' = Schedule(sys, "resume", q, 0, "success", 0, sys.prio[q])
  BY SameCalls DEF Resume
<1>2. "resume" \in Kinds /\ sys.prio[q] \in Int
  BY DEF Kinds, Fit, Good, Steady
<1>. QED BY <1>1, <1>2, ScheduleFit

LEMMA StartFit ==
  ASSUME Fit(sys), NEW p \in Process, NEW q \in Process, Start(p, q)
  PROVE  Fit(sys')
<1>1. sys' = Schedule(sys, "start", q, 0, "success", 0, sys.prio[q])
  BY SameCalls DEF Start
<1>2. "start" \in Kinds /\ sys.prio[q] \in Int
  BY DEF Kinds, Fit, Good, Steady
<1>. QED BY <1>1, <1>2, ScheduleFit

LEMMA StopFit ==
  ASSUME Fit(sys), NEW p \in Process, NEW q \in Process, Stop(p, q)
  PROVE  Fit(sys')
<1>1. sys' = WakeWaiters(Dropped(CancelAwaiteds(Finished(sys, q), q), q), q, "stopped")
  BY SameCalls DEF Stop
<1>2. sys.running # q
  BY DEF Stop, Calling
<1>. QED BY <1>1, <1>2, StoppedFit

LEMMA ExitFit ==
  ASSUME Fit(sys), NEW p \in Process, Exit(p)
  PROVE  Fit(sys')
<1> DEFINE t == Finished(WakeWaiters(CancelAwaiteds(Dropped(sys, p), p), p, "success"), p)
<1>1. sys' = [t EXCEPT !.running = NoOne]
  BY SameCalls DEF Exit
<1>2. Fit([t EXCEPT !.running = NoOne])
  BY ExitedFit
<1>. QED BY <1>1, <1>2

LEMMA SetPriorityFit ==
  ASSUME Fit(sys), NEW p \in Process, NEW q \in Process, NEW pri \in Ranks[q],
         SetPriority(p, q, pri)
  PROVE  Fit(sys')
<1> DEFINE t == PrioritySet(sys, q, pri)
<1>1. sys' = t
  BY SameCalls DEF SetPriority, Reprioritized
<1>2. Calm(sys, t)
  BY ClientPriorities, PrioritySetCalm DEF Fit, Good
<1> HIDE DEF t
<1>. QED BY <1>1, <1>2, CalmFit

LEMMA JoinFit ==
  ASSUME Fit(sys), NEW p \in Process, NEW q \in Process, Join(p, q)
  PROVE  Fit(sys')
<1> DEFINE t == WaitProcess(sys, p, q)
<1>1. sys' = t
  BY SameCalls DEF Join
<1>2. Good(sys) /\ Steady(sys)
  BY CallerAlive DEF Join
<1>3. Steady(t) /\ Owners(sys, t) /\ t.running = NoOne
  BY <1>2, WaitProcessSteady
<1> HIDE DEF t
<1>. QED BY <1>1, <1>2, <1>3, BlockedFit

LEMMA CancelFit ==
  ASSUME Fit(sys), NEW p \in Process, NEW q \in Process, NEW g \in Resource,
         Cancel(p, q, g)
  PROVE  Fit(sys')
<1> DEFINE t == GuardCancel(sys, q, g)
<1>1. sys' = t
  BY SameCalls DEF Cancel
<1>2. Calm(sys, t)
  BY GuardCancelCalm DEF Fit, Good
<1> HIDE DEF t
<1>. QED BY <1>1, <1>2, CalmFit

LEMMA AcquireFit ==
  ASSUME Fit(sys), NEW p \in Process, NEW r \in Resource, Acquire(p, r)
  PROVE  Fit(sys')
<1>1. Good(sys) /\ sys.status[p] = "running"
  BY CallerAlive DEF Acquire
<1>2. sys' = AcquireLoop(sys, p, r, sys.queue[r] = {})
  BY DEF Acquire
<1>. QED BY <1>1, <1>2, AcquireLoopFit

(* A grab by the running process.                                          *)
LEMMA GrabFit ==
  ASSUME NEW s, Fit(s), NEW p \in Process, s.status[p] = "running",
         NEW r \in Resource, s.holder[r] = NoOne
  PROVE  Fit(Grab(s, p, r))
<1> DEFINE t == Grab(s, p, r)
<1>1. Good(t) /\ t.running = s.running /\ t.status = s.status
  BY GrabGood DEF Fit
<1> HIDE DEF t
<1>2. Fit(t)
  BY <1>1 DEF Fit, RunnerAlive
<1>. QED BY <1>2 DEF t

LEMMA EvictedFit ==
  ASSUME NEW s, Fit(s), NEW r \in Resource, NEW q \in Process, s.holder[r] = q
  PROVE  LET t == Evicted(s, q, r)
         IN  Fit(t) /\ t.status = s.status /\ t.holder[r] = NoOne
<1> DEFINE list == Unlink(s.held[q], r)
           lists == [s.held EXCEPT ![q] = list]
           a == [s EXCEPT !.held = lists]
           b == CancelAwaiteds(a, q)
           holder == [b.holder EXCEPT ![r] = NoOne]
           c == [b EXCEPT !.holder = holder]
           d == [c EXCEPT !.untold = [c.untold EXCEPT ![q] = c.untold[q] \cup {r}]]
           t == Schedule(d, "preempt", q, 0, "preempted", 0, s.prio[q])
<1>1. Steady(s) /\ Owned(s, {}) /\ RunnerAlive(s)
  BY DEF Fit, Good
<1>2. Evicted(s, q, r) = t
  BY DEF Evicted
<1>3. lists \in [Process -> Seq(Resource)]
  <2>1. s.held \in [Process -> Seq(Resource)]
    BY <1>1 DEF Steady, ListsOK
  <2>2. list \in Seq(Resource)
    BY <2>1, UnlinkKeeps
  <2>. QED BY <2>1, <2>2
<1> HIDE DEF lists
<1>4. /\ Steady(a) /\ a.holder = s.holder /\ a.held = lists
      /\ a.running = s.running /\ a.status = s.status
  BY <1>1, <1>3, HeldSet
<1> HIDE DEF a
<1>5. Calm(a, b)
  BY <1>4, CancelAwaitedsCalm
<1> HIDE DEF b
<1>6. /\ Steady(b) /\ b.holder = s.holder /\ b.held = lists
      /\ b.running = s.running /\ b.status = s.status
  BY <1>4, <1>5 DEF Calm, Still, Owners
<1>7. holder \in [Resource -> Process \cup {NoOne}] /\ holder[r] = NoOne
  BY <1>6 DEF Steady
<1>8. holder = [s.holder EXCEPT ![r] = NoOne]
  BY <1>6
<1> HIDE DEF holder
<1>9. /\ Steady(c) /\ c.holder = holder /\ c.held = lists
      /\ c.running = s.running /\ c.status = s.status
  BY <1>6, <1>7, HolderSet
<1> HIDE DEF c
<1>10. Taken(s, q, r, c)
  BY <1>8, <1>9 DEF Taken, lists
<1>11. Good(c)
  BY <1>10, TakenGood DEF Fit
<1>12. Fit(c)
  BY <1>1, <1>9, <1>11 DEF Fit, RunnerAlive
<1>13. Calm(c, d)
  BY <1>9, FreeSet
<1> HIDE DEF d
<1>14. "preempt" \in Kinds /\ s.prio[q] \in Int /\ 0 \in Int
  BY <1>1 DEF Kinds, Steady
<1>15. Calm(d, t)
  BY <1>13, <1>14, ScheduleCalm DEF Calm
<1> HIDE DEF t
<1>16. Calm(c, t)
  BY <1>13, <1>15, CalmTransitive
<1>17. Fit(t)
  BY <1>12, <1>16, CalmFit
<1>18. t.status = s.status /\ t.holder = holder
  BY <1>9, <1>16 DEF Calm, Still, Owners
<1>. QED BY <1>2, <1>7, <1>17, <1>18

LEMMA PreemptFit ==
  ASSUME Fit(sys), NEW p \in Process, NEW r \in Resource, Preempt(p, r)
  PROVE  Fit(sys')
<1> DEFINE q == sys.holder[r]
<1>1. Good(sys) /\ Steady(sys) /\ sys.status[p] = "running"
  BY CallerAlive DEF Preempt
<1>2. q \in Process \cup {NoOne}
  BY <1>1 DEF Steady
<1>3. CASE q = NoOne
  <2>1. sys' = Grab(sys, p, r)
    BY <1>3 DEF Preempt
  <2>. QED BY <1>1, <1>3, <2>1, GrabFit
<1>4. CASE q # NoOne /\ sys.prio[p] > sys.prio[q]
  <2> DEFINE t == Evicted(sys, q, r)
  <2>1. sys' = Grab(t, p, r)
    BY <1>4 DEF Preempt
  <2>2. q \in Process
    BY <1>2, <1>4
  <2>3. Fit(t) /\ t.status = sys.status /\ t.holder[r] = NoOne
    BY <2>2, EvictedFit
  <2> HIDE DEF t
  <2>. QED BY <1>1, <2>1, <2>3, GrabFit
<1>5. CASE q # NoOne /\ ~(sys.prio[p] > sys.prio[q])
  <2>1. sys' = AcquireLoop(sys, p, r, sys.queue[r] = {})
    BY <1>5 DEF Preempt
  <2>. QED BY <1>1, <2>1, AcquireLoopFit
<1>. QED BY <1>3, <1>4, <1>5

LEMMA ReleaseFit ==
  ASSUME Fit(sys), NEW p \in Process, NEW r \in Resource, Release(p, r)
  PROVE  Fit(sys')
<1>1. CASE sys.holder[r] # p
  <2>1. sys' = Asserted(sys, FALSE, "release")
    BY <1>1, SameCalls DEF Release
  <2>. QED BY <2>1, AssertedFit
<1>2. CASE sys.holder[r] = p
  <2> DEFINE list == Unlink(sys.held[p], r)
             lists == [sys.held EXCEPT ![p] = list]
             a == [sys EXCEPT !.held = lists]
             holder == [sys.holder EXCEPT ![r] = NoOne]
             b == [a EXCEPT !.holder = holder]
             t == Signal(b, r)
  <2>1. Steady(sys) /\ RunnerAlive(sys) /\ Good(sys)
    BY DEF Fit, Good
  <2>2. sys' = t
    BY <1>2 DEF Release
  <2>3. lists \in [Process -> Seq(Resource)]
    <3>1. sys.held \in [Process -> Seq(Resource)]
      BY <2>1 DEF Steady, ListsOK
    <3>2. list \in Seq(Resource)
      BY <3>1, UnlinkKeeps
    <3>. QED BY <3>1, <3>2
  <2>4. holder \in [Resource -> Process \cup {NoOne}]
    BY <2>1 DEF Steady
  <2> HIDE DEF lists, holder
  <2>5. /\ Steady(a) /\ a.held = lists
        /\ a.running = sys.running /\ a.status = sys.status
    BY <2>1, <2>3, HeldSet
  <2> HIDE DEF a
  <2>6. /\ Steady(b) /\ b.holder = holder /\ b.held = lists
        /\ b.running = sys.running /\ b.status = sys.status
    BY <2>4, <2>5, HolderSet
  <2> HIDE DEF b
  <2>7. Taken(sys, p, r, b)
    BY <2>6 DEF Taken, lists, holder
  <2>8. Good(b)
    BY <1>2, <2>1, <2>7, TakenGood
  <2>9. Fit(b)
    BY <2>1, <2>6, <2>8 DEF Fit, RunnerAlive
  <2>10. Calm(b, t)
    BY <2>6, SignalCalm
  <2> HIDE DEF t
  <2>. QED BY <2>2, <2>9, <2>10, CalmFit
<1>. QED BY <1>1, <1>2

-----------------------------------------------------------------------------
(* The initial state: one start event for each process.                    *)
LEMMA FirstEvents ==
  ASSUME NEW order \in [Process -> 1..Cardinality(Process)],
         \A p, q \in Process : p # q => order[p] # order[q]
  PROVE  AgendaOK({[kind |-> "start", proc |-> p, key |-> 0,
                    sig |-> "success", delay |-> 0, prio |-> InitPrio[p],
                    tag |-> order[p]] : p \in Process})
<1> DEFINE e(p) == [kind |-> "start", proc |-> p, key |-> 0,
                    sig |-> "success", delay |-> 0, prio |-> InitPrio[p],
                    tag |-> order[p]]
           A == {e(p) : p \in Process}
           F == [p \in Process |-> e(p)]
<1>1. \A p \in Process : InitPrio[p] \in Int
  BY PrioAssumption, ClientAssumption
<1>2. \A p \in Process : EventOK(e(p)) /\ e(p).tag = order[p]
  BY <1>1 DEF EventOK, EventFields, Kinds
<1> HIDE DEF e
<1>3. F \in [Process -> A] /\ \A f \in A : \E p \in Process : f = F[p]
  OBVIOUS
<1>4. \A p \in Process : EventOK(F[p]) /\ F[p].tag = order[p]
  BY <1>2
<1> HIDE DEF F
<1>5. \A p \in Process : "tag" \in DOMAIN F[p] /\ F[p].tag \in 1..Cardinality(Process)
  BY <1>4 DEF EventOK, EventFields
<1>6. \A p, q \in Process : F[p].tag = F[q].tag => p = q
  BY <1>4
<1> HIDE DEF A
<1>7. Numbered(A)
  BY <1>3, <1>5, <1>6, FiniteAssumption, NumberedImage
<1>8. \A f \in A : EventOK(f)
  BY <1>3, <1>4
<1>9. AgendaOK(A)
  BY <1>7, <1>8 DEF AgendaOK
<1>. QED BY <1>9 DEF A, e

LEMMA InitFit == Init => Fit(sys)
<1> SUFFICES ASSUME Init PROVE Fit(sys)
  OBVIOUS
<1> DEFINE Agenda(order) ==
             {[kind |-> "start", proc |-> p, key |-> 0,
               sig |-> "success", delay |-> 0, prio |-> InitPrio[p],
               tag |-> order[p]] : p \in Process}
<1>1. PICK order \in [Process -> 1..Cardinality(Process)] :
        /\ \A p, q \in Process : p # q => order[p] # order[q]
        /\ sys =
             [agenda  |-> Agenda(order),
              running |-> NoOne,
              status  |-> [p \in Process |-> "initialized"],
              prio    |-> InitPrio,
              call    |-> [p \in Process |-> Idle],
              timers  |-> [p \in Process |-> {}],
              ticket  |-> [p \in Process |-> NoTicket],
              joins   |-> [p \in Process |-> NoOne],
              waiters |-> [p \in Process |-> <<>>],
              queue   |-> [r \in Resource |-> {}],
              observers |-> [r \in Resource |-> <<>>],
              untold  |-> [p \in Process |-> {}],
              failed  |-> "none",
              holder  |-> [r \in Resource |-> NoOne],
              held    |-> [p \in Process |-> <<>>]]
  BY DEF Init
<1>2. AgendaOK(Agenda(order))
  BY <1>1, FirstEvents
<1> HIDE DEF Agenda
<1>3. CallsOK([p \in Process |-> Idle])
  BY DEF CallsOK, CallOK, Idle
<1>4. TicketsOK([p \in Process |-> NoTicket])
  BY DEF TicketsOK, TicketOK, NoTicket
<1>5. QueueOK({})
  BY NumberedEmpty DEF QueueOK
<1>6. QueuesOK([r \in Resource |-> {}])
  BY <1>5 DEF QueuesOK
<1>7. ListsOK(sys)
  <2>1. sys.waiters = [p \in Process |-> <<>>] /\ sys.held = [p \in Process |-> <<>>]
    BY <1>1
  <2>. QED BY <2>1 DEF ListsOK
<1>8. InitPrio \in [Process -> Int]
  BY PrioAssumption, ClientAssumption
<1>9. DOMAIN sys = Fields
  BY <1>1 DEF Fields
<1>10. Steady(sys)
  BY <1>1, <1>2, <1>3, <1>4, <1>6, <1>7, <1>8, <1>9 DEF Steady
<1>11. /\ sys.running = NoOne /\ sys.holder = [r \in Resource |-> NoOne]
       /\ sys.held = [p \in Process |-> <<>>]
  BY <1>1
<1>12. \A p \in Process : NoOne # p
  BY NullAssumption
<1>13. Owned(sys, {})
  BY <1>11, <1>12 DEF Owned, Never
<1>14. RunnerAlive(sys)
  BY <1>11, <1>12 DEF RunnerAlive
<1>. QED BY <1>10, <1>13, <1>14 DEF Fit, Good

LEMMA ClientFit ==
  ASSUME Fit(sys), NEW p \in Process, Client(p)
  PROVE  Fit(sys')
<1>1. CASE \E r \in Resource : Acquire(p, r)
  BY <1>1, AcquireFit
<1>2. CASE \E r \in Resource : Preempt(p, r)
  BY <1>2, PreemptFit
<1>3. CASE \E r \in Resource : Release(p, r)
  BY <1>3, ReleaseFit
<1>4. CASE \E d \in Duration : Hold(p, d)
  BY <1>4, HoldFit
<1>5. CASE Yield(p)
  BY <1>5, YieldFit
<1>6. CASE \E d \in Duration : SetTimer(p, d)
  BY <1>6, SetTimerFit
<1>7. CASE ClearTimers(p)
  BY <1>7, ClearTimersFit
<1>8. CASE \E q \in Process, pri \in Urgency : Interrupt(p, q, pri)
  BY <1>8, InterruptFit
<1>9. CASE \E q \in Process : Resume(p, q)
  BY <1>9, ResumeFit
<1>10. CASE \E q \in Process : Stop(p, q)
  BY <1>10, StopFit
<1>11. CASE \E q \in Process : Start(p, q)
  BY <1>11, StartFit
<1>12. CASE Exit(p)
  BY <1>12, ExitFit
<1>13. CASE \E q \in Process : \E pri \in Ranks[q] : SetPriority(p, q, pri)
  BY <1>13, SetPriorityFit
<1>14. CASE \E q \in Process : Join(p, q)
  BY <1>14, JoinFit
<1>15. CASE \E q \in Process, g \in Resource : Cancel(p, q, g)
  BY <1>15, CancelFit
<1>. QED BY <1>1, <1>2, <1>3, <1>4, <1>5, <1>6, <1>7, <1>8, <1>9, <1>10, <1>11,
            <1>12, <1>13, <1>14, <1>15 DEF Client, ProcessCall

LEMMA NextFit == Fit(sys) /\ [Next]_sys => Fit(sys')
<1> SUFFICES ASSUME Fit(sys), [Next]_sys PROVE Fit(sys')
  OBVIOUS
<1>1. CASE Dispatch
  <2>1. sys' = Executed(sys) /\ sys.agenda # {}
    BY <1>1 DEF Dispatch, Dispatching
  <2>. QED BY <2>1, ExecutedFit
<1>2. CASE \E p \in Process : Client(p)
  BY <1>2, ClientFit
<1>3. CASE UNCHANGED sys
  BY <1>3
<1>. QED BY <1>1, <1>2, <1>3 DEF Next

LEMMA FitListed == Fit(sys) => HolderListed
<1> SUFFICES ASSUME Fit(sys), NEW r \in Resource, NEW p \in Process
             PROVE  LET places == {i \in 1..Len(sys.held[p]) : sys.held[p][i] = r}
                    IN  IF sys.holder[r] = p
                        THEN Cardinality(places) = 1 /\ sys.status[p] = "running"
                        ELSE places = {}
  BY DEF HolderListed
<1> DEFINE places == {i \in 1..Len(sys.held[p]) : sys.held[p][i] = r}
<1>1. /\ sys.holder[r] = p => Once(sys.held[p], r) /\ sys.status[p] = "running"
      /\ sys.holder[r] # p => Never(sys.held[p], r)
  BY DEF Fit, Good, Owned
<1>2. CASE sys.holder[r] = p
  <2>1. PICK i : places = {i}
    BY <1>1, <1>2 DEF Once
  <2>2. Cardinality(places) = 1
    BY <2>1, FS_Singleton
  <2>. QED BY <1>1, <1>2, <2>2
<1>3. CASE sys.holder[r] # p
  <2>1. places = {}
    BY <1>1, <1>3 DEF Never
  <2>. QED BY <1>3, <2>1
<1>. QED BY <1>2, <1>3

(* The inductive invariant.                                                *)
SysFit == Fit(sys)

(* A resource is in the list of its holder, once, and in no other list,    *)
(* and its holder is alive: cmb_resource_acquire, _preempt and _release,   *)
(* cmb_process_stop and cmb_process_exit always change both records, with  *)
(* any number of processes and resources.                                  *)
THEOREM HolderListedCorrect == Spec => []HolderListed
<1>1. Init => SysFit
  BY InitFit DEF SysFit
<1>2. SysFit /\ [Next]_sys => SysFit'
  BY NextFit DEF SysFit
<1>3. SysFit => HolderListed
  BY FitListed DEF SysFit
<1>. QED BY <1>1, <1>2, <1>3, PTL DEF Spec

-----------------------------------------------------------------------------
(***************************************************************************)
(* The waits of the processes: queues, timers and calls always agree,      *)
(* nobody waits for what is free unless somebody has been told of it,      *)
(* whoever is blocked will be reached, and nothing reaches whoever is      *)
(* finished.  First what the kernel's calls and the events of the agenda do *)
(* to the waits, then the calls of the processes, then the theorems.       *)
(*                                                                         *)
(* This holds until an assertion fails, which aborts the program, and through *)
(* the two that can fail where processes stop, join, resume and promote one *)
(* another (NoOtherAbort): neither leaves the records in disorder.  The rest *)
(* of a step after any other assertion is never executed by the code.      *)
(*                                                                         *)
(* The record of a wait is scattered: the call that a process is blocked in, *)
(* its ticket, its timers and its join, and for each of them an entry or an *)
(* event elsewhere.  Own(s, p) gathers all that concerns p, without the    *)
(* numbers that order it, so that a step can be judged one process at a time: *)
(*   Shaped   a process has one entry in a queue, one event for a key, and one *)
(*            place in a list, at most                                     *)
(*   Sound    timers and timer events correspond; the entries and grants of a *)
(*            process are those of its ticket, at its present priority     *)
(*   Placed   a ticket or join belongs to the call that is blocked, and a  *)
(*            process that is not alive has nothing coming to it           *)
(*   Apart    no two processes share the key of a wait                     *)
(*   Served   of a free resource that is waited for somebody has been told *)
(*   Awake    a process that is blocked is in the list, the queue or the   *)
(*            agenda from which its call will be ended                     *)
(* Within a step not all of this holds: Fine(s, dying, open, out) is the   *)
(* invariant but for the processes in dying, which are being taken apart, the *)
(* guards in open, which are still to be signalled, and the processes in out, *)
(* which have control or are about to get it.  A key of a wait that is new is *)
(* nobody else's because FreshKey looks through all records; that a grant is *)
(* not lost when its process leaves is the point of SignalFine.            *)
(***************************************************************************)
-----------------------------------------------------------------------------
(* What concerns one process: the events about it, without their times, its *)
(* entries in the queues, and the lists of waiters in which it stands.     *)
Fact(e) == [kind |-> e.kind, key |-> e.key, sig |-> e.sig, prio |-> e.prio]

Facts(A, p) == {Fact(e) : e \in {f \in A : f.proc = p}}

Wait(g, w) == [guard |-> g, key |-> w.key, prio |-> w.prio]

Waits(Q, p) ==
  UNION {{Wait(g, w) : w \in {v \in Q[g] : v.proc = p}} : g \in Resource}

Lists(ws, p) == {q \in Process : ~Never(ws[q], p)}

Own(s, p) ==
  [status |-> s.status[p], prio   |-> s.prio[p],   call  |-> s.call[p],
   timers |-> s.timers[p], ticket |-> s.ticket[p], joins |-> s.joins[p],
   facts  |-> Facts(s.agenda, p),
   waits  |-> Waits(s.queue, p),
   lists  |-> Lists(s.waiters, p)]

(* Timers are events; an entry in a queue is the present wait, which has    *)
(* not been answered; and who stands in a list of waiters joins its owner. *)
TimersSet(x) ==
  \A k \in x.timers : k # 0 /\ \E f \in x.facts : f.kind = "time" /\ f.key = k

FactsFit(x) ==
  \A f \in x.facts :
    /\ f.kind = "time" => f.key \in x.timers /\ f.prio = x.prio
    /\ f.kind = "grant" => f.sig = "success"
    /\ f.kind = "cancelled" <=> f.sig = "cancelled"

WaitsOpen(x) ==
  \A w \in x.waits :
    /\ w.key # 0 /\ w.prio = x.prio
    /\ x.ticket = [guard |-> w.guard, key |-> w.key]
    /\ \A f \in x.facts : f.key # w.key

Sound(x) ==
  /\ TimersSet(x) /\ FactsFit(x) /\ WaitsOpen(x)
  /\ x.ticket # NoTicket => x.ticket.guard \in Resource /\ x.ticket.key # 0
  /\ x.lists \subseteq {x.joins}
  /\ x.call.fn = "join" => x.call.on \in Process

(* What a process waits for is what it is blocked in, and nothing reaches  *)
(* one that is not alive.                                                  *)
Placed(x) ==
  /\ x.ticket # NoTicket =>
       x.call = [fn |-> "acquire", on |-> x.ticket.guard, key |-> x.ticket.key]
  /\ x.joins # NoOne => x.call.fn = "join" /\ x.call.on = x.joins
  /\ x.status # "running" =>
       /\ x.call.fn = "none" /\ x.timers = {}
       /\ \A f \in x.facts : f.kind \notin {"preempt", "resume"}

(* Handles and queue entries are told apart.                               *)
UniqueEvents(A) ==
  \A e, f \in A : e.proc = f.proc /\ e.key = f.key /\ e.key # 0 => e = f

UniqueEntries(Q) ==
  \A g \in Resource : \A v, w \in Q[g] : v.proc = w.proc => v = w

(* The key of a ticket is that of nobody else's ticket or call.            *)
Apart(x, y) ==
  x.ticket # NoTicket => x.ticket.key \notin {y.ticket.key, y.call.key}

Single(ws) == \A p, q \in Process : Never(ws[q], p) \/ Once(ws[q], p)

Shaped(s) ==
  /\ DOMAIN s.timers = Process /\ DOMAIN s.joins = Process
  /\ UniqueEvents(s.agenda) /\ UniqueEntries(s.queue) /\ Single(s.waiters)

Core(s, dying) ==
  /\ Shaped(s)
  /\ \A p \in Process : Sound(Own(s, p))
  /\ \A p \in Process \ dying : Placed(Own(s, p))
  /\ \A p, q \in Process : p # q => Apart(Own(s, p), Own(s, q))
  /\ \A p \in Process, q \in Process \ dying :
       q \in Own(s, p).lists => s.status[q] # "finished"

(* Nobody waits for what is free unless somebody has been told of it.      *)
Tells(x, g) ==
  \E f \in x.facts : /\ f.kind = "grant"
                     /\ x.ticket = [guard |-> g, key |-> f.key]

Waited(s, g) == \E p \in Process : \E w \in Own(s, p).waits : w.guard = g

Served(s, open) ==
  \A g \in Resource \ open :
    Waited(s, g) /\ s.holder[g] = NoOne => \E p \in Process : Tells(Own(s, p), g)

(* Who is blocked will be reached.                                         *)
Reachable(x) ==
  LET c == x.call
  IN  \/ \E f \in x.facts : f.kind \in Unchecked
      \/ c.fn = "yield"
      \/ c.fn = "hold" /\ c.key \in x.timers
      \/ /\ c.fn = "join" /\ x.joins = c.on
         /\ c.on \in x.lists \/ \E f \in x.facts : f.kind = "process"
      \/ /\ c.fn = "acquire" /\ x.ticket = [guard |-> c.on, key |-> c.key]
         /\ \/ \E w \in x.waits : w.guard = c.on /\ w.key = c.key
            \/ \E f \in x.facts : f.kind \in {"grant", "cancelled"} /\ f.key = c.key

Awake(s, out) ==
  \A p \in Process \ out : s.status[p] = "running" => Reachable(Own(s, p))

RunnerIdle(s) == \A p \in Process : s.running = p => s.call[p].fn = "none"

-----------------------------------------------------------------------------
(* What changes for one process only.                                      *)
Others(s, t, p) == \A q \in Process \ {p} : Own(t, q) = Own(s, q)

LEMMA LocalCore ==
  ASSUME NEW s, NEW dying, Core(s, dying), NEW p \in Process, NEW t,
         Others(s, t, p), Shaped(t),
         Sound(Own(t, p)), p \in dying \/ Placed(Own(t, p)),
         \A q \in Process \ {p} : /\ Apart(Own(t, p), Own(s, q))
                                  /\ Apart(Own(s, q), Own(t, p)),
         \A q \in Own(t, p).lists : \/ q \in Own(s, p).lists
                                    \/ s.status[q] # "finished",
         t.status[p] = "finished" => s.status[p] = "finished"
  PROVE  Core(t, dying)
<1>1. \A q \in Process \ {p} : Own(t, q) = Own(s, q) /\ t.status[q] = s.status[q]
  BY DEF Others, Own
<1>2. \A q \in Process : t.status[q] = "finished" => s.status[q] = "finished"
  BY <1>1
<1>3. \A q \in Process : Sound(Own(t, q))
  BY <1>1 DEF Core
<1>4. \A q \in Process \ dying : Placed(Own(t, q))
  BY <1>1 DEF Core
<1>5. \A q, r \in Process : q # r => Apart(Own(t, q), Own(t, r))
  BY <1>1 DEF Core
<1>6. \A q \in Process, r \in Process \ dying :
        r \in Own(t, q).lists => t.status[r] # "finished"
  <2> SUFFICES ASSUME NEW q \in Process, NEW r \in Process \ dying, r \in Own(t, q).lists
               PROVE  s.status[r] # "finished"
    BY <1>2
  <2>1. CASE q = p
    BY <2>1 DEF Core
  <2>2. CASE q # p
    BY <1>1, <2>2 DEF Core
  <2>. QED BY <2>1, <2>2
<1>. QED BY <1>3, <1>4, <1>5, <1>6 DEF Core

LEMMA LocalAwake ==
  ASSUME NEW s, NEW out, Awake(s, out), NEW p \in Process, NEW t, Others(s, t, p)
  PROVE  /\ Awake(t, out \cup {p})
         /\ t.status[p] # "running" \/ Reachable(Own(t, p)) => Awake(t, out \ {p})
<1>1. \A q \in Process \ {p} : Own(t, q) = Own(s, q) /\ t.status[q] = s.status[q]
  BY DEF Others, Own
<1>. QED BY <1>1 DEF Awake

LEMMA LocalServed ==
  ASSUME NEW s, NEW open, Served(s, open), NEW p \in Process, NEW t,
         Others(s, t, p), t.holder = s.holder,
         \A w \in Own(t, p).waits : \E v \in Own(s, p).waits : v.guard = w.guard,
         \A g \in Resource \ open : Tells(Own(s, p), g) => Tells(Own(t, p), g)
  PROVE  Served(t, open)
<1> SUFFICES ASSUME NEW g \in Resource \ open, Waited(t, g), t.holder[g] = NoOne
             PROVE  \E q \in Process : Tells(Own(t, q), g)
  BY DEF Served
<1>1. Waited(s, g)
  <2>1. PICK q \in Process : \E w \in Own(t, q).waits : w.guard = g
    BY DEF Waited
  <2>2. CASE q = p
    BY <2>1, <2>2 DEF Waited
  <2>3. CASE q # p
    BY <2>1, <2>3 DEF Waited, Others
  <2>. QED BY <2>2, <2>3
<1>2. PICK q \in Process : Tells(Own(s, q), g)
  BY <1>1 DEF Served
<1>3. Tells(Own(t, q), g)
  BY <1>2 DEF Others
<1>. QED BY <1>3

(* Tickets and calls that are no new ones stay apart.                      *)
LEMMA ApartKept ==
  ASSUME NEW x, NEW y, NEW z, Apart(x, z), Apart(z, x), Sound(z), Sound(y),
         y.ticket = x.ticket \/ y.ticket = NoTicket,
         y.call.key = x.call.key \/ y.call.key = 0
  PROVE  Apart(y, z) /\ Apart(z, y)
  BY DEF Apart, Sound, NoTicket

-----------------------------------------------------------------------------
(* Events that differ in their times only.                                 *)
Copied(A, B) ==
  /\ \A e \in A : \E f \in B : f.proc = e.proc /\ Fact(f) = Fact(e)
  /\ \A f \in B : \E e \in A : f.proc = e.proc /\ Fact(f) = Fact(e)
  /\ UniqueEvents(A) => UniqueEvents(B)

LEMMA CopiedFacts ==
  ASSUME NEW A, NEW B, Copied(A, B), NEW p
  PROVE  Facts(B, p) = Facts(A, p)
<1>1. \A e \in A : e.proc = p => Fact(e) \in Facts(B, p)
  BY DEF Copied, Facts
<1>2. \A f \in B : f.proc = p => Fact(f) \in Facts(A, p)
  BY DEF Copied, Facts
<1>. QED BY <1>1, <1>2 DEF Facts

LEMMA CopiedBy ==
  ASSUME NEW A, NEW B, NEW F \in [A -> B], \A f \in B : \E e \in A : f = F[e],
         \A e \in A : EventOK(e) /\ F[e].proc = e.proc /\ Fact(F[e]) = Fact(e)
  PROVE  Copied(A, B)
<1>1. \A e \in A : F[e] \in B /\ F[e].proc = e.proc /\ Fact(F[e]) = Fact(e)
  OBVIOUS
<1>2. UniqueEvents(A) => UniqueEvents(B)
  <2> SUFFICES ASSUME UniqueEvents(A), NEW e \in A, NEW f \in A,
                      F[e].proc = F[f].proc, F[e].key = F[f].key, F[e].key # 0
               PROVE  e = f
    BY DEF UniqueEvents
  <2>1. F[e].key = e.key /\ F[f].key = f.key
    BY <1>1 DEF Fact
  <2>. QED BY <1>1, <2>1, Zenon DEF UniqueEvents
<1>. QED BY <1>1, <1>2 DEF Copied

LEMMA LeaveCopied ==
  ASSUME NEW A, AgendaOK(A), NEW gone \in SUBSET A
  PROVE  Copied(A \ gone, Leave(A, gone))
<1> DEFINE L == A \ gone
           n(e) == Cardinality({g \in gone : g.tag < e.tag})
           B == {[e EXCEPT !.tag = e.tag - n(e)] : e \in L}
           F == [e \in L |-> [e EXCEPT !.tag = e.tag - n(e)]]
<1>1. Leave(A, gone) = B
  BY DEF Leave
<1>2. F \in [L -> B] /\ \A f \in B : \E e \in L : f = F[e]
  OBVIOUS
<1>3. ASSUME NEW e \in L
      PROVE  EventOK(e) /\ F[e].proc = e.proc /\ Fact(F[e]) = Fact(e)
  <2>1. EventOK(e)
    BY DEF AgendaOK
  <2>2. ASSUME NEW m
        PROVE  LET f == [e EXCEPT !.tag = m] IN f.proc = e.proc /\ Fact(f) = Fact(e)
    BY <2>1 DEF EventOK, EventFields, Fact
  <2>3. F[e] = [e EXCEPT !.tag = e.tag - n(e)]
    OBVIOUS
  <2> HIDE DEF F, n
  <2>. QED BY <2>1, <2>2, <2>3
<1> HIDE DEF L, B, F
<1>4. Copied(L, B)
  BY <1>2, <1>3, CopiedBy
<1>. QED BY <1>1, <1>4 DEF L

LEMMA FewerUnique ==
  ASSUME NEW A, UniqueEvents(A), NEW B \in SUBSET A PROVE UniqueEvents(B)
  BY DEF UniqueEvents

(* An event is added.                                                      *)
LEMMA EnterFacts ==
  ASSUME NEW A, NEW e, EventOK(e)
  PROVE  /\ Facts(Enter(A, e), e.proc) = Facts(A, e.proc) \cup {Fact(e)}
         /\ \A q : q # e.proc => Facts(Enter(A, e), q) = Facts(A, q)
         /\ /\ UniqueEvents(A)
            /\ e.key = 0 \/ \A f \in Facts(A, e.proc) : f.key # e.key
            => UniqueEvents(Enter(A, e))
<1> DEFINE x == [e EXCEPT !.tag = Cardinality(A) + 1]
<1>1. Enter(A, e) = A \cup {x}
  BY DEF Enter
<1>2. x.proc = e.proc /\ x.key = e.key /\ Fact(x) = Fact(e)
  BY DEF EventOK, EventFields, Fact
<1> HIDE DEF x
<1>3. Facts(Enter(A, e), e.proc) = Facts(A, e.proc) \cup {Fact(e)}
  BY <1>1, <1>2 DEF Facts
<1>4. \A q : q # e.proc => Facts(Enter(A, e), q) = Facts(A, q)
  BY <1>1, <1>2 DEF Facts
<1>5. ASSUME NEW f \in A, f.proc = e.proc
      PROVE  \E h \in Facts(A, e.proc) : h.key = f.key
  <2>1. Fact(f) \in Facts(A, e.proc)
    BY <1>5 DEF Facts
  <2>2. Fact(f).key = f.key
    BY DEF Fact
  <2>. QED BY <2>1, <2>2
<1>6. ASSUME UniqueEvents(A), e.key = 0 \/ \A f \in Facts(A, e.proc) : f.key # e.key
      PROVE  UniqueEvents(Enter(A, e))
  BY <1>1, <1>2, <1>5, <1>6 DEF UniqueEvents
<1>. QED BY <1>3, <1>4, <1>6

(* The first event leaves.                                                 *)
LEMMA DequeueFacts ==
  ASSUME NEW s, Steady(s), s.agenda # {}, UniqueEvents(s.agenda)
  PROVE  LET e == First(s.agenda)
             A == Dequeue(s).agenda
         IN  /\ EventOK(e) /\ Fact(e) \in Facts(s.agenda, e.proc)
             /\ UniqueEvents(A)
             /\ \A q : q # e.proc => Facts(A, q) = Facts(s.agenda, q)
             /\ Facts(A, e.proc) \subseteq Facts(s.agenda, e.proc)
             /\ Facts(s.agenda, e.proc) \subseteq Facts(A, e.proc) \cup {Fact(e)}
             /\ e.key # 0 => \A f \in Facts(A, e.proc) : f.key # e.key
<1> DEFINE A == s.agenda
           e == First(A)
           L == Leave(A, {e})
           B == {[f EXCEPT !.delay = f.delay - e.delay] : f \in L}
           F == [f \in L |-> [f EXCEPT !.delay = f.delay - e.delay]]
<1>1. AgendaOK(A) /\ "agenda" \in DOMAIN s
  BY DEF Steady, Fields
<1>2. e \in A
  BY <1>1, FirstOf
<1>3. EventOK(e)
  BY <1>1, <1>2 DEF AgendaOK
<1>4. AgendaOK(L)
  BY <1>1, <1>2, AgendaLeave
<1>5. Copied(A \ {e}, L)
  BY <1>1, <1>2, LeaveCopied
<1>6. Dequeue(s).agenda = B
  BY <1>1 DEF Dequeue
<1> HIDE DEF L, e
<1>7. F \in [L -> B] /\ \A f \in B : \E x \in L : f = F[x]
  OBVIOUS
<1>8. ASSUME NEW f \in L
      PROVE  EventOK(f) /\ F[f].proc = f.proc /\ Fact(F[f]) = Fact(f)
  <2>1. EventOK(f)
    BY <1>4 DEF AgendaOK
  <2>2. F[f] = [f EXCEPT !.delay = f.delay - e.delay]
    OBVIOUS
  <2>. QED BY <2>1, <2>2 DEF EventOK, EventFields, Fact
<1> HIDE DEF F, B
<1>9. Copied(L, B)
  BY <1>7, <1>8, CopiedBy
<1> HIDE DEF A
<1>10. UniqueEvents(A)
  BY DEF A
<1>11. UniqueEvents(A \ {e})
  BY <1>10, FewerUnique
<1>12. UniqueEvents(B)
  BY <1>5, <1>9, <1>11 DEF Copied
<1>13. \A q : Facts(B, q) = Facts(A \ {e}, q)
  BY <1>5, <1>9, CopiedFacts
<1>14. Fact(e) \in Facts(A, e.proc)
  BY <1>2 DEF Facts
<1>15. \A q : q # e.proc => Facts(A \ {e}, q) = Facts(A, q)
  BY DEF Facts
<1>16. /\ Facts(A \ {e}, e.proc) \subseteq Facts(A, e.proc)
       /\ Facts(A, e.proc) \subseteq Facts(A \ {e}, e.proc) \cup {Fact(e)}
  BY DEF Facts
<1>17. ASSUME e.key # 0, NEW f \in Facts(A \ {e}, e.proc) PROVE f.key # e.key
  <2>1. PICK h \in A \ {e} : h.proc = e.proc /\ f = Fact(h)
    BY DEF Facts
  <2>2. f.key = h.key
    BY <2>1 DEF Fact
  <2>. QED BY <1>2, <1>10, <1>17, <2>1, <2>2 DEF UniqueEvents
<1>. QED BY <1>3, <1>6, <1>12, <1>13, <1>14, <1>15, <1>16, <1>17 DEF A, e

(* Events that are picked by their facts are cancelled.                    *)
Picked(A, p, G) == {e \in A : e.proc = p /\ Fact(e) \in G}

LEMMA LeaveFacts ==
  ASSUME NEW A, AgendaOK(A), UniqueEvents(A), NEW p, NEW G
  PROVE  LET B == Leave(A, Picked(A, p, G))
         IN  /\ UniqueEvents(B)
             /\ Facts(B, p) = Facts(A, p) \ G
             /\ \A q : q # p => Facts(B, q) = Facts(A, q)
<1> DEFINE gone == Picked(A, p, G)
<1>0. gone \in SUBSET A
  BY DEF Picked
<1>1. Copied(A \ gone, Leave(A, gone))
  BY <1>0, LeaveCopied
<1>2. UniqueEvents(A \ gone)
  BY <1>0, FewerUnique
<1>3. \A q : Facts(Leave(A, gone), q) = Facts(A \ gone, q)
  BY <1>1, CopiedFacts
<1>4. Facts(A \ gone, p) = Facts(A, p) \ G
  BY DEF Facts, Picked
<1>5. \A q : q # p => Facts(A \ gone, q) = Facts(A, q)
  BY DEF Facts, Picked
<1>. QED BY <1>1, <1>2, <1>3, <1>4, <1>5 DEF Copied

-----------------------------------------------------------------------------
(* The entries of R are those of Q without those in gone.                  *)
Left(Q, gone, R) ==
  /\ gone \subseteq Q
  /\ \A v \in Q \ gone : \E w \in R : w.proc = v.proc /\ w.key = v.key /\ w.prio = v.prio
  /\ \A w \in R : \E v \in Q \ gone : w.proc = v.proc /\ w.key = v.key /\ w.prio = v.prio
  /\ (\A v, w \in Q : v.proc = w.proc => v = w) => (\A v, w \in R : v.proc = w.proc => v = w)

LEMMA LeaveLeft ==
  ASSUME NEW Q, QueueOK(Q), NEW gone \in SUBSET Q
  PROVE  Left(Q, gone, Leave(Q, gone)) /\ Left(Q, {}, Q)
<1> DEFINE L == Q \ gone
           n(v) == Cardinality({g \in gone : g.tag < v.tag})
           R == {[v EXCEPT !.tag = v.tag - n(v)] : v \in L}
           F == [v \in L |-> [v EXCEPT !.tag = v.tag - n(v)]]
<1>1. Leave(Q, gone) = R
  BY DEF Leave
<1>2. F \in [L -> R] /\ \A w \in R : \E v \in L : w = F[v]
  OBVIOUS
<1>3. ASSUME NEW v \in L
      PROVE  F[v].proc = v.proc /\ F[v].key = v.key /\ F[v].prio = v.prio
  <2>1. EntryOK(v)
    BY DEF QueueOK
  <2>2. F[v] = [v EXCEPT !.tag = v.tag - n(v)]
    OBVIOUS
  <2>. QED BY <2>1, <2>2 DEF EntryOK, EntryFields
<1> HIDE DEF L, R, F
<1>4. L = Q \ gone
  BY DEF L
<1>5. Left(Q, gone, R)
  BY <1>2, <1>3, <1>4 DEF Left
<1>6. Left(Q, {}, Q)
  BY DEF Left
<1>. QED BY <1>1, <1>5, <1>6

LEMMA WaitsLeft ==
  ASSUME NEW Q, NEW R, NEW gone, UniqueEntries(Q),
         \A g \in Resource : Left(Q[g], gone[g], R[g])
  PROVE  /\ UniqueEntries(R)
         /\ \A p : Waits(R, p) = {z \in Waits(Q, p) : \A w \in gone[z.guard] : w.proc # p}
<1>1. UniqueEntries(R)
  BY DEF UniqueEntries, Left
<1>2. ASSUME NEW p, NEW z \in Waits(R, p)
      PROVE  z \in Waits(Q, p) /\ \A w \in gone[z.guard] : w.proc # p
  <2>0. PICK g \in Resource : \E w \in R[g] : w.proc = p /\ z = Wait(g, w)
    BY DEF Waits
  <2>1. PICK w \in R[g] : w.proc = p /\ z = Wait(g, w)
    BY <2>0
  <2>2. PICK v \in Q[g] \ gone[g] : w.proc = v.proc /\ w.key = v.key /\ w.prio = v.prio
    BY <2>1 DEF Left
  <2>3. z = Wait(g, v) /\ z.guard = g
    BY <2>1, <2>2 DEF Wait
  <2>4. z \in Waits(Q, p)
    BY <2>1, <2>2, <2>3 DEF Waits
  <2>5. \A u \in gone[g] : u.proc # p
    BY <2>1, <2>2 DEF UniqueEntries, Left
  <2>. QED BY <2>3, <2>4, <2>5
<1>3. ASSUME NEW p, NEW z \in Waits(Q, p), \A w \in gone[z.guard] : w.proc # p
      PROVE  z \in Waits(R, p)
  <2>0. PICK g \in Resource : \E v \in Q[g] : v.proc = p /\ z = Wait(g, v)
    BY DEF Waits
  <2>1. PICK v \in Q[g] : v.proc = p /\ z = Wait(g, v)
    BY <2>0
  <2>2. z.guard = g
    BY <2>1 DEF Wait
  <2>3. PICK w \in R[g] : w.proc = v.proc /\ w.key = v.key /\ w.prio = v.prio
    BY <1>3, <2>1, <2>2 DEF Left
  <2>4. z = Wait(g, w)
    BY <2>1, <2>3 DEF Wait
  <2>. QED BY <2>1, <2>3, <2>4 DEF Waits
<1>. QED BY <1>1, <1>2, <1>3

(* An entry is added to the queue of g.                                    *)
LEMMA EnterWaits ==
  ASSUME NEW Q, DOMAIN Q = Resource, NEW g \in Resource, NEW w, EntryOK(w),
         UniqueEntries(Q), \A v \in Q[g] : v.proc # w.proc
  PROVE  LET R == [Q EXCEPT ![g] = Enter(Q[g], w)]
         IN  /\ UniqueEntries(R)
             /\ Waits(R, w.proc) = Waits(Q, w.proc) \cup {Wait(g, w)}
             /\ \A p : p # w.proc => Waits(R, p) = Waits(Q, p)
<1> DEFINE x == [w EXCEPT !.tag = Cardinality(Q[g]) + 1]
           R == [Q EXCEPT ![g] = Enter(Q[g], w)]
<1>1. x.proc = w.proc /\ x.key = w.key /\ x.prio = w.prio /\ Wait(g, x) = Wait(g, w)
  BY DEF EntryOK, EntryFields, Wait
<1>2. R[g] = Q[g] \cup {x} /\ \A h \in Resource : h # g => R[h] = Q[h]
  BY DEF Enter
<1> HIDE DEF R, x
<1>3. UniqueEntries(R)
  BY <1>1, <1>2 DEF UniqueEntries
<1>4. \A p, z : z \in Waits(R, p) <=> \E h \in Resource : \E v \in R[h] : v.proc = p /\ z = Wait(h, v)
  BY DEF Waits
<1>5. \A p, z : z \in Waits(Q, p) <=> \E h \in Resource : \E v \in Q[h] : v.proc = p /\ z = Wait(h, v)
  BY DEF Waits
<1>6. ASSUME NEW p, NEW z
      PROVE  z \in Waits(R, p) <=> z \in Waits(Q, p) \/ (p = w.proc /\ z = Wait(g, w))
  <2>1. ASSUME z \in Waits(R, p)
        PROVE  z \in Waits(Q, p) \/ (p = w.proc /\ z = Wait(g, w))
    <3>0. PICK h \in Resource : \E v \in R[h] : v.proc = p /\ z = Wait(h, v)
      BY <1>4, <2>1
    <3>1. PICK v \in R[h] : v.proc = p /\ z = Wait(h, v)
      BY <3>0
    <3>2. CASE v \in Q[h]
      BY <1>5, <3>1, <3>2
    <3>3. CASE v \notin Q[h]
      BY <1>1, <1>2, <3>1, <3>3
    <3>. QED BY <3>2, <3>3
  <2>2. ASSUME z \in Waits(Q, p) PROVE z \in Waits(R, p)
    BY <1>2, <1>4, <1>5, <2>2
  <2>3. ASSUME p = w.proc, z = Wait(g, w) PROVE z \in Waits(R, p)
    BY <1>1, <1>2, <1>4, <2>3
  <2>. QED BY <2>1, <2>2, <2>3
<1>7. Waits(R, w.proc) = Waits(Q, w.proc) \cup {Wait(g, w)}
  BY <1>6
<1>8. ASSUME NEW p, p # w.proc PROVE Waits(R, p) = Waits(Q, p)
  <2>1. \A z : z \in Waits(R, p) <=> z \in Waits(Q, p)
    BY <1>6, <1>8
  <2> DEFINE A == Waits(R, p)
             B == Waits(Q, p)
  <2>2. \A z : z \in A <=> z \in B
    BY <2>1
  <2> HIDE DEF A, B
  <2>3. A = B
    BY <2>2
  <2>. QED BY <2>3 DEF A, B
<1>. QED BY <1>3, <1>7, <1>8 DEF R

-----------------------------------------------------------------------------
(* Changes that only take away from what a process waits for.              *)
ViewFields == {"status", "prio", "call", "timers", "ticket", "joins", "facts",
               "waits", "lists"}

Keeps(x, y) ==
  /\ y.ticket = x.ticket \/ y.ticket = NoTicket
  /\ y.call.key = x.call.key \/ y.call.key = 0
  /\ y.lists \subseteq x.lists /\ y.waits \subseteq x.waits
  /\ y.status = x.status

LEMMA OwnIs ==
  ASSUME NEW s, NEW p
  PROVE  LET x == Own(s, p)
         IN  /\ DOMAIN x = ViewFields
             /\ x.status = s.status[p] /\ x.prio = s.prio[p] /\ x.call = s.call[p]
             /\ x.timers = s.timers[p] /\ x.ticket = s.ticket[p] /\ x.joins = s.joins[p]
             /\ x.facts = Facts(s.agenda, p)
             /\ x.waits = Waits(s.queue, p)
             /\ x.lists = Lists(s.waiters, p)
  BY DEF Own, ViewFields

LEMMA KeepsCore ==
  ASSUME NEW s, NEW dying, Core(s, dying), NEW p \in Process, NEW t,
         Others(s, t, p), Shaped(t), Keeps(Own(s, p), Own(t, p)),
         Sound(Own(t, p)), p \in dying \/ Placed(Own(t, p))
  PROVE  Core(t, dying)
<1> DEFINE x == Own(s, p)
           y == Own(t, p)
<1>1. t.status[p] = s.status[p] /\ \A q \in y.lists : q \in x.lists
  BY OwnIs DEF Keeps
<1>2. \A q \in Process \ {p} : Apart(y, Own(s, q)) /\ Apart(Own(s, q), y)
  <2> SUFFICES ASSUME NEW q \in Process \ {p}
               PROVE  Apart(y, Own(s, q)) /\ Apart(Own(s, q), y)
    OBVIOUS
  <2> DEFINE z == Own(s, q)
  <2>1. Apart(x, z) /\ Apart(z, x) /\ Sound(z)
    BY DEF Core
  <2>2. /\ y.ticket = x.ticket \/ y.ticket = NoTicket
        /\ y.call.key = x.call.key \/ y.call.key = 0
    BY DEF Keeps
  <2>3. Sound(y)
    OBVIOUS
  <2> HIDE DEF x, y, z
  <2>4. Apart(y, z) /\ Apart(z, y)
    BY <2>1, <2>2, <2>3, ApartKept
  <2>. QED BY <2>4 DEF z
<1>. QED BY <1>1, <1>2, LocalCore

LEMMA KeepsServed ==
  ASSUME NEW s, NEW open, Served(s, open), NEW p \in Process, NEW t,
         Others(s, t, p), t.holder = s.holder, Keeps(Own(s, p), Own(t, p)),
         \A g \in Resource \ open : Tells(Own(s, p), g) => Tells(Own(t, p), g)
  PROVE  Served(t, open)
<1>1. \A w \in Own(t, p).waits : \E v \in Own(s, p).waits : v.guard = w.guard
  BY DEF Keeps
<1>. QED BY <1>1, LocalServed

LEMMA KeepsAwake ==
  ASSUME NEW s, NEW out, Awake(s, out), NEW p \in Process, NEW t, Others(s, t, p),
         Keeps(Own(s, p), Own(t, p)), Reachable(Own(s, p)) => Reachable(Own(t, p))
  PROVE  Awake(t, out)
<1>1. \A q \in Process \ {p} : Own(t, q) = Own(s, q) /\ t.status[q] = s.status[q]
  BY OwnIs DEF Others
<1>2. t.status[p] = s.status[p]
  BY OwnIs DEF Keeps
<1>. QED BY <1>1, <1>2 DEF Awake

(* Everything but who runs.                                                *)
Fine(s, dying, open, out) == Core(s, dying) /\ Served(s, open) /\ Awake(s, out)

-----------------------------------------------------------------------------
(* cmb_event_schedule                                                      *)
WithFact(x, f) == [x EXCEPT !.facts = x.facts \cup {f}]

LEMMA ScheduleOwn ==
  ASSUME NEW s, Steady(s), Shaped(s), NEW kind \in Kinds, NEW p \in Process, NEW key,
         NEW sig, NEW delay \in Int, NEW pri \in Int,
         key = 0 \/ \A f \in Own(s, p).facts : f.key # key
  PROVE  LET t == Schedule(s, kind, p, key, sig, delay, pri)
             f == [kind |-> kind, key |-> key, sig |-> sig, prio |-> pri]
             x == Own(s, p)
         IN  /\ Shaped(t) /\ Others(s, t, p) /\ t.failed = s.failed
             /\ Own(t, p) = WithFact(x, f)
<1> DEFINE e == [kind |-> kind, proc |-> p, key |-> key, sig |-> sig,
                 delay |-> delay, prio |-> pri, tag |-> 0]
           f == [kind |-> kind, key |-> key, sig |-> sig, prio |-> pri]
           A == Enter(s.agenda, e)
           t == [s EXCEPT !.agenda = A]
<1>1. EventOK(e) /\ e.proc = p /\ e.key = key /\ Fact(e) = f
  BY DEF EventOK, EventFields, Fact
<1>2. Schedule(s, kind, p, key, sig, delay, pri) = t
  BY DEF Schedule
<1> HIDE DEF e, f
<1>3. UniqueEvents(s.agenda)
  BY DEF Shaped
<1>4. key = 0 \/ \A h \in Facts(s.agenda, p) : h.key # key
  BY OwnIs
<1>5. /\ Facts(A, p) = Facts(s.agenda, p) \cup {f}
      /\ \A q : q # p => Facts(A, q) = Facts(s.agenda, q)
      /\ UniqueEvents(A)
  BY <1>1, <1>3, <1>4, EnterFacts
<1> HIDE DEF A
<1>6. /\ t.agenda = A /\ t.failed = s.failed /\ t.status = s.status /\ t.prio = s.prio
      /\ t.call = s.call /\ t.timers = s.timers /\ t.ticket = s.ticket
      /\ t.joins = s.joins /\ t.queue = s.queue /\ t.waiters = s.waiters
  BY DEF Steady, Fields
<1> HIDE DEF t
<1>7. Shaped(t)
  BY <1>5, <1>6 DEF Shaped
<1>8. Others(s, t, p)
  BY <1>5, <1>6 DEF Others, Own
<1>9. Own(t, p) = WithFact(Own(s, p), f)
  BY <1>5, <1>6 DEF Own, WithFact
<1>. QED BY <1>2, <1>6, <1>7, <1>8, <1>9 DEF f

(* A wakeup that is scheduled for a process that is alive, or that any     *)
(* process may get.                                                        *)
LEMMA FactAdded ==
  ASSUME NEW x, DOMAIN x = ViewFields, NEW kind, NEW sig, NEW pri,
         kind \notin {"time", "grant", "cancelled"}, sig # "cancelled"
  PROVE  LET f == [kind |-> kind, key |-> 0, sig |-> sig, prio |-> pri]
             y == WithFact(x, f)
         IN  /\ Keeps(x, y) /\ \A g : Tells(x, g) => Tells(y, g)
             /\ Reachable(x) => Reachable(y)
             /\ kind \in Unchecked => Reachable(y)
             /\ Sound(x) => Sound(y)
             /\ /\ Placed(x)
                /\ kind \in {"preempt", "resume"} => x.status = "running"
                => Placed(y)
<1> DEFINE f == [kind |-> kind, key |-> 0, sig |-> sig, prio |-> pri]
           y == WithFact(x, f)
<1>1. /\ y.status = x.status /\ y.prio = x.prio /\ y.call = x.call /\ y.timers = x.timers
      /\ y.ticket = x.ticket /\ y.joins = x.joins /\ y.waits = x.waits /\ y.lists = x.lists
      /\ y.facts = x.facts \cup {f}
  BY DEF ViewFields, WithFact
<1>2. f.kind = kind /\ f.key = 0 /\ f.sig = sig
  OBVIOUS
<1> HIDE DEF y, f
<1>3. Keeps(x, y)
  BY <1>1 DEF Keeps
<1>4. \A g : Tells(x, g) => Tells(y, g)
  BY <1>1 DEF Tells
<1>5. Reachable(x) => Reachable(y)
  BY <1>1 DEF Reachable
<1>6. kind \in Unchecked => Reachable(y)
  BY <1>1, <1>2 DEF Reachable
<1>7. ASSUME Sound(x) PROVE Sound(y)
  <2>1. TimersSet(y)
    BY <1>1, <1>7 DEF Sound, TimersSet
  <2>2. FactsFit(y)
    BY <1>1, <1>2, <1>7 DEF Sound, FactsFit
  <2>3. WaitsOpen(y)
    <3>1. \A w \in y.waits : w.key # 0 /\ w.prio = y.prio
      BY <1>1, <1>7 DEF Sound, WaitsOpen
    <3>2. \A w \in y.waits : y.ticket = [guard |-> w.guard, key |-> w.key]
      BY <1>1, <1>7 DEF Sound, WaitsOpen
    <3>3. \A w \in y.waits : \A h \in y.facts : h.key # w.key
      BY <1>1, <1>2, <1>7, <3>1 DEF Sound, WaitsOpen
    <3>. QED BY <3>1, <3>2, <3>3 DEF WaitsOpen
  <2>. QED BY <1>1, <1>7, <2>1, <2>2, <2>3 DEF Sound
<1>8. /\ Placed(x)
      /\ kind \in {"preempt", "resume"} => x.status = "running"
      => Placed(y)
  BY <1>1, <1>2 DEF Placed
<1>. QED BY <1>3, <1>4, <1>5, <1>6, <1>7, <1>8 DEF y, f

LEMMA ScheduledFine ==
  ASSUME NEW s, Steady(s), NEW dying, NEW open, NEW out, Fine(s, dying, open, out),
         NEW kind \in Kinds, NEW p \in Process, NEW sig, NEW delay \in Int, NEW pri \in Int,
         kind \notin {"time", "grant", "cancelled"}, sig # "cancelled",
         kind \in {"preempt", "resume"} => s.status[p] = "running"
  PROVE  LET t == Schedule(s, kind, p, 0, sig, delay, pri)
         IN  /\ Fine(t, dying, open, out) /\ t.failed = s.failed
             /\ kind \in Unchecked => Awake(t, out \ {p})
<1> DEFINE t == Schedule(s, kind, p, 0, sig, delay, pri)
           f == [kind |-> kind, key |-> 0, sig |-> sig, prio |-> pri]
           x == Own(s, p)
           y == WithFact(x, f)
<1>1. Core(s, dying) /\ Served(s, open) /\ Awake(s, out) /\ Shaped(s)
  BY DEF Fine, Core
<1>2. /\ Shaped(t) /\ Others(s, t, p) /\ t.failed = s.failed /\ Own(t, p) = y
  BY <1>1, ScheduleOwn
<1>3. t.holder = s.holder /\ t.status = s.status
  BY ScheduleCalm DEF Calm, Still, Owners
<1>4. DOMAIN x = ViewFields /\ x.status = s.status[p]
  BY OwnIs
<1>5. Sound(x) /\ (p \in dying \/ Placed(x))
  BY <1>1 DEF Core
<1> HIDE DEF x, t
<1>6. /\ Keeps(x, y) /\ \A g : Tells(x, g) => Tells(y, g)
      /\ Reachable(x) => Reachable(y)
      /\ kind \in Unchecked => Reachable(y)
      /\ Sound(x) => Sound(y)
      /\ /\ Placed(x)
         /\ kind \in {"preempt", "resume"} => x.status = "running"
         => Placed(y)
  BY <1>4, FactAdded
<1> HIDE DEF y
<1>7. Core(t, dying)
  BY <1>1, <1>2, <1>4, <1>5, <1>6, KeepsCore DEF x
<1>8. Served(t, open)
  BY <1>1, <1>2, <1>3, <1>6, KeepsServed DEF x
<1>9. Awake(t, out)
  BY <1>1, <1>2, <1>6, KeepsAwake DEF x
<1>10. kind \in Unchecked => Awake(t, out \ {p})
  BY <1>1, <1>2, <1>6, LocalAwake
<1>. QED BY <1>2, <1>7, <1>8, <1>9, <1>10 DEF Fine, t

-----------------------------------------------------------------------------
(* Keys.                                                                   *)
LEMMA FreshKeyIs ==
  ASSUME NEW s, Steady(s), NEW dying, Core(s, dying)
  PROVE  LET k == FreshKey(s)
         IN  /\ k # 0
             /\ \A q \in Process : /\ Own(s, q).ticket.key # k /\ Own(s, q).call.key # k
                                   /\ k \notin Own(s, q).timers
                                   /\ \A f \in Own(s, q).facts : f.key # k
<1> DEFINE U == KeysInUse(s)
           E == {e.key : e \in s.agenda}
           T == {s.ticket[p].key : p \in Process}
           C == {s.call[p].key : p \in Process}
           n == Cardinality(U)
<1>1. IsFiniteSet(s.agenda)
  BY DEF Steady, AgendaOK, Numbered
<1>2. IsFiniteSet(E) /\ IsFiniteSet(T) /\ IsFiniteSet(C)
  <2>1. [e \in s.agenda |-> e.key] \in Surjection(s.agenda, E)
    BY DEF Surjection
  <2>2. [p \in Process |-> s.ticket[p].key] \in Surjection(Process, T)
    BY DEF Surjection
  <2>3. [p \in Process |-> s.call[p].key] \in Surjection(Process, C)
    BY DEF Surjection
  <2> HIDE DEF E, T, C
  <2>. QED BY <1>1, <2>1, <2>2, <2>3, FiniteAssumption, FS_Surjection
<1>3. \A q \in Process : \A f \in Own(s, q).facts : f.key \in E
  BY OwnIs DEF Facts, Fact
<1>4. \A q \in Process : s.timers[q] \subseteq E
  <2> SUFFICES ASSUME NEW q \in Process, NEW k \in s.timers[q] PROVE k \in E
    OBVIOUS
  <2>1. Sound(Own(s, q)) /\ Own(s, q).timers = s.timers[q]
    BY OwnIs DEF Core
  <2>2. PICK f \in Own(s, q).facts : f.key = k
    BY <2>1 DEF Sound, TimersSet
  <2>. QED BY <1>3, <2>2
<1>5. U \subseteq E \cup T \cup C
  BY <1>4 DEF KeysInUse
<1>6. /\ \A e \in s.agenda : e.key \in U
      /\ \A q \in Process : /\ s.ticket[q].key \in U /\ s.call[q].key \in U
                            /\ s.timers[q] \subseteq U
  BY DEF KeysInUse
<1> HIDE DEF E, T, C
<1>7. IsFiniteSet(E \cup T \cup C)
  <2>1. IsFiniteSet(E \cup T)
    BY <1>2, FS_Union
  <2>. QED BY <1>2, <2>1, FS_Union
<1>8. IsFiniteSet(U) /\ n \in Nat
  BY <1>5, <1>7, FS_Subset, FS_CardinalityType
<1> HIDE DEF n
<1>9. \E k \in 1..(n + 1) : k \notin U
  <2> DEFINE I == 1..(n + 1)
  <2>1. IsFiniteSet(I) /\ Cardinality(I) = n + 1
    BY <1>8, FS_Interval
  <2> HIDE DEF I
  <2>2. SUFFICES ASSUME I \subseteq U PROVE FALSE
    BY DEF I
  <2>3. Cardinality(I) <= Cardinality(U)
    BY <1>8, <2>2, FS_Subset
  <2>. QED BY <1>8, <2>1, <2>3 DEF n
<1>10. \E k \in 1..(n + 1) : k \notin U /\ \A j \in 1..(k - 1) : j \in U
  <2> DEFINE N == {k \in 1..(n + 1) : k \notin U}
  <2>1. N \in SUBSET Nat /\ N # {}
    BY <1>9
  <2>2. PICK k \in N : \A j \in N : k <= j
    BY <2>1, LeastNatural
  <2>3. k \in 1..(n + 1) /\ k \notin U
    OBVIOUS
  <2>4. ASSUME NEW j \in 1..(k - 1) PROVE j \in U
    <3>1. j \in 1..(n + 1) /\ ~(k <= j)
      BY <1>8, <2>3
    <3>. QED BY <2>2, <3>1
  <2>. QED BY <2>3, <2>4
<1>11. FreshKey(s) \in 1..(n + 1) /\ FreshKey(s) \notin U
  BY <1>10 DEF FreshKey, n
<1>12. FreshKey(s) # 0
  BY <1>8, <1>11
<1>13. \A q \in Process : \A f \in Own(s, q).facts : f.key \in U
  BY <1>6, OwnIs DEF Facts, Fact
<1>. QED BY <1>6, <1>11, <1>12, <1>13, OwnIs

-----------------------------------------------------------------------------
(* What changes for one process only, and who holds what does not.         *)
Changed(s, t, p) ==
  /\ Shaped(t) /\ Others(s, t, p)
  /\ t.holder = s.holder /\ t.failed = s.failed

LEMMA LocalFine ==
  ASSUME NEW s, NEW dying, NEW open, NEW out, Fine(s, dying, open, out),
         NEW p \in Process, NEW t, Changed(s, t, p),
         NEW x, x = Own(s, p), NEW y, y = Own(t, p), Keeps(x, y),
         Sound(y), p \in dying \/ Placed(y),
         \A g \in Resource \ open : Tells(x, g) => Tells(y, g)
  PROVE  /\ Fine(t, dying, open, out \cup {p})
         /\ (Reachable(x) => Reachable(y)) => Fine(t, dying, open, out)
         /\ Reachable(y) \/ y.status # "running" => Fine(t, dying, open, out \ {p})
<1>1. Core(t, dying)
  BY KeepsCore DEF Fine, Changed
<1>2. Served(t, open)
  BY KeepsServed DEF Fine, Changed
<1>3. y.status = t.status[p]
  BY OwnIs
<1>4. /\ Awake(t, out \cup {p})
      /\ t.status[p] # "running" \/ Reachable(y) => Awake(t, out \ {p})
  BY LocalAwake DEF Fine, Changed
<1>5. (Reachable(x) => Reachable(y)) => Awake(t, out)
  BY KeepsAwake DEF Fine, Changed
<1>. QED BY <1>1, <1>2, <1>3, <1>4, <1>5 DEF Fine

(* What concerns nobody.                                                   *)
Unseen(s, t) ==
  /\ t.agenda = s.agenda /\ t.status = s.status /\ t.prio = s.prio /\ t.call = s.call
  /\ t.timers = s.timers /\ t.ticket = s.ticket /\ t.joins = s.joins
  /\ t.queue = s.queue /\ t.waiters = s.waiters

LEMMA UnseenOwn ==
  ASSUME NEW s, NEW t, Unseen(s, t)
  PROVE  /\ \A q : Own(t, q) = Own(s, q)
         /\ Shaped(s) => Shaped(t)
  BY DEF Unseen, Own, Shaped

LEMMA UnseenFine ==
  ASSUME NEW s, NEW t, Unseen(s, t), t.holder = s.holder,
         NEW dying, NEW open, NEW out, Fine(s, dying, open, out)
  PROVE  Fine(t, dying, open, out)
<1>1. \A q : Own(t, q) = Own(s, q)
  BY UnseenOwn
<1>2. Shaped(s) => Shaped(t)
  BY UnseenOwn
<1>3. t.status = s.status
  BY DEF Unseen
<1>4. Core(t, dying)
  BY <1>1, <1>2, <1>3 DEF Fine, Core
<1>5. Served(t, open)
  BY <1>1 DEF Fine, Served, Waited
<1>6. Awake(t, out)
  BY <1>1, <1>3 DEF Fine, Awake
<1>. QED BY <1>4, <1>5, <1>6 DEF Fine

-----------------------------------------------------------------------------
LEMMA WaitIs ==
  ASSUME NEW x, WaitsOpen(x), NEW w \in x.waits
  PROVE  x.ticket.key = w.key /\ x.ticket.guard = w.guard
<1>1. x.ticket = [guard |-> w.guard, key |-> w.key]
  BY DEF WaitsOpen
<1>. QED BY <1>1

(* A new timer in a view.                                                  *)
LEMMA TimerAdded ==
  ASSUME NEW x, Sound(x), NEW y, NEW k, k # 0, x.ticket.key # k, \A h \in x.facts : h.key # k,
         NEW f, f.kind = "time", f.key = k, f.sig # "cancelled", f.prio = x.prio,
         y.status = x.status, y.prio = x.prio, y.call = x.call, y.ticket = x.ticket,
         y.joins = x.joins, y.waits = x.waits, y.lists = x.lists,
         y.facts = x.facts \cup {f}, y.timers = x.timers \cup {k}
  PROVE  /\ Keeps(x, y) /\ \A g : Tells(x, g) => Tells(y, g)
         /\ Reachable(x) => Reachable(y)
         /\ Sound(y)
         /\ x.status = "running" /\ Placed(x) => Placed(y)
<1>3. Keeps(x, y)
  BY DEF Keeps
<1>4. \A g : Tells(x, g) => Tells(y, g)
  BY DEF Tells
<1>5. Reachable(x) => Reachable(y)
  BY DEF Reachable
<1>6. Sound(y)
  <2>1. TimersSet(y)
    BY DEF Sound, TimersSet
  <2>2. FactsFit(y)
    BY DEF Sound, FactsFit
  <2>3. WaitsOpen(y)
    <3>1. \A w \in y.waits : /\ w.key # 0 /\ w.prio = y.prio
                             /\ y.ticket = [guard |-> w.guard, key |-> w.key]
      BY DEF Sound, WaitsOpen
    <3>2. \A w \in y.waits : \A h \in x.facts : h.key # w.key
      BY DEF Sound, WaitsOpen
    <3>3. \A w \in y.waits : f.key # w.key
      BY WaitIs DEF Sound
    <3>. QED BY <3>1, <3>2, <3>3 DEF WaitsOpen
  <2>. QED BY <2>1, <2>2, <2>3 DEF Sound
<1>7. x.status = "running" /\ Placed(x) => Placed(y)
  BY DEF Placed
<1>. QED BY <1>3, <1>4, <1>5, <1>6, <1>7

(* cmb_process_timer_add                                                   *)
LEMMA TimerAddFine ==
  ASSUME NEW s, Steady(s), NEW dying, NEW open, NEW out, Fine(s, dying, open, out),
         NEW p \in Process, s.status[p] = "running", NEW delay \in Int, NEW sig,
         sig # "cancelled"
  PROVE  LET t == TimerAdd(s, p, delay, sig)
         IN  /\ Fine(t, dying, open, out) /\ t.failed = s.failed
             /\ FreshKey(s) \in t.timers[p]
             /\ \A q \in Process : t.ticket[q].key # FreshKey(s)
<1> DEFINE k == FreshKey(s)
           e == [kind |-> "time", proc |-> p, key |-> k, sig |-> sig,
                 delay |-> delay, prio |-> s.prio[p], tag |-> 0]
           f == [kind |-> "time", key |-> k, sig |-> sig, prio |-> s.prio[p]]
           A == Enter(s.agenda, e)
           T == [s.timers EXCEPT ![p] = s.timers[p] \cup {k}]
           t == [[s EXCEPT !.agenda = A] EXCEPT !.timers = T]
           x == Own(s, p)
           y == Own(t, p)
<1>1. s.prio[p] \in Int /\ "time" \in Kinds
  BY DEF Steady, Kinds
<1>2. TimerAdd(s, p, delay, sig) = t
  BY DEF TimerAdd, Schedule, Steady, Fields
<1>3. Core(s, dying) /\ Shaped(s)
  BY DEF Fine, Core
<1>4. /\ k # 0
      /\ \A q \in Process : /\ Own(s, q).ticket.key # k
                            /\ \A h \in Own(s, q).facts : h.key # k
  BY <1>3, FreshKeyIs
<1> HIDE DEF k
<1>5. EventOK(e) /\ e.proc = p /\ e.key = k /\ Fact(e) = f
  BY <1>1 DEF EventOK, EventFields, Fact
<1> HIDE DEF e
<1>6. \A h \in Facts(s.agenda, p) : h.key # k
  BY <1>4, OwnIs
<1>7. /\ Facts(A, p) = Facts(s.agenda, p) \cup {f}
      /\ \A q : q # p => Facts(A, q) = Facts(s.agenda, q)
      /\ UniqueEvents(A)
  BY <1>3, <1>5, <1>6, EnterFacts DEF Shaped
<1>8. /\ DOMAIN T = Process /\ T[p] = s.timers[p] \cup {k}
      /\ \A q \in Process \ {p} : T[q] = s.timers[q]
  BY <1>3 DEF Shaped
<1> HIDE DEF A, T
<1>9. /\ t.agenda = A /\ t.failed = s.failed /\ t.status = s.status /\ t.prio = s.prio
      /\ t.call = s.call /\ t.timers = T /\ t.ticket = s.ticket /\ t.holder = s.holder
      /\ t.joins = s.joins /\ t.queue = s.queue /\ t.waiters = s.waiters
  BY DEF Steady, Fields
<1> HIDE DEF t
<1>10. Shaped(t)
  BY <1>3, <1>7, <1>8, <1>9 DEF Shaped
<1>11. Others(s, t, p)
  BY <1>7, <1>8, <1>9 DEF Others, Own
<1>12. Changed(s, t, p)
  BY <1>9, <1>10, <1>11 DEF Changed
<1>13. /\ y.status = x.status /\ y.prio = x.prio /\ y.call = x.call /\ y.ticket = x.ticket
       /\ y.joins = x.joins /\ y.waits = x.waits /\ y.lists = x.lists
       /\ y.facts = x.facts \cup {f} /\ y.timers = x.timers \cup {k}
       /\ x.prio = s.prio[p] /\ x.status = "running"
  BY <1>7, <1>8, <1>9, OwnIs
<1>14. Sound(x) /\ (p \in dying \/ Placed(x))
  BY <1>3 DEF Core
<1>15. x.ticket.key # k /\ \A h \in x.facts : h.key # k
  BY <1>4
<1> HIDE DEF x, y
<1>16. /\ Keeps(x, y) /\ \A g : Tells(x, g) => Tells(y, g)
       /\ Reachable(x) => Reachable(y)
       /\ Sound(y) /\ (p \in dying \/ Placed(y))
  <2>1. f.kind = "time" /\ f.key = k /\ f.sig # "cancelled" /\ f.prio = x.prio
    BY <1>13
  <2> HIDE DEF f
  <2>. QED BY <1>4, <1>13, <1>14, <1>15, <2>1, TimerAdded
<1>17. Fine(t, dying, open, out)
  BY <1>12, <1>16, LocalFine DEF x, y
<1>. QED BY <1>2, <1>4, <1>8, <1>9, <1>17, OwnIs DEF k

-----------------------------------------------------------------------------
(* Timers that are cancelled.                                              *)
LEMMA TimersLess ==
  ASSUME NEW x, Sound(x), NEW y, NEW K,
         y.status = x.status, y.prio = x.prio, y.call = x.call, y.ticket = x.ticket,
         y.joins = x.joins, y.waits = x.waits, y.lists = x.lists,
         y.facts = {f \in x.facts : ~(f.kind = "time" /\ f.key \in K)},
         y.timers = x.timers \ K
  PROVE  /\ Keeps(x, y) /\ \A g : Tells(x, g) => Tells(y, g)
         /\ Sound(y)
         /\ Placed(x) => Placed(y)
<1>1. Keeps(x, y)
  BY DEF Keeps
<1>2. \A g : Tells(x, g) => Tells(y, g)
  BY DEF Tells
<1>3. TimersSet(y) /\ FactsFit(y)
  BY DEF Sound, TimersSet, FactsFit
<1>4. WaitsOpen(y)
  BY DEF Sound, WaitsOpen
<1>5. Sound(y)
  BY <1>3, <1>4 DEF Sound
<1>6. Placed(x) => Placed(y)
  BY DEF Placed
<1>. QED BY <1>1, <1>2, <1>5, <1>6

WithoutTimers(s, p, K) ==
  [CancelEvents(s, TimerEvents(s, p, K))
     EXCEPT !.timers = [s.timers EXCEPT ![p] = s.timers[p] \ K]]

LEMMA TimersCancelled ==
  ASSUME NEW s, Steady(s), NEW dying, NEW open, NEW out, Fine(s, dying, open, out),
         NEW p \in Process, NEW K
  PROVE  LET t == WithoutTimers(s, p, K)
         IN  /\ Fine(t, dying, open, out \cup {p}) /\ t.failed = s.failed
             /\ t.ticket = s.ticket /\ t.joins = s.joins
<1> DEFINE gone == TimerEvents(s, p, K)
           T == [s.timers EXCEPT ![p] = s.timers[p] \ K]
           G == {f \in Facts(s.agenda, p) : f.kind = "time" /\ f.key \in K}
           A == Leave(s.agenda, gone)
           t == [CancelEvents(s, gone) EXCEPT !.timers = T]
           x == Own(s, p)
           y == Own(t, p)
<1>0. WithoutTimers(s, p, K) = t
  BY DEF WithoutTimers
<1>1. Core(s, dying) /\ Shaped(s)
  BY DEF Fine, Core
<1>2. AgendaOK(s.agenda) /\ UniqueEvents(s.agenda)
  BY <1>1 DEF Steady, Shaped
<1>3. gone = Picked(s.agenda, p, G)
  BY DEF TimerEvents, Picked, Facts, Fact
<1> HIDE DEF gone, G
<1>4. /\ UniqueEvents(A) /\ Facts(A, p) = Facts(s.agenda, p) \ G
      /\ \A q : q # p => Facts(A, q) = Facts(s.agenda, q)
  BY <1>2, <1>3, LeaveFacts
<1>5. Facts(A, p) = {f \in Facts(s.agenda, p) : ~(f.kind = "time" /\ f.key \in K)}
  BY <1>4 DEF G
<1>6. /\ DOMAIN T = Process /\ T[p] = s.timers[p] \ K
      /\ \A q \in Process \ {p} : T[q] = s.timers[q]
  BY <1>1 DEF Shaped
<1>7. /\ t.agenda = A /\ t.failed = s.failed /\ t.status = s.status /\ t.prio = s.prio
      /\ t.call = s.call /\ t.timers = T /\ t.ticket = s.ticket /\ t.holder = s.holder
      /\ t.joins = s.joins /\ t.queue = s.queue /\ t.waiters = s.waiters
  BY DEF Steady, Fields, CancelEvents
<1> HIDE DEF A, t, T
<1>8. Shaped(t)
  BY <1>1, <1>4, <1>6, <1>7 DEF Shaped
<1>9. Others(s, t, p)
  BY <1>4, <1>6, <1>7 DEF Others, Own
<1>10. Changed(s, t, p)
  BY <1>7, <1>8, <1>9 DEF Changed
<1>11. /\ y.status = x.status /\ y.prio = x.prio /\ y.call = x.call /\ y.ticket = x.ticket
       /\ y.joins = x.joins /\ y.waits = x.waits /\ y.lists = x.lists
       /\ y.facts = {f \in x.facts : ~(f.kind = "time" /\ f.key \in K)}
       /\ y.timers = x.timers \ K
  BY <1>5, <1>6, <1>7, OwnIs
<1>12. Sound(x) /\ (p \in dying \/ Placed(x))
  BY <1>1 DEF Core
<1> HIDE DEF x, y
<1>13. /\ Keeps(x, y) /\ \A g : Tells(x, g) => Tells(y, g)
       /\ Sound(y) /\ (p \in dying \/ Placed(y))
  BY <1>11, <1>12, TimersLess
<1>14. Fine(t, dying, open, out \cup {p})
  BY <1>10, <1>13, LocalFine DEF x, y
<1>. QED BY <1>0, <1>7, <1>14

(* cmb_process_timer_cancel                                                *)
LEMMA TimerCancelFine ==
  ASSUME NEW s, Steady(s), NEW dying, NEW open, NEW out, Fine(s, dying, open, out),
         NEW p \in Process, NEW key
  PROVE  LET t == TimerCancel(s, p, key)
         IN  /\ Fine(t, dying, open, out \cup {p}) /\ t.failed = s.failed
             /\ t.ticket = s.ticket /\ t.joins = s.joins
<1>1. TimerCancel(s, p, key) = WithoutTimers(s, p, {key})
  BY DEF TimerCancel, WithoutTimers, CancelEvents, Steady, Fields
<1>. QED BY <1>1, TimersCancelled

(* cmb_process_timers_clear: every timer is found.                         *)
LEMMA TimersClearFine ==
  ASSUME NEW s, Steady(s), NEW dying, NEW open, NEW out, Fine(s, dying, open, out),
         NEW p \in Process
  PROVE  LET t == TimersClear(s, p)
         IN  Fine(t, dying, open, out \cup {p}) /\ t.failed = s.failed
<1> DEFINE K == s.timers[p]
           c == CancelEvents(s, TimerEvents(s, p, K))
           holds == \A k \in K : TimerEvents(s, p, {k}) # {}
<1>1. ASSUME NEW k \in K PROVE TimerEvents(s, p, {k}) # {}
  <2>1. Sound(Own(s, p)) /\ Own(s, p).timers = K /\ Own(s, p).facts = Facts(s.agenda, p)
    BY OwnIs DEF Fine, Core
  <2>2. PICK f \in Facts(s.agenda, p) : f.kind = "time" /\ f.key = k
    BY <1>1, <2>1 DEF Sound, TimersSet
  <2>3. PICK e \in s.agenda : e.proc = p /\ f = Fact(e)
    BY <2>2 DEF Facts
  <2>4. e.kind = "time" /\ e.key = k
    BY <2>2, <2>3 DEF Fact
  <2>. QED BY <2>3, <2>4 DEF TimerEvents
<1>2. holds
  BY <1>1
<1>3. TimersClear(s, p) = [Asserted(c, holds, "timers_clear")
                             EXCEPT !.timers = [@ EXCEPT ![p] = {}]]
  BY DEF TimersClear
<1> HIDE DEF holds
<1>4. Asserted(c, holds, "timers_clear") = c
  BY <1>2 DEF Asserted
<1>5. c.timers = s.timers
  BY DEF CancelEvents, Steady, Fields
<1>6. TimersClear(s, p) = WithoutTimers(s, p, K)
  BY <1>3, <1>4, <1>5 DEF WithoutTimers
<1>. QED BY <1>6, TimersCancelled

-----------------------------------------------------------------------------
(* An event other than a timer's is taken from the agenda.                 *)
LEMMA FactTaken ==
  ASSUME NEW x, Sound(x), Placed(x), CallOK(x.call), NEW y, NEW f,
         f.kind # "time", y.facts \subseteq x.facts, x.facts \subseteq y.facts \cup {f},
         y.status = x.status, y.prio = x.prio, y.call = x.call, y.timers = x.timers,
         y.ticket = x.ticket, y.joins = x.joins, y.waits = x.waits, y.lists = x.lists
  PROVE  /\ Keeps(x, y) /\ Sound(y) /\ Placed(y)
         /\ \A g : /\ Tells(x, g)
                   /\ ~(f.kind = "grant" /\ x.ticket = [guard |-> g, key |-> f.key])
                   => Tells(y, g)
         /\ /\ f.kind \in {"grant", "cancelled"} /\ (f.key = 0 \/ f.key # x.ticket.key)
            /\ Reachable(x)
            => Reachable(y)
         /\ f.kind = "process" /\ x.joins = NoOne /\ Reachable(x) => Reachable(y)
<1>1. Keeps(x, y)
  BY DEF Keeps
<1>2. TimersSet(y)
  BY DEF Sound, TimersSet
<1>3. FactsFit(y) /\ WaitsOpen(y)
  BY DEF Sound, FactsFit, WaitsOpen
<1>4. Sound(y)
  BY <1>2, <1>3 DEF Sound
<1>5. Placed(y)
  BY DEF Placed
<1>6. ASSUME NEW g, Tells(x, g),
             ~(f.kind = "grant" /\ x.ticket = [guard |-> g, key |-> f.key])
      PROVE  Tells(y, g)
  BY <1>6 DEF Tells
<1>7. \A h \in x.facts : h.kind \in Unchecked /\ f.kind \notin Unchecked => h \in y.facts
  OBVIOUS
<1>8. ASSUME f.kind \in {"grant", "cancelled"}, f.key = 0 \/ f.key # x.ticket.key,
             Reachable(x)
      PROVE  Reachable(y)
  <2>1. CASE \E h \in x.facts : h.kind \in Unchecked
    BY <1>8, <2>1 DEF Reachable, Unchecked
  <2>2. CASE x.call.fn = "yield" \/ (x.call.fn = "hold" /\ x.call.key \in x.timers)
    BY <2>2 DEF Reachable
  <2>3. CASE /\ x.call.fn = "join" /\ x.joins = x.call.on
             /\ x.call.on \in x.lists \/ \E h \in x.facts : h.kind = "process"
    BY <1>8, <2>3 DEF Reachable
  <2>4. CASE /\ x.call.fn = "acquire"
             /\ x.ticket = [guard |-> x.call.on, key |-> x.call.key]
             /\ \/ \E w \in x.waits : w.guard = x.call.on /\ w.key = x.call.key
                \/ \E h \in x.facts : h.kind \in {"grant", "cancelled"} /\ h.key = x.call.key
    <3>1. x.call.on \in Resource
      BY <2>4 DEF CallOK
    <3>2. x.ticket.guard = x.call.on /\ x.ticket.key = x.call.key
      BY <2>4
    <3>3. x.ticket # NoTicket
      BY <3>1, <3>2, NullAssumption DEF NoTicket
    <3>4. x.call.key # 0
      BY <3>2, <3>3 DEF Sound
    <3>5. x.call.key # f.key
      BY <1>8, <3>2, <3>4
    <3>. QED BY <2>4, <3>5 DEF Reachable
  <2>. QED BY <1>8, <2>1, <2>2, <2>3, <2>4 DEF Reachable
<1>9. ASSUME f.kind = "process", x.joins = NoOne, Reachable(x) PROVE Reachable(y)
  <2>1. x.call.fn = "join" => x.joins # x.call.on
    BY <1>9, NullAssumption DEF Sound
  <2>2. \A h \in x.facts : h.kind \in Unchecked \cup {"grant", "cancelled"} => h \in y.facts
    BY <1>9 DEF Unchecked
  <2>. QED BY <1>9, <2>1, <2>2 DEF Reachable
<1>. QED BY <1>1, <1>4, <1>5, <1>6, <1>8, <1>9

(* cmb_event_execute_next, up to the call of the action.                   *)
LEMMA DequeueView ==
  ASSUME NEW s, Steady(s), s.agenda # {}, Shaped(s)
  PROVE  LET e == First(s.agenda)
             p == e.proc
             t == Dequeue(s)
             x == Own(s, p)
             y == Own(t, p)
         IN  /\ p \in Process /\ e.kind \in Kinds /\ Changed(s, t, p)
             /\ Fact(e) \in x.facts
             /\ y.facts \subseteq x.facts /\ x.facts \subseteq y.facts \cup {Fact(e)}
             /\ e.key # 0 => \A f \in y.facts : f.key # e.key
             /\ y.status = x.status /\ y.prio = x.prio /\ y.call = x.call
             /\ y.timers = x.timers /\ y.ticket = x.ticket /\ y.joins = x.joins
             /\ y.waits = x.waits /\ y.lists = x.lists
<1> DEFINE e == First(s.agenda)
           p == e.proc
           t == Dequeue(s)
           x == Own(s, p)
           y == Own(t, p)
<1>1. UniqueEvents(s.agenda)
  BY DEF Shaped
<1>2. /\ EventOK(e) /\ Fact(e) \in Facts(s.agenda, p)
      /\ UniqueEvents(t.agenda)
      /\ \A q : q # p => Facts(t.agenda, q) = Facts(s.agenda, q)
      /\ Facts(t.agenda, p) \subseteq Facts(s.agenda, p)
      /\ Facts(s.agenda, p) \subseteq Facts(t.agenda, p) \cup {Fact(e)}
      /\ e.key # 0 => \A f \in Facts(t.agenda, p) : f.key # e.key
  BY <1>1, DequeueFacts
<1>3. /\ t.failed = s.failed /\ t.status = s.status /\ t.prio = s.prio
      /\ t.call = s.call /\ t.timers = s.timers /\ t.ticket = s.ticket /\ t.holder = s.holder
      /\ t.joins = s.joins /\ t.queue = s.queue /\ t.waiters = s.waiters
  BY DEF Steady, Fields, Dequeue
<1> HIDE DEF t
<1>4. Shaped(t)
  BY <1>2, <1>3 DEF Shaped
<1>5. Others(s, t, p)
  BY <1>2, <1>3 DEF Others, Own
<1>6. Changed(s, t, p)
  BY <1>3, <1>4, <1>5 DEF Changed
<1>8. p \in Process /\ e.kind \in Kinds
  BY <1>2 DEF EventOK
<1> HIDE DEF e
<1>. QED BY <1>2, <1>3, <1>6, <1>8, OwnIs DEF e, t

-----------------------------------------------------------------------------
(* The guard that a grant for p with this key has given up on.             *)
Given(s, e) ==
  IF e.kind = "grant" /\ e.key = s.ticket[e.proc].key THEN {s.ticket[e.proc].guard} ELSE {}

LEMMA DequeueFine ==
  ASSUME NEW s, Steady(s), s.agenda # {}, NEW out, Fine(s, {}, {}, out),
         First(s.agenda).kind # "time"
  PROVE  LET e == First(s.agenda)
             p == e.proc
             t == Dequeue(s)
         IN  /\ Fine(t, {}, Given(s, e), out \cup {p})
             /\ e.kind # "grant" => Fine(t, {}, {}, out \cup {p})
             /\ /\ e.kind \in {"grant", "cancelled"}
                /\ ~AwaitingKey(s, p, e.key)
                => Fine(t, {}, {}, out)
             /\ e.kind = "process" /\ s.joins[p] = NoOne => Fine(t, {}, {}, out)
<1> DEFINE e == First(s.agenda)
           p == e.proc
           t == Dequeue(s)
           x == Own(s, p)
           y == Own(t, p)
           f == Fact(e)
<1>1. Core(s, {}) /\ Served(s, {}) /\ Awake(s, out) /\ Shaped(s)
  BY DEF Fine, Core
<1>2. /\ p \in Process /\ e.kind \in Kinds /\ Changed(s, t, p)
      /\ f \in x.facts
      /\ y.facts \subseteq x.facts /\ x.facts \subseteq y.facts \cup {f}
      /\ y.status = x.status /\ y.prio = x.prio /\ y.call = x.call
      /\ y.timers = x.timers /\ y.ticket = x.ticket /\ y.joins = x.joins
      /\ y.waits = x.waits /\ y.lists = x.lists
  BY <1>1, DequeueView
<1>3. f.kind = e.kind /\ f.key = e.key /\ f.kind # "time"
  BY DEF Fact
<1>4. x.ticket = s.ticket[p] /\ x.joins = s.joins[p] /\ x.call = s.call[p]
  BY OwnIs
<1> HIDE DEF e, t, f
<1>5. Sound(x) /\ Placed(x) /\ CallOK(x.call)
  BY <1>1, <1>2, <1>4 DEF Core, Steady, CallsOK
<1>6. x = Own(s, p) /\ y = Own(t, p)
  OBVIOUS
<1> HIDE DEF x, y
<1>7. /\ Keeps(x, y) /\ Sound(y) /\ Placed(y)
      /\ \A g : /\ Tells(x, g)
                /\ ~(f.kind = "grant" /\ x.ticket = [guard |-> g, key |-> f.key])
                => Tells(y, g)
      /\ /\ f.kind \in {"grant", "cancelled"} /\ (f.key = 0 \/ f.key # x.ticket.key)
         /\ Reachable(x)
         => Reachable(y)
      /\ f.kind = "process" /\ x.joins = NoOne /\ Reachable(x) => Reachable(y)
  BY <1>2, <1>3, <1>5, FactTaken
<1>8. Fine(s, {}, Given(s, e), out)
  BY <1>1 DEF Fine, Served
<1>9. ASSUME NEW g, Tells(x, g), g \notin Given(s, e) PROVE Tells(y, g)
  <2>1. ASSUME f.kind = "grant", x.ticket = [guard |-> g, key |-> f.key] PROVE FALSE
    <3>1. x.ticket.guard = g /\ x.ticket.key = f.key
      BY <2>1
    <3>2. s.ticket[p].guard = g /\ s.ticket[p].key = e.key
      BY <1>3, <1>4, <3>1
    <3>. QED BY <1>3, <1>9, <2>1, <3>2 DEF Given
  <2>. QED BY <1>7, <1>9, <2>1
<1>10. Fine(t, {}, Given(s, e), out \cup {p})
  BY <1>2, <1>6, <1>7, <1>8, <1>9, LocalFine
<1>11. ASSUME Given(s, e) = {} PROVE Fine(t, {}, {}, out \cup {p})
  BY <1>10, <1>11
<1>12. e.kind # "grant" => Given(s, e) = {}
  BY DEF Given
<1>13. ASSUME e.kind \in {"grant", "cancelled"}, ~AwaitingKey(s, p, e.key)
       PROVE  Fine(t, {}, {}, out)
  <2>1. e.key = 0 \/ e.key # x.ticket.key
    BY <1>4, <1>13 DEF AwaitingKey
  <2>2. Reachable(x) => Reachable(y)
    BY <1>3, <1>7, <1>13, <2>1
  <2>3. \A g \in Resource : Tells(x, g) => Tells(y, g)
    <3> SUFFICES ASSUME NEW g \in Resource, Tells(x, g),
                        f.kind = "grant", x.ticket = [guard |-> g, key |-> f.key]
                 PROVE  FALSE
      BY <1>7
    <3>1. x.ticket.guard = g /\ x.ticket.key = f.key
      OBVIOUS
    <3>2. x.ticket # NoTicket
      BY <3>1, NullAssumption DEF NoTicket
    <3>. QED BY <1>3, <1>5, <2>1, <3>1, <3>2 DEF Sound
  <2>. QED BY <1>2, <1>6, <1>7, <2>2, <2>3, LocalFine
<1>14. ASSUME e.kind = "process", s.joins[p] = NoOne PROVE Fine(t, {}, {}, out)
  <2>1. Reachable(x) => Reachable(y)
    BY <1>3, <1>4, <1>7, <1>14
  <2>2. \A g \in Resource : Tells(x, g) => Tells(y, g)
    BY <1>3, <1>7, <1>14
  <2>. QED BY <1>2, <1>6, <1>7, <2>1, <2>2, LocalFine
<1>. QED BY <1>10, <1>11, <1>12, <1>13, <1>14 DEF e, t

(* A timer's event goes together with the timer.                           *)
LEMMA TimerTaken ==
  ASSUME NEW x, Sound(x), Placed(x), NEW y, NEW f, f \in x.facts,
         f.kind = "time", y.facts \subseteq x.facts, x.facts \subseteq y.facts \cup {f},
         \A h \in y.facts : h.key # f.key,
         y.status = x.status, y.prio = x.prio, y.call = x.call, y.timers = x.timers \ {f.key},
         y.ticket = x.ticket, y.joins = x.joins, y.waits = x.waits, y.lists = x.lists
  PROVE  /\ Keeps(x, y) /\ Sound(y) /\ Placed(y)
         /\ \A g : Tells(x, g) => Tells(y, g)
<1>1. Keeps(x, y)
  BY DEF Keeps
<1>2. TimersSet(y)
  BY DEF Sound, TimersSet
<1>3. FactsFit(y) /\ WaitsOpen(y)
  BY DEF Sound, FactsFit, WaitsOpen
<1>4. Sound(y)
  BY <1>2, <1>3 DEF Sound
<1>5. Placed(y)
  BY DEF Placed
<1>6. \A g : Tells(x, g) => Tells(y, g)
  BY DEF Tells
<1>. QED BY <1>1, <1>4, <1>5, <1>6

(* wakeup_event_time, up to the resumption                                 *)
TimerOver(s, p, key) == [s EXCEPT !.timers = [s.timers EXCEPT ![p] = s.timers[p] \ {key}]]

LEMMA DequeueTimeFine ==
  ASSUME NEW s, Steady(s), s.agenda # {}, NEW out, Fine(s, {}, {}, out),
         First(s.agenda).kind = "time"
  PROVE  LET e == First(s.agenda)
             p == e.proc
             t == TimerOver(Dequeue(s), p, e.key)
         IN  /\ e.key \in Dequeue(s).timers[p]
             /\ Fine(t, {}, {}, out \cup {p}) /\ t.failed = s.failed
             /\ t.call = s.call /\ t.joins = s.joins /\ t.ticket = s.ticket
             /\ t.status = s.status
<1> DEFINE e == First(s.agenda)
           p == e.proc
           u == Dequeue(s)
           T == [u.timers EXCEPT ![p] = u.timers[p] \ {e.key}]
           t == [u EXCEPT !.timers = T]
           x == Own(s, p)
           v == Own(u, p)
           y == Own(t, p)
           f == Fact(e)
<1>1. Core(s, {}) /\ Served(s, {}) /\ Awake(s, out) /\ Shaped(s)
  BY DEF Fine, Core
<1>2. /\ p \in Process /\ Changed(s, u, p)
      /\ f \in x.facts
      /\ v.facts \subseteq x.facts /\ x.facts \subseteq v.facts \cup {f}
      /\ e.key # 0 => \A h \in v.facts : h.key # e.key
      /\ v.status = x.status /\ v.prio = x.prio /\ v.call = x.call
      /\ v.timers = x.timers /\ v.ticket = x.ticket /\ v.joins = x.joins
      /\ v.waits = x.waits /\ v.lists = x.lists
  BY <1>1, DequeueView
<1>3. f.kind = "time" /\ f.key = e.key
  BY DEF Fact
<1>4. Sound(x) /\ Placed(x)
  BY <1>1, <1>2 DEF Core
<1>5. TimerOver(u, p, e.key) = t
  BY DEF TimerOver
<1>6. Calm(s, u)
  BY DequeueCalm
<1>7. u.joins = s.joins /\ u.ticket = s.ticket /\ u.call = s.call /\ u.status = s.status
  BY DEF Steady, Fields, Dequeue
<1> HIDE DEF e, u, f
<1>8. e.key \in u.timers[p] /\ e.key # 0
  <2>1. e.key \in x.timers
    BY <1>2, <1>3, <1>4 DEF Sound, FactsFit
  <2>2. e.key # 0
    BY <1>4, <2>1 DEF Sound, TimersSet
  <2>. QED BY <1>2, <2>1, <2>2, OwnIs
<1>9. Shaped(u) /\ Others(s, u, p) /\ u.holder = s.holder /\ u.failed = s.failed
  BY <1>2 DEF Changed
<1>10. /\ DOMAIN T = Process /\ T[p] = u.timers[p] \ {e.key}
       /\ \A q \in Process \ {p} : T[q] = u.timers[q]
  <2>1. DOMAIN u.timers = Process
    BY <1>9 DEF Shaped
  <2> HIDE DEF t, v, x, y
  <2>. QED BY <1>2, <2>1
<1> HIDE DEF T
<1>11. /\ t.agenda = u.agenda /\ t.failed = u.failed /\ t.status = u.status
       /\ t.prio = u.prio /\ t.call = u.call /\ t.timers = T /\ t.ticket = u.ticket
       /\ t.holder = u.holder /\ t.joins = u.joins /\ t.queue = u.queue
       /\ t.waiters = u.waiters
  BY <1>6 DEF Calm, Steady, Fields
<1> HIDE DEF t
<1>12. Shaped(t)
  BY <1>9, <1>10, <1>11 DEF Shaped
<1>13. Others(u, t, p)
  BY <1>10, <1>11 DEF Others, Own
<1>14. Others(s, t, p)
  BY <1>9, <1>13 DEF Others
<1>15. Changed(s, t, p)
  BY <1>9, <1>11, <1>12, <1>14 DEF Changed
<1>16. /\ y.facts = v.facts /\ y.status = v.status /\ y.prio = v.prio /\ y.call = v.call
       /\ y.timers = v.timers \ {e.key} /\ y.ticket = v.ticket /\ y.joins = v.joins
       /\ y.waits = v.waits /\ y.lists = v.lists
  BY <1>10, <1>11, OwnIs
<1>17. x = Own(s, p) /\ y = Own(t, p)
  OBVIOUS
<1> HIDE DEF x, y, v
<1>18. /\ y.facts \subseteq x.facts /\ x.facts \subseteq y.facts \cup {f}
       /\ \A h \in y.facts : h.key # f.key
       /\ y.status = x.status /\ y.prio = x.prio /\ y.call = x.call
       /\ y.timers = x.timers \ {f.key}
       /\ y.ticket = x.ticket /\ y.joins = x.joins /\ y.waits = x.waits /\ y.lists = x.lists
  BY <1>2, <1>3, <1>8, <1>16
<1>19. /\ Keeps(x, y) /\ Sound(y) /\ Placed(y)
       /\ \A g : Tells(x, g) => Tells(y, g)
  BY <1>2, <1>3, <1>4, <1>18, TimerTaken
<1>20. Fine(t, {}, {}, out \cup {p})
  BY <1>2, <1>15, <1>17, <1>19, LocalFine
<1>. QED BY <1>5, <1>7, <1>8, <1>9, <1>11, <1>20 DEF e, u

-----------------------------------------------------------------------------
(* Control is given up, and comes back.                                    *)
CallSet1(s, t, p, c) ==
  /\ t.agenda = s.agenda /\ t.status = s.status /\ t.prio = s.prio
  /\ t.timers = s.timers /\ t.ticket = s.ticket /\ t.joins = s.joins
  /\ t.queue = s.queue /\ t.waiters = s.waiters
  /\ t.holder = s.holder /\ t.failed = s.failed
  /\ t.call[p] = c /\ \A q \in Process \ {p} : t.call[q] = s.call[q]

LEMMA CallSetView ==
  ASSUME NEW s, Shaped(s), NEW p \in Process, NEW c, NEW t, CallSet1(s, t, p, c)
  PROVE  LET x == Own(s, p)
             y == Own(t, p)
         IN  /\ Changed(s, t, p)
             /\ y.status = x.status /\ y.prio = x.prio /\ y.call = c
             /\ y.timers = x.timers /\ y.ticket = x.ticket /\ y.joins = x.joins
             /\ y.facts = x.facts /\ y.waits = x.waits /\ y.lists = x.lists
<1>1. Shaped(t)
  BY DEF CallSet1, Shaped
<1>2. Others(s, t, p)
  BY DEF CallSet1, Others, Own
<1>3. Changed(s, t, p)
  BY <1>1, <1>2 DEF Changed, CallSet1
<1>. QED BY <1>3, OwnIs DEF CallSet1

(* One that waits for nothing is back in its own code.                     *)
LEMMA ReturnFine ==
  ASSUME NEW s, Steady(s), NEW dying, NEW open, NEW out, Fine(s, dying, open, out),
         NEW p \in Process, s.ticket[p] = NoTicket, s.joins[p] = NoOne, NEW sig
  PROVE  LET t == Return(s, p, sig)
         IN  /\ Fine(t, dying, open, out \cup {p}) /\ RunnerIdle(t)
             /\ t.running = p /\ t.failed = s.failed
<1> DEFINE t == Return(s, p, sig)
           x == Own(s, p)
           y == Own(t, p)
<1>1. Core(s, dying) /\ Shaped(s)
  BY DEF Fine, Core
<1>2. CallSet1(s, t, p, Idle) /\ t.running = p
  BY DEF Return, CallSet1, Steady, Fields, CallsOK
<1> HIDE DEF t
<1>3. /\ Changed(s, t, p)
      /\ y.status = x.status /\ y.prio = x.prio /\ y.call = Idle
      /\ y.timers = x.timers /\ y.ticket = x.ticket /\ y.joins = x.joins
      /\ y.facts = x.facts /\ y.waits = x.waits /\ y.lists = x.lists
  BY <1>1, <1>2, CallSetView
<1>4. Sound(x) /\ (p \in dying \/ Placed(x)) /\ x.ticket = NoTicket /\ x.joins = NoOne
  BY <1>1, OwnIs DEF Core
<1>5. x = Own(s, p) /\ y = Own(t, p)
  OBVIOUS
<1> HIDE DEF x, y
<1>6. Idle.fn = "none" /\ Idle.key = 0
  BY DEF Idle
<1>7. Keeps(x, y)
  BY <1>3, <1>6 DEF Keeps
<1>8. Sound(y)
  <2>1. TimersSet(y) /\ FactsFit(y) /\ WaitsOpen(y)
    BY <1>3, <1>4 DEF Sound, TimersSet, FactsFit, WaitsOpen
  <2>. QED BY <1>3, <1>4, <1>6, <2>1 DEF Sound
<1>9. Placed(x) => Placed(y)
  BY <1>3, <1>4, <1>6 DEF Placed
<1>10. \A g : Tells(x, g) => Tells(y, g)
  BY <1>3 DEF Tells
<1>11. Fine(t, dying, open, out \cup {p})
  BY <1>3, <1>4, <1>5, <1>7, <1>8, <1>9, <1>10, LocalFine
<1>12. RunnerIdle(t)
  <2>1. t.call[p].fn = "none"
    BY <1>2, <1>6 DEF CallSet1
  <2>. QED BY <1>2, <2>1 DEF RunnerIdle
<1>. QED BY <1>2, <1>3, <1>11, <1>12 DEF Changed, t

(* One that runs waits for nothing.                                        *)
LEMMA RunsFree ==
  ASSUME NEW s, NEW dying, Core(s, dying), NEW p \in Process \ dying,
         s.call[p].fn \notin {"acquire", "join"}
  PROVE  /\ s.ticket[p] = NoTicket /\ s.joins[p] = NoOne
         /\ Own(s, p).waits = {} /\ Own(s, p).lists = {}
<1> DEFINE x == Own(s, p)
<1>1. Sound(x) /\ Placed(x)
  BY DEF Core
<1>2. x.call = s.call[p] /\ x.ticket = s.ticket[p] /\ x.joins = s.joins[p]
  BY OwnIs
<1>3. x.lists \subseteq Process
  BY OwnIs DEF Lists
<1>4. \A w \in x.waits : w.guard \in Resource
  BY OwnIs DEF Waits, Wait
<1> HIDE DEF x
<1>5. x.ticket = NoTicket
  <2> SUFFICES ASSUME x.ticket # NoTicket PROVE FALSE
    OBVIOUS
  <2>1. x.call = [fn |-> "acquire", on |-> x.ticket.guard, key |-> x.ticket.key]
    BY <1>1 DEF Placed
  <2>2. x.call.fn = "acquire"
    BY <2>1
  <2>. QED BY <1>2, <2>2
<1>6. x.joins = NoOne
  BY <1>1, <1>2 DEF Placed
<1>7. x.lists = {}
  BY <1>1, <1>3, <1>6, NullAssumption DEF Sound
<1>8. x.waits = {}
  <2> SUFFICES ASSUME NEW w \in x.waits PROVE FALSE
    OBVIOUS
  <2>1. w.guard = NoOne
    BY <1>1, <1>5, WaitIs DEF Sound, NoTicket
  <2>. QED BY <1>4, <2>1, NullAssumption
<1>. QED BY <1>2, <1>5, <1>6, <1>7, <1>8 DEF x

(* A process that held or yields.                                          *)
LEMMA BlockFine ==
  ASSUME NEW s, Steady(s), NEW out, Fine(s, {}, {}, out),
         NEW p \in Process, s.status[p] = "running", s.call[p].fn = "none",
         NEW fn, NEW on, NEW key,
         \/ fn = "yield" /\ key = 0
         \/ /\ fn = "hold" /\ key \in s.timers[p]
            /\ \A q \in Process : s.ticket[q].key # key
  PROVE  LET t == Block(s, p, fn, on, key)
         IN  /\ Fine(t, {}, {}, out \ {p}) /\ RunnerIdle(t)
             /\ t.running = NoOne /\ t.failed = s.failed
<1> DEFINE t == Block(s, p, fn, on, key)
           c == [fn |-> fn, on |-> on, key |-> key]
           x == Own(s, p)
           y == Own(t, p)
<1>1. Core(s, {}) /\ Served(s, {}) /\ Awake(s, out) /\ Shaped(s)
  BY DEF Fine, Core
<1>2. CallSet1(s, t, p, c) /\ t.running = NoOne
  BY DEF Block, CallSet1, Steady, Fields, CallsOK
<1> HIDE DEF t
<1>3. /\ Changed(s, t, p)
      /\ y.status = x.status /\ y.prio = x.prio /\ y.call = c
      /\ y.timers = x.timers /\ y.ticket = x.ticket /\ y.joins = x.joins
      /\ y.facts = x.facts /\ y.waits = x.waits /\ y.lists = x.lists
  BY <1>1, <1>2, CallSetView
<1>4. /\ x.ticket = NoTicket /\ x.joins = NoOne /\ x.waits = {} /\ x.lists = {}
      /\ x.status = "running" /\ x.timers = s.timers[p]
  BY <1>1, RunsFree, OwnIs
<1>5. Sound(x) /\ Placed(x)
  BY <1>1 DEF Core
<1>6. /\ c.fn = fn /\ c.key = key /\ fn \in {"yield", "hold"}
      /\ NoTicket.key = 0
  BY DEF NoTicket
<1>7. \A q \in Process : s.ticket[q] # NoTicket => s.ticket[q].key # 0 /\ s.ticket[q].key # key
  <2> SUFFICES ASSUME NEW q \in Process, s.ticket[q] # NoTicket
               PROVE  s.ticket[q].key # 0 /\ s.ticket[q].key # key
    OBVIOUS
  <2>1. Sound(Own(s, q)) /\ Own(s, q).ticket = s.ticket[q]
    BY <1>1, OwnIs DEF Core
  <2>2. s.ticket[q].key # 0
    BY <2>1 DEF Sound
  <2>. QED BY <2>2
<1>8. x = Own(s, p) /\ y = Own(t, p)
  OBVIOUS
<1> HIDE DEF c, x, y
<1>9. Sound(y)
  <2>1. TimersSet(y) /\ FactsFit(y) /\ WaitsOpen(y)
    BY <1>3, <1>4, <1>5 DEF Sound, TimersSet, FactsFit, WaitsOpen
  <2>. QED BY <1>3, <1>4, <1>5, <1>6, <2>1 DEF Sound
<1>10. Placed(y)
  BY <1>3, <1>4, <1>5, <1>6 DEF Placed
<1>11. ASSUME NEW q \in Process \ {p}
       PROVE  Apart(y, Own(s, q)) /\ Apart(Own(s, q), y)
  <2>1. Own(s, q).ticket = s.ticket[q]
    BY OwnIs
  <2>. QED BY <1>3, <1>4, <1>6, <1>7, <2>1 DEF Apart
<1>12. Core(t, {})
  BY <1>1, <1>3, <1>4, <1>8, <1>9, <1>10, <1>11, LocalCore, OwnIs DEF Changed
<1>13. Served(t, {})
  <2>1. \A g \in Resource \ {} : Tells(x, g) => Tells(y, g)
    BY <1>3 DEF Tells
  <2>2. \A w \in y.waits : \E v \in x.waits : v.guard = w.guard
    BY <1>3
  <2>. QED BY <1>1, <1>3, <1>8, <2>1, <2>2, LocalServed DEF Changed
<1>14. Reachable(y)
  BY <1>3, <1>4, <1>6 DEF Reachable
<1>15. Awake(t, out \ {p})
  BY <1>1, <1>3, <1>8, <1>14, LocalAwake DEF Changed
<1>16. RunnerIdle(t)
  BY <1>2, NullAssumption DEF RunnerIdle
<1>. QED BY <1>2, <1>3, <1>12, <1>13, <1>15, <1>16 DEF Fine, Changed, t

-----------------------------------------------------------------------------
(* Lists of waiters.                                                       *)
Joined(ws, p, q) == [ws EXCEPT ![q] = <<p>> \o ws[q]]

LEMMA PrependLists ==
  ASSUME NEW ws \in [Process -> Seq(Process)], Single(ws), NEW p \in Process,
         NEW q \in Process, Never(ws[q], p)
  PROVE  LET us == Joined(ws, p, q)
         IN  /\ Single(us) /\ Lists(us, p) = Lists(ws, p) \cup {q}
             /\ \A r \in Process \ {p} : Lists(us, r) = Lists(ws, r)
<1> DEFINE l == <<p>> \o ws[q]
           us == Joined(ws, p, q)
<1>1. /\ Once(l, p)
      /\ \A r : r # p => /\ Never(ws[q], r) => Never(l, r)
                         /\ Once(ws[q], r) => Once(l, r)
  BY PrependKeeps
<1>2. us[q] = l /\ \A o \in Process \ {q} : us[o] = ws[o]
  BY DEF Joined
<1> HIDE DEF l, us
<1>3. \A o, r \in Process : ~(Never(us[o], r) /\ Once(us[o], r))
  BY DEF Never, Once
<1>4. \A o \in Process, r \in Process \ {p} : Never(us[o], r) <=> Never(ws[o], r)
  BY <1>1, <1>2, <1>3 DEF Single
<1>5. Single(us)
  BY <1>1, <1>2 DEF Single
<1>6. \A o \in Process : ~Never(us[o], p) <=> ~Never(ws[o], p) \/ o = q
  BY <1>1, <1>2, <1>3
<1>7. Lists(us, p) = Lists(ws, p) \cup {q}
  BY <1>6 DEF Lists
<1>8. \A r \in Process \ {p} : Lists(us, r) = Lists(ws, r)
  BY <1>4 DEF Lists
<1>. QED BY <1>5, <1>7, <1>8 DEF us

(* cmb_process_wait_process                                                *)
LEMMA WaitProcessFine ==
  ASSUME NEW s, Steady(s), NEW out, Fine(s, {}, {}, out),
         NEW p \in Process, s.status[p] = "running", s.call[p].fn = "none",
         NEW q \in Process, s.status[q] # "finished"
  PROVE  LET t == WaitProcess(s, p, q)
         IN  /\ Fine(t, {}, {}, out \ {p}) /\ RunnerIdle(t)
             /\ t.running = NoOne /\ t.failed = s.failed
<1> DEFINE t == WaitProcess(s, p, q)
           c == [fn |-> "join", on |-> q, key |-> 0]
           ws == Joined(s.waiters, p, q)
           x == Own(s, p)
           y == Own(t, p)
<1>1. Core(s, {}) /\ Served(s, {}) /\ Awake(s, out) /\ Shaped(s)
  BY DEF Fine, Core
<1>2. /\ t.agenda = s.agenda /\ t.status = s.status /\ t.prio = s.prio
      /\ t.timers = s.timers /\ t.ticket = s.ticket
      /\ t.queue = s.queue /\ t.waiters = ws /\ t.running = NoOne
      /\ t.holder = s.holder /\ t.failed = s.failed
      /\ t.joins = [s.joins EXCEPT ![p] = q] /\ t.call = [s.call EXCEPT ![p] = c]
  BY DEF WaitProcess, Block, Joined, Steady, Fields
<1> HIDE DEF t
<1>3. /\ DOMAIN t.joins = Process /\ t.joins[p] = q /\ t.call[p] = c
      /\ \A r \in Process \ {p} : t.joins[r] = s.joins[r] /\ t.call[r] = s.call[r]
  BY <1>1, <1>2 DEF Shaped, Steady, CallsOK
<1>4. /\ x.ticket = NoTicket /\ x.joins = NoOne /\ x.waits = {} /\ x.lists = {}
      /\ x.status = "running" /\ x.timers = s.timers[p]
  BY <1>1, RunsFree, OwnIs
<1>5. Sound(x) /\ Placed(x)
  BY <1>1 DEF Core
<1>6. s.waiters \in [Process -> Seq(Process)] /\ Single(s.waiters) /\ Never(s.waiters[q], p)
  <2>1. x.lists = Lists(s.waiters, p)
    BY OwnIs
  <2>2. Never(s.waiters[q], p)
    BY <1>4, <2>1 DEF Lists
  <2>. QED BY <1>1, <2>2 DEF Steady, ListsOK, Shaped
<1>7. /\ Single(ws) /\ Lists(ws, p) = Lists(s.waiters, p) \cup {q}
      /\ \A r \in Process \ {p} : Lists(ws, r) = Lists(s.waiters, r)
  BY <1>6, PrependLists
<1> HIDE DEF ws
<1>8. Shaped(t)
  BY <1>1, <1>2, <1>3, <1>7 DEF Shaped
<1>9. Others(s, t, p)
  BY <1>2, <1>3, <1>7 DEF Others, Own
<1>10. /\ y.status = x.status /\ y.prio = x.prio /\ y.call = c
       /\ y.timers = x.timers /\ y.ticket = x.ticket /\ y.joins = q
       /\ y.facts = x.facts /\ y.waits = x.waits /\ y.lists = {q}
  BY <1>2, <1>3, <1>4, <1>7, OwnIs
<1>11. c.fn = "join" /\ c.on = q /\ c.key = 0 /\ NoTicket.key = 0
  BY DEF NoTicket
<1>12. x = Own(s, p) /\ y = Own(t, p)
  OBVIOUS
<1> HIDE DEF c, x, y
<1>13. Sound(y)
  <2>1. TimersSet(y) /\ FactsFit(y) /\ WaitsOpen(y)
    BY <1>4, <1>5, <1>10 DEF Sound, TimersSet, FactsFit, WaitsOpen
  <2>. QED BY <1>4, <1>5, <1>10, <1>11, <2>1 DEF Sound
<1>14. Placed(y)
  BY <1>4, <1>5, <1>10, <1>11 DEF Placed
<1>15. ASSUME NEW r \in Process \ {p}
       PROVE  Apart(y, Own(s, r)) /\ Apart(Own(s, r), y)
  <2>1. Sound(Own(s, r))
    BY <1>1 DEF Core
  <2>. QED BY <1>4, <1>10, <1>11, <2>1 DEF Apart, Sound
<1>16. Core(t, {})
  <2>1. \A r \in y.lists : s.status[r] # "finished"
    BY <1>10
  <2>2. t.status[p] = "finished" => s.status[p] = "finished"
    BY <1>2
  <2>. QED BY <1>1, <1>8, <1>9, <1>12, <1>13, <1>14, <1>15, <2>1, <2>2, LocalCore
<1>17. Served(t, {})
  <2>1. \A g \in Resource \ {} : Tells(x, g) => Tells(y, g)
    BY <1>10 DEF Tells
  <2>2. \A w \in y.waits : \E v \in x.waits : v.guard = w.guard
    BY <1>10
  <2>. QED BY <1>1, <1>2, <1>9, <1>12, <2>1, <2>2, LocalServed
<1>18. Reachable(y)
  BY <1>10, <1>11 DEF Reachable
<1>19. Awake(t, out \ {p})
  BY <1>1, <1>9, <1>12, <1>18, LocalAwake
<1>20. RunnerIdle(t)
  BY <1>2, NullAssumption DEF RunnerIdle
<1>. QED BY <1>2, <1>16, <1>17, <1>19, <1>20 DEF Fine, t

(* cmb_resourceguard_wait, up to its yield                                 *)
LEMMA GuardWaitFine ==
  ASSUME NEW s, Steady(s), NEW open, NEW out, Fine(s, {}, open, out),
         NEW p \in Process, s.status[p] = "running",
         s.ticket[p] = NoTicket, s.joins[p] = NoOne,
         NEW g \in Resource, s.holder[g] = NoOne => g \notin open /\ Waited(s, g)
  PROVE  LET t == GuardWait(s, p, "acquire", g)
         IN  /\ Fine(t, {}, open \ {g}, out \ {p}) /\ RunnerIdle(t)
             /\ t.running = NoOne /\ t.failed = s.failed
<1> DEFINE k == FreshKey(s)
           w == [proc |-> p, key |-> k, prio |-> s.prio[p], tag |-> 0]
           c == [fn |-> "acquire", on |-> g, key |-> k]
           z == [guard |-> g, key |-> k]
           R == [s.queue EXCEPT ![g] = Enter(s.queue[g], w)]
           t == GuardWait(s, p, "acquire", g)
           x == Own(s, p)
           y == Own(t, p)
<1>1. Core(s, {}) /\ Served(s, open) /\ Awake(s, out) /\ Shaped(s)
  BY DEF Fine, Core
<1>2. /\ t.agenda = s.agenda /\ t.status = s.status /\ t.prio = s.prio
      /\ t.timers = s.timers /\ t.joins = s.joins
      /\ t.queue = R /\ t.waiters = s.waiters /\ t.running = NoOne
      /\ t.holder = s.holder /\ t.failed = s.failed
      /\ t.ticket = [s.ticket EXCEPT ![p] = z] /\ t.call = [s.call EXCEPT ![p] = c]
  BY DEF GuardWait, AddTicket, Block, Steady, Fields
<1> HIDE DEF t
<1>3. /\ k # 0
      /\ \A q \in Process : /\ Own(s, q).ticket.key # k /\ Own(s, q).call.key # k
                            /\ \A f \in Own(s, q).facts : f.key # k
  BY <1>1, FreshKeyIs
<1> HIDE DEF k
<1>4. /\ t.ticket[p] = z /\ t.call[p] = c
      /\ \A r \in Process \ {p} : t.ticket[r] = s.ticket[r] /\ t.call[r] = s.call[r]
  BY <1>2 DEF Steady, CallsOK, TicketsOK
<1>5. /\ x.ticket = NoTicket /\ x.joins = NoOne
      /\ x.status = "running" /\ x.timers = s.timers[p] /\ x.prio = s.prio[p]
  BY OwnIs
<1>6. Sound(x) /\ Placed(x)
  BY <1>1 DEF Core
<1>7. x.waits = {} /\ x.lists = {}
  <2>1. x.lists \subseteq Process
    BY OwnIs DEF Lists
  <2>2. \A v \in x.waits : v.guard \in Resource
    BY OwnIs DEF Waits, Wait
  <2> HIDE DEF x
  <2>3. x.lists = {}
    BY <1>5, <1>6, <2>1, NullAssumption DEF Sound
  <2>4. ASSUME NEW v \in x.waits PROVE FALSE
    <3>1. v.guard = NoOne
      BY <1>5, <1>6, WaitIs DEF Sound, NoTicket
    <3>. QED BY <2>2, <3>1, NullAssumption
  <2>. QED BY <2>3, <2>4
<1>8. DOMAIN s.queue = Resource /\ UniqueEntries(s.queue)
  BY <1>1 DEF Steady, QueuesOK, Shaped
<1>9. EntryOK(w) /\ w.proc = p /\ Wait(g, w) = [guard |-> g, key |-> k, prio |-> s.prio[p]]
  BY DEF EntryOK, EntryFields, Steady, Wait
<1>10. \A v \in s.queue[g] : v.proc # p
  <2> SUFFICES ASSUME NEW v \in s.queue[g], v.proc = p PROVE FALSE
    OBVIOUS
  <2>1. Wait(g, v) \in Waits(s.queue, p)
    BY DEF Waits
  <2>. QED BY <1>7, <2>1, OwnIs
<1> HIDE DEF w
<1>11. /\ UniqueEntries(R)
       /\ Waits(R, p) = Waits(s.queue, p) \cup {Wait(g, w)}
       /\ \A q : q # p => Waits(R, q) = Waits(s.queue, q)
  BY <1>8, <1>9, <1>10, EnterWaits, SMTT(30)
<1> HIDE DEF R
<1>12. Shaped(t)
  BY <1>1, <1>2, <1>11 DEF Shaped
<1>13. Others(s, t, p)
  BY <1>2, <1>4, <1>11 DEF Others, Own
<1>14. /\ y.status = x.status /\ y.prio = x.prio /\ y.call = c
       /\ y.timers = x.timers /\ y.ticket = z /\ y.joins = x.joins
       /\ y.facts = x.facts /\ y.lists = x.lists
  <2>1. y.status = t.status[p] /\ y.prio = t.prio[p] /\ y.call = t.call[p]
        /\ y.timers = t.timers[p] /\ y.ticket = t.ticket[p] /\ y.joins = t.joins[p]
        /\ y.facts = Facts(t.agenda, p) /\ y.lists = Lists(t.waiters, p)
    BY OwnIs
  <2>2. x.status = s.status[p] /\ x.prio = s.prio[p]
        /\ x.timers = s.timers[p] /\ x.joins = s.joins[p]
        /\ x.facts = Facts(s.agenda, p) /\ x.lists = Lists(s.waiters, p)
    BY OwnIs
  <2> HIDE DEF c, z, x, y
  <2>. QED BY <1>2, <1>4, <2>1, <2>2
<1>15. y.waits = {[guard |-> g, key |-> k, prio |-> s.prio[p]]}
  BY <1>2, <1>7, <1>9, <1>11, OwnIs
<1>16. \A v \in y.waits : v.guard = g /\ v.key = k /\ v.prio = x.prio
  BY <1>5, <1>15
<1>17. c.fn = "acquire" /\ c.on = g /\ c.key = k /\ z.guard = g /\ z.key = k
       /\ \A v \in y.waits : z = [guard |-> v.guard, key |-> v.key]
  BY <1>16
<1>18. c = [fn |-> "acquire", on |-> z.guard, key |-> z.key] /\ z = [guard |-> c.on, key |-> c.key]
  OBVIOUS
<1>19. x = Own(s, p) /\ y = Own(t, p)
  OBVIOUS
<1>20. \E v \in y.waits : v.guard = c.on /\ v.key = c.key
  BY <1>15
<1> HIDE DEF c, z, x, y
<1>21. \A f \in y.facts : f.key # k
  BY <1>3, <1>14, <1>19
<1>22. Sound(y)
  <2>1. TimersSet(y) /\ FactsFit(y)
    BY <1>6, <1>14 DEF Sound, TimersSet, FactsFit
  <2>2. WaitsOpen(y)
    BY <1>3, <1>14, <1>16, <1>17, <1>21 DEF WaitsOpen
  <2>. QED BY <1>3, <1>6, <1>14, <1>17, <2>1, <2>2 DEF Sound
<1>23. Placed(y)
  BY <1>5, <1>6, <1>14, <1>17, <1>18 DEF Placed
<1>24. ASSUME NEW r \in Process \ {p}
       PROVE  Apart(y, Own(s, r)) /\ Apart(Own(s, r), y)
  <2>1. Own(s, r).ticket.key # k /\ Own(s, r).call.key # k
    BY <1>3
  <2>2. Own(s, r).ticket # NoTicket => Own(s, r).ticket.key # 0
    BY <1>1 DEF Core, Sound
  <2>. QED BY <1>14, <1>17, <2>1, <2>2 DEF Apart
<1>25. Core(t, {})
  <2>1. \A r \in y.lists : r \in x.lists
    BY <1>14
  <2>2. t.status[p] = "finished" => s.status[p] = "finished"
    BY <1>2
  <2>. QED BY <1>1, <1>12, <1>13, <1>19, <1>22, <1>23, <1>24, <2>1, <2>2, LocalCore
<1>26. Served(t, open \ {g})
  <2> SUFFICES ASSUME NEW h \in Resource \ (open \ {g}), Waited(t, h), t.holder[h] = NoOne
               PROVE  \E q \in Process : Tells(Own(t, q), h)
    BY DEF Served
  <2>1. h \notin open /\ Waited(s, h)
    <3>1. CASE h = g
      BY <1>2, <3>1
    <3>2. CASE h # g
      <4>1. PICK q \in Process : \E v \in Own(t, q).waits : v.guard = h
        BY DEF Waited
      <4>2. q # p
        BY <1>16, <1>19, <3>2, <4>1
      <4>. QED BY <1>13, <3>2, <4>1, <4>2 DEF Others, Waited
    <3>. QED BY <3>1, <3>2
  <2>2. PICK q \in Process : Tells(Own(s, q), h)
    BY <1>1, <1>2, <2>1 DEF Served
  <2>3. q # p
    <3>1. ASSUME Tells(x, h) PROVE FALSE
      <4>1. PICK f : x.ticket = [guard |-> h, key |-> f.key]
        BY <3>1 DEF Tells
      <4>2. x.ticket.guard = h
        BY <4>1
      <4>. QED BY <1>5, <4>2, NullAssumption DEF NoTicket
    <3>. QED BY <1>19, <2>2, <3>1
  <2>. QED BY <1>13, <2>2, <2>3 DEF Others
<1>27. Reachable(y)
  BY <1>14, <1>17, <1>18, <1>20 DEF Reachable
<1>28. Awake(t, out \ {p})
  BY <1>1, <1>13, <1>19, <1>27, LocalAwake
<1>29. RunnerIdle(t)
  BY <1>2, NullAssumption DEF RunnerIdle
<1>. QED BY <1>2, <1>25, <1>26, <1>28, <1>29 DEF Fine, t

-----------------------------------------------------------------------------
(* One that waits in a queue is taken out of it and told.                  *)
LEMMA Notified ==
  ASSUME NEW x, Sound(x), NEW y, NEW f, NEW w \in x.waits,
         f.key = x.ticket.key,
         \/ f.kind = "grant" /\ f.sig = "success"
         \/ f.kind = "cancelled" /\ f.sig = "cancelled",
         y.facts = x.facts \cup {f}, y.waits = {},
         y.status = x.status, y.prio = x.prio, y.call = x.call, y.timers = x.timers,
         y.ticket = x.ticket, y.joins = x.joins, y.lists = x.lists
  PROVE  /\ Keeps(x, y) /\ Sound(y)
         /\ Placed(x) => Placed(y)
         /\ \A g : Tells(x, g) => Tells(y, g)
         /\ f.kind = "grant" => Tells(y, w.guard)
         /\ Reachable(x) => Reachable(y)
<1>1. Keeps(x, y)
  BY DEF Keeps
<1>2. TimersSet(y)
  BY DEF Sound, TimersSet
<1>3. FactsFit(y)
  <2>1. FactsFit(x)
    BY DEF Sound
  <2>2. ASSUME NEW h \in x.facts
        PROVE  /\ h.kind = "time" => h.key \in y.timers /\ h.prio = y.prio
               /\ h.kind = "grant" => h.sig = "success"
               /\ h.kind = "cancelled" <=> h.sig = "cancelled"
    BY <2>1 DEF FactsFit
  <2>3. /\ f.kind = "time" => f.key \in y.timers /\ f.prio = y.prio
        /\ f.kind = "grant" => f.sig = "success"
        /\ f.kind = "cancelled" <=> f.sig = "cancelled"
    OBVIOUS
  <2>. QED BY <2>2, <2>3 DEF FactsFit
<1>4. WaitsOpen(y)
  BY DEF WaitsOpen
<1>5. Sound(y)
  BY <1>2, <1>3, <1>4 DEF Sound
<1>6. Placed(x) => Placed(y)
  BY DEF Placed
<1>7. \A g : Tells(x, g) => Tells(y, g)
  BY DEF Tells
<1>8. x.ticket = [guard |-> w.guard, key |-> w.key] /\ f.key = w.key
  BY WaitIs DEF Sound, WaitsOpen
<1>9. f.kind = "grant" => Tells(y, w.guard)
  BY <1>8 DEF Tells
<1>10. ASSUME Reachable(x) PROVE Reachable(y)
  <2>1. \A c, k : x.ticket = [guard |-> c, key |-> k] => f.key = k
    <3> SUFFICES ASSUME NEW c, NEW k, x.ticket = [guard |-> c, key |-> k] PROVE f.key = k
      OBVIOUS
    <3>1. x.ticket.key = k
      OBVIOUS
    <3>. QED BY <3>1
  <2>. QED BY <1>10, <2>1 DEF Reachable
<1>. QED BY <1>1, <1>5, <1>6, <1>7, <1>9, <1>10

Telling(kind, sig) ==
  \/ kind = "grant" /\ sig = "success"
  \/ kind = "cancelled" /\ sig = "cancelled"

Answered(kind, g) == IF kind = "grant" THEN {g} ELSE {}

EntriesOf(p, Q, gone) ==
  gone # {} /\ gone \subseteq Q /\ \A w \in gone : w.proc = p

Told(s, p, g, gone, kind, sig) ==
  Schedule([s EXCEPT !.queue = [s.queue EXCEPT ![g] = Leave(s.queue[g], gone)]],
           kind, p, s.ticket[p].key, sig, 0, s.prio[p])

LEMMA ToldFine ==
  ASSUME NEW s, Steady(s), NEW dying, NEW open, NEW out, Fine(s, dying, open, out),
         NEW p \in Process, NEW g \in Resource, NEW gone, EntriesOf(p, s.queue[g], gone),
         NEW kind, NEW sig, Telling(kind, sig)
  PROVE  LET t == Told(s, p, g, gone, kind, sig)
         IN  /\ Fine(t, dying, open, out) /\ t.failed = s.failed
             /\ Fine(t, dying, open \ Answered(kind, g), out)
             /\ s.ticket[p].guard = g /\ s.ticket[p].key # 0
             /\ Others(s, t, p) /\ Own(s, p).waits # {}
             /\ t.ticket = s.ticket /\ t.joins = s.joins
<1> DEFINE k == s.ticket[p].key
           e == [kind |-> kind, proc |-> p, key |-> k, sig |-> sig,
                 delay |-> 0, prio |-> s.prio[p], tag |-> 0]
           f == [kind |-> kind, key |-> k, sig |-> sig, prio |-> s.prio[p]]
           Q == Leave(s.queue[g], gone)
           R == [s.queue EXCEPT ![g] = Q]
           G == [h \in Resource |-> IF h = g THEN gone ELSE {}]
           A == Enter(s.agenda, e)
           t == Told(s, p, g, gone, kind, sig)
           x == Own(s, p)
           y == Own(t, p)
<1>1. Core(s, dying) /\ Shaped(s) /\ Served(s, open)
  BY DEF Fine, Core
<1>0. gone \in SUBSET s.queue[g] /\ gone # {} /\ \A w \in gone : w.proc = p
  BY DEF EntriesOf
<1>2. PICK w \in gone : w.proc = p
  BY <1>0
<1>3. Wait(g, w) \in x.waits
  <2>1. Wait(g, w) \in Waits(s.queue, p)
    BY <1>0, <1>2 DEF Waits
  <2>. QED BY <2>1, OwnIs
<1>4. Sound(x) /\ (p \in dying \/ Placed(x))
  BY <1>1 DEF Core
<1>5. x.ticket = s.ticket[p] /\ x.prio = s.prio[p]
  BY OwnIs
<1>6. Wait(g, w).guard = g
  BY DEF Wait
<1>7. s.ticket[p].guard = g /\ s.ticket[p].key = Wait(g, w).key /\ Wait(g, w).key # 0
  <2> DEFINE v == Wait(g, w)
  <2>0. v \in x.waits /\ v.guard = g
    BY <1>3, <1>6
  <2> HIDE DEF v, x
  <2>1. WaitsOpen(x)
    BY <1>4 DEF Sound
  <2>2. x.ticket.key = v.key /\ x.ticket.guard = v.guard
    BY <2>0, <2>1, WaitIs
  <2>3. v.key # 0
    BY <2>0, <2>1 DEF WaitsOpen
  <2>. QED BY <1>5, <2>0, <2>2, <2>3 DEF v
<1>8. \A h \in x.facts : h.key # k
  <2>1. \A v \in x.waits : \A h \in x.facts : h.key # v.key
    BY <1>4 DEF Sound, WaitsOpen
  <2> HIDE DEF x
  <2>. QED BY <1>3, <1>7, <2>1
<1>9. kind \in Kinds /\ s.prio[p] \in Int
  BY DEF Kinds, Steady, Telling
<1>10. EventOK(e) /\ e.proc = p /\ e.key = k /\ Fact(e) = f
  BY <1>9 DEF EventOK, EventFields, Fact
<1>11. f.kind = kind /\ f.sig = sig /\ f.key = k
  OBVIOUS
<1>12. t = [[s EXCEPT !.queue = R] EXCEPT !.agenda = A]
  <2>1. [s EXCEPT !.queue = R].agenda = s.agenda
    BY DEF Steady, Fields
  <2>. QED BY <2>1 DEF Told, Schedule
<1> HIDE DEF e, f
<1>13. /\ Facts(A, p) = Facts(s.agenda, p) \cup {f}
       /\ \A q : q # p => Facts(A, q) = Facts(s.agenda, q)
       /\ UniqueEvents(A)
  <2>1. \A h \in Facts(s.agenda, p) : h.key # k
    BY <1>8, OwnIs
  <2>2. UniqueEvents(s.agenda)
    BY <1>1 DEF Shaped
  <2> HIDE DEF k, x, y, t, Q, R, G
  <2>. QED BY <1>10, <2>1, <2>2, EnterFacts
<1>14. DOMAIN s.queue = Resource /\ QueueOK(s.queue[g])
  BY DEF Steady, QueuesOK
<1>15. Left(s.queue[g], gone, Q)
  BY <1>0, <1>14, LeaveLeft
<1>16. R[g] = Q /\ \A h \in Resource \ {g} : R[h] = s.queue[h]
  BY <1>14
<1> HIDE DEF A, Q, R, t
<1>17. t.agenda = A /\ t.queue = R
  BY <1>12 DEF Steady, Fields
<1>18. \A h \in Resource : Left(s.queue[h], G[h], R[h])
  <2>1. \A h \in Resource : QueueOK(s.queue[h])
    BY DEF Steady, QueuesOK
  <2>2. \A h \in Resource : Left(s.queue[h], {}, s.queue[h])
    BY <2>1, LeaveLeft
  <2>. QED BY <1>15, <1>16, <2>2
<1>19. UniqueEntries(s.queue)
  BY <1>1 DEF Shaped
<1>20. /\ UniqueEntries(R)
       /\ \A q : Waits(R, q) = {z \in Waits(s.queue, q) : \A v \in G[z.guard] : v.proc # q}
  <2> HIDE DEF G, x, y, k
  <2>. QED BY <1>18, <1>19, WaitsLeft
<1>21. \A q : \A z \in Waits(s.queue, q) : z.guard \in Resource
  BY DEF Waits, Wait
<1>22. \A q \in Process \ {p} : Waits(R, q) = Waits(s.queue, q)
  <2>1. ASSUME NEW q \in Process \ {p}, NEW z \in Waits(s.queue, q), NEW v \in G[z.guard]
        PROVE  v.proc # q
    BY <1>0, <1>21, <2>1
  <2>. QED BY <1>20, <2>1
<1>23. Waits(R, p) = {}
  <2> SUFFICES ASSUME NEW z \in Waits(R, p) PROVE FALSE
    OBVIOUS
  <2>1. z \in Waits(s.queue, p) /\ \A v \in G[z.guard] : v.proc # p
    BY <1>20
  <2>2. z \in x.waits
    BY <2>1, OwnIs
  <2> HIDE DEF x
  <2>3. z.guard = g
    BY <1>4, <1>5, <1>7, <2>2, WaitIs DEF Sound
  <2>. QED BY <1>2, <2>1, <2>3
<1> HIDE DEF G
<1>24. /\ t.failed = s.failed /\ t.status = s.status /\ t.prio = s.prio
       /\ t.call = s.call /\ t.timers = s.timers /\ t.ticket = s.ticket /\ t.holder = s.holder
       /\ t.joins = s.joins /\ t.waiters = s.waiters
  BY <1>12 DEF Steady, Fields
<1>25. Shaped(t)
  BY <1>1, <1>13, <1>17, <1>20, <1>24 DEF Shaped
<1>26. Others(s, t, p)
  BY <1>13, <1>17, <1>22, <1>24 DEF Others, Own
<1>27. Changed(s, t, p)
  BY <1>24, <1>25, <1>26 DEF Changed
<1>28. /\ y.status = x.status /\ y.prio = x.prio /\ y.call = x.call /\ y.ticket = x.ticket
       /\ y.joins = x.joins /\ y.waits = {} /\ y.lists = x.lists
       /\ y.facts = x.facts \cup {f} /\ y.timers = x.timers
  BY <1>13, <1>17, <1>23, <1>24, OwnIs
<1>29. x = Own(s, p) /\ y = Own(t, p)
  OBVIOUS
<1> DEFINE v == Wait(g, w)
<1>30. v \in x.waits /\ f.key = x.ticket.key /\ v.guard = g
  BY <1>3, <1>5, <1>6, <1>11
<1> HIDE DEF x, y, v, k
<1>31. /\ Keeps(x, y) /\ Sound(y)
       /\ p \in dying \/ Placed(y)
       /\ \A h : Tells(x, h) => Tells(y, h)
       /\ kind = "grant" => Tells(y, g)
       /\ Reachable(x) => Reachable(y)
  BY <1>4, <1>11, <1>28, <1>30, Notified DEF Telling
<1>32. Fine(t, dying, open, out)
  BY <1>27, <1>29, <1>31, LocalFine
<1>33. kind = "grant" => Fine(t, dying, open \ {g}, out)
  BY <1>29, <1>31, <1>32 DEF Fine, Served
<1>35. Fine(t, dying, open \ Answered(kind, g), out)
  <2>1. open \ {} = open
    OBVIOUS
  <2>. QED BY <1>32, <1>33, <2>1 DEF Answered
<1>34. x.waits # {}
  BY <1>30
<1>. QED BY <1>7, <1>24, <1>26, <1>32, <1>34, <1>35 DEF t, k, x

-----------------------------------------------------------------------------
(* The entries with the key of a ticket or of a call are its owner's.      *)
LEMMA EntryWait ==
  ASSUME NEW s, NEW dying, Core(s, dying), NEW g \in Resource, NEW w \in s.queue[g],
         w.proc \in Process
  PROVE  /\ Wait(g, w) \in Own(s, w.proc).waits
         /\ s.ticket[w.proc].guard = g /\ s.ticket[w.proc].key = w.key /\ w.key # 0
<1> DEFINE p == w.proc
           x == Own(s, p)
           v == Wait(g, w)
<1>1. v \in Waits(s.queue, p)
  BY DEF Waits
<1>2. v \in x.waits /\ x.ticket = s.ticket[p]
  BY <1>1, OwnIs
<1>3. v.guard = g /\ v.key = w.key
  BY DEF Wait
<1>4. Sound(x)
  BY DEF Core
<1> HIDE DEF x, v
<1>5. x.ticket.key = v.key /\ x.ticket.guard = v.guard /\ v.key # 0
  BY <1>2, <1>4, WaitIs DEF Sound, WaitsOpen
<1>. QED BY <1>2, <1>3, <1>5 DEF x, v

LEMMA EntriesOwn ==
  ASSUME NEW s, Steady(s), NEW dying, Core(s, dying), NEW g \in Resource,
         NEW p \in Process, NEW key, key \in {s.ticket[p].key, s.call[p].key},
         NEW w \in Entries(s, g, key)
  PROVE  w \in s.queue[g] /\ w.proc = p /\ w.key = key
<1>1. w \in s.queue[g] /\ w.key = key
  BY DEF Entries
<1>2. w.proc \in Process
  BY <1>1 DEF Steady, QueuesOK, QueueOK, EntryOK
<1>3. s.ticket[w.proc].guard = g /\ s.ticket[w.proc].key = w.key /\ w.key # 0
  BY <1>1, <1>2, EntryWait
<1>4. ASSUME w.proc # p PROVE FALSE
  <2>1. Apart(Own(s, w.proc), Own(s, p))
    BY <1>2, <1>4 DEF Core
  <2>2. s.ticket[w.proc] # NoTicket
    BY <1>3, NullAssumption DEF NoTicket
  <2>3. s.ticket[w.proc].key \notin {s.ticket[p].key, s.call[p].key}
    BY <2>1, <2>2, OwnIs DEF Apart
  <2>. QED BY <1>1, <1>3, <2>3
<1>. QED BY <1>1, <1>4

(* cmb_resourceguard_signal                                                *)
LEMMA SignalFine ==
  ASSUME NEW s, Steady(s), NEW dying, NEW open, NEW out, Fine(s, dying, open, out),
         NEW g \in Resource
  PROVE  LET t == Signal(s, g)
         IN  /\ Fine(t, dying, open, out) /\ t.failed = s.failed
             /\ Fine(t, dying, open \ {g}, out)
             /\ t.ticket = s.ticket /\ t.joins = s.joins
             /\ \A q \in Process : Own(s, q).waits = {} => Own(t, q) = Own(s, q)
<1>1. Signal(s, g) = Granted(s, g)
  <2>1. s.observers[g] = <<>>
    BY DEF Steady
  <2>. QED BY <2>1 DEF Signal
<1>2. CASE s.queue[g] # {} /\ IsAvailable(s, g, Front(s, g).proc)
  <2> DEFINE w == Front(s, g)
             p == w.proc
             k == GuardKey(s, p, g)
             t == Told(s, p, g, {w}, "grant", "success")
             u == Schedule([s EXCEPT !.queue = [s.queue EXCEPT ![g] = Leave(s.queue[g], {w})]],
                           "grant", p, k, "success", 0, s.prio[p])
  <2>1. w \in s.queue[g] /\ p \in Process
    BY <1>2, FrontProcess
  <2>2. Granted(s, g) = Asserted(u, k # 0, "guard_signal")
    BY <1>2 DEF Granted
  <2>3. /\ Fine(t, dying, open, out) /\ t.failed = s.failed
        /\ Fine(t, dying, open \ {g}, out)
        /\ s.ticket[p].guard = g /\ s.ticket[p].key # 0
        /\ Others(s, t, p) /\ Own(s, p).waits # {}
        /\ t.ticket = s.ticket /\ t.joins = s.joins
    <3> DEFINE gone == {w}
               v == Told(s, p, g, gone, "grant", "success")
    <3>1. EntriesOf(p, s.queue[g], gone)
      BY <2>1 DEF EntriesOf
    <3>2. v = t
      OBVIOUS
    <3>0. Telling("grant", "success")
      BY DEF Telling
    <3> HIDE DEF gone, w, k, t, u
    <3>3. /\ Fine(v, dying, open, out) /\ v.failed = s.failed
          /\ Fine(v, dying, open \ Answered("grant", g), out)
          /\ s.ticket[p].guard = g /\ s.ticket[p].key # 0
          /\ Others(s, v, p) /\ Own(s, p).waits # {}
          /\ v.ticket = s.ticket /\ v.joins = s.joins
      BY <2>1, <3>1, <3>0, ToldFine
    <3>. QED BY <3>2, <3>3 DEF Answered
  <2> HIDE DEF w
  <2>4. k = s.ticket[p].key
    BY <2>3 DEF GuardKey
  <2> HIDE DEF k
  <2>5. u = t
    BY <2>4 DEF Told
  <2>6. k # 0
    BY <2>3, <2>4
  <2> HIDE DEF u, t
  <2>7. Granted(s, g) = t
    BY <2>2, <2>5, <2>6 DEF Asserted
  <2>. QED BY <1>1, <2>3, <2>7 DEF Others
<1>3. CASE ~(s.queue[g] # {} /\ IsAvailable(s, g, Front(s, g).proc))
  <2>1. Granted(s, g) = s
    BY <1>3 DEF Granted
  <2>2. ASSUME s.queue[g] = {} PROVE ~Waited(s, g)
    <3> SUFFICES ASSUME NEW q \in Process, NEW z \in Own(s, q).waits, z.guard = g
                 PROVE  FALSE
      BY DEF Waited
    <3>1. z \in Waits(s.queue, q)
      BY OwnIs
    <3>2. PICK h \in Resource : \E v \in s.queue[h] : v.proc = q /\ z = Wait(h, v)
      BY <3>1 DEF Waits
    <3>3. z.guard = h
      BY <3>2 DEF Wait
    <3>. QED BY <2>2, <3>2, <3>3
  <2>3. ~(Waited(s, g) /\ s.holder[g] = NoOne)
    BY <1>3, <2>2 DEF IsAvailable
  <2>4. Fine(s, dying, open \ {g}, out)
    BY <2>3 DEF Fine, Served
  <2>. QED BY <1>1, <2>1, <2>4
<1>. QED BY <1>2, <1>3

(* cmb_resourceguard_cancel                                                *)
LEMMA GuardCancelFine ==
  ASSUME NEW s, Steady(s), NEW dying, NEW open, NEW out, Fine(s, dying, open, out),
         NEW p \in Process, NEW g \in Resource
  PROVE  LET t == GuardCancel(s, p, g)
         IN  Fine(t, dying, open, out) /\ t.failed = s.failed
<1> DEFINE k == GuardKey(s, p, g)
           mine == Entries(s, g, k)
           u == Schedule([s EXCEPT !.queue = [s.queue EXCEPT ![g] = Leave(s.queue[g], mine)]],
                         "cancelled", p, k, "cancelled", 0, s.prio[p])
<1>1. GuardCancel(s, p, g) = IF k = 0 \/ mine = {} THEN s ELSE u
  BY DEF GuardCancel
<1>2. CASE k = 0 \/ mine = {}
  BY <1>1, <1>2
<1>3. CASE k # 0 /\ mine # {}
  <2>1. k = s.ticket[p].key
    BY <1>3 DEF GuardKey
  <2>2. EntriesOf(p, s.queue[g], mine)
    BY <1>3, <2>1, EntriesOwn DEF Fine, EntriesOf
  <2> HIDE DEF mine, k
  <2>3. PICK kind, sig : kind = "cancelled" /\ sig = "cancelled"
    OBVIOUS
  <2>4. Telling(kind, sig)
    BY <2>3 DEF Telling
  <2> DEFINE t == Told(s, p, g, mine, kind, sig)
  <2>5. u = t
    BY <2>1, <2>3 DEF Told
  <2> HIDE DEF u
  <2>6. Fine(t, dying, open, out) /\ t.failed = s.failed
    <3>1. /\ Fine(t, dying, open, out) /\ t.failed = s.failed
          /\ Fine(t, dying, open \ Answered(kind, g), out)
          /\ s.ticket[p].guard = g /\ s.ticket[p].key # 0
          /\ Others(s, t, p) /\ Own(s, p).waits # {}
          /\ t.ticket = s.ticket /\ t.joins = s.joins
      BY <2>2, <2>4, ToldFine
    <3>. QED BY <3>1
  <2> HIDE DEF t
  <2>. QED BY <1>1, <1>3, <2>5, <2>6
<1>. QED BY <1>2, <1>3

-----------------------------------------------------------------------------
LEMMA FineMore ==
  ASSUME NEW s, NEW dying, NEW open, NEW out, Fine(s, dying, open, out),
         NEW more, open \subseteq more, NEW rest, out \subseteq rest
  PROVE  Fine(s, dying, more, rest)
  BY DEF Fine, Served, Awake

(* A wait is over.                                                         *)
LEMMA Unticketed ==
  ASSUME NEW x, Sound(x), Placed(x), NEW y,
         y.status = x.status, y.prio = x.prio, y.call = x.call, y.timers = x.timers,
         y.ticket = NoTicket, y.joins = x.joins, y.facts = x.facts,
         y.waits = {}, y.lists = x.lists
  PROVE  Keeps(x, y) /\ Sound(y) /\ Placed(y)
<1>1. Keeps(x, y)
  BY DEF Keeps
<1>2. TimersSet(y) /\ FactsFit(y) /\ WaitsOpen(y)
  BY DEF Sound, TimersSet, FactsFit, WaitsOpen
<1>3. Sound(y)
  BY <1>2 DEF Sound
<1>4. Placed(y)
  BY DEF Placed
<1>. QED BY <1>1, <1>3, <1>4

(* The ticket of p and its entry at g are gone.                            *)
WithoutTicket(s, t, p, g, gone) ==
  /\ t.agenda = s.agenda /\ t.status = s.status /\ t.prio = s.prio /\ t.call = s.call
  /\ t.timers = s.timers /\ t.joins = s.joins /\ t.waiters = s.waiters
  /\ t.holder = s.holder /\ t.failed = s.failed
  /\ t.ticket[p] = NoTicket /\ \A q \in Process \ {p} : t.ticket[q] = s.ticket[q]
  /\ Left(s.queue[g], gone, t.queue[g])
  /\ \A h \in Resource \ {g} : t.queue[h] = s.queue[h]

(* All the entries of p.                                                   *)
AllOf(s, p, g, gone) ==
  /\ gone \subseteq s.queue[g] /\ \A w \in gone : w.proc = p
  /\ \A h \in Resource : \A w \in s.queue[h] : w.proc = p => h = g /\ w \in gone

LEMMA AllLeft ==
  ASSUME NEW s, Steady(s), Shaped(s), NEW p \in Process, NEW g \in Resource, NEW gone,
         AllOf(s, p, g, gone), NEW Q, Left(s.queue[g], gone, Q[g]),
         \A h \in Resource \ {g} : Q[h] = s.queue[h]
  PROVE  /\ UniqueEntries(Q) /\ Waits(Q, p) = {}
         /\ \A q \in Process \ {p} : Waits(Q, q) = Waits(s.queue, q)
<1> DEFINE G == [h \in Resource |-> IF h = g THEN gone ELSE {}]
<1>1. \A h \in Resource : Left(s.queue[h], G[h], Q[h])
  <2>1. \A h \in Resource : QueueOK(s.queue[h])
    BY DEF Steady, QueuesOK
  <2>2. \A h \in Resource : Left(s.queue[h], {}, s.queue[h])
    BY <2>1, LeaveLeft
  <2>. QED BY <2>2
<1>2. UniqueEntries(s.queue)
  BY DEF Shaped
<1>3. \A h \in Resource : \A w \in G[h] : w.proc = p
  BY DEF AllOf
<1>4. \A h \in Resource : \A w \in s.queue[h] : w.proc = p => w \in G[h]
  BY DEF AllOf
<1> HIDE DEF G
<1>5. /\ UniqueEntries(Q)
      /\ \A q : Waits(Q, q) = {z \in Waits(s.queue, q) : \A w \in G[z.guard] : w.proc # q}
  BY <1>1, <1>2, WaitsLeft
<1>6. \A q : \A z \in Waits(s.queue, q) :
        z.guard \in Resource /\ \E w \in s.queue[z.guard] : w.proc = q
  <2> SUFFICES ASSUME NEW q, NEW z \in Waits(s.queue, q)
               PROVE  z.guard \in Resource /\ \E w \in s.queue[z.guard] : w.proc = q
    OBVIOUS
  <2>1. PICK h \in Resource : \E w \in s.queue[h] : w.proc = q /\ z = Wait(h, w)
    BY DEF Waits
  <2>2. z.guard = h
    BY <2>1 DEF Wait
  <2>. QED BY <2>1, <2>2
<1>7. Waits(Q, p) = {}
  BY <1>4, <1>5, <1>6
<1>8. ASSUME NEW q \in Process \ {p} PROVE Waits(Q, q) = Waits(s.queue, q)
  <2>1. \A z \in Waits(s.queue, q) : \A w \in G[z.guard] : w.proc # q
    BY <1>3, <1>6
  <2>. QED BY <1>5, <2>1
<1>. QED BY <1>5, <1>7, <1>8

LEMMA WithoutTicketFine ==
  ASSUME NEW s, Steady(s), NEW open, NEW out, Fine(s, {}, open, out),
         NEW p \in Process, NEW g \in Resource, NEW gone, AllOf(s, p, g, gone),
         s.ticket[p].guard \in {g, NoOne},
         NEW t, WithoutTicket(s, t, p, g, gone)
  PROVE  /\ Fine(t, {}, open \cup {g}, out \cup {p})
         /\ ~Tells(Own(s, p), g) => Fine(t, {}, open, out \cup {p})
<1> DEFINE x == Own(s, p)
           y == Own(t, p)
<1>1. Core(s, {}) /\ Served(s, open) /\ Shaped(s)
  BY DEF Fine, Core
<1>2. /\ t.agenda = s.agenda /\ t.status = s.status /\ t.prio = s.prio /\ t.call = s.call
      /\ t.timers = s.timers /\ t.joins = s.joins /\ t.waiters = s.waiters
      /\ t.holder = s.holder /\ t.failed = s.failed
      /\ t.ticket[p] = NoTicket /\ \A q \in Process \ {p} : t.ticket[q] = s.ticket[q]
  BY DEF WithoutTicket
<1>3. /\ UniqueEntries(t.queue) /\ Waits(t.queue, p) = {}
      /\ \A q \in Process \ {p} : Waits(t.queue, q) = Waits(s.queue, q)
  BY <1>1, AllLeft DEF WithoutTicket
<1>4. Shaped(t)
  BY <1>1, <1>2, <1>3 DEF Shaped
<1>5. Others(s, t, p)
  BY <1>2, <1>3 DEF Others, Own
<1>6. Changed(s, t, p)
  BY <1>2, <1>4, <1>5 DEF Changed
<1>7. /\ y.status = x.status /\ y.prio = x.prio /\ y.call = x.call /\ y.timers = x.timers
      /\ y.ticket = NoTicket /\ y.joins = x.joins /\ y.facts = x.facts
      /\ y.waits = {} /\ y.lists = x.lists
  BY <1>2, <1>3, OwnIs
<1>8. Sound(x) /\ Placed(x) /\ x.ticket.guard \in {g, NoOne}
  BY <1>1, OwnIs DEF Core
<1>9. x = Own(s, p) /\ y = Own(t, p)
  OBVIOUS
<1> HIDE DEF x, y
<1>10. Keeps(x, y) /\ Sound(y) /\ Placed(y)
  BY <1>7, <1>8, Unticketed
<1>11. \A h \in Resource : Tells(x, h) => h = g
  <2> SUFFICES ASSUME NEW h \in Resource, Tells(x, h) PROVE h = g
    OBVIOUS
  <2>1. PICK f \in x.facts : x.ticket = [guard |-> h, key |-> f.key]
    BY DEF Tells
  <2>2. x.ticket.guard = h
    BY <2>1
  <2>. QED BY <1>8, <2>2, NullAssumption
<1>12. Fine(s, {}, open \cup {g}, out)
  BY FineMore
<1>13. Fine(t, {}, open \cup {g}, out \cup {p})
  BY <1>6, <1>9, <1>10, <1>11, <1>12, LocalFine
<1>14. ASSUME ~Tells(x, g) PROVE Fine(t, {}, open, out \cup {p})
  BY <1>6, <1>9, <1>10, <1>11, <1>14, LocalFine
<1>. QED BY <1>9, <1>13, <1>14

-----------------------------------------------------------------------------
(* The entry of one that is blocked at a guard.                            *)
LEMMA EntryFound ==
  ASSUME NEW s, Steady(s), NEW open, NEW out, Fine(s, {}, open, out), NEW p \in Process,
         s.call[p].fn = "acquire"
  PROVE  LET g == s.call[p].on
             mine == Entries(s, g, s.call[p].key)
         IN  /\ g \in Resource /\ AllOf(s, p, g, mine)
             /\ s.ticket[p].guard \in {g, NoOne}
             /\ s.ticket[p].guard = NoOne => s.ticket[p] = NoTicket
             /\ s.joins[p] = NoOne
             /\ mine # {} => ~Tells(Own(s, p), g)
<1> DEFINE c == s.call[p]
           g == c.on
           mine == Entries(s, g, c.key)
           x == Own(s, p)
<1>1. Core(s, {}) /\ g \in Resource
  BY DEF Fine, Steady, CallsOK, CallOK
<1>2. /\ Sound(x) /\ Placed(x)
      /\ x.call = c /\ x.ticket = s.ticket[p] /\ x.joins = s.joins[p]
  BY <1>1, OwnIs DEF Core
<1>3. \A w \in mine : w \in s.queue[g] /\ w.proc = p
  BY <1>1, EntriesOwn
<1>4. \A h \in Resource : \A w \in s.queue[h] : w.proc = p =>
        Wait(h, w) \in x.waits /\ s.ticket[p].guard = h /\ s.ticket[p].key = w.key
  BY <1>1, EntryWait
<1>5. \A h \in Resource : \A w \in s.queue[h] : h = g /\ w.key = c.key => w \in mine
  BY DEF Entries
<1>6. \A w \in mine : w.key = c.key
  BY DEF Entries
<1> HIDE DEF mine, x, c
<1>7. s.ticket[p] # NoTicket => s.ticket[p].guard = g /\ s.ticket[p].key = c.key
  <2> SUFFICES ASSUME s.ticket[p] # NoTicket
               PROVE  s.ticket[p].guard = g /\ s.ticket[p].key = c.key
    OBVIOUS
  <2>1. c = [fn |-> "acquire", on |-> s.ticket[p].guard, key |-> s.ticket[p].key]
    BY <1>2 DEF Placed
  <2>. QED BY <2>1
<1>8. s.joins[p] = NoOne
  BY <1>2 DEF Placed, c
<1>9. NoTicket.guard = NoOne
  BY DEF NoTicket
<1>10. AllOf(s, p, g, mine)
  <2>1. \A h \in Resource : \A w \in s.queue[h] : w.proc = p => h = g /\ w \in mine
    BY <1>4, <1>5, <1>7, <1>9, NullAssumption
  <2>. QED BY <1>3, <2>1 DEF AllOf
<1>11. ASSUME mine # {}, Tells(x, g) PROVE FALSE
  <2>1. PICK w \in mine : TRUE
    BY <1>11
  <2>2. Wait(g, w) \in x.waits /\ s.ticket[p].key = w.key
    BY <1>1, <1>3, <1>4, <2>1
  <2>3. PICK f \in x.facts : x.ticket = [guard |-> g, key |-> f.key]
    BY <1>11 DEF Tells
  <2>4. f.key = w.key
    BY <1>2, <2>2, <2>3
  <2>5. Wait(g, w).key = w.key
    BY DEF Wait
  <2>. QED BY <1>2, <2>2, <2>4, <2>5 DEF Sound, WaitsOpen
<1>12. s.ticket[p].guard \in {g, NoOne}
  BY <1>7, <1>9
<1>13. s.ticket[p].guard = NoOne => s.ticket[p] = NoTicket
  BY <1>1, <1>7, NullAssumption
<1>. QED BY <1>1, <1>8, <1>10, <1>11, <1>12, <1>13 DEF mine, x, c

(* The end of cmb_resourceguard_wait.                                      *)
LEMMA GuardResumeFine ==
  ASSUME NEW s, Steady(s), NEW open, NEW out, Fine(s, {}, open, out), NEW p \in Process,
         s.call[p].fn = "acquire", NEW sig,
         sig = "cancelled" => ~Tells(Own(s, p), s.call[p].on)
  PROVE  LET t == GuardResume(s, p, sig)
         IN  /\ t.failed = "none" => s.failed = "none"
             /\ t.ticket[p] = NoTicket /\ t.joins[p] = NoOne
             /\ t.failed = "none" => Fine(t, {}, open \cup {s.call[p].on}, out \cup {p})
             /\ sig # "success" => Fine(t, {}, open, out \cup {p})
             /\ sig # "success" => t.failed = s.failed
<1> DEFINE g == s.call[p].on
           mine == Entries(s, g, s.call[p].key)
           a == RemoveTicket(s, p, g)
           Q == Leave(a.queue[g], mine)
           b == [a EXCEPT !.queue = [a.queue EXCEPT ![g] = Q]]
           t == GuardResume(s, p, sig)
<1>1. t = IF sig = "success" THEN Asserted(a, mine = {}, "guard_wait")
          ELSE IF mine # {} THEN b
          ELSE IF sig # "cancelled" THEN Signal(a, g)
          ELSE a
  BY DEF GuardResume
<1>2. /\ g \in Resource /\ AllOf(s, p, g, mine)
      /\ s.ticket[p].guard \in {g, NoOne}
      /\ s.ticket[p].guard = NoOne => s.ticket[p] = NoTicket
      /\ s.joins[p] = NoOne
      /\ mine # {} => ~Tells(Own(s, p), g)
  BY EntryFound
<1>3. sig = "cancelled" => ~Tells(Own(s, p), g)
  OBVIOUS
<1> HIDE DEF g, mine, t
<1>4. /\ a.agenda = s.agenda /\ a.status = s.status /\ a.prio = s.prio /\ a.call = s.call
      /\ a.timers = s.timers /\ a.joins = s.joins /\ a.waiters = s.waiters
      /\ a.holder = s.holder /\ a.failed = s.failed /\ a.queue = s.queue
  BY DEF RemoveTicket, Steady, Fields
<1>5. a.ticket[p] = NoTicket /\ \A q \in Process \ {p} : a.ticket[q] = s.ticket[q]
  BY <1>2 DEF RemoveTicket, Steady, Fields, TicketsOK
<1>6. Calm(s, a)
  BY RemoveTicketCalm
<1>7. DOMAIN a = Fields /\ DOMAIN s.queue = Resource /\ QueueOK(s.queue[g])
  BY <1>2, <1>6 DEF Calm, Steady, QueuesOK
<1> HIDE DEF a
<1>8. Left(s.queue[g], mine, Q) /\ Left(s.queue[g], {}, s.queue[g])
  BY <1>2, <1>4, <1>7, LeaveLeft DEF AllOf
<1> HIDE DEF Q
<1>9. ASSUME mine = {} PROVE WithoutTicket(s, a, p, g, mine)
  BY <1>4, <1>5, <1>8, <1>9 DEF WithoutTicket
<1>10. /\ b.agenda = s.agenda /\ b.status = s.status /\ b.prio = s.prio /\ b.call = s.call
       /\ b.timers = s.timers /\ b.joins = s.joins /\ b.waiters = s.waiters
       /\ b.holder = s.holder /\ b.failed = s.failed /\ b.ticket = a.ticket
       /\ b.queue = [s.queue EXCEPT ![g] = Q]
  BY <1>4, <1>7 DEF Fields
<1> HIDE DEF b
<1>11. WithoutTicket(s, b, p, g, mine)
  BY <1>2, <1>5, <1>7, <1>8, <1>10 DEF WithoutTicket
<1>12. ASSUME mine = {}
       PROVE  /\ Fine(a, {}, open \cup {g}, out \cup {p})
              /\ ~Tells(Own(s, p), g) => Fine(a, {}, open, out \cup {p})
  BY <1>2, <1>9, <1>12, WithoutTicketFine
<1>13. /\ Fine(b, {}, open \cup {g}, out \cup {p})
       /\ ~Tells(Own(s, p), g) => Fine(b, {}, open, out \cup {p})
  BY <1>2, <1>11, WithoutTicketFine
<1>14. CASE sig = "success"
  <2>1. t = IF mine = {} \/ a.failed # "none" THEN a ELSE [a EXCEPT !.failed = "guard_wait"]
    BY <1>1, <1>14 DEF Asserted
  <2>2. t.failed = "none" => t = a /\ mine = {}
    BY <1>4, <1>7, <2>1 DEF Fields
  <2>3. t.ticket = a.ticket /\ t.joins = a.joins
    BY <2>1
  <2>. QED BY <1>2, <1>4, <1>5, <1>12, <1>14, <2>2, <2>3 DEF t, g
<1>15. CASE sig # "success" /\ mine # {}
  <2>1. t = b
    BY <1>1, <1>15
  <2>. QED BY <1>2, <1>5, <1>10, <1>13, <1>15, <2>1 DEF t, g
<1>16. CASE sig = "cancelled" /\ mine = {}
  <2>1. t = a
    BY <1>1, <1>16
  <2>. QED BY <1>2, <1>3, <1>4, <1>5, <1>12, <1>16, <2>1 DEF t, g
<1>17. CASE sig # "success" /\ sig # "cancelled" /\ mine = {}
  <2> DEFINE more == open \cup {g}
             rest == out \cup {p}
             v == Signal(a, g)
  <2>1. t = v
    BY <1>1, <1>17
  <2>2. Fine(a, {}, more, rest) /\ Steady(a)
    BY <1>6, <1>12, <1>17 DEF Calm
  <2>3. /\ Fine(v, {}, more, rest) /\ v.failed = a.failed
        /\ Fine(v, {}, more \ {g}, rest)
        /\ v.ticket = a.ticket /\ v.joins = a.joins
        /\ \A q \in Process : Own(a, q).waits = {} => Own(v, q) = Own(a, q)
    BY <1>2, <2>2, SignalFine
  <2> HIDE DEF v
  <2>4. Fine(v, {}, open, rest)
    BY <2>3, FineMore
  <2>5. Fine(v, {}, more, rest)
    BY <2>3
  <2>. QED BY <1>2, <1>4, <1>5, <1>17, <2>1, <2>3, <2>4, <2>5 DEF t, g
<1>. QED BY <1>14, <1>15, <1>16, <1>17

-----------------------------------------------------------------------------
Unlinked(ws, us, p, j) ==
  /\ Lists(ws, p) \subseteq {j}
  /\ \A q \in Process : us[q] = IF q = j THEN Unlink(ws[q], p) ELSE ws[q]

LEMMA UnlinkLists ==
  ASSUME NEW ws \in [Process -> Seq(Process)], Single(ws), NEW p \in Process,
         NEW j, NEW us, Unlinked(ws, us, p, j)
  PROVE  /\ Single(us) /\ Lists(us, p) = {}
         /\ \A r \in Process \ {p} : Lists(us, r) = Lists(ws, r)
<1>1. ASSUME NEW q \in Process
      PROVE  LET l == Unlink(ws[q], p)
             IN  /\ Once(ws[q], p) \/ Never(ws[q], p) => Never(l, p)
                 /\ \A r : r # p => /\ Never(ws[q], r) => Never(l, r)
                                    /\ Once(ws[q], r) => Once(l, r)
  BY UnlinkKeeps
<1>2. \A l, r : ~(Never(l, r) /\ Once(l, r))
  BY DEF Never, Once
<1>3. \A q, r \in Process : Never(ws[q], r) \/ Once(ws[q], r)
  BY DEF Single
<1>4. ASSUME NEW q \in Process PROVE Never(us[q], p)
  <2>1. CASE q = j
    BY <1>1, <1>3, <2>1 DEF Unlinked
  <2>2. CASE q # j
    BY <2>2 DEF Lists, Unlinked
  <2>. QED BY <2>1, <2>2
<1>5. ASSUME NEW q \in Process, NEW r \in Process \ {p}
      PROVE  /\ Never(us[q], r) <=> Never(ws[q], r)
             /\ Never(us[q], r) \/ Once(us[q], r)
  BY <1>1, <1>2, <1>3 DEF Unlinked
<1>6. Single(us)
  BY <1>4, <1>5 DEF Single
<1>7. Lists(us, p) = {}
  BY <1>4 DEF Lists
<1>8. \A r \in Process \ {p} : Lists(us, r) = Lists(ws, r)
  BY <1>5 DEF Lists
<1>. QED BY <1>6, <1>7, <1>8

(* One that waits for nothing, and that nothing wakes.                     *)
Bare(y) ==
  /\ y.timers = {} /\ y.ticket = NoTicket /\ y.joins = NoOne
  /\ y.waits = {} /\ y.lists = {}
  /\ \A f \in y.facts : f.kind # "time" /\ f.kind \notin Unchecked

LEMMA Bared ==
  ASSUME NEW x, Sound(x), NEW y, Bare(y),
         y.status = x.status, y.prio = x.prio, y.call = x.call, y.facts \subseteq x.facts
  PROVE  /\ Keeps(x, y) /\ Sound(y)
         /\ Placed(x) => Placed(y)
         /\ y.call.fn = "none" => Placed(y)
<1>1. Keeps(x, y)
  BY DEF Keeps, Bare
<1>2. TimersSet(y) /\ FactsFit(y) /\ WaitsOpen(y)
  BY DEF Sound, TimersSet, FactsFit, WaitsOpen, Bare
<1>3. Sound(y)
  BY <1>2 DEF Sound, Bare
<1>4. Placed(x) => Placed(y)
  BY DEF Placed, Bare
<1>5. y.call.fn = "none" => Placed(y)
  BY DEF Placed, Bare, Unchecked
<1>. QED BY <1>1, <1>3, <1>4, <1>5

(* Every awaitable of p is dropped.                                        *)
Freeing(s, t, p, g, gone) ==
  /\ t.agenda = Leave(s.agenda, Swept(s, p))
  /\ t.status = s.status /\ t.prio = s.prio /\ t.call = s.call
  /\ t.holder = s.holder /\ t.failed = s.failed
  /\ t.timers = [s.timers EXCEPT ![p] = {}]
  /\ t.ticket = [s.ticket EXCEPT ![p] = NoTicket]
  /\ t.joins = [s.joins EXCEPT ![p] = NoOne]
  /\ \A h \in Resource : t.queue[h] = IF h = g THEN Leave(s.queue[h], gone) ELSE s.queue[h]
  /\ \A q \in Process : t.waiters[q] = IF q = s.joins[p] THEN Unlink(s.waiters[q], p)
                                       ELSE s.waiters[q]

LEMMA SweptFacts ==
  ASSUME NEW s, Steady(s), Shaped(s), NEW p \in Process, Sound(Own(s, p))
  PROVE  LET A == Leave(s.agenda, Swept(s, p))
         IN  /\ UniqueEvents(A) /\ Facts(A, p) \subseteq Facts(s.agenda, p)
             /\ \A f \in Facts(A, p) : f.kind # "time" /\ f.kind \notin Unchecked
             /\ \A q : q # p => Facts(A, q) = Facts(s.agenda, q)
<1> DEFINE G == {f \in Facts(s.agenda, p) : \/ f.kind = "time" /\ f.key \in s.timers[p]
                                            \/ f.kind \in Unchecked}
           A == Leave(s.agenda, Swept(s, p))
<1>1. Swept(s, p) = Picked(s.agenda, p, G)
  BY DEF Swept, TimerEvents, Picked, Facts, Fact
<1>2. AgendaOK(s.agenda) /\ UniqueEvents(s.agenda)
  BY DEF Steady, Shaped
<1>3. \A f \in Facts(s.agenda, p) : f.kind = "time" => f.key \in s.timers[p]
  BY OwnIs DEF Sound, FactsFit
<1>4. \A f \in Facts(s.agenda, p) : f \notin G => f.kind # "time" /\ f.kind \notin Unchecked
  BY <1>3
<1> HIDE DEF G
<1>5. /\ UniqueEvents(A) /\ Facts(A, p) = Facts(s.agenda, p) \ G
      /\ \A q : q # p => Facts(A, q) = Facts(s.agenda, q)
  BY <1>1, <1>2, LeaveFacts
<1> HIDE DEF A
<1>. QED BY <1>4, <1>5 DEF A

LEMMA FreeingView ==
  ASSUME NEW s, Steady(s), Shaped(s), NEW p \in Process, Sound(Own(s, p)),
         NEW g, NEW gone, g \in Resource => AllOf(s, p, g, gone),
         g \notin Resource => Own(s, p).waits = {},
         NEW t, Freeing(s, t, p, g, gone)
  PROVE  LET x == Own(s, p)
             y == Own(t, p)
         IN  /\ Changed(s, t, p) /\ Bare(y)
             /\ y.status = x.status /\ y.prio = x.prio /\ y.call = x.call
             /\ y.facts \subseteq x.facts
<1> DEFINE x == Own(s, p)
           y == Own(t, p)
           A == Leave(s.agenda, Swept(s, p))
<1>1. /\ UniqueEvents(A) /\ Facts(A, p) \subseteq Facts(s.agenda, p)
      /\ \A f \in Facts(A, p) : f.kind # "time" /\ f.kind \notin Unchecked
      /\ \A q : q # p => Facts(A, q) = Facts(s.agenda, q)
  BY SweptFacts
<1>2. t.agenda = A
  BY DEF Freeing
<1> HIDE DEF A
<1>3. /\ UniqueEntries(t.queue) /\ Waits(t.queue, p) = {}
      /\ \A q \in Process \ {p} : Waits(t.queue, q) = Waits(s.queue, q)
  <2>1. CASE g \in Resource
    <3>1. QueueOK(s.queue[g]) /\ gone \in SUBSET s.queue[g] /\ AllOf(s, p, g, gone)
      BY <2>1 DEF Steady, QueuesOK, AllOf
    <3>2. Left(s.queue[g], gone, t.queue[g])
      BY <2>1, <3>1, LeaveLeft DEF Freeing
    <3>3. \A h \in Resource \ {g} : t.queue[h] = s.queue[h]
      BY DEF Freeing
    <3>. QED BY <2>1, <3>1, <3>2, <3>3, AllLeft
  <2>2. CASE g \notin Resource
    <3>1. \A h \in Resource : t.queue[h] = s.queue[h]
      BY <2>2 DEF Freeing
    <3>2. \A q : Waits(t.queue, q) = Waits(s.queue, q)
      BY <3>1 DEF Waits
    <3>3. UniqueEntries(t.queue)
      BY <3>1 DEF UniqueEntries, Shaped
    <3>. QED BY <2>2, <3>2, <3>3, OwnIs
  <2>. QED BY <2>1, <2>2
<1>4. /\ Single(t.waiters) /\ Lists(t.waiters, p) = {}
      /\ \A q \in Process \ {p} : Lists(t.waiters, q) = Lists(s.waiters, q)
  <2> DEFINE ws == s.waiters
             us == t.waiters
             j == s.joins[p]
  <2>1. ws \in [Process -> Seq(Process)] /\ Single(ws)
    BY DEF Steady, ListsOK, Shaped
  <2>2. Lists(ws, p) \subseteq {j}
    BY OwnIs DEF Sound
  <2>3. Unlinked(ws, us, p, j)
    BY <2>2 DEF Freeing, Unlinked
  <2> HIDE DEF ws, us, j
  <2>4. /\ Single(us) /\ Lists(us, p) = {}
        /\ \A q \in Process \ {p} : Lists(us, q) = Lists(ws, q)
    BY <2>1, <2>3, UnlinkLists
  <2>. QED BY <2>4 DEF ws, us
<1>5. /\ DOMAIN t.timers = Process /\ t.timers[p] = {}
      /\ \A q \in Process \ {p} : t.timers[q] = s.timers[q]
  BY DEF Freeing, Shaped
<1>6. /\ t.ticket[p] = NoTicket
      /\ \A q \in Process \ {p} : t.ticket[q] = s.ticket[q]
  BY DEF Freeing, Steady, TicketsOK
<1>7. /\ DOMAIN t.joins = Process /\ t.joins[p] = NoOne
      /\ \A q \in Process \ {p} : t.joins[q] = s.joins[q]
  BY DEF Freeing, Shaped
<1>8. /\ t.status = s.status /\ t.prio = s.prio /\ t.call = s.call
      /\ t.holder = s.holder /\ t.failed = s.failed
  BY DEF Freeing
<1>9. Shaped(t)
  BY <1>1, <1>2, <1>3, <1>4, <1>5, <1>7 DEF Shaped
<1>10. Others(s, t, p)
  <2> SUFFICES ASSUME NEW q \in Process \ {p} PROVE Own(t, q) = Own(s, q)
    BY DEF Others
  <2>1. /\ Facts(t.agenda, q) = Facts(s.agenda, q)
        /\ Waits(t.queue, q) = Waits(s.queue, q)
        /\ Lists(t.waiters, q) = Lists(s.waiters, q)
    BY <1>1, <1>2, <1>3, <1>4
  <2>2. /\ t.timers[q] = s.timers[q] /\ t.ticket[q] = s.ticket[q]
        /\ t.joins[q] = s.joins[q]
    BY <1>5, <1>6, <1>7
  <2>. QED BY <1>8, <2>1, <2>2 DEF Own
<1>11. Changed(s, t, p)
  BY <1>8, <1>9, <1>10 DEF Changed
<1>12. /\ y.status = x.status /\ y.prio = x.prio /\ y.call = x.call
       /\ y.timers = {} /\ y.ticket = NoTicket /\ y.joins = NoOne
       /\ y.waits = {} /\ y.lists = {} /\ y.facts = Facts(t.agenda, p)
       /\ x.facts = Facts(s.agenda, p)
  BY <1>3, <1>4, <1>5, <1>6, <1>7, <1>8, OwnIs
<1> HIDE DEF x, y
<1>. QED BY <1>1, <1>2, <1>11, <1>12 DEF Bare, x, y

-----------------------------------------------------------------------------
(* The entry of one that has a ticket.                                     *)
LEMMA TicketEntry ==
  ASSUME NEW s, Steady(s), NEW dying, Core(s, dying), NEW p \in Process
  PROVE  LET g == s.ticket[p].guard
             mine == IF g = NoOne THEN {} ELSE Entries(s, g, s.ticket[p].key)
         IN  /\ g \in Resource \cup {NoOne}
             /\ g \in Resource => AllOf(s, p, g, mine)
             /\ g \notin Resource => Own(s, p).waits = {}
             /\ mine # {} => \A h : ~Tells(Own(s, p), h)
             /\ \A h \in Resource : Tells(Own(s, p), h) => h = g
<1> DEFINE g == s.ticket[p].guard
           k == s.ticket[p].key
           mine == IF g = NoOne THEN {} ELSE Entries(s, g, k)
           x == Own(s, p)
<1>1. g \in Resource \cup {NoOne}
  BY DEF Steady, TicketsOK, TicketOK
<1>2. Sound(x) /\ x.ticket = s.ticket[p]
  BY OwnIs DEF Core
<1>3. g # NoOne => mine = Entries(s, g, k)
  OBVIOUS
<1>4. \A w \in mine : w \in s.queue[g] /\ w.proc = p /\ w.key = k
  BY <1>1, EntriesOwn
<1>5. \A h \in Resource : \A w \in s.queue[h] : w.proc = p =>
        Wait(h, w) \in x.waits /\ g = h /\ k = w.key
  BY EntryWait
<1>6. \A w \in x.waits : w.guard \in Resource
  BY OwnIs DEF Waits, Wait
<1>7. \A h, w : Wait(h, w).key = w.key /\ Wait(h, w).guard = h
  BY DEF Wait
<1>8. g # NoOne => \A w \in s.queue[g] : w.key = k => w \in mine
  BY DEF Entries
<1>9. g = NoOne => mine = {}
  OBVIOUS
<1> HIDE DEF mine, x
<1>10. g \in Resource => AllOf(s, p, g, mine)
  BY <1>4, <1>5, <1>8, NullAssumption DEF AllOf
<1>11. ASSUME g \notin Resource, NEW w \in x.waits PROVE FALSE
  <2>1. x.ticket.guard = w.guard
    BY <1>2, WaitIs DEF Sound
  <2>. QED BY <1>2, <1>6, <1>11, <2>1
<1>12. \A h, f : x.ticket = [guard |-> h, key |-> f.key] => g = h /\ k = f.key
  <2> SUFFICES ASSUME NEW h, NEW f, x.ticket = [guard |-> h, key |-> f.key]
               PROVE  g = h /\ k = f.key
    OBVIOUS
  <2>1. x.ticket.guard = h /\ x.ticket.key = f.key
    OBVIOUS
  <2>. QED BY <1>2, <2>1
<1>13. ASSUME mine # {}, NEW h, Tells(x, h) PROVE FALSE
  <2>1. PICK w \in mine : TRUE
    BY <1>13
  <2>2. Wait(g, w) \in x.waits
    BY <1>1, <1>4, <1>5, <1>9, <1>13, <2>1
  <2>3. PICK f \in x.facts : x.ticket = [guard |-> h, key |-> f.key]
    BY <1>13 DEF Tells
  <2>4. f.key = Wait(g, w).key
    BY <1>4, <1>7, <1>12, <2>1, <2>3
  <2>. QED BY <1>2, <2>2, <2>4 DEF Sound, WaitsOpen
<1>14. \A h \in Resource : Tells(x, h) => h = g
  BY <1>12 DEF Tells
<1>. QED BY <1>1, <1>10, <1>11, <1>13, <1>14 DEF mine, x

(* cmi_process_cancel_awaiteds                                             *)
LEMMA CancelAwaitedsFine ==
  ASSUME NEW s, Steady(s), NEW dying, NEW open, NEW out, Fine(s, dying, open, out),
         NEW p \in Process
  PROVE  LET t == CancelAwaiteds(s, p)
         IN  /\ Fine(t, dying, open, out \cup {p}) /\ t.failed = s.failed
             /\ Bare(Own(t, p))
<1> DEFINE g == s.ticket[p].guard
           mine == IF g = NoOne THEN {} ELSE Entries(s, g, s.ticket[p].key)
           t == Relieved(s, p)
           u == CancelAwaiteds(s, p)
           x == Own(s, p)
           y == Own(t, p)
           rest == out \cup {p}
<1>1. u = IF g # NoOne /\ mine = {} THEN Signal(t, g) ELSE t
  BY CancelAwaitedsIs
<1>2. Core(s, dying) /\ Shaped(s)
  BY DEF Fine, Core
<1>3. /\ g \in Resource \cup {NoOne}
      /\ g \in Resource => AllOf(s, p, g, mine)
      /\ g \notin Resource => x.waits = {}
      /\ mine # {} => \A h : ~Tells(x, h)
      /\ \A h \in Resource : Tells(x, h) => h = g
  BY <1>2, TicketEntry
<1>4. Freeing(s, t, p, g, mine)
  <2> HIDE DEF mine, g
  <2>1. t = [CancelEvents(s, Swept(s, p)) EXCEPT
               !.timers[p] = {},
               !.ticket[p] = NoTicket,
               !.joins[p]  = NoOne,
               !.queue     = [h \in Resource |-> IF h = g THEN Leave(@[h], mine)
                                                 ELSE @[h]],
               !.waiters   = [q \in Process |->
                                IF q = s.joins[p] THEN Unlink(@[q], p)
                                ELSE @[q]]]
    BY DEF Relieved, g, mine
  <2>. QED BY <2>1 DEF Freeing, CancelEvents, Steady, Fields
<1>5. Sound(x) /\ (p \in dying \/ Placed(x))
  BY <1>2 DEF Core
<1>6. Calm(s, t)
  BY RelievedCalm
<1> HIDE DEF mine, g, t, u
<1>7. /\ Changed(s, t, p) /\ Bare(y)
      /\ y.status = x.status /\ y.prio = x.prio /\ y.call = x.call
      /\ y.facts \subseteq x.facts
  BY <1>2, <1>3, <1>4, <1>5, FreeingView
<1>8. x = Own(s, p) /\ y = Own(t, p)
  OBVIOUS
<1> HIDE DEF x, y, rest
<1>9. Keeps(x, y) /\ Sound(y) /\ (p \in dying \/ Placed(y))
  BY <1>5, <1>7, Bared
<1>10. t.failed = s.failed /\ Steady(t)
  BY <1>6, <1>7 DEF Changed, Calm
<1>11. ASSUME mine # {} \/ g = NoOne PROVE Fine(t, dying, open, rest)
  <2>1. \A h \in Resource : ~Tells(x, h)
    BY <1>3, <1>11, NullAssumption
  <2>. QED BY <1>7, <1>8, <1>9, <2>1, LocalFine DEF rest
<1>12. ASSUME g # NoOne, mine = {}
       PROVE  LET v == Signal(t, g)
              IN  Fine(v, dying, open, rest) /\ v.failed = t.failed /\ Own(v, p) = y
  <2> DEFINE more == open \cup {g}
             v == Signal(t, g)
  <2>0. g \in Resource
    BY <1>3, <1>12
  <2>1. Fine(s, dying, more, out)
    BY FineMore
  <2>2. \A h \in Resource \ more : Tells(x, h) => Tells(y, h)
    BY <1>3
  <2>3. Fine(t, dying, more, rest)
    BY <1>7, <1>8, <1>9, <2>1, <2>2, LocalFine DEF rest
  <2>4. /\ Fine(v, dying, more, rest) /\ v.failed = t.failed
        /\ Fine(v, dying, more \ {g}, rest)
        /\ v.ticket = t.ticket /\ v.joins = t.joins
        /\ \A q \in Process : Own(t, q).waits = {} => Own(v, q) = Own(t, q)
    BY <1>10, <2>0, <2>3, SignalFine
  <2> HIDE DEF v
  <2>5. Fine(v, dying, open, rest)
    BY <2>4, FineMore
  <2>6. y.waits = {}
    BY <1>7 DEF Bare
  <2>. QED BY <1>8, <2>4, <2>5, <2>6 DEF v
<1>13. CASE g # NoOne /\ mine = {}
  BY <1>1, <1>7, <1>10, <1>12, <1>13 DEF rest, u
<1>14. CASE ~(g # NoOne /\ mine = {})
  <2>1. u = t
    BY <1>1, <1>14
  <2>. QED BY <1>7, <1>8, <1>10, <1>11, <1>14, <2>1 DEF rest, u
<1>. QED BY <1>13, <1>14

-----------------------------------------------------------------------------
(* Resources change hands.                                                 *)
LEMMA HolderFine ==
  ASSUME NEW s, NEW t, Unseen(s, t),
         NEW dying, NEW open, NEW out, Fine(s, dying, open, out), NEW more,
         \A g \in Resource \ more : t.holder[g] = NoOne => g \notin open /\ s.holder[g] = NoOne
  PROVE  Fine(t, dying, more, out)
<1>1. \A q : Own(t, q) = Own(s, q)
  BY UnseenOwn
<1>2. Shaped(s) => Shaped(t)
  BY UnseenOwn
<1>3. t.status = s.status
  BY DEF Unseen
<1>4. Core(t, dying)
  BY <1>1, <1>2, <1>3 DEF Fine, Core
<1>5. Served(t, more)
  BY <1>1 DEF Fine, Served, Waited
<1>6. Awake(t, out)
  BY <1>1, <1>3 DEF Fine, Awake
<1>. QED BY <1>4, <1>5, <1>6 DEF Fine

LEMMA AssertedFine ==
  ASSUME NEW s, Steady(s), NEW holds, NEW name,
         NEW dying, NEW open, NEW out, Fine(s, dying, open, out)
  PROVE  LET t == Asserted(s, holds, name)
         IN  Fine(t, dying, open, out) /\ t.running = s.running /\ t.call = s.call
<1> DEFINE t == Asserted(s, holds, name)
<1>1. /\ Unseen(s, t) /\ t.holder = s.holder /\ t.running = s.running /\ t.call = s.call
  BY DEF Asserted, Unseen, Steady, Fields
<1> HIDE DEF t
<1>2. Fine(t, dying, open, out)
  BY <1>1, UnseenFine
<1>. QED BY <1>1, <1>2 DEF t

(* All is well, but for the guards in open.                                *)
Settled(s, open) == Fine(s, {}, open, {s.running}) /\ RunnerIdle(s)

LEMMA GrabFine ==
  ASSUME NEW s, Steady(s), NEW dying, NEW open, NEW out, Fine(s, dying, open, out),
         NEW p \in Process, NEW r \in Resource
  PROVE  LET t == Grab(s, p, r)
         IN  /\ Fine(t, dying, open \ {r}, out) /\ t.failed = s.failed
             /\ t.running = s.running /\ t.call = s.call
             /\ t.ticket = s.ticket /\ t.joins = s.joins
<1> DEFINE t == Grab(s, p, r)
<1>1. /\ Unseen(s, t) /\ t.failed = s.failed /\ t.running = s.running
      /\ t.holder = [s.holder EXCEPT ![r] = p]
  BY DEF Grab, Unseen, Steady, Fields
<1>2. \A g \in Resource : t.holder[g] = IF g = r THEN p ELSE s.holder[g]
  BY <1>1 DEF Steady
<1> HIDE DEF t
<1>3. \A g \in Resource \ (open \ {r}) :
        t.holder[g] = NoOne => g \notin open /\ s.holder[g] = NoOne
  BY <1>2, NullAssumption
<1>4. Fine(t, dying, open \ {r}, out)
  BY <1>1, <1>3, HolderFine
<1>. QED BY <1>1, <1>4 DEF t, Unseen

LEMMA GrabSteady ==
  ASSUME NEW s, Steady(s), NEW p \in Process, NEW r \in Resource
  PROVE  Steady(Grab(s, p, r))
<1> DEFINE holder == [s.holder EXCEPT ![r] = p]
           t == [s EXCEPT !.holder = holder]
           lists == [t.held EXCEPT ![p] = <<r>> \o t.held[p]]
           u == [t EXCEPT !.held = lists]
<1>1. Grab(s, p, r) = u
  BY DEF Grab
<1>2. holder \in [Resource -> Process \cup {NoOne}]
  BY DEF Steady
<1> HIDE DEF holder
<1>3. Steady(t) /\ t.held = s.held
  BY <1>2, HolderSet
<1> HIDE DEF t
<1>4. s.held \in [Process -> Seq(Resource)]
  BY DEF Steady, ListsOK
<1>5. <<r>> \o t.held[p] \in Seq(Resource)
  BY <1>3, <1>4
<1>6. lists \in [Process -> Seq(Resource)]
  BY <1>3, <1>4, <1>5
<1> HIDE DEF lists
<1>. QED BY <1>1, <1>3, <1>6, HeldSet

LEMMA ReturnSettled ==
  ASSUME NEW s, Steady(s), NEW open, NEW p \in Process, Fine(s, {}, open, {p}),
         s.ticket[p] = NoTicket, s.joins[p] = NoOne, NEW sig
  PROVE  Settled(Return(s, p, sig), open) /\ Return(s, p, sig).failed = s.failed
<1> DEFINE t == Return(s, p, sig)
           out == {p}
<1>1. /\ Fine(t, {}, open, out \cup {p}) /\ RunnerIdle(t)
      /\ t.running = p /\ t.failed = s.failed
  BY ReturnFine
<1> HIDE DEF t
<1>2. out \cup {p} = {t.running}
  BY <1>1
<1> HIDE DEF out
<1>. QED BY <1>1, <1>2 DEF t, Settled

(* Nobody is left out who is blocked.                                      *)
LEMMA BlockedSettled ==
  ASSUME NEW t, NEW open, NEW p, Fine(t, {}, open, {p} \ {p}), t.running = NoOne
  PROVE  Settled(t, open)
<1>1. {p} \ {p} = {}
  OBVIOUS
<1>2. Fine(t, {}, open, {t.running})
  BY <1>1 DEF Fine, Awake
<1>3. RunnerIdle(t)
  BY NullAssumption DEF RunnerIdle
<1>. QED BY <1>2, <1>3 DEF Settled

LEMMA AcquireLoopFine ==
  ASSUME NEW s, Steady(s), NEW open, NEW p \in Process, Fine(s, {}, open, {p}),
         s.status[p] = "running", s.ticket[p] = NoTicket, s.joins[p] = NoOne,
         NEW r \in Resource, NEW mayGrab,
         s.holder[r] = NoOne => mayGrab \/ (r \notin open /\ Waited(s, r))
  PROVE  LET t == AcquireLoop(s, p, r, mayGrab)
         IN  Settled(t, open \ {r}) /\ t.failed = s.failed
<1>1. CASE s.holder[r] = NoOne /\ mayGrab
  <2> DEFINE t == Grab(s, p, r)
             u == Return(t, p, "success")
             less == open \ {r}
             out == {p}
  <2>1. /\ Fine(t, {}, less, out) /\ t.failed = s.failed
        /\ t.running = s.running /\ t.call = s.call
        /\ t.ticket = s.ticket /\ t.joins = s.joins
    BY GrabFine
  <2>2. Steady(t)
    BY GrabSteady
  <2> HIDE DEF t, less
  <2>3. t.ticket[p] = NoTicket /\ t.joins[p] = NoOne /\ Fine(t, {}, less, {p})
    BY <2>1
  <2> HIDE DEF out
  <2>4. Settled(u, less) /\ u.failed = t.failed
    BY <2>2, <2>3, ReturnSettled
  <2>. QED BY <1>1, <2>1, <2>4 DEF AcquireLoop, t, less
<1>2. CASE ~(s.holder[r] = NoOne /\ mayGrab)
  <2> DEFINE t == GuardWait(s, p, "acquire", r)
             out == {p}
  <2>1. s.holder[r] = NoOne => r \notin open /\ Waited(s, r)
    BY <1>2
  <2>2. /\ Fine(t, {}, open \ {r}, out \ {p}) /\ RunnerIdle(t)
        /\ t.running = NoOne /\ t.failed = s.failed
    BY <2>1, GuardWaitFine
  <2> HIDE DEF t
  <2>3. Settled(t, open \ {r})
    BY <2>2, BlockedSettled
  <2>. QED BY <1>2, <2>2, <2>3 DEF AcquireLoop, t
<1>. QED BY <1>1, <1>2

-----------------------------------------------------------------------------
(* A blocked call goes on.                                                 *)
LEMMA ContinuedFine ==
  ASSUME NEW s, Steady(s), NEW open, NEW p \in Process, Fine(s, {}, open, {p}),
         s.status[p] = "running", s.ticket[p] = NoTicket, s.joins[p] = NoOne,
         s.call[p].on \in Resource, NEW sig,
         sig = "success" => open \subseteq {s.call[p].on},
         sig # "success" => open = {}
  PROVE  LET t == Continued(s, p, sig)
         IN  Settled(t, {}) /\ t.failed = s.failed
<1> DEFINE r == s.call[p].on
<1>1. CASE sig = "success"
  <2> DEFINE t == AcquireLoop(s, p, r, TRUE)
  <2>1. Settled(t, open \ {r}) /\ t.failed = s.failed
    BY AcquireLoopFine
  <2>2. open \ {r} = {}
    BY <1>1
  <2> HIDE DEF t, r
  <2>3. Settled(t, {})
    BY <2>1, <2>2
  <2>. QED BY <1>1, <2>1, <2>3 DEF Continued, t, r
<1>2. CASE sig # "success"
  <2>1. Settled(Return(s, p, sig), open) /\ Return(s, p, sig).failed = s.failed
    BY ReturnSettled
  <2>. QED BY <1>2, <2>1 DEF Continued
<1>. QED BY <1>1, <1>2

(* A join is over: what happens to the list and to the awaitable.          *)
JoinOver(s, t, p) ==
  /\ t.agenda = s.agenda /\ t.status = s.status /\ t.prio = s.prio /\ t.call = s.call
  /\ t.timers = s.timers /\ t.ticket = s.ticket /\ t.queue = s.queue
  /\ t.holder = s.holder /\ t.failed = s.failed
  /\ t.joins = [s.joins EXCEPT ![p] = NoOne]
  /\ t.waiters = [s.waiters EXCEPT ![s.call[p].on] = Unlink(s.waiters[s.call[p].on], p)]

LEMMA JoinOverFine ==
  ASSUME NEW s, Steady(s), NEW open, NEW out, Fine(s, {}, open, out),
         NEW p \in Process, s.call[p].fn = "join", NEW t, JoinOver(s, t, p)
  PROVE  /\ Fine(t, {}, open, out \cup {p})
         /\ t.ticket[p] = NoTicket /\ t.joins[p] = NoOne
<1> DEFINE c == s.call[p]
           x == Own(s, p)
           y == Own(t, p)
<1>1. Core(s, {}) /\ Shaped(s)
  BY DEF Fine, Core
<1>2. /\ Sound(x) /\ Placed(x)
      /\ x.call = c /\ x.ticket = s.ticket[p] /\ x.joins = s.joins[p]
  BY <1>1, OwnIs DEF Core
<1>3. c.on \in Process
  BY <1>2 DEF Sound
<1>4. x.ticket = NoTicket
  <2> SUFFICES ASSUME x.ticket # NoTicket PROVE FALSE
    OBVIOUS
  <2> HIDE DEF x
  <2>1. c = [fn |-> "acquire", on |-> x.ticket.guard, key |-> x.ticket.key]
    BY <1>2 DEF Placed
  <2>2. c.fn = "acquire"
    BY <2>1
  <2>. QED BY <2>2
<1>5. /\ Single(t.waiters) /\ Lists(t.waiters, p) = {}
      /\ \A q \in Process \ {p} : Lists(t.waiters, q) = Lists(s.waiters, q)
  <2> DEFINE ws == s.waiters
             us == t.waiters
             j == c.on
  <2>1. ws \in [Process -> Seq(Process)] /\ Single(ws)
    BY <1>1 DEF Steady, ListsOK, Shaped
  <2>2. Lists(ws, p) \subseteq {j}
    <3>1. x.lists = Lists(ws, p) /\ Lists(ws, p) \subseteq Process
      BY OwnIs DEF Lists
    <3> HIDE DEF x
    <3>2. x.lists \subseteq {x.joins} /\ (x.joins # NoOne => x.joins = j)
      BY <1>2 DEF Sound, Placed
    <3>. QED BY <3>1, <3>2, NullAssumption
  <2>3. \A q \in Process : us[q] = IF q = j THEN Unlink(ws[q], p) ELSE ws[q]
    BY <1>3, <2>1 DEF JoinOver
  <2> HIDE DEF ws, us, j
  <2>4. Unlinked(ws, us, p, j)
    BY <2>2, <2>3 DEF Unlinked
  <2>5. /\ Single(us) /\ Lists(us, p) = {}
        /\ \A q \in Process \ {p} : Lists(us, q) = Lists(ws, q)
    BY <2>1, <2>4, UnlinkLists
  <2>. QED BY <2>5 DEF ws, us
<1>6. /\ t.agenda = s.agenda /\ t.status = s.status /\ t.prio = s.prio /\ t.call = s.call
      /\ t.timers = s.timers /\ t.ticket = s.ticket /\ t.queue = s.queue
      /\ t.holder = s.holder /\ t.failed = s.failed
  BY DEF JoinOver
<1>7. /\ DOMAIN t.joins = Process /\ t.joins[p] = NoOne
      /\ \A q \in Process \ {p} : t.joins[q] = s.joins[q]
  BY <1>1 DEF JoinOver, Shaped
<1>8. Shaped(t)
  BY <1>1, <1>5, <1>6, <1>7 DEF Shaped
<1>9. Others(s, t, p)
  <2> SUFFICES ASSUME NEW q \in Process \ {p} PROVE Own(t, q) = Own(s, q)
    BY DEF Others
  <2>. QED BY <1>5, <1>6, <1>7 DEF Own
<1>10. Changed(s, t, p)
  BY <1>6, <1>8, <1>9 DEF Changed
<1>11. /\ y.status = x.status /\ y.prio = x.prio /\ y.call = x.call
       /\ y.timers = x.timers /\ y.ticket = x.ticket /\ y.joins = NoOne
       /\ y.facts = x.facts /\ y.waits = x.waits /\ y.lists = {}
  BY <1>5, <1>6, <1>7, OwnIs
<1>12. x = Own(s, p) /\ y = Own(t, p)
  OBVIOUS
<1> HIDE DEF x, y
<1>13. Keeps(x, y)
  BY <1>11 DEF Keeps
<1>14. Sound(y)
  <2>1. TimersSet(y) /\ FactsFit(y) /\ WaitsOpen(y)
    BY <1>2, <1>11 DEF Sound, TimersSet, FactsFit, WaitsOpen
  <2>. QED BY <1>2, <1>11, <2>1 DEF Sound
<1>15. Placed(y)
  BY <1>2, <1>4, <1>11 DEF Placed
<1>16. \A h \in Resource \ open : Tells(x, h) => Tells(y, h)
  BY <1>11 DEF Tells
<1>17. Fine(t, {}, open, out \cup {p})
  BY <1>10, <1>12, <1>13, <1>14, <1>15, <1>16, LocalFine
<1>. QED BY <1>2, <1>4, <1>6, <1>7, <1>17

LEMMA JoinOverSteady ==
  ASSUME NEW s, Steady(s), NEW p \in Process, s.call[p].on \in Process
  PROVE  LET j == s.call[p].on
             t == [[s EXCEPT !.waiters = [s.waiters EXCEPT ![j] = Unlink(s.waiters[j], p)]]
                     EXCEPT !.joins = [s.joins EXCEPT ![p] = NoOne]]
         IN  JoinOver(s, t, p) /\ Steady(t) /\ t.running = s.running
<1> DEFINE j == s.call[p].on
           lists == [s.waiters EXCEPT ![j] = Unlink(s.waiters[j], p)]
           t == [s EXCEPT !.waiters = lists]
           u == [t EXCEPT !.joins = [s.joins EXCEPT ![p] = NoOne]]
<1>1. lists \in [Process -> Seq(Process)]
  <2>1. s.waiters \in [Process -> Seq(Process)]
    BY DEF Steady, ListsOK
  <2>2. \A q \in Process : Unlink(s.waiters[q], p) \in Seq(Process)
    BY <2>1, UnlinkKeeps
  <2>. QED BY <2>1, <2>2
<1>2. JoinOver(s, u, p) /\ u.running = s.running
  BY DEF JoinOver, Steady, Fields
<1> HIDE DEF lists, j
<1>3. Calm(s, t)
  BY <1>1, WaitersSet
<1> HIDE DEF t
<1>4. Calm(t, u)
  BY <1>3, FreeSet DEF Calm
<1> HIDE DEF u
<1>. QED BY <1>2, <1>4 DEF u, t, lists, j, Calm

-----------------------------------------------------------------------------
(* cmi_coroutine_resume: p goes on, after a wakeup that opened at most the *)
(* guard it waits at.                                                      *)
Opened(s, p, sig, open) ==
  /\ sig # "success" \/ s.call[p].fn # "acquire" => open = {}
  /\ open \subseteq {s.call[p].on}
  /\ sig = "cancelled" => ~Tells(Own(s, p), s.call[p].on)

LEMMA ResumedFine ==
  ASSUME NEW s, Steady(s), NEW open, NEW p \in Process, Fine(s, {}, open, {p}),
         s.status[p] = "running", NEW sig, Opened(s, p, sig, open)
  PROVE  LET t == Resumed(s, p, sig)
         IN  t.failed = "none" => Settled(t, {})
<1> DEFINE c == s.call[p]
           out == {p}
<1>1. CallOK(c) /\ Core(s, {})
  BY DEF Steady, CallsOK, Fine
<1>2. c.fn # "acquire" => open = {}
  BY DEF Opened
<1>3. CASE c.fn = "hold"
  <2> DEFINE t == IF sig = "success" THEN s ELSE TimerCancel(s, p, c.key)
             u == Return(t, p, sig)
  <2>1. Resumed(s, p, sig) = u
    BY <1>3, SameCalls DEF Resumed
  <2>2. s.ticket[p] = NoTicket /\ s.joins[p] = NoOne
    BY <1>1, <1>3, RunsFree
  <2>3. /\ Fine(TimerCancel(s, p, c.key), {}, open, out \cup {p})
        /\ TimerCancel(s, p, c.key).failed = s.failed
        /\ TimerCancel(s, p, c.key).ticket = s.ticket
        /\ TimerCancel(s, p, c.key).joins = s.joins
    BY TimerCancelFine
  <2>4. out \cup {p} = {p}
    OBVIOUS
  <2>5. Calm(s, TimerCancel(s, p, c.key))
    BY TimerCancelCalm
  <2>6. Steady(t) /\ Fine(t, {}, open, {p}) /\ t.ticket[p] = NoTicket /\ t.joins[p] = NoOne
    BY <2>2, <2>3, <2>4, <2>5 DEF Calm
  <2> HIDE DEF t
  <2>7. Settled(u, open) /\ u.failed = t.failed
    BY <2>6, ReturnSettled
  <2>. QED BY <1>2, <1>3, <2>1, <2>7
<1>4. CASE c.fn = "join"
  <2> DEFINE u == [[s EXCEPT !.waiters = [s.waiters EXCEPT ![c.on] = Unlink(s.waiters[c.on], p)]]
                     EXCEPT !.joins = [s.joins EXCEPT ![p] = NoOne]]
             v == Return(u, p, sig)
  <2>1. Sound(Own(s, p)) /\ Placed(Own(s, p))
    BY <1>1 DEF Core
  <2>2. c.on \in Process /\ (s.joins[p] # NoOne => s.joins[p] = c.on)
    BY <1>4, <2>1, OwnIs DEF Sound, Placed
  <2>3. Resumed(s, p, sig) = v
    <3> DEFINE lists == [s.waiters EXCEPT ![c.on] = Unlink(s.waiters[c.on], p)]
               a == [s EXCEPT !.waiters = lists]
               x == IF a.joins[p] = c.on THEN NoOne ELSE a.joins[p]
               b == [a EXCEPT !.joins = [a.joins EXCEPT ![p] = x]]
    <3>1. Resumed(s, p, sig) = Return(b, p, sig)
      BY <1>4, SameCalls DEF Resumed
    <3>2. a.joins = s.joins
      BY DEF Steady, Fields
    <3>3. u = [a EXCEPT !.joins = [s.joins EXCEPT ![p] = NoOne]]
      OBVIOUS
    <3> HIDE DEF a, u
    <3>4. x = NoOne
      BY <2>2, <3>2
    <3> HIDE DEF x
    <3>5. b = u
      BY <3>2, <3>3, <3>4
    <3>. QED BY <3>1, <3>5
  <2>4. JoinOver(s, u, p) /\ Steady(u)
    BY <2>2, JoinOverSteady
  <2> HIDE DEF u
  <2>5. /\ Fine(u, {}, open, out \cup {p})
        /\ u.ticket[p] = NoTicket /\ u.joins[p] = NoOne
    BY <1>4, <2>4, JoinOverFine
  <2>6. out \cup {p} = {p}
    OBVIOUS
  <2>7. Fine(u, {}, open, {p})
    BY <2>5, <2>6
  <2>8. Settled(v, open) /\ v.failed = u.failed
    BY <2>4, <2>5, <2>7, ReturnSettled
  <2> HIDE DEF v
  <2>. QED BY <1>2, <1>4, <2>3, <2>8
<1>5. CASE c.fn \in {"yield", "none"}
  <2>1. Resumed(s, p, sig) = Return(s, p, sig)
    BY <1>5, SameCalls DEF Resumed
  <2>2. s.ticket[p] = NoTicket /\ s.joins[p] = NoOne
    BY <1>1, <1>5, RunsFree
  <2>3. Settled(Return(s, p, sig), open)
    BY <2>2, ReturnSettled
  <2>. QED BY <1>2, <1>5, <2>1, <2>3
<1>6. CASE c.fn = "acquire"
  <2> DEFINE t == GuardResume(s, p, sig)
             u == Continued(t, p, sig)
             g == c.on
             more == open \cup {g}
  <2>1. Resumed(s, p, sig) = u
    BY <1>6, SameCalls DEF Resumed
  <2>2. g \in Resource
    BY <1>1, <1>6 DEF CallOK
  <2>3. Calm(s, t)
    BY <2>2, GuardResumeCalm
  <2>4. sig = "cancelled" => ~Tells(Own(s, p), g)
    BY DEF Opened
  <2>5. /\ t.failed = "none" => s.failed = "none"
        /\ t.ticket[p] = NoTicket /\ t.joins[p] = NoOne
        /\ t.failed = "none" => Fine(t, {}, open \cup {s.call[p].on}, out \cup {p})
        /\ sig # "success" => Fine(t, {}, open, out \cup {p})
        /\ sig # "success" => t.failed = s.failed
    BY <1>6, <2>4, GuardResumeFine
  <2>6. out \cup {p} = {p}
    OBVIOUS
  <2> HIDE DEF t
  <2>7. Steady(t) /\ t.status[p] = "running" /\ t.call[p].on = g
    BY <2>3 DEF Calm, Still, Owners
  <2>8. CASE sig = "success"
    <3>1. more \subseteq {g}
      BY DEF Opened
    <3>2. t.failed = "none" => Fine(t, {}, more, {p})
      BY <2>5, <2>6
    <3> HIDE DEF g, more
    <3>3. t.failed = "none" => Settled(u, {}) /\ u.failed = t.failed
      BY <2>2, <2>5, <2>7, <2>8, <3>1, <3>2, ContinuedFine
    <3>4. u.failed = t.failed
      <4> DEFINE a == AcquireLoop(t, p, g, TRUE)
      <4>1. u = a
        BY <2>7, <2>8 DEF Continued
      <4>2. a.failed = t.failed
        BY <2>7 DEF AcquireLoop, Grab, Return, GuardWait, AddTicket, Block, Steady, Fields
      <4>. QED BY <4>1, <4>2
    <3>. QED BY <2>1, <3>3, <3>4
  <2>9. CASE sig # "success"
    <3>1. open = {}
      BY <2>9 DEF Opened
    <3>2. Fine(t, {}, open, {p})
      BY <2>5, <2>6, <2>9
    <3> HIDE DEF g
    <3>3. Settled(u, {}) /\ u.failed = t.failed
      BY <2>2, <2>5, <2>7, <2>9, <3>1, <3>2, ContinuedFine
    <3>. QED BY <2>1, <3>3
  <2>. QED BY <2>8, <2>9
<1>. QED BY <1>1, <1>3, <1>4, <1>5, <1>6 DEF CallOK

-----------------------------------------------------------------------------
(* The dispatcher is in control: nobody is left out.                       *)
LEMMA IdleFine ==
  ASSUME NEW s, Settled(s, {}), s.running = NoOne PROVE Fine(s, {}, {}, {})
<1>1. Fine(s, {}, {}, {NoOne})
  BY DEF Settled
<1>2. \A p \in Process : p # NoOne
  BY NullAssumption
<1>. QED BY <1>1, <1>2 DEF Fine, Awake

(* Nobody has to reach one that is not alive.                              *)
LEMMA DeadSettled ==
  ASSUME NEW t, NEW p \in Process, Fine(t, {}, {}, {p}), t.running = NoOne,
         t.status[p] # "running"
  PROVE  Settled(t, {})
<1>1. Fine(t, {}, {}, {NoOne})
  BY DEF Fine, Awake
<1>2. RunnerIdle(t)
  BY NullAssumption DEF RunnerIdle
<1>. QED BY <1>1, <1>2 DEF Settled

LEMMA ResumedIfAliveFine ==
  ASSUME NEW s, Steady(s), NEW open, NEW p \in Process, Fine(s, {}, open, {p}),
         s.running = NoOne, NEW sig, Opened(s, p, sig, open)
  PROVE  LET t == ResumedIfAlive(s, p, sig)
         IN  t.failed = "none" => Settled(t, {})
<1>1. CASE s.status[p] = "running"
  <2> DEFINE t == Resumed(s, p, sig)
  <2>1. t.failed = "none" => Settled(t, {})
    BY <1>1, ResumedFine
  <2> HIDE DEF t
  <2>. QED BY <1>1, <2>1 DEF ResumedIfAlive, t
<1>2. CASE s.status[p] # "running"
  <2>1. Placed(Own(s, p))
    BY DEF Fine, Core
  <2>2. s.call[p].fn = "none"
    BY <1>2, <2>1, OwnIs DEF Placed
  <2>3. open = {}
    BY <2>2 DEF Opened
  <2>4. Settled(s, {})
    BY <1>2, <2>3, DeadSettled
  <2>. QED BY <1>2, <2>4 DEF ResumedIfAlive
<1>. QED BY <1>1, <1>2

(* The assertion of a call holds if it does not fail.                      *)
LEMMA AssertedIs ==
  ASSUME NEW s, Steady(s), NEW holds, NEW name, name # "none",
         Asserted(s, holds, name).failed = "none"
  PROVE  Asserted(s, holds, name) = s /\ holds /\ s.failed = "none"
  BY DEF Asserted, Steady, Fields

(* What the events tell.                                                   *)
LEMMA EventTells ==
  ASSUME NEW s, Steady(s), s.agenda # {}, NEW out, Fine(s, {}, {}, out)
  PROVE  LET e == First(s.agenda)
         IN  /\ e.proc \in Process /\ e.kind \in Kinds
             /\ e.kind # "cancelled" => e.sig # "cancelled"
             /\ e.kind = "cancelled" => e.sig = "cancelled"
             /\ e.kind = "grant" => e.sig = "success"
             /\ e.kind \in {"preempt", "resume"} => s.status[e.proc] = "running"
<1> DEFINE e == First(s.agenda)
           p == e.proc
           x == Own(s, p)
           f == Fact(e)
<1>1. Core(s, {}) /\ Shaped(s)
  BY DEF Fine, Core
<1>2. p \in Process /\ e.kind \in Kinds /\ f \in x.facts
  BY <1>1, DequeueView
<1>3. Sound(x) /\ Placed(x) /\ x.status = s.status[p]
  BY <1>1, <1>2, OwnIs DEF Core
<1>4. f.kind = e.kind /\ f.sig = e.sig
  BY DEF Fact
<1> HIDE DEF e, f, x
<1>5. FactsFit(x)
  BY <1>3 DEF Sound
<1>6. /\ e.kind # "cancelled" => e.sig # "cancelled"
      /\ e.kind = "cancelled" => e.sig = "cancelled"
      /\ e.kind = "grant" => e.sig = "success"
  BY <1>2, <1>4, <1>5 DEF FactsFit
<1>7. e.kind \in {"preempt", "resume"} => x.status = "running"
  BY <1>2, <1>3, <1>4 DEF Placed
<1>. QED BY <1>2, <1>3, <1>6, <1>7 DEF e

-----------------------------------------------------------------------------
(* The actions of the events.                                              *)
Risen(s, p) == [s EXCEPT !.status = [s.status EXCEPT ![p] = "running"]]

LEMMA RisenFine ==
  ASSUME NEW s, Steady(s), NEW p \in Process, Fine(s, {}, {}, {p}), s.status[p] # "running"
  PROVE  LET t == Risen(s, p)
         IN  /\ Fine(t, {}, {}, {p}) /\ Steady(t) /\ t.failed = s.failed
             /\ t.ticket[p] = NoTicket /\ t.joins[p] = NoOne
<1> DEFINE stats == [s.status EXCEPT ![p] = "running"]
           t == Risen(s, p)
           x == Own(s, p)
           y == Own(t, p)
           out == {p}
<1>1. Core(s, {}) /\ Served(s, {}) /\ Awake(s, out) /\ Shaped(s)
  BY DEF Fine, Core
<1>2. DOMAIN stats = Process /\ stats[p] = "running" /\ \A q \in Process \ {p} : stats[q] = s.status[q]
  BY DEF Steady
<1>3. /\ t.agenda = s.agenda /\ t.status = stats /\ t.prio = s.prio /\ t.call = s.call
      /\ t.timers = s.timers /\ t.ticket = s.ticket /\ t.joins = s.joins
      /\ t.queue = s.queue /\ t.waiters = s.waiters
      /\ t.holder = s.holder /\ t.failed = s.failed /\ Steady(t)
  <2>1. t = [s EXCEPT !.status = stats]
    BY DEF Risen
  <2>2. Steady([s EXCEPT !.status = stats])
    BY <1>2, StatusSet
  <2> HIDE DEF stats
  <2>3. /\ t.agenda = s.agenda /\ t.status = stats /\ t.prio = s.prio /\ t.call = s.call
        /\ t.timers = s.timers /\ t.ticket = s.ticket /\ t.joins = s.joins
        /\ t.queue = s.queue /\ t.waiters = s.waiters
        /\ t.holder = s.holder /\ t.failed = s.failed
    BY <2>1 DEF Steady, Fields
  <2>. QED BY <2>1, <2>2, <2>3
<1> HIDE DEF t, stats
<1>4. Others(s, t, p)
  BY <1>2, <1>3 DEF Others, Own
<1>5. Shaped(t)
  BY <1>1, <1>3 DEF Shaped
<1>6. /\ y.status = "running" /\ y.prio = x.prio /\ y.call = x.call
      /\ y.timers = x.timers /\ y.ticket = x.ticket /\ y.joins = x.joins
      /\ y.facts = x.facts /\ y.waits = x.waits /\ y.lists = x.lists
  BY <1>2, <1>3, OwnIs
<1>7. Sound(x) /\ Placed(x) /\ x.status # "running" /\ x.ticket = s.ticket[p] /\ x.joins = s.joins[p]
  BY <1>1, OwnIs DEF Core
<1>8. \A q \in Process \ {p} : Apart(x, Own(s, q)) /\ Apart(Own(s, q), x)
  BY <1>1 DEF Core
<1>9. x = Own(s, p) /\ y = Own(t, p)
  OBVIOUS
<1> HIDE DEF x, y
<1>10. Sound(y)
  <2>1. TimersSet(y) /\ FactsFit(y) /\ WaitsOpen(y)
    BY <1>6, <1>7 DEF Sound, TimersSet, FactsFit, WaitsOpen
  <2>. QED BY <1>6, <1>7, <2>1 DEF Sound
<1>11. x.ticket = NoTicket /\ x.joins = NoOne
  BY <1>7 DEF Placed
<1>12. Placed(y)
  BY <1>6, <1>11 DEF Placed
<1>13. \A q \in Process \ {p} : Apart(y, Own(s, q)) /\ Apart(Own(s, q), y)
  BY <1>6, <1>8 DEF Apart
<1>14. Core(t, {})
  <2>1. t.status[p] # "finished"
    BY <1>2, <1>3
  <2>2. \A q \in Own(t, p).lists : \/ q \in Own(s, p).lists
                                   \/ s.status[q] # "finished"
    BY <1>6, <1>9
  <2>3. /\ Sound(Own(t, p)) /\ (p \in {} \/ Placed(Own(t, p)))
        /\ \A q \in Process \ {p} : /\ Apart(Own(t, p), Own(s, q))
                                    /\ Apart(Own(s, q), Own(t, p))
    BY <1>9, <1>10, <1>12, <1>13
  <2>. QED BY <1>1, <1>4, <1>5, <2>1, <2>2, <2>3, LocalCore
<1>15. \A g : Tells(Own(s, p), g) => Tells(Own(t, p), g)
  BY <1>6, <1>9 DEF Tells
<1>16. Served(t, {})
  <2>1. \A w \in Own(t, p).waits : \E v \in Own(s, p).waits : v.guard = w.guard
    BY <1>6, <1>9
  <2>. QED BY <1>1, <1>3, <1>4, <1>15, <2>1, LocalServed
<1>17. Awake(t, out \cup {p})
  BY <1>1, <1>4, LocalAwake
<1>18. out \cup {p} = {p}
  OBVIOUS
<1>. QED BY <1>3, <1>7, <1>11, <1>14, <1>16, <1>17, <1>18 DEF Fine, t

LEMMA StartEventFine ==
  ASSUME NEW s, Steady(s), NEW p \in Process, Fine(s, {}, {}, {p})
  PROVE  LET t == StartEvent(s, p)
         IN  t.failed = "none" => Settled(t, {})
<1> DEFINE t == Risen(s, p)
           u == Return(t, p, "success")
<1>1. StartEvent(s, p) = Asserted(u, s.status[p] # "running", "coroutine_start")
  BY SameCalls DEF StartEvent, Risen
<1>2. CASE s.status[p] = "running"
  <2>1. u.failed = s.failed
    BY DEF Risen, Return, Steady, Fields
  <2>2. DOMAIN u = Fields
    BY DEF Risen, Return, Steady, Fields
  <2> HIDE DEF u
  <2>3. Asserted(u, s.status[p] # "running", "coroutine_start").failed # "none"
    BY <1>2, <2>1, <2>2 DEF Asserted, Fields
  <2>. QED BY <1>1, <2>3
<1>3. CASE s.status[p] # "running"
  <2>1. /\ Fine(t, {}, {}, {p}) /\ Steady(t) /\ t.failed = s.failed
        /\ t.ticket[p] = NoTicket /\ t.joins[p] = NoOne
    BY <1>3, RisenFine
  <2> HIDE DEF t
  <2>2. Settled(u, {})
    BY <2>1, ReturnSettled
  <2>. QED BY <1>1, <1>3, <2>2 DEF Asserted
<1>. QED BY <1>2, <1>3

(* wakeup_event_time *)
LEMMA TimeEventFine ==
  ASSUME NEW s, Steady(s), s.agenda # {}, Settled(s, {}), s.running = NoOne,
         First(s.agenda).kind = "time"
  PROVE  LET e == First(s.agenda)
             t == WakeupTime(Dequeue(s), e.proc, e.key, e.sig)
         IN  t.failed = "none" => Settled(t, {})
<1> DEFINE e == First(s.agenda)
           p == e.proc
           d == Dequeue(s)
           t == TimerOver(d, p, e.key)
           out == {}
<1>1. Fine(s, {}, {}, out)
  BY IdleFine
<1>2. p \in Process /\ e.sig # "cancelled"
  BY <1>1, EventTells
<1>3. /\ e.key \in d.timers[p]
      /\ Fine(t, {}, {}, out \cup {p}) /\ t.failed = s.failed
      /\ t.call = s.call /\ t.joins = s.joins /\ t.ticket = s.ticket
      /\ t.status = s.status
  BY <1>1, DequeueTimeFine
<1>4. out \cup {p} = {p}
  OBVIOUS
<1>5. Calm(s, d)
  BY DequeueCalm
<1>6. Calm(d, t)
  BY <1>5, FreeSet DEF TimerOver, Calm
<1>7. WakeupTime(d, p, e.key, e.sig) = ResumedIfAlive(t, p, e.sig)
  BY <1>3 DEF WakeupTime, TimerOver
<1>8. Steady(t) /\ t.running = NoOne
  BY <1>5, <1>6 DEF Calm, Still
<1>9. Fine(t, {}, {}, {p})
  BY <1>3, <1>4
<1> HIDE DEF t, d, e
<1>10. Opened(t, p, e.sig, {})
  BY <1>2 DEF Opened
<1> DEFINE u == ResumedIfAlive(t, p, e.sig)
<1>11. u.failed = "none" => Settled(u, {})
  BY <1>2, <1>8, <1>9, <1>10, ResumedIfAliveFine
<1>. QED BY <1>7, <1>11 DEF d, e

-----------------------------------------------------------------------------
(* wakeup_event_resource and its cancellation, of a process that waits for *)
(* it, which is going to take up the grant.                                *)
LEMMA GuardEventOpens ==
  ASSUME NEW s, Steady(s), s.agenda # {}, Settled(s, {}), s.running = NoOne,
         First(s.agenda).kind \in {"grant", "cancelled"},
         AwaitingKey(s, First(s.agenda).proc, First(s.agenda).key)
  PROVE  LET e == First(s.agenda)
             p == e.proc
             d == Dequeue(s)
             open == IF e.kind = "grant" THEN {s.ticket[p].guard} ELSE {}
         IN  /\ Fine(d, {}, open, {p}) /\ Opened(d, p, e.sig, open)
             /\ d.call[p].fn = "acquire" /\ d.call = s.call /\ d.ticket[p] # NoTicket
             /\ \A w \in Own(s, p).waits : w.key # e.key
<1> DEFINE e == First(s.agenda)
           p == e.proc
           d == Dequeue(s)
           out == {}
           open == IF e.kind = "grant" THEN {s.ticket[p].guard} ELSE {}
           x == Own(s, p)
           y == Own(d, p)
<1>1. Fine(s, {}, {}, out) /\ Core(s, {}) /\ Shaped(s)
  BY IdleFine DEF Fine, Core
<1>2. /\ e.proc \in Process /\ e.kind \in Kinds
      /\ e.kind # "cancelled" => e.sig # "cancelled"
      /\ e.kind = "cancelled" => e.sig = "cancelled"
      /\ e.kind = "grant" => e.sig = "success"
      /\ e.kind \in {"preempt", "resume"} => s.status[e.proc] = "running"
  BY <1>1, EventTells
<1>3. /\ Fine(d, {}, Given(s, e), out \cup {p})
      /\ e.kind # "grant" => Fine(d, {}, {}, out \cup {p})
      /\ /\ e.kind \in {"grant", "cancelled"}
         /\ ~AwaitingKey(s, p, e.key)
         => Fine(d, {}, {}, out)
      /\ e.kind = "process" /\ s.joins[p] = NoOne => Fine(d, {}, {}, out)
  BY <1>1, DequeueFine
<1>4. /\ e.key # 0 => \A f \in y.facts : f.key # e.key
      /\ y.call = x.call /\ y.ticket = x.ticket /\ Fact(e) \in x.facts
  BY <1>1, DequeueView
<1>5. /\ x.ticket = s.ticket[p] /\ x.call = s.call[p]
      /\ y.ticket = d.ticket[p] /\ y.call = d.call[p] /\ x = Own(s, p) /\ y = Own(d, p)
  BY OwnIs
<1>6. Sound(x) /\ Placed(x)
  BY <1>1, <1>2 DEF Core
<1>7. d.call = s.call /\ out \cup {p} = {p}
  BY DequeueCalm DEF Calm, Still
<1>8. Given(s, e) = IF e.kind = "grant" /\ e.key = s.ticket[p].key THEN {s.ticket[p].guard} ELSE {}
  BY DEF Given
<1>9. (e.kind = "grant" \/ e.kind = "cancelled") /\ Fact(e).key = e.key
  BY DEF Fact
<1>10. e.key # 0 /\ s.ticket[p].key = e.key
  BY DEF AwaitingKey
<1> HIDE DEF d, e, x, y, out
<1>11. s.ticket[p] # NoTicket
  BY <1>10 DEF NoTicket
<1>12. d.call[p].fn = "acquire" /\ d.call[p].on = s.ticket[p].guard
  BY <1>4, <1>5, <1>6, <1>11 DEF Placed
<1>13. Fine(d, {}, open, {p})
  BY <1>3, <1>7, <1>8, <1>9, <1>10
<1>14. e.kind = "cancelled" => \A g : ~Tells(y, g)
  <2> SUFFICES ASSUME NEW g, Tells(y, g) PROVE FALSE
    OBVIOUS
  <2>1. PICK f \in y.facts : f.kind = "grant" /\ y.ticket = [guard |-> g, key |-> f.key]
    BY DEF Tells
  <2>2. y.ticket.key = f.key
    BY <2>1
  <2>. QED BY <1>4, <1>5, <1>10, <2>1, <2>2
<1>15. Opened(d, p, e.sig, open)
  BY <1>2, <1>5, <1>9, <1>12, <1>14 DEF Opened
<1>16. \A w \in x.waits : w.key # e.key
  BY <1>4, <1>6, <1>9 DEF Sound, WaitsOpen
<1>. QED BY <1>4, <1>5, <1>7, <1>11, <1>12, <1>13, <1>15, <1>16 DEF d, e, x

LEMMA GuardEventFine ==
  ASSUME NEW s, Steady(s), s.agenda # {}, Settled(s, {}), s.running = NoOne,
         First(s.agenda).kind \in {"grant", "cancelled"}
  PROVE  LET e == First(s.agenda)
             t == WakeupGuard(Dequeue(s), e.proc, e.key, e.sig)
         IN  t.failed = "none" => Settled(t, {})
<1> DEFINE e == First(s.agenda)
           p == e.proc
           d == Dequeue(s)
           out == {}
           open == IF e.kind = "grant" THEN {s.ticket[p].guard} ELSE {}
           t == ResumedIfAlive(d, p, e.sig)
<1>1. Fine(s, {}, {}, out) /\ Shaped(s)
  BY IdleFine DEF Fine, Core
<1>2. e.proc \in Process
  BY <1>1, EventTells
<1>3. Calm(s, d)
  BY DequeueCalm
<1>4. Steady(d) /\ d.running = NoOne
  BY <1>3 DEF Calm, Still
<1>5. d.ticket = s.ticket
  BY DEF Dequeue, Steady, Fields
<1>6. WakeupGuard(d, p, e.key, e.sig) = IF AwaitingKey(s, p, e.key) THEN t ELSE d
  <2>1. Kernel!AwaitingKey(d, p, e.key) = AwaitingKey(s, p, e.key)
    BY <1>5 DEF AwaitingKey, Kernel!AwaitingKey
  <2> HIDE DEF d, e, t
  <2>. QED BY <2>1 DEF WakeupGuard, t
<1>7. CASE ~AwaitingKey(s, p, e.key)
  <2>1. e.kind # "time" /\ e.kind \in {"grant", "cancelled"}
    OBVIOUS
  <2>2. /\ Fine(d, {}, Given(s, e), out \cup {p})
        /\ e.kind # "grant" => Fine(d, {}, {}, out \cup {p})
        /\ /\ e.kind \in {"grant", "cancelled"}
           /\ ~AwaitingKey(s, p, e.key)
           => Fine(d, {}, {}, out)
        /\ e.kind = "process" /\ s.joins[p] = NoOne => Fine(d, {}, {}, out)
    BY <1>1, <2>1, DequeueFine
  <2> HIDE DEF t, d, e
  <2>3. Fine(d, {}, {}, {d.running})
    BY <1>7, <2>1, <2>2, FineMore
  <2>4. RunnerIdle(d)
    BY <1>4, NullAssumption DEF RunnerIdle
  <2>. QED BY <1>6, <1>7, <2>3, <2>4 DEF Settled, d, e
<1>8. CASE AwaitingKey(s, p, e.key)
  <2>1. Fine(d, {}, open, {p}) /\ Opened(d, p, e.sig, open)
    BY <1>8, GuardEventOpens
  <2> HIDE DEF open, d, e
  <2>2. t.failed = "none" => Settled(t, {})
    BY <1>2, <1>4, <2>1, ResumedIfAliveFine
  <2>. QED BY <1>6, <1>8, <2>2 DEF d, e
<1>. QED BY <1>7, <1>8

(* wakeup_event_process *)
LEMMA ProcessEventFine ==
  ASSUME NEW s, Steady(s), s.agenda # {}, Settled(s, {}), s.running = NoOne,
         First(s.agenda).kind = "process"
  PROVE  LET e == First(s.agenda)
             t == WakeupProcess(Dequeue(s), e.proc, e.sig)
         IN  Settled(t, {})
<1> DEFINE e == First(s.agenda)
           p == e.proc
           d == Dequeue(s)
           out == {}
           v == [d EXCEPT !.joins = [d.joins EXCEPT ![p] = NoOne]]
           u == IF d.joins[p] = NoOne THEN d ELSE ResumedIfAlive(v, p, e.sig)
           holds == \/ d.joins[p] # NoOne
                    \/ d.timers[p] # {}
                    \/ d.ticket[p] # Kernel!NoTicket
           x == Own(s, p)
           y == Own(d, p)
<1>1. Fine(s, {}, {}, out) /\ Core(s, {}) /\ Shaped(s)
  BY IdleFine DEF Fine, Core
<1>2. p \in Process
  BY <1>1, EventTells
<1>3. /\ Fine(d, {}, Given(s, e), out \cup {p})
      /\ e.kind # "grant" => Fine(d, {}, {}, out \cup {p})
      /\ /\ e.kind \in {"grant", "cancelled"}
         /\ ~AwaitingKey(s, p, e.key)
         => Fine(d, {}, {}, out)
      /\ e.kind = "process" /\ s.joins[p] = NoOne => Fine(d, {}, {}, out)
  BY <1>1, DequeueFine
<1>4. y.joins = x.joins
  BY <1>1, DequeueView
<1>5. d.joins[p] = s.joins[p]
  BY <1>4, OwnIs
<1>6. Calm(s, d)
  BY DequeueCalm
<1>7. Steady(d) /\ d.running = NoOne
  BY <1>6 DEF Calm, Still
<1>8. WakeupProcess(d, p, e.sig) = Asserted(u, holds, "wakeup_event_process")
  BY SameCalls DEF WakeupProcess
<1>9. out \cup {p} = {p} /\ e.kind = "process"
  OBVIOUS
<1>10. Calm(d, v)
  BY <1>7, FreeSet
<1> HIDE DEF holds
<1>11. CASE d.joins[p] = NoOne
  <2> HIDE DEF d, e
  <2>1. Fine(d, {}, {}, out)
    BY <1>3, <1>5, <1>9, <1>11
  <2>2. Fine(d, {}, {}, {d.running})
    BY <2>1, FineMore
  <2>3. RunnerIdle(d)
    BY <1>7, NullAssumption DEF RunnerIdle
  <2>4. u = d /\ Settled(d, {})
    BY <1>11, <2>2, <2>3 DEF Settled
  <2> DEFINE name == "wakeup_event_process"
             t == Asserted(d, holds, name)
  <2>5. WakeupProcess(d, p, e.sig) = t
    BY <1>8, <2>4
  <2> HIDE DEF u, name
  <2>6. Fine(t, {}, {}, {d.running}) /\ t.running = d.running /\ t.call = d.call
    BY <1>7, <2>2, AssertedFine
  <2> HIDE DEF t
  <2>7. Settled(t, {})
    BY <2>4, <2>6 DEF Settled, RunnerIdle
  <2>. QED BY <2>5, <2>7 DEF d, e
<1>12. CASE d.joins[p] # NoOne
  <2> DEFINE j == d.call[p].on
             w == [[d EXCEPT !.waiters = [d.waiters EXCEPT ![j] = Unlink(d.waiters[j], p)]]
                     EXCEPT !.joins = [d.joins EXCEPT ![p] = NoOne]]
             r == Return(w, p, e.sig)
  <2>1. Fine(d, {}, {}, out \cup {p})
    BY <1>3, <1>9
  <2>2. Core(d, {})
    BY <2>1 DEF Fine
  <2>3. Sound(y) /\ Placed(y)
    BY <1>2, <2>2 DEF Core
  <2>4. y.joins = d.joins[p] /\ y.call = d.call[p] /\ y.status = d.status[p]
    BY OwnIs
  <2> HIDE DEF y
  <2>5. d.call[p].fn = "join" /\ j \in Process /\ d.status[p] = "running"
    BY <1>12, <2>3, <2>4 DEF Placed, Sound
  <2>6. u = r
    <3> HIDE DEF d, e
    <3>1. v.status = d.status /\ v.call = d.call
      BY <1>10 DEF Calm, Still, Owners
    <3> DEFINE a == [v EXCEPT !.waiters = [v.waiters EXCEPT ![j] = Unlink(v.waiters[j], p)]]
               b == [a EXCEPT !.joins = [a.joins EXCEPT ![p] = IF a.joins[p] = j THEN NoOne ELSE a.joins[p]]]
    <3>2. u = Resumed(v, p, e.sig)
      BY <1>12, <2>5, <3>1 DEF ResumedIfAlive
    <3>3. Resumed(v, p, e.sig) = Return(b, p, e.sig)
      <4> DEFINE c == v.call[p]
                 us == [v.waiters EXCEPT ![c.on] = Unlink(v.waiters[c.on], p)]
                 a1 == [v EXCEPT !.waiters = us]
                 n == IF a1.joins[p] = c.on THEN NoOne ELSE a1.joins[p]
                 b1 == [a1 EXCEPT !.joins = [a1.joins EXCEPT ![p] = n]]
      <4>1. c.fn = "join" /\ c.on = j
        BY <2>5, <3>1
      <4> HIDE DEF v
      <4>2. Resumed(v, p, e.sig) = Return(b1, p, e.sig)
        BY <4>1, SameCalls DEF Resumed
      <4>3. b1 = b
        BY <4>1
      <4>. QED BY <4>2, <4>3
    <3>4. p \in DOMAIN d.joins
      BY <1>2, <2>2 DEF Core, Shaped
    <3>5. a.joins = [d.joins EXCEPT ![p] = NoOne] /\ v.waiters = d.waiters
      BY <1>7 DEF Steady, Fields
    <3>6. a.joins[p] = NoOne
      BY <3>4, <3>5
    <3>7. b = [a EXCEPT !.joins = a.joins]
      <4> HIDE DEF a
      <4>1. (IF a.joins[p] = j THEN NoOne ELSE a.joins[p]) = NoOne
        BY <3>6
      <4>2. [a.joins EXCEPT ![p] = NoOne] = a.joins
        BY <3>4, <3>5
      <4>. QED BY <4>1, <4>2
    <3>8. w = [a EXCEPT !.joins = a.joins]
      <4>1. DOMAIN d = Fields
        BY <1>7 DEF Steady
      <4>2. v.waiters = d.waiters
        BY <3>5
      <4> DEFINE us == [d.waiters EXCEPT ![j] = Unlink(d.waiters[j], p)]
                 js == [d.joins EXCEPT ![p] = NoOne]
      <4>3. a = [v EXCEPT !.waiters = us]
        BY <4>2
      <4>4. w = [[d EXCEPT !.waiters = us] EXCEPT !.joins = js]
        OBVIOUS
      <4>5. v = [d EXCEPT !.joins = js]
        OBVIOUS
      <4>6. a.joins = js
        BY <3>5
      <4> HIDE DEF a, w, v, us, js
      <4>. QED BY <4>1, <4>3, <4>4, <4>5, <4>6 DEF Fields
    <3>. QED BY <3>2, <3>3, <3>7, <3>8
  <2>7. JoinOver(d, w, p) /\ Steady(w)
    BY <1>2, <1>7, <2>5, JoinOverSteady
  <2> HIDE DEF w, d
  <2>8. /\ Fine(w, {}, {}, out \cup {p} \cup {p})
        /\ w.ticket[p] = NoTicket /\ w.joins[p] = NoOne
    <3> DEFINE rest == out \cup {p}
    <3>1. Fine(d, {}, {}, rest)
      BY <2>1
    <3> HIDE DEF rest
    <3>2. /\ Fine(w, {}, {}, rest \cup {p})
          /\ w.ticket[p] = NoTicket /\ w.joins[p] = NoOne
      BY <1>2, <1>7, <2>5, <2>7, <3>1, JoinOverFine
    <3>. QED BY <3>2 DEF rest
  <2>9. out \cup {p} \cup {p} = {p}
    OBVIOUS
  <2>10. Settled(r, {}) /\ r.failed = w.failed
    BY <1>2, <2>7, <2>8, <2>9, ReturnSettled
  <2> HIDE DEF u, r
  <2>11. holds
    BY <1>12 DEF holds
  <2>12. Asserted(u, holds, "wakeup_event_process") = u
    BY <2>11 DEF Asserted
  <2>. QED BY <1>8, <2>6, <2>10, <2>12 DEF d, e
<1>. QED BY <1>11, <1>12

-----------------------------------------------------------------------------
(* wakeup_event_interrupt                                                  *)
LEMMA InterruptEventFine ==
  ASSUME NEW s, Steady(s), NEW p \in Process, Fine(s, {}, {}, {p}), s.running = NoOne,
         NEW sig, sig # "cancelled"
  PROVE  LET t == WakeupInterrupt(s, p, sig)
         IN  t.failed = "none" => Settled(t, {})
<1> DEFINE t == CancelAwaiteds(s, p)
           u == Resumed(t, p, sig)
           out == {p}
<1>1. WakeupInterrupt(s, p, sig) = IF s.status[p] = "running" THEN u ELSE s
  BY SameCalls DEF WakeupInterrupt
<1>2. CASE s.status[p] = "running"
  <2>1. Calm(s, t)
    BY CancelAwaitedsCalm
  <2>2. /\ Fine(t, {}, {}, out \cup {p}) /\ t.failed = s.failed
        /\ Bare(Own(t, p))
    BY CancelAwaitedsFine
  <2>3. out \cup {p} = {p}
    OBVIOUS
  <2> HIDE DEF t
  <2>4. Steady(t) /\ t.status[p] = "running"
    BY <1>2, <2>1 DEF Calm, Still, Owners
  <2>5. Opened(t, p, sig, {})
    BY DEF Opened
  <2>6. Fine(t, {}, {}, {p})
    BY <2>2, <2>3
  <2>7. u.failed = "none" => Settled(u, {})
    BY <2>4, <2>5, <2>6, ResumedFine
  <2>. QED BY <1>1, <1>2, <2>7
<1>3. CASE s.status[p] # "running"
  <2>1. Settled(s, {})
    BY <1>3, DeadSettled
  <2>. QED BY <1>1, <1>3, <2>1
<1>. QED BY <1>2, <1>3

LEMMA ExecutedFine ==
  ASSUME NEW s, Steady(s), s.agenda # {}, Settled(s, {}), s.running = NoOne
  PROVE  LET t == Executed(s)
         IN  t.failed = "none" \/ First(s.agenda).kind = "process" => Settled(t, {})
<1> DEFINE e == First(s.agenda)
           t == Dequeue(s)
           out == {}
<1>1. Executed(s) =
        CASE e.kind = "start" -> StartEvent(t, e.proc)
          [] e.kind = "time" -> WakeupTime(t, e.proc, e.key, e.sig)
          [] e.kind \in {"grant", "cancelled"} -> WakeupGuard(t, e.proc, e.key, e.sig)
          [] e.kind = "process" -> WakeupProcess(t, e.proc, e.sig)
          [] e.kind = "interrupt" -> WakeupInterrupt(t, e.proc, e.sig)
          [] e.kind \in {"preempt", "resume"} -> ResumedIfAlive(t, e.proc, e.sig)
  BY SameCalls DEF Executed
<1>2. Fine(s, {}, {}, out)
  BY IdleFine
<1>3. /\ e.proc \in Process /\ e.kind \in Kinds
      /\ e.kind # "cancelled" => e.sig # "cancelled"
      /\ e.kind = "cancelled" => e.sig = "cancelled"
      /\ e.kind = "grant" => e.sig = "success"
      /\ e.kind \in {"preempt", "resume"} => s.status[e.proc] = "running"
  BY <1>2, EventTells
<1>4. Calm(s, t)
  BY DequeueCalm
<1>5. Steady(t) /\ t.running = NoOne
  BY <1>4 DEF Calm, Still
<1>6. CASE e.kind = "time"
  <2> DEFINE u == WakeupTime(t, e.proc, e.key, e.sig)
  <2>1. u.failed = "none" => Settled(u, {})
    BY <1>6, TimeEventFine
  <2>3. First(s.agenda).kind # "process"
    BY <1>6
  <2> HIDE DEF u, t, e
  <2>2. Executed(s) = u
    BY <1>1, <1>6 DEF u
  <2>. QED BY <2>1, <2>2, <2>3
<1>7. CASE e.kind \in {"grant", "cancelled"}
  <2> DEFINE u == WakeupGuard(t, e.proc, e.key, e.sig)
  <2>1. u.failed = "none" => Settled(u, {})
    BY <1>7, GuardEventFine
  <2>3. First(s.agenda).kind # "process"
    BY <1>7
  <2> HIDE DEF u, t, e
  <2>2. Executed(s) = u
    BY <1>1, <1>7 DEF u
  <2>. QED BY <2>1, <2>2, <2>3
<1>8. CASE e.kind = "process"
  <2> DEFINE u == WakeupProcess(t, e.proc, e.sig)
  <2>1. Settled(u, {})
    BY <1>8, ProcessEventFine
  <2> HIDE DEF u, t, e
  <2>2. Executed(s) = u
    BY <1>1, <1>8 DEF u
  <2>. QED BY <2>1, <2>2
<1>9. CASE e.kind \in {"start", "interrupt", "preempt", "resume"}
  <2> DEFINE p == e.proc
             u == StartEvent(t, p)
             v == WakeupInterrupt(t, p, e.sig)
             w == ResumedIfAlive(t, p, e.sig)
  <2>1. e.kind # "time"
    BY <1>9
  <2>2. /\ Fine(t, {}, Given(s, e), out \cup {p})
        /\ e.kind # "grant" => Fine(t, {}, {}, out \cup {p})
        /\ /\ e.kind \in {"grant", "cancelled"}
           /\ ~AwaitingKey(s, p, e.key)
           => Fine(t, {}, {}, out)
        /\ e.kind = "process" /\ s.joins[p] = NoOne => Fine(t, {}, {}, out)
    BY <1>2, <2>1, DequeueFine
  <2>3. out \cup {p} = {p} /\ e.kind # "grant"
    BY <1>9
  <2> HIDE DEF t, e, out
  <2>4. Fine(t, {}, {}, {p}) /\ e.sig # "cancelled" /\ p \in Process
    BY <1>3, <1>9, <2>2, <2>3
  <2>5. Opened(t, p, e.sig, {})
    BY <2>4 DEF Opened
  <2>6. u.failed = "none" => Settled(u, {})
    BY <1>5, <2>4, StartEventFine
  <2>7. v.failed = "none" => Settled(v, {})
    BY <1>5, <2>4, InterruptEventFine
  <2>8. w.failed = "none" => Settled(w, {})
    BY <1>5, <2>4, <2>5, ResumedIfAliveFine
  <2>9. \/ e.kind = "start" /\ Executed(s) = u
        \/ e.kind = "interrupt" /\ Executed(s) = v
        \/ e.kind \in {"preempt", "resume"} /\ Executed(s) = w
    BY <1>1, <1>9
  <2> HIDE DEF u, v, w
  <2>10. e.kind # "process"
    BY <1>9
  <2>. QED BY <2>6, <2>7, <2>8, <2>9, <2>10 DEF e
<1>. QED BY <1>3, <1>6, <1>7, <1>8, <1>9 DEF Kinds

-----------------------------------------------------------------------------
(* The calls of the client.                                                *)
LEMMA CallerFree ==
  ASSUME NEW s, Fit(s), Settled(s, {}), NEW p \in Process, s.running = p
  PROVE  /\ Steady(s) /\ Core(s, {}) /\ Fine(s, {}, {}, {p})
         /\ s.status[p] = "running" /\ s.call[p].fn = "none"
         /\ s.ticket[p] = NoTicket /\ s.joins[p] = NoOne
<1>1. Steady(s) /\ Core(s, {}) /\ Fine(s, {}, {}, {p}) /\ s.status[p] = "running"
  BY DEF Fit, Good, Settled, Fine, RunnerAlive
<1>2. s.call[p].fn = "none"
  BY DEF Settled, RunnerIdle
<1>. QED BY <1>1, <1>2, RunsFree

(* Calls that return at once.                                              *)
LEMMA CalmSettled ==
  ASSUME NEW s, Settled(s, {}), NEW t, Calm(s, t), Fine(t, {}, {}, {s.running})
  PROVE  Settled(t, {})
  BY DEF Settled, RunnerIdle, Calm, Still

LEMMA HoldFine ==
  ASSUME Fit(sys), Settled(sys, {}), NEW p \in Process, NEW d \in Duration, Hold(p, d)
  PROVE  Settled(sys', {})
<1> DEFINE k == FreshKey(sys)
           t == TimerAdd(sys, p, d, "success")
           u == Block(t, p, "hold", NoOne, k)
           out == {p}
<1>1. sys.running = p /\ d \in Int
  BY ClientPriorities DEF Hold, Calling
<1>2. /\ Steady(sys) /\ Fine(sys, {}, {}, out)
      /\ sys.status[p] = "running" /\ sys.call[p].fn = "none"
  BY <1>1, CallerFree
<1>3. sys' = u
  BY SameCalls DEF Hold
<1>4. /\ Fine(t, {}, {}, out) /\ t.failed = sys.failed
      /\ FreshKey(sys) \in t.timers[p]
      /\ \A q \in Process : t.ticket[q].key # FreshKey(sys)
  BY <1>1, <1>2, TimerAddFine
<1>5. Calm(sys, t)
  BY <1>1, <1>2, TimerAddCalm
<1> HIDE DEF t, k, out
<1>6. Steady(t) /\ t.status[p] = "running" /\ t.call[p].fn = "none"
  BY <1>2, <1>5 DEF Calm, Still, Owners
<1>7. \/ "hold" = "yield" /\ k = 0
      \/ /\ "hold" = "hold" /\ k \in t.timers[p]
         /\ \A q \in Process : t.ticket[q].key # k
  BY <1>4 DEF k
<1>8. /\ Fine(u, {}, {}, out \ {p}) /\ RunnerIdle(u)
      /\ u.running = NoOne /\ u.failed = t.failed
  BY <1>4, <1>6, <1>7, BlockFine
<1>. QED BY <1>3, <1>8, BlockedSettled DEF out

LEMMA YieldFine ==
  ASSUME Fit(sys), Settled(sys, {}), NEW p \in Process, Yield(p)
  PROVE  Settled(sys', {})
<1> DEFINE u == Block(sys, p, "yield", NoOne, 0)
           out == {p}
<1>1. sys.running = p
  BY DEF Yield, Calling
<1>2. /\ Steady(sys) /\ Fine(sys, {}, {}, out)
      /\ sys.status[p] = "running" /\ sys.call[p].fn = "none"
  BY <1>1, CallerFree
<1>3. sys' = u
  BY SameCalls DEF Yield
<1> HIDE DEF out
<1>4. /\ Fine(u, {}, {}, out \ {p}) /\ RunnerIdle(u)
      /\ u.running = NoOne /\ u.failed = sys.failed
  BY <1>2, BlockFine
<1>. QED BY <1>3, <1>4, BlockedSettled DEF out

LEMMA SetTimerFine ==
  ASSUME Fit(sys), Settled(sys, {}), NEW p \in Process, NEW d \in Duration, SetTimer(p, d)
  PROVE  Settled(sys', {})
<1> DEFINE t == TimerAdd(sys, p, d, "timeout")
           out == {p}
<1>1. sys.running = p /\ d \in Int
  BY ClientPriorities DEF SetTimer, Calling
<1>2. Steady(sys) /\ Fine(sys, {}, {}, out) /\ sys.status[p] = "running"
  BY <1>1, CallerFree
<1>3. sys' = t
  BY SameCalls DEF SetTimer
<1>4. /\ Fine(t, {}, {}, out) /\ t.failed = sys.failed
      /\ FreshKey(sys) \in t.timers[p]
      /\ \A q \in Process : t.ticket[q].key # FreshKey(sys)
  BY <1>1, <1>2, TimerAddFine
<1>5. Calm(sys, t)
  BY <1>1, <1>2, TimerAddCalm
<1> HIDE DEF t
<1>. QED BY <1>1, <1>3, <1>4, <1>5, CalmSettled

LEMMA ClearTimersFine ==
  ASSUME Fit(sys), Settled(sys, {}), NEW p \in Process, ClearTimers(p)
  PROVE  Settled(sys', {})
<1> DEFINE t == TimersClear(sys, p)
           out == {p}
<1>1. sys.running = p
  BY DEF ClearTimers, Calling
<1>2. Steady(sys) /\ Fine(sys, {}, {}, out)
  BY <1>1, CallerFree
<1>3. sys' = t
  BY SameCalls DEF ClearTimers
<1>4. Fine(t, {}, {}, out \cup {p}) /\ t.failed = sys.failed
  BY <1>2, TimersClearFine
<1>5. Calm(sys, t)
  BY <1>2, TimersClearCalm
<1>6. out \cup {p} = {sys.running}
  BY <1>1
<1> HIDE DEF t, out
<1>. QED BY <1>3, <1>4, <1>5, <1>6, CalmSettled

(* Interrupt, Resume and Start schedule an event.                          *)
LEMMA ScheduleSettled ==
  ASSUME NEW s, Fit(s), Settled(s, {}), NEW kind \in Kinds, NEW p \in Process, NEW sig,
         NEW pri \in Int, kind \notin {"time", "grant", "cancelled"}, sig # "cancelled",
         kind \in {"preempt", "resume"} => s.status[p] = "running"
  PROVE  Settled(Schedule(s, kind, p, 0, sig, 0, pri), {})
<1> DEFINE delay == 0
           t == Schedule(s, kind, p, 0, sig, delay, pri)
           out == {s.running}
           none == {}
<1>1. Steady(s) /\ Fine(s, none, none, out) /\ delay \in Int
  BY DEF Fit, Good, Settled
<1> HIDE DEF out, delay, none
<1>2. /\ Fine(t, none, none, out) /\ t.failed = s.failed
      /\ kind \in Unchecked => Awake(t, out \ {p})
  BY <1>1, ScheduledFine
<1>3. Calm(s, t)
  BY <1>1, ScheduleCalm
<1> HIDE DEF t
<1>4. Settled(t, {})
  BY <1>2, <1>3, CalmSettled DEF out, none
<1>. QED BY <1>4 DEF t, delay

LEMMA InterruptFine ==
  ASSUME Fit(sys), Settled(sys, {}), NEW p \in Process, NEW q \in Process,
         NEW pri \in Urgency, Interrupt(p, q, pri)
  PROVE  Settled(sys', {})
<1>1. sys' = Schedule(sys, "interrupt", q, 0, "interrupted", 0, pri)
  BY SameCalls DEF Interrupt
<1>2. PICK kind, sig : kind = "interrupt" /\ sig = "interrupted"
  OBVIOUS
<1>3. kind \in Kinds /\ kind \notin {"time", "grant", "cancelled", "preempt", "resume"}
  BY <1>2 DEF Kinds
<1>4. sig # "cancelled" /\ pri \in Int
  BY <1>2, ClientPriorities
<1>5. Settled(Schedule(sys, kind, q, 0, sig, 0, pri), {})
  BY <1>3, <1>4, ScheduleSettled
<1>. QED BY <1>1, <1>2, <1>5

LEMMA ResumeFine ==
  ASSUME Fit(sys), Settled(sys, {}), NEW p \in Process, NEW q \in Process, Resume(p, q)
  PROVE  Settled(sys', {})
<1>1. sys' = Schedule(sys, "resume", q, 0, "success", 0, sys.prio[q])
  BY SameCalls DEF Resume
<1>2. sys.prio[q] \in Int
  BY DEF Fit, Good, Steady
<1>3. sys.status[q] = "running"
  <2>1. sys.call[q].fn = "yield"
    BY DEF Resume
  <2>2. Placed(Own(sys, q))
    BY DEF Settled, Fine, Core
  <2>. QED BY <2>1, <2>2, OwnIs DEF Placed
<1>4. PICK kind, sig : kind = "resume" /\ sig = "success"
  OBVIOUS
<1>5. kind \in Kinds /\ kind \notin {"time", "grant", "cancelled"} /\ sig # "cancelled"
  BY <1>4 DEF Kinds
<1>6. Settled(Schedule(sys, kind, q, 0, sig, 0, sys.prio[q]), {})
  BY <1>2, <1>3, <1>5, ScheduleSettled
<1>. QED BY <1>1, <1>4, <1>6

LEMMA StartFine ==
  ASSUME Fit(sys), Settled(sys, {}), NEW p \in Process, NEW q \in Process, Start(p, q)
  PROVE  Settled(sys', {})
<1>1. sys' = Schedule(sys, "start", q, 0, "success", 0, sys.prio[q])
  BY SameCalls DEF Start
<1>2. sys.prio[q] \in Int
  BY DEF Fit, Good, Steady
<1>3. PICK kind, sig : kind = "start" /\ sig = "success"
  OBVIOUS
<1>4. kind \in Kinds /\ kind \notin {"time", "grant", "cancelled", "preempt", "resume"}
  BY <1>3 DEF Kinds
<1>5. sig # "cancelled"
  BY <1>3
<1>6. Settled(Schedule(sys, kind, q, 0, sig, 0, sys.prio[q]), {})
  BY <1>2, <1>4, <1>5, ScheduleSettled
<1>. QED BY <1>1, <1>3, <1>6

LEMMA JoinFine ==
  ASSUME Fit(sys), Settled(sys, {}), NEW p \in Process, NEW q \in Process, Join(p, q)
  PROVE  Settled(sys', {})
<1> DEFINE t == WaitProcess(sys, p, q)
           out == {p}
<1>1. sys.running = p /\ sys.status[q] # "finished"
  BY DEF Join, Calling
<1>2. /\ Steady(sys) /\ Fine(sys, {}, {}, out)
      /\ sys.status[p] = "running" /\ sys.call[p].fn = "none"
  BY <1>1, CallerFree
<1>3. sys' = t
  BY SameCalls DEF Join
<1> HIDE DEF out
<1>4. /\ Fine(t, {}, {}, out \ {p}) /\ RunnerIdle(t)
      /\ t.running = NoOne /\ t.failed = sys.failed
  BY <1>1, <1>2, WaitProcessFine
<1>. QED BY <1>3, <1>4, BlockedSettled DEF out

LEMMA CancelFine ==
  ASSUME Fit(sys), Settled(sys, {}), NEW p \in Process, NEW q \in Process,
         NEW g \in Resource, Cancel(p, q, g)
  PROVE  Settled(sys', {})
<1> DEFINE t == GuardCancel(sys, q, g)
           out == {sys.running}
<1>1. Steady(sys) /\ Fine(sys, {}, {}, out)
  BY DEF Fit, Good, Settled
<1>2. sys' = t
  BY SameCalls DEF Cancel
<1> HIDE DEF out
<1>3. Fine(t, {}, {}, out) /\ t.failed = sys.failed
  BY <1>1, GuardCancelFine
<1>4. Calm(sys, t)
  BY <1>1, GuardCancelCalm
<1> HIDE DEF t
<1>. QED BY <1>2, <1>3, <1>4, CalmSettled DEF out

(* Whoever finds others at a resource that is free has to wait, and there  *)
(* is somebody who waits.                                                  *)
LEMMA QueueWaited ==
  ASSUME NEW s, Steady(s), NEW dying, Core(s, dying), NEW r \in Resource, s.queue[r] # {}
  PROVE  Waited(s, r)
<1>1. PICK w \in s.queue[r] : TRUE
  OBVIOUS
<1>2. w.proc \in Process
  BY <1>1 DEF Steady, QueuesOK, QueueOK, EntryOK
<1>3. /\ Wait(r, w) \in Own(s, w.proc).waits
      /\ s.ticket[w.proc].guard = r /\ s.ticket[w.proc].key = w.key /\ w.key # 0
  BY <1>1, <1>2, EntryWait
<1>4. Wait(r, w).guard = r
  BY DEF Wait
<1>. QED BY <1>2, <1>3, <1>4 DEF Waited

LEMMA LoopSettled ==
  ASSUME NEW s, Fit(s), Settled(s, {}), NEW p \in Process, s.running = p, NEW r \in Resource
  PROVE  Settled(AcquireLoop(s, p, r, s.queue[r] = {}), {})
<1> DEFINE mayGrab == s.queue[r] = {}
           t == AcquireLoop(s, p, r, mayGrab)
           open == {}
<1>1. /\ Steady(s) /\ Core(s, {}) /\ Fine(s, {}, open, {p})
      /\ s.status[p] = "running" /\ s.call[p].fn = "none"
      /\ s.ticket[p] = NoTicket /\ s.joins[p] = NoOne
  BY CallerFree
<1>2. s.holder[r] = NoOne => mayGrab \/ (r \notin open /\ Waited(s, r))
  BY <1>1, QueueWaited
<1> HIDE DEF mayGrab, open
<1>3. Settled(t, open \ {r}) /\ t.failed = s.failed
  BY <1>1, <1>2, AcquireLoopFine
<1>4. open \ {r} = {}
  BY DEF open
<1>. QED BY <1>3, <1>4 DEF mayGrab

LEMMA AcquireFine ==
  ASSUME Fit(sys), Settled(sys, {}), NEW p \in Process, NEW r \in Resource, Acquire(p, r)
  PROVE  Settled(sys', {})
  BY LoopSettled DEF Acquire, Calling

-----------------------------------------------------------------------------
LEMMA RunsOn ==
  ASSUME NEW s, Settled(s, {}), NEW t, t.running = s.running, t.call = s.call,
         Fine(t, {}, {}, {s.running})
  PROVE  Settled(t, {})
  BY DEF Settled, RunnerIdle

(* A resource becomes free.                                                *)
Vacated(s, q, r) ==
  [[s EXCEPT !.held = [s.held EXCEPT ![q] = Unlink(s.held[q], r)]]
     EXCEPT !.holder = [s.holder EXCEPT ![r] = NoOne]]

LEMMA VacatedSteady ==
  ASSUME NEW s, Steady(s), NEW q \in Process, NEW r \in Resource
  PROVE  LET a == [s EXCEPT !.held = [s.held EXCEPT ![q] = Unlink(s.held[q], r)]]
             t == Vacated(s, q, r)
         IN  /\ Steady(a) /\ Unseen(s, a) /\ a.holder = s.holder /\ a.failed = s.failed
             /\ a.running = s.running /\ a.call = s.call
             /\ Steady(t) /\ Unseen(s, t) /\ t.failed = s.failed
             /\ t.holder = [s.holder EXCEPT ![r] = NoOne]
             /\ t.running = s.running /\ t.call = s.call
<1> DEFINE lists == [s.held EXCEPT ![q] = Unlink(s.held[q], r)]
           a == [s EXCEPT !.held = lists]
           holder == [s.holder EXCEPT ![r] = NoOne]
           t == [a EXCEPT !.holder = holder]
<1>1. lists \in [Process -> Seq(Resource)]
  <2>1. s.held \in [Process -> Seq(Resource)]
    BY DEF Steady, ListsOK
  <2>2. Unlink(s.held[q], r) \in Seq(Resource)
    BY <2>1, UnlinkKeeps
  <2>. QED BY <2>1, <2>2
<1>2. holder \in [Resource -> Process \cup {NoOne}]
  BY DEF Steady
<1>3. Vacated(s, q, r) = t
  BY DEF Vacated
<1> HIDE DEF lists, holder
<1>4. /\ Steady(a) /\ a.holder = s.holder /\ a.held = lists
      /\ a.running = s.running /\ a.call = s.call /\ a.status = s.status
  BY <1>1, HeldSet
<1>5. Unseen(s, a) /\ a.failed = s.failed
  BY DEF Unseen, Steady, Fields
<1> HIDE DEF a
<1>6. /\ Steady(t) /\ t.holder = holder /\ t.held = a.held
      /\ t.running = a.running /\ t.call = a.call /\ t.status = a.status
  BY <1>2, <1>4, HolderSet
<1>7. Unseen(a, t) /\ t.failed = a.failed
  BY <1>4 DEF Unseen, Steady, Fields
<1> HIDE DEF t
<1>8. Unseen(s, t)
  BY <1>5, <1>7 DEF Unseen
<1>. QED BY <1>3, <1>4, <1>5, <1>6, <1>7, <1>8 DEF a, lists, holder

LEMMA VacatedFine ==
  ASSUME NEW s, DOMAIN s.holder = Resource, NEW t, Unseen(s, t), NEW r \in Resource,
         t.holder = [s.holder EXCEPT ![r] = NoOne],
         NEW out, Fine(s, {}, {}, out)
  PROVE  Fine(t, {}, {r}, out)
<1> DEFINE open == {}
           more == {r}
           dying == {}
<1>1. \A g \in Resource \ more : t.holder[g] = NoOne => g \notin open /\ s.holder[g] = NoOne
  OBVIOUS
<1>2. Fine(s, dying, open, out)
  OBVIOUS
<1> HIDE DEF open, more, dying
<1>3. Fine(t, dying, more, out)
  BY <1>1, <1>2, HolderFine
<1>. QED BY <1>3 DEF more, dying

LEMMA ReleaseFine ==
  ASSUME Fit(sys), Settled(sys, {}), NEW p \in Process, NEW r \in Resource, Release(p, r)
  PROVE  Settled(sys', {})
<1>1. sys.running = p /\ sys.failed = "none"
  BY DEF Release, Calling
<1>2. Steady(sys) /\ Fine(sys, {}, {}, {p})
  BY <1>1, CallerFree
<1>3. CASE sys.holder[r] # p
  <2> DEFINE name == "release"
             t == Asserted(sys, FALSE, name)
             open == {}
             out == {p}
  <2>1. sys' = t
    BY <1>3, SameCalls DEF Release
  <2>2. Fine(sys, {}, open, out)
    BY <1>2
  <2> HIDE DEF name, open, out
  <2>3. Fine(t, {}, open, out) /\ t.running = sys.running /\ t.call = sys.call
    BY <1>2, <2>2, AssertedFine
  <2> HIDE DEF t
  <2>4. Fine(t, {}, {}, {sys.running})
    BY <1>1, <2>3 DEF open, out
  <2>5. Settled(t, {})
    BY <2>3, <2>4, RunsOn
  <2>. QED BY <2>1, <2>5
<1>4. CASE sys.holder[r] = p
  <2> DEFINE a == [sys EXCEPT !.held = [sys.held EXCEPT ![p] = Unlink(sys.held[p], r)]]
             b == Vacated(sys, p, r)
             t == Signal(b, r)
             open == {r}
             out == {p}
  <2>1. sys' = t
    BY <1>4 DEF Release, Vacated
  <2>2. /\ Steady(a) /\ Unseen(sys, a) /\ a.holder = sys.holder /\ a.failed = sys.failed
        /\ a.running = sys.running /\ a.call = sys.call
        /\ Steady(b) /\ Unseen(sys, b) /\ b.failed = sys.failed
        /\ b.holder = [sys.holder EXCEPT ![r] = NoOne]
        /\ b.running = sys.running /\ b.call = sys.call
    BY <1>2, VacatedSteady
  <2> HIDE DEF a, b
  <2>3. Fine(b, {}, {r}, {p})
    BY <1>2, <2>2, VacatedFine DEF Steady
  <2>4. Calm(b, t)
    BY <2>2, SignalCalm
  <2> HIDE DEF open, out
  <2>5. /\ Fine(t, {}, open, out) /\ t.failed = b.failed
        /\ Fine(t, {}, open \ {r}, out)
        /\ t.ticket = b.ticket /\ t.joins = b.joins
        /\ \A q \in Process : Own(b, q).waits = {} => Own(t, q) = Own(b, q)
    BY <2>2, <2>3, SignalFine DEF open, out
  <2> HIDE DEF t
  <2>6. open \ {r} = {} /\ out = {sys.running}
    BY <1>1 DEF open, out
  <2>7. t.running = sys.running /\ t.call = sys.call
    BY <2>2, <2>4 DEF Calm, Still
  <2>. QED BY <2>1, <2>5, <2>6, <2>7, RunsOn
<1>. QED BY <1>3, <1>4

-----------------------------------------------------------------------------
(* A grab by the running process.                                          *)
LEMMA GrabSettled ==
  ASSUME NEW s, Steady(s), NEW open, NEW p \in Process, NEW r \in Resource, open \subseteq {r},
         Fine(s, {}, open, {s.running}), RunnerIdle(s)
  PROVE  Settled(Grab(s, p, r), {})
<1> DEFINE t == Grab(s, p, r)
           out == {s.running}
           dying == {}
<1>1. Fine(s, dying, open, out)
  OBVIOUS
<1> HIDE DEF out, dying
<1>2. /\ Fine(t, dying, open \ {r}, out) /\ t.failed = s.failed
      /\ t.running = s.running /\ t.call = s.call
      /\ t.ticket = s.ticket /\ t.joins = s.joins
  BY <1>1, GrabFine
<1>3. open \ {r} = {}
  OBVIOUS
<1> HIDE DEF t
<1>4. RunnerIdle(t)
  BY <1>2 DEF RunnerIdle
<1>5. Settled(t, {})
  BY <1>2, <1>3, <1>4 DEF Settled, out, dying
<1>. QED BY <1>5 DEF t

(* A holder is thrown out of its resource, and of what it is blocked in.   *)
LEMMA EvictedFine ==
  ASSUME NEW s, Fit(s), Settled(s, {}), NEW p \in Process, s.running = p,
         NEW r \in Resource, NEW q \in Process, s.holder[r] = q
  PROVE  LET t == Evicted(s, q, r)
         IN  /\ Fine(t, {}, {r}, {p}) /\ Steady(t)
             /\ t.running = p /\ t.call = s.call /\ t.failed = s.failed
<1> DEFINE lists == [s.held EXCEPT ![q] = Unlink(s.held[q], r)]
           a == [s EXCEPT !.held = lists]
           b == CancelAwaiteds(a, q)
           holder == [b.holder EXCEPT ![r] = NoOne]
           c == [b EXCEPT !.holder = holder]
           d == [c EXCEPT !.untold = [c.untold EXCEPT ![q] = c.untold[q] \cup {r}]]
           t == Schedule(d, "preempt", q, 0, "preempted", 0, s.prio[q])
           out == {p}
           all == out \cup {q}
           none == {}
<1>1. Evicted(s, q, r) = t
  BY DEF Evicted
<1>2. Steady(s) /\ Fine(s, none, none, out) /\ s.status[q] = "running" /\ s.prio[q] \in Int
  BY CallerFree DEF Fit, Good, Owned, Steady
<1>3. Steady(a) /\ Unseen(s, a) /\ a.holder = s.holder /\ a.failed = s.failed
      /\ a.running = s.running /\ a.call = s.call
  <2> DEFINE v == Vacated(s, q, r)
             a1 == [s EXCEPT !.held = [s.held EXCEPT ![q] = Unlink(s.held[q], r)]]
  <2>1. /\ Steady(a1) /\ Unseen(s, a1) /\ a1.holder = s.holder /\ a1.failed = s.failed
        /\ a1.running = s.running /\ a1.call = s.call
        /\ Steady(v) /\ Unseen(s, v) /\ v.failed = s.failed
        /\ v.holder = [s.holder EXCEPT ![r] = NoOne]
        /\ v.running = s.running /\ v.call = s.call
    BY <1>2, VacatedSteady
  <2> HIDE DEF v
  <2>2. a = a1
    OBVIOUS
  <2> HIDE DEF a, a1
  <2>. QED BY <2>1, <2>2
<1> HIDE DEF a, lists, out, none
<1>4. Fine(a, none, none, out)
  BY <1>2, <1>3, UnseenFine
<1>5. /\ Fine(b, none, none, out \cup {q}) /\ b.failed = a.failed
      /\ Bare(Own(b, q))
  BY <1>3, <1>4, CancelAwaitedsFine
<1>6. Calm(a, b)
  BY <1>3, CancelAwaitedsCalm
<1> HIDE DEF b
<1>7. Steady(b) /\ b.holder = a.holder /\ b.running = s.running /\ b.call = s.call /\ b.status = a.status
  BY <1>3, <1>6 DEF Calm, Still, Owners
<1>8. holder \in [Resource -> Process \cup {NoOne}] /\ DOMAIN b.holder = Resource
  BY <1>7 DEF Steady
<1>9. /\ Steady(c) /\ c.holder = holder /\ c.held = b.held
      /\ c.running = b.running /\ c.call = b.call /\ c.status = b.status
  BY <1>7, <1>8, HolderSet
<1>10. Unseen(b, c) /\ c.failed = b.failed
  BY <1>7 DEF Unseen, Steady, Fields
<1> HIDE DEF c
<1>11. Fine(c, none, {r}, all)
  <2>1. c.holder = [b.holder EXCEPT ![r] = NoOne]
    BY <1>9
  <2>2. Fine(b, {}, {}, all)
    BY <1>5 DEF none
  <2> HIDE DEF all, holder
  <2>3. Fine(c, {}, {r}, all)
    BY <1>8, <1>10, <2>1, <2>2, VacatedFine
  <2>. QED BY <2>3 DEF none
<1>12. Calm(c, d)
  BY <1>9, FreeSet
<1>13. Unseen(c, d) /\ d.holder = c.holder /\ d.failed = c.failed
  BY <1>9 DEF Unseen, Steady, Fields
<1> DEFINE open == {r}
<1> HIDE DEF d, all, open
<1>14. Fine(d, none, open, all)
  BY <1>11, <1>13, UnseenFine DEF open
<1>15. d.status[q] = "running" /\ Steady(d) /\ d.running = p /\ d.call = s.call
  BY <1>2, <1>3, <1>7, <1>9, <1>12 DEF Calm, Still, Owners, Unseen
<1>16. PICK kind, sig, delay : kind = "preempt" /\ sig = "preempted" /\ delay = 0
  OBVIOUS
<1>17. kind \in Kinds /\ delay \in Int /\ kind \in Unchecked
  BY <1>16 DEF Kinds, Unchecked
<1>18. kind \notin {"time", "grant", "cancelled"} /\ sig # "cancelled"
  BY <1>16
<1> DEFINE pri == s.prio[q]
           u == Schedule(d, kind, q, 0, sig, delay, pri)
<1>19. t = u
  BY <1>16
<1>20. pri \in Int
  BY <1>2
<1> HIDE DEF pri, t
<1>21. /\ Fine(u, none, open, all) /\ u.failed = d.failed
       /\ kind \in Unchecked => Awake(u, all \ {q})
  BY <1>14, <1>15, <1>17, <1>18, <1>20, ScheduledFine
<1>22. Calm(d, u)
  BY <1>15, <1>17, <1>20, ScheduleCalm
<1> HIDE DEF u
<1>23. Fine(u, none, open, all \ {q})
  BY <1>17, <1>21 DEF Fine
<1>24. all \ {q} \subseteq {p} /\ open \subseteq open
  BY DEF all, out
<1>25. Fine(u, {}, {r}, {p})
  <2>1. Fine(u, {}, open, all \ {q})
    BY <1>23 DEF none
  <2>. QED BY <1>24, <2>1, FineMore DEF open
<1>. QED BY <1>1, <1>3, <1>5, <1>10, <1>13, <1>15, <1>19, <1>21, <1>22, <1>25 DEF Calm, Still

LEMMA PreemptFine ==
  ASSUME Fit(sys), Settled(sys, {}), NEW p \in Process, NEW r \in Resource, Preempt(p, r)
  PROVE  Settled(sys', {})
<1> DEFINE q == sys.holder[r]
<1>1. sys.running = p
  BY DEF Preempt, Calling
<1>2. Steady(sys) /\ Fine(sys, {}, {}, {sys.running}) /\ RunnerIdle(sys)
  BY DEF Fit, Good, Settled
<1>3. q \in Process \cup {NoOne}
  BY <1>2 DEF Steady
<1>4. CASE q = NoOne
  <2>1. sys' = Grab(sys, p, r)
    BY <1>4 DEF Preempt
  <2>2. {} \subseteq {r}
    OBVIOUS
  <2>. QED BY <1>2, <2>1, <2>2, GrabSettled
<1>5. CASE q # NoOne /\ sys.prio[p] > sys.prio[q]
  <2> DEFINE t == Evicted(sys, q, r)
             open == {r}
  <2>1. sys' = Grab(t, p, r)
    BY <1>5 DEF Preempt
  <2>2. q \in Process
    BY <1>3, <1>5
  <2>3. /\ Fine(t, {}, {r}, {p}) /\ Steady(t)
        /\ t.running = p /\ t.call = sys.call /\ t.failed = sys.failed
    BY <1>1, <2>2, EvictedFine
  <2> HIDE DEF t
  <2>4. RunnerIdle(t)
    BY <1>1, <1>2, <2>3 DEF RunnerIdle
  <2>5. Fine(t, {}, open, {t.running}) /\ open \subseteq {r}
    BY <2>3
  <2> HIDE DEF open
  <2>6. Settled(Grab(t, p, r), {})
    BY <2>3, <2>4, <2>5, GrabSettled
  <2>. QED BY <2>1, <2>6
<1>6. CASE q # NoOne /\ ~(sys.prio[p] > sys.prio[q])
  <2>1. sys' = AcquireLoop(sys, p, r, sys.queue[r] = {})
    BY <1>6 DEF Preempt
  <2>. QED BY <1>1, <2>1, LoopSettled
<1>. QED BY <1>4, <1>5, <1>6

-----------------------------------------------------------------------------
(* The priority of a process, and of what it waits for, changes.           *)
Alike(f, h) == h.kind = f.kind /\ h.key = f.key /\ h.sig = f.sig

Same(w, v) == v.guard = w.guard /\ v.key = w.key

Promoted(x, y) ==
  /\ y.status = x.status /\ y.call = x.call /\ y.timers = x.timers
  /\ y.ticket = x.ticket /\ y.joins = x.joins /\ y.lists = x.lists
  /\ \A f \in x.facts : \E h \in y.facts : Alike(f, h)
  /\ \A h \in y.facts : \E f \in x.facts : Alike(f, h)
  /\ \A h \in y.facts : h.kind = "time" => h.prio = y.prio
  /\ \A w \in x.waits : \E v \in y.waits : Same(w, v)
  /\ \A v \in y.waits : \E w \in x.waits : Same(w, v)
  /\ \A v \in y.waits : v.prio = y.prio

LEMMA PromotedView ==
  ASSUME NEW x, Sound(x), NEW y, Promoted(x, y)
  PROVE  /\ Sound(y) /\ Placed(x) => Placed(y)
         /\ Sound(y)
         /\ \A g : Tells(x, g) => Tells(y, g)
         /\ Reachable(x) => Reachable(y)
<1>. USE DEF Promoted
<1>1. TimersSet(y)
  BY DEF Sound, TimersSet, Alike
<1>2. FactsFit(y)
  <2> SUFFICES ASSUME NEW h \in y.facts
               PROVE  /\ h.kind = "time" => h.key \in y.timers /\ h.prio = y.prio
                      /\ h.kind = "grant" => h.sig = "success"
                      /\ h.kind = "cancelled" <=> h.sig = "cancelled"
    BY DEF FactsFit
  <2>1. PICK f \in x.facts : Alike(f, h)
    OBVIOUS
  <2>. QED BY <2>1 DEF Sound, FactsFit, Alike
<1>3. WaitsOpen(y)
  <2> SUFFICES ASSUME NEW v \in y.waits
               PROVE  /\ v.key # 0 /\ v.prio = y.prio
                      /\ y.ticket = [guard |-> v.guard, key |-> v.key]
                      /\ \A h \in y.facts : h.key # v.key
    BY DEF WaitsOpen
  <2>1. PICK w \in x.waits : Same(w, v)
    OBVIOUS
  <2>2. /\ w.key # 0 /\ x.ticket = [guard |-> w.guard, key |-> w.key]
        /\ \A f \in x.facts : f.key # w.key
    BY DEF Sound, WaitsOpen
  <2>3. \A h \in y.facts : h.key # v.key
    BY <2>1, <2>2 DEF Same, Alike
  <2>. QED BY <2>1, <2>2, <2>3 DEF Same
<1>4. Sound(y)
  BY <1>1, <1>2, <1>3 DEF Sound
<1>5. Placed(x) => Placed(y)
  BY DEF Placed, Alike
<1>6. \A g : Tells(x, g) => Tells(y, g)
  <2> SUFFICES ASSUME NEW g, Tells(x, g) PROVE Tells(y, g)
    OBVIOUS
  <2>1. PICK f \in x.facts : f.kind = "grant" /\ x.ticket = [guard |-> g, key |-> f.key]
    BY DEF Tells
  <2>2. PICK h \in y.facts : Alike(f, h)
    OBVIOUS
  <2>. QED BY <2>1, <2>2 DEF Tells, Alike
<1>7. ASSUME Reachable(x) PROVE Reachable(y)
  <2> DEFINE c == x.call
  <2>0. y.call = c /\ y.timers = x.timers /\ y.ticket = x.ticket /\ y.joins = x.joins /\ y.lists = x.lists
    OBVIOUS
  <2>1. CASE \E f \in x.facts : f.kind \in Unchecked
    BY <2>1 DEF Reachable, Alike
  <2>2. CASE c.fn = "yield" \/ (c.fn = "hold" /\ c.key \in x.timers)
    BY <2>0, <2>2 DEF Reachable
  <2>3. CASE /\ c.fn = "join" /\ x.joins = c.on
             /\ c.on \in x.lists \/ \E f \in x.facts : f.kind = "process"
    <3>1. c.on \in y.lists \/ \E f \in y.facts : f.kind = "process"
      BY <2>3 DEF Alike
    <3>. QED BY <2>0, <2>3, <3>1 DEF Reachable
  <2>4. CASE /\ c.fn = "acquire" /\ x.ticket = [guard |-> c.on, key |-> c.key]
             /\ \/ \E w \in x.waits : w.guard = c.on /\ w.key = c.key
                \/ \E f \in x.facts : f.kind \in {"grant", "cancelled"} /\ f.key = c.key
    <3>1. \/ \E w \in y.waits : w.guard = c.on /\ w.key = c.key
          \/ \E f \in y.facts : f.kind \in {"grant", "cancelled"} /\ f.key = c.key
      BY <2>4 DEF Alike, Same
    <3>. QED BY <2>0, <2>4, <3>1 DEF Reachable
  <2>. QED BY <1>7, <2>1, <2>2, <2>3, <2>4 DEF Reachable
<1>. QED BY <1>4, <1>5, <1>6, <1>7

Raise(S, some, pri) == {IF e \in some THEN [e EXCEPT !.prio = pri] ELSE e : e \in S}

LEMMA RaisedEvents ==
  ASSUME NEW A, \A e \in A : EventOK(e), NEW due, NEW p, \A e \in due : e.proc = p, NEW pri
  PROVE  LET B == Raise(A, due, pri)
         IN  /\ UniqueEvents(A) => UniqueEvents(B)
             /\ \A q : q # p => Facts(B, q) = Facts(A, q)
             /\ \A f \in Facts(A, p) : \E h \in Facts(B, p) : Alike(f, h)
             /\ \A h \in Facts(B, p) : \E e \in A :
                  /\ e.proc = p /\ Alike(Fact(e), h)
                  /\ e \in due => h.prio = pri
<1> DEFINE B == Raise(A, due, pri)
           R(e) == IF e \in due THEN [e EXCEPT !.prio = pri] ELSE e
<1>1. \A h \in B : \E e \in A : h = R(e)
  BY DEF Raise
<1>2. \A e \in A : R(e) \in B
  BY DEF Raise
<1>3. ASSUME NEW e \in A
      PROVE  /\ R(e).proc = e.proc /\ R(e).key = e.key /\ R(e).kind = e.kind /\ R(e).sig = e.sig
             /\ e \in due => R(e).prio = pri
             /\ e \notin due => R(e) = e
  BY DEF EventOK, EventFields
<1> HIDE DEF R, B
<1>4. UniqueEvents(A) => UniqueEvents(B)
  <2> SUFFICES ASSUME UniqueEvents(A), NEW g \in B, NEW h \in B, g.proc = h.proc, g.key = h.key, g.key # 0
               PROVE  g = h
    BY DEF UniqueEvents
  <2>1. PICK e \in A : g = R(e)
    BY <1>1
  <2>2. PICK f \in A : h = R(f)
    BY <1>1
  <2>3. e = f
    BY <1>3, <2>1, <2>2 DEF UniqueEvents
  <2>. QED BY <2>1, <2>2, <2>3
<1>5. ASSUME NEW q, q # p PROVE Facts(B, q) = Facts(A, q)
  <2>1. \A e \in A : e.proc = q => R(e) = e
    BY <1>3, <1>5
  <2>2. {h \in B : h.proc = q} = {e \in A : e.proc = q}
    BY <1>1, <1>2, <1>3, <2>1
  <2>. QED BY <2>2 DEF Facts
<1>6. ASSUME NEW f \in Facts(A, p) PROVE \E h \in Facts(B, p) : Alike(f, h)
  <2>1. PICK e \in A : e.proc = p /\ f = Fact(e)
    BY DEF Facts
  <2>2. R(e) \in B /\ R(e).proc = p
    BY <1>2, <1>3, <2>1
  <2>3. Fact(R(e)) \in Facts(B, p)
    BY <2>2 DEF Facts
  <2>4. Alike(f, Fact(R(e)))
    BY <1>3, <2>1 DEF Alike, Fact
  <2>. QED BY <2>3, <2>4
<1>7. ASSUME NEW h \in Facts(B, p)
      PROVE  \E e \in A : e.proc = p /\ Alike(Fact(e), h) /\ (e \in due => h.prio = pri)
  <2>1. PICK g \in B : g.proc = p /\ h = Fact(g)
    BY DEF Facts
  <2>2. PICK e \in A : g = R(e)
    BY <1>1
  <2>3. e.proc = p /\ Alike(Fact(e), h)
    BY <1>3, <2>1, <2>2 DEF Alike, Fact
  <2>4. e \in due => h.prio = pri
    BY <1>3, <2>1, <2>2 DEF Fact
  <2>. QED BY <2>3, <2>4
<1>. QED BY <1>4, <1>5, <1>6, <1>7 DEF B

-----------------------------------------------------------------------------
(* The entries of p in a queue, all of them in mine, are raised.           *)
RaisedQueue(Q, T, p, pri) ==
  /\ (\A v, w \in Q : v.proc = w.proc => v = w) => (\A v, w \in T : v.proc = w.proc => v = w)
  /\ \A q : q # p => {w \in T : w.proc = q} = {w \in Q : w.proc = q}
  /\ \A w \in Q : w.proc = p => \E v \in T : v.proc = p /\ v.key = w.key
  /\ \A v \in T : v.proc = p => v.prio = pri /\ \E w \in Q : w.proc = p /\ v.key = w.key

LEMMA RaisedEntries ==
  ASSUME NEW Q, \A w \in Q : EntryOK(w), NEW mine, NEW p, \A w \in mine : w.proc = p,
         \A w \in Q : w.proc = p => w \in mine, NEW pri
  PROVE  RaisedQueue(Q, Raise(Q, mine, pri), p, pri)
<1> DEFINE T == Raise(Q, mine, pri)
           R(w) == IF w \in mine THEN [w EXCEPT !.prio = pri] ELSE w
<1>1. \A v \in T : \E w \in Q : v = R(w)
  BY DEF Raise
<1>2. \A w \in Q : R(w) \in T
  BY DEF Raise
<1>3. ASSUME NEW w \in Q
      PROVE  /\ R(w).proc = w.proc /\ R(w).key = w.key
             /\ w \in mine => R(w).prio = pri
             /\ w \notin mine => R(w) = w
  BY DEF EntryOK, EntryFields
<1> HIDE DEF R, T
<1>4. ASSUME \A v, w \in Q : v.proc = w.proc => v = w, NEW v \in T, NEW w \in T, v.proc = w.proc
      PROVE  v = w
  <2>1. PICK v0 \in Q : v = R(v0)
    BY <1>1
  <2>2. PICK w0 \in Q : w = R(w0)
    BY <1>1
  <2>3. v0 = w0
    BY <1>3, <1>4, <2>1, <2>2
  <2>. QED BY <2>1, <2>2, <2>3
<1>5. ASSUME NEW q, q # p PROVE {w \in T : w.proc = q} = {w \in Q : w.proc = q}
  <2>1. \A w \in Q : w.proc = q => R(w) = w
    BY <1>3, <1>5
  <2>. QED BY <1>1, <1>2, <1>3, <2>1
<1>6. \A w \in Q : w.proc = p => \E v \in T : v.proc = p /\ v.key = w.key
  BY <1>2, <1>3
<1>7. \A v \in T : v.proc = p => v.prio = pri /\ \E w \in Q : w.proc = p /\ v.key = w.key
  BY <1>1, <1>3
<1>8. (\A v, w \in Q : v.proc = w.proc => v = w) => (\A v, w \in T : v.proc = w.proc => v = w)
  BY <1>4
<1>. QED BY <1>5, <1>6, <1>7, <1>8 DEF RaisedQueue, T

LEMMA RaisedWaits ==
  ASSUME NEW Q, UniqueEntries(Q), NEW T, NEW p, NEW g, NEW pri,
         \A h \in Resource : h # g => T[h] = Q[h],
         g \in Resource => RaisedQueue(Q[g], T[g], p, pri),
         \A h \in Resource : \A w \in Q[h] : w.proc = p => h = g
  PROVE  /\ UniqueEntries(T)
         /\ \A q : q # p => Waits(T, q) = Waits(Q, q)
         /\ \A z \in Waits(Q, p) : \E v \in Waits(T, p) : Same(z, v)
         /\ \A v \in Waits(T, p) : v.prio = pri /\ \E z \in Waits(Q, p) : Same(z, v)
<1>1. UniqueEntries(T)
  BY DEF UniqueEntries, RaisedQueue
<1>2. ASSUME NEW q, q # p PROVE Waits(T, q) = Waits(Q, q)
  <2>1. \A h \in Resource : {w \in T[h] : w.proc = q} = {w \in Q[h] : w.proc = q}
    BY <1>2 DEF RaisedQueue
  <2>2. \A h \in Resource : {Wait(h, w) : w \in {v \in T[h] : v.proc = q}}
                              = {Wait(h, w) : w \in {v \in Q[h] : v.proc = q}}
    BY <2>1
  <2> DEFINE W(R, h) == {Wait(h, w) : w \in {v \in R[h] : v.proc = q}}
  <2>3. Waits(T, q) = UNION {W(T, h) : h \in Resource} /\ Waits(Q, q) = UNION {W(Q, h) : h \in Resource}
    BY DEF Waits
  <2>4. \A h \in Resource : W(T, h) = W(Q, h)
    BY <2>2
  <2> HIDE DEF W
  <2>. QED BY <2>3, <2>4
<1>3. ASSUME NEW z \in Waits(Q, p) PROVE \E v \in Waits(T, p) : Same(z, v)
  <2>1. PICK h \in Resource : \E w \in Q[h] : w.proc = p /\ z = Wait(h, w)
    BY DEF Waits
  <2>2. PICK w \in Q[h] : w.proc = p /\ z = Wait(h, w)
    BY <2>1
  <2>3. h = g
    BY <2>2
  <2>4. PICK v \in T[h] : v.proc = p /\ v.key = w.key
    BY <2>2, <2>3 DEF RaisedQueue
  <2>5. Wait(h, v) \in Waits(T, p)
    BY <2>4 DEF Waits
  <2>6. Same(z, Wait(h, v))
    BY <2>2, <2>4 DEF Same, Wait
  <2>. QED BY <2>5, <2>6
<1>4. ASSUME NEW z \in Waits(T, p) PROVE z.prio = pri /\ \E v \in Waits(Q, p) : Same(v, z)
  <2>1. PICK h \in Resource : \E w \in T[h] : w.proc = p /\ z = Wait(h, w)
    BY DEF Waits
  <2>2. PICK w \in T[h] : w.proc = p /\ z = Wait(h, w)
    BY <2>1
  <2>3. h = g
    BY <2>2
  <2>4. w.prio = pri /\ \E v \in Q[h] : v.proc = p /\ w.key = v.key
    BY <2>2, <2>3 DEF RaisedQueue
  <2>5. PICK v \in Q[h] : v.proc = p /\ w.key = v.key
    BY <2>4
  <2>6. Wait(h, v) \in Waits(Q, p)
    BY <2>5 DEF Waits
  <2>7. Same(Wait(h, v), z) /\ z.prio = pri
    BY <2>2, <2>4, <2>5 DEF Same, Wait
  <2>. QED BY <2>6, <2>7
<1>. QED BY <1>1, <1>2, <1>3, <1>4

-----------------------------------------------------------------------------
(* cmb_process_priority_set, but for its assertion                         *)
PromotedTo(s, t, p, g, mine, due, pri) ==
  /\ t.agenda = Raise(s.agenda, due, pri)
  /\ t.status = s.status /\ t.call = s.call /\ t.timers = s.timers
  /\ t.ticket = s.ticket /\ t.joins = s.joins /\ t.waiters = s.waiters
  /\ t.holder = s.holder /\ t.failed = s.failed
  /\ t.prio[p] = pri /\ \A q \in Process \ {p} : t.prio[q] = s.prio[q]
  /\ \A h \in Resource : t.queue[h] = IF h # g THEN s.queue[h] ELSE Raise(s.queue[h], mine, pri)

LEMMA PromotedFine ==
  ASSUME NEW s, Steady(s), NEW open, NEW out, Fine(s, {}, open, out), NEW p \in Process,
         NEW g, NEW mine, g \in Resource => AllOf(s, p, g, mine),
         g \notin Resource => Own(s, p).waits = {},
         NEW pri, NEW t, PromotedTo(s, t, p, g, mine, TimerEvents(s, p, s.timers[p]), pri)
  PROVE  Fine(t, {}, open, out)
<1> DEFINE x == Own(s, p)
           y == Own(t, p)
           due == TimerEvents(s, p, s.timers[p])
<1>1. Core(s, {}) /\ Served(s, open) /\ Awake(s, out) /\ Shaped(s)
  BY DEF Fine, Core
<1>2. /\ t.agenda = Raise(s.agenda, due, pri)
      /\ t.status = s.status /\ t.call = s.call /\ t.timers = s.timers
      /\ t.ticket = s.ticket /\ t.joins = s.joins /\ t.waiters = s.waiters
      /\ t.holder = s.holder /\ t.failed = s.failed
      /\ t.prio[p] = pri /\ \A q \in Process \ {p} : t.prio[q] = s.prio[q]
  BY DEF PromotedTo
<1>3. Sound(x) /\ Placed(x)
  BY <1>1 DEF Core
<1>4. \A e \in due : e.proc = p
  BY DEF TimerEvents
<1>5. /\ UniqueEvents(t.agenda)
      /\ \A q : q # p => Facts(t.agenda, q) = Facts(s.agenda, q)
      /\ \A f \in Facts(s.agenda, p) : \E h \in Facts(t.agenda, p) : Alike(f, h)
      /\ \A h \in Facts(t.agenda, p) : \E e \in s.agenda :
           /\ e.proc = p /\ Alike(Fact(e), h)
           /\ e \in due => h.prio = pri
  <2> DEFINE A == s.agenda
             B == Raise(A, due, pri)
  <2>1. \A e \in A : EventOK(e)
    BY DEF Steady, AgendaOK
  <2>2. UniqueEvents(A)
    BY <1>1 DEF Shaped
  <2> HIDE DEF due, A
  <2>3. /\ UniqueEvents(A) => UniqueEvents(B)
        /\ \A q : q # p => Facts(B, q) = Facts(A, q)
        /\ \A f \in Facts(A, p) : \E h \in Facts(B, p) : Alike(f, h)
        /\ \A h \in Facts(B, p) : \E e \in A :
             /\ e.proc = p /\ Alike(Fact(e), h)
             /\ e \in due => h.prio = pri
    BY <1>4, <2>1, RaisedEvents
  <2>4. t.agenda = B
    BY <1>2 DEF A
  <2> HIDE DEF B
  <2>5. A = s.agenda
    BY DEF A
  <2>. QED BY <2>2, <2>3, <2>4, <2>5
<1>6. \A h \in Facts(t.agenda, p) : /\ h.kind = "time" => h.prio = pri
                                    /\ \E f \in Facts(s.agenda, p) : Alike(f, h)
  <2> SUFFICES ASSUME NEW h \in Facts(t.agenda, p)
               PROVE  /\ h.kind = "time" => h.prio = pri
                      /\ \E f \in Facts(s.agenda, p) : Alike(f, h)
    OBVIOUS
  <2>1. PICK e \in s.agenda : e.proc = p /\ Alike(Fact(e), h) /\ (e \in due => h.prio = pri)
    BY <1>5
  <2>2. Fact(e) \in Facts(s.agenda, p)
    BY <2>1 DEF Facts
  <2>3. Fact(e).kind = e.kind /\ Fact(e).key = e.key
    BY DEF Fact
  <2>4. h.kind = "time" => e \in due
    <3> HAVE h.kind = "time"
    <3>1. Fact(e).kind = "time"
      BY <2>1 DEF Alike
    <3>2. x.facts = Facts(s.agenda, p) /\ x.timers = s.timers[p]
      BY OwnIs
    <3>3. Fact(e).key \in x.timers
      BY <1>3, <2>2, <3>1, <3>2 DEF Sound, FactsFit
    <3>. QED BY <2>1, <2>3, <3>1, <3>2, <3>3 DEF TimerEvents
  <2>. QED BY <2>1, <2>2, <2>4
<1>7. \A h \in Resource : \A w \in s.queue[h] : w.proc = p => h = g
  <2>1. CASE g \in Resource
    BY <2>1 DEF AllOf
  <2>2. CASE g \notin Resource
    <3> SUFFICES ASSUME NEW h \in Resource, NEW w \in s.queue[h], w.proc = p PROVE FALSE
      OBVIOUS
    <3>1. Wait(h, w) \in Waits(s.queue, p)
      BY DEF Waits
    <3>. QED BY <2>2, <3>1, OwnIs
  <2>. QED BY <2>1, <2>2
<1>8. ASSUME g \in Resource PROVE RaisedQueue(s.queue[g], t.queue[g], p, pri)
  <2> DEFINE Q == s.queue[g]
  <2>1. t.queue[g] = Raise(Q, mine, pri)
    BY <1>8 DEF PromotedTo
  <2>2. \A w \in Q : EntryOK(w)
    BY <1>8 DEF Steady, QueuesOK, QueueOK
  <2>3. (\A w \in mine : w.proc = p) /\ (\A w \in Q : w.proc = p => w \in mine)
    BY <1>8 DEF AllOf
  <2> HIDE DEF Q
  <2>4. RaisedQueue(Q, Raise(Q, mine, pri), p, pri)
    BY <2>2, <2>3, RaisedEntries
  <2>. QED BY <2>1, <2>4 DEF Q
<1>9. /\ UniqueEntries(t.queue)
      /\ \A q : q # p => Waits(t.queue, q) = Waits(s.queue, q)
      /\ \A z \in Waits(s.queue, p) : \E v \in Waits(t.queue, p) : Same(z, v)
      /\ \A v \in Waits(t.queue, p) : v.prio = pri /\ \E z \in Waits(s.queue, p) : Same(z, v)
  <2> DEFINE Q == s.queue
             T == t.queue
  <2>1. UniqueEntries(Q)
    BY <1>1 DEF Shaped
  <2>2. \A h \in Resource : h # g => T[h] = Q[h]
    BY DEF PromotedTo
  <2>3. g \in Resource => RaisedQueue(Q[g], T[g], p, pri)
    BY <1>8
  <2>4. \A h \in Resource : \A w \in Q[h] : w.proc = p => h = g
    BY <1>7
  <2> HIDE DEF Q, T
  <2>5. /\ UniqueEntries(T)
        /\ \A q : q # p => Waits(T, q) = Waits(Q, q)
        /\ \A z \in Waits(Q, p) : \E v \in Waits(T, p) : Same(z, v)
        /\ \A v \in Waits(T, p) : v.prio = pri /\ \E z \in Waits(Q, p) : Same(z, v)
    BY <2>1, <2>2, <2>3, <2>4, RaisedWaits
  <2>. QED BY <2>5 DEF Q, T
<1>10. Shaped(t)
  BY <1>1, <1>2, <1>5, <1>9 DEF Shaped
<1>11. Others(s, t, p)
  <2> SUFFICES ASSUME NEW q \in Process \ {p} PROVE Own(t, q) = Own(s, q)
    BY DEF Others
  <2>1. /\ t.status[q] = s.status[q] /\ t.prio[q] = s.prio[q] /\ t.call[q] = s.call[q]
        /\ t.timers[q] = s.timers[q] /\ t.ticket[q] = s.ticket[q] /\ t.joins[q] = s.joins[q]
        /\ Facts(t.agenda, q) = Facts(s.agenda, q) /\ Waits(t.queue, q) = Waits(s.queue, q)
        /\ Lists(t.waiters, q) = Lists(s.waiters, q)
    BY <1>2, <1>5, <1>9
  <2>. QED BY <2>1 DEF Own
<1>12. /\ y.status = x.status /\ y.prio = pri /\ y.call = x.call /\ y.timers = x.timers
       /\ y.ticket = x.ticket /\ y.joins = x.joins /\ y.lists = x.lists
       /\ x.facts = Facts(s.agenda, p) /\ y.facts = Facts(t.agenda, p)
       /\ x.waits = Waits(s.queue, p) /\ y.waits = Waits(t.queue, p)
       /\ x.status = s.status[p]
  BY <1>2, OwnIs
<1>13. x = Own(s, p) /\ y = Own(t, p)
  OBVIOUS
<1> HIDE DEF x, y, due
<1>14. Promoted(x, y)
  BY <1>5, <1>6, <1>9, <1>12 DEF Promoted
<1>15. /\ Sound(y) /\ Placed(x) => Placed(y)
       /\ Sound(y)
       /\ \A h : Tells(x, h) => Tells(y, h)
       /\ Reachable(x) => Reachable(y)
  BY <1>3, <1>14, PromotedView
<1>16. \A q \in Process \ {p} : Apart(y, Own(s, q)) /\ Apart(Own(s, q), y)
  <2>1. \A q \in Process \ {p} : Apart(x, Own(s, q)) /\ Apart(Own(s, q), x)
    BY <1>1, <1>13 DEF Core
  <2>. QED BY <1>12, <2>1 DEF Apart
<1>17. Core(t, {})
  <2>1. /\ Sound(Own(t, p)) /\ (p \in {} \/ Placed(Own(t, p)))
        /\ \A q \in Process \ {p} : /\ Apart(Own(t, p), Own(s, q))
                                    /\ Apart(Own(s, q), Own(t, p))
    BY <1>3, <1>13, <1>15, <1>16
  <2>2. \A q \in Own(t, p).lists : \/ q \in Own(s, p).lists
                                   \/ s.status[q] # "finished"
    BY <1>12, <1>13
  <2>3. t.status[p] = "finished" => s.status[p] = "finished"
    BY <1>2
  <2>. QED BY <1>1, <1>10, <1>11, <2>1, <2>2, <2>3, LocalCore
<1>18. Served(t, open)
  <2>1. \A w \in Own(t, p).waits : \E v \in Own(s, p).waits : v.guard = w.guard
    BY <1>13, <1>14 DEF Promoted, Same
  <2>2. \A h \in Resource \ open : Tells(Own(s, p), h) => Tells(Own(t, p), h)
    BY <1>13, <1>15
  <2>. QED BY <1>1, <1>2, <1>11, <2>1, <2>2, LocalServed
<1>19. Awake(t, out)
  <2>1. /\ Awake(t, out \cup {p})
        /\ t.status[p] # "running" \/ Reachable(Own(t, p)) => Awake(t, out \ {p})
    BY <1>1, <1>11, LocalAwake
  <2>2. CASE p \in out
    <3>1. out \cup {p} = out
      BY <2>2
    <3>. QED BY <2>1, <3>1
  <2>3. CASE p \notin out
    <3>1. t.status[p] # "running" \/ Reachable(Own(t, p))
      BY <1>1, <1>2, <1>13, <1>15, <2>3 DEF Awake
    <3>2. Awake(t, out \ {p})
      BY <2>1, <3>1
    <3>. QED BY <3>2 DEF Awake
  <2>. QED BY <2>2, <2>3
<1>. QED BY <1>17, <1>18, <1>19 DEF Fine

LEMMA SetPriorityFine ==
  ASSUME Fit(sys), Settled(sys, {}), NEW p \in Process, NEW q \in Process,
         NEW pri \in Ranks[q], SetPriority(p, q, pri)
  PROVE  Settled(sys', {})
<1> DEFINE g == sys.ticket[q].guard
           mine == IF g = NoOne THEN {} ELSE Entries(sys, g, sys.ticket[q].key)
           due == TimerEvents(sys, q, sys.timers[q])
           holds == /\ g = NoOne \/ mine # {}
                    /\ \A k \in sys.timers[q] : TimerEvents(sys, q, {k}) # {}
           prio == [sys.prio EXCEPT ![q] = pri]
           agenda == {IF e \in due THEN [e EXCEPT !.prio = pri] ELSE e : e \in sys.agenda}
           queue == [h \in Resource |->
                       IF h # g THEN sys.queue[h]
                       ELSE {IF w \in mine THEN [w EXCEPT !.prio = pri] ELSE w : w \in sys.queue[h]}]
           t == [[[sys EXCEPT !.prio = prio] EXCEPT !.agenda = agenda] EXCEPT !.queue = queue]
           out == {sys.running}
           open == {}
           u == Asserted(t, holds, "priority_set")
<1>1. Steady(sys) /\ Fine(sys, {}, open, out) /\ Core(sys, {})
  BY DEF Fit, Good, Settled, Fine
<1>2. sys' = u
  <2>1. sys' = PrioritySet(sys, q, pri)
    BY SameCalls DEF SetPriority, Reprioritized
  <2>2. PrioritySet(sys, q, pri) = u
    BY DEF PrioritySet
  <2>. QED BY <2>1, <2>2
<1> HIDE DEF holds
<1>3. Calm(sys, PrioritySet(sys, q, pri))
  BY <1>1, ClientPriorities, PrioritySetCalm
<1>4. /\ g \in Resource \cup {NoOne}
      /\ g \in Resource => AllOf(sys, q, g, mine)
      /\ g \notin Resource => Own(sys, q).waits = {}
      /\ mine # {} => \A h : ~Tells(Own(sys, q), h)
      /\ \A h \in Resource : Tells(Own(sys, q), h) => h = g
  BY <1>1, TicketEntry
<1>5. PromotedTo(sys, t, q, g, mine, due, pri)
  <2>1. agenda = Raise(sys.agenda, due, pri)
    BY DEF Raise
  <2>2. \A h \in Resource : queue[h] = IF h # g THEN sys.queue[h] ELSE Raise(sys.queue[h], mine, pri)
    BY DEF Raise
  <2>3. prio[q] = pri /\ \A r \in Process \ {q} : prio[r] = sys.prio[r]
    BY <1>1 DEF Steady
  <2> HIDE DEF agenda, queue, prio, g, mine, due
  <2>4. /\ t.agenda = agenda /\ t.queue = queue /\ t.prio = prio
        /\ t.status = sys.status /\ t.call = sys.call /\ t.timers = sys.timers
        /\ t.ticket = sys.ticket /\ t.joins = sys.joins /\ t.waiters = sys.waiters
        /\ t.holder = sys.holder /\ t.failed = sys.failed
    BY <1>1 DEF Steady, Fields
  <2> HIDE DEF t
  <2>. QED BY <2>1, <2>2, <2>3, <2>4 DEF PromotedTo
<1> HIDE DEF t, g, mine, open, out
<1>6. Fine(t, {}, open, out)
  BY <1>1, <1>4, <1>5, PromotedFine
<1>7. DOMAIN t = Fields
  BY <1>1 DEF t, Steady
<1>8. Fine(u, {}, open, out)
  <2>1. Unseen(t, u) /\ u.holder = t.holder
    BY <1>7 DEF Asserted, Unseen, Fields
  <2>. QED BY <1>6, <2>1, UnseenFine
<1> HIDE DEF u
<1>9. sys'.running = sys.running /\ sys'.call = sys.call
  <2>1. sys' = PrioritySet(sys, q, pri)
    BY SameCalls DEF SetPriority, Reprioritized
  <2>. QED BY <1>3, <2>1 DEF Calm, Still
<1>10. Fine(sys', {}, {}, {sys.running})
  BY <1>2, <1>8 DEF open, out
<1>. QED BY <1>9, <1>10, RunsOn

-----------------------------------------------------------------------------
(* Changes for many processes, that only take away from what they wait for *)
(* or tell them.                                                           *)
KeptView(x, y) ==
  /\ Keeps(x, y) /\ Sound(y)
  /\ Placed(x) => Placed(y)
  /\ Reachable(x) => Reachable(y)
  /\ \A g : Tells(x, g) => Tells(y, g)

AllKept(s, t) == \A q \in Process : KeptView(Own(s, q), Own(t, q))

LEMMA AllKeptFine ==
  ASSUME NEW s, NEW dying, NEW open, NEW out, Fine(s, dying, open, out),
         NEW t, Shaped(t), AllKept(s, t)
  PROVE  /\ Core(t, dying) /\ Awake(t, out)
         /\ t.holder = s.holder => Served(t, open)
<1>1. Core(s, dying) /\ Served(s, open) /\ Awake(s, out)
  BY DEF Fine
<1>2. \A q \in Process : Sound(Own(t, q))
  BY DEF AllKept, KeptView
<1>3. \A q \in Process \ dying : Placed(Own(t, q))
  BY <1>1 DEF AllKept, KeptView, Core
<1>4. \A q \in Process : t.status[q] = s.status[q] /\ Own(t, q).lists \subseteq Own(s, q).lists
  <2> SUFFICES ASSUME NEW q \in Process
               PROVE  t.status[q] = s.status[q] /\ Own(t, q).lists \subseteq Own(s, q).lists
    OBVIOUS
  <2>1. Keeps(Own(s, q), Own(t, q))
    BY DEF AllKept, KeptView
  <2>. QED BY <2>1, OwnIs DEF Keeps
<1>5. \A p, q \in Process : p # q => Apart(Own(t, p), Own(t, q))
  <2> SUFFICES ASSUME NEW p \in Process, NEW q \in Process, p # q
               PROVE  Apart(Own(t, p), Own(t, q))
    OBVIOUS
  <2>1. Apart(Own(s, p), Own(s, q)) /\ Sound(Own(s, p))
    BY <1>1 DEF Core
  <2>2. Keeps(Own(s, p), Own(t, p)) /\ Keeps(Own(s, q), Own(t, q))
    BY DEF AllKept, KeptView
  <2> DEFINE x == Own(s, p)
             x1 == Own(t, p)
             y == Own(s, q)
             y1 == Own(t, q)
  <2>3. Apart(x, y) /\ Sound(x) /\ Keeps(x, x1) /\ Keeps(y, y1)
    BY <2>1, <2>2
  <2> HIDE DEF x, x1, y, y1
  <2>4. Apart(x1, y1)
    <3> SUFFICES ASSUME x1.ticket # NoTicket
                 PROVE  x1.ticket.key # y1.ticket.key /\ x1.ticket.key # y1.call.key
      BY DEF Apart
    <3>1. x1.ticket = x.ticket /\ x.ticket # NoTicket
      BY <2>3 DEF Keeps
    <3>2. x.ticket.key # 0 /\ x.ticket.key # y.ticket.key /\ x.ticket.key # y.call.key
      BY <2>3, <3>1 DEF Apart, Sound
    <3>3. y1.ticket.key \in {y.ticket.key, 0} /\ y1.call.key \in {y.call.key, 0}
      BY <2>3 DEF Keeps, NoTicket
    <3>. QED BY <3>1, <3>2, <3>3
  <2>. QED BY <2>4 DEF x1, y1
<1>6. \A p \in Process, q \in Process \ dying :
        q \in Own(t, p).lists => t.status[q] # "finished"
  BY <1>1, <1>4 DEF Core
<1>7. Core(t, dying)
  BY <1>2, <1>3, <1>5, <1>6 DEF Core
<1>8. Awake(t, out)
  BY <1>1, <1>4 DEF Awake, AllKept, KeptView
<1>9. ASSUME t.holder = s.holder PROVE Served(t, open)
  <2> SUFFICES ASSUME NEW g \in Resource \ open, Waited(t, g), t.holder[g] = NoOne
               PROVE  \E q \in Process : Tells(Own(t, q), g)
    BY DEF Served
  <2>1. Waited(s, g)
    BY DEF Waited, AllKept, KeptView, Keeps
  <2>2. PICK q \in Process : Tells(Own(s, q), g)
    BY <1>1, <1>9, <2>1 DEF Served
  <2>. QED BY <2>2 DEF AllKept, KeptView
<1>. QED BY <1>7, <1>8, <1>9

(* What one that is in the list of p is told when p ends.                  *)
Enlisted(x, p, news) ==
  /\ \A f \in news : f.kind = "process" /\ f.key = 0 /\ f.sig # "cancelled"
  /\ p \in x.lists => news # {}

LEMMA Awoken ==
  ASSUME NEW x, Sound(x), NEW y, NEW p, NEW news, Enlisted(x, p, news),
         y.status = x.status, y.prio = x.prio, y.call = x.call, y.timers = x.timers,
         y.ticket = x.ticket, y.joins = x.joins, y.waits = x.waits,
         y.facts = x.facts \cup news, y.lists = x.lists \ {p}
  PROVE  /\ KeptView(x, y) /\ p \notin y.lists
         /\ Bare(x) => Bare(y)
<1>0. /\ \A f \in news : f.kind = "process" /\ f.key = 0 /\ f.sig # "cancelled"
      /\ p \in x.lists => news # {}
  BY DEF Enlisted
<1>1. Keeps(x, y)
  BY DEF Keeps
<1>2. Sound(y)
  <2>1. TimersSet(y)
    BY <1>0 DEF Sound, TimersSet
  <2>2. FactsFit(y)
    BY <1>0 DEF Sound, FactsFit
  <2>3. WaitsOpen(y)
    BY <1>0 DEF Sound, WaitsOpen
  <2>. QED BY <2>1, <2>2, <2>3 DEF Sound
<1>3. Placed(x) => Placed(y)
  BY <1>0 DEF Placed
<1>4. \A g : Tells(x, g) => Tells(y, g)
  BY DEF Tells
<1>5. ASSUME Reachable(x) PROVE Reachable(y)
  <2> DEFINE c == x.call
  <2>0. y.call = c /\ y.timers = x.timers /\ y.ticket = x.ticket /\ y.joins = x.joins /\ y.waits = x.waits
    OBVIOUS
  <2>1. CASE \E f \in x.facts : f.kind \in Unchecked
    BY <2>1 DEF Reachable
  <2>2. CASE c.fn = "yield" \/ (c.fn = "hold" /\ c.key \in x.timers)
    BY <2>0, <2>2 DEF Reachable
  <2>3. CASE /\ c.fn = "join" /\ x.joins = c.on
             /\ c.on \in x.lists \/ \E f \in x.facts : f.kind = "process"
    <3>1. c.on \in y.lists \/ \E f \in y.facts : f.kind = "process"
      BY <1>0, <2>3
    <3>. QED BY <2>0, <2>3, <3>1 DEF Reachable
  <2>4. CASE /\ c.fn = "acquire" /\ x.ticket = [guard |-> c.on, key |-> c.key]
             /\ \/ \E w \in x.waits : w.guard = c.on /\ w.key = c.key
                \/ \E f \in x.facts : f.kind \in {"grant", "cancelled"} /\ f.key = c.key
    <3>1. \/ \E w \in y.waits : w.guard = c.on /\ w.key = c.key
          \/ \E f \in y.facts : f.kind \in {"grant", "cancelled"} /\ f.key = c.key
      BY <2>4
    <3>. QED BY <2>0, <2>4, <3>1 DEF Reachable
  <2>. QED BY <1>5, <2>1, <2>2, <2>3, <2>4 DEF Reachable
<1>6. Bare(x) => Bare(y)
  BY <1>0 DEF Bare, Unchecked
<1>. QED BY <1>1, <1>2, <1>3, <1>4, <1>5, <1>6 DEF KeptView

-----------------------------------------------------------------------------
(* Events that carry no key come to the agenda.                            *)
LEMMA MoreFacts ==
  ASSUME NEW A, NEW B
  PROVE  /\ \A q : Facts(A \cup B, q) = Facts(A, q) \cup Facts(B, q)
         /\ UniqueEvents(A) /\ (\A e \in B : e.key = 0) => UniqueEvents(A \cup B)
  BY DEF Facts, UniqueEvents

Unlisted(ws, us, p) ==
  us[p] = <<>> /\ \A r \in Process \ {p} : us[r] = ws[r]

LEMMA UnlistedLists ==
  ASSUME NEW ws, NEW p \in Process, NEW us, Unlisted(ws, us, p), Single(ws)
  PROVE  Single(us) /\ \A q \in Process : Lists(us, q) = Lists(ws, q) \ {p}
<1>1. \A q : Never(us[p], q)
  BY DEF Unlisted, Never
<1>2. Single(us)
  BY <1>1 DEF Single, Unlisted
<1>. QED BY <1>1, <1>2 DEF Lists, Unlisted

(* wake_process_waiters                                                    *)
LEMMA WakeWaitersFine ==
  ASSUME NEW s, Steady(s), NEW dying, NEW open, NEW out, Fine(s, dying, open, out),
         NEW p \in Process, NEW sig, sig # "cancelled"
  PROVE  LET t == WakeWaiters(s, p, sig)
         IN  /\ Fine(t, dying, open, out) /\ t.failed = s.failed
             /\ \A q \in Process : p \notin Own(t, q).lists
             /\ Bare(Own(s, p)) => Bare(Own(t, p))
<1> DEFINE ws == s.waiters[p]
           A == s.agenda
           Woken(i) == [kind |-> "process", proc |-> ws[i], key |-> 0,
                        sig |-> sig, delay |-> 0, prio |-> s.prio[ws[i]],
                        tag |-> Cardinality(A) + i]
           B == {Woken(i) : i \in 1..Len(ws)}
           lists == [s.waiters EXCEPT ![p] = <<>>]
           t == [[s EXCEPT !.agenda = A \cup B] EXCEPT !.waiters = lists]
<1>1. WakeWaiters(s, p, sig) = t
  BY DEF WakeWaiters
<1>2. Core(s, dying) /\ Shaped(s)
  BY DEF Fine, Core
<1>3. Unlisted(s.waiters, lists, p)
  BY DEF Unlisted, Steady, ListsOK
<1>4. Single(lists) /\ \A q \in Process : Lists(lists, q) = Lists(s.waiters, q) \ {p}
  <2> HIDE DEF lists
  <2>. QED BY <1>2, <1>3, UnlistedLists DEF Shaped
<1>5. \A e \in B : e.kind = "process" /\ e.key = 0 /\ e.sig = sig
  OBVIOUS
<1>6. \A q : \A f \in Facts(B, q) : f.kind = "process" /\ f.key = 0 /\ f.sig # "cancelled"
  <2> HIDE DEF B
  <2>. QED BY <1>5 DEF Facts, Fact
<1>7. \A q : ~Never(ws, q) => Facts(B, q) # {}
  <2> SUFFICES ASSUME NEW q, ~Never(ws, q) PROVE Facts(B, q) # {}
    OBVIOUS
  <2>1. PICK i \in 1..Len(ws) : ws[i] = q
    BY DEF Never
  <2>2. Woken(i) \in B /\ Woken(i).proc = q
    BY <2>1
  <2> HIDE DEF B, Woken
  <2>. QED BY <2>2 DEF Facts
<1>8. \A q \in Process : p \in Lists(s.waiters, q) => Facts(B, q) # {}
  <2> HIDE DEF B
  <2>. QED BY <1>7 DEF Lists
<1> HIDE DEF B, A, lists, ws, Woken
<1>9. /\ t.agenda = A \cup B /\ t.waiters = lists
      /\ t.status = s.status /\ t.prio = s.prio /\ t.call = s.call
      /\ t.timers = s.timers /\ t.ticket = s.ticket /\ t.joins = s.joins
      /\ t.queue = s.queue /\ t.holder = s.holder /\ t.failed = s.failed
  BY DEF Steady, Fields
<1> HIDE DEF t
<1>10. /\ \A q : Facts(t.agenda, q) = Facts(s.agenda, q) \cup Facts(B, q)
       /\ UniqueEvents(t.agenda)
  <2>1. /\ \A q : Facts(A \cup B, q) = Facts(A, q) \cup Facts(B, q)
        /\ UniqueEvents(A) /\ (\A e \in B : e.key = 0) => UniqueEvents(A \cup B)
    BY MoreFacts
  <2>2. UniqueEvents(A)
    BY <1>2 DEF Shaped, A
  <2>. QED BY <1>5, <1>9, <2>1, <2>2 DEF A
<1>11. Shaped(t)
  BY <1>2, <1>4, <1>9, <1>10 DEF Shaped
<1>12. ASSUME NEW q \in Process
       PROVE  /\ KeptView(Own(s, q), Own(t, q)) /\ p \notin Own(t, q).lists
              /\ Bare(Own(s, q)) => Bare(Own(t, q))
  <2> DEFINE x == Own(s, q)
             y == Own(t, q)
             news == Facts(B, q)
  <2>1. Sound(x)
    BY <1>2 DEF Core
  <2>2. /\ x.status = s.status[q] /\ x.prio = s.prio[q] /\ x.call = s.call[q]
        /\ x.timers = s.timers[q] /\ x.ticket = s.ticket[q] /\ x.joins = s.joins[q]
        /\ x.facts = Facts(s.agenda, q) /\ x.waits = Waits(s.queue, q)
        /\ x.lists = Lists(s.waiters, q)
    BY OwnIs
  <2>3. /\ y.status = t.status[q] /\ y.prio = t.prio[q] /\ y.call = t.call[q]
        /\ y.timers = t.timers[q] /\ y.ticket = t.ticket[q] /\ y.joins = t.joins[q]
        /\ y.facts = Facts(t.agenda, q) /\ y.waits = Waits(t.queue, q)
        /\ y.lists = Lists(t.waiters, q)
    BY OwnIs
  <2>4. Facts(t.agenda, q) = Facts(s.agenda, q) \cup news
    BY <1>10
  <2>5. Lists(t.waiters, q) = Lists(s.waiters, q) \ {p}
    BY <1>4, <1>9
  <2>6. p \in x.lists => news # {}
    BY <1>8, <2>2
  <2>7. \A f \in news : f.kind = "process" /\ f.key = 0 /\ f.sig # "cancelled"
    BY <1>6
  <2> HIDE DEF x, y, news
  <2>8. /\ y.status = x.status /\ y.prio = x.prio /\ y.call = x.call /\ y.timers = x.timers
        /\ y.ticket = x.ticket /\ y.joins = x.joins /\ y.waits = x.waits
    BY <1>9, <2>2, <2>3
  <2>9. y.facts = x.facts \cup news /\ y.lists = x.lists \ {p}
    BY <2>2, <2>3, <2>4, <2>5
  <2>10. Enlisted(x, p, news)
    BY <2>6, <2>7 DEF Enlisted
  <2>11. /\ KeptView(x, y) /\ p \notin y.lists
         /\ Bare(x) => Bare(y)
    BY <2>1, <2>8, <2>9, <2>10, Awoken
  <2>. QED BY <2>11 DEF x, y
<1>13. AllKept(s, t)
  BY <1>12 DEF AllKept
<1>14. /\ Core(t, dying) /\ Awake(t, out)
       /\ t.holder = s.holder => Served(t, open)
  BY <1>11, <1>13, AllKeptFine
<1>. QED BY <1>1, <1>9, <1>12, <1>14 DEF Fine, t

-----------------------------------------------------------------------------
(* The first in the queues of some guards are granted what they wait for.  *)
GrantFact(s, q) ==
  [kind |-> "grant", key |-> s.ticket[q].key, sig |-> "success", prio |-> s.prio[q]]

Grants(s, D, B) ==
  /\ \A g \in D : /\ s.queue[g] # {}
                  /\ \E e \in B : e.proc = Front(s, g).proc
  /\ \A e \in B : /\ \E g \in D : e.proc = Front(s, g).proc
                  /\ Fact(e) = GrantFact(s, e.proc)
  /\ \A e, f \in B : e.proc = f.proc => e = f

Granting(s, t, D, B) ==
  /\ t.agenda = s.agenda \cup B
  /\ \A g \in Resource :
       t.queue[g] = IF g \in D THEN Leave(s.queue[g], {Front(s, g)}) ELSE s.queue[g]
  /\ t.status = s.status /\ t.prio = s.prio /\ t.call = s.call
  /\ t.timers = s.timers /\ t.ticket = s.ticket /\ t.joins = s.joins
  /\ t.waiters = s.waiters

LEMMA FrontWaits ==
  ASSUME NEW s, Steady(s), NEW dying, Core(s, dying), NEW g \in Resource, s.queue[g] # {}
  PROVE  LET w == Front(s, g)
             q == w.proc
         IN  /\ w \in s.queue[g] /\ q \in Process
             /\ Wait(g, w) \in Own(s, q).waits
             /\ s.ticket[q].guard = g /\ s.ticket[q].key = w.key /\ w.key # 0
             /\ s.ticket[q] = [guard |-> g, key |-> s.ticket[q].key]
             /\ \A f \in Facts(s.agenda, q) : f.key # s.ticket[q].key
<1> DEFINE w == Front(s, g)
           q == w.proc
           x == Own(s, q)
<1>1. w \in s.queue[g] /\ q \in Process
  BY FrontProcess
<1> HIDE DEF w
<1>2. /\ Wait(g, w) \in Own(s, w.proc).waits
      /\ s.ticket[w.proc].guard = g /\ s.ticket[w.proc].key = w.key /\ w.key # 0
  BY <1>1, EntryWait
<1>3. WaitsOpen(x) /\ x.ticket = s.ticket[q] /\ x.facts = Facts(s.agenda, q)
  BY <1>1, OwnIs DEF Core, Sound
<1>4. Wait(g, w).guard = g /\ Wait(g, w).key = w.key
  BY DEF Wait
<1>5. /\ x.ticket = [guard |-> g, key |-> w.key]
      /\ \A f \in x.facts : f.key # w.key
  BY <1>2, <1>3, <1>4 DEF WaitsOpen
<1>. QED BY <1>1, <1>2, <1>3, <1>5 DEF w

LEMMA GrantsFacts ==
  ASSUME NEW s, NEW D, NEW B, Grants(s, D, B), NEW q
  PROVE  /\ (\E g \in D : Front(s, g).proc = q) => Facts(B, q) = {GrantFact(s, q)}
         /\ (\A g \in D : Front(s, g).proc # q) => Facts(B, q) = {}
<1>1. \A e \in B : e.proc = q => Fact(e) = GrantFact(s, q) /\ \E g \in D : Front(s, g).proc = q
  BY DEF Grants
<1>2. ASSUME NEW g \in D, Front(s, g).proc = q PROVE Facts(B, q) = {GrantFact(s, q)}
  <2>1. PICK e \in B : e.proc = q
    BY <1>2 DEF Grants
  <2> DEFINE h == GrantFact(s, q)
  <2>2. \A f \in B : f.proc = q => Fact(f) = h
    BY <1>1
  <2> HIDE DEF h
  <2>3. Facts(B, q) = {h}
    BY <2>1, <2>2 DEF Facts
  <2>. QED BY <2>3 DEF h
<1>3. ASSUME \A g \in D : Front(s, g).proc # q PROVE Facts(B, q) = {}
  BY <1>1, <1>3 DEF Facts
<1>. QED BY <1>2, <1>3

(* What is left of the entries of q.                                       *)
Ungranted(s, D, q) ==
  {z \in Waits(s.queue, q) : z.guard \in D => Front(s, z.guard).proc # q}

LEMMA GrantingShaped ==
  ASSUME NEW s, Steady(s), NEW dying, Core(s, dying), NEW D \in SUBSET Resource, NEW B,
         Grants(s, D, B), NEW t, Granting(s, t, D, B)
  PROVE  /\ Shaped(t)
         /\ \A q : Facts(t.agenda, q) = Facts(s.agenda, q) \cup Facts(B, q)
         /\ \A q : Waits(t.queue, q) = Ungranted(s, D, q)
<1> DEFINE gone == [g \in Resource |-> IF g \in D THEN {Front(s, g)} ELSE {}]
<1>1. /\ Shaped(s) /\ UniqueEvents(s.agenda) /\ UniqueEntries(s.queue)
      /\ \A g \in D : s.queue[g] # {}
  BY DEF Core, Shaped, Grants
<1>2. ASSUME NEW g \in Resource PROVE Left(s.queue[g], gone[g], t.queue[g])
  <2>1. QueueOK(s.queue[g])
    BY DEF Steady, QueuesOK
  <2>2. CASE g \in D
    <3>1. {Front(s, g)} \in SUBSET s.queue[g]
      BY <1>1, <2>2, FrontProcess
    <3>2. Left(s.queue[g], {Front(s, g)}, Leave(s.queue[g], {Front(s, g)}))
      BY <2>1, <3>1, LeaveLeft
    <3>. QED BY <2>2, <3>2 DEF Granting
  <2>3. CASE g \notin D
    <3>1. Left(s.queue[g], {}, s.queue[g])
      BY <2>1, LeaveLeft
    <3>. QED BY <2>3, <3>1 DEF Granting
  <2>. QED BY <2>2, <2>3
<1>3. \A g \in Resource : gone[g] = IF g \in D THEN {Front(s, g)} ELSE {}
  OBVIOUS
<1> HIDE DEF gone
<1>4. /\ UniqueEntries(t.queue)
      /\ \A q : Waits(t.queue, q) =
                  {z \in Waits(s.queue, q) : \A w \in gone[z.guard] : w.proc # q}
  BY <1>1, <1>2, WaitsLeft
<1>5. \A q : \A z \in Waits(s.queue, q) : z.guard \in Resource
  BY DEF Waits, Wait
<1>6. \A q : Waits(t.queue, q) = {z \in Waits(s.queue, q) :
                                    z.guard \in D => Front(s, z.guard).proc # q}
  <2> SUFFICES ASSUME NEW q, NEW z \in Waits(s.queue, q)
               PROVE  (\A w \in gone[z.guard] : w.proc # q)
                        <=> (z.guard \in D => Front(s, z.guard).proc # q)
    BY <1>4
  <2>1. gone[z.guard] = IF z.guard \in D THEN {Front(s, z.guard)} ELSE {}
    BY <1>3, <1>5
  <2>. QED BY <2>1
<1>7. \A q : Facts(t.agenda, q) = Facts(s.agenda, q) \cup Facts(B, q)
  BY MoreFacts DEF Granting
<1>8. ASSUME NEW e \in B, NEW f \in s.agenda, e.proc = f.proc
      PROVE  e.key # f.key
  <2>1. PICK g \in D : e.proc = Front(s, g).proc
    BY DEF Grants
  <2>2. \A h \in Facts(s.agenda, Front(s, g).proc) : h.key # s.ticket[Front(s, g).proc].key
    <3> DEFINE w == Front(s, g)
               q == w.proc
    <3>1. g \in Resource /\ s.queue[g] # {}
      BY <1>1
    <3>2. /\ w \in s.queue[g] /\ q \in Process
          /\ Wait(g, w) \in Own(s, q).waits
          /\ s.ticket[q].guard = g /\ s.ticket[q].key = w.key /\ w.key # 0
          /\ s.ticket[q] = [guard |-> g, key |-> s.ticket[q].key]
          /\ \A h \in Facts(s.agenda, q) : h.key # s.ticket[q].key
      BY <3>1, FrontWaits
    <3>. QED BY <3>2
  <2>3. Fact(f) \in Facts(s.agenda, f.proc)
    BY DEF Facts
  <2>4. Fact(e) = GrantFact(s, e.proc)
    BY DEF Grants
  <2>5. Fact(f).key = f.key /\ Fact(e).key = e.key
    BY DEF Fact
  <2>6. Fact(e).key = s.ticket[e.proc].key
    BY <2>4 DEF GrantFact
  <2>. QED BY <1>8, <2>1, <2>2, <2>3, <2>5, <2>6
<1>9. UniqueEvents(t.agenda)
  <2>1. \A e, f \in B : e.proc = f.proc => e = f
    BY DEF Grants
  <2>2. t.agenda = s.agenda \cup B
    BY DEF Granting
  <2>. QED BY <1>1, <1>8, <2>1, <2>2 DEF UniqueEvents
<1>10. Shaped(t)
  BY <1>1, <1>4, <1>9 DEF Shaped, Granting
<1>. QED BY <1>6, <1>7, <1>10 DEF Ungranted

-----------------------------------------------------------------------------
KeptSame(x, y) == KeptView(x, y) /\ (x.waits = {} => y = x)

LEMMA SameView ==
  ASSUME NEW x, Sound(x) PROVE KeptSame(x, x)
  BY DEF KeptSame, KeptView, Keeps

LEMMA GrantedView ==
  ASSUME NEW x, Sound(x), NEW y, NEW w \in x.waits, NEW p,
         y.facts = x.facts \cup {[kind |-> "grant", key |-> x.ticket.key,
                                  sig |-> "success", prio |-> p]},
         y.waits = {},
         y.status = x.status, y.prio = x.prio, y.call = x.call, y.timers = x.timers,
         y.ticket = x.ticket, y.joins = x.joins, y.lists = x.lists
  PROVE  KeptSame(x, y) /\ Tells(y, w.guard)
<1> DEFINE f == [kind |-> "grant", key |-> x.ticket.key, sig |-> "success", prio |-> p]
<1>1. f.key = x.ticket.key /\ f.kind = "grant" /\ f.sig = "success" /\ y.facts = x.facts \cup {f}
  OBVIOUS
<1> HIDE DEF f
<1>2. /\ Keeps(x, y) /\ Sound(y)
      /\ Placed(x) => Placed(y)
      /\ \A g : Tells(x, g) => Tells(y, g)
      /\ f.kind = "grant" => Tells(y, w.guard)
      /\ Reachable(x) => Reachable(y)
  BY <1>1, Notified
<1>. QED BY <1>1, <1>2 DEF KeptSame, KeptView

LEMMA GrantingView ==
  ASSUME NEW s, Steady(s), NEW dying, Core(s, dying), NEW D \in SUBSET Resource, NEW B,
         Grants(s, D, B), NEW t, Granting(s, t, D, B), NEW q \in Process
  PROVE  /\ KeptSame(Own(s, q), Own(t, q))
         /\ \A g \in D : Front(s, g).proc = q => Tells(Own(t, q), g)
<1> DEFINE x == Own(s, q)
           y == Own(t, q)
           F == Facts(B, q)
<1>1. Sound(x) /\ WaitsOpen(x)
  BY DEF Core, Sound
<1>2. /\ x.status = s.status[q] /\ x.prio = s.prio[q] /\ x.call = s.call[q]
      /\ x.timers = s.timers[q] /\ x.ticket = s.ticket[q] /\ x.joins = s.joins[q]
      /\ x.facts = Facts(s.agenda, q) /\ x.waits = Waits(s.queue, q)
      /\ x.lists = Lists(s.waiters, q) /\ DOMAIN x = ViewFields
  BY OwnIs
<1>3. /\ y.status = t.status[q] /\ y.prio = t.prio[q] /\ y.call = t.call[q]
      /\ y.timers = t.timers[q] /\ y.ticket = t.ticket[q] /\ y.joins = t.joins[q]
      /\ y.facts = Facts(t.agenda, q) /\ y.waits = Waits(t.queue, q)
      /\ y.lists = Lists(t.waiters, q) /\ DOMAIN y = ViewFields
  BY OwnIs
<1>4. /\ Shaped(t)
      /\ \A r : Facts(t.agenda, r) = Facts(s.agenda, r) \cup Facts(B, r)
      /\ \A r : Waits(t.queue, r) = Ungranted(s, D, r)
  BY GrantingShaped
<1>5. /\ (\E g \in D : Front(s, g).proc = q) => F = {GrantFact(s, q)}
      /\ (\A g \in D : Front(s, g).proc # q) => F = {}
  BY GrantsFacts
<1>6. ASSUME NEW g \in D, Front(s, g).proc = q
      PROVE  \E w \in x.waits : w.guard = g
  <2> DEFINE w == Front(s, g)
  <2>1. g \in Resource /\ s.queue[g] # {}
    BY DEF Grants
  <2>2. /\ w \in s.queue[g] /\ w.proc \in Process
        /\ Wait(g, w) \in Own(s, w.proc).waits
        /\ s.ticket[w.proc].guard = g /\ s.ticket[w.proc].key = w.key /\ w.key # 0
        /\ s.ticket[w.proc] = [guard |-> g, key |-> s.ticket[w.proc].key]
        /\ \A h \in Facts(s.agenda, w.proc) : h.key # s.ticket[w.proc].key
    BY <2>1, FrontWaits
  <2>3. Wait(g, w).guard = g
    BY DEF Wait
  <2>. QED BY <1>6, <2>2, <2>3
<1> HIDE DEF x, y, F
<1>7. y.facts = x.facts \cup F
  BY <1>2, <1>3, <1>4 DEF F
<1>8. y.waits = {z \in x.waits : z.guard \in D => Front(s, z.guard).proc # q}
  BY <1>2, <1>3, <1>4 DEF Ungranted
<1>9. /\ y.status = x.status /\ y.prio = x.prio /\ y.call = x.call
      /\ y.timers = x.timers /\ y.ticket = x.ticket /\ y.joins = x.joins
      /\ y.lists = x.lists
  BY <1>2, <1>3 DEF Granting
<1>10. CASE \A g \in D : Front(s, g).proc # q
  <2>1. y.facts = x.facts /\ y.waits = x.waits
    BY <1>5, <1>7, <1>8, <1>10
  <2>2. \A k \in ViewFields : y[k] = x[k]
    BY <1>9, <2>1 DEF ViewFields
  <2>3. y = x
    <3>1. x = [k \in ViewFields |-> x[k]] /\ y = [k \in ViewFields |-> y[k]]
      BY <1>2, <1>3, OwnIs DEF x, y, Own, ViewFields
    <3>. QED BY <2>2, <3>1
  <2>. QED BY <1>1, <1>10, <2>3, SameView DEF x, y
<1>11. CASE \E g \in D : Front(s, g).proc = q
  <2>1. PICK g \in D : Front(s, g).proc = q
    BY <1>11
  <2>2. PICK w \in x.waits : w.guard = g
    BY <1>6, <2>1
  <2>3. \A z \in x.waits : z.guard = g
    BY <1>1, <2>2, WaitIs
  <2>4. y.waits = {}
    BY <1>8, <2>1, <2>3
  <2>5. F = {[kind |-> "grant", key |-> x.ticket.key, sig |-> "success", prio |-> s.prio[q]]}
    BY <1>2, <1>5, <2>1 DEF GrantFact
  <2>6. y.facts = x.facts \cup {[kind |-> "grant", key |-> x.ticket.key,
                                 sig |-> "success", prio |-> s.prio[q]]}
    BY <1>7, <2>5
  <2>7. KeptSame(x, y) /\ Tells(y, w.guard)
    BY <1>1, <1>9, <2>4, <2>6, GrantedView
  <2>8. \A h \in D : Front(s, h).proc = q => h = g
    BY <1>6, <2>3
  <2>. QED BY <2>2, <2>7, <2>8 DEF x, y
<1>. QED BY <1>10, <1>11

LEMMA GrantingFine ==
  ASSUME NEW s, Steady(s), NEW dying, NEW open, NEW out, Fine(s, dying, open, out),
         NEW D \in SUBSET Resource, NEW B, Grants(s, D, B), NEW t, Granting(s, t, D, B),
         \A g \in Resource \ open :
           t.holder[g] = NoOne => s.holder[g] = NoOne \/ g \in D \/ s.queue[g] = {}
  PROVE  /\ Fine(t, dying, open, out)
         /\ \A q \in Process : Own(s, q).waits = {} => Own(t, q) = Own(s, q)
<1>1. Core(s, dying) /\ Served(s, open)
  BY DEF Fine
<1>2. ASSUME NEW q \in Process
      PROVE  /\ KeptSame(Own(s, q), Own(t, q))
             /\ \A g \in D : Front(s, g).proc = q => Tells(Own(t, q), g)
  BY <1>1, GrantingView
<1>3. AllKept(s, t)
  BY <1>2 DEF AllKept, KeptSame
<1>4. Shaped(t)
  <2>1. /\ Shaped(t)
        /\ \A q : Facts(t.agenda, q) = Facts(s.agenda, q) \cup Facts(B, q)
        /\ \A q : Waits(t.queue, q) = Ungranted(s, D, q)
    BY <1>1, GrantingShaped
  <2>. QED BY <2>1
<1>5. /\ Core(t, dying) /\ Awake(t, out)
      /\ t.holder = s.holder => Served(t, open)
  BY <1>3, <1>4, AllKeptFine
<1>6. Served(t, open)
  <2> SUFFICES ASSUME NEW g \in Resource \ open, Waited(t, g), t.holder[g] = NoOne
               PROVE  \E q \in Process : Tells(Own(t, q), g)
    BY DEF Served
  <2>1. Waited(s, g)
    BY <1>3 DEF Waited, AllKept, KeptView, Keeps
  <2>2. CASE g \in D
    <3>1. s.queue[g] # {}
      BY <2>2 DEF Grants
    <3>2. Front(s, g).proc \in Process
      BY <3>1, FrontProcess
    <3>. QED BY <1>2, <2>2, <3>2
  <2>3. CASE g \notin D
    <3>1. s.queue[g] # {}
      BY <2>1 DEF Waited, Own, Waits, Wait
    <3>2. s.holder[g] = NoOne
      BY <2>3, <3>1
    <3>3. PICK q \in Process : Tells(Own(s, q), g)
      BY <1>1, <2>1, <3>2 DEF Served
    <3>. QED BY <1>3, <3>3 DEF AllKept, KeptView
  <2>. QED BY <2>2, <2>3
<1>7. \A q \in Process : Own(s, q).waits = {} => Own(t, q) = Own(s, q)
  BY <1>2 DEF KeptSame
<1>. QED BY <1>5, <1>6, <1>7 DEF Fine

-----------------------------------------------------------------------------
(* cmi_process_drop_resources: the guards that have a queue, and the grant *)
(* that each place in the list makes.                                      *)
LEMMA DroppedFine ==
  ASSUME NEW s, Steady(s), NEW dying, NEW out, Fine(s, dying, {}, out),
         NEW p \in Process, NEW gone, Owned(s, gone)
  PROVE  LET t == Dropped(s, p)
         IN  /\ Fine(t, dying, {}, out)
             /\ \A q \in Process : Own(s, q).waits = {} => Own(t, q) = Own(s, q)
<1> DEFINE rs == s.held[p]
           A == s.agenda
           served == {i \in 1..Len(rs) : s.queue[rs[i]] # {}}
           Place(i) == Cardinality({j \in served : j <= i})
           Next1(i) == Front(s, rs[i]).proc
           Grant(i) == [kind |-> "grant", proc |-> Next1(i),
                        key |-> GuardKey(s, Next1(i), rs[i]), sig |-> "success",
                        delay |-> 0, prio |-> s.prio[Next1(i)],
                        tag |-> Cardinality(A) + Place(i)]
           dropped == {rs[i] : i \in 1..Len(rs)}
           B == {Grant(i) : i \in served}
           queue == [r \in Resource |-> IF r \in dropped /\ s.queue[r] # {}
                                        THEN Leave(s.queue[r], {Front(s, r)})
                                        ELSE s.queue[r]]
           holder == [r \in Resource |-> IF r \in dropped THEN NoOne ELSE s.holder[r]]
           holds == \A r \in dropped : s.holder[r] = p
           t == Dropped(s, p)
           D == {g \in dropped : s.queue[g] # {}}
<1>1. t = Asserted([s EXCEPT !.agenda = A \cup B, !.queue = queue, !.holder = holder,
                             !.held = [s.held EXCEPT ![p] = <<>>]], holds, "drop_holder")
  BY DEF Dropped, Steady, Fields
<1>2. rs \in Seq(Resource) /\ Len(rs) \in Nat
  BY DEF Steady, ListsOK
<1>3. \A i, j \in 1..Len(rs) : rs[i] = rs[j] => i = j
  <2> SUFFICES ASSUME NEW i \in 1..Len(rs), NEW j \in 1..Len(rs), rs[i] = rs[j]
               PROVE  i = j
    OBVIOUS
  <2>1. rs[i] \in Resource
    BY <1>2
  <2>2. ~Never(rs, rs[i])
    BY DEF Never
  <2>3. Once(rs, rs[i])
    BY <2>1, <2>2 DEF Owned
  <2>. QED BY <2>3 DEF Once
<1>4. /\ \A i \in 1..Len(rs) : rs[i] \in dropped /\ rs[i] \in Resource
      /\ \A r \in dropped : \E i \in 1..Len(rs) : rs[i] = r
  BY <1>2
<1>5. /\ \A i \in served : i \in 1..Len(rs) /\ s.queue[rs[i]] # {}
      /\ \A i \in 1..Len(rs) : s.queue[rs[i]] # {} => i \in served
  OBVIOUS
<1>6. D \in SUBSET Resource /\ \A g \in D : g \in dropped /\ s.queue[g] # {}
  BY <1>4
<1>7. Core(s, dying)
  BY DEF Fine
<1>8. ASSUME NEW i \in served
      PROVE  /\ Grant(i) \in B /\ Grant(i).proc = Next1(i)
             /\ Fact(Grant(i)) = GrantFact(s, Next1(i))
             /\ s.ticket[Next1(i)].guard = rs[i]
  <2> DEFINE g == rs[i]
             w == Front(s, g)
             q == w.proc
  <2>1. g \in Resource /\ s.queue[g] # {}
    BY <1>4, <1>5
  <2> HIDE DEF g, served, B
  <2>2. /\ w \in s.queue[g] /\ q \in Process
        /\ Wait(g, w) \in Own(s, q).waits
        /\ s.ticket[q].guard = g /\ s.ticket[q].key = w.key /\ w.key # 0
        /\ s.ticket[q] = [guard |-> g, key |-> s.ticket[q].key]
        /\ \A h \in Facts(s.agenda, q) : h.key # s.ticket[q].key
    BY <1>7, <2>1, FrontWaits
  <2>3. q = Next1(i) /\ GuardKey(s, q, g) = s.ticket[q].key
    BY <2>2 DEF GuardKey, g
  <2>4. Fact(Grant(i)) = GrantFact(s, Next1(i))
    BY <2>3 DEF Fact, GrantFact, g
  <2>. QED BY <2>2, <2>3, <2>4 DEF B, g
<1>9. \A e \in B : \E i \in served : e = Grant(i)
  OBVIOUS
<1> HIDE DEF served, Grant, B, Place, dropped, D
<1>10. Grants(s, D, B)
  <2>1. ASSUME NEW g \in D PROVE s.queue[g] # {} /\ \E e \in B : e.proc = Front(s, g).proc
    <3>1. PICK i \in 1..Len(rs) : rs[i] = g
      BY <1>4, <1>6
    <3>2. i \in served
      BY <1>5, <1>6, <3>1
    <3>. QED BY <1>6, <1>8, <3>1, <3>2
  <2>2. ASSUME NEW e \in B
        PROVE  (\E g \in D : e.proc = Front(s, g).proc) /\ Fact(e) = GrantFact(s, e.proc)
    <3>1. PICK i \in served : e = Grant(i)
      BY <1>9
    <3>2. rs[i] \in D
      BY <1>4, <1>5, <3>1 DEF D
    <3>. QED BY <1>8, <3>1, <3>2
  <2>3. ASSUME NEW e \in B, NEW f \in B, e.proc = f.proc PROVE e = f
    <3>1. PICK i \in served : e = Grant(i)
      BY <1>9
    <3>2. PICK j \in served : f = Grant(j)
      BY <1>9
    <3>3. rs[i] = rs[j]
      BY <1>8, <2>3, <3>1, <3>2
    <3>4. i = j
      BY <1>3, <1>5, <3>3
    <3>. QED BY <3>1, <3>2, <3>4
  <2>. QED BY <2>1, <2>2, <2>3 DEF Grants
<1>11. /\ t.agenda = A \cup B /\ t.queue = queue /\ t.holder = holder
       /\ t.status = s.status /\ t.prio = s.prio /\ t.call = s.call
       /\ t.timers = s.timers /\ t.ticket = s.ticket /\ t.joins = s.joins
       /\ t.waiters = s.waiters
  <2> HIDE DEF A, queue, holder, holds, t
  <2>. QED BY <1>1 DEF Asserted, Steady, Fields
<1> HIDE DEF t
<1>12. Granting(s, t, D, B)
  <2>1. \A g \in Resource : t.queue[g] = IF g \in D THEN Leave(s.queue[g], {Front(s, g)})
                                         ELSE s.queue[g]
    BY <1>11 DEF D
  <2>. QED BY <1>11, <2>1 DEF Granting
<1>13. \A g \in Resource \ {} :
         t.holder[g] = NoOne => s.holder[g] = NoOne \/ g \in D \/ s.queue[g] = {}
  BY <1>11 DEF D
<1> HIDE DEF A, rs, queue, holder
<1> DEFINE open == {}
<1>14. Fine(s, dying, open, out) /\ \A g \in Resource \ open :
         t.holder[g] = NoOne => s.holder[g] = NoOne \/ g \in D \/ s.queue[g] = {}
  BY <1>13
<1> HIDE DEF open
<1>15. /\ Fine(t, dying, open, out)
       /\ \A q \in Process : Own(s, q).waits = {} => Own(t, q) = Own(s, q)
  BY <1>6, <1>10, <1>12, <1>14, GrantingFine
<1>. QED BY <1>15 DEF t, open

-----------------------------------------------------------------------------
(* A process ends: it is dying until nothing is left of its waits.         *)
LEMMA FinishedFine ==
  ASSUME NEW s, Steady(s), NEW dying, NEW open, NEW out, Fine(s, dying, open, out),
         NEW p \in Process
  PROVE  LET t == Finished(s, p)
         IN  /\ Fine(t, dying \cup {p}, open, out \ {p})
             /\ t.status[p] = "finished" /\ t.call[p].fn = "none"
             /\ \A q \in Process \ {p} : t.status[q] = s.status[q] /\ t.call[q] = s.call[q]
             /\ \A q \in Process : Own(t, q).lists = Own(s, q).lists
             /\ Bare(Own(s, p)) => Bare(Own(t, p))
<1> DEFINE t == Finished(s, p)
           x == Own(s, p)
           y == Own(t, p)
           more == dying \cup {p}
<1>1. Core(s, dying) /\ Served(s, open) /\ Awake(s, out) /\ Shaped(s)
  BY DEF Fine, Core
<1>2. /\ t.agenda = s.agenda /\ t.prio = s.prio
      /\ t.timers = s.timers /\ t.ticket = s.ticket /\ t.joins = s.joins
      /\ t.queue = s.queue /\ t.waiters = s.waiters /\ t.holder = s.holder
      /\ t.status = [s.status EXCEPT ![p] = "finished"]
      /\ t.call = [s.call EXCEPT ![p] = Idle]
  BY DEF Finished, Steady, Fields
<1> HIDE DEF t
<1>3. /\ t.status[p] = "finished" /\ t.call[p] = Idle
      /\ \A q \in Process \ {p} : t.status[q] = s.status[q] /\ t.call[q] = s.call[q]
  BY <1>2 DEF Steady, CallsOK
<1>4. Idle.fn = "none" /\ Idle.key = 0
  BY DEF Idle
<1>5. Others(s, t, p)
  BY <1>2, <1>3 DEF Others, Own
<1>6. /\ y.status = "finished" /\ y.call = Idle /\ y.prio = x.prio /\ y.timers = x.timers
      /\ y.ticket = x.ticket /\ y.joins = x.joins
      /\ y.facts = x.facts /\ y.waits = x.waits /\ y.lists = x.lists
  <2>1. /\ x.prio = s.prio[p] /\ x.timers = s.timers[p] /\ x.ticket = s.ticket[p]
        /\ x.joins = s.joins[p] /\ x.facts = Facts(s.agenda, p)
        /\ x.waits = Waits(s.queue, p) /\ x.lists = Lists(s.waiters, p)
    BY OwnIs
  <2>2. /\ y.status = t.status[p] /\ y.call = t.call[p]
        /\ y.prio = t.prio[p] /\ y.timers = t.timers[p] /\ y.ticket = t.ticket[p]
        /\ y.joins = t.joins[p] /\ y.facts = Facts(t.agenda, p)
        /\ y.waits = Waits(t.queue, p) /\ y.lists = Lists(t.waiters, p)
    BY OwnIs
  <2> HIDE DEF x, y
  <2>. QED BY <1>2, <1>3, <2>1, <2>2
<1>7. Sound(x)
  BY <1>1 DEF Core
<1>8. \A q \in Process : Own(t, q).lists = Own(s, q).lists
  BY <1>2, OwnIs
<1>9. Shaped(t)
  BY <1>1, <1>2 DEF Shaped
<1>10. x = Own(s, p) /\ y = Own(t, p)
  OBVIOUS
<1> HIDE DEF x, y
<1>11. Sound(y)
  <2>1. TimersSet(y) /\ FactsFit(y) /\ WaitsOpen(y)
    BY <1>6, <1>7 DEF Sound, TimersSet, FactsFit, WaitsOpen
  <2>. QED BY <1>4, <1>6, <1>7, <2>1 DEF Sound
<1>12. ASSUME NEW q \in Process \ {p}
       PROVE  Apart(y, Own(s, q)) /\ Apart(Own(s, q), y)
  <2>1. Apart(x, Own(s, q)) /\ Apart(Own(s, q), x) /\ Sound(Own(s, q))
    BY <1>1, <1>10 DEF Core
  <2>2. y.call.key = 0 /\ y.ticket = x.ticket
    BY <1>4, <1>6
  <2>. QED BY <2>1, <2>2 DEF Apart, Sound
<1>13. Core(t, more)
  <2>1. \A q \in Process : Sound(Own(t, q))
    BY <1>1, <1>5, <1>10, <1>11 DEF Core, Others
  <2>2. \A q \in Process \ more : Placed(Own(t, q))
    BY <1>1, <1>5 DEF Core, Others
  <2>3. \A q, r \in Process : q # r => Apart(Own(t, q), Own(t, r))
    BY <1>1, <1>5, <1>10, <1>12 DEF Core, Others
  <2>4. \A q \in Process, r \in Process \ more :
          r \in Own(t, q).lists => t.status[r] # "finished"
    BY <1>1, <1>3, <1>8 DEF Core
  <2>. QED BY <1>9, <2>1, <2>2, <2>3, <2>4 DEF Core
<1>14. Served(t, open)
  <2>1. \A w \in y.waits : \E v \in x.waits : v.guard = w.guard
    BY <1>6
  <2>2. \A g \in Resource \ open : Tells(x, g) => Tells(y, g)
    BY <1>6 DEF Tells
  <2>. QED BY <1>1, <1>2, <1>5, <1>10, <2>1, <2>2, LocalServed
<1>15. Awake(t, out \ {p})
  BY <1>1, <1>3, <1>5 DEF Awake, Others
<1>16. Bare(x) => Bare(y)
  BY <1>6 DEF Bare
<1>. QED BY <1>3, <1>4, <1>8, <1>10, <1>13, <1>14, <1>15, <1>16 DEF Fine, t, more

(* One that nothing waits for and that waits for nothing is gone.          *)
LEMMA GoneFine ==
  ASSUME NEW t, NEW dying, NEW open, NEW out, NEW p \in Process,
         Fine(t, dying \cup {p}, open, out), Bare(Own(t, p)), t.call[p].fn = "none",
         \A q \in Process : p \notin Own(t, q).lists
  PROVE  Fine(t, dying, open, out)
<1> DEFINE y == Own(t, p)
<1>1. Core(t, dying \cup {p}) /\ Served(t, open) /\ Awake(t, out)
  BY DEF Fine
<1>2. Sound(y) /\ Bare(y)
  BY <1>1 DEF Core
<1>3. y.call.fn = "none"
  BY OwnIs
<1> HIDE DEF y
<1>4. /\ Keeps(y, y) /\ Sound(y)
      /\ Placed(y) => Placed(y)
      /\ y.call.fn = "none" => Placed(y)
  BY <1>2, Bared
<1>5. \A q \in Process \ dying : Placed(Own(t, q))
  BY <1>1, <1>3, <1>4 DEF Core, y
<1>6. Core(t, dying)
  BY <1>1, <1>5 DEF Core
<1>. QED BY <1>1, <1>6 DEF Fine

(* Nobody who is not alive has to be reached.                              *)
LEMMA DeadFine ==
  ASSUME NEW t, NEW open, NEW out, NEW p \in Process, Fine(t, {}, open, out),
         t.status[p] # "running"
  PROVE  Fine(t, {}, open, out \ {p})
  BY DEF Fine, Awake

-----------------------------------------------------------------------------
(* cmb_process_stop *)
LEMMA StopFine ==
  ASSUME Fit(sys), Settled(sys, {}), NEW p \in Process, NEW q \in Process, Stop(p, q)
  PROVE  Settled(sys', {})
<1> DEFINE none == {}
           dying == none \cup {q}
           out == {p}
           both == out \cup {q}
           a == Finished(sys, q)
           b == CancelAwaiteds(a, q)
           c == Dropped(b, q)
           d == WakeWaiters(c, q, "stopped")
<1>1. sys' = d /\ p # q /\ sys.running = p
  BY SameCalls DEF Stop, Calling
<1>2. /\ Steady(sys) /\ Owned(sys, {}) /\ Fine(sys, none, none, out)
      /\ sys.status[p] = "running" /\ sys.call[p].fn = "none"
  BY <1>1, CallerFree DEF Fit, Good
<1> HIDE DEF none, out
<1>3. /\ Fine(a, dying, none, out \ {q})
      /\ a.status[q] = "finished" /\ a.call[q].fn = "none"
      /\ \A r \in Process \ {q} : a.status[r] = sys.status[r] /\ a.call[r] = sys.call[r]
      /\ \A r \in Process : Own(a, r).lists = Own(sys, r).lists
      /\ Bare(Own(sys, q)) => Bare(Own(a, q))
  BY <1>2, FinishedFine
<1>4. Steady(a) /\ a.holder = sys.holder /\ a.held = sys.held /\ a.running = sys.running
  BY <1>2, FinishedSteady
<1>5. Fine(a, dying, none, out)
  BY <1>3, FineMore
<1>6. Owned(a, {q})
  BY <1>2, <1>3, <1>4 DEF Owned
<1> HIDE DEF a, dying
<1>7. /\ Fine(b, dying, none, both) /\ b.failed = a.failed
      /\ Bare(Own(b, q))
  BY <1>4, <1>5, CancelAwaitedsFine
<1>8. Calm(a, b)
  BY <1>4, CancelAwaitedsCalm
<1> HIDE DEF b, both
<1>9. /\ Steady(b) /\ Owned(b, {q}) /\ b.running = a.running /\ b.status = a.status
      /\ b.call = a.call
  BY <1>6, <1>8 DEF Calm, Still, Owners, Owned
<1>10. Freed(b, q, c)
  BY <1>9, DroppedFreed
<1>11. /\ Fine(c, dying, none, both)
       /\ \A r \in Process : Own(b, r).waits = {} => Own(c, r) = Own(b, r)
  <2>1. Fine(b, dying, {}, both)
    BY <1>7 DEF none
  <2>2. /\ Fine(c, dying, {}, both)
        /\ \A r \in Process : Own(b, r).waits = {} => Own(c, r) = Own(b, r)
    BY <1>9, <2>1, DroppedFine
  <2>. QED BY <2>2 DEF none
<1>12. Bare(Own(c, q))
  BY <1>7, <1>11 DEF Bare
<1>13. Steady(c) /\ c.running = b.running /\ c.call = b.call /\ c.status = b.status
  BY <1>10 DEF Freed
<1> HIDE DEF c
<1> DEFINE sig == "stopped"
           e == WakeWaiters(c, q, sig)
<1>14. sig # "cancelled" /\ d = e
  OBVIOUS
<1> HIDE DEF sig, d
<1>15. /\ Fine(e, dying, none, both) /\ e.failed = c.failed
       /\ \A r \in Process : q \notin Own(e, r).lists
       /\ Bare(Own(c, q)) => Bare(Own(e, q))
  BY <1>11, <1>13, <1>14, WakeWaitersFine
<1>16. Calm(c, e)
  BY <1>13, WakeWaitersCalm
<1> HIDE DEF e
<1>17. e.running = p /\ e.call = a.call /\ e.status = a.status
  BY <1>1, <1>4, <1>9, <1>13, <1>16 DEF Calm, Still, Owners
<1>18. Fine(e, none, none, both)
  BY <1>3, <1>12, <1>15, <1>17, GoneFine DEF dying
<1>19. Fine(e, {}, none, both \ {q})
  BY <1>3, <1>17, <1>18, DeadFine DEF none
<1>20. Fine(e, {}, {}, {p})
  BY <1>1, <1>19 DEF both, out, none
<1>21. RunnerIdle(e)
  BY <1>1, <1>2, <1>3, <1>17 DEF RunnerIdle
<1>. QED BY <1>1, <1>14, <1>17, <1>20, <1>21 DEF Settled

(* cmb_process_exit *)
LEMMA ExitFine ==
  ASSUME Fit(sys), Settled(sys, {}), NEW p \in Process, Exit(p)
  PROVE  Settled(sys', {})
<1> DEFINE none == {}
           dying == none \cup {p}
           out == {p}
           both == out \cup {p}
           sig == "success"
           a == Dropped(sys, p)
           b == CancelAwaiteds(a, p)
           c == WakeWaiters(b, p, sig)
           d == Finished(c, p)
           e == [d EXCEPT !.running = NoOne]
<1>1. sys' = e /\ sys.running = p
  BY SameCalls DEF Exit, Calling
<1>2. Steady(sys) /\ Owned(sys, {}) /\ Fine(sys, {}, {}, out)
  BY <1>1, CallerFree DEF Fit, Good
<1>3. sig # "cancelled"
  OBVIOUS
<1> HIDE DEF out, sig, e
<1>4. /\ Fine(a, {}, {}, out)
      /\ \A q \in Process : Own(sys, q).waits = {} => Own(a, q) = Own(sys, q)
  BY <1>2, DroppedFine
<1>5. Freed(sys, p, a)
  BY <1>2, DroppedFreed
<1>6. Steady(a) /\ Fine(a, none, none, out)
  BY <1>4, <1>5 DEF Freed
<1> HIDE DEF a, none
<1>7. /\ Fine(b, none, none, both) /\ b.failed = a.failed
      /\ Bare(Own(b, p))
  BY <1>6, CancelAwaitedsFine
<1>8. Steady(b)
  BY <1>6, CancelAwaitedsCalm DEF Calm
<1> HIDE DEF b, both
<1>9. /\ Fine(c, none, none, both) /\ c.failed = b.failed
      /\ \A q \in Process : p \notin Own(c, q).lists
      /\ Bare(Own(b, p)) => Bare(Own(c, p))
  BY <1>3, <1>7, <1>8, WakeWaitersFine
<1>10. Steady(c)
  BY <1>8, WakeWaitersCalm DEF Calm
<1> HIDE DEF c
<1>11. /\ Fine(d, dying, none, both \ {p})
       /\ d.status[p] = "finished" /\ d.call[p].fn = "none"
       /\ \A q \in Process \ {p} : d.status[q] = c.status[q] /\ d.call[q] = c.call[q]
       /\ \A q \in Process : Own(d, q).lists = Own(c, q).lists
       /\ Bare(Own(c, p)) => Bare(Own(d, p))
  BY <1>9, <1>10, FinishedFine
<1>12. Steady(d)
  BY <1>10, FinishedSteady
<1> HIDE DEF d
<1> DEFINE rest == both \ {p}
<1>13. Fine(d, dying, none, rest) /\ rest = {}
  BY <1>11 DEF both, out
<1> HIDE DEF rest
<1>14. Fine(d, none, none, rest)
  BY <1>7, <1>9, <1>11, <1>13, GoneFine DEF dying
<1>15. Unseen(d, e) /\ e.holder = d.holder /\ e.running = NoOne
  BY <1>12 DEF e, Unseen, Steady, Fields
<1>16. Fine(e, none, none, rest)
  BY <1>14, <1>15, UnseenFine
<1>17. Fine(e, {}, {}, {})
  BY <1>13, <1>16 DEF none
<1>18. Fine(e, {}, {}, {e.running})
  BY <1>17, FineMore
<1>19. RunnerIdle(e)
  BY <1>15, NullAssumption DEF RunnerIdle
<1>. QED BY <1>1, <1>18, <1>19 DEF Settled

-----------------------------------------------------------------------------
(* The initial states.                                                     *)
LEMMA FirstSettled ==
  ASSUME NEW s, NEW A, s.agenda = A,
         \A e \in A : e.kind = "start" /\ e.key = 0 /\ e.sig = "success",
         s.running = NoOne,
         s.status = [p \in Process |-> "initialized"],
         s.call = [p \in Process |-> Idle],
         s.timers = [p \in Process |-> {}],
         s.ticket = [p \in Process |-> NoTicket],
         s.joins = [p \in Process |-> NoOne],
         s.waiters = [p \in Process |-> <<>>],
         s.queue = [r \in Resource |-> {}]
  PROVE  Settled(s, {})
<1>1. ASSUME NEW p \in Process
      PROVE  LET x == Own(s, p)
             IN  /\ x.status = "initialized" /\ x.call = Idle /\ x.timers = {}
                 /\ x.ticket = NoTicket /\ x.joins = NoOne /\ x.waits = {} /\ x.lists = {}
                 /\ \A f \in x.facts : f.kind = "start" /\ f.key = 0 /\ f.sig = "success"
  <2> DEFINE x == Own(s, p)
  <2>1. /\ x.status = s.status[p] /\ x.call = s.call[p]
        /\ x.timers = s.timers[p] /\ x.ticket = s.ticket[p] /\ x.joins = s.joins[p]
        /\ x.facts = Facts(s.agenda, p) /\ x.waits = Waits(s.queue, p)
        /\ x.lists = Lists(s.waiters, p)
    BY OwnIs
  <2>2. \A f \in Facts(s.agenda, p) : f.kind = "start" /\ f.key = 0 /\ f.sig = "success"
    BY DEF Facts, Fact
  <2>3. Waits(s.queue, p) = {}
    BY DEF Waits
  <2>4. \A q \in Process : Never(s.waiters[q], p)
    BY DEF Never
  <2>5. Lists(s.waiters, p) = {}
    BY <2>4 DEF Lists
  <2> HIDE DEF x
  <2>6. x.status = "initialized" /\ x.call = Idle /\ x.timers = {}
    BY <2>1
  <2>. QED BY <2>1, <2>2, <2>3, <2>5, <2>6 DEF x
<1>2. Idle.fn = "none" /\ Idle.key = 0 /\ NoTicket.key = 0
  BY DEF Idle, NoTicket
<1>3. ASSUME NEW p \in Process PROVE Sound(Own(s, p)) /\ Placed(Own(s, p))
  <2> DEFINE x == Own(s, p)
  <2>1. /\ x.status = "initialized" /\ x.call = Idle /\ x.timers = {}
        /\ x.ticket = NoTicket /\ x.joins = NoOne /\ x.waits = {} /\ x.lists = {}
        /\ \A f \in x.facts : f.kind = "start" /\ f.key = 0 /\ f.sig = "success"
    BY <1>1
  <2> HIDE DEF x
  <2>2. TimersSet(x) /\ FactsFit(x) /\ WaitsOpen(x)
    BY <2>1 DEF TimersSet, FactsFit, WaitsOpen
  <2>3. Sound(x)
    BY <1>2, <2>1, <2>2 DEF Sound
  <2>4. Placed(x)
    BY <1>2, <2>1 DEF Placed
  <2>. QED BY <2>3, <2>4 DEF x
<1>4. Shaped(s)
  <2>1. UniqueEvents(s.agenda)
    BY DEF UniqueEvents
  <2>2. UniqueEntries(s.queue)
    BY DEF UniqueEntries
  <2>3. Single(s.waiters)
    BY DEF Single, Never
  <2>. QED BY <2>1, <2>2, <2>3 DEF Shaped
<1>5. Core(s, {})
  <2>1. \A p, q \in Process : p # q => Apart(Own(s, p), Own(s, q))
    BY <1>1 DEF Apart
  <2>2. \A p \in Process, q \in Process \ {} : q \in Own(s, p).lists => s.status[q] # "finished"
    BY <1>1
  <2>. QED BY <1>3, <1>4, <2>1, <2>2 DEF Core
<1>6. Served(s, {})
  BY <1>1 DEF Served, Waited
<1>7. Awake(s, {s.running})
  BY DEF Awake
<1>8. RunnerIdle(s)
  BY NullAssumption DEF RunnerIdle
<1>. QED BY <1>5, <1>6, <1>7, <1>8 DEF Settled, Fine

LEMMA InitSettled == Init => Settled(sys, {})
<1> SUFFICES ASSUME Init PROVE Settled(sys, {})
  OBVIOUS
<1>1. PICK order \in [Process -> 1..Cardinality(Process)] :
        sys =
          [agenda  |-> {[kind |-> "start", proc |-> p, key |-> 0,
                         sig |-> "success", delay |-> 0, prio |-> InitPrio[p],
                         tag |-> order[p]] : p \in Process},
           running |-> NoOne,
           status  |-> [p \in Process |-> "initialized"],
           prio    |-> InitPrio,
           call    |-> [p \in Process |-> Idle],
           timers  |-> [p \in Process |-> {}],
           ticket  |-> [p \in Process |-> NoTicket],
           joins   |-> [p \in Process |-> NoOne],
           waiters |-> [p \in Process |-> <<>>],
           queue   |-> [r \in Resource |-> {}],
           observers |-> [r \in Resource |-> <<>>],
           untold  |-> [p \in Process |-> {}],
           failed  |-> "none",
           holder  |-> [r \in Resource |-> NoOne],
           held    |-> [p \in Process |-> <<>>]]
  BY DEF Init
<1> DEFINE A == {[kind |-> "start", proc |-> p, key |-> 0,
                  sig |-> "success", delay |-> 0, prio |-> InitPrio[p],
                  tag |-> order[p]] : p \in Process}
<1>2. \A e \in A : e.kind = "start" /\ e.key = 0 /\ e.sig = "success"
  OBVIOUS
<1> HIDE DEF A
<1>3. /\ sys.agenda = A /\ sys.running = NoOne
      /\ sys.status = [p \in Process |-> "initialized"]
      /\ sys.call = [p \in Process |-> Idle]
      /\ sys.timers = [p \in Process |-> {}]
      /\ sys.ticket = [p \in Process |-> NoTicket]
      /\ sys.joins = [p \in Process |-> NoOne]
      /\ sys.waiters = [p \in Process |-> <<>>]
      /\ sys.queue = [r \in Resource |-> {}]
  BY <1>1 DEF A
<1>. QED BY <1>2, <1>3, FirstSettled

-----------------------------------------------------------------------------
(* What the invariant says of the events and of the queues.                *)
LEMMA FactEvent ==
  ASSUME NEW s, NEW p, NEW f \in Own(s, p).facts
  PROVE  \E e \in s.agenda : /\ e.proc = p /\ e.kind = f.kind /\ e.key = f.key
                             /\ e.sig = f.sig /\ e.prio = f.prio
<1>1. Own(s, p).facts = Facts(s.agenda, p)
  BY OwnIs
<1>. QED BY <1>1 DEF Facts, Fact

LEMMA EventFact ==
  ASSUME NEW s, NEW e \in s.agenda
  PROVE  \E f \in Own(s, e.proc).facts : /\ f.kind = e.kind /\ f.key = e.key
                                         /\ f.sig = e.sig /\ f.prio = e.prio
<1>1. Own(s, e.proc).facts = Facts(s.agenda, e.proc)
  BY OwnIs
<1>2. Fact(e) \in Facts(s.agenda, e.proc)
  BY DEF Facts
<1>3. /\ Fact(e).kind = e.kind /\ Fact(e).key = e.key
      /\ Fact(e).sig = e.sig /\ Fact(e).prio = e.prio
  BY DEF Fact
<1>. QED BY <1>1, <1>2, <1>3

LEMMA Ticketed ==
  ASSUME NEW x, Sound(x), Placed(x), x.ticket # NoTicket
  PROVE  /\ x.status = "running" /\ x.call.fn = "acquire"
         /\ x.call.on = x.ticket.guard /\ x.call.key = x.ticket.key
         /\ x.ticket.guard \in Resource /\ x.ticket.key # 0
  BY DEF Sound, Placed

LEMMA QueueEntry ==
  ASSUME NEW s, Steady(s), Core(s, {}), NEW g \in Resource, NEW w \in s.queue[g]
  PROVE  LET p == w.proc
         IN  /\ p \in Process /\ s.ticket[p] = [guard |-> g, key |-> w.key]
             /\ s.ticket[p] # NoTicket /\ w.prio = s.prio[p]
<1> DEFINE p == w.proc
           x == Own(s, p)
           z == Wait(g, w)
<1>1. p \in Process
  BY DEF Steady, QueuesOK, QueueOK, EntryOK
<1>2. /\ z \in Own(s, w.proc).waits
      /\ s.ticket[w.proc].guard = g /\ s.ticket[w.proc].key = w.key /\ w.key # 0
  BY <1>1, EntryWait
<1>3. WaitsOpen(x) /\ x.ticket = s.ticket[p] /\ x.prio = s.prio[p]
  BY <1>1, OwnIs DEF Core, Sound
<1>4. z.guard = g /\ z.key = w.key /\ z.prio = w.prio
  BY DEF Wait
<1> HIDE DEF x, z
<1>5. s.ticket[p] = [guard |-> g, key |-> w.key] /\ w.prio = s.prio[p]
  BY <1>2, <1>3, <1>4 DEF WaitsOpen, x
<1>. QED BY <1>1, <1>2, <1>5 DEF NoTicket

LEMMA SettledQueues == Fit(sys) /\ Settled(sys, {}) => QueueFaithful
<1> SUFFICES ASSUME Fit(sys), Settled(sys, {}), NEW g \in Resource, NEW w \in sys.queue[g]
             PROVE  /\ sys.ticket[w.proc] = [guard |-> g, key |-> w.key]
                    /\ sys.call[w.proc].on = g /\ sys.call[w.proc].key = w.key
                    /\ sys.status[w.proc] = "running"
                    /\ w.prio = sys.prio[w.proc]
  BY DEF QueueFaithful
<1> DEFINE p == w.proc
           x == Own(sys, p)
<1>1. Steady(sys) /\ Core(sys, {})
  BY DEF Fit, Good, Settled, Fine
<1>2. /\ p \in Process /\ sys.ticket[p] = [guard |-> g, key |-> w.key]
      /\ sys.ticket[p] # NoTicket /\ w.prio = sys.prio[p]
  BY <1>1, QueueEntry
<1>3. Sound(x) /\ Placed(x)
  BY <1>1, <1>2 DEF Core
<1>4. x.ticket = sys.ticket[p] /\ x.status = sys.status[p] /\ x.call = sys.call[p]
  BY OwnIs
<1> HIDE DEF x
<1>5. /\ x.status = "running" /\ x.call.fn = "acquire"
      /\ x.call.on = x.ticket.guard /\ x.call.key = x.ticket.key
      /\ x.ticket.guard \in Resource /\ x.ticket.key # 0
  BY <1>2, <1>3, <1>4, Ticketed
<1>. QED BY <1>2, <1>4, <1>5

LEMMA SettledTimers == Fit(sys) /\ Settled(sys, {}) => TimersFaithful
<1> SUFFICES ASSUME Fit(sys), Settled(sys, {}), NEW p \in Process
             PROVE  /\ \A k \in sys.timers[p] :
                         Cardinality(Kernel!TimerEvents(sys, p, {k})) = 1
                    /\ \A e \in sys.agenda :
                         e.kind = "time" /\ e.proc = p =>
                           e.key \in sys.timers[p] /\ e.prio = sys.prio[p]
  BY DEF TimersFaithful
<1> DEFINE x == Own(sys, p)
<1>1. UniqueEvents(sys.agenda) /\ TimersSet(x) /\ FactsFit(x)
  BY DEF Settled, Fine, Core, Shaped, Sound
<1>2. x.timers = sys.timers[p] /\ x.prio = sys.prio[p]
  BY OwnIs
<1>3. ASSUME NEW k \in sys.timers[p]
      PROVE  Cardinality(Kernel!TimerEvents(sys, p, {k})) = 1
  <2>1. k # 0 /\ \E f \in x.facts : f.kind = "time" /\ f.key = k
    BY <1>1, <1>2 DEF TimersSet
  <2>2. PICK f \in x.facts : f.kind = "time" /\ f.key = k
    BY <2>1
  <2>3. PICK e \in sys.agenda : /\ e.proc = p /\ e.kind = f.kind /\ e.key = f.key
                                /\ e.sig = f.sig /\ e.prio = f.prio
    BY <2>2, FactEvent
  <2>4. \A h \in sys.agenda : h.proc = p /\ h.key = k => h = e
    BY <1>1, <2>1, <2>2, <2>3 DEF UniqueEvents
  <2>5. Kernel!TimerEvents(sys, p, {k}) = {e}
    BY <2>2, <2>3, <2>4 DEF Kernel!TimerEvents
  <2>. QED BY <2>5, FS_Singleton
<1>4. ASSUME NEW e \in sys.agenda, e.kind = "time", e.proc = p
      PROVE  e.key \in sys.timers[p] /\ e.prio = sys.prio[p]
  <2>1. PICK f \in x.facts : /\ f.kind = e.kind /\ f.key = e.key
                             /\ f.sig = e.sig /\ f.prio = e.prio
    BY <1>4, EventFact
  <2>. QED BY <1>1, <1>2, <1>4, <2>1 DEF FactsFit
<1>. QED BY <1>3, <1>4

LEMMA SettledServed == Fit(sys) /\ Settled(sys, {}) => NoStrandedWaiter
<1> SUFFICES ASSUME Fit(sys), Settled(sys, {}), NEW g \in Resource, Stranded(g)
             PROVE  FALSE
  BY DEF NoStrandedWaiter
<1>1. Steady(sys) /\ Core(sys, {}) /\ Served(sys, {})
  BY DEF Fit, Good, Settled, Fine
<1>2. sys.queue[g] # {} /\ sys.holder[g] = NoOne /\ ~GrantUnderway(g)
  BY DEF Stranded, IsAvailable
<1>3. Waited(sys, g)
  BY <1>1, <1>2, QueueWaited
<1>4. PICK q \in Process : Tells(Own(sys, q), g)
  BY <1>1, <1>2, <1>3 DEF Served
<1> DEFINE x == Own(sys, q)
<1>5. Sound(x) /\ Placed(x)
  BY <1>1 DEF Core
<1>6. x.ticket = sys.ticket[q] /\ x.status = sys.status[q]
  BY OwnIs
<1>7. PICK f \in x.facts : f.kind = "grant" /\ x.ticket = [guard |-> g, key |-> f.key]
  BY <1>4 DEF Tells
<1>8. PICK e \in sys.agenda : /\ e.proc = q /\ e.kind = f.kind /\ e.key = f.key
                              /\ e.sig = f.sig /\ e.prio = f.prio
  BY <1>7, FactEvent
<1> HIDE DEF x
<1>9. x.ticket # NoTicket
  <2>1. x.ticket.guard = g /\ NoTicket.guard = NoOne /\ g # NoOne
    BY <1>7, NullAssumption DEF NoTicket
  <2>. QED BY <2>1
<1>10. /\ x.status = "running" /\ x.call.fn = "acquire"
       /\ x.call.on = x.ticket.guard /\ x.call.key = x.ticket.key
       /\ x.ticket.guard \in Resource /\ x.ticket.key # 0
  BY <1>5, <1>9, Ticketed
<1>11. Kernel!AwaitingKey(sys, q, e.key)
  BY <1>6, <1>7, <1>8, <1>10 DEF Kernel!AwaitingKey
<1>12. GrantUnderway(g)
  <2>1. e.kind = "grant" /\ e.proc = q /\ sys.ticket[q].guard = g /\ sys.status[q] = "running"
    BY <1>6, <1>7, <1>8, <1>10
  <2>. QED BY <1>11, <2>1 DEF GrantUnderway
<1>. QED BY <1>2, <1>12

-----------------------------------------------------------------------------
LEMMA Occurs ==
  ASSUME NEW ws \in Seq(Process), NEW x
  PROVE  /\ Once(ws, x) => Kernel!Occurrence(ws, x) # {}
         /\ Never(ws, x) => Kernel!Occurrence(ws, x) = {}
<1>1. Len(ws) \in Nat
  OBVIOUS
<1>2. ASSUME Once(ws, x) PROVE Kernel!Occurrence(ws, x) # {}
  <2>1. PICK i \in 1..Len(ws) : ws[i] = x /\ \A j \in 1..Len(ws) : ws[j] = x => j = i
    BY <1>2 DEF Once
  <2>2. \A k \in 1..(i - 1) : ws[k] # x
    BY <1>1, <2>1
  <2>3. i \in Kernel!Occurrence(ws, x)
    BY <2>1, <2>2 DEF Kernel!Occurrence
  <2>. QED BY <2>3
<1>3. Never(ws, x) => Kernel!Occurrence(ws, x) = {}
  BY DEF Never, Kernel!Occurrence
<1>. QED BY <1>2, <1>3

LEMMA SettledReached == Fit(sys) /\ Settled(sys, {}) => NoLostProcess
<1> SUFFICES ASSUME Fit(sys), Settled(sys, {}), NEW p \in Process,
                    sys.status[p] = "running", sys.running # p
             PROVE  LET c == sys.call[p]
                    IN  \/ Underway(p, Kernel!Unchecked)
                        \/ c.fn = "yield"
                        \/ /\ c.fn = "hold"
                           /\ c.key \in sys.timers[p]
                           /\ Kernel!TimerEvents(sys, p, {c.key}) # {}
                        \/ /\ c.fn = "join"
                           /\ sys.joins[p] = c.on
                           /\ \/ Kernel!Occurrence(sys.waiters[c.on], p) # {}
                              \/ Underway(p, {"process"})
                        \/ /\ c.on \in Resource
                           /\ sys.ticket[p] = [guard |-> c.on, key |-> c.key]
                           /\ \/ Kernel!Entries(sys, c.on, c.key) # {}
                              \/ \E e \in sys.agenda :
                                   /\ e.kind \in {"grant", "cancelled"}
                                   /\ e.proc = p /\ e.key = c.key
  BY DEF NoLostProcess
<1> DEFINE c == sys.call[p]
           x == Own(sys, p)
<1>1. Steady(sys) /\ Core(sys, {}) /\ Shaped(sys) /\ Sound(x) /\ Reachable(x)
  BY DEF Fit, Good, Settled, Fine, Core, Awake
<1>2. /\ x.call = c /\ x.timers = sys.timers[p] /\ x.joins = sys.joins[p]
      /\ x.ticket = sys.ticket[p] /\ x.waits = Waits(sys.queue, p)
      /\ x.lists = Lists(sys.waiters, p)
  BY OwnIs
<1>3. ASSUME NEW f \in x.facts
      PROVE  \E e \in sys.agenda : e.proc = p /\ e.kind = f.kind /\ e.key = f.key
  BY FactEvent
<1>4. CallOK(c)
  BY <1>1 DEF Steady, CallsOK
<1> HIDE DEF x, c
<1>5. CASE \E f \in x.facts : f.kind \in Unchecked
  <2>1. Underway(p, Kernel!Unchecked)
    BY <1>3, <1>5 DEF Underway, Kernel!Unchecked, Unchecked
  <2>. QED BY <2>1
<1>6. CASE c.fn = "yield"
  BY <1>6 DEF c
<1>7. CASE c.fn = "hold" /\ c.key \in x.timers
  <2>1. PICK f \in x.facts : f.kind = "time" /\ f.key = c.key
    BY <1>1, <1>7 DEF Sound, TimersSet
  <2>2. PICK e \in sys.agenda : e.proc = p /\ e.kind = f.kind /\ e.key = f.key
    BY <1>3, <2>1
  <2>3. e \in Kernel!TimerEvents(sys, p, {c.key})
    BY <2>1, <2>2 DEF Kernel!TimerEvents
  <2>. QED BY <1>2, <1>7, <2>3 DEF c
<1>8. CASE /\ c.fn = "join" /\ x.joins = c.on
           /\ c.on \in x.lists \/ \E f \in x.facts : f.kind = "process"
  <2>1. CASE c.on \in x.lists
    <3>1. c.on \in Process /\ ~Never(sys.waiters[c.on], p)
      BY <1>2, <2>1 DEF Lists
    <3>2. Once(sys.waiters[c.on], p)
      BY <1>1, <3>1 DEF Shaped, Single
    <3>3. sys.waiters[c.on] \in Seq(Process)
      BY <1>1, <3>1 DEF Steady, ListsOK
    <3>4. Kernel!Occurrence(sys.waiters[c.on], p) # {}
      BY <3>2, <3>3, Occurs
    <3>. QED BY <1>2, <1>8, <3>4 DEF c
  <2>2. CASE \E f \in x.facts : f.kind = "process"
    <3>1. Underway(p, {"process"})
      BY <1>3, <2>2 DEF Underway
    <3>. QED BY <1>2, <1>8, <3>1 DEF c
  <2>. QED BY <1>8, <2>1, <2>2
<1>9. CASE /\ c.fn = "acquire" /\ x.ticket = [guard |-> c.on, key |-> c.key]
           /\ \/ \E w \in x.waits : w.guard = c.on /\ w.key = c.key
              \/ \E f \in x.facts : f.kind \in {"grant", "cancelled"} /\ f.key = c.key
  <2>1. c.on \in Resource
    BY <1>4, <1>9 DEF CallOK
  <2>2. CASE \E w \in x.waits : w.guard = c.on /\ w.key = c.key
    <3>1. PICK z \in Waits(sys.queue, p) : z.guard = c.on /\ z.key = c.key
      BY <1>2, <2>2
    <3>2. PICK g \in Resource : \E w \in sys.queue[g] : z = Wait(g, w)
      BY DEF Waits
    <3>3. PICK w \in sys.queue[g] : z = Wait(g, w)
      BY <3>2
    <3>4. w \in Kernel!Entries(sys, c.on, c.key)
      BY <3>1, <3>3 DEF Wait, Kernel!Entries
    <3>. QED BY <1>2, <1>9, <2>1, <3>4 DEF c
  <2>3. CASE \E f \in x.facts : f.kind \in {"grant", "cancelled"} /\ f.key = c.key
    <3>1. \E e \in sys.agenda : /\ e.kind \in {"grant", "cancelled"}
                                /\ e.proc = p /\ e.key = c.key
      BY <1>3, <2>3
    <3>. QED BY <1>2, <1>9, <2>1, <3>1 DEF c
  <2>. QED BY <1>9, <2>2, <2>3
<1>. QED BY <1>1, <1>2, <1>5, <1>6, <1>7, <1>8, <1>9 DEF Reachable

LEMMA SettledGone == Fit(sys) /\ Settled(sys, {}) => FinishedIsGone
<1> SUFFICES ASSUME Fit(sys), Settled(sys, {}), NEW p \in Process,
                    sys.status[p] = "finished"
             PROVE  /\ sys.timers[p] = {} /\ sys.ticket[p] = Kernel!NoTicket
                    /\ sys.joins[p] = NoOne
                    /\ sys.waiters[p] = <<>>
                    /\ \A q \in Process : Kernel!Occurrence(sys.waiters[q], p) = {}
                    /\ \A g \in Resource : \A w \in sys.queue[g] : w.proc # p
                    /\ ~Underway(p, {"time", "preempt", "resume"})
  BY DEF FinishedIsGone
<1> DEFINE x == Own(sys, p)
<1>1. Steady(sys) /\ Core(sys, {}) /\ Sound(x) /\ Placed(x)
  BY DEF Fit, Good, Settled, Fine, Core
<1>2. /\ x.status = "finished" /\ x.timers = sys.timers[p] /\ x.joins = sys.joins[p]
      /\ x.ticket = sys.ticket[p] /\ x.lists = Lists(sys.waiters, p)
  BY OwnIs
<1>3. sys.waiters \in [Process -> Seq(Process)]
  BY <1>1 DEF Steady, ListsOK
<1>4. ASSUME NEW e \in sys.agenda, e.proc = p
      PROVE  \E f \in x.facts : f.kind = e.kind /\ f.key = e.key
  <2>1. PICK f \in Own(sys, e.proc).facts : /\ f.kind = e.kind /\ f.key = e.key
                                            /\ f.sig = e.sig /\ f.prio = e.prio
    BY EventFact
  <2>. QED BY <1>4, <2>1
<1>5. \A q \in Process : p \in Own(sys, q).lists => sys.status[p] # "finished"
  BY <1>1 DEF Core
<1> HIDE DEF x
<1>6. /\ x.call.fn = "none" /\ x.timers = {}
      /\ \A f \in x.facts : f.kind \notin {"preempt", "resume"}
  BY <1>1, <1>2 DEF Placed
<1>7. x.ticket = NoTicket
  <2>1. x.ticket # NoTicket => x.call.fn = "acquire"
    BY <1>1, Ticketed
  <2>. QED BY <1>6, <2>1
<1>8. x.joins = NoOne
  BY <1>1, <1>6 DEF Placed
<1>9. x.lists = {}
  BY <1>1, <1>2, <1>8, NullAssumption DEF Sound, Lists
<1>10. \A q \in Process : Kernel!Occurrence(sys.waiters[q], p) = {}
  <2> SUFFICES ASSUME NEW q \in Process
               PROVE  Kernel!Occurrence(sys.waiters[q], p) = {}
    OBVIOUS
  <2>1. Never(sys.waiters[q], p)
    BY <1>2, <1>9 DEF Lists
  <2>. QED BY <1>3, <2>1, Occurs
<1>11. sys.waiters[p] = <<>>
  <2> DEFINE ws == sys.waiters[p]
  <2>1. ws \in Seq(Process)
    BY <1>3
  <2>2. ASSUME NEW q \in Process PROVE Never(ws, q)
    <3>1. Own(sys, q).lists = Lists(sys.waiters, q)
      BY OwnIs
    <3>. QED BY <1>5, <3>1 DEF Lists
  <2> HIDE DEF ws
  <2>3. \A i \in 1..Len(ws) : ws[i] \in Process
    BY <2>1
  <2>4. Len(ws) = 0
    BY <2>1, <2>2, <2>3 DEF Never
  <2>5. ws = <<>>
    BY <2>1, <2>4
  <2>. QED BY <2>5 DEF ws
<1>12. ASSUME NEW g \in Resource, NEW w \in sys.queue[g] PROVE w.proc # p
  <2> DEFINE r == w.proc
  <2>1. /\ r \in Process /\ sys.ticket[r] = [guard |-> g, key |-> w.key]
        /\ sys.ticket[r] # NoTicket /\ w.prio = sys.prio[r]
    BY <1>1, QueueEntry
  <2>. QED BY <1>2, <1>7, <2>1
<1>13. ~Underway(p, {"time", "preempt", "resume"})
  <2>1. \A f \in x.facts : f.kind = "time" => f.key \in x.timers
    BY <1>1 DEF Sound, FactsFit
  <2>. QED BY <1>4, <1>6, <2>1 DEF Underway
<1>14. Kernel!NoTicket = NoTicket
  BY DEF NoTicket, Kernel!NoTicket
<1>. QED BY <1>2, <1>6, <1>7, <1>8, <1>10, <1>11, <1>12, <1>13, <1>14

-----------------------------------------------------------------------------
(* The assertions that an event other than the end of a join may fail are  *)
(* none of those of a priority change or of the end of a join.             *)
Quiet(s) == s.failed \notin {"priority_set", "wakeup_event_process"}

LEMMA QuietSet ==
  ASSUME NEW s, Steady(s), Quiet(s), NEW x
  PROVE  /\ Quiet([s EXCEPT !.agenda = x]) /\ Quiet([s EXCEPT !.queue = x])
         /\ Quiet([s EXCEPT !.timers = x]) /\ Quiet([s EXCEPT !.ticket = x])
         /\ Quiet([s EXCEPT !.joins = x]) /\ Quiet([s EXCEPT !.waiters = x])
         /\ Quiet([s EXCEPT !.status = x])
         /\ \A y, z : Quiet([s EXCEPT !.call = x, !.running = y])
         /\ \A y, z : Quiet([s EXCEPT !.running = x, !.call = y, !.untold = z])
  BY DEF Quiet, Steady, Fields

LEMMA AssertedQuiet ==
  ASSUME NEW s, Steady(s), Quiet(s), NEW holds,
         NEW name \in {"coroutine_start", "guard_wait", "guard_signal"}
  PROVE  Quiet(Asserted(s, holds, name))
  BY DEF Asserted, Quiet, Steady, Fields

LEMMA ReturnQuiet ==
  ASSUME NEW s, Steady(s), Quiet(s), NEW p, NEW sig
  PROVE  Quiet(Return(s, p, sig))
  BY DEF Return, Quiet, Steady, Fields

LEMMA BlockQuiet ==
  ASSUME NEW s, Steady(s), Quiet(s), NEW p, NEW fn, NEW on, NEW key
  PROVE  Quiet(Block(s, p, fn, on, key))
  BY DEF Block, Quiet, Steady, Fields

LEMMA SignalQuiet ==
  ASSUME NEW s, Steady(s), Quiet(s), NEW g \in Resource
  PROVE  Quiet(Signal(s, g))
<1>1. Signal(s, g) = Granted(s, g)
  BY DEF Steady, Signal
<1>2. CASE s.queue[g] = {} \/ ~IsAvailable(s, g, Front(s, g).proc)
  BY <1>1, <1>2 DEF Granted
<1>3. CASE ~(s.queue[g] = {} \/ ~IsAvailable(s, g, Front(s, g).proc))
  <2> DEFINE w == Front(s, g)
             p == w.proc
             t == [s EXCEPT !.queue[g] = Leave(@, {w})]
             k == GuardKey(s, p, g)
             u == Schedule(t, "grant", p, k, "success", 0, s.prio[p])
  <2>1. Granted(s, g) = Asserted(u, k # 0, "guard_signal")
    BY <1>3 DEF Granted
  <2>2. u.failed = s.failed /\ "failed" \in DOMAIN u
    BY DEF Schedule, Steady, Fields
  <2> HIDE DEF u, k
  <2>3. Quiet(Asserted(u, k # 0, "guard_signal"))
    BY <2>2 DEF Asserted, Quiet
  <2>. QED BY <1>1, <2>1, <2>3
<1>. QED BY <1>2, <1>3

LEMMA GuardResumeQuiet ==
  ASSUME NEW s, Steady(s), Quiet(s), NEW p \in Process, NEW sig, s.call[p].on \in Resource
  PROVE  Quiet(GuardResume(s, p, sig))
<1> DEFINE g == s.call[p].on
           mine == Entries(s, g, s.call[p].key)
           t == RemoveTicket(s, p, g)
           u == [t EXCEPT !.queue[g] = Leave(@, mine)]
<1>1. GuardResume(s, p, sig) =
        IF sig = "success" THEN Asserted(t, mine = {}, "guard_wait")
        ELSE IF mine # {} THEN u ELSE IF sig # "cancelled" THEN Signal(t, g) ELSE t
  BY DEF GuardResume
<1>2. Steady(t)
  <2> DEFINE x == IF s.ticket[p].guard = g THEN NoTicket ELSE s.ticket[p]
             y == [s.ticket EXCEPT ![p] = x]
  <2>1. t = [s EXCEPT !.ticket = y]
    BY DEF RemoveTicket
  <2>2. TicketOK(x) /\ TicketsOK(s.ticket)
    BY DEF TicketOK, NoTicket, Steady, TicketsOK
  <2>3. TicketsOK(y)
    BY <2>2 DEF TicketsOK
  <2> HIDE DEF x, y, t
  <2>. QED BY <2>1, <2>3, TicketSet DEF Calm
<1>3. Quiet(t)
  BY DEF RemoveTicket, Quiet, Steady, Fields
<1>4. Quiet(Signal(t, g))
  <2> HIDE DEF t
  <2>. QED BY <1>2, <1>3, SignalQuiet
<1>5. Quiet(u)
  <2> HIDE DEF t, mine
  <2>. QED BY <1>2, <1>3 DEF Quiet, Steady, Fields
<1>6. Quiet(Asserted(t, mine = {}, "guard_wait"))
  <2> HIDE DEF t, mine
  <2>. QED BY <1>2, <1>3 DEF Asserted, Quiet, Steady, Fields
<1> HIDE DEF t, u, mine
<1>. QED BY <1>1, <1>3, <1>4, <1>5, <1>6

LEMMA ContinuedQuiet ==
  ASSUME NEW s, Steady(s), Quiet(s), NEW p \in Process, NEW sig
  PROVE  Quiet(Continued(s, p, sig))
<1> DEFINE r == s.call[p].on
<1>1. Quiet(Return(s, p, sig))
  BY ReturnQuiet
<1>2. Quiet(Return(Grab(s, p, r), p, "success"))
  BY DEF Grab, Return, Quiet, Steady, Fields
<1>3. Quiet(GuardWait(s, p, "acquire", r))
  BY DEF GuardWait, AddTicket, Block, Quiet, Steady, Fields
<1>. QED BY <1>1, <1>2, <1>3 DEF Continued, AcquireLoop

LEMMA ResumedQuiet ==
  ASSUME NEW s, Steady(s), Quiet(s), NEW p \in Process, NEW sig
  PROVE  Quiet(Resumed(s, p, sig))
<1> DEFINE c == s.call[p]
<1>1. CallOK(c)
  BY DEF Steady, CallsOK
<1>2. CASE c.fn = "hold"
  <2> DEFINE t == IF sig = "success" THEN s ELSE TimerCancel(s, p, c.key)
  <2>1. Resumed(s, p, sig) = Return(t, p, sig)
    BY <1>2, SameCalls DEF Resumed
  <2>2. Steady(t)
    BY TimerCancelCalm DEF Calm
  <2>3. Quiet(t)
    BY DEF TimerCancel, CancelEvents, Quiet, Steady, Fields
  <2> HIDE DEF t
  <2>. QED BY <2>1, <2>2, <2>3, ReturnQuiet
<1>3. CASE c.fn = "join"
  <2> DEFINE x == Unlink(s.waiters[c.on], p)
             t == [s EXCEPT !.waiters[c.on] = x,
                            !.joins[p] = IF @ = c.on THEN NoOne ELSE @]
  <2>1. Resumed(s, p, sig) = Return(t, p, sig)
    BY <1>3, SameCalls DEF Resumed
  <2> HIDE DEF x
  <2>2. Quiet(Return(t, p, sig))
    BY DEF Return, Quiet, Steady, Fields
  <2>. QED BY <2>1, <2>2
<1>4. CASE c.fn \in {"yield", "none"}
  <2>1. Resumed(s, p, sig) = Return(s, p, sig)
    BY <1>4, SameCalls DEF Resumed
  <2>. QED BY <2>1, ReturnQuiet
<1>5. CASE c.fn \notin {"hold", "join", "yield", "none"}
  <2> DEFINE t == GuardResume(s, p, sig)
  <2>1. Resumed(s, p, sig) = Continued(t, p, sig)
    BY <1>5, SameCalls DEF Resumed
  <2>2. c.on \in Resource
    BY <1>1, <1>5 DEF CallOK
  <2>3. Steady(t)
    BY <2>2, GuardResumeCalm DEF Calm
  <2>4. Quiet(t)
    BY <2>2, GuardResumeQuiet
  <2> HIDE DEF t
  <2>. QED BY <2>1, <2>3, <2>4, ContinuedQuiet
<1>. QED BY <1>2, <1>3, <1>4, <1>5

LEMMA CancelAwaitedsQuiet ==
  ASSUME NEW s, Steady(s), Quiet(s), NEW p \in Process
  PROVE  Quiet(CancelAwaiteds(s, p))
<1> DEFINE t == Relieved(s, p)
           g == s.ticket[p].guard
<1>1. g \in Resource \cup {NoOne}
  BY DEF Steady, TicketsOK, TicketOK
<1>2. Quiet(t)
  BY DEF Relieved, CancelEvents, Quiet, Steady, Fields
<1>3. Steady(t)
  BY RelievedCalm DEF Calm
<1>4. CancelAwaiteds(s, p) = t \/ (g # NoOne /\ CancelAwaiteds(s, p) = Signal(t, g))
  BY CancelAwaitedsIs
<1> HIDE DEF t, g
<1>5. g # NoOne => Quiet(Signal(t, g))
  BY <1>1, <1>2, <1>3, SignalQuiet
<1>. QED BY <1>2, <1>4, <1>5

LEMMA ExecutedQuiet ==
  ASSUME NEW s, Steady(s), Quiet(s), s.agenda # {}, First(s.agenda).kind # "process"
  PROVE  Quiet(Executed(s))
<1> DEFINE e == First(s.agenda)
           p == e.proc
           t == Dequeue(s)
<1>1. Executed(s) =
        CASE e.kind = "start" -> StartEvent(t, e.proc)
          [] e.kind = "time" -> WakeupTime(t, e.proc, e.key, e.sig)
          [] e.kind \in {"grant", "cancelled"} -> WakeupGuard(t, e.proc, e.key, e.sig)
          [] e.kind = "process" -> WakeupProcess(t, e.proc, e.sig)
          [] e.kind = "interrupt" -> WakeupInterrupt(t, e.proc, e.sig)
          [] e.kind \in {"preempt", "resume"} -> ResumedIfAlive(t, e.proc, e.sig)
  BY SameCalls DEF Executed
<1>2. Steady(t) /\ p \in Process /\ e.kind \in Kinds
  BY DequeueCalm DEF Calm, EventOK
<1>3. Quiet(t)
  BY DEF Dequeue, Quiet, Steady, Fields
<1>4. e.kind # "process"
  OBVIOUS
<1> HIDE DEF e, p, t
<1>5. \A sig : Quiet(ResumedIfAlive(t, p, sig))
  BY <1>2, <1>3, ResumedQuiet DEF ResumedIfAlive
<1>6. Quiet(StartEvent(t, p))
  <2> DEFINE u == Return([t EXCEPT !.status[p] = "running"], p, "success")
  <2>1. StartEvent(t, p) = Asserted(u, t.status[p] # "running", "coroutine_start")
    BY SameCalls DEF StartEvent
  <2>2. u.failed = t.failed /\ "failed" \in DOMAIN u
    BY <1>2 DEF Return, Steady, Fields
  <2> HIDE DEF u
  <2>. QED BY <1>3, <2>1, <2>2 DEF Asserted, Quiet
<1>7. \A key, sig : Quiet(WakeupTime(t, p, key, sig))
  <2> TAKE key, sig
  <2> DEFINE x == t.timers[p] \ {key}
             u == [t EXCEPT !.timers = [t.timers EXCEPT ![p] = x]]
  <2>1. WakeupTime(t, p, key, sig) = t \/ WakeupTime(t, p, key, sig) = ResumedIfAlive(u, p, sig)
    BY DEF WakeupTime
  <2>2. Steady(u) /\ Quiet(u)
    BY <1>2, <1>3, FreeSet, QuietSet DEF Calm
  <2> HIDE DEF u
  <2>3. Quiet(ResumedIfAlive(u, p, sig))
    BY <1>2, <2>2, ResumedQuiet DEF ResumedIfAlive
  <2>. QED BY <1>3, <2>1, <2>3
<1>8. \A key, sig : Quiet(WakeupGuard(t, p, key, sig))
  BY <1>3, <1>5 DEF WakeupGuard
<1>9. \A sig : Quiet(WakeupInterrupt(t, p, sig))
  <2> TAKE sig
  <2> DEFINE u == CancelAwaiteds(t, p)
  <2>1. WakeupInterrupt(t, p, sig) = t \/ WakeupInterrupt(t, p, sig) = Resumed(u, p, sig)
    BY SameCalls DEF WakeupInterrupt
  <2>2. Steady(u) /\ Quiet(u)
    BY <1>2, <1>3, CancelAwaitedsCalm, CancelAwaitedsQuiet DEF Calm
  <2> HIDE DEF u
  <2>3. Quiet(Resumed(u, p, sig))
    BY <1>2, <2>2, ResumedQuiet
  <2>. QED BY <1>3, <2>1, <2>3
<1>. QED BY <1>1, <1>2, <1>4, <1>5, <1>6, <1>7, <1>8, <1>9 DEF p, Kinds
-----------------------------------------------------------------------------
(* Every step.                                                             *)
LEMMA ClientFine ==
  ASSUME Fit(sys), Settled(sys, {}), NEW p \in Process, Client(p)
  PROVE  Settled(sys', {})
<1>1. CASE \E r \in Resource : Acquire(p, r)
  BY <1>1, AcquireFine
<1>2. CASE \E r \in Resource : Preempt(p, r)
  BY <1>2, PreemptFine
<1>3. CASE \E r \in Resource : Release(p, r)
  BY <1>3, ReleaseFine
<1>4. CASE \E d \in Duration : Hold(p, d)
  BY <1>4, HoldFine
<1>5. CASE Yield(p)
  BY <1>5, YieldFine
<1>6. CASE \E d \in Duration : SetTimer(p, d)
  BY <1>6, SetTimerFine
<1>7. CASE ClearTimers(p)
  BY <1>7, ClearTimersFine
<1>8. CASE \E q \in Process, pri \in Urgency : Interrupt(p, q, pri)
  BY <1>8, InterruptFine
<1>9. CASE \E q \in Process : Resume(p, q)
  BY <1>9, ResumeFine
<1>10. CASE \E q \in Process : Stop(p, q)
  BY <1>10, StopFine
<1>11. CASE \E q \in Process : Start(p, q)
  BY <1>11, StartFine
<1>12. CASE Exit(p)
  BY <1>12, ExitFine
<1>13. CASE \E q \in Process : \E pri \in Ranks[q] : SetPriority(p, q, pri)
  BY <1>13, SetPriorityFine
<1>14. CASE \E q \in Process : Join(p, q)
  BY <1>14, JoinFine
<1>15. CASE \E q \in Process, g \in Resource : Cancel(p, q, g)
  BY <1>15, CancelFine
<1>. QED BY <1>1, <1>2, <1>3, <1>4, <1>5, <1>6, <1>7, <1>8, <1>9, <1>10, <1>11,
            <1>12, <1>13, <1>14, <1>15 DEF Client, ProcessCall

LEMMA Running ==
  ASSUME NEW p \in Process, Client(p) PROVE sys.failed = "none"
  BY DEF Client, ProcessCall, Acquire, Preempt, Release, Hold, Yield, SetTimer,
         ClearTimers, Interrupt, Resume, Stop, Start, Exit, SetPriority, Join, Cancel,
         Calling

(* The inductive invariant: after an assertion has failed there is no      *)
(* program any more of which to say anything, but what these two find wrong *)
(* has not disturbed anything.                                           *)
SysSettled == Fit(sys) /\ (NoOtherAbort => Settled(sys, {}))

LEMMA NextSettled == SysSettled /\ [Next]_sys => SysSettled'
<1> SUFFICES ASSUME SysSettled, [Next]_sys PROVE SysSettled'
  OBVIOUS
<1>1. Fit(sys) /\ Fit(sys')
  BY NextFit DEF SysSettled
<1>2. ASSUME NoOtherAbort' PROVE Settled(sys', {})
  <2>1. CASE Dispatch
    <3>1. /\ sys' = Executed(sys) /\ sys.agenda # {} /\ sys.running = NoOne
          /\ sys.failed = "none"
      BY <2>1 DEF Dispatch, Dispatching
    <3>2. Steady(sys) /\ Settled(sys, {}) /\ Quiet(sys)
      BY <1>1, <3>1 DEF SysSettled, Fit, Good, NoOtherAbort, Quiet
    <3> DEFINE t == Executed(sys)
    <3>3. t.failed = "none" \/ First(sys.agenda).kind = "process" => Settled(t, {})
      BY <3>1, <3>2, ExecutedFine
    <3>4. First(sys.agenda).kind # "process" => Quiet(t)
      BY <3>1, <3>2, ExecutedQuiet
    <3>. QED BY <1>2, <3>1, <3>3, <3>4 DEF NoOtherAbort, Quiet
  <2>2. CASE \E p \in Process : Client(p)
    <3>1. PICK p \in Process : Client(p)
      BY <2>2
    <3>2. Settled(sys, {})
      BY <3>1, Running DEF SysSettled, NoOtherAbort
    <3>. QED BY <1>1, <3>1, <3>2, ClientFine
  <2>3. CASE UNCHANGED sys
    BY <1>2, <2>3 DEF SysSettled, NoOtherAbort
  <2>. QED BY <2>1, <2>2, <2>3 DEF Next
<1>. QED BY <1>1, <1>2 DEF SysSettled

LEMMA SpecSettled == Spec => []SysSettled
<1>1. Init => SysSettled
  BY InitFit, InitSettled DEF SysSettled
<1>2. SysSettled /\ [Next]_sys => SysSettled'
  BY NextSettled
<1>. QED BY <1>1, <1>2, PTL DEF Spec

(* Unless an assertion other than the two of NoOtherAbort has failed, every *)
(* entry in the queue of a resource is the present wait of a live process  *)
(* at its present priority, and the timers of a process are those that are *)
(* scheduled, one event each: cmb_process_priority_set,                    *)
(* cmi_process_cancel_awaiteds and the wakeups always change both records, *)
(* with any number of processes and resources.                             *)
THEOREM AwaitablesFaithfulCorrect == Spec => [](NoOtherAbort => AwaitablesFaithful)
<1>1. SysSettled => (NoOtherAbort => AwaitablesFaithful)
  BY SettledQueues, SettledTimers DEF SysSettled, NoOtherAbort, AwaitablesFaithful
<1>. QED BY <1>1, SpecSettled, PTL

(* Under the same condition nobody waits for a resource that is free unless*)
(* a grant is on its way to a process that still waits for it: the wakeup  *)
(* of the front waiter is handed on by whoever leaves the queue between    *)
(* the signal and its resumption.                                          *)
THEOREM NoStrandedWaiterCorrect == Spec => [](NoOtherAbort => NoStrandedWaiter)
<1>1. SysSettled => (NoOtherAbort => NoStrandedWaiter)
  BY SettledServed DEF SysSettled, NoOtherAbort
<1>. QED BY <1>1, SpecSettled, PTL

(* Under the same condition every blocked process that is alive is in the  *)
(* list, the queue or the agenda from which its call will be ended.        *)
THEOREM NoLostProcessCorrect == Spec => [](NoOtherAbort => NoLostProcess)
<1>1. SysSettled => (NoOtherAbort => NoLostProcess)
  BY SettledReached DEF SysSettled, NoOtherAbort
<1>. QED BY <1>1, SpecSettled, PTL

(* Under the same condition a process that has finished, by its exit or by *)
(* a stop, waits nowhere, and no timer, preemption or resumption is        *)
(* scheduled for it.                                                       *)
THEOREM FinishedIsGoneCorrect == Spec => [](NoOtherAbort => FinishedIsGone)
<1>1. SysSettled => (NoOtherAbort => FinishedIsGone)
  BY SettledGone DEF SysSettled, NoOtherAbort
<1>. QED BY <1>1, SpecSettled, PTL
=============================================================================
