------------------------------ MODULE ProofLemmas ------------------------------
(***************************************************************************)
(* What the proofs about several components need of numbers, sequences     *)
(* and recursive functions.                                                *)
(***************************************************************************)
EXTENDS Integers, FiniteSets, SequencesExt, SequenceTheorems, FiniteSetTheorems,
        TLAPS

-----------------------------------------------------------------------------
(* Multiples.                                                              *)

LEMMA Products ==
  ASSUME NEW d \in Nat \ {0}, NEW m \in Int, NEW n \in Int
  PROVE  /\ m * d \in Int /\ (m + 1) * d = m * d + d /\ (m - 1) * d = m * d - d
         /\ m * d <= n * d <=> m <= n
         /\ m * d < n * d <=> m < n
PROOF
<1>1. m * d \in Int /\ (m + 1) * d = m * d + d /\ (m - 1) * d = m * d - d
  OBVIOUS
<1>2. ASSUME NEW i \in Int, NEW j \in Int, i <= j PROVE i * d <= j * d
  <2>1. j - i \in Nat /\ j = i + (j - i)
    BY <1>2
  <2>2. (j - i) * d \in Nat /\ j * d = i * d + (j - i) * d /\ i * d \in Int
    BY <2>1
  <2>3. QED
    BY <2>2
<1>3. ASSUME NEW i \in Int, NEW j \in Int, i < j PROVE i * d < j * d
  <2>1. i + 1 <= j /\ i + 1 \in Int
    BY <1>3
  <2>2. (i + 1) * d <= j * d /\ (i + 1) * d = i * d + d
        /\ i * d \in Int /\ j * d \in Int
    BY <2>1, <1>2
  <2>3. QED
    BY <2>2
<1>4. QED
  BY <1>1, <1>2, <1>3

LEMMA Quotient ==
  ASSUME NEW d \in Nat \ {0}, NEW t \in Nat
  PROVE  /\ t \div d \in Nat /\ (t \div d) * d \in Nat
         /\ (t \div d) * d <= t /\ t < (t \div d) * d + d
         /\ t % d = 0 <=> t = (t \div d) * d
PROOF
<1> DEFINE q == t \div d
           r == t % d
<1>1. q \in Nat /\ r \in Nat /\ r < d /\ t = d * q + r
  OBVIOUS
<1>2. d \in Nat /\ d > 0
  OBVIOUS
<1> HIDE DEF q, r
<1>3. d * q = q * d /\ q * d \in Nat
  BY <1>1, <1>2
<1>4. QED
  BY <1>1, <1>2, <1>3 DEF q, r

LEMMA MultipleIs ==
  ASSUME NEW d \in Nat \ {0}, NEW t \in Nat
  PROVE  t % d = 0 <=> \E q \in Nat : t = q * d
PROOF
<1>1. ASSUME NEW q \in Nat, t = q * d PROVE t % d = 0
  <2> DEFINE p == t \div d
  <2>1. p \in Nat /\ p * d <= t /\ t < p * d + d /\ (t = p * d => t % d = 0)
    BY Quotient
  <2> HIDE DEF p
  <2>2. (p + 1) * d = p * d + d
    BY <2>1, Products
  <2>3. p <= q /\ q < p + 1
    BY <1>1, <2>1, <2>2, Products
  <2>4. p = q
    BY <2>1, <2>3
  <2>5. QED
    BY <1>1, <2>1, <2>4
<1>2. t % d = 0 => t = (t \div d) * d /\ t \div d \in Nat
  BY Quotient
<1>3. QED
  BY <1>1, <1>2

\* Multiples are apart, and reached from each other.
LEMMA Multiples ==
  ASSUME NEW d \in Nat \ {0}, NEW s \in Nat, s % d = 0
  PROVE  /\ (s + d) % d = 0
         /\ s - d \in Nat => (s - d) % d = 0
         /\ s > 0 => s - d \in Nat
         /\ \A t \in Nat : t % d = 0 /\ s < t => s + d <= t
PROOF
<1>1. PICK q \in Nat : s = q * d
  BY MultipleIs
<1>2. (s + d) % d = 0
  <2>1. s + d = (q + 1) * d /\ q + 1 \in Nat /\ s + d \in Nat
    BY <1>1, Products
  <2>2. QED
    BY <2>1, MultipleIs
<1>3. ASSUME s > 0 PROVE s - d \in Nat
  <2>1. q # 0
    BY <1>1, <1>3
  <2>2. 1 * d <= q * d
    BY <2>1, Products
  <2>3. QED
    BY <1>1, <2>2
<1>4. ASSUME s - d \in Nat PROVE (s - d) % d = 0
  <2>1. s - d = (q - 1) * d
    BY <1>1, Products
  <2>2. q # 0
    BY <1>1, <1>4
  <2>3. q - 1 \in Nat
    BY <2>2
  <2>4. QED
    BY <1>4, <2>1, <2>3, MultipleIs
<1>5. ASSUME NEW t \in Nat, t % d = 0, s < t PROVE s + d <= t
  <2>1. PICK p \in Nat : t = p * d
    BY <1>5, MultipleIs
  <2>2. q < p
    BY <1>1, <1>5, <2>1, Products
  <2>3. q + 1 \in Nat /\ q + 1 <= p
    BY <2>2
  <2>4. (q + 1) * d <= p * d /\ (q + 1) * d = q * d + d
    BY <2>3, Products
  <2>5. QED
    BY <1>1, <2>1, <2>4
<1>6. QED
  BY <1>2, <1>3, <1>4, <1>5

\* Rounding up.
LEMMA RoundedUp ==
  ASSUME NEW d \in Nat \ {0}, NEW t \in Nat, t > 0
  PROVE  LET e == ((t + d - 1) \div d) * d
         IN  /\ e \in Nat /\ e % d = 0 /\ t <= e
             /\ e - d \in Nat /\ (e - d) % d = 0 /\ e - d < t
PROOF
<1> DEFINE u == t + d - 1
           q == u \div d
           e == q * d
<1>1. u \in Nat
  OBVIOUS
<1>2. q \in Nat /\ e \in Nat /\ e <= u /\ u < e + d
  BY <1>1, Quotient
<1>3. e % d = 0
  BY <1>2, MultipleIs
<1>4. t <= e /\ e - d < t /\ e > 0
  BY <1>2
<1> HIDE DEF e
<1>5. e - d \in Nat /\ (e - d) % d = 0
  BY <1>2, <1>3, <1>4, Multiples
<1>6. QED
  BY <1>2, <1>3, <1>4, <1>5 DEF e

\* Quotient and remainder are what they are written with.
LEMMA DivisionIs ==
  ASSUME NEW d \in Nat \ {0}, NEW q \in Nat, NEW r \in Nat, r < d
  PROVE  q * d + r \in Nat /\ (q * d + r) \div d = q /\ (q * d + r) % d = r
PROOF
<1> DEFINE t == q * d + r
           p == t \div d
           m == t % d
<1>1. q * d \in Nat
  OBVIOUS
<1>2. t \in Nat /\ d \in Nat /\ d > 0
  BY <1>1
<1> HIDE DEF t
<1>3. p \in Nat /\ m \in Nat /\ m < d /\ t = d * p + m
  BY <1>2
<1> HIDE DEF p, m
<1>4. d * p = p * d /\ p * d \in Nat /\ (p + 1) * d = p * d + d /\ (q + 1) * d = q * d + d
  BY <1>2, <1>3
<1>5. t = q * d + r /\ t = p * d + m
  BY <1>3, <1>4 DEF t
<1>6. p * d < (q + 1) * d /\ q * d < (p + 1) * d
  BY <1>1, <1>2, <1>3, <1>4, <1>5
<1>7. p + 1 \in Int /\ q + 1 \in Int /\ p \in Int /\ q \in Int
  BY <1>3
<1>8. p < q + 1 /\ q < p + 1
  BY <1>6, <1>7, Products
<1>9. p = q
  BY <1>3, <1>8
<1>10. m = r
  BY <1>1, <1>3, <1>5, <1>9
<1>11. QED
  BY <1>2, <1>9, <1>10 DEF p, m, t

LEMMA MinOfTwo ==
  ASSUME NEW a \in Int, NEW b \in Int
  PROVE  Min({a, b}) = IF a <= b THEN a ELSE b
PROOF
<1> DEFINE least == IF a <= b THEN a ELSE b
<1>1. least \in {a, b} /\ \A y \in {a, b} : least <= y
  OBVIOUS
<1>2. \A x \in {a, b} : (\A y \in {a, b} : x <= y) => x = least
  OBVIOUS
<1> HIDE DEF least
<1>3. QED
  BY <1>1, <1>2 DEF Min, least

-----------------------------------------------------------------------------
(* Induction and recursive functions.  The induction theorems of the       *)
(* library take an operator, so they are stated here for sets.             *)

LEMMA Induction ==
  ASSUME NEW N, 0 \in N, \A n \in Nat : n \in N => n + 1 \in N
  PROVE  Nat \subseteq N
PROOF
<1> SUFFICES ASSUME NEW t \in Nat, t \notin N PROVE FALSE
  OBVIOUS
<1> DEFINE L == {n \in Nat : \A m \in 0 .. n : m \in N}
           next == [n \in L |-> n + 1]
<1>1. 0 \in L
  OBVIOUS
<1>2. ASSUME NEW n \in L PROVE n + 1 \in L
  <2>1. n \in Nat /\ n \in N /\ n + 1 \in N
    OBVIOUS
  <2>2. ASSUME NEW m \in 0 .. n + 1 PROVE m \in N
    <3>1. m \in 0 .. n \/ m = n + 1
      BY <2>1
    <3>2. QED
      BY <3>1, <2>1
  <2>3. QED
    BY <2>1, <2>2
<1>3. L \in SUBSET Nat /\ \A n \in L : n <= t
  OBVIOUS
<1>4. IsFiniteSet(L)
  BY <1>3, FS_BoundedSetOfNaturals
<1>5. next \in Injection(L, L)
  BY <1>2, <1>3 DEF Injection, IsInjective
<1>6. next \in Surjection(L, L)
  BY <1>4, <1>5, FS_Injection
<1>7. \E n \in L : n + 1 = 0
  <2>1. \E n \in L : next[n] = 0
    BY <1>1, <1>6 DEF Surjection
  <2>2. QED
    BY <2>1
<1>8. QED
  BY <1>3, <1>7

LEMMA UpTo ==
  ASSUME NEW n \in Nat, NEW N, 0 \in N,
         \A i \in 0 .. n : i \in N /\ i < n => i + 1 \in N
  PROVE  0 .. n \subseteq N
PROOF
<1> DEFINE M == {m \in Nat : m \in 0 .. n => m \in N}
<1>1. 0 \in M
  OBVIOUS
<1>2. ASSUME NEW m \in Nat, m \in M PROVE m + 1 \in M
  <2>1. SUFFICES ASSUME m + 1 \in 0 .. n PROVE m + 1 \in N
    OBVIOUS
  <2>2. m \in 0 .. n /\ m < n
    BY <2>1
  <2>3. QED
    BY <1>2, <2>2
<1> HIDE DEF M
<1>3. Nat \subseteq M
  BY <1>1, <1>2, Induction
<1>4. QED
  BY <1>3 DEF M

\* Some number not above a bound is the greatest.
LEMMA MaxIs ==
  ASSUME NEW S \in SUBSET Nat, S # {}, NEW bound \in Nat, \A x \in S : x <= bound
  PROVE  Max(S) \in S /\ \A x \in S : x <= Max(S)
PROOF
<1> DEFINE N == {n \in Nat : (\A x \in S : x <= n) => \E m \in S : \A x \in S : x <= m}
<1>1. 0 \in N
  <2> SUFFICES ASSUME \A x \in S : x <= 0 PROVE \E m \in S : \A x \in S : x <= m
    OBVIOUS
  <2>1. PICK m \in S : TRUE
    OBVIOUS
  <2>2. m = 0
    OBVIOUS
  <2>3. QED
    BY <2>1, <2>2
<1>2. ASSUME NEW n \in Nat, n \in N PROVE n + 1 \in N
  <2> SUFFICES ASSUME \A x \in S : x <= n + 1 PROVE \E m \in S : \A x \in S : x <= m
    OBVIOUS
  <2>1. CASE n + 1 \in S
    BY <2>1
  <2>2. CASE n + 1 \notin S
    <3>1. \A x \in S : x <= n
      BY <2>2
    <3>2. QED
      BY <1>2, <3>1
  <2>3. QED
    BY <2>1, <2>2
<1>3. bound \in N
  <2> HIDE DEF N
  <2>1. QED
    BY <1>1, <1>2, Induction
<1>4. \E m \in S : \A x \in S : m >= x
  BY <1>3
<1>5. Max(S) \in S /\ \A x \in S : Max(S) >= x
  BY <1>4 DEF Max
<1>6. QED
  BY <1>5

LEMMA SequenceInduction ==
  ASSUME NEW S, NEW N, <<>> \in N,
         \A s \in Seq(S), e \in S : s \in N => Append(s, e) \in N
  PROVE  Seq(S) \subseteq N
PROOF
<1> DEFINE M == {n \in Nat : \A s \in Seq(S) : Len(s) = n => s \in N}
<1>1. 0 \in M
  BY EmptySeq
<1>2. ASSUME NEW n \in Nat, n \in M PROVE n + 1 \in M
  <2> SUFFICES ASSUME NEW s \in Seq(S), Len(s) = n + 1 PROVE s \in N
    OBVIOUS
  <2>1. s # <<>>
    BY EmptySeq
  <2>2. PICK t \in Seq(S), e \in S : s = Append(t, e)
    BY <2>1, SequenceEmptyOrAppend
  <2>3. Len(t) = n
    BY <2>2, AppendProperties, LenProperties
  <2>4. QED
    BY <1>2, <2>2, <2>3
<1> HIDE DEF M
<1>3. Nat \subseteq M
  BY <1>1, <1>2, Induction
<1>4. QED
  BY <1>3, LenProperties DEF M

\* f is built over 0 .. n: step[i][x] is the value at i after x at i - 1.
Recurses(f, n, S, base, step) ==
  /\ f \in [0 .. n -> S] /\ f[0] = base
  /\ \A i \in 1 .. n : f[i] = step[i][f[i - 1]]

LEMMA Recursion ==
  ASSUME NEW S, NEW n \in Nat, NEW base \in S,
         NEW step, \A i \in 1 .. n, x \in S : step[i][x] \in S
  PROVE  \E f : Recurses(f, n, S, base, step)
PROOF
<1> DEFINE Good(m) == \E f \in [0 .. m -> S] :
             f[0] = base /\ \A i \in 1 .. m : f[i] = step[i][f[i - 1]]
           N == {m \in 0 .. n : Good(m)}
<1>1. 0 \in N
  <2> DEFINE f == [i \in 0 .. 0 |-> base]
  <2>1. f \in [0 .. 0 -> S] /\ f[0] = base /\ 1 .. 0 = {}
    OBVIOUS
  <2> HIDE DEF f
  <2>2. Good(0)
    BY <2>1
  <2>3. QED
    BY <2>2
<1>2. ASSUME NEW m \in 0 .. n, m \in N, m < n PROVE m + 1 \in N
  <2>1. PICK f \in [0 .. m -> S] :
          f[0] = base /\ \A i \in 1 .. m : f[i] = step[i][f[i - 1]]
    BY <1>2
  <2> DEFINE g == [i \in 0 .. m + 1 |->
                     IF i = m + 1 THEN step[m + 1][f[m]] ELSE f[i]]
  <2>2. step[m + 1][f[m]] \in S
    BY <1>2, <2>1
  <2>3. g \in [0 .. m + 1 -> S]
    BY <2>2
  <2>4. g[0] = base /\ \A i \in 0 .. m : g[i] = f[i]
    BY <2>1
  <2>5. ASSUME NEW i \in 1 .. m + 1 PROVE g[i] = step[i][g[i - 1]]
    <3>1. i - 1 \in 0 .. m
      OBVIOUS
    <3>2. g[i - 1] = f[i - 1]
      BY <2>4, <3>1
    <3>3. CASE i = m + 1
      <4>1. g[i] = step[m + 1][f[m]]
        BY <3>3
      <4>2. g[i - 1] = f[m]
        BY <3>2, <3>3
      <4>3. QED
        BY <3>3, <4>1, <4>2
    <3>4. CASE i \in 1 .. m
      BY <2>1, <2>4, <3>2, <3>4
    <3>5. QED
      BY <3>3, <3>4
  <2> HIDE DEF g
  <2>6. Good(m + 1)
    BY <2>3, <2>4, <2>5
  <2>7. QED
    BY <1>2, <2>6
<1> HIDE DEF N
<1>3. 0 .. n \subseteq N
  BY <1>1, <1>2, UpTo
<1>4. Good(n)
  BY <1>3 DEF N
<1>5. QED
  BY <1>4 DEF Recurses

LEMMA RecursionUnique ==
  ASSUME NEW n \in Nat, NEW f, NEW g, f[0] = g[0],
         \A i \in 1 .. n : f[i - 1] = g[i - 1] => f[i] = g[i]
  PROVE  \A i \in 0 .. n : f[i] = g[i]
PROOF
<1> DEFINE N == {i \in 0 .. n : f[i] = g[i]}
<1>1. 0 \in N
  OBVIOUS
<1>2. ASSUME NEW i \in 0 .. n, i \in N, i < n PROVE i + 1 \in N
  <2>1. i + 1 \in 1 .. n /\ (i + 1) - 1 = i
    BY <1>2
  <2>2. QED
    BY <1>2, <2>1
<1> HIDE DEF N
<1>3. 0 .. n \subseteq N
  BY <1>1, <1>2, UpTo
<1>4. QED
  BY <1>3 DEF N

-----------------------------------------------------------------------------
(* Sets of numbers in order.                                               *)

\* The place of x among the elements of S.
NotAbove(S, x) == {y \in S : y <= x}
Rank(S, x) == Cardinality(NotAbove(S, x))

LEMMA RanksApart ==
  ASSUME NEW S \in SUBSET Nat, IsFiniteSet(S), NEW x \in S
  PROVE  /\ Cardinality(S) \in Nat /\ Rank(S, x) \in 1 .. Cardinality(S)
         /\ \A y \in S : x < y => Rank(S, x) < Rank(S, y)
PROOF
<1>1. Cardinality(S) \in Nat
  BY FS_CardinalityType
<1>2. \A y \in S : NotAbove(S, y) \in SUBSET S /\ IsFiniteSet(NotAbove(S, y))
                   /\ Rank(S, y) \in Nat /\ Rank(S, y) <= Cardinality(S)
  <2>1. ASSUME NEW y \in S
        PROVE  NotAbove(S, y) \in SUBSET S /\ IsFiniteSet(NotAbove(S, y))
               /\ Rank(S, y) \in Nat /\ Rank(S, y) <= Cardinality(S)
    <3>1. NotAbove(S, y) \in SUBSET S
      BY DEF NotAbove
    <3>2. IsFiniteSet(NotAbove(S, y)) /\ Cardinality(NotAbove(S, y)) <= Cardinality(S)
      BY <3>1, FS_Subset
    <3>3. QED
      BY <3>1, <3>2, FS_CardinalityType DEF Rank
  <2>2. QED
    BY <2>1
<1>3. Rank(S, x) # 0
  <2>1. x \in NotAbove(S, x)
    BY DEF NotAbove
  <2>2. NotAbove(S, x) # {} /\ IsFiniteSet(NotAbove(S, x))
    BY <1>2, <2>1
  <2>3. QED
    BY <2>2, FS_EmptySet DEF Rank
<1>4. ASSUME NEW y \in S, x < y PROVE Rank(S, x) < Rank(S, y)
  <2>1. NotAbove(S, x) \in SUBSET NotAbove(S, y)
    <3>1. \A z \in S : z <= x => z <= y
      <4>1. x \in Nat /\ y \in Nat /\ \A z \in S : z \in Nat
        OBVIOUS
      <4>2. QED
        BY <1>4, <4>1
    <3>2. QED
      BY <3>1 DEF NotAbove
  <2>2. y \in NotAbove(S, y) /\ y \notin NotAbove(S, x)
    BY <1>4 DEF NotAbove
  <2>3. Rank(S, x) <= Rank(S, y) /\ Rank(S, x) # Rank(S, y)
    BY <1>2, <2>1, <2>2, FS_Subset DEF Rank
  <2>4. QED
    BY <1>2, <2>3
<1>5. QED
  BY <1>1, <1>2, <1>3, <1>4

\* Every place is taken, by one element.
LEMMA RanksFill ==
  ASSUME NEW S \in SUBSET Nat, IsFiniteSet(S)
  PROVE  /\ \A i \in 1 .. Cardinality(S) : \E x \in S : Rank(S, x) = i
         /\ \A x, y \in S : Rank(S, x) = Rank(S, y) => x = y
PROOF
<1> DEFINE n == Cardinality(S)
           rank == [x \in S |-> Rank(S, x)]
<1>1. n \in Nat
  BY FS_CardinalityType
<1>2. /\ \A x \in S : rank[x] \in 1 .. n
      /\ \A x, y \in S : x < y => rank[x] < rank[y]
  BY RanksApart
<1>3. rank \in [S -> 1 .. n]
  BY <1>2
<1> HIDE DEF rank, n
<1>4. ASSUME NEW x \in S, NEW y \in S, rank[x] = rank[y] PROVE x = y
  <2>1. x \in Nat /\ y \in Nat /\ rank[x] \in Int
    BY <1>2
  <2>2. ~ (rank[x] < rank[y]) /\ ~ (rank[y] < rank[x])
    BY <1>2, <1>4
  <2>3. QED
    BY <1>2, <2>1, <2>2
<1>5. rank \in Injection(S, 1 .. n)
  BY <1>3, <1>4 DEF Injection, IsInjective
<1>6. rank \in Surjection(S, 1 .. n)
  <2>1. IsFiniteSet(1 .. n) /\ Cardinality(1 .. n) = n
    <3>1. 1 \in Int /\ n \in Int
      BY <1>1
    <3>2. QED
      BY <1>1, <3>1, FS_Interval
  <2>2. Cardinality(S) = Cardinality(1 .. n)
    BY <2>1 DEF n
  <2>3. QED
    BY <1>5, <2>1, <2>2, FS_Injection
<1>7. \A i \in 1 .. n : \E x \in S : rank[x] = i
  BY <1>6 DEF Surjection
<1>8. QED
  BY <1>4, <1>7 DEF rank, n

-----------------------------------------------------------------------------
(* Sequences.                                                              *)

LEMMA AppendConcat ==
  ASSUME NEW S, NEW s \in Seq(S), NEW t \in Seq(S), NEW e \in S
  PROVE  s \o Append(t, e) = Append(s \o t, e)
PROOF
<1>1. <<e>> \in Seq(S)
  OBVIOUS
<1>2. Append(t, e) = t \o <<e>> /\ Append(s \o t, e) = (s \o t) \o <<e>>
  BY AppendIsConcat, ConcatProperties
<1>3. QED
  BY <1>1, <1>2, ConcatAssociative

\* FlattenSeq of one more sequence.
Flattens(f, S, ss) ==
  /\ f \in [0 .. Len(ss) -> Seq(S)] /\ f[0] = <<>>
  /\ \A i \in 1 .. Len(ss) : f[i] = f[i - 1] \o ss[i]
  /\ FlattenSeq(ss) = f[Len(ss)]

LEMMA FlattenIs ==
  ASSUME NEW S, NEW ss \in Seq(Seq(S))
  PROVE  \E f : Flattens(f, S, ss)
PROOF
<1> DEFINE n == Len(ss)
           step == [i \in 1 .. n |-> [x \in Seq(S) |-> x \o ss[i]]]
           Def(g) == g = [i \in 1 .. n |->
                            IF i = 1 THEN ss[i] ELSE g[i - 1] \o ss[i]]
<1>1. n \in Nat /\ \A i \in 1 .. n : ss[i] \in Seq(S)
  BY LenProperties, ElementOfSeq
<1>2. \A i \in 1 .. n, x \in Seq(S) :
        step[i][x] = x \o ss[i] /\ step[i][x] \in Seq(S)
  BY <1>1, ConcatProperties
<1>3. FlattenSeq(ss) = IF n = 0 THEN ss ELSE (CHOOSE g : Def(g))[n]
  BY DEF FlattenSeq
<1>4. n = 0 => ss = <<>>
  BY EmptySeq
<1>5. \E f : Recurses(f, n, Seq(S), <<>>, step)
  <2> HIDE DEF step, n
  <2>1. <<>> \in Seq(S)
    BY EmptySeq
  <2>2. \A i \in 1 .. n, x \in Seq(S) : step[i][x] \in Seq(S)
    BY <1>2
  <2>3. QED
    BY <1>1, <2>1, <2>2, Recursion
<1> HIDE DEF step, n
<1>6. PICK f \in [0 .. n -> Seq(S)] :
        f[0] = <<>> /\ \A i \in 1 .. n : f[i] = step[i][f[i - 1]]
  BY <1>5 DEF Recurses
<1>7. ASSUME NEW i \in 1 .. n
      PROVE  /\ f[i - 1] \in Seq(S) /\ f[i] = f[i - 1] \o ss[i]
             /\ f[i] = IF i = 1 THEN ss[i] ELSE f[i - 1] \o ss[i]
  <2>1. f[i - 1] \in Seq(S)
    BY <1>1, <1>6
  <2>2. f[i] = f[i - 1] \o ss[i]
    BY <1>2, <1>6, <2>1
  <2>3. <<>> \o ss[i] = ss[i]
    BY <1>1, ConcatEmptySeq
  <2>4. i = 1 => f[i - 1] = <<>>
    BY <1>6
  <2>5. QED
    BY <2>1, <2>2, <2>3, <2>4
<1>8. CASE n = 0
  BY <1>3, <1>4, <1>6, <1>7, <1>8 DEF n, Flattens
<1>9. CASE n # 0
  <2> DEFINE h == [i \in 1 .. n |-> f[i]]
  <2>1. Def(h)
    <3>1. \A i \in 1 .. n : i # 1 => i - 1 \in 1 .. n
      BY <1>1
    <3>2. \A i \in 1 .. n : h[i] = IF i = 1 THEN ss[i] ELSE h[i - 1] \o ss[i]
      BY <1>7, <3>1
    <3>3. QED
      BY <3>2
  <2> DEFINE c == CHOOSE g : Def(g)
  <2>2. Def(c)
    BY <2>1
  <2>3. FlattenSeq(ss) = c[n]
    BY <1>3, <1>9
  <2> HIDE DEF c, h
  <2> DEFINE d == [i \in 0 .. n |-> IF i = 0 THEN <<>> ELSE c[i]]
  <2>4. d[0] = f[0]
    BY <1>1, <1>6
  <2>5. ASSUME NEW i \in 1 .. n, d[i - 1] = f[i - 1] PROVE d[i] = f[i]
    <3>1. d[i] = c[i] /\ i \in Nat
      BY <1>1
    <3>2. c[i] = IF i = 1 THEN ss[i] ELSE c[i - 1] \o ss[i]
      BY <2>2
    <3>3. CASE i = 1
      BY <1>7, <3>1, <3>2, <3>3
    <3>4. CASE i # 1
      <4>1. d[i - 1] = c[i - 1]
        BY <1>1, <3>4
      <4>2. QED
        BY <1>7, <2>5, <3>1, <3>2, <3>4, <4>1
    <3>5. QED
      BY <3>3, <3>4
  <2>6. d[n] = c[n]
    BY <1>1, <1>9
  <2> HIDE DEF d
  <2>7. \A i \in 0 .. n : d[i] = f[i]
    BY ZenonT(60), <1>1, <2>4, <2>5, RecursionUnique
  <2>8. c[n] = f[n]
    BY <1>1, <2>6, <2>7
  <2>9. QED
    BY <1>6, <1>7, <2>3, <2>8 DEF n, Flattens
<1>10. QED
  BY <1>8, <1>9

LEMMA FlattenAppend ==
  ASSUME NEW S, NEW ss \in Seq(Seq(S)), NEW t \in Seq(S)
  PROVE  /\ FlattenSeq(ss) \in Seq(S)
         /\ FlattenSeq(Append(ss, t)) = FlattenSeq(ss) \o t
PROOF
<1> DEFINE u == Append(ss, t)
           n == Len(ss)
<1>1. /\ u \in Seq(Seq(S)) /\ Len(u) = n + 1 /\ n \in Nat
      /\ u[n + 1] = t /\ \A i \in 1 .. n : u[i] = ss[i]
  BY AppendProperties, LenProperties
<1>2. PICK f : /\ f \in [0 .. n -> Seq(S)] /\ f[0] = <<>>
               /\ \A i \in 1 .. n : f[i] = f[i - 1] \o ss[i]
               /\ FlattenSeq(ss) = f[n]
  BY FlattenIs DEF Flattens
<1> HIDE DEF u, n
<1>3. PICK g : /\ g[0] = <<>> /\ \A i \in 1 .. n + 1 : g[i] = g[i - 1] \o u[i]
               /\ FlattenSeq(u) = g[n + 1]
  <2>1. PICK g : Flattens(g, S, u)
    BY <1>1, FlattenIs
  <2>2. QED
    BY <1>1, <2>1 DEF Flattens
<1>4. g[0] = f[0]
  BY <1>2, <1>3
<1>5. ASSUME NEW i \in 1 .. n, g[i - 1] = f[i - 1] PROVE g[i] = f[i]
  <2>1. i \in 1 .. n + 1
    BY <1>1
  <2>2. QED
    BY <1>1, <1>2, <1>3, <1>5, <2>1
<1>6. \A i \in 0 .. n : g[i] = f[i]
  BY ZenonT(60), <1>1, <1>4, <1>5, RecursionUnique
<1>7. g[n] = f[n] /\ f[n] \in Seq(S)
  BY <1>1, <1>2, <1>6
<1>8. g[n + 1] = g[n] \o t
  <2>1. n + 1 \in 1 .. n + 1 /\ (n + 1) - 1 = n
    BY <1>1
  <2>2. QED
    BY <1>1, <1>3, <2>1
<1>9. QED
  BY <1>2, <1>3, <1>7, <1>8 DEF u

\* FlattenSeq of one sequence more in front.
LEMMA FlattenCons ==
  ASSUME NEW S, NEW t \in Seq(S)
  PROVE  \A ss \in Seq(Seq(S)) : FlattenSeq(<<t>> \o ss) = t \o FlattenSeq(ss)
PROOF
<1> DEFINE N == {ss \in Seq(Seq(S)) : FlattenSeq(<<t>> \o ss) = t \o FlattenSeq(ss)}
<1>1. <<t>> \in Seq(Seq(S)) /\ <<>> \in Seq(Seq(S)) /\ <<>> \in Seq(S)
  OBVIOUS
<1>2. FlattenSeq(<<>>) = <<>>
  BY <1>1 DEF FlattenSeq
<1>3. <<>> \in N
  <2>1. <<t>> \o <<>> = <<t>> /\ <<t>> = Append(<<>>, t)
    BY <1>1, ConcatEmptySeq
  <2>2. FlattenSeq(Append(<<>>, t)) = FlattenSeq(<<>>) \o t
    BY <1>1, FlattenAppend
  <2>3. <<>> \o t = t /\ t \o <<>> = t
    BY ConcatEmptySeq
  <2>4. QED
    BY <1>1, <1>2, <2>1, <2>2, <2>3
<1>4. ASSUME NEW ss \in Seq(Seq(S)), NEW u \in Seq(S), ss \in N
      PROVE  Append(ss, u) \in N
  <2>1. <<t>> \o Append(ss, u) = Append(<<t>> \o ss, u)
    BY <1>1, AppendConcat
  <2>2. <<t>> \o ss \in Seq(Seq(S)) /\ Append(ss, u) \in Seq(Seq(S))
    BY <1>1, ConcatProperties
  <2>3. FlattenSeq(Append(<<t>> \o ss, u)) = FlattenSeq(<<t>> \o ss) \o u
    BY <2>2, FlattenAppend
  <2>4. FlattenSeq(Append(ss, u)) = FlattenSeq(ss) \o u /\ FlattenSeq(ss) \in Seq(S)
    BY FlattenAppend
  <2>5. (t \o FlattenSeq(ss)) \o u = t \o (FlattenSeq(ss) \o u)
    BY <2>4, ConcatAssociative
  <2>6. FlattenSeq(<<t>> \o ss) = t \o FlattenSeq(ss)
    BY <1>4
  <2>7. QED
    BY <2>1, <2>2, <2>3, <2>4, <2>5, <2>6
<1> HIDE DEF N
<1>5. Seq(Seq(S)) \subseteq N
  BY <1>3, <1>4, SequenceInduction
<1>6. QED
  BY <1>5 DEF N

-----------------------------------------------------------------------------
(* Recursion over the subsets of a finite set, as the folds do it: g is    *)
(* built by taking away the element that pick chooses.                     *)

Peels(g, S, base, pick, step) ==
  g = [T \in SUBSET S |-> IF T = {} THEN base ELSE step[pick[T]][g[T \ {pick[T]}]]]

LEMMA Peeling ==
  ASSUME NEW S, IsFiniteSet(S), NEW V, NEW base \in V,
         NEW pick, \A T \in SUBSET S : T # {} => pick[T] \in T,
         NEW step, \A x \in S, v \in V : step[x][v] \in V
  PROVE  \E g \in [SUBSET S -> V] : Peels(g, S, base, pick, step)
PROOF
<1> DEFINE n == Cardinality(S)
           F == [SUBSET S -> V]
           Next1(h) == [T \in SUBSET S |->
                          IF T = {} THEN base ELSE step[pick[T]][h[T \ {pick[T]}]]]
           next == [h \in F |-> Next1(h)]
           first == [T \in SUBSET S |-> base]
           nexts == [i \in 1 .. n + 1 |-> next]
<1>1. n \in Nat /\ \A T \in SUBSET S : IsFiniteSet(T) /\ Cardinality(T) \in Nat /\ Cardinality(T) <= n
  BY FS_CardinalityType, FS_Subset
<1>2. ASSUME NEW h \in F PROVE Next1(h) \in F
  <2>1. ASSUME NEW T \in SUBSET S, T # {} PROVE step[pick[T]][h[T \ {pick[T]}]] \in V
    <3>1. pick[T] \in S /\ T \ {pick[T]} \in SUBSET S
      BY <2>1
    <3>2. QED
      BY <3>1
  <2>2. QED
    BY <2>1
<1>3. first \in F
  OBVIOUS
<1>4. ASSUME NEW T \in SUBSET S, T # {}
      PROVE  /\ T \ {pick[T]} \in SUBSET S
             /\ Cardinality(T \ {pick[T]}) = Cardinality(T) - 1
  <2>1. pick[T] \in T
    BY <1>4
  <2>2. QED
    BY <1>1, <2>1, FS_RemoveElement
<1> HIDE DEF n
<1>5. PICK f : Recurses(f, n + 1, F, first, nexts)
  <2>1. n + 1 \in Nat /\ \A i \in 1 .. n + 1, h \in F : nexts[i][h] \in F
    BY <1>1, <1>2
  <2> HIDE DEF F, first, nexts, next, Next1
  <2>2. QED
    BY <1>3, <2>1, Recursion
<1>6. /\ \A i \in 0 .. n + 1 : f[i] \in F
      /\ f[0] = first
      /\ \A i \in 1 .. n + 1 : f[i] = nexts[i][f[i - 1]]
  BY <1>5 DEF Recurses
<1>7. ASSUME NEW i \in 1 .. n + 1 PROVE f[i] = Next1(f[i - 1]) /\ f[i - 1] \in F
  <2>1. i - 1 \in 0 .. n + 1
    BY <1>1
  <2>2. QED
    BY <1>6, <2>1
<1> HIDE DEF first, nexts, next
<1> DEFINE Settled(i) == \A T \in SUBSET S : Cardinality(T) < i => f[i][T] = f[i - 1][T]
           N == {i \in 0 .. n : Settled(i + 1)}
<1>8. 0 \in N
  <2>1. ASSUME NEW T \in SUBSET S, Cardinality(T) < 1 PROVE f[1][T] = f[0][T]
    <3>1. T = {}
      BY <1>1, <2>1, FS_EmptySet
    <3>2. f[0][T] = base
      BY <1>6 DEF first
    <3>3. f[1][T] = base
      <4>1. 1 \in 1 .. n + 1
        BY <1>1
      <4>2. f[1] = Next1(f[1 - 1])
        BY <1>7, <4>1
      <4>3. QED
        BY <3>1, <4>2
    <3>4. QED
      BY <3>2, <3>3
  <2>2. QED
    BY <1>1, <2>1
<1>9. ASSUME NEW i \in 0 .. n, i \in N, i < n PROVE i + 1 \in N
  <2>1. /\ i + 1 \in 1 .. n + 1 /\ i + 2 \in 1 .. n + 1 /\ (i + 2) - 1 = i + 1
        /\ (i + 1) - 1 = i /\ i \in Nat
    BY <1>1, <1>9
  <2>2. f[i + 2] = Next1(f[i + 1]) /\ f[i + 1] = Next1(f[i])
    BY ZenonT(60), <1>7, <2>1
  <2>3. ASSUME NEW T \in SUBSET S, Cardinality(T) < i + 2 PROVE f[i + 2][T] = f[i + 1][T]
    <3>1. CASE T = {}
      BY <2>2, <3>1
    <3>2. CASE T # {}
      <4>1. T \ {pick[T]} \in SUBSET S /\ Cardinality(T \ {pick[T]}) < i + 1
        BY <1>1, <1>4, <2>1, <2>3, <3>2
      <4>2. f[i + 1][T \ {pick[T]}] = f[i][T \ {pick[T]}]
        BY <1>9, <2>1, <4>1
      <4>3. f[i + 2][T] = step[pick[T]][f[i + 1][T \ {pick[T]}]]
        BY <2>2, <3>2
      <4>4. f[i + 1][T] = step[pick[T]][f[i][T \ {pick[T]}]]
        BY <2>2, <3>2
      <4>5. QED
        BY <4>2, <4>3, <4>4
    <3>3. QED
      BY <3>1, <3>2
  <2>4. (i + 1) + 1 = i + 2 /\ i + 1 \in 0 .. n
    BY <1>1, <1>9
  <2>5. Settled((i + 1) + 1)
    BY <2>1, <2>3, <2>4
  <2>6. QED
    BY <2>4, <2>5
<1> HIDE DEF N
<1>10. n \in N
  <2>1. 0 .. n \subseteq N
    BY <1>1, <1>8, <1>9, UpTo
  <2>2. QED
    BY <1>1, <2>1
<1>11. \A T \in SUBSET S : f[n + 1][T] = f[n][T]
  BY <1>1, <1>10 DEF N
<1>12. n + 1 \in 1 .. n + 1 /\ (n + 1) - 1 = n /\ n \in 0 .. n + 1
  BY <1>1
<1>13. f[n + 1] = Next1(f[n]) /\ f[n] \in F
  BY <1>7, <1>12
<1>14. f[n] = Next1(f[n])
  <2>1. f[n + 1] \in F /\ f[n] \in F
    BY <1>2, <1>13
  <2>2. f[n + 1] = f[n]
    <3> HIDE DEF Next1
    <3>1. QED
      BY <1>11, <2>1
  <2>3. QED
    BY <1>13, <2>2
<1>15. QED
  BY <1>13, <1>14 DEF Peels

Agree(f, g, S, pick) ==
  /\ f[{}] = g[{}]
  /\ \A T \in SUBSET S : T # {} /\ f[T \ {pick[T]}] = g[T \ {pick[T]}] => f[T] = g[T]

LEMMA PeelingUnique ==
  ASSUME NEW S, IsFiniteSet(S),
         NEW pick, \A T \in SUBSET S : T # {} => pick[T] \in T,
         NEW f, NEW g, Agree(f, g, S, pick)
  PROVE  \A T \in SUBSET S : f[T] = g[T]
PROOF
<1> DEFINE n == Cardinality(S)
           N == {i \in 0 .. n : \A T \in SUBSET S : Cardinality(T) = i => f[T] = g[T]}
<1>1. n \in Nat /\ \A T \in SUBSET S : IsFiniteSet(T) /\ Cardinality(T) \in 0 .. n
  BY FS_CardinalityType, FS_Subset
<1>2. 0 \in N
  BY <1>1, FS_EmptySet DEF Agree
<1>3. ASSUME NEW i \in 0 .. n, i \in N, i < n PROVE i + 1 \in N
  <2>1. ASSUME NEW T \in SUBSET S, Cardinality(T) = i + 1 PROVE f[T] = g[T]
    <3>1. T # {}
      BY <1>1, <2>1, FS_EmptySet
    <3>2. pick[T] \in T /\ T \ {pick[T]} \in SUBSET S
      BY <3>1
    <3>3. Cardinality(T \ {pick[T]}) = i
      BY <1>1, <2>1, <3>2, FS_RemoveElement
    <3>4. QED
      BY <1>3, <3>1, <3>2, <3>3 DEF Agree
  <2>2. QED
    BY <1>1, <1>3, <2>1
<1> HIDE DEF N
<1>4. 0 .. n \subseteq N
  BY <1>1, <1>2, <1>3, UpTo
<1>5. QED
  BY <1>1, <1>4 DEF N

-----------------------------------------------------------------------------
(* Sets in the order of a relation.                                        *)

\* f lists T without repetition, in the order R.
Listing(f, n, T, R) ==
  /\ f \in [1 .. n -> T]
  /\ \A i, j \in 1 .. n : i < j => <<f[i], f[j]>> \in R
  /\ \A x \in T : \E i \in 1 .. n : f[i] = x

Antisymmetric(R, T) == \A x, y \in T : ~ (<<x, y>> \in R /\ <<y, x>> \in R)

LEMMA ListingLeads ==
  ASSUME NEW T, NEW R, Antisymmetric(R, T),
         NEW m \in Nat, NEW n \in Nat, NEW f, NEW g,
         Listing(f, m, T, R), Listing(g, n, T, R)
  PROVE  m <= n /\ \A i \in 1 .. m : f[i] = g[i]
PROOF
<1> DEFINE N == {i \in 0 .. m : i <= n /\ \A j \in 1 .. i : f[j] = g[j]}
<1>1. 0 \in N
  OBVIOUS
<1>2. ASSUME NEW i \in 0 .. m, i \in N, i < m PROVE i + 1 \in N
  <2> DEFINE x == f[i + 1]
  <2>1. i + 1 \in 1 .. m /\ i \in Nat
    BY <1>2
  <2>2. x \in T
    BY <2>1 DEF Listing
  <2>3. PICK k \in 1 .. n : g[k] = x
    BY <2>2 DEF Listing
  <2>4. ASSUME k < i + 1 PROVE FALSE
    <3>1. k \in 1 .. i /\ k \in 1 .. m
      BY <2>1, <2>4
    <3>2. f[k] = x
      BY <1>2, <2>3, <3>1
    <3>3. <<f[k], f[i + 1]>> \in R
      BY <2>1, <2>4, <3>1 DEF Listing
    <3>4. QED
      BY <2>2, <3>2, <3>3 DEF Antisymmetric
  <2>5. i + 1 \in 1 .. n /\ (k = i + 1 \/ i + 1 < k)
    BY <2>1, <2>4
  <2> DEFINE y == g[i + 1]
  <2>6. y \in T
    BY <2>5 DEF Listing
  <2>7. PICK l \in 1 .. m : f[l] = y
    BY <2>6 DEF Listing
  <2>8. ASSUME l < i + 1 PROVE FALSE
    <3>1. l \in 1 .. i /\ l \in 1 .. n
      BY <2>5, <2>8
    <3>2. g[l] = y
      BY <1>2, <2>7, <3>1
    <3>3. <<g[l], g[i + 1]>> \in R
      BY <2>5, <2>8, <3>1 DEF Listing
    <3>4. QED
      BY <2>6, <3>2, <3>3 DEF Antisymmetric
  <2>9. l = i + 1 \/ i + 1 < l
    BY <2>1, <2>8
  <2>10. x = y
    <3>1. CASE k = i + 1
      BY <2>3, <3>1
    <3>2. CASE l = i + 1
      BY <2>7, <3>2
    <3>3. CASE i + 1 < k /\ i + 1 < l
      <4>1. <<x, y>> \in R
        BY <2>1, <2>7, <3>3 DEF Listing
      <4>2. <<y, x>> \in R
        BY <2>3, <2>5, <3>3 DEF Listing
      <4>3. QED
        BY <2>2, <2>6, <4>1, <4>2 DEF Antisymmetric
    <3>4. QED
      BY <2>5, <2>9, <3>1, <3>2, <3>3
  <2> HIDE DEF x, y
  <2>11. \A j \in 1 .. i + 1 : f[j] = g[j]
    <3>1. \A j \in 1 .. i + 1 : j \in 1 .. i \/ j = i + 1
      BY <2>1
    <3>2. QED
      BY <1>2, <2>10, <3>1 DEF x, y
  <2>12. QED
    BY <2>1, <2>5, <2>11
<1> HIDE DEF N
<1>3. 0 .. m \subseteq N
  BY <1>1, <1>2, UpTo
<1>4. m \in N
  BY <1>3
<1>5. QED
  BY <1>4 DEF N

LEMMA ListingUnique ==
  ASSUME NEW T, NEW R, Antisymmetric(R, T),
         NEW m \in Nat, NEW n \in Nat, NEW f, NEW g,
         Listing(f, m, T, R), Listing(g, n, T, R)
  PROVE  m = n /\ f = g
PROOF
<1>1. m <= n /\ \A i \in 1 .. m : f[i] = g[i]
  BY ListingLeads
<1>2. n <= m
  BY ListingLeads
<1>3. m = n
  BY <1>1, <1>2
<1>4. f \in [1 .. m -> T] /\ g \in [1 .. n -> T]
  BY DEF Listing
<1>5. QED
  BY <1>1, <1>3, <1>4

-----------------------------------------------------------------------------
(* FoldLeft goes through a sequence from the front.  g stands for the      *)
(* function on sets of positions that it is defined with.                  *)

FoldsWith(g, n, V, base, step) ==
  /\ g[{}] = base
  /\ \A T \in SUBSET (1 .. n) :
       T # {} => \A v \in V : g[T \ {Max(T)}] = v => g[T] = step[Max(T)][v]

LEMMA LastOf ==
  ASSUME NEW n \in Nat, NEW T \in SUBSET (1 .. n), T # {}
  PROVE  Max(T) \in T /\ Max(T) \in 1 .. n /\ T \ {Max(T)} \in SUBSET (1 .. n)
PROOF
<1>1. T \in SUBSET Nat /\ \A x \in T : x <= n
  OBVIOUS
<1>2. Max(T) \in T
  BY <1>1, MaxIs
<1>3. QED
  BY <1>2

Unfolds(h, n, base, step) ==
  \A T \in SUBSET (1 .. n) :
    h[T] = IF T = {} THEN base ELSE step[Max(T)][h[T \ {Max(T)}]]

Folded(f, n, V, base, step) ==
  /\ Recurses(f, n, V, base, step)
  /\ \A g : FoldsWith(g, n, V, base, step) => g[1 .. n] = f[n]

LEMMA FoldIs ==
  ASSUME NEW n \in Nat, NEW V, NEW base \in V,
         NEW step, \A i \in 1 .. n, v \in V : step[i][v] \in V
  PROVE  /\ \E h \in [SUBSET (1 .. n) -> V] : Unfolds(h, n, base, step)
         /\ \E f : Folded(f, n, V, base, step)
PROOF
<1> DEFINE S == 1 .. n
           pick == [T \in SUBSET S |-> Max(T)]
<1>1. IsFiniteSet(S)
  BY FS_Interval
<1>2. ASSUME NEW T \in SUBSET S, T # {}
      PROVE  pick[T] = Max(T) /\ pick[T] \in T /\ Max(T) \in S /\ T \ {Max(T)} \in SUBSET S
  BY <1>2, LastOf
<1>3. PICK h \in [SUBSET S -> V] : Peels(h, S, base, pick, step)
  <2> HIDE DEF S, pick
  <2>1. \A T \in SUBSET S : T # {} => pick[T] \in T
    BY <1>2
  <2>2. \A x \in S, v \in V : step[x][v] \in V
    BY DEF S
  <2>3. QED
    BY <1>1, <2>1, <2>2, Peeling
<1>4. ASSUME NEW T \in SUBSET S
      PROVE  h[T] = IF T = {} THEN base ELSE step[Max(T)][h[T \ {Max(T)}]]
  <2>1. h[T] = IF T = {} THEN base ELSE step[pick[T]][h[T \ {pick[T]}]]
    <3> HIDE DEF pick
    <3>1. QED
      BY <1>3 DEF Peels
  <2>2. QED
    BY <2>1
<1>5. PICK f : Recurses(f, n, V, base, step)
  BY Recursion
<1>6. ASSUME NEW g, FoldsWith(g, n, V, base, step) PROVE g[S] = f[n]
  <2> DEFINE N == {i \in 0 .. n : g[1 .. i] = f[i]}
  <2>1. f \in [0 .. n -> V] /\ f[0] = base /\ \A i \in 1 .. n : f[i] = step[i][f[i - 1]]
    BY <1>5 DEF Recurses
  <2>2. 0 \in N
    <3>1. 1 .. 0 = {}
      OBVIOUS
    <3>2. g[{}] = base
      BY <1>6 DEF FoldsWith
    <3>3. QED
      BY <2>1, <3>1, <3>2
  <2>3. ASSUME NEW i \in 0 .. n, i \in N, i < n PROVE i + 1 \in N
    <3> DEFINE T == 1 .. i + 1
    <3>0. i \in Nat /\ i + 1 \in 1 .. n /\ (i + 1) - 1 = i
      BY <2>3
    <3>1. T \in SUBSET (1 .. n) /\ T # {} /\ i + 1 \in T
      <4>1. i + 1 \in T /\ \A x \in T : x \in 1 .. n
        BY <3>0
      <4>2. QED
        BY <4>1
    <3>2. Max(T) = i + 1
      <4>1. T \in SUBSET Nat /\ \A x \in T : x <= i + 1
        OBVIOUS
      <4>2. Max(T) \in T /\ \A x \in T : x <= Max(T)
        BY <3>1, <4>1, MaxIs
      <4>3. QED
        BY <3>1, <4>1, <4>2
    <3>3. T \ {i + 1} = 1 .. i
      OBVIOUS
    <3>4. g[1 .. i] = f[i] /\ f[i] \in V
      BY <2>1, <2>3
    <3> HIDE DEF T
    <3>5. g[T] = step[i + 1][f[i]]
      <4>1. \A v \in V : g[T \ {Max(T)}] = v => g[T] = step[Max(T)][v]
        BY <1>6, <3>1 DEF FoldsWith
      <4>2. g[T \ {Max(T)}] = f[i]
        BY <3>2, <3>3, <3>4
      <4>3. QED
        BY <3>2, <3>4, <4>1, <4>2
    <3>6. f[i + 1] = step[i + 1][f[i]]
      BY <2>1, <3>0
    <3>7. i + 1 \in 0 .. n
      BY <3>0
    <3>8. QED
      BY <3>5, <3>6, <3>7 DEF T
  <2> HIDE DEF N
  <2>4. 0 .. n \subseteq N
    BY <2>2, <2>3, UpTo
  <2>5. n \in N
    BY <2>4
  <2>6. QED
    BY <2>5 DEF N
<1>7. Unfolds(h, n, base, step)
  BY <1>4 DEF Unfolds
<1>8. Folded(f, n, V, base, step)
  BY <1>5, <1>6 DEF Folded
<1>9. QED
  BY <1>3, <1>7, <1>8

-----------------------------------------------------------------------------
(* Positions before and after an offset.                                   *)

LEMMA Offsets ==
  ASSUME NEW a \in Nat, NEW b \in Nat
  PROVE  /\ a + b \in Nat
         /\ \A k \in 1 .. a : k \in 1 .. a + b /\ k <= a
         /\ \A m \in 1 .. b : a + m \in 1 .. a + b /\ ~ (a + m <= a) /\ (a + m) - a = m
         /\ \A k \in Nat : k <= a + b /\ ~ (k <= a) => k - a \in 1 .. b /\ k = a + (k - a)
OBVIOUS

\* The run of b positions after a.
LEMMA SubSeqIs ==
  ASSUME NEW S, NEW s \in Seq(S), NEW a \in Nat, NEW b \in Nat, a + b <= Len(s)
  PROVE  /\ SubSeq(s, a + 1, a + b) \in Seq(S) /\ Len(SubSeq(s, a + 1, a + b)) = b
         /\ \A k \in 1 .. b : SubSeq(s, a + 1, a + b)[k] = s[a + k]
PROOF
<1> DEFINE m == a + 1
           n == a + b
           q == SubSeq(s, m, n)
<1>1. Len(s) \in Nat /\ \A k \in 1 .. Len(s) : s[k] \in S
  BY LenProperties, ElementOfSeq
<1>2. m \in Int /\ n \in Int /\ \A k \in m .. n : k \in 1 .. Len(s)
  BY <1>1
<1>3. /\ n - m + 1 = b /\ (m <= n <=> b >= 1)
      /\ \A k \in 1 .. b : m + k - 1 = a + k
  OBVIOUS
<1> HIDE DEF m, n
<1>4. /\ q \in Seq(S) /\ Len(q) = IF m <= n THEN n - m + 1 ELSE 0
      /\ \A k \in 1 .. n - m + 1 : q[k] = s[m + k - 1]
  BY <1>1, <1>2, SubSeqProperties
<1> HIDE DEF q
<1>5. Len(q) = b
  <2>1. b >= 1 => Len(q) = b
    BY <1>3, <1>4
  <2>2. ~ (b >= 1) => b = 0 /\ Len(q) = 0
    BY <1>3, <1>4
  <2>3. QED
    BY <2>1, <2>2
<1>6. \A k \in 1 .. b : q[k] = s[a + k]
  BY <1>3, <1>4
<1>7. QED
  BY <1>4, <1>5, <1>6 DEF q, m, n

-----------------------------------------------------------------------------
(* Finite sets in a strict order.                                          *)

StrictOrder(R, T) ==
  /\ \A x \in T : <<x, x>> \notin R
  /\ \A x, y, z \in T : <<x, y>> \in R /\ <<y, z>> \in R => <<x, z>> \in R
  /\ \A x, y \in T : x = y \/ <<x, y>> \in R \/ <<y, x>> \in R

Below(R, T, x) == {y \in T : <<y, x>> \in R}

LEMMA StrictIsAntisymmetric ==
  ASSUME NEW T, NEW R, StrictOrder(R, T)
  PROVE  Antisymmetric(R, T)
BY DEF StrictOrder, Antisymmetric

\* As many elements in order are all of them.
LEMMA ChainLists ==
  ASSUME NEW T, IsFiniteSet(T), NEW R, Antisymmetric(R, T),
         NEW f \in [1 .. Cardinality(T) -> T],
         \A i, j \in 1 .. Cardinality(T) : i < j => <<f[i], f[j]>> \in R
  PROVE  Listing(f, Cardinality(T), T, R)
PROOF
<1> DEFINE n == Cardinality(T)
<1>1. n \in Nat
  BY FS_CardinalityType
<1>2. ASSUME NEW i \in 1 .. n, NEW j \in 1 .. n, i < j PROVE f[i] # f[j]
  BY <1>2 DEF Antisymmetric
<1>3. IsFiniteSet(1 .. n) /\ Cardinality(1 .. n) = n
  <2>1. 1 \in Int /\ n \in Int
    BY <1>1
  <2>2. QED
    BY <1>1, <2>1, FS_Interval
<1> HIDE DEF n
<1>4. ASSUME NEW i \in 1 .. n, NEW j \in 1 .. n, f[i] = f[j] PROVE i = j
  <2>1. i < j \/ j < i \/ i = j
    BY <1>1
  <2>2. QED
    BY <1>2, <1>4, <2>1
<1>5. f \in Injection(1 .. n, T)
  BY <1>4 DEF Injection, IsInjective, n
<1>6. f \in Surjection(1 .. n, T)
  BY <1>3, <1>5, FS_Injection DEF n
<1>7. \A x \in T : \E i \in 1 .. n : f[i] = x
  BY <1>6 DEF Surjection
<1>8. QED
  BY <1>7 DEF Listing, n

\* Each element is listed at the number of those before it.
LEMMA OrderRanks ==
  ASSUME NEW T, IsFiniteSet(T), NEW R, StrictOrder(R, T), NEW f,
         f = [n \in 1 .. Cardinality(T) |->
                CHOOSE x \in T : Cardinality(Below(R, T, x)) = n - 1]
  PROVE  Listing(f, Cardinality(T), T, R)
PROOF
<1> DEFINE n == Cardinality(T)
           rank(x) == Cardinality(Below(R, T, x))
           place == [x \in T |-> rank(x) + 1]
<1>1. n \in Nat
  BY FS_CardinalityType
<1>2. ASSUME NEW x \in T
      PROVE  Below(R, T, x) \in SUBSET T /\ IsFiniteSet(Below(R, T, x)) /\ rank(x) \in 0 .. n - 1
  <2>1. Below(R, T, x) \in SUBSET T /\ x \notin Below(R, T, x)
    BY DEF Below, StrictOrder
  <2>2. IsFiniteSet(Below(R, T, x)) /\ rank(x) <= n /\ (rank(x) = n => Below(R, T, x) = T)
    BY <2>1, FS_Subset
  <2>3. rank(x) \in Nat /\ rank(x) # n
    BY <2>1, <2>2, FS_CardinalityType
  <2>4. QED
    BY <1>1, <2>1, <2>2, <2>3
<1>3. ASSUME NEW x \in T, NEW y \in T, <<x, y>> \in R PROVE rank(x) < rank(y)
  <2>1. Below(R, T, x) \in SUBSET Below(R, T, y)
    BY <1>3 DEF Below, StrictOrder
  <2>2. x \in Below(R, T, y) /\ x \notin Below(R, T, x)
    BY <1>3 DEF Below, StrictOrder
  <2>3. rank(x) <= rank(y) /\ rank(x) # rank(y)
    BY <1>2, <2>1, <2>2, FS_Subset
  <2>4. QED
    BY <1>2, <2>3
<1> HIDE DEF rank
<1>4. ASSUME NEW x \in T, NEW y \in T, rank(x) = rank(y) PROVE x = y
  <2>1. ~ (rank(x) < rank(y)) /\ ~ (rank(y) < rank(x))
    BY <1>2, <1>4
  <2>2. QED
    BY <1>3, <2>1 DEF StrictOrder
<1> HIDE DEF n
<1>5. place \in [T -> 1 .. n]
  BY <1>1, <1>2
<1>6. place \in Injection(T, 1 .. n)
  <2>1. \A x, y \in T : place[x] = place[y] => x = y
    <3>1. \A x \in T : rank(x) \in Int /\ place[x] = rank(x) + 1
      BY <1>2
    <3>2. QED
      BY <1>4, <3>1
  <2> HIDE DEF place
  <2>2. QED
    BY <1>5, <2>1 DEF Injection, IsInjective
<1>7. IsFiniteSet(1 .. n) /\ Cardinality(1 .. n) = n
  <2>1. 1 \in Int /\ n \in Int
    BY <1>1
  <2>2. QED
    BY <1>1, <2>1, FS_Interval
<1>8. place \in Surjection(T, 1 .. n)
  BY <1>6, <1>7, FS_Injection DEF n
<1>9. ASSUME NEW k \in 1 .. n PROVE \E x \in T : rank(x) = k - 1
  <2>1. PICK x \in T : place[x] = k
    BY <1>8 DEF Surjection
  <2>2. rank(x) + 1 = k /\ rank(x) \in Int
    BY <1>2, <2>1
  <2>3. QED
    BY <2>2
<1>10. f = [k \in 1 .. n |-> CHOOSE x \in T : rank(x) = k - 1]
  BY DEF rank, n
<1>11. ASSUME NEW k \in 1 .. n PROVE f[k] \in T /\ rank(f[k]) = k - 1
  BY <1>9, <1>10
<1>12. f \in [1 .. n -> T]
  BY <1>10, <1>11
<1>13. ASSUME NEW i \in 1 .. n, NEW j \in 1 .. n, i < j PROVE <<f[i], f[j]>> \in R
  <2> DEFINE x == f[i]
             y == f[j]
             a == rank(x)
             b == rank(y)
  <2>1. x \in T /\ y \in T /\ a = i - 1 /\ b = j - 1
    BY <1>11
  <2> HIDE DEF a, b, x, y
  <2>2. a < b /\ a \in Int /\ b \in Int
    BY <1>1, <1>13, <2>1
  <2>3. a # b /\ ~ (b < a)
    BY <2>2
  <2>4. x # y /\ ~ (rank(y) < rank(x))
    BY <2>3 DEF a, b
  <2>5. <<x, y>> \in R
    BY <1>3, <2>1, <2>4 DEF StrictOrder
  <2>6. QED
    BY <2>5 DEF x, y
<1>14. Antisymmetric(R, T)
  BY StrictIsAntisymmetric
<1>15. QED
  BY <1>12, <1>13, <1>14, ChainLists DEF n
==============================================================================
