--------------------------- MODULE ObsPacking_proofs ---------------------------
(***************************************************************************)
(* The flat arrays of ObsPacking hold the plans of ObsPlan: copying,       *)
(* compacting, merging, loading and sampling the arrays of any plan gives  *)
(* the arrays of the plan that the operation of ObsPlan gives, for every   *)
(* set of tracers, requests, components and operators, and so for every    *)
(* plan that ObsOperatorManager reaches.  The last part is about what a    *)
(* file says of when and where (ObsInput).                                 *)
(***************************************************************************)
EXTENDS ObsInput, ObsOperatorManager_proofs, ProofLemmas

-----------------------------------------------------------------------------
(* Selections.                                                             *)

Less == {p \in Nat \X Nat : p[1] < p[2]}

LEMMA LessIs ==
  ASSUME NEW T \in SUBSET Nat
  PROVE  /\ Antisymmetric(Less, T)
         /\ \A a, b \in T : <<a, b>> \in Less <=> a < b
PROOF
<1>1. ASSUME NEW a \in T, NEW b \in T PROVE <<a, b>> \in Less <=> a < b
  <2>1. <<a, b>> \in Nat \X Nat /\ <<a, b>>[1] = a /\ <<a, b>>[2] = b
    OBVIOUS
  <2>2. QED
    BY <2>1 DEF Less
<1>2. \A a, b \in T : ~ (a < b /\ b < a)
  OBVIOUS
<1>3. Antisymmetric(Less, T)
  BY <1>1, <1>2 DEF Antisymmetric
<1>4. QED
  BY <1>1, <1>3

\* r is what s holds at the positions T, in order.
Picks(r, s, T) ==
  \E f : Listing(f, Len(r), T, Less) /\ \A k \in 1 .. Len(r) : r[k] = s[f[k]]

LEMMA SelectedIs ==
  ASSUME NEW S, NEW s \in Seq(S), NEW T \in SUBSET (1 .. Len(s))
  PROVE  /\ Selected(s, T) \in Seq(S) /\ Len(Selected(s, T)) = Cardinality(T)
         /\ DOMAIN Selected(s, T) = 1 .. Cardinality(T) /\ Cardinality(T) \in Nat
         /\ Picks(Selected(s, T), s, T)
PROOF
<1> DEFINE n == Cardinality(T)
           f == [k \in 1 .. n |-> CHOOSE i \in T : Rank(T, i) = k]
           r == Selected(s, T)
<1>1. Len(s) \in Nat /\ \A i \in 1 .. Len(s) : s[i] \in S
  BY LenProperties, ElementOfSeq
<1>2. T \in SUBSET Nat /\ IsFiniteSet(T) /\ n \in Nat
  <2>1. IsFiniteSet(1 .. Len(s))
    BY <1>1, FS_Interval
  <2>2. IsFiniteSet(T)
    BY <2>1, FS_Subset
  <2>3. QED
    BY <1>1, <2>2, FS_CardinalityType
<1>3. \A k \in 1 .. n : \E i \in T : Rank(T, i) = k
  BY <1>2, RanksFill
<1>4. \A k \in 1 .. n : f[k] \in T /\ Rank(T, f[k]) = k
  BY <1>3
<1>5. r = [k \in 1 .. n |-> s[f[k]]]
  BY DEF Selected, Rank, NotAbove
<1> HIDE DEF f, n, r
<1>6. \A k \in 1 .. n : f[k] \in T /\ f[k] \in 1 .. Len(s) /\ s[f[k]] \in S
  BY <1>1, <1>4
<1>7. r \in [1 .. n -> S]
  BY <1>5, <1>6
<1>8. r \in Seq(S) /\ Len(r) = n /\ DOMAIN r = 1 .. n
  BY <1>2, <1>7
<1>9. Listing(f, n, T, Less)
  <2>1. f \in [1 .. n -> T]
    BY <1>6 DEF f
  <2>2. ASSUME NEW i \in 1 .. n, NEW j \in 1 .. n, i < j PROVE <<f[i], f[j]>> \in Less
    <3>1. f[i] \in T /\ f[j] \in T /\ f[i] \in Nat /\ f[j] \in Nat
      BY <1>2, <1>6
    <3>2. f[j] < f[i] => Rank(T, f[j]) < Rank(T, f[i])
      BY <1>2, <3>1, RanksApart
    <3>3. Rank(T, f[i]) = i /\ Rank(T, f[j]) = j
      BY <1>4
    <3>4. ~ (f[j] < f[i]) /\ f[i] # f[j]
      BY <2>2, <3>2, <3>3
    <3>5. f[i] < f[j]
      BY <3>1, <3>4
    <3>6. QED
      BY <1>2, <3>1, <3>5, LessIs
  <2>3. ASSUME NEW x \in T PROVE \E k \in 1 .. n : f[k] = x
    <3>1. Rank(T, x) \in 1 .. n
      BY <1>2, RanksApart DEF n
    <3>2. f[Rank(T, x)] \in T /\ Rank(T, f[Rank(T, x)]) = Rank(T, x)
      BY <1>4, <3>1
    <3>3. f[Rank(T, x)] = x
      BY <1>2, <3>2, RanksFill
    <3>4. QED
      BY <3>1, <3>3
  <2>4. QED
    BY <2>1, <2>2, <2>3 DEF Listing
<1>10. \A k \in 1 .. n : r[k] = s[f[k]]
  BY <1>5
<1>11. Picks(r, s, T)
  BY <1>8, <1>9, <1>10 DEF Picks
<1>12. QED
  BY <1>2, <1>8, <1>11 DEF r, n

\* What is picked is determined.
LEMMA PicksUnique ==
  ASSUME NEW S, NEW r \in Seq(S), NEW q \in Seq(S), NEW s, NEW T \in SUBSET Nat,
         Picks(r, s, T), Picks(q, s, T)
  PROVE  r = q
PROOF
<1>1. Len(r) \in Nat /\ Len(q) \in Nat
  BY LenProperties
<1>2. PICK f : Listing(f, Len(r), T, Less) /\ \A k \in 1 .. Len(r) : r[k] = s[f[k]]
  BY DEF Picks
<1>3. PICK g : Listing(g, Len(q), T, Less) /\ \A k \in 1 .. Len(q) : q[k] = s[g[k]]
  BY DEF Picks
<1>4. Len(r) = Len(q) /\ f = g
  BY <1>1, <1>2, <1>3, LessIs, ListingUnique
<1>5. \A k \in 1 .. Len(r) : r[k] = q[k]
  BY <1>2, <1>3, <1>4
<1>6. QED
  BY <1>4, <1>5, SeqEqual

\* All of a sequence.
LEMMA PicksAll ==
  ASSUME NEW S, NEW s \in Seq(S)
  PROVE  Picks(s, s, 1 .. Len(s))
PROOF
<1> DEFINE f == [k \in 1 .. Len(s) |-> k]
<1>1. Len(s) \in Nat
  BY LenProperties
<1>2. \A i, j \in 1 .. Len(s) : i < j => <<f[i], f[j]>> \in Less
  <2>1. 1 .. Len(s) \in SUBSET Nat
    BY <1>1
  <2>2. QED
    BY <2>1, LessIs
<1>3. Listing(f, Len(s), 1 .. Len(s), Less)
  BY <1>2 DEF Listing
<1>4. QED
  BY <1>3 DEF Picks

\* Picking from what was picked, where the sequence may have been changed
\* element by element in between.
LEMMA PicksTwice ==
  ASSUME NEW T \in SUBSET Nat, NEW n \in Nat, NEW f, Listing(f, n, T, Less),
         NEW s, NEW r, NEW U \in SUBSET T, NEW W \in SUBSET (1 .. n),
         NEW q, Len(q) \in Nat, Picks(q, r, W),
         \A k \in 1 .. n : /\ f[k] \in U <=> k \in W
                           /\ k \in W => r[k] = s[f[k]]
  PROVE  Picks(q, s, U)
PROOF
<1>1. PICK g : Listing(g, Len(q), W, Less) /\ \A k \in 1 .. Len(q) : q[k] = r[g[k]]
  BY DEF Picks
<1> DEFINE h == [k \in 1 .. Len(q) |-> f[g[k]]]
<1>2. \A k \in 1 .. Len(q) : g[k] \in W /\ g[k] \in 1 .. n
  BY <1>1 DEF Listing
<1>3. \A k \in 1 .. Len(q) : h[k] \in U /\ h[k] \in Nat
  BY <1>2
<1>4. ASSUME NEW i \in 1 .. Len(q), NEW j \in 1 .. Len(q), i < j
      PROVE  <<h[i], h[j]>> \in Less
  <2>1. W \in SUBSET Nat /\ g[i] \in W /\ g[j] \in W
    BY <1>2
  <2>2. <<g[i], g[j]>> \in Less
    BY <1>1, <1>4 DEF Listing
  <2>3. g[i] < g[j]
    BY <2>1, <2>2, LessIs
  <2>4. <<f[g[i]], f[g[j]]>> \in Less
    BY <1>2, <2>3 DEF Listing
  <2>5. QED
    BY <2>4
<1>5. ASSUME NEW x \in U PROVE \E k \in 1 .. Len(q) : h[k] = x
  <2>1. PICK k \in 1 .. n : f[k] = x
    BY DEF Listing
  <2>2. k \in W
    BY <2>1
  <2>3. PICK l \in 1 .. Len(q) : g[l] = k
    BY <1>1, <2>2 DEF Listing
  <2>4. h[l] = x
    BY <2>1, <2>3
  <2>5. QED
    BY <2>4
<1>6. \A k \in 1 .. Len(q) : q[k] = s[h[k]]
  BY <1>1, <1>2
<1>7. h \in [1 .. Len(q) -> U]
  BY <1>3
<1> HIDE DEF h
<1>8. Listing(h, Len(q), U, Less)
  BY <1>4, <1>5, <1>7 DEF Listing
<1>9. QED
  BY <1>6, <1>8 DEF Picks

-----------------------------------------------------------------------------
(* Ragged arrays.                                                          *)

\* What Ragged fills in, row by row: f[i] is the data of the first i rows.
RaggedUpTo(rows, f, i) ==
  [start |-> [j \in 1 .. i |-> Len(f[j - 1])],
   count |-> [j \in 1 .. i |-> Len(rows[j])], data |-> f[i]]

LEMMA RaggedFold ==
  ASSUME NEW S, NEW rows \in Seq(Seq(S)), NEW f, Flattens(f, S, rows)
  PROVE  Ragged(rows) = RaggedUpTo(rows, f, Len(rows))
PROOF
<1> DEFINE n == Len(rows)
           V == [start : Seq(Nat), count : Seq(Nat), data : Seq(S)]
           base == [start |-> <<>>, count |-> <<>>, data |-> <<>>]
           step == [i \in 1 .. n |-> [v \in V |-> AddRow(v, rows[i])]]
           Def(g) == g = [T \in SUBSET (1 .. n) |->
                            IF T = {} THEN base
                            ELSE LET x == Max(T) IN AddRow(g[T \ {x}], rows[x])]
           g == CHOOSE h : Def(h)
<1>1. n \in Nat /\ DOMAIN rows = 1 .. n /\ \A i \in 1 .. n : rows[i] \in Seq(S) /\ Len(rows[i]) \in Nat
  BY LenProperties, ElementOfSeq
<1>2. Ragged(rows) = g[1 .. n]
  BY <1>1 DEF Ragged, FoldLeft, MapThenFoldSet
<1>3. base \in V
  BY EmptySeq
<1>4. ASSUME NEW i \in 1 .. n, NEW v \in V
      PROVE  step[i][v] = AddRow(v, rows[i]) /\ step[i][v] \in V
  <2>1. Len(v.data) \in Nat
    BY LenProperties
  <2>2. /\ Append(v.start, Len(v.data)) \in Seq(Nat)
        /\ Append(v.count, Len(rows[i])) \in Seq(Nat)
        /\ v.data \o rows[i] \in Seq(S)
    BY <1>1, <2>1
  <2>3. AddRow(v, rows[i]) \in V
    BY <2>2 DEF AddRow
  <2>4. QED
    BY <2>3
<1> HIDE DEF n, V, base
<1>5. \A i \in 1 .. n, v \in V : step[i][v] \in V
  BY <1>4
<1>6. PICK h \in [SUBSET (1 .. n) -> V] : Unfolds(h, n, base, step)
  <2> HIDE DEF step
  <2>1. QED
    BY <1>1, <1>3, <1>5, FoldIs
<1>7. Def(h)
  <2>1. ASSUME NEW T \in SUBSET (1 .. n)
        PROVE  h[T] = IF T = {} THEN base ELSE AddRow(h[T \ {Max(T)}], rows[Max(T)])
    <3>1. CASE T # {}
      <4>1. Max(T) \in 1 .. n /\ T \ {Max(T)} \in SUBSET (1 .. n)
        BY <1>1, <3>1, LastOf
      <4>2. h[T \ {Max(T)}] \in V
        BY <4>1
      <4>3. step[Max(T)][h[T \ {Max(T)}]] = AddRow(h[T \ {Max(T)}], rows[Max(T)])
        BY <1>4, <4>1, <4>2
      <4>4. QED
        BY <1>6, <3>1, <4>3 DEF Unfolds
    <3>2. QED
      BY <1>6, <3>1 DEF Unfolds
  <2>2. QED
    BY <2>1
<1>8. Def(g)
  BY <1>7
<1>9. FoldsWith(g, n, V, base, step)
  <2>1. g[{}] = base /\ \A T \in SUBSET (1 .. n) :
          T # {} => g[T] = AddRow(g[T \ {Max(T)}], rows[Max(T)])
    <3> HIDE DEF g
    <3>1. QED
      BY <1>8
  <2> HIDE DEF g
  <2>2. ASSUME NEW T \in SUBSET (1 .. n), T # {}, NEW v \in V, g[T \ {Max(T)}] = v
        PROVE  g[T] = step[Max(T)][v]
    <3>1. Max(T) \in 1 .. n
      BY <1>1, <2>2, LastOf
    <3>2. QED
      BY <1>4, <2>1, <2>2, <3>1
  <2>3. QED
    BY <2>1, <2>2 DEF FoldsWith
<1> HIDE DEF g, Def, step
<1>10. PICK e : Folded(e, n, V, base, step)
  BY <1>1, <1>3, <1>5, FoldIs
<1>11. e \in [0 .. n -> V] /\ e[0] = base /\ \A i \in 1 .. n : e[i] = step[i][e[i - 1]]
  BY <1>10 DEF Folded, Recurses
<1>12. /\ f \in [0 .. n -> Seq(S)] /\ f[0] = <<>>
       /\ \A i \in 1 .. n : f[i] = f[i - 1] \o rows[i]
  BY DEF Flattens, n
<1> DEFINE R(i) == RaggedUpTo(rows, f, i)
           N == {i \in 0 .. n : e[i] = R(i)}
<1>13. 0 \in N
  <2>1. R(0) = base
    <3>1. [j \in 1 .. 0 |-> Len(f[j - 1])] = <<>> /\ [j \in 1 .. 0 |-> Len(rows[j])] = <<>>
      OBVIOUS
    <3>2. QED
      BY <1>12, <3>1 DEF RaggedUpTo, base
  <2>2. QED
    BY <1>1, <1>11, <2>1
<1>14. ASSUME NEW i \in 0 .. n, i \in N, i < n PROVE i + 1 \in N
  <2>1. i \in Nat /\ i + 1 \in 1 .. n /\ (i + 1) - 1 = i /\ i + 1 \in 0 .. n
    BY <1>1, <1>14
  <2>2. e[i + 1] = step[i + 1][e[i]] /\ e[i] \in V
    BY <1>11, <2>1
  <2>3. e[i + 1] = AddRow(R(i), rows[i + 1])
    BY <1>4, <1>14, <2>1, <2>2
  <2>4. \A j \in 1 .. i : f[j - 1] \in Seq(S) /\ Len(f[j - 1]) \in Nat /\ Len(rows[j]) \in Nat
    <3>1. \A j \in 1 .. i : j - 1 \in 0 .. n /\ j \in 1 .. n
      BY <1>1, <2>1
    <3>2. QED
      BY <1>1, <1>12, <3>1, LenProperties
  <2>5. f[i] \in Seq(S) /\ Len(f[i]) \in Nat /\ Len(rows[i + 1]) \in Nat
    BY <1>1, <1>12, <2>1, LenProperties
  <2>6. Append([j \in 1 .. i |-> Len(f[j - 1])], Len(f[i])) = [j \in 1 .. i + 1 |-> Len(f[j - 1])]
    <3> DEFINE a == [j \in 1 .. i |-> Len(f[j - 1])]
               b == [j \in 1 .. i + 1 |-> Len(f[j - 1])]
    <3>1. a \in [1 .. i -> Nat] /\ a \in Seq(Nat) /\ Len(a) = i
      BY <2>1, <2>4
    <3>2. b \in Seq(Nat) /\ Len(b) = i + 1
      <4>1. \A j \in 1 .. i + 1 : Len(f[j - 1]) \in Nat
        <5>1. \A j \in 1 .. i + 1 : j \in 1 .. i \/ j = i + 1
          BY <2>1
        <5>2. QED
          BY <2>1, <2>4, <2>5, <5>1
      <4>2. b \in [1 .. i + 1 -> Nat] /\ i + 1 \in Nat
        BY <2>1, <4>1
      <4>3. QED
        BY <4>2
    <3>3. \A j \in 1 .. i : a[j] = b[j]
      BY <2>1
    <3>4. b[i + 1] = Len(f[i])
      BY <2>1
    <3> HIDE DEF a, b
    <3>5. /\ Append(a, Len(f[i])) \in Seq(Nat) /\ Len(Append(a, Len(f[i]))) = i + 1
          /\ \A j \in 1 .. i : Append(a, Len(f[i]))[j] = a[j]
          /\ Append(a, Len(f[i]))[i + 1] = Len(f[i])
      BY <2>5, <3>1, AppendProperties
    <3>6. \A j \in 1 .. i + 1 : Append(a, Len(f[i]))[j] = b[j]
      <4>1. \A j \in 1 .. i + 1 : j \in 1 .. i \/ j = i + 1
        BY <2>1
      <4>2. QED
        BY <3>3, <3>4, <3>5, <4>1
    <3>7. Append(a, Len(f[i])) = b
      BY <3>2, <3>5, <3>6, SeqEqual
    <3>8. QED
      BY <3>7 DEF a, b
  <2>7. Append([j \in 1 .. i |-> Len(rows[j])], Len(rows[i + 1])) = [j \in 1 .. i + 1 |-> Len(rows[j])]
    <3> DEFINE a == [j \in 1 .. i |-> Len(rows[j])]
               b == [j \in 1 .. i + 1 |-> Len(rows[j])]
    <3>1. a \in [1 .. i -> Nat] /\ a \in Seq(Nat) /\ Len(a) = i
      BY <2>1, <2>4
    <3>2. b \in Seq(Nat) /\ Len(b) = i + 1
      <4>1. \A j \in 1 .. i + 1 : Len(rows[j]) \in Nat
        BY <1>1, <2>1
      <4>2. b \in [1 .. i + 1 -> Nat] /\ i + 1 \in Nat
        BY <2>1, <4>1
      <4>3. QED
        BY <4>2
    <3>3. \A j \in 1 .. i : a[j] = b[j]
      BY <2>1
    <3>4. b[i + 1] = Len(rows[i + 1])
      BY <2>1
    <3> HIDE DEF a, b
    <3>5. /\ Append(a, Len(rows[i + 1])) \in Seq(Nat) /\ Len(Append(a, Len(rows[i + 1]))) = i + 1
          /\ \A j \in 1 .. i : Append(a, Len(rows[i + 1]))[j] = a[j]
          /\ Append(a, Len(rows[i + 1]))[i + 1] = Len(rows[i + 1])
      BY <2>5, <3>1, AppendProperties
    <3>6. \A j \in 1 .. i + 1 : Append(a, Len(rows[i + 1]))[j] = b[j]
      <4>1. \A j \in 1 .. i + 1 : j \in 1 .. i \/ j = i + 1
        BY <2>1
      <4>2. QED
        BY <3>3, <3>4, <3>5, <4>1
    <3>7. Append(a, Len(rows[i + 1])) = b
      BY <3>2, <3>5, <3>6, SeqEqual
    <3>8. QED
      BY <3>7 DEF a, b
  <2>8. f[i + 1] = f[i] \o rows[i + 1]
    BY <1>12, <2>1
  <2>9. AddRow(R(i), rows[i + 1]) = R(i + 1)
    BY <2>6, <2>7, <2>8 DEF AddRow, RaggedUpTo
  <2>10. QED
    BY <2>1, <2>3, <2>9
<1> HIDE DEF N, R
<1>15. 0 .. n \subseteq N
  BY <1>1, <1>13, <1>14, UpTo
<1>16. n \in N
  BY <1>1, <1>15
<1>17. g[1 .. n] = e[n]
  BY <1>9, <1>10 DEF Folded
<1>18. QED
  BY <1>2, <1>16, <1>17 DEF N, R, n

\* A longer flattening goes on from a shorter one.
LEMMA FlatPrefix ==
  ASSUME NEW S, NEW rows \in Seq(Seq(S)), NEW f, Flattens(f, S, rows)
  PROVE  \A j \in 0 .. Len(rows), i \in 0 .. Len(rows) :
           i <= j =>
             /\ f[i] \in Seq(S) /\ f[j] \in Seq(S)
             /\ Len(f[i]) \in Nat /\ Len(f[j]) \in Nat /\ Len(f[i]) <= Len(f[j])
             /\ \A k \in 1 .. Len(f[i]) : f[j][k] = f[i][k]
PROOF
<1> DEFINE n == Len(rows)
           Extends1(i, j) == /\ Len(f[i]) <= Len(f[j])
                             /\ \A k \in 1 .. Len(f[i]) : f[j][k] = f[i][k]
           N == {j \in 0 .. n : \A i \in 0 .. n : i <= j => Extends1(i, j)}
<1>1. n \in Nat /\ \A i \in 1 .. n : rows[i] \in Seq(S)
  BY LenProperties, ElementOfSeq
<1>2. /\ \A i \in 0 .. n : f[i] \in Seq(S) /\ Len(f[i]) \in Nat
      /\ \A i \in 1 .. n : f[i] = f[i - 1] \o rows[i]
  <2>1. \A i \in 0 .. n : f[i] \in Seq(S)
    BY DEF Flattens
  <2>2. QED
    BY <2>1, LenProperties DEF Flattens
<1> HIDE DEF n
<1>3. ASSUME NEW j \in 0 .. n, \A i \in 0 .. n : i <= j => i = j PROVE \A i \in 0 .. n : i <= j => Extends1(i, j)
  BY <1>2, <1>3
<1>4. 0 \in N
  <2>1. 0 \in 0 .. n /\ \A i \in 0 .. n : i <= 0 => i = 0
    BY <1>1
  <2>2. QED
    BY <1>3, <2>1
<1>5. ASSUME NEW j \in 0 .. n, j \in N, j < n PROVE j + 1 \in N
  <2>1. j \in Nat /\ j + 1 \in 1 .. n /\ j + 1 \in 0 .. n /\ (j + 1) - 1 = j
    BY <1>1, <1>5
  <2>2. f[j + 1] = f[j] \o rows[j + 1] /\ f[j] \in Seq(S) /\ rows[j + 1] \in Seq(S)
    BY <1>1, <1>2, <2>1
  <2>3. /\ Len(f[j + 1]) = Len(f[j]) + Len(rows[j + 1])
        /\ \A k \in 1 .. Len(f[j]) : f[j + 1][k] = f[j][k]
    <3>1. /\ Len(f[j] \o rows[j + 1]) = Len(f[j]) + Len(rows[j + 1])
          /\ \A k \in 1 .. Len(f[j]) + Len(rows[j + 1]) :
               (f[j] \o rows[j + 1])[k] = IF k <= Len(f[j]) THEN f[j][k]
                                          ELSE rows[j + 1][k - Len(f[j])]
      BY <2>2, ConcatProperties
    <3>2. Len(f[j]) \in Nat /\ Len(rows[j + 1]) \in Nat
      BY <2>2, LenProperties
    <3>3. \A k \in 1 .. Len(f[j]) : k \in 1 .. Len(f[j]) + Len(rows[j + 1]) /\ k <= Len(f[j])
      <4> DEFINE A == Len(f[j])
                 B == Len(rows[j + 1])
      <4>1. A \in Nat /\ B \in Nat
        BY <3>2
      <4> HIDE DEF A, B
      <4>2. \A k \in 1 .. A : k \in 1 .. A + B /\ k <= A
        BY <4>1, Offsets
      <4>3. QED
        BY <4>2 DEF A, B
    <3>4. QED
      BY <2>2, <3>1, <3>3
  <2>4. Len(rows[j + 1]) \in Nat /\ Len(f[j]) \in Nat
    BY <2>2, LenProperties
  <2>5. ASSUME NEW i \in 0 .. n, i <= j + 1 PROVE Extends1(i, j + 1)
    <3>1. CASE i = j + 1
      BY <1>2, <3>1
    <3>2. CASE i <= j
      <4>1. Extends1(i, j)
        BY <1>5, <3>2
      <4>2. Len(f[i]) \in Nat
        BY <1>2
      <4>3. \A k \in 1 .. Len(f[i]) : k \in 1 .. Len(f[j])
        BY <2>4, <4>1, <4>2
      <4>4. Len(f[j]) <= Len(f[j + 1])
        <5> DEFINE A == Len(f[j])
                   B == Len(rows[j + 1])
                   C == Len(f[j + 1])
        <5>1. A \in Nat /\ B \in Nat /\ C = A + B
          BY <2>3, <2>4
        <5> HIDE DEF A, B, C
        <5>2. A <= C
          BY <5>1
        <5>3. QED
          BY <5>2 DEF A, C
      <4>5. \A k \in 1 .. Len(f[i]) : f[j + 1][k] = f[i][k]
        BY <2>3, <4>1, <4>3
      <4>6. Len(f[j + 1]) \in Nat /\ Len(f[i]) <= Len(f[j])
        BY <1>2, <2>1, <4>1
      <4>7. Len(f[i]) <= Len(f[j + 1])
        BY <2>4, <4>2, <4>4, <4>6
      <4>8. QED
        BY <4>5, <4>7
    <3>3. QED
      BY <2>1, <2>5, <3>1, <3>2
  <2>6. QED
    BY <2>1, <2>5
<1> HIDE DEF N
<1>6. 0 .. n \subseteq N
  BY <1>1, <1>4, <1>5, UpTo
<1>7. ASSUME NEW j \in 0 .. n, NEW i \in 0 .. n, i <= j PROVE Extends1(i, j)
  BY <1>6, <1>7 DEF N
<1>8. QED
  BY <1>2, <1>7 DEF n

\* What a ragged array holds, and where.
Layout(r, S, rows) ==
  /\ r = [start |-> r.start, count |-> r.count, data |-> r.data]
  /\ DOMAIN r.start = 1 .. Len(rows)
  /\ r.count = [i \in 1 .. Len(rows) |-> Len(rows[i])]
  /\ r.data \in Seq(S) /\ r.data = FlattenSeq(rows)
  /\ \A i \in 1 .. Len(rows) :
       /\ r.start[i] \in Nat /\ r.start[i] + Len(rows[i]) <= Len(r.data)
       /\ \A m \in 1 .. Len(rows[i]) : r.data[r.start[i] + m] = rows[i][m]
  /\ \A i, j \in 1 .. Len(rows) : i < j => r.start[i] + Len(rows[i]) <= r.start[j]
  /\ \A a \in 1 .. Len(r.data) :
       \E i \in 1 .. Len(rows) : \E m \in 1 .. Len(rows[i]) : a = r.start[i] + m

LEMMA RaggedIs ==
  ASSUME NEW S, NEW rows \in Seq(Seq(S))
  PROVE  Layout(Ragged(rows), S, rows)
PROOF
<1> DEFINE n == Len(rows)
           r == Ragged(rows)
<1>1. n \in Nat /\ \A i \in 1 .. n : rows[i] \in Seq(S) /\ Len(rows[i]) \in Nat
  BY LenProperties, ElementOfSeq
<1>2. PICK f : Flattens(f, S, rows)
  BY FlattenIs
<1>3. r = RaggedUpTo(rows, f, n)
  BY <1>2, RaggedFold
<1>4. /\ r = [start |-> r.start, count |-> r.count, data |-> r.data]
      /\ r.start = [j \in 1 .. n |-> Len(f[j - 1])]
      /\ r.count = [j \in 1 .. n |-> Len(rows[j])] /\ r.data = f[n]
  BY <1>3 DEF RaggedUpTo
<1>5. /\ \A i \in 0 .. n : f[i] \in Seq(S) /\ Len(f[i]) \in Nat
      /\ f[0] = <<>> /\ \A i \in 1 .. n : f[i] = f[i - 1] \o rows[i]
      /\ f[n] = FlattenSeq(rows)
  <2>1. \A i \in 0 .. n : f[i] \in Seq(S)
    BY <1>2 DEF Flattens
  <2>2. QED
    BY <1>2, <2>1, LenProperties DEF Flattens
<1>6. \A j \in 0 .. n, i \in 0 .. n :
        i <= j => Len(f[i]) <= Len(f[j]) /\ \A k \in 1 .. Len(f[i]) : f[j][k] = f[i][k]
  BY <1>2, FlatPrefix
<1> HIDE DEF n, r
<1>7. ASSUME NEW i \in 1 .. n
      PROVE  /\ i - 1 \in 0 .. n /\ i \in 0 .. n
             /\ r.start[i] = Len(f[i - 1]) /\ r.start[i] \in Nat
             /\ Len(f[i]) = r.start[i] + Len(rows[i])
             /\ \A m \in 1 .. Len(rows[i]) : f[i][r.start[i] + m] = rows[i][m]
  <2>1. i - 1 \in 0 .. n /\ i \in 0 .. n
    BY <1>1
  <2>2. r.start[i] = Len(f[i - 1])
    BY <1>4
  <2>3. f[i] = f[i - 1] \o rows[i] /\ f[i - 1] \in Seq(S) /\ rows[i] \in Seq(S) /\ Len(f[i - 1]) \in Nat
        /\ Len(rows[i]) \in Nat
    BY <1>1, <1>5, <2>1
  <2>4. /\ Len(f[i - 1] \o rows[i]) = Len(f[i - 1]) + Len(rows[i])
        /\ \A k \in 1 .. Len(f[i - 1]) + Len(rows[i]) :
             (f[i - 1] \o rows[i])[k] = IF k <= Len(f[i - 1]) THEN f[i - 1][k]
                                        ELSE rows[i][k - Len(f[i - 1])]
    BY <2>3, ConcatProperties
  <2>5. ASSUME NEW m \in 1 .. Len(rows[i]) PROVE f[i][Len(f[i - 1]) + m] = rows[i][m]
    <3>1. /\ Len(f[i - 1]) + m \in 1 .. Len(f[i - 1]) + Len(rows[i])
          /\ ~ (Len(f[i - 1]) + m <= Len(f[i - 1])) /\ (Len(f[i - 1]) + m) - Len(f[i - 1]) = m
      BY ZenonT(60), <2>3, Offsets
    <3>2. QED
      BY <2>3, <2>4, <3>1
  <2>6. QED
    BY <2>1, <2>2, <2>3, <2>4, <2>5
<1>8. ASSUME NEW i \in 1 .. n
      PROVE  /\ r.start[i] + Len(rows[i]) <= Len(r.data)
             /\ \A m \in 1 .. Len(rows[i]) : r.data[r.start[i] + m] = rows[i][m]
  <2>1. n \in 0 .. n /\ i <= n
    BY <1>1
  <2>2. Len(f[i]) <= Len(f[n]) /\ \A k \in 1 .. Len(f[i]) : f[n][k] = f[i][k]
    BY <1>6, <1>7, <2>1
  <2>3. \A m \in 1 .. Len(rows[i]) : r.start[i] + m \in 1 .. Len(f[i])
    BY <1>1, <1>7
  <2>4. QED
    BY <1>4, <1>7, <2>2, <2>3
<1>9. ASSUME NEW i \in 1 .. n, NEW j \in 1 .. n, i < j
      PROVE  r.start[i] + Len(rows[i]) <= r.start[j]
  <2>1. i <= j - 1
    BY <1>1, <1>9
  <2>2. QED
    BY <1>6, <1>7, <2>1
<1>10. ASSUME NEW a \in 1 .. Len(r.data)
       PROVE  \E i \in 1 .. n : \E m \in 1 .. Len(rows[i]) : a = r.start[i] + m
  <2> DEFINE N == {j \in 0 .. n : a <= Len(f[j]) =>
                     \E i \in 1 .. n : \E m \in 1 .. Len(rows[i]) : a = r.start[i] + m}
  <2>0. a \in Nat /\ a >= 1 /\ n \in 0 .. n
    <3>1. Len(r.data) \in Nat
      BY <1>1, <1>4, <1>5
    <3>2. QED
      BY <1>1, <3>1
  <2>1. 0 \in N
    <3>1. Len(f[0]) = 0
      BY <1>5
    <3>2. QED
      BY <1>1, <2>0, <3>1
  <2>2. ASSUME NEW j \in 0 .. n, j \in N, j < n PROVE j + 1 \in N
    <3>1. j \in Nat /\ j + 1 \in 1 .. n /\ j + 1 \in 0 .. n /\ (j + 1) - 1 = j
      BY <1>1, <2>2
    <3>2. r.start[j + 1] = Len(f[j]) /\ Len(f[j + 1]) = r.start[j + 1] + Len(rows[j + 1])
          /\ Len(f[j]) \in Nat /\ Len(rows[j + 1]) \in Nat
      BY <1>1, <1>5, <1>7, <3>1
    <3>3. ASSUME a <= Len(f[j + 1]), ~ (a <= Len(f[j]))
          PROVE  \E i \in 1 .. n : \E m \in 1 .. Len(rows[i]) : a = r.start[i] + m
      <4>1. a - r.start[j + 1] \in 1 .. Len(rows[j + 1])
            /\ a = r.start[j + 1] + (a - r.start[j + 1])
        <5> DEFINE A == r.start[j + 1]
                   B == Len(rows[j + 1])
        <5>1. A \in Nat /\ B \in Nat /\ a \in Nat /\ a <= A + B /\ ~ (a <= A)
          BY <2>0, <3>2, <3>3
        <5> HIDE DEF A, B
        <5>2. a - A \in 1 .. B /\ a = A + (a - A)
          BY <5>1, Offsets
        <5>3. QED
          BY <5>2 DEF A, B
      <4>2. QED
        BY <3>1, <4>1
    <3>4. QED
      BY <2>2, <3>1, <3>3
  <2> HIDE DEF N
  <2>3. 0 .. n \subseteq N
    BY <1>1, <2>1, <2>2, UpTo
  <2>4. n \in N /\ a <= Len(f[n])
    BY <1>4, <2>0, <2>3
  <2>5. QED
    BY <2>4 DEF N
<1>11. DOMAIN r.start = 1 .. n /\ r.data \in Seq(S) /\ r.data = FlattenSeq(rows)
  <2>1. n \in 0 .. n
    BY <1>1
  <2>2. QED
    BY <1>4, <1>5, <2>1
<1>12. r = [start |-> r.start, count |-> r.count, data |-> r.data] /\ r.count = [i \in 1 .. n |-> Len(rows[i])]
  BY <1>4
<1>13. QED
  BY <1>7, <1>8, <1>9, <1>10, <1>11, <1>12 DEF Layout, n, r

\* A row is found again.
LEMMA RowIs ==
  ASSUME NEW S, NEW rows \in Seq(Seq(S)), NEW i \in 1 .. Len(rows)
  PROVE  Row(Ragged(rows), i) = rows[i]
PROOF
<1> DEFINE r == Ragged(rows)
           A == r.start[i]
           B == Len(rows[i])
           q == SubSeq(r.data, A + 1, A + B)
<1>1. rows[i] \in Seq(S) /\ B \in Nat
  BY LenProperties, ElementOfSeq
<1>2. Layout(r, S, rows)
  BY RaggedIs
<1> HIDE DEF r
<1>3. r.count[i] = Len(rows[i])
  BY <1>2 DEF Layout
<1>4. /\ r.data \in Seq(S) /\ A \in Nat /\ A + B <= Len(r.data)
      /\ \A m \in 1 .. B : r.data[A + m] = rows[i][m]
  BY <1>2 DEF Layout
<1>5. Row(r, i) = q
  BY <1>3 DEF Row
<1>6. Len(rows[i]) = B
  OBVIOUS
<1> HIDE DEF q, A, B
<1>7. /\ q \in Seq(S) /\ Len(q) = B
      /\ \A k \in 1 .. B : q[k] = r.data[A + k]
  BY <1>1, <1>4, SubSeqIs DEF q
<1>8. \A k \in 1 .. B : q[k] = rows[i][k]
  BY <1>4, <1>7
<1>9. q = rows[i]
  BY <1>1, <1>6, <1>7, <1>8, SeqEqual
<1>10. QED
  BY <1>5, <1>9 DEF r

\* The counted lengths add up to the length of the data.
LEMMA TotalIs ==
  ASSUME NEW S, NEW rows \in Seq(Seq(S)), NEW lengths,
         lengths = [i \in 1 .. Len(rows) |-> Len(rows[i])]
  PROVE  Total(lengths) = Len(FlattenSeq(rows))
PROOF
<1> DEFINE n == Len(rows)
           step == [i \in 1 .. n |-> [v \in Nat |-> v + lengths[i]]]
           Def(g) == g = [T \in SUBSET (1 .. n) |->
                            IF T = {} THEN 0
                            ELSE LET x == Max(T) IN g[T \ {x}] + lengths[x]]
           g == CHOOSE h : Def(h)
<1>1. n \in Nat /\ DOMAIN lengths = 1 .. n /\ \A i \in 1 .. n : lengths[i] = Len(rows[i]) /\ lengths[i] \in Nat
  <2>1. \A i \in 1 .. n : rows[i] \in Seq(S)
    BY ElementOfSeq
  <2>2. QED
    BY <2>1, LenProperties
<1>2. Total(lengths) = g[1 .. n]
  BY <1>1 DEF Total, FoldLeft, MapThenFoldSet
<1>3. PICK f : Flattens(f, S, rows)
  BY FlattenIs
<1>4. ASSUME NEW i \in 1 .. n, NEW v \in Nat
      PROVE  step[i][v] = v + lengths[i] /\ step[i][v] \in Nat
  BY <1>1
<1>5. /\ \A i \in 0 .. n : f[i] \in Seq(S) /\ Len(f[i]) \in Nat
      /\ f[0] = <<>> /\ \A i \in 1 .. n : f[i] = f[i - 1] \o rows[i] /\ rows[i] \in Seq(S)
      /\ f[n] = FlattenSeq(rows)
  <2>1. \A i \in 0 .. n : f[i] \in Seq(S)
    BY <1>3 DEF Flattens
  <2>2. QED
    BY <1>3, <2>1, LenProperties, ElementOfSeq DEF Flattens
<1> HIDE DEF n
<1>6. \A i \in 1 .. n, v \in Nat : step[i][v] \in Nat
  BY <1>4
<1>7. PICK h \in [SUBSET (1 .. n) -> Nat] : Unfolds(h, n, 0, step)
  <2> HIDE DEF step
  <2>1. QED
    BY <1>1, <1>6, FoldIs
<1>8. Def(h)
  <2>1. ASSUME NEW T \in SUBSET (1 .. n)
        PROVE  h[T] = IF T = {} THEN 0 ELSE h[T \ {Max(T)}] + lengths[Max(T)]
    <3>1. CASE T # {}
      <4>1. Max(T) \in 1 .. n /\ T \ {Max(T)} \in SUBSET (1 .. n)
        BY <1>1, <3>1, LastOf
      <4>2. h[T \ {Max(T)}] \in Nat
        BY <4>1
      <4>3. step[Max(T)][h[T \ {Max(T)}]] = h[T \ {Max(T)}] + lengths[Max(T)]
        BY <1>4, <4>1, <4>2
      <4>4. QED
        BY <1>7, <3>1, <4>3 DEF Unfolds
    <3>2. QED
      BY <1>7, <3>1 DEF Unfolds
  <2>2. QED
    BY <2>1
<1>9. Def(g)
  BY <1>8
<1>10. FoldsWith(g, n, Nat, 0, step)
  <2>1. g[{}] = 0 /\ \A T \in SUBSET (1 .. n) :
          T # {} => g[T] = g[T \ {Max(T)}] + lengths[Max(T)]
    <3> HIDE DEF g
    <3>1. QED
      BY <1>9
  <2> HIDE DEF g
  <2>2. ASSUME NEW T \in SUBSET (1 .. n), T # {}, NEW v \in Nat, g[T \ {Max(T)}] = v
        PROVE  g[T] = step[Max(T)][v]
    <3>1. Max(T) \in 1 .. n
      BY <1>1, <2>2, LastOf
    <3>2. QED
      BY <1>4, <2>1, <2>2, <3>1
  <2>3. QED
    BY <2>1, <2>2 DEF FoldsWith
<1> HIDE DEF g, Def, step
<1>11. PICK e : Folded(e, n, Nat, 0, step)
  BY <1>1, <1>6, FoldIs
<1>12. e \in [0 .. n -> Nat] /\ e[0] = 0 /\ \A i \in 1 .. n : e[i] = step[i][e[i - 1]]
  BY <1>11 DEF Folded, Recurses
<1> DEFINE N == {i \in 0 .. n : e[i] = Len(f[i])}
<1>13. 0 \in N
  BY <1>1, <1>5, <1>12
<1>14. ASSUME NEW i \in 0 .. n, i \in N, i < n PROVE i + 1 \in N
  <2>1. i \in Nat /\ i + 1 \in 1 .. n /\ (i + 1) - 1 = i /\ i + 1 \in 0 .. n
    BY <1>1, <1>14
  <2>2. e[i + 1] = e[i] + Len(rows[i + 1])
    <3>1. e[i + 1] = step[i + 1][e[i]] /\ e[i] \in Nat
      BY <1>12, <2>1
    <3>2. step[i + 1][e[i]] = e[i] + lengths[i + 1]
      BY <1>4, <2>1, <3>1
    <3>3. lengths[i + 1] = Len(rows[i + 1])
      BY <1>1, <2>1
    <3>4. QED
      BY <3>1, <3>2, <3>3
  <2>3. f[i + 1] = f[i] \o rows[i + 1] /\ f[i] \in Seq(S) /\ rows[i + 1] \in Seq(S)
    BY <1>5, <2>1
  <2>4. Len(f[i + 1]) = Len(f[i]) + Len(rows[i + 1])
    BY <2>3, ConcatProperties
  <2>5. QED
    BY <1>14, <2>1, <2>2, <2>4
<1> HIDE DEF N
<1>15. 0 .. n \subseteq N
  BY <1>1, <1>13, <1>14, UpTo
<1>16. n \in N
  BY <1>1, <1>15
<1>17. g[1 .. n] = e[n]
  BY <1>10, <1>11 DEF Folded
<1>18. QED
  BY <1>2, <1>5, <1>16, <1>17 DEF N

\* An array of the length that was counted has nothing left uninitialised.
LEMMA FilledIs ==
  ASSUME NEW S, NEW rows \in Seq(Seq(S)), NEW size, size = Len(FlattenSeq(rows))
  PROVE  Filled(Ragged(rows), size) = Ragged(rows)
PROOF
<1> DEFINE r == Ragged(rows)
<1>1. r = [start |-> r.start, count |-> r.count, data |-> r.data] /\ r.data \in Seq(S) /\ size = Len(r.data)
  BY RaggedIs DEF Layout
<1> HIDE DEF r
<1>2. DOMAIN r.data = 1 .. size /\ size \in Nat
  BY <1>1, LenProperties
<1>3. [n \in 1 .. size |-> IF n \in DOMAIN r.data THEN r.data[n] ELSE Uninitialised] = r.data
  <2>1. \A n \in 1 .. size : n \in DOMAIN r.data
    BY <1>2
  <2>2. r.data = [n \in 1 .. size |-> r.data[n]]
    BY <1>1, <1>2
  <2>3. QED
    BY <2>1, <2>2
<1>4. Filled(r, size) = [start |-> r.start, count |-> r.count, data |-> r.data]
  <2>1. Filled(r, size) = [r EXCEPT !.data =
          [n \in 1 .. size |-> IF n \in DOMAIN r.data THEN r.data[n] ELSE Uninitialised]]
    BY DEF Filled
  <2> DEFINE d == [n \in 1 .. size |-> IF n \in DOMAIN r.data THEN r.data[n] ELSE Uninitialised]
  <2> HIDE DEF d
  <2>2. [r EXCEPT !.data = d] = [start |-> r.start, count |-> r.count, data |-> d]
    BY <1>1
  <2>3. QED
    BY <1>3, <2>1, <2>2 DEF d
<1>5. QED
  BY <1>1, <1>4 DEF r

\* Rows of the same lengths start at the same places.
LEMMA SameLayout ==
  ASSUME NEW S, NEW rows \in Seq(Seq(S)), NEW W, NEW others \in Seq(Seq(W)),
         Len(others) = Len(rows), \A i \in 1 .. Len(rows) : Len(others[i]) = Len(rows[i])
  PROVE  /\ Ragged(others).start = Ragged(rows).start
         /\ Ragged(others).count = Ragged(rows).count
         /\ Len(Ragged(others).data) = Len(Ragged(rows).data)
PROOF
<1> DEFINE n == Len(rows)
<1>1. n \in Nat /\ \A i \in 1 .. n : rows[i] \in Seq(S) /\ others[i] \in Seq(W)
  BY LenProperties, ElementOfSeq
<1>2. PICK f : Flattens(f, S, rows)
  BY FlattenIs
<1>3. PICK g : Flattens(g, W, others)
  BY FlattenIs
<1>4. /\ \A i \in 0 .. n : f[i] \in Seq(S) /\ g[i] \in Seq(W)
      /\ f[0] = <<>> /\ g[0] = <<>>
      /\ \A i \in 1 .. n : f[i] = f[i - 1] \o rows[i] /\ g[i] = g[i - 1] \o others[i]
  BY <1>2, <1>3 DEF Flattens
<1> DEFINE a == [i \in 0 .. n |-> Len(f[i])]
           b == [i \in 0 .. n |-> Len(g[i])]
<1>5. ASSUME NEW i \in 1 .. n
      PROVE  /\ i - 1 \in 0 .. n /\ i \in 0 .. n
             /\ a[i] = a[i - 1] + Len(rows[i]) /\ b[i] = b[i - 1] + Len(others[i])
  <2> HIDE DEF n
  <2>1. i - 1 \in 0 .. n /\ i \in 0 .. n
    BY <1>1
  <2>2. Len(f[i]) = Len(f[i - 1]) + Len(rows[i])
    <3>1. f[i] = f[i - 1] \o rows[i] /\ f[i - 1] \in Seq(S) /\ rows[i] \in Seq(S)
      BY <1>1, <1>4, <2>1
    <3>2. QED
      BY <3>1, ConcatProperties
  <2>3. Len(g[i]) = Len(g[i - 1]) + Len(others[i])
    <3>1. g[i] = g[i - 1] \o others[i] /\ g[i - 1] \in Seq(W) /\ others[i] \in Seq(W)
      BY <1>1, <1>4, <2>1
    <3>2. QED
      BY <3>1, ConcatProperties
  <2>4. QED
    BY <2>1, <2>2, <2>3
<1>6. a[0] = b[0]
  BY <1>1, <1>4
<1> HIDE DEF a, b
<1>7. ASSUME NEW i \in 1 .. n, a[i - 1] = b[i - 1] PROVE a[i] = b[i]
  BY <1>5, <1>7
<1>8. \A i \in 0 .. n : a[i] = b[i]
  BY ZenonT(60), <1>1, <1>6, <1>7, RecursionUnique
<1>9. \A i \in 0 .. n : Len(f[i]) = Len(g[i])
  BY <1>8 DEF a, b
<1>10. /\ Ragged(rows) = RaggedUpTo(rows, f, n)
       /\ Ragged(others) = RaggedUpTo(others, g, n)
  BY <1>2, <1>3, RaggedFold
<1>11. /\ Ragged(rows).start = [j \in 1 .. n |-> Len(f[j - 1])]
       /\ Ragged(others).start = [j \in 1 .. n |-> Len(g[j - 1])]
       /\ Ragged(rows).count = [j \in 1 .. n |-> Len(rows[j])]
       /\ Ragged(others).count = [j \in 1 .. n |-> Len(others[j])]
       /\ Ragged(rows).data = f[n] /\ Ragged(others).data = g[n]
  BY <1>10 DEF RaggedUpTo
<1>12. \A j \in 1 .. n : j - 1 \in 0 .. n /\ Len(f[j - 1]) = Len(g[j - 1])
  BY <1>1, <1>9
<1>13. n \in 0 .. n
  BY <1>1
<1>14. [j \in 1 .. n |-> Len(f[j - 1])] = [j \in 1 .. n |-> Len(g[j - 1])]
  BY <1>12
<1>15. [j \in 1 .. n |-> Len(rows[j])] = [j \in 1 .. n |-> Len(others[j])]
  OBVIOUS
<1>16. QED
  BY <1>9, <1>11, <1>13, <1>14, <1>15

-----------------------------------------------------------------------------
(* The fields of an entry.                                                 *)

Tracer == {Tracers[i] : i \in DOMAIN Tracers}
Asked == {All} \cup Tracer

\* A sequence without repetition.
Once(s) == \A i, j \in 1 .. Len(s) : s[i] = s[j] => i = j

LEMMA ConstantsAre ==
  /\ Tracers \in Seq(Tracer) /\ Once(Tracers)
  /\ \A e \in Entry : Requests[e] \in Seq(Asked)
PROOF
<1>1. Tracers \in Seq(Tracer)
  BY TracersAssumption DEF IsList, IsRun, Tracer
<1>2. DOMAIN Tracers = 1 .. Len(Tracers)
  BY <1>1, LenProperties
<1>3. Once(Tracers)
  BY <1>2, TracersAssumption DEF IsList, Once
<1>4. \A e \in Entry : Requests[e] \in Seq(Asked)
  BY RequestAssumption DEF Asked, Tracer
<1>5. QED
  BY <1>1, <1>3, <1>4

LEMMA OnceConcat ==
  ASSUME NEW S, NEW s \in Seq(S), NEW t \in Seq(S), Once(s), Once(t),
         \A i \in 1 .. Len(s), j \in 1 .. Len(t) : s[i] # t[j]
  PROVE  Once(s \o t)
PROOF
<1> DEFINE a == Len(s)
           b == Len(t)
           u == s \o t
<1>1. a \in Nat /\ b \in Nat
  BY LenProperties
<1>2. /\ Len(u) = a + b
      /\ \A k \in 1 .. a + b : u[k] = IF k <= a THEN s[k] ELSE t[k - a]
  BY ConcatProperties
<1>3. /\ \A i, j \in 1 .. a : s[i] = s[j] => i = j
      /\ \A i, j \in 1 .. b : t[i] = t[j] => i = j
      /\ \A i \in 1 .. a, j \in 1 .. b : s[i] # t[j]
  BY DEF Once
<1> HIDE DEF a, b, u
<1>4. ASSUME NEW i \in 1 .. a + b, NEW j \in 1 .. a + b, u[i] = u[j] PROVE i = j
  <2>1. \A k \in 1 .. a + b : \/ k \in 1 .. a /\ k <= a
                              \/ ~ (k <= a) /\ k - a \in 1 .. b
    BY <1>1
  <2>2. CASE i <= a /\ j <= a
    BY <1>2, <1>3, <1>4, <2>1, <2>2
  <2>3. CASE i <= a /\ ~ (j <= a)
    BY <1>2, <1>3, <1>4, <2>1, <2>3
  <2>4. CASE ~ (i <= a) /\ j <= a
    BY <1>2, <1>3, <1>4, <2>1, <2>4
  <2>5. CASE ~ (i <= a) /\ ~ (j <= a)
    <3>1. i - a = j - a
      BY <1>2, <1>3, <1>4, <2>1, <2>5
    <3>2. QED
      BY <1>1, <3>1
  <2>6. QED
    BY <2>2, <2>3, <2>4, <2>5
<1>5. QED
  BY <1>2, <1>4 DEF Once, u

\* What a request adds to the fields there are.
AskedFor(value) == IF value = All THEN Tracers ELSE <<value>>
NewOf(fields, value) == {n \in DOMAIN AskedFor(value) : ~Contains(fields, AskedFor(value)[n])}
WithAsked(fields, value) == fields \o Selected(AskedFor(value), NewOf(fields, value))

LEMMA WithAskedIs ==
  ASSUME NEW v \in Seq(Tracer), Once(v), NEW value \in Asked
  PROVE  WithAsked(v, value) \in Seq(Tracer) /\ Once(WithAsked(v, value))
PROOF
<1> DEFINE s == AskedFor(value)
           T == NewOf(v, value)
           r == Selected(s, T)
<1>1. s \in Seq(Tracer) /\ Once(s)
  <2>1. CASE value = All
    BY <2>1, ConstantsAre DEF AskedFor
  <2>2. CASE value # All
    <3>1. value \in Tracer /\ s = <<value>>
      BY <2>2 DEF Asked, AskedFor
    <3>2. s \in Seq(Tracer) /\ Len(s) = 1
      BY <3>1
    <3>3. \A i, j \in 1 .. 1 : i = j
      OBVIOUS
    <3>4. QED
      BY <3>2, <3>3 DEF Once
  <2>3. QED
    BY <2>1, <2>2
<1>2. T = {n \in DOMAIN s : ~Contains(v, s[n])} /\ DOMAIN s = 1 .. Len(s)
  BY <1>1, LenProperties DEF NewOf
<1>3. WithAsked(v, value) = v \o r
  BY DEF WithAsked
<1> HIDE DEF s, T
<1>4. r \in Seq(Tracer) /\ Picks(r, s, T)
  BY <1>1, <1>2, SelectedIs
<1> HIDE DEF r
<1>5. PICK f : Listing(f, Len(r), T, Less) /\ \A k \in 1 .. Len(r) : r[k] = s[f[k]]
  BY <1>4 DEF Picks
<1>6. Len(r) \in Nat /\ T \in SUBSET Nat
  BY <1>2, <1>4, LenProperties
<1>7. \A k \in 1 .. Len(r) : f[k] \in T /\ f[k] \in 1 .. Len(s)
  BY <1>2, <1>5 DEF Listing
<1>8. ASSUME NEW i \in 1 .. Len(r), NEW j \in 1 .. Len(r), i < j PROVE r[i] # r[j]
  <2>1. <<f[i], f[j]>> \in Less
    BY <1>5, <1>8 DEF Listing
  <2>2. f[i] # f[j]
    <3>1. f[i] \in T /\ f[j] \in T /\ T \in SUBSET Nat
      BY <1>6, <1>7
    <3>2. f[i] < f[j] /\ f[i] \in Nat /\ f[j] \in Nat
      BY <2>1, <3>1, LessIs
    <3>3. QED
      BY <3>2
  <2>3. QED
    BY SMTT(60), <1>1, <1>5, <1>7, <2>2 DEF Once
<1>9. Once(r)
  <2>1. ASSUME NEW i \in 1 .. Len(r), NEW j \in 1 .. Len(r), r[i] = r[j] PROVE i = j
    <3>1. i < j \/ j < i \/ i = j
      BY <1>6
    <3>2. QED
      BY <1>8, <2>1, <3>1
  <2>2. QED
    BY <2>1 DEF Once
<1>10. ASSUME NEW i \in 1 .. Len(v), NEW j \in 1 .. Len(r) PROVE v[i] # r[j]
  <2>1. ~Contains(v, r[j])
    BY <1>2, <1>5, <1>7
  <2>2. QED
    BY <2>1 DEF Contains
<1>11. v \o r \in Seq(Tracer) /\ Once(v \o r)
  BY <1>4, <1>9, <1>10, OnceConcat, ConcatProperties
<1>12. QED
  BY <1>3, <1>11

\* The fields of an entry are tracers, each there once.
LEMMA ParseFieldsIs ==
  ASSUME NEW request \in Seq(Asked)
  PROVE  ParseFields(request) \in Seq(Tracer) /\ Once(ParseFields(request))
PROOF
<1> DEFINE n == Len(request)
           V == {v \in Seq(Tracer) : Once(v)}
           step == [i \in 1 .. n |-> [v \in V |-> WithAsked(v, request[i])]]
           Def(g) == g = [T \in SUBSET (1 .. n) |->
                            IF T = {} THEN <<>>
                            ELSE LET x == Max(T) IN WithAsked(g[T \ {x}], request[x])]
           g == CHOOSE h : Def(h)
<1>1. n \in Nat /\ DOMAIN request = 1 .. n /\ \A i \in 1 .. n : request[i] \in Asked
  BY LenProperties, ElementOfSeq
<1>2. ParseFields(request) = g[1 .. n]
  BY <1>1 DEF ParseFields, FoldLeft, MapThenFoldSet, WithAsked, AskedFor, NewOf
<1>3. <<>> \in V
  BY EmptySeq DEF Once
<1>4. ASSUME NEW i \in 1 .. n, NEW v \in V
      PROVE  step[i][v] = WithAsked(v, request[i]) /\ step[i][v] \in V
  BY <1>1, WithAskedIs
<1> HIDE DEF n, V
<1>5. \A i \in 1 .. n, v \in V : step[i][v] \in V
  BY <1>4
<1>6. PICK h \in [SUBSET (1 .. n) -> V] : Unfolds(h, n, <<>>, step)
  <2> HIDE DEF step
  <2>1. QED
    BY <1>1, <1>3, <1>5, FoldIs
<1>7. Def(h)
  <2>1. ASSUME NEW T \in SUBSET (1 .. n)
        PROVE  h[T] = IF T = {} THEN <<>> ELSE WithAsked(h[T \ {Max(T)}], request[Max(T)])
    <3>1. CASE T # {}
      <4>1. Max(T) \in 1 .. n /\ T \ {Max(T)} \in SUBSET (1 .. n)
        BY <1>1, <3>1, LastOf
      <4>2. h[T \ {Max(T)}] \in V
        BY <4>1
      <4>3. step[Max(T)][h[T \ {Max(T)}]] = WithAsked(h[T \ {Max(T)}], request[Max(T)])
        BY <1>4, <4>1, <4>2
      <4>4. QED
        BY <1>6, <3>1, <4>3 DEF Unfolds
    <3>2. QED
      BY <1>6, <3>1 DEF Unfolds
  <2>2. QED
    BY <2>1
<1>8. Def(g)
  BY <1>7
<1>9. FoldsWith(g, n, V, <<>>, step)
  <2>1. g[{}] = <<>> /\ \A T \in SUBSET (1 .. n) :
          T # {} => g[T] = WithAsked(g[T \ {Max(T)}], request[Max(T)])
    <3> HIDE DEF g
    <3>1. QED
      BY <1>8
  <2> HIDE DEF g
  <2>2. ASSUME NEW T \in SUBSET (1 .. n), T # {}, NEW v \in V, g[T \ {Max(T)}] = v
        PROVE  g[T] = step[Max(T)][v]
    <3>1. Max(T) \in 1 .. n
      BY <1>1, <2>2, LastOf
    <3>2. QED
      BY <1>4, <2>1, <2>2, <3>1
  <2>3. QED
    BY <2>1, <2>2 DEF FoldsWith
<1> HIDE DEF g, Def, step
<1>10. PICK e : Folded(e, n, V, <<>>, step)
  BY <1>1, <1>3, <1>5, FoldIs
<1>11. e \in [0 .. n -> V] /\ g[1 .. n] = e[n]
  BY <1>9, <1>10 DEF Folded, Recurses
<1>12. g[1 .. n] \in V
  BY <1>1, <1>11
<1>13. QED
  BY <1>2, <1>12 DEF V

-----------------------------------------------------------------------------
(* The rows of a plan.                                                     *)

FieldRows(p) == [i \in DOMAIN p |-> ParseFields(Requests[p[i].name])]
SampleRows(p) ==
  [i \in DOMAIN p |-> [n \in DOMAIN FieldRows(p)[i] |-> <<FieldRows(p)[i][n], p[i].acc>>]]
TimeRows(p) == [i \in DOMAIN p |-> TimeRow(p[i].win)]
OperatorRows(operators, p) == [i \in DOMAIN p |-> operators[p[i].name]]

Sampled == Tracer \X Tally
TimeItem == [lo : Int, hi : Int, weight : Component]
Field == [tracer : Tracer, slot : Nat]
OperatorsOf(operators) ==
  UNION {{operators[e][i] : i \in DOMAIN operators[e]} : e \in Entry}

LEMMA PackedRows ==
  ASSUME NEW p, NEW a
  PROVE  Packed(p, a) =
           [ids |-> [i \in DOMAIN p |-> p[i].name],
            end |-> [i \in DOMAIN p |-> End[p[i].name]],
            field |-> OwnSlots(Ragged(FieldRows(p))),
            accumulator |-> FlattenSeq(SampleRows(p)),
            time |-> Ragged(TimeRows(p)),
            horizontal |-> Ragged(OperatorRows(Horizontal, p)),
            vertical |-> Ragged(OperatorRows(Vertical, p)),
            first |-> a]
BY DEF Packed, FieldRows, SampleRows, TimeRows, OperatorRows

\* A function on the positions of a sequence is one.
LEMMA SeqHolds ==
  ASSUME NEW S, NEW n \in Nat, NEW f, DOMAIN f = 1 .. n, f = [i \in 1 .. n |-> f[i]],
         \A i \in 1 .. n : f[i] \in S
  PROVE  f \in Seq(S) /\ Len(f) = n
PROOF
<1>1. f \in [1 .. n -> S]
  OBVIOUS
<1>2. QED
  BY <1>1

LEMMA ComponentsAre ==
  /\ Components \in Seq(Component) /\ Once(Components)
  /\ \A c \in Component : \E n \in 1 .. Len(Components) : Components[n] = c
PROOF
<1>1. Components \in Seq({Components[i] : i \in DOMAIN Components})
  BY ComponentsAssumption DEF IsList, IsRun
<1>2. {Components[i] : i \in DOMAIN Components} = Component
  BY ComponentsAssumption
<1>3. Components \in Seq(Component)
  BY <1>1, <1>2
<1>4. DOMAIN Components = 1 .. Len(Components)
  BY <1>3, LenProperties
<1>5. Once(Components)
  BY <1>4, ComponentsAssumption DEF IsList, Once
<1>6. QED
  BY <1>2, <1>3, <1>4, <1>5

\* The components that a window has, in the order of the file.
UsedAt(win) == {n \in DOMAIN Components : win[Components[n]] # Unused}
TimeOf(win, c) == [lo |-> win[c].lo, hi |-> win[c].hi, weight |-> c]

LEMMA TimeRowIs ==
  ASSUME NEW win \in Windows
  PROVE  /\ TimeRow(win) \in Seq(TimeItem)
         /\ Picks(TimeRow(win), [n \in DOMAIN Components |-> TimeOf(win, Components[n])], UsedAt(win))
PROOF
<1> DEFINE used == Selected(Components, UsedAt(win))
           s == [n \in DOMAIN Components |-> TimeOf(win, Components[n])]
           r == TimeRow(win)
<1>1. DOMAIN Components = 1 .. Len(Components) /\ UsedAt(win) \in SUBSET (1 .. Len(Components))
  BY ComponentsAre, LenProperties DEF UsedAt
<1>2. used \in Seq(Component) /\ Picks(used, Components, UsedAt(win))
  BY <1>1, ComponentsAre, SelectedIs
<1>3. r = [n \in DOMAIN used |-> TimeOf(win, used[n])]
  BY DEF TimeRow, TimeOf, UsedAt
<1> HIDE DEF used, r
<1>4. /\ DOMAIN used = 1 .. Len(used) /\ Len(used) \in Nat
      /\ \A n \in 1 .. Len(used) : used[n] \in Component
  BY <1>2, LenProperties, ElementOfSeq
<1>5. \A c \in Component : TimeOf(win, c) \in TimeItem
  BY DEF Windows, Interval, TimeOf, TimeItem
<1>6. r \in Seq(TimeItem) /\ Len(r) = Len(used)
  <2>1. r = [n \in 1 .. Len(used) |-> TimeOf(win, used[n])]
    BY <1>3, <1>4
  <2>2. r \in [1 .. Len(used) -> TimeItem]
    BY <1>4, <1>5, <2>1
  <2>3. QED
    BY <1>4, <2>2
<1>7. PICK f : Listing(f, Len(used), UsedAt(win), Less)
               /\ \A k \in 1 .. Len(used) : used[k] = Components[f[k]]
  BY <1>2 DEF Picks
<1>8. \A k \in 1 .. Len(r) : r[k] = s[f[k]]
  <2>1. ASSUME NEW k \in 1 .. Len(used) PROVE r[k] = s[f[k]]
    <3>1. f[k] \in DOMAIN Components
      BY <1>1, <1>7 DEF Listing
    <3>2. r[k] = TimeOf(win, used[k])
      BY <1>3, <1>4
    <3>3. used[k] = Components[f[k]]
      BY <1>7
    <3>4. QED
      BY <3>1, <3>2, <3>3
  <2>2. QED
    BY <1>6, <2>1
<1>9. Picks(r, s, UsedAt(win))
  <2> HIDE DEF s
  <2>1. QED
    BY <1>6, <1>7, <1>8 DEF Picks
<1>10. QED
  BY <1>6, <1>9 DEF r

LEMMA OperatorRowsAre ==
  ASSUME NEW p \in Plan, NEW operators, \A e \in Entry : IsRun(operators[e])
  PROVE  /\ OperatorRows(operators, p) \in Seq(Seq(OperatorsOf(operators)))
         /\ Len(OperatorRows(operators, p)) = Len(p)
         /\ \A i \in 1 .. Len(p) : OperatorRows(operators, p)[i] = operators[p[i].name]
PROOF
<1>1. /\ Len(p) \in Nat /\ DOMAIN p = 1 .. Len(p)
      /\ \A i \in 1 .. Len(p) : p[i].name \in Entry
  BY PlanElement
<1>2. ASSUME NEW e \in Entry PROVE operators[e] \in Seq(OperatorsOf(operators))
  <2> DEFINE s == operators[e]
             A == {s[i] : i \in DOMAIN s}
  <2>1. s \in Seq(A)
    BY DEF IsRun
  <2>2. \A x \in A : x \in OperatorsOf(operators)
    BY DEF OperatorsOf
  <2> HIDE DEF s, A
  <2>3. /\ Len(s) \in Nat /\ s \in [1 .. Len(s) -> A]
    BY <2>1, LenProperties
  <2>4. s \in [1 .. Len(s) -> OperatorsOf(operators)]
    BY <2>2, <2>3
  <2>5. QED
    BY <2>3, <2>4 DEF s
<1> DEFINE r == OperatorRows(operators, p)
<1>3. r = [i \in 1 .. Len(p) |-> operators[p[i].name]]
  BY <1>1 DEF OperatorRows
<1> HIDE DEF r
<1>4. r \in [1 .. Len(p) -> Seq(OperatorsOf(operators))]
  BY <1>1, <1>2, <1>3
<1>5. QED
  BY <1>1, <1>3, <1>4 DEF r

LEMMA FieldRowsAre ==
  ASSUME NEW p \in Plan
  PROVE  /\ FieldRows(p) \in Seq(Seq(Tracer)) /\ Len(FieldRows(p)) = Len(p)
         /\ DOMAIN FieldRows(p) = 1 .. Len(p)
         /\ \A i \in 1 .. Len(p) :
              /\ FieldRows(p)[i] = ParseFields(Requests[p[i].name])
              /\ FieldRows(p)[i] \in Seq(Tracer) /\ Once(FieldRows(p)[i])
PROOF
<1>1. /\ Len(p) \in Nat /\ DOMAIN p = 1 .. Len(p)
      /\ \A i \in 1 .. Len(p) : p[i].name \in Entry
  BY PlanElement
<1> DEFINE r == FieldRows(p)
<1>2. r = [i \in 1 .. Len(p) |-> ParseFields(Requests[p[i].name])]
  BY <1>1 DEF FieldRows
<1>3. \A i \in 1 .. Len(p) : /\ ParseFields(Requests[p[i].name]) \in Seq(Tracer)
                             /\ Once(ParseFields(Requests[p[i].name]))
  BY <1>1, ConstantsAre, ParseFieldsIs
<1> HIDE DEF r
<1>4. r \in [1 .. Len(p) -> Seq(Tracer)]
  BY <1>2, <1>3
<1>5. QED
  BY <1>1, <1>2, <1>3, <1>4 DEF r

LEMMA SampleRowsAre ==
  ASSUME NEW p \in Plan
  PROVE  /\ SampleRows(p) \in Seq(Seq(Sampled)) /\ Len(SampleRows(p)) = Len(p)
         /\ \A i \in 1 .. Len(p) :
              /\ SampleRows(p)[i] \in Seq(Sampled)
              /\ Len(SampleRows(p)[i]) = Len(FieldRows(p)[i])
              /\ SampleRows(p)[i] =
                   [n \in 1 .. Len(FieldRows(p)[i]) |-> <<FieldRows(p)[i][n], p[i].acc>>]
PROOF
<1> DEFINE r == SampleRows(p)
           f == FieldRows(p)
<1>1. /\ Len(p) \in Nat /\ DOMAIN p = 1 .. Len(p)
      /\ \A i \in 1 .. Len(p) : p[i].acc \in Tally
  BY PlanElement
<1>2. /\ DOMAIN f = 1 .. Len(p)
      /\ \A i \in 1 .. Len(p) : f[i] \in Seq(Tracer)
  BY FieldRowsAre
<1>3. r = [i \in 1 .. Len(p) |-> [n \in DOMAIN f[i] |-> <<f[i][n], p[i].acc>>]]
  BY <1>1 DEF SampleRows
<1> HIDE DEF r, f
<1>4. ASSUME NEW i \in 1 .. Len(p)
      PROVE  /\ r[i] = [n \in 1 .. Len(f[i]) |-> <<f[i][n], p[i].acc>>]
             /\ r[i] \in Seq(Sampled) /\ Len(r[i]) = Len(f[i])
  <2>1. /\ DOMAIN f[i] = 1 .. Len(f[i]) /\ Len(f[i]) \in Nat
        /\ \A n \in 1 .. Len(f[i]) : f[i][n] \in Tracer
    BY <1>2, LenProperties, ElementOfSeq
  <2>2. r[i] = [n \in 1 .. Len(f[i]) |-> <<f[i][n], p[i].acc>>]
    BY <1>3, <2>1
  <2>3. \A n \in 1 .. Len(f[i]) : <<f[i][n], p[i].acc>> \in Sampled
    BY <1>1, <2>1 DEF Sampled
  <2>4. r[i] \in [1 .. Len(f[i]) -> Sampled]
    BY <2>2, <2>3
  <2>5. QED
    BY <2>1, <2>2, <2>4
<1>5. r \in [1 .. Len(p) -> Seq(Sampled)]
  BY <1>3, <1>4
<1>6. r \in Seq(Seq(Sampled)) /\ Len(r) = Len(p)
  BY <1>1, <1>5
<1>7. QED
  BY <1>4, <1>6 DEF r, f

LEMMA TimeRowsAre ==
  ASSUME NEW p \in Plan
  PROVE  /\ TimeRows(p) \in Seq(Seq(TimeItem)) /\ Len(TimeRows(p)) = Len(p)
         /\ \A i \in 1 .. Len(p) : /\ TimeRows(p)[i] = TimeRow(p[i].win)
                                   /\ TimeRows(p)[i] \in Seq(TimeItem)
PROOF
<1> DEFINE r == TimeRows(p)
<1>1. /\ Len(p) \in Nat /\ DOMAIN p = 1 .. Len(p)
      /\ \A i \in 1 .. Len(p) : p[i].win \in Windows
  BY PlanElement
<1>2. r = [i \in 1 .. Len(p) |-> TimeRow(p[i].win)]
  BY <1>1 DEF TimeRows
<1> HIDE DEF r
<1>3. \A i \in 1 .. Len(p) : TimeRow(p[i].win) \in Seq(TimeItem)
  BY <1>1, TimeRowIs
<1>4. r \in [1 .. Len(p) -> Seq(TimeItem)]
  BY <1>2, <1>3
<1>5. QED
  BY <1>1, <1>2, <1>3, <1>4 DEF r

-----------------------------------------------------------------------------
(* The fields own the accumulators at their offsets.                       *)

LEMMA OwnSlotsIs ==
  ASSUME NEW rows \in Seq(Seq(Tracer))
  PROVE  /\ OwnSlots(Ragged(rows)).start = Ragged(rows).start
         /\ OwnSlots(Ragged(rows)).count = Ragged(rows).count
         /\ OwnSlots(Ragged(rows)).data \in Seq(Field)
         /\ Len(OwnSlots(Ragged(rows)).data) = Len(Ragged(rows).data)
         /\ \A n \in 1 .. Len(Ragged(rows).data) :
              OwnSlots(Ragged(rows)).data[n] = [tracer |-> Ragged(rows).data[n], slot |-> n]
PROOF
<1> DEFINE r == Ragged(rows)
           d == [n \in DOMAIN r.data |-> [tracer |-> r.data[n], slot |-> n]]
           o == OwnSlots(r)
<1>1. r = [start |-> r.start, count |-> r.count, data |-> r.data] /\ r.data \in Seq(Tracer)
  BY RaggedIs DEF Layout
<1>2. o = [r EXCEPT !.data = d]
  BY DEF OwnSlots
<1> HIDE DEF r, o
<1>3. /\ DOMAIN r.data = 1 .. Len(r.data) /\ Len(r.data) \in Nat
      /\ \A n \in 1 .. Len(r.data) : r.data[n] \in Tracer
  BY <1>1, LenProperties, ElementOfSeq
<1>4. d = [n \in 1 .. Len(r.data) |-> [tracer |-> r.data[n], slot |-> n]]
  BY <1>3
<1>5. \A n \in 1 .. Len(r.data) : [tracer |-> r.data[n], slot |-> n] \in Field
  BY <1>3 DEF Field
<1>6. d \in [1 .. Len(r.data) -> Field]
  BY <1>4, <1>5
<1>7. d \in Seq(Field) /\ Len(d) = Len(r.data)
  BY <1>3, <1>6
<1>8. o.start = r.start /\ o.count = r.count /\ o.data = d
  <2> HIDE DEF d
  <2>1. QED
    BY <1>1, <1>2
<1>9. \A n \in 1 .. Len(r.data) : d[n] = [tracer |-> r.data[n], slot |-> n]
  BY <1>4
<1>10. QED
  BY <1>7, <1>8, <1>9 DEF r, o

\* The row of an entry: its tracers, and where their accumulators are.
FieldRowIs(row, fields, offset) ==
  /\ row \in Seq(Field) /\ Len(row) = Len(fields) /\ DOMAIN row = 1 .. Len(fields)
  /\ \A m \in 1 .. Len(fields) : row[m].tracer = fields[m] /\ row[m].slot = offset + m

LEMMA OwnRowIs ==
  ASSUME NEW rows \in Seq(Seq(Tracer)), NEW i \in 1 .. Len(rows)
  PROVE  FieldRowIs(Row(OwnSlots(Ragged(rows)), i), rows[i], Ragged(rows).start[i])
PROOF
<1> DEFINE r == Ragged(rows)
           o == OwnSlots(r)
           A == r.start[i]
           B == Len(rows[i])
           q == SubSeq(o.data, A + 1, A + B)
<1>1. rows[i] \in Seq(Tracer) /\ B \in Nat
  BY LenProperties, ElementOfSeq
<1>2. Layout(r, Tracer, rows)
  BY RaggedIs
<1>3. /\ o.start = r.start /\ o.count = r.count /\ o.data \in Seq(Field)
      /\ Len(o.data) = Len(r.data)
      /\ \A n \in 1 .. Len(r.data) : o.data[n] = [tracer |-> r.data[n], slot |-> n]
  BY OwnSlotsIs
<1> HIDE DEF r, o
<1>4. o.count[i] = B /\ o.start[i] = A
  BY <1>2, <1>3 DEF Layout
<1>5. /\ A \in Nat /\ A + B <= Len(r.data)
      /\ \A m \in 1 .. B : r.data[A + m] = rows[i][m]
  BY <1>2 DEF Layout
<1>6. Row(o, i) = q
  BY <1>4 DEF Row
<1>7. Len(r.data) \in Nat /\ Len(rows[i]) = B
  <2>1. r.data \in Seq(Tracer)
    BY <1>2 DEF Layout
  <2>2. QED
    BY <2>1, LenProperties
<1> DEFINE D == o.data
<1> HIDE DEF q, A, B
<1>8. D \in Seq(Field) /\ A + B <= Len(D) /\ q = SubSeq(D, A + 1, A + B)
  BY <1>3, <1>5 DEF q
<1> HIDE DEF D
<1>9. q \in Seq(Field) /\ Len(q) = B /\ \A k \in 1 .. B : q[k] = D[A + k]
  BY <1>1, <1>5, <1>8, SubSeqIs
<1>10. \A k \in 1 .. B : A + k \in 1 .. Len(r.data)
  BY <1>1, <1>5, <1>7
<1>11. \A k \in 1 .. B : q[k] = [tracer |-> rows[i][k], slot |-> A + k]
  BY <1>3, <1>5, <1>9, <1>10 DEF D
<1>12. DOMAIN q = 1 .. B
  BY <1>9, LenProperties
<1>13. FieldRowIs(q, rows[i], A)
  BY <1>7, <1>9, <1>11, <1>12 DEF FieldRowIs
<1>14. QED
  BY <1>6, <1>13 DEF r, o, A

\* The accumulators of a plan, at the offsets of its fields.
LEMMA SlotsAre ==
  ASSUME NEW p \in Plan
  PROVE  /\ FlattenSeq(SampleRows(p)) \in Seq(Sampled)
         /\ Len(FlattenSeq(SampleRows(p))) = Len(Ragged(FieldRows(p)).data)
         /\ \A i \in 1 .. Len(p) : \A m \in 1 .. Len(FieldRows(p)[i]) :
              FlattenSeq(SampleRows(p))[Ragged(FieldRows(p)).start[i] + m]
                = <<FieldRows(p)[i][m], p[i].acc>>
PROOF
<1> DEFINE f == FieldRows(p)
           s == SampleRows(p)
<1>1. f \in Seq(Seq(Tracer)) /\ Len(f) = Len(p) /\ Len(p) \in Nat
  BY FieldRowsAre, PlanElement
<1>2. /\ s \in Seq(Seq(Sampled)) /\ Len(s) = Len(p)
      /\ \A i \in 1 .. Len(p) :
           Len(s[i]) = Len(f[i]) /\ s[i] = [n \in 1 .. Len(f[i]) |-> <<f[i][n], p[i].acc>>]
  BY SampleRowsAre
<1> HIDE DEF f, s
<1>3. Layout(Ragged(s), Sampled, s)
  BY <1>2, RaggedIs
<1>4. Ragged(s).start = Ragged(f).start /\ Len(Ragged(s).data) = Len(Ragged(f).data)
  <2>1. Len(s) = Len(f) /\ \A i \in 1 .. Len(f) : Len(s[i]) = Len(f[i])
    BY <1>1, <1>2
  <2>2. QED
    BY <1>1, <1>2, <2>1, SameLayout
<1>5. /\ Ragged(s).data \in Seq(Sampled) /\ Ragged(s).data = FlattenSeq(s)
      /\ \A i \in 1 .. Len(s) : \A m \in 1 .. Len(s[i]) : Ragged(s).data[Ragged(s).start[i] + m] = s[i][m]
  BY <1>3 DEF Layout
<1>6. \A i \in 1 .. Len(p) : \A m \in 1 .. Len(f[i]) : s[i][m] = <<f[i][m], p[i].acc>>
  BY <1>2
<1>7. \A i \in 1 .. Len(p) : \A m \in 1 .. Len(f[i]) :
        FlattenSeq(s)[Ragged(f).start[i] + m] = <<f[i][m], p[i].acc>>
  <2>1. ASSUME NEW i \in 1 .. Len(p), NEW m \in 1 .. Len(f[i])
        PROVE  FlattenSeq(s)[Ragged(f).start[i] + m] = <<f[i][m], p[i].acc>>
    <3>1. i \in 1 .. Len(s) /\ m \in 1 .. Len(s[i])
      BY <1>2
    <3>2. Ragged(s).data[Ragged(s).start[i] + m] = s[i][m]
      BY <1>5, <3>1
    <3>3. QED
      BY <1>4, <1>5, <1>6, <3>2
  <2>2. QED
    BY <2>1
<1>8. QED
  BY <1>4, <1>5, <1>7 DEF f, s

-----------------------------------------------------------------------------
(* Reading and copying entries.                                            *)

\* Entry i of the arrays reads as this entry of a plan.
ReadsAs(packed, i, entry) ==
  LET row == Row(packed["field"], i)
      fields == ParseFields(Requests[entry.name])
  IN  /\ packed.ids[i] = entry.name /\ packed.end[i] = End[entry.name]
      /\ Row(packed["time"], i) = TimeRow(entry.win)
      /\ Row(packed["horizontal"], i) = Horizontal[entry.name]
      /\ Row(packed["vertical"], i) = Vertical[entry.name]
      /\ Len(row) = Len(fields) /\ DOMAIN row = 1 .. Len(fields)
      /\ \A m \in 1 .. Len(fields) :
           /\ row[m].tracer = fields[m]
           /\ packed.accumulator[row[m].slot] = <<fields[m], entry.acc>>

LEMMA RunsAre ==
  /\ \A e \in Entry : IsRun(Horizontal[e])
  /\ \A e \in Entry : IsRun(Vertical[e])
BY RequestAssumption

LEMMA PackedReads ==
  ASSUME NEW p \in Plan, NEW a, NEW i \in 1 .. Len(p)
  PROVE  ReadsAs(Packed(p, a), i, p[i])
PROOF
<1> DEFINE P == Packed(p, a)
           fields == ParseFields(Requests[p[i].name])
           row == Row(OwnSlots(Ragged(FieldRows(p))), i)
<1>1. Len(p) \in Nat /\ DOMAIN p = 1 .. Len(p)
  BY PlanElement
<1>2. /\ P.ids[i] = p[i].name /\ P.end[i] = End[p[i].name]
      /\ P["field"] = OwnSlots(Ragged(FieldRows(p)))
      /\ P.accumulator = FlattenSeq(SampleRows(p))
      /\ P["time"] = Ragged(TimeRows(p))
      /\ P["horizontal"] = Ragged(OperatorRows(Horizontal, p))
      /\ P["vertical"] = Ragged(OperatorRows(Vertical, p))
  BY <1>1, PackedRows
<1> HIDE DEF P
<1>3. Row(P["time"], i) = TimeRow(p[i].win)
  <2>1. TimeRows(p) \in Seq(Seq(TimeItem)) /\ i \in 1 .. Len(TimeRows(p)) /\ TimeRows(p)[i] = TimeRow(p[i].win)
    BY TimeRowsAre
  <2>2. Row(Ragged(TimeRows(p)), i) = TimeRows(p)[i]
    BY <2>1, RowIs
  <2>3. QED
    BY <1>2, <2>1, <2>2
<1>4. ASSUME NEW operators, \A e \in Entry : IsRun(operators[e])
      PROVE  Row(Ragged(OperatorRows(operators, p)), i) = operators[p[i].name]
  <2>1. /\ OperatorRows(operators, p) \in Seq(Seq(OperatorsOf(operators)))
        /\ i \in 1 .. Len(OperatorRows(operators, p))
        /\ OperatorRows(operators, p)[i] = operators[p[i].name]
    BY <1>4, OperatorRowsAre
  <2>2. Row(Ragged(OperatorRows(operators, p)), i) = OperatorRows(operators, p)[i]
    BY <2>1, RowIs
  <2>3. QED
    BY <2>1, <2>2
<1>5. /\ Row(P["horizontal"], i) = Horizontal[p[i].name]
      /\ Row(P["vertical"], i) = Vertical[p[i].name]
  BY <1>2, <1>4, RunsAre
<1>6. /\ FieldRows(p) \in Seq(Seq(Tracer)) /\ i \in 1 .. Len(FieldRows(p))
      /\ FieldRows(p)[i] = fields
  BY FieldRowsAre
<1>7. FieldRowIs(row, fields, Ragged(FieldRows(p)).start[i])
  BY <1>6, OwnRowIs
<1>8. \A m \in 1 .. Len(fields) :
        FlattenSeq(SampleRows(p))[Ragged(FieldRows(p)).start[i] + m] = <<fields[m], p[i].acc>>
  BY <1>6, SlotsAre
<1> HIDE DEF row, fields
<1>9. /\ Len(row) = Len(fields) /\ DOMAIN row = 1 .. Len(fields)
      /\ \A m \in 1 .. Len(fields) :
           /\ row[m].tracer = fields[m]
           /\ FlattenSeq(SampleRows(p))[row[m].slot] = <<fields[m], p[i].acc>>
  BY <1>7, <1>8 DEF FieldRowIs
<1>10. Row(P["field"], i) = row
  BY <1>2 DEF row
<1>11. QED
  BY <1>2, <1>3, <1>5, <1>9, <1>10 DEF ReadsAs, P, fields

\* What is left of a row of times after a boundary.
Clamped(item, b) == [item EXCEPT !.lo = Later(@, b)]

LEMMA RemainingIs ==
  ASSUME NEW row \in Seq(TimeItem), NEW b \in Int
  PROVE  /\ Remaining(row, b) \in Seq(TimeItem)
         /\ Len(Remaining(row, b)) = Cardinality(Unfinished(row, b))
         /\ Picks(Remaining(row, b), [n \in DOMAIN row |-> Clamped(row[n], b)], Unfinished(row, b))
PROOF
<1> DEFINE T == Unfinished(row, b)
           kept == Selected(row, T)
           s == [n \in DOMAIN row |-> Clamped(row[n], b)]
           r == Remaining(row, b)
<1>1. DOMAIN row = 1 .. Len(row) /\ T \in SUBSET (1 .. Len(row))
  BY LenProperties DEF Unfinished
<1>2. kept \in Seq(TimeItem) /\ Len(kept) = Cardinality(T) /\ Picks(kept, row, T)
  BY <1>1, SelectedIs
<1>3. r = [n \in DOMAIN kept |-> Clamped(kept[n], b)]
  BY DEF Remaining, Clamped
<1> HIDE DEF kept, r, T
<1>4. /\ DOMAIN kept = 1 .. Len(kept) /\ Len(kept) \in Nat
      /\ \A n \in 1 .. Len(kept) : kept[n] \in TimeItem
  BY <1>2, LenProperties, ElementOfSeq
<1>5. \A x \in TimeItem : Clamped(x, b) \in TimeItem
  BY DEF TimeItem, Clamped, Later
<1>6. r \in Seq(TimeItem) /\ Len(r) = Len(kept)
  <2>1. r = [n \in 1 .. Len(kept) |-> Clamped(kept[n], b)]
    BY <1>3, <1>4
  <2>2. r \in [1 .. Len(kept) -> TimeItem]
    BY <1>4, <1>5, <2>1
  <2>3. QED
    BY <1>4, <2>2
<1>7. PICK f : Listing(f, Len(kept), T, Less) /\ \A k \in 1 .. Len(kept) : kept[k] = row[f[k]]
  BY <1>2 DEF Picks
<1>8. ASSUME NEW k \in 1 .. Len(kept) PROVE r[k] = s[f[k]]
  <2>1. f[k] \in DOMAIN row
    BY <1>1, <1>7 DEF Listing
  <2>2. r[k] = Clamped(kept[k], b)
    BY <1>3, <1>4
  <2>3. QED
    BY <1>7, <2>1, <2>2
<1>9. Picks(r, s, T)
  <2> HIDE DEF s
  <2>1. QED
    BY <1>6, <1>7, <1>8 DEF Picks
<1>10. QED
  BY <1>2, <1>6, <1>9 DEF r, T

\* A copy, row by row.
CountedRows(rows) == Filled(Ragged(rows), CountRows(rows))

LEMMA CountedIs ==
  ASSUME NEW S, NEW rows \in Seq(Seq(S))
  PROVE  CountedRows(rows) = Ragged(rows)
PROOF
<1>1. DOMAIN rows = 1 .. Len(rows)
  BY LenProperties
<1>2. [n \in DOMAIN rows |-> Len(rows[n])] = [n \in 1 .. Len(rows) |-> Len(rows[n])]
  BY <1>1
<1>3. CountRows(rows) = Len(FlattenSeq(rows))
  BY <1>2, TotalIs DEF CountRows
<1>4. QED
  BY <1>3, FilledIs DEF CountedRows

\* The copies of the entries `from`, cut at the boundary.
Copies(m, from, b) ==
  /\ Len(m) = Len(from)
  /\ \A n \in 1 .. Len(from) :
       /\ m[n].name = from[n].name /\ m[n].acc = from[n].acc
       /\ TimeRow(m[n].win) = Remaining(TimeRow(from[n].win), b)

SourceOf(left, right, order, n) == IF order[n][1] = 0 THEN left ELSE right
RowsOf(left, right, order, name) ==
  [n \in DOMAIN order |-> Row(SourceOf(left, right, order, n)[name], order[n][2])]

\* The rows copied for the fields, and for their accumulators.
TracersOf(fields) == [n \in DOMAIN fields |-> [m \in DOMAIN fields[n] |-> fields[n][m].tracer]]
GatheredFrom(left, right, order, fields) ==
  [n \in DOMAIN fields |->
     [m \in DOMAIN fields[n] |-> SourceOf(left, right, order, n).accumulator[fields[n][m].slot]]]
RemainingRows(times, b) == [n \in DOMAIN times |-> Remaining(times[n], b)]

LEMMA CopyOrderedRows ==
  ASSUME NEW left, NEW right, NEW order, NEW b
  PROVE  CopyOrdered(left, right, order, b) =
           [ids |-> [n \in DOMAIN order |-> SourceOf(left, right, order, n).ids[order[n][2]]],
            end |-> [n \in DOMAIN order |-> SourceOf(left, right, order, n).end[order[n][2]]],
            field |-> OwnSlots(Filled(Ragged(TracersOf(RowsOf(left, right, order, "field"))),
                                      CountRows(RowsOf(left, right, order, "field")))),
            accumulator |-> FlattenSeq(GatheredFrom(left, right, order,
                                                    RowsOf(left, right, order, "field"))),
            time |-> Filled(Ragged(RemainingRows(RowsOf(left, right, order, "time"), b)),
                            CountTimes(RowsOf(left, right, order, "time"), b)),
            horizontal |-> CountedRows(RowsOf(left, right, order, "horizontal")),
            vertical |-> CountedRows(RowsOf(left, right, order, "vertical")),
            first |-> 0]
BY DEF CopyOrdered, SourceOf, RowsOf, TracersOf, GatheredFrom, RemainingRows, CountedRows

LEMMA CopyOrderedIs ==
  ASSUME NEW left, NEW right, NEW order, NEW b \in Int,
         NEW m \in Plan, NEW from \in Plan, Copies(m, from, b),
         DOMAIN order = 1 .. Len(from),
         \A n \in 1 .. Len(from) : ReadsAs(SourceOf(left, right, order, n), order[n][2], from[n])
  PROVE  CopyOrdered(left, right, order, b) = Packed(m, 0)
PROOF
<1> DEFINE N == Len(from)
           R(name) == RowsOf(left, right, order, name)
           S(n) == SourceOf(left, right, order, n)
           F(n) == ParseFields(Requests[from[n].name])
<1>1. /\ N \in Nat /\ DOMAIN order = 1 .. N /\ DOMAIN m = 1 .. N /\ Len(m) = N
      /\ \A n \in 1 .. N : /\ m[n].name = from[n].name /\ m[n].acc = from[n].acc
                           /\ TimeRow(m[n].win) = Remaining(TimeRow(from[n].win), b)
                           /\ from[n].win \in Windows
  BY PlanElement DEF Copies
<1>2. \A name : R(name) = [n \in 1 .. N |-> Row(S(n)[name], order[n][2])]
  BY <1>1 DEF RowsOf
<1>3. \A n \in 1 .. N : ReadsAs(S(n), order[n][2], from[n])
  OBVIOUS
<1>4. \A n \in 1 .. N :
        /\ S(n).ids[order[n][2]] = m[n].name /\ S(n).end[order[n][2]] = End[m[n].name]
        /\ R("time")[n] = TimeRow(from[n].win)
        /\ R("horizontal")[n] = Horizontal[m[n].name]
        /\ R("vertical")[n] = Vertical[m[n].name]
        /\ Len(R("field")[n]) = Len(F(n)) /\ DOMAIN R("field")[n] = 1 .. Len(F(n))
        /\ \A k \in 1 .. Len(F(n)) :
             /\ R("field")[n][k].tracer = F(n)[k]
             /\ S(n).accumulator[R("field")[n][k].slot] = <<F(n)[k], m[n].acc>>
  <2> HIDE DEF R, S, N, F
  <2>1. ASSUME NEW n \in 1 .. N
        PROVE  /\ S(n).ids[order[n][2]] = m[n].name /\ S(n).end[order[n][2]] = End[m[n].name]
               /\ R("time")[n] = TimeRow(from[n].win)
               /\ R("horizontal")[n] = Horizontal[m[n].name]
               /\ R("vertical")[n] = Vertical[m[n].name]
               /\ Len(R("field")[n]) = Len(F(n)) /\ DOMAIN R("field")[n] = 1 .. Len(F(n))
               /\ \A k \in 1 .. Len(F(n)) :
                    /\ R("field")[n][k].tracer = F(n)[k]
                    /\ S(n).accumulator[R("field")[n][k].slot] = <<F(n)[k], m[n].acc>>
    <3>1. \A name : R(name)[n] = Row(S(n)[name], order[n][2])
      BY <1>2
    <3>2. m[n].name = from[n].name /\ m[n].acc = from[n].acc
      BY <1>1
    <3>3. ReadsAs(S(n), order[n][2], from[n])
      BY <1>3
    <3>4. /\ S(n).ids[order[n][2]] = m[n].name /\ S(n).end[order[n][2]] = End[m[n].name]
          /\ R("time")[n] = TimeRow(from[n].win)
          /\ R("horizontal")[n] = Horizontal[m[n].name]
          /\ R("vertical")[n] = Vertical[m[n].name]
      BY <3>1, <3>2, <3>3 DEF ReadsAs
    <3>5. /\ Len(R("field")[n]) = Len(F(n)) /\ DOMAIN R("field")[n] = 1 .. Len(F(n))
          /\ \A k \in 1 .. Len(F(n)) :
               /\ R("field")[n][k].tracer = F(n)[k]
               /\ S(n).accumulator[R("field")[n][k].slot] = <<F(n)[k], m[n].acc>>
      <4> DEFINE row == Row(S(n)["field"], order[n][2])
      <4>1. R("field")[n] = row
        BY <3>1
      <4>2. /\ Len(row) = Len(F(n)) /\ DOMAIN row = 1 .. Len(F(n))
            /\ \A k \in 1 .. Len(F(n)) :
                 /\ row[k].tracer = F(n)[k]
                 /\ S(n).accumulator[row[k].slot] = <<F(n)[k], from[n].acc>>
        BY <3>3 DEF ReadsAs, F
      <4> HIDE DEF row
      <4>3. QED
        BY <3>2, <4>1, <4>2
    <3>6. QED
      BY <3>4, <3>5
  <2>2. QED
    BY <2>1
<1>5. \A name : DOMAIN R(name) = 1 .. N
  BY <1>2
<1> HIDE DEF R, S, N
<1>6. /\ [n \in DOMAIN order |-> S(n).ids[order[n][2]]] = [n \in DOMAIN m |-> m[n].name]
      /\ [n \in DOMAIN order |-> S(n).end[order[n][2]]] = [n \in DOMAIN m |-> End[m[n].name]]
  BY <1>1, <1>4
<1>7. /\ FieldRows(m) \in Seq(Seq(Tracer)) /\ DOMAIN FieldRows(m) = 1 .. N
      /\ Len(FieldRows(m)) = N
      /\ \A n \in 1 .. N : FieldRows(m)[n] = F(n) /\ F(n) \in Seq(Tracer)
  <2>1. \A n \in 1 .. N : FieldRows(m)[n] = F(n)
    BY <1>1, FieldRowsAre
  <2>2. QED
    BY <1>1, <2>1, FieldRowsAre
<1>8. TracersOf(R("field")) = FieldRows(m)
  <2> DEFINE t == TracersOf(R("field"))
  <2>1. t = [n \in 1 .. N |-> [k \in DOMAIN R("field")[n] |-> R("field")[n][k].tracer]]
    BY <1>5 DEF TracersOf
  <2> HIDE DEF t, F
  <2>2. ASSUME NEW n \in 1 .. N PROVE t[n] = FieldRows(m)[n]
    <3>1. t[n] = [k \in 1 .. Len(F(n)) |-> F(n)[k]]
      BY <1>4, <2>1
    <3>2. F(n) = [k \in 1 .. Len(F(n)) |-> F(n)[k]]
      BY <1>7, LenProperties
    <3>3. QED
      BY <1>7, <3>1, <3>2
  <2>3. FieldRows(m) = [n \in 1 .. N |-> FieldRows(m)[n]]
    <3>1. FieldRows(m) = [n \in DOMAIN m |-> ParseFields(Requests[m[n].name])]
      BY DEF FieldRows
    <3>2. QED
      BY <1>1, <3>1
  <2>4. QED
    BY <2>1, <2>2, <2>3 DEF t
<1>9. CountRows(R("field")) = Len(FlattenSeq(FieldRows(m)))
  <2> HIDE DEF F
  <2>1. [n \in DOMAIN R("field") |-> Len(R("field")[n])]
          = [n \in 1 .. Len(FieldRows(m)) |-> Len(FieldRows(m)[n])]
    BY <1>4, <1>5, <1>7
  <2>2. QED
    BY <1>7, <2>1, TotalIs DEF CountRows
<1>10. Filled(Ragged(TracersOf(R("field"))), CountRows(R("field"))) = Ragged(FieldRows(m))
  BY <1>7, <1>8, <1>9, FilledIs
<1>11. GatheredFrom(left, right, order, R("field")) = SampleRows(m)
  <2> DEFINE t == GatheredFrom(left, right, order, R("field"))
  <2>1. t = [n \in 1 .. N |-> [k \in DOMAIN R("field")[n] |-> S(n).accumulator[R("field")[n][k].slot]]]
    BY <1>5 DEF GatheredFrom, S
  <2> HIDE DEF t, F
  <2>2. ASSUME NEW n \in 1 .. N PROVE t[n] = SampleRows(m)[n]
    <3>1. t[n] = [k \in 1 .. Len(F(n)) |-> <<F(n)[k], m[n].acc>>]
      BY <1>4, <2>1
    <3>2. SampleRows(m)[n] =
            [k \in 1 .. Len(FieldRows(m)[n]) |-> <<FieldRows(m)[n][k], m[n].acc>>]
      BY <1>1, SampleRowsAre
    <3>3. QED
      BY <1>7, <3>1, <3>2
  <2>3. SampleRows(m) = [n \in 1 .. N |-> SampleRows(m)[n]]
    <3>1. SampleRows(m) = [n \in DOMAIN m |->
            [k \in DOMAIN FieldRows(m)[n] |-> <<FieldRows(m)[n][k], m[n].acc>>]]
      BY DEF SampleRows
    <3>2. QED
      BY <1>1, <3>1
  <2>4. QED
    BY <2>1, <2>2, <2>3 DEF t
<1>12. /\ TimeRows(m) \in Seq(Seq(TimeItem)) /\ Len(TimeRows(m)) = N
       /\ \A n \in 1 .. N : TimeRows(m)[n] = Remaining(R("time")[n], b)
                            /\ R("time")[n] \in Seq(TimeItem)
  <2>1. \A n \in 1 .. N : R("time")[n] \in Seq(TimeItem)
    BY ZenonT(60), <1>1, <1>4, TimeRowIs
  <2>2. \A n \in 1 .. N : TimeRows(m)[n] = TimeRow(m[n].win)
    BY <1>1, TimeRowsAre
  <2>3. QED
    BY SMTT(60), <1>1, <1>4, <2>1, <2>2, TimeRowsAre
<1>13. RemainingRows(R("time"), b) = TimeRows(m)
  <2>1. RemainingRows(R("time"), b) = [n \in 1 .. N |-> Remaining(R("time")[n], b)]
    BY <1>5 DEF RemainingRows
  <2>2. TimeRows(m) = [n \in 1 .. N |-> TimeRows(m)[n]]
    <3>1. TimeRows(m) = [n \in DOMAIN m |-> TimeRow(m[n].win)]
      BY DEF TimeRows
    <3>2. QED
      BY <1>1, <3>1
  <2>3. QED
    BY <1>12, <2>1, <2>2
<1>14. CountTimes(R("time"), b) = Len(FlattenSeq(TimeRows(m)))
  <2>1. \A n \in 1 .. N : Cardinality(Unfinished(R("time")[n], b)) = Len(TimeRows(m)[n])
    BY <1>12, RemainingIs
  <2>2. [n \in DOMAIN R("time") |-> Cardinality(Unfinished(R("time")[n], b))]
          = [n \in 1 .. Len(TimeRows(m)) |-> Len(TimeRows(m)[n])]
    BY <1>5, <1>12, <2>1
  <2>3. QED
    BY <1>12, <2>2, TotalIs DEF CountTimes
<1>15. Filled(Ragged(RemainingRows(R("time"), b)), CountTimes(R("time"), b)) = Ragged(TimeRows(m))
  BY <1>12, <1>13, <1>14, FilledIs
<1>16. ASSUME NEW operators, \A e \in Entry : IsRun(operators[e]), NEW name,
              \A n \in 1 .. N : R(name)[n] = operators[m[n].name]
       PROVE  CountedRows(R(name)) = Ragged(OperatorRows(operators, m))
  <2>1. R(name) = OperatorRows(operators, m)
    <3>1. OperatorRows(operators, m) = [n \in 1 .. N |-> operators[m[n].name]]
      BY <1>1 DEF OperatorRows
    <3>2. R(name) = [n \in 1 .. N |-> R(name)[n]]
      BY <1>2
    <3>3. QED
      BY <1>16, <3>1, <3>2
  <2>2. OperatorRows(operators, m) \in Seq(Seq(OperatorsOf(operators)))
    BY <1>16, OperatorRowsAre
  <2>3. QED
    BY <2>1, <2>2, CountedIs
<1>17. /\ CountedRows(R("horizontal")) = Ragged(OperatorRows(Horizontal, m))
       /\ CountedRows(R("vertical")) = Ragged(OperatorRows(Vertical, m))
  BY <1>4, <1>16, RunsAre
<1>18. CopyOrdered(left, right, order, b) =
           [ids |-> [n \in DOMAIN order |-> S(n).ids[order[n][2]]],
            end |-> [n \in DOMAIN order |-> S(n).end[order[n][2]]],
            field |-> OwnSlots(Filled(Ragged(TracersOf(R("field"))), CountRows(R("field")))),
            accumulator |-> FlattenSeq(GatheredFrom(left, right, order, R("field"))),
            time |-> Filled(Ragged(RemainingRows(R("time"), b)), CountTimes(R("time"), b)),
            horizontal |-> CountedRows(R("horizontal")),
            vertical |-> CountedRows(R("vertical")),
            first |-> 0]
  BY CopyOrderedRows DEF R, S
<1>19. QED
  BY <1>6, <1>10, <1>11, <1>15, <1>17, <1>18, PackedRows

-----------------------------------------------------------------------------
(* Windows cut at a boundary.                                              *)

\* No window reaches back to the sentinel, and none is empty.
Bounded(win) ==
  \A c \in Component :
    win[c] # Unused => Sentinel <= win[c].lo /\ win[c].lo < win[c].hi
Windowed(p) == \A i \in 1 .. Len(p) : Bounded(p[i].win)

LEMMA CutIs ==
  ASSUME NEW win \in Windows, NEW t \in Nat, NEW c \in Component
  PROVE  LET cut == ClampWindows(win, t)
         IN  /\ cut \in Windows
             /\ win[c].lo \in Int /\ win[c].hi \in Int
             /\ cut[c] # Unused <=> win[c].hi > t
             /\ win[c].hi > t => /\ win[c] # Unused
                                 /\ cut[c] = [lo |-> Later(win[c].lo, t), hi |-> win[c].hi]
PROOF
<1> DEFINE cut == ClampWindows(win, t)
<1>1. \A x \in Component : win[x].lo \in Int /\ win[x].hi \in Int
  BY DEF Windows, Interval
<1>2. cut = [x \in Component |->
               IF win[x].hi > t THEN [lo |-> Later(win[x].lo, t), hi |-> win[x].hi] ELSE Unused]
  BY DEF ClampWindows
<1>3. \A x \in Component : [lo |-> Later(win[x].lo, t), hi |-> win[x].hi] \in Interval
  BY <1>1 DEF Later, Interval
<1>4. Unused \in Interval
  BY DEF Unused, Interval
<1> HIDE DEF cut
<1>5. cut \in Windows
  BY <1>2, <1>3, <1>4 DEF Windows
<1>6. ASSUME win[c].hi > t
      PROVE  win[c] # Unused /\ [lo |-> Later(win[c].lo, t), hi |-> win[c].hi] # Unused
  <2>1. win[c].hi # 0
    BY <1>1, <1>6
  <2>2. QED
    BY <2>1 DEF Unused
<1>7. QED
  BY <1>1, <1>2, <1>5, <1>6 DEF cut

\* Cutting the times of an entry cuts its windows.
LEMMA ClampTimeRow ==
  ASSUME NEW win \in Windows, NEW t \in Nat
  PROVE  TimeRow(ClampWindows(win, t)) = Remaining(TimeRow(win), t)
PROOF
<1> DEFINE cut == ClampWindows(win, t)
           row == TimeRow(win)
           T == UsedAt(win)
           U == UsedAt(cut)
           W == Unfinished(row, t)
           q == Remaining(row, t)
           s == [n \in DOMAIN Components |-> TimeOf(win, Components[n])]
           d == [n \in DOMAIN Components |-> TimeOf(cut, Components[n])]
           r == [n \in DOMAIN row |-> Clamped(row[n], t)]
<1>1. /\ DOMAIN Components = 1 .. Len(Components) /\ Len(Components) \in Nat
      /\ \A n \in 1 .. Len(Components) : Components[n] \in Component
  BY ComponentsAre, LenProperties, ElementOfSeq
<1>2. cut \in Windows
  <2>1. CASE Component = {}
    BY <2>1 DEF ClampWindows, Windows
  <2>2. CASE Component # {}
    BY <2>2, CutIs
  <2>3. QED
    BY <2>1, <2>2
<1>3. \A c \in Component :
        /\ cut[c] # Unused <=> win[c].hi > t
        /\ win[c].hi > t => /\ win[c] # Unused
                            /\ cut[c] = [lo |-> Later(win[c].lo, t), hi |-> win[c].hi]
  BY CutIs
<1>4. T \in SUBSET Nat /\ U \in SUBSET T
  <2>1. T \in SUBSET Nat
    BY <1>1 DEF UsedAt
  <2>2. \A n \in DOMAIN Components : cut[Components[n]] # Unused => win[Components[n]] # Unused
    BY <1>1, <1>3
  <2>3. QED
    BY <2>1, <2>2 DEF UsedAt
<1>5. row \in Seq(TimeItem) /\ Picks(row, s, T)
  BY TimeRowIs
<1>6. TimeRow(cut) \in Seq(TimeItem) /\ Picks(TimeRow(cut), d, U)
  BY <1>2, TimeRowIs
<1>7. q \in Seq(TimeItem) /\ Picks(q, r, W)
  BY <1>5, RemainingIs
<1>8. W \in SUBSET (1 .. Len(row)) /\ DOMAIN row = 1 .. Len(row) /\ Len(row) \in Nat /\ Len(q) \in Nat
  BY <1>5, <1>7, LenProperties DEF Unfinished
<1>9. PICK f : Listing(f, Len(row), T, Less) /\ \A k \in 1 .. Len(row) : row[k] = s[f[k]]
  BY <1>5 DEF Picks
<1>10. ASSUME NEW k \in 1 .. Len(row)
       PROVE  (f[k] \in U <=> k \in W) /\ (k \in W => r[k] = d[f[k]])
  <2> DEFINE c == Components[f[k]]
  <2>1. f[k] \in T /\ f[k] \in DOMAIN Components
    BY <1>9 DEF Listing, UsedAt
  <2>2. c \in Component
    BY <1>1, <2>1
  <2>3. row[k] = [lo |-> win[c].lo, hi |-> win[c].hi, weight |-> c]
    BY <1>9, <2>1 DEF TimeOf
  <2>4. d[f[k]] = [lo |-> cut[c].lo, hi |-> cut[c].hi, weight |-> c]
    BY <2>1 DEF TimeOf
  <2>5. f[k] \in U <=> cut[c] # Unused
    BY <2>1 DEF UsedAt
  <2> HIDE DEF c, cut, d, row
  <2>6. k \in W <=> win[c].hi > t
    BY <1>8, <2>3 DEF Unfinished
  <2>7. r[k] = Clamped(row[k], t)
    BY <1>8
  <2>8. Clamped(row[k], t) = [lo |-> Later(win[c].lo, t), hi |-> win[c].hi, weight |-> c]
    BY <2>3 DEF Clamped
  <2> HIDE DEF U, W, r
  <2>9. f[k] \in U <=> k \in W
    BY <1>3, <2>2, <2>5, <2>6
  <2>10. ASSUME k \in W PROVE r[k] = d[f[k]]
    <3>1. cut[c].lo = Later(win[c].lo, t) /\ cut[c].hi = win[c].hi
      <4>1. win[c].hi > t
        BY <2>6, <2>10
      <4>2. cut[c] = [lo |-> Later(win[c].lo, t), hi |-> win[c].hi]
        BY Zenon, <1>3, <2>2, <4>1
      <4>3. QED
        BY <4>2
    <3>2. QED
      BY <2>4, <2>7, <2>8, <3>1
  <2>11. QED
    BY <2>9, <2>10
<1> HIDE DEF cut, row, T, U, W, q, s, d, r
<1>11. Picks(q, d, U)
  BY <1>4, <1>7, <1>8, <1>9, <1>10, PicksTwice
<1>12. TimeRow(cut) = q
  BY <1>4, <1>6, <1>7, <1>11, PicksUnique
<1>13. QED
  BY <1>12 DEF cut, q, row

\* Nothing is cut of times that all start at the boundary or later.
LEMMA RemainingAll ==
  ASSUME NEW row \in Seq(TimeItem), NEW b \in Int,
         \A k \in 1 .. Len(row) : row[k].lo >= b /\ row[k].hi > b
  PROVE  Remaining(row, b) = row
PROOF
<1> DEFINE W == Unfinished(row, b)
           q == Remaining(row, b)
           r == [n \in DOMAIN row |-> Clamped(row[n], b)]
<1>1. q \in Seq(TimeItem) /\ Picks(q, r, W)
  BY RemainingIs
<1>2. DOMAIN row = 1 .. Len(row) /\ Len(row) \in Nat
  BY LenProperties
<1>3. W = 1 .. Len(row)
  BY <1>2 DEF Unfinished
<1>4. \A k \in 1 .. Len(row) : row[k] \in TimeItem
  BY ElementOfSeq
<1>5. ASSUME NEW k \in 1 .. Len(row) PROVE r[k] = row[k]
  <2>1. row[k] \in TimeItem /\ row[k].lo >= b
    BY <1>4
  <2>2. Clamped(row[k], b) = row[k]
    BY <2>1 DEF Clamped, Later, TimeItem
  <2>3. QED
    BY <1>2, <2>2
<1>6. r = row
  <2>1. r = [k \in 1 .. Len(row) |-> r[k]] /\ row = [k \in 1 .. Len(row) |-> row[k]]
    BY <1>2
  <2>2. QED
    BY <1>5, <2>1
<1> HIDE DEF q, r, W
<1>7. Picks(row, row, 1 .. Len(row))
  BY PicksAll
<1>8. 1 .. Len(row) \in SUBSET Nat
  BY <1>2
<1>9. q = row
  BY <1>1, <1>3, <1>6, <1>7, <1>8, PicksUnique
<1>10. QED
  BY <1>9 DEF q

\* The times of an entry are those of its windows.
LEMMA TimeItems ==
  ASSUME NEW win \in Windows, NEW k \in 1 .. Len(TimeRow(win))
  PROVE  \E c \in Component : win[c] # Unused /\ TimeRow(win)[k] = TimeOf(win, c)
PROOF
<1> DEFINE row == TimeRow(win)
           s == [n \in DOMAIN Components |-> TimeOf(win, Components[n])]
<1>1. row \in Seq(TimeItem) /\ Picks(row, s, UsedAt(win))
  BY TimeRowIs
<1>2. PICK f : Listing(f, Len(row), UsedAt(win), Less) /\ \A i \in 1 .. Len(row) : row[i] = s[f[i]]
  BY <1>1 DEF Picks
<1>3. /\ DOMAIN Components = 1 .. Len(Components)
      /\ \A n \in 1 .. Len(Components) : Components[n] \in Component
  BY ComponentsAre, LenProperties, ElementOfSeq
<1>4. f[k] \in UsedAt(win) /\ f[k] \in DOMAIN Components
  BY <1>2 DEF Listing, UsedAt
<1>5. Components[f[k]] \in Component /\ win[Components[f[k]]] # Unused
  BY <1>3, <1>4 DEF UsedAt
<1>6. row[k] = TimeOf(win, Components[f[k]])
  BY <1>2, <1>4
<1>7. QED
  BY <1>5, <1>6

\* A copy at the sentinel cuts nothing.
LEMMA SentinelTimeRow ==
  ASSUME NEW win \in Windows, Bounded(win)
  PROVE  Remaining(TimeRow(win), Sentinel) = TimeRow(win)
PROOF
<1>1. Sentinel \in Int /\ TimeRow(win) \in Seq(TimeItem)
  BY SentinelAssumption, TimeRowIs
<1>2. ASSUME NEW k \in 1 .. Len(TimeRow(win))
      PROVE  TimeRow(win)[k].lo >= Sentinel /\ TimeRow(win)[k].hi > Sentinel
  <2>1. PICK c \in Component : win[c] # Unused /\ TimeRow(win)[k] = TimeOf(win, c)
    BY TimeItems
  <2>2. Sentinel <= win[c].lo /\ win[c].lo < win[c].hi /\ win[c].lo \in Int /\ win[c].hi \in Int
    BY <2>1 DEF Bounded, Windows, Interval
  <2>3. TimeRow(win)[k].lo = win[c].lo /\ TimeRow(win)[k].hi = win[c].hi
    BY <2>1 DEF TimeOf
  <2>4. QED
    BY <1>1, <2>2, <2>3
<1>3. QED
  BY <1>1, <1>2, RemainingAll

-----------------------------------------------------------------------------
(* Compacting.                                                             *)

\* The entries of a plan after its completed prefix, before they are cut.
Rest(p, t) ==
  [j \in 1 .. Len(p) - CompletedPrefix(p, t) |-> p[CompletedPrefix(p, t) + j]]

LEMMA RestIs ==
  ASSUME NEW p \in Plan, NEW t \in Nat
  PROVE  /\ CompletedPrefix(p, t) \in 0 .. Len(p) /\ Len(p) \in Nat
         /\ Rest(p, t) \in Plan /\ Len(Rest(p, t)) = Len(p) - CompletedPrefix(p, t)
         /\ DOMAIN Rest(p, t) = 1 .. Len(p) - CompletedPrefix(p, t)
         /\ CompactPlan(p, t) \in Plan /\ Len(CompactPlan(p, t)) = Len(Rest(p, t))
         /\ \A j \in 1 .. Len(Rest(p, t)) :
              /\ CompletedPrefix(p, t) + j \in 1 .. Len(p)
              /\ Rest(p, t)[j] = p[CompletedPrefix(p, t) + j]
              /\ CompactPlan(p, t)[j].name = Rest(p, t)[j].name
              /\ CompactPlan(p, t)[j].acc = Rest(p, t)[j].acc
              /\ CompactPlan(p, t)[j].win = ClampWindows(Rest(p, t)[j].win, t)
              /\ TimeRow(CompactPlan(p, t)[j].win) = Remaining(TimeRow(Rest(p, t)[j].win), t)
PROOF
<1> DEFINE k == CompletedPrefix(p, t)
           kept == SubSeq(p, k + 1, Len(p))
           q == [j \in DOMAIN kept |-> [kept[j] EXCEPT !.win = ClampWindows(kept[j].win, t)]]
           n == Len(p) - k
           r == Rest(p, t)
<1>1. /\ k \in 0 .. Len(p) /\ Len(p) \in Nat
      /\ \A i \in 1 .. Len(p) : p[i] \in PlanEntry
  BY CompletedPrefixIs, PlanElement
<1>2. CompactPlan(p, t) = q
  BY DEF CompactPlan
<1>3. r = [j \in 1 .. n |-> p[k + j]]
  BY DEF Rest
<1> HIDE DEF k, r
<1>4. n \in Nat /\ k + n = Len(p) /\ \A j \in 1 .. n : k + j \in 1 .. Len(p)
  BY <1>1
<1>5. r \in [1 .. n -> PlanEntry]
  BY <1>1, <1>3, <1>4
<1>6. r \in Plan /\ Len(r) = n /\ DOMAIN r = 1 .. n
  BY <1>4, <1>5 DEF Plan
<1>7. /\ kept \in Plan /\ Len(kept) = n /\ DOMAIN kept = 1 .. n
      /\ \A j \in 1 .. n : kept[j] = r[j]
  <2> HIDE DEF n
  <2>1. kept = SubSeq(p, k + 1, k + n) /\ k \in Nat /\ k + n <= Len(p)
    BY <1>1, <1>4
  <2> HIDE DEF kept
  <2>2. p \in Seq(PlanEntry)
    BY DEF Plan
  <2>3. kept \in Seq(PlanEntry) /\ Len(kept) = n /\ \A j \in 1 .. n : kept[j] = p[k + j]
    <3> DEFINE part == SubSeq(p, k + 1, k + n)
    <3>1. n \in Nat
      BY <1>4
    <3>2. part \in Seq(PlanEntry) /\ Len(part) = n /\ \A j \in 1 .. n : part[j] = p[k + j]
      BY ZenonT(60), <2>1, <2>2, <3>1, SubSeqIs
    <3> HIDE DEF part
    <3>3. kept = part
      BY <2>1 DEF part
    <3>4. QED
      BY <3>2, <3>3
  <2>4. QED
    BY <1>3, <1>4, <2>3, LenProperties DEF Plan
<1> HIDE DEF kept, n
<1>8. q = [j \in 1 .. n |-> [r[j] EXCEPT !.win = ClampWindows(r[j].win, t)]]
  BY <1>7
<1> HIDE DEF q
<1>9. \A j \in 1 .. n : r[j] \in PlanEntry /\ r[j].win \in Windows
  BY <1>5 DEF PlanEntry
<1>10. ASSUME NEW win \in Windows PROVE ClampWindows(win, t) \in Windows
  <2>1. CASE Component = {}
    BY <2>1 DEF ClampWindows, Windows
  <2>2. CASE Component # {}
    BY <2>2, CutIs
  <2>3. QED
    BY <2>1, <2>2
<1>11. ASSUME NEW j \in 1 .. n
       PROVE  /\ q[j] \in PlanEntry /\ q[j].name = r[j].name /\ q[j].acc = r[j].acc
              /\ q[j].win = ClampWindows(r[j].win, t)
              /\ TimeRow(q[j].win) = Remaining(TimeRow(r[j].win), t)
  <2>1. r[j] \in PlanEntry /\ ClampWindows(r[j].win, t) \in Windows
    BY <1>9, <1>10
  <2>2. q[j] = [r[j] EXCEPT !.win = ClampWindows(r[j].win, t)]
    BY <1>8
  <2>3. /\ q[j] \in PlanEntry /\ q[j].name = r[j].name /\ q[j].acc = r[j].acc
        /\ q[j].win = ClampWindows(r[j].win, t)
    BY <2>1, <2>2 DEF PlanEntry
  <2>4. QED
    BY <1>9, <2>3, ClampTimeRow
<1>12. q \in [1 .. n -> PlanEntry]
  BY <1>8, <1>11
<1>13. q \in Plan /\ Len(q) = n
  BY <1>4, <1>12 DEF Plan
<1>14. \A j \in 1 .. n : k + j \in 1 .. Len(p) /\ r[j] = p[k + j]
  BY <1>3, <1>4
<1>15. n = Len(p) - k
  BY DEF n
<1>16. QED
  BY <1>1, <1>2, <1>6, <1>11, <1>13, <1>14, <1>15 DEF k, r

\* The arrays of entries that differ in nothing but unused windows.
LEMMA PackedSame ==
  ASSUME NEW p \in Plan, NEW m \in Plan, NEW a, Len(m) = Len(p),
         \A n \in 1 .. Len(p) : /\ m[n].name = p[n].name /\ m[n].acc = p[n].acc
                                /\ TimeRow(m[n].win) = TimeRow(p[n].win)
  PROVE  Packed(m, a) = Packed(p, a)
PROOF
<1>1. DOMAIN m = 1 .. Len(p) /\ DOMAIN p = 1 .. Len(p)
  BY PlanElement
<1>2. /\ [i \in DOMAIN m |-> m[i].name] = [i \in DOMAIN p |-> p[i].name]
      /\ [i \in DOMAIN m |-> End[m[i].name]] = [i \in DOMAIN p |-> End[p[i].name]]
  BY <1>1
<1>3. FieldRows(m) = FieldRows(p)
  BY <1>1 DEF FieldRows
<1>4. SampleRows(m) = SampleRows(p)
  <2> DEFINE f == FieldRows(p)
             row(x, i) == [n \in DOMAIN f[i] |-> <<f[i][n], x[i].acc>>]
  <2>1. \A i \in 1 .. Len(p) : row(m, i) = row(p, i)
    <3> HIDE DEF f
    <3>1. QED
      OBVIOUS
  <2>2. SampleRows(m) = [i \in 1 .. Len(p) |-> row(m, i)]
        /\ SampleRows(p) = [i \in 1 .. Len(p) |-> row(p, i)]
    BY <1>1, <1>3 DEF SampleRows
  <2> HIDE DEF row
  <2>3. QED
    BY <2>1, <2>2
<1>5. TimeRows(m) = TimeRows(p)
  BY <1>1 DEF TimeRows
<1>6. /\ OperatorRows(Horizontal, m) = OperatorRows(Horizontal, p)
      /\ OperatorRows(Vertical, m) = OperatorRows(Vertical, p)
  BY <1>1 DEF OperatorRows
<1>7. QED
  BY <1>2, <1>3, <1>4, <1>5, <1>6, PackedRows

\* The order that compacting copies in: the entries after the prefix.
Later1(k, n) == [j \in 1 .. n |-> <<0, k + j>>]

LEMMA KeptIs ==
  ASSUME NEW p \in Plan, Sorted(p), NEW t \in Nat
  PROVE  Selected([n \in 1 .. Len(p) |-> <<0, n>>],
                  {n \in 1 .. Len(p) : End[p[n].name] > t})
           = Later1(CompletedPrefix(p, t), Len(p) - CompletedPrefix(p, t))
PROOF
<1> DEFINE k == CompletedPrefix(p, t)
           l == Len(p)
           n == l - k
           s == [i \in 1 .. l |-> <<0, i>>]
           T == {i \in 1 .. l : End[p[i].name] > t}
           q == Later1(k, n)
           f == [j \in 1 .. n |-> k + j]
           P == {0} \X Nat
<1>1. /\ k \in 0 .. l /\ l \in Nat
      /\ \A i \in 1 .. l : End[p[i].name] \in Int
  BY CompletedPrefixIs, PlanElement
<1>2. \A i \in 1 .. l : End[p[i].name] > t <=> i > k
  <2>1. \A i \in 1 .. l : i <= k <=> End[p[i].name] <= t
    BY CompletedPrefixSplits
  <2>2. QED
    BY <1>1, <2>1
<1> HIDE DEF k, l
<1>3. n \in Nat /\ \A j \in 1 .. n : k + j \in 1 .. l /\ k + j > k
  BY <1>1
<1>4. \A i \in 1 .. l : i > k => i - k \in 1 .. n /\ k + (i - k) = i
  BY <1>1
<1>5. T \in SUBSET (1 .. l) /\ T \in SUBSET Nat /\ \A i \in 1 .. l : i \in T <=> i > k
  BY <1>1, <1>2
<1>6. s \in Seq(P) /\ Len(s) = l
  <2>1. s \in [1 .. l -> P]
    BY <1>1
  <2>2. QED
    BY <1>1, <2>1
<1> HIDE DEF n, T
<1>7. q \in Seq(P) /\ Len(q) = n
  <2>1. \A j \in 1 .. n : <<0, k + j>> \in P
    BY <1>1, <1>3
  <2>2. q \in [1 .. n -> P]
    BY <2>1 DEF Later1
  <2>3. QED
    BY <1>3, <2>2
<1>8. Listing(f, n, T, Less)
  <2>1. \A j \in 1 .. n : k + j \in T
    BY <1>3, <1>5
  <2>2. f \in [1 .. n -> T]
    BY <2>1
  <2>3. ASSUME NEW i \in 1 .. n, NEW j \in 1 .. n, i < j PROVE <<f[i], f[j]>> \in Less
    <3>1. f[i] \in T /\ f[j] \in T /\ f[i] < f[j]
      BY <1>1, <2>1, <2>3
    <3> HIDE DEF f
    <3>2. QED
      BY <1>5, <3>1, LessIs
  <2>4. ASSUME NEW i \in T PROVE \E j \in 1 .. n : f[j] = i
    <3>1. i \in 1 .. l /\ i > k
      BY <1>5
    <3>2. i - k \in 1 .. n /\ f[i - k] = i
      BY <1>4, <3>1
    <3>3. QED
      BY <3>2
  <2> HIDE DEF f
  <2>5. QED
    BY <2>2, <2>3, <2>4 DEF Listing
<1>9. \A j \in 1 .. n : q[j] = s[f[j]]
  BY <1>3 DEF Later1
<1> HIDE DEF s, q, f, P
<1>10. Picks(q, s, T)
  BY <1>7, <1>8, <1>9 DEF Picks
<1>11. Selected(s, T) \in Seq(P) /\ Picks(Selected(s, T), s, T)
  BY <1>5, <1>6, SelectedIs
<1>12. Selected(s, T) = q
  BY <1>5, <1>7, <1>10, <1>11, PicksUnique
<1>13. QED
  BY <1>12 DEF s, T, q, n, k, l

LEMMA PackedFirst ==
  ASSUME NEW p, NEW a, NEW b
  PROVE  /\ [Packed(p, a) EXCEPT !.first = b] = Packed(p, b)
         /\ Packed(p, a).first = a
PROOF
<1> DEFINE I == [i \in DOMAIN p |-> p[i].name]
           E == [i \in DOMAIN p |-> End[p[i].name]]
           F == OwnSlots(Ragged(FieldRows(p)))
           A == FlattenSeq(SampleRows(p))
           T == Ragged(TimeRows(p))
           H == Ragged(OperatorRows(Horizontal, p))
           V == Ragged(OperatorRows(Vertical, p))
<1>1. ASSUME NEW x
      PROVE  Packed(p, x) = [ids |-> I, end |-> E, field |-> F, accumulator |-> A,
                             time |-> T, horizontal |-> H, vertical |-> V, first |-> x]
  BY PackedRows
<1> HIDE DEF I, E, F, A, T, H, V
<1>2. QED
  BY <1>1

\* compact_obs_plan gives the arrays of the compacted plan, whether it copies
\* or not.
LEMMA CompactPackedIs ==
  ASSUME NEW p \in Plan, Sorted(p), Windowed(p), NEW a, NEW t \in Nat
  PROVE  CompactPacked(Packed(p, a), t) = Packed(CompactPlan(p, t), 0)
PROOF
<1> DEFINE P == Packed(p, a)
           k == CompletedPrefix(p, t)
           n == Len(p) - k
           m == CompactPlan(p, t)
           r == Rest(p, t)
           kept == Later1(k, n)
           started == \E i \in DOMAIN P.time.data : P.time.data[i].lo < t
<1>1. /\ k \in 0 .. Len(p) /\ Len(p) \in Nat /\ r \in Plan /\ Len(r) = n /\ m \in Plan /\ Len(m) = n
      /\ \A j \in 1 .. n :
           /\ k + j \in 1 .. Len(p) /\ r[j] = p[k + j]
           /\ m[j].name = r[j].name /\ m[j].acc = r[j].acc
           /\ TimeRow(m[j].win) = Remaining(TimeRow(r[j].win), t)
  BY RestIs
<1>2. /\ P.ids = [i \in 1 .. Len(p) |-> p[i].name]
      /\ P.end = [i \in 1 .. Len(p) |-> End[p[i].name]]
      /\ P.time = Ragged(TimeRows(p))
      /\ [P EXCEPT !.first = 0] = Packed(p, 0)
  <2>1. DOMAIN p = 1 .. Len(p)
    BY PlanElement
  <2>2. P.ids = [i \in 1 .. Len(p) |-> p[i].name] /\ P.end = [i \in 1 .. Len(p) |-> End[p[i].name]]
    BY <2>1, PackedRows
  <2>3. P.time = Ragged(TimeRows(p))
    BY PackedRows
  <2>4. [P EXCEPT !.first = 0] = Packed(p, 0)
    BY PackedFirst
  <2>5. QED
    BY <2>2, <2>3, <2>4
<1>3. DOMAIN P.ids = 1 .. Len(p) /\ Len(P.ids) = Len(p)
  <2>1. P.ids \in [1 .. Len(p) -> Entry]
    BY <1>2, PlanElement
  <2>2. QED
    BY <1>1, <2>1
<1> HIDE DEF P
<1>4. /\ [i \in DOMAIN P.ids |-> <<0, i>>] = [i \in 1 .. Len(p) |-> <<0, i>>]
      /\ {i \in DOMAIN P.ids : P.end[i] > t} = {i \in 1 .. Len(p) : End[p[i].name] > t}
  BY <1>2, <1>3
<1>5. Selected([i \in DOMAIN P.ids |-> <<0, i>>], {i \in DOMAIN P.ids : P.end[i] > t}) = kept
  BY <1>4, KeptIs
<1>6. n \in Nat /\ DOMAIN kept = 1 .. n /\ Len(kept) = n
  <2>1. n \in Nat
    BY <1>1
  <2> HIDE DEF n
  <2>2. DOMAIN kept = 1 .. n
    BY DEF Later1
  <2>3. kept \in [1 .. n -> {0} \X Int]
    BY <1>1, <2>1 DEF Later1
  <2>4. QED
    BY <2>1, <2>2, <2>3
<1>7. CompactPacked(P, t) =
        IF Len(kept) = Len(P.ids) /\ ~started THEN [P EXCEPT !.first = 0]
        ELSE CopyOrdered(P, EmptyPacked, kept, t)
  BY <1>5 DEF CompactPacked
<1>8. CASE Len(kept) = Len(P.ids) /\ ~started
  <2>1. k = 0 /\ n = Len(p)
    BY <1>1, <1>3, <1>6, <1>8
  <2>2. ASSUME NEW j \in 1 .. Len(p)
        PROVE  /\ m[j].name = p[j].name /\ m[j].acc = p[j].acc
               /\ TimeRow(m[j].win) = TimeRow(p[j].win)
    <3>1. r[j] = p[j]
      <4>1. 0 + j = j
        OBVIOUS
      <4>2. QED
        BY <1>1, <2>1, <4>1
    <3>2. p[j].win \in Windows /\ Bounded(p[j].win)
      BY PlanElement DEF Windowed
    <3> DEFINE row == TimeRow(p[j].win)
    <3>3. row \in Seq(TimeItem)
      BY <3>2, TimeRowIs
    <3>4. ASSUME NEW i \in 1 .. Len(row) PROVE row[i].lo >= t /\ row[i].hi > t
      <4>1. PICK c \in Component : p[j].win[c] # Unused /\ row[i] = TimeOf(p[j].win, c)
        BY <3>2, TimeItems
      <4>2. /\ row[i].lo = p[j].win[c].lo /\ row[i].hi = p[j].win[c].hi
            /\ row[i].lo < row[i].hi /\ row[i].lo \in Int /\ row[i].hi \in Int
        BY <3>2, <4>1 DEF TimeOf, Bounded, Windows, Interval
      <4>3. \E x \in DOMAIN P.time.data : P.time.data[x] = row[i]
        <5> DEFINE rows == TimeRows(p)
                   R == Ragged(rows)
        <5>1. rows \in Seq(Seq(TimeItem)) /\ Len(rows) = Len(p) /\ rows[j] = row
          BY TimeRowsAre
        <5> HIDE DEF rows, row
        <5>2. Layout(R, TimeItem, rows)
          BY <5>1, RaggedIs
        <5> HIDE DEF R
        <5>3. /\ R.data \in Seq(TimeItem) /\ R.start[j] \in Nat
              /\ R.start[j] + Len(rows[j]) <= Len(R.data)
              /\ R.data[R.start[j] + i] = rows[j][i]
          BY <5>1, <5>2 DEF Layout
        <5> DEFINE A == R.start[j]
                   L == Len(R.data)
                   B == Len(row)
        <5>4. A \in Nat /\ L \in Nat /\ B \in Nat /\ A + B <= L /\ i \in 1 .. B
          BY <3>3, <5>1, <5>3, LenProperties
        <5>5. DOMAIN R.data = 1 .. L
          BY <5>3, LenProperties
        <5> HIDE DEF A, L, B
        <5>6. A + i \in 1 .. L
          BY <5>4
        <5>7. QED
          BY <1>2, <5>1, <5>3, <5>5, <5>6 DEF A, R, rows
      <4>4. ~ (row[i].lo < t)
        BY <1>8, <4>3
      <4>5. QED
        BY <4>2, <4>4
    <3> HIDE DEF row
    <3>5. Remaining(row, t) = row
      BY <3>3, <3>4, RemainingAll
    <3>6. QED
      BY <1>1, <2>1, <3>1, <3>5 DEF row
  <2>3. Packed(m, 0) = Packed(p, 0)
    BY <1>1, <2>1, <2>2, PackedSame
  <2>4. QED
    BY <1>2, <1>7, <1>8, <2>3 DEF P
<1>9. CASE ~ (Len(kept) = Len(P.ids) /\ ~started)
  <2>1. CompactPacked(P, t) = CopyOrdered(P, EmptyPacked, kept, t)
    BY <1>7, <1>9
  <2>2. Copies(m, r, t)
    BY <1>1 DEF Copies
  <2>3. ASSUME NEW j \in 1 .. Len(r)
        PROVE  ReadsAs(SourceOf(P, EmptyPacked, kept, j), kept[j][2], r[j])
    <3>1. j \in 1 .. n
      BY <1>1
    <3>2. kept[j] = <<0, k + j>> /\ k + j \in 1 .. Len(p) /\ r[j] = p[k + j]
      BY <1>1, <3>1 DEF Later1
    <3>3. kept[j][1] = 0 /\ kept[j][2] = k + j
      BY <3>2
    <3>4. SourceOf(P, EmptyPacked, kept, j) = P
      BY <3>3 DEF SourceOf
    <3>5. ReadsAs(P, k + j, p[k + j])
      BY <3>2, PackedReads DEF P
    <3>6. QED
      BY <3>2, <3>3, <3>4, <3>5
  <2> HIDE DEF kept, m, r, n, k
  <2>4. CopyOrdered(P, EmptyPacked, kept, t) = Packed(m, 0)
    <3>1. t \in Int /\ DOMAIN kept = 1 .. Len(r) /\ m \in Plan /\ r \in Plan
      BY <1>1, <1>6
    <3>2. QED
      BY ZenonT(60), <2>2, <2>3, <3>1, CopyOrderedIs
  <2>5. QED
    BY <2>1, <2>4 DEF P, m
<1>10. QED
  BY <1>8, <1>9

-----------------------------------------------------------------------------
(* Stable sorting.                                                         *)

Order(s) == {x \in (1 .. Len(s)) \X (1 .. Len(s)) : Precedes(s, x[1], x[2])}

LEMMA OrderIs ==
  ASSUME NEW s \in Plan
  PROVE  /\ \A i, j \in 1 .. Len(s) : <<i, j>> \in Order(s) <=> Precedes(s, i, j)
         /\ StrictOrder(Order(s), 1 .. Len(s)) /\ Antisymmetric(Order(s), 1 .. Len(s))
         /\ IsFiniteSet(1 .. Len(s)) /\ Cardinality(1 .. Len(s)) = Len(s)
PROOF
<1> DEFINE T == 1 .. Len(s)
<1>1. Len(s) \in Nat /\ \A i \in T : End[s[i].name] \in Int
  BY PlanElement
<1>2. ASSUME NEW i \in T, NEW j \in T PROVE <<i, j>> \in Order(s) <=> Precedes(s, i, j)
  <2>1. <<i, j>> \in T \X T /\ <<i, j>>[1] = i /\ <<i, j>>[2] = j
    OBVIOUS
  <2>2. QED
    BY <2>1 DEF Order
<1>3. /\ \A i \in T : ~ Precedes(s, i, i)
      /\ \A i, j, k \in T : Precedes(s, i, j) /\ Precedes(s, j, k) => Precedes(s, i, k)
      /\ \A i, j \in T : i = j \/ Precedes(s, i, j) \/ Precedes(s, j, i)
  BY <1>1 DEF Precedes
<1>4. StrictOrder(Order(s), T)
  BY <1>2, <1>3 DEF StrictOrder
<1>5. Antisymmetric(Order(s), T)
  BY <1>4, StrictIsAntisymmetric
<1>6. IsFiniteSet(T) /\ Cardinality(T) = Len(s)
  <2> DEFINE n == Len(s)
  <2>1. n \in Nat /\ 1 \in Int /\ n \in Int
    BY <1>1
  <2> HIDE DEF n
  <2>2. IsFiniteSet(1 .. n) /\ Cardinality(1 .. n) = n
    BY <2>1, FS_Interval
  <2>3. QED
    BY <2>2 DEF n
<1>7. QED
  BY <1>2, <1>4, <1>5, <1>6

\* p is s in the order q.
Sorts(p, s, q) ==
  /\ Listing(q, Len(s), 1 .. Len(s), Order(s)) /\ p = [k \in 1 .. Len(s) |-> s[q[k]]]

LEMMA StableIs ==
  ASSUME NEW s \in Plan, NEW p \in StableSorts(s)
  PROVE  \E q : Sorts(p, s, q)
PROOF
<1>1. DOMAIN s = 1 .. Len(s)
  BY PlanElement
<1>2. PICK q \in [1 .. Len(s) -> 1 .. Len(s)] :
        /\ \A i, j \in 1 .. Len(s) : i < j => Precedes(s, q[i], q[j])
        /\ p = [k \in 1 .. Len(s) |-> s[q[k]]]
  BY <1>1 DEF StableSorts
<1>3. \A i, j \in 1 .. Len(s) : i < j => <<q[i], q[j]>> \in Order(s)
  BY <1>2, OrderIs
<1>4. Listing(q, Len(s), 1 .. Len(s), Order(s))
  <2> DEFINE T == 1 .. Len(s)
  <2>1. IsFiniteSet(T) /\ Cardinality(T) = Len(s) /\ Antisymmetric(Order(s), T)
    BY OrderIs
  <2>2. q \in [1 .. Cardinality(T) -> T]
        /\ \A i, j \in 1 .. Cardinality(T) : i < j => <<q[i], q[j]>> \in Order(s)
    BY <1>3, <2>1
  <2> HIDE DEF T
  <2>3. Listing(q, Cardinality(T), T, Order(s))
    BY <2>1, <2>2, ChainLists
  <2>4. QED
    BY <2>1, <2>3 DEF T
<1>5. QED
  BY <1>2, <1>4 DEF Sorts

LEMMA SortsIs ==
  ASSUME NEW s \in Plan, NEW p, NEW q, Sorts(p, s, q)
  PROVE  /\ p \in StableSorts(s) /\ p \in Plan /\ Len(p) = Len(s)
         /\ \A k \in 1 .. Len(s) : q[k] \in 1 .. Len(s) /\ p[k] = s[q[k]]
         /\ Windowed(s) => Windowed(p)
PROOF
<1>1. DOMAIN s = 1 .. Len(s)
  BY PlanElement
<1>2. /\ q \in [1 .. Len(s) -> 1 .. Len(s)] /\ p = [k \in 1 .. Len(s) |-> s[q[k]]]
      /\ \A i, j \in 1 .. Len(s) : i < j => <<q[i], q[j]>> \in Order(s)
  BY DEF Sorts, Listing
<1>3. \A i, j \in 1 .. Len(s) : i < j => Precedes(s, q[i], q[j])
  BY <1>2, OrderIs
<1>4. p \in StableSorts(s)
  BY <1>1, <1>2, <1>3 DEF StableSorts
<1>5. p \in Plan /\ Len(p) = Len(s)
  BY <1>4, StableSortsIs
<1>6. QED
  BY <1>2, <1>4, <1>5 DEF Windowed

-----------------------------------------------------------------------------
(* Loading.                                                                *)

Fresh1(entries) == [i \in DOMAIN entries |-> FreshEntry(entries[i])]

LEMMA FreshIs ==
  ASSUME NEW entries \in Seq(Entry)
  PROVE  /\ Fresh1(entries) \in Plan /\ Windowed(Fresh1(entries))
         /\ Len(Fresh1(entries)) = Len(entries) /\ DOMAIN entries = 1 .. Len(entries)
         /\ \A i \in 1 .. Len(entries) : Fresh1(entries)[i].name = entries[i]
PROOF
<1> DEFINE n == Len(entries)
           s == Fresh1(entries)
<1>1. n \in Nat /\ DOMAIN entries = 1 .. n /\ \A i \in 1 .. n : entries[i] \in Entry
  BY LenProperties, ElementOfSeq
<1>2. s = [i \in 1 .. n |-> FreshEntry(entries[i])]
  BY <1>1 DEF Fresh1
<1>3. ASSUME NEW e \in Entry
      PROVE  /\ FreshEntry(e) \in PlanEntry /\ FreshEntry(e).name = e
             /\ Bounded(FreshEntry(e).win)
  <2>1. Window[e] \in Windows /\ Nothing \in Tally
    BY EntryAssumption DEF Nothing, Tally
  <2>2. \A c \in Component : Window[e][c] # Unused =>
          Sentinel <= Window[e][c].lo /\ Window[e][c].lo < Window[e][c].hi
    BY EntryAssumption, SentinelAssumption
  <2>3. QED
    BY <2>1, <2>2 DEF FreshEntry, PlanEntry, Bounded
<1> HIDE DEF s, n
<1>4. s \in [1 .. n -> PlanEntry]
  BY <1>1, <1>2, <1>3
<1>5. s \in Plan /\ Len(s) = n
  BY <1>1, <1>4 DEF Plan
<1>6. \A i \in 1 .. n : s[i].name = entries[i] /\ Bounded(s[i].win)
  BY <1>1, <1>2, <1>3
<1>7. QED
  BY <1>1, <1>5, <1>6 DEF Windowed, s, n

\* A copy at the sentinel is a copy.
LEMMA CopiesItself ==
  ASSUME NEW p \in Plan, Windowed(p)
  PROVE  Copies(p, p, Sentinel)
PROOF
<1>1. \A n \in 1 .. Len(p) : p[n].win \in Windows /\ Bounded(p[n].win)
  BY PlanElement DEF Windowed
<1>2. QED
  BY <1>1, SentinelTimeRow DEF Copies

\* The entries of a file are loaded stably sorted.
LEMMA LoadPackedIs ==
  ASSUME NEW entries \in Seq(Entry)
  PROVE  \E p, q : Sorts(p, Fresh1(entries), q) /\ LoadPacked(entries) = Packed(p, 0)
PROOF
<1> DEFINE s == Fresh1(entries)
           N == Len(entries)
           T == 1 .. N
           Before(i) == Cardinality({j \in DOMAIN entries :
                          \/ End[entries[j]] < End[entries[i]]
                          \/ End[entries[j]] = End[entries[i]] /\ j < i})
           order == [n \in DOMAIN entries |-> CHOOSE i \in DOMAIN entries : Before(i) = n - 1]
           f == [n \in 1 .. Cardinality(T) |->
                   CHOOSE x \in T : Cardinality(Below(Order(s), T, x)) = n - 1]
           p == [k \in T |-> s[order[k]]]
           filed == Packed(s, 0)
<1>1. /\ s \in Plan /\ Windowed(s) /\ Len(s) = N /\ DOMAIN entries = T
      /\ \A i \in T : s[i].name = entries[i]
  BY FreshIs
<1>2. /\ \A i, j \in T : <<i, j>> \in Order(s) <=> Precedes(s, i, j)
      /\ StrictOrder(Order(s), T) /\ IsFiniteSet(T) /\ Cardinality(T) = N
  BY <1>1, OrderIs
<1>3. N \in Nat
  BY LenProperties
<1> HIDE DEF s, T, N, filed
<1>4. \A i \in T : Before(i) = Cardinality(Below(Order(s), T, i))
  <2>1. ASSUME NEW i \in T
        PROVE  {j \in DOMAIN entries :
                  \/ End[entries[j]] < End[entries[i]]
                  \/ End[entries[j]] = End[entries[i]] /\ j < i} = Below(Order(s), T, i)
    BY <1>1, <1>2 DEF Below, Precedes
  <2>2. QED
    BY <2>1
<1> HIDE DEF Before
<1>5. order = f
  <2>1. \A n : (CHOOSE i \in T : Before(i) = n - 1)
                 = (CHOOSE i \in T : Cardinality(Below(Order(s), T, i)) = n - 1)
    <3>1. ASSUME NEW n
          PROVE  \A i : i \in T /\ Before(i) = n - 1
                        <=> i \in T /\ Cardinality(Below(Order(s), T, i)) = n - 1
      BY <1>4
    <3>2. QED
      BY Zenon, <3>1
  <2>2. DOMAIN entries = T /\ 1 .. Cardinality(T) = T
    BY <1>1, <1>2 DEF T
  <2> DEFINE a(n) == CHOOSE i \in T : Before(i) = n - 1
             b(n) == CHOOSE i \in T : Cardinality(Below(Order(s), T, i)) = n - 1
  <2>3. order = [n \in T |-> a(n)] /\ f = [n \in T |-> b(n)]
    BY <2>2
  <2>4. \A n : a(n) = b(n)
    BY <2>1
  <2> HIDE DEF order, f, a, b
  <2>5. QED
    BY <2>3, <2>4
<1>6. Listing(f, N, T, Order(s))
  BY <1>2, OrderRanks
<1> HIDE DEF order, f
<1>7. Sorts(p, s, order)
  BY <1>1, <1>5, <1>6 DEF Sorts, T
<1>8. /\ p \in Plan /\ Len(p) = N /\ Windowed(p)
      /\ \A k \in T : order[k] \in T /\ p[k] = s[order[k]]
  BY <1>1, <1>7, SortsIs DEF T
<1>9. LoadPacked(entries) =
        IF order = [n \in DOMAIN entries |-> n] THEN filed
        ELSE CopyOrdered(filed, EmptyPacked, [n \in DOMAIN entries |-> <<0, order[n]>>], Sentinel)
  BY DEF LoadPacked, order, Before, filed, s, Fresh1
<1>10. CASE order = [n \in DOMAIN entries |-> n]
  <2>1. p = [k \in T |-> s[k]]
    BY <1>1, <1>10
  <2>2. s = [k \in T |-> s[k]]
    BY <1>1, PlanElement DEF s, Fresh1
  <2>3. LoadPacked(entries) = Packed(p, 0)
    BY <1>9, <1>10, <2>1, <2>2 DEF filed
  <2>4. QED
    BY <1>7, <2>3 DEF s
<1>11. CASE order # [n \in DOMAIN entries |-> n]
  <2> DEFINE o == [n \in DOMAIN entries |-> <<0, order[n]>>]
  <2>1. DOMAIN o = 1 .. Len(p) /\ \A n \in 1 .. Len(p) : n \in T /\ o[n] = <<0, order[n]>>
    BY <1>1, <1>8 DEF T
  <2>2. ASSUME NEW n \in 1 .. Len(p)
        PROVE  ReadsAs(SourceOf(filed, EmptyPacked, o, n), o[n][2], p[n])
    <3>1. o[n][1] = 0 /\ o[n][2] = order[n] /\ n \in T
      BY <2>1
    <3>2. SourceOf(filed, EmptyPacked, o, n) = filed
      BY <3>1 DEF SourceOf
    <3>3. order[n] \in 1 .. Len(s) /\ p[n] = s[order[n]]
      BY <1>1, <1>8, <3>1 DEF T
    <3>4. ReadsAs(filed, order[n], s[order[n]])
      BY <1>1, <3>3, PackedReads DEF filed
    <3>5. QED
      BY <3>1, <3>2, <3>3, <3>4
  <2> HIDE DEF o, p
  <2>3. Copies(p, p, Sentinel) /\ Sentinel \in Int
    BY <1>8, CopiesItself, SentinelAssumption
  <2>4. CopyOrdered(filed, EmptyPacked, o, Sentinel) = Packed(p, 0)
    <3>1. Sentinel \in Int /\ DOMAIN o = 1 .. Len(p) /\ p \in Plan
      BY <1>8, <2>1, <2>3
    <3>2. QED
      BY ZenonT(60), <2>2, <2>3, <3>1, CopyOrderedIs
  <2>5. LoadPacked(entries) = Packed(p, 0)
    BY <1>9, <1>11, <2>4 DEF o
  <2>6. QED
    BY <1>7, <2>5 DEF s
<1>12. QED
  BY <1>10, <1>11

-----------------------------------------------------------------------------
(* Merging.  The items of two lists of ends that are both in order.        *)

Item == {0, 1} \X Nat
OrderedEnds(a) == a \in Seq(Int) /\ \A i, j \in 1 .. Len(a) : i < j => a[i] <= a[j]

ItemOf(a, b, x) == IF x[1] = 0 THEN x[2] \in 1 .. Len(a) ELSE x[2] \in 1 .. Len(b)
EndOf(a, b, x) == IF x[1] = 0 THEN a[x[2]] ELSE b[x[2]]

\* By their ends, then those of a first, then by position.
TakesFirst(a, b, x, y) ==
  \/ EndOf(a, b, x) < EndOf(a, b, y)
  \/ /\ EndOf(a, b, x) = EndOf(a, b, y)
     /\ x[1] < y[1] \/ (x[1] = y[1] /\ x[2] < y[2])

TakenLeft(v) == Cardinality({i \in DOMAIN v : v[i][1] = 0})
NextItem(a, b, v) ==
  IF TakeLeft(a, b, TakenLeft(v), Len(v) - TakenLeft(v)) THEN <<0, TakenLeft(v) + 1>>
  ELSE <<1, (Len(v) - TakenLeft(v)) + 1>>

LEMMA TakenIs ==
  ASSUME NEW v \in Seq(Item)
  PROVE  /\ Len(v) \in Nat /\ DOMAIN v = 1 .. Len(v) /\ TakenLeft(v) \in 0 .. Len(v)
         /\ TakenLeft(<<>>) = 0
         /\ \A x \in Item :
              TakenLeft(Append(v, x)) = IF x[1] = 0 THEN TakenLeft(v) + 1 ELSE TakenLeft(v)
PROOF
<1> DEFINE n == Len(v)
           T == {i \in DOMAIN v : v[i][1] = 0}
<1>1. n \in Nat /\ DOMAIN v = 1 .. n
  BY LenProperties
<1>2. IsFiniteSet(1 .. n) /\ Cardinality(1 .. n) = n
  <2>1. 1 \in Int /\ n \in Int
    BY <1>1
  <2> HIDE DEF n
  <2>2. QED
    BY <1>1, <2>1, FS_Interval
<1>3. T \subseteq 1 .. n
  BY <1>1
<1>4. IsFiniteSet(T) /\ Cardinality(T) <= n /\ Cardinality(T) \in Nat
  BY <1>2, <1>3, FS_Subset, FS_CardinalityType
<1>5. {i \in DOMAIN <<>> : (<<>>)[i][1] = 0} = {}
  OBVIOUS
<1>6. TakenLeft(<<>>) = 0
  BY <1>5, FS_EmptySet DEF TakenLeft
<1>7. ASSUME NEW x \in Item
      PROVE  TakenLeft(Append(v, x)) = IF x[1] = 0 THEN TakenLeft(v) + 1 ELSE TakenLeft(v)
  <2> DEFINE w == Append(v, x)
             U == {i \in DOMAIN w : w[i][1] = 0}
  <2>1. DOMAIN w = 1 .. n + 1 /\ w[n + 1] = x /\ \A i \in 1 .. n : w[i] = v[i]
    BY <1>1, AppendProperties
  <2> HIDE DEF w
  <2>2. U = IF x[1] = 0 THEN T \cup {n + 1} ELSE T
    <3> HIDE DEF n
    <3>1. QED
      BY <1>1, <2>1
  <2>3. n + 1 \notin T
    BY <1>1, <1>3
  <2>4. Cardinality(T \cup {n + 1}) = Cardinality(T) + 1
    BY <1>4, <2>3, FS_AddElement
  <2>5. QED
    BY <2>2, <2>4 DEF TakenLeft, w
<1>8. QED
  BY <1>1, <1>4, <1>6, <1>7 DEF TakenLeft

\* What the first items taken are: in order, and ahead of both next ones.
Merging(a, b, v) ==
  LET l == TakenLeft(v)
      r == Len(v) - TakenLeft(v)
  IN  /\ v \in Seq(Item) /\ l \in 0 .. Len(a) /\ r \in 0 .. Len(b)
      /\ \A k \in 1 .. Len(v) :
           /\ ItemOf(a, b, v[k])
           /\ \A k2 \in 1 .. Len(v) : k < k2 => TakesFirst(a, b, v[k], v[k2])
           /\ l < Len(a) => TakesFirst(a, b, v[k], <<0, l + 1>>)
           /\ r < Len(b) => TakesFirst(a, b, v[k], <<1, r + 1>>)

LEMMA AheadIs ==
  ASSUME NEW a \in Seq(Int), NEW b \in Seq(Int),
         NEW x \in Item, NEW y \in Item, NEW z \in Item,
         ItemOf(a, b, x), ItemOf(a, b, y), ItemOf(a, b, z),
         TakesFirst(a, b, x, y), TakesFirst(a, b, y, z)
  PROVE  TakesFirst(a, b, x, z)
PROOF
<1>1. \A u \in Item : ItemOf(a, b, u) => EndOf(a, b, u) \in Int
  BY ElementOfSeq DEF ItemOf, EndOf
<1>2. \A u \in Item : u[1] \in {0, 1} /\ u[2] \in Nat
  BY DEF Item
<1> DEFINE p == EndOf(a, b, x)
           q == EndOf(a, b, y)
           r == EndOf(a, b, z)
<1>3. p \in Int /\ q \in Int /\ r \in Int
  BY <1>1
<1>4. /\ p < q \/ (p = q /\ (x[1] < y[1] \/ (x[1] = y[1] /\ x[2] < y[2])))
      /\ q < r \/ (q = r /\ (y[1] < z[1] \/ (y[1] = z[1] /\ y[2] < z[2])))
  BY DEF TakesFirst
<1> HIDE DEF p, q, r
<1>5. p < r \/ (p = r /\ (x[1] < z[1] \/ (x[1] = z[1] /\ x[2] < z[2])))
  BY <1>2, <1>3, <1>4
<1>6. QED
  BY <1>5 DEF TakesFirst, p, r

\* The item taken is ahead of both that are next then.
LEMMA NextItemIs ==
  ASSUME NEW a, NEW b, OrderedEnds(a), OrderedEnds(b), NEW l \in 0 .. Len(a), NEW r \in 0 .. Len(b),
         l + r < Len(a) + Len(b)
  PROVE  /\ TakeLeft(a, b, l, r) =>
              /\ l < Len(a) /\ ItemOf(a, b, <<0, l + 1>>)
              /\ l + 1 < Len(a) => TakesFirst(a, b, <<0, l + 1>>, <<0, (l + 1) + 1>>)
              /\ r < Len(b) => TakesFirst(a, b, <<0, l + 1>>, <<1, r + 1>>)
         /\ ~ TakeLeft(a, b, l, r) =>
              /\ r < Len(b) /\ ItemOf(a, b, <<1, r + 1>>)
              /\ r + 1 < Len(b) => TakesFirst(a, b, <<1, r + 1>>, <<1, (r + 1) + 1>>)
              /\ l < Len(a) => TakesFirst(a, b, <<1, r + 1>>, <<0, l + 1>>)
PROOF
<1> DEFINE L == Len(a)
           R == Len(b)
<1>1. /\ L \in Nat /\ R \in Nat /\ l \in 0 .. L /\ r \in 0 .. R /\ l + r < L + R
      /\ \A i \in 1 .. L : a[i] \in Int
      /\ \A i \in 1 .. R : b[i] \in Int
      /\ \A i, j \in 1 .. L : i < j => a[i] <= a[j]
      /\ \A i, j \in 1 .. R : i < j => b[i] <= b[j]
  BY LenProperties, ElementOfSeq DEF OrderedEnds
<1>2. TakeLeft(a, b, l, r) <=> (r >= R \/ (l < L /\ a[l + 1] <= b[r + 1]))
  BY DEF TakeLeft
<1>3. /\ \A i, j : TakesFirst(a, b, <<0, i>>, <<0, j>>) <=> (a[i] < a[j] \/ (a[i] = a[j] /\ i < j))
      /\ \A i, j : TakesFirst(a, b, <<1, i>>, <<1, j>>) <=> (b[i] < b[j] \/ (b[i] = b[j] /\ i < j))
      /\ \A i, j : TakesFirst(a, b, <<0, i>>, <<1, j>>) <=> (a[i] < b[j] \/ a[i] = b[j])
      /\ \A i, j : TakesFirst(a, b, <<1, i>>, <<0, j>>) <=> b[i] < a[j]
      /\ \A i : ItemOf(a, b, <<0, i>>) <=> i \in 1 .. L
      /\ \A i : ItemOf(a, b, <<1, i>>) <=> i \in 1 .. R
  BY DEF TakesFirst, EndOf, ItemOf
<1> HIDE DEF L, R
<1>4. /\ l < L => l + 1 \in 1 .. L
      /\ r < R => r + 1 \in 1 .. R
      /\ l + 1 < L => (l + 1) + 1 \in 1 .. L /\ l + 1 < (l + 1) + 1
      /\ r + 1 < R => (r + 1) + 1 \in 1 .. R /\ r + 1 < (r + 1) + 1
  BY <1>1
<1>5. CASE TakeLeft(a, b, l, r)
  <2>1. l < L /\ (r < R => a[l + 1] <= b[r + 1])
    BY <1>1, <1>2, <1>5
  <2>2. l + 1 < L => TakesFirst(a, b, <<0, l + 1>>, <<0, (l + 1) + 1>>)
    BY <1>1, <1>3, <1>4
  <2>3. r < R => TakesFirst(a, b, <<0, l + 1>>, <<1, r + 1>>)
    BY <1>1, <1>3, <1>4, <2>1
  <2>4. QED
    BY <1>3, <1>4, <1>5, <2>1, <2>2, <2>3 DEF L, R
<1>6. CASE ~ TakeLeft(a, b, l, r)
  <2>1. r < R /\ (l < L => b[r + 1] < a[l + 1])
    BY <1>1, <1>2, <1>4, <1>6
  <2>2. r + 1 < R => TakesFirst(a, b, <<1, r + 1>>, <<1, (r + 1) + 1>>)
    BY <1>1, <1>3, <1>4
  <2>3. l < L => TakesFirst(a, b, <<1, r + 1>>, <<0, l + 1>>)
    BY <1>3, <2>1
  <2>4. QED
    BY <1>3, <1>4, <1>6, <2>1, <2>2, <2>3 DEF L, R
<1>7. QED
  BY <1>5, <1>6

LEMMA MergingNext ==
  ASSUME NEW a, NEW b, OrderedEnds(a), OrderedEnds(b), NEW v, Merging(a, b, v), Len(v) < Len(a) + Len(b)
  PROVE  /\ NextItem(a, b, v) \in Item
         /\ Merging(a, b, Append(v, NextItem(a, b, v)))
PROOF
<1> DEFINE l == TakenLeft(v)
           n == Len(v)
           r == n - l
           x == NextItem(a, b, v)
           w == Append(v, x)
           L == Len(a)
           R == Len(b)
<1>1. /\ a \in Seq(Int) /\ b \in Seq(Int) /\ v \in Seq(Item)
      /\ L \in Nat /\ R \in Nat /\ n \in Nat /\ l \in 0 .. L /\ r \in 0 .. R
      /\ DOMAIN v = 1 .. n /\ l + r < L + R
  <2>1. a \in Seq(Int) /\ b \in Seq(Int) /\ v \in Seq(Item) /\ l \in 0 .. L /\ r \in 0 .. R
    BY DEF Merging, OrderedEnds
  <2>2. L \in Nat /\ R \in Nat /\ n \in Nat /\ DOMAIN v = 1 .. n
    BY <2>1, LenProperties
  <2> HIDE DEF l, L, R
  <2>3. l + r = n
    BY <2>1, <2>2
  <2>4. QED
    BY <2>1, <2>2, <2>3 DEF L, R
<1>2. \A k \in 1 .. n :
        /\ v[k] \in Item /\ ItemOf(a, b, v[k])
        /\ \A k2 \in 1 .. n : k < k2 => TakesFirst(a, b, v[k], v[k2])
        /\ l < L => TakesFirst(a, b, v[k], <<0, l + 1>>)
        /\ r < R => TakesFirst(a, b, v[k], <<1, r + 1>>)
  BY <1>1, ElementOfSeq DEF Merging
<1>3. x = IF TakeLeft(a, b, l, r) THEN <<0, l + 1>> ELSE <<1, r + 1>>
  BY DEF NextItem
<1>4. /\ TakeLeft(a, b, l, r) =>
              /\ l < L /\ ItemOf(a, b, <<0, l + 1>>)
              /\ l + 1 < L => TakesFirst(a, b, <<0, l + 1>>, <<0, (l + 1) + 1>>)
              /\ r < R => TakesFirst(a, b, <<0, l + 1>>, <<1, r + 1>>)
      /\ ~ TakeLeft(a, b, l, r) =>
              /\ r < R /\ ItemOf(a, b, <<1, r + 1>>)
              /\ r + 1 < R => TakesFirst(a, b, <<1, r + 1>>, <<1, (r + 1) + 1>>)
              /\ l < L => TakesFirst(a, b, <<1, r + 1>>, <<0, l + 1>>)
  BY <1>1, NextItemIs
<1>5. /\ \A i \in Nat : <<0, i>> \in Item /\ <<1, i>> \in Item
      /\ <<0, l + 1>>[1] = 0 /\ <<1, r + 1>>[1] # 0
  BY DEF Item
<1>6. l + 1 \in Nat /\ r + 1 \in Nat /\ (l + 1) + 1 \in Nat /\ (r + 1) + 1 \in Nat
  <2> HIDE DEF l, r, L, R
  <2>1. QED
    BY <1>1
<1>7. x \in Item
  BY <1>3, <1>5, <1>6
<1>8. /\ w \in Seq(Item) /\ Len(w) = n + 1 /\ w[n + 1] = x
      /\ \A k \in 1 .. n : w[k] = v[k]
      /\ TakenLeft(w) = IF x[1] = 0 THEN l + 1 ELSE l
  BY <1>1, <1>7, TakenIs, AppendProperties
<1> DEFINE l2 == TakenLeft(w)
           r2 == Len(w) - TakenLeft(w)
<1>9. /\ TakeLeft(a, b, l, r) => x = <<0, l + 1>> /\ l2 = l + 1 /\ r2 = r
      /\ ~ TakeLeft(a, b, l, r) => x = <<1, r + 1>> /\ l2 = l /\ r2 = r + 1
  <2> DEFINE m == Len(w)
  <2>1. (n + 1) - (l + 1) = n - l /\ (n + 1) - l = (n - l) + 1
    <3> HIDE DEF l, n, L
    <3>1. QED
      BY <1>1
  <2>2. QED
    BY <1>3, <1>5, <1>8, <2>1
<1> HIDE DEF x, w, l, n, r, l2, r2, L, R
<1>10. l2 \in 0 .. L /\ r2 \in 0 .. R
  BY <1>1, <1>4, <1>9
<1>11. ItemOf(a, b, x) /\ (l2 < L => TakesFirst(a, b, x, <<0, l2 + 1>>))
       /\ (r2 < R => TakesFirst(a, b, x, <<1, r2 + 1>>))
  BY <1>4, <1>9
<1>12. ASSUME NEW k \in 1 .. n PROVE TakesFirst(a, b, v[k], x)
  BY <1>2, <1>4, <1>9
<1>13. ASSUME l2 < L PROVE <<0, l2 + 1>> \in Item /\ ItemOf(a, b, <<0, l2 + 1>>)
  <2>1. l2 + 1 \in Nat /\ l2 + 1 \in 1 .. L
    BY <1>1, <1>10, <1>13
  <2>2. QED
    BY <1>5, <2>1 DEF ItemOf, L
<1>14. ASSUME r2 < R PROVE <<1, r2 + 1>> \in Item /\ ItemOf(a, b, <<1, r2 + 1>>)
  <2>1. r2 + 1 \in Nat /\ r2 + 1 \in 1 .. R
    BY <1>1, <1>10, <1>14
  <2>2. QED
    BY <1>5, <2>1 DEF ItemOf, R
<1>15. ASSUME NEW k \in 1 .. n
       PROVE  /\ l2 < L => TakesFirst(a, b, v[k], <<0, l2 + 1>>)
              /\ r2 < R => TakesFirst(a, b, v[k], <<1, r2 + 1>>)
  <2>1. v[k] \in Item /\ ItemOf(a, b, v[k]) /\ TakesFirst(a, b, v[k], x)
    BY <1>2, <1>12
  <2>2. ASSUME l2 < L PROVE TakesFirst(a, b, v[k], <<0, l2 + 1>>)
    BY <1>1, <1>7, <1>11, <1>13, <2>1, <2>2, AheadIs
  <2>3. ASSUME r2 < R PROVE TakesFirst(a, b, v[k], <<1, r2 + 1>>)
    BY <1>1, <1>7, <1>11, <1>14, <2>1, <2>3, AheadIs
  <2>4. QED
    BY <2>2, <2>3
<1>16. ASSUME NEW k \in 1 .. Len(w)
       PROVE  /\ ItemOf(a, b, w[k])
              /\ \A k2 \in 1 .. Len(w) : k < k2 => TakesFirst(a, b, w[k], w[k2])
              /\ l2 < L => TakesFirst(a, b, w[k], <<0, l2 + 1>>)
              /\ r2 < R => TakesFirst(a, b, w[k], <<1, r2 + 1>>)
  <2>0. Len(w) = n + 1
    BY <1>8
  <2>1. CASE k = n + 1
    <3>1. ~ \E k2 \in 1 .. n + 1 : k < k2
      BY <1>1, <2>1
    <3>2. QED
      BY <1>8, <1>11, <2>0, <2>1, <3>1
  <2>2. CASE k \in 1 .. n
    <3>1. w[k] = v[k]
      BY <1>8, <2>2
    <3>2. ASSUME NEW k2 \in 1 .. n + 1, k < k2 PROVE TakesFirst(a, b, w[k], w[k2])
      <4>1. CASE k2 = n + 1
        BY <1>8, <1>12, <2>2, <3>1, <4>1
      <4>2. CASE k2 \in 1 .. n
        BY <1>2, <1>8, <2>2, <3>1, <3>2, <4>2
      <4>3. QED
        BY <1>1, <4>1, <4>2
    <3>3. QED
      BY <1>2, <1>15, <2>0, <2>2, <3>1, <3>2
  <2>3. QED
    BY <1>1, <2>0, <2>1, <2>2
<1>17. Merging(a, b, w)
  BY <1>8, <1>10, <1>16 DEF Merging, l2, r2, L, R
<1>18. QED
  BY <1>7, <1>17 DEF w, x

LEMMA MergeOrderIs ==
  ASSUME NEW a, NEW b, OrderedEnds(a), OrderedEnds(b)
  PROVE  LET v == MergeOrder(a, b)
         IN  /\ v \in Seq(Item) /\ Len(v) = Len(a) + Len(b)
             /\ \A k \in 1 .. Len(v) :
                  /\ ItemOf(a, b, v[k])
                  /\ \A k2 \in 1 .. Len(v) : k < k2 => TakesFirst(a, b, v[k], v[k2])
PROOF
<1> DEFINE n == Len(a) + Len(b)
           V == Seq(Item)
           count == [i \in 1 .. n |-> i]
           step == [i \in 1 .. n |-> [v \in V |-> Append(v, NextItem(a, b, v))]]
           Def(g) == g = [T \in SUBSET (1 .. n) |->
                            IF T = {} THEN <<>>
                            ELSE LET x == Max(T)
                                 IN  Append(g[T \ {x}], NextItem(a, b, g[T \ {x}]))]
           g == CHOOSE h : Def(h)
<1>1. /\ n \in Nat /\ Len(a) \in Nat /\ Len(b) \in Nat
      /\ DOMAIN count = 1 .. n /\ Len(count) = n
  <2>1. Len(a) \in Nat /\ Len(b) \in Nat
    BY LenProperties DEF OrderedEnds
  <2>2. n \in Nat
    BY <2>1
  <2> HIDE DEF n
  <2>3. count \in Seq(Nat) /\ Len(count) = n
    BY <2>2
  <2>4. QED
    BY <2>1, <2>2, <2>3
<1>2. MergeOrder(a, b) = g[1 .. n]
  BY <1>1 DEF MergeOrder, FoldLeft, MapThenFoldSet, NextItem, TakenLeft
<1>3. <<>> \in V
  BY EmptySeq
<1>4. ASSUME NEW i \in 1 .. n, NEW v \in V
      PROVE  step[i][v] = Append(v, NextItem(a, b, v)) /\ step[i][v] \in V
  <2>1. NextItem(a, b, v) \in Item
    <3> DEFINE l == TakenLeft(v)
               k == Len(v)
    <3>1. l \in 0 .. k /\ k \in Nat
      BY TakenIs
    <3>2. NextItem(a, b, v) = <<0, l + 1>> \/ NextItem(a, b, v) = <<1, (k - l) + 1>>
      BY DEF NextItem
    <3> HIDE DEF l, k
    <3>3. l + 1 \in Nat /\ (k - l) + 1 \in Nat
      BY <3>1
    <3>4. QED
      BY <3>2, <3>3 DEF Item
  <2>2. QED
    BY <2>1, AppendProperties
<1> HIDE DEF n, V, count
<1>5. \A i \in 1 .. n, v \in V : step[i][v] \in V
  BY <1>4
<1>6. PICK h \in [SUBSET (1 .. n) -> V] : Unfolds(h, n, <<>>, step)
  <2> HIDE DEF step
  <2>1. QED
    BY <1>1, <1>3, <1>5, FoldIs
<1>7. Def(h)
  <2>1. ASSUME NEW T \in SUBSET (1 .. n)
        PROVE  h[T] = IF T = {} THEN <<>>
                      ELSE Append(h[T \ {Max(T)}], NextItem(a, b, h[T \ {Max(T)}]))
    <3>1. CASE T # {}
      <4>1. Max(T) \in 1 .. n /\ T \ {Max(T)} \in SUBSET (1 .. n)
        BY <1>1, <3>1, LastOf
      <4>2. h[T \ {Max(T)}] \in V
        BY <4>1
      <4>3. step[Max(T)][h[T \ {Max(T)}]]
              = Append(h[T \ {Max(T)}], NextItem(a, b, h[T \ {Max(T)}]))
        BY <1>4, <4>1, <4>2
      <4>4. QED
        BY <1>6, <3>1, <4>3 DEF Unfolds
    <3>2. QED
      BY <1>6, <3>1 DEF Unfolds
  <2>2. QED
    BY <2>1
<1>8. Def(g)
  BY <1>7
<1>9. FoldsWith(g, n, V, <<>>, step)
  <2>1. g[{}] = <<>> /\ \A T \in SUBSET (1 .. n) :
          T # {} => g[T] = Append(g[T \ {Max(T)}], NextItem(a, b, g[T \ {Max(T)}]))
    <3> HIDE DEF g
    <3>1. QED
      BY <1>8
  <2> HIDE DEF g
  <2>2. ASSUME NEW T \in SUBSET (1 .. n), T # {}, NEW v \in V, g[T \ {Max(T)}] = v
        PROVE  g[T] = step[Max(T)][v]
    <3>1. Max(T) \in 1 .. n
      BY <1>1, <2>2, LastOf
    <3>2. QED
      BY <1>4, <2>1, <2>2, <3>1
  <2>3. QED
    BY <2>1, <2>2 DEF FoldsWith
<1> HIDE DEF g, Def, step
<1>10. PICK e : Folded(e, n, V, <<>>, step)
  BY <1>1, <1>3, <1>5, FoldIs
<1>11. e \in [0 .. n -> V] /\ g[1 .. n] = e[n] /\ e[0] = <<>>
       /\ \A i \in 1 .. n : e[i] = step[i][e[i - 1]]
  BY <1>9, <1>10 DEF Folded, Recurses
<1> DEFINE N == {i \in 0 .. n : Len(e[i]) = i /\ Merging(a, b, e[i])}
<1>12. 0 \in N
  <2>1. TakenLeft(<<>>) = 0 /\ Len(<<>>) = 0 /\ <<>> \in Seq(Item)
    BY <1>3, TakenIs DEF V
  <2>2. Merging(a, b, <<>>)
    BY <1>1, <2>1 DEF Merging
  <2>3. QED
    BY <1>1, <1>11, <2>1, <2>2
<1>13. ASSUME NEW i \in 0 .. n, i \in N, i < n PROVE i + 1 \in N
  <2>1. /\ i + 1 \in 1 .. n /\ (i + 1) - 1 = i /\ i \in 0 .. n
        /\ Len(e[i]) = i /\ Merging(a, b, e[i]) /\ e[i] \in V
    BY <1>1, <1>11, <1>13
  <2>2. e[i + 1] = Append(e[i], NextItem(a, b, e[i]))
    BY <1>4, <1>11, <2>1
  <2>3. NextItem(a, b, e[i]) \in Item /\ Merging(a, b, e[i + 1])
    BY <1>13, <2>1, <2>2, MergingNext DEF n
  <2>4. Len(e[i + 1]) = i + 1
    BY <2>1, <2>2, <2>3, AppendProperties DEF V
  <2>5. QED
    BY <2>1, <2>3, <2>4
<1> HIDE DEF N
<1>14. n \in N
  <2>1. 0 .. n \subseteq N
    BY <1>1, <1>12, <1>13, UpTo
  <2>2. QED
    BY <1>1, <2>1
<1>15. QED
  BY <1>2, <1>11, <1>14 DEF N, Merging, n

\* merge_obs_plans gives the arrays of the two plans sorted together.
LEMMA MergePackedIs ==
  ASSUME NEW c \in Plan, Sorted(c), Windowed(c),
         NEW new \in Plan, Windowed(new), NEW d, NEW w, Sorts(d, new, w),
         NEW m \in StableSorts(c \o new)
  PROVE  MergePacked(Packed(c, 0), Packed(d, 0)) = Packed(m, 0)
PROOF
<1> DEFINE s == c \o new
           L == Len(c)
           R == Len(new)
           N == L + R
           T == 1 .. N
           left == Packed(c, 0)
           right == Packed(d, 0)
<1>1. /\ d \in Plan /\ d \in StableSorts(new) /\ Len(d) = R /\ Windowed(d) /\ Sorted(d)
      /\ \A k \in 1 .. R : w[k] \in 1 .. R /\ d[k] = new[w[k]]
      /\ \A i, j \in 1 .. R : i < j => Precedes(new, w[i], w[j])
  <2>1. /\ d \in Plan /\ d \in StableSorts(new) /\ Len(d) = R /\ Windowed(d)
        /\ \A k \in 1 .. R : w[k] \in 1 .. R /\ d[k] = new[w[k]]
    BY SortsIs
  <2>2. Sorted(d)
    BY <2>1, StableSortsIs
  <2>3. \A i, j \in 1 .. R : i < j => <<w[i], w[j]>> \in Order(new)
    BY DEF Sorts, Listing
  <2>4. \A i, j \in 1 .. R : i < j => Precedes(new, w[i], w[j])
    BY <2>1, <2>3, OrderIs
  <2>5. QED
    BY <2>1, <2>2, <2>4
<1>2. /\ L \in Nat /\ R \in Nat /\ N \in Nat
      /\ s \in Plan /\ Len(s) = N
      /\ \A i \in 1 .. L : s[i] = c[i]
      /\ \A i \in 1 .. R : s[L + i] = new[i]
      /\ \A i \in 1 .. L : i \in T
      /\ \A i \in 1 .. R : L + i \in T
  <2>1. L \in Nat /\ R \in Nat
    BY PlanElement
  <2>2. /\ s \in Plan /\ Len(s) = L + R
        /\ \A k \in 1 .. L + R : s[k] = IF k <= L THEN c[k] ELSE new[k - L]
    BY ConcatProperties DEF Plan
  <2> HIDE DEF s, L, R
  <2>3. /\ L + R \in Nat
        /\ \A k \in 1 .. L : k \in 1 .. L + R /\ k <= L
        /\ \A k \in 1 .. R : L + k \in 1 .. L + R /\ ~ (L + k <= L) /\ (L + k) - L = k
    BY <2>1, Offsets
  <2>4. QED
    BY <2>1, <2>2, <2>3
<1>3. PICK q : Sorts(m, s, q)
  BY <1>2, StableIs
<1>4. /\ Antisymmetric(Order(s), T) /\ IsFiniteSet(T) /\ Cardinality(T) = N
      /\ \A i, j \in T : <<i, j>> \in Order(s) <=> Precedes(s, i, j)
  BY <1>2, OrderIs
<1>5. /\ \A k \in T : q[k] \in T /\ m[k] = s[q[k]]
      /\ m \in Plan /\ Len(m) = N /\ Listing(q, N, T, Order(s))
      /\ m = [k \in T |-> s[q[k]]]
  BY <1>2, <1>3, SortsIs DEF Sorts
\* Whatever orders the positions as a stable sort does, orders them like q.
<1>6. ASSUME NEW h \in [T -> T], \A i, j \in T : i < j => Precedes(s, h[i], h[j])
      PROVE  m = [k \in T |-> s[h[k]]]
  <2>1. \A i, j \in T : i < j => <<h[i], h[j]>> \in Order(s)
    BY <1>4, <1>6
  <2>2. Listing(h, N, T, Order(s))
    <3> HIDE DEF T, N, s
    <3>1. T = 1 .. Cardinality(T)
      BY <1>4 DEF T
    <3>2. h \in [1 .. Cardinality(T) -> T]
          /\ \A i, j \in 1 .. Cardinality(T) : i < j => <<h[i], h[j]>> \in Order(s)
      BY <1>6, <2>1, <3>1
    <3>3. Listing(h, Cardinality(T), T, Order(s))
      BY <1>4, <3>2, ChainLists
    <3>4. QED
      BY <1>4, <3>3
  <2>3. h = q
    BY <1>2, <1>4, <1>5, <2>2, ListingUnique
  <2>4. QED
    BY <1>5, <2>3
<1>7. /\ left.ids = [i \in 1 .. L |-> c[i].name] /\ left.end = [i \in 1 .. L |-> End[c[i].name]]
      /\ right.ids = [i \in 1 .. R |-> d[i].name] /\ right.end = [i \in 1 .. R |-> End[d[i].name]]
  <2>1. DOMAIN c = 1 .. L /\ DOMAIN d = 1 .. R
    BY <1>1, PlanElement
  <2>2. QED
    BY <2>1, PackedRows
<1>8. /\ left.ids = <<>> <=> L = 0
      /\ right.ids = <<>> <=> R = 0
  <2>1. left.ids \in Seq(Entry) /\ Len(left.ids) = L /\ right.ids \in Seq(Entry) /\ Len(right.ids) = R
    <3> HIDE DEF L, R, left, right
    <3>1. left.ids \in [1 .. L -> Entry] /\ right.ids \in [1 .. R -> Entry]
      BY <1>1, <1>7, PlanElement DEF L
    <3>2. QED
      BY <1>2, <3>1
  <2>2. QED
    BY <2>1, EmptySeq
<1> HIDE DEF left, right
<1>9. CASE left.ids = <<>>
  <2>1. L = 0 /\ N = R
    BY <1>2, <1>8, <1>9
  <2>2. \A i \in 1 .. R : s[i] = new[i]
    <3>1. \A i \in 1 .. R : L + i = i
      BY <2>1
    <3>2. QED
      BY <1>2, <3>1
  <2>3. w \in [T -> T]
    BY <2>1 DEF Sorts, Listing
  <2>4. \A i, j \in T : i < j => Precedes(s, w[i], w[j])
    BY <1>1, <2>1, <2>2 DEF Precedes
  <2>5. m = [k \in T |-> s[w[k]]]
    BY <1>6, <2>3, <2>4
  <2>6. d = [k \in T |-> new[w[k]]]
    BY <2>1 DEF Sorts
  <2>7. m = d
    BY <1>1, <2>1, <2>2, <2>5, <2>6
  <2>8. QED
    BY <1>9, <2>7 DEF MergePacked, left, right
<1>10. CASE left.ids # <<>> /\ right.ids = <<>>
  <2>1. R = 0 /\ N = L
    BY <1>2, <1>8, <1>10
  <2> DEFINE h == [k \in T |-> k]
  <2>2. h \in [T -> T]
    OBVIOUS
  <2>3. \A i, j \in T : i < j => Precedes(s, h[i], h[j])
    <3>1. \A i, j \in T : i < j => End[c[i].name] <= End[c[j].name]
      BY <2>1, PlanElement DEF Sorted
    <3>2. \A i \in T : End[c[i].name] \in Int
      BY <2>1, PlanElement
    <3>3. QED
      BY <1>2, <2>1, <3>1, <3>2 DEF Precedes
  <2>4. m = [k \in T |-> s[h[k]]]
    <3> HIDE DEF h
    <3>1. QED
      BY <1>6, <2>2, <2>3
  <2>5. m = [k \in T |-> c[k]]
    BY <1>2, <2>1, <2>4
  <2>6. c = [k \in T |-> c[k]]
    <3>1. c \in Seq(PlanEntry)
      BY DEF Plan
    <3>2. QED
      BY <2>1, <3>1
  <2>7. QED
    BY <1>10, <2>5, <2>6 DEF MergePacked, left, right
<1>11. CASE left.ids # <<>> /\ right.ids # <<>>
  <2> DEFINE a == left.end
             b == right.end
             o == MergeOrder(a, b)
             At(x) == IF x[1] = 0 THEN x[2] ELSE L + w[x[2]]
             h == [k \in T |-> At(o[k])]
  <2>1. OrderedEnds(a) /\ Len(a) = L /\ OrderedEnds(b) /\ Len(b) = R
    <3>0. /\ DOMAIN c = 1 .. L /\ DOMAIN d = 1 .. R
          /\ \A i \in 1 .. L : End[c[i].name] \in Int
          /\ \A i \in 1 .. R : End[d[i].name] \in Int
          /\ \A i, j \in 1 .. L : i < j => End[c[i].name] <= End[c[j].name]
          /\ \A i, j \in 1 .. R : i < j => End[d[i].name] <= End[d[j].name]
      BY <1>1, PlanElement DEF Sorted
    <3>1. /\ a \in [1 .. L -> Int] /\ \A i, j \in 1 .. L : i < j => a[i] <= a[j]
          /\ b \in [1 .. R -> Int] /\ \A i, j \in 1 .. R : i < j => b[i] <= b[j]
      <4> HIDE DEF L, R
      <4>1. QED
        BY <1>7, <3>0
    <3> HIDE DEF a, b, L, R
    <3>2. QED
      BY <1>2, <3>1 DEF OrderedEnds
  <2>2. /\ \A i \in 1 .. L : a[i] = End[c[i].name]
        /\ \A i \in 1 .. R : b[i] = End[d[i].name]
    BY <1>7
  <2> HIDE DEF a, b
  <2>3. /\ o \in Seq(Item) /\ Len(o) = N /\ DOMAIN o = T
        /\ \A k \in T :
             /\ o[k] \in Item /\ ItemOf(a, b, o[k])
             /\ \A k2 \in T : k < k2 => TakesFirst(a, b, o[k], o[k2])
    <3>1. /\ o \in Seq(Item) /\ Len(o) = N
          /\ \A k \in T :
               /\ ItemOf(a, b, o[k])
               /\ \A k2 \in T : k < k2 => TakesFirst(a, b, o[k], o[k2])
      BY <2>1, MergeOrderIs
    <3>2. DOMAIN o = 1 .. Len(o) /\ \A k \in 1 .. Len(o) : o[k] \in Item
      BY <3>1, LenProperties, ElementOfSeq
    <3>3. QED
      BY <3>1, <3>2
  <2> HIDE DEF o, T, N, s, L, R
  <2>4. ASSUME NEW x \in Item, ItemOf(a, b, x)
        PROVE  /\ At(x) \in T /\ End[s[At(x)].name] = EndOf(a, b, x)
               /\ IF x[1] = 0 THEN x[2] \in 1 .. L /\ s[At(x)] = c[x[2]]
                  ELSE x[2] \in 1 .. R /\ s[At(x)] = d[x[2]]
    <3>1. CASE x[1] = 0
      BY <1>2, <2>1, <2>2, <2>4, <3>1 DEF ItemOf, EndOf
    <3>2. CASE x[1] # 0
      <4>1. x[2] \in 1 .. R /\ w[x[2]] \in 1 .. R /\ d[x[2]] = new[w[x[2]]]
        BY <1>1, <2>1, <2>4, <3>2 DEF ItemOf
      <4>2. At(x) = L + w[x[2]] /\ At(x) \in T /\ s[At(x)] = d[x[2]]
        BY <1>2, <3>2, <4>1
      <4>3. QED
        BY <2>2, <3>2, <4>1, <4>2 DEF EndOf
    <3>3. QED
      BY <3>1, <3>2
  <2>5. ASSUME NEW x \in Item, ItemOf(a, b, x), NEW y \in Item, ItemOf(a, b, y), TakesFirst(a, b, x, y)
        PROVE  Precedes(s, At(x), At(y))
    <3>1. /\ End[s[At(x)].name] = EndOf(a, b, x) /\ End[s[At(y)].name] = EndOf(a, b, y)
          /\ x[1] \in {0, 1} /\ y[1] \in {0, 1}
      BY <2>4, <2>5 DEF Item
    <3>2. CASE EndOf(a, b, x) < EndOf(a, b, y)
      BY <3>1, <3>2 DEF Precedes
    <3>3. CASE EndOf(a, b, x) = EndOf(a, b, y) /\ x[1] < y[1]
      <4>1. x[1] = 0 /\ y[1] # 0
        BY <3>1, <3>3
      <4>2. x[2] \in 1 .. L /\ y[2] \in 1 .. R
        BY <2>4, <2>5, <4>1
      <4>3. At(x) = x[2] /\ At(y) = L + w[y[2]] /\ w[y[2]] \in 1 .. R
        BY <1>1, <4>1, <4>2
      <4>4. At(x) < At(y)
        BY <1>2, <4>2, <4>3
      <4>5. QED
        BY <3>1, <3>3, <4>4 DEF Precedes
    <3>4. CASE EndOf(a, b, x) = EndOf(a, b, y) /\ x[1] = y[1] /\ x[2] < y[2]
      <4>1. CASE x[1] = 0
        <5>1. At(x) = x[2] /\ At(y) = y[2]
          BY <3>4, <4>1
        <5>2. QED
          BY <3>1, <3>4, <5>1 DEF Precedes
      <4>2. CASE x[1] # 0
        <5>1. At(x) = L + w[x[2]] /\ At(y) = L + w[y[2]]
          BY <3>4, <4>2
        <5>2. x[2] \in 1 .. R /\ y[2] \in 1 .. R
          BY <2>4, <2>5, <3>4, <4>2
        <5>3. Precedes(new, w[x[2]], w[y[2]])
          BY <1>1, <3>4, <5>2
        <5>4. w[x[2]] \in 1 .. R /\ w[y[2]] \in 1 .. R
              /\ s[L + w[x[2]]] = new[w[x[2]]] /\ s[L + w[y[2]]] = new[w[y[2]]]
          BY <1>1, <1>2, <5>2
        <5> DEFINE u == w[x[2]]
                   v == w[y[2]]
        <5>5. u \in Nat /\ v \in Nat /\ (u < v => L + u < L + v)
          BY <1>2, <5>4
        <5>6. QED
          BY <5>1, <5>3, <5>4, <5>5 DEF Precedes
      <4>3. QED
        BY <4>1, <4>2
    <3>5. QED
      BY <2>5, <3>2, <3>3, <3>4 DEF TakesFirst
  <2> HIDE DEF At
  <2>6. h \in [T -> T]
    BY <2>3, <2>4
  <2>7. \A i, j \in T : i < j => Precedes(s, h[i], h[j])
    BY <2>3, <2>5
  <2>8. m = [k \in T |-> s[h[k]]]
    <3> HIDE DEF h
    <3>1. QED
      BY <1>6, <2>6, <2>7
  <2>9. \A k \in T : m[k] = s[At(o[k])]
    BY <2>8
  <2>10. ASSUME NEW k \in 1 .. Len(m)
         PROVE  ReadsAs(SourceOf(left, right, o, k), o[k][2], m[k])
    <3>1. k \in T /\ o[k] \in Item /\ ItemOf(a, b, o[k]) /\ m[k] = s[At(o[k])]
      BY <1>5, <2>3, <2>9 DEF T
    <3>2. CASE o[k][1] = 0
      <4>1. o[k][2] \in 1 .. L /\ m[k] = c[o[k][2]]
        BY <2>4, <3>1, <3>2
      <4>2. SourceOf(left, right, o, k) = left
        BY <3>2 DEF SourceOf
      <4>3. ReadsAs(left, o[k][2], c[o[k][2]])
        BY <4>1, PackedReads DEF left, L
      <4>4. QED
        BY <4>1, <4>2, <4>3
    <3>3. CASE o[k][1] # 0
      <4>1. o[k][2] \in 1 .. R /\ m[k] = d[o[k][2]]
        BY <2>4, <3>1, <3>3
      <4>2. SourceOf(left, right, o, k) = right
        BY <3>3 DEF SourceOf
      <4>3. ReadsAs(right, o[k][2], d[o[k][2]])
        BY <1>1, <4>1, PackedReads DEF right
      <4>4. QED
        BY <4>1, <4>2, <4>3
    <3>4. QED
      BY <3>2, <3>3
  <2>11. m \in Plan /\ Windowed(m)
    <3>1. Windowed(s)
      <4>1. ASSUME NEW i \in T PROVE Bounded(s[i].win)
        <5>1. CASE i <= L
          <6>1. i \in 1 .. L
            BY <1>2, <5>1 DEF T
          <6>2. QED
            BY <1>2, <6>1 DEF Windowed, L
        <5>2. CASE ~ (i <= L)
          <6>1. i - L \in 1 .. R /\ i = L + (i - L)
            BY <1>2, <5>2 DEF T, N
          <6>2. s[i] = new[i - L]
            BY <1>2, <6>1
          <6>3. QED
            BY <6>1, <6>2 DEF Windowed, R
        <5>3. QED
          BY <5>1, <5>2
      <4>2. QED
        BY <1>2, <4>1 DEF Windowed, T
    <3>2. QED
      BY <1>2, <1>3, <3>1, SortsIs
  <2>12. Copies(m, m, Sentinel) /\ Sentinel \in Int /\ DOMAIN o = 1 .. Len(m)
    BY <1>5, <2>3, <2>11, CopiesItself, SentinelAssumption DEF T
  <2>13. CopyOrdered(left, right, o, Sentinel) = Packed(m, 0)
    <3> HIDE DEF h
    <3>1. QED
      BY ZenonT(60), <2>10, <2>11, <2>12, CopyOrderedIs
  <2>14. MergePacked(left, right) = CopyOrdered(left, right, o, Sentinel)
    BY <1>11 DEF MergePacked, o, a, b
  <2>15. QED
    BY <2>13, <2>14 DEF left, right
<1>12. QED
  BY <1>9, <1>10, <1>11

-----------------------------------------------------------------------------
(* Cutting out what is complete.                                           *)

LEMMA PackedBatchIs ==
  ASSUME NEW p \in Plan, NEW f \in Nat, NEW k \in 0 .. Len(p), f <= k
  PROVE  LET batch == CompletedBatch(p, f, k)
         IN  PackedBatch(Packed(p, f), f, k)
               = [ids |-> [i \in DOMAIN batch |-> batch[i].name],
                  samples |-> Ragged([i \in DOMAIN batch |->
                    LET fields == ParseFields(Requests[batch[i].name])
                    IN  [m \in DOMAIN fields |-> <<fields[m], batch[i].acc>>]])]
PROOF
<1> DEFINE P == Packed(p, f)
           n == k - f
           batch == CompletedBatch(p, f, k)
           fields(i) == ParseFields(Requests[p[f + i].name])
           row(i) == Row(P.field, f + i)
           values(i) == [m \in DOMAIN row(i) |-> P.accumulator[row(i)[m].slot]]
           stated(i) == [m \in DOMAIN fields(i) |-> <<fields(i)[m], p[f + i].acc>>]
<1>1. /\ Len(p) \in Nat /\ DOMAIN p = 1 .. Len(p) /\ n \in Nat /\ f + n = k /\ f + n <= Len(p)
      /\ \A i \in 1 .. n : f + i \in 1 .. Len(p)
      /\ \A i \in 1 .. Len(p) : p[i].name \in Entry
  <2>1. Len(p) \in Nat
    BY PlanElement
  <2>2. QED
    BY <2>1, PlanElement
<1>2. batch = [i \in 1 .. n |-> [name |-> p[f + i].name, acc |-> p[f + i].acc]]
  BY DEF CompletedBatch
<1>3. P.ids = [i \in 1 .. Len(p) |-> p[i].name]
  BY <1>1, PackedRows
<1>4. ASSUME NEW i \in 1 .. n PROVE values(i) = stated(i)
  <2>1. ReadsAs(P, f + i, p[f + i])
    BY <1>1, PackedReads
  <2>2. fields(i) \in Seq(Tracer)
    BY <1>1, ConstantsAre, ParseFieldsIs
  <2>3. DOMAIN fields(i) = 1 .. Len(fields(i))
    BY <2>2, LenProperties
  <2> HIDE DEF P
  <2>4. /\ DOMAIN row(i) = 1 .. Len(fields(i))
        /\ \A m \in 1 .. Len(fields(i)) :
             P.accumulator[row(i)[m].slot] = <<fields(i)[m], p[f + i].acc>>
    BY <2>1 DEF ReadsAs
  <2> HIDE DEF row, fields
  <2>5. QED
    BY <2>3, <2>4
<1>5. SubSeq(P.ids, f + 1, k) = [i \in 1 .. n |-> p[f + i].name]
  <2> DEFINE s == P.ids
             q == SubSeq(s, f + 1, f + n)
             r == [i \in 1 .. n |-> p[f + i].name]
  <2>1. s \in Seq(Entry) /\ Len(s) = Len(p) /\ \A i \in 1 .. n : s[f + i] = p[f + i].name
    <3>1. s \in [1 .. Len(p) -> Entry] /\ \A i \in 1 .. n : s[f + i] = p[f + i].name
      BY <1>1, <1>3
    <3> HIDE DEF s
    <3>2. QED
      BY <1>1, <3>1
  <2> HIDE DEF s, n
  <2>2. q \in Seq(Entry) /\ Len(q) = n /\ \A i \in 1 .. n : q[i] = s[f + i]
    BY <1>1, <2>1, SubSeqIs
  <2> HIDE DEF q
  <2>3. q = r
    <3>1. q \in [1 .. n -> Entry]
      BY <2>2, LenProperties
    <3>2. \A i \in 1 .. n : q[i] = p[f + i].name
      BY <2>1, <2>2
    <3>3. QED
      BY <3>1, <3>2
  <2>4. QED
    BY <1>1, <2>3 DEF q, r, s
<1>6. /\ [i \in DOMAIN batch |-> batch[i].name] = [i \in 1 .. n |-> p[f + i].name]
      /\ [i \in DOMAIN batch |->
            [m \in DOMAIN ParseFields(Requests[batch[i].name]) |->
               <<ParseFields(Requests[batch[i].name])[m], batch[i].acc>>]]
           = [i \in 1 .. n |-> stated(i)]
  <2>1. DOMAIN batch = 1 .. n
        /\ \A i \in 1 .. n : batch[i].name = p[f + i].name /\ batch[i].acc = p[f + i].acc
    BY <1>2
  <2> HIDE DEF batch
  <2>2. QED
    BY <2>1
<1>7. [i \in 1 .. n |-> values(i)] = [i \in 1 .. n |-> stated(i)]
  <2> HIDE DEF values, stated
  <2>1. QED
    BY <1>4
<1>8. PackedBatch(P, f, k) = [ids |-> SubSeq(P.ids, f + 1, k),
                              samples |-> Ragged([i \in 1 .. n |-> values(i)])]
  BY DEF PackedBatch
<1>9. QED
  BY <1>5, <1>6, <1>7, <1>8

-----------------------------------------------------------------------------
(* Sampling.                                                               *)

\* The weights that an entry has on a step are the components that cover it.
LEMMA WeightsAre ==
  ASSUME NEW p \in Plan, NEW a, NEW i \in 1 .. Len(p), NEW t \in Nat
  PROVE  \A c : c \in Weights(Packed(p, a), i, t) <=> c \in Component /\ Covers(p[i].win, c, t)
PROOF
<1> DEFINE P == Packed(p, a)
           win == p[i].win
           row == TimeRow(win)
<1>1. win \in Windows
  BY PlanElement
<1>2. Row(P["time"], i) = row
  <2>1. ReadsAs(P, i, p[i])
    BY PackedReads
  <2> HIDE DEF P
  <2>2. QED
    BY ZenonT(60), <2>1 DEF ReadsAs
<1>3. row \in Seq(TimeItem)
      /\ Picks(row, [n \in DOMAIN Components |-> TimeOf(win, Components[n])], UsedAt(win))
  BY <1>1, TimeRowIs
<1>4. DOMAIN row = 1 .. Len(row)
  BY <1>3, LenProperties
<1>5. \A c : c \in Weights(P, i, t)
             <=> \E m \in 1 .. Len(row) : c = row[m].weight /\ row[m].lo <= t /\ t < row[m].hi
  <2> HIDE DEF row, P
  <2>1. P.time = P["time"]
    OBVIOUS
  <2>2. QED
    BY <1>2, <1>4, <2>1 DEF Weights
<1> HIDE DEF P
<1>6. ASSUME NEW c, c \in Weights(P, i, t) PROVE c \in Component /\ Covers(win, c, t)
  <2>1. PICK m \in 1 .. Len(row) : c = row[m].weight /\ row[m].lo <= t /\ t < row[m].hi
    BY <1>5, <1>6
  <2>2. PICK x \in Component : win[x] # Unused /\ row[m] = TimeOf(win, x)
    BY <1>1, TimeItems
  <2>3. QED
    BY <2>1, <2>2 DEF TimeOf, Covers
<1>7. ASSUME NEW c \in Component, Covers(win, c, t) PROVE c \in Weights(P, i, t)
  <2>1. win[c] # Unused
    BY <1>7 DEF Covers, Unused
  <2>2. PICK n \in 1 .. Len(Components) : Components[n] = c
    BY ComponentsAre
  <2>3. DOMAIN Components = 1 .. Len(Components)
    BY ComponentsAre, LenProperties
  <2>4. n \in UsedAt(win)
    BY <2>1, <2>2, <2>3 DEF UsedAt
  <2>5. PICK f : /\ Listing(f, Len(row), UsedAt(win), Less)
                 /\ \A k \in 1 .. Len(row) :
                      row[k] = [j \in DOMAIN Components |-> TimeOf(win, Components[j])][f[k]]
    BY <1>3 DEF Picks
  <2>6. PICK k \in 1 .. Len(row) : f[k] = n
    BY <2>4, <2>5 DEF Listing
  <2>7. row[k] = TimeOf(win, c)
    BY <2>2, <2>3, <2>5, <2>6
  <2>8. c = row[k].weight /\ row[k].lo <= t /\ t < row[k].hi
    BY <1>7, <2>7 DEF TimeOf, Covers
  <2>9. QED
    BY <1>5, <2>8
<1>8. QED
  BY <1>6, <1>7 DEF P


LEMMA GainedIs ==
  ASSUME NEW p \in Plan, NEW a, NEW i \in 1 .. Len(p), NEW t \in Nat,
         NEW v \in Sampled
  PROVE  LET g == Gained(v, Weights(Packed(p, a), i, t), t, 1)
         IN  /\ g \in Sampled
             /\ v[2] = p[i].acc => g = <<v[1], Accumulate(p[i], t).acc>>
PROOF
<1> DEFINE W == Weights(Packed(p, a), i, t)
           g == Gained(v, W, t, 1)
           acc == [cs \in Component \X Step |-> v[2][cs] + IF cs[2] = t /\ cs[1] \in W THEN 1 ELSE 0]
<1>1. \A c : c \in W <=> c \in Component /\ Covers(p[i].win, c, t)
  BY WeightsAre
<1>2. g = <<v[1], acc>> /\ v[1] \in Tracer /\ v[2] \in Tally
  BY DEF Gained, Sampled
<1> HIDE DEF W, g
<1>3. acc \in Tally
  BY <1>2 DEF Tally
<1>4. ASSUME v[2] = p[i].acc PROVE acc = Accumulate(p[i], t).acc
  <2>1. p[i] \in PlanEntry
    BY PlanElement
  <2>2. Accumulate(p[i], t).acc
          = [cs \in Component \X Step |->
               IF cs[2] = t /\ Covers(p[i].win, cs[1], t) THEN v[2][cs] + 1 ELSE v[2][cs]]
    BY <1>4, <2>1 DEF Accumulate, PlanEntry
  <2>3. \A cs \in Component \X Step : v[2][cs] \in Nat
    BY <1>2 DEF Tally
  <2>4. \A cs \in Component \X Step : cs[1] \in Component
    OBVIOUS
  <2>5. QED
    BY <1>1, <2>2, <2>3, <2>4
<1>5. QED
  BY <1>2, <1>3, <1>4 DEF g, W, Sampled

\* The accumulators of an entry, and the entry that has an accumulator.
Offset(p, i) == Ragged(FieldRows(p)).start[i]
SlotsOf(p, i) == {a \in Nat : Offset(p, i) < a /\ a <= Offset(p, i) + Len(FieldRows(p)[i])}
Owner(p, a) == CHOOSE i \in 1 .. Len(p) : a \in SlotsOf(p, i)
SlotCount(p) == Len(FlattenSeq(SampleRows(p)))

LEMMA OwnerIs ==
  ASSUME NEW p \in Plan
  PROVE  /\ SlotCount(p) \in Nat
         /\ FlattenSeq(SampleRows(p)) \in [1 .. SlotCount(p) -> Sampled]
         /\ \A i \in 1 .. Len(p) :
              /\ Offset(p, i) \in Nat /\ Len(FieldRows(p)[i]) \in Nat
              /\ \A m \in 1 .. Len(FieldRows(p)[i]) : Offset(p, i) + m \in SlotsOf(p, i)
              /\ SlotsOf(p, i) \subseteq 1 .. SlotCount(p)
              /\ \A a \in SlotsOf(p, i) :
                   /\ Owner(p, a) = i
                   /\ \E m \in 1 .. Len(FieldRows(p)[i]) :
                        /\ a = Offset(p, i) + m
                        /\ FlattenSeq(SampleRows(p))[a] = <<FieldRows(p)[i][m], p[i].acc>>
         /\ \A a \in 1 .. SlotCount(p) :
              Owner(p, a) \in 1 .. Len(p) /\ a \in SlotsOf(p, Owner(p, a))
PROOF
<1> DEFINE f == FieldRows(p)
           A == FlattenSeq(SampleRows(p))
           r == Ragged(f)
           S == SlotCount(p)
           st(i) == Offset(p, i)
           w(i) == Len(f[i])
<1>1. f \in Seq(Seq(Tracer)) /\ Len(f) = Len(p) /\ Len(p) \in Nat
      /\ \A i \in 1 .. Len(p) : f[i] \in Seq(Tracer)
  BY FieldRowsAre, PlanElement
<1>2. \A i \in 1 .. Len(p) : w(i) \in Nat
  BY <1>1, LenProperties
<1>3. Layout(r, Tracer, f)
  BY <1>1, RaggedIs
<1>4. /\ A \in Seq(Sampled) /\ Len(A) = S /\ S = Len(r.data)
      /\ \A i \in 1 .. Len(p) : \A m \in 1 .. w(i) : A[st(i) + m] = <<f[i][m], p[i].acc>>
  BY SlotsAre DEF SlotCount, Offset
<1>5. S \in Nat /\ A \in [1 .. S -> Sampled]
  BY <1>4, LenProperties
<1>6. /\ \A i \in 1 .. Len(p) : st(i) \in Nat /\ st(i) + w(i) <= S
      /\ \A i, j \in 1 .. Len(p) : i < j => st(i) + w(i) <= st(j)
      /\ \A a \in 1 .. S : \E i \in 1 .. Len(p) : \E m \in 1 .. w(i) : a = st(i) + m
  BY <1>1, <1>3, <1>4 DEF Layout, Offset
<1>7. \A i : SlotsOf(p, i) = {a \in Nat : st(i) < a /\ a <= st(i) + w(i)}
  BY DEF SlotsOf
<1> HIDE DEF A, S, st, w
<1>8. ASSUME NEW i \in 1 .. Len(p), NEW a \in SlotsOf(p, i)
      PROVE  /\ a \in 1 .. S /\ a - st(i) \in 1 .. w(i) /\ a = st(i) + (a - st(i))
             /\ A[a] = <<f[i][a - st(i)], p[i].acc>>
  <2>1. a \in Nat /\ st(i) < a /\ a <= st(i) + w(i) /\ st(i) \in Nat /\ w(i) \in Nat
    BY <1>2, <1>6, <1>7
  <2> DEFINE x == st(i)
             y == w(i)
  <2>2. a \in Nat /\ x < a /\ a <= x + y /\ x \in Nat /\ y \in Nat /\ x + y <= S
    BY <1>6, <2>1
  <2> HIDE DEF x, y
  <2>3. a \in 1 .. S /\ a - x \in 1 .. y /\ a = x + (a - x)
    BY <1>5, <2>2
  <2>4. A[x + (a - x)] = <<f[i][a - x], p[i].acc>>
    BY <1>4, <2>3 DEF x, y
  <2>5. QED
    BY <2>3, <2>4 DEF x, y
<1>9. ASSUME NEW i \in 1 .. Len(p), NEW j \in 1 .. Len(p), NEW a,
             a \in SlotsOf(p, i), a \in SlotsOf(p, j)
      PROVE  i = j
  <2>1. /\ a \in Nat /\ st(i) < a /\ a <= st(i) + w(i) /\ st(j) < a /\ a <= st(j) + w(j)
        /\ st(i) \in Nat /\ w(i) \in Nat /\ st(j) \in Nat /\ w(j) \in Nat
    BY <1>2, <1>6, <1>7, <1>9
  <2>2. ~ (i < j) /\ ~ (j < i)
    BY SMTT(60), <1>6, <2>1
  <2>3. QED
    BY <1>1, <2>2
<1>10. \A i \in 1 .. Len(p) : \A a \in SlotsOf(p, i) : Owner(p, a) = i
  BY <1>9 DEF Owner
<1>11. ASSUME NEW i \in 1 .. Len(p), NEW m \in 1 .. w(i) PROVE st(i) + m \in SlotsOf(p, i)
  <2> DEFINE x == st(i)
             y == w(i)
  <2>1. x \in Nat /\ y \in Nat /\ m \in 1 .. y
    BY <1>2, <1>6
  <2>2. SlotsOf(p, i) = {a \in Nat : x < a /\ a <= x + y}
    BY <1>7
  <2> HIDE DEF x, y
  <2>3. x + m \in Nat /\ x < x + m /\ x + m <= x + y
    BY <2>1
  <2>4. QED
    BY <2>2, <2>3 DEF x
<1>12. ASSUME NEW a \in 1 .. S
       PROVE  Owner(p, a) \in 1 .. Len(p) /\ a \in SlotsOf(p, Owner(p, a))
  <2>1. PICK i \in 1 .. Len(p) : \E m \in 1 .. w(i) : a = st(i) + m
    BY <1>6
  <2>2. a \in SlotsOf(p, i)
    BY <1>11, <2>1
  <2>3. QED
    BY <1>10, <2>2
<1>13. \A i \in 1 .. Len(p) : \A a \in SlotsOf(p, i) :
         \E m \in 1 .. w(i) : a = st(i) + m /\ A[a] = <<f[i][m], p[i].acc>>
  BY <1>8
<1>14. \A i \in 1 .. Len(p) : SlotsOf(p, i) \subseteq 1 .. S
  BY <1>8
<1> HIDE DEF f
<1>15. QED
  BY <1>2, <1>5, <1>6, <1>10, <1>11, <1>12, <1>13, <1>14 DEF A, S, st, w, f

LEMMA OwnerAt ==
  ASSUME NEW p \in Plan, NEW i \in 1 .. Len(p), NEW a \in SlotsOf(p, i)
  PROVE  /\ Owner(p, a) = i
         /\ \E m \in 1 .. Len(FieldRows(p)[i]) :
              /\ a = Offset(p, i) + m
              /\ FlattenSeq(SampleRows(p))[a] = <<FieldRows(p)[i][m], p[i].acc>>
BY OwnerIs

\* The accumulators when the entries after f, up to k, have been sampled.
SlotsUpTo(p, f, t, k) ==
  [a \in 1 .. SlotCount(p) |->
     LET v == FlattenSeq(SampleRows(p))[a]
     IN  IF f < Owner(p, a) /\ Owner(p, a) <= k
           THEN Gained(v, Weights(Packed(p, f), Owner(p, a), t), t, 1) ELSE v]

\* When all have, they are the accumulators of the sampled plan.
LEMMA SampledSlots ==
  ASSUME NEW p \in Plan, NEW f \in Nat, NEW t \in Step
  PROVE  [Packed(p, f) EXCEPT !.accumulator = SlotsUpTo(p, f, t, Len(p))]
           = Packed(SamplePlan(p, f, t), f)
PROOF
<1> DEFINE q == SamplePlan(p, f, t)
           A == FlattenSeq(SampleRows(p))
           B == FlattenSeq(SampleRows(q))
           C == SlotsUpTo(p, f, t, Len(p))
<1>1. t \in Nat /\ Len(p) \in Nat /\ DOMAIN p = 1 .. Len(p)
  BY HorizonAssumption, PlanElement DEF Step
<1>2. /\ q \in Plan /\ Len(q) = Len(p) /\ DOMAIN q = 1 .. Len(p)
      /\ \A i \in 1 .. Len(p) : q[i].name = p[i].name
  BY SamplePlanIs, PlanElement
<1>3. \A i \in 1 .. Len(p) : q[i] = IF i > f THEN Accumulate(p[i], t) ELSE p[i]
  BY <1>1 DEF SamplePlan
<1>4. \A i \in 1 .. Len(p) : q[i].win = p[i].win
  <2>1. \A entry \in PlanEntry : Accumulate(entry, t).win = entry.win
    BY DEF Accumulate, PlanEntry
  <2>2. QED
    BY <1>3, <2>1, PlanElement
<1> HIDE DEF q
<1>5. /\ [i \in DOMAIN q |-> q[i].name] = [i \in DOMAIN p |-> p[i].name]
      /\ [i \in DOMAIN q |-> End[q[i].name]] = [i \in DOMAIN p |-> End[p[i].name]]
  BY <1>1, <1>2
<1>6. /\ FieldRows(q) = FieldRows(p)
      /\ TimeRows(q) = TimeRows(p)
      /\ OperatorRows(Horizontal, q) = OperatorRows(Horizontal, p)
      /\ OperatorRows(Vertical, q) = OperatorRows(Vertical, p)
  <2>1. FieldRows(q) = FieldRows(p)
    BY <1>1, <1>2 DEF FieldRows
  <2>2. TimeRows(q) = TimeRows(p)
    BY <1>1, <1>2, <1>4 DEF TimeRows
  <2>3. OperatorRows(Horizontal, q) = OperatorRows(Horizontal, p)
        /\ OperatorRows(Vertical, q) = OperatorRows(Vertical, p)
    BY <1>1, <1>2 DEF OperatorRows
  <2>4. QED
    BY <2>1, <2>2, <2>3
<1>7. \A i : Offset(q, i) = Offset(p, i) /\ SlotsOf(q, i) = SlotsOf(p, i)
  BY <1>6 DEF Offset, SlotsOf
<1>8. SlotCount(q) = SlotCount(p)
  <2>1. SlotCount(q) = Len(Ragged(FieldRows(q)).data) /\ SlotCount(p) = Len(Ragged(FieldRows(p)).data)
    BY <1>2, SlotsAre DEF SlotCount
  <2>2. QED
    BY <1>6, <2>1
<1>9. C = B
  <2>1. B \in [1 .. SlotCount(p) -> Sampled]
    BY <1>2, <1>8, OwnerIs
  <2>2. ASSUME NEW a \in 1 .. SlotCount(p) PROVE C[a] = B[a]
    <3> DEFINE i == Owner(p, a)
               v == A[a]
    <3>1. i \in 1 .. Len(p) /\ a \in SlotsOf(p, i) /\ a \in SlotsOf(q, i)
      BY <1>7, OwnerIs
    <3>2. PICK m \in 1 .. Len(FieldRows(p)[i]) :
            a = Offset(p, i) + m /\ v = <<FieldRows(p)[i][m], p[i].acc>>
      BY <3>1, OwnerIs
    <3>3. PICK n \in 1 .. Len(FieldRows(p)[i]) :
            a = Offset(p, i) + n /\ B[a] = <<FieldRows(p)[i][n], q[i].acc>>
      <4>1. i \in 1 .. Len(q)
        BY <1>2, <3>1
      <4> HIDE DEF i
      <4>2. \E n \in 1 .. Len(FieldRows(q)[i]) :
              a = Offset(q, i) + n /\ B[a] = <<FieldRows(q)[i][n], q[i].acc>>
        BY <1>2, <3>1, <4>1, OwnerAt
      <4>3. QED
        BY <1>6, <1>7, <4>2
    <3>4. m = n
      <4>1. Offset(p, i) \in Nat /\ m \in Nat /\ n \in Nat
        BY <3>1, OwnerIs
      <4>2. QED
        BY <3>2, <3>3, <4>1
    <3>5. B[a] = <<v[1], q[i].acc>> /\ v[2] = p[i].acc /\ v \in Sampled
      <4>1. A[a] \in Sampled
        BY OwnerIs
      <4> HIDE DEF A, B, i
      <4>2. QED
        BY <3>2, <3>3, <3>4, <4>1
    <3> HIDE DEF i, v, B
    <3>6. C[a] = IF f < i /\ i <= Len(p) THEN Gained(v, Weights(Packed(p, f), i, t), t, 1) ELSE v
      BY DEF SlotsUpTo, i, v
    <3>7. CASE i > f
      <4>1. Gained(v, Weights(Packed(p, f), i, t), t, 1) = <<v[1], Accumulate(p[i], t).acc>>
        BY <1>1, <3>1, <3>5, GainedIs
      <4>2. q[i] = Accumulate(p[i], t)
        BY <1>3, <3>1, <3>7
      <4>3. QED
        BY <1>1, <3>1, <3>5, <3>6, <3>7, <4>1, <4>2
    <3>8. CASE ~ (i > f)
      <4>1. q[i] = p[i]
        BY <1>3, <3>1, <3>8
      <4>2. C[a] = v
        BY <3>1, <3>6, <3>8
      <4>3. v = <<v[1], v[2]>>
        BY <3>5 DEF Sampled
      <4>4. QED
        BY <3>5, <4>1, <4>2, <4>3
    <3>9. QED
      BY <3>7, <3>8
  <2>3. C = [a \in 1 .. SlotCount(p) |-> C[a]]
    BY DEF SlotsUpTo
  <2> HIDE DEF C, B
  <2>4. QED
    BY <2>1, <2>2, <2>3
<1> DEFINE I == [i \in DOMAIN p |-> p[i].name]
           E == [i \in DOMAIN p |-> End[p[i].name]]
           F == OwnSlots(Ragged(FieldRows(p)))
           T == Ragged(TimeRows(p))
           H == Ragged(OperatorRows(Horizontal, p))
           V == Ragged(OperatorRows(Vertical, p))
<1>10. Packed(p, f) = [ids |-> I, end |-> E, field |-> F, accumulator |-> A,
                       time |-> T, horizontal |-> H, vertical |-> V, first |-> f]
  BY PackedRows
<1>11. Packed(q, f) = [ids |-> I, end |-> E, field |-> F, accumulator |-> B,
                       time |-> T, horizontal |-> H, vertical |-> V, first |-> f]
  BY <1>5, <1>6, PackedRows
<1> HIDE DEF I, E, F, T, H, V, A, B, C
<1>12. QED
  BY <1>9, <1>10, <1>11 DEF q, C

\* One field of an entry, whose tracer is asked for once.
LEMMA AddFieldIs ==
  ASSUME NEW p \in Plan, NEW f \in Nat, NEW i \in 1 .. Len(p), NEW t \in Nat,
         NEW v \in [1 .. SlotCount(p) -> Sampled], NEW m \in 1 .. Len(FieldRows(p)[i])
  PROVE  LET a == Offset(p, i) + m
             g == Gained(v[a], Weights(Packed(p, f), i, t), t, 1)
         IN  /\ AddField(Packed(p, f), i, t, v, m) = [v EXCEPT ![a] = g]
             /\ a \in 1 .. SlotCount(p) /\ g \in Sampled
PROOF
<1> DEFINE P == Packed(p, f)
           row == Row(P["field"], i)
           fields == FieldRows(p)[i]
           T == {n \in DOMAIN row : row[n].tracer = row[m].tracer}
           W == Weights(P, i, t)
           a == Offset(p, i) + m
<1>1. a \in 1 .. SlotCount(p)
  BY OwnerIs
<1>2. Gained(v[a], W, t, 1) \in Sampled
  <2>1. v[a] \in Sampled
    BY <1>1
  <2> HIDE DEF a, W
  <2>2. QED
    BY <2>1, GainedIs DEF W
<1>3. FieldRowIs(row, fields, Offset(p, i))
  <2>1. FieldRows(p) \in Seq(Seq(Tracer)) /\ i \in 1 .. Len(FieldRows(p))
    BY FieldRowsAre
  <2>2. P["field"] = OwnSlots(Ragged(FieldRows(p)))
    BY PackedRows
  <2>3. QED
    BY <2>1, <2>2, OwnRowIs DEF Offset
<1>4. fields \in Seq(Tracer) /\ Once(fields)
  BY FieldRowsAre
<1> HIDE DEF row, fields, W, P
<1>5. row[m].slot = a /\ DOMAIN row = 1 .. Len(fields)
      /\ \A n \in 1 .. Len(fields) : row[n].tracer = fields[n]
  BY <1>3 DEF FieldRowIs, fields
<1>6. T = {m}
  BY <1>4, <1>5 DEF Once, fields
<1>7. Cardinality(T) = 1
  BY <1>6, FS_Singleton
<1>8. P.field = P["field"]
  OBVIOUS
<1> HIDE DEF a
<1>9. AddField(P, i, t, v, m) = [v EXCEPT ![a] = Gained(v[a], W, t, 1)]
  BY <1>5, <1>7, <1>8 DEF AddField, W, row
<1>10. QED
  BY <1>1, <1>2, <1>9 DEF a, W, P

\* All the fields of an entry.
SlotsGained(p, f, t, i, v) ==
  [a \in 1 .. SlotCount(p) |->
     IF a \in SlotsOf(p, i) THEN Gained(v[a], Weights(Packed(p, f), i, t), t, 1) ELSE v[a]]

LEMMA AddEntryIs ==
  ASSUME NEW p \in Plan, NEW f \in Nat, NEW i \in 1 .. Len(p), NEW t \in Nat,
         NEW v \in [1 .. SlotCount(p) -> Sampled]
  PROVE  AddEntry(Packed(p, f), t, v, i) = SlotsGained(p, f, t, i, v)
PROOF
<1> DEFINE P == Packed(p, f)
           n == Len(FieldRows(p)[i])
           S == SlotCount(p)
           V == [1 .. S -> Sampled]
           W == Weights(P, i, t)
           x == Offset(p, i)
           row == Row(P.field, i)
           count == [m \in DOMAIN row |-> m]
           step == [m \in 1 .. n |-> [u \in V |-> AddField(P, i, t, u, m)]]
           Def(g) == g = [T \in SUBSET (1 .. n) |->
                            IF T = {} THEN v
                            ELSE LET y == Max(T) IN AddField(P, i, t, g[T \ {y}], count[y])]
           g == CHOOSE h : Def(h)
<1>1. /\ n \in Nat /\ S \in Nat /\ x \in Nat /\ v \in V
      /\ SlotsOf(p, i) = {a \in Nat : x < a /\ a <= x + n} /\ SlotsOf(p, i) \subseteq 1 .. S
  BY OwnerIs DEF SlotsOf
<1>2. DOMAIN row = 1 .. n
  <2>1. FieldRowIs(Row(OwnSlots(Ragged(FieldRows(p))), i), FieldRows(p)[i], x)
    <3>1. FieldRows(p) \in Seq(Seq(Tracer)) /\ i \in 1 .. Len(FieldRows(p))
      BY FieldRowsAre
    <3>2. QED
      BY <3>1, OwnRowIs DEF Offset
  <2>2. P.field = OwnSlots(Ragged(FieldRows(p)))
    BY PackedRows
  <2>3. QED
    BY <2>1, <2>2 DEF FieldRowIs
<1> HIDE DEF n
<1>3. DOMAIN count = 1 .. n /\ Len(count) = n /\ \A m \in 1 .. n : count[m] = m
  <2> HIDE DEF row
  <2>1. count = [m \in 1 .. n |-> m]
    BY <1>2
  <2> HIDE DEF count
  <2>2. count \in Seq(Nat) /\ Len(count) = n
    BY <1>1, <2>1
  <2>3. QED
    BY <2>1, <2>2
<1> HIDE DEF P
<1>4. AddEntry(P, t, v, i) = g[1 .. n]
  BY <1>3 DEF AddEntry, FoldLeft, MapThenFoldSet
<1> HIDE DEF P, row, count, W, x, V, S
<1>5. ASSUME NEW m \in 1 .. n, NEW u \in V
      PROVE  /\ step[m][u] = AddField(P, i, t, u, m)
             /\ step[m][u] = [u EXCEPT ![x + m] = Gained(u[x + m], W, t, 1)]
             /\ x + m \in 1 .. S /\ Gained(u[x + m], W, t, 1) \in Sampled
             /\ step[m][u] \in V
  <2>1. /\ AddField(P, i, t, u, m) = [u EXCEPT ![x + m] = Gained(u[x + m], W, t, 1)]
        /\ x + m \in 1 .. S /\ Gained(u[x + m], W, t, 1) \in Sampled
    BY AddFieldIs DEF P, W, x, V, S, n
  <2>2. [u EXCEPT ![x + m] = Gained(u[x + m], W, t, 1)] \in V
    BY <2>1 DEF V
  <2>3. QED
    BY <2>1, <2>2
<1>6. \A m \in 1 .. n, u \in V : step[m][u] \in V
  BY <1>5
<1>7. PICK h \in [SUBSET (1 .. n) -> V] : Unfolds(h, n, v, step)
  <2> HIDE DEF step
  <2>1. QED
    BY <1>1, <1>6, FoldIs
<1>8. Def(h)
  <2>1. ASSUME NEW T \in SUBSET (1 .. n)
        PROVE  h[T] = IF T = {} THEN v
                      ELSE AddField(P, i, t, h[T \ {Max(T)}], count[Max(T)])
    <3>1. CASE T # {}
      <4>1. Max(T) \in 1 .. n /\ T \ {Max(T)} \in SUBSET (1 .. n)
        BY <1>1, <3>1, LastOf
      <4>2. h[T \ {Max(T)}] \in V /\ count[Max(T)] = Max(T)
        BY <1>3, <4>1
      <4>3. step[Max(T)][h[T \ {Max(T)}]] = AddField(P, i, t, h[T \ {Max(T)}], Max(T))
        BY <1>5, <4>1, <4>2
      <4>4. QED
        BY <1>7, <3>1, <4>2, <4>3 DEF Unfolds
    <3>2. QED
      BY <1>7, <3>1 DEF Unfolds
  <2>2. QED
    BY <2>1
<1>9. Def(g)
  BY <1>8
<1>10. FoldsWith(g, n, V, v, step)
  <2>1. g[{}] = v /\ \A T \in SUBSET (1 .. n) :
          T # {} => g[T] = AddField(P, i, t, g[T \ {Max(T)}], count[Max(T)])
    <3> HIDE DEF g
    <3>1. QED
      BY <1>9
  <2> HIDE DEF g
  <2>2. ASSUME NEW T \in SUBSET (1 .. n), T # {}, NEW u \in V, g[T \ {Max(T)}] = u
        PROVE  g[T] = step[Max(T)][u]
    <3>1. Max(T) \in 1 .. n /\ count[Max(T)] = Max(T)
      BY <1>1, <1>3, <2>2, LastOf
    <3>2. QED
      BY <1>5, <2>1, <2>2, <3>1
  <2>3. QED
    BY <2>1, <2>2 DEF FoldsWith
<1> HIDE DEF g, Def
<1>11. PICK e : Folded(e, n, V, v, step)
  <2> HIDE DEF step
  <2>1. QED
    BY <1>1, <1>6, FoldIs
<1>12. /\ e \in [0 .. n -> V] /\ g[1 .. n] = e[n] /\ e[0] = v
       /\ \A m \in 1 .. n : e[m] = step[m][e[m - 1]]
  <2> HIDE DEF step
  <2>1. QED
    BY <1>10, <1>11 DEF Folded, Recurses
<1> DEFINE After(m) == [a \in 1 .. S |-> IF x < a /\ a <= x + m THEN Gained(v[a], W, t, 1) ELSE v[a]]
           N == {m \in 0 .. n : e[m] = After(m)}
<1>13. 0 \in N
  <2>1. \A a \in 1 .. S : ~ (x < a /\ a <= x + 0)
    BY <1>1
  <2>2. After(0) = [a \in 1 .. S |-> v[a]]
    BY <2>1
  <2>3. v = [a \in 1 .. S |-> v[a]]
    BY <1>1 DEF V
  <2>4. QED
    BY <1>1, <1>12, <2>2, <2>3
<1>14. ASSUME NEW m \in 0 .. n, m \in N, m < n PROVE m + 1 \in N
  <2>1. m + 1 \in 1 .. n /\ (m + 1) - 1 = m /\ m \in 0 .. n /\ e[m] \in V /\ e[m] = After(m)
    BY <1>1, <1>12, <1>14
  <2> DEFINE b == x + (m + 1)
             u == e[m]
  <2>2. /\ e[m + 1] = [u EXCEPT ![b] = Gained(u[b], W, t, 1)] /\ b \in 1 .. S
        /\ u \in [1 .. S -> Sampled]
    <3>1. e[m + 1] = step[m + 1][u]
      BY <1>12, <2>1
    <3> HIDE DEF step, After
    <3>2. QED
      BY <1>5, <2>1, <3>1 DEF V
  <2>3. /\ ~ (x < b /\ b <= x + m) /\ x < b /\ b <= x + (m + 1)
        /\ \A a \in 1 .. S : a # b => (x < a /\ a <= x + m <=> x < a /\ a <= x + (m + 1))
    BY <1>1, <2>1
  <2>4. u[b] = v[b]
    BY <2>1, <2>2, <2>3
  <2>5. \A a \in 1 .. S : a # b => u[a] = After(m + 1)[a]
    BY <2>1, <2>3
  <2>6. After(m + 1)[b] = Gained(v[b], W, t, 1)
    BY <2>2, <2>3
  <2>7. e[m + 1] = After(m + 1)
    <3>1. After(m + 1) = [a \in 1 .. S |-> After(m + 1)[a]]
      OBVIOUS
    <3> HIDE DEF b, u, After
    <3>2. QED
      BY <2>2, <2>4, <2>5, <2>6, <3>1
  <2>8. QED
    BY <2>1, <2>7
<1> HIDE DEF N
<1>15. n \in N
  <2>1. 0 .. n \subseteq N
    <3> HIDE DEF step
    <3>1. QED
      BY <1>1, <1>13, <1>14, UpTo
  <2>2. QED
    BY <1>1, <2>1
<1>16. After(n) = SlotsGained(p, f, t, i, v)
  <2>1. \A a \in 1 .. S : a \in SlotsOf(p, i) <=> x < a /\ a <= x + n
    BY <1>1
  <2>2. QED
    BY <2>1 DEF SlotsGained, S, W, P
<1>17. QED
  BY <1>4, <1>12, <1>15, <1>16 DEF N, P

\* sampling.py adds to every accumulator what sampling the entries adds.
LEMMA SampledOnCpuIs ==
  ASSUME NEW p \in Plan, NEW f \in 0 .. Len(p), NEW t \in Step
  PROVE  SampledOnCpu(Packed(p, f), t) = Packed(SamplePlan(p, f, t), f)
PROOF
<1> DEFINE P == Packed(p, f)
           A == FlattenSeq(SampleRows(p))
           n == Len(p) - f
           S == SlotCount(p)
           V == [1 .. S -> Sampled]
           count == [k \in 1 .. n |-> f + k]
           step == [k \in 1 .. n |-> [u \in V |-> AddEntry(P, t, u, f + k)]]
           Def(g) == g = [T \in SUBSET (1 .. n) |->
                            IF T = {} THEN A
                            ELSE LET y == Max(T) IN AddEntry(P, t, g[T \ {y}], count[y])]
           g == CHOOSE h : Def(h)
<1>1. /\ n \in Nat /\ f \in Nat /\ Len(p) \in Nat /\ t \in Nat /\ f + n = Len(p)
      /\ \A k \in 1 .. n : f + k \in 1 .. Len(p)
  <2>1. Len(p) \in Nat /\ t \in Nat
    BY HorizonAssumption, PlanElement DEF Step
  <2>2. QED
    BY <2>1
<1>2. S \in Nat /\ A \in V
  BY OwnerIs
<1>3. P.first = f /\ P.accumulator = A /\ Len(P.ids) = Len(p)
  <2>1. P.first = f /\ P.accumulator = A /\ P.ids = [i \in DOMAIN p |-> p[i].name]
    BY PackedRows
  <2> HIDE DEF P
  <2>2. P.ids \in [1 .. Len(p) -> Entry]
    BY <2>1, PlanElement
  <2>3. QED
    BY <1>1, <2>1, <2>2
<1>4. SampledOnCpu(P, t) = [P EXCEPT !.accumulator = g[1 .. n]]
  <2> HIDE DEF P, A
  <2>1. QED
    BY <1>3 DEF SampledOnCpu, FoldLeft, MapThenFoldSet
<1> HIDE DEF P, A, n, S, V
<1>5. ASSUME NEW k \in 1 .. n, NEW u \in V
      PROVE  /\ count[k] = f + k /\ step[k][u] = AddEntry(P, t, u, f + k)
             /\ step[k][u] = SlotsGained(p, f, t, f + k, u)
             /\ step[k][u] \in V
  <2>1. f + k \in 1 .. Len(p)
    BY <1>1
  <2>2. AddEntry(P, t, u, f + k) = SlotsGained(p, f, t, f + k, u)
    BY <1>1, <2>1, AddEntryIs DEF P, V, S
  <2>3. SlotsGained(p, f, t, f + k, u) \in V
    <3>1. ASSUME NEW a \in 1 .. S
          PROVE  Gained(u[a], Weights(Packed(p, f), f + k, t), t, 1) \in Sampled /\ u[a] \in Sampled
      <4>1. u[a] \in Sampled
        BY DEF V
      <4>2. QED
        BY <1>1, <2>1, <4>1, GainedIs
    <3>2. QED
      BY <3>1 DEF SlotsGained, V, S
  <2>4. QED
    BY <2>2, <2>3
<1>6. \A k \in 1 .. n, u \in V : step[k][u] \in V
  BY <1>5
<1>7. PICK h \in [SUBSET (1 .. n) -> V] : Unfolds(h, n, A, step)
  <2> HIDE DEF step
  <2>1. QED
    BY <1>1, <1>2, <1>6, FoldIs
<1> HIDE DEF count
<1>8. Def(h)
  <2>1. ASSUME NEW T \in SUBSET (1 .. n)
        PROVE  h[T] = IF T = {} THEN A
                      ELSE AddEntry(P, t, h[T \ {Max(T)}], count[Max(T)])
    <3>1. CASE T # {}
      <4>1. Max(T) \in 1 .. n /\ T \ {Max(T)} \in SUBSET (1 .. n)
        BY <1>1, <3>1, LastOf
      <4>2. h[T \ {Max(T)}] \in V
        BY <4>1
      <4> HIDE DEF step
      <4>3. step[Max(T)][h[T \ {Max(T)}]] = AddEntry(P, t, h[T \ {Max(T)}], count[Max(T)])
        BY <1>5, <4>1, <4>2
      <4>4. QED
        BY <1>7, <3>1, <4>2, <4>3 DEF Unfolds
    <3>2. QED
      BY <1>7, <3>1 DEF Unfolds
  <2>2. QED
    BY <2>1
<1> HIDE DEF step
<1>9. Def(g)
  BY <1>8
<1>10. FoldsWith(g, n, V, A, step)
  <2>1. g[{}] = A /\ \A T \in SUBSET (1 .. n) :
          T # {} => g[T] = AddEntry(P, t, g[T \ {Max(T)}], count[Max(T)])
    <3> HIDE DEF g
    <3>1. QED
      BY <1>9
  <2> HIDE DEF g
  <2>2. ASSUME NEW T \in SUBSET (1 .. n), T # {}, NEW u \in V, g[T \ {Max(T)}] = u
        PROVE  g[T] = step[Max(T)][u]
    <3>1. Max(T) \in 1 .. n
      BY <1>1, <2>2, LastOf
    <3>2. QED
      BY <1>5, <2>1, <2>2, <3>1
  <2>3. QED
    BY <2>1, <2>2 DEF FoldsWith
<1> HIDE DEF g, Def
<1>11. PICK e : Folded(e, n, V, A, step)
  BY <1>1, <1>2, <1>6, FoldIs
<1>12. /\ e \in [0 .. n -> V] /\ g[1 .. n] = e[n] /\ e[0] = A
       /\ \A k \in 1 .. n : e[k] = step[k][e[k - 1]]
  BY <1>10, <1>11 DEF Folded, Recurses
<1>13. \A a \in 1 .. S : Owner(p, a) \in 1 .. Len(p)
       /\ \A i \in 1 .. Len(p) : a \in SlotsOf(p, i) <=> Owner(p, a) = i
  BY OwnerIs DEF S
<1>14. \A k : SlotsUpTo(p, f, t, k) =
         [a \in 1 .. S |->
            IF f < Owner(p, a) /\ Owner(p, a) <= k
              THEN Gained(A[a], Weights(P, Owner(p, a), t), t, 1) ELSE A[a]]
  BY DEF SlotsUpTo, P, A, S
<1> DEFINE N == {k \in 0 .. n : e[k] = SlotsUpTo(p, f, t, f + k)}
<1>15. 0 \in N
  <2>1. \A a \in 1 .. S : ~ (f < Owner(p, a) /\ Owner(p, a) <= f + 0)
    BY <1>1, <1>13
  <2>2. SlotsUpTo(p, f, t, f + 0) = [a \in 1 .. S |-> A[a]]
    BY <1>14, <2>1
  <2>3. A = [a \in 1 .. S |-> A[a]]
    BY <1>2 DEF V
  <2>4. e[0] = SlotsUpTo(p, f, t, f + 0)
    BY Zenon, <1>12, <2>2, <2>3
  <2>5. 0 \in 0 .. n
    BY <1>1
  <2>6. QED
    BY Zenon, <2>4, <2>5
<1>16. ASSUME NEW k \in 0 .. n, k \in N, k < n PROVE k + 1 \in N
  <2> DEFINE i == f + (k + 1)
             u == SlotsUpTo(p, f, t, f + k)
  <2>1. /\ k + 1 \in 1 .. n /\ (k + 1) - 1 = k /\ k \in 0 .. n /\ e[k] \in V /\ e[k] = u
        /\ i \in 1 .. Len(p) /\ f < i
        /\ \A j \in 1 .. Len(p) : j <= i <=> (j <= f + k \/ j = i)
        /\ ~ (i <= f + k)
    BY <1>1, <1>12, <1>16
  <2>2. e[k + 1] = SlotsGained(p, f, t, i, u)
    BY <1>5, <1>12, <2>1
  <2> HIDE DEF i
  <2>3. SlotsGained(p, f, t, i, u) =
          [a \in 1 .. S |-> IF Owner(p, a) = i THEN Gained(u[a], Weights(P, i, t), t, 1) ELSE u[a]]
    <3> HIDE DEF u
    <3>1. QED
      BY <1>13, <2>1 DEF SlotsGained, P, S
  <2>4. ASSUME NEW a \in 1 .. S
        PROVE  (IF Owner(p, a) = i THEN Gained(u[a], Weights(P, i, t), t, 1) ELSE u[a])
                 = IF f < Owner(p, a) /\ Owner(p, a) <= i
                     THEN Gained(A[a], Weights(P, Owner(p, a), t), t, 1) ELSE A[a]
    <3>1. u[a] = IF f < Owner(p, a) /\ Owner(p, a) <= f + k
                   THEN Gained(A[a], Weights(P, Owner(p, a), t), t, 1) ELSE A[a]
      BY <1>14
    <3> HIDE DEF u
    <3>2. QED
      BY <1>13, <2>1, <3>1
  <2>5. SlotsUpTo(p, f, t, i) = SlotsGained(p, f, t, i, u)
    <3> HIDE DEF u
    <3>1. QED
      BY <1>14, <2>3, <2>4
  <2>6. QED
    BY <2>1, <2>2, <2>5 DEF i
<1> HIDE DEF N
<1>17. n \in N
  <2>1. 0 .. n \subseteq N
    BY <1>1, <1>15, <1>16, UpTo
  <2>2. QED
    BY <1>1, <2>1
<1>18. g[1 .. n] = SlotsUpTo(p, f, t, Len(p))
  BY <1>1, <1>12, <1>17 DEF N
<1>19. QED
  BY <1>1, <1>4, <1>18, SampledSlots DEF P

\* So does obsoperator.cu, with a thread for each field.
LEMMA SampledOnCudaIs ==
  ASSUME NEW p \in Plan, NEW f \in 0 .. Len(p), NEW t \in Step
  PROVE  SampledOnCuda(Packed(p, f), t) = Packed(SamplePlan(p, f, t), f)
PROOF
<1> DEFINE P == Packed(p, f)
           A == FlattenSeq(SampleRows(p))
           S == SlotCount(p)
           fields == FieldRows(p)
           rows == [i \in 1 .. Len(p) |-> [m \in 1 .. Len(fields[i]) |-> i]]
           entry == FieldEntry(P)
           Threads == {x \in DOMAIN P.field.data : entry[x] > f}
           slot == [x \in Threads |-> P.field.data[x].slot]
<1>1. /\ f \in Nat /\ Len(p) \in Nat /\ t \in Nat /\ DOMAIN p = 1 .. Len(p)
      /\ S \in Nat /\ A \in [1 .. S -> Sampled]
  BY HorizonAssumption, PlanElement, OwnerIs DEF Step
<1>2. /\ fields \in Seq(Seq(Tracer)) /\ Len(fields) = Len(p)
      /\ \A i \in 1 .. Len(p) : fields[i] \in Seq(Tracer) /\ Len(fields[i]) \in Nat
  BY FieldRowsAre, LenProperties
<1>3. /\ P.first = f /\ P.accumulator = A
      /\ DOMAIN P.ids = 1 .. Len(p)
      /\ P.field = OwnSlots(Ragged(fields))
  BY <1>1, PackedRows
<1> HIDE DEF P, A, fields
<1>4. /\ \A i \in 1 .. Len(p) : P.field.count[i] = Len(fields[i])
      /\ DOMAIN P.field.data = 1 .. S
      /\ \A x \in 1 .. S : P.field.data[x].slot = x
  <2>1. Layout(Ragged(fields), Tracer, fields)
    BY <1>2, RaggedIs
  <2>2. S = Len(Ragged(fields).data)
    BY SlotsAre DEF SlotCount, fields
  <2>3. /\ P.field.count = Ragged(fields).count
        /\ P.field.data \in Seq(Field) /\ Len(P.field.data) = S
        /\ \A x \in 1 .. S : P.field.data[x] = [tracer |-> Ragged(fields).data[x], slot |-> x]
    BY <1>2, <1>3, <2>2, OwnSlotsIs
  <2>4. DOMAIN P.field.data = 1 .. S
    BY <2>3, LenProperties
  <2>5. \A i \in 1 .. Len(p) : Ragged(fields).count[i] = Len(fields[i])
    BY <1>2, <2>1 DEF Layout
  <2>6. ASSUME NEW x \in 1 .. S PROVE P.field.data[x].slot = x
    <3>1. P.field.data[x] = [tracer |-> Ragged(fields).data[x], slot |-> x]
      BY <2>3
    <3>2. QED
      BY <3>1
  <2>7. \A i \in 1 .. Len(p) : P.field.count[i] = Len(fields[i])
    BY <2>3, <2>5
  <2>8. QED
    BY <2>4, <2>6, <2>7
<1>5. entry = FlattenSeq(rows)
  <2>1. [i \in DOMAIN P.ids |-> [m \in 1 .. P.field.count[i] |-> i]] = rows
    BY <1>3, <1>4
  <2>2. QED
    BY <2>1 DEF FieldEntry
<1>6. /\ rows \in Seq(Seq(Nat)) /\ Len(rows) = Len(p)
      /\ \A i \in 1 .. Len(p) : Len(rows[i]) = Len(fields[i])
                                /\ \A m \in 1 .. Len(fields[i]) : rows[i][m] = i
  <2> DEFINE row(i) == [m \in 1 .. Len(fields[i]) |-> i]
  <2>1. ASSUME NEW i \in 1 .. Len(p)
        PROVE  row(i) \in Seq(Nat) /\ Len(row(i)) = Len(fields[i])
    <3> DEFINE k == Len(fields[i])
    <3>1. k \in Nat /\ i \in Nat
      BY <1>2
    <3> HIDE DEF k
    <3>2. [m \in 1 .. k |-> i] \in Seq(Nat) /\ Len([m \in 1 .. k |-> i]) = k
      BY <3>1
    <3>3. QED
      BY <3>2 DEF k
  <2>2. \A i \in 1 .. Len(p) : rows[i] = row(i)
    OBVIOUS
  <2>3. \A i \in 1 .. Len(p) : \A m \in 1 .. Len(fields[i]) : row(i)[m] = i
    OBVIOUS
  <2> DEFINE L == Len(p)
  <2>4. rows = [i \in 1 .. L |-> row(i)]
    OBVIOUS
  <2> HIDE DEF row, rows, L
  <2>5. rows \in [1 .. L -> Seq(Nat)]
    BY <2>1, <2>4 DEF L
  <2>6. rows \in Seq(Seq(Nat)) /\ Len(rows) = L
    BY <1>1, <2>5 DEF L
  <2>7. QED
    BY <2>1, <2>2, <2>3, <2>6 DEF L
<1> HIDE DEF rows, entry
<1>7. \A a \in 1 .. S : entry[a] = Owner(p, a)
  <2>1. Layout(Ragged(rows), Nat, rows)
    BY <1>6, RaggedIs
  <2>2. Ragged(rows).start = Ragged(fields).start
    <3>1. Len(rows) = Len(fields) /\ \A i \in 1 .. Len(fields) : Len(rows[i]) = Len(fields[i])
      BY <1>2, <1>6
    <3>2. QED
      BY <1>2, <1>6, <3>1, SameLayout
  <2>3. \A i \in 1 .. Len(p) : \A m \in 1 .. Len(fields[i]) : entry[Ragged(rows).start[i] + m] = i
    <3>1. /\ Ragged(rows).data = FlattenSeq(rows)
          /\ \A i \in 1 .. Len(rows) : \A m \in 1 .. Len(rows[i]) :
               Ragged(rows).data[Ragged(rows).start[i] + m] = rows[i][m]
      BY <2>1 DEF Layout
    <3>2. ASSUME NEW i \in 1 .. Len(p), NEW m \in 1 .. Len(fields[i])
          PROVE  entry[Ragged(rows).start[i] + m] = i
      <4>1. i \in 1 .. Len(rows) /\ m \in 1 .. Len(rows[i]) /\ rows[i][m] = i
        BY <1>6
      <4>2. QED
        BY <1>5, <3>1, <4>1
    <3>3. QED
      BY <3>2
  <2>4. ASSUME NEW a \in 1 .. S PROVE entry[a] = Owner(p, a)
    <3> DEFINE i == Owner(p, a)
    <3>1. i \in 1 .. Len(p) /\ a \in SlotsOf(p, i)
      BY OwnerIs
    <3> HIDE DEF i
    <3>2. PICK m \in 1 .. Len(FieldRows(p)[i]) : a = Offset(p, i) + m
      BY <3>1, OwnerAt
    <3>3. entry[a] = i
      BY <2>2, <2>3, <3>1, <3>2 DEF Offset, fields
    <3>4. QED
      BY <3>3 DEF i
  <2>5. QED
    BY <2>4
<1>8. \A x : x \in Threads <=> x \in 1 .. S /\ Owner(p, x) > f
  BY <1>4, <1>7
<1>9. \A x \in Threads : slot[x] = x
  BY <1>4, <1>8
<1> HIDE DEF slot, Threads
<1>10. SampledOnCuda(P, t) =
         [P EXCEPT !.accumulator =
            [a \in DOMAIN A |->
               IF \E x \in Threads : slot[x] = a
               THEN Gained(A[a], Weights(P, entry[CHOOSE x \in Threads : slot[x] = a], t), t, 1)
               ELSE A[a]]]
  BY <1>3 DEF SampledOnCuda, slot, Threads, entry
<1>11. ASSUME NEW a \in DOMAIN A
       PROVE  (IF \E x \in Threads : slot[x] = a
               THEN Gained(A[a], Weights(P, entry[CHOOSE x \in Threads : slot[x] = a], t), t, 1)
               ELSE A[a])
               = IF f < Owner(p, a) /\ Owner(p, a) <= Len(p)
                   THEN Gained(A[a], Weights(P, Owner(p, a), t), t, 1) ELSE A[a]
  <2>1. a \in 1 .. S /\ Owner(p, a) \in 1 .. Len(p)
    BY <1>1, OwnerIs
  <2>2. CASE Owner(p, a) > f
    <3>1. a \in Threads /\ slot[a] = a
      BY <1>8, <1>9, <2>1, <2>2
    <3>2. (CHOOSE x \in Threads : slot[x] = a) = a
      BY <1>9, <3>1
    <3>3. entry[a] = Owner(p, a)
      BY <1>7, <2>1
    <3>4. f < Owner(p, a) /\ Owner(p, a) <= Len(p)
      BY <1>1, <2>1, <2>2
    <3>5. QED
      BY Zenon, <3>1, <3>2, <3>3, <3>4
  <2>3. CASE ~ (Owner(p, a) > f)
    <3>1. ~ \E x \in Threads : slot[x] = a
      BY <1>8, <1>9, <2>3
    <3>2. QED
      BY <1>1, <2>1, <2>3, <3>1
  <2>4. QED
    BY <2>2, <2>3
<1>12. DOMAIN A = 1 .. S
  BY <1>1
<1>13. SlotsUpTo(p, f, t, Len(p)) =
         [a \in 1 .. S |->
            IF f < Owner(p, a) /\ Owner(p, a) <= Len(p)
              THEN Gained(A[a], Weights(P, Owner(p, a), t), t, 1) ELSE A[a]]
  BY DEF SlotsUpTo, P, A
<1>14. SampledOnCuda(P, t) = [P EXCEPT !.accumulator = SlotsUpTo(p, f, t, Len(p))]
  BY ZenonT(60), <1>10, <1>11, <1>12, <1>13
<1>15. QED
  BY <1>1, <1>14, SampledSlots DEF P

-----------------------------------------------------------------------------
(* The plans that the manager reaches.                                     *)

\* No plan has an empty window, or one that reaches back to the sentinel.
PlansWindowed ==
  Windowed(plan) /\ \A t \in Boundary : Windowed(restarts[t].plan)

LEMMA CompactWindowed ==
  ASSUME NEW p \in Plan, Windowed(p), NEW t \in Nat
  PROVE  Windowed(CompactPlan(p, t))
PROOF
<1> DEFINE m == CompactPlan(p, t)
           r == Rest(p, t)
           k == CompletedPrefix(p, t)
<1>1. /\ m \in Plan /\ Len(m) = Len(r)
      /\ \A j \in 1 .. Len(r) :
           /\ k + j \in 1 .. Len(p) /\ r[j] = p[k + j]
           /\ m[j].win = ClampWindows(r[j].win, t)
  BY RestIs
<1> HIDE DEF m, r, k
<1>2. ASSUME NEW j \in 1 .. Len(m) PROVE Bounded(m[j].win)
  <2> DEFINE win == p[k + j].win
             cut == m[j].win
  <2>1. win \in Windows /\ Bounded(win) /\ cut = ClampWindows(win, t)
    BY <1>1, PlanElement DEF Windowed
  <2> HIDE DEF win, cut
  <2>2. ASSUME NEW c \in Component, cut[c] # Unused
        PROVE  Sentinel <= cut[c].lo /\ cut[c].lo < cut[c].hi
    <3>1. /\ win[c].hi > t /\ win[c] # Unused /\ win[c].lo \in Int /\ win[c].hi \in Int
          /\ cut[c] = [lo |-> Later(win[c].lo, t), hi |-> win[c].hi]
      BY <2>1, <2>2, CutIs
    <3>2. Sentinel <= win[c].lo /\ win[c].lo < win[c].hi /\ Sentinel \in Int
      BY <2>1, <3>1, SentinelAssumption DEF Bounded
    <3>3. QED
      BY <3>1, <3>2 DEF Later
  <2>3. QED
    BY <2>2 DEF Bounded, cut
<1>3. QED
  BY <1>2 DEF Windowed, m

\* The same windows under other accumulators.
LEMMA SameWindows ==
  ASSUME NEW p, NEW q, Windowed(p), Len(q) = Len(p), \A i \in 1 .. Len(p) : q[i].win = p[i].win
  PROVE  Windowed(q)
BY DEF Windowed

LEMMA ConcatWindowed ==
  ASSUME NEW p \in Plan, NEW q \in Plan, Windowed(p), Windowed(q)
  PROVE  p \o q \in Plan /\ Windowed(p \o q)
PROOF
<1> DEFINE s == p \o q
           a == Len(p)
           b == Len(q)
<1>1. /\ s \in Plan /\ Len(s) = a + b
      /\ \A k \in 1 .. a + b : s[k] = IF k <= a THEN p[k] ELSE q[k - a]
  BY ConcatProperties DEF Plan
<1>2. a \in Nat /\ b \in Nat
  BY PlanElement
<1> HIDE DEF s, a, b
<1>3. ASSUME NEW k \in 1 .. a + b PROVE Bounded(s[k].win)
  <2>1. CASE k <= a
    <3>1. k \in 1 .. a /\ s[k] = p[k]
      BY <1>1, <1>2, <2>1
    <3>2. QED
      BY <3>1 DEF Windowed, a
  <2>2. CASE ~ (k <= a)
    <3>1. k - a \in 1 .. b /\ s[k] = q[k - a]
      BY <1>1, <1>2, <2>2
    <3>2. QED
      BY <3>1 DEF Windowed, b
  <2>3. QED
    BY <2>1, <2>2
<1>4. QED
  BY <1>1, <1>3 DEF Windowed, s

LEMMA SortedWindowed ==
  ASSUME NEW s \in Plan, Windowed(s), NEW m \in StableSorts(s)
  PROVE  Windowed(m)
PROOF
<1>1. PICK q : Sorts(m, s, q)
  BY StableIs
<1>2. QED
  BY <1>1, SortsIs

\* The plan that a step is sampled with.
LEMMA InitializedWindowed ==
  ASSUME PlanType, Windowed(plan), Sorted(plan), NEW t \in Step, NEW init \in Initialized(t)
  PROVE  Windowed(init.plan) /\ init.plan \in Plan
PROOF
<1>1. CASE ~ NeedsInput(t)
  BY <1>1 DEF Initialized, PlanType
<1>2. CASE NeedsInput(t)
  <2> DEFINE s == Candidates(t)
  <2>1. PICK m \in StableSorts(s) : init = [plan |-> m, first |-> 0, live |-> FALSE]
    BY <1>2 DEF Initialized
  <2>2. t \in Nat /\ t \in Int
    BY HorizonAssumption DEF Step
  <2>3. Synced \in Plan /\ Sorted(Synced) /\ Windowed(Synced)
    BY SyncedIs, SameWindows
  <2>4. CompactPlan(Synced, t) \in Plan /\ Windowed(CompactPlan(Synced, t))
    BY <2>2, <2>3, CompactPlanIs, CompactWindowed
  <2>5. Incoming(t) \in Plan /\ Windowed(Incoming(t))
    <3>1. Incoming(t) = Fresh1(Entries[InPath[t]])
      BY DEF Incoming, Fresh1
    <3>2. Entries[InPath[t]] \in Seq(Entry)
      BY PathAssumption
    <3>3. QED
      BY <3>1, <3>2, FreshIs
  <2>6. s \in Plan /\ Windowed(s)
    BY <2>4, <2>5, ConcatWindowed DEF Candidates
  <2> HIDE DEF s
  <2>7. Windowed(m) /\ m \in Plan
    BY <2>6, SortedWindowed, StableSortsIs
  <2>8. QED
    BY <2>1, <2>7
<1>3. QED
  BY <1>1, <1>2

LEMMA InitWindowed == Init => PlansWindowed
PROOF
<1> SUFFICES ASSUME Init PROVE PlansWindowed
  OBVIOUS
<1>1. plan = <<>> /\ \A t \in Boundary : restarts[t].plan = <<>>
  BY DEF Init, NoRestart
<1>2. Len(<<>>) = 0 /\ 1 .. 0 = {}
  OBVIOUS
<1>3. QED
  BY <1>1, <1>2 DEF PlansWindowed, Windowed

LEMMA DetachWindowed ==
  ASSUME IInv, PlansWindowed, DetachPending, UNCHANGED restarts
  PROVE  PlansWindowed'
PROOF
<1>1. PlanType /\ PlanShape
  BY Types DEF IInv
<1>2. Windowed(Synced)
  BY <1>1, SyncedIs, SameWindows DEF PlansWindowed
<1>3. plan' = Synced \/ plan' = plan
  BY DEF DetachPending
<1>4. QED
  BY <1>2, <1>3 DEF PlansWindowed

LEMMA NextWindowed ==
  ASSUME NoInterrupt, IInv, PlansWindowed, [Next]_vars
  PROVE  PlansWindowed'
PROOF
<1>1. /\ PlanType /\ PlanShape /\ Sorted(plan) /\ first \in Nat /\ current \in Boundary /\ stop \in Boundary
      /\ restarts \in [Boundary -> [written : BOOLEAN, plan : Plan]]
      /\ Windowed(plan) /\ \A t \in Boundary : Windowed(restarts[t].plan)
  BY Types DEF IInv, PlanShape, QueueType, PlansWindowed
<1>2. Windowed(Synced) /\ Synced \in Plan
  BY <1>1, SyncedIs, SameWindows
<1>3. Windowed(<<>>)
  <2>1. Len(<<>>) = 0 /\ 1 .. 0 = {}
    OBVIOUS
  <2>2. QED
    BY <2>1 DEF Windowed
<1>4. ASSUME Windowed(plan'), UNCHANGED restarts PROVE PlansWindowed'
  BY <1>1, <1>4 DEF PlansWindowed
<1>5. ASSUME current < stop PROVE current \in Step
  BY <1>1, <1>5, HorizonAssumption DEF Step, Boundary
<1>6. ASSUME NEW t \in Boundary, NEW end \in Boundary, Open(t, end) PROVE PlansWindowed'
  <2>1. plan' = restarts[t].plan /\ UNCHANGED restarts
    BY <1>6 DEF Open
  <2>2. QED
    BY <1>1, <1>4, <2>1
<1>7. CASE Sample
  <2>1. PICK init \in Initialized(current) : plan' = SamplePlan(init.plan, init.first, current)
    BY <1>7 DEF Sample
  <2>2. current \in Step /\ UNCHANGED restarts
    BY <1>5, <1>7 DEF Sample
  <2>3. Windowed(init.plan) /\ init.plan \in Plan
    BY <1>1, <2>2, InitializedWindowed
  <2> DEFINE p == init.plan
             q == SamplePlan(p, init.first, current)
  <2>4. Len(p) \in Nat /\ DOMAIN p = 1 .. Len(p) /\ \A i \in 1 .. Len(p) : p[i] \in PlanEntry
    BY <2>3, PlanElement
  <2>5. q = [i \in 1 .. Len(p) |-> IF i > init.first THEN Accumulate(p[i], current) ELSE p[i]]
    BY <2>4 DEF SamplePlan
  <2>6. \A entry \in PlanEntry : Accumulate(entry, current).win = entry.win
    BY DEF Accumulate, PlanEntry
  <2>7. Len(q) = Len(p)
    <3>1. init.first \in Nat
      BY <1>1, <2>1 DEF Initialized, PlanShape
    <3>2. QED
      BY <2>2, <2>3, <3>1, SamplePlanIs
  <2> HIDE DEF p
  <2>8. \A i \in 1 .. Len(p) : q[i].win = p[i].win
    BY <2>4, <2>5, <2>6
  <2>9. Windowed(q)
    <3> HIDE DEF q
    <3>1. QED
      BY <2>3, <2>7, <2>8, SameWindows DEF p
  <2>10. QED
    BY <1>4, <2>1, <2>2, <2>9 DEF p
<1>8. CASE Launch
  <2>1. PICK init \in Initialized(current) : plan' = init.plan
    BY <1>8 DEF Launch
  <2>2. current \in Step /\ UNCHANGED restarts
    BY <1>5, <1>8 DEF Launch
  <2>3. QED
    BY <1>1, <1>4, <2>1, <2>2, InitializedWindowed
<1>9. CASE Detach \/ Close
  <2>1. UNCHANGED restarts
    BY <1>9 DEF Detach, Close
  <2>2. CASE DetachPending
    BY <2>1, <2>2, DetachWindowed
  <2>3. CASE UNCHANGED plan
    BY <1>1, <1>4, <2>1, <2>3
  <2>4. QED
    BY <1>9, <2>2, <2>3 DEF Detach, Close
<1>10. CASE DetachRaises
  BY <1>2, <1>4, <1>10 DEF DetachRaises
<1>11. CASE UNCHANGED plan /\ UNCHANGED restarts
  BY <1>1, <1>4, <1>11
<1>12. CASE Gone /\ UNCHANGED restarts
  BY <1>3, <1>4, <1>12 DEF Gone
<1>13. CASE CloseFinishes
  <2>1. /\ restarts' = [restarts EXCEPT ![current] =
                          [written |-> TRUE, plan |-> CompactPlan(Synced, current)]]
        /\ plan' = <<>>
    BY <1>13 DEF CloseFinishes, Gone
  <2>2. Windowed(CompactPlan(Synced, current))
    <3>1. current \in Nat
      BY <1>1 DEF Boundary
    <3>2. QED
      BY <1>2, <3>1, CompactWindowed
  <2>3. ASSUME NEW t \in Boundary PROVE Windowed(restarts'[t].plan)
    <3>1. restarts'[t].plan = IF t = current THEN CompactPlan(Synced, current) ELSE restarts[t].plan
      BY <1>1, <2>1
    <3>2. QED
      BY <1>1, <2>2, <3>1
  <2>4. QED
    BY <1>3, <2>1, <2>3 DEF PlansWindowed
<1>14. CASE Advance \/ StepEndCuda \/ DrainOne \/ DrainDone \/ Reject \/ LoopEnds \/ Raise
  <2>1. UNCHANGED plan /\ UNCHANGED restarts
    BY <1>14 DEF Advance, StepEndCuda, DrainOne, DrainDone, Reject, LoopEnds, Raise, planVars, loopVars
  <2>2. QED
    BY <1>11, <2>1
<1>15. CASE CloseDetachRaises \/ CloseRefused \/ RestartFails \/ Crash
  BY <1>12, <1>15 DEF CloseDetachRaises, CloseRefused, RestartFails, Crash
<1>16. CASE SampleInterrupted \/ DrainInterrupted
  BY <1>16 DEF SampleInterrupted, DrainInterrupted, NoInterrupt
<1>17. CASE UNCHANGED vars
  BY <1>11, <1>17 DEF vars, planVars
<1>18. QED
  BY <1>6, <1>7, <1>8, <1>9, <1>10, <1>13, <1>14, <1>15, <1>16, <1>17 DEF Next, Run, Fault

\* Loading, compacting, merging and cutting out what is complete give, on the
\* arrays, what they give on the entries, for every file, boundary and plan
\* that a campaign reaches: whatever the entries, their requests, operators,
\* windows and components are (state.py:269-736, input.py:67-257).
THEOREM PackingIsFaithful ==
  ASSUME NoInterrupt
  PROVE  Spec => []PackingFaithful
PROOF
<1>1. Init => IInv /\ PlansWindowed
  BY InitIInv, InitWindowed
<1>2. IInv /\ PlansWindowed /\ [Next]_vars => (IInv /\ PlansWindowed)'
  BY NextIInv, NextWindowed
<1>3. IInv /\ PlansWindowed => PackingFaithful
  <2> SUFFICES ASSUME IInv, PlansWindowed, NEW t \in Boundary
               PROVE  /\ CompactPacked(Host, t) = Packed(CompactPlan(Synced, t), 0)
                      /\ \A f \in InputFile : \A merged \in Merged(f, t) :
                           MergePacked(CompactPacked(Host, t), LoadPacked(Entries[f]))
                             = Packed(merged, 0)
                      /\ LET complete == CompletedPrefix(plan, t)
                             batch == CompletedBatch(Synced, first, complete)
                         IN  complete >= first =>
                               PackedBatch(Host, first, complete)
                                 = [ids |-> [i \in DOMAIN batch |-> batch[i].name],
                                    samples |-> Ragged([i \in DOMAIN batch |->
                                      LET fields == ParseFields(Requests[batch[i].name])
                                      IN  [m \in DOMAIN fields |-> <<fields[m], batch[i].acc>>]])]
    BY DEF PackingFaithful
  <2> DEFINE c == CompactPlan(Synced, t)
  <2>1. /\ PlanType /\ PlanShape /\ first \in Nat /\ t \in Nat /\ t \in Int
        /\ Synced \in Plan /\ Sorted(Synced) /\ Len(Synced) = Len(plan) /\ Windowed(Synced)
    <3>1. PlanType /\ PlanShape /\ QueueType /\ Windowed(plan) /\ t \in Nat /\ t \in Int
      BY Types DEF IInv, PlansWindowed, Boundary
    <3>2. QED
      BY <3>1, SyncedIs, SameWindows DEF PlanShape, QueueType
  <2>2. CompactPacked(Host, t) = Packed(c, 0)
    BY <2>1, CompactPackedIs DEF Host
  <2>3. c \in Plan /\ Sorted(c) /\ Windowed(c)
    BY <2>1, CompactPlanIs, CompactWindowed
  <2>4. ASSUME NEW f \in InputFile, NEW merged \in Merged(f, t)
        PROVE  MergePacked(CompactPacked(Host, t), LoadPacked(Entries[f])) = Packed(merged, 0)
    <3> DEFINE new == Fresh1(Entries[f])
    <3>1. Entries[f] \in Seq(Entry)
      BY PathAssumption
    <3>2. new \in Plan /\ Windowed(new)
      BY <3>1, FreshIs
    <3>3. merged \in StableSorts(c \o new)
      BY <2>4 DEF Merged, Fresh1
    <3>4. PICK d, w : Sorts(d, new, w) /\ LoadPacked(Entries[f]) = Packed(d, 0)
      BY <3>1, LoadPackedIs
    <3> HIDE DEF c, new
    <3>5. MergePacked(Packed(c, 0), Packed(d, 0)) = Packed(merged, 0)
      BY <2>3, <3>2, <3>3, <3>4, MergePackedIs
    <3>6. QED
      BY <2>2, <3>4, <3>5
  <2>5. LET complete == CompletedPrefix(plan, t)
            batch == CompletedBatch(Synced, first, complete)
        IN  complete >= first =>
              PackedBatch(Host, first, complete)
                = [ids |-> [i \in DOMAIN batch |-> batch[i].name],
                   samples |-> Ragged([i \in DOMAIN batch |->
                     LET fields == ParseFields(Requests[batch[i].name])
                     IN  [m \in DOMAIN fields |-> <<fields[m], batch[i].acc>>]])]
    <3> DEFINE k == CompletedPrefix(plan, t)
    <3>1. k \in 0 .. Len(Synced)
      BY <2>1, CompletedPrefixIs DEF PlanType
    <3> HIDE DEF k
    <3>2. ASSUME k >= first PROVE first <= k
      BY <2>1, <3>1, <3>2
    <3>3. QED
      BY <2>1, <3>1, <3>2, PackedBatchIs DEF Host, k
  <2>6. QED
    BY <2>2, <2>4, <2>5
<1>4. QED
  BY <1>1, <1>2, <1>3, PTL DEF Spec

\* On every plan that a campaign reaches, both kernels add to the accumulators
\* what sampling the entries adds, at any step (sampling.py:36-300,
\* sampling_cuda.py:55-190, sources/obsoperator.cu).
THEOREM KernelsAgreeAlways ==
  ASSUME NoInterrupt
  PROVE  Spec => []KernelsAgree
PROOF
<1>1. IInv => KernelsAgree
  <2> SUFFICES ASSUME IInv, NEW t \in Step
               PROVE  /\ SampledOnCpu(Host, t) = Packed(SamplePlan(Synced, first, t), first)
                      /\ SampledOnCuda(Host, t) = Packed(SamplePlan(Synced, first, t), first)
    BY DEF KernelsAgree
  <2>1. /\ PlanType /\ first \in Nat /\ first <= Len(plan)
    BY Types DEF IInv, PlanShape, QueueType
  <2>2. Synced \in Plan /\ first \in 0 .. Len(Synced)
    <3>1. Synced \in Plan /\ Len(Synced) = Len(plan) /\ Len(plan) \in Nat
      BY <2>1, SyncedIs DEF PlanType, Plan
    <3>2. QED
      BY <2>1, <3>1
  <2>3. QED
    BY <2>2, SampledOnCpuIs, SampledOnCudaIs DEF Host
<1>2. Spec => []IInv
  BY InvariantHolds
<1>3. QED
  BY <1>1, <1>2, PTL

-----------------------------------------------------------------------------
(* What files say of times and places.                                     *)

\* The operators of the files: dates and steps that begin no earlier than the
\* campaign, and that no run's horizon cuts.
WithinCampaign(op) ==
  /\ TimeOperator(op) /\ op.start \in Nat /\ op.end \in Nat
  /\ op.end <= IF op.unit = "time" THEN Horizon * StepLength ELSE Horizon

\* The steps of such an operator lie within the campaign too.
LEMMA WithinSteps ==
  ASSUME NEW s \in Nat, NEW op, WithinCampaign(op), ~Early(op, s * StepLength)
  PROVE  LET begin == s * StepLength
         IN  /\ Opens(op, begin) <= Closes(op, begin) => 0 <= s + Opens(op, begin)
             /\ s + Closes(op, begin) <= s + Horizon
PROOF
<1> DEFINE begin == s * StepLength
           closes == Closes(op, begin)
           opens == Opens(op, begin)
<1>1. StepLength \in Nat \ {0} /\ begin \in Nat /\ Horizon \in Nat
  BY StepAssumption, HorizonAssumption
<1>2. CASE op.unit = "time_index"
  <2>1. closes = op.end /\ opens = op.start
    BY <1>2 DEF ParseTimeValue, IsPoint, TimeOperator, Opens, Closes, WithinCampaign
  <2>2. QED
    BY <1>1, <1>2, <2>1 DEF WithinCampaign
<1>3. CASE op.unit = "time"
  <2> DEFINE u == StepsUp(op.end - begin)
  <2>1. op.end \in Nat /\ op.end > begin /\ op.end <= Horizon * StepLength
    BY <1>1, <1>3 DEF Early, WithinCampaign
  <2>2. u \in Int /\ u >= 1
    <3>1. s \in Int /\ op.end \in Int
      BY <2>1
    <3>2. QED
      BY <2>1, <3>1, Ends
  <2>3. closes = u - 1
    BY <1>3, <2>2 DEF ParseTimeValue, Larger, Closes
  <2>4. op.end <= ((Horizon - 1) + 1) * StepLength <=> s + u - 1 <= Horizon - 1
    <3>1. s \in Int /\ Horizon - 1 \in Int /\ op.end \in Int
      BY <2>1, <1>1
    <3>2. QED
      BY <3>1, Ends
  <2>5. s + u - 1 <= Horizon - 1
    BY <2>1, <2>4, <1>1, (Horizon - 1) + 1 = Horizon
  <2> HIDE DEF u
  <2>6. s + closes <= s + Horizon
    BY <2>2, <2>3, <2>5, <1>1
  <2>7. CASE op.start = op.end
    <3>1. opens = u - 1
      BY <1>3, <2>3, <2>7 DEF IsPoint, Opens
    <3>2. QED
      BY <2>2, <2>6, <3>1
  <2>8. CASE op.start # op.end
    <3> DEFINE f == StepsDown(op.start - begin)
    <3>1. opens = f
      BY <1>3, <2>8 DEF IsPoint, TimeOperator, ParseTimeValue, Opens, WithinCampaign
    <3>2. f \in Int
      BY <1>1, Down DEF WithinCampaign
    <3>3. op.start < (-1 + 1) * StepLength <=> s + f <= -1
      <4>1. s \in Int /\ op.start \in Int /\ -1 \in Int
        BY DEF WithinCampaign
      <4>2. QED
        BY <4>1, Begins
    <3> HIDE DEF f
    <3>4. ~(op.start < (-1 + 1) * StepLength)
      BY <1>1 DEF WithinCampaign
    <3>5. QED
      BY <2>6, <3>1, <3>2, <3>3, <3>4
  <2>9. QED
    BY <2>7, <2>8
<1>4. QED
  BY <1>2, <1>3 DEF WithinCampaign, TimeOperator

\* A run is never behind where it began.
Ran == start \in Nat /\ current \in Nat /\ start <= current

LEMMA RanHolds == Spec => []Ran
PROOF
<1>1. Init => Ran
  BY DEF Init, Ran
<1>2. Ran /\ [Next]_vars => Ran'
  <2> SUFFICES ASSUME Ran, [Next]_vars PROVE Ran'
    OBVIOUS
  <2>1. CASE start' = start /\ (current' = current \/ current' = current + 1)
    BY <2>1 DEF Ran
  <2>2. ASSUME NEW t \in Boundary, NEW end \in Boundary, Open(t, end) PROVE Ran'
    BY <2>2, HorizonAssumption DEF Open, Ran, Boundary
  <2>3. CASE UNCHANGED vars
    BY <2>1, <2>3 DEF vars, loopVars, runVars
  <2>4. CASE Gone
    BY <2>1, <2>4 DEF Gone
  <2>6. CASE Sample \/ Advance \/ Launch \/ StepEndCuda \/ DrainOne \/ DrainDone \/ Detach
              \/ DetachRaises \/ Reject \/ LoopEnds \/ Raise \/ Close
              \/ SampleInterrupted \/ DrainInterrupted
    BY <2>6, <2>1 DEF runVars, loopVars, Sample, Advance, Launch, StepEndCuda, DrainOne, DrainDone,
       Detach, DetachRaises, Reject, LoopEnds, Raise, Close, SampleInterrupted, DrainInterrupted
  <2>7. CASE CloseDetachRaises \/ CloseFinishes \/ CloseRefused \/ RestartFails \/ Crash
    BY <2>4, <2>7 DEF CloseDetachRaises, CloseFinishes, CloseRefused, RestartFails, Crash
  <2>8. QED
    BY <2>2, <2>3, <2>6, <2>7 DEF Next, Run, Fault
<1>3. QED
  BY <1>1, <1>2, PTL DEF Spec

LEMMA TimesTrue ==
  ASSUME Ran, \A op \in TimeOperators : WithinCampaign(op)
  PROVE  TimesAsStated
PROOF
<1> DEFINE begin == start * StepLength
           Steps(op) == {k \in start .. start + 2 * Horizon : Stated(op, begin, k)}
<1>1. Horizon \in Nat /\ StepLength \in Nat \ {0} /\ start \in Nat /\ current \in Nat
  BY StepAssumption, HorizonAssumption DEF Ran
<1> SUFFICES ASSUME Reads, NEW op \in TimeOperators, ~Early(op, begin)
             PROVE  /\ \A w \in Taken(op) :
                         /\ {k \in start .. start + 2 * Horizon : Samples(w, k)} = Steps(op)
                         /\ op.weights = "normalized" => w.count = Cardinality(Steps(op))
                    /\ Taken(op) = {} =>
                         \/ Steps(op) = {}
                         \/ \E k \in 0 .. current - 1 : Stated(op, begin, k)
  BY DEF TimesAsStated
<1>2. current >= start
  BY DEF Ran
<1> DEFINE closes == Closes(op, begin)
           opens == Opens(op, begin)
<1>3. /\ opens \in Int /\ closes \in Int
      /\ \A k \in Int : Stated(op, begin, k) <=> start + opens <= k /\ k <= start + closes
  BY <1>1, StatedIs DEF WithinCampaign
<1>4. /\ opens <= closes => 0 <= start + opens
      /\ start + closes <= start + Horizon
  BY <1>1, WithinSteps
<1>5. Taken(op) = {w \in ParseTimeOperator(op, begin) : w.lo >= current * StepLength}
  BY DEF Taken
<1>6. ParseTimeOperator(op, begin) =
        IF opens > closes THEN {}
        ELSE {[lo |-> begin + opens * StepLength,
               hi |-> begin + (closes + 1) * StepLength,
               count |-> IF op.weights = "normalized" THEN closes - opens + 1 ELSE 1]}
  BY ParsedIs
<1> HIDE DEF opens, closes
<1>7. begin + opens * StepLength >= current * StepLength <=> current <= start + opens
  <2>1. (start + opens) * StepLength = begin + opens * StepLength
    BY <1>1, <1>3, StepMultiples
  <2>2. current * StepLength <= (start + opens) * StepLength <=> current <= start + opens
    BY <1>1, <1>3, StepMultiples, start + opens \in Int
  <2>3. QED
    BY <1>1, <1>3, <2>1, <2>2
<1>8. ASSUME NEW w \in Taken(op)
      PROVE  /\ {k \in start .. start + 2 * Horizon : Samples(w, k)} = Steps(op)
             /\ op.weights = "normalized" => w.count = Cardinality(Steps(op))
  <2>1. /\ ~(opens > closes) /\ w \in ParseTimeOperator(op, begin)
        /\ w.lo = begin + opens * StepLength
        /\ op.weights = "normalized" => w.count = closes - opens + 1
    BY <1>5, <1>6
  <2>2. current <= start + opens
    BY <1>5, <1>7, <2>1
  <2>3. ASSUME NEW k \in start .. start + 2 * Horizon
        PROVE  Samples(w, k) <=> Stated(op, begin, k)
    <3>1. k \in Int /\ start \in Int /\ TimeOperator(op)
      BY <1>1 DEF WithinCampaign
    <3>2. QED
      BY <2>1, <3>1, SampledAsStated
  <2>4. Steps(op) = start + opens .. start + closes
    BY <1>1, <1>2, <1>3, <1>4, <2>2
  <2>5. Cardinality(start + opens .. start + closes) = closes - opens + 1
    BY <1>1, <1>3, <2>1, FS_Interval, start + opens \in Int, start + closes \in Int
  <2>6. QED
    BY <2>1, <2>3, <2>4, <2>5
<1>9. ASSUME Taken(op) = {}
      PROVE  Steps(op) = {} \/ \E k \in 0 .. current - 1 : Stated(op, begin, k)
  <2>1. CASE opens > closes
    BY <1>1, <1>3, <2>1
  <2>2. CASE ~(opens > closes)
    <3>1. ~(current <= start + opens)
      <4> DEFINE w == [lo |-> begin + opens * StepLength,
                       hi |-> begin + (closes + 1) * StepLength,
                       count |-> IF op.weights = "normalized" THEN closes - opens + 1 ELSE 1]
      <4>1. w \in ParseTimeOperator(op, begin) /\ w.lo = begin + opens * StepLength
        BY <1>6, <2>2
      <4> HIDE DEF w
      <4>2. ~(w.lo >= current * StepLength)
        BY <1>5, <1>9, <4>1
      <4>3. QED
        BY <1>7, <4>1, <4>2
    <3>2. start + opens \in 0 .. current - 1 /\ Stated(op, begin, start + opens)
      BY <1>1, <1>3, <1>4, <2>2, <3>1
    <3>3. QED
      BY <3>2
  <2>3. QED
    BY <2>1, <2>2
<1>10. QED
  BY <1>8, <1>9
-----------------------------------------------------------------------------
(* Places.                                                                 *)

\* How many cells an axis has, and how wide they are, in quarters of a degree.
CellCount(r, axis) ==
  IF axis = "longitude" THEN IF r = "2x25" THEN 144 ELSE 72
                        ELSE IF r = "2x25" THEN 91 ELSE 46
CellWidth(r, axis) ==
  IF axis = "longitude" THEN IF r = "2x25" THEN 10 ELSE 20
                        ELSE IF r = "2x25" THEN 8 ELSE 16

LEMMA LargestIs ==
  ASSUME NEW T \in SUBSET Int, NEW m \in T, \A x \in T : x <= m
  PROVE  Max(T) = m
PROOF
<1>1. \A y \in T : m >= y
  OBVIOUS
<1>2. \A w \in T : (\A y \in T : w >= y) => w = m
  OBVIOUS
<1>3. QED
  BY <1>1, <1>2 DEF Max

\* The centers with a half box at either end.
Capped(a, u, b) == <<a>> \o u \o <<b>>

LEMMA CappedIs ==
  ASSUME NEW u \in Seq(Int), NEW a \in Int, NEW b \in Int, NEW c, c = Capped(a, u, b)
  PROVE  /\ Len(c) = Len(u) + 2
         /\ c[1] = a /\ c[Len(u) + 2] = b
         /\ \A i \in 2 .. Len(u) + 1 : c[i] = u[i - 1]
PROOF
<1> DEFINE n == Len(u)
<1>1. <<a>> \in Seq(Int) /\ <<b>> \in Seq(Int) /\ Len(<<a>>) = 1 /\ Len(<<b>>) = 1
      /\ <<a>>[1] = a /\ <<b>>[1] = b
  OBVIOUS
<1> DEFINE v == <<a>> \o u
<1>2. v \in Seq(Int) /\ Len(v) = n + 1 /\ v[1] = a
      /\ \A i \in 2 .. n + 1 : v[i] = u[i - 1]
  BY <1>1
<1>3. c = v \o <<b>>
  BY DEF Capped
<1> HIDE DEF v
<1>4. v \o <<b>> \in Seq(Int) /\ Len(v \o <<b>>) = n + 2
      /\ (\A i \in 1 .. n + 1 : (v \o <<b>>)[i] = v[i])
      /\ (v \o <<b>>)[n + 2] = b
  BY <1>1, <1>2
<1>5. QED
  BY <1>2, <1>3, <1>4

LEMMA GridIs ==
  ASSUME NEW r \in Resolution, NEW axis \in Axis
  PROVE  /\ Len(Centers[r][axis]) = CellCount(r, axis)
         /\ Spacing[r][axis] = CellWidth(r, axis)
         /\ axis = "longitude" =>
              \A i \in 1 .. CellCount(r, axis) :
                Centers[r][axis][i] = -720 + CellWidth(r, axis) * (i - 1)
PROOF
<1> DEFINE c == Centers[r][axis]
           D == {c[i + 1] - c[i] : i \in 1 .. Len(c) - 1}
<1>1. Spacing[r][axis] = Max(D)
  BY DEF Spacing
<1>2. CASE r = "2x25" /\ axis = "longitude"
  <2>1. c = Upto(-720, 144, 10)
    BY <1>2 DEF Centers
  <2>2. Len(c) = 144 /\ \A i \in 1 .. 144 : c[i] = -720 + 10 * (i - 1)
    <3> HIDE DEF c
    <3>1. Upto(-720, 144, 10) \in [1 .. 144 -> Int]
      BY DEF Upto
    <3>2. Len(Upto(-720, 144, 10)) = 144
      BY <3>1
    <3>3. QED
      BY <2>1, <3>2 DEF Upto
  <2> HIDE DEF c
  <2>3. D \in SUBSET Int /\ 10 \in D /\ \A x \in D : x <= 10
    <3>1. \A i \in 1 .. 143 : c[i + 1] - c[i] = 10
      BY <2>2
    <3>2. Len(c) - 1 = 143 /\ 1 \in 1 .. 143
      BY <2>2
    <3>3. D = {c[i + 1] - c[i] : i \in 1 .. 143}
      BY <3>2
    <3> HIDE DEF D
    <3>4. D = {10}
      BY <3>1, <3>2, <3>3
    <3>5. QED
      BY <3>4
  <2>4. Max(D) = 10
    BY <2>3, LargestIs
  <2>5. QED
    BY <1>1, <1>2, <2>2, <2>4 DEF CellCount, CellWidth, c
<1>3. CASE r = "4x5" /\ axis = "longitude"
  <2>1. c = Upto(-720, 72, 20)
    BY <1>3 DEF Centers
  <2>2. Len(c) = 72 /\ \A i \in 1 .. 72 : c[i] = -720 + 20 * (i - 1)
    <3> HIDE DEF c
    <3>1. Upto(-720, 72, 20) \in [1 .. 72 -> Int]
      BY DEF Upto
    <3>2. Len(Upto(-720, 72, 20)) = 72
      BY <3>1
    <3>3. QED
      BY <2>1, <3>2 DEF Upto
  <2> HIDE DEF c
  <2>3. D \in SUBSET Int /\ 20 \in D /\ \A x \in D : x <= 20
    <3>1. \A i \in 1 .. 71 : c[i + 1] - c[i] = 20
      BY <2>2
    <3>2. Len(c) - 1 = 71 /\ 1 \in 1 .. 71
      BY <2>2
    <3>3. D = {c[i + 1] - c[i] : i \in 1 .. 71}
      BY <3>2
    <3> HIDE DEF D
    <3>4. D = {20}
      BY <3>1, <3>2, <3>3
    <3>5. QED
      BY <3>4
  <2>4. Max(D) = 20
    BY <2>3, LargestIs
  <2>5. QED
    BY <1>1, <1>3, <2>2, <2>4 DEF CellCount, CellWidth, c
<1>4. CASE r = "2x25" /\ axis = "latitude"
  <2>1. c = <<-358>> \o Upto(-352, 89, 8) \o <<358>>
    BY <1>4 DEF Centers
  <2>2. Len(c) = 91 /\ c[1] = -358 /\ c[91] = 358
        /\ \A i \in 2 .. 90 : c[i] = -352 + 8 * (i - 2)
    <3> HIDE DEF c
    <3> DEFINE u == Upto(-352, 89, 8)
    <3>1. u \in [1 .. 89 -> Int]
      BY DEF Upto
    <3>2. u \in Seq(Int) /\ Len(u) = 89
      <4>1. PICK m \in Nat : m = 89
        OBVIOUS
      <4>2. u \in [1 .. m -> Int]
        BY <3>1, <4>1
      <4> HIDE DEF u
      <4>3. u \in Seq(Int) /\ Len(u) = m
        BY <4>2
      <4>4. QED
        BY <4>1, <4>3
    <3>3. \A i \in 1 .. 89 : u[i] = -352 + 8 * (i - 1)
      BY DEF Upto
    <3> HIDE DEF u
    <3>4. -358 \in Int /\ 358 \in Int
      OBVIOUS
    <3> DEFINE v == <<-358>> \o u \o <<358>>
    <3>5. /\ Len(v) = 89 + 2 /\ v[1] = -358 /\ v[89 + 2] = 358
          /\ \A i \in 2 .. 89 + 1 : v[i] = u[i - 1]
      <4>1. PICK a \in Int, b \in Int : a = -358 /\ b = 358
        BY <3>4
      <4>2. v = Capped(a, u, b)
        BY <4>1 DEF Capped
      <4> HIDE DEF v
      <4>3. /\ Len(v) = Len(u) + 2 /\ v[1] = a /\ v[Len(u) + 2] = b
            /\ \A i \in 2 .. Len(u) + 1 : v[i] = u[i - 1]
        <5>1. u \in Seq(Int)
          BY <3>2
        <5>2. a \in Int /\ b \in Int
          OBVIOUS
        <5>3. QED
          BY ONLY <4>2, <5>1, <5>2, CappedIs
      <4>4. QED
        BY <3>2, <4>1, <4>3
    <3>6. c = v
      BY <2>1 DEF u
    <3> HIDE DEF v
    <3>7. \A i \in 2 .. 90 : v[i] = -352 + 8 * ((i - 1) - 1)
      BY <3>5, <3>3
    <3>8. QED
      BY <3>5, <3>6, <3>7
  <2> HIDE DEF c
  <2>3. D \in SUBSET Int /\ 8 \in D /\ \A x \in D : x <= 8
    <3>1. /\ \A i \in 2 .. 89 : c[i + 1] - c[i] = 8
          /\ c[2] - c[1] = 6 /\ c[91] - c[90] = 6
      BY <2>2
    <3>2. \A i \in 1 .. 90 : i = 1 \/ i \in 2 .. 89 \/ i = 90
      OBVIOUS
    <3>3. QED
      BY <2>2, <3>1, <3>2, 2 \in 1 .. 90
  <2>4. Max(D) = 8
    BY <2>3, LargestIs
  <2>5. QED
    BY <1>1, <1>4, <2>2, <2>4 DEF CellCount, CellWidth, c
<1>5. CASE r = "4x5" /\ axis = "latitude"
  <2>1. c = <<-356>> \o Upto(-344, 44, 16) \o <<356>>
    BY <1>5 DEF Centers
  <2>2. Len(c) = 46 /\ c[1] = -356 /\ c[46] = 356
        /\ \A i \in 2 .. 45 : c[i] = -344 + 16 * (i - 2)
    <3> HIDE DEF c
    <3> DEFINE u == Upto(-344, 44, 16)
    <3>1. u \in [1 .. 44 -> Int]
      BY DEF Upto
    <3>2. u \in Seq(Int) /\ Len(u) = 44
      <4>1. PICK m \in Nat : m = 44
        OBVIOUS
      <4>2. u \in [1 .. m -> Int]
        BY <3>1, <4>1
      <4> HIDE DEF u
      <4>3. u \in Seq(Int) /\ Len(u) = m
        BY <4>2
      <4>4. QED
        BY <4>1, <4>3
    <3>3. \A i \in 1 .. 44 : u[i] = -344 + 16 * (i - 1)
      BY DEF Upto
    <3> HIDE DEF u
    <3>4. -356 \in Int /\ 356 \in Int
      OBVIOUS
    <3> DEFINE v == <<-356>> \o u \o <<356>>
    <3>5. /\ Len(v) = 44 + 2 /\ v[1] = -356 /\ v[44 + 2] = 356
          /\ \A i \in 2 .. 44 + 1 : v[i] = u[i - 1]
      <4>1. PICK a \in Int, b \in Int : a = -356 /\ b = 356
        BY <3>4
      <4>2. v = Capped(a, u, b)
        BY <4>1 DEF Capped
      <4> HIDE DEF v
      <4>3. /\ Len(v) = Len(u) + 2 /\ v[1] = a /\ v[Len(u) + 2] = b
            /\ \A i \in 2 .. Len(u) + 1 : v[i] = u[i - 1]
        <5>1. u \in Seq(Int)
          BY <3>2
        <5>2. a \in Int /\ b \in Int
          OBVIOUS
        <5>3. QED
          BY ONLY <4>2, <5>1, <5>2, CappedIs
      <4>4. QED
        BY <3>2, <4>1, <4>3
    <3>6. c = v
      BY <2>1 DEF u
    <3> HIDE DEF v
    <3>7. \A i \in 2 .. 45 : v[i] = -344 + 16 * ((i - 1) - 1)
      BY <3>5, <3>3
    <3>8. QED
      BY <3>5, <3>6, <3>7
  <2> HIDE DEF c
  <2>3. D \in SUBSET Int /\ 16 \in D /\ \A x \in D : x <= 16
    <3>1. /\ \A i \in 2 .. 44 : c[i + 1] - c[i] = 16
          /\ c[2] - c[1] = 12 /\ c[46] - c[45] = 12
      BY <2>2
    <3>2. \A i \in 1 .. 45 : i = 1 \/ i \in 2 .. 44 \/ i = 45
      OBVIOUS
    <3>3. QED
      BY <2>2, <3>1, <3>2, 2 \in 1 .. 45
  <2>4. Max(D) = 16
    BY <2>3, LargestIs
  <2>5. QED
    BY <1>1, <1>5, <2>2, <2>4 DEF CellCount, CellWidth, c
<1>6. QED
  BY <1>2, <1>3, <1>4, <1>5 DEF Resolution, Axis

\* The index of a place, once its axis has been measured.
LEMMA IndexIs ==
  ASSUME NEW r \in Resolution, NEW axis \in Axis, NEW value \in -Bound(axis) .. Bound(axis)
  PROVE  LET s == CellWidth(r, axis)
             n == CellCount(r, axis)
             near == (2 * (value + Bound(axis)) + 3 * s) \div (2 * s) - 1
             put == IF axis = "longitude" /\ near >= n THEN near - n
                    ELSE IF near > n - 1 THEN n - 1 ELSE near
         IN  /\ near \in 0 .. n /\ put \in 0 .. n - 1
             /\ 2 * s * near <= 2 * (value + Bound(axis)) + s
             /\ 2 * (value + Bound(axis)) + s < 2 * s * near + 2 * s
             /\ axis = "longitude" /\ near >= n => near = n
             /\ axis = "latitude" => near = put
             /\ HorizontalIndex(r, axis, "degrees", value) = {put}
PROOF
<1> DEFINE s == CellWidth(r, axis)
           n == CellCount(r, axis)
           top == 2 * (value + Bound(axis)) + 3 * s
           near == top \div (2 * s) - 1
           wrapped == IF axis = "longitude" /\ near >= n THEN near - n ELSE near
           put == IF axis = "longitude" /\ near >= n THEN near - n
                  ELSE IF near > n - 1 THEN n - 1 ELSE near
<1>1. HorizontalIndex(r, axis, "degrees", value) = {Min({Max({wrapped, 0}), n - 1})}
  <2>1. Len(Centers[r][axis]) = n /\ Spacing[r][axis] = s
    BY GridIs
  <2>2. value \in -Bound(axis) .. Bound(axis) /\ "degrees" # "grid_index"
    OBVIOUS
  <2> HIDE DEF n, s
  <2>3. QED
    BY <2>1, <2>2 DEF HorizontalIndex
<1>2. /\ near \in 0 .. n /\ put \in 0 .. n - 1
      /\ 2 * s * near <= 2 * (value + Bound(axis)) + s
      /\ 2 * (value + Bound(axis)) + s < 2 * s * near + 2 * s
      /\ axis = "longitude" /\ near >= n => near = n
      /\ axis = "latitude" => near = put
  <2>1. CASE r = "2x25" /\ axis = "longitude"
    <3>1. s = 10 /\ n = 144 /\ Bound(axis) = 720 /\ value \in -720 .. 720
      BY <2>1 DEF CellWidth, CellCount, Bound
    <3>2. near = (2 * (value + 720) + 30) \div 20 - 1
      BY <3>1
    <3> HIDE DEF near, s, n
    <3>3. QED
      BY <2>1, <3>1, <3>2
  <2>2. CASE r = "4x5" /\ axis = "longitude"
    <3>1. s = 20 /\ n = 72 /\ Bound(axis) = 720 /\ value \in -720 .. 720
      BY <2>2 DEF CellWidth, CellCount, Bound
    <3>2. near = (2 * (value + 720) + 60) \div 40 - 1
      BY <3>1
    <3> HIDE DEF near, s, n
    <3>3. QED
      BY <2>2, <3>1, <3>2
  <2>3. CASE r = "2x25" /\ axis = "latitude"
    <3>1. s = 8 /\ n = 91 /\ Bound(axis) = 360 /\ value \in -360 .. 360
      BY <2>3 DEF CellWidth, CellCount, Bound
    <3>2. near = (2 * (value + 360) + 24) \div 16 - 1
      BY <3>1
    <3> HIDE DEF near, s, n
    <3>3. QED
      BY <2>3, <3>1, <3>2
  <2>4. CASE r = "4x5" /\ axis = "latitude"
    <3>1. s = 16 /\ n = 46 /\ Bound(axis) = 360 /\ value \in -360 .. 360
      BY <2>4 DEF CellWidth, CellCount, Bound
    <3>2. near = (2 * (value + 360) + 48) \div 32 - 1
      BY <3>1
    <3> HIDE DEF near, s, n
    <3>3. QED
      BY <2>4, <3>1, <3>2
  <2>5. QED
    BY <2>1, <2>2, <2>3, <2>4 DEF Resolution, Axis
<1>3. Min({Max({wrapped, 0}), n - 1}) = put
  <2>1. near \in Nat /\ n \in Nat \ {0} /\ wrapped \in Nat
    BY <1>2 DEF CellCount
  <2> HIDE DEF near, n
  <2>2. Max({wrapped, 0}) = wrapped
    BY <2>1, LargestIs, {wrapped, 0} \in SUBSET Int, wrapped \in {wrapped, 0}
  <2>3. Min({wrapped, n - 1}) = IF wrapped > n - 1 THEN n - 1 ELSE wrapped
    BY <2>1, MinOfTwo
  <2>4. QED
    BY <1>2, <2>1, <2>2, <2>3
<1>4. QED
  BY <1>1, <1>2, <1>3

\* Places further on have no smaller index, as long as the last half box of
\* longitudes is not reached.
LEMMA IndexGrows ==
  ASSUME NEW r \in Resolution, NEW axis \in Axis,
         NEW from \in -Bound(axis) .. Bound(axis), NEW to \in from .. Bound(axis),
         ~AtDateline(r, axis, to)
  PROVE  \E i, j \in 0 .. CellCount(r, axis) - 1 :
           /\ i <= j
           /\ HorizontalIndex(r, axis, "degrees", from) = {i}
           /\ HorizontalIndex(r, axis, "degrees", to) = {j}
PROOF
<1> DEFINE s == CellWidth(r, axis)
           n == CellCount(r, axis)
           Near(v) == (2 * (v + Bound(axis)) + 3 * s) \div (2 * s) - 1
           Put(v) == IF axis = "longitude" /\ Near(v) >= n THEN Near(v) - n
                     ELSE IF Near(v) > n - 1 THEN n - 1 ELSE Near(v)
<1>1. to \in -Bound(axis) .. Bound(axis) /\ Bound(axis) \in Int
  BY DEF Bound
<1> DEFINE Within(v) == /\ Near(v) \in 0 .. n /\ Put(v) \in 0 .. n - 1
                        /\ 2 * s * Near(v) <= 2 * (v + Bound(axis)) + s
                        /\ 2 * (v + Bound(axis)) + s < 2 * s * Near(v) + 2 * s
                        /\ axis = "longitude" /\ Near(v) >= n => Near(v) = n
                        /\ axis = "latitude" => Near(v) = Put(v)
                        /\ HorizontalIndex(r, axis, "degrees", v) = {Put(v)}
<1>2. Within(from) /\ Within(to)
  BY <1>1, IndexIs
<1>3. AtDateline(r, axis, to) <=> axis = "longitude" /\ to >= 720 - s \div 2
  BY GridIs DEF AtDateline
<1> DEFINE a == Near(from)
           b == Near(to)
<1>4. a <= b /\ (axis = "longitude" => b < n)
  <2>1. /\ a \in Int /\ b \in Int /\ from \in Int /\ to \in Int /\ from <= to
        /\ 2 * s * a <= 2 * (from + Bound(axis)) + s
        /\ 2 * (to + Bound(axis)) + s < 2 * s * b + 2 * s
        /\ 2 * s * b <= 2 * (to + Bound(axis)) + s
        /\ axis = "longitude" => to < 720 - s \div 2
    BY <1>1, <1>2, <1>3 DEF CellWidth
  <2> HIDE DEF a, b
  <2>2. CASE r = "2x25" /\ axis = "longitude"
    <3>1. s = 10 /\ n = 144 /\ Bound(axis) = 720
      BY <2>2 DEF CellWidth, CellCount, Bound
    <3> HIDE DEF s, n
    <3>2. QED
      BY <2>1, <2>2, <3>1
  <2>3. CASE r = "4x5" /\ axis = "longitude"
    <3>1. s = 20 /\ n = 72 /\ Bound(axis) = 720
      BY <2>3 DEF CellWidth, CellCount, Bound
    <3> HIDE DEF s, n
    <3>2. QED
      BY <2>1, <2>3, <3>1
  <2>4. CASE r = "2x25" /\ axis = "latitude"
    <3>1. s = 8 /\ Bound(axis) = 360
      BY <2>4 DEF CellWidth, Bound
    <3> HIDE DEF s
    <3>2. QED
      BY <2>1, <2>4, <3>1
  <2>5. CASE r = "4x5" /\ axis = "latitude"
    <3>1. s = 16 /\ Bound(axis) = 360
      BY <2>5 DEF CellWidth, Bound
    <3> HIDE DEF s
    <3>2. QED
      BY <2>1, <2>5, <3>1
  <2>6. QED
    BY <2>2, <2>3, <2>4, <2>5 DEF Resolution, Axis
<1>5. Put(from) = a /\ Put(to) = b
  <2>1. axis = "longitude" \/ axis = "latitude"
    BY DEF Axis
  <2>2. a \in 0 .. n /\ b \in 0 .. n /\ n \in Nat
    BY <1>2 DEF CellCount
  <2>3. axis = "latitude" => Put(from) = a /\ Put(to) = b
    BY <1>2
  <2> HIDE DEF n, s
  <2>4. axis = "longitude" => Put(from) = a /\ Put(to) = b
    BY <1>4, <2>2
  <2>5. QED
    BY <2>1, <2>3, <2>4
<1>6. QED
  BY <1>2, <1>4, <1>5

\* A place lies in the cell with its index.
LEMMA CellFits ==
  ASSUME NEW r \in Resolution, NEW axis \in Axis, NEW value \in -Bound(axis) .. Bound(axis)
  PROVE  \E i \in HorizontalIndex(r, axis, "degrees", value) : CellHolds(r, axis, i, value)
PROOF
<1> DEFINE s == CellWidth(r, axis)
           n == CellCount(r, axis)
           near == (2 * (value + Bound(axis)) + 3 * s) \div (2 * s) - 1
           put == IF axis = "longitude" /\ near >= n THEN near - n
                  ELSE IF near > n - 1 THEN n - 1 ELSE near
<1>1. /\ near \in 0 .. n /\ put \in 0 .. n - 1
      /\ 2 * s * near <= 2 * (value + Bound(axis)) + s
      /\ 2 * (value + Bound(axis)) + s < 2 * s * near + 2 * s
      /\ axis = "longitude" /\ near >= n => near = n
      /\ axis = "latitude" => near = put
      /\ HorizontalIndex(r, axis, "degrees", value) = {put}
  BY IndexIs
<1>2. /\ Len(Centers[r][axis]) = n /\ Spacing[r][axis] = s
      /\ axis = "longitude" => \A i \in 1 .. n : Centers[r][axis][i] = -720 + s * (i - 1)
  BY GridIs
<1>3. value \in Int /\ near \in Int /\ n \in Nat
  BY <1>1 DEF Bound, CellCount
<1>4. CellHolds(r, axis, put, value)
  <2>1. CASE axis = "longitude"
    <3>1. CellHolds(r, axis, put, value) <=>
            \E turned \in {value, value - 1440} :
              (Centers[r][axis][put + 1] - s \div 2) <= turned
                /\ turned < Centers[r][axis][put + 1] + s \div 2
      BY <1>2, <2>1 DEF CellHolds
    <3>2. put = IF near = n THEN 0 ELSE near
      BY <1>1, <1>3, <2>1
    <3>3. Centers[r][axis][put + 1] = -720 + s * ((put + 1) - 1) /\ Bound(axis) = 720
      BY <1>1, <1>2, <2>1, put + 1 \in 1 .. n DEF Bound
    <3> HIDE DEF near, put
    <3>4. CASE r = "2x25"
      <4>1. s = 10 /\ n = 144
        BY <2>1, <3>4 DEF CellWidth, CellCount
      <4> HIDE DEF s, n
      <4>2. QED
        BY <1>1, <1>3, <3>1, <3>2, <3>3, <4>1
    <3>5. CASE r = "4x5"
      <4>1. s = 20 /\ n = 72
        BY <2>1, <3>5 DEF CellWidth, CellCount
      <4> HIDE DEF s, n
      <4>2. QED
        BY <1>1, <1>3, <3>1, <3>2, <3>3, <4>1
    <3>6. QED
      BY <3>4, <3>5 DEF Resolution
  <2>2. CASE axis = "latitude"
    <3>1. Len(Centers[r].latitude) = n /\ Spacing[r].latitude = s /\ Bound(axis) = 360
      BY <1>2, <2>2 DEF Bound
    <3>2. /\ CellHolds(r, axis, put, value) <=>
                LatitudeEdge(r, put) <= value
                  /\ (value < LatitudeEdge(r, put + 1) \/ value = 360)
          /\ LatitudeEdge(r, 0) = -360 /\ LatitudeEdge(r, n) = 360
          /\ \A i \in 1 .. n - 1 : LatitudeEdge(r, i) = -360 - s \div 2 + s * i
      <4>1. CellHolds(r, axis, put, value) <=>
              LatitudeEdge(r, put) <= value
                /\ (value < LatitudeEdge(r, put + 1) \/ value = 360)
        BY <2>2 DEF CellHolds
      <4>2. n # 0
        BY DEF CellCount
      <4> HIDE DEF n, s
      <4>3. LatitudeEdge(r, 0) = -360 /\ LatitudeEdge(r, n) = 360
        BY <3>1, <4>2 DEF LatitudeEdge
      <4>4. \A i \in 1 .. n - 1 : LatitudeEdge(r, i) = -360 - s \div 2 + s * i
        BY <1>3, <3>1 DEF LatitudeEdge
      <4>5. QED
        BY <4>1, <4>3, <4>4
    <3>3. put = near
      BY <1>1, <2>2
    <3> HIDE DEF near, put
    <3>4. CASE r = "2x25"
      <4>1. s = 8 /\ n = 91
        BY <2>2, <3>4 DEF CellWidth, CellCount
      <4> HIDE DEF s, n
      <4>2. QED
        BY <1>1, <1>3, <3>1, <3>2, <3>3, <4>1
    <3>5. CASE r = "4x5"
      <4>1. s = 16 /\ n = 46
        BY <2>2, <3>5 DEF CellWidth, CellCount
      <4> HIDE DEF s, n
      <4>2. QED
        BY <1>1, <1>3, <3>1, <3>2, <3>3, <4>1
    <3>6. QED
      BY <3>4, <3>5 DEF Resolution
  <2>3. QED
    BY <2>1, <2>2 DEF Axis
<1>5. QED
  BY <1>1, <1>4

LEMMA CellsTrue == CellsAsStated
PROOF
<1> SUFFICES ASSUME NEW r \in Resolution, NEW axis \in Axis
             PROVE  /\ \A value \in -Bound(axis) .. Bound(axis) :
                         \E i \in HorizontalIndex(r, axis, "degrees", value) :
                           CellHolds(r, axis, i, value)
                    /\ \A from, to \in Corners(axis) :
                         from <= to /\ ~AtDateline(r, axis, to) =>
                           \E b \in HorizontalBounds(r, axis, "degrees", from, to) :
                             \A value \in from .. to :
                               HorizontalIndex(r, axis, "degrees", value) \subseteq b[1] .. b[2] - 1
  BY DEF CellsAsStated
<1>1. Corners(axis) \subseteq -Bound(axis) .. Bound(axis) /\ Bound(axis) \in Int
  BY DEF Corners, Bound, Axis
<1> DEFINE I(v) == HorizontalIndex(r, axis, "degrees", v)
<1>2. ASSUME NEW from \in Corners(axis), NEW to \in Corners(axis),
             from <= to, ~AtDateline(r, axis, to)
      PROVE  \E b \in HorizontalBounds(r, axis, "degrees", from, to) :
               \A value \in from .. to : I(value) \subseteq b[1] .. b[2] - 1
  <2>1. /\ from \in -Bound(axis) .. Bound(axis) /\ to \in from .. Bound(axis)
        /\ from \in Int /\ to \in Int
    BY <1>1, <1>2
  <2>2. PICK i, j \in 0 .. CellCount(r, axis) - 1 : i <= j /\ I(from) = {i} /\ I(to) = {j}
    BY <1>2, <2>1, IndexGrows
  <2>3. i \in Int /\ j \in Int
    BY <2>2
  <2>4. <<i, j + 1>> \in HorizontalBounds(r, axis, "degrees", from, to)
    BY <2>2, <2>3 DEF HorizontalBounds
  <2>5. ASSUME NEW value \in from .. to PROVE I(value) \subseteq i .. j
    <3>1. /\ value \in -Bound(axis) .. Bound(axis) /\ value \in from .. Bound(axis)
          /\ to \in value .. Bound(axis)
      BY <1>1, <2>1, <2>5
    <3>2. ~AtDateline(r, axis, value)
      <4>1. to >= value /\ value \in Int
        BY <2>1, <3>1
      <4>2. Spacing[r].longitude \div 2 \in Int
        BY GridIs, "longitude" \in Axis DEF CellWidth, Axis
      <4>3. QED
        BY <1>2, <2>1, <4>1, <4>2 DEF AtDateline
    <3>3. PICK k, m \in 0 .. CellCount(r, axis) - 1 : k <= m /\ I(from) = {k} /\ I(value) = {m}
      BY <2>1, <3>1, <3>2, IndexGrows
    <3>4. PICK p, q \in 0 .. CellCount(r, axis) - 1 : p <= q /\ I(value) = {p} /\ I(to) = {q}
      BY <1>2, <2>1, <3>1, IndexGrows
    <3>5. k = i /\ p = m /\ q = j
      BY <2>2, <3>3, <3>4
    <3>6. QED
      BY <2>3, <3>3, <3>4, <3>5
  <2>6. <<i, j + 1>>[1] = i /\ <<i, j + 1>>[2] - 1 = j
    BY <2>3
  <2> HIDE DEF I
  <2>7. \A value \in from .. to :
          I(value) \subseteq <<i, j + 1>>[1] .. <<i, j + 1>>[2] - 1
    BY <2>5, <2>6
  <2>8. QED
    BY <2>4, <2>7
<1>3. QED
  BY <1>2, CellFits

\* Whichever run of a campaign reads a file, at whichever of its steps, what it
\* takes is sampled in the steps that the file states and divided by their
\* number, and a place is looked up in the cell that contains it
\* (_initialize_for_date, _parse_time_operator, _horizontal_index and the test on
\* the bounds in the sampling kernel).
THEOREM InputTakenAsStated ==
  ASSUME \A op \in TimeOperators : WithinCampaign(op)
  PROVE  Spec => []InputAsStated
PROOF
<1>1. Ran => InputAsStated
  BY TimesTrue, CellsTrue DEF InputAsStated
<1>2. QED
  BY <1>1, RanHolds, PTL
=============================================================================
