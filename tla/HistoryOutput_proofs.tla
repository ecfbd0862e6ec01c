------------------------ MODULE HistoryOutput_proofs ------------------------
(***************************************************************************)
(* The files of HISTORY hold what the steps of the run ask for, however    *)
(* batches cut it and however it ends.                                     *)
(***************************************************************************)
EXTENDS HistoryOutput, ProofLemmas

-----------------------------------------------------------------------------
(* Sets in order.                                                          *)

Enumerates(s, S) ==
  /\ s \in [1 .. Cardinality(S) -> S]
  /\ \A i, j \in 1 .. Cardinality(S) : i < j => s[i] < s[j]

LEMMA InOrderIs ==
  ASSUME NEW S \in SUBSET Nat, IsFiniteSet(S)
  PROVE  /\ Cardinality(S) \in Nat /\ Enumerates(InOrder(S), S)
         /\ \A x \in S : \E i \in 1 .. Cardinality(S) : InOrder(S)[i] = x
PROOF
<1> DEFINE n == Cardinality(S)
           rank == [x \in S |-> Rank(S, x)]
<1>1. n \in Nat
  BY FS_CardinalityType
<1>2. /\ \A x \in S : rank[x] \in 1 .. n
      /\ \A x, y \in S : x < y => rank[x] < rank[y]
  BY RanksApart
<1>5. \A i \in 1 .. n : \E x \in S : rank[x] = i
  BY RanksFill
<1> HIDE DEF rank, n
<1> DEFINE s == [i \in 1 .. n |-> CHOOSE x \in S : rank[x] = i]
<1>6. \A i \in 1 .. n : s[i] \in S /\ rank[s[i]] = i
  BY <1>5
<1> HIDE DEF s
<1>7. Enumerates(s, S)
  <2>1. s \in [1 .. n -> S]
    BY <1>6 DEF s
  <2>2. ASSUME NEW i \in 1 .. n, NEW j \in 1 .. n, i < j PROVE s[i] < s[j]
    <3>1. s[i] \in Nat /\ s[j] \in Nat /\ s[i] \in S /\ s[j] \in S
      BY <1>6
    <3>2. s[i] # s[j]
      BY <1>6, <2>2
    <3>3. ~ (s[j] < s[i])
      BY <1>2, <1>6, <2>2, <3>1
    <3>4. QED
      BY <3>1, <3>2, <3>3
  <2>3. QED
    BY <2>1, <2>2 DEF Enumerates, n
<1>8. Enumerates(InOrder(S), S)
  BY <1>7 DEF Enumerates, InOrder
<1> DEFINE o == InOrder(S)
<1>9. o \in [1 .. n -> S] /\ \A i, j \in 1 .. n : i < j => o[i] < o[j]
  BY <1>8 DEF Enumerates, n
<1> HIDE DEF o
<1>10. o \in Injection(1 .. n, S)
  <2>1. ASSUME NEW i \in 1 .. n, NEW j \in 1 .. n, o[i] = o[j] PROVE i = j
    <3>1. o[i] \in Nat
      BY <1>9
    <3>2. ~ (i < j) /\ ~ (j < i)
      BY <1>9, <2>1, <3>1
    <3>3. QED
      BY <3>2
  <2>2. QED
    BY <1>9, <2>1 DEF Injection, IsInjective
<1>11. o \in Surjection(1 .. n, S)
  <2>1. Cardinality(1 .. n) = Cardinality(S)
    <3>1. 1 \in Int /\ n \in Int
      BY <1>1
    <3>2. QED
      BY <1>1, <3>1, FS_Interval DEF n
  <2>2. QED
    BY <1>10, <2>1, FS_Injection
<1>12. \A x \in S : \E i \in 1 .. n : o[i] = x
  BY <1>11 DEF Surjection
<1>13. QED
  BY <1>1, <1>8, <1>12 DEF n, o

\* The i-th in order is the one of rank i.
LEMMA RankInOrder ==
  ASSUME NEW S \in SUBSET Nat, IsFiniteSet(S), NEW i \in 1 .. Cardinality(S)
  PROVE  InOrder(S)[i] \in S /\ Rank(S, InOrder(S)[i]) = i
PROOF
<1> DEFINE o == InOrder(S)
           n == Cardinality(S)
           T == NotAbove(S, o[i])
<1>1. /\ n \in Nat /\ o \in [1 .. n -> S]
      /\ \A j, k \in 1 .. n : j < k => o[j] < o[k]
      /\ \A x \in S : \E j \in 1 .. n : o[j] = x
  BY InOrderIs DEF Enumerates
<1> HIDE DEF o, n
<1>2. i \in 1 .. n
  BY DEF n
<1> DEFINE f == [j \in 1 .. i |-> o[j]]
<1>3. \A j \in 1 .. i : j \in 1 .. n /\ o[j] \in S /\ o[j] <= o[i]
  <2>1. ASSUME NEW j \in 1 .. i PROVE j \in 1 .. n /\ o[j] \in S /\ o[j] <= o[i]
    <3>1. j \in 1 .. n /\ (j < i \/ j = i)
      BY <1>1, <1>2
    <3>2. o[j] \in Nat /\ o[i] \in Nat /\ o[j] \in S
      BY <1>1, <1>2, <3>1
    <3>3. o[j] < o[i] \/ o[j] = o[i]
      BY <1>1, <1>2, <3>1
    <3>4. QED
      BY <3>1, <3>2, <3>3
  <2>2. QED
    BY <2>1
<1>4. f \in [1 .. i -> T]
  BY <1>3 DEF NotAbove
<1>5. \A x \in T : \E j \in 1 .. i : f[j] = x
  <2>1. ASSUME NEW x \in T PROVE \E j \in 1 .. i : f[j] = x
    <3>1. x \in S /\ x <= o[i]
      BY DEF NotAbove
    <3>2. PICK j \in 1 .. n : o[j] = x
      BY <1>1, <3>1
    <3>3. ~ (i < j)
      <4>1. o[i] \in Nat /\ x \in Nat
        BY <1>1, <1>2, <3>1
      <4>2. QED
        BY <1>1, <1>2, <3>1, <3>2, <4>1
    <3>4. j \in 1 .. i
      BY <1>1, <1>2, <3>3
    <3>5. QED
      BY <3>2, <3>4
  <2>2. QED
    BY <2>1
<1>6. \A j, k \in 1 .. i : f[j] = f[k] => j = k
  <2>1. ASSUME NEW j \in 1 .. i, NEW k \in 1 .. i, o[j] = o[k] PROVE j = k
    <3>1. j \in 1 .. n /\ k \in 1 .. n
      BY <1>3
    <3>2. o[j] \in Nat
      BY <1>1, <3>1
    <3>3. ~ (j < k) /\ ~ (k < j)
      BY <1>1, <2>1, <3>1, <3>2
    <3>4. QED
      BY <3>1, <3>3
  <2>2. QED
    BY <2>1
<1>7. i \in Nat
  BY <1>1, <1>2
<1> HIDE DEF f, T
<1>8. f \in Bijection(1 .. i, T)
  BY <1>4, <1>5, <1>6 DEF Bijection, Injection, Surjection, IsInjective
<1>9. ExistsBijection(1 .. i, T)
  BY <1>8 DEF ExistsBijection
<1>10. Cardinality(T) = i
  BY <1>7, <1>9, FS_CountingElements
<1>11. QED
  BY <1>1, <1>2, <1>10 DEF Rank, T, o

\* What comes first in a set comes first in its order.
LEMMA FirstInOrder ==
  ASSUME NEW S \in SUBSET Nat, IsFiniteSet(S), NEW T \in SUBSET S,
         \A x \in T, y \in S \ T : x < y
  PROVE  /\ Cardinality(T) \in Nat /\ Cardinality(T) <= Cardinality(S)
         /\ \A i \in 1 .. Cardinality(T) : InOrder(S)[i] = InOrder(T)[i]
PROOF
<1>1. /\ IsFiniteSet(T) /\ Cardinality(T) <= Cardinality(S) /\ T \in SUBSET Nat
      /\ Cardinality(T) \in Nat /\ Cardinality(S) \in Nat
  BY FS_Subset, FS_CardinalityType
<1>2. ASSUME NEW i \in 1 .. Cardinality(T) PROVE InOrder(S)[i] = InOrder(T)[i]
  <2> DEFINE x == InOrder(T)[i]
             y == InOrder(S)[i]
  <2>1. x \in T /\ Rank(T, x) = i
    BY <1>1, RankInOrder
  <2>2. y \in S /\ Rank(S, y) = i
    <3>1. i \in 1 .. Cardinality(S)
      BY <1>1
    <3>2. QED
      BY <3>1, RankInOrder
  <2> HIDE DEF x, y
  <2>3. NotAbove(S, x) = NotAbove(T, x)
    <3>1. \A z \in S \ T : ~ (z <= x)
      <4>1. \A z \in S \ T : x < z /\ z \in Nat /\ x \in Nat
        BY <1>1, <2>1
      <4>2. QED
        BY <4>1
    <3>2. QED
      BY <3>1 DEF NotAbove
  <2>4. Rank(S, x) = i
    BY <2>1, <2>3 DEF Rank
  <2>5. x \in S /\ x \in Nat /\ y \in Nat
    BY <1>1, <2>1, <2>2
  <2>6. ~ (x < y) /\ ~ (y < x)
    <3>1. x < y => Rank(S, x) < Rank(S, y)
      BY <2>2, <2>5, RanksApart
    <3>2. y < x => Rank(S, y) < Rank(S, x)
      BY <2>2, <2>5, RanksApart
    <3>3. QED
      BY <1>1, <2>2, <2>4, <3>1, <3>2
  <2>7. QED
    BY <2>5, <2>6 DEF x, y
<1>3. QED
  BY <1>1, <1>2

\* A later element comes last.
LEMMA LastInOrder ==
  ASSUME NEW S \in SUBSET Nat, IsFiniteSet(S), NEW x \in Nat, \A y \in S : y < x
  PROVE  /\ IsFiniteSet(S \cup {x}) /\ Cardinality(S) \in Nat
         /\ Cardinality(S \cup {x}) = Cardinality(S) + 1
         /\ \A i \in 1 .. Cardinality(S) : InOrder(S \cup {x})[i] = InOrder(S)[i]
         /\ InOrder(S \cup {x})[Cardinality(S) + 1] = x
PROOF
<1> DEFINE n == Cardinality(S)
           T == S \cup {x}
<1>1. x \notin S
  BY DEF T
<1>2. /\ IsFiniteSet(T) /\ Cardinality(T) = n + 1 /\ n \in Nat
      /\ T \in SUBSET Nat /\ S \in SUBSET T
  BY <1>1, FS_AddElement, FS_CardinalityType
<1>3. \A y \in S, z \in T \ S : y < z
  OBVIOUS
<1>4. \A i \in 1 .. n : InOrder(T)[i] = InOrder(S)[i]
  BY <1>2, <1>3, FirstInOrder
<1>5. InOrder(T)[n + 1] = x
  <2>1. n + 1 \in 1 .. Cardinality(T)
    BY <1>2
  <2>2. InOrder(T)[n + 1] \in T
    BY <1>2, <2>1, RankInOrder
  <2>3. PICK i \in 1 .. n + 1 : InOrder(T)[i] = x
    <3>1. \E i \in 1 .. Cardinality(T) : InOrder(T)[i] = x
      BY <1>2, InOrderIs
    <3>2. QED
      BY <1>2, <3>1
  <2>4. CASE i = n + 1
    BY <2>3, <2>4
  <2>5. CASE i # n + 1
    <3>1. i \in 1 .. n
      BY <1>2, <2>5
    <3>2. InOrder(S)[i] \in S /\ InOrder(S)[i] = x
      BY <1>4, <2>3, <3>1, RankInOrder
    <3>3. QED
      BY <1>1, <3>2
  <2>6. QED
    BY <2>4, <2>5
<1>6. QED
  BY <1>2, <1>4, <1>5 DEF T

-----------------------------------------------------------------------------
(* The times of the steps.                                                 *)

LEMMA StepTimes ==
  /\ StepTicks \in Nat \ {0} /\ End \in Nat \ {0} /\ Steps \in Nat \ {0}
  /\ End <= StepEnd(Steps) /\ StepEnd(0) = 0
  /\ \A k \in Nat : StepEnd(k) \in Nat /\ StepEnd(k + 1) = StepEnd(k) + StepTicks
  /\ \A j, k \in Nat : /\ j < k <=> StepEnd(j) < StepEnd(k)
                       /\ j <= k <=> StepEnd(j) <= StepEnd(k)
PROOF
<1>1. StepTicks \in Nat \ {0} /\ End \in Nat \ {0}
  BY TimesAssumption
<1>2. \A k \in Nat : StepEnd(k) \in Nat /\ StepEnd(k + 1) = StepEnd(k) + StepTicks
  BY <1>1, Products DEF StepEnd
<1>3. \A j, k \in Nat : /\ j < k <=> StepEnd(j) < StepEnd(k)
                        /\ j <= k <=> StepEnd(j) <= StepEnd(k)
  BY <1>1, Products DEF StepEnd
<1>4. StepEnd(0) = 0
  BY <1>1 DEF StepEnd
<1>5. Steps \in Nat /\ StepEnd(Steps) <= End + StepTicks - 1
      /\ End + StepTicks - 1 < StepEnd(Steps) + StepTicks
  <2>1. End + StepTicks - 1 \in Nat
    BY <1>1
  <2>2. QED
    BY <1>1, <2>1, Quotient DEF Steps, StepEnd
<1>6. End <= StepEnd(Steps)
  BY <1>1, <1>2, <1>5
<1>7. Steps # 0
  BY <1>1, <1>4, <1>6
<1>8. QED
  BY <1>1, <1>2, <1>3, <1>4, <1>5, <1>6, <1>7

LEMMA RunLength ==
  /\ StepTicks \in Nat \ {0} /\ End \in Nat \ {0} /\ Steps \in Nat \ {0}
  /\ End <= StepEnd(Steps) /\ StepEnd(0) = 0
PROOF
BY StepTimes

LEMMA TimeIs ==
  /\ Time \in SUBSET Nat /\ IsFiniteSet(Time) /\ 0 \in Time
  /\ \A b \in 1 .. End : b \in Time /\ 0 < b
  /\ \A k \in 0 .. Steps : k \in Nat /\ StepEnd(k) \in Time
  /\ \A t \in Time : t <= StepEnd(Steps)
  /\ \A t \in Nat : t <= StepEnd(Steps) => t \in Time
PROOF
<1>1. StepEnd(Steps) \in Nat
  BY StepTimes
<1>2. IsFiniteSet(Time)
  <2>1. 0 \in Int /\ StepEnd(Steps) \in Int
    BY <1>1
  <2>2. QED
    BY <2>1, FS_Interval DEF Time
<1>3. \A k \in 0 .. Steps : k \in Nat /\ StepEnd(k) \in Time
  <2>1. ASSUME NEW k \in 0 .. Steps PROVE k \in Nat /\ StepEnd(k) \in Time
    <3>1. k \in Nat /\ k <= Steps /\ Steps \in Nat
      BY StepTimes
    <3>2. StepEnd(k) \in Nat /\ StepEnd(k) <= StepEnd(Steps)
      BY <3>1, StepTimes
    <3>3. QED
      BY <1>1, <3>1, <3>2 DEF Time
  <2>2. QED
    BY <2>1
<1>4. \A b \in 1 .. End : b \in Time /\ 0 < b
  BY <1>1, StepTimes DEF Time
<1>5. QED
  BY <1>1, <1>2, <1>3, <1>4 DEF Time

LEMMA Intervals ==
  /\ \A a \in Average : Frequency[a] \in Nat \ {0} /\ Duration[a] \in Nat \ {0}
  /\ \A r \in Restart : Frequency[r] \in Nat \ {0}
PROOF
BY TimesAssumption

-----------------------------------------------------------------------------
(* The control state.                                                      *)

NothingDetached == \A c \in DOMAIN detached : detached[c] = <<>>

Control ==
  /\ setup \in Setups /\ step \in 0 .. Steps /\ last \in BOOLEAN
  /\ DOMAIN detached = setup.averages \cup Restart
  /\ DOMAIN average = setup.averages /\ DOMAIN restart = Restart
  /\ \/ phase = "running" /\ prepared = 0 /\ abandoned = 0
     \/ /\ phase \in {"prepared", "drain", "detach"} /\ UseCuda
        /\ prepared = step + 1 /\ step < Steps /\ abandoned = 0
     \/ phase = "drainLast" /\ UseCuda /\ prepared = 0 /\ abandoned = 0
     \/ /\ phase = "unwinding" /\ abandoned = 0
        /\ prepared = 0 \/ (prepared = step + 1 /\ step < Steps)
     \/ /\ phase \in {"closeDrain", "closing", "closed"} /\ prepared = 0
        /\ abandoned = 0 \/ (abandoned = step + 1 /\ step < Steps)
  /\ phase \in {"detach", "closing", "closed"} => NothingDetached
  /\ ~UseCuda => NothingDetached

LEMMA ControlInit == Init => Control
PROOF
<1> SUFFICES ASSUME Init PROVE Control
  OBVIOUS
<1>1. step \in 0 .. Steps
  BY RunLength DEF Init
<1>2. QED
  BY <1>1 DEF Init, Control, NothingDetached

LEMMA ControlStep == Control /\ [Next]_vars => Control'
PROOF
<1> SUFFICES ASSUME Control, [Next]_vars PROVE Control'
  OBVIOUS
<1> USE DEF UseCuda, Current
<1>1. step \in Nat /\ step <= Steps /\ Steps \in Nat \ {0}
  BY RunLength DEF Control
<1>2. CASE RecordStep
  <2>1. step' = step + 1 /\ step + 1 \in 0 .. Steps
    BY <1>1, <1>2 DEF RecordStep
  <2>2. QED
    BY <1>2, <2>1 DEF RecordStep, Control, NothingDetached
<1>3. CASE PrepareStep
  BY <1>1, <1>3 DEF PrepareStep, Prepare, Control, NothingDetached
<1>4. CASE StepEndsBatch
  BY <1>1, <1>4 DEF StepEndsBatch, Control, NothingDetached
<1>5. CASE CompleteStep
  <2>1. step' = step + 1 /\ step + 1 \in 0 .. Steps
    BY <1>1, <1>5 DEF CompleteStep, Control
  <2>2. QED
    BY <1>1, <1>5, <2>1 DEF CompleteStep, Control, NothingDetached
<1>6. CASE \E c \in DOMAIN detached : DrainOne(c)
  <2>1. PICK c \in DOMAIN detached : DrainOne(c)
    BY <1>6
  <2>2. ~NothingDetached /\ UseCuda
    BY <2>1 DEF DrainOne, NothingDetached, Control
  <2>3. DOMAIN detached' = DOMAIN detached /\ DOMAIN average' = DOMAIN average
        /\ DOMAIN restart' = DOMAIN restart
    BY <2>1 DEF DrainOne
  <2>4. phase \in {"drain", "drainLast", "closeDrain"} /\ phase' = phase
        /\ UNCHANGED <<setup, step, last, prepared, abandoned>>
    BY <2>1 DEF DrainOne, Draining
  <2>5. QED
    BY <2>2, <2>3, <2>4 DEF Control
<1>7. CASE DrainDone
  BY <1>1, <1>7 DEF DrainDone, Draining, Control, NothingDetached
<1>8. CASE DetachStep
  <2>1. step' = step + 1 /\ step + 1 \in 0 .. Steps
    BY <1>1, <1>8 DEF DetachStep, Control
  <2>2. QED
    BY <1>1, <1>8, <2>1 DEF DetachStep, Control
<1>9. CASE LoopEnds
  BY <1>1, <1>9 DEF LoopEnds, Control, NothingDetached
<1>10. CASE Close
  BY <1>1, <1>10 DEF Close, Control, NothingDetached
<1>11. CASE CloseFinishes
  BY <1>1, <1>11 DEF CloseFinishes, Control, NothingDetached
<1>12. CASE Raise
  BY <1>1, <1>12 DEF Raise, Control, NothingDetached
<1>13. CASE RecordRaises
  BY <1>1, <1>13 DEF RecordRaises, Control, NothingDetached
<1>14. CASE BoundaryRaises
  BY <1>1, <1>14 DEF BoundaryRaises, Control, NothingDetached
<1>15. CASE UNCHANGED vars
  BY <1>15 DEF vars, Control, NothingDetached
<1>16. QED
  BY <1>2, <1>3, <1>4, <1>5, <1>6, <1>7, <1>8, <1>9, <1>10, <1>11, <1>12,
     <1>13, <1>14, <1>15 DEF Next, Run, Fault

-----------------------------------------------------------------------------
(* Restarts: the next boundary is the first past the completed steps, and  *)
(* all before it are written or detached, with the step that ends there.   *)

RestartOutput == [boundary : Time, step : Sample]

DetachedAt(d, b) == \E i \in DOMAIN d : d[i].boundary = b

\* A restart collection c with the outputs d detached, after m steps.
RestartAt(c, d, r, m) ==
  /\ c \in [next : Nat, files : [Time -> 0 .. Steps]]
  /\ d \in Seq(RestartOutput)
  /\ c.next % Frequency[r] = 0 /\ StepEnd(m) < c.next
  /\ \A b \in 1 .. End : c.files[b] # 0 => StepEnd(c.files[b]) = b
  /\ \A i \in DOMAIN d : d[i].boundary <= End => StepEnd(d[i].step) = d[i].boundary
  /\ \A b \in Time : 0 < b /\ b % Frequency[r] = 0 /\ b < c.next =>
       c.files[b] # 0 \/ DetachedAt(d, b)

Restarts == \A r \in Restart : RestartAt(restart[r], detached[r], r, step)

LEMMA DueIs ==
  ASSUME NEW r \in Restart, NEW c, c.next \in Nat, c.next % Frequency[r] = 0,
         NEW t \in Nat
  PROVE  /\ Due(r, c, t) \in SUBSET Time /\ AfterDue(r, c, t) \in Nat
         /\ AfterDue(r, c, t) % Frequency[r] = 0 /\ t < AfterDue(r, c, t)
         /\ \A b \in Time : b % Frequency[r] = 0 /\ b < AfterDue(r, c, t) =>
              b < c.next \/ b \in Due(r, c, t)
PROOF
<1> DEFINE f == Frequency[r]
           q == t \div f
           n == c.next
<1>1. f \in Nat \ {0} /\ n \in Nat /\ n % f = 0
  BY Intervals
<1>2. q \in Nat /\ q * f \in Nat /\ q * f <= t /\ t < q * f + f
  BY <1>1, Quotient
<1>3. (q * f) % f = 0
  BY <1>1, <1>2, MultipleIs
<1>4. Due(r, c, t) = {b \in Time : n <= b /\ b <= t /\ b % f = 0}
      /\ AfterDue(r, c, t) = IF t < n THEN n ELSE (q + 1) * f
  BY DEF Due, AfterDue
<1> HIDE DEF q, n, f
<1>5. (q + 1) * f = q * f + f
  BY <1>1, <1>2, Products
<1> DEFINE p == q * f
<1>6. p \in Nat /\ p % f = 0 /\ p <= t /\ t < p + f
      /\ AfterDue(r, c, t) = IF t < n THEN n ELSE p + f
  BY <1>2, <1>3, <1>4, <1>5
<1> HIDE DEF p
<1>7. (p + f) % f = 0 /\ \A b \in Nat : b % f = 0 /\ p < b => p + f <= b
  BY <1>1, <1>6, Multiples
<1>8. AfterDue(r, c, t) \in Nat /\ AfterDue(r, c, t) % f = 0 /\ t < AfterDue(r, c, t)
  BY <1>1, <1>6, <1>7
<1>9. ASSUME NEW b \in Time, b % f = 0, b < AfterDue(r, c, t), ~ (b < n)
      PROVE  b \in Due(r, c, t)
  <2>1. b \in Nat
    BY TimeIs
  <2>2. ~ (t < n) /\ b < p + f /\ n <= b
    BY <1>1, <1>6, <1>9, <2>1
  <2>3. b <= p
    BY <1>1, <1>6, <1>7, <1>9, <2>1, <2>2
  <2>4. b <= t
    BY <1>6, <2>1, <2>3
  <2>5. QED
    BY <1>4, <1>9, <2>2, <2>4
<1>10. QED
  BY <1>4, <1>8, <1>9 DEF f, n

\* Of the boundaries before the end, a step passes only the one it ends at.
LEMMA DueAtStep ==
  ASSUME NEW r \in Restart, NEW c, c.next \in Nat,
         NEW m \in 0 .. Steps - 1, StepEnd(m) < c.next,
         NEW b \in Due(r, c, StepEnd(m + 1)), b <= End
  PROVE  StepEnd(m + 1) = b
PROOF
<1>1. m \in Nat /\ m + 1 \in Nat /\ StepEnd(m) \in Nat /\ StepEnd(m + 1) \in Nat
  <2>1. m \in Nat /\ m + 1 \in Nat
    BY RunLength
  <2>2. QED
    BY <2>1, StepTimes
<1>2. b \in Time /\ b \in Nat /\ c.next <= b /\ b <= StepEnd(m + 1)
      /\ b % Frequency[r] = 0
  BY TimeIs DEF Due
<1>3. b \in 1 .. End /\ StepEnd(m) < b
  BY <1>1, <1>2, RunLength
<1>4. b % StepTicks = 0
  BY <1>2, <1>3, AlignmentAssumption
<1>5. PICK q \in Nat : b = q * StepTicks
  BY <1>2, <1>4, MultipleIs, StepTimes
<1>6. b = StepEnd(q)
  BY <1>5 DEF StepEnd
<1>7. m < q /\ q <= m + 1
  BY <1>1, <1>2, <1>3, <1>6, StepTimes
<1>8. q = m + 1
  BY <1>1, <1>7
<1>9. QED
  BY <1>6, <1>8

LEMMA DetachedRestartsAre ==
  ASSUME NEW r \in Restart, NEW c, NEW k \in Sample,
         Due(r, c, StepEnd(k)) \in SUBSET Time
  PROVE  LET s == DetachedRestarts(r, c, k)
         IN  /\ s \in Seq(RestartOutput)
             /\ \A i \in DOMAIN s : s[i].boundary \in Due(r, c, StepEnd(k))
                                    /\ s[i].step = k
             /\ \A b \in Due(r, c, StepEnd(k)) : DetachedAt(s, b)
PROOF
<1> DEFINE S == Due(r, c, StepEnd(k))
           n == Cardinality(S)
           o == InOrder(S)
           s == DetachedRestarts(r, c, k)
<1>1. S \in SUBSET Nat /\ S \in SUBSET Time /\ IsFiniteSet(S)
  BY TimeIs, FS_Subset
<1>2. n \in Nat /\ o \in [1 .. n -> S] /\ \A b \in S : \E i \in 1 .. n : o[i] = b
  BY <1>1, InOrderIs DEF Enumerates
<1>3. s = [i \in DOMAIN o |-> [boundary |-> o[i], step |-> k]]
  BY DEF DetachedRestarts
<1> HIDE DEF o, n, S, s
<1>4. s = [i \in 1 .. n |-> [boundary |-> o[i], step |-> k]]
  BY <1>2, <1>3
<1>5. s \in [1 .. n -> RestartOutput] /\ DOMAIN s = 1 .. n
      /\ \A i \in DOMAIN s : s[i].boundary \in S /\ s[i].step = k
  BY <1>1, <1>2, <1>4 DEF RestartOutput
<1>6. s \in Seq(RestartOutput)
  BY <1>2, <1>5
<1>7. \A b \in S : DetachedAt(s, b)
  BY <1>2, <1>4, <1>5 DEF DetachedAt
<1>8. QED
  BY <1>5, <1>6, <1>7 DEF S, s

LEMMA RestartStarts ==
  ASSUME NEW r \in Restart
  PROVE  RestartAt(FreshRestart(r), << >>, r, 0)
PROOF
<1> DEFINE c == FreshRestart(r)
<1>1. Frequency[r] \in Nat \ {0} /\ 0 \in 0 .. Steps
  BY Intervals, StepTimes
<1>2. c \in [next : Nat, files : [Time -> 0 .. Steps]] /\ c.next = Frequency[r]
      /\ \A b \in Time : c.files[b] = 0
  BY <1>1 DEF FreshRestart
<1> HIDE DEF c
<1>3. Frequency[r] = 1 * Frequency[r]
  BY <1>1
<1>4. c.next % Frequency[r] = 0
  BY <1>1, <1>2, <1>3, MultipleIs
<1>5. StepEnd(0) < c.next
  BY <1>1, <1>2, RunLength
<1>6. ASSUME NEW b \in Time, 0 < b, b % Frequency[r] = 0, b < c.next PROVE FALSE
  <2>1. b \in Nat
    BY TimeIs
  <2>2. 0 % Frequency[r] = 0
    BY <1>1
  <2>3. 0 + Frequency[r] <= b
    BY <1>1, <1>6, <2>1, <2>2, Multiples
  <2>4. QED
    BY <1>1, <1>2, <1>6, <2>1, <2>3
<1>7. << >> \in Seq(RestartOutput) /\ DOMAIN << >> = {}
  OBVIOUS
<1>8. \A b \in 1 .. End : c.files[b] = 0
  BY <1>2, TimeIs
<1>9. QED
  BY <1>2, <1>4, <1>5, <1>6, <1>7, <1>8 DEF RestartAt, c

\* A step records what it reaches.
LEMMA RestartRecords ==
  ASSUME NEW r \in Restart, NEW c, NEW d, NEW m \in 0 .. Steps - 1,
         RestartAt(c, d, r, m)
  PROVE  RestartAt(Recorded(r, c, m + 1), d, r, m + 1)
PROOF
<1> DEFINE t == StepEnd(m + 1)
           n == AfterDue(r, c, t)
           S == Due(r, c, t)
           w == Recorded(r, c, m + 1)
<1>1. t \in Nat /\ m + 1 \in 0 .. Steps /\ m + 1 # 0
  BY StepTimes
<1>2. c.next \in Nat /\ c.files \in [Time -> 0 .. Steps]
      /\ c.next % Frequency[r] = 0 /\ StepEnd(m) < c.next
  BY DEF RestartAt
<1>3. /\ S \in SUBSET Time /\ n \in Nat /\ n % Frequency[r] = 0 /\ t < n
      /\ \A b \in Time : b % Frequency[r] = 0 /\ b < n => b < c.next \/ b \in S
  BY <1>1, <1>2, DueIs
<1>4. \A b \in S : b <= End => t = b
  BY <1>2, DueAtStep
<1>5. w = [next |-> n, files |-> [b \in Time |-> IF b \in S THEN m + 1 ELSE c.files[b]]]
  BY DEF Recorded
<1> HIDE DEF t, n, S, w
<1>6. w \in [next : Nat, files : [Time -> 0 .. Steps]]
  BY <1>1, <1>2, <1>3, <1>5
<1>7. ASSUME NEW b \in 1 .. End, w.files[b] # 0 PROVE StepEnd(w.files[b]) = b
  <2>1. b \in Time /\ b <= End
    BY TimeIs
  <2>2. CASE b \in S
    BY <1>4, <1>5, <2>1, <2>2 DEF t
  <2>3. CASE b \notin S
    BY <1>5, <1>7, <2>1, <2>3 DEF RestartAt
  <2>4. QED
    BY <2>2, <2>3
<1>8. ASSUME NEW b \in Time, 0 < b, b % Frequency[r] = 0, b < w.next
      PROVE  w.files[b] # 0 \/ DetachedAt(d, b)
  <2>1. CASE b \in S
    BY <1>1, <1>5, <2>1
  <2>2. CASE b \notin S
    BY <1>3, <1>5, <1>8, <2>2 DEF RestartAt
  <2>3. QED
    BY <2>1, <2>2
<1>9. w.next % Frequency[r] = 0 /\ StepEnd(m + 1) < w.next
  BY <1>3, <1>5 DEF t
<1>10. /\ d \in Seq(RestartOutput)
       /\ \A i \in DOMAIN d : d[i].boundary <= End => StepEnd(d[i].step) = d[i].boundary
  BY DEF RestartAt
<1>11. QED
  BY <1>6, <1>7, <1>8, <1>9, <1>10 DEF RestartAt, w

\* ... or detaches it.
LEMMA RestartDetaches ==
  ASSUME NEW r \in Restart, NEW c, NEW m \in 0 .. Steps - 1,
         RestartAt(c, << >>, r, m)
  PROVE  RestartAt(DetachRecorded(r, c, m + 1), DetachedRestarts(r, c, m + 1),
                   r, m + 1)
PROOF
<1> DEFINE t == StepEnd(m + 1)
           n == AfterDue(r, c, t)
           S == Due(r, c, t)
           w == DetachRecorded(r, c, m + 1)
           s == DetachedRestarts(r, c, m + 1)
<1>1. t \in Nat /\ m + 1 \in Sample
  BY StepTimes DEF Sample
<1>2. c.next \in Nat /\ c.files \in [Time -> 0 .. Steps]
      /\ c.next % Frequency[r] = 0 /\ StepEnd(m) < c.next
      /\ c \in [next : Nat, files : [Time -> 0 .. Steps]]
  BY DEF RestartAt
<1>3. /\ S \in SUBSET Time /\ n \in Nat /\ n % Frequency[r] = 0 /\ t < n
      /\ \A b \in Time : b % Frequency[r] = 0 /\ b < n => b < c.next \/ b \in S
  BY <1>1, <1>2, DueIs
<1>4. \A b \in S : b <= End => t = b
  BY <1>2, DueAtStep
<1>5. w = [c EXCEPT !.next = n]
  BY DEF DetachRecorded
<1>6. /\ s \in Seq(RestartOutput)
      /\ \A i \in DOMAIN s : s[i].boundary \in S /\ s[i].step = m + 1
      /\ \A b \in S : DetachedAt(s, b)
  BY <1>1, <1>3, DetachedRestartsAre
<1> HIDE DEF t, n, S, w, s
<1>7. w \in [next : Nat, files : [Time -> 0 .. Steps]] /\ w.next = n
      /\ w.files = c.files
  BY <1>2, <1>3, <1>5
<1>8. ~ DetachedAt(<< >>, 0) /\ \A b : ~ DetachedAt(<< >>, b)
  BY DEF DetachedAt
<1>9. \A b \in 1 .. End : w.files[b] # 0 => StepEnd(w.files[b]) = b
  BY <1>7 DEF RestartAt
<1>10. \A b \in Time : 0 < b /\ b % Frequency[r] = 0 /\ b < w.next =>
         w.files[b] # 0 \/ DetachedAt(s, b)
  BY <1>3, <1>6, <1>7, <1>8 DEF RestartAt
<1>11. \A i \in DOMAIN s : s[i].boundary <= End => StepEnd(s[i].step) = s[i].boundary
  BY <1>4, <1>6 DEF t
<1>12. w.next % Frequency[r] = 0 /\ StepEnd(m + 1) < w.next
  BY <1>3, <1>7 DEF t
<1>13. QED
  BY <1>6, <1>7, <1>9, <1>10, <1>11, <1>12 DEF RestartAt, w, s

\* A detached restart is written.
LEMMA RestartWritten ==
  ASSUME NEW r \in Restart, NEW c, NEW d, NEW m \in 0 .. Steps,
         RestartAt(c, d, r, m), d # << >>
  PROVE  RestartAt([c EXCEPT !.files[Head(d).boundary] = Head(d).step], Tail(d), r, m)
PROOF
<1> DEFINE h == Head(d)
           w == [c EXCEPT !.files[h.boundary] = h.step]
           e == Tail(d)
<1>1. d \in Seq(RestartOutput) /\ h = d[1] /\ 1 \in DOMAIN d
      /\ h \in RestartOutput
  BY DEF RestartAt
<1>2. e \in Seq(RestartOutput) /\ DOMAIN e = 1 .. Len(d) - 1
      /\ \A i \in DOMAIN e : i + 1 \in DOMAIN d /\ e[i] = d[i + 1]
  BY <1>1
<1>3. h.boundary \in Time /\ h.step \in Sample /\ h.step \in 0 .. Steps /\ h.step # 0
  BY <1>1, RunLength DEF RestartOutput, Sample
<1>4. c \in [next : Nat, files : [Time -> 0 .. Steps]]
  BY DEF RestartAt
<1> HIDE DEF h, e
<1>5. /\ w \in [next : Nat, files : [Time -> 0 .. Steps]] /\ w.next = c.next
      /\ w.files = [c.files EXCEPT ![h.boundary] = h.step]
  BY <1>3, <1>4
<1>6. \A b \in Time : w.files[b] = IF b = h.boundary THEN h.step ELSE c.files[b]
  BY <1>3, <1>4, <1>5
<1> HIDE DEF w
<1>7. ASSUME NEW b \in 1 .. End, w.files[b] # 0 PROVE StepEnd(w.files[b]) = b
  <2>1. b \in Time /\ b <= End
    BY TimeIs
  <2>2. CASE b = h.boundary
    <3>1. StepEnd(d[1].step) = d[1].boundary
      BY <1>1, <2>1, <2>2 DEF RestartAt
    <3>2. QED
      BY <1>1, <1>6, <2>1, <2>2, <3>1
  <2>3. CASE b # h.boundary
    BY <1>6, <1>7, <2>1, <2>3 DEF RestartAt
  <2>4. QED
    BY <2>2, <2>3
<1>8. ASSUME NEW b \in Time, 0 < b, b % Frequency[r] = 0, b < w.next
      PROVE  w.files[b] # 0 \/ DetachedAt(e, b)
  <2>1. c.files[b] # 0 \/ DetachedAt(d, b)
    BY <1>5, <1>8 DEF RestartAt
  <2>2. CASE b = h.boundary
    BY <1>3, <1>6, <2>2
  <2>3. CASE b # h.boundary /\ DetachedAt(d, b)
    <3>1. PICK i \in DOMAIN d : d[i].boundary = b
      BY <2>3 DEF DetachedAt
    <3>2. i # 1
      BY <1>1, <2>3, <3>1
    <3>3. i - 1 \in DOMAIN e /\ i = (i - 1) + 1
      BY <1>1, <1>2, <3>1, <3>2
    <3>4. e[i - 1] = d[i]
      BY <1>2, <3>3
    <3>5. QED
      BY <3>1, <3>3, <3>4 DEF DetachedAt
  <2>4. CASE b # h.boundary /\ c.files[b] # 0
    BY <1>6, <2>4
  <2>5. QED
    BY <2>1, <2>2, <2>3, <2>4
<1>9. \A i \in DOMAIN e : e[i].boundary <= End => StepEnd(e[i].step) = e[i].boundary
  BY <1>2 DEF RestartAt
<1>10. w.next % Frequency[r] = 0 /\ StepEnd(m) < w.next
  BY <1>5 DEF RestartAt
<1>11. QED
  BY <1>2, <1>5, <1>7, <1>8, <1>9, <1>10 DEF RestartAt, w, e, h

LEMMA RestartsInit == Init => Restarts
PROOF
<1> SUFFICES ASSUME Init, NEW r \in Restart
             PROVE  RestartAt(restart[r], detached[r], r, step)
  BY DEF Restarts
<1>1. restart[r] = FreshRestart(r) /\ detached[r] = << >> /\ step = 0
  BY DEF Init
<1>2. QED
  BY <1>1, RestartStarts

LEMMA RestartsStep == Control /\ Restarts /\ [Next]_vars => Restarts'
PROOF
<1> SUFFICES ASSUME Control, Restarts, [Next]_vars, NEW r \in Restart
             PROVE  RestartAt(restart'[r], detached'[r], r, step')
  BY DEF Restarts
<1> DEFINE c == restart[r]
           d == detached[r]
<1>1. RestartAt(c, d, r, step)
  BY DEF Restarts
<1>2. r \in DOMAIN detached /\ r \in DOMAIN restart
      /\ step \in 0 .. Steps /\ step \in Nat /\ Steps \in Nat
  BY RunLength DEF Control
<1>3. step < Steps => step \in 0 .. Steps - 1
  BY <1>2
<1> HIDE DEF c, d
<1>4. ASSUME restart' = restart, detached' = detached, step' = step
      PROVE  RestartAt(restart'[r], detached'[r], r, step')
  BY <1>1, <1>4 DEF c, d
<1>5. CASE RecordStep
  <2>1. restart'[r] = Recorded(r, c, step + 1) /\ detached'[r] = d
        /\ step' = step + 1 /\ step < Steps
    BY <1>5 DEF RecordStep, Current, c, d
  <2>2. QED
    BY <1>1, <1>3, <2>1, RestartRecords
<1>6. CASE CompleteStep
  <2>1. prepared = step + 1 /\ step < Steps
    BY <1>6 DEF CompleteStep, Control
  <2>2. restart'[r] = Recorded(r, c, step + 1) /\ detached'[r] = d
        /\ step' = step + 1
    BY <1>6, <2>1 DEF CompleteStep, c, d
  <2>3. QED
    BY <1>1, <1>3, <2>1, <2>2, RestartRecords
<1>7. CASE DetachStep
  <2>1. prepared = step + 1 /\ step < Steps /\ d = << >>
    BY <1>2, <1>7 DEF DetachStep, Control, NothingDetached, d
  <2>2. restart'[r] = DetachRecorded(r, c, step + 1) /\ step' = step + 1
        /\ detached'[r] = d \o DetachedRestarts(r, c, step + 1)
    BY <1>2, <1>7, <2>1 DEF DetachStep, c, d
  <2>3. RestartAt(DetachRecorded(r, c, step + 1), DetachedRestarts(r, c, step + 1),
                  r, step + 1)
    BY <1>1, <1>3, <2>1, RestartDetaches
  <2>4. DetachedRestarts(r, c, step + 1) \in Seq(RestartOutput)
    BY <2>3 DEF RestartAt
  <2>5. d \o DetachedRestarts(r, c, step + 1) = DetachedRestarts(r, c, step + 1)
    BY <2>1, <2>4, ConcatEmptySeq
  <2>6. QED
    BY <2>2, <2>3, <2>5
<1>8. ASSUME NEW e \in DOMAIN detached, DrainOne(e)
      PROVE  RestartAt(restart'[r], detached'[r], r, step')
  <2>1. detached[e] # << >> /\ step' = step
        /\ detached' = [detached EXCEPT ![e] = Tail(@)]
    BY <1>8 DEF DrainOne
  <2>2. CASE e = r
    <3>1. restart' = [restart EXCEPT ![r].files[Head(d).boundary] = Head(d).step]
      BY <1>8, <2>2 DEF DrainOne, d
    <3>2. restart'[r] = [c EXCEPT !.files[Head(d).boundary] = Head(d).step]
          /\ detached'[r] = Tail(d) /\ d # << >>
      BY <1>2, <2>1, <2>2, <3>1 DEF c, d
    <3>3. RestartAt([c EXCEPT !.files[Head(d).boundary] = Head(d).step], Tail(d),
                    r, step)
      BY <1>1, <1>2, <3>2, RestartWritten
    <3>4. QED
      BY <2>1, <3>2, <3>3
  <2>3. CASE e # r
    <3>1. restart'[r] = c /\ detached'[r] = d
      BY <1>2, <1>8, <2>1, <2>3 DEF DrainOne, c, d
    <3>2. QED
      BY <1>1, <2>1, <3>1
  <2>4. QED
    BY <2>2, <2>3
<1>9. CASE PrepareStep \/ StepEndsBatch \/ DrainDone \/ LoopEnds \/ Close
           \/ CloseFinishes \/ Fault \/ UNCHANGED vars
  BY <1>4, <1>9 DEF PrepareStep, StepEndsBatch, DrainDone, LoopEnds, Close,
     CloseFinishes, Fault, Raise, RecordRaises, BoundaryRaises, vars
<1>10. QED
  BY <1>5, <1>6, <1>7, <1>8, <1>9 DEF Next, Run

LEMMA ControlAlways == Spec => []Control
PROOF
<1>1. QED
  BY ControlInit, ControlStep, PTL DEF Spec

LEMMA RestartsAlways == Spec => []Restarts
PROOF
<1>1. QED
  BY ControlAlways, RestartsInit, RestartsStep, PTL DEF Spec

\* A restart file holds the state at exactly its boundary, however late it is
\* written, and a run that has closed has written every boundary it reached.
THEOREM HistoryRestartsExact == Spec => []RestartsExact
PROOF
<1>1. Control /\ Restarts => RestartsExact
  <2> SUFFICES ASSUME Control, Restarts, NEW r \in Restart, NEW b \in 1 .. End
               PROVE  LET k == restart[r].files[b]
                      IN  /\ k # 0 => StepEnd(k) = b
                          /\ phase = "closed" /\ b % Frequency[r] = 0
                             /\ b <= StepEnd(step) => k # 0
    BY DEF RestartsExact
  <2>1. RestartAt(restart[r], detached[r], r, step)
    BY DEF Restarts
  <2>2. ASSUME phase = "closed", b % Frequency[r] = 0, b <= StepEnd(step)
        PROVE  restart[r].files[b] # 0
    <3>1. detached[r] = << >>
      BY <2>2 DEF Control, NothingDetached
    <3>2. ~ DetachedAt(detached[r], b)
      BY <3>1 DEF DetachedAt
    <3>3. b \in Time /\ 0 < b /\ b \in Nat
      BY TimeIs
    <3>4. StepEnd(step) \in Nat /\ restart[r].next \in Nat
      BY <2>1, TimeIs DEF RestartAt, Control
    <3>5. b < restart[r].next
      BY <2>1, <2>2, <3>3, <3>4 DEF RestartAt
    <3>6. QED
      BY <2>1, <2>2, <3>2, <3>3, <3>5 DEF RestartAt
  <2>3. QED
    BY <2>1, <2>2 DEF RestartAt
<1>2. QED
  BY <1>1, ControlAlways, RestartsAlways, PTL

-----------------------------------------------------------------------------
(* The state of an average collection.                                     *)

AverageRecord ==
  [start : {None} \cup Time, end : {None} \cup Nat,
   group : {None} \cup Time, count : Nat, sum : [Sample -> Nat],
   open : {None} \cup Time, files : [Time -> Seq(Row)]]

DetachedOutput == [owner : Average, group : Time, row : Row, close : BOOLEAN]

Unscheduled(c) ==
  c.start = None /\ c.end = None /\ c.group = None /\ c.count = 0 /\ c.sum = NoSum

OnSchedule(c, a) ==
  /\ c.start \in Time /\ c.start % Frequency[a] = 0
  /\ c.end \in Nat /\ c.end = c.start + Frequency[a]
  /\ c.group = GroupOf(a, c.start)

AverageTyped(c, a) == c \in AverageRecord /\ (Unscheduled(c) \/ OnSchedule(c, a))

\* What is left alone when the sums or the schedule change.
SameFiles(c, d) == c.files = d.files /\ c.open = d.open
SameWindow(c, d) ==
  c.start = d.start /\ c.end = d.end /\ c.group = d.group

LEMMA GroupIs ==
  ASSUME NEW a \in Average, NEW t \in Time
  PROVE  /\ GroupOf(a, t) \in Time /\ GroupOf(a, t) \in Nat /\ GroupOf(a, t) <= t
         /\ \A u \in Time : t <= u => GroupOf(a, t) <= GroupOf(a, u)
PROOF
<1> DEFINE d == Duration[a]
           q == t \div d
<1>1. d \in Nat \ {0} /\ t \in Nat /\ t <= StepEnd(Steps) /\ StepEnd(Steps) \in Nat
  BY Intervals, StepTimes, RunLength, TimeIs
<1>2. q \in Nat /\ q * d \in Nat /\ q * d <= t
  BY <1>1, Quotient
<1>3. GroupOf(a, t) = q * d
  BY DEF GroupOf
<1>4. ASSUME NEW u \in Time, t <= u PROVE GroupOf(a, t) <= GroupOf(a, u)
  <2> DEFINE p == u \div d
  <2>1. u \in Nat
    BY TimeIs
  <2>2. p \in Nat /\ u < p * d + d /\ p * d \in Nat
    BY <1>1, <2>1, Quotient
  <2>3. GroupOf(a, u) = p * d
    BY DEF GroupOf
  <2> HIDE DEF p, q, d
  <2>4. (p + 1) * d = p * d + d
    BY <1>1, <2>2, Products
  <2>5. q * d < (p + 1) * d
    BY <1>1, <1>2, <1>4, <2>1, <2>2, <2>4
  <2>6. q < p + 1
    BY <1>1, <1>2, <2>2, <2>5, Products
  <2>7. q <= p
    BY <1>2, <2>2, <2>6
  <2>8. q * d <= p * d
    BY <1>1, <1>2, <2>2, <2>7, Products
  <2>9. QED
    BY <1>3, <2>3, <2>8
<1> HIDE DEF q, d
<1>5. q * d \in Time
  <2>1. q * d <= StepEnd(Steps)
    BY <1>1, <1>2
  <2>2. QED
    BY <1>2, <2>1, TimeIs
<1>6. QED
  BY <1>2, <1>3, <1>4, <1>5

LEMMA WindowEndIs ==
  ASSUME NEW a \in Average, NEW t \in Time, t > 0
  PROVE  LET e == WindowEnd(a, t)
         IN  /\ e \in Nat /\ e % Frequency[a] = 0 /\ t <= e
             /\ e - Frequency[a] \in Time /\ (e - Frequency[a]) % Frequency[a] = 0
             /\ e - Frequency[a] < t
PROOF
<1> DEFINE e == WindowEnd(a, t)
           f == Frequency[a]
<1>1. f \in Nat \ {0} /\ t \in Nat /\ t <= StepEnd(Steps) /\ StepEnd(Steps) \in Nat
  BY Intervals, StepTimes, RunLength, TimeIs
<1>2. e \in Nat /\ e % f = 0 /\ t <= e /\ e - f \in Nat /\ (e - f) % f = 0
      /\ e - f < t
  <2>1. e = ((t + f - 1) \div f) * f
    BY DEF WindowEnd
  <2> HIDE DEF e, f
  <2>2. QED
    BY <1>1, <2>1, RoundedUp
<1> HIDE DEF e, f
<1>3. e - f <= StepEnd(Steps)
  BY <1>1, <1>2
<1>4. e - f \in Time
  BY <1>2, <1>3, TimeIs
<1>5. QED
  BY <1>2, <1>4 DEF e, f

LEMMA NoSumIs == NoSum \in [Sample -> Nat]
PROOF
BY DEF NoSum

\* A collection on the window that ends at e.
LEMMA AdvancedIs ==
  ASSUME NEW a \in Average, NEW c \in AverageRecord, NEW e \in Nat,
         e % Frequency[a] = 0, e - Frequency[a] \in Time,
         (e - Frequency[a]) % Frequency[a] = 0
  PROVE  LET w == Advanced(c, a, e)
         IN  /\ w \in AverageRecord /\ OnSchedule(w, a)
             /\ w.start = e - Frequency[a] /\ w.end = e
             /\ SameFiles(w, c) /\ w.count = c.count /\ w.sum = c.sum
PROOF
<1> DEFINE s == e - Frequency[a]
           w == Advanced(c, a, e)
<1>1. Frequency[a] \in Nat \ {0} /\ GroupOf(a, s) \in Time
  BY Intervals, GroupIs
<1>2. w = [c EXCEPT !.start = s, !.end = e, !.group = GroupOf(a, s)]
  BY DEF Advanced
<1>3. e = s + Frequency[a]
  BY <1>1
<1> HIDE DEF s, w
<1>4. /\ w \in AverageRecord /\ w.start = s /\ w.end = e
      /\ w.group = GroupOf(a, s) /\ w.files = c.files /\ w.open = c.open
      /\ w.count = c.count /\ w.sum = c.sum
  BY <1>1, <1>2 DEF AverageRecord, s
<1>5. QED
  BY <1>3, <1>4 DEF OnSchedule, SameFiles, s, w

LEMMA ScheduledIs ==
  ASSUME NEW a \in Average, NEW c, AverageTyped(c, a), NEW t \in Time, t > 0
  PROVE  LET s == Scheduled(c, a, t)
         IN  /\ s \in AverageRecord /\ OnSchedule(s, a)
             /\ SameFiles(s, c) /\ s.count = c.count /\ s.sum = c.sum
             /\ OnSchedule(c, a) => s = c
             /\ Unscheduled(c) => s.start < t /\ t <= s.end
PROOF
<1>1. None \notin Nat
  BY DEF None
<1>2. CASE OnSchedule(c, a)
  <2>1. Scheduled(c, a, t) = c
    BY <1>1, <1>2 DEF OnSchedule, Scheduled
  <2>2. ~ Unscheduled(c)
    BY <1>1, <1>2 DEF OnSchedule, Unscheduled
  <2>3. QED
    BY <1>2, <2>1, <2>2 DEF AverageTyped, SameFiles
<1>3. CASE Unscheduled(c)
  <2> DEFINE e == WindowEnd(a, t)
  <2>1. Scheduled(c, a, t) = Advanced(c, a, e)
    BY <1>3 DEF Scheduled, Advanced, Unscheduled
  <2>2. /\ e \in Nat /\ e % Frequency[a] = 0 /\ t <= e
        /\ e - Frequency[a] \in Time /\ (e - Frequency[a]) % Frequency[a] = 0
        /\ e - Frequency[a] < t
    BY WindowEndIs
  <2>3. c \in AverageRecord /\ ~ OnSchedule(c, a)
    BY <1>1, <1>3 DEF AverageTyped, OnSchedule, Unscheduled
  <2> HIDE DEF e
  <2>4. QED
    BY <2>1, <2>2, <2>3, AdvancedIs
<1>4. QED
  BY <1>2, <1>3 DEF AverageTyped

LEMMA CountedIs ==
  ASSUME NEW c \in AverageRecord
  PROVE  LET w == [c EXCEPT !.count = @ + 1]
         IN  /\ w \in AverageRecord /\ w.count = c.count + 1 /\ w.sum = c.sum
             /\ SameFiles(w, c) /\ SameWindow(w, c)
PROOF
<1> DEFINE n == c.count + 1
<1>1. n \in Nat
  BY DEF AverageRecord
<1> HIDE DEF n
<1>2. [c EXCEPT !.count = @ + 1] = [c EXCEPT !.count = n]
  BY DEF n
<1> DEFINE w == [c EXCEPT !.count = n]
<1>3. w \in AverageRecord /\ w.count = n /\ w.sum = c.sum /\ w.start = c.start
      /\ w.end = c.end /\ w.group = c.group /\ w.files = c.files /\ w.open = c.open
  BY <1>1 DEF AverageRecord
<1>4. QED
  BY <1>2, <1>3 DEF SameFiles, SameWindow, n

LEMMA AccumulatedIs ==
  ASSUME NEW c \in AverageRecord, NEW k \in Sample
  PROVE  LET w == Accumulated(c, k)
         IN  /\ w \in AverageRecord /\ w.count = c.count
             /\ w.sum = [j \in Sample |-> IF j = k THEN c.sum[j] + 1 ELSE c.sum[j]]
             /\ SameFiles(w, c) /\ SameWindow(w, c)
PROOF
<1> DEFINE s == [j \in Sample |-> IF j = k THEN c.sum[j] + 1 ELSE c.sum[j]]
           w == [c EXCEPT !.sum = s]
<1>1. c.sum \in [Sample -> Nat]
  BY DEF AverageRecord
<1>2. s \in [Sample -> Nat]
  BY <1>1
<1>3. [c.sum EXCEPT ![k] = c.sum[k] + 1] = s
  BY <1>1
<1>4. Accumulated(c, k) = w
  BY <1>3 DEF Accumulated
<1> HIDE DEF s
<1>5. w \in AverageRecord /\ w.count = c.count /\ w.sum = s /\ w.start = c.start
      /\ w.end = c.end /\ w.group = c.group /\ w.files = c.files /\ w.open = c.open
  BY <1>2 DEF AverageRecord
<1>6. QED
  BY <1>4, <1>5 DEF SameFiles, SameWindow, s

LEMMA ResetIs ==
  ASSUME NEW c \in AverageRecord
  PROVE  LET w == Reset(c)
         IN  /\ w \in AverageRecord /\ w.count = 0 /\ w.sum = NoSum
             /\ SameFiles(w, c) /\ SameWindow(w, c)
PROOF
<1> DEFINE w == [c EXCEPT !.count = 0, !.sum = NoSum]
<1>1. w \in AverageRecord /\ w.count = 0 /\ w.sum = NoSum /\ w.start = c.start
      /\ w.end = c.end /\ w.group = c.group /\ w.files = c.files /\ w.open = c.open
  BY NoSumIs DEF AverageRecord
<1>2. QED
  BY <1>1 DEF Reset, SameFiles, SameWindow

LEMMA ClosedFileIs ==
  ASSUME NEW c \in AverageRecord
  PROVE  LET w == [c EXCEPT !.open = None]
         IN  /\ w \in AverageRecord /\ w.count = c.count /\ w.sum = c.sum
             /\ w.open = None /\ w.files = c.files /\ SameWindow(w, c)
PROOF
<1> DEFINE w == [c EXCEPT !.open = None]
<1>1. w \in AverageRecord /\ w.count = c.count /\ w.sum = c.sum /\ w.start = c.start
      /\ w.end = c.end /\ w.group = c.group /\ w.files = c.files /\ w.open = None
  BY DEF AverageRecord
<1>2. QED
  BY <1>1 DEF SameWindow

\* The file a row goes to.
Target(c, g) == IF c.open = None THEN g ELSE c.open

LEMMA WithRowIs ==
  ASSUME NEW c \in AverageRecord, NEW g \in Time, NEW row \in Row
  PROVE  LET w == WithRow(c, g, row)
             h == Target(c, g)
         IN  /\ w \in AverageRecord /\ w.count = c.count /\ w.sum = c.sum
             /\ SameWindow(w, c) /\ h \in Time /\ w.open = h
             /\ w.files[h] = IF c.open = None THEN << row >>
                                              ELSE Append(c.files[h], row)
             /\ \A f \in Time \ {h} : w.files[f] = c.files[f]
PROOF
<1> DEFINE w == WithRow(c, g, row)
           h == Target(c, g)
           s == IF c.open = None THEN << row >> ELSE Append(c.files[h], row)
           x == [c.files EXCEPT ![h] = s]
<1>1. h \in Time /\ c.files \in [Time -> Seq(Row)]
  BY DEF AverageRecord, Target
<1>2. s \in Seq(Row)
  <2>1. c.files[h] \in Seq(Row)
    BY <1>1
  <2> HIDE DEF h
  <2>2. << row >> \in Seq(Row) /\ Append(c.files[h], row) \in Seq(Row)
    BY <2>1
  <2>3. QED
    BY <2>2
<1>3. w = [c EXCEPT !.open = h, !.files = x]
  <2>1. CASE c.open = None
    BY <2>1 DEF WithRow, Target
  <2>2. CASE c.open # None
    <3>1. h = c.open /\ s = Append(c.files[c.open], row)
      BY <2>2 DEF Target
    <3>2. w = [c EXCEPT !.files = x]
      BY <2>2, <3>1 DEF WithRow
    <3>3. c = [c EXCEPT !.open = h]
      BY <3>1 DEF AverageRecord
    <3>4. QED
      BY <3>1, <3>2, <3>3 DEF AverageRecord
  <2>3. QED
    BY <2>1, <2>2
<1> HIDE DEF s, h, w
<1>4. x \in [Time -> Seq(Row)] /\ x[h] = s /\ \A f \in Time \ {h} : x[f] = c.files[f]
  BY <1>1, <1>2
<1> HIDE DEF x
<1>5. w \in AverageRecord /\ w.count = c.count /\ w.sum = c.sum /\ w.start = c.start
      /\ w.end = c.end /\ w.group = c.group /\ w.files = x /\ w.open = h
  BY <1>1, <1>3, <1>4 DEF AverageRecord
<1>6. QED
  BY <1>1, <1>4, <1>5 DEF SameWindow, s, h, w

LEMMA SameWindowOn ==
  ASSUME NEW a \in Average, NEW c \in AverageRecord, NEW w \in AverageRecord,
         SameWindow(w, c), OnSchedule(c, a)
  PROVE  OnSchedule(w, a)
PROOF
BY DEF OnSchedule, SameWindow

LEMMA OnScheduleIs ==
  ASSUME NEW a \in Average, NEW c \in AverageRecord, OnSchedule(c, a)
  PROVE  /\ c.start \in Time /\ c.start \in Nat /\ c.start % Frequency[a] = 0
         /\ c.end \in Nat /\ c.end = c.start + Frequency[a]
         /\ c.end % Frequency[a] = 0 /\ c.end - Frequency[a] = c.start
         /\ c.group = GroupOf(a, c.start) /\ c.group \in Time /\ c.end # None
         /\ c.count \in Nat /\ CurrentRow(c) \in Row /\ ~ Unscheduled(c)
PROOF
<1>1. c.start \in Time /\ c.start \in Nat /\ c.start % Frequency[a] = 0
      /\ c.end \in Nat /\ c.end = c.start + Frequency[a]
      /\ c.group = GroupOf(a, c.start) /\ Frequency[a] \in Nat \ {0}
  BY TimeIs, Intervals DEF OnSchedule
<1>2. c.end % Frequency[a] = 0
  BY <1>1, Multiples
<1>3. c.group \in Time
  BY <1>1, GroupIs
<1>4. c.count \in Nat /\ CurrentRow(c) \in Row
  BY <1>1 DEF AverageRecord, CurrentRow, Row
<1>5. c.end # None
  BY <1>1 DEF None
<1>6. QED
  BY <1>1, <1>2, <1>3, <1>4, <1>5 DEF Unscheduled

LEMMA AppendedIs ==
  ASSUME NEW a \in Average, NEW c \in AverageRecord, OnSchedule(c, a)
  PROVE  LET w == Appended(c)
         IN  /\ w \in AverageRecord /\ w.count = c.count /\ w.sum = c.sum
             /\ SameWindow(w, c)
             /\ c.count = 0 => w = c
             /\ c.count # 0 => w = WithRow(c, c.group, CurrentRow(c))
PROOF
<1>1. c.group \in Time /\ CurrentRow(c) \in Row
  BY OnScheduleIs
<1>2. CASE c.count = 0
  BY <1>2 DEF Appended, SameWindow
<1>3. CASE c.count # 0
  BY <1>1, <1>3, WithRowIs DEF Appended
<1>4. QED
  BY <1>2, <1>3

\* A window that ends makes way for the one that ends at e.
LEMMA FinishedIs ==
  ASSUME NEW a \in Average, NEW c \in AverageRecord, OnSchedule(c, a),
         NEW e \in Nat, e % Frequency[a] = 0, e - Frequency[a] \in Time,
         (e - Frequency[a]) % Frequency[a] = 0
  PROVE  LET w == FinishedTo(c, a, e)
             p == Appended(c)
         IN  /\ w \in AverageRecord /\ OnSchedule(w, a)
             /\ w.start = e - Frequency[a] /\ w.end = e
             /\ w.count = 0 /\ w.sum = NoSum
             /\ w.files = p.files
             /\ w.open = IF w.group = c.group THEN p.open ELSE None
PROOF
<1> DEFINE p == Appended(c)
           q == Reset(p)
           s == Advanced(q, a, e)
           w == ClosedIfMoved(s, c)
<1>1. FinishedTo(c, a, e) = w
  BY DEF FinishedTo
<1>2. p \in AverageRecord
  BY AppendedIs
<1> HIDE DEF p
<1>3. q \in AverageRecord /\ q.count = 0 /\ q.sum = NoSum /\ SameFiles(q, p)
  BY <1>2, ResetIs
<1> HIDE DEF q
<1>4. /\ s \in AverageRecord /\ OnSchedule(s, a)
      /\ s.start = e - Frequency[a] /\ s.end = e /\ SameFiles(s, q)
      /\ s.count = 0 /\ s.sum = NoSum
  BY <1>3, AdvancedIs
<1> HIDE DEF s
<1>5. s.files = p.files /\ s.open = p.open
  BY <1>3, <1>4 DEF SameFiles
<1>6. CASE s.group = c.group
  <2>1. w = s
    BY <1>6 DEF ClosedIfMoved
  <2> HIDE DEF w
  <2>2. QED
    BY <1>1, <1>4, <1>5, <1>6, <2>1 DEF p
<1>7. CASE s.group # c.group
  <2>1. w = [s EXCEPT !.open = None]
    BY <1>7 DEF ClosedIfMoved
  <2>2. /\ w \in AverageRecord /\ w.count = s.count /\ w.sum = s.sum
        /\ w.open = None /\ w.files = s.files /\ SameWindow(w, s)
    BY <1>4, <2>1, ClosedFileIs
  <2> HIDE DEF w
  <2>3. OnSchedule(w, a)
    BY <1>4, <2>2, SameWindowOn
  <2>4. w.start = s.start /\ w.end = s.end /\ w.group = s.group
    BY <2>2 DEF SameWindow
  <2>5. QED
    BY <1>1, <1>4, <1>5, <1>7, <2>2, <2>3, <2>4 DEF p
<1>8. QED
  BY <1>6, <1>7

LEMMA PreparedIs ==
  ASSUME NEW a \in Average, NEW c, AverageTyped(c, a), NEW t \in Time, t > 0
  PROVE  LET p == PreparedFor(c, a, t)
         IN  /\ p \in AverageRecord /\ OnSchedule(p, a)
             /\ Unscheduled(c) => p = Scheduled(c, a, t)
             /\ OnSchedule(c, a) /\ t <= c.end => p = c
             /\ OnSchedule(c, a) /\ c.end < t =>
                  p = FinishedTo(c, a, WindowEnd(a, t))
PROOF
<1> DEFINE s == Scheduled(c, a, t)
<1>1. /\ s \in AverageRecord /\ OnSchedule(s, a)
      /\ OnSchedule(c, a) => s = c
      /\ Unscheduled(c) => t <= s.end
  BY ScheduledIs
<1>2. PreparedFor(c, a, t) = IF t <= s.end THEN s
                             ELSE FinishedTo(s, a, WindowEnd(a, t))
  BY DEF PreparedFor
<1> HIDE DEF s
<1>3. s.end \in Nat /\ t \in Nat
  BY <1>1, OnScheduleIs, TimeIs
<1>4. /\ FinishedTo(s, a, WindowEnd(a, t)) \in AverageRecord
      /\ OnSchedule(FinishedTo(s, a, WindowEnd(a, t)), a)
  <2> DEFINE e == WindowEnd(a, t)
  <2>1. /\ e \in Nat /\ e % Frequency[a] = 0
        /\ e - Frequency[a] \in Time /\ (e - Frequency[a]) % Frequency[a] = 0
    BY WindowEndIs
  <2> HIDE DEF e
  <2>2. FinishedTo(s, a, e) \in AverageRecord /\ OnSchedule(FinishedTo(s, a, e), a)
    BY <1>1, <2>1, FinishedIs
  <2>3. QED
    BY <2>2 DEF e
<1>5. OnSchedule(c, a) => c.end = s.end
  BY <1>1
<1>6. c.end < t /\ OnSchedule(c, a) => ~ (t <= s.end)
  BY <1>3, <1>5
<1>7. QED
  BY <1>1, <1>2, <1>4, <1>5, <1>6 DEF s

\* The window after c's.
LEMMA NextEnd ==
  ASSUME NEW a \in Average, NEW c \in AverageRecord, OnSchedule(c, a),
         c.end \in Time
  PROVE  LET e == c.end + Frequency[a]
         IN  /\ e \in Nat /\ e % Frequency[a] = 0 /\ e - Frequency[a] = c.end
             /\ e - Frequency[a] \in Time /\ (e - Frequency[a]) % Frequency[a] = 0
PROOF
<1>1. c.end \in Nat /\ c.end % Frequency[a] = 0 /\ Frequency[a] \in Nat \ {0}
  BY OnScheduleIs, Intervals
<1>2. (c.end + Frequency[a]) % Frequency[a] = 0
  BY <1>1, Multiples
<1>3. QED
  BY <1>1, <1>2

LEMMA CompletedIs ==
  ASSUME NEW a \in Average, NEW c \in AverageRecord, OnSchedule(c, a),
         NEW t \in Time
  PROVE  LET n == [c EXCEPT !.count = @ + 1]
             w == Completed(c, a, t)
         IN  /\ w \in AverageRecord /\ OnSchedule(w, a)
             /\ n \in AverageRecord /\ OnSchedule(n, a)
             /\ n.count = c.count + 1 /\ n.sum = c.sum
             /\ SameFiles(n, c) /\ SameWindow(n, c)
             /\ t = c.end => w = FinishedTo(n, a, c.end + Frequency[a])
             /\ t # c.end => w = n
PROOF
<1> DEFINE n == [c EXCEPT !.count = @ + 1]
<1>1. n \in AverageRecord /\ n.count = c.count + 1 /\ n.sum = c.sum
      /\ SameFiles(n, c) /\ SameWindow(n, c)
  BY CountedIs
<1>2. Completed(c, a, t) = IF t = c.end THEN FinishedTo(n, a, c.end + Frequency[a])
                                        ELSE n
  BY DEF Completed
<1> HIDE DEF n
<1>3. OnSchedule(n, a) /\ n.end = c.end
  BY <1>1, SameWindowOn DEF SameWindow
<1>4. CASE t = c.end
  <2> DEFINE e == c.end + Frequency[a]
  <2>1. /\ e \in Nat /\ e % Frequency[a] = 0
        /\ e - Frequency[a] \in Time /\ (e - Frequency[a]) % Frequency[a] = 0
    BY <1>4, NextEnd
  <2> HIDE DEF e
  <2>2. FinishedTo(n, a, e) \in AverageRecord /\ OnSchedule(FinishedTo(n, a, e), a)
    BY <1>1, <1>3, <2>1, FinishedIs
  <2>3. QED
    BY <1>1, <1>2, <1>3, <1>4, <2>2 DEF e, n
<1>5. CASE t # c.end
  BY <1>1, <1>2, <1>3, <1>5 DEF n
<1>6. QED
  BY <1>4, <1>5

LEMMA DetachCompletedIs ==
  ASSUME NEW a \in Average, NEW c \in AverageRecord, OnSchedule(c, a),
         NEW t \in Time
  PROVE  LET n == [c EXCEPT !.count = @ + 1]
             w == DetachCompleted(c, a, t)
         IN  /\ w \in AverageRecord /\ OnSchedule(w, a)
             /\ n \in AverageRecord /\ OnSchedule(n, a)
             /\ n.count = c.count + 1 /\ n.sum = c.sum
             /\ SameFiles(n, c) /\ SameWindow(n, c) /\ SameFiles(w, c)
             /\ t < c.end => w = n
             /\ ~ (t < c.end) => /\ w.start = c.end
                                 /\ w.end = c.end + Frequency[a]
                                 /\ w.count = 0 /\ w.sum = NoSum
PROOF
<1> DEFINE n == [c EXCEPT !.count = @ + 1]
           e == c.end + Frequency[a]
<1>1. n \in AverageRecord /\ n.count = c.count + 1 /\ n.sum = c.sum
      /\ SameFiles(n, c) /\ SameWindow(n, c)
  BY CountedIs
<1>2. DetachCompleted(c, a, t) = IF t < c.end THEN n ELSE Advanced(Reset(n), a, e)
  BY DEF DetachCompleted
<1> HIDE DEF n
<1>3. OnSchedule(n, a)
  BY <1>1, SameWindowOn
<1>4. CASE ~ (t < c.end)
  <2>1. c.end \in Nat /\ t \in Nat /\ t <= StepEnd(Steps) /\ StepEnd(Steps) \in Nat
    BY OnScheduleIs, TimeIs, RunLength, StepTimes
  <2>2. c.end <= StepEnd(Steps)
    BY <1>4, <2>1
  <2>3. c.end \in Time
    BY <2>1, <2>2, TimeIs
  <2>4. /\ e \in Nat /\ e % Frequency[a] = 0 /\ e - Frequency[a] = c.end
        /\ e - Frequency[a] \in Time /\ (e - Frequency[a]) % Frequency[a] = 0
    BY <2>3, NextEnd
  <2> HIDE DEF e
  <2>5. /\ Reset(n) \in AverageRecord /\ Reset(n).count = 0 /\ Reset(n).sum = NoSum
        /\ SameFiles(Reset(n), n)
    BY <1>1, ResetIs
  <2> DEFINE w == Advanced(Reset(n), a, e)
  <2>6. /\ w \in AverageRecord /\ OnSchedule(w, a) /\ w.start = c.end /\ w.end = e
        /\ SameFiles(w, Reset(n)) /\ w.count = 0 /\ w.sum = NoSum
    BY <2>4, <2>5, AdvancedIs
  <2> HIDE DEF w
  <2>7. SameFiles(w, c)
    BY <1>1, <2>5, <2>6 DEF SameFiles
  <2>8. QED
    BY <1>1, <1>2, <1>3, <1>4, <2>6, <2>7 DEF e, w, n
<1>5. CASE t < c.end
  BY <1>1, <1>2, <1>3, <1>5 DEF n
<1>6. QED
  BY <1>4, <1>5

LEMMA DetachedAverageIs ==
  ASSUME NEW a \in Average, NEW c \in AverageRecord, OnSchedule(c, a),
         NEW t \in Time
  PROVE  /\ DetachedAverage(c, a, t) \in Seq(DetachedOutput)
         /\ t < c.end => DetachedAverage(c, a, t) = << >>
         /\ ~ (t < c.end) => DetachedAverage(c, a, t) =
              << [owner |-> a, group |-> c.group,
                  row |-> [time |-> c.start, sum |-> c.sum, count |-> c.count + 1],
                  close |-> DetachCompleted(c, a, t).group # c.group] >>
PROOF
<1> DEFINE row == [time |-> c.start, sum |-> c.sum, count |-> c.count + 1]
           out == [owner |-> a, group |-> c.group, row |-> row,
                   close |-> DetachCompleted(c, a, t).group # c.group]
<1>1. c.group \in Time /\ c.start \in Time /\ c.count \in Nat
      /\ c.sum \in [Sample -> Nat]
  BY OnScheduleIs DEF AverageRecord
<1>2. [CurrentRow(c) EXCEPT !.count = @ + 1] = row
  BY DEF CurrentRow
<1>3. DetachedAverage(c, a, t) = IF t < c.end THEN << >> ELSE << out >>
  BY <1>2 DEF DetachedAverage
<1>4. row \in Row
  BY <1>1 DEF Row
<1> HIDE DEF row
<1>5. out \in DetachedOutput
  BY <1>1, <1>4 DEF DetachedOutput
<1> HIDE DEF out
<1>6. << out >> \in Seq(DetachedOutput) /\ << >> \in Seq(DetachedOutput)
  BY <1>5
<1>7. QED
  BY <1>3, <1>6 DEF out, row

\* A detached window is written to the file of its group.
LEMMA WithDetachedIs ==
  ASSUME NEW c \in AverageRecord, NEW out \in DetachedOutput
  PROVE  LET w == WithDetached(c, out)
             p == WithRow(c, out.group, out.row)
         IN  /\ w \in AverageRecord /\ w.count = c.count /\ w.sum = c.sum
             /\ SameWindow(w, c) /\ w.files = p.files
             /\ w.open = IF out.close THEN None ELSE p.open
PROOF
<1> DEFINE p == WithRow(c, out.group, out.row)
<1>1. out.group \in Time /\ out.row \in Row
  BY DEF DetachedOutput
<1>2. /\ p \in AverageRecord /\ p.count = c.count /\ p.sum = c.sum
      /\ SameWindow(p, c)
  BY <1>1, WithRowIs
<1>3. WithDetached(c, out) = IF out.close THEN [p EXCEPT !.open = None] ELSE p
  BY DEF WithDetached
<1> HIDE DEF p
<1> DEFINE w == [p EXCEPT !.open = None]
<1>4. /\ w \in AverageRecord /\ w.count = p.count /\ w.sum = p.sum
      /\ w.open = None /\ w.files = p.files /\ SameWindow(w, p)
  BY <1>2, ClosedFileIs
<1> HIDE DEF w
<1>5. SameWindow(w, c)
  BY <1>2, <1>4 DEF SameWindow
<1>6. QED
  BY <1>2, <1>3, <1>4, <1>5 DEF p, w

LEMMA ClosedIs ==
  ASSUME NEW a \in Average, NEW c, AverageTyped(c, a)
  PROVE  LET w == Closed(c)
         IN  /\ AverageTyped(w, a) /\ SameWindow(w, c)
             /\ w.files = Appended(c).files
PROOF
<1> DEFINE p == Appended(c)
           q == Reset(p)
           w == [q EXCEPT !.open = None]
<1>1. Closed(c) = w
  BY DEF Closed
<1>2. c \in AverageRecord
  BY DEF AverageTyped
<1>3. p \in AverageRecord /\ SameWindow(p, c)
  <2>1. CASE OnSchedule(c, a)
    BY <1>2, <2>1, AppendedIs
  <2>2. CASE Unscheduled(c)
    <3>1. p = c
      BY <2>2 DEF Appended, Unscheduled
    <3> HIDE DEF p
    <3>2. QED
      BY <1>2, <3>1 DEF SameWindow
  <2>3. QED
    BY <2>1, <2>2 DEF AverageTyped
<1> HIDE DEF p
<1>4. q \in AverageRecord /\ q.count = 0 /\ q.sum = NoSum /\ SameFiles(q, p)
      /\ SameWindow(q, p)
  BY <1>3, ResetIs
<1> HIDE DEF q
<1>5. /\ w \in AverageRecord /\ w.count = q.count /\ w.sum = q.sum
      /\ w.open = None /\ w.files = q.files /\ SameWindow(w, q)
  BY <1>4, ClosedFileIs
<1> HIDE DEF w
<1>6. SameWindow(w, c) /\ w.files = p.files
  BY <1>3, <1>4, <1>5 DEF SameWindow, SameFiles
<1>7. AverageTyped(w, a)
  <2>1. CASE OnSchedule(c, a)
    BY <1>2, <1>5, <1>6, <2>1, SameWindowOn DEF AverageTyped
  <2>2. CASE Unscheduled(c)
    BY <1>4, <1>5, <1>6, <2>2 DEF Unscheduled, SameWindow, AverageTyped
  <2>3. QED
    BY <2>1, <2>2 DEF AverageTyped
<1>8. QED
  BY <1>1, <1>6, <1>7 DEF p

-----------------------------------------------------------------------------
(* Types.                                                                  *)

IsFunction(f) == f = [x \in DOMAIN f |-> f[x]]

Averages ==
  \A a \in setup.averages :
    /\ AverageTyped(average[a], a) /\ detached[a] \in Seq(DetachedOutput)
    /\ phase \in {"prepared", "drain", "detach"} => OnSchedule(average[a], a)

Typed == Averages /\ IsFunction(average) /\ IsFunction(restart)

LEMMA AveragesAre ==
  ASSUME Control
  PROVE  /\ setup.averages \in SUBSET Average
         /\ \A a \in setup.averages : a \in DOMAIN average /\ a \in DOMAIN detached
                                      /\ a \in Average /\ a \notin Restart
PROOF
BY SetupAssumption, CollectionsAssumption DEF Control

\* The step the loop is working on.
LEMMA CurrentIs ==
  ASSUME Control, step < Steps
  PROVE  /\ Current \in Sample /\ StepEnd(Current) \in Time /\ StepEnd(Current) > 0
         /\ StepEnd(Current) \in Nat
         /\ step \in Nat /\ step \in 0 .. Steps - 1 /\ Current \in 0 .. Steps
PROOF
<1>1. step \in 0 .. Steps /\ Steps \in Nat /\ Current = step + 1
  BY RunLength DEF Control, Current
<1>2. Current \in Nat /\ Current \in 0 .. Steps /\ Current \in 1 .. Steps /\ 0 < Current
      /\ step \in 0 .. Steps - 1 /\ step \in Nat
  BY <1>1
<1>3. StepEnd(0) < StepEnd(Current) /\ StepEnd(Current) \in Nat
  BY <1>2, StepTimes
<1>4. StepEnd(Current) \in Time
  BY <1>2, TimeIs
<1>5. QED
  BY <1>2, <1>3, <1>4, RunLength DEF Sample

LEMMA PrepareIs ==
  ASSUME Control, Averages, step < Steps, NEW a \in setup.averages
  PROVE  LET p == PreparedFor(average[a], a, StepEnd(Current))
         IN  /\ p \in AverageRecord /\ OnSchedule(p, a)
             /\ Prepare[a] = Accumulated(p, Current)
             /\ Prepare[a] \in AverageRecord /\ OnSchedule(Prepare[a], a)
PROOF
<1> DEFINE p == PreparedFor(average[a], a, StepEnd(Current))
<1>1. AverageTyped(average[a], a) /\ a \in Average
  BY AveragesAre DEF Averages
<1>2. Current \in Sample /\ StepEnd(Current) \in Time /\ StepEnd(Current) > 0
  BY CurrentIs
<1>3. p \in AverageRecord /\ OnSchedule(p, a)
  BY <1>1, <1>2, PreparedIs
<1>4. Prepare[a] = Accumulated(p, Current)
  BY DEF Prepare
<1> HIDE DEF p
<1>5. Accumulated(p, Current) \in AverageRecord
      /\ SameWindow(Accumulated(p, Current), p)
  BY <1>2, <1>3, AccumulatedIs
<1>6. OnSchedule(Accumulated(p, Current), a)
  BY <1>1, <1>3, <1>5, SameWindowOn
<1>7. QED
  BY <1>3, <1>4, <1>5, <1>6 DEF p

LEMMA TypedInit == Init => Typed
PROOF
<1> SUFFICES ASSUME Init PROVE Typed
  OBVIOUS
<1>1. FreshAverage \in AverageRecord
  <2>1. [g \in Time |-> << >>] \in [Time -> Seq(Row)]
    OBVIOUS
  <2>2. QED
    BY <2>1, NoSumIs DEF FreshAverage, AverageRecord
<1>2. Unscheduled(FreshAverage)
  BY DEF Unscheduled, FreshAverage
<1>3. \A a \in setup.averages :
        average[a] = FreshAverage /\ detached[a] = << >> /\ phase = "running"
  BY DEF Init
<1>4. << >> \in Seq(DetachedOutput)
  OBVIOUS
<1>5. Averages
  BY <1>1, <1>2, <1>3, <1>4 DEF Averages, AverageTyped
<1>6. IsFunction(average) /\ IsFunction(restart)
  BY DEF Init, IsFunction
<1>7. QED
  BY <1>5, <1>6 DEF Typed

LEMMA SetupStays == [Next]_vars => setup' = setup
PROOF
<1> SUFFICES ASSUME [Next]_vars PROVE setup' = setup
  OBVIOUS
<1>1. CASE RecordStep \/ PrepareStep \/ StepEndsBatch \/ CompleteStep
  BY <1>1 DEF RecordStep, PrepareStep, StepEndsBatch, CompleteStep
<1>2. CASE \E c \in DOMAIN detached : DrainOne(c)
  BY <1>2 DEF DrainOne
<1>3. CASE DrainDone \/ DetachStep \/ LoopEnds \/ Close \/ CloseFinishes
  BY <1>3 DEF DrainDone, DetachStep, LoopEnds, Close, CloseFinishes
<1>4. CASE Fault \/ UNCHANGED vars
  BY <1>4 DEF Fault, Raise, RecordRaises, BoundaryRaises, vars
<1>5. QED
  BY <1>1, <1>2, <1>3, <1>4 DEF Next, Run

LEMMA AveragesStep == Control /\ Averages /\ [Next]_vars => Averages'
PROOF
<1> SUFFICES ASSUME Control, Averages, [Next]_vars PROVE Averages'
  OBVIOUS
<1> SUFFICES ASSUME NEW a \in setup.averages
             PROVE  /\ AverageTyped(average'[a], a)
                    /\ detached'[a] \in Seq(DetachedOutput)
                    /\ phase' \in {"prepared", "drain", "detach"}
                         => OnSchedule(average'[a], a)
  BY SetupStays DEF Averages
<1> DEFINE c == average[a]
           d == detached[a]
<1>1. /\ AverageTyped(c, a) /\ d \in Seq(DetachedOutput) /\ c \in AverageRecord
      /\ phase \in {"prepared", "drain", "detach"} => OnSchedule(c, a)
  BY DEF Averages, AverageTyped
<1>2. a \in Average /\ a \notin Restart /\ a \in DOMAIN average /\ a \in DOMAIN detached
  BY AveragesAre
<1>3. phase \in {"prepared", "drain", "detach"} =>
        prepared = Current /\ step < Steps /\ UseCuda
  BY DEF Control, Current
<1>4. step < Steps => StepEnd(Current) \in Time
  BY CurrentIs
<1> HIDE DEF c, d
<1>5. CASE RecordStep
  <2>1. average'[a] = Completed(Prepare[a], a, StepEnd(Current))
        /\ detached'[a] = d /\ phase' = "running" /\ step < Steps
    BY <1>5 DEF RecordStep, d
  <2>2. Prepare[a] \in AverageRecord /\ OnSchedule(Prepare[a], a)
    BY <2>1, PrepareIs
  <2>3. average'[a] \in AverageRecord /\ OnSchedule(average'[a], a)
    <3>1. /\ Completed(Prepare[a], a, StepEnd(Current)) \in AverageRecord
          /\ OnSchedule(Completed(Prepare[a], a, StepEnd(Current)), a)
      BY <1>2, <1>4, <2>1, <2>2, CompletedIs
    <3>2. QED
      BY <2>1, <3>1
  <2>4. QED
    BY <1>1, <2>1, <2>3 DEF AverageTyped
<1>6. CASE RecordRaises
  <2>1. step < Steps /\ detached'[a] = d /\ phase' = "unwinding"
    BY <1>6 DEF RecordRaises, d
  <2>2. \/ average'[a] = Completed(Prepare[a], a, StepEnd(Current))
        \/ average'[a] = [Prepare[a] EXCEPT !.count = @ + 1]
        \/ average'[a] = Prepare[a]
    BY <1>6 DEF RecordRaises
  <2>3. Prepare[a] \in AverageRecord /\ OnSchedule(Prepare[a], a)
    BY <2>1, PrepareIs
  <2>4. average'[a] \in AverageRecord /\ OnSchedule(average'[a], a)
    <3>1. /\ Completed(Prepare[a], a, StepEnd(Current)) \in AverageRecord
          /\ OnSchedule(Completed(Prepare[a], a, StepEnd(Current)), a)
          /\ [Prepare[a] EXCEPT !.count = @ + 1] \in AverageRecord
          /\ OnSchedule([Prepare[a] EXCEPT !.count = @ + 1], a)
      BY <1>2, <1>4, <2>1, <2>3, CompletedIs
    <3>2. QED
      BY <2>2, <2>3, <3>1
  <2>5. QED
    BY <1>1, <2>1, <2>4 DEF AverageTyped
<1>7. CASE PrepareStep
  <2>1. step < Steps /\ detached'[a] = d /\ average'[a] = Prepare[a]
    BY <1>7 DEF PrepareStep, d
  <2>2. Prepare[a] \in AverageRecord /\ OnSchedule(Prepare[a], a)
    BY <2>1, PrepareIs
  <2>3. QED
    BY <1>1, <2>1, <2>2 DEF AverageTyped
<1>8. CASE CompleteStep
  <2>1. average'[a] = Completed(c, a, StepEnd(prepared)) /\ detached'[a] = d
        /\ phase = "prepared" /\ phase' = "running"
    BY <1>8 DEF CompleteStep, c, d
  <2>2. StepEnd(prepared) \in Time
    BY <1>3, <1>4, <2>1
  <2>3. average'[a] \in AverageRecord /\ OnSchedule(average'[a], a)
    <3>1. /\ Completed(c, a, StepEnd(prepared)) \in AverageRecord
          /\ OnSchedule(Completed(c, a, StepEnd(prepared)), a)
      BY <1>1, <1>2, <2>1, <2>2, CompletedIs
    <3>2. QED
      BY <2>1, <3>1
  <2>4. QED
    BY <1>1, <2>1, <2>3 DEF AverageTyped
<1>9. CASE DetachStep
  <2>1. phase = "detach" /\ d = << >> /\ phase' \in {"drainLast", "running"}
    BY <1>2, <1>9 DEF DetachStep, Control, NothingDetached, d
  <2>2. average'[a] = DetachCompleted(c, a, StepEnd(prepared))
        /\ detached'[a] = d \o DetachedAverage(c, a, StepEnd(prepared))
    BY <1>2, <1>9 DEF DetachStep, c, d
  <2>3. StepEnd(prepared) \in Time
    BY <1>3, <1>4, <2>1
  <2>4. average'[a] \in AverageRecord /\ OnSchedule(average'[a], a)
    <3>1. /\ DetachCompleted(c, a, StepEnd(prepared)) \in AverageRecord
          /\ OnSchedule(DetachCompleted(c, a, StepEnd(prepared)), a)
      BY <1>1, <1>2, <2>1, <2>3, DetachCompletedIs
    <3>2. QED
      BY <2>2, <3>1
  <2>5. DetachedAverage(c, a, StepEnd(prepared)) \in Seq(DetachedOutput)
    BY <1>1, <1>2, <2>1, <2>3, DetachedAverageIs
  <2>6. detached'[a] \in Seq(DetachedOutput)
    BY <1>1, <2>2, <2>5
  <2>7. QED
    BY <2>1, <2>4, <2>6 DEF AverageTyped
<1>10. ASSUME NEW e \in DOMAIN detached, DrainOne(e)
       PROVE  /\ AverageTyped(average'[a], a)
              /\ detached'[a] \in Seq(DetachedOutput)
              /\ phase' \in {"prepared", "drain", "detach"}
                   => OnSchedule(average'[a], a)
  <2>1. detached[e] # << >> /\ phase' = phase
        /\ detached' = [detached EXCEPT ![e] = Tail(@)]
    BY <1>10 DEF DrainOne
  <2>2. CASE e = a
    <3>1. average' = [average EXCEPT ![a] = WithDetached(@, Head(detached[a]))]
      BY <1>2, <1>10, <2>2 DEF DrainOne
    <3>2. average'[a] = WithDetached(c, Head(d)) /\ detached'[a] = Tail(d) /\ d # << >>
      BY <1>2, <2>1, <2>2, <3>1 DEF c, d
    <3>3. Head(d) \in DetachedOutput /\ Tail(d) \in Seq(DetachedOutput)
      BY <1>1, <3>2
    <3>4. average'[a] \in AverageRecord /\ SameWindow(average'[a], c)
          /\ average'[a].count = c.count /\ average'[a].sum = c.sum
      BY <1>1, <3>2, <3>3, WithDetachedIs
    <3>5. OnSchedule(c, a) => OnSchedule(average'[a], a)
      BY <1>1, <1>2, <3>4, SameWindowOn
    <3>6. Unscheduled(c) => Unscheduled(average'[a])
      BY <3>4 DEF Unscheduled, SameWindow
    <3>7. QED
      BY <1>1, <2>1, <3>2, <3>3, <3>4, <3>5, <3>6 DEF AverageTyped
  <2>3. CASE e # a
    <3>1. average'[a] = c /\ detached'[a] = d
      BY <1>2, <1>10, <2>1, <2>3 DEF DrainOne, c, d
    <3>2. QED
      BY <1>1, <2>1, <3>1
  <2>4. QED
    BY <2>2, <2>3
<1>11. CASE CloseFinishes
  <2>1. average'[a] \in {c, Closed(c)} /\ detached'[a] = d /\ phase' = "closed"
    BY <1>11 DEF CloseFinishes, c, d
  <2>2. AverageTyped(Closed(c), a)
    BY <1>1, <1>2, ClosedIs
  <2>3. QED
    BY <1>1, <2>1, <2>2
<1>12. ASSUME average' = average, detached' = detached,
              phase' \in {"prepared", "drain", "detach"} =>
                phase \in {"prepared", "drain", "detach"}
       PROVE  /\ AverageTyped(average'[a], a)
              /\ detached'[a] \in Seq(DetachedOutput)
              /\ phase' \in {"prepared", "drain", "detach"}
                   => OnSchedule(average'[a], a)
  BY <1>1, <1>12 DEF c, d
<1>13. CASE StepEndsBatch \/ DrainDone \/ LoopEnds \/ Close
            \/ Raise \/ BoundaryRaises \/ UNCHANGED vars
  BY <1>12, <1>13 DEF StepEndsBatch, DrainDone, Draining, LoopEnds, Close,
     Raise, BoundaryRaises, vars
<1>14. QED
  BY <1>5, <1>6, <1>7, <1>8, <1>9, <1>10, <1>11, <1>13 DEF Next, Run, Fault

LEMMA TypedStep == Control /\ Typed /\ [Next]_vars => Typed'
PROOF
<1> SUFFICES ASSUME Control, Typed, [Next]_vars PROVE Typed'
  OBVIOUS
<1>1. Averages'
  BY AveragesStep DEF Typed
<1>2. IsFunction(average') /\ IsFunction(restart')
  <2> USE DEF Typed, IsFunction
  <2>1. CASE Run
    BY <2>1 DEF Run, RecordStep, PrepareStep, StepEndsBatch, CompleteStep,
       DrainOne, DrainDone, DetachStep, LoopEnds, Close, CloseFinishes, Prepare
  <2>2. CASE Fault
    BY <2>2 DEF Fault, Raise, RecordRaises, BoundaryRaises
  <2>3. CASE UNCHANGED vars
    BY <2>3 DEF vars
  <2>4. QED
    BY <2>1, <2>2, <2>3 DEF Next
<1>3. QED
  BY <1>1, <1>2 DEF Typed

LEMMA TypedAlways == Spec => []Typed
PROOF
<1>1. QED
  BY ControlAlways, TypedInit, TypedStep, PTL DEF Spec

\* Every variable stays in its type: times in the run, rows of whole windows,
\* a prepared step that is the next one.
THEOREM HistoryTypeOK == Spec => []TypeOK
PROOF
<1>1. Control /\ Restarts /\ Typed => TypeOK
  <2> SUFFICES ASSUME Control, Restarts, Typed PROVE TypeOK
    OBVIOUS
  <2>1. /\ phase \in {"running", "prepared", "drain", "detach", "drainLast",
                      "unwinding", "closeDrain", "closing", "closed"}
        /\ setup \in Setups /\ step \in 0 .. Steps /\ last \in BOOLEAN
        /\ prepared \in {0, step + 1} /\ prepared <= Steps
        /\ abandoned \in 0 .. Steps
    BY RunLength DEF Control
  <2>2. average \in [setup.averages -> AverageRecord]
    <3>1. \A a \in setup.averages : average[a] \in AverageRecord
      BY DEF Typed, Averages, AverageTyped
    <3>2. average = [a \in setup.averages |-> average[a]]
      BY DEF Typed, IsFunction, Control
    <3>3. QED
      BY <3>1, <3>2
  <2>3. restart \in [Restart -> [next : Nat, files : [Time -> 0 .. Steps]]]
    <3>1. \A r \in Restart : restart[r] \in [next : Nat, files : [Time -> 0 .. Steps]]
      BY DEF Restarts, RestartAt
    <3>2. restart = [r \in Restart |-> restart[r]]
      BY DEF Typed, IsFunction, Control
    <3>3. QED
      BY <3>1, <3>2
  <2>4. /\ \A a \in setup.averages : detached[a] \in Seq(DetachedOutput)
        /\ \A r \in Restart : detached[r] \in Seq(RestartOutput)
    BY DEF Typed, Averages, Restarts, RestartAt
  <2>5. QED
    BY <2>1, <2>2, <2>3, <2>4
       DEF TypeOK, AverageRecord, DetachedOutput, RestartOutput
<1>2. QED
  BY <1>1, ControlAlways, RestartsAlways, TypedAlways, PTL

-----------------------------------------------------------------------------
(* The samples of a window.                                                *)

InWindow(a, s, k) == s < StepEnd(k) /\ StepEnd(k) <= s + Frequency[a]

LEMMA SamplesAre ==
  ASSUME NEW a \in Average, NEW s \in Nat, NEW m \in 0 .. Steps
  PROVE  /\ SamplesOf(a, s, m) \in SUBSET (1 .. m)
         /\ SamplesOf(a, s, m) \in SUBSET Sample
         /\ IsFiniteSet(SamplesOf(a, s, m))
         /\ Cardinality(SamplesOf(a, s, m)) \in Nat
         /\ Cardinality(SamplesOf(a, s, m)) = 0 <=> SamplesOf(a, s, m) = {}
         /\ \A k : k \in SamplesOf(a, s, m) <=> k \in 1 .. m /\ InWindow(a, s, k)
PROOF
<1>1. m \in Nat /\ m <= Steps /\ Steps \in Nat
  BY RunLength
<1>2. SamplesOf(a, s, m) \in SUBSET (1 .. m)
  BY DEF SamplesOf
<1>3. IsFiniteSet(1 .. m)
  BY <1>1, FS_Interval
<1>4. IsFiniteSet(SamplesOf(a, s, m))
  BY <1>2, <1>3, FS_Subset
<1>5. SamplesOf(a, s, m) \in SUBSET Sample
  BY <1>1, <1>2 DEF Sample
<1>6. \A k : k \in SamplesOf(a, s, m) <=> k \in 1 .. m /\ InWindow(a, s, k)
  BY DEF SamplesOf, InWindow
<1>7. QED
  BY <1>2, <1>4, <1>5, <1>6, FS_CardinalityType, FS_EmptySet

LEMMA NextSample ==
  ASSUME NEW a \in Average, NEW s \in Nat, NEW m \in 0 .. Steps - 1
  PROVE  LET before == SamplesOf(a, s, m)
             after  == SamplesOf(a, s, m + 1)
         IN  /\ InWindow(a, s, m + 1) =>
                  /\ after = before \cup {m + 1} /\ m + 1 \notin before
                  /\ after # {}
                  /\ Cardinality(after) = Cardinality(before) + 1
             /\ ~ InWindow(a, s, m + 1) => after = before
PROOF
<1> DEFINE before == SamplesOf(a, s, m)
           after  == SamplesOf(a, s, m + 1)
<1>1. m \in Nat /\ m \in 0 .. Steps /\ m + 1 \in 0 .. Steps
  BY RunLength
<1>2. /\ IsFiniteSet(before)
      /\ \A k : k \in before <=> k \in 1 .. m /\ InWindow(a, s, k)
  BY <1>1, SamplesAre
<1>3. \A k : k \in after <=> k \in 1 .. m + 1 /\ InWindow(a, s, k)
  BY <1>1, SamplesAre
<1> HIDE DEF before, after
<1>4. \A k : k \in 1 .. m + 1 <=> k \in 1 .. m \/ k = m + 1
  BY <1>1
<1>5. m + 1 \notin 1 .. m
  BY <1>1
<1>6. ASSUME InWindow(a, s, m + 1)
      PROVE  /\ after = before \cup {m + 1} /\ m + 1 \notin before /\ after # {}
             /\ Cardinality(after) = Cardinality(before) + 1
  <2>1. after = before \cup {m + 1} /\ m + 1 \notin before
    BY <1>2, <1>3, <1>4, <1>5, <1>6
  <2>2. Cardinality(before \cup {m + 1}) = Cardinality(before) + 1
    BY <1>2, <2>1, FS_AddElement
  <2>3. QED
    BY <2>1, <2>2
<1>7. ASSUME ~ InWindow(a, s, m + 1) PROVE after = before
  BY <1>2, <1>3, <1>4, <1>7
<1>8. QED
  BY <1>6, <1>7 DEF before, after

\* A window that ends before the step after m has all its samples.
LEMMA AllSampled ==
  ASSUME NEW a \in Average, NEW s \in Nat, NEW m \in 0 .. Steps, NEW n \in m .. Steps,
         s + Frequency[a] < StepEnd(m + 1)
  PROVE  SamplesOf(a, s, m) = SamplesOf(a, s, n)
PROOF
<1>1. m \in Nat /\ n \in Nat /\ m <= n /\ n \in 0 .. Steps /\ m + 1 \in Nat
      /\ Frequency[a] \in Nat
  BY RunLength, Intervals
<1>2. ASSUME NEW k \in 1 .. n, InWindow(a, s, k) PROVE k \in 1 .. m
  <2>1. k \in Nat /\ StepEnd(k) \in Nat /\ StepEnd(m + 1) \in Nat
    <3>1. k \in Nat
      BY <1>1
    <3>2. QED
      BY <1>1, <3>1, StepTimes
  <2>2. StepEnd(k) < StepEnd(m + 1)
    BY <1>1, <1>2, <2>1 DEF InWindow
  <2>3. k < m + 1
    BY <1>1, <2>1, <2>2, StepTimes
  <2>4. QED
    BY <1>1, <2>3
<1>3. \A k \in 1 .. m : k \in 1 .. n
  BY <1>1
<1>4. \A k : k \in SamplesOf(a, s, m) <=> k \in 1 .. m /\ InWindow(a, s, k)
  BY <1>1, SamplesAre
<1>5. \A k : k \in SamplesOf(a, s, n) <=> k \in 1 .. n /\ InWindow(a, s, k)
  BY <1>1, SamplesAre
<1>6. QED
  BY <1>2, <1>3, <1>4, <1>5

\* One that begins at the end of step m or later has none of its first m.
LEMMA NoneSampled ==
  ASSUME NEW a \in Average, NEW s \in Nat, NEW m \in 0 .. Steps, StepEnd(m) <= s
  PROVE  SamplesOf(a, s, m) = {}
PROOF
<1> SUFFICES ASSUME NEW k \in SamplesOf(a, s, m) PROVE FALSE
  OBVIOUS
<1>1. m \in Nat
  BY RunLength
<1>2. k \in 1 .. m /\ InWindow(a, s, k)
  BY SamplesAre
<1>3. k \in Nat /\ k <= m
  BY <1>1, <1>2
<1>4. StepEnd(k) <= StepEnd(m) /\ StepEnd(k) \in Nat /\ StepEnd(m) \in Nat
  BY <1>1, <1>3, StepTimes
<1>5. QED
  BY <1>2, <1>4 DEF InWindow

\* Windows between two steps have none.
LEMMA SkippedWindow ==
  ASSUME NEW a \in Average, NEW s \in Nat, NEW m \in 0 .. Steps, StepEnd(m) <= s,
         s + Frequency[a] < StepEnd(m + 1)
  PROVE  SamplesOf(a, s, Steps) = {}
PROOF
<1>1. SamplesOf(a, s, m) = {}
  BY NoneSampled
<1>2. Steps \in m .. Steps
  BY RunLength
<1>3. QED
  BY <1>1, <1>2, AllSampled

-----------------------------------------------------------------------------
(* The rows of a file.                                                     *)

\* The windows of a file that have samples among the first m.
Starts(a, g, m) ==
  {t \in Time : t % Frequency[a] = 0 /\ GroupOf(a, t) = g /\ SamplesOf(a, t, m) # {}}

\* ... and their rows in order.
RowsOf(a, starts, m) ==
  [i \in 1 .. Cardinality(starts) |-> MeanOf(a, InOrder(starts)[i], m)]

LEMMA TimesAre ==
  ASSUME NEW S \in SUBSET Time
  PROVE  /\ S \in SUBSET Nat /\ IsFiniteSet(S) /\ Cardinality(S) \in Nat
         /\ \A i \in 1 .. Cardinality(S) : InOrder(S)[i] \in S /\ InOrder(S)[i] \in Time
PROOF
<1>1. S \in SUBSET Nat /\ IsFiniteSet(S)
  BY TimeIs, FS_Subset
<1>2. Cardinality(S) \in Nat
  BY <1>1, FS_CardinalityType
<1>3. \A i \in 1 .. Cardinality(S) : InOrder(S)[i] \in S
  BY <1>1, RankInOrder
<1>4. QED
  BY <1>1, <1>2, <1>3

LEMMA MeanIs ==
  ASSUME NEW a \in Average, NEW t \in Time, NEW m \in 0 .. Steps
  PROVE  /\ MeanOf(a, t, m) \in Row
         /\ MeanOf(a, t, m) =
              [time |-> t, count |-> Cardinality(SamplesOf(a, t, m)),
               sum |-> [k \in Sample |-> IF k \in SamplesOf(a, t, m) THEN 1 ELSE 0]]
PROOF
<1>1. t \in Nat
  BY TimeIs
<1>2. Cardinality(SamplesOf(a, t, m)) \in Nat
  BY <1>1, SamplesAre
<1> DEFINE n == Cardinality(SamplesOf(a, t, m))
           sum == [k \in Sample |-> IF k \in SamplesOf(a, t, m) THEN 1 ELSE 0]
<1>3. sum \in [Sample -> Nat]
  OBVIOUS
<1>4. MeanOf(a, t, m) = [time |-> t, count |-> n, sum |-> sum]
  BY DEF MeanOf
<1> HIDE DEF n, sum
<1>5. [time |-> t, count |-> n, sum |-> sum] \in Row
  BY <1>2, <1>3 DEF Row, n
<1>6. QED
  BY <1>4, <1>5 DEF n, sum

LEMMA RowsTyped ==
  ASSUME NEW a \in Average, NEW S \in SUBSET Time, NEW m \in 0 .. Steps
  PROVE  /\ RowsOf(a, S, m) \in Seq(Row) /\ Len(RowsOf(a, S, m)) = Cardinality(S)
         /\ Cardinality(S) \in Nat
         /\ \A i \in 1 .. Cardinality(S) :
              RowsOf(a, S, m)[i] = MeanOf(a, InOrder(S)[i], m)
PROOF
<1> DEFINE n == Cardinality(S)
           o == InOrder(S)
           r == RowsOf(a, S, m)
<1>1. n \in Nat /\ \A i \in 1 .. n : o[i] \in Time
  BY TimesAre
<1>2. r = [i \in 1 .. n |-> MeanOf(a, o[i], m)]
  BY DEF RowsOf
<1> HIDE DEF n, o, r
<1>3. \A i \in 1 .. n : MeanOf(a, o[i], m) \in Row
  BY <1>1, MeanIs
<1>4. r \in [1 .. n -> Row]
  BY <1>2, <1>3
<1>5. r \in Seq(Row) /\ Len(r) = n
  BY <1>1, <1>4
<1>6. QED
  BY <1>1, <1>2, <1>5 DEF n, o, r

LEMMA RowsEmpty ==
  ASSUME NEW a \in Average, NEW m \in 0 .. Steps
  PROVE  RowsOf(a, {}, m) = << >>
PROOF
<1>1. Cardinality({}) = 0
  BY FS_EmptySet
<1>2. RowsOf(a, {}, m) \in Seq(Row) /\ Len(RowsOf(a, {}, m)) = 0
  <2>1. {} \in SUBSET Time
    OBVIOUS
  <2>2. QED
    BY <1>1, <2>1, RowsTyped
<1>3. QED
  BY <1>2

\* Rows whose windows have the samples they had are the rows they were.
LEMMA RowsSame ==
  ASSUME NEW a \in Average, NEW S \in SUBSET Time, NEW m \in 0 .. Steps,
         NEW n \in 0 .. Steps, \A t \in S : SamplesOf(a, t, m) = SamplesOf(a, t, n)
  PROVE  RowsOf(a, S, m) = RowsOf(a, S, n)
PROOF
<1>1. \A i \in 1 .. Cardinality(S) : InOrder(S)[i] \in S
  BY TimesAre
<1>2. \A t \in S : MeanOf(a, t, m) = MeanOf(a, t, n)
  BY DEF MeanOf
<1>3. \A i \in 1 .. Cardinality(S) :
        MeanOf(a, InOrder(S)[i], m) = MeanOf(a, InOrder(S)[i], n)
  BY <1>1, <1>2
<1>4. QED
  BY <1>3 DEF RowsOf

\* A later window is the next row.
LEMMA RowsAppend ==
  ASSUME NEW a \in Average, NEW S \in SUBSET Time, NEW t \in Time,
         \A s \in S : s < t, NEW m \in 0 .. Steps
  PROVE  RowsOf(a, S \cup {t}, m) = Append(RowsOf(a, S, m), MeanOf(a, t, m))
PROOF
<1> DEFINE n == Cardinality(S)
           T == S \cup {t}
           r == RowsOf(a, S, m)
           x == MeanOf(a, t, m)
           q == RowsOf(a, T, m)
<1>1. S \in SUBSET Nat /\ IsFiniteSet(S) /\ t \in Nat
  BY TimesAre, TimeIs
<1>2. /\ Cardinality(T) = n + 1 /\ n \in Nat
      /\ \A i \in 1 .. n : InOrder(T)[i] = InOrder(S)[i]
      /\ InOrder(T)[n + 1] = t
  BY <1>1, LastInOrder
<1>3. T \in SUBSET Time
  OBVIOUS
<1>4. /\ r \in Seq(Row) /\ Len(r) = n
      /\ \A i \in 1 .. n : r[i] = MeanOf(a, InOrder(S)[i], m)
  BY RowsTyped
<1>5. /\ q \in Seq(Row) /\ Len(q) = Cardinality(T)
      /\ \A i \in 1 .. Cardinality(T) : q[i] = MeanOf(a, InOrder(T)[i], m)
  BY <1>3, RowsTyped
<1>6. x \in Row
  BY MeanIs
<1> HIDE DEF n, T, r, q
<1>7. Len(q) = n + 1 /\ \A i \in 1 .. n + 1 : q[i] = MeanOf(a, InOrder(T)[i], m)
  BY <1>2, <1>5
<1>8. ASSUME NEW i \in 1 .. n PROVE q[i] = r[i]
  <2>1. i \in 1 .. n + 1
    BY <1>2
  <2>2. q[i] = MeanOf(a, InOrder(T)[i], m)
    BY <1>7, <2>1
  <2>3. QED
    BY <1>2, <1>4, <2>2
<1>9. q[n + 1] = x
  <2>1. n + 1 \in 1 .. n + 1
    BY <1>2
  <2>2. QED
    BY <1>2, <1>7, <2>1
<1> HIDE DEF x
<1>10. Append(r, x) \in Seq(Row) /\ Len(Append(r, x)) = n + 1
       /\ Append(r, x)[n + 1] = x /\ \A i \in 1 .. n : Append(r, x)[i] = r[i]
  BY <1>2, <1>4, <1>6
<1>11. \A i \in 1 .. n + 1 : q[i] = Append(r, x)[i]
  <2>1. \A i \in 1 .. n + 1 : i \in 1 .. n \/ i = n + 1
    BY <1>2
  <2>2. QED
    BY <1>8, <1>9, <1>10, <2>1
<1>12. q = Append(r, x)
  BY <1>5, <1>7, <1>10, <1>11, SeqEqual
<1>13. QED
  BY <1>12 DEF q, T, r, x, n

\* The rows of the windows that come first are a prefix.
LEMMA RowsPrefix ==
  ASSUME NEW a \in Average, NEW S \in SUBSET Time, NEW T \in SUBSET S,
         \A x \in T, y \in S \ T : x < y, NEW m \in 0 .. Steps
  PROVE  IsPrefix(RowsOf(a, T, m), RowsOf(a, S, m))
PROOF
<1> DEFINE n == Cardinality(T)
           k == Cardinality(S)
           r == RowsOf(a, T, m)
           q == RowsOf(a, S, m)
<1>1. S \in SUBSET Nat /\ IsFiniteSet(S) /\ T \in SUBSET Time
  BY TimesAre
<1>2. n \in Nat /\ n <= k /\ \A i \in 1 .. n : InOrder(S)[i] = InOrder(T)[i]
  BY <1>1, FirstInOrder
<1>3. /\ r \in Seq(Row) /\ Len(r) = n
      /\ \A i \in 1 .. n : r[i] = MeanOf(a, InOrder(T)[i], m)
  BY <1>1, RowsTyped
<1>4. /\ q \in Seq(Row) /\ Len(q) = k /\ k \in Nat
      /\ \A i \in 1 .. k : q[i] = MeanOf(a, InOrder(S)[i], m)
  BY RowsTyped
<1> HIDE DEF n, k, r, q
<1>5. \A i \in 1 .. n : q[i] = r[i]
  <2>1. \A i \in 1 .. n : i \in 1 .. k
    BY <1>2, <1>4
  <2>2. QED
    BY <1>2, <1>3, <1>4, <2>1
<1>6. SubSeq(r, 1, n) = SubSeq(q, 1, n)
  <2>1. SubSeq(r, 1, n) = [i \in 1 .. n |-> r[i]] /\ SubSeq(q, 1, n) = [i \in 1 .. n |-> q[i]]
    BY <1>2, <1>3, <1>4
  <2>2. QED
    BY <1>5, <2>1
<1>7. QED
  BY <1>2, <1>3, <1>4, <1>6 DEF IsPrefix, r, q, n, k

LEMMA ExpectedIs ==
  ASSUME NEW a \in Average, NEW g \in Time, NEW m \in 0 .. Steps
  PROVE  Expected(a, g, m) = RowsOf(a, Starts(a, g, m), m)
PROOF
<1> DEFINE S == Starts(a, g, m)
<1>1. S \in SUBSET Time
  BY DEF Starts
<1>2. S \in SUBSET Nat /\ IsFiniteSet(S)
  BY <1>1, TimesAre
<1>3. InOrder(S) \in [1 .. Cardinality(S) -> S]
  BY <1>2, InOrderIs DEF Enumerates
<1>4. Expected(a, g, m) = [i \in DOMAIN InOrder(S) |-> MeanOf(a, InOrder(S)[i], m)]
  BY DEF Expected, Starts
<1> HIDE DEF S
<1>5. QED
  BY <1>3, <1>4 DEF RowsOf, S

-----------------------------------------------------------------------------
(* What the files hold.                                                    *)

\* The windows of a file that begin before t.
Until(a, g, t) == {s \in Starts(a, g, Steps) : s < t}

Rows(c, a, t) == \A g \in Time : c.files[g] = RowsOf(a, Until(a, g, t), Steps)

\* An open file is that of a window that begins at t; when none is open, that
\* window's file has not been begun.
Opened(c, a, t) ==
  /\ c.open = None => c.files[GroupOf(a, t)] = << >>
  /\ c.open # None => c.open = GroupOf(a, t)

FilesAt(c, a, t) == Rows(c, a, t) /\ Opened(c, a, t)

NothingBetween(a, t, u) ==
  \A s \in Time : s % Frequency[a] = 0 /\ t < s /\ s < u => SamplesOf(a, s, Steps) = {}

LEMMA UntilAre ==
  ASSUME NEW a \in Average, NEW g \in Time, NEW t \in Time
  PROVE  /\ Until(a, g, t) \in SUBSET Time /\ \A s \in Until(a, g, t) : s < t
         /\ \A s \in Time : s \in Until(a, g, t) <=>
              /\ s < t /\ s % Frequency[a] = 0 /\ GroupOf(a, s) = g
              /\ SamplesOf(a, s, Steps) # {}
PROOF
BY DEF Until, Starts

LEMMA UntilMoves ==
  ASSUME NEW a \in Average, NEW t \in Time, t % Frequency[a] = 0,
         NEW u \in Time, t < u, NothingBetween(a, t, u), NEW g \in Time
  PROVE  Until(a, g, u) =
           IF GroupOf(a, t) = g /\ SamplesOf(a, t, Steps) # {}
           THEN Until(a, g, t) \cup {t} ELSE Until(a, g, t)
PROOF
<1>1. \A s \in Time : s \in Until(a, g, u) <=>
        /\ s < u /\ s % Frequency[a] = 0 /\ GroupOf(a, s) = g
        /\ SamplesOf(a, s, Steps) # {}
  BY UntilAre
<1>2. \A s \in Time : s \in Until(a, g, t) <=>
        /\ s < t /\ s % Frequency[a] = 0 /\ GroupOf(a, s) = g
        /\ SamplesOf(a, s, Steps) # {}
  BY UntilAre
<1>3. Until(a, g, u) \in SUBSET Time /\ Until(a, g, t) \in SUBSET Time
  BY UntilAre
<1>4. ASSUME NEW s \in Time, s \in Until(a, g, u), s # t PROVE s \in Until(a, g, t)
  <2>1. s < u /\ s % Frequency[a] = 0 /\ GroupOf(a, s) = g
        /\ SamplesOf(a, s, Steps) # {}
    BY <1>1, <1>4
  <2>2. ~ (t < s)
    BY <2>1 DEF NothingBetween
  <2>3. s \in Nat /\ t \in Nat
    BY TimeIs
  <2>4. s < t
    BY <1>4, <2>2, <2>3
  <2>5. QED
    BY <1>2, <2>1, <2>4
<1>5. ASSUME NEW s \in Time, s \in Until(a, g, t) PROVE s \in Until(a, g, u)
  <2>1. s < t
    BY <1>2, <1>5
  <2>2. s \in Nat /\ t \in Nat /\ u \in Nat
    BY TimeIs
  <2>3. s < u
    BY <2>1, <2>2
  <2>4. QED
    BY <1>1, <1>2, <1>5, <2>3
<1>6. t \in Until(a, g, u) <=> GroupOf(a, t) = g /\ SamplesOf(a, t, Steps) # {}
  BY <1>1
<1>7. t \notin Until(a, g, t)
  <2>1. ~ (t < t)
    BY TimeIs
  <2>2. QED
    BY <1>2, <2>1
<1>8. QED
  BY <1>3, <1>4, <1>5, <1>6, <1>7

\* A new file has no window before.
LEMMA NewFile ==
  ASSUME NEW a \in Average, NEW t \in Time, NEW u \in Time, t < u,
         NothingBetween(a, t, u), GroupOf(a, u) # GroupOf(a, t)
  PROVE  Until(a, GroupOf(a, u), u) = {}
PROOF
<1> SUFFICES ASSUME NEW s \in Until(a, GroupOf(a, u), u) PROVE FALSE
  OBVIOUS
<1>1. GroupOf(a, u) \in Time
  BY GroupIs
<1>2. s \in Time
  BY <1>1, UntilAre
<1>3. s < u /\ s % Frequency[a] = 0 /\ GroupOf(a, s) = GroupOf(a, u)
      /\ SamplesOf(a, s, Steps) # {}
  BY <1>1, <1>2, UntilAre
<1>4. ~ (t < s)
  BY <1>2, <1>3 DEF NothingBetween
<1>5. s \in Nat /\ t \in Nat /\ u \in Nat
  BY <1>2, TimeIs
<1>6. s <= t /\ t <= u
  BY <1>4, <1>5
<1>7. GroupOf(a, s) <= GroupOf(a, t) /\ GroupOf(a, t) <= GroupOf(a, u)
  BY <1>2, <1>6, GroupIs
<1>8. GroupOf(a, s) \in Nat /\ GroupOf(a, t) \in Nat
  BY <1>2, GroupIs
<1>9. QED
  BY <1>3, <1>7, <1>8

\* The row of the window that begins at t goes to the end of its file.
LEMMA RowWritten ==
  ASSUME NEW a \in Average, NEW t \in Time, NEW c \in AverageRecord,
         Opened(c, a, t), NEW row \in Row
  PROVE  LET w == WithRow(c, GroupOf(a, t), row)
         IN  /\ w.open = GroupOf(a, t) /\ GroupOf(a, t) \in Time
             /\ w.files[GroupOf(a, t)] = Append(c.files[GroupOf(a, t)], row)
             /\ \A g \in Time : g # GroupOf(a, t) => w.files[g] = c.files[g]
PROOF
<1> DEFINE g == GroupOf(a, t)
           w == WithRow(c, g, row)
<1>1. g \in Time
  BY GroupIs
<1>2. Target(c, g) = g
  BY DEF Target, Opened
<1> HIDE DEF g
<1>3. /\ w.open = g
      /\ w.files[g] = IF c.open = None THEN << row >> ELSE Append(c.files[g], row)
      /\ \A f \in Time \ {g} : w.files[f] = c.files[f]
  BY <1>1, <1>2, WithRowIs
<1>4. c.open = None => c.files[g] = << >>
  BY DEF Opened, g
<1>5. Append(<< >>, row) = << row >>
  OBVIOUS
<1>6. w.files[g] = Append(c.files[g], row)
  BY <1>3, <1>4, <1>5
<1>7. QED
  BY <1>1, <1>3, <1>6 DEF g

\* From the window at t to that at u, the one at t written, ...
LEMMA MovedWithRow ==
  ASSUME NEW a \in Average, NEW t \in Time, t % Frequency[a] = 0,
         NEW u \in Time, t < u, NothingBetween(a, t, u),
         NEW c \in AverageRecord, FilesAt(c, a, t),
         SamplesOf(a, t, Steps) # {}, NEW w,
         w.files = WithRow(c, GroupOf(a, t), MeanOf(a, t, Steps)).files,
         w.open = IF GroupOf(a, u) = GroupOf(a, t)
                  THEN WithRow(c, GroupOf(a, t), MeanOf(a, t, Steps)).open ELSE None
  PROVE  FilesAt(w, a, u)
PROOF
<1> DEFINE h == GroupOf(a, t)
           row == MeanOf(a, t, Steps)
           p == WithRow(c, h, row)
<1>1. row \in Row /\ Steps \in 0 .. Steps
  BY MeanIs, RunLength
<1>2. /\ p.open = h /\ h \in Time /\ p.files[h] = Append(c.files[h], row)
      /\ \A g \in Time : g # h => p.files[g] = c.files[g]
  BY <1>1, RowWritten DEF FilesAt
<1>3. w.files = p.files /\ w.open = IF GroupOf(a, u) = h THEN p.open ELSE None
  OBVIOUS
<1> HIDE DEF p, row
<1>4. Rows(w, a, u)
  <2>1. ASSUME NEW g \in Time PROVE w.files[g] = RowsOf(a, Until(a, g, u), Steps)
    <3>1. c.files[g] = RowsOf(a, Until(a, g, t), Steps)
      BY DEF FilesAt, Rows
    <3>2. CASE g = h
      <4>1. Until(a, g, u) = Until(a, g, t) \cup {t}
        BY <3>2, UntilMoves
      <4>2. Until(a, g, t) \in SUBSET Time /\ \A s \in Until(a, g, t) : s < t
        BY UntilAre
      <4>3. RowsOf(a, Until(a, g, t) \cup {t}, Steps) =
              Append(RowsOf(a, Until(a, g, t), Steps), row)
        BY <1>1, <4>2, RowsAppend DEF row
      <4>4. QED
        BY <1>2, <1>3, <3>1, <3>2, <4>1, <4>3
    <3>3. CASE g # h
      <4>1. Until(a, g, u) = Until(a, g, t)
        BY <3>3, UntilMoves
      <4>2. QED
        BY <1>2, <1>3, <3>1, <3>3, <4>1
    <3>4. QED
      BY <3>2, <3>3
  <2>2. QED
    BY <2>1 DEF Rows
<1>5. Opened(w, a, u)
  <2>1. CASE GroupOf(a, u) = h
    <3>1. h # None
      BY <1>2, TimeIs DEF None
    <3>2. QED
      BY <1>2, <1>3, <2>1, <3>1 DEF Opened
  <2>2. CASE GroupOf(a, u) # h
    <3>1. Until(a, GroupOf(a, u), u) = {}
      BY <2>2, NewFile
    <3>2. w.files[GroupOf(a, u)] = << >>
      BY <1>1, <1>4, <3>1, GroupIs, RowsEmpty DEF Rows
    <3>3. QED
      BY <1>3, <2>2, <3>2 DEF Opened
  <2>3. QED
    BY <2>1, <2>2
<1>6. QED
  BY <1>4, <1>5 DEF FilesAt

\* ... and when there is nothing to write.
LEMMA MovedWithout ==
  ASSUME NEW a \in Average, NEW t \in Time, t % Frequency[a] = 0,
         NEW u \in Time, t < u, NothingBetween(a, t, u),
         NEW c, FilesAt(c, a, t), SamplesOf(a, t, Steps) = {}, NEW w,
         w.files = c.files,
         w.open = IF GroupOf(a, u) = GroupOf(a, t) THEN c.open ELSE None
  PROVE  FilesAt(w, a, u)
PROOF
<1>1. \A g \in Time : Until(a, g, u) = Until(a, g, t)
  BY UntilMoves
<1>2. Rows(w, a, u)
  BY <1>1 DEF FilesAt, Rows
<1>3. Opened(w, a, u)
  <2>1. CASE GroupOf(a, u) = GroupOf(a, t)
    BY <2>1 DEF Opened, FilesAt
  <2>2. CASE GroupOf(a, u) # GroupOf(a, t)
    <3>1. Until(a, GroupOf(a, u), u) = {}
      BY <2>2, NewFile
    <3>2. Steps \in 0 .. Steps
      BY RunLength
    <3>3. w.files[GroupOf(a, u)] = << >>
      BY <1>2, <3>1, <3>2, GroupIs, RowsEmpty DEF Rows
    <3>4. QED
      BY <2>2, <3>3 DEF Opened
  <2>3. QED
    BY <2>1, <2>2
<1>4. QED
  BY <1>2, <1>3 DEF FilesAt

-----------------------------------------------------------------------------
(* Files grow.                                                             *)

Grows(c, w) == \A g \in Time : IsPrefix(c.files[g], w.files[g])

LEMMA PrefixFacts ==
  ASSUME NEW s \in Seq(Row)
  PROVE  /\ IsPrefix(s, s)
         /\ \A x \in Row : IsPrefix(s, Append(s, x))
         /\ \A t, u \in Seq(Row) : IsPrefix(s, t) /\ IsPrefix(t, u) => IsPrefix(s, u)
PROOF
<1>1. Len(s) \in Nat /\ IsPrefix(s, s)
  BY DEF IsPrefix
<1>2. ASSUME NEW x \in Row PROVE IsPrefix(s, Append(s, x))
  <2> DEFINE t == Append(s, x)
             n == Len(s)
  <2>1. t \in Seq(Row) /\ Len(t) = n + 1 /\ \A i \in 1 .. n : t[i] = s[i]
    OBVIOUS
  <2> HIDE DEF t
  <2>2. SubSeq(t, 1, n) = [i \in 1 .. n |-> t[i]] /\ SubSeq(s, 1, n) = [i \in 1 .. n |-> s[i]]
    BY <2>1
  <2>3. SubSeq(t, 1, n) = SubSeq(s, 1, n)
    BY <2>1, <2>2
  <2>4. QED
    BY <1>1, <2>1, <2>3 DEF IsPrefix, t
<1>3. ASSUME NEW t \in Seq(Row), NEW u \in Seq(Row), IsPrefix(s, t), IsPrefix(t, u)
      PROVE  IsPrefix(s, u)
  <2> DEFINE n == Len(s)
             m == Len(t)
             k == Len(u)
  <2>1. n \in Nat /\ m \in Nat /\ k \in Nat /\ n <= m /\ m <= k
    BY <1>3 DEF IsPrefix
  <2>2. SubSeq(s, 1, n) = [i \in 1 .. n |-> s[i]] /\ SubSeq(t, 1, n) = [i \in 1 .. n |-> t[i]]
        /\ SubSeq(t, 1, m) = [i \in 1 .. m |-> t[i]]
        /\ SubSeq(u, 1, m) = [i \in 1 .. m |-> u[i]]
        /\ SubSeq(u, 1, n) = [i \in 1 .. n |-> u[i]]
    BY <2>1
  <2>3. SubSeq(s, 1, n) = SubSeq(t, 1, n) /\ SubSeq(t, 1, m) = SubSeq(u, 1, m)
    BY <1>3 DEF IsPrefix
  <2> HIDE DEF n, m, k
  <2>4. \A i \in 1 .. n : i \in 1 .. m
    BY <2>1
  <2>5. \A i \in 1 .. m : t[i] = u[i]
    BY ZenonT(60), <2>2, <2>3
  <2>6. SubSeq(t, 1, n) = SubSeq(u, 1, n)
    BY <2>2, <2>4, <2>5
  <2>7. QED
    BY <2>1, <2>3, <2>6 DEF IsPrefix, n, k
<1>4. QED
  BY <1>1, <1>2, <1>3

LEMMA GrowsSame ==
  ASSUME NEW c \in AverageRecord, NEW w, w.files = c.files
  PROVE  Grows(c, w)
PROOF
<1>1. \A g \in Time : c.files[g] \in Seq(Row)
  BY DEF AverageRecord
<1>2. QED
  BY <1>1, PrefixFacts DEF Grows

LEMMA GrowsOn ==
  ASSUME NEW c \in AverageRecord, NEW p \in AverageRecord, NEW w \in AverageRecord,
         Grows(c, p), Grows(p, w)
  PROVE  Grows(c, w)
PROOF
<1> SUFFICES ASSUME NEW g \in Time PROVE IsPrefix(c.files[g], w.files[g])
  BY DEF Grows
<1>1. c.files[g] \in Seq(Row) /\ p.files[g] \in Seq(Row) /\ w.files[g] \in Seq(Row)
  BY DEF AverageRecord
<1>2. IsPrefix(c.files[g], p.files[g]) /\ IsPrefix(p.files[g], w.files[g])
  BY DEF Grows
<1>3. QED
  BY <1>1, <1>2, PrefixFacts

LEMMA RowGrows ==
  ASSUME NEW a \in Average, NEW t \in Time, NEW c \in AverageRecord,
         Opened(c, a, t), NEW row \in Row, NEW w,
         w.files = WithRow(c, GroupOf(a, t), row).files
  PROVE  Grows(c, w)
PROOF
<1> DEFINE h == GroupOf(a, t)
<1>1. w.files[h] = Append(c.files[h], row)
      /\ \A g \in Time : g # h => w.files[g] = c.files[g]
  BY RowWritten
<1>2. \A g \in Time : c.files[g] \in Seq(Row)
  BY DEF AverageRecord
<1> HIDE DEF h
<1> SUFFICES ASSUME NEW g \in Time PROVE IsPrefix(c.files[g], w.files[g])
  BY DEF Grows
<1>3. c.files[g] \in Seq(Row)
  BY <1>2
<1>4. IsPrefix(c.files[g], c.files[g]) /\ IsPrefix(c.files[g], Append(c.files[g], row))
  BY <1>3, PrefixFacts
<1>5. QED
  BY <1>1, <1>4

LEMMA AppendedGrows ==
  ASSUME NEW a \in Average, NEW c \in AverageRecord, OnSchedule(c, a),
         Opened(c, a, c.start), NEW w, w.files = Appended(c).files
  PROVE  Grows(c, w)
PROOF
<1>1. c.start \in Time /\ c.group = GroupOf(a, c.start) /\ CurrentRow(c) \in Row
  BY OnScheduleIs
<1>2. CASE c.count = 0
  BY <1>2, AppendedIs, GrowsSame
<1>3. CASE c.count # 0
  <2>1. w.files = WithRow(c, GroupOf(a, c.start), CurrentRow(c)).files
    BY <1>1, <1>3, AppendedIs
  <2>2. QED
    BY <1>1, <2>1, RowGrows
<1>4. QED
  BY <1>2, <1>3

-----------------------------------------------------------------------------
(* The running window.                                                     *)

Marks(S) == [j \in Sample |-> IF j \in S THEN 1 ELSE 0]

\* The sums hold the first k steps of the window, the count the first n.
Window(c, a, k, n) ==
  /\ OnSchedule(c, a)
  /\ c.sum = Marks(SamplesOf(a, c.start, k))
  /\ c.count = Cardinality(SamplesOf(a, c.start, n))

\* Between two steps, m of which are complete.
Idle(c, a, m) ==
  \/ m = 0 /\ Unscheduled(c) /\ c.open = None
  \/ Window(c, a, m, m) /\ c.start <= StepEnd(m) /\ StepEnd(m) < c.end

\* Step k is in the sums and not complete.
Busy(c, a, k) ==
  Window(c, a, k, k - 1) /\ c.start < StepEnd(k) /\ StepEnd(k) <= c.end

\* Step k has been abandoned, counted or not.
Abandoned(c, a, k) ==
  /\ \/ Window(c, a, k, k)
     \/ Window(c, a, k, k - 1) /\ c.start < StepEnd(k)
  /\ c.start <= StepEnd(k) /\ StepEnd(k) <= c.end

Begins(c) == IF c.end = None THEN 0 ELSE c.start

\* The window before the running one, as it was detached.
Previous(c, a) == c.start - Frequency[a]

DetachedRow(c, a) ==
  [owner |-> a, group |-> GroupOf(a, Previous(c, a)),
   row |-> MeanOf(a, Previous(c, a), Steps),
   close |-> c.group # GroupOf(a, Previous(c, a))]

\* Every window before the running one is in its file or, for the last of
\* them, detached.
Outputs(c, a, d) ==
  \/ d = << >> /\ FilesAt(c, a, Begins(c))
  \/ /\ OnSchedule(c, a) /\ Previous(c, a) \in Time
     /\ SamplesOf(a, Previous(c, a), Steps) # {}
     /\ d = << DetachedRow(c, a) >> /\ FilesAt(c, a, Previous(c, a))

LEMMA FilesSame ==
  ASSUME NEW a \in Average, NEW t, NEW c, NEW w, SameFiles(w, c), FilesAt(c, a, t)
  PROVE  FilesAt(w, a, t)
PROOF
BY DEF FilesAt, Rows, Opened, SameFiles

LEMMA OutputsSame ==
  ASSUME NEW a \in Average, NEW c \in AverageRecord, NEW w \in AverageRecord,
         NEW d, SameFiles(w, c), SameWindow(w, c), Outputs(c, a, d)
  PROVE  Outputs(w, a, d)
PROOF
<1>1. Begins(w) = Begins(c) /\ Previous(w, a) = Previous(c, a)
      /\ DetachedRow(w, a) = DetachedRow(c, a)
  BY DEF SameWindow, Begins, Previous, DetachedRow
<1>2. CASE d = << >> /\ FilesAt(c, a, Begins(c))
  <2>1. FilesAt(w, a, Begins(w))
    BY <1>1, <1>2, FilesSame
  <2>2. QED
    BY <1>2, <2>1 DEF Outputs
<1>3. CASE /\ OnSchedule(c, a) /\ Previous(c, a) \in Time
           /\ SamplesOf(a, Previous(c, a), Steps) # {}
           /\ d = << DetachedRow(c, a) >> /\ FilesAt(c, a, Previous(c, a))
  <2>1. FilesAt(w, a, Previous(w, a))
    BY <1>1, <1>3, FilesSame
  <2>2. OnSchedule(w, a)
    BY <1>3, SameWindowOn
  <2>3. QED
    BY <1>1, <1>3, <2>1, <2>2 DEF Outputs
<1>4. QED
  BY <1>2, <1>3 DEF Outputs

\* An open window has no outputs detached but those before it.
LEMMA OutputsAt ==
  ASSUME NEW a \in Average, NEW c \in AverageRecord, OnSchedule(c, a)
  PROVE  /\ Outputs(c, a, << >>) => FilesAt(c, a, c.start)
         /\ FilesAt(c, a, c.start) => Outputs(c, a, << >>)
PROOF
<1>1. Begins(c) = c.start
  BY OnScheduleIs DEF Begins
<1>2. QED
  BY <1>1 DEF Outputs

\* A row of the running window that has all of its samples.
LEMMA CurrentRowIs ==
  ASSUME NEW a \in Average, NEW c \in AverageRecord, NEW m \in 0 .. Steps,
         Window(c, a, m, m)
  PROVE  /\ CurrentRow(c) = MeanOf(a, c.start, m)
         /\ c.count = 0 <=> SamplesOf(a, c.start, m) = {}
PROOF
<1>1. c.start \in Time /\ c.start \in Nat
  BY OnScheduleIs DEF Window
<1>2. CurrentRow(c) = MeanOf(a, c.start, m)
  BY <1>1, MeanIs DEF Window, CurrentRow, Marks
<1>3. c.count = 0 <=> SamplesOf(a, c.start, m) = {}
  BY <1>1, SamplesAre DEF Window
<1>4. QED
  BY <1>2, <1>3

LEMMA FinishedFiles ==
  ASSUME NEW a \in Average, NEW c \in AverageRecord, NEW m \in 0 .. Steps,
         Window(c, a, m, m), FilesAt(c, a, c.start),
         SamplesOf(a, c.start, m) = SamplesOf(a, c.start, Steps),
         NEW e \in Nat, e % Frequency[a] = 0, e - Frequency[a] \in Time,
         (e - Frequency[a]) % Frequency[a] = 0, c.start < e - Frequency[a],
         NothingBetween(a, c.start, e - Frequency[a])
  PROVE  FilesAt(FinishedTo(c, a, e), a, e - Frequency[a])
PROOF
<1> DEFINE w == FinishedTo(c, a, e)
           p == Appended(c)
           u == e - Frequency[a]
           t == c.start
<1>1. t \in Time /\ t % Frequency[a] = 0 /\ c.group = GroupOf(a, t) /\ OnSchedule(c, a)
  BY OnScheduleIs DEF Window
<1>2. /\ w.files = p.files /\ w.group = GroupOf(a, u)
      /\ w.open = IF w.group = c.group THEN p.open ELSE None
  BY <1>1, FinishedIs DEF OnSchedule
<1>3. /\ c.count = 0 => p = c
      /\ c.count # 0 => p = WithRow(c, GroupOf(a, t), CurrentRow(c))
  BY <1>1, AppendedIs
<1>4. CurrentRow(c) = MeanOf(a, t, Steps)
      /\ (c.count = 0 <=> SamplesOf(a, t, Steps) = {})
  <2>1. MeanOf(a, t, m) = MeanOf(a, t, Steps)
    BY DEF MeanOf
  <2>2. QED
    BY <2>1, CurrentRowIs
<1>5. u \in Time /\ t < u /\ NothingBetween(a, t, u) /\ FilesAt(c, a, t)
  OBVIOUS
<1> HIDE DEF w, p, u, t
<1>6. CASE c.count = 0
  <2>1. w.files = c.files /\ w.open = IF GroupOf(a, u) = GroupOf(a, t) THEN c.open ELSE None
    BY <1>1, <1>2, <1>3, <1>6
  <2>2. FilesAt(w, a, u)
    BY <1>1, <1>4, <1>5, <1>6, <2>1, MovedWithout
  <2>3. QED
    BY <2>2 DEF w, u
<1>7. CASE c.count # 0
  <2>1. p = WithRow(c, GroupOf(a, t), MeanOf(a, t, Steps))
    BY <1>3, <1>4, <1>7
  <2>2. w.files = p.files /\ w.open = IF GroupOf(a, u) = GroupOf(a, t) THEN p.open ELSE None
    BY <1>1, <1>2
  <2>3. FilesAt(w, a, u)
    BY <1>1, <1>4, <1>5, <1>7, <2>1, <2>2, MovedWithRow
  <2>4. QED
    BY <2>3 DEF w, u
<1>8. QED
  BY <1>6, <1>7

LEMMA MarksNone == Marks({}) = NoSum
PROOF
BY DEF Marks, NoSum

\* Between a window that begins at t, a multiple, and the next: nothing.
LEMMA NothingInside ==
  ASSUME NEW a \in Average, NEW c \in AverageRecord, OnSchedule(c, a)
  PROVE  NothingBetween(a, c.start, c.end)
PROOF
<1> SUFFICES ASSUME NEW s \in Time, s % Frequency[a] = 0, c.start < s, s < c.end
             PROVE  FALSE
  BY DEF NothingBetween
<1>1. s \in Nat /\ Frequency[a] \in Nat \ {0} /\ c.start \in Nat
      /\ c.start % Frequency[a] = 0 /\ c.end = c.start + Frequency[a]
  BY TimeIs, Intervals, OnScheduleIs
<1>2. c.start + Frequency[a] <= s
  BY <1>1, Multiples
<1>3. QED
  BY <1>1, <1>2

\* A window that holds the times up to that of step m + 1 on holds the step.
LEMMA PreparedWindow ==
  ASSUME NEW a \in Average, NEW c, AverageTyped(c, a), NEW m \in 0 .. Steps - 1,
         Idle(c, a, m), NEW d, Outputs(c, a, d),
         d = << >> \/ Frequency[a] % StepTicks = 0
  PROVE  LET p == PreparedFor(c, a, StepEnd(m + 1))
         IN  /\ p \in AverageRecord /\ Window(p, a, m, m)
             /\ p.start < StepEnd(m + 1) /\ StepEnd(m + 1) <= p.end
             /\ Outputs(p, a, d) /\ Grows(c, p)
PROOF
<1> DEFINE k == m + 1
           t == StepEnd(k)
           s == StepEnd(m)
           p == PreparedFor(c, a, t)
<1>1. m \in Nat /\ k \in Nat /\ m \in 0 .. Steps /\ k \in 0 .. Steps /\ c \in AverageRecord
  BY RunLength DEF AverageTyped
<1>2. t \in Nat /\ s \in Nat /\ s < t /\ t \in Time /\ t > 0
  BY <1>1, StepTimes, TimeIs
<1>3. /\ p \in AverageRecord /\ OnSchedule(p, a)
      /\ Unscheduled(c) => p = Scheduled(c, a, t)
      /\ OnSchedule(c, a) /\ t <= c.end => p = c
      /\ OnSchedule(c, a) /\ c.end < t => p = FinishedTo(c, a, WindowEnd(a, t))
  BY <1>2, PreparedIs
<1> HIDE DEF p
<1>4. Frequency[a] \in Nat \ {0}
  BY Intervals
<1>5. ASSUME NEW u \in Time, NEW v \in Time, v % Frequency[a] = 0,
             v < t, s < u + Frequency[a], u % Frequency[a] = 0
      PROVE  NothingBetween(a, u, v)
  <2> SUFFICES ASSUME NEW x \in Time, x % Frequency[a] = 0, u < x, x < v
               PROVE  SamplesOf(a, x, Steps) = {}
    BY DEF NothingBetween
  <2>1. x \in Nat /\ u \in Nat /\ v \in Nat
    BY TimeIs
  <2>2. u + Frequency[a] <= x
    BY <1>4, <1>5, <2>1, Multiples
  <2>3. x + Frequency[a] <= v
    BY <1>4, <1>5, <2>1, Multiples
  <2>4. s <= x /\ x + Frequency[a] < t
    BY <1>2, <1>4, <1>5, <2>1, <2>2, <2>3
  <2>5. QED
    BY <1>1, <2>1, <2>4, SkippedWindow
<1>6. CASE m = 0 /\ Unscheduled(c) /\ c.open = None
  <2>1. /\ SameFiles(p, c) /\ p.count = 0 /\ p.sum = NoSum
        /\ p.start < t /\ t <= p.end
    BY <1>2, <1>3, <1>6, ScheduledIs DEF Unscheduled
  <2>2. p.start \in Nat /\ p.start \in Time /\ p.start % Frequency[a] = 0
        /\ p.end = p.start + Frequency[a]
    BY <1>3, OnScheduleIs
  <2>3. s = 0
    BY <1>6, RunLength
  <2>4. SamplesOf(a, p.start, m) = {}
    BY <1>1, <2>2, <2>3, NoneSampled
  <2>5. Window(p, a, m, m)
    BY <1>3, <2>1, <2>4, MarksNone, FS_EmptySet DEF Window
  <2>6. ~ OnSchedule(c, a) /\ Begins(c) = 0
    BY <1>1, <1>6, OnScheduleIs DEF Unscheduled, Begins
  <2>7. d = << >> /\ FilesAt(c, a, 0)
    BY <2>6 DEF Outputs
  <2>8. FilesAt(p, a, p.start)
    <3>1. CASE p.start = 0
      BY <2>1, <2>7, <3>1, FilesSame
    <3>2. CASE p.start # 0
      <4>1. 0 \in Time /\ 0 < p.start /\ 0 % Frequency[a] = 0
        BY <1>4, <2>2, <3>2, TimeIs
      <4>2. 0 + Frequency[a] <= p.start
        BY <1>4, <2>2, <4>1, Multiples
      <4>3. 0 + Frequency[a] < t
        BY <1>2, <1>4, <2>1, <2>2, <4>2
      <4>4. SamplesOf(a, 0, Steps) = {}
        <5>1. 0 \in Nat /\ StepEnd(m) <= 0
          BY <2>3
        <5>2. QED
          BY <1>1, <4>3, <5>1, SkippedWindow
      <4>5. NothingBetween(a, 0, p.start)
        <5>1. s < 0 + Frequency[a]
          BY <1>4, <2>3
        <5>2. QED
          BY <1>5, <2>1, <2>2, <4>1, <5>1
      <4>6. p.files = c.files /\ p.open = None
        BY <1>6, <2>1 DEF SameFiles
      <4>7. p.open = IF GroupOf(a, p.start) = GroupOf(a, 0) THEN c.open ELSE None
        BY <1>6, <4>6
      <4>8. QED
        BY <2>2, <2>7, <4>1, <4>4, <4>5, <4>6, <4>7, MovedWithout
    <3>3. QED
      BY <3>1, <3>2
  <2>9. Outputs(p, a, d)
    BY <1>3, <2>7, <2>8, OutputsAt
  <2>10. Grows(c, p)
    BY <1>1, <2>1, GrowsSame DEF SameFiles
  <2>11. QED
    BY <1>3, <2>1, <2>5, <2>9, <2>10 DEF p
<1>7. CASE Window(c, a, m, m) /\ c.start <= s /\ s < c.end
  <2>1. /\ c.start \in Time /\ c.start \in Nat /\ c.start % Frequency[a] = 0
        /\ c.end \in Nat /\ c.end % Frequency[a] = 0
        /\ c.end = c.start + Frequency[a] /\ OnSchedule(c, a)
    BY <1>1, <1>7, OnScheduleIs DEF Window
  <2>2. CASE t <= c.end
    <3>1. p = c /\ c.start < t
      BY <1>2, <1>3, <1>7, <2>1, <2>2
    <3>2. Grows(c, p)
      BY <1>1, <3>1, GrowsSame
    <3>3. QED
      BY <1>1, <1>7, <2>2, <3>1, <3>2 DEF p
  <2>3. CASE c.end < t
    <3> DEFINE e == WindowEnd(a, t)
               u == e - Frequency[a]
    <3>1. d = << >>
      <4>1. ASSUME Frequency[a] % StepTicks = 0 PROVE FALSE
        <5>1. StepTicks \in Nat \ {0}
          BY RunLength
        <5>2. PICK f \in Nat : Frequency[a] = f * StepTicks
          BY <1>4, <4>1, <5>1, MultipleIs
        <5>3. PICK q \in Nat : c.end = q * Frequency[a]
          BY <1>4, <2>1, MultipleIs
        <5>4. c.end = (q * f) * StepTicks /\ q * f \in Nat
          BY <5>1, <5>2, <5>3
        <5>5. c.end = StepEnd(q * f)
          BY <5>4 DEF StepEnd
        <5>6. m < q * f /\ q * f < k
          BY <1>1, <1>7, <2>3, <5>4, <5>5, StepTimes
        <5>7. QED
          BY <1>1, <5>4, <5>6
      <4>2. QED
        BY <4>1
    <3>2. FilesAt(c, a, c.start)
      BY <1>1, <2>1, <3>1, OutputsAt
    <3>3. /\ e \in Nat /\ e % Frequency[a] = 0 /\ t <= e
          /\ u \in Time /\ u % Frequency[a] = 0 /\ u < t
      BY <1>2, WindowEndIs
    <3>4. p = FinishedTo(c, a, e)
      BY <1>3, <2>1, <2>3
    <3> HIDE DEF e
    <3>5. p.start = u /\ p.end = e /\ p.count = 0 /\ p.sum = NoSum
      BY <1>1, <2>1, <3>3, <3>4, FinishedIs
    <3>6. c.end <= u
      <4>1. c.end < e
        BY <1>2, <2>1, <2>3, <3>3
      <4>2. c.end + Frequency[a] <= e
        BY <1>4, <2>1, <3>3, <4>1, Multiples
      <4>3. QED
        BY <1>4, <2>1, <3>3, <4>2
    <3>7. u \in Nat /\ s <= u /\ c.start < u
      <4>1. u \in Nat
        BY <3>3, TimeIs
      <4> HIDE DEF u, s, t
      <4>2. QED
        BY <1>2, <1>4, <1>7, <2>1, <3>6, <4>1
    <3>8. SamplesOf(a, u, m) = {}
      BY <1>1, <3>7, NoneSampled
    <3>9. Window(p, a, m, m)
      BY <1>3, <3>5, <3>8, MarksNone, FS_EmptySet DEF Window
    <3>10. SamplesOf(a, c.start, m) = SamplesOf(a, c.start, Steps)
      <4>1. Steps \in m .. Steps
        BY RunLength
      <4>2. QED
        BY <1>1, <2>1, <2>3, <4>1, AllSampled
    <3>11. NothingBetween(a, c.start, u)
      BY <1>5, <1>7, <2>1, <3>3
    <3>12. FilesAt(p, a, u)
      BY <1>1, <1>7, <3>2, <3>3, <3>4, <3>7, <3>10, <3>11, FinishedFiles
    <3>13. Outputs(p, a, d)
      BY <1>3, <3>1, <3>5, <3>12, OutputsAt
    <3>14. Grows(c, p)
      <4>1. p.files = Appended(c).files
        BY <1>1, <2>1, <3>3, <3>4, FinishedIs
      <4>2. QED
        BY <1>1, <2>1, <3>2, <4>1, AppendedGrows DEF FilesAt
    <3>15. QED
      BY <1>3, <3>3, <3>5, <3>9, <3>13, <3>14 DEF p, e
  <2>4. QED
    BY <1>2, <2>1, <2>2, <2>3
<1>8. QED
  BY <1>6, <1>7 DEF Idle

LEMMA StepPrepared ==
  ASSUME NEW a \in Average, NEW c, AverageTyped(c, a), NEW m \in 0 .. Steps - 1,
         Idle(c, a, m), NEW d, Outputs(c, a, d),
         d = << >> \/ Frequency[a] % StepTicks = 0
  PROVE  LET w == Accumulated(PreparedFor(c, a, StepEnd(m + 1)), m + 1)
         IN  w \in AverageRecord /\ Busy(w, a, m + 1) /\ Outputs(w, a, d)
             /\ Grows(c, w)
PROOF
<1> DEFINE k == m + 1
           p == PreparedFor(c, a, StepEnd(k))
           w == Accumulated(p, k)
<1>1. m \in Nat /\ k \in Sample /\ k - 1 = m /\ m \in 0 .. Steps
  BY RunLength DEF Sample
<1>2. /\ p \in AverageRecord /\ Window(p, a, m, m)
      /\ p.start < StepEnd(k) /\ StepEnd(k) <= p.end /\ Outputs(p, a, d)
      /\ Grows(c, p)
  BY PreparedWindow
<1> HIDE DEF p
<1>3. /\ w \in AverageRecord /\ w.count = p.count
      /\ w.sum = [j \in Sample |-> IF j = k THEN p.sum[j] + 1 ELSE p.sum[j]]
      /\ SameFiles(w, p) /\ SameWindow(w, p)
  BY <1>1, <1>2, AccumulatedIs
<1> HIDE DEF w
<1>4. OnSchedule(p, a) /\ OnSchedule(w, a) /\ Outputs(w, a, d)
  BY <1>2, <1>3, SameWindowOn, OutputsSame DEF Window
<1>5. p.start \in Nat /\ p.end = p.start + Frequency[a] /\ w.start = p.start
      /\ w.end = p.end
  BY <1>2, <1>3, <1>4, OnScheduleIs DEF SameWindow
<1>6. InWindow(a, p.start, k)
  BY <1>2, <1>5 DEF InWindow
<1>7. SamplesOf(a, p.start, k) = SamplesOf(a, p.start, m) \cup {k}
      /\ k \notin SamplesOf(a, p.start, m)
  BY <1>5, <1>6, NextSample
<1>8. w.sum = Marks(SamplesOf(a, w.start, k))
  <2>1. p.sum = Marks(SamplesOf(a, p.start, m))
    BY <1>2 DEF Window
  <2>2. QED
    BY <1>3, <1>5, <1>7, <2>1 DEF Marks
<1>9. w.count = Cardinality(SamplesOf(a, w.start, m))
  BY <1>2, <1>3, <1>5 DEF Window
<1>10. Busy(w, a, k)
  BY <1>1, <1>2, <1>4, <1>5, <1>8, <1>9 DEF Busy, Window
<1>11. Grows(c, w)
  BY <1>2, <1>3 DEF Grows, SameFiles
<1>12. QED
  BY <1>3, <1>4, <1>10, <1>11 DEF w, p

\* The count catches up with the sums.
LEMMA StepCounted ==
  ASSUME NEW a \in Average, NEW c \in AverageRecord, NEW k \in Sample,
         Busy(c, a, k), NEW n \in AverageRecord, SameWindow(n, c),
         n.count = c.count + 1, n.sum = c.sum
  PROVE  Window(n, a, k, k) /\ n.start < StepEnd(k) /\ StepEnd(k) <= n.end
PROOF
<1>1. k - 1 \in 0 .. Steps - 1 /\ (k - 1) + 1 = k
  BY RunLength DEF Sample
<1>2. OnSchedule(c, a) /\ n.start = c.start /\ n.end = c.end /\ OnSchedule(n, a)
  BY SameWindowOn DEF Busy, Window, SameWindow
<1>3. c.start \in Nat /\ c.end = c.start + Frequency[a]
  BY <1>2, OnScheduleIs
<1>4. InWindow(a, c.start, k)
  BY <1>3 DEF Busy, InWindow
<1>5. Cardinality(SamplesOf(a, c.start, k)) = Cardinality(SamplesOf(a, c.start, k - 1)) + 1
  BY <1>1, <1>3, <1>4, NextSample
<1>6. n.sum = Marks(SamplesOf(a, n.start, k))
  BY <1>2 DEF Busy, Window
<1>7. n.count = Cardinality(SamplesOf(a, n.start, k))
  BY <1>2, <1>5 DEF Busy, Window
<1>8. QED
  BY <1>2, <1>6, <1>7 DEF Busy, Window

\* A window that ends with step k has all of its samples then.
LEMMA WindowEnds ==
  ASSUME NEW a \in Average, NEW c \in AverageRecord, NEW k \in Sample,
         OnSchedule(c, a), c.end <= StepEnd(k)
  PROVE  SamplesOf(a, c.start, k) = SamplesOf(a, c.start, Steps)
PROOF
<1>1. k \in Nat /\ k \in 0 .. Steps /\ Steps \in k .. Steps
  BY RunLength DEF Sample
<1>2. StepEnd(k) \in Nat /\ StepEnd(k) < StepEnd(k + 1) /\ StepEnd(k + 1) \in Nat
  BY <1>1, StepTimes
<1>3. c.start \in Nat /\ c.start + Frequency[a] = c.end /\ c.end \in Nat
  BY OnScheduleIs
<1>4. c.start + Frequency[a] < StepEnd(k + 1)
  BY <1>2, <1>3
<1>5. QED
  BY <1>1, <1>3, <1>4, AllSampled

\* A window that begins with the end of step k has none yet.
LEMMA WindowBegins ==
  ASSUME NEW a \in Average, NEW w \in AverageRecord, NEW k \in Sample,
         OnSchedule(w, a), w.start = StepEnd(k), w.count = 0, w.sum = NoSum
  PROVE  Idle(w, a, k)
PROOF
<1>1. k \in 0 .. Steps /\ k \in Nat
  BY RunLength DEF Sample
<1>2. StepEnd(k) \in Nat /\ Frequency[a] \in Nat \ {0}
  BY <1>1, StepTimes, Intervals
<1>3. w.start \in Nat /\ w.end = w.start + Frequency[a]
  BY OnScheduleIs
<1>4. SamplesOf(a, w.start, k) = {}
  BY <1>1, <1>2, <1>3, NoneSampled
<1>5. Window(w, a, k, k)
  BY <1>4, MarksNone, FS_EmptySet DEF Window
<1>6. w.start <= StepEnd(k) /\ StepEnd(k) < w.end
  BY <1>2, <1>3
<1>7. QED
  BY <1>5, <1>6 DEF Idle

LEMMA StepCompleted ==
  ASSUME NEW a \in Average, NEW c \in AverageRecord, NEW k \in Sample,
         Busy(c, a, k), NEW d, Outputs(c, a, d), d = << >> \/ StepEnd(k) < c.end
  PROVE  LET w == Completed(c, a, StepEnd(k))
         IN  Idle(w, a, k) /\ Outputs(w, a, d) /\ Grows(c, w)
PROOF
<1> DEFINE n == [c EXCEPT !.count = @ + 1]
           t == StepEnd(k)
           w == Completed(c, a, t)
<1>1. k \in Nat /\ k \in 0 .. Steps
  BY RunLength DEF Sample
<1>2. t \in Time /\ t \in Nat
  BY <1>1, TimeIs
<1>3. OnSchedule(c, a)
  BY DEF Busy, Window
<1>4. /\ w \in AverageRecord /\ OnSchedule(w, a)
      /\ n \in AverageRecord /\ OnSchedule(n, a)
      /\ n.count = c.count + 1 /\ n.sum = c.sum
      /\ SameFiles(n, c) /\ SameWindow(n, c)
      /\ t = c.end => w = FinishedTo(n, a, c.end + Frequency[a])
      /\ t # c.end => w = n
  BY <1>2, <1>3, CompletedIs
<1> HIDE DEF n, w
<1>5. Window(n, a, k, k) /\ n.start < t /\ t <= n.end
  BY <1>4, StepCounted
<1>6. Outputs(n, a, d) /\ n.end = c.end /\ n.start = c.start
  BY <1>4, OutputsSame DEF SameWindow
<1>7. n.end \in Nat /\ n.start \in Nat /\ n.end = n.start + Frequency[a]
  BY <1>4, OnScheduleIs
<1>8. CASE t # c.end
  <2>1. n.start <= t /\ t < n.end
    BY <1>2, <1>5, <1>6, <1>7, <1>8
  <2>2. Idle(n, a, k)
    BY <1>5, <2>1 DEF Idle
  <2>3. Grows(c, n)
    BY <1>4, GrowsSame DEF SameFiles
  <2>4. QED
    BY <1>4, <1>6, <1>8, <2>2, <2>3 DEF w
<1>9. CASE t = c.end
  <2> DEFINE e == c.end + Frequency[a]
  <2>1. d = << >>
    BY <1>2, <1>9
  <2>2. FilesAt(n, a, n.start)
    BY <1>4, <1>6, <2>1, OutputsAt
  <2>3. /\ e \in Nat /\ e % Frequency[a] = 0 /\ e - Frequency[a] = n.end
        /\ e - Frequency[a] \in Time /\ (e - Frequency[a]) % Frequency[a] = 0
    BY <1>2, <1>3, <1>6, <1>9, NextEnd
  <2>4. w = FinishedTo(n, a, e)
    BY <1>4, <1>9
  <2> HIDE DEF e
  <2>5. w.start = n.end /\ w.count = 0 /\ w.sum = NoSum
    BY <1>4, <2>3, <2>4, FinishedIs
  <2>6. SamplesOf(a, n.start, k) = SamplesOf(a, n.start, Steps)
    <3>1. n.end <= StepEnd(k)
      BY <1>2, <1>6, <1>9
    <3>2. QED
      BY <1>4, <3>1, WindowEnds
  <2>7. NothingBetween(a, n.start, e - Frequency[a])
    BY <1>4, <2>3, NothingInside
  <2>8. n.start < e - Frequency[a]
    BY <1>2, <1>5, <1>6, <1>7, <1>9, <2>3
  <2>9. FilesAt(FinishedTo(n, a, e), a, e - Frequency[a])
    BY <1>1, <1>4, <1>5, <2>2, <2>3, <2>6, <2>7, <2>8, FinishedFiles
  <2>10. Outputs(w, a, d)
    BY <1>4, <2>1, <2>3, <2>4, <2>5, <2>9, OutputsAt
  <2>11. Idle(w, a, k)
    BY <1>4, <1>6, <1>9, <2>5, WindowBegins
  <2>12. Grows(c, w)
    <3>1. w.files = Appended(n).files
      BY <1>4, <2>3, <2>4, FinishedIs
    <3>2. Grows(n, w)
      BY <1>4, <2>2, <3>1, AppendedGrows DEF FilesAt
    <3>3. QED
      BY <1>4, <3>2 DEF Grows, SameFiles
  <2>13. QED
    BY <2>10, <2>11, <2>12 DEF w
<1>10. QED
  BY <1>8, <1>9

\* A step that ends its window detaches the row of it.
LEMMA StepDetached ==
  ASSUME NEW a \in Average, NEW c \in AverageRecord, NEW k \in Sample,
         Busy(c, a, k), Outputs(c, a, << >>)
  PROVE  LET w == DetachCompleted(c, a, StepEnd(k))
         IN  /\ Idle(w, a, k) /\ Outputs(w, a, DetachedAverage(c, a, StepEnd(k)))
             /\ Grows(c, w)
PROOF
<1> DEFINE n == [c EXCEPT !.count = @ + 1]
           t == StepEnd(k)
           w == DetachCompleted(c, a, t)
           d == DetachedAverage(c, a, t)
<1>1. k \in Nat /\ k \in 0 .. Steps
  BY RunLength DEF Sample
<1>2. t \in Time /\ t \in Nat
  BY <1>1, TimeIs
<1>3. OnSchedule(c, a)
  BY DEF Busy, Window
<1>4. /\ w \in AverageRecord /\ OnSchedule(w, a)
      /\ n \in AverageRecord /\ OnSchedule(n, a)
      /\ n.count = c.count + 1 /\ n.sum = c.sum
      /\ SameFiles(n, c) /\ SameWindow(n, c) /\ SameFiles(w, c)
      /\ t < c.end => w = n
      /\ ~ (t < c.end) => w.start = c.end /\ w.count = 0 /\ w.sum = NoSum
  <2> HIDE DEF t
  <2>1. QED
    BY <1>2, <1>3, DetachCompletedIs
<1>5. /\ t < c.end => d = << >>
      /\ ~ (t < c.end) => d =
           << [owner |-> a, group |-> c.group,
               row |-> [time |-> c.start, sum |-> c.sum, count |-> c.count + 1],
               close |-> w.group # c.group] >>
  BY <1>2, <1>3, DetachedAverageIs
<1> HIDE DEF n, w, d
<1>6. Grows(c, w)
  BY <1>4, GrowsSame DEF SameFiles
<1>7. Window(n, a, k, k) /\ n.start < t /\ t <= n.end
  BY <1>4, StepCounted
<1>8. n.end = c.end /\ n.start = c.start
  BY <1>4 DEF SameWindow
<1>9. /\ c.start \in Time /\ c.start \in Nat /\ c.end \in Nat
      /\ c.end = c.start + Frequency[a] /\ c.end - Frequency[a] = c.start
      /\ c.group = GroupOf(a, c.start)
  BY <1>3, OnScheduleIs
<1>10. CASE t < c.end
  <2>1. Outputs(n, a, << >>)
    BY <1>4, OutputsSame
  <2>2. n.start <= t /\ t < n.end
    BY <1>2, <1>7, <1>8, <1>9, <1>10
  <2>3. Idle(n, a, k)
    BY <1>7, <2>2 DEF Idle
  <2>4. QED
    BY <1>4, <1>5, <1>10, <1>6, <2>1, <2>3 DEF w, d
<1>11. CASE ~ (t < c.end)
  <2>1. t = c.end
    BY <1>2, <1>7, <1>8, <1>9, <1>11
  <2>2. Idle(w, a, k)
    BY <1>4, <1>11, <2>1, WindowBegins
  <2>3. Previous(w, a) = c.start
    BY <1>4, <1>9, <1>11 DEF Previous
  <2>4. SamplesOf(a, c.start, k) = SamplesOf(a, c.start, Steps)
    <3>1. c.end <= StepEnd(k)
      BY <1>2, <2>1
    <3>2. QED
      BY <1>3, <3>1, WindowEnds
  <2>5. SamplesOf(a, c.start, Steps) # {}
    <3>1. InWindow(a, c.start, k)
      BY <1>7, <1>8, <1>9 DEF InWindow
    <3>2. k \in 1 .. k
      BY <1>1 DEF Sample
    <3>3. k \in SamplesOf(a, c.start, k)
      BY <1>1, <1>9, <3>1, <3>2, SamplesAre
    <3>4. QED
      BY <2>4, <3>3
  <2>6. [time |-> c.start, sum |-> c.sum, count |-> c.count + 1] =
          MeanOf(a, c.start, Steps)
    <3>1. Steps \in 0 .. Steps
      BY RunLength
    <3>2. c.sum = Marks(SamplesOf(a, c.start, Steps))
          /\ c.count + 1 = Cardinality(SamplesOf(a, c.start, Steps))
      BY <1>4, <1>7, <1>8, <2>4 DEF Window
    <3>3. QED
      BY <1>9, <3>1, <3>2, MeanIs DEF Marks
  <2>7. d = << DetachedRow(w, a) >>
    BY <1>5, <1>9, <1>11, <2>3, <2>6 DEF DetachedRow
  <2>8. FilesAt(w, a, c.start)
    <3>1. FilesAt(c, a, c.start)
      BY <1>3, OutputsAt
    <3>2. QED
      BY <1>4, <3>1, FilesSame
  <2>9. Outputs(w, a, d)
    BY <1>4, <1>9, <2>3, <2>5, <2>7, <2>8 DEF Outputs
  <2>10. QED
    BY <1>6, <2>2, <2>9 DEF w, d
<1>12. QED
  BY <1>10, <1>11

\* ... and it is written before anything else.
LEMMA RowDrained ==
  ASSUME NEW a \in Average, NEW c \in AverageRecord, NEW d \in Seq(DetachedOutput),
         d # << >>, Outputs(c, a, d)
  PROVE  LET w == WithDetached(c, Head(d))
         IN  /\ OnSchedule(c, a) /\ Tail(d) = << >> /\ Outputs(w, a, Tail(d))
             /\ Grows(c, w)
PROOF
<1> DEFINE out == Head(d)
           w == WithDetached(c, out)
           t == Previous(c, a)
           p == WithRow(c, out.group, out.row)
<1>1. /\ OnSchedule(c, a) /\ t \in Time /\ SamplesOf(a, t, Steps) # {}
      /\ d = << DetachedRow(c, a) >> /\ FilesAt(c, a, t)
  BY DEF Outputs
<1>2. out = DetachedRow(c, a) /\ Tail(d) = << >> /\ out \in DetachedOutput
  BY <1>1
<1>3. out.group = GroupOf(a, t) /\ out.row = MeanOf(a, t, Steps)
      /\ out.close = (c.group # GroupOf(a, t))
  BY <1>2 DEF DetachedRow
<1>4. /\ w \in AverageRecord /\ SameWindow(w, c) /\ w.files = p.files
      /\ w.open = IF out.close THEN None ELSE p.open
  BY <1>2, WithDetachedIs
<1>5. p = WithRow(c, GroupOf(a, t), MeanOf(a, t, Steps))
  BY <1>3
<1>6. /\ c.start \in Time /\ c.start \in Nat /\ c.start % Frequency[a] = 0
      /\ c.group = GroupOf(a, c.start) /\ Frequency[a] \in Nat \ {0}
      /\ t = c.start - Frequency[a] /\ t \in Nat
  BY <1>1, OnScheduleIs, Intervals, TimeIs DEF Previous
<1> HIDE DEF w, p, out, t
<1>7. t % Frequency[a] = 0 /\ t < c.start
  BY <1>6, Multiples
<1>8. NothingBetween(a, t, c.start)
  <2> SUFFICES ASSUME NEW s \in Time, s % Frequency[a] = 0, t < s, s < c.start
               PROVE  FALSE
    BY DEF NothingBetween
  <2>1. s \in Nat
    BY TimeIs
  <2>2. t + Frequency[a] <= s
    BY <1>6, <1>7, <2>1, Multiples
  <2>3. QED
    BY <1>6, <2>1, <2>2
<1>9. w.open = IF GroupOf(a, c.start) = GroupOf(a, t) THEN p.open ELSE None
  BY <1>3, <1>4, <1>6
<1>10. FilesAt(w, a, c.start)
  BY <1>1, <1>4, <1>5, <1>6, <1>7, <1>8, <1>9, MovedWithRow
<1>11. OnSchedule(w, a) /\ w.start = c.start
  BY <1>1, <1>4, SameWindowOn DEF SameWindow
<1>12. Outputs(w, a, << >>)
  BY <1>4, <1>10, <1>11, OutputsAt
<1>13. Grows(c, w)
  <2>1. MeanOf(a, t, Steps) \in Row
    BY <1>1, RunLength, MeanIs
  <2>2. QED
    BY <1>1, <1>4, <1>5, <2>1, RowGrows DEF FilesAt
<1>14. QED
  BY <1>1, <1>2, <1>12, <1>13 DEF w, out

-----------------------------------------------------------------------------
(* What close() leaves.                                                    *)

\* The files of a window that begins before step m + 1 ends, and does not end
\* before step m does.
LEMMA ExpectedAt ==
  ASSUME NEW a \in Average, NEW c \in AverageRecord, OnSchedule(c, a),
         FilesAt(c, a, c.start), NEW m \in 0 .. Steps,
         c.start < StepEnd(m + 1), StepEnd(m) <= c.end, NEW g \in Time
  PROVE  Expected(a, g, m) =
           IF g = GroupOf(a, c.start) /\ SamplesOf(a, c.start, m) # {}
           THEN Append(c.files[g], MeanOf(a, c.start, m)) ELSE c.files[g]
PROOF
<1> DEFINE t == c.start
           U == Until(a, g, t)
           S == Starts(a, g, m)
<1>1. /\ t \in Time /\ t \in Nat /\ t % Frequency[a] = 0
      /\ c.end = t + Frequency[a] /\ c.end \in Nat /\ Frequency[a] \in Nat \ {0}
  BY OnScheduleIs, Intervals
<1>2. m \in Nat /\ m + 1 \in Nat /\ Steps \in 0 .. Steps /\ Steps \in m .. Steps
  BY RunLength
<1>3. StepEnd(m) \in Nat /\ StepEnd(m + 1) \in Nat
  BY <1>2, StepTimes
<1>4. t < StepEnd(m + 1) /\ StepEnd(m) <= c.end
  OBVIOUS
<1>5. c.files[g] = RowsOf(a, U, Steps)
  BY DEF FilesAt, Rows
<1> HIDE DEF t
<1>6. ASSUME NEW s \in Time, s % Frequency[a] = 0, s < t
      PROVE  SamplesOf(a, s, m) = SamplesOf(a, s, Steps)
  <2>1. s \in Nat
    BY TimeIs
  <2>2. s + Frequency[a] <= t
    BY <1>1, <1>6, <2>1, Multiples
  <2>3. s + Frequency[a] < StepEnd(m + 1)
    BY <1>1, <1>3, <1>4, <2>1, <2>2
  <2>4. QED
    BY <1>2, <2>1, <2>3, AllSampled
<1>7. ASSUME NEW s \in Time, s % Frequency[a] = 0, t < s
      PROVE  SamplesOf(a, s, m) = {}
  <2>1. s \in Nat
    BY TimeIs
  <2>2. t + Frequency[a] <= s
    BY <1>1, <1>7, <2>1, Multiples
  <2>3. StepEnd(m) <= s
    BY <1>1, <1>3, <1>4, <2>1, <2>2
  <2>4. QED
    BY <2>1, <2>3, NoneSampled
<1>8. U \in SUBSET Time /\ (\A s \in U : s < t) /\
      \A s \in Time : s \in U <=>
        /\ s < t /\ s % Frequency[a] = 0 /\ GroupOf(a, s) = g
        /\ SamplesOf(a, s, Steps) # {}
  BY <1>1, UntilAre
<1>9. S \in SUBSET Time /\
      \A s \in Time : s \in S <=>
        s % Frequency[a] = 0 /\ GroupOf(a, s) = g /\ SamplesOf(a, s, m) # {}
  BY DEF Starts
<1> HIDE DEF U, S
<1>10. \A s \in Time : s < t \/ s = t \/ t < s
  <2>1. \A s \in Time : s \in Nat
    BY TimeIs
  <2>2. QED
    BY <1>1, <2>1
<1>11. \A s \in Time : s # t => (s \in S <=> s \in U)
  <2> SUFFICES ASSUME NEW s \in Time, s # t PROVE s \in S <=> s \in U
    OBVIOUS
  <2>1. CASE s < t
    BY <1>6, <1>8, <1>9, <2>1
  <2>2. CASE t < s
    <3>1. ~ (s < t)
      BY <1>1, <2>2, TimeIs
    <3>2. QED
      BY <1>7, <1>8, <1>9, <2>2, <3>1
  <2>3. QED
    BY <1>10, <2>1, <2>2
<1>12. t \notin U
  <2>1. ~ (t < t)
    BY <1>1
  <2>2. QED
    BY <1>8, <2>1
<1>13. S = IF g = GroupOf(a, t) /\ SamplesOf(a, t, m) # {} THEN U \cup {t} ELSE U
  BY <1>1, <1>8, <1>9, <1>11, <1>12
<1>14. RowsOf(a, U, m) = c.files[g]
  <2>1. \A s \in U : SamplesOf(a, s, m) = SamplesOf(a, s, Steps)
    BY <1>6, <1>8
  <2>2. QED
    BY <1>2, <1>5, <1>8, <2>1, RowsSame
<1>15. RowsOf(a, U \cup {t}, m) = Append(c.files[g], MeanOf(a, t, m))
  <2>1. U \in SUBSET Time /\ t \in Time /\ \A s \in U : s < t
    BY <1>1, <1>8
  <2>2. RowsOf(a, U \cup {t}, m) = Append(RowsOf(a, U, m), MeanOf(a, t, m))
    BY <2>1, RowsAppend
  <2>3. QED
    BY <1>14, <2>2
<1>16. Expected(a, g, m) = RowsOf(a, S, m)
  BY ExpectedIs DEF S
<1>17. QED
  BY <1>13, <1>14, <1>15, <1>16 DEF t

\* A run that ended after m steps, with step k abandoned if k is not 0.
Ended(c, a, m, k) ==
  \/ \A g \in Time : c.files[g] = Expected(a, g, m)
  \/ /\ k # 0
     /\ \A g \in Time \ {c.group} : c.files[g] = Expected(a, g, k)
     /\ c.files[c.group] \in {Expected(a, c.group, k), Uncounted(a, c.group, k)}

LEMMA LastRow ==
  ASSUME NEW s \in Seq(Row), NEW x \in Row, NEW y \in Row,
         y = [x EXCEPT !.count = @ - 1]
  PROVE  LET q == Append(s, x)
         IN  q # << >> /\ [q EXCEPT ![Len(q)].count = @ - 1] = Append(s, y)
PROOF
<1> DEFINE q == Append(s, x)
           n == Len(s) + 1
           r == [q EXCEPT ![Len(q)].count = @ - 1]
           u == Append(s, y)
<1>1. Len(s) \in Nat /\ n \in Nat /\ q \in Seq(Row) /\ Len(q) = n /\ q[n] = x
      /\ \A i \in 1 .. Len(s) : q[i] = s[i]
  OBVIOUS
<1>2. u \in Seq(Row) /\ Len(u) = n /\ u[n] = y /\ \A i \in 1 .. Len(s) : u[i] = s[i]
  OBVIOUS
<1>3. n \in 1 .. n /\ DOMAIN q = 1 .. n
  BY <1>1
<1>4. r = [q EXCEPT ![n] = y]
  BY <1>1
<1> HIDE DEF q, r, u
<1>5. r \in [1 .. n -> Row]
  BY <1>1, <1>3, <1>4
<1>6. r \in Seq(Row) /\ Len(r) = n /\ r[n] = y
  BY <1>1, <1>3, <1>4, <1>5
<1> DEFINE k == Len(s)
<1>7. k \in Nat /\ n = k + 1
  BY <1>1
<1> HIDE DEF k, n
<1>8. \A i \in 1 .. n : i # n => i \in 1 .. k
  BY <1>7
<1>9. \A i \in 1 .. k : r[i] = q[i]
  <2>1. \A i \in 1 .. k : i \in 1 .. n /\ i # n
    BY <1>7
  <2>2. QED
    BY <1>3, <1>4, <2>1
<1>10. \A i \in 1 .. n : r[i] = u[i]
  BY <1>1, <1>2, <1>6, <1>8, <1>9 DEF k
<1>11. r = u
  BY <1>2, <1>6, <1>10, SeqEqual
<1>12. q # << >>
  BY <1>1, <1>7
<1>13. QED
  BY <1>11, <1>12 DEF q, r, u

\* A window whose steps are all counted.
LEMMA ClosedCounted ==
  ASSUME NEW a \in Average, NEW c \in AverageRecord, FilesAt(c, a, c.start),
         NEW m \in 0 .. Steps, Window(c, a, m, m),
         c.start <= StepEnd(m), StepEnd(m) <= c.end, NEW g \in Time
  PROVE  Appended(c).files[g] = Expected(a, g, m)
PROOF
<1>1. OnSchedule(c, a) /\ c.start \in Time /\ c.start \in Nat
      /\ c.group = GroupOf(a, c.start) /\ CurrentRow(c) \in Row
  BY OnScheduleIs DEF Window
<1>2. c.start < StepEnd(m + 1)
  <2>1. m \in Nat
    BY RunLength
  <2>2. StepEnd(m) < StepEnd(m + 1) /\ StepEnd(m) \in Nat /\ StepEnd(m + 1) \in Nat
    BY <2>1, StepTimes
  <2>3. QED
    BY <1>1, <2>2
<1>3. Expected(a, g, m) =
        IF g = GroupOf(a, c.start) /\ SamplesOf(a, c.start, m) # {}
        THEN Append(c.files[g], MeanOf(a, c.start, m)) ELSE c.files[g]
  BY <1>1, <1>2, ExpectedAt
<1>4. CurrentRow(c) = MeanOf(a, c.start, m)
      /\ (c.count = 0 <=> SamplesOf(a, c.start, m) = {})
  BY CurrentRowIs
<1>5. CASE c.count = 0
  BY <1>1, <1>3, <1>4, <1>5, AppendedIs
<1>6. CASE c.count # 0
  <2>1. Appended(c) = WithRow(c, GroupOf(a, c.start), CurrentRow(c))
    BY <1>1, <1>6, AppendedIs
  <2> DEFINE w == WithRow(c, GroupOf(a, c.start), CurrentRow(c))
             h == GroupOf(a, c.start)
  <2>2. w.files[h] = Append(c.files[h], CurrentRow(c))
        /\ \A f \in Time : f # h => w.files[f] = c.files[f]
    BY <1>1, RowWritten DEF FilesAt
  <2> HIDE DEF w, h
  <2>3. w.files[g] = Expected(a, g, m)
    BY <1>3, <1>4, <1>6, <2>2 DEF h
  <2>4. QED
    BY <2>1, <2>3 DEF w
<1>7. QED
  BY <1>5, <1>6

\* A window whose last step is not.
LEMMA ClosedUncounted ==
  ASSUME NEW a \in Average, NEW c \in AverageRecord, FilesAt(c, a, c.start),
         NEW k \in Sample, Window(c, a, k, k - 1),
         c.start < StepEnd(k), StepEnd(k) <= c.end, NEW w,
         w.files = Appended(c).files, w.group = c.group
  PROVE  Ended(w, a, k - 1, k)
PROOF
<1> DEFINE h == GroupOf(a, c.start)
           m == k - 1
           x == MeanOf(a, c.start, k)
           y == CurrentRow(c)
<1>1. OnSchedule(c, a) /\ c.start \in Time /\ c.start \in Nat /\ c.end \in Nat
      /\ c.end = c.start + Frequency[a] /\ c.group = h /\ y \in Row /\ h \in Time
  BY OnScheduleIs DEF Window
<1>2. k \in Nat /\ k \in 0 .. Steps /\ m \in Nat /\ m \in 0 .. Steps - 1
      /\ m \in 0 .. Steps /\ m + 1 = k /\ k # 0
  BY RunLength DEF Sample
<1>3. StepEnd(k) \in Nat /\ StepEnd(m) \in Nat /\ StepEnd(m) < StepEnd(k)
      /\ StepEnd(k + 1) \in Nat /\ StepEnd(k) < StepEnd(k + 1)
  BY <1>2, StepTimes
<1>4. InWindow(a, c.start, k)
  BY <1>1 DEF InWindow
<1>5. SamplesOf(a, c.start, k) # {}
      /\ Cardinality(SamplesOf(a, c.start, k)) = Cardinality(SamplesOf(a, c.start, m)) + 1
  BY <1>1, <1>2, <1>4, NextSample
<1> HIDE DEF m
<1>6. CASE c.count = 0
  <2>1. SamplesOf(a, c.start, m) = {}
    BY <1>1, <1>2, <1>6, SamplesAre DEF Window, m
  <2>2. StepEnd(m) <= c.end /\ c.start < StepEnd(m + 1)
    BY <1>1, <1>2, <1>3
  <2>3. \A g \in Time : Expected(a, g, m) = c.files[g]
    BY <1>1, <1>2, <2>1, <2>2, ExpectedAt
  <2>4. w.files = c.files
    BY <1>1, <1>6, AppendedIs
  <2>5. QED
    BY <2>3, <2>4 DEF Ended, m
<1>7. CASE c.count # 0
  <2>1. c.start < StepEnd(k + 1)
    BY <1>1, <1>3
  <2>2. \A g \in Time : Expected(a, g, k) = IF g = h THEN Append(c.files[g], x)
                                                   ELSE c.files[g]
    BY <1>1, <1>2, <1>5, <2>1, ExpectedAt
  <2>3. w.files = WithRow(c, h, y).files
    BY <1>1, <1>7, AppendedIs
  <2>4. w.files[h] = Append(c.files[h], y) /\ \A g \in Time : g # h => w.files[g] = c.files[g]
    <3>1. Opened(c, a, c.start)
      BY DEF FilesAt
    <3>2. WithRow(c, h, y).files[h] = Append(c.files[h], y)
          /\ \A g \in Time : g # h => WithRow(c, h, y).files[g] = c.files[g]
      BY <1>1, <3>1, RowWritten
    <3>3. QED
      BY <2>3, <3>2
  <2>5. x \in Row /\ c.files[h] \in Seq(Row)
    BY <1>1, <1>2, MeanIs DEF AverageRecord
  <2>6. y = [x EXCEPT !.count = @ - 1]
    <3>1. x = [time |-> c.start, count |-> Cardinality(SamplesOf(a, c.start, k)),
               sum |-> Marks(SamplesOf(a, c.start, k))]
      BY <1>1, <1>2, MeanIs DEF Marks
    <3>2. y = [time |-> c.start, count |-> Cardinality(SamplesOf(a, c.start, m)),
               sum |-> Marks(SamplesOf(a, c.start, k))]
      BY DEF Window, CurrentRow, m
    <3>3. Cardinality(SamplesOf(a, c.start, m)) \in Nat
      BY <1>1, <1>2, SamplesAre
    <3>4. Cardinality(SamplesOf(a, c.start, k)) - 1 = Cardinality(SamplesOf(a, c.start, m))
      BY <1>5, <3>3
    <3>5. QED
      BY <3>1, <3>2, <3>4
  <2> HIDE DEF x, y
  <2>7. /\ Append(c.files[h], x) # << >>
        /\ [Append(c.files[h], x) EXCEPT ![Len(Append(c.files[h], x))].count = @ - 1]
             = Append(c.files[h], y)
    BY <1>1, <2>5, <2>6, LastRow
  <2>8. Uncounted(a, h, k) = Append(c.files[h], y)
    <3>1. Expected(a, h, k) = Append(c.files[h], x)
      BY <1>1, <2>2
    <3>2. QED
      BY <2>7, <3>1 DEF Uncounted
  <2>9. \A g \in Time \ {w.group} : w.files[g] = Expected(a, g, k)
    BY <1>1, <2>2, <2>4
  <2>10. w.files[w.group] = Uncounted(a, w.group, k)
    BY <1>1, <2>4, <2>8
  <2>11. QED
    BY <1>2, <2>9, <2>10 DEF Ended
<1>8. QED
  BY <1>6, <1>7

-----------------------------------------------------------------------------
(* The windows and the files of every state.                               *)

\* A window that is detached ends with a step: then windows are written in
\* order.  Only a CUDA run detaches.
DetachAligned ==
  \A s \in Setups : s.backend = "cuda" =>
    \A a \in s.averages : Frequency[a] % StepTicks = 0

\* What is known of a collection at each phase.
Collection(c, a, d) ==
  /\ phase # "closed" => Outputs(c, a, d)
  /\ phase \in {"running", "drainLast"} => Idle(c, a, step)
  /\ phase \in {"prepared", "drain", "detach"} => Busy(c, a, prepared)
  /\ phase \in {"unwinding", "closeDrain", "closing"} =>
       \/ prepared = 0 /\ abandoned = 0 /\ Idle(c, a, step)
       \/ {prepared, abandoned} = {0, step + 1} /\ Abandoned(c, a, step + 1)
  /\ phase = "closed" /\ step # 0 => Ended(c, a, step, abandoned)

Collections == \A a \in setup.averages : Collection(average[a], a, detached[a])

LEMMA BusyAbandoned ==
  ASSUME NEW a \in Average, NEW c \in AverageRecord, NEW k \in Sample, Busy(c, a, k)
  PROVE  Abandoned(c, a, k)
PROOF
<1>1. c.start \in Nat
  BY OnScheduleIs DEF Busy, Window
<1>2. StepEnd(k) \in Nat
  BY StepTimes DEF Sample
<1>3. c.start <= StepEnd(k)
  BY <1>1, <1>2 DEF Busy
<1>4. QED
  BY <1>3 DEF Busy, Abandoned

LEMMA IdleAbandoned ==
  ASSUME NEW a \in Average, NEW c \in AverageRecord, NEW k \in Sample, Idle(c, a, k)
  PROVE  Abandoned(c, a, k)
PROOF
<1>1. k \in Nat /\ k # 0
  BY DEF Sample
<1>2. Window(c, a, k, k) /\ c.start <= StepEnd(k) /\ StepEnd(k) < c.end
  BY <1>1 DEF Idle
<1>3. c.end \in Nat
  BY <1>2, OnScheduleIs DEF Window
<1>4. StepEnd(k) \in Nat
  BY <1>1, StepTimes
<1>5. StepEnd(k) <= c.end
  BY <1>2, <1>3, <1>4
<1>6. QED
  BY <1>2, <1>5 DEF Abandoned

\* Writing a file does not move its window.
LEMMA WindowSame ==
  ASSUME NEW a \in Average, NEW c \in AverageRecord, NEW w \in AverageRecord,
         SameWindow(w, c), w.count = c.count, w.sum = c.sum, OnSchedule(c, a)
  PROVE  /\ \A m : Idle(c, a, m) => Idle(w, a, m)
         /\ \A k : Busy(c, a, k) => Busy(w, a, k)
         /\ \A k : Abandoned(c, a, k) => Abandoned(w, a, k)
PROOF
<1>1. OnSchedule(w, a) /\ ~ Unscheduled(c) /\ w.start = c.start /\ w.end = c.end
  BY SameWindowOn, OnScheduleIs DEF SameWindow
<1>2. \A k, n : Window(c, a, k, n) => Window(w, a, k, n)
  BY <1>1 DEF Window
<1>3. QED
  BY <1>1, <1>2 DEF Idle, Busy, Abandoned

LEMMA CollectionsInit == Init => Collections
PROOF
<1> SUFFICES ASSUME Init, NEW a \in setup.averages
             PROVE  Collection(average[a], a, detached[a])
  BY DEF Collections
<1>1. average[a] = FreshAverage /\ detached[a] = << >> /\ phase = "running" /\ step = 0
  BY DEF Init
<1>2. a \in Average
  BY SetupAssumption DEF Init
<1> DEFINE c == FreshAverage
<1>3. Unscheduled(c) /\ c.open = None /\ \A g \in Time : c.files[g] = << >>
  BY DEF FreshAverage, Unscheduled
<1> HIDE DEF c
<1>4. Idle(c, a, 0)
  BY <1>3 DEF Idle
<1>5. Begins(c) = 0
  BY <1>3 DEF Begins, Unscheduled
<1>6. FilesAt(c, a, 0)
  <2>1. 0 \in Time /\ Steps \in 0 .. Steps
    BY TimeIs, RunLength
  <2>2. ASSUME NEW g \in Time PROVE Until(a, g, 0) = {}
    <3>1. \A s \in Time : ~ (s < 0)
      BY TimeIs
    <3>2. QED
      BY <1>2, <2>1, <3>1, UntilAre
  <2>3. Rows(c, a, 0)
    BY <1>2, <1>3, <2>1, <2>2, RowsEmpty DEF Rows
  <2>4. Opened(c, a, 0)
    BY <1>2, <1>3, <2>1, GroupIs DEF Opened
  <2>5. QED
    BY <2>3, <2>4 DEF FilesAt
<1>7. Outputs(c, a, << >>)
  BY <1>5, <1>6 DEF Outputs
<1>8. QED
  BY <1>1, <1>4, <1>7 DEF Collection, c

\* A collection of the running state, and what becomes of it.
Follows(a) ==
  Collection(average[a], a, detached[a])' /\ Grows(average[a], average'[a])

LEMMA CollectionFollows ==
  ASSUME DetachAligned, Control, Averages, Collections, NEW a \in setup.averages
  PROVE  [Next]_vars => Follows(a)
PROOF
<1> SUFFICES ASSUME [Next]_vars PROVE Follows(a)
  OBVIOUS
<1> DEFINE c == average[a]
           d == detached[a]
           w == average'[a]
           k == step + 1
<1>1. /\ a \in Average /\ a \notin Restart /\ a \in DOMAIN average /\ a \in DOMAIN detached
      /\ AverageTyped(c, a) /\ c \in AverageRecord /\ d \in Seq(DetachedOutput)
      /\ Collection(c, a, d)
  BY AveragesAre DEF Averages, AverageTyped, Collections
<1>2. step \in Nat /\ step <= Steps /\ Steps \in Nat /\ Steps # 0
      /\ (step < Steps => k \in Sample /\ step \in 0 .. Steps - 1)
  BY RunLength DEF Control, Sample
<1>3. UseCuda => Frequency[a] % StepTicks = 0
  BY SetupAssumption DEF DetachAligned, UseCuda, Control
<1>4. ~UseCuda => d = << >>
  BY <1>1 DEF Control, NothingDetached
<1>5. Grows(c, c)
  BY <1>1, GrowsSame
<1>6. ASSUME phase = "running", step < Steps
      PROVE  LET p == Prepare[a]
             IN  /\ p \in AverageRecord /\ Busy(p, a, k) /\ Outputs(p, a, d)
                 /\ Grows(c, p)
  <2>1. Idle(c, a, step) /\ Outputs(c, a, d)
    BY <1>1, <1>6 DEF Collection
  <2>2. d = << >> \/ Frequency[a] % StepTicks = 0
    BY <1>3, <1>4
  <2>3. Prepare[a] = Accumulated(PreparedFor(c, a, StepEnd(step + 1)), step + 1)
    BY DEF Prepare, Current
  <2>4. step \in 0 .. Steps - 1
    BY <1>2, <1>6
  <2> DEFINE q == Accumulated(PreparedFor(c, a, StepEnd(step + 1)), step + 1)
  <2>5. q \in AverageRecord /\ Busy(q, a, step + 1) /\ Outputs(q, a, d) /\ Grows(c, q)
    <3> HIDE DEF c, d
    <3>1. QED
      BY <1>1, <2>1, <2>2, <2>4, StepPrepared
  <2>6. QED
    BY <2>3, <2>5
<1> HIDE DEF c, d
<1>7. CASE RecordStep
  <2> DEFINE p == Prepare[a]
             q == Completed(p, a, StepEnd(k))
  <2>1. w = q /\ detached'[a] = d /\ d = << >> /\ phase' = "running" /\ step' = k
        /\ phase = "running" /\ step < Steps
    BY <1>4, <1>7 DEF RecordStep, Current, d
  <2>2. p \in AverageRecord /\ Busy(p, a, k) /\ Outputs(p, a, d) /\ Grows(c, p)
    BY <1>6, <2>1
  <2> HIDE DEF p
  <2>3. Idle(q, a, k) /\ Outputs(q, a, d) /\ Grows(p, q)
    BY <1>1, <1>2, <2>1, <2>2, StepCompleted
  <2>4. q \in AverageRecord
    <3>1. StepEnd(k) \in Time
      BY <1>2, <2>1, TimeIs DEF Sample
    <3>2. QED
      BY <1>1, <2>2, <3>1, CompletedIs DEF Busy, Window
  <2>5. Grows(c, q)
    BY <1>1, <2>2, <2>3, <2>4, GrowsOn
  <2> HIDE DEF q
  <2>6. Idle(w, a, step') /\ Outputs(w, a, detached'[a])
    BY <2>1, <2>3
  <2>7. QED
    BY <2>1, <2>5, <2>6 DEF Follows, Collection, c
<1>8. CASE PrepareStep
  <2>1. w = Prepare[a] /\ detached'[a] = d /\ phase' = "prepared" /\ prepared' = k
        /\ phase = "running" /\ step < Steps
    BY <1>8 DEF PrepareStep, Current, d
  <2>2. Busy(w, a, prepared') /\ Outputs(w, a, detached'[a]) /\ Grows(c, w)
    BY <1>6, <2>1
  <2>3. QED
    BY <2>1, <2>2 DEF Follows, Collection, c
<1>9. CASE RecordRaises
  <2> DEFINE p == Prepare[a]
             q == Completed(p, a, StepEnd(k))
             n == [p EXCEPT !.count = @ + 1]
  <2>1. detached'[a] = d /\ d = << >> /\ phase' = "unwinding" /\ step' = step
        /\ prepared' = k /\ abandoned' = abandoned /\ abandoned = 0
        /\ phase = "running" /\ step < Steps
    BY <1>4, <1>9 DEF RecordRaises, Current, Control, d
  <2>2. w \in {q, n, p}
    BY <1>9 DEF RecordRaises, Current
  <2>3. p \in AverageRecord /\ Busy(p, a, k) /\ Outputs(p, a, d) /\ Grows(c, p)
    BY <1>6, <2>1
  <2> HIDE DEF p
  <2>4. StepEnd(k) \in Time
    BY <1>2, <2>1, TimeIs DEF Sample
  <2>5. /\ q \in AverageRecord /\ n \in AverageRecord /\ n.count = p.count + 1
        /\ n.sum = p.sum /\ SameFiles(n, p) /\ SameWindow(n, p)
    BY <1>1, <2>3, <2>4, CompletedIs DEF Busy, Window
  <2>6. Idle(q, a, k) /\ Outputs(q, a, d) /\ Grows(p, q)
    BY <1>1, <1>2, <2>1, <2>3, StepCompleted
  <2> HIDE DEF q, n
  <2>7. Abandoned(q, a, k) /\ Grows(c, q)
    BY <1>1, <1>2, <2>1, <2>3, <2>5, <2>6, IdleAbandoned, GrowsOn
  <2>8. Abandoned(p, a, k)
    BY <1>1, <1>2, <2>1, <2>3, BusyAbandoned
  <2>9. Abandoned(n, a, k) /\ Outputs(n, a, d) /\ Grows(c, n)
    <3>1. Window(n, a, k, k) /\ n.start < StepEnd(k) /\ StepEnd(k) <= n.end
      BY <1>1, <1>2, <2>1, <2>3, <2>5, StepCounted
    <3>2. n.start \in Nat /\ StepEnd(k) \in Nat
      BY <1>1, <2>4, <2>5, <3>1, OnScheduleIs, TimeIs DEF Window
    <3>3. n.start <= StepEnd(k)
      BY <3>1, <3>2
    <3>4. Outputs(n, a, d)
      BY <1>1, <2>3, <2>5, OutputsSame
    <3>5. Grows(c, n)
      BY <2>3, <2>5 DEF Grows, SameFiles
    <3>6. QED
      BY <3>1, <3>3, <3>4, <3>5 DEF Abandoned
  <2>10. Abandoned(w, a, k) /\ Outputs(w, a, d) /\ Grows(c, w)
    BY <2>2, <2>3, <2>6, <2>7, <2>8, <2>9
  <2>11. {prepared', abandoned'} = {0, step' + 1}
    BY <2>1
  <2>12. Abandoned(w, a, step' + 1) /\ Outputs(w, a, detached'[a])
    BY <2>1, <2>10
  <2>13. QED
    BY <2>1, <2>10, <2>11, <2>12 DEF Follows, Collection, c
<1>10. ASSUME phase \in {"prepared", "drain", "detach"}
       PROVE  prepared = k /\ step < Steps /\ k \in Sample /\ Busy(c, a, k)
              /\ Outputs(c, a, d) /\ abandoned = 0
  BY <1>1, <1>2, <1>10 DEF Control, Collection
<1>11. CASE CompleteStep
  <2>1. w = Completed(c, a, StepEnd(prepared)) /\ detached'[a] = d
        /\ phase' = "running" /\ step' = prepared /\ phase = "prepared"
        /\ ~ (StepEnd(prepared) >= c.end)
    BY <1>11 DEF CompleteStep, RequiresHostCompletion, c, d
  <2>2. prepared = k /\ k \in Sample /\ Busy(c, a, k) /\ Outputs(c, a, d)
    BY <1>10, <2>1
  <2>3. StepEnd(k) < c.end
    <3>1. c.end \in Nat
      BY <1>1, <2>2, OnScheduleIs DEF Busy, Window
    <3>2. StepEnd(k) \in Nat
      BY <2>2, StepTimes DEF Sample
    <3>3. QED
      BY <2>1, <2>2, <3>1, <3>2
  <2> DEFINE q == Completed(c, a, StepEnd(k))
  <2>4. Idle(q, a, k) /\ Outputs(q, a, d) /\ Grows(c, q)
    BY <1>1, <2>2, <2>3, StepCompleted
  <2> HIDE DEF q
  <2>5. w = q
    BY <2>1, <2>2 DEF q
  <2>6. Idle(w, a, step') /\ Outputs(w, a, detached'[a]) /\ Grows(c, w)
    BY <2>1, <2>2, <2>4, <2>5
  <2>7. QED
    BY <2>1, <2>6 DEF Follows, Collection, c
<1>12. CASE DetachStep
  <2>1. w = DetachCompleted(c, a, StepEnd(prepared))
        /\ detached'[a] = d \o DetachedAverage(c, a, StepEnd(prepared))
        /\ phase' \in {"drainLast", "running"} /\ step' = prepared /\ phase = "detach"
    BY <1>1, <1>12 DEF DetachStep, c, d
  <2>2. prepared = k /\ k \in Sample /\ Busy(c, a, k) /\ Outputs(c, a, d)
    BY <1>10, <2>1
  <2>3. d = << >>
    BY <1>1, <2>1 DEF Control, NothingDetached, d
  <2> DEFINE q == DetachCompleted(c, a, StepEnd(k))
             o == DetachedAverage(c, a, StepEnd(k))
  <2>4. Idle(q, a, k) /\ Outputs(q, a, o) /\ Grows(c, q)
    BY <1>1, <2>2, <2>3, StepDetached
  <2>5. o \in Seq(DetachedOutput)
    <3>1. StepEnd(k) \in Time
      BY <2>2, TimeIs DEF Sample
    <3>2. QED
      BY <1>1, <2>2, <3>1, DetachedAverageIs DEF Busy, Window
  <2> HIDE DEF q, o
  <2>6. << >> \o o = o
    BY <2>5, ConcatEmptySeq
  <2>7. w = q /\ detached'[a] = o /\ step' = k
    BY <2>1, <2>2, <2>3, <2>6 DEF q, o
  <2>8. Idle(w, a, step') /\ Outputs(w, a, detached'[a]) /\ Grows(c, w)
    BY <2>4, <2>7
  <2>9. QED
    BY <2>1, <2>8 DEF Follows, Collection, c
<1>13. ASSUME NEW e \in DOMAIN detached, DrainOne(e) PROVE Follows(a)
  <2>1. /\ detached[e] # << >> /\ phase \in {"drain", "drainLast", "closeDrain"}
        /\ detached' = [detached EXCEPT ![e] = Tail(@)]
        /\ phase' = phase /\ step' = step /\ prepared' = prepared
        /\ abandoned' = abandoned
    BY <1>13 DEF DrainOne, Draining
  <2>2. CASE e # a
    <3>1. w = c /\ detached'[a] = d
      BY <1>1, <1>13, <2>1, <2>2 DEF DrainOne, c, d
    <3>2. QED
      BY <1>1, <1>5, <2>1, <3>1 DEF Follows, Collection, c
  <2>3. CASE e = a
    <3> DEFINE q == WithDetached(c, Head(d))
    <3>1. average' = [average EXCEPT ![a] = WithDetached(@, Head(detached[a]))]
      BY <1>1, <1>13, <2>3 DEF DrainOne
    <3>2. w = q /\ detached'[a] = Tail(d) /\ d # << >>
      BY <1>1, <2>1, <2>3, <3>1 DEF c, d
    <3>3. Outputs(c, a, d)
      BY <1>1, <2>1 DEF Collection
    <3>4. OnSchedule(c, a) /\ Outputs(q, a, Tail(d)) /\ Grows(c, q)
      BY <1>1, <3>2, <3>3, RowDrained
    <3>5. Head(d) \in DetachedOutput
      BY <1>1, <3>2
    <3>6. q \in AverageRecord /\ SameWindow(q, c) /\ q.count = c.count /\ q.sum = c.sum
      BY <1>1, <3>5, WithDetachedIs
    <3> HIDE DEF q
    <3>7. /\ \A m : Idle(c, a, m) => Idle(q, a, m)
          /\ \A m : Busy(c, a, m) => Busy(q, a, m)
          /\ \A m : Abandoned(c, a, m) => Abandoned(q, a, m)
      BY <1>1, <3>4, <3>6, WindowSame
    <3>8. Collection(q, a, Tail(d))
      BY <1>1, <2>1, <3>4, <3>7 DEF Collection
    <3>9. QED
      BY <2>1, <3>2, <3>4, <3>8 DEF Follows, Collection, c
  <2>4. QED
    BY <2>2, <2>3
<1>14. CASE StepEndsBatch
  <2>1. w = c /\ detached'[a] = d /\ phase' = "drain" /\ prepared' = prepared
        /\ phase = "prepared"
    BY <1>14 DEF StepEndsBatch, c, d
  <2>2. QED
    BY <1>1, <1>5, <2>1 DEF Follows, Collection, c
<1>15. CASE DrainDone
  <2>1. w = c /\ detached'[a] = d /\ step' = step /\ prepared' = prepared
        /\ abandoned' = abandoned
    BY <1>15 DEF DrainDone, c, d
  <2>2. \/ phase = "drain" /\ phase' = "detach"
        \/ phase = "drainLast" /\ phase' = "unwinding" /\ prepared = 0 /\ abandoned = 0
        \/ phase = "closeDrain" /\ phase' = "closing"
    BY <1>15 DEF DrainDone, Draining, Control
  <2>3. QED
    BY <1>1, <1>5, <2>1, <2>2 DEF Follows, Collection, c
<1>16. CASE LoopEnds \/ Raise
  <2>1. w = c /\ detached'[a] = d /\ step' = step /\ prepared' = prepared
        /\ abandoned' = abandoned /\ phase = "running" /\ phase' = "unwinding"
    BY <1>16 DEF LoopEnds, Raise, c, d
  <2>2. prepared = 0 /\ abandoned = 0
    BY <2>1 DEF Control
  <2>3. QED
    BY <1>1, <1>5, <2>1, <2>2 DEF Follows, Collection, c
<1>17. CASE BoundaryRaises
  <2>1. w = c /\ detached'[a] = d /\ step' = step /\ prepared' = prepared
        /\ abandoned' = abandoned /\ phase \in {"prepared", "detach"}
        /\ phase' = "unwinding"
    BY <1>17 DEF BoundaryRaises, c, d
  <2>2. prepared = k /\ k \in Sample /\ Busy(c, a, k) /\ Outputs(c, a, d) /\ abandoned = 0
    BY <1>10, <2>1
  <2>3. Abandoned(c, a, k)
    BY <1>1, <2>2, BusyAbandoned
  <2>4. {prepared', abandoned'} = {0, step' + 1}
    BY <2>1, <2>2
  <2>5. Abandoned(w, a, step' + 1) /\ Outputs(w, a, detached'[a])
    BY <2>1, <2>2, <2>3
  <2>6. QED
    BY <1>5, <2>1, <2>4, <2>5 DEF Follows, Collection, c
<1>18. CASE Close
  <2>1. w = c /\ detached'[a] = d /\ step' = step /\ prepared' = 0
        /\ abandoned' = prepared /\ phase = "unwinding" /\ phase' = "closeDrain"
    BY <1>18 DEF Close, c, d
  <2>2. abandoned = 0
    BY <2>1 DEF Control
  <2>3. QED
    BY <1>1, <1>5, <2>1, <2>2 DEF Follows, Collection, c
<1>19. CASE CloseFinishes
  <2>1. detached'[a] = d /\ step' = step /\ abandoned' = abandoned
        /\ phase = "closing" /\ phase' = "closed"
        /\ w = IF step = 0 THEN c ELSE Closed(c)
    BY <1>19 DEF CloseFinishes, c, d
  <2>2. CASE step = 0
    BY <1>5, <2>1, <2>2 DEF Follows, Collection, c
  <2>3. CASE step # 0
    <3>1. prepared = 0 /\ (abandoned # 0 => step < Steps /\ k \in Sample)
      BY <1>2, <2>1 DEF Control
    <3>2. \/ abandoned = 0 /\ Idle(c, a, step)
          \/ abandoned = k /\ Abandoned(c, a, k)
      BY <1>1, <1>2, <2>1, <3>1 DEF Collection
    <3>3. OnSchedule(c, a)
      BY <2>3, <3>2 DEF Idle, Abandoned, Window
    <3>4. d = << >>
      BY <1>1, <2>1 DEF Control, NothingDetached, d
    <3>5. FilesAt(c, a, c.start)
      <4>1. Outputs(c, a, << >>)
        BY <1>1, <2>1, <3>4 DEF Collection
      <4>2. QED
        BY <1>1, <3>3, <4>1, OutputsAt
    <3>6. w.files = Appended(c).files /\ w.group = c.group
      BY <1>1, <2>1, <2>3, ClosedIs DEF SameWindow
    <3> HIDE DEF w
    <3>7. Grows(c, w)
      BY <1>1, <3>3, <3>5, <3>6, AppendedGrows DEF FilesAt
    <3>8. c.end \in Nat /\ c.group \in Time
      BY <1>1, <3>3, OnScheduleIs
    <3>9. ASSUME NEW m \in 0 .. Steps, Window(c, a, m, m),
                 c.start <= StepEnd(m), StepEnd(m) <= c.end
          PROVE  \A g \in Time : w.files[g] = Expected(a, g, m)
      BY <1>1, <3>5, <3>6, <3>9, ClosedCounted
    <3>10. Ended(w, a, step, abandoned)
      <4>1. CASE abandoned = 0 /\ Idle(c, a, step)
        <5>1. Window(c, a, step, step) /\ c.start <= StepEnd(step)
              /\ StepEnd(step) < c.end /\ step \in 0 .. Steps
          BY <1>2, <2>3, <4>1 DEF Idle
        <5>2. StepEnd(step) \in Nat
          BY <1>2, StepTimes
        <5>3. StepEnd(step) <= c.end
          BY <3>8, <5>1, <5>2
        <5>4. QED
          BY <3>9, <5>1, <5>3 DEF Ended
      <4>2. CASE abandoned = k /\ Abandoned(c, a, k) /\ Window(c, a, k, k)
        <5>1. k \in 0 .. Steps /\ k # 0
          BY <1>2, <3>1, <4>2 DEF Sample
        <5>2. \A g \in Time : w.files[g] = Expected(a, g, k)
          BY <3>9, <4>2, <5>1 DEF Abandoned
        <5>3. QED
          BY <3>6, <3>8, <4>2, <5>1, <5>2 DEF Ended
      <4>3. CASE abandoned = k /\ Abandoned(c, a, k) /\ Window(c, a, k, k - 1)
                 /\ c.start < StepEnd(k)
        <5>1. k \in Sample /\ k - 1 = step
          BY <1>2, <3>1, <4>3
        <5>2. StepEnd(k) <= c.end
          BY <4>3 DEF Abandoned
        <5>3. Ended(w, a, k - 1, k)
          BY <1>1, <3>5, <3>6, <4>3, <5>1, <5>2, ClosedUncounted
        <5>4. QED
          BY <4>3, <5>1, <5>3
      <4>4. QED
        BY <3>2, <4>1, <4>2, <4>3 DEF Abandoned
    <3>11. QED
      BY <2>1, <3>7, <3>10 DEF Follows, Collection, c, w
  <2>4. QED
    BY <2>2, <2>3
<1>20. CASE UNCHANGED vars
  BY <1>1, <1>5, <1>20 DEF vars, Follows, Collection, c, d
<1>21. QED
  BY <1>7, <1>8, <1>9, <1>11, <1>12, <1>13, <1>14, <1>15, <1>16, <1>17, <1>18,
     <1>19, <1>20 DEF Next, Run, Fault

LEMMA CollectionsStep ==
  ASSUME DetachAligned
  PROVE  Control /\ Averages /\ Collections /\ [Next]_vars => Collections'
PROOF
<1> SUFFICES ASSUME Control, Averages, Collections, [Next]_vars
             PROVE  Collections'
  OBVIOUS
<1>1. \A a \in setup.averages : Collection(average[a], a, detached[a])'
  BY CollectionFollows DEF Follows
<1>2. QED
  BY <1>1, SetupStays DEF Collections

LEMMA CollectionsAlways ==
  ASSUME DetachAligned
  PROVE  Spec => []Collections
PROOF
<1>1. Control /\ Typed /\ Collections /\ [Next]_vars => Collections'
  BY CollectionsStep DEF Typed
<1>2. QED
  BY <1>1, CollectionsInit, ControlAlways, TypedAlways, PTL DEF Spec

\* Where a collection's outputs end is a time, until it is closed.
LEMMA OutputsRows ==
  ASSUME NEW a \in Average, NEW c \in AverageRecord, NEW d, Outputs(c, a, d),
         Unscheduled(c) \/ OnSchedule(c, a)
  PROVE  \E t \in Time : Rows(c, a, t)
PROOF
<1>1. 0 \in Time
  BY TimeIs
<1>2. Begins(c) \in Time
  BY <1>1, OnScheduleIs DEF Begins, Unscheduled
<1>3. QED
  BY <1>2 DEF Outputs, FilesAt

\* Until a run has closed, every file is a beginning of its schedule: the
\* windows of its group in order, each with every one of its steps once, also
\* when they were detached and written a batch later.
THEOREM HistoryRowsInOrder ==
  ASSUME DetachAligned
  PROVE  Spec => []RowsInOrder
PROOF
<1>1. Control /\ Typed /\ Collections => RowsInOrder
  <2> SUFFICES ASSUME Control, Typed, Collections, phase # "closed",
                      NEW a \in setup.averages, NEW g \in Time
               PROVE  IsPrefix(average[a].files[g], Expected(a, g, Steps))
    BY DEF RowsInOrder
  <2> DEFINE c == average[a]
  <2>1. a \in Average /\ Steps \in 0 .. Steps
    BY AveragesAre, RunLength
  <2>2. c \in AverageRecord /\ (Unscheduled(c) \/ OnSchedule(c, a))
    BY DEF Typed, Averages, AverageTyped
  <2>3. Outputs(c, a, detached[a])
    BY DEF Collections, Collection
  <2> HIDE DEF c
  <2>4. PICK t \in Time : Rows(c, a, t)
    BY <2>1, <2>2, <2>3, OutputsRows
  <2>5. c.files[g] = RowsOf(a, Until(a, g, t), Steps)
    BY <2>4 DEF Rows
  <2>6. Starts(a, g, Steps) \in SUBSET Time
        /\ Until(a, g, t) \in SUBSET Starts(a, g, Steps)
    BY DEF Starts, Until
  <2>7. \A x \in Until(a, g, t), y \in Starts(a, g, Steps) \ Until(a, g, t) : x < y
    <3> SUFFICES ASSUME NEW x \in Until(a, g, t),
                        NEW y \in Starts(a, g, Steps) \ Until(a, g, t)
                 PROVE  x < y
      OBVIOUS
    <3>1. x < t /\ ~ (y < t)
      BY DEF Until
    <3>2. x \in Nat /\ y \in Nat /\ t \in Nat
      BY <2>6, TimeIs
    <3>3. QED
      BY <3>1, <3>2
  <2>8. IsPrefix(RowsOf(a, Until(a, g, t), Steps), RowsOf(a, Starts(a, g, Steps), Steps))
    BY <2>1, <2>6, <2>7, RowsPrefix
  <2>9. Expected(a, g, Steps) = RowsOf(a, Starts(a, g, Steps), Steps)
    BY <2>1, ExpectedIs
  <2>10. QED
    BY <2>5, <2>8, <2>9 DEF c
<1>2. QED
  BY <1>1, ControlAlways, TypedAlways, CollectionsAlways, PTL

\* A run that has closed, however it ended, has every window of its completed
\* steps in its files; only a step abandoned before it was complete may be in
\* the last row beyond those, and then perhaps not in its count.
THEOREM HistoryNothingMissing ==
  ASSUME DetachAligned
  PROVE  Spec => []NothingMissing
PROOF
<1>1. Collections => NothingMissing
  BY DEF Collections, Collection, Ended, NothingMissing
<1>2. QED
  BY <1>1, CollectionsAlways, PTL

\* No step takes a row from a file or changes one: a file is never opened anew
\* once it holds rows, in whichever order its windows are completed, detached,
\* drained and closed.
THEOREM HistoryFilesGrow ==
  ASSUME DetachAligned
  PROVE  Spec => FilesGrow
PROOF
<1> DEFINE Growing == \A a \in setup.averages, g \in Time :
                        IsPrefix(average[a].files[g], average'[a].files[g])
<1>1. Control /\ Typed /\ Collections /\ [Next]_vars => [Growing]_vars
  BY CollectionFollows DEF Typed, Follows, Grows
<1>2. Spec => [][Growing]_vars
  BY <1>1, ControlAlways, TypedAlways, CollectionsAlways, PTL DEF Spec
<1>3. QED
  BY <1>2 DEF FilesGrow
=============================================================================
