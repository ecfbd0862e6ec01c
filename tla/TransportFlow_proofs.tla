--------------------------- MODULE TransportFlow_proofs ---------------------------
(***************************************************************************)
(* The resident executor's step, on whatever grid and under each of its    *)
(* policies, hands every operation what it is stated to need, and the      *)
(* caller what the step is to deliver.                                     *)
(*                                                                         *)
(* The kernels are followed one after the other: from the facts, cells     *)
(* with what they hold, that one begins with, to those it leaves.          *)
(***************************************************************************)
EXTENDS Transport_proofs

-----------------------------------------------------------------------------
(* What an operation, a worker's list and a team's program hand on.  A     *)
(* fact is a cell with what it holds.                                      *)

\* From the facts P the operation makes what it is for, and leaves Q.
Gives(op, P, Q) ==
  /\ op.needs \subseteq P
  /\ Q \subseteq {p \in P : p[1] \notin CellsOf(op.sets)} \cup op.sets

\* So does each operation of a list from what the one before it left.
Hands(f, l, P, Q) ==
  /\ f[0] \subseteq P /\ Q \subseteq f[Len(l)]
  /\ \A a \in 1 .. Len(l) : Gives(l[a], f[a - 1], f[a])
Leads(l, P, Q) == \E f : Hands(f, l, P, Q)

\* The members of a team, each on its own list.
Wrote(l) == UNION {CellsOf(l[a].sets) : a \in DOMAIN l}
Passes(r, n, P, Q) ==
  /\ \A t \in 1 .. n : IsSeq(r[t]) /\ Leads(r[t], P, {q \in Q : q[1] \in Wrote(r[t])})
  /\ \A q \in Q : (\A t \in 1 .. n : q[1] \notin Wrote(r[t])) => q \in P

\* The regions of a program, one after the other.
Carries(F, p, n, P, Q) ==
  /\ F[0] \subseteq P /\ Q \subseteq F[Len(p)]
  /\ \A x \in 1 .. Len(p) : Passes(p[x], n, F[x - 1], F[x])
Flows(p, n, P, Q) == \E F : Carries(F, p, n, P, Q)

LEMMA UpToLast ==
  ASSUME NEW n \in Nat, NEW N, 0 \in N,
         \A i \in 0 .. n : i \in N /\ i < n => i + 1 \in N
  PROVE  n \in N
PROOF
<1>1. 0 .. n \subseteq N
  BY UpTo
<1>2. n \in 0 .. n
  OBVIOUS
<1>3. QED
  BY <1>1, <1>2

LEMMA GivesWeaker ==
  ASSUME NEW op, NEW P, NEW Q, NEW R, NEW S, Gives(op, P, Q), P \subseteq R, S \subseteq Q
  PROVE  Gives(op, R, S)
PROOF
  BY DEF Gives

LEMMA LeadsWeaker ==
  ASSUME NEW l, NEW P, NEW Q, NEW R, NEW S, Leads(l, P, Q), P \subseteq R, S \subseteq Q
  PROVE  Leads(l, R, S)
PROOF
<1>1. PICK f : Hands(f, l, P, Q)
  BY DEF Leads
<1>2. Hands(f, l, R, S)
  BY <1>1 DEF Hands
<1>3. QED
  BY <1>2 DEF Leads

LEMMA PassesWeaker ==
  ASSUME NEW r, NEW n, NEW P, NEW Q, NEW R, NEW S, Passes(r, n, P, Q), P \subseteq R, S \subseteq Q
  PROVE  Passes(r, n, R, S)
PROOF
<1>1. ASSUME NEW t \in 1 .. n
      PROVE  IsSeq(r[t]) /\ Leads(r[t], R, {q \in S : q[1] \in Wrote(r[t])})
  <2>1. IsSeq(r[t]) /\ Leads(r[t], P, {q \in Q : q[1] \in Wrote(r[t])})
    BY DEF Passes
  <2>2. {q \in S : q[1] \in Wrote(r[t])} \subseteq {q \in Q : q[1] \in Wrote(r[t])}
    OBVIOUS
  <2>3. QED
    BY <2>1, <2>2, LeadsWeaker
<1>2. \A q \in S : (\A t \in 1 .. n : q[1] \notin Wrote(r[t])) => q \in R
  BY DEF Passes
<1>3. QED
  BY <1>1, <1>2 DEF Passes

LEMMA FlowsWeaker ==
  ASSUME NEW p, NEW n, NEW P, NEW Q, NEW R, NEW S, Flows(p, n, P, Q), P \subseteq R, S \subseteq Q
  PROVE  Flows(p, n, R, S)
PROOF
<1>1. PICK F : Carries(F, p, n, P, Q)
  BY DEF Flows
<1>2. Carries(F, p, n, R, S)
  BY <1>1 DEF Carries
<1>3. QED
  BY <1>2 DEF Flows

\* The elements of two sequences put together.
LEMMA JoinedElements ==
  ASSUME NEW p, NEW q, IsSeq(p), IsSeq(q), NEW r, IsJoin(r, p, q)
  PROVE  /\ IsSeq(r) /\ Len(r) = Len(p) + Len(q) /\ Len(p) \in Nat /\ Len(q) \in Nat
         /\ \A i \in 1 .. Len(p) : r[i] = p[i]
         /\ \A i \in 1 .. Len(q) : r[Len(p) + i] = q[i]
PROOF
<1> DEFINE P == {p[i] : i \in DOMAIN p}
           Q == {q[i] : i \in DOMAIN q}
<1>1. p \in Seq(P) /\ q \in Seq(Q)
  BY DEF IsSeq
<1> HIDE DEF P, Q
<1>2. p \in Seq(P \cup Q) /\ q \in Seq(P \cup Q)
  BY <1>1
<1>3. Len(p) \in Nat /\ Len(q) \in Nat
  BY <1>1, LenProperties
<1>4. \A i \in 1 .. Len(p) + Len(q) : r[i] = IF i <= Len(p) THEN p[i] ELSE q[i - Len(p)]
  BY <1>2, ConcatProperties DEF IsJoin
<1>5. IsSeq(r) /\ Len(r) = Len(p) + Len(q)
  BY Joined
<1> DEFINE m == Len(p)
           n == Len(q)
<1> HIDE DEF m, n
<1>6. /\ \A i \in 1 .. m : i \in 1 .. m + n /\ i <= m
      /\ \A i \in 1 .. n : m + i \in 1 .. m + n /\ ~ (m + i <= m) /\ (m + i) - m = i
  BY <1>3, Offsets DEF m, n
<1>7. QED
  BY <1>3, <1>4, <1>5, <1>6 DEF m, n

\* Two chains, the second from where the first arrived.
Splices(h, f, g, m, n) ==
  /\ h[m + n] = g[n] /\ h[0] = IF m = 0 THEN g[0] ELSE f[0]
  /\ \A a \in 1 .. m : h[a - 1] = f[a - 1] /\ h[a] = IF a = m THEN g[0] ELSE f[a]
  /\ \A a \in 1 .. n : h[(m + a) - 1] = g[a - 1] /\ h[m + a] = g[a]
  /\ \A a \in 1 .. m + n : a \in 1 .. m \/ \E b \in 1 .. n : a = m + b

LEMMA SplicesIs ==
  ASSUME NEW f, NEW g, NEW m \in Nat, NEW n \in Nat
  PROVE  \E h : Splices(h, f, g, m, n)
PROOF
<1> DEFINE h == [a \in 0 .. m + n |-> IF a < m THEN f[a] ELSE g[a - m]]
<1>1. \A a \in 0 .. m + n : h[a] = IF a < m THEN f[a] ELSE g[a - m]
  OBVIOUS
<1> HIDE DEF h
<1>2. m + n \in 0 .. m + n /\ ~ (m + n < m) /\ (m + n) - m = n
  OBVIOUS
<1>3. 0 \in 0 .. m + n /\ (m = 0 => ~ (0 < m) /\ 0 - m = 0) /\ (m # 0 => 0 < m)
  OBVIOUS
<1>4. h[m + n] = g[n] /\ h[0] = IF m = 0 THEN g[0] ELSE f[0]
  BY <1>1, <1>2, <1>3
<1>5. ASSUME NEW a \in 1 .. m PROVE h[a - 1] = f[a - 1] /\ h[a] = IF a = m THEN g[0] ELSE f[a]
  <2>1. /\ a - 1 \in 0 .. m + n /\ a - 1 < m /\ a \in 0 .. m + n
        /\ a = m => ~ (a < m) /\ a - m = 0
        /\ a # m => a < m
    OBVIOUS
  <2>2. QED
    BY <1>1, <2>1
<1>6. ASSUME NEW a \in 1 .. n PROVE h[(m + a) - 1] = g[a - 1] /\ h[m + a] = g[a]
  <2>1. /\ (m + a) - 1 \in 0 .. m + n /\ ~ ((m + a) - 1 < m) /\ ((m + a) - 1) - m = a - 1
        /\ m + a \in 0 .. m + n /\ ~ (m + a < m) /\ (m + a) - m = a
    OBVIOUS
  <2>2. QED
    BY <1>1, <2>1
<1>7. ASSUME NEW a \in 1 .. m + n, a \notin 1 .. m PROVE \E b \in 1 .. n : a = m + b
  <2>1. a - m \in 1 .. n /\ a = m + (a - m)
    BY <1>7
  <2>2. QED
    BY <2>1
<1>8. Splices(h, f, g, m, n)
  BY <1>4, <1>5, <1>6, <1>7 DEF Splices
<1>9. QED
  BY <1>8

LEMMA LeadsJoined ==
  ASSUME NEW p, NEW q, IsSeq(p), IsSeq(q), NEW r, IsJoin(r, p, q),
         NEW P, NEW Q, NEW R, Leads(p, P, Q), Leads(q, Q, R)
  PROVE  Leads(r, P, R)
PROOF
<1> DEFINE m == Len(p)
           n == Len(q)
<1>1. PICK f : Hands(f, p, P, Q)
  BY DEF Leads
<1>2. PICK g : Hands(g, q, Q, R)
  BY DEF Leads
<1>3. /\ Len(r) = m + n /\ m \in Nat /\ n \in Nat
      /\ \A i \in 1 .. m : r[i] = p[i]
      /\ \A i \in 1 .. n : r[m + i] = q[i]
  BY JoinedElements
<1>4. PICK h : Splices(h, f, g, m, n)
  BY <1>3, SplicesIs
<1>5. /\ f[0] \subseteq P /\ Q \subseteq f[m] /\ g[0] \subseteq Q /\ R \subseteq g[n]
      /\ \A a \in 1 .. m : Gives(p[a], f[a - 1], f[a])
      /\ \A a \in 1 .. n : Gives(q[a], g[a - 1], g[a])
  BY <1>1, <1>2 DEF Hands
<1> HIDE DEF m, n
<1>6. ASSUME NEW a \in 1 .. m PROVE Gives(r[a], h[a - 1], h[a])
  <2>1. Gives(p[a], f[a - 1], f[a])
    BY <1>5
  <2>2. h[a] \subseteq f[a]
    BY <1>4, <1>5 DEF Splices
  <2>3. Gives(p[a], f[a - 1], h[a])
    BY <2>1, <2>2, GivesWeaker
  <2>4. QED
    BY <1>3, <1>4, <2>3 DEF Splices
<1>7. ASSUME NEW a \in 1 .. n PROVE Gives(r[m + a], h[(m + a) - 1], h[m + a])
  BY <1>3, <1>4, <1>5 DEF Splices
<1>8. ASSUME NEW a \in 1 .. m + n PROVE Gives(r[a], h[a - 1], h[a])
  <2>1. CASE a \in 1 .. m
    BY <1>6, <2>1
  <2>2. CASE a \notin 1 .. m
    <3>1. PICK b \in 1 .. n : a = m + b
      BY <1>4, <2>2 DEF Splices
    <3>2. Gives(r[m + b], h[(m + b) - 1], h[m + b])
      BY <1>7
    <3>3. QED
      BY Zenon, <3>1, <3>2
  <2>3. QED
    BY <2>1, <2>2
<1>9. h[0] \subseteq P
  BY <1>4, <1>5 DEF Splices
<1>10. Hands(h, r, P, R)
  BY <1>3, <1>4, <1>5, <1>8, <1>9 DEF Hands, Splices
<1>11. QED
  BY <1>10 DEF Leads

LEMMA FlowsJoined ==
  ASSUME NEW p, NEW q, IsSeq(p), IsSeq(q), NEW r, IsJoin(r, p, q), NEW size,
         NEW P, NEW Q, NEW R, Flows(p, size, P, Q), Flows(q, size, Q, R)
  PROVE  Flows(r, size, P, R)
PROOF
<1> DEFINE m == Len(p)
           n == Len(q)
<1>1. PICK f : Carries(f, p, size, P, Q)
  BY DEF Flows
<1>2. PICK g : Carries(g, q, size, Q, R)
  BY DEF Flows
<1>3. /\ Len(r) = m + n /\ m \in Nat /\ n \in Nat
      /\ \A i \in 1 .. m : r[i] = p[i]
      /\ \A i \in 1 .. n : r[m + i] = q[i]
  BY JoinedElements
<1>4. PICK h : Splices(h, f, g, m, n)
  BY <1>3, SplicesIs
<1>5. /\ f[0] \subseteq P /\ Q \subseteq f[m] /\ g[0] \subseteq Q /\ R \subseteq g[n]
      /\ \A a \in 1 .. m : Passes(p[a], size, f[a - 1], f[a])
      /\ \A a \in 1 .. n : Passes(q[a], size, g[a - 1], g[a])
  BY <1>1, <1>2 DEF Carries
<1> HIDE DEF m, n
<1>6. ASSUME NEW a \in 1 .. m PROVE Passes(r[a], size, h[a - 1], h[a])
  <2>1. Passes(p[a], size, f[a - 1], f[a])
    BY <1>5
  <2>2. h[a] \subseteq f[a]
    BY <1>4, <1>5 DEF Splices
  <2>3. Passes(p[a], size, f[a - 1], h[a])
    BY <2>1, <2>2, PassesWeaker
  <2>4. QED
    BY <1>3, <1>4, <2>3 DEF Splices
<1>7. ASSUME NEW a \in 1 .. n PROVE Passes(r[m + a], size, h[(m + a) - 1], h[m + a])
  BY <1>3, <1>4, <1>5 DEF Splices
<1>8. ASSUME NEW a \in 1 .. m + n PROVE Passes(r[a], size, h[a - 1], h[a])
  <2>1. CASE a \in 1 .. m
    BY <1>6, <2>1
  <2>2. CASE a \notin 1 .. m
    <3>1. PICK b \in 1 .. n : a = m + b
      BY <1>4, <2>2 DEF Splices
    <3>2. Passes(r[m + b], size, h[(m + b) - 1], h[m + b])
      BY <1>7
    <3>3. QED
      BY Zenon, <3>1, <3>2
  <2>3. QED
    BY <2>1, <2>2
<1>9. h[0] \subseteq P
  BY <1>4, <1>5 DEF Splices
<1>10. Carries(h, r, size, P, R)
  BY <1>3, <1>4, <1>5, <1>8, <1>9 DEF Carries, Splices
<1>11. QED
  BY <1>10 DEF Flows

\* Nothing is handed on as it is.
LEMMA NothingFlows ==
  ASSUME NEW P
  PROVE  Leads(<<>>, P, P) /\ \A n : Flows(<<>>, n, P, P)
PROOF
<1> DEFINE f == [a \in {0} |-> P]
<1>1. Len(<<>>) = 0 /\ f[0] = P /\ 1 .. 0 = {}
  OBVIOUS
<1> HIDE DEF f
<1>2. Hands(f, <<>>, P, P) /\ \A n : Carries(f, <<>>, n, P, P)
  BY <1>1 DEF Hands, Carries
<1>3. QED
  BY <1>2 DEF Leads, Flows

LEMMA LeadsFlattened ==
  ASSUME NEW ss, IsSeq(ss), \A m \in 1 .. Len(ss) : IsSeq(ss[m]),
         NEW G, \A m \in 1 .. Len(ss) : Leads(ss[m], G[m - 1], G[m])
  PROVE  Leads(FlattenSeq(ss), G[0], G[Len(ss)])
PROOF
<1> DEFINE n == Len(ss)
           range(m) == {ss[m][i] : i \in DOMAIN ss[m]}
           S == UNION {range(m) : m \in DOMAIN ss}
<1>1. n \in Nat /\ DOMAIN ss = 1 .. n /\ ss = [m \in 1 .. n |-> ss[m]]
  BY IsSeqIs
<1>2. \A m \in 1 .. n : ss[m] \in Seq(S)
  <2> SUFFICES ASSUME NEW m \in 1 .. n PROVE ss[m] \in Seq(S)
    OBVIOUS
  <2>1. IsSeq(ss[m]) /\ m \in DOMAIN ss
    BY <1>1
  <2>2. ss[m] \in Seq(range(m))
    BY <2>1 DEF IsSeq
  <2>3. range(m) \subseteq S
    BY <2>1
  <2> HIDE DEF S, range
  <2>4. QED
    BY <2>2, <2>3
<1> HIDE DEF S
<1>3. ss \in Seq(Seq(S))
  <2>1. ss \in [1 .. n -> Seq(S)]
    BY <1>1, <1>2
  <2>2. QED
    BY <1>1, <2>1
<1>4. PICK h : Flattens(h, S, ss)
  BY <1>3, FlattenIs
<1>5. /\ h \in [0 .. n -> Seq(S)] /\ h[0] = <<>>
      /\ \A i \in 1 .. n : h[i] = h[i - 1] \o ss[i]
      /\ FlattenSeq(ss) = h[n]
  BY <1>4 DEF Flattens
<1> DEFINE N == {i \in 0 .. n : Leads(h[i], G[0], G[i])}
<1> HIDE DEF n
<1>6. 0 \in N
  BY <1>1, <1>5, NothingFlows
<1>7. ASSUME NEW i \in 0 .. n, i \in N, i < n PROVE i + 1 \in N
  <2>1. i + 1 \in 1 .. n /\ (i + 1) - 1 = i /\ i + 1 \in 0 .. n
    BY <1>1, <1>7
  <2>2. IsJoin(h[i + 1], h[i], ss[i + 1])
    BY <1>5, <2>1 DEF IsJoin
  <2>3. IsSeq(h[i]) /\ IsSeq(ss[i + 1])
    BY <1>2, <1>5, <2>1, ElementsSeq
  <2>4. Leads(h[i], G[0], G[i]) /\ Leads(ss[i + 1], G[i], G[i + 1])
    BY <1>7, <2>1 DEF n
  <2>5. Leads(h[i + 1], G[0], G[i + 1])
    BY <2>2, <2>3, <2>4, LeadsJoined
  <2>6. QED
    BY <2>1, <2>5
<1> HIDE DEF N
<1>8. n \in N
  BY <1>1, <1>6, <1>7, UpToLast
<1>9. QED
  BY <1>5, <1>8 DEF N, n

LEMMA FlowsFlattened ==
  ASSUME NEW ss, IsSeq(ss), \A m \in 1 .. Len(ss) : IsSeq(ss[m]), NEW size,
         NEW G, \A m \in 1 .. Len(ss) : Flows(ss[m], size, G[m - 1], G[m])
  PROVE  Flows(FlattenSeq(ss), size, G[0], G[Len(ss)])
PROOF
<1> DEFINE n == Len(ss)
           range(m) == {ss[m][i] : i \in DOMAIN ss[m]}
           S == UNION {range(m) : m \in DOMAIN ss}
<1>1. n \in Nat /\ DOMAIN ss = 1 .. n /\ ss = [m \in 1 .. n |-> ss[m]]
  BY IsSeqIs
<1>2. \A m \in 1 .. n : ss[m] \in Seq(S)
  <2> SUFFICES ASSUME NEW m \in 1 .. n PROVE ss[m] \in Seq(S)
    OBVIOUS
  <2>1. IsSeq(ss[m]) /\ m \in DOMAIN ss
    BY <1>1
  <2>2. ss[m] \in Seq(range(m))
    BY <2>1 DEF IsSeq
  <2>3. range(m) \subseteq S
    BY <2>1
  <2> HIDE DEF S, range
  <2>4. QED
    BY <2>2, <2>3
<1> HIDE DEF S
<1>3. ss \in Seq(Seq(S))
  <2>1. ss \in [1 .. n -> Seq(S)]
    BY <1>1, <1>2
  <2>2. QED
    BY <1>1, <2>1
<1>4. PICK h : Flattens(h, S, ss)
  BY <1>3, FlattenIs
<1>5. /\ h \in [0 .. n -> Seq(S)] /\ h[0] = <<>>
      /\ \A i \in 1 .. n : h[i] = h[i - 1] \o ss[i]
      /\ FlattenSeq(ss) = h[n]
  BY <1>4 DEF Flattens
<1> DEFINE N == {i \in 0 .. n : Flows(h[i], size, G[0], G[i])}
<1> HIDE DEF n
<1>6. 0 \in N
  <2>1. Flows(<<>>, size, G[0], G[0])
    BY NothingFlows
  <2>2. 0 \in 0 .. n /\ h[0] = <<>>
    BY <1>1, <1>5
  <2>3. QED
    BY <2>1, <2>2
<1>7. ASSUME NEW i \in 0 .. n, i \in N, i < n PROVE i + 1 \in N
  <2>1. i + 1 \in 1 .. n /\ (i + 1) - 1 = i /\ i + 1 \in 0 .. n
    BY <1>1, <1>7
  <2>2. IsJoin(h[i + 1], h[i], ss[i + 1])
    BY <1>5, <2>1 DEF IsJoin
  <2>3. IsSeq(h[i]) /\ IsSeq(ss[i + 1])
    BY <1>2, <1>5, <2>1, ElementsSeq
  <2>4. Flows(h[i], size, G[0], G[i]) /\ Flows(ss[i + 1], size, G[i], G[i + 1])
    BY <1>7, <2>1 DEF n
  <2>5. Flows(h[i + 1], size, G[0], G[i + 1])
    BY <2>2, <2>3, <2>4, FlowsJoined
  <2>6. QED
    BY <2>1, <2>5
<1> HIDE DEF N
<1>8. n \in N
  BY <1>1, <1>6, <1>7, UpToLast
<1>9. QED
  BY <1>5, <1>8 DEF N, n

-----------------------------------------------------------------------------
(* A list fused into one operation.                                        *)

\* The operation that the first ones of a list come to, for each length.
LEMMA FusedPrefixes ==
  ASSUME NEW ops, NEW n \in Nat, DOMAIN ops = 1 .. n
  PROVE  \E h : /\ h[0] = Nothing /\ FusedAll(ops) = h[n]
                /\ \A i \in 1 .. n : h[i] = Fused(h[i - 1], ops[i])
PROOF
<1> DEFINE A == UNION {ops[i].needs : i \in 1 .. n}
           B == UNION {ops[i].sets : i \in 1 .. n}
           V == [needs : SUBSET A, sets : SUBSET (B \cup (CellsOf(B) \X {Garbage}))]
           merge == [x \in 1 .. n |-> [v \in V |-> Fused(v, ops[x])]]
           Def(g) == g = [T \in SUBSET (1 .. n) |->
                            IF T = {} THEN Nothing
                            ELSE LET x == Max(T) IN Fused(g[T \ {x}], ops[x])]
           g == CHOOSE f : Def(f)
<1>1. FusedAll(ops) = g[1 .. n]
  BY DEF FusedAll, FoldLeft, MapThenFoldSet
<1>2. Nothing \in V
  BY DEF Nothing, Op
<1>3. ASSUME NEW x \in 1 .. n, NEW v \in V PROVE merge[x][v] \in V /\ merge[x][v] = Fused(v, ops[x])
  <2> DEFINE f == Fused(v, ops[x])
  <2>1. f \in V
    <3>1. ops[x].needs \in SUBSET A /\ ops[x].sets \in SUBSET B
      OBVIOUS
    <3>2. CellsOf(ops[x].sets) \in SUBSET CellsOf(B)
      BY <3>1 DEF CellsOf
    <3>3. v.needs \in SUBSET A /\ v.sets \in SUBSET (B \cup (CellsOf(B) \X {Garbage}))
      OBVIOUS
    <3> HIDE DEF A, B
    <3>4. QED
      BY <3>1, <3>2, <3>3 DEF Fused, Op
  <2> HIDE DEF V
  <2>2. merge[x][v] = f
    OBVIOUS
  <2>3. QED
    BY <2>1, <2>2
<1> HIDE DEF V, merge
<1>4. /\ \E h \in [SUBSET (1 .. n) -> V] : Unfolds(h, n, Nothing, merge)
      /\ \E f : Folded(f, n, V, Nothing, merge)
  BY <1>2, <1>3, FoldIs
<1>5. PICK h \in [SUBSET (1 .. n) -> V] : Unfolds(h, n, Nothing, merge)
  BY <1>4
<1>6. PICK f : Folded(f, n, V, Nothing, merge)
  BY <1>4
<1>7. Def(h)
  <2>1. ASSUME NEW T \in SUBSET (1 .. n)
        PROVE  h[T] = IF T = {} THEN Nothing ELSE Fused(h[T \ {Max(T)}], ops[Max(T)])
    <3>1. h[T] = IF T = {} THEN Nothing ELSE merge[Max(T)][h[T \ {Max(T)}]]
      BY <1>5 DEF Unfolds
    <3>2. CASE T # {}
      <4>1. Max(T) \in 1 .. n /\ T \ {Max(T)} \in SUBSET (1 .. n)
        BY <3>2, LastOf
      <4>2. h[T \ {Max(T)}] \in V
        BY <1>5, <4>1
      <4>3. QED
        BY <1>3, <3>1, <3>2, <4>1, <4>2
    <3>3. QED
      BY <3>1, <3>2
  <2>2. QED
    BY <1>5, <2>1
<1>8. Def(g)
  <2> HIDE DEF Def
  <2>1. QED
    BY <1>7
<1>9. FoldsWith(g, n, V, Nothing, merge)
  <2>1. \A T \in SUBSET (1 .. n) :
          g[T] = IF T = {} THEN Nothing ELSE Fused(g[T \ {Max(T)}], ops[Max(T)])
    BY <1>8
  <2> HIDE DEF g
  <2>2. g[{}] = Nothing
    BY <2>1
  <2>3. ASSUME NEW T \in SUBSET (1 .. n), T # {}, NEW v \in V, g[T \ {Max(T)}] = v
        PROVE  g[T] = merge[Max(T)][v]
    <3>1. Max(T) \in 1 .. n
      BY <2>3, LastOf
    <3>2. g[T] = Fused(v, ops[Max(T)])
      BY <2>1, <2>3
    <3>3. QED
      BY <1>3, <3>1, <3>2
  <2>4. QED
    BY <2>2, <2>3 DEF FoldsWith
<1> HIDE DEF g
<1>10. g[1 .. n] = f[n]
  BY <1>6, <1>9 DEF Folded
<1>11. f \in [0 .. n -> V] /\ f[0] = Nothing /\ \A i \in 1 .. n : f[i] = merge[i][f[i - 1]]
  BY <1>6 DEF Folded, Recurses
<1>12. ASSUME NEW i \in 1 .. n PROVE f[i] = Fused(f[i - 1], ops[i])
  <2>1. f[i - 1] \in V
    BY <1>11
  <2>2. QED
    BY <1>3, <1>11, <2>1
<1>13. QED
  BY <1>1, <1>10, <1>11, <1>12

\* What the second of two makes from what the first left.
LEMMA FusedGives ==
  ASSUME NEW a, NEW b, NEW P, NEW Q, NEW R, Gives(a, P, Q), Gives(b, Q, R)
  PROVE  Gives(Fused(a, b), P, R)
PROOF
<1> DEFINE made == CellsOf(a.sets)
           wrong == \E n \in b.needs : n[1] \in made /\ n \notin a.sets
           f == Fused(a, b)
<1>1. /\ a.needs \subseteq P /\ Q \subseteq {p \in P : p[1] \notin made} \cup a.sets
      /\ b.needs \subseteq Q /\ R \subseteq {p \in Q : p[1] \notin CellsOf(b.sets)} \cup b.sets
  BY DEF Gives
<1>2. \A p \in a.sets : p[1] \in made
  BY DEF CellsOf
<1>3. ~wrong
  BY <1>1
<1>4. /\ f.needs = a.needs \cup {n \in b.needs : n[1] \notin made}
      /\ f.sets = {p \in a.sets : p[1] \notin CellsOf(b.sets)} \cup b.sets
  BY <1>3 DEF Fused, Op
<1> HIDE DEF f
<1>5. f.needs \subseteq P
  BY <1>1, <1>2, <1>4
<1>6. CellsOf(f.sets) \subseteq made \cup CellsOf(b.sets)
  BY <1>4 DEF CellsOf
<1> HIDE DEF made
<1>7. R \subseteq {p \in P : p[1] \notin CellsOf(f.sets)} \cup f.sets
  <2>1. SUFFICES ASSUME NEW p \in R, p \notin f.sets PROVE p \in P /\ p[1] \notin CellsOf(f.sets)
    OBVIOUS
  <2>2. p \in Q /\ p[1] \notin CellsOf(b.sets) /\ p \notin a.sets
    BY <1>1, <1>4, <2>1
  <2>3. p \in P /\ p[1] \notin made
    BY <1>1, <2>2
  <2>4. QED
    BY <1>6, <2>2, <2>3
<1>8. QED
  BY <1>5, <1>7 DEF Gives, f

LEMMA FusedAllGives ==
  ASSUME NEW l, IsSeq(l), NEW P, NEW Q, Leads(l, P, Q)
  PROVE  Gives(FusedAll(l), P, Q)
PROOF
<1> DEFINE n == Len(l)
<1>1. n \in Nat /\ DOMAIN l = 1 .. n
  BY IsSeqIs
<1>2. PICK f : /\ f[0] \subseteq P /\ Q \subseteq f[n]
               /\ \A a \in 1 .. n : Gives(l[a], f[a - 1], f[a])
  BY DEF Leads, Hands
<1> HIDE DEF n
<1>3. PICK h : /\ h[0] = Nothing /\ FusedAll(l) = h[n]
               /\ \A i \in 1 .. n : h[i] = Fused(h[i - 1], l[i])
  BY <1>1, FusedPrefixes
<1> DEFINE N == {i \in 0 .. n : Gives(h[i], f[0], f[i])}
<1>4. 0 \in N
  BY <1>1, <1>3 DEF Gives, Nothing, Op, CellsOf
<1>5. ASSUME NEW i \in 0 .. n, i \in N, i < n PROVE i + 1 \in N
  <2>1. i + 1 \in 1 .. n /\ (i + 1) - 1 = i /\ i + 1 \in 0 .. n
    BY <1>1, <1>5
  <2>2. Gives(h[i], f[0], f[i]) /\ Gives(l[i + 1], f[i], f[i + 1])
    BY <1>2, <1>5, <2>1
  <2>3. h[i + 1] = Fused(h[i], l[i + 1])
    BY <1>3, <2>1
  <2>4. Gives(h[i + 1], f[0], f[i + 1])
    BY <2>2, <2>3, FusedGives
  <2>5. QED
    BY <2>1, <2>4
<1> HIDE DEF N
<1>6. n \in N
  BY <1>1, <1>4, <1>5, UpToLast
<1>7. Gives(h[n], f[0], f[n])
  BY <1>6 DEF N
<1>8. QED
  BY <1>2, <1>3, <1>7, GivesWeaker

\* What the operation writes, some operation of the list does.
LEMMA FusedAllWrites ==
  ASSUME NEW l, IsSeq(l)
  PROVE  CellsOf(FusedAll(l).sets) \subseteq Wrote(l)
PROOF
<1> DEFINE n == Len(l)
<1>1. n \in Nat /\ DOMAIN l = 1 .. n
  BY IsSeqIs
<1>2. PICK h : /\ h[0] = Nothing /\ FusedAll(l) = h[n]
               /\ \A i \in 1 .. n : h[i] = Fused(h[i - 1], l[i])
  BY <1>1, FusedPrefixes
<1> DEFINE N == {i \in 0 .. n : CellsOf(h[i].sets) \subseteq Wrote(l)}
<1> HIDE DEF n
<1>3. 0 \in N
  BY <1>1, <1>2 DEF Nothing, Op, CellsOf
<1>4. ASSUME NEW i \in 0 .. n, i \in N, i < n PROVE i + 1 \in N
  <2>1. i + 1 \in 1 .. n /\ (i + 1) - 1 = i /\ i + 1 \in 0 .. n
    BY <1>1, <1>4
  <2>2. CellsOf(h[i].sets) \subseteq Wrote(l)
    BY <1>4
  <2>3. h[i + 1] = Fused(h[i], l[i + 1])
    BY <1>2, <2>1
  <2>4. CellsOf(l[i + 1].sets) \subseteq Wrote(l)
    BY <1>1, <2>1 DEF Wrote
  <2>5. CellsOf(Fused(h[i], l[i + 1]).sets) \subseteq CellsOf(h[i].sets) \cup CellsOf(l[i + 1].sets)
    <3> DEFINE a == h[i]
               b == l[i + 1]
    <3> HIDE DEF a, b
    <3>1. CellsOf(Fused(a, b).sets) \subseteq CellsOf(a.sets) \cup CellsOf(b.sets)
      BY DEF Fused, Op, CellsOf
    <3>2. QED
      BY <3>1 DEF a, b
  <2>6. CellsOf(h[i + 1].sets) \subseteq Wrote(l)
    BY <2>2, <2>3, <2>4, <2>5
  <2>7. QED
    BY <2>1, <2>6
<1> HIDE DEF N
<1>5. n \in N
  BY <1>1, <1>3, <1>4, UpToLast
<1>6. QED
  BY <1>2, <1>5 DEF N

-----------------------------------------------------------------------------
(* Lists and regions of one kind of step.                                  *)

LEMMA GivesSeq ==
  /\ \A a : IsSeq(<<a>>)
  /\ \A a, b : IsSeq(<<a, b>>)
  /\ \A a, b, d : IsSeq(<<a, b, d>>)
  /\ \A a, b, d, e : IsSeq(<<a, b, d, e>>)
PROOF
<1>1. ASSUME NEW a PROVE IsSeq(<<a>>)
  <2>1. <<a>> \in Seq({a})
    OBVIOUS
  <2>2. QED
    BY <2>1, ElementsSeq
<1>2. ASSUME NEW a, NEW b PROVE IsSeq(<<a, b>>)
  <2>1. <<a, b>> \in Seq({a, b})
    OBVIOUS
  <2>2. QED
    BY <2>1, ElementsSeq
<1>3. ASSUME NEW a, NEW b, NEW d PROVE IsSeq(<<a, b, d>>)
  <2>1. <<a, b, d>> \in Seq({a, b, d})
    OBVIOUS
  <2>2. QED
    BY <2>1, ElementsSeq
<1>4. ASSUME NEW a, NEW b, NEW d, NEW e PROVE IsSeq(<<a, b, d, e>>)
  <2>1. <<a, b, d, e>> \in Seq({a, b, d, e})
    OBVIOUS
  <2>2. QED
    BY <2>1, ElementsSeq
<1>5. QED
  BY <1>1, <1>2, <1>3, <1>4

LEMMA LeadsOne ==
  ASSUME NEW op, NEW P, NEW Q, Gives(op, P, Q)
  PROVE  Leads(<<op>>, P, Q)
PROOF
<1> DEFINE f == [a \in 0 .. 1 |-> IF a = 0 THEN P ELSE Q]
<1>1. f[0] = P /\ f[1] = Q
  OBVIOUS
<1> HIDE DEF f
<1>2. Len(<<op>>) = 1 /\ <<op>>[1] = op
  OBVIOUS
<1>3. \A a \in 1 .. 1 : a = 1 /\ a - 1 = 0
  OBVIOUS
<1>4. Hands(f, <<op>>, P, Q)
  BY <1>1, <1>2, <1>3 DEF Hands
<1>5. QED
  BY <1>4 DEF Leads

LEMMA LeadsMore ==
  ASSUME NEW l, IsSeq(l), NEW op, NEW r, IsJoin(r, l, <<op>>),
         NEW P, NEW Q, NEW R, Leads(l, P, Q), Gives(op, Q, R)
  PROVE  Leads(r, P, R)
PROOF
<1>1. Leads(<<op>>, Q, R)
  BY LeadsOne
<1>2. IsSeq(<<op>>)
  BY GivesSeq
<1>3. QED
  BY <1>1, <1>2, LeadsJoined

LEMMA LeadsSome ==
  ASSUME NEW a, NEW P, NEW Q, Gives(a, P, Q)
  PROVE  /\ \A b, R : Gives(b, Q, R) => Leads(<<a, b>>, P, R)
         /\ \A b, d, R, S : Gives(b, Q, R) /\ Gives(d, R, S) => Leads(<<a, b, d>>, P, S)
         /\ \A b, d, e, R, S, T :
              Gives(b, Q, R) /\ Gives(d, R, S) /\ Gives(e, S, T) => Leads(<<a, b, d, e>>, P, T)
PROOF
<1>1. IsSeq(<<a>>) /\ Leads(<<a>>, P, Q)
  BY GivesSeq, LeadsOne
<1>2. ASSUME NEW b, NEW R, Gives(b, Q, R)
      PROVE  IsSeq(<<a, b>>) /\ Leads(<<a, b>>, P, R)
  <2>1. IsJoin(<<a, b>>, <<a>>, <<b>>)
    BY DEF IsJoin
  <2>2. QED
    BY <1>1, <1>2, <2>1, GivesSeq, LeadsMore
<1>3. ASSUME NEW b, NEW d, NEW R, NEW S, Gives(b, Q, R), Gives(d, R, S)
      PROVE  IsSeq(<<a, b, d>>) /\ Leads(<<a, b, d>>, P, S)
  <2>1. IsJoin(<<a, b, d>>, <<a, b>>, <<d>>)
    BY DEF IsJoin
  <2>2. IsSeq(<<a, b>>) /\ Leads(<<a, b>>, P, R)
    BY <1>2, <1>3
  <2>3. QED
    BY <1>3, <2>1, <2>2, GivesSeq, LeadsMore
<1>4. ASSUME NEW b, NEW d, NEW e, NEW R, NEW S, NEW T,
             Gives(b, Q, R), Gives(d, R, S), Gives(e, S, T)
      PROVE  Leads(<<a, b, d, e>>, P, T)
  <2>1. IsJoin(<<a, b, d, e>>, <<a, b, d>>, <<e>>)
    BY DEF IsJoin
  <2>2. IsSeq(<<a, b, d>>) /\ Leads(<<a, b, d>>, P, S)
    BY <1>3, <1>4
  <2>3. QED
    BY <1>4, <2>1, <2>2, LeadsMore
<1>5. QED
  BY <1>2, <1>3, <1>4

LEMMA FusedSome ==
  ASSUME NEW a, NEW P, NEW Q, Gives(a, P, Q)
  PROVE  /\ \A b, R : Gives(b, Q, R) => Gives(FusedAll(<<a, b>>), P, R)
         /\ \A b, d, R, S : Gives(b, Q, R) /\ Gives(d, R, S) => Gives(FusedAll(<<a, b, d>>), P, S)
         /\ \A b, d, e, R, S, T :
              Gives(b, Q, R) /\ Gives(d, R, S) /\ Gives(e, S, T) =>
                Gives(FusedAll(<<a, b, d, e>>), P, T)
PROOF
  BY LeadsSome, GivesSeq, FusedAllGives

\* A team of one in every region, each as one operation.
LEMMA AloneLeads ==
  ASSUME NEW p, IsSeq(p), \A x \in 1 .. Len(p) : IsSeq(p[x][1]),
         NEW P, NEW Q, Flows(p, 1, P, Q)
  PROVE  IsSeq(Alone(p)) /\ Leads(Alone(p), P, Q)
PROOF
<1>1. PICK F : Carries(F, p, 1, P, Q)
  BY DEF Flows
<1> DEFINE l == Alone(p)
           n == Len(p)
<1>2. n \in Nat /\ DOMAIN p = 1 .. n
  BY IsSeqIs
<1>3. l = [x \in 1 .. n |-> FusedAll(p[x][1])]
  BY <1>2 DEF Alone
<1> HIDE DEF l, n
<1>4. IsSeq(l) /\ Len(l) = n /\ \A x \in 1 .. n : l[x] = FusedAll(p[x][1])
  <2>1. l = [x \in 1 .. n |-> l[x]] /\ \A x \in 1 .. n : l[x] = FusedAll(p[x][1])
    BY <1>3
  <2>2. QED
    BY <1>2, <2>1, SeqIs
<1>5. ASSUME NEW x \in 1 .. n PROVE Gives(l[x], F[x - 1], F[x])
  <2> DEFINE m == p[x][1]
             A == F[x - 1]
             B == F[x]
             kept == {q \in B : q[1] \in Wrote(m)}
  <2>1. Passes(p[x], 1, A, B)
    BY <1>1 DEF Carries, n
  <2>2. 1 \in 1 .. 1 /\ \A t \in 1 .. 1 : t = 1
    OBVIOUS
  <2>3. Leads(m, A, kept) /\ \A q \in B : q[1] \notin Wrote(m) => q \in A
    BY <2>1, <2>2 DEF Passes
  <2>4. IsSeq(m)
    BY DEF n
  <2> HIDE DEF m, A, B
  <2>5. Gives(FusedAll(m), A, kept) /\ CellsOf(FusedAll(m).sets) \subseteq Wrote(m)
    BY <2>3, <2>4, FusedAllGives, FusedAllWrites
  <2>6. Gives(FusedAll(m), A, B)
    BY <2>3, <2>5 DEF Gives
  <2>7. QED
    BY <1>4, <2>6 DEF m, A, B
<1>6. Hands(F, l, P, Q)
  BY <1>1, <1>4, <1>5 DEF Hands, Carries, n
<1>7. QED
  BY <1>4, <1>6 DEF Leads, l

\* What the first member does alone.
LEMMA OnceIs ==
  ASSUME NEW team, Team(team), NEW op
  PROVE  /\ Len(team) \in Nat \ {0} /\ 1 \in 1 .. Len(team)
         /\ Once(team, op)[1] = <<op>>
         /\ \A t \in 1 .. Len(team) : t # 1 => Once(team, op)[t] = <<>>
PROOF
<1>1. Len(team) \in Nat \ {0} /\ 1 \in 1 .. Len(team)
  BY IsSeqIs DEF Team
<1>2. Once(team, op) = [t \in 1 .. Len(team) |-> IF t = 1 THEN <<op>> ELSE <<>>]
  BY DEF Once
<1>3. QED
  BY <1>1, <1>2

LEMMA OncePasses ==
  ASSUME NEW team, Team(team), NEW op, NEW P, NEW Q, Gives(op, P, Q)
  PROVE  Passes(Once(team, op), Len(team), P, Q)
PROOF
<1> DEFINE r == Once(team, op)
           n == Len(team)
<1>1. /\ n \in Nat \ {0} /\ 1 \in 1 .. n /\ r[1] = <<op>>
      /\ \A t \in 1 .. n : t # 1 => r[t] = <<>>
  BY OnceIs
<1> HIDE DEF r, n
<1>2. Wrote(<<op>>) = CellsOf(op.sets) /\ Wrote(<<>>) = {}
  <2>1. DOMAIN <<op>> = {1} /\ <<op>>[1] = op /\ DOMAIN <<>> = {}
    OBVIOUS
  <2>2. QED
    BY <2>1 DEF Wrote
<1>3. ASSUME NEW t \in 1 .. n PROVE Leads(r[t], P, {q \in Q : q[1] \in Wrote(r[t])})
  <2>1. CASE t = 1
    <3>1. Leads(<<op>>, P, Q)
      BY LeadsOne
    <3>2. {q \in Q : q[1] \in Wrote(r[t])} \subseteq Q
      OBVIOUS
    <3>3. QED
      BY <1>1, <2>1, <3>1, <3>2, LeadsWeaker
  <2>2. CASE t # 1
    <3>1. Leads(<<>>, P, P) /\ {q \in Q : q[1] \in Wrote(<<>>)} \subseteq P
      BY <1>2, NothingFlows
    <3>2. Leads(<<>>, P, {q \in Q : q[1] \in Wrote(<<>>)})
      BY <3>1, LeadsWeaker
    <3>3. QED
      BY <1>1, <2>2, <3>2
  <2>3. QED
    BY <2>1, <2>2
<1>4. ASSUME NEW q \in Q, \A t \in 1 .. n : q[1] \notin Wrote(r[t]) PROVE q \in P
  <2>1. q[1] \notin CellsOf(op.sets)
    BY <1>1, <1>2, <1>4
  <2>2. q \notin op.sets
    BY <2>1 DEF CellsOf
  <2>3. QED
    BY <2>2 DEF Gives
<1>5. \A t \in 1 .. n : IsSeq(r[t])
  <2>1. IsSeq(<<op>>) /\ IsSeq(<<>>)
    <3>1. <<>> \in Seq({})
      OBVIOUS
    <3>2. QED
      BY <3>1, GivesSeq, ElementsSeq
  <2>2. QED
    BY <1>1, <2>1
<1>6. QED
  BY <1>3, <1>4, <1>5 DEF Passes, r, n

\* A list of operations that the first member does while the others wait.
LEMMA SerialFlows ==
  ASSUME NEW team, Team(team), NEW l, IsSeq(l), NEW P, NEW Q, Leads(l, P, Q),
         NEW p, p = [x \in 1 .. Len(l) |-> Once(team, l[x])]
  PROVE  IsSeq(p) /\ Flows(p, Len(team), P, Q)
PROOF
<1>1. PICK f : Hands(f, l, P, Q)
  BY DEF Leads
<1>2. Len(l) \in Nat /\ p = [x \in 1 .. Len(l) |-> p[x]]
  BY IsSeqIs
<1>3. IsSeq(p) /\ Len(p) = Len(l)
  BY <1>2, SeqIs
<1>4. ASSUME NEW x \in 1 .. Len(l) PROVE Passes(p[x], Len(team), f[x - 1], f[x])
  BY <1>1, OncePasses DEF Hands
<1>5. Carries(f, p, Len(team), P, Q)
  BY <1>1, <1>3, <1>4 DEF Carries, Hands
<1>6. QED
  BY <1>3, <1>5 DEF Flows

-----------------------------------------------------------------------------
(* Parallel loops.                                                         *)

LEMMA AscendingCovers ==
  ASSUME NEW S \in SUBSET Nat, IsFiniteSet(S), NEW x \in S
  PROVE  \E m \in 1 .. Cardinality(S) : Ascending(S)[m] = x
PROOF
<1> DEFINE n == Cardinality(S)
           o == Ascending(S)
<1>1. /\ n \in Nat /\ o \in [1 .. n -> S]
      /\ \A l, m \in 1 .. n : o[l] = o[m] => l = m
  BY AscendingIs
<1>2. IsFiniteSet(1 .. n) /\ Cardinality(1 .. n) = n
  <2> HIDE DEF n
  <2>1. IsFiniteSet(1 .. n) /\ Cardinality(1 .. n) = IF 1 > n THEN 0 ELSE n - 1 + 1
    BY <1>1, FS_Interval
  <2>2. QED
    BY <1>1, <2>1
<1> HIDE DEF o
<1>3. o \in Injection(1 .. n, S)
  BY <1>1 DEF Injection, IsInjective
<1>4. o \in Surjection(1 .. n, S)
  BY <1>2, <1>3, FS_Injection
<1>5. QED
  BY <1>4 DEF Surjection, o

LEMMA ShareOfIn ==
  ASSUME NEW n \in Nat, NEW m \in 1 .. n, NEW size \in Nat \ {0}
  PROVE  ShareOf(m, n, size) \in 1 .. size
PROOF
<1> DEFINE a == (m - 1) * size
           q == a \div n
<1>1. n \in Nat \ {0} /\ m - 1 \in Nat /\ m - 1 <= n - 1
  OBVIOUS
<1>2. a \in Nat /\ a <= (n - 1) * size
  <2> DEFINE d == m - 1
             e == n - 1
  <2>1. d \in Nat /\ e \in Nat /\ d <= e
    BY <1>1
  <2> HIDE DEF d, e
  <2>2. d * size \in Nat /\ d * size <= e * size
    BY <2>1
  <2>3. QED
    BY <2>2 DEF d, e
<1>3. (n - 1) * size = n * size - size /\ n * size \in Nat
  OBVIOUS
<1> HIDE DEF a
<1>4. q \in Nat /\ n * q <= a
  BY <1>1, <1>2
<1>5. q < size
  <2>1. SUFFICES ASSUME size <= q PROVE FALSE
    BY <1>4
  <2> HIDE DEF q
  <2>2. n * size <= n * q
    BY <1>1, <1>4, <2>1
  <2> DEFINE x == n * size
             y == n * q
  <2>3. x \in Int /\ y \in Int
    BY <1>4
  <2>4. a <= x - size /\ y <= a /\ x <= y
    BY <1>2, <1>3, <1>4, <2>2
  <2> HIDE DEF x, y
  <2>5. QED
    BY <1>2, <2>3, <2>4
<1>6. ShareOf(m, n, size) = q + 1
  BY DEF ShareOf, a
<1> HIDE DEF q
<1>7. QED
  BY <1>4, <1>5, <1>6

LEMMA SharesCover ==
  ASSUME NEW iters \in SUBSET Nat, IsFiniteSet(iters), NEW size \in Nat \ {0}, NEW x \in iters
  PROVE  \E t \in 1 .. size : \E a \in 1 .. Len(Shares(iters, size)[t]) :
           Shares(iters, size)[t][a] = x
PROOF
<1> DEFINE n == Cardinality(iters)
           order == Ascending(iters)
           part(t) == {order[m] : m \in {k \in 1 .. n : ShareOf(k, n, size) = t}}
           shares == Shares(iters, size)
<1>1. n \in Nat /\ order \in [1 .. n -> iters]
  BY AscendingIs
<1>2. \A t \in 1 .. size : shares[t] = Ascending(part(t))
  BY DEF Shares
<1>3. PICK m \in 1 .. n : order[m] = x
  BY AscendingCovers
<1> HIDE DEF order, n, shares
<1> DEFINE t == ShareOf(m, n, size)
           P == part(t)
<1>4. t \in 1 .. size /\ x \in P
  BY <1>1, <1>3, ShareOfIn
<1>5. P \in SUBSET iters
  BY <1>1
<1>6. P \in SUBSET Nat /\ IsFiniteSet(P)
  BY <1>5, FS_Subset
<1>7. shares[t] = Ascending(P)
  BY <1>2, <1>4
<1> HIDE DEF P, t
<1>8. PICK a \in 1 .. Cardinality(P) : Ascending(P)[a] = x
  BY <1>4, <1>6, AscendingCovers
<1>9. Len(Ascending(P)) = Cardinality(P)
  BY <1>6, AscendingIs
<1>10. QED
  BY <1>4, <1>7, <1>8, <1>9 DEF shares

\* A share has each of its iterations once.
LEMMA ShareOnce ==
  ASSUME NEW iters \in SUBSET Nat, IsFiniteSet(iters), NEW size \in Nat \ {0}, NEW t \in 1 .. size
  PROVE  \A a, b \in 1 .. Len(Shares(iters, size)[t]) :
           Shares(iters, size)[t][a] = Shares(iters, size)[t][b] => a = b
PROOF
<1> DEFINE n == Cardinality(iters)
           order == Ascending(iters)
           P == {order[m] : m \in {k \in 1 .. n : ShareOf(k, n, size) = t}}
<1>1. n \in Nat /\ order \in [1 .. n -> iters]
  BY AscendingIs
<1>2. Shares(iters, size)[t] = Ascending(P)
  BY DEF Shares
<1> HIDE DEF order, n
<1>3. P \in SUBSET iters
  BY <1>1
<1>4. P \in SUBSET Nat /\ IsFiniteSet(P)
  BY <1>3, FS_Subset
<1> HIDE DEF P
<1>5. QED
  BY <1>2, <1>4, AscendingIs

\* Nothing in scratch, and what of P a zone does not touch.
Plain(P) == \A p \in P : p[1][1][1] \notin ScratchNames
Aside(P, zone, xs) == {p \in P : \A x \in xs : ~Inside(p[1], zone[x])}

\* Each iteration makes its own from what there was before the loop, and no
\* other touches that: so the loop makes it all, whoever runs which of them.
LEMMA LoopPasses ==
  ASSUME NEW team, Team(team), NEW iters \in SUBSET Nat, IsFiniteSet(iters), NEW r, NEW zone,
         NEW mine, NEW names, Owned(mine, names), Zoned(zone, iters, mine),
         Laid(r, team, iters, zone, mine, names),
         NEW P, Plain(P), NEW M,
         \A t \in 1 .. Len(team) : \A a \in 1 .. Len(Shares(iters, Len(team))[t]) :
           Gives(r[t][a], P, M[Shares(iters, Len(team))[t][a]]),
         \A x \in iters : \A p \in M[x] : Inside(p[1], zone[x])
  PROVE  Passes(r, Len(team), P, Aside(P, zone, iters) \cup UNION {M[x] : x \in iters})
PROOF
<1> DEFINE n == Len(team)
           Q == Aside(P, zone, iters) \cup UNION {M[x] : x \in iters}
<1>1. n \in Nat \ {0} /\ DOMAIN team = 1 .. n
  BY IsSeqIs DEF Team
<1>2. \A x, y \in iters : x # y => Apart(zone[x], zone[y])
  BY DEF Zoned
<1>3. \A x \in iters : zone[x].bufs \subseteq mine
  BY DEF Zoned
<1>4. ASSUME NEW t \in 1 .. n
      PROVE  IsSeq(r[t]) /\ Leads(r[t], P, {q \in Q : q[1] \in Wrote(r[t])})
  <2> DEFINE share == Shares(iters, n)[t]
             m == Len(share)
             l == r[t]
             w == team[t]
             ran(a) == {share[b] : b \in 1 .. a}
             f == [a \in 0 .. m |-> Aside(P, zone, ran(a)) \cup UNION {M[x] : x \in ran(a)}]
  <2>1. m \in Nat /\ \A a \in 1 .. m : share[a] \in iters
    <3>1. share \in Seq(iters)
      BY <1>1, SharesApart
    <3> HIDE DEF share
    <3>2. QED
      BY <3>1
  <2>2. \A a, b \in 1 .. m : share[a] = share[b] => a = b
    BY <1>1, ShareOnce
  <2>3. /\ l = [a \in 1 .. m |-> l[a]]
        /\ \A a \in 1 .. m : Confined(l[a], w, zone[share[a]], mine, names)
    BY DEF Laid
  <2>4. \A a \in 1 .. m : Gives(l[a], P, M[share[a]])
    OBVIOUS
  <2> HIDE DEF share, m, l, w
  <2>5. IsSeq(l) /\ Len(l) = m /\ DOMAIN l = 1 .. m
    BY <2>1, <2>3, SeqIs
  <2>6. \A a \in 0 .. m : f[a] = Aside(P, zone, ran(a)) \cup UNION {M[x] : x \in ran(a)}
    OBVIOUS
  <2> HIDE DEF f
  <2>7. f[0] \subseteq P
    <3>1. ran(0) = {} /\ 0 \in 0 .. m
      BY <2>1
    <3>2. QED
      BY <2>6, <3>1 DEF Aside
  <2>8. ASSUME NEW a \in 1 .. m PROVE Gives(l[a], f[a - 1], f[a])
    <3> DEFINE op == l[a]
               z == zone[share[a]]
    <3>1. a - 1 \in 0 .. m /\ a \in 0 .. m
      BY <2>1
    <3>2. ran(a) = ran(a - 1) \cup {share[a]} /\ share[a] \notin ran(a - 1)
      <4>1. 1 .. a = 1 .. (a - 1) \cup {a}
        BY <2>1
      <4>2. \A b \in 1 .. (a - 1) : b \in 1 .. m /\ b # a
        BY <2>1
      <4>3. QED
        BY <2>2, <4>1, <4>2
    <3>3. ran(a - 1) \subseteq iters /\ share[a] \in iters
      <4>1. \A b \in 1 .. (a - 1) : b \in 1 .. m
        BY <2>1
      <4>2. QED
        BY <2>1, <4>1
    <3>4. /\ Within(op.sets, w, z) /\ Allowed(op.needs, w, z, mine, names)
          /\ op.needs \subseteq P /\ M[share[a]] \subseteq {p \in P : p[1] \notin CellsOf(op.sets)} \cup op.sets
      BY <2>3, <2>4 DEF Confined, Gives
    <3> DEFINE R == ran(a - 1)
    <3>5. \A x \in R : x \in iters /\ x # share[a] /\ Apart(zone[x], z) /\ Apart(z, zone[x])
                       /\ zone[x].bufs = z.bufs /\ zone[x].bufs \subseteq mine
      BY <1>2, <1>3, <3>2, <3>3 DEF Zoned
    <3>6. \A p \in P : ~Scratched(p[1], w)
      BY DEF Plain, Scratched
    <3> HIDE DEF R, ran
    <3>7. op.needs \subseteq f[a - 1]
      <4>1. SUFFICES ASSUME NEW p \in op.needs, NEW x \in R PROVE ~Inside(p[1], zone[x])
        BY <2>6, <3>1, <3>4 DEF Aside, R
      <4>2. Inside(p[1], z) \/ p[1][1] \in mine \ z.bufs \/ p[1][1][1] \notin names
        BY <3>4, <3>6 DEF Allowed
      <4>3. Inside(p[1], z) => ~Inside(p[1], zone[x])
        BY <3>5 DEF Apart
      <4>4. Inside(p[1], zone[x]) => p[1][1] \in z.bufs /\ p[1][1] \in mine
        BY <3>5 DEF Inside
      <4>5. \A buf \in mine : buf[1] \in names
        BY DEF Owned
      <4>6. QED
        BY <4>2, <4>3, <4>4, <4>5
    <3>8. ASSUME NEW q \in f[a] PROVE q \in {p \in f[a - 1] : p[1] \notin CellsOf(op.sets)} \cup op.sets
      <4>1. q \in Aside(P, zone, R \cup {share[a]}) \/ (\E x \in R : q \in M[x]) \/ q \in M[share[a]]
        <5>1. ran(a) = R \cup {share[a]}
          BY <3>2 DEF R
        <5>2. q \in Aside(P, zone, ran(a)) \/ \E x \in ran(a) : q \in M[x]
          BY <2>6, <3>1, <3>8
        <5>3. QED
          BY <5>1, <5>2
      <4>2. CASE q \in M[share[a]] /\ q \notin op.sets
        <5>1. q \in P /\ q[1] \notin CellsOf(op.sets) /\ Inside(q[1], z)
          BY <3>3, <3>4, <4>2
        <5>2. \A x \in R : ~Inside(q[1], zone[x])
          BY <3>5, <5>1 DEF Apart
        <5>3. QED
          BY <2>6, <3>1, <5>1, <5>2 DEF Aside, R
      <4>3. ASSUME ~Inside(q[1], z), q[1][1][1] \notin ScratchNames PROVE q[1] \notin CellsOf(op.sets)
        BY <3>4, <4>3 DEF Within, Scratched, CellsOf
      <4>4. CASE q \in Aside(P, zone, R \cup {share[a]})
        BY <2>6, <3>1, <4>3, <4>4 DEF Aside, R, Plain
      <4>5. ASSUME NEW x \in R, q \in M[x] PROVE q \in f[a - 1] /\ q[1] \notin CellsOf(op.sets)
        <5>1. Inside(q[1], zone[x])
          BY <3>5, <4>5
        <5>2. ~Inside(q[1], z)
          BY <3>5, <5>1 DEF Apart
        <5>3. q[1][1][1] \notin ScratchNames
          <6>1. q[1][1] \in mine
            BY <3>5, <5>1 DEF Inside
          <6>2. QED
            BY <6>1 DEF Owned
        <5>4. q \in f[a - 1]
          BY <2>6, <3>1, <4>5 DEF R
        <5>5. QED
          BY <4>3, <5>2, <5>3, <5>4
      <4>6. QED
        BY <4>1, <4>2, <4>4, <4>5
    <3>9. Gives(op, f[a - 1], f[a])
      BY <3>7, <3>8 DEF Gives
    <3>10. QED
      BY <3>9
  <2>9. {q \in Q : q[1] \in Wrote(l)} \subseteq f[m]
    <3> SUFFICES ASSUME NEW q \in Q, q[1] \in Wrote(l) PROVE q \in f[m]
      OBVIOUS
    <3>1. m \in 0 .. m
      BY <2>1
    <3>2. PICK a \in 1 .. m : q[1] \in CellsOf(l[a].sets)
      BY <2>5 DEF Wrote
    <3>3. Inside(q[1], zone[share[a]]) \/ Scratched(q[1], w)
      BY <2>3, <3>2 DEF Confined, Within, CellsOf
    <3>4. CASE q \in Aside(P, zone, iters)
      <4>1. q \in Aside(P, zone, ran(m))
        BY <2>1, <3>4 DEF Aside
      <4>2. QED
        BY <2>6, <3>1, <4>1
    <3>5. CASE q \notin Aside(P, zone, iters)
      <4>1. PICK x \in iters : q \in M[x]
        BY <3>5
      <4>2. Inside(q[1], zone[x])
        BY <4>1
      <4>3. q[1][1][1] \notin ScratchNames
        BY <1>3, <4>2 DEF Inside, Owned
      <4>4. Inside(q[1], zone[share[a]])
        BY <3>3, <4>3 DEF Scratched
      <4>5. x = share[a]
        BY <1>2, <2>1, <4>2, <4>4 DEF Apart
      <4>6. x \in ran(m)
        BY <4>5
      <4>7. q \in UNION {M[y] : y \in ran(m)}
        BY <4>1, <4>6
      <4>8. QED
        BY <2>6, <3>1, <4>7
    <3>6. QED
      BY <3>4, <3>5
  <2>10. Hands(f, l, P, {q \in Q : q[1] \in Wrote(l)})
    BY <2>5, <2>7, <2>8, <2>9 DEF Hands
  <2>11. QED
    BY <2>5, <2>10 DEF Leads, l
<1>5. ASSUME NEW q \in Q, \A t \in 1 .. n : q[1] \notin Wrote(r[t]) PROVE q \in P
  <2>1. CASE q \in Aside(P, zone, iters)
    BY <2>1 DEF Aside
  <2>2. ASSUME NEW x \in iters, q \in M[x] PROVE q \in P
    <3>0. PICK t \in 1 .. n : \E a \in 1 .. Len(Shares(iters, n)[t]) : Shares(iters, n)[t][a] = x
      BY <1>1, SharesCover
    <3>1. PICK a \in 1 .. Len(Shares(iters, n)[t]) : Shares(iters, n)[t][a] = x
      BY <3>0
    <3> DEFINE op == r[t][a]
    <3>2. Gives(op, P, M[x])
      BY <3>1
    <3>3. a \in DOMAIN r[t]
      BY <3>1 DEF Laid
    <3>4. q[1] \notin CellsOf(op.sets)
      BY <1>5, <3>1, <3>3 DEF Wrote
    <3> HIDE DEF op
    <3>5. QED
      BY <2>2, <3>2, <3>4 DEF Gives, CellsOf
  <2>3. QED
    BY <2>1, <2>2
<1>6. Passes(r, n, P, Q)
  BY <1>4, <1>5 DEF Passes
<1>7. QED
  BY <1>6

-----------------------------------------------------------------------------
(* What a kernel leaves: all that is not in the zone it writes, and what   *)
(* it makes there.                                                         *)

Beyond(P, z) == {p \in P : ~Inside(p[1], z)}

LEMMA GivesOp ==
  ASSUME NEW S, NEW T, NEW P, S \subseteq P, NEW M, M \subseteq T
  PROVE  Gives(Op(S, T), P, M)
PROOF
  BY DEF Gives, Op

LEMMA GivesBeyond ==
  ASSUME NEW S, NEW T, NEW P, S \subseteq P, NEW z, \A p \in T : Inside(p[1], z)
  PROVE  Gives(Op(S, T), P, Beyond(P, z) \cup T)
PROOF
<1>1. \A p \in Beyond(P, z) : p \in P /\ p[1] \notin CellsOf(T)
  BY DEF Beyond, CellsOf
<1>2. QED
  BY <1>1 DEF Gives, Op

\* A loop over zones of z makes there what its iterations make in theirs.
LEMMA LoopMakes ==
  ASSUME NEW team, Team(team), NEW c, InContext(c), NEW r, NEW iters, NEW zone,
         Apportioned(r, team, iters, zone, c), NEW P, Plain(P), NEW M, NEW N, NEW z,
         \A t \in 1 .. Len(team) : \A a \in 1 .. Len(Shares(iters, Len(team))[t]) :
           Gives(r[t][a], P, M[Shares(iters, Len(team))[t][a]]),
         \A x \in iters : \A p \in M[x] : Inside(p[1], zone[x]),
         \A x \in iters : \A cell : Inside(cell, zone[x]) => Inside(cell, z),
         \A p \in N : \E x \in iters : p \in M[x]
  PROVE  Passes(r, Len(team), P, Beyond(P, z) \cup N)
PROOF
<1>1. /\ iters \in SUBSET Nat /\ IsFiniteSet(iters) /\ Zoned(zone, iters, Mine(c))
      /\ Laid(r, team, iters, zone, Mine(c), PrivateNames)
  BY DEF Apportioned
<1>2. Owned(Mine(c), PrivateNames)
  BY ContextOwned
<1>3. Passes(r, Len(team), P, Aside(P, zone, iters) \cup UNION {M[x] : x \in iters})
  BY <1>1, <1>2, LoopPasses
<1>4. Beyond(P, z) \cup N \subseteq Aside(P, zone, iters) \cup UNION {M[x] : x \in iters}
  BY DEF Beyond, Aside
<1>5. QED
  BY <1>3, <1>4, PassesWeaker

\* Terms of part of an array are among those of all of it.
LEMMA HoldPart ==
  ASSUME NEW buf, NEW K, NEW J, NEW I, NEW name, NEW c, NEW L, NEW M, NEW N,
         K \subseteq L, J \subseteq M, I \subseteq N
  PROVE  Hold(buf, K, J, I, name, c) \subseteq Hold(buf, L, M, N, name, c)
PROOF
  BY DEF Hold

LEMMA TermPart ==
  ASSUME NEW name, NEW s, NEW K, NEW J, NEW I, NEW L, NEW M, NEW N,
         K \subseteq L, J \subseteq M, I \subseteq N
  PROVE  /\ Term(name, s, K, J, I) \subseteq Term(name, s, L, M, N)
         /\ Fresh(name, s, K, J, I) \subseteq Fresh(name, s, L, M, N)
         /\ \A as : TermAs(name, as, s, K, J, I) \subseteq TermAs(name, as, s, L, M, N)
PROOF
<1>1. \A buf : At(buf, K, J, I) \subseteq At(buf, L, M, N)
  BY DEF At
<1>2. \A A, B, V : A \subseteq B => A \X V \subseteq B \X V
  OBVIOUS
<1>3. QED
  BY <1>1, <1>2 DEF Term, Fresh, TermAs

LEMMA PlanePart ==
  ASSUME NEW buf, NEW k, NEW J, NEW I, NEW name, NEW c, NEW M, NEW N, J \subseteq M, I \subseteq N
  PROVE  Plane(buf, k, J, I, name, c) \subseteq Plane(buf, k, M, N, name, c)
PROOF
  BY DEF Plane

LEMMA AveragedPart ==
  ASSUME NEW c, NEW k, NEW J, NEW I, NEW M, NEW N, J \subseteq M, I \subseteq N
  PROVE  Averaged(c, k, J, I) \subseteq Averaged(c, k, M, N)
PROOF
<1>1. J \cap Polar \subseteq M \cap Polar /\ J \ Polar \subseteq M \ Polar
  OBVIOUS
<1>2. QED
  BY <1>1, HoldPart DEF Averaged, Entering

\* Rows and columns by their number in a loop over cells.
LEMMA CellNumber ==
  ASSUME NEW n \in Nat, NEW j \in 0 .. n - 1, NEW i \in Cols
  PROVE  \E x \in 0 .. n * NLon - 1 : x \div NLon = j /\ x % NLon = i
PROOF
<1>1. NLon \in Nat \ {0} /\ i \in Nat /\ i < NLon
  BY GridAssumption DEF Cols
<1> DEFINE x == j * NLon + i
<1>2. x \in Nat /\ x \div NLon = j /\ x % NLon = i
  BY <1>1, DivisionIs
<1>3. x <= n * NLon - 1
  <2> DEFINE m == n - 1
  <2>1. j \in Nat /\ m \in Int /\ j <= m /\ n = m + 1
    OBVIOUS
  <2> HIDE DEF m
  <2>2. j * NLon <= m * NLon
    BY <1>1, <2>1
  <2>3. n * NLon = m * NLon + NLon
    BY <1>1, <2>1
  <2> DEFINE a == j * NLon
             b == m * NLon
             d == n * NLon
  <2>4. a \in Int /\ b \in Int /\ d \in Int
    BY <1>1, <2>1
  <2> HIDE DEF a, b, d
  <2>5. a <= b /\ d = b + NLon
    BY <2>2, <2>3 DEF a, b, d
  <2>6. a + i <= d - 1
    BY <1>1, <2>4, <2>5
  <2>7. QED
    BY <2>6 DEF a, d
<1>4. n * NLon \in Int
  BY <1>1
<1> HIDE DEF x
<1>5. x \in 0 .. n * NLon - 1
  BY <1>2, <1>3, <1>4
<1>6. QED
  BY <1>2, <1>5

LEMMA CellIn ==
  ASSUME NEW n \in Nat, NEW x \in 0 .. n * NLon - 1
  PROVE  x \div NLon \in 0 .. n - 1 /\ x % NLon \in Cols
PROOF
<1>1. NLon \in Nat \ {0}
  BY GridAssumption
<1> DEFINE q == x \div NLon
<1>2. n * NLon \in Int
  BY <1>1
<1>3. x \in Nat /\ x < n * NLon
  BY <1>2
<1>4. q \in Nat /\ q * NLon <= x /\ x % NLon \in Cols
  BY <1>1, <1>3 DEF Cols
<1>5. q < n
  <2>1. SUFFICES ASSUME n <= q PROVE FALSE
    BY <1>4
  <2> HIDE DEF q
  <2>2. n * NLon <= q * NLon
    BY <1>1, <1>4, <2>1
  <2> DEFINE a == n * NLon
             b == q * NLon
  <2>3. a \in Int /\ b \in Int
    BY <1>1, <1>4
  <2>4. x < a /\ b <= x /\ a <= b
    BY <1>3, <1>4, <2>2
  <2> HIDE DEF a, b
  <2>5. QED
    BY <1>3, <2>3, <2>4
<1>6. QED
  BY <1>4, <1>5

-----------------------------------------------------------------------------
(* What the loops over rows, columns and cells make.                       *)

In(S, z) == \A p \in S : Inside(p[1], z)

LEMMA PassesKeep ==
  ASSUME NEW r, NEW n, NEW P, NEW Q, Passes(r, n, P, Q), NEW R, R \subseteq P,
         \A t \in 1 .. n : \A p \in R : p[1] \notin Wrote(r[t])
  PROVE  Passes(r, n, P, Q \cup R)
PROOF
<1>1. \A t \in 1 .. n : {q \in Q \cup R : q[1] \in Wrote(r[t])} = {q \in Q : q[1] \in Wrote(r[t])}
  OBVIOUS
<1>2. QED
  BY <1>1 DEF Passes

LEMMA RowsMake ==
  ASSUME NEW team, Team(team), NEW c, InContext(c), NEW r, NEW iters, NEW bufs, NEW K, NEW I,
         Apportioned(r, team, iters, RowZones(iters, bufs, K, I), c), NEW P, Plain(P),
         NEW N, In(N, Zone(bufs, K, iters, I)),
         \A t \in 1 .. Len(team) : \A a \in 1 .. Len(Shares(iters, Len(team))[t]) :
           Gives(r[t][a], P, {p \in N : p[1][3] = Shares(iters, Len(team))[t][a]})
  PROVE  Passes(r, Len(team), P, Beyond(P, Zone(bufs, K, iters, I)) \cup N)
PROOF
<1> DEFINE zone == RowZones(iters, bufs, K, I)
           z == Zone(bufs, K, iters, I)
           M == [x \in iters |-> {p \in N : p[1][3] = x}]
<1>1. iters \in SUBSET Nat /\ IsFiniteSet(iters)
  BY DEF Apportioned
<1>2. \A t \in 1 .. Len(team) : \A a \in 1 .. Len(Shares(iters, Len(team))[t]) :
        Gives(r[t][a], P, M[Shares(iters, Len(team))[t][a]])
  BY <1>1, ShareIn
<1>3. \A x \in iters : \A p \in M[x] : Inside(p[1], zone[x])
  BY DEF In, Inside, Zone, RowZones
<1>4. \A x \in iters : \A cell : Inside(cell, zone[x]) => Inside(cell, z)
  BY DEF Inside, Zone, RowZones
<1>5. \A p \in N : \E x \in iters : p \in M[x]
  BY DEF In, Inside, Zone
<1>6. Apportioned(r, team, iters, zone, c)
  OBVIOUS
<1> HIDE DEF zone, z, M
<1>7. Passes(r, Len(team), P, Beyond(P, z) \cup N)
  BY <1>2, <1>3, <1>4, <1>5, <1>6, LoopMakes
<1>8. QED
  BY <1>7 DEF z

LEMMA ColumnsMake ==
  ASSUME NEW team, Team(team), NEW c, InContext(c), NEW r, NEW iters, NEW bufs, NEW K, NEW J,
         Apportioned(r, team, iters, ColumnZones(iters, bufs, K, J), c), NEW P, Plain(P),
         NEW N, In(N, Zone(bufs, K, J, iters)),
         \A t \in 1 .. Len(team) : \A a \in 1 .. Len(Shares(iters, Len(team))[t]) :
           Gives(r[t][a], P, {p \in N : p[1][4] = Shares(iters, Len(team))[t][a]})
  PROVE  Passes(r, Len(team), P, Beyond(P, Zone(bufs, K, J, iters)) \cup N)
PROOF
<1> DEFINE zone == ColumnZones(iters, bufs, K, J)
           z == Zone(bufs, K, J, iters)
           M == [x \in iters |-> {p \in N : p[1][4] = x}]
<1>1. iters \in SUBSET Nat /\ IsFiniteSet(iters)
  BY DEF Apportioned
<1>2. \A t \in 1 .. Len(team) : \A a \in 1 .. Len(Shares(iters, Len(team))[t]) :
        Gives(r[t][a], P, M[Shares(iters, Len(team))[t][a]])
  BY <1>1, ShareIn
<1>3. \A x \in iters : \A p \in M[x] : Inside(p[1], zone[x])
  BY DEF In, Inside, Zone, ColumnZones
<1>4. \A x \in iters : \A cell : Inside(cell, zone[x]) => Inside(cell, z)
  BY DEF Inside, Zone, ColumnZones
<1>5. \A p \in N : \E x \in iters : p \in M[x]
  BY DEF In, Inside, Zone
<1>6. Apportioned(r, team, iters, zone, c)
  OBVIOUS
<1> HIDE DEF zone, z, M
<1>7. Passes(r, Len(team), P, Beyond(P, z) \cup N)
  BY <1>2, <1>3, <1>4, <1>5, <1>6, LoopMakes
<1>8. QED
  BY <1>7 DEF z

\* A loop over the cells of n rows J, the first of them row "from".
OverCells(iters, J, from, n) ==
  from \in Nat /\ n \in Nat /\ iters = 0 .. n * NLon - 1 /\ J = from .. from + n - 1
ByCells(zone, M, iters, bufs, K, N, from) ==
  /\ \A x \in iters : zone[x] = Zone(bufs, K, {from + x \div NLon}, {x % NLon})
  /\ M = [x \in iters |-> {p \in N : p[1][3] = from + x \div NLon /\ p[1][4] = x % NLon}]

LEMMA CellsMake ==
  ASSUME NEW team, Team(team), NEW c, InContext(c), NEW r, NEW n, NEW from, NEW iters, NEW J,
         OverCells(iters, J, from, n), NEW zone, NEW M, NEW bufs, NEW K, NEW N,
         ByCells(zone, M, iters, bufs, K, N, from), Apportioned(r, team, iters, zone, c),
         NEW P, Plain(P), In(N, Zone(bufs, K, J, Cols)),
         \A t \in 1 .. Len(team) : \A a \in 1 .. Len(Shares(iters, Len(team))[t]) :
           Gives(r[t][a], P, M[Shares(iters, Len(team))[t][a]])
  PROVE  Passes(r, Len(team), P, Beyond(P, Zone(bufs, K, J, Cols)) \cup N)
PROOF
<1> DEFINE z == Zone(bufs, K, J, Cols)
<1>1. iters \in SUBSET Nat /\ IsFiniteSet(iters)
  BY DEF Apportioned
<1>2. /\ \A x \in iters : M[x] = {p \in N : p[1][3] = from + x \div NLon /\ p[1][4] = x % NLon}
      /\ \A x \in iters : zone[x] = Zone(bufs, K, {from + x \div NLon}, {x % NLon})
      /\ from \in Nat /\ n \in Nat /\ iters = 0 .. n * NLon - 1 /\ J = from .. from + n - 1
  BY DEF OverCells, ByCells
<1>3. ASSUME NEW x \in iters, NEW p \in M[x] PROVE Inside(p[1], zone[x])
  <2> DEFINE a == from + x \div NLon
             b == x % NLon
  <2>1. p \in N /\ p[1][3] = a /\ p[1][4] = b /\ zone[x] = Zone(bufs, K, {a}, {b})
    BY <1>2, <1>3
  <2> HIDE DEF a, b
  <2>2. QED
    BY <2>1 DEF In, Inside, Zone
<1>4. ASSUME NEW x \in iters PROVE from + x \div NLon \in J /\ x % NLon \in Cols
  <2>1. x \div NLon \in 0 .. n - 1 /\ x % NLon \in Cols
    BY <1>2, CellIn
  <2> DEFINE q == x \div NLon
  <2> HIDE DEF q
  <2>2. q \in 0 .. n - 1 => from + q \in J
    BY <1>2
  <2>3. QED
    BY <2>1, <2>2 DEF q
<1>5. ASSUME NEW x \in iters, NEW cell, Inside(cell, zone[x]) PROVE Inside(cell, z)
  <2> DEFINE a == from + x \div NLon
             b == x % NLon
  <2>1. a \in J /\ b \in Cols /\ zone[x] = Zone(bufs, K, {a}, {b})
    BY <1>2, <1>4
  <2> HIDE DEF a, b
  <2>2. QED
    BY <1>5, <2>1 DEF Inside, Zone
<1>6. ASSUME NEW p \in N PROVE \E x \in iters : p \in M[x]
  <2>1. p[1][3] \in J /\ p[1][4] \in Cols
    BY DEF In, Inside, Zone
  <2>2. p[1][3] - from \in 0 .. n - 1 /\ p[1][3] = from + (p[1][3] - from)
    BY <1>2, <2>1
  <2>3. PICK x \in iters : x \div NLon = p[1][3] - from /\ x % NLon = p[1][4]
    BY <1>2, <2>1, <2>2, CellNumber
  <2>4. QED
    BY <1>2, <2>2, <2>3
<1> HIDE DEF z
<1>7. Passes(r, Len(team), P, Beyond(P, z) \cup N)
  BY <1>3, <1>5, <1>6, LoopMakes
<1>8. QED
  BY <1>7 DEF z

\* The part of a term on one row, in one column, at one level, in one cell.
LEMMA HoldOn ==
  ASSUME NEW buf, NEW K, NEW J, NEW I, NEW name, NEW c
  PROVE  /\ \A x : {p \in Hold(buf, K, J, I, name, c) : p[1][3] = x} \subseteq Hold(buf, K, {x}, I, name, c)
         /\ \A x : {p \in Hold(buf, K, J, I, name, c) : p[1][4] = x} \subseteq Hold(buf, K, J, {x}, name, c)
         /\ \A x, y : {p \in Hold(buf, K, J, I, name, c) : p[1][3] = x /\ p[1][4] = y}
                        \subseteq Hold(buf, K, {x}, {y}, name, c)
PROOF
  BY DEF Hold

LEMMA PlaneOn ==
  ASSUME NEW buf, NEW k, NEW J, NEW I, NEW name, NEW c
  PROVE  /\ \A x : {p \in Plane(buf, k, J, I, name, c) : p[1][3] = x} \subseteq Plane(buf, k, {x}, I, name, c)
         /\ \A x : {p \in Plane(buf, k, J, I, name, c) : p[1][4] = x} \subseteq Plane(buf, k, J, {x}, name, c)
PROOF
  BY DEF Plane

LEMMA HoldIn ==
  ASSUME NEW buf, NEW K, NEW J, NEW I, NEW name, NEW c, NEW bufs, buf \in bufs
  PROVE  In(Hold(buf, K, J, I, name, c), Zone(bufs, K, J, I))
PROOF
  BY DEF Hold, In, Inside, Zone

LEMMA PlaneIn ==
  ASSUME NEW buf, NEW k, NEW J, NEW I, NEW name, NEW c, NEW bufs, buf \in bufs, NEW K, 0 \in K
  PROVE  In(Plane(buf, k, J, I, name, c), Zone(bufs, K, J, I))
PROOF
  BY DEF Plane, In, Inside, Zone

LEMMA CapsIn ==
  ASSUME NEW c, NEW k, NEW I, NEW pair \in {"dao2", "flux"}, NEW K, 0 \in K, NEW J, 0 \in J,
         NEW bufs, CapBuffers(c) \subseteq bufs
  PROVE  /\ In(Caps(pair, k, I, c), Zone(bufs, K, J, I))
         /\ \A x : {p \in Caps(pair, k, I, c) : p[1][4] = x} \subseteq Caps(pair, k, {x}, c)
PROOF
<1>1. In(Caps(pair, k, I, c), Zone(bufs, K, J, I))
  BY CapsLie DEF In, Inside, Zone
<1>2. ASSUME NEW x, NEW p \in Caps(pair, k, I, c), p[1][4] = x PROVE p \in Caps(pair, k, {x}, c)
  <2>1. PICK name \in CapNames[pair] : p \in Plane(<<name, c.cap>>, k, {0}, I, pair, c)
    BY DEF Caps
  <2> DEFINE B == <<name, c.cap>>
             J0 == {0}
  <2>2. p \in Plane(B, k, J0, {x}, pair, c)
    <3> HIDE DEF B, J0
    <3>1. p \in Plane(B, k, J0, I, pair, c)
      BY <2>1 DEF B, J0
    <3>2. {q \in Plane(B, k, J0, I, pair, c) : q[1][4] = x} \subseteq Plane(B, k, J0, {x}, pair, c)
      BY PlaneOn
    <3>3. QED
      BY <1>2, <3>1, <3>2
  <2>3. QED
    BY <2>1, <2>2 DEF Caps
<1>3. QED
  BY <1>1, <1>2

-----------------------------------------------------------------------------
(* The kernels of one level.                                               *)

\* The advection plan of step s is in P.
WindFields == {"delp1", "delp2", "ua", "va", "cx", "cy", "pu", "xmass", "wz", "courant"}
Planned(P, s) ==
  /\ \A name \in WindFields : Field(name, s) \subseteq P
  /\ Term("ymass", s, Levels, FluxRows, Cols) \subseteq P
  /\ Term("jn", s, Levels, {0}, {0}) \subseteq P /\ Term("js", s, Levels, {0}, {0}) \subseteq P

LEMMA PlannedPart ==
  ASSUME NEW P, NEW s, Planned(P, s), NEW K, K \subseteq Levels
  PROVE  /\ \A name \in WindFields : \A J, I :
              J \subseteq Rows /\ I \subseteq Cols => Term(name, s, K, J, I) \subseteq P
         /\ \A I : I \subseteq Cols => Term("ymass", s, K, FluxRows, I) \subseteq P
         /\ Term("jn", s, K, {0}, {0}) \subseteq P /\ Term("js", s, K, {0}, {0}) \subseteq P
PROOF
<1>1. ASSUME NEW name \in WindFields, NEW J, NEW I, J \subseteq Rows, I \subseteq Cols
      PROVE  Term(name, s, K, J, I) \subseteq P
  BY <1>1, TermPart DEF Planned, Field
<1>2. ASSUME NEW I, I \subseteq Cols PROVE Term("ymass", s, K, FluxRows, I) \subseteq P
  BY <1>2, TermPart DEF Planned
<1>3. ASSUME NEW name, NEW J PROVE Term(name, s, K, J, J) \subseteq Term(name, s, Levels, J, J)
  BY TermPart
<1>4. Term("jn", s, K, {0}, {0}) \subseteq P /\ Term("js", s, K, {0}, {0}) \subseteq P
  BY <1>3 DEF Planned
<1>5. QED
  BY <1>1, <1>2, <1>4

\* Parts of what P has.
LEMMA AveragedIn ==
  ASSUME NEW P, NEW c, NEW k, NEW M, NEW N, Averaged(c, k, M, N) \subseteq P
  PROVE  \A J, I : J \subseteq M /\ I \subseteq N => Averaged(c, k, J, I) \subseteq P
PROOF
  BY AveragedPart

LEMMA HoldSub ==
  ASSUME NEW P, NEW buf, NEW name, NEW c, NEW L, NEW M, NEW N, Hold(buf, L, M, N, name, c) \subseteq P
  PROVE  \A K, J, I : K \subseteq L /\ J \subseteq M /\ I \subseteq N =>
           Hold(buf, K, J, I, name, c) \subseteq P
PROOF
  BY HoldPart

LEMMA PlaneSub ==
  ASSUME NEW P, NEW buf, NEW k, NEW name, NEW c, NEW M, NEW N, Plane(buf, k, M, N, name, c) \subseteq P
  PROVE  \A J, I : J \subseteq M /\ I \subseteq N => Plane(buf, k, J, I, name, c) \subseteq P
PROOF
  BY PlanePart

LEMMA GridIs ==
  /\ Interior \subseteq Rows /\ Polar \subseteq Rows /\ CapRows \subseteq Polar /\ PoleRows \subseteq Polar
  /\ Polar \cup Interior = Rows /\ Polar \cap Interior = {} /\ PoleRows \cup CapRows = Polar
  /\ PoleRows \cap CapRows = {} /\ (0 .. J1P - 1) \cup (J2P + 1 .. NLat - 1) = Polar
  /\ Interior \cup PoleRows = Rows \ CapRows /\ 0 \in Cols
PROOF
  BY GridAssumption DEF Interior, Polar, CapRows, PoleRows, Rows, J1P, J2P, Cols

LEMMA AverageConstPolesMakes ==
  ASSUME NEW c, NEW k \in Levels, NEW P, Planned(P, c.s), Entering(c, {k}, Polar, Cols) \subseteq P
  PROVE  Gives(AverageConstPoles(c, k), P,
               Beyond(P, Zone({c.q}, {k}, Polar, Cols)) \cup Hold(c.q, {k}, Polar, Cols, "pole_mean", c))
PROOF
<1>1. {k} \subseteq Levels /\ Polar \subseteq Rows
  BY GridIs
<1>2. Term("delp1", c.s, {k}, Polar, Cols) \subseteq P
  BY <1>1, PlannedPart DEF WindFields
<1> DEFINE N == Hold(c.q, {k}, Polar, Cols, "pole_mean", c)
           E == Entering(c, {k}, Polar \ Polar, Cols)
<1>3. In(N, Zone({c.q}, {k}, Polar, Cols))
  BY HoldIn
<1>4. E = {}
  BY DEF Entering, Hold
<1>5. Averaged(c, k, Polar, Cols) = N
  <2>1. Averaged(c, k, Polar, Cols) = Hold(c.q, {k}, Polar \cap Polar, Cols, "pole_mean", c) \cup E
    BY DEF Averaged
  <2>2. Polar \cap Polar = Polar
    OBVIOUS
  <2> HIDE DEF E
  <2>3. QED
    BY <1>4, <2>1, <2>2
<1> HIDE DEF N, E
<1>6. QED
  BY <1>2, <1>3, <1>5, GivesBeyond DEF AverageConstPoles, In, N

LEMMA InitDqMassMakes ==
  ASSUME NEW team, Team(team), NEW c, InContext(c), NEW k \in Levels, NEW P, Plain(P),
         Planned(P, c.s), Averaged(c, k, Rows, Cols) \subseteq P
  PROVE  Passes(InitDqMassRegion(team, c, k), Len(team), P,
                Beyond(P, Zone({c.dq}, {k}, Rows, Cols)) \cup Hold(c.dq, {k}, Rows, Cols, "mass", c))
PROOF
<1> DEFINE iters == 0 .. NLat * NLon - 1
           r == InitDqMassRegion(team, c, k)
           zone == CellZones(iters, {c.dq}, {k})
           N == Hold(c.dq, {k}, Rows, Cols, "mass", c)
<1>1. Apportioned(r, team, iters, zone, c)
  BY InitDqMassLoop
<1>2. NLat \in Nat /\ {k} \subseteq Levels
  BY GridAssumption
<1>3. ASSUME NEW x \in iters PROVE x \div NLon \in Rows /\ x % NLon \in Cols /\ x \div NLon = 0 + x \div NLon
  BY <1>2, CellIn DEF Rows
<1>4. ASSUME NEW w, NEW x \in iters
      PROVE  Gives(InitDqMass(c, k, w, x), P, {p \in N : p[1][3] = 0 + x \div NLon /\ p[1][4] = x % NLon})
  <2> DEFINE j == x \div NLon
             i == x % NLon
             K == {k}
             T == Hold(c.dq, K, {j}, {i}, "mass", c)
  <2>1. {j} \subseteq Rows /\ {i} \subseteq Cols /\ j = 0 + x \div NLon
    BY <1>3
  <2>2. InitDqMass(c, k, w, x) =
          Op(Averaged(c, k, {j}, {i}) \cup Term("delp1", c.s, K, {j}, {i}), T)
    BY DEF InitDqMass
  <2>3. {p \in N : p[1][3] = j /\ p[1][4] = i} \subseteq T
    <3>1. \A y, u : {p \in N : p[1][3] = y /\ p[1][4] = u} \subseteq Hold(c.dq, K, {y}, {u}, "mass", c)
      BY HoldOn
    <3>2. QED
      BY <3>1
  <2> HIDE DEF j, i, T, K
  <2>4. Averaged(c, k, {j}, {i}) \subseteq P
    BY <2>1, AveragedIn
  <2>5. Term("delp1", c.s, K, {j}, {i}) \subseteq P
    BY <1>2, <2>1, PlannedPart DEF WindFields, K
  <2>6. Gives(InitDqMass(c, k, w, x), P, {p \in N : p[1][3] = j /\ p[1][4] = i})
    BY <2>2, <2>3, <2>4, <2>5, GivesOp
  <2>7. QED
    BY <2>1, <2>6 DEF i
<1>5. \A x \in iters : zone[x] = Zone({c.dq}, {k}, {0 + x \div NLon}, {x % NLon})
  BY <1>3 DEF CellZones
<1>6. iters = 0 .. NLat * NLon - 1 /\ Rows = 0 .. 0 + NLat - 1
  BY GridAssumption DEF Rows
<1>7. In(N, Zone({c.dq}, {k}, Rows, Cols))
  BY HoldIn
<1>8. r = [t \in 1 .. Len(team) |-> [x \in 1 .. Len(Shares(iters, Len(team))[t]) |->
             InitDqMass(c, k, team[t], Shares(iters, Len(team))[t][x])]]
  BY DEF Loop, InitDqMassRegion
<1> HIDE DEF iters, r, zone, N
<1>9. iters \in SUBSET Nat /\ IsFiniteSet(iters)
  BY <1>1 DEF Apportioned
<1> DEFINE bufs == {c.dq}
           K == {k}
           from == 0
           n == NLat
           rows == Rows
           M == [x \in iters |-> {p \in N : p[1][3] = from + x \div NLon /\ p[1][4] = x % NLon}]
<1>10. /\ OverCells(iters, rows, from, n) /\ ByCells(zone, M, iters, bufs, K, N, from)
       /\ In(N, Zone(bufs, K, rows, Cols))
  BY <1>2, <1>5, <1>6, <1>7 DEF OverCells, ByCells
<1>11. \A x \in iters : \A w : Gives(InitDqMass(c, k, w, x), P, M[x])
  BY <1>4
<1> HIDE DEF bufs, K, from, n, rows
<1>12. \A t \in 1 .. Len(team) : \A a \in 1 .. Len(Shares(iters, Len(team))[t]) :
         Gives(r[t][a], P, M[Shares(iters, Len(team))[t][a]])
  <2> HIDE DEF M
  <2>1. QED
    BY <1>8, <1>9, <1>11, ShareIn
<1>13. Passes(r, Len(team), P, Beyond(P, Zone(bufs, K, rows, Cols)) \cup N)
  <2> HIDE DEF M
  <2>1. QED
    BY <1>1, <1>10, <1>12, CellsMake
<1>14. QED
  BY <1>13 DEF r, N, bufs, K, rows

CrossMade(c, k, J) == CrossU(c, k, J, Cols) \cup CrossV(c, k, J, Cols)

LEMMA CrossMadeOn ==
  ASSUME NEW c, NEW k, NEW J
  PROVE  /\ \A x : {p \in CrossMade(c, k, J) : p[1][3] = x} \subseteq CrossMade(c, k, {x})
         /\ In(CrossMade(c, k, J), Zone({c.qqu, c.qqv}, {0}, J, Cols))
PROOF
<1> DEFINE bufs == {c.qqu, c.qqv}
           K == {0}
           z == Zone(bufs, K, J, Cols)
<1>1. c.qqu \in bufs /\ c.qqv \in bufs /\ 0 \in K
  OBVIOUS
<1> HIDE DEF bufs, K
<1>2. In(CrossU(c, k, J, Cols), z) /\ In(CrossV(c, k, J, Cols), z)
  BY <1>1, PlaneIn DEF CrossU, CrossV
<1>3. \A x : /\ {p \in CrossU(c, k, J, Cols) : p[1][3] = x} \subseteq CrossU(c, k, {x}, Cols)
             /\ {p \in CrossV(c, k, J, Cols) : p[1][3] = x} \subseteq CrossV(c, k, {x}, Cols)
  BY PlaneOn DEF CrossU, CrossV
<1>4. QED
  BY <1>2, <1>3 DEF CrossMade, In, bufs, K

LEMMA CrossTermsCapMakes ==
  ASSUME NEW team, Team(team), NEW c, InContext(c), NEW k \in Levels, NEW P, Plain(P),
         NEW rows \in {0 .. J1P - 1, J2P + 1 .. NLat - 1},
         Averaged(c, k, Rows, Cols) \subseteq P
  PROVE  Passes(CrossTermsCapRegion(team, c, k, rows), Len(team), P,
                Beyond(P, Zone({c.qqu, c.qqv}, {0}, rows, Cols))
                  \cup CrossMade(c, k, rows))
PROOF
<1> DEFINE iters == rows
           r == CrossTermsCapRegion(team, c, k, rows)
           bufs == {c.qqu, c.qqv}
           K == {0}
           D == Cols
           N == CrossMade(c, k, rows)
<1>1. Apportioned(r, team, iters, RowZones(iters, bufs, K, D), c)
  BY CrossTermsCapLoop
<1>2. rows \subseteq Rows
  BY Iterations, GridIs
<1>3. In(N, Zone(bufs, K, iters, D))
  BY CrossMadeOn
<1>4. ASSUME NEW w, NEW x \in iters PROVE Gives(CrossTermsCap(c, k, w, x), P, {p \in N : p[1][3] = x})
  <2>1. {x} \subseteq Rows /\ Cols \subseteq Cols
    BY <1>2
  <2>2. Averaged(c, k, {x}, Cols) \subseteq P
    BY <2>1, AveragedIn
  <2>3. {p \in N : p[1][3] = x} \subseteq CrossMade(c, k, {x})
    BY CrossMadeOn
  <2>4. QED
    BY <2>2, <2>3, GivesOp DEF CrossTermsCap, CrossMade
<1>5. r = [t \in 1 .. Len(team) |-> [x \in 1 .. Len(Shares(iters, Len(team))[t]) |->
             CrossTermsCap(c, k, team[t], Shares(iters, Len(team))[t][x])]]
  BY DEF Loop, CrossTermsCapRegion
<1> HIDE DEF iters, r, bufs, K, D, N
<1>6. iters \in SUBSET Nat /\ IsFiniteSet(iters)
  BY <1>1 DEF Apportioned
<1>7. \A t \in 1 .. Len(team) : \A a \in 1 .. Len(Shares(iters, Len(team))[t]) :
        Gives(r[t][a], P, {p \in N : p[1][3] = Shares(iters, Len(team))[t][a]})
  <2> SUFFICES ASSUME NEW t \in 1 .. Len(team), NEW a \in 1 .. Len(Shares(iters, Len(team))[t])
               PROVE  Gives(r[t][a], P, {p \in N : p[1][3] = Shares(iters, Len(team))[t][a]})
    OBVIOUS
  <2>1. Shares(iters, Len(team))[t][a] \in iters
    BY <1>6, ShareIn
  <2>2. r[t][a] = CrossTermsCap(c, k, team[t], Shares(iters, Len(team))[t][a])
    BY <1>5
  <2>3. QED
    BY <1>4, <2>1, <2>2
<1>8. Passes(r, Len(team), P, Beyond(P, Zone(bufs, K, iters, D)) \cup N)
  BY <1>1, <1>3, <1>7, RowsMake
<1>9. QED
  BY <1>8 DEF iters, r, bufs, K, D, N

LEMMA CrossTermsMakes ==
  ASSUME NEW team, Team(team), NEW c, InContext(c), NEW k \in Levels, NEW P, Plain(P),
         Planned(P, c.s),
         Averaged(c, k, Rows, Cols) \subseteq P
  PROVE  Passes(CrossTermsRegion(team, c, k), Len(team), P,
                Beyond(P, Zone({c.qqu, c.qqv}, {0}, Interior, Cols))
                  \cup CrossMade(c, k, Interior))
PROOF
<1> DEFINE iters == Interior
           r == CrossTermsRegion(team, c, k)
           bufs == {c.qqu, c.qqv}
           K == {0}
           D == Cols
           N == CrossMade(c, k, Interior)
<1>1. Apportioned(r, team, iters, RowZones(iters, bufs, K, D), c)
  BY CrossTermsLoop
<1>2. Interior \subseteq Rows
  BY Iterations, GridIs
<1>3. In(N, Zone(bufs, K, iters, D))
  BY CrossMadeOn
<1>4. ASSUME NEW w, NEW x \in iters PROVE Gives(CrossTermsRow(c, k, w, x), P, {p \in N : p[1][3] = x})
  <2> DEFINE K0 == {k}
             J0 == {x}
  <2>1. J0 \subseteq Rows /\ Cols \subseteq Cols /\ K0 \subseteq Levels /\ "ua" \in WindFields /\ "va" \in WindFields
    BY <1>2 DEF WindFields
  <2>2. {p \in N : p[1][3] = x} \subseteq CrossMade(c, k, J0)
    BY CrossMadeOn
  <2>3. CrossTermsRow(c, k, w, x) =
          Op(Averaged(c, k, Rows, Cols)
               \cup Term("ua", c.s, K0, J0, Cols) \cup Term("va", c.s, K0, J0, Cols)
               \cup Term("jn", c.s, K0, {0}, {0}) \cup Term("js", c.s, K0, {0}, {0}),
             CrossMade(c, k, J0))
    BY DEF CrossTermsRow, CrossMade
  <2> HIDE DEF K0, J0
  <2>4. /\ Term("ua", c.s, K0, J0, Cols) \subseteq P /\ Term("va", c.s, K0, J0, Cols) \subseteq P
        /\ Term("jn", c.s, K0, {0}, {0}) \subseteq P /\ Term("js", c.s, K0, {0}, {0}) \subseteq P
    BY <2>1, PlannedPart
  <2>5. QED
    BY <2>2, <2>3, <2>4, GivesOp
<1>5. r = [t \in 1 .. Len(team) |-> [x \in 1 .. Len(Shares(iters, Len(team))[t]) |->
             CrossTermsRow(c, k, team[t], Shares(iters, Len(team))[t][x])]]
  BY DEF Loop, CrossTermsRegion
<1> HIDE DEF iters, r, bufs, K, D, N
<1>6. iters \in SUBSET Nat /\ IsFiniteSet(iters)
  BY <1>1 DEF Apportioned
<1>7. \A t \in 1 .. Len(team) : \A a \in 1 .. Len(Shares(iters, Len(team))[t]) :
        Gives(r[t][a], P, {p \in N : p[1][3] = Shares(iters, Len(team))[t][a]})
  BY <1>4, <1>5, <1>6, ShareIn
<1>8. Passes(r, Len(team), P, Beyond(P, Zone(bufs, K, iters, D)) \cup N)
  BY <1>1, <1>3, <1>7, RowsMake
<1>9. QED
  BY <1>8 DEF iters, r, bufs, K, D, N

LEMMA XAdvDao2Makes ==
  ASSUME NEW team, Team(team), NEW c, InContext(c), NEW k \in Levels, NEW P, Plain(P),
         Planned(P, c.s),
         Averaged(c, k, Rows, Cols) \subseteq P,
         CrossV(c, k, Rows, Cols) \subseteq P
  PROVE  Passes(XAdvDao2Region(team, c, k), Len(team), P,
                Beyond(P, Zone({c.q}, {k}, Interior, Cols))
                  \cup XAdvanced(c, k, Interior, Cols))
PROOF
<1> DEFINE iters == Interior
           r == XAdvDao2Region(team, c, k)
           bufs == {c.q}
           K == {k}
           D == Cols
           N == XAdvanced(c, k, Interior, Cols)
<1>1. Apportioned(r, team, iters, RowZones(iters, bufs, K, D), c)
  BY XAdvDao2Loop
<1>2. Interior \subseteq Rows
  BY Iterations, GridIs
<1>3. In(N, Zone(bufs, K, iters, D))
  BY HoldIn DEF XAdvanced
<1>4. ASSUME NEW w, NEW x \in iters PROVE Gives(XAdvDao2Row(c, k, w, x), P, {p \in N : p[1][3] = x})
  <2> DEFINE K0 == {k}
             J0 == {x}
  <2>1. J0 \subseteq Rows /\ J0 \subseteq Interior /\ Cols \subseteq Cols /\ K0 \subseteq Levels /\ "ua" \in WindFields
    BY <1>2 DEF WindFields
  <2>2. {p \in N : p[1][3] = x} \subseteq XAdvanced(c, k, J0, Cols)
    BY HoldOn DEF XAdvanced
  <2>3. XAdvDao2Row(c, k, w, x) =
          Op(CrossV(c, k, J0, Cols) \cup Term("ua", c.s, K0, J0, Cols) \cup Averaged(c, k, J0, Cols),
             XAdvanced(c, k, J0, Cols))
    BY DEF XAdvDao2Row
  <2> HIDE DEF K0, J0
  <2>4. /\ Term("ua", c.s, K0, J0, Cols) \subseteq P /\ Averaged(c, k, J0, Cols) \subseteq P
        /\ CrossV(c, k, J0, Cols) \subseteq P
    <3>1. Term("ua", c.s, K0, J0, Cols) \subseteq P
      BY <2>1, PlannedPart
    <3>2. Averaged(c, k, J0, Cols) \subseteq P
      BY <2>1, AveragedIn
    <3>3. CrossV(c, k, J0, Cols) \subseteq P
      BY <2>1, PlaneSub DEF CrossV
    <3>4. QED
      BY <3>1, <3>2, <3>3
  <2>5. QED
    BY <2>2, <2>3, <2>4, GivesOp
<1>5. r = [t \in 1 .. Len(team) |-> [x \in 1 .. Len(Shares(iters, Len(team))[t]) |->
             XAdvDao2Row(c, k, team[t], Shares(iters, Len(team))[t][x])]]
  BY DEF Loop, XAdvDao2Region
<1> HIDE DEF iters, r, bufs, K, D, N
<1>6. iters \in SUBSET Nat /\ IsFiniteSet(iters)
  BY <1>1 DEF Apportioned
<1>7. \A t \in 1 .. Len(team) : \A a \in 1 .. Len(Shares(iters, Len(team))[t]) :
        Gives(r[t][a], P, {p \in N : p[1][3] = Shares(iters, Len(team))[t][a]})
  BY <1>4, <1>5, <1>6, ShareIn
<1>8. Passes(r, Len(team), P, Beyond(P, Zone(bufs, K, iters, D)) \cup N)
  BY <1>1, <1>3, <1>7, RowsMake
<1>9. QED
  BY <1>8 DEF iters, r, bufs, K, D, N

LEMMA YAdvDao2Makes ==
  ASSUME NEW team, Team(team), NEW c, InContext(c), NEW k \in Levels, NEW P, Plain(P),
         Planned(P, c.s),
         XAdvanced(c, k, Interior, Cols) \subseteq P,
         CrossU(c, k, Rows, Cols) \subseteq P
  PROVE  Passes(YAdvDao2Region(team, c, k), Len(team), P,
                Beyond(P, Zone({c.q}, {k}, Interior, Cols))
                  \cup Advanced(c, {k}, Interior, Cols))
PROOF
<1> DEFINE iters == Interior
           r == YAdvDao2Region(team, c, k)
           bufs == {c.q}
           K == {k}
           D == Cols
           N == Advanced(c, {k}, Interior, Cols)
<1>1. Apportioned(r, team, iters, RowZones(iters, bufs, K, D), c)
  BY YAdvDao2Loop
<1>2. Interior \subseteq Rows
  BY Iterations, GridIs
<1>3. In(N, Zone(bufs, K, iters, D))
  BY HoldIn DEF Advanced
<1>4. ASSUME NEW w, NEW x \in iters PROVE Gives(YAdvDao2Row(c, k, w, x), P, {p \in N : p[1][3] = x})
  <2> DEFINE K0 == {k}
             J0 == {x}
  <2>1. J0 \subseteq Rows /\ J0 \subseteq Interior /\ Cols \subseteq Cols /\ K0 \subseteq Levels /\ "va" \in WindFields
    BY <1>2 DEF WindFields
  <2>2. {p \in N : p[1][3] = x} \subseteq Advanced(c, K0, J0, Cols)
    BY HoldOn DEF Advanced
  <2>3. YAdvDao2Row(c, k, w, x) =
          Op(CrossU(c, k, Rows, Cols) \cup Term("va", c.s, K0, J0, Cols) \cup XAdvanced(c, k, J0, Cols),
             Advanced(c, K0, J0, Cols))
    BY DEF YAdvDao2Row
  <2>4. XAdvanced(c, k, J0, Cols) \subseteq P
    <3>1. XAdvanced(c, k, J0, Cols) \subseteq XAdvanced(c, k, Interior, Cols)
      BY <2>1, HoldPart DEF XAdvanced
    <3>2. QED
      BY <3>1
  <2> HIDE DEF K0, J0
  <2>5. Term("va", c.s, K0, J0, Cols) \subseteq P
    BY <2>1, PlannedPart
  <2>6. QED
    BY <2>2, <2>3, <2>4, <2>5, GivesOp
<1>5. r = [t \in 1 .. Len(team) |-> [x \in 1 .. Len(Shares(iters, Len(team))[t]) |->
             YAdvDao2Row(c, k, team[t], Shares(iters, Len(team))[t][x])]]
  BY DEF Loop, YAdvDao2Region
<1> HIDE DEF iters, r, bufs, K, D, N
<1>6. iters \in SUBSET Nat /\ IsFiniteSet(iters)
  BY <1>1 DEF Apportioned
<1>7. \A t \in 1 .. Len(team) : \A a \in 1 .. Len(Shares(iters, Len(team))[t]) :
        Gives(r[t][a], P, {p \in N : p[1][3] = Shares(iters, Len(team))[t][a]})
  BY <1>4, <1>5, <1>6, ShareIn
<1>8. Passes(r, Len(team), P, Beyond(P, Zone(bufs, K, iters, D)) \cup N)
  BY <1>1, <1>3, <1>7, RowsMake
<1>9. QED
  BY <1>8 DEF iters, r, bufs, K, D, N

LEMMA YAdvDao2FluxMakes ==
  ASSUME NEW team, Team(team), NEW c, InContext(c), NEW k \in Levels, NEW P, Plain(P),
         Planned(P, c.s),
         CrossU(c, k, Rows, Cols) \subseteq P
  PROVE  Passes(YAdvDao2FluxRegion(team, c, k), Len(team), P,
                Beyond(P, Zone(CapBuffers(c), {0}, {0}, Cols))
                  \cup Caps("dao2", k, Cols, c))
PROOF
<1> DEFINE iters == Cols
           r == YAdvDao2FluxRegion(team, c, k)
           bufs == CapBuffers(c)
           K == {0}
           D == {0}
           N == Caps("dao2", k, Cols, c)
<1>1. Apportioned(r, team, iters, ColumnZones(iters, bufs, K, D), c)
  BY YAdvDao2FluxLoop
<1>2. Cols \subseteq Cols
  BY Iterations, GridIs
<1>3. In(N, Zone(bufs, K, D, iters))
  <2>1. 0 \in K /\ 0 \in D
    OBVIOUS
  <2>2. QED
    BY <2>1, CapsIn
<1>4. ASSUME NEW w, NEW x \in iters PROVE Gives(YAdvDao2Flux(c, k, w, x), P, {p \in N : p[1][4] = x})
  <2> DEFINE K0 == {k}
             I0 == {x}
  <2>1. I0 \subseteq Cols /\ Rows \subseteq Rows /\ CapRows \subseteq Rows /\ K0 \subseteq Levels /\ "va" \in WindFields
    BY <1>2, GridIs DEF WindFields
  <2>2. {p \in N : p[1][4] = x} \subseteq Caps("dao2", k, I0, c)
    BY CapsIn
  <2>3. YAdvDao2Flux(c, k, w, x) =
          Op(CrossU(c, k, Rows, I0) \cup Term("va", c.s, K0, CapRows, I0), Caps("dao2", k, I0, c))
    BY DEF YAdvDao2Flux
  <2> HIDE DEF K0, I0
  <2>4. CrossU(c, k, Rows, I0) \subseteq P /\ Term("va", c.s, K0, CapRows, I0) \subseteq P
    BY <2>1, PlannedPart, PlaneSub DEF CrossU
  <2>5. QED
    BY <2>2, <2>3, <2>4, GivesOp
<1>5. r = [t \in 1 .. Len(team) |-> [x \in 1 .. Len(Shares(iters, Len(team))[t]) |->
             YAdvDao2Flux(c, k, team[t], Shares(iters, Len(team))[t][x])]]
  BY DEF Loop, YAdvDao2FluxRegion
<1> HIDE DEF iters, r, bufs, K, D, N
<1>6. iters \in SUBSET Nat /\ IsFiniteSet(iters)
  BY <1>1 DEF Apportioned
<1>7. \A t \in 1 .. Len(team) : \A a \in 1 .. Len(Shares(iters, Len(team))[t]) :
        Gives(r[t][a], P, {p \in N : p[1][4] = Shares(iters, Len(team))[t][a]})
  BY <1>4, <1>5, <1>6, ShareIn
<1>8. Passes(r, Len(team), P, Beyond(P, Zone(bufs, K, D, iters)) \cup N)
  BY <1>1, <1>3, <1>7, ColumnsMake
<1>9. QED
  BY <1>8 DEF iters, r, bufs, K, D, N

LEMMA YAdvDao2CapsMakes ==
  ASSUME NEW c, NEW k, NEW P, Caps("dao2", k, Cols, c) \subseteq P, Averaged(c, k, Polar, Cols) \subseteq P
  PROVE  Gives(YAdvDao2Caps(c, k), P,
               Beyond(P, Zone({c.q}, {k}, Polar, Cols)) \cup Advanced(c, {k}, Polar, Cols))
PROOF
<1>1. In(Advanced(c, {k}, Polar, Cols), Zone({c.q}, {k}, Polar, Cols))
  BY HoldIn DEF Advanced
<1>2. QED
  BY <1>1, GivesBeyond DEF YAdvDao2Caps, In

-----------------------------------------------------------------------------
(* The kernels that go through a worker's scratch.                         *)

NoName(P, name) == \A p \in P : p[1][1][1] # name

LEMMA PlainNames ==
  ASSUME NEW P, Plain(P)
  PROVE  \A name \in ScratchNames : NoName(P, name)
PROOF
  BY DEF Plain, NoName

LEMMA GivesNew ==
  ASSUME NEW S, NEW P, S \subseteq P, NEW T, \A p \in P : p[1] \notin CellsOf(T)
  PROVE  Gives(Op(S, T), P, P \cup T)
PROOF
  BY DEF Gives, Op

LEMMA NothingGives ==
  ASSUME NEW P
  PROVE  Gives(Nothing, P, P)
PROOF
  BY DEF Gives, Nothing, Op, CellsOf

LEMMA ScratchNamed ==
  ASSUME NEW name, NEW w, NEW k, NEW x, NEW c
  PROVE  \A p \in Scratch(name, w, k, x, c) : p[1][1] = <<name, w>> /\ p[1][1][1] = name
PROOF
<1>1. \A p \in Scratch(name, w, k, x, c) : p[1][1] = <<name, w>>
  BY DEF Scratch, Piece
<1>2. QED
  BY <1>1

LEMMA RowScratchNamed ==
  ASSUME NEW name, NEW s, NEW w, NEW j
  PROVE  \A p \in RowScratch(name, s, w, j) : p[1][1] = <<name, w>> /\ p[1][1][1] = name
PROOF
<1>1. \A p \in RowScratch(name, s, w, j) : p[1][1] = <<name, w>>
  BY DEF RowScratch, Piece
<1>2. QED
  BY <1>1

\* Into scratch that holds nothing yet.
LEMMA ScratchGives ==
  ASSUME NEW S, NEW P, S \subseteq P, NEW name, NoName(P, name), NEW T,
         \A p \in T : p[1][1][1] = name
  PROVE  /\ Gives(Op(S, T), P, P \cup T)
         /\ \A other : other # name /\ NoName(P, other) => NoName(P \cup T, other)
PROOF
<1>1. \A p \in P : p[1] \notin CellsOf(T)
  BY DEF NoName, CellsOf
<1>2. QED
  BY <1>1, GivesNew DEF NoName

LEMMA EdgeNear ==
  ASSUME NEW j \in Interior, Edge(j)
  PROVE  NearCap(j)
PROOF
<1>1. NLat \in Nat /\ JVan \in Int /\ JVan >= 1
  BY GridAssumption DEF JVan
<1> HIDE DEF JVan
<1>2. QED
  BY <1>1 DEF NearCap, Edge, J1P, J2P

LEMMA XtpMakes ==
  ASSUME NEW team, Team(team), NEW c, InContext(c), NEW k \in Levels, NEW P, Plain(P),
         Planned(P, c.s),
         CrossV(c, k, Rows, Cols) \subseteq P,
         Hold(c.dq, {k}, Interior, Cols, "mass", c) \subseteq P
  PROVE  Passes(XtpRegion(team, c, k), Len(team), P,
                Beyond(P, Zone({c.dq}, {k}, Interior, Cols))
                  \cup Hold(c.dq, {k}, Interior, Cols, "x_transported", c))
PROOF
<1> DEFINE iters == Interior
           r == XtpRegion(team, c, k)
           bufs == {c.dq}
           K == {k}
           D == Cols
           N == Hold(c.dq, {k}, Interior, Cols, "x_transported", c)
<1>1. Apportioned(r, team, iters, RowZones(iters, bufs, K, D), c)
  BY XtpLoop
<1>2. Interior \subseteq Rows
  BY Iterations, GridIs
<1>3. In(N, Zone(bufs, K, iters, D))
  BY HoldIn
<1>4. ASSUME NEW w, NEW x \in iters PROVE Gives(XtpRow(c, k, w, x), P, {p \in N : p[1][3] = x})
  <2> DEFINE K0 == {k}
             J0 == {x}
             dcx == Scratch("dcx", w, k, x, c)
             parabola == Scratch("x_parabola", w, k, x, c)
             fx == Scratch("fx", w, k, x, c)
             A == IF Edge(x) THEN {} ELSE dcx
             B == IF NearCap(x) THEN {} ELSE parabola
             mass == Hold(c.dq, K0, J0, Cols, "mass", c)
             T == Hold(c.dq, K0, J0, Cols, "x_transported", c)
             a == XtpSlopes(c, k, w, x)
             b == XtpParabola(c, k, w, x)
             d == XtpFlux(c, k, w, x)
             e == XtpApply(c, k, w, x)
             V == CrossV(c, k, J0, Cols)
             O == Term("cx", c.s, K0, J0, Cols) \cup Term("pu", c.s, K0, J0, Cols)
                    \cup Term("xmass", c.s, K0, J0, Cols)
                    \cup Term("jn", c.s, K0, {0}, {0}) \cup Term("js", c.s, K0, {0}, {0})
  <2>1. /\ J0 \subseteq Rows /\ J0 \subseteq Interior /\ Cols \subseteq Cols /\ K0 \subseteq Levels
        /\ "cx" \in WindFields /\ "pu" \in WindFields /\ "xmass" \in WindFields
    BY <1>2 DEF WindFields
  <2>2. /\ a = IF Edge(x) THEN Nothing ELSE Op(V, dcx)
        /\ b = IF NearCap(x) THEN Nothing ELSE Op(V \cup dcx, parabola)
        /\ d = Op(V \cup A \cup B \cup O, fx) /\ e = Op(fx \cup mass, T)
        /\ XtpRow(c, k, w, x) = FusedAll(<<a, b, d, e>>)
    <3>1. d = Op(V \cup A \cup B \cup O, fx)
      <4>1. \A U, X1, X2, X3, X4, X5 :
              U \cup X1 \cup X2 \cup X3 \cup X4 \cup X5 = U \cup (X1 \cup X2 \cup X3 \cup X4 \cup X5)
        OBVIOUS
      <4>2. QED
        BY <4>1 DEF XtpFlux
    <3>2. QED
      BY <3>1 DEF XtpSlopes, XtpParabola, XtpApply, XtpRow
  <2>3. {p \in N : p[1][3] = x} \subseteq T
    BY HoldOn
  <2>4. V \subseteq P
    BY <2>1, PlaneSub DEF CrossV
  <2>5. mass \subseteq P
    <3> HIDE DEF K0, J0
    <3>1. Hold(c.dq, {k}, Interior, Cols, "mass", c) \subseteq P /\ K0 \subseteq {k}
      BY DEF K0
    <3>2. QED
      BY <2>1, <3>1, HoldSub
  <2>6. O \subseteq P
    <3> HIDE DEF K0, J0
    <3>1. /\ Term("cx", c.s, K0, J0, Cols) \subseteq P /\ Term("pu", c.s, K0, J0, Cols) \subseteq P
          /\ Term("xmass", c.s, K0, J0, Cols) \subseteq P
      BY <2>1, PlannedPart
    <3>2. Term("jn", c.s, K0, {0}, {0}) \subseteq P /\ Term("js", c.s, K0, {0}, {0}) \subseteq P
      BY <2>1, PlannedPart
    <3>3. QED
      BY <3>1, <3>2
  <2>7. /\ \A p \in dcx : p[1][1][1] = "dcx"
        /\ \A p \in parabola : p[1][1][1] = "x_parabola"
        /\ \A p \in fx : p[1][1][1] = "fx"
    BY ScratchNamed
  <2>8. NoName(P, "dcx") /\ NoName(P, "x_parabola") /\ NoName(P, "fx")
    BY PlainNames DEF ScratchNames
  <2>9. ~NearCap(x) => ~Edge(x)
    BY <1>2, EdgeNear
  <2> HIDE DEF dcx, parabola, fx, mass, T, a, b, d, e, V, O
  <2> DEFINE P1 == P \cup A
             P2 == P1 \cup B
             P3 == P2 \cup fx
  <2>10. Gives(a, P, P1) /\ NoName(P1, "x_parabola") /\ NoName(P1, "fx")
    <3>1. CASE Edge(x)
      <4>1. P1 = P /\ a = Nothing
        BY <2>2, <3>1
      <4>2. QED
        BY <2>8, <4>1, NothingGives
    <3>2. CASE ~Edge(x)
      <4>1. P1 = P \cup dcx /\ a = Op(V, dcx)
        BY <2>2, <3>2
      <4>2. Gives(Op(V, dcx), P, P \cup dcx)
        BY <2>4, <2>7, <2>8, ScratchGives
      <4>3. NoName(P \cup dcx, "x_parabola") /\ NoName(P \cup dcx, "fx")
        BY <2>7, <2>8 DEF NoName
      <4>4. QED
        BY <4>1, <4>2, <4>3
    <3>3. QED
      BY <3>1, <3>2
  <2>11. Gives(b, P1, P2) /\ NoName(P2, "fx")
    <3>1. CASE NearCap(x)
      <4>1. P2 = P1 /\ b = Nothing
        BY <2>2, <3>1
      <4> HIDE DEF P1, P2
      <4>2. QED
        BY <2>10, <4>1, NothingGives
    <3>2. CASE ~NearCap(x)
      <4>1. P2 = P1 \cup parabola /\ b = Op(V \cup dcx, parabola) /\ V \cup dcx \subseteq P1
        BY <2>2, <2>4, <2>9, <3>2
      <4> HIDE DEF P1, P2
      <4>2. Gives(Op(V \cup dcx, parabola), P1, P1 \cup parabola)
        BY <2>7, <2>10, <4>1, ScratchGives
      <4>3. NoName(P1 \cup parabola, "fx")
        BY <2>7, <2>10 DEF NoName
      <4>4. QED
        BY <4>1, <4>2, <4>3
    <3>3. QED
      BY <3>1, <3>2
  <2>12. V \cup A \cup B \cup O \subseteq P2 /\ mass \subseteq P3 /\ fx \subseteq P3
    BY <2>4, <2>5, <2>6
  <2> HIDE DEF A, B, P1, P2
  <2>13. Gives(d, P2, P3)
    BY <2>2, <2>7, <2>11, <2>12, ScratchGives
  <2> HIDE DEF P3
  <2>14. Gives(e, P3, {p \in N : p[1][3] = x})
    BY <2>2, <2>3, <2>12, GivesOp
  <2>15. QED
    BY <2>2, <2>10, <2>11, <2>13, <2>14, FusedSome
<1>5. r = [t \in 1 .. Len(team) |-> [x \in 1 .. Len(Shares(iters, Len(team))[t]) |->
             XtpRow(c, k, team[t], Shares(iters, Len(team))[t][x])]]
  BY DEF Loop, XtpRegion
<1> HIDE DEF iters, r, bufs, K, D, N
<1>6. iters \in SUBSET Nat /\ IsFiniteSet(iters)
  BY <1>1 DEF Apportioned
<1>7. \A t \in 1 .. Len(team) : \A a \in 1 .. Len(Shares(iters, Len(team))[t]) :
        Gives(r[t][a], P, {p \in N : p[1][3] = Shares(iters, Len(team))[t][a]})
  BY <1>4, <1>5, <1>6, ShareIn
<1>8. Passes(r, Len(team), P, Beyond(P, Zone(bufs, K, iters, D)) \cup N)
  BY <1>1, <1>3, <1>7, RowsMake
<1>9. QED
  BY <1>8 DEF iters, r, bufs, K, D, N


\* The columns of the meridional transport: the poles' masses stay for the caps.
YtpLeaves(P, c, k) ==
  {p \in P : p[1][1] \notin {c.dq, c.qqv} \cup CapBuffers(c)}
    \cup {p \in P : p[1][1] = c.dq /\ (p[1][2] # k \/ p[1][3] \notin Interior)}
YtpMade(c, k, I) == Hold(c.dq, {k}, Interior, I, "transported", c) \cup Caps("flux", k, I, c)

LEMMA YtpGives ==
  ASSUME NEW c, InContext(c), NEW k \in Levels, NEW P, Plain(P), Planned(P, c.s),
         CrossU(c, k, Rows, Cols) \subseteq P,
         Hold(c.dq, {k}, Interior, Cols, "x_transported", c) \subseteq P,
         NEW w, NEW x \in Cols
  PROVE  Gives(YtpColumn(c, k, w, x), P, YtpMade(c, k, {x}))
PROOF
<1> DEFINE K0 == {k}
           I0 == {x}
           parabola == Scratch("y_parabola", w, k, x, c)
           flux == Plane(c.qqv, k, FluxRows, I0, "y_flux", c)
           mass == Hold(c.dq, K0, Interior, I0, "x_transported", c)
           T == YtpMade(c, k, I0)
           a == YtpParabola(c, k, w, x)
           b == YtpFlux(c, k, w, x)
           d == YtpApply(c, k, w, x)
           U == CrossU(c, k, Rows, I0)
           O == Term("cy", c.s, K0, FluxRows, I0) \cup Term("ymass", c.s, K0, FluxRows, I0)
<1>1. /\ I0 \subseteq Cols /\ Rows \subseteq Rows /\ FluxRows \subseteq Rows /\ K0 \subseteq Levels
      /\ Interior \subseteq Interior /\ "cy" \in WindFields
  BY GridAssumption DEF WindFields, FluxRows, Rows, J1P, J2P
<1>2. /\ a = Op(U, parabola) /\ b = Op(parabola \cup O, flux) /\ d = Op(flux \cup mass, T)
      /\ YtpColumn(c, k, w, x) = FusedAll(<<a, b, d>>)
  <2>1. \A X1, X2, X3 : X1 \cup X2 \cup X3 = X1 \cup (X2 \cup X3)
    OBVIOUS
  <2>2. QED
    BY <2>1 DEF YtpParabola, YtpFlux, YtpApply, YtpColumn, YtpMade, FluxRows
<1>3. U \subseteq P
  BY <1>1, PlaneSub DEF CrossU
<1>4. mass \subseteq P
  <2> HIDE DEF K0, I0
  <2>1. Hold(c.dq, {k}, Interior, Cols, "x_transported", c) \subseteq P /\ K0 \subseteq {k}
    BY DEF K0
  <2>2. QED
    BY <1>1, <2>1, HoldSub
<1>5. O \subseteq P
  <2> HIDE DEF K0, I0
  <2>1. Term("cy", c.s, K0, FluxRows, I0) \subseteq P
    BY <1>1, PlannedPart
  <2>2. Term("ymass", c.s, K0, FluxRows, I0) \subseteq P
    BY <1>1, PlannedPart
  <2>3. QED
    BY <2>1, <2>2
<1>6. \A p \in parabola : p[1][1][1] = "y_parabola"
  BY ScratchNamed
<1>7. NoName(P, "y_parabola")
  BY PlainNames DEF ScratchNames
<1>8. \A p \in mass : p[1][1] = c.dq
  BY HoldLies DEF Lies
<1>9. \A p \in flux : p[1][1] = c.qqv
  BY PlaneLies DEF Lies
<1>10. c.dq # c.qqv
  BY ContextApart
<1> HIDE DEF parabola, flux, mass, T, a, b, d, U, O
<1> DEFINE P1 == P \cup parabola
           P2 == flux \cup mass
<1>11. Gives(a, P, P1)
  BY <1>2, <1>3, <1>6, <1>7, ScratchGives
<1>12. Gives(b, P1, P2)
  <2>1. parabola \cup O \subseteq P1 /\ mass \subseteq P1
    BY <1>4, <1>5
  <2>2. \A p \in mass : p[1] \notin CellsOf(flux)
    BY <1>8, <1>9, <1>10 DEF CellsOf
  <2> HIDE DEF P1
  <2>3. QED
    BY <1>2, <2>1, <2>2 DEF Gives, Op
<1> HIDE DEF P1
<1>13. Gives(d, P2, T)
  BY <1>2, GivesOp
<1> HIDE DEF P2
<1>14. Gives(FusedAll(<<a, b, d>>), P, T)
  BY <1>11, <1>12, <1>13, FusedSome
<1>15. QED
  BY <1>2, <1>14 DEF T

\* Where a column of it writes.
LEMMA YtpWrites ==
  ASSUME NEW c, NEW k, NEW w, NEW x, NEW q \in CellsOf(YtpColumn(c, k, w, x).sets)
  PROVE  \/ q[1][1] \in ScratchNames \/ q[1] = c.qqv \/ q[1] \in CapBuffers(c)
         \/ q[1] = c.dq /\ q[2] = k /\ q[3] \in Interior
PROOF
<1> DEFINE l == <<YtpParabola(c, k, w, x), YtpFlux(c, k, w, x), YtpApply(c, k, w, x)>>
<1>1. IsSeq(l) /\ DOMAIN l = {1, 2, 3}
  BY GivesSeq
<1>2. l[1] = YtpParabola(c, k, w, x) /\ l[2] = YtpFlux(c, k, w, x) /\ l[3] = YtpApply(c, k, w, x)
  OBVIOUS
<1>3. YtpColumn(c, k, w, x) = FusedAll(l)
  BY DEF YtpColumn
<1> HIDE DEF l
<1>4. q \in Wrote(l)
  BY <1>1, <1>3, FusedAllWrites
<1>5. PICK m \in {1, 2, 3} : q \in CellsOf(l[m].sets)
  BY <1>1, <1>4 DEF Wrote
<1>6. CASE m = 1
  <2>1. q \in CellsOf(Scratch("y_parabola", w, k, x, c))
    BY <1>2, <1>5, <1>6 DEF YtpParabola, Op
  <2>2. QED
    BY <2>1, ScratchNamed DEF CellsOf, ScratchNames
<1>7. CASE m = 2
  <2>1. q \in CellsOf(Plane(c.qqv, k, J1P .. J2P + 1, {x}, "y_flux", c))
    <3>1. YtpFlux(c, k, w, x).sets = Plane(c.qqv, k, J1P .. J2P + 1, {x}, "y_flux", c)
      BY DEF YtpFlux, Op
    <3>2. QED
      BY <1>2, <1>5, <1>7, <3>1
  <2>2. QED
    BY <2>1, PlaneLies DEF CellsOf, Lies
<1>8. CASE m = 3
  <2>1. q \in CellsOf(Hold(c.dq, {k}, Interior, {x}, "transported", c)) \/ q \in CellsOf(Caps("flux", k, {x}, c))
    <3>1. YtpApply(c, k, w, x).sets =
            Hold(c.dq, {k}, Interior, {x}, "transported", c) \cup Caps("flux", k, {x}, c)
      BY DEF YtpApply, Op
    <3>2. QED
      BY <1>2, <1>5, <1>8, <3>1 DEF CellsOf
  <2>2. CASE q \in CellsOf(Hold(c.dq, {k}, Interior, {x}, "transported", c))
    <3>1. q[1] = c.dq /\ q[2] \in {k} /\ q[3] \in Interior
      BY <2>2, HoldLies DEF CellsOf, Lies
    <3>2. QED
      BY <3>1
  <2>3. CASE q \in CellsOf(Caps("flux", k, {x}, c))
    <3>1. q[1] \in CapBuffers(c)
      BY <2>3, CapsLie DEF CellsOf
    <3>2. QED
      BY <3>1
  <2>4. QED
    BY <2>1, <2>2, <2>3
<1>9. QED
  BY <1>5, <1>6, <1>7, <1>8

LEMMA YtpMakes ==
  ASSUME NEW team, Team(team), NEW c, InContext(c), NEW k \in Levels, NEW P, Plain(P),
         Planned(P, c.s), CrossU(c, k, Rows, Cols) \subseteq P,
         Hold(c.dq, {k}, Interior, Cols, "x_transported", c) \subseteq P
  PROVE  Passes(YtpRegion(team, c, k), Len(team), P, YtpLeaves(P, c, k) \cup YtpMade(c, k, Cols))
PROOF
<1> DEFINE iters == Cols
           r == YtpRegion(team, c, k)
           bufs == {c.dq, c.qqv} \cup CapBuffers(c)
           K == {0, k}
           D == Rows
           N == YtpMade(c, k, Cols)
           R == {p \in P : p[1][1] = c.dq /\ (p[1][2] # k \/ p[1][3] \notin Interior)}
<1>1. Apportioned(r, team, iters, ColumnZones(iters, bufs, K, D), c)
  BY YtpLoop
<1>2. In(N, Zone(bufs, K, D, iters)) /\ \A x \in Cols : {p \in N : p[1][4] = x} \subseteq YtpMade(c, k, {x})
  <2> DEFINE T == Hold(c.dq, {k}, Interior, Cols, "transported", c)
             K0 == {k}
  <2>1. \A p \in T : p[1][1] = c.dq /\ p[1][2] \in K0 /\ p[1][3] \in Interior /\ p[1][4] \in Cols
    BY HoldLies DEF Lies
  <2>2. c.dq \in bufs /\ K0 \subseteq K /\ Interior \subseteq D /\ 0 \in K /\ 0 \in D /\ CapBuffers(c) \subseteq bufs
    BY Iterations, GridAssumption DEF Rows
  <2>3. \A x : {p \in T : p[1][4] = x} \subseteq Hold(c.dq, {k}, Interior, {x}, "transported", c)
    BY HoldOn
  <2> HIDE DEF bufs, K, D, T, K0
  <2>4. In(T, Zone(bufs, K, D, iters))
    BY <2>1, <2>2 DEF In, Inside, Zone
  <2>5. In(Caps("flux", k, Cols, c), Zone(bufs, K, D, iters))
        /\ \A x : {p \in Caps("flux", k, Cols, c) : p[1][4] = x} \subseteq Caps("flux", k, {x}, c)
    BY <2>2, CapsIn
  <2>6. QED
    BY <2>3, <2>4, <2>5 DEF In, T, YtpMade
<1>3. ASSUME NEW w, NEW x \in iters PROVE Gives(YtpColumn(c, k, w, x), P, {p \in N : p[1][4] = x})
  <2>1. Gives(YtpColumn(c, k, w, x), P, YtpMade(c, k, {x})) /\ {p \in N : p[1][4] = x} \subseteq YtpMade(c, k, {x})
    BY <1>2, YtpGives
  <2>2. QED
    BY <2>1, GivesWeaker
<1>4. r = [t \in 1 .. Len(team) |-> [x \in 1 .. Len(Shares(iters, Len(team))[t]) |->
             YtpColumn(c, k, team[t], Shares(iters, Len(team))[t][x])]]
  BY DEF Loop, YtpRegion
<1>5. YtpLeaves(P, c, k) \cup N \subseteq (Beyond(P, Zone(bufs, K, D, iters)) \cup N) \cup R
  BY DEF YtpLeaves, Beyond, Inside, Zone
<1>6. ASSUME NEW t \in 1 .. Len(team), NEW p \in R PROVE p[1] \notin Wrote(r[t])
  <2> SUFFICES ASSUME p[1] \in Wrote(r[t]) PROVE FALSE
    OBVIOUS
  <2>1. PICK a \in DOMAIN r[t] : p[1] \in CellsOf(r[t][a].sets)
    BY DEF Wrote
  <2>2. r[t][a] = YtpColumn(c, k, team[t], Shares(iters, Len(team))[t][a])
    BY <1>4, <2>1
  <2> DEFINE q == p[1]
  <2>3. q \in CellsOf(YtpColumn(c, k, team[t], Shares(iters, Len(team))[t][a]).sets)
    BY <2>1, <2>2
  <2>4. q[1] = c.dq /\ (q[2] # k \/ q[3] \notin Interior) /\ q[1][1] \notin ScratchNames
    BY <1>6 DEF Plain
  <2> HIDE DEF q, R
  <2>5. c.dq # c.qqv /\ c.dq \notin CapBuffers(c)
    BY ContextApart
  <2> DEFINE w == team[t]
             x == Shares(iters, Len(team))[t][a]
  <2>6. q \in CellsOf(YtpColumn(c, k, w, x).sets)
    BY <2>3
  <2> HIDE DEF w, x
  <2>7. \/ q[1][1] \in ScratchNames \/ q[1] = c.qqv \/ q[1] \in CapBuffers(c)
        \/ q[1] = c.dq /\ q[2] = k /\ q[3] \in Interior
    BY <2>6, YtpWrites
  <2>8. QED
    BY <2>4, <2>5, <2>7
<1>7. R \subseteq P
  OBVIOUS
<1> HIDE DEF iters, r, bufs, K, D, N, R
<1>8. iters \in SUBSET Nat /\ IsFiniteSet(iters)
  BY <1>1 DEF Apportioned
<1>9. \A t \in 1 .. Len(team) : \A a \in 1 .. Len(Shares(iters, Len(team))[t]) :
        Gives(r[t][a], P, {p \in N : p[1][4] = Shares(iters, Len(team))[t][a]})
  BY <1>3, <1>4, <1>8, ShareIn
<1>10. Passes(r, Len(team), P, Beyond(P, Zone(bufs, K, D, iters)) \cup N)
  BY <1>1, <1>2, <1>9, ColumnsMake
<1>11. Passes(r, Len(team), P, (Beyond(P, Zone(bufs, K, D, iters)) \cup N) \cup R)
  BY <1>6, <1>7, <1>10, PassesKeep
<1>12. QED
  BY <1>5, <1>11, PassesWeaker DEF r, N

LEMMA YtpCapsMakes ==
  ASSUME NEW c, NEW k, NEW P, Caps("flux", k, Cols, c) \subseteq P,
         Hold(c.dq, {k}, Polar, Cols, "mass", c) \subseteq P
  PROVE  Gives(YtpCaps(c, k), P,
               Beyond(P, Zone({c.dq}, {k}, Polar, Cols)) \cup Hold(c.dq, {k}, Polar, Cols, "transported", c))
PROOF
<1>1. In(Hold(c.dq, {k}, Polar, Cols, "transported", c), Zone({c.dq}, {k}, Polar, Cols))
  BY HoldIn
<1>2. Hold(c.dq, {k}, PoleRows, {0}, "mass", c) \subseteq P
  <2> DEFINE K0 == {k}
             I0 == {0}
  <2>1. PoleRows \subseteq Polar /\ I0 \subseteq Cols /\ Hold(c.dq, K0, Polar, Cols, "mass", c) \subseteq P
    BY GridIs
  <2> HIDE DEF K0, I0
  <2>2. Hold(c.dq, K0, PoleRows, I0, "mass", c) \subseteq P
    BY <2>1, HoldSub
  <2>3. QED
    BY <2>2 DEF K0, I0
<1>3. QED
  BY <1>1, <1>2, GivesBeyond DEF YtpCaps, In

-----------------------------------------------------------------------------
(* One level, from the tracers that enter to the masses transported.       *)

\* What of P is not of a context, and what is not of its level k.
Aloof(P, c) == {p \in P : p[1][1] \notin Mine(c)}
Base(P, c, k) ==
  {p \in P : /\ p[1][1] \notin {c.qqu, c.qqv} \cup CapBuffers(c)
             /\ p[1][1] \in {c.q, c.dq} => p[1][2] # k}

LEMMA BufferPlain ==
  ASSUME NEW c, InContext(c)
  PROVE  \A buf \in {c.q, c.dq, c.qqu, c.qqv} \cup CapBuffers(c) : buf[1] \notin ScratchNames
PROOF
<1>1. \A name \in BufferNames : name \notin ScratchNames
  BY DEF BufferNames, ScratchNames
<1>2. \A buf \in {c.q, c.dq, c.qqu, c.qqv} : buf[1] \in BufferNames
  BY DEF InContext
<1>3. \A buf \in CapBuffers(c) : buf[1] \in {"south_dao2", "north_dao2", "south_flux", "north_flux"}
  BY DEF CapBuffers
<1>4. QED
  BY <1>1, <1>2, <1>3 DEF ScratchNames

LEMMA PlannedMore ==
  ASSUME NEW P, NEW Q, P \subseteq Q, NEW s, Planned(P, s)
  PROVE  Planned(Q, s)
PROOF
  BY DEF Planned

\* What no block has for itself.
Public(P) == {p \in P : p[1][1][1] \notin PrivateNames}

LEMMA PublicAloof ==
  ASSUME NEW c, InContext(c), NEW P
  PROVE  Public(P) \subseteq Aloof(P, c) /\ Public(P) \subseteq P
PROOF
  BY ContextOwned DEF Owned, Public, Aloof

LEMMA PlannedPublic ==
  ASSUME NEW P, NEW s, Planned(P, s)
  PROVE  Planned(Public(P), s)
PROOF
<1>1. \A name \in WindFields \cup {"ymass", "jn", "js"} : name \notin PrivateNames
  BY PublicNames DEF WindFields
<1>2. ASSUME NEW name \in WindFields \cup {"ymass", "jn", "js"}, NEW K, NEW J, NEW I,
             Term(name, s, K, J, I) \subseteq P
      PROVE  Term(name, s, K, J, I) \subseteq Public(P)
  <2>1. Lies(Term(name, s, K, J, I), <<name, 0>>, K, J, I)
    BY TermLies
  <2>2. QED
    BY <1>1, <1>2, <2>1 DEF Lies, Public
<1>3. \A name \in WindFields : Field(name, s) \subseteq Public(P)
  BY <1>2 DEF Planned, Field
<1>4. /\ Term("ymass", s, Levels, FluxRows, Cols) \subseteq Public(P)
      /\ Term("jn", s, Levels, {0}, {0}) \subseteq Public(P)
      /\ Term("js", s, Levels, {0}, {0}) \subseteq Public(P)
  BY <1>2 DEF Planned
<1>5. QED
  BY <1>3, <1>4 DEF Planned

LEMMA PlannedAloof ==
  ASSUME NEW c, InContext(c), NEW P, NEW s, Planned(P, s)
  PROVE  Planned(Aloof(P, c), s)
PROOF
  BY PlannedPublic, PublicAloof, PlannedMore

LEMMA PlannedBase ==
  ASSUME NEW c, InContext(c), NEW k, NEW P, NEW s, Planned(P, s)
  PROVE  Planned(Base(P, c, k), s)
PROOF
<1>1. Aloof(P, c) \subseteq Base(P, c, k)
  BY DEF Aloof, Base, Mine
<1>2. QED
  BY <1>1, PlannedAloof, PlannedMore

LEMMA HoldRows ==
  ASSUME NEW buf, NEW K, NEW J, NEW M, NEW I, NEW name, NEW c
  PROVE  Hold(buf, K, J \cup M, I, name, c) = Hold(buf, K, J, I, name, c) \cup Hold(buf, K, M, I, name, c)
PROOF
  BY DEF Hold

LEMMA PlaneRows ==
  ASSUME NEW buf, NEW k, NEW J, NEW M, NEW I, NEW name, NEW c
  PROVE  Plane(buf, k, J \cup M, I, name, c) = Plane(buf, k, J, I, name, c) \cup Plane(buf, k, M, I, name, c)
PROOF
  BY DEF Plane

LEMMA AveragedIs ==
  ASSUME NEW c, NEW k
  PROVE  LET mean == Hold(c.q, {k}, Polar, Cols, "pole_mean", c)
         IN  /\ Averaged(c, k, Polar, Cols) = mean
             /\ Averaged(c, k, Rows, Cols) = mean \cup Entering(c, {k}, Interior, Cols)
PROOF
<1>1. Polar \cap Polar = Polar /\ Rows \cap Polar = Polar /\ Rows \ Polar = Interior /\ Polar \ Polar = {}
  BY GridIs
<1>2. Entering(c, {k}, {}, Cols) = {}
  BY DEF Entering, Hold
<1>3. QED
  BY <1>1, <1>2 DEF Averaged

LEMMA CrossAll ==
  ASSUME NEW c, NEW k
  PROVE  CrossMade(c, k, 0 .. J1P - 1) \cup CrossMade(c, k, J2P + 1 .. NLat - 1) \cup CrossMade(c, k, Interior)
           = CrossU(c, k, Rows, Cols) \cup CrossV(c, k, Rows, Cols)
PROOF
<1> DEFINE A == 0 .. J1P - 1
           B == J2P + 1 .. NLat - 1
<1>1. Rows = (A \cup B) \cup Interior
  BY GridIs
<1> HIDE DEF A, B
<1>2. \A buf, name : Plane(buf, k, Rows, Cols, name, c) =
        (Plane(buf, k, A, Cols, name, c) \cup Plane(buf, k, B, Cols, name, c))
           \cup Plane(buf, k, Interior, Cols, name, c)
  <2> DEFINE C == A \cup B
  <2>1. \A buf, name : Plane(buf, k, C, Cols, name, c) =
          Plane(buf, k, A, Cols, name, c) \cup Plane(buf, k, B, Cols, name, c)
    BY PlaneRows
  <2>2. Rows = C \cup Interior
    BY <1>1
  <2> HIDE DEF C
  <2>3. \A buf, name : Plane(buf, k, C \cup Interior, Cols, name, c) =
          Plane(buf, k, C, Cols, name, c) \cup Plane(buf, k, Interior, Cols, name, c)
    BY PlaneRows
  <2>4. QED
    BY <2>1, <2>2, <2>3
<1>3. CrossU(c, k, Rows, Cols) = (CrossU(c, k, A, Cols) \cup CrossU(c, k, B, Cols)) \cup CrossU(c, k, Interior, Cols)
  BY <1>2 DEF CrossU
<1>4. CrossV(c, k, Rows, Cols) = (CrossV(c, k, A, Cols) \cup CrossV(c, k, B, Cols)) \cup CrossV(c, k, Interior, Cols)
  BY <1>2 DEF CrossV
<1>5. CrossMade(c, k, A) \cup CrossMade(c, k, B) \cup CrossMade(c, k, Interior)
        = CrossU(c, k, Rows, Cols) \cup CrossV(c, k, Rows, Cols)
  BY <1>3, <1>4 DEF CrossMade
<1>6. QED
  BY <1>5 DEF A, B

\* Four kinds of slab: of the tracer, of the mass, planes and caps.
Slab(S, buf, k, J) == \A p \in S : p[1][1] = buf /\ p[1][2] = k /\ p[1][3] \in J

LEMMA LevelMakes ==
  ASSUME NEW team, Team(team), NEW c, InContext(c), NEW k \in Levels, NEW P, Plain(P),
         Planned(P, c.s), Entering(c, {k}, Rows, Cols) \subseteq P
  PROVE  Flows(AdvectLevel(team, c, k), Len(team), P,
               Base(P, c, k) \cup Advanced(c, {k}, Rows, Cols)
                 \cup Hold(c.dq, {k}, Rows, Cols, "transported", c))
PROOF
<1> DEFINE n == Len(team)
           p == AdvectLevel(team, c, k)
           B == Base(P, c, k)
           PM == Hold(c.q, {k}, Polar, Cols, "pole_mean", c)
           EP == Entering(c, {k}, Polar, Cols)
           EI == Entering(c, {k}, Interior, Cols)
           MP == Hold(c.dq, {k}, Polar, Cols, "mass", c)
           MI == Hold(c.dq, {k}, Interior, Cols, "mass", c)
           X1 == CrossMade(c, k, 0 .. J1P - 1)
           X2 == CrossMade(c, k, J2P + 1 .. NLat - 1)
           U == CrossU(c, k, Rows, Cols)
           V == CrossV(c, k, Rows, Cols)
           XA == XAdvanced(c, k, Interior, Cols)
           AI == Advanced(c, {k}, Interior, Cols)
           AP == Advanced(c, {k}, Polar, Cols)
           CD == Caps("dao2", k, Cols, c)
           CF == Caps("flux", k, Cols, c)
           XT == Hold(c.dq, {k}, Interior, Cols, "x_transported", c)
           TI == Hold(c.dq, {k}, Interior, Cols, "transported", c)
           TP == Hold(c.dq, {k}, Polar, Cols, "transported", c)
           T0 == B \cup EP \cup EI
           T1 == B \cup PM \cup EI
           T2 == B \cup PM \cup EI \cup MP \cup MI
           T3 == B \cup PM \cup EI \cup MP \cup MI \cup X1
           T4 == B \cup PM \cup EI \cup MP \cup MI \cup X1 \cup X2
           T5 == B \cup PM \cup EI \cup MP \cup MI \cup U \cup V
           T6 == B \cup PM \cup XA \cup MP \cup MI \cup U \cup V
           T7 == B \cup PM \cup AI \cup MP \cup MI \cup U \cup V
           T8 == B \cup PM \cup AI \cup MP \cup MI \cup U \cup V \cup CD
           T9 == B \cup AP \cup AI \cup MP \cup MI \cup U \cup V
           T10 == B \cup AP \cup AI \cup MP \cup XT \cup U \cup V
           T11 == B \cup AP \cup AI \cup MP \cup TI \cup CF
           T12 == B \cup AP \cup AI \cup TP \cup TI
           R1 == Once(team, AverageConstPoles(c, k))
           R2 == InitDqMassRegion(team, c, k)
           R3 == CrossTermsCapRegion(team, c, k, 0 .. J1P - 1)
           R4 == CrossTermsCapRegion(team, c, k, J2P + 1 .. NLat - 1)
           R5 == CrossTermsRegion(team, c, k)
           R6 == XAdvDao2Region(team, c, k)
           R7 == YAdvDao2Region(team, c, k)
           R8 == YAdvDao2FluxRegion(team, c, k)
           R9 == Once(team, YAdvDao2Caps(c, k))
           R10 == XtpRegion(team, c, k)
           R11 == YtpRegion(team, c, k)
           R12 == Once(team, YtpCaps(c, k))
<1>1. p = <<R1, R2, R3, R4, R5, R6, R7, R8, R9, R10, R11, R12>>
  BY DEF AdvectLevel, InitDqMassRegion, CrossTermsCapRegion, CrossTermsRegion, XAdvDao2Region,
         YAdvDao2Region, YAdvDao2FluxRegion, XtpRegion, YtpRegion
<1>2. Rows = Polar \cup Interior /\ Polar \cap Interior = {}
  BY GridIs
<1>3. /\ Entering(c, {k}, Rows, Cols) = EP \cup EI
      /\ Hold(c.dq, {k}, Rows, Cols, "mass", c) = MP \cup MI
      /\ Advanced(c, {k}, Rows, Cols) = AP \cup AI
      /\ Hold(c.dq, {k}, Rows, Cols, "transported", c) = TP \cup TI
  BY <1>2, HoldRows DEF Entering, Advanced
<1>4. Averaged(c, k, Polar, Cols) = PM /\ Averaged(c, k, Rows, Cols) = PM \cup EI
  BY AveragedIs
<1>5. X1 \cup X2 \cup CrossMade(c, k, Interior) = U \cup V
  BY CrossAll
<1>6. YtpMade(c, k, Cols) = TI \cup CF
  BY DEF YtpMade
<1>7. /\ Slab(PM, c.q, k, Polar)
      /\ Slab(EP, c.q, k, Polar)
      /\ Slab(EI, c.q, k, Interior)
      /\ Slab(MP, c.dq, k, Polar)
      /\ Slab(MI, c.dq, k, Interior)
      /\ Slab(U, c.qqu, 0, Rows)
      /\ Slab(V, c.qqv, 0, Rows)
      /\ Slab(XA, c.q, k, Interior)
      /\ Slab(AI, c.q, k, Interior)
      /\ Slab(AP, c.q, k, Polar)
      /\ Slab(XT, c.dq, k, Interior)
      /\ Slab(TI, c.dq, k, Interior)
      /\ Slab(TP, c.dq, k, Polar)
  <2> DEFINE K == {k}
             K0 == {0}
  <2>1. \A J, name, d, b : Slab(Hold(b, K, J, Cols, name, d), b, k, J)
    BY HoldLies DEF Lies, Slab
  <2>2. \A b, name : Slab(Plane(b, k, Rows, Cols, name, c), b, 0, Rows)
    <3>1. \A b, name : Lies(Plane(b, k, Rows, Cols, name, c), b, K0, Rows, Cols)
      BY PlaneLies
    <3>2. QED
      BY <3>1 DEF Lies, Slab
  <2>3. QED
    BY <2>1, <2>2 DEF Entering, XAdvanced, Advanced, CrossU, CrossV
<1>8. /\ \A q \in X1 \cup X2 : q[1][1] \in {c.qqu, c.qqv} /\ q[1][2] = 0
      /\ \A q \in X1 : q[1][3] \in 0 .. J1P - 1
      /\ \A q \in X2 : q[1][3] \in J2P + 1 .. NLat - 1
  <2>1. ASSUME NEW J, NEW q \in CrossMade(c, k, J)
        PROVE  q[1][1] \in {c.qqu, c.qqv} /\ q[1][2] \in {0} /\ q[1][3] \in J
    BY CrossMadeOn DEF In, Inside, Zone
  <2>2. QED
    BY <2>1
<1>9. \A q \in CD \cup CF : q[1][1] \in CapBuffers(c)
  BY CapsLie
<1>10. /\ (0 .. J1P - 1) \cap Interior = {} /\ (J2P + 1 .. NLat - 1) \cap Interior = {}
       /\ (J2P + 1 .. NLat - 1) \cap (0 .. J1P - 1) = {}
  BY GridAssumption DEF Interior, J1P, J2P
<1>11. /\ c.q \notin CapBuffers(c) /\ c.dq \notin CapBuffers(c)
       /\ c.qqu \notin CapBuffers(c) /\ c.qqv \notin CapBuffers(c)
       /\ c.q # c.dq /\ c.q # c.qqu /\ c.q # c.qqv
       /\ c.dq # c.qqu /\ c.dq # c.qqv /\ c.qqu # c.qqv
  BY ContextApart
<1>12. B \subseteq P /\ Plain(B) /\ Planned(B, c.s)
  BY PlannedBase DEF Base, Plain
<1>13. \A q \in B : /\ q[1][1] \notin {c.qqu, c.qqv} \cup CapBuffers(c)
                    /\ q[1][1] \in {c.q, c.dq} => q[1][2] # k
  BY DEF Base
<1>14. /\ c.q[1] \notin ScratchNames /\ c.dq[1] \notin ScratchNames
       /\ c.qqu[1] \notin ScratchNames /\ c.qqv[1] \notin ScratchNames
       /\ \A buf \in CapBuffers(c) : buf[1] \notin ScratchNames
  BY BufferPlain
<1> DEFINE rows1 == 0 .. J1P - 1
           rows2 == J2P + 1 .. NLat - 1
<1>15. n \in Nat \ {0}
  BY OnceIs
<1> HIDE DEF p, B, PM, EP, EI, MP, MI, X1, X2, U, V, XA, AI, AP, CD, CF, XT, TI, TP, R1, R2, R3, R4, R5, R6, R7, R8, R9, R10, R11, R12
<1>16. /\ Plain(T0)
       /\ Plain(T1)
       /\ Plain(T2)
       /\ Plain(T3)
       /\ Plain(T4)
       /\ Plain(T5)
       /\ Plain(T6)
       /\ Plain(T7)
       /\ Plain(T8)
       /\ Plain(T9)
       /\ Plain(T10)
       /\ Plain(T11)
       /\ Plain(T12)
  <2>1. /\ Plain(PM)
        /\ Plain(EP)
        /\ Plain(EI)
        /\ Plain(MP)
        /\ Plain(MI)
        /\ Plain(X1)
        /\ Plain(X2)
        /\ Plain(U)
        /\ Plain(V)
        /\ Plain(XA)
        /\ Plain(AI)
        /\ Plain(AP)
        /\ Plain(CD)
        /\ Plain(CF)
        /\ Plain(XT)
        /\ Plain(TI)
        /\ Plain(TP)
    BY <1>7, <1>8, <1>9, <1>14 DEF Slab, Plain
  <2>2. QED
    BY <1>12, <2>1 DEF Plain
<1>17. /\ Planned(T0, c.s)
       /\ Planned(T1, c.s)
       /\ Planned(T2, c.s)
       /\ Planned(T3, c.s)
       /\ Planned(T4, c.s)
       /\ Planned(T5, c.s)
       /\ Planned(T6, c.s)
       /\ Planned(T7, c.s)
       /\ Planned(T8, c.s)
       /\ Planned(T9, c.s)
       /\ Planned(T10, c.s)
       /\ Planned(T11, c.s)
       /\ Planned(T12, c.s)
  BY <1>12, PlannedMore
<1>18. Passes(R1, n, T0, T1)
  <2>1. T1 \subseteq Beyond(T0, Zone({c.q}, {k}, Polar, Cols)) \cup (PM)
    BY <1>2, <1>5, <1>7, <1>8, <1>9, <1>10, <1>11, <1>13 DEF Slab, Beyond, Inside, Zone
  <2>2. EP \subseteq T0
    OBVIOUS
  <2> HIDE DEF T0, T1
  <2>3. Gives(AverageConstPoles(c, k), T0, Beyond(T0, Zone({c.q}, {k}, Polar, Cols)) \cup PM)
    BY <1>4, <1>16, <1>17, <2>2, AverageConstPolesMakes DEF EP, PM
  <2>4. Gives(AverageConstPoles(c, k), T0, T1)
    BY <2>1, <2>3, GivesWeaker
  <2>5. QED
    BY <2>4, OncePasses DEF R1
<1>19. Passes(R2, n, T1, T2)
  <2>1. T2 \subseteq Beyond(T1, Zone({c.dq}, {k}, Rows, Cols)) \cup (MP \cup MI)
    BY <1>2, <1>5, <1>7, <1>8, <1>9, <1>10, <1>11, <1>13 DEF Slab, Beyond, Inside, Zone
  <2>2. PM \cup EI \subseteq T1
    OBVIOUS
  <2> HIDE DEF T1, T2
  <2>3. Passes(R2, n, T1, Beyond(T1, Zone({c.dq}, {k}, Rows, Cols)) \cup (MP \cup MI))
    BY <1>4, <1>3, <1>16, <1>17, <2>2, InitDqMassMakes DEF R2, MP, MI
  <2>4. QED
    BY <2>1, <2>3, PassesWeaker
<1>20. Passes(R3, n, T2, T3)
  <2>1. T3 \subseteq Beyond(T2, Zone({c.qqu, c.qqv}, {0}, 0 .. J1P - 1, Cols)) \cup (X1)
    BY <1>2, <1>5, <1>7, <1>8, <1>9, <1>10, <1>11, <1>13 DEF Slab, Beyond, Inside, Zone
  <2>2. PM \cup EI \subseteq T2
    OBVIOUS
  <2> HIDE DEF T2, T3
  <2>3. Passes(R3, n, T2, Beyond(T2, Zone({c.qqu, c.qqv}, {0}, 0 .. J1P - 1, Cols)) \cup (X1))
    BY <1>4, <1>16, <1>17, <2>2, CrossTermsCapMakes DEF R3, X1
  <2>4. QED
    BY <2>1, <2>3, PassesWeaker
<1>21. Passes(R4, n, T3, T4)
  <2>1. T4 \subseteq Beyond(T3, Zone({c.qqu, c.qqv}, {0}, J2P + 1 .. NLat - 1, Cols)) \cup (X2)
    BY <1>2, <1>5, <1>7, <1>8, <1>9, <1>10, <1>11, <1>13 DEF Slab, Beyond, Inside, Zone
  <2>2. PM \cup EI \subseteq T3
    OBVIOUS
  <2> HIDE DEF T3, T4
  <2>3. Passes(R4, n, T3, Beyond(T3, Zone({c.qqu, c.qqv}, {0}, J2P + 1 .. NLat - 1, Cols)) \cup (X2))
    BY <1>4, <1>16, <1>17, <2>2, CrossTermsCapMakes DEF R4, X2
  <2>4. QED
    BY <2>1, <2>3, PassesWeaker
<1>22. Passes(R5, n, T4, T5)
  <2>1. T5 \subseteq Beyond(T4, Zone({c.qqu, c.qqv}, {0}, Interior, Cols)) \cup (CrossMade(c, k, Interior))
    BY <1>2, <1>5, <1>7, <1>8, <1>9, <1>10, <1>11, <1>13 DEF Slab, Beyond, Inside, Zone
  <2>2. PM \cup EI \subseteq T4
    OBVIOUS
  <2> HIDE DEF T4, T5
  <2>3. Passes(R5, n, T4, Beyond(T4, Zone({c.qqu, c.qqv}, {0}, Interior, Cols)) \cup (CrossMade(c, k, Interior)))
    BY <1>4, <1>16, <1>17, <2>2, CrossTermsMakes DEF R5
  <2>4. QED
    BY <2>1, <2>3, PassesWeaker
<1>23. Passes(R6, n, T5, T6)
  <2>1. T6 \subseteq Beyond(T5, Zone({c.q}, {k}, Interior, Cols)) \cup (XA)
    BY <1>2, <1>5, <1>7, <1>8, <1>9, <1>10, <1>11, <1>13 DEF Slab, Beyond, Inside, Zone
  <2>2. PM \cup EI \subseteq T5 /\ V \subseteq T5
    OBVIOUS
  <2> HIDE DEF T5, T6
  <2>3. Passes(R6, n, T5, Beyond(T5, Zone({c.q}, {k}, Interior, Cols)) \cup (XA))
    BY <1>4, <1>16, <1>17, <2>2, XAdvDao2Makes DEF R6, XA, V
  <2>4. QED
    BY <2>1, <2>3, PassesWeaker
<1>24. Passes(R7, n, T6, T7)
  <2>1. T7 \subseteq Beyond(T6, Zone({c.q}, {k}, Interior, Cols)) \cup (AI)
    BY <1>2, <1>5, <1>7, <1>8, <1>9, <1>10, <1>11, <1>13 DEF Slab, Beyond, Inside, Zone
  <2>2. XA \subseteq T6 /\ U \subseteq T6
    OBVIOUS
  <2> HIDE DEF T6, T7
  <2>3. Passes(R7, n, T6, Beyond(T6, Zone({c.q}, {k}, Interior, Cols)) \cup (AI))
    BY <1>4, <1>16, <1>17, <2>2, YAdvDao2Makes DEF R7, XA, U, AI
  <2>4. QED
    BY <2>1, <2>3, PassesWeaker
<1>25. Passes(R8, n, T7, T8)
  <2>1. T8 \subseteq Beyond(T7, Zone(CapBuffers(c), {0}, {0}, Cols)) \cup (CD)
    BY <1>2, <1>5, <1>7, <1>8, <1>9, <1>10, <1>11, <1>13 DEF Slab, Beyond, Inside, Zone
  <2>2. U \subseteq T7
    OBVIOUS
  <2> HIDE DEF T7, T8
  <2>3. Passes(R8, n, T7, Beyond(T7, Zone(CapBuffers(c), {0}, {0}, Cols)) \cup (CD))
    BY <1>4, <1>16, <1>17, <2>2, YAdvDao2FluxMakes DEF R8, U, CD
  <2>4. QED
    BY <2>1, <2>3, PassesWeaker
<1>26. Passes(R9, n, T8, T9)
  <2>1. T9 \subseteq Beyond(T8, Zone({c.q}, {k}, Polar, Cols)) \cup (AP)
    BY <1>2, <1>5, <1>7, <1>8, <1>9, <1>10, <1>11, <1>13 DEF Slab, Beyond, Inside, Zone
  <2>2. CD \subseteq T8 /\ PM \subseteq T8
    OBVIOUS
  <2> HIDE DEF T8, T9
  <2>3. Gives(YAdvDao2Caps(c, k), T8, Beyond(T8, Zone({c.q}, {k}, Polar, Cols)) \cup AP)
    BY <1>4, <1>16, <1>17, <2>2, YAdvDao2CapsMakes DEF CD, AP
  <2>4. Gives(YAdvDao2Caps(c, k), T8, T9)
    BY <2>1, <2>3, GivesWeaker
  <2>5. QED
    BY <2>4, OncePasses DEF R9
<1>27. Passes(R10, n, T9, T10)
  <2>1. T10 \subseteq Beyond(T9, Zone({c.dq}, {k}, Interior, Cols)) \cup (XT)
    BY <1>2, <1>5, <1>7, <1>8, <1>9, <1>10, <1>11, <1>13 DEF Slab, Beyond, Inside, Zone
  <2>2. V \subseteq T9 /\ MI \subseteq T9
    OBVIOUS
  <2> HIDE DEF T9, T10
  <2>3. Passes(R10, n, T9, Beyond(T9, Zone({c.dq}, {k}, Interior, Cols)) \cup (XT))
    BY <1>4, <1>16, <1>17, <2>2, XtpMakes DEF R10, V, MI, XT
  <2>4. QED
    BY <2>1, <2>3, PassesWeaker
<1>28. Passes(R11, n, T10, T11)
  <2>1. T11 \subseteq YtpLeaves(T10, c, k) \cup (TI \cup CF)
    BY <1>2, <1>5, <1>7, <1>8, <1>9, <1>10, <1>11, <1>13 DEF Slab, YtpLeaves
  <2>2. U \subseteq T10 /\ XT \subseteq T10
    OBVIOUS
  <2> HIDE DEF T10, T11
  <2>3. Passes(R11, n, T10, YtpLeaves(T10, c, k) \cup (TI \cup CF))
    BY <1>4, <1>6, <1>16, <1>17, <2>2, YtpMakes DEF R11, U, XT
  <2>4. QED
    BY <2>1, <2>3, PassesWeaker
<1>29. Passes(R12, n, T11, T12)
  <2>1. T12 \subseteq Beyond(T11, Zone({c.dq}, {k}, Polar, Cols)) \cup (TP)
    BY <1>2, <1>5, <1>7, <1>8, <1>9, <1>10, <1>11, <1>13 DEF Slab, Beyond, Inside, Zone
  <2>2. CF \subseteq T11 /\ MP \subseteq T11
    OBVIOUS
  <2> HIDE DEF T11, T12
  <2>3. Gives(YtpCaps(c, k), T11, Beyond(T11, Zone({c.dq}, {k}, Polar, Cols)) \cup TP)
    BY <1>4, <1>16, <1>17, <2>2, YtpCapsMakes DEF CF, MP, TP
  <2>4. Gives(YtpCaps(c, k), T11, T12)
    BY <2>1, <2>3, GivesWeaker
  <2>5. QED
    BY <2>4, OncePasses DEF R12
<1> DEFINE F == [x \in 0 .. 12 |-> 
             IF x = 0 THEN T0 ELSE
             IF x = 1 THEN T1 ELSE
             IF x = 2 THEN T2 ELSE
             IF x = 3 THEN T3 ELSE
             IF x = 4 THEN T4 ELSE
             IF x = 5 THEN T5 ELSE
             IF x = 6 THEN T6 ELSE
             IF x = 7 THEN T7 ELSE
             IF x = 8 THEN T8 ELSE
             IF x = 9 THEN T9 ELSE
             IF x = 10 THEN T10 ELSE
             IF x = 11 THEN T11 ELSE
             T12]
<1> HIDE DEF T0, T1, T2, T3, T4, T5, T6, T7, T8, T9, T10, T11, T12
<1>30. /\ F[0] = T0
       /\ F[1] = T1
       /\ F[2] = T2
       /\ F[3] = T3
       /\ F[4] = T4
       /\ F[5] = T5
       /\ F[6] = T6
       /\ F[7] = T7
       /\ F[8] = T8
       /\ F[9] = T9
       /\ F[10] = T10
       /\ F[11] = T11
       /\ F[12] = T12
  OBVIOUS
<1>31. Len(p) = 12 /\ p[1] = R1 /\ p[2] = R2 /\ p[3] = R3 /\ p[4] = R4 /\ p[5] = R5 /\ p[6] = R6 /\ p[7] = R7 /\ p[8] = R8 /\ p[9] = R9 /\ p[10] = R10 /\ p[11] = R11 /\ p[12] = R12
  BY <1>1
<1> HIDE DEF F
<1>32. ASSUME NEW x \in 1 .. Len(p) PROVE Passes(p[x], n, F[x - 1], F[x])
  <2>1. CASE x = 1
    BY <1>18, <1>30, <1>31, <2>1
  <2>2. CASE x = 2
    BY <1>19, <1>30, <1>31, <2>2
  <2>3. CASE x = 3
    BY <1>20, <1>30, <1>31, <2>3
  <2>4. CASE x = 4
    BY <1>21, <1>30, <1>31, <2>4
  <2>5. CASE x = 5
    BY <1>22, <1>30, <1>31, <2>5
  <2>6. CASE x = 6
    BY <1>23, <1>30, <1>31, <2>6
  <2>7. CASE x = 7
    BY <1>24, <1>30, <1>31, <2>7
  <2>8. CASE x = 8
    BY <1>25, <1>30, <1>31, <2>8
  <2>9. CASE x = 9
    BY <1>26, <1>30, <1>31, <2>9
  <2>10. CASE x = 10
    BY <1>27, <1>30, <1>31, <2>10
  <2>11. CASE x = 11
    BY <1>28, <1>30, <1>31, <2>11
  <2>12. CASE x = 12
    BY <1>29, <1>30, <1>31, <2>12
  <2>13. QED
    BY <1>31, <2>1, <2>2, <2>3, <2>4, <2>5, <2>6, <2>7, <2>8, <2>9, <2>10, <2>11, <2>12
<1>33. F[0] \subseteq P
  BY <1>3, <1>12, <1>30 DEF T0
<1>34. F[Len(p)] = T12
  BY <1>30, <1>31
<1>35. Flows(p, n, P, T12)
  BY <1>32, <1>33, <1>34 DEF Flows, Carries
<1>36. B \cup Advanced(c, {k}, Rows, Cols) \cup Hold(c.dq, {k}, Rows, Cols, "transported", c) \subseteq T12
  BY <1>3 DEF T12
<1>37. QED
  BY <1>35, <1>36, FlowsWeaker DEF p, B

-----------------------------------------------------------------------------
(* All levels, then the columns.                                           *)

MetFields == {"cmfmc", "dtrain", "delp_end", "delp_dry_end", "bmass", "dqrcu", "reevapcn"}

\* The whole plan of step s is in P, for block b.
Prepared(P, s, b) ==
  /\ Planned(P, s)
  /\ \A j \in Rows : Coefficients(s, j) \subseteq P /\ CounterGradient(s, j) \subseteq P
  /\ DryMass(s) \subseteq P /\ Piece("surface_flux", b, <<"surface_flux", s, b>>) \subseteq P
  /\ \A name \in MetFields : Field(name, s) \subseteq P

LEMMA PreparedMore ==
  ASSUME NEW P, NEW Q, P \subseteq Q, NEW s, NEW b, Prepared(P, s, b)
  PROVE  Prepared(Q, s, b)
PROOF
<1>1. Planned(Q, s)
  BY PlannedMore DEF Prepared
<1>2. QED
  BY <1>1 DEF Prepared

LEMMA PreparedPublic ==
  ASSUME NEW P, NEW s, NEW b, Prepared(P, s, b)
  PROVE  Prepared(Public(P), s, b)
PROOF
<1> DEFINE names == {"cch", "zeh", "termh", "cgs", "kvh", "potbar", "rpdel", "rrho", "tmp1",
                     "surface_flux", "dry_mass"} \cup MetFields
<1>1. \A name \in names : name \notin PrivateNames
  BY PublicNames DEF MetFields
<1>2. ASSUME NEW name \in names, NEW K, NEW J, NEW I, Term(name, s, K, J, I) \subseteq P
      PROVE  Term(name, s, K, J, I) \subseteq Public(P)
  <2>1. Lies(Term(name, s, K, J, I), <<name, 0>>, K, J, I)
    BY TermLies
  <2>2. QED
    BY <1>1, <1>2, <2>1 DEF Lies, Public
<1>3. \A name \in MetFields : Field(name, s) \subseteq Public(P)
  BY <1>2 DEF Prepared, Field
<1>4. ASSUME NEW j \in Rows
      PROVE  Coefficients(s, j) \subseteq Public(P) /\ CounterGradient(s, j) \subseteq Public(P)
  <2> DEFINE J == {j}
             K0 == {0}
  <2>1. Coefficients(s, j) \subseteq P /\ CounterGradient(s, j) \subseteq P
    BY DEF Prepared
  <2>2. Coefficients(s, j) = Term("cch", s, Levels \ {0}, J, Cols)
          \cup Term("zeh", s, Levels \ {Bottom}, J, Cols) \cup Term("termh", s, Levels \ {Bottom}, J, Cols)
    BY DEF Coefficients
  <2>3. CounterGradient(s, j) = (UNION {Term(field, s, Edges, J, Cols) : field \in {"cgs", "kvh", "potbar"}})
          \cup Term("rpdel", s, Levels, J, Cols) \cup Term("rrho", s, K0, J, Cols) \cup Term("tmp1", s, K0, J, Cols)
    BY DEF CounterGradient
  <2> HIDE DEF J, K0
  <2>4. Coefficients(s, j) \subseteq Public(P)
    BY <1>2, <2>1, <2>2
  <2>5. /\ \A field \in {"cgs", "kvh", "potbar"} : Term(field, s, Edges, J, Cols) \subseteq P
        /\ Term("rpdel", s, Levels, J, Cols) \subseteq P /\ Term("rrho", s, K0, J, Cols) \subseteq P
        /\ Term("tmp1", s, K0, J, Cols) \subseteq P
    BY <2>1, <2>3
  <2>6. /\ \A field \in {"cgs", "kvh", "potbar"} : Term(field, s, Edges, J, Cols) \subseteq Public(P)
        /\ Term("rpdel", s, Levels, J, Cols) \subseteq Public(P)
        /\ Term("rrho", s, K0, J, Cols) \subseteq Public(P)
        /\ Term("tmp1", s, K0, J, Cols) \subseteq Public(P)
    BY <1>2, <2>5
  <2>7. CounterGradient(s, j) \subseteq Public(P)
    BY <2>3, <2>6
  <2>8. QED
    BY <2>4, <2>7
<1>5. DryMass(s) \subseteq Public(P)
  <2>1. Lies(DryMass(s), <<"dry_mass", s>>, Levels, Rows, Cols)
    BY TermLies DEF DryMass
  <2>2. QED
    BY <1>1, <2>1 DEF Lies, Public, Prepared
<1>6. Piece("surface_flux", b, <<"surface_flux", s, b>>) \subseteq Public(P)
  <2> DEFINE F == Piece("surface_flux", b, <<"surface_flux", s, b>>)
  <2>1. \A p \in F : p[1][1] = <<"surface_flux", b>>
    BY DEF Piece
  <2>2. F \subseteq P
    BY DEF Prepared
  <2> HIDE DEF F
  <2>3. F \subseteq Public(P)
    BY <1>1, <2>1, <2>2 DEF Public
  <2>4. QED
    BY <2>3 DEF F
<1>7. Planned(Public(P), s)
  BY PlannedPublic DEF Prepared
<1>8. QED
  BY <1>3, <1>4, <1>5, <1>6, <1>7 DEF Prepared

LEMMA PreparedAloof ==
  ASSUME NEW c, InContext(c), NEW P, NEW s, NEW b, Prepared(P, s, b)
  PROVE  Prepared(Aloof(P, c), s, b)
PROOF
  BY PreparedPublic, PublicAloof, PreparedMore

LEMMA HoldLevels ==
  ASSUME NEW buf, NEW K, NEW L, NEW J, NEW I, NEW name, NEW c
  PROVE  Hold(buf, K \cup L, J, I, name, c) = Hold(buf, K, J, I, name, c) \cup Hold(buf, L, J, I, name, c)
PROOF
  BY DEF Hold

LEMMA AloofAgain ==
  ASSUME NEW c, NEW P
  PROVE  /\ Aloof(P, c) \subseteq P
         /\ \A k : Aloof(P, c) \subseteq Base(P, c, k)
         /\ \A p \in Aloof(P, c) : p[1][1] \notin Mine(c)
         /\ Plain(P) => Plain(Aloof(P, c))
PROOF
  BY DEF Aloof, Base, Plain, Mine

LEMMA LevelsMake ==
  ASSUME NEW team, Team(team), NEW c, InContext(c), NEW P, Plain(P), Planned(P, c.s),
         Entering(c, Levels, Rows, Cols) \subseteq P
  PROVE  Flows(AdvectLevels(team, c), Len(team), P,
               Aloof(P, c) \cup Advanced(c, Levels, Rows, Cols)
                 \cup Hold(c.dq, Levels, Rows, Cols, "transported", c))
PROOF
<1> DEFINE n == Len(team)
           ss == [m \in 1 .. NLev |-> AdvectLevel(team, c, m - 1)]
           A == Aloof(P, c)
           E(K) == Entering(c, K, Rows, Cols)
           V(K) == Advanced(c, K, Rows, Cols)
           T(K) == Hold(c.dq, K, Rows, Cols, "transported", c)
           G == [m \in 0 .. NLev |-> A \cup E(m .. NLev - 1) \cup V(0 .. m - 1) \cup T(0 .. m - 1)]
<1>1. NLev \in Nat /\ IsSeq(ss) /\ Len(ss) = NLev
  BY GridAssumption, SeqIs
<1>2. \A m \in 1 .. NLev : IsSeq(ss[m])
  BY AdvectLevelTidies DEF Tidies
<1>3. ASSUME NEW m \in 1 .. NLev PROVE Flows(ss[m], n, G[m - 1], G[m])
  <2> DEFINE k == m - 1
             k1 == {k}
             before == 0 .. k - 1
             after == m .. NLev - 1
             S == A \cup E(k1) \cup E(after) \cup V(before) \cup T(before)
  <2>1. /\ k \in Levels /\ k .. NLev - 1 = k1 \cup after /\ 0 .. m - 1 = before \cup k1
        /\ k \notin before /\ k \notin after /\ m - 1 = k /\ k \in 0 .. NLev /\ m \in 0 .. NLev
    BY <1>1 DEF Levels
  <2>2. /\ E(k .. NLev - 1) = E(k1) \cup E(after) /\ V(0 .. m - 1) = V(before) \cup V(k1)
        /\ T(0 .. m - 1) = T(before) \cup T(k1)
    <3>1. \A K, L : Hold(c.q, K \cup L, Rows, Cols, "convected", Before(c)) = E(K) \cup E(L)
      BY HoldLevels DEF Entering
    <3>2. \A K, L : V(K \cup L) = V(K) \cup V(L)
      BY HoldLevels DEF Advanced
    <3>3. \A K, L : T(K \cup L) = T(K) \cup T(L)
      BY HoldLevels
    <3>4. \A K, L : E(K \cup L) = E(K) \cup E(L)
      BY <3>1 DEF Entering
    <3> HIDE DEF k, k1, before, after, E, V, T
    <3>5. QED
      BY <2>1, <3>2, <3>3, <3>4
  <2>3. G[m - 1] = A \cup E(k .. NLev - 1) \cup V(0 .. k - 1) \cup T(0 .. k - 1)
    BY <2>1
  <2>4. G[m] = A \cup E(after) \cup V(before) \cup V(k1) \cup T(before) \cup T(k1)
    BY <2>1, <2>2
  <2>5. G[m - 1] = S
    BY <2>2, <2>3
  <2>6. /\ \A p \in E(k1) \cup E(after) : p[1][1] = c.q
        /\ \A p \in V(before) : p[1][1] = c.q /\ p[1][2] \in before
        /\ \A p \in T(before) : p[1][1] = c.dq /\ p[1][2] \in before
        /\ \A p \in E(after) : p[1][2] \in after
    <3>1. \A K : Lies(E(K), c.q, K, Rows, Cols) /\ Lies(V(K), c.q, K, Rows, Cols)
      BY HoldLies DEF Entering, Advanced
    <3>2. \A K : Lies(T(K), c.dq, K, Rows, Cols)
      BY HoldLies
    <3> HIDE DEF k, k1, before, after, E, V, T
    <3>3. QED
      BY <3>1, <3>2 DEF Lies
  <2>7. /\ c.q \notin CapBuffers(c) /\ c.dq \notin CapBuffers(c)
        /\ c.q # c.dq /\ c.q # c.qqu /\ c.q # c.qqv /\ c.dq # c.qqu /\ c.dq # c.qqv
    BY ContextApart
  <2>8. c.q[1] \notin ScratchNames /\ c.dq[1] \notin ScratchNames
    BY BufferPlain
  <2>9. Plain(A) /\ Planned(A, c.s) /\ \A p \in A : p[1][1] \notin Mine(c)
    BY AloofAgain, PlannedAloof
  <2> HIDE DEF k, k1, before, after, A, E, V, T
  <2>10. Plain(S)
    BY <2>6, <2>8, <2>9 DEF Plain
  <2>11. Planned(S, c.s)
    <3>1. A \subseteq S
      OBVIOUS
    <3> HIDE DEF S
    <3>2. QED
      BY <2>9, <3>1, PlannedMore
  <2>12. A \cup E(after) \cup V(before) \cup T(before) \subseteq Base(S, c, k)
    <3>1. A \subseteq Base(S, c, k)
      BY <2>9 DEF Base, Mine
    <3>2. E(after) \cup V(before) \subseteq Base(S, c, k)
      BY <2>1, <2>6, <2>7 DEF Base
    <3>3. T(before) \subseteq Base(S, c, k)
      BY <2>1, <2>6, <2>7 DEF Base
    <3>4. QED
      BY <3>1, <3>2, <3>3
  <2>13. Entering(c, {k}, Rows, Cols) \subseteq S
    BY DEF E, k1
  <2> HIDE DEF S
  <2>14. Flows(AdvectLevel(team, c, k), n, S, Base(S, c, k) \cup V(k1) \cup T(k1))
    BY <2>1, <2>10, <2>11, <2>13, LevelMakes DEF V, T, k1
  <2>15. G[m] \subseteq Base(S, c, k) \cup V(k1) \cup T(k1)
    BY <2>4, <2>12
  <2>16. ss[m] = AdvectLevel(team, c, k)
    BY DEF k
  <2>17. QED
    BY <2>5, <2>14, <2>15, <2>16, FlowsWeaker
<1>4. Flows(FlattenSeq(ss), n, G[0], G[NLev])
  <2> HIDE DEF ss, G, n
  <2>1. \A m \in 1 .. Len(ss) : IsSeq(ss[m]) /\ Flows(ss[m], n, G[m - 1], G[m])
    BY <1>1, <1>2, <1>3
  <2>2. Flows(FlattenSeq(ss), n, G[0], G[Len(ss)])
    BY <1>1, <2>1, FlowsFlattened
  <2>3. QED
    BY <1>1, <2>2
<1>5. G[0] \subseteq P
  <2>1. 0 .. NLev - 1 = Levels /\ 0 \in 0 .. NLev
    BY <1>1 DEF Levels
  <2>2. V(0 .. 0 - 1) = {} /\ T(0 .. 0 - 1) = {}
    BY DEF Hold, Advanced
  <2>3. A \subseteq P /\ E(Levels) \subseteq P
    BY AloofAgain
  <2>4. G[0] = A \cup E(0 .. NLev - 1) \cup V(0 .. 0 - 1) \cup T(0 .. 0 - 1)
    BY <2>1
  <2> HIDE DEF A, E, V, T
  <2>5. QED
    BY <2>1, <2>2, <2>3, <2>4
<1>6. A \cup V(Levels) \cup T(Levels) \subseteq G[NLev]
  <2>1. 0 .. NLev - 1 = Levels /\ NLev \in 0 .. NLev
    BY <1>1 DEF Levels
  <2> HIDE DEF A, E, V, T
  <2>2. QED
    BY <2>1
<1>7. QED
  BY <1>4, <1>5, <1>6, FlowsWeaker DEF AdvectLevels

LEMMA FzppmMakes ==
  ASSUME NEW team, Team(team), NEW c, InContext(c), NEW P, Plain(P),
         c.courant,
         Planned(P, c.s),
         Advanced(c, Levels, Rows, Cols) \subseteq P,
         Hold(c.dq, Levels, Rows, Cols, "transported", c) \subseteq P
  PROVE  Passes(FzppmRegion(team, c), Len(team), P,
                Beyond(P, Zone({c.dq}, Levels, Rows \ CapRows, Cols))
                  \cup Hold(c.dq, Levels, Rows \ CapRows, Cols, "advected", c))
PROOF
<1> DEFINE iters == Rows \ CapRows
           r == FzppmRegion(team, c)
           bufs == {c.dq}
           K == Levels
           D == Cols
           N == Hold(c.dq, Levels, Rows \ CapRows, Cols, "advected", c)
<1>1. Apportioned(r, team, iters, RowZones(iters, bufs, K, D), c)
  BY FzppmLoop
<1>2. Rows \ CapRows \subseteq Rows
  BY Iterations, GridIs
<1>3. In(N, Zone(bufs, K, iters, D))
  BY HoldIn
<1>4. ASSUME NEW w, NEW x \in iters PROVE Gives(FzppmRow(c, w, x), P, {p \in N : p[1][3] = x})
  <2> DEFINE J0 == {x}
             z == Scratch("z_parabola", w, 0, x, c)
             a == FzppmParabola(c, w, x)
             b == FzppmFlux(c, w, x)
             U == Advanced(c, Levels, J0, Cols) \cup Term("delp1", c.s, Levels, J0, Cols)
             O == Term("wz", c.s, Levels, J0, Cols) \cup Term("courant", c.s, Levels, J0, Cols)
             H == Hold(c.dq, Levels, J0, Cols, "transported", c)
             T == Hold(c.dq, Levels, J0, Cols, "advected", c)
  <2>1. /\ J0 \subseteq Rows /\ Cols \subseteq Cols /\ Levels \subseteq Levels
        /\ "delp1" \in WindFields /\ "wz" \in WindFields /\ "courant" \in WindFields
    BY <1>2 DEF WindFields
  <2>2. a = Op(U, z) /\ b = Op(z \cup O \cup H, T) /\ FzppmRow(c, w, x) = Fused(a, b)
    <3>1. \A X1, X2, X3, X4 : X1 \cup X2 \cup X3 \cup X4 = X1 \cup (X2 \cup X3) \cup X4
      OBVIOUS
    <3>2. QED
      BY <3>1 DEF FzppmParabola, FzppmFlux, FzppmRow
  <2>3. {p \in N : p[1][3] = x} \subseteq T
    BY HoldOn
  <2>4. \A p \in z : p[1][1][1] = "z_parabola"
    BY ScratchNamed
  <2>5. NoName(P, "z_parabola")
    BY PlainNames DEF ScratchNames
  <2>6. Term("delp1", c.s, Levels, J0, Cols) \subseteq P /\ O \subseteq P
    <3> HIDE DEF J0
    <3>1. QED
      BY <2>1, PlannedPart
  <2>7. H \subseteq P /\ Advanced(c, Levels, J0, Cols) \subseteq P
    <3> HIDE DEF J0
    <3>1. H \subseteq P
      BY <2>1, HoldSub
    <3>2. Advanced(c, Levels, J0, Cols) \subseteq Advanced(c, Levels, Rows, Cols)
      BY <2>1, HoldPart DEF Advanced
    <3>3. QED
      BY <3>1, <3>2
  <2>8. U \subseteq P
    BY <2>6, <2>7
  <2> HIDE DEF z, a, b, U, O, H, T
  <2>9. Gives(a, P, P \cup z)
    BY <2>2, <2>4, <2>5, <2>8, ScratchGives
  <2>10. z \cup O \cup H \subseteq P \cup z
    BY <2>6, <2>7
  <2> DEFINE P1 == P \cup z
  <2> HIDE DEF P1
  <2>11. Gives(b, P1, {p \in N : p[1][3] = x})
    BY <2>2, <2>3, <2>10, GivesOp DEF P1
  <2>12. Gives(a, P, P1)
    BY <2>9 DEF P1
  <2>13. QED
    BY <2>2, <2>11, <2>12, FusedGives
<1>5. r = [t \in 1 .. Len(team) |-> [x \in 1 .. Len(Shares(iters, Len(team))[t]) |->
             FzppmRow(c, team[t], Shares(iters, Len(team))[t][x])]]
  BY DEF Loop, FzppmRegion
<1> HIDE DEF iters, r, bufs, K, D, N
<1>6. iters \in SUBSET Nat /\ IsFiniteSet(iters)
  BY <1>1 DEF Apportioned
<1>7. \A t \in 1 .. Len(team) : \A a \in 1 .. Len(Shares(iters, Len(team))[t]) :
        Gives(r[t][a], P, {p \in N : p[1][3] = Shares(iters, Len(team))[t][a]})
  BY <1>4, <1>5, <1>6, ShareIn
<1>8. Passes(r, Len(team), P, Beyond(P, Zone(bufs, K, iters, D)) \cup N)
  BY <1>1, <1>3, <1>7, RowsMake
<1>9. QED
  BY <1>8 DEF iters, r, bufs, K, D, N

-----------------------------------------------------------------------------
(* Filling, diffusion and convection.                                      *)

LEMMA GivesWith ==
  ASSUME NEW S, NEW P, S \subseteq P, NEW R, R \subseteq P, NEW T, \A p \in R : p[1] \notin CellsOf(T)
  PROVE  Gives(Op(S, T), P, R \cup T)
PROOF
  BY DEF Gives, Op

LEMMA FieldSub ==
  ASSUME NEW P, NEW s, NEW name, Field(name, s) \subseteq P
  PROVE  \A J, I : J \subseteq Rows /\ I \subseteq Cols => Term(name, s, Levels, J, I) \subseteq P
PROOF
  BY TermPart DEF Field

\* One column, filled by worker w or by the one that runs the whole block.
LEMMA QckxyzGives ==
  ASSUME NEW c, NEW P, Hold(c.dq, Levels, Interior, Cols, "advected", c) \subseteq P,
         NEW w, NEW x, J1P + x \div NLon \in Interior, x % NLon \in Cols
  PROVE  /\ QckxyzColumn(c, w, x).sets =
              Hold(c.dq, Levels, {J1P + x \div NLon}, {x % NLon}, "filled", c)
         /\ QckxyzColumn(c, w, x) =
              Op(Hold(c.dq, Levels, {J1P + x \div NLon}, {x % NLon}, "advected", c),
                 Hold(c.dq, Levels, {J1P + x \div NLon}, {x % NLon}, "filled", c))
         /\ Hold(c.dq, Levels, {J1P + x \div NLon}, {x % NLon}, "advected", c) \subseteq P
PROOF
<1> DEFINE J0 == {J1P + x \div NLon}
           I0 == {x % NLon}
<1>1. J0 \subseteq Interior /\ I0 \subseteq Cols /\ Levels \subseteq Levels
  OBVIOUS
<1>2. QckxyzColumn(c, w, x) = Op(Hold(c.dq, Levels, J0, I0, "advected", c), Hold(c.dq, Levels, J0, I0, "filled", c))
  BY DEF QckxyzColumn
<1> HIDE DEF J0, I0
<1>3. Hold(c.dq, Levels, J0, I0, "advected", c) \subseteq P
  BY <1>1, HoldSub
<1>4. QckxyzColumn(c, w, x).sets = Hold(c.dq, Levels, J0, I0, "filled", c)
  BY <1>2 DEF Op
<1>5. QED
  BY <1>2, <1>3, <1>4 DEF J0, I0

LEMMA QckxyzMakes ==
  ASSUME NEW team, Team(team), NEW c, InContext(c), NEW P, Plain(P),
         Hold(c.dq, Levels, Interior, Cols, "advected", c) \subseteq P
  PROVE  Passes(QckxyzRegion(team, c), Len(team), P,
                Beyond(P, Zone({c.dq}, Levels, Interior, Cols)) \cup Hold(c.dq, Levels, Interior, Cols, "filled", c))
PROOF
<1> DEFINE iters == 0 .. (NLat - 4) * NLon - 1
           r == QckxyzRegion(team, c)
           zone == CellsFrom(J1P, iters, {c.dq}, Levels)
           bufs == {c.dq}
           K == Levels
           from == J1P
           n == NLat - 4
           rows == Interior
           N == Hold(c.dq, Levels, Interior, Cols, "filled", c)
           M == [x \in iters |-> {p \in N : p[1][3] = from + x \div NLon /\ p[1][4] = x % NLon}]
<1>1. Apportioned(r, team, iters, zone, c)
  BY QckxyzLoop
<1>2. n \in Nat /\ from \in Nat /\ rows = from .. from + n - 1
  BY GridAssumption DEF Rows, Interior, J1P, J2P
<1>3. ASSUME NEW x \in iters PROVE from + x \div NLon \in rows /\ x % NLon \in Cols
  <2> DEFINE q == x \div NLon
  <2>1. q \in 0 .. n - 1 /\ x % NLon \in Cols
    BY <1>2, CellIn
  <2> HIDE DEF q, n, from, rows
  <2>2. from + q \in rows
    BY <1>2, <2>1
  <2>3. QED
    BY <2>1, <2>2 DEF q
<1>4. ASSUME NEW w, NEW x \in iters PROVE Gives(QckxyzColumn(c, w, x), P, M[x])
  <2> DEFINE j == from + x \div NLon
             i == x % NLon
             T == Hold(c.dq, Levels, {j}, {i}, "filled", c)
             S == Hold(c.dq, Levels, {j}, {i}, "advected", c)
  <2>1. QckxyzColumn(c, w, x) = Op(S, T) /\ S \subseteq P
    BY <1>3, QckxyzGives
  <2>2. {p \in N : p[1][3] = j /\ p[1][4] = i} \subseteq T
    <3>1. \A y, u : {p \in N : p[1][3] = y /\ p[1][4] = u} \subseteq Hold(c.dq, Levels, {y}, {u}, "filled", c)
      BY HoldOn
    <3>2. QED
      BY <3>1
  <2>3. M[x] = {p \in N : p[1][3] = j /\ p[1][4] = i}
    OBVIOUS
  <2> HIDE DEF j, i, S, T, M, N
  <2>4. QED
    BY <2>1, <2>2, <2>3, GivesOp
<1>5. OverCells(iters, rows, from, n) /\ ByCells(zone, M, iters, bufs, K, N, from)
  <2>1. \A x \in iters : zone[x] = Zone(bufs, K, {from + x \div NLon}, {x % NLon})
    BY DEF CellsFrom
  <2>2. QED
    BY <1>2, <2>1 DEF OverCells, ByCells
<1>6. In(N, Zone(bufs, K, rows, Cols))
  BY HoldIn
<1>7. r = [t \in 1 .. Len(team) |-> [x \in 1 .. Len(Shares(iters, Len(team))[t]) |->
             QckxyzColumn(c, team[t], Shares(iters, Len(team))[t][x])]]
  BY DEF Loop, QckxyzRegion
<1> HIDE DEF iters, r, zone, bufs, K, from, n, rows, N, M
<1>8. iters \in SUBSET Nat /\ IsFiniteSet(iters)
  BY <1>1 DEF Apportioned
<1>9. \A t \in 1 .. Len(team) : \A a \in 1 .. Len(Shares(iters, Len(team))[t]) :
        Gives(r[t][a], P, M[Shares(iters, Len(team))[t][a]])
  BY <1>4, <1>7, <1>8, ShareIn
<1>10. Passes(r, Len(team), P, Beyond(P, Zone(bufs, K, rows, Cols)) \cup N)
  BY <1>1, <1>5, <1>6, <1>9, CellsMake
<1>11. QED
  BY <1>10 DEF r, N, bufs, K, rows

LEMMA QckFinalizeMakes ==
  ASSUME NEW c, InContext(c), NEW P, Hold(c.dq, Levels, Interior, Cols, "advected", c) \subseteq P
  PROVE  Gives(QckFinalizeColumns(c, TRUE, FALSE), P,
               Beyond(P, Zone({c.dq}, Levels, Interior, Cols))
                 \cup Hold(c.dq, Levels, Interior, Cols, "filled", c))
PROOF
<1> DEFINE n == (NLat - 4) * NLon
           ops == [x \in 1 .. n |-> QckxyzColumn(c, 0, x - 1)]
           z == Zone({c.dq}, Levels, Interior, Cols)
           A == Hold(c.dq, Levels, Interior, Cols, "advected", c)
           N == Hold(c.dq, Levels, Interior, Cols, "filled", c)
           at(p, x) == p[1][3] = J1P + (x - 1) \div NLon /\ p[1][4] = (x - 1) % NLon
           f == [a \in 0 .. n |-> Beyond(P, z) \cup {p \in A : \A x \in 1 .. a : ~at(p, x)}
                                  \cup {p \in N : \E x \in 1 .. a : at(p, x)}]
<1>1. n \in Nat
  <2>1. NLat - 4 \in Nat /\ NLon \in Nat
    BY GridAssumption
  <2>2. QED
    BY <2>1
<1>2. IsSeq(ops) /\ Len(ops) = n /\ \A x \in 1 .. n : ops[x] = QckxyzColumn(c, 0, x - 1)
  BY <1>1, SeqIs
<1>3. QckFinalizeColumns(c, TRUE, FALSE) = FusedAll(ops)
  <2>1. ops \o <<>> = ops
    <3> HIDE DEF n, ops
    <3>1. PICK S : ops \in Seq(S)
      BY <1>2 DEF IsSeq
    <3>2. QED
      BY <3>1, ConcatEmptySeq
  <2>2. QED
    BY <2>1 DEF QckFinalizeColumns
<1>4. ASSUME NEW x \in 1 .. n
      PROVE  J1P + (x - 1) \div NLon \in Interior /\ (x - 1) % NLon \in Cols
  <2> DEFINE m == NLat - 4
             y == x - 1
             q == y \div NLon
  <2>1. m \in Nat /\ y \in 0 .. m * NLon - 1
    BY <1>1, GridAssumption
  <2> HIDE DEF y, m
  <2>2. q \in 0 .. m - 1 /\ y % NLon \in Cols
    BY <2>1, CellIn
  <2> HIDE DEF q
  <2>3. J1P + q \in Interior
    BY <2>1, <2>2, GridAssumption DEF m, J1P, J2P, Interior
  <2>4. QED
    BY <2>2, <2>3 DEF q, y
<1>5. ASSUME NEW a \in 1 .. n PROVE Gives(ops[a], f[a - 1], f[a])
  <2> DEFINE j == J1P + (a - 1) \div NLon
             i == (a - 1) % NLon
             S == Hold(c.dq, Levels, {j}, {i}, "advected", c)
             T == Hold(c.dq, Levels, {j}, {i}, "filled", c)
  <2>1. a - 1 \in 0 .. n /\ a \in 0 .. n /\ 1 .. a = 1 .. (a - 1) \cup {a} /\ \A x \in 1 .. (a - 1) : x \in 1 .. n /\ x < a
    BY <1>1
  <2>2. j \in Interior /\ i \in Cols
    BY <1>4
  <2>3. ops[a] = Op(S, T)
    BY <1>2, <1>4, QckxyzGives
  <2>4. \A x \in 1 .. (a - 1) : \A p : ~(at(p, x) /\ p[1][3] = j /\ p[1][4] = i)
    <3> SUFFICES ASSUME NEW x \in 1 .. (a - 1), J1P + (x - 1) \div NLon = j, (x - 1) % NLon = i
                 PROVE  FALSE
      OBVIOUS
    <3> DEFINE u == x - 1
               v == a - 1
    <3>1. u \in Nat /\ v \in Nat /\ u # v
      BY <1>1, <2>1
    <3> HIDE DEF u, v
    <3>2. u \div NLon # v \div NLon \/ u % NLon # v % NLon
      BY <3>1, CellsApart
    <3> DEFINE e == u \div NLon
               g == v \div NLon
    <3>3. e \in Int /\ g \in Int
      BY <3>1, GridAssumption
    <3>4. J1P + e = J1P + g /\ u % NLon = v % NLon
      BY DEF u, v
    <3> HIDE DEF e, g
    <3>5. e = g
      BY <3>3, <3>4 DEF J1P
    <3>6. QED
      BY <3>2, <3>4, <3>5 DEF e, g
  <2>5. \A p \in S : p[1][3] = j /\ p[1][4] = i /\ p \in A
    <3> HIDE DEF j, i
    <3>1. QED
      BY <2>2 DEF Hold
  <2>6. \A p \in T : p[1][3] = j /\ p[1][4] = i /\ Inside(p[1], z)
    <3> HIDE DEF j, i
    <3>1. QED
      BY <2>2 DEF Hold, Inside, Zone
  <2>7. \A p \in N : p[1][3] = j /\ p[1][4] = i => p \in T
    <3> HIDE DEF j, i
    <3>1. QED
      BY DEF Hold
  <2>8. \A p : at(p, a) <=> p[1][3] = j /\ p[1][4] = i
    OBVIOUS
  <2> HIDE DEF j, i, S, T, A, N, z, at
  <2>9. S \subseteq f[a - 1]
    BY <2>1, <2>4, <2>5
  <2>10. f[a] \subseteq {p \in f[a - 1] : p[1] \notin CellsOf(T)} \cup T
    <3> SUFFICES ASSUME NEW p \in f[a] PROVE p \in {q \in f[a - 1] : q[1] \notin CellsOf(T)} \cup T
      OBVIOUS
    <3>1. CASE p \in Beyond(P, z)
      BY <2>1, <2>6, <3>1 DEF Beyond, CellsOf
    <3>2. CASE p \in A /\ \A x \in 1 .. a : ~at(p, x)
      BY <2>1, <2>6, <2>8, <3>2 DEF CellsOf
    <3>3. CASE p \in N /\ at(p, a)
      BY <2>7, <2>8, <3>3
    <3>4. CASE p \in N /\ ~at(p, a) /\ \E x \in 1 .. (a - 1) : at(p, x)
      BY <2>1, <2>6, <2>8, <3>4 DEF CellsOf
    <3>5. QED
      BY <2>1, <3>1, <3>2, <3>3, <3>4
  <2> DEFINE op == ops[a]
             before == f[a - 1]
             after == f[a]
  <2>11. op = Op(S, T) /\ S \subseteq before /\ after \subseteq {p \in before : p[1] \notin CellsOf(T)} \cup T
    BY <2>3, <2>9, <2>10
  <2> HIDE DEF op, before, after
  <2>12. Gives(op, before, after)
    BY <2>11 DEF Gives, Op
  <2>13. QED
    BY <2>12 DEF op, before, after
<1>6. f[0] \subseteq P
  <2>1. 0 \in 0 .. n /\ 1 .. 0 = {}
    BY <1>1
  <2>2. A \subseteq P /\ Beyond(P, z) \subseteq P
    BY DEF Beyond
  <2> HIDE DEF A, N, z, at
  <2>3. QED
    BY <2>1, <2>2
<1>7. Beyond(P, z) \cup N \subseteq f[n]
  <2>1. ASSUME NEW p \in N PROVE \E x \in 1 .. n : at(p, x)
    <3> DEFINE m == NLat - 4
               j == p[1][3] - J1P
               i == p[1][4]
    <3>1. p[1][3] \in Interior /\ i \in Cols
      BY HoldLies DEF Lies
    <3>2. m \in Nat /\ j \in 0 .. m - 1 /\ p[1][3] = J1P + j
      BY <3>1, GridAssumption DEF J1P, J2P, Interior
    <3> HIDE DEF j, i
    <3>3. PICK y \in 0 .. m * NLon - 1 : y \div NLon = j /\ y % NLon = i
      BY <3>1, <3>2, CellNumber
    <3>4. y + 1 \in 1 .. n /\ (y + 1) - 1 = y
      BY <1>1
    <3> DEFINE x == y + 1
    <3>5. x \in 1 .. n /\ (x - 1) \div NLon = j /\ (x - 1) % NLon = i
      BY <3>3, <3>4
    <3> HIDE DEF x
    <3>6. QED
      BY <3>2, <3>5 DEF i
  <2>2. n \in 0 .. n
    BY <1>1
  <2> HIDE DEF A, N, z, at, n
  <2>3. QED
    BY <2>1, <2>2
<1> HIDE DEF n, ops, z, N, f
<1>8. Leads(ops, P, Beyond(P, z) \cup N)
  BY <1>2, <1>5, <1>6, <1>7 DEF Leads, Hands
<1>9. QED
  BY <1>2, <1>3, <1>8, FusedAllGives DEF z, N

LEMMA FinalizePolesMakes ==
  ASSUME NEW c, NEW P, Planned(P, c.s), Hold(c.dq, Levels, PoleRows, Cols, "advected", c) \subseteq P
  PROVE  Gives(FinalizePoles(c), P,
               Beyond(P, Zone({c.dq}, Levels, CapRows, Cols))
                 \cup Hold(c.dq, Levels, CapRows, Cols, "mixing_ratio", c))
PROOF
<1>1. In(Hold(c.dq, Levels, CapRows, Cols, "mixing_ratio", c), Zone({c.dq}, Levels, CapRows, Cols))
  BY HoldIn
<1>2. PoleRows \subseteq Rows /\ Cols \subseteq Cols /\ Levels \subseteq Levels /\ "delp2" \in WindFields
  BY GridIs DEF WindFields
<1>3. Term("delp2", c.s, Levels, PoleRows, Cols) \subseteq P
  BY <1>2, PlannedPart
<1>4. QED
  BY <1>1, <1>3, GivesBeyond DEF FinalizePoles, In

\* The masses of a block when diffusion begins: filled, the poles advected,
\* the caps' outer rows finalized.
Ready(P, c) ==
  /\ Hold(c.dq, Levels, Interior, Cols, "filled", c) \subseteq P
  /\ Hold(c.dq, Levels, PoleRows, Cols, "advected", c) \subseteq P
  /\ Hold(c.dq, Levels, CapRows, Cols, "mixing_ratio", c) \subseteq P

LEMMA VdiffInputIn ==
  ASSUME NEW c, NEW P, Ready(P, c), Planned(P, c.s), NEW j \in Rows
  PROVE  VdiffInput(c, TRUE, TRUE, j) \subseteq P
PROOF
<1> DEFINE J0 == {j}
           F == Hold(c.dq, Levels, J0 \cap Interior, Cols, "filled", c)
           A == Hold(c.dq, Levels, J0 \cap PoleRows, Cols, "advected", c)
           T == Term("delp2", c.s, Levels, J0, Cols)
           M == Hold(c.dq, Levels, J0, Cols, "mixing_ratio", c)
<1>1. VdiffInput(c, TRUE, TRUE, j) = IF j \notin CapRows THEN F \cup A \cup T ELSE M
  BY DEF VdiffInput, AdvectedMass
<1>2. J0 \subseteq Rows /\ Cols \subseteq Cols /\ Levels \subseteq Levels /\ "delp2" \in WindFields
      /\ J0 \cap Interior \subseteq Interior /\ J0 \cap PoleRows \subseteq PoleRows
      /\ (j \in CapRows => J0 \subseteq CapRows)
  BY DEF WindFields
<1> HIDE DEF J0
<1>3. F \subseteq P
  <2>1. Hold(c.dq, Levels, Interior, Cols, "filled", c) \subseteq P
    BY DEF Ready
  <2>2. QED
    BY <1>2, <2>1, HoldSub
<1>4. A \subseteq P
  <2>1. Hold(c.dq, Levels, PoleRows, Cols, "advected", c) \subseteq P
    BY DEF Ready
  <2>2. QED
    BY <1>2, <2>1, HoldSub
<1>5. T \subseteq P
  BY <1>2, PlannedPart
<1>6. j \in CapRows => M \subseteq P
  <2>1. Hold(c.dq, Levels, CapRows, Cols, "mixing_ratio", c) \subseteq P
    BY DEF Ready
  <2>2. QED
    BY <1>2, <2>1, HoldSub
<1>7. QED
  BY <1>1, <1>3, <1>4, <1>5, <1>6

\* Diffusion, row by row.
LEMMA VdiffMakes ==
  ASSUME NEW team, Team(team), NEW c, InContext(c), NEW flux, NEW P, Plain(P),
         Prepared(P, c.s, c.b),
         Ready(P, c)
  PROVE  Passes(VdiffRegion(team, c, TRUE, TRUE, flux), Len(team), P,
                Beyond(P, Zone({c.q}, Levels, Rows, Cols))
                  \cup Hold(c.q, Levels, Rows, Cols, "diffused", c))
PROOF
<1> DEFINE iters == Rows
           r == VdiffRegion(team, c, TRUE, TRUE, flux)
           bufs == {c.q}
           K == Levels
           D == Cols
           N == Hold(c.q, Levels, Rows, Cols, "diffused", c)
<1>1. Apportioned(r, team, iters, RowZones(iters, bufs, K, D), c)
  BY VdiffLoop
<1>2. Rows \subseteq Rows
  BY Iterations, GridIs
<1>3. In(N, Zone(bufs, K, iters, D))
  BY HoldIn
<1>4. ASSUME NEW w, NEW x \in iters PROVE Gives(VdiffRow(c, TRUE, TRUE, flux, w, x), P, {p \in N : p[1][3] = x})
  <2> DEFINE J0 == {x}
             qm == IF flux THEN Scratch("qmx", w, 0, x, c) ELSE {}
             td == Scratch("tracer_diffused", w, 0, x, c)
             bm == Scratch("before_mass", w, 0, x, c)
             am == Scratch("after_mass", w, 0, x, c)
             V == VdiffInput(c, TRUE, TRUE, x)
             G == CounterGradient(c.s, x)
             F == Piece("surface_flux", c.b, <<"surface_flux", c.s, c.b>>)
             tmp == Term("tmp1", c.s, {0}, J0, Cols)
             C == Coefficients(c.s, x)
             dry == Fresh("dry_mass", c.s, Levels, J0, Cols)
             H == Hold(c.q, Levels, J0, Cols, "diffused", c)
             a == VdiffSource(c, TRUE, TRUE, flux, w, x)
             b == VdiffSweep(c, TRUE, TRUE, flux, w, x)
             d == VdiffRescale(c, w, x)
  <2>1. a = IF flux THEN Op(V \cup G \cup F, qm) ELSE Nothing
    BY DEF VdiffSource
  <2>2. b = Op(V \cup (IF flux THEN qm \cup F \cup tmp ELSE {}) \cup C \cup dry, td \cup bm)
    <3>1. CASE flux
      BY <3>1 DEF VdiffSweep
    <3>2. CASE ~flux
      BY <3>2 DEF VdiffSweep
    <3>3. QED
      BY <3>1, <3>2
  <2>3. d = Op(td \cup bm \cup dry, am \cup H)
    BY DEF VdiffRescale
  <2>4. VdiffRow(c, TRUE, TRUE, flux, w, x) = FusedAll(<<a, b, d>>)
    BY DEF VdiffRow
  <2>5. J0 \subseteq Rows /\ x \in Rows /\ Levels \subseteq Levels /\ Cols \subseteq Cols
    OBVIOUS
  <2>6. V \subseteq P
    BY <2>5, VdiffInputIn DEF Prepared
  <2>7. G \subseteq P /\ F \subseteq P /\ C \subseteq P
    BY <2>5 DEF Prepared
  <2>8. tmp \subseteq P
    <3>1. tmp \subseteq G
      BY DEF CounterGradient
    <3>2. QED
      BY <2>7, <3>1
  <2>9. dry \subseteq P
    <3>1. DryMass(c.s) \subseteq P
      BY DEF Prepared
    <3> HIDE DEF J0
    <3>2. dry \subseteq DryMass(c.s)
      BY <2>5, TermPart DEF DryMass
    <3>3. QED
      BY <3>1, <3>2
  <2>10. {p \in N : p[1][3] = x} \subseteq H
    BY HoldOn
  <2>11. (\A p \in qm : p[1][1][1] = "qmx") /\ (\A p \in td : p[1][1][1] = "tracer_diffused")
         /\ (\A p \in bm : p[1][1][1] = "before_mass")
    BY ScratchNamed
  <2>12. \A p \in P : p[1][1][1] # "qmx" /\ p[1][1][1] # "tracer_diffused" /\ p[1][1][1] # "before_mass"
    BY PlainNames DEF ScratchNames, NoName
  <2> HIDE DEF J0, qm, td, bm, am, V, G, F, tmp, C, dry, H, a, b, d
  <2> DEFINE P1 == P \cup qm
             P2 == P1 \cup (td \cup bm)
  <2>13. Gives(a, P, P1)
    <3>1. CASE flux
      <4>1. Gives(Op(V \cup G \cup F, qm), P, P \cup qm)
        <5>1. V \cup G \cup F \subseteq P
          BY <2>6, <2>7
        <5>2. \A p \in P : p[1] \notin CellsOf(qm)
          BY <2>11, <2>12 DEF CellsOf
        <5>3. QED
          BY <5>1, <5>2, GivesNew
      <4>2. QED
        BY <2>1, <3>1, <4>1
    <3>2. CASE ~flux
      <4>1. qm = {}
        BY <3>2 DEF qm
      <4>2. P1 = P /\ a = Nothing
        BY <2>1, <3>2, <4>1
      <4> HIDE DEF P1
      <4>3. QED
        BY <4>2, NothingGives
    <3>3. QED
      BY <3>1, <3>2
  <2>14. Gives(b, P1, P2)
    <3> DEFINE S == V \cup (IF flux THEN qm \cup F \cup tmp ELSE {}) \cup C \cup dry
               T == td \cup bm
    <3>1. S \subseteq P1
      BY <2>6, <2>7, <2>8, <2>9
    <3>2. \A p \in P1 : p[1] \notin CellsOf(T)
      BY <2>11, <2>12 DEF CellsOf
    <3>3. b = Op(S, T) /\ P2 = P1 \cup T
      BY <2>2
    <3> HIDE DEF S, T, P1, P2
    <3>4. QED
      BY <3>1, <3>2, <3>3, GivesNew
  <2>15. Gives(d, P2, {p \in N : p[1][3] = x})
    <3> DEFINE S == td \cup bm \cup dry
               T == am \cup H
               O == {p \in N : p[1][3] = x}
    <3>1. S \subseteq P2 /\ O \subseteq T /\ d = Op(S, T)
      BY <2>3, <2>9, <2>10
    <3> HIDE DEF S, T, P2, O
    <3>2. Gives(d, P2, O)
      BY <3>1, GivesOp
    <3>3. QED
      BY <3>2 DEF O
  <2> DEFINE O == {p \in N : p[1][3] = x}
  <2>16. Gives(d, P2, O)
    BY <2>15
  <2> HIDE DEF P1, P2, O
  <2>17. Gives(FusedAll(<<a, b, d>>), P, O)
    BY <2>13, <2>14, <2>16, FusedSome
  <2>18. QED
    BY <2>4, <2>17 DEF O
<1>5. r = [t \in 1 .. Len(team) |-> [x \in 1 .. Len(Shares(iters, Len(team))[t]) |->
             VdiffRow(c, TRUE, TRUE, flux, team[t], Shares(iters, Len(team))[t][x])]]
  BY DEF Loop, VdiffRegion
<1> HIDE DEF iters, r, bufs, K, D, N
<1>6. iters \in SUBSET Nat /\ IsFiniteSet(iters)
  BY <1>1 DEF Apportioned
<1>7. \A t \in 1 .. Len(team) : \A a \in 1 .. Len(Shares(iters, Len(team))[t]) :
        Gives(r[t][a], P, {p \in N : p[1][3] = Shares(iters, Len(team))[t][a]})
  BY <1>4, <1>5, <1>6, ShareIn
<1>8. Passes(r, Len(team), P, Beyond(P, Zone(bufs, K, iters, D)) \cup N)
  BY <1>1, <1>3, <1>7, RowsMake
<1>9. QED
  BY <1>8 DEF iters, r, bufs, K, D, N


\* One internal step of convection.
LEMMA ConvectSubstepLeads ==
  ASSUME NEW c, InContext(c), NEW w, NEW j, NEW i, NEW n, NEW last, NEW m, m = n - 1
  PROVE  /\ IsSeq(ConvectSubstep(c, w, j, i, n, last))
         /\ Leads(ConvectSubstep(c, w, j, i, n, last),
                  ConvectionMet(c.s, j, i) \cup Column(c, j, i, m, last),
                  ConvectionMet(c.s, j, i) \cup Column(c, j, i, n, last))
PROOF
<1> DEFINE met == ConvectionMet(c.s, j, i)
           old == Column(c, j, i, m, last)
           new == Column(c, j, i, n, last)
           plume == Plume(c, w, j, i, n)
           tend == Tendency(c, w, j, i, n)
           a == StartPlume(c, w, j, i, n, last)
           b == MovePlume(c, w, j, i, n, last)
           d == UpdateColumn(c, w, j, i, n, last)
           P0 == met \cup old
           P1 == P0 \cup plume
           P2 == P1 \cup tend
<1>1. ConvectSubstep(c, w, j, i, n, last) = <<a, b, d>> /\ IsSeq(<<a, b, d>>)
  BY GivesSeq DEF ConvectSubstep
<1>2. a = Op(old \cup met, plume) /\ b = Op(plume \cup old \cup met, tend) /\ d = Op(tend, new)
  BY DEF StartPlume, MovePlume, UpdateColumn
<1>3. /\ \A p \in plume : p[1][1][1] \in {"qc", "qb_num"}
      /\ \A p \in tend : p[1][1][1] \in {"delq_work", "current_work"}
  BY ScratchNamed DEF Plume, Tendency
<1>4. \A p \in met : p[1][1][1] \notin PrivateNames
  <2>1. \A name \in MetFields : name \notin PrivateNames
    BY PublicNames DEF MetFields
  <2> DEFINE J0 == {j}
             I0 == {i}
             of(name) == Term(name, c.s, Levels, J0, I0)
  <2>2. \A name : \A p \in of(name) : p[1][1][1] = name
    <3> TAKE name
    <3>1. Lies(of(name), <<name, 0>>, Levels, J0, I0)
      BY TermLies
    <3>2. QED
      BY <3>1 DEF Lies
  <2>3. met = UNION {of(name) : name \in MetFields}
    BY DEF ConvectionMet, MetFields
  <2> HIDE DEF of
  <2>4. ASSUME NEW p \in met PROVE p[1][1][1] \notin PrivateNames
    <3>1. PICK name \in MetFields : p \in of(name)
      BY <2>3
    <3>2. QED
      BY <2>1, <2>2, <3>1
  <2>5. QED
    BY <2>4
<1>5. (\A p \in old : p[1][1] = c.q) /\ (\A p \in new : p[1][1] = c.q)
  BY HoldLies DEF Column, Lies
<1>6. c.q[1] \in PrivateNames /\ c.q[1] \notin ScratchNames
  <2>1. c.q \in Mine(c)
    BY DEF Mine
  <2>2. QED
    BY <2>1, ContextOwned DEF Owned
<1>7. {"qc", "qb_num", "delq_work", "current_work"} \subseteq ScratchNames /\ ScratchNames \subseteq PrivateNames
  BY DEF ScratchNames, PrivateNames
<1> HIDE DEF met, old, new, plume, tend, a, b, d
<1>8. Gives(a, P0, P1)
  <2>1. \A p \in P0 : p[1] \notin CellsOf(plume)
    BY <1>3, <1>4, <1>5, <1>6, <1>7 DEF CellsOf
  <2>2. old \cup met \subseteq P0
    OBVIOUS
  <2> HIDE DEF P0
  <2>3. QED
    BY <1>2, <2>1, <2>2, GivesNew
<1>9. Gives(b, P1, P2)
  <2>1. \A p \in P1 : p[1] \notin CellsOf(tend)
    BY <1>3, <1>4, <1>5, <1>6, <1>7 DEF CellsOf
  <2>2. plume \cup old \cup met \subseteq P1
    OBVIOUS
  <2> HIDE DEF P1
  <2>3. QED
    BY <1>2, <2>1, <2>2, GivesNew
<1>10. Gives(d, P2, met \cup new)
  <2>1. \A p \in met : p[1] \notin CellsOf(new)
    BY <1>4, <1>5, <1>6 DEF CellsOf
  <2>2. tend \subseteq P2 /\ met \subseteq P2
    OBVIOUS
  <2> HIDE DEF P2
  <2>3. QED
    BY <1>2, <2>1, <2>2, GivesWith
<1> HIDE DEF P0, P1, P2
<1>11. Leads(<<a, b, d>>, P0, met \cup new)
  BY <1>8, <1>9, <1>10, LeadsSome
<1>12. QED
  BY <1>1, <1>11 DEF P0, met, old, new

\* Convection, column by column.
LEMMA ConvectMakes ==
  ASSUME NEW team, Team(team), NEW c, InContext(c), NEW P, Plain(P),
         NEW internal \in Nat \ {0},
         Prepared(P, c.s, c.b),
         Hold(c.q, Levels, Rows, Cols, "diffused", c) \subseteq P
  PROVE  Passes(ConvectRegion(team, c, internal), Len(team), P,
                Beyond(P, Zone({c.q}, Levels, Rows, Cols)) \cup Hold(c.q, Levels, Rows, Cols, "convected", c))
PROOF
<1> DEFINE iters == 0 .. NLat * NLon - 1
           r == ConvectRegion(team, c, internal)
           zone == CellZones(0 .. NLat * NLon - 1, {c.q}, Levels)
           bufs == {c.q}
           K == Levels
           from == 0
           n == NLat
           rows == Rows
           N == Hold(c.q, Levels, Rows, Cols, "convected", c)
           M == [x \in iters |-> {p \in N : p[1][3] = from + x \div NLon /\ p[1][4] = x % NLon}]
<1>1. Apportioned(r, team, iters, zone, c)
  BY ConvectLoop
<1>2. n \in Nat /\ from \in Nat /\ rows = from .. from + n - 1
  BY GridAssumption DEF Rows, Interior, J1P, J2P
<1>3. ASSUME NEW x \in iters PROVE from + x \div NLon \in rows /\ x % NLon \in Cols
  <2> DEFINE q == x \div NLon
  <2>1. q \in 0 .. n - 1 /\ x % NLon \in Cols
    BY <1>2, CellIn
  <2> HIDE DEF q, n, from, rows
  <2>2. from + q \in rows
    BY <1>2, <2>1
  <2>3. QED
    BY <2>1, <2>2 DEF q
<1>4. ASSUME NEW w, NEW x \in iters PROVE Gives(ConvectColumn(c, internal, w, x), P, M[x])
  <2> DEFINE j == from + x \div NLon
             i == x % NLon
             last == internal
             met == ConvectionMet(c.s, j, i)
             col(m) == Column(c, j, i, m, last)
             steps == [m \in 1 .. internal |-> ConvectSubstep(c, w, j, i, m, last)]
             G == [m \in 0 .. internal |-> met \cup col(m)]
             H == Hold(c.q, Levels, {j}, {i}, "convected", c)
  <2>1. x \div NLon = j /\ x % NLon = i
    <3> DEFINE q == x \div NLon
    <3>1. q \in 0 .. n - 1
      BY <1>2, CellIn
    <3> HIDE DEF q
    <3>2. q = from + q
      BY <3>1
    <3>3. QED
      BY <3>2 DEF q
  <2>2. ConvectColumn(c, internal, w, x) = FusedAll(FlattenSeq(steps))
    BY <2>1 DEF ConvectColumn
  <2>3. j \in Rows /\ i \in Cols
    BY <1>3
  <2>4. M[x] = {p \in N : p[1][3] = j /\ p[1][4] = i}
    OBVIOUS
  <2> HIDE DEF j, i, M, N
  <2>5. {p \in N : p[1][3] = j /\ p[1][4] = i} \subseteq H
    <3>1. \A y, u : {p \in N : p[1][3] = y /\ p[1][4] = u} \subseteq Hold(c.q, Levels, {y}, {u}, "convected", c)
      BY HoldOn DEF N
    <3>2. QED
      BY <3>1
  <2>6. /\ IsSeq(steps) /\ Len(steps) = internal
        /\ \A m \in 1 .. internal : steps[m] = ConvectSubstep(c, w, j, i, m, last)
    BY SeqIs
  <2>7. \A m \in 1 .. internal : IsSeq(steps[m]) /\ Leads(steps[m], G[m - 1], G[m])
    <3> TAKE m \in 1 .. internal
    <3>1. m - 1 \in 0 .. internal /\ m \in 0 .. internal
      OBVIOUS
    <3>2. G[m - 1] = met \cup col(m - 1) /\ G[m] = met \cup col(m)
      BY <3>1
    <3>3. IsSeq(ConvectSubstep(c, w, j, i, m, last)) /\ Leads(ConvectSubstep(c, w, j, i, m, last), met \cup col(m - 1), met \cup col(m))
      BY <3>1, ConvectSubstepLeads
    <3>4. QED
      BY <2>6, <3>2, <3>3
  <2>8. G[0] \subseteq P
    <3>1. met \subseteq P
      <4>1. \A name \in MetFields : Field(name, c.s) \subseteq P
        BY DEF Prepared
      <4> DEFINE J0 == {j}
                 I0 == {i}
      <4>2. J0 \subseteq Rows /\ I0 \subseteq Cols
        BY <2>3
      <4> HIDE DEF J0, I0
      <4>3. \A name \in MetFields : Term(name, c.s, Levels, J0, I0) \subseteq P
        BY <4>1, <4>2, FieldSub
      <4>4. met = UNION {Term(name, c.s, Levels, J0, I0) : name \in MetFields}
        BY DEF ConvectionMet, MetFields, J0, I0
      <4>5. QED
        BY <4>3, <4>4
    <3>2. col(0) \subseteq P
      <4> DEFINE J0 == {j}
                 I0 == {i}
      <4>1. J0 \subseteq Rows /\ I0 \subseteq Cols /\ Levels \subseteq Levels
        BY <2>3
      <4>2. col(0) = Hold(c.q, Levels, J0, I0, "diffused", c)
        BY DEF Column
      <4> HIDE DEF J0, I0
      <4>3. QED
        BY <4>1, <4>2, HoldSub
    <3>3. 0 \in 0 .. internal
      OBVIOUS
    <3> HIDE DEF met, col
    <3>4. QED
      BY <3>1, <3>2, <3>3
  <2>9. H \subseteq G[internal]
    <3>1. internal \in 0 .. internal /\ internal # 0 /\ last = internal
      OBVIOUS
    <3>2. col(internal) = H
      BY <3>1 DEF Column
    <3> HIDE DEF met, col, H
    <3>3. QED
      BY <3>1, <3>2
  <2> HIDE DEF steps, G, H
  <2>10. \A m \in 1 .. Len(steps) : IsSeq(steps[m]) /\ Leads(steps[m], G[m - 1], G[m])
    BY <2>6, <2>7
  <2>11. Leads(FlattenSeq(steps), G[0], G[Len(steps)])
    BY <2>6, <2>10, LeadsFlattened
  <2>12. Leads(FlattenSeq(steps), G[0], G[internal]) /\ IsSeq(FlattenSeq(steps))
    <3>1. DOMAIN steps = 1 .. Len(steps)
      BY <2>6, IsSeqIs
    <3>2. QED
      BY <2>6, <2>10, <2>11, <3>1, Flattened
  <2>13. Gives(FusedAll(FlattenSeq(steps)), G[0], G[internal])
    BY <2>12, FusedAllGives
  <2>14. QED
    BY <2>2, <2>4, <2>5, <2>8, <2>9, <2>13, GivesWeaker
<1>5. OverCells(iters, rows, from, n) /\ ByCells(zone, M, iters, bufs, K, N, from)
  <2>1. \A x \in iters : zone[x] = Zone(bufs, K, {from + x \div NLon}, {x % NLon})
    <3> TAKE x \in iters
    <3> DEFINE q == x \div NLon
    <3>1. q \in 0 .. n - 1
      BY <1>2, CellIn
    <3> HIDE DEF q
    <3>2. q = from + q
      BY <3>1
    <3>3. from + x \div NLon = x \div NLon
      BY <3>2 DEF q
    <3> DEFINE u == from + x \div NLon
    <3>4. zone[x] = Zone(bufs, K, {x \div NLon}, {x % NLon})
      BY DEF CellZones
    <3>5. QED
      BY <3>3, <3>4
  <2>2. QED
    BY <1>2, <2>1 DEF OverCells, ByCells
<1>6. In(N, Zone(bufs, K, rows, Cols))
  BY HoldIn
<1>7. r = [t \in 1 .. Len(team) |-> [x \in 1 .. Len(Shares(iters, Len(team))[t]) |->
             ConvectColumn(c, internal, team[t], Shares(iters, Len(team))[t][x])]]
  BY DEF Loop, ConvectRegion
<1> HIDE DEF iters, r, zone, bufs, K, from, n, rows, N, M
<1>8. iters \in SUBSET Nat /\ IsFiniteSet(iters)
  BY <1>1 DEF Apportioned
<1>9. \A t \in 1 .. Len(team) : \A a \in 1 .. Len(Shares(iters, Len(team))[t]) :
        Gives(r[t][a], P, M[Shares(iters, Len(team))[t][a]])
  BY <1>4, <1>7, <1>8, ShareIn
<1>10. Passes(r, Len(team), P, Beyond(P, Zone(bufs, K, rows, Cols)) \cup N)
  BY <1>1, <1>5, <1>6, <1>9, CellsMake
<1>11. QED
  BY <1>10 DEF r, N, bufs, K, rows


LEMMA CountMakes ==
  ASSUME NEW c, NEW P, Hold(c.q, Levels, Rows, Cols, "convected", c) \subseteq P
  PROVE  Gives(CountNegatives(c), P,
               {p \in P : p[1][1] # <<"negative_counts", c.b>>} \cup BlockCount(c.s, c.b))
PROOF
<1> DEFINE T == BlockCount(c.s, c.b)
           S == Hold(c.q, Levels, Rows, Cols, "convected", c)
<1>1. \A p \in T : p[1][1] = <<"negative_counts", c.b>>
  BY PieceLies DEF BlockCount, Lies
<1>2. CountNegatives(c) = Op(S, T)
  BY DEF CountNegatives
<1> HIDE DEF S, T
<1>3. \A p \in {q \in P : q[1][1] # <<"negative_counts", c.b>>} : p[1] \notin CellsOf(T)
  BY <1>1 DEF CellsOf
<1> DEFINE R == {q \in P : q[1][1] # <<"negative_counts", c.b>>}
<1>4. R \subseteq P /\ S \subseteq P
  BY DEF S
<1> HIDE DEF R
<1>5. Gives(Op(S, T), P, R \cup T)
  BY <1>3, <1>4, GivesWith DEF R
<1>6. QED
  BY <1>2, <1>5 DEF R, T

-----------------------------------------------------------------------------
(* One block, from the tracers that enter to those convected.              *)

LEMMA FlowsOne ==
  ASSUME NEW r, NEW n, NEW P, NEW Q, Passes(r, n, P, Q)
  PROVE  IsSeq(<<r>>) /\ Flows(<<r>>, n, P, Q)
PROOF
<1> DEFINE p == <<r>>
           F == [x \in 0 .. 1 |-> IF x = 0 THEN P ELSE Q]
<1>1. Len(p) = 1 /\ p[1] = r /\ F[0] = P /\ F[1] = Q
  OBVIOUS
<1>2. 1 .. 1 = {1} /\ 1 - 1 = 0
  OBVIOUS
<1>3. IsSeq(<<r>>)
  BY GivesSeq
<1> HIDE DEF p, F
<1>4. \A x \in 1 .. Len(p) : Passes(p[x], n, F[x - 1], F[x])
  BY <1>1, <1>2
<1>5. Flows(p, n, P, Q)
  BY <1>1, <1>4 DEF Flows, Carries
<1>6. QED
  BY <1>3, <1>5 DEF p

LEMMA FlowsThen ==
  ASSUME NEW p, NEW q, IsSeq(p), IsSeq(q), NEW n, NEW P, NEW Q, NEW R,
         Flows(p, n, P, Q), Flows(q, n, Q, R)
  PROVE  IsSeq(p \o q) /\ Flows(p \o q, n, P, R)
PROOF
<1> DEFINE r == p \o q
<1>1. IsJoin(r, p, q)
  BY DEF IsJoin
<1> HIDE DEF r
<1>2. IsSeq(r) /\ Flows(r, n, P, R)
  BY <1>1, FlowsJoined, JoinedElements
<1>3. QED
  BY <1>2 DEF r

\* What no operation of the block touches.
Setting(A, c) == Plain(A) /\ Prepared(A, c.s, c.b) /\ \A p \in A : p[1][1] \notin Mine(c)

LEMMA SettingAloof ==
  ASSUME NEW c, InContext(c), NEW P, Plain(P), Prepared(P, c.s, c.b)
  PROVE  Setting(Aloof(P, c), c)
PROOF
  BY PreparedAloof, AloofAgain DEF Setting

\* A set of facts on which a kernel of the block works.
LEMMA SettingMore ==
  ASSUME NEW c, InContext(c), NEW A, Setting(A, c), NEW S, \A p \in S : p[1][1] \in Mine(c)
  PROVE  /\ Plain(A \cup S) /\ Prepared(A \cup S, c.s, c.b) /\ Planned(A \cup S, c.s)
         /\ \A z : z.bufs \subseteq Mine(c) => A \subseteq Beyond(A \cup S, z)
PROOF
<1>1. Plain(S)
  BY ContextOwned DEF Owned, Plain
<1>2. Plain(A \cup S)
  BY <1>1 DEF Setting, Plain
<1>3. Prepared(A \cup S, c.s, c.b)
  <2>1. A \subseteq A \cup S /\ Prepared(A, c.s, c.b)
    BY DEF Setting
  <2> DEFINE Q == A \cup S
  <2> HIDE DEF Q
  <2>2. A \subseteq Q => Prepared(Q, c.s, c.b)
    BY <2>1, PreparedMore
  <2>3. QED
    BY <2>1, <2>2 DEF Q
<1>4. Planned(A \cup S, c.s)
  BY <1>3 DEF Prepared
<1>5. ASSUME NEW z, z.bufs \subseteq Mine(c) PROVE A \subseteq Beyond(A \cup S, z)
  BY <1>5 DEF Setting, Beyond, Inside
<1>6. QED
  BY <1>2, <1>3, <1>4, <1>5

LEMMA HoldMine ==
  ASSUME NEW c
  PROVE  /\ \A K, J, I, name : \A p \in Hold(c.dq, K, J, I, name, c) : p[1][1] = c.dq
         /\ \A K, J, I, name : \A p \in Hold(c.q, K, J, I, name, c) : p[1][1] = c.q
         /\ c.q \in Mine(c) /\ c.dq \in Mine(c)
PROOF
  BY DEF Hold, Mine

\* After the vertical pass, and after the filling.
Raised(A, c) == A \cup Hold(c.dq, Levels, Rows \ CapRows, Cols, "advected", c)
Filled(A, c) == A \cup Hold(c.dq, Levels, PoleRows, Cols, "advected", c)
                  \cup Hold(c.dq, Levels, Interior, Cols, "filled", c)
Diffused(A, c) == A \cup Hold(c.q, Levels, Rows, Cols, "diffused", c)
Convected(A, c) == A \cup Hold(c.q, Levels, Rows, Cols, "convected", c)

LEMMA VerticalMakes ==
  ASSUME NEW team, Team(team), NEW c, InContext(c), c.courant, NEW P, Plain(P),
         Prepared(P, c.s, c.b), Entering(c, Levels, Rows, Cols) \subseteq P
  PROVE  /\ IsSeq(AdvectLevels(team, c) \o AdvectVertically(team, c))
         /\ Flows(AdvectLevels(team, c) \o AdvectVertically(team, c), Len(team), P,
                  Raised(Aloof(P, c), c))
PROOF
<1> DEFINE A == Aloof(P, c)
           V == Advanced(c, Levels, Rows, Cols)
           T == Hold(c.dq, Levels, Rows, Cols, "transported", c)
           N == Hold(c.dq, Levels, Rows \ CapRows, Cols, "advected", c)
           z == Zone({c.dq}, Levels, Rows \ CapRows, Cols)
           V1 == A \cup (V \cup T)
           n == Len(team)
<1>1. Setting(A, c)
  BY SettingAloof
<1>2. \A p \in V \cup T : p[1][1] \in Mine(c)
  BY HoldMine DEF Advanced
<1>3. Flows(AdvectLevels(team, c), n, P, V1)
  <2>1. Planned(P, c.s)
    BY DEF Prepared
  <2>2. Flows(AdvectLevels(team, c), n, P, A \cup V \cup T)
    BY <2>1, LevelsMake
  <2>3. A \cup V \cup T = V1
    OBVIOUS
  <2>4. QED
    BY <2>2, <2>3
<1> DEFINE S == V \cup T
<1>4. Plain(V1) /\ Planned(V1, c.s) /\ A \subseteq Beyond(V1, z)
  <2>1. z.bufs \subseteq Mine(c)
    BY HoldMine DEF Zone
  <2>2. V1 = A \cup S /\ \A p \in S : p[1][1] \in Mine(c)
    BY <1>2
  <2> HIDE DEF A, S, V1, z
  <2>3. QED
    BY <1>1, <2>1, <2>2, SettingMore
<1>5. V \subseteq V1 /\ T \subseteq V1
  OBVIOUS
<1> HIDE DEF V1, S
<1>6. Passes(FzppmRegion(team, c), n, V1, Beyond(V1, z) \cup N)
  BY <1>4, <1>5, FzppmMakes
<1>7. Passes(FzppmRegion(team, c), n, V1, A \cup N)
  <2>1. A \cup N \subseteq Beyond(V1, z) \cup N
    BY <1>4
  <2> HIDE DEF A, N, z
  <2>2. QED
    BY <1>6, <2>1, PassesWeaker
<1>8. AdvectVertically(team, c) = <<FzppmRegion(team, c)>>
  BY DEF AdvectVertically, FzppmRegion
<1> HIDE DEF A, N, z, V, T, n
<1>9. IsSeq(AdvectVertically(team, c)) /\ Flows(AdvectVertically(team, c), n, V1, A \cup N)
  BY <1>7, <1>8, FlowsOne
<1>10. IsSeq(AdvectLevels(team, c))
  BY AdvectionTidies DEF Tidies
<1>11. IsSeq(AdvectLevels(team, c) \o AdvectVertically(team, c))
       /\ Flows(AdvectLevels(team, c) \o AdvectVertically(team, c), n, P, A \cup N)
  BY <1>3, <1>9, <1>10, FlowsThen
<1>12. QED
  BY <1>11 DEF Raised, A, N, n

\* The rows of a step that fills the interior.
LEMMA FilledFrom ==
  ASSUME NEW c, InContext(c), NEW A, Setting(A, c)
  PROVE  /\ Filled(A, c) \subseteq
              Beyond(Raised(A, c), Zone({c.dq}, Levels, Interior, Cols))
                \cup Hold(c.dq, Levels, Interior, Cols, "filled", c)
         /\ Plain(Raised(A, c)) /\ Hold(c.dq, Levels, Interior, Cols, "advected", c) \subseteq Raised(A, c)
PROOF
<1> DEFINE N == Hold(c.dq, Levels, Rows \ CapRows, Cols, "advected", c)
           NP == Hold(c.dq, Levels, PoleRows, Cols, "advected", c)
           NI == Hold(c.dq, Levels, Interior, Cols, "advected", c)
           z == Zone({c.dq}, Levels, Interior, Cols)
<1>1. Interior \cup PoleRows = Rows \ CapRows /\ Interior \cap PoleRows = {}
  BY GridIs
<1>2. N = NI \cup NP
  BY <1>1, HoldRows
<1>3. \A p \in N : p[1][1] \in Mine(c)
  BY HoldMine
<1>4. z.bufs \subseteq Mine(c)
  BY HoldMine DEF Zone
<1>5. \A p \in NP : ~Inside(p[1], z)
  BY <1>1, HoldLies DEF Lies, Inside, Zone
<1>6. Plain(A \cup N) /\ A \subseteq Beyond(A \cup N, z)
  <2> HIDE DEF N, z
  <2>1. QED
    BY <1>3, <1>4, SettingMore
<1> HIDE DEF N, NP, NI, z
<1>7. Raised(A, c) = A \cup N
  BY DEF Raised, N
<1>8. NP \subseteq Beyond(A \cup N, z)
  BY <1>2, <1>5 DEF Beyond
<1>9. Filled(A, c) \subseteq Beyond(A \cup N, z) \cup Hold(c.dq, Levels, Interior, Cols, "filled", c)
  BY <1>6, <1>8 DEF Filled, NP
<1>10. QED
  BY <1>2, <1>6, <1>7, <1>9 DEF z, NI

LEMMA FillMakes ==
  ASSUME NEW team, Team(team), NEW c, InContext(c), NEW A, Setting(A, c)
  PROVE  /\ IsSeq(<<QckxyzRegion(team, c)>>)
         /\ Flows(<<QckxyzRegion(team, c)>>, Len(team), Raised(A, c), Filled(A, c))
         /\ Gives(QckFinalizeColumns(c, TRUE, FALSE), Raised(A, c), Filled(A, c))
PROOF
<1> DEFINE V == Raised(A, c)
           W == Filled(A, c)
           Q == Beyond(Raised(A, c), Zone({c.dq}, Levels, Interior, Cols))
                  \cup Hold(c.dq, Levels, Interior, Cols, "filled", c)
<1>1. W \subseteq Q /\ Plain(V) /\ Hold(c.dq, Levels, Interior, Cols, "advected", c) \subseteq V
  BY FilledFrom
<1>2. Passes(QckxyzRegion(team, c), Len(team), V, Q)
  BY <1>1, QckxyzMakes
<1>3. Gives(QckFinalizeColumns(c, TRUE, FALSE), V, Q)
  BY <1>1, QckFinalizeMakes
<1> HIDE DEF V, W, Q
<1>4. Passes(QckxyzRegion(team, c), Len(team), V, W) /\ Gives(QckFinalizeColumns(c, TRUE, FALSE), V, W)
  BY <1>1, <1>2, <1>3, PassesWeaker, GivesWeaker
<1>5. QED
  BY <1>4, FlowsOne DEF V, W

LEMMA ColumnsOfBlockMake ==
  ASSUME NEW team, Team(team), NEW c, InContext(c), NEW A, Setting(A, c), NEW flux,
         NEW internal \in Nat \ {0}
  PROVE  /\ IsSeq(ApplyVdiffBlock(team, c, TRUE, TRUE, flux)) /\ IsSeq(ConvectBlock(team, c, internal))
         /\ Flows(ApplyVdiffBlock(team, c, TRUE, TRUE, flux), Len(team), Filled(A, c), Diffused(A, c))
         /\ Flows(ConvectBlock(team, c, internal), Len(team), Diffused(A, c), Convected(A, c))
PROOF
<1> DEFINE n == Len(team)
           NP == Hold(c.dq, Levels, PoleRows, Cols, "advected", c)
           NI == Hold(c.dq, Levels, Interior, Cols, "filled", c)
           M == Hold(c.dq, Levels, CapRows, Cols, "mixing_ratio", c)
           D == Hold(c.q, Levels, Rows, Cols, "diffused", c)
           C == Hold(c.q, Levels, Rows, Cols, "convected", c)
           zM == Zone({c.dq}, Levels, CapRows, Cols)
           zD == Zone({c.q}, Levels, Rows, Cols)
           S == NP \cup NI
           SM == S \cup M
           V2 == A \cup S
           V3 == A \cup SM
           V4 == A \cup D
           V5 == A \cup C
<1>1. /\ \A p \in S : p[1][1] \in Mine(c)
      /\ \A p \in SM : p[1][1] \in Mine(c)
      /\ \A p \in D : p[1][1] \in Mine(c)
      /\ zM.bufs \subseteq Mine(c) /\ zD.bufs \subseteq Mine(c)
  <2>1. zM.bufs \subseteq Mine(c) /\ zD.bufs \subseteq Mine(c)
    BY HoldMine DEF Zone
  <2>2. /\ \A p \in NP : p[1][1] \in Mine(c)
        /\ \A p \in NI : p[1][1] \in Mine(c)
        /\ \A p \in M : p[1][1] \in Mine(c)
        /\ \A p \in D : p[1][1] \in Mine(c)
    <3>1. \A p \in NP : p[1][1] \in Mine(c)
      BY HoldMine
    <3>2. \A p \in NI : p[1][1] \in Mine(c)
      BY HoldMine
    <3>3. \A p \in M : p[1][1] \in Mine(c)
      BY HoldMine
    <3>4. \A p \in D : p[1][1] \in Mine(c)
      BY HoldMine
    <3> HIDE DEF NP, NI, M, D
    <3>5. QED
      BY <3>1, <3>2, <3>3, <3>4
  <2> HIDE DEF NP, NI, M, D
  <2>3. QED
    BY <2>1, <2>2
<1>2. \A p \in S : ~Inside(p[1], zM)
  <2>1. Interior \cap CapRows = {} /\ PoleRows \cap CapRows = {}
    BY GridIs
  <2>2. QED
    BY <2>1, HoldLies DEF Lies, Inside, Zone
<1>3. Filled(A, c) = V2 /\ Diffused(A, c) = V4 /\ Convected(A, c) = V5
  BY DEF Filled, Diffused, Convected
<1> HIDE DEF NP, NI, M, D, C, zM, zD, S
<1>4. Passes(Once(team, FinalizePoles(c)), n, V2, V3)
  <2>1. Planned(V2, c.s) /\ A \subseteq Beyond(V2, zM)
    BY <1>1, SettingMore
  <2>2. NP \subseteq V2
    BY DEF S
  <2>3. S \subseteq Beyond(V2, zM)
    BY <1>2 DEF Beyond
  <2>4. V3 \subseteq Beyond(V2, zM) \cup M
    BY <2>1, <2>3
  <2> HIDE DEF V2, V3
  <2>5. Gives(FinalizePoles(c), V2, Beyond(V2, zM) \cup M)
    BY <2>1, <2>2, FinalizePolesMakes DEF NP, M, zM
  <2>6. Gives(FinalizePoles(c), V2, V3)
    BY <2>4, <2>5, GivesWeaker
  <2>7. QED
    BY <2>6, OncePasses
<1>5. Passes(VdiffRegion(team, c, TRUE, TRUE, flux), n, V3, V4)
  <2>1. Plain(V3) /\ Prepared(V3, c.s, c.b) /\ A \subseteq Beyond(V3, zD)
    <3> HIDE DEF SM
    <3>1. QED
      BY <1>1, SettingMore
  <2>2. Ready(V3, c)
    BY DEF Ready, S, NP, NI, M
  <2>3. V4 \subseteq Beyond(V3, zD) \cup D
    BY <2>1
  <2> HIDE DEF V3, V4
  <2>4. Passes(VdiffRegion(team, c, TRUE, TRUE, flux), n, V3, Beyond(V3, zD) \cup D)
    BY <2>1, <2>2, VdiffMakes DEF D, zD
  <2>5. QED
    BY <2>3, <2>4, PassesWeaker
<1>6. Passes(ConvectRegion(team, c, internal), n, V4, V5)
  <2>1. Plain(V4) /\ Prepared(V4, c.s, c.b) /\ A \subseteq Beyond(V4, zD)
    BY <1>1, SettingMore
  <2>2. D \subseteq V4
    OBVIOUS
  <2>3. V5 \subseteq Beyond(V4, zD) \cup C
    BY <2>1
  <2> HIDE DEF V4, V5
  <2>4. Passes(ConvectRegion(team, c, internal), n, V4, Beyond(V4, zD) \cup C)
    BY <2>1, <2>2, ConvectMakes DEF D, C, zD
  <2>5. QED
    BY <2>3, <2>4, PassesWeaker
<1> HIDE DEF V2, V3, V4, V5, n
<1>7. ApplyVdiffBlock(team, c, TRUE, TRUE, flux)
        = <<Once(team, FinalizePoles(c))>> \o <<VdiffRegion(team, c, TRUE, TRUE, flux)>>
  BY DEF ApplyVdiffBlock, VdiffRegion
<1>8. ConvectBlock(team, c, internal) = <<ConvectRegion(team, c, internal)>>
  BY DEF ConvectBlock, ConvectRegion
<1>9. IsSeq(ConvectBlock(team, c, internal)) /\ Flows(ConvectBlock(team, c, internal), n, V4, V5)
  BY <1>6, <1>8, FlowsOne
<1>10. IsSeq(<<Once(team, FinalizePoles(c))>>) /\ Flows(<<Once(team, FinalizePoles(c))>>, n, V2, V3)
  BY <1>4, FlowsOne
<1>11. /\ IsSeq(<<VdiffRegion(team, c, TRUE, TRUE, flux)>>)
       /\ Flows(<<VdiffRegion(team, c, TRUE, TRUE, flux)>>, n, V3, V4)
  BY <1>5, FlowsOne
<1>12. /\ IsSeq(<<Once(team, FinalizePoles(c))>> \o <<VdiffRegion(team, c, TRUE, TRUE, flux)>>)
       /\ Flows(<<Once(team, FinalizePoles(c))>> \o <<VdiffRegion(team, c, TRUE, TRUE, flux)>>, n, V2, V4)
  BY <1>10, <1>11, FlowsThen
<1>13. QED
  BY <1>3, <1>7, <1>9, <1>12 DEF n

-----------------------------------------------------------------------------
(* The blocks of a step.                                                   *)

\* What block b of step s starts from, and what it leaves.
Enters(j, s, b) == Entering(ExecutorContext(j, s, b), Levels, Rows, Cols)
Leaves(j, s, b) ==
  Hold(<<"state_a", b>>, Levels, Rows, Cols, "convected", ExecutorContext(j, s, b))
    \cup BlockCount(s, b)
\* The blocks D are to be done, the blocks R have been.
Halfway(P, j, s, D, R) ==
  Public(P) \cup (UNION {Enters(j, s, b) : b \in D}) \cup (UNION {Leaves(j, s, b) : b \in R})

LEMMA BlockFacts ==
  ASSUME NEW j, NEW s, NEW b
  PROVE  /\ \A p \in Enters(j, s, b) : p[1][1] = <<"state_a", b>>
         /\ \A p \in Leaves(j, s, b) : p[1][1] \in {<<"state_a", b>>, <<"negative_counts", b>>}
PROOF
<1> DEFINE c == ExecutorContext(j, s, b)
           H == Hold(<<"state_a", b>>, Levels, Rows, Cols, "convected", c)
           E == Hold(c.q, Levels, Rows, Cols, "convected", Before(c))
<1>1. c.q = <<"state_a", b>>
  BY DEF ExecutorContext
<1>2. Lies(H, <<"state_a", b>>, Levels, Rows, Cols) /\ Lies(E, c.q, Levels, Rows, Cols)
  <2> HIDE DEF c
  <2>1. QED
    BY HoldLies
<1>3. \A p \in BlockCount(s, b) : p[1][1] = <<"negative_counts", b>>
  BY DEF BlockCount, Piece
<1> HIDE DEF H, E
<1>4. Enters(j, s, b) = E
  BY DEF Enters, Entering, E
<1>5. Leaves(j, s, b) = H \cup BlockCount(s, b)
  BY DEF Leaves, H
<1> HIDE DEF c
<1>6. QED
  BY <1>1, <1>2, <1>3, <1>4, <1>5 DEF Lies

\* The arrays of one block of an executor are not those of another.
LEMMA BlockOwns ==
  ASSUME NEW j, NEW s, NEW b, NEW d, d # b
  PROVE  /\ <<"state_a", d>> \notin Mine(ExecutorContext(j, s, b))
         /\ <<"negative_counts", d>> \notin Mine(ExecutorContext(j, s, b))
PROOF
  BY DEF Mine, CapBuffers, ExecutorContext

LEMMA HalfwayIs ==
  ASSUME NEW P, NEW j, NEW s, NEW D, NEW R
  PROVE  \A p : p \in Halfway(P, j, s, D, R) <=>
           \/ p \in Public(P)
           \/ \E b \in D : p \in Enters(j, s, b)
           \/ \E b \in R : p \in Leaves(j, s, b)
PROOF
<1> DEFINE E(b) == Enters(j, s, b)
           L(b) == Leaves(j, s, b)
           A == UNION {E(b) : b \in D}
           B == UNION {L(b) : b \in R}
           O == Public(P)
<1>1. Halfway(P, j, s, D, R) = O \cup A \cup B
  BY DEF Halfway
<1> HIDE DEF E, L
<1>2. \A p : p \in A <=> \E b \in D : p \in E(b)
  OBVIOUS
<1>3. \A p : p \in B <=> \E b \in R : p \in L(b)
  OBVIOUS
<1> HIDE DEF A, B, O
<1>4. QED
  BY <1>1, <1>2, <1>3 DEF O, E, L

LEMMA HalfwayPlain ==
  ASSUME NEW P, NEW j, NEW s, NEW D, NEW R
  PROVE  Plain(Halfway(P, j, s, D, R))
PROOF
<1>1. ScratchNames \subseteq PrivateNames /\ "state_a" \notin ScratchNames
      /\ "negative_counts" \notin ScratchNames
  BY DEF ScratchNames, PrivateNames
<1>2. \A p \in Public(P) : p[1][1][1] \notin ScratchNames
  BY <1>1 DEF Public
<1>3. ASSUME NEW b, NEW p \in Enters(j, s, b) PROVE p[1][1][1] \notin ScratchNames
  BY <1>1, BlockFacts
<1>4. ASSUME NEW b, NEW p \in Leaves(j, s, b) PROVE p[1][1][1] \notin ScratchNames
  BY <1>1, BlockFacts
<1>5. QED
  BY <1>2, <1>3, <1>4, HalfwayIs DEF Plain

\* H has all that a block needs.
Ripe(H, c, s, b) ==
  /\ InContext(c) /\ c.courant /\ c.s = s /\ c.b = b
  /\ Plain(H) /\ Prepared(H, c.s, c.b) /\ Entering(c, Levels, Rows, Cols) \subseteq H

\* One more block is done.
LEMMA HalfwayOn ==
  ASSUME NEW P, NEW j, NEW s, NEW D, NEW R, NEW b, b \in D, b \notin R, Prepared(P, s, b),
         NEW c, c = ExecutorContext(j, s, b), NEW H, H = Halfway(P, j, s, D, R),
         NEW K, NEW D1, NEW R1, K = Halfway(P, j, s, D1, R1), D1 = D \ {b}, R1 = R \cup {b}
  PROVE  /\ Ripe(H, c, s, b)
         /\ K \subseteq Aloof(H, c) \cup Leaves(j, s, b)
PROOF
<1>1. InContext(c) /\ c.courant /\ c.s = s /\ c.b = b
  BY ExecutorContextIs DEF ExecutorContext
<1>2. Plain(H)
  BY HalfwayPlain
<1>3. Prepared(H, c.s, c.b)
  <2>1. Public(P) \subseteq H
    BY HalfwayIs
  <2>2. QED
    BY <1>1, <2>1, PreparedPublic, PreparedMore
<1>4. Entering(c, Levels, Rows, Cols) \subseteq H
  BY HalfwayIs DEF Enters
<1>5. Public(P) \subseteq Aloof(H, c)
  BY <1>1, ContextOwned, HalfwayIs DEF Owned, Public, Aloof
<1>6. ASSUME NEW d \in D1 PROVE Enters(j, s, d) \subseteq Aloof(H, c)
  <2>1. Enters(j, s, d) \subseteq H /\ d # b
    BY HalfwayIs
  <2>2. <<"state_a", d>> \notin Mine(c)
    BY <2>1, BlockOwns
  <2>3. QED
    BY <2>1, <2>2, BlockFacts DEF Aloof
<1>7. ASSUME NEW d \in R PROVE Leaves(j, s, d) \subseteq Aloof(H, c)
  <2>1. Leaves(j, s, d) \subseteq H /\ d # b
    BY HalfwayIs
  <2>2. <<"state_a", d>> \notin Mine(c) /\ <<"negative_counts", d>> \notin Mine(c)
    BY <2>1, BlockOwns
  <2>3. QED
    BY <2>1, <2>2, BlockFacts DEF Aloof
<1>8. K \subseteq Aloof(H, c) \cup Leaves(j, s, b)
  <2> DEFINE B == Aloof(H, c)
             L == Leaves(j, s, b)
  <2>1. ASSUME NEW p \in K PROVE p \in B \/ p \in L
    <3>1. \/ p \in Public(P)
          \/ \E d \in D1 : p \in Enters(j, s, d)
          \/ \E d \in R1 : p \in Leaves(j, s, d)
      BY HalfwayIs
    <3> HIDE DEF B
    <3>2. QED
      BY <1>5, <1>6, <1>7, <3>1 DEF B
  <2>2. QED
    BY <2>1
<1>9. QED
  BY <1>1, <1>2, <1>3, <1>4, <1>8 DEF Ripe

LEMMA CountBlock ==
  ASSUME NEW j, NEW s, NEW b, NEW c, c = ExecutorContext(j, s, b), NEW P
  PROVE  Gives(CountNegatives(c), Convected(Aloof(P, c), c), Aloof(P, c) \cup Leaves(j, s, b))
PROOF
<1> DEFINE A == Aloof(P, c)
           C == Hold(c.q, Levels, Rows, Cols, "convected", c)
           V == A \cup C
<1>1. c.q = <<"state_a", b>> /\ c.s = s /\ c.b = b
  BY DEF ExecutorContext
<1>2. \A p \in C : p[1][1] = <<"state_a", b>>
  BY <1>1, HoldMine
<1>3. \A p \in A : p[1][1] # <<"negative_counts", b>>
  BY <1>1 DEF Aloof, Mine
<1>4. Leaves(j, s, b) = C \cup BlockCount(s, b)
  BY <1>1 DEF Leaves
<1>5. C \subseteq V
  OBVIOUS
<1> HIDE DEF A, C
<1>6. A \cup Leaves(j, s, b) \subseteq {p \in V : p[1][1] # <<"negative_counts", b>>} \cup BlockCount(s, b)
  BY <1>2, <1>3, <1>4
<1>7. Convected(A, c) = V
  BY DEF Convected, C
<1> HIDE DEF V
<1>8. Gives(CountNegatives(c), V, {p \in V : p[1][1] # <<"negative_counts", b>>} \cup BlockCount(s, b))
  BY <1>1, <1>5, CountMakes DEF C
<1> DEFINE Q == {p \in V : p[1][1] # <<"negative_counts", b>>} \cup BlockCount(s, b)
<1> HIDE DEF Q
<1>9. Gives(CountNegatives(c), V, A \cup Leaves(j, s, b))
  BY <1>6, <1>8, GivesWeaker DEF Q
<1>10. QED
  BY <1>7, <1>9 DEF A

\* Every kernel on the whole team.
LEMMA SpatialMakes ==
  ASSUME NEW team, Team(team), NEW j, NEW s, NEW b, NEW c, c = ExecutorContext(j, s, b), NEW P,
         Ripe(P, c, s, b)
  PROVE  /\ IsSeq(OneBlockSpatial(team, j, s, b))
         /\ Flows(OneBlockSpatial(team, j, s, b), Len(team), P, Aloof(P, c) \cup Leaves(j, s, b))
PROOF
<1> DEFINE n == Len(team)
           A == Aloof(P, c)
           lv == AdvectLevels(team, c) \o AdvectVertically(team, c)
           q == <<QckxyzRegion(team, c)>>
           none == <<>>
           d == ApplyVdiffBlock(team, c, TRUE, TRUE, j.flux)
           e == ConvectBlock(team, c, InternalSteps)
           o == <<Once(team, CountNegatives(c))>>
           L == Leaves(j, s, b)
<1>0. /\ InContext(c) /\ c.courant /\ c.s = s /\ c.b = b
      /\ Plain(P) /\ Prepared(P, c.s, c.b) /\ Entering(c, Levels, Rows, Cols) \subseteq P
  BY DEF Ripe
<1>1. OneBlockSpatial(team, j, s, b) = (((((lv \o q) \o none) \o d) \o e) \o o)
  BY DEF OneBlockSpatial, AdvectTracersFused, QckxyzRegion
<1>2. Setting(A, c)
  BY <1>0, SettingAloof
<1> HIDE DEF A
<1>3. IsSeq(lv) /\ Flows(lv, n, P, Raised(A, c))
  BY <1>0, VerticalMakes DEF A
<1>4. IsSeq(q) /\ Flows(q, n, Raised(A, c), Filled(A, c))
  BY <1>0, <1>2, FillMakes
<1>5. InternalSteps \in Nat \ {0}
  BY StepsAssumption
<1>6. /\ IsSeq(d) /\ Flows(d, n, Filled(A, c), Diffused(A, c))
      /\ IsSeq(e) /\ Flows(e, n, Diffused(A, c), Convected(A, c))
  BY <1>0, <1>2, <1>5, ColumnsOfBlockMake
<1>7. Gives(CountNegatives(c), Convected(A, c), A \cup L)
  BY <1>0, CountBlock DEF A
<1>8. IsSeq(o) /\ Flows(o, n, Convected(A, c), A \cup L)
  <2>1. Passes(Once(team, CountNegatives(c)), n, Convected(A, c), A \cup L)
    BY <1>7, OncePasses
  <2>2. QED
    BY <2>1, FlowsOne
<1>9. IsSeq(none) /\ Flows(none, n, Filled(A, c), Filled(A, c))
  BY NoneIs, NothingFlows
<1> HIDE DEF lv, q, d, e, o, L, none, n
<1>10. IsSeq(lv \o q) /\ Flows(lv \o q, n, P, Filled(A, c))
  BY <1>3, <1>4, FlowsThen
<1> DEFINE x1 == lv \o q
           x2 == x1 \o none
           x3 == x2 \o d
           x4 == x3 \o e
           x5 == x4 \o o
<1> HIDE DEF x1
<1>11. IsSeq(x2) /\ Flows(x2, n, P, Filled(A, c))
  BY <1>9, <1>10, FlowsThen DEF x1
<1> HIDE DEF x2
<1>12. IsSeq(x3) /\ Flows(x3, n, P, Diffused(A, c))
  BY <1>6, <1>11, FlowsThen
<1> HIDE DEF x3
<1>13. IsSeq(x4) /\ Flows(x4, n, P, Convected(A, c))
  BY <1>6, <1>12, FlowsThen
<1> HIDE DEF x4
<1>14. IsSeq(x5) /\ Flows(x5, n, P, A \cup L)
  BY <1>8, <1>13, FlowsThen
<1>15. QED
  BY <1>1, <1>14 DEF x1, x2, x3, x4, n, A, L

LEMMA TidiesFirst ==
  ASSUME NEW w, NEW c, NEW p, Tidies(p, <<w>>, c)
  PROVE  IsSeq(p) /\ \A x \in 1 .. Len(p) : IsSeq(p[x][1])
PROOF
<1> DEFINE team == <<w>>
<1>1. DOMAIN team = {1}
  OBVIOUS
<1>2. DOMAIN p = 1 .. Len(p) /\ IsSeq(p)
  BY IsSeqIs DEF Tidies
<1> HIDE DEF team
<1>3. QED
  BY <1>1, <1>2 DEF Tidies, Tidy, team

LEMMA LeadsThen ==
  ASSUME NEW l, NEW m, IsSeq(l), IsSeq(m), NEW P, NEW Q, NEW R, Leads(l, P, Q), Leads(m, Q, R)
  PROVE  IsSeq(l \o m) /\ Leads(l \o m, P, R)
PROOF
<1> DEFINE r == l \o m
<1>1. IsJoin(r, l, m)
  BY DEF IsJoin
<1> HIDE DEF r
<1>2. IsSeq(r) /\ Leads(r, P, R)
  BY <1>1, LeadsJoined, JoinedElements
<1>3. QED
  BY <1>2 DEF r

LEMMA ListOf ==
  ASSUME NEW op, NEW P, NEW Q, Gives(op, P, Q)
  PROVE  IsSeq(<<op>>) /\ Leads(<<op>>, P, Q)
PROOF
  BY LeadsOne, GivesSeq

\* The whole block on one worker.
LEMMA SerialMakes ==
  ASSUME NEW w, NEW j, NEW s, NEW b, NEW c, c = ExecutorContext(j, s, b), NEW P,
         Ripe(P, c, s, b)
  PROVE  /\ IsSeq(OneBlockSerial(w, j, s, b))
         /\ Leads(OneBlockSerial(w, j, s, b), P, Aloof(P, c) \cup Leaves(j, s, b))
PROOF
<1> DEFINE team == <<w>>
           A == Aloof(P, c)
           l == AdvectLevels(team, c)
           v == AdvectVertically(team, c)
           q == QckFinalizeColumns(c, TRUE, FALSE)
           d == ApplyVdiffBlock(team, c, TRUE, TRUE, j.flux)
           e == ConvectBlock(team, c, InternalSteps)
           o == CountNegatives(c)
           lv == l \o v
           de == d \o e
           L == Leaves(j, s, b)
<1>0. /\ InContext(c) /\ c.courant /\ c.s = s /\ c.b = b
      /\ Plain(P) /\ Prepared(P, c.s, c.b) /\ Entering(c, Levels, Rows, Cols) \subseteq P
  BY DEF Ripe
<1>1. OneBlockSerial(w, j, s, b) = ((Alone(lv) \o <<q>>) \o Alone(de)) \o <<o>>
  BY DEF OneBlockSerial, AdvectOneBlockSerial
<1>2. Team(team) /\ Len(team) = 1
  BY SingleTeam
<1> DEFINE T(p) == Tidies(p, team, c)
<1>3. T(lv) /\ T(de)
  <2>1. T(l) /\ T(v) /\ T(d) /\ T(e)
    <3> HIDE DEF team
    <3>1. QED
      BY <1>0, <1>2, AdvectionTidies, ColumnsTidies
  <2> HIDE DEF l, v, d, e, team
  <2>2. QED
    BY <2>1, TidiesJoined
<1>4. \A x \in 1 .. Len(lv) : IsSeq(lv[x][1])
  <2> HIDE DEF lv
  <2>1. QED
    BY <1>3, TidiesFirst
<1>5. \A x \in 1 .. Len(de) : IsSeq(de[x][1])
  <2> HIDE DEF de
  <2>1. QED
    BY <1>3, TidiesFirst
<1>6. Setting(A, c)
  BY <1>0, SettingAloof
<1>7. InternalSteps \in Nat \ {0}
  BY StepsAssumption
<1>8. IsSeq(lv) /\ Flows(lv, 1, P, Raised(A, c))
  <2> HIDE DEF team
  <2>1. IsSeq(lv) /\ Flows(lv, Len(team), P, Raised(A, c))
    BY <1>0, <1>2, VerticalMakes
  <2>2. QED
    BY <1>2, <2>1
<1> HIDE DEF A, lv
<1>9. IsSeq(d) /\ IsSeq(e) /\ Flows(d, 1, Filled(A, c), Diffused(A, c)) /\ Flows(e, 1, Diffused(A, c), Convected(A, c))
  <2> HIDE DEF team
  <2>1. IsSeq(d) /\ IsSeq(e) /\ Flows(d, Len(team), Filled(A, c), Diffused(A, c))
        /\ Flows(e, Len(team), Diffused(A, c), Convected(A, c))
    BY <1>0, <1>2, <1>6, <1>7, ColumnsOfBlockMake
  <2>2. QED
    BY <1>2, <2>1
<1>10. IsSeq(de) /\ Flows(de, 1, Filled(A, c), Convected(A, c))
  <2> HIDE DEF d, e
  <2>1. QED
    BY <1>9, FlowsThen
<1> HIDE DEF de
<1>11. IsSeq(Alone(lv)) /\ Leads(Alone(lv), P, Raised(A, c))
  BY <1>4, <1>8, AloneLeads
<1>12. IsSeq(Alone(de)) /\ Leads(Alone(de), Filled(A, c), Convected(A, c))
  BY <1>5, <1>10, AloneLeads
<1>13. Gives(q, Raised(A, c), Filled(A, c))
  <2> HIDE DEF team
  <2>1. QED
    BY <1>0, <1>2, <1>6, FillMakes
<1>14. Gives(o, Convected(A, c), A \cup L)
  BY <1>0, CountBlock DEF A
<1> HIDE DEF q, o, L
<1> DEFINE alv == Alone(lv)
           ade == Alone(de)
           qs == <<q>>
           os == <<o>>
<1>15. IsSeq(qs) /\ Leads(qs, Raised(A, c), Filled(A, c)) /\ IsSeq(os) /\ Leads(os, Convected(A, c), A \cup L)
  BY <1>13, <1>14, ListOf
<1> HIDE DEF alv, ade, qs, os
<1> DEFINE x1 == alv \o qs
           x2 == x1 \o ade
           x3 == x2 \o os
<1>16. IsSeq(x1) /\ Leads(x1, P, Filled(A, c))
  BY <1>11, <1>15, LeadsThen DEF alv
<1> HIDE DEF x1
<1>17. IsSeq(x2) /\ Leads(x2, P, Convected(A, c))
  BY <1>12, <1>16, LeadsThen DEF ade
<1> HIDE DEF x2
<1>18. IsSeq(x3) /\ Leads(x3, P, A \cup L)
  BY <1>15, <1>17, LeadsThen
<1>19. QED
  BY <1>1, <1>18 DEF x1, x2, alv, ade, qs, os, A, L

\* What a list leaves unwritten was there before.
LEMMA LeadsUnwritten ==
  ASSUME NEW l, IsSeq(l), NEW P, NEW Q, Leads(l, P, Q), NEW q \in Q, q[1] \notin Wrote(l)
  PROVE  q \in P
PROOF
<1>1. PICK f : Hands(f, l, P, Q)
  BY DEF Leads
<1> DEFINE n == Len(l)
           N == {i \in 0 .. n : q \in f[n - i]}
<1>2. n \in Nat /\ DOMAIN l = 1 .. n
  BY IsSeqIs
<1>3. 0 \in N
  BY <1>1, <1>2 DEF Hands
<1>4. ASSUME NEW i \in 0 .. n, i \in N, i < n PROVE i + 1 \in N
  <2> DEFINE a == n - i
  <2>1. a \in 1 .. n /\ i + 1 \in 0 .. n /\ n - (i + 1) = a - 1
    BY <1>2, <1>4
  <2>2. q \in f[a]
    BY <1>4
  <2> HIDE DEF a
  <2>3. Gives(l[a], f[a - 1], f[a])
    BY <1>1, <2>1 DEF Hands
  <2>4. q \in f[a - 1] \/ q \in l[a].sets
    BY <2>2, <2>3 DEF Gives
  <2>5. q \notin l[a].sets
    <3>1. CellsOf(l[a].sets) \subseteq Wrote(l)
      BY <1>2, <2>1 DEF Wrote
    <3>2. QED
      BY <3>1 DEF CellsOf
  <2>6. QED
    BY <2>1, <2>4, <2>5
<1>5. n \in N
  <2> HIDE DEF n, N
  <2>1. QED
    BY <1>2, <1>3, <1>4, UpToLast
<1>6. q \in f[0]
  BY <1>2, <1>5
<1>7. QED
  BY <1>1, <1>6 DEF Hands

\* Each member leaves all of what its list writes of Q.
LEMMA PassesBy ==
  ASSUME NEW r, NEW n, NEW P, NEW Q, NEW R,
         \A t \in 1 .. n : IsSeq(r[t]) /\ Leads(r[t], P, R[t]),
         \A q \in Q : \E t \in 1 .. n : q \in R[t],
         \A t \in 1 .. n : \A q \in Q : q[1] \in Wrote(r[t]) => q \in R[t]
  PROVE  Passes(r, n, P, Q)
PROOF
<1>1. ASSUME NEW t \in 1 .. n PROVE Leads(r[t], P, {q \in Q : q[1] \in Wrote(r[t])})
  <2> DEFINE S == {q \in Q : q[1] \in Wrote(r[t])}
             l == r[t]
             T == R[t]
  <2>1. S \subseteq T /\ Leads(l, P, T)
    OBVIOUS
  <2> HIDE DEF S, l, T
  <2>2. Leads(l, P, S)
    BY <2>1, LeadsWeaker
  <2>3. QED
    BY <2>2 DEF S, l
<1>2. ASSUME NEW q \in Q, \A t \in 1 .. n : q[1] \notin Wrote(r[t]) PROVE q \in P
  <2>1. PICK t \in 1 .. n : q \in R[t]
    OBVIOUS
  <2>2. QED
    BY <1>2, <2>1, LeadsUnwritten
<1>3. \A t \in 1 .. n : IsSeq(r[t])
  OBVIOUS
<1>4. QED
  BY <1>1, <1>2, <1>3 DEF Passes

\* Every member of l is a member of one of the n lists of ss.
DrawnFrom(l, ss, n) == \A a \in DOMAIN l : \E x \in 1 .. n : \E i \in DOMAIN ss[x] : l[a] = ss[x][i]

LEMMA FlatFamily ==
  ASSUME NEW ss, IsSeq(ss), NEW n, DOMAIN ss = 1 .. n, \A m \in 1 .. n : IsSeq(ss[m]),
         NEW l, l = FlattenSeq(ss)
  PROVE  IsSeq(l) /\ DrawnFrom(l, ss, n)
PROOF
<1>1. \A m \in DOMAIN ss : IsSeq(ss[m])
  OBVIOUS
<1>2. IsSeq(l)
  BY <1>1, Flattened
<1>3. \A a \in DOMAIN l : \E x \in DOMAIN ss : \E i \in DOMAIN ss[x] : l[a] = ss[x][i]
  BY <1>1, Flattened
<1>4. QED
  BY <1>2, <1>3 DEF DrawnFrom

\* Nothing a worker writes beyond its scratch is outside the blocks O.
WritesOf(l, j, s, O) ==
  \A cell \in Wrote(l) :
    \/ cell[1][1] \in ScratchNames
    \/ \E b \in O : cell[1] \in Mine(ExecutorContext(j, s, b))

\* The blocks sh, done one after the other by worker w, which are those, and that no two are one.
Serially(w, j, s, sh) == [x \in 1 .. Len(sh) |-> OneBlockSerial(w, j, s, sh[x])]
Listed(sh) == {sh[y] : y \in 1 .. Len(sh)}
Unrepeated(sh) == \A a, b \in 1 .. Len(sh) : sh[a] = sh[b] => a = b
AllPrepared(P, s, S) == \A b \in S : Prepared(P, s, b)

\* The blocks of a list, done one after the other by worker w.
LEMMA ShareLeads ==
  ASSUME NEW w, NEW j, NEW s, NEW P, NEW S, NEW sh, sh \in Seq(S), Unrepeated(sh),
         AllPrepared(P, s, S), NEW O, O = Listed(sh),
         NEW ss, ss = Serially(w, j, s, sh), NEW f, f = FlattenSeq(ss),
         NEW F, F = Halfway(P, j, s, S, {}), NEW T, T = Halfway(P, j, s, S \ O, O)
  PROVE  IsSeq(f) /\ Leads(f, F, T) /\ WritesOf(f, j, s, O)
PROOF
<1> DEFINE n == Len(sh)
           ran(x) == {sh[y] : y \in 1 .. x}
           G == [x \in 0 .. n |-> Halfway(P, j, s, S \ ran(x), ran(x))]
           l == FlattenSeq(ss)
           C(b) == ExecutorContext(j, s, b)
<1>1. n \in Nat /\ \A x \in 1 .. n : sh[x] \in S
  BY ElementOfSeq, LenProperties
<1>2. /\ IsSeq(ss) /\ Len(ss) = n /\ DOMAIN ss = 1 .. n
      /\ \A x \in 1 .. n : ss[x] = OneBlockSerial(w, j, s, sh[x])
  <2>1. ss = [x \in 1 .. n |-> OneBlockSerial(w, j, s, sh[x])]
    BY DEF Serially
  <2>2. QED
    BY <1>1, <2>1, SeqIs
<1>3. ASSUME NEW x \in 1 .. n PROVE IsSeq(ss[x]) /\ Leads(ss[x], G[x - 1], G[x])
  <2> DEFINE b == sh[x]
             D == S \ ran(x - 1)
             R == ran(x - 1)
             H == Halfway(P, j, s, D, R)
             c == ExecutorContext(j, s, b)
             D1 == D \ {b}
             R1 == R \cup {b}
             K == Halfway(P, j, s, D1, R1)
             A == Aloof(H, c) \cup Leaves(j, s, b)
  <2>1. x - 1 \in 0 .. n /\ x \in 0 .. n /\ 1 .. x = 1 .. (x - 1) \cup {x}
        /\ \A y \in 1 .. (x - 1) : y \in 1 .. n /\ y # x
    BY <1>1
  <2>2. b \in D /\ b \notin R
    <3>1. \A y \in 1 .. (x - 1) : sh[y] # sh[x]
      BY <2>1 DEF Unrepeated
    <3>2. QED
      BY <1>1, <3>1
  <2>3. ran(x) = R \cup {b} /\ S \ ran(x) = D \ {b}
    BY <2>1
  <2>4. G[x - 1] = H /\ G[x] = K
    BY <2>1, <2>3
  <2>5. Prepared(P, s, b)
    BY <1>1 DEF AllPrepared
  <2>a. c = ExecutorContext(j, s, b) /\ H = Halfway(P, j, s, D, R)
        /\ K = Halfway(P, j, s, D1, R1) /\ D1 = D \ {b} /\ R1 = R \cup {b}
        /\ A = Aloof(H, c) \cup Leaves(j, s, b)
    OBVIOUS
  <2> HIDE DEF b, D, R, H, c, G, D1, R1, K, A
  <2>6. Ripe(H, c, s, b) /\ K \subseteq A
    BY <2>2, <2>5, <2>a, HalfwayOn
  <2> DEFINE o == OneBlockSerial(w, j, s, b)
  <2>7. IsSeq(o) /\ Leads(o, H, A)
    BY <2>6, <2>a, SerialMakes
  <2>8. ss[x] = o
    BY <1>2 DEF b
  <2> HIDE DEF o
  <2>9. Leads(o, H, K)
    BY <2>6, <2>7, LeadsWeaker
  <2>10. QED
    BY <2>4, <2>7, <2>8, <2>9
<1>4. Leads(l, G[0], G[n])
  <2> HIDE DEF G, n
  <2>1. QED
    BY <1>2, <1>3, LeadsFlattened
<1>5. G[0] = Halfway(P, j, s, S, {}) /\ G[n] = Halfway(P, j, s, S \ O, O)
  <2>1. 0 \in 0 .. n /\ n \in 0 .. n /\ ran(0) = {} /\ S \ {} = S /\ ran(n) = O
    BY <1>1 DEF Listed
  <2>2. QED
    BY <2>1
<1>6. IsSeq(l) /\ DrawnFrom(l, ss, n)
  <2>1. IsSeq(ss) /\ DOMAIN ss = 1 .. n /\ \A x \in 1 .. n : IsSeq(ss[x])
    BY <1>2, <1>3
  <2>2. l = FlattenSeq(ss)
    OBVIOUS
  <2> HIDE DEF n, l
  <2>3. QED
    BY <2>1, <2>2, FlatFamily
<1>7. \A x \in 1 .. n : BlockOps(ss[x], w, C(sh[x]))
  BY <1>2, OneBlockSerialOps
<1> HIDE DEF l, C, G
<1>8. ASSUME NEW cell \in Wrote(l)
      PROVE  cell[1][1] \in ScratchNames \/ \E b \in O : cell[1] \in Mine(C(b))
  <2>1. PICK a \in DOMAIN l : cell \in CellsOf(l[a].sets)
    BY DEF Wrote
  <2>2. PICK x \in 1 .. n : \E i \in DOMAIN ss[x] : l[a] = ss[x][i]
    BY <1>6 DEF DrawnFrom
  <2>3. OfBlock(l[a], w, C(sh[x])) /\ sh[x] \in O
    BY <1>7, <2>2 DEF BlockOps, Listed
  <2>4. PICK p \in l[a].sets : cell = p[1]
    BY <2>1 DEF CellsOf
  <2>5. Inside(p[1], Whole(Mine(C(sh[x])))) \/ Scratched(p[1], w)
    BY <2>3, <2>4 DEF OfBlock, Confined, Within
  <2>6. QED
    BY <2>3, <2>4, <2>5 DEF Inside, Whole, Scratched
<1>9. f = l
  BY DEF l
<1>10. WritesOf(f, j, s, O)
  BY <1>8, <1>9 DEF WritesOf, C
<1>11. F = G[0] /\ T = G[n]
  BY <1>5
<1>12. QED
  BY <1>4, <1>6, <1>9, <1>10, <1>11

LEMMA LoopOverBlocksMakes ==
  ASSUME NEW own, Team(own), NEW j, NEW s, NEW P, j.blocks \in Nat,
         AllPrepared(P, s, 1 .. j.blocks)
  PROVE  /\ LoopOverBlocks(own, j, s) = [t \in 1 .. Len(own) |-> LoopOverBlocks(own, j, s)[t]]
         /\ \A t \in 1 .. Len(own) : IsSeq(LoopOverBlocks(own, j, s)[t])
         /\ Passes(LoopOverBlocks(own, j, s), Len(own), Halfway(P, j, s, 1 .. j.blocks, {}),
                   Halfway(P, j, s, {}, 1 .. j.blocks))
         /\ Len(own) = 1 => Leads(LoopOverBlocks(own, j, s)[1], Halfway(P, j, s, 1 .. j.blocks, {}),
                                  Halfway(P, j, s, {}, 1 .. j.blocks))
PROOF
<1> DEFINE n == Len(own)
           S == 1 .. j.blocks
           shares == Shares(S, n)
           r == LoopOverBlocks(own, j, s)
           ss(t) == Serially(own[t], j, s, shares[t])
           O(t) == Listed(shares[t])
           R == [t \in 1 .. n |-> Halfway(P, j, s, S \ O(t), O(t))]
           start == Halfway(P, j, s, S, {})
           end == Halfway(P, j, s, {}, S)
<1>1. n \in Nat \ {0}
  BY IsSeqIs DEF Team
<1>2. S \in SUBSET Nat /\ IsFiniteSet(S)
  <2>1. 1 \in Int /\ j.blocks \in Int
    OBVIOUS
  <2>2. QED
    BY <2>1, FS_Interval
<1>3. r = [t \in 1 .. n |-> FlattenSeq(ss(t))]
  BY DEF LoopOverBlocks, Serially
<1> HIDE DEF r, S, n
<1>4. \A t \in 1 .. n : shares[t] \in Seq(S)
  BY <1>1, <1>2, SharesApart
<1>5. \A t \in 1 .. n : Unrepeated(shares[t])
  <2> TAKE t \in 1 .. n
  <2>1. \A a, b \in 1 .. Len(shares[t]) : shares[t][a] = shares[t][b] => a = b
    BY <1>1, <1>2, ShareOnce
  <2>2. QED
    BY <2>1 DEF Unrepeated
<1>6. \A b \in S : \E t \in 1 .. n : b \in O(t)
  <2> TAKE b \in S
  <2>1. \E t \in 1 .. n : \E a \in 1 .. Len(Shares(S, n)[t]) : Shares(S, n)[t][a] = b
    BY <1>1, <1>2, SharesCover
  <2>2. QED
    BY <2>1 DEF Listed
<1>7. ASSUME NEW t \in 1 .. n
      PROVE  /\ IsSeq(r[t]) /\ Leads(r[t], start, R[t]) /\ R[t] = Halfway(P, j, s, S \ O(t), O(t))
             /\ WritesOf(r[t], j, s, O(t))
  <2> DEFINE sh == shares[t]
             w == own[t]
             l == ss(t)
             Q == O(t)
  <2>1. sh \in Seq(S) /\ Unrepeated(sh)
    BY <1>4, <1>5
  <2>2. l = Serially(w, j, s, sh) /\ Q = Listed(sh)
    OBVIOUS
  <2> DEFINE f == FlattenSeq(l)
             T == Halfway(P, j, s, S \ Q, Q)
  <2>3. r[t] = f /\ R[t] = T
    BY <1>3
  <2>4. AllPrepared(P, s, S)
    BY DEF S
  <2>5. f = FlattenSeq(l) /\ T = Halfway(P, j, s, S \ Q, Q) /\ start = Halfway(P, j, s, S, {})
    OBVIOUS
  <2>6. Q = O(t)
    OBVIOUS
  <2> HIDE DEF sh, w, l, Q, R, f, T, start, O
  <2>7. IsSeq(f) /\ Leads(f, start, T) /\ WritesOf(f, j, s, Q)
    BY <2>1, <2>2, <2>4, <2>5, ShareLeads
  <2>8. QED
    BY <2>3, <2>5, <2>6, <2>7
<1> HIDE DEF shares, O, ss, R, start, end
<1>8. \A q \in end : q \in Public(P) \/ \E b \in S : q \in Leaves(j, s, b)
  BY HalfwayIs DEF end
<1>9. ASSUME NEW t \in 1 .. n, NEW q
      PROVE  q \in R[t] <=> \/ q \in Public(P)
                            \/ \E b \in S \ O(t) : q \in Enters(j, s, b)
                            \/ \E b \in O(t) : q \in Leaves(j, s, b)
  <2>1. R[t] = Halfway(P, j, s, S \ O(t), O(t))
    BY <1>7
  <2>2. QED
    BY <2>1, HalfwayIs
<1>10. \A q \in end : \E t \in 1 .. n : q \in R[t]
  <2> TAKE q \in end
  <2>1. CASE q \in Public(P)
    <3>1. 1 \in 1 .. n
      BY <1>1
    <3>2. QED
      BY <1>9, <2>1, <3>1
  <2>2. CASE \E b \in S : q \in Leaves(j, s, b)
    BY <1>6, <1>9, <2>2
  <2>3. QED
    BY <1>8, <2>1, <2>2
<1>11. ASSUME NEW t \in 1 .. n, NEW q \in end, q[1] \in Wrote(r[t]) PROVE q \in R[t]
  <2>1. CASE q \in Public(P)
    BY <1>9, <2>1
  <2>2. CASE \E b \in S : q \in Leaves(j, s, b)
    <3>1. PICK b \in S : q \in Leaves(j, s, b)
      BY <2>2
    <3>2. q[1][1] \in {<<"state_a", b>>, <<"negative_counts", b>>}
      BY <3>1, BlockFacts
    <3>3. q[1][1][1] \notin ScratchNames
      BY <3>2 DEF ScratchNames
    <3>4. PICK d \in O(t) : q[1][1] \in Mine(ExecutorContext(j, s, d))
      BY <1>7, <1>11, <3>3 DEF WritesOf
    <3>5. d = b
      BY <3>2, <3>4, BlockOwns
    <3>6. QED
      BY <1>9, <3>1, <3>4, <3>5
  <2>3. QED
    BY <1>8, <2>1, <2>2
<1>12. Passes(r, n, start, end)
  BY <1>7, <1>10, <1>11, PassesBy
<1>13. n = 1 => Leads(r[1], start, end)
  <2> SUFFICES ASSUME n = 1 PROVE Leads(r[1], start, end)
    OBVIOUS
  <2>1. 1 \in 1 .. n /\ \A t \in 1 .. n : t = 1
    BY <1>1
  <2>2. end \subseteq R[1]
    BY <1>10, <2>1
  <2>3. Leads(r[1], start, R[1])
    BY <1>7, <2>1
  <2> DEFINE T == R[1]
             l == r[1]
  <2> HIDE DEF T, l
  <2>4. Leads(l, start, end)
    BY <2>2, <2>3, LeadsWeaker DEF T, l
  <2>5. QED
    BY <2>4 DEF l
<1>14. r = [t \in 1 .. n |-> r[t]]
  BY <1>3
<1>15. QED
  BY <1>7, <1>12, <1>13, <1>14 DEF r, n, start, end, S

LEMMA SpatialBlocksMake ==
  ASSUME NEW team, Team(team), NEW j, NEW s, NEW P, j.blocks \in Nat,
         AllPrepared(P, s, 1 .. j.blocks),
         NEW ss, ss = [b \in 1 .. j.blocks |-> OneBlockSpatial(team, j, s, b)]
  PROVE  /\ IsSeq(FlattenSeq(ss))
         /\ Flows(FlattenSeq(ss), Len(team), Halfway(P, j, s, 1 .. j.blocks, {}),
                  Halfway(P, j, s, {}, 1 .. j.blocks))
PROOF
<1> DEFINE B == j.blocks
           n == Len(team)
           G == [m \in 0 .. B |-> Halfway(P, j, s, m + 1 .. B, 1 .. m)]
<1>1. /\ IsSeq(ss) /\ Len(ss) = B /\ DOMAIN ss = 1 .. B
      /\ \A m \in 1 .. B : ss[m] = OneBlockSpatial(team, j, s, m)
  BY SeqIs
<1>2. ASSUME NEW m \in 1 .. B PROVE IsSeq(ss[m]) /\ Flows(ss[m], n, G[m - 1], G[m])
  <2> DEFINE D == m .. B
             R == 1 .. (m - 1)
             H == Halfway(P, j, s, D, R)
             c == ExecutorContext(j, s, m)
             D1 == D \ {m}
             R1 == R \cup {m}
             H1 == Halfway(P, j, s, D1, R1)
             o == OneBlockSpatial(team, j, s, m)
             A == Aloof(H, c) \cup Leaves(j, s, m)
  <2>1. m - 1 \in 0 .. B /\ m \in 0 .. B /\ (m - 1) + 1 = m /\ m \in D /\ m \notin R
        /\ D \ {m} = m + 1 .. B /\ R \cup {m} = 1 .. m
    OBVIOUS
  <2>2. G[m - 1] = H
    BY <2>1
  <2>3. G[m] = H1
    BY <2>1
  <2>4. Prepared(P, s, m)
    BY DEF AllPrepared
  <2>a. c = ExecutorContext(j, s, m) /\ H = Halfway(P, j, s, D, R)
        /\ H1 = Halfway(P, j, s, D1, R1) /\ D1 = D \ {m} /\ R1 = R \cup {m}
        /\ A = Aloof(H, c) \cup Leaves(j, s, m) /\ m \in D /\ m \notin R
    OBVIOUS
  <2> HIDE DEF D, R, c, G, H, H1, D1, R1, A
  <2>5. Ripe(H, c, s, m) /\ H1 \subseteq A
    BY <2>4, <2>a, HalfwayOn
  <2>6. IsSeq(o) /\ Flows(o, n, H, A)
    BY <2>5, <2>a, SpatialMakes
  <2> HIDE DEF o, n
  <2>7. Flows(o, n, H, H1)
    BY <2>5, <2>6, FlowsWeaker
  <2>8. QED
    BY <1>1, <2>2, <2>3, <2>6, <2>7 DEF o
<1>3. Flows(FlattenSeq(ss), n, G[0], G[B])
  <2> HIDE DEF G, B, n
  <2>1. QED
    BY <1>1, <1>2, FlowsFlattened
<1>4. G[0] = Halfway(P, j, s, 1 .. B, {}) /\ G[B] = Halfway(P, j, s, {}, 1 .. B)
  <2>1. 0 \in 0 .. B /\ B \in 0 .. B /\ 0 + 1 = 1 /\ 1 .. 0 = {} /\ B + 1 .. B = {}
    OBVIOUS
  <2>2. QED
    BY <2>1
<1>5. IsSeq(FlattenSeq(ss))
  BY <1>1, <1>2, Flattened
<1>6. QED
  BY <1>3, <1>4, <1>5

\* The loop over blocks, by its team or by the first member alone.
LEMMA LoopRegionsFlow ==
  ASSUME NEW team, Team(team), NEW n, n \in Nat \ {0}, n = Len(team) \/ n = 1,
         NEW r, r = [t \in 1 .. n |-> r[t]], \A t \in 1 .. n : IsSeq(r[t]), NEW P, NEW Q,
         Passes(r, n, P, Q), n = 1 => Leads(r[1], P, Q)
  PROVE  IsSeq(LoopRegions(team, r)) /\ Flows(LoopRegions(team, r), Len(team), P, Q)
PROOF
<1>1. Len(r) = n /\ 1 \in 1 .. n
  BY SeqIs
<1>2. CASE n = Len(team)
  <2>1. LoopRegions(team, r) = <<r>>
    BY <1>1, <1>2 DEF LoopRegions
  <2>2. QED
    BY <1>2, <2>1, FlowsOne
<1>3. CASE n # Len(team)
  <2> DEFINE l == r[1]
             p == [x \in 1 .. Len(l) |-> Once(team, l[x])]
  <2>1. IsSeq(l) /\ Leads(l, P, Q)
    BY <1>1, <1>3
  <2>2. DOMAIN l = 1 .. Len(l)
    BY <2>1, IsSeqIs
  <2>3. LoopRegions(team, r) = p
    BY <1>1, <1>3, <2>2 DEF LoopRegions
  <2>4. p = [x \in 1 .. Len(l) |-> Once(team, l[x])]
    OBVIOUS
  <2> HIDE DEF l, p
  <2>5. IsSeq(p) /\ Flows(p, Len(team), P, Q)
    BY <2>1, <2>4, SerialFlows
  <2>6. QED
    BY <2>3, <2>5
<1>4. QED
  BY <1>2, <1>3

\* The facts S when the blocks have counted together.
Counted(S, s) == {p \in S : p[1][1][1] # "negative_count"} \cup StepCount(s)

LEMMA StepCountMakes ==
  ASSUME NEW P, NEW j, NEW s, NEW S, NEW E, E = Halfway(P, j, s, {}, S)
  PROVE  Gives(Op(UNION {BlockCount(s, b) : b \in S}, StepCount(s)), E, Counted(E, s))
PROOF
<1> DEFINE C == UNION {BlockCount(s, b) : b \in S}
           T == StepCount(s)
           R == {p \in E : p[1][1][1] # "negative_count"}
<1>1. C \subseteq E
  <2>1. ASSUME NEW b \in S, NEW p \in BlockCount(s, b) PROVE p \in E
    <3>1. p \in Leaves(j, s, b)
      BY <2>1 DEF Leaves
    <3>2. QED
      BY <2>1, <3>1, HalfwayIs
  <2>2. QED
    BY <2>1
<1>2. \A cell \in CellsOf(T) : cell[1][1] = "negative_count"
  BY DEF StepCount, Piece, CellsOf
<1>3. R \subseteq E /\ \A p \in R : p[1] \notin CellsOf(T)
  BY <1>2
<1>4. Counted(E, s) = R \cup T
  BY DEF Counted
<1> HIDE DEF C, T, R
<1>5. Gives(Op(C, T), E, R \cup T)
  BY <1>1, <1>3, GivesWith
<1>6. QED
  BY <1>4, <1>5 DEF C, T

ResidentPolicies == {"blocks", "serial", "spatial"}

LEMMA ApplyTransportMakes ==
  ASSUME NEW team, Team(team), NEW j, j.blocks \in Nat, j.execution \in ResidentPolicies,
         NEW s, NEW P, NEW B, B = 1 .. j.blocks, AllPrepared(P, s, B),
         NEW H, H = Halfway(P, j, s, B, {}), NEW E, E = Halfway(P, j, s, {}, B)
  PROVE  /\ IsSeq(ApplyTransport(team, j, s))
         /\ Flows(ApplyTransport(team, j, s), Len(team), H, Counted(E, s))
PROOF
<1> DEFINE n == Len(team)
           op == Op(UNION {BlockCount(s, b) : b \in B}, StepCount(s))
           o == <<Once(team, op)>>
           ss == [b \in 1 .. j.blocks |-> OneBlockSpatial(team, j, s, b)]
           own == IF j.execution = "serial" THEN <<team[1]>> ELSE team
           r == LoopOverBlocks(own, j, s)
           body == IF j.execution = "spatial" THEN FlattenSeq(ss) ELSE LoopRegions(team, r)
<1>1. ApplyTransport(team, j, s) = body \o o
  BY DEF ApplyTransport
<1>2. IsSeq(o) /\ Flows(o, n, E, Counted(E, s))
  <2> DEFINE K == Counted(E, s)
  <2> HIDE DEF op, K
  <2>1. Gives(op, E, K)
    BY StepCountMakes DEF op, K
  <2>2. Passes(Once(team, op), n, E, K)
    BY <2>1, OncePasses
  <2>3. QED
    BY <2>2, FlowsOne DEF K
<1>3. IsSeq(FlattenSeq(ss)) /\ Flows(FlattenSeq(ss), n, H, E)
  BY SpatialBlocksMake
<1>4. IsSeq(LoopRegions(team, r)) /\ Flows(LoopRegions(team, r), n, H, E)
  <2>1. n \in Nat \ {0}
    BY IsSeqIs DEF Team
  <2> DEFINE m == Len(own)
  <2>2. Team(own) /\ m \in Nat \ {0} /\ (m = n \/ m = 1)
    <3>1. CASE j.execution = "serial"
      <4> DEFINE w == team[1]
      <4>1. own = <<w>>
        BY <3>1
      <4> HIDE DEF w, own
      <4>2. Team(own) /\ Len(own) = 1
        BY <4>1, SingleTeam
      <4>3. QED
        BY <4>2
    <3>2. CASE j.execution # "serial"
      BY <2>1, <3>2
    <3>3. QED
      BY <3>1, <3>2
  <2> HIDE DEF own, n
  <2>3. /\ r = [t \in 1 .. Len(own) |-> r[t]]
        /\ \A t \in 1 .. Len(own) : IsSeq(r[t])
        /\ Passes(r, Len(own), H, E)
        /\ Len(own) = 1 => Leads(r[1], H, E)
    BY <2>2, LoopOverBlocksMakes
  <2>4. \A t \in 1 .. m : IsSeq(r[t])
    BY <2>3
  <2> HIDE DEF r, m
  <2>5. r = [t \in 1 .. m |-> r[t]] /\ Passes(r, m, H, E) /\ (m = 1 => Leads(r[1], H, E))
    BY <2>3 DEF m
  <2>6. m = Len(team) \/ m = 1
    BY <2>2 DEF n
  <2>7. IsSeq(LoopRegions(team, r)) /\ Flows(LoopRegions(team, r), Len(team), H, E)
    BY <2>2, <2>4, <2>5, <2>6, LoopRegionsFlow
  <2>8. QED
    BY <2>7 DEF n
<1>5. IsSeq(body) /\ Flows(body, n, H, E)
  BY <1>3, <1>4
<1> HIDE DEF body, o, n
<1>6. IsSeq(body \o o) /\ Flows(body \o o, n, H, Counted(E, s))
  BY <1>2, <1>5, FlowsThen
<1>7. QED
  BY <1>1, <1>6 DEF n

-----------------------------------------------------------------------------
(* The preparation of a step.                                              *)

\* The facts are of arrays so named, and those of R stay when T is written.
Bears(R, names) == \A p \in R : p[1][1][1] \in names
Agrees(R, T) == \A p \in R : p[1] \in CellsOf(T) => p \in T

LEMMA StepGives ==
  ASSUME NEW S, NEW P, S \subseteq P, NEW R, R \subseteq P, NEW T, Agrees(R, T)
  PROVE  Gives(Op(S, T), P, R \cup T)
PROOF
  BY DEF Gives, Op, Agrees

LEMMA BearsApart ==
  ASSUME NEW R, NEW T, NEW N, NEW M, Bears(R, N), Bears(T, M), N \cap M = {}
  PROVE  Agrees(R, T)
PROOF
  BY DEF Bears, Agrees, CellsOf

LEMMA BearsBoth ==
  ASSUME NEW R, NEW T, NEW N, Bears(R, N), Bears(T, N)
  PROVE  Bears(R \cup T, N)
PROOF
  BY DEF Bears

LEMMA BearsMore ==
  ASSUME NEW R, NEW N, Bears(R, N), NEW M, N \subseteq M
  PROVE  Bears(R, M)
PROOF
  BY DEF Bears

LEMMA AgreesBoth ==
  ASSUME NEW R, NEW U, NEW T, Agrees(R, T), Agrees(U, T)
  PROVE  Agrees(R \cup U, T)
PROOF
  BY DEF Agrees

LEMMA AgreesWith ==
  ASSUME NEW R, NEW U, NEW T, Agrees(R, T), Agrees(R, U)
  PROVE  Agrees(R, T \cup U)
PROOF
  BY DEF Agrees, CellsOf

\* The facts are of array b, on the rows J, and say v.
Lying(T, b, J, v) == \A p \in T : p[1][1] = b /\ p[1][3] \in J /\ p = <<p[1], v>>

LEMMA AtIs ==
  ASSUME NEW b, NEW K, NEW J, NEW I, NEW v
  PROVE  /\ \A p : p \in At(b, K, J, I) \X {v} <=>
               \E k \in K, j \in J, i \in I : p = <<<<b, k, j, i>>, v>>
         /\ Lying(At(b, K, J, I) \X {v}, b, J, v)
PROOF
<1> DEFINE A == At(b, K, J, I)
<1>1. \A x : x \in A <=> \E k \in K, j \in J, i \in I : x = <<b, k, j, i>>
  BY DEF At
<1> HIDE DEF A
<1>2. \A p : p \in A \X {v} <=> \E x \in A : p = <<x, v>>
  OBVIOUS
<1>3. ASSUME NEW p
      PROVE  p \in A \X {v} <=> \E k \in K, j \in J, i \in I : p = <<<<b, k, j, i>>, v>>
  BY <1>1, <1>2
<1>4. ASSUME NEW p \in A \X {v} PROVE p[1][1] = b /\ p[1][3] \in J /\ p = <<p[1], v>>
  BY <1>3
<1>5. QED
  BY <1>3, <1>4 DEF A, Lying

LEMMA TermBears ==
  ASSUME NEW name, NEW as, NEW s, NEW K, NEW J, NEW I
  PROVE  Bears(TermAs(name, as, s, K, J, I), {name})
PROOF
<1> DEFINE T == TermAs(name, as, s, K, J, I)
           b == <<name, 0>>
           v == <<as, s>>
<1>1. b[1] = name
  OBVIOUS
<1>2. T = At(b, K, J, I) \X {v}
  BY DEF TermAs
<1> HIDE DEF b, v, T
<1>3. Lying(T, b, J, v)
  BY <1>2, AtIs
<1>4. QED
  BY <1>1, <1>3 DEF Bears, T, Lying

LEMMA TermIs ==
  /\ \A name, s, K, J, I : Term(name, s, K, J, I) = TermAs(name, name, s, K, J, I)
  /\ \A name, as, s, K, J, I : Bears(TermAs(name, as, s, K, J, I), {name})
  /\ \A name, s, K, J, I : Bears(Term(name, s, K, J, I), {name})
PROOF
<1>1. \A name, s, K, J, I : Term(name, s, K, J, I) = TermAs(name, name, s, K, J, I)
  BY DEF Term, TermAs
<1>2. QED
  BY <1>1, TermBears

\* A term is not lost where it is written again, nor where other rows are.
LEMMA SameAgrees ==
  ASSUME NEW name, NEW as, NEW s, NEW K, NEW J, NEW I, NEW L, NEW M, NEW N
  PROVE  Agrees(TermAs(name, as, s, K, J, I), TermAs(name, as, s, L, M, N))
PROOF
<1> DEFINE R == TermAs(name, as, s, K, J, I)
           T == TermAs(name, as, s, L, M, N)
           b == <<name, 0>>
           v == <<as, s>>
<1>1. R = At(b, K, J, I) \X {v}
  BY DEF TermAs
<1>2. T = At(b, L, M, N) \X {v}
  BY DEF TermAs
<1> HIDE DEF b, v, R, T
<1>3. Lying(R, b, J, v) /\ Lying(T, b, M, v)
  BY <1>1, <1>2, AtIs
<1>4. ASSUME NEW p \in R, NEW q \in T, p[1] = q[1] PROVE p = q
  BY <1>3, <1>4 DEF Lying
<1>5. QED
  BY <1>4 DEF Agrees, CellsOf, R, T

LEMMA RowsAgree ==
  ASSUME NEW name, NEW as, NEW other, NEW s, NEW K, NEW J, NEW I, NEW L, NEW M, NEW N, J \cap M = {}
  PROVE  Agrees(TermAs(name, as, s, K, J, I), TermAs(name, other, s, L, M, N))
PROOF
<1> DEFINE R == TermAs(name, as, s, K, J, I)
           T == TermAs(name, other, s, L, M, N)
           b == <<name, 0>>
           v == <<as, s>>
           u == <<other, s>>
<1>1. R = At(b, K, J, I) \X {v}
  BY DEF TermAs
<1>2. T = At(b, L, M, N) \X {u}
  BY DEF TermAs
<1> HIDE DEF b, v, u, R, T
<1>3. Lying(R, b, J, v) /\ Lying(T, b, M, u)
  BY <1>1, <1>2, AtIs
<1>4. QED
  BY <1>3 DEF Lying, Agrees, CellsOf, R, T

\* A list of as many operations as a loop has iterations.
LEMMA LeadsLoop ==
  ASSUME NEW n \in Nat, NEW l, l = [m \in 1 .. n |-> l[m]], NEW F,
         \A m \in 1 .. n : Gives(l[m], F[m - 1], F[m])
  PROVE  IsSeq(l) /\ Leads(l, F[0], F[n])
PROOF
<1>1. IsSeq(l) /\ Len(l) = n
  BY SeqIs
<1>2. Hands(F, l, F[0], F[n])
  BY <1>1 DEF Hands
<1>3. QED
  BY <1>1, <1>2 DEF Leads

LEMMA LeadsPair ==
  ASSUME NEW a, NEW b, NEW P, NEW Q, NEW R, Gives(a, P, Q), Gives(b, Q, R)
  PROVE  IsSeq(<<a, b>>) /\ Leads(<<a, b>>, P, R)
PROOF
  BY GivesSeq, LeadsSome

LEMMA FusedPair ==
  ASSUME NEW a, NEW b, NEW P, NEW Q, NEW R, Gives(a, P, Q), Gives(b, Q, R)
  PROVE  Gives(FusedAll(<<a, b>>), P, R)
PROOF
  BY FusedSome

LEMMA FusedThree ==
  ASSUME NEW a, NEW b, NEW d, NEW P, NEW Q, NEW R, NEW S,
         Gives(a, P, Q), Gives(b, Q, R), Gives(d, R, S)
  PROVE  Gives(FusedAll(<<a, b, d>>), P, S)
PROOF
  BY FusedSome

LEMMA LeadsFour ==
  ASSUME NEW a, NEW b, NEW d, NEW e, NEW P, NEW Q, NEW R, NEW S, NEW T,
         Gives(a, P, Q), Gives(b, Q, R), Gives(d, R, S), Gives(e, S, T)
  PROVE  IsSeq(<<a, b, d, e>>) /\ Leads(<<a, b, d, e>>, P, T)
PROOF
  BY GivesSeq, LeadsSome

LEMMA LeadsSix ==
  ASSUME NEW a, NEW b, NEW d, NEW e, NEW g, NEW h, NEW P, NEW Q, NEW R, NEW S, NEW T, NEW U, NEW V,
         Gives(a, P, Q), Gives(b, Q, R), Gives(d, R, S), Gives(e, S, T), Gives(g, T, U), Gives(h, U, V)
  PROVE  IsSeq(<<a, b, d, e, g, h>>) /\ Leads(<<a, b, d, e, g, h>>, P, V)
PROOF
<1> DEFINE l == <<a, b, d, e>>
           m == <<g, h>>
<1>1. IsSeq(l) /\ Leads(l, P, T)
  BY LeadsFour
<1>2. IsSeq(m) /\ Leads(m, T, V)
  BY LeadsPair
<1>3. <<a, b, d, e, g, h>> = l \o m
  OBVIOUS
<1> HIDE DEF l, m
<1>4. IsSeq(l \o m) /\ Leads(l \o m, P, V)
  BY <1>1, <1>2, LeadsThen
<1>5. QED
  BY <1>3, <1>4

-----------------------------------------------------------------------------
\* What the driver is given for step s, beside the tracers.
GivenNames == {"state_a", "u", "v", "t", "sphu", "cmfmc", "dtrain", "dqrcu", "reevapcn",
               "p1_input", "p2_input", "wet_pressure", "surface_met"}
Inputs(s) ==
  (UNION {Field(name, s) : name \in ForcingFields}) \cup Surface("p1_input", s)
    \cup Surface("p2_input", s) \cup Surface("wet_pressure", s) \cup Surface("surface_met", s)
Given(A, s) == Inputs(s) \subseteq A /\ Bears(A, GivenNames)

LEMMA InputsBear ==
  ASSUME NEW s
  PROVE  Bears(Inputs(s), GivenNames)
PROOF
<1>1. ASSUME NEW name \in ForcingFields PROVE Bears(Field(name, s), GivenNames)
  BY TermIs DEF Field, Bears, GivenNames, ForcingFields
<1>2. ASSUME NEW name \in {"p1_input", "p2_input", "wet_pressure", "surface_met"}
      PROVE  Bears(Surface(name, s), GivenNames)
  BY TermIs DEF Surface, Bears, GivenNames
<1>3. QED
  BY <1>1, <1>2 DEF Inputs, Bears

LEMMA OpeningLeads ==
  ASSUME NEW s, NEW tracers, Bears(tracers, {"state_a"})
  PROVE  /\ Given(tracers \cup Inputs(s), s)
         /\ IsSeq(<<Forcing(s), StartingPressure(s)>>)
         /\ Leads(<<Forcing(s), StartingPressure(s)>>, tracers \cup DryMass(s - 1), tracers \cup Inputs(s))
PROOF
<1> DEFINE A == tracers \cup Inputs(s)
           D == DryMass(s - 1)
           X == tracers \cup D
           T1 == (UNION {Field(name, s) : name \in ForcingFields}) \cup Surface("p2_input", s)
                   \cup Surface("wet_pressure", s) \cup Surface("surface_met", s)
           T2 == Surface("p1_input", s)
           N1 == GivenNames \ {"p1_input", "state_a"}
           N2 == {"p1_input"}
           O1 == {"state_a", "dry_mass"}
           O2 == (GivenNames \ {"p1_input"}) \cup {"dry_mass"}
           E == {}
<1>1. Inputs(s) = T1 \cup T2
  BY DEF Inputs
<1>2. Bears(T1, N1)
  <2>1. ASSUME NEW name \in ForcingFields PROVE Bears(Field(name, s), N1)
    BY TermIs DEF Field, Bears, GivenNames, ForcingFields
  <2>2. ASSUME NEW name \in {"p2_input", "wet_pressure", "surface_met"} PROVE Bears(Surface(name, s), N1)
    BY TermIs DEF Surface, Bears, GivenNames
  <2> HIDE DEF N1
  <2>3. QED
    BY <2>1, <2>2 DEF Bears
<1>3. Bears(T2, N2)
  BY TermIs DEF Surface
<1>4. Bears(D, {"dry_mass"})
  BY DEF DryMass, Fresh, At, Bears
<1>5. Bears(X, O1)
  <2> HIDE DEF D
  <2>1. QED
    BY <1>4 DEF Bears
<1>6. O1 \cap N1 = {} /\ O2 \cap N2 = {} /\ O1 \subseteq O2 /\ N1 \subseteq O2
  BY DEF GivenNames
<1>7. Forcing(s) = Op(E, T1) /\ StartingPressure(s) = Op(D, T2)
  BY DEF Forcing, StartingPressure
<1>8. E \subseteq X /\ D \subseteq X
  OBVIOUS
<1> HIDE DEF D, T1, T2, N1, N2, O1, O2, E
<1>9. Given(A, s)
  <2>1. Bears(Inputs(s), GivenNames)
    BY InputsBear
  <2>2. "state_a" \in GivenNames
    BY DEF GivenNames
  <2>3. QED
    BY <2>1, <2>2 DEF Given, Bears
<1> HIDE DEF X
<1>10. Gives(Forcing(s), X, X \cup T1)
  <2>1. Agrees(X, T1)
    BY <1>2, <1>5, <1>6, BearsApart
  <2>2. QED
    BY <1>7, <1>8, <2>1, StepGives
<1> DEFINE Y == X \cup T1
<1>11. Bears(Y, O2)
  BY <1>2, <1>5, <1>6 DEF Bears
<1>12. D \subseteq Y
  BY <1>8
<1> HIDE DEF Y
<1>13. Gives(StartingPressure(s), Y, Y \cup T2)
  <2>1. Agrees(Y, T2)
    BY <1>3, <1>6, <1>11, BearsApart
  <2>2. QED
    BY <1>7, <1>12, <2>1, StepGives
<1>14. A \subseteq Y \cup T2
  BY <1>1 DEF X, Y
<1> HIDE DEF A
<1>15. Gives(StartingPressure(s), Y, A)
  BY <1>13, <1>14, GivesWeaker
<1>16. IsSeq(<<Forcing(s), StartingPressure(s)>>) /\ Leads(<<Forcing(s), StartingPressure(s)>>, X, A)
  BY <1>10, <1>15, LeadsPair DEF Y
<1>17. QED
  BY <1>9, <1>16 DEF A, X, D

LEMMA GrowGives ==
  ASSUME NEW S, NEW P, S \subseteq P, NEW N, Bears(P, N), NEW T, NEW M, Bears(T, M), N \cap M = {}
  PROVE  Gives(Op(S, T), P, P \cup T) /\ Bears(P \cup T, N \cup M)
PROOF
<1>1. Agrees(P, T)
  BY BearsApart
<1>2. Gives(Op(S, T), P, P \cup T)
  BY <1>1, StepGives
<1>3. QED
  BY <1>2 DEF Bears

\* The two pressures, their poles averaged.
LEMMA PressuresMake ==
  ASSUME NEW s, NEW a1, NEW a2, NEW f1, NEW f2, NEW R, NEW N, Bears(R, N), N \cap {"p1", "p2"} = {},
         Surface("p1_input", s) \subseteq R, Surface("p2_input", s) \subseteq R,
         NEW op, op = Op(Surface("p1_input", s) \cup Surface("p2_input", s),
                         SurfaceAs("p1", a1, s, Rows) \cup SurfaceAs("p2", a2, s, Rows))
  PROVE  Gives(FusedAll(<<op, AveragePoles("p1", a1, f1, s), AveragePoles("p2", a2, f2, s)>>), R,
               R \cup ((SurfaceAs("p1", f1, s, Polar) \cup SurfaceAs("p1", a1, s, Interior))
                 \cup (SurfaceAs("p2", f2, s, Polar) \cup SurfaceAs("p2", a2, s, Interior))))
PROOF
<1> DEFINE K0 == {0}
           B1(J) == SurfaceAs("p1", a1, s, J)
           B2(J) == SurfaceAs("p2", a2, s, J)
           C1 == SurfaceAs("p1", f1, s, Polar)
           C2 == SurfaceAs("p2", f2, s, Polar)
           I1 == Surface("p1_input", s)
           I2 == Surface("p2_input", s)
           n1 == {"p1"}
           n2 == {"p2"}
           b == AveragePoles("p1", a1, f1, s)
           d == AveragePoles("p2", a2, f2, s)
           P1 == R \cup (B1(Rows) \cup B2(Rows))
           P2 == (R \cup (B1(Interior) \cup B2(Rows))) \cup C1
           P3 == (R \cup (C1 \cup B1(Interior) \cup B2(Interior))) \cup C2
<1>1. n1 \cap n2 = {} /\ n2 \cap n1 = {} /\ N \cap n1 = {} /\ N \cap n2 = {}
  OBVIOUS
<1>2. /\ \A J : Bears(B1(J), n1) /\ Bears(B2(J), n2)
      /\ Bears(C1, n1) /\ Bears(C2, n2)
  BY TermBears DEF SurfaceAs
<1>3. Polar \subseteq Rows /\ Interior \subseteq Rows /\ Interior \cap Polar = {}
  BY GridIs
<1>4. /\ B1(Polar) \subseteq B1(Rows) /\ B1(Interior) \subseteq B1(Rows)
      /\ B2(Polar) \subseteq B2(Rows) /\ B2(Interior) \subseteq B2(Rows)
  <2>1. K0 \subseteq K0 /\ Cols \subseteq Cols
    OBVIOUS
  <2>2. \A J : B1(J) = TermAs("p1", a1, s, K0, J, Cols) /\ B2(J) = TermAs("p2", a2, s, K0, J, Cols)
    BY DEF SurfaceAs
  <2> HIDE DEF K0, B1, B2
  <2>3. QED
    BY <1>3, <2>1, <2>2, TermPart
<1>5. Agrees(B1(Interior), C1) /\ Agrees(B2(Interior), C2)
  <2> DEFINE J == Interior
             L == Polar
  <2>1. J \cap L = {}
    BY <1>3
  <2> HIDE DEF J, L, K0
  <2>2. Agrees(TermAs("p1", a1, s, K0, J, Cols), TermAs("p1", f1, s, K0, L, Cols))
    BY <2>1, RowsAgree
  <2>3. Agrees(TermAs("p2", a2, s, K0, J, Cols), TermAs("p2", f2, s, K0, L, Cols))
    BY <2>1, RowsAgree
  <2>4. QED
    BY <2>2, <2>3 DEF SurfaceAs, J, L, K0
<1>6. /\ op = Op(I1 \cup I2, B1(Rows) \cup B2(Rows))
      /\ b = Op(B1(Polar), C1) /\ d = Op(B2(Polar), C2)
  BY DEF AveragePoles
<1>7. I1 \cup I2 \subseteq R
  OBVIOUS
<1> HIDE DEF B1, B2, C1, C2, I1, I2, n1, n2, b, d, K0
<1>8. Gives(op, R, P1)
  <2> DEFINE T == B1(Rows) \cup B2(Rows)
  <2>1. Agrees(R, B1(Rows)) /\ Agrees(R, B2(Rows))
    BY <1>1, <1>2, BearsApart
  <2>2. Agrees(R, T)
    BY <2>1, AgreesWith
  <2> DEFINE S == I1 \cup I2
  <2>3. S \subseteq R
    BY <1>7
  <2> HIDE DEF S, T
  <2>4. Gives(Op(S, T), R, R \cup T)
    BY <2>2, <2>3, StepGives
  <2>5. QED
    BY <1>6, <2>4 DEF S, T
<1>9. Gives(b, P1, P2)
  <2> DEFINE O == R \cup (B1(Interior) \cup B2(Rows))
             S == B1(Polar)
  <2>1. O \subseteq P1 /\ S \subseteq P1
    BY <1>4
  <2>2. Agrees(R, C1) /\ Agrees(B2(Rows), C1)
    BY <1>1, <1>2, BearsApart
  <2>3. Agrees(O, C1)
    BY <1>5, <2>2, AgreesBoth
  <2> HIDE DEF O, P1, S
  <2>4. Gives(Op(S, C1), P1, O \cup C1)
    BY <2>1, <2>3, StepGives
  <2>5. QED
    BY <1>6, <2>4 DEF O, S
<1>10. Gives(d, P2, P3)
  <2> DEFINE O == R \cup (C1 \cup B1(Interior) \cup B2(Interior))
             S == B2(Polar)
  <2>1. O \subseteq P2 /\ S \subseteq P2
    BY <1>4
  <2>2. Agrees(R, C2) /\ Agrees(C1, C2) /\ Agrees(B1(Interior), C2)
    BY <1>1, <1>2, BearsApart
  <2>3. Agrees(O, C2)
    <3>1. Agrees(C1 \cup B1(Interior), C2)
      BY <2>2, AgreesBoth
    <3>2. Agrees(C1 \cup B1(Interior) \cup B2(Interior), C2)
      BY <1>5, <3>1, AgreesBoth
    <3>3. QED
      BY <2>2, <3>2, AgreesBoth
  <2> HIDE DEF O, P2, S
  <2>4. Gives(Op(S, C2), P2, O \cup C2)
    BY <2>1, <2>3, StepGives
  <2>5. QED
    BY <1>6, <2>4 DEF O, S
<1> DEFINE Q == R \cup ((C1 \cup B1(Interior)) \cup (C2 \cup B2(Interior)))
<1>11. Q \subseteq P3
  OBVIOUS
<1> HIDE DEF P1, P2, P3
<1>12. Gives(FusedAll(<<op, b, d>>), R, P3)
  BY <1>8, <1>9, <1>10, FusedThree
<1> HIDE DEF Q
<1>13. Gives(FusedAll(<<op, b, d>>), R, Q)
  BY <1>11, <1>12, GivesWeaker
<1>14. QED
  BY <1>13 DEF Q, b, d, B1, B2, C1, C2

LEMMA PrivatePressuresMake ==
  ASSUME NEW s, NEW A, Given(A, s)
  PROVE  Gives(PrivatePressures(s), A, A \cup FixerPressures(s))
PROOF
<1> DEFINE op == Op(Surface("p1_input", s) \cup Surface("p2_input", s),
                    SurfaceAs("p1", "p1_private", s, Rows) \cup SurfaceAs("p2", "p2_private", s, Rows))
           f == FusedAll(<<op, AveragePoles("p1", "p1_private", "p1_fixer", s),
                           AveragePoles("p2", "p2_private", "p2_fixer", s)>>)
           Q == A \cup ((SurfaceAs("p1", "p1_fixer", s, Polar) \cup SurfaceAs("p1", "p1_private", s, Interior))
                  \cup (SurfaceAs("p2", "p2_fixer", s, Polar) \cup SurfaceAs("p2", "p2_private", s, Interior)))
<1>1. Surface("p1_input", s) \subseteq A /\ Surface("p2_input", s) \subseteq A /\ Bears(A, GivenNames)
  BY DEF Given, Inputs
<1>2. GivenNames \cap {"p1", "p2"} = {}
  BY DEF GivenNames
<1>3. Gives(f, A, Q)
  BY <1>1, <1>2, PressuresMake
<1>4. f = PrivatePressures(s)
  BY DEF PrivatePressures
<1>5. A \cup FixerPressures(s) \subseteq Q
  BY DEF FixerPressures
<1> HIDE DEF f, Q
<1>6. Gives(f, A, A \cup FixerPressures(s))
  BY <1>3, <1>5, GivesWeaker
<1>7. QED
  BY <1>4, <1>6

LEMMA PlanPressuresMake ==
  ASSUME NEW s, NEW A, NEW N, Bears(A, N), N \cap {"p1", "p2"} = {}, Inputs(s) \subseteq A
  PROVE  Gives(PlanPressures(s), A, A \cup PlanPressure(s))
PROOF
<1> DEFINE op == Op(Surface("p1_input", s) \cup Surface("p2_input", s),
                    SurfaceAs("p1", "p1_input", s, Rows) \cup SurfaceAs("p2", "p2_input", s, Rows))
           f == FusedAll(<<op, AveragePoles("p1", "p1_input", "p1_plan", s),
                           AveragePoles("p2", "p2_input", "p2_plan", s)>>)
           Q == A \cup ((SurfaceAs("p1", "p1_plan", s, Polar) \cup SurfaceAs("p1", "p1_input", s, Interior))
                  \cup (SurfaceAs("p2", "p2_plan", s, Polar) \cup SurfaceAs("p2", "p2_input", s, Interior)))
<1>1. Surface("p1_input", s) \subseteq A /\ Surface("p2_input", s) \subseteq A
  BY DEF Inputs
<1>2. Gives(f, A, Q)
  BY <1>1, PressuresMake
<1>3. f = PlanPressures(s)
  BY DEF PlanPressures
<1>4. A \cup PlanPressure(s) \subseteq Q
  BY DEF PlanPressure
<1> HIDE DEF f, Q
<1>5. Gives(f, A, A \cup PlanPressure(s))
  BY <1>2, <1>4, GivesWeaker
<1>6. QED
  BY <1>3, <1>5

\* What the fluxes of the wind leave of levels K.
WindsOf(s, K) ==
  TermAs("xmass", "wind_xmass", s, K, Rows, Cols) \cup TermAs("ymass", "wind_ymass", s, K, Rows, Cols)
\* The lowest m levels.
Lowest(m) == {k \in Levels : k >= NLev - m}

LEMMA LowestIs ==
  /\ Lowest(0) = {} /\ Lowest(NLev) = Levels
  /\ \A m \in 1 .. NLev : Bottom - (m - 1) \in Levels /\ Lowest(m) \subseteq Lowest(m - 1) \cup {Bottom - (m - 1)}
PROOF
  BY GridAssumption DEF Lowest, Levels, Bottom

LEMMA TermLevels ==
  ASSUME NEW name, NEW as, NEW s, NEW K, NEW L, NEW M, M \subseteq K \cup L, NEW J, NEW I
  PROVE  TermAs(name, as, s, M, J, I) \subseteq TermAs(name, as, s, K, J, I) \cup TermAs(name, as, s, L, J, I)
PROOF
<1> DEFINE b == <<name, 0>>
           v == <<as, s>>
<1>1. At(b, M, J, I) \subseteq At(b, K, J, I) \cup At(b, L, J, I)
  BY DEF At
<1>2. /\ TermAs(name, as, s, M, J, I) = At(b, M, J, I) \X {v}
      /\ TermAs(name, as, s, K, J, I) = At(b, K, J, I) \X {v}
      /\ TermAs(name, as, s, L, J, I) = At(b, L, J, I) \X {v}
  BY DEF TermAs
<1> HIDE DEF b, v
<1>3. \A X, Y, Z, V : X \subseteq Y \cup Z => X \X V \subseteq (Y \X V) \cup (Z \X V)
  OBVIOUS
<1>4. QED
  BY <1>1, <1>2, <1>3

LEMMA TermOverRows ==
  ASSUME NEW name, NEW as, NEW s, NEW K, NEW J, NEW L, NEW M, M \subseteq J \cup L, NEW I
  PROVE  TermAs(name, as, s, K, M, I) \subseteq TermAs(name, as, s, K, J, I) \cup TermAs(name, as, s, K, L, I)
PROOF
<1> DEFINE b == <<name, 0>>
           v == <<as, s>>
<1>1. At(b, K, M, I) \subseteq At(b, K, J, I) \cup At(b, K, L, I)
  BY DEF At
<1>2. /\ TermAs(name, as, s, K, M, I) = At(b, K, M, I) \X {v}
      /\ TermAs(name, as, s, K, J, I) = At(b, K, J, I) \X {v}
      /\ TermAs(name, as, s, K, L, I) = At(b, K, L, I) \X {v}
  BY DEF TermAs
<1> HIDE DEF b, v
<1>3. \A X, Y, Z, V : X \subseteq Y \cup Z => X \X V \subseteq (Y \X V) \cup (Z \X V)
  OBVIOUS
<1>4. QED
  BY <1>1, <1>2, <1>3

LEMMA TermNone ==
  ASSUME NEW name, NEW as, NEW s, NEW K, NEW J, NEW I, K = {} \/ J = {}
  PROVE  TermAs(name, as, s, K, J, I) = {}
PROOF
<1> DEFINE b == <<name, 0>>
           v == <<as, s>>
<1>1. At(b, K, J, I) = {}
  BY DEF At
<1>2. TermAs(name, as, s, K, J, I) = At(b, K, J, I) \X {v}
  BY DEF TermAs
<1> HIDE DEF b, v
<1>3. \A V : {} \X V = {}
  OBVIOUS
<1>4. QED
  BY <1>1, <1>2, <1>3

\* The fluxes of one level.
LEMMA WindLevelGives ==
  ASSUME NEW s, NEW P, NEW N, Bears(P, N), N \cap {"work3"} = {}, FixerPressures(s) \subseteq P,
         Inputs(s) \subseteq P, NEW lev, Bottom - lev \in Levels, NEW T, T = WindsOf(s, {Bottom - lev}),
         Agrees(P, T)
  PROVE  Gives(WindFluxes(s, lev), P, P \cup T)
PROOF
<1> DEFINE H == TermAs("work3", "thickness", s, {lev}, Rows, Cols)
           L == {Bottom - lev}
           U == Term("u", s, L, Rows, Cols)
           V == Term("v", s, L, Rows, Cols)
           F == FixerPressures(s)
           a == Op(F, H)
           b == Op(H \cup U \cup V, T)
           n == {"work3"}
<1>1. WindFluxes(s, lev) = FusedAll(<<a, b>>)
  BY DEF WindFluxes, WindsOf
<1>2. U \subseteq P /\ V \subseteq P
  <2>1. Field("u", s) \subseteq P /\ Field("v", s) \subseteq P
    BY DEF Inputs, ForcingFields
  <2>2. L \subseteq Levels
    OBVIOUS
  <2> HIDE DEF L
  <2>3. QED
    BY <2>1, <2>2, TermPart DEF Field
<1>3. Bears(H, n)
  BY TermBears
<1> HIDE DEF H, U, V, F, n, L
<1>4. Gives(a, P, P \cup H)
  <2>1. F \subseteq P /\ N \cap n = {}
    BY DEF F, n
  <2> HIDE DEF a
  <2>2. Gives(Op(F, H), P, P \cup H)
    BY <1>3, <2>1, GrowGives
  <2>3. QED
    BY <2>2 DEF a
<1>5. Gives(b, P \cup H, P \cup T)
  <2> DEFINE S == H \cup U \cup V
             Q == P \cup H
  <2>1. S \subseteq Q /\ P \subseteq Q
    BY <1>2
  <2> HIDE DEF S, Q, b
  <2>2. Gives(Op(S, T), Q, P \cup T)
    BY <2>1, StepGives
  <2>3. QED
    BY <2>2 DEF S, Q, b
<1> DEFINE Q == P \cup H
           R == P \cup T
<1> HIDE DEF a, b, Q, R
<1>6. Gives(FusedAll(<<a, b>>), P, R)
  BY <1>4, <1>5, FusedPair DEF Q, R
<1>7. QED
  BY <1>1, <1>6 DEF R

Stage1(A, s) == A \cup FixerPressures(s)
Stage2(A, s) == Stage1(A, s) \cup WindsOf(s, Levels)
WindLoop(s) == [m \in 1 .. NLev |-> WindFluxes(s, m - 1)]
Names1 == GivenNames \cup {"p1", "p2"}
MassNames == {"xmass", "ymass"}

LEMMA FixerBears ==
  ASSUME NEW s
  PROVE  Bears(FixerPressures(s), {"p1", "p2"})
PROOF
<1>1. ASSUME NEW name \in {"p1", "p2"}, NEW as, NEW J PROVE Bears(SurfaceAs(name, as, s, J), {"p1", "p2"})
  <2> DEFINE n == {name}
             N == {"p1", "p2"}
  <2>1. n \subseteq N
    OBVIOUS
  <2> HIDE DEF n, N
  <2>2. Bears(SurfaceAs(name, as, s, J), n)
    BY TermBears DEF SurfaceAs, n
  <2>3. Bears(SurfaceAs(name, as, s, J), N)
    BY <2>1, <2>2, BearsMore
  <2>4. QED
    BY <2>3 DEF N
<1> DEFINE N == {"p1", "p2"}
<1>2. "p1" \in N /\ "p2" \in N
  OBVIOUS
<1>3. \A name \in N : \A as, J : Bears(SurfaceAs(name, as, s, J), N)
  BY <1>1
<1> HIDE DEF N
<1>4. Bears(FixerPressures(s), N)
  BY <1>2, <1>3, BearsBoth DEF FixerPressures
<1>5. QED
  BY <1>4 DEF N

LEMMA WindsBear ==
  ASSUME NEW s, NEW K
  PROVE  /\ Bears(WindsOf(s, K), MassNames)
         /\ \A L : Agrees(WindsOf(s, K), WindsOf(s, L))
PROOF
<1> DEFINE X(L) == TermAs("xmass", "wind_xmass", s, L, Rows, Cols)
           Y(L) == TermAs("ymass", "wind_ymass", s, L, Rows, Cols)
           n1 == {"xmass"}
           n2 == {"ymass"}
<1>1. n1 \cap n2 = {} /\ n2 \cap n1 = {} /\ n1 \subseteq MassNames /\ n2 \subseteq MassNames
  BY DEF MassNames
<1>2. \A L : Bears(X(L), n1) /\ Bears(Y(L), n2)
  BY TermBears
<1>3. \A L : Agrees(X(K), X(L)) /\ Agrees(Y(K), Y(L))
  BY SameAgrees
<1>4. \A L : WindsOf(s, L) = X(L) \cup Y(L)
  BY DEF WindsOf
<1> HIDE DEF X, Y, n1, n2
<1>5. Bears(WindsOf(s, K), MassNames)
  BY <1>1, <1>2, <1>4, BearsMore, BearsBoth
<1>6. ASSUME NEW L PROVE Agrees(WindsOf(s, K), WindsOf(s, L))
  <2> DEFINE a == X(K)
             b == Y(K)
             d == X(L)
             e == Y(L)
  <2>1. Bears(a, n1) /\ Bears(b, n2) /\ Bears(d, n1) /\ Bears(e, n2) /\ Agrees(a, d) /\ Agrees(b, e)
    BY <1>2, <1>3
  <2>2. WindsOf(s, K) = a \cup b /\ WindsOf(s, L) = d \cup e
    BY <1>4
  <2> HIDE DEF a, b, d, e
  <2>3. Agrees(a, e) /\ Agrees(b, d)
    BY <1>1, <2>1, BearsApart
  <2>4. Agrees(a, d \cup e) /\ Agrees(b, d \cup e)
    BY <2>1, <2>3, AgreesWith
  <2>5. QED
    BY <2>2, <2>4, AgreesBoth
<1>7. QED
  BY <1>5, <1>6

LEMMA WindLoopLeads ==
  ASSUME NEW s, NEW A, Given(A, s)
  PROVE  /\ IsSeq(WindLoop(s)) /\ Leads(WindLoop(s), Stage1(A, s), Stage2(A, s))
         /\ Bears(Stage1(A, s), Names1) /\ Bears(Stage2(A, s), Names1 \cup MassNames)
PROOF
<1> DEFINE l == WindLoop(s)
           S1 == Stage1(A, s)
           W(K) == WindsOf(s, K)
           F == [m \in 0 .. NLev |-> S1 \cup W(Lowest(m))]
<1>1. NLev \in Nat
  BY GridAssumption
<1>2. Bears(S1, Names1)
  <2> DEFINE n == {"p1", "p2"}
             X == FixerPressures(s)
  <2>1. Bears(X, n) /\ n \subseteq Names1 /\ GivenNames \subseteq Names1 /\ Bears(A, GivenNames)
    BY FixerBears DEF Names1, Given
  <2> HIDE DEF n, X
  <2>2. Bears(X, Names1) /\ Bears(A, Names1)
    BY <2>1, BearsMore
  <2>3. QED
    BY <2>2, BearsBoth DEF Stage1, X
<1>3. Names1 \cap MassNames = {} /\ (Names1 \cup MassNames) \cap {"work3"} = {}
      /\ Names1 \subseteq Names1 \cup MassNames /\ MassNames \subseteq Names1 \cup MassNames
  BY DEF Names1, MassNames, GivenNames
<1>4. l = [m \in 1 .. NLev |-> l[m]] /\ \A m \in 1 .. NLev : l[m] = WindFluxes(s, m - 1)
  BY DEF WindLoop
<1>5. FixerPressures(s) \subseteq S1 /\ Inputs(s) \subseteq S1
  BY DEF Stage1, Given
<1>6. \A K : Bears(S1 \cup W(K), Names1 \cup MassNames)
  <2> TAKE K
  <2> DEFINE N == Names1 \cup MassNames
  <2>1. Bears(W(K), MassNames)
    BY WindsBear
  <2> HIDE DEF N, S1, W
  <2>2. Bears(W(K), N) /\ Bears(S1, N)
    BY <1>2, <1>3, <2>1, BearsMore DEF N
  <2>3. QED
    BY <2>2, BearsBoth DEF N
<1> HIDE DEF l, S1
<1>7. ASSUME NEW m \in 1 .. NLev PROVE Gives(l[m], F[m - 1], F[m])
  <2> DEFINE lev == m - 1
             P == S1 \cup W(Lowest(lev))
             L == {Bottom - lev}
             T == W(L)
             Q == S1 \cup W(Lowest(m))
             N == Names1 \cup MassNames
  <2>1. lev \in 0 .. NLev /\ m \in 0 .. NLev
    BY <1>1
  <2>2. F[m - 1] = P /\ F[m] = Q
    BY <2>1
  <2>3. Bottom - lev \in Levels /\ Lowest(m) \subseteq Lowest(lev) \cup L
    BY LowestIs
  <2>4. Agrees(P, T)
    <3>1. Bears(T, MassNames) /\ Agrees(W(Lowest(lev)), T)
      BY WindsBear
    <3> HIDE DEF T, W
    <3>2. Agrees(S1, T)
      BY <1>2, <1>3, <3>1, BearsApart
    <3>3. QED
      BY <3>1, <3>2, AgreesBoth
  <2>5. Bears(P, N) /\ N \cap {"work3"} = {} /\ FixerPressures(s) \subseteq P /\ Inputs(s) \subseteq P
    BY <1>3, <1>5, <1>6
  <2>6. T = WindsOf(s, {Bottom - lev})
    OBVIOUS
  <2>7. Q \subseteq P \cup T
    <3> DEFINE M == Lowest(lev)
               K == Lowest(m)
    <3>1. K \subseteq M \cup L
      BY <2>3
    <3> HIDE DEF M, K, L
    <3>2. TermAs("xmass", "wind_xmass", s, K, Rows, Cols) \subseteq
            TermAs("xmass", "wind_xmass", s, M, Rows, Cols) \cup TermAs("xmass", "wind_xmass", s, L, Rows, Cols)
      BY <3>1, TermLevels
    <3>3. TermAs("ymass", "wind_ymass", s, K, Rows, Cols) \subseteq
            TermAs("ymass", "wind_ymass", s, M, Rows, Cols) \cup TermAs("ymass", "wind_ymass", s, L, Rows, Cols)
      BY <3>1, TermLevels
    <3>4. W(K) \subseteq W(M) \cup W(L)
      BY <3>2, <3>3 DEF WindsOf
    <3> HIDE DEF W
    <3>5. QED
      BY <3>4 DEF M, K
  <2>8. l[m] = WindFluxes(s, lev)
    BY <1>4
  <2> HIDE DEF P, T, Q, N, lev, F, L
  <2>9. Gives(WindFluxes(s, lev), P, P \cup T)
    BY <2>3, <2>4, <2>5, <2>6, WindLevelGives
  <2>10. Gives(WindFluxes(s, lev), P, Q)
    BY <2>7, <2>9, GivesWeaker
  <2>11. QED
    BY <2>2, <2>8, <2>10
<1>8. S1 \subseteq F[0] /\ F[0] \subseteq S1 /\ F[NLev] = S1 \cup W(Levels)
  <2>1. W({}) = {}
    BY TermNone DEF WindsOf
  <2>2. 0 \in 0 .. NLev /\ NLev \in 0 .. NLev
    BY <1>1
  <2> HIDE DEF W
  <2>3. QED
    BY <2>1, <2>2, LowestIs
<1>9. Stage2(A, s) = S1 \cup W(Levels)
  BY DEF Stage2, S1
<1> HIDE DEF F, W
<1>10. IsSeq(l) /\ Leads(l, F[0], F[NLev])
  BY <1>1, <1>4, <1>7, LeadsLoop
<1>11. Leads(l, S1, F[NLev])
  BY <1>8, <1>10, LeadsWeaker
<1>12. QED
  BY <1>2, <1>6, <1>8, <1>9, <1>10, <1>11 DEF l, S1

\* What the pressure fixer works out.
ColumnSum(s) == SurfaceAs("work2", "wind_column", s, Rows)
Means(s) == Zonal("mmfd", s, Rows) \cup Global("dgpress", s)
ZeroCaps(s) == SurfaceAs("xfix", "zero", s, Polar)
Fixes(s, J) == SurfaceAs("xfix", "xfix", s, J)
Sums(A, s) == Stage2(A, s) \cup ColumnSum(s) \cup Means(s)
Stage3(A, s) == (Sums(A, s) \cup ZeroCaps(s)) \cup Zonal("mmf", s, {J1P})
SumNames == Names1 \cup MassNames \cup {"work2", "mmfd", "dgpress"}

LEMMA SumsBear ==
  ASSUME NEW s, NEW A, Given(A, s)
  PROVE  /\ Bears(ColumnSum(s), {"work2"}) /\ Bears(Means(s), {"mmfd", "dgpress"})
         /\ Bears(ZeroCaps(s), {"xfix"}) /\ \A J : Bears(Fixes(s, J), {"xfix"}) /\ Bears(Zonal("mmf", s, J), {"mmf"})
         /\ Bears(Sums(A, s), SumNames)
PROOF
<1> DEFINE C == ColumnSum(s)
           M == Means(s)
           Z == Zonal("mmfd", s, Rows)
           G == Global("dgpress", s)
           m1 == {"mmfd"}
           m2 == {"dgpress"}
           mm == {"mmfd", "dgpress"}
           n == {"work2"}
<1>1. Bears(C, n) /\ Bears(ZeroCaps(s), {"xfix"}) /\ \A J : Bears(Fixes(s, J), {"xfix"})
  BY TermBears DEF ColumnSum, SurfaceAs, ZeroCaps, Fixes
<1>2. Bears(Z, m1) /\ Bears(G, m2) /\ \A J : Bears(Zonal("mmf", s, J), {"mmf"})
  BY TermIs DEF Zonal, Global
<1>3. m1 \subseteq mm /\ m2 \subseteq mm /\ M = Z \cup G
  BY DEF Means
<1>4. n \subseteq SumNames /\ mm \subseteq SumNames /\ Names1 \cup MassNames \subseteq SumNames
  BY DEF SumNames
<1>5. Bears(Stage2(A, s), Names1 \cup MassNames)
  BY WindLoopLeads
<1>6. Sums(A, s) = Stage2(A, s) \cup C \cup M
  BY DEF Sums
<1> DEFINE S2 == Stage2(A, s)
           N2 == Names1 \cup MassNames
<1> HIDE DEF C, M, Z, G, m1, m2, mm, n, S2, N2
<1>7. Bears(Z, mm) /\ Bears(G, mm)
  BY <1>2, <1>3, BearsMore
<1>8. Bears(M, mm)
  BY <1>3, <1>7, BearsBoth
<1>9. Bears(M, SumNames) /\ Bears(C, SumNames) /\ Bears(S2, SumNames)
  BY <1>1, <1>4, <1>5, <1>8, BearsMore DEF S2, N2
<1>10. Bears(S2 \cup C, SumNames)
  BY <1>9, BearsBoth
<1>11. Bears((S2 \cup C) \cup M, SumNames)
  BY <1>9, <1>10, BearsBoth
<1>12. QED
  BY <1>1, <1>2, <1>6, <1>8, <1>11 DEF C, M, n, mm, S2

LEMMA FixerSumsLead ==
  ASSUME NEW s, NEW A, Given(A, s)
  PROVE  LET l == <<WindDivergence(s), ZonalMeans(s), ClearCorrections(s), FirstMeridional(s)>>
         IN  IsSeq(l) /\ Leads(l, Stage2(A, s), Stage3(A, s))
PROOF
<1> DEFINE W == WindXmass(s) \cup WindYmass(s, FluxRows)
           H == TermAs("work3", "wind_divergence", s, Levels, Rows, Cols)
           C == ColumnSum(s)
           M == Means(s)
           S2 == Stage2(A, s)
           N2 == Names1 \cup MassNames
           nh == {"work3"}
           nc == {"work2"}
           nm == {"mmfd", "dgpress"}
           nz == {"mmf", "xfix"}
           nf == {"mmf"}
           a == Op(W, H)
           b == Op(H, C)
           E == {}
<1>1. Bears(S2, N2) /\ Bears(C, nc) /\ Bears(M, nm) /\ Bears(H, nh)
  BY WindLoopLeads, SumsBear, TermBears
<1>2. N2 \cap nh = {} /\ (N2 \cup nh) \cap nc = {} /\ N2 \cap nc = {} /\ (N2 \cup nc) \cap nm = {}
      /\ ((N2 \cup nc) \cup nm) \cap nz = {}
  BY DEF Names1, MassNames, GivenNames
<1>3. W \subseteq S2
  <2>1. FluxRows \subseteq Rows
    BY GridAssumption DEF FluxRows, Rows, J1P, J2P
  <2>2. WindXmass(s) \subseteq WindsOf(s, Levels)
    BY DEF WindXmass, WindsOf
  <2> DEFINE J == FluxRows
  <2> HIDE DEF J
  <2>3. WindYmass(s, J) \subseteq TermAs("ymass", "wind_ymass", s, Levels, Rows, Cols)
    BY <2>1, TermPart DEF WindYmass, J
  <2>4. QED
    BY <2>2, <2>3 DEF J, Stage2, WindsOf
<1>4. WindDivergence(s) = FusedAll(<<a, b>>)
  BY DEF WindDivergence, ColumnSum
<1> HIDE DEF W, H, C, M, S2, N2, nh, nc, nm, nz, nf
<1>5. Gives(a, S2, S2 \cup H) /\ Bears(S2 \cup H, N2 \cup nh)
  BY <1>1, <1>2, <1>3, GrowGives
<1>6. Gives(b, S2 \cup H, S2 \cup C)
  <2> DEFINE P == S2 \cup H
  <2>1. H \subseteq P /\ S2 \subseteq P
    OBVIOUS
  <2>2. Agrees(S2, C)
    BY <1>1, <1>2, BearsApart
  <2> HIDE DEF P
  <2>3. Gives(Op(H, C), P, S2 \cup C)
    BY <2>1, <2>2, StepGives
  <2>4. QED
    BY <2>3 DEF P
<1> DEFINE Q1 == S2 \cup H
           S3 == S2 \cup C
<1>7. Gives(WindDivergence(s), S2, S3)
  <2> HIDE DEF a, b, Q1, S3
  <2>1. Gives(FusedAll(<<a, b>>), S2, S3)
    BY <1>5, <1>6, FusedPair DEF Q1, S3
  <2>2. QED
    BY <1>4, <2>1
<1>8. Bears(S3, N2 \cup nc)
  BY <1>1 DEF Bears
<1>9. ZonalMeans(s) = Op(Mismatch(s, Rows), M)
  BY DEF ZonalMeans, M, Means
<1>10. Mismatch(s, Rows) \subseteq S3
  <2>1. FixerPressures(s) \subseteq S2
    BY DEF S2, Stage2, Stage1
  <2>2. QED
    BY <2>1 DEF Mismatch, C, ColumnSum
<1> DEFINE S4 == S3 \cup M
           MS == Mismatch(s, Rows)
<1> HIDE DEF S3, MS
<1>11. Gives(ZonalMeans(s), S3, S4) /\ Bears(S4, (N2 \cup nc) \cup nm)
  <2> DEFINE N3 == N2 \cup nc
  <2>1. Bears(S3, N3) /\ N3 \cap nm = {} /\ MS \subseteq S3 /\ ZonalMeans(s) = Op(MS, M)
    BY <1>2, <1>8, <1>9, <1>10 DEF MS
  <2> HIDE DEF N3
  <2>2. Gives(Op(MS, M), S3, S3 \cup M) /\ Bears(S3 \cup M, N3 \cup nm)
    BY <1>1, <2>1, GrowGives
  <2>3. QED
    BY <2>1, <2>2 DEF N3
<1> DEFINE Z1 == TermAs("mmf", "zero", s, {0}, Rows, {0})
           Z2 == SurfaceAs("xfix", "zero", s, Rows)
           Z == Z1 \cup Z2
           X == ZeroCaps(s)
           S5 == S4 \cup X
<1>12. X \subseteq Z
  <2> DEFINE J == Polar
             K0 == {0}
  <2>1. J \subseteq Rows
    BY GridIs
  <2> HIDE DEF J, K0
  <2>2. TermAs("xfix", "zero", s, K0, J, Cols) \subseteq TermAs("xfix", "zero", s, K0, Rows, Cols)
    BY <2>1, TermPart
  <2>3. X \subseteq Z2
    BY <2>2 DEF ZeroCaps, SurfaceAs, J, K0
  <2>4. QED
    BY <2>3
<1>13. Bears(Z, nz)
  <2> DEFINE n1 == {"mmf"}
             n2 == {"xfix"}
  <2>1. Bears(Z1, n1) /\ Bears(Z2, n2) /\ n1 \subseteq nz /\ n2 \subseteq nz
    BY TermBears DEF SurfaceAs, nz
  <2> HIDE DEF n1, n2, Z1, Z2
  <2>2. Bears(Z1, nz) /\ Bears(Z2, nz)
    BY <2>1, BearsMore
  <2>3. QED
    BY <2>2, BearsBoth
<1>14. ClearCorrections(s) = Op({}, Z)
  BY DEF ClearCorrections
<1> HIDE DEF S4, Z, X
<1>15. Gives(ClearCorrections(s), S4, S5)
  <2> DEFINE N4 == (N2 \cup nc) \cup nm
             e == {}
  <2>1. Bears(S4, N4) /\ N4 \cap nz = {} /\ e \subseteq S4 /\ ClearCorrections(s) = Op(e, Z)
    BY <1>2, <1>11, <1>14
  <2> HIDE DEF N4, e
  <2>2. Gives(Op(e, Z), S4, S4 \cup Z)
    BY <1>13, <2>1, GrowGives
  <2>3. S5 \subseteq S4 \cup Z
    BY <1>12
  <2> DEFINE SZ == S4 \cup Z
  <2> HIDE DEF S5, SZ
  <2>4. Gives(Op(e, Z), S4, S5)
    BY <2>2, <2>3, GivesWeaker DEF SZ
  <2>5. QED
    BY <2>1, <2>4
<1> DEFINE MF == Zonal("mmf", s, {J1P})
           MD == Zonal("mmfd", s, {0})
           S6 == S5 \cup MF
<1>16. Gives(FirstMeridional(s), S5, S6)
  <2>1. FirstMeridional(s) = Op(MD, MF)
    BY DEF FirstMeridional
  <2>2. Bears(MF, nf) /\ Bears(X, {"xfix"})
    BY SumsBear DEF nf, X
  <2>3. MD \subseteq S5
    <3> DEFINE J == {0}
               K0 == {0}
    <3>1. J \subseteq Rows
      BY GridAssumption DEF Rows
    <3> HIDE DEF J, K0
    <3>2. Term("mmfd", s, K0, J, K0) \subseteq Term("mmfd", s, K0, Rows, K0)
      BY <3>1, TermPart
    <3>3. MD \subseteq M
      BY <3>2 DEF Zonal, M, Means, J, K0
    <3>4. QED
      BY <3>3 DEF S4
  <2>4. Agrees(S4, MF)
    <3> DEFINE N4 == (N2 \cup nc) \cup nm
    <3>1. Bears(S4, N4) /\ N4 \cap nf = {}
      BY <1>2, <1>11 DEF nf, nz
    <3> HIDE DEF N4, MF
    <3>2. QED
      BY <2>2, <3>1, BearsApart
  <2>5. Agrees(X, MF)
    <3> DEFINE n == {"xfix"}
    <3>1. n \cap nf = {}
      BY DEF nf
    <3> HIDE DEF n, MF
    <3>2. QED
      BY <2>2, <3>1, BearsApart DEF n
  <2> HIDE DEF MF, MD
  <2>6. Agrees(S5, MF)
    BY <2>4, <2>5, AgreesBoth
  <2> HIDE DEF S5
  <2>7. Gives(Op(MD, MF), S5, S5 \cup MF)
    BY <2>3, <2>6, StepGives
  <2>8. QED
    BY <2>1, <2>7
<1>17. S6 = Stage3(A, s)
  BY DEF S4, S3, S2, C, M, X, Stage3, Sums
<1> HIDE DEF S5, S6
<1> DEFINE o1 == WindDivergence(s)
           o2 == ZonalMeans(s)
           o3 == ClearCorrections(s)
           o4 == FirstMeridional(s)
<1>18. Gives(o1, S2, S3) /\ Gives(o2, S3, S4) /\ Gives(o3, S4, S5) /\ Gives(o4, S5, S6)
  BY <1>7, <1>11, <1>15, <1>16
<1> HIDE DEF o1, o2, o3, o4
<1>19. IsSeq(<<o1, o2, o3, o4>>) /\ Leads(<<o1, o2, o3, o4>>, S2, S6)
  BY <1>18, LeadsFour
<1>20. QED
  BY <1>17, <1>19 DEF o1, o2, o3, o4, S2

\* The corrections of the first m interior rows.
MmfRows(m) == {j \in Rows : J1P <= j /\ j <= J1P + m}
FixedRows(m) == {j \in Rows : J1P <= j /\ j < J1P + m}
Corrected(A, s, m) ==
  (Sums(A, s) \cup ZeroCaps(s)) \cup Zonal("mmf", s, MmfRows(m)) \cup Fixes(s, FixedRows(m))
NInterior == Cardinality(Interior)
CorrectionLoop(s) == [m \in 1 .. NInterior |-> Corrections(s, J1P + m - 1)]

LEMMA CorrectionRows ==
  /\ NInterior \in Nat /\ NInterior = NLat - 4
  /\ MmfRows(0) = {J1P} /\ FixedRows(0) = {} /\ FluxRows \subseteq MmfRows(NInterior)
  /\ Interior \subseteq FixedRows(NInterior)
  /\ \A m \in 1 .. NInterior : \A j : j = J1P + m - 1 =>
       /\ j \in Interior /\ j \in Rows /\ j \in MmfRows(m - 1)
       /\ MmfRows(m) \subseteq MmfRows(m - 1) \cup {j + 1}
       /\ FixedRows(m) \subseteq FixedRows(m - 1) \cup {j}
PROOF
<1>1. NLat \in Nat /\ NLat >= 9
  BY GridAssumption
<1>2. NInterior = NLat - 4
  <2>1. Cardinality(Interior) = (J2P - J1P) + 1
    <3>1. J1P \in Int /\ J2P \in Int /\ J1P <= J2P
      BY <1>1 DEF J1P, J2P
    <3>2. QED
      BY <3>1, FS_Interval DEF Interior
  <2>2. QED
    BY <1>1, <2>1 DEF NInterior, J1P, J2P
<1>3. MmfRows(0) = {J1P} /\ FixedRows(0) = {} /\ FluxRows \subseteq MmfRows(NInterior)
      /\ Interior \subseteq FixedRows(NInterior)
  BY <1>1, <1>2 DEF MmfRows, FixedRows, FluxRows, Interior, Rows, J1P, J2P
<1>4. ASSUME NEW m \in 1 .. NInterior, NEW j, j = J1P + m - 1
      PROVE  /\ j \in Interior /\ j \in Rows /\ j \in MmfRows(m - 1)
             /\ MmfRows(m) \subseteq MmfRows(m - 1) \cup {j + 1}
             /\ FixedRows(m) \subseteq FixedRows(m - 1) \cup {j}
  BY <1>1, <1>2, <1>4 DEF MmfRows, FixedRows, Interior, Rows, J1P, J2P
<1>5. QED
  BY <1>1, <1>2, <1>3, <1>4

LEMMA CorrectionGives ==
  ASSUME NEW s, NEW A, Given(A, s), NEW j \in Interior, NEW M, j \in M, NEW X, NEW P, NEW Q,
         P = (Sums(A, s) \cup ZeroCaps(s)) \cup Zonal("mmf", s, M) \cup Fixes(s, X),
         Q = (P \cup Zonal("mmf", s, {j + 1})) \cup Fixes(s, {j})
  PROVE  Gives(Corrections(s, j), P, Q)
PROOF
<1> DEFINE S == Sums(A, s)
           Z == ZeroCaps(s)
           F == Zonal("mmf", s, M)
           G == Fixes(s, X)
           T1 == Zonal("mmf", s, {j + 1})
           T2 == Fixes(s, {j})
           J0 == {j}
           K0 == {0}
           D == Zonal("mmfd", s, J0)
           N1 == Zonal("mmf", s, J0) \cup D
           N2 == Mismatch(s, J0) \cup Global("dgpress", s) \cup D
           nf == {"mmf"}
           nx == {"xfix"}
           a == Op(N1, T1)
           b == Op(N2, T2)
           R == P \cup T1
<1>1. Bears(S, SumNames) /\ Bears(Z, nx) /\ Bears(F, nf) /\ Bears(G, nx) /\ Bears(T1, nf) /\ Bears(T2, nx)
  BY SumsBear
<1>2. SumNames \cap nf = {} /\ SumNames \cap nx = {} /\ nf \cap nx = {} /\ nx \cap nf = {}
  BY DEF SumNames, Names1, MassNames, GivenNames
<1>3. Corrections(s, j) = FusedAll(<<a, b>>)
  BY DEF Corrections, Fixes
<1>4. Agrees(F, T1) /\ Agrees(G, T2)
  BY SameAgrees, TermIs DEF Zonal, Fixes, SurfaceAs
<1>5. Agrees(Z, T2)
  <2> DEFINE L == Polar
  <2>1. L \cap J0 = {}
    BY GridIs
  <2> HIDE DEF L, J0, K0
  <2>2. Agrees(TermAs("xfix", "zero", s, K0, L, Cols), TermAs("xfix", "xfix", s, K0, J0, Cols))
    BY <2>1, RowsAgree
  <2>3. QED
    BY <2>2 DEF L, J0, K0, ZeroCaps, Fixes, SurfaceAs
<1>6. J0 \subseteq Rows /\ J0 \subseteq M
  BY GridIs
<1>7. D \subseteq S
  <2> HIDE DEF J0, K0
  <2>1. Term("mmfd", s, K0, J0, K0) \subseteq Term("mmfd", s, K0, Rows, K0)
    BY <1>6, TermPart
  <2>2. D \subseteq Means(s)
    BY <2>1 DEF Zonal, Means, K0
  <2>3. QED
    BY <2>2 DEF Sums
<1>8. N1 \subseteq P
  <2> HIDE DEF J0, K0
  <2>1. Term("mmf", s, K0, J0, K0) \subseteq Term("mmf", s, K0, M, K0)
    BY <1>6, TermPart
  <2>2. Zonal("mmf", s, J0) \subseteq F
    BY <2>1 DEF Zonal, K0
  <2>3. QED
    BY <1>7, <2>2
<1>9. N2 \subseteq P
  <2>1. Global("dgpress", s) \subseteq S
    BY DEF Sums, Means
  <2>2. FixerPressures(s) \subseteq S
    BY DEF Sums, Stage2, Stage1
  <2>3. SurfaceAs("work2", "wind_column", s, J0) \subseteq ColumnSum(s)
    <3> HIDE DEF J0, K0
    <3>1. TermAs("work2", "wind_column", s, K0, J0, Cols) \subseteq TermAs("work2", "wind_column", s, K0, Rows, Cols)
      BY <1>6, TermPart
    <3>2. QED
      BY <3>1 DEF SurfaceAs, ColumnSum, K0
  <2>4. Mismatch(s, J0) \subseteq S
    BY <2>2, <2>3 DEF Mismatch, Sums
  <2>5. QED
    BY <1>7, <2>1, <2>4
<1> HIDE DEF S, Z, F, G, T1, T2, J0, K0, D, N1, N2, nf, nx
<1>10. P = (S \cup Z) \cup F \cup G
  BY DEF S, Z, F, G
<1>11. Gives(a, P, R)
  <2>1. Agrees(S, T1) /\ Agrees(Z, T1) /\ Agrees(G, T1)
    BY <1>1, <1>2, BearsApart
  <2>2. Agrees(S \cup Z, T1)
    BY <2>1, AgreesBoth
  <2>3. Agrees((S \cup Z) \cup F, T1)
    BY <1>4, <2>2, AgreesBoth
  <2>4. Agrees(((S \cup Z) \cup F) \cup G, T1)
    BY <2>1, <2>3, AgreesBoth
  <2>5. Agrees(P, T1) /\ P \subseteq P
    BY <1>10, <2>4
  <2>6. QED
    BY <1>8, <2>5, StepGives
<1>12. Gives(b, R, Q)
  <2>1. Agrees(S, T2) /\ Agrees(F, T2) /\ Agrees(T1, T2)
    BY <1>1, <1>2, BearsApart
  <2>2. Agrees(S \cup Z, T2)
    BY <1>5, <2>1, AgreesBoth
  <2>3. Agrees((S \cup Z) \cup F, T2)
    BY <2>1, <2>2, AgreesBoth
  <2>4. Agrees(((S \cup Z) \cup F) \cup G, T2)
    BY <1>4, <2>3, AgreesBoth
  <2>5. Agrees(R, T2) /\ N2 \subseteq R /\ R \subseteq R
    BY <1>9, <1>10, <2>1, <2>4, AgreesBoth
  <2>6. Q = R \cup T2
    BY DEF T1, T2
  <2> HIDE DEF R
  <2>7. QED
    BY <2>5, <2>6, StepGives
<1> HIDE DEF a, b, R
<1>13. QED
  BY <1>3, <1>11, <1>12, FusedPair

LEMMA CorrectionsLead ==
  ASSUME NEW s, NEW A, Given(A, s)
  PROVE  IsSeq(CorrectionLoop(s)) /\ Leads(CorrectionLoop(s), Stage3(A, s), Corrected(A, s, NInterior))
PROOF
<1> DEFINE n == NInterior
           l == CorrectionLoop(s)
           F == [m \in 0 .. n |-> Corrected(A, s, m)]
<1>1. n \in Nat
  BY CorrectionRows
<1>2. l = [m \in 1 .. n |-> l[m]] /\ \A m \in 1 .. n : l[m] = Corrections(s, J1P + m - 1)
  BY DEF CorrectionLoop
<1> HIDE DEF l, n
<1>3. ASSUME NEW m \in 1 .. n PROVE Gives(l[m], F[m - 1], F[m])
  <2> DEFINE j == J1P + m - 1
             M == MmfRows(m - 1)
             X == FixedRows(m - 1)
             P == Corrected(A, s, m - 1)
             Q == (P \cup Zonal("mmf", s, {j + 1})) \cup Fixes(s, {j})
  <2>1. j \in Interior /\ j \in M /\ MmfRows(m) \subseteq M \cup {j + 1} /\ FixedRows(m) \subseteq X \cup {j}
    BY CorrectionRows DEF n
  <2>2. m - 1 \in 0 .. n /\ m \in 0 .. n
    BY <1>1
  <2>3. F[m - 1] = P /\ F[m] = Corrected(A, s, m) /\ l[m] = Corrections(s, j)
    BY <1>2, <2>2
  <2>4. P = (Sums(A, s) \cup ZeroCaps(s)) \cup Zonal("mmf", s, M) \cup Fixes(s, X)
    BY DEF Corrected
  <2>5. Corrected(A, s, m) \subseteq Q
    <3> DEFINE M1 == MmfRows(m)
               X1 == FixedRows(m)
               j1 == {j + 1}
               j0 == {j}
               K0 == {0}
    <3>1. M1 \subseteq M \cup j1 /\ X1 \subseteq X \cup j0
      BY <2>1
    <3> HIDE DEF M1, X1, j1, j0, K0, M, X, j
    <3>2. TermAs("mmf", "mmf", s, K0, M1, K0) \subseteq
            TermAs("mmf", "mmf", s, K0, M, K0) \cup TermAs("mmf", "mmf", s, K0, j1, K0)
      BY <3>1, TermOverRows
    <3>3. TermAs("xfix", "xfix", s, K0, X1, Cols) \subseteq
            TermAs("xfix", "xfix", s, K0, X, Cols) \cup TermAs("xfix", "xfix", s, K0, j0, Cols)
      BY <3>1, TermOverRows
    <3>4. Zonal("mmf", s, M1) \subseteq Zonal("mmf", s, M) \cup Zonal("mmf", s, j1)
      BY <3>2, TermIs DEF Zonal, K0
    <3>5. Fixes(s, X1) \subseteq Fixes(s, X) \cup Fixes(s, j0)
      BY <3>3 DEF Fixes, SurfaceAs, K0
    <3>6. Q = ((Sums(A, s) \cup ZeroCaps(s)) \cup Zonal("mmf", s, M) \cup Fixes(s, X)
               \cup Zonal("mmf", s, j1)) \cup Fixes(s, j0)
      BY <2>4 DEF j1, j0
    <3>7. Corrected(A, s, m) = (Sums(A, s) \cup ZeroCaps(s)) \cup Zonal("mmf", s, M1) \cup Fixes(s, X1)
      BY DEF Corrected, M1, X1
    <3> HIDE DEF P, Q
    <3>8. QED
      BY <3>4, <3>5, <3>6, <3>7
  <2>6. Q = (P \cup Zonal("mmf", s, {j + 1})) \cup Fixes(s, {j})
    OBVIOUS
  <2> HIDE DEF P, Q, M, X, j, F
  <2>7. Gives(Corrections(s, j), P, Q)
    BY <2>1, <2>4, <2>6, CorrectionGives
  <2>8. QED
    BY <2>3, <2>5, <2>7, GivesWeaker
<1>4. F[n] = Corrected(A, s, n) /\ F[0] \subseteq Stage3(A, s)
  <2>1. 0 \in 0 .. n /\ n \in 0 .. n
    BY <1>1
  <2>2. MmfRows(0) = {J1P} /\ FixedRows(0) = {}
    BY CorrectionRows
  <2> DEFINE e == {}
             j1 == {J1P}
  <2>3. Fixes(s, e) = {}
    BY TermNone DEF Fixes, SurfaceAs
  <2>4. Corrected(A, s, 0) = (Sums(A, s) \cup ZeroCaps(s)) \cup Zonal("mmf", s, j1) \cup Fixes(s, e)
    BY <2>2 DEF Corrected
  <2>5. Stage3(A, s) = (Sums(A, s) \cup ZeroCaps(s)) \cup Zonal("mmf", s, j1)
    BY DEF Stage3
  <2> HIDE DEF j1
  <2>6. Corrected(A, s, 0) = Stage3(A, s)
    BY <2>3, <2>4, <2>5
  <2>7. QED
    BY <2>1, <2>6
<1> HIDE DEF F
<1>5. IsSeq(l) /\ Leads(l, F[0], F[n])
  BY <1>1, <1>2, <1>3, LeadsLoop
<1>6. Leads(l, Stage3(A, s), F[n])
  BY <1>4, <1>5, LeadsWeaker
<1>7. QED
  BY <1>4, <1>5, <1>6 DEF l, n

\* What the rest of the preparation makes is written once a step, and each
\* array then holds the term it is named for.
LaterNames == {"xmass", "ymass", "delp1", "delpm", "delp2", "pu", "cx", "cy", "surface_pressure",
               "wz", "courant", "ua", "va", "jn", "js", "delp_end", "delp_dry_end", "bmass", "dry_mass",
               "pint", "pmid", "tv", "bxheight"}
EarlyNames == GivenNames \cup {"work2", "work3"}
Early(A) == Bears(A, EarlyNames)
Later(T, s) == \A p \in T : p = <<p[1], <<p[1][1][1], s>>>> /\ p[1][1][1] \in LaterNames

LEMMA LaterTerm ==
  ASSUME NEW name \in LaterNames, NEW s
  PROVE  \A K, J, I : Later(Term(name, s, K, J, I), s) /\ Later(Fresh(name, s, K, J, I), s)
PROOF
<1> TAKE K, J, I
<1> DEFINE b == <<name, 0>>
           d == <<name, s>>
           v == <<name, s>>
           T == Term(name, s, K, J, I)
           U == Fresh(name, s, K, J, I)
<1>1. T = At(b, K, J, I) \X {v} /\ U = At(d, K, J, I) \X {v}
  BY DEF Term, Fresh
<1>2. b[1] = name /\ d[1] = name /\ v = <<name, s>>
  OBVIOUS
<1> HIDE DEF b, d, v, T, U
<1>3. Lying(T, b, J, v) /\ Lying(U, d, J, v)
  BY <1>1, AtIs
<1>4. ASSUME NEW p \in T PROVE p = <<p[1], <<p[1][1][1], s>>>> /\ p[1][1][1] \in LaterNames
  BY <1>2, <1>3 DEF Lying
<1>5. ASSUME NEW p \in U PROVE p = <<p[1], <<p[1][1][1], s>>>> /\ p[1][1][1] \in LaterNames
  BY <1>2, <1>3 DEF Lying
<1>6. QED
  BY <1>4, <1>5 DEF Later, T, U

LEMMA LaterBoth ==
  ASSUME NEW s, NEW T, NEW U, Later(T, s), Later(U, s)
  PROVE  Later(T \cup U, s)
PROOF
  BY DEF Later

LEMMA LaterAgrees ==
  ASSUME NEW s, NEW T, NEW U, Later(T, s), Later(U, s)
  PROVE  Agrees(T, U)
PROOF
<1>1. ASSUME NEW p \in T, NEW q \in U, p[1] = q[1] PROVE p = q
  BY <1>1 DEF Later
<1>2. QED
  BY <1>1 DEF Agrees, CellsOf

LEMMA EarlyAgrees ==
  ASSUME NEW s, NEW A, Early(A), NEW U, Later(U, s)
  PROVE  Agrees(A, U)
PROOF
<1>1. EarlyNames \cap LaterNames = {}
  BY DEF EarlyNames, GivenNames, LaterNames
<1>2. Bears(U, LaterNames)
  BY DEF Later, Bears
<1>3. QED
  BY <1>1, <1>2, BearsApart DEF Early

LEMMA LaterGives ==
  ASSUME NEW s, NEW A, Early(A), NEW O, Later(O, s), NEW T, Later(T, s),
         NEW P, NEW S, S \subseteq P, A \cup O \subseteq P
  PROVE  Gives(Op(S, T), P, A \cup (O \cup T)) /\ Later(O \cup T, s)
PROOF
<1>1. Agrees(A, T) /\ Agrees(O, T)
  BY EarlyAgrees, LaterAgrees
<1> DEFINE R == A \cup O
<1>2. Agrees(R, T) /\ R \subseteq P
  BY <1>1, AgreesBoth
<1>3. A \cup (O \cup T) = R \cup T
  OBVIOUS
<1> HIDE DEF R
<1>4. Gives(Op(S, T), P, R \cup T)
  BY <1>2, StepGives
<1>5. QED
  BY <1>3, <1>4, LaterBoth

\* The corrected fluxes, and the pressure terms with the Courant numbers.
Masses(s) == Field("xmass", s) \cup Term("ymass", s, Levels, FluxRows, Cols)
Thicknesses(s) ==
  Field("delp1", s) \cup Field("delpm", s) \cup Field("delp2", s)
    \cup Field("pu", s) \cup Field("cx", s) \cup Field("cy", s)
Sinks(s) ==
  TermAs("work3", "divergence", s, Levels, Rows, Cols) \cup SurfaceAs("work2", "column_divergence", s, Rows)
Stage4(A, s) == A \cup Masses(s)
Stage5(A, s) == A \cup (Masses(s) \cup Thicknesses(s))
Stage6(A, s) == (A \cup Sinks(s)) \cup (Masses(s) \cup Thicknesses(s))
NumbersOf(s) ==
  Term("pu", s, Levels, Interior, Cols) \cup Term("cx", s, Levels, Interior, Cols)
    \cup Term("cy", s, Levels, FluxRows, Cols)

LEMMA MassesLater ==
  ASSUME NEW s
  PROVE  Later(Masses(s), s) /\ Later(Thicknesses(s), s) /\ Later(NumbersOf(s), s)
         /\ Later(Surface("surface_pressure", s), s)
PROOF
<1>1. \A name \in LaterNames : \A K, J, I : Later(Term(name, s, K, J, I), s)
  BY LaterTerm
<1>2. \A name \in LaterNames : Later(Field(name, s), s) /\ Later(Surface(name, s), s)
  BY <1>1 DEF Field, Surface
<1>3. \A name \in {"xmass", "ymass", "delp1", "delpm", "delp2", "pu", "cx", "cy", "surface_pressure"} :
        name \in LaterNames
  BY DEF LaterNames
<1>4. Later(Masses(s), s)
  BY <1>1, <1>2, <1>3, LaterBoth DEF Masses
<1>5. Later(NumbersOf(s), s)
  BY <1>1, <1>3, LaterBoth DEF NumbersOf
<1>6. Later(Thicknesses(s), s)
  <2> DEFINE a == Field("delp1", s)
             b == Field("delpm", s)
             d == Field("delp2", s)
             e == Field("pu", s)
             g == Field("cx", s)
             h == Field("cy", s)
  <2>1. Later(a, s) /\ Later(b, s) /\ Later(d, s) /\ Later(e, s) /\ Later(g, s) /\ Later(h, s)
    BY <1>2, <1>3
  <2>2. Thicknesses(s) = a \cup b \cup d \cup e \cup g \cup h
    BY DEF Thicknesses
  <2> HIDE DEF a, b, d, e, g, h
  <2>3. QED
    BY <2>1, <2>2, LaterBoth
<1>7. QED
  BY <1>2, <1>3, <1>4, <1>5, <1>6

LEMMA GivenEarly ==
  ASSUME NEW A, NEW s, Given(A, s)
  PROVE  Early(A) /\ Bears(A, GivenNames)
PROOF
<1>1. GivenNames \subseteq EarlyNames
  BY DEF EarlyNames
<1>2. QED
  BY <1>1, BearsMore DEF Given, Early

LEMMA ApplyCorrectionsMakes ==
  ASSUME NEW s, NEW A, Given(A, s)
  PROVE  Gives(ApplyCorrections(s), Corrected(A, s, NInterior), Stage4(A, s))
PROOF
<1> DEFINE P == Corrected(A, s, NInterior)
           M == MmfRows(NInterior)
           X == FixedRows(NInterior)
           I0 == Interior
           F0 == FluxRows
           K0 == {0}
           S == WindXmass(s) \cup WindYmass(s, F0) \cup Zonal("mmf", s, F0)
                  \cup SurfaceAs("xfix", "xfix", s, I0) \cup ZeroCaps(s)
           T == Masses(s)
           E == {}
<1>1. ApplyCorrections(s) = Op(S, T)
  BY DEF ApplyCorrections, Masses, ZeroCaps
<1>2. A \subseteq Sums(A, s) /\ WindsOf(s, Levels) \subseteq Sums(A, s)
  BY DEF Sums, Stage2, Stage1
<1>3. P = (Sums(A, s) \cup ZeroCaps(s)) \cup Zonal("mmf", s, M) \cup Fixes(s, X)
  BY DEF Corrected
<1>4. F0 \subseteq M /\ I0 \subseteq X /\ F0 \subseteq Rows
  <2>1. F0 \subseteq Rows
    BY GridAssumption DEF FluxRows, Rows, J1P, J2P
  <2>2. QED
    BY <2>1, CorrectionRows
<1> HIDE DEF P, M, X, I0, F0, K0, T
<1>5. WindXmass(s) \subseteq WindsOf(s, Levels) /\ WindYmass(s, F0) \subseteq WindsOf(s, Levels)
  <2>1. WindYmass(s, F0) \subseteq TermAs("ymass", "wind_ymass", s, Levels, Rows, Cols)
    BY <1>4, TermPart DEF WindYmass
  <2>2. QED
    BY <2>1 DEF WindXmass, WindsOf
<1>6. Zonal("mmf", s, F0) \subseteq Zonal("mmf", s, M)
  <2>1. Term("mmf", s, K0, F0, K0) \subseteq Term("mmf", s, K0, M, K0)
    BY <1>4, TermPart
  <2>2. QED
    BY <2>1 DEF Zonal, K0
<1>7. SurfaceAs("xfix", "xfix", s, I0) \subseteq Fixes(s, X)
  <2>1. TermAs("xfix", "xfix", s, K0, I0, Cols) \subseteq TermAs("xfix", "xfix", s, K0, X, Cols)
    BY <1>4, TermPart
  <2>2. QED
    BY <2>1 DEF SurfaceAs, Fixes, K0
<1>8. S \subseteq P /\ A \cup E \subseteq P
  BY <1>2, <1>3, <1>5, <1>6, <1>7
<1>9. Later(E, s) /\ Later(T, s) /\ Early(A)
  BY MassesLater, GivenEarly DEF Later, T
<1> HIDE DEF S, E
<1>10. Gives(Op(S, T), P, A \cup (E \cup T))
  BY <1>8, <1>9, LaterGives
<1>11. A \cup (E \cup T) = Stage4(A, s)
  BY DEF Stage4, E, T
<1>12. QED
  BY <1>1, <1>10, <1>11 DEF P

LEMMA PlanTermsMake ==
  ASSUME NEW s, NEW A, Given(A, s)
  PROVE  LET Q == Stage4(A, s) \cup PlanPressure(s)
         IN  Gives(PlanPressures(s), Stage4(A, s), Q) /\ Gives(PressureTerms(s), Q, Stage5(A, s))
PROOF
<1> DEFINE P == Stage4(A, s)
           X == PlanPressure(s)
           Q == P \cup X
           M == Masses(s)
           T == Thicknesses(s)
           N == GivenNames \cup LaterNames
<1>1. Bears(P, N) /\ N \cap {"p1", "p2"} = {} /\ Inputs(s) \subseteq P
  <2>1. Bears(M, LaterNames) /\ Bears(A, GivenNames)
    BY MassesLater, GivenEarly DEF Later, Bears
  <2>2. GivenNames \subseteq N /\ LaterNames \subseteq N
    OBVIOUS
  <2>3. N \cap {"p1", "p2"} = {}
    BY DEF GivenNames, LaterNames
  <2> HIDE DEF N, M
  <2>4. Bears(M, N) /\ Bears(A, N)
    BY <2>1, <2>2, BearsMore
  <2>5. QED
    BY <2>3, <2>4, BearsBoth DEF Stage4, M, Given
<1>2. Early(A) /\ Later(M, s) /\ Later(T, s)
  BY GivenEarly, MassesLater
<1>3. PressureTerms(s) = Op(X, T)
  BY DEF PressureTerms, Thicknesses
<1>4. P = A \cup M /\ Stage5(A, s) = A \cup (M \cup T)
  BY DEF Stage4, Stage5
<1> HIDE DEF P, X, M, T, N
<1>5. Gives(PlanPressures(s), P, Q)
  BY <1>1, PlanPressuresMake DEF X
<1>6. X \subseteq Q /\ A \cup M \subseteq Q
  BY <1>4
<1> HIDE DEF Q
<1>7. Gives(Op(X, T), Q, A \cup (M \cup T))
  BY <1>2, <1>6, LaterGives
<1>8. QED
  BY <1>3, <1>4, <1>5, <1>7 DEF Q, P, X

LEMMA RowsOf ==
  Interior \subseteq Rows /\ CapRows \subseteq Rows /\ FluxRows \subseteq Rows /\ {0} \subseteq Rows
  /\ 1 .. NLat - 1 \subseteq Rows /\ {0} \subseteq Cols
PROOF
  BY GridAssumption DEF Interior, CapRows, FluxRows, Rows, Cols, J1P, J2P

LEMMA CourantNumbersMake ==
  ASSUME NEW s, NEW A, Given(A, s)
  PROVE  Gives(CourantNumbers(s), Stage5(A, s), Stage5(A, s))
         /\ Gives(SurfacePressure(s), Stage5(A, s), Stage5(A, s))
PROOF
<1> DEFINE P == Stage5(A, s)
           O == Masses(s) \cup Thicknesses(s)
           J == Interior \cup CapRows
           I0 == Interior
           T == NumbersOf(s)
           S == Term("delpm", s, Levels, J, Cols) \cup Term("xmass", s, Levels, I0, Cols)
                  \cup Term("ymass", s, Levels, FluxRows, Cols)
           U == Surface("surface_pressure", s)
           V == Field("delp2", s)
<1>1. CourantNumbers(s) = Op(S, T) /\ SurfacePressure(s) = Op(V, U)
  BY DEF CourantNumbers, NumbersOf, SurfacePressure
<1>2. Early(A) /\ Later(O, s) /\ Later(T, s) /\ Later(U, s)
  BY GivenEarly, MassesLater, LaterBoth
<1>3. Field("delpm", s) \subseteq P /\ Field("xmass", s) \subseteq P /\ V \subseteq P
      /\ Term("ymass", s, Levels, FluxRows, Cols) \subseteq P
  BY DEF Stage5, Masses, Thicknesses
<1>4. J \subseteq Rows /\ I0 \subseteq Rows
  BY RowsOf
<1>5. P = A \cup O
  BY DEF Stage5
<1> HIDE DEF P, O, J, I0, T, U, V
<1>6. S \subseteq P
  BY <1>3, <1>4, TermPart DEF Field
<1>7. P \subseteq A \cup (O \cup T) /\ P \subseteq A \cup (O \cup U) /\ A \cup O \subseteq P
  BY <1>5
<1> HIDE DEF S
<1>8. Gives(Op(S, T), P, A \cup (O \cup T)) /\ Gives(Op(V, U), P, A \cup (O \cup U))
  BY <1>2, <1>3, <1>6, <1>7, LaterGives
<1> DEFINE X == A \cup (O \cup T)
           Y == A \cup (O \cup U)
<1> HIDE DEF X, Y
<1>9. Gives(Op(S, T), P, P) /\ Gives(Op(V, U), P, P)
  <2>1. P \subseteq X /\ P \subseteq Y /\ P \subseteq P
    BY <1>7 DEF X, Y
  <2>2. QED
    BY <1>8, <2>1, GivesWeaker DEF X, Y
<1>10. QED
  BY <1>1, <1>9 DEF P

LEMMA SinksBear ==
  ASSUME NEW s, NEW A, Given(A, s)
  PROVE  Early(A \cup Sinks(s))
PROOF
<1> DEFINE H == TermAs("work3", "divergence", s, Levels, Rows, Cols)
           C == SurfaceAs("work2", "column_divergence", s, Rows)
           n1 == {"work3"}
           n2 == {"work2"}
<1>1. Bears(H, n1) /\ Bears(C, n2)
  BY TermBears DEF SurfaceAs
<1>2. n1 \subseteq EarlyNames /\ n2 \subseteq EarlyNames
  BY DEF EarlyNames
<1>3. Sinks(s) = H \cup C /\ Early(A)
  BY GivenEarly DEF Sinks
<1> HIDE DEF H, C, n1, n2
<1>4. Bears(H, EarlyNames) /\ Bears(C, EarlyNames)
  BY <1>1, <1>2, BearsMore
<1>5. QED
  BY <1>3, <1>4, BearsBoth DEF Early

LEMMA DivergenceMakes ==
  ASSUME NEW s, NEW A, Given(A, s)
  PROVE  Gives(Divergence(s), Stage5(A, s), Stage6(A, s))
PROOF
<1> DEFINE P == Stage5(A, s)
           O == Masses(s) \cup Thicknesses(s)
           W == Masses(s)
           H == TermAs("work3", "divergence", s, Levels, Rows, Cols)
           C == SurfaceAs("work2", "column_divergence", s, Rows)
           n1 == {"work3"}
           n2 == {"work2"}
           nl == GivenNames \cup LaterNames
           a == Op(W, H)
           b == Op(H, C)
<1>1. Bears(H, n1) /\ Bears(C, n2)
  BY TermBears DEF SurfaceAs
<1>2. n1 \cap n2 = {} /\ nl \cap n1 = {} /\ (nl \cup n1) \cap n2 = {}
  BY DEF GivenNames, LaterNames
<1>3. Bears(P, nl)
  <2>1. Bears(A, GivenNames)
    BY GivenEarly
  <2>2. Later(O, s)
    BY MassesLater, LaterBoth
  <2> HIDE DEF O
  <2>3. Bears(O, LaterNames)
    BY <2>2 DEF Later, Bears
  <2>4. P = A \cup O
    BY DEF O, Stage5
  <2> HIDE DEF P
  <2>5. QED
    BY <2>1, <2>3, <2>4 DEF Bears
<1>4. W \subseteq P
  BY DEF Stage5
<1>5. Divergence(s) = FusedAll(<<a, b>>)
  BY DEF Divergence, Masses
<1>6. Stage6(A, s) = (P \cup H) \cup C
  BY DEF Stage6, Sinks, Stage5
<1> HIDE DEF P, W, H, C, n1, n2, nl, O
<1> DEFINE Q == P \cup H
<1>7. Gives(a, P, Q) /\ Bears(Q, nl \cup n1)
  BY <1>1, <1>2, <1>3, <1>4, GrowGives
<1>8. Gives(b, Q, Q \cup C)
  <2> DEFINE N == nl \cup n1
  <2>1. H \subseteq Q /\ Bears(Q, N) /\ N \cap n2 = {}
    BY <1>2, <1>7
  <2> HIDE DEF N, Q
  <2>2. QED
    BY <1>1, <2>1, GrowGives
<1> DEFINE R == Q \cup C
<1>9. Stage6(A, s) = R
  BY <1>6
<1> HIDE DEF a, b, Q, R
<1>10. Gives(FusedAll(<<a, b>>), P, R)
  BY <1>7, <1>8, FusedPair DEF R
<1>11. QED
  BY <1>5, <1>9, <1>10 DEF P

LEMMA PlanLeads ==
  ASSUME NEW s, NEW A, Given(A, s)
  PROVE  LET l == <<ApplyCorrections(s), PlanPressures(s), PressureTerms(s), CourantNumbers(s),
                    SurfacePressure(s), Divergence(s)>>
         IN  IsSeq(l) /\ Leads(l, Corrected(A, s, NInterior), Stage6(A, s))
PROOF
<1> DEFINE o1 == ApplyCorrections(s)
           o2 == PlanPressures(s)
           o3 == PressureTerms(s)
           o4 == CourantNumbers(s)
           o5 == SurfacePressure(s)
           o6 == Divergence(s)
           P1 == Corrected(A, s, NInterior)
           P2 == Stage4(A, s)
           P3 == Stage4(A, s) \cup PlanPressure(s)
           P4 == Stage5(A, s)
           P5 == Stage6(A, s)
<1>1. Gives(o1, P1, P2) /\ Gives(o2, P2, P3) /\ Gives(o3, P3, P4) /\ Gives(o4, P4, P4)
      /\ Gives(o5, P4, P4) /\ Gives(o6, P4, P5)
  BY ApplyCorrectionsMakes, PlanTermsMake, CourantNumbersMake, DivergenceMakes
<1> HIDE DEF o1, o2, o3, o4, o5, o6, P1, P2, P3, P4, P5
<1>2. IsSeq(<<o1, o2, o3, o4, o5, o6>>) /\ Leads(<<o1, o2, o3, o4, o5, o6>>, P1, P5)
  BY <1>1, LeadsSix
<1>3. QED
  BY <1>2 DEF o1, o2, o3, o4, o5, o6, P1, P5

-----------------------------------------------------------------------------
\* The vertical fluxes of the m highest levels.
Highest(m) == {k \in Levels : k < m}
FluxesOf(s, K) == Term("wz", s, K, Rows, Cols) \cup Term("courant", s, K, Rows, Cols)
FluxLoop(s) == [m \in 1 .. NLev |-> VerticalFlux(s, m - 1)]
Stage7(A, s, K) == (A \cup Sinks(s)) \cup ((Masses(s) \cup Thicknesses(s)) \cup FluxesOf(s, K))

LEMMA HighestIs ==
  /\ Highest(0) = {} /\ Highest(NLev) = Levels
  /\ \A m \in 1 .. NLev : /\ m - 1 \in Levels /\ Highest(m) \subseteq Highest(m - 1) \cup {m - 1}
                          /\ {(m - 1) - 1} \cap Levels \subseteq Highest(m - 1)
                          /\ m - 1 # Bottom => {m - 1, (m - 1) + 1} \subseteq Levels
PROOF
  BY GridAssumption DEF Highest, Levels, Bottom

LEMMA FluxesLater ==
  ASSUME NEW s, NEW K
  PROVE  Later(FluxesOf(s, K), s)
PROOF
<1>1. "wz" \in LaterNames /\ "courant" \in LaterNames
  BY DEF LaterNames
<1>2. Later(Term("wz", s, K, Rows, Cols), s) /\ Later(Term("courant", s, K, Rows, Cols), s)
  BY <1>1, LaterTerm
<1>3. QED
  BY <1>2, LaterBoth DEF FluxesOf

LEMMA FluxLevelGives ==
  ASSUME NEW s, NEW A, Given(A, s), NEW m \in 1 .. NLev, NEW lev, lev = m - 1
  PROVE  Gives(VerticalFlux(s, lev), Stage7(A, s, Highest(lev)), Stage7(A, s, Highest(m)))
PROOF
<1> DEFINE B == A \cup Sinks(s)
           O == Masses(s) \cup Thicknesses(s)
           M == Highest(lev)
           N == Highest(m)
           L == {lev}
           Lup == {lev - 1} \cap Levels
           Ldn == {lev, lev + 1}
           F == FluxesOf(s, M)
           T == FluxesOf(s, L)
           X == FluxesOf(s, N)
           P == B \cup (O \cup F)
           S1 == TermAs("work3", "divergence", s, L, Rows, Cols)
           S2 == SurfaceAs("work2", "column_divergence", s, Rows)
           S3 == Term("wz", s, Lup, Rows, Cols)
           S4 == Term("delp1", s, Ldn, Rows, Cols)
           S == IF lev = Bottom THEN {} ELSE S1 \cup S2 \cup S3 \cup S4
<1>1. VerticalFlux(s, lev) = Op(S, T)
  BY DEF VerticalFlux, FluxesOf
<1>2. lev \in Levels /\ N \subseteq M \cup L /\ Lup \subseteq M /\ (lev # Bottom => Ldn \subseteq Levels)
      /\ L \subseteq Levels
  BY HighestIs
<1>3. Stage7(A, s, M) = P /\ Stage7(A, s, N) = B \cup (O \cup X)
  BY DEF Stage7
<1>4. Early(B) /\ Later(O, s) /\ Later(F, s) /\ Later(T, s)
  BY SinksBear, MassesLater, LaterBoth, FluxesLater
<1>5. /\ TermAs("work3", "divergence", s, Levels, Rows, Cols) \subseteq B /\ S2 \subseteq B
      /\ Field("delp1", s) \subseteq O /\ Term("wz", s, M, Rows, Cols) \subseteq F
  BY DEF Sinks, Thicknesses, FluxesOf
<1>6. X \subseteq F \cup T
  <2> HIDE DEF N, M, L
  <2>1. TermAs("wz", "wz", s, N, Rows, Cols) \subseteq
          TermAs("wz", "wz", s, M, Rows, Cols) \cup TermAs("wz", "wz", s, L, Rows, Cols)
    BY <1>2, TermLevels
  <2>2. TermAs("courant", "courant", s, N, Rows, Cols) \subseteq
          TermAs("courant", "courant", s, M, Rows, Cols) \cup TermAs("courant", "courant", s, L, Rows, Cols)
    BY <1>2, TermLevels
  <2>3. \A name, K : TermAs(name, name, s, K, Rows, Cols) = Term(name, s, K, Rows, Cols)
    BY TermIs
  <2>4. QED
    BY <2>1, <2>2, <2>3 DEF FluxesOf
<1> HIDE DEF B, O, M, N, L, Lup, Ldn, F, T, X, S2
<1>7. S \subseteq P
  <2>1. S1 \subseteq B
    BY <1>2, <1>5, TermPart
  <2>2. S3 \subseteq F
    <3>1. S3 \subseteq Term("wz", s, M, Rows, Cols)
      BY <1>2, TermPart
    <3>2. QED
      BY <1>5, <3>1
  <2>3. ASSUME lev # Bottom PROVE S4 \subseteq O
    <3>1. Ldn \subseteq Levels
      BY <1>2, <2>3
    <3>2. S4 \subseteq Term("delp1", s, Levels, Rows, Cols)
      BY <3>1, TermPart
    <3>3. QED
      BY <1>5, <3>2 DEF Field
  <2> HIDE DEF S1, S3, S4
  <2>4. QED
    BY <1>5, <2>1, <2>2, <2>3
<1> DEFINE U == O \cup F
<1>8. Later(U, s) /\ B \cup U \subseteq P
  BY <1>4, LaterBoth
<1> DEFINE Q == B \cup (U \cup T)
           R == B \cup (O \cup X)
<1>9. R \subseteq Q
  BY <1>6
<1> HIDE DEF S, P, U
<1>10. Gives(Op(S, T), P, Q)
  BY <1>4, <1>7, <1>8, LaterGives
<1> HIDE DEF Q, R
<1>11. Gives(Op(S, T), P, R)
  BY <1>9, <1>10, GivesWeaker
<1>12. QED
  BY <1>1, <1>3, <1>11 DEF R, M, N

LEMMA FluxLoopLeads ==
  ASSUME NEW s, NEW A, Given(A, s)
  PROVE  IsSeq(FluxLoop(s)) /\ Leads(FluxLoop(s), Stage6(A, s), Stage7(A, s, Levels))
PROOF
<1> DEFINE n == NLev
           l == FluxLoop(s)
           F == [m \in 0 .. n |-> Stage7(A, s, Highest(m))]
<1>1. n \in Nat
  BY GridAssumption
<1>2. l = [m \in 1 .. n |-> l[m]] /\ \A m \in 1 .. n : l[m] = VerticalFlux(s, m - 1)
  BY DEF FluxLoop
<1> HIDE DEF l
<1>3. ASSUME NEW m \in 1 .. n PROVE Gives(l[m], F[m - 1], F[m])
  <2> DEFINE lev == m - 1
             P == Stage7(A, s, Highest(lev))
             Q == Stage7(A, s, Highest(m))
  <2>1. lev \in 0 .. n /\ m \in 0 .. n
    BY <1>1
  <2>2. F[m - 1] = P /\ F[m] = Q
    BY <2>1
  <2>3. l[m] = VerticalFlux(s, lev)
    BY <1>2
  <2>4. Gives(VerticalFlux(s, lev), P, Q)
    BY FluxLevelGives
  <2> HIDE DEF P, Q, F, lev
  <2>5. QED
    BY <2>2, <2>3, <2>4
<1>4. F[n] = Stage7(A, s, Levels) /\ F[0] \subseteq Stage6(A, s)
  <2>1. 0 \in 0 .. n /\ n \in 0 .. n
    BY <1>1
  <2> DEFINE e == {}
  <2>2. Highest(0) = e /\ Highest(n) = Levels
    BY HighestIs
  <2>3. FluxesOf(s, e) = {}
    <3>1. TermAs("wz", "wz", s, e, Rows, Cols) = {} /\ TermAs("courant", "courant", s, e, Rows, Cols) = {}
      BY TermNone
    <3>2. QED
      BY <3>1, TermIs DEF FluxesOf
  <2>4. Stage7(A, s, e) \subseteq Stage6(A, s)
    <3> HIDE DEF e
    <3>1. QED
      BY <2>3 DEF Stage7, Stage6
  <2> HIDE DEF e
  <2>5. F[0] = Stage7(A, s, e) /\ F[n] = Stage7(A, s, Levels)
    BY <2>1, <2>2
  <2>6. QED
    BY <2>4, <2>5
<1> HIDE DEF F, n
<1>5. IsSeq(l) /\ Leads(l, F[0], F[n])
  BY <1>1, <1>2, <1>3, LeadsLoop
<1>6. Leads(l, Stage6(A, s), F[n])
  BY <1>4, <1>5, LeadsWeaker
<1>7. QED
  BY <1>4, <1>5, <1>6 DEF l

\* What the preparation leaves besides what it was given, in the order it does.
WindsMade(s) == Field("ua", s) \cup Field("va", s)
Exceeding(s) == Term("jn", s, Levels, {0}, {0}) \cup Term("js", s, Levels, {0}, {0})
Ends(s) == Field("delp_end", s) \cup Field("delp_dry_end", s) \cup Field("bmass", s) \cup DryMass(s)
Geometry(s) ==
  Term("pint", s, Edges, Rows, Cols) \cup Field("pmid", s) \cup Field("tv", s) \cup Field("bxheight", s)
Made7(s) == (Masses(s) \cup Thicknesses(s)) \cup FluxesOf(s, Levels)
Made8(s) == Made7(s) \cup WindsMade(s)
Made9(s) == Made8(s) \cup Exceeding(s)
Made10(s) == Made9(s) \cup Ends(s)
Made(s) == Made10(s) \cup Geometry(s)

LEMMA MadeLater ==
  ASSUME NEW s
  PROVE  /\ Later(WindsMade(s), s) /\ Later(Exceeding(s), s) /\ Later(Ends(s), s) /\ Later(Geometry(s), s)
         /\ Later(Made7(s), s) /\ Later(Made8(s), s) /\ Later(Made9(s), s) /\ Later(Made10(s), s)
         /\ Later(Made(s), s)
PROOF
<1>1. \A name \in LaterNames : \A K, J, I : Later(Term(name, s, K, J, I), s) /\ Later(Fresh(name, s, K, J, I), s)
  BY LaterTerm
<1>2. \A name \in LaterNames : Later(Field(name, s), s)
  BY <1>1 DEF Field
<1>3. \A name \in {"ua", "va", "jn", "js", "delp_end", "delp_dry_end", "bmass", "dry_mass", "pint", "pmid",
                   "tv", "bxheight"} : name \in LaterNames
  BY DEF LaterNames
<1>4. Later(WindsMade(s), s)
  BY <1>2, <1>3, LaterBoth DEF WindsMade
<1>5. Later(Exceeding(s), s)
  BY <1>1, <1>3, LaterBoth DEF Exceeding
<1>6. Later(Ends(s), s)
  <2> DEFINE a == Field("delp_end", s)
             b == Field("delp_dry_end", s)
             d == Field("bmass", s)
             e == DryMass(s)
  <2>1. Later(a, s) /\ Later(b, s) /\ Later(d, s) /\ Later(e, s)
    BY <1>1, <1>2, <1>3 DEF DryMass
  <2>2. Ends(s) = a \cup b \cup d \cup e
    BY DEF Ends
  <2> HIDE DEF a, b, d, e
  <2>3. QED
    BY <2>1, <2>2, LaterBoth
<1>7. Later(Geometry(s), s)
  <2> DEFINE a == Term("pint", s, Edges, Rows, Cols)
             b == Field("pmid", s)
             d == Field("tv", s)
             e == Field("bxheight", s)
  <2>1. Later(a, s) /\ Later(b, s) /\ Later(d, s) /\ Later(e, s)
    BY <1>1, <1>2, <1>3
  <2>2. Geometry(s) = a \cup b \cup d \cup e
    BY DEF Geometry
  <2> HIDE DEF a, b, d, e
  <2>3. QED
    BY <2>1, <2>2, LaterBoth
<1>8. Later(Made7(s), s)
  BY MassesLater, FluxesLater, LaterBoth DEF Made7
<1>9. Later(Made8(s), s)
  BY <1>4, <1>8, LaterBoth DEF Made8
<1>10. Later(Made9(s), s)
  BY <1>5, <1>9, LaterBoth DEF Made9
<1>11. Later(Made10(s), s)
  BY <1>6, <1>10, LaterBoth DEF Made10
<1>12. Later(Made(s), s)
  BY <1>7, <1>11, LaterBoth DEF Made
<1>13. QED
  BY <1>4, <1>5, <1>6, <1>7, <1>8, <1>9, <1>10, <1>11, <1>12

LEMMA CrossingLeads ==
  ASSUME NEW s, NEW A, Given(A, s)
  PROVE  LET l == <<CrossWinds(s), SetJnJs([s |-> s])>>
         IN  IsSeq(l) /\ Leads(l, Stage7(A, s, Levels), A \cup Made9(s))
PROOF
<1> DEFINE P == Stage7(A, s, Levels)
           I0 == Interior
           N0 == 1 .. NLat - 1
           X == Term("cx", s, Levels, I0, Cols)
           Y == Term("cy", s, Levels, N0, Cols)
           S == X \cup Y
           T == WindsMade(s)
           U == Exceeding(s)
           O == Made7(s)
           Q == A \cup (O \cup T)
           R == A \cup ((O \cup T) \cup U)
           o1 == CrossWinds(s)
           o2 == SetJnJs([s |-> s])
<1>1. o1 = Op(S, T) /\ o2 = Op(X, U)
  BY DEF CrossWinds, SetJnJs, WindsMade, Exceeding
<1>2. Early(A) /\ Later(O, s) /\ Later(T, s) /\ Later(U, s)
  BY GivenEarly, MadeLater
<1>3. A \cup O \subseteq P
  BY DEF Stage7, Made7
<1>4. X \subseteq O /\ Y \subseteq O
  <2>1. I0 \subseteq Rows /\ N0 \subseteq Rows
    BY RowsOf
  <2>2. Field("cx", s) \subseteq O /\ Field("cy", s) \subseteq O
    BY DEF Made7, Thicknesses
  <2> HIDE DEF I0, N0, O
  <2>3. QED
    BY <2>1, <2>2, TermPart DEF Field
<1>5. A \cup Made9(s) = R
  BY DEF Made9, Made8
<1> HIDE DEF P, X, Y, T, U, O, I0, N0
<1>6. S \subseteq P /\ X \subseteq Q /\ A \cup (O \cup T) \subseteq Q
  BY <1>3, <1>4
<1> DEFINE V == O \cup T
<1>7. Later(V, s)
  BY <1>2, LaterBoth
<1>8. Gives(Op(S, T), P, Q)
  <2> HIDE DEF S, V
  <2>1. QED
    BY <1>2, <1>3, <1>6, LaterGives
<1>9. Gives(Op(X, U), Q, R)
  <2>1. A \cup V \subseteq Q
    BY <1>6
  <2> HIDE DEF S, V, Q
  <2>2. Gives(Op(X, U), Q, A \cup (V \cup U))
    BY <1>2, <1>6, <1>7, <2>1, LaterGives
  <2>3. QED
    BY <2>2 DEF V
<1> HIDE DEF Q, R, S, o1, o2
<1>10. IsSeq(<<o1, o2>>) /\ Leads(<<o1, o2>>, P, R)
  BY <1>1, <1>8, <1>9, LeadsPair
<1>11. QED
  BY <1>5, <1>10 DEF o1, o2, P

LEMMA ClosingLeads ==
  ASSUME NEW s, NEW A, Given(A, s)
  PROVE  LET l == <<NextDryMass(s), VdiffInputs(s)>>
         IN  IsSeq(l) /\ Leads(l, A \cup Made9(s), A \cup Made(s))
PROOF
<1> DEFINE O == Made9(s)
           P == A \cup O
           S == Surface("p2_input", s)
           X == Surface("wet_pressure", s) \cup Field("t", s) \cup Field("sphu", s)
           T == Ends(s)
           U == Geometry(s)
           V == O \cup T
           Q == A \cup V
           R == A \cup (V \cup U)
           o1 == NextDryMass(s)
           o2 == VdiffInputs(s)
<1>1. o1 = Op(S, T) /\ o2 = Op(X, U)
  BY DEF NextDryMass, VdiffInputs, Ends, Geometry
<1>2. Early(A) /\ Later(O, s) /\ Later(T, s) /\ Later(U, s)
  BY GivenEarly, MadeLater
<1>3. S \subseteq A /\ X \subseteq A
  BY DEF Given, Inputs, ForcingFields
<1>4. A \cup Made(s) = R
  BY DEF Made, Made10
<1> HIDE DEF S, X, T, U, O
<1>5. Later(V, s) /\ S \subseteq P /\ X \subseteq Q
  BY <1>2, <1>3, LaterBoth
<1> HIDE DEF o1, o2
<1>6. Gives(Op(S, T), P, Q)
  <2>1. A \cup O \subseteq P
    OBVIOUS
  <2> HIDE DEF P
  <2>2. Gives(Op(S, T), P, A \cup (O \cup T))
    BY <1>2, <1>5, <2>1, LaterGives
  <2>3. QED
    BY <2>2
<1>7. Gives(Op(X, U), Q, R)
  <2>1. A \cup V \subseteq Q
    OBVIOUS
  <2> HIDE DEF V, Q
  <2>2. QED
    BY <1>2, <1>5, <2>1, LaterGives
<1> HIDE DEF P, Q, R
<1>8. IsSeq(<<o1, o2>>) /\ Leads(<<o1, o2>>, P, R)
  BY <1>1, <1>6, <1>7, LeadsPair
<1>9. QED
  BY <1>4, <1>8 DEF o1, o2, P, O

-----------------------------------------------------------------------------
\* All that one worker does alone, before the diffusion plan is made.
SerialPart(s) ==
  <<Forcing(s), StartingPressure(s)>> \o PrepareTpcoreArrays(s) \o <<NextDryMass(s), VdiffInputs(s)>>

LEMMA SerialLeads ==
  ASSUME NEW s, NEW tracers, Bears(tracers, {"state_a"}), NEW A, A = tracers \cup Inputs(s)
  PROVE  /\ Given(A, s) /\ IsSeq(SerialPart(s))
         /\ Leads(SerialPart(s), tracers \cup DryMass(s - 1), A \cup Made(s))
PROOF
<1> DEFINE P0 == tracers \cup DryMass(s - 1)
           P1 == Stage1(A, s)
           P2 == Stage2(A, s)
           P3 == Stage3(A, s)
           P4 == Corrected(A, s, NInterior)
           P6 == Stage6(A, s)
           P7 == Stage7(A, s, Levels)
           P9 == A \cup Made9(s)
           PE == A \cup Made(s)
           l0 == <<Forcing(s), StartingPressure(s)>>
           l1 == <<PrivatePressures(s)>>
           l2 == WindLoop(s)
           l3 == <<WindDivergence(s), ZonalMeans(s), ClearCorrections(s), FirstMeridional(s)>>
           l4 == CorrectionLoop(s)
           l5 == <<ApplyCorrections(s), PlanPressures(s), PressureTerms(s), CourantNumbers(s),
                   SurfacePressure(s), Divergence(s)>>
           l6 == FluxLoop(s)
           l7 == <<CrossWinds(s), SetJnJs([s |-> s])>>
           l8 == <<NextDryMass(s), VdiffInputs(s)>>
<1>1. Given(A, s) /\ IsSeq(l0) /\ Leads(l0, P0, A)
  BY OpeningLeads
<1>2. IsSeq(l1) /\ Leads(l1, A, P1)
  BY <1>1, PrivatePressuresMake, ListOf DEF Stage1
<1>3. IsSeq(l2) /\ Leads(l2, P1, P2)
  BY <1>1, WindLoopLeads
<1>4. IsSeq(l3) /\ Leads(l3, P2, P3)
  BY <1>1, FixerSumsLead
<1>5. IsSeq(l4) /\ Leads(l4, P3, P4)
  BY <1>1, CorrectionsLead
<1>6. IsSeq(l5) /\ Leads(l5, P4, P6)
  BY <1>1, PlanLeads
<1>7. IsSeq(l6) /\ Leads(l6, P6, P7)
  BY <1>1, FluxLoopLeads
<1>8. IsSeq(l7) /\ Leads(l7, P7, P9)
  BY <1>1, CrossingLeads
<1>9. IsSeq(l8) /\ Leads(l8, P9, PE)
  BY <1>1, ClosingLeads
<1> DEFINE m == (((((l1 \o l2) \o l3) \o l4) \o l5) \o l6) \o l7
<1>10. PrepareTpcoreArrays(s) = m
  BY DEF PrepareTpcoreArrays, WindLoop, CorrectionLoop, NInterior, FluxLoop
<1>11. SerialPart(s) = (l0 \o m) \o l8
  BY <1>10 DEF SerialPart
<1> HIDE DEF P0, P1, P2, P3, P4, P6, P7, P9, PE, l0, l1, l2, l3, l4, l5, l6, l7, l8
<1>12. IsSeq(l1 \o l2) /\ Leads(l1 \o l2, A, P2)
  BY <1>2, <1>3, LeadsThen
<1> DEFINE m2 == l1 \o l2
           m3 == m2 \o l3
           m4 == m3 \o l4
           m5 == m4 \o l5
           m6 == m5 \o l6
<1>13. IsSeq(m3) /\ Leads(m3, A, P3)
  <2> HIDE DEF m2
  <2>1. QED
    BY <1>4, <1>12, LeadsThen DEF m2
<1>14. IsSeq(m4) /\ Leads(m4, A, P4)
  <2> HIDE DEF m3
  <2>1. QED
    BY <1>5, <1>13, LeadsThen
<1>15. IsSeq(m5) /\ Leads(m5, A, P6)
  <2> HIDE DEF m4
  <2>1. QED
    BY <1>6, <1>14, LeadsThen
<1>16. IsSeq(m6) /\ Leads(m6, A, P7)
  <2> HIDE DEF m5
  <2>1. QED
    BY <1>7, <1>15, LeadsThen
<1>17. IsSeq(m) /\ Leads(m, A, P9)
  <2>1. m = m6 \o l7
    OBVIOUS
  <2> HIDE DEF m, m6
  <2>2. QED
    BY <1>8, <1>16, <2>1, LeadsThen
<1> HIDE DEF m
<1> DEFINE h == l0 \o m
<1>18. IsSeq(h) /\ Leads(h, P0, P9)
  BY <1>1, <1>17, LeadsThen
<1>19. SerialPart(s) = h \o l8
  BY <1>11
<1> HIDE DEF h
<1>20. IsSeq(h \o l8) /\ Leads(h \o l8, P0, PE)
  BY <1>9, <1>18, LeadsThen
<1>21. QED
  BY <1>1, <1>19, <1>20 DEF P0, PE

\* What the diffusion plan has on row j, and what of it row j reads.
PlanRow(s, j) == (Coefficients(s, j) \cup CounterGradient(s, j)) \cup Term("sphu_after", s, Levels, {j}, Cols)
Unplanned(P) == \A p \in P : p[1][1][1] \notin PlanNames \cup ScratchNames

LEMMA PlanIn ==
  ASSUME NEW s, NEW j
  PROVE  /\ In(PlanRow(s, j), Zone(PlanArrays, Edges, {j}, Cols))
         /\ Bears(Coefficients(s, j) \cup CounterGradient(s, j), PlanNames \ {"sphu_after"})
         /\ Bears(UndefinedCoefficients(j), PlanNames \ {"sphu_after"})
PROOF
<1> DEFINE z == Zone(PlanArrays, Edges, {j}, Cols)
           names == PlanNames \ {"sphu_after"}
           F == {"cgs", "kvh", "potbar"}
           J0 == {j}
           K0 == {0}
           Kc == Levels \ {0}
           Kz == Levels \ {Bottom}
           T(name, K) == Term(name, s, K, J0, Cols)
<1>1. Levels \subseteq Edges /\ K0 \subseteq Edges /\ Kc \subseteq Edges /\ Kz \subseteq Edges
  BY GridAssumption DEF Levels, Edges, Bottom
<1>2. \A name \in PlanNames : <<name, 0>> \in z.bufs
  BY DEF Zone, PlanArrays
<1>3. z.K = Edges /\ z.J = J0 /\ z.I = Cols
  BY DEF Zone
<1>4. "sphu_after" \in PlanNames /\ names \subseteq PlanNames /\ F \subseteq names
      /\ {"cch", "zeh", "termh", "rpdel", "rrho", "tmp1"} \subseteq names
  BY DEF PlanNames
<1> HIDE DEF z, J0, K0, Kc, Kz
<1>5. \A name, K : Lies(T(name, K), <<name, 0>>, K, J0, Cols)
  BY TermLies
<1>6. ASSUME NEW name \in PlanNames, NEW K, K \subseteq Edges PROVE In(T(name, K), z)
  <2> DEFINE b == <<name, 0>>
             X == T(name, K)
  <2>1. b \in z.bufs /\ Lies(X, b, K, J0, Cols)
    BY <1>2, <1>5
  <2> HIDE DEF b, X
  <2>2. QED
    BY <1>3, <1>6, <2>1 DEF Lies, In, Inside, X
<1>7. \A name \in names : \A K : Bears(T(name, K), names)
  <2>1. \A name, K : Bears(T(name, K), {name})
    BY TermIs
  <2> HIDE DEF names
  <2>2. QED
    BY <2>1 DEF Bears
<1>8. /\ Coefficients(s, j) = T("cch", Kc) \cup T("zeh", Kz) \cup T("termh", Kz)
      /\ CounterGradient(s, j) =
           (((UNION {T(field, Edges) : field \in F}) \cup T("rpdel", Levels)) \cup T("rrho", K0)) \cup T("tmp1", K0)
      /\ Term("sphu_after", s, Levels, {j}, Cols) = T("sphu_after", Levels)
  BY DEF Coefficients, CounterGradient, J0, K0, Kc, Kz
<1> HIDE DEF names, F
<1>9. In(UNION {T(field, Edges) : field \in F}, z) /\ Bears(UNION {T(field, Edges) : field \in F}, names)
  <2>1. \A field \in F : In(T(field, Edges), z) /\ Bears(T(field, Edges), names)
    BY <1>4, <1>6, <1>7
  <2> HIDE DEF T
  <2>2. QED
    BY <2>1 DEF In, Bears
<1> DEFINE U == UNION {T(field, Edges) : field \in F}
           t1 == T("cch", Kc)
           t2 == T("zeh", Kz)
           t3 == T("termh", Kz)
           t4 == T("rpdel", Levels)
           t5 == T("rrho", K0)
           t6 == T("tmp1", K0)
           t7 == T("sphu_after", Levels)
<1>10. /\ In(t1, z) /\ In(t2, z) /\ In(t3, z) /\ In(t4, z) /\ In(t5, z) /\ In(t6, z) /\ In(t7, z)
       /\ Bears(t1, names) /\ Bears(t2, names) /\ Bears(t3, names) /\ Bears(t4, names)
       /\ Bears(t5, names) /\ Bears(t6, names)
  BY <1>1, <1>4, <1>6, <1>7
<1>11. In(U, z) /\ Bears(U, names)
  BY <1>9
<1> HIDE DEF U, t1, t2, t3, t4, t5, t6, t7, T
<1>12. PlanRow(s, j) = ((t1 \cup t2 \cup t3) \cup (((U \cup t4) \cup t5) \cup t6)) \cup t7
  BY <1>8 DEF PlanRow, t1, t2, t3, t4, t5, t6, t7, U
<1>13. Coefficients(s, j) \cup CounterGradient(s, j) = (t1 \cup t2 \cup t3) \cup (((U \cup t4) \cup t5) \cup t6)
  BY <1>8 DEF t1, t2, t3, t4, t5, t6, U
<1>14. In(PlanRow(s, j), z)
  BY <1>10, <1>11, <1>12 DEF In
<1>15. Bears(Coefficients(s, j) \cup CounterGradient(s, j), names)
  BY <1>10, <1>11, <1>13 DEF Bears
<1>16. Bears(UndefinedCoefficients(j), names)
  <2> DEFINE L0 == {0}
             LB == {Bottom}
             b1 == <<"cch", 0>>
             b2 == <<"zeh", 0>>
             b3 == <<"termh", 0>>
             V == {Garbage}
             X == At(b1, L0, J0, Cols)
             Y == At(b2, LB, J0, Cols)
             Z == At(b3, LB, J0, Cols)
  <2>1. b1[1] \in names /\ b2[1] \in names /\ b3[1] \in names
    BY <1>4
  <2>2. UndefinedCoefficients(j) = (X \cup Y \cup Z) \X V
    BY DEF UndefinedCoefficients, J0
  <2>3. (\A x \in X : x[1] = b1) /\ (\A x \in Y : x[1] = b2) /\ (\A x \in Z : x[1] = b3)
    BY DEF At
  <2> HIDE DEF b1, b2, b3, V, X, Y, Z
  <2>4. \A p \in (X \cup Y \cup Z) \X V : p[1] \in X \cup Y \cup Z
    OBVIOUS
  <2>5. QED
    BY <2>1, <2>2, <2>3, <2>4 DEF Bears
<1>17. QED
  BY <1>14, <1>15, <1>16 DEF z, names

LEMMA FusedSeven ==
  ASSUME NEW a, NEW b, NEW d, NEW e, NEW g, NEW h, NEW k,
         NEW P, NEW Q, NEW R, NEW S, NEW T, NEW U, NEW V, NEW W,
         Gives(a, P, Q), Gives(b, Q, R), Gives(d, R, S), Gives(e, S, T), Gives(g, T, U), Gives(h, U, V),
         Gives(k, V, W)
  PROVE  Gives(FusedAll(<<a, b, d, e, g, h, k>>), P, W)
PROOF
<1> DEFINE l == <<a, b, d, e, g, h>>
           m == <<k>>
           n == <<a, b, d, e, g, h, k>>
<1>1. IsSeq(l) /\ Leads(l, P, V)
  BY LeadsSix
<1>2. IsSeq(m) /\ Leads(m, V, W)
  BY ListOf
<1>3. n = l \o m
  OBVIOUS
<1> HIDE DEF l, m, n
<1>4. IsSeq(n) /\ Leads(n, P, W)
  BY <1>1, <1>2, <1>3, LeadsThen
<1>5. Gives(FusedAll(n), P, W)
  BY <1>4, FusedAllGives
<1>6. QED
  BY <1>5 DEF n

\* The row, from the forcing on it through the scratch of whoever makes it.
LEMMA PlanRowGives ==
  ASSUME NEW s, NEW w, NEW j, NEW P, Unplanned(P), VdiffMeteorology(s, j) \subseteq P
  PROVE  Gives(VdiffPlanRow(s, w, j), P, PlanRow(s, j))
PROOF
<1> DEFINE M == VdiffMeteorology(s, j)
           R(name) == RowScratch(name, s, w, j)
           r1 == R("thp_zm_rpdel")
           r2 == R("kvf")
           r3 == R("kvh_cgs")
           r4 == R("potbar_shmx")
           r5 == R("cch_zeh_termh")
           CG == Coefficients(s, j) \cup CounterGradient(s, j)
           UN == UndefinedCoefficients(j)
           SP == Term("sphu_after", s, Levels, {j}, Cols)
           C == Coefficients(s, j) \cup UN \cup CounterGradient(s, j)
           S3 == UNION {R(name) : name \in {"kvh_cgs", "thp_zm_rpdel", "potbar_shmx"}}
           S4 == UNION {R(name) : name \in {"kvh_cgs", "thp_zm_rpdel", "potbar_shmx", "cch_zeh_termh"}}
           a == VdiffColumns(s, w, j)
           b == VdiffFreeDiffusivity(s, w, j)
           d == VdiffPblDiffusivity(s, w, j)
           e == VdiffScalarSource(s, w, j)
           g == VdiffRecurrence(s, w, j)
           h == CapturePlan(s, w, j)
           k == SolveHumidity(s, w, j)
           names == PlanNames \ {"sphu_after"}
<1>1. /\ a = Op(M, r1) /\ b = Op(r1 \cup M, r2) /\ d = Op(r2 \cup r1 \cup M, r3)
      /\ e = Op(r3 \cup r1 \cup M, r4) /\ g = Op(S3, r5) /\ h = Op(S4, C) /\ k = Op(r4 \cup r5, SP)
  BY DEF VdiffColumns, VdiffFreeDiffusivity, VdiffPblDiffusivity, VdiffScalarSource, VdiffRecurrence,
         CapturePlan, SolveHumidity
<1>2. VdiffPlanRow(s, w, j) = FusedAll(<<a, b, d, e, g, h, k>>)
  BY DEF VdiffPlanRow
<1>3. S3 \subseteq r1 \cup r3 \cup r4 /\ S4 \subseteq r1 \cup r3 \cup r4 \cup r5
  BY DEF R
<1>4. /\ \A p \in r1 : p[1][1][1] = "thp_zm_rpdel"
      /\ \A p \in r2 : p[1][1][1] = "kvf"
      /\ \A p \in r3 : p[1][1][1] = "kvh_cgs"
      /\ \A p \in r4 : p[1][1][1] = "potbar_shmx"
      /\ \A p \in r5 : p[1][1][1] = "cch_zeh_termh"
  BY RowScratchNamed
<1>5. \A name \in {"thp_zm_rpdel", "kvf", "kvh_cgs", "potbar_shmx", "cch_zeh_termh"} :
        NoName(P, name)
  BY DEF Unplanned, NoName, ScratchNames
<1> DEFINE n1 == "thp_zm_rpdel"
<1>17. /\ NoName(P, n1) /\ NoName(P, "kvf") /\ NoName(P, "kvh_cgs") /\ NoName(P, "potbar_shmx")
       /\ NoName(P, "cch_zeh_termh") /\ \A p \in r1 : p[1][1][1] = n1
       /\ n1 # "kvf" /\ n1 # "kvh_cgs" /\ n1 # "potbar_shmx" /\ n1 # "cch_zeh_termh"
  BY <1>4, <1>5
<1>6. "sphu_after" \notin names /\ "potbar_shmx" \notin names /\ "cch_zeh_termh" \notin names
  BY DEF PlanNames
<1>7. Bears(CG, names) /\ Bears(UN, names) /\ C = CG \cup UN /\ PlanRow(s, j) = CG \cup SP
      /\ Bears(SP, {"sphu_after"})
  BY PlanIn, TermIs DEF PlanRow
<1> HIDE DEF M, R, r1, r2, r3, r4, r5, CG, UN, SP, C, S3, S4, a, b, d, e, g, h, k, names
<1> DEFINE P1 == P \cup r1
           P2 == P1 \cup r2
           P3 == P2 \cup r3
           P4 == P3 \cup r4
           P5 == P4 \cup r5
           P6 == (r4 \cup r5) \cup C
<1>8. Gives(a, P, P1) /\ NoName(P1, "kvf") /\ NoName(P1, "kvh_cgs") /\ NoName(P1, "potbar_shmx")
      /\ NoName(P1, "cch_zeh_termh")
  <2>1. M \subseteq P
    BY DEF M
  <2> HIDE DEF n1
  <2>2. Gives(Op(M, r1), P, P1) /\ \A other : other # n1 /\ NoName(P, other) => NoName(P1, other)
    BY <1>17, <2>1, ScratchGives
  <2>3. QED
    BY <1>1, <1>17, <2>2
<1>9. Gives(b, P1, P2) /\ NoName(P2, "kvh_cgs") /\ NoName(P2, "potbar_shmx") /\ NoName(P2, "cch_zeh_termh")
  <2>1. r1 \cup M \subseteq P1
    BY DEF M
  <2> HIDE DEF P1
  <2>2. QED
    BY <1>1, <1>4, <1>8, <2>1, ScratchGives
<1>10. Gives(d, P2, P3) /\ NoName(P3, "potbar_shmx") /\ NoName(P3, "cch_zeh_termh")
  <2>1. r2 \cup r1 \cup M \subseteq P2
    BY DEF M
  <2> HIDE DEF P2
  <2>2. QED
    BY <1>1, <1>4, <1>9, <2>1, ScratchGives
<1>11. Gives(e, P3, P4) /\ NoName(P4, "cch_zeh_termh")
  <2>1. r3 \cup r1 \cup M \subseteq P3
    BY DEF M
  <2> HIDE DEF P3
  <2>2. QED
    BY <1>1, <1>4, <1>10, <2>1, ScratchGives
<1>12. Gives(g, P4, P5)
  <2>1. S3 \subseteq P4
    BY <1>3
  <2> HIDE DEF P4
  <2>2. QED
    BY <1>1, <1>4, <1>11, <2>1, ScratchGives
<1>13. Gives(h, P5, P6)
  <2> DEFINE SC == r4 \cup r5
  <2>1. S4 \subseteq P5 /\ SC \subseteq P5
    BY <1>3
  <2>2. \A p \in SC : p[1] \notin CellsOf(C)
    BY <1>4, <1>6, <1>7 DEF Bears, CellsOf
  <2> HIDE DEF P5, SC
  <2>3. Gives(Op(S4, C), P5, SC \cup C)
    BY <2>1, <2>2, GivesWith
  <2>4. QED
    BY <1>1, <2>3 DEF SC
<1>14. Gives(k, P6, CG \cup SP)
  <2> DEFINE SC == r4 \cup r5
  <2>1. SC \subseteq P6 /\ CG \subseteq P6
    BY <1>7
  <2>2. \A p \in CG : p[1] \notin CellsOf(SP)
    BY <1>6, <1>7 DEF Bears, CellsOf
  <2> HIDE DEF P6, SC
  <2>3. Gives(Op(SC, SP), P6, CG \cup SP)
    BY <2>1, <2>2, GivesWith
  <2>4. QED
    BY <1>1, <2>3 DEF SC
<1> DEFINE Q == CG \cup SP
<1> HIDE DEF P1, P2, P3, P4, P5, P6, Q
<1>15. Gives(FusedAll(<<a, b, d, e, g, h, k>>), P, Q)
  BY <1>8, <1>9, <1>10, <1>11, <1>12, <1>13, <1>14, FusedSeven DEF Q
<1>16. QED
  BY <1>2, <1>7, <1>15 DEF Q

PlanOf(s) == UNION {PlanRow(s, j) : j \in Rows}
PlanZones == RowZones(Rows, PlanArrays, Edges, Cols)

LEMMA PlanLaid ==
  ASSUME NEW team, Team(team), NEW s
  PROVE  /\ Rows \in SUBSET Nat /\ IsFiniteSet(Rows)
         /\ Zoned(PlanZones, Rows, PlanArrays) /\ Owned(PlanArrays, PlanNames \cup ScratchNames)
         /\ Laid(PlanRegion(team, s), team, Rows, PlanZones, PlanArrays, PlanNames \cup ScratchNames)
PROOF
<1> DEFINE iters == Rows
           r == PlanRegion(team, s)
           zone == RowZones(iters, PlanArrays, Edges, Cols)
           names == PlanNames \cup ScratchNames
<1>1. iters \in SUBSET Nat /\ IsFiniteSet(iters) /\ iters \subseteq Rows
  BY Iterations
<1>2. r = [t \in 1 .. Len(team) |-> [x \in 1 .. Len(Shares(iters, Len(team))[t]) |->
             VdiffPlanRow(s, team[t], Shares(iters, Len(team))[t][x])]]
  BY DEF Loop, PlanRegion
<1>3. Owned(PlanArrays, names)
  <2>1. PlanNames \cap ScratchNames = {}
    BY DEF PlanNames, ScratchNames
  <2>2. \A buf \in PlanArrays : buf[1] \in PlanNames
    BY DEF PlanArrays
  <2>3. QED
    BY <2>1, <2>2 DEF Owned
<1>4. zone = PlanZones
  BY DEF PlanZones
<1> HIDE DEF r, iters
<1>5. Zoned(zone, iters, PlanArrays)
  BY <1>1, RowsZoned
<1>6. \A w, x : x \in iters =>
        Confined(VdiffPlanRow(s, w, x), w, zone[x], PlanArrays, names)
  BY <1>1, VdiffPlanConfined DEF RowZones
<1> HIDE DEF zone, names
<1>7. Laid(r, team, iters, zone, PlanArrays, names)
  BY <1>1, <1>2, <1>6, ShareIn DEF Laid
<1>8. QED
  BY <1>1, <1>3, <1>4, <1>5, <1>7 DEF r, iters, names

LEMMA PlanMakes ==
  ASSUME NEW team, Team(team), NEW s, NEW P, Unplanned(P),
         \A j \in Rows : VdiffMeteorology(s, j) \subseteq P
  PROVE  /\ IsSeq(PrepareVdiffMetPlan(team, s))
         /\ Flows(PrepareVdiffMetPlan(team, s), Len(team), P, P \cup PlanOf(s))
PROOF
<1> DEFINE iters == Rows
           zone == PlanZones
           n == Len(team)
           r == PlanRegion(team, s)
           names == PlanNames \cup ScratchNames
           M == [x \in iters |-> PlanRow(s, x)]
<1>1. /\ iters \in SUBSET Nat /\ IsFiniteSet(iters) /\ Zoned(zone, iters, PlanArrays)
      /\ Owned(PlanArrays, names) /\ Laid(r, team, iters, zone, PlanArrays, names)
  BY PlanLaid
<1>2. r = [t \in 1 .. n |-> [x \in 1 .. Len(Shares(iters, n)[t]) |->
             VdiffPlanRow(s, team[t], Shares(iters, n)[t][x])]]
  BY DEF Loop, PlanRegion
<1>3. PrepareVdiffMetPlan(team, s) = <<r>>
  BY DEF PrepareVdiffMetPlan, PlanRegion
<1>4. \A w : \A x \in iters : Gives(VdiffPlanRow(s, w, x), P, M[x])
  <2> TAKE w
  <2> TAKE x \in iters
  <2>1. Gives(VdiffPlanRow(s, w, x), P, PlanRow(s, x))
    BY PlanRowGives
  <2>2. QED
    BY <2>1
<1>5. \A x \in iters : zone[x] = Zone(PlanArrays, Edges, {x}, Cols)
  BY DEF PlanZones, RowZones
<1>6. \A x \in iters : In(M[x], zone[x])
  BY <1>5, PlanIn
<1>7. UNION {M[x] : x \in iters} = PlanOf(s)
  BY DEF PlanOf
<1> HIDE DEF r, n, zone, iters, M, names
<1>8. \A t \in 1 .. n : \A a \in 1 .. Len(Shares(iters, n)[t]) :
        Gives(r[t][a], P, M[Shares(iters, n)[t][a]])
  BY <1>1, <1>2, <1>4, ShareIn DEF n
<1>9. Plain(P) /\ P \subseteq Aside(P, zone, iters)
  <2>1. \A buf \in PlanArrays : buf[1] \in PlanNames
    BY DEF PlanArrays
  <2>2. ASSUME NEW x \in iters PROVE zone[x].bufs = PlanArrays
    <3> DEFINE X == {x}
    <3>1. zone[x] = Zone(PlanArrays, Edges, X, Cols)
      BY <1>5
    <3> HIDE DEF X
    <3>2. QED
      BY <3>1 DEF Zone
  <2>3. QED
    BY <2>1, <2>2 DEF Plain, Unplanned, Aside, Inside
<1>10. Passes(r, n, P, Aside(P, zone, iters) \cup UNION {M[x] : x \in iters})
  <2>1. \A x \in iters : \A p \in M[x] : Inside(p[1], zone[x])
    BY <1>6 DEF In
  <2>2. QED
    BY <1>1, <1>8, <1>9, <2>1, LoopPasses DEF n
<1>11. P \cup PlanOf(s) \subseteq Aside(P, zone, iters) \cup UNION {M[x] : x \in iters}
  BY <1>7, <1>9
<1>12. Passes(r, n, P, P \cup PlanOf(s))
  BY <1>10, <1>11, PassesWeaker
<1>13. QED
  BY <1>3, <1>12, FlowsOne DEF n

-----------------------------------------------------------------------------
(* The whole preparation.                                                  *)

FluxesFor(s, blocks) == UNION {Piece("surface_flux", b, <<"surface_flux", s, b>>) : b \in blocks}
Furnished(tracers, s) == (tracers \cup Inputs(s)) \cup Made(s)
AtHand(tracers, s, blocks) == (Furnished(tracers, s) \cup PlanOf(s)) \cup FluxesFor(s, blocks)

LEMMA FurnishedIs ==
  ASSUME NEW s, NEW tracers, Bears(tracers, {"state_a"})
  PROVE  /\ Unplanned(Furnished(tracers, s))
         /\ \A j \in Rows : VdiffMeteorology(s, j) \subseteq Furnished(tracers, s)
         /\ Bears(Furnished(tracers, s), GivenNames \cup LaterNames)
PROOF
<1> DEFINE A == tracers \cup Inputs(s)
           N == GivenNames \cup LaterNames
           F == Furnished(tracers, s)
<1>1. Bears(A, GivenNames)
  BY OpeningLeads DEF Given
<1>2. Bears(Made(s), LaterNames)
  BY MadeLater DEF Later, Bears
<1>3. N \cap (PlanNames \cup ScratchNames) = {}
  BY DEF GivenNames, LaterNames, PlanNames, ScratchNames
<1>4. F = A \cup Made(s)
  BY DEF Furnished
<1> HIDE DEF A, F
<1>5. Bears(F, N)
  BY <1>1, <1>2, <1>4 DEF Bears
<1> HIDE DEF N
<1>6. Unplanned(F)
  BY <1>3, <1>5 DEF Bears, Unplanned
<1>7. ASSUME NEW j \in Rows PROVE VdiffMeteorology(s, j) \subseteq F
  <2> DEFINE J == {j}
             K0 == {0}
             names == {"u", "v", "t", "sphu", "pmid", "tv", "bxheight"}
             X == UNION {Term(field, s, Levels, J, Cols) : field \in names}
             Y == Term("pint", s, Edges, J, Cols)
             Z == Term("surface_met", s, K0, J, Cols)
  <2>1. VdiffMeteorology(s, j) = X \cup Y \cup Z
    BY DEF VdiffMeteorology
  <2>2. \A field \in names : Field(field, s) \subseteq F
    BY <1>4 DEF A, Inputs, ForcingFields, Made, Geometry
  <2>3. Term("pint", s, Edges, Rows, Cols) \subseteq F /\ Term("surface_met", s, K0, Rows, Cols) \subseteq F
    BY <1>4 DEF A, Inputs, Surface, Made, Geometry
  <2>4. J \subseteq Rows
    OBVIOUS
  <2> HIDE DEF J, K0, names, Y, Z
  <2>5. Y \subseteq F /\ Z \subseteq F
    <3>1. Y \subseteq Term("pint", s, Edges, Rows, Cols) /\ Z \subseteq Term("surface_met", s, K0, Rows, Cols)
      BY <2>4, TermPart DEF Y, Z
    <3>2. QED
      BY <2>3, <3>1
  <2>6. \A field \in names : Term(field, s, Levels, J, Cols) \subseteq F
    BY <2>2, <2>4, TermPart DEF Field
  <2>7. QED
    BY <2>1, <2>5, <2>6
<1>8. QED
  BY <1>5, <1>6, <1>7 DEF F, N

LEMMA PreparationMakes ==
  ASSUME NEW team, Team(team), NEW s, NEW blocks, NEW tracers, Bears(tracers, {"state_a"})
  PROVE  LET p == PrepareTransportStep(team, s, blocks)
         IN  IsSeq(p) /\ Flows(p, Len(team), tracers \cup DryMass(s - 1), AtHand(tracers, s, blocks))
PROOF
<1> DEFINE n == Len(team)
           l == SerialPart(s)
           a == [x \in 1 .. Len(l) |-> Once(team, l[x])]
           b == PrepareVdiffMetPlan(team, s)
           op == SurfaceFlux(s, blocks)
           d == <<Once(team, op)>>
           P == tracers \cup DryMass(s - 1)
           F == Furnished(tracers, s)
           G == F \cup PlanOf(s)
           T == FluxesFor(s, blocks)
           R == AtHand(tracers, s, blocks)
<1>1. PrepareTransportStep(team, s, blocks) = (a \o b) \o d
  BY DEF PrepareTransportStep, SerialPart
<1>2. IsSeq(l) /\ Leads(l, P, F)
  BY SerialLeads DEF Furnished
<1>3. IsSeq(a) /\ Flows(a, n, P, F)
  <2> HIDE DEF l, P, F
  <2>1. QED
    BY <1>2, SerialFlows
<1>4. IsSeq(b) /\ Flows(b, n, F, G)
  BY FurnishedIs, PlanMakes
<1>5. Gives(op, G, R)
  <2> DEFINE E == {}
             N == (GivenNames \cup LaterNames) \cup PlanNames
             nf == {"surface_flux"}
  <2>1. op = Op(E, T)
    BY DEF SurfaceFlux, FluxesFor
  <2>2. Bears(T, nf)
    <3>1. \A x \in blocks : \A p \in Piece("surface_flux", x, <<"surface_flux", s, x>>) : p[1][1] = <<"surface_flux", x>>
      BY DEF Piece
    <3>4. \A x : <<"surface_flux", x>>[1] = "surface_flux"
      OBVIOUS
    <3>5. \A x \in blocks : \A p \in Piece("surface_flux", x, <<"surface_flux", s, x>>) :
            p[1][1][1] = "surface_flux"
      BY <3>1, <3>4
    <3>2. \A p \in T : p[1][1][1] = "surface_flux"
      BY <3>5 DEF FluxesFor
    <3>3. QED
      BY <3>2 DEF Bears
  <2>3. N \cap nf = {}
    BY DEF GivenNames, LaterNames, PlanNames
  <2>4. Bears(PlanOf(s), PlanNames)
    <3>1. \A buf \in PlanArrays : buf[1] \in PlanNames
      BY DEF PlanArrays
    <3>2. \A x \in Rows : In(PlanRow(s, x), Zone(PlanArrays, Edges, {x}, Cols))
      BY PlanIn
    <3>3. \A x \in Rows : \A p \in PlanRow(s, x) : p[1][1] \in PlanArrays
      BY <3>2 DEF In, Inside, Zone
    <3>4. QED
      BY <3>1, <3>3 DEF PlanOf, Bears
  <2>5. Bears(F, GivenNames \cup LaterNames)
    BY FurnishedIs
  <2> HIDE DEF F, nf, T, op
  <2>6. Bears(G, N)
    BY <2>4, <2>5 DEF Bears
  <2> HIDE DEF N, G
  <2>7. Agrees(G, T) /\ E \subseteq G /\ G \subseteq G
    BY <2>2, <2>3, <2>6, BearsApart
  <2>8. R = G \cup T
    BY DEF AtHand, G, F, T
  <2> HIDE DEF R, E
  <2>9. Gives(Op(E, T), G, G \cup T)
    BY <2>7, StepGives
  <2>10. QED
    BY <2>1, <2>8, <2>9
<1>6. IsSeq(d) /\ Flows(d, n, G, R)
  <2> HIDE DEF op, G, R
  <2>1. Passes(Once(team, op), n, G, R)
    BY <1>5, OncePasses
  <2>2. QED
    BY <2>1, FlowsOne
<1> HIDE DEF a, b, d, P, F, G, R, n
<1>7. IsSeq(a \o b) /\ Flows(a \o b, n, P, G)
  BY <1>3, <1>4, FlowsThen
<1> DEFINE m == a \o b
<1> HIDE DEF m
<1>8. IsSeq(m \o d) /\ Flows(m \o d, n, P, R)
  BY <1>6, <1>7, FlowsThen DEF m
<1>9. QED
  BY <1>1, <1>8 DEF m, P, R, n

LEMMA RowOfEach ==
  ASSUME NEW b, NEW K, NEW J, NEW I, NEW v
  PROVE  \A p \in At(b, K, J, I) \X {v} : \E j \in J : p \in At(b, K, {j}, I) \X {v}
PROOF
<1> DEFINE A == At(b, K, J, I)
           B(j) == At(b, K, {j}, I)
<1>1. \A x \in A : \E j \in J : x \in B(j)
  BY DEF At
<1> HIDE DEF A, B
<1>2. \A p \in A \X {v} : \E j \in J : p \in B(j) \X {v}
  BY <1>1
<1>3. QED
  BY <1>2 DEF A, B

LEMMA AtHandPrepared ==
  ASSUME NEW s, NEW tracers, NEW blocks
  PROVE  LET P == AtHand(tracers, s, blocks)
         IN  AllPrepared(P, s, blocks) /\ tracers \subseteq P /\ Reported(s) \subseteq P /\ DryMass(s) \subseteq P
PROOF
<1> DEFINE P == AtHand(tracers, s, blocks)
<1>1. Made(s) \subseteq P /\ Inputs(s) \subseteq P /\ PlanOf(s) \subseteq P /\ FluxesFor(s, blocks) \subseteq P
      /\ tracers \subseteq P
  BY DEF AtHand, Furnished
<1>2. \A j \in Rows : PlanRow(s, j) \subseteq P
  BY <1>1 DEF PlanOf
<1> HIDE DEF P
<1>3. Made7(s) \subseteq P /\ WindsMade(s) \subseteq P /\ Exceeding(s) \subseteq P /\ Ends(s) \subseteq P
  BY <1>1 DEF Made, Made10, Made9, Made8
<1>4. Masses(s) \subseteq P /\ Thicknesses(s) \subseteq P /\ FluxesOf(s, Levels) \subseteq P
  BY <1>3 DEF Made7
<1>5. Planned(P, s)
  <2>1. /\ Field("delp1", s) \subseteq P /\ Field("delp2", s) \subseteq P /\ Field("cx", s) \subseteq P
        /\ Field("cy", s) \subseteq P /\ Field("pu", s) \subseteq P /\ Field("ua", s) \subseteq P
        /\ Field("va", s) \subseteq P /\ Field("xmass", s) \subseteq P /\ Field("wz", s) \subseteq P
        /\ Field("courant", s) \subseteq P
    BY <1>3, <1>4 DEF Thicknesses, WindsMade, Masses, FluxesOf, Field
  <2>2. QED
    BY <1>3, <1>4, <2>1 DEF Planned, WindFields, Masses, Exceeding
<1>6. \A j \in Rows : Coefficients(s, j) \subseteq P /\ CounterGradient(s, j) \subseteq P
  BY <1>2 DEF PlanRow
<1>7. DryMass(s) \subseteq P
  BY <1>3 DEF Ends
<1>8. \A b \in blocks : Piece("surface_flux", b, <<"surface_flux", s, b>>) \subseteq P
  BY <1>1 DEF FluxesFor
<1>9. \A name \in MetFields : Field(name, s) \subseteq P
  <2>1. /\ Field("cmfmc", s) \subseteq P /\ Field("dtrain", s) \subseteq P /\ Field("dqrcu", s) \subseteq P
        /\ Field("reevapcn", s) \subseteq P
    BY <1>1 DEF Inputs, ForcingFields
  <2>2. Field("delp_end", s) \subseteq P /\ Field("delp_dry_end", s) \subseteq P /\ Field("bmass", s) \subseteq P
    BY <1>3 DEF Ends
  <2>3. QED
    BY <2>1, <2>2 DEF MetFields
<1>10. AllPrepared(P, s, blocks)
  BY <1>5, <1>6, <1>7, <1>8, <1>9 DEF AllPrepared, Prepared
<1>11. Field("sphu_after", s) \subseteq P
  <2>1. \A j \in Rows : Term("sphu_after", s, Levels, {j}, Cols) \subseteq P
    BY <1>2 DEF PlanRow
  <2> DEFINE v == <<"sphu_after", s>>
             b == <<"sphu_after", 0>>
  <2>2. /\ Field("sphu_after", s) = At(b, Levels, Rows, Cols) \X {v}
        /\ \A j : Term("sphu_after", s, Levels, {j}, Cols) = At(b, Levels, {j}, Cols) \X {v}
    BY DEF Field, Term
  <2> HIDE DEF v, b
  <2>3. \A p \in At(b, Levels, Rows, Cols) \X {v} : \E j \in Rows : p \in At(b, Levels, {j}, Cols) \X {v}
    BY RowOfEach
  <2>4. QED
    BY <2>1, <2>2, <2>3
<1>12. Reported(s) \subseteq P
  <2>1. Field("delp_end", s) \subseteq P
    BY <1>3 DEF Ends
  <2>2. QED
    BY <1>7, <1>11, <2>1 DEF Reported
<1>13. QED
  BY <1>1, <1>7, <1>10, <1>12 DEF P

-----------------------------------------------------------------------------
(* A step of the executor.                                                 *)

\* The tracers of a resident job are in its first buffers.
LEMMA InFirstBuffers ==
  ASSUME NEW j, j.execution \in ResidentPolicies, NEW s, NEW B, B = 1 .. j.blocks
  PROVE  \A p : p \in Tracers(j, s) <=>
           \E b \in B : p \in Hold(<<"state_a", b>>, Levels, Rows, Cols, "convected", [s |-> s, b |-> b])
PROOF
<1> DEFINE H(b) == Hold(<<"state_a", b>>, Levels, Rows, Cols, "convected", [s |-> s, b |-> b])
           G(b) == Hold(TracersAt(j, s, b), Levels, Rows, Cols, "convected", [s |-> s, b |-> b])
<1>1. \A b : TracersAt(j, s, b) = <<"state_a", b>>
  BY DEF TracersAt, ResidentPolicies
<1>2. \A b : G(b) = H(b)
  BY <1>1
<1>3. Tracers(j, s) = UNION {G(b) : b \in B}
  BY DEF Tracers
<1> HIDE DEF G, H
<1>4. \A p : p \in Tracers(j, s) <=> \E b \in B : p \in H(b)
  BY <1>2, <1>3
<1>5. QED
  BY <1>4 DEF H

\* Each block reads them there and leaves them there.
LEMMA ResidentTracers ==
  ASSUME NEW j, j.execution \in ResidentPolicies, NEW s, NEW B, B = 1 .. j.blocks
  PROVE  /\ \A p \in Tracers(j, s) : \E b \in B : p \in Leaves(j, s, b)
         /\ \A b \in B : Enters(j, s, b) \subseteq Tracers(j, s - 1)
         /\ \A p \in Tracers(j, s) : p[1][1][1] = "state_a"
PROOF
<1> DEFINE H(r, b) == Hold(<<"state_a", b>>, Levels, Rows, Cols, "convected", [s |-> r, b |-> b])
<1>1. \A b : H(s, b) = Hold(<<"state_a", b>>, Levels, Rows, Cols, "convected", ExecutorContext(j, s, b))
  BY DEF Hold, ExecutorContext
<1>2. \A b : H(s, b) \subseteq Leaves(j, s, b)
  <2> HIDE DEF H
  <2>1. QED
    BY <1>1 DEF Leaves
<1>3. \A b : Enters(j, s, b) = H(s - 1, b)
  <2> SUFFICES ASSUME NEW b PROVE Enters(j, s, b) = H(s - 1, b)
    OBVIOUS
  <2> DEFINE c == ExecutorContext(j, s, b)
             d == Before(c)
             e == [s |-> s - 1, b |-> b]
             buf == <<"state_a", b>>
  <2>1. c.q = buf /\ d.s = s - 1 /\ d.b = b
    BY DEF ExecutorContext, Before
  <2>2. e.s = s - 1 /\ e.b = b
    OBVIOUS
  <2>3. Enters(j, s, b) = Hold(c.q, Levels, Rows, Cols, "convected", d)
    BY DEF Enters, Entering
  <2>4. H(s - 1, b) = Hold(buf, Levels, Rows, Cols, "convected", e)
    OBVIOUS
  <2> HIDE DEF c, d, e, buf, H
  <2>5. Hold(buf, Levels, Rows, Cols, "convected", d) = Hold(buf, Levels, Rows, Cols, "convected", e)
    BY <2>1, <2>2 DEF Hold
  <2>6. QED
    BY <2>1, <2>3, <2>4, <2>5
<1>4. /\ \A p : p \in Tracers(j, s) <=> \E b \in B : p \in H(s, b)
      /\ \A p : p \in Tracers(j, s - 1) <=> \E b \in B : p \in H(s - 1, b)
  BY InFirstBuffers
<1>5. ASSUME NEW b \in B, NEW p \in H(s, b) PROVE p[1][1][1] = "state_a"
  <2> DEFINE buf == <<"state_a", b>>
             c == [s |-> s, b |-> b]
  <2>1. buf[1] = "state_a"
    OBVIOUS
  <2>2. p \in Hold(buf, Levels, Rows, Cols, "convected", c)
    BY <1>5
  <2> HIDE DEF buf, c
  <2>3. p[1][1] = buf
    BY <2>2, HoldLies DEF Lies
  <2>4. QED
    BY <2>1, <2>3
<1> HIDE DEF H
<1>6. QED
  BY <1>2, <1>3, <1>4, <1>5

\* What a resident job has when step s has returned.
Delivered(j, s) == ((Tracers(j, s) \cup DryMass(s)) \cup Reported(s)) \cup StepCount(s)

LEMMA ReportedPublic ==
  ASSUME NEW s
  PROVE  /\ DryMass(s) \subseteq Reported(s)
         /\ \A p \in Reported(s) : p[1][1][1] \in {"dry_mass", "delp_end", "sphu_after"}
PROOF
<1> DEFINE a == <<"dry_mass", s>>
           b == <<"delp_end", 0>>
           d == <<"sphu_after", 0>>
<1>1. a[1] = "dry_mass" /\ b[1] = "delp_end" /\ d[1] = "sphu_after"
  OBVIOUS
<1>2. /\ Lies(DryMass(s), a, Levels, Rows, Cols)
      /\ Lies(Field("delp_end", s), b, Levels, Rows, Cols)
      /\ Lies(Field("sphu_after", s), d, Levels, Rows, Cols)
  BY TermLies, AtLies DEF DryMass, Fresh, Field
<1> HIDE DEF a, b, d
<1>3. QED
  BY <1>1, <1>2 DEF Lies, Reported

LEMMA ResidentStepFlows ==
  ASSUME NEW j \in JobRecord, j.execution \in ResidentPolicies, NEW s \in Nat \ {0}
  PROVE  LET p == StepProgram(j, s)
         IN  IsSeq(p) /\ Flows(p, j.workers, Tracers(j, s - 1) \cup DryMass(s - 1), Delivered(j, s))
PROOF
<1> DEFINE team == TeamOf(j)
           n == Len(team)
           B == 1 .. j.blocks
           names == {"state_a"}
           T == Tracers(j, s - 1)
           A == PrepareTransportStep(team, s, B)
           P == AtHand(T, s, B)
           H == Halfway(P, j, s, B, {})
           E == Halfway(P, j, s, {}, B)
           C == ApplyTransport(team, j, s)
           S == T \cup DryMass(s - 1)
           Z == Delivered(j, s)
<1>1. Team(team) /\ n = j.workers /\ j.blocks \in Nat
  BY TeamOfIs DEF JobRecord
<1>2. StepProgram(j, s) = A \o C
  BY DEF StepProgram, ResidentPolicies
<1>3. Bears(T, names)
  BY ResidentTracers DEF Bears
<1>4. IsSeq(A) /\ Flows(A, n, S, P)
  <2> HIDE DEF team, B, T, names
  <2>1. QED
    BY <1>1, <1>3, PreparationMakes DEF names
<1>5. AllPrepared(P, s, B) /\ T \subseteq P /\ Reported(s) \subseteq P
  BY AtHandPrepared
<1>6. IsSeq(C) /\ Flows(C, n, H, Counted(E, s))
  <2> HIDE DEF team, B, P, H, E
  <2>1. QED
    BY <1>1, <1>5, ApplyTransportMakes DEF B, H, E
<1> HIDE DEF P
<1>7. H \subseteq P
  <2>1. \A b \in B : Enters(j, s, b) \subseteq T
    BY ResidentTracers
  <2>2. ASSUME NEW p \in H PROVE p \in Public(P) \/ \E b \in B : p \in Enters(j, s, b)
    <3> DEFINE N == {}
    <3>1. H = Halfway(P, j, s, B, N) /\ \A b : b \notin N
      OBVIOUS
    <3> HIDE DEF H, N, B
    <3>2. QED
      BY <3>1, HalfwayIs
  <2>3. Public(P) \subseteq P
    BY DEF Public
  <2> HIDE DEF H, T, B
  <2>4. QED
    BY <1>5, <2>1, <2>2, <2>3
<1>8. Z \subseteq Counted(E, s)
  <2>1. Reported(s) \subseteq E
    <3>1. {"dry_mass", "delp_end", "sphu_after"} \cap PrivateNames = {}
      BY DEF PrivateNames, BufferNames, ScratchNames
    <3>2. Reported(s) \subseteq Public(P)
      BY <1>5, <3>1, ReportedPublic DEF Public
    <3>3. QED
      BY <3>2, HalfwayIs
  <2>2. Tracers(j, s) \subseteq E
    <3>1. ASSUME NEW p \in Tracers(j, s) PROVE p \in E
      <4>1. PICK b \in B : p \in Leaves(j, s, b)
        BY ResidentTracers
      <4>2. QED
        BY <4>1, HalfwayIs
    <3>2. QED
      BY <3>1
  <2>3. /\ \A p \in Reported(s) : p[1][1][1] # "negative_count"
        /\ \A p \in Tracers(j, s) : p[1][1][1] # "negative_count"
    BY ReportedPublic, ResidentTracers
  <2>4. DryMass(s) \subseteq Reported(s)
    BY ReportedPublic
  <2> HIDE DEF E
  <2>5. QED
    BY <2>1, <2>2, <2>3, <2>4 DEF Counted, Delivered
<1> HIDE DEF A, C, S, H, Z, n
<1>9. Flows(C, n, P, Z)
  <2> DEFINE K == Counted(E, s)
  <2> HIDE DEF K
  <2>1. Flows(C, n, H, K) /\ Z \subseteq K
    BY <1>6, <1>8 DEF K
  <2>2. QED
    BY <1>7, <2>1, FlowsWeaker
<1>10. IsSeq(A \o C) /\ Flows(A \o C, n, S, Z)
  BY <1>4, <1>6, <1>9, FlowsThen
<1>11. QED
  BY <1>1, <1>2, <1>10 DEF S, Z, T

-----------------------------------------------------------------------------
(* The members of a team, each part of the way through its list.           *)

\* The cells that the operations of l write or read, and what S has of them.
Touched(l) == UNION {CellsOf(l[a].sets) \cup CellsOf(l[a].needs) : a \in DOMAIN l}
Seen(S, l) == {p \in S : p[1] \in Touched(l)}

\* With m operations done, what S has for the rest of l makes Q.
Goes(f, l, m, S, Q) ==
  /\ f[m] \subseteq Seen(S, l) /\ Q \subseteq f[Len(l)]
  /\ \A a \in m + 1 .. Len(l) : Gives(l[a], f[a - 1], f[a])
Onward(l, m, S, Q) == m \in 0 .. Len(l) /\ \E f : Goes(f, l, m, S, Q)

\* What S becomes when the operation has been done.
Left(S, op) == {p \in S : p[1] \notin CellsOf(op.sets)} \cup op.sets

LEMMA TouchedIs ==
  ASSUME NEW l, IsSeq(l), NEW a \in 1 .. Len(l)
  PROVE  /\ \A p \in l[a].sets : p[1] \in Touched(l)
         /\ \A p \in l[a].needs : p[1] \in Touched(l)
         /\ a \in DOMAIN l
PROOF
<1>1. a \in DOMAIN l
  BY IsSeqIs
<1>2. CellsOf(l[a].sets) \cup CellsOf(l[a].needs) \subseteq Touched(l)
  BY <1>1 DEF Touched
<1>3. QED
  BY <1>1, <1>2 DEF CellsOf

LEMMA OnwardStart ==
  ASSUME NEW l, IsSeq(l), NEW P, NEW Q, Leads(l, P, Q), NEW S, P \subseteq S,
         \A q \in Q : q[1] \in Wrote(l)
  PROVE  Onward(l, 0, S, Q)
PROOF
<1> DEFINE n == Len(l)
<1>1. PICK f : Hands(f, l, P, Q)
  BY DEF Leads
<1> DEFINE g == [a \in 0 .. n |-> Seen(f[a], l)]
<1>2. n \in Nat
  BY IsSeqIs
<1>3. f[0] \subseteq P /\ Q \subseteq f[n] /\ \A a \in 1 .. n : Gives(l[a], f[a - 1], f[a])
  BY <1>1 DEF Hands
<1>4. \A a \in 0 .. n : g[a] = Seen(f[a], l)
  OBVIOUS
<1> HIDE DEF g, n
<1>5. g[0] \subseteq Seen(S, l)
  BY <1>2, <1>3, <1>4 DEF Seen
<1>6. Q \subseteq g[n]
  <2>1. Wrote(l) \subseteq Touched(l)
    BY DEF Wrote, Touched
  <2>2. QED
    BY <1>2, <1>3, <1>4, <2>1 DEF Seen
<1>7. ASSUME NEW a \in 1 .. n PROVE Gives(l[a], g[a - 1], g[a])
  <2>1. a - 1 \in 0 .. n /\ a \in 0 .. n
    BY <1>2
  <2>2. g[a - 1] = Seen(f[a - 1], l) /\ g[a] = Seen(f[a], l) /\ Gives(l[a], f[a - 1], f[a])
    BY <1>3, <1>4, <2>1
  <2>3. \A p \in l[a].needs : p[1] \in Touched(l)
    BY TouchedIs DEF n
  <2> DEFINE op == l[a]
             A == f[a - 1]
             B == f[a]
             C == g[a - 1]
             D == g[a]
  <2>4. C = Seen(A, l) /\ D = Seen(B, l) /\ Gives(op, A, B) /\ \A p \in op.needs : p[1] \in Touched(l)
    BY <2>2, <2>3
  <2> HIDE DEF op, A, B, C, D
  <2>5. Gives(op, C, D)
    BY <2>4 DEF Seen, Gives
  <2>6. QED
    BY <2>5 DEF op, C, D
<1>8. 0 \in 0 .. n /\ 0 + 1 = 1
  BY <1>2
<1>9. Goes(g, l, 0, S, Q)
  BY <1>5, <1>6, <1>7, <1>8 DEF Goes, n
<1>10. QED
  BY <1>8, <1>9 DEF Onward, n

\* A member's next operation reads what is there, and leaves what the next needs.
LEMMA OnwardStep ==
  ASSUME NEW l, IsSeq(l), NEW m, NEW S, NEW Q, Onward(l, m, S, Q), m + 1 \in DOMAIN l,
         NEW op, op = l[m + 1], NEW T, T = Left(S, op)
  PROVE  op.needs \subseteq S /\ Onward(l, m + 1, T, Q)
PROOF
<1> DEFINE n == Len(l)
           k == m + 1
<1>1. n \in Nat /\ m \in 0 .. n /\ k \in 1 .. n
  BY IsSeqIs DEF Onward
<1>2. PICK f : Goes(f, l, m, S, Q)
  BY DEF Onward
<1>3. k - 1 = m /\ k \in k .. n /\ k \in 0 .. n
  BY <1>1
<1>4. /\ f[m] \subseteq Seen(S, l) /\ Q \subseteq f[n]
      /\ \A a \in k .. n : Gives(l[a], f[a - 1], f[a])
  BY <1>2 DEF Goes
<1>5. Gives(op, f[m], f[k])
  BY <1>3, <1>4
<1>6. /\ \A p \in op.sets : p[1] \in Touched(l)
      /\ \A p \in op.needs : p[1] \in Touched(l)
  BY <1>1, TouchedIs
<1>7. \A a \in k + 1 .. n : a \in k .. n
  BY <1>1
<1> HIDE DEF k, n
<1>8. op.needs \subseteq S
  BY <1>4, <1>5 DEF Gives, Seen
<1>9. f[k] \subseteq Seen(T, l)
  BY <1>4, <1>5, <1>6 DEF Gives, Seen, Left
<1>10. Goes(f, l, k, T, Q)
  BY <1>4, <1>7, <1>9 DEF Goes, n
<1>11. Onward(l, k, T, Q)
  BY <1>3, <1>10 DEF Onward, n
<1>12. QED
  BY <1>8, <1>11 DEF k

\* An operation that writes nothing the list touches leaves it as it was.
LEMMA OnwardAside ==
  ASSUME NEW l, NEW m, NEW S, NEW Q, Onward(l, m, S, Q), NEW op,
         \A a \in DOMAIN l : ~Clash(op, l[a]), NEW T, T = Left(S, op)
  PROVE  Onward(l, m, T, Q)
PROOF
<1>1. PICK f : Goes(f, l, m, S, Q)
  BY DEF Onward
<1>2. \A cell \in Touched(l) : cell \notin CellsOf(op.sets)
  BY DEF Clash, Touched
<1>3. Seen(S, l) \subseteq Seen(T, l)
  BY <1>2 DEF Seen, Left
<1>4. Goes(f, l, m, T, Q)
  BY <1>1, <1>3 DEF Goes
<1>5. QED
  BY <1>4 DEF Onward

LEMMA OnwardEnd ==
  ASSUME NEW l, IsSeq(l), NEW m, NEW S, NEW Q, Onward(l, m, S, Q), m + 1 \notin DOMAIN l
  PROVE  Q \subseteq S
PROOF
<1> DEFINE n == Len(l)
<1>1. n \in Nat /\ m \in 0 .. n /\ m + 1 \notin 1 .. n
  BY IsSeqIs DEF Onward
<1>2. m = n
  BY <1>1
<1>3. PICK f : Goes(f, l, m, S, Q)
  BY DEF Onward
<1>4. QED
  BY <1>2, <1>3 DEF Goes, Seen

-----------------------------------------------------------------------------
(* The team in a region.                                                   *)

\* With d[t] operations done by each member, what S has makes Q.
Abreast(r, n, d, S, Q) ==
  /\ \A t \in 1 .. n : IsSeq(r[t]) /\ Onward(r[t], d[t], S, {q \in Q : q[1] \in Wrote(r[t])})
  /\ \A q \in Q : (\A t \in 1 .. n : q[1] \notin Wrote(r[t])) => q \in S

LEMMA AbreastStart ==
  ASSUME NEW r, NEW n, NEW P, NEW Q, Passes(r, n, P, Q), NEW S, P \subseteq S,
         NEW d, \A t \in 1 .. n : d[t] = 0
  PROVE  Abreast(r, n, d, S, Q)
PROOF
<1>1. ASSUME NEW t \in 1 .. n
      PROVE  IsSeq(r[t]) /\ Onward(r[t], d[t], S, {q \in Q : q[1] \in Wrote(r[t])})
  <2> DEFINE l == r[t]
             A == {q \in Q : q[1] \in Wrote(l)}
  <2>1. IsSeq(l) /\ Leads(l, P, A)
    BY DEF Passes
  <2>2. \A q \in A : q[1] \in Wrote(l)
    OBVIOUS
  <2> HIDE DEF l, A
  <2>3. Onward(l, 0, S, A)
    BY <2>1, <2>2, OnwardStart
  <2>4. QED
    BY <2>1, <2>3 DEF l, A
<1>2. \A q \in Q : (\A t \in 1 .. n : q[1] \notin Wrote(r[t])) => q \in S
  BY DEF Passes
<1>3. QED
  BY <1>1, <1>2 DEF Abreast

LEMMA AbreastReads ==
  ASSUME NEW r, NEW n, NEW d, NEW S, NEW Q, Abreast(r, n, d, S, Q),
         NEW t \in 1 .. n, d[t] + 1 \in DOMAIN r[t]
  PROVE  r[t][d[t] + 1].needs \subseteq S
PROOF
<1> DEFINE l == r[t]
           m == d[t]
           A == {q \in Q : q[1] \in Wrote(l)}
           op == l[m + 1]
           T == Left(S, op)
<1>1. IsSeq(l) /\ Onward(l, m, S, A) /\ m + 1 \in DOMAIN l /\ op = l[m + 1] /\ T = Left(S, op)
  BY DEF Abreast
<1> HIDE DEF l, m, A, op, T
<1>2. op.needs \subseteq S
  BY <1>1, OnwardStep
<1>3. QED
  BY <1>2 DEF op, l, m

LEMMA AbreastOn ==
  ASSUME NEW r, NEW n, Separate(r, n), NEW d, NEW S, NEW Q, Abreast(r, n, d, S, Q),
         NEW t \in 1 .. n, d[t] + 1 \in DOMAIN r[t],
         NEW op, op = r[t][d[t] + 1], NEW T, T = Left(S, op),
         NEW e, e[t] = d[t] + 1, \A u \in 1 .. n : u # t => e[u] = d[u]
  PROVE  Abreast(r, n, e, T, Q)
PROOF
<1>1. ASSUME NEW u \in 1 .. n
      PROVE  IsSeq(r[u]) /\ Onward(r[u], e[u], T, {q \in Q : q[1] \in Wrote(r[u])})
  <2> DEFINE l == r[u]
             m == d[u]
             A == {q \in Q : q[1] \in Wrote(l)}
  <2>1. IsSeq(l) /\ Onward(l, m, S, A)
    BY DEF Abreast
  <2>2. CASE u = t
    <3>1. m + 1 \in DOMAIN l /\ op = l[m + 1] /\ e[u] = m + 1
      BY <2>2
    <3> HIDE DEF l, m, A
    <3>2. Onward(l, m + 1, T, A)
      BY <2>1, <3>1, OnwardStep
    <3>3. QED
      BY <2>1, <3>1, <3>2 DEF l, A
  <2>3. CASE u # t
    <3>1. e[u] = m
      BY <2>3
    <3>2. \A b \in DOMAIN l : ~Clash(op, l[b])
      BY <2>3 DEF Separate
    <3> HIDE DEF l, m, A
    <3>3. Onward(l, m, T, A)
      BY <2>1, <3>2, OnwardAside
    <3>4. QED
      BY <2>1, <3>1, <3>3 DEF l, A
  <2>4. QED
    BY <2>2, <2>3
<1>2. ASSUME NEW q \in Q, \A u \in 1 .. n : q[1] \notin Wrote(r[u]) PROVE q \in T
  <2>1. q \in S
    BY <1>2 DEF Abreast
  <2>2. CellsOf(op.sets) \subseteq Wrote(r[t])
    BY DEF Wrote
  <2>3. q[1] \notin CellsOf(op.sets)
    BY <1>2, <2>2
  <2>4. QED
    BY <2>1, <2>3 DEF Left
<1>3. QED
  BY <1>1, <1>2 DEF Abreast

LEMMA AbreastEnd ==
  ASSUME NEW r, NEW n, NEW d, NEW S, NEW Q, Abreast(r, n, d, S, Q),
         \A t \in 1 .. n : d[t] + 1 \notin DOMAIN r[t]
  PROVE  Q \subseteq S
PROOF
<1> SUFFICES ASSUME NEW q \in Q PROVE q \in S
  OBVIOUS
<1>1. CASE \A t \in 1 .. n : q[1] \notin Wrote(r[t])
  BY <1>1 DEF Abreast
<1>2. ASSUME NEW t \in 1 .. n, q[1] \in Wrote(r[t]) PROVE q \in S
  <2> DEFINE l == r[t]
             m == d[t]
             A == {p \in Q : p[1] \in Wrote(l)}
  <2>1. IsSeq(l) /\ Onward(l, m, S, A) /\ m + 1 \notin DOMAIN l
    BY DEF Abreast
  <2>2. q \in A
    BY <1>2
  <2> HIDE DEF l, m, A
  <2>3. A \subseteq S
    BY <2>1, OnwardEnd
  <2>4. QED
    BY <2>2, <2>3
<1>3. QED
  BY <1>1, <1>2

-----------------------------------------------------------------------------
(* The team in its program.                                                *)

\* In region x, with d[t] operations done by each member, what S has makes Z.
Ahead(p, n, x, d, S, Z) ==
  \E F : /\ Z \subseteq F[Len(p)]
         /\ \A y \in x + 1 .. Len(p) : Passes(p[y], n, F[y - 1], F[y])
         /\ Abreast(p[x], n, d, S, F[x])

LEMMA AheadStart ==
  ASSUME NEW p, NEW n, Len(p) \in Nat \ {0}, NEW P, NEW Z, Flows(p, n, P, Z),
         NEW S, P \subseteq S, NEW d, \A t \in 1 .. n : d[t] = 0
  PROVE  Ahead(p, n, 1, d, S, Z)
PROOF
<1> DEFINE m == Len(p)
<1>1. PICK F : Carries(F, p, n, P, Z)
  BY DEF Flows
<1>2. F[0] \subseteq P /\ Z \subseteq F[m] /\ \A y \in 1 .. m : Passes(p[y], n, F[y - 1], F[y])
  BY <1>1 DEF Carries
<1>3. m \in Nat \ {0}
  OBVIOUS
<1> HIDE DEF m
<1>4. 1 \in 1 .. m /\ 1 - 1 = 0 /\ \A y \in 1 + 1 .. m : y \in 1 .. m
  BY <1>3
<1>5. Passes(p[1], n, F[0], F[1]) /\ F[0] \subseteq S
  BY <1>2, <1>4
<1>6. Abreast(p[1], n, d, S, F[1])
  BY <1>5, AbreastStart
<1>7. QED
  BY <1>2, <1>4, <1>6 DEF Ahead, m

LEMMA AheadReads ==
  ASSUME NEW p, NEW n, NEW x, NEW d, NEW S, NEW Z, Ahead(p, n, x, d, S, Z),
         NEW t \in 1 .. n, d[t] + 1 \in DOMAIN p[x][t]
  PROVE  p[x][t][d[t] + 1].needs \subseteq S
PROOF
<1>1. PICK F : Abreast(p[x], n, d, S, F[x])
  BY DEF Ahead
<1> DEFINE r == p[x]
           Q == F[x]
<1>2. Abreast(r, n, d, S, Q) /\ d[t] + 1 \in DOMAIN r[t]
  BY <1>1
<1> HIDE DEF r, Q
<1>3. r[t][d[t] + 1].needs \subseteq S
  BY <1>2, AbreastReads
<1>4. QED
  BY <1>3 DEF r

\* Member t does its next operation.
LEMMA AheadOn ==
  ASSUME NEW p, NEW n, NEW x, Separate(p[x], n), NEW d, NEW S, NEW Z, Ahead(p, n, x, d, S, Z),
         NEW t \in 1 .. n, d[t] + 1 \in DOMAIN p[x][t],
         NEW op, op = p[x][t][d[t] + 1], NEW T, T = Left(S, op),
         NEW e, e[t] = d[t] + 1, \A u \in 1 .. n : u # t => e[u] = d[u]
  PROVE  op.needs \subseteq S /\ Ahead(p, n, x, e, T, Z)
PROOF
<1>1. PICK F : /\ Z \subseteq F[Len(p)]
               /\ \A y \in x + 1 .. Len(p) : Passes(p[y], n, F[y - 1], F[y])
               /\ Abreast(p[x], n, d, S, F[x])
  BY DEF Ahead
<1> DEFINE r == p[x]
           Q == F[x]
<1>2. Separate(r, n) /\ Abreast(r, n, d, S, Q) /\ d[t] + 1 \in DOMAIN r[t] /\ op = r[t][d[t] + 1]
  BY <1>1
<1> HIDE DEF r, Q
<1>3. op.needs \subseteq S
  BY <1>2, AbreastReads
<1>4. Abreast(r, n, e, T, Q)
  BY <1>2, AbreastOn
<1>5. QED
  BY <1>1, <1>3, <1>4 DEF Ahead, r, Q

\* All have done their lists, and the team goes on, or has returned.
LEMMA AheadJoin ==
  ASSUME NEW p, NEW n, Len(p) \in Nat, NEW x \in 1 .. Len(p), NEW d, NEW S, NEW Z,
         Ahead(p, n, x, d, S, Z), \A t \in 1 .. n : d[t] + 1 \notin DOMAIN p[x][t],
         NEW e, \A t \in 1 .. n : e[t] = 0
  PROVE  IF x = Len(p) THEN Z \subseteq S ELSE Ahead(p, n, x + 1, e, S, Z)
PROOF
<1> DEFINE m == Len(p)
           r == p[x]
<1>1. PICK F : /\ Z \subseteq F[m]
               /\ \A y \in x + 1 .. m : Passes(p[y], n, F[y - 1], F[y])
               /\ Abreast(r, n, d, S, F[x])
  BY DEF Ahead
<1>2. \A t \in 1 .. n : d[t] + 1 \notin DOMAIN r[t]
  OBVIOUS
<1>3. m \in Nat /\ x \in 1 .. m
  OBVIOUS
<1> HIDE DEF m, r
<1>4. F[x] \subseteq S
  BY <1>1, <1>2, AbreastEnd
<1>5. CASE x = m
  BY <1>1, <1>4, <1>5 DEF m
<1>6. CASE x # m
  <2> DEFINE y == x + 1
  <2>1. y \in x + 1 .. m /\ y - 1 = x /\ \A z \in y + 1 .. m : z \in x + 1 .. m
    BY <1>3, <1>6
  <2>2. Passes(p[y], n, F[x], F[y])
    BY <1>1, <2>1
  <2>3. \A z \in y + 1 .. m : Passes(p[z], n, F[z - 1], F[z])
    BY <1>1, <2>1
  <2> HIDE DEF y
  <2>4. Abreast(p[y], n, e, S, F[y])
    BY <1>4, <2>2, AbreastStart
  <2>5. Ahead(p, n, y, e, S, Z)
    BY <1>1, <2>3, <2>4 DEF Ahead, m
  <2>6. QED
    BY <1>6, <2>5 DEF y, m
<1>7. QED
  BY <1>5, <1>6

-----------------------------------------------------------------------------
(* A resident job, wherever it is.                                         *)

\* The rest of the step's program makes what the step delivers, or it has.
OnCourse ==
  job.execution \in ResidentPolicies =>
    IF Finished
    THEN Delivered(job, step) \subseteq store /\ \A w \in 1 .. job.workers : done[w] = 0
    ELSE Ahead(Program, job.workers, region, done, store, Delivered(job, step))

\* What is in hand is the next operation of the worker's list.
LEMMA InHandIs ==
  ASSUME Positioned, NEW w \in 1 .. job.workers, NEW op \in InHand(w)
  PROVE  /\ region \in 1 .. Len(Program) /\ ~Finished
         /\ Separate(Program[region], job.workers)
         /\ done[w] + 1 \in DOMAIN Program[region][w]
         /\ op = Program[region][w][done[w] + 1]
PROOF
<1>1. region \in 1 .. Len(Program) /\ ~Finished
  BY StepRegions DEF Positioned, InHand, Finished, Program
<1>2. Separate(Program[region], job.workers)
  BY <1>1, StepRegions DEF Positioned, Program
<1>3. done[w] + 1 \in DOMAIN Program[region][w] /\ op = Program[region][w][done[w] + 1]
  BY <1>1 DEF InHand, Nth
<1>4. QED
  BY <1>1, <1>2, <1>3

LEMMA StepBegins ==
  ASSUME NEW j \in Jobs, j.execution \in ResidentPolicies, NEW s \in 1 .. NSteps,
         NEW S, Tracers(j, s - 1) \cup DryMass(s - 1) \subseteq S,
         NEW d, \A t \in 1 .. j.workers : d[t] = 0
  PROVE  LET p == (CHOOSE y \in Programs : y[1] = j /\ y[2] = s)[3]
         IN  Ahead(p, j.workers, 1, d, S, Delivered(j, s))
PROOF
<1> DEFINE p == (CHOOSE y \in Programs : y[1] = j /\ y[2] = s)[3]
           q == StepProgram(j, s)
           n == j.workers
           P == Tracers(j, s - 1) \cup DryMass(s - 1)
           Z == Delivered(j, s)
<1>1. j \in JobRecord /\ s \in Nat \ {0}
  BY JobsAssumption, StepsAssumption
<1>2. p = q /\ Len(p) \in Nat \ {0}
  BY ProgramIs, StepRegions
<1>3. Flows(q, n, P, Z)
  BY <1>1, ResidentStepFlows
<1> HIDE DEF p, q, n, P, Z
<1>4. Ahead(p, n, 1, d, S, Z)
  BY <1>2, <1>3, AheadStart DEF n, P
<1>5. QED
  BY <1>4 DEF p, n, Z

LEMMA OnCourseInit ==
  Init => OnCourse
PROOF
<1> SUFFICES ASSUME Init, job.execution \in ResidentPolicies
             PROVE  Ahead(Program, job.workers, region, done, store, Delivered(job, step))
  BY DEF OnCourse, Finished, Init
<1>1. /\ job \in Jobs /\ step = 1 /\ step \in 1 .. NSteps /\ region = 1 /\ step - 1 = 0
      /\ \A w \in 1 .. job.workers : done[w] = 0
  BY StepsAssumption DEF Init
<1>2. Tracers(job, 0) \cup DryMass(0) \subseteq store
  <2>1. Carried(job, 0) = DryMass(0)
    BY DEF Carried, ResidentPolicies
  <2>2. QED
    BY <2>1 DEF Init
<1>3. QED
  BY <1>1, <1>2, StepBegins DEF Program

LEMMA OnCourseNext ==
  Positioned /\ OnCourse /\ [Next]_vars => OnCourse'
PROOF
<1> SUFFICES ASSUME Positioned, OnCourse, [Next]_vars, (job.execution \in ResidentPolicies)'
             PROVE  (IF Finished
                     THEN Delivered(job, step) \subseteq store /\ \A w \in 1 .. job.workers : done[w] = 0
                     ELSE Ahead(Program, job.workers, region, done, store, Delivered(job, step)))'
  BY DEF OnCourse
<1> DEFINE p == Program
           n == job.workers
           Z == Delivered(job, step)
<1>1. job' = job /\ job.execution \in ResidentPolicies /\ n' = n
  BY DEF Next, Perform, Join, NextStep, Ended, vars
<1>2. /\ job \in Jobs /\ step \in 1 .. NSteps /\ region \in 0 .. Len(p) /\ DOMAIN done = 1 .. n
      /\ Len(p) \in Nat \ {0}
  BY StepRegions DEF Positioned, Program
<1>3. /\ Finished => Z \subseteq store /\ \A w \in 1 .. n : done[w] = 0
      /\ ~Finished => Ahead(p, n, region, done, store, Z)
  BY <1>1 DEF OnCourse
<1>4. ASSUME NEW w \in DOMAIN done, Perform(w)
      PROVE  ~Finished' /\ Ahead(p', n, region', done', store', Z')
  <2>1. PICK op \in InHand(w) : store' = After(op)
    BY <1>4 DEF Perform
  <2>2. /\ step' = step /\ region' = region /\ p' = p /\ Z' = Z
        /\ done' = [done EXCEPT ![w] = @ + 1]
    BY <1>1, <1>4 DEF Perform, Program
  <2>3. /\ w \in 1 .. n /\ ~Finished /\ ~Finished'
        /\ Separate(p[region], n)
        /\ done[w] + 1 \in DOMAIN p[region][w]
        /\ op = p[region][w][done[w] + 1]
    BY <1>2, <2>2, InHandIs DEF Finished
  <2>4. done'[w] = done[w] + 1 /\ \A u \in 1 .. n : u # w => done'[u] = done[u]
    BY <1>2, <2>2
  <2>5. Ahead(p, n, region, done, store, Z)
    BY <1>3, <2>3
  <2> DEFINE T == Left(store, op)
             e == done'
  <2>6. T = Left(store, op) /\ e[w] = done[w] + 1 /\ \A u \in 1 .. n : u # w => e[u] = done[u]
    BY <2>4
  <2> HIDE DEF p, n, Z, T, e
  <2>7. op.needs \subseteq store /\ Ahead(p, n, region, e, T, Z)
    BY <2>3, <2>5, <2>6, AheadOn
  <2>8. store' = T
    BY <2>1, <2>7 DEF After, Left, T
  <2>9. QED
    BY <2>2, <2>3, <2>7, <2>8 DEF e
<1>5. CASE Join
  <2>1. /\ step' = step /\ p' = p /\ Z' = Z /\ store' = store /\ ~Finished
        /\ done' = [w \in DOMAIN done |-> 0]
        /\ region' = (region + 1) % (Len(p) + 1)
    BY <1>1, <1>5 DEF Join, NextRegion, Program
  <2>2. region \in 1 .. Len(p)
    BY <1>2, <2>1 DEF Finished
  <2>3. \A w \in 1 .. n : done[w] + 1 \notin DOMAIN p[region][w]
    <3> SUFFICES ASSUME NEW w \in 1 .. n, done[w] + 1 \in DOMAIN p[region][w] PROVE FALSE
      OBVIOUS
    <3>1. InHand(w) # {}
      BY <2>1 DEF InHand, Nth
    <3>2. InHand(w) = {}
      BY <1>2, <1>5 DEF Join
    <3>3. QED
      BY <3>1, <3>2
  <2>4. \A w \in 1 .. n : done'[w] = 0
    BY <1>2, <2>1
  <2>5. Ahead(p, n, region, done, store, Z)
    BY <1>3, <2>1
  <2> DEFINE m == Len(p)
             e == done'
  <2>6. \A w \in 1 .. n : e[w] = 0
    BY <2>4
  <2> HIDE DEF p, n, Z, e
  <2>7. IF region = Len(p) THEN Z \subseteq store ELSE Ahead(p, n, region + 1, e, store, Z)
    BY <1>2, <2>2, <2>3, <2>5, <2>6, AheadJoin
  <2>8. m \in Nat \ {0} /\ region \in 1 .. m /\ region' = (region + 1) % (m + 1)
    BY <1>2, <2>1, <2>2
  <2> HIDE DEF m
  <2>9. region' = IF region = m THEN 0 ELSE region + 1
    <3>1. CASE region = m
      BY <2>8, <3>1
    <3>2. CASE region # m
      <4>1. region + 1 \in 0 .. m
        BY <2>8, <3>2
      <4>2. QED
        BY <2>8, <3>2, <4>1
    <3>3. QED
      BY <3>1, <3>2
  <2>10. region + 1 # 0
    BY <2>8
  <2>11. /\ region = m => region' = 0 /\ Z \subseteq store
         /\ region # m => region' # 0 /\ Ahead(p, n, region', e, store, Z)
    BY <2>7, <2>9, <2>10 DEF m
  <2>12. QED
    BY <1>1, <2>1, <2>4, <2>11 DEF Finished, e, p, n, Z
<1>6. CASE NextStep
  <2>1. /\ step' = step + 1 /\ region' = 1 /\ done' = done /\ store' = store /\ Finished
        /\ step < NSteps
    BY <1>6 DEF NextStep
  <2>2. Z \subseteq store /\ \A w \in 1 .. n : done[w] = 0
    BY <1>3, <2>1
  <2>3. step' \in 1 .. NSteps /\ step' - 1 = step
    BY <1>2, <2>1, StepsAssumption
  <2>4. Tracers(job, step' - 1) \cup DryMass(step' - 1) \subseteq store
    BY <2>2, <2>3 DEF Delivered
  <2> DEFINE s == step'
  <2>5. s \in 1 .. NSteps /\ Tracers(job, s - 1) \cup DryMass(s - 1) \subseteq store
    BY <2>3, <2>4
  <2> HIDE DEF s
  <2>6. LET q == (CHOOSE y \in Programs : y[1] = job /\ y[2] = s)[3]
        IN  Ahead(q, job.workers, 1, done, store, Delivered(job, s))
    BY <1>1, <1>2, <2>2, <2>5, StepBegins DEF n
  <2>7. p' = (CHOOSE y \in Programs : y[1] = job /\ y[2] = s)[3] /\ Z' = Delivered(job, s)
    BY <1>1 DEF Program, s
  <2>8. Ahead(p', job.workers, 1, done, store, Z')
    BY <2>6, <2>7
  <2>9. ~Finished'
    BY <2>1 DEF Finished
  <2>10. QED
    BY <1>1, <2>1, <2>8, <2>9
<1>7. CASE UNCHANGED vars
  <2>1. job' = job /\ step' = step /\ region' = region /\ done' = done /\ store' = store
    BY <1>7 DEF vars
  <2>2. p' = p /\ Z' = Z /\ Finished' = Finished
    BY <2>1 DEF Program, Finished
  <2>3. QED
    BY <1>1, <1>3, <2>1, <2>2
<1>8. QED
  <2>1. CASE \E w \in DOMAIN done : Perform(w)
    BY <1>1, <1>4, <2>1
  <2>2. CASE ~ \E w \in DOMAIN done : Perform(w)
    BY <1>5, <1>6, <1>7, <2>2 DEF Next, Ended
  <2>3. QED
    BY <2>1, <2>2

LEMMA OnCourseReads ==
  Positioned /\ OnCourse => (job.execution \in ResidentPolicies => OperandsCurrent)
PROOF
<1> SUFFICES ASSUME Positioned, OnCourse, job.execution \in ResidentPolicies,
                    NEW w \in DOMAIN done, NEW op \in InHand(w)
             PROVE  op.needs \subseteq store
  BY DEF OperandsCurrent
<1> DEFINE p == Program
           n == job.workers
           Z == Delivered(job, step)
<1>1. w \in 1 .. n
  BY DEF Positioned
<1>2. ~Finished /\ done[w] + 1 \in DOMAIN p[region][w] /\ op = p[region][w][done[w] + 1]
  BY <1>1, InHandIs
<1>3. Ahead(p, n, region, done, store, Z)
  BY <1>2 DEF OnCourse
<1> HIDE DEF p, n, Z
<1>4. p[region][w][done[w] + 1].needs \subseteq store
  BY <1>1, <1>2, <1>3, AheadReads
<1>5. QED
  BY <1>2, <1>4

LEMMA OnCourseDelivers ==
  OnCourse => (job.execution \in ResidentPolicies => StepDelivers)
PROOF
<1> SUFFICES ASSUME OnCourse, job.execution \in ResidentPolicies, Finished PROVE StepDelivers
  BY DEF StepDelivers
<1>1. Delivered(job, step) \subseteq store
  BY DEF OnCourse
<1>2. Carried(job, step) = DryMass(step) /\ job.execution \notin {"cuda", "one_step", "trace"}
  BY DEF Carried, ResidentPolicies
<1>3. QED
  BY <1>1, <1>2 DEF StepDelivers, Delivered

LEMMA Courses ==
  Spec => [](Positioned /\ OnCourse)
PROOF
<1>1. Init => Positioned /\ OnCourse
  BY PositionedInit, OnCourseInit
<1>2. Positioned /\ OnCourse /\ [Next]_vars => (Positioned /\ OnCourse)'
  BY PositionedNext, OnCourseNext
<1>3. QED
  BY <1>1, <1>2, PTL DEF Spec

\* No worker of a resident job ever reads what is not the term, of this step,
\* block and level, that it takes it for: for every grid, team, number of
\* blocks and steps, and under each of the executor's three policies, each
\* kernel finds its operands as the kernels before it left them, however the
\* workers interleave.
THEOREM ResidentOperandsCurrent ==
  Spec => [](job.execution \in ResidentPolicies => OperandsCurrent)
PROOF
<1>1. QED
  BY Courses, OnCourseReads, PTL

\* Whenever a step of a resident job has returned, its buffers hold that
\* step's tracers for every block, with the dry mass, pressures, humidity and
\* count reported with them.
THEOREM ResidentStepDelivers ==
  Spec => [](job.execution \in ResidentPolicies => StepDelivers)
PROOF
<1>1. QED
  BY Courses, OnCourseDelivers, PTL

=================================================================================
