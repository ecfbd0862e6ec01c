---------------------------- MODULE Transport_proofs ----------------------------
(***************************************************************************)
(* However many workers share a transport step, on whatever grid, no two   *)
(* of them ever touch the same cell when one of them writes it; and a      *)
(* caller that keeps its array finds it as it was.                         *)
(*                                                                         *)
(* Every operation is confined to a zone: the cells of its block, row,     *)
(* column or level in the arrays it may write, and the scratch of the      *)
(* worker that runs it.  Zones of different iterations are apart.          *)
(***************************************************************************)
EXTENDS Transport, ProofLemmas

-----------------------------------------------------------------------------
(* Iterations and their shares.                                            *)

LEMMA AscendingIs ==
  ASSUME NEW S \in SUBSET Nat, IsFiniteSet(S)
  PROVE  /\ Cardinality(S) \in Nat /\ Len(Ascending(S)) = Cardinality(S)
         /\ Ascending(S) \in [1 .. Cardinality(S) -> S] /\ Ascending(S) \in Seq(S)
         /\ \A l, m \in 1 .. Cardinality(S) : Ascending(S)[l] = Ascending(S)[m] => l = m
PROOF
<1> DEFINE n == Cardinality(S)
           o == Ascending(S)
<1>1. n \in Nat
  BY FS_CardinalityType
<1>2. ASSUME NEW m \in 1 .. n PROVE o[m] \in S /\ Rank(S, o[m]) = m
  <2>1. \E x \in S : Cardinality({y \in S : y <= x}) = m
    BY RanksFill DEF Rank, NotAbove
  <2>2. o[m] = CHOOSE x \in S : Cardinality({y \in S : y <= x}) = m
    BY DEF Ascending
  <2>3. QED
    BY <2>1, <2>2 DEF Rank, NotAbove
<1>3. o \in [1 .. n -> S]
  BY <1>2 DEF Ascending
<1> HIDE DEF o, n
<1>4. o \in Seq(S) /\ Len(o) = n
  BY <1>1, <1>3
<1>5. QED
  BY <1>1, <1>2, <1>3, <1>4 DEF o, n

\* No iteration is in two shares.
LEMMA SharesApart ==
  ASSUME NEW iters \in SUBSET Nat, IsFiniteSet(iters), NEW size \in Nat \ {0}
  PROVE  /\ \A t \in 1 .. size : Shares(iters, size)[t] \in Seq(iters)
         /\ \A t, u \in 1 .. size : t # u =>
              \A a \in DOMAIN Shares(iters, size)[t], b \in DOMAIN Shares(iters, size)[u] :
                Shares(iters, size)[t][a] # Shares(iters, size)[u][b]
PROOF
<1> DEFINE n == Cardinality(iters)
           order == Ascending(iters)
           part(t) == {order[m] : m \in {k \in 1 .. n : ShareOf(k, n, size) = t}}
           shares == Shares(iters, size)
<1>1. /\ n \in Nat /\ order \in [1 .. n -> iters]
      /\ \A l, m \in 1 .. n : order[l] = order[m] => l = m
  BY AscendingIs
<1>2. \A t \in 1 .. size : shares[t] = Ascending(part(t))
  BY DEF Shares
<1> HIDE DEF order, n, shares
<1>3. ASSUME NEW t \in 1 .. size PROVE part(t) \in SUBSET iters /\ IsFiniteSet(part(t))
  <2>1. part(t) \in SUBSET iters
    BY <1>1
  <2>2. QED
    BY <2>1, FS_Subset
<1>4. ASSUME NEW t \in 1 .. size
      PROVE  /\ shares[t] \in Seq(iters)
             /\ \A a \in DOMAIN shares[t] : shares[t][a] \in part(t)
  <2> DEFINE P == part(t)
  <2>1. P \in SUBSET Nat /\ IsFiniteSet(P) /\ P \in SUBSET iters
    BY <1>3
  <2>2. shares[t] = Ascending(P)
    BY <1>2
  <2> HIDE DEF P
  <2>3. /\ Ascending(P) \in [1 .. Cardinality(P) -> P] /\ Cardinality(P) \in Nat
    BY <2>1, AscendingIs
  <2> DEFINE m == Cardinality(P)
             q == shares[t]
  <2> HIDE DEF m, q
  <2>4. q \in [1 .. m -> P] /\ m \in Nat
    BY <2>2, <2>3 DEF m, q
  <2>5. q \in [1 .. m -> iters]
    BY <2>1, <2>4
  <2>6. q \in Seq(iters) /\ \A a \in DOMAIN q : q[a] \in P
    BY <2>4, <2>5
  <2>7. QED
    BY <2>6 DEF P, q
<1>5. ASSUME NEW t \in 1 .. size, NEW u \in 1 .. size, t # u,
             NEW a \in DOMAIN shares[t], NEW b \in DOMAIN shares[u],
             shares[t][a] = shares[u][b]
      PROVE  FALSE
  <2>1. PICK l \in {k \in 1 .. n : ShareOf(k, n, size) = t} : shares[t][a] = order[l]
    BY <1>4
  <2>2. PICK m \in {k \in 1 .. n : ShareOf(k, n, size) = u} : shares[u][b] = order[m]
    BY <1>4
  <2>3. l = m
    BY <1>1, <1>5, <2>1, <2>2
  <2>4. QED
    BY <1>5, <2>1, <2>2, <2>3
<1>6. QED
  BY <1>4, <1>5 DEF shares

-----------------------------------------------------------------------------
(* Zones.  An operation of worker w is confined to zone z among the        *)
(* arrays "mine" when it writes cells of z and w's scratch only, and what  *)
(* else it reads is in another of those arrays or in none with a name of   *)
(* "names".                                                                *)

ScratchNames == {"dcx", "x_parabola", "fx", "y_parabola", "z_parabola", "qmx",
                 "tracer_diffused", "before_mass", "after_mass", "qc", "qb_num",
                 "delq_work", "current_work", "thp_zm_rpdel", "kvf", "kvh_cgs",
                 "potbar_shmx", "cch_zeh_termh"}

Zone(bufs, K, J, I) == [bufs |-> bufs, whole |-> FALSE, K |-> K, J |-> J, I |-> I]
Whole(bufs) == [bufs |-> bufs, whole |-> TRUE, K |-> {}, J |-> {}, I |-> {}]

Inside(cell, z) ==
  /\ cell[1] \in z.bufs
  /\ z.whole \/ (cell[2] \in z.K /\ cell[3] \in z.J /\ cell[4] \in z.I)
Scratched(cell, w) == cell[1][1] \in ScratchNames /\ cell[1][2] = w

Within(S, w, z) == \A p \in S : Inside(p[1], z) \/ Scratched(p[1], w)
Allowed(S, w, z, mine, names) ==
  \A p \in S : \/ Inside(p[1], z) \/ Scratched(p[1], w)
              \/ p[1][1] \in mine \ z.bufs
              \/ p[1][1][1] \notin names

Confined(op, w, z, mine, names) ==
  Within(op.sets, w, z) /\ Allowed(op.needs, w, z, mine, names)

LEMMA FusedConfined ==
  ASSUME NEW a, NEW b, NEW w, NEW z, NEW mine, NEW names,
         Confined(a, w, z, mine, names), Confined(b, w, z, mine, names)
  PROVE  Confined(Fused(a, b), w, z, mine, names)
PROOF
<1> DEFINE made == CellsOf(a.sets)
           wrong == \E n \in b.needs : n[1] \in made /\ n \notin a.sets
           writes == IF wrong THEN CellsOf(b.sets) \X {Garbage} ELSE b.sets
           f == Fused(a, b)
<1>1. f.needs = a.needs \cup {n \in b.needs : n[1] \notin made}
  BY DEF Fused, Op
<1>2. f.sets = {p \in a.sets : p[1] \notin CellsOf(b.sets)} \cup writes
  BY DEF Fused, Op
<1>3. ASSUME NEW p \in f.sets PROVE \E q \in a.sets \cup b.sets : p[1] = q[1]
  <2>1. CASE p \in a.sets
    BY <2>1
  <2>2. CASE p \in writes
    <3>1. CASE p \in b.sets
      BY <3>1
    <3>2. CASE p \in CellsOf(b.sets) \X {Garbage}
      <4>1. p[1] \in CellsOf(b.sets)
        BY <3>2
      <4>2. QED
        BY <4>1 DEF CellsOf
    <3>3. QED
      BY <2>2, <3>1, <3>2
  <2>3. QED
    BY <1>2, <2>1, <2>2
<1>4. \A p \in f.needs : p \in a.needs \cup b.needs
  BY <1>1
<1> HIDE DEF f
<1>5. \A q \in a.sets \cup b.sets : Inside(q[1], z) \/ Scratched(q[1], w)
  BY DEF Confined, Within
<1>6. \A p \in f.sets : Inside(p[1], z) \/ Scratched(p[1], w)
  BY <1>3, <1>5
<1>7. Confined(f, w, z, mine, names)
  BY <1>4, <1>6 DEF Confined, Within, Allowed
<1>8. QED
  BY <1>7 DEF f

LEMMA FusedAllConfined ==
  ASSUME NEW ops, NEW n \in Nat, DOMAIN ops = 1 .. n, NEW w, NEW z, NEW mine, NEW names,
         \A i \in 1 .. n : Confined(ops[i], w, z, mine, names)
  PROVE  Confined(FusedAll(ops), w, z, mine, names)
PROOF
<1> DEFINE S == 1 .. n
           A == UNION {ops[i].needs : i \in S}
           B == UNION {ops[i].sets : i \in S}
           R == [needs : SUBSET A, sets : SUBSET (B \cup (CellsOf(B) \X {Garbage}))]
           V == {v \in R : Confined(v, w, z, mine, names)}
           pick == [T \in SUBSET S |-> Max(T)]
           next == [x \in S |-> [v \in V |-> Fused(v, ops[x])]]
           Def(g) == g = [T \in SUBSET S |->
                            IF T = {} THEN Nothing
                            ELSE LET x == Max(T) IN Fused(g[T \ {x}], ops[x])]
           g == CHOOSE h : Def(h)
<1>1. FusedAll(ops) = g[S]
  BY DEF FusedAll, FoldLeft, MapThenFoldSet
<1>2. IsFiniteSet(S)
  BY FS_Interval
<1>3. Nothing \in V
  BY DEF Nothing, Op, Confined, Within, Allowed
<1>4. ASSUME NEW T \in SUBSET S, T # {} PROVE pick[T] \in T
  <2>1. \A x \in T : x \in Nat /\ x <= n
    OBVIOUS
  <2>2. Max(T) \in T
    <3>1. T \in SUBSET Nat
      BY <2>1
    <3>2. QED
      BY <1>4, <2>1, <3>1, MaxIs
  <2>3. QED
    BY <2>2
<1>5. ASSUME NEW x \in S, NEW v \in V PROVE next[x][v] \in V
  <2> DEFINE f == Fused(v, ops[x])
  <2>1. Confined(f, w, z, mine, names)
    BY FusedConfined
  <2>2. f \in R
    <3>1. ops[x].needs \in SUBSET A /\ ops[x].sets \in SUBSET B
      OBVIOUS
    <3>2. CellsOf(ops[x].sets) \in SUBSET CellsOf(B)
      BY <3>1 DEF CellsOf
    <3>3. v.needs \in SUBSET A /\ v.sets \in SUBSET (B \cup (CellsOf(B) \X {Garbage}))
      OBVIOUS
    <3> HIDE DEF A, B, V
    <3>4. QED
      BY <3>1, <3>2, <3>3 DEF Fused, Op
  <2>3. QED
    BY <2>1, <2>2
<1>6. PICK h \in [SUBSET S -> V] : Peels(h, S, Nothing, pick, next)
  <2> HIDE DEF S, V, pick, next
  <2>1. QED
    BY <1>2, <1>3, <1>4, <1>5, Peeling
<1>7. \A T \in SUBSET S : T # {} => Max(T) \in S /\ T \ {Max(T)} \in SUBSET S
  BY <1>4
<1>8. Def(h)
  <2>1. \A T \in SUBSET S :
          h[T] = IF T = {} THEN Nothing ELSE Fused(h[T \ {Max(T)}], ops[Max(T)])
    <3>1. ASSUME NEW T \in SUBSET S
          PROVE  h[T] = IF T = {} THEN Nothing ELSE Fused(h[T \ {Max(T)}], ops[Max(T)])
      <4>1. h[T] = IF T = {} THEN Nothing ELSE next[Max(T)][h[T \ {Max(T)}]]
        <5> HIDE DEF next, V
        <5>1. QED
          BY <1>6 DEF Peels
      <4>2. CASE T # {}
        <5>1. h[T \ {Max(T)}] \in V
          BY <1>6, <1>7, <4>2
        <5>2. QED
          BY <1>7, <4>1, <4>2, <5>1
      <4>3. QED
        BY <4>1, <4>2
    <3>2. QED
      BY <3>1
  <2>2. QED
    BY <1>6, <2>1
<1>9. Def(g)
  BY <1>8
<1>10. g[S] = h[S]
  <2>1. /\ \A T \in SUBSET S :
             g[T] = IF T = {} THEN Nothing ELSE Fused(g[T \ {Max(T)}], ops[Max(T)])
        /\ \A T \in SUBSET S :
             h[T] = IF T = {} THEN Nothing ELSE Fused(h[T \ {Max(T)}], ops[Max(T)])
    BY <1>8, <1>9
  <2>2. \A T \in SUBSET S : T # {} => pick[T] \in T
    BY <1>4
  <2>3. Agree(g, h, S, pick)
    BY ZenonT(60), <2>1 DEF Agree
  <2> HIDE DEF g, pick, S, V, next
  <2>4. \A T \in SUBSET S : g[T] = h[T]
    BY Z3, <1>2, <2>2, <2>3, PeelingUnique
  <2>5. QED
    BY <2>4
<1>11. QED
  BY <1>1, <1>6, <1>10

-----------------------------------------------------------------------------
(* The cells an operation lists.                                           *)

\* All in one array, at these levels, rows and columns.
Lies(S, buf, K, J, I) ==
  \A p \in S : p[1][1] = buf /\ p[1][2] \in K /\ p[1][3] \in J /\ p[1][4] \in I

LEMMA HoldLies ==
  ASSUME NEW buf, NEW K, NEW J, NEW I, NEW name, NEW c
  PROVE  Lies(Hold(buf, K, J, I, name, c), buf, K, J, I)
PROOF
  BY DEF Lies, Hold

LEMMA AtLies ==
  ASSUME NEW buf, NEW K, NEW J, NEW I, NEW V
  PROVE  Lies(At(buf, K, J, I) \X V, buf, K, J, I)
PROOF
<1> SUFFICES ASSUME NEW p \in At(buf, K, J, I) \X V
             PROVE  p[1][1] = buf /\ p[1][2] \in K /\ p[1][3] \in J /\ p[1][4] \in I
  BY DEF Lies
<1>1. p[1] \in At(buf, K, J, I)
  OBVIOUS
<1>2. PICK k \in K, j \in J, i \in I : p[1] = <<buf, k, j, i>>
  BY <1>1 DEF At
<1>3. QED
  BY <1>2

LEMMA TermLies ==
  ASSUME NEW name, NEW s, NEW K, NEW J, NEW I
  PROVE  /\ Lies(Term(name, s, K, J, I), <<name, 0>>, K, J, I)
         /\ Lies(Fresh(name, s, K, J, I), <<name, s>>, K, J, I)
PROOF
  BY AtLies DEF Term, Fresh

LEMMA TermAsLies ==
  ASSUME NEW name, NEW as, NEW s, NEW K, NEW J, NEW I
  PROVE  Lies(TermAs(name, as, s, K, J, I), <<name, 0>>, K, J, I)
PROOF
  BY AtLies DEF TermAs

LEMMA PieceLies ==
  ASSUME NEW name, NEW owner, NEW value
  PROVE  Lies(Piece(name, owner, value), <<name, owner>>, {0}, {0}, {0})
PROOF
  BY DEF Lies, Piece

LEMMA PlaneLies ==
  ASSUME NEW buf, NEW k, NEW J, NEW I, NEW name, NEW c
  PROVE  Lies(Plane(buf, k, J, I, name, c), buf, {0}, J, I)
PROOF
  BY DEF Lies, Plane

\* Of one tracer array.
LEMMA TracerLies ==
  ASSUME NEW c, NEW k, NEW K, NEW J, NEW I
  PROVE  /\ Lies(Entering(c, K, J, I), c.q, K, J, I)
         /\ Lies(Averaged(c, k, J, I), c.q, {k}, J, I)
         /\ Lies(XAdvanced(c, k, J, I), c.q, {k}, J, I)
         /\ Lies(Advanced(c, K, J, I), c.q, K, J, I)
         /\ Lies(CrossU(c, k, J, I), c.qqu, {0}, J, I)
         /\ Lies(CrossV(c, k, J, I), c.qqv, {0}, J, I)
PROOF
<1>1. Lies(Entering(c, K, J, I), c.q, K, J, I)
  BY HoldLies DEF Entering
<1>2. Lies(Averaged(c, k, J, I), c.q, {k}, J, I)
  <2>1. Lies(Hold(c.q, {k}, J \cap Polar, I, "pole_mean", c), c.q, {k}, J \cap Polar, I)
    BY HoldLies
  <2>2. Lies(Entering(c, {k}, J \ Polar, I), c.q, {k}, J \ Polar, I)
    BY HoldLies DEF Entering
  <2>3. QED
    BY <2>1, <2>2 DEF Averaged, Lies
<1>3. QED
  BY <1>1, <1>2, HoldLies, PlaneLies DEF XAdvanced, Advanced, CrossU, CrossV

LEMMA MassLies ==
  ASSUME NEW c, NEW fill, NEW K, NEW J, NEW I
  PROVE  Lies(AdvectedMass(c, fill, K, J, I), c.dq, K, J, I)
PROOF
<1> DEFINE as == IF fill THEN "filled" ELSE "advected"
<1> HIDE DEF as
<1>1. Lies(Hold(c.dq, K, J \cap Interior, I, as, c), c.dq, K, J \cap Interior, I)
  BY HoldLies
<1>2. Lies(Hold(c.dq, K, J \cap PoleRows, I, "advected", c), c.dq, K, J \cap PoleRows, I)
  BY HoldLies
<1>3. QED
  BY <1>1, <1>2 DEF AdvectedMass, Lies, as

CapBuffers(c) == {"south_dao2", "north_dao2", "south_flux", "north_flux"} \X {c.cap}

LEMMA CapsLie ==
  ASSUME NEW c, NEW k, NEW I, NEW pair \in {"dao2", "flux"}
  PROVE  \A p \in Caps(pair, k, I, c) :
           p[1][1] \in CapBuffers(c) /\ p[1][2] \in {0} /\ p[1][3] \in {0} /\ p[1][4] \in I
PROOF
<1> SUFFICES ASSUME NEW p \in Caps(pair, k, I, c)
             PROVE  p[1][1] \in CapBuffers(c) /\ p[1][2] \in {0} /\ p[1][3] \in {0} /\ p[1][4] \in I
  OBVIOUS
<1>1. CapNames[pair] \subseteq {"south_dao2", "north_dao2", "south_flux", "north_flux"}
  BY DEF CapNames
<1>2. PICK name \in CapNames[pair] : p \in Plane(<<name, c.cap>>, k, {0}, I, pair, c)
  BY DEF Caps
<1>3. Lies(Plane(<<name, c.cap>>, k, {0}, I, pair, c), <<name, c.cap>>, {0}, {0}, I)
  BY PlaneLies
<1>4. p[1][1] = <<name, c.cap>> /\ p[1][2] \in {0} /\ p[1][3] \in {0} /\ p[1][4] \in I
  BY <1>2, <1>3 DEF Lies
<1>5. QED
  BY <1>1, <1>4 DEF CapBuffers

\* Scratch of worker w.
LEMMA ScratchOf ==
  ASSUME NEW name \in ScratchNames, NEW w, NEW value, NEW k, NEW x, NEW c, NEW j, NEW s
  PROVE  /\ \A p \in Scratch(name, w, k, x, c) : Scratched(p[1], w)
         /\ \A p \in RowScratch(name, s, w, j) : Scratched(p[1], w)
PROOF
  BY PieceLies DEF Lies, Scratch, RowScratch, Scratched

-----------------------------------------------------------------------------
(* The advection kernels, each confined to what its iteration may touch.   *)

BufferNames == {"state_a", "state_b", "qqu", "qqv", "tpcore_q", "tpcore_dq", "tpcore_qqu",
                "tpcore_qqv", "vdiff_out", "vdiff_input", "input", "state", "traced_q",
                "traced_mixing", "traced_diffused", "traced_convected", "negative_counts"}
PrivateNames == BufferNames \cup {"south_dao2", "north_dao2", "south_flux", "north_flux"}
                  \cup ScratchNames

\* The arrays of context c.
Mine(c) == {c.q, c.dq, c.qqu, c.qqv, <<"negative_counts", c.b>>} \cup CapBuffers(c)

InContext(c) ==
  /\ {c.q, c.dq, c.qqu, c.qqv} \subseteq (BufferNames \ {"negative_counts"}) \X {c.q[2], c.dq[2], c.qqu[2], c.qqv[2]}
  /\ c.q # c.dq /\ c.q # c.qqu /\ c.q # c.qqv
  /\ c.dq # c.qqu /\ c.dq # c.qqv /\ c.qqu # c.qqv

LEMMA PublicNames ==
  /\ \A name \in {"delp1", "delp2", "ua", "va", "jn", "js", "cx", "cy", "pu", "xmass",
                  "ymass", "wz", "courant"} : name \notin PrivateNames
  /\ \A name \in {"cch", "zeh", "termh", "cgs", "kvh", "potbar", "rpdel", "rrho", "tmp1",
                  "surface_flux", "dry_mass"} : name \notin PrivateNames
  /\ \A name \in {"cmfmc", "dtrain", "delp_end", "delp_dry_end", "bmass", "dqrcu",
                  "reevapcn"} : name \notin PrivateNames
PROOF
  BY DEF PrivateNames, BufferNames, ScratchNames

LEMMA ContextApart ==
  ASSUME NEW c, InContext(c)
  PROVE  /\ c.q \notin CapBuffers(c) /\ c.dq \notin CapBuffers(c)
         /\ c.qqu \notin CapBuffers(c) /\ c.qqv \notin CapBuffers(c)
         /\ c.q # c.dq /\ c.q # c.qqu /\ c.q # c.qqv
         /\ c.dq # c.qqu /\ c.dq # c.qqv /\ c.qqu # c.qqv
PROOF
  BY DEF InContext, CapBuffers, BufferNames

-----------------------------------------------------------------------------
(* What a kernel lists is in its zone, or read elsewhere.                  *)

LEMMA LiesWithin ==
  ASSUME NEW S, NEW buf, NEW K, NEW J, NEW I, Lies(S, buf, K, J, I), NEW w, NEW z,
         buf \in z.bufs, K \subseteq z.K, J \subseteq z.J, I \subseteq z.I
  PROVE  Within(S, w, z)
PROOF
  BY DEF Lies, Within, Inside

LEMMA LiesBeyond ==
  ASSUME NEW S, NEW buf, NEW K, NEW J, NEW I, Lies(S, buf, K, J, I), NEW w, NEW z,
         NEW mine, NEW names, buf \in mine \ z.bufs \/ buf[1] \notin names
  PROVE  Allowed(S, w, z, mine, names)
PROOF
  BY DEF Lies, Allowed

LEMMA WithinAllowed ==
  ASSUME NEW S, NEW w, NEW z, NEW mine, NEW names, Within(S, w, z)
  PROVE  Allowed(S, w, z, mine, names)
PROOF
  BY DEF Within, Allowed

\* Sets of cells are put together.
LEMMA AllowedTogether ==
  ASSUME NEW S, NEW T, NEW w, NEW z, NEW mine, NEW names,
         Allowed(S, w, z, mine, names), Allowed(T, w, z, mine, names)
  PROVE  Allowed(S \cup T, w, z, mine, names)
PROOF
  BY DEF Allowed

LEMMA WithinTogether ==
  ASSUME NEW S, NEW T, NEW w, NEW z, Within(S, w, z), Within(T, w, z)
  PROVE  Within(S \cup T, w, z)
PROOF
  BY DEF Within

LEMMA OpConfined ==
  ASSUME NEW S, NEW T, NEW w, NEW z, NEW mine, NEW names,
         Allowed(S, w, z, mine, names), Within(T, w, z)
  PROVE  Confined(Op(S, T), w, z, mine, names)
PROOF
  BY DEF Confined, Op

LEMMA NothingConfined ==
  ASSUME NEW w, NEW z, NEW mine, NEW names
  PROVE  /\ Within({}, w, z) /\ Allowed({}, w, z, mine, names)
         /\ Confined(Nothing, w, z, mine, names)
PROOF
  BY DEF Confined, Op, Nothing, Allowed, Within

\* Shared arrays that no kernel of a block writes.
LEMMA TermBeyond ==
  ASSUME NEW name, NEW names, name \notin names, NEW s, NEW K, NEW J, NEW I,
         NEW w, NEW z, NEW mine
  PROVE  /\ Allowed(Term(name, s, K, J, I), w, z, mine, names)
         /\ Allowed(Fresh(name, s, K, J, I), w, z, mine, names)
PROOF
<1>1. <<name, 0>>[1] \notin names /\ <<name, s>>[1] \notin names
  OBVIOUS
<1>2. /\ Lies(Term(name, s, K, J, I), <<name, 0>>, K, J, I)
      /\ Lies(Fresh(name, s, K, J, I), <<name, s>>, K, J, I)
  BY TermLies
<1>3. QED
  BY <1>1, <1>2, LiesBeyond

LEMMA TracerWithin ==
  ASSUME NEW c, NEW k, NEW K, NEW J, NEW I, NEW w, NEW z,
         K \subseteq z.K, J \subseteq z.J, I \subseteq z.I
  PROVE  /\ c.q \in z.bufs => /\ Within(Entering(c, K, J, I), w, z)
                              /\ Within(Advanced(c, K, J, I), w, z)
         /\ c.q \in z.bufs /\ K = {k} => /\ Within(Averaged(c, k, J, I), w, z)
                                         /\ Within(XAdvanced(c, k, J, I), w, z)
         /\ c.qqu \in z.bufs /\ K = {0} => Within(CrossU(c, k, J, I), w, z)
         /\ c.qqv \in z.bufs /\ K = {0} => Within(CrossV(c, k, J, I), w, z)
         /\ c.dq \in z.bufs => \A fill : Within(AdvectedMass(c, fill, K, J, I), w, z)
PROOF
<1>1. /\ Lies(Entering(c, K, J, I), c.q, K, J, I)
      /\ Lies(Averaged(c, k, J, I), c.q, {k}, J, I)
      /\ Lies(XAdvanced(c, k, J, I), c.q, {k}, J, I)
      /\ Lies(Advanced(c, K, J, I), c.q, K, J, I)
      /\ Lies(CrossU(c, k, J, I), c.qqu, {0}, J, I)
      /\ Lies(CrossV(c, k, J, I), c.qqv, {0}, J, I)
      /\ \A fill : Lies(AdvectedMass(c, fill, K, J, I), c.dq, K, J, I)
  BY TracerLies, MassLies
<1>2. QED
  BY <1>1, LiesWithin

LEMMA TracerBeyond ==
  ASSUME NEW c, NEW k, NEW K, NEW J, NEW I, NEW w, NEW z, NEW names
  PROVE  /\ c.q \notin z.bufs =>
              /\ Allowed(Entering(c, K, J, I), w, z, Mine(c), names)
              /\ Allowed(Advanced(c, K, J, I), w, z, Mine(c), names)
              /\ Allowed(Averaged(c, k, J, I), w, z, Mine(c), names)
              /\ Allowed(XAdvanced(c, k, J, I), w, z, Mine(c), names)
         /\ c.qqu \notin z.bufs => Allowed(CrossU(c, k, J, I), w, z, Mine(c), names)
         /\ c.qqv \notin z.bufs => Allowed(CrossV(c, k, J, I), w, z, Mine(c), names)
PROOF
<1>1. c.q \in Mine(c) /\ c.qqu \in Mine(c) /\ c.qqv \in Mine(c)
  BY DEF Mine
<1>2. /\ Lies(Entering(c, K, J, I), c.q, K, J, I)
      /\ Lies(Averaged(c, k, J, I), c.q, {k}, J, I)
      /\ Lies(XAdvanced(c, k, J, I), c.q, {k}, J, I)
      /\ Lies(Advanced(c, K, J, I), c.q, K, J, I)
      /\ Lies(CrossU(c, k, J, I), c.qqu, {0}, J, I)
      /\ Lies(CrossV(c, k, J, I), c.qqv, {0}, J, I)
  BY TracerLies
<1>3. QED
  BY <1>1, <1>2, LiesBeyond

-----------------------------------------------------------------------------
(* The advection kernels, each confined to what its iteration may touch.   *)

\* The kernels over rows: row j of what they write.
LEMMA CrossTermsConfined ==
  ASSUME NEW c, InContext(c), NEW k, NEW w, NEW j \in Rows
  PROVE  /\ Confined(CrossTermsCap(c, k, w, j), w, Zone({c.qqu, c.qqv}, {0}, {j}, Cols),
                     Mine(c), PrivateNames)
         /\ Confined(CrossTermsRow(c, k, w, j), w, Zone({c.qqu, c.qqv}, {0}, {j}, Cols),
                     Mine(c), PrivateNames)
PROOF
<1> DEFINE z == Zone({c.qqu, c.qqv}, {0}, {j}, Cols)
<1>1. /\ c.q \notin z.bufs /\ c.qqu \in z.bufs /\ c.qqv \in z.bufs
      /\ {0} \subseteq z.K /\ {j} \subseteq z.J /\ Cols \subseteq z.I
  BY ContextApart DEF Zone
<1> HIDE DEF z
<1>2. /\ Allowed(Averaged(c, k, {j}, Cols), w, z, Mine(c), PrivateNames)
      /\ Allowed(Averaged(c, k, Rows, Cols), w, z, Mine(c), PrivateNames)
  BY <1>1, TracerBeyond
<1>3. Within(CrossU(c, k, {j}, Cols), w, z) /\ Within(CrossV(c, k, {j}, Cols), w, z)
  BY <1>1, TracerWithin
<1>4. /\ Allowed(Term("ua", c.s, {k}, {j}, Cols), w, z, Mine(c), PrivateNames)
      /\ Allowed(Term("va", c.s, {k}, {j}, Cols), w, z, Mine(c), PrivateNames)
      /\ Allowed(Term("jn", c.s, {k}, {0}, {0}), w, z, Mine(c), PrivateNames)
      /\ Allowed(Term("js", c.s, {k}, {0}, {0}), w, z, Mine(c), PrivateNames)
  BY PublicNames, TermBeyond
<1>5. Confined(CrossTermsCap(c, k, w, j), w, z, Mine(c), PrivateNames)
  BY <1>2, <1>3, WithinTogether, OpConfined DEF CrossTermsCap
<1>6. Confined(CrossTermsRow(c, k, w, j), w, z, Mine(c), PrivateNames)
  BY <1>2, <1>3, <1>4, AllowedTogether, WithinTogether, OpConfined DEF CrossTermsRow
<1>7. QED
  BY <1>5, <1>6 DEF z

LEMMA HoldWithin ==
  ASSUME NEW buf, NEW K, NEW J, NEW I, NEW name, NEW c, NEW w, NEW z,
         buf \in z.bufs, K \subseteq z.K, J \subseteq z.J, I \subseteq z.I
  PROVE  Within(Hold(buf, K, J, I, name, c), w, z)
PROOF
  BY HoldLies, LiesWithin

LEMMA HoldBeyond ==
  ASSUME NEW buf, NEW K, NEW J, NEW I, NEW name, NEW c, NEW w, NEW z, NEW mine, NEW names,
         buf \in mine \ z.bufs
  PROVE  Allowed(Hold(buf, K, J, I, name, c), w, z, mine, names)
PROOF
  BY HoldLies, LiesBeyond

LEMMA PlaneWithin ==
  ASSUME NEW buf, NEW k, NEW J, NEW I, NEW name, NEW c, NEW w, NEW z,
         buf \in z.bufs, 0 \in z.K, J \subseteq z.J, I \subseteq z.I
  PROVE  Within(Plane(buf, k, J, I, name, c), w, z)
PROOF
  BY PlaneLies, LiesWithin

LEMMA CapsWithin ==
  ASSUME NEW c, NEW k, NEW I, NEW pair \in {"dao2", "flux"}, NEW w, NEW z,
         CapBuffers(c) \subseteq z.bufs, 0 \in z.K, 0 \in z.J, I \subseteq z.I
  PROVE  Within(Caps(pair, k, I, c), w, z)
PROOF
  BY CapsLie DEF Within, Inside

LEMMA ScratchWithin ==
  ASSUME NEW name \in ScratchNames, NEW w, NEW value, NEW k, NEW x, NEW c, NEW j, NEW s, NEW z
  PROVE  /\ Within(Scratch(name, w, k, x, c), w, z)
         /\ Within(RowScratch(name, s, w, j), w, z)
PROOF
  BY ScratchOf DEF Within

LEMMA InitDqMassConfined ==
  ASSUME NEW c, InContext(c), NEW k, NEW w, NEW cell
  PROVE  Confined(InitDqMass(c, k, w, cell), w,
                  Zone({c.dq}, {k}, {cell \div NLon}, {cell % NLon}), Mine(c), PrivateNames)
PROOF
<1> DEFINE j == cell \div NLon
           i == cell % NLon
           z == Zone({c.dq}, {k}, {j}, {i})
<1>1. /\ c.q \notin z.bufs /\ c.dq \in z.bufs
      /\ {k} \subseteq z.K /\ {j} \subseteq z.J /\ {i} \subseteq z.I
  BY ContextApart DEF Zone
<1>2. InitDqMass(c, k, w, cell)
        = Op(Averaged(c, k, {j}, {i}) \cup Term("delp1", c.s, {k}, {j}, {i}),
             Hold(c.dq, {k}, {j}, {i}, "mass", c))
  BY DEF InitDqMass
<1> HIDE DEF z, i, j
<1>3. Allowed(Averaged(c, k, {j}, {i}), w, z, Mine(c), PrivateNames)
  BY <1>1, TracerBeyond
<1>4. Allowed(Term("delp1", c.s, {k}, {j}, {i}), w, z, Mine(c), PrivateNames)
  BY PublicNames, TermBeyond
<1>5. Within(Hold(c.dq, {k}, {j}, {i}, "mass", c), w, z)
  BY <1>1, HoldWithin
<1>6. Confined(InitDqMass(c, k, w, cell), w, z, Mine(c), PrivateNames)
  BY <1>2, <1>3, <1>4, <1>5, AllowedTogether, OpConfined
<1>7. QED
  BY <1>6 DEF z, i, j

LEMMA AdvDao2Confined ==
  ASSUME NEW c, InContext(c), NEW k, NEW w, NEW j \in Rows
  PROVE  /\ Confined(XAdvDao2Row(c, k, w, j), w, Zone({c.q}, {k}, {j}, Cols),
                     Mine(c), PrivateNames)
         /\ Confined(YAdvDao2Row(c, k, w, j), w, Zone({c.q}, {k}, {j}, Cols),
                     Mine(c), PrivateNames)
PROOF
<1> DEFINE z == Zone({c.q}, {k}, {j}, Cols)
<1>1. /\ c.q \in z.bufs /\ c.qqu \notin z.bufs /\ c.qqv \notin z.bufs
      /\ {k} \subseteq z.K /\ {j} \subseteq z.J /\ Cols \subseteq z.I
  BY ContextApart DEF Zone
<1> HIDE DEF z
<1>2. /\ Allowed(CrossV(c, k, {j}, Cols), w, z, Mine(c), PrivateNames)
      /\ Allowed(CrossU(c, k, Rows, Cols), w, z, Mine(c), PrivateNames)
  BY <1>1, TracerBeyond
<1>3. /\ Within(Averaged(c, k, {j}, Cols), w, z)
      /\ Within(XAdvanced(c, k, {j}, Cols), w, z)
      /\ Within(Advanced(c, {k}, {j}, Cols), w, z)
  BY <1>1, TracerWithin
<1>4. /\ Allowed(Averaged(c, k, {j}, Cols), w, z, Mine(c), PrivateNames)
      /\ Allowed(XAdvanced(c, k, {j}, Cols), w, z, Mine(c), PrivateNames)
  BY <1>3, WithinAllowed
<1>5. /\ Allowed(Term("ua", c.s, {k}, {j}, Cols), w, z, Mine(c), PrivateNames)
      /\ Allowed(Term("va", c.s, {k}, {j}, Cols), w, z, Mine(c), PrivateNames)
  BY PublicNames, TermBeyond
<1>6. Confined(XAdvDao2Row(c, k, w, j), w, z, Mine(c), PrivateNames)
  BY <1>2, <1>3, <1>4, <1>5, AllowedTogether, OpConfined DEF XAdvDao2Row
<1>7. Confined(YAdvDao2Row(c, k, w, j), w, z, Mine(c), PrivateNames)
  BY <1>2, <1>3, <1>4, <1>5, AllowedTogether, OpConfined DEF YAdvDao2Row
<1>8. QED
  BY <1>6, <1>7 DEF z

LEMMA YAdvDao2FluxConfined ==
  ASSUME NEW c, InContext(c), NEW k, NEW w, NEW i
  PROVE  Confined(YAdvDao2Flux(c, k, w, i), w, Zone(CapBuffers(c), {0}, {0}, {i}),
                  Mine(c), PrivateNames)
PROOF
<1> DEFINE z == Zone(CapBuffers(c), {0}, {0}, {i})
<1>1. /\ c.qqu \notin z.bufs /\ CapBuffers(c) \subseteq z.bufs
      /\ 0 \in z.K /\ 0 \in z.J /\ {i} \subseteq z.I
  BY ContextApart DEF Zone
<1> HIDE DEF z
<1>2. Allowed(CrossU(c, k, Rows, {i}), w, z, Mine(c), PrivateNames)
  BY <1>1, TracerBeyond
<1>3. Within(Caps("dao2", k, {i}, c), w, z)
  BY <1>1, CapsWithin
<1>4. Allowed(Term("va", c.s, {k}, CapRows, {i}), w, z, Mine(c), PrivateNames)
  BY PublicNames, TermBeyond
<1>5. Confined(YAdvDao2Flux(c, k, w, i), w, z, Mine(c), PrivateNames)
  BY <1>2, <1>3, <1>4, AllowedTogether, OpConfined DEF YAdvDao2Flux
<1>6. QED
  BY <1>5 DEF z

LEMMA XtpConfined ==
  ASSUME NEW c, InContext(c), NEW k, NEW w, NEW j \in Rows
  PROVE  Confined(XtpRow(c, k, w, j), w, Zone({c.dq}, {k}, {j}, Cols), Mine(c), PrivateNames)
PROOF
<1> DEFINE z == Zone({c.dq}, {k}, {j}, Cols)
           A(S) == Allowed(S, w, z, Mine(c), PrivateNames)
           C(op) == Confined(op, w, z, Mine(c), PrivateNames)
           ops == <<XtpSlopes(c, k, w, j), XtpParabola(c, k, w, j),
                    XtpFlux(c, k, w, j), XtpApply(c, k, w, j)>>
<1>1. /\ c.dq \in z.bufs /\ c.qqv \notin z.bufs
      /\ {k} \subseteq z.K /\ {j} \subseteq z.J /\ Cols \subseteq z.I
  BY ContextApart DEF Zone
<1> HIDE DEF z
<1>2. A(CrossV(c, k, {j}, Cols))
  BY <1>1, TracerBeyond
<1>3. /\ Within(Scratch("dcx", w, k, j, c), w, z)
      /\ Within(Scratch("x_parabola", w, k, j, c), w, z)
      /\ Within(Scratch("fx", w, k, j, c), w, z)
  BY ScratchWithin DEF ScratchNames
<1>4. /\ A(Scratch("dcx", w, k, j, c)) /\ A(Scratch("x_parabola", w, k, j, c))
      /\ A(Scratch("fx", w, k, j, c))
  BY <1>3, WithinAllowed
<1>5. /\ A(Term("cx", c.s, {k}, {j}, Cols)) /\ A(Term("pu", c.s, {k}, {j}, Cols))
      /\ A(Term("xmass", c.s, {k}, {j}, Cols))
      /\ A(Term("jn", c.s, {k}, {0}, {0})) /\ A(Term("js", c.s, {k}, {0}, {0}))
  BY PublicNames, TermBeyond
<1>6. /\ Within(Hold(c.dq, {k}, {j}, Cols, "mass", c), w, z)
      /\ Within(Hold(c.dq, {k}, {j}, Cols, "x_transported", c), w, z)
  BY <1>1, HoldWithin
<1>7. A(Hold(c.dq, {k}, {j}, Cols, "mass", c))
  BY <1>6, WithinAllowed
<1>8. A({}) /\ C(Nothing)
  BY NothingConfined
<1>9. C(XtpSlopes(c, k, w, j))
  BY <1>2, <1>3, <1>8, OpConfined DEF XtpSlopes
<1>10. C(XtpParabola(c, k, w, j))
  BY <1>2, <1>3, <1>4, <1>8, AllowedTogether, OpConfined DEF XtpParabola
<1>11. C(XtpFlux(c, k, w, j))
  <2>1. A(IF Edge(j) THEN {} ELSE Scratch("dcx", w, k, j, c))
    BY <1>4, <1>8
  <2>2. A(IF NearCap(j) THEN {} ELSE Scratch("x_parabola", w, k, j, c))
    BY <1>4, <1>8
  <2>3. QED
    BY <1>2, <1>3, <1>5, <2>1, <2>2, AllowedTogether, OpConfined DEF XtpFlux
<1>12. C(XtpApply(c, k, w, j))
  BY <1>4, <1>6, <1>7, AllowedTogether, OpConfined DEF XtpApply
<1>13. DOMAIN ops = 1 .. 4 /\ \A i \in 1 .. 4 : C(ops[i])
  BY <1>9, <1>10, <1>11, <1>12
<1>14. XtpRow(c, k, w, j) = FusedAll(ops)
  BY DEF XtpRow
<1> HIDE DEF ops
<1>15. C(FusedAll(ops))
  BY <1>13, FusedAllConfined
<1>16. QED
  BY <1>14, <1>15 DEF z

LEMMA GridZero ==
  /\ 0 \in Levels /\ 0 \in Rows /\ 0 \in Cols
  /\ J1P .. J2P + 1 \subseteq Rows /\ Interior \subseteq Rows /\ Polar \subseteq Rows
  /\ PoleRows \subseteq Rows /\ CapRows \subseteq Rows
PROOF
  BY GridAssumption DEF Levels, Rows, Cols, J1P, J2P, Interior, Polar, PoleRows, CapRows

LEMMA YtpConfined ==
  ASSUME NEW c, InContext(c), NEW k, NEW w, NEW i
  PROVE  Confined(YtpColumn(c, k, w, i), w,
                  Zone({c.dq, c.qqv} \cup CapBuffers(c), {0, k}, Rows, {i}),
                  Mine(c), PrivateNames)
PROOF
<1> DEFINE z == Zone({c.dq, c.qqv} \cup CapBuffers(c), {0, k}, Rows, {i})
           A(S) == Allowed(S, w, z, Mine(c), PrivateNames)
           C(op) == Confined(op, w, z, Mine(c), PrivateNames)
           ops == <<YtpParabola(c, k, w, i), YtpFlux(c, k, w, i), YtpApply(c, k, w, i)>>
<1>1. /\ c.dq \in z.bufs /\ c.qqv \in z.bufs /\ c.qqu \notin z.bufs /\ CapBuffers(c) \subseteq z.bufs
      /\ {k} \subseteq z.K /\ 0 \in z.K /\ 0 \in z.J /\ {i} \subseteq z.I
      /\ J1P .. J2P + 1 \subseteq z.J /\ Interior \subseteq z.J
  BY ContextApart, GridZero DEF Zone
<1> HIDE DEF z
<1>2. A(CrossU(c, k, Rows, {i}))
  BY <1>1, TracerBeyond
<1>3. Within(Scratch("y_parabola", w, k, i, c), w, z)
  BY ScratchWithin DEF ScratchNames
<1>4. A(Scratch("y_parabola", w, k, i, c))
  BY <1>3, WithinAllowed
<1>5. /\ A(Term("cy", c.s, {k}, J1P .. J2P + 1, {i}))
      /\ A(Term("ymass", c.s, {k}, J1P .. J2P + 1, {i}))
  BY PublicNames, TermBeyond
<1>6. /\ Within(Hold(c.dq, {k}, Interior, {i}, "x_transported", c), w, z)
      /\ Within(Hold(c.dq, {k}, Interior, {i}, "transported", c), w, z)
  BY <1>1, HoldWithin
<1>7. Within(Plane(c.qqv, k, J1P .. J2P + 1, {i}, "y_flux", c), w, z)
  BY <1>1, PlaneWithin
<1>8. Within(Caps("flux", k, {i}, c), w, z)
  BY <1>1, CapsWithin
<1>9. /\ A(Hold(c.dq, {k}, Interior, {i}, "x_transported", c))
      /\ A(Plane(c.qqv, k, J1P .. J2P + 1, {i}, "y_flux", c))
  BY <1>6, <1>7, WithinAllowed
<1>10. C(YtpParabola(c, k, w, i))
  BY <1>2, <1>3, OpConfined DEF YtpParabola
<1>11. C(YtpFlux(c, k, w, i))
  BY <1>4, <1>5, <1>7, AllowedTogether, OpConfined DEF YtpFlux
<1>12. C(YtpApply(c, k, w, i))
  BY <1>6, <1>8, <1>9, AllowedTogether, WithinTogether, OpConfined DEF YtpApply
<1>13. DOMAIN ops = 1 .. 3 /\ \A x \in 1 .. 3 : C(ops[x])
  BY <1>10, <1>11, <1>12
<1>14. YtpColumn(c, k, w, i) = FusedAll(ops)
  BY DEF YtpColumn
<1> HIDE DEF ops
<1>15. C(FusedAll(ops))
  BY <1>13, FusedAllConfined
<1>16. QED
  BY <1>14, <1>15 DEF z

LEMMA FzppmConfined ==
  ASSUME NEW c, InContext(c), NEW w, NEW j \in Rows
  PROVE  Confined(FzppmRow(c, w, j), w, Zone({c.dq}, Levels, {j}, Cols), Mine(c), PrivateNames)
PROOF
<1> DEFINE z == Zone({c.dq}, Levels, {j}, Cols)
           A(S) == Allowed(S, w, z, Mine(c), PrivateNames)
           C(op) == Confined(op, w, z, Mine(c), PrivateNames)
<1>1. /\ c.dq \in z.bufs /\ c.q \notin z.bufs
      /\ Levels \subseteq z.K /\ {j} \subseteq z.J /\ Cols \subseteq z.I
  BY ContextApart DEF Zone
<1> HIDE DEF z
<1>2. A(Advanced(c, Levels, {j}, Cols))
  BY <1>1, TracerBeyond
<1>3. Within(Scratch("z_parabola", w, 0, j, c), w, z)
  BY ScratchWithin DEF ScratchNames
<1>4. A(Scratch("z_parabola", w, 0, j, c))
  BY <1>3, WithinAllowed
<1>5. /\ A(Term("delp1", c.s, Levels, {j}, Cols)) /\ A(Term("wz", c.s, Levels, {j}, Cols))
      /\ A(Term("courant", c.s, Levels, {j}, Cols))
  BY PublicNames, TermBeyond
<1>6. /\ Within(Hold(c.dq, Levels, {j}, Cols, "transported", c), w, z)
      /\ Within(Hold(c.dq, Levels, {j}, Cols, "advected", c), w, z)
  BY <1>1, HoldWithin
<1>7. A(Hold(c.dq, Levels, {j}, Cols, "transported", c))
  BY <1>6, WithinAllowed
<1>8. C(FzppmParabola(c, w, j))
  BY <1>2, <1>3, <1>5, AllowedTogether, OpConfined DEF FzppmParabola
<1>9. C(FzppmFlux(c, w, j))
  <2>1. A(IF c.courant THEN Term("courant", c.s, Levels, {j}, Cols)
                       ELSE Term("delp1", c.s, Levels, {j}, Cols))
    BY <1>5
  <2>2. QED
    BY <1>4, <1>5, <1>6, <1>7, <2>1, AllowedTogether, OpConfined DEF FzppmFlux
<1>10. C(FzppmRow(c, w, j))
  BY <1>8, <1>9, FusedConfined DEF FzppmRow
<1>11. QED
  BY <1>10 DEF z

LEMMA QckxyzConfined ==
  ASSUME NEW c, InContext(c), NEW w, NEW column
  PROVE  Confined(QckxyzColumn(c, w, column), w,
                  Zone({c.dq}, Levels, {J1P + column \div NLon}, {column % NLon}),
                  Mine(c), PrivateNames)
PROOF
<1> DEFINE j == J1P + column \div NLon
           i == column % NLon
           z == Zone({c.dq}, Levels, {j}, {i})
<1>1. /\ c.dq \in z.bufs /\ Levels \subseteq z.K /\ {j} \subseteq z.J /\ {i} \subseteq z.I
  BY DEF Zone
<1>2. QckxyzColumn(c, w, column)
        = Op(Hold(c.dq, Levels, {j}, {i}, "advected", c),
             Hold(c.dq, Levels, {j}, {i}, "filled", c))
  BY DEF QckxyzColumn
<1> HIDE DEF z, i, j
<1>3. /\ Within(Hold(c.dq, Levels, {j}, {i}, "advected", c), w, z)
      /\ Within(Hold(c.dq, Levels, {j}, {i}, "filled", c), w, z)
  BY <1>1, HoldWithin
<1>4. Confined(QckxyzColumn(c, w, column), w, z, Mine(c), PrivateNames)
  BY <1>2, <1>3, WithinAllowed, OpConfined
<1>5. QED
  BY <1>4 DEF z, i, j

LEMMA FinalizeConfined ==
  ASSUME NEW c, InContext(c), NEW fill, NEW w, NEW k
  PROVE  /\ Confined(FinalizeLevel(c, fill, w, k), w, Zone({c.dq}, {k}, Rows, Cols),
                     Mine(c), PrivateNames)
         /\ Confined(FinalizeDeferredPoles(c, w, k), w, Zone({c.dq}, {k}, Rows, Cols),
                     Mine(c), PrivateNames)
PROOF
<1> DEFINE z == Zone({c.dq}, {k}, Rows, Cols)
           A(S) == Allowed(S, w, z, Mine(c), PrivateNames)
           C(op) == Confined(op, w, z, Mine(c), PrivateNames)
           body == Rows \ CapRows
<1>1. /\ c.dq \in z.bufs /\ {k} \subseteq z.K /\ Rows \subseteq z.J /\ Cols \subseteq z.I
      /\ body \subseteq z.J /\ PoleRows \subseteq z.J /\ CapRows \subseteq z.J
  BY GridZero DEF Zone
<1> HIDE DEF z
<1>2. /\ Within(AdvectedMass(c, fill, {k}, body, Cols), w, z)
      /\ Within(Hold(c.dq, {k}, Rows, Cols, "mixing_ratio", c), w, z)
      /\ Within(Hold(c.dq, {k}, PoleRows, Cols, "advected", c), w, z)
      /\ Within(Hold(c.dq, {k}, CapRows, Cols, "mixing_ratio", c), w, z)
  BY <1>1, HoldWithin, TracerWithin
<1>3. /\ A(AdvectedMass(c, fill, {k}, body, Cols))
      /\ A(Hold(c.dq, {k}, PoleRows, Cols, "advected", c))
  BY <1>2, WithinAllowed
<1>4. /\ A(Term("delp2", c.s, {k}, body, Cols)) /\ A(Term("delp2", c.s, {k}, PoleRows, Cols))
  BY PublicNames, TermBeyond
<1>5. C(FinalizeLevel(c, fill, w, k))
  BY <1>2, <1>3, <1>4, AllowedTogether, OpConfined DEF FinalizeLevel
<1>6. C(FinalizeDeferredPoles(c, w, k))
  BY <1>2, <1>3, <1>4, AllowedTogether, OpConfined DEF FinalizeDeferredPoles
<1>7. QED
  BY <1>5, <1>6 DEF z

\* The cross winds, which are the plan's: nothing of a block.
WindArrays == {<<"ua", 0>>, <<"va", 0>>}
WindNames  == {"ua", "va"} \cup ScratchNames

LEMMA SetCrossTermsConfined ==
  ASSUME NEW c, NEW w, NEW k
  PROVE  Confined(SetCrossTermsLevel(c, w, k), w, Zone(WindArrays, {k}, Rows, Cols),
                  WindArrays, WindNames)
PROOF
<1> DEFINE z == Zone(WindArrays, {k}, Rows, Cols)
           A(S) == Allowed(S, w, z, WindArrays, WindNames)
<1>1. /\ <<"ua", 0>> \in z.bufs /\ <<"va", 0>> \in z.bufs
      /\ {k} \subseteq z.K /\ Rows \subseteq z.J /\ Cols \subseteq z.I
  BY DEF Zone, WindArrays
<1> HIDE DEF z
<1>2. "cx" \notin WindNames /\ "cy" \notin WindNames
  BY DEF WindNames, ScratchNames
<1>3. A(Term("cx", c.s, {k}, Interior, Cols)) /\ A(Term("cy", c.s, {k}, 1 .. NLat - 1, Cols))
  BY <1>2, TermBeyond
<1>4. /\ Within(Term("ua", c.s, {k}, Rows, Cols), w, z)
      /\ Within(Term("va", c.s, {k}, Rows, Cols), w, z)
  BY <1>1, TermLies, LiesWithin
<1>5. Confined(SetCrossTermsLevel(c, w, k), w, z, WindArrays, WindNames)
  BY <1>3, <1>4, AllowedTogether, WithinTogether, OpConfined DEF SetCrossTermsLevel
<1>6. QED
  BY <1>5 DEF z

-----------------------------------------------------------------------------
(* Diffusion and convection.                                               *)

\* The plan of the diffusion, which the whole team makes row by row.
PlanNames == {"cch", "zeh", "termh", "cgs", "kvh", "potbar", "rpdel", "rrho", "tmp1",
              "sphu_after"}
PlanArrays == PlanNames \X {0}

LEMMA VdiffPlanConfined ==
  ASSUME NEW s, NEW w, NEW j \in Rows
  PROVE  Confined(VdiffPlanRow(s, w, j), w, Zone(PlanArrays, Edges, {j}, Cols),
                  PlanArrays, PlanNames \cup ScratchNames)
PROOF
<1> DEFINE names == PlanNames \cup ScratchNames
           z == Zone(PlanArrays, Edges, {j}, Cols)
           A(S) == Allowed(S, w, z, PlanArrays, names)
           W(S) == Within(S, w, z)
           C(op) == Confined(op, w, z, PlanArrays, names)
           R(name) == RowScratch(name, s, w, j)
           ops == <<VdiffColumns(s, w, j), VdiffFreeDiffusivity(s, w, j),
                    VdiffPblDiffusivity(s, w, j), VdiffScalarSource(s, w, j),
                    VdiffRecurrence(s, w, j), CapturePlan(s, w, j), SolveHumidity(s, w, j)>>
<1>1. /\ \A name \in PlanNames : <<name, 0>> \in z.bufs
      /\ Levels \subseteq z.K /\ Edges \subseteq z.K /\ {0} \subseteq z.K
      /\ Levels \ {0} \subseteq z.K /\ Levels \ {Bottom} \subseteq z.K
      /\ {Bottom} \subseteq z.K /\ {j} \subseteq z.J /\ Cols \subseteq z.I
  BY GridAssumption DEF Zone, PlanArrays, Levels, Edges, Bottom
<1>2. \A name \in {"u", "v", "t", "sphu", "pmid", "tv", "bxheight", "pint", "surface_met"} :
        name \notin names
  BY DEF PlanNames, ScratchNames
<1> HIDE DEF z, names
<1>3. A(VdiffMeteorology(s, j))
  <2> DEFINE F == {"u", "v", "t", "sphu", "pmid", "tv", "bxheight"}
             U == UNION {Term(field, s, Levels, {j}, Cols) : field \in F}
  <2>1. \A field \in F : A(Term(field, s, Levels, {j}, Cols))
    BY <1>2, TermBeyond
  <2>2. A(U)
    <3> HIDE DEF F
    <3>1. QED
      BY <2>1 DEF Allowed
  <2>3. A(Term("pint", s, Edges, {j}, Cols)) /\ A(Term("surface_met", s, {0}, {j}, Cols))
    BY <1>2, TermBeyond
  <2> HIDE DEF U
  <2>4. A((U \cup Term("pint", s, Edges, {j}, Cols)) \cup Term("surface_met", s, {0}, {j}, Cols))
    BY <2>2, <2>3, AllowedTogether
  <2>5. QED
    BY <2>4 DEF VdiffMeteorology, U
<1>4. \A name \in ScratchNames : W(R(name)) /\ A(R(name))
  BY ScratchWithin, WithinAllowed
<1>5. /\ A(R("thp_zm_rpdel")) /\ A(R("kvf")) /\ A(R("kvh_cgs")) /\ A(R("potbar_shmx"))
      /\ A(R("cch_zeh_termh"))
  BY <1>4 DEF ScratchNames
<1>6. /\ W(R("thp_zm_rpdel")) /\ W(R("kvf")) /\ W(R("kvh_cgs")) /\ W(R("potbar_shmx"))
      /\ W(R("cch_zeh_termh"))
  BY <1>4 DEF ScratchNames
<1>7. ASSUME NEW name \in PlanNames, NEW K \in SUBSET z.K
      PROVE  W(Term(name, s, K, {j}, Cols))
  <2>1. Lies(Term(name, s, K, {j}, Cols), <<name, 0>>, K, {j}, Cols)
    BY TermLies
  <2>2. <<name, 0>> \in z.bufs /\ K \subseteq z.K
    BY <1>1
  <2>3. QED
    BY <1>1, <2>1, <2>2, LiesWithin
<1>8. W(Coefficients(s, j))
  <2>1. /\ W(Term("cch", s, Levels \ {0}, {j}, Cols))
        /\ W(Term("zeh", s, Levels \ {Bottom}, {j}, Cols))
        /\ W(Term("termh", s, Levels \ {Bottom}, {j}, Cols))
    BY <1>1, <1>7 DEF PlanNames
  <2>2. QED
    BY <2>1, WithinTogether DEF Coefficients
<1>9. W(UndefinedCoefficients(j))
  <2>1. /\ <<"cch", 0>> \in z.bufs /\ <<"zeh", 0>> \in z.bufs /\ <<"termh", 0>> \in z.bufs
    BY <1>1 DEF PlanNames
  <2> DEFINE a == At(<<"cch", 0>>, {0}, {j}, Cols) \X {Garbage}
             b == At(<<"zeh", 0>>, {Bottom}, {j}, Cols) \X {Garbage}
             d == At(<<"termh", 0>>, {Bottom}, {j}, Cols) \X {Garbage}
  <2>2. /\ Lies(a, <<"cch", 0>>, {0}, {j}, Cols) /\ Lies(b, <<"zeh", 0>>, {Bottom}, {j}, Cols)
        /\ Lies(d, <<"termh", 0>>, {Bottom}, {j}, Cols)
    BY AtLies
  <2> HIDE DEF a, b, d
  <2>3. W(a) /\ W(b) /\ W(d)
    BY <1>1, <2>1, <2>2, LiesWithin
  <2>4. W((a \cup b) \cup d)
    BY <2>3, WithinTogether
  <2>5. QED
    BY <2>4 DEF UndefinedCoefficients, a, b, d
<1>10. W(CounterGradient(s, j))
  <2> DEFINE F == {"cgs", "kvh", "potbar"}
             U == UNION {Term(field, s, Edges, {j}, Cols) : field \in F}
  <2>1. \A field \in F : W(Term(field, s, Edges, {j}, Cols))
    BY <1>1, <1>7 DEF PlanNames
  <2>2. W(U)
    <3> HIDE DEF F
    <3>1. QED
      BY <2>1 DEF Within
  <2>3. /\ W(Term("rpdel", s, Levels, {j}, Cols)) /\ W(Term("rrho", s, {0}, {j}, Cols))
        /\ W(Term("tmp1", s, {0}, {j}, Cols))
    BY <1>1, <1>7 DEF PlanNames
  <2> HIDE DEF U
  <2>4. W(((U \cup Term("rpdel", s, Levels, {j}, Cols))
              \cup Term("rrho", s, {0}, {j}, Cols)) \cup Term("tmp1", s, {0}, {j}, Cols))
    BY <2>2, <2>3, WithinTogether
  <2>5. QED
    BY <2>4 DEF CounterGradient, U
<1>11. C(VdiffColumns(s, w, j)) /\ C(VdiffFreeDiffusivity(s, w, j))
  BY <1>3, <1>5, <1>6, AllowedTogether, OpConfined DEF VdiffColumns, VdiffFreeDiffusivity
<1>12. C(VdiffPblDiffusivity(s, w, j)) /\ C(VdiffScalarSource(s, w, j))
  BY <1>3, <1>5, <1>6, AllowedTogether, OpConfined DEF VdiffPblDiffusivity, VdiffScalarSource
<1>13. C(VdiffRecurrence(s, w, j))
  <2> DEFINE F == {"kvh_cgs", "thp_zm_rpdel", "potbar_shmx"}
  <2>1. \A name \in F : A(R(name))
    BY <1>5
  <2>2. A(UNION {R(name) : name \in F})
    <3> HIDE DEF F
    <3>1. QED
      BY <2>1 DEF Allowed
  <2>3. QED
    BY <1>6, <2>2, OpConfined DEF VdiffRecurrence
<1>14. C(CapturePlan(s, w, j))
  <2> DEFINE F == {"kvh_cgs", "thp_zm_rpdel", "potbar_shmx", "cch_zeh_termh"}
  <2>1. \A name \in F : A(R(name))
    BY <1>5
  <2>2. A(UNION {R(name) : name \in F})
    <3> HIDE DEF F
    <3>1. QED
      BY <2>1 DEF Allowed
  <2>3. QED
    BY <1>8, <1>9, <1>10, <2>2, WithinTogether, OpConfined DEF CapturePlan
<1>15. C(SolveHumidity(s, w, j))
  <2>1. W(Term("sphu_after", s, Levels, {j}, Cols))
    BY <1>1, <1>7 DEF PlanNames
  <2>2. QED
    BY <1>5, <2>1, AllowedTogether, OpConfined DEF SolveHumidity
<1>16. DOMAIN ops = 1 .. 7 /\ \A x \in 1 .. 7 : C(ops[x])
  BY <1>11, <1>12, <1>13, <1>14, <1>15
<1>17. VdiffPlanRow(s, w, j) = FusedAll(ops)
  BY DEF VdiffPlanRow
<1> HIDE DEF ops
<1>18. C(FusedAll(ops))
  BY <1>16, FusedAllConfined
<1>19. QED
  BY <1>17, <1>18 DEF z, names

\* Read from an array of the block that is not being written.
LEMMA MassBeyond ==
  ASSUME NEW c, NEW fill, NEW K, NEW J, NEW I, NEW w, NEW z, NEW names, c.dq \notin z.bufs
  PROVE  Allowed(AdvectedMass(c, fill, K, J, I), w, z, Mine(c), names)
PROOF
<1>1. c.dq \in Mine(c) \ z.bufs
  BY DEF Mine
<1>2. Lies(AdvectedMass(c, fill, K, J, I), c.dq, K, J, I)
  BY MassLies
<1>3. QED
  BY <1>1, <1>2, LiesBeyond

LEMMA PieceBeyond ==
  ASSUME NEW name, NEW owner, NEW value, NEW names, name \notin names, NEW w, NEW z, NEW mine
  PROVE  Allowed(Piece(name, owner, value), w, z, mine, names)
PROOF
<1>1. <<name, owner>>[1] \notin names
  OBVIOUS
<1>2. QED
  BY <1>1, PieceLies, LiesBeyond

LEMMA VdiffRowConfined ==
  ASSUME NEW c, InContext(c), NEW fill, NEW deferred, NEW flux, NEW w, NEW j \in Rows
  PROVE  Confined(VdiffRow(c, fill, deferred, flux, w, j), w, Zone({c.q}, Levels, {j}, Cols),
                  Mine(c), PrivateNames)
PROOF
<1> DEFINE z == Zone({c.q}, Levels, {j}, Cols)
           A(S) == Allowed(S, w, z, Mine(c), PrivateNames)
           W(S) == Within(S, w, z)
           C(op) == Confined(op, w, z, Mine(c), PrivateNames)
           input == VdiffInput(c, fill, deferred, j)
           flow == Piece("surface_flux", c.b, <<"surface_flux", c.s, c.b>>)
           dry == Fresh("dry_mass", c.s, Levels, {j}, Cols)
           T(name, K) == Term(name, c.s, K, {j}, Cols)
           S(name) == Scratch(name, w, 0, j, c)
           ops == <<VdiffSource(c, fill, deferred, flux, w, j),
                    VdiffSweep(c, fill, deferred, flux, w, j), VdiffRescale(c, w, j)>>
<1>1. /\ c.q \in z.bufs /\ c.dq \notin z.bufs /\ c.dq \in Mine(c)
      /\ Levels \subseteq z.K /\ {j} \subseteq z.J /\ Cols \subseteq z.I
  BY ContextApart DEF Zone, Mine
<1> HIDE DEF z
<1>2. /\ A(T("delp2", Levels)) /\ A(T("rpdel", Levels)) /\ A(T("rrho", {0}))
      /\ A(T("tmp1", {0})) /\ A(T("cch", Levels \ {0})) /\ A(T("zeh", Levels \ {Bottom}))
      /\ A(T("termh", Levels \ {Bottom})) /\ A(dry)
  BY PublicNames, TermBeyond
<1>3. \A field \in {"cgs", "kvh", "potbar"} : A(T(field, Edges))
  BY PublicNames, TermBeyond
<1>4. A(flow)
  BY PublicNames, PieceBeyond
<1>5. A(input)
  <2>1. /\ A(AdvectedMass(c, fill, Levels, {j}, Cols))
        /\ A(Hold(c.dq, Levels, {j}, Cols, "mixing_ratio", c))
    BY <1>1, MassBeyond, HoldBeyond
  <2>2. A(AdvectedMass(c, fill, Levels, {j}, Cols) \cup T("delp2", Levels))
    BY <1>2, <2>1, AllowedTogether
  <2>3. CASE deferred /\ j \notin CapRows
    BY <2>2, <2>3 DEF VdiffInput
  <2>4. CASE ~(deferred /\ j \notin CapRows)
    BY <2>1, <2>4 DEF VdiffInput
  <2>5. QED
    BY <2>3, <2>4
<1>6. A(CounterGradient(c.s, j))
  <2> DEFINE F == {"cgs", "kvh", "potbar"}
             U == UNION {Term(field, c.s, Edges, {j}, Cols) : field \in F}
  <2>1. A(U)
    <3>1. \A field \in F : A(T(field, Edges))
      BY <1>3
    <3> HIDE DEF F
    <3>2. QED
      BY <3>1 DEF Allowed
  <2> HIDE DEF U
  <2>2. A(((U \cup T("rpdel", Levels)) \cup T("rrho", {0})) \cup T("tmp1", {0}))
    BY <1>2, <2>1, AllowedTogether
  <2>3. QED
    BY <2>2 DEF CounterGradient, U
<1>7. A(Coefficients(c.s, j))
  BY <1>2, AllowedTogether DEF Coefficients
<1>8. W(S("qmx")) /\ W(S("tracer_diffused")) /\ W(S("before_mass")) /\ W(S("after_mass"))
  BY ScratchWithin DEF ScratchNames
<1>9. A(S("qmx")) /\ A(S("tracer_diffused")) /\ A(S("before_mass"))
  BY <1>8, WithinAllowed
<1>10. W(Hold(c.q, Levels, {j}, Cols, "diffused", c))
  BY <1>1, HoldWithin
<1> HIDE DEF input, flow, dry
<1>11. C(VdiffSource(c, fill, deferred, flux, w, j))
  <2>1. C(Op((input \cup CounterGradient(c.s, j)) \cup flow, S("qmx")))
    BY <1>4, <1>5, <1>6, <1>8, AllowedTogether, OpConfined
  <2>2. QED
    BY <2>1, NothingConfined DEF VdiffSource, input, flow
<1>12. C(VdiffSweep(c, fill, deferred, flux, w, j))
  <2> DEFINE extra == IF flux THEN (S("qmx") \cup flow) \cup T("tmp1", {0}) ELSE {}
  <2>1. A(extra)
    <3>1. A((S("qmx") \cup flow) \cup T("tmp1", {0})) /\ A({})
      BY <1>2, <1>4, <1>9, AllowedTogether, NothingConfined
    <3>2. QED
      BY <3>1
  <2> HIDE DEF extra
  <2>2. C(Op(((input \cup extra) \cup Coefficients(c.s, j)) \cup dry,
             S("tracer_diffused") \cup S("before_mass")))
    BY <1>2, <1>5, <1>7, <1>8, <2>1, AllowedTogether, WithinTogether, OpConfined
  <2>3. QED
    BY <2>2 DEF VdiffSweep, extra, input, dry, flow
<1>13. C(VdiffRescale(c, w, j))
  <2>1. C(Op((S("tracer_diffused") \cup S("before_mass")) \cup dry,
             S("after_mass") \cup Hold(c.q, Levels, {j}, Cols, "diffused", c)))
    BY <1>2, <1>8, <1>9, <1>10, AllowedTogether, WithinTogether, OpConfined
  <2>2. QED
    BY <2>1 DEF VdiffRescale, dry
<1>14. DOMAIN ops = 1 .. 3 /\ \A x \in 1 .. 3 : C(ops[x])
  BY <1>11, <1>12, <1>13
<1>15. VdiffRow(c, fill, deferred, flux, w, j) = FusedAll(ops)
  BY DEF VdiffRow
<1> HIDE DEF ops
<1>16. C(FusedAll(ops))
  BY <1>14, FusedAllConfined
<1>17. QED
  BY <1>15, <1>16 DEF z

LEMMA ConvectSubstepConfined ==
  ASSUME NEW c, InContext(c), NEW w, NEW j, NEW i, NEW n, NEW last, NEW x \in 1 .. 3
  PROVE  Confined(ConvectSubstep(c, w, j, i, n, last)[x], w, Zone({c.q}, Levels, {j}, {i}),
                  Mine(c), PrivateNames)
PROOF
<1> DEFINE z == Zone({c.q}, Levels, {j}, {i})
           A(S) == Allowed(S, w, z, Mine(c), PrivateNames)
           W(S) == Within(S, w, z)
           C(op) == Confined(op, w, z, Mine(c), PrivateNames)
           S(name) == Scratch(name, w, n, <<j, i>>, c)
<1>1. c.q \in z.bufs /\ Levels \subseteq z.K /\ {j} \subseteq z.J /\ {i} \subseteq z.I
  BY DEF Zone
<1> HIDE DEF z
<1>2. W(S("qc")) /\ W(S("qb_num")) /\ W(S("delq_work")) /\ W(S("current_work"))
  BY ScratchWithin DEF ScratchNames
<1>3. W(Plume(c, w, j, i, n)) /\ W(Tendency(c, w, j, i, n))
  BY <1>2, WithinTogether DEF Plume, Tendency
<1>4. \A m : W(Column(c, j, i, m, last))
  BY <1>1, HoldWithin DEF Column
<1>5. A(ConvectionMet(c.s, j, i))
  <2> DEFINE F == {"cmfmc", "dtrain", "delp_end", "delp_dry_end", "bmass", "dqrcu", "reevapcn"}
  <2>1. \A field \in F : A(Term(field, c.s, Levels, {j}, {i}))
    BY PublicNames, TermBeyond
  <2> DEFINE U == UNION {Term(field, c.s, Levels, {j}, {i}) : field \in F}
  <2>2. A(U)
    <3> HIDE DEF F
    <3>1. QED
      BY <2>1 DEF Allowed
  <2>3. QED
    BY <2>2 DEF ConvectionMet
<1>6. /\ A(Plume(c, w, j, i, n)) /\ A(Tendency(c, w, j, i, n))
      /\ A(Column(c, j, i, n - 1, last))
  BY <1>3, <1>4, WithinAllowed
<1>7. C(StartPlume(c, w, j, i, n, last))
  BY <1>3, <1>5, <1>6, AllowedTogether, OpConfined DEF StartPlume
<1>8. C(MovePlume(c, w, j, i, n, last))
  BY <1>3, <1>5, <1>6, AllowedTogether, OpConfined DEF MovePlume
<1>9. C(UpdateColumn(c, w, j, i, n, last))
  BY <1>4, <1>6, AllowedTogether, OpConfined DEF UpdateColumn
<1>10. C(ConvectSubstep(c, w, j, i, n, last)[x])
  BY <1>7, <1>8, <1>9 DEF ConvectSubstep
<1>11. QED
  BY <1>10 DEF z

LEMMA WholeWithin ==
  ASSUME NEW S, NEW buf, NEW K, NEW J, NEW I, Lies(S, buf, K, J, I), NEW w, NEW bufs,
         buf \in bufs
  PROVE  Within(S, w, Whole(bufs))
PROOF
  BY DEF Lies, Within, Inside, Whole

\* What is confined to a zone is confined to the arrays it is a zone of.
LEMMA ConfinedWhole ==
  ASSUME NEW op, NEW w, NEW z, NEW mine, NEW names, z.bufs \subseteq mine,
         Confined(op, w, z, mine, names)
  PROVE  Confined(op, w, Whole(mine), mine, names)
PROOF
<1>1. Within(op.sets, w, Whole(mine))
  BY DEF Confined, Within, Inside, Whole
<1>2. Allowed(op.needs, w, Whole(mine), mine, names)
  <2>1. SUFFICES ASSUME NEW p \in op.needs
                 PROVE  \/ Inside(p[1], Whole(mine)) \/ Scratched(p[1], w)
                        \/ p[1][1] \in mine \ Whole(mine).bufs
                        \/ p[1][1][1] \notin names
    BY DEF Allowed
  <2>2. \/ Inside(p[1], z) \/ Scratched(p[1], w) \/ p[1][1] \in mine \ z.bufs
        \/ p[1][1][1] \notin names
    BY DEF Confined, Allowed
  <2>3. p[1][1] \in mine => Inside(p[1], Whole(mine))
    BY DEF Inside, Whole
  <2>4. Inside(p[1], z) => p[1][1] \in mine
    BY DEF Inside
  <2>5. QED
    BY <2>2, <2>3, <2>4
<1>3. QED
  BY <1>1, <1>2 DEF Confined

-----------------------------------------------------------------------------
(* Operations that touch no cell in common when one of them writes it.     *)

Clash(a, b) == CellsOf(a.sets) \cap (CellsOf(b.sets) \cup CellsOf(b.needs)) # {}

\* The names of the arrays are among those no one else writes, and no scratch.
Owned(mine, names) ==
  /\ ScratchNames \subseteq names
  /\ \A buf \in mine : buf[1] \in names \ ScratchNames

Apart(y, z) == \A cell : ~(Inside(cell, y) /\ Inside(cell, z))

LEMMA NoClash ==
  ASSUME NEW a, NEW b, NEW v, NEW w, v # w, NEW y, NEW z, NEW mine, NEW other, NEW names,
         Confined(a, v, y, mine, names), Confined(b, w, z, other, names),
         Owned(mine, names), Owned(other, names),
         y.bufs \subseteq mine, z.bufs \subseteq other,
         y.bufs \cap (other \ z.bufs) = {}, Apart(y, z)
  PROVE  ~Clash(a, b)
PROOF
<1> SUFFICES ASSUME NEW cell \in CellsOf(a.sets), cell \in CellsOf(b.sets) \cup CellsOf(b.needs)
             PROVE  FALSE
  BY DEF Clash
<1>1. Inside(cell, y) \/ Scratched(cell, v)
  BY DEF CellsOf, Confined, Within
<1>2. \/ Inside(cell, z) \/ Scratched(cell, w) \/ cell[1] \in other \ z.bufs
      \/ cell[1][1] \notin names
  BY DEF CellsOf, Confined, Within, Allowed
<1>3. CASE Inside(cell, y)
  <2>1. cell[1] \in y.bufs /\ cell[1][1] \in names \ ScratchNames
    BY <1>3 DEF Inside, Owned
  <2>2. ~Scratched(cell, w) /\ cell[1] \notin other \ z.bufs
    BY <2>1 DEF Scratched
  <2>3. ~Inside(cell, z)
    BY <1>3 DEF Apart
  <2>4. QED
    BY <1>2, <2>1, <2>2, <2>3
<1>4. CASE Scratched(cell, v)
  <2>1. cell[1][1] \in ScratchNames /\ cell[1][2] = v /\ cell[1][1] \in names
    BY <1>4 DEF Scratched, Owned
  <2>2. cell[1] \notin other
    BY <2>1 DEF Owned
  <2>3. QED
    BY <1>2, <2>1, <2>2 DEF Inside, Scratched
<1>5. QED
  BY <1>1, <1>3, <1>4

-----------------------------------------------------------------------------
(* Sequences of whatever there is.                                         *)

IsSeq(p) == p \in Seq({p[i] : i \in DOMAIN p})

LEMMA SeqIs ==
  ASSUME NEW p, NEW n \in Nat, p = [i \in 1 .. n |-> p[i]]
  PROVE  IsSeq(p) /\ DOMAIN p = 1 .. n /\ Len(p) = n
PROOF
<1> DEFINE S == {p[i] : i \in 1 .. n}
<1>1. p \in [1 .. n -> S]
  OBVIOUS
<1> HIDE DEF S
<1>2. p \in Seq(S) /\ DOMAIN p = 1 .. n /\ Len(p) = n
  BY <1>1
<1>3. QED
  BY <1>2 DEF S, IsSeq

LEMMA IsSeqIs ==
  ASSUME NEW p, IsSeq(p)
  PROVE  Len(p) \in Nat /\ DOMAIN p = 1 .. Len(p) /\ p = [i \in 1 .. Len(p) |-> p[i]]
PROOF
<1> DEFINE S == {p[i] : i \in DOMAIN p}
<1>1. p \in Seq(S)
  BY DEF IsSeq
<1> HIDE DEF S
<1>2. QED
  BY <1>1

LEMMA ElementsSeq ==
  ASSUME NEW S, NEW p \in Seq(S)
  PROVE  IsSeq(p) /\ \A i \in DOMAIN p : p[i] \in S
PROOF
<1>1. Len(p) \in Nat /\ p = [i \in 1 .. Len(p) |-> p[i]] /\ \A i \in DOMAIN p : p[i] \in S
  OBVIOUS
<1>2. QED
  BY <1>1, SeqIs

IsJoin(r, p, q) == r = p \o q

LEMMA Joined ==
  ASSUME NEW p, NEW q, IsSeq(p), IsSeq(q), NEW r, IsJoin(r, p, q)
  PROVE  /\ IsSeq(r) /\ Len(r) = Len(p) + Len(q)
         /\ \A x \in DOMAIN r : (\E i \in DOMAIN p : r[x] = p[i]) \/ (\E i \in DOMAIN q : r[x] = q[i])
PROOF
<1> DEFINE S == {p[i] : i \in DOMAIN p} \cup {q[i] : i \in DOMAIN q}
<1>1. p \in Seq(S) /\ q \in Seq(S)
  <2> DEFINE P == {p[i] : i \in DOMAIN p}
             Q == {q[i] : i \in DOMAIN q}
  <2>1. p \in Seq(P) /\ q \in Seq(Q)
    BY DEF IsSeq
  <2> HIDE DEF P, Q
  <2>2. p \in Seq(P \cup Q) /\ q \in Seq(P \cup Q)
    BY <2>1
  <2>3. QED
    BY <2>2 DEF P, Q
<1>2. r \in Seq(S) /\ Len(r) = Len(p) + Len(q)
  <2> HIDE DEF S
  <2>1. QED
    BY <1>1, ConcatProperties DEF IsJoin
<1>3. IsSeq(r) /\ \A x \in DOMAIN r : r[x] \in S
  <2> HIDE DEF S
  <2>1. QED
    BY <1>2, ElementsSeq
<1>4. QED
  BY <1>2, <1>3

LEMMA Flattened ==
  ASSUME NEW ss, IsSeq(ss), \A m \in DOMAIN ss : IsSeq(ss[m])
  PROVE  /\ IsSeq(FlattenSeq(ss))
         /\ \A x \in DOMAIN FlattenSeq(ss) :
              \E m \in DOMAIN ss : \E i \in DOMAIN ss[m] : FlattenSeq(ss)[x] = ss[m][i]
         /\ Len(ss) # 0 /\ Len(ss[Len(ss)]) # 0 => Len(FlattenSeq(ss)) \in Nat \ {0}
PROOF
<1> DEFINE range(m) == {ss[m][i] : i \in DOMAIN ss[m]}
           S == UNION {range(m) : m \in DOMAIN ss}
           f == FlattenSeq(ss)
<1>1. \A m \in DOMAIN ss : ss[m] \in Seq(S)
  <2> SUFFICES ASSUME NEW m \in DOMAIN ss PROVE ss[m] \in Seq(S)
    OBVIOUS
  <2>1. ss[m] \in Seq(range(m)) /\ range(m) \subseteq S
    BY DEF IsSeq
  <2> HIDE DEF S, range
  <2>2. QED
    BY <2>1
<1>2. Len(ss) \in Nat /\ DOMAIN ss = 1 .. Len(ss) /\ ss = [m \in 1 .. Len(ss) |-> ss[m]]
  BY IsSeqIs
<1>3. ss \in Seq(Seq(S))
  <2> HIDE DEF S
  <2>1. ss \in [1 .. Len(ss) -> Seq(S)]
    BY <1>1, <1>2
  <2>2. QED
    BY <1>2, <2>1
<1>4. f \in Seq(S)
  <2> HIDE DEF S, f
  <2>1. Append(ss, <<>>) \in Seq(Seq(S)) /\ <<>> \in Seq(S)
    BY <1>3
  <2>2. FlattenSeq(ss) \in Seq(S)
    BY <1>3, <2>1, FlattenAppend
  <2>3. QED
    BY <2>2 DEF f
<1>5. IsSeq(f) /\ \A x \in DOMAIN f : f[x] \in S
  <2> HIDE DEF S, f
  <2>1. QED
    BY <1>4, ElementsSeq
<1>6. ASSUME Len(ss) # 0, Len(ss[Len(ss)]) # 0 PROVE Len(f) \in Nat \ {0}
  <2> DEFINE n == Len(ss)
             l == ss[n]
  <2>1. n \in Nat /\ n - 1 \in 0 .. n /\ n \in 1 .. n
    BY <1>2, <1>6
  <2> HIDE DEF S, f
  <2>2. PICK h : /\ h \in [0 .. n -> Seq(S)] /\ \A i \in 1 .. n : h[i] = h[i - 1] \o ss[i]
                 /\ f = h[n]
    BY <1>3, FlattenIs DEF Flattens, f
  <2> DEFINE g == h[n - 1]
  <2>3. g \in Seq(S) /\ l \in Seq(S) /\ f = g \o l
    BY <1>1, <1>2, <2>1, <2>2
  <2> HIDE DEF g, l, n
  <2>4. Len(g \o l) = Len(g) + Len(l) /\ Len(g) \in Nat /\ Len(l) \in Nat
    BY <2>3, ConcatProperties, LenProperties
  <2>5. Len(l) # 0
    BY <1>6 DEF l, n
  <2>6. QED
    BY <2>3, <2>4, <2>5
<1>7. QED
  BY <1>5, <1>6

-----------------------------------------------------------------------------
(* Regions.  In a separate region no two members of the team clash; a tidy *)
(* one keeps, beside, to the arrays of context c and to what is not        *)
(* private to any block.                                                   *)

Separate(r, n) ==
  \A t, u \in 1 .. n : t # u =>
    \A a \in DOMAIN r[t], b \in DOMAIN r[u] : ~Clash(r[t][a], r[u][b])

OfBlock(op, w, c) == Confined(op, w, Whole(Mine(c)), Mine(c), PrivateNames)

Tidy(r, team, c) ==
  /\ Separate(r, Len(team))
  /\ \A t \in DOMAIN team :
       IsSeq(r[t]) /\ \A x \in DOMAIN r[t] : OfBlock(r[t][x], team[t], c)

Team(team) ==
  IsSeq(team) /\ Len(team) > 0 /\ \A t, u \in DOMAIN team : team[t] = team[u] => t = u

\* A loop whose iterations each keep to their zone.
Laid(r, team, iters, zone, mine, names) ==
  \A t \in 1 .. Len(team) :
    /\ r[t] = [x \in 1 .. Len(Shares(iters, Len(team))[t]) |-> r[t][x]]
    /\ \A x \in 1 .. Len(Shares(iters, Len(team))[t]) :
         Confined(r[t][x], team[t], zone[Shares(iters, Len(team))[t][x]], mine, names)

Zoned(zone, iters, mine) ==
  /\ \A x \in iters : zone[x].bufs \subseteq mine
  /\ \A x, y \in iters : zone[x].bufs = zone[y].bufs /\ (x # y => Apart(zone[x], zone[y]))

LEMMA LoopSeparate ==
  ASSUME NEW team, Team(team), NEW iters \in SUBSET Nat, IsFiniteSet(iters), NEW r, NEW zone,
         NEW mine, NEW names, Owned(mine, names), Zoned(zone, iters, mine),
         Laid(r, team, iters, zone, mine, names)
  PROVE  /\ Separate(r, Len(team))
         /\ \A t \in DOMAIN team :
              /\ IsSeq(r[t])
              /\ \A x \in DOMAIN r[t] : Confined(r[t][x], team[t], Whole(mine), mine, names)
PROOF
<1> DEFINE n == Len(team)
           shares == Shares(iters, n)
<1>1. n \in Nat \ {0} /\ DOMAIN team = 1 .. n
  BY IsSeqIs DEF Team
<1>2. /\ \A t \in 1 .. n : shares[t] \in Seq(iters)
      /\ \A t, u \in 1 .. n : t # u =>
           \A a \in DOMAIN shares[t], b \in DOMAIN shares[u] : shares[t][a] # shares[u][b]
  BY <1>1, SharesApart
<1> HIDE DEF shares
<1>3. \A t \in 1 .. n :
        Len(shares[t]) \in Nat /\ DOMAIN shares[t] = 1 .. Len(shares[t])
        /\ \A x \in 1 .. Len(shares[t]) : shares[t][x] \in iters
  BY <1>2
<1>4. ASSUME NEW t \in 1 .. n
      PROVE  /\ IsSeq(r[t]) /\ DOMAIN r[t] = DOMAIN shares[t]
             /\ \A x \in DOMAIN r[t] : /\ shares[t][x] \in iters
                                       /\ Confined(r[t][x], team[t], zone[shares[t][x]], mine, names)
  <2>1. /\ r[t] = [x \in 1 .. Len(shares[t]) |-> r[t][x]]
        /\ \A x \in 1 .. Len(shares[t]) :
             Confined(r[t][x], team[t], zone[shares[t][x]], mine, names)
    BY DEF Laid, shares
  <2>2. IsSeq(r[t]) /\ DOMAIN r[t] = 1 .. Len(shares[t])
    BY <1>3, <2>1, SeqIs
  <2>3. QED
    BY <1>3, <2>1, <2>2
<1>5. ASSUME NEW t \in 1 .. n, NEW x \in DOMAIN r[t]
      PROVE  Confined(r[t][x], team[t], Whole(mine), mine, names)
  <2>1. zone[shares[t][x]].bufs \subseteq mine
    BY <1>4 DEF Zoned
  <2>2. QED
    BY <1>4, <2>1, ConfinedWhole
<1>6. ASSUME NEW t \in 1 .. n, NEW u \in 1 .. n, t # u,
             NEW a \in DOMAIN r[t], NEW b \in DOMAIN r[u]
      PROVE  ~Clash(r[t][a], r[u][b])
  <2> DEFINE x == shares[t][a]
             y == shares[u][b]
  <2>1. x \in iters /\ y \in iters /\ x # y
    BY <1>2, <1>4, <1>6
  <2>2. /\ Confined(r[t][a], team[t], zone[x], mine, names)
        /\ Confined(r[u][b], team[u], zone[y], mine, names)
    BY <1>4
  <2>3. team[t] # team[u]
    BY <1>1, <1>6 DEF Team
  <2>4. /\ zone[x].bufs \subseteq mine /\ zone[y].bufs \subseteq mine
        /\ zone[x].bufs = zone[y].bufs /\ Apart(zone[x], zone[y])
    BY <2>1 DEF Zoned
  <2>5. zone[x].bufs \cap (mine \ zone[y].bufs) = {}
    BY <2>4
  <2> HIDE DEF x, y
  <2>6. QED
    BY <2>2, <2>3, <2>4, <2>5, NoClash
<1>7. Separate(r, n)
  BY <1>6 DEF Separate
<1>8. QED
  BY <1>1, <1>4, <1>5, <1>7

LEMMA ContextOwned ==
  ASSUME NEW c, InContext(c)
  PROVE  Owned(Mine(c), PrivateNames)
PROOF
<1>1. ScratchNames \subseteq PrivateNames
  BY DEF PrivateNames
<1>2. BufferNames \cap ScratchNames = {}
  BY DEF BufferNames, ScratchNames
<1>3. {"south_dao2", "north_dao2", "south_flux", "north_flux"} \cap ScratchNames = {}
  BY DEF ScratchNames
<1>4. \A buf \in Mine(c) :
        buf[1] \in BufferNames \cup {"south_dao2", "north_dao2", "south_flux", "north_flux"}
  <2>1. \A buf \in CapBuffers(c) :
          buf[1] \in {"south_dao2", "north_dao2", "south_flux", "north_flux"}
    BY DEF CapBuffers
  <2>2. \A buf \in {c.q, c.dq, c.qqu, c.qqv} : buf[1] \in BufferNames
    <3> DEFINE B == BufferNames \ {"negative_counts"}
               O == {c.q[2], c.dq[2], c.qqu[2], c.qqv[2]}
    <3>1. {c.q, c.dq, c.qqu, c.qqv} \subseteq B \X O
      BY DEF InContext
    <3> HIDE DEF B, O
    <3>2. \A buf \in {c.q, c.dq, c.qqu, c.qqv} : buf[1] \in B
      BY <3>1
    <3>3. QED
      BY <3>2 DEF B
  <2>3. "negative_counts" \in BufferNames /\ <<"negative_counts", c.b>>[1] = "negative_counts"
    BY DEF BufferNames
  <2>4. QED
    BY <2>1, <2>2, <2>3 DEF Mine
<1>5. QED
  BY <1>1, <1>2, <1>3, <1>4 DEF Owned, PrivateNames

\* A loop that is laid out over zones among the arrays of context c.
Apportioned(r, team, iters, zone, c) ==
  /\ iters \in SUBSET Nat /\ IsFiniteSet(iters) /\ Zoned(zone, iters, Mine(c))
  /\ Laid(r, team, iters, zone, Mine(c), PrivateNames)

LEMMA LoopTidy ==
  ASSUME NEW team, Team(team), NEW iters \in SUBSET Nat, IsFiniteSet(iters), NEW r, NEW zone,
         NEW c, InContext(c), Zoned(zone, iters, Mine(c)),
         Laid(r, team, iters, zone, Mine(c), PrivateNames)
  PROVE  Tidy(r, team, c)
PROOF
  BY LoopSeparate, ContextOwned DEF Tidy, OfBlock

LEMMA ZonesApart ==
  ASSUME NEW B, NEW K, NEW J, NEW I, NEW L, NEW M, NEW N,
         K \cap L = {} \/ J \cap M = {} \/ I \cap N = {}
  PROVE  Apart(Zone(B, K, J, I), Zone(B, L, M, N))
PROOF
  BY DEF Apart, Inside, Zone

LEMMA OnceTidy ==
  ASSUME NEW team, Team(team), NEW op, NEW c, OfBlock(op, team[1], c)
  PROVE  Tidy(Once(team, op), team, c)
PROOF
<1> DEFINE r == Once(team, op)
<1>1. DOMAIN team = 1 .. Len(team) /\ Len(team) \in Nat
  BY IsSeqIs DEF Team
<1>2. r = [t \in 1 .. Len(team) |-> IF t = 1 THEN <<op>> ELSE <<>>]
  BY DEF Once
<1>3. \A t \in 1 .. Len(team) : t # 1 => r[t] = <<>> /\ DOMAIN r[t] = {}
  BY <1>2
<1>4. 1 \in 1 .. Len(team) => r[1] = <<op>>
  BY <1>2
<1> HIDE DEF r
<1>5. Separate(r, Len(team))
  BY <1>1, <1>3 DEF Separate
<1>6. IsSeq(<<>>) /\ IsSeq(<<op>>)
  <2>1. <<>> \in Seq({}) /\ <<op>> \in Seq({op})
    OBVIOUS
  <2>2. QED
    BY <2>1, ElementsSeq
<1>7. \A t \in DOMAIN team :
        IsSeq(r[t]) /\ \A x \in DOMAIN r[t] : OfBlock(r[t][x], team[t], c)
  <2> SUFFICES ASSUME NEW t \in DOMAIN team
               PROVE  IsSeq(r[t]) /\ \A x \in DOMAIN r[t] : OfBlock(r[t][x], team[t], c)
    OBVIOUS
  <2>1. CASE t = 1
    <3>1. r[t] = <<op>>
      BY <1>1, <1>4, <2>1
    <3>2. \A x \in DOMAIN r[t] : r[t][x] = op
      BY <3>1
    <3>3. QED
      BY <1>6, <2>1, <3>1, <3>2
  <2>2. CASE t # 1
    BY <1>1, <1>3, <1>6, <2>2
  <2>3. QED
    BY <2>1, <2>2
<1>8. QED
  BY <1>5, <1>7 DEF Tidy, r

-----------------------------------------------------------------------------
(* The loops of the kernels.                                               *)

LEMMA Iterations ==
  /\ \A S \in {Levels, Rows, Cols, Interior, Rows \ CapRows, 0 .. J1P - 1, J2P + 1 .. NLat - 1,
               0 .. NLat * NLon - 1, 0 .. (NLat - 4) * NLon - 1} :
       S \in SUBSET Nat /\ IsFiniteSet(S)
  /\ Interior \subseteq Rows /\ 0 .. J1P - 1 \subseteq Rows /\ J2P + 1 .. NLat - 1 \subseteq Rows
PROOF
<1>1. NLev \in Nat /\ NLat \in Nat /\ NLon \in Nat /\ NLat >= 9
  BY GridAssumption
<1>2. NLat * NLon \in Int /\ (NLat - 4) * NLon \in Int
  BY <1>1
<1>3. \A a, b \in Int : IsFiniteSet(a .. b)
  BY FS_Interval
<1>4. ASSUME NEW b \in Int PROVE 0 .. b \in SUBSET Nat /\ IsFiniteSet(0 .. b)
  BY <1>3
<1>5. /\ NLev - 1 \in Int /\ NLat - 1 \in Int /\ NLon - 1 \in Int /\ J1P - 1 \in Int
      /\ NLat * NLon - 1 \in Int /\ (NLat - 4) * NLon - 1 \in Int
  BY <1>1, <1>2 DEF J1P
<1>6. /\ Levels \in SUBSET Nat /\ IsFiniteSet(Levels) /\ Rows \in SUBSET Nat /\ IsFiniteSet(Rows)
      /\ Cols \in SUBSET Nat /\ IsFiniteSet(Cols)
      /\ 0 .. J1P - 1 \in SUBSET Nat /\ IsFiniteSet(0 .. J1P - 1)
  BY <1>4, <1>5 DEF Levels, Rows, Cols
<1>7. /\ 0 .. NLat * NLon - 1 \in SUBSET Nat /\ IsFiniteSet(0 .. NLat * NLon - 1)
      /\ 0 .. (NLat - 4) * NLon - 1 \in SUBSET Nat
      /\ IsFiniteSet(0 .. (NLat - 4) * NLon - 1)
  BY <1>4, <1>5
<1>8. /\ Interior \subseteq Rows /\ 0 .. J1P - 1 \subseteq Rows
      /\ J2P + 1 .. NLat - 1 \subseteq Rows /\ Rows \ CapRows \subseteq Rows
  BY <1>1 DEF Interior, J1P, J2P, Rows
<1>9. \A S \in {Interior, J2P + 1 .. NLat - 1, Rows \ CapRows} :
        S \in SUBSET Nat /\ IsFiniteSet(S)
  BY <1>6, <1>8, FS_Subset
<1>10. QED
  BY <1>6, <1>7, <1>8, <1>9

LEMMA ShareIn ==
  ASSUME NEW team, Team(team), NEW iters \in SUBSET Nat, IsFiniteSet(iters)
  PROVE  \A t \in 1 .. Len(team) :
           \A x \in 1 .. Len(Shares(iters, Len(team))[t]) :
             Shares(iters, Len(team))[t][x] \in iters
PROOF
<1>1. Len(team) \in Nat \ {0}
  BY IsSeqIs DEF Team
<1>2. \A t \in 1 .. Len(team) : Shares(iters, Len(team))[t] \in Seq(iters)
  BY <1>1, SharesApart
<1>3. QED
  BY <1>2

\* One cell of the grid for each number.
LEMMA CellsApart ==
  ASSUME NEW x \in Nat, NEW y \in Nat, x # y
  PROVE  x \div NLon # y \div NLon \/ x % NLon # y % NLon
PROOF
<1>1. NLon \in Nat /\ NLon > 0
  BY GridAssumption
<1> DEFINE p == x \div NLon
           q == y \div NLon
           m == x % NLon
           n == y % NLon
<1>2. x = NLon * p + m /\ y = NLon * q + n
  BY <1>1
<1> HIDE DEF p, q, m, n
<1>3. p # q \/ m # n
  BY <1>2
<1>4. QED
  BY <1>3 DEF p, q, m, n

LEMMA ConvectConfined ==
  ASSUME NEW c, InContext(c), NEW internal \in Nat, NEW w, NEW column
  PROVE  Confined(ConvectColumn(c, internal, w, column), w,
                  Zone({c.q}, Levels, {column \div NLon}, {column % NLon}),
                  Mine(c), PrivateNames)
PROOF
<1> DEFINE j == column \div NLon
           i == column % NLon
           z == Zone({c.q}, Levels, {j}, {i})
           steps == [n \in 1 .. internal |-> ConvectSubstep(c, w, j, i, n, internal)]
           ops == FlattenSeq(steps)
<1>1. ConvectColumn(c, internal, w, column) = FusedAll(ops)
  BY DEF ConvectColumn
<1> HIDE DEF i, j
<1>2. IsSeq(steps) /\ DOMAIN steps = 1 .. internal
  BY SeqIs
<1>3. ASSUME NEW n \in DOMAIN steps
      PROVE  IsSeq(steps[n]) /\ DOMAIN steps[n] = 1 .. 3
  <2> DEFINE s == steps[n]
  <2>1. s = ConvectSubstep(c, w, j, i, n, internal)
    BY <1>2
  <2>2. s = [x \in 1 .. 3 |-> s[x]]
    <3>1. s = <<StartPlume(c, w, j, i, n, internal), MovePlume(c, w, j, i, n, internal),
                UpdateColumn(c, w, j, i, n, internal)>>
      BY <2>1 DEF ConvectSubstep
    <3> HIDE DEF s
    <3>2. QED
      BY <3>1
  <2> HIDE DEF s
  <2>3. IsSeq(s) /\ DOMAIN s = 1 .. 3
    BY <2>2, SeqIs
  <2>4. QED
    BY <2>3 DEF s
<1>4. \A n \in DOMAIN steps, x \in 1 .. 3 :
        Confined(steps[n][x], w, z, Mine(c), PrivateNames)
  BY <1>2, ConvectSubstepConfined
<1> HIDE DEF steps
<1>5. /\ IsSeq(ops)
      /\ \A x \in DOMAIN ops : \E m \in DOMAIN steps : \E y \in DOMAIN steps[m] :
           ops[x] = steps[m][y]
  BY <1>2, <1>3, Flattened
<1> HIDE DEF ops, z
<1>6. \A x \in DOMAIN ops : Confined(ops[x], w, z, Mine(c), PrivateNames)
  BY <1>3, <1>4, <1>5
<1>7. Len(ops) \in Nat /\ DOMAIN ops = 1 .. Len(ops)
  BY <1>5, IsSeqIs
<1>8. Confined(FusedAll(ops), w, z, Mine(c), PrivateNames)
  BY <1>6, <1>7, FusedAllConfined
<1>9. QED
  BY <1>1, <1>8 DEF z, i, j

\* Iterations over rows, columns, levels and cells have zones of their own.
LevelZones(iters, bufs, J, I)   == [x \in iters |-> Zone(bufs, {x}, J, I)]
RowZones(iters, bufs, K, I)     == [x \in iters |-> Zone(bufs, K, {x}, I)]
ColumnZones(iters, bufs, K, J)  == [x \in iters |-> Zone(bufs, K, J, {x})]
CellZones(iters, bufs, K)       == [x \in iters |-> Zone(bufs, K, {x \div NLon}, {x % NLon})]
CellsFrom(from, iters, bufs, K) ==
  [x \in iters |-> Zone(bufs, K, {from + x \div NLon}, {x % NLon})]

LEMMA CellsAside ==
  ASSUME NEW x \in Nat, NEW y \in Nat, x # y, NEW from \in Int
  PROVE  /\ {from + x \div NLon} \cap {from + y \div NLon} = {}
              \/ {x % NLon} \cap {y % NLon} = {}
         /\ {x \div NLon} \cap {y \div NLon} = {} \/ {x % NLon} \cap {y % NLon} = {}
PROOF
<1> DEFINE p == x \div NLon
           q == y \div NLon
           m == x % NLon
           n == y % NLon
<1>1. p # q \/ m # n
  BY CellsApart
<1>2. p \in Int /\ q \in Int
  BY GridAssumption
<1> HIDE DEF p, q, m, n
<1>3. from + p = from + q => p = q
  BY <1>2
<1>4. {from + p} \cap {from + q} = {} \/ {m} \cap {n} = {}
  BY <1>1, <1>3
<1>5. {p} \cap {q} = {} \/ {m} \cap {n} = {}
  BY <1>1
<1>6. QED
  BY <1>4, <1>5 DEF p, q, m, n

LEMMA LevelsZoned ==
  ASSUME NEW iters \in SUBSET Nat, NEW mine, NEW bufs, bufs \subseteq mine, NEW J, NEW I
  PROVE  Zoned(LevelZones(iters, bufs, J, I), iters, mine)
PROOF
<1> DEFINE zone == LevelZones(iters, bufs, J, I)
<1>1. \A x, y \in iters : x # y => Apart(zone[x], zone[y])
  BY ZonesApart DEF LevelZones
<1>2. \A x \in iters : zone[x].bufs = bufs
  BY DEF Zone, LevelZones
<1> HIDE DEF zone
<1>3. Zoned(zone, iters, mine)
  BY <1>1, <1>2 DEF Zoned
<1>4. QED
  BY <1>3 DEF zone

LEMMA RowsZoned ==
  ASSUME NEW iters \in SUBSET Nat, NEW mine, NEW bufs, bufs \subseteq mine, NEW K, NEW I
  PROVE  Zoned(RowZones(iters, bufs, K, I), iters, mine)
PROOF
<1> DEFINE zone == RowZones(iters, bufs, K, I)
<1>1. \A x, y \in iters : x # y => Apart(zone[x], zone[y])
  BY ZonesApart DEF RowZones
<1>2. \A x \in iters : zone[x].bufs = bufs
  BY DEF Zone, RowZones
<1> HIDE DEF zone
<1>3. Zoned(zone, iters, mine)
  BY <1>1, <1>2 DEF Zoned
<1>4. QED
  BY <1>3 DEF zone

LEMMA ColumnsZoned ==
  ASSUME NEW iters \in SUBSET Nat, NEW mine, NEW bufs, bufs \subseteq mine, NEW K, NEW J
  PROVE  Zoned(ColumnZones(iters, bufs, K, J), iters, mine)
PROOF
<1> DEFINE zone == ColumnZones(iters, bufs, K, J)
<1>1. \A x, y \in iters : x # y => Apart(zone[x], zone[y])
  BY ZonesApart DEF ColumnZones
<1>2. \A x \in iters : zone[x].bufs = bufs
  BY DEF Zone, ColumnZones
<1> HIDE DEF zone
<1>3. Zoned(zone, iters, mine)
  BY <1>1, <1>2 DEF Zoned
<1>4. QED
  BY <1>3 DEF zone

LEMMA CellsZoned ==
  ASSUME NEW iters \in SUBSET Nat, NEW mine, NEW bufs, bufs \subseteq mine, NEW K
  PROVE  Zoned(CellZones(iters, bufs, K), iters, mine)
PROOF
<1> DEFINE zone == CellZones(iters, bufs, K)
<1>1. \A x, y \in iters : x # y => Apart(zone[x], zone[y])
  <2>1. \A x, y \in iters : x # y =>
          {x \div NLon} \cap {y \div NLon} = {} \/ {x % NLon} \cap {y % NLon} = {}
    <3>1. 0 \in Int
      OBVIOUS
    <3>2. QED
      BY <3>1, CellsAside
  <2>2. QED
    BY <2>1, ZonesApart DEF CellZones
<1>2. \A x \in iters : zone[x].bufs = bufs
  BY DEF Zone, CellZones
<1> HIDE DEF zone
<1>3. Zoned(zone, iters, mine)
  BY <1>1, <1>2 DEF Zoned
<1>4. QED
  BY <1>3 DEF zone

LEMMA CellsFromZoned ==
  ASSUME NEW iters \in SUBSET Nat, NEW mine, NEW bufs, bufs \subseteq mine, NEW from \in Int, NEW K
  PROVE  Zoned(CellsFrom(from, iters, bufs, K), iters, mine)
PROOF
<1> DEFINE zone == CellsFrom(from, iters, bufs, K)
<1>1. \A x, y \in iters : x # y => Apart(zone[x], zone[y])
  BY CellsAside, ZonesApart DEF CellsFrom
<1>2. \A x \in iters : zone[x].bufs = bufs
  BY DEF Zone, CellsFrom
<1> HIDE DEF zone
<1>3. Zoned(zone, iters, mine)
  BY <1>1, <1>2 DEF Zoned
<1>4. QED
  BY <1>3 DEF zone

InitDqMassRegion(team, c, k) ==
  Loop(team, 0 .. NLat * NLon - 1, LAMBDA w, cell : InitDqMass(c, k, w, cell))

LEMMA InitDqMassLoop ==
  ASSUME NEW team, Team(team), NEW c, InContext(c), NEW k
  PROVE  /\ Tidy(InitDqMassRegion(team, c, k), team, c)
         /\ Apportioned(InitDqMassRegion(team, c, k), team, 0 .. NLat * NLon - 1,
                        CellZones(0 .. NLat * NLon - 1, {c.dq}, {k}), c)
PROOF
<1> DEFINE iters == 0 .. NLat * NLon - 1
           r == InitDqMassRegion(team, c, k)
           zone == CellZones(iters, {c.dq}, {k})
<1>1. iters \in SUBSET Nat /\ IsFiniteSet(iters)
  BY Iterations
<1>2. r = [t \in 1 .. Len(team) |-> [x \in 1 .. Len(Shares(iters, Len(team))[t]) |->
             InitDqMass(c, k, team[t], Shares(iters, Len(team))[t][x])]]
  BY DEF Loop, InitDqMassRegion
<1> HIDE DEF r, iters
<1>3. Zoned(zone, iters, Mine(c))
  <2>1. {c.dq} \subseteq Mine(c)
    BY DEF Mine
  <2>2. QED
    BY <1>1, <2>1, CellsZoned
<1>4. \A w, x : x \in iters =>
        Confined(InitDqMass(c, k, w, x), w, zone[x], Mine(c), PrivateNames)
  BY <1>1, InitDqMassConfined DEF CellZones
<1> HIDE DEF zone
<1>5. Laid(r, team, iters, zone, Mine(c), PrivateNames)
  BY <1>1, <1>2, <1>4, ShareIn DEF Laid
<1>6. Tidy(r, team, c)
  BY <1>1, <1>3, <1>5, LoopTidy
<1>7. Apportioned(r, team, iters, zone, c)
  BY <1>1, <1>3, <1>5 DEF Apportioned
<1>8. QED
  BY <1>6, <1>7 DEF r, iters, zone

CrossTermsCapRegion(team, c, k, rows) ==
  Loop(team, rows, LAMBDA w, j : CrossTermsCap(c, k, w, j))

LEMMA CrossTermsCapLoop ==
  ASSUME NEW team, Team(team), NEW c, InContext(c), NEW k,
         NEW rows \in {0 .. J1P - 1, J2P + 1 .. NLat - 1}
  PROVE  /\ Tidy(CrossTermsCapRegion(team, c, k, rows), team, c)
         /\ Apportioned(CrossTermsCapRegion(team, c, k, rows), team, rows,
                        RowZones(rows, {c.qqu, c.qqv}, {0}, Cols), c)
PROOF
<1> DEFINE iters == rows
           r == CrossTermsCapRegion(team, c, k, rows)
           zone == RowZones(iters, {c.qqu, c.qqv}, {0}, Cols)
<1>1. iters \in SUBSET Nat /\ IsFiniteSet(iters) /\ iters \subseteq Rows
  BY Iterations
<1>2. r = [t \in 1 .. Len(team) |-> [x \in 1 .. Len(Shares(iters, Len(team))[t]) |->
             CrossTermsCap(c, k, team[t], Shares(iters, Len(team))[t][x])]]
  BY DEF Loop, CrossTermsCapRegion
<1> HIDE DEF r, iters
<1>3. Zoned(zone, iters, Mine(c))
  <2>1. {c.qqu, c.qqv} \subseteq Mine(c)
    BY DEF Mine
  <2>2. QED
    BY <1>1, <2>1, RowsZoned
<1>4. \A w, x : x \in iters =>
        Confined(CrossTermsCap(c, k, w, x), w, zone[x], Mine(c), PrivateNames)
  BY <1>1, CrossTermsConfined DEF RowZones
<1> HIDE DEF zone
<1>5. Laid(r, team, iters, zone, Mine(c), PrivateNames)
  BY <1>1, <1>2, <1>4, ShareIn DEF Laid
<1>6. Tidy(r, team, c)
  BY <1>1, <1>3, <1>5, LoopTidy
<1>7. Apportioned(r, team, iters, zone, c)
  BY <1>1, <1>3, <1>5 DEF Apportioned
<1>8. QED
  BY <1>6, <1>7 DEF r, iters, zone

CrossTermsRegion(team, c, k) ==
  Loop(team, Interior, LAMBDA w, j : CrossTermsRow(c, k, w, j))

LEMMA CrossTermsLoop ==
  ASSUME NEW team, Team(team), NEW c, InContext(c), NEW k
  PROVE  /\ Tidy(CrossTermsRegion(team, c, k), team, c)
         /\ Apportioned(CrossTermsRegion(team, c, k), team, Interior,
                        RowZones(Interior, {c.qqu, c.qqv}, {0}, Cols), c)
PROOF
<1> DEFINE iters == Interior
           r == CrossTermsRegion(team, c, k)
           zone == RowZones(iters, {c.qqu, c.qqv}, {0}, Cols)
<1>1. iters \in SUBSET Nat /\ IsFiniteSet(iters) /\ iters \subseteq Rows
  BY Iterations
<1>2. r = [t \in 1 .. Len(team) |-> [x \in 1 .. Len(Shares(iters, Len(team))[t]) |->
             CrossTermsRow(c, k, team[t], Shares(iters, Len(team))[t][x])]]
  BY DEF Loop, CrossTermsRegion
<1> HIDE DEF r, iters
<1>3. Zoned(zone, iters, Mine(c))
  <2>1. {c.qqu, c.qqv} \subseteq Mine(c)
    BY DEF Mine
  <2>2. QED
    BY <1>1, <2>1, RowsZoned
<1>4. \A w, x : x \in iters =>
        Confined(CrossTermsRow(c, k, w, x), w, zone[x], Mine(c), PrivateNames)
  BY <1>1, CrossTermsConfined DEF RowZones
<1> HIDE DEF zone
<1>5. Laid(r, team, iters, zone, Mine(c), PrivateNames)
  BY <1>1, <1>2, <1>4, ShareIn DEF Laid
<1>6. Tidy(r, team, c)
  BY <1>1, <1>3, <1>5, LoopTidy
<1>7. Apportioned(r, team, iters, zone, c)
  BY <1>1, <1>3, <1>5 DEF Apportioned
<1>8. QED
  BY <1>6, <1>7 DEF r, iters, zone

XAdvDao2Region(team, c, k) ==
  Loop(team, Interior, LAMBDA w, j : XAdvDao2Row(c, k, w, j))

LEMMA XAdvDao2Loop ==
  ASSUME NEW team, Team(team), NEW c, InContext(c), NEW k
  PROVE  /\ Tidy(XAdvDao2Region(team, c, k), team, c)
         /\ Apportioned(XAdvDao2Region(team, c, k), team, Interior,
                        RowZones(Interior, {c.q}, {k}, Cols), c)
PROOF
<1> DEFINE iters == Interior
           r == XAdvDao2Region(team, c, k)
           zone == RowZones(iters, {c.q}, {k}, Cols)
<1>1. iters \in SUBSET Nat /\ IsFiniteSet(iters) /\ iters \subseteq Rows
  BY Iterations
<1>2. r = [t \in 1 .. Len(team) |-> [x \in 1 .. Len(Shares(iters, Len(team))[t]) |->
             XAdvDao2Row(c, k, team[t], Shares(iters, Len(team))[t][x])]]
  BY DEF Loop, XAdvDao2Region
<1> HIDE DEF r, iters
<1>3. Zoned(zone, iters, Mine(c))
  <2>1. {c.q} \subseteq Mine(c)
    BY DEF Mine
  <2>2. QED
    BY <1>1, <2>1, RowsZoned
<1>4. \A w, x : x \in iters =>
        Confined(XAdvDao2Row(c, k, w, x), w, zone[x], Mine(c), PrivateNames)
  BY <1>1, AdvDao2Confined DEF RowZones
<1> HIDE DEF zone
<1>5. Laid(r, team, iters, zone, Mine(c), PrivateNames)
  BY <1>1, <1>2, <1>4, ShareIn DEF Laid
<1>6. Tidy(r, team, c)
  BY <1>1, <1>3, <1>5, LoopTidy
<1>7. Apportioned(r, team, iters, zone, c)
  BY <1>1, <1>3, <1>5 DEF Apportioned
<1>8. QED
  BY <1>6, <1>7 DEF r, iters, zone

YAdvDao2Region(team, c, k) ==
  Loop(team, Interior, LAMBDA w, j : YAdvDao2Row(c, k, w, j))

LEMMA YAdvDao2Loop ==
  ASSUME NEW team, Team(team), NEW c, InContext(c), NEW k
  PROVE  /\ Tidy(YAdvDao2Region(team, c, k), team, c)
         /\ Apportioned(YAdvDao2Region(team, c, k), team, Interior,
                        RowZones(Interior, {c.q}, {k}, Cols), c)
PROOF
<1> DEFINE iters == Interior
           r == YAdvDao2Region(team, c, k)
           zone == RowZones(iters, {c.q}, {k}, Cols)
<1>1. iters \in SUBSET Nat /\ IsFiniteSet(iters) /\ iters \subseteq Rows
  BY Iterations
<1>2. r = [t \in 1 .. Len(team) |-> [x \in 1 .. Len(Shares(iters, Len(team))[t]) |->
             YAdvDao2Row(c, k, team[t], Shares(iters, Len(team))[t][x])]]
  BY DEF Loop, YAdvDao2Region
<1> HIDE DEF r, iters
<1>3. Zoned(zone, iters, Mine(c))
  <2>1. {c.q} \subseteq Mine(c)
    BY DEF Mine
  <2>2. QED
    BY <1>1, <2>1, RowsZoned
<1>4. \A w, x : x \in iters =>
        Confined(YAdvDao2Row(c, k, w, x), w, zone[x], Mine(c), PrivateNames)
  BY <1>1, AdvDao2Confined DEF RowZones
<1> HIDE DEF zone
<1>5. Laid(r, team, iters, zone, Mine(c), PrivateNames)
  BY <1>1, <1>2, <1>4, ShareIn DEF Laid
<1>6. Tidy(r, team, c)
  BY <1>1, <1>3, <1>5, LoopTidy
<1>7. Apportioned(r, team, iters, zone, c)
  BY <1>1, <1>3, <1>5 DEF Apportioned
<1>8. QED
  BY <1>6, <1>7 DEF r, iters, zone

YAdvDao2FluxRegion(team, c, k) ==
  Loop(team, Cols, LAMBDA w, i : YAdvDao2Flux(c, k, w, i))

LEMMA YAdvDao2FluxLoop ==
  ASSUME NEW team, Team(team), NEW c, InContext(c), NEW k
  PROVE  /\ Tidy(YAdvDao2FluxRegion(team, c, k), team, c)
         /\ Apportioned(YAdvDao2FluxRegion(team, c, k), team, Cols,
                        ColumnZones(Cols, CapBuffers(c), {0}, {0}), c)
PROOF
<1> DEFINE iters == Cols
           r == YAdvDao2FluxRegion(team, c, k)
           zone == ColumnZones(iters, CapBuffers(c), {0}, {0})
<1>1. iters \in SUBSET Nat /\ IsFiniteSet(iters)
  BY Iterations
<1>2. r = [t \in 1 .. Len(team) |-> [x \in 1 .. Len(Shares(iters, Len(team))[t]) |->
             YAdvDao2Flux(c, k, team[t], Shares(iters, Len(team))[t][x])]]
  BY DEF Loop, YAdvDao2FluxRegion
<1> HIDE DEF r, iters
<1>3. Zoned(zone, iters, Mine(c))
  <2>1. CapBuffers(c) \subseteq Mine(c)
    BY DEF Mine
  <2>2. QED
    BY <1>1, <2>1, ColumnsZoned
<1>4. \A w, x : x \in iters =>
        Confined(YAdvDao2Flux(c, k, w, x), w, zone[x], Mine(c), PrivateNames)
  BY <1>1, YAdvDao2FluxConfined DEF ColumnZones
<1> HIDE DEF zone
<1>5. Laid(r, team, iters, zone, Mine(c), PrivateNames)
  BY <1>1, <1>2, <1>4, ShareIn DEF Laid
<1>6. Tidy(r, team, c)
  BY <1>1, <1>3, <1>5, LoopTidy
<1>7. Apportioned(r, team, iters, zone, c)
  BY <1>1, <1>3, <1>5 DEF Apportioned
<1>8. QED
  BY <1>6, <1>7 DEF r, iters, zone

XtpRegion(team, c, k) ==
  Loop(team, Interior, LAMBDA w, j : XtpRow(c, k, w, j))

LEMMA XtpLoop ==
  ASSUME NEW team, Team(team), NEW c, InContext(c), NEW k
  PROVE  /\ Tidy(XtpRegion(team, c, k), team, c)
         /\ Apportioned(XtpRegion(team, c, k), team, Interior,
                        RowZones(Interior, {c.dq}, {k}, Cols), c)
PROOF
<1> DEFINE iters == Interior
           r == XtpRegion(team, c, k)
           zone == RowZones(iters, {c.dq}, {k}, Cols)
<1>1. iters \in SUBSET Nat /\ IsFiniteSet(iters) /\ iters \subseteq Rows
  BY Iterations
<1>2. r = [t \in 1 .. Len(team) |-> [x \in 1 .. Len(Shares(iters, Len(team))[t]) |->
             XtpRow(c, k, team[t], Shares(iters, Len(team))[t][x])]]
  BY DEF Loop, XtpRegion
<1> HIDE DEF r, iters
<1>3. Zoned(zone, iters, Mine(c))
  <2>1. {c.dq} \subseteq Mine(c)
    BY DEF Mine
  <2>2. QED
    BY <1>1, <2>1, RowsZoned
<1>4. \A w, x : x \in iters =>
        Confined(XtpRow(c, k, w, x), w, zone[x], Mine(c), PrivateNames)
  BY <1>1, XtpConfined DEF RowZones
<1> HIDE DEF zone
<1>5. Laid(r, team, iters, zone, Mine(c), PrivateNames)
  BY <1>1, <1>2, <1>4, ShareIn DEF Laid
<1>6. Tidy(r, team, c)
  BY <1>1, <1>3, <1>5, LoopTidy
<1>7. Apportioned(r, team, iters, zone, c)
  BY <1>1, <1>3, <1>5 DEF Apportioned
<1>8. QED
  BY <1>6, <1>7 DEF r, iters, zone

YtpRegion(team, c, k) ==
  Loop(team, Cols, LAMBDA w, i : YtpColumn(c, k, w, i))

LEMMA YtpLoop ==
  ASSUME NEW team, Team(team), NEW c, InContext(c), NEW k
  PROVE  /\ Tidy(YtpRegion(team, c, k), team, c)
         /\ Apportioned(YtpRegion(team, c, k), team, Cols,
                        ColumnZones(Cols, ({c.dq, c.qqv} \cup CapBuffers(c)), {0, k}, Rows), c)
PROOF
<1> DEFINE iters == Cols
           r == YtpRegion(team, c, k)
           zone == ColumnZones(iters, ({c.dq, c.qqv} \cup CapBuffers(c)), {0, k}, Rows)
<1>1. iters \in SUBSET Nat /\ IsFiniteSet(iters)
  BY Iterations
<1>2. r = [t \in 1 .. Len(team) |-> [x \in 1 .. Len(Shares(iters, Len(team))[t]) |->
             YtpColumn(c, k, team[t], Shares(iters, Len(team))[t][x])]]
  BY DEF Loop, YtpRegion
<1> HIDE DEF r, iters
<1>3. Zoned(zone, iters, Mine(c))
  <2>1. ({c.dq, c.qqv} \cup CapBuffers(c)) \subseteq Mine(c)
    BY DEF Mine
  <2>2. QED
    BY <1>1, <2>1, ColumnsZoned
<1>4. \A w, x : x \in iters =>
        Confined(YtpColumn(c, k, w, x), w, zone[x], Mine(c), PrivateNames)
  BY <1>1, YtpConfined DEF ColumnZones
<1> HIDE DEF zone
<1>5. Laid(r, team, iters, zone, Mine(c), PrivateNames)
  BY <1>1, <1>2, <1>4, ShareIn DEF Laid
<1>6. Tidy(r, team, c)
  BY <1>1, <1>3, <1>5, LoopTidy
<1>7. Apportioned(r, team, iters, zone, c)
  BY <1>1, <1>3, <1>5 DEF Apportioned
<1>8. QED
  BY <1>6, <1>7 DEF r, iters, zone

FzppmRegion(team, c) ==
  Loop(team, Rows \ CapRows, LAMBDA w, j : FzppmRow(c, w, j))

LEMMA FzppmLoop ==
  ASSUME NEW team, Team(team), NEW c, InContext(c)
  PROVE  /\ Tidy(FzppmRegion(team, c), team, c)
         /\ Apportioned(FzppmRegion(team, c), team, Rows \ CapRows,
                        RowZones(Rows \ CapRows, {c.dq}, Levels, Cols), c)
PROOF
<1> DEFINE iters == Rows \ CapRows
           r == FzppmRegion(team, c)
           zone == RowZones(iters, {c.dq}, Levels, Cols)
<1>1. iters \in SUBSET Nat /\ IsFiniteSet(iters) /\ iters \subseteq Rows
  BY Iterations
<1>2. r = [t \in 1 .. Len(team) |-> [x \in 1 .. Len(Shares(iters, Len(team))[t]) |->
             FzppmRow(c, team[t], Shares(iters, Len(team))[t][x])]]
  BY DEF Loop, FzppmRegion
<1> HIDE DEF r, iters
<1>3. Zoned(zone, iters, Mine(c))
  <2>1. {c.dq} \subseteq Mine(c)
    BY DEF Mine
  <2>2. QED
    BY <1>1, <2>1, RowsZoned
<1>4. \A w, x : x \in iters =>
        Confined(FzppmRow(c, w, x), w, zone[x], Mine(c), PrivateNames)
  BY <1>1, FzppmConfined DEF RowZones
<1> HIDE DEF zone
<1>5. Laid(r, team, iters, zone, Mine(c), PrivateNames)
  BY <1>1, <1>2, <1>4, ShareIn DEF Laid
<1>6. Tidy(r, team, c)
  BY <1>1, <1>3, <1>5, LoopTidy
<1>7. Apportioned(r, team, iters, zone, c)
  BY <1>1, <1>3, <1>5 DEF Apportioned
<1>8. QED
  BY <1>6, <1>7 DEF r, iters, zone

QckxyzRegion(team, c) ==
  Loop(team, 0 .. (NLat - 4) * NLon - 1, LAMBDA w, x : QckxyzColumn(c, w, x))

LEMMA QckxyzLoop ==
  ASSUME NEW team, Team(team), NEW c, InContext(c)
  PROVE  /\ Tidy(QckxyzRegion(team, c), team, c)
         /\ Apportioned(QckxyzRegion(team, c), team, 0 .. (NLat - 4) * NLon - 1,
                        CellsFrom(J1P, 0 .. (NLat - 4) * NLon - 1, {c.dq}, Levels), c)
PROOF
<1> DEFINE iters == 0 .. (NLat - 4) * NLon - 1
           r == QckxyzRegion(team, c)
           zone == CellsFrom(J1P, iters, {c.dq}, Levels)
<1>1. iters \in SUBSET Nat /\ IsFiniteSet(iters)
  BY Iterations
<1>2. r = [t \in 1 .. Len(team) |-> [x \in 1 .. Len(Shares(iters, Len(team))[t]) |->
             QckxyzColumn(c, team[t], Shares(iters, Len(team))[t][x])]]
  BY DEF Loop, QckxyzRegion
<1> HIDE DEF r, iters
<1>3. Zoned(zone, iters, Mine(c))
  <2>1. {c.dq} \subseteq Mine(c) /\ J1P \in Int
    BY DEF Mine, J1P
  <2>2. QED
    BY <1>1, <2>1, CellsFromZoned
<1>4. \A w, x : x \in iters =>
        Confined(QckxyzColumn(c, w, x), w, zone[x], Mine(c), PrivateNames)
  BY <1>1, QckxyzConfined DEF CellsFrom
<1> HIDE DEF zone
<1>5. Laid(r, team, iters, zone, Mine(c), PrivateNames)
  BY <1>1, <1>2, <1>4, ShareIn DEF Laid
<1>6. Tidy(r, team, c)
  BY <1>1, <1>3, <1>5, LoopTidy
<1>7. Apportioned(r, team, iters, zone, c)
  BY <1>1, <1>3, <1>5 DEF Apportioned
<1>8. QED
  BY <1>6, <1>7 DEF r, iters, zone

FinalizeRegion(team, c, fill) ==
  Loop(team, Levels, LAMBDA w, k : FinalizeLevel(c, fill, w, k))

LEMMA FinalizeLoop ==
  ASSUME NEW team, Team(team), NEW c, InContext(c), NEW fill
  PROVE  /\ Tidy(FinalizeRegion(team, c, fill), team, c)
         /\ Apportioned(FinalizeRegion(team, c, fill), team, Levels,
                        LevelZones(Levels, {c.dq}, Rows, Cols), c)
PROOF
<1> DEFINE iters == Levels
           r == FinalizeRegion(team, c, fill)
           zone == LevelZones(iters, {c.dq}, Rows, Cols)
<1>1. iters \in SUBSET Nat /\ IsFiniteSet(iters)
  BY Iterations
<1>2. r = [t \in 1 .. Len(team) |-> [x \in 1 .. Len(Shares(iters, Len(team))[t]) |->
             FinalizeLevel(c, fill, team[t], Shares(iters, Len(team))[t][x])]]
  BY DEF Loop, FinalizeRegion
<1> HIDE DEF r, iters
<1>3. Zoned(zone, iters, Mine(c))
  <2>1. {c.dq} \subseteq Mine(c)
    BY DEF Mine
  <2>2. QED
    BY <1>1, <2>1, LevelsZoned
<1>4. \A w, x : x \in iters =>
        Confined(FinalizeLevel(c, fill, w, x), w, zone[x], Mine(c), PrivateNames)
  BY <1>1, FinalizeConfined DEF LevelZones
<1> HIDE DEF zone
<1>5. Laid(r, team, iters, zone, Mine(c), PrivateNames)
  BY <1>1, <1>2, <1>4, ShareIn DEF Laid
<1>6. Tidy(r, team, c)
  BY <1>1, <1>3, <1>5, LoopTidy
<1>7. Apportioned(r, team, iters, zone, c)
  BY <1>1, <1>3, <1>5 DEF Apportioned
<1>8. QED
  BY <1>6, <1>7 DEF r, iters, zone

FinalizeDeferredRegion(team, c) ==
  Loop(team, Levels, LAMBDA w, k : FinalizeDeferredPoles(c, w, k))

LEMMA FinalizeDeferredLoop ==
  ASSUME NEW team, Team(team), NEW c, InContext(c)
  PROVE  /\ Tidy(FinalizeDeferredRegion(team, c), team, c)
         /\ Apportioned(FinalizeDeferredRegion(team, c), team, Levels,
                        LevelZones(Levels, {c.dq}, Rows, Cols), c)
PROOF
<1> DEFINE iters == Levels
           r == FinalizeDeferredRegion(team, c)
           zone == LevelZones(iters, {c.dq}, Rows, Cols)
<1>1. iters \in SUBSET Nat /\ IsFiniteSet(iters)
  BY Iterations
<1>2. r = [t \in 1 .. Len(team) |-> [x \in 1 .. Len(Shares(iters, Len(team))[t]) |->
             FinalizeDeferredPoles(c, team[t], Shares(iters, Len(team))[t][x])]]
  BY DEF Loop, FinalizeDeferredRegion
<1> HIDE DEF r, iters
<1>3. Zoned(zone, iters, Mine(c))
  <2>1. {c.dq} \subseteq Mine(c)
    BY DEF Mine
  <2>2. QED
    BY <1>1, <2>1, LevelsZoned
<1>4. \A w, x : x \in iters =>
        Confined(FinalizeDeferredPoles(c, w, x), w, zone[x], Mine(c), PrivateNames)
  BY <1>1, FinalizeConfined DEF LevelZones
<1> HIDE DEF zone
<1>5. Laid(r, team, iters, zone, Mine(c), PrivateNames)
  BY <1>1, <1>2, <1>4, ShareIn DEF Laid
<1>6. Tidy(r, team, c)
  BY <1>1, <1>3, <1>5, LoopTidy
<1>7. Apportioned(r, team, iters, zone, c)
  BY <1>1, <1>3, <1>5 DEF Apportioned
<1>8. QED
  BY <1>6, <1>7 DEF r, iters, zone

VdiffRegion(team, c, fill, deferred, flux) ==
  Loop(team, Rows, LAMBDA w, j : VdiffRow(c, fill, deferred, flux, w, j))

LEMMA VdiffLoop ==
  ASSUME NEW team, Team(team), NEW c, InContext(c),
         NEW fill, NEW deferred, NEW flux
  PROVE  /\ Tidy(VdiffRegion(team, c, fill, deferred, flux), team, c)
         /\ Apportioned(VdiffRegion(team, c, fill, deferred, flux), team, Rows,
                        RowZones(Rows, {c.q}, Levels, Cols), c)
PROOF
<1> DEFINE iters == Rows
           r == VdiffRegion(team, c, fill, deferred, flux)
           zone == RowZones(iters, {c.q}, Levels, Cols)
<1>1. iters \in SUBSET Nat /\ IsFiniteSet(iters) /\ iters \subseteq Rows
  BY Iterations
<1>2. r = [t \in 1 .. Len(team) |-> [x \in 1 .. Len(Shares(iters, Len(team))[t]) |->
             VdiffRow(c, fill, deferred, flux, team[t], Shares(iters, Len(team))[t][x])]]
  BY DEF Loop, VdiffRegion
<1> HIDE DEF r, iters
<1>3. Zoned(zone, iters, Mine(c))
  <2>1. {c.q} \subseteq Mine(c)
    BY DEF Mine
  <2>2. QED
    BY <1>1, <2>1, RowsZoned
<1>4. \A w, x : x \in iters =>
        Confined(VdiffRow(c, fill, deferred, flux, w, x), w, zone[x], Mine(c), PrivateNames)
  BY <1>1, VdiffRowConfined DEF RowZones
<1> HIDE DEF zone
<1>5. Laid(r, team, iters, zone, Mine(c), PrivateNames)
  BY <1>1, <1>2, <1>4, ShareIn DEF Laid
<1>6. Tidy(r, team, c)
  BY <1>1, <1>3, <1>5, LoopTidy
<1>7. Apportioned(r, team, iters, zone, c)
  BY <1>1, <1>3, <1>5 DEF Apportioned
<1>8. QED
  BY <1>6, <1>7 DEF r, iters, zone

ConvectRegion(team, c, internal) ==
  Loop(team, 0 .. NLat * NLon - 1, LAMBDA w, column : ConvectColumn(c, internal, w, column))

LEMMA ConvectLoop ==
  ASSUME NEW team, Team(team), NEW c, InContext(c), NEW internal \in Nat
  PROVE  /\ Tidy(ConvectRegion(team, c, internal), team, c)
         /\ Apportioned(ConvectRegion(team, c, internal), team, 0 .. NLat * NLon - 1,
                        CellZones(0 .. NLat * NLon - 1, {c.q}, Levels), c)
PROOF
<1> DEFINE iters == 0 .. NLat * NLon - 1
           r == ConvectRegion(team, c, internal)
           zone == CellZones(iters, {c.q}, Levels)
<1>1. iters \in SUBSET Nat /\ IsFiniteSet(iters)
  BY Iterations
<1>2. r = [t \in 1 .. Len(team) |-> [x \in 1 .. Len(Shares(iters, Len(team))[t]) |->
             ConvectColumn(c, internal, team[t], Shares(iters, Len(team))[t][x])]]
  BY DEF Loop, ConvectRegion
<1> HIDE DEF r, iters
<1>3. Zoned(zone, iters, Mine(c))
  <2>1. {c.q} \subseteq Mine(c)
    BY DEF Mine
  <2>2. QED
    BY <1>1, <2>1, CellsZoned
<1>4. \A w, x : x \in iters =>
        Confined(ConvectColumn(c, internal, w, x), w, zone[x], Mine(c), PrivateNames)
  BY <1>1, ConvectConfined DEF CellZones
<1> HIDE DEF zone
<1>5. Laid(r, team, iters, zone, Mine(c), PrivateNames)
  BY <1>1, <1>2, <1>4, ShareIn DEF Laid
<1>6. Tidy(r, team, c)
  BY <1>1, <1>3, <1>5, LoopTidy
<1>7. Apportioned(r, team, iters, zone, c)
  BY <1>1, <1>3, <1>5 DEF Apportioned
<1>8. QED
  BY <1>6, <1>7 DEF r, iters, zone

-----------------------------------------------------------------------------
(* What one worker does alone, between the loops.                          *)

LEMMA OfMine ==
  ASSUME NEW c, NEW buf \in Mine(c), NEW K, NEW J, NEW I, NEW name, NEW d, NEW w
  PROVE  Within(Hold(buf, K, J, I, name, d), w, Whole(Mine(c)))
PROOF
<1> DEFINE H == Hold(buf, K, J, I, name, d)
<1>1. Lies(H, buf, K, J, I)
  BY HoldLies
<1> HIDE DEF H
<1>2. Within(H, w, Whole(Mine(c)))
  BY <1>1, WholeWithin
<1>3. QED
  BY <1>2 DEF H

LEMMA TracersOfMine ==
  ASSUME NEW c, NEW k, NEW K, NEW J, NEW I, NEW w
  PROVE  /\ Within(Entering(c, K, J, I), w, Whole(Mine(c)))
         /\ Within(Averaged(c, k, J, I), w, Whole(Mine(c)))
         /\ Within(Advanced(c, K, J, I), w, Whole(Mine(c)))
         /\ \A pair \in {"dao2", "flux"} : Within(Caps(pair, k, I, c), w, Whole(Mine(c)))
PROOF
<1>1. c.q \in Mine(c) /\ CapBuffers(c) \subseteq Mine(c)
  BY DEF Mine
<1>2. /\ Lies(Entering(c, K, J, I), c.q, K, J, I)
      /\ Lies(Averaged(c, k, J, I), c.q, {k}, J, I)
      /\ Lies(Advanced(c, K, J, I), c.q, K, J, I)
  BY TracerLies
<1>3. /\ Within(Entering(c, K, J, I), w, Whole(Mine(c)))
      /\ Within(Averaged(c, k, J, I), w, Whole(Mine(c)))
      /\ Within(Advanced(c, K, J, I), w, Whole(Mine(c)))
  BY <1>1, <1>2, WholeWithin
<1>4. ASSUME NEW pair \in {"dao2", "flux"}
      PROVE  Within(Caps(pair, k, I, c), w, Whole(Mine(c)))
  <2>1. \A p \in Caps(pair, k, I, c) : p[1][1] \in Mine(c)
    BY <1>1, CapsLie
  <2>2. QED
    BY <2>1 DEF Within, Inside, Whole
<1>5. QED
  BY <1>3, <1>4

LEMMA PolesOfBlock ==
  ASSUME NEW c, NEW k, NEW w
  PROVE  /\ OfBlock(AverageConstPoles(c, k), w, c)
         /\ OfBlock(YAdvDao2Caps(c, k), w, c)
         /\ OfBlock(YtpCaps(c, k), w, c)
         /\ OfBlock(FinalizePoles(c), w, c)
PROOF
<1> DEFINE z == Whole(Mine(c))
           A(S) == Allowed(S, w, z, Mine(c), PrivateNames)
           W(S) == Within(S, w, z)
           C(op) == Confined(op, w, z, Mine(c), PrivateNames)
<1>1. /\ W(Entering(c, {k}, Polar, Cols)) /\ W(Averaged(c, k, Polar, Cols))
      /\ W(Advanced(c, {k}, Polar, Cols))
      /\ W(Caps("dao2", k, Cols, c)) /\ W(Caps("flux", k, Cols, c))
  BY TracersOfMine
<1>2. c.dq \in Mine(c)
  BY DEF Mine
<1>3. /\ W(Hold(c.dq, {k}, PoleRows, {0}, "mass", c))
      /\ W(Hold(c.dq, {k}, Polar, Cols, "transported", c))
      /\ W(Hold(c.dq, Levels, PoleRows, Cols, "advected", c))
      /\ W(Hold(c.dq, Levels, CapRows, Cols, "mixing_ratio", c))
  BY <1>2, OfMine
<1>4. A(Term("delp1", c.s, {k}, Polar, Cols)) /\ A(Term("delp2", c.s, Levels, PoleRows, Cols))
  BY PublicNames, TermBeyond
<1> HIDE DEF z
<1>5. /\ A(Entering(c, {k}, Polar, Cols)) /\ A(Averaged(c, k, Polar, Cols))
      /\ A(Caps("dao2", k, Cols, c)) /\ A(Caps("flux", k, Cols, c))
      /\ A(Hold(c.dq, {k}, PoleRows, {0}, "mass", c))
      /\ A(Hold(c.dq, Levels, PoleRows, Cols, "advected", c))
  BY <1>1, <1>3, WithinAllowed
<1>6. C(AverageConstPoles(c, k))
  BY <1>1, <1>4, <1>5, AllowedTogether, OpConfined DEF AverageConstPoles
<1>7. C(YAdvDao2Caps(c, k))
  BY <1>1, <1>5, AllowedTogether, OpConfined DEF YAdvDao2Caps
<1>8. C(YtpCaps(c, k))
  BY <1>3, <1>5, AllowedTogether, OpConfined DEF YtpCaps
<1>9. C(FinalizePoles(c))
  BY <1>3, <1>4, <1>5, AllowedTogether, OpConfined DEF FinalizePoles
<1>10. QED
  BY <1>6, <1>7, <1>8, <1>9 DEF OfBlock, z

LEMMA CountOfBlock ==
  ASSUME NEW c, NEW w
  PROVE  OfBlock(CountNegatives(c), w, c)
PROOF
<1> DEFINE z == Whole(Mine(c))
           H == Hold(c.q, Levels, Rows, Cols, "convected", c)
           N == BlockCount(c.s, c.b)
<1>1. c.q \in Mine(c) /\ <<"negative_counts", c.b>> \in Mine(c)
  BY DEF Mine
<1>2. Within(H, w, z)
  BY <1>1, OfMine
<1>3. Lies(N, <<"negative_counts", c.b>>, {0}, {0}, {0})
  BY PieceLies DEF BlockCount
<1>4. CountNegatives(c) = Op(H, N)
  BY DEF CountNegatives
<1> HIDE DEF H, N
<1>5. Within(N, w, z)
  BY <1>1, <1>3, WholeWithin
<1> HIDE DEF z
<1>6. Confined(Op(H, N), w, z, Mine(c), PrivateNames)
  BY <1>2, <1>5, WithinAllowed, OpConfined
<1>7. QED
  BY <1>4, <1>6 DEF OfBlock, z

\* Operations of a block fused are an operation of the block.
LEMMA FusedOfBlock ==
  ASSUME NEW ops, IsSeq(ops), NEW w, NEW c, \A x \in DOMAIN ops : OfBlock(ops[x], w, c)
  PROVE  OfBlock(FusedAll(ops), w, c)
PROOF
<1>1. Len(ops) \in Nat /\ DOMAIN ops = 1 .. Len(ops)
  BY IsSeqIs
<1> DEFINE z == Whole(Mine(c))
<1>2. \A x \in 1 .. Len(ops) : Confined(ops[x], w, z, Mine(c), PrivateNames)
  BY <1>1 DEF OfBlock
<1> HIDE DEF z
<1>3. Confined(FusedAll(ops), w, z, Mine(c), PrivateNames)
  BY <1>1, <1>2, FusedAllConfined
<1>4. QED
  BY <1>3 DEF OfBlock, z

LEMMA NoneIs ==
  IsSeq(<<>>) /\ Len(<<>>) = 0 /\ DOMAIN <<>> = {}
PROOF
<1> DEFINE e == <<>>
<1>1. e = [i \in 1 .. 0 |-> e[i]]
  OBVIOUS
<1> HIDE DEF e
<1>2. IsSeq(e) /\ DOMAIN e = 1 .. 0 /\ Len(e) = 0
  BY <1>1, SeqIs
<1>3. QED
  BY <1>2 DEF e

LEMMA ListIs ==
  ASSUME NEW a, NEW b
  PROVE  /\ IsSeq(<<a>>) /\ DOMAIN <<a>> = {1} /\ <<a>>[1] = a
         /\ IsSeq(<<a, b>>) /\ DOMAIN <<a, b>> = {1, 2} /\ <<a, b>>[1] = a /\ <<a, b>>[2] = b
PROOF
<1> DEFINE p == <<a>>
           q == <<a, b>>
<1>1. p = [i \in 1 .. 1 |-> p[i]] /\ q = [i \in 1 .. 2 |-> q[i]]
  OBVIOUS
<1>2. p[1] = a /\ q[1] = a /\ q[2] = b
  OBVIOUS
<1> HIDE DEF p, q
<1>3. IsSeq(p) /\ DOMAIN p = 1 .. 1 /\ IsSeq(q) /\ DOMAIN q = 1 .. 2
  BY <1>1, SeqIs
<1>4. QED
  BY <1>2, <1>3 DEF p, q

\* A sequence of operations of worker w, all of one block.
BlockOps(l, w, c) == IsSeq(l) /\ \A x \in DOMAIN l : OfBlock(l[x], w, c)

LEMMA BlockOpsJoined ==
  ASSUME NEW w, NEW c
  PROVE  /\ BlockOps(<<>>, w, c)
         /\ \A op : OfBlock(op, w, c) => BlockOps(<<op>>, w, c)
         /\ \A l, m : BlockOps(l, w, c) /\ BlockOps(m, w, c) => BlockOps(l \o m, w, c)
PROOF
<1>1. BlockOps(<<>>, w, c)
  <2> DEFINE e == <<>>
  <2>1. IsSeq(e) /\ DOMAIN e = {}
    BY NoneIs
  <2> HIDE DEF e
  <2>2. BlockOps(e, w, c)
    BY <2>1 DEF BlockOps
  <2>3. QED
    BY <2>2 DEF e
<1>2. ASSUME NEW op, OfBlock(op, w, c) PROVE BlockOps(<<op>>, w, c)
  <2> DEFINE e == <<op>>
  <2>1. IsSeq(e) /\ DOMAIN e = {1} /\ e[1] = op
    BY ListIs
  <2> HIDE DEF e
  <2>2. BlockOps(e, w, c)
    BY <1>2, <2>1 DEF BlockOps
  <2>3. QED
    BY <2>2 DEF e
<1>3. ASSUME NEW l, NEW m, BlockOps(l, w, c), BlockOps(m, w, c)
      PROVE  BlockOps(l \o m, w, c)
  <2> DEFINE p == l \o m
  <2>1. IsSeq(l) /\ IsSeq(m) /\ IsJoin(p, l, m)
    BY <1>3 DEF BlockOps, IsJoin
  <2> HIDE DEF p
  <2>2. /\ IsSeq(p)
        /\ \A x \in DOMAIN p :
             (\E i \in DOMAIN l : p[x] = l[i]) \/ (\E i \in DOMAIN m : p[x] = m[i])
    BY <2>1, Joined
  <2>3. BlockOps(p, w, c)
    BY <1>3, <2>2 DEF BlockOps
  <2>4. QED
    BY <2>3 DEF p
<1>4. QED
  BY <1>1, <1>2, <1>3

LEMMA QckFinalizeOfBlock ==
  ASSUME NEW c, InContext(c), NEW fill, NEW finalize, NEW w
  PROVE  OfBlock(QckFinalizeColumns(c, fill, finalize), w, c)
PROOF
<1> DEFINE n == (NLat - 4) * NLon
           qck == [x \in 1 .. n |-> QckxyzColumn(c, 0, x - 1)]
           fin == [m \in 1 .. NLev |-> FinalizeLevel(c, fill, 0, m - 1)]
           p == IF fill THEN qck ELSE <<>>
           q == IF finalize THEN fin ELSE <<>>
<1>1. n \in Nat /\ NLev \in Nat
  BY GridAssumption
<1>2. \A x : OfBlock(QckxyzColumn(c, 0, x), w, c)
  <2> SUFFICES ASSUME NEW x PROVE OfBlock(QckxyzColumn(c, 0, x), w, c)
    OBVIOUS
  <2> DEFINE z == Zone({c.dq}, Levels, {J1P + x \div NLon}, {x % NLon})
             op == QckxyzColumn(c, 0, x)
  <2>1. z.bufs \subseteq Mine(c)
    BY DEF Zone, Mine
  <2>2. Confined(QckxyzColumn(c, w, x), w, z, Mine(c), PrivateNames)
    BY QckxyzConfined
  <2>3. QckxyzColumn(c, w, x) = op
    BY DEF QckxyzColumn
  <2> HIDE DEF z, op
  <2>4. Confined(op, w, Whole(Mine(c)), Mine(c), PrivateNames)
    BY <2>1, <2>2, <2>3, ConfinedWhole
  <2>5. QED
    BY <2>4 DEF OfBlock, op
<1>3. \A k : OfBlock(FinalizeLevel(c, fill, 0, k), w, c)
  <2> SUFFICES ASSUME NEW k PROVE OfBlock(FinalizeLevel(c, fill, 0, k), w, c)
    OBVIOUS
  <2> DEFINE z == Zone({c.dq}, {k}, Rows, Cols)
             op == FinalizeLevel(c, fill, 0, k)
  <2>1. z.bufs \subseteq Mine(c)
    BY DEF Zone, Mine
  <2>2. Confined(FinalizeLevel(c, fill, w, k), w, z, Mine(c), PrivateNames)
    BY FinalizeConfined
  <2>3. FinalizeLevel(c, fill, w, k) = op
    BY DEF FinalizeLevel
  <2> HIDE DEF z, op
  <2>4. Confined(op, w, Whole(Mine(c)), Mine(c), PrivateNames)
    BY <2>1, <2>2, <2>3, ConfinedWhole
  <2>5. QED
    BY <2>4 DEF OfBlock, op
<1>4. IsSeq(qck) /\ IsSeq(fin) /\ DOMAIN qck = 1 .. n /\ DOMAIN fin = 1 .. NLev
  BY <1>1, SeqIs
<1>5. \A x \in DOMAIN qck : OfBlock(qck[x], w, c)
  BY <1>2
<1>6. \A x \in DOMAIN fin : OfBlock(fin[x], w, c)
  BY <1>3
<1>7. QckFinalizeColumns(c, fill, finalize) = FusedAll(p \o q)
  BY DEF QckFinalizeColumns
<1> HIDE DEF qck, fin, n
<1>8. BlockOps(<<>>, w, c) /\ BlockOps(qck, w, c) /\ BlockOps(fin, w, c)
  BY <1>4, <1>5, <1>6, BlockOpsJoined DEF BlockOps
<1>9. BlockOps(p, w, c) /\ BlockOps(q, w, c)
  BY <1>8
<1> HIDE DEF p, q
<1>10. BlockOps(p \o q, w, c)
  BY <1>9, BlockOpsJoined
<1>11. QED
  BY <1>7, <1>10, FusedOfBlock DEF BlockOps

-----------------------------------------------------------------------------
(* The kernels one after the other, on any team.                           *)

Tidies(p, team, c) == IsSeq(p) /\ \A n \in DOMAIN p : Tidy(p[n], team, c)

LEMMA TidiesJoined ==
  ASSUME NEW team, NEW c
  PROVE  /\ Tidies(<<>>, team, c)
         /\ \A r : Tidy(r, team, c) => Tidies(<<r>>, team, c)
         /\ \A p, q : Tidies(p, team, c) /\ Tidies(q, team, c) => Tidies(p \o q, team, c)
PROOF
<1>1. Tidies(<<>>, team, c)
  <2> DEFINE e == <<>>
  <2>1. IsSeq(e) /\ DOMAIN e = {}
    BY NoneIs
  <2> HIDE DEF e
  <2>2. Tidies(e, team, c)
    BY <2>1 DEF Tidies
  <2>3. QED
    BY <2>2 DEF e
<1>2. ASSUME NEW r, Tidy(r, team, c) PROVE Tidies(<<r>>, team, c)
  <2> DEFINE e == <<r>>
  <2>1. IsSeq(e) /\ DOMAIN e = {1} /\ e[1] = r
    BY ListIs
  <2> HIDE DEF e
  <2>2. Tidies(e, team, c)
    BY <1>2, <2>1 DEF Tidies
  <2>3. QED
    BY <2>2 DEF e
<1>3. ASSUME NEW p, NEW q, Tidies(p, team, c), Tidies(q, team, c)
      PROVE  Tidies(p \o q, team, c)
  <2> DEFINE r == p \o q
  <2>1. IsSeq(p) /\ IsSeq(q) /\ IsJoin(r, p, q)
    BY <1>3 DEF Tidies, IsJoin
  <2> HIDE DEF r
  <2>2. /\ IsSeq(r)
        /\ \A x \in DOMAIN r :
             (\E i \in DOMAIN p : r[x] = p[i]) \/ (\E i \in DOMAIN q : r[x] = q[i])
    BY <2>1, Joined
  <2>3. Tidies(r, team, c)
    BY <1>3, <2>2 DEF Tidies
  <2>4. QED
    BY <2>3 DEF r
<1>4. QED
  BY <1>1, <1>2, <1>3

LEMMA TidiesFlattened ==
  ASSUME NEW team, NEW c, NEW ss, IsSeq(ss), \A m \in DOMAIN ss : Tidies(ss[m], team, c)
  PROVE  Tidies(FlattenSeq(ss), team, c)
PROOF
<1> DEFINE f == FlattenSeq(ss)
<1>1. \A m \in DOMAIN ss : IsSeq(ss[m])
  BY DEF Tidies
<1>2. /\ IsSeq(f)
      /\ \A x \in DOMAIN f : \E m \in DOMAIN ss : \E i \in DOMAIN ss[m] : f[x] = ss[m][i]
  BY <1>1, Flattened
<1> HIDE DEF f
<1>3. Tidies(f, team, c)
  BY <1>2 DEF Tidies
<1>4. QED
  BY <1>3 DEF f

LEMMA AdvectLevelTidies ==
  ASSUME NEW team, Team(team), NEW c, InContext(c), NEW k
  PROVE  Tidies(AdvectLevel(team, c, k), team, c)
PROOF
<1> DEFINE a1 == Once(team, AverageConstPoles(c, k))
           a2 == InitDqMassRegion(team, c, k)
           a3 == CrossTermsCapRegion(team, c, k, 0 .. J1P - 1)
           a4 == CrossTermsCapRegion(team, c, k, J2P + 1 .. NLat - 1)
           a5 == CrossTermsRegion(team, c, k)
           a6 == XAdvDao2Region(team, c, k)
           a7 == YAdvDao2Region(team, c, k)
           a8 == YAdvDao2FluxRegion(team, c, k)
           a9 == Once(team, YAdvDao2Caps(c, k))
           a10 == XtpRegion(team, c, k)
           a11 == YtpRegion(team, c, k)
           a12 == Once(team, YtpCaps(c, k))
           p == <<a1, a2, a3, a4, a5, a6, a7, a8, a9, a10, a11, a12>>
           T(r) == Tidy(r, team, c)
<1>1. AdvectLevel(team, c, k) = p
  BY DEF AdvectLevel, InitDqMassRegion, CrossTermsCapRegion, CrossTermsRegion,
         XAdvDao2Region, YAdvDao2Region, YAdvDao2FluxRegion, XtpRegion, YtpRegion
<1>2. /\ OfBlock(AverageConstPoles(c, k), team[1], c)
      /\ OfBlock(YAdvDao2Caps(c, k), team[1], c) /\ OfBlock(YtpCaps(c, k), team[1], c)
  BY PolesOfBlock
<1>3. T(a1) /\ T(a9) /\ T(a12)
  BY <1>2, OnceTidy
<1>4. T(a2)
  BY InitDqMassLoop
<1>5. T(a3)
  BY CrossTermsCapLoop
<1>6. T(a4)
  BY CrossTermsCapLoop
<1>7. T(a5)
  BY CrossTermsLoop
<1>8. T(a6)
  BY XAdvDao2Loop
<1>9. T(a7)
  BY YAdvDao2Loop
<1>10. T(a8)
  BY YAdvDao2FluxLoop
<1>11. T(a10)
  BY XtpLoop
<1>12. T(a11)
  BY YtpLoop
<1> HIDE DEF a1, a2, a3, a4, a5, a6, a7, a8, a9, a10, a11, a12, T
<1>13. p = [i \in 1 .. 12 |-> p[i]] /\ \A i \in 1 .. 12 : T(p[i])
  BY <1>3, <1>4, <1>5, <1>6, <1>7, <1>8, <1>9, <1>10, <1>11, <1>12
<1> HIDE DEF p
<1>14. IsSeq(p) /\ DOMAIN p = 1 .. 12
  BY <1>13, SeqIs
<1>15. Tidies(p, team, c)
  BY <1>13, <1>14 DEF Tidies, T
<1>16. QED
  BY <1>1, <1>15

LEMMA AdvectionTidies ==
  ASSUME NEW team, Team(team), NEW c, InContext(c)
  PROVE  /\ Tidies(AdvectLevels(team, c), team, c)
         /\ Tidies(AdvectVertically(team, c), team, c)
PROOF
<1> DEFINE levels == [m \in 1 .. NLev |-> AdvectLevel(team, c, m - 1)]
<1>1. NLev \in Nat
  BY GridAssumption
<1>2. IsSeq(levels) /\ DOMAIN levels = 1 .. NLev
  BY <1>1, SeqIs
<1>3. \A m \in DOMAIN levels : Tidies(levels[m], team, c)
  BY AdvectLevelTidies
<1>4. AdvectLevels(team, c) = FlattenSeq(levels)
  BY DEF AdvectLevels
<1> HIDE DEF levels
<1>5. Tidies(FlattenSeq(levels), team, c)
  BY <1>2, <1>3, TidiesFlattened
<1> DEFINE r == FzppmRegion(team, c)
<1>6. AdvectVertically(team, c) = <<r>>
  BY DEF AdvectVertically, FzppmRegion
<1>7. Tidy(r, team, c)
  BY FzppmLoop
<1> HIDE DEF r
<1>8. Tidies(<<r>>, team, c)
  BY <1>7, TidiesJoined
<1>9. QED
  BY <1>4, <1>5, <1>6, <1>8

LEMMA AdvectTracersFusedTidies ==
  ASSUME NEW team, Team(team), NEW c, InContext(c), NEW fill, NEW finalize
  PROVE  Tidies(AdvectTracersFused(team, c, fill, finalize), team, c)
PROOF
<1> DEFINE l == AdvectLevels(team, c)
           v == AdvectVertically(team, c)
           r == QckxyzRegion(team, c)
           f == FinalizeRegion(team, c, fill)
           p == IF fill THEN <<r>> ELSE <<>>
           q == IF finalize THEN <<f>> ELSE <<>>
<1>1. AdvectTracersFused(team, c, fill, finalize) = ((l \o v) \o p) \o q
  BY DEF AdvectTracersFused, QckxyzRegion, FinalizeRegion
<1>2. Tidy(r, team, c)
  BY QckxyzLoop
<1>3. Tidy(f, team, c)
  BY FinalizeLoop
<1>4. Tidies(l, team, c) /\ Tidies(v, team, c)
  BY AdvectionTidies
<1> HIDE DEF l, v, r, f
<1>5. Tidies(<<>>, team, c) /\ Tidies(<<r>>, team, c) /\ Tidies(<<f>>, team, c)
  BY <1>2, <1>3, TidiesJoined
<1>6. Tidies(p, team, c) /\ Tidies(q, team, c)
  BY <1>5
<1> HIDE DEF p, q
<1>7. Tidies(l \o v, team, c)
  BY <1>4, TidiesJoined
<1>8. Tidies((l \o v) \o p, team, c)
  BY <1>6, <1>7, TidiesJoined
<1>9. Tidies(((l \o v) \o p) \o q, team, c)
  BY <1>6, <1>8, TidiesJoined
<1>10. QED
  BY <1>1, <1>9

LEMMA ColumnsTidies ==
  ASSUME NEW team, Team(team), NEW c, InContext(c), NEW fill, NEW deferred, NEW flux
  PROVE  /\ Tidies(ApplyVdiffBlock(team, c, fill, deferred, flux), team, c)
         /\ Tidies(ConvectBlock(team, c, InternalSteps), team, c)
PROOF
<1> DEFINE o == Once(team, FinalizePoles(c))
           r == VdiffRegion(team, c, fill, deferred, flux)
           p == IF deferred THEN <<o>> ELSE <<>>
<1>1. ApplyVdiffBlock(team, c, fill, deferred, flux) = p \o <<r>>
  BY DEF ApplyVdiffBlock, VdiffRegion
<1>2. OfBlock(FinalizePoles(c), team[1], c)
  BY PolesOfBlock
<1>3. Tidy(o, team, c)
  BY <1>2, OnceTidy
<1>4. Tidy(r, team, c)
  BY VdiffLoop
<1> HIDE DEF o, r
<1>5. Tidies(<<>>, team, c) /\ Tidies(<<o>>, team, c) /\ Tidies(<<r>>, team, c)
  BY <1>3, <1>4, TidiesJoined
<1>6. Tidies(p, team, c)
  BY <1>5
<1> HIDE DEF p
<1> DEFINE l == <<r>>
<1> HIDE DEF l
<1>7. Tidies(p \o l, team, c)
  BY <1>5, <1>6, TidiesJoined DEF l
<1> DEFINE d == ConvectRegion(team, c, InternalSteps)
<1>8. ConvectBlock(team, c, InternalSteps) = <<d>>
  BY DEF ConvectBlock, ConvectRegion
<1>9. Tidy(d, team, c)
  <2>1. InternalSteps \in Nat
    BY StepsAssumption
  <2>2. QED
    BY <2>1, ConvectLoop
<1> HIDE DEF d
<1>10. Tidies(<<d>>, team, c)
  BY <1>9, TidiesJoined
<1>11. QED
  BY <1>1, <1>7, <1>8, <1>10 DEF l

-----------------------------------------------------------------------------
(* Programs.  In a sound one the members of a team of n never clash.       *)

Sound(p, n) == IsSeq(p) /\ \A x \in DOMAIN p : Separate(p[x], n)

\* A region whose sequences are apart is a sound program.
LEMMA SoundRegion ==
  ASSUME NEW n, NEW r, Separate(r, n)
  PROVE  Sound(<<r>>, n) /\ Len(<<r>>) = 1
PROOF
<1> DEFINE e == <<r>>
<1>1. IsSeq(e) /\ DOMAIN e = {1} /\ e[1] = r
  BY ListIs
<1>2. Len(e) = 1
  OBVIOUS
<1> HIDE DEF e
<1>3. Sound(e, n)
  BY <1>1 DEF Sound
<1>4. QED
  BY <1>2, <1>3 DEF e

LEMMA SoundJoined ==
  ASSUME NEW n
  PROVE  /\ Sound(<<>>, n)
         /\ \A r : Separate(r, n) => Sound(<<r>>, n) /\ Len(<<r>>) = 1
         /\ \A p, q : Sound(p, n) /\ Sound(q, n) =>
              Sound(p \o q, n) /\ Len(p \o q) = Len(p) + Len(q)
PROOF
<1>1. Sound(<<>>, n)
  <2> DEFINE e == <<>>
  <2>1. IsSeq(e) /\ DOMAIN e = {}
    BY NoneIs
  <2> HIDE DEF e
  <2>2. Sound(e, n)
    BY <2>1 DEF Sound
  <2>3. QED
    BY <2>2 DEF e
<1>2. ASSUME NEW r, Separate(r, n) PROVE Sound(<<r>>, n) /\ Len(<<r>>) = 1
  BY <1>2, SoundRegion
<1>3. ASSUME NEW p, NEW q, Sound(p, n), Sound(q, n)
      PROVE  Sound(p \o q, n) /\ Len(p \o q) = Len(p) + Len(q)
  <2> DEFINE r == p \o q
  <2>1. IsSeq(p) /\ IsSeq(q) /\ IsJoin(r, p, q)
    BY <1>3 DEF Sound, IsJoin
  <2> HIDE DEF r
  <2>2. /\ IsSeq(r) /\ Len(r) = Len(p) + Len(q)
        /\ \A x \in DOMAIN r :
             (\E i \in DOMAIN p : r[x] = p[i]) \/ (\E i \in DOMAIN q : r[x] = q[i])
    BY <2>1, Joined
  <2>3. Sound(r, n)
    BY <1>3, <2>2 DEF Sound
  <2>4. QED
    BY <2>2, <2>3 DEF r
<1>4. QED
  BY <1>1, <1>2, <1>3

LEMMA SoundLengths ==
  ASSUME NEW n, NEW p, NEW q, Sound(p, n), Sound(q, n), NEW r, IsJoin(r, p, q)
  PROVE  Sound(r, n) /\ Len(r) = Len(p) + Len(q) /\ Len(p) \in Nat /\ Len(q) \in Nat
PROOF
<1>1. IsSeq(p) /\ IsSeq(q)
  BY DEF Sound
<1>2. /\ IsSeq(r) /\ Len(r) = Len(p) + Len(q)
      /\ \A x \in DOMAIN r :
           (\E i \in DOMAIN p : r[x] = p[i]) \/ (\E i \in DOMAIN q : r[x] = q[i])
  BY <1>1, Joined
<1>3. Sound(r, n)
  BY <1>2 DEF Sound
<1>4. QED
  BY <1>1, <1>2, <1>3, IsSeqIs

\* A sound program of at least one region stays one as it goes on.
Runs(p, n) == Sound(p, n) /\ Len(p) \in Nat \ {0}

LEMMA RunsOn ==
  ASSUME NEW n, NEW p, NEW q, Runs(p, n), Sound(q, n), NEW r, IsJoin(r, p, q)
  PROVE  Runs(r, n)
PROOF
<1>1. Sound(p, n)
  BY DEF Runs
<1>2. Sound(r, n) /\ Len(r) = Len(p) + Len(q) /\ Len(q) \in Nat
  BY <1>1, SoundLengths
<1>3. QED
  BY <1>2 DEF Runs

LEMMA SoundFlattened ==
  ASSUME NEW n, NEW ss, IsSeq(ss), \A m \in DOMAIN ss : Sound(ss[m], n)
  PROVE  Sound(FlattenSeq(ss), n)
PROOF
<1> DEFINE f == FlattenSeq(ss)
<1>1. \A m \in DOMAIN ss : IsSeq(ss[m])
  BY DEF Sound
<1>2. /\ IsSeq(f)
      /\ \A x \in DOMAIN f : \E m \in DOMAIN ss : \E i \in DOMAIN ss[m] : f[x] = ss[m][i]
  BY <1>1, Flattened
<1> HIDE DEF f
<1>3. Sound(f, n)
  BY <1>2 DEF Sound
<1>4. QED
  BY <1>3 DEF f

LEMMA RunsFlattened ==
  ASSUME NEW n, NEW ss, IsSeq(ss), Len(ss) # 0, \A m \in DOMAIN ss : Runs(ss[m], n)
  PROVE  Runs(FlattenSeq(ss), n)
PROOF
<1>1. \A m \in DOMAIN ss : Sound(ss[m], n) /\ IsSeq(ss[m]) /\ Len(ss[m]) # 0
  BY DEF Runs, Sound
<1>2. Len(ss) \in DOMAIN ss
  BY IsSeqIs
<1>3. Len(FlattenSeq(ss)) \in Nat \ {0}
  BY <1>1, <1>2, Flattened
<1>4. Sound(FlattenSeq(ss), n)
  BY <1>1, SoundFlattened
<1>5. QED
  BY <1>3, <1>4 DEF Runs

LEMMA TidiesSound ==
  ASSUME NEW p, NEW team, NEW c, Tidies(p, team, c)
  PROVE  Sound(p, Len(team))
PROOF
  BY DEF Tidies, Tidy, Sound

LEMMA OnceSeparate ==
  ASSUME NEW team, Team(team), NEW op
  PROVE  Separate(Once(team, op), Len(team))
PROOF
<1> DEFINE r == Once(team, op)
<1>1. r = [t \in 1 .. Len(team) |-> IF t = 1 THEN <<op>> ELSE <<>>]
  BY DEF Once
<1>2. \A t \in 1 .. Len(team) : t # 1 => DOMAIN r[t] = {}
  BY <1>1
<1> HIDE DEF r
<1>3. Separate(r, Len(team))
  BY <1>2 DEF Separate
<1>4. QED
  BY <1>3 DEF r

\* One operation after the other on the first member.
Serial(team, ops) == [m \in 1 .. Len(ops) |-> Once(team, ops[m])]

LEMMA SerialSound ==
  ASSUME NEW team, Team(team), NEW ops, IsSeq(ops)
  PROVE  Sound(Serial(team, ops), Len(team)) /\ Len(Serial(team, ops)) = Len(ops)
PROOF
<1> DEFINE p == Serial(team, ops)
           n == Len(ops)
<1>1. n \in Nat
  BY IsSeqIs
<1>2. p = [m \in 1 .. n |-> Once(team, ops[m])]
  BY DEF Serial
<1>3. \A m \in 1 .. n : Separate(p[m], Len(team))
  BY <1>2, OnceSeparate
<1>4. p = [m \in 1 .. n |-> p[m]]
  BY <1>2
<1> HIDE DEF p, n
<1>5. IsSeq(p) /\ DOMAIN p = 1 .. n /\ Len(p) = n
  BY <1>1, <1>4, SeqIs
<1>6. Sound(p, Len(team))
  BY <1>3, <1>5 DEF Sound
<1>7. QED
  BY <1>5, <1>6 DEF p, n

-----------------------------------------------------------------------------
(* The loop over blocks, whose iterations are whole steps.                 *)

LEMMA AloneOfBlock ==
  ASSUME NEW w, NEW c, NEW p, Tidies(p, <<w>>, c)
  PROVE  BlockOps(Alone(p), w, c)
PROOF
<1> DEFINE team == <<w>>
           a == Alone(p)
<1>1. DOMAIN team = {1} /\ team[1] = w
  BY ListIs
<1>2. a = [n \in DOMAIN p |-> FusedAll(p[n][1])]
  BY DEF Alone
<1>3. IsSeq(p) /\ \A n \in DOMAIN p : Tidy(p[n], team, c)
  BY DEF Tidies
<1> HIDE DEF team, a
<1>4. ASSUME NEW n \in DOMAIN p PROVE OfBlock(a[n], w, c)
  <2>1. IsSeq(p[n][1]) /\ \A x \in DOMAIN p[n][1] : OfBlock(p[n][1][x], w, c)
    BY <1>1, <1>3 DEF Tidy
  <2>2. OfBlock(FusedAll(p[n][1]), w, c)
    BY <2>1, FusedOfBlock
  <2>3. QED
    BY <1>2, <2>2
<1>5. Len(p) \in Nat /\ DOMAIN p = 1 .. Len(p)
  BY <1>3, IsSeqIs
<1>6. a = [n \in 1 .. Len(p) |-> a[n]]
  BY <1>2, <1>5
<1>7. IsSeq(a) /\ DOMAIN a = DOMAIN p
  BY <1>5, <1>6, SeqIs
<1>8. BlockOps(a, w, c)
  BY <1>4, <1>7 DEF BlockOps
<1>9. QED
  BY <1>8 DEF a

LEMMA SingleTeam ==
  ASSUME NEW w
  PROVE  Team(<<w>>) /\ Len(<<w>>) = 1
PROOF
<1> DEFINE team == <<w>>
<1>1. IsSeq(team) /\ DOMAIN team = {1}
  BY ListIs
<1>2. Len(team) = 1
  OBVIOUS
<1> HIDE DEF team
<1>3. Team(team)
  BY <1>1, <1>2 DEF Team
<1>4. QED
  BY <1>2, <1>3 DEF team

LEMMA ExecutorContextIs ==
  ASSUME NEW j, NEW s, NEW b
  PROVE  /\ InContext(ExecutorContext(j, s, b))
         /\ j.execution # "spatial" =>
              \A buf \in Mine(ExecutorContext(j, s, b)) : buf[2] = b
PROOF
<1> DEFINE c == ExecutorContext(j, s, b)
<1>1. /\ c.q = <<"state_a", b>> /\ c.dq = <<"state_b", b>> /\ c.qqu = <<"qqu", b>>
      /\ c.qqv = <<"qqv", b>> /\ c.b = b /\ (j.execution # "spatial" => c.cap = b)
  BY DEF ExecutorContext
<1> HIDE DEF c
<1>2. InContext(c)
  BY <1>1 DEF InContext, BufferNames
<1>3. j.execution # "spatial" => \A buf \in Mine(c) : buf[2] = b
  BY <1>1 DEF Mine, CapBuffers
<1>4. QED
  BY <1>2, <1>3 DEF c

LEMMA OneBlockSerialOps ==
  ASSUME NEW w, NEW j, NEW s, NEW b
  PROVE  BlockOps(OneBlockSerial(w, j, s, b), w, ExecutorContext(j, s, b))
PROOF
<1> DEFINE c == ExecutorContext(j, s, b)
           team == <<w>>
           l == AdvectLevels(team, c)
           v == AdvectVertically(team, c)
           q == QckFinalizeColumns(c, TRUE, FALSE)
           d == ApplyVdiffBlock(team, c, TRUE, TRUE, j.flux)
           e == ConvectBlock(team, c, InternalSteps)
           n == CountNegatives(c)
<1>1. OneBlockSerial(w, j, s, b) = ((Alone(l \o v) \o <<q>>) \o Alone(d \o e)) \o <<n>>
  BY DEF OneBlockSerial, AdvectOneBlockSerial
<1>2. Team(team) /\ InContext(c)
  BY SingleTeam, ExecutorContextIs
<1> DEFINE T(p) == Tidies(p, team, c)
           B(p) == BlockOps(p, w, c)
<1>3. OfBlock(q, w, c) /\ OfBlock(n, w, c)
  <2> HIDE DEF c
  <2>1. QED
    BY <1>2, QckFinalizeOfBlock, CountOfBlock
<1>4. T(l) /\ T(v) /\ T(d) /\ T(e)
  <2> HIDE DEF c, team
  <2>1. QED
    BY <1>2, AdvectionTidies, ColumnsTidies
<1> HIDE DEF c, l, v, d, e, q, n
<1>5. T(l \o v) /\ T(d \o e)
  <2> HIDE DEF team
  <2>1. QED
    BY <1>4, TidiesJoined
<1> DEFINE lv == Alone(l \o v)
           de == Alone(d \o e)
<1>6. B(lv) /\ B(de)
  BY <1>5, AloneOfBlock
<1>7. B(<<q>>) /\ B(<<n>>)
  BY <1>3, BlockOpsJoined
<1> DEFINE qs == <<q>>
           ns == <<n>>
<1> HIDE DEF lv, de, qs, ns
<1>8. B((lv \o qs) \o de)
  <2>1. B(lv \o qs)
    BY <1>6, <1>7, BlockOpsJoined DEF qs
  <2>2. QED
    BY <1>6, <2>1, BlockOpsJoined
<1>9. B(((lv \o qs) \o de) \o ns)
  BY <1>7, <1>8, BlockOpsJoined DEF ns
<1>10. QED
  BY <1>1, <1>9 DEF c, lv, de, qs, ns

\* What is done for two different blocks touches nothing in common.
LEMMA BlocksApart ==
  ASSUME NEW c, NEW d, InContext(c), InContext(d), Mine(c) \cap Mine(d) = {},
         NEW v, NEW w, v # w, NEW a, NEW b, OfBlock(a, v, c), OfBlock(b, w, d)
  PROVE  ~Clash(a, b)
PROOF
<1> DEFINE y == Whole(Mine(c))
           z == Whole(Mine(d))
<1>1. y.bufs = Mine(c) /\ z.bufs = Mine(d)
  BY DEF Whole
<1>2. Owned(Mine(c), PrivateNames) /\ Owned(Mine(d), PrivateNames)
  BY ContextOwned
<1>3. Confined(a, v, y, Mine(c), PrivateNames) /\ Confined(b, w, z, Mine(d), PrivateNames)
  BY DEF OfBlock
<1> HIDE DEF y, z
<1>4. /\ y.bufs \subseteq Mine(c) /\ z.bufs \subseteq Mine(d)
      /\ y.bufs \cap (Mine(d) \ z.bufs) = {}
  BY <1>1
<1>5. Apart(y, z)
  BY <1>1 DEF Apart, Inside
<1>6. QED
  BY <1>2, <1>3, <1>4, <1>5, NoClash

LEMMA LoopOverBlocksIs ==
  ASSUME NEW team, Team(team), NEW j, NEW s, j.blocks \in Nat, j.execution # "spatial"
  PROVE  /\ LoopOverBlocks(team, j, s) = [t \in 1 .. Len(team) |-> LoopOverBlocks(team, j, s)[t]]
         /\ \A t \in 1 .. Len(team) : IsSeq(LoopOverBlocks(team, j, s)[t])
         /\ Separate(LoopOverBlocks(team, j, s), Len(team))
PROOF
<1> DEFINE n == Len(team)
           iters == 1 .. j.blocks
           shares == Shares(iters, n)
           r == LoopOverBlocks(team, j, s)
           steps == [t \in 1 .. n |->
                       [x \in 1 .. Len(shares[t]) |-> OneBlockSerial(team[t], j, s, shares[t][x])]]
           C(b) == ExecutorContext(j, s, b)
<1>1. n \in Nat \ {0} /\ DOMAIN team = 1 .. n
  BY IsSeqIs DEF Team
<1>2. iters \in SUBSET Nat /\ IsFiniteSet(iters)
  <2>1. 1 \in Int /\ j.blocks \in Int
    OBVIOUS
  <2>2. IsFiniteSet(iters)
    BY <2>1, FS_Interval
  <2>3. QED
    BY <2>2
<1>3. r = [t \in 1 .. n |-> FlattenSeq(steps[t])]
  BY DEF LoopOverBlocks
<1> HIDE DEF iters, r
<1>4. /\ \A t \in 1 .. n : shares[t] \in Seq(iters)
      /\ \A t, u \in 1 .. n : t # u =>
           \A a \in DOMAIN shares[t], b \in DOMAIN shares[u] : shares[t][a] # shares[u][b]
  BY <1>1, <1>2, SharesApart
<1> HIDE DEF shares, n
<1>5. \A t \in 1 .. n : Len(shares[t]) \in Nat /\ DOMAIN shares[t] = 1 .. Len(shares[t])
  BY <1>4
<1>6. ASSUME NEW t \in 1 .. n
      PROVE  /\ IsSeq(steps[t]) /\ DOMAIN steps[t] = DOMAIN shares[t]
             /\ \A x \in DOMAIN steps[t] : BlockOps(steps[t][x], team[t], C(shares[t][x]))
  <2> DEFINE p == steps[t]
             m == Len(shares[t])
  <2>1. p = [x \in 1 .. m |-> OneBlockSerial(team[t], j, s, shares[t][x])]
    OBVIOUS
  <2>2. m \in Nat /\ DOMAIN shares[t] = 1 .. m
    BY <1>5
  <2> HIDE DEF p, m
  <2>3. p = [x \in 1 .. m |-> p[x]]
    BY <2>1
  <2>4. IsSeq(p) /\ DOMAIN p = 1 .. m
    BY <2>2, <2>3, SeqIs
  <2>5. \A x \in 1 .. m : BlockOps(p[x], team[t], C(shares[t][x]))
    BY <2>1, OneBlockSerialOps
  <2>6. QED
    BY <2>2, <2>4, <2>5 DEF p
<1> HIDE DEF steps
<1>7. ASSUME NEW t \in 1 .. n
      PROVE  /\ IsSeq(r[t])
             /\ \A a \in DOMAIN r[t] : \E x \in DOMAIN shares[t] :
                  OfBlock(r[t][a], team[t], C(shares[t][x]))
  <2> DEFINE f == FlattenSeq(steps[t])
  <2>1. \A x \in DOMAIN steps[t] : IsSeq(steps[t][x])
    BY <1>6 DEF BlockOps
  <2>2. /\ IsSeq(f)
        /\ \A a \in DOMAIN f : \E x \in DOMAIN steps[t] : \E i \in DOMAIN steps[t][x] :
             f[a] = steps[t][x][i]
    BY <1>6, <2>1, Flattened
  <2>3. r[t] = f
    BY <1>3
  <2> HIDE DEF f, C
  <2>4. ASSUME NEW a \in DOMAIN f
        PROVE  \E x \in DOMAIN shares[t] : OfBlock(f[a], team[t], C(shares[t][x]))
    <3>1. PICK x \in DOMAIN steps[t] : \E i \in DOMAIN steps[t][x] : f[a] = steps[t][x][i]
      BY <2>2
    <3>2. BlockOps(steps[t][x], team[t], C(shares[t][x])) /\ x \in DOMAIN shares[t]
      BY <1>6
    <3>3. OfBlock(f[a], team[t], C(shares[t][x]))
      BY <3>1, <3>2 DEF BlockOps
    <3>4. QED
      BY <3>2, <3>3
  <2>5. QED
    BY <2>2, <2>3, <2>4
<1>8. ASSUME NEW t \in 1 .. n, NEW u \in 1 .. n, t # u,
             NEW a \in DOMAIN r[t], NEW b \in DOMAIN r[u]
      PROVE  ~Clash(r[t][a], r[u][b])
  <2>1. PICK x \in DOMAIN shares[t] : OfBlock(r[t][a], team[t], C(shares[t][x]))
    BY <1>7
  <2>2. PICK y \in DOMAIN shares[u] : OfBlock(r[u][b], team[u], C(shares[u][y]))
    BY <1>7
  <2> DEFINE e == shares[t][x]
             f == shares[u][y]
  <2>3. e # f
    BY <1>4, <1>8
  <2>4. team[t] # team[u]
    BY <1>1, <1>8 DEF Team
  <2>5. /\ InContext(C(e)) /\ InContext(C(f))
        /\ \A buf \in Mine(C(e)) : buf[2] = e
        /\ \A buf \in Mine(C(f)) : buf[2] = f
    BY ExecutorContextIs
  <2> HIDE DEF C
  <2>6. Mine(C(e)) \cap Mine(C(f)) = {}
    BY <2>3, <2>5
  <2> DEFINE ce == C(e)
             cf == C(f)
  <2>7. OfBlock(r[t][a], team[t], ce) /\ OfBlock(r[u][b], team[u], cf)
    BY <2>1, <2>2
  <2> HIDE DEF e, f
  <2>8. QED
    BY <2>4, <2>5, <2>6, <2>7, BlocksApart
<1>9. r = [t \in 1 .. n |-> r[t]]
  BY <1>3
<1>10. Separate(r, n)
  BY <1>8 DEF Separate
<1>11. QED
  BY <1>7, <1>9, <1>10 DEF r, n

LEMMA LoopRegionsSound ==
  ASSUME NEW team, Team(team), NEW j, NEW s, j.blocks \in Nat, j.execution # "spatial",
         NEW own, Team(own)
  PROVE  Sound(LoopRegions(team, LoopOverBlocks(own, j, s)), Len(team))
PROOF
<1> DEFINE loop == LoopOverBlocks(own, j, s)
           n == Len(own)
<1>1. /\ loop = [t \in 1 .. n |-> loop[t]] /\ \A t \in 1 .. n : IsSeq(loop[t])
      /\ Separate(loop, n)
  BY LoopOverBlocksIs
<1>2. n \in Nat /\ n > 0
  BY IsSeqIs DEF Team
<1> HIDE DEF loop, n
<1>3. Len(loop) = n
  BY <1>1, <1>2, SeqIs
<1>4. CASE Len(loop) = Len(team)
  <2>1. Separate(loop, Len(team))
    BY <1>1, <1>3, <1>4
  <2>2. LoopRegions(team, loop) = <<loop>>
    BY <1>4 DEF LoopRegions
  <2>3. Sound(<<loop>>, Len(team))
    BY <2>1, SoundRegion
  <2>4. Sound(LoopRegions(team, loop), Len(team))
    BY <2>2, <2>3
  <2>5. QED
    BY <2>4 DEF loop
<1>5. CASE Len(loop) # Len(team)
  <2> DEFINE ops == loop[1]
  <2>1. IsSeq(ops)
    BY <1>1, <1>2
  <2>2. LoopRegions(team, loop) = [x \in DOMAIN ops |-> Once(team, ops[x])]
    BY <1>5 DEF LoopRegions
  <2> HIDE DEF ops
  <2>3. DOMAIN ops = 1 .. Len(ops)
    BY <2>1, IsSeqIs
  <2>4. LoopRegions(team, loop) = Serial(team, ops)
    BY <2>2, <2>3 DEF Serial
  <2>5. QED
    BY <2>1, <2>4, SerialSound DEF loop
<1>6. QED
  BY <1>4, <1>5

LEMMA OneBlockSpatialSound ==
  ASSUME NEW team, Team(team), NEW j, NEW s, NEW b
  PROVE  Sound(OneBlockSpatial(team, j, s, b), Len(team))
PROOF
<1> DEFINE c == ExecutorContext(j, s, b)
           l == AdvectTracersFused(team, c, TRUE, FALSE)
           d == ApplyVdiffBlock(team, c, TRUE, TRUE, j.flux)
           e == ConvectBlock(team, c, InternalSteps)
           o == Once(team, CountNegatives(c))
           n == Len(team)
<1>1. OneBlockSpatial(team, j, s, b) = ((l \o d) \o e) \o <<o>>
  BY DEF OneBlockSpatial
<1>2. InContext(c)
  BY ExecutorContextIs
<1>3. Tidies(l, team, c) /\ Tidies(d, team, c) /\ Tidies(e, team, c)
  <2> HIDE DEF c
  <2>1. QED
    BY <1>2, AdvectTracersFusedTidies, ColumnsTidies
<1>4. Separate(o, n)
  BY OnceSeparate
<1> HIDE DEF c, l, d, e, o
<1>5. Sound(l, n) /\ Sound(d, n) /\ Sound(e, n)
  BY <1>3, TidiesSound
<1>6. Sound(<<o>>, n)
  BY <1>4, SoundJoined
<1> DEFINE os == <<o>>
<1> HIDE DEF os, n
<1>7. Sound(l \o d, n)
  BY <1>5, SoundJoined
<1>8. Sound((l \o d) \o e, n)
  BY <1>5, <1>7, SoundJoined
<1>9. Sound(((l \o d) \o e) \o os, n)
  BY <1>6, <1>8, SoundJoined DEF os
<1>10. QED
  BY <1>1, <1>9 DEF os, n

LEMMA ApplyTransportSound ==
  ASSUME NEW team, Team(team), NEW j, NEW s, j.blocks \in Nat
  PROVE  Sound(ApplyTransport(team, j, s), Len(team))
PROOF
<1> DEFINE op == Op(UNION {BlockCount(s, b) : b \in 1 .. j.blocks}, StepCount(s))
           o == Once(team, op)
           steps == [b \in 1 .. j.blocks |-> OneBlockSpatial(team, j, s, b)]
           own == IF j.execution = "serial" THEN <<team[1]>> ELSE team
           p == LoopRegions(team, LoopOverBlocks(own, j, s))
           a == IF j.execution = "spatial" THEN FlattenSeq(steps) ELSE p
           n == Len(team)
<1>1. ApplyTransport(team, j, s) = a \o <<o>>
  BY DEF ApplyTransport
<1>2. IsSeq(steps) /\ DOMAIN steps = 1 .. j.blocks
  BY SeqIs
<1>3. \A b \in DOMAIN steps : Sound(steps[b], n)
  BY OneBlockSpatialSound
<1>4. Team(own)
  BY SingleTeam
<1>5. Separate(o, n)
  <2> HIDE DEF op
  <2>1. QED
    BY OnceSeparate
<1> HIDE DEF op, o, steps, own
<1>6. Sound(FlattenSeq(steps), n)
  BY <1>2, <1>3, SoundFlattened
<1>7. j.execution # "spatial" => Sound(p, n)
  BY <1>4, LoopRegionsSound
<1>8. Sound(a, n)
  BY <1>6, <1>7
<1> DEFINE os == <<o>>
<1>9. Sound(os, n)
  BY <1>5, SoundJoined
<1> HIDE DEF a, os, n
<1>10. Sound(a \o os, n)
  BY <1>8, <1>9, SoundJoined
<1>11. QED
  BY <1>1, <1>10 DEF os, n

-----------------------------------------------------------------------------
(* The loops that make the plans: over rows and over levels of arrays      *)
(* shared by all blocks.                                                   *)

PlanRegion(team, s) == Loop(team, Rows, LAMBDA w, j : VdiffPlanRow(s, w, j))

LEMMA PlanLoop ==
  ASSUME NEW team, Team(team), NEW s
  PROVE  Sound(PrepareVdiffMetPlan(team, s), Len(team)) /\ Len(PrepareVdiffMetPlan(team, s)) = 1
PROOF
<1> DEFINE iters == Rows
           r == PlanRegion(team, s)
           zone == RowZones(iters, PlanArrays, Edges, Cols)
           names == PlanNames \cup ScratchNames
<1>1. iters \in SUBSET Nat /\ IsFiniteSet(iters) /\ iters \subseteq Rows
  BY Iterations
<1>2. r = [t \in 1 .. Len(team) |-> [x \in 1 .. Len(Shares(iters, Len(team))[t]) |->
             VdiffPlanRow(s, team[t], Shares(iters, Len(team))[t][x])]]
  BY DEF Loop, PlanRegion
<1>3. PrepareVdiffMetPlan(team, s) = <<r>>
  BY DEF PrepareVdiffMetPlan, PlanRegion
<1> HIDE DEF r, iters
<1>4. Zoned(zone, iters, PlanArrays)
  BY <1>1, RowsZoned
<1>5. \A w, x : x \in iters =>
        Confined(VdiffPlanRow(s, w, x), w, zone[x], PlanArrays, names)
  BY <1>1, VdiffPlanConfined DEF RowZones
<1>6. Owned(PlanArrays, names)
  <2>1. PlanNames \cap ScratchNames = {}
    BY DEF PlanNames, ScratchNames
  <2>2. \A buf \in PlanArrays : buf[1] \in PlanNames
    BY DEF PlanArrays
  <2>3. QED
    BY <2>1, <2>2 DEF Owned
<1> HIDE DEF zone, names
<1>7. Laid(r, team, iters, zone, PlanArrays, names)
  BY <1>1, <1>2, <1>5, ShareIn DEF Laid
<1>8. Separate(r, Len(team))
  BY <1>1, <1>4, <1>6, <1>7, LoopSeparate
<1>9. QED
  BY <1>3, <1>8, SoundJoined

SetCrossTermsRegion(team, c) ==
  Loop(team, Levels, LAMBDA w, k : SetCrossTermsLevel(c, w, k))

LEMMA SetCrossTermsLoop ==
  ASSUME NEW team, Team(team), NEW c
  PROVE  Separate(SetCrossTermsRegion(team, c), Len(team))
PROOF
<1> DEFINE iters == Levels
           r == SetCrossTermsRegion(team, c)
           zone == LevelZones(iters, WindArrays, Rows, Cols)
<1>1. iters \in SUBSET Nat /\ IsFiniteSet(iters)
  BY Iterations
<1>2. r = [t \in 1 .. Len(team) |-> [x \in 1 .. Len(Shares(iters, Len(team))[t]) |->
             SetCrossTermsLevel(c, team[t], Shares(iters, Len(team))[t][x])]]
  BY DEF Loop, SetCrossTermsRegion
<1> HIDE DEF r, iters
<1>3. Zoned(zone, iters, WindArrays)
  BY <1>1, LevelsZoned
<1>4. \A w, x : x \in iters =>
        Confined(SetCrossTermsLevel(c, w, x), w, zone[x], WindArrays, WindNames)
  BY SetCrossTermsConfined DEF LevelZones
<1>5. Owned(WindArrays, WindNames)
  <2>1. {"ua", "va"} \cap ScratchNames = {}
    BY DEF ScratchNames
  <2>2. \A buf \in WindArrays : buf[1] \in {"ua", "va"}
    BY DEF WindArrays
  <2>3. QED
    BY <2>1, <2>2 DEF Owned, WindNames
<1> HIDE DEF zone
<1>6. Laid(r, team, iters, zone, WindArrays, WindNames)
  BY <1>1, <1>2, <1>4, ShareIn DEF Laid
<1>7. Separate(r, Len(team))
  BY <1>1, <1>3, <1>5, <1>6, LoopSeparate
<1>8. QED
  BY <1>7 DEF r

-----------------------------------------------------------------------------
(* What the first member does alone: sequences of operations.              *)

LEMMA SeqsJoined ==
  ASSUME NEW p, NEW q, IsSeq(p), IsSeq(q)
  PROVE  IsSeq(p \o q) /\ Len(p \o q) = Len(p) + Len(q) /\ Len(p) \in Nat /\ Len(q) \in Nat
PROOF
<1> DEFINE r == p \o q
<1>1. IsJoin(r, p, q)
  BY DEF IsJoin
<1> HIDE DEF r
<1>2. IsSeq(r) /\ Len(r) = Len(p) + Len(q)
  BY <1>1, Joined
<1>3. Len(p) \in Nat /\ Len(q) \in Nat
  BY IsSeqIs
<1>4. QED
  BY <1>2, <1>3 DEF r

LEMMA PrepareRuns ==
  ASSUME NEW team, Team(team), NEW s, NEW blocks
  PROVE  Runs(PrepareTransportStep(team, s, blocks), Len(team))
PROOF
<1> DEFINE a == <<Forcing(s), StartingPressure(s)>>
           b == <<PrivatePressures(s)>>
           d == [m \in 1 .. NLev |-> WindFluxes(s, m - 1)]
           e == <<WindDivergence(s), ZonalMeans(s), ClearCorrections(s), FirstMeridional(s)>>
           f == [m \in 1 .. Cardinality(Interior) |-> Corrections(s, J1P + m - 1)]
           g == <<ApplyCorrections(s), PlanPressures(s), PressureTerms(s), CourantNumbers(s),
                  SurfacePressure(s), Divergence(s)>>
           h == [m \in 1 .. NLev |-> VerticalFlux(s, m - 1)]
           k == <<CrossWinds(s), SetJnJs([s |-> s])>>
           l == <<NextDryMass(s), VdiffInputs(s)>>
           arrays == (((((b \o d) \o e) \o f) \o g) \o h) \o k
           ops == (a \o arrays) \o l
           plan == PrepareVdiffMetPlan(team, s)
           o == Once(team, SurfaceFlux(s, blocks))
           n == Len(team)
<1>1. PrepareTransportStep(team, s, blocks) = (Serial(team, ops) \o plan) \o <<o>>
  BY DEF PrepareTransportStep, PrepareTpcoreArrays, Serial
<1>2. IsSeq(a) /\ Len(a) = 2 /\ IsSeq(b) /\ IsSeq(k) /\ IsSeq(l)
  <2>1. /\ a = [i \in 1 .. 2 |-> a[i]] /\ b = [i \in 1 .. 1 |-> b[i]]
        /\ k = [i \in 1 .. 2 |-> k[i]] /\ l = [i \in 1 .. 2 |-> l[i]]
    OBVIOUS
  <2> HIDE DEF a, b, k, l
  <2>2. QED
    BY <2>1, SeqIs
<1>3. IsSeq(e) /\ IsSeq(g)
  <2>1. e = [i \in 1 .. 4 |-> e[i]] /\ g = [i \in 1 .. 6 |-> g[i]]
    OBVIOUS
  <2> HIDE DEF e, g
  <2>2. QED
    BY <2>1, SeqIs
<1>4. IsSeq(d) /\ IsSeq(f) /\ IsSeq(h)
  <2>1. NLev \in Nat /\ Cardinality(Interior) \in Nat
    <3>1. J1P \in Int /\ J2P \in Int
      BY GridAssumption DEF J1P, J2P
    <3>2. IsFiniteSet(Interior)
      BY <3>1, FS_Interval DEF Interior
    <3>3. QED
      BY <3>2, GridAssumption, FS_CardinalityType
  <2>2. d = [i \in 1 .. NLev |-> d[i]] /\ h = [i \in 1 .. NLev |-> h[i]]
        /\ f = [i \in 1 .. Cardinality(Interior) |-> f[i]]
    OBVIOUS
  <2> HIDE DEF d, f, h
  <2>3. QED
    BY <2>1, <2>2, SeqIs
<1>5. Separate(o, n)
  BY OnceSeparate
<1> HIDE DEF a, b, d, e, f, g, h, k, l, o
<1>6. IsSeq(arrays)
  BY <1>2, <1>3, <1>4, SeqsJoined
<1> HIDE DEF arrays
<1>7. IsSeq(ops) /\ Len(ops) = 2 + Len(arrays) + Len(l) /\ Len(arrays) \in Nat /\ Len(l) \in Nat
  <2>1. IsSeq(a \o arrays) /\ Len(a \o arrays) = 2 + Len(arrays) /\ Len(arrays) \in Nat
    BY <1>2, <1>6, SeqsJoined
  <2>2. QED
    BY <1>2, <2>1, SeqsJoined
<1> HIDE DEF ops
<1> DEFINE p == Serial(team, ops)
           os == <<o>>
<1>8. Sound(p, n) /\ Len(p) = Len(ops) /\ Sound(plan, n) /\ Len(plan) = 1
  BY <1>7, SerialSound, PlanLoop
<1>9. Sound(os, n) /\ Len(os) = 1
  BY <1>5, SoundJoined
<1> HIDE DEF p, os, plan, n
<1> DEFINE q == p \o plan
           r == q \o os
<1>10. IsJoin(q, p, plan) /\ IsJoin(r, q, os)
  BY DEF IsJoin
<1> HIDE DEF q, r
<1>11. Runs(p, n)
  BY <1>7, <1>8 DEF Runs
<1>12. Runs(q, n)
  BY <1>8, <1>10, <1>11, RunsOn
<1>13. Runs(r, n)
  BY <1>9, <1>10, <1>12, RunsOn
<1>14. QED
  BY <1>1, <1>13 DEF p, os, plan, n, q, r

-----------------------------------------------------------------------------
(* The device runs its launches one after the other.                       *)

VdiffLaunch(contexts, flux) ==
  Launch(Threads(Horizontal * Len(contexts), Horizontal * Len(contexts)),
         LAMBDA t : VdiffColumn(contexts[(t % Len(contexts)) + 1], flux,
                                (t \div Len(contexts)) \div NLon, (t \div Len(contexts)) % NLon),
         Op(CountCleared(contexts[1].s), CountClipped(contexts[1].s)))

LEMMA CudaStepSeq ==
  ASSUME NEW contexts, NEW flux
  PROVE  IsSeq(ApplyCudaStep(contexts, flux)) /\ Len(ApplyCudaStep(contexts, flux)) \in Nat
PROOF
<1> DEFINE a == <<HorizontalPoles(contexts), HorizontalInitialize(contexts),
                  HorizontalZonalWarp(contexts), HorizontalMeridional(contexts),
                  HorizontalFinalizePoles(contexts)>>
           x == PrepareVerticalCoefficients(contexts[1])
           b == IF contexts[1].single THEN <<>> ELSE <<x>>
           y == Vertical(contexts)
           z == Op({}, CountCleared(contexts[1].s))
           l == VdiffLaunch(contexts, flux)
           v == ApplyConvectionBlocks(contexts)
           d == <<y>>
           e == <<z, l>>
           f == <<v>>
<1>1. ApplyCudaStep(contexts, flux) = (((a \o b) \o d) \o e) \o f
  BY DEF ApplyCudaStep, ApplyTpcoreBlocks, ApplyVdiffBlocks, VdiffLaunch
<1>2. IsSeq(a)
  <2>1. a = [i \in 1 .. 5 |-> a[i]]
    OBVIOUS
  <2> HIDE DEF a
  <2>2. QED
    BY <2>1, SeqIs
<1> HIDE DEF a, x, y, z, l, v
<1>3. IsSeq(b) /\ IsSeq(d) /\ IsSeq(e) /\ IsSeq(f)
  BY NoneIs, ListIs
<1> HIDE DEF b, d, e, f
<1> DEFINE r == (((a \o b) \o d) \o e) \o f
<1>4. IsSeq(r)
  BY <1>2, <1>3, SeqsJoined
<1> HIDE DEF r
<1>5. Len(r) \in Nat
  BY <1>4, IsSeqIs
<1>6. QED
  BY <1>1, <1>4, <1>5 DEF r

LEMMA UploadedSound ==
  ASSUME NEW team, Team(team), NEW s, NEW blocks, NEW single, NEW flux
  PROVE  Sound(OnDevice(team, ApplyUploaded(s, blocks, single, flux)), Len(team))
PROOF
<1> DEFINE a == <<UploadTpcore(s), UploadVdiff(s), UploadConvection(s)>>
           contexts == Contexts(s, blocks, single, TRUE)
           b == ApplyCudaStep(contexts, flux)
           ops == a \o b
<1>1. OnDevice(team, ApplyUploaded(s, blocks, single, flux)) = Serial(team, ops)
  BY DEF OnDevice, ApplyUploaded, Serial
<1>2. IsSeq(a)
  <2>1. a = [i \in 1 .. 3 |-> a[i]]
    OBVIOUS
  <2> HIDE DEF a
  <2>2. QED
    BY <2>1, SeqIs
<1> HIDE DEF a, contexts
<1>3. IsSeq(b)
  BY CudaStepSeq
<1> HIDE DEF b
<1>4. IsSeq(ops)
  BY <1>2, <1>3, SeqsJoined
<1> HIDE DEF ops
<1>5. QED
  BY <1>1, <1>4, SerialSound

LEMMA ResidentRuns ==
  ASSUME NEW team, Team(team), NEW s, NEW blocks, NEW single, NEW flux
  PROVE  Runs(OnDevice(team, ApplyResident(s, blocks, single, flux)), Len(team))
PROOF
<1> DEFINE a == <<CudaForcing(s)>>
           b == <<SurfaceEndpoints(s), AverageEndpointPoles(s), InterpolateMeteorology(s),
                  DeltaTerms(s, FALSE),
                  SumDelta(s, "tendency", "fix"), ApplyPressureFix(s), AveragePressure("fixed", s),
                  MassFlux(s),
                  DivergenceInterior(s, "wind_xmass", "wind_ymass", TRUE, "wind_divergence"),
                  DivergencePoles(s, "wind_ymass", TRUE, "wind_divergence"), SumVertical(s),
                  DeltaTerms(s, TRUE),
                  SumDelta(s, "mismatch", "dgpress"), PressureRows(s), MeridionalCorrection(s),
                  ZonalCorrection(s), ApplyCorrection(s), CopyPressure(s),
                  AveragePressure("input", s), InitializeJnJs(s), CudaPressureTerms(s),
                  DivergenceInterior(s, "xmass", "ymass", FALSE, "divergence"),
                  DivergencePoles(s, "ymass", FALSE, "divergence"), CudaVerticalFlux(s),
                  CudaCrossTerms(s)>>
           d == IF single THEN <<CastTpcore(s)>> ELSE <<>>
           e == <<KeepDrySurface(s)>>
           f == <<ComputeVdiffStart(s), PrepareVdiff(s)>>
           g == IF single THEN <<CastVdiff(s)>> ELSE <<>>
           h == <<PrepareConvection(s)>>
           k == <<SurfaceFlux(s, 1 .. blocks)>>
           contexts == Contexts(s, blocks, single, FALSE)
           l == ApplyCudaStep(contexts, flux)
           tpcore == (b \o d) \o e
           columns == (f \o g) \o h
           ops == (((a \o tpcore) \o columns) \o k) \o l
<1>1. OnDevice(team, ApplyResident(s, blocks, single, flux)) = Serial(team, ops)
  BY DEF OnDevice, ApplyResident, PrepareTpcoreStep, PrepareVdiffAndConvection, Serial
<1>2. IsSeq(a) /\ Len(a) = 1
  <2>1. a = [i \in 1 .. 1 |-> a[i]]
    OBVIOUS
  <2> HIDE DEF a
  <2>2. QED
    BY <2>1, SeqIs
<1>3. IsSeq(b)
  <2>1. b = [i \in 1 .. 25 |-> b[i]]
    OBVIOUS
  <2> HIDE DEF b
  <2>2. QED
    BY <2>1, SeqIs
<1>4. IsSeq(d) /\ IsSeq(e) /\ IsSeq(f) /\ IsSeq(g) /\ IsSeq(h) /\ IsSeq(k)
  BY NoneIs, ListIs
<1> HIDE DEF a, b, d, e, f, g, h, k, contexts
<1>5. IsSeq(l)
  BY CudaStepSeq
<1> HIDE DEF l
<1>6. IsSeq(tpcore) /\ IsSeq(columns)
  BY <1>3, <1>4, SeqsJoined
<1> HIDE DEF tpcore, columns
<1>7. IsSeq(a \o tpcore) /\ Len(a \o tpcore) \in Nat \ {0}
  <2>1. IsSeq(a \o tpcore) /\ Len(a \o tpcore) = 1 + Len(tpcore) /\ Len(tpcore) \in Nat
    BY <1>2, <1>6, SeqsJoined
  <2>2. QED
    BY <2>1
<1> DEFINE m == a \o tpcore
           n == columns \o k
<1> HIDE DEF m
<1>8. IsSeq((m \o columns) \o k) /\ Len((m \o columns) \o k) \in Nat \ {0}
  <2>1. /\ IsSeq(m \o columns) /\ Len(m \o columns) = Len(m) + Len(columns)
        /\ Len(columns) \in Nat /\ Len(m) \in Nat \ {0}
    BY <1>6, <1>7, SeqsJoined DEF m
  <2>2. /\ IsSeq((m \o columns) \o k) /\ Len((m \o columns) \o k) = Len(m \o columns) + Len(k)
        /\ Len(k) \in Nat
    BY <1>4, <2>1, SeqsJoined
  <2>3. QED
    BY <2>1, <2>2
<1> DEFINE q == (m \o columns) \o k
<1>9. ops = q \o l
  BY DEF m
<1> HIDE DEF ops, q
<1>10. IsSeq(q \o l) /\ Len(q \o l) = Len(q) + Len(l) /\ Len(l) \in Nat /\ Len(q) \in Nat \ {0}
  BY <1>5, <1>8, SeqsJoined DEF q
<1>11. IsSeq(ops) /\ Len(ops) \in Nat \ {0}
  BY <1>9, <1>10
<1>12. QED
  BY <1>1, <1>11, SerialSound DEF Runs

-----------------------------------------------------------------------------
(* The traced step.                                                        *)

\* Each of the four arrays of the tracers has a name of its own.
LEMMA InContextIs ==
  ASSUME NEW c, NEW a \in BufferNames \ {"negative_counts"},
         NEW b \in BufferNames \ {"negative_counts"}, NEW d \in BufferNames \ {"negative_counts"},
         NEW e \in BufferNames \ {"negative_counts"},
         a # b, a # d, a # e, b # d, b # e, d # e, NEW i, NEW j, NEW k, NEW l,
         c.q = <<a, i>>, c.dq = <<b, j>>, c.qqu = <<d, k>>, c.qqv = <<e, l>>
  PROVE  InContext(c)
PROOF
  BY DEF InContext

LEMMA TraceContexts ==
  ASSUME NEW s
  PROVE  /\ InContext(TraceContext(s))
         /\ InContext([TraceContext(s) EXCEPT !.q = <<"traced_diffused", s>>])
         /\ InContext([TraceContext(s) EXCEPT !.q = TracedState(s)])
PROOF
<1> DEFINE c == TraceContext(s)
           v == [c EXCEPT !.q = <<"traced_diffused", s>>]
           x == [c EXCEPT !.q = TracedState(s)]
<1>1. /\ c.q = <<"traced_q", s>> /\ c.dq = <<"traced_mixing", s>>
      /\ c.qqu = <<"tpcore_qqu", 0>> /\ c.qqv = <<"tpcore_qqv", 0>>
      /\ v.q = <<"traced_diffused", s>> /\ v.dq = <<"traced_mixing", s>>
      /\ v.qqu = <<"tpcore_qqu", 0>> /\ v.qqv = <<"tpcore_qqv", 0>>
  BY DEF TraceContext
<1>2. /\ x.dq = <<"traced_mixing", s>> /\ x.q = TracedState(s)
      /\ x.qqu = <<"tpcore_qqu", 0>> /\ x.qqv = <<"tpcore_qqv", 0>>
  BY DEF TraceContext
<1> HIDE DEF c, v, x
<1>3. InContext(c)
  BY <1>1, InContextIs DEF BufferNames
<1>4. InContext(v)
  BY <1>1, InContextIs DEF BufferNames
<1>5. InContext(x)
  <2>1. CASE s = 0
    <3>1. x.q = <<"input", 1>>
      BY <1>2, <2>1 DEF TracedState
    <3>2. QED
      BY <1>2, <3>1, InContextIs DEF BufferNames
  <2>2. CASE s # 0
    <3>1. x.q = <<"traced_convected", s>>
      BY <1>2, <2>2 DEF TracedState
    <3>2. QED
      BY <1>2, <3>1, InContextIs DEF BufferNames
  <2>3. QED
    BY <2>1, <2>2
<1>6. QED
  BY <1>3, <1>4, <1>5 DEF c, v, x

LEMMA CopySeq ==
  ASSUME NEW c, NEW input
  PROVE  IsSeq(CopyInput(c, input)) /\ Len(CopyInput(c, input)) \in Nat
PROOF
<1> DEFINE o == Op(Hold(input, Levels, Rows, Cols, "convected", Before(c)),
                   Hold(c.q, Levels, Rows, Cols, "convected", Before(c)))
           p == CopyInput(c, input)
<1>1. p = <<>> \/ p = <<o>>
  BY DEF CopyInput
<1> HIDE DEF o, p
<1>2. IsSeq(p)
  BY <1>1, NoneIs, ListIs
<1>3. QED
  BY <1>2, IsSeqIs DEF p

LEMMA SetupSeq ==
  ASSUME NEW s
  PROVE  /\ IsSeq(<<Forcing(s), StartingPressure(s)>> \o SetupTpcoreTerms(s))
         /\ Len(<<Forcing(s), StartingPressure(s)>> \o SetupTpcoreTerms(s)) \in Nat \ {0}
PROOF
<1> DEFINE a == <<Forcing(s), StartingPressure(s)>>
           b == SetupTpcoreTerms(s)
<1>1. IsSeq(a) /\ Len(a) = 2
  <2>1. a = [i \in 1 .. 2 |-> a[i]]
    OBVIOUS
  <2> HIDE DEF a
  <2>2. QED
    BY <2>1, SeqIs
<1>2. IsSeq(b)
  <2>1. b = [i \in 1 .. 8 |-> b[i]]
    BY DEF SetupTpcoreTerms
  <2> HIDE DEF b
  <2>2. QED
    BY <2>1, SeqIs
<1> HIDE DEF a, b
<1>3. IsSeq(a \o b) /\ Len(a \o b) = Len(a) + Len(b) /\ Len(b) \in Nat
  BY <1>1, <1>2, SeqsJoined
<1>4. Len(a \o b) \in Nat \ {0}
  BY <1>1, <1>3
<1>5. QED
  BY <1>3, <1>4 DEF a, b

LEMMA TraceRuns ==
  ASSUME NEW team, Team(team), NEW j, NEW s
  PROVE  Runs(TraceTransportOneStep(team, j, s, InternalSteps), Len(team))
PROOF
<1> DEFINE n == Len(team)
           c == TraceContext(s)
           v == [c EXCEPT !.q = <<"traced_diffused", s>>]
           x == [c EXCEPT !.q = TracedState(s)]
           f == <<Forcing(s), StartingPressure(s)>> \o SetupTpcoreTerms(s)
           g == CopyInput(c, TracedState(s - 1))
           h == <<NextDryMass(s), VdiffInputs(s), SurfaceFlux(s, {1})>>
           k == <<CopyDiffused(x, v.q)>>
           r == SetCrossTermsRegion(team, c)
           o == Once(team, SetJnJs(c))
           p1 == Serial(team, f \o g)
           p2 == <<r, o>>
           p3 == AdvectTracersFused(team, c, TRUE, TRUE)
           p4 == Serial(team, h)
           p5 == PrepareVdiffMetPlan(team, s)
           p6 == ApplyVdiffBlock(team, v, TRUE, FALSE, j.flux)
           p7 == Serial(team, k)
           p8 == ConvectBlock(team, x, InternalSteps)
<1>1. TraceTransportOneStep(team, j, s, InternalSteps)
        = ((((((p1 \o p2) \o p3) \o p4) \o p5) \o p6) \o p7) \o p8
  BY DEF TraceTransportOneStep, SetCrossTermsRegion, Serial
<1>2. InContext(c) /\ InContext(v) /\ InContext(x)
  BY TraceContexts
<1>3. IsSeq(f) /\ Len(f) \in Nat \ {0}
  BY SetupSeq
<1>4. IsSeq(g) /\ Len(g) \in Nat
  BY CopySeq
<1>5. IsSeq(h) /\ IsSeq(k)
  <2>1. h = [i \in 1 .. 3 |-> h[i]] /\ k = [i \in 1 .. 1 |-> k[i]]
    OBVIOUS
  <2> HIDE DEF h, k
  <2>2. QED
    BY <2>1, SeqIs
<1> HIDE DEF c, v, x, f, g, h, k
<1>6. Separate(r, n) /\ Separate(o, n)
  BY SetCrossTermsLoop, OnceSeparate
<1>7. IsSeq(f \o g) /\ Len(f \o g) = Len(f) + Len(g)
  BY <1>3, <1>4, SeqsJoined
<1> DEFINE fg == f \o g
<1> HIDE DEF fg
<1>8. Sound(p1, n) /\ Len(p1) \in Nat \ {0}
  <2>1. IsSeq(fg) /\ Len(fg) \in Nat \ {0}
    BY <1>3, <1>4, <1>7 DEF fg
  <2>2. Sound(Serial(team, fg), n) /\ Len(Serial(team, fg)) = Len(fg)
    BY <2>1, SerialSound
  <2>3. QED
    BY <2>1, <2>2 DEF fg
<1> HIDE DEF r, o
<1>9. Sound(p2, n)
  <2>1. IsSeq(p2) /\ DOMAIN p2 = {1, 2} /\ p2[1] = r /\ p2[2] = o
    BY ListIs
  <2> HIDE DEF p2
  <2>2. QED
    BY <1>6, <2>1 DEF Sound
<1>10. Sound(p3, n)
  BY <1>2, AdvectTracersFusedTidies, TidiesSound
<1>11. Sound(p4, n) /\ Sound(p7, n)
  BY <1>5, SerialSound
<1>12. Sound(p5, n)
  BY PlanLoop
<1>13. Sound(p6, n) /\ Sound(p8, n)
  BY <1>2, ColumnsTidies, TidiesSound
<1> HIDE DEF p1, p2, p3, p4, p5, p6, p7, p8, n
<1> DEFINE q1 == p1 \o p2
           q2 == q1 \o p3
           q3 == q2 \o p4
           q4 == q3 \o p5
           q5 == q4 \o p6
           q6 == q5 \o p7
           q7 == q6 \o p8
<1>14. /\ IsJoin(q1, p1, p2) /\ IsJoin(q2, q1, p3) /\ IsJoin(q3, q2, p4) /\ IsJoin(q4, q3, p5)
       /\ IsJoin(q5, q4, p6) /\ IsJoin(q6, q5, p7) /\ IsJoin(q7, q6, p8)
  BY DEF IsJoin
<1>15. TraceTransportOneStep(team, j, s, InternalSteps) = q7
  BY <1>1
<1> HIDE DEF q1, q2, q3, q4, q5, q6, q7
<1>16. Runs(p1, n)
  BY <1>8 DEF Runs
<1>17. Runs(q1, n)
  BY <1>9, <1>14, <1>16, RunsOn
<1>18. Runs(q2, n)
  BY <1>10, <1>14, <1>17, RunsOn
<1>19. Runs(q3, n)
  BY <1>11, <1>14, <1>18, RunsOn
<1>20. Runs(q4, n)
  BY <1>12, <1>14, <1>19, RunsOn
<1>21. Runs(q5, n)
  BY <1>13, <1>14, <1>20, RunsOn
<1>22. Runs(q6, n)
  BY <1>11, <1>14, <1>21, RunsOn
<1>23. Runs(q7, n)
  BY <1>13, <1>14, <1>22, RunsOn
<1>24. QED
  BY <1>15, <1>23 DEF n

-----------------------------------------------------------------------------
(* The NumPy operators, which work alone.                                  *)

LatitudeRows(c, tracer, out) ==
  OverRows(Rows, LAMBDA j : RefVdiffLatitude(c, tracer, out, j))
XtpRows(c, k) == OverRows(Interior, LAMBDA j : RefXtpRow(c, k, j))
YtpRows(c, k) == OverRows(Interior, LAMBDA j : RefYtpRow(c, k, j))
FzppmRows(c)  == OverRows(Rows \ CapRows, LAMBDA j : RefFzppmRow(c, j))

LEMMA RowsSeq ==
  ASSUME NEW c, NEW k, NEW tracer, NEW out
  PROVE  /\ IsSeq(LatitudeRows(c, tracer, out)) /\ IsSeq(XtpRows(c, k)) /\ IsSeq(YtpRows(c, k))
         /\ IsSeq(FzppmRows(c))
PROOF
<1> DEFINE all == Ascending(Rows)
           inner == Ascending(Interior)
           some == Ascending(Rows \ CapRows)
           p == LatitudeRows(c, tracer, out)
           q == XtpRows(c, k)
           r == YtpRows(c, k)
           f == FzppmRows(c)
<1>1. /\ p = [m \in 1 .. Len(all) |-> RefVdiffLatitude(c, tracer, out, all[m])]
      /\ q = [m \in 1 .. Len(inner) |-> RefXtpRow(c, k, inner[m])]
      /\ r = [m \in 1 .. Len(inner) |-> RefYtpRow(c, k, inner[m])]
      /\ f = [m \in 1 .. Len(some) |-> RefFzppmRow(c, some[m])]
  BY DEF LatitudeRows, XtpRows, YtpRows, FzppmRows, OverRows
<1>2. Len(all) \in Nat /\ Len(inner) \in Nat /\ Len(some) \in Nat
  <2>1. /\ Rows \in SUBSET Nat /\ IsFiniteSet(Rows)
        /\ Interior \in SUBSET Nat /\ IsFiniteSet(Interior)
    BY Iterations
  <2>2. Rows \ CapRows \in SUBSET Nat /\ IsFiniteSet(Rows \ CapRows)
    BY <2>1, FS_Subset
  <2>3. QED
    BY <2>1, <2>2, AscendingIs
<1> HIDE DEF all, inner, some, p, q, r, f
<1>3. /\ p = [m \in 1 .. Len(all) |-> p[m]] /\ q = [m \in 1 .. Len(inner) |-> q[m]]
      /\ r = [m \in 1 .. Len(inner) |-> r[m]] /\ f = [m \in 1 .. Len(some) |-> f[m]]
  BY <1>1
<1>4. IsSeq(p) /\ IsSeq(q) /\ IsSeq(r) /\ IsSeq(f)
  BY <1>2, <1>3, SeqIs
<1>5. QED
  BY <1>4 DEF p, q, r, f

LEMMA ReferenceSeqs ==
  ASSUME NEW c, NEW input, NEW out, NEW internal \in Nat
  PROVE  /\ IsSeq(RefAdvectTracers(c, input, out)) /\ IsSeq(RefVdiff(c, input, out))
         /\ IsSeq(RefConvection(c, input, internal))
PROOF
<1>1. ASSUME NEW k PROVE IsSeq(RefAdvectLevel(c, k))
  <2> DEFINE a == <<AverageConstPoles(c, k), RefInitMass(c, k), RefCrossTerms(c, k),
                    RefXadv(c, k), RefYadv(c, k), RefAdvance(c, k), RefXmist(c, k)>>
             b == XtpRows(c, k)
             d == <<RefYmist(c, k), RefFyppm(c, k), RefYFlux(c, k, J1P)>>
             e == YtpRows(c, k)
             f == <<RefYtpPoles(c, k)>>
  <2>1. RefAdvectLevel(c, k) = (((a \o b) \o d) \o e) \o f
    BY DEF RefAdvectLevel, XtpRows, YtpRows
  <2>2. IsSeq(a) /\ IsSeq(d) /\ IsSeq(f)
    <3>1. /\ a = [i \in 1 .. 7 |-> a[i]] /\ d = [i \in 1 .. 3 |-> d[i]]
          /\ f = [i \in 1 .. 1 |-> f[i]]
      OBVIOUS
    <3> HIDE DEF a, d, f
    <3>2. QED
      BY <3>1, SeqIs
  <2>3. IsSeq(b) /\ IsSeq(e)
    BY RowsSeq
  <2> HIDE DEF a, b, d, e, f
  <2>4. IsSeq((((a \o b) \o d) \o e) \o f)
    BY <2>2, <2>3, SeqsJoined
  <2>5. QED
    BY <2>1, <2>4
<1>2. IsSeq(RefAdvectTracers(c, input, out))
  <2> DEFINE a == <<RefSetCrossTerms(c.s), RefSetJnJs(c.s), RefInput(c, input)>>
             levels == [m \in 1 .. NLev |-> RefAdvectLevel(c, m - 1)]
             b == FlattenSeq(levels)
             d == FzppmRows(c)
             e == <<RefQckxyz(c), RefFinalize(c, out)>>
  <2>1. RefAdvectTracers(c, input, out) = ((a \o b) \o d) \o e
    BY DEF RefAdvectTracers, FzppmRows
  <2>2. IsSeq(a) /\ IsSeq(e)
    <3>1. a = [i \in 1 .. 3 |-> a[i]] /\ e = [i \in 1 .. 2 |-> e[i]]
      OBVIOUS
    <3> HIDE DEF a, e
    <3>2. QED
      BY <3>1, SeqIs
  <2>3. IsSeq(levels) /\ DOMAIN levels = 1 .. NLev
    BY GridAssumption, SeqIs
  <2>4. \A m \in DOMAIN levels : IsSeq(levels[m])
    BY <1>1
  <2> HIDE DEF a, levels, d, e
  <2>5. IsSeq(b)
    BY <2>3, <2>4, Flattened
  <2>6. IsSeq(d)
    BY RowsSeq DEF d
  <2> HIDE DEF b
  <2>7. IsSeq(((a \o b) \o d) \o e)
    BY <2>2, <2>5, <2>6, SeqsJoined
  <2>8. QED
    BY <2>1, <2>7
<1>3. IsSeq(RefVdiff(c, input, out))
  <2> DEFINE a == <<RefVdiffSetup(c.s)>>
             b == LatitudeRows(c, input, out)
  <2>1. RefVdiff(c, input, out) = a \o b
    BY DEF RefVdiff, LatitudeRows
  <2>2. IsSeq(a)
    BY ListIs
  <2>3. IsSeq(b)
    BY RowsSeq
  <2> HIDE DEF a, b
  <2>4. IsSeq(a \o b)
    BY <2>2, <2>3, SeqsJoined
  <2>5. QED
    BY <2>1, <2>4
<1>4. IsSeq(RefConvection(c, input, internal))
  <2> DEFINE o == CopyDiffused(c, input)
             a == IF input = c.q THEN <<>> ELSE <<o>>
             b == [m \in 1 .. NLon |-> RefConvectGroup(c, Rows \X {m - 1}, internal)]
  <2>1. RefConvection(c, input, internal) = a \o b
    BY DEF RefConvection
  <2>2. IsSeq(b)
    <3>1. NLon \in Nat /\ b = [m \in 1 .. NLon |-> b[m]]
      BY GridAssumption
    <3> HIDE DEF b
    <3>2. QED
      BY <3>1, SeqIs
  <2> HIDE DEF o, b
  <2>3. IsSeq(a)
    BY NoneIs, ListIs
  <2> HIDE DEF a
  <2>4. IsSeq(a \o b)
    BY <2>2, <2>3, SeqsJoined
  <2>5. QED
    BY <2>1, <2>4
<1>5. QED
  BY <1>2, <1>3, <1>4

-----------------------------------------------------------------------------
(* The one-step driver.                                                    *)

\* What a caller hands over is one of its own arrays, or what the last call
\* returned.
LEMMA DriverContexts ==
  ASSUME NEW j, NEW s, NEW b, NEW input,
         j.consume => input[1] \in {"input", "state"} /\ input = <<input[1], input[2]>>
  PROVE  InContext(AdvectContext(j, s, b, input)) /\ InContext(VdiffContext(j, s, b, input))
PROOF
<1> DEFINE c == AdvectContext(j, s, b, input)
           v == VdiffContext(j, s, b, input)
<1>1. /\ c.q = (IF j.consume THEN input ELSE <<"tpcore_q", 0>>) /\ c.dq = <<"tpcore_dq", 0>>
      /\ c.qqu = <<"tpcore_qqu", 0>> /\ c.qqv = <<"tpcore_qqv", 0>>
  BY DEF AdvectContext
<1>2. /\ v.q = (IF j.consume THEN input ELSE <<"vdiff_out", 0>>) /\ v.dq = <<"vdiff_input", 0>>
      /\ v.qqu = <<"tpcore_qqu", 0>> /\ v.qqv = <<"tpcore_qqv", 0>>
  BY DEF AdvectContext, VdiffContext, VdiffOut
<1> HIDE DEF c, v
<1>3. CASE j.consume
  <2>1. PICK name \in {"input", "state"} : input = <<name, input[2]>>
    BY <1>3
  <2>2. c.q = <<name, input[2]>> /\ v.q = <<name, input[2]>>
    BY <1>1, <1>2, <1>3, <2>1
  <2>3. InContext(c)
    BY <1>1, <2>2, InContextIs DEF BufferNames
  <2>4. InContext(v)
    BY <1>2, <2>2, InContextIs DEF BufferNames
  <2>5. QED
    BY <2>3, <2>4 DEF c, v
<1>4. CASE ~j.consume
  <2>1. c.q = <<"tpcore_q", 0>> /\ v.q = <<"vdiff_out", 0>>
    BY <1>1, <1>2, <1>4
  <2>2. InContext(c)
    BY <1>1, <2>1, InContextIs DEF BufferNames
  <2>3. InContext(v)
    BY <1>2, <2>1, InContextIs DEF BufferNames
  <2>4. QED
    BY <2>2, <2>3 DEF c, v
<1>5. QED
  BY <1>3, <1>4

LEMMA CompiledAdvectionSound ==
  ASSUME NEW team, Team(team), NEW c, InContext(c), NEW input
  PROVE  Sound(CompiledAdvection(team, c, input), Len(team))
PROOF
<1> DEFINE n == Len(team)
           g == CopyInput(c, input)
           r == SetCrossTermsRegion(team, c)
           o == Once(team, SetJnJs(c))
           p1 == Serial(team, g)
           p2 == <<r, o>>
           p3 == AdvectTracersFused(team, c, TRUE, FALSE)
<1>1. CompiledAdvection(team, c, input) = (p1 \o p2) \o p3
  BY DEF CompiledAdvection, SetCrossTermsRegion, Serial
<1>2. IsSeq(g)
  BY CopySeq
<1> HIDE DEF g
<1>3. Separate(r, n) /\ Separate(o, n)
  BY SetCrossTermsLoop, OnceSeparate
<1>4. Sound(p1, n)
  BY <1>2, SerialSound
<1> HIDE DEF r, o
<1>5. Sound(p2, n)
  <2>1. IsSeq(p2) /\ DOMAIN p2 = {1, 2} /\ p2[1] = r /\ p2[2] = o
    BY ListIs
  <2> HIDE DEF p2
  <2>2. QED
    BY <1>3, <2>1 DEF Sound
<1>6. Sound(p3, n)
  BY AdvectTracersFusedTidies, TidiesSound
<1> HIDE DEF p1, p2, p3, n
<1>7. Sound(p1 \o p2, n)
  BY <1>4, <1>5, SoundJoined
<1>8. Sound((p1 \o p2) \o p3, n)
  BY <1>6, <1>7, SoundJoined
<1>9. QED
  BY <1>1, <1>8 DEF n

LEMMA CompiledColumnsSound ==
  ASSUME NEW team, Team(team), NEW c, InContext(c), NEW v, InContext(v), NEW flux
  PROVE  Sound(CompiledColumns(team, c, v, flux, InternalSteps), Len(team))
PROOF
<1> DEFINE n == Len(team)
           r == FinalizeDeferredRegion(team, c)
           o == Once(team, ConvertMass(c))
           p1 == <<r, o>>
           p2 == PrepareVdiffMetPlan(team, c.s)
           p3 == ApplyVdiffBlock(team, v, TRUE, FALSE, flux)
           p4 == ConvectBlock(team, v, InternalSteps)
<1>1. CompiledColumns(team, c, v, flux, InternalSteps) = ((p1 \o p2) \o p3) \o p4
  BY DEF CompiledColumns, FinalizeDeferredRegion
<1>2. Tidy(r, team, c)
  BY FinalizeDeferredLoop
<1>3. Separate(r, n) /\ Separate(o, n)
  BY <1>2, OnceSeparate DEF Tidy
<1> HIDE DEF r, o
<1>4. Sound(p1, n)
  <2>1. IsSeq(p1) /\ DOMAIN p1 = {1, 2} /\ p1[1] = r /\ p1[2] = o
    BY ListIs
  <2> HIDE DEF p1
  <2>2. QED
    BY <1>3, <2>1 DEF Sound
<1>5. Sound(p2, n)
  BY PlanLoop
<1>6. Sound(p3, n) /\ Sound(p4, n)
  BY ColumnsTidies, TidiesSound
<1> HIDE DEF p1, p2, p3, p4, n
<1>7. Sound(p1 \o p2, n)
  BY <1>4, <1>5, SoundJoined
<1>8. Sound((p1 \o p2) \o p3, n)
  BY <1>6, <1>7, SoundJoined
<1>9. Sound(((p1 \o p2) \o p3) \o p4, n)
  BY <1>6, <1>8, SoundJoined
<1>10. QED
  BY <1>1, <1>9 DEF n

LEMMA OneBlockRuns ==
  ASSUME NEW team, Team(team), NEW j, NEW s, NEW b, NEW input, j.compiled \in BOOLEAN,
         j.compiled /\ j.consume =>
           input[1] \in {"input", "state"} /\ input = <<input[1], input[2]>>
  PROVE  Runs(OneBlock(team, j, s, b, input, InternalSteps), Len(team))
PROOF
<1> DEFINE n == Len(team)
           c == AdvectContext(j, s, b, input)
           v == VdiffContext(j, s, b, input)
           w == [v EXCEPT !.q = <<"ref_convected", <<s, b>>>>]
           f == <<Forcing(s), StartingPressure(s)>> \o SetupTpcoreTerms(s)
           h == <<NextDryMass(s), VdiffInputs(s), SurfaceFlux(s, {b})>>
           before == Serial(team, f)
           after == Serial(team, h)
           p1 == CompiledAdvection(team, c, input)
           p2 == CompiledColumns(team, c, v, j.flux, InternalSteps)
           mixing == <<"ref_mixing", 0>>
           out == <<"ref_diffused_out", 0>>
           r1 == Serial(team, RefAdvectTracers(c, input, mixing))
           r2 == Serial(team, RefVdiff(c, mixing, out))
           r3 == Serial(team, RefConvection(w, out, InternalSteps))
           o == OneBlock(team, j, s, b, input, InternalSteps)
<1>1. o = IF j.compiled THEN ((before \o p1) \o after) \o p2
          ELSE (((before \o r1) \o after) \o r2) \o r3
  BY DEF OneBlock, Serial
<1>2. IsSeq(f) /\ Len(f) \in Nat \ {0}
  BY SetupSeq
<1>3. IsSeq(h)
  <2>1. h = [i \in 1 .. 3 |-> h[i]]
    OBVIOUS
  <2> HIDE DEF h
  <2>2. QED
    BY <2>1, SeqIs
<1> HIDE DEF f, h
<1>4. Runs(before, n)
  <2>1. Sound(before, n) /\ Len(before) = Len(f)
    BY <1>2, SerialSound
  <2>2. QED
    BY <1>2, <2>1 DEF Runs
<1>5. Sound(after, n)
  BY <1>3, SerialSound
<1>6. CASE j.compiled
  <2>1. InContext(c) /\ InContext(v)
    BY <1>6, DriverContexts
  <2> HIDE DEF c, v, before, after
  <2>2. Sound(p1, n)
    BY <2>1, CompiledAdvectionSound
  <2>3. Sound(p2, n)
    BY <2>1, CompiledColumnsSound
  <2> HIDE DEF p1, p2, n, o
  <2> DEFINE q1 == before \o p1
             q2 == q1 \o after
             q3 == q2 \o p2
  <2>4. IsJoin(q1, before, p1) /\ IsJoin(q2, q1, after) /\ IsJoin(q3, q2, p2) /\ o = q3
    BY <1>1, <1>6 DEF IsJoin
  <2> HIDE DEF q1, q2, q3
  <2>5. Runs(q1, n)
    BY <1>4, <2>2, <2>4, RunsOn
  <2>6. Runs(q2, n)
    BY <1>5, <2>4, <2>5, RunsOn
  <2>7. Runs(q3, n)
    BY <2>3, <2>4, <2>6, RunsOn
  <2>8. QED
    BY <2>4, <2>7 DEF n, o
<1>7. CASE ~j.compiled
  <2> HIDE DEF c, v, w, before, after, mixing, out
  <2>1. InternalSteps \in Nat
    BY StepsAssumption
  <2>2. /\ IsSeq(RefAdvectTracers(c, input, mixing)) /\ IsSeq(RefVdiff(c, mixing, out))
        /\ IsSeq(RefConvection(w, out, InternalSteps))
    BY <2>1, ReferenceSeqs
  <2>3. Sound(r1, n) /\ Sound(r2, n) /\ Sound(r3, n)
    BY <2>2, SerialSound
  <2> HIDE DEF r1, r2, r3, n, o
  <2> DEFINE q1 == before \o r1
             q2 == q1 \o after
             q3 == q2 \o r2
             q4 == q3 \o r3
  <2>4. /\ IsJoin(q1, before, r1) /\ IsJoin(q2, q1, after) /\ IsJoin(q3, q2, r2)
        /\ IsJoin(q4, q3, r3) /\ o = q4
    BY <1>1, <1>7 DEF IsJoin
  <2> HIDE DEF q1, q2, q3, q4
  <2>5. Runs(q1, n)
    BY <1>4, <2>3, <2>4, RunsOn
  <2>6. Runs(q2, n)
    BY <1>5, <2>4, <2>5, RunsOn
  <2>7. Runs(q3, n)
    BY <2>3, <2>4, <2>6, RunsOn
  <2>8. Runs(q4, n)
    BY <2>3, <2>4, <2>7, RunsOn
  <2>9. QED
    BY <2>4, <2>8 DEF n, o
<1>8. QED
  BY <1>6, <1>7

\* Where the tracers of a block are when a call has returned.
Return(kind, s, b) ==
  IF s = 0 THEN <<"input", b>>
  ELSE IF kind.blocks # 1 THEN <<"state", <<s, b>>>>
  ELSE IF ~kind.compiled THEN <<"ref_convected", <<s, b>>>>
  ELSE IF kind.consume THEN <<"input", b>>
  ELSE <<"vdiff_out", 0>>

LEMMA StateIs ==
  ASSUME NEW kind, kind.compiled \in BOOLEAN, kind.consume \in BOOLEAN, NEW b, NEW s \in Nat
  PROVE  State(kind, b)[s] = Return(kind, s, b)
PROOF
<1> DEFINE Def(g) == g = [t \in Nat |->
                            IF t = 0 THEN <<"input", b>>
                            ELSE IF Preserved(kind) THEN BlockResult(kind, t, b, g[t - 1])
                            ELSE <<"state", <<t, b>>>>]
           h == [t \in Nat |-> Return(kind, t, b)]
           f == State(kind, b)
<1>1. f = CHOOSE g : Def(g)
  BY DEF State
<1>2. ASSUME NEW t \in Nat
      PROVE  Return(kind, t, b) = IF t = 0 THEN <<"input", b>>
                               ELSE IF Preserved(kind) THEN BlockResult(kind, t, b, h[t - 1])
                               ELSE <<"state", <<t, b>>>>
  <2>1. CASE t = 0
    BY <2>1 DEF Return
  <2>2. CASE t # 0
    <3>1. t - 1 \in Nat
      BY <2>2
    <3>2. h[t - 1] = Return(kind, t - 1, b)
      BY <3>1
    <3> HIDE DEF h
    <3>3. QED
      BY <2>2, <3>2 DEF Return, Preserved, BlockResult, VdiffOut
  <2>3. QED
    BY <2>1, <2>2
<1>3. Def(h)
  BY <1>2
<1> HIDE DEF f, h
<1>4. Def(f)
  BY <1>1, <1>3
<1> DEFINE N == {t \in Nat : f[t] = h[t]}
<1>5. 0 \in N
  BY <1>3, <1>4
<1>6. ASSUME NEW t \in Nat, t \in N PROVE t + 1 \in N
  <2>1. t + 1 \in Nat /\ (t + 1) - 1 = t /\ t + 1 # 0 /\ f[t] = h[t]
    BY <1>6
  <2> HIDE DEF N
  <2>2. /\ f[t + 1] = IF Preserved(kind) THEN BlockResult(kind, t + 1, b, f[t])
                      ELSE <<"state", <<t + 1, b>>>>
        /\ h[t + 1] = IF Preserved(kind) THEN BlockResult(kind, t + 1, b, h[t])
                      ELSE <<"state", <<t + 1, b>>>>
    BY <1>3, <1>4, <2>1
  <2>3. QED
    BY <2>1, <2>2 DEF N
<1> HIDE DEF N
<1>7. Nat \subseteq N
  BY <1>5, <1>6, Induction
<1>8. QED
  BY <1>7 DEF N, h, f


LEMMA DriverRuns ==
  ASSUME NEW team, Team(team), NEW j, j.compiled \in BOOLEAN, j.consume \in BOOLEAN,
         j.blocks \in Nat \ {0}, NEW s \in Nat \ {0}
  PROVE  Runs(RunTransportOneStep(team, j, s, InternalSteps), Len(team))
PROOF
<1> DEFINE n == Len(team)
           input(b) == State(j, b)[s - 1]
           own(b) == OneBlock(team, j, s, b, input(b), InternalSteps)
           copy(b) == Once(team, CopyOut(j, s, b, BlockResult(j, s, b, input(b))))
           rest(b) == IF Preserved(j) THEN <<>> ELSE <<copy(b)>>
           ss == [b \in 1 .. j.blocks |-> own(b) \o rest(b)]
<1>1. RunTransportOneStep(team, j, s, InternalSteps) = FlattenSeq(ss)
  BY DEF RunTransportOneStep
<1>2. IsSeq(ss) /\ DOMAIN ss = 1 .. j.blocks /\ Len(ss) = j.blocks
  BY SeqIs
<1>3. ASSUME NEW b \in 1 .. j.blocks PROVE Runs(ss[b], n)
  <2> DEFINE i == input(b)
             p == own(b)
             q == rest(b)
             r == p \o q
             o == copy(b)
  <2>1. i = Return(j, s - 1, b)
    <3>1. s - 1 \in Nat
      OBVIOUS
    <3>2. QED
      BY <3>1, StateIs
  <2>2. j.compiled /\ j.consume => i[1] \in {"input", "state"} /\ i = <<i[1], i[2]>>
    <3> HIDE DEF i
    <3>1. j.compiled /\ j.consume => i = <<"input", b>> \/ i = <<"state", <<s - 1, b>>>>
      BY <2>1 DEF Return
    <3>2. QED
      BY <3>1
  <2>3. Runs(p, n)
    <3>1. p = OneBlock(team, j, s, b, i, InternalSteps)
      OBVIOUS
    <3> HIDE DEF i, p
    <3>2. Runs(OneBlock(team, j, s, b, i, InternalSteps), n)
      BY <2>2, OneBlockRuns
    <3>3. QED
      BY <3>1, <3>2
  <2>4. Separate(o, n)
    BY OnceSeparate
  <2>5. ss[b] = r /\ q = IF Preserved(j) THEN <<>> ELSE <<o>>
    OBVIOUS
  <2>6. IsJoin(r, p, q)
    BY DEF IsJoin
  <2> HIDE DEF p, o, q, r, n, ss
  <2>7. Sound(<<>>, n) /\ Sound(<<o>>, n)
    BY <2>4, SoundJoined
  <2>8. Sound(q, n)
    BY <2>5, <2>7
  <2>9. QED
    BY <2>3, <2>5, <2>6, <2>8, RunsOn
<1> HIDE DEF ss, n
<1>4. Runs(FlattenSeq(ss), n)
  BY <1>2, <1>3, RunsFlattened
<1>5. QED
  BY <1>1, <1>4 DEF n

-----------------------------------------------------------------------------
(* What a caller handed in is in the arrays named "input".  Operations     *)
(* that write none of their cells spare it.                                *)

Elsewhere(S) == \A p \in S : p[1][1][1] # "input"
Spared(op) == Elsewhere(op.sets)

ListSpares(l) == IsSeq(l) /\ \A x \in DOMAIN l : Spared(l[x])
RegionSpares(r, n) == \A t \in 1 .. n : \A a \in DOMAIN r[t] : Spared(r[t][a])
Spares(p, n) == IsSeq(p) /\ \A x \in DOMAIN p : RegionSpares(p[x], n)

LEMMA LiesElsewhere ==
  ASSUME NEW S, NEW buf, NEW K, NEW J, NEW I, Lies(S, buf, K, J, I), buf[1] # "input"
  PROVE  Elsewhere(S)
PROOF
  BY DEF Lies, Elsewhere

LEMMA ElsewhereAre ==
  /\ \A name, s, K, J, I : name # "input" => Elsewhere(Term(name, s, K, J, I))
  /\ \A name, s, K, J, I : name # "input" => Elsewhere(Fresh(name, s, K, J, I))
  /\ \A name, as, s, K, J, I : name # "input" => Elsewhere(TermAs(name, as, s, K, J, I))
  /\ \A name, owner, value : name # "input" => Elsewhere(Piece(name, owner, value))
  /\ \A buf, K, J, I, name, c : buf[1] # "input" => Elsewhere(Hold(buf, K, J, I, name, c))
  /\ \A buf, k, J, I, name, c : buf[1] # "input" => Elsewhere(Plane(buf, k, J, I, name, c))
  /\ \A A, B : Elsewhere(A) /\ Elsewhere(B) => Elsewhere(A \cup B)
PROOF
<1>1. ASSUME NEW name, NEW s, NEW K, NEW J, NEW I, name # "input"
      PROVE  Elsewhere(Term(name, s, K, J, I)) /\ Elsewhere(Fresh(name, s, K, J, I))
  <2>1. <<name, 0>>[1] # "input" /\ <<name, s>>[1] # "input"
    BY <1>1
  <2>2. QED
    BY <2>1, TermLies, LiesElsewhere
<1>2. ASSUME NEW name, NEW as, NEW s, NEW K, NEW J, NEW I, name # "input"
      PROVE  Elsewhere(TermAs(name, as, s, K, J, I))
  <2>1. <<name, 0>>[1] # "input"
    BY <1>2
  <2>2. QED
    BY <2>1, TermAsLies, LiesElsewhere
<1>3. ASSUME NEW name, NEW owner, NEW value, name # "input"
      PROVE  Elsewhere(Piece(name, owner, value))
  <2>1. <<name, owner>>[1] # "input"
    BY <1>3
  <2>2. QED
    BY <2>1, PieceLies, LiesElsewhere
<1>4. ASSUME NEW buf, NEW K, NEW J, NEW I, NEW name, NEW c, buf[1] # "input"
      PROVE  Elsewhere(Hold(buf, K, J, I, name, c))
  BY <1>4, HoldLies, LiesElsewhere
<1>5. ASSUME NEW buf, NEW k, NEW J, NEW I, NEW name, NEW c, buf[1] # "input"
      PROVE  Elsewhere(Plane(buf, k, J, I, name, c))
  BY <1>5, PlaneLies, LiesElsewhere
<1>6. ASSUME NEW A, NEW B, Elsewhere(A), Elsewhere(B) PROVE Elsewhere(A \cup B)
  BY <1>6 DEF Elsewhere
<1>7. QED
  BY <1>1, <1>2, <1>3, <1>4, <1>5, <1>6

\* What is confined to other arrays.
LEMMA ConfinedSpared ==
  ASSUME NEW op, NEW w, NEW z, NEW mine, NEW names, Confined(op, w, z, mine, names),
         \A buf \in z.bufs : buf[1] # "input"
  PROVE  Spared(op)
PROOF
<1> SUFFICES ASSUME NEW p \in op.sets PROVE p[1][1][1] # "input"
  BY DEF Spared, Elsewhere
<1>1. Inside(p[1], z) \/ Scratched(p[1], w)
  BY DEF Confined, Within
<1>2. QED
  BY <1>1 DEF Inside, Scratched, ScratchNames

\* An operation that spares the input is confined to the arrays it writes.
LEMMA SparedConfined ==
  ASSUME NEW op, Spared(op), NEW B, \A p \in op.sets : p[1][1] \in B
  PROVE  Confined(op, 0, Whole(B), {}, {})
PROOF
  BY DEF Confined, Within, Allowed, Inside, Whole

LEMMA FusedSpared ==
  ASSUME NEW a, NEW b, Spared(a), Spared(b)
  PROVE  Spared(Fused(a, b))
PROOF
<1> DEFINE B == {p[1][1] : p \in a.sets \cup b.sets}
<1>1. \A buf \in B : buf[1] # "input"
  BY DEF Spared, Elsewhere
<1>2. /\ \A p \in a.sets : p[1][1] \in B
      /\ \A p \in b.sets : p[1][1] \in B
  OBVIOUS
<1> HIDE DEF B
<1>3. Confined(a, 0, Whole(B), {}, {}) /\ Confined(b, 0, Whole(B), {}, {})
  BY <1>2, SparedConfined
<1>4. Confined(Fused(a, b), 0, Whole(B), {}, {})
  BY <1>3, FusedConfined
<1>5. Whole(B).bufs = B
  BY DEF Whole
<1>6. QED
  BY <1>1, <1>4, <1>5, ConfinedSpared

LEMMA FusedAllSpared ==
  ASSUME NEW ops, ListSpares(ops)
  PROVE  Spared(FusedAll(ops))
PROOF
<1> DEFINE n == Len(ops)
           B == UNION {{p[1][1] : p \in ops[i].sets} : i \in 1 .. n}
<1>1. n \in Nat /\ DOMAIN ops = 1 .. n
  BY IsSeqIs DEF ListSpares
<1>2. \A buf \in B : buf[1] # "input"
  BY <1>1 DEF ListSpares, Spared, Elsewhere
<1>3. \A i \in 1 .. n : \A p \in ops[i].sets : p[1][1] \in B
  OBVIOUS
<1> HIDE DEF B, n
<1>4. \A i \in 1 .. n : Confined(ops[i], 0, Whole(B), {}, {})
  BY <1>1, <1>3, SparedConfined DEF ListSpares
<1>5. Confined(FusedAll(ops), 0, Whole(B), {}, {})
  BY <1>1, <1>4, FusedAllConfined
<1>6. Whole(B).bufs = B
  BY DEF Whole
<1>7. QED
  BY <1>2, <1>5, <1>6, ConfinedSpared

\* Lists of operations.
LEMMA ListsSpare ==
  /\ ListSpares(<<>>)
  /\ \A a : Spared(a) => ListSpares(<<a>>)
  /\ \A a, b : Spared(a) /\ Spared(b) => ListSpares(<<a, b>>)
  /\ \A a, b, d : Spared(a) /\ Spared(b) /\ Spared(d) => ListSpares(<<a, b, d>>)
PROOF
<1>1. ListSpares(<<>>)
  <2> DEFINE e == <<>>
  <2>1. IsSeq(e) /\ DOMAIN e = {}
    BY NoneIs
  <2> HIDE DEF e
  <2>2. ListSpares(e)
    BY <2>1 DEF ListSpares
  <2>3. QED
    BY <2>2 DEF e
<1>2. ASSUME NEW a, NEW b, NEW d, Spared(a) PROVE ListSpares(<<a>>)
  BY ZenonT(60), <1>2, ListIs DEF ListSpares
<1>3. ASSUME NEW a, NEW b, NEW d, Spared(a), Spared(b) PROVE ListSpares(<<a, b>>)
  <2> DEFINE l == <<a, b>>
  <2>1. IsSeq(l) /\ DOMAIN l = {1, 2} /\ l[1] = a /\ l[2] = b
    BY ListIs
  <2> HIDE DEF l
  <2>2. ListSpares(l)
    BY <1>3, <2>1 DEF ListSpares
  <2>3. QED
    BY <2>2 DEF l
<1>4. ASSUME NEW a, NEW b, NEW d, Spared(a), Spared(b), Spared(d)
      PROVE  ListSpares(<<a, b, d>>)
  <2> DEFINE l == <<a, b, d>>
  <2>1. l = [i \in 1 .. 3 |-> l[i]] /\ l[1] = a /\ l[2] = b /\ l[3] = d
    OBVIOUS
  <2> HIDE DEF l
  <2>2. IsSeq(l) /\ DOMAIN l = 1 .. 3
    BY <2>1, SeqIs
  <2>3. ListSpares(l)
    BY <1>4, <2>1, <2>2 DEF ListSpares
  <2>4. QED
    BY <2>3 DEF l
<1>5. QED
  BY <1>1, <1>2, <1>3, <1>4

LEMMA ListsJoined ==
  ASSUME NEW l, NEW m, ListSpares(l), ListSpares(m), NEW k, IsJoin(k, l, m)
  PROVE  ListSpares(k)
PROOF
<1>1. IsSeq(l) /\ IsSeq(m)
  BY DEF ListSpares
<1>2. /\ IsSeq(k)
      /\ \A x \in DOMAIN k : (\E i \in DOMAIN l : k[x] = l[i]) \/ (\E i \in DOMAIN m : k[x] = m[i])
  BY <1>1, Joined
<1>3. QED
  BY <1>2 DEF ListSpares

LEMMA ListsFlattened ==
  ASSUME NEW ss, IsSeq(ss), \A m \in DOMAIN ss : ListSpares(ss[m])
  PROVE  ListSpares(FlattenSeq(ss))
PROOF
<1> DEFINE f == FlattenSeq(ss)
<1>1. \A m \in DOMAIN ss : IsSeq(ss[m])
  BY DEF ListSpares
<1>2. /\ IsSeq(f)
      /\ \A x \in DOMAIN f : \E m \in DOMAIN ss : \E i \in DOMAIN ss[m] : f[x] = ss[m][i]
  BY <1>1, Flattened
<1> HIDE DEF f
<1>3. ListSpares(f)
  BY <1>2 DEF ListSpares
<1>4. QED
  BY <1>3 DEF f

LEMMA RowsSpare ==
  ASSUME NEW l, NEW n \in Nat, l = [m \in 1 .. n |-> l[m]], \A m \in 1 .. n : Spared(l[m])
  PROVE  ListSpares(l)
PROOF
<1>1. IsSeq(l) /\ DOMAIN l = 1 .. n
  BY SeqIs
<1>2. QED
  BY <1>1 DEF ListSpares

\* Programs.
LEMMA SparesJoined ==
  ASSUME NEW n, NEW p, NEW q, Spares(p, n), Spares(q, n), NEW r, IsJoin(r, p, q)
  PROVE  Spares(r, n)
PROOF
<1>1. IsSeq(p) /\ IsSeq(q)
  BY DEF Spares
<1>2. /\ IsSeq(r)
      /\ \A x \in DOMAIN r : (\E i \in DOMAIN p : r[x] = p[i]) \/ (\E i \in DOMAIN q : r[x] = q[i])
  BY <1>1, Joined
<1>3. QED
  BY <1>2 DEF Spares

LEMMA SparesFlattened ==
  ASSUME NEW n, NEW ss, IsSeq(ss), \A m \in DOMAIN ss : Spares(ss[m], n)
  PROVE  Spares(FlattenSeq(ss), n)
PROOF
<1> DEFINE f == FlattenSeq(ss)
<1>1. \A m \in DOMAIN ss : IsSeq(ss[m])
  BY DEF Spares
<1>2. /\ IsSeq(f)
      /\ \A x \in DOMAIN f : \E m \in DOMAIN ss : \E i \in DOMAIN ss[m] : f[x] = ss[m][i]
  BY <1>1, Flattened
<1> HIDE DEF f
<1>3. Spares(f, n)
  BY <1>2 DEF Spares
<1>4. QED
  BY <1>3 DEF f

LEMMA OnceSpares ==
  ASSUME NEW team, NEW op, Spared(op)
  PROVE  RegionSpares(Once(team, op), Len(team))
PROOF
<1> DEFINE r == Once(team, op)
<1>1. \A t \in 1 .. Len(team) : r[t] = IF t = 1 THEN <<op>> ELSE <<>>
  BY DEF Once
<1> HIDE DEF r
<1>2. \A t \in 1 .. Len(team) : \A a \in DOMAIN r[t] : r[t][a] = op
  <2> SUFFICES ASSUME NEW t \in 1 .. Len(team), NEW a \in DOMAIN r[t] PROVE r[t][a] = op
    OBVIOUS
  <2>1. r[t] = <<op>>
    BY <1>1, NoneIs
  <2>2. QED
    BY <2>1
<1>3. QED
  BY <1>2 DEF RegionSpares, r

LEMMA RegionsSpare ==
  ASSUME NEW n
  PROVE  /\ Spares(<<>>, n)
         /\ \A r : RegionSpares(r, n) => Spares(<<r>>, n)
         /\ \A r, u : RegionSpares(r, n) /\ RegionSpares(u, n) => Spares(<<r, u>>, n)
PROOF
<1>1. Spares(<<>>, n)
  <2> DEFINE e == <<>>
  <2>1. IsSeq(e) /\ DOMAIN e = {}
    BY NoneIs
  <2> HIDE DEF e
  <2>2. Spares(e, n)
    BY <2>1 DEF Spares
  <2>3. QED
    BY <2>2 DEF e
<1>2. ASSUME NEW r, RegionSpares(r, n) PROVE Spares(<<r>>, n)
  <2> DEFINE e == <<r>>
  <2>1. IsSeq(e) /\ DOMAIN e = {1} /\ e[1] = r
    BY ListIs
  <2> HIDE DEF e
  <2>2. Spares(e, n)
    BY <1>2, <2>1 DEF Spares
  <2>3. QED
    BY <2>2 DEF e
<1>3. ASSUME NEW r, NEW u, RegionSpares(r, n), RegionSpares(u, n) PROVE Spares(<<r, u>>, n)
  <2> DEFINE e == <<r, u>>
  <2>1. IsSeq(e) /\ DOMAIN e = {1, 2} /\ e[1] = r /\ e[2] = u
    BY ListIs
  <2> HIDE DEF e
  <2>2. Spares(e, n)
    BY <1>3, <2>1 DEF Spares
  <2>3. QED
    BY <2>2 DEF e
<1>4. QED
  BY <1>1, <1>2, <1>3

LEMMA SerialSpares ==
  ASSUME NEW team, NEW ops, ListSpares(ops)
  PROVE  Spares(Serial(team, ops), Len(team))
PROOF
<1> DEFINE p == Serial(team, ops)
           n == Len(ops)
<1>1. n \in Nat /\ DOMAIN ops = 1 .. n
  BY IsSeqIs DEF ListSpares
<1>2. p = [m \in 1 .. n |-> Once(team, ops[m])]
  BY DEF Serial
<1>3. \A m \in 1 .. n : RegionSpares(p[m], Len(team))
  BY <1>1, <1>2, OnceSpares DEF ListSpares
<1>4. p = [m \in 1 .. n |-> p[m]]
  BY <1>2
<1> HIDE DEF p, n
<1>5. IsSeq(p) /\ DOMAIN p = 1 .. n
  BY <1>1, <1>4, SeqIs
<1>6. QED
  BY <1>3, <1>5 DEF Spares, p, n

\* A context none of whose arrays was handed in.
Clean(c) == \A buf \in Mine(c) : buf[1] # "input"

LEMMA CleanIs ==
  ASSUME NEW c, c.q[1] # "input", c.dq[1] # "input", c.qqu[1] # "input", c.qqv[1] # "input"
  PROVE  Clean(c)
PROOF
  BY DEF Clean, Mine, CapBuffers

LEMMA TidiesSpare ==
  ASSUME NEW team, Team(team), NEW c, Clean(c), NEW p, Tidies(p, team, c)
  PROVE  Spares(p, Len(team))
PROOF
<1>1. DOMAIN team = 1 .. Len(team)
  BY IsSeqIs DEF Team
<1>2. \A buf \in Whole(Mine(c)).bufs : buf[1] # "input"
  BY DEF Clean, Whole
<1>3. ASSUME NEW x \in DOMAIN p PROVE RegionSpares(p[x], Len(team))
  <2>1. \A t \in 1 .. Len(team) : \A a \in DOMAIN p[x][t] : OfBlock(p[x][t][a], team[t], c)
    BY <1>1, <1>3 DEF Tidies, Tidy
  <2>2. QED
    BY <1>2, <2>1, ConfinedSpared DEF OfBlock, RegionSpares
<1>4. QED
  BY <1>3 DEF Spares, Tidies

-----------------------------------------------------------------------------
(* The operations of the one-step driver and of the trace that write       *)
(* arrays by name.                                                         *)

LEMMA PlanOpsSpared ==
  ASSUME NEW s, NEW blocks
  PROVE  /\ Spared(Forcing(s)) /\ Spared(StartingPressure(s)) /\ Spared(NextDryMass(s))
         /\ Spared(VdiffInputs(s)) /\ Spared(SurfaceFlux(s, blocks))
PROOF
<1>1. Spared(Forcing(s))
  <2> DEFINE U == UNION {Field(name, s) : name \in ForcingFields}
  <2>1. Elsewhere(U)
    <3> SUFFICES ASSUME NEW p \in U PROVE p[1][1][1] # "input"
      BY DEF Elsewhere
    <3>1. PICK name \in ForcingFields : p \in Field(name, s)
      OBVIOUS
    <3>2. Elsewhere(Field(name, s))
      BY ElsewhereAre DEF Field, ForcingFields
    <3>3. QED
      BY <3>1, <3>2 DEF Elsewhere
  <2>2. /\ Elsewhere(Surface("p2_input", s)) /\ Elsewhere(Surface("wet_pressure", s))
        /\ Elsewhere(Surface("surface_met", s))
    BY ElsewhereAre DEF Surface
  <2>3. Forcing(s).sets = ((U \cup Surface("p2_input", s)) \cup Surface("wet_pressure", s))
                             \cup Surface("surface_met", s)
    BY DEF Forcing, Op
  <2> HIDE DEF U
  <2>4. Elsewhere(((U \cup Surface("p2_input", s)) \cup Surface("wet_pressure", s))
                    \cup Surface("surface_met", s))
    BY <2>1, <2>2, ElsewhereAre
  <2>5. QED
    BY <2>3, <2>4 DEF Spared
<1>2. Spared(StartingPressure(s))
  BY ElsewhereAre DEF Spared, StartingPressure, Op, Surface
<1>3. Spared(NextDryMass(s))
  BY ElsewhereAre DEF Spared, NextDryMass, Op, Field, DryMass
<1>4. Spared(VdiffInputs(s))
  BY ElsewhereAre DEF Spared, VdiffInputs, Op, Field
<1>5. Spared(SurfaceFlux(s, blocks))
  <2> SUFFICES ASSUME NEW p \in SurfaceFlux(s, blocks).sets PROVE p[1][1][1] # "input"
    BY DEF Spared, Elsewhere
  <2>1. PICK b \in blocks : p \in Piece("surface_flux", b, <<"surface_flux", s, b>>)
    BY DEF SurfaceFlux, Op
  <2>2. Elsewhere(Piece("surface_flux", b, <<"surface_flux", s, b>>))
    BY ElsewhereAre
  <2>3. QED
    BY <2>1, <2>2 DEF Elsewhere
<1>6. QED
  BY <1>1, <1>2, <1>3, <1>4, <1>5

LEMMA PressuresSpared ==
  ASSUME NEW s
  PROVE  Spared(PjcPressureFixedFluxes(s)) /\ Spared(RefPressTerms(s))
PROOF
<1>1. Spared(PjcPressureFixedFluxes(s))
  <2> DEFINE a == Op(PjcMismatch(s), Zonal("pjc_mmfd", s, Rows) \cup Global("pjc_dgpress", s))
             b == Op(Zonal("pjc_mmfd", s, {0} \cup Interior), Zonal("pjc_mmf", s, FluxRows))
             d == Op(PjcMismatch(s) \cup Global("pjc_dgpress", s) \cup Zonal("pjc_mmfd", s, Interior),
                     Surface("pjc_xfix", s))
             e == Op(Field("pjc_x", s) \cup Field("pjc_y", s) \cup Surface("pjc_xfix", s)
                       \cup Zonal("pjc_mmf", s, FluxRows),
                     Field("xmass", s) \cup Term("ymass", s, Levels, FluxRows, Cols))
             l == <<a, b, d, e>>
  <2>1. Spared(a) /\ Spared(b)
    BY ElsewhereAre DEF Spared, Op, Zonal, Global
  <2>2. Spared(d) /\ Spared(e)
    BY ElsewhereAre DEF Spared, Op, Surface, Field
  <2>3. PjcPressureFixedFluxes(s) = FusedAll(l)
    BY DEF PjcPressureFixedFluxes
  <2> HIDE DEF a, b, d, e
  <2>4. l = [i \in 1 .. 4 |-> l[i]] /\ \A i \in 1 .. 4 : Spared(l[i])
    BY <2>1, <2>2
  <2> HIDE DEF l
  <2>5. ListSpares(l)
    BY <2>4, RowsSpare
  <2>6. QED
    BY <2>3, <2>5, FusedAllSpared
<1>2. Spared(PlanPressures(s))
  <2> DEFINE a == Op(Surface("p1_input", s) \cup Surface("p2_input", s),
                     SurfaceAs("p1", "p1_input", s, Rows) \cup SurfaceAs("p2", "p2_input", s, Rows))
             b == AveragePoles("p1", "p1_input", "p1_plan", s)
             d == AveragePoles("p2", "p2_input", "p2_plan", s)
             l == <<a, b, d>>
  <2>1. Spared(a) /\ Spared(b) /\ Spared(d)
    BY ElsewhereAre DEF Spared, Op, SurfaceAs, AveragePoles
  <2>2. PlanPressures(s) = FusedAll(l)
    BY DEF PlanPressures
  <2> HIDE DEF a, b, d
  <2>3. ListSpares(l)
    BY <2>1, ListsSpare
  <2> HIDE DEF l
  <2>4. QED
    BY <2>2, <2>3, FusedAllSpared
<1>3. Spared(RefPressTerms(s))
  <2> DEFINE a == PlanPressures(s)
             b == Op(PlanPressure(s),
                     Field("delp1", s) \cup Field("delpm", s) \cup Field("delp2", s)
                       \cup Field("pu", s))
             l == <<a, b>>
  <2>1. Spared(b)
    BY ElsewhereAre DEF Spared, Op, Field
  <2>2. RefPressTerms(s) = FusedAll(l)
    BY DEF RefPressTerms
  <2> HIDE DEF a, b
  <2>3. ListSpares(l)
    BY <1>2, <2>1, ListsSpare DEF a
  <2> HIDE DEF l
  <2>4. QED
    BY <2>2, <2>3, FusedAllSpared
<1>4. QED
  BY <1>1, <1>3

LEMMA SetupSpares ==
  ASSUME NEW s
  PROVE  ListSpares(<<Forcing(s), StartingPressure(s)>> \o SetupTpcoreTerms(s))
PROOF
<1> DEFINE a == <<Forcing(s), StartingPressure(s)>>
           b == SetupTpcoreTerms(s)
           l == a \o b
<1>1. ListSpares(a)
  BY PlanOpsSpared, ListsSpare
<1>2. ListSpares(b)
  <2>1. /\ Spared(PjcPressures(s)) /\ Spared(PjcRawMassFlux(s)) /\ Spared(PjcDivergence(s))
        /\ Spared(RefCourant(s)) /\ Spared(RefDivergence(s)) /\ Spared(RefVerticalMassFlux(s))
    BY ElsewhereAre DEF Spared, PjcPressures, PjcRawMassFlux, PjcDivergence, RefCourant,
       RefDivergence, RefVerticalMassFlux, Op, Field, Surface
  <2>2. Spared(PjcPressureFixedFluxes(s)) /\ Spared(RefPressTerms(s))
    BY PressuresSpared
  <2>3. b = [i \in 1 .. 8 |-> b[i]] /\ \A i \in 1 .. 8 : Spared(b[i])
    BY <2>1, <2>2 DEF SetupTpcoreTerms
  <2> HIDE DEF b
  <2>4. QED
    BY <2>3, RowsSpare
<1>3. IsJoin(l, a, b)
  BY DEF IsJoin
<1> HIDE DEF a, b, l
<1>4. ListSpares(l)
  BY <1>1, <1>2, <1>3, ListsJoined
<1>5. QED
  BY <1>4 DEF l, a, b

LEMMA AfterSpares ==
  ASSUME NEW s, NEW blocks
  PROVE  ListSpares(<<NextDryMass(s), VdiffInputs(s), SurfaceFlux(s, blocks)>>)
PROOF
  BY PlanOpsSpared, ListsSpare

\* Copies into arrays of the callee's own.
LEMMA CopiesSpared ==
  ASSUME NEW c, NEW from, NEW j, NEW s, NEW b, c.q[1] # "input"
  PROVE  /\ ListSpares(CopyInput(c, from)) /\ Spared(CopyDiffused(c, from))
         /\ Spared(CopyOut(j, s, b, from)) /\ Spared(Accumulate(j, s))
PROOF
<1>1. ListSpares(CopyInput(c, from))
  <2> DEFINE o == Op(Hold(from, Levels, Rows, Cols, "convected", Before(c)),
                     Hold(c.q, Levels, Rows, Cols, "convected", Before(c)))
             p == CopyInput(c, from)
  <2>1. p = <<>> \/ p = <<o>>
    BY DEF CopyInput
  <2>2. Spared(o)
    BY ElsewhereAre DEF Spared, Op
  <2> HIDE DEF o, p
  <2>3. ListSpares(p)
    BY <2>1, <2>2, ListsSpare
  <2>4. QED
    BY <2>3 DEF p
<1>2. Spared(CopyDiffused(c, from))
  BY ElsewhereAre DEF Spared, CopyDiffused, Op
<1>3. Spared(CopyOut(j, s, b, from))
  <2>1. <<"state", <<s, b>>>>[1] # "input"
    OBVIOUS
  <2>2. QED
    BY <2>1, ElsewhereAre DEF Spared, CopyOut, Op
<1>4. Spared(Accumulate(j, s))
  BY ElsewhereAre DEF Spared, Accumulate, Accumulated, Op
<1>5. QED
  BY <1>1, <1>2, <1>3, <1>4

\* The two loops over shared arrays.
LEMMA PlanSpares ==
  ASSUME NEW team, Team(team), NEW s
  PROVE  Spares(PrepareVdiffMetPlan(team, s), Len(team))
PROOF
<1> DEFINE iters == Rows
           r == PlanRegion(team, s)
           n == Len(team)
           shares == Shares(iters, n)
<1>1. iters \in SUBSET Nat /\ IsFiniteSet(iters)
  BY Iterations
<1>2. r = [t \in 1 .. n |-> [x \in 1 .. Len(shares[t]) |->
             VdiffPlanRow(s, team[t], shares[t][x])]]
  BY DEF Loop, PlanRegion
<1>3. PrepareVdiffMetPlan(team, s) = <<r>>
  BY DEF PrepareVdiffMetPlan, PlanRegion
<1>4. \A t \in 1 .. n : \A x \in 1 .. Len(shares[t]) : shares[t][x] \in Rows
  <2> HIDE DEF iters
  <2>1. \A t \in 1 .. n : \A x \in 1 .. Len(shares[t]) : shares[t][x] \in iters
    BY <1>1, ShareIn
  <2>2. QED
    BY <2>1 DEF iters
<1> HIDE DEF r, shares, n
<1>5. ASSUME NEW w, NEW x \in Rows PROVE Spared(VdiffPlanRow(s, w, x))
  <2> DEFINE z == Zone(PlanArrays, Edges, {x}, Cols)
  <2>1. Confined(VdiffPlanRow(s, w, x), w, z, PlanArrays, PlanNames \cup ScratchNames)
    BY VdiffPlanConfined
  <2>2. \A buf \in z.bufs : buf[1] # "input"
    BY DEF Zone, PlanArrays, PlanNames
  <2> HIDE DEF z
  <2>3. QED
    BY <2>1, <2>2, ConfinedSpared
<1>6. RegionSpares(r, n)
  BY <1>2, <1>4, <1>5 DEF RegionSpares
<1>7. Spares(<<r>>, n)
  BY <1>6, RegionsSpare
<1>8. QED
  BY <1>3, <1>7 DEF n

LEMMA CrossTermsSpare ==
  ASSUME NEW team, NEW c
  PROVE  Spares(<<SetCrossTermsRegion(team, c), Once(team, SetJnJs(c))>>, Len(team))
PROOF
<1> DEFINE r == SetCrossTermsRegion(team, c)
           o == Once(team, SetJnJs(c))
           n == Len(team)
           shares == Shares(Levels, n)
<1>1. r = [t \in 1 .. n |-> [x \in 1 .. Len(shares[t]) |->
             SetCrossTermsLevel(c, team[t], shares[t][x])]]
  BY DEF Loop, SetCrossTermsRegion
<1>2. \A w, k : Spared(SetCrossTermsLevel(c, w, k))
  BY ElsewhereAre DEF Spared, SetCrossTermsLevel, Op
<1>3. Spared(SetJnJs(c))
  BY ElsewhereAre DEF Spared, SetJnJs, Op
<1> HIDE DEF r, shares
<1>4. RegionSpares(r, n)
  BY <1>1, <1>2 DEF RegionSpares
<1>5. RegionSpares(o, n)
  BY <1>3, OnceSpares
<1> HIDE DEF o, n
<1>6. Spares(<<r, o>>, n)
  BY <1>4, <1>5, RegionsSpare
<1>7. QED
  BY <1>6 DEF r, o, n

LEMMA DeferredSpare ==
  ASSUME NEW team, Team(team), NEW c, InContext(c), Clean(c)
  PROVE  Spares(<<FinalizeDeferredRegion(team, c), Once(team, ConvertMass(c))>>, Len(team))
PROOF
<1> DEFINE r == FinalizeDeferredRegion(team, c)
           o == Once(team, ConvertMass(c))
           n == Len(team)
<1>1. Tidy(r, team, c)
  BY FinalizeDeferredLoop
<1>2. Spared(ConvertMass(c))
  <2>1. <<"vdiff_input", 0>>[1] # "input"
    OBVIOUS
  <2>2. QED
    BY <2>1, ElsewhereAre DEF Spared, ConvertMass, Op
<1>3. RegionSpares(o, n)
  BY <1>2, OnceSpares
<1> HIDE DEF r, o
<1>4. RegionSpares(r, n)
  <2>1. DOMAIN team = 1 .. n
    BY IsSeqIs DEF Team
  <2>2. \A t \in 1 .. n : \A a \in DOMAIN r[t] : OfBlock(r[t][a], team[t], c)
    BY <1>1, <2>1 DEF Tidy
  <2>3. \A buf \in Whole(Mine(c)).bufs : buf[1] # "input"
    BY DEF Clean, Whole
  <2>4. QED
    BY <2>2, <2>3, ConfinedSpared DEF OfBlock, RegionSpares
<1> HIDE DEF n
<1>5. Spares(<<r, o>>, n)
  BY <1>3, <1>4, RegionsSpare
<1>6. QED
  BY <1>5 DEF r, o, n

-----------------------------------------------------------------------------
(* The NumPy operators, in arrays of their own.                            *)

LEMMA ReferenceLevelSpares ==
  ASSUME NEW c, Clean(c), NEW k
  PROVE  ListSpares(RefAdvectLevel(c, k))
PROOF
<1> DEFINE a == <<AverageConstPoles(c, k), RefInitMass(c, k), RefCrossTerms(c, k),
                  RefXadv(c, k), RefYadv(c, k), RefAdvance(c, k), RefXmist(c, k)>>
           b == XtpRows(c, k)
           d == <<RefYmist(c, k), RefFyppm(c, k), RefYFlux(c, k, J1P)>>
           e == YtpRows(c, k)
           f == <<RefYtpPoles(c, k)>>
           inner == Ascending(Interior)
<1>1. RefAdvectLevel(c, k) = (((a \o b) \o d) \o e) \o f
  BY DEF RefAdvectLevel, XtpRows, YtpRows
<1>2. c.q[1] # "input" /\ c.dq[1] # "input" /\ c.qqu[1] # "input" /\ c.qqv[1] # "input"
  BY DEF Clean, Mine
<1>3. Spared(AverageConstPoles(c, k)) /\ Spared(RefInitMass(c, k)) /\ Spared(RefCrossTerms(c, k))
  BY <1>2, ElsewhereAre DEF Spared, AverageConstPoles, Averaged, Entering, RefInitMass,
     RefCrossTerms, CrossU, CrossV, Op
<1>4. /\ Spared(RefXadv(c, k)) /\ Spared(RefYadv(c, k)) /\ Spared(RefAdvance(c, k))
      /\ Spared(RefXmist(c, k)) /\ Spared(RefYmist(c, k))
  <2>1. \A name : <<name, 0>>[1] = name
    OBVIOUS
  <2>2. /\ Elsewhere(Local("adx", c, k, Rows)) /\ Elsewhere(Local("ady", c, k, Rows))
        /\ Elsewhere(Local("ref_dcx", c, k, Rows)) /\ Elsewhere(Local("ref_dcy", c, k, Rows))
    BY <2>1, ElsewhereAre DEF Local
  <2>3. Elsewhere(Advanced(c, {k}, Rows, Cols))
    BY <1>2, ElsewhereAre DEF Advanced
  <2>4. QED
    BY <2>2, <2>3 DEF Spared, RefXadv, RefYadv, RefAdvance, RefXmist, RefYmist, Op
<1>5. Spared(RefFyppm(c, k)) /\ Spared(RefYtpPoles(c, k)) /\ \A j : Spared(RefYFlux(c, k, j))
  BY <1>2, ElsewhereAre DEF Spared, RefFyppm, RefYtpPoles, RefYFlux, Op
<1>6. ASSUME NEW j PROVE Spared(RefXtpRow(c, k, j))
  <2> DEFINE g == Op(CrossV(c, k, {j}, Cols) \cup Local("ref_dcx", c, k, {j})
                       \cup (UNION {Term(name, c.s, {k}, {j}, Cols) : name \in {"cx", "pu", "xmass"}})
                       \cup Term("jn", c.s, {k}, {0}, {0}) \cup Term("js", c.s, {k}, {0}, {0}),
                     Piece("ref_fx", 0, <<"ref_fx", c.s, c.b, k, j>>))
             h == Op(Piece("ref_fx", 0, <<"ref_fx", c.s, c.b, k, j>>)
                       \cup Hold(c.dq, {k}, {j}, Cols, "mass", c),
                     Hold(c.dq, {k}, {j}, Cols, "x_transported", c))
             l == <<g, h>>
  <2>1. Spared(g) /\ Spared(h)
    BY <1>2, ElsewhereAre DEF Spared, Op
  <2>2. RefXtpRow(c, k, j) = FusedAll(l)
    BY DEF RefXtpRow
  <2> HIDE DEF g, h
  <2>3. ListSpares(l)
    BY <2>1, ListsSpare
  <2> HIDE DEF l
  <2>4. QED
    BY <2>2, <2>3, FusedAllSpared
<1>7. ASSUME NEW j PROVE Spared(RefYtpRow(c, k, j))
  <2> DEFINE g == RefYFlux(c, k, j + 1)
             h == Op(Plane(c.qqv, k, {j, j + 1}, Cols, "y_flux", c)
                       \cup Hold(c.dq, {k}, {j}, Cols, "x_transported", c),
                     Hold(c.dq, {k}, {j}, Cols, "transported", c))
  <2>1. Spared(g) /\ Spared(h)
    BY <1>2, <1>5, ElsewhereAre DEF Spared, Op
  <2>2. RefYtpRow(c, k, j) = Fused(g, h)
    BY DEF RefYtpRow
  <2> HIDE DEF g, h
  <2>3. QED
    BY <2>1, <2>2, FusedSpared
<1>8. /\ b = [m \in 1 .. Len(inner) |-> RefXtpRow(c, k, inner[m])]
      /\ e = [m \in 1 .. Len(inner) |-> RefYtpRow(c, k, inner[m])]
  BY DEF XtpRows, YtpRows, OverRows
<1>9. Len(inner) \in Nat
  BY Iterations, AscendingIs
<1> HIDE DEF b, e, inner
<1>10. ListSpares(b) /\ ListSpares(e)
  <2>1. /\ b = [m \in 1 .. Len(inner) |-> b[m]] /\ \A m \in 1 .. Len(inner) : Spared(b[m])
        /\ e = [m \in 1 .. Len(inner) |-> e[m]] /\ \A m \in 1 .. Len(inner) : Spared(e[m])
    BY <1>6, <1>7, <1>8
  <2>2. QED
    BY <1>9, <2>1, RowsSpare
<1>11. ListSpares(a)
  <2>1. a = [i \in 1 .. 7 |-> a[i]] /\ \A i \in 1 .. 7 : Spared(a[i])
    BY <1>3, <1>4
  <2> HIDE DEF a
  <2>2. QED
    BY <2>1, RowsSpare
<1>12. ListSpares(d) /\ ListSpares(f)
  BY <1>4, <1>5, ListsSpare
<1> HIDE DEF a, d, f
<1> DEFINE l1 == a \o b
           l2 == l1 \o d
           l3 == l2 \o e
           l4 == l3 \o f
<1>13. IsJoin(l1, a, b) /\ IsJoin(l2, l1, d) /\ IsJoin(l3, l2, e) /\ IsJoin(l4, l3, f)
  BY DEF IsJoin
<1>14. RefAdvectLevel(c, k) = l4
  BY <1>1
<1> HIDE DEF l1, l2, l3, l4
<1>15. ListSpares(l2)
  BY <1>10, <1>11, <1>12, <1>13, ListsJoined
<1>16. ListSpares(l4)
  BY <1>10, <1>12, <1>13, <1>15, ListsJoined
<1>17. QED
  BY <1>14, <1>16

LEMMA ReferenceAdvectionSpares ==
  ASSUME NEW c, Clean(c), NEW input, NEW out, out[1] # "input"
  PROVE  ListSpares(RefAdvectTracers(c, input, out))
PROOF
<1> DEFINE a == <<RefSetCrossTerms(c.s), RefSetJnJs(c.s), RefInput(c, input)>>
           levels == [m \in 1 .. NLev |-> RefAdvectLevel(c, m - 1)]
           b == FlattenSeq(levels)
           d == FzppmRows(c)
           e == <<RefQckxyz(c), RefFinalize(c, out)>>
           some == Ascending(Rows \ CapRows)
<1>1. RefAdvectTracers(c, input, out) = ((a \o b) \o d) \o e
  BY DEF RefAdvectTracers, FzppmRows
<1>2. c.q[1] # "input" /\ c.dq[1] # "input"
  BY DEF Clean, Mine
<1>3. Spared(RefSetCrossTerms(c.s)) /\ Spared(RefSetJnJs(c.s)) /\ Spared(RefInput(c, input))
  BY <1>2, ElsewhereAre DEF Spared, RefSetCrossTerms, RefSetJnJs, RefInput, Field, Op
<1>4. /\ Spared(RefQckxyz(c)) /\ Spared(RefFinalize(c, out))
      /\ \A j : Spared(RefFzppmRow(c, j))
  BY <1>2, ElsewhereAre DEF Spared, RefQckxyz, RefFinalize, RefFzppmRow, Op
<1>5. ListSpares(a) /\ ListSpares(e)
  BY <1>3, <1>4, ListsSpare
<1>6. ListSpares(b)
  <2>1. IsSeq(levels) /\ DOMAIN levels = 1 .. NLev
    BY GridAssumption, SeqIs
  <2>2. \A m \in DOMAIN levels : ListSpares(levels[m])
    BY ReferenceLevelSpares
  <2> HIDE DEF levels
  <2>3. QED
    BY <2>1, <2>2, ListsFlattened
<1>7. ListSpares(d)
  <2>1. d = [m \in 1 .. Len(some) |-> RefFzppmRow(c, some[m])]
    BY DEF FzppmRows, OverRows
  <2>2. Len(some) \in Nat
    <3>1. Rows \ CapRows \in SUBSET Nat /\ IsFiniteSet(Rows \ CapRows)
      BY Iterations, FS_Subset
    <3>2. QED
      BY <3>1, AscendingIs
  <2> HIDE DEF d, some
  <2>3. d = [m \in 1 .. Len(some) |-> d[m]] /\ \A m \in 1 .. Len(some) : Spared(d[m])
    BY <1>4, <2>1
  <2>4. QED
    BY <2>2, <2>3, RowsSpare
<1> HIDE DEF a, b, d, e
<1> DEFINE l1 == a \o b
           l2 == l1 \o d
           l3 == l2 \o e
<1>8. IsJoin(l1, a, b) /\ IsJoin(l2, l1, d) /\ IsJoin(l3, l2, e)
  BY DEF IsJoin
<1>9. RefAdvectTracers(c, input, out) = l3
  BY <1>1
<1> HIDE DEF l1, l2, l3
<1>10. ListSpares(l3)
  BY <1>5, <1>6, <1>7, <1>8, ListsJoined
<1>11. QED
  BY <1>9, <1>10

LEMMA LatitudeSpared ==
  ASSUME NEW c, NEW tracer, NEW out, out[1] # "input", NEW j
  PROVE  Spared(RefVdiffLatitude(c, tracer, out, j))
PROOF
<1> DEFINE l == <<
      RefFreeDiffusivity(c, j), RefPblDiffusivity(c, j), RefPotbar(c, j),
      RefCountergradientTracers(c, tracer, j), RefCountergradientScalar(c, j),
      RefDiffusionCoefficients(c, j), RefQvdiff(c, j, "ref_qmx", "ref_diffused"),
      RefRescale(c, tracer, out, j), RefQvdiff(c, j, "ref_shmx", "ref_sphu"),
      RefHumidity(c, j)>>
<1>1. \A name : name # "input" => Elsewhere(RowPiece(name, c, j))
  BY ElsewhereAre DEF RowPiece
<1>2. /\ Spared(RefFreeDiffusivity(c, j)) /\ Spared(RefPblDiffusivity(c, j))
      /\ Spared(RefPotbar(c, j)) /\ Spared(RefCountergradientTracers(c, tracer, j))
      /\ Spared(RefCountergradientScalar(c, j)) /\ Spared(RefDiffusionCoefficients(c, j))
  BY <1>1, ElsewhereAre DEF Spared, RefFreeDiffusivity, RefPblDiffusivity, RefPotbar,
     RefCountergradientTracers, RefCountergradientScalar, RefDiffusionCoefficients, Op
<1>3. /\ Spared(RefQvdiff(c, j, "ref_qmx", "ref_diffused"))
      /\ Spared(RefQvdiff(c, j, "ref_shmx", "ref_sphu"))
  BY <1>1 DEF Spared, RefQvdiff, Op
<1>4. Spared(RefRescale(c, tracer, out, j)) /\ Spared(RefHumidity(c, j))
  BY ElsewhereAre DEF Spared, RefRescale, RefHumidity, Op
<1>5. RefVdiffLatitude(c, tracer, out, j) = FusedAll(l)
  BY DEF RefVdiffLatitude
<1>6. l = [i \in 1 .. 10 |-> l[i]] /\ \A i \in 1 .. 10 : Spared(l[i])
  BY <1>2, <1>3, <1>4
<1> HIDE DEF l
<1>7. ListSpares(l)
  BY <1>6, RowsSpare
<1>8. QED
  BY <1>5, <1>7, FusedAllSpared

LEMMA ReferenceDiffusionSpares ==
  ASSUME NEW c, NEW tracer, NEW out, out[1] # "input"
  PROVE  ListSpares(RefVdiff(c, tracer, out))
PROOF
<1> DEFINE a == <<RefVdiffSetup(c.s)>>
           b == LatitudeRows(c, tracer, out)
           l == a \o b
           all == Ascending(Rows)
<1>1. RefVdiff(c, tracer, out) = l
  BY DEF RefVdiff, LatitudeRows
<1>2. Spared(RefVdiffSetup(c.s))
  <2> SUFFICES ASSUME NEW p \in RefVdiffSetup(c.s).sets PROVE p[1][1][1] # "input"
    BY DEF Spared, Elsewhere
  <2>1. PICK name \in {"ref_thp", "ref_zm", "ref_rpdel", "ref_rpdeli"} : p \in Field(name, c.s)
    BY DEF RefVdiffSetup, Op
  <2>2. Elsewhere(Field(name, c.s))
    BY ElsewhereAre DEF Field
  <2>3. QED
    BY <2>1, <2>2 DEF Elsewhere
<1>3. ListSpares(a)
  BY <1>2, ListsSpare
<1>4. ListSpares(b)
  <2>1. b = [m \in 1 .. Len(all) |-> RefVdiffLatitude(c, tracer, out, all[m])]
    BY DEF LatitudeRows, OverRows
  <2>2. Len(all) \in Nat
    BY Iterations, AscendingIs
  <2> HIDE DEF b, all
  <2>3. b = [m \in 1 .. Len(all) |-> b[m]] /\ \A m \in 1 .. Len(all) : Spared(b[m])
    BY <2>1, LatitudeSpared
  <2>4. QED
    BY <2>2, <2>3, RowsSpare
<1>5. IsJoin(l, a, b)
  BY DEF IsJoin
<1> HIDE DEF a, b, l
<1>6. QED
  BY <1>1, <1>3, <1>4, <1>5, ListsJoined

LEMMA GroupSpared ==
  ASSUME NEW c, c.q[1] # "input", NEW columns, NEW internal \in Nat
  PROVE  Spared(RefConvectGroup(c, columns, internal))
PROOF
<1> DEFINE work(m) == Piece("ref_group", 0, <<"ref_group", c.s, c.b, columns, m>>)
           met == UNION {ConvectionMet(c.s, x[1], x[2]) : x \in columns}
           a == Op(RefColumns(c, columns, "diffused"), work(0))
           b == [m \in 1 .. internal |-> Op(work(m - 1) \cup met, work(m))]
           d == Op(work(internal), RefColumns(c, columns, "convected"))
           as == <<a>>
           ds == <<d>>
           l1 == as \o b
           l2 == l1 \o ds
<1>1. RefConvectGroup(c, columns, internal) = FusedAll(l2)
  BY DEF RefConvectGroup
<1>2. \A m : Elsewhere(work(m))
  BY ElsewhereAre
<1>3. Spared(a)
  BY <1>2 DEF Spared, Op
<1>4. Spared(d)
  <2> SUFFICES ASSUME NEW p \in RefColumns(c, columns, "convected") PROVE p[1][1][1] # "input"
    BY DEF Spared, Elsewhere, Op
  <2>1. PICK x \in columns : p \in Hold(c.q, Levels, {x[1]}, {x[2]}, "convected", c)
    BY DEF RefColumns
  <2>2. Elsewhere(Hold(c.q, Levels, {x[1]}, {x[2]}, "convected", c))
    BY ElsewhereAre
  <2>3. QED
    BY <2>1, <2>2 DEF Elsewhere
<1> HIDE DEF a, d
<1>5. ListSpares(as) /\ ListSpares(ds)
  BY <1>3, <1>4, ListsSpare
<1>6. ListSpares(b)
  <2> HIDE DEF work, met
  <2>1. b = [m \in 1 .. internal |-> b[m]] /\ \A m \in 1 .. internal : Spared(b[m])
    BY <1>2 DEF Spared, Op
  <2> HIDE DEF b
  <2>2. QED
    BY <2>1, RowsSpare
<1>7. IsJoin(l1, as, b) /\ IsJoin(l2, l1, ds)
  BY DEF IsJoin
<1> HIDE DEF as, b, ds, l1, l2
<1>8. ListSpares(l2)
  BY <1>5, <1>6, <1>7, ListsJoined
<1>9. QED
  BY <1>1, <1>8, FusedAllSpared

LEMMA ReferenceConvectionSpares ==
  ASSUME NEW c, c.q[1] # "input", NEW diffused
  PROVE  ListSpares(RefConvection(c, diffused, InternalSteps))
PROOF
<1> DEFINE o == CopyDiffused(c, diffused)
           a == IF diffused = c.q THEN <<>> ELSE <<o>>
           b == [m \in 1 .. NLon |-> RefConvectGroup(c, Rows \X {m - 1}, InternalSteps)]
           l == a \o b
<1>1. RefConvection(c, diffused, InternalSteps) = l
  BY DEF RefConvection
<1>2. Spared(o)
  BY CopiesSpared
<1> HIDE DEF o
<1>3. ListSpares(a)
  BY <1>2, ListsSpare
<1>4. ListSpares(b)
  <2>1. NLon \in Nat /\ InternalSteps \in Nat
    BY GridAssumption, StepsAssumption
  <2>2. b = [m \in 1 .. NLon |-> b[m]] /\ \A m \in 1 .. NLon : Spared(b[m])
    BY <2>1, GroupSpared
  <2> HIDE DEF b
  <2>3. QED
    BY <2>1, <2>2, RowsSpare
<1>5. IsJoin(l, a, b)
  BY DEF IsJoin
<1> HIDE DEF a, b, l
<1>6. QED
  BY <1>1, <1>3, <1>4, <1>5, ListsJoined

-----------------------------------------------------------------------------
(* Whole steps that leave their input alone.                               *)

LEMMA OwnContexts ==
  ASSUME NEW j, NEW s, NEW b, NEW input, ~j.consume
  PROVE  Clean(AdvectContext(j, s, b, input)) /\ Clean(VdiffContext(j, s, b, input))
PROOF
<1> DEFINE c == AdvectContext(j, s, b, input)
           v == VdiffContext(j, s, b, input)
<1>1. /\ c.q = <<"tpcore_q", 0>> /\ c.dq = <<"tpcore_dq", 0>>
      /\ c.qqu = <<"tpcore_qqu", 0>> /\ c.qqv = <<"tpcore_qqv", 0>>
  BY DEF AdvectContext
<1>2. /\ v.q = <<"vdiff_out", 0>> /\ v.dq = <<"vdiff_input", 0>>
      /\ v.qqu = <<"tpcore_qqu", 0>> /\ v.qqv = <<"tpcore_qqv", 0>>
  BY DEF AdvectContext, VdiffContext, VdiffOut
<1> HIDE DEF c, v
<1>3. /\ c.q[1] # "input" /\ c.dq[1] # "input" /\ c.qqu[1] # "input" /\ c.qqv[1] # "input"
      /\ v.q[1] # "input" /\ v.dq[1] # "input" /\ v.qqu[1] # "input" /\ v.qqv[1] # "input"
  BY <1>1, <1>2
<1>4. Clean(c) /\ Clean(v)
  BY <1>3, CleanIs
<1>5. QED
  BY <1>4 DEF c, v

LEMMA TraceClean ==
  ASSUME NEW s, s # 0
  PROVE  /\ Clean(TraceContext(s))
         /\ Clean([TraceContext(s) EXCEPT !.q = <<"traced_diffused", s>>])
         /\ Clean([TraceContext(s) EXCEPT !.q = TracedState(s)])
PROOF
<1> DEFINE c == TraceContext(s)
           v == [c EXCEPT !.q = <<"traced_diffused", s>>]
           x == [c EXCEPT !.q = TracedState(s)]
<1>1. /\ c.q[1] # "input" /\ c.dq[1] # "input" /\ c.qqu[1] # "input" /\ c.qqv[1] # "input"
  BY DEF TraceContext
<1>2. /\ v.q[1] # "input" /\ v.dq[1] # "input" /\ v.qqu[1] # "input" /\ v.qqv[1] # "input"
  BY DEF TraceContext
<1>3. /\ x.q[1] # "input" /\ x.dq[1] # "input" /\ x.qqu[1] # "input" /\ x.qqv[1] # "input"
  BY DEF TraceContext, TracedState
<1> HIDE DEF c, v, x
<1>4. Clean(c) /\ Clean(v) /\ Clean(x)
  BY <1>1, <1>2, <1>3, CleanIs
<1>5. QED
  BY <1>4 DEF c, v, x

LEMMA CompiledAdvectionSpares ==
  ASSUME NEW team, Team(team), NEW c, InContext(c), Clean(c), NEW input
  PROVE  Spares(CompiledAdvection(team, c, input), Len(team))
PROOF
<1> DEFINE n == Len(team)
           g == CopyInput(c, input)
           r == SetCrossTermsRegion(team, c)
           o == Once(team, SetJnJs(c))
           p1 == Serial(team, g)
           p2 == <<r, o>>
           p3 == AdvectTracersFused(team, c, TRUE, FALSE)
           q1 == p1 \o p2
           q2 == q1 \o p3
<1>1. CompiledAdvection(team, c, input) = q2
  BY DEF CompiledAdvection, SetCrossTermsRegion, Serial
<1>2. c.q[1] # "input"
  BY DEF Clean, Mine
<1>3. ListSpares(g)
  BY <1>2, CopiesSpared
<1> HIDE DEF g
<1>4. Spares(p1, n)
  BY <1>3, SerialSpares
<1>5. Spares(p2, n)
  BY CrossTermsSpare
<1>6. Spares(p3, n)
  BY AdvectTracersFusedTidies, TidiesSpare
<1>7. IsJoin(q1, p1, p2) /\ IsJoin(q2, q1, p3)
  BY DEF IsJoin
<1> HIDE DEF p1, p2, p3, q1, q2, n
<1>8. Spares(q1, n)
  BY <1>4, <1>5, <1>7, SparesJoined
<1>9. Spares(q2, n)
  BY <1>6, <1>7, <1>8, SparesJoined
<1>10. QED
  BY <1>1, <1>9 DEF n

LEMMA CompiledColumnsSpare ==
  ASSUME NEW team, Team(team), NEW c, InContext(c), Clean(c), NEW v, InContext(v), Clean(v),
         NEW flux
  PROVE  Spares(CompiledColumns(team, c, v, flux, InternalSteps), Len(team))
PROOF
<1> DEFINE n == Len(team)
           r == FinalizeDeferredRegion(team, c)
           o == Once(team, ConvertMass(c))
           p1 == <<r, o>>
           p2 == PrepareVdiffMetPlan(team, c.s)
           p3 == ApplyVdiffBlock(team, v, TRUE, FALSE, flux)
           p4 == ConvectBlock(team, v, InternalSteps)
           q1 == p1 \o p2
           q2 == q1 \o p3
           q3 == q2 \o p4
<1>1. CompiledColumns(team, c, v, flux, InternalSteps) = q3
  BY DEF CompiledColumns, FinalizeDeferredRegion
<1>2. Spares(p1, n)
  BY DeferredSpare
<1>3. Spares(p2, n)
  BY PlanSpares
<1>4. Spares(p3, n) /\ Spares(p4, n)
  BY ColumnsTidies, TidiesSpare
<1>5. IsJoin(q1, p1, p2) /\ IsJoin(q2, q1, p3) /\ IsJoin(q3, q2, p4)
  BY DEF IsJoin
<1> HIDE DEF p1, p2, p3, p4, q1, q2, q3, n
<1>6. Spares(q1, n)
  BY <1>2, <1>3, <1>5, SparesJoined
<1>7. Spares(q2, n)
  BY <1>4, <1>5, <1>6, SparesJoined
<1>8. Spares(q3, n)
  BY <1>4, <1>5, <1>7, SparesJoined
<1>9. QED
  BY <1>1, <1>8 DEF n

LEMMA OneBlockSpares ==
  ASSUME NEW team, Team(team), NEW j, NEW s, NEW b, NEW input, j.compiled \in BOOLEAN,
         ~j.consume
  PROVE  Spares(OneBlock(team, j, s, b, input, InternalSteps), Len(team))
PROOF
<1> DEFINE n == Len(team)
           c == AdvectContext(j, s, b, input)
           v == VdiffContext(j, s, b, input)
           w == [v EXCEPT !.q = <<"ref_convected", <<s, b>>>>]
           f == <<Forcing(s), StartingPressure(s)>> \o SetupTpcoreTerms(s)
           h == <<NextDryMass(s), VdiffInputs(s), SurfaceFlux(s, {b})>>
           before == Serial(team, f)
           after == Serial(team, h)
           p1 == CompiledAdvection(team, c, input)
           p2 == CompiledColumns(team, c, v, j.flux, InternalSteps)
           mixing == <<"ref_mixing", 0>>
           out == <<"ref_diffused_out", 0>>
           r1 == Serial(team, RefAdvectTracers(c, input, mixing))
           r2 == Serial(team, RefVdiff(c, mixing, out))
           r3 == Serial(team, RefConvection(w, out, InternalSteps))
           o == OneBlock(team, j, s, b, input, InternalSteps)
<1>1. o = IF j.compiled THEN ((before \o p1) \o after) \o p2
          ELSE (((before \o r1) \o after) \o r2) \o r3
  BY DEF OneBlock, Serial
<1>2. ListSpares(f) /\ ListSpares(h)
  BY SetupSpares, AfterSpares
<1> HIDE DEF f, h
<1>3. Spares(before, n) /\ Spares(after, n)
  BY <1>2, SerialSpares
<1>4. Clean(c) /\ Clean(v)
  BY OwnContexts
<1>5. InContext(c) /\ InContext(v)
  BY DriverContexts
<1>6. w.q[1] # "input" /\ mixing[1] # "input" /\ out[1] # "input"
  BY DEF VdiffContext, AdvectContext
<1> HIDE DEF c, v, w, before, after, mixing, out
<1>7. CASE j.compiled
  <2>1. Spares(p1, n) /\ Spares(p2, n)
    BY <1>4, <1>5, CompiledAdvectionSpares, CompiledColumnsSpare
  <2> HIDE DEF p1, p2, n, o
  <2> DEFINE q1 == before \o p1
             q2 == q1 \o after
             q3 == q2 \o p2
  <2>2. IsJoin(q1, before, p1) /\ IsJoin(q2, q1, after) /\ IsJoin(q3, q2, p2) /\ o = q3
    BY <1>1, <1>7 DEF IsJoin
  <2> HIDE DEF q1, q2, q3
  <2>3. Spares(q1, n)
    BY <1>3, <2>1, <2>2, SparesJoined
  <2>4. Spares(q2, n)
    BY <1>3, <2>2, <2>3, SparesJoined
  <2>5. Spares(q3, n)
    BY <2>1, <2>2, <2>4, SparesJoined
  <2>6. QED
    BY <2>2, <2>5 DEF n, o
<1>8. CASE ~j.compiled
  <2>1. /\ ListSpares(RefAdvectTracers(c, input, mixing)) /\ ListSpares(RefVdiff(c, mixing, out))
        /\ ListSpares(RefConvection(w, out, InternalSteps))
    BY <1>4, <1>6, ReferenceAdvectionSpares, ReferenceDiffusionSpares, ReferenceConvectionSpares
  <2>2. Spares(r1, n) /\ Spares(r2, n) /\ Spares(r3, n)
    BY <2>1, SerialSpares
  <2> HIDE DEF r1, r2, r3, n, o
  <2> DEFINE q1 == before \o r1
             q2 == q1 \o after
             q3 == q2 \o r2
             q4 == q3 \o r3
  <2>3. /\ IsJoin(q1, before, r1) /\ IsJoin(q2, q1, after) /\ IsJoin(q3, q2, r2)
        /\ IsJoin(q4, q3, r3) /\ o = q4
    BY <1>1, <1>8 DEF IsJoin
  <2> HIDE DEF q1, q2, q3, q4
  <2>4. Spares(q1, n)
    BY <1>3, <2>2, <2>3, SparesJoined
  <2>5. Spares(q2, n)
    BY <1>3, <2>3, <2>4, SparesJoined
  <2>6. Spares(q3, n)
    BY <2>2, <2>3, <2>5, SparesJoined
  <2>7. Spares(q4, n)
    BY <2>2, <2>3, <2>6, SparesJoined
  <2>8. QED
    BY <2>3, <2>7 DEF n, o
<1>9. QED
  BY <1>7, <1>8

LEMMA DriverSpares ==
  ASSUME NEW team, Team(team), NEW j, j.compiled \in BOOLEAN, ~j.consume,
         j.blocks \in Nat, NEW s
  PROVE  Spares(RunTransportOneStep(team, j, s, InternalSteps), Len(team))
PROOF
<1> DEFINE n == Len(team)
           input(b) == State(j, b)[s - 1]
           own(b) == OneBlock(team, j, s, b, input(b), InternalSteps)
           copy(b) == Once(team, CopyOut(j, s, b, BlockResult(j, s, b, input(b))))
           rest(b) == IF Preserved(j) THEN <<>> ELSE <<copy(b)>>
           ss == [b \in 1 .. j.blocks |-> own(b) \o rest(b)]
<1>1. RunTransportOneStep(team, j, s, InternalSteps) = FlattenSeq(ss)
  BY DEF RunTransportOneStep
<1>2. IsSeq(ss) /\ DOMAIN ss = 1 .. j.blocks
  BY SeqIs
<1>3. ASSUME NEW b \in 1 .. j.blocks PROVE Spares(ss[b], n)
  <2> DEFINE i == input(b)
             k == BlockResult(j, s, b, i)
             e == CopyOut(j, s, b, k)
             o == Once(team, e)
             p == own(b)
             q == rest(b)
             r == p \o q
  <2>1. p = OneBlock(team, j, s, b, i, InternalSteps)
    OBVIOUS
  <2>2. ss[b] = r /\ q = IF Preserved(j) THEN <<>> ELSE <<o>>
    OBVIOUS
  <2> HIDE DEF i, p
  <2>3. Spares(OneBlock(team, j, s, b, i, InternalSteps), n)
    BY OneBlockSpares
  <2> HIDE DEF k
  <2>4. Spared(e)
    <3> DEFINE c == [q |-> <<"state", 0>>]
    <3>1. c.q[1] # "input"
      OBVIOUS
    <3> HIDE DEF c
    <3>2. QED
      BY <3>1, CopiesSpared
  <2> HIDE DEF e
  <2>5. RegionSpares(o, n)
    BY <2>4, OnceSpares
  <2>6. IsJoin(r, p, q)
    BY DEF IsJoin
  <2> HIDE DEF o, q, r, n, ss
  <2>7. Spares(<<>>, n) /\ Spares(<<o>>, n)
    BY <2>5, RegionsSpare
  <2>8. Spares(q, n)
    BY <2>2, <2>7
  <2>9. QED
    BY <2>1, <2>2, <2>3, <2>6, <2>8, SparesJoined
<1> HIDE DEF ss, n
<1>4. Spares(FlattenSeq(ss), n)
  BY <1>2, <1>3, SparesFlattened
<1>5. QED
  BY <1>1, <1>4 DEF n

LEMMA TraceSpares ==
  ASSUME NEW team, Team(team), NEW j, NEW s, s # 0
  PROVE  Spares(TraceTransportOneStep(team, j, s, InternalSteps), Len(team))
PROOF
<1> DEFINE n == Len(team)
           c == TraceContext(s)
           v == [c EXCEPT !.q = <<"traced_diffused", s>>]
           x == [c EXCEPT !.q = TracedState(s)]
           f == <<Forcing(s), StartingPressure(s)>> \o SetupTpcoreTerms(s)
           g == CopyInput(c, TracedState(s - 1))
           fg == f \o g
           h == <<NextDryMass(s), VdiffInputs(s), SurfaceFlux(s, {1})>>
           d == CopyDiffused(x, v.q)
           k == <<d>>
           p1 == Serial(team, fg)
           p2 == <<SetCrossTermsRegion(team, c), Once(team, SetJnJs(c))>>
           p3 == AdvectTracersFused(team, c, TRUE, TRUE)
           p4 == Serial(team, h)
           p5 == PrepareVdiffMetPlan(team, s)
           p6 == ApplyVdiffBlock(team, v, TRUE, FALSE, j.flux)
           p7 == Serial(team, k)
           p8 == ConvectBlock(team, x, InternalSteps)
<1>1. TraceTransportOneStep(team, j, s, InternalSteps)
        = ((((((p1 \o p2) \o p3) \o p4) \o p5) \o p6) \o p7) \o p8
  BY DEF TraceTransportOneStep, SetCrossTermsRegion, Serial
<1>2. InContext(c) /\ InContext(v) /\ InContext(x)
  BY TraceContexts
<1>3. Clean(c) /\ Clean(v) /\ Clean(x)
  BY TraceClean
<1> HIDE DEF c, v, x
<1>4. c.q[1] # "input" /\ x.q[1] # "input"
  BY <1>3 DEF Clean, Mine
<1>5. ListSpares(f) /\ ListSpares(h)
  BY SetupSpares, AfterSpares
<1>6. ListSpares(g) /\ Spared(d)
  BY <1>4, CopiesSpared
<1>7. IsJoin(fg, f, g)
  BY DEF IsJoin
<1> HIDE DEF f, g, h, d, fg
<1>8. ListSpares(fg) /\ ListSpares(k)
  BY <1>5, <1>6, <1>7, ListsJoined, ListsSpare
<1> HIDE DEF k
<1>9. Spares(p1, n) /\ Spares(p4, n) /\ Spares(p7, n)
  BY <1>5, <1>8, SerialSpares
<1>10. Spares(p2, n)
  BY CrossTermsSpare
<1>11. Spares(p3, n)
  BY <1>2, <1>3, AdvectTracersFusedTidies, TidiesSpare
<1>12. Spares(p5, n)
  BY PlanSpares
<1>13. Spares(p6, n) /\ Spares(p8, n)
  BY <1>2, <1>3, ColumnsTidies, TidiesSpare
<1> HIDE DEF p1, p2, p3, p4, p5, p6, p7, p8, n
<1> DEFINE q1 == p1 \o p2
           q2 == q1 \o p3
           q3 == q2 \o p4
           q4 == q3 \o p5
           q5 == q4 \o p6
           q6 == q5 \o p7
           q7 == q6 \o p8
<1>14. /\ IsJoin(q1, p1, p2) /\ IsJoin(q2, q1, p3) /\ IsJoin(q3, q2, p4) /\ IsJoin(q4, q3, p5)
       /\ IsJoin(q5, q4, p6) /\ IsJoin(q6, q5, p7) /\ IsJoin(q7, q6, p8)
  BY DEF IsJoin
<1>15. TraceTransportOneStep(team, j, s, InternalSteps) = q7
  BY <1>1
<1> HIDE DEF q1, q2, q3, q4, q5, q6, q7
<1>16. Spares(q1, n)
  BY <1>9, <1>10, <1>14, SparesJoined
<1>17. Spares(q2, n)
  BY <1>11, <1>14, <1>16, SparesJoined
<1>18. Spares(q3, n)
  BY <1>9, <1>14, <1>17, SparesJoined
<1>19. Spares(q4, n)
  BY <1>12, <1>14, <1>18, SparesJoined
<1>20. Spares(q5, n)
  BY <1>13, <1>14, <1>19, SparesJoined
<1>21. Spares(q6, n)
  BY <1>9, <1>14, <1>20, SparesJoined
<1>22. Spares(q7, n)
  BY <1>13, <1>14, <1>21, SparesJoined
<1>23. QED
  BY <1>15, <1>22 DEF n

-----------------------------------------------------------------------------
(* What a job does in a step.                                              *)

LEMMA TeamOfIs ==
  ASSUME NEW j \in JobRecord
  PROVE  Team(TeamOf(j)) /\ Len(TeamOf(j)) = j.workers /\ j.workers \in Nat \ {0}
PROOF
<1> DEFINE n == j.workers
           team == TeamOf(j)
<1>1. n \in Nat \ {0}
  BY DEF JobRecord
<1>2. team = [t \in 1 .. n |-> t]
  BY DEF TeamOf
<1> HIDE DEF n, team
<1>3. IsSeq(team) /\ DOMAIN team = 1 .. n /\ Len(team) = n
  BY <1>1, <1>2, SeqIs
<1>4. \A t, u \in DOMAIN team : team[t] = team[u] => t = u
  BY <1>2
<1>5. QED
  BY <1>1, <1>3, <1>4 DEF Team, n, team

LEMMA StepRuns ==
  ASSUME NEW j \in JobRecord, NEW s \in Nat \ {0}
  PROVE  Runs(StepProgram(j, s), j.workers)
PROOF
<1> DEFINE n == j.workers
           team == TeamOf(j)
           blocks == 1 .. j.blocks
           p == StepProgram(j, s)
<1>1. Team(team) /\ Len(team) = n
  BY TeamOfIs
<1>2. j.compiled \in BOOLEAN /\ j.consume \in BOOLEAN /\ j.blocks \in Nat \ {0}
  BY DEF JobRecord
<1> HIDE DEF team
<1>3. CASE j.execution = "one_step"
  <2> DEFINE a == RunTransportOneStep(team, j, s, InternalSteps)
             op == Accumulate(j, s)
             o == Once(team, op)
             os == <<o>>
             e == IF j.consume THEN <<>> ELSE os
  <2>1. IsJoin(p, a, e)
    BY <1>3 DEF StepProgram, IsJoin, team
  <2>2. Runs(a, n)
    BY <1>1, <1>2, DriverRuns
  <2>3. Separate(o, n)
    <3> HIDE DEF op
    <3>1. QED
      BY <1>1, OnceSeparate
  <2> HIDE DEF a, o, n, p
  <2>4. Sound(<<>>, n) /\ Sound(os, n)
    BY <2>3, SoundJoined
  <2>5. Sound(e, n)
    BY <2>4
  <2> HIDE DEF e
  <2>6. Runs(p, n)
    BY <2>1, <2>2, <2>5, RunsOn
  <2>7. QED
    BY <2>6 DEF p, n
<1>4. CASE j.execution = "trace"
  <2>1. Runs(TraceTransportOneStep(team, j, s, InternalSteps), n)
    BY <1>1, TraceRuns
  <2>2. p = TraceTransportOneStep(team, j, s, InternalSteps)
    BY <1>4 DEF StepProgram, team
  <2>3. QED
    BY <2>1, <2>2
<1>5. CASE j.execution = "cuda"
  <2>1. Runs(OnDevice(team, ApplyResident(s, j.blocks, j.single, j.flux)), n)
    BY <1>1, ResidentRuns
  <2>2. p = OnDevice(team, ApplyResident(s, j.blocks, j.single, j.flux))
    BY <1>5 DEF StepProgram, team
  <2>3. QED
    BY <2>1, <2>2
<1>6. CASE j.execution \notin {"one_step", "trace", "cuda"}
  <2> DEFINE a == PrepareTransportStep(team, s, blocks)
             e == IF j.execution = "cuda_upload"
                  THEN OnDevice(team, ApplyUploaded(s, j.blocks, j.single, j.flux))
                  ELSE ApplyTransport(team, j, s)
  <2>1. IsJoin(p, a, e)
    BY <1>6 DEF StepProgram, IsJoin, team
  <2>2. Runs(a, n)
    BY <1>1, PrepareRuns
  <2>3. /\ Sound(OnDevice(team, ApplyUploaded(s, j.blocks, j.single, j.flux)), n)
        /\ Sound(ApplyTransport(team, j, s), n)
    BY <1>1, <1>2, UploadedSound, ApplyTransportSound
  <2>4. Sound(e, n)
    BY <2>3
  <2> HIDE DEF a, e, n, p
  <2>5. Runs(p, n)
    BY <2>1, <2>2, <2>4, RunsOn
  <2>6. QED
    BY <2>5 DEF p, n
<1>7. QED
  BY <1>3, <1>4, <1>5, <1>6

LEMMA JobStepsFinite ==
  IsFiniteSet(Jobs \X (1 .. NSteps))
PROOF
<1>1. IsFiniteSet(1 .. NSteps)
  BY StepsAssumption, FS_Interval
<1>2. QED
  BY <1>1, JobsAssumption, FS_Product

\* The fold lays out the program of each job's steps.
LEMMA ProgramsAre ==
  Programs = {<<x[1], x[2], StepProgram(x[1], x[2])>> : x \in Jobs \X (1 .. NSteps)}
PROOF
<1> DEFINE S == Jobs \X (1 .. NSteps)
           E(x) == <<x[1], x[2], StepProgram(x[1], x[2])>>
           pick == [T \in SUBSET S |-> CHOOSE x \in T : TRUE]
           Def(f) == f = [T \in SUBSET S |->
                            IF T = {} THEN {}
                            ELSE LET x == CHOOSE y \in T : TRUE
                                 IN  f[T \ {x}] \cup {<<x[1], x[2], StepProgram(x[1], x[2])>>}]
           g == CHOOSE f : Def(f)
           h == [T \in SUBSET S |-> {E(x) : x \in T}]
<1>1. Programs = g[S]
  BY DEF Programs, FoldSet, MapThenFoldSet
<1>2. \A T \in SUBSET S : T # {} => (CHOOSE y \in T : TRUE) \in T
  OBVIOUS
<1> HIDE DEF S
<1>3. ASSUME NEW T \in SUBSET S, NEW x \in T
      PROVE  h[T] = h[T \ {x}] \cup {E(x)}
  <2>1. T \ {x} \in SUBSET S
    OBVIOUS
  <2>2. h[T] = {E(y) : y \in T} /\ h[T \ {x}] = {E(y) : y \in T \ {x}}
    BY <2>1
  <2> HIDE DEF E, h
  <2>3. QED
    BY <2>2
<1>4. \A T \in SUBSET S : h[T] = IF T = {} THEN {}
                                 ELSE LET x == CHOOSE y \in T : TRUE
                                      IN  h[T \ {x}] \cup {E(x)}
  <2>1. h[{}] = {}
    OBVIOUS
  <2> HIDE DEF E, h
  <2>2. QED
    BY <1>2, <1>3, <2>1
<1>5. Def(h)
  <2> DEFINE b == [T \in SUBSET S |-> IF T = {} THEN {}
                                     ELSE LET x == CHOOSE y \in T : TRUE
                                          IN  h[T \ {x}] \cup {E(x)}]
  <2>1. h = [T \in SUBSET S |-> h[T]]
    OBVIOUS
  <2> HIDE DEF h, E
  <2>2. h = b
    BY <1>4, <2>1
  <2>3. QED
    BY <2>2 DEF E
<1>6. Def(g)
  <2> HIDE DEF h, Def
  <2>1. QED
    BY <1>5
<1>7. \A T \in SUBSET S : g[T] = IF T = {} THEN {}
                                 ELSE LET x == CHOOSE y \in T : TRUE
                                      IN  g[T \ {x}] \cup {E(x)}
  <2> HIDE DEF g
  <2>1. QED
    BY <1>6
<1>8. Agree(g, h, S, pick)
  <2> HIDE DEF g, h, E
  <2>1. g[{}] = {} /\ h[{}] = {}
    BY <1>4, <1>7
  <2>2. ASSUME NEW T \in SUBSET S, T # {}, g[T \ {pick[T]}] = h[T \ {pick[T]}]
        PROVE  g[T] = h[T]
    <3>1. pick[T] = CHOOSE y \in T : TRUE
      OBVIOUS
    <3> HIDE DEF pick
    <3>2. /\ g[T] = g[T \ {pick[T]}] \cup {E(pick[T])}
          /\ h[T] = h[T \ {pick[T]}] \cup {E(pick[T])}
      BY <1>4, <1>7, <2>2, <3>1
    <3>3. QED
      BY <2>2, <3>2
  <2>3. QED
    BY <2>1, <2>2 DEF Agree
<1>9. \A T \in SUBSET S : g[T] = h[T]
  <2>1. \A T \in SUBSET S : T # {} => pick[T] \in T
    BY <1>2
  <2>2. IsFiniteSet(S)
    BY JobStepsFinite DEF S
  <2> HIDE DEF g, h, pick
  <2>3. QED
    BY <1>8, <2>1, <2>2, PeelingUnique
<1>10. g[S] = h[S] /\ h[S] = {E(x) : x \in S}
  <2> HIDE DEF g
  <2>1. QED
    BY <1>9
<1>11. QED
  BY <1>1, <1>10 DEF S

\* The program found for a job and a step is theirs.
LEMMA ProgramIs ==
  ASSUME NEW j \in Jobs, NEW s \in 1 .. NSteps
  PROVE  (CHOOSE y \in Programs : y[1] = j /\ y[2] = s)[3] = StepProgram(j, s)
PROOF
<1> DEFINE x == CHOOSE y \in Programs : y[1] = j /\ y[2] = s
           E(y) == <<y[1], y[2], StepProgram(y[1], y[2])>>
           S == Jobs \X (1 .. NSteps)
<1>1. Programs = {E(y) : y \in S}
  BY ProgramsAre
<1>2. <<j, s>> \in S /\ <<j, s>>[1] = j /\ <<j, s>>[2] = s
  OBVIOUS
<1>3. \E y \in Programs : y[1] = j /\ y[2] = s
  <2>1. E(<<j, s>>) \in Programs
    BY <1>1, <1>2
  <2>2. E(<<j, s>>)[1] = j /\ E(<<j, s>>)[2] = s
    OBVIOUS
  <2>3. QED
    BY <2>1, <2>2
<1>4. x \in Programs /\ x[1] = j /\ x[2] = s
  BY <1>3
<1> HIDE DEF x, S
<1>5. PICK y \in S : x = E(y)
  BY <1>1, <1>4
<1>6. x[3] = StepProgram(x[1], x[2])
  BY <1>5
<1>7. QED
  BY <1>4, <1>6 DEF x

-----------------------------------------------------------------------------
(* The team, wherever it is in its program.                                *)

\* The team is in a region of the program of a step of its job, or has
\* returned from it.
Positioned ==
  /\ job \in Jobs
  /\ step \in 1 .. NSteps
  /\ region \in 0 .. Len(Program)
  /\ DOMAIN done = 1 .. job.workers

LEMMA StepRegions ==
  ASSUME NEW j \in Jobs, NEW s \in 1 .. NSteps
  PROVE  LET p == (CHOOSE y \in Programs : y[1] = j /\ y[2] = s)[3]
         IN  /\ Len(p) \in Nat \ {0} /\ j.workers \in Nat \ {0}
             /\ \A x \in 1 .. Len(p) : Separate(p[x], j.workers)
PROOF
<1> DEFINE p == (CHOOSE y \in Programs : y[1] = j /\ y[2] = s)[3]
           n == j.workers
<1>1. j \in JobRecord /\ s \in Nat \ {0}
  BY JobsAssumption, StepsAssumption
<1>2. Runs(p, n)
  BY <1>1, ProgramIs, StepRuns
<1>3. n \in Nat \ {0}
  BY <1>1, TeamOfIs
<1> HIDE DEF p, n
<1>4. IsSeq(p) /\ Len(p) \in Nat \ {0} /\ \A x \in DOMAIN p : Separate(p[x], n)
  BY <1>2 DEF Runs, Sound
<1>5. DOMAIN p = 1 .. Len(p)
  BY <1>4, LenProperties DEF IsSeq
<1>6. QED
  BY <1>3, <1>4, <1>5 DEF p, n

LEMMA PositionedInit ==
  Init => Positioned
PROOF
<1> SUFFICES ASSUME Init PROVE Positioned
  OBVIOUS
<1>1. job \in Jobs /\ step \in 1 .. NSteps /\ region = 1 /\ DOMAIN done = 1 .. job.workers
  BY StepsAssumption DEF Init
<1>2. Len(Program) \in Nat \ {0}
  BY <1>1, StepRegions DEF Program
<1>3. QED
  BY <1>1, <1>2 DEF Positioned

LEMMA PositionedNext ==
  Positioned /\ [Next]_vars => Positioned'
PROOF
<1> SUFFICES ASSUME Positioned, [Next]_vars PROVE Positioned'
  OBVIOUS
<1> USE DEF Positioned
<1>1. Len(Program) \in Nat \ {0}
  BY StepRegions DEF Program
<1>2. ASSUME NEW w \in DOMAIN done, Perform(w) PROVE Positioned'
  <2>1. job' = job /\ step' = step /\ region' = region /\ DOMAIN done' = DOMAIN done
    BY <1>2 DEF Perform
  <2>2. Program' = Program
    BY <2>1 DEF Program
  <2>3. QED
    BY <2>1, <2>2
<1>3. CASE Join
  <2>1. /\ job' = job /\ step' = step /\ DOMAIN done' = DOMAIN done
        /\ region' = (region + 1) % (Len(Program) + 1)
    BY <1>3 DEF Join, NextRegion
  <2>2. Program' = Program
    BY <2>1 DEF Program
  <2>3. region' \in 0 .. Len(Program)
    <3> DEFINE n == Len(Program)
    <3>1. region \in Nat /\ n \in Nat /\ region' = (region + 1) % (n + 1)
      BY <1>1, <2>1
    <3> HIDE DEF n
    <3>2. region' \in 0 .. n
      BY <3>1
    <3>3. QED
      BY <3>2 DEF n
  <2>4. QED
    BY <2>1, <2>2, <2>3
<1>4. CASE NextStep
  <2>1. job' = job /\ step' = step + 1 /\ step < NSteps /\ region' = 1 /\ done' = done
    BY <1>4 DEF NextStep
  <2>2. step' \in 1 .. NSteps
    BY <2>1, StepsAssumption
  <2>3. Len(Program') \in Nat \ {0}
    BY <2>1, <2>2, StepRegions DEF Program
  <2>4. QED
    BY <2>1, <2>2, <2>3
<1>5. CASE UNCHANGED vars
  <2>1. job' = job /\ step' = step /\ region' = region /\ done' = done
    BY <1>5 DEF vars
  <2>2. Program' = Program
    BY <2>1 DEF Program
  <2>3. QED
    BY <2>1, <2>2
<1>6. QED
  BY <1>2, <1>3, <1>4, <1>5 DEF Next, Ended

LEMMA PositionedRaceFree ==
  Positioned => RaceFree
PROOF
<1> SUFFICES ASSUME Positioned,
                    NEW v \in DOMAIN done, NEW w \in DOMAIN done, v # w,
                    NEW mine \in InHand(v), NEW other \in InHand(w)
             PROVE  CellsOf(mine.sets) \cap (CellsOf(other.sets) \cup CellsOf(other.needs)) = {}
  BY DEF RaceFree
<1> DEFINE r == Program[region]
<1>1. region \in 1 .. Len(Program)
  BY StepRegions DEF Positioned, InHand, Finished, Program
<1>2. Separate(r, job.workers)
  BY <1>1, StepRegions DEF Positioned, Program
<1>3. /\ \E a \in DOMAIN r[v] : mine = r[v][a]
      /\ \E b \in DOMAIN r[w] : other = r[w][b]
  BY <1>1 DEF InHand, Nth, Finished
<1> HIDE DEF r
<1>4. ~Clash(mine, other)
  BY <1>2, <1>3 DEF Separate, Positioned
<1>5. QED
  BY <1>4 DEF Clash

\* No two workers of a parallel loop ever have operations in hand of which one
\* writes a cell that the other reads or writes, for every grid, team, number
\* of blocks and steps and every set of jobs: the scratch of worker and block
\* and the rows, columns and levels that loops are cut into keep them apart.
THEOREM TransportRaceFree == Spec => []RaceFree
PROOF
<1>1. Spec => []Positioned
  BY PositionedInit, PositionedNext, PTL DEF Spec
<1>2. QED
  BY <1>1, PositionedRaceFree, PTL

-----------------------------------------------------------------------------
(* A caller that keeps its array.                                          *)

KeepsInput(j) == j.execution = "trace" \/ (j.execution = "one_step" /\ ~j.consume)

LEMMA StepSpares ==
  ASSUME NEW j \in JobRecord, KeepsInput(j), NEW s \in Nat \ {0}
  PROVE  Spares(StepProgram(j, s), j.workers)
PROOF
<1> DEFINE n == j.workers
           team == TeamOf(j)
           p == StepProgram(j, s)
<1>1. Team(team) /\ Len(team) = n
  BY TeamOfIs
<1>2. j.compiled \in BOOLEAN /\ j.blocks \in Nat
  BY DEF JobRecord
<1> HIDE DEF team
<1>3. CASE j.execution = "one_step"
  <2> DEFINE a == RunTransportOneStep(team, j, s, InternalSteps)
             op == Accumulate(j, s)
             o == Once(team, op)
             os == <<o>>
  <2>1. ~j.consume
    BY <1>3 DEF KeepsInput
  <2>2. IsJoin(p, a, os)
    BY <1>3, <2>1 DEF StepProgram, IsJoin, team
  <2>3. Spares(a, n)
    BY <1>1, <1>2, <2>1, DriverSpares
  <2>4. Spared(op)
    BY ElsewhereAre DEF Spared, Accumulate, Accumulated, Op
  <2> HIDE DEF a, op
  <2>5. RegionSpares(o, n)
    BY <1>1, <2>4, OnceSpares
  <2> HIDE DEF o, n, p
  <2>6. Spares(os, n)
    BY <2>5, RegionsSpare
  <2> HIDE DEF os
  <2>7. Spares(p, n)
    BY <2>2, <2>3, <2>6, SparesJoined
  <2>8. QED
    BY <2>7 DEF p, n
<1>4. CASE j.execution = "trace"
  <2>1. Spares(TraceTransportOneStep(team, j, s, InternalSteps), n)
    BY <1>1, TraceSpares
  <2>2. p = TraceTransportOneStep(team, j, s, InternalSteps)
    BY <1>4 DEF StepProgram, team
  <2>3. QED
    BY <2>1, <2>2
<1>5. QED
  BY <1>3, <1>4 DEF KeepsInput

\* What was handed in is in the arrays named so.
LEMMA TracersHandedIn ==
  ASSUME NEW j \in JobRecord, KeepsInput(j)
  PROVE  \A p \in Tracers(j, 0) : p[1][1][1] = "input"
PROOF
<1> SUFFICES ASSUME NEW p \in Tracers(j, 0) PROVE p[1][1][1] = "input"
  OBVIOUS
<1>1. PICK b \in 1 .. j.blocks :
        p \in Hold(TracersAt(j, 0, b), Levels, Rows, Cols, "convected", [s |-> 0, b |-> b])
  BY DEF Tracers
<1> DEFINE buf == TracersAt(j, 0, b)
<1>2. buf[1] = "input"
  <2>1. CASE j.execution = "one_step"
    <3>1. j.compiled \in BOOLEAN /\ j.consume \in BOOLEAN /\ 0 \in Nat
      BY DEF JobRecord
    <3>2. State(j, b)[0] = Return(j, 0, b)
      BY <3>1, StateIs
    <3>3. buf = <<"input", b>>
      BY <2>1, <3>2 DEF TracersAt, Return
    <3> HIDE DEF buf
    <3>4. QED
      BY <3>3
  <2>2. CASE j.execution = "trace"
    BY <2>2 DEF TracersAt, TracedState
  <2>3. QED
    BY <2>1, <2>2 DEF KeepsInput
<1> HIDE DEF buf
<1>3. p[1][1] = buf
  BY <1>1, HoldLies DEF Lies, buf
<1>4. QED
  BY <1>2, <1>3

LEMMA InputPreservedNext ==
  Positioned /\ InputPreserved /\ [Next]_vars => InputPreserved'
PROOF
<1> SUFFICES ASSUME Positioned, InputPreserved, [Next]_vars, KeepsInput(job)'
             PROVE  (Tracers(job, 0) \subseteq store)'
  BY DEF InputPreserved, KeepsInput
<1>1. job' = job
  BY DEF Next, Perform, Join, NextStep, Ended, vars
<1>2. KeepsInput(job) /\ Tracers(job, 0) \subseteq store /\ Tracers(job, 0)' = Tracers(job, 0)
  BY <1>1 DEF InputPreserved, KeepsInput
<1>3. job \in JobRecord /\ job \in Jobs /\ step \in 1 .. NSteps /\ step \in Nat \ {0}
  BY JobsAssumption, StepsAssumption DEF Positioned
<1>4. ASSUME NEW w \in DOMAIN done, Perform(w) PROVE Tracers(job, 0) \subseteq store'
  <2>1. PICK op \in InHand(w) : store' = After(op)
    BY <1>4 DEF Perform
  <2>2. Spared(op)
    <3> DEFINE p == Program
               n == job.workers
    <3>1. Spares(p, n)
      BY <1>2, <1>3, ProgramIs, StepSpares DEF Program
    <3>2. DOMAIN p = 1 .. Len(p) /\ Len(p) \in Nat
      BY <3>1, IsSeqIs DEF Spares
    <3>3. w \in 1 .. n /\ region \in 1 .. Len(p)
      BY <2>1, <3>2 DEF Positioned, InHand, Finished
    <3>4. \E a \in DOMAIN p[region][w] : op = p[region][w][a]
      BY <2>1 DEF InHand, Nth
    <3> HIDE DEF p, n
    <3>5. QED
      BY <3>1, <3>2, <3>3, <3>4 DEF Spares, RegionSpares
  <2>3. ASSUME NEW p \in Tracers(job, 0) PROVE p \in After(op)
    <3>1. p[1][1][1] = "input"
      BY <1>2, <1>3, TracersHandedIn
    <3>2. p[1] \notin CellsOf(op.sets)
      BY <2>2, <3>1 DEF Spared, Elsewhere, CellsOf
    <3>3. p \in store
      BY <1>2
    <3>4. QED
      BY <3>2, <3>3 DEF After
  <2>4. QED
    BY <2>1, <2>3
<1>5. CASE ~ \E w \in DOMAIN done : Perform(w)
  <2>1. store' = store
    BY <1>5 DEF Next, Join, NextStep, Ended, vars
  <2>2. QED
    BY <1>2, <2>1
<1>6. QED
  BY <1>2, <1>4, <1>5

\* A caller that does not give its array away finds it as it was, however many
\* blocks, steps and workers there are and with compiled or NumPy operators:
\* no operation of the one-step driver, or of a trace, writes the arrays that
\* were handed in.
THEOREM TransportInputPreserved == Spec => []InputPreserved
PROOF
<1>1. Init => Positioned /\ InputPreserved
  <2>1. Init => InputPreserved
    BY DEF Init, InputPreserved
  <2>2. QED
    BY <2>1, PositionedInit
<1>2. Positioned /\ InputPreserved /\ [Next]_vars => (Positioned /\ InputPreserved)'
  BY PositionedNext, InputPreservedNext
<1>3. QED
  BY <1>1, <1>2, PTL DEF Spec

=================================================================================
