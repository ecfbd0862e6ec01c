---------------------------- MODULE TransportCells ----------------------------
(***************************************************************************)
(* The vocabulary of the transport models: a small grid, the cells of the  *)
(* arrays a transport step works on, and the operations that read and      *)
(* write them.                                                             *)
(*                                                                         *)
(* The numbers are abstracted to where they come from.  A cell holds a     *)
(* pair of the term that was computed into it and the step (and, for       *)
(* tracers, the block and level) it was computed for; a cell nothing was   *)
(* written to (np.empty) is missing from the store.  An operation lists    *)
(* the cells it reads with what each must hold for its result to be the    *)
(* term it is named for, and the cells it writes.  When one operand is not *)
(* what it must be (stale, of another block, never written), all it writes *)
(* is Garbage, and Garbage spreads.                                        *)
(***************************************************************************)
EXTENDS Integers, Sequences, FiniteSets, SequencesExt

CONSTANTS
  NLev,   \* number of model levels, level 0 is the top
  NLat,   \* number of latitude rows; rows 0, 1, NLat-2 and NLat-1 are the caps
  NLon    \* number of longitudes

ASSUME GridAssumption == NLev \in Nat /\ NLev >= 3
                         /\ NLat \in Nat /\ NLat >= 9
                         /\ NLon \in Nat /\ NLon >= 2

Levels == 0 .. NLev - 1
Edges  == 0 .. NLev
Rows   == 0 .. NLat - 1
Cols   == 0 .. NLon - 1
Bottom == NLev - 1

\* The first and last row outside the polar caps: _polar_cap_bounds.
J1P == 2
J2P == NLat - 3

Interior == J1P .. J2P
Polar    == Rows \ Interior
PoleRows == {0, NLat - 1}
CapRows  == {1, NLat - 2}

(***************************************************************************)
(* Cells and what they hold.  A buffer is a pair of a name and an owner:   *)
(* the block, the worker, or 0 for an array there is one of.               *)
(***************************************************************************)
Garbage == <<"garbage">>

At(buf, K, J, I) == {<<buf, k, j, i>> : k \in K, j \in J, i \in I}

\* The cells hold tracer term "name" of the step and block of context c.
Hold(buf, K, J, I, name, c) ==
  {<<<<buf, k, j, i>>, <<name, c.s, c.b, k>>>> : k \in K, j \in J, i \in I}

\* The shared array "name" holds its own term of step s.
Term(name, s, K, J, I) == At(<<name, 0>>, K, J, I) \X {<<name, s>>}

\* An array allocated anew by every step that computes it.
Fresh(name, s, K, J, I) == At(<<name, s>>, K, J, I) \X {<<name, s>>}

\* It holds the term "as" (of step s) instead.
TermAs(name, as, s, K, J, I) == At(<<name, 0>>, K, J, I) \X {<<as, s>>}

\* One cell of scratch, or one value, that stands for a whole row or column.
Piece(name, owner, value) == {<<<<<<name, owner>>, 0, 0, 0>>, value>>}

CellsOf(pairs) == {p[1] : p \in pairs}

(***************************************************************************)
(* Operations.  Fused(a, b) is a followed by b on one worker.              *)
(***************************************************************************)
Op(needs, sets) == [needs |-> needs, sets |-> sets]

Nothing == Op({}, {})

Fused(a, b) ==
  LET made  == CellsOf(a.sets)
      wrong == \E n \in b.needs : n[1] \in made /\ n \notin a.sets
      writes == IF wrong THEN CellsOf(b.sets) \X {Garbage} ELSE b.sets
  IN  Op(a.needs \cup {n \in b.needs : n[1] \notin made},
         {p \in a.sets : p[1] \notin CellsOf(b.sets)} \cup writes)

FusedAll(ops) == FoldLeft(Fused, Nothing, ops)

(***************************************************************************)
(* Regions.  A region is the operations of each member of a team of        *)
(* workers; all members finish before the next region begins.  A parallel  *)
(* loop hands each member a contiguous share of its iterations, the static *)
(* schedule of numba's prange; what an iteration does may depend on the    *)
(* member that runs it, because scratch is indexed by get_thread_id().     *)
(***************************************************************************)
ShareOf(m, n, size) == ((m - 1) * size) \div n + 1

Ascending(S) ==
  [m \in 1..Cardinality(S) |-> CHOOSE x \in S : Cardinality({y \in S : y <= x}) = m]

Shares(iters, size) ==
  LET n == Cardinality(iters)
  IN  [t \in 1..size |->
         Ascending({Ascending(iters)[m] : m \in {k \in 1..n : ShareOf(k, n, size) = t}})]

Loop(team, iters, Body(_, _)) ==
  LET shares == Shares(iters, Len(team))
  IN  [t \in 1..Len(team) |->
         [x \in 1..Len(shares[t]) |-> Body(team[t], shares[t][x])]]

\* Code between loops runs on the first member alone.
Once(team, op) == [t \in 1..Len(team) |-> IF t = 1 THEN <<op>> ELSE <<>>]

\* What regions come to when their team is a single worker.
Alone(regions) == [n \in DOMAIN regions |-> FusedAll(regions[n][1])]
===============================================================================
