----------------------------- MODULE ColumnKernels -----------------------------
(***************************************************************************)
(* Vertical diffusion (transport/pbl) and cloud convection                 *)
(* (transport/convection): the kernels that work down the columns.         *)
(*                                                                         *)
(* VDIFF is split in two.  The plan, computed once a step from the         *)
(* meteorology, holds the coefficients of the tridiagonal sweep; applying  *)
(* it to a block reads c.dq and writes c.q.  Convection works in place.    *)
(***************************************************************************)
EXTENDS TpcoreKernels

(***************************************************************************)
(* The plan.                                                               *)
(***************************************************************************)
VdiffMeteorology(s, j) ==
  (UNION {Term(field, s, Levels, {j}, Cols) :
           field \in {"u", "v", "t", "sphu", "pmid", "tv", "bxheight"}})
    \cup Term("pint", s, Edges, {j}, Cols) \cup Term("surface_met", s, {0}, {j}, Cols)

\* The sweep's coefficients on row j.  Level 0 has no cch and the lowest
\* level neither zeh nor termh: the recurrence never defines them.
Coefficients(s, j) ==
  Term("cch", s, Levels \ {0}, {j}, Cols)
    \cup Term("zeh", s, Levels \ {Bottom}, {j}, Cols)
    \cup Term("termh", s, Levels \ {Bottom}, {j}, Cols)
UndefinedCoefficients(j) ==
  (At(<<"cch", 0>>, {0}, {j}, Cols) \cup At(<<"zeh", 0>>, {Bottom}, {j}, Cols)
     \cup At(<<"termh", 0>>, {Bottom}, {j}, Cols)) \X {Garbage}

CounterGradient(s, j) ==
  (UNION {Term(field, s, Edges, {j}, Cols) : field \in {"cgs", "kvh", "potbar"}})
    \cup Term("rpdel", s, Levels, {j}, Cols)
    \cup Term("rrho", s, {0}, {j}, Cols) \cup Term("tmp1", s, {0}, {j}, Cols)

\* _run_vdiffdr_fullgrid_zero_flux_numba_kernel with capture_plan and
\* plan_only: row j in the scratch of worker w, from the columns' geometry to
\* the diffusivities and the recurrence; then the scratch is copied out whole,
\* the coefficients no one defined included, and the humidity solved from it.
RowScratch(name, s, w, j) == Piece(name, w, <<name, s, j>>)
VdiffColumns(s, w, j) ==
  Op(VdiffMeteorology(s, j), RowScratch("thp_zm_rpdel", s, w, j))
VdiffFreeDiffusivity(s, w, j) ==
  Op(RowScratch("thp_zm_rpdel", s, w, j) \cup VdiffMeteorology(s, j),
     RowScratch("kvf", s, w, j))
VdiffPblDiffusivity(s, w, j) ==
  Op(RowScratch("kvf", s, w, j) \cup RowScratch("thp_zm_rpdel", s, w, j)
       \cup VdiffMeteorology(s, j),
     RowScratch("kvh_cgs", s, w, j))
VdiffScalarSource(s, w, j) ==
  Op(RowScratch("kvh_cgs", s, w, j) \cup RowScratch("thp_zm_rpdel", s, w, j)
       \cup VdiffMeteorology(s, j),
     RowScratch("potbar_shmx", s, w, j))
VdiffRecurrence(s, w, j) ==
  Op(UNION {RowScratch(name, s, w, j) : name \in {"kvh_cgs", "thp_zm_rpdel", "potbar_shmx"}},
     RowScratch("cch_zeh_termh", s, w, j))
CapturePlan(s, w, j) ==
  Op(UNION {RowScratch(name, s, w, j) :
              name \in {"kvh_cgs", "thp_zm_rpdel", "potbar_shmx", "cch_zeh_termh"}},
     Coefficients(s, j) \cup UndefinedCoefficients(j) \cup CounterGradient(s, j))
SolveHumidity(s, w, j) ==
  Op(RowScratch("potbar_shmx", s, w, j) \cup RowScratch("cch_zeh_termh", s, w, j),
     Term("sphu_after", s, Levels, {j}, Cols))
VdiffPlanRow(s, w, j) ==
  FusedAll(<<VdiffColumns(s, w, j), VdiffFreeDiffusivity(s, w, j),
             VdiffPblDiffusivity(s, w, j), VdiffScalarSource(s, w, j),
             VdiffRecurrence(s, w, j), CapturePlan(s, w, j), SolveHumidity(s, w, j)>>)

\* _prepare_vdiff_met_plan_numba.
PrepareVdiffMetPlan(team, s) == <<Loop(team, Rows, LAMBDA w, j : VdiffPlanRow(s, w, j))>>

(***************************************************************************)
(* Applying the plan: _apply_vdiff_block_impl.                             *)
(***************************************************************************)
\* With deferred finalization the caps' outer rows get their mixing ratio
\* here, on one thread, before the loop over rows.
(* Mutated: the northern cap is left out. *)
FinalizeSouthPole(c) ==
  Op(Hold(c.dq, Levels, {0}, Cols, "advected", c) \cup Term("delp2", c.s, Levels, {0}, Cols),
     Hold(c.dq, Levels, {1}, Cols, "mixing_ratio", c))
FinalizePoles(c) ==
  Op(Hold(c.dq, Levels, PoleRows, Cols, "advected", c)
       \cup Term("delp2", c.s, Levels, PoleRows, Cols),
     Hold(c.dq, Levels, CapRows, Cols, "mixing_ratio", c))

\* What a row reads: masses and the pressure to divide them by, except on
\* the rows that were finalized.
VdiffInput(c, fill, deferred, j) ==
  IF deferred /\ j \notin CapRows
  THEN AdvectedMass(c, fill, Levels, {j}, Cols) \cup Term("delp2", c.s, Levels, {j}, Cols)
  ELSE Hold(c.dq, Levels, {j}, Cols, "mixing_ratio", c)

VdiffSource(c, fill, deferred, flux, w, j) ==
  IF ~flux THEN Nothing
  ELSE Op(VdiffInput(c, fill, deferred, j) \cup CounterGradient(c.s, j)
            \cup Piece("surface_flux", c.b, <<"surface_flux", c.s, c.b>>),
          Scratch("qmx", w, 0, j, c))
VdiffSweep(c, fill, deferred, flux, w, j) ==
  Op(VdiffInput(c, fill, deferred, j)
       \cup (IF flux THEN Scratch("qmx", w, 0, j, c)
                            \cup Piece("surface_flux", c.b, <<"surface_flux", c.s, c.b>>)
                            \cup Term("tmp1", c.s, {0}, {j}, Cols)
                     ELSE {})
       \cup Coefficients(c.s, j) \cup Fresh("dry_mass", c.s, Levels, {j}, Cols),
     Scratch("tracer_diffused", w, 0, j, c) \cup Scratch("before_mass", w, 0, j, c))
VdiffRescale(c, w, j) ==
  Op(Scratch("tracer_diffused", w, 0, j, c) \cup Scratch("before_mass", w, 0, j, c)
       \cup Fresh("dry_mass", c.s, Levels, {j}, Cols),
     Scratch("after_mass", w, 0, j, c) \cup Hold(c.q, Levels, {j}, Cols, "diffused", c))
VdiffRow(c, fill, deferred, flux, w, j) ==
  FusedAll(<<VdiffSource(c, fill, deferred, flux, w, j),
             VdiffSweep(c, fill, deferred, flux, w, j),
             VdiffRescale(c, w, j)>>)

ApplyVdiffBlock(team, c, fill, deferred, flux) ==
  (IF deferred THEN <<Once(team, FinalizePoles(c))>> ELSE <<>>)
    \o <<Loop(team, Rows, LAMBDA w, j : VdiffRow(c, fill, deferred, flux, w, j))>>

(***************************************************************************)
(* Convection: _convect_fullgrid_top_numba_core, one column an iteration.  *)
(* Each internal step starts the plume from the column as the last one     *)
(* left it, mixes below the cloud base when the plume entrains there, then *)
(* walks up, holding the level's old value and tendency in scratch.        *)
(***************************************************************************)
ConvectionMet(s, j, i) ==
  UNION {Term(field, s, Levels, {j}, {i}) :
           field \in {"cmfmc", "dtrain", "delp_end", "delp_dry_end", "bmass",
                      "dqrcu", "reevapcn"}}

Column(c, j, i, n, last) ==
  IF n = 0 THEN Hold(c.q, Levels, {j}, {i}, "diffused", c)
  ELSE IF n = last THEN Hold(c.q, Levels, {j}, {i}, "convected", c)
  ELSE Hold(c.q, Levels, {j}, {i}, "convecting", c)

Plume(c, w, j, i, n) ==
  Scratch("qc", w, n, <<j, i>>, c) \cup Scratch("qb_num", w, n, <<j, i>>, c)
Tendency(c, w, j, i, n) ==
  Scratch("delq_work", w, n, <<j, i>>, c) \cup Scratch("current_work", w, n, <<j, i>>, c)

StartPlume(c, w, j, i, n, last) ==
  Op(Column(c, j, i, n - 1, last) \cup ConvectionMet(c.s, j, i), Plume(c, w, j, i, n))
MovePlume(c, w, j, i, n, last) ==
  Op(Plume(c, w, j, i, n) \cup Column(c, j, i, n - 1, last) \cup ConvectionMet(c.s, j, i),
     Tendency(c, w, j, i, n))
UpdateColumn(c, w, j, i, n, last) == Op(Tendency(c, w, j, i, n), Column(c, j, i, n, last))
ConvectSubstep(c, w, j, i, n, last) ==
  <<StartPlume(c, w, j, i, n, last), MovePlume(c, w, j, i, n, last),
    UpdateColumn(c, w, j, i, n, last)>>

ConvectColumn(c, internal_steps, w, column) ==
  LET j == column \div NLon
      i == column % NLon
  IN  FusedAll(FlattenSeq(
        [n \in 1..internal_steps |-> ConvectSubstep(c, w, j, i, n, internal_steps)]))

ConvectBlock(team, c, internal_steps) ==
  <<Loop(team, 0 .. NLat * NLon - 1,
         LAMBDA w, column : ConvectColumn(c, internal_steps, w, column))>>
===============================================================================
