----------------------------- MODULE TpcoreKernels -----------------------------
(***************************************************************************)
(* The compiled advection kernels of transport/tpcore/_kernels.py, one     *)
(* definition per kernel: which cells an iteration of its loops reads, and *)
(* which it writes.  A context c says what a call works on: step c.s,      *)
(* block c.b, the tracer array c.q that is consumed, the mass array c.dq   *)
(* that is produced, the scratch planes c.qqu and c.qqv of one level, the  *)
(* owner c.cap of the four polar flux rows, and whether the vertical       *)
(* Courant numbers come with the plan (c.courant).                         *)
(*                                                                         *)
(* How far the wind reaches along a row or a column is data: those reads   *)
(* are taken over the whole row or column.                                 *)
(***************************************************************************)
EXTENDS TransportCells

Before(c) == [c EXCEPT !.s = @ - 1]

\* What the tracers are when a step begins: the last step's, convected.
Entering(c, K, J, I) == Hold(c.q, K, J, I, "convected", Before(c))

\* Row j of the tracers of one level once the caps are averaged, and after
\* the advective increments along x and along y.
Averaged(c, k, J, I) == Hold(c.q, {k}, J \cap Polar, I, "pole_mean", c)
                          \cup Entering(c, {k}, J \ Polar, I)
XAdvanced(c, k, J, I) == Hold(c.q, {k}, J, I, "x_advanced", c)
Advanced(c, K, J, I) == Hold(c.q, K, J, I, "advanced", c)

\* A plane of one level: qqu and qqv have no level dimension, so what they
\* hold is named with the level it was computed for.
Plane(buf, k, J, I, name, c) ==
  {<<<<buf, 0, j, i>>, <<name, c.s, c.b, k>>>> : j \in J, i \in I}
CrossU(c, k, J, I) == Plane(c.qqu, k, J, I, "cross_u", c)
CrossV(c, k, J, I) == Plane(c.qqv, k, J, I, "cross_v", c)

\* The south and north rows of a pair of polar flux arrays.
CapNames == [dao2 |-> {"south_dao2", "north_dao2"}, flux |-> {"south_flux", "north_flux"}]
Caps(pair, k, I, c) ==
  UNION {Plane(<<name, c.cap>>, k, {0}, I, pair, c) : name \in CapNames[pair]}

\* Scratch of worker w: what it holds is named with the call it is for.
Scratch(name, w, k, x, c) == Piece(name, w, <<name, c.s, c.b, k, x>>)

(***************************************************************************)
(* The horizontal pass over one level.                                     *)
(***************************************************************************)
\* _average_const_poles_batch_numba_kernel: the loop is over the lanes of
\* the same cells.
AverageConstPoles(c, k) ==
  Op(Entering(c, {k}, Polar, Cols) \cup Term("delp1", c.s, {k}, Polar, Cols),
     Averaged(c, k, Polar, Cols))

\* _init_dq_mass_numba_kernel, cell by cell.
InitDqMass(c, k, w, cell) ==
  LET j == cell \div NLon
      i == cell % NLon
  IN  Op(Averaged(c, k, {j}, {i}) \cup Term("delp1", c.s, {k}, {j}, {i}),
         Hold(c.dq, {k}, {j}, {i}, "mass", c))

\* _calc_advec_cross_terms_batch_numba_kernel: the caps are copied, the
\* interior looks upwind along its row and along its columns.
CrossTermsCap(c, k, w, j) ==
  Op(Averaged(c, k, {j}, Cols),
     CrossU(c, k, {j}, Cols) \cup CrossV(c, k, {j}, Cols))
CrossTermsRow(c, k, w, j) ==
  Op(Averaged(c, k, Rows, Cols)
       \cup Term("ua", c.s, {k}, {j}, Cols) \cup Term("va", c.s, {k}, {j}, Cols)
       \cup Term("jn", c.s, {k}, {0}, {0}) \cup Term("js", c.s, {k}, {0}, {0}),
     CrossU(c, k, {j}, Cols) \cup CrossV(c, k, {j}, Cols))

\* _xadv_dao2_apply_batch_numba_kernel: adds the x increment in place.
XAdvDao2Row(c, k, w, j) ==
  Op(CrossV(c, k, {j}, Cols) \cup Term("ua", c.s, {k}, {j}, Cols)
       \cup Averaged(c, k, {j}, Cols),
     XAdvanced(c, k, {j}, Cols))

\* _yadv_dao2_apply_batch_numba_kernel: rows, then the polar fluxes column
\* by column, then the caps on one thread.
YAdvDao2Row(c, k, w, j) ==
  Op(CrossU(c, k, Rows, Cols) \cup Term("va", c.s, {k}, {j}, Cols)
       \cup XAdvanced(c, k, {j}, Cols),
     Advanced(c, {k}, {j}, Cols))
YAdvDao2Flux(c, k, w, i) ==
  Op(CrossU(c, k, Rows, {i}) \cup Term("va", c.s, {k}, CapRows, {i}),
     Caps("dao2", k, {i}, c))
YAdvDao2Caps(c, k) ==
  Op(Caps("dao2", k, Cols, c) \cup Averaged(c, k, Polar, Cols),
     Advanced(c, {k}, Polar, Cols))

\* _xtp_batch_numba_kernel.  The slopes dcx are computed away from the edge
\* rows only; near the caps and at high Courant numbers the flux uses them,
\* elsewhere it goes through the parabola scratch.
JVan == IF NLat \div 18 > 1 THEN NLat \div 18 ELSE 1
Edge(j)   == j \in {J1P, J2P}
NearCap(j) == j <= J1P + JVan \/ j >= J2P - JVan

XtpSlopes(c, k, w, j) ==
  IF Edge(j) THEN Nothing
  ELSE Op(CrossV(c, k, {j}, Cols), Scratch("dcx", w, k, j, c))
XtpParabola(c, k, w, j) ==
  IF NearCap(j) THEN Nothing
  ELSE Op(CrossV(c, k, {j}, Cols) \cup Scratch("dcx", w, k, j, c),
          Scratch("x_parabola", w, k, j, c))
XtpFlux(c, k, w, j) ==
  Op(CrossV(c, k, {j}, Cols)
       \cup (IF Edge(j) THEN {} ELSE Scratch("dcx", w, k, j, c))
       \cup (IF NearCap(j) THEN {} ELSE Scratch("x_parabola", w, k, j, c))
       \cup Term("cx", c.s, {k}, {j}, Cols) \cup Term("pu", c.s, {k}, {j}, Cols)
       \cup Term("xmass", c.s, {k}, {j}, Cols)
       \cup Term("jn", c.s, {k}, {0}, {0}) \cup Term("js", c.s, {k}, {0}, {0}),
     Scratch("fx", w, k, j, c))
XtpApply(c, k, w, j) ==
  Op(Scratch("fx", w, k, j, c) \cup Hold(c.dq, {k}, {j}, Cols, "mass", c),
     Hold(c.dq, {k}, {j}, Cols, "x_transported", c))
XtpRow(c, k, w, j) ==
  FusedAll(<<XtpSlopes(c, k, w, j), XtpParabola(c, k, w, j),
             XtpFlux(c, k, w, j), XtpApply(c, k, w, j)>>)

\* _ytp_batch_numba_kernel: whole columns, the flux into qqv, the interior
\* masses, and the two rows the polar sums are taken over.
YtpParabola(c, k, w, i) ==
  Op(CrossU(c, k, Rows, {i}), Scratch("y_parabola", w, k, i, c))
YtpFlux(c, k, w, i) ==
  Op(Scratch("y_parabola", w, k, i, c)
       \cup Term("cy", c.s, {k}, J1P .. J2P + 1, {i})
       \cup Term("ymass", c.s, {k}, J1P .. J2P + 1, {i}),
     Plane(c.qqv, k, J1P .. J2P + 1, {i}, "y_flux", c))
YtpApply(c, k, w, i) ==
  Op(Plane(c.qqv, k, J1P .. J2P + 1, {i}, "y_flux", c)
       \cup Hold(c.dq, {k}, Interior, {i}, "x_transported", c),
     Hold(c.dq, {k}, Interior, {i}, "transported", c) \cup Caps("flux", k, {i}, c))
YtpColumn(c, k, w, i) ==
  FusedAll(<<YtpParabola(c, k, w, i), YtpFlux(c, k, w, i), YtpApply(c, k, w, i)>>)
\* Both rows of each cap take the value of the pole.
YtpCaps(c, k) ==
  Op(Caps("flux", k, Cols, c) \cup Hold(c.dq, {k}, PoleRows, {0}, "mass", c),
     Hold(c.dq, {k}, Polar, Cols, "transported", c))

(***************************************************************************)
(* The vertical pass, the filling of negatives and the finalization.       *)
(***************************************************************************)
\* _fzppm_batch_numba_kernel: rows 1 and NLat-2 are skipped, their values
\* come from the poles when the result is finalized.
FzppmParabola(c, w, j) ==
  Op(Advanced(c, Levels, {j}, Cols) \cup Term("delp1", c.s, Levels, {j}, Cols),
     Scratch("z_parabola", w, 0, j, c))
FzppmFlux(c, w, j) ==
  Op(Scratch("z_parabola", w, 0, j, c) \cup Term("wz", c.s, Levels, {j}, Cols)
       \cup (IF c.courant THEN Term("courant", c.s, Levels, {j}, Cols)
                          ELSE Term("delp1", c.s, Levels, {j}, Cols))
       \cup Hold(c.dq, Levels, {j}, Cols, "transported", c),
     Hold(c.dq, Levels, {j}, Cols, "advected", c))
FzppmRow(c, w, j) == Fused(FzppmParabola(c, w, j), FzppmFlux(c, w, j))

\* _qckxyz_columns_numba_kernel: fills the interior columns, never the caps.
QckxyzColumn(c, w, column) ==
  LET j == J1P + column \div NLon
      i == column % NLon
  IN  Op(Hold(c.dq, Levels, {j}, {i}, "advected", c),
         Hold(c.dq, Levels, {j}, {i}, "filled", c))

\* What row j holds when the vertical pass and the filling are over.
AdvectedMass(c, fill, K, J, I) ==
  Hold(c.dq, K, J \cap Interior, I, IF fill THEN "filled" ELSE "advected", c)
    \cup Hold(c.dq, K, J \cap PoleRows, I, "advected", c)

\* _finalize_tpcore_output_numba_kernel: mass to mixing ratio, then the caps'
\* outer rows are copied from the poles.
FinalizeLevel(c, fill, w, k) ==
  Op(AdvectedMass(c, fill, {k}, Rows \ CapRows, Cols)
       \cup Term("delp2", c.s, {k}, Rows \ CapRows, Cols),
     Hold(c.dq, {k}, Rows, Cols, "mixing_ratio", c))

\* _set_cross_terms_numba_kernel and _set_jn_js_numba_kernel, level by level.
SetCrossTermsLevel(c, w, k) ==
  Op(Term("cx", c.s, {k}, Interior, Cols) \cup Term("cy", c.s, {k}, 1 .. NLat - 1, Cols),
     Term("ua", c.s, {k}, Rows, Cols) \cup Term("va", c.s, {k}, Rows, Cols))
SetJnJs(c) ==
  Op(Term("cx", c.s, Levels, Interior, Cols),
     Term("jn", c.s, Levels, {0}, {0}) \cup Term("js", c.s, Levels, {0}, {0}))

(***************************************************************************)
(* The kernels in the order of the two drivers.  A team of one worker runs *)
(* the recompiled serial kernels inside one iteration of the loop over     *)
(* blocks.                                                                 *)
(***************************************************************************)
\* One level of _advect_tracers_fused_numba_kernel.
AdvectLevel(team, c, k) ==
  <<Once(team, AverageConstPoles(c, k)),
    Loop(team, 0 .. NLat * NLon - 1, LAMBDA w, cell : InitDqMass(c, k, w, cell)),
    Loop(team, 0 .. J1P - 1, LAMBDA w, j : CrossTermsCap(c, k, w, j)),
    Loop(team, J2P + 1 .. NLat - 1, LAMBDA w, j : CrossTermsCap(c, k, w, j)),
    Loop(team, Interior, LAMBDA w, j : CrossTermsRow(c, k, w, j)),
    Loop(team, Interior, LAMBDA w, j : XAdvDao2Row(c, k, w, j)),
    Loop(team, Interior, LAMBDA w, j : YAdvDao2Row(c, k, w, j)),
    Loop(team, Cols, LAMBDA w, i : YAdvDao2Flux(c, k, w, i)),
    Once(team, YAdvDao2Caps(c, k)),
    Loop(team, Interior, LAMBDA w, j : XtpRow(c, k, w, j)),
    Loop(team, Cols, LAMBDA w, i : YtpColumn(c, k, w, i)),
    Once(team, YtpCaps(c, k))>>

AdvectLevels(team, c) ==
  FlattenSeq([m \in 1..NLev |-> AdvectLevel(team, c, m - 1)])

AdvectVertically(team, c) ==
  <<Loop(team, Rows \ CapRows, LAMBDA w, j : FzppmRow(c, w, j))>>

\* _advect_tracers_fused_numba_kernel.
AdvectTracersFused(team, c, fill, finalize) ==
  AdvectLevels(team, c) \o AdvectVertically(team, c)
    \o (IF fill
       THEN <<Loop(team, 0 .. (NLat - 4) * NLon - 1, LAMBDA w, x : QckxyzColumn(c, w, x))>>
       ELSE <<>>)
    \o (IF finalize
       THEN <<Loop(team, Levels, LAMBDA w, k : FinalizeLevel(c, fill, w, k))>>
       ELSE <<>>)

\* _qck_finalize_columns_serial: one pass that fills and divides.
QckFinalizeColumns(c, fill, finalize) ==
  FusedAll(
    (IF fill THEN [x \in 1 .. (NLat - 4) * NLon |-> QckxyzColumn(c, 0, x - 1)] ELSE <<>>)
      \o (IF finalize THEN [m \in 1..NLev |-> FinalizeLevel(c, fill, 0, m - 1)] ELSE <<>>))

\* _advect_one_block_serial, as the operations of worker w.
AdvectOneBlockSerial(w, c, fill, finalize) ==
  Alone(AdvectLevels(<<w>>, c) \o AdvectVertically(<<w>>, c))
    \o <<QckFinalizeColumns(c, fill, finalize)>>
===============================================================================
