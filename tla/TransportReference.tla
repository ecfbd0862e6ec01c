--------------------------- MODULE TransportReference --------------------------
(***************************************************************************)
(* The NumPy implementation of the mass fluxes and of advection (pjc.py and *)
(* tpcore/_reference.py), which the one-step driver uses when numba is off. *)
(*                                                                         *)
(* Arrays a function allocates are named after it; what it returns is      *)
(* read by name.  A slice that is assigned through a view is written where *)
(* the view points.                                                        *)
(***************************************************************************)
EXTENDS TpcorePreparation

(***************************************************************************)
(* pjc.py and setup_tpcore_terms: fluxes and pressure terms.               *)
(***************************************************************************)
\* pjc_mass_flux_hpa works on private copies of the pressures.
PjcPressures(s) ==
  Op(Surface("p1_input", s) \cup Surface("p2_input", s),
     Surface("pjc_p1", s) \cup Surface("pjc_p2", s) \cup Field("pjc_delpm", s))
PjcRawMassFlux(s) ==
  Op(Field("pjc_delpm", s) \cup Field("u", s) \cup Field("v", s),
     Field("pjc_x", s) \cup Field("pjc_y", s))
PjcDivergence(s) ==
  Op(Field("pjc_x", s) \cup Field("pjc_y", s), Field("pjc_dpi", s))

\* _pjc_pressure_fixed_fluxes: corrected copies; away from the flux rows the
\* meridional flux is the raw one.
PjcMismatch(s) ==
  Surface("pjc_p1", s) \cup Surface("pjc_p2", s) \cup Field("pjc_dpi", s)
PjcPressureFixedFluxes(s) ==
  FusedAll(<<
    Op(PjcMismatch(s), Zonal("pjc_mmfd", s, Rows) \cup Global("pjc_dgpress", s)),
    Op(Zonal("pjc_mmfd", s, {0} \cup Interior), Zonal("pjc_mmf", s, FluxRows)),
    Op(PjcMismatch(s) \cup Global("pjc_dgpress", s) \cup Zonal("pjc_mmfd", s, Interior),
       Surface("pjc_xfix", s)),
    Op(Field("pjc_x", s) \cup Field("pjc_y", s) \cup Surface("pjc_xfix", s)
         \cup Zonal("pjc_mmf", s, FluxRows),
       Field("xmass", s) \cup Term("ymass", s, Levels, FluxRows, Cols))>>)

\* _set_press_terms on the plan's own pole-averaged copies.
RefPressTerms(s) ==
  FusedAll(<<
    PlanPressures(s),
    Op(PlanPressure(s),
       Field("delp1", s) \cup Field("delpm", s) \cup Field("delp2", s) \cup Field("pu", s))>>)
RefCourant(s) ==
  Op(Term("pu", s, Levels, Interior, Cols) \cup Term("xmass", s, Levels, Interior, Cols)
       \cup Term("ymass", s, Levels, FluxRows, Cols)
       \cup Term("delpm", s, Levels, Interior \cup CapRows, Cols),
     Field("cx", s) \cup Field("cy", s))
RefDivergence(s) ==
  Op(Term("xmass", s, Levels, Interior, Cols) \cup Term("ymass", s, Levels, FluxRows, Cols),
     Field("dpi", s))
RefVerticalMassFlux(s) == Op(Field("dpi", s), Field("wz", s))

SetupTpcoreTerms(s) ==
  <<PjcPressures(s), PjcRawMassFlux(s), PjcDivergence(s), PjcPressureFixedFluxes(s),
    RefPressTerms(s), RefCourant(s), RefDivergence(s), RefVerticalMassFlux(s)>>

(***************************************************************************)
(* tpcore/_reference.py: _advect_tracers.                                  *)
(***************************************************************************)
RefSetCrossTerms(s) == Op(Field("cx", s) \cup Field("cy", s), Field("ua", s) \cup Field("va", s))
RefSetJnJs(s) ==
  Op(Field("cx", s), Term("jn", s, Levels, {0}, {0}) \cup Term("js", s, Levels, {0}, {0}))

RefInput(c, input) ==
  Op(Hold(input, Levels, Rows, Cols, "convected", Before(c)),
     Hold(c.q, Levels, Rows, Cols, "convected", Before(c)))
RefInitMass(c, k) ==
  Op(Averaged(c, k, Rows, Cols) \cup Term("delp1", c.s, {k}, Rows, Cols),
     Hold(c.dq, {k}, Rows, Cols, "mass", c))

\* An array of one level that the level's functions allocate.
Local(name, c, k, J) == Plane(<<name, 0>>, k, J, Cols, name, c)

RefCrossTerms(c, k) ==
  Op(Averaged(c, k, Rows, Cols)
       \cup Term("ua", c.s, {k}, Rows, Cols) \cup Term("va", c.s, {k}, Rows, Cols)
       \cup Term("jn", c.s, {k}, {0}, {0}) \cup Term("js", c.s, {k}, {0}, {0}),
     CrossU(c, k, Rows, Cols) \cup CrossV(c, k, Rows, Cols))
RefXadv(c, k) ==
  Op(CrossV(c, k, Rows, Cols) \cup Term("ua", c.s, {k}, Interior, Cols),
     Local("adx", c, k, Rows))
RefYadv(c, k) ==
  Op(CrossU(c, k, Rows, Cols) \cup Term("va", c.s, {k}, Interior \cup CapRows, Cols),
     Local("ady", c, k, Rows))
RefAdvance(c, k) ==
  Op(Averaged(c, k, Rows, Cols) \cup Local("adx", c, k, Rows) \cup Local("ady", c, k, Rows),
     Advanced(c, {k}, Rows, Cols))

\* _xtp_batch: slopes of every row first; fx is one row, reused by the rows.
RefXmist(c, k) == Op(CrossV(c, k, Rows, Cols), Local("ref_dcx", c, k, Rows))
RefXtpRow(c, k, j) ==
  FusedAll(<<
    Op(CrossV(c, k, {j}, Cols) \cup Local("ref_dcx", c, k, {j})
         \cup (UNION {Term(name, c.s, {k}, {j}, Cols) : name \in {"cx", "pu", "xmass"}})
         \cup Term("jn", c.s, {k}, {0}, {0}) \cup Term("js", c.s, {k}, {0}, {0}),
       Piece("ref_fx", 0, <<"ref_fx", c.s, c.b, k, j>>)),
    Op(Piece("ref_fx", 0, <<"ref_fx", c.s, c.b, k, j>>)
         \cup Hold(c.dq, {k}, {j}, Cols, "mass", c),
       Hold(c.dq, {k}, {j}, Cols, "x_transported", c))>>)

\* _ytp_batch: _fyppm_batch writes mean values into qqv, which become fluxes
\* row by row, row j + 1 just before row j needs it.
RefYmist(c, k) == Op(CrossU(c, k, Rows, Cols), Local("ref_dcy", c, k, Rows))
RefFyppm(c, k) ==
  Op(CrossU(c, k, Rows, Cols) \cup Local("ref_dcy", c, k, Rows)
       \cup Term("cy", c.s, {k}, FluxRows, Cols),
     Plane(c.qqv, k, FluxRows, Cols, "y_value", c))
RefYFlux(c, k, j) ==
  Op(Plane(c.qqv, k, {j}, Cols, "y_value", c) \cup Term("ymass", c.s, {k}, {j}, Cols),
     Plane(c.qqv, k, {j}, Cols, "y_flux", c))
RefYtpRow(c, k, j) ==
  Fused(RefYFlux(c, k, j + 1),
        Op(Plane(c.qqv, k, {j, j + 1}, Cols, "y_flux", c)
             \cup Hold(c.dq, {k}, {j}, Cols, "x_transported", c),
           Hold(c.dq, {k}, {j}, Cols, "transported", c)))
RefYtpPoles(c, k) ==
  Op(Plane(c.qqv, k, {J1P, J2P + 1}, Cols, "y_flux", c)
       \cup Hold(c.dq, {k}, PoleRows, {0}, "mass", c),
     Hold(c.dq, {k}, Polar, Cols, "transported", c))

OverRows(J, Body(_)) ==
  LET order == Ascending(J) IN [m \in 1..Len(order) |-> Body(order[m])]

RefAdvectLevel(c, k) ==
  <<AverageConstPoles(c, k), RefInitMass(c, k), RefCrossTerms(c, k), RefXadv(c, k),
    RefYadv(c, k), RefAdvance(c, k), RefXmist(c, k)>>
    \o OverRows(Interior, LAMBDA j : RefXtpRow(c, k, j))
    \o <<RefYmist(c, k), RefFyppm(c, k), RefYFlux(c, k, J1P)>>
    \o OverRows(Interior, LAMBDA j : RefYtpRow(c, k, j)) \o <<RefYtpPoles(c, k)>>

RefFzppmRow(c, j) ==
  Op(Advanced(c, Levels, {j}, Cols) \cup Hold(c.dq, Levels, {j}, Cols, "transported", c)
       \cup Term("delp1", c.s, Levels, {j}, Cols) \cup Term("wz", c.s, Levels, {j}, Cols),
     Hold(c.dq, Levels, {j}, Cols, "advected", c))
RefQckxyz(c) ==
  Op(Hold(c.dq, Levels, Interior, Cols, "advected", c),
     Hold(c.dq, Levels, Interior, Cols, "filled", c))
RefFinalize(c, out) ==
  Op(AdvectedMass(c, TRUE, Levels, Rows \ CapRows, Cols)
       \cup Term("delp2", c.s, Levels, Rows \ CapRows, Cols),
     Hold(out, Levels, Rows, Cols, "mixing_ratio", c))

RefAdvectTracers(c, input, out) ==
  <<RefSetCrossTerms(c.s), RefSetJnJs(c.s), RefInput(c, input)>>
    \o FlattenSeq([m \in 1..NLev |-> RefAdvectLevel(c, m - 1)])
    \o OverRows(Rows \ CapRows, LAMBDA j : RefFzppmRow(c, j))
    \o <<RefQckxyz(c), RefFinalize(c, out)>>
===============================================================================
