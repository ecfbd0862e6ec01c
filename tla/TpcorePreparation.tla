--------------------------- MODULE TpcorePreparation ---------------------------
(***************************************************************************)
(* The tracer-independent half of a CPU transport step: the mass fluxes    *)
(* with the pressure fixer and the pressure terms of the advection plan    *)
(* (transport/tpcore/_preparation.py), then what the driver derives from   *)
(* the forcing for diffusion and convection (prepare_transport_step).      *)
(*                                                                         *)
(* The plan's arrays and its scratch are one workspace, reused every step: *)
(* p1, p2, work3 and work2 hold several terms in turn, and ua, va, pu, cx  *)
(* and cy still hold the last step's when a step begins.                   *)
(***************************************************************************)
EXTENDS ColumnKernels

Field(name, s)       == Term(name, s, Levels, Rows, Cols)
Surface(name, s)     == Term(name, s, {0}, Rows, Cols)
SurfaceAs(name, as, s, J) == TermAs(name, as, s, {0}, J, Cols)
Zonal(name, s, J)    == Term(name, s, {0}, J, {0})
Global(name, s)      == Term(name, s, {0}, {0}, {0})

\* The rows of the corrected meridional fluxes: one more than the interior.
FluxRows == J1P .. J2P + 1

(***************************************************************************)
(* _prepare_tpcore_arrays, top to bottom.                                  *)
(***************************************************************************)
\* _average_poles: both rows of a cap take the weighted mean.
AveragePoles(name, before, after, s) ==
  Op(SurfaceAs(name, before, s, Polar), SurfaceAs(name, after, s, Polar))

\* The private pressures: the end is shifted by the global mean tendency.
PrivatePressures(s) ==
  FusedAll(<<
    Op(Surface("p1_input", s) \cup Surface("p2_input", s),
       SurfaceAs("p1", "p1_private", s, Rows) \cup SurfaceAs("p2", "p2_private", s, Rows)),
    AveragePoles("p1", "p1_private", "p1_fixer", s),
    AveragePoles("p2", "p2_private", "p2_fixer", s)>>)

FixerPressures(s) ==
  SurfaceAs("p1", "p1_fixer", s, Polar) \cup SurfaceAs("p1", "p1_private", s, Interior)
    \cup SurfaceAs("p2", "p2_fixer", s, Polar) \cup SurfaceAs("p2", "p2_private", s, Interior)

\* The wind's mass fluxes.  work3 runs from the bottom, the fluxes from the
\* top: level k of one is level Bottom - k of the other.
WindFluxes(s, lev) ==
  FusedAll(<<
    Op(FixerPressures(s), TermAs("work3", "thickness", s, {lev}, Rows, Cols)),
    Op(TermAs("work3", "thickness", s, {lev}, Rows, Cols)
         \cup Term("u", s, {Bottom - lev}, Rows, Cols)
         \cup Term("v", s, {Bottom - lev}, Rows, Cols),
       TermAs("xmass", "wind_xmass", s, {Bottom - lev}, Rows, Cols)
         \cup TermAs("ymass", "wind_ymass", s, {Bottom - lev}, Rows, Cols))>>)

WindXmass(s) == TermAs("xmass", "wind_xmass", s, Levels, Rows, Cols)
WindYmass(s, J) == TermAs("ymass", "wind_ymass", s, Levels, J, Cols)

\* _divergence with bottom_reversed, and its sum over the levels.
WindDivergence(s) ==
  FusedAll(<<
    Op(WindXmass(s) \cup WindYmass(s, FluxRows),
       TermAs("work3", "wind_divergence", s, Levels, Rows, Cols)),
    Op(TermAs("work3", "wind_divergence", s, Levels, Rows, Cols),
       SurfaceAs("work2", "wind_column", s, Rows))>>)

\* The corrections: the zonal mean tendencies mmfd, the meridional fluxes
\* mmf summed from the south, and the zonal fluxes xfix.
Mismatch(s, J) ==
  {p \in FixerPressures(s) : p[1][3] \in J} \cup SurfaceAs("work2", "wind_column", s, J)
ZonalMeans(s) ==
  Op(Mismatch(s, Rows), Zonal("mmfd", s, Rows) \cup Global("dgpress", s))
ClearCorrections(s) ==
  Op({}, TermAs("mmf", "zero", s, {0}, Rows, {0}) \cup SurfaceAs("xfix", "zero", s, Rows))
FirstMeridional(s) == Op(Zonal("mmfd", s, {0}), Zonal("mmf", s, {J1P}))
Corrections(s, j) ==
  FusedAll(<<
    Op(Zonal("mmf", s, {j}) \cup Zonal("mmfd", s, {j}), Zonal("mmf", s, {j + 1})),
    Op(Mismatch(s, {j}) \cup Global("dgpress", s) \cup Zonal("mmfd", s, {j}),
       SurfaceAs("xfix", "xfix", s, {j}))>>)
ApplyCorrections(s) ==
  Op(WindXmass(s) \cup WindYmass(s, FluxRows) \cup Zonal("mmf", s, FluxRows)
       \cup SurfaceAs("xfix", "xfix", s, Interior) \cup SurfaceAs("xfix", "zero", s, Polar),
     Field("xmass", s) \cup Term("ymass", s, Levels, FluxRows, Cols))

\* The plan's pressures start again from the inputs: only the poles averaged.
PlanPressures(s) ==
  FusedAll(<<
    Op(Surface("p1_input", s) \cup Surface("p2_input", s),
       SurfaceAs("p1", "p1_input", s, Rows) \cup SurfaceAs("p2", "p2_input", s, Rows)),
    AveragePoles("p1", "p1_input", "p1_plan", s),
    AveragePoles("p2", "p2_input", "p2_plan", s)>>)
PlanPressure(s) ==
  SurfaceAs("p1", "p1_plan", s, Polar) \cup SurfaceAs("p1", "p1_input", s, Interior)
    \cup SurfaceAs("p2", "p2_plan", s, Polar) \cup SurfaceAs("p2", "p2_input", s, Interior)

\* Pressure thicknesses, then Courant numbers on the interior rows; the
\* other rows of pu, cx and cy are zero.
PressureTerms(s) ==
  Op(PlanPressure(s),
     Field("delp1", s) \cup Field("delpm", s) \cup Field("delp2", s)
       \cup Field("pu", s) \cup Field("cx", s) \cup Field("cy", s))
CourantNumbers(s) ==
  Op(Term("delpm", s, Levels, Interior \cup CapRows, Cols)
       \cup Term("xmass", s, Levels, Interior, Cols)
       \cup Term("ymass", s, Levels, FluxRows, Cols),
     Term("pu", s, Levels, Interior, Cols) \cup Term("cx", s, Levels, Interior, Cols)
       \cup Term("cy", s, Levels, FluxRows, Cols))
SurfacePressure(s) == Op(Field("delp2", s), Surface("surface_pressure", s))

\* The divergence of the corrected fluxes, top first, and what crosses the
\* interface below each level; nothing crosses the ground.
Divergence(s) ==
  FusedAll(<<
    Op(Field("xmass", s) \cup Term("ymass", s, Levels, FluxRows, Cols),
       TermAs("work3", "divergence", s, Levels, Rows, Cols)),
    Op(TermAs("work3", "divergence", s, Levels, Rows, Cols),
       SurfaceAs("work2", "column_divergence", s, Rows))>>)
VerticalFlux(s, lev) ==
  Op((IF lev = Bottom THEN {}
      ELSE TermAs("work3", "divergence", s, {lev}, Rows, Cols)
             \cup SurfaceAs("work2", "column_divergence", s, Rows)
             \cup Term("wz", s, {lev - 1} \cap Levels, Rows, Cols)
             \cup Term("delp1", s, {lev, lev + 1}, Rows, Cols)),
     Term("wz", s, {lev}, Rows, Cols) \cup Term("courant", s, {lev}, Rows, Cols))

\* Winds at the cell centres and the rows where a Courant number exceeds 1.
CrossWinds(s) ==
  Op(Term("cx", s, Levels, Interior, Cols) \cup Term("cy", s, Levels, 1 .. NLat - 1, Cols),
     Field("ua", s) \cup Field("va", s))

PrepareTpcoreArrays(s) ==
  <<PrivatePressures(s)>> \o [m \in 1..NLev |-> WindFluxes(s, m - 1)]
    \o <<WindDivergence(s), ZonalMeans(s), ClearCorrections(s), FirstMeridional(s)>>
    \o [m \in 1 .. Cardinality(Interior) |-> Corrections(s, J1P + m - 1)]
    \o <<ApplyCorrections(s), PlanPressures(s), PressureTerms(s), CourantNumbers(s),
         SurfacePressure(s), Divergence(s)>>
    \o [m \in 1..NLev |-> VerticalFlux(s, m - 1)]
    \o <<CrossWinds(s), SetJnJs([s |-> s])>>

(***************************************************************************)
(* The driver.                                                             *)
(***************************************************************************)
\* The forcing of step s, as the provider hands it over.
ForcingFields == {"u", "v", "t", "sphu", "cmfmc", "dtrain", "dqrcu", "reevapcn"}
Forcing(s) ==
  Op({}, (UNION {Field(name, s) : name \in ForcingFields}) \cup Surface("p2_input", s)
           \cup Surface("wet_pressure", s) \cup Surface("surface_met", s))

\* The starting pressure comes from the dry mass the last step ended with.
DryMass(s) == Fresh("dry_mass", s, Levels, Rows, Cols)
StartingPressure(s) == Op(DryMass(s - 1), Surface("p1_input", s))

\* _dry_pressure_and_mass_from_surface_hpa: the dry mass the step ends with.
NextDryMass(s) ==
  Op(Surface("p2_input", s),
     Field("delp_end", s) \cup Field("delp_dry_end", s) \cup Field("bmass", s)
       \cup DryMass(s))

\* Pressure edges and middles, virtual temperature and box heights.
VdiffInputs(s) ==
  Op(Surface("wet_pressure", s) \cup Field("t", s) \cup Field("sphu", s),
     Term("pint", s, Edges, Rows, Cols) \cup Field("pmid", s) \cup Field("tv", s)
       \cup Field("bxheight", s))

\* The flux of each block, scaled for diffusion.
SurfaceFlux(s, blocks) ==
  Op({}, UNION {Piece("surface_flux", b, <<"surface_flux", s, b>>) : b \in blocks})

\* prepare_transport_step: the diffusion plan is made by the whole team.
PrepareTransportStep(team, s, blocks) ==
  LET serial == <<Forcing(s), StartingPressure(s)>> \o PrepareTpcoreArrays(s)
                  \o <<NextDryMass(s), VdiffInputs(s)>>
  IN  [n \in 1..Len(serial) |-> Once(team, serial[n])]
        \o PrepareVdiffMetPlan(team, s) \o <<Once(team, SurfaceFlux(s, blocks))>>

\* transport_result_from_prepared: what a step reports beside the tracers.
Reported(s) == DryMass(s) \cup Field("delp_end", s) \cup Field("sphu_after", s)
===============================================================================
