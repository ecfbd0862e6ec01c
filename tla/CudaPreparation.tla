----------------------------- MODULE CudaPreparation -----------------------------
(***************************************************************************)
(* The preparation of a transport step on the device                       *)
(* (cuda/preparation.py and the kernels of preparation.cu): the            *)
(* meteorology of the step, the advection plan with its pressure fixer,    *)
(* the diffusion plan and the convection fields.                           *)
(*                                                                         *)
(* The device runs the launches of its stream one after the other; the     *)
(* threads of a launch run in any order.  A launch is one operation, which *)
(* makes what its kernel is for only if no thread touches what another one *)
(* writes.                                                                 *)
(***************************************************************************)
EXTENDS TpcorePreparation

CONSTANT BlockThreads   \* threads of a block of a one-dimensional launch

ASSUME BlockAssumption == BlockThreads \in Nat \ {0}

(***************************************************************************)
(* Launches.                                                               *)
(***************************************************************************)
\* The threads of a grid of enough blocks for "sized" items that pass the
\* bounds check of a kernel with "items" items.
Threads(sized, items) ==
  {t \in 0 .. ((sized + BlockThreads - 1) \div BlockThreads) * BlockThreads - 1 : t < items}

\* Atomic updates of one cell by several threads are no conflict.
Launch(threads, Body(_), atomic) ==
  LET op     == [t \in threads |-> Body(t)]
      Writes(t) == CellsOf(op[t].sets)
      plain  == UNION {Writes(t) : t \in threads}
      all    == plain \cup CellsOf(atomic.sets)
      apart  == /\ \A t \in threads : CellsOf(op[t].needs) \cap (all \ Writes(t)) = {}
                /\ MapThenSumSet(LAMBDA t : Cardinality(Writes(t)), threads) = Cardinality(plain)
                /\ plain \cap CellsOf(atomic.sets) = {}
      sets   == (UNION {op[t].sets : t \in threads}) \cup atomic.sets
  IN  Op((UNION {op[t].needs : t \in threads}) \cup atomic.needs,
         IF apart THEN sets ELSE all \X {Garbage})

\* One thread for each column, each cell of the grid, each level, or each row.
Horizontal == NLat * NLon
OverColumns(Body(_, _)) ==
  Launch(Threads(Horizontal, Horizontal), LAMBDA t : Body(t \div NLon, t % NLon), Nothing)
OverCenters(Body(_, _, _), atomic) ==
  Launch(Threads(NLev * Horizontal, NLev * Horizontal),
         LAMBDA t : Body(t \div Horizontal, (t % Horizontal) \div NLon, t % NLon), atomic)
OverLevels(Body(_)) == Launch(Threads(NLev, NLev), Body, Nothing)
\* The kernels over rows are launched with the blocks of a launch over levels.
OverRowsByLevels(first, last, Body(_)) ==
  Launch(Threads(NLev, last - first + 1), LAMBDA t : Body(first + t), Nothing)

(***************************************************************************)
(* Meteorology.  The forcing arrays are rows of device chunks.             *)
(***************************************************************************)
SurfaceNames == {"wet_start", "wet_end", "dry_start", "dry_end"}
At1(name, s, j, i) == Term(name, s, {0}, {j}, {i})
Center(name, s, k, j, i) == Term(name, s, {k}, {j}, {i})

CudaForcing(s) ==
  Op({}, (UNION {Field(name, s) :
                  name \in {"qv_start", "qv_end", "t_start", "t_end", "u", "v", "cmfmc_in",
                            "dtrain_in", "dqrcu_in", "reevapcn_in"}})
           \cup Surface("ps_start", s) \cup Surface("ps_end", s) \cup Surface("surface_met", s))

Endpoint(as, s, J, I) == TermAs("surface_endpoint", as, s, {0}, J, I)
SurfaceEndpoints(s) ==
  OverColumns(LAMBDA j, i :
    Op(At1("ps_start", s, j, i) \cup At1("ps_end", s, j, i)
         \cup Term("qv_start", s, Levels, {j}, {i}) \cup Term("qv_end", s, Levels, {j}, {i}),
       Endpoint("endpoint", s, {j}, {i})))
AverageEndpointPoles(s) ==
  Op(Endpoint("endpoint", s, Polar, Cols), Endpoint("endpoint_mean", s, Polar, Cols))
EndpointAt(s, j, i) == Endpoint(IF j \in Polar THEN "endpoint_mean" ELSE "endpoint", s, {j}, {i})

\* The threads of the top level interpolate the surface pressures as well.
InterpolateMeteorology(s) ==
  OverCenters(LAMBDA k, j, i :
    Op((UNION {Center(name, s, k, j, i) : name \in {"qv_start", "qv_end", "t_start", "t_end"}})
         \cup (IF k = 0 THEN EndpointAt(s, j, i) ELSE {}),
       Center("sphu", s, k, j, i) \cup Center("t", s, k, j, i)
         \cup (IF k = 0 THEN UNION {At1(name, s, j, i) : name \in SurfaceNames} ELSE {})),
    Nothing)

(***************************************************************************)
(* The advection plan.  Pressures p1 and p2, work2, work3 and xfix hold    *)
(* several terms in turn.                                                  *)
(***************************************************************************)
CurrentDry(s, J, I) == TermAs("current_dry", "dry_end", s, {0}, J, I)
InputPressure(s, J, I) == CurrentDry(s - 1, J, I) \cup Term("dry_end", s, {0}, J, I)

\* p1 and p2 as "stage" makes them, with the poles averaged.
Pressures(stage, s, J, I) ==
  UNION {TermAs(p, stage, s, {0}, J, I) : p \in {"p1", "p2"}}
PressuresAveraged(stage, s, J, I) ==
  Pressures(stage, s, J \ Polar, I) \cup Pressures(stage \o "_mean", s, J \cap Polar, I)
AveragePressure(stage, s) ==
  Op(Pressures(stage, s, Polar, Cols), Pressures(stage \o "_mean", s, Polar, Cols))

MismatchOf(s, J, I) ==
  PressuresAveraged("fixed", s, J, I) \cup TermAs("work2", "wind_column", s, {0}, J, I)
\* The kernel's flag selects the terms: the mismatch, or the tendency.
DeltaTerms(s, mismatch) ==
  OverColumns(LAMBDA j, i :
    Op(IF mismatch THEN MismatchOf(s, {j}, {i}) ELSE InputPressure(s, {j}, {i}),
       TermAs("xfix", IF mismatch THEN "mismatch" ELSE "tendency", s, {0}, {j}, {i})))
SumDelta(s, terms, as) ==
  Op(SurfaceAs("xfix", terms, s, Rows), TermAs("pressure_delta", as, s, {0}, {0}, {0}))
ApplyPressureFix(s) ==
  OverColumns(LAMBDA j, i :
    Op(InputPressure(s, {j}, {i}) \cup TermAs("pressure_delta", "fix", s, {0}, {0}, {0}),
       Pressures("fixed", s, {j}, {i})))

Previous(i) == (i - 1) % NLon
Following(i) == (i + 1) % NLon
MassFlux(s) ==
  OverCenters(LAMBDA k, j, i :
    Op(PressuresAveraged("fixed", s, {j}, {i, Previous(i)})
         \cup PressuresAveraged("fixed", s, {j - 1} \cap Rows, {i})
         \cup Term("u", s, {k}, {j}, {i, Previous(i)})
         \cup Term("v", s, {k}, {j - 1, j} \cap Rows, {i}),
       TermAs("work3", "midpoint", s, {k}, {j}, {i})
         \cup TermAs("xmass", "wind_xmass", s, {Bottom - k}, {j}, {i})
         \cup TermAs("ymass", "wind_ymass", s, {Bottom - k}, {j}, {i})),
    Nothing)

\* _launch_divergence: the interior, then the caps, from fluxes x and y;
\* of levels that may be turned over.
Turned(reversed, k) == IF reversed THEN Bottom - k ELSE k
DivergenceInterior(s, x, y, reversed, as) ==
  OverCenters(LAMBDA k, j, i :
    IF j \notin Interior THEN Nothing
    ELSE Op(TermAs("xmass", x, s, {k}, {j}, {i, Following(i)})
              \cup TermAs("ymass", y, s, {k}, {j, j + 1}, {i}),
            TermAs("work3", as, s, {Turned(reversed, k)}, {j}, {i})),
    Nothing)
DivergencePoles(s, y, reversed, as) ==
  OverLevels(LAMBDA k : Op(TermAs("ymass", y, s, {k}, {J1P, J2P + 1}, Cols),
                           TermAs("work3", as, s, {Turned(reversed, k)}, Polar, Cols)))

SumVertical(s) ==
  OverColumns(LAMBDA j, i :
    Op(TermAs("work3", "wind_divergence", s, Levels, {j}, {i}),
       TermAs("work2", "wind_column", s, {0}, {j}, {i})))

Dgpress(s) == TermAs("pressure_delta", "dgpress", s, {0}, {0}, {0})
PressureRows(s) ==
  OverRowsByLevels(0, NLat - 1, LAMBDA j :
    Op(MismatchOf(s, {j}, Cols) \cup Dgpress(s),
       SurfaceAs("xfix", "zero", s, {j}) \cup Zonal("mmfd", s, {j})
         \cup TermAs("mmf", "zero", s, {0}, {j}, {0})))
MeridionalCorrection(s) == Op(Zonal("mmfd", s, {0} \cup Interior), Zonal("mmf", s, FluxRows))
ZonalCorrection(s) ==
  OverRowsByLevels(J1P, J2P, LAMBDA j :
    Op(MismatchOf(s, {j}, Cols) \cup Dgpress(s) \cup Zonal("mmfd", s, {j}),
       SurfaceAs("xfix", "xfix", s, {j})))
ApplyCorrection(s) ==
  OverCenters(LAMBDA k, j, i :
    Op(TermAs("xmass", "wind_xmass", s, {k}, {j}, {i})
         \cup TermAs("xfix", IF j \in Interior THEN "xfix" ELSE "zero", s, {0}, {j}, {i})
         \cup (IF j \in FluxRows
               THEN TermAs("ymass", "wind_ymass", s, {k}, {j}, {i}) \cup Zonal("mmf", s, {j})
               ELSE {}),
       Center("xmass", s, k, j, i)
         \cup (IF j \in FluxRows THEN Center("ymass", s, k, j, i) ELSE {})),
    Nothing)

CopyPressure(s) ==
  OverColumns(LAMBDA j, i : Op(InputPressure(s, {j}, {i}), Pressures("input", s, {j}, {i})))

\* jn and js start at the flux rows and are moved by atomics.
Polewards(as, s) ==
  TermAs("jn", as, s, Levels, {0}, {0}) \cup TermAs("js", as, s, Levels, {0}, {0})
InitializeJnJs(s) ==
  OverLevels(LAMBDA k : Op({}, {p \in Polewards("start", s) : p[1][2] = k}))
CudaPressureTerms(s) ==
  OverCenters(LAMBDA k, j, i :
    Op(PressuresAveraged("input", s, {j}, {i})
         \cup (IF j \in Interior
               THEN PressuresAveraged("input", s, {j}, {Previous(i)})
                      \cup Center("xmass", s, k, j, i)
               ELSE {})
         \cup (IF j \in FluxRows
               THEN PressuresAveraged("input", s, {j - 1}, {i}) \cup Center("ymass", s, k, j, i)
               ELSE {}),
       UNION {Center(name, s, k, j, i) :
                name \in {"delp1", "delpm", "delp2", "pu", "cx", "cy"}}),
    Op(Polewards("start", s), Term("jn", s, Levels, {0}, {0}) \cup Term("js", s, Levels, {0}, {0})))

CudaVerticalFlux(s) ==
  OverColumns(LAMBDA j, i :
    Op(TermAs("work3", "divergence", s, Levels, {j}, {i}) \cup Term("delp1", s, Levels, {j}, {i}),
       TermAs("work2", "column_divergence", s, {0}, {j}, {i})
         \cup Term("wz", s, Levels, {j}, {i}) \cup Term("courant", s, Levels, {j}, {i})))
CudaCrossTerms(s) ==
  OverCenters(LAMBDA k, j, i :
    Op((IF j \in Interior THEN Term("cx", s, {k}, {j}, {i, Following(i)}) ELSE {})
         \cup (IF j \in 1 .. NLat - 2 THEN Term("cy", s, {k}, {j, j + 1}, {i}) ELSE {}),
       Center("ua", s, k, j, i) \cup Center("va", s, k, j, i)),
    Nothing)

\* In single precision the plan is a cast of the arrays prepared in double.
DeviceTerm(device, name, s, K, J, I) ==
  TermAs(IF device THEN "device_" \o name ELSE name, name, s, K, J, I)
TpcoreCenterNames == {"delp1", "delp2", "pu", "xmass", "ymass", "wz", "courant",
                      "cx", "cy", "ua", "va"}
\* The rows of a plan array that hold its term: no flux crosses the others.
PlanRows(name) == IF name = "ymass" THEN FluxRows ELSE Rows
CastTpcore(s) ==
  Op(UNION {Term(name, s, Levels, PlanRows(name), Cols) : name \in TpcoreCenterNames},
     UNION {DeviceTerm(TRUE, name, s, Levels, PlanRows(name), Cols) : name \in TpcoreCenterNames})

\* The step's final pressure becomes the next one's start.
KeepDrySurface(s) == Op(Surface("dry_end", s), CurrentDry(s, Rows, Cols))


\* prepare_tpcore_step.
PrepareTpcoreStep(s, single) ==
  <<SurfaceEndpoints(s), AverageEndpointPoles(s), InterpolateMeteorology(s),
    DeltaTerms(s, FALSE),
    SumDelta(s, "tendency", "fix"), ApplyPressureFix(s), AveragePressure("fixed", s),
    MassFlux(s), DivergenceInterior(s, "wind_xmass", "wind_ymass", TRUE, "wind_divergence"),
    DivergencePoles(s, "wind_ymass", TRUE, "wind_divergence"), SumVertical(s),
    DeltaTerms(s, TRUE),
    SumDelta(s, "mismatch", "dgpress"), PressureRows(s), MeridionalCorrection(s),
    ZonalCorrection(s), ApplyCorrection(s), CopyPressure(s), AveragePressure("input", s),
    InitializeJnJs(s), CudaPressureTerms(s),
    DivergenceInterior(s, "xmass", "ymass", FALSE, "divergence"),
    DivergencePoles(s, "ymass", FALSE, "divergence"), CudaVerticalFlux(s), CudaCrossTerms(s)>>
    \o (IF single THEN <<CastTpcore(s)>> ELSE <<>>) \o <<KeepDrySurface(s)>>

(***************************************************************************)
(* The diffusion plan and the convection fields.                           *)
(***************************************************************************)
ComputeVdiffStart(s) == Op(Surface("wet_end", s), Global("start_level", s))

VdiffCenterNames == {"cch", "zeh", "termh", "rpdel", "dry_mass", "sphu_after"}
VdiffEdgeNames == {"cgs", "kvh", "potbar"}
VdiffSurfaceNames == {"rrho", "tmp1"}
VdiffArrays(device, s, J, I) ==
  (UNION {DeviceTerm(device, name, s, Levels, J, I) : name \in VdiffCenterNames})
    \cup (UNION {DeviceTerm(device, name, s, Edges, J, I) : name \in VdiffEdgeNames})
    \cup UNION {DeviceTerm(device, name, s, {0}, J, I) : name \in VdiffSurfaceNames}

\* Every column in the registers of its thread, zero where the recurrence
\* defines nothing.
PrepareVdiff(s) ==
  OverColumns(LAMBDA j, i :
    Op((UNION {Term(name, s, Levels, {j}, {i}) : name \in {"u", "v", "t", "sphu", "delp2"}})
         \cup At1("wet_end", s, j, i) \cup At1("surface_met", s, j, i)
         \cup Global("start_level", s),
       VdiffArrays(FALSE, s, {j}, {i})))
CastVdiff(s) == Op(VdiffArrays(FALSE, s, Rows, Cols), VdiffArrays(TRUE, s, Rows, Cols))

ConvectionNames == {"cmfmc", "dtrain", "dqrcu", "reevapcn"}
\* The forcing runs from the bottom, the plan from the top.
PrepareConvection(s) ==
  OverCenters(LAMBDA k, j, i :
    Op((UNION {Center(name \o "_in", s, Bottom - k, j, i) : name \in ConvectionNames})
         \cup Center("delp2", s, k, j, i),
       UNION {Center(name, s, k, j, i) :
                name \in ConvectionNames \cup {"delp", "bmass"}}),
    Nothing)

\* prepare_vdiff_and_convection.
PrepareVdiffAndConvection(s, single) ==
  <<ComputeVdiffStart(s), PrepareVdiff(s)>> \o (IF single THEN <<CastVdiff(s)>> ELSE <<>>)
    \o <<PrepareConvection(s)>>
===============================================================================
