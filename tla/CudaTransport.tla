------------------------------ MODULE CudaTransport ------------------------------
(***************************************************************************)
(* A transport step on the device: cuda/transport_step.py and the launches *)
(* of transport/{tpcore,pbl,convection}/_cuda.py with the kernels of       *)
(* tpcore.cu, vdiff.cu and convection.cu.  The plan is either prepared on  *)
(* the device (CudaPreparation) or uploaded from the host.                 *)
(*                                                                         *)
(* A context c names the step c.s, the tracer c.b, the arrays, and says    *)
(* whether the plan is in device copies (c.device), whether they come from *)
(* the host (c.uploaded) and whether the executor is in single precision   *)
(* (c.single).                                                             *)
(***************************************************************************)
EXTENDS CudaPreparation

CONSTANT WarpSize   \* lanes of a warp

ASSUME WarpAssumption == WarpSize \in Nat \ {0}

CudaContext(s, b, single, uploaded) ==
  [s |-> s, b |-> b, single |-> single, uploaded |-> uploaded, device |-> single \/ uploaded,
   q |-> <<"state_a", b>>, dq |-> <<"tpcore_output", b>>,
   qqu |-> <<"qqu", b>>, qqv |-> <<"qqv", b>>]

\* One thread for each item of each tracer, the tracers innermost.
OverTracers(contexts, size, Body(_, _)) ==
  LET n == Len(contexts)
  IN  Launch(Threads(size * n, size * n), LAMBDA t : Body(contexts[(t % n) + 1], t \div n), Nothing)

PlanTerm(c, name, K, J, I) == DeviceTerm(c.device, name, c.s, K, J, I)
Poleward(c, k) == Term("jn", c.s, {k}, {0}, {0}) \cup Term("js", c.s, {k}, {0}, {0})

\* The planes of all levels are kept.
AdvectedU(c, k, J, I) == Hold(c.qqu, {k}, J, I, "cross_u", c)
AdvectedV(c, k, J, I) == Hold(c.qqv, {k}, J, I, "cross_v", c)

(***************************************************************************)
(* Horizontal advection.                                                   *)
(***************************************************************************)
HorizontalPoles(contexts) ==
  OverTracers(contexts, NLev, LAMBDA c, k :
    Op(Entering(c, {k}, Polar, Cols) \cup PlanTerm(c, "delp1", {k}, Polar, Cols),
       Averaged(c, k, Polar, Cols)))

\* Each cell reads upwind in its row and its column of q, which no one writes.
HorizontalInitialize(contexts) ==
  OverTracers(contexts, NLev * Horizontal, LAMBDA c, cell :
    LET k == cell \div Horizontal
        j == (cell % Horizontal) \div NLon
        i == cell % NLon
    IN  Op(Averaged(c, k, {j}, {i}) \cup PlanTerm(c, "delp1", {k}, {j}, {i})
             \cup (IF j \in Polar THEN {}
                   ELSE Averaged(c, k, {j}, Cols) \cup Averaged(c, k, Rows, {i})
                          \cup PlanTerm(c, "ua", {k}, {j}, {i})
                          \cup PlanTerm(c, "va", {k}, {j}, {i}) \cup Poleward(c, k)),
           Hold(c.dq, {k}, {j}, {i}, "mass", c)
             \cup AdvectedU(c, k, {j}, {i}) \cup AdvectedV(c, k, {j}, {i})))

(***************************************************************************)
(* The zonal kernel: a warp for each level of each tracer.  Its lanes      *)
(* share four rows of memory; every __syncwarp ends a phase, inside which  *)
(* lanes run in any order.                                                 *)
(***************************************************************************)
Phase(contexts, Body(_, _, _)) ==
  Launch((1 .. Len(contexts)) \X Levels \X (0 .. WarpSize - 1),
         LAMBDA t : Body(contexts[t[1]], t[2], t[3]), Nothing)
OfLane(lane, size) == {x \in 0 .. size - 1 : x % WarpSize = lane}
ByLane(lane, size, Body(_)) ==
  LET mine == Ascending(OfLane(lane, size))
  IN  FusedAll([n \in 1..Len(mine) |-> Body(mine[n])])

\* Shared row "name" of the warp of level k holds term "as" of latitude j.
Shared(name, as, c, k, j, I) ==
  {<<<<<<name, c.b * NLev + k>>, 0, 0, i>>, <<as, c.s, c.b, k, j>>>> : i \in I}

\* Both increments of a cell by the same lane, first all along x.
AdvanceX(c, k, cell) ==
  LET j == J1P + cell \div NLon
      i == cell % NLon
  IN  Op(AdvectedV(c, k, {j}, Cols) \cup PlanTerm(c, "ua", {k}, {j}, {i})
           \cup Averaged(c, k, {j}, {i}),
         XAdvanced(c, k, {j}, {i}))
AdvanceY(c, k, cell) ==
  LET j == J1P + cell \div NLon
      i == cell % NLon
  IN  Op(AdvectedU(c, k, Rows, {i}) \cup PlanTerm(c, "va", {k}, {j}, {i})
           \cup XAdvanced(c, k, {j}, {i}),
         Advanced(c, {k}, {j}, {i}))
WarpAdvance(c, k, lane) ==
  LET size == Cardinality(Interior) * NLon
  IN  Fused(ByLane(lane, size, LAMBDA cell : AdvanceX(c, k, cell)),
            ByLane(lane, size, LAMBDA cell : AdvanceY(c, k, cell)))

WarpCapIncrements(c, k, lane) ==
  ByLane(lane, NLon, LAMBDA i :
    Op(AdvectedU(c, k, Rows, {i}) \cup PlanTerm(c, "va", {k}, CapRows, {i}),
       Shared("w0", "south", c, k, 0, {i}) \cup Shared("w1", "north", c, k, 0, {i})))
WarpCapMeans(c, k, lane) ==
  IF lane # 0 THEN Nothing
  ELSE Op(Shared("w0", "south", c, k, 0, Cols) \cup Shared("w1", "north", c, k, 0, Cols),
          Shared("w2", "cap_mean", c, k, 0, {0, 1}))
WarpCaps(c, k, lane) ==
  Fused(Op(Shared("w2", "cap_mean", c, k, 0, {0, 1}), {}),
        ByLane(lane, NLon, LAMBDA i :
          Op(Averaged(c, k, Polar, {i}), Advanced(c, {k}, Polar, {i}))))

\* A row's slopes; away from the caps the parabola is fitted in the same
\* memory (on a row with Courant numbers beyond one the slopes stay).
WarpSlopes(c, k, j, lane) ==
  ByLane(lane, NLon, LAMBDA i :
    Op(AdvectedV(c, k, {j}, Cols), Shared("w0", "slope", c, k, j, {i})))
WarpEdges(c, k, j, lane) ==
  ByLane(lane, NLon, LAMBDA i :
    Op(AdvectedV(c, k, {j}, {Previous(i), i}) \cup Shared("w0", "slope", c, k, j, {Previous(i), i}),
       Shared("w1", "left", c, k, j, {i}) \cup Shared("w2", "right", c, k, j, {Previous(i)})))
Parabola(c, k, j, I) == UNION {Shared(name, "parabola", c, k, j, I) : name \in {"w0", "w1", "w2"}}
WarpParabola(c, k, j, lane) ==
  ByLane(lane, NLon, LAMBDA i :
    Op(AdvectedV(c, k, {j}, {i}) \cup Shared("w0", "slope", c, k, j, {i})
         \cup Shared("w1", "left", c, k, j, {i}) \cup Shared("w2", "right", c, k, j, {i}),
       Parabola(c, k, j, {i})))
WarpFlux(c, k, j, lane) ==
  ByLane(lane, NLon, LAMBDA i :
    Op((UNION {PlanTerm(c, name, {k}, {j}, {i}) : name \in {"cx", "pu", "xmass"}})
         \cup Poleward(c, k)
         \cup (IF NearCap(j) THEN AdvectedV(c, k, {j}, Cols)
                             ELSE Parabola(c, k, j, {Previous(i), i}))
         \cup (IF NearCap(j) /\ ~Edge(j) THEN Shared("w0", "slope", c, k, j, Cols) ELSE {}),
       Shared("fluxes", "flux", c, k, j, {i})))
WarpApply(c, k, j, lane) ==
  ByLane(lane, NLon, LAMBDA i :
    Op(Shared("fluxes", "flux", c, k, j, {i, Following(i)})
         \cup Hold(c.dq, {k}, {j}, {i}, "mass", c),
       Hold(c.dq, {k}, {j}, {i}, "x_transported", c)))
ZonalRow(contexts, j) ==
  LET Do(Step(_, _, _, _)) == <<Phase(contexts, LAMBDA c, k, lane : Step(c, k, j, lane))>>
  IN  (IF Edge(j) THEN <<>> ELSE Do(WarpSlopes))
        \o (IF NearCap(j) THEN <<>> ELSE Do(WarpEdges) \o Do(WarpParabola))
        \o Do(WarpFlux) \o Do(WarpApply)

HorizontalZonalWarp(contexts) ==
  FusedAll(<<Phase(contexts, WarpAdvance), Phase(contexts, WarpCapIncrements),
             Phase(contexts, WarpCapMeans), Phase(contexts, WarpCaps)>>
    \o FlattenSeq([m \in 1 .. Cardinality(Interior) |-> ZonalRow(contexts, J1P + m - 1)]))

\* The fluxes go into qqv, which the zonal kernel has finished with.
HorizontalMeridional(contexts) ==
  OverTracers(contexts, NLev * NLon, LAMBDA c, column :
    LET k == column \div NLon
        i == column % NLon
    IN  Op(AdvectedU(c, k, Rows, {i}) \cup PlanTerm(c, "cy", {k}, FluxRows, {i})
             \cup PlanTerm(c, "ymass", {k}, FluxRows, {i})
             \cup Hold(c.dq, {k}, Interior, {i}, "x_transported", c),
           Hold(c.qqv, {k}, FluxRows, {i}, "y_flux", c)
             \cup Hold(c.dq, {k}, Interior, {i}, "transported", c)))
HorizontalFinalizePoles(contexts) ==
  OverTracers(contexts, NLev, LAMBDA c, k :
    Op(Hold(c.qqv, {k}, {J1P, J2P + 1}, Cols, "y_flux", c)
         \cup Hold(c.dq, {k}, PoleRows, {0}, "mass", c),
       Hold(c.dq, {k}, Polar, Cols, "transported", c)))

(***************************************************************************)
(* Vertical advection.  In double precision the coefficients of a column   *)
(* are computed once for all tracers, inner levels by their own threads,   *)
(* the two boundaries by the thread of the top.                            *)
(***************************************************************************)
PrepareVerticalCoefficients(c) ==
  OverCenters(LAMBDA k, j, i :
    IF k = Bottom THEN Nothing
    ELSE Op(PlanTerm(c, "delp1", IF k = 0 THEN {0, 1, 2, Bottom - 1, Bottom}
                                 ELSE {k - 2, k - 1, k, k + 1} \cap Levels, {j}, {i}),
            IF k = 0 THEN Term("boundary_coefficients", c.s, {0}, {j}, {i})
            ELSE Center("slope_coefficients", c.s, k, j, i)),
    Nothing)

\* The thread of a pole's column writes the cap row beside it as well.
Vertical(contexts) ==
  OverTracers(contexts, Horizontal, LAMBDA c, column :
    LET j == column \div NLon
        i == column % NLon
        beside == CASE j = 0 -> {1} [] j = NLat - 1 -> {NLat - 2} [] OTHER -> {}
    IN  IF j \in CapRows THEN Nothing
        ELSE Op(Advanced(c, Levels, {j}, {i})
                  \cup (UNION {PlanTerm(c, name, Levels, {j}, {i}) :
                                name \in {"delp1", "delp2", "wz", "courant"}})
                  \cup (IF c.single THEN {}
                        ELSE Term("slope_coefficients", c.s, 1 .. Bottom - 1, {j}, {i})
                               \cup Term("boundary_coefficients", c.s, {0}, {j}, {i}))
                  \cup Hold(c.dq, Levels, {j}, {i}, "transported", c),
                Hold(c.dq, Levels, {j} \cup beside, {i}, "mixing_ratio", c)))

\* CudaTpcoreExecutor.apply_blocks.
ApplyTpcoreBlocks(contexts) ==
  <<HorizontalPoles(contexts), HorizontalInitialize(contexts), HorizontalZonalWarp(contexts),
    HorizontalMeridional(contexts), HorizontalFinalizePoles(contexts)>>
    \o (IF contexts[1].single THEN <<>> ELSE <<PrepareVerticalCoefficients(contexts[1])>>)
    \o <<Vertical(contexts)>>

(***************************************************************************)
(* Diffusion and convection, a thread for each column of each tracer.      *)
(***************************************************************************)
\* What the sweep reads of the plan; the undefined coefficients are not.
VdiffPlan(c, j, i) ==
  PlanTerm(c, "cch", Levels \ {0}, {j}, {i})
    \cup (UNION {PlanTerm(c, name, Levels \ {Bottom}, {j}, {i}) : name \in {"zeh", "termh"}})
    \cup PlanTerm(c, "dry_mass", Levels, {j}, {i})
VdiffFluxPlan(c, j, i) ==
  PlanTerm(c, "rpdel", Levels, {j}, {i}) \cup Global("start_level", c.s)
    \cup (UNION {PlanTerm(c, name, Edges, {j}, {i}) : name \in VdiffEdgeNames})
    \cup (UNION {PlanTerm(c, name, {0}, {j}, {i}) : name \in VdiffSurfaceNames})
    \cup Piece("surface_flux", c.b, <<"surface_flux", c.s, c.b>>)

\* A column with a flux is copied to the workspace, which is qqu again.
CountCleared(s) == Piece("negative_count", 0, <<"cleared", s>>)
CountClipped(s) == Piece("negative_count", 0, <<"negative_count", s>>)
VdiffColumn(c, flux, j, i) ==
  LET source == Op(Hold(c.dq, Levels, {j}, {i}, "mixing_ratio", c) \cup VdiffFluxPlan(c, j, i),
                   Hold(c.qqu, Levels, {j}, {i}, "qmx", c))
      sweep == Op(Hold(c.dq, Levels, {j}, {i}, "mixing_ratio", c) \cup VdiffPlan(c, j, i)
                    \cup (IF flux THEN Hold(c.qqu, Levels, {j}, {i}, "qmx", c) ELSE {}),
                  Hold(c.q, Levels, {j}, {i}, "diffused", c))
  IN  IF flux THEN Fused(source, sweep) ELSE sweep
ApplyVdiffBlocks(contexts, flux) ==
  LET s == contexts[1].s
      n == Len(contexts)
  IN  <<Op({}, CountCleared(s)),
        Launch(Threads(Horizontal * n, Horizontal * n),
               LAMBDA t : VdiffColumn(contexts[(t % n) + 1], flux, (t \div n) \div NLon,
                                      (t \div n) % NLon),
               Op(CountCleared(s), CountClipped(s)))>>

\* Prepared on the device, both pressures are the one array delp.
ConvectionPlanNames(uploaded) ==
  ConvectionNames \cup {"bmass"}
    \cup (IF uploaded THEN {"delp_end", "delp_dry_end"} ELSE {"delp"})
ConvectionPlan(c, j, i) ==
  UNION {DeviceTerm(c.uploaded, name, c.s, Levels, {j}, {i}) :
           name \in ConvectionPlanNames(c.uploaded)}
ApplyConvectionBlocks(contexts) ==
  OverTracers(contexts, Horizontal, LAMBDA c, column :
    LET j == column \div NLon
        i == column % NLon
    IN  Op(Hold(c.q, Levels, {j}, {i}, "diffused", c) \cup ConvectionPlan(c, j, i),
           Hold(c.q, Levels, {j}, {i}, "convected", c)))

\* CudaTransportStepExecutor.apply.
ApplyCudaStep(contexts, flux) ==
  ApplyTpcoreBlocks(contexts) \o ApplyVdiffBlocks(contexts, flux)
    \o <<ApplyConvectionBlocks(contexts)>>

(***************************************************************************)
(* The two ways to a plan (cuda/executor.py).                              *)
(***************************************************************************)
\* upload_plan, three times: the arrays of the host as they are, with what
\* no one defined.
UploadTpcore(s) == CastTpcore(s)
UploadVdiff(s) ==
  LET names == (VdiffCenterNames \cup VdiffSurfaceNames \cup VdiffEdgeNames) \ {"dry_mass"}
      Levels3(name) == IF name \in VdiffEdgeNames THEN Edges
                       ELSE IF name \in VdiffSurfaceNames THEN {0}
                       ELSE IF name = "cch" THEN Levels \ {0}
                       ELSE IF name \in {"zeh", "termh"} THEN Levels \ {Bottom}
                       ELSE Levels
  IN  Op((UNION {Term(name, s, Levels3(name), Rows, Cols) : name \in names}) \cup DryMass(s),
         (UNION {DeviceTerm(TRUE, name, s, Levels3(name), Rows, Cols) : name \in names})
           \cup DeviceTerm(TRUE, "dry_mass", s, Levels, Rows, Cols)
           \cup (At(<<"device_cch", 0>>, {0}, Rows, Cols)
                   \cup At(<<"device_zeh", 0>>, {Bottom}, Rows, Cols)
                   \cup At(<<"device_termh", 0>>, {Bottom}, Rows, Cols)) \X {Garbage}
           \cup Global("start_level", s))
UploadConvection(s) ==
  Op(UNION {Field(name, s) : name \in ConvectionPlanNames(TRUE)},
     UNION {DeviceTerm(TRUE, name, s, Levels, Rows, Cols) : name \in ConvectionPlanNames(TRUE)})

Contexts(s, blocks, single, uploaded) ==
  [b \in 1..blocks |-> CudaContext(s, b, single, uploaded)]

\* CudaRunExecutor.apply, on a step the host prepared.
ApplyUploaded(s, blocks, single, flux) ==
  <<UploadTpcore(s), UploadVdiff(s), UploadConvection(s)>>
    \o ApplyCudaStep(Contexts(s, blocks, single, TRUE), flux)

\* CudaRunExecutor.apply_resident.
ApplyResident(s, blocks, single, flux) ==
  <<CudaForcing(s)>> \o PrepareTpcoreStep(s, single) \o PrepareVdiffAndConvection(s, single)
    \o <<SurfaceFlux(s, 1..blocks)>>
    \o ApplyCudaStep(Contexts(s, blocks, single, FALSE), flux)

\* What a resident step reports beside the tracers.
ReportedResident(s) ==
  UNION {Field(name, s) : name \in {"dry_mass", "delp2", "sphu_after"}}
=================================================================================
