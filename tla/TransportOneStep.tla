---------------------------- MODULE TransportOneStep ---------------------------
(***************************************************************************)
(* One transport step over the blocks one after the other (transport/      *)
(* driver.py), without a resident executor.  Each call prepares everything *)
(* again and works in buffers that belong to the thread, so what a call    *)
(* returns may live where the next call writes.                            *)
(*                                                                         *)
(* A job record says how: job.compiled, job.consume (the caller gives the  *)
(* input array away), job.blocks, job.flux.                                *)
(***************************************************************************)
EXTENDS TransportReference

(***************************************************************************)
(* pbl/_reference.py: run_vdiffdr_one_step, a latitude at a time.          *)
(***************************************************************************)
RowPiece(name, c, j) == Piece(name, 0, <<name, c.s, c.b, j>>)
Flux(c) == Piece("surface_flux", c.b, <<"surface_flux", c.s, c.b>>)
Row(name, c, j) == Term(name, c.s, Levels, {j}, Cols)

RefVdiffSetup(s) ==
  Op((UNION {Field(name, s) : name \in {"t", "pmid", "tv", "bxheight"}})
       \cup Term("pint", s, Edges, Rows, Cols),
     UNION {Field(name, s) : name \in {"ref_thp", "ref_zm", "ref_rpdel", "ref_rpdeli"}})

RefFreeDiffusivity(c, j) ==
  Op(UNION {Row(name, c, j) : name \in {"u", "v", "ref_thp", "sphu", "ref_zm"}},
     RowPiece("ref_kvf", c, j))
\* The diffusivities start as copies of the free atmosphere's.
RefPblDiffusivity(c, j) ==
  Op(RowPiece("ref_kvf", c, j) \cup Flux(c) \cup Term("surface_met", c.s, {0}, {j}, Cols)
       \cup UNION {Row(name, c, j) : name \in {"ref_thp", "sphu", "ref_zm", "t", "pmid"}},
     RowPiece("ref_kvh", c, j) \cup RowPiece("ref_cg", c, j))
RefPotbar(c, j) ==
  Op(Term("pint", c.s, Edges, {j}, Cols) \cup Row("t", c, j), RowPiece("ref_potbar", c, j))
RefCountergradientTracers(c, tracer, j) ==
  Op(Hold(tracer, Levels, {j}, Cols, "mixing_ratio", c) \cup Row("ref_rpdel", c, j)
       \cup UNION {RowPiece(name, c, j) : name \in {"ref_potbar", "ref_kvh", "ref_cg"}},
     RowPiece("ref_qmx", c, j))
RefCountergradientScalar(c, j) ==
  Op(Row("sphu", c, j) \cup Row("ref_rpdel", c, j)
       \cup UNION {RowPiece(name, c, j) : name \in {"ref_potbar", "ref_kvh", "ref_cg"}},
     RowPiece("ref_shmx", c, j))
RefDiffusionCoefficients(c, j) ==
  Op(RowPiece("ref_kvh", c, j) \cup RowPiece("ref_potbar", c, j)
       \cup Row("ref_rpdel", c, j) \cup Row("ref_rpdeli", c, j),
     RowPiece("ref_coefficients", c, j))
RefQvdiff(c, j, from, to) ==
  Op(RowPiece(from, c, j) \cup RowPiece("ref_coefficients", c, j)
       \cup (IF from = "ref_qmx" THEN Flux(c)
             ELSE Term("surface_met", c.s, {0}, {j}, Cols)),
     RowPiece(to, c, j))
RefRescale(c, tracer, out, j) ==
  Op(Hold(tracer, Levels, {j}, Cols, "mixing_ratio", c) \cup Flux(c)
       \cup RowPiece("ref_diffused", c, j) \cup Fresh("dry_mass", c.s, Levels, {j}, Cols),
     Hold(out, Levels, {j}, Cols, "diffused", c))
RefHumidity(c, j) ==
  Op(RowPiece("ref_sphu", c, j), Term("sphu_after", c.s, Levels, {j}, Cols))

\* _run_vdiff_latitude.
RefVdiffLatitude(c, tracer, out, j) ==
  FusedAll(<<
    RefFreeDiffusivity(c, j), RefPblDiffusivity(c, j), RefPotbar(c, j),
    RefCountergradientTracers(c, tracer, j), RefCountergradientScalar(c, j),
    RefDiffusionCoefficients(c, j), RefQvdiff(c, j, "ref_qmx", "ref_diffused"),
    RefRescale(c, tracer, out, j), RefQvdiff(c, j, "ref_shmx", "ref_sphu"),
    RefHumidity(c, j)>>)

RefVdiff(c, tracer, out) ==
  <<RefVdiffSetup(c.s)>> \o OverRows(Rows, LAMBDA j : RefVdiffLatitude(c, tracer, out, j))

(***************************************************************************)
(* convection/_reference.py: columns with the same cloud base are gathered *)
(* into one array, convected, and scattered back.  The groups are data:    *)
(* here the columns of each longitude.                                     *)
(***************************************************************************)
RefColumns(c, columns, name) ==
  UNION {Hold(c.q, Levels, {x[1]}, {x[2]}, name, c) : x \in columns}
RefConvectGroup(c, columns, internal_steps) ==
  LET work(n) == Piece("ref_group", 0, <<"ref_group", c.s, c.b, columns, n>>)
      met == UNION {ConvectionMet(c.s, x[1], x[2]) : x \in columns}
  IN  FusedAll(<<Op(RefColumns(c, columns, "diffused"), work(0))>>
        \o [n \in 1..internal_steps |-> Op(work(n - 1) \cup met, work(n))]
        \o <<Op(work(internal_steps), RefColumns(c, columns, "convected"))>>)

CopyDiffused(c, from) ==
  Op(Hold(from, Levels, Rows, Cols, "diffused", c),
     Hold(c.q, Levels, Rows, Cols, "diffused", c))

\* run_cloud_convection_one_step: in place on a consumed input, else on a copy.
RefConvection(c, diffused, internal_steps) ==
  (IF diffused = c.q THEN <<>> ELSE <<CopyDiffused(c, diffused)>>)
    \o [m \in 1..NLon |-> RefConvectGroup(c, Rows \X {m - 1}, internal_steps)]

(***************************************************************************)
(* The compiled operators of one block.                                    *)
(***************************************************************************)
\* _advect_tracers_fused_numba copies an input that is not consumed.
CopyInput(c, input) ==
  IF c.q = input THEN <<>>
  ELSE <<Op(Hold(input, Levels, Rows, Cols, "convected", Before(c)),
            Hold(c.q, Levels, Rows, Cols, "convected", Before(c)))>>

\* _finalize_deferred_tpcore_poles_numba_kernel, a level an iteration.
FinalizeDeferredPoles(c, w, k) ==
  Op(Hold(c.dq, {k}, PoleRows, Cols, "advected", c) \cup Term("delp2", c.s, {k}, PoleRows, Cols),
     Hold(c.dq, {k}, CapRows, Cols, "mixing_ratio", c))

\* run_vdiff_one_block_compiled: masses become mixing ratios in a copy; the
\* finalized rows are copied as they are.
ConvertMass(c) ==
  Op(AdvectedMass(c, TRUE, Levels, Rows \ CapRows, Cols)
       \cup Term("delp2", c.s, Levels, Rows \ CapRows, Cols)
       \cup Hold(c.dq, Levels, CapRows, Cols, "mixing_ratio", c),
     Hold(<<"vdiff_input", 0>>, Levels, Rows, Cols, "mixing_ratio", c))

\* The output goes to the array the caller gave away, else to the workspace.
VdiffOut(job, input) == IF job.consume THEN input ELSE <<"vdiff_out", 0>>

(* Mutated: the input is advected in place whether or not it was given away. *)
AdvectContextInPlace(job, s, b, input) ==
  [s |-> s, b |-> b, cap |-> 0, courant |-> FALSE, q |-> input, dq |-> <<"tpcore_dq", 0>>,
   qqu |-> <<"tpcore_qqu", 0>>, qqv |-> <<"tpcore_qqv", 0>>]
AdvectContext(job, s, b, input) ==
  [s |-> s, b |-> b, cap |-> 0, courant |-> FALSE,
   q  |-> IF job.consume THEN input ELSE <<"tpcore_q", 0>>, dq |-> <<"tpcore_dq", 0>>,
   qqu |-> <<"tpcore_qqu", 0>>, qqv |-> <<"tpcore_qqv", 0>>]
VdiffContext(job, s, b, input) ==
  [AdvectContext(job, s, b, input) EXCEPT !.dq = <<"vdiff_input", 0>>,
                                          !.q = VdiffOut(job, input)]

CompiledAdvection(team, c, input) ==
  [n \in 1..Len(CopyInput(c, input)) |-> Once(team, CopyInput(c, input)[n])]
    \o <<Loop(team, Levels, LAMBDA w, k : SetCrossTermsLevel(c, w, k)),
         Once(team, SetJnJs(c))>>
    \o AdvectTracersFused(team, c, TRUE, FALSE)
CompiledColumns(team, c, v, flux, internal_steps) ==
  <<Loop(team, Levels, LAMBDA w, k : FinalizeDeferredPoles(c, w, k)),
    Once(team, ConvertMass(c))>>
    \o PrepareVdiffMetPlan(team, c.s) \o ApplyVdiffBlock(team, v, TRUE, FALSE, flux)
    \o ConvectBlock(team, v, internal_steps)

(***************************************************************************)
(* The driver.                                                             *)
(***************************************************************************)
\* Where the tracers of block b are when step s has returned.  One preserved
\* block stays where the operators left it; several are copied to an array of
\* the step's own.
(* Mutated: several blocks stay there as well. *)
PreservedAlways(job) == TRUE
Preserved(job) == job.blocks = 1
BlockResult(job, s, b, input) ==
  IF job.compiled THEN VdiffOut(job, input) ELSE <<"ref_convected", <<s, b>>>>
State(job, b) ==
  LET after[s \in Nat] == IF s = 0 THEN <<"input", b>>
                          ELSE IF Preserved(job) THEN BlockResult(job, s, b, after[s - 1])
                          ELSE <<"state", <<s, b>>>>
  IN  after

\* _run_tpcore_one_step_from_mass for one block.
OneBlock(team, job, s, b, input, internal_steps) ==
  LET serial(ops) == [n \in 1..Len(ops) |-> Once(team, ops[n])]
      c == AdvectContext(job, s, b, input)
      v == VdiffContext(job, s, b, input)
      r == [v EXCEPT !.q = <<"ref_convected", <<s, b>>>>]
      before == serial(<<Forcing(s), StartingPressure(s)>> \o SetupTpcoreTerms(s))
      after == serial(<<NextDryMass(s), VdiffInputs(s), SurfaceFlux(s, {b})>>)
  IN  IF job.compiled
      THEN before \o CompiledAdvection(team, c, input) \o after
             \o CompiledColumns(team, c, v, job.flux, internal_steps)
      ELSE before \o serial(RefAdvectTracers(c, input, <<"ref_mixing", 0>>)) \o after
             \o serial(RefVdiff(c, <<"ref_mixing", 0>>, <<"ref_diffused_out", 0>>))
             \o serial(RefConvection(r, <<"ref_diffused_out", 0>>, internal_steps))

\* run_transport_one_step.
CopyOut(job, s, b, from) ==
  LET c == [s |-> s, b |-> b]
  IN  Op(Hold(from, Levels, Rows, Cols, "convected", c),
         Hold(<<"state", <<s, b>>>>, Levels, Rows, Cols, "convected", c))
RunTransportOneStep(team, job, s, internal_steps) ==
  LET input(b) == State(job, b)[s - 1]
  IN  FlattenSeq([b \in 1..job.blocks |->
        OneBlock(team, job, s, b, input(b), internal_steps)
          \o (IF Preserved(job) THEN <<>>
              ELSE <<Once(team, CopyOut(job, s, b, BlockResult(job, s, b, input(b))))>>)])

(***************************************************************************)
(* trace_transport_one_step: the same operators, each with an output of    *)
(* its own, which the trace hands over.                                    *)
(***************************************************************************)
TracedState(s) == IF s = 0 THEN <<"input", 1>> ELSE <<"traced_convected", s>>
(* Mutated: the traced advection returns the thread's own buffer. *)
TraceContextShared(s) ==
  [s |-> s, b |-> 1, cap |-> 0, courant |-> FALSE,
   q |-> <<"traced_q", s>>, dq |-> <<"tpcore_dq", 0>>,
   qqu |-> <<"tpcore_qqu", 0>>, qqv |-> <<"tpcore_qqv", 0>>]
TraceContext(s) ==
  [s |-> s, b |-> 1, cap |-> 0, courant |-> FALSE,
   q |-> <<"traced_q", s>>, dq |-> <<"traced_mixing", s>>,
   qqu |-> <<"tpcore_qqu", 0>>, qqv |-> <<"tpcore_qqv", 0>>]

TraceTransportOneStep(team, job, s, internal_steps) ==
  LET serial(ops) == [n \in 1..Len(ops) |-> Once(team, ops[n])]
      c == TraceContext(s)
      v == [c EXCEPT !.q = <<"traced_diffused", s>>]
      x == [c EXCEPT !.q = TracedState(s)]
  IN  serial(<<Forcing(s), StartingPressure(s)>> \o SetupTpcoreTerms(s)
               \o CopyInput(c, TracedState(s - 1)))
        \o <<Loop(team, Levels, LAMBDA w, k : SetCrossTermsLevel(c, w, k)),
             Once(team, SetJnJs(c))>>
        \o AdvectTracersFused(team, c, TRUE, TRUE)
        \o serial(<<NextDryMass(s), VdiffInputs(s), SurfaceFlux(s, {1})>>)
        \o PrepareVdiffMetPlan(team, s) \o ApplyVdiffBlock(team, v, TRUE, FALSE, job.flux)
        \o serial(<<CopyDiffused(x, v.q)>>) \o ConvectBlock(team, x, internal_steps)

\* The arrays a trace of step s hands over.
Handoffs(s) ==
  LET c == [s |-> s, b |-> 1]
  IN  Hold(TraceContext(s).dq, Levels, Rows, Cols, "mixing_ratio", c)
        \cup Hold(<<"traced_diffused", s>>, Levels, Rows, Cols, "diffused", c)
        \cup Hold(TracedState(s), Levels, Rows, Cols, "convected", c)

\* run_transport_window adds every step to a sum before it takes the next.
Accumulated(s) == Piece("state_sum", 0, <<"state_sum", s>>)
Accumulate(job, s) ==
  Op((IF s = 1 THEN {} ELSE Accumulated(s - 1)) \cup DryMass(s) \cup Field("delp_end", s)
       \cup UNION {Hold(State(job, b)[s], Levels, Rows, Cols, "convected",
                        [s |-> s, b |-> b]) : b \in 1..job.blocks},
     Accumulated(s))
===============================================================================
