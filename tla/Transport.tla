------------------------------- MODULE Transport -------------------------------
(***************************************************************************)
(* A transport job over several steps: the resident CPU executor with its  *)
(* three policies (transport/_executor.py), the one-step driver (transport *)
(* /driver.py) with compiled and with NumPy operators, the traced step,    *)
(* and the CUDA executor (cuda/executor.py) with plans made on the device  *)
(* or uploaded.  The workers of a parallel loop interleave operation by    *)
(* operation; between loops the team waits.                                *)
(*                                                                         *)
(* The executor keeps the tracers in two buffers per block.  A step reads  *)
(* state_a, advects its masses into state_b, and diffuses back into        *)
(* state_a, where convection works in place.  What numba indexes by        *)
(* get_thread_id() is owned by the worker, what the code indexes by the    *)
(* block by the block.                                                     *)
(***************************************************************************)
EXTENDS TransportOneStep, CudaTransport

CONSTANTS
  Jobs,           \* the jobs to run: see JobRecord
  NSteps,         \* transport steps a job runs
  InternalSteps   \* convection steps inside a transport step

\* compiled and consume tell the one-step jobs apart, single the CUDA jobs.
JobRecord == [execution : {"blocks", "serial", "spatial", "one_step", "trace",
                           "cuda", "cuda_upload"},
              workers : Nat \ {0}, blocks : Nat \ {0}, flux : BOOLEAN,
              compiled : BOOLEAN, consume : BOOLEAN, single : BOOLEAN]

ASSUME JobsAssumption == Jobs \subseteq JobRecord /\ IsFiniteSet(Jobs)
ASSUME StepsAssumption == NSteps \in Nat \ {0} /\ InternalSteps \in Nat \ {0}

VARIABLES
  job,      \* the job being run
  step,     \* the step it is at
  region,   \* the region of the step's program the team is in, 0 when it has returned
  done,     \* how many of its operations of that region each worker has done
  store     \* what the arrays hold: a set of cells with their values

vars == <<job, step, region, done, store>>

(***************************************************************************)
(* The executor.                                                           *)
(***************************************************************************)
TeamOf(j) == [t \in 1..j.workers |-> t]

\* The polar flux rows are the block's; the spatial policy, which takes the
\* blocks in turn, has one set of them.
(* Mutated: one set of polar flux rows for all blocks. *)
ExecutorContextShared(j, s, b) ==
  [s |-> s, b |-> b, courant |-> TRUE, cap |-> 0,
   q |-> <<"state_a", b>>, dq |-> <<"state_b", b>>,
   qqu |-> <<"qqu", b>>, qqv |-> <<"qqv", b>>]
ExecutorContext(j, s, b) ==
  [s |-> s, b |-> b, courant |-> TRUE, cap |-> IF j.execution = "spatial" THEN 0 ELSE b,
   q |-> <<"state_a", b>>, dq |-> <<"state_b", b>>,
   qqu |-> <<"qqu", b>>, qqv |-> <<"qqv", b>>]

\* Each block counts the negative values it met.
BlockCount(s, b) == Piece("negative_counts", b, <<"negative_counts", s, b>>)
CountNegatives(c) ==
  Op(Hold(c.q, Levels, Rows, Cols, "convected", c), BlockCount(c.s, c.b))
StepCount(s) == Piece("negative_count", 0, <<"negative_count", s>>)

\* _one_block_transport_step_serial, on worker w.
OneBlockSerial(w, j, s, b) ==
  LET c == ExecutorContext(j, s, b)
  IN  AdvectOneBlockSerial(w, c, TRUE, FALSE)
        \o Alone(ApplyVdiffBlock(<<w>>, c, TRUE, TRUE, j.flux)
                   \o ConvectBlock(<<w>>, c, InternalSteps))
        \o <<CountNegatives(c)>>

\* _multi_block_transport_step_impl: the loop over blocks, whose iterations
\* are as long as a whole step.
LoopOverBlocks(team, j, s) ==
  LET shares == Shares(1..j.blocks, Len(team))
  IN  [t \in 1..Len(team) |->
        FlattenSeq([x \in 1..Len(shares[t]) |-> OneBlockSerial(team[t], j, s, shares[t][x])])]

\* _one_block_transport_step_spatial: every kernel on the whole team.
OneBlockSpatial(team, j, s, b) ==
  LET c == ExecutorContext(j, s, b)
  IN  AdvectTracersFused(team, c, TRUE, FALSE) \o ApplyVdiffBlock(team, c, TRUE, TRUE, j.flux)
        \o ConvectBlock(team, c, InternalSteps) \o <<Once(team, CountNegatives(c))>>

\* The parallel loop is one region; what the first worker does alone, an
\* operation at a time, leaves the others waiting.
LoopRegions(team, loop) ==
  IF Len(loop) = Len(team) THEN <<loop>>
  ELSE [n \in DOMAIN loop[1] |-> Once(team, loop[1][n])]

\* apply_transport.
ApplyTransport(team, j, s) ==
  (IF j.execution = "spatial"
   THEN FlattenSeq([b \in 1..j.blocks |-> OneBlockSpatial(team, j, s, b)])
   ELSE LoopRegions(team, LoopOverBlocks(IF j.execution = "serial" THEN <<team[1]>> ELSE team,
                                         j, s)))
    \o <<Once(team, Op(UNION {BlockCount(s, b) : b \in 1..j.blocks}, StepCount(s)))>>

(***************************************************************************)
(* What a job does in step s, and where its tracers are when it has.       *)
(***************************************************************************)
\* The launches of the device's stream follow one another.
OnDevice(team, launches) == [n \in 1..Len(launches) |-> Once(team, launches[n])]

StepProgram(j, s) ==
  LET team == TeamOf(j)
  IN  CASE j.execution = "one_step" ->
             RunTransportOneStep(team, j, s, InternalSteps)
               \o (IF j.consume THEN <<>> ELSE <<Once(team, Accumulate(j, s))>>)
        [] j.execution = "trace" -> TraceTransportOneStep(team, j, s, InternalSteps)
        [] j.execution = "cuda" ->
             OnDevice(team, ApplyResident(s, j.blocks, j.single, j.flux))
        [] j.execution = "cuda_upload" ->
             PrepareTransportStep(team, s, 1..j.blocks)
               \o OnDevice(team, ApplyUploaded(s, j.blocks, j.single, j.flux))
        [] OTHER -> PrepareTransportStep(team, s, 1..j.blocks) \o ApplyTransport(team, j, s)

\* The programs with their jobs and steps; folded together, so that TLC keeps them.
Programs ==
  FoldSet(LAMBDA x, laid : laid \cup {<<x[1], x[2], StepProgram(x[1], x[2])>>}, {},
          Jobs \X (1..NSteps))

TracersAt(j, s, b) ==
  CASE j.execution = "one_step" -> State(j, b)[s]
    [] j.execution = "trace" -> TracedState(s)
    [] OTHER -> <<"state_a", b>>

Tracers(j, s) ==
  UNION {Hold(TracersAt(j, s, b), Levels, Rows, Cols, "convected", [s |-> s, b |-> b]) :
           b \in 1..j.blocks}

\* What a job carries from step to step beside its tracers.
Carried(j, s) == IF j.execution = "cuda" THEN CurrentDry(s, Rows, Cols) ELSE DryMass(s)

(***************************************************************************)
(* The system.                                                             *)
(***************************************************************************)
Program == (CHOOSE x \in Programs : x[1] = job /\ x[2] = step)[3]
Finished == region = 0

\* The operation that worker w is about to do, none if it has done its share.
Nth(share, n) == IF n \in DOMAIN share THEN {share[n]} ELSE {}
InHand(w) == IF Finished THEN {} ELSE Nth(Program[region][w], done[w] + 1)

\* What the operation leaves: its terms, or garbage if an operand was wrong.
After(op) ==
  LET made == CellsOf(op.sets)
  IN  {p \in store : p[1] \notin made}
        \cup (IF op.needs \subseteq store THEN op.sets ELSE made \X {Garbage})

Init ==
  /\ job \in Jobs
  /\ step = 1
  /\ region = 1
  /\ done = [w \in 1..job.workers |-> 0]
  /\ store = Tracers(job, 0) \cup Carried(job, 0)

\* Worker w does its next operation.
Perform(w) ==
  \E op \in InHand(w) :
    /\ store' = After(op)
    /\ done' = [done EXCEPT ![w] = @ + 1]
    /\ UNCHANGED <<job, step, region>>

\* The region that follows, or the return of the step.
NextRegion == (region + 1) % (Len(Program) + 1)

(* Mutated: the counts of the last region are kept. *)
JoinKeepingCounts ==
  /\ ~Finished
  /\ \A w \in DOMAIN done : InHand(w) = {}
  /\ region' = NextRegion
  /\ UNCHANGED <<job, step, done, store>>

\* All have finished the region: the team goes on to the next.
Join ==
  /\ ~Finished
  /\ \A w \in DOMAIN done : InHand(w) = {}
  /\ region' = NextRegion
  /\ done' = [w \in DOMAIN done |-> 0]
  /\ UNCHANGED <<job, step, store>>

\* The step has returned and the caller begins the next.
NextStep ==
  /\ Finished
  /\ step < NSteps
  /\ step' = step + 1
  /\ region' = 1
  /\ UNCHANGED <<job, done, store>>

Ended == Finished /\ step = NSteps /\ UNCHANGED vars

Next ==
  \/ \E w \in DOMAIN done : Perform(w)
  \/ Join
  \/ NextStep
  \/ Ended

Spec == Init /\ [][Next]_vars

(***************************************************************************)
(* What must hold.                                                         *)
(***************************************************************************)
\* Every worker is inside its share of the region, and a cell holds one value.
TypeOK ==
  /\ job \in Jobs
  /\ step \in 1..NSteps
  /\ region \in 0 .. Len(Program)
  /\ DOMAIN done = 1..job.workers
  /\ Finished => \A w \in DOMAIN done : done[w] = 0
  /\ Cardinality(CellsOf(store)) = Cardinality(store)

\* No two workers of a parallel loop ever have operations in hand of which one
\* writes what the other reads or writes: scratch by worker or by block, and
\* the rows, columns and levels the loops are cut into, keep them apart.
RaceFree ==
  \A v, w \in DOMAIN done :
    v # w => \A mine \in InHand(v), other \in InHand(w) :
      CellsOf(mine.sets) \cap (CellsOf(other.sets) \cup CellsOf(other.needs)) = {}

\* Nothing is ever read that is not the term, of this step, block and level,
\* that the reader takes it for: no scratch another iteration left, no plan
\* array of the last step, no row that a kernel left out.
OperandsCurrent ==
  \A w \in DOMAIN done : \A op \in InHand(w) : op.needs \subseteq store

\* When a step returns, the array it returns holds this step's tracers for
\* every block, with the dry mass, pressures and humidity reported with them.
StepDelivers ==
  Finished =>
    /\ Tracers(job, step) \cup Carried(job, step) \subseteq store
    /\ (IF job.execution = "cuda" THEN ReportedResident(step) ELSE Reported(step)) \subseteq store
    /\ (job.execution \notin {"one_step", "trace"}) => StepCount(step) \subseteq store
    /\ (job.execution = "one_step" /\ ~job.consume) => Accumulated(step) \subseteq store

\* A caller that does not give its array away finds it as it was, however
\* many steps follow.
InputPreserved ==
  (job.execution = "trace" \/ (job.execution = "one_step" /\ ~job.consume)) =>
    Tracers(job, 0) \subseteq store

\* The tracer arrays a trace handed over stay what they were while later
\* steps are traced.
HandoffsKept ==
  job.execution = "trace" =>
    \A s \in 1 .. (IF Finished THEN step ELSE step - 1) : Handoffs(s) \subseteq store
===============================================================================
