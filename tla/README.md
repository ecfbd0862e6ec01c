# Wombat-Transport in TLA+

A verification project for the Wombat-Transport model (`src/src/wombat_transport`,
called `wt/` below): TLA+ modules of the parts of the program that keep state, the
TLC configurations that check them on small instances, and TLAPS proofs of what
holds for every instance.

## 1. Inventory of the system

Wombat-Transport is an offline tracer transport model: meteorology and surface
emissions go in, concentrations on a grid come out.  One process runs one
simulation; a campaign is a chain of runs, each starting from files left by the
one before.

| part | state it keeps | operations | talks to |
|---|---|---|---|
| **Run loop** `runner.py` | model time, prefetched next host step (CUDA), ExitStack of managers to close | one iteration per transport step; CUDA batch boundary; unwinding | everything below |
| **ObsOperator manager** `obsoperator/manager.py` | plan, position, first unexpired entry, current input and output path, queued CUDA samples, detached CUDA outputs | `sample`, `launch_cuda_sample`, `detach_cuda_samples`, `write_detached_cuda_outputs`, `requires_cuda_flush_before`, `close` | run loop, plan, writer, sampler, restart files |
| **Packed plan** `obsoperator/state.py` | (values) entries in completion order: windows, accumulators, samples | validate, completed prefix, compact, merge, completed batch | manager, kernels |
| **Sampling** `obsoperator/sampling.py`, `sampling_cuda.py` | CUDA: device copy of the accumulators, error flag | accumulate a step, synchronise, invalidate | plan, manager |
| **Input** `obsoperator/input.py` | none | parse time and spatial operators of one file | manager |
| **ObsOperator restart** `obsoperator/restart.py` | a NetCDF file per boundary, replaced atomically | write, read with compatibility checks | manager, later runs |
| **Science writer** `obsoperator/writer.py` | staged batches, field registry, row counters, open file | `write_completed`, `flush`, `close` | manager |
| **HISTORY output** `output.py`, `history_accumulation.py`, `cuda/history.py` | sums and counts of averaging windows, open group files, detached windows, the prepared step | `prepare_step`, `complete_step`, `detach_cuda_step`, `write_detached_cuda_outputs`, `close` | run loop |
| **Forcing provider** `transport/forcing.py`, `cuda/forcing.py` | cached blocks of hourly, 3-hourly and instantaneous fields; device mirrors recognised by identity | fields for a step | run loop, driver |
| **Emissions** `emissions.py` | caches keyed by selection time | flux at a time, pruning | run loop |
| **Transport driver and executor** `transport/driver.py`, `_executor.py`, `numba_control.py`, `fields.py` | tracer blocks in two buffers, scratch per worker, workspaces per thread, process-wide thread setting | one transport step; one-step and traced calls | run loop, numerics |
| **CUDA execution** `cuda/` | device fields, plans, resident flux, a queue of launches | upload, prepare, step, download | run loop |
| **Numerics** `tpcore/`, `pbl/`, `convection/`, `pjc.py` | plan arrays and scratch, rewritten by every step | advection, mixing, convection | driver, executor |
| **Configuration, I/O, harnesses** | none | parse, compare | |

### What is hard, and what makes each part correct

* **Run loop and ObsOperator.**  An observation is a weighted sum of
  concentrations over one or more time windows.  It has to be the same number,
  in the same file, once, however the campaign is cut into runs, whichever
  backend a run uses, wherever the loop ends a CUDA batch, and whatever fails
  between two steps.  Accumulators travel through host memory, device memory,
  restarts, compaction and merges with new input; completed entries are written
  a batch later than they complete.
* **Science writer.**  Batches straddle two staging limits, a flush consists of
  five writes and may fail between them, and is then repeated with more entries.
* **HISTORY output.**  Several collections share a step; window ends, group
  changes and restarts coincide; on CUDA windows are written a batch later.  Sums
  and counts must agree also when one collection fails.
* **Forcing.**  A step reads two records of each kind; blocks end between
  them.  The mirrors on the device must never be those of an evicted chunk.
* **Emissions.**  The schedule must fire once per emission interval for every
  pair of step lengths that is accepted, and the caches must not outlive their
  selection.
* **Executor and numerics.**  Some ninety arrays are written by one loop and read by
  others, many of them twice in a step with different contents; workers share scratch by
  thread and state by block; rows next to the poles are finished by a later operator than
  the others; on the device the lanes of a warp share four rows of memory.  Every
  operand has to be the term it is taken for, of this step, whatever order workers and
  threads run in.  Mass conservation and positivity are properties of floating point
  arithmetic and are out of a model checker's reach.

The hazards are listed with their lines in `PROJECT.json`; each names the
properties that cover it.

## 2. Plan

| modules | state |
|---|---|
| `ObsPlan` (pure algorithms of the plan), `ObsOperatorManager` (manager, run loop as it sees it, restart and output files) | checked |
| `ObsOperatorInvariant`, `ObsOperatorManager_proofs` (outputs complete and written once, restarts exact, nothing lost; a continued run leaves older output alone; a time operator samples the steps that the guide states) | proved |
| `ObsPacking`, `ObsPackedPlan` (the flat arrays under the plan, both sampling kernels) | checked |
| `ObsPacking_proofs` (the arrays and both kernels do what is said of the entries; times and places of a file) | proved |
| `ObsPromise`, `ObsOperatorRefinement` (abstract specification, refinement) | checked; proved in `ObsOperatorManager_proofs` |
| `ObsTimes`, `ObsInput` (times and places of an input file, as the runs of a campaign read them) | checked; proved in `ObsPacking_proofs` |
| `ObsWriter` (staging, flushing, files) | checked |
| `ObsWriter_proofs` (the file is what was handed over) | proved |
| `HistoryOutput` (windows, group files, restart writer, detached windows) | checked |
| `HistoryOutput_proofs` (files in order and complete, restarts exact) | proved |
| `ForcingBlocks`, `EmissionSource`, composed in `RunInputs` with the run loop and the device's queue | checked |
| `RunInputs_proofs` (every step taken, with the records and the flux of its time; mirrors, caches) | proved |
| `TransportCells`, `TpcoreKernels`, `ColumnKernels`, `TpcorePreparation`, `TransportReference`, `TransportOneStep`, `CudaPreparation`, `CudaTransport`, composed in `Transport` | checked |
| `Transport_proofs` (no races, callers' inputs preserved) | proved |
| `TransportFlow_proofs` (resident jobs find every operand and deliver every step) | proved |

What could follow: one model of HISTORY, ObsOperator and the inputs under the one loop (here each
sees the reasons of the others for ending a batch as a free choice); the proofs of
`OperandsCurrent` for the one-step driver and the device, and of the handoffs of a trace.

## 3. Modules

| module | models |
|---|---|
| `ObsPlan` | `state.py`, the time test of `sampling.py`, entries as `input.py` builds them |
| `ObsPacking`, `ObsPackedPlan` | the arrays of `state.py`, how `input.py` fills them, the loops of `sampling.py`, `sampling_cuda.py` and `sources/obsoperator.cu` over them |
| `ObsOperatorManager` | `manager.py`, `runner.py` as far as ObsOperator is concerned, `sampling_cuda.py`, what `restart.py` keeps, `writer.py` with its limits abstracted |
| `ObsPromise`, `ObsOperatorRefinement` | what the science files promise to a reader; the manager implements it |
| `ObsTimes`, `ObsInput` | the time and horizontal operators of `input.py`, the two grids of `grid.py` |
| `ObsWriter` | `writer.py` |
| `HistoryOutput` | `output.py`'s manager, collections and restart writers, the sums of `history_accumulation.py`, and the run loop as HISTORY sees it |
| `ForcingBlocks` | the provider of `transport/forcing.py` |
| `EmissionSource` | `emissions.py`, the schedule of `runner.py` |
| `RunInputs` | `runner.py`'s loop on either backend, `cuda/forcing.py`, the residency in `cuda/executor.py` |
| `TransportCells` | grid, cells, operations, parallel loops |
| `TpcoreKernels` | `tpcore/_kernels.py`, `tpcore/_operator.py` |
| `ColumnKernels` | `pbl/_plan.py`, `pbl/_kernels.py`, `convection/_operator.py` |
| `TpcorePreparation` | `tpcore/_preparation.py`, `tpcore/_plan.py`, `pjc.py`, the preparation in `driver.py` |
| `TransportReference` | `tpcore/_reference.py`, the NumPy paths of `pjc.py` |
| `TransportOneStep` | the one-step and the traced driver of `driver.py`; `pbl/_reference.py`, `convection/_reference.py` |
| `CudaPreparation`, `CudaTransport` | `cuda/preparation.py`, `cuda/transport_step.py`, `tpcore/_cuda.py`, `pbl/_cuda.py`, `convection/_cuda.py` and their `.cu` sources |
| `Transport` | `_executor.py`, and jobs over all of these |
| `MC...` | instances for TLC |
| `ObsOperatorInvariant` | the inductive invariants of `ObsOperatorManager`: `IInv`, `Emission`, `Keeping` |
| `ProofLemmas` | lemmas on numbers, sequences and recursive functions that several proofs use |
| `ObsOperatorManager_proofs`, `ObsPacking_proofs`, `ObsWriter_proofs`, `HistoryOutput_proofs`, `RunInputs_proofs`, `Transport_proofs`, `TransportFlow_proofs` | theorems and proofs |

Operators whose comment starts with "Mutated" are plausible bugs; each replaces the
definition below it in a mutation run, and no specification uses them.

### ObsPlan

Times are counted in transport steps: step `t` covers `[t, t+1)`, and `t` is also the
boundary before it.  The code enforces that every bound it stores is a whole number
of steps (`input.py:361`, `restart.py:227`).

The float64 accumulator is replaced by what has been added to it: `acc[c, s]` counts
how often component `c` of an entry's time operator has contributed step `s`.  The
sampled value is linear in these counts, so equal counts mean equal observations, and
a lost, doubled or foreign contribution cannot cancel out.

| definition | code |
|---|---|
| `Covers`, `Accumulate`, `SamplePlan` | the time test and the accumulation of the sampling kernel, from `first_unexpired` on |
| `CompletedPrefix` | `searchsorted(entry_end_us, boundary, "right")` |
| `CompactPlan`, `ClampWindows` | `compact_obs_plan`: completed entries go, windows that have begun start at the boundary |
| `StableSorts` | the stable sort of `input.py` and the merge of `merge_obs_plans` (left first on ties) |
| `UniqueIds` | the check for duplicate ids among active entries |

### ObsOperatorManager

The variables correspond to the manager's attributes (`position` is `_position_us`,
`plan` is `_plan`, `first` is `_plan.first_unexpired`, `pending` is
`_pending_cuda_samples`, `detached` is `_detached_cuda_outputs`, ...), to the run loop's
locals (`current`, `stop`, `last`), to the sampler's device copy (`device`,
`flagged`) and to the disk (`science`, `restarts`).

A run begins with `Open(t, end)`: at the first boundary, or at one that has a restart,
on either backend.  Its end is free, so every way to cut the campaign into runs,
to repeat one and to overlap them is a behaviour.

| action | code |
|---|---|
| `Sample`, `Advance` | CPU: `sample` (initialise for the date, select the output path, accumulate, write the completed batch, advance), then HISTORY and the model time |
| `Launch` | CUDA: `launch_cuda_sample` |
| `StepEndCuda` | prefetch of the next host step and `_cuda_batch_requires_completion`; `other` stands for the reasons HISTORY, emissions and forcing have for ending a batch |
| `DrainOne`, `DrainDone` | `write_detached_cuda_outputs`, an action per iteration |
| `Detach`, `DetachRaises` | `detach_cuda_samples`; raises when the synchronisation finds the error flag |
| `Reject` | the checks before a step is sampled raise |
| `LoopEnds`, `Close`, `CloseDetachRaises`, `CloseFinishes`, `CloseRefused` | the end of the loop and `close()`, which the ExitStack calls also after an exception |
| `Raise`, `RestartFails`, `Crash`, `SampleInterrupted`, `DrainInterrupted` | faults |

`_initialize_for_date` is part of `Sample` and `Launch` (`Accepted`, `Initialized`): it
refuses entries that start before the step, duplicate ids, and a plan whose position
is not the step; otherwise it compacts, merges, and drops the device copy.

Faults are a constant of the instance.  `"raise"`: exceptions outside ObsOperator,
and the writing of a restart.  `"crash"`: the process dies; staged records are lost, and
a file it had open may be unreadable.  `"altitude"`: on CUDA a sample above the column is
skipped and raises the device flag, which surfaces at the next synchronisation.
`"interrupt"`: an exception in the middle of a handler.

A write may flush any prefix of what is staged: `ObsWriter` has the limits that decide
which, and shows that the file is exact however they fall.

### HistoryOutput

Times are ticks, and a step ends at every `StepTicks`-th.  A sum is the count of how often
the state at the end of each step was added to it, so a row carries what its mean is
made of; a file is the sequence of its rows.  `open` is the group whose file is open, and
a row goes to the open file whatever group it belongs to, as in the code.

| actions | code |
|---|---|
| `RecordStep`, `RecordRaises` | CPU: `prepare_step`, accumulation, `complete_step`; the same with an exception while one collection writes its window |
| `PrepareStep` | CUDA: `prepare_step` and the queued accumulation |
| `StepEndsBatch`, `CompleteStep` | `_cuda_batch_requires_completion`: the step ends a batch, or is completed at once |
| `DrainOne`, `DrainDone` | `write_detached_cuda_outputs`, at a boundary, after the last step, and in `close()` |
| `DetachStep` | `detach_cuda_step` |
| `LoopEnds`, `Raise`, `BoundaryRaises` | how the loop is left |
| `Close`, `CloseFinishes` | `close()` |

What else may end a batch (ObsOperator, emissions, forcing) is a free choice in
`StepEndsBatch`.  The while loops that advance windows, groups and restarts by a fixed
interval are rounded divisions; intervals of months, which the code allows, would need a
calendar.  Failures while detached outputs are written are not modelled here: they
repeat rows in the way `ObsCudaInterrupted` shows for ObsOperator.

### ObsPacking and ObsPackedPlan

In the code a plan is a dozen flat arrays.  An entry owns a run of fields, of times, of
boxes and of level ranges, given by a start and a count, and each of its fields has a slot
for its accumulators.  `ObsPlan` speaks of sequences of entries instead.  `Packed(plan,
first)` is the arrays a plan has, `CompactPacked`, `MergePacked`, `LoadPacked`,
`PackedBatch`, `SampledOnCpu` and `SampledOnCuda` are the loops of the code, with
what they count first and what they copy where; an item that is counted and not filled is
`Uninitialised`.  `PackingFaithful` and `KernelsAgree` are the commuting diagrams, evaluated in
every plan the manager reaches, and proved for all of them (`ObsPacking_proofs`).  They need
`SentinelAssumption`: no window begins before 1970, since -1 us stands for "no boundary"
(`state.py:323`).

### ObsTimes and ObsInput

`ObsPlan` gives an observation its windows in absolute steps.  In the code they are computed by
each run that reads the file, relative to its own start (`input.py:360-389`), and
the manager refuses what lies before the step (`manager.py:383-389`, `Taken`).  `ObsTimes` has
the roundings, in minutes; `TimesAsStated` says that they come out as the guide states them
whichever run of a campaign reads the file, so that absolute windows are right.  `Early`
dates, which the run has passed when it begins, are the exception, and a finding.

Places are quarters of a degree, in which the centers of both grids are whole numbers.
`HorizontalIndex` is the index of a place on an axis, with the half boxes at the
poles and at the date line; `CellsAsStated` compares it with the edges that the grid
itself has (`geos_chem_latitude_edges_deg`; longitudes go round).  Boxes with an eastern edge
in the half box at the date line (`AtDateline`) are left out: see "Seen while modelling".

### ForcingBlocks, EmissionSource, RunInputs

A record is a day and a position in that day's file, so what a step has read can be compared
with what the calendar says it should read.  A block has an address, its `id()`; a new block may
get the address of any that nothing refers to any more (the lowest or the highest free one),
which is what makes recognition by `id()` dangerous.  A flux is the tuple of records it was computed from.

| actions | code |
|---|---|
| `FirstForcing` | the forcing assembled before the loop |
| `CpuStep` | forcing, emissions if due, the step and its snapshot |
| `PrepareHostStep`, `LaunchStep`, `Prefetch`, `CompleteStep` | the CUDA loop: the host step, `apply_resident` with the uploads whose identity changed, the prefetch, and `_cuda_batch_requires_completion` with the synchronisation |
| `DeviceRuns` | the device executes its oldest operation, at any time |
| `LoopEnds`, `Finish`, `Stopped` | the end of the loop, the download of the state |

A copy carries what its host array held when it was made.  That is an assumption about CuPy and
CUDA: `copy_to_device` copies from pageable memory, and such a copy has taken its source when
the call returns.  The flux depends on it, because `_resident_surface_flux` copies from an
array of its own, converted and laid out in blocks, which is gone when it returns
(`cuda/executor.py:240-253`); so does any array that `np.asarray` has to convert.  Whether the
host arrays outlive their copies is therefore not a question the model can answer.

What it answers is about the mirrors the copies go to.  `MirrorsUndisturbed`: no copy is queued
behind a step that has yet to read the mirror, so a step's operands do not depend on how a copy
is ordered with kernels already queued.  This is what the tests of
`_cuda_batch_requires_completion` are for: they compare the next step's blocks and flux with
those in hand.  `MirrorsCurrent` says that at the turn of a queued step, after
every copy queued before it, the device holds the rows the host selected for that step.

### Transport and the modules under it

The numerics are modelled as data flow.  Every array is a set of cells on a small grid; a
cell holds the *term* that was computed into it, with the step, block and level it
was computed for, or nothing if it was never written (`np.empty`).  An operation (an
iteration of a kernel's loop, or a vectorised statement of the NumPy reference) has the cells
it reads with what each of them must hold, and the cells it writes.  If one operand is not what
it must be, everything it writes is `Garbage`, and garbage spreads.  What a kernel computes is
thereby reduced to its name; what is kept is which of the rows, columns, levels and blocks it reads
and writes, of which buffer, in which order, and on which worker.

A step's program is a sequence of regions, one per parallel loop or serial stretch; in a
region every worker has a sequence of operations, cut as numba cuts the loop.
`Perform(w)` does the next operation of worker `w`, `Join` is the barrier between regions,
`NextStep` begins the next transport step with the arrays as they are.

| execution | code |
|---|---|
| `blocks`, `serial` | `_multi_block_transport_step_impl`: a parallel or serial loop over tracer blocks, each a whole step |
| `spatial` | `_one_block_transport_step_spatial`: every kernel's own parallel loops |
| `one_step`, `trace` | `run_transport_one_step` with an input it may or may not consume, compiled or NumPy; `trace_transport_one_step` |
| `cuda`, `cuda_upload` | `CudaExecutor.apply_resident`, which makes its plans on the device, and `apply` with uploaded ones; in double or with plans cast to single |

On the device a launch is one operation: its threads must not conflict (otherwise the launch
writes `Garbage`), and there are no more threads than the code launches (`BlockThreads`,
rounded up).  The zonal kernel is a sequence of phases between `__syncwarp`s of
`WarpSize` lanes.  Launches follow one another on the stream.

## 4. What the runs check

The instance of `MCObsOperator` is a campaign of two days of two steps with five entries:
one input file is not in completion order, `cross` spans midnight and completes at
the same time as `late` of the second day, `multi` has overlapping components,
`again` reuses the id of an observation that is complete by then.  With four steps there
are six interior and outer pairs of boundaries, so every run can begin or end inside a
window, at a day change, and at both; three steps can be queued in a batch after a
restart inside a day.  One output path per step makes it visible when a record goes to
the file of a wrong step.  Steps take ten minutes, and time operators have dates every five
minutes, so that they fall on and between boundaries; places are all multiples of
a quarter of a degree.

| run | question |
|---|---|
| `ObsCampaign` | Are outputs and restarts those of one continuous run, under every split into runs on either backend, every batching, crashes, exceptions and failed restart writes? |
| `ObsFailing` | Do exceptions inside `sample`, in the drain, or raised by the device's error flag put anything unfinished into the output, or lose a completed observation? |
| `ObsPromise` | Does the manager implement `ObsPromise`, does an undisturbed run sample all its steps and leave a restart, do the flat arrays and the kernels do what the sequences do, and is a file sampled when and where it says? |
| `ObsWriter` | Does every sample in the file resolve to its own observation and field; is memory bounded; does the loop end? |
| `HistoryOutput` | Does every HISTORY file hold its windows in order, each with all of its steps once, and every restart the state of its boundary, however steps are batched and wherever the run ends? |
| `RunInputs` | Does every step read the meteorology and the emissions of its own time, whatever is cached, evicted, prefetched, mirrored or still queued? |
| `Transport` | Does every operation of a transport step find the operands it takes, under every execution and every interleaving of workers, and does the step return its own results? |
| `ObsCpuInterrupted`, `ObsCudaInterrupted`, `ObsMidDay`, `HistoryUnaligned`, `CudaRestartMet` | the findings below |

The properties, in the order of their weight (the manager's `TypeOK` is checked as a part of
`IInv`):

* `CompleteOnly`: only finished observations that hold every step of their windows exactly
  once are in the output or on their way to it (in `ObsCampaign` a part of `IInv`).
* `RestartIsRemainder`: a restart at `t` holds, of every entry that is not finished, all
  of its steps before `t` and windows for exactly those from `t` on.
* `NothingLost`: when a restart is written, every entry of the run that has completed is in
  the file of its step, and every other one is in the restart.
* `EmittedOnce`: an observation is in one place of one file, also after repeated runs.
* `ContinuationKeepsOutput`: a run leaves alone what was complete before it began.
  (A writer truncates the file it opens, so a template coarser than the runs can
  break it.  The instances have a path per step, as the guide's template has;
  in `ObsFailing` two steps share a file.)
* `NeverOutOfStep`: the checks of `sample`, `launch_cuda_sample` and
  `_initialize_for_date` that would stop a run cannot fail.
* `EveryRunCommits` (liveness), `KeepsPromise` (refinement).
* `PackingFaithful`, `KernelsAgree`: the flat arrays and both kernels do to every plan the manager
  reaches, at every boundary and with every file, what `ObsPlan` says.
* `InputAsStated`: whichever run reads a file, what it takes from it is sampled in the steps the
  file states, divided by their number, in the cells that hold the places it states.
  `PointsSampleTheirPeriod` claims the first for points without exception, and `ObsMidDay`
  refutes it.
* `InOrderOnce`, `ClosedFileIsExact`, `StagingBounded`, `WritingEnds` of the writer.
* `RowsInOrder`: a HISTORY file is at all times the beginning of its group's schedule, each
  window with each of its steps once; `NothingMissing`: when the run has closed,
  nothing its completed steps contributed is absent; `RestartsExact`: a restart holds the
  state of exactly its boundary; `FilesGrow`: no file is opened anew over its rows;
  `RunCloses` (liveness).
* `MetIsCurrent`, `FluxIsCurrent`: a step reads the records that contain its time, and the
  flux last due, as an operator without caches would compute it; `EmissionsCentred`: never a
  flux of another interval; `OutputIsOfItsStep`: so do the outputs, also when they
  read the device at the end of a batch; `MirrorsUndisturbed`: no
  mirror is copied into behind a step that has yet to read it; `FailsForCause`: a run fails for
  want of a record, not because a prefetched step is out of turn; `TakesEveryStep`;
  `CachesBounded`.
* `OperandsCurrent`: nothing is ever read that is not the term, of this step, block and level, that
  the reader takes it for; `RaceFree`: no two workers have conflicting operations in hand;
  `StepDelivers`: what a step returns is complete and that step's; `InputPreserved`,
  `HandoffsKept`: what a caller did not give away, and what a trace handed over, stays.

`NothingMissing` says what an exception between the accumulation of a step and its
completion leaves: `close()` writes the running window with that step in its sum, and in the
collections that were not reached, not in its count.  Such a row is not a mean.

`ObsPromise` has two variables: the time up to which the model has been sampled, and the
set of delivered observations.  The refinement maps the time to `position`, and takes a
record to be delivered from the moment it leaves the plan.  Crashes are left out of
that run on purpose: a crash takes staged records back, which is what the restart of an
earlier boundary is for, and `NothingLost` states it.

The instance of `MCObsWriter` has limits of two entries and three samples, batches of one
to three entries, one entry larger than the sample limit, shared field names, and
one failing flush, which is then repeated or followed by the same batch once more.

The instance of `MCHistoryOutput` has nine steps, the last past the end of the simulation,
and three average collections whose windows and groups end together, apart and, on the
CPU, between steps; a window is detached in one batch and written in the next, batches are
of every length the outputs allow, and groups change inside them.

The instance of `MCRunInputs` runs two and a half days on three days of files, with steps of
1, 1.5, 2 and 3 hours that begin on and between block boundaries, emission intervals of 1
to 5 steps, two block lengths, and ends that are, and are not, a multiple of the step or
cut off by `max_steps`; the longest runs past the last file and fails.  Four addresses are the
most that can be in use at a time and one more, so that a freed one is reused at once or late.

The instance of `MCTransport` has two steps of two convection substeps on a grid of 3
levels, 9 rows and 2 columns: the least with caps, rows next to them, an interior row and
a first, middle and last level.  Jobs have one to three blocks on one or two workers,
so that a worker has several blocks and a block several workers.  On the device three lanes
share rows of two columns, so that one of them has nothing to do, and a launch rounds its
threads up to blocks of sixteen, more than the rows.  Deadlock is checked: only `Ended`
may repeat.

**Fairness.**  `FairSpec` of the manager is weak fairness of the run's own actions: a
single thread that has been started executes its next statement.  Nothing makes anybody
start another run (`Open` is not fair) and nothing makes a fault happen.  In the writer
only the loop of `write_completed` is fair, in the HISTORY model the run loop.  `RunInputs`
and `Transport` state no fairness: their questions are of safety, and that they do not get
stuck is the deadlock check.  Deadlock is checked for the manager; the
writer and the HISTORY model stop when they are closed.

**Bounds.**  `Horizon` (steps), the entries, files and paths, `TimeOperators`, the `Corners` of
boxes, `MaxHanded` (entries handed to
one writer), `MaxFailures` (failing flushes), the `Runs` of `RunInputs` and `Addresses`, and
`NSteps`, `InternalSteps` and the grid of `Transport`.

## 5. What is proved

For every set of entries, windows, files, paths, horizon and backend, and every fault
except `"interrupt"` (assumption `NoInterrupt`, stated in each theorem):

| theorem | |
|---|---|
| `InvariantHolds` | `Spec => []IInv` |
| `TypeCorrect` | `Spec => []TypeOK` |
| `OutputComplete` | `Spec => []CompleteOnly` |
| `RestartSplits` | `Spec => []RestartIsRemainder` |
| `InStepAlways` | `Spec => []NeverOutOfStep` |
| `EmittedOnceAlways` | `Spec => []EmittedOnce` |
| `NothingIsLost` | `PathsInOrder` implies `Spec => NothingLost` |
| `ContinuationKeeps` | `PathPerStep` implies `Spec => ContinuationKeepsOutput` |
| `ImplementsPromise` | `PathPerStep` and `NothingDropped` imply `Spec => KeepsPromise` |
| `PackingIsFaithful` | `Spec => []PackingFaithful` |
| `KernelsAgreeAlways` | `Spec => []KernelsAgree` |
| `CompactPlanOnTime`, `AccumulateOnTime`, `StableSortsIs` | what compaction, a sampled step and a merge do to a plan |

The assumptions on the constants are those of the modules: at least one step; entries
with nonempty windows, the last of which ends when the entry does (`EntryAssumption`, which
`input.py` and `ObsPlan.validate` establish); paths of the right type.

*The argument.*  `CompleteOnly` and `RestartIsRemainder` are not inductive: they say
nothing of a plan that is being accumulated.  `IInv` adds `Truth`: the accumulators that
count (the device's while the sampler mirrors the plan, the host's otherwise) of every entry
that has not completed are *on time* at the boundary up to which steps have been sampled or
queued, that is, they hold each step before it that the entry's windows cover once,
and the clamped windows still cover the rest.  The error flag suspends `Truth`, since from
then on every use of the device copy raises.  `Queue` says that queued steps follow the
position one by one and that the completed prefixes noted with them grow, `InStep` that
the loop's time agrees with them; `PlanShape` that the plan is sorted, so that the
completed entries are a prefix.  Accumulating, compacting and merging
preserve being on time (the first part of
`ObsOperatorManager_proofs`), and an entry that is on time at a boundary
past its end is complete, so whatever detaching, writing and closing take out of the plan is
right.

*Once, and not lost.*  What these theorems need to know is where a completed observation is.
`Emission` says, for `EmittedOnceAlways`, that the stations it passes keep apart: no
name is twice in the open file and what is staged for it, or in any file; every record
is in the file of the step at whose end it completed; `Ahead`: what the prefix noted with a
queued step leaves in the plan ends later; `Batches`: each detached batch ends at one boundary,
one batch after another, and what is still to be written of them after all that the open file
holds.  So a record leaves each station for the next with nobody there before it.  That a stable
sort and a merge neither repeat nor lose a name is a pigeonhole argument on finite sets.

`Keeping` adds, for `NothingIsLost`, that nothing falls out between the stations.  Every entry that the
run was given ends after its start, and is in the plan or has completed by the position.  If it
has completed it waits in a detached batch, or is *safe*: in the open file, or in a closed
one.  A closed file would lose it if the writer opened that file again.  `SafeUpTo` tells why it
does not: some step selected the open file, all that ended by it is safe, and what waits
ends later, so it belongs to files of this step or of later ones.  This needs
`PathsInOrder`: the steps of an output file are consecutive.  The templates of the guide
(`YYYYMMDD_hhmm`) are of this kind; the code does not check it, and a template without a
date would have the file of an hour opened anew every day.  At `CloseFinishes` nothing is
queued or waiting, so what completed is in its file and the rest in the compacted plan.

*Older output, and the promise.*  The first flush of a writer replaces the file of that path
(`_ensure_created` opens it with `"w"`), so a run that continues in the middle of a file loses what
an earlier run had put there (`ObsMidDay`).  Both remaining theorems assume `PathPerStep`:
every step has an output file of its own, as with the minute in the template of the guide.
`ContinuationKeeps` adds to the invariants above `Fresh`: whatever a run holds, or has still to
write, completed after the run's start.  A file that a flush replaces or a crash destroys
holds records of one step, and one of them is fresh, so all are.

`ImplementsPromise` is the step simulation: abstract time is the manager's position, and
delivered is what is staged, detached or in a file.  Its invariant `Delivery` relates both to what
a reader of the input files would know at that boundary (`Known`): each known entry ended after it
became known, is in the plan or delivered if it has completed, and a restart's plan is exactly
the known entries that end after it.  With it, the step that moves the position delivers exactly what
the promise asks for; that draining, flushing and closing deliver nothing more, and lose
nothing when a repeated run opens a file anew, is `Whole`: a batch on its way holds everything that
ever completes with it, so it renews all that the file had.  `NothingDropped` leaves only the fault
`"raise"`: a crash drops what is staged, and a device error flag what is detached, after it
counted as delivered.  The instance of `ObsPromise` satisfies both assumptions.

*The flat arrays.*  `PackingIsFaithful` and `KernelsAgreeAlways` also hold for every choice of
tracers, requested fields, components of windows, boxes and level ranges; they assume that no tracer and no
component is listed twice, that an entry asks for something (`TracersAssumption`,
`RequestAssumption`, `ComponentsAssumption`: the species table and `input.py` see to these) and
`SentinelAssumption`.  Every counting loop is a fold, and `FoldIs` of `ProofLemmas` proves by the induction
described below for the writer that the values given for its partial results are what it computes: how many
items the first rows have, what has been appended, which slots have been summed.  So an array that holds
rows one after another (`RaggedIs`) starts each row at the sum of the lengths before it, and copying rows in any
order gives such an array again (`CopyOrderedIs`), for a file, a compaction and a merge alike.
`MergeOrderIs` shows that the two-pointer loop gives the stable order of both plans, and there is one such
order (`OrderRanks`: two strict orders of the same items that agree rank them alike).  A kernel writes a slot that
belongs to one field of one entry (`OwnerIs`, `SampledSlots`), so what it leaves there is
what that entry gained, in whichever order and however often it looks: `AddEntryIs` and `SampledOnCpuIs` follow the
CPU's loops, `SampledOnCudaIs` the threads of the device.  Both results need one fact of the plans that
`IInv` does not have, `PlansWindowed`: no window that is left is empty or reaches back to the sentinel, so
compacting at the sentinel, which is what a merge does, changes nothing.

`"interrupt"` is excluded because the theorems are false with it: see the findings.

For every set of runs (both backends, any steps, lengths, limits and calendar), every
configuration of emissions and every supply of addresses, `RunInputs_proofs` proves:

| theorem | |
|---|---|
| `StepsTaken` | `Spec => []TakesEveryStep` |
| `MirrorsStayCurrent` | `Spec => []MirrorsCurrent` |
| `InputsTypeOK` | `Spec => []TypeOK` |
| `MetStaysCurrent` | `Spec => []MetIsCurrent` |
| `OutputsOfTheirStep` | `Spec => []OutputIsOfItsStep` |
| `FailuresHaveCauses` | `Spec => []FailsForCause` |
| `FluxStaysCurrent` | `Spec => []FluxIsCurrent` |
| `MirrorsStayUndisturbed` | `Spec => []MirrorsUndisturbed` |
| `EmissionsStayCentred` | `Spec => []EmissionsCentred` |
| `CachesStayBounded` | `Spec => []CachesBounded` |

These are all invariants of `RunInputs`, but for the two it refutes.  They assume that the schedule is
valid (`RunsAssumption`, what `_validate_timestep_schedule` and the configuration's types
establish), that 0, which stands for a mirror of nothing, is no object's address
(`AddressesAssumption`), and that each field and scale has one of the four frequencies and
names what is configured (`FieldsAssumption`: `_selection_time` raises for any other).

*The argument.*  `StepsTaken` follows from `Timing`: the model time is the number of steps
times their length, every step taken or in hand began before the end, and none does once the
loop is over; what remains is that the quotient rounded up counts the multiples below the
length.  For the mirrors, `MirrorsCurrent` alone is not inductive, because it does not say why
an address cannot name two blocks.  `Inputs` adds what does.  `Phases`: while operations are
queued there is a step in hand, and the identities of all kinds are the addresses of *its*
blocks, so that these are referred to and no new block can get their addresses; a step taken
over without waiting for the device has the same flux.  `Unique`: two blocks that are referred
to and have one address hold the same rows.  `Settled`: without a copy of a kind on its way, the
mirror of a block that the identity names is up to date.  `Fits`: each queued step reads the
rows of the step in hand, and the copies of blocks precede all steps of the queue.  The batch
rule `EndsBatch` is what makes `Fits` survive the change from one step in hand to the next,
and the freshness of addresses what makes `Unique` survive a read (`Allocate`).

`Served` says what the rows are.  `SpansAre` is the heart of it: the recursive splitting of a range of
records by days, read file by file, gives the records of the calendar one after another, so a block that
starts at a record holds at each offset the record that many further on (`HeldRecords`), and the offsets of
a step's selection meet the records of its time (`ChunksServe`), also for the endpoint of a window in
the next block.  `HostServed` carries this from the blocks to the host steps in hand and
`QueueServed` through the queue to what the device reads and outputs see; a run fails where a
record is missing, a step crosses a window or an array has none near its time (`Cause`).

`Emitted` does the same for the flux.  `CachesServe`: an array in the cache is what reading it would give,
and the whole flux is of *every* time with the selections it is cached under, because these decide the sum
(`KeyDecides`: the key of a flux is a sequence per field, and sequences that begin with different
selections or have different scales' selections differ).  `HostEmits`: the midpoints evaluated so
far are those of the due steps taken, and the active flux is the sum for the last of them;
`FluxesUnique`, as for blocks, that an address names one flux.  `QueueEmits`: while steps are queued that
flux does not change, since a batch ends before a step with another, and so its copy, like those of
blocks (`Fits`), precedes every step of the queue: `MirrorsUndisturbed`.  `EmissionsCentred` then is
arithmetic: one step in each interval of `edt \div dt` is due, the one in its middle
(`DueIs`, `LastDue`).  `CachesFit` is its own induction: pruning leaves only keys whose
time some frequency selects now, so a key is one of `Slices`, at most a file or a scale times a frequency.

For every length of a step (`StepAssumption`: it is positive), every run and every time
operator that is not `Early`, `ObsOperatorManager_proofs` proves `SampledAsStated`: the bounds of
`ParseTimeOperator` sample exactly the steps of `Stated`.  Rounding a date down or up brackets it
between two multiples of the step, and such multiples are ordered like their factors; the
three kinds of operators follow from what this says of their two ends (`StatedIs`, whether or
not the operator is refused).

`InputTakenAsStated`, in `ObsPacking_proofs`, is about what the runs of a campaign do with them:
`Spec => []InputAsStated` for every campaign, with handlers interrupted too, if the operators are
`WithinCampaign`: their dates and indices are not negative (model time begins at zero) and end by
the horizon, which is what the instances' do.  The invariant it needs is `Ran`: a run is never behind where it
began.  Bounds that pass the check of `_initialize_for_date` then begin at a step of this run, so all
their steps are counted by the divisor; bounds that do not pass it began at a step before
(`WithinSteps`: not before the campaign).  Places need no invariant: on each axis of each grid the
width is measured (`GridIs`: the caps' centers are nearer to their neighbours, the others all as far),
the rounding is bracketed (`IndexIs`), and a place lies in its cell (`CellFits`) and further east or
north in no earlier one, short of the date line (`IndexGrows`).

For every set of observations, field names, batches and limits, and any number of failing
flushes, `ObsWriter_proofs` proves:

| theorem | |
|---|---|
| `WriterTypeOK` | `Spec => []TypeOK` |
| `WriterInOrderOnce` | `Spec => []InOrderOnce` |
| `WriterClosedFileIsExact` | `Spec => []ClosedFileIsExact` |
| `WriterStagingBounded` | `Spec => []StagingBounded` |

They assume that every entry has a field and no batch is empty (`WriterAssumption`, what
`input.py` and the manager see to).

*The argument.*  `WriterInv` looks at the file in two parts.  `Committed`: below the counters in
memory each row is final; its `id_index` is the place of its entry among all that were handed over,
its `field_index` that of its name in the registry.  `Leftover`: what a failed flush has left above
them is no longer than what is pending, so the next flush overwrites all of it; staging more only
makes the pending part longer, and the registry with it.  A flush makes one committed part of both
because the rows of two sequences of entries are those of the first followed by those of the
second, moved on by the length of the first (`SamplesConcat`), and because registering more rows
only adds names at the end (`Registers`).  Counts, rows and registry are recursive functions.
The library's induction theorems cannot be used, so `ProofLemmas` proves induction for sets
(`Induction`: a bounded set of naturals cannot be mapped one to one into itself by adding one),
derives induction over sequences, and that a recursive definition has the one value that its steps
give (`Recursion`, `RecursionUnique`).

For every set of collections, lengths of steps, windows and files, end of the simulation, kind of run
and fault, `HistoryOutput_proofs` proves:

| theorem | |
|---|---|
| `HistoryTypeOK` | `Spec => []TypeOK` |
| `HistoryRestartsExact` | `Spec => []RestartsExact` |
| `HistoryRowsInOrder` | `DetachAligned` implies `Spec => []RowsInOrder` |
| `HistoryNothingMissing` | `DetachAligned` implies `Spec => []NothingMissing` |
| `HistoryFilesGrow` | `DetachAligned` implies `Spec => FilesGrow` |

All assume that intervals and steps are positive, that restarts fall on steps
(`AlignmentAssumption`, what `validate_restart_output_alignment` sees to) and that a name stands
for one collection (`CollectionsAssumption`: `outputs.collections` is a mapping).
`DetachAligned` says that the windows of a CUDA run end on steps.  The code does not check it; without
it `RowsInOrder` is false, which is the finding of `HistoryUnaligned`.  It asks nothing of
CPU runs, whose windows may end anywhere.

*The argument.*  `Control` relates the phase of the loop to the prepared, completed and abandoned
steps and says where nothing can be detached.  `Restarts` says that a collection's next boundary is
the first past the completed steps, and that each one before it is in its file or detached, with
the step that ends there.  `Collections` says the same of windows, in two parts.
`Window`: the running window has summed each of its steps up to some step once and counted those up to another,
which are that step itself or the one before it while a step is prepared.  `Outputs`: the files
hold the rows of all windows that begin before the running one, and the open file is that of the
last of them; or one window is detached, and the files hold the rows that begin before *that*.  With
`DetachAligned` a window cannot end between a boundary and the next one without its own step
ending a batch, so what is detached is always a single window, the one before that of the
collection.  `RowDrained` and `StepDetached` move a window from the sums into the detached
output and on into its file; `PreparedWindow` skips the windows in which no step ends, whose rows the files do not
have either; `ClosedCounted` and `ClosedUncounted` are what `close()` writes of a window that
is not over, with a step abandoned in it or not.  What a file should hold is stated by counting and
ordering sets of times, so most of the lemmas are about those: a set of steps or windows to which a
later one is added is the same in order with that one at its end (`LastInOrder`,
`RowsAppend`, `NextSample`).

For every grid, every number of workers, blocks, steps and convection substeps, every set of jobs (all
execution policies, drivers and precisions) and every block and warp size, `Transport_proofs` proves
the first two of these, and `TransportFlow_proofs` the others:

| theorem | |
|---|---|
| `TransportRaceFree` | `Spec => []RaceFree` |
| `TransportInputPreserved` | `Spec => []InputPreserved` |
| `ResidentOperandsCurrent` | `Spec => [](job.execution \in ResidentPolicies => OperandsCurrent)` |
| `ResidentStepDelivers` | `Spec => [](job.execution \in ResidentPolicies => StepDelivers)` |

They assume a grid of at least 3 levels, 9 rows and 2 columns (`GridAssumption`: the least with a
first, a middle and a last level, and caps, rows next to them and an interior), finitely many jobs with at
least one block and one worker each, and positive numbers of steps, threads and lanes.

*The argument.*  The first two look at the cells that operations touch, and not at the terms they hold.  A *zone* is a
set of arrays with a block of levels, rows and columns; the iterations of a loop are shown one
after another to be `Confined` to a zone of their own: what they write lies in it or is scratch of
their worker, and what they read of arrays that the loop writes lies in it too.  Iterations
whose zones are apart and whose workers differ do not clash, and the shares that numba cuts a
loop into hold each iteration once (`Shares`, by counting: `Ascending` lists a
finite set by rank).  Hence the members of a team keep apart in every region (`Separate`).  Over
blocks it is the arrays that differ: every array that a block's step writes carries the number of
the block in its name, or is scratch of a worker (`BlockOps`).  A program of which every region
is such is `Sound`; joining sound programs, flattening sequences of them, and running the serial
regions of one member keep that, so the program of every job is (`ProgramIs`).  `Positioned` is the
control part of the invariant: the region the team is in is one of the program of the job and step, and
each of the job's workers has its place in it.  Two operations in hand are then of one region and of
two members, which is `RaceFree`.  A device's program has one member, so of it this says
nothing: conflicts between the threads of a launch show in what the launch writes, and are a
matter of `OperandsCurrent`, which for the device is model-checked.

For `InputPreserved`, no operation of a driver that may not consume its input writes a cell of an array named
`input` (`Spared`); the arrays each operation may write were named when it was confined, so this
is a walk through the same programs (`Spares`).  What is handed in lies in such arrays
(`TracersHandedIn`), and an operation changes only cells it writes.

The other two are about what the cells hold, for the resident executor under each of its policies
(`ResidentPolicies`: one block after the other over a team, a block to a worker, or all on one worker).
A *fact* is a cell with its term.  An operation `Gives` the facts Q from P when P has all it
reads, and Q is what is left of P with what it writes; a list `Leads`, and a program
`Flows`, from P to Q when its operations, or regions, do so one after the other.  The iterations of a
parallel loop read what the loop began with, or what they wrote themselves, so each member's list
can be followed alone, and at the end a fact is had from the member that wrote its cell, or from before
(`Passes`, `LoopPasses`).  Operations fused on one worker give what their list leads to
(`FusedAllGives`).  Every kernel is then followed once: a level of advection (`LevelMakes`), the
vertical pass and the filling, both ways, diffusion, convection, the preparation with
each array that is overwritten on the way (`PreparationMakes`), and the loop over
blocks (`ApplyTransportMakes`), in which a block that is done has left its tracers and its
count and one that is not is as it entered (`Halfway`).  `ResidentStepFlows` puts a step together: from the
tracers and dry mass of the step before to everything `StepDelivers` names.  The inductive
invariant is `OnCourse`: in a region each member's rest of its list makes, from what the cells it touches hold
now, its part of what the region is to leave, and the rest of the program makes from
that what the step delivers (`Abreast`, `Ahead`).  It is needed because neither property is inductive, or even
says anything of the cells between two operations; a step of one member keeps
it for the others because their lists are apart (`Separate`).  The three policies share
everything but the last two lemmas.

`Emission`, `Keeping`, `Delivery`, `WriterInv`, `Restarts`, `Collections`, `Served` and `Emitted` were checked on the
instances of `ObsCampaign`, `ObsFailing` (without `"interrupt"`), `ObsPromise`, `ObsWriter`, `HistoryOutput` and
`RunInputs` before they were proved, and have no run of their own.

Only model-checked: liveness under fairness (`EveryRunCommits`, `WritingEnds`, `RunCloses`) and whatever needs
`ENABLED`, which the prover cannot do; and of the transport step `OperandsCurrent` and
`StepDelivers` for jobs that are not resident (the one-step driver with compiled and with NumPy operators, the
trace, and the device, whose kernels over rows are complete only if the blocks of a launch over levels
have a thread for each row), `HandoffsKept`, and that a cell holds one term (in `TypeOK`; its other half is `Positioned`).

## 6. Findings

1. **A restart with a step already accumulated** (`ObsCpuInterrupted`).  `sample` accumulates in
   place before it moves the position.  When the kernel or the write of the completed
   batch raises, the ExitStack closes the manager at the boundary before the step, which
   still equals the position, and a restart with the step in its accumulators is
   written.  The guide promises a restart "at clean shutdown".
2. **Outputs written twice** (`ObsCudaInterrupted`).  `write_detached_cuda_outputs` empties its
   list only after the loop; after an exception `close()` writes from the beginning, though
   `cuda-plan.md` says that draining a retained payload in `close()` is safe.
3. **Points sampled again in a later period** (`ObsMidDay`).  The date of a point at or before the
   start of the run that reads it becomes step 0 of that run (`max(ceil(...) - 1, 0)`,
   `input.py:388`), so the check on times before the run cannot see that it has passed.
   The guide says that points "sample the period ending at that timestamp".  A run that
   continues inside a day reads the day's file again, and samples in its first step the points
   that the run before it has sampled already.

4. **HISTORY rows in the wrong file** (`HistoryUnaligned`).  On CUDA a window that ends
   between two steps is written at once by `prepare_step`, ahead of an earlier window that is
   still detached.  The rows are then out of order; when the group changed in between, the row
   goes to the earlier group's file, which stays open until its last window is written.
   `detach_cuda_step` is documented to defer "only its host file writes".  Windows that end on
   steps are not affected (`HistoryOutput`), nor is the CPU.

5. **Old meteorology in CUDA restarts** (`CudaRestartMet`).  `snapshot_forcing` replaces four fields of the
   forcing of the run's first step and keeps the rest, among them the instantaneous fields that a
   restart gets as companions of its tracers.  Past the first three hours they are older
   than the tracers; on the CPU they are those of the step.

Seen while modelling, and in no run:

* A run that continues inside a day refuses the day's file if it holds ranges that begin
  earlier, asking for "a matching ObsOperator restart" (`manager.py:383-389`) also when one is
  loaded.
* The eastern half box of longitudes has the first index (`input.py:456-457`), so a box that ends
  in it is refused, or, if it begins in the first column too, cut down to that column: a box
  from -180 to 180 degrees is one column wide.  Nothing in the repository says what it should
  be; `AtDateline` leaves such boxes out of `CellsAsStated`.
* Of two emission records at the same distance the first is taken (`emissions.py:357`), which
  matters only for files stamped mid-interval.
* What a one-step call returns may be memory of the thread's workspace, which the next call
  overwrites (`pbl/_reference.py:229`); a trace copies its tracers out of the way but
  `kvh`, `kvm`, `tpert` and `qpert` of a compiled diffusion trace are not copied
  (`pbl/_operator.py:379`), although the driver says it retains "exact operator handoff arrays"
  (`driver.py:507`).  `HandoffsKept` is about the tracers.
* The kernels over rows are launched with the thread blocks of a launch over levels
  (`cuda/preparation.py:500`): all rows are covered while they are at most the threads of
  one block.
* `pbl/_kernels.py:792-940` is not reached by any caller.

## 7. Not modelled

* *Arithmetic*: weights, units, interpolation, limiters, the branches they select (a row of high
  Courant number skips the parabola, for instance: the model takes the longer path), mass
  conservation and positivity.  Floating point is out of TLC's reach; the repository's
  comparison harnesses are what tests it.
* *ObsOperator*: vertical operators, horizontal weights, the caching of equal operators, YAML,
  the NetCDF layout of restarts and their checks of grid and species.
* *HISTORY*: intervals of months, storage options, path templates that resolve to one path
  for two groups, and failed writes of detached windows.
* *Emissions*: regridding, units, species weights and the test for invalid fluxes, which fails the run
  (`runner.py:813`).  `Evaluate` asks for a record near the time at every evaluation, the code only
  when it reads (`emissions.py:195`): a model run may fail where the code still uses a cached
  array, never the other way round.  *Forcing*: the values of the fields.
* *Executor*: how tracers are packed into the lanes of blocks; `numba_control.py`.
* *CUDA*: padding lanes, validation, the retained serial preparation kernel, captures for
  diagnostics; how long host arrays live (see `RunInputs`).
* *Reads left out or moved*: the surface flux and the area when the vertical diffusion restores the
  mass (`VdiffRescale`; `pbl/_operator.py:200-201`), which no operation of that loop writes.
  `CountNegatives` reads what convection left, where the code counts while it diffuses
  (`pbl/_operator.py:193-194`) and stores the count at the end (`_executor.py:543`).
* *Run configuration and I/O*: parsing, without state of its own (the grids are in `ObsInput`).
* *Harnesses and tools* (`gc_harness.py`, `hemco_harness.py`, `tools/`): they compare arrays with those
  of GEOS-Chem and HEMCO, or measure time; they keep no state between calls.
