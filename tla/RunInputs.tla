------------------------------ MODULE RunInputs ------------------------------
(***************************************************************************)
(* What the run loop of runner.py feeds to a transport step, on either     *)
(* backend: meteorology from the provider's blocks, emissions from the     *)
(* operator, and on CUDA their copies on the device.                       *)
(*                                                                         *)
(* On the CPU a step is one action.  On CUDA the host queues the step of   *)
(* its prefetched _CudaHostStep, prefetches the next one while the device  *)
(* works, and waits for the device at the end of a batch.  The device      *)
(* executes its queue in order, at its own pace.  Copies are recognised    *)
(* by id(): the address of the host object they were made from.            *)
(***************************************************************************)
EXTENDS ForcingBlocks, EmissionSource

CONSTANTS Runs,       \* the runs to start, see RunConfiguration
          Addresses   \* of the blocks of one kind, and of fluxes

(***************************************************************************)
(* dt and edt are the transport and the emissions timestep, initial the    *)
(* configured initial_time_index (the run starts at that record), multiple *)
(* the chunk_multiple, length the simulated time, most the max_steps or    *)
(* NoLimit, days the days for which meteorology exists.                    *)
(***************************************************************************)
NoLimit == -1
RunConfiguration ==
  [backend : {"cpu", "cuda"}, dt : Nat \ {0}, edt : Nat \ {0}, initial : Nat,
   multiple : Nat \ {0}, length : Nat, most : Nat \union {NoLimit}, days : Nat]

ASSUME RunsAssumption ==
  \A r \in Runs : r \in RunConfiguration /\ ValidSchedule(r.dt, r.edt)

\* 0 is the identity of nothing.
ASSUME AddressesAssumption == Addresses \subseteq Nat \ {0}

VARIABLES
  run,        \* the configuration of this run
  pc,         \* where the loop is
  current,    \* model time, in seconds since the start
  steps,      \* transport_steps
  blocks,     \* the provider's blocks
  caches,     \* the emissions operator's caches
  active,     \* active_emissions
  refreshed,  \* emissions_processed: the midpoints
  hostStep,   \* cuda_host_step
  nextStep,   \* next_cuda_host_step
  template,   \* first_forcing, from which snapshots take what they do not replace
  identities, \* CudaForcingChunks._identities and _surface_flux_identity
  queue,      \* operations the device has not executed
  device,     \* what the device's buffers hold
  used,       \* what the last executed step read
  output      \* meteorology of the last completed step, as outputs see it

hostVars == <<run, pc, current, steps, blocks, caches, active, refreshed,
              hostStep, nextStep, template, identities, output>>
vars == <<hostVars, queue, device, used>>

NoStep == [timestamp |-> -1]
NoUse == [step |-> -1]
Nothing == <<>>

\* Where the run is on the calendar; the day of the first file is day 0.
Clock(elapsed) == run.initial * Window + elapsed

FluxSum(flux) == IF flux = NoFlux THEN Nothing ELSE flux.sum

-----------------------------------------------------------------------------
(* Addresses.  An object keeps its address while something refers to it.   *)

Selections == {s.selection : s \in {hostStep, nextStep} \ {NoStep}}
LiveBlocks(kind) == {b.address : b \in {blocks[kind]} \union {s[kind] : s \in Selections}}
LiveFluxes ==
  {f.address : f \in ({active, caches.flux} \union
                      {s.flux : s \in {hostStep, nextStep} \ {NoStep}}) \ {NoFlux}}

\* Where a new object may be put: the lowest or the highest free address.
Lowest(free) == {a \in free : \A b \in free : a <= b}
Highest(free) == {a \in free : \A b \in free : b <= a}

Free(kind) == Addresses \ LiveBlocks(kind)

FreshAt(Place(_)) ==
  {f \in [{"a1", "a3", "i3", "endpoint"} -> Addresses] :
     /\ \A kind \in Kinds : f[kind] \in Place(Free(kind))
     /\ f["endpoint"] \in Place(Free("i3") \ {f["i3"]})}

FreshBlocks == FreshAt(Lowest) \union FreshAt(Highest)

Chunks(elapsed, fresh) ==
  ChunksForStep(blocks, run.initial, run.multiple, run.days, elapsed, run.dt, fresh)

-----------------------------------------------------------------------------
Init ==
  /\ run \in Runs
  /\ pc = "start" /\ current = 0 /\ steps = 0
  /\ blocks = [kind \in Kinds |-> NoBlock]
  /\ caches = EmptyCaches
  /\ active = NoFlux /\ refreshed = <<>>
  /\ hostStep = NoStep /\ nextStep = NoStep
  /\ template = NoUse /\ output = NoUse /\ used = NoUse
  /\ identities = [kind \in Kinds \union {"flux"} |-> 0]
  /\ queue = <<>>
  /\ device = [buffer \in Kinds \union {"flux", "met"} |-> IF buffer = "met" THEN NoUse ELSE Nothing]

\* What a kernel finds at the offsets of a selection in blocks or mirrors of them.
Seen(rowsOf, selection, flux, step) ==
  LET At(kind, offset) == Field([rows |-> rowsOf[kind]], offset)
  IN  [step |-> step, a1 |-> At("a1", selection.a1At), a3 |-> At("a3", selection.a3At),
       start |-> At("i3", selection.startAt), end |-> At("i3", selection.endAt),
       into |-> selection.into, flux |-> flux]

HostRows(selection) == [kind \in Kinds |-> selection[kind].rows]

(***************************************************************************)
(* CompletedStepSnapshot.  `met` is what the pressures, the humidity and   *)
(* the temperature of a step are made from, `companions` the i3 record     *)
(* that output.py writes beside the tracers of a restart.  On CUDA         *)
(* snapshot_forcing replaces the former in the template and keeps the      *)
(* rest; the device's arrays are read when the batch has completed.        *)
(***************************************************************************)
(* Mutated: a snapshot counted with the step after it. *)
CountedLate(seen) == [step |-> seen.step + 1, met |-> seen, companions |-> seen.start]

CpuSnapshot(seen) == [step |-> seen.step, met |-> seen, companions |-> seen.start]
CudaSnapshot == [step |-> steps, met |-> device.met, companions |-> template.start]

(* The forcing of the first step is assembled before the loop. *)
FirstForcing ==
  /\ pc = "start"
  /\ \E fresh \in FreshBlocks :
       LET chunks == Chunks(0, fresh)
       IN  /\ blocks' = chunks.blocks
           /\ pc' = IF chunks.ok THEN "loop" ELSE "failed"
           /\ template' = IF chunks.ok
                          THEN Seen(HostRows(chunks.selection), chunks.selection, Nothing, 0)
                          ELSE NoUse
  /\ UNCHANGED <<run, current, steps, caches, active, refreshed, hostStep, nextStep,
                 identities, queue, device, used, output>>

(* Mutated: the end is one of the times at which a step begins. *)
MoreAtEnd(elapsed, done) == elapsed <= run.length /\ (run.most = NoLimit \/ done < run.most)

More(elapsed, done) == elapsed < run.length /\ (run.most = NoLimit \/ done < run.most)

LoopEnds ==
  /\ pc = "loop" /\ ~More(current, steps)
  /\ pc' = "finish"
  /\ UNCHANGED <<run, current, steps, blocks, caches, active, refreshed, hostStep, nextStep,
                 template, identities, queue, device, used, output>>

(* Downloading the final state waits for the device. *)
Finish ==
  /\ pc = "finish" /\ queue = <<>>
  /\ pc' = "done"
  /\ UNCHANGED <<run, current, steps, blocks, caches, active, refreshed, hostStep, nextStep,
                 template, identities, queue, device, used, output>>

(***************************************************************************)
(* The host's part of a step: forcing, then emissions when they are due.   *)
(* `prepared.ok` is FALSE when either raises.                              *)
(***************************************************************************)
Due(elapsed) == IsTimeForEmissions(elapsed, run.dt, run.edt)

Prepared(elapsed, fresh, fluxAddress) ==
  LET chunks == Chunks(elapsed, fresh)
      midpoint == Midpoint(elapsed, run.edt)
      evaluated == Evaluate(caches, Clock(midpoint), fluxAddress)
      emits == chunks.ok /\ Due(elapsed)
  IN  [ok |-> chunks.ok /\ (emits => evaluated.ok),
       blocks |-> chunks.blocks,
       caches |-> IF emits THEN evaluated.caches ELSE caches,
       step |-> [timestamp |-> elapsed, selection |-> chunks.selection,
                 flux |-> IF emits THEN evaluated.flux ELSE NoFlux,
                 midpoint |-> IF emits THEN midpoint ELSE -1]]

Preparations(elapsed) ==
  {Prepared(elapsed, fresh, address) :
     fresh \in FreshBlocks,
     address \in Lowest(Addresses \ LiveFluxes) \union Highest(Addresses \ LiveFluxes)}

\* The step's emissions replace the active ones; otherwise those stay in force.
Activate(step) ==
  /\ active' = IF step.midpoint = -1 THEN active ELSE step.flux
  /\ refreshed' = IF step.midpoint = -1 THEN refreshed ELSE Append(refreshed, step.midpoint)

CpuStep ==
  /\ pc = "loop" /\ run.backend = "cpu" /\ More(current, steps)
  /\ \E prepared \in Preparations(current) :
       /\ blocks' = prepared.blocks
       /\ caches' = prepared.caches
       /\ IF prepared.ok
          THEN LET selection == prepared.step.selection
               IN  /\ Activate(prepared.step)
                   /\ used' = Seen(HostRows(selection), selection, FluxSum(active'), steps)
                   /\ output' = CpuSnapshot(used')
                   /\ steps' = steps + 1 /\ current' = current + run.dt
                   /\ UNCHANGED pc
          ELSE pc' = "failed" /\ UNCHANGED <<active, refreshed, used, output, steps, current>>
  /\ UNCHANGED <<run, hostStep, nextStep, template, identities, queue, device>>

-----------------------------------------------------------------------------
(* CUDA.                                                                   *)

PrepareHostStep ==
  /\ pc = "loop" /\ run.backend = "cuda" /\ More(current, steps) /\ hostStep = NoStep
  /\ \E prepared \in Preparations(current) :
       /\ blocks' = prepared.blocks
       /\ caches' = prepared.caches
       /\ IF prepared.ok
          THEN hostStep' = prepared.step /\ UNCHANGED pc
          ELSE pc' = "failed" /\ UNCHANGED hostStep
  /\ UNCHANGED <<run, current, steps, active, refreshed, nextStep, template, identities,
                 queue, device, used, output>>

\* id() of the active emissions; None has no address.
FluxIdentity(flux) == IF flux = NoFlux THEN -1 ELSE flux.address

(* Mutated: a kind that is resident stays. *)
UploadChunkOnce(selection, kind) == identities[kind] = 0

UploadChunk(selection, kind) == identities[kind] # selection[kind].address

UploadFlux(flux) == identities["flux"] # FluxIdentity(flux)

(***************************************************************************)
(* The copies into the mirrors that a step calls for.  A copy carries what *)
(* its host array held when it was made: the flux is copied from a local   *)
(* array, converted and laid out in blocks, that is gone on return.        *)
(***************************************************************************)
Uploads(selection, flux) ==
  LET ChunkUpload(kind) ==
        IF UploadChunk(selection, kind)
        THEN <<[op |-> "upload", kind |-> kind, content |-> selection[kind].rows]>>
        ELSE <<>>
      fluxUpload ==
        IF UploadFlux(flux)
        THEN <<[op |-> "upload", kind |-> "flux", content |-> FluxSum(flux)]>>
        ELSE <<>>
  IN  ChunkUpload("a1") \o ChunkUpload("a3") \o ChunkUpload("i3") \o fluxUpload

(* apply_resident: mirrors are brought up to date, then the kernels queue. *)
LaunchStep ==
  /\ pc = "loop" /\ run.backend = "cuda" /\ More(current, steps)
  /\ hostStep # NoStep
  /\ Activate(hostStep)
  /\ queue' = queue \o Uploads(hostStep.selection, active') \o
              <<[op |-> "step", step |-> steps, selection |-> hostStep.selection]>>
  /\ identities' = [kind \in Kinds \union {"flux"} |->
                      IF kind = "flux" THEN FluxIdentity(active') ELSE hostStep.selection[kind].address]
  /\ pc' = "prefetch"
  /\ UNCHANGED <<run, current, steps, blocks, caches, hostStep, nextStep, template,
                 device, used, output>>

(***************************************************************************)
(* The next step's host work, while the device executes.  When it raises   *)
(* there is no next step, the batch is completed, and the run fails.       *)
(***************************************************************************)
Prefetch ==
  /\ pc = "prefetch"
  /\ IF More(current + run.dt, steps + 1)
     THEN \E prepared \in Preparations(current + run.dt) :
            /\ blocks' = prepared.blocks
            /\ caches' = prepared.caches
            /\ nextStep' = IF prepared.ok THEN prepared.step ELSE NoStep
            /\ pc' = IF prepared.ok THEN "boundary" ELSE "lastbatch"
     ELSE /\ nextStep' = NoStep
          /\ pc' = "boundary"
          /\ UNCHANGED <<blocks, caches>>
  /\ UNCHANGED <<run, current, steps, active, refreshed, hostStep, template, identities,
                 queue, device, used, output>>

(* Mutated: a batch runs on into steps that read other blocks. *)
EndsBatchAnyChunk(other) == nextStep = NoStep \/ other

(***************************************************************************)
(* _cuda_batch_requires_completion.  `other` is what HISTORY and           *)
(* ObsOperator ask for.  Objects are compared by identity.                 *)
(***************************************************************************)
EndsBatch(other) ==
  \/ nextStep = NoStep
  \/ other
  \/ nextStep.midpoint # -1 /\ nextStep.flux.address # FluxIdentity(active)
  \/ \E kind \in Kinds :
       hostStep.selection[kind].address # nextStep.selection[kind].address

(* Mutated: a synchronisation that does not wait. *)
NoWait == TRUE

Synchronized == queue = <<>>

StepEnds(boundary, failed) ==
  /\ boundary => Synchronized
  /\ output' = IF boundary THEN CudaSnapshot ELSE output
  /\ steps' = steps + 1 /\ current' = current + run.dt
  /\ nextStep' = NoStep
  /\ IF failed THEN pc' = "failed" /\ UNCHANGED hostStep
               ELSE pc' = "loop" /\ hostStep' = nextStep
  /\ UNCHANGED <<run, blocks, caches, active, refreshed, template, identities,
                 queue, device, used>>

CompleteStep ==
  \/ pc = "boundary" /\ \E other \in BOOLEAN : StepEnds(EndsBatch(other), FALSE)
  \/ pc = "lastbatch" /\ StepEnds(TRUE, TRUE)

(* The device executes the oldest operation of its queue. *)
DeviceRuns ==
  /\ queue # <<>>
  /\ LET op == Head(queue)
         seen == Seen(device, op.selection, device.flux, op.step)
     IN  IF op.op = "upload"
         THEN device' = [device EXCEPT ![op.kind] = op.content] /\ UNCHANGED used
         ELSE used' = seen /\ device' = [device EXCEPT !.met = seen]
  /\ queue' = Tail(queue)
  /\ UNCHANGED hostVars

Stopped ==
  /\ pc \in {"done", "failed"} /\ queue = <<>>
  /\ UNCHANGED vars

Loop == FirstForcing \/ LoopEnds \/ Finish \/ CpuStep \/ PrepareHostStep
          \/ LaunchStep \/ Prefetch \/ CompleteStep

-----------------------------------------------------------------------------
(* Properties.                                                             *)

TypeOK ==
  /\ pc \in {"start", "loop", "prefetch", "boundary", "lastbatch", "finish",
            "done", "failed"}
  /\ current = steps * run.dt
  /\ \A kind \in Kinds : blocks[kind].address \in Addresses \union {0}
  /\ \A s \in {hostStep, nextStep} \ {NoStep} : s.timestamp \in Nat
  /\ \A i \in DOMAIN queue : queue[i].op \in {"upload", "step"}
  /\ output # NoUse => output.step \in 0..steps - 1

(***************************************************************************)
(* Every step reads the hourly and the three-hourly record that contain it *)
(* and the two instantaneous records around it, whichever blocks hold them *)
(* and whatever has been cached, evicted, mirrored or prefetched.          *)
(***************************************************************************)
Names == {"a1", "a3", "start", "end", "into"}
IsMetOf(seen, step) ==
  \A name \in Names : seen[name] = MetOf(run.initial, step * run.dt)[name]

MetIsCurrent == used # NoUse => IsMetOf(used, used.step)

(***************************************************************************)
(* Every step applies the flux that was last due when it was taken, with   *)
(* the records a fresh operator without caches would select.               *)
(***************************************************************************)
RefreshesBefore(step) ==
  {m \in Range(refreshed) : m - run.edt \div 2 <= step * run.dt}

FluxIsCurrent ==
  used # NoUse =>
    used.flux = IF RefreshesBefore(used.step) = {} THEN Nothing
                ELSE SumAt(Clock(Max(RefreshesBefore(used.step))))

(***************************************************************************)
(* A flux is applied to no step further than half an emission interval     *)
(* from the time it was evaluated for, and steps without any flux all lie  *)
(* in the first half interval of the run.                                  *)
(***************************************************************************)
EmissionsCentred ==
  used # NoUse =>
    LET begin == used.step * run.dt
        end == begin + run.dt
        midpoints == RefreshesBefore(used.step)
    IN  IF midpoints = {} THEN 2 * end <= run.edt \/ end <= run.dt
        ELSE 2 * end <= 2 * Max(midpoints) + run.edt + 1

(***************************************************************************)
(* What outputs see of a step is the meteorology of that very step, also   *)
(* when the device's arrays are read at the end of a batch of steps.       *)
(***************************************************************************)
OutputIsOfItsStep == output # NoUse => output.met.step = output.step /\ IsMetOf(output.met, output.step)

(***************************************************************************)
(* "Attach current resident output meteorology to host metadata": what a   *)
(* restart file holds beside its tracers belongs to the step it ends.      *)
(***************************************************************************)
RestartMetIsCurrent ==
  output # NoUse => output.companions = MetOf(run.initial, output.step * run.dt).start

(***************************************************************************)
(* "Keep queued steps within buffers whose host contents remain stable":   *)
(* no mirror is written again while a queued step has yet to read it, so   *)
(* that every step of a batch reads the copies made at the batch's start.  *)
(***************************************************************************)
MirrorsUndisturbed ==
  \A i \in DOMAIN queue : queue[i].op = "upload" =>
    \A j \in 1..i - 1 : queue[j].op # "step"

(***************************************************************************)
(* Recognising the mirrors by id() is sound: when the turn of a queued     *)
(* step comes, the device holds the very rows the host selected for it,    *)
(* from the last copy queued ahead of the step or from an earlier one.     *)
(***************************************************************************)
CopiesAhead(i, kind) ==
  {j \in 1..i - 1 : queue[j].op = "upload" /\ queue[j].kind = kind}
LastAhead(i, kind) == {j \in CopiesAhead(i, kind) : CopiesAhead(i, kind) \subseteq 1..j}

MirrorsCurrent ==
  \A i \in DOMAIN queue : queue[i].op = "step" =>
    \A kind \in Kinds :
      LET rows == queue[i].selection[kind].rows
      IN  IF CopiesAhead(i, kind) = {} THEN device[kind] = rows
          ELSE \A j \in LastAhead(i, kind) : queue[j].content = rows

(***************************************************************************)
(* A run fails for want of a record, or because a step crosses a window,   *)
(* never because the prefetched step is not the one whose turn it is.      *)
(***************************************************************************)
MissingRecord(elapsed) ==
  \E kind \in Kinds :
    LET index == IF kind = "a1" THEN HourIndex(run.initial, elapsed)
                 ELSE WindowIndex(run.initial, elapsed)
        size == BlockSize(kind, run.multiple)
    IN  ~Readable(kind, BlockStart(index, size), size, run.days)

FailsForCause ==
  /\ pc = "loop" /\ hostStep # NoStep => hostStep.timestamp = current
  /\ pc = "failed" =>
       \/ MissingRecord(current) \/ (current % Window) + run.dt > Window
       \/ ~Readables(Clock(Midpoint(current, run.edt)))

(***************************************************************************)
(* A run that finishes has taken every step that begins before its end, or *)
(* as many as it was limited to.                                           *)
(***************************************************************************)
TakesEveryStep ==
  pc = "done" =>
    LET all == (run.length + run.dt - 1) \div run.dt
    IN  steps = IF run.most = NoLimit THEN all ELSE Min({all, run.most})

(***************************************************************************)
(* However long the run, the caches do not grow: an array is kept for at   *)
(* most one time of each frequency.  (Pruning keeps every selection with a *)
(* time that any frequency selects now, so that midnight's hourly array    *)
(* stays all day: one slice per array is too strong.)                      *)
(***************************************************************************)
CachesBounded ==
  LET slices == Cardinality(Frequencies)
  IN  /\ Cardinality(DOMAIN caches.fields) <= slices * Len(Fields)
      /\ Cardinality(DOMAIN caches.scales) <= slices * Cardinality(FileScales)

-----------------------------------------------------------------------------
Next == Loop \/ DeviceRuns \/ Stopped

Spec == Init /\ [][Next]_vars
=============================================================================
