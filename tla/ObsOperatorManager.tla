------------------------- MODULE ObsOperatorManager -------------------------
(***************************************************************************)
(* ObsOperatorManager (src/src/wombat_transport/obsoperator/manager.py)    *)
(* driven by the run loop of runner.py, over a chain of runs: a run starts *)
(* at a boundary, samples the concentrations of every transport step, and  *)
(* writes a restart from which a later run continues.                      *)
(*                                                                         *)
(* On the CPU a step is sampled and its completed entries are written at   *)
(* once (Sample).  On CUDA the step is only enqueued (Launch); at a batch  *)
(* boundary the batch detached earlier is written, one output per Drain    *)
(* step, and the results of the queued steps are detached (Detach).  The   *)
(* loop of write_detached_cuda_outputs has one action per iteration since  *)
(* a fault can hit between two of them; `phase` keeps the handlers whole.  *)
(*                                                                         *)
(* What survives a process is on disk: `science` (what a reader of each    *)
(* output file would see) and `restarts`.  Crash loses everything else,    *)
(* staged records included.                                                *)
(***************************************************************************)
EXTENDS ObsPlan, FiniteSets

CONSTANTS
  InputFile,   \* names that the input_file template can resolve to
  OutputFile,  \* names that the output_file template can resolve to
  Entries,     \* Entries[f]: the entries of an input file, <<>> if missing
  InPath,      \* InPath[t]: the template resolved at step t
  OutPath,     \* OutPath[t]: the template resolved at step t
  Backends,    \* the values WOMBAT_BACKEND may have in a run
  Faults       \* which of the faults below may happen

ASSUME PathAssumption ==
  /\ Entries \in [InputFile -> Seq(Entry)]
  /\ InPath \in [Step -> InputFile]
  /\ OutPath \in [Step -> OutputFile]

(***************************************************************************)
(* Faults:                                                                 *)
(*   "crash"      the process dies;                                        *)
(*   "raise"      an exception outside ObsOperator (forcing, transport,    *)
(*                HISTORY output) or while the restart is written;         *)
(*   "altitude"   CUDA: a sample raises the device error flag;             *)
(*   "interrupt"  an exception inside a handler, between two of its        *)
(*                effects (a failed write, a kernel that raises, Ctrl-C).  *)
(***************************************************************************)
ASSUME FaultsAssumption ==
  Faults \subseteq {"crash", "raise", "altitude", "interrupt"}

Backend == {"cpu", "cuda"}

ASSUME BackendsAssumption == Backends \subseteq Backend

NoFile == "no file"  \* _previous_input_path / _current_output_path is None

ASSUME NoFileAssumption == NoFile \notin InputFile \cup OutputFile

Record == [name : Entry, acc : Tally]

VARIABLES
  phase,      \* where the run loop is
  start,      \* _start: the boundary at which this run began
  current,    \* the run loop's model time
  stop,       \* boundary at which this run's loop ends
  position,   \* _position_us
  plan,       \* _plan
  first,      \* _plan.first_unexpired
  prevInput,  \* _previous_input_path
  outPath,    \* _current_output_path
  staged,     \* records held by the open writer, not yet in its file
  created,    \* the open writer has created its file
  pending,    \* _pending_cuda_samples
  detached,   \* _detached_cuda_outputs
  drained,    \* how many of them the running loop has written
  last,       \* next_cuda_host_step is None
  backend,    \* of this run; one campaign may use both
  device,     \* the sampler's device copy: [live, acc]
  flagged,    \* the sampler's device error flag
  science,    \* contents of the output files
  restarts    \* contents of the restart files, by boundary

runVars == <<start, stop, backend>>
loopVars == <<phase, current, last, runVars>>
planVars == <<position, plan, first, prevInput>>
writerVars == <<outPath, staged, created, science>>
cudaVars == <<pending, detached, drained, device, flagged>>
vars == <<loopVars, planVars, writerVars, cudaVars, restarts>>

UseCuda == backend = "cuda"

NoDevice == [live |-> FALSE, acc |-> <<>>]
NoRestart == [written |-> FALSE, plan |-> <<>>]

Phase ==
  { "down",        \* no run
    "running",     \* about to process the step at `current`
    "sampled",     \* CPU: ObsOperator done, HISTORY output still to come
    "launched",    \* CUDA: the step is enqueued
    "drain",       \* CUDA boundary: writing the previous batch
    "detach",      \* CUDA boundary: about to detach the queued steps
    "drainLast",   \* CUDA boundary without a next step: writing this batch
    "unwinding",   \* the ExitStack calls close()
    "closeDrain",  \* close(): writing detached outputs
    "closing" }    \* close(): the writer and the restart

TypeOK ==
  /\ phase \in Phase /\ last \in BOOLEAN /\ backend \in Backend
  /\ start \in Boundary /\ current \in Boundary
  /\ stop \in Boundary /\ position \in Boundary
  /\ plan \in Plan
  /\ first \in Nat
  /\ prevInput \in InputFile \cup {NoFile}
  /\ outPath \in OutputFile \cup {NoFile}
  /\ staged \in Seq(Record)
  /\ created \in BOOLEAN
  /\ pending \in Seq([step : Step, prefix : Nat, path : OutputFile])
  /\ detached \in Seq([path : OutputFile, batch : Seq(Record)])
  /\ drained \in Nat /\ flagged \in BOOLEAN
  /\ device \in [live : BOOLEAN, acc : Seq(Tally)]
  /\ science \in [OutputFile -> Seq(Record)]
  /\ restarts \in [Boundary -> [written : BOOLEAN, plan : Plan]]

Init ==
  /\ phase = "down" /\ last = FALSE /\ backend = "cpu"
  /\ start = 0 /\ current = 0 /\ stop = 0 /\ position = 0
  /\ plan = <<>> /\ first = 0
  /\ prevInput = NoFile /\ outPath = NoFile
  /\ staged = <<>> /\ created = FALSE
  /\ pending = <<>> /\ detached = <<>> /\ drained = 0
  /\ device = NoDevice /\ flagged = FALSE
  /\ science = [f \in OutputFile |-> <<>>]
  /\ restarts = [t \in Boundary |-> NoRestart]
-----------------------------------------------------------------------------
(* The plan on the host and on the device.                                 *)

\* A plan with the accumulators that count: the device's while the sampler
\* mirrors it (`live`), the host's otherwise.
Mirrored(p, live) ==
  [i \in DOMAIN p |->
     IF live THEN [p[i] EXCEPT !.acc = device.acc[i]] ELSE p[i]]

\* Mutated: the device copy is not fetched.
HostPlan == plan

\* sampling_cuda.py sync_to_host: the device copy, if it mirrors this plan.
Synced == Mirrored(plan, device.live)

\* ... which raises when a sample has set the error flag.
SyncRaises == device.live /\ flagged

\* manager.py _initialize_for_date: a new input path brings its entries in.
NeedsInput(t) == InPath[t] # prevInput

Incoming(t) == [i \in DOMAIN Entries[InPath[t]] |->
                  FreshEntry(Entries[InPath[t]][i])]

Candidates(t) == CompactPlan(Synced, t) \o Incoming(t)

Accepted(t) ==
  NeedsInput(t) =>
    /\ plan # <<>> => t = position
    /\ ~ SyncRaises
    /\ \A i \in DOMAIN Incoming(t) : StartsAtOrAfter(Incoming(t)[i].win, t)
    /\ UniqueIds(Candidates(t))

\* The plan with which step t is sampled, as a one-element set.
Initialized(t) ==
  IF NeedsInput(t)
  THEN {[plan |-> p, first |-> 0, live |-> FALSE] :
          p \in StableSorts(Candidates(t))}
  ELSE {[plan |-> plan, first |-> first, live |-> device.live]}
-----------------------------------------------------------------------------
(* The science writer.  Its staging limits are abstracted: a write may     *)
(* flush any prefix of what is staged (module ObsWriter has the limits).   *)

Writer == [path |-> outPath, staged |-> staged, created |-> created,
           disk |-> science]

SetWriter(w) ==
  /\ outPath' = w.path /\ staged' = w.staged
  /\ created' = w.created /\ science' = w.disk

\* writer.py flush of the first k staged records; the file is opened "w",
\* so the first flush of a writer replaces what the path held.
FlushPrefix(w, k) ==
  IF k = 0 THEN w
  ELSE [w EXCEPT
          !.disk[w.path] =
            (IF w.created THEN @ ELSE <<>>) \o SubSeq(w.staged, 1, k),
          !.staged = SubSeq(w.staged, k + 1, Len(w.staged)),
          !.created = TRUE]

\* Mutated: what is still staged is dropped.
CloseUnflushed(w) == [w EXCEPT !.staged = <<>>, !.created = FALSE]

CloseWriter(w) == [FlushPrefix(w, Len(w.staged)) EXCEPT !.created = FALSE]

\* Mutated: staged records move on to the file of the next path.
SelectPathUnflushed(w, path) == [w EXCEPT !.path = path]

\* manager.py _select_output_path.
SelectPath(w, path) ==
  IF path = w.path THEN w ELSE [CloseWriter(w) EXCEPT !.path = path]

\* Mutated: the template is resolved once, for the first step.
OutputPathOfFirst(t) == OutPath[0]

\* manager.py: the template is resolved at the start of the step.
OutputPath(t) == OutPath[t]

\* writer.py write_completed.
Written(w, batch) ==
  IF batch = <<>> THEN {w}
  ELSE LET full == [w EXCEPT !.staged = @ \o batch]
       IN  {FlushPrefix(full, k) : k \in 0 .. Len(full.staged)}
-----------------------------------------------------------------------------
(* A run begins and its steps are sampled.                                 *)

\* ObsOperatorManager.__init__ and _load_restart: a run starts at the first
\* boundary, or at one an earlier run left a restart for.
Open(t, end) ==
  /\ phase = "down"
  /\ t = 0 \/ restarts[t].written
  /\ t < end
  /\ phase' = "running" /\ backend' \in Backends
  /\ start' = t /\ current' = t /\ stop' = end /\ position' = t
  /\ plan' = restarts[t].plan
  /\ UNCHANGED <<last, first, prevInput, writerVars, cudaVars, restarts>>

\* manager.py sample, on the CPU.
Sample ==
  /\ phase = "running" /\ ~UseCuda /\ current < stop
  /\ position = current
  /\ Accepted(current)
  /\ \E init \in Initialized(current) :
       LET sampled == SamplePlan(init.plan, init.first, current)
           complete == CompletedPrefix(init.plan, current + 1)
       IN  /\ \E w \in Written(SelectPath(Writer, OutputPath(current)),
                               CompletedBatch(sampled, init.first, complete)) :
                SetWriter(w)
           /\ plan' = sampled
           /\ first' = Later(init.first, complete)
  /\ prevInput' = InPath[current]
  /\ position' = current + 1
  /\ phase' = "sampled"
  /\ UNCHANGED <<runVars, current, last, cudaVars, restarts>>

\* runner.py: HISTORY output is done and the model time moves on.
Advance ==
  /\ phase = "sampled"
  /\ current' = current + 1
  /\ phase' = "running"
  /\ UNCHANGED <<runVars, last, planVars, writerVars, cudaVars, restarts>>

\* sampling_cuda.py sample: the device copy is made when the sampler has none
\* for this plan; entries in `bad` lie above the modelled column, are not
\* accumulated and raise the error flag.
Kernel(p, f, live, t, bad) ==
  LET base == Mirrored(p, live)
      done == SamplePlan(base, f, t)
  IN  [live |-> TRUE,
       acc |-> [i \in DOMAIN p |-> IF i \in bad THEN base[i].acc
                                                ELSE done[i].acc]]

QueuedTo == IF pending = <<>> THEN position ELSE pending[Len(pending)].step + 1

\* manager.py launch_cuda_sample.
Launch ==
  /\ phase = "running" /\ UseCuda /\ current < stop
  /\ QueuedTo = current
  /\ Accepted(current)
  /\ \E init \in Initialized(current) :
     \E bad \in SUBSET (init.first + 1 .. Len(init.plan)) :
       /\ bad # {} => "altitude" \in Faults
       /\ plan' = init.plan
       /\ first' = init.first
       /\ device' = IF init.first < Len(init.plan)
                     THEN Kernel(init.plan, init.first, init.live, current, bad)
                     ELSE IF init.live THEN device ELSE NoDevice
       /\ flagged' = (flagged \/ bad # {})
       /\ pending' = Append(pending,
            [step |-> current, path |-> OutputPath(current),
             prefix |-> CompletedPrefix(init.plan, current + 1)])
  /\ prevInput' = InPath[current]
  /\ phase' = "launched"
  /\ UNCHANGED <<runVars, current, last, position, writerVars, detached,
                 drained, restarts>>

\* sample and launch_cuda_sample raise before they sample: the step is not
\* the next one, or the new input cannot be installed.
Reject ==
  /\ phase = "running" /\ current < stop
  /\ ~ (Accepted(current)
        /\ current = IF UseCuda THEN QueuedTo ELSE position)
  /\ phase' = "unwinding"
  /\ UNCHANGED <<runVars, current, last, planVars, writerVars, cudaVars,
                 restarts>>
-----------------------------------------------------------------------------
(* The end of a CUDA step: batches.                                        *)

\* Mutated: new input does not end a batch.
NeverFlushesBefore(t) == FALSE

\* manager.py requires_cuda_flush_before.
RequiresFlushBefore(t) == pending # <<>> /\ InPath[t] # prevInput

\* runner.py _cuda_batch_requires_completion: the batch ends without a next
\* step, before new input, or for reasons outside ObsOperator (`other`:
\* HISTORY, emissions and forcing buffers).
StepEndCuda ==
  /\ phase = "launched"
  /\ \E fetched, other \in BOOLEAN :
       /\ fetched => current + 1 < stop
       /\ ~fetched /\ current + 1 < stop => "raise" \in Faults
       /\ IF ~fetched \/ other \/ RequiresFlushBefore(current + 1)
          THEN phase' = "drain" /\ last' = ~fetched /\ current' = current
          ELSE phase' = "running" /\ last' = FALSE /\ current' = current + 1
  /\ UNCHANGED <<runVars, planVars, writerVars, cudaVars, restarts>>

Draining == phase \in {"drain", "drainLast", "closeDrain"}

\* manager.py write_detached_cuda_outputs, one iteration.  A record of an
\* empty batch stands for an output the code does not detach.
DrainOne ==
  /\ Draining /\ drained < Len(detached)
  /\ LET out == detached[drained + 1]
     IN  \E w \in IF out.batch = <<>> THEN {Writer}
                  ELSE Written(SelectPath(Writer, out.path), out.batch) :
           SetWriter(w)
  /\ drained' = drained + 1
  /\ UNCHANGED <<loopVars, planVars, pending, detached, device, flagged,
                 restarts>>

\* The loop ends; without a next step the run loop is over too.
DrainDone ==
  /\ Draining /\ drained = Len(detached)
  /\ detached' = <<>> /\ drained' = 0
  /\ \/ phase = "drain" /\ phase' = "detach" /\ current' = current
     \/ phase = "drainLast" /\ phase' = "unwinding" /\ current' = current + 1
     \/ phase = "closeDrain" /\ phase' = "closing" /\ current' = current
  /\ UNCHANGED <<runVars, last, planVars, writerVars, pending, device,
                 flagged, restarts>>

\* Mutated: only the completions of the first step of the batch are seen.
PrefixOfFirst(i) == IF i = 0 THEN first ELSE Later(first, pending[1].prefix)

\* manager.py detach_cuda_samples.  Completed prefixes never decrease within
\* a batch, so each queued step starts where the one before it ended.
Prefix(i) == IF i = 0 THEN first ELSE Later(first, pending[i].prefix)

DetachSyncs == Prefix(Len(pending)) > first

DetachFails == SyncRaises /\ DetachSyncs

DetachPending ==
  LET host == IF DetachSyncs THEN Synced ELSE plan
  IN  /\ plan' = host
      /\ detached' = detached \o
           [i \in DOMAIN pending |->
              [path |-> pending[i].path,
               batch |-> CompletedBatch(host, Prefix(i - 1), Prefix(i))]]
      /\ first' = Prefix(Len(pending))
      /\ position' = pending[Len(pending)].step + 1
      /\ pending' = <<>>

Detach ==
  /\ phase = "detach"
  /\ ~ DetachFails
  /\ DetachPending
  /\ IF last THEN phase' = "drainLast" /\ current' = current
             ELSE phase' = "running" /\ current' = current + 1
  /\ UNCHANGED <<runVars, last, prevInput, writerVars, drained, device,
                 flagged, restarts>>

DetachRaises ==
  /\ phase = "detach"
  /\ DetachFails
  /\ plan' = Synced
  /\ phase' = "unwinding"
  /\ UNCHANGED <<runVars, current, last, position, first, prevInput,
                 writerVars, cudaVars, restarts>>
-----------------------------------------------------------------------------
(* The end of a run.  The ExitStack of run_tracer_simulation closes the    *)
(* manager at `current` whether the loop ended or raised.                  *)

LoopEnds ==
  /\ phase = "running" /\ current = stop
  /\ phase' = "unwinding"
  /\ UNCHANGED <<runVars, current, last, planVars, writerVars, cudaVars,
                 restarts>>

\* An exception in forcing, transport or HISTORY output: before the step is
\* sampled, after it was sampled or enqueued, or around a batch boundary.
Raise ==
  /\ "raise" \in Faults
  /\ phase \in {"running", "sampled", "launched", "detach", "drainLast"}
  /\ drained = 0
  /\ phase' = "unwinding"
  /\ UNCHANGED <<runVars, current, last, planVars, writerVars, cudaVars,
                 restarts>>

\* The process is gone, and with it everything that is not on disk.
Gone ==
  /\ phase' = "down" /\ last' = FALSE /\ backend' = "cpu"
  /\ plan' = <<>> /\ first' = 0 /\ prevInput' = NoFile
  /\ outPath' = NoFile /\ staged' = <<>> /\ created' = FALSE
  /\ pending' = <<>> /\ detached' = <<>> /\ drained' = 0
  /\ device' = NoDevice /\ flagged' = FALSE
  /\ UNCHANGED <<start, current, stop, position>>

\* manager.py close: detach what is pending, write what is detached.
Close ==
  /\ phase = "unwinding"
  /\ IF pending = <<>>
     THEN UNCHANGED <<plan, detached, first, position, pending>>
     ELSE ~ DetachFails /\ DetachPending
  /\ drained' = 0
  /\ phase' = "closeDrain"
  /\ UNCHANGED <<runVars, current, last, prevInput, writerVars, device,
                 flagged, restarts>>

\* The flag makes close() raise before it has closed the writer.
CloseDetachRaises ==
  /\ phase = "unwinding" /\ pending # <<>> /\ DetachFails
  /\ Gone
  /\ UNCHANGED <<science, restarts>>

\* Mutated: the boundary is compared with the one the run began at.
AtBoundaryOfStart == plan # <<>> => current = start

AtBoundary == plan # <<>> => current = position

\* ... close the writer, compact the plan at the boundary, and replace the
\* restart file for it in one step (tempfile and os.replace).
CloseFinishes ==
  /\ phase = "closing"
  /\ AtBoundary /\ ~ SyncRaises
  /\ science' = CloseWriter(Writer).disk
  /\ restarts' = [restarts EXCEPT ![current] =
                    [written |-> TRUE, plan |-> CompactPlan(Synced, current)]]
  /\ Gone

\* The writer is closed, then the boundary check or the flag raises.
CloseRefused ==
  /\ phase = "closing"
  /\ ~ (AtBoundary /\ ~ SyncRaises)
  /\ science' = CloseWriter(Writer).disk
  /\ Gone
  /\ UNCHANGED restarts

\* Writing the restart fails: the file it would replace stays as it was.
RestartFails ==
  /\ "raise" \in Faults
  /\ phase = "closing"
  /\ AtBoundary /\ ~ SyncRaises
  /\ science' = CloseWriter(Writer).disk
  /\ Gone
  /\ UNCHANGED restarts

\* The process dies.  A file it had open may be unreadable afterwards.
Crash ==
  /\ "crash" \in Faults
  /\ phase # "down"
  /\ science' \in
       {science} \cup
       (IF created THEN {[science EXCEPT ![outPath] = <<>>]} ELSE {})
  /\ Gone
  /\ UNCHANGED restarts
-----------------------------------------------------------------------------
(* Exceptions inside a handler ("interrupt").                              *)

\* sample, after the kernel has accumulated the entries up to `upto` and
\* before the position moves; the completed batch may have been written.
SampleInterrupted ==
  /\ "interrupt" \in Faults
  /\ phase = "running" /\ ~UseCuda /\ current < stop
  /\ position = current
  /\ Accepted(current)
  /\ \E init \in Initialized(current) :
     \E upto \in init.first .. Len(init.plan) :
     \E wrote \in BOOLEAN :
       LET w0 == SelectPath(Writer, OutputPath(current))
           full == SamplePlan(init.plan, init.first, current)
           partial == [i \in DOMAIN full |-> IF i > upto THEN init.plan[i]
                                                        ELSE full[i]]
           complete == CompletedPrefix(init.plan, current + 1)
       IN  /\ wrote => upto = Len(init.plan)
           /\ \E w \in IF wrote
                       THEN Written(w0, CompletedBatch(full, init.first,
                                                       complete))
                       ELSE {w0} :
                SetWriter(w)
           /\ plan' = partial
           /\ first' = init.first
  /\ prevInput' = InPath[current]
  /\ phase' = "unwinding"
  /\ UNCHANGED <<runVars, current, last, position, cudaVars, restarts>>

\* write_detached_cuda_outputs empties its list only after the whole loop: an
\* iteration raises before it has an effect, or with its batch staged and the
\* flush of it failing, and the list keeps the outputs already written.
DrainInterrupted ==
  /\ "interrupt" \in Faults
  /\ phase \in {"drain", "drainLast"} /\ drained < Len(detached)
  /\ LET out == detached[drained + 1]
     IN  \E w \in {Writer} \cup
                 IF out.batch = <<>> THEN {}
                 ELSE {[SelectPath(Writer, out.path) EXCEPT
                          !.staged = @ \o out.batch]} :
           SetWriter(w)
  /\ drained' = 0
  /\ phase' = "unwinding"
  /\ UNCHANGED <<runVars, current, last, planVars, pending, detached,
                 device, flagged, restarts>>
-----------------------------------------------------------------------------
Run == \/ Sample \/ Advance
       \/ Launch \/ StepEndCuda \/ DrainOne \/ DrainDone
       \/ Detach \/ DetachRaises
       \/ Reject \/ LoopEnds
       \/ Close \/ CloseDetachRaises \/ CloseFinishes \/ CloseRefused

Fault == Raise \/ RestartFails \/ Crash \/ SampleInterrupted \/ DrainInterrupted

Next == \/ \E t, end \in Boundary : Open(t, end)
        \/ Run
        \/ Fault

Spec == Init /\ [][Next]_vars

\* A started process keeps executing; nobody has to start another run.
FairSpec == Spec /\ WF_vars(Run)
-----------------------------------------------------------------------------
(* Properties.                                                             *)

Records(f) == {science[f][i] : i \in DOMAIN science[f]}

IsComplete(r) == End[r.name] <= Horizon /\ r.acc = Due(r.name, Horizon)

\* Whatever is on its way to the science output or in it is a finished
\* operator holding every step of its windows exactly once: no step is
\* lost, repeated or still to come, across batches, days and restarts.
CompleteOnly ==
  /\ \A f \in OutputFile : \A r \in Records(f) : IsComplete(r)
  /\ \A i \in DOMAIN staged : IsComplete(staged[i])
  /\ \A k \in DOMAIN detached :
       \A i \in DOMAIN detached[k].batch : IsComplete(detached[k].batch[i])

\* An observation is in one place of one file: the file of the step at whose
\* end it completed.
EmittedOnce ==
  \A f, g \in OutputFile :
    \A i \in DOMAIN science[f], j \in DOMAIN science[g] :
      /\ f = OutPath[End[science[f][i].name] - 1]
      /\ science[f][i].name = science[g][j].name => f = g /\ i = j

\* An entry as a restart at boundary t must hold it: everything before t
\* accumulated, exactly the steps from t on still to be sampled.
IsRemainder(entry, t) ==
  /\ End[entry.name] > t
  /\ entry.acc = Due(entry.name, t)
  /\ \A c \in Component, s \in Step :
       Covers(entry.win, c, s) <=> s >= t /\ Covers(Window[entry.name], c, s)
  /\ StartsAtOrAfter(entry.win, t)

\* A restart file splits every entry at its boundary: the run that continues
\* from it completes the same observation as a run that never stopped.  The
\* checks of _read_obsoperator_restart on it can therefore not fail.
RestartIsRemainder ==
  \A t \in Boundary : restarts[t].written =>
    /\ \A i \in DOMAIN restarts[t].plan : IsRemainder(restarts[t].plan[i], t)
    /\ Sorted(restarts[t].plan)
    /\ UniqueIds(restarts[t].plan)

\* The entries this run is responsible for.
RunEntries ==
  {restarts[start].plan[i].name : i \in DOMAIN restarts[start].plan}
  \cup UNION {{Entries[InPath[s]][i] : i \in DOMAIN Entries[InPath[s]]} :
               s \in start .. current - 1}

\* Writing a restart commits the run: every entry that completed in it is in
\* its file already, and every other one is in the restart.
NothingLost ==
  [][ CloseFinishes =>
      \A e \in RunEntries :
        /\ End[e] \in start + 1 .. current =>
             \E i \in DOMAIN science'[OutPath[End[e] - 1]] :
               science'[OutPath[End[e] - 1]][i].name = e
        /\ End[e] > current =>
             \E i \in DOMAIN restarts'[current].plan :
               restarts'[current].plan[i].name = e ]_vars

\* A run that continues at `start` leaves what was complete by then alone.
ContinuationKeepsOutput ==
  [][ \A f \in OutputFile : \A r \in Records(f) :
        phase # "down" /\ End[r.name] <= start =>
          \E i \in DOMAIN science'[f] : science'[f][i] = r ]_vars

\* The checks that sampling is contiguous and that a date change does not
\* skip steps cannot fail: batches are flushed before new input is needed.
NeverOutOfStep ==
  phase = "running" /\ current < stop =>
    /\ current = IF UseCuda THEN QueuedTo ELSE position
    /\ NeedsInput(current) /\ plan # <<>> => position = current

\* A run that starts where a new input file does, and hits no fault, samples
\* all its steps and is closed at its end with a restart there.  Any other run
\* is closed with a restart too, possibly at once: the entries of its input
\* file that start before it make it fail.
StartsWithInput == start = 0 \/ InPath[start] # InPath[start - 1]

EveryRunCommits ==
  (phase # "down") ~>
    /\ phase = "down" /\ restarts[current].written
    /\ StartsWithInput => current = stop
=============================================================================
