---------------------------- MODULE HistoryOutput ----------------------------
(***************************************************************************)
(* HistoryOutputManager (src/src/wombat_transport/output.py) under the run *)
(* loop: time-averaged collections, whose windows are appended to a file   *)
(* per group, and instantaneous restarts.                                  *)
(*                                                                         *)
(* On the CPU a step is prepared, accumulated and completed at once        *)
(* (RecordStep).  On CUDA it is prepared and accumulated when its kernels  *)
(* are queued (PrepareStep); its completion may end a batch, where the     *)
(* outputs detached at the boundary before are written (Drain), and those  *)
(* of this step are detached (DetachStep) to be written a batch later.     *)
(*                                                                         *)
(* Times are ticks since the start of the run.  Intervals have a fixed     *)
(* length (the code's may be months), so the while loops that advance a    *)
(* schedule are the rounded times WindowEnd and GroupOf.  A float64 sum is *)
(* the count of how often the state at the end of each step was added.     *)
(***************************************************************************)
EXTENDS Integers, FiniteSets, SequencesExt

CONSTANTS
  Average,    \* time-averaged collections
  Restart,    \* instantaneous collections
  Frequency,  \* Frequency[c]: ticks between outputs
  Duration,   \* Duration[a]: ticks covered by one file
  StepTicks,  \* transport_dt_s
  End,        \* the simulation ends at or after this time
  Setups,     \* what a run may be: its backend and its average collections
  Faults      \* which of the faults below may happen

(***************************************************************************)
(* Faults: "raise", an exception outside HISTORY output before a step is   *)
(* prepared or while the next one is fetched; "boundary", one between the  *)
(* accumulation of a CUDA step and its completion (ObsOperator raises at   *)
(* the batch boundary); "write", a file cannot be written in complete_step.*)
(***************************************************************************)
ASSUME FaultsAssumption == Faults \subseteq {"raise", "boundary", "write"}

\* outputs.collections is a mapping: a name stands for one collection.
ASSUME CollectionsAssumption == Average \cap Restart = {}

ASSUME TimesAssumption ==
  /\ StepTicks \in Nat \ {0} /\ End \in Nat \ {0}
  /\ Frequency \in [Average \cup Restart -> Nat \ {0}]
  /\ Duration \in [Average -> Nat \ {0}]

\* validate_restart_output_alignment: restarts coincide with steps.
ASSUME AlignmentAssumption ==
  \A r \in Restart : \A t \in 1 .. End :
    t % Frequency[r] = 0 => t % StepTicks = 0

ASSUME SetupAssumption ==
  Setups \subseteq [backend : {"cpu", "cuda"}, averages : SUBSET Average]

\* The end of step k, k = 1, 2, ..., and the number of steps: the loop goes
\* on while the time is before the end.
StepEnd(k) == k * StepTicks
Steps == (End + StepTicks - 1) \div StepTicks
Sample == 1 .. Steps
Time == 0 .. StepEnd(Steps)

VARIABLES
  phase,      \* where the run loop is
  setup,      \* backend and collections of this run
  step,       \* completed steps
  last,       \* CUDA: there is no next host step
  average,    \* the state of each average collection, with its files
  restart,    \* the state of each restart collection, with its files
  prepared,   \* _prepared_timestamp, as a step; 0 for None
  detached,   \* _detached_cuda_outputs, by the collection that owns them
  abandoned   \* history: the prepared step that close() found; 0 for none

vars == <<phase, setup, step, last, average, restart, prepared, detached,
          abandoned>>

None == -1

Row == [time : Time, sum : [Sample -> Nat], count : Nat]
NoSum == [k \in Sample |-> 0]

\* The elements of a finite set of times as a sequence, earlier ones first.
InOrder(S) ==
  CHOOSE s \in [1 .. Cardinality(S) -> S] :
    \A i, j \in 1 .. Cardinality(S) : i < j => s[i] < s[j]

\* An average collection before its first step: no schedule yet.
FreshAverage ==
  [start |-> None, end |-> None, group |-> None, count |-> 0, sum |-> NoSum,
   open |-> None, files |-> [g \in Time |-> <<>>]]

FreshRestart(r) == [next |-> Frequency[r], files |-> [t \in Time |-> 0]]

Init ==
  /\ phase = "running" /\ setup \in Setups
  /\ step = 0 /\ last = FALSE
  /\ average = [a \in setup.averages |-> FreshAverage]
  /\ restart = [r \in Restart |-> FreshRestart(r)]
  /\ prepared = 0 /\ abandoned = 0
  /\ detached = [c \in setup.averages \cup Restart |-> <<>>]
-----------------------------------------------------------------------------
(* The schedule of a collection.                                           *)

\* The end of the window (start, end] that holds a time.
WindowEnd(a, t) == ((t + Frequency[a] - 1) \div Frequency[a]) * Frequency[a]

\* The file a window belongs to: the group that holds its start.
GroupOf(a, start) == (start \div Duration[a]) * Duration[a]

\* _initialize_schedule.
Scheduled(c, a, t) ==
  IF c.end # None THEN c
  ELSE LET end == WindowEnd(a, t)
       IN  [c EXCEPT !.start = end - Frequency[a], !.end = end,
                     !.group = GroupOf(a, end - Frequency[a])]

\* _advance_schedule, until the window ends at `end`.
Advanced(c, a, end) ==
  [c EXCEPT !.start = end - Frequency[a], !.end = end,
            !.group = GroupOf(a, end - Frequency[a])]

\* Mutated: closes it with every window.
ClosedAlways(c, before) == [c EXCEPT !.open = None]

\* ... which closes the file when the group changes, unless it is detached.
ClosedIfMoved(c, before) ==
  IF c.group = before.group THEN c ELSE [c EXCEPT !.open = None]
-----------------------------------------------------------------------------
(* The files of a collection.                                              *)

\* _ensure_file and append_average: a file is created when none is open,
\* whatever was at its path; a row goes to the open file.
WithRow(c, group, row) ==
  IF c.open = None
  THEN [c EXCEPT !.open = group, !.files[group] = <<row>>]
  ELSE [c EXCEPT !.files[c.open] = Append(@, row)]

\* The row of the running window.
CurrentRow(c) == [time |-> c.start, sum |-> c.sum, count |-> c.count]

\* Mutated: the sums are not cleared.
ResetCountOnly(c) == [c EXCEPT !.count = 0]

Reset(c) == [c EXCEPT !.count = 0, !.sum = NoSum]

\* _append_average, for a window that has samples.
Appended(c) ==
  IF c.count = 0 THEN c ELSE WithRow(c, c.group, CurrentRow(c))

\* _finish_and_advance, on to the window that ends at `end`.
FinishedTo(c, a, end) ==
  ClosedIfMoved(Advanced(Reset(Appended(c)), a, end), c)

\* prepare: windows that end before the step are finished.
PreparedFor(c, a, t) ==
  LET s == Scheduled(c, a, t)
  IN  IF t <= s.end THEN s ELSE FinishedTo(s, a, WindowEnd(a, t))

\* accumulate_history_sums adds the state after step k to every sum.
Accumulated(c, k) == [c EXCEPT !.sum[k] = @ + 1]

\* complete.
Completed(c, a, t) ==
  LET counted == [c EXCEPT !.count = @ + 1]
  IN  IF t = c.end THEN FinishedTo(counted, a, c.end + Frequency[a])
                   ELSE counted

\* detach_complete: the collection afterwards, and what is detached.
DetachCompleted(c, a, t) ==
  LET counted == [c EXCEPT !.count = @ + 1]
  IN  IF t < c.end THEN counted
      ELSE Advanced(Reset(counted), a, c.end + Frequency[a])

DetachedAverage(c, a, t) ==
  IF t < c.end THEN <<>>
  ELSE LET after == DetachCompleted(c, a, t)
       IN  <<[owner |-> a, group |-> c.group,
              row |-> [CurrentRow(c) EXCEPT !.count = @ + 1],
              close |-> after.group # c.group]>>

\* write_detached.
WithDetached(c, out) ==
  LET w == WithRow(c, out.group, out.row)
  IN  IF out.close THEN [w EXCEPT !.open = None] ELSE w

\* close: the window that is running is written as it is.
Closed(c) == [Reset(Appended(c)) EXCEPT !.open = None]
-----------------------------------------------------------------------------
(* Restart collections.                                                    *)

\* Mutated: a boundary that a step reaches is not due yet.
DuePassed(r, c, t) == {b \in Time : c.next <= b /\ b < t /\ b % Frequency[r] = 0}

Due(r, c, t) == {b \in Time : c.next <= b /\ b <= t /\ b % Frequency[r] = 0}

AfterDue(r, c, t) ==
  IF t < c.next THEN c.next ELSE (t \div Frequency[r] + 1) * Frequency[r]

\* record_step of the restart writer: one file per boundary that was passed.
Recorded(r, c, k) ==
  [next |-> AfterDue(r, c, StepEnd(k)),
   files |-> [b \in Time |-> IF b \in Due(r, c, StepEnd(k)) THEN k
                                                          ELSE c.files[b]]]

\* detach_step advances the schedule only.
DetachRecorded(r, c, k) == [c EXCEPT !.next = AfterDue(r, c, StepEnd(k))]

DetachedRestarts(r, c, k) ==
  LET due == InOrder(Due(r, c, StepEnd(k)))
  IN  [i \in DOMAIN due |-> [boundary |-> due[i], step |-> k]]
-----------------------------------------------------------------------------
(* The steps of the run loop.                                              *)

UseCuda == setup.backend = "cuda"
Current == step + 1   \* the step the loop is working on

\* prepare_step and accumulate_history_sums.
Prepare ==
  [a \in setup.averages |->
     Accumulated(PreparedFor(average[a], a, StepEnd(Current)), Current)]

\* CPU: prepare_step, accumulate_history_sums and complete_step.
RecordStep ==
  /\ phase = "running" /\ ~UseCuda /\ step < Steps
  /\ average' = [a \in setup.averages |->
                    Completed(Prepare[a], a, StepEnd(Current))]
  /\ restart' = [r \in Restart |-> Recorded(r, restart[r], Current)]
  /\ step' = Current
  /\ UNCHANGED <<phase, setup, last, prepared, detached, abandoned>>

\* complete_step raises while it writes a window of `failing`: the
\* collections before it are complete, those after it are not counted.
RecordRaises ==
  /\ "write" \in Faults
  /\ phase = "running" /\ ~UseCuda /\ step < Steps
  /\ \E done \in SUBSET setup.averages :
     \E failing \in setup.averages \ done :
       /\ StepEnd(Current) = Prepare[failing].end
       /\ average' = [a \in setup.averages |->
            IF a \in done THEN Completed(Prepare[a], a, StepEnd(Current))
            ELSE IF a = failing THEN [Prepare[a] EXCEPT !.count = @ + 1]
            ELSE Prepare[a]]
  /\ prepared' = Current
  /\ phase' = "unwinding"
  /\ UNCHANGED <<setup, step, last, restart, detached, abandoned>>

\* CUDA: prepare_step and the queued accumulation.
PrepareStep ==
  /\ phase = "running" /\ UseCuda /\ step < Steps
  /\ average' = Prepare
  /\ prepared' = Current
  /\ phase' = "prepared"
  /\ UNCHANGED <<setup, step, last, restart, detached, abandoned>>

RequiresHostCompletion ==
  \/ \E a \in setup.averages : StepEnd(prepared) >= average[a].end
  \/ \E r \in Restart : StepEnd(prepared) >= restart[r].next

\* runner.py _cuda_batch_requires_completion; `other` stands for ObsOperator,
\* emissions and forcing buffers.  Within a batch the step is completed.
StepEndsBatch ==
  /\ phase = "prepared"
  /\ \E fetched, other \in BOOLEAN :
       /\ fetched => prepared < Steps
       /\ ~fetched /\ prepared < Steps => "raise" \in Faults
       /\ ~fetched \/ other \/ RequiresHostCompletion
       /\ last' = ~fetched
  /\ phase' = "drain"
  /\ UNCHANGED <<setup, step, average, restart, prepared, detached, abandoned>>

\* Mutated: the prepared time is not cleared.
CompleteStepStaysPrepared ==
  /\ phase = "prepared" /\ prepared < Steps /\ ~RequiresHostCompletion
  /\ average' = [a \in setup.averages |->
                    Completed(average[a], a, StepEnd(prepared))]
  /\ restart' = [r \in Restart |-> Recorded(r, restart[r], prepared)]
  /\ step' = prepared
  /\ phase' = "running"
  /\ UNCHANGED <<setup, last, prepared, detached, abandoned>>

CompleteStep ==
  /\ phase = "prepared" /\ prepared < Steps /\ ~RequiresHostCompletion
  /\ average' = [a \in setup.averages |->
                    Completed(average[a], a, StepEnd(prepared))]
  /\ restart' = [r \in Restart |-> Recorded(r, restart[r], prepared)]
  /\ step' = prepared /\ prepared' = 0
  /\ phase' = "running"
  /\ UNCHANGED <<setup, last, detached, abandoned>>

Draining == phase \in {"drain", "drainLast", "closeDrain"}

\* write_detached_cuda_outputs, one output.  Collections have files of their
\* own, so the order between them does not matter.
DrainOne(c) ==
  /\ Draining /\ detached[c] # <<>>
  /\ LET out == Head(detached[c])
     IN  IF c \in Restart
         THEN /\ restart' = [restart EXCEPT ![c].files[out.boundary] = out.step]
              /\ UNCHANGED average
         ELSE /\ average' = [average EXCEPT ![c] = WithDetached(@, out)]
              /\ UNCHANGED restart
  /\ detached' = [detached EXCEPT ![c] = Tail(@)]
  /\ UNCHANGED <<phase, setup, step, last, prepared, abandoned>>

DrainDone ==
  /\ Draining /\ \A c \in DOMAIN detached : detached[c] = <<>>
  /\ phase' = CASE phase = "drain" -> "detach"
                [] phase = "drainLast" -> "unwinding"
                [] phase = "closeDrain" -> "closing"
  /\ UNCHANGED <<setup, step, last, average, restart, prepared, detached,
                 abandoned>>

\* detach_cuda_step.
DetachStep ==
  /\ phase = "detach"
  /\ average' = [a \in setup.averages |->
                    DetachCompleted(average[a], a, StepEnd(prepared))]
  /\ restart' = [r \in Restart |-> DetachRecorded(r, restart[r], prepared)]
  /\ detached' = [c \in DOMAIN detached |-> detached[c] \o
       IF c \in Restart THEN DetachedRestarts(c, restart[c], prepared)
       ELSE DetachedAverage(average[c], c, StepEnd(prepared))]
  /\ step' = prepared /\ prepared' = 0
  /\ phase' = IF last THEN "drainLast" ELSE "running"
  /\ UNCHANGED <<setup, last, abandoned>>

\* Mutated: the loop goes on until the time is exactly the end.
LoopEndsExactly ==
  /\ phase = "running" /\ StepEnd(step) = End
  /\ phase' = "unwinding"
  /\ UNCHANGED <<setup, step, last, average, restart, prepared, detached,
                 abandoned>>

LoopEnds ==
  /\ phase = "running" /\ step = Steps
  /\ phase' = "unwinding"
  /\ UNCHANGED <<setup, step, last, average, restart, prepared, detached,
                 abandoned>>

Raise ==
  /\ "raise" \in Faults
  /\ phase = "running" /\ step < Steps
  /\ phase' = "unwinding"
  /\ UNCHANGED <<setup, step, last, average, restart, prepared, detached,
                 abandoned>>

BoundaryRaises ==
  /\ "boundary" \in Faults
  /\ phase \in {"prepared", "detach"}
  /\ phase' = "unwinding"
  /\ UNCHANGED <<setup, step, last, average, restart, prepared, detached,
                 abandoned>>

\* Mutated: the detached outputs are not written.
CloseWithoutDrain ==
  /\ phase = "unwinding"
  /\ abandoned' = prepared /\ prepared' = 0
  /\ phase' = "closing"
  /\ UNCHANGED <<setup, step, last, average, restart, detached>>

\* close, up to the detached outputs.
Close ==
  /\ phase = "unwinding"
  /\ abandoned' = prepared /\ prepared' = 0
  /\ phase' = "closeDrain"
  /\ UNCHANGED <<setup, step, last, average, restart, detached>>

\* Windows that have begun are written, but not before a first step has
\* completed (_last_state is None then, and close() raises).
CloseFinishes ==
  /\ phase = "closing"
  /\ average' = IF step = 0 THEN average
                ELSE [a \in setup.averages |-> Closed(average[a])]
  /\ phase' = "closed"
  /\ UNCHANGED <<setup, step, last, restart, prepared, detached, abandoned>>

Run == \/ RecordStep
       \/ PrepareStep \/ StepEndsBatch \/ CompleteStep
       \/ (\E c \in DOMAIN detached : DrainOne(c)) \/ DrainDone \/ DetachStep
       \/ LoopEnds \/ Close \/ CloseFinishes

Fault == Raise \/ RecordRaises \/ BoundaryRaises

Next == Run \/ Fault

Spec == Init /\ [][Next]_vars

\* The run loop is a thread that has been started.
FairSpec == Spec /\ WF_vars(Run)
-----------------------------------------------------------------------------
(* What a file should hold.                                                *)

\* The steps up to m that end in the window (start, start + Frequency[a]].
SamplesOf(a, start, m) ==
  {k \in 1 .. m : start < StepEnd(k) /\ StepEnd(k) <= start + Frequency[a]}

\* The row of a window: every one of its steps once, and their number.
MeanOf(a, start, m) ==
  LET samples == SamplesOf(a, start, m)
  IN  [time |-> start, count |-> Cardinality(samples),
       sum |-> [k \in Sample |-> IF k \in samples THEN 1 ELSE 0]]

\* The file of group g after m steps, each window with samples in its place.
Expected(a, g, m) ==
  LET starts == {t \in Time : /\ t % Frequency[a] = 0 /\ GroupOf(a, t) = g
                              /\ SamplesOf(a, t, m) # {}}
      inOrder == InOrder(starts)
  IN  [i \in DOMAIN inOrder |-> MeanOf(a, inOrder[i], m)]

\* The same, with the abandoned step in the last sum but not in its count.
Uncounted(a, g, m) ==
  LET rows == Expected(a, g, m)
  IN  IF rows = <<>> THEN rows ELSE [rows EXCEPT ![Len(rows)].count = @ - 1]

TypeOK ==
  /\ phase \in {"running", "prepared", "drain", "detach", "drainLast",
                "unwinding", "closeDrain", "closing", "closed"}
  /\ setup \in Setups /\ step \in 0 .. Steps /\ last \in BOOLEAN
  /\ prepared \in {0, step + 1} /\ prepared <= Steps
  /\ abandoned \in 0 .. Steps
  /\ average \in [setup.averages ->
       [start : {None} \cup Time, end : {None} \cup Nat,
        group : {None} \cup Time, count : Nat, sum : [Sample -> Nat],
        open : {None} \cup Time, files : [Time -> Seq(Row)]]]
  /\ restart \in [Restart -> [next : Nat, files : [Time -> 0 .. Steps]]]
  /\ \A a \in setup.averages : detached[a] \in
       Seq([owner : Average, group : Time, row : Row, close : BOOLEAN])
  /\ \A r \in Restart : detached[r] \in
       Seq([boundary : Time, step : Sample])

(***************************************************************************)
(* RowsInOrder: until close() has written the unfinished windows, each     *)
(* file is the beginning of its schedule: the windows of its group in      *)
(* order, none missing before another, each with all of its steps, each    *)
(* step once.  Detaching must not change that: a window detached at one    *)
(* boundary is written after windows of the next batch were accumulated    *)
(* and, for its group, before any of them.                                 *)
(***************************************************************************)
RowsInOrder ==
  phase # "closed" =>
    \A a \in setup.averages, g \in Time :
      IsPrefix(average[a].files[g], Expected(a, g, Steps))

(***************************************************************************)
(* NothingMissing: however the run ended, its files hold every window of   *)
(* its completed steps, the last one with the samples it has.  When a step *)
(* was abandoned between prepare_step and its completion, that step may    *)
(* be in the last window, and then perhaps not in its count.               *)
(***************************************************************************)
NothingMissing ==
  phase = "closed" /\ step # 0 =>
    \A a \in setup.averages :
      LET files == average[a].files
          current == average[a].group
      IN  \/ \A g \in Time : files[g] = Expected(a, g, step)
          \/ /\ abandoned # 0
             /\ \A g \in Time \ {current} :
                  files[g] = Expected(a, g, abandoned)
             /\ files[current] \in {Expected(a, current, abandoned),
                                    Uncounted(a, current, abandoned)}

(***************************************************************************)
(* RestartsExact: a restart file holds the state at exactly its boundary,  *)
(* though a CUDA run writes it up to a batch later, and a finished run has *)
(* written all the boundaries its completed steps reached.                 *)
(***************************************************************************)
RestartsExact ==
  \A r \in Restart : \A b \in 1 .. End :
    LET k == restart[r].files[b]
    IN  /\ k # 0 => StepEnd(k) = b
        /\ phase = "closed" /\ b % Frequency[r] = 0 /\ b <= StepEnd(step)
             => k # 0

(***************************************************************************)
(* FilesGrow: a file is never opened anew once it holds rows, whichever    *)
(* order windows are completed, detached, drained and closed in: opening   *)
(* creates an empty file in its place.                                     *)
(***************************************************************************)
FilesGrow ==
  [][\A a \in setup.averages, g \in Time :
       IsPrefix(average[a].files[g], average'[a].files[g])]_vars

(***************************************************************************)
(* RunCloses: the run loop comes to its end and close() with it: no choice *)
(* of batch boundaries keeps an output detached for ever.                  *)
(***************************************************************************)
RunCloses == <>(phase = "closed")
=============================================================================
