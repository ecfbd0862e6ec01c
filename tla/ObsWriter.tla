------------------------------ MODULE ObsWriter ------------------------------
(***************************************************************************)
(* _ObsOperatorNetCDFWriter (src/src/wombat_transport/obsoperator/         *)
(* writer.py): completed observations are staged in memory, within an      *)
(* entry and a sample limit, and flushed to one NetCDF file, where ids and *)
(* field names are tables and every sample refers to them by index.        *)
(*                                                                         *)
(* write_completed is a loop whose iterations may flush, and any write of  *)
(* a flush may fail; the caller may then close the writer (which flushes   *)
(* again) or, when detached CUDA outputs are drained once more, hand the   *)
(* same batch over again.                                                  *)
(***************************************************************************)
EXTENDS Integers, Sequences, SequencesExt

CONSTANTS
  Entry,         \* observations that may be handed over
  FieldName,     \* names that fields may have
  Fields,        \* Fields[e]: the field names of the samples of e
  Batch,         \* the batches write_completed may be called with
  StageEntries,  \* SCIENCE_STAGE_ENTRIES
  StageSamples,  \* SCIENCE_STAGE_SAMPLES
  MaxHanded,     \* bound: entries handed over to one writer
  MaxFailures    \* bound: failing flushes

ASSUME WriterAssumption ==
  /\ Fields \in [Entry -> Seq(FieldName) \ {<<>>}]
  /\ Batch \subseteq Seq(Entry) \ {<<>>}
  /\ StageEntries \in Nat \ {0} /\ StageSamples \in Nat \ {0}
  /\ MaxHanded \in Nat /\ MaxFailures \in Nat

VARIABLES
  pc,        \* "idle", "loop", "flush", "closing", "failed", "closed"
  batch,     \* the batch of the running write_completed
  offset,    \* how many of its entries have been staged
  pending,   \* _pending_batches, as one sequence of entries
  names,     \* _field_names
  entries,   \* _entry_index
  samples,   \* _sample_index
  file,      \* the NetCDF variables field, id, id_index, field_index, sample
  handed,    \* history: the entries staged so far, in order
  failures   \* history: how many flushes have failed

vars == <<pc, batch, offset, pending, names, entries, samples, file, handed,
          failures>>

NoFile == [field |-> <<>>, id |-> <<>>, idIndex |-> <<>>, fieldIndex |-> <<>>,
           sample |-> <<>>]

Init ==
  /\ pc = "idle" /\ batch = <<>> /\ offset = 0
  /\ pending = <<>> /\ names = <<>> /\ entries = 0 /\ samples = 0
  /\ file = NoFile /\ handed = <<>> /\ failures = 0
-----------------------------------------------------------------------------
\* The samples of a sequence of entries: one per field of each of them.
SamplesOf(s) ==
  FlattenSeq([i \in DOMAIN s |->
    [j \in DOMAIN Fields[s[i]] |-> [entry |-> i, field |-> Fields[s[i]][j],
                                    value |-> <<s[i], Fields[s[i]][j]>>]]])

SampleCount(s) ==
  LET count[i \in 0 .. Len(s)] ==
        IF i = 0 THEN 0 ELSE count[i - 1] + Len(Fields[s[i]])
  IN  count[Len(s)]

\* The registry after these rows: new field names at the end, in order.
Registered(rows) ==
  LET known[i \in 0 .. Len(rows)] ==
        IF i = 0 THEN names
        ELSE LET before == known[i - 1]
             IN  IF Contains(before, rows[i].field) THEN before
                 ELSE Append(before, rows[i].field)
  IN  known[Len(rows)]

IndexIn(s, x) == CHOOSE i \in DOMAIN s : s[i] = x

\* Mutated: rows are added at the end of the variable.
AppendRows(s, from, new) == s \o new

\* A slice assignment to a variable with an unlimited dimension.
Overwrite(s, from, new) ==
  [i \in 1 .. (IF Len(s) > from + Len(new) THEN Len(s) ELSE from + Len(new)) |->
     IF from < i /\ i <= from + Len(new) THEN new[i - from] ELSE s[i]]

\* The file after the first k of the writes of a flush, which are in this
\* order; the field table is only written when it has grown.
Flushed(k) ==
  LET rows == SamplesOf(pending)
      known == Registered(rows)
      added == SubSeq(known, Len(names) + 1, Len(known))
  IN  [field |-> IF k >= 1 THEN Overwrite(file.field, Len(names), added)
                           ELSE file.field,
       id |-> IF k >= 2 THEN Overwrite(file.id, entries, pending) ELSE file.id,
       idIndex |-> IF k >= 3
         THEN Overwrite(file.idIndex, samples,
                        [i \in DOMAIN rows |-> entries + rows[i].entry])
         ELSE file.idIndex,
       fieldIndex |-> IF k >= 4
         THEN Overwrite(file.fieldIndex, samples,
                        [i \in DOMAIN rows |-> IndexIn(known, rows[i].field)])
         ELSE file.fieldIndex,
       sample |-> IF k >= 5
         THEN Overwrite(file.sample, samples, [i \in DOMAIN rows |-> rows[i].value])
         ELSE file.sample]

\* Mutated: the sample index stays behind.
FlushKeepsSampleIndex ==
  /\ file' = Flushed(5)
  /\ names' = Registered(SamplesOf(pending))
  /\ entries' = entries + Len(pending)
  /\ pending' = <<>> /\ UNCHANGED samples

\* A flush that succeeds.  Memory changes only after the last write.
Flush ==
  /\ file' = Flushed(5)
  /\ names' = Registered(SamplesOf(pending))
  /\ entries' = entries + Len(pending)
  /\ samples' = samples + SampleCount(pending)
  /\ pending' = <<>>

NoFlush == UNCHANGED <<file, names, entries, samples>>
-----------------------------------------------------------------------------
\* write_completed is called, by the manager or again by a repeated drain.
WriteCompleted(b) ==
  /\ pc \in {"idle", "failed"}
  /\ Len(handed) + Len(b) <= MaxHanded
  /\ pc' = "loop" /\ batch' = b /\ offset' = 0
  /\ UNCHANGED <<pending, handed, failures>> /\ NoFlush

\* Mutated: the whole batch is taken again in every iteration.
WholeBatch == batch

Remaining == SubSeq(batch, offset + 1, Len(batch))
\* Mutated: what is pending already is not counted.
EntryCapacityOfEmpty == StageEntries

EntryCapacity == StageEntries - Len(pending)
SampleCapacity == StageSamples - SampleCount(pending)

\* How many of the remaining entries fit the sample limit.
SampleLimit ==
  CHOOSE n \in 0 .. Len(Remaining) :
    /\ n > 0 => SampleCount(SubSeq(Remaining, 1, n)) <= SampleCapacity
    /\ n < Len(Remaining) =>
         SampleCount(SubSeq(Remaining, 1, n + 1)) > SampleCapacity

\* Mutated: room is made for an oversized entry even when nothing is pending.
MakeRoomForOversized ==
  /\ pc = "loop" /\ offset < Len(batch)
  /\ EntryCapacity <= 0 \/ SampleCapacity <= 0 \/ SampleLimit = 0
  /\ pc' = "flush"
  /\ UNCHANGED <<batch, offset, pending, handed, failures>> /\ NoFlush

\* An iteration that has to make room first.
MakeRoom ==
  /\ pc = "loop" /\ offset < Len(batch)
  /\ \/ EntryCapacity <= 0 \/ SampleCapacity <= 0
     \/ SampleLimit = 0 /\ pending # <<>>
  /\ pc' = "flush"
  /\ UNCHANGED <<batch, offset, pending, handed, failures>> /\ NoFlush

\* An iteration that stages entries: an entry that is larger than the sample
\* limit is staged alone.
Stage ==
  /\ pc = "loop" /\ offset < Len(batch)
  /\ EntryCapacity > 0 /\ SampleCapacity > 0
  /\ SampleLimit = 0 => pending = <<>>
  /\ LET limit == IF SampleLimit = 0 THEN 1 ELSE SampleLimit
         take == IF limit < EntryCapacity THEN limit ELSE EntryCapacity
         taken == SubSeq(Remaining, 1, take)
     IN  /\ pending' = pending \o taken
         /\ handed' = handed \o taken
         /\ offset' = offset + Len(taken)
  /\ pc' = IF \/ Len(pending') >= StageEntries
              \/ SampleCount(pending') >= StageSamples
              \/ offset' < Len(batch)
           THEN "flush" ELSE "loop"
  /\ UNCHANGED <<batch, failures>> /\ NoFlush

LoopEnds ==
  /\ pc = "loop" /\ offset = Len(batch)
  /\ pc' = "idle"
  /\ UNCHANGED <<batch, offset, pending, handed, failures>> /\ NoFlush

FlushSucceeds ==
  /\ pc = "flush"
  /\ Flush
  /\ pc' = "loop"
  /\ UNCHANGED <<batch, offset, handed, failures>>

\* The file cannot be created, or one of the writes raises.
FlushFails ==
  /\ pc \in {"flush", "closing"} /\ pending # <<>>
  /\ failures < MaxFailures
  /\ \E k \in 0 .. 4 : file' = Flushed(k)
  /\ failures' = failures + 1
  /\ pc' = "failed"
  /\ UNCHANGED <<batch, offset, pending, names, entries, samples, handed>>

Close ==
  /\ pc \in {"idle", "failed"}
  /\ pc' = "closing"
  /\ UNCHANGED <<batch, offset, pending, handed, failures>> /\ NoFlush

CloseSucceeds ==
  /\ pc = "closing"
  /\ IF pending = <<>> THEN NoFlush /\ UNCHANGED pending ELSE Flush
  /\ pc' = "closed"
  /\ UNCHANGED <<batch, offset, handed, failures>>

Loop == MakeRoom \/ Stage \/ LoopEnds \/ FlushSucceeds \/ FlushFails

Next ==
  \/ \E b \in Batch : WriteCompleted(b)
  \/ Loop
  \/ Close \/ CloseSucceeds

Spec == Init /\ [][Next]_vars

\* The loop of write_completed runs without waiting for anybody.
FairSpec == Spec /\ WF_vars(Loop)
-----------------------------------------------------------------------------
TypeOK ==
  /\ pc \in {"idle", "loop", "flush", "closing", "failed", "closed"}
  /\ batch \in Seq(Entry) /\ offset \in 0 .. Len(batch)
  /\ pending \in Seq(Entry) /\ handed \in Seq(Entry)
  /\ entries \in Nat /\ samples \in Nat /\ failures \in 0 .. MaxFailures

\* What a reader of the file recovers: each sample with the entry and the
\* field name its indices point to, for the rows that have been committed.
Read(i) ==
  [id |-> file.id[file.idIndex[i]],
   field |-> file.field[file.fieldIndex[i]],
   value |-> file.sample[i]]

Expected(s) ==
  LET rows == SamplesOf(s)
  IN  [i \in DOMAIN rows |-> [id |-> rows[i].value[1], field |-> rows[i].field,
                              value |-> rows[i].value]]

\* Every staged entry is in the file or still pending, once and in the order
\* it was handed over, and its samples resolve to its own id and fields:
\* also when a flush failed half-way and was repeated with more entries.
InOrderOnce ==
  /\ SubSeq(handed, 1, entries) \o pending = handed
  /\ [i \in 1 .. samples |-> Read(i)] = Expected(SubSeq(handed, 1, entries))

\* A file that has been closed holds nothing but what was handed over, the
\* half-written rows of a failed flush included.
ClosedFileIsExact ==
  pc = "closed" =>
    /\ pending = <<>> /\ file.id = handed
    /\ Len(file.idIndex) = SampleCount(handed)
    /\ Len(file.fieldIndex) = SampleCount(handed)
    /\ Len(file.sample) = SampleCount(handed)
    /\ \A i, j \in DOMAIN file.field : file.field[i] = file.field[j] => i = j

\* Memory stays bounded: only a single oversized entry exceeds the limits.
StagingBounded ==
  /\ Len(pending) <= StageEntries
  /\ SampleCount(pending) > StageSamples => Len(pending) = 1

\* The loop comes to an end whatever the sizes of the entries are.
WritingEnds == (pc = "loop") ~> (pc \in {"idle", "failed"})
=============================================================================
