---------------------------- MODULE ForcingBlocks ----------------------------
(***************************************************************************)
(* The block cache of transport/forcing.py.  Meteorology is read in blocks *)
(* of records: hourly means (a1), three-hourly means (a3) and              *)
(* instantaneous fields (i3), each from one file per day.  A step needs    *)
(* one a1 and one a3 record and the two i3 records around it.              *)
(*                                                                         *)
(* A record is a pair of a file's day and a position in that file: what    *)
(* the arrays hold is never needed, only where it came from.  A block is   *)
(* an object with an address (its id()), the number of its first record,   *)
(* the number of records it was asked for and the rows it holds.           *)
(***************************************************************************)
EXTENDS Integers, SequencesExt

Kinds == {"a1", "a3", "i3"}

RecordsPerDay == [a1 |-> 24, a3 |-> 8, i3 |-> 8]
NaturalRecords == [a1 |-> 24, a3 |-> 4, i3 |-> 4]

(* Mutated: no endpoint is read. *)
NoEndpoint(kind, count) == count

\* An i3 block has one row more than its records: the endpoint of the last.
ReadCount(kind, count) == IF kind = "i3" THEN count + 1 ELSE count

Hour == 3600
Window == 3 * Hour    \* i3 records are this far apart

NoRecord == <<>>
NoBlock == [address |-> 0, start |-> 0, count |-> 0, rows |-> <<>>]

(* The pieces of files that hold `count` records from `start` on. *)
RecordSpans(start, count, perDay) ==
  LET stop == start + count
      from[index \in start..stop] ==
        IF index = stop THEN <<>>
        ELSE LET records == Min({stop - index, perDay - (index % perDay)})
             IN  <<[day |-> index \div perDay, first |-> index % perDay, records |-> records]>>
                   \o from[index + records]
  IN  from[start]

Spans(kind, start, count) == RecordSpans(start, ReadCount(kind, count), RecordsPerDay[kind])

SpanRows(span) == [i \in 1..span.records |-> <<span.day, span.first + i - 1>>]

BlockStart(index, size) == (index \div size) * size

(* Reading a block fails when the file of one of its days is missing. *)
Readable(kind, start, count, days) ==
  \A i \in DOMAIN Spans(kind, start, count) : Spans(kind, start, count)[i].day < days

LoadBlock(kind, start, count, address) ==
  [address |-> address, start |-> start, count |-> count,
   rows |-> FlattenSeq([i \in DOMAIN Spans(kind, start, count) |->
                          SpanRows(Spans(kind, start, count)[i])])]

ContainsRecord(block, index) ==
  block # NoBlock /\ block.start <= index /\ index < block.start + block.count

ContainsEndpoint(block, index) ==
  block # NoBlock /\ block.start <= index /\ index < block.start + Len(block.rows)

(* The rows of a block at an offset: slicing out of range gives nothing.   *)
Field(block, offset) ==
  IF offset \in 0..Len(block.rows) - 1 THEN block.rows[offset + 1] ELSE NoRecord

BlockSize(kind, multiple) == NaturalRecords[kind] * multiple

(***************************************************************************)
(* The block that serves a record: the cached one, or a new one at         *)
(* `address`, or NoBlock when it cannot be read.                           *)
(***************************************************************************)
Ensure(kind, cached, hit, index, multiple, days, address) ==
  LET size == BlockSize(kind, multiple)
      start == BlockStart(index, size)
  IN  IF hit THEN cached
      ELSE IF Readable(kind, start, size, days) THEN LoadBlock(kind, start, size, address)
      ELSE NoBlock

-----------------------------------------------------------------------------
(* Record numbers of a step that begins `elapsed` seconds into the run.    *)

HourIndex(initial, elapsed) == initial * 3 + elapsed \div Hour
WindowIndex(initial, elapsed) == initial + elapsed \div Window

(* Mutated: a step may not end with its window. *)
CrossesAtEnd(elapsed, dt) == (elapsed % Window) + dt >= Window

CrossesWindow(elapsed, dt) == (elapsed % Window) + dt > Window

(***************************************************************************)
(* chunks_for_step.  Blocks that were read before a failure stay cached.   *)
(* The check that the step stays inside its window comes after the reads.  *)
(***************************************************************************)
ChunksForStep(blocks, initial, multiple, days, elapsed, dt, fresh) ==
  LET hour == HourIndex(initial, elapsed)
      window == WindowIndex(initial, elapsed)
      a1 == Ensure("a1", blocks.a1, ContainsRecord(blocks.a1, hour), hour, multiple, days, fresh.a1)
      a3 == Ensure("a3", blocks.a3, ContainsRecord(blocks.a3, window), window, multiple, days, fresh.a3)
      base == Ensure("i3", blocks.i3, ContainsRecord(blocks.i3, window), window,
                     multiple, days, fresh.i3)
      i3 == IF base = NoBlock THEN NoBlock
            ELSE Ensure("i3", base, ContainsEndpoint(base, window + 1), window + 1,
                        multiple, days, fresh.endpoint)
      read == [a1 |-> a1,
               a3 |-> IF a1 = NoBlock THEN NoBlock ELSE a3,
               i3 |-> IF NoBlock \in {a1, a3} THEN NoBlock
                      ELSE IF i3 = NoBlock THEN base ELSE i3]
      restart == WindowIndex(initial, elapsed + dt)
  IN  [ok |-> /\ NoBlock \notin {a1, a3, i3}
              /\ ~CrossesWindow(elapsed, dt)
              /\ restart \in {window, window + 1},
       blocks |-> [kind \in Kinds |-> IF read[kind] = NoBlock THEN blocks[kind] ELSE read[kind]],
       selection |-> [a1 |-> a1, a3 |-> a3, i3 |-> i3,
                      a1At |-> hour - a1.start, a3At |-> window - a3.start,
                      startAt |-> window - i3.start, endAt |-> window + 1 - i3.start,
                      restartAt |-> restart - i3.start,
                      into |-> elapsed % Window]]

-----------------------------------------------------------------------------
(* What a step should see, from the calendar alone.                        *)

RecordAt(kind, index) == <<index \div RecordsPerDay[kind], index % RecordsPerDay[kind]>>

MetOf(initial, elapsed) ==
  LET now == initial * Window + elapsed
  IN  [a1 |-> RecordAt("a1", now \div Hour), a3 |-> RecordAt("a3", now \div Window),
       start |-> RecordAt("i3", now \div Window), end |-> RecordAt("i3", now \div Window + 1),
       into |-> now % Window]
=============================================================================
