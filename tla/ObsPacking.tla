------------------------------ MODULE ObsPacking ------------------------------
(***************************************************************************)
(* How obsoperator/state.py really holds a plan: flat arrays, in which     *)
(* every entry owns a run of fields, times, boxes and level ranges given   *)
(* by a start and a count; loading, merging and compacting copy the runs   *)
(* of entries, in a new order, into arrays counted beforehand.  Offsets    *)
(* are from 0, as there; entries are numbered from 1, like the plans of    *)
(* ObsPlan.                                                                *)
(***************************************************************************)
EXTENDS ObsPlan, SequencesExt

CONSTANTS
  Tracers,     \* the tracers of the state, in order
  Requests,    \* Requests[e]: the items of its "fields", a tracer or All
  All,         \* FIELD_ALL, FIELD_ADVECTED
  Components,  \* the components in the order of the input file
  Horizontal,  \* Horizontal[e]: its horizontal operators
  Vertical,    \* Vertical[e]: its vertical operators
  Sentinel,    \* 1 us before 1970, "no boundary", on the axis of the steps
  Uninitialised

\* A sequence, whatever it holds, and one without repetition.
IsRun(s) == s \in Seq({s[i] : i \in DOMAIN s})
IsList(s) == IsRun(s) /\ \A i, j \in DOMAIN s : s[i] = s[j] => i = j

\* A tracer stands for its index in the state, so no tracer is there twice.
ASSUME TracersAssumption == IsList(Tracers)

ASSUME RequestAssumption ==
  /\ Requests \in [Entry -> Seq({All} \cup {Tracers[i] : i \in DOMAIN Tracers})]
  /\ \A e \in Entry :
       /\ Requests[e] # <<>> /\ Horizontal[e] # <<>> /\ Vertical[e] # <<>>
       /\ IsRun(Horizontal[e]) /\ IsRun(Vertical[e])

ASSUME ComponentsAssumption ==
  IsList(Components) /\ {Components[i] : i \in DOMAIN Components} = Component

\* state.py:323 and input.py:248 use -1 us for a copy without a boundary; it
\* is one only because no window reaches back to it.
ASSUME SentinelAssumption ==
  /\ Sentinel \in Int
  /\ \A e \in Entry, c \in Component :
       Window[e][c] # Unused => Sentinel <= Window[e][c].lo

(***************************************************************************)
(* Ragged arrays.                                                          *)
(***************************************************************************)
\* What is copied of s by a loop that passes over the other positions.
Selected(s, positions) ==
  [n \in 1 .. Cardinality(positions) |->
     s[CHOOSE i \in positions : Cardinality({j \in positions : j <= i}) = n]]

AddRow(ragged, row) ==
  [start |-> Append(ragged.start, Len(ragged.data)),
   count |-> Append(ragged.count, Len(row)), data |-> ragged.data \o row]
Ragged(rows) == FoldLeft(AddRow, [start |-> <<>>, count |-> <<>>, data |-> <<>>], rows)
Row(ragged, n) == SubSeq(ragged.data, ragged.start[n] + 1, ragged.start[n] + ragged.count[n])

Total(lengths) == FoldLeft(LAMBDA sum, length : sum + length, 0, lengths)

\* The array of `size` items allocated for a row after row copy.
Filled(ragged, size) ==
  [ragged EXCEPT !.data = [n \in 1 .. size |-> IF n \in DOMAIN @ THEN @[n] ELSE Uninitialised]]

(***************************************************************************)
(* A plan with the given entries, and nothing left over: what input.py     *)
(* fills from a file and what every copy should give again.                *)
(***************************************************************************)
\* Mutated: a tracer asked for twice is a field twice.
ParseFieldsRepeated(request) ==
  FoldLeft(LAMBDA fields, value : fields \o (IF value = All THEN Tracers ELSE <<value>>),
           <<>>, request)
ParseFields(request) ==
  LET Asked(value) == IF value = All THEN Tracers ELSE <<value>>
      New(fields, tracers) == {n \in DOMAIN tracers : ~Contains(fields, tracers[n])}
      Add(fields, value) ==
        fields \o Selected(Asked(value), New(fields, Asked(value)))
  IN  FoldLeft(Add, <<>>, request)

TimeRow(win) ==
  LET used == Selected(Components, {n \in DOMAIN Components : win[Components[n]] # Unused})
  IN  [n \in DOMAIN used |-> [lo |-> win[used[n]].lo, hi |-> win[used[n]].hi,
                              weight |-> used[n]]]

\* The field at an offset owns the accumulator there.
OwnSlots(tracers) ==
  [tracers EXCEPT !.data = [n \in DOMAIN @ |-> [tracer |-> @[n], slot |-> n]]]

Packed(plan, first) ==
  LET fields == [i \in DOMAIN plan |-> ParseFields(Requests[plan[i].name])]
  IN  [ids |-> [i \in DOMAIN plan |-> plan[i].name],
       end |-> [i \in DOMAIN plan |-> End[plan[i].name]],
       field |-> OwnSlots(Ragged(fields)),
       accumulator |-> FlattenSeq([i \in DOMAIN plan |->
                          [n \in DOMAIN fields[i] |-> <<fields[i][n], plan[i].acc>>]]),
       time |-> Ragged([i \in DOMAIN plan |-> TimeRow(plan[i].win)]),
       horizontal |-> Ragged([i \in DOMAIN plan |-> Horizontal[plan[i].name]]),
       vertical |-> Ragged([i \in DOMAIN plan |-> Vertical[plan[i].name]]),
       first |-> first]
EmptyPacked == Packed(<<>>, 0)

(***************************************************************************)
(* _copy_ordered_plans: the entries <<0, i>> of the left and <<1, i>> of   *)
(* the right plan, in the given order, from the boundary on.               *)
(***************************************************************************)
Unfinished(row, boundary) == {n \in DOMAIN row : row[n].hi > boundary}
Remaining(row, boundary) ==
  LET kept == Selected(row, Unfinished(row, boundary))
  IN  [n \in DOMAIN kept |-> [kept[n] EXCEPT !.lo = Later(@, boundary)]]

\* What _count_ordered_kernel finds to allocate.
CountTimes(rows, boundary) ==
  Total([n \in DOMAIN rows |-> Cardinality(Unfinished(rows[n], boundary))])
CountRows(rows) == Total([n \in DOMAIN rows |-> Len(rows[n])])

CopyOrdered(left, right, order, boundary) ==
  LET Source(n) == IF order[n][1] = 0 THEN left ELSE right
      Rows(name) == [n \in DOMAIN order |-> Row(Source(n)[name], order[n][2])]
      Copied(name) == Filled(Ragged(Rows(name)), CountRows(Rows(name)))
      fields == Rows("field")
      times == Rows("time")
  IN  [ids |-> [n \in DOMAIN order |-> Source(n).ids[order[n][2]]],
       end |-> [n \in DOMAIN order |-> Source(n).end[order[n][2]]],
       field |-> OwnSlots(Filled(Ragged([n \in DOMAIN fields |->
                                    [m \in DOMAIN fields[n] |-> fields[n][m].tracer]]),
                                 CountRows(fields))),
       accumulator |-> FlattenSeq([n \in DOMAIN fields |->
                          [m \in DOMAIN fields[n] |->
                             Source(n).accumulator[fields[n][m].slot]]]),
       time |-> Filled(Ragged([n \in DOMAIN times |-> Remaining(times[n], boundary)]),
                       CountTimes(times, boundary)),
       horizontal |-> Copied("horizontal"), vertical |-> Copied("vertical"), first |-> 0]

\* Mutated: of entries that end together, those of the right plan come first.
TakeRight(left, right, l, r) ==
  r >= Len(right) \/ (l < Len(left) /\ left[l + 1] < right[r + 1])
TakeLeft(left, right, l, r) ==
  r >= Len(right) \/ (l < Len(left) /\ left[l + 1] <= right[r + 1])

\* _merge_order: l and r entries have been taken.
MergeOrder(left, right) ==
  LET Take(order, n) ==
        LET l == Cardinality({i \in DOMAIN order : order[i][1] = 0})
            r == Len(order) - l
        IN  Append(order, IF TakeLeft(left, right, l, r) THEN <<0, l + 1>> ELSE <<1, r + 1>>)
  IN  FoldLeft(Take, <<>>, [n \in 1 .. Len(left) + Len(right) |-> n])

\* merge_obs_plans, of plans without a common id.
MergePacked(left, right) ==
  IF left.ids = <<>> THEN right
  ELSE IF right.ids = <<>> THEN left
  ELSE CopyOrdered(left, right, MergeOrder(left.end, right.end), Sentinel)

\* compact_obs_plan.
CompactPacked(packed, boundary) ==
  LET kept == Selected([n \in DOMAIN packed.ids |-> <<0, n>>],
                       {n \in DOMAIN packed.ids : packed.end[n] > boundary})
      started == \E n \in DOMAIN packed.time.data : packed.time.data[n].lo < boundary
  IN  IF Len(kept) = Len(packed.ids) /\ ~started THEN [packed EXCEPT !.first = 0]
      ELSE CopyOrdered(packed, EmptyPacked, kept, boundary)

\* input.py: the entries in the order of the file, then stably by completion.
LoadPacked(entries) ==
  LET filed == Packed([i \in DOMAIN entries |-> FreshEntry(entries[i])], 0)
      Before(i) == Cardinality({j \in DOMAIN entries :
                     \/ End[entries[j]] < End[entries[i]]
                     \/ End[entries[j]] = End[entries[i]] /\ j < i})
      order == [n \in DOMAIN entries |-> CHOOSE i \in DOMAIN entries : Before(i) = n - 1]
  IN  IF order = [n \in DOMAIN entries |-> n] THEN filed
      ELSE CopyOrdered(filed, EmptyPacked, [n \in DOMAIN entries |-> <<0, order[n]>>], Sentinel)

\* _completed_batch_range of the entries after `from` up to `stop`.
PackedBatch(packed, from, stop) ==
  LET Values(n) == LET row == Row(packed.field, n)
                   IN  [m \in DOMAIN row |-> packed.accumulator[row[m].slot]]
  IN  [ids |-> SubSeq(packed.ids, from + 1, stop),
       samples |-> Ragged([n \in 1 .. stop - from |-> Values(from + n)])]

(***************************************************************************)
(* The sampling kernels, on one step.                                      *)
(***************************************************************************)
Weights(packed, n, t) ==
  LET row == Row(packed.time, n)
  IN  {row[m].weight : m \in {m \in DOMAIN row : row[m].lo <= t /\ t < row[m].hi}}
\* `times` samples of step t for each of the components, into an accumulator.
Gained(accumulator, weights, t, times) ==
  <<accumulator[1],
    [cs \in Component \X Step |->
       accumulator[2][cs] + IF cs[2] = t /\ cs[1] \in weights THEN times ELSE 0]>>

\* sampling.py: entry after entry.  The scratch is indexed by tracer, so a
\* tracer gathers a sample from each field of the entry that names it.
AddField(packed, entry, t, accumulators, m) ==
  LET row == Row(packed.field, entry)
  IN  [accumulators EXCEPT ![row[m].slot] =
         Gained(@, Weights(packed, entry, t), t,
                Cardinality({f \in DOMAIN row : row[f].tracer = row[m].tracer}))]
AddEntry(packed, t, accumulators, entry) ==
  FoldLeft(LAMBDA acc, m : AddField(packed, entry, t, acc, m), accumulators,
           [m \in DOMAIN Row(packed.field, entry) |-> m])
SampledOnCpu(packed, t) ==
  [packed EXCEPT !.accumulator =
     FoldLeft(LAMBDA acc, entry : AddEntry(packed, t, acc, entry), @,
              [n \in 1 .. Len(packed.ids) - packed.first |-> packed.first + n])]

\* sampling_cuda.py and obsoperator.cu: a thread for each field, which finds
\* its entry in an array made with the device plan.
FieldEntry(packed) ==
  FlattenSeq([n \in DOMAIN packed.ids |-> [m \in 1 .. packed.field.count[n] |-> n]])
SampledOnCuda(packed, t) ==
  LET entry == FieldEntry(packed)
      Threads == {f \in DOMAIN packed.field.data : entry[f] > packed.first}
      slot == [f \in Threads |-> packed.field.data[f].slot]
  IN  [packed EXCEPT !.accumulator =
         [a \in DOMAIN @ |->
            IF \E f \in Threads : slot[f] = a
            THEN LET f == CHOOSE f \in Threads : slot[f] = a
                 IN  Gained(@[a], Weights(packed, entry[f], t), t, 1)
            ELSE @[a]]]
=============================================================================
