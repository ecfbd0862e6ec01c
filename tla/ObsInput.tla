------------------------------ MODULE ObsInput ------------------------------
(***************************************************************************)
(* What an input file says of when and where, as the runs of a campaign    *)
(* read it: times are relative to the run that reads them, and places are  *)
(* degrees on one of the two global grids, in quarters of a degree.        *)
(***************************************************************************)
EXTENDS ObsPackedPlan, ObsTimes

CONSTANT TimeOperators  \* what files may hold

\* The check of _initialize_for_date on a component's bounds.
Taken(op) ==
  {w \in ParseTimeOperator(op, start * StepLength) :
     w.lo >= current * StepLength}

Reads == phase = "running" /\ current < stop /\ NeedsInput(current)

\* A run that reads a file takes what lies ahead of it, and samples it in the
\* steps that the guide states, whichever run of the campaign it is: the
\* windows of an observation do not depend on where a campaign is split.  A
\* normalized operator is divided by the number of these steps (input.py:306-389,
\* manager.py:373-391, sampling.py:76-82).
TimesAsStated ==
  Reads =>
    \A op \in TimeOperators :
      LET begin == start * StepLength
          steps == {k \in start .. start + 2 * Horizon : Stated(op, begin, k)}
      IN  ~Early(op, begin) =>
            /\ \A w \in Taken(op) :
                 /\ {k \in start .. start + 2 * Horizon : Samples(w, k)} = steps
                 /\ op.weights = "normalized" => w.count = Cardinality(steps)
            /\ Taken(op) = {} =>
                 \/ steps = {}
                 \/ \E k \in 0 .. current - 1 : Stated(op, begin, k)

\* docs/user-guide/obsoperator.md:58-59: "Point times and zero-duration ranges
\* sample the period ending at that timestamp."
PointsSampleTheirPeriod ==
  Reads =>
    \A op \in TimeOperators :
      op.unit = "time" /\ op.start = op.end =>
        \A w \in Taken(op) : \A k \in Step :
          Samples(w, k) => PeriodEndingAt(k, op.end)
-----------------------------------------------------------------------------
Resolution == {"2x25", "4x5"}
Axis == {"longitude", "latitude"}

Upto(from, n, by) == [i \in 1 .. n |-> from + by * (i - 1)]

\* grid.py geos_chem_horizontal_centers: half boxes at the poles.
Centers ==
  [r \in Resolution |->
     IF r = "2x25"
     THEN [longitude |-> Upto(-720, 144, 10),
           latitude |-> <<-358>> \o Upto(-352, 89, 8) \o <<358>>]
     ELSE [longitude |-> Upto(-720, 72, 20),
           latitude |-> <<-356>> \o Upto(-344, 44, 16) \o <<356>>]]

Spacing ==
  [r \in Resolution |-> [axis \in Axis |->
     LET c == Centers[r][axis]
     IN  Max({c[i + 1] - c[i] : i \in 1 .. Len(c) - 1})]]

Bound(axis) == IF axis = "longitude" THEN 720 ELSE 360

\* Mutated: a longitude past the last center stays there.
IndexClamped(r, axis, unit, value) ==
  LET n == Len(Centers[r][axis])
      s == Spacing[r][axis]
      nearest == (2 * (value + Bound(axis)) + 3 * s) \div (2 * s) - 1
  IN  IF unit = "grid_index" THEN {i \in {value - 1} : 0 <= i /\ i < n}
      ELSE IF value \notin -Bound(axis) .. Bound(axis) THEN {}
           ELSE {Min({nearest, n - 1})}

\* The index, from 0, as a set of one element, or none when it is refused.
\* The last half box of longitudes belongs to the first index.
HorizontalIndex(r, axis, unit, value) ==
  LET n == Len(Centers[r][axis])
      s == Spacing[r][axis]
      nearest == (2 * (value + Bound(axis)) + 3 * s) \div (2 * s) - 1
      wrapped == IF axis = "longitude" /\ nearest >= n THEN nearest - n ELSE nearest
  IN  IF unit = "grid_index" THEN {i \in {value - 1} : 0 <= i /\ i < n}
      ELSE IF value \notin -Bound(axis) .. Bound(axis) THEN {}
           ELSE {Min({Max({wrapped, 0}), n - 1})}

\* One axis of a point or a box: half-open bounds, or refused.
HorizontalBounds(r, axis, unit, from, to) ==
  {b \in {<<i, j + 1>> : i \in HorizontalIndex(r, axis, unit, from),
                         j \in HorizontalIndex(r, axis, unit, to)} : b[1] < b[2]}

\* grid.py geos_chem_latitude_edges_deg.
LatitudeEdge(r, i) ==
  CASE i = 0 -> -360
    [] i = Len(Centers[r].latitude) -> 360
    [] OTHER -> -360 - Spacing[r].latitude \div 2 + Spacing[r].latitude * i

\* Is a place in the cell with this index?  Longitudes go round.
CellHolds(r, axis, index, value) ==
  IF axis = "latitude"
  THEN /\ LatitudeEdge(r, index) <= value
       /\ value < LatitudeEdge(r, index + 1) \/ value = 360
  ELSE LET center == Centers[r].longitude[index + 1]
           half == Spacing[r].longitude \div 2
       IN  \E turned \in {value, value - 1440} :
             center - half <= turned /\ turned < center + half

\* An eastern edge in the half box that belongs to the first index: the box is
\* refused, or cut down to that column (see the README).
AtDateline(r, axis, to) ==
  axis = "longitude" /\ to >= 720 - Spacing[r].longitude \div 2

\* Where edges of boxes are interesting, besides every place for points.
Corners(axis) == {-Bound(axis), -Bound(axis) + 5, -9, 0, 5, Bound(axis) - 6, Bound(axis)}

\* A place is put into the cell that contains it, at the poles, on the edges of
\* cells and at the date line too; and a box holds the cells of all places
\* between its edges (input.py:392-458, grid.py:81-133).
CellsAsStated ==
  \A r \in Resolution, axis \in Axis :
    LET Cell(value) == HorizontalIndex(r, axis, "degrees", value)
    IN  /\ \A value \in -Bound(axis) .. Bound(axis) :
             \E i \in Cell(value) : CellHolds(r, axis, i, value)
        /\ \A from, to \in Corners(axis) :
             from <= to /\ ~AtDateline(r, axis, to) =>
               \E b \in HorizontalBounds(r, axis, "degrees", from, to) :
                 \A value \in from .. to : Cell(value) \subseteq b[1] .. b[2] - 1

InputAsStated == TimesAsStated /\ CellsAsStated
=============================================================================
