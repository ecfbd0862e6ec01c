------------------------------ MODULE ObsTimes ------------------------------
(***************************************************************************)
(* When an observation is taken: how input.py turns a time operator into   *)
(* half-open bounds on model time, and which steps these bounds sample.    *)
(* Times are minutes; a run begins at `begin`.                             *)
(***************************************************************************)
EXTENDS Integers

CONSTANT StepLength  \* transport_dt_s

ASSUME StepAssumption == StepLength \in Nat \ {0}

Larger(a, b) == IF a >= b THEN a ELSE b

\* math.floor and math.ceil of a time over the step.
StepsDown(t) == t \div StepLength
StepsUp(t) == -((-t) \div StepLength)

\* Mutated: the end of a range is rounded like its start.
ParseTimeDown(value, unit, begin, intervalEnd) ==
  IF unit = "time_index" THEN value ELSE StepsDown(value - begin)

\* An index counts steps of the run; a date is the step that begins there,
\* or, at the end of an interval, the one that ends there.
ParseTimeValue(value, unit, begin, intervalEnd) ==
  IF unit = "time_index" THEN value
  ELSE IF intervalEnd THEN Larger(StepsUp(value - begin) - 1, 0)
       ELSE StepsDown(value - begin)

\* A point, and a range between equal dates, is the step that ends there.
IsPoint(op) ==
  \/ op.type = "point"
  \/ op.unit = "time" /\ op.start = op.end

\* The bounds, as a set of one element, or none when they are refused, and
\* the number by which a normalized sum is divided.
ParseTimeOperator(op, begin) ==
  LET end == ParseTimeValue(op.end, op.unit, begin, TRUE)
      start == IF IsPoint(op) THEN end
               ELSE ParseTimeValue(op.start, op.unit, begin, FALSE)
  IN  IF start > end THEN {}
      ELSE {[lo |-> begin + start * StepLength,
             hi |-> begin + (end + 1) * StepLength,
             count |-> IF op.weights = "normalized" THEN end - start + 1 ELSE 1]}

\* sampling.py: a step is sampled if it begins within the bounds.
Samples(window, step) ==
  window.lo <= step * StepLength /\ step * StepLength < window.hi

-----------------------------------------------------------------------------
(* What the user guide says of time operators.                             *)

\* "Point times sample the period ending at that timestamp."
PeriodEndingAt(step, date) ==
  step * StepLength < date /\ date <= (step + 1) * StepLength

\* "Date-time ranges describe half-open model periods."
PeriodMeets(step, from, to) ==
  step * StepLength < to /\ from < (step + 1) * StepLength

\* "Time indices are zero-based": index 0 is the first step of the run.
Indexed(step, begin, from, to) ==
  begin + from * StepLength <= step * StepLength
    /\ step * StepLength <= begin + to * StepLength

Stated(op, begin, step) ==
  IF op.unit = "time_index" THEN Indexed(step, begin, op.start, op.end)
  ELSE IF op.start = op.end THEN PeriodEndingAt(step, op.end)
       ELSE PeriodMeets(step, op.start, op.end)

\* A date that the run has passed when it begins.  The guide gives no period
\* of the run to it.
Early(op, begin) == op.unit = "time" /\ op.end <= begin
=============================================================================
