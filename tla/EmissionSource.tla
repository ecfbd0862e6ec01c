---------------------------- MODULE EmissionSource ----------------------------
(***************************************************************************)
(* The emissions operator of emissions.py and the schedule on which        *)
(* runner.py evaluates it.  A configured field is an array of a file and a *)
(* sequence of scales, themselves arrays or numbers.  Every array is       *)
(* selected by a time, at most one per hour, day or month, and cached      *)
(* under it; the whole surface flux is cached under all the selections.    *)
(*                                                                         *)
(* A file is the sequence of the times of its records.  The value of an    *)
(* array is the record it was read from.                                   *)
(***************************************************************************)
EXTENDS Integers, FiniteSetsExt, SequencesExt, Functions

CONSTANTS Files,    \* file name -> increasing sequence of times of its records
          Fields,   \* sequence of [file, frequency, scales]; scales names Scales
          Scales,   \* scale name -> [file, frequency]; file NumberScale has no file
          Month     \* seconds in a month

NumberScale == "number"

NoFlux == [address |-> -1]    \* in place of a surface flux where there is none

HourOf(t) == (t \div 3600) * 3600
DayOf(t) == (t \div 86400) * 86400
MonthOf(t) == (t \div Month) * Month
Constant == -10 * Month                  \* 2000-01-01, before every record

Frequencies == {"hourly", "daily", "monthly", "constant"}

\* Fields name files and scales that are configured; for another frequency
\* _selection_time raises.
ASSUME FieldsAssumption ==
  /\ Fields \in Seq([file : DOMAIN Files, frequency : Frequencies, scales : Seq(DOMAIN Scales)])
  /\ \A name \in DOMAIN Scales : Scales[name].frequency \in Frequencies

SelectionTime(t, frequency) ==
  CASE frequency = "hourly" -> HourOf(t)
    [] frequency = "daily" -> DayOf(t)
    [] frequency = "monthly" -> MonthOf(t)
    [] frequency = "constant" -> Constant

\* Seconds; a constant field takes the nearest record however far it is.
Tolerance(frequency) ==
  CASE frequency = "hourly" -> 1836
    [] frequency = "daily" -> 43236
    [] frequency = "monthly" -> 86436
    [] frequency = "constant" -> 1000 * Month

Distance(a, b) == IF a < b THEN b - a ELSE a - b

\* The first of the nearest records.
Nearest(times, target) ==
  LET nearest == Min({Distance(times[i], target) : i \in DOMAIN times})
  IN  Min({i \in DOMAIN times : Distance(times[i], target) = nearest})

Found(file, target, frequency) ==
  Distance(Files[file][Nearest(Files[file], target)], target) <= Tolerance(frequency)

Read(file, target) == <<file, Nearest(Files[file], target)>>

-----------------------------------------------------------------------------
(* Caches: functions from keys to values, a key ends with its selection.   *)

EmptyCaches == [key |-> <<>>, flux |-> NoFlux, fields |-> <<>>, scales |-> <<>>]

ArrayKey(spec, t) == <<spec.file, SelectionTime(t, spec.frequency)>>
ScaleKey(name, t) == <<name, SelectionTime(t, Scales[name].frequency)>>

FieldKeys(t) == {ArrayKey(Fields[i], t) : i \in DOMAIN Fields}
ScaleNames == UNION {Range(Fields[i].scales) : i \in DOMAIN Fields}
FileScales == {name \in ScaleNames : Scales[name].file # NumberScale}
ScaleKeys(t) == {ScaleKey(name, t) : name \in FileScales}

(* Mutated: the scales are left out of the key of the whole flux. *)
FieldsOnlyKey(t) ==
  [i \in DOMAIN Fields |-> <<SelectionTime(t, Fields[i].frequency)>>]

SurfaceKey(t) ==
  [i \in DOMAIN Fields |->
     <<SelectionTime(t, Fields[i].frequency)>> \o
     [j \in DOMAIN Fields[i].scales |->
        SelectionTime(t, Scales[Fields[i].scales[j]].frequency)]]

Readables(t) ==
  /\ \A i \in DOMAIN Fields :
       Found(Fields[i].file, SelectionTime(t, Fields[i].frequency), Fields[i].frequency)
  /\ \A name \in FileScales :
       Found(Scales[name].file, SelectionTime(t, Scales[name].frequency), Scales[name].frequency)

\* What is already cached wins over what would be read.
Filled(cache, keys, FileOf(_)) ==
  [key \in DOMAIN cache \union keys |->
     IF key \in DOMAIN cache THEN cache[key] ELSE Read(FileOf(key), key[2])]

FilledFields(caches, t) ==
  LET FileOf(key) == key[1] IN Filled(caches.fields, FieldKeys(t), FileOf)
FilledScales(caches, t) ==
  LET FileOf(key) == Scales[key[1]].file IN Filled(caches.scales, ScaleKeys(t), FileOf)

KeepTimes(t) ==
  {Constant} \union {SelectionTime(t, Fields[i].frequency) : i \in DOMAIN Fields}
             \union {SelectionTime(t, Scales[name].frequency) : name \in ScaleNames}

(* Mutated: nothing leaves the caches. *)
KeepAll(cache, t) == cache

Prune(cache, t) == Restrict(cache, {key \in DOMAIN cache : key[2] \in KeepTimes(t)})

Sum(fields, scales, t) ==
  [i \in DOMAIN Fields |->
     <<fields[ArrayKey(Fields[i], t)]>> \o
     [j \in DOMAIN Fields[i].scales |->
        LET name == Fields[i].scales[j]
        IN  IF name \in FileScales THEN scales[ScaleKey(name, t)] ELSE <<NumberScale, name>>]]

(***************************************************************************)
(* evaluate_surface_flux: the cached flux when every selection is the one  *)
(* it was computed for, otherwise a new object, after which what no        *)
(* selection of this time needs leaves the caches.                         *)
(***************************************************************************)
Hit(caches, t) == caches.key = SurfaceKey(t) /\ caches.flux # NoFlux

Evaluate(caches, t, address) ==
  IF Hit(caches, t) THEN [ok |-> TRUE, caches |-> caches, flux |-> caches.flux]
  ELSE LET fields == FilledFields(caches, t)
           scales == FilledScales(caches, t)
           flux == [address |-> address, sum |-> Sum(fields, scales, t)]
       IN  IF Readables(t)
           THEN [ok |-> TRUE, flux |-> flux,
                 caches |-> [key |-> SurfaceKey(t), flux |-> flux,
                             fields |-> Prune(fields, t), scales |-> Prune(scales, t)]]
           ELSE [ok |-> FALSE, flux |-> NoFlux, caches |-> caches]

\* The same without any cache: what the configuration means.
SumAt(t) == Sum(FilledFields(EmptyCaches, t), FilledScales(EmptyCaches, t), t)

-----------------------------------------------------------------------------
(* The schedule of runner.py.                                              *)

ValidSchedule(transport, emissions) ==
  transport > 0 /\ emissions > 0 /\ emissions % transport = 0

(* Mutated: the last step of an interval instead of the one in its middle. *)
CenterAtEnd(transport, emissions) == emissions \div transport

Center(transport, emissions) == Max({(emissions \div transport) \div 2, 1})

IsTimeForEmissions(elapsed, transport, emissions) ==
  elapsed % emissions = (Center(transport, emissions) - 1) * transport

Midpoint(elapsed, emissions) == elapsed + emissions \div 2
=============================================================================
