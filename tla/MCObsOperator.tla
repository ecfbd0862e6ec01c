---------------------------- MODULE MCObsOperator ----------------------------
(***************************************************************************)
(* A small campaign: two days of two steps, five entries.  The file of the *)
(* first day is not in completion order; "cross" spans midnight and ties   *)
(* with "late" of the second day; "multi" has overlapping components;      *)
(* "again" reuses the id of an observation that has completed by then.     *)
(***************************************************************************)
EXTENDS ObsOperatorRefinement, ObsOperatorInvariant, ObsInput

MCEntry == {"first", "cross", "multi", "late", "again"}
MCComponent == {1, 2}
MCHorizon == 4

MCId == [e \in MCEntry |-> IF e = "again" THEN "first" ELSE e]

Span(a, b) == [lo |-> a, hi |-> b]

MCWindow ==
  [first |-> <<Span(0, 1), Unused>>,
   cross |-> <<Span(0, 3), Unused>>,
   multi |-> <<Span(0, 2), Span(1, 2)>>,
   late  |-> <<Span(2, 3), Unused>>,
   again |-> <<Span(2, 3), Span(3, 4)>>]

MCEnd == [first |-> 1, cross |-> 3, multi |-> 2, late |-> 3, again |-> 4]

MCInputFile == {"day1", "day2"}
MCEntries == [day1 |-> <<"cross", "multi", "first">>,
              day2 |-> <<"again", "late">>]
MCInPath == [t \in 0 .. 3 |-> IF t < 2 THEN "day1" ELSE "day2"]

\* output_file with the hour in its template: one file per step.
MCOutputFile == {"f0", "f1", "f2", "f3"}
MCOutPath == [t \in 0 .. 3 |-> <<"f0", "f1", "f2", "f3">>[t + 1]]

\* ... or the day: two steps share a file.
DailyPath == [t \in 0 .. 3 |-> <<"f0", "f0", "f1", "f1">>[t + 1]]

\* Entries that share fields, boxes and ranges of different number.
MCTracers == <<"CO", "CH4">>
MCSentinel == -1
MCComponents == <<2, 1>>
MCRequests == [first |-> <<"CH4", "CO">>, cross |-> <<"CO">>, multi |-> <<"CH4", "all">>,
               late |-> <<"all">>, again |-> <<"CO", "CO">>]
MCHorizontal == [e \in MCEntry |-> IF e \in {"multi", "late"} THEN <<"box", e>> ELSE <<"box">>]
MCVertical == [e \in MCEntry |-> IF e \in {"cross", "late"} THEN <<e, "range">> ELSE <<"range">>]

\* Steps of ten minutes; dates on and between their boundaries, and indices.
MCDates == {5 * i : i \in 0 .. 8}
MCTimeOperators ==
  {op \in [type : {"point"}, unit : {"time"}, start : MCDates \ {0},
           end : MCDates, weights : {"normalized"}] : op.start = op.end}
  \cup {op \in [type : {"range"}, unit : {"time"}, start : MCDates, end : MCDates,
                weights : {"normalized", "equal"}] : op.start # 0 \/ op.end # 0}
  \cup {op \in [type : {"point", "range"}, unit : {"time_index"}, start : 0 .. 3,
                end : 0 .. 3, weights : {"normalized"}] :
          op.type = "point" => op.start = op.end}
-----------------------------------------------------------------------------
(* Three of the entries are enough for what goes wrong inside a handler.   *)
FewEntry == {"cross", "multi", "late"}
FewId == [e \in FewEntry |-> MCId[e]]
FewWindow == [e \in FewEntry |-> MCWindow[e]]
FewEnd == [e \in FewEntry |-> MCEnd[e]]
FewRequests == [e \in FewEntry |-> MCRequests[e]]
FewHorizontal == [e \in FewEntry |-> MCHorizontal[e]]
FewVertical == [e \in FewEntry |-> MCVertical[e]]
FewEntries == [day1 |-> <<"cross", "multi">>, day2 |-> <<"late">>]
=============================================================================
