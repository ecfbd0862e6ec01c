--------------------------- MODULE MCHistoryOutput ---------------------------
(***************************************************************************)
(* Nine steps of two ticks, the run ending inside the ninth.  "a" has      *)
(* windows of four ticks, two to a file of eight, "b" windows of six in    *)
(* files of six: windows and groups of the two end together and apart.     *)
(* "u" has windows of five ticks in files of ten, which end between steps. *)
(* Restarts are written every four ticks.                                  *)
(***************************************************************************)
EXTENDS HistoryOutput

MCFrequency == [c \in Average \cup Restart |->
                  CASE c = "a" -> 4 [] c = "b" -> 6 [] c = "u" -> 5
                    [] OTHER -> 4]
MCDuration == [a \in Average |->
                 CASE a = "a" -> 8 [] a = "b" -> 6 [] OTHER -> 10]

\* Windows that end between steps are in order only without detaching.
InOrderSetups ==
  {[backend |-> "cpu", averages |-> {"a", "b", "u"}],
   [backend |-> "cpu", averages |-> {"u"}],
   [backend |-> "cuda", averages |-> {"a", "b"}],
   [backend |-> "cuda", averages |-> {}]}

\* The documentation puts no such condition on a CUDA run.
UnalignedSetups == {[backend |-> "cuda", averages |-> {"u"}]}
=============================================================================
