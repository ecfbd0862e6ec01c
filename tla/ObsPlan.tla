------------------------------- MODULE ObsPlan -------------------------------
(***************************************************************************)
(* The ObsOperator plan (src/src/wombat_transport/obsoperator/state.py):   *)
(* the packed table of observation entries that are still accumulating.    *)
(*                                                                         *)
(* A plan is a sequence of entries in completion order.  Times are counted *)
(* in transport steps: step t covers the model period [t, t+1), and t is   *)
(* also the boundary at which it starts.  The microsecond arithmetic is    *)
(* abstracted to that grid, which the code enforces (restart.py:227,       *)
(* input.py:361 build every bound as a whole number of steps).             *)
(*                                                                         *)
(* The float64 accumulator is replaced by what was added to it: acc[c, s]  *)
(* counts how many times component c of the entry's time operator has      *)
(* contributed the concentration of step s.  The sampled value is linear   *)
(* in these counts, so two runs produce the same observation exactly when  *)
(* they produce the same counts.                                           *)
(***************************************************************************)
EXTENDS Integers, Sequences

CONSTANTS
  Entry,      \* the observation entries, over all input files
  Component,  \* names of the components of a time operator
  Horizon,    \* the last model boundary considered
  Id,         \* Id[e]: the id written for entry e
  Window,     \* Window[e]: the half-open [lo, hi) of each component of e,
              \* Unused for the components it does not have
  End         \* End[e]: entry_end_us, the boundary at which e completes

Step == 0 .. Horizon - 1
Boundary == 0 .. Horizon
Interval == [lo : Int, hi : Int]
Unused == [lo |-> 0, hi |-> 0]
Windows == [Component -> Interval]
Tally == [Component \X Step -> Nat]

ASSUME HorizonAssumption == Horizon \in Nat \ {0}

\* input.py:189-201 and state.py:144-145, 207-213: at least one component,
\* nonempty half-open bounds, and entry_end_us is the last component's end.
ASSUME EntryAssumption ==
  \A e \in Entry :
    /\ Window[e] \in Windows
    /\ \A c \in Component :
         \/ Window[e][c] = Unused
         \/ Window[e][c].lo < Window[e][c].hi /\ Window[e][c].hi <= End[e]
    /\ \E c \in Component : Window[e][c] # Unused /\ Window[e][c].hi = End[e]
    /\ End[e] \in Int

PlanEntry == [name : Entry, win : Windows, acc : Tally]
Plan == Seq(PlanEntry)

-----------------------------------------------------------------------------
Later(a, b) == IF a >= b THEN a ELSE b

Nothing == [cs \in Component \X Step |-> 0]

\* Does a component with these bounds sample step t?
Covers(win, c, t) == win[c].lo <= t /\ t < win[c].hi

\* What a complete entry must have accumulated before boundary t.
Due(e, t) ==
  [cs \in Component \X Step |->
     IF cs[2] < t /\ Covers(Window[e], cs[1], cs[2]) THEN 1 ELSE 0]

\* input.py: a freshly parsed entry, nothing accumulated yet.
FreshEntry(e) == [name |-> e, win |-> Window[e], acc |-> Nothing]

\* Mutated: the end of a window is taken as inclusive.
AccumulateClosed(entry, t) ==
  [entry EXCEPT !.acc =
     [cs \in Component \X Step |->
        entry.acc[cs] + IF /\ cs[2] = t /\ entry.win[cs[1]] # Unused
                           /\ entry.win[cs[1]].lo <= t
                           /\ t <= entry.win[cs[1]].hi THEN 1 ELSE 0]]

\* sampling.py: the kernel adds step t to every entry from first_unexpired on.
Accumulate(entry, t) ==
  [entry EXCEPT !.acc =
     [cs \in Component \X Step |->
        IF cs[2] = t /\ Covers(entry.win, cs[1], t)
          THEN entry.acc[cs] + 1 ELSE entry.acc[cs]]]

SamplePlan(plan, first, t) ==
  [i \in DOMAIN plan |-> IF i > first THEN Accumulate(plan[i], t) ELSE plan[i]]

\* state.py completed_prefix: searchsorted(entry_end_us, boundary, "right").
CompletedPrefix(plan, boundary) ==
  CHOOSE n \in 0 .. Len(plan) :
    /\ \A i \in 1 .. n : End[plan[i].name] <= boundary
    /\ n < Len(plan) => End[plan[n + 1].name] > boundary

\* Mutated: windows that have begun keep their first bound.
ClampNothing(win, boundary) == win

\* state.py _copy_time_kernel: drop finished components, clamp started ones.
ClampWindows(win, boundary) ==
  [c \in Component |->
     IF win[c].hi > boundary
       THEN [lo |-> Later(win[c].lo, boundary), hi |-> win[c].hi]
       ELSE Unused]

\* state.py compact_obs_plan: entries past the boundary, in the same order.
\* Plans are sorted by completion (validate), so those entries are a suffix.
\* The early return for "nothing to drop" gives the same plan.
CompactPlan(plan, boundary) ==
  LET kept == SubSeq(plan, CompletedPrefix(plan, boundary) + 1, Len(plan))
  IN  [i \in DOMAIN kept |->
         [kept[i] EXCEPT !.win = ClampWindows(kept[i].win, boundary)]]

\* state.py completed batch: what is handed to the writer.
CompletedBatch(plan, first, stop) ==
  [i \in 1 .. stop - first |->
     [name |-> plan[first + i].name, acc |-> plan[first + i].acc]]

\* The orders in which a stable sort by completion time may leave s: exactly
\* one.  input.py sorts a file this way and merge_obs_plans merges two sorted
\* plans with the left one first on ties, which sorts their concatenation.
Precedes(s, i, j) ==
  \/ End[s[i].name] < End[s[j].name]
  \/ End[s[i].name] = End[s[j].name] /\ i < j

StableSorts(s) ==
  { [k \in DOMAIN s |-> s[p[k]]] :
      p \in {q \in [DOMAIN s -> DOMAIN s] :
               \A i, j \in DOMAIN s : i < j => Precedes(s, q[i], q[j])} }

\* A component that still has steps to sample does not start before t.
StartsAtOrAfter(win, t) ==
  \A c \in Component : win[c].lo < win[c].hi => win[c].lo >= t

\* The windows still sample what the entry's own windows sample from t on.
Reaches(win, e, t) ==
  \A c \in Component, s \in Step :
    s >= t => (Covers(win, c, s) <=> Covers(Window[e], c, s))

\* An entry that has accumulated what it must before t and can go on from t.
OnTime(entry, t) ==
  /\ entry.acc = Due(entry.name, t)
  /\ Reaches(entry.win, entry.name, t)

Sorted(plan) ==
  \A i, j \in DOMAIN plan : i < j => End[plan[i].name] <= End[plan[j].name]

\* state.py validate and merge_obs_plans: ids are unique among active entries.
UniqueIds(plan) ==
  \A i, j \in DOMAIN plan : Id[plan[i].name] = Id[plan[j].name] => i = j
=============================================================================
