------------------------ MODULE ObsOperatorRefinement ------------------------
(***************************************************************************)
(* ObsOperatorManager implements ObsPromise, on both backends, as long as  *)
(* no fault loses what a process held: the abstract time is the manager's  *)
(* position, and a record is delivered from the moment it leaves the plan, *)
(* through the detached outputs and the writer, until it is in its file.   *)
(***************************************************************************)
EXTENDS ObsOperatorInvariant

Elements(s) == {s[i] : i \in DOMAIN s}

Delivered ==
  Elements(staged)
  \cup (UNION {Elements(science[f]) : f \in OutputFile})
  \cup (UNION {Elements(detached[k].batch) : k \in DOMAIN detached})

Promise ==
  INSTANCE ObsPromise WITH
    Arrivals <- [s \in Step |-> Elements(Entries[InPath[s]])],
    time <- position,
    delivered <- Delivered

\* Every behaviour of the manager is one of ObsPromise: records are only ever
\* added, at the sample or detach that moves the position past their end, and
\* neither draining a batch, flushing or closing a writer, reopening a file in
\* a repeated run nor an exception elsewhere makes one disappear or appear.
KeepsPromise == Promise!Spec
-----------------------------------------------------------------------------
(* Why: what is known is in the plan or delivered.                         *)

\* The entries of the files that a campaign has read by boundary t.
Known(t) == UNION {FileEntries(s) : s \in 0 .. t - 1}

\* An entry that was known when it completed.
Timely(e) == e \in Known(End[e])

\* What a writer has put into files, or will.
Has(w) == Names(w.staged) \cup UNION {Names(w.disk[f]) : f \in OutputFile}

\* The file that the next flush opens anew holds nothing else.
RenewsOwn(w) ==
  w.path \in OutputFile /\ ~w.created => Names(w.disk[w.path]) \subseteq Names(w.staged)

DeliveredNames ==
  Has(Writer) \cup UNION {Names(detached[k].batch) : k \in 1 .. Len(detached)}

\* A batch holds all that will ever have completed with it.
Whole(batch) ==
  \A n \in Names(batch), e \in Known(Horizon) :
    Timely(e) /\ End[e] = End[n] => e \in Names(batch)

\* A restart knows all that is to come, and nothing that completed is missing.
RestartsKnow ==
  \A t \in Boundary : restarts[t].written =>
    /\ Names(restarts[t].plan) = {e \in Known(t) : End[e] > t}
    /\ \A e \in Known(t) : Timely(e) /\ (End[e] <= t => e \in DeliveredNames)

\* So does a run; and each batch that waits holds all that completed with it.
RunKnows ==
  /\ Names(plan) \subseteq Known(position + Len(pending))
  /\ \A e \in Known(position + Len(pending)) :
       /\ Timely(e)
       /\ e \in Names(plan) \/ (End[e] <= position /\ End[e] <= current)
       /\ End[e] <= position => e \in DeliveredNames
  /\ RenewsOwn(Writer)
  /\ \A k \in 1 .. Len(detached) :
       IF k <= drained THEN Names(detached[k].batch) \subseteq Has(Writer)
       ELSE Whole(detached[k].batch)

Delivery ==
  /\ ~flagged /\ RestartsKnow
  /\ \A e \in DeliveredNames : Timely(e)
  /\ phase # "down" => RunKnows
=============================================================================
