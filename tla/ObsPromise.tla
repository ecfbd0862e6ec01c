----------------------------- MODULE ObsPromise -----------------------------
(***************************************************************************)
(* What ObsOperator promises to the reader of its science files, whatever  *)
(* the backend, the batching of CUDA steps, the staging of records and the *)
(* points at which a campaign is split into runs: when the model has been  *)
(* sampled up to boundary `time`, every known observation that ends by     *)
(* then has been delivered, once, holding each step of its windows.        *)
(***************************************************************************)
EXTENDS ObsPlan

CONSTANT Arrivals  \* Arrivals[s]: the entries that become known at step s

VARIABLES
  time,      \* the boundary up to which the model has been sampled
  delivered  \* the observations handed over to the science output

Observation(e) == [name |-> e, acc |-> Due(e, Horizon)]

Known(t) == UNION {Arrivals[s] : s \in 0 .. t - 1}

Init == time = 0 /\ delivered = {}

\* The model advances by a step, or by a batch of them.
Advance(t) ==
  /\ time < t
  /\ time' = t
  /\ delivered' = delivered \cup
       {Observation(e) : e \in {k \in Known(t) : time < End[k] /\ End[k] <= t}}

\* A run starts again from an earlier boundary: nothing is taken back.
Resume(t) == t <= time /\ time' = t /\ UNCHANGED delivered

Next == \E t \in Boundary : Advance(t) \/ Resume(t)

Spec == Init /\ [][Next]_<<time, delivered>>
=============================================================================
