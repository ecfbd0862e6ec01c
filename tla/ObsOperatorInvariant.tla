------------------------ MODULE ObsOperatorInvariant ------------------------
(***************************************************************************)
(* The inductive invariant of ObsOperatorManager: why its outputs and      *)
(* restarts are right, as long as no exception hits the middle of a        *)
(* handler.                                                                *)
(*                                                                         *)
(* The heart of it is Truth.  The accumulators that count are the device's *)
(* when the sampler mirrors the plan, and the host's otherwise; those of   *)
(* every entry that has not completed are on time at the boundary up to    *)
(* which steps have been sampled or queued, which on CUDA is ahead of the  *)
(* manager's position.  A device error flag suspends it: from then on      *)
(* every use of the device copy raises.                                    *)
(***************************************************************************)
EXTENDS ObsOperatorManager

\* Where the run loop is and what it has left behind there.
Control ==
  /\ phase \in {"running", "sampled", "launched", "drain", "detach", "drainLast"}
       => current <= stop
  /\ phase \in {"sampled", "launched", "drain", "detach", "drainLast"}
       => current < stop
  /\ phase = "sampled" => ~UseCuda
  /\ phase \in {"launched", "drain", "detach"} => pending # <<>>
  /\ phase \in {"closeDrain", "closing"} => pending = <<>>
  /\ phase = "down" =>
       /\ plan = <<>> /\ first = 0 /\ pending = <<>> /\ detached = <<>>
       /\ staged = <<>> /\ device = NoDevice /\ ~flagged
  /\ ~UseCuda => pending = <<>> /\ device = NoDevice /\ ~flagged

\* The plan is sorted and its completed prefix has ended.
PlanShape ==
  /\ Sorted(plan) /\ UniqueIds(plan)
  /\ first <= Len(plan)
  /\ \A i \in 1 .. first : End[plan[i].name] <= position
  /\ device.live => Len(device.acc) = Len(plan)
  /\ flagged => device.live

\* The queued steps follow the position one by one; the prefix noted with
\* each has ended after it and does not shrink.
Queue ==
  /\ position + Len(pending) <= Horizon
  /\ \A k \in 1 .. Len(pending) :
       /\ pending[k].step = position + k - 1
       /\ pending[k].prefix <= Len(plan)
       /\ \A i \in 1 .. pending[k].prefix : End[plan[i].name] <= position + k
  /\ \A k, m \in 1 .. Len(pending) :
       k <= m => pending[k].prefix <= pending[m].prefix

Truth ==
  ~flagged =>
    \A i \in 1 .. Len(plan) :
      i > first => OnTime(Synced[i], position + Len(pending))

Restarts ==
  /\ RestartIsRemainder
  /\ \A t \in Boundary : ~restarts[t].written => restarts[t].plan = <<>>

\* The loop's model time and what has been sampled or queued agree.
InStep ==
  /\ phase = "running" => current = position + Len(pending)
  /\ phase \in {"sampled", "launched", "drain", "detach"}
       => current + 1 = position + Len(pending)
  /\ phase = "running" /\ current < stop /\ pending # <<>>
       => InPath[current] = prevInput

IInv ==
  /\ TypeOK /\ Control /\ PlanShape /\ Queue /\ Truth /\ Restarts /\ InStep
  /\ CompleteOnly
-----------------------------------------------------------------------------
(* Where a completed observation is: why it is written once, and not lost. *)

Names(s) == {s[i].name : i \in DOMAIN s}

Distinct(s) == \A i, j \in DOMAIN s : s[i].name = s[j].name => i = j

\* The file in which an observation belongs.
Place(n) == OutPath[End[n] - 1]

\* What the open writer has put into its file, and what the file will hold
\* once the writer is closed.
InFile(w) == IF w.created THEN w.disk[w.path] ELSE <<>>
Held(w) == InFile(w) \o w.staged

FilesOnce(disk) ==
  \A f \in OutputFile : Distinct(disk[f]) /\ \A n \in Names(disk[f]) : Place(n) = f

WriterOnce(w) ==
  /\ Distinct(Held(w)) /\ FilesOnce(w.disk)
  /\ \A n \in Names(w.staged) : Place(n) = w.path
  /\ w.created \/ w.staged # <<>> => w.path \in OutputFile

\* Sampling leaves what ends later: the prefixes are exact.
Ahead ==
  /\ \A i \in 1 .. Len(plan) : i > first => End[plan[i].name] > position
  /\ \A k \in 1 .. Len(pending) :
       /\ pending[k].path = OutPath[pending[k].step]
       /\ \A i \in 1 .. Len(plan) :
            i > pending[k].prefix => End[plan[i].name] > position + k

\* Every detached batch ends at one boundary, one after another, and what is
\* still to be written of them after everything the open file holds.
Batches ==
  /\ drained <= Len(detached)
  /\ ~Draining => drained = 0
  /\ ~UseCuda => detached = <<>>
  /\ \A k \in 1 .. Len(detached) :
       /\ Distinct(detached[k].batch)
       /\ \A n \in Names(detached[k].batch) :
            /\ detached[k].path = Place(n) /\ End[n] \in 1 .. position
            /\ \A q \in Names(detached[k].batch) : End[q] = End[n]
            /\ k > drained => \A h \in Names(Held(Writer)) : End[h] < End[n]
            /\ \A m \in k + 1 .. Len(detached) :
                 \A q \in Names(detached[m].batch) : End[n] < End[q]

Emission ==
  /\ WriterOnce(Writer) /\ Ahead /\ Batches
  /\ \A h \in Names(Held(Writer)) : End[h] <= position
  /\ phase = "down" => ~created /\ outPath = NoFile /\ prevInput = NoFile

\* The entries that the run has in its plan, or had.
FileEntries(t) == {Entries[InPath[t]][i] : i \in DOMAIN Entries[InPath[t]]}

Installed ==
  Names(restarts[start].plan)
  \cup UNION {FileEntries(s) : s \in start .. position + Len(pending) - 1}

\* In a detached batch that is still to be written.
Waiting(e) ==
  \E k \in 1 .. Len(detached) : k > drained /\ e \in Names(detached[k].batch)

\* In the open file, or in one that has been closed for another.
Safe(w, e) ==
  \/ e \in Names(Held(w))
  \/ /\ w.path \in OutputFile /\ Place(e) \in OutputFile /\ Place(e) # w.path
     /\ e \in Names(w.disk[Place(e)])

\* Step u selected the open file: what completed by then is safe, and what
\* is waiting completed later.
SafeUpTo(u) ==
  /\ outPath = OutPath[u] /\ u < position
  /\ \A e \in Entry : Waiting(e) => u < End[e]
  /\ \A e \in Installed :
       End[e] <= position => Waiting(e) \/ (Safe(Writer, e) /\ End[e] <= u + 1)

Keeping ==
  phase # "down" =>
    /\ start <= position /\ current <= position + Len(pending)
    /\ phase = "drainLast" => current < position
    /\ phase = "closing" => detached = <<>>
    /\ \/ prevInput = NoFile
       \/ \E s \in start .. position + Len(pending) - 1 : InPath[s] = prevInput
    /\ \A e \in Installed :
         /\ End[e] > start
         /\ e \in Names(plan) \/ (End[e] <= current /\ End[e] <= position)
    /\ \/ /\ outPath = NoFile
          /\ \A e \in Installed : End[e] <= position => Waiting(e)
       \/ \E u \in Step : SafeUpTo(u)
=============================================================================
