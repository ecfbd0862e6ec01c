---------------------------- MODULE ObsPackedPlan ----------------------------
(***************************************************************************)
(* The arrays of ObsPacking under the plans that ObsOperatorManager        *)
(* reaches: every operation on the arrays of a plan gives the arrays of    *)
(* the plan that the operation of ObsPlan gives, so the manager may be     *)
(* modelled on sequences of entries.                                       *)
(***************************************************************************)
EXTENDS ObsOperatorManager, ObsPacking

Host == Packed(Synced, first)

\* The plan after the entries of file f have come in at boundary t.
Merged(f, t) ==
  LET incoming == [i \in DOMAIN Entries[f] |-> FreshEntry(Entries[f][i])]
      together == CompactPlan(Synced, t) \o incoming
  IN  IF UniqueIds(together) THEN StableSorts(together) ELSE {}

\* Whatever the manager has loaded, sampled and compacted before, loading a
\* file, compacting at a boundary, merging and cutting out what is complete
\* keep every entry's runs of fields, times, boxes and ranges together and its
\* accumulated samples in its own slots, and fill exactly the arrays that were
\* counted for them (state.py:269-736, input.py:67-257).
PackingFaithful ==
  \A t \in Boundary :
    /\ CompactPacked(Host, t) = Packed(CompactPlan(Synced, t), 0)
    /\ \A f \in InputFile : \A merged \in Merged(f, t) :
         MergePacked(CompactPacked(Host, t), LoadPacked(Entries[f])) = Packed(merged, 0)
    /\ LET complete == CompletedPrefix(plan, t)
           batch == CompletedBatch(Synced, first, complete)
       IN  complete >= first =>
             PackedBatch(Host, first, complete)
               = [ids |-> [i \in DOMAIN batch |-> batch[i].name],
                  samples |-> Ragged([i \in DOMAIN batch |->
                    LET fields == ParseFields(Requests[batch[i].name])
                    IN  [m \in DOMAIN fields |-> <<fields[m], batch[i].acc>>]])]

\* Both kernels, the one that goes through the entries with a scratch shared by
\* tracer and the one with a thread for each field, add to every accumulator
\* what sampling the entries adds, at any step (sampling.py:36-300,
\* sampling_cuda.py:55-190, sources/obsoperator.cu).
KernelsAgree ==
  \A t \in Step :
    LET sampled == Packed(SamplePlan(Synced, first, t), first)
    IN  SampledOnCpu(Host, t) = sampled /\ SampledOnCuda(Host, t) = sampled
=============================================================================
