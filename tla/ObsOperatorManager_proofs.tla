---------------------- MODULE ObsOperatorManager_proofs ----------------------
(***************************************************************************)
(* What ObsOperatorManager keeps, and what it promises, for every set of   *)
(* entries, files, paths and horizon.                                      *)
(* IInv is inductive when no exception hits the middle of a handler        *)
(* ("interrupt"), whatever else goes wrong; its theorems are what TLC      *)
(* checks on the small campaign of MCObsOperator.  First facts about the   *)
(* operators of ObsPlan, for every plan and boundary; after it the         *)
(* entries' dates, which ObsTimes reads off their time operators.          *)
(* Then two invariants under the same condition.  Emission: every          *)
(* observation is written to one place of one file.  Keeping, if the       *)
(* output template does not come back to a file it has left: what          *)
(* completes in a run is in its files when the run commits.  They rest on  *)
(* which observations a sequence of records, the science writer and a      *)
(* plan name, and what the operations do to those names.                   *)
(* Last the refinement: ObsOperatorManager implements ObsPromise as long   *)
(* as no process loses what it holds and every step has its own output     *)
(* file: the invariant Delivery, which says why, and the step of the       *)
(* promise, if any, that each of the manager's steps is.                   *)
(***************************************************************************)
EXTENDS ObsOperatorRefinement, ObsTimes, SequenceTheorems, WellFoundedInduction,
        NaturalsInduction, FiniteSetTheorems, FunctionTheorems, TLAPS

-----------------------------------------------------------------------------
(* The plan.                                                               *)

\* A plan element's fields.
LEMMA PlanElement ==
  ASSUME NEW p \in Plan
  PROVE  /\ Len(p) \in Nat /\ DOMAIN p = 1 .. Len(p)
         /\ \A i \in 1 .. Len(p) :
              /\ p[i] \in PlanEntry
              /\ p[i].name \in Entry /\ p[i].win \in Windows
              /\ p[i].acc \in Tally /\ End[p[i].name] \in Int
PROOF
<1>1. Len(p) \in Nat /\ DOMAIN p = 1 .. Len(p)
  BY LenProperties DEF Plan
<1>2. ASSUME NEW i \in 1 .. Len(p) PROVE p[i] \in PlanEntry
  BY ElementOfSeq DEF Plan
<1>3. QED
  BY <1>1, <1>2, EntryAssumption DEF PlanEntry

\* searchsorted finds the end of the completed prefix of any plan.
LEMMA CompletedPrefixIs ==
  ASSUME NEW p \in Plan, NEW b \in Int
  PROVE  /\ CompletedPrefix(p, b) \in 0 .. Len(p)
         /\ \A i \in 1 .. CompletedPrefix(p, b) : End[p[i].name] <= b
         /\ CompletedPrefix(p, b) < Len(p) =>
              End[p[CompletedPrefix(p, b) + 1].name] > b
PROOF
<1> DEFINE P(n) == /\ \A i \in 1 .. n : End[p[i].name] <= b
                   /\ n < Len(p) => End[p[n + 1].name] > b
           Late == {i \in 1 .. Len(p) : End[p[i].name] > b}
<1>0. /\ Len(p) \in Nat
      /\ \A i \in 1 .. Len(p) : End[p[i].name] \in Int
  BY PlanElement
<1>1. \E n \in 0 .. Len(p) : P(n)
  <2>1. CASE Late = {}
    BY <1>0, <2>1
  <2>2. CASE Late # {}
    <3>0. Late \subseteq Nat
      BY <1>0
    <3>1. PICK m \in Late : \A k \in Late : <<k, m>> \notin OpToRel(<, Nat)
      <4> HIDE DEF Late
      <4> QED
        BY <2>2, <3>0, WFMin, NatLessThanWellFounded, Zenon
    <3>2. \A k \in Late : m <= k
      <4> HIDE DEF Late
      <4>1. \A k \in Late : ~ (k < m)
        BY <3>0, <3>1, Zenon DEF OpToRel
      <4>2. QED
        BY <3>0, <4>1
    <3>3. m - 1 \in 0 .. Len(p) /\ P(m - 1)
      BY <3>2, <1>0
    <3>4. QED
      BY <3>3
  <2>3. QED
    BY <2>1, <2>2
<1>2. CompletedPrefix(p, b) = CHOOSE n \in 0 .. Len(p) : P(n)
  BY DEF CompletedPrefix
<1>3. QED
  BY <1>1, <1>2

\* In a sorted plan it splits the plan: exactly the completed entries come
\* before it.
LEMMA CompletedPrefixSplits ==
  ASSUME NEW p \in Plan, Sorted(p), NEW b \in Int,
         NEW i \in 1 .. Len(p)
  PROVE  i <= CompletedPrefix(p, b) <=> End[p[i].name] <= b
PROOF
<1> DEFINE n == CompletedPrefix(p, b)
<1>1. n \in 0 .. Len(p) /\ (\A j \in 1 .. n : End[p[j].name] <= b)
      /\ (n < Len(p) => End[p[n + 1].name] > b)
  BY CompletedPrefixIs
<1>2. /\ Len(p) \in Nat /\ DOMAIN p = 1 .. Len(p)
      /\ \A j \in 1 .. Len(p) : End[p[j].name] \in Int
  BY PlanElement
<1>3. CASE i <= n
  BY <1>1, <1>2, <1>3
<1>4. CASE i > n
  <2> HIDE DEF n
  <2>1. n + 1 \in 1 .. Len(p) /\ n < Len(p) /\ (n + 1 < i \/ n + 1 = i)
    BY <1>1, <1>2, <1>4
  <2>2. End[p[n + 1].name] <= End[p[i].name]
    BY <2>1, <1>2 DEF Sorted
  <2>3. End[p[i].name] > b
    BY <1>1, <1>2, <2>1, <2>2
  <2>4. QED
    BY <1>1, <1>2, <1>4, <2>3 DEF n
<1>5. QED
  BY <1>1, <1>2, <1>3, <1>4
-----------------------------------------------------------------------------
\* What a complete entry has accumulated.
LEMMA DueType ==
  ASSUME NEW e \in Entry, NEW t \in Int
  PROVE  Due(e, t) \in Tally
PROOF BY DEF Due, Tally

\* From its end on, an entry has accumulated all it ever will.
LEMMA DueComplete ==
  ASSUME NEW e \in Entry, NEW t \in Boundary, End[e] <= t
  PROVE  Due(e, t) = Due(e, Horizon)
PROOF
<1>1. ASSUME NEW c \in Component, NEW s \in Step, Covers(Window[e], c, s)
      PROVE  s < t
  <2>1. /\ Window[e] \in Windows /\ End[e] \in Int
        /\ Window[e][c] = Unused \/ Window[e][c].hi <= End[e]
    BY EntryAssumption
  <2>2. Window[e][c].hi \in Int
    BY <2>1 DEF Windows, Interval
  <2>3. s < Window[e][c].hi /\ Window[e][c] # Unused
    BY <1>1, <2>2 DEF Covers, Unused, Step
  <2>4. QED
    BY <2>1, <2>2, <2>3, HorizonAssumption DEF Step, Boundary
<1>2. \A cs \in Component \X Step :
        (cs[2] < t /\ Covers(Window[e], cs[1], cs[2]))
        <=> (cs[2] < Horizon /\ Covers(Window[e], cs[1], cs[2]))
  BY <1>1, HorizonAssumption DEF Step
<1>3. QED
  BY <1>2 DEF Due

\* A fresh entry whose windows all start at t or later is on time at t.
LEMMA FreshOnTime ==
  ASSUME NEW e \in Entry, NEW t \in Int, StartsAtOrAfter(Window[e], t)
  PROVE  FreshEntry(e) \in PlanEntry /\ OnTime(FreshEntry(e), t)
PROOF
<1>1. Nothing \in Tally
  BY DEF Nothing, Tally
<1>2. Window[e] \in Windows
  BY EntryAssumption
<1>3. \A cs \in Component \X Step :
        ~ (cs[2] < t /\ Covers(Window[e], cs[1], cs[2]))
  BY <1>2 DEF StartsAtOrAfter, Covers, Windows, Interval, Step
<1>4. Nothing = Due(e, t)
  BY <1>3 DEF Nothing, Due
<1>5. QED
  BY <1>1, <1>2, <1>4 DEF FreshEntry, PlanEntry, OnTime, Reaches

\* Sampling step t takes an entry from on time at t to on time at t + 1.
LEMMA AccumulateOnTime ==
  ASSUME NEW entry \in PlanEntry, NEW t \in Step, OnTime(entry, t)
  PROVE  /\ Accumulate(entry, t) \in PlanEntry
         /\ Accumulate(entry, t).name = entry.name
         /\ Accumulate(entry, t).win = entry.win
         /\ OnTime(Accumulate(entry, t), t + 1)
PROOF
<1> DEFINE more == [cs \in Component \X Step |->
                      IF cs[2] = t /\ Covers(entry.win, cs[1], t)
                        THEN entry.acc[cs] + 1 ELSE entry.acc[cs]]
<1>1. entry.acc = Due(entry.name, t) /\ entry.acc \in Tally
      /\ entry.name \in Entry /\ entry.win \in Windows
  BY DEF OnTime, PlanEntry
<1>2. more \in Tally
  BY <1>1 DEF Tally
<1>3. \A c \in Component, s \in Step :
        s >= t => (Covers(entry.win, c, s) <=> Covers(Window[entry.name], c, s))
  BY DEF OnTime, Reaches
<1>4. ASSUME NEW cs \in Component \X Step
      PROVE  more[cs] = Due(entry.name, t + 1)[cs]
  <2>1. entry.acc[cs] = IF cs[2] < t /\ Covers(Window[entry.name], cs[1], cs[2])
                        THEN 1 ELSE 0
    BY <1>1 DEF Due
  <2>2. cs[1] \in Component /\ cs[2] \in Int /\ t \in Int /\ cs[2] \in Step
    BY DEF Step
  <2>3. Due(entry.name, t + 1)[cs] =
          IF cs[2] < t + 1 /\ Covers(Window[entry.name], cs[1], cs[2])
          THEN 1 ELSE 0
    BY DEF Due
  <2>4. CASE cs[2] = t
    <3>1. Covers(entry.win, cs[1], t) <=> Covers(Window[entry.name], cs[1], cs[2])
      BY <1>3, <2>2, <2>4
    <3>2. QED
      BY <2>1, <2>2, <2>3, <2>4, <3>1
  <2>5. CASE cs[2] # t
    BY <2>1, <2>2, <2>3, <2>5
  <2>6. QED
    BY <2>4, <2>5
<1>5. more = Due(entry.name, t + 1)
  BY <1>4 DEF Due
<1>6. Accumulate(entry, t) = [entry EXCEPT !.acc = more]
  BY DEF Accumulate
<1>7. Reaches(entry.win, entry.name, t + 1)
  BY <1>3 DEF Reaches, Step
<1> HIDE DEF more
<1>8. QED
  BY <1>1, <1>2, <1>5, <1>6, <1>7 DEF PlanEntry, OnTime

\* Clamping at t keeps exactly the steps from t on.
LEMMA ClampExact ==
  ASSUME NEW win \in Windows, NEW e \in Entry, NEW t \in Int,
         Reaches(win, e, t)
  PROVE  /\ ClampWindows(win, t) \in Windows
         /\ Reaches(ClampWindows(win, t), e, t)
         /\ StartsAtOrAfter(ClampWindows(win, t), t)
         /\ \A c \in Component, s \in Step :
              Covers(ClampWindows(win, t), c, s)
              <=> s >= t /\ Covers(Window[e], c, s)
PROOF
<1>1. ClampWindows(win, t) \in Windows
  BY DEF ClampWindows, Windows, Interval, Unused, Later
<1>2. StartsAtOrAfter(ClampWindows(win, t), t)
  BY DEF StartsAtOrAfter, ClampWindows, Windows, Interval, Unused, Later
<1>3. \A c \in Component, s \in Step :
        Covers(ClampWindows(win, t), c, s) <=> s >= t /\ Covers(win, c, s)
  BY DEF Covers, ClampWindows, Windows, Interval, Unused, Later, Step
<1>4. QED
  BY <1>1, <1>2, <1>3 DEF Reaches
-----------------------------------------------------------------------------
\* Every element of a compacted plan is an element past the boundary, with
\* clamped windows; order, uniqueness and completion order survive.
LEMMA CompactPlanIs ==
  ASSUME NEW p \in Plan, Sorted(p), NEW b \in Int
  PROVE  /\ CompactPlan(p, b) \in Plan
         /\ Sorted(CompactPlan(p, b))
         /\ \A j \in 1 .. Len(CompactPlan(p, b)) :
              \E i \in 1 .. Len(p) :
                /\ End[p[i].name] > b
                /\ CompactPlan(p, b)[j] =
                     [p[i] EXCEPT !.win = ClampWindows(p[i].win, b)]
         /\ UniqueIds(p) => UniqueIds(CompactPlan(p, b))
PROOF
<1> DEFINE n == CompletedPrefix(p, b)
           kept == SubSeq(p, n + 1, Len(p))
           q == [j \in DOMAIN kept |->
                   [kept[j] EXCEPT !.win = ClampWindows(kept[j].win, b)]]
<1>1. CompactPlan(p, b) = q
  BY DEF CompactPlan
<1>2. n \in 0 .. Len(p)
  BY CompletedPrefixIs
<1>3. /\ Len(p) \in Nat /\ DOMAIN p = 1 .. Len(p)
      /\ \A i \in 1 .. Len(p) : p[i] \in PlanEntry /\ End[p[i].name] \in Int
  BY PlanElement
<1>4. \A i \in 1 .. Len(p) : i > n => End[p[i].name] > b
  BY CompletedPrefixSplits, <1>2, <1>3
<1> HIDE DEF n
<1>5. /\ kept \in Seq(PlanEntry)
      /\ Len(kept) = Len(p) - n
      /\ \A j \in 1 .. Len(p) - n : kept[j] = p[n + j]
  <2>1. \A i \in n + 1 .. Len(p) : p[i] \in PlanEntry
    BY <1>2, <1>3
  <2>2. /\ SubSeq(p, n + 1, Len(p)) \in Seq(PlanEntry)
        /\ Len(SubSeq(p, n + 1, Len(p))) =
             IF n + 1 <= Len(p) THEN Len(p) - (n + 1) + 1 ELSE 0
        /\ \A i \in 1 .. Len(p) - (n + 1) + 1 :
             SubSeq(p, n + 1, Len(p))[i] = p[(n + 1) + i - 1]
    <3>1. n + 1 \in Int /\ Len(p) \in Int
      BY <1>2, <1>3
    <3>2. QED
      BY <2>1, <3>1, SubSeqProperties
  <2>3. Len(kept) = Len(p) - n
    <3>1. Len(kept) = IF n + 1 <= Len(p) THEN Len(p) - (n + 1) + 1 ELSE 0
      BY <2>2
    <3>2. n \in Int /\ Len(p) \in Int /\ n <= Len(p)
      BY <1>2, <1>3
    <3> HIDE DEF kept
    <3>3. QED
      BY <3>1, <3>2
  <2>4. ASSUME NEW j \in 1 .. Len(p) - n PROVE kept[j] = p[n + j]
    <3>1. j \in 1 .. Len(p) - (n + 1) + 1 /\ (n + 1) + j - 1 = n + j
      BY <1>2, <1>3
    <3>2. QED
      BY <2>2, <3>1
  <2>5. QED
    BY <2>2, <2>3, <2>4
<1> HIDE DEF kept
<1>6. DOMAIN kept = 1 .. Len(kept) /\ Len(kept) \in Nat
  BY <1>5, LenProperties
<1>7. ASSUME NEW j \in 1 .. Len(kept)
      PROVE  /\ n + j \in 1 .. Len(p) /\ n + j > n
             /\ q[j] = [p[n + j] EXCEPT !.win = ClampWindows(p[n + j].win, b)]
             /\ q[j] \in PlanEntry
             /\ q[j].name = p[n + j].name
  <2>1. n + j \in 1 .. Len(p) /\ n + j > n
    BY <1>2, <1>3, <1>5, <1>7
  <2>2. q[j] = [p[n + j] EXCEPT !.win = ClampWindows(p[n + j].win, b)]
    BY <1>5, <1>6, <1>7
  <2>3. p[n + j] \in PlanEntry
    BY <2>1, <1>3
  <2>4. ClampWindows(p[n + j].win, b) \in Windows
    BY <2>3 DEF PlanEntry, ClampWindows, Windows, Interval, Unused, Later
  <2>5. QED
    BY <2>1, <2>2, <2>3, <2>4 DEF PlanEntry
<1>8. q \in Plan /\ Len(q) = Len(kept) /\ DOMAIN q = 1 .. Len(kept)
  <2>1. q \in [1 .. Len(kept) -> PlanEntry]
    BY <1>6, <1>7
  <2> HIDE DEF q
  <2>2. QED
    BY <1>6, <2>1 DEF Plan
<1>9. Sorted(q)
  <2> SUFFICES ASSUME NEW i \in DOMAIN q, NEW j \in DOMAIN q, i < j
               PROVE  End[q[i].name] <= End[q[j].name]
    BY DEF Sorted
  <2>1. /\ q[i].name = p[n + i].name /\ q[j].name = p[n + j].name
        /\ n + i \in DOMAIN p /\ n + j \in DOMAIN p
    BY <1>3, <1>7, <1>8
  <2>2. n + i < n + j
    BY <1>2, <1>6, <1>8
  <2>3. QED
    BY <2>1, <2>2 DEF Sorted
<1>10. ASSUME UniqueIds(p)
       PROVE  UniqueIds(q)
  <2> SUFFICES ASSUME NEW i \in DOMAIN q, NEW j \in DOMAIN q,
                      Id[q[i].name] = Id[q[j].name]
               PROVE  i = j
    BY DEF UniqueIds
  <2>1. /\ q[i].name = p[n + i].name /\ q[j].name = p[n + j].name
        /\ n + i \in DOMAIN p /\ n + j \in DOMAIN p
    BY <1>3, <1>7, <1>8
  <2>2. n + i = n + j
    BY <1>10, <2>1 DEF UniqueIds
  <2>3. QED
    BY <1>2, <1>6, <1>8, <2>2
<1>11. ASSUME NEW j \in 1 .. Len(q)
       PROVE  \E i \in 1 .. Len(p) :
                /\ End[p[i].name] > b
                /\ q[j] = [p[i] EXCEPT !.win = ClampWindows(p[i].win, b)]
  BY <1>4, <1>7, <1>8, <1>11
<1> HIDE DEF q
<1>12. QED
  BY <1>1, <1>8, <1>9, <1>10, <1>11

\* What a compacted plan holds when its source was on time at the boundary.
LEMMA CompactPlanOnTime ==
  ASSUME NEW p \in Plan, Sorted(p), NEW b \in Int,
         \A i \in 1 .. Len(p) : End[p[i].name] > b => OnTime(p[i], b),
         NEW j \in 1 .. Len(CompactPlan(p, b))
  PROVE  LET entry == CompactPlan(p, b)[j]
         IN  /\ OnTime(entry, b)
             /\ End[entry.name] > b
             /\ StartsAtOrAfter(entry.win, b)
             /\ \A c \in Component, s \in Step :
                  Covers(entry.win, c, s)
                  <=> s >= b /\ Covers(Window[entry.name], c, s)
PROOF
<1>1. PICK i \in 1 .. Len(p) :
        /\ End[p[i].name] > b
        /\ CompactPlan(p, b)[j] =
             [p[i] EXCEPT !.win = ClampWindows(p[i].win, b)]
  BY CompactPlanIs
<1>2. p[i] \in PlanEntry /\ p[i].win \in Windows /\ p[i].name \in Entry
  BY PlanElement
<1>3. OnTime(p[i], b) /\ Reaches(p[i].win, p[i].name, b)
  BY <1>1 DEF OnTime
<1> DEFINE entry == CompactPlan(p, b)[j]
<1>4. /\ entry.name = p[i].name /\ entry.acc = p[i].acc
      /\ entry.win = ClampWindows(p[i].win, b)
  BY <1>1, <1>2 DEF PlanEntry
<1> HIDE DEF entry
<1>5. /\ Reaches(entry.win, entry.name, b)
      /\ StartsAtOrAfter(entry.win, b)
      /\ \A c \in Component, s \in Step :
           Covers(entry.win, c, s)
           <=> s >= b /\ Covers(Window[entry.name], c, s)
  BY <1>2, <1>3, <1>4, ClampExact
<1>6. entry.acc = Due(entry.name, b)
  BY <1>3, <1>4 DEF OnTime
<1>7. QED
  BY <1>1, <1>4, <1>5, <1>6 DEF OnTime, entry

\* A stable sort rearranges: it adds nothing and leaves a sorted plan.
LEMMA StableSortsIs ==
  ASSUME NEW s \in Plan, NEW p \in StableSorts(s)
  PROVE  /\ p \in Plan /\ Len(p) = Len(s) /\ Sorted(p)
         /\ \A k \in 1 .. Len(p) : \E i \in 1 .. Len(s) : p[k] = s[i]
         /\ UniqueIds(s) => UniqueIds(p)
PROOF
<1>1. PICK q \in [DOMAIN s -> DOMAIN s] :
        /\ \A i, j \in DOMAIN s : i < j => Precedes(s, q[i], q[j])
        /\ p = [k \in DOMAIN s |-> s[q[k]]]
  BY DEF StableSorts
<1>2. /\ Len(s) \in Nat /\ DOMAIN s = 1 .. Len(s)
      /\ \A i \in 1 .. Len(s) : s[i] \in PlanEntry /\ End[s[i].name] \in Int
  BY PlanElement
<1>3. \A k \in 1 .. Len(s) : q[k] \in 1 .. Len(s) /\ p[k] = s[q[k]]
  BY <1>1, <1>2
<1>4. p \in Plan /\ Len(p) = Len(s) /\ DOMAIN p = 1 .. Len(s)
  BY <1>1, <1>2, <1>3 DEF Plan
<1>5. Sorted(p)
  <2> SUFFICES ASSUME NEW i \in 1 .. Len(s), NEW j \in 1 .. Len(s), i < j
               PROVE  End[p[i].name] <= End[p[j].name]
    BY <1>4 DEF Sorted
  <2>1. Precedes(s, q[i], q[j])
    BY <1>1, <1>2
  <2>2. QED
    BY <1>2, <1>3, <2>1 DEF Precedes
<1>6. ASSUME UniqueIds(s)
      PROVE  UniqueIds(p)
  <2> SUFFICES ASSUME NEW i \in 1 .. Len(s), NEW j \in 1 .. Len(s),
                      Id[p[i].name] = Id[p[j].name], i # j
               PROVE  FALSE
    BY <1>4 DEF UniqueIds
  <2>1. q[i] = q[j] /\ q[i] \in 1 .. Len(s)
    BY <1>2, <1>3, <1>6 DEF UniqueIds
  <2>2. Precedes(s, q[i], q[j]) \/ Precedes(s, q[j], q[i])
    BY <1>1, <1>2
  <2>3. QED
    BY <1>2, <2>1, <2>2 DEF Precedes
<1>7. QED
  BY <1>3, <1>4, <1>5, <1>6
-----------------------------------------------------------------------------
(* The manager.                                                            *)

\* The faults of the campaign leave every handler whole.
NoInterrupt == "interrupt" \notin Faults

-----------------------------------------------------------------------------
(* The writer: it only ever moves complete records.                        *)

Complete == {r \in Record : IsComplete(r)}

GoodWriter ==
  [path : OutputFile \cup {NoFile}, staged : Seq(Complete),
   created : BOOLEAN, disk : [OutputFile -> Seq(Complete)]]

\* Flushing a prefix of the staged records keeps a writer good.
LEMMA FlushPrefixGood ==
  ASSUME NEW w \in GoodWriter, NEW k \in 0 .. Len(w.staged)
  PROVE  FlushPrefix(w, k) \in GoodWriter
PROOF
<1>1. CASE k = 0
  BY <1>1 DEF FlushPrefix
<1>2. CASE k # 0
  <2> DEFINE out == SubSeq(w.staged, 1, k)
             rest == SubSeq(w.staged, k + 1, Len(w.staged))
  <2>1. /\ w.staged \in Seq(Complete) /\ w.disk \in [OutputFile -> Seq(Complete)]
        /\ w.path \in OutputFile \cup {NoFile} /\ w.created \in BOOLEAN
    BY DEF GoodWriter
  <2>2. Len(w.staged) \in Nat /\ \A i \in 1 .. Len(w.staged) : w.staged[i] \in Complete
    BY <2>1, LenProperties, ElementOfSeq
  <2>3. out \in Seq(Complete) /\ rest \in Seq(Complete)
    <3>1. 1 \in Int /\ k \in Int /\ k + 1 \in Int /\ Len(w.staged) \in Int
      BY <2>2
    <3>2. \A i \in 1 .. k : w.staged[i] \in Complete
      BY <2>2
    <3>3. \A i \in k + 1 .. Len(w.staged) : w.staged[i] \in Complete
      BY <2>2
    <3>4. QED
      BY <3>1, <3>2, <3>3, SubSeqProperties
  <2> DEFINE old == IF w.created THEN w.disk[w.path] ELSE <<>>
             disk == [w.disk EXCEPT ![w.path] = old \o out]
  <2>4. disk \in [OutputFile -> Seq(Complete)]
    <3>1. CASE w.path \in OutputFile
      <4>1. old \in Seq(Complete)
        BY <2>1, <3>1, EmptySeq
      <4>2. old \o out \in Seq(Complete)
        <5> HIDE DEF old, out
        <5> QED BY <4>1, <2>3, ConcatProperties
      <4> HIDE DEF old, out
      <4>3. QED
        BY <2>1, <4>2
    <3>2. CASE w.path \notin OutputFile
      <4> HIDE DEF old, out
      <4> QED BY <2>1, <3>2
    <3>3. QED
      BY <3>1, <3>2
  <2>5. FlushPrefix(w, k) =
          [w EXCEPT !.disk = disk, !.staged = rest, !.created = TRUE]
    BY <1>2, <2>1 DEF FlushPrefix, GoodWriter
  <2> HIDE DEF out, rest, old, disk
  <2>6. QED
    BY <2>1, <2>3, <2>4, <2>5 DEF GoodWriter
<1>3. QED
  BY <1>1, <1>2

\* So does closing it, with nothing left staged.
LEMMA CloseWriterGood ==
  ASSUME NEW w \in GoodWriter
  PROVE  CloseWriter(w) \in GoodWriter
PROOF
<1>1. Len(w.staged) \in Nat
  BY LenProperties DEF GoodWriter
<1>2. FlushPrefix(w, Len(w.staged)) \in GoodWriter
  BY <1>1, FlushPrefixGood
<1>3. QED
  BY <1>2 DEF CloseWriter, GoodWriter

\* Selecting a path closes the writer of the path before.
LEMMA SelectPathGood ==
  ASSUME NEW w \in GoodWriter, NEW path \in OutputFile
  PROVE  SelectPath(w, path) \in GoodWriter
PROOF
<1>1. CloseWriter(w) \in GoodWriter
  BY CloseWriterGood
<1>2. QED
  BY <1>1 DEF SelectPath, GoodWriter

\* A write stages a batch and flushes what it must.
LEMMA WrittenGood ==
  ASSUME NEW w \in GoodWriter, NEW batch \in Seq(Complete),
         NEW v \in Written(w, batch)
  PROVE  v \in GoodWriter
PROOF
<1>1. CASE batch = <<>>
  BY <1>1 DEF Written
<1>2. CASE batch # <<>>
  <2> DEFINE full == [w EXCEPT !.staged = @ \o batch]
  <2>1. w.staged \o batch \in Seq(Complete)
    BY ConcatProperties DEF GoodWriter
  <2>2. full \in GoodWriter
    BY <2>1 DEF GoodWriter
  <2>3. PICK k \in 0 .. Len(full.staged) : v = FlushPrefix(full, k)
    BY <1>2 DEF Written
  <2> HIDE DEF full
  <2>4. QED
    BY <2>2, <2>3, FlushPrefixGood
<1>3. QED
  BY <1>1, <1>2

Outputs == [path : OutputFile, batch : Seq(Complete)]

\* A sequence of complete records is a sequence of records that are complete.
LEMMA CompleteSeq ==
  ASSUME NEW s
  PROVE  s \in Seq(Complete)
         <=> s \in Seq(Record) /\ \A i \in 1 .. Len(s) : IsComplete(s[i])
PROOF
<1>1. ASSUME s \in Seq(Complete)
      PROVE  s \in Seq(Record) /\ \A i \in 1 .. Len(s) : IsComplete(s[i])
  <2>1. Complete \subseteq Record
    BY DEF Complete
  <2>2. s \in Seq(Record)
    BY <1>1, <2>1, SeqMonotonic
  <2>3. \A i \in 1 .. Len(s) : s[i] \in Complete
    BY <1>1, ElementOfSeq
  <2>4. QED
    BY <2>2, <2>3 DEF Complete
<1>2. ASSUME s \in Seq(Record), \A i \in 1 .. Len(s) : IsComplete(s[i])
      PROVE  s \in Seq(Complete)
  <2>1. Len(s) \in Nat /\ s \in [1 .. Len(s) -> Record]
    BY <1>2, LenProperties
  <2>2. \A i \in 1 .. Len(s) : s[i] \in Complete
    BY <1>2, <2>1 DEF Complete
  <2>3. s \in [1 .. Len(s) -> Complete]
    BY <2>1, <2>2
  <2>4. QED
    BY <2>1, <2>3
<1>3. QED
  BY <1>1, <1>2

WriterType ==
  /\ outPath \in OutputFile \cup {NoFile} /\ created \in BOOLEAN
  /\ staged \in Seq(Record) /\ science \in [OutputFile -> Seq(Record)]

DetachedType == detached \in Seq([path : OutputFile, batch : Seq(Record)])

\* CompleteOnly says that the writer is good and the detached outputs hold
\* complete records.
LEMMA WriterIsGood ==
  ASSUME WriterType, DetachedType, CompleteOnly
  PROVE  Writer \in GoodWriter /\ detached \in Seq(Outputs)
PROOF
<1>1. staged \in Seq(Complete)
  BY CompleteSeq, LenProperties DEF WriterType, CompleteOnly
<1>2. ASSUME NEW f \in OutputFile PROVE science[f] \in Seq(Complete)
  <2>1. science[f] \in Seq(Record)
    BY DEF WriterType
  <2>2. \A i \in 1 .. Len(science[f]) : IsComplete(science[f][i])
    BY <2>1, LenProperties DEF CompleteOnly, Records
  <2>3. QED
    BY <2>1, <2>2, CompleteSeq
<1>3. Writer \in GoodWriter
  BY <1>1, <1>2 DEF WriterType, Writer, GoodWriter
<1>4. Len(detached) \in Nat /\ DOMAIN detached = 1 .. Len(detached)
      /\ detached \in [1 .. Len(detached) -> [path : OutputFile, batch : Seq(Record)]]
  BY LenProperties DEF DetachedType
<1>5. ASSUME NEW k \in 1 .. Len(detached) PROVE detached[k] \in Outputs
  <2>1. detached[k] \in [path : OutputFile, batch : Seq(Record)]
    BY <1>4
  <2>2. \A i \in 1 .. Len(detached[k].batch) : IsComplete(detached[k].batch[i])
    BY <1>4, <2>1, LenProperties DEF CompleteOnly
  <2>3. detached[k].batch \in Seq(Complete)
    BY <2>1, <2>2, CompleteSeq
  <2>4. QED
    BY <2>1, <2>3 DEF Outputs
<1>6. detached \in [1 .. Len(detached) -> Outputs]
  BY <1>4, <1>5
<1>7. QED
  BY <1>3, <1>4, <1>6

\* ... and the other way round, after a step.
LEMMA GoodIsComplete ==
  ASSUME Writer' \in GoodWriter, detached' \in Seq(Outputs)
  PROVE  WriterType' /\ DetachedType' /\ CompleteOnly'
PROOF
<1>1. /\ outPath' \in OutputFile \cup {NoFile} /\ staged' \in Seq(Complete)
      /\ created' \in BOOLEAN /\ science' \in [OutputFile -> Seq(Complete)]
  BY DEF Writer, GoodWriter
<1>2. staged' \in Seq(Record) /\ \A i \in DOMAIN staged' : IsComplete(staged'[i])
  BY <1>1, CompleteSeq, LenProperties
<1>3. ASSUME NEW f \in OutputFile
      PROVE  science'[f] \in Seq(Record) /\ \A r \in Records(f)' : IsComplete(r)
  <2>1. science'[f] \in Seq(Complete)
    BY <1>1
  <2>2. DOMAIN science'[f] = 1 .. Len(science'[f])
    BY <2>1, LenProperties
  <2>3. QED
    BY <2>1, <2>2, CompleteSeq DEF Records
<1>4. WriterType'
  BY <1>1, <1>2, <1>3 DEF WriterType
<1>5. ASSUME NEW k \in DOMAIN detached'
      PROVE  /\ detached'[k] \in [path : OutputFile, batch : Seq(Record)]
             /\ \A i \in DOMAIN detached'[k].batch : IsComplete(detached'[k].batch[i])
  <2>1. detached'[k] \in Outputs
    BY <1>5, LenProperties, ElementOfSeq
  <2>2. detached'[k].batch \in Seq(Complete) /\ detached'[k].path \in OutputFile
    BY <2>1 DEF Outputs
  <2>3. DOMAIN detached'[k].batch = 1 .. Len(detached'[k].batch)
    BY <2>2, LenProperties
  <2>4. QED
    BY <2>1, <2>2, <2>3, CompleteSeq DEF Outputs
<1>6. DetachedType'
  <2>1. Len(detached') \in Nat /\ detached' \in [1 .. Len(detached') -> Outputs]
        /\ DOMAIN detached' = 1 .. Len(detached')
    BY LenProperties
  <2>2. detached' \in [1 .. Len(detached') -> [path : OutputFile, batch : Seq(Record)]]
    BY <1>5, <2>1
  <2> DEFINE R == [path : OutputFile, batch : Seq(Record)]
  <2>3. detached' \in [1 .. Len(detached') -> R]
    BY <2>2
  <2> HIDE DEF R
  <2>4. detached' \in Seq(R)
    BY <2>1, <2>3
  <2>5. QED
    BY <2>4 DEF DetachedType, R
<1>7. QED
  BY <1>2, <1>3, <1>4, <1>5, <1>6 DEF CompleteOnly
-----------------------------------------------------------------------------
(* Sampling and completing a plan.                                         *)

\* Sampling step t leaves names, windows and the completed prefix alone, and
\* advances what was on time.
LEMMA SamplePlanIs ==
  ASSUME NEW p \in Plan, NEW f \in Nat, NEW t \in Step
  PROVE  /\ SamplePlan(p, f, t) \in Plan
         /\ Len(SamplePlan(p, f, t)) = Len(p)
         /\ \A i \in 1 .. Len(p) :
              /\ SamplePlan(p, f, t)[i].name = p[i].name
              /\ i > f /\ OnTime(p[i], t) => OnTime(SamplePlan(p, f, t)[i], t + 1)
PROOF
<1>1. Len(p) \in Nat /\ DOMAIN p = 1 .. Len(p)
      /\ \A i \in 1 .. Len(p) : p[i] \in PlanEntry
  BY PlanElement
<1>2. ASSUME NEW entry \in PlanEntry
      PROVE  /\ Accumulate(entry, t) \in PlanEntry
             /\ Accumulate(entry, t).name = entry.name
  BY DEF Accumulate, PlanEntry, Tally
<1>3. \A i \in 1 .. Len(p) :
        SamplePlan(p, f, t)[i] = IF i > f THEN Accumulate(p[i], t) ELSE p[i]
  BY <1>1 DEF SamplePlan
<1>4. SamplePlan(p, f, t) \in [1 .. Len(p) -> PlanEntry]
  BY <1>1, <1>2 DEF SamplePlan
<1>5. SamplePlan(p, f, t) \in Plan /\ Len(SamplePlan(p, f, t)) = Len(p)
  BY <1>1, <1>4, IsASeq, LenProperties DEF Plan, SamplePlan
<1>6. QED
  BY <1>1, <1>2, <1>3, <1>5, AccumulateOnTime

\* The records of a range of entries that have completed by t are complete.
LEMMA CompletedBatchIs ==
  ASSUME NEW p \in Plan, NEW a \in Nat, NEW b \in Nat, NEW t \in Boundary,
         b <= Len(p),
         \A i \in 1 .. Len(p) :
           a < i /\ i <= b => p[i].acc = Due(p[i].name, t) /\ End[p[i].name] <= t
  PROVE  CompletedBatch(p, a, b) \in Seq(Complete)
PROOF
<1>1. Len(p) \in Nat
      /\ \A i \in 1 .. Len(p) : p[i].name \in Entry /\ p[i].acc \in Tally
                                /\ End[p[i].name] \in Int
  BY PlanElement
<1>2. ASSUME NEW i \in 1 .. b - a
      PROVE  [name |-> p[a + i].name, acc |-> p[a + i].acc] \in Complete
  <2>1. a + i \in 1 .. Len(p) /\ a < a + i /\ a + i <= b
    BY <1>1
  <2>2. /\ p[a + i].name \in Entry /\ p[a + i].acc \in Tally
        /\ p[a + i].acc = Due(p[a + i].name, t)
        /\ End[p[a + i].name] <= t /\ End[p[a + i].name] \in Int
    BY <1>1, <2>1
  <2>3. p[a + i].acc = Due(p[a + i].name, Horizon)
    BY <2>2, DueComplete
  <2>4. End[p[a + i].name] <= Horizon
    BY <2>2, HorizonAssumption DEF Boundary
  <2>5. QED
    BY <2>2, <2>3, <2>4 DEF Complete, Record, IsComplete
<1>3. CASE a <= b
  <2>1. CompletedBatch(p, a, b) \in [1 .. b - a -> Complete]
    BY <1>2 DEF CompletedBatch
  <2>2. b - a \in Nat
    BY <1>3
  <2>3. QED
    BY SMTT(60), <2>1, <2>2
<1>4. CASE a > b
  <2>1. 1 .. b - a = {}
    BY <1>4
  <2>2. CompletedBatch(p, a, b) \in [{} -> Complete]
    BY <2>1 DEF CompletedBatch
  <2>3. CompletedBatch(p, a, b) \in [1 .. 0 -> Complete] /\ 0 \in Nat
    BY <2>2
  <2>4. QED
    BY <2>3
<1>5. QED
  BY <1>3, <1>4

\* Order and unique ids only depend on the names.
LEMMA SameNames ==
  ASSUME NEW p \in Plan, NEW q \in Plan, Len(q) = Len(p),
         \A i \in 1 .. Len(p) : q[i].name = p[i].name
  PROVE  /\ Sorted(p) => Sorted(q)
         /\ UniqueIds(p) => UniqueIds(q)
PROOF
<1>1. DOMAIN p = 1 .. Len(p) /\ DOMAIN q = 1 .. Len(p)
  BY PlanElement
<1>2. QED
  BY <1>1 DEF Sorted, UniqueIds

\* The host plan and its device copy.
PlanType ==
  /\ plan \in Plan
  /\ device \in [live : BOOLEAN, acc : Seq(Tally)]
  /\ device.live => Len(device.acc) = Len(plan)

\* Synchronising with the device only replaces accumulators.
LEMMA SyncedIs ==
  ASSUME PlanType
  PROVE  /\ Synced \in Plan /\ Len(Synced) = Len(plan)
         /\ \A i \in 1 .. Len(plan) :
              Synced[i] = IF device.live THEN [plan[i] EXCEPT !.acc = device.acc[i]]
                                         ELSE plan[i]
         /\ \A i \in 1 .. Len(plan) :
              Synced[i].name = plan[i].name /\ Synced[i].win = plan[i].win
         /\ Sorted(plan) => Sorted(Synced)
         /\ UniqueIds(plan) => UniqueIds(Synced)
PROOF
<1>1. /\ Len(plan) \in Nat /\ DOMAIN plan = 1 .. Len(plan)
      /\ \A i \in 1 .. Len(plan) : plan[i] \in PlanEntry
  BY PlanElement DEF PlanType
<1>2. \A i \in 1 .. Len(plan) : device.live => device.acc[i] \in Tally
  BY ElementOfSeq DEF PlanType
<1>3. ASSUME NEW i \in 1 .. Len(plan)
      PROVE  /\ Synced[i] = IF device.live
                            THEN [plan[i] EXCEPT !.acc = device.acc[i]]
                            ELSE plan[i]
             /\ Synced[i] \in PlanEntry
             /\ Synced[i].name = plan[i].name
             /\ Synced[i].win = plan[i].win
  BY <1>1, <1>2 DEF Synced, Mirrored, PlanEntry
<1>4. Synced \in [1 .. Len(plan) -> PlanEntry]
  BY <1>1, <1>3 DEF Synced, Mirrored
<1>5. Synced \in Seq(PlanEntry) /\ Len(Synced) = Len(plan)
  BY <1>1, <1>4, LenProperties DEF Synced, Mirrored
<1>6. Synced \in Plan
  BY <1>5 DEF Plan
<1>7. /\ Sorted(plan) => Sorted(Synced)
      /\ UniqueIds(plan) => UniqueIds(Synced)
  BY <1>3, <1>5, <1>6, SameNames DEF PlanType
<1>8. QED
  BY <1>3, <1>5, <1>6, <1>7

\* What the entries of a file bring in is on time if it is accepted.
LEMMA IncomingIs ==
  ASSUME NEW t \in Step,
         \A i \in DOMAIN Incoming(t) : StartsAtOrAfter(Incoming(t)[i].win, t)
  PROVE  /\ Incoming(t) \in Plan
         /\ \A i \in 1 .. Len(Incoming(t)) : OnTime(Incoming(t)[i], t)
PROOF
<1> DEFINE file == Entries[InPath[t]]
<1>1. file \in Seq(Entry)
  BY PathAssumption
<1>2. /\ Len(file) \in Nat /\ DOMAIN file = 1 .. Len(file)
      /\ \A i \in 1 .. Len(file) : file[i] \in Entry
  BY <1>1, LenProperties, ElementOfSeq
<1>3. Incoming(t) = [i \in 1 .. Len(file) |-> FreshEntry(file[i])]
  BY <1>2 DEF Incoming
<1> HIDE DEF file
<1>4. ASSUME NEW i \in 1 .. Len(file)
      PROVE  FreshEntry(file[i]) \in PlanEntry /\ OnTime(FreshEntry(file[i]), t)
  <2>1. Incoming(t)[i].win = Window[file[i]]
    BY <1>3 DEF FreshEntry
  <2>2. StartsAtOrAfter(Window[file[i]], t)
    BY <1>3, <2>1
  <2>3. t \in Int
    BY DEF Step
  <2>4. QED
    BY <1>2, <2>2, <2>3, FreshOnTime
<1>5. Incoming(t) \in [1 .. Len(file) -> PlanEntry]
  BY <1>3, <1>4
<1>6. Incoming(t) \in Seq(PlanEntry) /\ Len(Incoming(t)) = Len(file)
  BY <1>2, <1>3, <1>5, LenProperties
<1>7. QED
  BY <1>3, <1>4, <1>6 DEF Plan

\* Up to where steps have been sampled or queued.
Reached == position + Len(pending)

QueueType ==
  /\ position \in Boundary /\ first \in Nat /\ flagged \in BOOLEAN
  /\ pending \in Seq([step : Step, prefix : Nat, path : OutputFile])

\* Compacting the plan at the boundary reached leaves what is on time there.
LEMMA RemainderIs ==
  ASSUME PlanType, QueueType, PlanShape, Truth, ~flagged,
         NEW t \in Boundary, plan # <<>> => t = position /\ t = Reached,
         NEW j \in 1 .. Len(CompactPlan(Synced, t))
  PROVE  IsRemainder(CompactPlan(Synced, t)[j], t)
         /\ OnTime(CompactPlan(Synced, t)[j], t)
PROOF
<1>1. Synced \in Plan /\ Sorted(Synced) /\ Len(Synced) = Len(plan)
      /\ \A i \in 1 .. Len(plan) : Synced[i].name = plan[i].name
  BY SyncedIs DEF PlanShape
<1>2. t \in Int
  BY DEF Boundary
<1>3. ASSUME NEW i \in 1 .. Len(Synced), End[Synced[i].name] > t
      PROVE  OnTime(Synced[i], t)
  <2>0. /\ Len(plan) \in Nat /\ plan[i].name = Synced[i].name
        /\ End[plan[i].name] \in Int /\ i \in 1 .. Len(plan)
    BY <1>1, PlanElement DEF PlanType
  <2>1. plan # <<>>
    BY <2>0, EmptySeq
  <2>2. t = position /\ t = Reached
    BY <2>1
  <2>3. i > first
    BY <1>2, <1>3, <2>0, <2>2 DEF PlanShape, QueueType
  <2>4. QED
    BY <2>0, <2>2, <2>3 DEF Truth, Reached
<1>4. /\ OnTime(CompactPlan(Synced, t)[j], t)
      /\ End[CompactPlan(Synced, t)[j].name] > t
      /\ StartsAtOrAfter(CompactPlan(Synced, t)[j].win, t)
      /\ \A c \in Component, s \in Step :
           Covers(CompactPlan(Synced, t)[j].win, c, s)
           <=> s >= t /\ Covers(Window[CompactPlan(Synced, t)[j].name], c, s)
  BY <1>1, <1>2, <1>3, CompactPlanOnTime
<1>5. QED
  BY <1>4 DEF IsRemainder, OnTime

\* A step that is accepted is sampled with a sorted plan on time at it: the
\* plan as it was, or a new one without device copy and completed entries.
LEMMA InitializedIs ==
  ASSUME PlanType, QueueType, PlanShape, Truth,
         NEW t \in Step, t = Reached, Accepted(t), NEW init \in Initialized(t)
  PROVE  /\ init.plan \in Plan /\ Sorted(init.plan) /\ UniqueIds(init.plan)
         /\ \/ /\ NeedsInput(t) /\ ~flagged
               /\ init.live = FALSE /\ init.first = 0
               /\ plan # <<>> => t = position
               /\ \A i \in 1 .. Len(init.plan) : OnTime(init.plan[i], t)
            \/ /\ ~NeedsInput(t)
               /\ init = [plan |-> plan, first |-> first, live |-> device.live]
PROOF
<1>1. CASE ~NeedsInput(t)
  BY <1>1 DEF Initialized, PlanType, PlanShape
<1>2. CASE NeedsInput(t)
  <2>1. /\ plan # <<>> => t = position
        /\ ~SyncRaises
        /\ \A i \in DOMAIN Incoming(t) : StartsAtOrAfter(Incoming(t)[i].win, t)
        /\ UniqueIds(Candidates(t))
    BY <1>2 DEF Accepted
  <2>2. ~flagged
    BY <2>1 DEF SyncRaises, PlanShape
  <2>3. PICK p \in StableSorts(Candidates(t)) :
          init = [plan |-> p, first |-> 0, live |-> FALSE]
    BY <1>2 DEF Initialized
  <2> DEFINE old == CompactPlan(Synced, t)
             new == Incoming(t)
  <2>4. t \in Boundary /\ t \in Int
    BY HorizonAssumption DEF Step, Boundary
  <2>5. old \in Plan
    BY <2>4, SyncedIs, CompactPlanIs DEF PlanShape
  <2>6. \A j \in 1 .. Len(old) : OnTime(old[j], t)
    BY <2>1, <2>2, <2>4, RemainderIs
  <2>7. new \in Plan /\ \A j \in 1 .. Len(new) : OnTime(new[j], t)
    BY <2>1, IncomingIs
  <2> HIDE DEF old, new
  <2>8. /\ Candidates(t) \in Plan
        /\ Len(old) \in Nat /\ Len(new) \in Nat
        /\ Len(Candidates(t)) = Len(old) + Len(new)
        /\ \A i \in 1 .. Len(old) + Len(new) :
             Candidates(t)[i] = IF i <= Len(old) THEN old[i] ELSE new[i - Len(old)]
    BY <2>5, <2>7, ConcatProperties, LenProperties DEF Candidates, Plan, old, new
  <2>9. \A i \in 1 .. Len(Candidates(t)) : OnTime(Candidates(t)[i], t)
    BY <2>6, <2>7, <2>8
  <2>10. /\ p \in Plan /\ Sorted(p) /\ UniqueIds(p)
         /\ \A k \in 1 .. Len(p) : \E i \in 1 .. Len(Candidates(t)) :
              p[k] = Candidates(t)[i]
    BY <2>1, <2>3, <2>8, StableSortsIs
  <2>11. \A k \in 1 .. Len(p) : OnTime(p[k], t)
    BY <2>9, <2>10
  <2>12. QED
    BY <1>2, <2>1, <2>2, <2>3, <2>10, <2>11
<1>3. QED
  BY <1>1, <1>2
-----------------------------------------------------------------------------
(* What a step that leaves some variables alone preserves.                 *)

LEMMA PlanFrame ==
  ASSUME PlanShape, Queue, Truth,
         UNCHANGED <<position, plan, first, pending, device, flagged>>
  PROVE  PlanShape' /\ Queue' /\ Truth'
PROOF
<1>1. PlanShape'
  BY DEF PlanShape
<1>2. Queue'
  BY DEF Queue
<1>3. Synced' = Synced
  BY DEF Synced, Mirrored
<1>4. Truth'
  BY <1>3 DEF Truth
<1>5. QED
  BY <1>1, <1>2, <1>4

LEMMA OutputFrame ==
  ASSUME CompleteOnly, UNCHANGED <<science, staged, detached>>
  PROVE  CompleteOnly'
PROOF BY DEF CompleteOnly, Records

LEMMA RestartsFrame ==
  ASSUME Restarts, UNCHANGED restarts
  PROVE  Restarts'
PROOF BY DEF Restarts, RestartIsRemainder

\* A process that is gone has nothing left that could be wrong.
LEMMA GoneIs ==
  ASSUME IInv, Gone
  PROVE  /\ Control' /\ PlanShape' /\ Queue' /\ Truth' /\ InStep'
         /\ phase' \in Phase /\ last' \in BOOLEAN /\ backend' \in Backend
         /\ start' \in Boundary /\ current' \in Boundary
         /\ stop' \in Boundary /\ position' \in Boundary
         /\ plan' \in Plan /\ first' \in Nat
         /\ prevInput' \in InputFile \cup {NoFile}
         /\ outPath' \in OutputFile \cup {NoFile}
         /\ staged' \in Seq(Record) /\ created' \in BOOLEAN
         /\ pending' \in Seq([step : Step, prefix : Nat, path : OutputFile])
         /\ detached' \in Seq([path : OutputFile, batch : Seq(Record)])
         /\ drained' \in Nat /\ flagged' \in BOOLEAN
         /\ device' \in [live : BOOLEAN, acc : Seq(Tally)]
PROOF
<1>1. /\ phase' = "down" /\ last' = FALSE /\ backend' = "cpu" /\ ~UseCuda'
      /\ plan' = <<>> /\ first' = 0 /\ prevInput' = NoFile
      /\ outPath' = NoFile /\ staged' = <<>> /\ created' = FALSE
      /\ pending' = <<>> /\ detached' = <<>> /\ drained' = 0
      /\ device' = [live |-> FALSE, acc |-> <<>>] /\ flagged' = FALSE
      /\ start' = start /\ current' = current /\ stop' = stop
      /\ position' = position
  BY DEF Gone, NoDevice, UseCuda
<1>2. /\ start \in Boundary /\ current \in Boundary
      /\ stop \in Boundary /\ position \in Boundary
  BY DEF IInv, TypeOK
<1>3. Control'
  BY <1>1 DEF Control, NoDevice
<1>4. PlanShape'
  BY <1>1 DEF PlanShape, Sorted, UniqueIds
<1>5. Queue'
  BY <1>1, <1>2, HorizonAssumption DEF Queue, Boundary
<1>6. Truth'
  BY <1>1 DEF Truth
<1>7. InStep'
  BY <1>1 DEF InStep
<1>8. plan' \in Plan /\ staged' \in Seq(Record)
      /\ pending' \in Seq([step : Step, prefix : Nat, path : OutputFile])
      /\ detached' \in Seq([path : OutputFile, batch : Seq(Record)])
      /\ device' \in [live : BOOLEAN, acc : Seq(Tally)]
  BY <1>1, EmptySeq DEF Plan
<1>9. QED
  BY <1>1, <1>2, <1>3, <1>4, <1>5, <1>6, <1>7, <1>8 DEF Phase, Backend

\* What is left of it is on disk.
LEMMA GoneOnDisk ==
  ASSUME IInv, Gone, science' \in [OutputFile -> Seq(Complete)],
         Restarts', restarts' \in [Boundary -> [written : BOOLEAN, plan : Plan]]
  PROVE  IInv'
PROOF
<1>1. /\ outPath' = NoFile /\ staged' = <<>> /\ created' = FALSE
      /\ detached' = <<>>
  BY DEF Gone
<1>2. Writer' \in GoodWriter /\ detached' \in Seq(Outputs)
  BY <1>1, EmptySeq DEF Writer, GoodWriter
<1>3. WriterType' /\ CompleteOnly'
  BY <1>2, GoodIsComplete
<1>4. TypeOK'
  BY <1>3, GoneIs DEF TypeOK, WriterType
<1>5. QED
  BY <1>3, <1>4, GoneIs DEF IInv

\* The steps of the run loop alone only move it.
LEMMA LoopFrame ==
  ASSUME IInv,
         UNCHANGED <<runVars, planVars, writerVars, cudaVars, restarts>>,
         phase' \in Phase, last' \in BOOLEAN, current' \in Boundary,
         Control', InStep'
  PROVE  IInv'
PROOF
<1>1. /\ position' = position /\ plan' = plan /\ first' = first
      /\ prevInput' = prevInput /\ outPath' = outPath /\ staged' = staged
      /\ created' = created /\ science' = science /\ pending' = pending
      /\ detached' = detached /\ drained' = drained /\ device' = device
      /\ flagged' = flagged /\ restarts' = restarts
      /\ start' = start /\ stop' = stop
      /\ backend' = backend /\ UseCuda' = UseCuda
  BY DEF planVars, writerVars, cudaVars, runVars, UseCuda
<1>2. TypeOK'
  BY <1>1 DEF IInv, TypeOK
<1>3. PlanShape' /\ Queue' /\ Truth'
  BY <1>1, PlanFrame DEF IInv
<1>4. Restarts' /\ CompleteOnly'
  BY <1>1, RestartsFrame, OutputFrame DEF IInv
<1>5. QED
  BY <1>2, <1>3, <1>4 DEF IInv
-----------------------------------------------------------------------------
(* The actions, one by one.                                                *)

LEMMA InitIInv == Init => IInv
PROOF
<1> SUFFICES ASSUME Init PROVE IInv
  OBVIOUS
<1>1. /\ plan = <<>> /\ staged = <<>> /\ pending = <<>> /\ detached = <<>>
      /\ first = 0 /\ position = 0 /\ phase = "down"
      /\ start = 0 /\ current = 0 /\ stop = 0 /\ last = FALSE
      /\ prevInput = NoFile /\ outPath = NoFile /\ created = FALSE
      /\ drained = 0 /\ flagged = FALSE /\ backend = "cpu"
      /\ device = [live |-> FALSE, acc |-> <<>>]
      /\ science = [f \in OutputFile |-> <<>>]
      /\ restarts = [t \in Boundary |-> [written |-> FALSE, plan |-> <<>>]]
  BY DEF Init, NoDevice, NoRestart
<1>2. 0 \in Boundary
  BY HorizonAssumption DEF Boundary
<1>3. TypeOK
  <2>1. plan \in Plan /\ staged \in Seq(Record)
        /\ pending \in Seq([step : Step, prefix : Nat, path : OutputFile])
        /\ detached \in Seq([path : OutputFile, batch : Seq(Record)])
        /\ device \in [live : BOOLEAN, acc : Seq(Tally)]
        /\ science \in [OutputFile -> Seq(Record)]
        /\ restarts \in [Boundary -> [written : BOOLEAN, plan : Plan]]
    BY <1>1, EmptySeq DEF Plan
  <2>2. QED
    BY <1>1, <1>2, <2>1 DEF TypeOK, Phase, Backend
<1>4. Control
  BY <1>1 DEF Control, NoDevice
<1>5. PlanShape
  BY <1>1 DEF PlanShape, Sorted, UniqueIds
<1>6. Queue
  BY <1>1, HorizonAssumption DEF Queue
<1>7. Truth
  BY <1>1 DEF Truth
<1>8. Restarts
  BY <1>1 DEF Restarts, RestartIsRemainder
<1>9. InStep
  BY <1>1 DEF InStep
<1>10. CompleteOnly
  BY <1>1 DEF CompleteOnly, Records
<1>11. QED
  BY <1>3, <1>4, <1>5, <1>6, <1>7, <1>8, <1>9, <1>10 DEF IInv

\* The type facts of a state that the lemmas above ask for.
LEMMA Types ==
  ASSUME IInv
  PROVE  /\ PlanType /\ QueueType /\ WriterType /\ DetachedType
         /\ Len(pending) \in Nat /\ Reached \in Int
         /\ phase \in Phase /\ last \in BOOLEAN /\ backend \in Backend
         /\ drained \in Nat
         /\ start \in Boundary /\ current \in Boundary /\ stop \in Boundary
         /\ prevInput \in InputFile \cup {NoFile}
         /\ restarts \in [Boundary -> [written : BOOLEAN, plan : Plan]]
PROOF
<1>1. TypeOK /\ PlanShape
  BY DEF IInv
<1>2. PlanType /\ QueueType /\ WriterType /\ DetachedType
  BY <1>1 DEF TypeOK, PlanShape, PlanType, QueueType, WriterType, DetachedType
<1>3. Len(pending) \in Nat
  BY <1>2, LenProperties DEF QueueType
<1>4. Reached \in Int
  BY <1>2, <1>3 DEF Reached, QueueType, Boundary
<1>5. QED
  BY <1>1, <1>2, <1>3, <1>4 DEF TypeOK

\* The queue ends where the run has got to.
LEMMA QueuedToIs ==
  ASSUME IInv
  PROVE  /\ QueuedTo = Reached
         /\ pending # <<>> =>
              /\ Len(pending) \in 1 .. Len(pending)
              /\ pending[Len(pending)].step + 1 = Reached
PROOF
<1>1. /\ Len(pending) \in Nat /\ position \in Int
      /\ pending \in Seq([step : Step, prefix : Nat, path : OutputFile])
  BY Types DEF QueueType, Boundary
<1>2. pending = <<>> => Len(pending) = 0
  BY EmptySeq
<1>3. pending # <<>> => Len(pending) \in 1 .. Len(pending)
  BY <1>1, EmptySeq
<1>4. pending # <<>> => pending[Len(pending)].step = position + Len(pending) - 1
  BY <1>3 DEF IInv, Queue
<1>5. QED
  BY <1>1, <1>2, <1>3, <1>4 DEF QueuedTo, Reached

LEMMA AdvanceIInv == IInv /\ Advance => IInv'
PROOF
<1> SUFFICES ASSUME IInv, Advance PROVE IInv'
  OBVIOUS
<1>1. /\ phase = "sampled" /\ phase' = "running" /\ current' = current + 1
      /\ UNCHANGED <<runVars, last, planVars, writerVars, cudaVars, restarts>>
  BY DEF Advance
<1>2. current < stop /\ current + 1 = position + Len(pending)
  BY <1>1 DEF IInv, Control, InStep
<1>3. current' \in Boundary /\ current' <= stop
  BY <1>1, <1>2, Types, HorizonAssumption DEF Boundary, runVars
<1>4. UseCuda' = UseCuda /\ pending = <<>>
  BY <1>1 DEF IInv, Control, runVars, UseCuda
<1>5. Control'
  BY <1>1, <1>3 DEF IInv, Control, planVars, cudaVars, runVars, UseCuda
<1>6. InStep'
  BY <1>1, <1>2, <1>4, EmptySeq, Types DEF InStep, planVars, cudaVars, runVars, UseCuda
<1>7. QED
  BY <1>1, <1>3, <1>5, <1>6, LoopFrame, Types DEF Phase, runVars

LEMMA UnwindIInv ==
  ASSUME IInv, phase' = "unwinding",
         UNCHANGED <<runVars, current, last, planVars, writerVars, cudaVars,
                     restarts>>
  PROVE  IInv'
PROOF
<1>1. Control'
  BY DEF IInv, Control, cudaVars, planVars, runVars, UseCuda
<1>2. InStep'
  BY DEF InStep
<1>3. QED
  BY <1>1, <1>2, LoopFrame, Types DEF Phase, runVars

LEMMA StepEndCudaIInv == IInv /\ StepEndCuda => IInv'
PROOF
<1> SUFFICES ASSUME IInv, StepEndCuda PROVE IInv'
  OBVIOUS
<1>1. /\ phase = "launched"
      /\ UNCHANGED <<runVars, planVars, writerVars, cudaVars, restarts>>
  BY DEF StepEndCuda
<1>2. PICK fetched \in BOOLEAN, other \in BOOLEAN :
        /\ fetched => current + 1 < stop
        /\ IF ~fetched \/ other \/ RequiresFlushBefore(current + 1)
           THEN phase' = "drain" /\ last' = ~fetched /\ current' = current
           ELSE phase' = "running" /\ last' = FALSE /\ current' = current + 1
  BY DEF StepEndCuda
<1>3. /\ current < stop /\ current + 1 = position + Len(pending)
      /\ pending # <<>>
  BY <1>1 DEF IInv, Control, InStep
<1>4. /\ current \in Int /\ stop \in Int /\ current + 1 \in Boundary
      /\ current \in Boundary
  BY <1>3, Types, HorizonAssumption DEF Boundary
<1>5. CASE phase' = "drain" /\ last' = ~fetched /\ current' = current
  <2>1. Control'
    BY <1>1, <1>3, <1>4, <1>5 DEF IInv, Control, planVars, cudaVars, runVars, UseCuda
  <2>2. InStep'
    BY <1>1, <1>3, <1>5 DEF InStep, planVars, cudaVars, runVars, UseCuda
  <2>3. QED
    BY <1>1, <1>4, <1>5, <2>1, <2>2, LoopFrame, Types DEF Phase, runVars
<1>6. CASE /\ fetched /\ ~RequiresFlushBefore(current + 1)
           /\ phase' = "running" /\ last' = FALSE /\ current' = current + 1
  <2>1. InPath[current + 1] = prevInput
    BY <1>3, <1>6 DEF RequiresFlushBefore
  <2>2. Control'
    BY <1>1, <1>2, <1>3, <1>4, <1>6 DEF IInv, Control, planVars, cudaVars, runVars, UseCuda
  <2>3. InStep'
    BY <1>1, <1>3, <1>6, <2>1 DEF InStep, planVars, cudaVars, runVars, UseCuda
  <2>4. QED
    BY <1>1, <1>4, <1>6, <2>2, <2>3, LoopFrame, Types DEF Phase, runVars
<1>7. QED
  BY <1>2, <1>5, <1>6

LEMMA OpenIInv ==
  ASSUME IInv, NEW t \in Boundary, NEW end \in Boundary, Open(t, end)
  PROVE  IInv'
PROOF
<1>1. /\ phase = "down" /\ t < end /\ phase' = "running"
      /\ start' = t /\ current' = t /\ stop' = end /\ position' = t
      /\ plan' = restarts[t].plan /\ backend' \in Backend
      /\ last' = last /\ first' = first /\ prevInput' = prevInput
      /\ outPath' = outPath /\ staged' = staged /\ created' = created
      /\ science' = science /\ pending' = pending /\ detached' = detached
      /\ drained' = drained /\ device' = device /\ flagged' = flagged
      /\ restarts' = restarts
  BY BackendsAssumption DEF Open, writerVars, cudaVars
<1>2. /\ first = 0 /\ pending = <<>> /\ detached = <<>> /\ staged = <<>>
      /\ device = [live |-> FALSE, acc |-> <<>>] /\ ~flagged
  BY <1>1 DEF IInv, Control, NoDevice
<1>3. Len(pending) = 0
  BY <1>2, EmptySeq
<1>4. /\ plan' \in Plan /\ Len(plan') \in Nat /\ DOMAIN plan' = 1 .. Len(plan')
      /\ \A i \in 1 .. Len(plan') : plan'[i] \in PlanEntry
  <2>1. restarts[t].plan \in Plan
    BY Types
  <2>2. QED
    BY <1>1, <2>1, PlanElement
<1>5. /\ Sorted(plan') /\ UniqueIds(plan')
      /\ \A i \in 1 .. Len(plan') : IsRemainder(plan'[i], t)
  <2>1. CASE restarts[t].written
    BY <1>1, <1>4, <2>1 DEF IInv, Restarts, RestartIsRemainder
  <2>2. CASE ~restarts[t].written
    <3>1. plan' = <<>>
      BY <1>1, <2>2 DEF IInv, Restarts
    <3>2. QED
      BY <3>1 DEF Sorted, UniqueIds
  <2>3. QED
    BY <2>1, <2>2
<1>6. TypeOK'
  BY <1>1, <1>4 DEF IInv, TypeOK, Phase
<1>7. Control'
  BY <1>1, <1>2, Types, HorizonAssumption DEF IInv, Control, Boundary, NoDevice
<1>8. PlanShape'
  BY <1>1, <1>2, <1>4, <1>5 DEF PlanShape
<1>9. Queue'
  BY <1>1, <1>2, <1>3, HorizonAssumption DEF Queue, Boundary
<1>10. Truth'
  <2>1. device'.live = FALSE
    BY <1>1, <1>2
  <2>2. \A i \in 1 .. Len(plan') : Synced'[i] = plan'[i]
    BY <1>4, <2>1 DEF Synced, Mirrored
  <2>3. ASSUME NEW i \in 1 .. Len(plan') PROVE OnTime(plan'[i], t)
    BY <1>5 DEF IsRemainder, OnTime, Reaches
  <2>4. (position + Len(pending))' = t
    BY <1>1, <1>3 DEF Boundary
  <2>5. QED
    BY <2>2, <2>3, <2>4 DEF Truth
<1>11. InStep'
  BY <1>1, <1>2, <1>3 DEF InStep, Boundary
<1>12. Restarts' /\ CompleteOnly'
  BY <1>1, RestartsFrame, OutputFrame DEF IInv
<1>13. QED
  BY <1>6, <1>7, <1>8, <1>9, <1>10, <1>11, <1>12 DEF IInv

\* A step sampled on the CPU: the plan afterwards is on time, and what has
\* completed by then is complete.
LEMMA SampleIs ==
  ASSUME IInv, phase = "running", ~UseCuda, current < stop,
         position = current, Accepted(current), NEW init \in Initialized(current)
  PROVE  LET t == current
             complete == CompletedPrefix(init.plan, t + 1)
             sampled == SamplePlan(init.plan, init.first, t)
         IN  /\ init.plan \in Plan /\ Sorted(init.plan) /\ UniqueIds(init.plan)
             /\ init.first \in 0 .. Len(init.plan) /\ Len(init.plan) \in Nat
             /\ \A i \in 1 .. init.first : End[init.plan[i].name] <= t
             /\ complete \in 0 .. Len(init.plan)
             /\ \A i \in 1 .. complete : End[init.plan[i].name] <= t + 1
             /\ sampled \in Plan /\ Len(sampled) = Len(init.plan)
             /\ \A i \in 1 .. Len(init.plan) :
                  /\ sampled[i].name = init.plan[i].name
                  /\ i > init.first => OnTime(sampled[i], t + 1)
             /\ Sorted(sampled) /\ UniqueIds(sampled)
             /\ CompletedBatch(sampled, init.first, complete) \in Seq(Complete)
PROOF
<1> DEFINE t == current
           complete == CompletedPrefix(init.plan, t + 1)
           sampled == SamplePlan(init.plan, init.first, t)
<1>1. position = t /\ Accepted(t)
  OBVIOUS
<1>3. pending = <<>> /\ Len(pending) = 0 /\ device.live = FALSE /\ ~flagged
  BY EmptySeq DEF IInv, Control, NoDevice
<1>4. t \in Step /\ t + 1 \in Boundary /\ t + 1 \in Int /\ t \in Boundary
      /\ t = Reached
  BY <1>1, <1>3, Types, HorizonAssumption DEF Boundary, Step, Reached
<1>5. /\ init.plan \in Plan /\ Sorted(init.plan) /\ UniqueIds(init.plan)
      /\ init.first \in 0 .. Len(init.plan) /\ Len(init.plan) \in Nat
      /\ \A i \in 1 .. init.first : End[init.plan[i].name] <= t
      /\ \A i \in 1 .. Len(init.plan) : i > init.first => OnTime(init.plan[i], t)
  <2>1. /\ init.plan \in Plan /\ Sorted(init.plan) /\ UniqueIds(init.plan)
        /\ \/ /\ init.first = 0
              /\ \A i \in 1 .. Len(init.plan) : OnTime(init.plan[i], t)
           \/ init = [plan |-> plan, first |-> first, live |-> device.live]
    BY <1>1, <1>4, InitializedIs, Types DEF IInv
  <2>2. Len(init.plan) \in Nat
    BY <2>1, PlanElement
  <2>3. \A i \in 1 .. Len(plan) : Synced[i] = plan[i]
    BY <1>3, Types, SyncedIs
  <2>4. CASE init = [plan |-> plan, first |-> first, live |-> device.live]
    <3>1. first \in 0 .. Len(plan)
      BY <2>2, <2>4, Types DEF QueueType, IInv, PlanShape
    <3>2. \A i \in 1 .. first : End[plan[i].name] <= t
      BY <1>1 DEF IInv, PlanShape
    <3>3. \A i \in 1 .. Len(plan) : i > first => OnTime(plan[i], t)
      BY <1>3, <1>4, <2>3 DEF IInv, Truth, Reached
    <3>4. QED
      BY <2>1, <2>2, <2>4, <3>1, <3>2, <3>3
  <2>5. CASE /\ init.first = 0
             /\ \A i \in 1 .. Len(init.plan) : OnTime(init.plan[i], t)
    BY <2>1, <2>2, <2>5
  <2>6. QED
    BY <2>1, <2>4, <2>5
<1>6. /\ complete \in 0 .. Len(init.plan)
      /\ \A i \in 1 .. complete : End[init.plan[i].name] <= t + 1
  BY <1>4, <1>5, CompletedPrefixIs
<1>7. /\ sampled \in Plan /\ Len(sampled) = Len(init.plan)
      /\ \A i \in 1 .. Len(init.plan) :
           /\ sampled[i].name = init.plan[i].name
           /\ i > init.first => OnTime(sampled[i], t + 1)
  <2>1. init.first \in Nat /\ init.plan \in Plan /\ t \in Step
    BY <1>4, <1>5
  <2>2. /\ sampled \in Plan /\ Len(sampled) = Len(init.plan)
        /\ \A i \in 1 .. Len(init.plan) :
             /\ sampled[i].name = init.plan[i].name
             /\ i > init.first /\ OnTime(init.plan[i], t)
                  => OnTime(sampled[i], t + 1)
    BY <2>1, SamplePlanIs
  <2> HIDE DEF sampled
  <2>3. QED
    BY <1>5, <2>2
<1>8. Sorted(sampled) /\ UniqueIds(sampled)
  BY <1>5, <1>7, SameNames
<1>9. CompletedBatch(sampled, init.first, complete) \in Seq(Complete)
  <2> HIDE DEF sampled, complete
  <2>1. init.first \in Nat /\ complete \in Nat /\ complete <= Len(sampled)
    BY <1>5, <1>6, <1>7
  <2>2. \A i \in 1 .. Len(sampled) : init.first < i /\ i <= complete =>
          sampled[i].acc = Due(sampled[i].name, t + 1)
          /\ End[sampled[i].name] <= t + 1
    BY <1>5, <1>6, <1>7 DEF OnTime
  <2>3. QED
    BY <1>4, <1>7, <2>1, <2>2, CompletedBatchIs
<1> HIDE DEF complete, sampled
<1>10. QED
  BY <1>5, <1>6, <1>7, <1>8, <1>9 DEF complete, sampled

LEMMA SampleIInv == IInv /\ Sample => IInv'
PROOF
<1> SUFFICES ASSUME IInv, Sample PROVE IInv'
  OBVIOUS
<1> DEFINE t == current
<1>1. /\ phase = "running" /\ ~UseCuda /\ t < stop /\ position = t /\ Accepted(t)
      /\ prevInput' = InPath[t] /\ position' = t + 1 /\ phase' = "sampled"
      /\ start' = start /\ current' = t /\ stop' = stop
      /\ backend' = backend /\ UseCuda' = UseCuda /\ last' = last
      /\ pending' = pending /\ detached' = detached /\ drained' = drained
      /\ device' = device /\ flagged' = flagged /\ restarts' = restarts
  BY DEF Sample, cudaVars, runVars, UseCuda
<1>2. PICK init \in Initialized(t) :
        /\ \E w \in Written(SelectPath(Writer, OutputPath(t)),
                      CompletedBatch(SamplePlan(init.plan, init.first, t),
                                     init.first,
                                     CompletedPrefix(init.plan, t + 1))) :
             SetWriter(w)
        /\ plan' = SamplePlan(init.plan, init.first, t)
        /\ first' = Later(init.first, CompletedPrefix(init.plan, t + 1))
  BY DEF Sample
<1> DEFINE complete == CompletedPrefix(init.plan, t + 1)
           sampled == SamplePlan(init.plan, init.first, t)
<1>3. pending = <<>> /\ Len(pending) = 0 /\ device.live = FALSE /\ ~flagged
  BY <1>1, EmptySeq DEF IInv, Control, NoDevice
<1>4. t \in Step /\ t + 1 \in Boundary /\ t + 1 \in Int /\ t \in Boundary
      /\ t = Reached
  BY <1>1, <1>3, Types, HorizonAssumption DEF Boundary, Step, Reached
<1>5. /\ init.plan \in Plan /\ Sorted(init.plan) /\ UniqueIds(init.plan)
      /\ init.first \in 0 .. Len(init.plan) /\ Len(init.plan) \in Nat
      /\ \A i \in 1 .. init.first : End[init.plan[i].name] <= t
  BY <1>1, SampleIs
<1>6. /\ complete \in 0 .. Len(init.plan)
      /\ \A i \in 1 .. complete : End[init.plan[i].name] <= t + 1
  BY <1>1, SampleIs
<1>7. /\ sampled \in Plan /\ Len(sampled) = Len(init.plan)
      /\ \A i \in 1 .. Len(init.plan) :
           /\ sampled[i].name = init.plan[i].name
           /\ i > init.first => OnTime(sampled[i], t + 1)
  BY <1>1, SampleIs
<1>8. Sorted(sampled) /\ UniqueIds(sampled)
  BY <1>1, SampleIs
<1>9. CompletedBatch(sampled, init.first, complete) \in Seq(Complete)
  BY <1>1, SampleIs
<1>10. Writer' \in GoodWriter
  <2>1. OutputPath(t) \in OutputFile
    BY <1>4, PathAssumption DEF OutputPath
  <2>2. Writer \in GoodWriter
    BY Types, WriterIsGood DEF IInv
  <2>3. SelectPath(Writer, OutputPath(t)) \in GoodWriter
    BY <2>1, <2>2, SelectPathGood
  <2> HIDE DEF complete, sampled
  <2>4. PICK w \in Written(SelectPath(Writer, OutputPath(t)),
                           CompletedBatch(sampled, init.first, complete)) :
          SetWriter(w)
    BY <1>2 DEF complete, sampled
  <2>5. w \in GoodWriter
    BY <1>9, <2>3, <2>4, WrittenGood
  <2>6. Writer' = w
    BY <2>4, <2>5 DEF SetWriter, Writer, GoodWriter
  <2>7. QED
    BY <2>5, <2>6
<1> HIDE DEF complete, sampled
<1>11. WriterType' /\ CompleteOnly'
  BY <1>1, <1>10, GoodIsComplete, Types, WriterIsGood DEF IInv
<1>12. /\ plan' = sampled /\ first' = Later(init.first, complete)
       /\ first' \in 0 .. Len(sampled) /\ first' >= init.first
       /\ first' = complete \/ first' = init.first
  BY <1>2, <1>5, <1>6, <1>7 DEF complete, sampled, Later
<1>13. TypeOK'
  <2>1. prevInput' \in InputFile
    BY <1>1, <1>4, PathAssumption
  <2>2. first' \in Nat
    BY <1>12
  <2>3. QED
    BY <1>1, <1>4, <1>7, <1>11, <1>12, <2>1, <2>2
       DEF IInv, TypeOK, WriterType, Phase
<1>14. Control'
  BY <1>1, <1>3 DEF IInv, Control
<1>15. PlanShape'
  <2>1. ASSUME NEW i \in 1 .. first' PROVE End[plan'[i].name] <= position'
    <3>1. i \in 1 .. Len(init.plan) /\ plan'[i].name = init.plan[i].name
      BY <1>5, <1>7, <1>12
    <3>2. End[init.plan[i].name] \in Int
      BY <1>5, <3>1, PlanElement
    <3>3. CASE first' = complete
      BY <1>1, <1>6, <2>1, <3>1, <3>3
    <3>4. CASE first' = init.first
      <4>1. End[init.plan[i].name] <= t
        BY <1>5, <2>1, <3>4
      <4>2. t \in Int /\ position' = t + 1
        BY <1>1, <1>4 DEF Step
      <4> HIDE DEF t
      <4>3. End[init.plan[i].name] <= t + 1
        BY <3>2, <4>1, <4>2
      <4>4. QED
        BY <3>1, <4>2, <4>3
    <3>5. QED
      BY <1>12, <3>3, <3>4
  <2>2. QED
    BY <1>1, <1>3, <1>8, <1>12, <2>1 DEF PlanShape
<1>16. Queue'
  BY <1>1, <1>3, <1>4 DEF Queue, Boundary
<1>17. Truth'
  <2>1. \A i \in 1 .. Len(plan') : Synced'[i] = plan'[i]
    BY <1>1, <1>3, <1>7, <1>12, PlanElement DEF Synced, Mirrored
  <2>2. (position + Len(pending))' = t + 1
    BY <1>1, <1>3, <1>4
  <2>3. \A i \in 1 .. Len(plan') : i > first' => OnTime(plan'[i], t + 1)
    BY <1>5, <1>7, <1>12
  <2>4. QED
    BY <2>1, <2>2, <2>3 DEF Truth
<1>18. InStep'
  BY <1>1, <1>3, <1>4 DEF InStep
<1>19. Restarts'
  BY <1>1, RestartsFrame DEF IInv
<1>20. QED
  BY <1>11, <1>13, <1>14, <1>15, <1>16, <1>17, <1>18, <1>19 DEF IInv

\* The kernel's result: a device copy of the plan, on time at t + 1 unless
\* it raised the flag.
LEMMA KernelIs ==
  ASSUME NEW init, NEW t \in Step, NEW bad,
         init.plan \in Plan, init.first \in Nat, init.live \in BOOLEAN,
         device \in [live : BOOLEAN, acc : Seq(Tally)],
         init.live => Len(device.acc) = Len(init.plan)
  PROVE  LET after == Kernel(init.plan, init.first, init.live, t, bad)
         IN  /\ after.live = TRUE /\ after.acc \in Seq(Tally)
             /\ Len(after.acc) = Len(init.plan)
             /\ \A i \in 1 .. Len(init.plan) :
                  bad = {} /\ i > init.first
                  /\ OnTime(Mirrored(init.plan, init.live)[i], t) =>
                    OnTime([init.plan[i] EXCEPT !.acc = after.acc[i]], t + 1)
PROOF
<1> DEFINE p == init.plan
           f == init.first
           live == init.live
           base == Mirrored(p, live)
           done == SamplePlan(base, f, t)
           acc == [i \in DOMAIN p |-> IF i \in bad THEN base[i].acc
                                                   ELSE done[i].acc]
<1>1. /\ Len(p) \in Nat /\ DOMAIN p = 1 .. Len(p)
      /\ \A i \in 1 .. Len(p) : p[i] \in PlanEntry
  BY PlanElement
<1>2. \A i \in 1 .. Len(p) : live => device.acc[i] \in Tally
  BY ElementOfSeq
<1>3. ASSUME NEW i \in 1 .. Len(p)
      PROVE  /\ base[i] \in PlanEntry
             /\ base[i].name = p[i].name /\ base[i].win = p[i].win
  BY <1>1, <1>2 DEF PlanEntry, Mirrored
<1>4. base \in Plan /\ Len(base) = Len(p)
  <2>1. DOMAIN base = 1 .. Len(p)
    BY <1>1 DEF Mirrored
  <2>2. base \in [1 .. Len(p) -> PlanEntry]
    BY <1>1, <1>3 DEF Mirrored
  <2> HIDE DEF base
  <2>3. base \in Seq(PlanEntry)
    BY <1>1, <2>2
  <2>4. QED
    BY <1>1, <2>1, <2>3, LenProperties DEF Plan
<1>5. Kernel(p, f, live, t, bad) = [live |-> TRUE, acc |-> acc]
  BY DEF Kernel
<1> HIDE DEF base
<1>6. /\ done \in Plan /\ Len(done) = Len(p)
      /\ \A i \in 1 .. Len(p) : OnTime(base[i], t) /\ i > f
                                  => OnTime(done[i], t + 1)
  BY <1>4, SamplePlanIs
<1>7. \A i \in 1 .. Len(p) : done[i] = IF i > f THEN Accumulate(base[i], t)
                                               ELSE base[i]
  BY <1>4, PlanElement DEF SamplePlan
<1>8. ASSUME NEW i \in 1 .. Len(p)
      PROVE  /\ done[i] \in PlanEntry
             /\ done[i].name = p[i].name /\ done[i].win = p[i].win
  BY <1>3, <1>6, <1>7, PlanElement DEF Accumulate, PlanEntry
<1> HIDE DEF done
<1>9. acc \in [1 .. Len(p) -> Tally]
  BY <1>1, <1>3, <1>8 DEF PlanEntry
<1>10. acc \in Seq(Tally) /\ Len(acc) = Len(p)
  <2>1. DOMAIN acc = 1 .. Len(p)
    BY <1>1
  <2> HIDE DEF acc
  <2>2. acc \in Seq(Tally)
    BY <1>1, <1>9
  <2>3. QED
    BY <1>1, <2>1, <2>2, LenProperties
<1>11. ASSUME NEW i \in 1 .. Len(p), bad = {}, i > f, OnTime(base[i], t)
       PROVE  OnTime([p[i] EXCEPT !.acc = acc[i]], t + 1)
  <2>1. acc[i] = done[i].acc
    BY <1>1, <1>11
  <2>2. [p[i] EXCEPT !.acc = acc[i]] = done[i]
    BY <1>1, <1>8, <2>1 DEF PlanEntry
  <2>3. QED
    BY <1>6, <1>11, <2>2
<1> HIDE DEF acc
<1>12. QED
  <2> DEFINE after == Kernel(p, f, live, t, bad)
  <2>1. after.live = TRUE /\ after.acc = acc
    BY <1>5
  <2> HIDE DEF after
  <2>2. ASSUME NEW i \in 1 .. Len(p), bad = {}, i > f, OnTime(base[i], t)
        PROVE  OnTime([p[i] EXCEPT !.acc = after.acc[i]], t + 1)
    BY <1>11, <2>1, <2>2
  <2>3. QED
    BY <1>10, <2>1, <2>2 DEF after, base

LEMMA LaunchIInv == IInv /\ Launch => IInv'
PROOF
<1> SUFFICES ASSUME IInv, Launch PROVE IInv'
  OBVIOUS
<1> DEFINE t == current
           n == Len(pending)
<1>1. /\ phase = "running" /\ UseCuda /\ t < stop /\ QueuedTo = t /\ Accepted(t)
      /\ prevInput' = InPath[t] /\ phase' = "launched"
      /\ start' = start /\ current' = t /\ stop' = stop
      /\ backend' = backend /\ UseCuda' = UseCuda /\ last' = last
      /\ position' = position /\ detached' = detached /\ drained' = drained
      /\ outPath' = outPath /\ staged' = staged /\ created' = created
      /\ science' = science /\ restarts' = restarts
  BY DEF Launch, writerVars, runVars, UseCuda
<1>a. PICK init \in Initialized(t) :
        \E bad \in SUBSET (init.first + 1 .. Len(init.plan)) :
          /\ plan' = init.plan
          /\ first' = init.first
          /\ device' = IF init.first < Len(init.plan)
                       THEN Kernel(init.plan, init.first, init.live, t, bad)
                       ELSE IF init.live THEN device ELSE NoDevice
          /\ flagged' = (flagged \/ bad # {})
          /\ pending' = Append(pending,
               [step |-> t, path |-> OutputPath(t),
                prefix |-> CompletedPrefix(init.plan, t + 1)])
  BY DEF Launch
<1>2. PICK bad \in SUBSET (init.first + 1 .. Len(init.plan)) :
        /\ plan' = init.plan
        /\ first' = init.first
        /\ device' = IF init.first < Len(init.plan)
                     THEN Kernel(init.plan, init.first, init.live, t, bad)
                     ELSE IF init.live THEN device ELSE NoDevice
        /\ flagged' = (flagged \/ bad # {})
        /\ pending' = Append(pending,
             [step |-> t, path |-> OutputPath(t),
              prefix |-> CompletedPrefix(init.plan, t + 1)])
  BY <1>a
<1>3. /\ t \in Step /\ t + 1 \in Boundary /\ t + 1 \in Int /\ t \in Boundary
      /\ t = Reached /\ n \in Nat /\ t = position + n /\ position \in Boundary
  BY <1>1, Types, QueuedToIs, HorizonAssumption
     DEF Boundary, Step, Reached, QueueType
<1>4. /\ init.plan \in Plan /\ Sorted(init.plan) /\ UniqueIds(init.plan)
      /\ \/ /\ NeedsInput(t) /\ ~flagged
            /\ init.live = FALSE /\ init.first = 0
            /\ plan # <<>> => t = position
            /\ \A i \in 1 .. Len(init.plan) : OnTime(init.plan[i], t)
         \/ /\ ~NeedsInput(t)
            /\ init = [plan |-> plan, first |-> first, live |-> device.live]
  BY <1>1, <1>3, InitializedIs, Types DEF IInv
<1> DEFINE p == init.plan
           complete == CompletedPrefix(p, t + 1)
<1>5. /\ Len(p) \in Nat /\ DOMAIN p = 1 .. Len(p)
      /\ \A i \in 1 .. Len(p) : p[i] \in PlanEntry /\ End[p[i].name] \in Int
  BY <1>4, PlanElement
<1>6. /\ init.first \in 0 .. Len(p) /\ init.live \in BOOLEAN
      /\ \A i \in 1 .. init.first : End[p[i].name] <= position
      /\ init.live => Len(device.acc) = Len(p)
      /\ flagged => init.live
      /\ \A i \in 1 .. Len(p) : ~flagged /\ i > init.first
           => OnTime(Mirrored(p, init.live)[i], t)
  <2>1. CASE /\ ~flagged /\ init.live = FALSE /\ init.first = 0
             /\ \A i \in 1 .. Len(p) : OnTime(p[i], t)
    <3>1. \A i \in 1 .. Len(p) : Mirrored(p, init.live)[i] = p[i]
      BY <1>5, <2>1 DEF Mirrored
    <3>2. init.first \in 0 .. Len(p) /\ 1 .. init.first = {}
      BY <1>5, <2>1
    <3>3. \A i \in 1 .. Len(p) : OnTime(Mirrored(p, init.live)[i], t)
      BY <2>1, <3>1
    <3> HIDE DEF p
    <3>4. QED
      BY <2>1, <3>2, <3>3, Zenon
  <2>2. CASE init = [plan |-> plan, first |-> first, live |-> device.live]
    <3>1. p = plan /\ init.first = first /\ init.live = device.live
      BY <2>2
    <3>2. Mirrored(p, init.live) = Synced
      BY <3>1 DEF Synced
    <3>3. PlanType /\ QueueType /\ PlanShape /\ Truth
      BY Types DEF IInv
    <3> HIDE DEF p
    <3>4. init.first \in 0 .. Len(p) /\ init.live \in BOOLEAN
      BY <1>5, <3>1, <3>3 DEF PlanType, QueueType, PlanShape
    <3>5. \A i \in 1 .. Len(p) : ~flagged /\ i > init.first
            => OnTime(Mirrored(p, init.live)[i], t)
      BY <1>3, <3>1, <3>2, <3>3 DEF Truth
    <3>6. /\ \A i \in 1 .. init.first : End[p[i].name] <= position
          /\ init.live => Len(device.acc) = Len(p)
          /\ flagged => init.live
      BY <3>1, <3>3 DEF PlanShape
    <3>7. QED
      BY <3>4, <3>5, <3>6
  <2>3. QED
    BY <1>4, <2>1, <2>2
<1>7. /\ complete \in 0 .. Len(p)
      /\ \A i \in 1 .. complete : End[p[i].name] <= t + 1
      /\ \A i \in 1 .. Len(p) : End[p[i].name] <= t + 1 => i <= complete
  BY <1>3, <1>4, CompletedPrefixIs, CompletedPrefixSplits
<1> DEFINE new == [step |-> t, path |-> OutputPath(t), prefix |-> complete]
           Queued == [step : Step, prefix : Nat, path : OutputFile]
<1>8. /\ pending' \in Seq(Queued) /\ Len(pending') = n + 1
      /\ pending'[n + 1] = new
      /\ \A k \in 1 .. n : pending'[k] = pending[k]
  <2>1. new \in Queued
    BY <1>3, <1>7, PathAssumption DEF OutputPath
  <2>2. pending \in Seq(Queued)
    BY Types DEF QueueType
  <2>3. pending' = Append(pending, new)
    BY <1>2
  <2> HIDE DEF new, Queued
  <2>4. QED
    BY <2>1, <2>2, <2>3, AppendProperties
<1> HIDE DEF complete, p
<1>9. /\ plan' = p /\ first' = init.first
      /\ flagged' \in BOOLEAN
  BY <1>2, Types DEF p, QueueType
<1>10. /\ device' \in [live : BOOLEAN, acc : Seq(Tally)]
       /\ device'.live => Len(device'.acc) = Len(p)
       /\ flagged' => device'.live
       /\ \A i \in 1 .. Len(p) : ~flagged' /\ i > init.first
            => OnTime(IF device'.live THEN [p[i] EXCEPT !.acc = device'.acc[i]]
                                      ELSE p[i], t + 1)
  <2>1. CASE init.first < Len(p)
    <3> DEFINE after == Kernel(p, init.first, init.live, t, bad)
    <3>1. device' = after
      BY <1>2, <2>1 DEF p
    <3>2. /\ init.first \in Nat /\ init.live \in BOOLEAN /\ init.plan \in Plan
          /\ device \in [live : BOOLEAN, acc : Seq(Tally)]
          /\ (init.live => Len(device.acc) = Len(init.plan))
      BY <1>4, <1>6, Types DEF PlanType, p
    <3>3. /\ after.live = TRUE /\ after.acc \in Seq(Tally)
          /\ Len(after.acc) = Len(p)
          /\ \A i \in 1 .. Len(p) :
               bad = {} /\ i > init.first /\ OnTime(Mirrored(p, init.live)[i], t)
                 => OnTime([p[i] EXCEPT !.acc = after.acc[i]], t + 1)
      BY <1>3, <3>2, KernelIs DEF p
    <3>4. after = [live |-> after.live, acc |-> after.acc]
      BY DEF Kernel
    <3> HIDE DEF after
    <3>5. \A i \in 1 .. Len(p) : ~flagged' /\ i > init.first
            => OnTime([p[i] EXCEPT !.acc = after.acc[i]], t + 1)
      BY <1>2, <1>6, <3>3
    <3>6. after \in [live : BOOLEAN, acc : Seq(Tally)]
      BY <3>3, <3>4
    <3>7. QED
      BY <3>1, <3>3, <3>5, <3>6
  <2>2. CASE ~ (init.first < Len(p))
    <3>1. device' = IF init.live THEN device ELSE NoDevice
      BY <1>2, <2>2 DEF p
    <3>2. bad = {}
      BY <1>2, <1>5, <1>6, <2>2 DEF p
    <3>3. flagged' = flagged
      BY <1>2, <3>2, Types DEF QueueType
    <3>4. NoDevice \in [live : BOOLEAN, acc : Seq(Tally)] /\ NoDevice.live = FALSE
      BY EmptySeq DEF NoDevice
    <3>5. \A i \in 1 .. Len(p) : ~ (i > init.first)
      BY <1>5, <1>6, <2>2 DEF p
    <3>6. init.live => device.live
      BY <1>4
    <3>7. QED
      BY <1>6, <3>1, <3>3, <3>4, <3>5, <3>6, Types DEF PlanType
  <2>3. QED
    BY <2>1, <2>2
<1>11. TypeOK'
  <2>1. prevInput' \in InputFile /\ init.first \in Nat /\ plan' \in Plan
    BY <1>1, <1>3, <1>4, <1>6, <1>9, PathAssumption DEF p
  <2>2. QED
    BY <1>1, <1>3, <1>8, <1>9, <1>10, <2>1 DEF IInv, TypeOK, Phase
<1>12. Control'
  <2>1. pending' # <<>>
    BY <1>3, <1>8, EmptySeq
  <2>2. QED
    BY <1>1, <1>3, <2>1, Types DEF Control, Boundary
<1>13. PlanShape'
  BY <1>1, <1>4, <1>6, <1>9, <1>10 DEF PlanShape, p
<1>14. Queue'
  <2>1. position' + Len(pending') <= Horizon
    BY <1>1, <1>3, <1>8, HorizonAssumption DEF Boundary
  <2>2. ASSUME NEW k \in 1 .. n
        PROVE  /\ pending[k].step = position + k - 1
               /\ pending[k].prefix \in 0 .. Len(p)
               /\ \A i \in 1 .. pending[k].prefix : End[p[i].name] <= position + k
    <3>1. pending[k].prefix \in Nat
      <4>1. pending \in Seq(Queued)
        BY Types DEF QueueType
      <4> HIDE DEF Queued
      <4>2. pending[k] \in Queued
        BY <4>1, ElementOfSeq
      <4>3. QED
        BY <4>2 DEF Queued
    <3>2. /\ pending[k].step = position + k - 1
          /\ pending[k].prefix <= Len(plan)
          /\ \A i \in 1 .. pending[k].prefix : End[plan[i].name] <= position + k
      BY DEF IInv, Queue
    <3>3. CASE plan = <<>>
      BY <1>5, <3>1, <3>2, <3>3, EmptySeq DEF p
    <3>4. CASE plan # <<>>
      <4>1. t # position
        BY <1>3
      <4>2. p = plan
        BY <1>4, <3>4, <4>1 DEF p
      <4>3. QED
        BY <1>5, <3>1, <3>2, <4>2 DEF p
    <3>5. QED
      BY <3>3, <3>4
  <2>3. ASSUME NEW k \in 1 .. n PROVE pending[k].prefix <= complete
    <3>1. CASE pending[k].prefix = 0
      BY <1>7, <3>1 DEF p, complete
    <3>2. CASE pending[k].prefix # 0
      <4> DEFINE m == pending[k].prefix
      <4>1. m \in 1 .. m /\ m \in 1 .. Len(p)
        BY <2>2, <3>2
      <4>2. End[p[m].name] <= position + k /\ End[p[m].name] \in Int
        BY <1>5, <2>2, <4>1 DEF p
      <4> HIDE DEF m
      <4>3. End[p[m].name] <= t + 1
        BY <1>3, <4>2 DEF Boundary
      <4>4. m <= complete
        BY <1>7, <4>1, <4>3 DEF p, complete
      <4>5. QED
        BY <4>4 DEF m
    <3>3. QED
      BY <3>1, <3>2
  <2>4. \A k \in 1 .. n + 1 :
          /\ pending'[k].step = position + k - 1
          /\ pending'[k].prefix <= Len(p)
          /\ \A i \in 1 .. pending'[k].prefix : End[p[i].name] <= position + k
    <3> SUFFICES ASSUME NEW k \in 1 .. n + 1
                 PROVE  /\ pending'[k].step = position + k - 1
                        /\ pending'[k].prefix <= Len(p)
                        /\ \A i \in 1 .. pending'[k].prefix :
                             End[p[i].name] <= position + k
      OBVIOUS
    <3>1. CASE k \in 1 .. n
      BY <1>5, <1>8, <2>2, <3>1 DEF p
    <3>2. CASE k = n + 1
      <4>1. pending'[k].step = t /\ pending'[k].prefix = complete
        BY <1>8, <3>2
      <4>2. t = position + k - 1 /\ t + 1 = position + k
        BY <1>3, <3>2 DEF Boundary
      <4>3. QED
        BY <1>7, <4>1, <4>2 DEF p, complete
    <3>3. QED
      BY <1>3, <3>1, <3>2
  <2>5. \A k, m \in 1 .. n + 1 :
          k <= m => pending'[k].prefix <= pending'[m].prefix
    <3> SUFFICES ASSUME NEW k \in 1 .. n + 1, NEW m \in 1 .. n + 1, k <= m
                 PROVE  pending'[k].prefix <= pending'[m].prefix
      OBVIOUS
    <3>1. CASE m \in 1 .. n
      <4>1. k \in 1 .. n
        BY <1>3, <3>1
      <4>2. pending[k].prefix <= pending[m].prefix
        BY <3>1, <4>1 DEF IInv, Queue
      <4>3. QED
        BY <1>8, <3>1, <4>1, <4>2
    <3>2. CASE m = n + 1 /\ k \in 1 .. n
      BY <1>8, <2>3, <3>2
    <3>3. CASE m = n + 1 /\ k = n + 1
      BY <1>7, <1>8, <3>3 DEF complete, p
    <3>4. QED
      BY <1>3, <3>1, <3>2, <3>3
  <2>6. QED
    BY <1>1, <1>8, <1>9, <2>1, <2>4, <2>5 DEF Queue
<1>15. Truth'
  <2>1. (position + Len(pending))' = t + 1
    BY <1>1, <1>3, <1>8 DEF Boundary
  <2>2. \A i \in 1 .. Len(p) :
          Synced'[i] = IF device'.live THEN [p[i] EXCEPT !.acc = device'.acc[i]]
                                       ELSE p[i]
    BY <1>5, <1>9 DEF Synced, Mirrored, p
  <2>3. \A i \in 1 .. Len(p) : ~flagged' /\ i > init.first
          => OnTime(Synced'[i], t + 1)
    BY <1>10, <2>2
  <2>4. QED
    BY <1>9, <2>1, <2>3 DEF Truth
<1>16. InStep'
  BY <1>1, <1>3, <1>8 DEF InStep, Boundary
<1>17. Restarts' /\ CompleteOnly'
  BY <1>1, RestartsFrame, OutputFrame DEF IInv
<1>18. QED
  BY <1>11, <1>12, <1>13, <1>14, <1>15, <1>16, <1>17 DEF IInv

LEMMA DrainOneIInv == IInv /\ DrainOne => IInv'
PROOF
<1> SUFFICES ASSUME IInv, DrainOne PROVE IInv'
  OBVIOUS
<1> DEFINE out == detached[drained + 1]
<1>1. /\ Draining /\ drained < Len(detached) /\ drained' = drained + 1
      /\ phase' = phase /\ start' = start /\ current' = current
      /\ backend' = backend /\ UseCuda' = UseCuda /\ stop' = stop
      /\ last' = last /\ position' = position /\ plan' = plan
      /\ first' = first /\ prevInput' = prevInput /\ pending' = pending
      /\ detached' = detached /\ device' = device /\ flagged' = flagged
      /\ restarts' = restarts
  BY DEF DrainOne, loopVars, planVars, runVars, UseCuda
<1>2. PICK w \in IF out.batch = <<>> THEN {Writer}
                 ELSE Written(SelectPath(Writer, out.path), out.batch) :
        SetWriter(w)
  BY DEF DrainOne
<1>3. Writer \in GoodWriter /\ detached \in Seq(Outputs)
  BY Types, WriterIsGood DEF IInv
<1>4. out.path \in OutputFile /\ out.batch \in Seq(Complete)
  <2>1. drained + 1 \in 1 .. Len(detached)
    BY <1>1, <1>3, Types, LenProperties
  <2>2. out \in Outputs
    BY <1>3, <2>1, ElementOfSeq
  <2>3. QED
    BY <2>2 DEF Outputs
<1> HIDE DEF out
<1>5. w \in GoodWriter
  <2>1. CASE out.batch = <<>>
    BY <1>2, <1>3, <2>1
  <2>2. CASE out.batch # <<>>
    <3>1. SelectPath(Writer, out.path) \in GoodWriter
      BY <1>3, <1>4, SelectPathGood
    <3>2. QED
      BY <1>2, <1>4, <2>2, <3>1, WrittenGood
  <2>3. QED
    BY <2>1, <2>2
<1>6. Writer' = w
  BY <1>2, <1>5 DEF SetWriter, Writer, GoodWriter
<1>7. WriterType' /\ DetachedType' /\ CompleteOnly'
  BY <1>1, <1>3, <1>5, <1>6, GoodIsComplete
<1>8. staged' = staged \/ phase # "down"
  BY <1>1 DEF Draining
<1>9. TypeOK'
  BY <1>1, <1>7, Types DEF IInv, TypeOK, WriterType
<1>10. Control'
  BY <1>1, <1>8 DEF IInv, Control, Draining
<1>11. PlanShape' /\ Queue' /\ Truth' /\ Restarts'
  BY <1>1, PlanFrame, RestartsFrame DEF IInv
<1>12. InStep'
  BY <1>1 DEF IInv, InStep
<1>13. QED
  BY <1>7, <1>9, <1>10, <1>11, <1>12 DEF IInv

LEMMA DrainDoneIInv == IInv /\ DrainDone => IInv'
PROOF
<1> SUFFICES ASSUME IInv, DrainDone PROVE IInv'
  OBVIOUS
<1>1. /\ detached' = <<>> /\ drained' = 0
      /\ start' = start /\ stop' = stop
      /\ backend' = backend /\ UseCuda' = UseCuda /\ last' = last
      /\ position' = position /\ plan' = plan /\ first' = first
      /\ prevInput' = prevInput /\ outPath' = outPath /\ staged' = staged
      /\ created' = created /\ science' = science /\ pending' = pending
      /\ device' = device /\ flagged' = flagged /\ restarts' = restarts
  BY DEF DrainDone, planVars, writerVars, runVars, UseCuda
<1>2. \/ phase = "drain" /\ phase' = "detach" /\ current' = current
      \/ phase = "drainLast" /\ phase' = "unwinding" /\ current' = current + 1
      \/ phase = "closeDrain" /\ phase' = "closing" /\ current' = current
  BY DEF DrainDone
<1>3. Writer \in GoodWriter
  BY Types, WriterIsGood DEF IInv
<1>4. WriterType' /\ DetachedType' /\ CompleteOnly'
  <2>1. Writer' = Writer
    BY <1>1 DEF Writer
  <2>2. QED
    BY <1>1, <1>3, <2>1, GoodIsComplete, EmptySeq
<1>5. current' \in Boundary
  BY <1>2, Types, HorizonAssumption DEF IInv, Control, Boundary
<1>6. TypeOK'
  BY <1>1, <1>2, <1>4, <1>5, Types DEF IInv, TypeOK, WriterType, Phase
<1>7. Control'
  BY <1>1, <1>2 DEF IInv, Control
<1>8. PlanShape' /\ Queue' /\ Truth' /\ Restarts'
  BY <1>1, PlanFrame, RestartsFrame DEF IInv
<1>9. InStep'
  BY <1>1, <1>2 DEF IInv, InStep
<1>10. QED
  BY <1>4, <1>6, <1>7, <1>8, <1>9 DEF IInv

\* Detaching a batch moves the position to where the queue has reached, and
\* what it detaches is complete.
LEMMA DetachPendingIs ==
  ASSUME IInv, pending # <<>>, ~DetachFails, DetachPending,
         UNCHANGED <<device, flagged, science, staged, outPath, created>>
  PROVE  /\ position' = Reached /\ position' \in Boundary /\ pending' = <<>>
         /\ plan' \in Plan /\ first' \in Nat
         /\ WriterType' /\ DetachedType' /\ CompleteOnly'
         /\ PlanShape' /\ Queue' /\ Truth'
PROOF
<1> DEFINE n == Len(pending)
           host == IF DetachSyncs THEN Synced ELSE plan
<1>1. /\ plan' = host /\ first' = Prefix(n) /\ pending' = <<>>
      /\ position' = pending[n].step + 1
      /\ detached' = detached \o
           [i \in DOMAIN pending |->
              [path |-> pending[i].path,
               batch |-> CompletedBatch(host, Prefix(i - 1), Prefix(i))]]
      /\ device' = device /\ flagged' = flagged
  BY DEF DetachPending
<1>2. /\ PlanType /\ QueueType /\ PlanShape /\ Queue /\ Truth
      /\ n \in Nat /\ n \in 1 .. n /\ DOMAIN pending = 1 .. n
      /\ position' = Reached /\ Reached \in Boundary
      /\ Reached = position + n /\ position \in Int
  <2>1. PlanType /\ QueueType /\ PlanShape /\ Queue /\ Truth /\ n \in Nat
    BY Types DEF IInv
  <2>2. n \in 1 .. n /\ position' = Reached
    BY <1>1, QueuedToIs
  <2>3. Reached \in Boundary /\ position \in Int
    BY <2>1, HorizonAssumption DEF Queue, Reached, QueueType, Boundary
  <2>4. QED
    BY <2>1, <2>2, <2>3, LenProperties DEF QueueType, Reached
<1>3. \A k \in 1 .. n : pending[k].prefix \in Nat /\ pending[k].path \in OutputFile
  <2> DEFINE Queued == [step : Step, prefix : Nat, path : OutputFile]
  <2>1. pending \in Seq(Queued)
    BY <1>2 DEF QueueType
  <2> HIDE DEF Queued
  <2>2. \A k \in 1 .. n : pending[k] \in Queued
    BY <2>1, ElementOfSeq
  <2>3. QED
    BY <2>2 DEF Queued
<1>4. /\ Synced \in Plan /\ Len(Synced) = Len(plan)
      /\ Sorted(Synced) /\ UniqueIds(Synced)
      /\ \A i \in 1 .. Len(plan) :
           /\ Synced[i] = IF device.live THEN [plan[i] EXCEPT !.acc = device.acc[i]]
                                         ELSE plan[i]
           /\ Synced[i].name = plan[i].name
  BY <1>2, SyncedIs DEF PlanShape
<1>5. /\ host \in Plan /\ Len(host) = Len(plan) /\ Sorted(host) /\ UniqueIds(host)
      /\ \A i \in 1 .. Len(plan) : host[i].name = plan[i].name
  BY <1>2, <1>4 DEF PlanType, PlanShape
<1>6. /\ Len(plan) \in Nat /\ DOMAIN plan = 1 .. Len(plan)
      /\ \A i \in 1 .. Len(plan) : plan[i] \in PlanEntry /\ End[plan[i].name] \in Int
  BY <1>2, PlanElement DEF PlanType
\* The prefixes grow from the completed prefix and have ended.
<1>7. ASSUME NEW k \in 0 .. n
      PROVE  /\ Prefix(k) \in 0 .. Len(plan) /\ first <= Prefix(k)
             /\ Prefix(k) <= Prefix(n)
             /\ \A i \in 1 .. Prefix(k) : End[plan[i].name] <= Reached
  <2>1. first \in 0 .. Len(plan)
    BY <1>2, <1>6 DEF QueueType, PlanShape
  <2>2. \A i \in 1 .. first : End[plan[i].name] <= Reached
    <3>1. \A i \in 1 .. first : End[plan[i].name] <= position
      BY <1>2 DEF PlanShape
    <3>2. QED
      BY <1>2, <1>6, <2>1, <3>1
  <2>3. ASSUME NEW m \in 1 .. n
        PROVE  /\ pending[m].prefix \in 0 .. Len(plan)
               /\ pending[m].prefix <= pending[n].prefix
               /\ \A i \in 1 .. pending[m].prefix : End[plan[i].name] <= Reached
    <3>1. /\ pending[m].prefix <= Len(plan)
          /\ \A i \in 1 .. pending[m].prefix : End[plan[i].name] <= position + m
      BY <1>2 DEF Queue
    <3>2. pending[m].prefix <= pending[n].prefix
      BY <1>2 DEF Queue
    <3>3. QED
      BY <1>2, <1>3, <1>6, <3>1, <3>2
  <2>4. CASE k = 0
    BY <1>2, <2>1, <2>2, <2>3, <2>4 DEF Prefix, Later
  <2>5. CASE k # 0
    BY <1>2, <2>1, <2>2, <2>3, <2>5 DEF Prefix, Later
  <2>6. QED
    BY <2>4, <2>5
\* Nothing is detached from accumulators that do not count.
<1>8. ASSUME NEW i \in 1 .. Len(plan), i > first, i <= Prefix(n)
      PROVE  OnTime(host[i], Reached)
  <2>1. DetachSyncs
    BY <1>2, <1>6, <1>7, <1>8 DEF DetachSyncs, QueueType
  <2>2. ~flagged
    BY <1>2, <2>1 DEF DetachFails, SyncRaises, PlanShape
  <2>3. QED
    BY <1>2, <1>8, <2>1, <2>2 DEF Truth
<1> DEFINE more == [k \in 1 .. n |->
                      [path |-> pending[k].path,
                       batch |-> CompletedBatch(host, Prefix(k - 1), Prefix(k))]]
<1>9. more \in Seq(Outputs)
  <2>1. ASSUME NEW k \in 1 .. n
        PROVE  CompletedBatch(host, Prefix(k - 1), Prefix(k)) \in Seq(Complete)
    <3>1. k - 1 \in 0 .. n /\ k \in 0 .. n
      BY <1>2
    <3>2. /\ Prefix(k - 1) \in Nat /\ Prefix(k) \in Nat
          /\ first <= Prefix(k - 1) /\ Prefix(k) <= Len(host)
      BY <1>5, <1>6, <1>7, <3>1
    <3>3. \A i \in 1 .. Len(host) : Prefix(k - 1) < i /\ i <= Prefix(k) =>
            host[i].acc = Due(host[i].name, Reached)
            /\ End[host[i].name] <= Reached
      <4> SUFFICES ASSUME NEW i \in 1 .. Len(plan),
                          Prefix(k - 1) < i, i <= Prefix(k)
                   PROVE  host[i].acc = Due(host[i].name, Reached)
                          /\ End[host[i].name] <= Reached
        BY <1>5
      <4>1. i > first /\ i <= Prefix(n) /\ i \in 1 .. Prefix(k)
        <5>1. /\ first \in Nat /\ Prefix(n) \in Nat /\ Prefix(k) <= Prefix(n)
              /\ Prefix(k) \in Nat
          BY <1>2, <1>7, <3>1 DEF QueueType
        <5>2. QED
          BY <1>6, <3>2, <5>1
      <4>2. End[plan[i].name] <= Reached
        BY <1>7, <3>1, <4>1
      <4>3. QED
        BY <1>5, <1>8, <4>1, <4>2 DEF OnTime
    <3> HIDE DEF host
    <3>4. QED
      BY <1>2, <1>5, <3>2, <3>3, CompletedBatchIs
  <2> HIDE DEF host
  <2>2. more \in [1 .. n -> Outputs]
    BY <1>3, <2>1 DEF Outputs
  <2> HIDE DEF more
  <2>3. QED
    BY <1>2, <2>2
<1>10. Writer' \in GoodWriter /\ detached' \in Seq(Outputs)
  <2>1. Writer \in GoodWriter /\ detached \in Seq(Outputs)
    BY Types, WriterIsGood DEF IInv
  <2>2. Writer' = Writer
    BY DEF Writer
  <2>3. detached' = detached \o more
    BY <1>1, <1>2
  <2> HIDE DEF more
  <2>4. QED
    BY <1>9, <2>1, <2>2, <2>3, ConcatProperties
<1>11. WriterType' /\ DetachedType' /\ CompleteOnly'
  BY <1>10, GoodIsComplete
<1> HIDE DEF host, more
<1>12. first' \in 0 .. Len(plan) /\ first <= first'
       /\ \A i \in 1 .. first' : End[plan[i].name] <= Reached
  <2>1. n \in 0 .. n
    BY <1>2
  <2>2. QED
    BY <1>1, <1>7, <2>1
<1>13. PlanShape'
  <2>1. \A i \in 1 .. first' : End[plan'[i].name] <= position'
    BY <1>1, <1>2, <1>5, <1>6, <1>12
  <2>2. QED
    BY <1>1, <1>2, <1>5, <1>6, <1>12, <2>1 DEF PlanShape
<1>14. Len(pending') = 0
  BY <1>1, EmptySeq
<1>15. Queue'
  BY <1>1, <1>2, <1>14, HorizonAssumption DEF Queue, Boundary
<1>16. Truth'
  <2>1. \A i \in 1 .. Len(plan) : Synced'[i] = Synced[i]
    <3>1. DOMAIN plan' = 1 .. Len(plan)
      BY <1>1, <1>5, PlanElement
    <3>2. ASSUME NEW i \in 1 .. Len(plan) PROVE Synced'[i] = Synced[i]
      <4>1. Synced'[i] = IF device.live THEN [host[i] EXCEPT !.acc = device.acc[i]]
                                        ELSE host[i]
        BY <1>1, <3>1 DEF Synced, Mirrored
      <4>2. host[i] = Synced[i] \/ host[i] = plan[i]
        BY DEF host
      <4>3. plan[i] \in PlanEntry
        BY <1>6
      <4>4. Synced[i] = IF device.live THEN [plan[i] EXCEPT !.acc = device.acc[i]]
                                       ELSE plan[i]
        BY <1>4
      <4>5. CASE device.live
        <5>1. [[plan[i] EXCEPT !.acc = device.acc[i]] EXCEPT !.acc = device.acc[i]]
                = [plan[i] EXCEPT !.acc = device.acc[i]]
          BY <4>3 DEF PlanEntry
        <5>2. QED
          BY <4>1, <4>2, <4>4, <4>5, <5>1
      <4>6. CASE ~device.live
        BY <4>1, <4>2, <4>4, <4>6
      <4>7. QED
        BY <4>5, <4>6
    <3>3. QED
      BY <3>2
  <2>2. (position + Len(pending))' = Reached
    BY <1>2, <1>14 DEF Boundary
  <2>3. Len(plan') = Len(plan)
    BY <1>1, <1>5
  <2>4. \A i \in 1 .. Len(plan) : ~flagged /\ i > first => OnTime(Synced[i], Reached)
    BY <1>2 DEF Truth
  <2>5. \A i \in 1 .. Len(plan) : i > first' => i > first
    BY <1>2, <1>6, <1>12 DEF QueueType
  <2>6. QED
    BY <1>1, <2>1, <2>2, <2>3, <2>4, <2>5 DEF Truth
<1>17. QED
  BY <1>1, <1>2, <1>5, <1>6, <1>11, <1>12, <1>13, <1>15, <1>16

LEMMA DetachIInv == IInv /\ Detach => IInv'
PROOF
<1> SUFFICES ASSUME IInv, Detach PROVE IInv'
  OBVIOUS
<1>1. /\ phase = "detach" /\ ~DetachFails /\ DetachPending
      /\ \/ phase' = "drainLast" /\ current' = current
         \/ phase' = "running" /\ current' = current + 1
      /\ start' = start /\ stop' = stop
      /\ backend' = backend /\ UseCuda' = UseCuda /\ last' = last
      /\ prevInput' = prevInput /\ drained' = drained
      /\ restarts' = restarts
      /\ UNCHANGED <<device, flagged, science, staged, outPath, created>>
  BY DEF Detach, writerVars, runVars, UseCuda
<1>2. pending # <<>> /\ current < stop /\ current + 1 = Reached
  BY <1>1 DEF IInv, Control, InStep, Reached
<1>3. /\ position' = Reached /\ position' \in Boundary /\ pending' = <<>>
      /\ plan' \in Plan /\ first' \in Nat
      /\ WriterType' /\ DetachedType' /\ CompleteOnly'
      /\ PlanShape' /\ Queue' /\ Truth'
  BY <1>1, <1>2, DetachPendingIs
<1>4. current' \in Boundary /\ current' <= stop
  BY <1>1, <1>2, <1>3, Types DEF Boundary
<1>5. TypeOK'
  <2>1. pending' \in Seq([step : Step, prefix : Nat, path : OutputFile])
    BY <1>3, EmptySeq
  <2>2. phase' \in Phase
    BY <1>1 DEF Phase
  <2>3. device' = device /\ flagged' = flagged
    BY <1>1
  <2>4. QED
    BY <1>1, <1>3, <1>4, <2>1, <2>2, <2>3
       DEF IInv, TypeOK, WriterType, DetachedType
<1>6. Control'
  BY <1>1, <1>2, <1>3, <1>4 DEF IInv, Control
<1>7. InStep'
  <2>1. Len(pending') = 0
    BY <1>3, EmptySeq
  <2>2. QED
    BY <1>1, <1>2, <1>3, <2>1 DEF InStep, Boundary
<1>8. Restarts'
  BY <1>1, RestartsFrame DEF IInv
<1>9. QED
  BY <1>3, <1>5, <1>6, <1>7, <1>8 DEF IInv

LEMMA DetachRaisesIInv == IInv /\ DetachRaises => IInv'
PROOF
<1> SUFFICES ASSUME IInv, DetachRaises PROVE IInv'
  OBVIOUS
<1>1. /\ phase = "detach" /\ DetachFails /\ plan' = Synced
      /\ phase' = "unwinding"
      /\ start' = start /\ current' = current /\ stop' = stop
      /\ backend' = backend /\ UseCuda' = UseCuda /\ last' = last
      /\ position' = position /\ first' = first /\ prevInput' = prevInput
      /\ outPath' = outPath /\ staged' = staged /\ created' = created
      /\ science' = science /\ pending' = pending /\ detached' = detached
      /\ drained' = drained /\ device' = device /\ flagged' = flagged
      /\ restarts' = restarts
  BY DEF DetachRaises, writerVars, cudaVars, runVars, UseCuda
<1>2. flagged /\ device.live
  BY <1>1 DEF DetachFails, SyncRaises
<1>3. /\ plan' \in Plan /\ Len(plan') = Len(plan)
      /\ Sorted(plan') /\ UniqueIds(plan')
      /\ \A i \in 1 .. Len(plan) : plan'[i].name = plan[i].name
  BY <1>1, Types, SyncedIs DEF IInv, PlanShape
<1>4. TypeOK'
  BY <1>1, <1>3 DEF IInv, TypeOK, Phase
<1>5. Control'
  BY <1>1 DEF IInv, Control
<1>6. /\ PlanShape /\ Queue /\ first \in Nat /\ Len(plan) \in Nat
  BY Types, PlanElement DEF IInv, QueueType, PlanType
<1>7. PlanShape'
  BY <1>1, <1>3, <1>6 DEF PlanShape
<1>8. Queue'
  <2> SUFFICES ASSUME NEW k \in 1 .. Len(pending)
               PROVE  \A i \in 1 .. pending[k].prefix :
                        End[plan'[i].name] <= position + k
    BY <1>1, <1>3, <1>6 DEF Queue
  <2>1. /\ pending[k].prefix <= Len(plan)
        /\ \A i \in 1 .. pending[k].prefix : End[plan[i].name] <= position + k
    BY <1>6 DEF Queue
  <2>2. pending[k].prefix \in Nat
    <3> DEFINE Queued == [step : Step, prefix : Nat, path : OutputFile]
    <3>1. pending \in Seq(Queued)
      BY Types DEF QueueType
    <3> HIDE DEF Queued
    <3>2. pending[k] \in Queued
      BY <3>1, ElementOfSeq
    <3>3. QED
      BY <3>2 DEF Queued
  <2>3. QED
    BY <1>3, <1>6, <2>1, <2>2
<1>9. Truth'
  BY <1>1, <1>2 DEF Truth
<1>10. InStep'
  BY <1>1 DEF InStep
<1>11. Restarts' /\ CompleteOnly'
  BY <1>1, RestartsFrame, OutputFrame DEF IInv
<1>12. QED
  BY <1>4, <1>5, <1>7, <1>8, <1>9, <1>10, <1>11 DEF IInv

LEMMA CloseIInv == IInv /\ Close => IInv'
PROOF
<1> SUFFICES ASSUME IInv, Close PROVE IInv'
  OBVIOUS
<1>1. /\ phase = "unwinding" /\ phase' = "closeDrain" /\ drained' = 0
      /\ start' = start /\ current' = current /\ stop' = stop
      /\ backend' = backend /\ UseCuda' = UseCuda /\ last' = last
      /\ prevInput' = prevInput /\ restarts' = restarts
      /\ device' = device /\ flagged' = flagged
      /\ UNCHANGED <<science, staged, outPath, created>>
      /\ IF pending = <<>>
         THEN UNCHANGED <<plan, detached, first, position, pending>>
         ELSE ~DetachFails /\ DetachPending
  BY DEF Close, writerVars, runVars, UseCuda
<1>2. /\ pending' = <<>> /\ position' \in Boundary
      /\ plan' \in Plan /\ first' \in Nat
      /\ WriterType' /\ DetachedType' /\ CompleteOnly'
      /\ PlanShape' /\ Queue' /\ Truth'
  <2>1. CASE pending = <<>>
    <3>1. /\ plan' = plan /\ detached' = detached /\ first' = first
          /\ position' = position /\ pending' = pending
      BY <1>1, <2>1
    <3>2. PlanShape' /\ Queue' /\ Truth' /\ CompleteOnly'
      BY <1>1, <3>1, PlanFrame, OutputFrame DEF IInv
    <3>3. WriterType' /\ DetachedType'
      BY <1>1, <3>1, Types DEF WriterType, DetachedType
    <3>4. QED
      BY <2>1, <3>1, <3>2, <3>3, Types DEF PlanType, QueueType
  <2>2. CASE pending # <<>>
    BY <1>1, <2>2, DetachPendingIs
  <2>3. QED
    BY <2>1, <2>2
<1>3. TypeOK'
  <2>1. pending' \in Seq([step : Step, prefix : Nat, path : OutputFile])
    BY <1>2, EmptySeq
  <2>2. phase' \in Phase
    BY <1>1 DEF Phase
  <2>3. QED
    BY <1>1, <1>2, <2>1, <2>2, Types
       DEF IInv, TypeOK, WriterType, DetachedType
<1>4. Control'
  BY <1>1, <1>2 DEF IInv, Control
<1>5. InStep'
  BY <1>1 DEF InStep
<1>6. Restarts'
  BY <1>1, RestartsFrame DEF IInv
<1>7. QED
  BY <1>2, <1>3, <1>4, <1>5, <1>6 DEF IInv

\* The process ends without a restart.
LEMMA GoneIInv ==
  ASSUME IInv, Gone, UNCHANGED restarts,
         science' \in [OutputFile -> Seq(Complete)]
  PROVE  IInv'
PROOF
<1>1. Restarts'
  BY RestartsFrame DEF IInv
<1>2. restarts' \in [Boundary -> [written : BOOLEAN, plan : Plan]]
  BY Types
<1>3. QED
  BY <1>1, <1>2, GoneOnDisk

\* What is on disk, and what closing the writer leaves there.
LEMMA OnDisk ==
  ASSUME IInv
  PROVE  /\ science \in [OutputFile -> Seq(Complete)]
         /\ CloseWriter(Writer).disk \in [OutputFile -> Seq(Complete)]
PROOF
<1>1. Writer \in GoodWriter
  BY Types, WriterIsGood DEF IInv
<1>2. CloseWriter(Writer) \in GoodWriter
  BY <1>1, CloseWriterGood
<1>3. CloseWriter(Writer).disk \in [OutputFile -> Seq(Complete)]
  BY <1>2 DEF GoodWriter
<1>4. QED
  BY <1>1, <1>3 DEF GoodWriter, Writer

LEMMA CrashIInv == IInv /\ Crash => IInv'
PROOF
<1> SUFFICES ASSUME IInv, Crash PROVE IInv'
  OBVIOUS
<1>1. /\ Gone /\ UNCHANGED restarts
      /\ science' = science \/ science' = [science EXCEPT ![outPath] = <<>>]
  BY DEF Crash
<1>2. science' \in [OutputFile -> Seq(Complete)]
  BY <1>1, OnDisk, EmptySeq
<1>3. QED
  BY <1>1, <1>2, GoneIInv

LEMMA CloseFinishesIInv == IInv /\ CloseFinishes => IInv'
PROOF
<1> SUFFICES ASSUME IInv, CloseFinishes PROVE IInv'
  OBVIOUS
<1> DEFINE t == current
           remainder == CompactPlan(Synced, t)
<1>1. /\ phase = "closing" /\ AtBoundary /\ ~SyncRaises
      /\ science' = CloseWriter(Writer).disk
      /\ restarts' = [restarts EXCEPT ![t] = [written |-> TRUE,
                                              plan |-> remainder]]
      /\ Gone
  BY DEF CloseFinishes
<1>2. /\ PlanType /\ QueueType /\ PlanShape /\ Truth
      /\ t \in Boundary /\ t \in Int
  BY Types DEF IInv, Boundary
<1>3. ~flagged
  BY <1>1, <1>2 DEF SyncRaises, PlanShape
<1>4. Len(pending) = 0 /\ Reached = position
  BY <1>1, <1>2, EmptySeq DEF IInv, Control, Reached, QueueType, Boundary
<1>5. /\ remainder \in Plan /\ Sorted(remainder) /\ UniqueIds(remainder)
  BY <1>2, SyncedIs, CompactPlanIs DEF PlanShape
<1>6. \A j \in 1 .. Len(remainder) : IsRemainder(remainder[j], t)
  BY <1>1, <1>2, <1>3, <1>4, RemainderIs DEF AtBoundary
<1> HIDE DEF remainder
<1>7. /\ restarts \in [Boundary -> [written : BOOLEAN, plan : Plan]]
      /\ Restarts
  BY Types DEF IInv
<1>8. restarts' \in [Boundary -> [written : BOOLEAN, plan : Plan]]
  BY <1>1, <1>5, <1>7
<1>9. Restarts'
  <2> SUFFICES ASSUME NEW s \in Boundary
               PROVE  /\ restarts'[s].written =>
                           /\ \A i \in DOMAIN restarts'[s].plan :
                                IsRemainder(restarts'[s].plan[i], s)
                           /\ Sorted(restarts'[s].plan)
                           /\ UniqueIds(restarts'[s].plan)
                      /\ ~restarts'[s].written => restarts'[s].plan = <<>>
    BY DEF Restarts, RestartIsRemainder
  <2>1. CASE s = t
    <3>1. restarts'[s].written = TRUE /\ restarts'[s].plan = remainder
      BY <1>1, <1>2, <1>7, <2>1
    <3>2. DOMAIN remainder = 1 .. Len(remainder)
      BY <1>5, PlanElement
    <3>3. QED
      BY <1>5, <1>6, <2>1, <3>1, <3>2
  <2>2. CASE s # t
    <3>1. restarts'[s] = restarts[s]
      BY <1>1, <1>7, <2>2
    <3>2. QED
      BY <1>7, <3>1 DEF Restarts, RestartIsRemainder
  <2>3. QED
    BY <2>1, <2>2
<1>10. QED
  BY <1>1, <1>8, <1>9, OnDisk, GoneOnDisk

\* Every step preserves the invariant.
LEMMA NextIInv ==
  ASSUME NoInterrupt, IInv, [Next]_vars
  PROVE  IInv'
PROOF
<1>1. ASSUME NEW t \in Boundary, NEW end \in Boundary, Open(t, end)
      PROVE  IInv'
  BY <1>1, OpenIInv
<1>2. CASE Sample
  BY <1>2, SampleIInv
<1>3. CASE Advance
  BY <1>3, AdvanceIInv
<1>4. CASE Launch
  BY <1>4, LaunchIInv
<1>5. CASE StepEndCuda
  BY <1>5, StepEndCudaIInv
<1>6. CASE DrainOne
  BY <1>6, DrainOneIInv
<1>7. CASE DrainDone
  BY <1>7, DrainDoneIInv
<1>8. CASE Detach
  BY <1>8, DetachIInv
<1>9. CASE DetachRaises
  BY <1>9, DetachRaisesIInv
<1>10. CASE Reject \/ LoopEnds \/ Raise
  BY <1>10, UnwindIInv DEF Reject, LoopEnds, Raise
<1>11. CASE Close
  BY <1>11, CloseIInv
<1>12. CASE CloseDetachRaises
  BY <1>12, GoneIInv, OnDisk DEF CloseDetachRaises
<1>13. CASE CloseFinishes
  BY <1>13, CloseFinishesIInv
<1>14. CASE CloseRefused
  BY <1>14, GoneIInv, OnDisk DEF CloseRefused
<1>15. CASE RestartFails
  BY <1>15, GoneIInv, OnDisk DEF RestartFails
<1>16. CASE Crash
  BY <1>16, CrashIInv
<1>17. CASE SampleInterrupted \/ DrainInterrupted
  BY <1>17 DEF SampleInterrupted, DrainInterrupted, NoInterrupt
<1>18. CASE UNCHANGED vars
  <2>1. UNCHANGED <<runVars, planVars, writerVars, cudaVars, restarts>>
        /\ phase' = phase /\ last' = last /\ current' = current
    BY <1>18 DEF vars, loopVars
  <2>2. /\ stop' = stop /\ plan' = plan /\ first' = first
        /\ position' = position /\ prevInput' = prevInput
        /\ pending' = pending /\ detached' = detached /\ staged' = staged
        /\ device' = device /\ flagged' = flagged /\ UseCuda' = UseCuda
    BY <2>1 DEF runVars, planVars, writerVars, cudaVars, UseCuda
  <2>3. Control'
    BY <2>1, <2>2 DEF IInv, Control
  <2>4. InStep'
    BY <2>1, <2>2 DEF IInv, InStep
  <2>5. QED
    BY <2>1, <2>3, <2>4, LoopFrame, Types
<1>19. QED
  BY <1>1, <1>2, <1>3, <1>4, <1>5, <1>6, <1>7, <1>8, <1>9, <1>10, <1>11,
     <1>12, <1>13, <1>14, <1>15, <1>16, <1>17, <1>18 DEF Next, Run, Fault
-----------------------------------------------------------------------------
(* What holds in every reachable state.                                    *)

\* The inductive invariant holds as long as no handler is interrupted.
THEOREM InvariantHolds ==
  ASSUME NoInterrupt
  PROVE  Spec => []IInv
PROOF
<1>1. Init => IInv
  BY InitIInv
<1>2. IInv /\ [Next]_vars => IInv'
  BY NextIInv
<1>3. QED
  BY <1>1, <1>2, PTL DEF Spec

\* Every variable has its type, whatever the campaign (manager.py and
\* runner.py keep positions on the step grid and queues inside the run).
THEOREM TypeCorrect ==
  ASSUME NoInterrupt
  PROVE  Spec => []TypeOK
PROOF
<1>1. IInv => TypeOK
  BY DEF IInv
<1>2. QED
  BY <1>1, InvariantHolds, PTL

\* Only finished operators reach the science output, each holding every step
\* of its windows exactly once (sample, detach_cuda_samples, write_completed).
THEOREM OutputComplete ==
  ASSUME NoInterrupt
  PROVE  Spec => []CompleteOnly
PROOF
<1>1. IInv => CompleteOnly
  BY DEF IInv
<1>2. QED
  BY <1>1, InvariantHolds, PTL

\* A restart file splits every entry at its boundary (close, compact_obs_plan),
\* so that continuing from it samples exactly what is left.
THEOREM RestartSplits ==
  ASSUME NoInterrupt
  PROVE  Spec => []RestartIsRemainder
PROOF
<1>1. IInv => RestartIsRemainder
  BY DEF IInv, Restarts
<1>2. QED
  BY <1>1, InvariantHolds, PTL

\* The order checks of sample and _initialize_for_date never fail, because
\* requires_cuda_flush_before flushes the queue before new input is needed.
THEOREM InStepAlways ==
  ASSUME NoInterrupt
  PROVE  Spec => []NeverOutOfStep
PROOF
<1>1. IInv => NeverOutOfStep
  <2> SUFFICES ASSUME IInv, phase = "running", current < stop
               PROVE  /\ current = IF UseCuda THEN QueuedTo ELSE position
                      /\ NeedsInput(current) /\ plan # <<>> => position = current
    BY DEF NeverOutOfStep
  <2>1. current = Reached /\ QueuedTo = Reached /\ position \in Int
    BY QueuedToIs, Types DEF IInv, InStep, Reached, QueueType, Boundary
  <2>2. pending = <<>> => Reached = position
    BY <2>1, EmptySeq DEF Reached
  <2>3. ~UseCuda => pending = <<>>
    BY DEF IInv, Control
  <2>4. NeedsInput(current) => pending = <<>>
    BY DEF IInv, InStep, NeedsInput
  <2>5. QED
    BY <2>1, <2>2, <2>3, <2>4
<1>2. QED
  BY <1>1, InvariantHolds, PTL

-----------------------------------------------------------------------------
(* Time operators mean what the guide says, for every step length, every   *)
(* run and every date the run has not passed when it begins.               *)

\* Multiples of a positive number are ordered like their factors.
LEMMA StepMultiples ==
  ASSUME NEW d \in Nat \ {0}, NEW m \in Int, NEW n \in Int
  PROVE  /\ m * d \in Int /\ (m + 1) * d = m * d + d
         /\ (m + n) * d = m * d + n * d
         /\ m * d <= n * d <=> m <= n
         /\ m * d < n * d <=> m < n
PROOF
<1>1. m * d \in Int /\ n * d \in Int /\ (m + 1) * d = m * d + d
      /\ (m + n) * d = m * d + n * d
  OBVIOUS
<1>2. ASSUME NEW i \in Int, NEW j \in Int, i <= j PROVE i * d <= j * d
  <2>1. j - i \in Nat /\ j = i + (j - i)
    BY <1>2
  <2>2. (j - i) * d \in Nat /\ j * d = i * d + (j - i) * d /\ i * d \in Int
    BY <2>1
  <2>3. QED
    BY <2>2
<1>3. ASSUME NEW i \in Int, NEW j \in Int, i < j PROVE i * d < j * d
  <2>1. i + 1 <= j /\ i + 1 \in Int
    BY <1>3
  <2>2. (i + 1) * d <= j * d /\ (i + 1) * d = i * d + d
        /\ i * d \in Int /\ j * d \in Int
    BY <2>1, <1>2
  <2>3. QED
    BY <2>2
<1>4. QED
  BY <1>1, <1>2, <1>3

\* What the roundings do.
LEMMA Down ==
  ASSUME NEW t \in Int
  PROVE  /\ StepsDown(t) \in Int
         /\ StepsDown(t) * StepLength <= t
         /\ t < StepsDown(t) * StepLength + StepLength
PROOF
<1> DEFINE q == t \div StepLength
           r == t % StepLength
<1>1. StepLength \in Nat /\ StepLength > 0
  BY StepAssumption
<1>2. q \in Int /\ r \in Nat /\ r < StepLength /\ t = StepLength * q + r
  BY <1>1
<1> HIDE DEF q, r
<1>3. StepLength * q = q * StepLength /\ q * StepLength \in Int
  BY <1>1, <1>2
<1>4. QED
  BY <1>1, <1>2, <1>3 DEF StepsDown, q

LEMMA Up ==
  ASSUME NEW t \in Int
  PROVE  /\ StepsUp(t) \in Int
         /\ t <= StepsUp(t) * StepLength
         /\ (StepsUp(t) - 1) * StepLength < t
PROOF
<1> DEFINE q == StepsDown(-t)
           d == StepLength
<1>1. -t \in Int /\ StepsUp(t) = -q
  BY DEF StepsUp, StepsDown
<1>2. /\ q \in Int /\ d \in Nat \ {0}
      /\ q * d <= -t /\ -t < q * d + d
  BY <1>1, Down, StepAssumption
<1> HIDE DEF q, d
<1>3. (-q) * d = -(q * d) /\ (-q - 1) * d = -(q * d) - d /\ q * d \in Int
  BY <1>2
<1>4. QED
  BY <1>1, <1>2, <1>3 DEF d

\* A date rounded up, minus one, is the step that ends there or contains it;
\* one that is rounded down is the step that begins there or contains it.
LEMMA Ends ==
  ASSUME NEW s \in Int, NEW k \in Int, NEW date \in Int
  PROVE  LET u == StepsUp(date - s * StepLength)
         IN  /\ u \in Int
             /\ k * StepLength < date <=> k < s + u
             /\ date <= (k + 1) * StepLength <=> s + u - 1 <= k
             /\ date > s * StepLength => u >= 1
PROOF
<1> DEFINE d == StepLength
           t == date - s * d
           u == StepsUp(t)
<1>1. d \in Nat \ {0} /\ s * d \in Int /\ k * d \in Int /\ t \in Int
      /\ date = s * d + t
  BY StepAssumption
<1> HIDE DEF d, t
<1>2. u \in Int /\ t <= u * d /\ (u - 1) * d < t
  BY <1>1, Up DEF d
<1> HIDE DEF u
<1>3. /\ (s + u) * d = s * d + u * d /\ u * d \in Int
      /\ (s + (u - 1)) * d = s * d + (u - 1) * d /\ (u - 1) * d \in Int
  BY <1>1, <1>2, StepMultiples, u - 1 \in Int
<1>4. k * d < (s + u) * d <=> k < s + u
  BY <1>1, <1>2, StepMultiples, s + u \in Int
<1>5. k * d <= (s + (u - 1)) * d <=> k <= s + (u - 1)
  BY <1>1, <1>2, StepMultiples, s + (u - 1) \in Int
<1>6. k * d < date <=> k < s + u
  <2>1. CASE k < s + u
    <3>1. k <= s + (u - 1)
      BY <2>1, <1>2
    <3>2. k * d <= s * d + (u - 1) * d
      BY <3>1, <1>3, <1>5
    <3>3. QED
      BY <2>1, <3>2, <1>1, <1>2, <1>3
  <2>2. CASE ~(k < s + u)
    <3>1. k * d >= s * d + u * d
      BY <2>2, <1>1, <1>3, <1>4
    <3>2. QED
      BY <2>2, <3>1, <1>1, <1>2, <1>3
  <2>3. QED
    BY <2>1, <2>2
<1>7. date <= (k + 1) * d <=> s + u - 1 <= k
  <2>1. k + 1 \in Int /\ (k + 1) * d \in Int
    BY <1>1
  <2>2. (s + u) * d <= (k + 1) * d <=> s + u <= k + 1
    BY <1>1, <1>2, <2>1, StepMultiples, s + u \in Int
  <2>3. (k + 1) * d <= (s + (u - 1)) * d <=> k + 1 <= s + (u - 1)
    BY <1>1, <1>2, <2>1, StepMultiples, s + (u - 1) \in Int
  <2>4. CASE s + u <= k + 1
    <3>1. s * d + u * d <= (k + 1) * d
      BY <2>2, <2>4, <1>3
    <3>2. QED
      BY <2>4, <3>1, <2>1, <1>1, <1>2, <1>3
  <2>5. CASE ~(s + u <= k + 1)
    <3>1. k + 1 <= s + (u - 1)
      BY <2>5, <1>2
    <3>2. (k + 1) * d <= s * d + (u - 1) * d
      BY <2>3, <3>1, <1>3
    <3>3. QED
      BY <2>5, <3>2, <2>1, <1>1, <1>2, <1>3
  <2>6. QED
    BY <2>4, <2>5
<1>8. date > s * d => u >= 1
  <2>1. SUFFICES ASSUME t > 0, u <= 0 PROVE FALSE
    BY <1>1, <1>2
  <2>2. u * d <= 0 * d <=> u <= 0
    BY <1>1, <1>2, StepMultiples, 0 \in Int
  <2>3. 0 * d = 0
    BY <1>1
  <2>4. QED
    BY <2>1, <2>2, <2>3, <1>1, <1>2, <1>3
<1>9. QED
  BY <1>2, <1>6, <1>7, <1>8 DEF u, t, d

LEMMA Begins ==
  ASSUME NEW s \in Int, NEW k \in Int, NEW date \in Int
  PROVE  LET f == StepsDown(date - s * StepLength)
         IN  /\ f \in Int
             /\ date < (k + 1) * StepLength <=> s + f <= k
PROOF
<1> DEFINE d == StepLength
           t == date - s * d
           f == StepsDown(t)
<1>1. d \in Nat \ {0} /\ s * d \in Int /\ k * d \in Int /\ t \in Int
      /\ date = s * d + t /\ (k + 1) * d \in Int /\ k + 1 \in Int
  BY StepAssumption
<1> HIDE DEF d, t
<1>2. f \in Int /\ f * d <= t /\ t < f * d + d
  BY <1>1, Down DEF d
<1> HIDE DEF f
<1>3. /\ (s + f) * d = s * d + f * d /\ f * d \in Int
      /\ ((s + f) + 1) * d = (s + f) * d + d
  BY <1>1, <1>2, StepMultiples, s + f \in Int
<1>4. (s + f) + 1 <= k + 1 <=> ((s + f) + 1) * d <= (k + 1) * d
  BY <1>1, <1>2, StepMultiples, (s + f) + 1 \in Int
<1>5. k + 1 <= s + f <=> (k + 1) * d <= (s + f) * d
  BY <1>1, <1>2, StepMultiples, s + f \in Int
<1>6. CASE s + f <= k
  BY <1>6, <1>1, <1>2, <1>3, <1>4 DEF f, t, d
<1>7. CASE ~(s + f <= k)
  <2>1. k + 1 <= s + f
    BY <1>7, <1>1, <1>2
  <2>2. QED
    BY <1>7, <2>1, <1>1, <1>2, <1>3, <1>5 DEF f, t, d
<1>8. QED
  BY <1>6, <1>7

\* Bounds made of steps `from` to `to` of a run sample these steps.
LEMMA SamplesIs ==
  ASSUME NEW s \in Int, NEW from \in Int, NEW to \in Int, NEW k \in Int, NEW w,
         w.lo = s * StepLength + from * StepLength,
         w.hi = s * StepLength + (to + 1) * StepLength
  PROVE  Samples(w, k) <=> s + from <= k /\ k <= s + to
PROOF
<1> DEFINE d == StepLength
<1>1. d \in Nat \ {0}
  BY StepAssumption
<1> HIDE DEF d
<1>2. s + from \in Int /\ to + 1 \in Int /\ s + (to + 1) \in Int
  OBVIOUS
<1>3. (s + from) * d = s * d + from * d /\ (s + (to + 1)) * d = s * d + (to + 1) * d
  BY <1>1, <1>2, StepMultiples
<1>4. (s + from) * d <= k * d <=> s + from <= k
  BY <1>1, <1>2, StepMultiples
<1>5. k * d < (s + (to + 1)) * d <=> k < s + (to + 1)
  BY <1>1, <1>2, StepMultiples
<1>6. Samples(w, k) <=> (s + from) * d <= k * d /\ k * d < (s + (to + 1)) * d
  BY <1>3 DEF Samples, d
<1>7. QED
  BY <1>4, <1>5, <1>6

LEMMA IndexedIs ==
  ASSUME NEW s \in Int, NEW from \in Int, NEW to \in Int, NEW k \in Int
  PROVE  Indexed(k, s * StepLength, from, to) <=> s + from <= k /\ k <= s + to
PROOF
<1> DEFINE d == StepLength
<1>1. d \in Nat \ {0}
  BY StepAssumption
<1> HIDE DEF d
<1>2. s + from \in Int /\ s + to \in Int
  OBVIOUS
<1>3. (s + from) * d = s * d + from * d /\ (s + to) * d = s * d + to * d
  BY <1>1, StepMultiples
<1>4. (s + from) * d <= k * d <=> s + from <= k
  BY <1>1, <1>2, StepMultiples
<1>5. k * d <= (s + to) * d <=> k <= s + to
  BY <1>1, <1>2, StepMultiples
<1>6. Indexed(k, s * d, from, to) <=> (s + from) * d <= k * d /\ k * d <= (s + to) * d
  BY <1>3 DEF Indexed, d
<1>7. QED
  BY <1>4, <1>5, <1>6 DEF d

TimeOperator(op) ==
  /\ op.unit \in {"time", "time_index"} /\ op.start \in Int /\ op.end \in Int
  /\ op.type = "point" => op.start = op.end

\* The steps of the run that a time operator is parsed to.
Closes(op, begin) == ParseTimeValue(op.end, op.unit, begin, TRUE)
Opens(op, begin) ==
  IF IsPoint(op) THEN Closes(op, begin)
  ELSE ParseTimeValue(op.start, op.unit, begin, FALSE)

LEMMA ParsedIs ==
  ASSUME NEW op, NEW begin
  PROVE  ParseTimeOperator(op, begin) =
           IF Opens(op, begin) > Closes(op, begin) THEN {}
           ELSE {[lo |-> begin + Opens(op, begin) * StepLength,
                  hi |-> begin + (Closes(op, begin) + 1) * StepLength,
                  count |-> IF op.weights = "normalized"
                            THEN Closes(op, begin) - Opens(op, begin) + 1 ELSE 1]}
PROOF BY DEF ParseTimeOperator, Opens, Closes

\* The periods that the guide states are those from the one step to the other,
\* whether or not the operator is refused.
LEMMA StatedIs ==
  ASSUME NEW s \in Int, NEW op, TimeOperator(op), ~Early(op, s * StepLength)
  PROVE  /\ Opens(op, s * StepLength) \in Int /\ Closes(op, s * StepLength) \in Int
         /\ \A k \in Int :
              Stated(op, s * StepLength, k) <=>
                s + Opens(op, s * StepLength) <= k /\ k <= s + Closes(op, s * StepLength)
PROOF
<1> DEFINE begin == s * StepLength
           closes == Closes(op, begin)
           opens == Opens(op, begin)
<1>1. StepLength \in Nat \ {0} /\ begin \in Int
  BY StepAssumption
<1>2. CASE op.unit = "time_index"
  <2>1. closes = op.end /\ opens = op.start
    BY <1>2 DEF ParseTimeValue, IsPoint, TimeOperator, Opens, Closes
  <2>2. \A k \in Int : Stated(op, begin, k) <=> s + op.start <= k /\ k <= s + op.end
    BY <1>2, IndexedIs DEF Stated, TimeOperator
  <2>3. QED
    BY <2>1, <2>2 DEF TimeOperator
<1>3. CASE op.unit = "time"
  <2> DEFINE u == StepsUp(op.end - begin)
  <2>1. op.end \in Int /\ op.end > begin
    BY <1>1, <1>3 DEF Early, TimeOperator
  <2>2. u \in Int /\ u >= 1
    BY <2>1, Ends
  <2>3. closes = u - 1
    BY <1>3, <2>2 DEF ParseTimeValue, Larger, Closes
  <2>4. ASSUME NEW k \in Int
        PROVE  /\ k * StepLength < op.end <=> k < s + u
               /\ op.end <= (k + 1) * StepLength <=> s + u - 1 <= k
    BY <2>1, Ends
  <2> HIDE DEF u
  <2>5. CASE op.start = op.end
    <3>1. opens = u - 1
      BY <1>3, <2>3, <2>5 DEF IsPoint, Opens
    <3>2. ASSUME NEW k \in Int
          PROVE  Stated(op, begin, k) <=> s + (u - 1) <= k /\ k <= s + (u - 1)
      <4>1. Stated(op, begin, k) <=>
              k * StepLength < op.end /\ op.end <= (k + 1) * StepLength
        BY <1>3, <2>5 DEF Stated, PeriodEndingAt
      <4>2. QED
        BY <2>2, <2>4, <4>1
    <3>3. QED
      BY <2>2, <2>3, <3>1, <3>2
  <2>6. CASE op.start # op.end
    <3> DEFINE f == StepsDown(op.start - begin)
    <3>1. opens = f
      BY <1>3, <2>6 DEF IsPoint, TimeOperator, ParseTimeValue, Opens
    <3>2. f \in Int
      BY <1>1, Down DEF TimeOperator
    <3>3. ASSUME NEW k \in Int PROVE op.start < (k + 1) * StepLength <=> s + f <= k
      BY Begins DEF TimeOperator
    <3> HIDE DEF f
    <3>4. ASSUME NEW k \in Int
          PROVE  Stated(op, begin, k) <=> s + f <= k /\ k <= s + (u - 1)
      <4>1. Stated(op, begin, k) <=>
              k * StepLength < op.end /\ op.start < (k + 1) * StepLength
        BY <1>3, <2>6 DEF Stated, PeriodMeets
      <4>2. QED
        BY <2>2, <2>4, <3>2, <3>3, <4>1
    <3>5. QED
      BY <2>2, <2>3, <3>1, <3>2, <3>4
  <2>7. QED
    BY <2>5, <2>6
<1>4. QED
  BY <1>2, <1>3 DEF TimeOperator

\* Whichever run reads a time operator, the bounds it gets sample the periods
\* that the user guide states of it: the first step of a run, the granularity
\* of steps and both conventions for the ends of intervals agree
\* (_parse_time_operator, _parse_time_value and the test on the bounds in the
\* sampling kernel).
THEOREM SampledAsStated ==
  ASSUME NEW s \in Int, NEW k \in Int, NEW op, TimeOperator(op),
         ~Early(op, s * StepLength),
         NEW w \in ParseTimeOperator(op, s * StepLength)
  PROVE  Samples(w, k) <=> Stated(op, s * StepLength, k)
PROOF
<1> DEFINE begin == s * StepLength
           closes == Closes(op, begin)
           opens == Opens(op, begin)
<1>1. /\ opens \in Int /\ closes \in Int
      /\ Stated(op, begin, k) <=> s + opens <= k /\ k <= s + closes
  BY StatedIs
<1> DEFINE window == [lo |-> begin + opens * StepLength,
                      hi |-> begin + (closes + 1) * StepLength,
                      count |-> IF op.weights = "normalized" THEN closes - opens + 1 ELSE 1]
<1>2. w.lo = begin + opens * StepLength /\ w.hi = begin + (closes + 1) * StepLength
  <2>1. ParseTimeOperator(op, begin) = IF opens > closes THEN {} ELSE {window}
    BY ParsedIs
  <2>2. w = window
    BY <2>1
  <2>3. window.lo = begin + opens * StepLength /\ window.hi = begin + (closes + 1) * StepLength
    OBVIOUS
  <2>4. QED
    BY Zenon, <2>2, <2>3
<1> HIDE DEF opens, closes
<1>3. ASSUME NEW from \in Int, NEW to \in Int,
             w.lo = begin + from * StepLength, w.hi = begin + (to + 1) * StepLength
      PROVE  Samples(w, k) <=> s + from <= k /\ k <= s + to
  BY <1>3, SamplesIs
<1>4. Samples(w, k) <=> s + opens <= k /\ k <= s + closes
  BY <1>1, <1>2, <1>3
<1>5. QED
  BY Zenon, <1>1, <1>4

-----------------------------------------------------------------------------
(* Names in sequences of records.                                          *)

\* The names of a concatenation, and when they are distinct.
LEMMA ConcatNames ==
  ASSUME NEW R, NEW a \in Seq(R), NEW b \in Seq(R)
  PROVE  /\ a \o b \in Seq(R)
         /\ Names(a \o b) = Names(a) \cup Names(b)
         /\ Distinct(a \o b)
              <=> Distinct(a) /\ Distinct(b) /\ Names(a) \cap Names(b) = {}
PROOF
<1> DEFINE s == a \o b
           n == Len(a)
           m == Len(b)
<1>1. /\ n \in Nat /\ m \in Nat /\ DOMAIN a = 1 .. n /\ DOMAIN b = 1 .. m
  BY LenProperties
<1>2. /\ s \in Seq(R) /\ Len(s) = n + m
      /\ \A i \in 1 .. n + m : s[i] = IF i <= n THEN a[i] ELSE b[i - n]
  BY ConcatProperties
<1>3. DOMAIN s = 1 .. n + m
  BY <1>2, LenProperties
<1> HIDE DEF s, n, m
<1>4. /\ \A i \in 1 .. n : i \in 1 .. n + m /\ s[i] = a[i]
      /\ \A j \in 1 .. m : n + j \in 1 .. n + m /\ s[n + j] = b[j]
  BY <1>1, <1>2
<1>5. \A i \in 1 .. n + m :
        (i \in 1 .. n /\ s[i] = a[i])
        \/ (i - n \in 1 .. m /\ s[i] = b[i - n] /\ i = n + (i - n))
  BY <1>1, <1>2
<1>6. Names(s) = Names(a) \cup Names(b)
  <2>1. ASSUME NEW x \in Names(s) PROVE x \in Names(a) \cup Names(b)
    BY <1>1, <1>3, <1>5, <2>1 DEF Names
  <2>2. ASSUME NEW x \in Names(a) PROVE x \in Names(s)
    BY <1>1, <1>3, <1>4, <2>2 DEF Names
  <2>3. ASSUME NEW x \in Names(b) PROVE x \in Names(s)
    BY <1>1, <1>3, <1>4, <2>3 DEF Names
  <2>4. QED
    BY <2>1, <2>2, <2>3
<1>7. ASSUME Distinct(s)
      PROVE  Distinct(a) /\ Distinct(b) /\ Names(a) \cap Names(b) = {}
  <2>1. Distinct(a)
    BY <1>1, <1>3, <1>4, <1>7 DEF Distinct
  <2>2. ASSUME NEW i \in 1 .. m, NEW j \in 1 .. m, b[i].name = b[j].name
        PROVE  i = j
    <3>1. n + i = n + j
      BY <1>3, <1>4, <1>7, <2>2 DEF Distinct
    <3>2. QED
      BY <1>1, <3>1
  <2>3. ASSUME NEW x \in Names(a), x \in Names(b) PROVE FALSE
    <3>1. PICK i \in 1 .. n : x = a[i].name
      BY <1>1 DEF Names
    <3>2. PICK j \in 1 .. m : x = b[j].name
      BY <1>1, <2>3 DEF Names
    <3>3. /\ i \in 1 .. n + m /\ n + j \in 1 .. n + m
          /\ s[i].name = s[n + j].name
      BY <1>4, <3>1, <3>2
    <3>4. i = n + j
      BY <1>3, <1>7, <3>3 DEF Distinct
    <3>5. QED
      BY <1>1, <3>4
  <2>4. Distinct(b)
    BY <1>1, <2>2 DEF Distinct
  <2>5. QED
    BY <2>1, <2>3, <2>4
<1>8. ASSUME Distinct(a), Distinct(b), Names(a) \cap Names(b) = {}
      PROVE  Distinct(s)
  <2> SUFFICES ASSUME NEW i \in 1 .. n + m, NEW j \in 1 .. n + m,
                      s[i].name = s[j].name
               PROVE  i = j
    BY <1>3 DEF Distinct
  <2>1. CASE i \in 1 .. n /\ s[i] = a[i] /\ j \in 1 .. n /\ s[j] = a[j]
    BY <1>1, <1>8, <2>1 DEF Distinct
  <2>2. CASE i \in 1 .. n /\ s[i] = a[i] /\ j - n \in 1 .. m /\ s[j] = b[j - n]
    BY <1>1, <1>8, <2>2 DEF Names
  <2>3. CASE j \in 1 .. n /\ s[j] = a[j] /\ i - n \in 1 .. m /\ s[i] = b[i - n]
    BY <1>1, <1>8, <2>3 DEF Names
  <2>4. CASE /\ i - n \in 1 .. m /\ s[i] = b[i - n] /\ i = n + (i - n)
             /\ j - n \in 1 .. m /\ s[j] = b[j - n] /\ j = n + (j - n)
    <3>1. i - n = j - n
      BY <1>1, <1>8, <2>4 DEF Distinct
    <3>2. QED
      BY <2>4, <3>1
  <2>5. QED
    BY <1>5, <2>1, <2>2, <2>3, <2>4
<1>9. QED
  BY <1>2, <1>6, <1>7, <1>8 DEF s

LEMMA EmptyNames == Names(<<>>) = {} /\ Distinct(<<>>)
PROOF BY DEF Names, Distinct

\* A sequence without names is empty.
LEMMA NoNames ==
  ASSUME NEW R, NEW s \in Seq(R), Names(s) = {}
  PROVE  s = <<>>
PROOF
<1>1. DOMAIN s = 1 .. Len(s) /\ Len(s) \in Nat
  BY LenProperties
<1>2. Len(s) = 0
  <2>1. ASSUME Len(s) # 0 PROVE FALSE
    <3>1. 1 \in DOMAIN s
      BY <1>1, <2>1
    <3>2. s[1].name \in Names(s)
      BY <3>1 DEF Names
    <3>3. QED
      BY <3>2
  <2>2. QED
    BY <2>1
<1>3. QED
  BY <1>2, EmptySeq

\* Cutting a sequence in two.
LEMMA CutNames ==
  ASSUME NEW R, NEW s \in Seq(R), NEW k \in 0 .. Len(s)
  PROVE  LET a == SubSeq(s, 1, k)
             b == SubSeq(s, k + 1, Len(s))
         IN  a \in Seq(R) /\ b \in Seq(R) /\ a \o b = s
PROOF
<1> DEFINE a == SubSeq(s, 1, k)
           b == SubSeq(s, k + 1, Len(s))
<1>1. Len(s) \in Nat /\ \A i \in 1 .. Len(s) : s[i] \in R
  BY LenProperties, ElementOfSeq
<1>2. a \in Seq(R)
  <2>1. 1 \in Int /\ k \in Int /\ \A i \in 1 .. k : s[i] \in R
    BY <1>1
  <2>2. QED
    BY <1>1, <2>1, SubSeqProperties
<1>3. b \in Seq(R)
  <2>1. k + 1 \in Int /\ Len(s) \in Int /\ \A i \in k + 1 .. Len(s) : s[i] \in R
    BY <1>1
  <2>2. QED
    BY <1>1, <2>1, SubSeqProperties
<1>4. a \o b = SubSeq(s, 1, Len(s))
  <2>1. /\ 1 \in 1 .. Len(s) + 1 /\ k \in 1 - 1 .. Len(s)
        /\ Len(s) \in k .. Len(s)
    BY <1>1
  <2>2. QED
    BY <2>1, ConcatAdjacentSubSeq
<1>5. SubSeq(s, 1, Len(s)) = s
  BY SubSeqFull
<1>6. QED
  BY <1>2, <1>3, <1>4, <1>5
-----------------------------------------------------------------------------
(* The writer: what it holds stays what it holds until it is closed.       *)

LEMMA HeldIs ==
  ASSUME NEW w \in GoodWriter, WriterOnce(w)
  PROVE  /\ InFile(w) \in Seq(Complete) /\ Held(w) \in Seq(Complete)
         /\ Names(Held(w)) = Names(InFile(w)) \cup Names(w.staged)
         /\ Distinct(InFile(w)) /\ Distinct(w.staged)
         /\ Names(InFile(w)) \cap Names(w.staged) = {}
         /\ \A n \in Names(Held(w)) : Place(n) = w.path /\ w.path \in OutputFile
PROOF
<1>1. /\ w.staged \in Seq(Complete) /\ w.disk \in [OutputFile -> Seq(Complete)]
  BY DEF GoodWriter
<1>2. InFile(w) \in Seq(Complete)
  <2>1. CASE w.created
    <3>1. w.path \in OutputFile
      BY <2>1 DEF WriterOnce
    <3>2. QED
      BY <1>1, <2>1, <3>1 DEF InFile
  <2>2. CASE ~w.created
    BY <2>2, EmptySeq DEF InFile
  <2>3. QED
    BY <2>1, <2>2
<1>3. /\ Held(w) \in Seq(Complete)
      /\ Names(Held(w)) = Names(InFile(w)) \cup Names(w.staged)
      /\ Distinct(Held(w)) <=>
           /\ Distinct(InFile(w)) /\ Distinct(w.staged)
           /\ Names(InFile(w)) \cap Names(w.staged) = {}
  BY <1>1, <1>2, ConcatNames DEF Held
<1>4. Distinct(Held(w))
  BY DEF WriterOnce
<1>5. ASSUME NEW n \in Names(InFile(w)) PROVE Place(n) = w.path /\ w.path \in OutputFile
  <2>1. w.created
    BY <1>5, EmptyNames DEF InFile
  <2>2. w.path \in OutputFile /\ n \in Names(w.disk[w.path])
    BY <1>5, <2>1 DEF InFile, WriterOnce
  <2>3. QED
    BY <2>2 DEF WriterOnce, FilesOnce
<1>6. ASSUME NEW n \in Names(w.staged) PROVE Place(n) = w.path /\ w.path \in OutputFile
  <2>1. w.staged # <<>>
    BY <1>6, EmptyNames
  <2>2. QED
    BY <1>6, <2>1 DEF WriterOnce
<1>7. QED
  BY <1>2, <1>3, <1>4, <1>5, <1>6

\* A flush moves staged records into the open file.
LEMMA FlushOnce ==
  ASSUME NEW w \in GoodWriter, WriterOnce(w), NEW k \in 0 .. Len(w.staged)
  PROVE  LET v == FlushPrefix(w, k)
         IN  /\ v \in GoodWriter /\ WriterOnce(v) /\ v.path = w.path
             /\ Names(Held(v)) = Names(Held(w))
             /\ \A f \in OutputFile : f # w.path => v.disk[f] = w.disk[f]
             /\ k = Len(w.staged) => Names(v.staged) = {}
PROOF
<1>1. FlushPrefix(w, k) \in GoodWriter
  BY FlushPrefixGood
<1>2. CASE k = 0
  <2>1. FlushPrefix(w, k) = w
    BY <1>2 DEF FlushPrefix
  <2>2. w.staged \in Seq(Complete)
    BY DEF GoodWriter
  <2>3. k = Len(w.staged) => w.staged = <<>>
    BY <1>2, <2>2, EmptySeq
  <2>4. QED
    BY <1>1, <2>1, <2>3, EmptyNames
<1>3. CASE k # 0
  <2> DEFINE out == SubSeq(w.staged, 1, k)
             rest == SubSeq(w.staged, k + 1, Len(w.staged))
             disk == [w.disk EXCEPT ![w.path] = InFile(w) \o out]
             v == FlushPrefix(w, k)
  <2>1. /\ w.staged \in Seq(Complete) /\ w.disk \in [OutputFile -> Seq(Complete)]
        /\ w.staged # <<>> /\ w.path \in OutputFile
    <3>1. w.staged \in Seq(Complete) /\ w.disk \in [OutputFile -> Seq(Complete)]
      BY DEF GoodWriter
    <3>2. w.staged # <<>>
      BY <1>3, <3>1, EmptySeq
    <3>3. QED
      BY <3>1, <3>2 DEF WriterOnce
  <2>2. out \in Seq(Complete) /\ rest \in Seq(Complete) /\ out \o rest = w.staged
    BY <2>1, CutNames
  <2>3. v = [w EXCEPT !.disk = disk, !.staged = rest, !.created = TRUE]
    BY <1>3, <2>1 DEF FlushPrefix, GoodWriter, InFile
  <2>4. /\ v.path = w.path /\ v.created = TRUE /\ v.staged = rest
        /\ v.disk = disk
    BY <2>3 DEF GoodWriter
  <2> HIDE DEF out, rest, v
  <2>5. /\ InFile(w) \in Seq(Complete)
        /\ Names(Held(w)) = Names(InFile(w)) \cup Names(w.staged)
        /\ Distinct(InFile(w)) /\ Distinct(w.staged)
        /\ Names(InFile(w)) \cap Names(w.staged) = {}
        /\ \A n \in Names(Held(w)) : Place(n) = w.path
    BY HeldIs
  <2>6. /\ Names(w.staged) = Names(out) \cup Names(rest)
        /\ Distinct(out) /\ Distinct(rest) /\ Names(out) \cap Names(rest) = {}
    <3>1. /\ Names(out \o rest) = Names(out) \cup Names(rest)
          /\ Distinct(out \o rest)
               <=> Distinct(out) /\ Distinct(rest) /\ Names(out) \cap Names(rest) = {}
      BY ZenonT(60), <2>2, ConcatNames
    <3>2. QED
      BY <2>2, <2>5, <3>1
  <2>7. /\ InFile(w) \o out \in Seq(Complete)
        /\ Names(InFile(w) \o out) = Names(InFile(w)) \cup Names(out)
        /\ Distinct(InFile(w) \o out)
    BY <2>2, <2>5, <2>6, ConcatNames
  <2>8. InFile(v) = InFile(w) \o out
    BY <2>1, <2>4 DEF InFile
  <2>9. /\ Names(Held(v)) = Names(InFile(w) \o out) \cup Names(rest)
        /\ Distinct(Held(v))
    <3> DEFINE long == InFile(w) \o out
    <3>1. long \in Seq(Complete) /\ Distinct(long) /\ Names(long) \cap Names(rest) = {}
      BY <2>5, <2>6, <2>7
    <3>2. Held(v) = long \o rest
      BY <2>4, <2>8 DEF Held
    <3> HIDE DEF long
    <3>3. /\ Names(long \o rest) = Names(long) \cup Names(rest)
          /\ Distinct(long \o rest)
      BY <2>2, <2>6, <3>1, ConcatNames
    <3>4. QED
      BY <3>2, <3>3 DEF long
  <2>10. Names(Held(v)) = Names(Held(w))
    BY <2>5, <2>6, <2>7, <2>9
  <2>11. \A f \in OutputFile : f # w.path => v.disk[f] = w.disk[f]
    BY <2>1, <2>4
  <2>12. v.disk[w.path] = InFile(w) \o out
    BY <2>1, <2>4
  <2>13. WriterOnce(v)
    <3>1. \A n \in Names(v.staged) : Place(n) = v.path
      BY <2>4, <2>5, <2>6
    <3>2. ASSUME NEW f \in OutputFile
          PROVE  Distinct(v.disk[f]) /\ \A n \in Names(v.disk[f]) : Place(n) = f
      <4>1. CASE f = w.path
        BY <2>5, <2>6, <2>7, <2>12, <4>1
      <4>2. CASE f # w.path
        BY <2>11, <4>2 DEF WriterOnce, FilesOnce
      <4>3. QED
        BY <4>1, <4>2
    <3>3. QED
      BY <2>1, <2>4, <2>9, <3>1, <3>2 DEF WriterOnce, FilesOnce
  <2>14. ASSUME k = Len(w.staged) PROVE Names(v.staged) = {}
    <3>1. Len(w.staged) \in Nat
      BY <2>1, LenProperties
    <3>2. \A i \in k + 1 .. Len(w.staged) : w.staged[i] \in Complete
      BY <2>14, <3>1
    <3>3. rest \in Seq(Complete) /\ Len(rest) = 0
      BY <2>14, <3>1, <3>2, SubSeqProperties DEF rest
    <3>4. rest = <<>>
      BY <3>3, EmptySeq
    <3>5. QED
      BY <2>4, <3>4, EmptyNames
  <2>15. QED
    BY <1>1, <2>4, <2>10, <2>11, <2>13, <2>14 DEF v
<1>4. QED
  BY <1>2, <1>3

\* Closing the writer leaves all it held in its file.
LEMMA CloseOnce ==
  ASSUME NEW w \in GoodWriter, WriterOnce(w)
  PROVE  LET v == CloseWriter(w)
         IN  /\ v \in GoodWriter /\ WriterOnce(v) /\ v.path = w.path
             /\ Names(Held(v)) = {} /\ v.staged = <<>> /\ v.created = FALSE
             /\ \A f \in OutputFile : f # w.path => v.disk[f] = w.disk[f]
             /\ \A n \in Names(Held(w)) : n \in Names(v.disk[w.path])
PROOF
<1> DEFINE k == Len(w.staged)
           u == FlushPrefix(w, k)
           v == CloseWriter(w)
<1>1. k \in 0 .. Len(w.staged) /\ k = Len(w.staged)
  BY LenProperties DEF GoodWriter
<1>2. /\ u \in GoodWriter /\ WriterOnce(u) /\ u.path = w.path
      /\ Names(Held(u)) = Names(Held(w))
      /\ \A f \in OutputFile : f # w.path => u.disk[f] = w.disk[f]
      /\ Names(u.staged) = {}
  BY <1>1, FlushOnce
<1>3. v = [u EXCEPT !.created = FALSE]
  BY DEF CloseWriter
<1> HIDE DEF k, u
<1>4. u.staged \in Seq(Complete) /\ u.staged = <<>>
  BY <1>2, NoNames DEF GoodWriter
<1>5. /\ v \in GoodWriter /\ v.path = u.path /\ v.staged = <<>>
      /\ v.created = FALSE /\ v.disk = u.disk
  BY <1>2, <1>3, <1>4 DEF GoodWriter
<1> HIDE DEF v
<1>6. Held(v) = <<>>
  <2>1. InFile(v) = <<>>
    BY <1>5 DEF InFile
  <2>2. <<>> \o <<>> = <<>>
    BY EmptySeq, ConcatEmptySeq
  <2>3. QED
    BY <1>5, <2>1, <2>2 DEF Held
<1>7. WriterOnce(v)
  BY <1>2, <1>5, <1>6, EmptyNames DEF WriterOnce
<1>8. ASSUME NEW n \in Names(Held(w)) PROVE n \in Names(v.disk[w.path])
  <2>1. n \in Names(InFile(u)) \cup Names(u.staged)
    BY <1>2, <1>8, HeldIs
  <2>2. n \in Names(InFile(u))
    BY <1>2, <2>1
  <2>3. InFile(u) = u.disk[u.path]
    BY <2>2, EmptyNames DEF InFile
  <2>4. QED
    BY <1>2, <1>5, <2>2, <2>3
<1>9. QED
  BY <1>2, <1>5, <1>6, <1>7, <1>8, EmptyNames DEF v

\* Selecting the file of a step: the same, or a fresh one.
LEMMA SelectOnce ==
  ASSUME NEW w \in GoodWriter, WriterOnce(w), NEW path \in OutputFile
  PROVE  LET v == SelectPath(w, path)
         IN  /\ v \in GoodWriter /\ WriterOnce(v) /\ v.path = path
             /\ Names(Held(v)) \subseteq Names(Held(w))
             /\ path = w.path => v = w
             /\ \A f \in OutputFile : f # w.path => v.disk[f] = w.disk[f]
             /\ path # w.path =>
                  \A n \in Names(Held(w)) : n \in Names(v.disk[w.path])
PROOF
<1>1. CASE path = w.path
  BY <1>1 DEF SelectPath
<1>2. CASE path # w.path
  <2> DEFINE u == CloseWriter(w)
             v == SelectPath(w, path)
  <2>1. /\ u \in GoodWriter /\ WriterOnce(u)
        /\ Names(Held(u)) = {} /\ u.staged = <<>> /\ u.created = FALSE
        /\ \A f \in OutputFile : f # w.path => u.disk[f] = w.disk[f]
        /\ \A n \in Names(Held(w)) : n \in Names(u.disk[w.path])
    BY CloseOnce
  <2>2. v = [u EXCEPT !.path = path]
    BY <1>2 DEF SelectPath
  <2> HIDE DEF u
  <2>3. /\ v \in GoodWriter /\ v.path = path /\ v.staged = <<>>
        /\ v.created = FALSE /\ v.disk = u.disk
    BY <2>1, <2>2 DEF GoodWriter
  <2> HIDE DEF v
  <2>4. InFile(v) = <<>> /\ InFile(u) = <<>>
    BY <2>1, <2>3 DEF InFile
  <2>5. Held(v) = Held(u)
    BY <2>1, <2>3, <2>4 DEF Held
  <2>6. WriterOnce(v)
    BY <2>1, <2>3, <2>5, EmptyNames DEF WriterOnce
  <2>7. QED
    BY <1>2, <2>1, <2>3, <2>5, <2>6 DEF v
<1>3. QED
  BY <1>1, <1>2

\* A write adds its batch to what the writer holds.
LEMMA WrittenOnce ==
  ASSUME NEW w \in GoodWriter, WriterOnce(w), w.path \in OutputFile,
         NEW batch \in Seq(Complete), Distinct(batch),
         Names(batch) \cap Names(Held(w)) = {},
         \A n \in Names(batch) : Place(n) = w.path,
         NEW v \in Written(w, batch)
  PROVE  /\ v \in GoodWriter /\ WriterOnce(v) /\ v.path = w.path
         /\ Names(Held(v)) = Names(Held(w)) \cup Names(batch)
         /\ \A f \in OutputFile : f # w.path => v.disk[f] = w.disk[f]
PROOF
<1>1. CASE batch = <<>>
  BY <1>1, EmptyNames DEF Written
<1>2. CASE batch # <<>>
  <2> DEFINE full == [w EXCEPT !.staged = @ \o batch]
  <2>1. PICK k \in 0 .. Len(full.staged) : v = FlushPrefix(full, k)
    BY <1>2 DEF Written
  <2>2. w.staged \in Seq(Complete)
    BY DEF GoodWriter
  <2>3. /\ w.staged \o batch \in Seq(Complete)
        /\ Names(w.staged \o batch) = Names(w.staged) \cup Names(batch)
    BY <2>2, ConcatNames
  <2>4. /\ full \in GoodWriter /\ full.path = w.path
        /\ full.created = w.created /\ full.disk = w.disk
        /\ full.staged = w.staged \o batch
    BY <2>3 DEF GoodWriter
  <2> HIDE DEF full
  <2>5. /\ Held(w) \in Seq(Complete) /\ InFile(w) \in Seq(Complete)
        /\ Distinct(Held(w))
    BY HeldIs DEF WriterOnce
  <2>6. Held(full) = Held(w) \o batch
    <3>1. InFile(full) = InFile(w)
      BY <2>4 DEF InFile
    <3>2. InFile(w) \o (w.staged \o batch) = (InFile(w) \o w.staged) \o batch
      <4>1. \A a, b, c \in Seq(Complete) : (a \o b) \o c = a \o (b \o c)
        BY ConcatAssociative
      <4>2. QED
        BY <2>2, <2>5, <4>1, Zenon
    <3>3. QED
      BY <2>4, <3>1, <3>2 DEF Held
  <2>7. /\ Names(Held(full)) = Names(Held(w)) \cup Names(batch)
        /\ Distinct(Held(full))
    <3> DEFINE held == Held(w)
    <3>1. Names(held) \cap Names(batch) = {}
      OBVIOUS
    <3>2. held \in Seq(Complete) /\ Distinct(held)
      BY <2>5
    <3> HIDE DEF held
    <3>3. /\ Names(held \o batch) = Names(held) \cup Names(batch)
          /\ Distinct(held \o batch)
      BY <3>1, <3>2, ConcatNames
    <3>4. QED
      BY <2>6, <3>3 DEF held
  <2>8. WriterOnce(full)
    <3>1. \A n \in Names(full.staged) : Place(n) = full.path
      <4>1. \A n \in Names(w.staged) : Place(n) = w.path
        BY DEF WriterOnce
      <4>2. QED
        BY <2>3, <2>4, <4>1
    <3>2. FilesOnce(full.disk)
      BY <2>4 DEF WriterOnce
    <3>3. QED
      BY <2>4, <2>7, <3>1, <3>2 DEF WriterOnce
  <2>9. /\ v \in GoodWriter /\ WriterOnce(v) /\ v.path = full.path
        /\ Names(Held(v)) = Names(Held(full))
        /\ \A f \in OutputFile : f # full.path => v.disk[f] = full.disk[f]
    BY <2>1, <2>4, <2>8, FlushOnce
  <2>10. QED
    BY <2>4, <2>7, <2>9
<1>3. QED
  BY <1>1, <1>2

\* Selecting a file and writing a batch to it.  Nothing that was safe is lost,
\* unless it is in the file that is opened anew.
LEMMA EmitIs ==
  ASSUME NEW w \in GoodWriter, WriterOnce(w), NEW path \in OutputFile,
         NEW batch \in Seq(Complete), Distinct(batch),
         Names(batch) \cap Names(Held(w)) = {},
         \A n \in Names(batch) : Place(n) = path,
         NEW v \in Written(SelectPath(w, path), batch)
  PROVE  /\ v \in GoodWriter /\ WriterOnce(v) /\ v.path = path
         /\ Names(Held(v)) \subseteq Names(Held(w)) \cup Names(batch)
         /\ \A n \in Names(batch) : Safe(v, n)
         /\ \A n : Safe(w, n) /\ (path # w.path => Place(n) # path) => Safe(v, n)
PROOF
<1> DEFINE u == SelectPath(w, path)
<1>1. /\ u \in GoodWriter /\ WriterOnce(u) /\ u.path = path
      /\ Names(Held(u)) \subseteq Names(Held(w))
      /\ path = w.path => u = w
      /\ \A f \in OutputFile : f # w.path => u.disk[f] = w.disk[f]
      /\ path # w.path => \A n \in Names(Held(w)) : n \in Names(u.disk[w.path])
  BY SelectOnce
<1> HIDE DEF u
<1>2. /\ v \in GoodWriter /\ WriterOnce(v) /\ v.path = u.path
      /\ Names(Held(v)) = Names(Held(u)) \cup Names(batch)
      /\ \A f \in OutputFile : f # u.path => v.disk[f] = u.disk[f]
  <2>1. Names(batch) \cap Names(Held(u)) = {} /\ u.path \in OutputFile
    BY <1>1
  <2>2. v \in Written(u, batch) /\ \A n \in Names(batch) : Place(n) = u.path
    BY <1>1 DEF u
  <2>3. QED
    BY <1>1, <2>1, <2>2, WrittenOnce
<1>3. ASSUME NEW n, Safe(w, n), path # w.path => Place(n) # path
      PROVE  Safe(v, n)
  <2>1. CASE n \in Names(Held(w)) /\ path = w.path
    BY <1>1, <1>2, <2>1 DEF Safe
  <2>2. CASE n \in Names(Held(w)) /\ path # w.path
    <3>1. Place(n) = w.path /\ w.path \in OutputFile
      BY <2>2, HeldIs
    <3>2. n \in Names(u.disk[w.path])
      BY <1>1, <2>2
    <3>3. v.disk[w.path] = u.disk[w.path]
      BY <1>1, <1>2, <2>2, <3>1
    <3>4. QED
      BY <1>1, <1>2, <2>2, <3>1, <3>2, <3>3 DEF Safe
  <2>3. CASE /\ w.path \in OutputFile /\ Place(n) \in OutputFile
             /\ Place(n) # w.path /\ n \in Names(w.disk[Place(n)])
    <3>1. Place(n) # path
      BY <1>3, <2>3
    <3>2. v.disk[Place(n)] = w.disk[Place(n)]
      BY <1>1, <1>2, <2>3, <3>1
    <3>3. QED
      BY <1>1, <1>2, <2>3, <3>1, <3>2 DEF Safe
  <2>4. QED
    BY <1>3, <2>1, <2>2, <2>3 DEF Safe
<1>4. \A n \in Names(batch) : Safe(v, n)
  BY <1>2 DEF Safe
<1>5. QED
  BY <1>1, <1>2, <1>3, <1>4
-----------------------------------------------------------------------------
(* What becomes of the names of a plan.                                    *)

LEMMA PlanNames ==
  ASSUME NEW p \in Plan
  PROVE  /\ Names(p) = {p[i].name : i \in 1 .. Len(p)}
         /\ Names(p) \subseteq Entry
         /\ UniqueIds(p) => Distinct(p)
PROOF
<1>1. DOMAIN p = 1 .. Len(p) /\ \A i \in 1 .. Len(p) : p[i].name \in Entry
  BY PlanElement
<1>2. QED
  BY <1>1 DEF Names, UniqueIds, Distinct

LEMMA EqualNames ==
  ASSUME NEW p \in Plan, NEW q \in Plan, Len(q) = Len(p),
         \A i \in 1 .. Len(p) : q[i].name = p[i].name
  PROVE  Names(q) = Names(p)
PROOF
<1>1. DOMAIN p = 1 .. Len(p) /\ DOMAIN q = 1 .. Len(p)
  BY PlanElement
<1>2. QED
  BY <1>1 DEF Names

\* Compacting keeps the entries that end later.
LEMMA CompactNames ==
  ASSUME NEW p \in Plan, Sorted(p), NEW b \in Int
  PROVE  Names(CompactPlan(p, b)) = {n \in Names(p) : End[n] > b}
PROOF
<1> DEFINE n == CompletedPrefix(p, b)
           kept == SubSeq(p, n + 1, Len(p))
           q == CompactPlan(p, b)
<1>1. /\ Len(p) \in Nat /\ n \in 0 .. Len(p)
      /\ \A i \in 1 .. Len(p) : /\ p[i] \in PlanEntry
                                /\ i > n => End[p[i].name] > b
                                /\ i <= n => End[p[i].name] <= b
                                /\ End[p[i].name] \in Int
  <2>1. /\ Len(p) \in Nat
        /\ \A i \in 1 .. Len(p) : p[i] \in PlanEntry /\ End[p[i].name] \in Int
    BY PlanElement
  <2>2. n \in 0 .. Len(p) /\ \A i \in 1 .. n : End[p[i].name] <= b
    BY CompletedPrefixIs
  <2>3. \A i \in 1 .. Len(p) : i <= n <=> End[p[i].name] <= b
    BY CompletedPrefixSplits
  <2> HIDE DEF n
  <2>4. QED
    BY <2>1, <2>2, <2>3
<1> HIDE DEF n
<1>2. /\ kept \in Seq(PlanEntry) /\ Len(kept) = Len(p) - n
      /\ \A j \in 1 .. Len(p) - n : kept[j] = p[n + j]
  <2>1. n + 1 \in Int /\ Len(p) \in Int
        /\ \A i \in n + 1 .. Len(p) : p[i] \in PlanEntry
    BY <1>1
  <2>2. /\ kept \in Seq(PlanEntry)
        /\ Len(kept) = IF n + 1 <= Len(p) THEN Len(p) - (n + 1) + 1 ELSE 0
        /\ \A i \in 1 .. Len(p) - (n + 1) + 1 : kept[i] = p[(n + 1) + i - 1]
    BY <2>1, SubSeqProperties
  <2> HIDE DEF kept
  <2>3. Len(kept) = Len(p) - n
    BY <1>1, <2>2
  <2>4. ASSUME NEW j \in 1 .. Len(p) - n PROVE kept[j] = p[n + j]
    <3>1. j \in 1 .. Len(p) - (n + 1) + 1 /\ (n + 1) + j - 1 = n + j
      BY <1>1
    <3>2. QED
      BY <2>2, <3>1
  <2>5. QED
    BY <2>2, <2>3, <2>4
<1>3. /\ DOMAIN q = 1 .. Len(p) - n
      /\ \A j \in 1 .. Len(p) - n : q[j].name = kept[j].name
  <2>1. DOMAIN kept = 1 .. Len(p) - n
    BY <1>2, LenProperties
  <2>2. q = [j \in DOMAIN kept |->
               [kept[j] EXCEPT !.win = ClampWindows(kept[j].win, b)]]
    BY DEF CompactPlan, n
  <2>3. \A j \in 1 .. Len(p) - n : kept[j] \in PlanEntry
    BY <1>2, ElementOfSeq
  <2>4. QED
    BY <2>1, <2>2, <2>3 DEF PlanEntry
<1> HIDE DEF kept, q
<1>4. ASSUME NEW x \in Names(q) PROVE x \in Names(p) /\ End[x] > b
  <2>1. PICK j \in 1 .. Len(p) - n : x = q[j].name
    BY <1>3 DEF Names
  <2>2. n + j \in 1 .. Len(p) /\ n + j > n /\ x = p[n + j].name
    BY <1>1, <1>2, <1>3, <2>1
  <2>3. QED
    BY <1>1, <2>2, PlanNames
<1>5. ASSUME NEW x \in Names(p), End[x] > b PROVE x \in Names(q)
  <2>1. PICK i \in 1 .. Len(p) : x = p[i].name
    BY PlanNames
  <2>2. i > n
    BY <1>1, <1>5, <2>1
  <2>3. i - n \in 1 .. Len(p) - n /\ n + (i - n) = i
    BY <1>1, <2>2
  <2>4. x = q[i - n].name
    BY <1>2, <1>3, <2>1, <2>3
  <2>5. QED
    BY <1>3, <2>3, <2>4 DEF Names
<1>6. QED
  BY <1>4, <1>5 DEF q

\* A stable sort loses no name: its permutation is onto.
LEMMA SortNames ==
  ASSUME NEW s \in Plan, NEW p \in StableSorts(s)
  PROVE  Names(p) = Names(s)
PROOF
<1>1. PICK q \in [DOMAIN s -> DOMAIN s] :
        /\ \A i, j \in DOMAIN s : i < j => Precedes(s, q[i], q[j])
        /\ p = [k \in DOMAIN s |-> s[q[k]]]
  BY DEF StableSorts
<1>2. /\ Len(s) \in Nat /\ DOMAIN s = 1 .. Len(s)
      /\ \A i \in 1 .. Len(s) : End[s[i].name] \in Int
  BY PlanElement
<1>3. \A i \in DOMAIN s : ~Precedes(s, i, i)
  BY <1>2 DEF Precedes
<1>4. ASSUME NEW i \in DOMAIN s, NEW j \in DOMAIN s, q[i] = q[j]
      PROVE  i = j
  <2>1. ~ (i < j) /\ ~ (j < i)
    BY <1>1, <1>3, <1>4
  <2>2. QED
    BY <1>2, <2>1
<1>5. q \in Injection(DOMAIN s, DOMAIN s)
  BY <1>4 DEF Injection, IsInjective
<1>6. IsFiniteSet(DOMAIN s)
  BY <1>2, FS_Interval
<1>7. q \in Surjection(DOMAIN s, DOMAIN s)
  BY <1>5, <1>6, FS_Injection
<1>8. \A i \in DOMAIN s : \E k \in DOMAIN s : q[k] = i
  BY <1>7 DEF Surjection
<1>9. DOMAIN p = DOMAIN s /\ \A k \in DOMAIN s : p[k] = s[q[k]] /\ q[k] \in DOMAIN s
  BY <1>1
<1>10. ASSUME NEW x \in Names(s) PROVE x \in Names(p)
  BY <1>8, <1>9, <1>10 DEF Names
<1>11. ASSUME NEW x \in Names(p) PROVE x \in Names(s)
  BY <1>9, <1>11 DEF Names
<1>12. QED
  BY <1>10, <1>11

\* The names of a completed batch are those of its range, each once.
LEMMA BatchNames ==
  ASSUME NEW p \in Plan, UniqueIds(p), NEW a \in Nat, NEW b \in Nat, b <= Len(p)
  PROVE  /\ Distinct(CompletedBatch(p, a, b))
         /\ \A n \in Names(CompletedBatch(p, a, b)) :
              \E i \in 1 .. Len(p) : a < i /\ i <= b /\ n = p[i].name
         /\ \A i \in 1 .. Len(p) : a < i /\ i <= b =>
              p[i].name \in Names(CompletedBatch(p, a, b))
PROOF
<1> DEFINE c == CompletedBatch(p, a, b)
<1>1. Len(p) \in Nat /\ DOMAIN p = 1 .. Len(p)
  BY PlanElement
<1>2. /\ DOMAIN c = 1 .. b - a
      /\ \A i \in 1 .. b - a : c[i].name = p[a + i].name
  BY DEF CompletedBatch
<1> HIDE DEF c
<1>3. \A i \in 1 .. b - a : a + i \in 1 .. Len(p) /\ a < a + i /\ a + i <= b
  BY <1>1
<1>4. Distinct(c)
  <2> SUFFICES ASSUME NEW i \in 1 .. b - a, NEW j \in 1 .. b - a,
                      c[i].name = c[j].name
               PROVE  i = j
    BY <1>2 DEF Distinct
  <2>1. p[a + i].name = p[a + j].name
    BY <1>2
  <2>2. a + i = a + j
    BY <1>1, <1>3, <2>1 DEF UniqueIds
  <2>3. QED
    BY <2>2
<1>5. ASSUME NEW n \in Names(c)
      PROVE  \E i \in 1 .. Len(p) : a < i /\ i <= b /\ n = p[i].name
  <2>1. PICK i \in 1 .. b - a : n = c[i].name
    BY <1>2 DEF Names
  <2>2. QED
    BY <1>2, <1>3, <2>1
<1>6. ASSUME NEW i \in 1 .. Len(p), a < i, i <= b
      PROVE  p[i].name \in Names(c)
  <2>1. i - a \in 1 .. b - a /\ a + (i - a) = i
    BY <1>1, <1>6
  <2>2. c[i - a].name = p[i].name
    BY <1>2, <2>1
  <2>3. QED
    BY <1>2, <2>1, <2>2 DEF Names
<1>7. QED
  BY <1>4, <1>5, <1>6 DEF c
-----------------------------------------------------------------------------
(* The plan a step is sampled with.                                        *)

\* Entries that are accepted from a file end after the step.
LEMMA IncomingNames ==
  ASSUME NEW t \in Step,
         \A i \in DOMAIN Incoming(t) : StartsAtOrAfter(Incoming(t)[i].win, t)
  PROVE  /\ Names(Incoming(t)) = FileEntries(t)
         /\ \A n \in Names(Incoming(t)) : End[n] > t
PROOF
<1> DEFINE file == Entries[InPath[t]]
<1>1. file \in Seq(Entry)
  BY PathAssumption
<1>2. DOMAIN file = 1 .. Len(file) /\ \A i \in 1 .. Len(file) : file[i] \in Entry
  BY <1>1, LenProperties, ElementOfSeq
<1>3. /\ DOMAIN Incoming(t) = 1 .. Len(file)
      /\ \A i \in 1 .. Len(file) : Incoming(t)[i].name = file[i]
                                   /\ Incoming(t)[i].win = Window[file[i]]
  BY <1>2 DEF Incoming, FreshEntry
<1>4. Names(Incoming(t)) = FileEntries(t)
  BY <1>2, <1>3 DEF Names, FileEntries
<1> HIDE DEF file
<1>5. ASSUME NEW i \in 1 .. Len(file) PROVE End[file[i]] > t
  <2> DEFINE e == file[i]
  <2>1. e \in Entry /\ StartsAtOrAfter(Window[e], t)
    BY <1>2, <1>3
  <2> HIDE DEF e
  <2>2. PICK c \in Component : Window[e][c] # Unused /\ Window[e][c].hi = End[e]
    BY <2>1, EntryAssumption
  <2>3. /\ Window[e][c].lo < Window[e][c].hi
        /\ Window[e][c].lo \in Int /\ Window[e][c].hi \in Int
    BY <2>1, <2>2, EntryAssumption DEF Windows, Interval
  <2>4. Window[e][c].lo >= t
    BY <2>1, <2>3 DEF StartsAtOrAfter
  <2>5. QED
    BY <2>2, <2>3, <2>4 DEF e, Step
<1>6. QED
  BY <1>3, <1>4, <1>5 DEF Names

\* New input drops what has completed and adds a file; otherwise the plan is
\* the one there was.
LEMMA InitializedNames ==
  ASSUME IInv, phase = "running", current < stop,
         Accepted(current), NEW init \in Initialized(current)
  PROVE  /\ current = Reached /\ current \in Step /\ current \in Int
         /\ init.plan \in Plan /\ Sorted(init.plan) /\ UniqueIds(init.plan)
         /\ \/ /\ NeedsInput(current) /\ init.first = 0
               /\ pending = <<>> /\ current = position
               /\ Names(init.plan) =
                    {n \in Names(plan) : End[n] > current} \cup FileEntries(current)
               /\ \A n \in Names(init.plan) : End[n] > current
            \/ /\ ~NeedsInput(current)
               /\ init = [plan |-> plan, first |-> first, live |-> device.live]
PROOF
<1> DEFINE t == current
<1>1. /\ t = Reached /\ t \in Step /\ t \in Boundary /\ t \in Int
  BY Types, HorizonAssumption DEF IInv, InStep, Reached, Step, Boundary
<1>2. init.plan \in Plan /\ Sorted(init.plan) /\ UniqueIds(init.plan)
  BY <1>1, Types, InitializedIs DEF IInv
<1>3. CASE ~NeedsInput(t)
  BY <1>1, <1>2, <1>3 DEF Initialized
<1>4. CASE NeedsInput(t)
  <2>1. pending = <<>> /\ t = position
    <3>1. pending = <<>>
      BY <1>4 DEF IInv, InStep, NeedsInput
    <3>2. QED
      BY <1>1, <3>1, EmptySeq, Types DEF Reached, QueueType, Boundary
  <2>2. PICK p \in StableSorts(Candidates(t)) :
          init = [plan |-> p, first |-> 0, live |-> FALSE]
    BY <1>4 DEF Initialized
  <2>3. /\ Synced \in Plan /\ Sorted(Synced) /\ Names(Synced) = Names(plan)
    <3>1. /\ Synced \in Plan /\ Sorted(Synced) /\ Len(Synced) = Len(plan)
          /\ \A i \in 1 .. Len(plan) : Synced[i].name = plan[i].name
      BY Types, SyncedIs DEF IInv, PlanShape
    <3>2. plan \in Plan
      BY Types DEF PlanType
    <3>3. Names(Synced) = Names(plan)
      BY <3>1, <3>2, EqualNames
    <3>4. QED
      BY <3>1, <3>3
  <2> DEFINE old == CompactPlan(Synced, t)
             new == Incoming(t)
  <2>4. old \in Plan /\ Names(old) = {n \in Names(plan) : End[n] > t}
    BY <1>1, <2>3, CompactPlanIs, CompactNames
  <2>5. \A i \in DOMAIN new : StartsAtOrAfter(new[i].win, t)
    BY <1>4 DEF Accepted
  <2>6. /\ new \in Plan /\ Names(new) = FileEntries(t)
        /\ \A n \in Names(new) : End[n] > t
    BY <1>1, <2>5, IncomingIs, IncomingNames
  <2>7. Candidates(t) = old \o new
    BY DEF Candidates
  <2> HIDE DEF old, new
  <2>8. /\ Candidates(t) \in Plan
        /\ Names(Candidates(t)) = Names(old) \cup Names(new)
    BY <2>4, <2>6, <2>7, ConcatNames DEF Plan
  <2>9. Names(p) = Names(old) \cup Names(new)
    BY <2>8, SortNames
  <2>10. \A n \in Names(p) : End[n] > t
    BY <2>4, <2>6, <2>9
  <2>11. QED
    BY <1>1, <1>2, <1>4, <2>1, <2>2, <2>4, <2>6, <2>9, <2>10
<1>5. QED
  BY <1>3, <1>4
-----------------------------------------------------------------------------
(* Emission is preserved.                                                  *)

\* Emission needs nothing of the accumulators, and survives steps that leave
\* plan, queue and writer alone.
LEMMA EmissionFrame ==
  ASSUME IInv, Emission, phase' # "down",
         ~Draining' => drained' = 0,
         position' = position, Len(plan') = Len(plan), first' = first,
         \A i \in 1 .. Len(plan) : plan'[i].name = plan[i].name,
         UseCuda' = UseCuda, pending' = pending, detached' = detached,
         drained' = drained, UNCHANGED writerVars
  PROVE  Emission'
PROOF
<1>1. Writer' = Writer
  BY DEF writerVars, Writer
<1>2. Names(Held(Writer))' = Names(Held(Writer)) /\ WriterOnce(Writer)'
  BY <1>1 DEF Emission
<1>3. Ahead'
  BY DEF Emission, Ahead
<1>4. Batches'
  BY <1>2 DEF Emission, Batches
<1>5. QED
  BY <1>2, <1>3, <1>4 DEF Emission

\* What Emission says of a process that is gone.
LEMMA GoneEmission ==
  ASSUME Gone, FilesOnce(science'),
         science' \in [OutputFile -> Seq(Complete)]
  PROVE  Emission'
PROOF
<1>1. /\ phase' = "down" /\ plan' = <<>> /\ pending' = <<>> /\ detached' = <<>>
      /\ drained' = 0 /\ outPath' = NoFile /\ staged' = <<>>
      /\ created' = FALSE /\ prevInput' = NoFile
  BY DEF Gone
<1>2. Len(plan') = 0 /\ Len(pending') = 0 /\ Len(detached') = 0
  BY <1>1, EmptySeq
<1>3. Writer'.staged = <<>> /\ Writer'.created = FALSE /\ Writer'.disk = science'
  BY <1>1 DEF Writer
<1> DEFINE w == Writer'
<1>4. Held(w) = <<>>
  <2>1. w.staged = <<>> /\ ~w.created
    BY <1>3
  <2> HIDE DEF w
  <2>2. InFile(w) = <<>>
    BY <2>1 DEF InFile
  <2>3. <<>> \o <<>> = <<>>
    BY EmptySeq, ConcatEmptySeq
  <2>4. QED
    BY <2>1, <2>2, <2>3 DEF Held
<1>5. WriterOnce(w)
  BY <1>3, <1>4, EmptyNames DEF WriterOnce
<1>6. Names(Held(w)) = {}
  BY <1>4, EmptyNames
<1>7. Ahead'
  BY <1>2 DEF Ahead
<1>8. Batches'
  BY <1>1, <1>2 DEF Batches
<1>9. QED
  BY <1>1, <1>5, <1>6, <1>7, <1>8 DEF Emission

\* What writing a batch to the file of a path does to the manager's writer.
LEMMA EmitStep ==
  ASSUME IInv, Emission, NEW path \in OutputFile,
         NEW batch \in Seq(Complete), Distinct(batch),
         Names(batch) \cap Names(Held(Writer)) = {},
         \A n \in Names(batch) : Place(n) = path,
         NEW w \in Written(SelectPath(Writer, path), batch), SetWriter(w)
  PROVE  /\ Writer' = w /\ WriterOnce(w) /\ outPath' = path
         /\ Names(Held(w)) \subseteq Names(Held(Writer)) \cup Names(batch)
         /\ \A n \in Names(batch) : Safe(w, n)
         /\ \A n : Safe(Writer, n) /\ (path # outPath => Place(n) # path)
                     => Safe(w, n)
PROOF
<1>1. Writer \in GoodWriter /\ WriterOnce(Writer) /\ Writer.path = outPath
  BY Types, WriterIsGood DEF IInv, Emission, Writer
<1> DEFINE v == Writer
<1>2. v \in GoodWriter /\ WriterOnce(v) /\ v.path = outPath
  BY <1>1
<1>3. w \in Written(SelectPath(v, path), batch) /\ Names(batch) \cap Names(Held(v)) = {}
  OBVIOUS
<1> HIDE DEF v
<1>4. /\ w \in GoodWriter /\ WriterOnce(w) /\ w.path = path
      /\ Names(Held(w)) \subseteq Names(Held(v)) \cup Names(batch)
      /\ \A n \in Names(batch) : Safe(w, n)
      /\ \A n : Safe(v, n) /\ (path # v.path => Place(n) # path) => Safe(w, n)
  BY <1>2, <1>3, EmitIs
<1>5. Writer' = w /\ outPath' = path
  BY <1>4 DEF SetWriter, Writer, GoodWriter
<1>6. QED
  BY <1>2, <1>4, <1>5 DEF v

\* Sampling a step writes a batch of what ends with it, and nothing else.
LEMMA SampleBatch ==
  ASSUME IInv, Emission, Sample
  PROVE  \E init \in Initialized(current), batch \in Seq(Complete) :
           /\ Names(plan') = Names(init.plan)
           /\ \A i \in 1 .. Len(plan') :
                i > first' => End[plan'[i].name] > current + 1
           /\ Distinct(batch) /\ Names(batch) \cap Names(Held(Writer)) = {}
           /\ OutPath[current] \in OutputFile
           /\ \A n \in Names(batch) : Place(n) = OutPath[current]
           /\ Names(batch) = {e \in Names(init.plan) : End[e] = current + 1}
           /\ \E w \in Written(SelectPath(Writer, OutPath[current]), batch) :
                SetWriter(w)
PROOF
<1> DEFINE t == current
<1>1. /\ phase = "running" /\ ~UseCuda /\ t < stop /\ position = t /\ Accepted(t)
  BY DEF Sample
<1>2. PICK init \in Initialized(t) :
        /\ \E w \in Written(SelectPath(Writer, OutputPath(t)),
                      CompletedBatch(SamplePlan(init.plan, init.first, t),
                                     init.first,
                                     CompletedPrefix(init.plan, t + 1))) :
             SetWriter(w)
        /\ plan' = SamplePlan(init.plan, init.first, t)
        /\ first' = Later(init.first, CompletedPrefix(init.plan, t + 1))
  BY DEF Sample
<1> DEFINE complete == CompletedPrefix(init.plan, t + 1)
           sampled == SamplePlan(init.plan, init.first, t)
           batch == CompletedBatch(sampled, init.first, complete)
<1>4. t \in Step /\ t \in Int
  BY <1>1, InitializedNames
<1>5. /\ init.plan \in Plan /\ Sorted(init.plan)
      /\ init.first \in 0 .. Len(init.plan) /\ Len(init.plan) \in Nat
      /\ complete \in 0 .. Len(init.plan)
      /\ \A i \in 1 .. complete : End[init.plan[i].name] <= t + 1
      /\ sampled \in Plan /\ Len(sampled) = Len(init.plan)
      /\ \A i \in 1 .. Len(init.plan) : sampled[i].name = init.plan[i].name
      /\ UniqueIds(sampled)
      /\ batch \in Seq(Complete)
  BY <1>1, SampleIs
<1>6. \A i \in 1 .. Len(init.plan) :
        /\ i > init.first => End[init.plan[i].name] > t
        /\ i > complete => End[init.plan[i].name] > t + 1
        /\ End[init.plan[i].name] \in Int
        /\ i <= init.first => End[init.plan[i].name] <= t
  <2>1. ASSUME NEW i \in 1 .. Len(init.plan), i > init.first
        PROVE  End[init.plan[i].name] > t
    <3>1. CASE init = [plan |-> plan, first |-> first, live |-> device.live]
      BY <1>1, <2>1, <3>1 DEF Emission, Ahead
    <3>2. CASE \A n \in Names(init.plan) : End[n] > t
      BY <1>5, <2>1, <3>2, PlanNames
    <3>3. QED
      BY <1>1, <3>1, <3>2, InitializedNames
  <2>2. ASSUME NEW i \in 1 .. Len(init.plan)
        PROVE  /\ i > complete => End[init.plan[i].name] > t + 1
               /\ End[init.plan[i].name] \in Int
    <3>1. t + 1 \in Int
      BY <1>4
    <3>2. i <= complete <=> End[init.plan[i].name] <= t + 1
      BY <1>5, <3>1, CompletedPrefixSplits
    <3>3. End[init.plan[i].name] \in Int
      BY <1>5, PlanElement
    <3> HIDE DEF complete
    <3>4. QED
      BY <1>4, <1>5, <3>2, <3>3
  <2>3. ASSUME NEW i \in 1 .. Len(init.plan), i <= init.first
        PROVE  End[init.plan[i].name] <= t
    <3>1. CASE init = [plan |-> plan, first |-> first, live |-> device.live]
      <4>1. first \in Nat
        BY Types DEF QueueType
      <4>2. i \in 1 .. first
        BY <2>3, <3>1, <4>1
      <4>3. QED
        BY <1>1, <3>1, <4>2 DEF IInv, PlanShape
    <3>2. CASE init.first = 0
      BY <2>3, <3>2
    <3>3. QED
      BY <1>1, <3>1, <3>2, InitializedNames
  <2>4. QED
    BY <2>1, <2>2, <2>3
<1> HIDE DEF complete, sampled
<1>7. /\ Distinct(batch)
      /\ \A n \in Names(batch) : End[n] = t + 1 /\ n \in Names(init.plan)
      /\ \A i \in 1 .. Len(init.plan) : End[init.plan[i].name] = t + 1
           => init.plan[i].name \in Names(batch)
  <2>1. init.first \in Nat /\ complete \in Nat /\ complete <= Len(sampled)
    BY <1>5
  <2>2. /\ Distinct(batch)
        /\ \A n \in Names(batch) : \E i \in 1 .. Len(sampled) :
             init.first < i /\ i <= complete /\ n = sampled[i].name
        /\ \A i \in 1 .. Len(sampled) : init.first < i /\ i <= complete
             => sampled[i].name \in Names(batch)
    BY <1>5, <2>1, BatchNames
  <2> HIDE DEF batch
  <2>3. ASSUME NEW n \in Names(batch)
        PROVE  End[n] = t + 1 /\ n \in Names(init.plan)
    <3>1. PICK i \in 1 .. Len(init.plan) :
            init.first < i /\ i <= complete /\ n = init.plan[i].name
      BY <1>5, <2>2
    <3>2. End[n] > t /\ End[n] <= t + 1 /\ End[n] \in Int
      BY <1>5, <1>6, <3>1
    <3>3. n \in Names(init.plan)
      BY <1>5, <3>1, PlanNames
    <3>4. QED
      BY <1>4, <3>2, <3>3
  <2>4. ASSUME NEW i \in 1 .. Len(init.plan), End[init.plan[i].name] = t + 1
        PROVE  init.plan[i].name \in Names(batch)
    <3>1. ~ (i <= init.first) /\ ~ (i > complete)
      BY <1>4, <1>6, <2>4
    <3>2. init.first < i /\ i <= complete
      BY <2>1, <3>1
    <3>3. QED
      BY <1>5, <2>2, <3>2
  <2>5. QED
    BY <2>2, <2>3, <2>4
<1> HIDE DEF batch
<1>8. PICK w \in Written(SelectPath(Writer, OutputPath(t)), batch) : SetWriter(w)
  BY <1>2 DEF batch, sampled, complete
<1>9. /\ OutputPath(t) \in OutputFile /\ OutputPath(t) = OutPath[t]
      /\ Names(batch) \cap Names(Held(Writer)) = {}
      /\ \A n \in Names(batch) : Place(n) = OutputPath(t)
  <2>1. OutputPath(t) \in OutputFile /\ OutputPath(t) = OutPath[t]
    BY <1>4, PathAssumption DEF OutputPath
  <2>2. Names(batch) \cap Names(Held(Writer)) = {}
    <3>1. \A h \in Names(Held(Writer)) : End[h] <= t
      BY <1>1 DEF Emission
    <3>2. \A n \in Names(batch) : End[n] > t
      BY <1>4, <1>7
    <3>3. \A h \in Names(Held(Writer)) : ~ (End[h] > t)
      <4>1. \A h \in Names(Held(Writer)) : h \in Entry
        <5>1. Held(Writer) \in Seq(Complete)
          BY Types, WriterIsGood, HeldIs DEF IInv, Emission
        <5>2. QED
          BY <5>1, LenProperties, ElementOfSeq DEF Names, Complete, Record
      <4>2. QED
        BY <1>4, <3>1, <4>1, EntryAssumption
    <3>4. QED
      BY <3>2, <3>3
  <2>3. \A n \in Names(batch) : Place(n) = OutputPath(t)
    <3>1. ASSUME NEW n \in Names(batch) PROVE Place(n) = OutputPath(t)
      <4>1. End[n] - 1 = t
        BY <1>4, <1>7
      <4>2. QED
        BY <2>1, <4>1 DEF Place
    <3>2. QED
      BY <3>1
  <2>4. QED
    BY <2>1, <2>2, <2>3
<1>10. plan' = sampled /\ first' = Later(init.first, complete)
  BY <1>2 DEF sampled, complete
<1>11. ASSUME NEW i \in 1 .. Len(plan'), i > first'
       PROVE  End[plan'[i].name] > t + 1
  <2>1. i \in 1 .. Len(init.plan) /\ i > complete
        /\ plan'[i].name = init.plan[i].name
    BY <1>5, <1>10, <1>11 DEF Later
  <2>2. QED
    BY <1>6, <2>1
<1>12. Names(plan') = Names(init.plan)
  BY <1>5, <1>10, EqualNames
<1>13. batch \in Seq(Complete)
  BY <1>5
<1>14. Names(batch) = {e \in Names(init.plan) : End[e] = t + 1}
  <2>1. Names(batch) \subseteq Names(init.plan)
    BY <1>7
  <2>2. QED
    BY <1>5, <1>7, <2>1, PlanNames
<1>15. QED
  BY <1>7, <1>8, <1>9, <1>11, <1>12, <1>13, <1>14

\* ... so that what ended is safe, and what was safe stays so.
LEMMA SampleWrites ==
  ASSUME IInv, Emission, Sample
  PROVE  /\ WriterOnce(Writer') /\ outPath' = OutPath[current]
         /\ \A h \in Names(Held(Writer')) : End[h] <= current + 1
         /\ \A i \in 1 .. Len(plan') :
              i > first' => End[plan'[i].name] > current + 1
         /\ \A e : Safe(Writer, e) /\ (OutPath[current] # outPath => Place(e) # OutPath[current])
                    => Safe(Writer', e)
         /\ \E init \in Initialized(current) :
              /\ Names(plan') = Names(init.plan)
              /\ \A e \in Names(init.plan) :
                   End[e] = current + 1 => Safe(Writer', e)
PROOF
<1> DEFINE t == current
<1>1. phase = "running" /\ t < stop /\ position = t /\ Accepted(t)
  BY DEF Sample
<1>2. PICK init \in Initialized(t), batch \in Seq(Complete) :
        /\ Names(plan') = Names(init.plan)
        /\ \A i \in 1 .. Len(plan') : i > first' => End[plan'[i].name] > t + 1
        /\ Distinct(batch) /\ Names(batch) \cap Names(Held(Writer)) = {}
        /\ OutPath[t] \in OutputFile
        /\ \A n \in Names(batch) : Place(n) = OutPath[t]
        /\ Names(batch) = {e \in Names(init.plan) : End[e] = t + 1}
        /\ \E w \in Written(SelectPath(Writer, OutPath[t]), batch) : SetWriter(w)
  BY SampleBatch
<1>3. PICK w \in Written(SelectPath(Writer, OutPath[t]), batch) : SetWriter(w)
  BY <1>2
<1>4. t \in Int
  BY <1>1, InitializedNames
<1>5. /\ Writer' = w /\ WriterOnce(w) /\ outPath' = OutPath[t]
      /\ Names(Held(w)) \subseteq Names(Held(Writer)) \cup Names(batch)
      /\ \A n \in Names(batch) : Safe(w, n)
      /\ \A e : Safe(Writer, e) /\ (OutPath[t] # outPath => Place(e) # OutPath[t])
                   => Safe(w, e)
  BY <1>2, <1>3, EmitStep
<1>6. \A h \in Names(Held(w)) : End[h] <= t + 1
  <2> SUFFICES ASSUME NEW h \in Names(Held(w)) PROVE End[h] <= t + 1
    OBVIOUS
  <2>1. CASE h \in Names(batch)
    BY <1>2, <1>4, <2>1
  <2>2. CASE h \in Names(Held(Writer))
    <3>1. End[h] <= t
      BY <1>1, <2>2 DEF Emission
    <3>2. h \in Entry
      <4>1. Held(Writer) \in Seq(Complete)
        BY Types, WriterIsGood, HeldIs DEF IInv, Emission
      <4>2. QED
        BY <2>2, <4>1, LenProperties, ElementOfSeq DEF Names, Complete, Record
    <3>3. End[h] \in Int
      BY <3>2, EntryAssumption
    <3>4. QED
      BY <1>4, <3>1, <3>3
  <2>3. QED
    BY <1>5, <2>1, <2>2
<1>7. \A e \in Names(init.plan) : End[e] = t + 1 => Safe(w, e)
  BY <1>2, <1>5
<1>8. QED
  BY <1>2, <1>5, <1>6, <1>7

LEMMA SampleEmission ==
  ASSUME IInv, Emission, Sample
  PROVE  Emission'
PROOF
<1>1. /\ phase = "running" /\ ~UseCuda /\ phase' = "sampled"
      /\ position' = current + 1 /\ UseCuda' = UseCuda
      /\ pending' = pending /\ detached' = detached /\ drained' = drained
  BY DEF Sample, cudaVars, runVars, UseCuda
<1>2. pending = <<>> /\ Len(pending) = 0 /\ detached = <<>> /\ Len(detached) = 0
      /\ drained = 0
  BY <1>1, EmptySeq DEF IInv, Control, Emission, Batches, Draining
<1>3. /\ WriterOnce(Writer)'
      /\ \A h \in Names(Held(Writer))' : End[h] <= position'
  BY <1>1, SampleWrites
<1>4. Ahead'
  BY <1>1, <1>2, SampleWrites DEF Ahead
<1>5. Batches'
  BY <1>1, <1>2 DEF Batches, Draining
<1>6. QED
  BY <1>1, <1>3, <1>4, <1>5 DEF Emission

\* Records name entries.
LEMMA CompleteNames ==
  ASSUME NEW s \in Seq(Complete)
  PROVE  Names(s) \subseteq Entry
PROOF
<1>1. DOMAIN s = 1 .. Len(s) /\ \A i \in 1 .. Len(s) : s[i] \in Complete
  BY LenProperties, ElementOfSeq
<1>2. \A r \in Complete : r.name \in Entry
  BY DEF Complete, Record
<1>3. QED
  BY <1>1, <1>2 DEF Names

\* What the writer holds are entries.
LEMMA HeldEntry ==
  ASSUME IInv, Emission, NEW h \in Names(Held(Writer))
  PROVE  h \in Entry /\ End[h] \in Int /\ End[h] <= position
PROOF
<1>1. Held(Writer) \in Seq(Complete)
  BY Types, WriterIsGood, HeldIs DEF IInv, Emission
<1>2. h \in Entry
  BY <1>1, LenProperties, ElementOfSeq DEF Names, Complete, Record
<1>3. QED
  BY <1>2, EntryAssumption DEF Emission

\* A writer that has nothing open holds nothing.
LEMMA HeldNothing ==
  ASSUME NEW w, w.staged = <<>>, ~w.created
  PROVE  Held(w) = <<>>
PROOF
<1>1. InFile(w) = <<>>
  BY DEF InFile
<1>2. <<>> \o <<>> = <<>>
  BY EmptySeq, ConcatEmptySeq
<1>3. QED
  BY <1>1, <1>2 DEF Held

LEMMA InitEmission == Init => Emission
PROOF
<1> SUFFICES ASSUME Init PROVE Emission
  OBVIOUS
<1>1. /\ phase = "down" /\ plan = <<>> /\ pending = <<>> /\ detached = <<>>
      /\ drained = 0 /\ outPath = NoFile /\ staged = <<>> /\ created = FALSE
      /\ prevInput = NoFile /\ science = [f \in OutputFile |-> <<>>]
  BY DEF Init
<1>2. Len(plan) = 0 /\ Len(pending) = 0 /\ Len(detached) = 0
  BY <1>1, EmptySeq
<1> DEFINE w == Writer
<1>3. w.staged = <<>> /\ ~w.created /\ w.disk = [f \in OutputFile |-> <<>>]
  BY <1>1 DEF Writer
<1> HIDE DEF w
<1>4. Held(w) = <<>>
  BY <1>3, HeldNothing
<1>5. WriterOnce(w)
  BY <1>3, <1>4, EmptyNames DEF WriterOnce, FilesOnce
<1>6. Names(Held(w)) = {}
  BY <1>4, EmptyNames
<1>7. Ahead
  BY <1>2 DEF Ahead
<1>8. Batches
  BY <1>1, <1>2 DEF Batches
<1>9. QED
  BY <1>1, <1>5, <1>6, <1>7, <1>8 DEF Emission, w

LEMMA OpenEmission ==
  ASSUME IInv, Emission, NEW t \in Boundary, NEW end \in Boundary, Open(t, end)
  PROVE  Emission'
PROOF
<1>1. /\ phase = "down" /\ phase' = "running"
      /\ position' = t /\ plan' = restarts[t].plan /\ first' = first
      /\ pending' = pending /\ detached' = detached /\ drained' = drained
      /\ UNCHANGED writerVars
  BY DEF Open, cudaVars
<1>2. /\ first = 0 /\ pending = <<>> /\ detached = <<>> /\ staged = <<>>
      /\ ~created /\ drained = 0
  BY <1>1 DEF IInv, Control, Emission, Batches, Draining
<1>3. Len(pending) = 0 /\ Len(detached) = 0
  BY <1>2, EmptySeq
<1>4. Writer' = Writer
  BY <1>1 DEF writerVars, Writer
<1>5. Held(Writer) = <<>>
  BY <1>2, HeldNothing DEF Writer
<1>6. Names(Held(Writer))' = {} /\ WriterOnce(Writer)'
  BY <1>4, <1>5, EmptyNames DEF Emission
<1>7. \A i \in 1 .. Len(plan') : End[plan'[i].name] > t
  <2>1. CASE restarts[t].written
    <3>1. restarts[t].plan \in Plan
      BY Types
    <3>2. DOMAIN plan' = 1 .. Len(plan')
      BY <1>1, <3>1, PlanElement
    <3>3. QED
      BY <1>1, <2>1, <3>2 DEF IInv, Restarts, RestartIsRemainder, IsRemainder
  <2>2. CASE ~restarts[t].written
    <3>1. plan' = <<>>
      BY <1>1, <2>2 DEF IInv, Restarts
    <3>2. QED
      BY <3>1, EmptySeq
  <2>3. QED
    BY <2>1, <2>2
<1>8. Ahead'
  BY <1>1, <1>3, <1>7 DEF Ahead
<1>9. Batches'
  BY <1>1, <1>2, <1>3 DEF Batches
<1>10. QED
  BY <1>1, <1>6, <1>8, <1>9 DEF Emission

\* The steps of the run loop alone.
LEMMA LoopEmission ==
  ASSUME IInv, Emission, phase' # "down", ~Draining' => drained = 0,
         UNCHANGED <<runVars, planVars, writerVars, cudaVars>>
  PROVE  Emission'
PROOF
<1>1. /\ position' = position /\ plan' = plan /\ first' = first
      /\ pending' = pending /\ detached' = detached /\ drained' = drained
      /\ UseCuda' = UseCuda
  BY DEF planVars, cudaVars, runVars, UseCuda
<1>2. QED
  BY <1>1, EmissionFrame

LEMMA DetachRaisesEmission ==
  ASSUME IInv, Emission, DetachRaises
  PROVE  Emission'
PROOF
<1>1. /\ phase = "detach" /\ phase' = "unwinding" /\ plan' = Synced
      /\ position' = position /\ first' = first
      /\ pending' = pending /\ detached' = detached /\ drained' = drained
      /\ UNCHANGED writerVars /\ UseCuda' = UseCuda
  BY DEF DetachRaises, cudaVars, runVars, UseCuda
<1>2. /\ Len(plan') = Len(plan)
      /\ \A i \in 1 .. Len(plan) : plan'[i].name = plan[i].name
  BY <1>1, Types, SyncedIs DEF PlanType
<1>3. drained = 0
  BY <1>1 DEF Emission, Batches, Draining
<1>4. QED
  BY <1>1, <1>2, <1>3, EmissionFrame

\* Queueing a step: its completed prefix is exact for the plan it installs.
LEMMA LaunchEmission ==
  ASSUME IInv, Emission, Launch
  PROVE  Emission'
PROOF
<1> DEFINE t == current
           n == Len(pending)
<1>1. /\ phase = "running" /\ UseCuda /\ t < stop /\ Accepted(t)
      /\ phase' = "launched" /\ position' = position
      /\ detached' = detached /\ drained' = drained
      /\ UNCHANGED writerVars /\ UseCuda' = UseCuda
  BY DEF Launch, runVars, UseCuda
<1>2. PICK init \in Initialized(t) :
        /\ plan' = init.plan
        /\ first' = init.first
        /\ pending' = Append(pending,
             [step |-> t, path |-> OutputPath(t),
              prefix |-> CompletedPrefix(init.plan, t + 1)])
  BY DEF Launch
<1> DEFINE complete == CompletedPrefix(init.plan, t + 1)
<1>3. /\ t = position + n /\ n \in Nat /\ position \in Int /\ t \in Int /\ t \in Step
  BY <1>1, Types, InitializedNames DEF Reached, QueueType, Boundary
<1>4. /\ init.plan \in Plan /\ Sorted(init.plan)
      /\ \/ /\ init.first = 0 /\ pending = <<>> /\ t = position
            /\ \A m \in Names(init.plan) : End[m] > t
         \/ init = [plan |-> plan, first |-> first, live |-> device.live]
  BY <1>1, InitializedNames
<1>5. /\ Len(init.plan) \in Nat
      /\ \A i \in 1 .. Len(init.plan) : End[init.plan[i].name] \in Int
                                        /\ init.plan[i].name \in Names(init.plan)
  BY <1>4, PlanElement, PlanNames
<1>6. \A i \in 1 .. Len(init.plan) :
        i > first' => End[init.plan[i].name] > position
  <2>1. CASE \A m \in Names(init.plan) : End[m] > t
    BY <1>3, <1>4, <1>5, <2>1
  <2>2. CASE init = [plan |-> plan, first |-> first, live |-> device.live]
    BY <1>2, <2>2 DEF Emission, Ahead
  <2>3. QED
    BY <1>4, <2>1, <2>2
<1>7. complete \in Nat
      /\ \A i \in 1 .. Len(init.plan) : i > complete => End[init.plan[i].name] > t + 1
  <2>1. t + 1 \in Int
    BY <1>3
  <2>2. complete \in 0 .. Len(init.plan)
    BY <1>4, <2>1, CompletedPrefixIs
  <2>3. ASSUME NEW i \in 1 .. Len(init.plan)
        PROVE  i <= complete <=> End[init.plan[i].name] <= t + 1
    BY <1>4, <2>1, CompletedPrefixSplits
  <2> HIDE DEF complete
  <2>4. QED
    BY <1>3, <1>5, <2>2, <2>3
<1> DEFINE new == [step |-> t, path |-> OutputPath(t), prefix |-> complete]
           Queued == [step : Step, prefix : Nat, path : OutputFile]
<1>8. /\ Len(pending') = n + 1
      /\ pending'[n + 1] = new
      /\ \A k \in 1 .. n : pending'[k] = pending[k]
  <2>1. new \in Queued
    BY <1>3, <1>7, PathAssumption DEF OutputPath
  <2>2. pending \in Seq(Queued)
    BY Types DEF QueueType
  <2>3. pending' = Append(pending, new)
    BY <1>2
  <2> HIDE DEF new, Queued
  <2>4. QED
    BY <2>1, <2>2, <2>3, AppendProperties
<1>9. new.step = t /\ new.path = OutPath[t] /\ new.prefix = complete
  BY DEF OutputPath
<1> HIDE DEF new, complete
<1>10. ASSUME NEW k \in 1 .. n + 1
       PROVE  /\ pending'[k].path = OutPath[pending'[k].step]
              /\ \A i \in 1 .. Len(init.plan) :
                   i > pending'[k].prefix => End[init.plan[i].name] > position + k
  <2>1. CASE k = n + 1
    <3>1. t + 1 = position + k
      BY <1>3, <2>1
    <3>2. QED
      BY <1>7, <1>8, <1>9, <2>1, <3>1
  <2>2. CASE k \in 1 .. n
    <3>1. n # 0
      BY <1>3, <2>2
    <3>2. init.plan = plan
      BY <1>4, <3>1, EmptySeq
    <3>3. pending'[k] = pending[k]
      BY <1>8, <2>2
    <3>4. QED
      BY <2>2, <3>2, <3>3 DEF Emission, Ahead
  <2>3. QED
    BY <1>3, <2>1, <2>2
<1>11. Ahead'
  BY <1>1, <1>2, <1>6, <1>8, <1>10 DEF Ahead
<1>12. Writer' = Writer
  BY <1>1 DEF writerVars, Writer
<1>13. Names(Held(Writer))' = Names(Held(Writer)) /\ WriterOnce(Writer)'
  BY <1>12 DEF Emission
<1>14. Batches'
  BY <1>1, <1>13 DEF Emission, Batches, Draining
<1>15. QED
  BY <1>1, <1>11, <1>13, <1>14 DEF Emission

\* Draining writes one detached batch, into the file of its step.
LEMMA DrainBatch ==
  ASSUME IInv, Emission, DrainOne
  PROVE  LET out == detached[drained + 1]
         IN  /\ drained \in Nat /\ drained + 1 \in 1 .. Len(detached)
             /\ \A m \in 1 .. Len(detached) : Names(detached[m].batch) \subseteq Entry
             /\ out.path \in OutputFile /\ out.batch \in Seq(Complete)
             /\ Distinct(out.batch) /\ Names(out.batch) \cap Names(Held(Writer)) = {}
             /\ \A n \in Names(out.batch) : Place(n) = out.path
             /\ \E w \in IF out.batch = <<>> THEN {Writer}
                         ELSE Written(SelectPath(Writer, out.path), out.batch) :
                  SetWriter(w)
PROOF
<1> DEFINE out == detached[drained + 1]
           k == drained + 1
<1>1. drained < Len(detached)
  BY DEF DrainOne
<1>2. PICK w \in IF out.batch = <<>> THEN {Writer}
                 ELSE Written(SelectPath(Writer, out.path), out.batch) :
        SetWriter(w)
  BY DEF DrainOne
<1>3. drained \in Nat /\ Len(detached) \in Nat /\ k \in 1 .. Len(detached)
  BY <1>1, Types, LenProperties DEF DetachedType
<1>4. \A m \in 1 .. Len(detached) :
        detached[m].path \in OutputFile /\ detached[m].batch \in Seq(Complete)
  <2>1. detached \in Seq(Outputs)
    BY Types, WriterIsGood DEF IInv
  <2>2. \A m \in 1 .. Len(detached) : detached[m] \in Outputs
    BY <2>1, ElementOfSeq
  <2>3. QED
    BY <2>2 DEF Outputs
<1>5. \A m \in 1 .. Len(detached) : Names(detached[m].batch) \subseteq Entry
  BY <1>4, CompleteNames
<1>6. /\ Distinct(out.batch)
      /\ \A n \in Names(out.batch) :
           /\ out.path = Place(n) /\ End[n] <= position /\ End[n] \in Int
           /\ \A h \in Names(Held(Writer)) : End[h] < End[n]
  <2>1. k > drained
    BY <1>3
  <2>2. \A n \in Names(out.batch) : End[n] \in Int
    BY <1>3, <1>5, EntryAssumption
  <2>3. QED
    BY <1>3, <2>1, <2>2 DEF Emission, Batches
<1>7. out.path \in OutputFile /\ out.batch \in Seq(Complete)
  BY <1>3, <1>4
<1>8. Names(out.batch) \cap Names(Held(Writer)) = {}
  <2>1. \A h \in Names(Held(Writer)) : ~ (End[h] < End[h])
    BY HeldEntry
  <2>2. QED
    BY <1>6, <2>1
<1>9. QED
  BY <1>2, <1>3, <1>5, <1>6, <1>7, <1>8

\* The next detached output is written: it ends after all that is held, and
\* before what is left.
LEMMA DrainWrites ==
  ASSUME IInv, Emission, DrainOne
  PROVE  LET out == detached[drained + 1]
         IN  /\ drained \in Nat /\ drained + 1 \in 1 .. Len(detached)
             /\ WriterOnce(Writer')
             /\ Names(Held(Writer'))
                  \subseteq Names(Held(Writer)) \cup Names(out.batch)
             /\ \A m \in 1 .. Len(detached) : Names(detached[m].batch) \subseteq Entry
             /\ \/ out.batch = <<>> /\ Writer' = Writer
                \/ /\ out.batch # <<>>
                   /\ out.path \in OutputFile /\ out.batch \in Seq(Complete)
                   /\ outPath' = out.path
                   /\ \A n \in Names(out.batch) : Safe(Writer', n)
                   /\ \A e : Safe(Writer, e) /\ (out.path # outPath => Place(e) # out.path)
                              => Safe(Writer', e)
PROOF
<1> DEFINE out == detached[drained + 1]
<1>1. /\ drained \in Nat /\ drained + 1 \in 1 .. Len(detached)
      /\ \A m \in 1 .. Len(detached) : Names(detached[m].batch) \subseteq Entry
      /\ out.path \in OutputFile /\ out.batch \in Seq(Complete)
      /\ Distinct(out.batch) /\ Names(out.batch) \cap Names(Held(Writer)) = {}
      /\ \A n \in Names(out.batch) : Place(n) = out.path
      /\ \E w \in IF out.batch = <<>> THEN {Writer}
                  ELSE Written(SelectPath(Writer, out.path), out.batch) :
           SetWriter(w)
  BY DrainBatch
<1> HIDE DEF out
<1>2. PICK w \in IF out.batch = <<>> THEN {Writer}
                 ELSE Written(SelectPath(Writer, out.path), out.batch) :
        SetWriter(w)
  BY <1>1
<1>4. /\ Writer' = w /\ WriterOnce(w)
      /\ Names(Held(w)) \subseteq Names(Held(Writer)) \cup Names(out.batch)
      /\ \/ out.batch = <<>> /\ w = Writer
         \/ /\ out.batch # <<>> /\ outPath' = out.path
            /\ \A n \in Names(out.batch) : Safe(w, n)
            /\ \A e : Safe(Writer, e) /\ (out.path # outPath => Place(e) # out.path)
                         => Safe(w, e)
  <2>1. CASE out.batch = <<>>
    <3>1. w = Writer
      BY <1>2, <2>1
    <3>2. Writer' = Writer
      BY <1>2, <3>1 DEF SetWriter, Writer
    <3>3. QED
      BY <2>1, <3>1, <3>2 DEF Emission
  <2>2. CASE out.batch # <<>>
    <3>1. w \in Written(SelectPath(Writer, out.path), out.batch)
      BY <1>2, <2>2
    <3>2. QED
      BY <1>1, <1>2, <2>2, <3>1, EmitStep
  <2>3. QED
    BY <2>1, <2>2
<1>5. QED
  BY <1>1, <1>4 DEF out

LEMMA DrainOneEmission ==
  ASSUME IInv, Emission, DrainOne
  PROVE  Emission'
PROOF
<1> DEFINE out == detached[drained + 1]
           k == drained + 1
<1>1. /\ Draining /\ drained' = drained + 1
      /\ phase' = phase /\ phase # "down" /\ UseCuda' = UseCuda
      /\ position' = position /\ plan' = plan /\ first' = first
      /\ pending' = pending /\ detached' = detached
  BY DEF DrainOne, loopVars, planVars, runVars, UseCuda, Draining
<1>2. /\ drained \in Nat /\ k \in 1 .. Len(detached)
      /\ WriterOnce(Writer')
      /\ Names(Held(Writer')) \subseteq Names(Held(Writer)) \cup Names(out.batch)
  BY DrainWrites
<1>3. \A n \in Names(out.batch) :
        /\ End[n] <= position
        /\ \A m \in k + 1 .. Len(detached) :
             \A q \in Names(detached[m].batch) : End[n] < End[q]
  BY <1>2 DEF Emission, Batches
<1> HIDE DEF out
<1>4. \A h \in Names(Held(Writer')) : End[h] <= position
  BY <1>2, <1>3, HeldEntry
<1>5. Ahead'
  BY <1>1 DEF Emission, Ahead
<1>6. ASSUME NEW m \in 1 .. Len(detached), m > k,
             NEW q \in Names(detached[m].batch), NEW h \in Names(Held(Writer'))
      PROVE  End[h] < End[q]
  <2>1. m \in k + 1 .. Len(detached) /\ m > drained
    BY <1>2, <1>6
  <2>2. CASE h \in Names(out.batch)
    BY <1>3, <1>6, <2>1, <2>2
  <2>3. CASE h \in Names(Held(Writer))
    BY <1>6, <2>1, <2>3 DEF Emission, Batches
  <2>4. QED
    BY <1>2, <2>2, <2>3
<1>7. Batches'
  <2>1. Batches
    BY DEF Emission
  <2>2. drained' <= Len(detached') /\ (~Draining' => drained' = 0)
        /\ (~UseCuda' => detached' = <<>>)
    BY <1>1, <1>2, <2>1 DEF Batches, Draining
  <2>3. \A m \in 1 .. Len(detached) :
          /\ Distinct(detached[m].batch)
          /\ \A n \in Names(detached[m].batch) :
               /\ detached[m].path = Place(n) /\ End[n] \in 1 .. position
               /\ \A q \in Names(detached[m].batch) : End[q] = End[n]
               /\ \A j \in m + 1 .. Len(detached) :
                    \A q \in Names(detached[j].batch) : End[n] < End[q]
    BY <2>1 DEF Batches
  <2>4. \A m \in 1 .. Len(detached) : m > drained' => m > k
    BY <1>1
  <2>5. QED
    BY <1>1, <1>6, <2>2, <2>3, <2>4 DEF Batches
<1>8. QED
  BY <1>1, <1>2, <1>4, <1>5, <1>7 DEF Emission

LEMMA DrainDoneEmission ==
  ASSUME IInv, Emission, DrainDone
  PROVE  Emission'
PROOF
<1>1. /\ detached' = <<>> /\ drained' = 0 /\ phase' # "down"
      /\ position' = position /\ plan' = plan /\ first' = first
      /\ pending' = pending /\ UNCHANGED writerVars
  BY DEF DrainDone, planVars
<1>2. Len(detached') = 0
  BY <1>1, EmptySeq
<1>3. Writer' = Writer
  BY <1>1 DEF writerVars, Writer
<1>4. Names(Held(Writer))' = Names(Held(Writer)) /\ WriterOnce(Writer)'
  BY <1>3 DEF Emission
<1>5. Ahead'
  BY <1>1 DEF Emission, Ahead
<1>6. Batches'
  BY <1>1, <1>2 DEF Batches
<1>7. QED
  BY <1>1, <1>4, <1>5, <1>6 DEF Emission

\* The completed prefix noted with a queued step is exact: past the first
\* unexpired entry, what is in it ends by that step and nothing else does.
LEMMA PrefixIs ==
  ASSUME IInv, Emission, NEW k \in 0 .. Len(pending)
  PROVE  /\ Prefix(k) \in 0 .. Len(plan) /\ first <= Prefix(k)
         /\ \A i \in 1 .. Len(plan) :
              i > first => (i <= Prefix(k) <=> End[plan[i].name] <= position + k)
PROOF
<1>1. /\ first \in 0 .. Len(plan) /\ Len(plan) \in Nat /\ Len(pending) \in Nat
      /\ position \in Int
      /\ \A i \in 1 .. Len(plan) : End[plan[i].name] \in Int
  BY Types, PlanElement DEF PlanType, QueueType, Boundary, IInv, PlanShape
<1>2. CASE k = 0
  <2>1. Prefix(k) = first
    BY <1>2 DEF Prefix
  <2>2. \A i \in 1 .. Len(plan) : i > first => End[plan[i].name] > position
    BY DEF Emission, Ahead
  <2>3. QED
    BY <1>1, <1>2, <2>1, <2>2
<1>3. CASE k \in 1 .. Len(pending)
  <2> DEFINE p == pending[k].prefix
  <2>1. p \in Nat
    <3> DEFINE Queued == [step : Step, prefix : Nat, path : OutputFile]
    <3>1. pending \in Seq(Queued)
      BY Types DEF QueueType
    <3> HIDE DEF Queued
    <3>2. pending[k] \in Queued
      BY <1>3, <3>1, ElementOfSeq
    <3>3. QED
      BY <3>2 DEF Queued
  <2>2. /\ p <= Len(plan)
        /\ \A i \in 1 .. p : End[plan[i].name] <= position + k
    BY <1>3 DEF IInv, Queue
  <2>3. \A i \in 1 .. Len(plan) : i > p => End[plan[i].name] > position + k
    BY <1>3 DEF Emission, Ahead
  <2>4. Prefix(k) = IF first >= p THEN first ELSE p
    BY <1>1, <1>3 DEF Prefix, Later
  <2> HIDE DEF p
  <2>5. Prefix(k) \in 0 .. Len(plan) /\ first <= Prefix(k) /\ p <= Prefix(k)
    BY <1>1, <2>1, <2>2, <2>4
  <2>6. ASSUME NEW i \in 1 .. Len(plan), i > first
        PROVE  i <= Prefix(k) <=> End[plan[i].name] <= position + k
    <3>1. CASE i <= p
      BY <1>1, <2>1, <2>2, <2>5, <3>1
    <3>2. CASE i > p
      <4>1. End[plan[i].name] > position + k
        BY <2>3, <3>2
      <4>2. ~ (i <= Prefix(k))
        BY <1>1, <2>1, <2>4, <2>6, <3>2
      <4>3. QED
        BY <1>1, <4>1, <4>2
    <3>3. QED
      BY <2>1, <3>1, <3>2
  <2>7. QED
    BY <2>5, <2>6
<1>4. QED
  BY <1>1, <1>2, <1>3

\* What detaching the queue adds: for each queued step a batch of what ends
\* with it, each entry once.
LEMMA DetachedIs ==
  ASSUME IInv, Emission, pending # <<>>, DetachPending
  PROVE  LET n == Len(pending)
             old == Len(detached)
         IN  /\ n \in Nat /\ old \in Nat /\ position \in Int
             /\ position' = position + n /\ pending' = <<>>
             /\ Len(plan') = Len(plan) /\ Len(plan) \in Nat
             /\ \A i \in 1 .. Len(plan) : plan'[i].name = plan[i].name
             /\ first' = Prefix(n)
             /\ Len(detached') = old + n
             /\ \A m \in 1 .. old : detached'[m] = detached[m]
             /\ \A k \in 1 .. n :
                  /\ Distinct(detached'[old + k].batch)
                  /\ \A x \in Names(detached'[old + k].batch) :
                       /\ detached'[old + k].path = Place(x)
                       /\ End[x] = position + k /\ x \in Names(plan)
                  /\ \A i \in 1 .. Len(plan) :
                       i > first /\ End[plan[i].name] = position + k
                         => plan[i].name \in Names(detached'[old + k].batch)
             /\ \A i \in 1 .. Len(plan) : i > first /\ i <= first' =>
                  \E k \in 1 .. n :
                    plan[i].name \in Names(detached'[old + k].batch)
PROOF
<1> DEFINE n == Len(pending)
           old == Len(detached)
           host == IF DetachSyncs THEN Synced ELSE plan
           more == [k \in 1 .. n |->
                      [path |-> pending[k].path,
                       batch |-> CompletedBatch(host, Prefix(k - 1), Prefix(k))]]
<1>1. /\ n \in Nat /\ old \in Nat /\ position \in Int
      /\ DOMAIN pending = 1 .. n /\ detached \in [1 .. old -> Outputs]
      /\ Len(plan) \in Nat
      /\ \A i \in 1 .. Len(plan) : plan[i].name \in Entry /\ End[plan[i].name] \in Int
  <2>1. detached \in Seq(Outputs)
    BY Types, WriterIsGood DEF IInv
  <2>2. old \in Nat /\ detached \in [1 .. old -> Outputs]
    BY <2>1, LenProperties
  <2>3. /\ n \in Nat /\ DOMAIN pending = 1 .. n /\ position \in Int
    BY Types, LenProperties DEF QueueType, Boundary
  <2>4. /\ Len(plan) \in Nat
        /\ \A i \in 1 .. Len(plan) : plan[i].name \in Entry
                                     /\ End[plan[i].name] \in Int
    BY Types, PlanElement DEF PlanType
  <2>5. QED
    BY <2>2, <2>3, <2>4
<1>2. /\ plan' = host /\ first' = Prefix(n) /\ pending' = <<>>
      /\ detached' = detached \o more
  BY <1>1 DEF DetachPending
<1>3. position' = position + n
  BY QueuedToIs DEF DetachPending, Reached
<1>4. /\ host \in Plan /\ Len(host) = Len(plan) /\ UniqueIds(host)
      /\ \A i \in 1 .. Len(plan) : host[i].name = plan[i].name
  <2>1. /\ plan \in Plan /\ Synced \in Plan /\ Len(Synced) = Len(plan)
        /\ UniqueIds(plan) /\ UniqueIds(Synced)
        /\ \A i \in 1 .. Len(plan) : Synced[i].name = plan[i].name
    BY Types, SyncedIs DEF PlanType, IInv, PlanShape
  <2>2. QED
    BY <2>1
<1>5. /\ Len(detached \o more) = old + n
      /\ \A m \in 1 .. old : (detached \o more)[m] = detached[m]
      /\ \A k \in 1 .. n : (detached \o more)[old + k] = more[k]
  <2> DEFINE S == {detached[m] : m \in 1 .. old} \cup {more[k] : k \in 1 .. n}
  <2>1. more \in [1 .. n -> S]
    OBVIOUS
  <2> HIDE DEF host, more
  <2>2. detached \in [1 .. old -> S]
    BY <1>1
  <2> HIDE DEF S, n, old
  <2>3. detached \in Seq(S) /\ more \in Seq(S)
    BY <1>1, <2>1, <2>2
  <2>4. Len(detached) = old /\ Len(more) = n
    <3>1. DOMAIN more = 1 .. n
      BY <2>1
    <3>2. QED
      BY <1>1, <2>3, <3>1, LenProperties DEF old
  <2>5. /\ Len(detached \o more) = old + n
        /\ \A i \in 1 .. old + n :
             (detached \o more)[i] = IF i <= old THEN detached[i] ELSE more[i - old]
    BY <2>3, <2>4, ConcatProperties
  <2>6. ASSUME NEW m \in 1 .. old PROVE (detached \o more)[m] = detached[m]
    BY <1>1, <2>5
  <2>7. ASSUME NEW k \in 1 .. n PROVE (detached \o more)[old + k] = more[k]
    <3>1. old + k \in 1 .. old + n /\ ~ (old + k <= old) /\ (old + k) - old = k
      BY <1>1
    <3>2. QED
      BY <2>5, <3>1
  <2>8. QED
    BY <2>5, <2>6, <2>7
<1>6. ASSUME NEW k \in 1 .. n
      PROVE  /\ Distinct(more[k].batch)
             /\ \A x \in Names(more[k].batch) :
                  /\ more[k].path = Place(x) /\ End[x] = position + k
                  /\ x \in Names(plan)
             /\ \A i \in 1 .. Len(plan) :
                  i > first /\ End[plan[i].name] = position + k
                    => plan[i].name \in Names(more[k].batch)
  <2> DEFINE a == Prefix(k - 1)
             b == Prefix(k)
  <2>1. k - 1 \in 0 .. n /\ k \in 0 .. n
    BY <1>1
  <2>2. /\ a \in 0 .. Len(plan) /\ first <= a
        /\ \A i \in 1 .. Len(plan) :
             i > first => (i <= a <=> End[plan[i].name] <= position + (k - 1))
    BY <2>1, PrefixIs
  <2>3. /\ b \in 0 .. Len(plan)
        /\ \A i \in 1 .. Len(plan) :
             i > first => (i <= b <=> End[plan[i].name] <= position + k)
    BY <2>1, PrefixIs
  <2>4. /\ more[k].path = pending[k].path
        /\ more[k].batch = CompletedBatch(host, a, b)
    OBVIOUS
  <2> HIDE DEF a, b, host, more
  <2>5. /\ Distinct(more[k].batch)
        /\ \A x \in Names(more[k].batch) :
             \E i \in 1 .. Len(host) : a < i /\ i <= b /\ x = host[i].name
        /\ \A i \in 1 .. Len(host) :
             a < i /\ i <= b => host[i].name \in Names(more[k].batch)
    <3>1. a \in Nat /\ b \in Nat /\ b <= Len(host)
      BY <1>1, <1>4, <2>2, <2>3
    <3>2. QED
      BY <1>4, <2>4, <3>1, BatchNames
  <2>6. first \in Nat
    BY Types DEF QueueType
  <2>7. ASSUME NEW x \in Names(more[k].batch)
        PROVE  /\ more[k].path = Place(x) /\ End[x] = position + k
               /\ x \in Names(plan)
    <3>1. PICK i \in 1 .. Len(plan) : a < i /\ i <= b /\ x = plan[i].name
      BY <1>4, <2>5
    <3>2. i > first /\ ~ (i <= a)
      BY <2>2, <2>6, <3>1
    <3>3. End[x] <= position + k /\ ~ (End[x] <= position + (k - 1)) /\ End[x] \in Int
      BY <1>1, <2>2, <2>3, <3>1, <3>2
    <3>4. End[x] = position + k
      BY <1>1, <3>3
    <3>5. /\ pending[k].path = OutPath[pending[k].step]
          /\ pending[k].step = position + k - 1
      BY DEF IInv, Queue, Emission, Ahead
    <3>6. End[x] - 1 = pending[k].step
      BY <1>1, <3>4, <3>5
    <3>7. Place(x) = OutPath[pending[k].step]
      BY <3>6 DEF Place
    <3>8. x \in Names(plan)
      BY <3>1, PlanNames, Types DEF PlanType
    <3>9. QED
      BY <2>4, <3>4, <3>5, <3>7, <3>8
  <2>8. ASSUME NEW i \in 1 .. Len(plan), i > first,
               End[plan[i].name] = position + k
        PROVE  plan[i].name \in Names(more[k].batch)
    <3>1. /\ End[plan[i].name] <= position + k
          /\ ~ (End[plan[i].name] <= position + (k - 1))
      BY <1>1, <2>8
    <3>2. i <= b /\ ~ (i <= a)
      BY <2>2, <2>3, <2>8, <3>1
    <3>3. a < i
      BY <2>2, <3>2
    <3>4. QED
      BY <1>4, <2>5, <3>2, <3>3
  <2>9. QED
    BY <2>5, <2>7, <2>8
<1> HIDE DEF host, more
<1>7. \A m \in 1 .. old : detached'[m] = detached[m]
  BY <1>2, <1>5
<1>8. \A k \in 1 .. n : detached'[old + k] = more[k]
  BY <1>2, <1>5
<1>9. ASSUME NEW i \in 1 .. Len(plan), i > first, i <= first'
      PROVE  \E k \in 1 .. n : plan[i].name \in Names(detached'[old + k].batch)
  <2> DEFINE k == End[plan[i].name] - position
  <2>1. End[plan[i].name] > position
    BY <1>9 DEF Emission, Ahead
  <2>2. End[plan[i].name] <= position + n
    <3>1. n \in 0 .. n
      BY <1>1
    <3>2. QED
      BY <1>2, <1>9, <3>1, PrefixIs
  <2>3. k \in 1 .. n /\ End[plan[i].name] = position + k
    BY <1>1, <2>1, <2>2
  <2>4. QED
    BY <1>6, <1>8, <1>9, <2>3
<1>10. \A k \in 1 .. n :
         /\ Distinct(detached'[old + k].batch)
         /\ \A x \in Names(detached'[old + k].batch) :
              /\ detached'[old + k].path = Place(x) /\ End[x] = position + k
              /\ x \in Names(plan)
         /\ \A i \in 1 .. Len(plan) :
              i > first /\ End[plan[i].name] = position + k
                => plan[i].name \in Names(detached'[old + k].batch)
  BY <1>6, <1>8
<1>11. /\ Len(plan') = Len(plan) /\ Len(detached') = old + n
       /\ \A i \in 1 .. Len(plan) : plan'[i].name = plan[i].name
  BY <1>2, <1>4, <1>5
<1> HIDE DEF n, old
<1>12. QED
  BY <1>1, <1>2, <1>3, <1>7, <1>9, <1>10, <1>11 DEF n, old

\* Detaching the queue: its batches end after the position it moves from.
LEMMA DetachPendingEmission ==
  ASSUME IInv, Emission, pending # <<>>, DetachPending, UNCHANGED writerVars,
         UseCuda' = UseCuda, drained = 0, drained' = 0, phase' # "down"
  PROVE  Emission'
PROOF
<1> DEFINE n == Len(pending)
           old == Len(detached)
<1>1. /\ n \in Nat /\ old \in Nat /\ position \in Int
      /\ position' = position + n /\ pending' = <<>>
      /\ Len(plan') = Len(plan) /\ Len(plan) \in Nat
      /\ \A i \in 1 .. Len(plan) : plan'[i].name = plan[i].name
      /\ first' = Prefix(n) /\ Len(detached') = old + n
  BY DetachedIs
<1>2. \A m \in 1 .. old : detached'[m] = detached[m]
  BY DetachedIs
<1>3. \A k \in 1 .. n :
        /\ Distinct(detached'[old + k].batch)
        /\ \A x \in Names(detached'[old + k].batch) :
             detached'[old + k].path = Place(x) /\ End[x] = position + k
  BY DetachedIs
<1>4. UseCuda
  BY DEF IInv, Control
<1>5. Writer' = Writer
  BY DEF writerVars, Writer
<1>6. Names(Held(Writer))' = Names(Held(Writer)) /\ WriterOnce(Writer)'
  BY <1>5 DEF Emission
<1>7. \A h \in Names(Held(Writer)) : End[h] \in Int /\ End[h] <= position
  BY HeldEntry
<1>8. Ahead'
  <2>1. n \in 0 .. n
    BY <1>1
  <2>2. /\ Prefix(n) \in 0 .. Len(plan) /\ first <= Prefix(n)
        /\ \A i \in 1 .. Len(plan) :
             i > first => (i <= Prefix(n) <=> End[plan[i].name] <= position + n)
    BY <2>1, PrefixIs
  <2>3. first \in Nat /\ \A i \in 1 .. Len(plan) : End[plan[i].name] \in Int
    BY Types, PlanElement DEF QueueType, PlanType
  <2>4. ASSUME NEW i \in 1 .. Len(plan), i > Prefix(n)
        PROVE  End[plan[i].name] > position + n
    <3>1. i > first /\ ~ (i <= Prefix(n))
      BY <2>2, <2>3, <2>4
    <3>2. QED
      BY <1>1, <2>2, <2>3, <3>1
  <2>5. \A i \in 1 .. Len(plan') : i > first' => End[plan'[i].name] > position'
    BY <1>1, <2>4
  <2>6. Len(pending') = 0
    BY <1>1, EmptySeq
  <2>7. QED
    BY <2>5, <2>6 DEF Ahead
\* An earlier batch has ended at the old position, a new one ends after it.
<1>9. ASSUME NEW m \in 1 .. old
      PROVE  /\ Distinct(detached[m].batch)
             /\ \A x \in Names(detached[m].batch) :
                  /\ detached[m].path = Place(x) /\ End[x] \in 1 .. position
                  /\ \A q \in Names(detached[m].batch) : End[q] = End[x]
                  /\ \A h \in Names(Held(Writer)) : End[h] < End[x]
                  /\ \A j \in m + 1 .. old :
                       \A q \in Names(detached[j].batch) : End[x] < End[q]
  <2>1. m > drained
    BY <1>1
  <2>2. QED
    BY <2>1 DEF Emission, Batches
<1>10. \A m \in 1 .. old + n : m \in 1 .. old \/ (m - old \in 1 .. n /\ m = old + (m - old))
  BY <1>1
<1>11. ASSUME NEW m \in 1 .. old + n, NEW x \in Names(detached'[m].batch),
              NEW j \in m + 1 .. old + n, NEW q \in Names(detached'[j].batch)
       PROVE  End[x] < End[q]
  <2>1. CASE m \in 1 .. old /\ j \in 1 .. old
    <3>1. j \in m + 1 .. old
      BY <1>1, <2>1
    <3>2. QED
      BY <1>2, <1>9, <1>11, <2>1, <3>1
  <2>2. CASE m \in 1 .. old /\ j - old \in 1 .. n /\ j = old + (j - old)
    <3>1. End[x] <= position /\ End[x] \in Int
      BY <1>2, <1>9, <1>11, <2>2
    <3>2. End[q] = position + (j - old)
      BY <1>3, <1>11, <2>2
    <3>3. QED
      BY <1>1, <2>2, <3>1, <3>2
  <2>3. CASE /\ m - old \in 1 .. n /\ m = old + (m - old)
             /\ j - old \in 1 .. n /\ j = old + (j - old)
    <3>1. End[x] = position + (m - old) /\ End[q] = position + (j - old)
      BY <1>3, <1>11, <2>3
    <3>2. QED
      BY SMTT(60), <1>1, <2>3, <3>1
  <2>4. j \in 1 .. old + n /\ ~ (m - old \in 1 .. n /\ j \in 1 .. old)
    BY <1>1
  <2>5. QED
    BY <1>10, <2>1, <2>2, <2>3, <2>4
<1>12. ASSUME NEW m \in 1 .. old + n
       PROVE  /\ Distinct(detached'[m].batch)
              /\ \A x \in Names(detached'[m].batch) :
                   /\ detached'[m].path = Place(x)
                   /\ End[x] \in 1 .. position + n
                   /\ \A q \in Names(detached'[m].batch) : End[q] = End[x]
                   /\ \A h \in Names(Held(Writer)) : End[h] < End[x]
  <2>1. CASE m \in 1 .. old
    <3>1. \A x \in Names(detached[m].batch) : End[x] \in 1 .. position + n
      BY <1>1, <1>9, <2>1
    <3>2. QED
      BY <1>2, <1>9, <2>1, <3>1
  <2>2. CASE m - old \in 1 .. n /\ m = old + (m - old)
    <3>1. /\ Distinct(detached'[m].batch)
          /\ \A x \in Names(detached'[m].batch) :
               detached'[m].path = Place(x) /\ End[x] = position + (m - old)
      BY <1>3, <2>2
    <3>2. \A x \in Names(detached'[m].batch) :
            /\ End[x] \in 1 .. position + n
            /\ \A q \in Names(detached'[m].batch) : End[q] = End[x]
            /\ \A h \in Names(Held(Writer)) : End[h] < End[x]
      <4>1. position \in Nat
        BY Types DEF QueueType, Boundary
      <4>2. QED
        BY <1>1, <1>7, <2>2, <3>1, <4>1
    <3>3. QED
      BY <3>1, <3>2
  <2>3. QED
    BY <1>10, <2>1, <2>2
<1>13. Batches'
  BY <1>1, <1>4, <1>6, <1>11, <1>12 DEF Batches
<1>14. \A h \in Names(Held(Writer)) : End[h] <= position + n
  BY <1>1, <1>7
<1>15. QED
  BY <1>1, <1>6, <1>8, <1>13, <1>14 DEF Emission

LEMMA DetachEmission ==
  ASSUME IInv, Emission, Detach
  PROVE  Emission'
PROOF
<1>1. /\ phase = "detach" /\ phase' # "down" /\ DetachPending
      /\ UNCHANGED writerVars /\ drained' = drained /\ UseCuda' = UseCuda
  BY DEF Detach, runVars, UseCuda
<1>2. pending # <<>> /\ drained = 0
  BY <1>1 DEF IInv, Control, Emission, Batches, Draining
<1>3. QED
  BY <1>1, <1>2, DetachPendingEmission

LEMMA CloseEmission ==
  ASSUME IInv, Emission, Close
  PROVE  Emission'
PROOF
<1>1. /\ phase = "unwinding" /\ phase' # "down" /\ drained' = 0
      /\ UNCHANGED writerVars /\ UseCuda' = UseCuda
      /\ IF pending = <<>>
         THEN UNCHANGED <<plan, detached, first, position, pending>>
         ELSE DetachPending
  BY DEF Close, runVars, UseCuda
<1>2. drained = 0
  BY <1>1 DEF Emission, Batches, Draining
<1>3. CASE pending = <<>>
  <2>1. /\ plan' = plan /\ detached' = detached /\ first' = first
        /\ position' = position /\ pending' = pending /\ drained' = drained
    BY <1>1, <1>2, <1>3
  <2>2. QED
    BY <1>1, <2>1, EmissionFrame
<1>4. CASE pending # <<>>
  BY <1>1, <1>2, <1>4, DetachPendingEmission
<1>5. QED
  BY <1>3, <1>4

\* The ends of a process: what is on disk is emitted once.
LEMMA DiskOnce ==
  ASSUME IInv, Emission
  PROVE  FilesOnce(science) /\ FilesOnce(CloseWriter(Writer).disk)
PROOF
<1>1. Writer \in GoodWriter /\ WriterOnce(Writer)
  BY Types, WriterIsGood DEF IInv, Emission
<1>2. WriterOnce(CloseWriter(Writer))
  BY <1>1, CloseOnce
<1>3. FilesOnce(Writer.disk) /\ Writer.disk = science
  BY <1>1 DEF WriterOnce, Writer
<1>4. QED
  BY <1>2, <1>3 DEF WriterOnce

LEMMA CrashEmission ==
  ASSUME IInv, Emission, Crash
  PROVE  Emission'
PROOF
<1>1. /\ Gone
      /\ science' = science \/ science' = [science EXCEPT ![outPath] = <<>>]
  BY DEF Crash
<1>2. science \in [OutputFile -> Seq(Complete)] /\ FilesOnce(science)
  BY OnDisk, DiskOnce
<1>3. science' \in [OutputFile -> Seq(Complete)]
  BY <1>1, <1>2, EmptySeq
<1>4. \A f \in OutputFile : science'[f] = science[f] \/ science'[f] = <<>>
  BY <1>1, <1>2
<1>5. FilesOnce(science')
  BY <1>2, <1>4, EmptyNames DEF FilesOnce
<1>6. QED
  BY <1>1, <1>3, <1>5, GoneEmission

LEMMA EndEmission ==
  ASSUME IInv, Emission, Gone,
         science' = science \/ science' = CloseWriter(Writer).disk
  PROVE  Emission'
PROOF
<1>1. science' \in [OutputFile -> Seq(Complete)] /\ FilesOnce(science')
  BY OnDisk, DiskOnce
<1>2. QED
  BY <1>1, GoneEmission

\* Every step preserves Emission.
LEMMA NextEmission ==
  ASSUME NoInterrupt, IInv, Emission, [Next]_vars
  PROVE  Emission'
PROOF
<1>1. ASSUME NEW t \in Boundary, NEW end \in Boundary, Open(t, end)
      PROVE  Emission'
  BY <1>1, OpenEmission
<1>2. CASE Sample
  BY <1>2, SampleEmission
<1>3. CASE Launch
  BY <1>3, LaunchEmission
<1>4. CASE DrainOne
  BY <1>4, DrainOneEmission
<1>5. CASE DrainDone
  BY <1>5, DrainDoneEmission
<1>6. CASE Detach
  BY <1>6, DetachEmission
<1>7. CASE DetachRaises
  BY <1>7, DetachRaisesEmission
<1>8. CASE Close
  BY <1>8, CloseEmission
<1>9. CASE Advance \/ StepEndCuda \/ Reject \/ LoopEnds \/ Raise
  <2>1. /\ UNCHANGED <<runVars, planVars, writerVars, cudaVars>>
        /\ phase' # "down"
    BY <1>9 DEF Advance, StepEndCuda, Reject, LoopEnds, Raise
  <2>2. drained = 0
    BY <1>9 DEF Advance, StepEndCuda, Reject, LoopEnds, Raise,
                Emission, Batches, Draining
  <2>3. QED
    BY <2>1, <2>2, LoopEmission
<1>10. CASE CloseDetachRaises \/ CloseFinishes \/ CloseRefused \/ RestartFails
  <2>1. Gone /\ (science' = science \/ science' = CloseWriter(Writer).disk)
    BY <1>10 DEF CloseDetachRaises, CloseFinishes, CloseRefused, RestartFails
  <2>2. QED
    BY <2>1, EndEmission
<1>11. CASE Crash
  BY <1>11, CrashEmission
<1>12. CASE SampleInterrupted \/ DrainInterrupted
  BY <1>12 DEF SampleInterrupted, DrainInterrupted, NoInterrupt
<1>13. CASE UNCHANGED vars
  <2>1. /\ UNCHANGED <<runVars, planVars, writerVars, cudaVars>>
        /\ phase' = phase
    BY <1>13 DEF vars, loopVars
  <2>2. CASE phase # "down"
    <3>1. ~Draining' => drained = 0
      BY <2>1 DEF Emission, Batches, Draining
    <3>2. QED
      BY <2>1, <2>2, <3>1, LoopEmission
  <2>3. CASE phase = "down"
    <3>1. /\ UseCuda' = UseCuda /\ position' = position /\ plan' = plan
          /\ first' = first /\ pending' = pending /\ detached' = detached
          /\ drained' = drained /\ outPath' = outPath /\ created' = created
          /\ prevInput' = prevInput
      BY <2>1 DEF planVars, cudaVars, writerVars, runVars, UseCuda
    <3>2. Writer' = Writer
      BY <2>1 DEF writerVars, Writer
    <3>3. Names(Held(Writer))' = Names(Held(Writer)) /\ WriterOnce(Writer)'
      BY <3>2 DEF Emission
    <3>4. Ahead' /\ Batches'
      BY <2>1, <3>1, <3>3 DEF Emission, Ahead, Batches, Draining
    <3>5. QED
      BY <2>1, <3>1, <3>3, <3>4 DEF Emission
  <2>4. QED
    BY <2>2, <2>3
<1>14. QED
  BY <1>1, <1>2, <1>3, <1>4, <1>5, <1>6, <1>7, <1>8, <1>9, <1>10, <1>11,
     <1>12, <1>13 DEF Next, Run, Fault
-----------------------------------------------------------------------------
(* What holds in every reachable state.                                    *)

\* The writer's file, the queue and the detached batches keep apart, as long
\* as no handler is interrupted.
THEOREM EmissionHolds ==
  ASSUME NoInterrupt
  PROVE  Spec => [](IInv /\ Emission)
PROOF
<1>1. Init => IInv /\ Emission
  BY InitIInv, InitEmission
<1>2. IInv /\ Emission /\ [Next]_vars => (IInv /\ Emission)'
  BY NextIInv, NextEmission
<1>3. QED
  BY <1>1, <1>2, PTL DEF Spec

\* An observation is written to one place of one file, the file of the step
\* at whose end it completed (sample, detach_cuda_samples,
\* write_detached_cuda_outputs, _select_output_path and the writer).
THEOREM EmittedOnceAlways ==
  ASSUME NoInterrupt
  PROVE  Spec => []EmittedOnce
PROOF
<1>1. IInv /\ Emission => EmittedOnce
  <2> SUFFICES ASSUME IInv, Emission,
                      NEW f \in OutputFile, NEW g \in OutputFile,
                      NEW i \in DOMAIN science[f], NEW j \in DOMAIN science[g]
               PROVE  /\ f = OutPath[End[science[f][i].name] - 1]
                      /\ science[f][i].name = science[g][j].name
                           => f = g /\ i = j
    BY DEF EmittedOnce
  <2>1. FilesOnce(science)
    BY DiskOnce
  <2>2. /\ science[f][i].name \in Names(science[f])
        /\ science[g][j].name \in Names(science[g])
    BY DEF Names
  <2>3. Place(science[f][i].name) = f /\ Place(science[g][j].name) = g
    BY <2>1, <2>2 DEF FilesOnce
  <2>4. ASSUME science[f][i].name = science[g][j].name PROVE f = g /\ i = j
    <3>1. f = g
      BY <2>3, <2>4
    <3>2. Distinct(science[f]) /\ science[f][i].name = science[f][j].name
          /\ j \in DOMAIN science[f]
      BY <2>1, <2>4, <3>1 DEF FilesOnce
    <3>3. i = j
      BY <3>2 DEF Distinct
    <3>4. QED
      BY <3>1, <3>3
  <2>5. QED
    BY <2>3, <2>4 DEF Place
<1>2. QED
  BY <1>1, EmissionHolds, PTL

-----------------------------------------------------------------------------
(* What completes is kept.                                                 *)

\* The steps of an output file are consecutive.  The configured template has to
\* see to it: with the hour but not the day in it, the file of an hour would be
\* opened anew every day (_select_output_path, _ensure_created).
PathsInOrder ==
  \A s, t, u \in Step :
    s <= t /\ t <= u /\ OutPath[s] = OutPath[u] => OutPath[t] = OutPath[s]

\* Every step has an output file of its own, as with the minute in the template
\* of the user guide.  A file of several steps is replaced as a whole by a run
\* that starts again between them.
PathPerStep ==
  \A s, t \in Step : OutPath[s] = OutPath[t] => s = t

\* What Keeping says while a run is going on.
LEMMA KeepingIs ==
  ASSUME IInv, Keeping, phase # "down"
  PROVE  /\ position \in Nat /\ current \in Nat /\ start \in Nat
         /\ Len(pending) \in Nat /\ position + Len(pending) <= Horizon
         /\ start <= position /\ current <= position + Len(pending)
         /\ \A e \in Installed :
              /\ e \in Entry /\ End[e] \in Int /\ End[e] > start
              /\ e \in Names(plan) \/ (End[e] <= current /\ End[e] <= position)
PROOF
<1>1. /\ position \in Nat /\ current \in Nat /\ start \in Nat
      /\ Len(pending) \in Nat /\ position + Len(pending) <= Horizon
  BY Types DEF QueueType, Boundary, IInv, Queue
<1>2. start <= position /\ current <= position + Len(pending)
  BY DEF Keeping
<1>3. ASSUME NEW e \in Installed PROVE e \in Entry
  <2>1. CASE e \in Names(restarts[start].plan)
    <3>1. restarts[start].plan \in Plan
      BY Types
    <3>2. QED
      BY <2>1, <3>1, PlanNames
  <2>2. CASE \E s \in start .. position + Len(pending) - 1 : e \in FileEntries(s)
    <3>1. PICK s \in start .. position + Len(pending) - 1 : e \in FileEntries(s)
      BY <2>2
    <3>2. s \in Step
      BY <1>1, HorizonAssumption DEF Step
    <3>3. Entries[InPath[s]] \in Seq(Entry)
      BY <3>2, PathAssumption
    <3> DEFINE file == Entries[InPath[s]]
    <3>4. file \in Seq(Entry) /\ e \in {file[i] : i \in DOMAIN file}
      BY <3>1, <3>3 DEF FileEntries
    <3> HIDE DEF file
    <3>5. QED
      BY <3>4, LenProperties, ElementOfSeq
  <2>3. QED
    BY <1>3, <2>1, <2>2 DEF Installed
<1>4. \A e \in Installed :
        /\ End[e] > start
        /\ e \in Names(plan) \/ (End[e] <= current /\ End[e] <= position)
  BY DEF Keeping
<1>5. QED
  BY <1>1, <1>2, <1>3, <1>4, EntryAssumption

\* Steps that leave queue, writer and the names of the plan alone.
LEMMA KeepingFrame ==
  ASSUME IInv, Emission, Keeping, phase # "down", phase' # "down",
         start' = start, position' = position, Len(pending') = Len(pending),
         prevInput' = prevInput, Names(plan') = Names(plan),
         detached' = detached, drained' = drained, restarts' = restarts,
         UNCHANGED writerVars,
         current' \in Boundary, current <= current',
         current' <= position + Len(pending),
         phase' = "drainLast" => current' < position,
         phase' = "closing" => detached = <<>>
  PROVE  Keeping'
PROOF
<1>1. Writer' = Writer /\ outPath' = outPath
  BY DEF writerVars, Writer
<1>2. Installed' = Installed
  BY DEF Installed
<1>3. \A e : Waiting(e)' <=> Waiting(e)
  BY DEF Waiting
<1>4. \A u : SafeUpTo(u)' <=> SafeUpTo(u)
  BY <1>1, <1>2, <1>3 DEF SafeUpTo
<1>5. \/ prevInput' = NoFile
      \/ \E s \in start' .. position' + Len(pending') - 1 : InPath[s] = prevInput'
  BY DEF Keeping
<1>6. ASSUME NEW e \in Installed
      PROVE  /\ End[e] > start
             /\ e \in Names(plan') \/ (End[e] <= current' /\ End[e] <= position)
  BY <1>6, KeepingIs DEF Boundary
<1>7. \/ /\ outPath' = NoFile
         /\ \A e \in Installed : End[e] <= position => Waiting(e)
      \/ \E u \in Step : SafeUpTo(u)
  BY <1>1 DEF Keeping
<1>8. start <= position
  BY DEF Keeping
<1>9. QED
  BY <1>1, <1>2, <1>3, <1>4, <1>5, <1>6, <1>7, <1>8 DEF Keeping

LEMMA OpenKeeping ==
  ASSUME IInv, Emission, NEW t \in Boundary, NEW end \in Boundary, Open(t, end)
  PROVE  Keeping'
PROOF
<1>1. /\ phase = "down" /\ phase' = "running" /\ start' = t /\ current' = t
      /\ position' = t /\ plan' = restarts[t].plan /\ restarts' = restarts
      /\ pending' = pending /\ prevInput' = prevInput /\ outPath' = outPath
  BY DEF Open, cudaVars, writerVars
<1>2. pending' = <<>> /\ prevInput' = NoFile /\ outPath' = NoFile
  BY <1>1 DEF IInv, Control, Emission
<1>3. Len(pending') = 0 /\ t \in Nat
  BY <1>2, EmptySeq DEF Boundary
<1>4. Installed' = Names(plan')
  <2>1. start' .. position' + Len(pending') - 1 = {}
    BY <1>1, <1>3
  <2>2. UNION {FileEntries(s) : s \in {}} = {}
    OBVIOUS
  <2>3. restarts'[start'].plan = plan'
    BY <1>1
  <2>4. QED
    BY <2>1, <2>2, <2>3 DEF Installed
<1>5. ASSUME NEW e \in Names(plan') PROVE End[e] > t /\ End[e] \in Int
  <2>1. plan' \in Plan
    BY <1>1, Types
  <2>2. PICK i \in 1 .. Len(plan') : e = plan'[i].name
    BY <2>1, PlanNames
  <2>3. DOMAIN plan' = 1 .. Len(plan') /\ End[e] \in Int
    BY <2>1, <2>2, PlanElement
  <2>4. CASE restarts[t].written
    BY <1>1, <2>2, <2>3, <2>4
       DEF IInv, Restarts, RestartIsRemainder, IsRemainder
  <2>5. CASE ~restarts[t].written
    <3>1. plan' = <<>>
      BY <1>1, <2>5 DEF IInv, Restarts
    <3>2. QED
      BY <2>2, <3>1, EmptySeq
  <2>6. QED
    BY <2>3, <2>4, <2>5
<1>6. \A e \in Names(plan') : ~ (End[e] <= t)
  BY <1>3, <1>5
<1>7. QED
  BY <1>1, <1>2, <1>3, <1>4, <1>5, <1>6 DEF Keeping

\* A step is initialised: the entries of a new file join the plan, and the
\* plan drops only what has completed.
LEMMA InstalledGrows ==
  ASSUME IInv, Emission, Keeping, phase = "running", current < stop,
         Accepted(current), NEW init \in Initialized(current),
         Names(plan') = Names(init.plan), start' = start, restarts' = restarts,
         position' + Len(pending') - 1 = position + Len(pending),
         prevInput' = InPath[current]
  PROVE  /\ current \in Step /\ current = position + Len(pending)
         /\ \E s \in start' .. position' + Len(pending') - 1 :
              InPath[s] = prevInput'
         /\ \A e \in Installed' :
              /\ e \in Entry /\ End[e] \in Int /\ End[e] > start
              /\ e \in Names(plan') \/ (End[e] <= current /\ End[e] <= position)
              /\ End[e] <= position => e \in Installed
PROOF
<1> DEFINE t == current
           n == Len(pending)
<1>1. /\ position \in Nat /\ t \in Nat /\ start \in Nat
      /\ n \in Nat /\ start <= position
  BY KeepingIs
<1>2. t \in Step /\ t = position + n
  BY InitializedNames DEF Reached
<1>3. Installed' = Installed \cup FileEntries(t)
  <2>1. start .. position + n = (start .. position + n - 1) \cup {t}
    BY <1>1, <1>2
  <2>2. Installed' = Names(restarts[start].plan)
                     \cup UNION {FileEntries(s) : s \in start .. position + n}
    BY DEF Installed
  <2> HIDE DEF t, n
  <2>3. UNION {FileEntries(s) : s \in (start .. position + n - 1) \cup {t}}
          = (UNION {FileEntries(s) : s \in start .. position + n - 1})
            \cup FileEntries(t)
    OBVIOUS
  <2>4. QED
    BY <2>1, <2>2, <2>3 DEF Installed, n
<1>4. ASSUME NEW e \in Installed
      PROVE  /\ e \in Entry /\ End[e] \in Int /\ End[e] > start
             /\ e \in Names(plan') \/ (End[e] <= t /\ End[e] <= position)
  <2>1. /\ e \in Entry /\ End[e] \in Int /\ End[e] > start
        /\ e \in Names(plan) \/ (End[e] <= t /\ End[e] <= position)
    BY KeepingIs
  <2>2. CASE init = [plan |-> plan, first |-> first, live |-> device.live]
    BY <2>1, <2>2
  <2>3. CASE /\ t = position
             /\ Names(init.plan) = {m \in Names(plan) : End[m] > t} \cup FileEntries(t)
    BY <1>1, <2>1, <2>3
  <2>4. QED
    BY <2>2, <2>3, InitializedNames
<1>5. ASSUME NEW e \in FileEntries(t)
      PROVE  e \in Installed \/ (e \in Names(plan') /\ End[e] > t)
  <2>1. CASE NeedsInput(t)
    BY <1>5, <2>1, InitializedNames
  <2>2. CASE ~NeedsInput(t)
    <3>1. prevInput = InPath[t] /\ prevInput # NoFile
      BY <1>2, <2>2, PathAssumption, NoFileAssumption DEF NeedsInput
    <3>2. PICK s \in start .. position + n - 1 : InPath[s] = prevInput
      BY <3>1 DEF Keeping
    <3>3. FileEntries(s) = FileEntries(t)
      BY <3>1, <3>2 DEF FileEntries
    <3>4. QED
      BY <1>5, <3>2, <3>3 DEF Installed
  <2>3. QED
    BY <2>1, <2>2
<1>6. \A e \in Names(plan') : e \in Entry /\ End[e] \in Int
  <2>1. init.plan \in Plan
    BY InitializedNames
  <2>2. QED
    BY <2>1, PlanNames, EntryAssumption
<1>7. ASSUME NEW e \in Installed'
      PROVE  /\ e \in Entry /\ End[e] \in Int /\ End[e] > start
             /\ e \in Names(plan') \/ (End[e] <= t /\ End[e] <= position)
             /\ End[e] <= position => e \in Installed
  <2>1. CASE e \in Installed
    BY <1>4, <2>1
  <2>2. CASE e \in Names(plan') /\ End[e] > t
    BY <1>1, <1>2, <1>6, <2>2
  <2>3. QED
    BY <1>3, <1>5, <1>7, <2>1, <2>2
<1>8. t \in start' .. position' + Len(pending') - 1
  BY <1>1, <1>2
<1>9. QED
  BY <1>2, <1>7, <1>8

\* A file that was selected at step u is not the one of a later step under
\* another name: what completed by then stays where it is.
LEMMA StaysPut ==
  ASSUME PathsInOrder, NEW e, NEW u \in Step, NEW v \in Step, u <= v,
         End[e] \in Int, 1 <= End[e], End[e] <= u + 1,
         outPath = OutPath[u], OutPath[v] # outPath
  PROVE  Place(e) # OutPath[v]
PROOF
<1> DEFINE s == End[e] - 1
<1>1. s \in Step /\ s <= u
  BY HorizonAssumption DEF Step
<1>2. OutPath[s] = OutPath[v] => OutPath[u] = OutPath[s]
  BY <1>1 DEF PathsInOrder
<1>3. QED
  BY <1>2 DEF Place

LEMMA SampleKeeping ==
  ASSUME PathsInOrder, IInv, Emission, Keeping, Sample
  PROVE  Keeping'
PROOF
<1> DEFINE t == current
<1>1. /\ phase = "running" /\ ~UseCuda /\ t < stop /\ position = t /\ Accepted(t)
      /\ position' = t + 1 /\ phase' = "sampled" /\ current' = t
      /\ start' = start /\ pending' = pending /\ restarts' = restarts
      /\ prevInput' = InPath[t] /\ detached' = detached
  BY DEF Sample, cudaVars, runVars
<1>2. /\ pending = <<>> /\ Len(pending) = 0 /\ Len(pending') = 0
      /\ detached = <<>> /\ Len(detached) = 0
  BY <1>1, EmptySeq DEF IInv, Control, Emission, Batches
<1>3. /\ outPath' = OutPath[t]
      /\ \A e : Safe(Writer, e) /\ (OutPath[t] # outPath => Place(e) # OutPath[t])
                  => Safe(Writer', e)
  BY SampleWrites
<1>4. PICK init \in Initialized(t) :
        /\ Names(plan') = Names(init.plan)
        /\ \A e \in Names(init.plan) : End[e] = t + 1 => Safe(Writer', e)
  BY SampleWrites
<1>5. t \in Nat /\ start \in Nat /\ start <= t
  BY <1>1, KeepingIs
<1>6. position' + Len(pending') - 1 = position + Len(pending)
  BY <1>1, <1>2, <1>5
<1>7. /\ t \in Step
      /\ \E s \in start' .. position' + Len(pending') - 1 :
           InPath[s] = prevInput'
      /\ \A e \in Installed' :
           /\ e \in Entry /\ End[e] \in Int /\ End[e] > start
           /\ e \in Names(plan') \/ (End[e] <= t /\ End[e] <= position)
           /\ End[e] <= position => e \in Installed
  BY <1>1, <1>4, <1>6, InstalledGrows
<1>8. \A e : ~Waiting(e) /\ ~Waiting(e)'
  BY <1>1, <1>2 DEF Waiting
\* What had completed is safe still, what completes now has been written.
<1>9. ASSUME NEW e \in Installed', End[e] <= t + 1
      PROVE  Safe(Writer', e)
  <2>1. CASE End[e] = t + 1
    <3>1. e \in Names(plan')
      BY <1>5, <1>7, <2>1
    <3>2. QED
      BY <1>4, <2>1, <3>1
  <2>2. CASE End[e] <= t
    <3>1. e \in Installed /\ End[e] <= position
      BY <1>1, <1>7, <2>2
    <3>2. PICK u \in Step : SafeUpTo(u)
      BY <1>1, <1>8, <3>1 DEF Keeping
    <3>3. /\ outPath = OutPath[u] /\ u < position
          /\ Safe(Writer, e) /\ End[e] <= u + 1
      BY <1>8, <3>1, <3>2 DEF SafeUpTo
    <3>4. u <= t /\ 1 <= End[e] /\ End[e] \in Int
      BY <1>1, <1>5, <1>7, <3>3 DEF Step
    <3>5. OutPath[t] # outPath => Place(e) # OutPath[t]
      BY <1>7, <3>3, <3>4, StaysPut
    <3>6. QED
      BY <1>3, <3>3, <3>5
  <2>3. QED
    BY <1>5, <1>7, <1>9, <2>1, <2>2
<1>10. SafeUpTo(t)'
  <2>1. outPath' = OutPath[t] /\ t < position'
    BY <1>1, <1>3, <1>5
  <2>2. \A e \in Entry : Waiting(e)' => t < End[e]
    BY <1>8
  <2>3. \A e \in Installed' : End[e] <= position' => Safe(Writer', e) /\ End[e] <= t + 1
    BY <1>1, <1>9
  <2>4. \A e \in Installed' : End[e] <= position' =>
          Waiting(e)' \/ (Safe(Writer', e) /\ End[e] <= t + 1)
    BY <2>3
  <2>5. QED
    BY <1>1, <2>1, <2>2, <2>4 DEF SafeUpTo
<1>11. start' <= position' /\ current' <= position' + Len(pending')
  BY <1>1, <1>2, <1>5
<1>12. \A e \in Installed' :
         /\ End[e] > start'
         /\ e \in Names(plan') \/ (End[e] <= current' /\ End[e] <= position')
  BY <1>1, <1>5, <1>7
<1>13. QED
  BY <1>1, <1>7, <1>10, <1>11, <1>12 DEF Keeping

LEMMA LaunchKeeping ==
  ASSUME IInv, Emission, Keeping, Launch
  PROVE  Keeping'
PROOF
<1> DEFINE t == current
           n == Len(pending)
<1>1. /\ phase = "running" /\ t < stop /\ Accepted(t)
      /\ position' = position /\ phase' = "launched" /\ current' = t
      /\ start' = start /\ restarts' = restarts
      /\ prevInput' = InPath[t] /\ detached' = detached /\ drained' = drained
      /\ UNCHANGED writerVars
  BY DEF Launch, runVars
<1>2. PICK init \in Initialized(t) :
        /\ plan' = init.plan
        /\ pending' = Append(pending,
             [step |-> t, path |-> OutputPath(t),
              prefix |-> CompletedPrefix(init.plan, t + 1)])
  BY DEF Launch
<1>3. /\ n \in Nat /\ position \in Nat /\ start \in Nat /\ start <= position
      /\ t \in Nat /\ t <= position + n
  BY <1>1, KeepingIs
<1>4. Len(pending') = n + 1
  <2> DEFINE S == {pending[k] : k \in 1 .. n} \cup
                  {[step |-> t, path |-> OutputPath(t),
                    prefix |-> CompletedPrefix(init.plan, t + 1)]}
  <2>1. pending \in Seq(S)
    <3>1. DOMAIN pending = 1 .. n /\ pending \in [1 .. n -> S]
      BY Types, LenProperties DEF QueueType
    <3> HIDE DEF S
    <3>2. QED
      BY <1>3, <3>1
  <2>2. \E new \in S : pending' = Append(pending, new)
    BY <1>2
  <2> HIDE DEF S
  <2>3. QED
    BY <2>1, <2>2, AppendProperties
<1>5. position' + Len(pending') - 1 = position + Len(pending)
  BY <1>1, <1>3, <1>4
<1>6. /\ \E s \in start' .. position' + Len(pending') - 1 :
           InPath[s] = prevInput'
      /\ \A e \in Installed' :
           /\ End[e] > start
           /\ e \in Names(plan') \/ (End[e] <= t /\ End[e] <= position)
           /\ End[e] <= position => e \in Installed
  BY <1>1, <1>2, <1>5, InstalledGrows
<1>7. Writer' = Writer /\ outPath' = outPath
  BY <1>1 DEF writerVars, Writer
<1>8. \A e : Waiting(e)' <=> Waiting(e)
  BY <1>1 DEF Waiting
<1>9. ASSUME NEW u \in Step, SafeUpTo(u) PROVE SafeUpTo(u)'
  BY <1>1, <1>6, <1>7, <1>8, <1>9 DEF SafeUpTo
<1>10. \/ /\ outPath' = NoFile
          /\ \A e \in Installed' : End[e] <= position' => Waiting(e)'
       \/ \E u \in Step : SafeUpTo(u)'
  <2>1. CASE /\ outPath = NoFile
             /\ \A e \in Installed : End[e] <= position => Waiting(e)
    BY <1>1, <1>6, <1>7, <1>8, <2>1
  <2>2. CASE \E u \in Step : SafeUpTo(u)
    BY <1>9, <2>2
  <2>3. QED
    BY <1>1, <2>1, <2>2 DEF Keeping
<1>11. start' <= position' /\ current' <= position' + Len(pending')
  BY <1>1, <1>3, <1>4
<1>12. QED
  BY <1>1, <1>6, <1>10, <1>11 DEF Keeping

\* A detached output is written: its entries are no longer waiting but safe,
\* and the file selected is the one of the step they ended with.
LEMMA DrainOneKeeping ==
  ASSUME PathsInOrder, IInv, Emission, Keeping, DrainOne
  PROVE  Keeping'
PROOF
<1> DEFINE out == detached[drained + 1]
           k == drained + 1
<1>1. /\ drained' = drained + 1 /\ phase' = phase /\ phase # "down"
      /\ start' = start /\ current' = current /\ restarts' = restarts
      /\ position' = position /\ plan' = plan /\ prevInput' = prevInput
      /\ pending' = pending /\ detached' = detached
  BY DEF DrainOne, loopVars, planVars, runVars, Draining
<1>2. /\ drained \in Nat /\ k \in 1 .. Len(detached)
      /\ \A m \in 1 .. Len(detached) : Names(detached[m].batch) \subseteq Entry
  BY DrainWrites
<1>3. \/ out.batch = <<>> /\ Writer' = Writer
      \/ /\ out.batch # <<>>
         /\ out.path \in OutputFile /\ out.batch \in Seq(Complete)
         /\ outPath' = out.path
         /\ \A n \in Names(out.batch) : Safe(Writer', n)
         /\ \A e : Safe(Writer, e) /\ (out.path # outPath => Place(e) # out.path)
                     => Safe(Writer', e)
  BY DrainWrites
<1>4. Installed' = Installed
  BY <1>1 DEF Installed
<1>5. \A e : Waiting(e) <=> Waiting(e)' \/ e \in Names(out.batch)
  <2>1. ASSUME NEW e, Waiting(e) PROVE Waiting(e)' \/ e \in Names(out.batch)
    <3>1. PICK m \in 1 .. Len(detached) :
            m > drained /\ e \in Names(detached[m].batch)
      BY <2>1 DEF Waiting
    <3>2. m = k \/ m > drained'
      BY <1>1, <1>2, <3>1
    <3>3. QED
      BY <1>1, <3>1, <3>2 DEF Waiting
  <2>2. ASSUME NEW e, Waiting(e)' PROVE Waiting(e)
    <3>1. PICK m \in 1 .. Len(detached) :
            m > drained + 1 /\ e \in Names(detached[m].batch)
      BY <1>1, <2>2 DEF Waiting
    <3>2. m > drained
      BY <1>2, <3>1
    <3>3. QED
      BY <3>1, <3>2 DEF Waiting
  <2>3. k > drained
    BY <1>2
  <2>4. ASSUME NEW e \in Names(out.batch) PROVE Waiting(e)
    BY <1>2, <2>3 DEF Waiting
  <2>5. QED
    BY <2>1, <2>2, <2>4
<1>6. /\ start <= position /\ current <= position + Len(pending)
      /\ phase = "drainLast" => current < position
      /\ phase = "closing" => detached = <<>>
      /\ \/ prevInput = NoFile
         \/ \E s \in start .. position + Len(pending) - 1 : InPath[s] = prevInput
      /\ \A e \in Installed :
           /\ End[e] > start
           /\ e \in Names(plan) \/ (End[e] <= current /\ End[e] <= position)
  BY <1>1 DEF Keeping
<1>7. \/ /\ outPath' = NoFile
         /\ \A e \in Installed : End[e] <= position => Waiting(e)'
      \/ \E u \in Step : SafeUpTo(u)'
  <2>1. CASE out.batch = <<>> /\ Writer' = Writer
    <3>1. outPath' = outPath
      BY <2>1 DEF Writer
    <3>2. Names(out.batch) = {}
      BY <2>1, EmptyNames
    <3> HIDE DEF out
    <3>3. \A e : Waiting(e)' <=> Waiting(e)
      BY <1>5, <3>2
    <3>4. \A u : SafeUpTo(u)' <=> SafeUpTo(u)
      BY <1>1, <1>4, <2>1, <3>1, <3>3 DEF SafeUpTo
    <3>5. QED
      BY <1>1, <3>1, <3>3, <3>4 DEF Keeping
  <2>2. CASE /\ out.batch # <<>>
             /\ out.path \in OutputFile /\ out.batch \in Seq(Complete)
             /\ outPath' = out.path
             /\ \A n \in Names(out.batch) : Safe(Writer', n)
             /\ \A e : Safe(Writer, e) /\ (out.path # outPath => Place(e) # out.path)
                         => Safe(Writer', e)
    <3>1. PICK n \in Names(out.batch) : TRUE
      BY <2>2, NoNames
    <3> DEFINE v == End[n] - 1
    <3>2. /\ out.path = Place(n) /\ End[n] \in 1 .. position
          /\ \A q \in Names(out.batch) : End[q] = End[n]
          /\ \A m \in k + 1 .. Len(detached) :
               \A q \in Names(detached[m].batch) : End[n] < End[q]
      BY <1>2 DEF Emission, Batches
    <3>3. v \in Step /\ v < position /\ outPath' = OutPath[v] /\ position \in Nat
      <4>1. position \in Boundary
        BY Types DEF QueueType
      <4>2. QED
        BY <2>2, <3>2, <4>1, HorizonAssumption DEF Place, Boundary, Step
    <3>4. ASSUME NEW e \in Entry, Waiting(e)' PROVE v < End[e]
      <4>1. PICK m \in 1 .. Len(detached) :
              m > drained + 1 /\ e \in Names(detached[m].batch)
        BY <1>1, <3>4 DEF Waiting
      <4>2. m \in k + 1 .. Len(detached)
        BY <1>2, <4>1
      <4>3. End[n] < End[e] /\ End[e] \in Int
        BY <3>2, <4>1, <4>2, EntryAssumption
      <4>4. QED
        BY <3>2, <3>3, <4>3
    <3>5. ASSUME NEW e \in Installed, End[e] <= position, ~Waiting(e)'
          PROVE  Safe(Writer', e) /\ End[e] <= v + 1
      <4>1. CASE e \in Names(out.batch)
        <5>1. End[e] = End[n] /\ End[e] <= v + 1
          BY <3>2, <3>3, <4>1
        <5>2. Safe(Writer', e)
          BY <2>2, <4>1
        <5>3. QED
          BY <5>1, <5>2
      <4>2. CASE ~Waiting(e)
        <5>1. PICK u \in Step : SafeUpTo(u)
          BY <1>1, <3>5, <4>2 DEF Keeping
        <5>2. /\ outPath = OutPath[u] /\ Safe(Writer, e) /\ End[e] <= u + 1
          BY <3>5, <4>2, <5>1 DEF SafeUpTo
        <5>3. n \in Entry /\ Waiting(n)
          BY <1>2, <1>5, <3>1
        <5>4. u < End[n]
          BY <5>1, <5>3 DEF SafeUpTo
        <5>5. u <= v /\ u + 1 <= v + 1
          BY <3>2, <3>3, <5>4 DEF Step
        <5>6. End[e] \in Int /\ 1 <= End[e]
          BY <1>1, KeepingIs
        <5>7. OutPath[v] # outPath => Place(e) # OutPath[v]
          BY <3>3, <5>2, <5>5, <5>6, StaysPut
        <5>8. Safe(Writer', e)
          BY <2>2, <3>3, <5>2, <5>7
        <5>9. End[e] <= v + 1
          BY <3>3, <5>2, <5>5, <5>6 DEF Step
        <5>10. QED
          BY <5>8, <5>9
      <4>3. QED
        BY <1>5, <3>5, <4>1, <4>2
    <3> HIDE DEF v
    <3>6. SafeUpTo(v)'
      BY <1>1, <1>4, <3>3, <3>4, <3>5 DEF SafeUpTo
    <3>7. QED
      BY <3>3, <3>6
  <2>3. QED
    BY <1>3, <2>1, <2>2
<1>8. QED
  BY <1>1, <1>4, <1>6, <1>7 DEF Keeping

\* All of the batch has been written: nothing is waiting.
LEMMA DrainDoneKeeping ==
  ASSUME IInv, Emission, Keeping, DrainDone
  PROVE  Keeping'
PROOF
<1>1. /\ drained = Len(detached) /\ detached' = <<>> /\ drained' = 0
      /\ phase # "down" /\ phase' # "down" /\ phase' # "drainLast"
      /\ start' = start /\ restarts' = restarts
      /\ position' = position /\ plan' = plan /\ prevInput' = prevInput
      /\ pending' = pending /\ UNCHANGED writerVars
      /\ \/ current' = current
         \/ phase = "drainLast" /\ current' = current + 1
  BY DEF DrainDone, planVars, runVars, Draining
<1>2. Writer' = Writer /\ outPath' = outPath
  BY <1>1 DEF writerVars, Writer
<1>3. Installed' = Installed
  BY <1>1 DEF Installed
<1>4. \A e : ~Waiting(e) /\ ~Waiting(e)'
  <2>1. Len(detached') = 0 /\ Len(detached) \in Nat
    BY <1>1, EmptySeq, Types, LenProperties DEF DetachedType
  <2>2. QED
    BY <1>1, <2>1 DEF Waiting
<1>5. \A u : SafeUpTo(u)' <=> SafeUpTo(u)
  BY <1>1, <1>2, <1>3, <1>4 DEF SafeUpTo
<1>6. /\ current \in Nat /\ position \in Nat /\ Len(pending) \in Nat
      /\ current <= position + Len(pending)
      /\ \A e \in Installed : End[e] \in Int
  BY <1>1, KeepingIs
<1>7. current' \in Nat /\ current <= current' /\ current' <= position + Len(pending)
  <2>1. phase = "drainLast" => current < position
    BY <1>1 DEF Keeping
  <2>2. QED
    BY <1>1, <1>6, <2>1
<1>8. \A e \in Installed :
        e \in Names(plan) \/ (End[e] <= current' /\ End[e] <= position)
  BY <1>1, <1>6, <1>7, KeepingIs
<1>9. /\ start <= position
      /\ \/ prevInput = NoFile
         \/ \E s \in start .. position + Len(pending) - 1 : InPath[s] = prevInput
      /\ \A e \in Installed : End[e] > start
      /\ \/ /\ outPath = NoFile
            /\ \A e \in Installed : End[e] <= position => Waiting(e)
         \/ \E u \in Step : SafeUpTo(u)
  BY <1>1 DEF Keeping
<1>10. QED
  BY <1>1, <1>2, <1>3, <1>4, <1>5, <1>7, <1>8, <1>9 DEF Keeping

\* Detaching the queue: what has completed by now waits in its batches.
LEMMA DetachPendingKeeping ==
  ASSUME IInv, Emission, Keeping, pending # <<>>, DetachPending,
         UNCHANGED writerVars, phase # "down", phase' # "closing",
         drained = 0, drained' = 0, start' = start, restarts' = restarts,
         prevInput' = prevInput, current' \in Nat, current <= current',
         current' <= position + Len(pending),
         phase' = "drainLast" => current' < position + Len(pending)
  PROVE  Keeping'
PROOF
<1> DEFINE n == Len(pending)
           old == Len(detached)
<1>1. /\ n \in Nat /\ old \in Nat /\ position \in Int
      /\ position' = position + n /\ pending' = <<>>
      /\ Len(plan') = Len(plan) /\ Len(plan) \in Nat
      /\ \A i \in 1 .. Len(plan) : plan'[i].name = plan[i].name
      /\ first' = Prefix(n) /\ Len(detached') = old + n
  BY DetachedIs
<1>2. \A m \in 1 .. old : detached'[m] = detached[m]
  BY DetachedIs
<1>3. \A k \in 1 .. n : \A x \in Names(detached'[old + k].batch) :
        End[x] = position + k
  BY DetachedIs
<1>4. \A i \in 1 .. Len(plan) : i > first /\ i <= first' =>
        \E k \in 1 .. n : plan[i].name \in Names(detached'[old + k].batch)
  BY DetachedIs
<1>5. /\ position \in Nat /\ current \in Nat /\ start \in Nat
      /\ start <= position
      /\ \A e \in Installed :
           /\ e \in Entry /\ End[e] \in Int /\ End[e] > start
           /\ e \in Names(plan) \/ (End[e] <= current /\ End[e] <= position)
  BY KeepingIs
<1>6. /\ Len(pending') = 0 /\ position' + Len(pending') = position + n
      /\ position' + Len(pending') - 1 = position + Len(pending) - 1
  BY <1>1, EmptySeq
<1>7. Installed' = Installed
  <2>1. Names(restarts'[start'].plan) = Names(restarts[start].plan)
    OBVIOUS
  <2>2. start' .. position' + Len(pending') - 1
          = start .. position + Len(pending) - 1
    BY <1>6
  <2>3. QED
    BY <2>1, <2>2 DEF Installed
<1>8. Writer' = Writer /\ outPath' = outPath
  BY DEF writerVars, Writer
<1>9. Names(plan') = Names(plan)
  <2>1. plan \in Plan
    BY Types DEF PlanType
  <2>2. DetachSyncs => Synced \in Plan
    BY Types, SyncedIs
  <2>3. plan' \in Plan
    BY <2>1, <2>2 DEF DetachPending
  <2>4. QED
    BY <1>1, <2>1, <2>3, EqualNames
<1>10. \A e : Waiting(e) => Waiting(e)'
  <2>1. \A m \in 1 .. old : m \in 1 .. old + n
    BY <1>1
  <2>2. QED
    BY <1>1, <1>2, <2>1 DEF Waiting
<1>11. ASSUME NEW e \in Installed, End[e] > position, End[e] <= position + n
       PROVE  Waiting(e)'
  <2>1. e \in Names(plan)
    BY <1>5, <1>11
  <2>2. PICK i \in 1 .. Len(plan) : e = plan[i].name
    BY <2>1, PlanNames, Types DEF PlanType
  <2>3. first \in Nat /\ i > first
    <3>1. first \in Nat /\ \A j \in 1 .. first : End[plan[j].name] <= position
      BY Types DEF QueueType, IInv, PlanShape
    <3>2. ~ (i \in 1 .. first)
      BY <1>5, <1>11, <2>2, <3>1
    <3>3. QED
      BY <3>1, <3>2
  <2>4. i <= first'
    <3>1. n \in 0 .. n
      BY <1>1
    <3>2. i <= Prefix(n) <=> End[plan[i].name] <= position + n
      BY <2>3, <3>1, PrefixIs
    <3>3. QED
      BY <1>1, <1>11, <2>2, <3>2
  <2>5. PICK k \in 1 .. n : e \in Names(detached'[old + k].batch)
    BY <1>4, <2>2, <2>3, <2>4
  <2>6. old + k \in 1 .. Len(detached') /\ old + k > drained'
    BY <1>1
  <2>7. QED
    BY <2>5, <2>6 DEF Waiting
<1>12. ASSUME NEW e, Waiting(e)', ~Waiting(e) PROVE End[e] > position
  <2>1. PICK m \in 1 .. old + n : m > 0 /\ e \in Names(detached'[m].batch)
    BY <1>1, <1>12 DEF Waiting
  <2>2. ~ (m \in 1 .. old)
    BY <1>2, <1>12, <2>1 DEF Waiting
  <2>3. m - old \in 1 .. n /\ m = old + (m - old)
    BY <1>1, <2>2
  <2>4. End[e] = position + (m - old)
    BY <1>3, <2>1, <2>3
  <2>5. QED
    BY <1>1, <2>3, <2>4
<1>13. ASSUME NEW u \in Step, SafeUpTo(u) PROVE SafeUpTo(u)'
  <2>1. outPath = OutPath[u] /\ u < position
    BY <1>13 DEF SafeUpTo
  <2>2. ASSUME NEW e \in Entry, Waiting(e)' PROVE u < End[e]
    <3>1. CASE Waiting(e)
      BY <1>13, <3>1 DEF SafeUpTo
    <3>2. CASE ~Waiting(e)
      BY <1>5, <1>12, <2>1, <2>2, <3>2, EntryAssumption DEF Step
    <3>3. QED
      BY <3>1, <3>2
  <2>3. ASSUME NEW e \in Installed, End[e] <= position + n
        PROVE  Waiting(e)' \/ (Safe(Writer, e) /\ End[e] <= u + 1)
    <3>1. CASE End[e] > position
      BY <1>11, <2>3, <3>1
    <3>2. CASE End[e] <= position
      BY <1>10, <1>13, <3>2 DEF SafeUpTo
    <3>3. QED
      BY <1>5, <3>1, <3>2
  <2>4. u < position'
    BY <1>1, <1>5, <2>1 DEF Step
  <2>5. QED
    BY <1>1, <1>7, <1>8, <2>1, <2>2, <2>3, <2>4 DEF SafeUpTo
<1>14. \/ /\ outPath' = NoFile
          /\ \A e \in Installed : End[e] <= position' => Waiting(e)'
       \/ \E u \in Step : SafeUpTo(u)'
  <2>1. CASE /\ outPath = NoFile
             /\ \A e \in Installed : End[e] <= position => Waiting(e)
    <3>1. ASSUME NEW e \in Installed, End[e] <= position + n PROVE Waiting(e)'
      BY <1>5, <1>10, <1>11, <2>1, <3>1
    <3>2. QED
      BY <1>1, <1>8, <2>1, <3>1
  <2>2. CASE \E u \in Step : SafeUpTo(u)
    BY <1>13, <2>2
  <2>3. QED
    BY <2>1, <2>2 DEF Keeping
<1>15. \/ prevInput' = NoFile
       \/ \E s \in start' .. position' + Len(pending') - 1 : InPath[s] = prevInput'
  <2>1. start' .. position' + Len(pending') - 1
          = start .. position + Len(pending) - 1
    BY <1>6
  <2>2. QED
    BY <2>1 DEF Keeping
<1>16. /\ start' <= position' /\ current' <= position' + Len(pending')
       /\ phase' = "drainLast" => current' < position'
  BY <1>1, <1>5, <1>6
<1>17. \A e \in Installed :
         /\ End[e] > start
         /\ e \in Names(plan') \/ (End[e] <= current' /\ End[e] <= position')
  BY <1>1, <1>5, <1>9
<1>18. QED
  BY <1>7, <1>14, <1>15, <1>16, <1>17 DEF Keeping

LEMMA DetachKeeping ==
  ASSUME IInv, Emission, Keeping, Detach
  PROVE  Keeping'
PROOF
<1>1. /\ phase = "detach" /\ DetachPending /\ phase' # "closing"
      /\ UNCHANGED writerVars /\ drained' = drained /\ start' = start
      /\ restarts' = restarts /\ prevInput' = prevInput
      /\ \/ phase' = "drainLast" /\ current' = current
         \/ phase' = "running" /\ current' = current + 1
  BY DEF Detach, runVars
<1>2. pending # <<>> /\ drained = 0 /\ current + 1 = position + Len(pending)
  BY <1>1 DEF IInv, Control, InStep, Emission, Batches, Draining
<1>3. current \in Nat /\ position \in Nat /\ Len(pending) \in Nat
  BY <1>1, KeepingIs
<1>4. /\ current' \in Nat /\ current <= current'
      /\ current' <= position + Len(pending)
      /\ phase' = "drainLast" => current' < position + Len(pending)
  BY <1>1, <1>2, <1>3
<1>5. QED
  BY <1>1, <1>2, <1>4, DetachPendingKeeping

LEMMA CloseKeeping ==
  ASSUME IInv, Emission, Keeping, Close
  PROVE  Keeping'
PROOF
<1>1. /\ phase = "unwinding" /\ phase' = "closeDrain" /\ drained' = 0
      /\ UNCHANGED writerVars /\ start' = start /\ current' = current
      /\ restarts' = restarts /\ prevInput' = prevInput
      /\ IF pending = <<>>
         THEN UNCHANGED <<plan, detached, first, position, pending>>
         ELSE DetachPending
  BY DEF Close, runVars
<1>2. drained = 0
  BY <1>1 DEF Emission, Batches, Draining
<1>3. /\ current \in Nat /\ current \in Boundary /\ position \in Nat
      /\ Len(pending) \in Nat /\ current <= position + Len(pending)
  BY <1>1, KeepingIs, Types
<1>4. CASE pending = <<>>
  <2>1. /\ Names(plan') = Names(plan) /\ detached' = detached
        /\ position' = position /\ Len(pending') = Len(pending)
        /\ drained' = drained
    BY <1>1, <1>2, <1>4
  <2>2. QED
    BY <1>1, <1>3, <2>1, KeepingFrame
<1>5. CASE pending # <<>>
  BY <1>1, <1>2, <1>3, <1>5, DetachPendingKeeping
<1>6. QED
  BY <1>4, <1>5

\* The steps of the run loop alone.
LEMMA LoopKeeping ==
  ASSUME IInv, Emission, Keeping, phase # "down", phase' # "down",
         phase' = "drainLast" => current' < position,
         phase' = "closing" => detached = <<>>,
         UNCHANGED <<runVars, planVars, writerVars, cudaVars, restarts>>,
         current' \in Boundary, current <= current',
         current' <= position + Len(pending)
  PROVE  Keeping'
PROOF
<1>1. /\ start' = start /\ position' = position /\ pending' = pending
      /\ prevInput' = prevInput /\ plan' = plan /\ detached' = detached
      /\ drained' = drained /\ restarts' = restarts
  BY DEF runVars, planVars, cudaVars
<1>2. QED
  BY <1>1, KeepingFrame

\* Every step preserves Keeping.
LEMMA NextKeeping ==
  ASSUME NoInterrupt, PathsInOrder, IInv, Emission, Keeping, [Next]_vars
  PROVE  Keeping'
PROOF
<1>1. ASSUME NEW t \in Boundary, NEW end \in Boundary, Open(t, end)
      PROVE  Keeping'
  BY <1>1, OpenKeeping
<1>2. CASE Sample
  BY <1>2, SampleKeeping
<1>3. CASE Launch
  BY <1>3, LaunchKeeping
<1>4. CASE DrainOne
  BY <1>4, DrainOneKeeping
<1>5. CASE DrainDone
  BY <1>5, DrainDoneKeeping
<1>6. CASE Detach
  BY <1>6, DetachKeeping
<1>7. CASE Close
  BY <1>7, CloseKeeping
<1>8. CASE Advance \/ StepEndCuda
  <2>1. /\ phase \in {"sampled", "launched"}
        /\ phase' \in {"running", "drain"}
        /\ UNCHANGED <<runVars, planVars, writerVars, cudaVars, restarts>>
        /\ current' = current \/ current' = current + 1
    BY <1>8 DEF Advance, StepEndCuda
  <2>2. /\ current + 1 = position + Len(pending) /\ current < stop
        /\ current \in Boundary /\ stop \in Boundary
    BY <2>1, Types DEF IInv, InStep, Control
  <2>3. /\ current' \in Boundary /\ current <= current'
        /\ current' <= position + Len(pending)
    BY <2>1, <2>2, HorizonAssumption DEF Boundary
  <2>4. QED
    BY <2>1, <2>3, LoopKeeping
<1>9. CASE Reject \/ LoopEnds \/ Raise
  <2>1. /\ phase # "down" /\ phase' = "unwinding" /\ current' = current
        /\ UNCHANGED <<runVars, planVars, writerVars, cudaVars, restarts>>
    BY <1>9 DEF Reject, LoopEnds, Raise
  <2>2. /\ current' \in Boundary /\ current <= current'
        /\ current' <= position + Len(pending)
    BY <2>1, Types, KeepingIs
  <2>3. QED
    BY <2>1, <2>2, LoopKeeping
<1>10. CASE DetachRaises
  <2>1. /\ phase = "detach" /\ phase' = "unwinding" /\ plan' = Synced
        /\ start' = start /\ current' = current /\ position' = position
        /\ prevInput' = prevInput /\ pending' = pending
        /\ detached' = detached /\ drained' = drained
        /\ restarts' = restarts /\ UNCHANGED writerVars
    BY <1>10 DEF DetachRaises, cudaVars, runVars
  <2>2. Names(plan') = Names(plan)
    BY <2>1, Types, SyncedIs, EqualNames DEF PlanType
  <2>3. /\ current' \in Boundary /\ current <= current'
        /\ current' <= position + Len(pending)
    BY <2>1, Types, KeepingIs
  <2>4. QED
    BY <2>1, <2>2, <2>3, KeepingFrame
<1>11. CASE CloseDetachRaises \/ CloseFinishes \/ CloseRefused \/ RestartFails
            \/ Crash
  BY <1>11 DEF CloseDetachRaises, CloseFinishes, CloseRefused, RestartFails,
               Crash, Gone, Keeping
<1>12. CASE SampleInterrupted \/ DrainInterrupted
  BY <1>12 DEF SampleInterrupted, DrainInterrupted, NoInterrupt
<1>13. CASE UNCHANGED vars
  <2>1. /\ UNCHANGED <<runVars, planVars, writerVars, cudaVars, restarts>>
        /\ phase' = phase /\ current' = current
    BY <1>13 DEF vars, loopVars
  <2>2. CASE phase = "down"
    BY <2>1, <2>2 DEF Keeping
  <2>3. CASE phase # "down"
    <3>1. /\ current' \in Boundary /\ current <= current'
          /\ current' <= position + Len(pending)
      BY <2>1, <2>3, Types, KeepingIs
    <3>2. /\ phase = "drainLast" => current < position
          /\ phase = "closing" => detached = <<>>
      BY <2>3 DEF Keeping
    <3>3. QED
      BY <2>1, <2>3, <3>1, <3>2, LoopKeeping
  <2>4. QED
    BY <2>2, <2>3
<1>14. QED
  BY <1>1, <1>2, <1>3, <1>4, <1>5, <1>6, <1>7, <1>8, <1>9, <1>10, <1>11,
     <1>12, <1>13 DEF Next, Run, Fault

\* A process commits its run in CloseFinishes: what completed is in its file.
LEMMA CloseWritesAll ==
  ASSUME IInv, Emission, Keeping, phase = "closing",
         NEW e \in Installed, End[e] <= position
  PROVE  e \in Names(CloseWriter(Writer).disk[Place(e)])
PROOF
<1> DEFINE w == Writer
           v == CloseWriter(Writer)
<1>1. w \in GoodWriter /\ WriterOnce(w) /\ w.path = outPath
  BY Types, WriterIsGood DEF IInv, Emission, Writer
<1>2. ~Waiting(e)
  <2>1. Len(detached) = 0
    BY EmptySeq DEF Keeping
  <2>2. QED
    BY <2>1 DEF Waiting
<1>3. PICK u \in Step : SafeUpTo(u)
  BY <1>2 DEF Keeping
<1>4. Safe(w, e)
  BY <1>2, <1>3 DEF SafeUpTo
<1>5. CASE e \in Names(Held(w))
  <2>1. Place(e) = w.path
    BY <1>1, <1>5, HeldIs
  <2>2. e \in Names(v.disk[w.path])
    BY <1>1, <1>5, CloseOnce
  <2>3. QED
    BY <2>1, <2>2
<1>6. CASE /\ Place(e) \in OutputFile /\ Place(e) # w.path
           /\ e \in Names(w.disk[Place(e)])
  <2>1. v.disk[Place(e)] = w.disk[Place(e)]
    BY <1>1, <1>6, CloseOnce
  <2>2. QED
    BY <1>6, <2>1
<1>7. QED
  BY <1>4, <1>5, <1>6 DEF Safe

\* ... and what did not is in the plan that the restart takes.
LEMMA CloseKeepsRest ==
  ASSUME IInv, Emission, Keeping, phase = "closing", AtBoundary,
         NEW e \in Installed, End[e] > current
  PROVE  e \in Names(CompactPlan(Synced, current))
PROOF
<1>1. current \in Int /\ position \in Int /\ End[e] \in Int
  BY Types, KeepingIs DEF Boundary
<1>2. e \in Names(plan)
  BY <1>1, KeepingIs
<1>3. PlanType /\ Sorted(plan)
  BY Types DEF IInv, PlanShape
<1>4. /\ Synced \in Plan /\ Sorted(Synced) /\ Len(Synced) = Len(plan)
      /\ \A i \in 1 .. Len(plan) : Synced[i].name = plan[i].name
  BY <1>3, SyncedIs
<1>5. Names(Synced) = Names(plan)
  BY <1>3, <1>4, EqualNames DEF PlanType
<1>6. Names(CompactPlan(Synced, current)) = {n \in Names(Synced) : End[n] > current}
  BY <1>1, <1>4, CompactNames
<1>7. QED
  BY <1>2, <1>5, <1>6

LEMMA InitKeeping == Init => Keeping
PROOF
  BY DEF Init, Keeping

LEMMA CloseLosesNothing ==
  ASSUME IInv, Emission, Keeping, CloseFinishes, NEW e \in RunEntries
  PROVE  /\ End[e] \in start + 1 .. current =>
              \E i \in DOMAIN science'[OutPath[End[e] - 1]] :
                science'[OutPath[End[e] - 1]][i].name = e
         /\ End[e] > current =>
              \E i \in DOMAIN restarts'[current].plan :
                restarts'[current].plan[i].name = e
PROOF
<1>1. /\ phase = "closing" /\ AtBoundary
      /\ science' = CloseWriter(Writer).disk
      /\ restarts' = [restarts EXCEPT ![current] =
                        [written |-> TRUE, plan |-> CompactPlan(Synced, current)]]
  BY DEF CloseFinishes
<1>2. Len(pending) = 0
  BY <1>1, EmptySeq DEF IInv, Control
<1>3. /\ current \in Nat /\ position \in Nat /\ start \in Nat
      /\ current <= position
  BY <1>1, <1>2, KeepingIs
<1>4. e \in Installed
  <2>1. CASE e \in Names(restarts[start].plan)
    BY <2>1 DEF Installed
  <2>2. CASE \E s \in start .. current - 1 : e \in FileEntries(s)
    <3>1. PICK s \in start .. current - 1 : e \in FileEntries(s)
      BY <2>2
    <3>2. s \in start .. position + Len(pending) - 1
      BY <1>2, <1>3
    <3>3. QED
      BY <3>1, <3>2 DEF Installed
  <2>3. QED
    BY <2>1, <2>2 DEF RunEntries, Names, FileEntries
<1>5. End[e] \in Int
  BY <1>1, <1>4, KeepingIs
<1>6. ASSUME End[e] \in start + 1 .. current
      PROVE  \E i \in DOMAIN science'[OutPath[End[e] - 1]] :
               science'[OutPath[End[e] - 1]][i].name = e
  <2>1. End[e] <= position
    BY <1>3, <1>6
  <2>2. e \in Names(science'[Place(e)])
    BY <1>1, <1>4, <2>1, CloseWritesAll
  <2>3. QED
    BY <2>2 DEF Names, Place
<1>7. ASSUME End[e] > current
      PROVE  \E i \in DOMAIN restarts'[current].plan :
               restarts'[current].plan[i].name = e
  <2>1. e \in Names(CompactPlan(Synced, current))
    BY <1>1, <1>4, <1>7, CloseKeepsRest
  <2>2. restarts'[current].plan = CompactPlan(Synced, current)
    BY <1>1, Types
  <2>3. QED
    BY <2>1, <2>2 DEF Names
<1>8. QED
  BY <1>6, <1>7
-----------------------------------------------------------------------------
(* What holds in every run.                                                *)

THEOREM KeepingHolds ==
  ASSUME NoInterrupt, PathsInOrder
  PROVE  Spec => [](IInv /\ Emission /\ Keeping)
PROOF
<1>1. Init => IInv /\ Emission /\ Keeping
  BY InitIInv, InitEmission, InitKeeping
<1>2. IInv /\ Emission /\ Keeping /\ [Next]_vars => (IInv /\ Emission /\ Keeping)'
  BY NextIInv, NextEmission, NextKeeping
<1>3. QED
  BY <1>1, <1>2, PTL DEF Spec

\* A run that writes its restart has lost nothing: every entry it was given,
\* by the restart it came from or by the inputs of its days, is in its output
\* file if it completed and in the new restart if it did not (manager.py
\* sample, detach_cuda_samples, write_detached_cuda_outputs and close).
THEOREM NothingIsLost ==
  ASSUME NoInterrupt, PathsInOrder
  PROVE  Spec => NothingLost
PROOF
<1>1. IInv /\ Emission /\ Keeping /\ [Next]_vars =>
        [CloseFinishes =>
           \A e \in RunEntries :
             /\ End[e] \in start + 1 .. current =>
                  \E i \in DOMAIN science'[OutPath[End[e] - 1]] :
                    science'[OutPath[End[e] - 1]][i].name = e
             /\ End[e] > current =>
                  \E i \in DOMAIN restarts'[current].plan :
                    restarts'[current].plan[i].name = e]_vars
  BY CloseLosesNothing
<1>2. QED
  BY <1>1, KeepingHolds, PTL DEF Spec, NothingLost
-----------------------------------------------------------------------------
(* A run leaves alone what was complete when it started.                   *)

Present(disk) == \A f \in OutputFile : \A n \in Names(disk[f]) : End[n] >= 1

\* The records of w's files that were complete at boundary b are in v's.
OldKept(w, v, b) ==
  \A f \in OutputFile : \A i \in DOMAIN w.disk[f] :
    End[w.disk[f][i].name] <= b =>
      \E j \in DOMAIN v.disk[f] : v.disk[f][j] = w.disk[f][i]

\* Nothing that the run holds, or has still to write, was complete by then.
FreshFrom(w, b) == Present(w.disk) /\ \A n \in Names(Held(w)) : End[n] > b

Fresh ==
  /\ Present(science)
  /\ phase # "down" =>
       /\ FreshFrom(Writer, start)
       /\ \A k \in 1 .. Len(detached) : k > drained =>
            \A n \in Names(detached[k].batch) : End[n] > start

\* The first flush of a writer replaces a file that holds nothing older.
LEMMA FlushKeepsOld ==
  ASSUME PathPerStep, NEW w \in GoodWriter, WriterOnce(w), NEW b \in Nat,
         FreshFrom(w, b), NEW k \in 0 .. Len(w.staged)
  PROVE  OldKept(w, FlushPrefix(w, k), b) /\ FreshFrom(FlushPrefix(w, k), b)
PROOF
<1> DEFINE v == FlushPrefix(w, k)
<1>1. CASE k = 0
  BY <1>1 DEF FlushPrefix, OldKept
<1>2. CASE k # 0
  <2> DEFINE out == SubSeq(w.staged, 1, k)
             rest == SubSeq(w.staged, k + 1, Len(w.staged))
             disk == [w.disk EXCEPT ![w.path] = InFile(w) \o out]
  <2>1. w.staged \in Seq(Complete) /\ w.disk \in [OutputFile -> Seq(Complete)]
    BY DEF GoodWriter
  <2>2. w.staged # <<>>
    BY <1>2, <2>1, EmptySeq
  <2>3. w.path \in OutputFile
    BY <2>2 DEF WriterOnce
  <2>4. out \in Seq(Complete) /\ rest \in Seq(Complete) /\ out \o rest = w.staged
    BY <2>1, CutNames
  <2>5. v = [w EXCEPT !.disk = disk, !.staged = rest, !.created = TRUE]
    BY <1>2, <2>1, <2>3 DEF FlushPrefix, GoodWriter, InFile
  <2>6. v.disk = disk
    BY <2>5 DEF GoodWriter
  <2> HIDE DEF v
  <2>7. /\ v.disk[w.path] = InFile(w) \o out
        /\ \A f \in OutputFile : f # w.path => v.disk[f] = w.disk[f]
    BY <2>1, <2>3, <2>6
  <2> HIDE DEF out, rest
  <2>8. /\ InFile(w) \in Seq(Complete)
        /\ Names(Held(w)) = Names(InFile(w)) \cup Names(w.staged)
        /\ \A n \in Names(Held(w)) : Place(n) = w.path
    BY HeldIs
  <2>9. Names(v.disk[w.path]) \subseteq Names(Held(w))
    <3>2. out \in Seq(Complete)
      BY <2>4
    <3>1. Names(out) \subseteq Names(w.staged)
      <4>1. rest \in Seq(Complete)
        BY <2>4
      <4>2. Names(out \o rest) = Names(out) \cup Names(rest)
        BY <3>2, <4>1, ConcatNames
      <4>3. QED
        BY <2>4, <4>2
    <3>3. Names(InFile(w) \o out) = Names(InFile(w)) \cup Names(out)
      BY <2>8, <3>2, ConcatNames
    <3>4. QED
      BY <2>4, <2>7, <2>8, <3>1, <3>3
  <2>10. Names(Held(v)) = Names(Held(w))
    BY FlushOnce DEF v
  <2>11. \A s \in Seq(Complete) : \A n \in Names(s) :
           n \in Entry /\ End[n] \in Int /\ End[n] <= Horizon
    <3>1. \A r \in Complete : r.name \in Entry /\ End[r.name] <= Horizon
      BY DEF Complete, IsComplete, Record
    <3>2. ASSUME NEW s \in Seq(Complete), NEW n \in Names(s)
          PROVE  n \in Entry /\ End[n] <= Horizon
      BY <3>1, <3>2, LenProperties, ElementOfSeq DEF Names
    <3>3. QED
      BY <3>2, EntryAssumption
  <2>12. Present(v.disk)
    <3>1. ASSUME NEW n \in Names(v.disk[w.path]) PROVE End[n] >= 1
      <4>1. Held(w) \in Seq(Complete) /\ n \in Names(Held(w)) /\ End[n] > b
        BY <2>9, <3>1, HeldIs DEF FreshFrom
      <4>2. End[n] \in Int
        BY <2>11, <4>1
      <4>3. QED
        BY <4>1, <4>2
    <3>2. QED
      BY <2>7, <3>1 DEF FreshFrom, Present
  <2>13. FreshFrom(v, b)
    BY <2>10, <2>12 DEF FreshFrom
  <2>14. ASSUME NEW i \in DOMAIN w.disk[w.path],
                End[w.disk[w.path][i].name] <= b
         PROVE  \E j \in DOMAIN v.disk[w.path] :
                  v.disk[w.path][j] = w.disk[w.path][i]
    <3> DEFINE r == w.disk[w.path][i]
    <3>1. CASE w.created
      <4>1. InFile(w) = w.disk[w.path]
        BY <3>1 DEF InFile
      <4>2. out \in Seq(Complete) /\ w.disk[w.path] \in Seq(Complete)
        BY <2>1, <2>3, <2>4
      <4>3. /\ Len(InFile(w) \o out) = Len(InFile(w)) + Len(out)
            /\ Len(InFile(w)) \in Nat /\ Len(out) \in Nat
            /\ \A j \in 1 .. Len(InFile(w)) :
                 (InFile(w) \o out)[j] = InFile(w)[j]
            /\ DOMAIN InFile(w) = 1 .. Len(InFile(w))
            /\ DOMAIN (InFile(w) \o out) = 1 .. Len(InFile(w) \o out)
        BY <2>8, <4>2, ConcatProperties, LenProperties
      <4>4. i \in DOMAIN (InFile(w) \o out)
        BY <2>14, <4>1, <4>3
      <4>5. (InFile(w) \o out)[i] = r
        BY <2>14, <4>1, <4>3
      <4>6. QED
        BY <2>7, <4>4, <4>5
    <3>2. CASE ~w.created
      <4>1. PICK n : n \in Names(w.staged)
        BY <2>1, <2>2, NoNames
      <4>2. /\ n \in Names(Held(w)) /\ Place(n) = w.path /\ End[n] > b
            /\ n \in Entry /\ End[n] \in Int /\ End[n] <= Horizon
        BY <2>1, <2>8, <2>11, <4>1 DEF FreshFrom
      <4>3. r.name \in Names(w.disk[w.path])
        BY <2>14 DEF Names
      <4>4. /\ Place(r.name) = w.path /\ End[r.name] >= 1
            /\ End[r.name] \in Int /\ End[r.name] <= Horizon
        <5>1. w.disk[w.path] \in Seq(Complete)
          BY <2>1, <2>3
        <5>2. QED
          BY <2>3, <2>11, <4>3, <5>1
             DEF WriterOnce, FilesOnce, FreshFrom, Present
      <4>5. End[n] - 1 \in Step /\ End[r.name] - 1 \in Step
        BY <4>2, <4>4, HorizonAssumption DEF Step
      <4>6. End[n] - 1 = End[r.name] - 1
        BY <4>2, <4>4, <4>5 DEF PathPerStep, Place
      <4>7. QED
        BY <2>14, <4>2, <4>4, <4>6
    <3>3. QED
      BY <3>1, <3>2
  <2>15. OldKept(w, v, b)
    BY <2>3, <2>7, <2>14 DEF OldKept
  <2>16. QED
    BY <2>13, <2>15 DEF v
<1>3. QED
  BY <1>1, <1>2

LEMMA OldKeptThrough ==
  ASSUME NEW w, NEW u, NEW v, NEW b, OldKept(w, u, b), OldKept(u, v, b)
  PROVE  OldKept(w, v, b)
PROOF
<1> SUFFICES ASSUME NEW f \in OutputFile, NEW i \in DOMAIN w.disk[f],
                    End[w.disk[f][i].name] <= b
             PROVE  \E j \in DOMAIN v.disk[f] : v.disk[f][j] = w.disk[f][i]
  BY DEF OldKept
<1>1. PICK m \in DOMAIN u.disk[f] : u.disk[f][m] = w.disk[f][i]
  BY DEF OldKept
<1>2. PICK j \in DOMAIN v.disk[f] : v.disk[f][j] = u.disk[f][m]
  BY <1>1 DEF OldKept
<1>3. QED
  BY <1>1, <1>2

LEMMA CloseKeepsOld ==
  ASSUME PathPerStep, NEW w \in GoodWriter, WriterOnce(w), NEW b \in Nat,
         FreshFrom(w, b)
  PROVE  OldKept(w, CloseWriter(w), b) /\ FreshFrom(CloseWriter(w), b)
PROOF
<1> DEFINE k == Len(w.staged)
           u == FlushPrefix(w, k)
           v == CloseWriter(w)
<1>1. k \in 0 .. Len(w.staged)
  BY LenProperties DEF GoodWriter
<1>2. OldKept(w, u, b) /\ FreshFrom(u, b) /\ u \in GoodWriter
  BY <1>1, FlushKeepsOld, FlushPrefixGood
<1>3. Names(Held(v)) = {}
  BY CloseOnce
<1>4. v = [u EXCEPT !.created = FALSE]
  BY DEF CloseWriter
<1> HIDE DEF k, u, v
<1>5. v.disk = u.disk
  BY <1>2, <1>4 DEF GoodWriter
<1>6. OldKept(w, v, b) /\ FreshFrom(v, b)
  BY <1>2, <1>3, <1>5 DEF OldKept, FreshFrom
<1>7. QED
  BY <1>6 DEF v

LEMMA SelectKeepsOld ==
  ASSUME PathPerStep, NEW w \in GoodWriter, WriterOnce(w), NEW b \in Nat,
         FreshFrom(w, b), NEW path \in OutputFile
  PROVE  OldKept(w, SelectPath(w, path), b) /\ FreshFrom(SelectPath(w, path), b)
PROOF
<1> DEFINE v == SelectPath(w, path)
<1>1. CASE path = w.path
  BY <1>1 DEF SelectPath, OldKept
<1>2. CASE path # w.path
  <2> DEFINE u == CloseWriter(w)
  <2>1. u \in GoodWriter /\ OldKept(w, u, b) /\ FreshFrom(u, b)
    BY CloseWriterGood, CloseKeepsOld
  <2>2. v = [u EXCEPT !.path = path]
    BY <1>2 DEF SelectPath
  <2> HIDE DEF u
  <2>3. v.disk = u.disk
    BY <2>1, <2>2 DEF GoodWriter
  <2>4. Names(Held(v)) \subseteq Names(Held(w))
    BY SelectOnce
  <2> HIDE DEF v
  <2>5. OldKept(w, v, b) /\ FreshFrom(v, b)
    BY <2>1, <2>3, <2>4 DEF OldKept, FreshFrom
  <2>6. QED
    BY <2>5 DEF v
<1>3. QED
  BY <1>1, <1>2

LEMMA EmitKeepsOld ==
  ASSUME PathPerStep, NEW w \in GoodWriter, WriterOnce(w), NEW b \in Nat,
         FreshFrom(w, b),
         NEW path \in OutputFile, NEW batch \in Seq(Complete), Distinct(batch),
         Names(batch) \cap Names(Held(w)) = {},
         \A n \in Names(batch) : Place(n) = path /\ End[n] > b,
         NEW v \in Written(SelectPath(w, path), batch)
  PROVE  OldKept(w, v, b) /\ FreshFrom(v, b)
PROOF
<1> DEFINE u == SelectPath(w, path)
           full == [u EXCEPT !.staged = @ \o batch]
<1>1. /\ u \in GoodWriter /\ WriterOnce(u) /\ u.path = path
      /\ Names(Held(u)) \subseteq Names(Held(w))
      /\ OldKept(w, u, b) /\ FreshFrom(u, b)
  BY SelectOnce, SelectKeepsOld
<1> HIDE DEF u
<1>2. CASE batch = <<>>
  <2>1. v = u
    BY <1>2 DEF Written, u
  <2>2. QED
    BY <1>1, <2>1
<1>3. CASE batch # <<>>
  <2>1. u.staged \in Seq(Complete)
    BY <1>1 DEF GoodWriter
  <2>2. u.staged \o batch \in Seq(Complete)
    BY <2>1, ConcatNames
  <2>3. /\ full \in GoodWriter /\ full.disk = u.disk
        /\ full.staged = u.staged \o batch
    BY <1>1, <2>2 DEF GoodWriter
  <2>4. PICK k \in 0 .. Len(full.staged) : v = FlushPrefix(full, k)
    BY <1>3 DEF Written, full, u
  <2> HIDE DEF full
  <2>5. full \in Written(u, batch)
    <3>1. 0 \in 0 .. Len(full.staged)
      BY <2>2, <2>3, LenProperties
    <3>2. FlushPrefix(full, 0) = full
      BY DEF FlushPrefix
    <3>3. QED
      BY <1>3, <3>1, <3>2 DEF Written, full
  <2>6. WriterOnce(full) /\ Names(Held(full)) = Names(Held(u)) \cup Names(batch)
    <3>1. Names(batch) \cap Names(Held(u)) = {}
      BY <1>1
    <3>2. \A n \in Names(batch) : Place(n) = u.path
      BY <1>1
    <3>3. QED
      BY <1>1, <2>5, <3>1, <3>2, WrittenOnce
  <2>7. FreshFrom(full, b) /\ OldKept(u, full, b)
    BY <1>1, <2>3, <2>6 DEF FreshFrom, OldKept
  <2>8. OldKept(full, v, b) /\ FreshFrom(v, b)
    BY <2>3, <2>4, <2>6, <2>7, FlushKeepsOld
  <2>9. QED
    BY <1>1, <2>7, <2>8, OldKeptThrough
<1>4. QED
  BY <1>2, <1>3

\* The manager's writer while a run that has kept what was old goes on.
LEMMA OldWriter ==
  ASSUME IInv, Emission, Fresh, phase # "down"
  PROVE  /\ Writer \in GoodWriter /\ WriterOnce(Writer)
         /\ start \in Nat /\ FreshFrom(Writer, start)
PROOF
<1>1. start \in Nat
  BY Types DEF Boundary
<1>2. QED
  BY <1>1, Types, WriterIsGood DEF IInv, Emission, Fresh

LEMMA WriteKeepsOld ==
  ASSUME PathPerStep, IInv, Emission, Fresh, phase # "down",
         NEW path \in OutputFile, NEW batch \in Seq(Complete), Distinct(batch),
         Names(batch) \cap Names(Held(Writer)) = {},
         \A n \in Names(batch) : Place(n) = path /\ End[n] > start,
         NEW w \in Written(SelectPath(Writer, path), batch), SetWriter(w)
  PROVE  OldKept(Writer, Writer', start) /\ FreshFrom(Writer', start)
PROOF
<1>1. /\ Writer \in GoodWriter /\ WriterOnce(Writer)
      /\ start \in Nat /\ FreshFrom(Writer, start)
  BY OldWriter
<1> DEFINE v == Writer
<1>2. /\ v \in GoodWriter /\ WriterOnce(v) /\ FreshFrom(v, start)
      /\ Names(batch) \cap Names(Held(v)) = {}
      /\ w \in Written(SelectPath(v, path), batch)
  BY <1>1
<1> HIDE DEF v
<1>3. OldKept(v, w, start) /\ FreshFrom(w, start)
  BY <1>1, <1>2, EmitKeepsOld
<1>4. w \in GoodWriter
  BY <1>2, EmitIs
<1>5. Writer' = w
  BY <1>4 DEF SetWriter, Writer, GoodWriter
<1>6. QED
  BY <1>3, <1>5 DEF v

LEMMA SampleKeepsOld ==
  ASSUME PathPerStep, IInv, Emission, Keeping, Fresh, Sample
  PROVE  Fresh' /\ OldKept(Writer, Writer', start)
PROOF
<1>1. /\ phase = "running" /\ phase' # "down" /\ ~UseCuda /\ position = current
      /\ start' = start /\ detached' = detached
  BY DEF Sample, runVars, cudaVars
<1>2. PICK init \in Initialized(current), batch \in Seq(Complete) :
        /\ Distinct(batch) /\ Names(batch) \cap Names(Held(Writer)) = {}
        /\ OutPath[current] \in OutputFile
        /\ \A n \in Names(batch) : Place(n) = OutPath[current]
        /\ Names(batch) = {e \in Names(init.plan) : End[e] = current + 1}
        /\ \E w \in Written(SelectPath(Writer, OutPath[current]), batch) :
             SetWriter(w)
  BY SampleBatch
<1>3. start \in Nat /\ current \in Nat /\ start <= current
  BY <1>1, KeepingIs
<1>4. \A n \in Names(batch) : End[n] > start
  BY <1>2, <1>3
<1>5. OldKept(Writer, Writer', start) /\ FreshFrom(Writer', start)
  BY <1>1, <1>2, <1>4, WriteKeepsOld
<1>6. Len(detached') = 0
  BY <1>1, EmptySeq DEF Emission, Batches
<1>7. Writer'.disk = science'
  BY DEF Writer
<1>8. QED
  BY <1>1, <1>5, <1>6, <1>7 DEF Fresh, FreshFrom

LEMMA DrainKeepsOld ==
  ASSUME PathPerStep, IInv, Emission, Fresh, DrainOne
  PROVE  Fresh' /\ OldKept(Writer, Writer', start)
PROOF
<1> DEFINE out == detached[drained + 1]
<1>1. /\ phase # "down" /\ start' = start /\ detached' = detached
      /\ drained' = drained + 1
  BY DEF DrainOne, Draining, loopVars, runVars
<1>2. /\ drained \in Nat /\ drained + 1 \in 1 .. Len(detached)
      /\ out.path \in OutputFile /\ out.batch \in Seq(Complete)
      /\ Distinct(out.batch) /\ Names(out.batch) \cap Names(Held(Writer)) = {}
      /\ \A n \in Names(out.batch) : Place(n) = out.path
      /\ \E w \in IF out.batch = <<>> THEN {Writer}
                  ELSE Written(SelectPath(Writer, out.path), out.batch) :
           SetWriter(w)
  BY DrainBatch
<1>3. \A n \in Names(out.batch) : End[n] > start
  <2>1. drained + 1 > drained
    BY <1>2
  <2>2. QED
    BY <1>1, <1>2, <2>1 DEF Fresh
<1> HIDE DEF out
<1>4. OldKept(Writer, Writer', start) /\ FreshFrom(Writer', start)
  <2>1. CASE out.batch = <<>>
    <3>1. Writer' = Writer
      BY <1>2, <2>1 DEF SetWriter, Writer
    <3>2. FreshFrom(Writer, start)
      BY <1>1, OldWriter
    <3>3. QED
      BY <3>1, <3>2 DEF OldKept
  <2>2. CASE out.batch # <<>>
    <3>1. PICK w \in Written(SelectPath(Writer, out.path), out.batch) : SetWriter(w)
      BY <1>2, <2>2
    <3>2. QED
      BY <1>1, <1>2, <1>3, <3>1, WriteKeepsOld
  <2>3. QED
    BY <2>1, <2>2
<1>5. \A k \in 1 .. Len(detached) : k > drained + 1 =>
        \A n \in Names(detached[k].batch) : End[n] > start
  <2>1. \A k \in 1 .. Len(detached) : k > drained + 1 => k > drained
    BY <1>2
  <2>2. QED
    BY <1>1, <2>1 DEF Fresh
<1>6. Writer'.disk = science'
  BY DEF Writer
<1>7. QED
  BY <1>1, <1>4, <1>5, <1>6 DEF Fresh, FreshFrom

\* Handlers that write nothing.
LEMMA FrameKeepsOld ==
  ASSUME IInv, Emission, Fresh, phase # "down", start' = start,
         UNCHANGED writerVars,
         \A k \in 1 .. Len(detached') : k > drained' =>
           \A n \in Names(detached'[k].batch) : End[n] > start
  PROVE  Fresh' /\ OldKept(Writer, Writer', start)
PROOF
<1>1. Writer' = Writer /\ science' = science
  BY DEF writerVars, Writer
<1>2. OldKept(Writer, Writer, start)
  BY DEF OldKept
<1>3. QED
  BY <1>1, <1>2 DEF Fresh

LEMMA DetachKeepsOld ==
  ASSUME IInv, Emission, Keeping, Fresh, phase # "down", pending # <<>>,
         DetachPending, start' = start, UNCHANGED writerVars, drained = 0
  PROVE  Fresh' /\ OldKept(Writer, Writer', start)
PROOF
<1> DEFINE n == Len(pending)
           old == Len(detached)
<1>1. /\ n \in Nat /\ old \in Nat /\ Len(detached') = old + n
      /\ \A m \in 1 .. old : detached'[m] = detached[m]
      /\ \A k \in 1 .. n : \A x \in Names(detached'[old + k].batch) :
           End[x] = position + k
  BY DetachedIs
<1>2. start \in Nat /\ position \in Nat /\ start <= position
  BY KeepingIs
<1>3. ASSUME NEW k \in 1 .. old + n, NEW x \in Names(detached'[k].batch)
      PROVE  End[x] > start
  <2>1. CASE k \in 1 .. old
    BY <1>1, <1>3, <2>1 DEF Fresh
  <2>2. CASE k \notin 1 .. old
    <3>1. k - old \in 1 .. n /\ old + (k - old) = k
      BY <1>1, <2>2
    <3>2. End[x] = position + (k - old)
      BY <1>1, <1>3, <3>1
    <3>3. QED
      BY <1>2, <3>1, <3>2
  <2>3. QED
    BY <2>1, <2>2
<1>4. QED
  BY <1>1, <1>3, FrameKeepsOld

\* The end of a process: the writer is closed, or what it had open is lost.
LEMMA EndKeepsOld ==
  ASSUME PathPerStep, IInv, Emission, Fresh, phase # "down", Gone,
         \/ science' = science \/ science' = CloseWriter(Writer).disk
         \/ created /\ science' = [science EXCEPT ![outPath] = <<>>]
  PROVE  Fresh' /\ OldKept(Writer, Writer', start)
PROOF
<1> DEFINE w == Writer
<1>1. /\ w \in GoodWriter /\ WriterOnce(w) /\ start \in Nat
      /\ FreshFrom(w, start) /\ w.disk = science /\ w.path = outPath
      /\ w.created = created
  BY OldWriter DEF Writer
<1>2. Writer'.disk = science' /\ phase' = "down"
  BY DEF Gone, Writer
<1>3. CASE science' = science
  BY <1>1, <1>2, <1>3 DEF OldKept, FreshFrom, Fresh
<1>4. CASE science' = CloseWriter(w).disk
  <2>1. OldKept(w, CloseWriter(w), start) /\ FreshFrom(CloseWriter(w), start)
    BY <1>1, CloseKeepsOld
  <2>2. QED
    BY <1>2, <1>4, <2>1 DEF OldKept, FreshFrom, Fresh
<1>5. CASE created /\ science' = [science EXCEPT ![outPath] = <<>>]
  <2>1. science \in [OutputFile -> Seq(Complete)] /\ outPath \in OutputFile
    BY <1>1, <1>5 DEF GoodWriter, WriterOnce
  <2>2. /\ science'[outPath] = <<>>
        /\ \A f \in OutputFile : f # outPath => science'[f] = science[f]
    BY <1>5, <2>1
  <2>3. Present(science')
    <3>1. Present(science)
      BY DEF Fresh
    <3>2. QED
      BY <2>2, <3>1, EmptyNames DEF Present
  <2>4. ASSUME NEW i \in DOMAIN science[outPath]
        PROVE  ~ (End[science[outPath][i].name] <= start)
    <3> DEFINE e == science[outPath][i].name
    <3>1. e \in Names(InFile(w))
      BY <1>1, <1>5 DEF InFile, Names
    <3>2. e \in Names(Held(w)) /\ Held(w) \in Seq(Complete)
      BY <1>1, <3>1, HeldIs
    <3>3. e \in Entry
      BY <3>2, CompleteNames
    <3>4. End[e] > start /\ End[e] \in Int
      BY <1>1, <3>2, <3>3, EntryAssumption DEF FreshFrom
    <3>5. QED
      BY <1>1, <3>4
  <2>5. OldKept(w, Writer', start)
    BY <1>1, <1>2, <2>1, <2>2, <2>4 DEF OldKept
  <2>6. QED
    BY <1>2, <2>3, <2>5 DEF Fresh
<1>6. QED
  BY <1>3, <1>4, <1>5

LEMMA InitFresh == Init => Fresh
PROOF
<1> SUFFICES ASSUME Init PROVE Fresh
  OBVIOUS
<1>1. phase = "down" /\ \A f \in OutputFile : science[f] = <<>>
  BY DEF Init
<1>2. QED
  BY <1>1, EmptyNames DEF Fresh, Present

LEMMA OpenFresh ==
  ASSUME IInv, Emission, Fresh, NEW t \in Boundary, NEW end \in Boundary,
         Open(t, end)
  PROVE  Fresh'
PROOF
<1>1. /\ phase = "down" /\ UNCHANGED writerVars /\ detached' = detached
  BY DEF Open, cudaVars
<1>2. detached = <<>> /\ staged = <<>> /\ ~created
  BY <1>1 DEF IInv, Control, Emission
<1>3. Writer' = Writer /\ science' = science /\ Writer.disk = science
  BY <1>1 DEF writerVars, Writer
<1>4. Names(Held(Writer)) = {}
  BY <1>2, HeldNothing, EmptyNames DEF Writer
<1>5. Len(detached') = 0
  BY <1>1, <1>2, EmptySeq
<1>6. QED
  BY <1>3, <1>4, <1>5 DEF Fresh, FreshFrom

\* Every step of a run keeps what was complete when the run started.
LEMMA NextKeepsOld ==
  ASSUME NoInterrupt, PathPerStep, IInv, Emission, Keeping, Fresh, [Next]_vars
  PROVE  Fresh' /\ (phase # "down" => OldKept(Writer, Writer', start))
PROOF
<1>1. ASSUME NEW t \in Boundary, NEW end \in Boundary, Open(t, end)
      PROVE  Fresh' /\ phase = "down"
  BY <1>1, OpenFresh DEF Open
<1>2. CASE Sample
  BY <1>2, SampleKeepsOld
<1>3. CASE DrainOne
  BY <1>3, DrainKeepsOld
<1>4. CASE DrainDone
  <2>1. /\ phase # "down" /\ start' = start /\ UNCHANGED writerVars
        /\ detached' = <<>>
    BY <1>4 DEF DrainDone, Draining, runVars
  <2>2. Len(detached') = 0
    BY <2>1, EmptySeq
  <2>3. QED
    BY <2>1, <2>2, FrameKeepsOld
<1>5. CASE Detach
  <2>1. /\ phase = "detach" /\ DetachPending /\ start' = start
        /\ UNCHANGED writerVars
    BY <1>5 DEF Detach, runVars
  <2>2. pending # <<>> /\ drained = 0
    BY <2>1 DEF IInv, Control, Emission, Batches, Draining
  <2>3. QED
    BY <2>1, <2>2, DetachKeepsOld
<1>6. CASE Close
  <2>1. /\ phase = "unwinding" /\ start' = start /\ UNCHANGED writerVars
        /\ drained' = 0
        /\ IF pending = <<>>
           THEN UNCHANGED <<plan, detached, first, position, pending>>
           ELSE DetachPending
    BY <1>6 DEF Close, runVars
  <2>2. drained = 0
    BY <2>1 DEF Emission, Batches, Draining
  <2>3. CASE pending = <<>>
    <3>1. \A k \in 1 .. Len(detached) : k > 0 =>
            \A n \in Names(detached[k].batch) : End[n] > start
      BY <2>1, <2>2 DEF Fresh
    <3>2. detached' = detached
      BY <2>1, <2>3
    <3>3. QED
      BY <2>1, <3>1, <3>2, FrameKeepsOld
  <2>4. CASE pending # <<>>
    BY <2>1, <2>2, <2>4, DetachKeepsOld
  <2>5. QED
    BY <2>3, <2>4
<1>7. CASE Launch \/ DetachRaises \/ Advance \/ StepEndCuda \/ Reject \/ LoopEnds
           \/ Raise
  <2>1. /\ phase # "down" /\ start' = start /\ UNCHANGED writerVars
        /\ detached' = detached /\ drained' = drained
    BY <1>7 DEF Launch, DetachRaises, Advance, StepEndCuda, Reject, LoopEnds,
                Raise, runVars, cudaVars
  <2>2. QED
    BY <2>1, FrameKeepsOld DEF Fresh
<1>8. CASE CloseDetachRaises \/ CloseFinishes \/ CloseRefused \/ RestartFails
           \/ Crash
  <2>1. /\ phase # "down" /\ Gone
        /\ \/ science' = science \/ science' = CloseWriter(Writer).disk
           \/ created /\ science' = [science EXCEPT ![outPath] = <<>>]
    BY <1>8 DEF CloseDetachRaises, CloseFinishes, CloseRefused, RestartFails, Crash
  <2>2. QED
    BY <2>1, EndKeepsOld
<1>9. CASE SampleInterrupted \/ DrainInterrupted
  BY <1>9 DEF SampleInterrupted, DrainInterrupted, NoInterrupt
<1>10. CASE UNCHANGED vars
  <2>1. /\ phase' = phase /\ start' = start /\ UNCHANGED writerVars
        /\ detached' = detached /\ drained' = drained
    BY <1>10 DEF vars, loopVars, runVars, cudaVars
  <2>2. Writer' = Writer /\ science' = science
    BY <2>1 DEF writerVars, Writer
  <2>3. OldKept(Writer, Writer', start)
    BY <2>2 DEF OldKept
  <2>4. QED
    BY <2>1, <2>2, <2>3 DEF Fresh
<1>11. QED
  BY <1>1, <1>2, <1>3, <1>4, <1>5, <1>6, <1>7, <1>8, <1>9, <1>10
     DEF Next, Run, Fault

\* A run that continues from a restart leaves alone every record that was
\* complete at its boundary, whichever of its steps is next (writer.py
\* _ensure_created replaces a file, manager.py _select_output_path opens only
\* those of the run's own steps), provided no two steps share an output file.
THEOREM ContinuationKeeps ==
  ASSUME NoInterrupt, PathPerStep
  PROVE  Spec => ContinuationKeepsOutput
PROOF
<1>1. PathsInOrder
  BY DEF PathPerStep, PathsInOrder, Step
<1>2. Spec => [](IInv /\ Emission /\ Keeping)
  BY <1>1, KeepingHolds
<1>3. Init => Fresh
  BY InitFresh
<1>4. IInv /\ Emission /\ Keeping /\ Fresh /\ [Next]_vars => Fresh'
  BY NextKeepsOld
<1>5. IInv /\ Emission /\ Keeping /\ Fresh /\ [Next]_vars =>
        [\A f \in OutputFile : \A r \in Records(f) :
           phase # "down" /\ End[r.name] <= start =>
             \E i \in DOMAIN science'[f] : science'[f][i] = r]_vars
  <2> SUFFICES ASSUME IInv, Emission, Keeping, Fresh, [Next]_vars,
                      NEW f \in OutputFile, NEW r \in Records(f),
                      phase # "down", End[r.name] <= start
               PROVE  \E i \in DOMAIN science'[f] : science'[f][i] = r
    OBVIOUS
  <2>1. PICK i \in DOMAIN science[f] : science[f][i] = r
    BY DEF Records
  <2>2. OldKept(Writer, Writer', start)
    BY NextKeepsOld
  <2>3. Writer.disk = science /\ Writer'.disk = science'
    BY DEF Writer
  <2>4. QED
    BY <2>1, <2>2, <2>3 DEF OldKept
<1>6. QED
  BY <1>2, <1>3, <1>4, <1>5, PTL DEF Spec, ContinuationKeepsOutput

-----------------------------------------------------------------------------
(* The refinement of the promise.                                          *)

\* What a process holds is only lost with the process: an exception elsewhere
\* leaves it to close(); a crash drops what is staged, and a device error flag
\* makes close() raise before it has written what it detached.
NothingDropped == Faults \subseteq {"raise"}

LEMMA Conditions ==
  ASSUME NothingDropped, PathPerStep
  PROVE  /\ NoInterrupt /\ PathsInOrder
         /\ "crash" \notin Faults /\ "altitude" \notin Faults
PROOF
<1>1. NoInterrupt /\ "crash" \notin Faults /\ "altitude" \notin Faults
  BY DEF NothingDropped, NoInterrupt
<1>2. PathsInOrder
  BY HorizonAssumption DEF PathPerStep, PathsInOrder, Step
<1>3. QED
  BY <1>1, <1>2
-----------------------------------------------------------------------------
(* The writer: nothing it has is lost, not even when it opens a file anew. *)

LEMMA HasIs ==
  ASSUME NEW w, NEW n
  PROVE  n \in Has(w) <=>
           n \in Names(w.staged) \/ \E f \in OutputFile : n \in Names(w.disk[f])
PROOF
  BY DEF Has

LEMMA FlushKeeps ==
  ASSUME NEW w \in GoodWriter, WriterOnce(w), RenewsOwn(w),
         NEW k \in 0 .. Len(w.staged)
  PROVE  RenewsOwn(FlushPrefix(w, k)) /\ Has(FlushPrefix(w, k)) = Has(w)
PROOF
<1> DEFINE v == FlushPrefix(w, k)
<1>1. CASE k = 0
  BY <1>1 DEF FlushPrefix
<1>2. CASE k # 0
  <2> DEFINE out == SubSeq(w.staged, 1, k)
             rest == SubSeq(w.staged, k + 1, Len(w.staged))
             disk == [w.disk EXCEPT ![w.path] = InFile(w) \o out]
  <2>1. w.staged \in Seq(Complete) /\ w.disk \in [OutputFile -> Seq(Complete)]
    BY DEF GoodWriter
  <2>2. w.staged # <<>>
    BY <1>2, <2>1, EmptySeq
  <2>3. w.path \in OutputFile
    BY <2>2 DEF WriterOnce
  <2>4. out \in Seq(Complete) /\ rest \in Seq(Complete) /\ out \o rest = w.staged
    BY <2>1, CutNames
  <2>5. v = [w EXCEPT !.disk = disk, !.staged = rest, !.created = TRUE]
    BY <1>2, <2>1, <2>3 DEF FlushPrefix, GoodWriter, InFile
  <2>6. v.created = TRUE /\ v.staged = rest /\ v.disk = disk
    BY <2>5 DEF GoodWriter
  <2> HIDE DEF v
  <2>7. InFile(w) \in Seq(Complete)
    BY HeldIs
  <2>8. /\ v.disk[w.path] = InFile(w) \o out
        /\ \A f \in OutputFile : f # w.path => v.disk[f] = w.disk[f]
    BY <2>1, <2>3, <2>6
  <2> HIDE DEF out, rest
  <2>9. /\ Names(w.staged) = Names(out) \cup Names(rest)
        /\ Names(v.disk[w.path]) = Names(InFile(w)) \cup Names(out)
    <3>1. Names(out \o rest) = Names(out) \cup Names(rest)
      BY ZenonT(60), <2>4, ConcatNames
    <3>2. out \in Seq(Complete)
      BY <2>4
    <3>3. Names(InFile(w) \o out) = Names(InFile(w)) \cup Names(out)
      BY <2>7, <3>2, ConcatNames
    <3>4. QED
      BY <2>4, <2>8, <3>1, <3>3
  <2>10. /\ Names(InFile(w)) \subseteq Names(w.disk[w.path])
         /\ Names(w.disk[w.path]) \subseteq Names(InFile(w)) \cup Names(w.staged)
    <3>1. CASE w.created
      BY <3>1 DEF InFile
    <3>2. CASE ~w.created
      BY <2>3, <3>2, EmptyNames DEF InFile, RenewsOwn
    <3>3. QED
      BY <3>1, <3>2
  <2>11. ASSUME NEW n PROVE n \in Has(v) <=> n \in Has(w)
    <3>1. n \in Has(v) <=> \/ n \in Names(rest)
                           \/ \E f \in OutputFile : n \in Names(v.disk[f])
      BY <2>6, HasIs
    <3>2. (\E f \in OutputFile : n \in Names(v.disk[f])) <=>
             \/ n \in Names(v.disk[w.path])
             \/ \E f \in OutputFile : f # w.path /\ n \in Names(w.disk[f])
      BY <2>3, <2>8
    <3>3. (\E f \in OutputFile : n \in Names(w.disk[f])) <=>
             \/ n \in Names(w.disk[w.path])
             \/ \E f \in OutputFile : f # w.path /\ n \in Names(w.disk[f])
      BY <2>3
    <3>4. QED
      BY <2>9, <2>10, <3>1, <3>2, <3>3, HasIs
  <2>12. RenewsOwn(v)
    BY <2>6 DEF RenewsOwn
  <2>13. QED
    BY <2>11, <2>12 DEF v, Has
<1>3. QED
  BY <1>1, <1>2

LEMMA CloseKeeps ==
  ASSUME NEW w \in GoodWriter, WriterOnce(w), RenewsOwn(w)
  PROVE  /\ Has(CloseWriter(w)) = Has(w)
         /\ Has(CloseWriter(w)) = UNION {Names(CloseWriter(w).disk[f]) : f \in OutputFile}
PROOF
<1> DEFINE k == Len(w.staged)
           u == FlushPrefix(w, k)
           v == CloseWriter(w)
<1>1. k \in 0 .. Len(w.staged)
  BY LenProperties DEF GoodWriter
<1>2. Has(u) = Has(w) /\ u \in GoodWriter
  BY <1>1, FlushKeeps, FlushPrefixGood
<1>3. v.staged = <<>>
  BY CloseOnce
<1>4. v = [u EXCEPT !.created = FALSE]
  BY DEF CloseWriter
<1> HIDE DEF u, v, k
<1>5. v.staged = u.staged /\ v.disk = u.disk
  BY <1>2, <1>4 DEF GoodWriter
<1>6. Has(v) = Has(u)
  BY <1>5 DEF Has
<1>7. QED
  BY <1>2, <1>3, <1>6, EmptyNames DEF v, Has

\* A write adds the batch, in the open file or in one of its own.
LEMMA EmitKeeps ==
  ASSUME NEW w \in GoodWriter, WriterOnce(w), RenewsOwn(w),
         NEW path \in OutputFile, NEW batch \in Seq(Complete), Distinct(batch),
         Names(batch) \cap Names(Held(w)) = {},
         \A n \in Names(batch) : Place(n) = path,
         path # w.path => Names(w.disk[path]) \subseteq Names(batch),
         NEW v \in Written(SelectPath(w, path), batch)
  PROVE  RenewsOwn(v) /\ Has(v) = Has(w) \cup Names(batch)
PROOF
<1> DEFINE u == SelectPath(w, path)
           full == [u EXCEPT !.staged = @ \o batch]
<1>1. /\ u \in GoodWriter /\ WriterOnce(u) /\ u.path = path
      /\ Names(Held(u)) \subseteq Names(Held(w))
      /\ path = w.path => u = w
  BY SelectOnce
<1>2. Has(u) = Has(w)
  <2>1. CASE path = w.path
    BY <1>1, <2>1
  <2>2. CASE path # w.path
    <3>1. CloseWriter(w) \in GoodWriter
      BY CloseWriterGood
    <3>2. u = [CloseWriter(w) EXCEPT !.path = path]
      BY <2>2 DEF SelectPath
    <3>3. u.staged = CloseWriter(w).staged /\ u.disk = CloseWriter(w).disk
      BY <3>1, <3>2 DEF GoodWriter
    <3>4. Has(u) = Has(CloseWriter(w))
      BY <3>3 DEF Has
    <3>5. QED
      BY <3>4, CloseKeeps
  <2>3. QED
    BY <2>1, <2>2
<1>3. path # w.path =>
        u.staged = <<>> /\ u.created = FALSE /\ u.disk[path] = w.disk[path]
  <2> SUFFICES ASSUME path # w.path
               PROVE  u.staged = <<>> /\ u.created = FALSE
                      /\ u.disk[path] = w.disk[path]
    OBVIOUS
  <2>1. /\ CloseWriter(w) \in GoodWriter /\ CloseWriter(w).staged = <<>>
        /\ CloseWriter(w).created = FALSE
        /\ CloseWriter(w).disk[path] = w.disk[path]
    BY CloseOnce
  <2>2. u = [CloseWriter(w) EXCEPT !.path = path]
    BY DEF SelectPath
  <2>3. QED
    BY <2>1, <2>2 DEF GoodWriter
<1> HIDE DEF u
<1>4. u.staged \in Seq(Complete) /\ u.disk \in [OutputFile -> Seq(Complete)]
  BY <1>1 DEF GoodWriter
<1>5. /\ u.staged \o batch \in Seq(Complete)
      /\ Names(u.staged \o batch) = Names(u.staged) \cup Names(batch)
  BY <1>4, ConcatNames
<1>6. /\ full \in GoodWriter /\ full.path = path /\ full.created = u.created
      /\ full.disk = u.disk /\ full.staged = u.staged \o batch
  BY <1>1, <1>5 DEF GoodWriter
<1> HIDE DEF full
<1>7. ~u.created => Names(u.disk[path]) \subseteq Names(u.staged) \cup Names(batch)
  <2>1. CASE path = w.path
    BY <1>1, <2>1 DEF RenewsOwn
  <2>2. CASE path # w.path
    BY <1>3, <2>2
  <2>3. QED
    BY <2>1, <2>2
<1>8. CASE batch = <<>>
  <2>1. v = u
    BY <1>8 DEF Written, u
  <2>2. RenewsOwn(u)
    BY <1>1, <1>7, <1>8, EmptyNames DEF RenewsOwn
  <2>3. QED
    BY <1>2, <1>8, <2>1, <2>2, EmptyNames
<1>9. CASE batch # <<>>
  <2>1. PICK k \in 0 .. Len(full.staged) : v = FlushPrefix(full, k)
    BY <1>9 DEF Written, full, u
  <2>2. RenewsOwn(full)
    BY <1>5, <1>6, <1>7 DEF RenewsOwn
  <2>3. Has(full) = Has(u) \cup Names(batch)
    BY <1>5, <1>6 DEF Has
  <2>4. WriterOnce(full)
    <3>1. 0 \in 0 .. Len(full.staged)
      BY <1>5, <1>6, LenProperties
    <3>2. FlushPrefix(full, 0) = full
      BY DEF FlushPrefix
    <3>3. full \in Written(u, batch)
      BY <1>9, <3>1, <3>2 DEF Written, full
    <3>4. Names(batch) \cap Names(Held(u)) = {}
      BY <1>1
    <3>5. QED
      BY <1>1, <3>3, <3>4, WrittenOnce
  <2>5. QED
    BY <1>2, <1>6, <2>1, <2>2, <2>3, <2>4, FlushKeeps
<1>10. QED
  BY <1>8, <1>9
-----------------------------------------------------------------------------
(* What is known, and what of it is delivered.                             *)

LEMMA KnownIs ==
  ASSUME NEW t \in Nat, NEW e
  PROVE  /\ e \in Known(t) <=> \E s \in 0 .. t - 1 : e \in FileEntries(s)
         /\ e \in Known(t + 1) <=> e \in Known(t) \/ e \in FileEntries(t)
         /\ \A u \in Nat : t <= u /\ e \in Known(t) => e \in Known(u)
PROOF
<1>1. \A u : e \in Known(u) <=> \E s \in 0 .. u - 1 : e \in FileEntries(s)
  BY DEF Known
<1>2. 0 .. (t + 1) - 1 = (0 .. t - 1) \cup {t}
  OBVIOUS
<1>3. \A u \in Nat : t <= u => 0 .. t - 1 \subseteq 0 .. u - 1
  OBVIOUS
<1>4. QED
  BY <1>1, <1>2, <1>3

LEMMA KnownEntry ==
  ASSUME NEW t \in Boundary, NEW e \in Known(t)
  PROVE  e \in Entry /\ End[e] \in Int
PROOF
<1>1. t \in Nat /\ Horizon \in Nat /\ t <= Horizon
  BY HorizonAssumption DEF Boundary
<1>2. PICK s \in 0 .. t - 1 : e \in FileEntries(s)
  BY <1>1, KnownIs
<1>3. s \in Step
  BY <1>1 DEF Step
<1> DEFINE file == Entries[InPath[s]]
<1>4. file \in Seq(Entry)
  BY <1>3, PathAssumption
<1>5. e \in {file[i] : i \in DOMAIN file}
  BY <1>2 DEF FileEntries
<1> HIDE DEF file
<1>6. e \in Entry
  BY <1>4, <1>5, LenProperties, ElementOfSeq
<1>7. QED
  BY <1>6, EntryAssumption

LEMMA TimelyIs ==
  ASSUME NEW e, End[e] \in Int, NEW t \in Nat
  PROVE  /\ Timely(e) => End[e] >= 1
         /\ Timely(e) /\ End[e] <= t => e \in Known(t)
         /\ e \in Known(t) /\ End[e] >= t => Timely(e)
PROOF
<1>1. e \in Known(End[e]) <=> \E s \in 0 .. End[e] - 1 : e \in FileEntries(s)
  BY DEF Known
<1>2. e \in Known(t) <=> \E s \in 0 .. t - 1 : e \in FileEntries(s)
  BY KnownIs
<1>3. QED
  BY <1>1, <1>2 DEF Timely

LEMMA PromiseKnows ==
  ASSUME NEW t \in Boundary
  PROVE  Promise!Known(t) = Known(t)
PROOF
<1>1. \A s \in 0 .. t - 1 : s \in Step
  BY HorizonAssumption DEF Boundary, Step
<1>2. \A s \in Step : Elements(Entries[InPath[s]]) = FileEntries(s)
  BY DEF Elements, FileEntries
<1>3. QED
  BY <1>1, <1>2 DEF Promise!Known, Known

\* A sequence of complete records delivers the observations it names.
LEMMA ElementsAre ==
  ASSUME NEW s \in Seq(Complete)
  PROVE  Elements(s) = {Promise!Observation(e) : e \in Names(s)}
PROOF
<1>1. ASSUME NEW r \in Complete PROVE r = Promise!Observation(r.name)
  <2>1. r \in Record /\ r.acc = Due(r.name, Horizon)
    BY DEF Complete, IsComplete
  <2>2. Due(r.name, Horizon) = Promise!Due(r.name, Horizon)
    BY DEF Due, Promise!Due, Covers, Promise!Covers, Step, Promise!Step
  <2>3. r = [name |-> r.name, acc |-> r.acc]
    BY <2>1 DEF Record
  <2>4. QED
    BY <2>1, <2>2, <2>3 DEF Promise!Observation
<1>2. \A i \in DOMAIN s : s[i] \in Complete
  BY LenProperties, ElementOfSeq
<1>3. \A i \in DOMAIN s : s[i] = Promise!Observation(s[i].name)
  BY <1>1, <1>2
<1>4. QED
  BY <1>3 DEF Elements, Names

LEMMA DeliveredIs ==
  ASSUME IInv
  PROVE  /\ Delivered = {Promise!Observation(e) : e \in DeliveredNames}
         /\ \A e : e \in DeliveredNames <=>
              \/ e \in Has(Writer)
              \/ \E k \in 1 .. Len(detached) : e \in Names(detached[k].batch)
PROOF
<1>1. Writer \in GoodWriter /\ detached \in Seq(Outputs)
  BY Types, WriterIsGood DEF IInv
<1>2. /\ staged \in Seq(Complete) /\ science \in [OutputFile -> Seq(Complete)]
      /\ Writer.staged = staged /\ Writer.disk = science
  BY <1>1 DEF Writer, GoodWriter
<1>3. DOMAIN detached = 1 .. Len(detached)
  BY <1>1, LenProperties
<1>4. \A k \in 1 .. Len(detached) : detached[k].batch \in Seq(Complete)
  <2>1. \A k \in 1 .. Len(detached) : detached[k] \in Outputs
    BY <1>1, ElementOfSeq
  <2>2. QED
    BY <2>1 DEF Outputs
<1> DEFINE ob(S) == {Promise!Observation(e) : e \in S}
<1>5. Elements(staged) = ob(Names(staged))
  BY <1>2, ElementsAre
<1>6. \A f \in OutputFile : Elements(science[f]) = ob(Names(science[f]))
  BY <1>2, ElementsAre
<1>7. \A k \in 1 .. Len(detached) :
        Elements(detached[k].batch) = ob(Names(detached[k].batch))
  BY <1>4, ElementsAre
<1>8. Delivered = ob(Names(staged))
                  \cup (UNION {ob(Names(science[f])) : f \in OutputFile})
                  \cup (UNION {ob(Names(detached[k].batch)) : k \in 1 .. Len(detached)})
  BY <1>3, <1>5, <1>6, <1>7 DEF Delivered
<1>9. DeliveredNames = Names(staged)
                       \cup (UNION {Names(science[f]) : f \in OutputFile})
                       \cup (UNION {Names(detached[k].batch) : k \in 1 .. Len(detached)})
  BY <1>2 DEF DeliveredNames, Has
<1>10. Delivered = ob(DeliveredNames)
  BY <1>8, <1>9
<1>11. QED
  BY <1>10 DEF DeliveredNames
-----------------------------------------------------------------------------
(* Delivery is kept, and says what each step delivers.                     *)

LEMMA DeliveredEntry ==
  ASSUME IInv, Delivery, NEW e \in DeliveredNames
  PROVE  /\ e \in Entry /\ End[e] \in 1 .. Horizon /\ Timely(e)
         /\ e \in Known(Horizon)
PROOF
<1>1. Writer \in GoodWriter /\ detached \in Seq(Outputs)
  BY Types, WriterIsGood DEF IInv
<1>2. \A n \in Complete : n.name \in Entry /\ End[n.name] <= Horizon
  BY DEF Complete, IsComplete, Record
<1>3. ASSUME NEW s \in Seq(Complete), e \in Names(s)
      PROVE  e \in Entry /\ End[e] <= Horizon
  BY <1>2, <1>3, LenProperties, ElementOfSeq DEF Names
<1>4. e \in Entry /\ End[e] <= Horizon
  <2>1. CASE e \in Has(Writer)
    <3>1. /\ Writer.staged \in Seq(Complete)
          /\ \A f \in OutputFile : Writer.disk[f] \in Seq(Complete)
      BY <1>1 DEF GoodWriter
    <3>2. QED
      BY <1>3, <2>1, <3>1, HasIs
  <2>2. CASE \E k \in 1 .. Len(detached) : e \in Names(detached[k].batch)
    <3>1. PICK k \in 1 .. Len(detached) : e \in Names(detached[k].batch)
      BY <2>2
    <3>2. detached[k] \in Outputs
      BY <1>1, ElementOfSeq
    <3>3. detached[k].batch \in Seq(Complete)
      BY <3>2 DEF Outputs
    <3>4. QED
      BY <1>3, <3>1, <3>3
  <2>3. QED
    BY <2>1, <2>2, DeliveredIs
<1>5. End[e] \in Int /\ Horizon \in Nat
  BY <1>4, EntryAssumption, HorizonAssumption
<1>6. Timely(e)
  BY DEF Delivery
<1>7. QED
  BY <1>4, <1>5, <1>6, TimelyIs

\* What Delivery says while a run is going on.
LEMMA RunIs ==
  ASSUME IInv, Emission, Keeping, Delivery, phase # "down"
  PROVE  /\ position \in Nat /\ current \in Nat /\ Reached \in Nat
         /\ Reached \in Boundary /\ position <= Reached /\ current <= Reached
         /\ Reached = position + Len(pending) /\ Len(pending) \in Nat
         /\ Horizon \in Nat /\ Reached <= Horizon
         /\ Writer \in GoodWriter /\ WriterOnce(Writer) /\ RenewsOwn(Writer)
         /\ Names(plan) \subseteq Known(Reached)
         /\ \A e \in Known(Reached) :
              /\ e \in Entry /\ End[e] \in Int /\ Timely(e)
              /\ e \in Names(plan) \/ (End[e] <= position /\ End[e] <= current)
              /\ End[e] <= position => e \in DeliveredNames
PROOF
<1>1. /\ position \in Nat /\ current \in Nat /\ Len(pending) \in Nat
      /\ position + Len(pending) <= Horizon /\ current <= position + Len(pending)
  BY KeepingIs
<1>2. Horizon \in Nat
  BY HorizonAssumption
<1>3. Reached \in Boundary /\ Reached \in Nat
  BY <1>1, <1>2 DEF Reached, Boundary
<1>4. Writer \in GoodWriter /\ WriterOnce(Writer)
  BY Types, WriterIsGood DEF IInv, Emission
<1>5. \A e \in Known(Reached) : e \in Entry /\ End[e] \in Int
  BY <1>3, KnownEntry
<1>6. QED
  BY <1>1, <1>2, <1>3, <1>4, <1>5 DEF Delivery, RunKnows, Reached

\* Steps that leave queue, writer and the names of the plan alone.
LEMMA DeliveryFrame ==
  ASSUME IInv, Emission, Keeping, Delivery, phase # "down",
         flagged' = flagged, restarts' = restarts, position' = position,
         Len(pending') = Len(pending), Names(plan') = Names(plan),
         detached' = detached, drained' = drained, UNCHANGED writerVars,
         current' \in Nat, current <= current'
  PROVE  Delivery' /\ DeliveredNames' = DeliveredNames
PROOF
<1>1. Writer' = Writer
  BY DEF writerVars, Writer
<1>2. DeliveredNames' = DeliveredNames
  BY <1>1 DEF DeliveredNames
<1>3. RestartsKnow'
  BY <1>2 DEF Delivery, RestartsKnow
<1>4. \A e \in Known(Reached) : End[e] <= current => End[e] <= current'
  BY RunIs
<1>5. RunKnows'
  BY <1>1, <1>2, <1>4 DEF Delivery, RunKnows, Reached
<1>6. QED
  BY <1>2, <1>3, <1>5 DEF Delivery

\* The restarts stay right as more is delivered.
LEMMA RestartsKeep ==
  ASSUME RestartsKnow, restarts' = restarts, DeliveredNames \subseteq DeliveredNames'
  PROVE  RestartsKnow'
PROOF
  BY DEF RestartsKnow

\* A step is initialised: what its input brings in is to come.
LEMMA KnownGrows ==
  ASSUME IInv, Emission, Keeping, Delivery, phase = "running", current < stop,
         Accepted(current), NEW init \in Initialized(current)
  PROVE  /\ current \in Nat /\ current = Reached /\ position <= current
         /\ current + 1 \in Boundary
         /\ Names(init.plan) \subseteq Known(current + 1)
         /\ \A e \in Known(current + 1) :
              /\ e \in Entry /\ End[e] \in Int /\ Timely(e)
              /\ e \in Names(init.plan) \/ (End[e] <= position /\ End[e] <= current)
              /\ End[e] <= position => e \in DeliveredNames
PROOF
<1> DEFINE t == current
<1>1. /\ t = Reached /\ t \in Step /\ t \in Nat
      /\ position \in Nat /\ position <= t
  BY InitializedNames, RunIs
<1>2. t + 1 \in Boundary
  BY <1>1, HorizonAssumption DEF Step, Boundary
<1>3. /\ Names(plan) \subseteq Known(t)
      /\ \A e \in Known(t) :
           /\ e \in Entry /\ End[e] \in Int /\ Timely(e)
           /\ e \in Names(plan) \/ (End[e] <= position /\ End[e] <= t)
           /\ End[e] <= position => e \in DeliveredNames
  BY <1>1, RunIs
<1>4. \A e : e \in Known(t + 1) <=> e \in Known(t) \/ e \in FileEntries(t)
  BY <1>1, KnownIs
<1> HIDE DEF t
<1>5. CASE NeedsInput(t)
  <2>1. /\ Names(init.plan) = {n \in Names(plan) : End[n] > t} \cup FileEntries(t)
        /\ t = position /\ \A n \in Names(init.plan) : End[n] > t
    BY <1>5, InitializedNames DEF t
  <2>2. ASSUME NEW e \in FileEntries(t)
        PROVE  /\ e \in Entry /\ End[e] \in Int /\ Timely(e)
               /\ End[e] > t /\ e \in Names(init.plan)
    <3>1. e \in Known(t + 1)
      BY <1>4, <2>2
    <3>2. e \in Entry /\ End[e] \in Int
      BY <1>2, <3>1, KnownEntry
    <3>3. e \in Names(init.plan) /\ End[e] > t
      BY <2>1, <2>2
    <3>4. End[e] >= t + 1 /\ t + 1 \in Nat
      BY <1>1, <3>2, <3>3
    <3>5. Timely(e)
      BY <3>1, <3>2, <3>4, TimelyIs
    <3>6. QED
      BY <3>2, <3>3, <3>5
  <2>3. Names(init.plan) \subseteq Known(t + 1)
    BY <1>3, <1>4, <2>1
  <2>4. ASSUME NEW e \in Known(t + 1)
        PROVE  /\ e \in Entry /\ End[e] \in Int /\ Timely(e)
               /\ e \in Names(init.plan) \/ (End[e] <= position /\ End[e] <= t)
               /\ End[e] <= position => e \in DeliveredNames
    <3>1. CASE e \in FileEntries(t)
      BY <1>1, <2>1, <2>2, <3>1
    <3>2. CASE e \in Known(t)
      BY <1>1, <1>3, <2>1, <3>2
    <3>3. QED
      BY <1>4, <2>4, <3>1, <3>2
  <2>5. QED
    BY <1>1, <1>2, <2>3, <2>4 DEF t
<1>6. CASE ~NeedsInput(t)
  <2>1. init.plan = plan
    BY <1>6, InitializedNames DEF t
  <2>2. FileEntries(t) \subseteq Known(t)
    <3>1. prevInput = InPath[t] /\ prevInput # NoFile
      BY <1>1, <1>6, PathAssumption, NoFileAssumption DEF NeedsInput
    <3>2. PICK s \in start .. position + Len(pending) - 1 : InPath[s] = prevInput
      BY <3>1 DEF Keeping
    <3>3. s \in 0 .. t - 1
      BY <1>1, KeepingIs DEF Reached
    <3>4. FileEntries(s) = FileEntries(t)
      BY <3>1, <3>2 DEF FileEntries
    <3>5. QED
      BY <1>1, <3>3, <3>4, KnownIs
  <2>3. QED
    BY <1>1, <1>2, <1>3, <1>4, <2>1, <2>2 DEF t
<1>7. QED
  BY <1>5, <1>6

\* The batch of step t is written, all that completes there: the file of t is
\* open, or holds nothing else when it is opened.
LEMMA EmitDelivers ==
  ASSUME PathPerStep, IInv, Emission, Keeping, Delivery, phase # "down",
         NEW t \in Step, NEW batch \in Seq(Complete), Distinct(batch),
         Names(batch) \cap Names(Held(Writer)) = {},
         \A n \in Names(batch) : Place(n) = OutPath[t],
         \A e \in Known(Horizon) :
           Timely(e) /\ End[e] = t + 1 => e \in Names(batch),
         NEW w \in Written(SelectPath(Writer, OutPath[t]), batch), SetWriter(w)
  PROVE  RenewsOwn(Writer') /\ Has(Writer') = Has(Writer) \cup Names(batch)
PROOF
<1> DEFINE v == Writer
<1>1. /\ v \in GoodWriter /\ WriterOnce(v) /\ RenewsOwn(v)
      /\ OutPath[t] \in OutputFile
  BY RunIs, PathAssumption
<1>2. ASSUME NEW n \in Names(v.disk[OutPath[t]]) PROVE n \in Names(batch)
  <2>1. Place(n) = OutPath[t]
    BY <1>1, <1>2 DEF WriterOnce, FilesOnce
  <2>2. n \in Has(Writer)
    BY <1>1, <1>2, HasIs
  <2>3. n \in DeliveredNames
    BY <2>2, DeliveredIs
  <2>4. End[n] \in 1 .. Horizon /\ Timely(n) /\ n \in Known(Horizon)
    BY <2>3, DeliveredEntry
  <2>5. End[n] - 1 \in Step /\ t \in Int
    BY <2>4, HorizonAssumption DEF Step
  <2>6. End[n] - 1 = t
    BY <2>1, <2>5 DEF PathPerStep, Place
  <2>7. End[n] = t + 1
    BY <2>4, <2>5, <2>6
  <2>8. QED
    BY <2>4, <2>7
<1>3. w \in Written(SelectPath(v, OutPath[t]), batch)
      /\ Names(batch) \cap Names(Held(v)) = {}
  OBVIOUS
<1> HIDE DEF v
<1>4. RenewsOwn(w) /\ Has(w) = Has(v) \cup Names(batch)
  BY <1>1, <1>2, <1>3, EmitKeeps
<1>5. Writer' = w
  BY <1>1, EmitStep DEF v
<1>6. QED
  BY <1>4, <1>5 DEF v

LEMMA SampleDelivery ==
  ASSUME PathPerStep, IInv, Emission, Keeping, Delivery, Sample
  PROVE  /\ Delivery' /\ position' = position + 1 /\ position' \in Boundary
         /\ DeliveredNames' = DeliveredNames \cup
              {e \in Known(position') : position < End[e] /\ End[e] <= position'}
PROOF
<1> DEFINE t == current
<1>1. /\ phase = "running" /\ ~UseCuda /\ t < stop /\ position = t /\ Accepted(t)
      /\ position' = t + 1 /\ current' = t /\ pending' = pending
      /\ detached' = detached /\ flagged' = flagged /\ restarts' = restarts
  BY DEF Sample, cudaVars, runVars
<1>2. /\ pending' = <<>> /\ Len(pending') = 0
      /\ detached' = <<>> /\ Len(detached) = 0 /\ Len(detached') = 0
  BY <1>1, EmptySeq DEF IInv, Control, Emission, Batches
<1>3. PICK init \in Initialized(t), batch \in Seq(Complete) :
        /\ Names(plan') = Names(init.plan)
        /\ Distinct(batch) /\ Names(batch) \cap Names(Held(Writer)) = {}
        /\ \A n \in Names(batch) : Place(n) = OutPath[t]
        /\ Names(batch) = {e \in Names(init.plan) : End[e] = t + 1}
        /\ \E w \in Written(SelectPath(Writer, OutPath[t]), batch) : SetWriter(w)
  BY SampleBatch
<1>4. /\ t \in Nat /\ t + 1 \in Boundary
      /\ Names(init.plan) \subseteq Known(t + 1)
      /\ \A e \in Known(t + 1) :
           /\ e \in Entry /\ End[e] \in Int /\ Timely(e)
           /\ e \in Names(init.plan) \/ End[e] <= t
           /\ End[e] <= t => e \in DeliveredNames
  BY <1>1, KnownGrows
<1> HIDE DEF t
<1>5. t \in Step /\ Horizon \in Nat
  BY <1>4, HorizonAssumption DEF Step, Boundary
<1>6. ASSUME NEW e \in Known(Horizon), Timely(e), End[e] = t + 1
      PROVE  e \in Names(batch)
  <2>1. e \in Known(t + 1)
    BY <1>4, <1>6, TimelyIs
  <2>2. e \in Names(init.plan)
    BY <1>4, <1>6, <2>1
  <2>3. QED
    BY <1>3, <1>6, <2>2
<1>7. RenewsOwn(Writer') /\ Has(Writer') = Has(Writer) \cup Names(batch)
  <2>1. PICK w \in Written(SelectPath(Writer, OutPath[t]), batch) : SetWriter(w)
    BY <1>3
  <2>2. QED
    BY <1>1, <1>3, <1>5, <1>6, <2>1, EmitDelivers
<1>8. DeliveredNames = Has(Writer) /\ DeliveredNames' = Has(Writer')
  BY <1>2 DEF DeliveredNames
<1>9. Names(batch) = {e \in Known(t + 1) : t < End[e] /\ End[e] <= t + 1}
  <2>1. ASSUME NEW e \in Known(t + 1)
        PROVE  e \in Names(batch) <=> t < End[e] /\ End[e] <= t + 1
    <3>1. t < End[e] /\ End[e] <= t + 1 <=> End[e] = t + 1
      BY <1>4
    <3>2. End[e] = t + 1 => e \in Names(init.plan)
      BY <1>4
    <3>3. QED
      BY <1>3, <3>1, <3>2
  <2>2. Names(batch) \subseteq Known(t + 1)
    BY <1>3, <1>4
  <2>3. QED
    BY <2>1, <2>2
<1>10. DeliveredNames \subseteq DeliveredNames'
  BY <1>7, <1>8
<1>11. RestartsKnow'
  BY <1>1, <1>10, RestartsKeep DEF Delivery
<1>12. \A e \in DeliveredNames' : Timely(e)
  BY <1>4, <1>7, <1>8, <1>9 DEF Delivery
<1>13. RunKnows'
  <2>1. position' + Len(pending') = t + 1
    BY <1>1, <1>2, <1>4
  <2>2. ASSUME NEW e \in Known(t + 1)
        PROVE  /\ Timely(e)
               /\ e \in Names(plan') \/ (End[e] <= position' /\ End[e] <= current')
               /\ End[e] <= position' => e \in DeliveredNames'
    <3>1. e \in Names(init.plan) \/ (End[e] <= t /\ End[e] <= t + 1)
      BY <1>4
    <3>2. End[e] <= t + 1 => End[e] <= t \/ e \in Names(batch)
      BY <1>4, <1>9
    <3>3. QED
      BY <1>1, <1>3, <1>4, <1>7, <1>8, <1>10, <3>1, <3>2 DEF t
  <2>3. QED
    BY <1>2, <1>3, <1>4, <1>7, <2>1, <2>2 DEF RunKnows
<1>14. QED
  BY <1>1, <1>4, <1>7, <1>8, <1>9, <1>11, <1>12, <1>13 DEF Delivery, t

LEMMA LaunchDelivery ==
  ASSUME "altitude" \notin Faults, IInv, Emission, Keeping, Delivery, Launch
  PROVE  /\ Delivery' /\ position' = position
         /\ DeliveredNames' = DeliveredNames
PROOF
<1> DEFINE t == current
<1>1. /\ phase = "running" /\ t < stop /\ Accepted(t)
      /\ position' = position /\ current' = t /\ Writer' = Writer
      /\ detached' = detached /\ drained' = drained /\ restarts' = restarts
  BY DEF Launch, writerVars, Writer
<1>2. PICK init \in Initialized(t) : \E bad :
        /\ bad # {} => "altitude" \in Faults
        /\ plan' = init.plan /\ flagged' = (flagged \/ bad # {})
        /\ pending' = Append(pending,
             [step |-> t, path |-> OutputPath(t),
              prefix |-> CompletedPrefix(init.plan, t + 1)])
  BY DEF Launch
<1>3. ~flagged'
  BY <1>2 DEF Delivery
<1>4. /\ t \in Nat /\ t = Reached
      /\ Names(init.plan) \subseteq Known(t + 1)
      /\ \A e \in Known(t + 1) :
           /\ Timely(e)
           /\ e \in Names(init.plan) \/ (End[e] <= position /\ End[e] <= t)
           /\ End[e] <= position => e \in DeliveredNames
  BY <1>1, KnownGrows
<1>5. position' + Len(pending') = t + 1
  <2>1. Len(pending') = Len(pending) + 1
    <3>1. pending \in Seq([step : Step, prefix : Nat, path : OutputFile])
      BY Types DEF QueueType
    <3> DEFINE S == {pending[i] : i \in DOMAIN pending} \cup
                    {[step |-> t, path |-> OutputPath(t),
                      prefix |-> CompletedPrefix(init.plan, t + 1)]}
    <3>2. pending \in Seq(S)
      BY <3>1, LenProperties
    <3>3. [step |-> t, path |-> OutputPath(t),
           prefix |-> CompletedPrefix(init.plan, t + 1)] \in S
      OBVIOUS
    <3> HIDE DEF S
    <3>4. QED
      BY <1>2, <3>2, <3>3, AppendProperties
  <2>2. position \in Nat /\ Len(pending) \in Nat /\ t = position + Len(pending)
    BY <1>1, <1>4, RunIs DEF Reached
  <2>3. QED
    BY <1>1, <2>1, <2>2
<1>6. DeliveredNames' = DeliveredNames
  BY <1>1 DEF DeliveredNames
<1>7. RestartsKnow'
  BY <1>1, <1>6, RestartsKeep DEF Delivery
<1>8. RunKnows'
  <2>1. RenewsOwn(Writer) /\ \A k \in 1 .. Len(detached) :
          IF k <= drained THEN Names(detached[k].batch) \subseteq Has(Writer)
          ELSE Whole(detached[k].batch)
    BY <1>1 DEF Delivery, RunKnows
  <2>2. QED
    BY <1>1, <1>2, <1>4, <1>5, <1>6, <2>1 DEF RunKnows
<1>9. QED
  BY <1>1, <1>3, <1>6, <1>7, <1>8 DEF Delivery

LEMMA DrainOneDelivery ==
  ASSUME PathPerStep, IInv, Emission, Keeping, Delivery, DrainOne
  PROVE  /\ Delivery' /\ position' = position
         /\ DeliveredNames' = DeliveredNames
PROOF
<1> DEFINE out == detached[drained + 1]
           k == drained + 1
<1>1. /\ Draining /\ drained' = k /\ detached' = detached
      /\ position' = position /\ current' = current /\ plan' = plan
      /\ pending' = pending /\ flagged' = flagged /\ restarts' = restarts
  BY DEF DrainOne, loopVars, planVars
<1>2. phase # "down"
  BY <1>1 DEF Draining
<1>3. /\ drained \in Nat /\ k \in 1 .. Len(detached)
      /\ out.path \in OutputFile /\ out.batch \in Seq(Complete)
      /\ Distinct(out.batch) /\ Names(out.batch) \cap Names(Held(Writer)) = {}
      /\ \A n \in Names(out.batch) : Place(n) = out.path
      /\ \E w \in IF out.batch = <<>> THEN {Writer}
                  ELSE Written(SelectPath(Writer, out.path), out.batch) :
           SetWriter(w)
  BY DrainBatch
<1>4. /\ Whole(out.batch) /\ RenewsOwn(Writer)
      /\ \A m \in 1 .. Len(detached) :
           IF m <= drained THEN Names(detached[m].batch) \subseteq Has(Writer)
           ELSE Whole(detached[m].batch)
  <2>1. ~ (k <= drained)
    BY <1>3
  <2>2. QED
    BY <1>2, <1>3, <2>1 DEF Delivery, RunKnows
<1>5. \A n \in Names(out.batch) :
        /\ n \in DeliveredNames
        /\ End[n] \in 1 .. Horizon
        /\ \A q \in Names(out.batch) : End[q] = End[n]
  <2>1. \A n \in Names(out.batch) : n \in DeliveredNames
    BY <1>3, DeliveredIs
  <2>2. QED
    BY <1>3, <2>1, DeliveredEntry DEF Emission, Batches
<1> HIDE DEF out
<1>6. RenewsOwn(Writer') /\ Has(Writer') = Has(Writer) \cup Names(out.batch)
  <2>1. CASE out.batch = <<>>
    <3>1. Writer' = Writer
      BY <1>3, <2>1 DEF SetWriter, Writer
    <3>2. QED
      BY <1>4, <2>1, <3>1, EmptyNames
  <2>2. CASE out.batch # <<>>
    <3>1. PICK w \in Written(SelectPath(Writer, out.path), out.batch) : SetWriter(w)
      BY <1>3, <2>2
    <3>2. PICK n : n \in Names(out.batch)
      BY <1>3, <2>2, NoNames
    <3> DEFINE t == End[n] - 1
    <3>3. t \in Step /\ End[n] = t + 1
      BY <1>5, <3>2, HorizonAssumption DEF Step
    <3>4. out.path = OutPath[t]
      BY <1>3, <3>2 DEF Place
    <3>5. ASSUME NEW e \in Known(Horizon), Timely(e), End[e] = t + 1
          PROVE  e \in Names(out.batch)
      BY <1>4, <3>2, <3>3, <3>5 DEF Whole
    <3> HIDE DEF t
    <3>6. QED
      BY <1>2, <1>3, <3>1, <3>3, <3>4, <3>5, EmitDelivers
  <2>3. QED
    BY <2>1, <2>2
<1>7. DeliveredNames' = DeliveredNames
  <2>1. Names(out.batch) \subseteq
          UNION {Names(detached[m].batch) : m \in 1 .. Len(detached)}
    BY <1>3 DEF out
  <2>2. QED
    BY <1>1, <1>6, <2>1 DEF DeliveredNames
<1>8. RestartsKnow'
  BY <1>1, <1>7, RestartsKeep DEF Delivery
<1>9. \A m \in 1 .. Len(detached) :
        IF m <= k THEN Names(detached[m].batch) \subseteq Has(Writer')
        ELSE Whole(detached[m].batch)
  <2> SUFFICES ASSUME NEW m \in 1 .. Len(detached)
               PROVE  IF m <= k THEN Names(detached[m].batch) \subseteq Has(Writer')
                      ELSE Whole(detached[m].batch)
    OBVIOUS
  <2>1. m <= k <=> m <= drained \/ m = k
    BY <1>3
  <2>2. m = k => Names(detached[m].batch) \subseteq Has(Writer')
    BY <1>6 DEF out
  <2>3. QED
    BY <1>4, <1>6, <2>1, <2>2
<1>10. RunKnows'
  <2>1. position' + Len(pending') = position + Len(pending)
    BY <1>1
  <2>2. QED
    BY <1>1, <1>2, <1>6, <1>7, <1>9, <2>1 DEF Delivery, RunKnows
<1>11. QED
  BY <1>1, <1>7, <1>8, <1>10 DEF Delivery

LEMMA DrainDoneDelivery ==
  ASSUME IInv, Emission, Keeping, Delivery, DrainDone
  PROVE  /\ Delivery' /\ position' = position
         /\ DeliveredNames' = DeliveredNames
PROOF
<1>1. /\ Draining /\ drained = Len(detached) /\ detached' = <<>>
      /\ position' = position /\ plan' = plan /\ Writer' = Writer
      /\ pending' = pending /\ flagged' = flagged /\ restarts' = restarts
      /\ current' = current \/ current' = current + 1
  BY DEF DrainDone, planVars, writerVars, Writer
<1>2. phase # "down"
  BY <1>1 DEF Draining
<1>3. Len(detached') = 0 /\ drained \in Nat
  BY <1>1, EmptySeq, Types
<1>4. \A k \in 1 .. Len(detached) : Names(detached[k].batch) \subseteq Has(Writer)
  BY <1>1, <1>2, <1>3 DEF Delivery, RunKnows
<1>5. DeliveredNames' = DeliveredNames
  BY <1>1, <1>3, <1>4 DEF DeliveredNames
<1>6. RestartsKnow'
  BY <1>1, <1>5, RestartsKeep DEF Delivery
<1>7. \A e \in Known(Reached) : End[e] <= current => End[e] <= current'
  BY <1>1, <1>2, RunIs
<1>8. RunKnows'
  BY <1>1, <1>2, <1>3, <1>5, <1>7 DEF Delivery, RunKnows, Reached
<1>9. QED
  BY <1>1, <1>5, <1>6, <1>8 DEF Delivery

\* Detaching the queue delivers all that completes up to the boundary reached.
LEMMA DetachDelivers ==
  ASSUME IInv, Emission, Keeping, Delivery, phase # "down",
         pending # <<>>, DetachPending, UNCHANGED writerVars,
         drained = 0, drained' = 0, restarts' = restarts, flagged' = flagged,
         current' \in Nat, current <= current'
  PROVE  /\ Delivery' /\ position' = Reached /\ position < position'
         /\ DeliveredNames' = DeliveredNames \cup
              {e \in Known(position') : position < End[e] /\ End[e] <= position'}
PROOF
<1> DEFINE n == Len(pending)
           old == Len(detached)
           New(k) == Names(detached'[old + k].batch)
<1>1. /\ n \in Nat /\ old \in Nat /\ position' = position + n /\ pending' = <<>>
      /\ Len(plan') = Len(plan) /\ Len(plan) \in Nat
      /\ \A i \in 1 .. Len(plan) : plan'[i].name = plan[i].name
      /\ Len(detached') = old + n
      /\ \A m \in 1 .. old : detached'[m] = detached[m]
  BY DetachedIs
<1>2. \A k \in 1 .. n :
        /\ \A x \in New(k) : End[x] = position + k /\ x \in Names(plan)
        /\ \A i \in 1 .. Len(plan) :
             i > first /\ End[plan[i].name] = position + k
               => plan[i].name \in New(k)
  BY DetachedIs
<1>3. /\ position \in Nat /\ Reached \in Nat /\ Reached = position + n
      /\ Reached \in Boundary /\ Reached <= Horizon
      /\ RenewsOwn(Writer) /\ Names(plan) \subseteq Known(Reached)
      /\ \A e \in Known(Reached) :
           /\ e \in Entry /\ End[e] \in Int /\ Timely(e)
           /\ e \in Names(plan) \/ (End[e] <= position /\ End[e] <= current)
           /\ End[e] <= position => e \in DeliveredNames
      /\ current \in Nat
  BY RunIs
<1>4. n > 0 /\ position' = Reached /\ position < position'
  <2>1. n # 0
    BY Types, EmptySeq DEF QueueType
  <2>2. QED
    BY <1>1, <1>3, <2>1
<1>5. Names(plan') = Names(plan)
  <2>1. plan \in Plan /\ plan' \in Plan
    BY Types, SyncedIs DEF PlanType, DetachPending
  <2>2. QED
    BY <1>1, <2>1, EqualNames
<1>6. Writer' = Writer
  BY DEF writerVars, Writer
<1> HIDE DEF n, old, New
<1>7. ASSUME NEW k \in 1 .. n, NEW e \in Known(Reached), End[e] = position + k
      PROVE  e \in New(k)
  <2>1. e \in Names(plan)
    BY <1>1, <1>3, <1>7
  <2>2. PICK i \in 1 .. Len(plan) : e = plan[i].name
    BY <2>1, PlanNames, Types DEF PlanType
  <2>3. i > first
    <3>1. first \in Nat /\ \A j \in 1 .. first : End[plan[j].name] <= position
      BY Types DEF QueueType, IInv, PlanShape
    <3>2. ~ (i \in 1 .. first)
      BY <1>1, <1>3, <1>7, <2>2, <3>1
    <3>3. QED
      BY <3>1, <3>2
  <2>4. QED
    BY <1>2, <1>7, <2>2, <2>3
<1>8. ASSUME NEW e
      PROVE  (\E k \in 1 .. n : e \in New(k))
               <=> e \in Known(Reached) /\ position < End[e] /\ End[e] <= Reached
  <2>1. ASSUME NEW k \in 1 .. n, e \in New(k)
        PROVE  e \in Known(Reached) /\ position < End[e] /\ End[e] <= Reached
    BY <1>1, <1>2, <1>3, <2>1
  <2>2. ASSUME e \in Known(Reached), position < End[e], End[e] <= Reached
        PROVE  \E k \in 1 .. n : e \in New(k)
    <3> DEFINE k == End[e] - position
    <3>1. k \in 1 .. n /\ End[e] = position + k
      BY <1>1, <1>3, <2>2
    <3>2. QED
      BY <1>7, <2>2, <3>1
  <2>3. QED
    BY <2>1, <2>2
<1>9. ASSUME NEW e
      PROVE  e \in DeliveredNames'
               <=> e \in DeliveredNames \/ \E k \in 1 .. n : e \in New(k)
  <2>1. e \in DeliveredNames' <=>
          e \in Has(Writer) \/ \E m \in 1 .. old + n : e \in Names(detached'[m].batch)
    BY <1>1, <1>6 DEF DeliveredNames
  <2>2. e \in DeliveredNames <=>
          e \in Has(Writer) \/ \E m \in 1 .. old : e \in Names(detached[m].batch)
    BY DEF DeliveredNames, old
  <2>3. \A m \in 1 .. old + n : m \in 1 .. old \/ \E k \in 1 .. n : m = old + k
    <3> SUFFICES ASSUME NEW m \in 1 .. old + n, ~ (m \in 1 .. old)
                 PROVE  \E k \in 1 .. n : m = old + k
      OBVIOUS
    <3>1. m - old \in 1 .. n /\ m = old + (m - old)
      BY <1>1
    <3>2. QED
      BY <3>1
  <2>4. /\ \A m \in 1 .. old : m \in 1 .. old + n
        /\ \A k \in 1 .. n : old + k \in 1 .. old + n
    BY <1>1
  <2>5. QED
    BY <1>1, <2>1, <2>2, <2>3, <2>4 DEF New
<1>10. DeliveredNames' = DeliveredNames \cup
         {e \in Known(Reached) : position < End[e] /\ End[e] <= Reached}
  BY <1>8, <1>9
<1>11. RestartsKnow'
  BY <1>10, RestartsKeep DEF Delivery
<1>12. \A e \in DeliveredNames' : Timely(e)
  BY <1>3, <1>10 DEF Delivery
<1>13. \A m \in 1 .. Len(detached') : Whole(detached'[m].batch)
  <2>1. ASSUME NEW m \in 1 .. old PROVE Whole(detached'[m].batch)
    <3>1. ~ (m <= 0)
      BY <1>1
    <3>2. QED
      BY <1>1, <2>1, <3>1 DEF Delivery, RunKnows, old
  <2>2. ASSUME NEW k \in 1 .. n PROVE Whole(detached'[old + k].batch)
    <3> SUFFICES ASSUME NEW x \in New(k), NEW e \in Known(Horizon),
                        Timely(e), End[e] = End[x]
                 PROVE  e \in New(k)
      BY DEF Whole, New
    <3>1. End[e] = position + k /\ End[e] \in Int /\ End[e] <= Reached
      BY <1>1, <1>2, <1>3
    <3>2. e \in Known(Reached)
      BY <1>3, <3>1, TimelyIs
    <3>3. QED
      BY <1>7, <3>1, <3>2
  <2>3. ASSUME NEW m \in 1 .. old + n, ~ (m \in 1 .. old)
        PROVE  Whole(detached'[m].batch)
    <3>1. m - old \in 1 .. n /\ m = old + (m - old)
      BY <1>1, <2>3
    <3>2. QED
      BY <2>2, <3>1
  <2>4. QED
    BY <1>1, <2>1, <2>3
<1>14. RunKnows'
  <2>1. position' + Len(pending') = Reached
    <3>1. Len(pending') = 0
      BY <1>1, EmptySeq
    <3>2. QED
      BY <1>3, <1>4, <3>1
  <2>2. ASSUME NEW e \in Known(Reached)
        PROVE  /\ Timely(e)
               /\ e \in Names(plan') \/ (End[e] <= position' /\ End[e] <= current')
               /\ End[e] <= position' => e \in DeliveredNames'
    <3>1. End[e] <= current => End[e] <= current'
      BY <1>3
    <3>2. End[e] <= position => End[e] <= position'
      BY <1>3, <1>4
    <3>3. End[e] <= position' => e \in DeliveredNames'
      BY <1>3, <1>4, <1>10
    <3>4. QED
      BY <1>3, <1>5, <3>1, <3>2, <3>3
  <2>3. \A m \in 1 .. Len(detached') : ~ (m <= drained')
    BY <1>1
  <2>4. QED
    BY <1>3, <1>5, <1>6, <1>13, <2>1, <2>2, <2>3 DEF RunKnows
<1>15. QED
  BY <1>4, <1>10, <1>11, <1>12, <1>14 DEF Delivery

LEMMA DetachDelivery ==
  ASSUME IInv, Emission, Keeping, Delivery, Detach
  PROVE  /\ Delivery' /\ position' \in Boundary /\ position < position'
         /\ DeliveredNames' = DeliveredNames \cup
              {e \in Known(position') : position < End[e] /\ End[e] <= position'}
PROOF
<1>1. /\ phase = "detach" /\ DetachPending /\ UNCHANGED writerVars
      /\ drained' = drained /\ restarts' = restarts /\ flagged' = flagged
      /\ current' = current \/ current' = current + 1
  BY DEF Detach
<1>2. pending # <<>> /\ drained = 0
  BY <1>1 DEF IInv, Control, Emission, Batches, Draining
<1>3. current \in Nat /\ Reached \in Boundary
  BY <1>1, RunIs
<1>4. current' \in Nat /\ current <= current'
  BY <1>1, <1>3
<1>5. QED
  BY <1>1, <1>2, <1>3, <1>4, DetachDelivers

LEMMA CloseDelivery ==
  ASSUME IInv, Emission, Keeping, Delivery, Close
  PROVE  /\ Delivery'
         /\ \/ position' = position /\ DeliveredNames' = DeliveredNames
            \/ /\ position' \in Boundary /\ position < position'
               /\ DeliveredNames' = DeliveredNames \cup
                    {e \in Known(position') :
                       position < End[e] /\ End[e] <= position'}
PROOF
<1>1. /\ phase = "unwinding" /\ drained' = 0 /\ UNCHANGED writerVars
      /\ current' = current /\ restarts' = restarts /\ flagged' = flagged
      /\ IF pending = <<>>
         THEN UNCHANGED <<plan, detached, first, position, pending>>
         ELSE DetachPending
  BY DEF Close
<1>2. drained = 0
  BY <1>1 DEF Emission, Batches, Draining
<1>3. current \in Nat /\ current <= current' /\ Reached \in Boundary
  BY <1>1, RunIs
<1>4. CASE pending = <<>>
  <2>1. /\ Names(plan') = Names(plan) /\ detached' = detached
        /\ position' = position /\ Len(pending') = Len(pending)
        /\ drained' = drained
    BY <1>1, <1>2, <1>4
  <2>2. QED
    BY <1>1, <1>3, <2>1, DeliveryFrame
<1>5. CASE pending # <<>>
  BY <1>1, <1>2, <1>3, <1>5, DetachDelivers
<1>6. QED
  BY <1>4, <1>5

\* The steps of the run loop alone.
LEMMA LoopDelivery ==
  ASSUME IInv, Emission, Keeping, Delivery, phase # "down",
         UNCHANGED <<runVars, planVars, writerVars, cudaVars, restarts>>,
         current' = current \/ current' = current + 1
  PROVE  Delivery' /\ position' = position /\ DeliveredNames' = DeliveredNames
PROOF
<1>1. /\ flagged' = flagged /\ restarts' = restarts /\ position' = position
      /\ pending' = pending /\ plan' = plan /\ detached' = detached
      /\ drained' = drained /\ UNCHANGED writerVars
  BY DEF planVars, cudaVars
<1>2. current' \in Nat /\ current <= current'
  BY RunIs
<1>3. QED
  BY <1>1, <1>2, DeliveryFrame

\* The process closes its writer and ends: what it held is in its files.
LEMMA GoneDelivery ==
  ASSUME IInv, Emission, Keeping, Delivery, phase = "closing", Gone,
         science' = CloseWriter(Writer).disk
  PROVE  /\ position' = position /\ DeliveredNames' = DeliveredNames
         /\ ~flagged' /\ phase' = "down"
PROOF
<1>1. /\ staged' = <<>> /\ detached' = <<>> /\ position' = position
      /\ flagged' = FALSE /\ phase' = "down"
  BY DEF Gone
<1>2. Len(detached) = 0 /\ Len(detached') = 0
  BY <1>1, EmptySeq DEF Keeping
<1>3. Has(Writer') = Has(Writer)
  <2>1. Writer'.staged = <<>> /\ Writer'.disk = CloseWriter(Writer).disk
    BY <1>1 DEF Writer
  <2>2. Has(Writer') =
          UNION {Names(CloseWriter(Writer).disk[f]) : f \in OutputFile}
    BY <2>1, EmptyNames DEF Has
  <2> DEFINE w == Writer
  <2>3. w \in GoodWriter /\ WriterOnce(w) /\ RenewsOwn(w)
    BY RunIs
  <2> HIDE DEF w
  <2>4. Has(w) = UNION {Names(CloseWriter(w).disk[f]) : f \in OutputFile}
    BY <2>3, CloseKeeps
  <2>5. QED
    BY <2>2, <2>4 DEF w
<1>4. QED
  BY <1>1, <1>2, <1>3 DEF DeliveredNames

LEMMA CloseFinishesDelivery ==
  ASSUME IInv, Emission, Keeping, Delivery, CloseFinishes
  PROVE  /\ Delivery' /\ position' = position
         /\ DeliveredNames' = DeliveredNames
PROOF
<1> DEFINE t == current
<1>1. /\ phase = "closing" /\ AtBoundary /\ Gone
      /\ science' = CloseWriter(Writer).disk
      /\ restarts' = [restarts EXCEPT ![t] =
                        [written |-> TRUE, plan |-> CompactPlan(Synced, t)]]
  BY DEF CloseFinishes
<1>2. /\ position' = position /\ DeliveredNames' = DeliveredNames
      /\ ~flagged' /\ phase' = "down"
  BY <1>1, GoneDelivery
<1>3. /\ position \in Nat /\ t \in Nat /\ t <= position /\ Reached = position
      /\ Names(plan) \subseteq Known(position)
      /\ \A e \in Known(position) :
           /\ e \in Entry /\ End[e] \in Int /\ Timely(e)
           /\ e \in Names(plan) \/ (End[e] <= position /\ End[e] <= t)
           /\ End[e] <= position => e \in DeliveredNames
  <2>1. Len(pending) = 0
    BY <1>1, EmptySeq DEF IInv, Control
  <2>2. /\ position \in Nat /\ t <= Reached /\ t \in Nat
        /\ Reached = position + Len(pending)
    BY <1>1, RunIs
  <2>3. Reached = position /\ t <= position
    BY <2>1, <2>2
  <2>4. QED
    BY <1>1, <2>2, <2>3, RunIs
<1>4. Names(CompactPlan(Synced, t)) = {e \in Names(plan) : End[e] > t}
  <2>1. PlanType /\ Sorted(plan)
    BY Types DEF IInv, PlanShape
  <2>2. /\ Synced \in Plan /\ Sorted(Synced) /\ Len(Synced) = Len(plan)
        /\ \A i \in 1 .. Len(plan) : Synced[i].name = plan[i].name
    BY <2>1, SyncedIs
  <2>3. Names(Synced) = Names(plan)
    BY <2>1, <2>2, EqualNames DEF PlanType
  <2>4. t \in Int
    BY <1>3
  <2>5. QED
    BY <2>2, <2>3, <2>4, CompactNames
<1> HIDE DEF t
<1>5. plan = <<>> \/ t = position
  BY <1>1 DEF AtBoundary, t
<1>6. ASSUME NEW e PROVE e \in Known(t) => e \in Known(position)
  BY <1>3, KnownIs
<1>7. {e \in Names(plan) : End[e] > t} = {e \in Known(t) : End[e] > t}
  <2>1. CASE plan = <<>>
    <3>1. Names(plan) = {}
      BY <2>1, EmptyNames
    <3>2. \A e \in Known(t) : End[e] \in Int /\ End[e] <= t
      BY <1>3, <1>6, <3>1
    <3>3. \A e \in Known(t) : ~ (End[e] > t)
      BY <1>3, <3>2
    <3>4. QED
      BY <3>1, <3>3
  <2>2. CASE t = position
    <3>1. ASSUME NEW e \in Known(t), End[e] > t PROVE e \in Names(plan)
      BY <1>3, <2>2, <3>1
    <3>2. QED
      BY <1>3, <2>2, <3>1
  <2>3. QED
    BY <1>5, <2>1, <2>2
<1>8. \A e \in Known(t) : Timely(e) /\ (End[e] <= t => e \in DeliveredNames)
  BY <1>3, <1>6
<1>9. RestartsKnow'
  <2>1. restarts \in [Boundary -> [written : BOOLEAN, plan : Plan]] /\ t \in Boundary
    BY Types DEF t
  <2>2. ASSUME NEW b \in Boundary, restarts'[b].written
        PROVE  /\ Names(restarts'[b].plan) = {e \in Known(b) : End[e] > b}
               /\ \A e \in Known(b) :
                    Timely(e) /\ (End[e] <= b => e \in DeliveredNames')
    <3>1. CASE b = t
      <4>1. restarts'[b].plan = CompactPlan(Synced, t)
        BY <1>1, <2>1, <3>1 DEF t
      <4>2. QED
        BY <1>2, <1>4, <1>7, <1>8, <3>1, <4>1
    <3>2. CASE b # t
      <4>1. restarts'[b] = restarts[b]
        BY <1>1, <2>1, <3>2 DEF t
      <4>2. QED
        BY <1>2, <2>2, <4>1 DEF Delivery, RestartsKnow
    <3>3. QED
      BY <3>1, <3>2
  <2>3. QED
    BY <2>2 DEF RestartsKnow
<1>10. QED
  BY <1>2, <1>9 DEF Delivery

LEMMA CloseFailsDelivery ==
  ASSUME IInv, Emission, Keeping, Delivery, CloseRefused \/ RestartFails
  PROVE  /\ Delivery' /\ position' = position
         /\ DeliveredNames' = DeliveredNames
PROOF
<1>1. /\ phase = "closing" /\ Gone /\ science' = CloseWriter(Writer).disk
      /\ restarts' = restarts
  BY DEF CloseRefused, RestartFails
<1>2. /\ position' = position /\ DeliveredNames' = DeliveredNames
      /\ ~flagged' /\ phase' = "down"
  BY <1>1, GoneDelivery
<1>3. RestartsKnow'
  BY <1>1, <1>2, RestartsKeep DEF Delivery
<1>4. QED
  BY <1>2, <1>3 DEF Delivery

\* A run starts with what its restart knows, or with nothing at the beginning.
LEMMA OpenDelivery ==
  ASSUME IInv, Emission, Delivery,
         NEW t \in Boundary, NEW end \in Boundary, Open(t, end)
  PROVE  /\ Delivery' /\ position' = t /\ DeliveredNames' = DeliveredNames
         /\ \A e \in Known(t) : End[e] <= t => e \in DeliveredNames
PROOF
<1>1. /\ phase = "down"
      /\ t = 0 \/ restarts[t].written
      /\ position' = t /\ current' = t /\ plan' = restarts[t].plan
      /\ restarts' = restarts /\ pending' = pending /\ detached' = detached
      /\ flagged' = flagged /\ Writer' = Writer
  BY DEF Open, cudaVars, writerVars, Writer
<1>2. /\ Len(pending) = 0 /\ Len(detached) = 0
      /\ outPath = NoFile /\ t \in Nat
  BY <1>1, EmptySeq DEF IInv, Control, Emission, Boundary
<1>3. DeliveredNames' = DeliveredNames
  BY <1>1 DEF DeliveredNames
<1>4. /\ Names(restarts[t].plan) = {e \in Known(t) : End[e] > t}
      /\ \A e \in Known(t) : Timely(e) /\ (End[e] <= t => e \in DeliveredNames)
  <2>1. CASE restarts[t].written
    BY <2>1 DEF Delivery, RestartsKnow
  <2>2. CASE ~restarts[t].written
    <3>1. restarts[t].plan = <<>> /\ t = 0
      BY <1>1, <2>2 DEF IInv, Restarts
    <3>2. Known(t) = {}
      BY <3>1 DEF Known
    <3>3. QED
      BY <3>1, <3>2, EmptyNames
  <2>3. QED
    BY <2>1, <2>2
<1>5. \A e \in Known(t) : ~ (End[e] > t) => End[e] <= t
  BY <1>2, KnownEntry
<1>6. RestartsKnow'
  BY <1>1, <1>3, RestartsKeep DEF Delivery
<1>7. RunKnows'
  <2>1. position' + Len(pending') = t
    BY <1>1, <1>2
  <2>2. ~ (Writer'.path \in OutputFile)
    BY <1>1, <1>2, NoFileAssumption DEF Writer
  <2>3. QED
    BY <1>1, <1>2, <1>3, <1>4, <1>5, <2>1, <2>2 DEF RunKnows, RenewsOwn
<1>8. QED
  BY <1>1, <1>3, <1>4, <1>6, <1>7 DEF Delivery

LEMMA InitDelivery == Init => Delivery /\ DeliveredNames = {}
PROOF
<1> SUFFICES ASSUME Init PROVE Delivery /\ DeliveredNames = {}
  OBVIOUS
<1>1. Len(detached) = 0 /\ Writer.staged = <<>>
      /\ \A f \in OutputFile : Writer.disk[f] = <<>>
  BY EmptySeq DEF Init, Writer
<1>2. DeliveredNames = {}
  BY <1>1, EmptyNames DEF DeliveredNames, Has
<1>3. RestartsKnow
  BY DEF Init, RestartsKnow, NoRestart
<1>4. QED
  BY <1>2, <1>3 DEF Init, Delivery
-----------------------------------------------------------------------------
(* Every step is one of the promise, or none.                              *)

\* What can have happened to the position and to what is delivered.
Stays == position' = position /\ DeliveredNames' = DeliveredNames

Resumes ==
  /\ position' \in Boundary /\ position' <= position
  /\ DeliveredNames' = DeliveredNames

Moves ==
  /\ position' \in Boundary /\ position < position'
  /\ DeliveredNames' = DeliveredNames \cup
       {e \in Known(position') : position < End[e] /\ End[e] <= position'}

LEMMA OpenStep ==
  ASSUME IInv, Emission, Delivery,
         NEW t \in Boundary, NEW end \in Boundary, Open(t, end)
  PROVE  Delivery' /\ (Resumes \/ Moves)
PROOF
<1>1. /\ Delivery' /\ position' = t /\ DeliveredNames' = DeliveredNames
      /\ \A e \in Known(t) : End[e] <= t => e \in DeliveredNames
  BY OpenDelivery
<1>2. position \in Nat /\ t \in Nat
  BY Types DEF QueueType, Boundary
<1>3. CASE t <= position
  BY <1>1, <1>3 DEF Resumes
<1>4. CASE position < t
  BY <1>1, <1>4 DEF Moves
<1>5. QED
  BY <1>1, <1>2, <1>3, <1>4

LEMMA NextDelivery ==
  ASSUME NothingDropped, PathPerStep,
         IInv, Emission, Keeping, Delivery, [Next]_vars
  PROVE  Delivery' /\ (Stays \/ Resumes \/ Moves)
PROOF
<1>1. /\ NoInterrupt /\ "crash" \notin Faults /\ "altitude" \notin Faults
  BY Conditions
<1>2. ASSUME NEW t \in Boundary, NEW end \in Boundary, Open(t, end)
      PROVE  Delivery' /\ (Stays \/ Resumes \/ Moves)
  BY <1>2, OpenStep
<1>3. CASE Sample
  <2>1. phase # "down" /\ position \in Nat
    BY <1>3, Types DEF Sample, QueueType, Boundary
  <2>2. QED
    BY <1>3, <2>1, SampleDelivery DEF Moves
<1>4. CASE Launch
  BY <1>1, <1>4, LaunchDelivery DEF Stays
<1>5. CASE DrainOne
  BY <1>5, DrainOneDelivery DEF Stays
<1>6. CASE DrainDone
  BY <1>6, DrainDoneDelivery DEF Stays
<1>7. CASE Detach
  BY <1>7, DetachDelivery DEF Moves
<1>8. CASE Close
  BY <1>8, CloseDelivery DEF Stays, Moves
<1>9. CASE CloseFinishes
  BY <1>9, CloseFinishesDelivery DEF Stays
<1>10. CASE CloseRefused \/ RestartFails
  BY <1>10, CloseFailsDelivery DEF Stays
<1>11. CASE Advance \/ StepEndCuda \/ Reject \/ LoopEnds \/ Raise
  <2>1. /\ phase # "down"
        /\ UNCHANGED <<runVars, planVars, writerVars, cudaVars, restarts>>
        /\ current' = current \/ current' = current + 1
    BY <1>11 DEF Advance, StepEndCuda, Reject, LoopEnds, Raise
  <2>2. QED
    BY <2>1, LoopDelivery DEF Stays
<1>12. CASE DetachRaises \/ CloseDetachRaises
  BY <1>12 DEF DetachRaises, CloseDetachRaises, DetachFails, SyncRaises, Delivery
<1>13. CASE Crash \/ SampleInterrupted \/ DrainInterrupted
  BY <1>1, <1>13
     DEF Crash, SampleInterrupted, DrainInterrupted, NoInterrupt
<1>14. CASE UNCHANGED vars
  <2>1. /\ UNCHANGED <<runVars, planVars, writerVars, cudaVars, restarts>>
        /\ phase' = phase /\ current' = current
    BY <1>14 DEF vars, loopVars
  <2>2. CASE phase # "down"
    BY <2>1, <2>2, LoopDelivery DEF Stays
  <2>3. CASE phase = "down"
    <3>1. Writer' = Writer /\ detached' = detached /\ flagged' = flagged
          /\ position' = position /\ restarts' = restarts
      BY <2>1 DEF writerVars, cudaVars, planVars, Writer
    <3>2. DeliveredNames' = DeliveredNames
      BY <3>1 DEF DeliveredNames
    <3>3. RestartsKnow'
      BY <3>1, <3>2, RestartsKeep DEF Delivery
    <3>4. QED
      BY <2>1, <2>3, <3>1, <3>2, <3>3 DEF Delivery, Stays
  <2>4. QED
    BY <2>2, <2>3
<1>15. QED
  BY <1>2, <1>3, <1>4, <1>5, <1>6, <1>7, <1>8, <1>9, <1>10, <1>11, <1>12,
     <1>13, <1>14 DEF Next, Run, Fault

\* DeliveredIs, of the next state.
LEMMA DeliveredNext ==
  (IInv => Delivered = {Promise!Observation(e) : e \in DeliveredNames})'
PROOF
<1>1. IInv => Delivered = {Promise!Observation(e) : e \in DeliveredNames}
  BY DeliveredIs
<1>2. QED
  BY <1>1, PTL

LEMMA StepRefines ==
  ASSUME IInv, IInv', Stays \/ Resumes \/ Moves
  PROVE  [Promise!Next]_<<position, Delivered>>
PROOF
<1> DEFINE ob(S) == {Promise!Observation(e) : e \in S}
<1>1. Delivered = ob(DeliveredNames)
  BY DeliveredIs
<1>2. Delivered' = ob(DeliveredNames')
  BY DeliveredNext
<1>3. CASE Stays
  BY <1>1, <1>2, <1>3 DEF Stays
<1>4. CASE Resumes
  <2>1. Promise!Resume(position')
    BY <1>1, <1>2, <1>4 DEF Resumes, Promise!Resume
  <2>2. QED
    BY <1>4, <2>1
       DEF Resumes, Promise!Next, Promise!Boundary, Boundary
<1>5. CASE Moves
  <2> DEFINE fresh == {e \in Known(position') : position < End[e] /\ End[e] <= position'}
  <2>1. position' \in Boundary /\ position < position'
        /\ DeliveredNames' = DeliveredNames \cup fresh
    BY <1>5 DEF Moves
  <2>2. Promise!Known(position') = Known(position')
    BY <2>1, PromiseKnows
  <2>3. Delivered' = Delivered \cup
          {Promise!Observation(e) :
             e \in {k \in Promise!Known(position') :
                      position < End[k] /\ End[k] <= position'}}
    BY <1>1, <1>2, <2>1, <2>2
  <2>4. Promise!Advance(position')
    BY <2>1, <2>3 DEF Promise!Advance
  <2>5. QED
    BY <2>1, <2>4 DEF Promise!Next, Promise!Boundary, Boundary
<1>6. QED
  BY <1>3, <1>4, <1>5

\* Why the promise is kept: what is known is in the plan or delivered, in every
\* run, across batches, exceptions elsewhere and restarts.
THEOREM DeliveryHolds ==
  ASSUME NothingDropped, PathPerStep
  PROVE  Spec => [](IInv /\ Emission /\ Keeping /\ Delivery)
PROOF
<1>1. NoInterrupt /\ PathsInOrder
  BY Conditions
<1>2. Init => IInv /\ Emission /\ Keeping /\ Delivery
  BY InitIInv, InitEmission, InitKeeping, InitDelivery
<1>3. IInv /\ Emission /\ Keeping /\ Delivery /\ [Next]_vars
        => (IInv /\ Emission /\ Keeping /\ Delivery)'
  BY <1>1, NextIInv, NextEmission, NextKeeping, NextDelivery
<1>4. QED
  BY <1>2, <1>3, PTL DEF Spec

\* The manager keeps the promise of ObsPromise (manager.py sample,
\* launch_cuda_sample, detach_cuda_samples, write_detached_cuda_outputs, close
\* and __init__): every step is one by which the model is sampled further, and
\* what completes with it is delivered, complete and once; one by which a run
\* resumes; or none.
THEOREM ImplementsPromise ==
  ASSUME NothingDropped, PathPerStep
  PROVE  Spec => KeepsPromise
PROOF
<1>1. NoInterrupt
  BY Conditions
<1>2. Init => Promise!Init
  <2> SUFFICES ASSUME Init PROVE Promise!Init
    OBVIOUS
  <2>1. IInv /\ DeliveredNames = {}
    BY InitIInv, InitDelivery
  <2>2. Delivered = {}
    BY <2>1, DeliveredIs
  <2>3. QED
    BY <2>2 DEF Init, Promise!Init
<1>3. IInv /\ Emission /\ Keeping /\ Delivery /\ [Next]_vars
        => [Promise!Next]_<<position, Delivered>>
  <2> SUFFICES ASSUME IInv, Emission, Keeping, Delivery, [Next]_vars
               PROVE  [Promise!Next]_<<position, Delivered>>
    OBVIOUS
  <2>1. IInv'
    BY <1>1, NextIInv
  <2>2. Stays \/ Resumes \/ Moves
    BY NextDelivery
  <2>3. QED
    BY <2>1, <2>2, StepRefines
<1>4. QED
  BY <1>2, <1>3, DeliveryHolds, PTL DEF Spec, KeepsPromise, Promise!Spec

=============================================================================
