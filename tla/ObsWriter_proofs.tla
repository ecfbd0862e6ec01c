--------------------------- MODULE ObsWriter_proofs ---------------------------
(***************************************************************************)
(* The file of the science writer is what was handed over, whatever the    *)
(* limits, the batches and the flushes that fail on the way.               *)
(*                                                                         *)
(* Counts, rows and the table of field names are recursive functions.      *)
(* What they are for a sequence with one more element follows from their   *)
(* definitions (Recursion, RecursionUnique), and what they are for every   *)
(* sequence by induction over sets (Induction, SequenceInduction).         *)
(***************************************************************************)
EXTENDS ObsWriter, ProofLemmas

-----------------------------------------------------------------------------
(* Counts and rows.                                                        *)

LEMMA FieldsAre ==
  ASSUME NEW e \in Entry
  PROVE  /\ Fields[e] \in Seq(FieldName) /\ Fields[e] # <<>>
         /\ Len(Fields[e]) \in Nat \ {0} /\ DOMAIN Fields[e] = 1 .. Len(Fields[e])
PROOF
<1>1. Fields[e] \in Seq(FieldName) /\ Fields[e] # <<>>
  BY WriterAssumption
<1>2. QED
  BY <1>1, EmptySeq, LenProperties

Counts(c, s) ==
  /\ c \in [0 .. Len(s) -> Nat] /\ c[0] = 0
  /\ \A i \in 1 .. Len(s) : c[i] = c[i - 1] + Len(Fields[s[i]])

LEMMA CountIs ==
  ASSUME NEW s \in Seq(Entry)
  PROVE  \E c : Counts(c, s) /\ SampleCount(s) = c[Len(s)]
PROOF
<1> DEFINE n == Len(s)
           step == [i \in 1 .. n |-> [x \in Nat |-> x + Len(Fields[s[i]])]]
           Def(g) == g = [i \in 0 .. n |->
                            IF i = 0 THEN 0 ELSE g[i - 1] + Len(Fields[s[i]])]
<1>1. n \in Nat /\ \A i \in 1 .. n : Len(Fields[s[i]]) \in Nat
  BY LenProperties, ElementOfSeq, FieldsAre
<1>2. \A i \in 1 .. n, x \in Nat : step[i][x] \in Nat
  BY <1>1
<1>3. \A i \in 1 .. n, x \in Nat : step[i][x] = x + Len(Fields[s[i]])
  OBVIOUS
<1>4. SampleCount(s) = (CHOOSE g : Def(g))[n]
  BY DEF SampleCount
<1> HIDE DEF step, n
<1>5. PICK f \in [0 .. n -> Nat] :
        f[0] = 0 /\ \A i \in 1 .. n : f[i] = step[i][f[i - 1]]
  <2>1. n \in Nat /\ 0 \in Nat
    BY <1>1
  <2>2. \E f : Recurses(f, n, Nat, 0, step)
    BY <1>2, <2>1, Recursion
  <2>3. QED
    BY <2>2 DEF Recurses
<1>6. ASSUME NEW i \in 1 .. n PROVE f[i] = f[i - 1] + Len(Fields[s[i]])
  <2>1. f[i - 1] \in Nat
    BY <1>1, <1>5
  <2>2. QED
    BY <1>3, <1>5, <2>1
<1>7. Def(f)
  <2>1. \A i \in 0 .. n : f[i] = IF i = 0 THEN 0 ELSE f[i - 1] + Len(Fields[s[i]])
    BY <1>1, <1>5, <1>6
  <2>2. QED
    BY <1>5, <2>1
<1>8. Def(CHOOSE g : Def(g))
  BY <1>7
<1> DEFINE c == CHOOSE g : Def(g)
<1> HIDE DEF c
<1>9. Def(c)
  BY <1>8 DEF c
<1>10. c[0] = 0 /\ \A i \in 1 .. n : c[i] = c[i - 1] + Len(Fields[s[i]])
  BY <1>1, <1>9
<1>11. \A i \in 0 .. n : c[i] = f[i]
  <2>1. \A i \in 1 .. n : c[i - 1] = f[i - 1] => c[i] = f[i]
    BY <1>6, <1>10
  <2>2. c[0] = f[0]
    BY <1>5, <1>10
  <2>3. QED
    BY ZenonT(60), <1>1, <2>1, <2>2, RecursionUnique
<1>12. c \in [0 .. n -> Nat]
  BY <1>5, <1>9, <1>11
<1>13. SampleCount(s) = c[n]
  BY <1>4 DEF c
<1>14. QED
  BY <1>10, <1>12, <1>13 DEF Counts, n

LEMMA CountAppend ==
  ASSUME NEW s \in Seq(Entry), NEW e \in Entry
  PROVE  /\ SampleCount(s) \in Nat
         /\ SampleCount(Append(s, e)) = SampleCount(s) + Len(Fields[e])
PROOF
<1> DEFINE t == Append(s, e)
           n == Len(s)
<1>1. /\ t \in Seq(Entry) /\ Len(t) = n + 1 /\ n \in Nat
      /\ t[n + 1] = e /\ \A i \in 1 .. n : t[i] = s[i]
  BY AppendProperties, LenProperties
<1>2. PICK c : Counts(c, s) /\ SampleCount(s) = c[n]
  BY CountIs
<1> HIDE DEF t
<1>3. PICK d : Counts(d, t) /\ SampleCount(t) = d[n + 1]
  BY <1>1, CountIs
<1>4. c \in [0 .. n -> Nat] /\ c[0] = 0
      /\ \A i \in 1 .. n : c[i] = c[i - 1] + Len(Fields[s[i]])
  BY <1>2 DEF Counts
<1>5. d[0] = 0 /\ d[n + 1] = d[n] + Len(Fields[e])
      /\ \A i \in 1 .. n : d[i] = d[i - 1] + Len(Fields[s[i]])
  <2>1. d[0] = 0 /\ \A i \in 1 .. n + 1 : d[i] = d[i - 1] + Len(Fields[t[i]])
    BY <1>1, <1>3 DEF Counts
  <2>2. n + 1 \in 1 .. n + 1 /\ (n + 1) - 1 = n /\ 1 .. n \subseteq 1 .. n + 1
    BY <1>1
  <2>3. d[n + 1] = d[n] + Len(Fields[t[n + 1]])
    BY <2>1, <2>2
  <2>4. \A i \in 1 .. n : d[i] = d[i - 1] + Len(Fields[t[i]])
    BY <2>1, <2>2
  <2>5. QED
    BY <1>1, <2>1, <2>3, <2>4
<1>6. \A i \in 0 .. n : d[i] = c[i]
  <2>1. d[0] = c[0]
    BY <1>4, <1>5
  <2>2. \A i \in 1 .. n : d[i - 1] = c[i - 1] => d[i] = c[i]
    BY <1>4, <1>5
  <2>3. QED
    BY ZenonT(60), <1>1, <2>1, <2>2, RecursionUnique
<1>7. d[n] = c[n] /\ c[n] \in Nat
  BY <1>1, <1>4, <1>6
<1>8. QED
  BY <1>2, <1>3, <1>5, <1>7 DEF t

LEMMA CountEmpty == SampleCount(<<>>) = 0
PROOF
<1>1. PICK c : Counts(c, <<>>) /\ SampleCount(<<>>) = c[Len(<<>>)]
  BY EmptySeq, CountIs
<1>2. QED
  BY <1>1, EmptySeq DEF Counts

LEMMA CountConcat ==
  ASSUME NEW s \in Seq(Entry)
  PROVE  \A t \in Seq(Entry) :
           /\ SampleCount(t) \in Nat
           /\ SampleCount(s \o t) = SampleCount(s) + SampleCount(t)
PROOF
<1> DEFINE N == {t \in Seq(Entry) :
                   SampleCount(s \o t) = SampleCount(s) + SampleCount(t)}
<1>1. \A t \in Seq(Entry) : SampleCount(t) \in Nat
  <2>1. ASSUME NEW t \in Seq(Entry) PROVE SampleCount(t) \in Nat
    <3>1. PICK c : Counts(c, t) /\ SampleCount(t) = c[Len(t)]
      BY CountIs
    <3>2. QED
      BY <3>1, LenProperties DEF Counts
  <2>2. QED
    BY <2>1
<1>2. <<>> \in N
  <2>1. s \o <<>> = s /\ <<>> \in Seq(Entry)
    BY ConcatEmptySeq, EmptySeq
  <2>2. QED
    BY <1>1, <2>1, CountEmpty
<1>3. ASSUME NEW t \in Seq(Entry), NEW e \in Entry, t \in N
      PROVE  Append(t, e) \in N
  <2>1. /\ Append(t, e) \in Seq(Entry) /\ s \o t \in Seq(Entry)
        /\ s \o Append(t, e) = Append(s \o t, e)
    BY AppendConcat, AppendProperties, ConcatProperties
  <2>2. /\ SampleCount(Append(s \o t, e)) = SampleCount(s \o t) + Len(Fields[e])
        /\ SampleCount(Append(t, e)) = SampleCount(t) + Len(Fields[e])
    BY <2>1, CountAppend
  <2>3. Len(Fields[e]) \in Nat
    BY FieldsAre
  <2>4. SampleCount(s \o t) = SampleCount(s) + SampleCount(t)
    BY <1>3
  <2>5. SampleCount(s) \in Nat /\ SampleCount(t) \in Nat
    BY <1>1
  <2>6. SampleCount(s \o Append(t, e)) = SampleCount(s) + SampleCount(Append(t, e))
    BY <2>1, <2>2, <2>3, <2>4, <2>5
  <2>7. QED
    BY <2>1, <2>6
<1> HIDE DEF N
<1>4. Seq(Entry) \subseteq N
  BY <1>2, <1>3, SequenceInduction
<1>5. QED
  BY <1>1, <1>4 DEF N

Row == [entry : Nat, field : FieldName, value : Entry \X FieldName]

\* The rows of e as the i-th of its sequence.
EntryRows(i, e) ==
  [j \in DOMAIN Fields[e] |->
     [entry |-> i, field |-> Fields[e][j], value |-> <<e, Fields[e][j]>>]]

\* The row with its entry k further on.
Moved(row, k) ==
  [entry |-> row.entry + k, field |-> row.field, value |-> row.value]

Shift(rows, k) == [i \in DOMAIN rows |-> Moved(rows[i], k)]

LEMMA EntryRowsAre ==
  ASSUME NEW i \in Nat, NEW e \in Entry
  PROVE  EntryRows(i, e) \in Seq(Row) /\ Len(EntryRows(i, e)) = Len(Fields[e])
PROOF
<1> DEFINE n == Len(Fields[e])
<1>1. n \in Nat /\ DOMAIN Fields[e] = 1 .. n /\ \A j \in 1 .. n : Fields[e][j] \in FieldName
  BY FieldsAre, ElementOfSeq
<1>2. EntryRows(i, e) \in [1 .. n -> Row]
  BY <1>1 DEF EntryRows, Row
<1> HIDE DEF n
<1>3. EntryRows(i, e) \in Seq(Row)
  BY <1>1, <1>2, SeqDef
<1>4. DOMAIN EntryRows(i, e) = 1 .. n
  BY <1>2
<1>5. Len(EntryRows(i, e)) = n
  BY <1>1, <1>3, <1>4, LenProperties
<1>6. QED
  BY <1>3, <1>5 DEF n

LEMMA SamplesAppend ==
  ASSUME NEW s \in Seq(Entry), NEW e \in Entry
  PROVE  /\ SamplesOf(s) \in Seq(Row)
         /\ SamplesOf(Append(s, e)) = SamplesOf(s) \o EntryRows(Len(s) + 1, e)
PROOF
<1> DEFINE t == Append(s, e)
           n == Len(s)
           ss == [i \in 1 .. n |-> EntryRows(i, s[i])]
           tt == [i \in 1 .. n + 1 |-> EntryRows(i, t[i])]
<1>1. /\ t \in Seq(Entry) /\ Len(t) = n + 1 /\ n \in Nat
      /\ DOMAIN s = 1 .. n /\ DOMAIN t = 1 .. n + 1
      /\ t[n + 1] = e /\ \A i \in 1 .. n : t[i] = s[i] /\ s[i] \in Entry
  BY AppendProperties, LenProperties, ElementOfSeq
<1>2. SamplesOf(s) = FlattenSeq(ss)
  BY <1>1 DEF SamplesOf, EntryRows
<1>3. SamplesOf(t) = FlattenSeq(tt)
  <2> HIDE DEF t
  <2>1. QED
    BY <1>1 DEF SamplesOf, EntryRows
<1> DEFINE row == EntryRows(n + 1, e)
<1>4. row \in Seq(Row)
  BY <1>1, EntryRowsAre
<1>5. ss \in Seq(Seq(Row)) /\ Len(ss) = n
  <2>1. ss \in [1 .. n -> Seq(Row)]
    <3>1. \A i \in 1 .. n : EntryRows(i, s[i]) \in Seq(Row)
      BY <1>1, EntryRowsAre
    <3>2. QED
      BY <3>1
  <2> HIDE DEF ss, n
  <2>2. ss \in Seq(Seq(Row))
    BY <1>1, <2>1, SeqDef
  <2>3. DOMAIN ss = 1 .. n
    BY <2>1
  <2>4. QED
    BY <1>1, <2>2, <2>3, LenProperties
<1>6. tt \in Seq(Seq(Row)) /\ Len(tt) = n + 1
  <2>1. tt \in [1 .. n + 1 -> Seq(Row)]
    <3>1. \A i \in 1 .. n + 1 : t[i] \in Entry
      BY <1>1, ElementOfSeq
    <3> HIDE DEF t
    <3>2. \A i \in 1 .. n + 1 : EntryRows(i, t[i]) \in Seq(Row)
      BY <1>1, <3>1, EntryRowsAre
    <3>3. QED
      BY <3>2
  <2> HIDE DEF tt
  <2>2. n + 1 \in Nat
    BY <1>1
  <2> HIDE DEF n
  <2>3. tt \in Seq(Seq(Row))
    BY <2>1, <2>2, SeqDef
  <2>4. DOMAIN tt = 1 .. n + 1
    BY <2>1
  <2>5. QED
    BY <2>2, <2>3, <2>4, LenProperties
<1>7. tt = Append(ss, row)
  <2>1. \A i \in 1 .. n : tt[i] = ss[i]
    BY <1>1
  <2>2. tt[n + 1] = row
    BY <1>1
  <2> HIDE DEF tt, ss, row, n
  <2>3. /\ Append(ss, row) \in Seq(Seq(Row)) /\ Len(Append(ss, row)) = n + 1
        /\ Append(ss, row)[n + 1] = row
        /\ \A i \in 1 .. n : Append(ss, row)[i] = ss[i]
    BY <1>4, <1>5, AppendProperties
  <2>4. \A i \in 1 .. n + 1 : tt[i] = Append(ss, row)[i]
    <3>1. \A i \in 1 .. n + 1 : i \in 1 .. n \/ i = n + 1
      BY <1>1
    <3>2. QED
      BY <2>1, <2>2, <2>3, <3>1
  <2>5. QED
    BY <1>6, <2>3, <2>4, SeqEqual
<1> HIDE DEF tt, ss, row
<1>8. FlattenSeq(ss) \in Seq(Row) /\ FlattenSeq(tt) = FlattenSeq(ss) \o row
  BY <1>4, <1>5, <1>7, FlattenAppend
<1>9. QED
  BY <1>2, <1>3, <1>8 DEF row

LEMMA SamplesEmpty == SamplesOf(<<>>) = <<>>
PROOF
<1>1. PICK f : Flattens(f, Row, <<>>)
  BY EmptySeq, FlattenIs
<1>2. f[0] = <<>> /\ FlattenSeq(<<>>) = f[0]
  BY <1>1, EmptySeq DEF Flattens
<1>3. SamplesOf(<<>>) = FlattenSeq(<<>>)
  BY DEF SamplesOf
<1>4. QED
  BY <1>2, <1>3

\* There is one row for each field of each entry; it names its entry.
LEMMA SamplesAre ==
  ASSUME NEW s \in Seq(Entry)
  PROVE  /\ SamplesOf(s) \in Seq(Row) /\ Len(SamplesOf(s)) = SampleCount(s)
         /\ \A i \in 1 .. SampleCount(s) :
              /\ SamplesOf(s)[i].entry \in 1 .. Len(s)
              /\ SamplesOf(s)[i].value
                   = <<s[SamplesOf(s)[i].entry], SamplesOf(s)[i].field>>
PROOF
<1> DEFINE Good(r, t) ==
             r.entry \in 1 .. Len(t) /\ r.value = <<t[r.entry], r.field>>
           N == {t \in Seq(Entry) :
                   /\ SamplesOf(t) \in Seq(Row)
                   /\ Len(SamplesOf(t)) = SampleCount(t)
                   /\ \A i \in 1 .. SampleCount(t) : Good(SamplesOf(t)[i], t)}
<1>1. <<>> \in N
  <2>1. <<>> \in Seq(Entry) /\ <<>> \in Seq(Row) /\ 1 .. 0 = {}
    BY EmptySeq
  <2>2. Len(SamplesOf(<<>>)) = 0 /\ SampleCount(<<>>) = 0
    BY SamplesEmpty, CountEmpty, EmptySeq
  <2> HIDE DEF Good
  <2>3. QED
    BY <2>1, <2>2, SamplesEmpty
<1>2. ASSUME NEW t \in Seq(Entry), NEW e \in Entry, t \in N
      PROVE  Append(t, e) \in N
  <2> DEFINE u == Append(t, e)
             old == SamplesOf(t)
             new == EntryRows(Len(t) + 1, e)
             m == SampleCount(t)
             k == Len(Fields[e])
  <2>1. /\ u \in Seq(Entry) /\ Len(u) = Len(t) + 1 /\ Len(t) \in Nat
        /\ u[Len(t) + 1] = e /\ \A i \in 1 .. Len(t) : u[i] = t[i]
    BY AppendProperties, LenProperties
  <2>2. /\ old \in Seq(Row) /\ Len(old) = m /\ m \in Nat
        /\ \A i \in 1 .. m : Good(old[i], t)
    BY <1>2, CountConcat
  <2>3. new \in Seq(Row) /\ Len(new) = k /\ k \in Nat
    <3>1. Len(t) + 1 \in Nat /\ k \in Nat
      BY <2>1, FieldsAre
    <3>2. QED
      BY <3>1, EntryRowsAre
  <2>4. SamplesOf(u) = old \o new /\ SampleCount(u) = m + k
    BY SamplesAppend, CountAppend
  <2>5. \A j \in 1 .. k : new[j].entry = Len(t) + 1 /\ new[j].value = <<e, new[j].field>>
    BY FieldsAre DEF EntryRows
  <2> HIDE DEF u, new, old, m, k
  <2>6. /\ old \o new \in Seq(Row) /\ Len(old \o new) = m + k
        /\ \A i \in 1 .. m + k :
             (old \o new)[i] = IF i <= m THEN old[i] ELSE new[i - m]
    BY <2>2, <2>3, ConcatProperties
  <2>7. ASSUME NEW i \in 1 .. m + k PROVE Good((old \o new)[i], u)
    <3>1. CASE i <= m
      <4>1. (old \o new)[i] = old[i] /\ i \in 1 .. m
        BY <2>2, <2>3, <2>6, <3>1
      <4>2. Good(old[i], t)
        BY <2>2, <4>1
      <4>3. Good(old[i], u)
        BY <2>1, <4>2
      <4>4. QED
        BY <4>1, <4>3
    <3>2. CASE ~ (i <= m)
      <4>1. (old \o new)[i] = new[i - m] /\ i - m \in 1 .. k
        BY <2>2, <2>3, <2>6, <3>2
      <4>2. Good(new[i - m], u)
        BY <2>1, <2>5, <4>1
      <4>3. QED
        BY <4>1, <4>2
    <3>3. QED
      BY <3>1, <3>2
  <2> HIDE DEF Good
  <2>8. QED
    BY <2>1, <2>4, <2>6, <2>7 DEF u
<1> HIDE DEF N
<1>3. Seq(Entry) \subseteq N
  BY <1>1, <1>2, SequenceInduction
<1>4. QED
  BY <1>3 DEF N

LEMMA ShiftAppend ==
  ASSUME NEW k \in Nat, NEW a \in Seq(Row), NEW b \in Seq(Row)
  PROVE  /\ Shift(a, k) \in Seq(Row) /\ Len(Shift(a, k)) = Len(a)
         /\ Shift(a \o b, k) = Shift(a, k) \o Shift(b, k)
PROOF
<1>1. ASSUME NEW c \in Seq(Row)
      PROVE  /\ Shift(c, k) \in Seq(Row) /\ Len(Shift(c, k)) = Len(c)
             /\ \A i \in 1 .. Len(c) : Shift(c, k)[i] = Moved(c[i], k)
  <2> DEFINE n == Len(c)
  <2>1. n \in Nat /\ DOMAIN c = 1 .. n /\ \A i \in 1 .. n : c[i] \in Row
    BY LenProperties, ElementOfSeq
  <2>2. \A i \in 1 .. n : Moved(c[i], k) \in Row
    BY <2>1 DEF Row, Moved
  <2>3. Shift(c, k) \in [1 .. n -> Row]
    BY <2>1, <2>2 DEF Shift
  <2> HIDE DEF n
  <2>4. Shift(c, k) \in Seq(Row)
    BY <2>1, <2>3, SeqDef
  <2>5. DOMAIN Shift(c, k) = 1 .. n
    BY <2>3
  <2>6. Len(Shift(c, k)) = n
    BY <2>1, <2>4, <2>5, LenProperties
  <2>7. QED
    BY <2>1, <2>4, <2>6 DEF Shift, n
<1> DEFINE c == a \o b
           sa == Shift(a, k)
           sb == Shift(b, k)
           sc == Shift(c, k)
<1>2. /\ c \in Seq(Row) /\ Len(c) = Len(a) + Len(b)
      /\ Len(a) \in Nat /\ Len(b) \in Nat
      /\ \A i \in 1 .. Len(a) + Len(b) :
           c[i] = IF i <= Len(a) THEN a[i] ELSE b[i - Len(a)]
  BY ConcatProperties, LenProperties
<1>3. sa \in Seq(Row) /\ Len(sa) = Len(a)
      /\ \A i \in 1 .. Len(a) : sa[i] = Moved(a[i], k)
  BY <1>1
<1>4. sb \in Seq(Row) /\ Len(sb) = Len(b)
      /\ \A i \in 1 .. Len(b) : sb[i] = Moved(b[i], k)
  BY <1>1
<1> HIDE DEF c
<1>5. sc \in Seq(Row) /\ Len(sc) = Len(c)
      /\ \A i \in 1 .. Len(c) : sc[i] = Moved(c[i], k)
  BY <1>1, <1>2
<1> HIDE DEF sa, sb, sc
<1>6. /\ sa \o sb \in Seq(Row) /\ Len(sa \o sb) = Len(a) + Len(b)
      /\ \A i \in 1 .. Len(a) + Len(b) :
           (sa \o sb)[i] = IF i <= Len(a) THEN sa[i] ELSE sb[i - Len(a)]
  <2>1. sa \in Seq(Row) /\ sb \in Seq(Row)
    BY <1>3, <1>4
  <2>2. Len(sa) = Len(a) /\ Len(sb) = Len(b)
    BY <1>3, <1>4
  <2>3. /\ sa \o sb \in Seq(Row) /\ Len(sa \o sb) = Len(sa) + Len(sb)
        /\ \A i \in 1 .. Len(sa) + Len(sb) :
             (sa \o sb)[i] = IF i <= Len(sa) THEN sa[i] ELSE sb[i - Len(sa)]
    BY <2>1, ConcatProperties
  <2>4. QED
    BY <2>2, <2>3
<1>7. ASSUME NEW i \in 1 .. Len(sc) PROVE sc[i] = (sa \o sb)[i]
  <2>1. i \in 1 .. Len(a) + Len(b) /\ i \in 1 .. Len(c)
    BY <1>2, <1>5
  <2>2. CASE i <= Len(a)
    <3>1. i \in 1 .. Len(a)
      BY <1>2, <2>1, <2>2
    <3>2. QED
      BY <1>2, <1>3, <1>5, <1>6, <2>1, <2>2, <3>1
  <2>3. CASE ~ (i <= Len(a))
    <3>1. i - Len(a) \in 1 .. Len(b)
      BY <1>2, <2>1, <2>3
    <3>2. QED
      BY <1>2, <1>4, <1>5, <1>6, <2>1, <2>3, <3>1
  <2>4. QED
    BY <2>2, <2>3
<1>8. sc = sa \o sb
  BY <1>2, <1>5, <1>6, <1>7, SeqEqual
<1>9. QED
  BY <1>3, <1>8 DEF sa, sb, sc, c

\* The rows of a sequence of entries that follows another.
LEMMA SamplesConcat ==
  ASSUME NEW s \in Seq(Entry)
  PROVE  \A t \in Seq(Entry) :
           SamplesOf(s \o t) = SamplesOf(s) \o Shift(SamplesOf(t), Len(s))
PROOF
<1> DEFINE k == Len(s)
           N == {t \in Seq(Entry) :
                   SamplesOf(s \o t) = SamplesOf(s) \o Shift(SamplesOf(t), k)}
<1>1. k \in Nat /\ SamplesOf(s) \in Seq(Row)
  BY LenProperties, SamplesAre
<1>2. <<>> \in N
  <2>1. s \o <<>> = s /\ <<>> \in Seq(Entry)
    BY ConcatEmptySeq, EmptySeq
  <2>2. Shift(<<>>, k) = <<>>
    BY DEF Shift
  <2>3. SamplesOf(s) \o <<>> = SamplesOf(s)
    BY <1>1, ConcatEmptySeq
  <2>4. QED
    BY <2>1, <2>2, <2>3, SamplesEmpty
<1>3. ASSUME NEW t \in Seq(Entry), NEW e \in Entry, t \in N
      PROVE  Append(t, e) \in N
  <2> DEFINE n == Len(t)
             old == SamplesOf(t)
             new == EntryRows(n + 1, e)
             far == EntryRows(k + n + 1, e)
  <2>1. /\ Append(t, e) \in Seq(Entry) /\ s \o t \in Seq(Entry) /\ n \in Nat
        /\ Len(s \o t) = k + n /\ s \o Append(t, e) = Append(s \o t, e)
    BY <1>1, AppendConcat, AppendProperties, ConcatProperties, LenProperties
  <2>2. /\ SamplesOf(Append(s \o t, e)) = SamplesOf(s \o t) \o EntryRows(Len(s \o t) + 1, e)
        /\ SamplesOf(Append(t, e)) = old \o new
    BY <2>1, SamplesAppend
  <2>3. old \in Seq(Row) /\ new \in Seq(Row) /\ far \in Seq(Row)
    <3>1. n + 1 \in Nat /\ k + n + 1 \in Nat
      BY <1>1, <2>1
    <3>2. QED
      BY <3>1, EntryRowsAre, SamplesAre
  <2>4. Shift(new, k) = far
    <3>1. (n + 1) + k = k + n + 1
      BY <1>1, <2>1
    <3>2. DOMAIN new = DOMAIN Fields[e]
      BY DEF EntryRows
    <3>3. \A j \in DOMAIN Fields[e] : Moved(new[j], k) = far[j]
      BY <1>1, <2>1, <3>1 DEF EntryRows, Moved
    <3>4. Shift(new, k) = [j \in DOMAIN Fields[e] |-> far[j]]
      BY <3>2, <3>3 DEF Shift
    <3>5. QED
      BY <3>4 DEF EntryRows
  <2>5. SamplesOf(s \o t) = SamplesOf(s) \o Shift(old, k)
    BY <1>3
  <2>6. EntryRows(Len(s \o t) + 1, e) = far
    BY <2>1
  <2> HIDE DEF old, new, far, n
  <2>7. Shift(old \o new, k) = Shift(old, k) \o far /\ Shift(old, k) \in Seq(Row)
    BY ZenonT(60), <1>1, <2>3, <2>4, ShiftAppend
  <2>8. (SamplesOf(s) \o Shift(old, k)) \o far = SamplesOf(s) \o (Shift(old, k) \o far)
    BY SMTT(60), <1>1, <2>3, <2>7, ConcatAssociative
  <2>9. SamplesOf(s \o Append(t, e)) = SamplesOf(s) \o Shift(SamplesOf(Append(t, e)), k)
    BY <2>1, <2>2, <2>5, <2>6, <2>7, <2>8
  <2>10. QED
    BY <2>1, <2>9
<1> HIDE DEF N
<1>4. Seq(Entry) \subseteq N
  BY <1>2, <1>3, SequenceInduction
<1>5. QED
  BY <1>4 DEF N

-----------------------------------------------------------------------------
(* The table of field names.                                               *)

\* known with the field of one more row.
With(known, field) == IF Contains(known, field) THEN known ELSE Append(known, field)

Knows(f, rows) ==
  /\ f \in [0 .. Len(rows) -> Seq(FieldName)] /\ f[0] = names
  /\ \A i \in 1 .. Len(rows) : f[i] = With(f[i - 1], rows[i].field)
  /\ Registered(rows) = f[Len(rows)]

LEMMA WithIs ==
  ASSUME NEW known \in Seq(FieldName), NEW field \in FieldName
  PROVE  With(known, field) \in Seq(FieldName)
PROOF
  BY AppendProperties DEF With

LEMMA RegisteredIs ==
  ASSUME names \in Seq(FieldName), NEW rows \in Seq(Row)
  PROVE  \E f : Knows(f, rows)
PROOF
<1> DEFINE n == Len(rows)
           step == [i \in 1 .. n |-> [x \in Seq(FieldName) |-> With(x, rows[i].field)]]
           Def(g) == g = [i \in 0 .. n |->
                            IF i = 0 THEN names ELSE With(g[i - 1], rows[i].field)]
<1>1. n \in Nat /\ \A i \in 1 .. n : rows[i].field \in FieldName
  <2>1. \A i \in 1 .. Len(rows) : rows[i] \in Row
    BY ElementOfSeq
  <2>2. QED
    BY <2>1, LenProperties DEF Row
<1>2. \A i \in 1 .. n, x \in Seq(FieldName) :
        step[i][x] = With(x, rows[i].field) /\ step[i][x] \in Seq(FieldName)
  BY <1>1, WithIs
<1>3. Registered(rows) = (CHOOSE g : Def(g))[n]
  BY DEF Registered, With
<1>4. \E f : Recurses(f, n, Seq(FieldName), names, step)
  <2> HIDE DEF step, n
  <2>1. \A i \in 1 .. n, x \in Seq(FieldName) : step[i][x] \in Seq(FieldName)
    BY <1>2
  <2>2. QED
    BY <1>1, <2>1, Recursion
<1> HIDE DEF step, n
<1>5. PICK f \in [0 .. n -> Seq(FieldName)] :
        f[0] = names /\ \A i \in 1 .. n : f[i] = step[i][f[i - 1]]
  BY <1>4 DEF Recurses
<1>6. ASSUME NEW i \in 1 .. n PROVE f[i] = With(f[i - 1], rows[i].field)
  <2>1. f[i - 1] \in Seq(FieldName)
    BY <1>1, <1>5
  <2>2. QED
    BY <1>2, <1>5, <2>1
<1>7. Def(f)
  <2>1. \A i \in 0 .. n : f[i] = IF i = 0 THEN names ELSE With(f[i - 1], rows[i].field)
    BY <1>1, <1>5, <1>6
  <2>2. QED
    BY <1>5, <2>1
<1> DEFINE c == CHOOSE g : Def(g)
<1>8. Def(c)
  BY <1>7
<1>9. Registered(rows) = c[n]
  BY <1>3
<1> HIDE DEF c
<1>10. c[0] = names /\ \A i \in 1 .. n : c[i] = With(c[i - 1], rows[i].field)
  BY <1>1, <1>8
<1>11. \A i \in 0 .. n : c[i] = f[i]
  <2>1. \A i \in 1 .. n : c[i - 1] = f[i - 1] => c[i] = f[i]
    BY <1>6, <1>10
  <2>2. c[0] = f[0]
    BY <1>5, <1>10
  <2>3. QED
    BY ZenonT(60), <1>1, <2>1, <2>2, RecursionUnique
<1>12. Registered(rows) = f[n]
  BY <1>1, <1>9, <1>11
<1>13. QED
  BY <1>5, <1>6, <1>12 DEF Knows, n

LEMMA RegisteredAppend ==
  ASSUME names \in Seq(FieldName), NEW rows \in Seq(Row), NEW r \in Row
  PROVE  /\ Registered(rows) \in Seq(FieldName)
         /\ Registered(Append(rows, r)) = With(Registered(rows), r.field)
PROOF
<1> DEFINE t == Append(rows, r)
           n == Len(rows)
<1>1. /\ t \in Seq(Row) /\ Len(t) = n + 1 /\ n \in Nat
      /\ t[n + 1] = r /\ \A i \in 1 .. n : t[i] = rows[i]
  BY AppendProperties, LenProperties
<1>2. PICK f : Knows(f, rows)
  BY RegisteredIs
<1> HIDE DEF t
<1>3. PICK g : Knows(g, t)
  BY <1>1, RegisteredIs
<1>4. /\ f \in [0 .. n -> Seq(FieldName)] /\ f[0] = names
      /\ \A i \in 1 .. n : f[i] = With(f[i - 1], rows[i].field)
      /\ Registered(rows) = f[n]
  BY <1>2 DEF Knows
<1>5. /\ g[0] = names /\ Registered(t) = g[n + 1]
      /\ \A i \in 1 .. n + 1 : g[i] = With(g[i - 1], t[i].field)
  BY <1>1, <1>3 DEF Knows
<1>6. \A i \in 0 .. n : g[i] = f[i]
  <2>1. g[0] = f[0]
    BY <1>4, <1>5
  <2>2. ASSUME NEW i \in 1 .. n, g[i - 1] = f[i - 1] PROVE g[i] = f[i]
    <3>1. i \in 1 .. n + 1
      BY <1>1
    <3>2. QED
      BY <1>1, <1>4, <1>5, <2>2, <3>1
  <2>3. QED
    BY ZenonT(60), <1>1, <2>1, <2>2, RecursionUnique
<1>7. g[n] = f[n] /\ f[n] \in Seq(FieldName)
  BY <1>1, <1>4, <1>6
<1>8. g[n + 1] = With(g[n], r.field)
  <2>1. n + 1 \in 1 .. n + 1 /\ (n + 1) - 1 = n
    BY <1>1
  <2>2. QED
    BY <1>1, <1>5, <2>1
<1>9. QED
  BY <1>4, <1>5, <1>7, <1>8 DEF t

LEMMA RegisteredEmpty ==
  ASSUME names \in Seq(FieldName)
  PROVE  Registered(<<>>) = names
PROOF
<1>1. PICK f : Knows(f, <<>>)
  BY EmptySeq, RegisteredIs
<1>2. QED
  BY <1>1, EmptySeq DEF Knows

NoRepeat(s) == \A i, j \in DOMAIN s : s[i] = s[j] => i = j

\* longer starts with what s is.
Extends(longer, s) ==
  Len(s) <= Len(longer) /\ \A i \in 1 .. Len(s) : longer[i] = s[i]

LEMMA WithExtends ==
  ASSUME NEW s \in Seq(FieldName), NoRepeat(s), NEW field \in FieldName
  PROVE  /\ With(s, field) \in Seq(FieldName) /\ NoRepeat(With(s, field))
         /\ Contains(With(s, field), field) /\ Extends(With(s, field), s)
PROOF
<1> DEFINE n == Len(s)
           t == Append(s, field)
<1>1. /\ t \in Seq(FieldName) /\ Len(t) = n + 1 /\ n \in Nat
      /\ DOMAIN s = 1 .. n /\ DOMAIN t = 1 .. n + 1
      /\ t[n + 1] = field /\ \A i \in 1 .. n : t[i] = s[i]
  BY AppendProperties, LenProperties
<1>2. CASE Contains(s, field)
  BY <1>1, <1>2 DEF With, Extends
<1>3. CASE ~Contains(s, field)
  <2> HIDE DEF t
  <2>1. With(s, field) = t
    BY <1>3 DEF With, t
  <2>2. \A i \in 1 .. n : s[i] # field
    BY <1>3 DEF Contains
  <2>3. ASSUME NEW i \in 1 .. n + 1, NEW j \in 1 .. n + 1, t[i] = t[j]
        PROVE  i = j
    <3>1. CASE i \in 1 .. n /\ j \in 1 .. n
      BY <1>1, <2>3, <3>1 DEF NoRepeat
    <3>2. CASE i = n + 1 \/ j = n + 1
      BY <1>1, <2>2, <2>3, <3>2
    <3>3. QED
      BY <1>1, <3>1, <3>2
  <2>4. NoRepeat(t)
    BY <1>1, <2>3 DEF NoRepeat
  <2>5. Contains(t, field)
    BY <1>1 DEF Contains
  <2>6. Extends(t, s)
    BY <1>1 DEF Extends
  <2>7. QED
    BY <1>1, <2>1, <2>4, <2>5, <2>6
<1>4. QED
  BY <1>2, <1>3

LEMMA ExtendsTrans ==
  ASSUME NEW s \in Seq(FieldName), NEW t \in Seq(FieldName),
         NEW u \in Seq(FieldName), Extends(t, s), Extends(u, t)
  PROVE  /\ Extends(u, s)
         /\ \A x : Contains(t, x) => Contains(u, x)
PROOF
<1>1. Len(s) \in Nat /\ Len(t) \in Nat /\ Len(u) \in Nat
  BY LenProperties
<1>2. \A i \in 1 .. Len(s) : i \in 1 .. Len(t)
  BY <1>1 DEF Extends
<1>3. \A i \in 1 .. Len(t) : i \in 1 .. Len(u)
  BY <1>1 DEF Extends
<1>4. QED
  BY <1>1, <1>2, <1>3 DEF Extends, Contains

\* Registering rows adds the names they need, behind the old ones.
LEMMA Registers ==
  ASSUME names \in Seq(FieldName), NoRepeat(names), NEW rows \in Seq(Row)
  PROVE  \A more \in Seq(Row) :
           /\ Registered(more) \in Seq(FieldName) /\ NoRepeat(Registered(more))
           /\ Extends(Registered(more), names)
           /\ \A i \in 1 .. Len(more) : Contains(Registered(more), more[i].field)
           /\ Extends(Registered(rows \o more), Registered(rows))
PROOF
<1> DEFINE All(m) == /\ Registered(m) \in Seq(FieldName) /\ NoRepeat(Registered(m))
                     /\ Extends(Registered(m), names)
                     /\ \A i \in 1 .. Len(m) : Contains(Registered(m), m[i].field)
           N == {m \in Seq(Row) : All(m)}
           M == {m \in Seq(Row) : Extends(Registered(rows \o m), Registered(rows))}
<1>1. Extends(names, names)
  BY LenProperties DEF Extends
<1>2. <<>> \in N
  <2>1. <<>> \in Seq(Row) /\ Len(<<>>) = 0
    BY EmptySeq
  <2>2. QED
    BY <1>1, <2>1, RegisteredEmpty
<1>3. ASSUME NEW m \in Seq(Row), NEW r \in Row, m \in N
      PROVE  Append(m, r) \in N
  <2> DEFINE old == Registered(m)
             new == Registered(Append(m, r))
  <2>1. /\ Append(m, r) \in Seq(Row) /\ Len(Append(m, r)) = Len(m) + 1
        /\ Len(m) \in Nat /\ Append(m, r)[Len(m) + 1] = r
        /\ \A i \in 1 .. Len(m) : Append(m, r)[i] = m[i]
    BY AppendProperties, LenProperties
  <2>2. old \in Seq(FieldName) /\ NoRepeat(old) /\ Extends(old, names)
        /\ \A i \in 1 .. Len(m) : Contains(old, m[i].field)
    BY <1>3
  <2>3. new = With(old, r.field) /\ r.field \in FieldName
    BY RegisteredAppend DEF Row
  <2> HIDE DEF old, new
  <2>4. /\ new \in Seq(FieldName) /\ NoRepeat(new)
        /\ Contains(new, r.field) /\ Extends(new, old)
    BY <2>2, <2>3, WithExtends
  <2>5. Extends(new, names) /\ \A x : Contains(old, x) => Contains(new, x)
    BY <2>2, <2>4, ExtendsTrans
  <2>6. \A i \in 1 .. Len(m) + 1 : Contains(new, Append(m, r)[i].field)
    <3>1. \A i \in 1 .. Len(m) + 1 : i \in 1 .. Len(m) \/ i = Len(m) + 1
      BY <2>1
    <3>2. QED
      BY <2>1, <2>2, <2>4, <2>5, <3>1
  <2>7. QED
    BY <2>1, <2>4, <2>5, <2>6 DEF new
<1> HIDE DEF N
<1>4. Seq(Row) \subseteq N
  BY <1>2, <1>3, SequenceInduction
<1>5. \A m \in Seq(Row) : All(m)
  BY <1>4 DEF N
<1>6. <<>> \in M
  <2>1. rows \o <<>> = rows /\ <<>> \in Seq(Row)
    BY ConcatEmptySeq, EmptySeq
  <2>2. Extends(Registered(rows), Registered(rows))
    BY <1>5, LenProperties DEF Extends
  <2>3. QED
    BY <2>1, <2>2
<1>7. ASSUME NEW m \in Seq(Row), NEW r \in Row, m \in M
      PROVE  Append(m, r) \in M
  <2>1. /\ Append(m, r) \in Seq(Row) /\ rows \o m \in Seq(Row)
        /\ rows \o Append(m, r) = Append(rows \o m, r) /\ r.field \in FieldName
    BY SMTT(60), AppendConcat, AppendProperties, ConcatProperties DEF Row
  <2> DEFINE a == Registered(rows)
             b == Registered(rows \o m)
             c == Registered(Append(rows \o m, r))
  <2>2. a \in Seq(FieldName) /\ b \in Seq(FieldName) /\ NoRepeat(b) /\ Extends(b, a)
    BY <1>5, <1>7, <2>1
  <2>3. c = With(b, r.field)
    BY <2>1, RegisteredAppend
  <2> HIDE DEF a, b, c
  <2>4. c \in Seq(FieldName) /\ Extends(c, b)
    BY <2>1, <2>2, <2>3, WithExtends
  <2>5. Extends(c, a)
    BY <2>2, <2>4, ExtendsTrans
  <2>6. QED
    BY <2>1, <2>5 DEF a, c
<1> HIDE DEF M
<1>8. Seq(Row) \subseteq M
  BY <1>6, <1>7, SequenceInduction
<1>9. QED
  BY <1>5, <1>8 DEF M

-----------------------------------------------------------------------------
(* Parts of sequences, and rows written over others.                       *)

LEMMA Parts ==
  ASSUME NEW S, NEW s \in Seq(S), NEW m \in 0 .. Len(s), NEW n \in m .. Len(s)
  PROVE  /\ SubSeq(s, 1, m) \in Seq(S) /\ Len(SubSeq(s, 1, m)) = m
         /\ \A i \in 1 .. m : SubSeq(s, 1, m)[i] = s[i]
         /\ SubSeq(s, m + 1, n) \in Seq(S) /\ Len(SubSeq(s, m + 1, n)) = n - m
         /\ \A i \in 1 .. n - m : SubSeq(s, m + 1, n)[i] = s[m + i]
         /\ SubSeq(s, 1, n) = SubSeq(s, 1, m) \o SubSeq(s, m + 1, n)
PROOF
<1> DEFINE a == SubSeq(s, 1, m)
           b == SubSeq(s, m + 1, n)
           c == SubSeq(s, 1, n)
<1>1. /\ Len(s) \in Nat /\ m \in Nat /\ n \in Nat /\ m <= n /\ n <= Len(s)
      /\ \A i \in 1 .. Len(s) : s[i] \in S
  BY LenProperties, ElementOfSeq
<1>2. a \in Seq(S) /\ Len(a) = m /\ \A i \in 1 .. m : a[i] = s[i]
  <2>1. \A i \in 1 .. m : s[i] \in S
    BY <1>1
  <2>2. 1 \in Int /\ m \in Int
    BY <1>1
  <2>3. a \in Seq(S) /\ Len(a) = (IF 1 <= m THEN m - 1 + 1 ELSE 0)
        /\ \A i \in 1 .. m - 1 + 1 : a[i] = s[1 + i - 1]
    BY <2>1, <2>2, SubSeqProperties
  <2> HIDE DEF a
  <2>4. QED
    BY <1>1, <2>3
<1>3. c \in Seq(S) /\ Len(c) = n /\ \A i \in 1 .. n : c[i] = s[i]
  <2>1. \A i \in 1 .. n : s[i] \in S
    BY <1>1
  <2>2. 1 \in Int /\ n \in Int
    BY <1>1
  <2>3. c \in Seq(S) /\ Len(c) = (IF 1 <= n THEN n - 1 + 1 ELSE 0)
        /\ \A i \in 1 .. n - 1 + 1 : c[i] = s[1 + i - 1]
    BY <2>1, <2>2, SubSeqProperties
  <2> HIDE DEF c
  <2>4. QED
    BY <1>1, <2>3
<1>4. b \in Seq(S) /\ Len(b) = n - m /\ \A i \in 1 .. n - m : b[i] = s[m + i]
  <2>1. \A i \in m + 1 .. n : s[i] \in S
    BY <1>1
  <2>2. m + 1 \in Int /\ n \in Int
    BY <1>1
  <2>3. b \in Seq(S) /\ Len(b) = (IF m + 1 <= n THEN n - (m + 1) + 1 ELSE 0)
        /\ \A i \in 1 .. n - (m + 1) + 1 : b[i] = s[m + 1 + i - 1]
    BY <2>1, <2>2, SubSeqProperties
  <2> HIDE DEF b
  <2>4. QED
    BY <1>1, <2>3
<1> HIDE DEF a, b, c
<1>5. /\ a \o b \in Seq(S) /\ Len(a \o b) = Len(a) + Len(b)
      /\ \A i \in 1 .. Len(a) + Len(b) :
           (a \o b)[i] = IF i <= Len(a) THEN a[i] ELSE b[i - Len(a)]
  BY <1>2, <1>4, ConcatProperties
<1>6. Len(a \o b) = n
  BY <1>1, <1>2, <1>4, <1>5
<1>7. ASSUME NEW i \in 1 .. Len(c) PROVE c[i] = (a \o b)[i]
  <2>1. i \in 1 .. n /\ c[i] = s[i] /\ n = Len(a) + Len(b)
    BY <1>1, <1>2, <1>3, <1>4
  <2>2. CASE i <= m
    BY <1>1, <1>2, <1>5, <2>1, <2>2
  <2>3. CASE ~ (i <= m)
    <3>1. i - m \in 1 .. n - m /\ m + (i - m) = i
      BY <1>1, <2>1, <2>3
    <3>2. b[i - m] = s[i]
      BY <1>4, <3>1
    <3>3. (a \o b)[i] = b[i - m]
      BY <1>2, <1>5, <2>1, <2>3
    <3>4. QED
      BY <2>1, <3>2, <3>3
  <2>4. QED
    BY <2>2, <2>3
<1>8. c = a \o b
  BY <1>3, <1>5, <1>6, <1>7, SeqEqual
<1>9. QED
  BY <1>2, <1>4, <1>8 DEF a, b, c

LEMMA PartOfConcat ==
  ASSUME NEW S, NEW s \in Seq(S), NEW t \in Seq(S), NEW n \in 0 .. Len(s)
  PROVE  SubSeq(s \o t, 1, n) = SubSeq(s, 1, n)
PROOF
<1>1. Len(s) \in Nat
  BY LenProperties
<1>2. CASE n = 0
  <2>1. 1 \in Int /\ n \in Int /\ n < 1
    BY <1>2
  <2>2. SubSeq(s \o t, 1, n) = <<>> /\ SubSeq(s, 1, n) = <<>>
    BY <2>1, SubSeqEmpty
  <2>3. QED
    BY <2>2
<1>3. CASE n # 0
  <2>1. 1 \in 1 .. Len(s) /\ n \in 1 .. Len(s)
    BY <1>1, <1>3
  <2>2. QED
    BY <2>1, SubSeqOfConcat1
<1>4. QED
  BY <1>2, <1>3

\* What writing n rows behind the first from rows of s leaves of s.
Kept(t, s, from, n) ==
  /\ from <= Len(t) /\ (Len(t) <= Len(s) \/ Len(t) <= from + n)
  /\ \A i \in 1 .. from : t[i] = s[i]

LEMMA OverwriteIs ==
  ASSUME NEW S, NEW s \in Seq(S), NEW new \in Seq(S), NEW from \in 0 .. Len(s)
  PROVE  /\ Overwrite(s, from, new) \in Seq(S)
         /\ Kept(Overwrite(s, from, new), s, from, Len(new))
         /\ from + Len(new) <= Len(Overwrite(s, from, new))
         /\ \A i \in 1 .. Len(new) : Overwrite(s, from, new)[from + i] = new[i]
PROOF
<1> DEFINE k == Len(new)
           n == IF Len(s) > from + k THEN Len(s) ELSE from + k
           t == Overwrite(s, from, new)
<1>1. /\ Len(s) \in Nat /\ k \in Nat /\ from \in Nat /\ from <= Len(s)
      /\ \A i \in 1 .. Len(s) : s[i] \in S
      /\ \A i \in 1 .. k : new[i] \in S
  BY LenProperties, ElementOfSeq
<1>2. n \in Nat /\ Len(s) <= n /\ from + k <= n /\ (n = Len(s) \/ n = from + k)
  BY <1>1
<1>3. t = [i \in 1 .. n |-> IF from < i /\ i <= from + k THEN new[i - from] ELSE s[i]]
  BY DEF Overwrite
<1> HIDE DEF t, n, k
<1>4. ASSUME NEW i \in 1 .. n PROVE t[i] \in S
  <2>1. CASE from < i /\ i <= from + k
    <3>1. i - from \in 1 .. k
      BY <1>1, <1>2, <2>1
    <3>2. QED
      BY <1>1, <1>3, <2>1, <3>1
  <2>2. CASE ~ (from < i /\ i <= from + k)
    <3>1. i \in 1 .. Len(s)
      BY <1>1, <1>2, <2>2
    <3>2. QED
      BY <1>1, <1>3, <2>2, <3>1
  <2>3. QED
    BY <2>1, <2>2
<1>5. t \in [1 .. n -> S] /\ DOMAIN t = 1 .. n
  BY <1>3, <1>4
<1>6. t \in Seq(S)
  BY <1>2, <1>5, SeqDef
<1>7. Len(t) = n
  BY <1>2, <1>5, <1>6, LenProperties
<1>8. \A i \in 1 .. from : t[i] = s[i]
  <2>1. \A i \in 1 .. from : i \in 1 .. n /\ ~ (from < i)
    BY <1>1, <1>2
  <2>2. QED
    BY <1>3, <2>1
<1>9. \A i \in 1 .. k : t[from + i] = new[i]
  <2>1. \A i \in 1 .. k : /\ from + i \in 1 .. n /\ from < from + i
                          /\ from + i <= from + k /\ (from + i) - from = i
    BY <1>1, <1>2
  <2>2. QED
    BY <1>3, <2>1
<1>10. Kept(t, s, from, k)
  BY <1>1, <1>2, <1>7, <1>8 DEF Kept
<1>11. QED
  BY <1>2, <1>6, <1>7, <1>9, <1>10 DEF t, k

-----------------------------------------------------------------------------
(* The inductive invariant.                                                *)

\* The entries that are committed to the file, and their rows.
Done == SubSeq(handed, 1, entries)
DoneRows == SamplesOf(Done)

\* What memory holds is what was handed over and is not yet in the file.
Memory ==
  /\ pending \in Seq(Entry) /\ handed \in Seq(Entry)
  /\ names \in Seq(FieldName) /\ NoRepeat(names)
  /\ entries \in 0 .. Len(handed)
  /\ Done \o pending = handed
  /\ samples = SampleCount(Done)

FileOK ==
  /\ file.field \in Seq(FieldName) /\ file.id \in Seq(Entry)
  /\ file.idIndex \in Seq(Nat) /\ file.fieldIndex \in Seq(Nat)
  /\ file.sample \in Seq(Entry \X FieldName)

\* The rows below the indices in memory are final: each refers to its entry
\* and to its field name.
Committed ==
  /\ Extends(file.field, names) /\ Extends(file.id, Done)
  /\ samples <= Len(file.idIndex) /\ samples <= Len(file.fieldIndex)
  /\ samples <= Len(file.sample)
  /\ \A i \in 1 .. samples :
       /\ file.idIndex[i] = DoneRows[i].entry
       /\ file.fieldIndex[i] \in 1 .. Len(names)
       /\ names[file.fieldIndex[i]] = DoneRows[i].field
       /\ file.sample[i] = DoneRows[i].value

\* A failed flush leaves no row above them that the next one does not
\* overwrite.
Leftover ==
  /\ \/ Len(file.field) <= Len(names)
     \/ Len(file.field) <= Len(Registered(SamplesOf(pending)))
  /\ Len(file.id) <= Len(handed)
  /\ Len(file.idIndex) <= SampleCount(handed)
  /\ Len(file.fieldIndex) <= SampleCount(handed)
  /\ Len(file.sample) <= SampleCount(handed)

Content == Memory /\ FileOK /\ Committed /\ Leftover

Control ==
  /\ pc \in {"idle", "loop", "flush", "closing", "failed", "closed"}
  /\ batch \in Seq(Entry) /\ offset \in 0 .. Len(batch)
  /\ failures \in 0 .. MaxFailures
  /\ pc = "closed" => pending = <<>>

WriterInv == Control /\ Content /\ StagingBounded

-----------------------------------------------------------------------------
(* A flush.                                                                *)

PendingRows == SamplesOf(pending)
Known == Registered(PendingRows)
Added == SubSeq(Known, Len(names) + 1, Len(Known))
IdColumn == [i \in DOMAIN PendingRows |-> entries + PendingRows[i].entry]
FieldColumn == [i \in DOMAIN PendingRows |-> IndexIn(Known, PendingRows[i].field)]
ValueColumn == [i \in DOMAIN PendingRows |-> PendingRows[i].value]

LEMMA ColumnIs ==
  ASSUME NEW S, NEW n \in Nat, NEW c, c \in [1 .. n -> S]
  PROVE  c \in Seq(S) /\ Len(c) = n
PROOF
<1>1. c \in Seq(S)
  BY SeqDef
<1>2. DOMAIN c = 1 .. n
  OBVIOUS
<1>3. QED
  BY <1>1, <1>2, LenProperties

\* What a flush is about to write.
LEMMA ToWrite ==
  ASSUME Memory
  PROVE  /\ PendingRows \in Seq(Row) /\ Len(PendingRows) = SampleCount(pending)
         /\ SampleCount(pending) \in Nat
         /\ Known \in Seq(FieldName) /\ NoRepeat(Known) /\ Extends(Known, names)
         /\ Added \in Seq(FieldName) /\ Len(Added) = Len(Known) - Len(names)
         /\ \A i \in 1 .. Len(Added) : Added[i] = Known[Len(names) + i]
         /\ IdColumn \in Seq(Nat) /\ Len(IdColumn) = SampleCount(pending)
         /\ FieldColumn \in Seq(Nat) /\ Len(FieldColumn) = SampleCount(pending)
         /\ ValueColumn \in Seq(Entry \X FieldName)
         /\ Len(ValueColumn) = SampleCount(pending)
         /\ \A i \in 1 .. SampleCount(pending) :
              /\ IdColumn[i] = entries + PendingRows[i].entry
              /\ FieldColumn[i] \in 1 .. Len(Known)
              /\ Known[FieldColumn[i]] = PendingRows[i].field
              /\ ValueColumn[i] = PendingRows[i].value
PROOF
<1> DEFINE n == SampleCount(pending)
<1>1. /\ pending \in Seq(Entry) /\ handed \in Seq(Entry)
      /\ names \in Seq(FieldName) /\ NoRepeat(names)
      /\ entries \in Nat
  BY LenProperties DEF Memory
<1>2. /\ PendingRows \in Seq(Row) /\ Len(PendingRows) = n /\ n \in Nat
      /\ DOMAIN PendingRows = 1 .. n
  <2>1. PendingRows \in Seq(Row) /\ Len(PendingRows) = n
    BY <1>1, SamplesAre DEF PendingRows
  <2>2. QED
    BY <2>1, LenProperties
<1>3. \A i \in 1 .. n : PendingRows[i] \in Row
  BY <1>2, ElementOfSeq
<1>4. /\ Known \in Seq(FieldName) /\ NoRepeat(Known) /\ Extends(Known, names)
      /\ \A i \in 1 .. n : Contains(Known, PendingRows[i].field)
  <2>1. \E rows : rows \in Seq(Row)
    BY <1>2
  <2>2. QED
    BY <1>1, <1>2, Registers DEF Known
<1>5. /\ Added \in Seq(FieldName) /\ Len(Added) = Len(Known) - Len(names)
      /\ \A i \in 1 .. Len(Added) : Added[i] = Known[Len(names) + i]
  <2>1. /\ Len(names) \in Nat /\ Len(Known) \in Nat /\ Len(names) <= Len(Known)
    BY <1>1, <1>4, LenProperties DEF Extends
  <2>2. Len(names) \in 0 .. Len(Known) /\ Len(Known) \in Len(names) .. Len(Known)
    BY <2>1
  <2>3. QED
    BY <1>4, <2>2, Parts DEF Added
<1>6. IdColumn \in [1 .. n -> Nat]
  <2>1. \A i \in 1 .. n : entries + PendingRows[i].entry \in Nat
    BY <1>1, <1>3 DEF Row
  <2>2. QED
    BY <1>2, <2>1 DEF IdColumn
<1>7. ASSUME NEW i \in 1 .. n
      PROVE  /\ FieldColumn[i] \in 1 .. Len(Known)
             /\ Known[FieldColumn[i]] = PendingRows[i].field
  <2> DEFINE x == PendingRows[i].field
  <2>1. FieldColumn[i] = IndexIn(Known, x)
    BY <1>2 DEF FieldColumn
  <2>2. DOMAIN Known = 1 .. Len(Known)
    BY <1>4, LenProperties
  <2>3. \E j \in DOMAIN Known : Known[j] = x
    <3>1. Contains(Known, x)
      BY <1>4
    <3> HIDE DEF x
    <3>2. QED
      BY <2>2, <3>1 DEF Contains
  <2> HIDE DEF x
  <2>4. IndexIn(Known, x) \in DOMAIN Known /\ Known[IndexIn(Known, x)] = x
    BY <2>3 DEF IndexIn
  <2>5. QED
    BY <2>1, <2>2, <2>4 DEF x
<1>8. FieldColumn \in [1 .. n -> Nat]
  <2>1. \A i \in 1 .. n : FieldColumn[i] \in Nat
    BY <1>4, <1>7, LenProperties
  <2>2. FieldColumn = [i \in 1 .. n |-> FieldColumn[i]]
    BY <1>2 DEF FieldColumn
  <2>3. QED
    BY <2>1, <2>2
<1>9. ValueColumn \in [1 .. n -> Entry \X FieldName]
  <2>1. \A i \in 1 .. n : PendingRows[i].value \in Entry \X FieldName
    BY <1>3 DEF Row
  <2>2. QED
    BY <1>2, <2>1 DEF ValueColumn
<1>10. /\ IdColumn \in Seq(Nat) /\ Len(IdColumn) = n
       /\ FieldColumn \in Seq(Nat) /\ Len(FieldColumn) = n
       /\ ValueColumn \in Seq(Entry \X FieldName) /\ Len(ValueColumn) = n
  BY <1>2, <1>6, <1>8, <1>9, ColumnIs
<1>11. \A i \in 1 .. n : /\ IdColumn[i] = entries + PendingRows[i].entry
                         /\ ValueColumn[i] = PendingRows[i].value
  BY <1>2 DEF IdColumn, ValueColumn
<1>12. QED
  BY <1>2, <1>4, <1>5, <1>7, <1>10, <1>11

\* t is s, or s with new written behind its first from rows.
Wrote(t, s, S, from, new) ==
  /\ t \in Seq(S) /\ Kept(t, s, from, Len(new))
  /\ from + Len(new) <= Len(t)
  /\ \A i \in 1 .. Len(new) : t[from + i] = new[i]

Untouched(t, s, S, from, new) == t \in Seq(S) /\ Kept(t, s, from, Len(new))

LEMMA WroteIs ==
  ASSUME NEW S, NEW s \in Seq(S), NEW new \in Seq(S), NEW from \in 0 .. Len(s)
  PROVE  /\ Wrote(Overwrite(s, from, new), s, S, from, new)
         /\ Untouched(Overwrite(s, from, new), s, S, from, new)
         /\ Untouched(s, s, S, from, new)
PROOF
<1>1. Kept(s, s, from, Len(new))
  BY LenProperties DEF Kept
<1>2. QED
  BY <1>1, OverwriteIs DEF Wrote, Untouched

\* The five writes of a flush, and what is left when only k of them are made.
LEMMA FlushWrites ==
  ASSUME Memory, FileOK, Committed
  PROVE  /\ Wrote(Flushed(5).field, file.field, FieldName, Len(names), Added)
         /\ Wrote(Flushed(5).id, file.id, Entry, entries, pending)
         /\ Wrote(Flushed(5).idIndex, file.idIndex, Nat, samples, IdColumn)
         /\ Wrote(Flushed(5).fieldIndex, file.fieldIndex, Nat, samples, FieldColumn)
         /\ Wrote(Flushed(5).sample, file.sample, Entry \X FieldName, samples,
                  ValueColumn)
         /\ \A k \in 0 .. 5 :
              /\ Untouched(Flushed(k).field, file.field, FieldName, Len(names), Added)
              /\ Untouched(Flushed(k).id, file.id, Entry, entries, pending)
              /\ Untouched(Flushed(k).idIndex, file.idIndex, Nat, samples, IdColumn)
              /\ Untouched(Flushed(k).fieldIndex, file.fieldIndex, Nat, samples,
                           FieldColumn)
              /\ Untouched(Flushed(k).sample, file.sample, Entry \X FieldName,
                           samples, ValueColumn)
PROOF
<1>1. ASSUME NEW k \in 0 .. 5
      PROVE  Flushed(k) =
        [field |-> IF k >= 1 THEN Overwrite(file.field, Len(names), Added)
                   ELSE file.field,
         id |-> IF k >= 2 THEN Overwrite(file.id, entries, pending) ELSE file.id,
         idIndex |-> IF k >= 3 THEN Overwrite(file.idIndex, samples, IdColumn)
                     ELSE file.idIndex,
         fieldIndex |-> IF k >= 4
                        THEN Overwrite(file.fieldIndex, samples, FieldColumn)
                        ELSE file.fieldIndex,
         sample |-> IF k >= 5 THEN Overwrite(file.sample, samples, ValueColumn)
                    ELSE file.sample]
  BY DEF Flushed, PendingRows, Known, Added, IdColumn, FieldColumn, ValueColumn
<1>2. /\ Len(names) \in 0 .. Len(file.field) /\ entries \in 0 .. Len(file.id)
      /\ samples \in 0 .. Len(file.idIndex) /\ samples \in 0 .. Len(file.fieldIndex)
      /\ samples \in 0 .. Len(file.sample)
  <2>1. /\ Len(names) \in Nat /\ Len(file.field) \in Nat /\ Len(file.id) \in Nat
        /\ Len(file.idIndex) \in Nat /\ Len(file.fieldIndex) \in Nat
        /\ Len(file.sample) \in Nat
    BY LenProperties DEF Memory, FileOK
  <2>2. entries \in 0 .. Len(handed) /\ handed \in Seq(Entry)
    BY DEF Memory
  <2>3. entries \in Nat /\ Len(Done) = entries /\ Done \in Seq(Entry)
    <3>1. Len(handed) \in entries .. Len(handed) /\ entries \in Nat
      BY <2>2, LenProperties
    <3>2. QED
      BY <2>2, <3>1, Parts DEF Done
  <2>4. samples \in Nat
    BY <2>3, CountConcat DEF Memory
  <2>5. QED
    BY <2>1, <2>3, <2>4 DEF Committed, Extends
<1>3. /\ file.field \in Seq(FieldName) /\ file.id \in Seq(Entry)
      /\ file.idIndex \in Seq(Nat) /\ file.fieldIndex \in Seq(Nat)
      /\ file.sample \in Seq(Entry \X FieldName)
      /\ pending \in Seq(Entry)
  BY DEF FileOK, Memory
<1>4. /\ Added \in Seq(FieldName) /\ IdColumn \in Seq(Nat)
      /\ FieldColumn \in Seq(Nat) /\ ValueColumn \in Seq(Entry \X FieldName)
  BY ToWrite
<1> DEFINE f == Overwrite(file.field, Len(names), Added)
           d == Overwrite(file.id, entries, pending)
           x == Overwrite(file.idIndex, samples, IdColumn)
           y == Overwrite(file.fieldIndex, samples, FieldColumn)
           v == Overwrite(file.sample, samples, ValueColumn)
<1>5. /\ Wrote(f, file.field, FieldName, Len(names), Added)
      /\ Untouched(f, file.field, FieldName, Len(names), Added)
      /\ Untouched(file.field, file.field, FieldName, Len(names), Added)
  BY <1>2, <1>3, <1>4, WroteIs
<1>6. /\ Wrote(d, file.id, Entry, entries, pending)
      /\ Untouched(d, file.id, Entry, entries, pending)
      /\ Untouched(file.id, file.id, Entry, entries, pending)
  BY <1>2, <1>3, <1>4, WroteIs
<1>7. /\ Wrote(x, file.idIndex, Nat, samples, IdColumn)
      /\ Untouched(x, file.idIndex, Nat, samples, IdColumn)
      /\ Untouched(file.idIndex, file.idIndex, Nat, samples, IdColumn)
  BY <1>2, <1>3, <1>4, WroteIs
<1>8. /\ Wrote(y, file.fieldIndex, Nat, samples, FieldColumn)
      /\ Untouched(y, file.fieldIndex, Nat, samples, FieldColumn)
      /\ Untouched(file.fieldIndex, file.fieldIndex, Nat, samples, FieldColumn)
  BY <1>2, <1>3, <1>4, WroteIs
<1>9. /\ Wrote(v, file.sample, Entry \X FieldName, samples, ValueColumn)
      /\ Untouched(v, file.sample, Entry \X FieldName, samples, ValueColumn)
      /\ Untouched(file.sample, file.sample, Entry \X FieldName, samples, ValueColumn)
  BY <1>2, <1>3, <1>4, WroteIs
<1> HIDE DEF f, d, x, y, v
<1>10. \A k \in 0 .. 5 :
         /\ Flushed(k).field = IF k >= 1 THEN f ELSE file.field
         /\ Flushed(k).id = IF k >= 2 THEN d ELSE file.id
         /\ Flushed(k).idIndex = IF k >= 3 THEN x ELSE file.idIndex
         /\ Flushed(k).fieldIndex = IF k >= 4 THEN y ELSE file.fieldIndex
         /\ Flushed(k).sample = IF k >= 5 THEN v ELSE file.sample
  BY <1>1 DEF f, d, x, y, v
<1>11. /\ Flushed(5).field = f /\ Flushed(5).id = d /\ Flushed(5).idIndex = x
       /\ Flushed(5).fieldIndex = y /\ Flushed(5).sample = v
  BY <1>10
<1>12. QED
  BY <1>5, <1>6, <1>7, <1>8, <1>9, <1>10, <1>11

\* What the file is about to hold, in terms of what was handed over.
LEMMA Handed ==
  ASSUME Memory
  PROVE  /\ Done \in Seq(Entry) /\ Len(Done) = entries /\ entries \in Nat
         /\ \A i \in 1 .. entries : Done[i] = handed[i]
         /\ Len(pending) \in Nat /\ Len(handed) = entries + Len(pending)
         /\ \A i \in 1 .. Len(pending) : handed[entries + i] = pending[i]
         /\ samples \in Nat /\ SampleCount(pending) \in Nat
         /\ SampleCount(handed) = samples + SampleCount(pending)
         /\ DoneRows \in Seq(Row) /\ Len(DoneRows) = samples
         /\ SamplesOf(handed) \in Seq(Row)
         /\ \A i \in 1 .. samples : SamplesOf(handed)[i] = DoneRows[i]
         /\ \A i \in 1 .. SampleCount(pending) :
              SamplesOf(handed)[samples + i] = Moved(PendingRows[i], entries)
PROOF
<1>1. /\ pending \in Seq(Entry) /\ handed \in Seq(Entry)
      /\ entries \in 0 .. Len(handed) /\ Done \o pending = handed
      /\ samples = SampleCount(Done)
  BY DEF Memory
<1>2. /\ Done \in Seq(Entry) /\ Len(Done) = entries /\ entries \in Nat
      /\ \A i \in 1 .. entries : Done[i] = handed[i]
  <2>1. Len(handed) \in entries .. Len(handed) /\ entries \in Nat
    BY <1>1, LenProperties
  <2>2. QED
    BY <1>1, <2>1, Parts DEF Done
<1>3. /\ Len(pending) \in Nat /\ Len(handed) = entries + Len(pending)
      /\ \A i \in 1 .. Len(pending) : handed[entries + i] = pending[i]
  <2>1. /\ Len(Done \o pending) = Len(Done) + Len(pending)
        /\ \A i \in 1 .. Len(Done) + Len(pending) :
             (Done \o pending)[i] = IF i <= Len(Done) THEN Done[i]
                                    ELSE pending[i - Len(Done)]
    BY <1>1, <1>2, ConcatProperties
  <2>2. Len(pending) \in Nat
    BY <1>1, LenProperties
  <2>3. \A i \in 1 .. Len(pending) :
          /\ entries + i \in 1 .. entries + Len(pending)
          /\ ~ (entries + i <= entries) /\ (entries + i) - entries = i
    BY <1>2, <2>2
  <2>4. QED
    BY <1>1, <1>2, <2>1, <2>2, <2>3
<1>4. /\ samples \in Nat /\ SampleCount(pending) \in Nat
      /\ SampleCount(handed) = samples + SampleCount(pending)
  BY <1>1, <1>2, CountConcat
<1>5. DoneRows \in Seq(Row) /\ Len(DoneRows) = samples
  BY <1>1, <1>2, SamplesAre DEF DoneRows
<1>6. PendingRows \in Seq(Row) /\ Len(PendingRows) = SampleCount(pending)
  BY ToWrite
<1>7. SamplesOf(handed) = DoneRows \o Shift(PendingRows, entries)
  BY <1>1, <1>2, SamplesConcat DEF DoneRows, PendingRows
<1>8. /\ Shift(PendingRows, entries) \in Seq(Row)
      /\ Len(Shift(PendingRows, entries)) = SampleCount(pending)
  BY <1>2, <1>6, ShiftAppend
<1>9. \A i \in 1 .. SampleCount(pending) :
        Shift(PendingRows, entries)[i] = Moved(PendingRows[i], entries)
  BY <1>6, LenProperties DEF Shift
<1> DEFINE far == Shift(PendingRows, entries)
<1> HIDE DEF far
<1>10. /\ DoneRows \o far \in Seq(Row)
       /\ \A i \in 1 .. samples + SampleCount(pending) :
            (DoneRows \o far)[i] = IF i <= samples THEN DoneRows[i]
                                   ELSE far[i - samples]
  <2>1. far \in Seq(Row) /\ Len(far) = SampleCount(pending)
    BY <1>8 DEF far
  <2>2. QED
    BY <1>5, <2>1, ConcatProperties
<1>11. \A i \in 1 .. samples : (DoneRows \o far)[i] = DoneRows[i]
  <2>1. \A i \in 1 .. samples :
          i \in 1 .. samples + SampleCount(pending) /\ i <= samples
    BY <1>4
  <2>2. QED
    BY <1>10, <2>1
<1>12. \A i \in 1 .. SampleCount(pending) : (DoneRows \o far)[samples + i] = far[i]
  <2>1. \A i \in 1 .. SampleCount(pending) :
          /\ samples + i \in 1 .. samples + SampleCount(pending)
          /\ ~ (samples + i <= samples) /\ (samples + i) - samples = i
    BY <1>4
  <2>2. QED
    BY <1>10, <2>1
<1>13. QED
  BY <1>2, <1>3, <1>4, <1>5, <1>7, <1>9, <1>10, <1>11, <1>12 DEF far

\* whole is the first from rows of s and then new.
Continues(whole, s, from, new) ==
  /\ Len(whole) = from + Len(new)
  /\ \A i \in 1 .. from : s[i] = whole[i]
  /\ \A i \in 1 .. Len(new) : new[i] = whole[from + i]

\* A variable in which the rest of whole was written behind a part of it.
LEMMA WroteRest ==
  ASSUME NEW S, NEW s, NEW t, NEW whole \in Seq(S), NEW new \in Seq(S),
         NEW from \in Nat, Wrote(t, s, S, from, new),
         Continues(whole, s, from, new)
  PROVE  Extends(t, whole)
PROOF
<1>1. Len(new) \in Nat
  BY LenProperties
<1>2. ASSUME NEW i \in 1 .. from + Len(new) PROVE t[i] = whole[i]
  <2>1. CASE i <= from
    <3>1. i \in 1 .. from
      BY <2>1
    <3>2. QED
      BY <3>1 DEF Wrote, Kept, Continues
  <2>2. CASE ~ (i <= from)
    <3>1. i - from \in 1 .. Len(new) /\ from + (i - from) = i
      BY <1>1, <2>2
    <3>2. t[from + (i - from)] = new[i - from] /\ new[i - from] = whole[from + (i - from)]
      BY <3>1 DEF Wrote, Continues
    <3>3. QED
      BY <3>1, <3>2
  <2>3. QED
    BY <2>1, <2>2
<1>3. Len(whole) <= Len(t)
  BY DEF Wrote, Continues
<1>4. QED
  BY <1>2, <1>3 DEF Extends, Continues

\* A flush that succeeds commits everything that was handed over.
LEMMA FlushKeepsContent ==
  ASSUME Content, Flush, UNCHANGED handed
  PROVE  Content'
PROOF
<1> USE DEF Content
<1>1. /\ file' = Flushed(5) /\ names' = Known /\ entries' = Len(handed)
      /\ samples' = SampleCount(handed) /\ pending' = <<>> /\ handed' = handed
  BY Handed DEF Flush, Known, PendingRows
<1>2. handed \in Seq(Entry) /\ Len(handed) \in Nat /\ SampleCount(handed) \in Nat
  <2>1. handed \in Seq(Entry)
    BY DEF Memory
  <2>2. QED
    BY <2>1, LenProperties, CountConcat
<1>3. Done' = handed /\ DoneRows' = SamplesOf(handed)
  <2>1. SubSeq(handed, 1, Len(handed)) = handed
    BY <1>2, SubSeqFull
  <2>2. Done' = handed
    BY <1>1, <2>1 DEF Done
  <2>3. QED
    BY <2>2 DEF DoneRows
<1>4. Memory'
  <2>1. <<>> \in Seq(Entry) /\ handed \o <<>> = handed
    BY <1>2, ConcatEmptySeq, EmptySeq
  <2>2. Known \in Seq(FieldName) /\ NoRepeat(Known)
    BY ToWrite
  <2>3. QED
    BY <1>1, <1>2, <1>3, <2>1, <2>2 DEF Memory
<1> DEFINE f == Flushed(5)
<1>5. /\ Wrote(f.field, file.field, FieldName, Len(names), Added)
      /\ Wrote(f.id, file.id, Entry, entries, pending)
      /\ Wrote(f.idIndex, file.idIndex, Nat, samples, IdColumn)
      /\ Wrote(f.fieldIndex, file.fieldIndex, Nat, samples, FieldColumn)
      /\ Wrote(f.sample, file.sample, Entry \X FieldName, samples, ValueColumn)
  BY FlushWrites
<1> HIDE DEF f
<1>6. file' = f
  BY <1>1 DEF f
<1>7. FileOK'
  BY <1>5, <1>6 DEF FileOK, Wrote
<1>8. /\ Known \in Seq(FieldName) /\ Extends(Known, names)
      /\ Added \in Seq(FieldName) /\ Len(Added) = Len(Known) - Len(names)
      /\ \A i \in 1 .. Len(Added) : Added[i] = Known[Len(names) + i]
      /\ Len(names) \in Nat /\ Len(Known) \in Nat /\ Len(names) <= Len(Known)
  <2>1. names \in Seq(FieldName) /\ Known \in Seq(FieldName) /\ Extends(Known, names)
    BY ToWrite DEF Memory
  <2>2. QED
    BY <2>1, ToWrite, LenProperties DEF Extends
<1>9. Extends(f.field, Known)
  <2>1. \A i \in 1 .. Len(names) : file.field[i] = Known[i]
    BY <1>8 DEF Committed, Extends
  <2>2. Len(Known) = Len(names) + Len(Added)
    BY <1>8
  <2>3. Known \in Seq(FieldName) /\ Added \in Seq(FieldName) /\ Len(names) \in Nat
    BY <1>8
  <2>4. \A i \in 1 .. Len(Added) : Added[i] = Known[Len(names) + i]
    BY <1>8
  <2>5. Wrote(f.field, file.field, FieldName, Len(names), Added)
    BY <1>5
  <2>6. Continues(Known, file.field, Len(names), Added)
    BY <2>1, <2>2, <2>4 DEF Continues
  <2>7. QED
    BY <2>3, <2>5, <2>6, WroteRest
<1>10. Extends(f.id, handed)
  <2>1. pending \in Seq(Entry) /\ entries \in Nat
    BY Handed DEF Memory
  <2>2. \A i \in 1 .. entries : file.id[i] = handed[i]
    BY Handed DEF Committed, Extends
  <2>3. Len(handed) = entries + Len(pending)
        /\ \A i \in 1 .. Len(pending) : pending[i] = handed[entries + i]
    BY Handed
  <2>4. Wrote(f.id, file.id, Entry, entries, pending)
    BY <1>5
  <2>5. Continues(handed, file.id, entries, pending)
    BY <2>2, <2>3 DEF Continues
  <2>6. QED
    BY <1>2, <2>1, <2>4, <2>5, WroteRest
<1> DEFINE n == SampleCount(pending)
           m == SampleCount(handed)
           rows == SamplesOf(handed)
<1>11. /\ samples \in Nat /\ n \in Nat /\ m = samples + n
       /\ \A i \in 1 .. samples : rows[i] = DoneRows[i]
       /\ \A i \in 1 .. n : rows[samples + i] = Moved(PendingRows[i], entries)
       /\ entries \in Nat
  BY Handed
<1>12. /\ Len(IdColumn) = n /\ Len(FieldColumn) = n /\ Len(ValueColumn) = n
       /\ \A i \in 1 .. n :
            /\ IdColumn[i] = entries + PendingRows[i].entry
            /\ FieldColumn[i] \in 1 .. Len(Known)
            /\ Known[FieldColumn[i]] = PendingRows[i].field
            /\ ValueColumn[i] = PendingRows[i].value
            /\ PendingRows[i].entry \in Nat
  <2>1. PendingRows \in Seq(Row) /\ Len(PendingRows) = n
    BY ToWrite
  <2>2. \A i \in 1 .. n : PendingRows[i] \in Row
    BY <2>1, ElementOfSeq
  <2>3. \A i \in 1 .. n : PendingRows[i].entry \in Nat
    BY <2>2 DEF Row
  <2>4. QED
    BY <2>3, ToWrite
<1> HIDE DEF n, m, rows
<1>13. ASSUME NEW i \in 1 .. m
       PROVE  /\ f.idIndex[i] = rows[i].entry
              /\ f.fieldIndex[i] \in 1 .. Len(Known)
              /\ Known[f.fieldIndex[i]] = rows[i].field
              /\ f.sample[i] = rows[i].value
  <2>1. CASE i <= samples
    <3>1. i \in 1 .. samples
      BY <1>11, <2>1
    <3>2. /\ f.idIndex[i] = file.idIndex[i] /\ f.fieldIndex[i] = file.fieldIndex[i]
          /\ f.sample[i] = file.sample[i]
      BY <1>5, <3>1 DEF Wrote, Kept
    <3>3. /\ file.idIndex[i] = DoneRows[i].entry
          /\ file.fieldIndex[i] \in 1 .. Len(names)
          /\ names[file.fieldIndex[i]] = DoneRows[i].field
          /\ file.sample[i] = DoneRows[i].value
      BY <3>1 DEF Committed
    <3>4. file.fieldIndex[i] \in 1 .. Len(Known)
      BY <1>8, <3>3
    <3>5. Known[file.fieldIndex[i]] = names[file.fieldIndex[i]]
      BY <1>8, <3>3 DEF Extends
    <3>6. rows[i] = DoneRows[i]
      BY <1>11, <3>1
    <3>7. QED
      BY <3>2, <3>3, <3>4, <3>5, <3>6
  <2>2. CASE ~ (i <= samples)
    <3> DEFINE j == i - samples
    <3>1. j \in 1 .. n /\ samples + j = i
      BY <1>11, <2>2
    <3> HIDE DEF j
    <3>2. f.idIndex[samples + j] = IdColumn[j]
      BY <1>5, <1>12, <3>1 DEF Wrote
    <3>3. f.fieldIndex[samples + j] = FieldColumn[j]
      BY <1>5, <1>12, <3>1 DEF Wrote
    <3>4. f.sample[samples + j] = ValueColumn[j]
      BY <1>5, <1>12, <3>1 DEF Wrote
    <3>5. rows[samples + j] = Moved(PendingRows[j], entries)
      BY <1>11, <3>1
    <3>6. /\ rows[i].entry = PendingRows[j].entry + entries
          /\ rows[i].field = PendingRows[j].field
          /\ rows[i].value = PendingRows[j].value
      BY <3>1, <3>5 DEF Moved
    <3>7. PendingRows[j].entry + entries = entries + PendingRows[j].entry
      BY <1>11, <1>12, <3>1
    <3>8. QED
      BY <1>12, <3>1, <3>2, <3>3, <3>4, <3>6, <3>7
  <2>3. QED
    BY <2>1, <2>2
<1>14. m <= Len(f.idIndex) /\ m <= Len(f.fieldIndex) /\ m <= Len(f.sample)
  BY <1>5, <1>11, <1>12 DEF Wrote
<1>15. Committed'
  <2>1. names' = Known /\ samples' = m /\ DoneRows' = rows /\ Done' = handed
    BY <1>1, <1>3 DEF m, rows
  <2>2. QED
    BY <1>6, <1>9, <1>10, <1>13, <1>14, <2>1 DEF Committed
<1>16. Leftover'
  <2>1. Len(f.field) <= Len(Known)
    <3>1. Len(f.field) <= Len(file.field) \/ Len(f.field) <= Len(names) + Len(Added)
      BY <1>5 DEF Wrote, Kept
    <3>2. Len(file.field) <= Len(names) \/ Len(file.field) <= Len(Known)
      BY DEF Leftover, Known, PendingRows
    <3>3. Len(f.field) \in Nat /\ Len(file.field) \in Nat
      <4>1. f.field \in Seq(FieldName) /\ file.field \in Seq(FieldName)
        BY <1>5 DEF Wrote, FileOK
      <4>2. QED
        BY <4>1, LenProperties
    <3>4. QED
      BY <1>8, <3>1, <3>2, <3>3
  <2>2. Len(f.id) <= Len(handed)
    <3>1. f.id \in Seq(Entry) /\ file.id \in Seq(Entry)
      BY <1>5 DEF Wrote, FileOK
    <3>2. Len(f.id) \in Nat /\ Len(file.id) \in Nat
      BY <3>1, LenProperties
    <3>3. Len(f.id) <= Len(file.id) \/ Len(f.id) <= entries + Len(pending)
      BY <1>5 DEF Wrote, Kept
    <3>4. Len(file.id) <= Len(handed) /\ Len(handed) = entries + Len(pending)
      BY Handed DEF Leftover
    <3>5. QED
      BY <1>2, <3>2, <3>3, <3>4
  <2>3. Len(f.idIndex) <= m /\ Len(f.fieldIndex) <= m /\ Len(f.sample) <= m
    <3>1. /\ f.idIndex \in Seq(Nat) /\ file.idIndex \in Seq(Nat)
          /\ f.fieldIndex \in Seq(Nat) /\ file.fieldIndex \in Seq(Nat)
          /\ f.sample \in Seq(Entry \X FieldName)
          /\ file.sample \in Seq(Entry \X FieldName)
      BY <1>5 DEF Wrote, FileOK
    <3>2. /\ Len(f.idIndex) \in Nat /\ Len(file.idIndex) \in Nat
          /\ Len(f.fieldIndex) \in Nat /\ Len(file.fieldIndex) \in Nat
          /\ Len(f.sample) \in Nat /\ Len(file.sample) \in Nat
      BY <3>1, LenProperties
    <3>3. /\ Len(f.idIndex) <= Len(file.idIndex) \/ Len(f.idIndex) <= samples + n
          /\ \/ Len(f.fieldIndex) <= Len(file.fieldIndex)
             \/ Len(f.fieldIndex) <= samples + n
          /\ Len(f.sample) <= Len(file.sample) \/ Len(f.sample) <= samples + n
      BY <1>5, <1>12 DEF Wrote, Kept
    <3>4. /\ Len(file.idIndex) <= m /\ Len(file.fieldIndex) <= m
          /\ Len(file.sample) <= m
      BY DEF Leftover, m
    <3>5. m \in Nat
      BY <1>2 DEF m
    <3>6. QED
      BY <1>11, <3>2, <3>3, <3>4, <3>5
  <2>4. QED
    BY <1>1, <1>6, <2>1, <2>2, <2>3 DEF Leftover, m
<1>17. QED
  BY <1>4, <1>7, <1>15, <1>16

\* A flush that fails only touches rows that are not committed.
LEMMA FlushFailsKeepsContent ==
  ASSUME Content, NEW k \in 0 .. 4, file' = Flushed(k),
         UNCHANGED <<pending, names, entries, samples, handed>>
  PROVE  Content'
PROOF
<1> USE DEF Content
<1> DEFINE f == Flushed(k)
           n == SampleCount(pending)
           m == SampleCount(handed)
<1>1. k \in 0 .. 5
  OBVIOUS
<1>2. /\ Untouched(f.field, file.field, FieldName, Len(names), Added)
      /\ Untouched(f.id, file.id, Entry, entries, pending)
      /\ Untouched(f.idIndex, file.idIndex, Nat, samples, IdColumn)
      /\ Untouched(f.fieldIndex, file.fieldIndex, Nat, samples, FieldColumn)
      /\ Untouched(f.sample, file.sample, Entry \X FieldName, samples, ValueColumn)
  BY <1>1, FlushWrites
<1> HIDE DEF f
<1>3. /\ file' = f /\ names' = names /\ entries' = entries /\ samples' = samples
      /\ pending' = pending /\ handed' = handed
  BY DEF f
<1>4. Done' = Done /\ DoneRows' = DoneRows
  BY <1>3 DEF Done, DoneRows
<1>5. Memory'
  BY <1>3, <1>4 DEF Memory
<1>6. FileOK'
  BY <1>2, <1>3 DEF FileOK, Untouched
<1>7. Committed'
  <2>1. Len(Done) = entries /\ samples \in Nat
    BY Handed
  <2>2. Extends(f.field, names)
    BY <1>2 DEF Committed, Extends, Untouched, Kept
  <2>3. Extends(f.id, Done)
    BY <1>2, <2>1 DEF Committed, Extends, Untouched, Kept
  <2>4. /\ samples <= Len(f.idIndex) /\ samples <= Len(f.fieldIndex)
        /\ samples <= Len(f.sample)
    BY <1>2 DEF Untouched, Kept
  <2>5. \A i \in 1 .. samples :
          /\ f.idIndex[i] = file.idIndex[i] /\ f.fieldIndex[i] = file.fieldIndex[i]
          /\ f.sample[i] = file.sample[i]
    BY <1>2 DEF Untouched, Kept
  <2>6. \A i \in 1 .. samples :
          /\ f.idIndex[i] = DoneRows[i].entry
          /\ f.fieldIndex[i] \in 1 .. Len(names)
          /\ names[f.fieldIndex[i]] = DoneRows[i].field
          /\ f.sample[i] = DoneRows[i].value
    BY <2>5 DEF Committed
  <2>7. QED
    BY <1>3, <1>4, <2>2, <2>3, <2>4, <2>6 DEF Committed
<1>8. Leftover'
  <2>1. /\ f.field \in Seq(FieldName) /\ file.field \in Seq(FieldName)
        /\ f.id \in Seq(Entry) /\ file.id \in Seq(Entry)
        /\ f.idIndex \in Seq(Nat) /\ file.idIndex \in Seq(Nat)
        /\ f.fieldIndex \in Seq(Nat) /\ file.fieldIndex \in Seq(Nat)
        /\ f.sample \in Seq(Entry \X FieldName)
        /\ file.sample \in Seq(Entry \X FieldName)
    BY <1>2 DEF Untouched, FileOK
  <2>2. /\ Len(f.field) \in Nat /\ Len(file.field) \in Nat
        /\ Len(f.id) \in Nat /\ Len(file.id) \in Nat
        /\ Len(f.idIndex) \in Nat /\ Len(file.idIndex) \in Nat
        /\ Len(f.fieldIndex) \in Nat /\ Len(file.fieldIndex) \in Nat
        /\ Len(f.sample) \in Nat /\ Len(file.sample) \in Nat
    BY <2>1, LenProperties
  <2>3. /\ Len(IdColumn) = n /\ Len(FieldColumn) = n /\ Len(ValueColumn) = n
        /\ samples \in Nat /\ n \in Nat /\ m = samples + n
        /\ Len(handed) = entries + Len(pending) /\ entries \in Nat
        /\ Len(pending) \in Nat
    BY Handed, ToWrite
  <2> HIDE DEF n, m
  <2>4. Len(f.field) <= Len(names) \/ Len(f.field) <= Len(Known)
    <3>1. /\ Len(names) \in Nat /\ Len(Known) \in Nat /\ Len(names) <= Len(Known)
          /\ Len(Added) = Len(Known) - Len(names)
      <4>1. names \in Seq(FieldName) /\ Known \in Seq(FieldName)
            /\ Extends(Known, names) /\ Len(Added) = Len(Known) - Len(names)
        BY ToWrite DEF Memory
      <4>2. QED
        BY <4>1, LenProperties DEF Extends
    <3>2. Len(f.field) <= Len(file.field) \/ Len(f.field) <= Len(names) + Len(Added)
      BY <1>2 DEF Untouched, Kept
    <3>3. Len(file.field) <= Len(names) \/ Len(file.field) <= Len(Known)
      BY DEF Leftover, Known, PendingRows
    <3>4. QED
      BY <2>2, <3>1, <3>2, <3>3
  <2>5. Len(f.id) <= Len(handed)
    <3>1. Len(f.id) <= Len(file.id) \/ Len(f.id) <= entries + Len(pending)
      BY <1>2 DEF Untouched, Kept
    <3>2. Len(file.id) <= Len(handed)
      BY DEF Leftover
    <3>3. QED
      BY <2>2, <2>3, <3>1, <3>2
  <2>6. Len(f.idIndex) <= m /\ Len(f.fieldIndex) <= m /\ Len(f.sample) <= m
    <3>1. /\ Len(f.idIndex) <= Len(file.idIndex) \/ Len(f.idIndex) <= samples + n
          /\ \/ Len(f.fieldIndex) <= Len(file.fieldIndex)
             \/ Len(f.fieldIndex) <= samples + n
          /\ Len(f.sample) <= Len(file.sample) \/ Len(f.sample) <= samples + n
      BY <1>2, <2>3 DEF Untouched, Kept
    <3>2. /\ Len(file.idIndex) <= m /\ Len(file.fieldIndex) <= m
          /\ Len(file.sample) <= m
      BY DEF Leftover, m
    <3>3. QED
      BY SMTT(60), <2>2, <2>3, <3>1, <3>2
  <2>7. Registered(SamplesOf(pending))' = Known
    BY <1>3 DEF Registered, Known, PendingRows
  <2>8. QED
    BY <1>3, <2>4, <2>5, <2>6, <2>7 DEF Leftover, m
<1>9. QED
  BY <1>5, <1>6, <1>7, <1>8

\* Entries that are staged are handed over and pending.
LEMMA StagingKeepsContent ==
  ASSUME Content, NEW taken \in Seq(Entry), pending' = pending \o taken,
         handed' = handed \o taken, NoFlush
  PROVE  Content'
PROOF
<1> USE DEF Content
<1>1. /\ file' = file /\ names' = names /\ entries' = entries /\ samples' = samples
  BY DEF NoFlush
<1>2. /\ pending \in Seq(Entry) /\ handed \in Seq(Entry) /\ names \in Seq(FieldName)
      /\ NoRepeat(names) /\ entries \in 0 .. Len(handed)
      /\ Done \in Seq(Entry) /\ Done \o pending = handed
  BY Handed DEF Memory
<1>3. /\ pending' \in Seq(Entry) /\ handed' \in Seq(Entry)
      /\ Len(handed') = Len(handed) + Len(taken)
      /\ Len(handed) \in Nat /\ Len(taken) \in Nat
  BY <1>2, ConcatProperties, LenProperties
<1>4. Done' = Done /\ DoneRows' = DoneRows
  <2>1. SubSeq(handed \o taken, 1, entries) = SubSeq(handed, 1, entries)
    BY <1>2, PartOfConcat
  <2>2. Done' = Done
    BY <1>1, <2>1 DEF Done
  <2>3. QED
    BY <2>2 DEF DoneRows
<1>5. Memory'
  <2>1. Done \o (pending \o taken) = handed \o taken
    <3>1. Done \in Seq(Entry) /\ pending \in Seq(Entry) /\ Done \o pending = handed
      BY <1>2
    <3>2. \A s, t, u \in Seq(Entry) : (s \o t) \o u = s \o (t \o u)
      BY ConcatAssociative
    <3>3. (Done \o pending) \o taken = Done \o (pending \o taken)
      BY <3>1, <3>2
    <3>4. QED
      BY <3>1, <3>3
  <2>2. entries \in 0 .. Len(handed')
    BY <1>2, <1>3
  <2>3. samples = SampleCount(Done)
    BY DEF Memory
  <2>4. QED
    BY <1>1, <1>2, <1>3, <1>4, <2>1, <2>2, <2>3 DEF Memory
<1>6. FileOK' /\ Committed'
  BY <1>1, <1>4 DEF FileOK, Committed
<1>7. Leftover'
  <2> DEFINE later == Registered(SamplesOf(pending \o taken))
  <2>1. Extends(later, Known)
    <3>1. SamplesOf(pending \o taken) = PendingRows \o Shift(SamplesOf(taken), Len(pending))
      BY <1>2, SamplesConcat DEF PendingRows
    <3>2. PendingRows \in Seq(Row) /\ SamplesOf(taken) \in Seq(Row)
      BY <1>2, SamplesAre DEF PendingRows
    <3>3. Shift(SamplesOf(taken), Len(pending)) \in Seq(Row)
      <4>1. Len(pending) \in Nat
        BY <1>2, LenProperties
      <4>2. QED
        BY <3>2, <4>1, ShiftAppend
    <3>4. QED
      BY <1>2, <3>1, <3>2, <3>3, Registers DEF Known
  <2>2. Registered(SamplesOf(pending))' = later
    BY <1>1 DEF Registered
  <2>3. Len(later) \in Nat /\ Len(Known) \in Nat
    <3>1. SamplesOf(pending \o taken) \in Seq(Row)
      BY <1>3, SamplesAre
    <3>2. later \in Seq(FieldName)
      BY <1>2, <3>1, Registers
    <3>3. Known \in Seq(FieldName)
      BY ToWrite
    <3> HIDE DEF later
    <3>4. QED
      BY <3>2, <3>3, LenProperties
  <2> HIDE DEF later
  <2>4. Len(file.field) <= Len(names) \/ Len(file.field) <= Len(Known)
    BY DEF Leftover, Known, PendingRows
  <2>5. Len(Known) <= Len(later)
    BY <2>1 DEF Extends
  <2>6. file.field \in Seq(FieldName) /\ Len(file.field) \in Nat
    BY LenProperties DEF FileOK
  <2>7. Len(file.field) <= Len(names) \/ Len(file.field) <= Len(later)
    BY <2>3, <2>4, <2>5, <2>6
  <2>8. Len(file.id) <= Len(handed')
    <3>1. file.id \in Seq(Entry) /\ Len(file.id) \in Nat /\ Len(file.id) <= Len(handed)
      BY LenProperties DEF FileOK, Leftover
    <3>2. QED
      BY <1>3, <3>1
  <2>9. /\ Len(file.idIndex) <= SampleCount(handed')
        /\ Len(file.fieldIndex) <= SampleCount(handed')
        /\ Len(file.sample) <= SampleCount(handed')
    <3>1. /\ SampleCount(handed \o taken) = SampleCount(handed) + SampleCount(taken)
          /\ SampleCount(handed) \in Nat /\ SampleCount(taken) \in Nat
      BY <1>2, CountConcat
    <3>2. /\ file.idIndex \in Seq(Nat) /\ file.fieldIndex \in Seq(Nat)
          /\ file.sample \in Seq(Entry \X FieldName)
      BY DEF FileOK
    <3>3. /\ Len(file.idIndex) \in Nat /\ Len(file.fieldIndex) \in Nat
          /\ Len(file.sample) \in Nat
      BY <3>2, LenProperties
    <3>4. /\ Len(file.idIndex) <= SampleCount(handed)
          /\ Len(file.fieldIndex) <= SampleCount(handed)
          /\ Len(file.sample) <= SampleCount(handed)
      BY DEF Leftover
    <3>5. QED
      BY <3>1, <3>3, <3>4
  <2>10. QED
    BY <1>1, <2>2, <2>7, <2>8, <2>9 DEF Leftover
<1>8. QED
  BY <1>5, <1>6, <1>7

LEMMA NothingKeepsContent ==
  ASSUME Content, NoFlush, UNCHANGED <<pending, handed>>
  PROVE  Content'
PROOF
<1>1. Done' = Done /\ DoneRows' = DoneRows
  BY DEF NoFlush, Done, DoneRows
<1>2. Registered(SamplesOf(pending))' = Registered(SamplesOf(pending))
  BY DEF NoFlush, Registered
<1>3. QED
  BY <1>1, <1>2 DEF NoFlush, Content, Memory, FileOK, Committed, Leftover

-----------------------------------------------------------------------------
(* The limits.                                                             *)

LEMMA CountOfPart ==
  ASSUME NEW s \in Seq(Entry), NEW m \in 0 .. Len(s), NEW n \in m .. Len(s)
  PROVE  /\ SampleCount(SubSeq(s, 1, m)) \in Nat
         /\ SampleCount(SubSeq(s, 1, n)) \in Nat
         /\ SampleCount(SubSeq(s, 1, m)) <= SampleCount(SubSeq(s, 1, n))
PROOF
<1> DEFINE a == SubSeq(s, 1, m)
           b == SubSeq(s, m + 1, n)
<1>1. a \in Seq(Entry) /\ b \in Seq(Entry) /\ SubSeq(s, 1, n) = a \o b
  BY Parts
<1> HIDE DEF a, b
<1>2. /\ SampleCount(a) \in Nat /\ SampleCount(b) \in Nat
      /\ SampleCount(a \o b) = SampleCount(a) + SampleCount(b)
  BY <1>1, CountConcat
<1>3. SampleCount(a) <= SampleCount(a \o b) /\ SampleCount(a \o b) \in Nat
  BY <1>2
<1>4. QED
  BY <1>1, <1>2, <1>3 DEF a

\* What is left of a batch, and how much of it the sample limit admits.
LEMMA SampleLimitIs ==
  ASSUME batch \in Seq(Entry), offset \in 0 .. Len(batch),
         pending \in Seq(Entry)
  PROVE  /\ Remaining \in Seq(Entry) /\ Len(Remaining) = Len(batch) - offset
         /\ SampleLimit \in 0 .. Len(Remaining)
         /\ SampleLimit > 0 =>
              SampleCount(SubSeq(Remaining, 1, SampleLimit)) <= SampleCapacity
PROOF
<1> DEFINE n == Len(Remaining)
           count == [i \in 0 .. n |-> SampleCount(SubSeq(Remaining, 1, i))]
           Fits(i) == i > 0 => count[i] <= SampleCapacity
           Largest(i) == Fits(i) /\ (i < n => count[i + 1] > SampleCapacity)
<1>1. Remaining \in Seq(Entry) /\ n = Len(batch) - offset /\ n \in Nat
  <2>1. /\ Len(batch) \in Nat /\ offset \in Nat /\ offset <= Len(batch)
        /\ Len(batch) \in offset .. Len(batch)
    BY LenProperties
  <2>2. Remaining \in Seq(Entry) /\ Len(Remaining) = Len(batch) - offset
    BY <2>1, Parts DEF Remaining
  <2>3. QED
    BY <2>1, <2>2
<1>2. SampleCapacity \in Int
  BY CountConcat, WriterAssumption DEF SampleCapacity
<1>3. \A i \in 0 .. n : count[i] \in Nat
  <2>1. \A i \in 0 .. n : SampleCount(SubSeq(Remaining, 1, i)) \in Nat
    <3>1. ASSUME NEW i \in 0 .. n PROVE SampleCount(SubSeq(Remaining, 1, i)) \in Nat
      <4>1. i \in i .. Len(Remaining)
        BY <1>1
      <4>2. QED
        BY <1>1, <4>1, CountOfPart
    <3>2. QED
      BY <3>1
  <2>2. QED
    BY <2>1
<1>4. SampleLimit = CHOOSE i \in 0 .. n : Largest(i)
  <2>1. \A i \in 0 .. n :
          Largest(i) <=>
            /\ i > 0 => SampleCount(SubSeq(Remaining, 1, i)) <= SampleCapacity
            /\ i < n => SampleCount(SubSeq(Remaining, 1, i + 1)) > SampleCapacity
    <3>1. \A i \in 0 .. n : i < n => i + 1 \in 0 .. n
      BY <1>1
    <3>2. QED
      BY <3>1
  <2>2. QED
    BY <2>1 DEF SampleLimit
<1> HIDE DEF count, n
<1>5. \E i \in 0 .. n : Largest(i)
  <2> SUFFICES ASSUME \A i \in 0 .. n : ~Largest(i) PROVE FALSE
    OBVIOUS
  <2> DEFINE N == {i \in 0 .. n : Fits(i)}
  <2>1. 0 \in N
    BY <1>1
  <2>2. ASSUME NEW i \in 0 .. n, i \in N, i < n PROVE i + 1 \in N
    <3>1. i + 1 \in 0 .. n
      BY <1>1, <2>2
    <3>2. ~ (count[i + 1] > SampleCapacity)
      BY <2>2
    <3>3. count[i + 1] \in Nat
      BY <1>3, <3>1
    <3>4. count[i + 1] <= SampleCapacity
      BY <1>2, <3>2, <3>3
    <3>5. QED
      BY <3>1, <3>4
  <2> HIDE DEF N
  <2>3. 0 .. n \subseteq N
    BY <1>1, <2>1, <2>2, UpTo
  <2>4. n \in 0 .. n /\ ~ (n < n)
    BY <1>1
  <2>5. Fits(n)
    BY <2>3, <2>4 DEF N
  <2>6. Largest(n)
    BY <2>4, <2>5
  <2>7. QED
    BY <2>4, <2>6
<1>6. SampleLimit \in 0 .. n /\ Largest(SampleLimit)
  BY <1>4, <1>5
<1>7. SampleLimit > 0 => count[SampleLimit] <= SampleCapacity
  BY <1>6
<1>8. QED
  BY <1>1, <1>6, <1>7 DEF n, count

\* An iteration stages one entry or more, and keeps to the limits.
LEMMA StageTakes ==
  ASSUME Control, Memory, StagingBounded, Stage
  PROVE  /\ \E taken \in Seq(Entry) : /\ pending' = pending \o taken
                                      /\ handed' = handed \o taken
         /\ offset' \in 0 .. Len(batch)
         /\ StagingBounded'
PROOF
<1> DEFINE limit == IF SampleLimit = 0 THEN 1 ELSE SampleLimit
           take == IF limit < EntryCapacity THEN limit ELSE EntryCapacity
           taken == SubSeq(Remaining, 1, take)
<1>1. /\ pending' = pending \o taken /\ handed' = handed \o taken
      /\ offset' = offset + Len(taken) /\ batch' = batch
      /\ offset < Len(batch) /\ EntryCapacity > 0 /\ SampleCapacity > 0
      /\ SampleLimit = 0 => pending = <<>>
  BY DEF Stage
<1>2. /\ batch \in Seq(Entry) /\ offset \in 0 .. Len(batch)
      /\ pending \in Seq(Entry) /\ Len(batch) \in Nat /\ Len(pending) \in Nat
  BY LenProperties DEF Control, Memory
<1>3. /\ Remaining \in Seq(Entry) /\ Len(Remaining) = Len(batch) - offset
      /\ SampleLimit \in 0 .. Len(Remaining)
      /\ SampleLimit > 0 =>
           SampleCount(SubSeq(Remaining, 1, SampleLimit)) <= SampleCapacity
  BY <1>2, SampleLimitIs
<1>4. /\ EntryCapacity \in Int /\ EntryCapacity = StageEntries - Len(pending)
      /\ SampleCapacity = StageSamples - SampleCount(pending)
      /\ StageEntries \in Nat /\ StageSamples \in Nat /\ StageEntries > 0
      /\ SampleCount(pending) \in Nat
  BY <1>2, CountConcat, WriterAssumption DEF EntryCapacity, SampleCapacity
<1>5. /\ limit \in 1 .. Len(Remaining) /\ take \in 1 .. limit
      /\ take <= EntryCapacity /\ Len(Remaining) \in Nat
  BY SMTT(60), <1>1, <1>2, <1>3, <1>4
<1>6. taken \in Seq(Entry) /\ Len(taken) = take
  <2>1. take \in 0 .. Len(Remaining) /\ take \in take .. Len(Remaining)
    BY <1>5
  <2> HIDE DEF take
  <2>2. QED
    BY <1>3, <2>1, Parts
<1>7. offset' \in 0 .. Len(batch)
  BY <1>1, <1>2, <1>3, <1>5, <1>6
<1>8. /\ pending' \in Seq(Entry) /\ Len(pending') = Len(pending) + take
      /\ SampleCount(pending') = SampleCount(pending) + SampleCount(taken)
      /\ SampleCount(taken) \in Nat
  <2> HIDE DEF taken, take
  <2>1. /\ pending \o taken \in Seq(Entry)
        /\ Len(pending \o taken) = Len(pending) + Len(taken)
    BY <1>2, <1>6, ConcatProperties
  <2>2. /\ SampleCount(pending \o taken) = SampleCount(pending) + SampleCount(taken)
        /\ SampleCount(taken) \in Nat
    BY <1>2, <1>6, CountConcat
  <2>3. QED
    BY <1>1, <1>6, <2>1, <2>2
<1>9. Len(pending') <= StageEntries
  BY <1>2, <1>4, <1>5, <1>8
<1>10. SampleCount(pending') > StageSamples => Len(pending') = 1
  <2>1. CASE SampleLimit = 0
    <3>1. take = 1 /\ Len(pending) = 0
      BY <1>1, <1>5, <2>1, EmptySeq
    <3>2. QED
      BY <1>8, <3>1
  <2>2. CASE SampleLimit # 0
    <3>1. limit = SampleLimit /\ SampleLimit > 0
      BY <1>3, <2>2
    <3>2. take \in 0 .. Len(Remaining) /\ SampleLimit \in take .. Len(Remaining)
      BY <1>3, <1>5, <3>1
    <3>3. /\ SampleCount(taken) <= SampleCount(SubSeq(Remaining, 1, SampleLimit))
          /\ SampleCount(SubSeq(Remaining, 1, SampleLimit)) \in Nat
      <4> HIDE DEF take
      <4>1. QED
        BY <1>3, <3>2, CountOfPart
    <3> HIDE DEF taken, take
    <3>4. SampleCount(SubSeq(Remaining, 1, SampleLimit)) <= SampleCapacity
      BY <1>3, <3>1
    <3>5. SampleCount(pending') <= StageSamples
      BY <1>4, <1>8, <3>3, <3>4
    <3>6. SampleCount(pending') \in Nat
      BY <1>4, <1>8
    <3>7. QED
      BY <1>4, <3>5, <3>6
  <2>3. QED
    BY <2>1, <2>2
<1>11. QED
  BY <1>1, <1>6, <1>7, <1>9, <1>10 DEF StagingBounded

-----------------------------------------------------------------------------
(* The steps.                                                              *)

LEMMA BoundedByFlush ==
  ASSUME pending' = <<>>
  PROVE  StagingBounded'
PROOF
  BY CountEmpty, EmptySeq, WriterAssumption DEF StagingBounded

LEMMA WriterInit == Init => WriterInv
PROOF
<1> SUFFICES ASSUME Init PROVE WriterInv
  OBVIOUS
<1>1. /\ pending = <<>> /\ handed = <<>> /\ names = <<>> /\ batch = <<>>
      /\ entries = 0 /\ samples = 0 /\ offset = 0 /\ failures = 0 /\ pc = "idle"
      /\ file.field = <<>> /\ file.id = <<>> /\ file.idIndex = <<>>
      /\ file.fieldIndex = <<>> /\ file.sample = <<>>
  BY DEF Init, NoFile
<1>2. /\ <<>> \in Seq(Entry) /\ <<>> \in Seq(FieldName) /\ <<>> \in Seq(Nat)
      /\ <<>> \in Seq(Entry \X FieldName) /\ Len(<<>>) = 0
      /\ SampleCount(<<>>) = 0 /\ <<>> \o <<>> = <<>>
  BY CountEmpty, EmptySeq, ConcatEmptySeq
<1>3. Done = <<>>
  <2>1. 1 \in Int /\ 0 \in Int /\ 0 < 1
    OBVIOUS
  <2>2. SubSeq(handed, 1, 0) = <<>>
    BY <2>1, SubSeqEmpty
  <2>3. QED
    BY <1>1, <2>2 DEF Done
<1>4. NoRepeat(<<>>) /\ Extends(<<>>, <<>>)
  BY DEF NoRepeat, Extends
<1>5. Memory
  BY <1>1, <1>2, <1>3, <1>4 DEF Memory
<1>6. FileOK
  BY <1>1, <1>2 DEF FileOK
<1>7. Committed
  BY <1>1, <1>2, <1>3, <1>4 DEF Committed
<1>8. Leftover
  BY <1>1, <1>2 DEF Leftover
<1>9. Control /\ StagingBounded
  BY <1>1, <1>2, WriterAssumption DEF Control, StagingBounded
<1>10. QED
  BY <1>5, <1>6, <1>7, <1>8, <1>9 DEF WriterInv, Content

LEMMA WriterStep == WriterInv /\ [Next]_vars => WriterInv'
PROOF
<1> SUFFICES ASSUME WriterInv, [Next]_vars PROVE WriterInv'
  OBVIOUS
<1> USE DEF WriterInv
<1>1. ASSUME NEW b \in Batch, WriteCompleted(b) PROVE WriterInv'
  <2>1. Content' /\ StagingBounded'
    BY <1>1, NothingKeepsContent DEF WriteCompleted, StagingBounded
  <2>2. b \in Seq(Entry) /\ Len(b) \in Nat
    BY WriterAssumption, LenProperties
  <2>3. Control'
    BY <1>1, <2>2 DEF WriteCompleted, Control
  <2>4. QED
    BY <2>1, <2>3
<1>2. CASE MakeRoom
  <2>1. Content' /\ StagingBounded'
    BY <1>2, NothingKeepsContent DEF MakeRoom, StagingBounded
  <2>2. Control'
    BY <1>2 DEF MakeRoom, Control
  <2>3. QED
    BY <2>1, <2>2
<1>3. CASE Stage
  <2>1. /\ \E taken \in Seq(Entry) : /\ pending' = pending \o taken
                                     /\ handed' = handed \o taken
        /\ offset' \in 0 .. Len(batch)
        /\ StagingBounded'
    BY <1>3, StageTakes DEF Content
  <2>2. PICK taken \in Seq(Entry) :
          pending' = pending \o taken /\ handed' = handed \o taken
    BY <2>1
  <2>3. Content'
    BY <1>3, <2>2, StagingKeepsContent DEF Stage
  <2>4. Control'
    <3>1. /\ batch' = batch /\ failures' = failures /\ pc' \in {"flush", "loop"}
      BY <1>3 DEF Stage
    <3>2. QED
      BY <2>1, <3>1 DEF Control
  <2>5. QED
    BY <2>1, <2>3, <2>4
<1>4. CASE LoopEnds
  <2>1. Content' /\ StagingBounded'
    BY <1>4, NothingKeepsContent DEF LoopEnds, StagingBounded
  <2>2. Control'
    BY <1>4 DEF LoopEnds, Control
  <2>3. QED
    BY <2>1, <2>2
<1>5. CASE FlushSucceeds
  <2>1. Content'
    BY <1>5, FlushKeepsContent DEF FlushSucceeds
  <2>2. StagingBounded'
    BY <1>5, BoundedByFlush DEF FlushSucceeds, Flush
  <2>3. Control'
    BY <1>5 DEF FlushSucceeds, Flush, Control
  <2>4. QED
    BY <2>1, <2>2, <2>3
<1>6. CASE FlushFails
  <2>1. Content'
    BY <1>6, FlushFailsKeepsContent DEF FlushFails
  <2>2. StagingBounded'
    BY <1>6 DEF FlushFails, StagingBounded
  <2>3. Control'
    BY <1>6, WriterAssumption DEF FlushFails, Control
  <2>4. QED
    BY <2>1, <2>2, <2>3
<1>7. CASE Close
  <2>1. Content' /\ StagingBounded'
    BY <1>7, NothingKeepsContent DEF Close, StagingBounded
  <2>2. Control'
    BY <1>7 DEF Close, Control
  <2>3. QED
    BY <2>1, <2>2
<1>8. CASE CloseSucceeds
  <2>1. CASE pending = <<>>
    <3>1. NoFlush /\ UNCHANGED <<pending, handed, batch, offset, failures>>
          /\ pc' = "closed"
      BY <1>8, <2>1 DEF CloseSucceeds
    <3>2. Content' /\ StagingBounded'
      BY <3>1, NothingKeepsContent DEF StagingBounded
    <3>3. Control'
      BY <2>1, <3>1 DEF Control
    <3>4. QED
      BY <3>2, <3>3
  <2>2. CASE pending # <<>>
    <3>1. Flush /\ UNCHANGED <<handed, batch, offset, failures>> /\ pc' = "closed"
      BY <1>8, <2>2 DEF CloseSucceeds
    <3>2. Content'
      BY <3>1, FlushKeepsContent
    <3>3. StagingBounded'
      BY <3>1, BoundedByFlush DEF Flush
    <3>4. Control'
      BY <3>1 DEF Flush, Control
    <3>5. QED
      BY <3>2, <3>3, <3>4
  <2>3. QED
    BY <2>1, <2>2
<1>9. CASE UNCHANGED vars
  <2>1. NoFlush /\ UNCHANGED <<pc, batch, offset, pending, handed, failures>>
    BY <1>9 DEF vars, NoFlush
  <2>2. Content' /\ StagingBounded'
    BY <2>1, NothingKeepsContent DEF StagingBounded
  <2>3. Control'
    BY <2>1 DEF Control
  <2>4. QED
    BY <2>2, <2>3
<1>10. QED
  BY <1>1, <1>2, <1>3, <1>4, <1>5, <1>6, <1>7, <1>8, <1>9 DEF Next, Loop

LEMMA WriterInvariant == Spec => []WriterInv
PROOF
  BY WriterInit, WriterStep, PTL DEF Spec

\* Whatever batches are handed over, in whatever state a failed flush has left
\* the writer, its counters and its place in the batch stay in range.
THEOREM WriterTypeOK == Spec => []TypeOK
PROOF
<1>1. WriterInv => TypeOK
  <2> SUFFICES ASSUME WriterInv PROVE TypeOK
    OBVIOUS
  <2>1. entries \in Nat /\ samples \in Nat
    BY Handed DEF WriterInv, Content
  <2>2. QED
    BY <2>1 DEF WriterInv, Content, Control, Memory, TypeOK
<1>2. QED
  BY <1>1, WriterInvariant, PTL

\* Every entry that write_completed has staged is in the file or pending,
\* once and in order, and every committed sample resolves through the index
\* variables to the id and the field name it was handed over with: also after
\* flushes that failed between two of their five writes and were repeated
\* with more entries behind the old ones.
THEOREM WriterInOrderOnce == Spec => []InOrderOnce
PROOF
<1>1. WriterInv => InOrderOnce
  <2> SUFFICES ASSUME WriterInv PROVE InOrderOnce
    OBVIOUS
  <2> USE DEF WriterInv, Content
  <2>1. /\ Done \in Seq(Entry) /\ Len(Done) = entries
        /\ DoneRows \in Seq(Row) /\ Len(DoneRows) = samples /\ samples \in Nat
        /\ DOMAIN DoneRows = 1 .. samples
    <3>1. DoneRows \in Seq(Row) /\ Len(DoneRows) = samples
      BY Handed
    <3>2. QED
      BY <3>1, Handed, LenProperties
  <2>2. \A i \in 1 .. samples :
          /\ DoneRows[i].entry \in 1 .. entries
          /\ DoneRows[i].value = <<Done[DoneRows[i].entry], DoneRows[i].field>>
    <3>1. samples = SampleCount(Done)
      BY DEF Memory
    <3>2. QED
      BY <2>1, <3>1, SamplesAre DEF DoneRows
  <2>3. ASSUME NEW i \in 1 .. samples
        PROVE  Read(i) = [id |-> DoneRows[i].value[1], field |-> DoneRows[i].field,
                          value |-> DoneRows[i].value]
    <3>1. /\ file.idIndex[i] = DoneRows[i].entry
          /\ file.fieldIndex[i] \in 1 .. Len(names)
          /\ names[file.fieldIndex[i]] = DoneRows[i].field
          /\ file.sample[i] = DoneRows[i].value
      BY DEF Committed
    <3>2. file.field[file.fieldIndex[i]] = DoneRows[i].field
      BY <3>1 DEF Committed, Extends
    <3>3. file.id[DoneRows[i].entry] = Done[DoneRows[i].entry]
      BY <2>1, <2>2 DEF Committed, Extends
    <3>4. DoneRows[i].value[1] = Done[DoneRows[i].entry]
      BY <2>2
    <3>5. QED
      BY <3>1, <3>2, <3>3, <3>4 DEF Read
  <2>4. Expected(Done) = [i \in 1 .. samples |->
          [id |-> DoneRows[i].value[1], field |-> DoneRows[i].field,
           value |-> DoneRows[i].value]]
    BY <2>1 DEF Expected, DoneRows
  <2>5. [i \in 1 .. samples |-> Read(i)] = Expected(Done)
    BY <2>3, <2>4
  <2>6. QED
    BY <2>5 DEF InOrderOnce, Memory, Done
<1>2. QED
  BY <1>1, WriterInvariant, PTL

\* A file that has been closed holds exactly what was handed over: every
\* table has its exact length, whatever failed flushes wrote beyond the
\* committed rows, and no field name is in the table twice.
THEOREM WriterClosedFileIsExact == Spec => []ClosedFileIsExact
PROOF
<1>1. WriterInv => ClosedFileIsExact
  <2> SUFFICES ASSUME WriterInv, pc = "closed" PROVE ClosedFileIsExact
    BY DEF ClosedFileIsExact
  <2> USE DEF WriterInv, Content
  <2>1. pending = <<>> /\ Len(pending) = 0 /\ SampleCount(pending) = 0
    BY CountEmpty, EmptySeq DEF Control
  <2>2. /\ entries = Len(handed) /\ samples = SampleCount(handed)
        /\ samples \in Nat /\ entries \in Nat
    BY <2>1, Handed
  <2>3. Done = handed /\ handed \in Seq(Entry)
    <3>1. handed \in Seq(Entry)
      BY DEF Memory
    <3>2. QED
      BY <2>2, <3>1, SubSeqFull DEF Done
  <2>4. file.id = handed
    <3>1. file.id \in Seq(Entry) /\ Len(file.id) \in Nat /\ Len(file.id) <= Len(handed)
      BY LenProperties DEF FileOK, Leftover
    <3>2. Len(handed) <= Len(file.id) /\ \A i \in 1 .. Len(handed) : file.id[i] = handed[i]
      BY <2>3 DEF Committed, Extends
    <3>3. Len(file.id) = Len(handed)
      BY <2>2, <3>1, <3>2
    <3>4. QED
      BY <2>3, <3>1, <3>2, <3>3, SeqEqual
  <2>5. /\ Len(file.idIndex) = SampleCount(handed)
        /\ Len(file.fieldIndex) = SampleCount(handed)
        /\ Len(file.sample) = SampleCount(handed)
    <3>1. /\ file.idIndex \in Seq(Nat) /\ file.fieldIndex \in Seq(Nat)
          /\ file.sample \in Seq(Entry \X FieldName)
      BY DEF FileOK
    <3>2. /\ Len(file.idIndex) \in Nat /\ Len(file.fieldIndex) \in Nat
          /\ Len(file.sample) \in Nat
      BY <3>1, LenProperties
    <3>3. QED
      BY <2>2, <3>2 DEF Committed, Leftover
  <2>6. \A i, j \in DOMAIN file.field : file.field[i] = file.field[j] => i = j
    <3>1. names \in Seq(FieldName) /\ file.field \in Seq(FieldName) /\ NoRepeat(names)
      BY DEF Memory, FileOK
    <3>2. SamplesOf(pending) = <<>> /\ Registered(<<>>) = names
      BY <2>1, <3>1, SamplesEmpty, RegisteredEmpty
    <3>3. Len(file.field) <= Len(names)
      BY <3>2 DEF Leftover
    <3>4. Len(names) <= Len(file.field) /\ \A i \in 1 .. Len(names) : file.field[i] = names[i]
      BY DEF Committed, Extends
    <3>5. Len(file.field) = Len(names)
      BY <3>1, <3>3, <3>4, LenProperties
    <3>6. file.field = names
      BY <3>1, <3>4, <3>5, SeqEqual
    <3>7. QED
      BY <3>1, <3>6 DEF NoRepeat
  <2>7. QED
    BY <2>1, <2>4, <2>5, <2>6 DEF ClosedFileIsExact
<1>2. QED
  BY <1>1, WriterInvariant, PTL

\* What write_completed keeps in memory is within SCIENCE_STAGE_ENTRIES, and
\* within SCIENCE_STAGE_SAMPLES unless one entry alone is larger.
THEOREM WriterStagingBounded == Spec => []StagingBounded
PROOF
<1>1. WriterInv => StagingBounded
  BY DEF WriterInv
<1>2. QED
  BY <1>1, WriterInvariant, PTL
=============================================================================
