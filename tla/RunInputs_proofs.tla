--------------------------- MODULE RunInputs_proofs ---------------------------
(***************************************************************************)
(* The invariants of RunInputs for every set of runs, calendar, cache size *)
(* and supply of addresses, every configuration of fields and scales, and  *)
(* however slow the device is.  They are proved in this order: the steps   *)
(* of a run; what a queued copy reads, and that recognising the mirrors by *)
(* id() is sound although addresses are used again (Inputs); what a step   *)
(* meets in the blocks (Served); the flux it applies (Emitted); when its   *)
(* emissions are evaluated; and what the operator keeps.                   *)
(***************************************************************************)
EXTENDS RunInputs, ProofLemmas

-----------------------------------------------------------------------------
(* The rows of a block are its records, in the order of the calendar.      *)

Record == Nat \X Nat

\* The records from a number up to another, p to a day.
RowsFrom(p, from, to) == [i \in 1 .. to - from |-> <<(from + i - 1) \div p, (from + i - 1) % p>>]

Span == [day : Nat, first : Nat, records : Nat]

RowsOf(spans) == FlattenSeq([i \in DOMAIN spans |-> SpanRows(spans[i])])

LEMMA RowsFromAre ==
  ASSUME NEW p \in Nat \ {0}, NEW s \in Nat, NEW e \in Nat, s <= e
  PROVE  /\ RowsFrom(p, s, e) \in Seq(Record) /\ Len(RowsFrom(p, s, e)) = e - s
         /\ \A i \in 1 .. e - s : RowsFrom(p, s, e)[i] = <<(s + i - 1) \div p, (s + i - 1) % p>>
PROOF
<1>1. e - s \in Nat
  OBVIOUS
<1>2. ASSUME NEW i \in 1 .. e - s PROVE <<(s + i - 1) \div p, (s + i - 1) % p>> \in Record
  <2>1. s + i - 1 \in Nat
    OBVIOUS
  <2>2. (s + i - 1) \div p \in Nat /\ (s + i - 1) % p \in Nat
    <3> DEFINE t == s + i - 1
    <3> HIDE DEF t
    <3>1. t \in Nat => t \div p \in Nat /\ t % p \in Nat
      OBVIOUS
    <3>2. QED
      BY <2>1, <3>1 DEF t
  <2>3. QED
    BY <2>2 DEF Record
<1>3. RowsFrom(p, s, e) \in [1 .. e - s -> Record]
  BY <1>2 DEF RowsFrom
<1>4. QED
  BY <1>1, <1>3 DEF RowsFrom

LEMMA RowsFromConcat ==
  ASSUME NEW p \in Nat \ {0}, NEW s \in Nat, NEW m \in Nat, NEW e \in Nat, s <= m, m <= e
  PROVE  RowsFrom(p, s, m) \o RowsFrom(p, m, e) = RowsFrom(p, s, e)
PROOF
<1> DEFINE a == RowsFrom(p, s, m)
           b == RowsFrom(p, m, e)
           c == RowsFrom(p, s, e)
           Row(t) == <<t \div p, t % p>>
<1>1. /\ a \in Seq(Record) /\ Len(a) = m - s /\ \A i \in 1 .. m - s : a[i] = Row(s + i - 1)
      /\ b \in Seq(Record) /\ Len(b) = e - m /\ \A i \in 1 .. e - m : b[i] = Row(m + i - 1)
      /\ c \in Seq(Record) /\ Len(c) = e - s /\ \A i \in 1 .. e - s : c[i] = Row(s + i - 1)
  <2>1. s <= e
    OBVIOUS
  <2>2. a \in Seq(Record) /\ Len(a) = m - s /\ \A i \in 1 .. m - s : a[i] = Row(s + i - 1)
    BY RowsFromAre
  <2>3. b \in Seq(Record) /\ Len(b) = e - m /\ \A i \in 1 .. e - m : b[i] = Row(m + i - 1)
    BY RowsFromAre
  <2>4. c \in Seq(Record) /\ Len(c) = e - s /\ \A i \in 1 .. e - s : c[i] = Row(s + i - 1)
    BY <2>1, RowsFromAre
  <2>5. QED
    BY <2>2, <2>3, <2>4
<1> HIDE DEF a, b, c, Row
<1>2. /\ a \o b \in Seq(Record) /\ Len(a \o b) = e - s
      /\ \A i \in 1 .. e - s : (a \o b)[i] = IF i <= m - s THEN a[i] ELSE b[i - (m - s)]
  <2>1. /\ a \o b \in Seq(Record) /\ Len(a \o b) = Len(a) + Len(b)
        /\ \A i \in 1 .. Len(a) + Len(b) :
             (a \o b)[i] = IF i <= Len(a) THEN a[i] ELSE b[i - Len(a)]
    BY <1>1, ConcatProperties
  <2>2. Len(a) = m - s /\ Len(a) + Len(b) = e - s
    BY <1>1
  <2>3. QED
    BY <2>1, <2>2
<1>3. ASSUME NEW i \in 1 .. e - s PROVE (a \o b)[i] = c[i]
  <2>1. CASE i <= m - s
    BY <1>1, <1>2, <2>1
  <2>2. CASE ~ (i <= m - s)
    <3>1. i - (m - s) \in 1 .. e - m /\ m + (i - (m - s)) - 1 = s + i - 1
      BY <2>2
    <3>2. QED
      BY <1>1, <1>2, <2>2, <3>1
  <2>3. QED
    BY <2>1, <2>2
<1>4. a \o b = c
  BY <1>1, <1>2, <1>3, SeqEqual
<1>5. QED
  BY <1>4 DEF a, b, c

LEMMA SpanRowsAre ==
  ASSUME NEW p \in Nat \ {0}, NEW s \in Nat, NEW n \in Nat, n <= p - (s % p)
  PROVE  SpanRows([day |-> s \div p, first |-> s % p, records |-> n]) = RowsFrom(p, s, s + n)
PROOF
<1>1. s \div p \in Nat /\ s % p \in Nat /\ s % p < p /\ s = (s \div p) * p + (s % p)
  <2>1. s \div p \in Nat /\ s % p \in Nat /\ s % p < p /\ s = p * (s \div p) + (s % p)
    OBVIOUS
  <2>2. QED
    BY <2>1
<1>2. ASSUME NEW i \in 1 .. n
      PROVE  (s + i - 1) \div p = s \div p /\ (s + i - 1) % p = (s % p) + i - 1
  <2> DEFINE q == s \div p
             r == s % p
  <2>1. q \in Nat /\ r \in Nat /\ r < p /\ s = q * p + r /\ n <= p - r
    BY <1>1
  <2> HIDE DEF q, r
  <2>2. i \in Nat /\ i <= n /\ i >= 1 /\ q * p \in Nat /\ p \in Nat
    BY <2>1
  <2> DEFINE k == r + i - 1
  <2>3. k \in Nat /\ k < p
    BY <2>1, <2>2
  <2>4. s + i - 1 = q * p + k
    BY <2>1, <2>2
  <2> HIDE DEF k
  <2>5. (s + i - 1) \div p = q /\ (s + i - 1) % p = k
    BY <2>1, <2>3, <2>4, DivisionIs
  <2>6. QED
    BY <2>5 DEF q, r, k
<1>3. (s + n) - s = n
  OBVIOUS
<1>4. QED
  BY <1>2, <1>3 DEF SpanRows, RowsFrom

LEMMA RowsOfCons ==
  ASSUME NEW x \in Span, NEW spans \in Seq(Span)
  PROVE  RowsOf(<<x>> \o spans) = SpanRows(x) \o RowsOf(spans)
PROOF
<1> DEFINE S == Nat \X Nat
           M(s) == [i \in DOMAIN s |-> SpanRows(s[i])]
           xs == <<x>> \o spans
<1>1. ASSUME NEW y \in Span PROVE SpanRows(y) \in Seq(S)
  <2>1. y.day \in Nat /\ y.first \in Nat /\ y.records \in Nat
    BY DEF Span
  <2>2. \A i \in 1 .. y.records : y.first + i - 1 \in Nat
    BY <2>1
  <2>3. QED
    BY <2>1, <2>2 DEF SpanRows
<1>2. <<x>> \in Seq(Span) /\ Len(<<x>>) = 1 /\ <<x>>[1] = x
  OBVIOUS
<1>3. /\ xs \in Seq(Span) /\ Len(xs) = 1 + Len(spans) /\ Len(spans) \in Nat
      /\ \A i \in 1 .. 1 + Len(spans) : xs[i] = IF i <= 1 THEN x ELSE spans[i - 1]
  <2>1. xs \in Seq(Span) /\ Len(xs) = 1 + Len(spans) /\ Len(spans) \in Nat
    BY <1>2, ConcatProperties, LenProperties
  <2>2. \A i \in 1 .. 1 + Len(spans) : xs[i] = IF i <= 1 THEN <<x>>[i] ELSE spans[i - 1]
    BY <1>2, ConcatProperties
  <2>3. QED
    BY <1>2, <2>1, <2>2
<1> HIDE DEF xs, S
<1>4. ASSUME NEW s \in Seq(Span)
      PROVE  M(s) \in Seq(Seq(S)) /\ Len(M(s)) = Len(s) /\ \A i \in 1 .. Len(s) : M(s)[i] = SpanRows(s[i])
  <2>1. DOMAIN s = 1 .. Len(s) /\ Len(s) \in Nat /\ \A i \in 1 .. Len(s) : s[i] \in Span
    BY LenProperties, ElementOfSeq
  <2>2. QED
    BY <1>1, <2>1
<1>5. SpanRows(x) \in Seq(S)
  BY <1>1
<1>6. /\ M(xs) \in Seq(Seq(S)) /\ Len(M(xs)) = 1 + Len(spans)
      /\ \A i \in 1 .. 1 + Len(spans) : M(xs)[i] = SpanRows(xs[i])
  BY <1>3, <1>4
<1>7. /\ M(spans) \in Seq(Seq(S)) /\ Len(M(spans)) = Len(spans)
      /\ \A i \in 1 .. Len(spans) : M(spans)[i] = SpanRows(spans[i])
  BY <1>4
<1> DEFINE l == M(xs)
           r == M(spans)
           t == SpanRows(x)
<1> HIDE DEF M, l, r, t
<1>8. t \in Seq(S) /\ r \in Seq(Seq(S)) /\ l \in Seq(Seq(S))
  BY <1>5, <1>6, <1>7 DEF l, r, t
<1>9. /\ <<t>> \in Seq(Seq(S)) /\ Len(<<t>>) = 1 /\ <<t>>[1] = t
  BY <1>8
<1>10. /\ <<t>> \o r \in Seq(Seq(S)) /\ Len(<<t>> \o r) = 1 + Len(spans)
       /\ \A i \in 1 .. 1 + Len(spans) :
            (<<t>> \o r)[i] = IF i <= 1 THEN <<t>>[i] ELSE r[i - 1]
  BY <1>7, <1>8, <1>9, ConcatProperties DEF r
<1>11. ASSUME NEW i \in 1 .. 1 + Len(spans) PROVE l[i] = (<<t>> \o r)[i]
  <2>1. CASE i <= 1
    BY <1>3, <1>6, <1>9, <1>10, <2>1 DEF l, t
  <2>2. CASE ~ (i <= 1)
    <3>1. i - 1 \in 1 .. Len(spans)
      BY <1>3, <2>2
    <3>2. QED
      BY <1>3, <1>6, <1>7, <1>10, <2>2, <3>1 DEF l, r
  <2>3. QED
    BY <2>1, <2>2
<1>12. l = <<t>> \o r
  BY <1>6, <1>8, <1>10, <1>11, SeqEqual DEF l
<1>13. FlattenSeq(<<t>> \o r) = t \o FlattenSeq(r)
  BY <1>8, FlattenCons
<1>14. FlattenSeq(l) = t \o FlattenSeq(r)
  BY <1>12, <1>13
<1>15. QED
  BY <1>14 DEF l, r, t, M, xs, RowsOf

LEMMA SpansAre ==
  ASSUME NEW p \in Nat \ {0}, NEW start \in Nat, NEW count \in Nat
  PROVE  /\ RecordSpans(start, count, p) \in Seq(Span)
         /\ RowsOf(RecordSpans(start, count, p)) = RowsFrom(p, start, start + count)
PROOF
<1> DEFINE stop == start + count
           Take(index) == Min({stop - index, p - (index % p)})
           First(index) == [day |-> index \div p, first |-> index % p, records |-> Take(index)]
           Body(g, index) == IF index = stop THEN <<>> ELSE <<First(index)>> \o g[index + Take(index)]
           Def(g) == g = [index \in start .. stop |->
              IF index = stop THEN <<>>
              ELSE LET records == Min({stop - index, p - (index % p)})
                   IN  <<[day |-> index \div p, first |-> index % p, records |-> records]>>
                         \o g[index + records]]
<1>1. ASSUME NEW index \in start .. stop - 1
      PROVE  /\ Take(index) \in Nat /\ Take(index) >= 1 /\ Take(index) <= p - (index % p)
             /\ index + Take(index) \in index + 1 .. stop
             /\ First(index) \in Span
             /\ SpanRows(First(index)) = RowsFrom(p, index, index + Take(index))
  <2>1. index \in Nat /\ index \div p \in Nat /\ index % p \in Nat /\ index % p < p
    OBVIOUS
  <2>2. stop - index \in Nat /\ stop - index >= 1 /\ p - (index % p) \in Nat /\ p - (index % p) >= 1
    BY <2>1
  <2> DEFINE a == stop - index
             b == p - (index % p)
  <2>3. Min({a, b}) = IF a <= b THEN a ELSE b
    <3> HIDE DEF a, b
    <3>1. a \in Int /\ b \in Int
      BY <2>2 DEF a, b
    <3>2. QED
      BY <3>1, MinOfTwo
  <2>4. Take(index) = IF a <= b THEN a ELSE b
    BY <2>3
  <2>5. Take(index) \in Nat /\ Take(index) >= 1 /\ Take(index) <= p - (index % p)
        /\ Take(index) <= stop - index
    <3> HIDE DEF Take
    <3>1. QED
      BY <2>2, <2>4
  <2> HIDE DEF Take
  <2>6. index + Take(index) \in index + 1 .. stop
    BY <2>1, <2>5
  <2>7. First(index) \in Span
    BY <2>1, <2>5 DEF Span
  <2>8. SpanRows(First(index)) = RowsFrom(p, index, index + Take(index))
    BY <2>1, <2>5, SpanRowsAre
  <2>9. QED
    BY <2>5, <2>6, <2>7, <2>8
<1>2. RecordSpans(start, count, p) = (CHOOSE g : Def(g))[start]
  BY DEF RecordSpans
<1>3. \A g : Def(g) <=> g = [index \in start .. stop |-> Body(g, index)]
  OBVIOUS
<1>4. /\ stop \in Nat /\ stop - count = start /\ stop - 0 = stop
      /\ stop \in start .. stop
      /\ \A index \in start .. stop - 1 : index \in start .. stop /\ index # stop
  OBVIOUS
<1> HIDE DEF Def, Take, First, stop
<1> DEFINE Goes(f, k) == \A index \in stop - k .. stop : f[index] = Body(f, index)
           N == {k \in 0 .. count : \E f : Goes(f, k)}
<1>5. 0 \in N
  <2> DEFINE f == [index \in {stop} |-> <<>>]
  <2>1. \A index \in stop - 0 .. stop : index = stop
    BY <1>4
  <2>2. f[stop] = Body(f, stop)
    OBVIOUS
  <2> HIDE DEF f
  <2>3. Goes(f, 0)
    BY <2>1, <2>2
  <2> HIDE DEF Goes
  <2>4. QED
    BY <2>3
<1>6. ASSUME NEW k \in 0 .. count, k \in N, k < count PROVE k + 1 \in N
  <2>1. PICK f : Goes(f, k)
    BY <1>6
  <2> DEFINE here == stop - (k + 1)
             g == [index \in here .. stop |-> IF index = here THEN <<First(here)>> \o f[here + Take(here)]
                                              ELSE f[index]]
  <2>2. here \in start .. stop - 1 /\ stop - k = here + 1
    BY <1>4, <1>6
  <2>3. here + Take(here) \in here + 1 .. stop
    BY <1>1, <2>2
  <2> HIDE DEF here
  <2>4. here \in Nat /\ here \in here .. stop /\ stop # here
    BY <1>4, <2>2
  <2>5. ASSUME NEW index \in here + 1 .. stop
        PROVE  index \in here .. stop /\ g[index] = f[index]
    BY <1>4, <2>4
  <2>6. g[here + Take(here)] = f[here + Take(here)]
    BY <2>3, <2>5
  <2>7. g[here] = Body(g, here)
    BY <2>4, <2>6
  <2>8. ASSUME NEW index \in here + 1 .. stop PROVE g[index] = Body(g, index)
    <3>1. f[index] = Body(f, index)
      BY <2>1, <2>2
    <3>2. CASE index = stop
      BY <2>5, <3>1, <3>2
    <3>3. CASE index # stop
      <4>1. index \in start .. stop - 1
        BY <1>4, <2>2, <2>4, <3>3
      <4>2. index + Take(index) \in index + 1 .. stop
        BY <1>1, <4>1
      <4>3. index + Take(index) \in here + 1 .. stop
        BY <1>4, <2>4, <4>2
      <4>4. g[index + Take(index)] = f[index + Take(index)]
        BY <2>5, <4>3
      <4>5. QED
        BY <2>5, <3>1, <3>3, <4>4
    <3>4. QED
      BY <3>2, <3>3
  <2> HIDE DEF g
  <2>9. Goes(g, k + 1)
    <3>1. \A index \in here .. stop : index = here \/ index \in here + 1 .. stop
      BY <1>4, <2>4
    <3>2. \A index \in here .. stop : g[index] = Body(g, index)
      BY <2>7, <2>8, <3>1
    <3>3. QED
      BY <3>2 DEF here
  <2>10. QED
    BY <1>6, <2>9
<1>7. PICK f : Goes(f, count)
  <2> HIDE DEF N
  <2>1. 0 .. count \subseteq N
    BY <1>5, <1>6, UpTo
  <2>2. count \in N
    BY <2>1
  <2>3. QED
    BY <2>2 DEF N
<1> DEFINE h == [index \in start .. stop |-> f[index]]
<1>8. Def(h)
  <2>1. ASSUME NEW index \in start .. stop PROVE h[index] = Body(h, index)
    <3>1. f[index] = Body(f, index)
      BY <1>4, <1>7
    <3>2. CASE index = stop
      BY <3>1, <3>2
    <3>3. CASE index # stop
      <4>1. index \in start .. stop - 1
        BY <1>4, <3>3
      <4>2. index + Take(index) \in start .. stop
        BY <1>1, <1>4, <4>1
      <4>3. QED
        BY <3>1, <3>3, <4>2
    <3>4. QED
      BY <3>2, <3>3
  <2>2. h = [index \in start .. stop |-> Body(h, index)]
    BY <2>1
  <2> HIDE DEF h
  <2>3. QED
    BY <1>3, <2>2
<1> DEFINE c == CHOOSE g : Def(g)
<1>9. Def(c)
  BY <1>8
<1> HIDE DEF c, h
<1>10. \A index \in start .. stop : c[index] = Body(c, index)
  <2>1. c = [index \in start .. stop |-> Body(c, index)]
    BY <1>3, <1>9
  <2>2. QED
    BY <2>1
<1> DEFINE Covers(index) == c[index] \in Seq(Span) /\ RowsOf(c[index]) = RowsFrom(p, index, stop)
           M == {k \in 0 .. count : \A index \in stop - k .. stop : Covers(index)}
<1>11. 0 \in M
  <2>1. c[stop] = <<>>
    <3>1. c[stop] = Body(c, stop)
      BY <1>4, <1>10
    <3>2. QED
      BY <3>1
  <2>2. RowsOf(<<>>) = <<>> /\ RowsFrom(p, stop, stop) = <<>>
    <3>1. [i \in DOMAIN <<>> |-> SpanRows(<<>>[i])] = <<>>
      OBVIOUS
    <3>2. FlattenSeq(<<>>) = <<>>
      BY DEF FlattenSeq
    <3>3. 1 .. stop - stop = {}
      BY <1>4
    <3>4. QED
      BY <3>1, <3>2, <3>3 DEF RowsOf, RowsFrom
  <2>3. \A index \in stop - 0 .. stop : index = stop
    BY <1>4
  <2>4. Covers(stop)
    BY <2>1, <2>2
  <2>5. QED
    BY <2>3, <2>4
<1>12. ASSUME NEW k \in 0 .. count, k \in M, k < count PROVE k + 1 \in M
  <2> DEFINE here == stop - (k + 1)
             there == here + Take(here)
  <2>1. here \in start .. stop - 1 /\ stop - k = here + 1
    BY <1>4, <1>12
  <2>2. /\ there \in here + 1 .. stop /\ First(here) \in Span
        /\ SpanRows(First(here)) = RowsFrom(p, here, there)
    BY <1>1, <2>1
  <2> HIDE DEF here
  <2>3. \A index \in here + 1 .. stop : Covers(index)
    BY <1>12, <2>1
  <2>4. Covers(there)
    BY <2>2, <2>3
  <2>5. c[here] = <<First(here)>> \o c[there]
    <3>1. c[here] = Body(c, here) /\ here # stop
      BY <1>4, <1>10, <2>1
    <3>2. QED
      BY <3>1
  <2> HIDE DEF there
  <2>6. here \in Nat /\ there \in Nat /\ here <= there /\ there <= stop
    BY <1>4, <2>1, <2>2
  <2>7. RowsOf(c[here]) = RowsFrom(p, here, there) \o RowsFrom(p, there, stop)
    BY <2>2, <2>4, <2>5, RowsOfCons
  <2>8. RowsFrom(p, here, there) \o RowsFrom(p, there, stop) = RowsFrom(p, here, stop)
    BY <1>4, <2>6, RowsFromConcat
  <2>9. c[here] \in Seq(Span)
    <3>1. <<First(here)>> \in Seq(Span)
      BY <2>2
    <3>2. QED
      BY <2>4, <2>5, <3>1, ConcatProperties
  <2>10. Covers(here)
    BY <2>7, <2>8, <2>9
  <2>11. \A index \in here .. stop : index = here \/ index \in here + 1 .. stop
    BY <1>4, <2>6
  <2>12. \A index \in here .. stop : Covers(index)
    BY <2>3, <2>10, <2>11
  <2> HIDE DEF Covers
  <2>13. QED
    BY <1>12, <2>12 DEF here
<1>13. Covers(start)
  <2> HIDE DEF M
  <2>1. 0 .. count \subseteq M
    BY <1>11, <1>12, UpTo
  <2>2. count \in M
    BY <2>1
  <2>3. start \in stop - count .. stop
    BY <1>4
  <2>4. QED
    BY <2>2, <2>3 DEF M
<1>14. RecordSpans(start, count, p) = c[start]
  BY <1>2 DEF c
<1>15. QED
  BY <1>13, <1>14 DEF stop

-----------------------------------------------------------------------------
(* Blocks and what a step finds in them.                                   *)

\* A block of a kind: consecutive records, an i3 block with its endpoint.
Holds(kind, size, block) ==
  /\ block # NoBlock
  /\ block.start \in Nat /\ block.count = size
  /\ block.rows = RowsFrom(RecordsPerDay[kind], block.start, block.start + ReadCount(kind, size))

BlockOrNone(kind, size, block) == block = NoBlock \/ Holds(kind, size, block)

LEMMA KindIs ==
  ASSUME NEW kind \in Kinds, NEW multiple \in Nat \ {0}
  PROVE  /\ RecordsPerDay[kind] \in Nat \ {0} /\ BlockSize(kind, multiple) \in Nat \ {0}
         /\ \A n \in Nat : ReadCount(kind, n) \in Nat /\ ReadCount(kind, n) >= n
         /\ kind = "i3" => \A n \in Nat : ReadCount(kind, n) = n + 1
PROOF
<1>1. NaturalRecords[kind] \in Nat \ {0} /\ RecordsPerDay[kind] \in Nat \ {0}
  BY DEF Kinds, NaturalRecords, RecordsPerDay
<1>2. BlockSize(kind, multiple) \in Nat \ {0}
  <2>1. \A a, b \in Nat \ {0} : a * b \in Nat \ {0}
    OBVIOUS
  <2>2. QED
    BY <1>1, <2>1 DEF BlockSize
<1>3. QED
  BY <1>1, <1>2 DEF ReadCount

LEMMA LoadedBlock ==
  ASSUME NEW kind \in Kinds, NEW start \in Nat, NEW size \in Nat \ {0}, NEW address
  PROVE  Holds(kind, size, LoadBlock(kind, start, size, address))
PROOF
<1> DEFINE block == LoadBlock(kind, start, size, address)
           spans == Spans(kind, start, size)
<1>1. RecordsPerDay[kind] \in Nat \ {0} /\ ReadCount(kind, size) \in Nat
  <2>1. 1 \in Nat \ {0}
    OBVIOUS
  <2>2. QED
    BY <2>1, KindIs
<1>2. RowsOf(spans) = RowsFrom(RecordsPerDay[kind], start, start + ReadCount(kind, size))
  BY <1>1, SpansAre DEF Spans
<1>3. block.start = start /\ block.count = size /\ block.rows = RowsOf(spans)
  BY DEF LoadBlock, RowsOf
<1>4. block # NoBlock
  BY <1>3 DEF NoBlock
<1> HIDE DEF block, spans
<1>5. QED
  BY <1>2, <1>3, <1>4 DEF Holds, block

LEMMA BlockStartIs ==
  ASSUME NEW index \in Nat, NEW size \in Nat \ {0}
  PROVE  /\ BlockStart(index, size) \in Nat
         /\ BlockStart(index, size) <= index /\ index < BlockStart(index, size) + size
PROOF BY Quotient DEF BlockStart

LEMMA HeldRecords ==
  ASSUME NEW kind \in Kinds, NEW size \in Nat \ {0}, NEW block, Holds(kind, size, block),
         NEW index \in Nat, block.start <= index
  PROVE  /\ Len(block.rows) = ReadCount(kind, size)
         /\ index < block.start + ReadCount(kind, size) =>
              Field([rows |-> block.rows], index - block.start) = RecordAt(kind, index)
PROOF
<1> DEFINE p == RecordsPerDay[kind]
           s == block.start
           n == ReadCount(kind, size)
           off == index - s
<1>1. p \in Nat \ {0} /\ n \in Nat
  <2>1. 1 \in Nat \ {0}
    OBVIOUS
  <2>2. QED
    BY <2>1, KindIs
<1>2. s \in Nat /\ block.rows = RowsFrom(p, s, s + n)
  BY DEF Holds
<1> HIDE DEF p, s, n
<1>3. s <= s + n /\ s + n \in Nat /\ (s + n) - s = n
  BY <1>1, <1>2
<1>4. Len(block.rows) = n /\ \A i \in 1 .. n : block.rows[i] = <<(s + i - 1) \div p, (s + i - 1) % p>>
  <2> DEFINE e == s + n
  <2>1. e \in Nat /\ s <= e
    BY <1>3
  <2> HIDE DEF e
  <2>2. /\ Len(RowsFrom(p, s, e)) = e - s
        /\ \A i \in 1 .. e - s : RowsFrom(p, s, e)[i] = <<(s + i - 1) \div p, (s + i - 1) % p>>
    BY <1>1, <1>2, <2>1, RowsFromAre
  <2>3. e - s = n
    BY <1>3 DEF e
  <2>4. QED
    BY <1>2, <2>2, <2>3 DEF e
<1>5. ASSUME index < s + n PROVE Field([rows |-> block.rows], off) = RecordAt(kind, index)
  <2>1. off \in 0 .. n - 1 /\ off + 1 \in 1 .. n /\ s + (off + 1) - 1 = index
    BY <1>1, <1>2, <1>5 DEF s
  <2> HIDE DEF off
  <2>2. block.rows[off + 1] = <<index \div p, index % p>>
    BY <1>4, <2>1
  <2>3. QED
    BY <1>4, <2>1, <2>2 DEF Field, RecordAt, p
<1>6. QED
  BY <1>4, <1>5 DEF s, n

\* The block that serves a record.
LEMMA EnsureServes ==
  ASSUME NEW kind \in Kinds, NEW multiple \in Nat \ {0}, NEW days, NEW address, NEW index \in Nat,
         NEW cached, BlockOrNone(kind, BlockSize(kind, multiple), cached),
         NEW hit, hit \in BOOLEAN, hit => cached # NoBlock
  PROVE  LET size == BlockSize(kind, multiple)
             block == Ensure(kind, cached, hit, index, multiple, days, address)
         IN  /\ BlockOrNone(kind, size, block)
             /\ hit => block = cached
             /\ ~ hit /\ block # NoBlock => block.start <= index /\ index < block.start + size
             /\ block = NoBlock => ~ Readable(kind, BlockStart(index, size), size, days)
PROOF
<1> DEFINE size == BlockSize(kind, multiple)
           start == BlockStart(index, size)
           block == Ensure(kind, cached, hit, index, multiple, days, address)
           loaded == LoadBlock(kind, start, size, address)
<1>1. size \in Nat \ {0}
  BY KindIs
<1> HIDE DEF size
<1>2. start \in Nat /\ start <= index /\ index < start + size
  BY <1>1, BlockStartIs
<1>3. block = IF hit THEN cached ELSE IF Readable(kind, start, size, days) THEN loaded ELSE NoBlock
  BY DEF Ensure, size
<1>4. loaded.start = start
  BY DEF LoadBlock
<1> HIDE DEF start, loaded, block
<1>5. Holds(kind, size, loaded)
  BY <1>1, <1>2, LoadedBlock DEF loaded
<1>6. loaded # NoBlock
  BY <1>5 DEF Holds
<1>7. BlockOrNone(kind, size, block)
  BY <1>3, <1>5 DEF BlockOrNone, size
<1>8. ~ hit /\ block # NoBlock => block.start <= index /\ index < block.start + size
  BY <1>2, <1>3, <1>4
<1>9. block = NoBlock => ~ Readable(kind, start, size, days)
  BY <1>3, <1>6
<1>10. QED
  BY <1>3, <1>7, <1>8, <1>9 DEF size, start, block

\* Which record a time belongs to, counted from the start or on the calendar.
LEMMA IndexIs ==
  ASSUME NEW initial \in Nat, NEW elapsed \in Nat
  PROVE  LET now == initial * Window + elapsed
         IN  /\ HourIndex(initial, elapsed) \in Nat /\ WindowIndex(initial, elapsed) \in Nat
             /\ now \div Hour = HourIndex(initial, elapsed)
             /\ now \div Window = WindowIndex(initial, elapsed)
             /\ now % Window = elapsed % Window
PROOF
<1> DEFINE now == initial * Window + elapsed
<1>1. Hour \in Nat \ {0} /\ Window \in Nat \ {0} /\ Window = 3 * Hour
  BY DEF Hour, Window
<1>2. ASSUME NEW w \in Nat \ {0}, NEW n \in Nat
      PROVE  /\ n + elapsed \div w \in Nat
             /\ (n * w + elapsed) \div w = n + elapsed \div w
             /\ (n * w + elapsed) % w = elapsed % w
  <2> DEFINE q == elapsed \div w
             r == elapsed % w
  <2>1. q \in Nat /\ r \in Nat /\ r < w /\ elapsed = w * q + r
    OBVIOUS
  <2> HIDE DEF q, r
  <2>2. n + q \in Nat /\ n * w + elapsed = (n + q) * w + r
    BY <2>1
  <2>3. ((n + q) * w + r) \div w = n + q /\ ((n + q) * w + r) % w = r
    BY <2>1, <2>2, DivisionIs
  <2>4. QED
    BY <2>2, <2>3 DEF q, r
<1>3. initial * 3 \in Nat /\ initial * Window = (initial * 3) * Hour
  BY <1>1
<1>4. now = (initial * 3) * Hour + elapsed
  BY <1>3
<1>5. /\ HourIndex(initial, elapsed) \in Nat
      /\ now \div Hour = HourIndex(initial, elapsed)
  <2> DEFINE n == initial * 3
  <2> HIDE DEF n
  <2>1. n \in Nat
    BY <1>3 DEF n
  <2>2. n + elapsed \div Hour \in Nat /\ (n * Hour + elapsed) \div Hour = n + elapsed \div Hour
    BY <1>1, <1>2, <2>1
  <2>3. QED
    BY <1>4, <2>2 DEF n, HourIndex
<1>6. /\ WindowIndex(initial, elapsed) \in Nat
      /\ now \div Window = WindowIndex(initial, elapsed)
      /\ now % Window = elapsed % Window
  BY <1>1, <1>2 DEF WindowIndex
<1>7. QED
  BY <1>5, <1>6

LEMMA NextIndex ==
  ASSUME NEW initial \in Nat, NEW elapsed \in Nat, NEW dt \in Nat, ~ CrossesWindow(elapsed, dt)
  PROVE  WindowIndex(initial, elapsed + dt)
           \in {WindowIndex(initial, elapsed), WindowIndex(initial, elapsed) + 1}
PROOF
<1> DEFINE q == elapsed \div Window
           r == elapsed % Window
<1>1. Window \in Nat \ {0}
  BY DEF Window, Hour
<1>2. q \in Nat /\ r \in Nat /\ r < Window /\ elapsed = Window * q + r
  BY <1>1
<1>3. r + dt <= Window
  BY <1>1, <1>2 DEF CrossesWindow
<1> HIDE DEF q, r
<1>4. (elapsed + dt) \div Window \in {q, q + 1}
  <2>1. CASE r + dt < Window
    <3> DEFINE m == r + dt
    <3>1. m \in Nat /\ m < Window /\ elapsed + dt = q * Window + m
      BY <1>1, <1>2, <2>1
    <3> HIDE DEF m
    <3>2. (q * Window + m) \div Window = q
      BY <1>1, <1>2, <3>1, DivisionIs
    <3>3. QED
      BY <3>1, <3>2
  <2>2. CASE r + dt = Window
    <3> DEFINE n == q + 1
    <3>1. n \in Nat /\ elapsed + dt = n * Window + 0
      BY <1>1, <1>2, <2>2
    <3> HIDE DEF n
    <3>2. (n * Window + 0) \div Window = n
      <4>1. 0 \in Nat /\ 0 < Window
        BY <1>1
      <4>2. QED
        BY <1>1, <3>1, <4>1, DivisionIs
    <3>3. QED
      BY <3>1, <3>2 DEF n
  <2>3. QED
    BY <1>1, <1>2, <1>3, <2>1, <2>2
<1>5. QED
  BY <1>2, <1>4 DEF WindowIndex, q

\* What a step that begins `elapsed` seconds into the run finds at the offsets
\* of a selection.
Sees(selection, name) ==
  LET At(kind, offset) == Field([rows |-> selection[kind].rows], offset)
  IN  CASE name = "a1" -> At("a1", selection.a1At)
        [] name = "a3" -> At("a3", selection.a3At)
        [] name = "start" -> At("i3", selection.startAt)
        [] name = "end" -> At("i3", selection.endAt)
        [] name = "into" -> selection.into

Meets(selection, initial, elapsed) ==
  \A name \in {"a1", "a3", "start", "end", "into"} :
    Sees(selection, name) = MetOf(initial, elapsed)[name]

Missing(initial, multiple, days, elapsed) ==
  \E kind \in Kinds :
    LET index == IF kind = "a1" THEN HourIndex(initial, elapsed)
                 ELSE WindowIndex(initial, elapsed)
        size == BlockSize(kind, multiple)
    IN  ~ Readable(kind, BlockStart(index, size), size, days)

\* What the provider hands over are the records of the step's times, and it
\* refuses a step only for a missing file or because it crosses a window.
LEMMA ChunksServe ==
  ASSUME NEW initial \in Nat, NEW multiple \in Nat \ {0}, NEW days, NEW elapsed \in Nat,
         NEW dt \in Nat, NEW fresh,
         NEW cached, \A kind \in Kinds : BlockOrNone(kind, BlockSize(kind, multiple), cached[kind])
  PROVE  LET chunks == ChunksForStep(cached, initial, multiple, days, elapsed, dt, fresh)
         IN  /\ \A kind \in Kinds : BlockOrNone(kind, BlockSize(kind, multiple), chunks.blocks[kind])
             /\ chunks.ok => Meets(chunks.selection, initial, elapsed)
             /\ chunks.ok \in BOOLEAN
             /\ ~ chunks.ok => Missing(initial, multiple, days, elapsed) \/ CrossesWindow(elapsed, dt)
PROOF
<1> DEFINE hour == HourIndex(initial, elapsed)
           window == WindowIndex(initial, elapsed)
           next == window + 1
           hitA1 == ContainsRecord(cached.a1, hour)
           hitA3 == ContainsRecord(cached.a3, window)
           hitI3 == ContainsRecord(cached.i3, window)
           a1 == Ensure("a1", cached.a1, hitA1, hour, multiple, days, fresh.a1)
           a3 == Ensure("a3", cached.a3, hitA3, window, multiple, days, fresh.a3)
           base == Ensure("i3", cached.i3, hitI3, window, multiple, days, fresh.i3)
           hitEnd == ContainsEndpoint(base, next)
           i3 == IF base = NoBlock THEN NoBlock
                 ELSE Ensure("i3", base, hitEnd, next, multiple, days, fresh.endpoint)
           read == [a1 |-> a1,
                    a3 |-> IF a1 = NoBlock THEN NoBlock ELSE a3,
                    i3 |-> IF NoBlock \in {a1, a3} THEN NoBlock
                           ELSE IF i3 = NoBlock THEN base ELSE i3]
           chunks == ChunksForStep(cached, initial, multiple, days, elapsed, dt, fresh)
           size(kind) == BlockSize(kind, multiple)
<1>0. /\ chunks.selection["a1"] = a1 /\ chunks.selection["a3"] = a3 /\ chunks.selection["i3"] = i3
      /\ chunks.selection.a1At = hour - a1.start /\ chunks.selection.a3At = window - a3.start
      /\ chunks.selection.startAt = window - i3.start
      /\ chunks.selection.endAt = window + 1 - i3.start
      /\ chunks.selection.into = elapsed % Window
  BY DEF ChunksForStep
<1>1. /\ chunks.blocks = [kind \in Kinds |-> IF read[kind] = NoBlock THEN cached[kind] ELSE read[kind]]
      /\ chunks.ok = (/\ NoBlock \notin {a1, a3, i3} /\ ~ CrossesWindow(elapsed, dt)
                      /\ WindowIndex(initial, elapsed + dt) \in {window, window + 1})
  BY DEF ChunksForStep
<1>2. hour \in Nat /\ window \in Nat /\ next \in Nat
  BY IndexIs
<1>3. "a1" \in Kinds /\ "a3" \in Kinds /\ "i3" \in Kinds
  BY DEF Kinds
<1>4. hitA1 \in BOOLEAN /\ hitA3 \in BOOLEAN /\ hitI3 \in BOOLEAN /\ hitEnd \in BOOLEAN
      /\ (hitA1 => cached.a1 # NoBlock) /\ (hitA3 => cached.a3 # NoBlock)
      /\ (hitI3 => cached.i3 # NoBlock) /\ (hitEnd => base # NoBlock)
  BY DEF ContainsRecord, ContainsEndpoint
<1>5. \A kind \in Kinds : size(kind) \in Nat \ {0}
  BY KindIs
<1> HIDE DEF chunks
<1>6. /\ BlockOrNone("a1", size("a1"), a1)
      /\ a1 # NoBlock => a1.start <= hour /\ hour < a1.start + size("a1")
      /\ a1 = NoBlock => ~ Readable("a1", BlockStart(hour, size("a1")), size("a1"), days)
  <2> HIDE DEF hitA1, a1, hour
  <2>1. /\ BlockOrNone("a1", size("a1"), a1)
        /\ hitA1 => a1 = cached.a1
        /\ ~ hitA1 /\ a1 # NoBlock => a1.start <= hour /\ hour < a1.start + size("a1")
        /\ a1 = NoBlock => ~ Readable("a1", BlockStart(hour, size("a1")), size("a1"), days)
    BY <1>2, <1>3, <1>4, EnsureServes DEF a1
  <2>2. hitA1 => cached.a1.start <= hour /\ hour < cached.a1.start + cached.a1.count
    BY DEF hitA1, ContainsRecord
  <2>3. a1 # NoBlock => a1.count = size("a1")
    BY <2>1 DEF BlockOrNone, Holds
  <2>4. QED
    BY <1>4, <2>1, <2>2, <2>3
<1>7. /\ BlockOrNone("a3", size("a3"), a3)
      /\ a3 # NoBlock => a3.start <= window /\ window < a3.start + size("a3")
      /\ a3 = NoBlock => ~ Readable("a3", BlockStart(window, size("a3")), size("a3"), days)
  <2> HIDE DEF hitA3, a3, window
  <2>1. /\ BlockOrNone("a3", size("a3"), a3)
        /\ hitA3 => a3 = cached.a3
        /\ ~ hitA3 /\ a3 # NoBlock => a3.start <= window /\ window < a3.start + size("a3")
        /\ a3 = NoBlock => ~ Readable("a3", BlockStart(window, size("a3")), size("a3"), days)
    BY <1>2, <1>3, <1>4, EnsureServes DEF a3
  <2>2. hitA3 => cached.a3.start <= window /\ window < cached.a3.start + cached.a3.count
    BY DEF hitA3, ContainsRecord
  <2>3. a3 # NoBlock => a3.count = size("a3")
    BY <2>1 DEF BlockOrNone, Holds
  <2>4. QED
    BY <1>4, <2>1, <2>2, <2>3
<1>8. /\ BlockOrNone("i3", size("i3"), base)
      /\ base # NoBlock => base.start <= window /\ window < base.start + size("i3")
      /\ base = NoBlock => ~ Readable("i3", BlockStart(window, size("i3")), size("i3"), days)
  <2> HIDE DEF hitI3, base, window
  <2>1. /\ BlockOrNone("i3", size("i3"), base)
        /\ hitI3 => base = cached.i3
        /\ ~ hitI3 /\ base # NoBlock => base.start <= window /\ window < base.start + size("i3")
        /\ base = NoBlock => ~ Readable("i3", BlockStart(window, size("i3")), size("i3"), days)
    BY <1>2, <1>3, <1>4, EnsureServes DEF base
  <2>2. hitI3 => cached.i3.start <= window /\ window < cached.i3.start + cached.i3.count
    BY DEF hitI3, ContainsRecord
  <2>3. base # NoBlock => base.count = size("i3")
    BY <2>1 DEF BlockOrNone, Holds
  <2>4. QED
    BY <1>4, <2>1, <2>2, <2>3
<1>9. i3 = base
  <2>1. SUFFICES ASSUME base # NoBlock PROVE hitEnd
    BY DEF Ensure
  <2> HIDE DEF base, window, size
  <2>2. Holds("i3", size("i3"), base) /\ base.start \in Nat
    BY <1>8, <2>1 DEF BlockOrNone, Holds
  <2>3. ReadCount("i3", size("i3")) = size("i3") + 1
    BY DEF ReadCount
  <2>4. Len(base.rows) = size("i3") + 1
    BY <1>2, <1>3, <1>5, <1>8, <2>1, <2>2, <2>3, HeldRecords
  <2>5. base.start <= window + 1 /\ window + 1 < base.start + (size("i3") + 1)
    BY <1>2, <1>3, <1>5, <1>8, <2>1, <2>2
  <2>6. QED
    BY <2>1, <2>4, <2>5 DEF ContainsEndpoint
<1> HIDE DEF a1, a3, base, i3, hitA1, hitA3, hitI3, hitEnd
<1>10. ASSUME NEW kind \in Kinds PROVE BlockOrNone(kind, size(kind), chunks.blocks[kind])
  <2>1. read[kind] = NoBlock \/ BlockOrNone(kind, size(kind), read[kind])
    BY <1>6, <1>7, <1>8, <1>9 DEF Kinds
  <2> HIDE DEF read
  <2>2. QED
    BY <1>1, <2>1
<1> HIDE DEF read, hour, window
<1>11. ASSUME chunks.ok PROVE Meets(chunks.selection, initial, elapsed)
  <2>1. a1 # NoBlock /\ a3 # NoBlock /\ i3 # NoBlock
    BY <1>1, <1>11
  <2>2. Holds("a1", size("a1"), a1) /\ Holds("a3", size("a3"), a3) /\ Holds("i3", size("i3"), i3)
    BY <1>6, <1>7, <1>8, <1>9, <2>1 DEF BlockOrNone
  <2>3. ReadCount("a1", size("a1")) = size("a1") /\ ReadCount("a3", size("a3")) = size("a3")
        /\ ReadCount("i3", size("i3")) = size("i3") + 1
    BY DEF ReadCount
  <2>4. Field([rows |-> a1.rows], hour - a1.start) = RecordAt("a1", hour)
    BY <1>2, <1>3, <1>5, <1>6, <2>1, <2>2, <2>3, HeldRecords
  <2>5. Field([rows |-> a3.rows], window - a3.start) = RecordAt("a3", window)
    BY <1>2, <1>3, <1>5, <1>7, <2>1, <2>2, <2>3, HeldRecords
  <2>6. i3.start \in Nat /\ size("i3") \in Nat
    BY <1>3, <1>5, <2>2 DEF Holds
  <2>7. i3.start <= window /\ window < i3.start + (size("i3") + 1)
        /\ i3.start <= window + 1 /\ window + 1 < i3.start + (size("i3") + 1)
    BY <1>2, <1>8, <1>9, <2>1, <2>6
  <2>8. Field([rows |-> i3.rows], window - i3.start) = RecordAt("i3", window)
    BY <1>2, <1>3, <1>5, <2>2, <2>3, <2>7, HeldRecords
  <2>9. Field([rows |-> i3.rows], next - i3.start) = RecordAt("i3", next)
    BY <1>2, <1>3, <1>5, <2>2, <2>3, <2>7, HeldRecords
  <2>10. LET met == MetOf(initial, elapsed)
         IN  /\ met["a1"] = RecordAt("a1", hour) /\ met["a3"] = RecordAt("a3", window)
             /\ met["start"] = RecordAt("i3", window) /\ met["end"] = RecordAt("i3", next)
             /\ met["into"] = elapsed % Window
    BY IndexIs DEF MetOf, hour, window
  <2> DEFINE s == chunks.selection
  <2>0. window + (1 - i3.start) = next - i3.start
    BY <1>2, <2>6
  <2>11. /\ s["a1"] = a1 /\ s["a3"] = a3 /\ s["i3"] = i3
         /\ s.a1At = hour - a1.start /\ s.a3At = window - a3.start
         /\ s.startAt = window - i3.start /\ s.endAt = next - i3.start
         /\ s.into = elapsed % Window
    BY <1>0, <2>0
  <2> HIDE DEF s, next
  <2>12. /\ Sees(s, "a1") = RecordAt("a1", hour) /\ Sees(s, "a3") = RecordAt("a3", window)
         /\ Sees(s, "start") = RecordAt("i3", window) /\ Sees(s, "end") = RecordAt("i3", next)
         /\ Sees(s, "into") = elapsed % Window
    BY <2>4, <2>5, <2>8, <2>9, <2>11 DEF Sees
  <2>13. Meets(s, initial, elapsed)
    BY <2>10, <2>12 DEF Meets
  <2>14. QED
    BY <2>13 DEF s
<1>12. ASSUME ~ chunks.ok
       PROVE  Missing(initial, multiple, days, elapsed) \/ CrossesWindow(elapsed, dt)
  <2>1. SUFFICES ASSUME ~ CrossesWindow(elapsed, dt) PROVE Missing(initial, multiple, days, elapsed)
    OBVIOUS
  <2>2. a1 = NoBlock \/ a3 = NoBlock \/ i3 = NoBlock
    BY <1>1, <1>12, <2>1, NextIndex DEF window
  <2>3. CASE a1 = NoBlock
    BY <1>3, <1>6, <2>3 DEF Missing, hour
  <2>4. CASE a3 = NoBlock
    BY <1>3, <1>7, <2>4 DEF Missing, window
  <2>5. CASE i3 = NoBlock
    BY <1>3, <1>8, <1>9, <2>5 DEF Missing, window
  <2>6. QED
    BY <2>2, <2>3, <2>4, <2>5
<1>13. chunks.ok \in BOOLEAN
  BY <1>1
<1>14. QED
  BY <1>10, <1>11, <1>12, <1>13 DEF chunks

-----------------------------------------------------------------------------
(* Sequences of anything: IsSeq(s) where the elements need no type.        *)

IsSeq(s) == s \in Seq(Range(s))

\* A sequence of a type is a sequence.
LEMMA TypedIsSeq ==
  ASSUME NEW S, NEW s \in Seq(S)
  PROVE  IsSeq(s) /\ Len(s) \in Nat /\ DOMAIN s = 1..Len(s)
PROOF BY SeqOfRange, LenProperties DEF IsSeq

\* Concatenation puts the elements of the second behind those of the first.
LEMMA ConcatIsSeq ==
  ASSUME NEW s, NEW t, IsSeq(s), IsSeq(t)
  PROVE  /\ IsSeq(s \o t)
         /\ Len(s) \in Nat /\ Len(t) \in Nat
         /\ DOMAIN (s \o t) = 1..(Len(s) + Len(t))
         /\ \A i \in 1..Len(s) : (s \o t)[i] = s[i]
         /\ \A i \in 1..Len(t) : (s \o t)[Len(s) + i] = t[i]
         /\ Range(s \o t) = Range(s) \cup Range(t)
PROOF
<1> DEFINE E == Range(s) \cup Range(t)
<1>1. s \in Seq(Range(s)) /\ t \in Seq(Range(t))
  BY DEF IsSeq
<1>2. Range(s) \subseteq E /\ Range(t) \subseteq E
  OBVIOUS
<1> HIDE DEF E
<1>3. s \in Seq(E) /\ t \in Seq(E)
  BY <1>1, <1>2, SeqDef
<1>4. /\ s \o t \in Seq(E)
      /\ Len(s \o t) = Len(s) + Len(t)
      /\ \A i \in 1 .. Len(s) + Len(t) :
           (s \o t)[i] = IF i <= Len(s) THEN s[i] ELSE t[i - Len(s)]
  BY <1>3, ConcatProperties
<1>5. Len(s) \in Nat /\ Len(t) \in Nat /\ DOMAIN s = 1..Len(s) /\ DOMAIN t = 1..Len(t)
  BY <1>3, LenProperties
<1>6. IsSeq(s \o t) /\ DOMAIN (s \o t) = 1..(Len(s) + Len(t))
  BY <1>4, TypedIsSeq
<1>7. \A i \in 1..Len(s) : (s \o t)[i] = s[i]
  BY <1>4, <1>5
<1>8. \A i \in 1..Len(t) : (s \o t)[Len(s) + i] = t[i]
  <2> SUFFICES ASSUME NEW i \in 1..Len(t) PROVE (s \o t)[Len(s) + i] = t[i]
    OBVIOUS
  <2>1. Len(s) + i \in 1 .. Len(s) + Len(t) /\ ~(Len(s) + i <= Len(s)) /\ Len(s) + i - Len(s) = i
    BY <1>5
  <2>2. QED
    BY <2>1, <1>4
<1>9. Range(s \o t) = Range(s) \cup Range(t)
  BY <1>3, RangeConcatenation
<1>10. QED
  BY <1>5, <1>6, <1>7, <1>8, <1>9

\* The rest of a sequence.
LEMMA TailIsSeq ==
  ASSUME NEW s, IsSeq(s), s # <<>>
  PROVE  /\ IsSeq(Tail(s))
         /\ Len(s) \in Nat /\ Len(s) >= 1 /\ DOMAIN s = 1..Len(s) /\ Head(s) = s[1]
         /\ DOMAIN Tail(s) = 1..(Len(s) - 1)
         /\ \A i \in 1..(Len(s) - 1) : Tail(s)[i] = s[i + 1]
PROOF
<1>1. s \in Seq(Range(s))
  BY DEF IsSeq
<1>2. Len(s) \in Nat /\ DOMAIN s = 1..Len(s)
  BY <1>1, LenProperties
<1>3. Len(s) >= 1 /\ Head(s) = s[1] /\ Tail(s) \in Seq(Range(s)) /\ Len(Tail(s)) = Len(s) - 1
  <2>1. Head(s) = s[1]
    BY <1>1, <1>2
  <2>2. Len(s) # 0
    BY <1>1, EmptySeq
  <2>3. QED
    BY <1>1, <1>2, <2>1, <2>2, HeadTailProperties
<1>4. \A i \in 1..(Len(s) - 1) : Tail(s)[i] = s[i + 1]
  BY <1>1, <1>3, HeadTailProperties
<1>5. QED
  BY <1>2, <1>3, <1>4, TypedIsSeq

\* A sequence of one.
LEMMA SingleIsSeq ==
  ASSUME NEW x
  PROVE  /\ IsSeq(<<x>>) /\ Len(<<x>>) = 1 /\ DOMAIN <<x>> = 1..1
         /\ <<x>>[1] = x /\ Range(<<x>>) = {x}
PROOF
<1>1. <<x>> \in Seq({x}) /\ Len(<<x>>) = 1 /\ <<x>>[1] = x
  OBVIOUS
<1>2. IsSeq(<<x>>) /\ DOMAIN <<x>> = 1..1
  BY <1>1, TypedIsSeq
<1>3. Range(<<x>>) = {x}
  BY <1>1, <1>2 DEF Range
<1>4. QED
  BY <1>1, <1>2, <1>3

LEMMA EmptyIsSeq ==
  IsSeq(<<>>) /\ Len(<<>>) = 0 /\ DOMAIN <<>> = {} /\ Range(<<>>) = {}
PROOF
<1>1. <<>> \in Seq({}) /\ Len(<<>>) = 0 /\ DOMAIN <<>> = {}
  OBVIOUS
<1>2. QED
  BY <1>1 DEF IsSeq, Range

-----------------------------------------------------------------------------
(* The loop takes the steps it should.                                     *)

LEMMA NatProducts ==
  ASSUME NEW d \in Nat, NEW m \in Nat, NEW n \in Nat
  PROVE  /\ m * d \in Nat
         /\ (m + 1) * d = m * d + d
         /\ m <= n => m * d <= n * d
PROOF
<1>1. m * d \in Nat /\ (m + 1) * d = m * d + d
  OBVIOUS
<1>2. ASSUME m <= n PROVE m * d <= n * d
  <2>1. n - m \in Nat /\ n = m + (n - m)
    BY <1>2
  <2>2. (n - m) * d \in Nat /\ n * d = m * d + (n - m) * d
    BY <2>1
  <2>3. QED
    BY <2>2, <1>1
<1>3. QED
  BY <1>1, <1>2

\* The number of steps of length d that begin before l.
LEMMA Ceiling ==
  ASSUME NEW l \in Nat, NEW d \in Nat \ {0}, NEW n \in Nat
  PROVE  /\ (l + d - 1) \div d \in Nat
         /\ l <= n * d => (l + d - 1) \div d <= n
         /\ n > 0 /\ (n - 1) * d < l => n <= (l + d - 1) \div d
PROOF
<1> DEFINE a == l + d - 1
           q == a \div d
           r == a % d
<1>1. a \in Nat /\ d \in Nat /\ d > 0
  OBVIOUS
<1> HIDE DEF a
<1>2. q \in Nat /\ r \in Nat /\ r < d /\ a = d * q + r
  BY <1>1
<1> HIDE DEF q, r
<1>3. d * q = q * d
  BY <1>1, <1>2
<1>4. ASSUME l <= n * d PROVE q <= n
  <2>1. SUFFICES ASSUME n + 1 <= q PROVE FALSE
    BY <1>2
  <2>2. (n + 1) * d <= q * d /\ (n + 1) * d = n * d + d /\ n * d \in Nat
    BY <2>1, <1>1, <1>2, NatProducts, n + 1 \in Nat
  <2>3. a <= n * d + d - 1
    BY <1>4, <2>2 DEF a
  <2>4. q * d \in Nat /\ q * d <= a
    BY <1>1, <1>2, <1>3, NatProducts
  <2>5. QED
    BY <2>2, <2>3, <2>4, <1>1
<1>5. ASSUME n > 0, (n - 1) * d < l PROVE n <= q
  <2>1. SUFFICES ASSUME q <= n - 1 PROVE FALSE
    BY <1>2
  <2>2. n - 1 \in Nat
    BY <1>5
  <2>3. q * d <= (n - 1) * d /\ (n - 1) * d \in Nat /\ q * d \in Nat
    BY <2>1, <2>2, <1>1, <1>2, NatProducts
  <2>4. a >= (n - 1) * d + d
    BY <1>5, <2>3 DEF a
  <2>5. a = q * d + r
    BY <1>2, <1>3
  <2>6. QED
    BY <2>3, <2>4, <2>5, <1>1, <1>2
<1>6. QED
  BY <1>2, <1>4, <1>5 DEF q, a

\* Every step that was taken, or is being taken, began before the end; when
\* the loop has ended none does.
Timing ==
  /\ run \in Runs
  /\ steps \in Nat /\ current = steps * run.dt
  /\ pc \in {"start", "loop", "prefetch", "boundary", "lastbatch", "finish", "done", "failed"}
  /\ steps > 0 => More(current - run.dt, steps - 1)
  /\ pc \in {"prefetch", "boundary", "lastbatch"} => More(current, steps)
  /\ pc \in {"finish", "done"} => ~More(current, steps)

\* A run has a step, a length and a limit.
LEMMA RunTyped ==
  ASSUME run \in Runs
  PROVE  /\ run.dt \in Nat \ {0} /\ run.edt \in Nat \ {0}
         /\ run.length \in Nat /\ run.most \in Nat \cup {NoLimit} /\ NoLimit = -1
PROOF BY RunsAssumption DEF RunConfiguration, NoLimit

\* Taking a step that began before the end leaves it the last step taken.
LEMMA StepTaken ==
  ASSUME Timing, More(current, steps), UNCHANGED run,
         steps' = steps + 1, current' = current + run.dt, pc' \in {"loop", "failed"}
  PROVE  Timing'
PROOF
<1>1. run.dt \in Nat /\ steps \in Nat /\ current = steps * run.dt
  BY RunTyped DEF Timing
<1>2. (steps + 1) * run.dt = steps * run.dt + run.dt /\ steps * run.dt \in Nat
  BY <1>1, NatProducts
<1>3. steps' \in Nat /\ current' = steps' * run.dt'
  BY <1>1, <1>2
<1>4. current' - run.dt' = current /\ steps' - 1 = steps
  BY <1>1, <1>2
<1>5. More(current - run.dt, steps - 1)'
  BY <1>4 DEF More
<1>6. QED
  BY <1>3, <1>5 DEF Timing

LEMMA TimingHolds == Spec => []Timing
PROOF
<1>1. Init => Timing
  <2> SUFFICES ASSUME Init PROVE Timing
    OBVIOUS
  <2>1. run \in Runs /\ steps = 0 /\ current = 0 /\ pc = "start"
    BY DEF Init
  <2>2. 0 = 0 * run.dt
    BY <2>1, RunTyped
  <2>3. QED
    BY <2>1, <2>2 DEF Timing
<1>2. Timing /\ [Next]_vars => Timing'
  <2> SUFFICES ASSUME Timing, [Next]_vars PROVE Timing'
    OBVIOUS
  <2>1. CASE FirstForcing
    <3>1. UNCHANGED <<run, current, steps>> /\ pc' \in {"loop", "failed"}
      BY <2>1 DEF FirstForcing
    <3>2. QED
      BY <3>1 DEF Timing, More
  <2>2. CASE LoopEnds
    BY <2>2 DEF LoopEnds, Timing, More
  <2>3. CASE Finish
    BY <2>3 DEF Finish, Timing, More
  <2>4. CASE CpuStep
    <3>1. /\ More(current, steps) /\ UNCHANGED run /\ pc = "loop"
          /\ \/ steps' = steps + 1 /\ current' = current + run.dt /\ UNCHANGED pc
             \/ pc' = "failed" /\ UNCHANGED <<steps, current>>
      BY <2>4 DEF CpuStep
    <3>2. CASE pc' = "failed" /\ UNCHANGED <<steps, current>>
      BY <3>1, <3>2 DEF Timing, More
    <3>3. QED
      BY <3>1, <3>2, StepTaken
  <2>5. CASE PrepareHostStep
    <3>1. UNCHANGED <<run, current, steps>> /\ pc' \in {"loop", "failed"}
      BY <2>5 DEF PrepareHostStep
    <3>2. QED
      BY <3>1 DEF Timing, More
  <2>6. CASE LaunchStep
    <3>1. UNCHANGED <<run, current, steps>> /\ pc' = "prefetch" /\ More(current, steps)
      BY <2>6 DEF LaunchStep
    <3>2. QED
      BY <3>1 DEF Timing, More
  <2>7. CASE Prefetch
    <3>1. UNCHANGED <<run, current, steps>> /\ pc = "prefetch" /\ pc' \in {"boundary", "lastbatch"}
      BY <2>7 DEF Prefetch
    <3>2. QED
      BY <3>1 DEF Timing, More
  <2>8. CASE CompleteStep
    <3>1. /\ pc \in {"boundary", "lastbatch"} /\ UNCHANGED run
          /\ steps' = steps + 1 /\ current' = current + run.dt /\ pc' \in {"loop", "failed"}
      BY <2>8 DEF CompleteStep, StepEnds
    <3>2. QED
      BY <3>1, StepTaken DEF Timing
  <2>9. CASE DeviceRuns
    BY <2>9 DEF DeviceRuns, hostVars, Timing, More
  <2>10. CASE UNCHANGED vars
    BY <2>10 DEF vars, hostVars, Timing, More
  <2>11. QED
    BY <2>1, <2>2, <2>3, <2>4, <2>5, <2>6, <2>7, <2>8, <2>9, <2>10 DEF Next, Loop, Stopped
<1>3. QED
  BY <1>1, <1>2, PTL DEF Spec

\* For every length, step and limit: a run that is done has taken each step
\* that begins before its end, or as many as max_steps lets it (runner.py:225).
THEOREM StepsTaken == Spec => []TakesEveryStep
PROOF
<1>1. Timing => TakesEveryStep
  <2> SUFFICES ASSUME Timing, pc = "done"
               PROVE  steps = IF run.most = NoLimit THEN (run.length + run.dt - 1) \div run.dt
                              ELSE Min({(run.length + run.dt - 1) \div run.dt, run.most})
    BY DEF TakesEveryStep
  <2> DEFINE all == (run.length + run.dt - 1) \div run.dt
  <2>1. /\ run.dt \in Nat \ {0} /\ run.length \in Nat /\ steps \in Nat
        /\ run.most \in Nat \cup {-1} /\ NoLimit = -1 /\ current = steps * run.dt
    BY RunTyped DEF Timing
  <2>2. /\ all \in Nat
        /\ run.length <= steps * run.dt => all <= steps
        /\ steps > 0 /\ (steps - 1) * run.dt < run.length => steps <= all
    BY <2>1, Ceiling
  <2>3. steps > 0 => current - run.dt = (steps - 1) * run.dt
    BY <2>1
  <2>4. /\ run.length <= steps * run.dt \/ (run.most # NoLimit /\ run.most <= steps)
    <3>1. steps * run.dt \in Nat
      BY <2>1
    <3>2. QED
      BY <3>1, <2>1 DEF Timing, More
  <2>5. steps > 0 => /\ (steps - 1) * run.dt < run.length
                     /\ run.most = NoLimit \/ steps - 1 < run.most
    BY <2>1, <2>3 DEF Timing, More
  <2> HIDE DEF all
  <2>6. steps <= all /\ (run.most # NoLimit => steps <= run.most)
    <3>1. CASE steps = 0
      BY <3>1, <2>1, <2>2
    <3>2. CASE steps > 0
      <4>1. steps <= all
        BY <3>2, <2>2, <2>5
      <4>2. run.most # NoLimit => steps - 1 < run.most /\ run.most \in Nat
        BY <3>2, <2>1, <2>5
      <4>3. QED
        BY <4>1, <4>2, <2>1
    <3>3. QED
      BY <3>1, <3>2, <2>1
  <2>7. CASE run.most = NoLimit
    BY <2>7, <2>1, <2>2, <2>4, <2>6 DEF all
  <2>8. CASE run.most # NoLimit
    <3>1. run.most \in Nat /\ (steps = all \/ steps = run.most)
      BY <2>8, <2>1, <2>2, <2>4, <2>6
    <3>2. steps \in {all, run.most} /\ \A y \in {all, run.most} : steps <= y
      BY <3>1, <2>6, <2>8
    <3>3. Min({all, run.most}) = steps
      <4>1. \A x \in {all, run.most} : (\A y \in {all, run.most} : x <= y) => x = steps
        BY <3>2, <3>1, <2>1, <2>2
      <4>2. QED
        BY <3>2, <4>1 DEF Min
    <3>4. QED
      BY <3>3, <2>8 DEF all
  <2>9. QED
    BY <2>7, <2>8
<1>2. QED
  BY <1>1, TimingHolds, PTL

-----------------------------------------------------------------------------
(* What the provider and the emissions operator hand over.                 *)

\* A block that serves a record is the cached one, none, or a new object.
LEMMA EnsureIs ==
  ASSUME NEW kind, NEW cached, NEW hit, NEW index, NEW multiple, NEW days, NEW address
  PROVE  LET block == Ensure(kind, cached, hit, index, multiple, days, address)
         IN  block = cached \/ block = NoBlock \/ block.address = address
PROOF BY DEF Ensure, LoadBlock

\* A block is replaced only by an object at a free address, and a selection
\* is of the blocks that are then cached.
LEMMA ChunksAre ==
  ASSUME NEW elapsed, NEW fresh \in FreshBlocks
  PROVE  LET chunks == Chunks(elapsed, fresh)
         IN  \A kind \in Kinds :
               /\ \/ chunks.blocks[kind] = blocks[kind]
                  \/ chunks.blocks[kind].address \in Free(kind)
               /\ chunks.ok => chunks.selection[kind] = chunks.blocks[kind]
PROOF
<1>1. /\ \A kind \in Kinds : fresh[kind] \in Free(kind)
      /\ fresh["endpoint"] \in Free("i3")
  BY DEF FreshBlocks, FreshAt, Lowest, Highest
<1> DEFINE hour == HourIndex(run.initial, elapsed)
           window == WindowIndex(run.initial, elapsed)
           a1 == Ensure("a1", blocks.a1, ContainsRecord(blocks.a1, hour), hour,
                        run.multiple, run.days, fresh.a1)
           a3 == Ensure("a3", blocks.a3, ContainsRecord(blocks.a3, window), window,
                        run.multiple, run.days, fresh.a3)
           base == Ensure("i3", blocks.i3, ContainsRecord(blocks.i3, window), window,
                          run.multiple, run.days, fresh.i3)
           i3 == IF base = NoBlock THEN NoBlock
                 ELSE Ensure("i3", base, ContainsEndpoint(base, window + 1), window + 1,
                             run.multiple, run.days, fresh.endpoint)
           read == [a1 |-> a1,
                    a3 |-> IF a1 = NoBlock THEN NoBlock ELSE a3,
                    i3 |-> IF NoBlock \in {a1, a3} THEN NoBlock
                           ELSE IF i3 = NoBlock THEN base ELSE i3]
           chunks == Chunks(elapsed, fresh)
<1>2. /\ a1 = blocks.a1 \/ a1 = NoBlock \/ a1.address \in Free("a1")
      /\ a3 = blocks.a3 \/ a3 = NoBlock \/ a3.address \in Free("a3")
      /\ base = blocks.i3 \/ base = NoBlock \/ base.address \in Free("i3")
  <2> HIDE DEF hour, window
  <2>1. QED
    BY <1>1, EnsureIs DEF Kinds
<1>3. i3 = base \/ i3 = NoBlock \/ i3.address \in Free("i3")
  <2> HIDE DEF base, window
  <2>1. QED
    BY <1>1, EnsureIs
<1>4. /\ chunks.blocks = [kind \in Kinds |-> IF read[kind] = NoBlock THEN blocks[kind] ELSE read[kind]]
      /\ chunks.ok => NoBlock \notin {a1, a3, i3}
      /\ chunks.selection.a1 = a1 /\ chunks.selection.a3 = a3 /\ chunks.selection.i3 = i3
  BY DEF Chunks, ChunksForStep
<1> HIDE DEF a1, a3, base, i3, chunks
<1>5. ASSUME NEW kind \in Kinds
      PROVE  chunks.blocks[kind] = blocks[kind] \/ chunks.blocks[kind].address \in Free(kind)
  BY <1>2, <1>3, <1>4 DEF Kinds
<1>6. ASSUME NEW kind \in Kinds, chunks.ok
      PROVE  chunks.selection[kind] = chunks.blocks[kind]
  BY <1>4, <1>6 DEF Kinds
<1>7. QED
  BY <1>5, <1>6 DEF chunks

\* What a prepared step leaves in the cache and what it takes along.
LEMMA PreparedIs ==
  ASSUME NEW elapsed \in Nat, NEW prepared \in Preparations(elapsed)
  PROVE  /\ \A kind \in Kinds :
              \/ prepared.blocks[kind] = blocks[kind]
              \/ prepared.blocks[kind].address \in Free(kind)
         /\ prepared.ok =>
              /\ prepared.step # NoStep
              /\ \A kind \in Kinds : prepared.step.selection[kind] = prepared.blocks[kind]
PROOF
<1>1. PICK fresh \in FreshBlocks, address \in Addresses : prepared = Prepared(elapsed, fresh, address)
  BY DEF Preparations, Lowest, Highest
<1> DEFINE chunks == Chunks(elapsed, fresh)
<1>2. \A kind \in Kinds :
         /\ chunks.blocks[kind] = blocks[kind] \/ chunks.blocks[kind].address \in Free(kind)
         /\ chunks.ok => chunks.selection[kind] = chunks.blocks[kind]
  BY ChunksAre
<1>3. /\ prepared.blocks = chunks.blocks
      /\ prepared.ok => chunks.ok
      /\ prepared.step.selection = chunks.selection
      /\ prepared.step.timestamp = elapsed
  BY <1>1 DEF Prepared
<1> HIDE DEF chunks
<1>4. prepared.step # NoStep
  BY <1>3 DEF NoStep
<1>5. QED
  BY <1>2, <1>3, <1>4

-----------------------------------------------------------------------------
(* The host, the queue and the mirrors.                                    *)

\* The blocks of a kind that something refers to.
Members(kind) == {blocks[kind]} \cup {s[kind] : s \in Selections}

Unique(kind) == \A b, c \in Members(kind) : b.address = c.address => b.rows = c.rows

NoCopy(kind) == \A i \in DOMAIN queue : queue[i].op = "upload" => queue[i].kind # kind

\* With no copy on its way, the mirror of a block that its identity names is
\* up to date.
Settled(kind) ==
  NoCopy(kind) => \A b \in Members(kind) : b.address = identities[kind] => device[kind] = b.rows

\* Copies of blocks come before every step of a queue.
QueuedFlux(i) == queue[i].op = "upload" /\ queue[i].kind = "flux"
QueuedBlock(i) ==
  /\ queue[i].op = "upload" /\ queue[i].kind \in Kinds
  /\ queue[i].content = hostStep.selection[queue[i].kind].rows
  /\ \A j \in 1..(i - 1) : queue[j].op = "upload"
QueuedStep(i) ==
  /\ queue[i].op = "step"
  /\ \A kind \in Kinds : queue[i].selection[kind].rows = hostStep.selection[kind].rows

Fits(i) == QueuedFlux(i) \/ QueuedBlock(i) \/ QueuedStep(i)

Mirrored == \A kind \in Kinds : identities[kind] = hostStep.selection[kind].address

\* What the host knows where it is; a queue that is not empty is of steps
\* with the blocks and the flux of the step in hand.
Phases ==
  /\ queue # <<>> \/ pc \in {"prefetch", "boundary", "lastbatch"} => hostStep # NoStep /\ Mirrored
  /\ queue # <<>> /\ pc = "loop" =>
       hostStep.midpoint = -1 \/ hostStep.flux.address = active.address
  /\ pc = "start" \/ run.backend = "cpu" => hostStep = NoStep
  /\ hostStep = NoStep /\ (pc = "start" \/ (pc = "loop" /\ More(current, steps))) =>
       \A kind \in Kinds : identities[kind] = 0
  /\ pc = "boundary" /\ nextStep = NoStep => ~More(current + run.dt, steps + 1)

Kept ==
  /\ IsSeq(queue)
  /\ Kinds \subseteq DOMAIN device
  /\ \A kind \in Kinds : Unique(kind) /\ Settled(kind)
  /\ \A i \in DOMAIN queue : Fits(i)

Inputs == Timing /\ Phases /\ Kept

LEMMA KindsAre == Kinds = {"a1", "a3", "i3"} /\ "flux" \notin Kinds /\ "met" \notin Kinds
PROOF BY DEF Kinds

\* None has no address, and nothing has the address that None gets instead.
LEMMA FluxIdentityIs ==
  ASSUME NEW flux
  PROVE  FluxIdentity(flux) = flux.address
PROOF BY DEF FluxIdentity, NoFlux

\* The identities of a kind name no block that is still to be read: they are
\* 0, or name the block of the step in hand.
LEMMA IdentityTaken ==
  ASSUME NEW kind \in Kinds,
         identities[kind] = 0 \/ (hostStep # NoStep /\ Mirrored)
  PROVE  identities[kind] \notin Free(kind)
PROOF
<1>1. CASE identities[kind] = 0
  BY <1>1, AddressesAssumption DEF Free
<1>2. CASE hostStep # NoStep /\ Mirrored
  BY <1>2 DEF Free, LiveBlocks, Selections, Mirrored
<1>3. QED
  BY <1>1, <1>2

\* Reading a block disturbs neither the blocks that are referred to nor the
\* mirrors.
LEMMA Allocate ==
  ASSUME NEW kind \in Kinds, Unique(kind), Settled(kind),
         identities[kind] \notin Free(kind),
         Members(kind)' \subseteq Members(kind) \cup {blocks'[kind]},
         blocks'[kind] = blocks[kind] \/ blocks'[kind].address \in Free(kind),
         UNCHANGED <<queue, identities, device>>
  PROVE  Unique(kind)' /\ Settled(kind)'
PROOF
<1>1. CASE blocks'[kind] = blocks[kind]
  <2>1. Members(kind)' \subseteq Members(kind)
    BY <1>1 DEF Members
  <2>2. QED
    BY <2>1 DEF Unique, Settled, NoCopy
<1>2. CASE blocks'[kind].address \in Free(kind)
  <2>1. \A b \in Members(kind) : b.address # blocks'[kind].address
    BY <1>2 DEF Free, LiveBlocks, Members
  <2>2. blocks'[kind].address # identities[kind]
    BY <1>2
  <2>3. Unique(kind)'
    BY <2>1 DEF Unique
  <2>4. Settled(kind)'
    BY <2>2 DEF Settled, NoCopy
  <2>5. QED
    BY <2>3, <2>4
<1>3. QED
  BY <1>1, <1>2

\* With the queue, the identities and what the device holds as they were, and
\* no more blocks referred to, nothing changes for the mirrors.
LEMMA NothingRead ==
  ASSUME NEW kind \in Kinds, Unique(kind), Settled(kind),
         Members(kind)' \subseteq Members(kind),
         UNCHANGED <<queue, identities, device>>
  PROVE  Unique(kind)' /\ Settled(kind)'
PROOF BY DEF Unique, Settled, NoCopy

\* The copies that a step needs.
LEMMA UploadsAre ==
  ASSUME NEW selection, NEW flux
  PROVE  LET uploads == Uploads(selection, flux)
         IN  /\ IsSeq(uploads)
             /\ \A u \in Range(uploads) :
                  /\ u.op = "upload"
                  /\ \/ u.kind = "flux" /\ UploadFlux(flux) /\ u.content = FluxSum(flux)
                     \/ /\ u.kind \in Kinds /\ UploadChunk(selection, u.kind)
                        /\ u.content = selection[u.kind].rows
             /\ \A kind \in Kinds : UploadChunk(selection, kind) =>
                  \E u \in Range(uploads) : u.kind = kind
             /\ UploadFlux(flux) => \E u \in Range(uploads) : u.kind = "flux"
PROOF
<1> DEFINE Copy(kind) == [op |-> "upload", kind |-> kind, content |-> selection[kind].rows]
           Chunk(kind) == IF UploadChunk(selection, kind) THEN <<Copy(kind)>> ELSE <<>>
           copy == [op |-> "upload", kind |-> "flux", content |-> FluxSum(flux)]
           last == IF UploadFlux(flux) THEN <<copy>> ELSE <<>>
           uploads == Uploads(selection, flux)
<1>1. uploads = Chunk("a1") \o Chunk("a3") \o Chunk("i3") \o last
  BY DEF Uploads
<1>2. ASSUME NEW kind
      PROVE  /\ IsSeq(Chunk(kind))
             /\ Range(Chunk(kind)) = IF UploadChunk(selection, kind) THEN {Copy(kind)} ELSE {}
  BY SingleIsSeq, EmptyIsSeq
<1>3. IsSeq(last) /\ Range(last) = IF UploadFlux(flux) THEN {copy} ELSE {}
  BY SingleIsSeq, EmptyIsSeq
<1>4. /\ IsSeq(uploads)
      /\ Range(uploads) = Range(Chunk("a1")) \cup Range(Chunk("a3")) \cup Range(Chunk("i3"))
                          \cup Range(last)
  <2> HIDE DEF Chunk, last, uploads
  <2>1. /\ IsSeq(Chunk("a1") \o Chunk("a3"))
        /\ Range(Chunk("a1") \o Chunk("a3")) = Range(Chunk("a1")) \cup Range(Chunk("a3"))
    BY <1>2, ConcatIsSeq
  <2> DEFINE two == Chunk("a1") \o Chunk("a3")
  <2> HIDE DEF two
  <2>2. IsSeq(two \o Chunk("i3")) /\ Range(two \o Chunk("i3")) = Range(two) \cup Range(Chunk("i3"))
    BY <1>2, <2>1, ConcatIsSeq DEF two
  <2> DEFINE three == two \o Chunk("i3")
  <2> HIDE DEF three
  <2>3. IsSeq(three \o last) /\ Range(three \o last) = Range(three) \cup Range(last)
    BY <1>3, <2>2, ConcatIsSeq DEF three
  <2>4. QED
    BY <1>1, <2>1, <2>2, <2>3 DEF two, three
<1>6. \A kind : /\ Copy(kind).op = "upload" /\ Copy(kind).kind = kind
                /\ Copy(kind).content = selection[kind].rows
  OBVIOUS
<1>7. copy.op = "upload" /\ copy.kind = "flux" /\ copy.content = FluxSum(flux)
  OBVIOUS
<1> HIDE DEF Copy, Chunk, copy, last, uploads
<1>8. \A u \in Range(uploads) :
        \/ u = copy /\ UploadFlux(flux)
        \/ \E kind \in Kinds : UploadChunk(selection, kind) /\ u = Copy(kind)
  BY <1>2, <1>3, <1>4 DEF Kinds
<1>9. \A kind \in Kinds : UploadChunk(selection, kind) => Copy(kind) \in Range(uploads)
  BY <1>2, <1>4 DEF Kinds
<1>10. UploadFlux(flux) => copy \in Range(uploads)
  BY <1>3, <1>4
<1>11. QED
  BY <1>4, <1>6, <1>7, <1>8, <1>9, <1>10 DEF uploads

\* Nothing in the queue says anything of the blocks that are cached.
LEMMA QueueStays ==
  ASSUME \A i \in DOMAIN queue : Fits(i),
         UNCHANGED <<queue, identities>>,
         queue # <<>> => UNCHANGED <<hostStep, active>>
  PROVE  \A i \in DOMAIN queue' : Fits(i)'
PROOF
<1> SUFFICES ASSUME NEW i \in DOMAIN queue PROVE Fits(i)'
  OBVIOUS
<1>1. UNCHANGED <<hostStep, active>>
  BY EmptyIsSeq
<1>2. QED
  BY <1>1 DEF Fits, QueuedFlux, QueuedBlock, QueuedStep

\* The host reads for a step: before the loop, for a step in hand or ahead.
LEMMA HostReads ==
  ASSUME Inputs,
         \A kind \in Kinds : identities[kind] = 0 \/ (hostStep # NoStep /\ Mirrored),
         \A kind \in Kinds :
           /\ Members(kind)' \subseteq Members(kind) \cup {blocks'[kind]}
           /\ blocks'[kind] = blocks[kind] \/ blocks'[kind].address \in Free(kind),
         queue # <<>> => UNCHANGED hostStep,
         UNCHANGED <<queue, identities, device, active>>
  PROVE  Kept'
PROOF
<1>1. \A kind \in Kinds : Unique(kind)' /\ Settled(kind)'
  BY IdentityTaken, Allocate DEF Inputs, Kept
<1>2. \A i \in DOMAIN queue' : Fits(i)'
  BY QueueStays DEF Inputs, Kept
<1>3. QED
  BY <1>1, <1>2 DEF Inputs, Kept

LEMMA FirstForcingKeeps ==
  ASSUME Inputs, FirstForcing
  PROVE  Phases' /\ Kept'
PROOF
<1>1. /\ pc = "start" /\ pc' \in {"loop", "failed"}
      /\ UNCHANGED <<run, current, steps, active, hostStep, nextStep, identities, queue, device>>
  BY DEF FirstForcing
<1>2. PICK fresh \in FreshBlocks : blocks' = Chunks(0, fresh).blocks
  BY DEF FirstForcing
<1>3. hostStep = NoStep /\ queue = <<>> /\ \A kind \in Kinds : identities[kind] = 0
  BY <1>1 DEF Inputs, Phases
<1>4. \A kind \in Kinds :
        /\ blocks'[kind] = blocks[kind] \/ blocks'[kind].address \in Free(kind)
        /\ Members(kind)' \subseteq Members(kind) \cup {blocks'[kind]}
  BY <1>1, <1>2, ChunksAre DEF Members, Selections
<1>5. Kept'
  BY <1>1, <1>3, <1>4, HostReads
<1>6. Phases'
  BY <1>1, <1>3 DEF Phases
<1>7. QED
  BY <1>5, <1>6

\* The loop ends, or the run does.
LEMMA EndKeeps ==
  ASSUME Inputs, LoopEnds \/ Finish
  PROVE  Phases' /\ Kept'
PROOF
<1>1. /\ pc' \in {"finish", "done"}
      /\ UNCHANGED <<run, current, steps, blocks, active, hostStep, nextStep, identities,
                     queue, device>>
  BY DEF LoopEnds, Finish
<1>2. \A kind \in Kinds : Unique(kind)' /\ Settled(kind)'
  <2>1. \A kind \in Kinds : Members(kind)' \subseteq Members(kind)
    BY <1>1 DEF Members, Selections
  <2>2. QED
    BY <1>1, <2>1, NothingRead DEF Inputs, Kept
<1>3. Kept'
  BY <1>1, <1>2, QueueStays DEF Inputs, Kept
<1>4. Phases'
  BY <1>1 DEF Inputs, Phases, Mirrored
<1>5. QED
  BY <1>3, <1>4

LEMMA TimesAre ==
  ASSUME Timing
  PROVE  current \in Nat /\ current + run.dt \in Nat
PROOF
<1>1. run.dt \in Nat /\ steps \in Nat /\ current = steps * run.dt
  BY RunTyped DEF Timing
<1>2. steps * run.dt \in Nat
  BY <1>1, NatProducts
<1>3. QED
  BY <1>1, <1>2

LEMMA CpuStepKeeps ==
  ASSUME Inputs, CpuStep
  PROVE  Phases' /\ Kept'
PROOF
<1>1. /\ pc = "loop" /\ run.backend = "cpu" /\ More(current, steps) /\ pc' \in {"loop", "failed"}
      /\ UNCHANGED <<run, hostStep, nextStep, identities, queue, device>>
  BY DEF CpuStep
<1>2. PICK prepared \in Preparations(current) : blocks' = prepared.blocks
  BY DEF CpuStep
<1>3. hostStep = NoStep /\ queue = <<>> /\ \A kind \in Kinds : identities[kind] = 0
  BY <1>1 DEF Inputs, Phases
<1>4. \A kind \in Kinds :
        /\ blocks'[kind] = blocks[kind] \/ blocks'[kind].address \in Free(kind)
        /\ Members(kind)' \subseteq Members(kind) \cup {blocks'[kind]}
  BY <1>1, <1>2, TimesAre, PreparedIs DEF Members, Selections, Inputs
<1>5. \A kind \in Kinds : Unique(kind)' /\ Settled(kind)'
  BY <1>1, <1>3, <1>4, IdentityTaken, Allocate DEF Inputs, Kept
<1>6. Kept'
  BY <1>1, <1>3, <1>5, EmptyIsSeq DEF Inputs, Kept
<1>7. Phases'
  BY <1>1, <1>3 DEF Phases
<1>8. QED
  BY <1>6, <1>7

LEMMA PrepareHostStepKeeps ==
  ASSUME Inputs, PrepareHostStep
  PROVE  Phases' /\ Kept'
PROOF
<1>1. /\ pc = "loop" /\ run.backend = "cuda" /\ More(current, steps) /\ hostStep = NoStep
      /\ pc' \in {"loop", "failed"}
      /\ UNCHANGED <<run, current, steps, active, nextStep, identities, queue, device>>
  BY DEF PrepareHostStep
<1>2. PICK prepared \in Preparations(current) :
        /\ blocks' = prepared.blocks
        /\ IF prepared.ok THEN hostStep' = prepared.step /\ UNCHANGED pc
           ELSE pc' = "failed" /\ UNCHANGED hostStep
  BY DEF PrepareHostStep
<1>3. queue = <<>> /\ \A kind \in Kinds : identities[kind] = 0
  BY <1>1 DEF Inputs, Phases
<1>4. \A kind \in Kinds :
        /\ blocks'[kind] = blocks[kind] \/ blocks'[kind].address \in Free(kind)
        /\ prepared.ok => prepared.step.selection[kind] = blocks'[kind]
  BY <1>2, TimesAre, PreparedIs DEF Inputs
<1>5. \A kind \in Kinds : Members(kind)' \subseteq Members(kind) \cup {blocks'[kind]}
  BY <1>1, <1>2, <1>4 DEF Members, Selections
<1>6. Kept'
  BY <1>1, <1>3, <1>4, <1>5, HostReads
<1>7. Phases'
  BY <1>1, <1>3 DEF Phases
<1>8. QED
  BY <1>6, <1>7

LEMMA PrefetchKeeps ==
  ASSUME Inputs, Prefetch
  PROVE  Phases' /\ Kept'
PROOF
<1>1. /\ pc = "prefetch" /\ pc' \in {"boundary", "lastbatch"}
      /\ UNCHANGED <<run, current, steps, active, hostStep, identities, queue, device>>
  BY DEF Prefetch
<1>2. hostStep # NoStep /\ Mirrored /\ run.backend # "cpu"
  BY <1>1 DEF Inputs, Phases
<1>3. /\ \A kind \in Kinds :
           /\ blocks'[kind] = blocks[kind] \/ blocks'[kind].address \in Free(kind)
           /\ nextStep' # NoStep => nextStep'.selection[kind] = blocks'[kind]
      /\ pc' = "boundary" /\ nextStep' = NoStep => ~More(current + run.dt, steps + 1)
  <2>1. CASE More(current + run.dt, steps + 1)
    <3>1. PICK prepared \in Preparations(current + run.dt) :
            /\ blocks' = prepared.blocks
            /\ nextStep' = IF prepared.ok THEN prepared.step ELSE NoStep
            /\ pc' = IF prepared.ok THEN "boundary" ELSE "lastbatch"
      BY <2>1 DEF Prefetch
    <3>2. QED
      BY <3>1, TimesAre, PreparedIs DEF Inputs
  <2>2. CASE ~More(current + run.dt, steps + 1)
    <3>1. nextStep' = NoStep /\ UNCHANGED blocks
      BY <2>2 DEF Prefetch
    <3>2. QED
      BY <3>1, <2>2
  <2>3. QED
    BY <2>1, <2>2
<1>4. \A kind \in Kinds : Members(kind)' \subseteq Members(kind) \cup {blocks'[kind]}
  BY <1>1, <1>3 DEF Members, Selections
<1>5. Kept'
  BY <1>1, <1>2, <1>3, <1>4, HostReads
<1>6. Phases'
  <2>1. (hostStep # NoStep /\ Mirrored)'
    BY <1>1, <1>2 DEF Mirrored
  <2>2. (pc = "boundary" /\ nextStep = NoStep => ~More(current + run.dt, steps + 1))'
    BY <1>1, <1>3 DEF More
  <2>3. QED
    BY <1>1, <1>2, <2>1, <2>2 DEF Phases
<1>7. QED
  BY <1>5, <1>6

\* A queue with copies and a step behind it.
LEMMA LongerQueue ==
  ASSUME NEW s, NEW t, NEW u, NEW w, w = s \o t \o u, IsSeq(s), IsSeq(t), IsSeq(u)
  PROVE  /\ IsSeq(w) /\ Len(s) \in Nat /\ Len(t) \in Nat
         /\ DOMAIN s = 1..Len(s) /\ DOMAIN t = 1..Len(t)
         /\ DOMAIN w = 1..(Len(s) + Len(t) + Len(u))
         /\ \A i \in 1..Len(s) : w[i] = s[i]
         /\ \A i \in 1..Len(t) : w[Len(s) + i] = t[i]
         /\ \A i \in 1..Len(u) : w[Len(s) + Len(t) + i] = u[i]
PROOF
<1> DEFINE two == s \o t
<1>1. /\ IsSeq(two) /\ Len(s) \in Nat /\ Len(t) \in Nat /\ DOMAIN two = 1..(Len(s) + Len(t))
      /\ \A i \in 1..Len(s) : two[i] = s[i]
      /\ \A i \in 1..Len(t) : two[Len(s) + i] = t[i]
  BY ConcatIsSeq
<1>2. DOMAIN s = 1..Len(s) /\ DOMAIN t = 1..Len(t)
  BY TypedIsSeq DEF IsSeq
<1> HIDE DEF two
<1>3. Len(two) = Len(s) + Len(t)
  <2>1. Len(two) \in Nat /\ DOMAIN two = 1..Len(two)
    BY <1>1, TypedIsSeq DEF IsSeq
  <2>2. \A a, b \in Nat : 1..a = 1..b => a = b
    <3> SUFFICES ASSUME NEW a \in Nat, NEW b \in Nat, 1..a = 1..b PROVE a = b
      OBVIOUS
    <3>1. a <= b
      <4>1. a = 0 \/ a \in 1..b
        OBVIOUS
      <4>2. QED
        BY <4>1
    <3>2. b <= a
      <4>1. b = 0 \/ b \in 1..a
        OBVIOUS
      <4>2. QED
        BY <4>1
    <3>3. QED
      BY <3>1, <3>2
  <2>3. QED
    BY <1>1, <2>1, <2>2
<1>4. /\ IsSeq(two \o u) /\ Len(u) \in Nat
      /\ DOMAIN (two \o u) = 1..(Len(two) + Len(u))
      /\ \A i \in 1..Len(two) : (two \o u)[i] = two[i]
      /\ \A i \in 1..Len(u) : (two \o u)[Len(two) + i] = u[i]
  BY <1>1, ConcatIsSeq
<1>5. \A i \in 1..Len(s) : (two \o u)[i] = s[i]
  BY <1>1, <1>3, <1>4
<1>6. ASSUME NEW i \in 1..Len(t) PROVE (two \o u)[Len(s) + i] = t[i]
  <2>1. Len(s) + i \in 1..Len(two)
    BY <1>1, <1>3
  <2>2. QED
    BY <1>1, <1>4, <2>1
<1>7. QED
  BY <1>1, <1>2, <1>3, <1>4, <1>5, <1>6 DEF two

LEMMA LaunchStepKeeps ==
  ASSUME Inputs, LaunchStep
  PROVE  Phases' /\ Kept'
PROOF
<1> DEFINE selection == hostStep.selection
           uploads == Uploads(selection, active')
           op == [op |-> "step", step |-> steps, selection |-> selection]
           n == Len(queue)
           m == Len(uploads)
<1>1. /\ pc = "loop" /\ run.backend = "cuda" /\ hostStep # NoStep /\ pc' = "prefetch"
      /\ active' = IF hostStep.midpoint = -1 THEN active ELSE hostStep.flux
      /\ queue' = queue \o uploads \o <<op>>
      /\ UNCHANGED <<run, current, steps, blocks, hostStep, nextStep, device>>
  BY DEF LaunchStep, Activate
<1>2. \A kind \in Kinds : identities'[kind] = selection[kind].address
  BY KindsAre DEF LaunchStep
<1>3. queue # <<>> =>
        /\ active'.address = active.address
        /\ \A kind \in Kinds : identities'[kind] = identities[kind] /\ ~UploadChunk(selection, kind)
  BY <1>1, <1>2 DEF Inputs, Phases, Mirrored, UploadChunk
<1>4. /\ IsSeq(uploads)
      /\ \A u \in Range(uploads) :
           /\ u.op = "upload"
           /\ \/ u.kind = "flux"
              \/ /\ u.kind \in Kinds /\ UploadChunk(selection, u.kind)
                 /\ u.content = selection[u.kind].rows
      /\ \A kind \in Kinds : UploadChunk(selection, kind) => \E u \in Range(uploads) : u.kind = kind
  BY UploadsAre
<1> HIDE DEF uploads
<1>5. /\ IsSeq(queue') /\ n \in Nat /\ m \in Nat
      /\ DOMAIN queue = 1..n /\ DOMAIN uploads = 1..m /\ DOMAIN queue' = 1..(n + m + 1)
      /\ \A i \in 1..n : queue'[i] = queue[i]
      /\ \A i \in 1..m : queue'[n + i] = uploads[i] /\ uploads[i] \in Range(uploads)
      /\ queue'[n + m + 1] = op
  <2>1. IsSeq(queue) /\ IsSeq(uploads)
    BY <1>4 DEF Inputs, Kept
  <2> DEFINE last == <<op>>
  <2>2. IsSeq(last)
    BY SingleIsSeq
  <2>3. Len(last) = 1 /\ last[1] = op
    BY SingleIsSeq
  <2>4. queue' = queue \o uploads \o last
    BY <1>1
  <2> HIDE DEF last, op
  <2>5. /\ IsSeq(queue') /\ Len(queue) \in Nat /\ Len(uploads) \in Nat
        /\ DOMAIN queue = 1..Len(queue) /\ DOMAIN uploads = 1..Len(uploads)
        /\ DOMAIN queue' = 1..(Len(queue) + Len(uploads) + Len(last))
        /\ \A i \in 1..Len(queue) : queue'[i] = queue[i]
        /\ \A i \in 1..Len(uploads) : queue'[Len(queue) + i] = uploads[i]
        /\ \A i \in 1..Len(last) : queue'[Len(queue) + Len(uploads) + i] = last[i]
    <3>1. IsSeq(queue') /\ Len(queue) \in Nat /\ Len(uploads) \in Nat
      BY <2>1, <2>2, <2>4, LongerQueue
    <3>2. DOMAIN queue = 1..Len(queue) /\ DOMAIN uploads = 1..Len(uploads)
      BY <2>1, <2>2, <2>4, LongerQueue
    <3>3. DOMAIN queue' = 1..(Len(queue) + Len(uploads) + Len(last))
      BY <2>1, <2>2, <2>4, LongerQueue
    <3>4. \A i \in 1..Len(queue) : queue'[i] = queue[i]
      BY <2>1, <2>2, <2>4, LongerQueue
    <3>5. \A i \in 1..Len(uploads) : queue'[Len(queue) + i] = uploads[i]
      BY <2>1, <2>2, <2>4, LongerQueue
    <3>6. \A i \in 1..Len(last) : queue'[Len(queue) + Len(uploads) + i] = last[i]
      BY <2>1, <2>2, <2>4, LongerQueue
    <3>7. QED
      BY <3>1, <3>2, <3>3, <3>4, <3>5, <3>6
  <2>6. queue'[Len(queue) + Len(uploads) + 1] = op
    BY <2>3, <2>5
  <2>7. \A i \in 1..Len(uploads) : uploads[i] \in Range(uploads)
    BY <2>5 DEF Range
  <2>8. QED
    BY <2>3, <2>5, <2>6, <2>7
<1>6. op.op = "step" /\ op.selection = selection
  OBVIOUS
<1> HIDE DEF op, n, m
<1>7. ASSUME NEW i \in 1..n PROVE Fits(i)'
  <2>1. queue'[i] = queue[i] /\ Fits(i) /\ queue # <<>>
    BY <1>5, EmptyIsSeq DEF Inputs, Kept
  <2>2. CASE QueuedFlux(i)
    BY <1>3, <2>1, <2>2 DEF QueuedFlux, Fits
  <2>3. CASE QueuedBlock(i)
    <3>1. \A j \in 1..(i - 1) : queue'[j] = queue[j]
      <4>1. \A j \in 1..(i - 1) : j \in 1..n
        BY <1>5
      <4>2. QED
        BY <1>5, <4>1
    <3>2. QueuedBlock(i)'
      BY <1>1, <1>3, <2>1, <2>3, <3>1 DEF QueuedBlock
    <3>3. QED
      BY <3>2 DEF Fits
  <2>4. CASE QueuedStep(i)
    BY <1>1, <2>1, <2>4 DEF QueuedStep, Fits
  <2>5. QED
    BY <2>1, <2>2, <2>3, <2>4 DEF Fits
<1>8. ASSUME NEW i, NEW j \in 1..m, i = n + j PROVE Fits(i)'
  <2>1. queue'[i] = uploads[j] /\ uploads[j] \in Range(uploads)
    BY <1>5, <1>8
  <2>2. CASE uploads[j].kind = "flux"
    BY <1>4, <2>1, <2>2 DEF Fits, QueuedFlux
  <2>3. CASE /\ uploads[j].kind \in Kinds /\ UploadChunk(selection, uploads[j].kind)
             /\ uploads[j].content = selection[uploads[j].kind].rows
    <3>1. n = 0
      <4>1. queue = <<>>
        BY <1>3, <2>3
      <4>2. QED
        BY <4>1, EmptyIsSeq DEF n
    <3>2. \A l \in 1..(i - 1) : queue'[l].op = "upload"
      <4> SUFFICES ASSUME NEW l \in 1..(i - 1) PROVE queue'[l].op = "upload"
        OBVIOUS
      <4>1. l \in 1..m /\ n + l = l
        BY <3>1, <1>5, <1>8
      <4>2. queue'[l] = uploads[l] /\ uploads[l] \in Range(uploads)
        BY <1>5, <4>1
      <4>3. QED
        BY <1>4, <4>2
    <3>3. /\ queue'[i].op = "upload" /\ queue'[i].kind \in Kinds
          /\ queue'[i].content = hostStep'.selection[queue'[i].kind].rows
      BY <1>1, <1>2, <1>4, <2>1, <2>3
    <3>4. QueuedBlock(i)'
      BY <3>2, <3>3 DEF QueuedBlock
    <3>5. QED
      BY <3>4 DEF Fits
  <2>4. QED
    BY <1>4, <2>1, <2>2, <2>3
<1>9. ASSUME NEW i, i = n + m + 1 PROVE Fits(i)'
  <2>1. queue'[i].op = "step" /\ queue'[i].selection = hostStep'.selection
    BY <1>1, <1>5, <1>6, <1>9
  <2>2. QED
    BY <2>1 DEF Fits, QueuedStep
<1>10. \A i \in DOMAIN queue' : Fits(i)'
  <2> SUFFICES ASSUME NEW i \in 1..(n + m + 1) PROVE Fits(i)'
    BY <1>5
  <2>1. i \in 1..n \/ i - n \in 1..m \/ i = n + m + 1
    BY <1>5
  <2>2. CASE i - n \in 1..m
    <3>1. PICK j \in 1..m : i = n + j
      <4>1. i = n + (i - n)
        BY <1>5
      <4>2. QED
        BY <2>2, <4>1
    <3>2. QED
      BY <1>8, <3>1
  <2>3. QED
    BY <1>7, <1>9, <2>1, <2>2
<1>11. ASSUME NEW kind \in Kinds PROVE Unique(kind)' /\ Settled(kind)'
  <2>1. Members(kind)' = Members(kind)
    BY <1>1 DEF Members, Selections
  <2>2. Unique(kind)'
    BY <2>1 DEF Unique, Inputs, Kept
  <2>3. ASSUME NoCopy(kind)' PROVE ~UploadChunk(selection, kind) /\ NoCopy(kind)
    <3>1. ASSUME UploadChunk(selection, kind) PROVE FALSE
      <4>1. PICK u \in Range(uploads) : u.kind = kind
        BY <1>4, <3>1
      <4>2. PICK j \in 1..m : uploads[j] = u
        BY <1>5 DEF Range
      <4>3. queue'[n + j] = u /\ n + j \in DOMAIN queue'
        BY <1>5, <4>2
      <4>4. u.op = "upload"
        BY <1>4
      <4>5. QED
        BY <2>3, <4>1, <4>3, <4>4 DEF NoCopy
    <3>2. NoCopy(kind)
      BY <2>3, <1>5 DEF NoCopy
    <3>3. QED
      BY <3>1, <3>2
  <2>4. Settled(kind)'
    <3> SUFFICES ASSUME NoCopy(kind)'
                 PROVE \A b \in Members(kind)' :
                         b.address = identities'[kind] => device'[kind] = b.rows
      BY DEF Settled
    <3>1. identities'[kind] = identities[kind]
      BY <1>2, <2>3 DEF UploadChunk
    <3>2. QED
      BY <1>1, <2>1, <2>3, <3>1 DEF Settled, Inputs, Kept
  <2>5. QED
    BY <2>2, <2>4
<1>12. Kept'
  BY <1>1, <1>5, <1>10, <1>11 DEF Inputs, Kept
<1>13. Phases'
  <2>1. (hostStep # NoStep /\ Mirrored)' /\ run'.backend # "cpu"
    BY <1>1, <1>2 DEF Mirrored
  <2>2. QED
    BY <1>1, <2>1 DEF Phases
<1>14. QED
  BY <1>12, <1>13

LEMMA CompleteStepKeeps ==
  ASSUME Inputs, CompleteStep
  PROVE  Phases' /\ Kept'
PROOF
<1>1. /\ pc \in {"boundary", "lastbatch"} /\ pc' \in {"loop", "failed"}
      /\ steps' = steps + 1 /\ current' = current + run.dt /\ nextStep' = NoStep
      /\ UNCHANGED <<run, blocks, active, identities, queue, device>>
  BY DEF CompleteStep, StepEnds
<1>2. hostStep # NoStep /\ Mirrored /\ run.backend # "cpu"
  BY <1>1 DEF Inputs, Phases
<1>3. \/ pc' = "failed" /\ UNCHANGED hostStep /\ queue = <<>>
      \/ /\ pc = "boundary" /\ pc' = "loop" /\ hostStep' = nextStep
         /\ \E other \in BOOLEAN : EndsBatch(other) => queue = <<>>
  <2>1. CASE pc = "boundary"
    <3>1. PICK other \in BOOLEAN : StepEnds(EndsBatch(other), FALSE)
      BY <2>1 DEF CompleteStep
    <3>2. pc' = "loop" /\ hostStep' = nextStep /\ (EndsBatch(other) => queue = <<>>)
      BY <3>1 DEF StepEnds, Synchronized
    <3>3. QED
      BY <2>1, <3>2
  <2>2. CASE pc = "lastbatch"
    <3>1. StepEnds(TRUE, TRUE)
      BY <2>2 DEF CompleteStep
    <3>2. QED
      BY <3>1 DEF StepEnds, Synchronized
  <2>3. QED
    BY <1>1, <2>1, <2>2
<1>4. queue # <<>> =>
        /\ hostStep' = nextStep /\ nextStep # NoStep
        /\ nextStep.midpoint = -1 \/ nextStep.flux.address = active.address
        /\ \A kind \in Kinds :
             hostStep.selection[kind].address = nextStep.selection[kind].address
  BY <1>3, FluxIdentityIs DEF EndsBatch
<1>5. ASSUME queue # <<>>, NEW kind \in Kinds
      PROVE  hostStep'.selection[kind].rows = hostStep.selection[kind].rows
  <2>1. hostStep.selection[kind] \in Members(kind) /\ nextStep.selection[kind] \in Members(kind)
    BY <1>2, <1>4, <1>5 DEF Members, Selections
  <2>2. QED
    BY <1>4, <1>5, <2>1 DEF Unique, Inputs, Kept
<1>6. \A kind \in Kinds : Unique(kind)' /\ Settled(kind)'
  <2>1. \A kind \in Kinds : Members(kind)' \subseteq Members(kind)
    BY <1>1, <1>3 DEF Members, Selections
  <2>2. QED
    BY <1>1, <2>1, NothingRead DEF Inputs, Kept
<1>7. \A i \in DOMAIN queue' : Fits(i)'
  <2> SUFFICES ASSUME NEW i \in DOMAIN queue PROVE Fits(i)'
    BY <1>1
  <2>1. queue # <<>> /\ Fits(i)
    BY EmptyIsSeq DEF Inputs, Kept
  <2>2. CASE QueuedFlux(i)
    BY <1>1, <2>2 DEF QueuedFlux, Fits
  <2>3. CASE QueuedBlock(i)
    BY <1>1, <1>5, <2>1, <2>3 DEF QueuedBlock, Fits
  <2>4. CASE QueuedStep(i)
    BY <1>1, <1>5, <2>1, <2>4 DEF QueuedStep, Fits
  <2>5. QED
    BY <2>1, <2>2, <2>3, <2>4 DEF Fits
<1>8. Kept'
  BY <1>1, <1>6, <1>7 DEF Inputs, Kept
<1>9. Phases'
  <2>1. queue' # <<>> => (hostStep # NoStep /\ Mirrored)'
    BY <1>1, <1>2, <1>4 DEF Mirrored
  <2>2. queue' # <<>> => hostStep'.midpoint = -1 \/ hostStep'.flux.address = active'.address
    BY <1>1, <1>4
  <2>3. hostStep' = NoStep => pc' = "failed" \/ ~More(current + run.dt, steps + 1)
    BY <1>2, <1>3 DEF Inputs, Phases
  <2>4. hostStep' = NoStep => pc' = "failed" \/ ~More(current, steps)'
    BY <1>1, <2>3 DEF More
  <2>5. QED
    BY <1>1, <1>2, <2>1, <2>2, <2>4 DEF Phases
<1>10. QED
  BY <1>8, <1>9

LEMMA DeviceRunsKeeps ==
  ASSUME Inputs, DeviceRuns
  PROVE  Phases' /\ Kept'
PROOF
<1> DEFINE n == Len(queue)
           op == Head(queue)
<1>1. /\ queue # <<>> /\ queue' = Tail(queue)
      /\ IF op.op = "upload" THEN device' = [device EXCEPT ![op.kind] = op.content]
         ELSE \E seen : device' = [device EXCEPT !.met = seen]
      /\ UNCHANGED <<run, pc, current, steps, blocks, active, hostStep, nextStep, identities>>
  BY DEF DeviceRuns, hostVars
<1>2. hostStep # NoStep /\ Mirrored
  BY <1>1 DEF Inputs, Phases
<1>3. /\ IsSeq(queue') /\ n \in Nat /\ n >= 1 /\ DOMAIN queue = 1..n /\ op = queue[1]
      /\ DOMAIN queue' = 1..(n - 1)
      /\ \A i \in 1..(n - 1) : queue'[i] = queue[i + 1]
  BY <1>1, TailIsSeq DEF Inputs, Kept
<1> HIDE DEF n, op
<1>4. ASSUME NEW i \in 1..(n - 1) PROVE Fits(i)'
  <2>1. i + 1 \in 1..n /\ queue'[i] = queue[i + 1]
    BY <1>3
  <2>2. Fits(i + 1)
    BY <1>3, <2>1 DEF Inputs, Kept
  <2>3. CASE QueuedFlux(i + 1)
    BY <1>1, <2>1, <2>3 DEF QueuedFlux, Fits
  <2>4. CASE QueuedBlock(i + 1)
    <3>1. \A j \in 1..(i - 1) : queue'[j].op = "upload"
      <4> SUFFICES ASSUME NEW j \in 1..(i - 1) PROVE queue'[j].op = "upload"
        OBVIOUS
      <4>1. j \in 1..(n - 1) /\ j + 1 \in 1..(i + 1 - 1)
        BY <1>3
      <4>2. queue[j + 1].op = "upload" /\ queue'[j] = queue[j + 1]
        BY <1>3, <2>4, <4>1 DEF QueuedBlock
      <4>3. QED
        BY <4>2
    <3>2. QueuedBlock(i)'
      BY <1>1, <2>1, <2>4, <3>1 DEF QueuedBlock
    <3>3. QED
      BY <3>2 DEF Fits
  <2>5. CASE QueuedStep(i + 1)
    BY <1>1, <2>1, <2>5 DEF QueuedStep, Fits
  <2>6. QED
    BY <2>2, <2>3, <2>4, <2>5 DEF Fits
<1>5. Fits(1)
  BY <1>3 DEF Inputs, Kept
<1>6. Kinds \subseteq DOMAIN device'
  BY <1>1 DEF Inputs, Kept
<1>7. ASSUME NEW kind \in Kinds PROVE Unique(kind)' /\ Settled(kind)'
  <2>1. Members(kind)' = Members(kind)
    BY <1>1 DEF Members, Selections
  <2>2. Unique(kind)'
    BY <2>1 DEF Unique, Inputs, Kept
  <2>3. CASE op.op = "upload" /\ op.kind = kind
    <3>1. QueuedBlock(1)
      BY <1>3, <1>5, <2>3, KindsAre DEF Fits, QueuedFlux, QueuedStep
    <3>2. device'[kind] = hostStep.selection[kind].rows
      BY <1>1, <1>3, <2>3, <3>1 DEF QueuedBlock, Inputs, Kept
    <3>3. hostStep.selection[kind] \in Members(kind) /\
          hostStep.selection[kind].address = identities[kind]
      BY <1>2 DEF Members, Selections, Mirrored
    <3>4. \A b \in Members(kind) : b.address = identities[kind] => device'[kind] = b.rows
      BY <3>2, <3>3 DEF Unique, Inputs, Kept
    <3>5. QED
      BY <1>1, <2>1, <2>2, <3>4 DEF Settled
  <2>4. CASE ~(op.op = "upload" /\ op.kind = kind)
    <3>1. device'[kind] = device[kind]
      BY <1>1, <2>4, KindsAre DEF Inputs, Kept
    <3>2. ASSUME NoCopy(kind)' PROVE NoCopy(kind)
      <4> SUFFICES ASSUME NEW i \in 1..n, queue[i].op = "upload" PROVE queue[i].kind # kind
        BY <1>3 DEF NoCopy
      <4>1. CASE i = 1
        BY <1>3, <2>4, <4>1
      <4>2. CASE i # 1
        <5>1. i - 1 \in 1..(n - 1) /\ (i - 1) + 1 = i
          BY <1>3, <4>2
        <5>2. queue'[i - 1] = queue[i]
          BY <1>3, <5>1
        <5>3. QED
          BY <1>3, <3>2, <5>1, <5>2 DEF NoCopy
      <4>3. QED
        BY <4>1, <4>2
    <3>3. Settled(kind)'
      BY <1>1, <2>1, <3>1, <3>2 DEF Settled, Inputs, Kept
    <3>4. QED
      BY <2>2, <3>3
  <2>5. QED
    BY <2>3, <2>4
<1>8. Kept'
  BY <1>3, <1>4, <1>6, <1>7 DEF Kept
<1>9. Phases'
  <2>1. Mirrored'
    BY <1>1, <1>2 DEF Mirrored
  <2>2. QED
    BY <1>1, <1>2, <2>1 DEF Inputs, Phases, More
<1>10. QED
  BY <1>8, <1>9

LEMMA InputsHold == Spec => []Inputs
PROOF
<1>1. Init => Phases /\ Kept
  <2> SUFFICES ASSUME Init PROVE Phases /\ Kept
    OBVIOUS
  <2>1. /\ pc = "start" /\ hostStep = NoStep /\ nextStep = NoStep /\ queue = <<>>
        /\ blocks = [kind \in Kinds |-> NoBlock]
        /\ identities = [kind \in Kinds \cup {"flux"} |-> 0]
        /\ device = [buffer \in Kinds \cup {"flux", "met"} |-> IF buffer = "met" THEN NoUse ELSE Nothing]
    BY DEF Init
  <2>2. Phases
    BY <2>1 DEF Phases
  <2>3. IsSeq(queue) /\ DOMAIN queue = {} /\ Kinds \subseteq DOMAIN device
    BY <2>1, EmptyIsSeq
  <2>4. ASSUME NEW kind \in Kinds PROVE Unique(kind) /\ Settled(kind)
    <3>1. Members(kind) = {NoBlock}
      BY <2>1 DEF Members, Selections
    <3>2. device[kind] = NoBlock.rows
      BY <2>1, KindsAre DEF NoBlock, Nothing
    <3>3. QED
      BY <3>1, <3>2 DEF Unique, Settled
  <2>5. QED
    BY <2>2, <2>3, <2>4 DEF Kept
<1>2. Inputs /\ [Next]_vars => Phases' /\ Kept'
  <2> SUFFICES ASSUME Inputs, [Next]_vars PROVE Phases' /\ Kept'
    OBVIOUS
  <2>1. CASE FirstForcing
    BY <2>1, FirstForcingKeeps
  <2>2. CASE LoopEnds \/ Finish
    BY <2>2, EndKeeps
  <2>3. CASE CpuStep
    BY <2>3, CpuStepKeeps
  <2>4. CASE PrepareHostStep
    BY <2>4, PrepareHostStepKeeps
  <2>5. CASE LaunchStep
    BY <2>5, LaunchStepKeeps
  <2>6. CASE Prefetch
    BY <2>6, PrefetchKeeps
  <2>7. CASE CompleteStep
    BY <2>7, CompleteStepKeeps
  <2>8. CASE DeviceRuns
    BY <2>8, DeviceRunsKeeps
  <2>9. CASE UNCHANGED vars
    <3>1. UNCHANGED <<run, pc, current, steps, blocks, active, hostStep, nextStep, identities,
                      queue, device>>
      BY <2>9 DEF vars, hostVars
    <3>2. \A kind \in Kinds : Unique(kind)' /\ Settled(kind)'
      <4>1. \A kind \in Kinds : Members(kind)' \subseteq Members(kind)
        BY <3>1 DEF Members, Selections
      <4>2. QED
        BY <3>1, <4>1, NothingRead DEF Inputs, Kept
    <3>3. Kept'
      BY <3>1, <3>2, QueueStays DEF Inputs, Kept
    <3>4. Phases'
      BY <3>1 DEF Inputs, Phases, Mirrored, More
    <3>5. QED
      BY <3>3, <3>4
  <2>10. QED
    BY <2>1, <2>2, <2>3, <2>4, <2>5, <2>6, <2>7, <2>8, <2>9 DEF Next, Loop, Stopped
<1>3. QED
  BY <1>1, <1>2, TimingHolds, PTL DEF Spec, Inputs

\* What the invariant says of the mirrors: a step of the queue finds the rows
\* of the step in hand.
LEMMA InputsMirror == Inputs => MirrorsCurrent
PROOF
<1>1. Inputs => MirrorsCurrent
  <2> SUFFICES ASSUME Inputs, NEW i \in DOMAIN queue, queue[i].op = "step", NEW kind \in Kinds
               PROVE  IF CopiesAhead(i, kind) = {}
                      THEN device[kind] = queue[i].selection[kind].rows
                      ELSE \A j \in LastAhead(i, kind) :
                             queue[j].content = queue[i].selection[kind].rows
    BY DEF MirrorsCurrent
  <2>1. queue # <<>> /\ Fits(i) /\ \A j \in DOMAIN queue : Fits(j)
    BY EmptyIsSeq DEF Inputs, Kept
  <2>2. hostStep # NoStep /\ Mirrored
    BY <2>1 DEF Inputs, Phases
  <2>3. queue[i].selection[kind].rows = hostStep.selection[kind].rows
    BY <2>1 DEF Fits, QueuedFlux, QueuedBlock, QueuedStep
  <2>4. \E n \in Nat : DOMAIN queue = 1..n
    BY TypedIsSeq DEF Inputs, Kept, IsSeq
  <2>5. ASSUME NEW j \in DOMAIN queue, queue[j].op = "upload", queue[j].kind = kind
        PROVE  j \in CopiesAhead(i, kind) /\ queue[j].content = hostStep.selection[kind].rows
    <3>1. QueuedBlock(j)
      BY <2>1, <2>5, KindsAre DEF Fits, QueuedFlux, QueuedStep
    <3>2. j \in Nat /\ i \in Nat /\ j # i /\ ~(i \in 1..(j - 1)) /\ j >= 1 /\ i >= 1
      BY <2>4, <2>5, <3>1 DEF QueuedBlock
    <3>3. j \in 1..(i - 1)
      BY <3>2
    <3>4. QED
      BY <2>5, <3>1, <3>3 DEF QueuedBlock, CopiesAhead
  <2>6. CASE CopiesAhead(i, kind) = {}
    <3>1. NoCopy(kind)
      BY <2>5, <2>6 DEF NoCopy
    <3>2. hostStep.selection[kind] \in Members(kind)
      BY <2>2 DEF Members, Selections
    <3>3. device[kind] = hostStep.selection[kind].rows
      BY <2>2, <3>1, <3>2 DEF Mirrored, Settled, Inputs, Kept
    <3>4. QED
      BY <2>3, <2>6, <3>3
  <2>7. CASE CopiesAhead(i, kind) # {}
    <3>1. \A j \in CopiesAhead(i, kind) :
            j \in DOMAIN queue /\ queue[j].op = "upload" /\ queue[j].kind = kind
      BY <2>4 DEF CopiesAhead
    <3>2. QED
      BY <2>3, <2>5, <2>7, <3>1 DEF LastAhead
  <2>8. QED
    BY <2>6, <2>7
<1>2. QED
  BY <1>1

\* Although a block's address may be given to another one as soon as nothing
\* refers to it, no step of the queue can find rows on the device that are not
\* the host's: a mirror that the identity recognises is of the block in hand.
THEOREM MirrorsStayCurrent == Spec => []MirrorsCurrent
PROOF BY InputsMirror, InputsHold, PTL

-----------------------------------------------------------------------------
(* The meteorology of every step, from the blocks to the outputs.          *)

\* Why a step that begins then can fail.
Cause(elapsed) ==
  \/ MissingRecord(elapsed)
  \/ CrossesWindow(elapsed, run.dt)
  \/ ~Readables(Clock(Midpoint(elapsed, run.edt)))

BlocksHeld(cached) ==
  \A kind \in Kinds :
    /\ BlockOrNone(kind, BlockSize(kind, run.multiple), cached[kind])
    /\ cached[kind].address \in Addresses \cup {0}

\* A host step that is for the step that begins then.
StepServes(step, elapsed) ==
  step.timestamp = elapsed /\ Meets(step.selection, run.initial, elapsed)

Working == pc \in {"prefetch", "boundary", "lastbatch"}

\* The host has what the step in hand and the next one need.
HostServed ==
  /\ BlocksHeld(blocks)
  /\ hostStep # NoStep => hostStep.timestamp \in Nat
  /\ hostStep # NoStep /\ (pc = "loop" \/ Working) => StepServes(hostStep, current)
  /\ nextStep # NoStep => pc = "boundary" /\ StepServes(nextStep, current + run.dt)
  /\ pc = "start" => current = 0
  /\ pc = "failed" => Cause(current)
  /\ pc = "lastbatch" => Cause(current + run.dt)

\* Queued steps read the records of their times, and are of steps taken or,
\* until it is completed, of the one being taken.
StepOf(op) ==
  /\ op.step \in Nat
  /\ op.step < steps \/ (Working /\ op.step = steps)
  /\ Meets(op.selection, run.initial, op.step * run.dt)

MetOfItsStep(seen) == seen # NoUse => seen.step \in Nat /\ IsMetOf(seen, seen.step)

QueueServed ==
  /\ \A i \in DOMAIN queue : queue[i].op = "step" => StepOf(queue[i])
  /\ "met" \in DOMAIN device /\ MetOfItsStep(device.met)
  /\ MetOfItsStep(used)
  \* The step being taken is the last of the queue, or the last that ran.
  /\ Working => IF queue = <<>> THEN device.met # NoUse /\ device.met.step = steps
                ELSE LET last == queue[Len(queue)] IN last.op = "step" /\ last.step = steps
  /\ output # NoUse => /\ output.step \in 0 .. steps - 1
                       /\ output.met.step = output.step /\ IsMetOf(output.met, output.step)

Served == Inputs /\ HostServed /\ QueueServed

\* The configuration of a run.
LEMMA RunIs ==
  ASSUME Timing
  PROVE  /\ run.dt \in Nat \ {0} /\ run.edt \in Nat \ {0} /\ run.initial \in Nat
         /\ run.multiple \in Nat \ {0} /\ steps \in Nat /\ current = steps * run.dt
         /\ current \in Nat /\ current + run.dt \in Nat
PROOF
<1>1. run \in RunConfiguration /\ steps \in Nat /\ current = steps * run.dt
  BY RunsAssumption DEF Timing
<1>2. run.initial \in Nat /\ run.multiple \in Nat \ {0} /\ run.dt \in Nat \ {0} /\ run.edt \in Nat \ {0}
  BY <1>1 DEF RunConfiguration
<1>3. QED
  BY <1>1, <1>2, TimesAre

\* What a kernel finds at the offsets of a selection, in the blocks or in
\* mirrors of them, is what the selection meets.
LEMMA SeenIs ==
  ASSUME NEW rowsOf, NEW selection, NEW flux, NEW step,
         Meets(selection, run.initial, step * run.dt),
         \A kind \in Kinds : rowsOf[kind] = selection[kind].rows
  PROVE  LET seen == Seen(rowsOf, selection, flux, step)
         IN  seen.step = step /\ IsMetOf(seen, step) /\ seen.flux = flux
PROOF
<1> DEFINE seen == Seen(rowsOf, selection, flux, step)
           met == MetOf(run.initial, step * run.dt)
<1>1. /\ seen.step = step /\ seen.flux = flux
      /\ seen["a1"] = Field([rows |-> rowsOf["a1"]], selection.a1At)
      /\ seen["a3"] = Field([rows |-> rowsOf["a3"]], selection.a3At)
      /\ seen["start"] = Field([rows |-> rowsOf["i3"]], selection.startAt)
      /\ seen["end"] = Field([rows |-> rowsOf["i3"]], selection.endAt)
      /\ seen["into"] = selection.into
  BY DEF Seen
<1>2. /\ rowsOf["a1"] = selection["a1"].rows /\ rowsOf["a3"] = selection["a3"].rows
      /\ rowsOf["i3"] = selection["i3"].rows
  BY KindsAre
<1>3. \A name \in {"a1", "a3", "start", "end", "into"} : Sees(selection, name) = met[name]
  BY DEF Meets
<1>4. /\ Sees(selection, "a1") = Field([rows |-> selection["a1"].rows], selection.a1At)
      /\ Sees(selection, "a3") = Field([rows |-> selection["a3"].rows], selection.a3At)
      /\ Sees(selection, "start") = Field([rows |-> selection["i3"].rows], selection.startAt)
      /\ Sees(selection, "end") = Field([rows |-> selection["i3"].rows], selection.endAt)
      /\ Sees(selection, "into") = selection.into
  BY DEF Sees
<1> HIDE DEF seen, met
<1>5. /\ seen["a1"] = met["a1"] /\ seen["a3"] = met["a3"] /\ seen["start"] = met["start"]
      /\ seen["end"] = met["end"] /\ seen["into"] = met["into"]
  BY <1>1, <1>2, <1>3, <1>4
<1>6. IsMetOf(seen, step)
  BY <1>5 DEF IsMetOf, Names, met
<1>7. QED
  BY <1>1, <1>6 DEF seen

\* A selection of the provider, for the run in hand.
LEMMA ChunksServeRun ==
  ASSUME Timing, BlocksHeld(blocks), NEW elapsed \in Nat, NEW fresh \in FreshBlocks
  PROVE  LET chunks == Chunks(elapsed, fresh)
         IN  /\ BlocksHeld(chunks.blocks)
             /\ chunks.ok => Meets(chunks.selection, run.initial, elapsed)
             /\ chunks.ok \in BOOLEAN
             /\ ~ chunks.ok => Cause(elapsed)
PROOF
<1> DEFINE chunks == Chunks(elapsed, fresh)
<1>1. run.initial \in Nat /\ run.multiple \in Nat \ {0} /\ run.dt \in Nat
  BY RunIs
<1>2. \A kind \in Kinds : BlockOrNone(kind, BlockSize(kind, run.multiple), blocks[kind])
  BY DEF BlocksHeld
<1>3. chunks = ChunksForStep(blocks, run.initial, run.multiple, run.days, elapsed, run.dt, fresh)
  BY DEF Chunks
<1>4. \A kind \in Kinds :
        chunks.blocks[kind] = blocks[kind] \/ chunks.blocks[kind].address \in Free(kind)
  BY ChunksAre
<1> HIDE DEF chunks
<1>5. \A kind \in Kinds : BlockOrNone(kind, BlockSize(kind, run.multiple), chunks.blocks[kind])
  BY <1>1, <1>2, <1>3, ChunksServe
<1>6. chunks.ok => Meets(chunks.selection, run.initial, elapsed)
  BY <1>1, <1>2, <1>3, ChunksServe
<1>7. chunks.ok \in BOOLEAN
  BY <1>1, <1>2, <1>3, ChunksServe
<1>8. ~ chunks.ok => Missing(run.initial, run.multiple, run.days, elapsed)
                     \/ CrossesWindow(elapsed, run.dt)
  BY <1>1, <1>2, <1>3, ChunksServe
<1>9. Missing(run.initial, run.multiple, run.days, elapsed) => MissingRecord(elapsed)
  BY DEF Missing, MissingRecord
<1>10. BlocksHeld(chunks.blocks)
  BY <1>4, <1>5 DEF BlocksHeld, Free
<1>11. QED
  BY <1>6, <1>7, <1>8, <1>9, <1>10 DEF chunks, Cause

\* A prepared step, for the run in hand.
LEMMA PreparedServes ==
  ASSUME Timing, BlocksHeld(blocks), NEW elapsed \in Nat, NEW prepared \in Preparations(elapsed)
  PROVE  /\ BlocksHeld(prepared.blocks)
         /\ prepared.ok => StepServes(prepared.step, elapsed)
         /\ prepared.ok \in BOOLEAN
         /\ ~ prepared.ok => Cause(elapsed)
PROOF
<1>1. PICK fresh \in FreshBlocks, address \in Addresses : prepared = Prepared(elapsed, fresh, address)
  BY DEF Preparations, Lowest, Highest
<1> DEFINE chunks == Chunks(elapsed, fresh)
           time == Clock(Midpoint(elapsed, run.edt))
           evaluated == Evaluate(caches, time, address)
<1>2. /\ BlocksHeld(chunks.blocks)
      /\ chunks.ok => Meets(chunks.selection, run.initial, elapsed)
      /\ chunks.ok \in BOOLEAN
      /\ ~ chunks.ok => Cause(elapsed)
  BY ChunksServeRun
<1>3. evaluated.ok \in BOOLEAN /\ (~ evaluated.ok => ~ Readables(time))
  BY DEF Evaluate
<1>4. /\ prepared.blocks = chunks.blocks
      /\ prepared.ok = (chunks.ok /\ (chunks.ok /\ Due(elapsed) => evaluated.ok))
      /\ prepared.step.selection = chunks.selection
      /\ prepared.step.timestamp = elapsed
  BY <1>1 DEF Prepared
<1> HIDE DEF chunks, evaluated
<1>5. ~ prepared.ok => ~ chunks.ok \/ ~ evaluated.ok
  BY <1>4
<1>6. prepared.ok => chunks.ok
  BY <1>4
<1>7. prepared.ok \in BOOLEAN
  BY <1>4
<1>8. QED
  BY <1>2, <1>3, <1>4, <1>5, <1>6, <1>7 DEF StepServes, Cause, time

-----------------------------------------------------------------------------
(* Every action keeps the meteorology of the steps.                        *)

\* The length of a sequence is where its domain ends.
LEMMA LengthIs ==
  ASSUME NEW s, IsSeq(s), NEW n \in Nat, DOMAIN s = 1..n
  PROVE  Len(s) = n
PROOF
<1>1. Len(s) \in Nat /\ DOMAIN s = 1..Len(s)
  BY TypedIsSeq DEF IsSeq
<1>2. ASSUME NEW a \in Nat, NEW b \in Nat, 1..a = 1..b PROVE a <= b
  <2>1. a = 0 \/ a \in 1..b
    BY <1>2
  <2>2. QED
    BY <2>1
<1>3. Len(s) <= n /\ n <= Len(s)
  BY <1>1, <1>2
<1>4. QED
  BY <1>1, <1>3

\* Where nothing is queued, executed or completed, the queue stays served.
LEMMA QueueStaysServed ==
  ASSUME QueueServed, UNCHANGED <<run, steps, queue, device, used, output>>, Working' <=> Working
  PROVE  QueueServed'
PROOF BY DEF QueueServed, StepOf, MetOfItsStep, IsMetOf

LEMMA FirstForcingServes ==
  ASSUME Served, FirstForcing
  PROVE  HostServed' /\ QueueServed'
PROOF
<1>1. /\ pc = "start" /\ UNCHANGED <<run, current, steps, hostStep, nextStep, queue, device,
                    used, output>>
  BY DEF FirstForcing
<1>2. PICK fresh \in FreshBlocks :
        /\ blocks' = Chunks(0, fresh).blocks
        /\ pc' = IF Chunks(0, fresh).ok THEN "loop" ELSE "failed"
  BY DEF FirstForcing
<1>3. /\ BlocksHeld(blocks') /\ pc' \in {"loop", "failed"}
      /\ pc' = "failed" => Cause(0)
  BY <1>2, ChunksServeRun DEF Served, Inputs, HostServed
<1>4. hostStep = NoStep /\ nextStep = NoStep /\ current = 0
  BY <1>1 DEF Served, Inputs, Phases, HostServed
<1>5. HostServed'
  BY <1>1, <1>3, <1>4 DEF HostServed, BlocksHeld, Cause, MissingRecord, CrossesWindow, Clock, Working
<1>6. QueueServed'
  BY <1>1, <1>3, QueueStaysServed DEF Served, Working
<1>7. QED
  BY <1>5, <1>6

LEMMA EndServes ==
  ASSUME Served, LoopEnds \/ Finish
  PROVE  HostServed' /\ QueueServed'
PROOF
<1>1. /\ pc \in {"loop", "finish"} /\ pc' \in {"finish", "done"}
      /\ UNCHANGED <<run, current, steps, blocks, hostStep, nextStep, queue, device, used, output>>
  BY DEF LoopEnds, Finish
<1>2. HostServed'
  BY <1>1 DEF Served, HostServed, BlocksHeld, Working
<1>3. QueueServed'
  BY <1>1, QueueStaysServed DEF Served, Working
<1>4. QED
  BY <1>2, <1>3

LEMMA CpuStepServes ==
  ASSUME Served, CpuStep
  PROVE  HostServed' /\ QueueServed'
PROOF
<1>1. /\ pc = "loop" /\ run.backend = "cpu"
      /\ UNCHANGED <<run, hostStep, nextStep, queue, device>>
  BY DEF CpuStep
<1>2. PICK prepared \in Preparations(current) :
        /\ blocks' = prepared.blocks
        /\ IF prepared.ok
           THEN /\ used' = Seen(HostRows(prepared.step.selection), prepared.step.selection,
                                FluxSum(active'), steps)
                /\ output' = CpuSnapshot(used')
                /\ steps' = steps + 1 /\ current' = current + run.dt /\ UNCHANGED pc
           ELSE pc' = "failed" /\ UNCHANGED <<used, output, steps, current>>
  BY DEF CpuStep
<1>3. current \in Nat /\ steps \in Nat /\ current = steps * run.dt
  BY RunIs DEF Served, Inputs
<1>4. /\ BlocksHeld(prepared.blocks)
      /\ prepared.ok => StepServes(prepared.step, current)
      /\ ~ prepared.ok => Cause(current)
  BY <1>3, PreparedServes DEF Served, Inputs, HostServed
<1>5. hostStep = NoStep /\ nextStep = NoStep /\ queue = <<>>
  BY <1>1 DEF Served, Inputs, Phases, HostServed
<1>6. HostServed'
  BY <1>1, <1>2, <1>4, <1>5
     DEF HostServed, BlocksHeld, Working, Cause, MissingRecord, CrossesWindow, Clock
<1>7. QueueServed'
  <2>1. CASE prepared.ok
    <3> DEFINE selection == prepared.step.selection
    <3>1. \A kind \in Kinds : HostRows(selection)[kind] = selection[kind].rows
      BY DEF HostRows
    <3>2. Meets(selection, run.initial, steps * run.dt)
      BY <1>3, <1>4, <2>1 DEF StepServes
    <3> HIDE DEF selection
    <3>3. used'.step = steps /\ IsMetOf(used', steps)
      BY <1>2, <2>1, <3>1, <3>2, SeenIs DEF selection
    <3>4. output'.step = steps /\ output'.met = used'
      BY <1>2, <2>1, <3>3 DEF CpuSnapshot
    <3>5. DOMAIN queue = {}
      BY <1>5, EmptyIsSeq
    <3>6. steps' - 1 = steps /\ steps \in 0 .. steps' - 1 /\ pc' = "loop"
      BY <1>1, <1>2, <1>3, <2>1
    <3>7. QED
      BY <1>1, <1>3, <3>3, <3>4, <3>5, <3>6
         DEF Served, QueueServed, MetOfItsStep, IsMetOf, Working
  <2>2. CASE ~ prepared.ok
    BY <1>1, <1>2, <2>2, QueueStaysServed DEF Served, Working
  <2>3. QED
    BY <2>1, <2>2
<1>8. QED
  BY <1>6, <1>7

LEMMA PrepareHostStepServes ==
  ASSUME Served, PrepareHostStep
  PROVE  HostServed' /\ QueueServed'
PROOF
<1>1. /\ pc = "loop" /\ pc' \in {"loop", "failed"}
      /\ UNCHANGED <<run, current, steps, nextStep, queue, device, used, output>>
  BY DEF PrepareHostStep
<1>2. PICK prepared \in Preparations(current) :
        /\ blocks' = prepared.blocks
        /\ IF prepared.ok THEN hostStep' = prepared.step /\ UNCHANGED pc
           ELSE pc' = "failed" /\ UNCHANGED hostStep
  BY DEF PrepareHostStep
<1>3. current \in Nat
  BY RunIs DEF Served, Inputs
<1>4. /\ BlocksHeld(prepared.blocks)
      /\ prepared.ok => StepServes(prepared.step, current)
      /\ ~ prepared.ok => Cause(current)
  BY <1>3, PreparedServes DEF Served, Inputs, HostServed
<1>5. HostServed'
  BY <1>1, <1>2, <1>3, <1>4
     DEF Served, HostServed, BlocksHeld, StepServes, Working, Cause, MissingRecord, CrossesWindow, Clock
<1>6. QueueServed'
  BY <1>1, QueueStaysServed DEF Served, Working
<1>7. QED
  BY <1>5, <1>6

LEMMA PrefetchServes ==
  ASSUME Served, Prefetch
  PROVE  HostServed' /\ QueueServed'
PROOF
<1>1. /\ pc = "prefetch" /\ pc' \in {"boundary", "lastbatch"}
      /\ UNCHANGED <<run, current, steps, hostStep, queue, device, used, output>>
  BY DEF Prefetch
<1>2. current + run.dt \in Nat
  BY RunIs DEF Served, Inputs
<1>3. /\ BlocksHeld(blocks')
      /\ nextStep' # NoStep => pc' = "boundary" /\ StepServes(nextStep', current + run.dt)
      /\ pc' = "lastbatch" => Cause(current + run.dt)
  <2>1. CASE More(current + run.dt, steps + 1)
    <3>1. PICK prepared \in Preparations(current + run.dt) :
            /\ blocks' = prepared.blocks
            /\ nextStep' = IF prepared.ok THEN prepared.step ELSE NoStep
            /\ pc' = IF prepared.ok THEN "boundary" ELSE "lastbatch"
      BY <2>1 DEF Prefetch
    <3>2. /\ BlocksHeld(prepared.blocks)
          /\ prepared.ok => StepServes(prepared.step, current + run.dt)
          /\ ~ prepared.ok => Cause(current + run.dt)
      BY <1>2, PreparedServes DEF Served, Inputs, HostServed
    <3>3. QED
      BY <3>1, <3>2
  <2>2. CASE ~ More(current + run.dt, steps + 1)
    BY <2>2 DEF Prefetch, Served, HostServed
  <2>3. QED
    BY <2>1, <2>2
<1>4. HostServed'
  BY <1>1, <1>3
     DEF Served, HostServed, BlocksHeld, StepServes, Working, Cause, MissingRecord, CrossesWindow, Clock
<1>5. QueueServed'
  BY <1>1, QueueStaysServed DEF Served, Working
<1>6. QED
  BY <1>4, <1>5

LEMMA LaunchStepServes ==
  ASSUME Served, LaunchStep
  PROVE  HostServed' /\ QueueServed'
PROOF
<1> DEFINE selection == hostStep.selection
           uploads == Uploads(selection, active')
           op == [op |-> "step", step |-> steps, selection |-> selection]
           last == <<op>>
           n == Len(queue)
           m == Len(uploads)
<1>1. /\ pc = "loop" /\ hostStep # NoStep /\ pc' = "prefetch"
      /\ queue' = queue \o uploads \o last
      /\ UNCHANGED <<run, current, steps, blocks, hostStep, nextStep, device, used, output>>
  BY DEF LaunchStep
<1>2. HostServed'
  BY <1>1 DEF Served, HostServed, BlocksHeld, StepServes, Working
<1>3. op.op = "step" /\ op.step = steps /\ op.selection = selection
  OBVIOUS
<1>4. Len(last) = 1 /\ last[1] = op
  BY SingleIsSeq
<1>seqs. IsSeq(queue) /\ IsSeq(uploads) /\ IsSeq(last)
  BY UploadsAre, SingleIsSeq DEF Served, Inputs, Kept
<1>queue. queue' = queue \o uploads \o last
  BY <1>1
<1>5. \A u \in Range(uploads) : u.op = "upload"
  BY UploadsAre
<1> HIDE DEF uploads, last, op
<1>6. /\ n \in Nat /\ m \in Nat /\ IsSeq(queue')
      /\ DOMAIN queue = 1..n /\ DOMAIN uploads = 1..m /\ DOMAIN queue' = 1..(n + m + 1)
  <2>1. Len(queue) \in Nat /\ Len(uploads) \in Nat /\ IsSeq(queue')
    BY <1>seqs, <1>queue, LongerQueue
  <2>2. DOMAIN queue = 1..Len(queue) /\ DOMAIN uploads = 1..Len(uploads)
    BY <1>seqs, <1>queue, LongerQueue
  <2>3. DOMAIN queue' = 1..(Len(queue) + Len(uploads) + Len(last))
    BY <1>seqs, <1>queue, LongerQueue
  <2>4. QED
    BY <1>4, <2>1, <2>2, <2>3
<1>7. \A i \in 1..n : queue'[i] = queue[i]
  BY <1>seqs, <1>queue, LongerQueue
<1>8. \A i \in 1..m : queue'[n + i] = uploads[i]
  BY <1>seqs, <1>queue, LongerQueue
<1>9. queue'[n + m + 1] = op
  <2>1. \A i \in 1..Len(last) : queue'[Len(queue) + Len(uploads) + i] = last[i]
    BY <1>seqs, <1>queue, LongerQueue
  <2>2. QED
    BY <1>4, <2>1
<1> HIDE DEF n, m
<1>10. Len(queue') = n + m + 1 /\ queue' # <<>>
  <2>1. n + m + 1 \in Nat /\ 1 \in 1..(n + m + 1)
    BY <1>6
  <2> DEFINE e == n + m + 1
  <2> HIDE DEF e
  <2>2. e \in Nat /\ DOMAIN queue' = 1..e
    BY <1>6, <2>1 DEF e
  <2>3. Len(queue') = e
    BY <1>6, <2>2, LengthIs
  <2>4. QED
    BY <1>6, <2>1, <2>3, EmptyIsSeq DEF e
<1>11. StepOf(op)'
  <2>1. steps \in Nat /\ current = steps * run.dt
    BY RunIs DEF Served, Inputs
  <2>2. Meets(selection, run.initial, steps * run.dt)
    BY <1>1, <2>1 DEF Served, HostServed, StepServes
  <2>3. op' = op
    BY <1>1 DEF op
  <2>4. QED
    BY <1>1, <1>3, <2>1, <2>2, <2>3 DEF StepOf, Working
<1>12. ASSUME NEW i \in DOMAIN queue', queue'[i].op = "step" PROVE StepOf(queue[i])'
  <2>1. i \in 1..n \/ i - n \in 1..m \/ i = n + m + 1
    BY <1>6
  <2>2. CASE i \in 1..n
    <3>1. StepOf(queue[i])
      BY <1>6, <1>7, <1>12, <2>2 DEF Served, QueueServed
    <3>2. QED
      BY <1>1, <1>7, <2>2, <3>1 DEF StepOf, Working
  <2>3. CASE i - n \in 1..m
    <3>1. n + (i - n) = i
      BY <1>6
    <3>2. queue'[i] = uploads[i - n] /\ uploads[i - n] \in Range(uploads)
      BY <1>6, <1>8, <2>3, <3>1 DEF Range
    <3>3. QED
      BY <1>5, <1>12, <3>2
  <2>4. CASE i = n + m + 1
    <3>1. queue'[i] = op
      BY <1>9, <2>4
    <3>2. op' = op
      BY <1>1 DEF op
    <3>3. QED
      BY <1>11, <3>1, <3>2 DEF StepOf
  <2>5. QED
    BY <2>1, <2>2, <2>3, <2>4
<1>13. QueueServed'
  <2>1. queue'[Len(queue')].op = "step" /\ queue'[Len(queue')].step = steps
    BY <1>3, <1>9, <1>10
  <2>2. MetOfItsStep(device.met)' /\ MetOfItsStep(used)'
    BY <1>1 DEF Served, QueueServed, MetOfItsStep, IsMetOf
  <2>3. (output # NoUse => /\ output.step \in 0 .. steps - 1
                           /\ output.met.step = output.step
                           /\ IsMetOf(output.met, output.step))'
    BY <1>1 DEF Served, QueueServed, IsMetOf
  <2>4. QED
    BY <1>1, <1>10, <1>12, <2>1, <2>2, <2>3 DEF Served, QueueServed
<1>14. QED
  BY <1>2, <1>13

LEMMA CompleteStepServes ==
  ASSUME Served, CompleteStep
  PROVE  HostServed' /\ QueueServed'
PROOF
<1>1. /\ pc \in {"boundary", "lastbatch"} /\ pc' \in {"loop", "failed"}
      /\ steps' = steps + 1 /\ current' = current + run.dt /\ nextStep' = NoStep
      /\ UNCHANGED <<run, blocks, queue, device, used>>
  BY DEF CompleteStep, StepEnds
<1>2. \E boundary \in BOOLEAN :
        /\ boundary => queue = <<>>
        /\ output' = IF boundary THEN CudaSnapshot ELSE output
  <2>1. CASE pc = "boundary"
    <3>1. PICK other \in BOOLEAN : StepEnds(EndsBatch(other), FALSE)
      BY <1>1, <2>1 DEF CompleteStep
    <3>2. EndsBatch(other) \in BOOLEAN
      BY DEF EndsBatch
    <3>3. QED
      BY <3>1, <3>2 DEF StepEnds, Synchronized
  <2>2. CASE pc = "lastbatch"
    BY <2>2 DEF CompleteStep, StepEnds, Synchronized
  <2>3. QED
    BY <1>1, <2>1, <2>2
<1>3. \/ pc = "lastbatch" /\ pc' = "failed" /\ UNCHANGED hostStep
      \/ pc = "boundary" /\ pc' = "loop" /\ hostStep' = nextStep
  BY DEF CompleteStep, StepEnds
<1>4. /\ steps \in Nat /\ current + run.dt \in Nat
  BY RunIs DEF Served, Inputs
<1>5. HostServed'
  BY <1>1, <1>3, <1>4
     DEF Served, HostServed, BlocksHeld, StepServes, Working, Cause, MissingRecord, CrossesWindow, Clock
<1>6. \A i \in DOMAIN queue' : queue'[i].op = "step" => StepOf(queue[i])'
  <2> SUFFICES ASSUME NEW i \in DOMAIN queue, queue[i].op = "step" PROVE StepOf(queue[i])'
    BY <1>1
  <2>1. StepOf(queue[i])
    BY DEF Served, QueueServed
  <2>2. queue[i].step \in Nat /\ queue[i].step < steps'
    BY <1>1, <1>4, <2>1 DEF StepOf
  <2>3. QED
    BY <1>1, <2>1, <2>2 DEF StepOf
<1>7. (output # NoUse => /\ output.step \in 0 .. steps - 1
                         /\ output.met.step = output.step
                         /\ IsMetOf(output.met, output.step))'
  <2>1. PICK boundary \in BOOLEAN :
          /\ boundary => queue = <<>>
          /\ output' = IF boundary THEN CudaSnapshot ELSE output
    BY <1>2
  <2>2. steps' - 1 = steps /\ steps \in 0 .. steps' - 1 /\ 0 .. steps - 1 \subseteq 0 .. steps' - 1
    BY <1>1, <1>4
  <2>3. CASE boundary
    <3>1. device.met # NoUse /\ device.met.step = steps /\ MetOfItsStep(device.met)
      BY <1>1, <2>1, <2>3 DEF Served, QueueServed, Working
    <3>2. output'.step = steps /\ output'.met = device.met
      BY <2>1, <2>3 DEF CudaSnapshot
    <3>3. QED
      BY <1>1, <2>2, <3>1, <3>2 DEF MetOfItsStep, IsMetOf
  <2>4. CASE ~ boundary
    BY <1>1, <2>1, <2>2, <2>4 DEF Served, QueueServed, IsMetOf
  <2>5. QED
    BY <2>3, <2>4
<1>8. QueueServed'
  <2>1. MetOfItsStep(device.met)' /\ MetOfItsStep(used)'
    BY <1>1 DEF Served, QueueServed, MetOfItsStep, IsMetOf
  <2>2. ~ Working'
    BY <1>1 DEF Working
  <2>3. QED
    BY <1>1, <1>6, <1>7, <2>1, <2>2 DEF Served, QueueServed
<1>9. QED
  BY <1>5, <1>8

LEMMA DeviceRunsServes ==
  ASSUME Served, DeviceRuns
  PROVE  HostServed' /\ QueueServed'
PROOF
<1> DEFINE n == Len(queue)
           op == Head(queue)
           seen == Seen(device, op.selection, device.flux, op.step)
<1>1. /\ queue # <<>> /\ queue' = Tail(queue)
      /\ IF op.op = "upload"
         THEN device' = [device EXCEPT ![op.kind] = op.content] /\ UNCHANGED used
         ELSE used' = seen /\ device' = [device EXCEPT !.met = seen]
      /\ UNCHANGED <<run, pc, current, steps, blocks, hostStep, nextStep, output>>
  BY DEF DeviceRuns, hostVars
<1>2. HostServed'
  BY <1>1
     DEF Served, HostServed, BlocksHeld, StepServes, Working, Cause, MissingRecord, CrossesWindow, Clock
<1>3. /\ IsSeq(queue') /\ n \in Nat /\ n >= 1 /\ DOMAIN queue = 1..n /\ op = queue[1]
      /\ DOMAIN queue' = 1..(n - 1)
      /\ \A i \in 1..(n - 1) : queue'[i] = queue[i + 1]
  BY <1>1, TailIsSeq DEF Served, Inputs, Kept
<1> HIDE DEF n, op
<1>4. ASSUME NEW i \in DOMAIN queue', queue'[i].op = "step" PROVE StepOf(queue[i])'
  <2>1. i + 1 \in 1..n /\ queue'[i] = queue[i + 1]
    BY <1>3
  <2>2. StepOf(queue[i + 1])
    BY <1>3, <1>4, <2>1 DEF Served, QueueServed
  <2>3. QED
    BY <1>1, <2>1, <2>2 DEF StepOf, Working
<1>5. \/ op.op = "upload" /\ op.kind \in Kinds \cup {"flux"}
      \/ op.op = "step"
  BY <1>3 DEF Served, Inputs, Kept, Fits, QueuedFlux, QueuedBlock, QueuedStep
<1>6. ASSUME op.op = "step" PROVE seen # NoUse /\ seen.step = op.step /\ MetOfItsStep(seen)
  <2>1. StepOf(op)
    BY <1>3, <1>6 DEF Served, QueueServed
  <2>2. \A kind \in Kinds : device[kind] = op.selection[kind].rows
    <3>1. 1 \in DOMAIN queue /\ queue[1].op = "step"
      BY <1>3, <1>6
    <3>2. \A kind \in Kinds : CopiesAhead(1, kind) = {}
      BY DEF CopiesAhead
    <3>3. MirrorsCurrent
      BY InputsMirror DEF Served
    <3>4. QED
      BY <1>3, <3>1, <3>2, <3>3 DEF MirrorsCurrent
  <2>3. seen.step = op.step /\ IsMetOf(seen, op.step)
    BY <2>1, <2>2, SeenIs DEF StepOf
  <2>4. seen # NoUse
    <3>1. op.step \in Nat
      BY <2>1 DEF StepOf
    <3>2. NoUse.step = -1
      BY DEF NoUse
    <3> HIDE DEF seen
    <3>3. QED
      BY <2>3, <3>1, <3>2
  <2> HIDE DEF seen
  <2>5. QED
    BY <2>1, <2>3, <2>4 DEF MetOfItsStep, StepOf
<1> HIDE DEF seen
<1>7. /\ "met" \in DOMAIN device' /\ MetOfItsStep(device'.met) /\ MetOfItsStep(used')
      /\ op.op = "step" => device'.met = seen
  <2>1. "met" \in DOMAIN device /\ MetOfItsStep(device.met) /\ MetOfItsStep(used)
    BY DEF Served, QueueServed
  <2>2. CASE op.op = "step"
    BY <1>1, <1>6, <2>1, <2>2
  <2>3. CASE op.op = "upload" /\ op.kind \in Kinds \cup {"flux"}
    <3>1. op.kind # "met"
      BY <2>3, KindsAre
    <3>2. device'.met = device.met /\ DOMAIN device' = DOMAIN device
      BY <1>1, <2>1, <2>3, <3>1
    <3>3. QED
      BY <1>1, <2>1, <2>3, <3>2
  <2>4. QED
    BY <1>5, <2>2, <2>3
<1>8. ASSUME Working
      PROVE  IF queue' = <<>> THEN device'.met # NoUse /\ device'.met.step = steps
             ELSE queue'[Len(queue')].op = "step" /\ queue'[Len(queue')].step = steps
  <2>1. queue[n].op = "step" /\ queue[n].step = steps
    BY <1>1, <1>8 DEF Served, QueueServed, n
  <2>2. n - 1 \in Nat /\ Len(queue') = n - 1
    <3> DEFINE e == n - 1
    <3>1. e \in Nat
      BY <1>3
    <3> HIDE DEF e
    <3>2. DOMAIN queue' = 1..e
      BY <1>3 DEF e
    <3>3. Len(queue') = e
      BY <1>3, <3>1, <3>2, LengthIs
    <3>4. QED
      BY <3>1, <3>3 DEF e
  <2>3. CASE n = 1
    <3>1. queue' = <<>>
      <4>1. queue' \in Seq(Range(queue')) /\ Len(queue') = 0
        BY <1>3, <2>2, <2>3 DEF IsSeq
      <4>2. QED
        BY <4>1, EmptySeq
    <3>2. op.op = "step" /\ op.step = steps
      BY <1>3, <2>1, <2>3
    <3>3. QED
      BY <1>6, <1>7, <3>1, <3>2
  <2>4. CASE n # 1
    <3>1. n - 1 \in 1..(n - 1) /\ (n - 1) + 1 = n
      BY <1>3, <2>4
    <3>2. queue'[n - 1] = queue[n]
      BY <1>3, <3>1
    <3>3. queue' # <<>>
      BY <1>3, <3>1, EmptyIsSeq
    <3>4. QED
      BY <2>1, <2>2, <3>2, <3>3
  <2>5. QED
    BY <2>3, <2>4
<1>9. QueueServed'
  <2>1. MetOfItsStep(device.met)' /\ MetOfItsStep(used)'
    BY <1>1, <1>7 DEF MetOfItsStep, IsMetOf
  <2>2. (output # NoUse => /\ output.step \in 0 .. steps - 1
                           /\ output.met.step = output.step
                           /\ IsMetOf(output.met, output.step))'
    BY <1>1 DEF Served, QueueServed, IsMetOf
  <2>3. Working' <=> Working
    BY <1>1 DEF Working
  <2>4. QED
    BY <1>1, <1>4, <1>7, <1>8, <2>1, <2>2, <2>3 DEF QueueServed
<1>10. QED
  BY <1>2, <1>9

LEMMA ServedHolds == Spec => []Served
PROOF
<1>1. Init => HostServed /\ QueueServed
  <2> SUFFICES ASSUME Init PROVE HostServed /\ QueueServed
    OBVIOUS
  <2>1. /\ pc = "start" /\ current = 0 /\ hostStep = NoStep /\ nextStep = NoStep /\ queue = <<>>
        /\ blocks = [kind \in Kinds |-> NoBlock]
        /\ output = NoUse /\ used = NoUse
        /\ device = [buffer \in Kinds \cup {"flux", "met"} |-> IF buffer = "met" THEN NoUse ELSE Nothing]
    BY DEF Init
  <2>2. BlocksHeld(blocks)
    BY <2>1 DEF BlocksHeld, BlockOrNone, NoBlock
  <2>3. HostServed
    BY <2>1, <2>2 DEF HostServed, Working
  <2>4. DOMAIN queue = {} /\ "met" \in DOMAIN device /\ device.met = NoUse
    BY <2>1, EmptyIsSeq
  <2>5. QueueServed
    BY <2>1, <2>4 DEF QueueServed, MetOfItsStep, Working
  <2>6. QED
    BY <2>3, <2>5
<1>2. Served /\ [Next]_vars => HostServed' /\ QueueServed'
  <2> SUFFICES ASSUME Served, [Next]_vars PROVE HostServed' /\ QueueServed'
    OBVIOUS
  <2>1. CASE FirstForcing
    BY <2>1, FirstForcingServes
  <2>2. CASE LoopEnds \/ Finish
    BY <2>2, EndServes
  <2>3. CASE CpuStep
    BY <2>3, CpuStepServes
  <2>4. CASE PrepareHostStep
    BY <2>4, PrepareHostStepServes
  <2>5. CASE LaunchStep
    BY <2>5, LaunchStepServes
  <2>6. CASE Prefetch
    BY <2>6, PrefetchServes
  <2>7. CASE CompleteStep
    BY <2>7, CompleteStepServes
  <2>8. CASE DeviceRuns
    BY <2>8, DeviceRunsServes
  <2>9. CASE UNCHANGED vars
    <3>1. UNCHANGED <<run, pc, current, steps, blocks, hostStep, nextStep, queue, device, used, output>>
      BY <2>9 DEF vars, hostVars
    <3>2. HostServed'
      BY <3>1
         DEF Served, HostServed, BlocksHeld, StepServes, Working, Cause, MissingRecord, CrossesWindow, Clock
    <3>3. QueueServed'
      BY <3>1, QueueStaysServed DEF Served, Working
    <3>4. QED
      BY <3>2, <3>3
  <2>10. QED
    BY <2>1, <2>2, <2>3, <2>4, <2>5, <2>6, <2>7, <2>8, <2>9 DEF Next, Loop, Stopped
<1>3. QED
  BY <1>1, <1>2, InputsHold, PTL DEF Spec, Served

\* The shape of the state, that the model time is the time of the steps taken,
\* and that an output is of a step that has been taken.
THEOREM InputsTypeOK == Spec => []TypeOK
PROOF
<1>1. Served => TypeOK
  <2> SUFFICES ASSUME Served PROVE TypeOK
    OBVIOUS
  <2>1. pc \in {"start", "loop", "prefetch", "boundary", "lastbatch", "finish", "done", "failed"}
        /\ current = steps * run.dt
    BY DEF Served, Inputs, Timing
  <2>2. \A kind \in Kinds : blocks[kind].address \in Addresses \union {0}
    BY DEF Served, HostServed, BlocksHeld
  <2>3. \A s \in {hostStep, nextStep} \ {NoStep} : s.timestamp \in Nat
    BY RunIs DEF Served, Inputs, HostServed, StepServes
  <2>4. \A i \in DOMAIN queue : queue[i].op \in {"upload", "step"}
    BY DEF Served, Inputs, Kept, Fits, QueuedFlux, QueuedBlock, QueuedStep
  <2>5. output # NoUse => output.step \in 0..steps - 1
    BY DEF Served, QueueServed
  <2>6. QED
    BY <2>1, <2>2, <2>3, <2>4, <2>5 DEF TypeOK
<1>2. QED
  BY <1>1, ServedHolds, PTL

\* Every step reads the records of its own time, for every calendar position
\* and chunk multiple the run starts from, on the CPU and through the mirrors
\* of the device (transport/forcing.py chunks_for_step, cuda/forcing.py).
THEOREM MetStaysCurrent == Spec => []MetIsCurrent
PROOF
<1>1. Served => MetIsCurrent
  BY DEF Served, QueueServed, MetOfItsStep, MetIsCurrent
<1>2. QED
  BY <1>1, ServedHolds, PTL

\* What outputs see is the meteorology of the step they are written for,
\* however many steps a batch holds.
THEOREM OutputsOfTheirStep == Spec => []OutputIsOfItsStep
PROOF
<1>1. Served => OutputIsOfItsStep
  BY DEF Served, QueueServed, OutputIsOfItsStep
<1>2. QED
  BY <1>1, ServedHolds, PTL

\* A run fails only when a record is missing or a step crosses a window at
\* the time it stopped at, and the step that was prefetched is always the next
\* (runner.py: the checks of cuda_host_step.timestamp never raise).
THEOREM FailuresHaveCauses == Spec => []FailsForCause
PROOF
<1>1. Served => FailsForCause
  BY DEF Served, HostServed, StepServes, FailsForCause, Cause, CrossesWindow
<1>2. QED
  BY <1>1, ServedHolds, PTL

-----------------------------------------------------------------------------
(* The emissions operator: a cache never changes what an evaluation gives. *)

\* An array that is cached is what reading it now would give.
ArraysRead(fields, scales) ==
  /\ \A key \in DOMAIN fields : fields[key] = Read(key[1], key[2])
  /\ \A key \in DOMAIN scales : scales[key] = Read(Scales[key[1]].file, key[2])

\* The whole flux is of every time with the selections it is cached under.
FluxOfKey(cached) ==
  cached.flux # NoFlux =>
    \A t : SurfaceKey(t) = cached.key => cached.flux.sum = SumAt(t)

CachesServe(cached) == ArraysRead(cached.fields, cached.scales) /\ FluxOfKey(cached)

\* A sum of the records themselves.
ReadSum(t) ==
  [i \in DOMAIN Fields |->
     <<Read(Fields[i].file, SelectionTime(t, Fields[i].frequency))>> \o
     [j \in DOMAIN Fields[i].scales |->
        LET name == Fields[i].scales[j]
        IN  IF name \in FileScales
            THEN Read(Scales[name].file, SelectionTime(t, Scales[name].frequency))
            ELSE <<NumberScale, name>>]]

LEMMA FieldsAre ==
  /\ \E n \in Nat : DOMAIN Fields = 1..n
  /\ \A i \in DOMAIN Fields :
       /\ Fields[i].frequency \in Frequencies
       /\ Fields[i].scales \in Seq(DOMAIN Scales)
       /\ IsSeq(Fields[i].scales)
PROOF
<1> DEFINE Field0 == [file : DOMAIN Files, frequency : Frequencies, scales : Seq(DOMAIN Scales)]
<1>1. Fields \in Seq(Field0)
  BY FieldsAssumption
<1> HIDE DEF Field0
<1>2. Len(Fields) \in Nat /\ DOMAIN Fields = 1..Len(Fields) /\ \A i \in DOMAIN Fields : Fields[i] \in Field0
  BY <1>1, LenProperties, ElementOfSeq
<1>3. \A i \in DOMAIN Fields : Fields[i].frequency \in Frequencies /\ Fields[i].scales \in Seq(DOMAIN Scales)
  BY <1>2 DEF Field0
<1>4. QED
  BY <1>2, <1>3, TypedIsSeq

\* Arrays that are read or were cached.
LEMMA ArraysFilled ==
  ASSUME NEW cached, ArraysRead(cached.fields, cached.scales), NEW t
  PROVE  LET fields == FilledFields(cached, t)
             scales == FilledScales(cached, t)
         IN  /\ ArraysRead(fields, scales)
             /\ DOMAIN fields = DOMAIN cached.fields \cup FieldKeys(t)
             /\ DOMAIN scales = DOMAIN cached.scales \cup ScaleKeys(t)
PROOF
<1> DEFINE fields == FilledFields(cached, t)
           scales == FilledScales(cached, t)
<1>1. fields = [key \in DOMAIN cached.fields \cup FieldKeys(t) |->
                  IF key \in DOMAIN cached.fields THEN cached.fields[key] ELSE Read(key[1], key[2])]
  BY DEF FilledFields, Filled
<1>2. scales = [key \in DOMAIN cached.scales \cup ScaleKeys(t) |->
                  IF key \in DOMAIN cached.scales THEN cached.scales[key]
                  ELSE Read(Scales[key[1]].file, key[2])]
  BY DEF FilledScales, Filled
<1> HIDE DEF fields, scales
<1>3. QED
  BY <1>1, <1>2 DEF ArraysRead, fields, scales

\* Where every array that it needs is there, a sum is of the records.
LEMMA SumIs ==
  ASSUME NEW fields, NEW scales, NEW t, ArraysRead(fields, scales),
         FieldKeys(t) \subseteq DOMAIN fields, ScaleKeys(t) \subseteq DOMAIN scales
  PROVE  Sum(fields, scales, t) = ReadSum(t)
PROOF
<1>1. ASSUME NEW i \in DOMAIN Fields
      PROVE  fields[ArrayKey(Fields[i], t)] = Read(Fields[i].file, SelectionTime(t, Fields[i].frequency))
  <2>1. ArrayKey(Fields[i], t) \in FieldKeys(t)
    BY DEF FieldKeys
  <2>2. /\ ArrayKey(Fields[i], t)[1] = Fields[i].file
        /\ ArrayKey(Fields[i], t)[2] = SelectionTime(t, Fields[i].frequency)
    BY DEF ArrayKey
  <2>3. QED
    BY <2>1, <2>2 DEF ArraysRead
<1>2. ASSUME NEW name \in FileScales
      PROVE  scales[ScaleKey(name, t)] = Read(Scales[name].file, SelectionTime(t, Scales[name].frequency))
  <2>1. ScaleKey(name, t) \in ScaleKeys(t)
    BY DEF ScaleKeys
  <2>2. /\ ScaleKey(name, t)[1] = name
        /\ ScaleKey(name, t)[2] = SelectionTime(t, Scales[name].frequency)
    BY DEF ScaleKey
  <2>3. QED
    BY <2>1, <2>2 DEF ArraysRead
<1> DEFINE Row(i) == [j \in DOMAIN Fields[i].scales |->
                        LET name == Fields[i].scales[j]
                        IN  IF name \in FileScales THEN scales[ScaleKey(name, t)] ELSE <<NumberScale, name>>]
           ReadRow(i) == [j \in DOMAIN Fields[i].scales |->
                        LET name == Fields[i].scales[j]
                        IN  IF name \in FileScales
                            THEN Read(Scales[name].file, SelectionTime(t, Scales[name].frequency))
                            ELSE <<NumberScale, name>>]
<1>3. \A i : Row(i) = ReadRow(i)
  BY <1>2
<1>4. Sum(fields, scales, t) = [i \in DOMAIN Fields |-> <<fields[ArrayKey(Fields[i], t)]>> \o Row(i)]
  BY DEF Sum
<1>5. ReadSum(t) = [i \in DOMAIN Fields |->
                      <<Read(Fields[i].file, SelectionTime(t, Fields[i].frequency))>> \o ReadRow(i)]
  BY DEF ReadSum
<1> HIDE DEF Row, ReadRow
<1>6. QED
  BY <1>1, <1>3, <1>4, <1>5

\* What the configuration means at a time.
LEMMA SumAtIs ==
  ASSUME NEW t
  PROVE  SumAt(t) = ReadSum(t)
PROOF
<1>1. ArraysRead(EmptyCaches.fields, EmptyCaches.scales)
  BY EmptyIsSeq DEF ArraysRead, EmptyCaches
<1>2. /\ ArraysRead(FilledFields(EmptyCaches, t), FilledScales(EmptyCaches, t))
      /\ FieldKeys(t) \subseteq DOMAIN FilledFields(EmptyCaches, t)
      /\ ScaleKeys(t) \subseteq DOMAIN FilledScales(EmptyCaches, t)
  BY <1>1, ArraysFilled
<1>3. QED
  BY <1>2, SumIs DEF SumAt

\* Sequences of one element more are equal element by element.
LEMMA ConsEqual ==
  ASSUME NEW a, NEW b, NEW n \in Nat, NEW s, NEW t,
         DOMAIN s = 1..n, DOMAIN t = 1..n, IsSeq(s), IsSeq(t),
         Cons(a, s) = Cons(b, t)
  PROVE  a = b /\ \A j \in 1..n : s[j] = t[j]
PROOF
<1>1. IsSeq(<<a>>) /\ IsSeq(<<b>>) /\ Len(<<a>>) = 1 /\ Len(<<b>>) = 1 /\ <<a>>[1] = a /\ <<b>>[1] = b
  BY SingleIsSeq
<1>2. Len(s) = n /\ Len(t) = n
  BY LengthIs
<1> DEFINE v == <<a>>
           w == <<b>>
<1> HIDE DEF v, w
<1>3. (v \o s)[1] = v[1] /\ \A j \in 1..n : (v \o s)[1 + j] = s[j]
  <2>1. /\ \A i \in 1..Len(v) : (v \o s)[i] = v[i]
        /\ \A i \in 1..Len(s) : (v \o s)[Len(v) + i] = s[i]
    BY <1>1, ConcatIsSeq DEF v
  <2>2. Len(v) = 1
    BY <1>1 DEF v
  <2>3. 1 \in 1..Len(v)
    BY <2>2
  <2>4. (v \o s)[1] = v[1]
    BY <2>1, <2>3
  <2>5. \A j \in 1..n : (v \o s)[1 + j] = s[j]
    BY <1>2, <2>1, <2>2
  <2>6. QED
    BY <2>4, <2>5
<1>4. (w \o t)[1] = w[1] /\ \A j \in 1..n : (w \o t)[1 + j] = t[j]
  <2>1. /\ \A i \in 1..Len(w) : (w \o t)[i] = w[i]
        /\ \A i \in 1..Len(t) : (w \o t)[Len(w) + i] = t[i]
    BY <1>1, ConcatIsSeq DEF w
  <2>2. Len(w) = 1
    BY <1>1 DEF w
  <2>3. 1 \in 1..Len(w)
    BY <2>2
  <2>4. (w \o t)[1] = w[1]
    BY <2>1, <2>3
  <2>5. \A j \in 1..n : (w \o t)[1 + j] = t[j]
    BY <1>2, <2>1, <2>2
  <2>6. QED
    BY <2>4, <2>5
<1>5. v \o s = w \o t
  BY DEF v, w, Cons
<1>6. v[1] = a /\ w[1] = b
  BY <1>1 DEF v, w
<1>7. QED
  BY <1>3, <1>4, <1>5, <1>6

\* The selections decide the sum: two times that share them share it.
LEMMA KeyDecides ==
  ASSUME NEW t, NEW u, SurfaceKey(t) = SurfaceKey(u)
  PROVE  SumAt(t) = SumAt(u)
PROOF
<1> DEFINE Times(v, i) == [j \in DOMAIN Fields[i].scales |->
                             SelectionTime(v, Scales[Fields[i].scales[j]].frequency)]
<1>1. \A v : SurfaceKey(v) = [i \in DOMAIN Fields |->
                                <<SelectionTime(v, Fields[i].frequency)>> \o Times(v, i)]
  BY DEF SurfaceKey
<1>2. ASSUME NEW i \in DOMAIN Fields
      PROVE  /\ SelectionTime(t, Fields[i].frequency) = SelectionTime(u, Fields[i].frequency)
             /\ \A j \in DOMAIN Fields[i].scales :
                  SelectionTime(t, Scales[Fields[i].scales[j]].frequency)
                    = SelectionTime(u, Scales[Fields[i].scales[j]].frequency)
  <2>1. PICK n \in Nat : DOMAIN Fields[i].scales = 1..n
    BY FieldsAre, TypedIsSeq
  <2>2. \A v : /\ DOMAIN Times(v, i) = 1..n /\ IsSeq(Times(v, i))
    <3> SUFFICES ASSUME NEW v PROVE DOMAIN Times(v, i) = 1..n /\ IsSeq(Times(v, i))
      OBVIOUS
    <3> DEFINE s == Times(v, i)
    <3>1. DOMAIN s = 1..n
      BY <2>1
    <3>2. s \in [1..n -> Range(s)]
      BY <2>1 DEF Range
    <3> HIDE DEF s
    <3>3. s \in Seq(Range(s))
      BY <3>2
    <3>4. QED
      BY <3>1, <3>3 DEF IsSeq, s
  <2>3. <<SelectionTime(t, Fields[i].frequency)>> \o Times(t, i)
          = <<SelectionTime(u, Fields[i].frequency)>> \o Times(u, i)
    <3> HIDE DEF Times
    <3>1. SurfaceKey(t)[i] = SurfaceKey(u)[i]
      OBVIOUS
    <3>2. QED
      BY <1>1, <3>1
  <2>4. /\ SelectionTime(t, Fields[i].frequency) = SelectionTime(u, Fields[i].frequency)
        /\ \A j \in 1..n : Times(t, i)[j] = Times(u, i)[j]
    <3> DEFINE a == SelectionTime(t, Fields[i].frequency)
               b == SelectionTime(u, Fields[i].frequency)
               ofT == Times(t, i)
               ofU == Times(u, i)
    <3>1. DOMAIN ofT = 1..n /\ DOMAIN ofU = 1..n
      BY <2>2
    <3>2. IsSeq(ofT) /\ IsSeq(ofU)
      BY <2>2
    <3>3. Cons(a, ofT) = Cons(b, ofU)
      BY <2>3 DEF Cons
    <3> HIDE DEF a, b, ofT, ofU
    <3>4. a = b /\ \A j \in 1..n : ofT[j] = ofU[j]
      BY <3>1, <3>2, <3>3, ConsEqual
    <3>5. QED
      BY <3>4 DEF a, b, ofT, ofU
  <2>5. QED
    BY <2>1, <2>4
<1>3. ReadSum(t) = ReadSum(u)
  <2> DEFINE Row(v, i) == [j \in DOMAIN Fields[i].scales |->
                        LET name == Fields[i].scales[j]
                        IN  IF name \in FileScales
                            THEN Read(Scales[name].file, SelectionTime(v, Scales[name].frequency))
                            ELSE <<NumberScale, name>>]
  <2>1. \A i \in DOMAIN Fields : Row(t, i) = Row(u, i)
    BY <1>2
  <2>2. \A v : ReadSum(v) = [i \in DOMAIN Fields |->
                 <<Read(Fields[i].file, SelectionTime(v, Fields[i].frequency))>> \o Row(v, i)]
    BY DEF ReadSum
  <2> HIDE DEF Row
  <2>3. QED
    BY <1>2, <2>1, <2>2
<1>4. QED
  BY <1>3, SumAtIs

\* What an evaluation returns and leaves cached.
LEMMA EvaluateIs ==
  ASSUME NEW cached, CachesServe(cached), NEW t, NEW address \in Addresses
  PROVE  LET evaluated == Evaluate(cached, t, address)
         IN  /\ CachesServe(evaluated.caches)
             /\ ~ evaluated.ok => evaluated.caches = cached
             /\ evaluated.ok =>
                  /\ evaluated.flux # NoFlux /\ evaluated.flux.sum = SumAt(t)
                  /\ evaluated.caches.flux = evaluated.flux
                  /\ evaluated.flux = cached.flux \/ evaluated.flux.address = address
PROOF
<1> DEFINE evaluated == Evaluate(cached, t, address)
           fields == FilledFields(cached, t)
           scales == FilledScales(cached, t)
           flux == [address |-> address, sum |-> Sum(fields, scales, t)]
           kept == [key |-> SurfaceKey(t), flux |-> flux,
                    fields |-> Prune(fields, t), scales |-> Prune(scales, t)]
<1>1. CASE Hit(cached, t)
  <2>1. evaluated.ok /\ evaluated.caches = cached /\ evaluated.flux = cached.flux
    BY <1>1 DEF Evaluate
  <2>2. cached.flux # NoFlux /\ cached.flux.sum = SumAt(t)
    BY <1>1 DEF Hit, CachesServe, FluxOfKey
  <2> HIDE DEF evaluated
  <2>3. QED
    BY <2>1, <2>2 DEF evaluated
<1>2. CASE ~ Hit(cached, t) /\ ~ Readables(t)
  <2>1. ~ evaluated.ok /\ evaluated.caches = cached
    BY <1>2 DEF Evaluate
  <2> HIDE DEF evaluated
  <2>2. QED
    BY <2>1 DEF evaluated
<1>3. CASE ~ Hit(cached, t) /\ Readables(t)
  <2>1. evaluated.ok /\ evaluated.caches = kept /\ evaluated.flux = flux
    BY <1>3 DEF Evaluate
  <2>2. /\ ArraysRead(fields, scales)
        /\ DOMAIN fields = DOMAIN cached.fields \cup FieldKeys(t)
        /\ DOMAIN scales = DOMAIN cached.scales \cup ScaleKeys(t)
    BY ArraysFilled DEF CachesServe
  <2>3. flux.sum = SumAt(t) /\ flux.address = address
    <3> HIDE DEF fields, scales
    <3>1. Sum(fields, scales, t) = ReadSum(t)
      BY <2>2, SumIs
    <3>2. QED
      BY <3>1, SumAtIs
  <2>4. flux # NoFlux
    <3>1. address # -1
      BY AddressesAssumption
    <3>2. NoFlux.address = -1
      BY DEF NoFlux
    <3> HIDE DEF flux
    <3>3. QED
      BY <2>3, <3>1, <3>2
  <2>5. ArraysRead(Prune(fields, t), Prune(scales, t))
    <3> HIDE DEF fields, scales
    <3>1. QED
      BY <2>2 DEF Prune, Restrict, ArraysRead
  <2>6. CachesServe(kept)
    <3>1. FluxOfKey(kept)
      <4> SUFFICES ASSUME NEW u, SurfaceKey(u) = SurfaceKey(t) PROVE flux.sum = SumAt(u)
        BY DEF FluxOfKey
      <4> HIDE DEF flux
      <4>1. QED
        BY <2>3, KeyDecides
    <3>2. QED
      BY <2>5, <3>1 DEF CachesServe
  <2>7. kept.flux = flux
    OBVIOUS
  <2> HIDE DEF evaluated, kept, flux
  <2>8. QED
    BY <2>1, <2>3, <2>4, <2>6, <2>7 DEF evaluated
<1>4. QED
  BY <1>1, <1>2, <1>3

-----------------------------------------------------------------------------
(* The flux of every step, from the caches to the kernels.                 *)

\* The fluxes that something refers to, and what stands where there is none.
FluxMembers ==
  {active, caches.flux} \cup {s.flux : s \in {hostStep, nextStep} \ {NoStep}}

FluxesUnique ==
  /\ \A f \in FluxMembers : f = NoFlux \/ f.address \in Addresses
  /\ \A f, g \in FluxMembers : f.address = g.address => f = g

\* What is in force after the evaluations at these midpoints.
Expected(midpoints) ==
  IF midpoints = {} THEN Nothing ELSE SumAt(Clock(Max(midpoints)))

\* When the step began whose emissions were evaluated for a midpoint.
Began(midpoint) == midpoint - run.edt \div 2

\* A host step with the emissions of the step that begins then, if they are due.
StepEmits(step, elapsed) ==
  \/ step.midpoint = -1 /\ ~ Due(elapsed)
  \/ /\ Due(elapsed) /\ step.midpoint = Midpoint(elapsed, run.edt)
     /\ step.flux # NoFlux /\ step.flux.sum = SumAt(Clock(step.midpoint))

\* Steps that have been handed over.
Taken(step) == step \in Nat /\ (step < steps \/ (Working /\ step = steps))

HostEmits ==
  /\ CachesServe(caches)
  /\ FluxesUnique
  /\ hostStep # NoStep /\ (pc = "loop" \/ Working) => StepEmits(hostStep, current)
  /\ nextStep # NoStep => StepEmits(nextStep, current + run.dt)
  /\ refreshed \in Seq(Nat)
  /\ \A m \in Range(refreshed) : \E k \in Nat : Taken(k) /\ Began(m) = k * run.dt
  /\ \A k \in Nat : Taken(k) /\ Due(k * run.dt) => Midpoint(k * run.dt, run.edt) \in Range(refreshed)
  /\ FluxSum(active) = Expected(Range(refreshed))

QueueEmits ==
  /\ \A i \in DOMAIN queue : queue[i].op = "upload" /\ queue[i].kind = "flux" =>
       /\ queue[i].content = FluxSum(active)
       /\ \A j \in 1..(i - 1) : queue[j].op = "upload"
  /\ \A i \in DOMAIN queue : queue[i].op = "step" =>
       FluxSum(active) = Expected(RefreshesBefore(queue[i].step))
  /\ identities["flux"] \in {0, active.address}
  /\ queue # <<>> => identities["flux"] = active.address
  /\ pc = "start" \/ run.backend = "cpu" => identities["flux"] = 0
  /\ "flux" \in DOMAIN device
  /\ NoCopy("flux") /\ identities["flux"] = active.address => device["flux"] = FluxSum(active)
  /\ used # NoUse => Taken(used.step) /\ used.flux = Expected(RefreshesBefore(used.step))

Emitted == Served /\ HostEmits /\ QueueEmits

\* A prepared step, and the caches it leaves.
LEMMA PreparedEmits ==
  ASSUME Timing, CachesServe(caches), NEW elapsed \in Nat, NEW prepared \in Preparations(elapsed)
  PROVE  /\ CachesServe(prepared.caches)
         /\ prepared.ok => StepEmits(prepared.step, elapsed)
         /\ \E new :
              /\ new.address \in Addresses \ LiveFluxes
              /\ prepared.caches.flux \in {caches.flux, new}
              /\ prepared.ok => prepared.step.flux \in {caches.flux, new, NoFlux}
PROOF
<1>1. PICK fresh \in FreshBlocks, address \in Addresses \ LiveFluxes :
        prepared = Prepared(elapsed, fresh, address)
  BY DEF Preparations, Lowest, Highest
<1> DEFINE chunks == Chunks(elapsed, fresh)
           midpoint == Midpoint(elapsed, run.edt)
           evaluated == Evaluate(caches, Clock(midpoint), address)
           emits == chunks.ok /\ Due(elapsed)
<1>2. /\ prepared.ok = (chunks.ok /\ (emits => evaluated.ok))
      /\ prepared.caches = IF emits THEN evaluated.caches ELSE caches
      /\ prepared.step.flux = IF emits THEN evaluated.flux ELSE NoFlux
      /\ prepared.step.midpoint = IF emits THEN midpoint ELSE -1
  BY <1>1 DEF Prepared
<1>3. /\ CachesServe(evaluated.caches)
      /\ ~ evaluated.ok => evaluated.caches = caches
      /\ evaluated.ok =>
           /\ evaluated.flux # NoFlux /\ evaluated.flux.sum = SumAt(Clock(midpoint))
           /\ evaluated.caches.flux = evaluated.flux
           /\ evaluated.flux = caches.flux \/ evaluated.flux.address = address
  <2> DEFINE t == Clock(midpoint)
  <2> HIDE DEF t
  <2>1. /\ CachesServe(Evaluate(caches, t, address).caches)
        /\ ~ Evaluate(caches, t, address).ok => Evaluate(caches, t, address).caches = caches
        /\ Evaluate(caches, t, address).ok =>
             /\ Evaluate(caches, t, address).flux # NoFlux
             /\ Evaluate(caches, t, address).flux.sum = SumAt(t)
             /\ Evaluate(caches, t, address).caches.flux = Evaluate(caches, t, address).flux
             /\ \/ Evaluate(caches, t, address).flux = caches.flux
                \/ Evaluate(caches, t, address).flux.address = address
    BY EvaluateIs
  <2>2. QED
    BY <2>1 DEF t
<1>4. emits \in BOOLEAN
  BY DEF Due, IsTimeForEmissions
<1> HIDE DEF chunks, evaluated, midpoint
<1>5. CachesServe(prepared.caches)
  BY <1>2, <1>3
<1>6. prepared.ok => StepEmits(prepared.step, elapsed)
  BY <1>2, <1>3 DEF StepEmits, midpoint
<1>7. CASE emits /\ evaluated.ok /\ evaluated.flux.address = address
  <2>1. /\ prepared.caches.flux = evaluated.flux
        /\ prepared.step.flux = evaluated.flux
    BY <1>2, <1>3, <1>7
  <2>2. QED
    BY <1>5, <1>6, <1>7, <2>1
<1>8. CASE ~ (emits /\ evaluated.ok /\ evaluated.flux.address = address)
  <2> DEFINE new == [address |-> address]
  <2>1. new.address \in Addresses \ LiveFluxes
    OBVIOUS
  <2>2. prepared.caches.flux = caches.flux
    BY <1>2, <1>3, <1>8
  <2>3. prepared.ok => prepared.step.flux \in {caches.flux, NoFlux}
    BY <1>2, <1>3, <1>8
  <2> HIDE DEF new
  <2>4. QED
    BY <1>5, <1>6, <2>1, <2>2, <2>3
<1>9. QED
  BY <1>7, <1>8

\* An evaluation leaves every address with one flux.
LEMMA FluxAllocate ==
  ASSUME FluxesUnique, NEW new, new.address \in Addresses \ LiveFluxes,
         FluxMembers' \subseteq FluxMembers \cup {new, NoFlux}
  PROVE  FluxesUnique'
PROOF
<1> DEFINE M == FluxMembers \cup {new, NoFlux}
<1>1. NoFlux.address = -1 /\ -1 \notin Addresses
  BY AddressesAssumption DEF NoFlux
<1>2. \A f \in FluxMembers : f # NoFlux => f.address \in LiveFluxes
  BY DEF FluxMembers, LiveFluxes
<1>3. \A f \in M : f = NoFlux \/ f.address \in Addresses
  BY DEF FluxesUnique
<1>4. \A f \in FluxMembers : f.address # new.address
  BY <1>1, <1>2
<1>5. \A f, g \in M : f.address = g.address => f = g
  <2> SUFFICES ASSUME NEW f \in M, NEW g \in M, f.address = g.address PROVE f = g
    OBVIOUS
  <2>1. CASE f = NoFlux \/ g = NoFlux
    BY <1>1, <1>3, <2>1
  <2>2. CASE f = new /\ g = new
    BY <2>2
  <2>3. CASE f \in FluxMembers /\ g \in FluxMembers
    BY <2>3 DEF FluxesUnique
  <2>4. QED
    BY <1>4, <2>1, <2>2, <2>3
<1> HIDE DEF M
<1>6. \A f \in FluxMembers' : f \in M
  BY DEF M
<1>7. QED
  BY <1>3, <1>5, <1>6 DEF FluxesUnique

-----------------------------------------------------------------------------
(* Every action keeps the fluxes of the steps.                             *)

\* No address of a flux is 0.
LEMMA FluxAddressed ==
  ASSUME FluxesUnique, NEW f \in FluxMembers
  PROVE  f.address # 0
PROOF BY AddressesAssumption DEF FluxesUnique, NoFlux

\* With no more fluxes referred to, each address stays with one.
LEMMA FluxesStayUnique ==
  ASSUME FluxesUnique, FluxMembers' \subseteq FluxMembers
  PROVE  FluxesUnique'
PROOF BY DEF FluxesUnique

\* Steps that have been handed over begin no later than the one in hand.
LEMMA TakenBegan ==
  ASSUME Timing, NEW k \in Nat, NEW l \in Nat
  PROVE  /\ k * run.dt \in Nat
         /\ k <= l <=> k * run.dt <= l * run.dt
PROOF
<1>1. run.dt \in Nat \ {0}
  BY RunIs
<1> DEFINE d == run.dt
<1> HIDE DEF d
<1>2. d \in Nat \ {0}
  BY <1>1 DEF d
<1>3. k * d \in Nat
  BY <1>2, NatProducts
<1>4. k * d <= l * d <=> k <= l
  BY <1>2, Products
<1>5. QED
  BY <1>3, <1>4 DEF d

\* A midpoint belongs to the step at which it was evaluated.
LEMMA MidpointBegan ==
  ASSUME Timing, NEW elapsed \in Nat
  PROVE  /\ run.edt \div 2 \in Nat
         /\ Midpoint(elapsed, run.edt) \in Nat
         /\ Midpoint(elapsed, run.edt) = elapsed + run.edt \div 2
         /\ Began(Midpoint(elapsed, run.edt)) = elapsed
PROOF
<1>1. run.edt \div 2 \in Nat
  BY RunIs
<1>2. QED
  BY <1>1 DEF Midpoint, Began

\* Handing over a step evaluates what is due, and changes nothing for the
\* steps before it.
LEMMA ActivateEmits ==
  ASSUME Timing, HostEmits, ~ Working, NEW step, StepEmits(step, current), Activate(step),
         UNCHANGED run
  PROVE  /\ refreshed' \in Seq(Nat)
         /\ \A m \in Range(refreshed') : \E k \in Nat : k <= steps /\ Began(m) = k * run.dt
         /\ \A k \in Nat : k <= steps /\ Due(k * run.dt) =>
              Midpoint(k * run.dt, run.edt) \in Range(refreshed')
         /\ FluxSum(active') = Expected(Range(refreshed'))
         /\ \A k \in Nat : k < steps => RefreshesBefore(k)' = RefreshesBefore(k)
         /\ \A k \in Nat : k = steps => RefreshesBefore(k)' = Range(refreshed')
PROOF
<1> DEFINE mid == Midpoint(current, run.edt)
           half == run.edt \div 2
           Old == Range(refreshed)
           New == Range(refreshed')
<1>1. /\ steps \in Nat /\ current \in Nat /\ current = steps * run.dt /\ half \in Nat
      /\ mid \in Nat /\ mid = current + half /\ Began(mid) = current
  BY RunIs, MidpointBegan
<1>2. \A m : Began(m) = m - half
  BY DEF Began
<1> HIDE DEF mid, half
<1>3. refreshed \in Seq(Nat) /\ Old \subseteq Nat
  <2>1. refreshed \in Seq(Nat)
    BY DEF HostEmits
  <2>2. DOMAIN refreshed = 1..Len(refreshed) /\ \A i \in 1..Len(refreshed) : refreshed[i] \in Nat
    BY <2>1, LenProperties, ElementOfSeq
  <2>3. QED
    BY <2>1, <2>2 DEF Range
<1>4. /\ \A m \in Old : \E k \in Nat : k < steps /\ Began(m) = k * run.dt
      /\ \A k \in Nat : k < steps /\ Due(k * run.dt) => Midpoint(k * run.dt, run.edt) \in Old
      /\ FluxSum(active) = Expected(Old)
  BY <1>1 DEF HostEmits, Taken
<1>5. \/ /\ ~ Due(current) /\ New = Old /\ refreshed' = refreshed /\ active' = active
      \/ /\ Due(current) /\ New = Old \cup {mid} /\ refreshed' \in Seq(Nat)
         /\ active'.sum = SumAt(Clock(mid)) /\ active' # NoFlux
  <2>1. CASE step.midpoint = -1
    <3>1. refreshed' = refreshed /\ active' = active
      BY <2>1 DEF Activate
    <3>2. ~ Due(current)
      BY <1>1, <2>1 DEF StepEmits, mid
    <3>3. QED
      BY <3>1, <3>2
  <2>2. CASE step.midpoint # -1
    <3>1. /\ Due(current) /\ step.midpoint = mid /\ step.flux # NoFlux
          /\ step.flux.sum = SumAt(Clock(mid))
      BY <2>2 DEF StepEmits, mid
    <3>2. refreshed' = Append(refreshed, mid) /\ active' = step.flux
      BY <2>2, <3>1 DEF Activate
    <3>3. refreshed' \in Seq(Nat)
      BY <1>1, <1>3, <3>2
    <3>4. New = Old \cup {mid}
      <4>1. <<mid>> \in Seq(Nat) /\ Range(<<mid>>) = {mid}
        BY <1>1, SingleIsSeq
      <4>2. Append(refreshed, mid) = refreshed \o <<mid>>
        BY <1>1, <1>3, AppendIsConcat
      <4>3. Range(refreshed \o <<mid>>) = Range(refreshed) \cup Range(<<mid>>)
        BY ZenonT(60), <1>3, <4>1, RangeConcatenation
      <4>4. QED
        BY <3>2, <4>1, <4>2, <4>3
    <3>5. QED
      BY <3>1, <3>2, <3>3, <3>4
  <2>3. QED
    BY <2>1, <2>2
<1>6. refreshed' \in Seq(Nat)
  BY <1>3, <1>5
<1>7. \A m \in New : \E k \in Nat : k <= steps /\ Began(m) = k * run.dt
  <2>1. \A k \in Nat : k < steps => k <= steps
    BY <1>1
  <2>2. QED
    BY <1>1, <1>4, <1>5, <2>1
<1>8. ASSUME NEW k \in Nat, k <= steps, Due(k * run.dt)
      PROVE  Midpoint(k * run.dt, run.edt) \in New
  <2>1. CASE k = steps
    BY <1>1, <1>5, <1>8, <2>1 DEF mid
  <2>2. CASE k # steps
    <3>1. k < steps
      BY <1>1, <1>8, <2>2
    <3>2. QED
      BY <1>4, <1>5, <1>8, <3>1
  <2>3. QED
    BY <2>1, <2>2
<1>9. \A m \in Old : m \in Nat /\ m < mid
  <2> SUFFICES ASSUME NEW m \in Old PROVE m \in Nat /\ m < mid
    OBVIOUS
  <2>1. m \in Nat
    BY <1>3
  <2>2. PICK k \in Nat : k < steps /\ Began(m) = k * run.dt
    BY <1>4
  <2>3. k * run.dt \in Nat /\ k * run.dt < current
    BY <1>1, <2>2, TakenBegan
  <2>4. m - half < current
    BY <1>2, <2>2, <2>3
  <2>5. QED
    BY <1>1, <2>1, <2>4
<1>10. FluxSum(active') = Expected(New)
  <2>1. CASE New = Old /\ active' = active
    BY <1>4, <2>1
  <2>2. CASE /\ New = Old \cup {mid}
             /\ active'.sum = SumAt(Clock(mid)) /\ active' # NoFlux
    <3>1. mid \in New /\ \A m \in New : m <= mid
      BY <1>1, <1>9, <2>2
    <3>2. \A x \in New : (\A m \in New : m <= x) => x = mid
      BY <1>1, <1>9, <2>2, <3>1
    <3> HIDE DEF New
    <3>3. Max(New) = mid
      BY <3>1, <3>2 DEF Max
    <3>4. QED
      BY <2>2, <3>1, <3>3 DEF Expected, FluxSum
  <2>3. QED
    BY <1>5, <2>1, <2>2
<1>11. ASSUME NEW k \in Nat, k < steps
       PROVE  RefreshesBefore(k)' = RefreshesBefore(k)
  <2>1. k * run.dt \in Nat /\ k * run.dt < current
    BY <1>1, <1>11, TakenBegan
  <2>2. ~ (mid - half <= k * run.dt)
    BY <1>1, <2>1
  <2>3. /\ RefreshesBefore(k)' = {m \in New : m - half <= k * run.dt}
        /\ RefreshesBefore(k) = {m \in Old : m - half <= k * run.dt}
    BY DEF RefreshesBefore, half
  <2>4. QED
    BY <1>5, <2>2, <2>3
<1>12. ASSUME NEW k \in Nat, k = steps
       PROVE  RefreshesBefore(k)' = New
  <2>1. RefreshesBefore(k)' = {m \in New : m - half <= k * run.dt}
    BY DEF RefreshesBefore, half
  <2>2. \A m \in Old : m - half <= k * run.dt
    BY <1>1, <1>9, <1>12
  <2>3. mid - half <= k * run.dt
    BY <1>1, <1>12
  <2>4. QED
    BY <1>5, <2>1, <2>2, <2>3
<1>13. QED
  BY <1>6, <1>7, <1>8, <1>10, <1>11, <1>12

\* Where nothing is prepared, handed over, executed or completed.
LEMMA EmissionsStay ==
  ASSUME Emitted,
         UNCHANGED <<run, steps, current, caches, active, refreshed, hostStep, nextStep, identities,
                     queue, device, used>>,
         Working' <=> Working,
         pc' = "loop" => pc = "loop" \/ hostStep = NoStep,
         pc' = "start" => pc = "start"
  PROVE  HostEmits' /\ QueueEmits'
PROOF
<1>1. FluxMembers' = FluxMembers /\ (\A f : FluxSum(f)' = FluxSum(f))
  BY DEF FluxMembers, FluxSum
<1>2. \A k : Taken(k)' <=> Taken(k)
  BY DEF Taken
<1>3. \A k : /\ RefreshesBefore(k)' = RefreshesBefore(k)
             /\ StepEmits(hostStep, k)' <=> StepEmits(hostStep, k)
  BY DEF RefreshesBefore, StepEmits, Due, Clock
<1>4. StepEmits(nextStep, current + run.dt)' <=> StepEmits(nextStep, current + run.dt)
  BY DEF StepEmits, Due, Clock
<1>5. \A s : Expected(s)' = Expected(s)
  BY DEF Expected, Clock
<1>6. HostEmits'
  BY <1>1, <1>2, <1>3, <1>4, <1>5 DEF Emitted, HostEmits, FluxesUnique, Began, Due, StepEmits, Clock
<1>7. QueueEmits'
  BY <1>1, <1>2, <1>3, <1>5 DEF Emitted, QueueEmits, NoCopy
<1>8. QED
  BY <1>6, <1>7

LEMMA PrepareHostStepEmits ==
  ASSUME Emitted, PrepareHostStep
  PROVE  HostEmits' /\ QueueEmits'
PROOF
<1>1. /\ pc = "loop" /\ hostStep = NoStep /\ pc' \in {"loop", "failed"}
      /\ UNCHANGED <<run, current, steps, active, refreshed, nextStep, identities, queue, device, used>>
  BY DEF PrepareHostStep
<1>2. PICK prepared \in Preparations(current) :
        /\ caches' = prepared.caches
        /\ IF prepared.ok THEN hostStep' = prepared.step /\ UNCHANGED pc
           ELSE pc' = "failed" /\ UNCHANGED hostStep
  BY DEF PrepareHostStep
<1>3. current \in Nat /\ Timing /\ CachesServe(caches) /\ nextStep = NoStep
  BY <1>1, RunIs DEF Emitted, Served, Inputs, HostServed, HostEmits
<1>4. /\ CachesServe(prepared.caches)
      /\ prepared.ok => StepEmits(prepared.step, current)
  BY <1>3, PreparedEmits
<1>5. PICK new :
        /\ new.address \in Addresses \ LiveFluxes
        /\ prepared.caches.flux \in {caches.flux, new}
        /\ prepared.ok => prepared.step.flux \in {caches.flux, new, NoFlux}
  BY <1>3, PreparedEmits
<1>6. FluxesUnique'
  <2>1. FluxMembers' \subseteq FluxMembers \cup {new, NoFlux}
    BY <1>1, <1>2, <1>3, <1>5 DEF FluxMembers
  <2>2. QED
    BY <1>5, <2>1, FluxAllocate DEF Emitted, HostEmits
<1>7. HostEmits'
  BY <1>1, <1>2, <1>3, <1>4, <1>6
     DEF Emitted, HostEmits, StepEmits, Due, Clock, Working, Taken, Began, Expected, FluxSum
<1>8. QueueEmits'
  BY <1>1 DEF Emitted, QueueEmits, Working, Taken, Expected, FluxSum, RefreshesBefore, NoCopy, Clock
<1>9. QED
  BY <1>7, <1>8

LEMMA PrefetchEmits ==
  ASSUME Emitted, Prefetch
  PROVE  HostEmits' /\ QueueEmits'
PROOF
<1>1. /\ pc = "prefetch" /\ pc' \in {"boundary", "lastbatch"}
      /\ UNCHANGED <<run, current, steps, active, refreshed, hostStep, identities, queue, device, used>>
  BY DEF Prefetch
<1>2. current + run.dt \in Nat /\ Timing /\ CachesServe(caches) /\ nextStep = NoStep
  BY <1>1, RunIs DEF Emitted, Served, Inputs, HostServed, HostEmits
<1>3. /\ CachesServe(caches')
      /\ nextStep' # NoStep => StepEmits(nextStep', current + run.dt)
      /\ FluxesUnique'
  <2>1. CASE More(current + run.dt, steps + 1)
    <3>1. PICK prepared \in Preparations(current + run.dt) :
            /\ caches' = prepared.caches
            /\ nextStep' = IF prepared.ok THEN prepared.step ELSE NoStep
      BY <2>1 DEF Prefetch
    <3>2. /\ CachesServe(prepared.caches)
          /\ prepared.ok => StepEmits(prepared.step, current + run.dt)
      BY <1>2, PreparedEmits
    <3>3. PICK new :
            /\ new.address \in Addresses \ LiveFluxes
            /\ prepared.caches.flux \in {caches.flux, new}
            /\ prepared.ok => prepared.step.flux \in {caches.flux, new, NoFlux}
      BY <1>2, PreparedEmits
    <3>4. FluxMembers' \subseteq FluxMembers \cup {new, NoFlux}
      BY <1>1, <1>2, <3>1, <3>3 DEF FluxMembers
    <3>5. FluxesUnique'
      BY <3>3, <3>4, FluxAllocate DEF Emitted, HostEmits
    <3>6. QED
      BY <3>1, <3>2, <3>5
  <2>2. CASE ~ More(current + run.dt, steps + 1)
    <3>1. nextStep' = NoStep /\ UNCHANGED caches
      BY <2>2 DEF Prefetch
    <3>2. FluxMembers' = FluxMembers
      BY <1>1, <1>2, <3>1 DEF FluxMembers
    <3>3. QED
      BY <1>2, <3>1, <3>2 DEF Emitted, HostEmits, FluxesUnique
  <2>3. QED
    BY <2>1, <2>2
<1>4. HostEmits'
  BY <1>1, <1>3
     DEF Emitted, HostEmits, StepEmits, Due, Clock, Working, Taken, Began, Expected, FluxSum
<1>5. QueueEmits'
  BY <1>1 DEF Emitted, QueueEmits, Working, Taken, Expected, FluxSum, RefreshesBefore, NoCopy, Clock
<1>6. QED
  BY <1>4, <1>5

LEMMA CompleteStepEmits ==
  ASSUME Emitted, CompleteStep
  PROVE  HostEmits' /\ QueueEmits'
PROOF
<1>1. /\ pc \in {"boundary", "lastbatch"} /\ pc' \in {"loop", "failed"}
      /\ steps' = steps + 1 /\ current' = current + run.dt /\ nextStep' = NoStep
      /\ UNCHANGED <<run, caches, active, refreshed, identities, queue, device, used>>
  BY DEF CompleteStep, StepEnds
<1>2. \/ pc' = "failed" /\ UNCHANGED hostStep
      \/ pc' = "loop" /\ hostStep' = nextStep
  BY DEF CompleteStep, StepEnds
<1>3. steps \in Nat
  BY RunIs DEF Emitted, Served, Inputs
<1>4. Working /\ ~ Working'
  BY <1>1 DEF Working
<1>5. \A k : Taken(k)' <=> Taken(k)
  <2> SUFFICES ASSUME NEW k PROVE Taken(k)' <=> Taken(k)
    OBVIOUS
  <2>1. k \in Nat => (k < steps + 1 <=> k < steps \/ k = steps)
    BY <1>3
  <2>2. QED
    BY <1>1, <1>4, <2>1 DEF Taken
<1>6. FluxesUnique'
  <2>1. FluxMembers' \subseteq FluxMembers
    BY <1>1, <1>2 DEF FluxMembers
  <2>2. QED
    BY <2>1, FluxesStayUnique DEF Emitted, HostEmits
<1>7. hostStep' # NoStep /\ (pc' = "loop" \/ Working') => StepEmits(hostStep', current')
  BY <1>1, <1>2, <1>4 DEF Emitted, HostEmits, StepEmits, Due, Clock
<1>8. HostEmits'
  BY <1>1, <1>5, <1>6, <1>7
     DEF Emitted, HostEmits, StepEmits, Due, Clock, Began, Expected, FluxSum
<1>9. QueueEmits'
  BY <1>1, <1>5 DEF Emitted, QueueEmits, Expected, FluxSum, RefreshesBefore, NoCopy, Clock
<1>10. QED
  BY <1>8, <1>9

LEMMA CpuStepEmits ==
  ASSUME Emitted, CpuStep
  PROVE  HostEmits' /\ QueueEmits'
PROOF
<1>1. /\ pc = "loop" /\ run.backend = "cpu"
      /\ UNCHANGED <<run, hostStep, nextStep, identities, queue, device>>
  BY DEF CpuStep
<1>2. PICK prepared \in Preparations(current) :
        /\ caches' = prepared.caches
        /\ IF prepared.ok
           THEN /\ Activate(prepared.step)
                /\ used' = Seen(HostRows(prepared.step.selection), prepared.step.selection,
                                FluxSum(active'), steps)
                /\ steps' = steps + 1 /\ current' = current + run.dt /\ UNCHANGED pc
           ELSE pc' = "failed" /\ UNCHANGED <<active, refreshed, used, steps, current>>
  BY DEF CpuStep
<1>3. /\ current \in Nat /\ steps \in Nat /\ Timing /\ CachesServe(caches)
      /\ hostStep = NoStep /\ nextStep = NoStep /\ queue = <<>> /\ identities["flux"] = 0
  BY <1>1, RunIs DEF Emitted, Served, Inputs, Phases, HostServed, HostEmits, QueueEmits
<1>4. /\ CachesServe(prepared.caches)
      /\ prepared.ok => StepEmits(prepared.step, current)
  BY <1>3, PreparedEmits
<1>5. PICK new :
        /\ new.address \in Addresses \ LiveFluxes
        /\ prepared.caches.flux \in {caches.flux, new}
        /\ prepared.ok => prepared.step.flux \in {caches.flux, new, NoFlux}
  BY <1>3, PreparedEmits
<1>6. FluxesUnique'
  <2>1. active' \in {active, caches.flux, new, NoFlux}
    BY <1>2, <1>5 DEF Activate
  <2>2. FluxMembers' \subseteq FluxMembers \cup {new, NoFlux}
    BY <1>1, <1>2, <1>3, <1>5, <2>1 DEF FluxMembers
  <2>3. QED
    BY <1>5, <2>2, FluxAllocate DEF Emitted, HostEmits
<1>7. ~ Working
  BY <1>1 DEF Working
<1>8. CASE prepared.ok
  <2> DEFINE selection == prepared.step.selection
  <2>1. /\ refreshed' \in Seq(Nat)
        /\ \A m \in Range(refreshed') : \E k \in Nat : k <= steps /\ Began(m) = k * run.dt
        /\ \A k \in Nat : k <= steps /\ Due(k * run.dt) =>
             Midpoint(k * run.dt, run.edt) \in Range(refreshed')
        /\ FluxSum(active') = Expected(Range(refreshed'))
        /\ \A k \in Nat : k = steps => RefreshesBefore(k)' = Range(refreshed')
    BY <1>1, <1>2, <1>3, <1>4, <1>7, <1>8, ActivateEmits DEF Emitted
  <2>2. steps' = steps + 1 /\ current' = current + run.dt /\ pc' = "loop" /\ ~ Working'
    BY <1>1, <1>2, <1>8 DEF Working
  <2>3. \A k \in Nat : Taken(k)' <=> k <= steps
    <3> SUFFICES ASSUME NEW k \in Nat PROVE Taken(k)' <=> k <= steps
      OBVIOUS
    <3>1. k < steps + 1 <=> k <= steps
      BY <1>3
    <3>2. QED
      BY <2>2, <3>1 DEF Taken
  <2>4. HostEmits'
    BY <1>1, <1>2, <1>3, <1>4, <1>6, <2>1, <2>3
       DEF HostEmits, Due, Clock, Began, Expected, FluxSum
  <2>5. used'.step = steps /\ used'.flux = FluxSum(active')
    <3> HIDE DEF selection
    <3>1. used' = Seen(HostRows(selection), selection, FluxSum(active'), steps)
      BY <1>2, <1>8 DEF selection
    <3>2. QED
      BY <3>1 DEF Seen
  <2>6. (used # NoUse => Taken(used.step) /\ used.flux = Expected(RefreshesBefore(used.step)))'
    <3>1. Taken(used.step)'
      BY <1>3, <2>2, <2>5 DEF Taken
    <3>2. RefreshesBefore(used.step)' = Range(refreshed')
      <4>1. PICK k \in Nat : k = steps
        BY <1>3
      <4>2. RefreshesBefore(k)' = Range(refreshed')
        BY <2>1, <4>1
      <4>3. used'.step = k
        BY <2>5, <4>1
      <4>4. QED
        BY <4>2, <4>3 DEF RefreshesBefore
    <3>3. Expected(RefreshesBefore(used.step))' = Expected(Range(refreshed'))
      BY <1>1, <3>2 DEF Expected, Clock
    <3>4. QED
      BY <2>1, <2>5, <3>1, <3>3
  <2>7. QueueEmits'
    <3>1. DOMAIN queue' = {} /\ queue' = <<>>
      BY <1>1, <1>3, EmptyIsSeq
    <3>2. active'.address # 0
      BY <1>6, AddressesAssumption DEF FluxesUnique, FluxMembers, NoFlux
    <3>3. QED
      BY <1>1, <1>3, <2>6, <3>1, <3>2 DEF Emitted, QueueEmits
  <2>8. QED
    BY <2>4, <2>7
<1>9. CASE ~ prepared.ok
  <2>1. pc' = "failed" /\ UNCHANGED <<active, refreshed, used, steps, current>>
    BY <1>2, <1>9
  <2>2. HostEmits'
    BY <1>1, <1>2, <1>3, <1>4, <1>6, <2>1
       DEF Emitted, HostEmits, StepEmits, Due, Clock, Working, Taken, Began, Expected, FluxSum
  <2>3. QueueEmits'
    BY <1>1, <2>1
       DEF Emitted, QueueEmits, Working, Taken, Expected, FluxSum, RefreshesBefore, NoCopy, Clock
  <2>4. QED
    BY <2>2, <2>3
<1>10. QED
  BY <1>8, <1>9

LEMMA DeviceRunsEmits ==
  ASSUME Emitted, DeviceRuns
  PROVE  HostEmits' /\ QueueEmits'
PROOF
<1> DEFINE n == Len(queue)
           op == Head(queue)
           seen == Seen(device, op.selection, device.flux, op.step)
<1>1. /\ queue # <<>> /\ queue' = Tail(queue)
      /\ IF op.op = "upload"
         THEN device' = [device EXCEPT ![op.kind] = op.content] /\ UNCHANGED used
         ELSE used' = seen /\ device' = [device EXCEPT !.met = seen]
      /\ UNCHANGED <<run, pc, current, steps, caches, active, refreshed, hostStep, nextStep, identities>>
  BY DEF DeviceRuns, hostVars
<1>2. HostEmits'
  <2>1. FluxMembers' = FluxMembers
    BY <1>1 DEF FluxMembers
  <2>2. QED
    BY <1>1, <2>1 DEF Emitted, HostEmits, FluxesUnique, StepEmits, Due, Clock, Working, Taken,
                      Began, Expected, FluxSum
<1>3. /\ n \in Nat /\ n >= 1 /\ DOMAIN queue = 1..n /\ op = queue[1]
      /\ DOMAIN queue' = 1..(n - 1)
      /\ \A i \in 1..(n - 1) : queue'[i] = queue[i + 1]
  BY <1>1, TailIsSeq DEF Emitted, Served, Inputs, Kept
<1>4. seen.step = op.step /\ seen.flux = device.flux
  BY DEF Seen
<1> HIDE DEF n, op, seen
<1>5. 1 \in DOMAIN queue
  BY <1>3
<1>6. \/ op.op = "upload" /\ op.kind \in Kinds \cup {"flux"}
      \/ op.op = "step"
  BY <1>3, <1>5
     DEF Emitted, Served, Inputs, Kept, Fits, QueuedFlux, QueuedBlock, QueuedStep
<1>7. /\ \A k : Taken(k)' <=> Taken(k)
      /\ \A k : RefreshesBefore(k)' = RefreshesBefore(k)
      /\ \A s : Expected(s)' = Expected(s)
      /\ FluxSum(active)' = FluxSum(active)
  BY <1>1 DEF Taken, Working, RefreshesBefore, Expected, Clock, FluxSum
<1>8. ASSUME NEW i \in DOMAIN queue'
      PROVE  /\ queue'[i].op = "upload" /\ queue'[i].kind = "flux" =>
                  /\ queue'[i].content = FluxSum(active)
                  /\ \A j \in 1..(i - 1) : queue'[j].op = "upload"
             /\ queue'[i].op = "step" =>
                  FluxSum(active) = Expected(RefreshesBefore(queue'[i].step))
  <2>1. i \in Nat /\ i + 1 \in DOMAIN queue /\ queue'[i] = queue[i + 1] /\ (i + 1) - 1 = i
    BY <1>3
  <2>2. ASSUME queue'[i].op = "upload", queue'[i].kind = "flux", NEW j \in 1..(i - 1)
        PROVE  queue'[j].op = "upload"
    <3>1. j + 1 \in 1..i /\ queue'[j] = queue[j + 1]
      BY <1>3, <2>1
    <3>2. queue[j + 1].op = "upload"
      BY <2>1, <2>2, <3>1 DEF Emitted, QueueEmits
    <3>3. QED
      BY <3>1, <3>2
  <2>3. QED
    BY <2>1, <2>2 DEF Emitted, QueueEmits
<1>9. ASSUME op.op = "step"
      PROVE  NoCopy("flux") /\ device["flux"] = FluxSum(active)
  <2>1. NoCopy("flux")
    <3> SUFFICES ASSUME NEW i \in DOMAIN queue, queue[i].op = "upload", queue[i].kind = "flux"
                 PROVE FALSE
      BY DEF NoCopy
    <3>1. \A j \in 1..(i - 1) : queue[j].op = "upload"
      BY DEF Emitted, QueueEmits
    <3>2. i = 1 \/ 1 \in 1..(i - 1)
      BY <1>3
    <3>3. QED
      BY <1>3, <1>9, <3>1, <3>2
  <2>2. QED
    BY <1>1, <2>1 DEF Emitted, QueueEmits
<1>10. (used # NoUse => Taken(used.step) /\ used.flux = Expected(RefreshesBefore(used.step)))'
  <2>1. CASE op.op = "step"
    <3>1. StepOf(op)
      BY <1>3, <1>5, <2>1 DEF Emitted, Served, QueueServed
    <3>2. Taken(op.step)
      BY <3>1 DEF StepOf, Taken
    <3>3. FluxSum(active) = Expected(RefreshesBefore(op.step))
      BY <1>3, <1>5, <2>1 DEF Emitted, QueueEmits
    <3>4. used'.step = op.step /\ used'.flux = FluxSum(active)
      BY <1>1, <1>4, <1>9, <2>1
    <3>5. Expected(RefreshesBefore(used.step))' = Expected(RefreshesBefore(op.step))
      BY <1>1, <3>4 DEF Expected, RefreshesBefore, Clock
    <3>6. Taken(used.step)'
      BY <1>1, <3>2, <3>4 DEF Taken, Working
    <3>7. QED
      BY <3>3, <3>4, <3>5, <3>6
  <2>2. CASE op.op = "upload"
    <3>1. used' = used
      BY <1>1, <2>2
    <3>2. QED
      BY <1>1, <3>1 DEF Emitted, QueueEmits, Taken, Working, Expected, RefreshesBefore, Clock
  <2>3. QED
    BY <1>6, <2>1, <2>2
<1>11. "flux" \in DOMAIN device'
  BY <1>1 DEF Emitted, QueueEmits
<1>12. ASSUME NoCopy("flux")', identities["flux"] = active.address
       PROVE  device'["flux"] = FluxSum(active)
  <2>1. CASE op.op = "upload" /\ op.kind = "flux"
    <3>1. op.content = FluxSum(active)
      BY <1>3, <1>5, <2>1 DEF Emitted, QueueEmits
    <3>2. QED
      BY <1>1, <2>1, <3>1 DEF Emitted, QueueEmits
  <2>2. CASE ~ (op.op = "upload" /\ op.kind = "flux")
    <3>1. NoCopy("flux")
      <4> SUFFICES ASSUME NEW i \in 1..n, queue[i].op = "upload" PROVE queue[i].kind # "flux"
        BY <1>3 DEF NoCopy
      <4>1. CASE i = 1
        BY <1>3, <2>2, <4>1
      <4>2. CASE i # 1
        <5>1. i - 1 \in 1..(n - 1) /\ (i - 1) + 1 = i
          BY <1>3, <4>2
        <5>2. queue'[i - 1] = queue[i]
          BY <1>3, <5>1
        <5>3. QED
          BY <1>3, <1>12, <5>1, <5>2 DEF NoCopy
      <4>3. QED
        BY <4>1, <4>2
    <3>2. device'["flux"] = device["flux"]
      BY <1>1, <1>6, <2>2, KindsAre DEF Emitted, QueueEmits
    <3>3. QED
      BY <1>12, <3>1, <3>2 DEF Emitted, QueueEmits
  <2>3. QED
    BY <2>1, <2>2
<1>13. QueueEmits'
  BY <1>1, <1>7, <1>8, <1>10, <1>11, <1>12 DEF Emitted, QueueEmits
<1>14. QED
  BY <1>2, <1>13

LEMMA LaunchStepEmits ==
  ASSUME Emitted, LaunchStep
  PROVE  HostEmits' /\ QueueEmits'
PROOF
<1> DEFINE selection == hostStep.selection
           uploads == Uploads(selection, active')
           op == [op |-> "step", step |-> steps, selection |-> selection]
           last == <<op>>
           n == Len(queue)
           m == Len(uploads)
<1>1. /\ pc = "loop" /\ run.backend = "cuda" /\ hostStep # NoStep /\ pc' = "prefetch"
      /\ Activate(hostStep)
      /\ queue' = queue \o uploads \o last
      /\ UNCHANGED <<run, current, steps, caches, hostStep, nextStep, device, used>>
  BY DEF LaunchStep
<1>2. identities'["flux"] = active'.address
  BY FluxIdentityIs, KindsAre DEF LaunchStep
<1>3. ~ Working /\ Working' /\ Timing /\ steps \in Nat
  BY <1>1, RunIs DEF Working, Emitted, Served, Inputs
<1>4. active' \in FluxMembers /\ (hostStep.midpoint = -1 => active' = active)
      /\ (hostStep.midpoint # -1 => active' = hostStep.flux) /\ active \in FluxMembers
  BY <1>1 DEF Activate, FluxMembers
<1>5. /\ FluxesUnique /\ FluxesUnique'
      /\ active'.address # 0
      /\ active'.address = active.address => active' = active
  <2>1. FluxMembers' \subseteq FluxMembers
    BY <1>1, <1>4 DEF FluxMembers
  <2>2. FluxesUnique
    BY DEF Emitted, HostEmits
  <2>3. QED
    BY <1>4, <2>1, <2>2, FluxesStayUnique, FluxAddressed DEF FluxesUnique
<1>6. queue # <<>> => active' = active /\ identities["flux"] = active.address
  <2>1. queue # <<>> => hostStep.midpoint = -1 \/ hostStep.flux.address = active.address
    BY <1>1 DEF Emitted, Served, Inputs, Phases
  <2>2. QED
    BY <1>4, <1>5, <2>1 DEF Emitted, QueueEmits
<1>7. /\ refreshed' \in Seq(Nat)
      /\ \A r \in Range(refreshed') : \E k \in Nat : k <= steps /\ Began(r) = k * run.dt
      /\ \A k \in Nat : k <= steps /\ Due(k * run.dt) =>
           Midpoint(k * run.dt, run.edt) \in Range(refreshed')
      /\ FluxSum(active') = Expected(Range(refreshed'))
      /\ \A k \in Nat : k < steps => RefreshesBefore(k)' = RefreshesBefore(k)
      /\ \A k \in Nat : k = steps => RefreshesBefore(k)' = Range(refreshed')
  <2>1. StepEmits(hostStep, current)
    BY <1>1 DEF Emitted, HostEmits
  <2>2. QED
    BY <1>1, <1>3, <2>1, ActivateEmits DEF Emitted
<1>8. \A k \in Nat : Taken(k)' <=> k <= steps
  <2> SUFFICES ASSUME NEW k \in Nat PROVE Taken(k)' <=> k <= steps
    OBVIOUS
  <2>1. k <= steps <=> k < steps \/ k = steps
    BY <1>3
  <2>2. QED
    BY <1>1, <1>3, <2>1 DEF Taken
<1>9. \A s : Expected(s)' = Expected(s)
  BY <1>1 DEF Expected, Clock
<1>10. HostEmits'
  <2>1. FluxSum(active)' = FluxSum(active')
    BY DEF FluxSum
  <2>2. hostStep' # NoStep => StepEmits(hostStep', current')
    BY <1>1 DEF Emitted, HostEmits
  <2>3. StepEmits(hostStep, current)' <=> StepEmits(hostStep', current')
    BY <1>1 DEF StepEmits, Due, Clock
  <2>4. nextStep = NoStep
    BY <1>1 DEF Emitted, Served, HostServed
  <2>5. CachesServe(caches)'
    BY <1>1 DEF Emitted, HostEmits
  <2>6. (\A r \in Range(refreshed) : \E k \in Nat : Taken(k) /\ Began(r) = k * run.dt)'
    BY <1>1, <1>7, <1>8 DEF Began
  <2>7. (\A k \in Nat : Taken(k) /\ Due(k * run.dt) =>
           Midpoint(k * run.dt, run.edt) \in Range(refreshed))'
    BY <1>1, <1>7, <1>8 DEF Due
  <2>8. (FluxSum(active) = Expected(Range(refreshed)))'
    BY <1>7, <1>9, <2>1
  <2>9. QED
    BY <1>1, <1>5, <1>7, <2>2, <2>3, <2>4, <2>5, <2>6, <2>7, <2>8 DEF HostEmits
<1>11. op.op = "step" /\ op.step = steps
  OBVIOUS
<1>12. Len(last) = 1 /\ last[1] = op
  BY SingleIsSeq
<1>13. IsSeq(queue) /\ IsSeq(uploads) /\ IsSeq(last)
  BY UploadsAre, SingleIsSeq DEF Emitted, Served, Inputs, Kept
<1>14. /\ \A u \in Range(uploads) :
            /\ u.op = "upload"
            /\ u.kind = "flux" => UploadFlux(active') /\ u.content = FluxSum(active')
       /\ UploadFlux(active') => \E u \in Range(uploads) : u.kind = "flux"
  <2>1. \A u \in Range(uploads) :
          /\ u.op = "upload"
          /\ u.kind = "flux" => UploadFlux(active') /\ u.content = FluxSum(active')
    BY UploadsAre, KindsAre
  <2>2. UploadFlux(active') => \E u \in Range(uploads) : u.kind = "flux"
    BY UploadsAre
  <2>3. QED
    BY <2>1, <2>2
<1>15. UploadFlux(active') <=> identities["flux"] # active'.address
  BY FluxIdentityIs DEF UploadFlux
<1> HIDE DEF uploads, last, op
<1>16. queue' = queue \o uploads \o last
  BY <1>1
<1>17. /\ n \in Nat /\ m \in Nat
       /\ DOMAIN queue = 1..n /\ DOMAIN uploads = 1..m /\ DOMAIN queue' = 1..(n + m + 1)
  <2>1. Len(queue) \in Nat /\ Len(uploads) \in Nat
    BY <1>13, <1>16, LongerQueue
  <2>2. DOMAIN queue = 1..Len(queue) /\ DOMAIN uploads = 1..Len(uploads)
    BY <1>13, <1>16, LongerQueue
  <2>3. DOMAIN queue' = 1..(Len(queue) + Len(uploads) + Len(last))
    BY <1>13, <1>16, LongerQueue
  <2>4. QED
    BY <1>12, <2>1, <2>2, <2>3
<1>18. \A i \in 1..n : queue'[i] = queue[i]
  BY <1>13, <1>16, LongerQueue
<1>19. \A i \in 1..m : queue'[n + i] = uploads[i] /\ uploads[i] \in Range(uploads)
  <2>1. \A i \in 1..m : queue'[n + i] = uploads[i]
    BY <1>13, <1>16, LongerQueue
  <2>2. \A i \in 1..m : uploads[i] \in Range(uploads)
    BY <1>17 DEF Range
  <2>3. QED
    BY <2>1, <2>2
<1>20. queue'[n + m + 1] = op
  <2>1. \A i \in 1..Len(last) : queue'[Len(queue) + Len(uploads) + i] = last[i]
    BY <1>13, <1>16, LongerQueue
  <2>2. QED
    BY <1>12, <2>1
<1>21. n # 0 => queue # <<>>
  BY EmptyIsSeq
<1> HIDE DEF n, m
<1>22. ASSUME NEW i \in DOMAIN queue'
       PROVE  i \in 1..n \/ (\E j \in 1..m : i = n + j) \/ i = n + m + 1
  <2>1. i \in 1..n \/ i - n \in 1..m \/ i = n + m + 1
    BY <1>17
  <2>2. i = n + (i - n)
    BY <1>17
  <2>3. QED
    BY <2>1, <2>2
<1>23. ASSUME NEW i \in DOMAIN queue', queue'[i].op = "upload", queue'[i].kind = "flux"
       PROVE  /\ queue'[i].content = FluxSum(active')
              /\ \A j \in 1..(i - 1) : queue'[j].op = "upload"
  <2>1. CASE i \in 1..n
    <3>1. active' = active
      BY <1>6, <1>17, <1>21, <2>1
    <3>2. /\ queue[i].content = FluxSum(active)
          /\ \A j \in 1..(i - 1) : queue[j].op = "upload"
      BY <1>17, <1>18, <1>23, <2>1 DEF Emitted, QueueEmits
    <3>3. \A j \in 1..(i - 1) : queue'[j] = queue[j]
      <4>1. \A j \in 1..(i - 1) : j \in 1..n
        BY <1>17, <2>1
      <4>2. QED
        BY <1>18, <4>1
    <3>4. QED
      BY <1>18, <2>1, <3>1, <3>2, <3>3
  <2>2. CASE \E j \in 1..m : i = n + j
    <3>1. PICK j \in 1..m : i = n + j
      BY <2>2
    <3>2. queue'[i] = uploads[j] /\ uploads[j] \in Range(uploads)
      BY <1>19, <3>1
    <3>3. UploadFlux(active') /\ queue'[i].content = FluxSum(active')
      BY <1>14, <1>23, <3>2
    <3>4. n = 0
      BY <1>6, <1>15, <1>21, <3>3
    <3>5. \A l \in 1..(i - 1) : queue'[l].op = "upload"
      <4> SUFFICES ASSUME NEW l \in 1..(i - 1) PROVE queue'[l].op = "upload"
        OBVIOUS
      <4>1. l \in 1..m /\ n + l = l
        BY <1>17, <3>1, <3>4
      <4>2. queue'[l] = uploads[l] /\ uploads[l] \in Range(uploads)
        BY <1>19, <4>1
      <4>3. QED
        BY <1>14, <4>2
    <3>6. QED
      BY <3>3, <3>5
  <2>3. CASE i = n + m + 1
    BY <1>11, <1>20, <1>23, <2>3
  <2>4. QED
    BY <1>22, <2>1, <2>2, <2>3
<1>24. ASSUME NEW i \in DOMAIN queue', queue'[i].op = "step"
       PROVE  FluxSum(active') = Expected(RefreshesBefore(queue[i].step)')
  <2>1. CASE i \in 1..n
    <3>1. active' = active /\ queue'[i] = queue[i] /\ i \in DOMAIN queue
      BY <1>6, <1>17, <1>18, <1>21, <2>1
    <3>2. FluxSum(active) = Expected(RefreshesBefore(queue[i].step))
      BY <1>24, <3>1 DEF Emitted, QueueEmits
    <3>3. queue[i].step \in Nat /\ queue[i].step < steps
      BY <1>3, <1>24, <3>1 DEF Emitted, Served, QueueServed, StepOf
    <3> DEFINE k == queue[i].step
    <3>4. RefreshesBefore(queue[i].step)' = RefreshesBefore(queue[i].step)
      <4>1. PICK l \in Nat : l = queue[i].step
        BY <3>3
      <4>2. RefreshesBefore(l)' = RefreshesBefore(l)
        BY <1>7, <3>3, <4>1
      <4>3. queue'[i].step = l
        BY <3>1, <4>1
      <4>4. QED
        BY <4>1, <4>2, <4>3 DEF RefreshesBefore
    <3>5. QED
      BY <3>1, <3>2, <3>4
  <2>2. CASE \E j \in 1..m : i = n + j
    <3>1. PICK j \in 1..m : i = n + j
      BY <2>2
    <3>2. queue'[i].op = "upload"
      BY <1>14, <1>19, <3>1
    <3>3. QED
      BY <1>24, <3>2
  <2>3. CASE i = n + m + 1
    <3>1. queue'[i].step = steps
      BY <1>11, <1>20, <2>3
    <3>2. PICK l \in Nat : l = steps
      BY <1>3
    <3>3. RefreshesBefore(l)' = Range(refreshed')
      BY <1>7, <3>2
    <3>4. RefreshesBefore(queue[i].step)' = Range(refreshed')
      BY <3>1, <3>2, <3>3 DEF RefreshesBefore
    <3>5. QED
      BY <1>7, <3>4
  <2>4. QED
    BY <1>22, <2>1, <2>2, <2>3
<1>25. ASSUME NoCopy("flux")'
       PROVE  device["flux"] = FluxSum(active')
  <2>1. ~ UploadFlux(active')
    <3> SUFFICES ASSUME UploadFlux(active') PROVE FALSE
      OBVIOUS
    <3>1. PICK u \in Range(uploads) : u.kind = "flux"
      BY <1>14
    <3>2. PICK j \in 1..m : uploads[j] = u
      BY <1>17 DEF Range
    <3>3. queue'[n + j] = u /\ n + j \in DOMAIN queue'
      BY <1>17, <1>19, <3>2
    <3>4. QED
      BY <1>14, <1>25, <3>1, <3>3 DEF NoCopy
  <2>2. identities["flux"] = active.address /\ active' = active
    BY <1>5, <1>15, <2>1 DEF Emitted, QueueEmits
  <2>3. NoCopy("flux")
    <3> SUFFICES ASSUME NEW i \in 1..n, queue[i].op = "upload" PROVE queue[i].kind # "flux"
      BY <1>17 DEF NoCopy
    <3>1. queue'[i] = queue[i] /\ i \in DOMAIN queue'
      BY <1>17, <1>18
    <3>2. QED
      BY <1>25, <3>1 DEF NoCopy
  <2>4. QED
    BY <2>2, <2>3 DEF Emitted, QueueEmits
<1>26. (used # NoUse => Taken(used.step) /\ used.flux = Expected(RefreshesBefore(used.step)))'
  <2> SUFFICES ASSUME used # NoUse
               PROVE  Taken(used.step)' /\ used.flux = Expected(RefreshesBefore(used.step)')
    BY <1>1, <1>9
  <2>1. used.step \in Nat /\ used.step < steps /\ used.flux = Expected(RefreshesBefore(used.step))
    BY <1>3 DEF Emitted, QueueEmits, Taken
  <2>2. PICK l \in Nat : l = used.step
    BY <2>1
  <2>3. RefreshesBefore(l)' = RefreshesBefore(l)
    BY <1>7, <2>1, <2>2
  <2>4. RefreshesBefore(used.step)' = RefreshesBefore(used.step)
    BY <1>1, <2>2, <2>3 DEF RefreshesBefore
  <2>5. QED
    BY <1>1, <2>1, <2>4 DEF Taken
<1>27. QueueEmits'
  <2>1. FluxSum(active)' = FluxSum(active')
    BY DEF FluxSum
  <2>2. "flux" \in DOMAIN device'
    BY <1>1 DEF Emitted, QueueEmits
  <2>3. \A i \in DOMAIN queue' : queue'[i].op = "step" =>
          FluxSum(active)' = Expected(RefreshesBefore(queue[i].step))'
    BY <1>9, <1>24, <2>1
  <2>4. \A i \in DOMAIN queue' : queue'[i].op = "upload" /\ queue'[i].kind = "flux" =>
          /\ queue'[i].content = FluxSum(active)'
          /\ \A j \in 1..(i - 1) : queue'[j].op = "upload"
    BY <1>23, <2>1
  <2>5. NoCopy("flux")' => device'["flux"] = FluxSum(active)'
    BY <1>1, <1>25, <2>1
  <2>6. ~ (pc' = "start" \/ run'.backend = "cpu")
    BY <1>1
  <2>7. QED
    BY <1>2, <1>26, <2>2, <2>3, <2>4, <2>5, <2>6 DEF QueueEmits
<1>28. QED
  BY <1>10, <1>27

LEMMA EmittedHolds == Spec => []Emitted
PROOF
<1>1. Init => HostEmits /\ QueueEmits
  <2> SUFFICES ASSUME Init PROVE HostEmits /\ QueueEmits
    OBVIOUS
  <2>1. /\ run \in Runs /\ pc = "start" /\ steps = 0 /\ hostStep = NoStep /\ nextStep = NoStep
        /\ queue = <<>> /\ caches = EmptyCaches /\ active = NoFlux /\ refreshed = <<>> /\ used = NoUse
        /\ identities = [kind \in Kinds \cup {"flux"} |-> 0]
        /\ device = [buffer \in Kinds \cup {"flux", "met"} |-> IF buffer = "met" THEN NoUse ELSE Nothing]
    BY DEF Init
  <2>2. CachesServe(caches)
    BY <2>1, EmptyIsSeq DEF CachesServe, ArraysRead, FluxOfKey, EmptyCaches
  <2>3. FluxMembers = {NoFlux}
    BY <2>1 DEF FluxMembers, EmptyCaches
  <2>4. FluxesUnique
    BY <2>3 DEF FluxesUnique
  <2>5. refreshed \in Seq(Nat) /\ Range(refreshed) = {}
    BY <2>1, EmptyIsSeq
  <2>6. FluxSum(active) = Expected(Range(refreshed))
    BY <2>1, <2>5 DEF FluxSum, Expected
  <2>7. \A k : ~ Taken(k)
    BY <2>1 DEF Taken, Working
  <2>8. HostEmits
    BY <2>1, <2>2, <2>4, <2>5, <2>6, <2>7 DEF HostEmits
  <2>9. DOMAIN queue = {} /\ identities["flux"] = 0 /\ "flux" \in DOMAIN device
    BY <2>1, EmptyIsSeq
  <2>10. active.address # 0
    BY <2>1 DEF NoFlux
  <2>11. QueueEmits
    BY <2>1, <2>9, <2>10 DEF QueueEmits
  <2>12. QED
    BY <2>8, <2>11
<1>2. Emitted /\ [Next]_vars => HostEmits' /\ QueueEmits'
  <2> SUFFICES ASSUME Emitted, [Next]_vars PROVE HostEmits' /\ QueueEmits'
    OBVIOUS
  <2>1. CASE FirstForcing
    <3>1. /\ pc = "start" /\ pc' \in {"loop", "failed"}
          /\ UNCHANGED <<run, steps, current, caches, active, refreshed, hostStep, nextStep,
                         identities, queue, device, used>>
      BY <2>1 DEF FirstForcing
    <3>2. hostStep = NoStep /\ (Working' <=> Working)
      BY <3>1 DEF Emitted, Served, Inputs, Phases, Working
    <3>3. QED
      BY <3>1, <3>2, EmissionsStay
  <2>2. CASE LoopEnds \/ Finish
    <3>1. /\ pc \in {"loop", "finish"} /\ pc' \in {"finish", "done"}
          /\ UNCHANGED <<run, steps, current, caches, active, refreshed, hostStep, nextStep,
                         identities, queue, device, used>>
      BY <2>2 DEF LoopEnds, Finish
    <3>2. Working' <=> Working
      BY <3>1 DEF Working
    <3>3. QED
      BY <3>1, <3>2, EmissionsStay
  <2>3. CASE CpuStep
    BY <2>3, CpuStepEmits
  <2>4. CASE PrepareHostStep
    BY <2>4, PrepareHostStepEmits
  <2>5. CASE LaunchStep
    BY <2>5, LaunchStepEmits
  <2>6. CASE Prefetch
    BY <2>6, PrefetchEmits
  <2>7. CASE CompleteStep
    BY <2>7, CompleteStepEmits
  <2>8. CASE DeviceRuns
    BY <2>8, DeviceRunsEmits
  <2>9. CASE UNCHANGED vars
    <3>1. UNCHANGED <<run, pc, steps, current, caches, active, refreshed, hostStep, nextStep,
                      identities, queue, device, used>>
      BY <2>9 DEF vars, hostVars
    <3>2. Working' <=> Working
      BY <3>1 DEF Working
    <3>3. QED
      BY <3>1, <3>2, EmissionsStay
  <2>10. QED
    BY <2>1, <2>2, <2>3, <2>4, <2>5, <2>6, <2>7, <2>8, <2>9 DEF Next, Loop, Stopped
<1>3. QED
  BY <1>1, <1>2, ServedHolds, PTL DEF Spec, Emitted

\* Whatever is cached, evicted, prefetched or mirrored: a step applies the sum
\* of the records for the midpoint that was last due when it was taken
\* (emissions.py evaluate_surface_flux, runner.py active_emissions).
THEOREM FluxStaysCurrent == Spec => []FluxIsCurrent
PROOF
<1>1. Emitted => FluxIsCurrent
  BY DEF Emitted, QueueEmits, FluxIsCurrent, Expected
<1>2. QED
  BY <1>1, EmittedHolds, PTL

\* However slow the device: no mirror is copied into behind a step that has
\* yet to read it (runner.py _cuda_batch_requires_completion).  Blocks change,
\* and the active flux is replaced, only when the queue has been emptied.
THEOREM MirrorsStayUndisturbed == Spec => []MirrorsUndisturbed
PROOF
<1>1. Emitted => MirrorsUndisturbed
  <2> SUFFICES ASSUME Emitted, NEW i \in DOMAIN queue, queue[i].op = "upload",
                      NEW j \in 1..i - 1
               PROVE  queue[j].op # "step"
    BY DEF MirrorsUndisturbed
  <2>1. QueuedFlux(i) \/ QueuedBlock(i)
    BY DEF Emitted, Served, Inputs, Kept, Fits, QueuedStep
  <2>2. CASE QueuedFlux(i)
    BY <2>2 DEF Emitted, QueueEmits, QueuedFlux
  <2>3. CASE QueuedBlock(i)
    BY <2>3 DEF QueuedBlock
  <2>4. QED
    BY <2>1, <2>2, <2>3
<1>2. QED
  BY <1>1, EmittedHolds, PTL

-----------------------------------------------------------------------------
(* The schedule: an evaluation in the middle of every emission interval.   *)

\* Emissions are due once in every interval of so many steps.
LEMMA DueIs ==
  ASSUME NEW d \in Nat \ {0}, NEW e \in Nat \ {0}, e % d = 0, NEW k \in Nat
  PROVE  LET n == e \div d
             c == Center(d, e) - 1
         IN  /\ n \in Nat \ {0} /\ n * d = e /\ c \in 0 .. (n - 1) /\ 2 * c <= n
             /\ k % n = c => IsTimeForEmissions(k * d, d, e)
PROOF
<1> DEFINE n == e \div d
           c == Center(d, e) - 1
           q == k \div n
           r == k % n
<1>1. n \in Nat /\ n * d = e /\ n # 0
  <2>1. n \in Nat /\ e = n * d
    BY Quotient
  <2>2. QED
    BY <2>1
<1>2. n \div 2 \in Nat /\ 2 * (n \div 2) <= n
  BY <1>1
<1>3. Center(d, e) = IF n \div 2 >= 1 THEN n \div 2 ELSE 1
  <2> DEFINE h == n \div 2
  <2>1. h \in Nat
    BY <1>2
  <2> HIDE DEF h
  <2>2. Max({h, 1}) = IF h >= 1 THEN h ELSE 1
    <3>1. {h, 1} \in SUBSET Nat /\ {h, 1} # {} /\ h + 1 \in Nat /\ \A x \in {h, 1} : x <= h + 1
      BY <2>1
    <3>2. Max({h, 1}) \in {h, 1} /\ \A x \in {h, 1} : x <= Max({h, 1})
      BY <3>1, MaxIs
    <3>3. QED
      BY <2>1, <3>2
  <2>3. QED
    BY <2>2 DEF h, Center
<1>4. c \in 0 .. (n - 1) /\ 2 * c <= n
  <2> HIDE DEF n
  <2>1. Center(d, e) \in Nat /\ Center(d, e) >= 1 /\ Center(d, e) <= n /\ 2 * Center(d, e) <= n + 1
    BY <1>1, <1>2, <1>3
  <2> HIDE DEF c
  <2>2. c \in Int /\ c = Center(d, e) - 1
    BY <2>1 DEF c
  <2>3. QED
    BY <1>1, <2>1, <2>2
<1>5. ASSUME r = c PROVE IsTimeForEmissions(k * d, d, e)
  <2>1. q \in Nat /\ r \in Nat /\ r < n /\ k = q * n + r
    <3> HIDE DEF n
    <3>1. q \in Nat /\ q * n \in Nat /\ q * n <= k /\ k < q * n + n
      BY <1>1, Quotient
    <3> DEFINE s == k - q * n
    <3>2. s \in Nat /\ s < n /\ k = q * n + s
      <4> DEFINE a == q * n
      <4>1. a \in Nat /\ a <= k /\ k < a + n
        BY <3>1
      <4> HIDE DEF a
      <4>2. k - a \in Nat /\ k - a < n /\ k = a + (k - a)
        BY <1>1, <4>1
      <4>3. QED
        BY <4>2 DEF a
    <3>3. (q * n + s) % n = s
      BY <1>1, <3>1, <3>2, DivisionIs
    <3>4. r = s
      BY <3>2, <3>3
    <3>5. QED
      BY <3>1, <3>2, <3>4
  <2> HIDE DEF n, c, q, r
  <2>2. k * d = q * (n * d) + r * d
    BY <1>1, <2>1
  <2>3. r * d \in Nat /\ r * d < n * d
    BY <1>1, <2>1, Products
  <2>4. k * d = q * e + r * d /\ r * d < e
    BY <1>1, <2>2, <2>3
  <2>5. (q * e + r * d) % e = r * d
    BY <2>1, <2>3, <2>4, DivisionIs
  <2>6. QED
    BY <1>5, <2>4, <2>5 DEF IsTimeForEmissions, c
<1> HIDE DEF n, c
<1>6. QED
  BY <1>1, <1>4, <1>5 DEF n, c

\* From the first evaluation on, the last one is less than an interval back.
LEMMA LastDue ==
  ASSUME NEW n \in Nat \ {0}, NEW c \in 0 .. (n - 1), NEW k \in Nat, c <= k
  PROVE  \E l \in Nat : l <= k /\ k - l < n /\ l % n = c
PROOF
<1> DEFINE q == (k - c) \div n
           l == q * n + c
<1>1. k - c \in Nat
  OBVIOUS
<1>2. q \in Nat /\ q * n \in Nat /\ q * n <= k - c /\ k - c < q * n + n
  BY <1>1, Quotient
<1>3. l \in Nat /\ l % n = c
  <2> HIDE DEF q
  <2>1. c \in Nat /\ c < n
    OBVIOUS
  <2>2. QED
    BY <1>2, <2>1, DivisionIs
<1>4. l <= k /\ k - l < n
  BY <1>2
<1>5. QED
  BY <1>3, <1>4

LEMMA EmittedCentred == Emitted => EmissionsCentred
PROOF
<1> SUFFICES ASSUME Emitted, used # NoUse
             PROVE  LET begin == used.step * run.dt
                        end == begin + run.dt
                        midpoints == RefreshesBefore(used.step)
                    IN  IF midpoints = {} THEN 2 * end <= run.edt \/ end <= run.dt
                        ELSE 2 * end <= 2 * Max(midpoints) + run.edt + 1
  BY DEF EmissionsCentred
<1> DEFINE k == used.step
           d == run.dt
           e == run.edt
           h == e \div 2
           n == e \div d
           c == Center(d, e) - 1
           midpoints == RefreshesBefore(k)
<1>1. /\ run.dt \in Nat \ {0} /\ run.edt \in Nat \ {0} /\ run.edt % run.dt = 0
  BY RunIs, RunsAssumption DEF Emitted, Served, Inputs, Timing, ValidSchedule
<1>2. k \in Nat /\ Taken(k)
  BY DEF Emitted, QueueEmits, Taken
<1>3. h \in Nat /\ e <= 2 * h + 1
  BY <1>1
<1>4. n \in Nat \ {0} /\ n * d = e /\ c \in 0 .. (n - 1) /\ 2 * c <= n
  <2> HIDE DEF n, c
  <2>1. QED
    BY <1>1, <1>2, DueIs DEF n, c
<1>5. \A l \in Nat : l % n = c => Due(l * d)
  <2> SUFFICES ASSUME NEW l \in Nat, l % n = c PROVE Due(l * d)
    OBVIOUS
  <2> HIDE DEF d, e, n, c
  <2>1. d \in Nat \ {0} /\ e \in Nat \ {0} /\ e % d = 0
    BY <1>1 DEF d, e
  <2>2. l % (e \div d) = Center(d, e) - 1
    BY DEF n, c
  <2>3. IsTimeForEmissions(l * d, d, e)
    BY <2>1, <2>2, DueIs
  <2>4. QED
    BY <2>3 DEF Due, d, e
<1>6. k * d \in Nat
  BY <1>1, <1>2, NatProducts
<1>7. midpoints = {m \in Range(refreshed) : m - h <= k * d} /\ midpoints \in SUBSET Nat
  <2>1. Range(refreshed) \in SUBSET Nat
    <3>1. refreshed \in Seq(Nat)
      BY DEF Emitted, HostEmits
    <3>2. \A i \in DOMAIN refreshed : refreshed[i] \in Nat
      BY <3>1, LenProperties, ElementOfSeq
    <3>3. QED
      BY <3>2 DEF Range
  <2>2. QED
    BY <2>1 DEF RefreshesBefore
<1>8. \A l \in Nat : l <= k /\ l % n = c => l * d + h \in midpoints
  <2> SUFFICES ASSUME NEW l \in Nat, l <= k, l % n = c PROVE l * d + h \in midpoints
    OBVIOUS
  <2>1. Taken(l)
    BY <1>2 DEF Taken, Emitted, Served, Inputs, Timing
  <2>2. Midpoint(l * d, e) \in Range(refreshed)
    BY <1>5, <2>1 DEF Emitted, HostEmits
  <2>3. l * d \in Nat /\ l * d <= k * d
    BY <1>1, <1>2, NatProducts, Products
  <2>4. QED
    BY <1>3, <1>6, <1>7, <2>2, <2>3 DEF Midpoint
<1>9. midpoints # {} => Max(midpoints) \in Nat /\ \A m \in midpoints : m <= Max(midpoints)
  <2> SUFFICES ASSUME midpoints # {}
               PROVE  Max(midpoints) \in Nat /\ \A m \in midpoints : m <= Max(midpoints)
    OBVIOUS
  <2>1. k * d + h \in Nat /\ \A m \in midpoints : m <= k * d + h
    BY <1>3, <1>6, <1>7
  <2> HIDE DEF midpoints
  <2>2. QED
    BY <1>7, <2>1, MaxIs
<1>10. d \in Nat /\ e \in Nat
  BY <1>1
<1> SUFFICES IF midpoints = {} THEN 2 * (k * d + d) <= e \/ k * d + d <= d
             ELSE 2 * (k * d + d) <= 2 * Max(midpoints) + e + 1
  OBVIOUS
<1> HIDE DEF k, d, e, h, n, c, midpoints
<1>11. CASE c <= k
  <2>1. PICK l \in Nat : l <= k /\ k - l < n /\ l % n = c
    BY <1>2, <1>4, <1>11, LastDue
  <2>2. l * d + h \in midpoints
    BY <1>8, <2>1
  <2>3. l * d + h <= Max(midpoints)
    BY <1>9, <2>2
  <2>4. l * d \in Nat /\ (k + 1) * d = k * d + d /\ (l + n) * d = l * d + n * d
    BY <1>2, <1>4, <1>10, <2>1, NatProducts
  <2>5. (k + 1) * d <= (l + n) * d
    BY <1>1, <1>2, <1>4, <2>1, Products DEF d
  <2>6. k * d + d <= l * d + e
    BY <1>4, <2>4, <2>5
  <2>7. 2 * (k * d + d) <= 2 * Max(midpoints) + e + 1
    BY <1>3, <1>6, <1>9, <1>10, <2>2, <2>3, <2>4, <2>6
  <2>8. QED
    BY <2>2, <2>7
<1>12. CASE k < c
  <2>1. 2 * (k + 1) <= n
    BY <1>2, <1>4, <1>12
  <2>2. (2 * (k + 1)) * d <= n * d
    BY <1>1, <1>2, <1>4, <2>1, Products DEF d
  <2>3. (2 * (k + 1)) * d = 2 * (k * d + d)
    BY <1>2, <1>10
  <2>4. 2 * (k * d + d) <= e
    BY <1>4, <2>2, <2>3
  <2>5. QED
    BY <1>6, <1>9, <1>10, <2>4
<1>13. QED
  BY <1>2, <1>4, <1>11, <1>12

\* However the steps fall into emission intervals, a step applies a flux for
\* a time at most half an interval from it, and a step without any lies in
\* the first half interval (runner.py _is_time_for_emissions).
THEOREM EmissionsStayCentred == Spec => []EmissionsCentred
PROOF BY EmittedCentred, EmittedHolds, PTL

-----------------------------------------------------------------------------
(* The caches: at most one slice of an array for every frequency.          *)

\* What an array of these names can be cached under at a time.
Slices(names, t) == {<<name, SelectionTime(t, frequency)>> : name \in names, frequency \in Frequencies}

FieldFiles == {Fields[i].file : i \in DOMAIN Fields}

CachesFit(cached) ==
  \E t : /\ DOMAIN cached.fields \subseteq Slices(FieldFiles, t)
         /\ DOMAIN cached.scales \subseteq Slices(FileScales, t)

LEMMA SurjectiveImage ==
  ASSUME NEW f, IsFiniteSet(DOMAIN f)
  PROVE  /\ IsFiniteSet({f[x] : x \in DOMAIN f})
         /\ Cardinality({f[x] : x \in DOMAIN f}) <= Cardinality(DOMAIN f)
PROOF
<1> DEFINE S == DOMAIN f
           g == [x \in S |-> f[x]]
           T == {f[x] : x \in S}
<1>1. g \in Surjection(S, T)
  BY DEF Surjection
<1> HIDE DEF S, T, g
<1>2. IsFiniteSet(T) /\ Cardinality(T) <= Cardinality(S)
  BY <1>1, FS_Surjection DEF S
<1>3. QED
  BY <1>2 DEF S, T

LEMMA FrequenciesFinite == IsFiniteSet(Frequencies) /\ Cardinality(Frequencies) \in Nat
PROOF
<1>1. IsFiniteSet({"hourly"})
  BY FS_Singleton
<1>2. IsFiniteSet({"hourly"} \cup {"daily"})
  BY <1>1, FS_AddElement
<1>3. IsFiniteSet(({"hourly"} \cup {"daily"}) \cup {"monthly"})
  BY <1>2, FS_AddElement
<1>4. IsFiniteSet((({"hourly"} \cup {"daily"}) \cup {"monthly"}) \cup {"constant"})
  BY <1>3, FS_AddElement
<1>5. Frequencies = (({"hourly"} \cup {"daily"}) \cup {"monthly"}) \cup {"constant"}
  BY DEF Frequencies
<1>6. QED
  BY <1>4, <1>5, FS_CardinalityType

LEMMA SlicesBounded ==
  ASSUME NEW names, IsFiniteSet(names), NEW t
  PROVE  /\ IsFiniteSet(Slices(names, t))
         /\ Cardinality(Slices(names, t)) <= Cardinality(names) * Cardinality(Frequencies)
PROOF
<1>1. IsFiniteSet(Frequencies)
  BY FrequenciesFinite
<1> DEFINE f == [pair \in names \X Frequencies |-> <<pair[1], SelectionTime(t, pair[2])>>]
           image == {f[x] : x \in DOMAIN f}
<1>2. /\ IsFiniteSet(DOMAIN f)
      /\ Cardinality(DOMAIN f) = Cardinality(names) * Cardinality(Frequencies)
  <2>1. DOMAIN f = names \X Frequencies
    OBVIOUS
  <2>2. QED
    BY <1>1, <2>1, FS_Product
<1>3. image = Slices(names, t)
  <2>1. \A name \in names, frequency \in Frequencies :
          f[<<name, frequency>>] = <<name, SelectionTime(t, frequency)>>
    OBVIOUS
  <2>2. DOMAIN f = names \X Frequencies
    OBVIOUS
  <2>3. \A y : y \in image <=> \E name \in names, frequency \in Frequencies : y = <<name, SelectionTime(t, frequency)>>
    BY ZenonT(60), <2>1, <2>2
  <2> HIDE DEF image
  <2>4. QED
    BY <2>3 DEF Slices
<1>4. IsFiniteSet(image) /\ Cardinality(image) <= Cardinality(DOMAIN f)
  <2> HIDE DEF f
  <2>1. QED
    BY <1>2, SurjectiveImage
<1>5. QED
  BY <1>2, <1>3, <1>4

\* There are as many files as fields at most, and finitely many scales.
LEMMA NamesFinite ==
  /\ Len(Fields) \in Nat
  /\ IsFiniteSet(FieldFiles) /\ Cardinality(FieldFiles) \in Nat /\ Cardinality(FieldFiles) <= Len(Fields)
  /\ IsFiniteSet(FileScales)
PROOF
<1>1. Len(Fields) \in Nat /\ DOMAIN Fields = 1..Len(Fields)
  BY FieldsAssumption, LenProperties
<1>2. IsFiniteSet(DOMAIN Fields) /\ Cardinality(DOMAIN Fields) = Len(Fields)
  <2>1. IsFiniteSet(1..Len(Fields)) /\ Cardinality(1..Len(Fields)) = IF 1 > Len(Fields) THEN 0 ELSE Len(Fields) - 1 + 1
    BY <1>1, FS_Interval
  <2>2. QED
    BY <1>1, <2>1
<1>3. IsFiniteSet(FieldFiles) /\ Cardinality(FieldFiles) <= Len(Fields)
  <2> DEFINE f == [i \in DOMAIN Fields |-> Fields[i].file]
  <2>1. DOMAIN f = DOMAIN Fields /\ {f[x] : x \in DOMAIN f} = FieldFiles
    BY DEF FieldFiles
  <2> HIDE DEF f
  <2>2. /\ IsFiniteSet({f[x] : x \in DOMAIN f})
        /\ Cardinality({f[x] : x \in DOMAIN f}) <= Cardinality(DOMAIN f)
    BY <1>2, <2>1, SurjectiveImage
  <2>3. QED
    BY <1>2, <2>1, <2>2
<1>4. IsFiniteSet(ScaleNames)
  <2> DEFINE f == [i \in DOMAIN Fields |-> Range(Fields[i].scales)]
             image == {f[x] : x \in DOMAIN f}
  <2>1. DOMAIN f = DOMAIN Fields /\ \A i \in DOMAIN f : f[i] = Range(Fields[i].scales)
    OBVIOUS
  <2>2. image = {Range(Fields[i].scales) : i \in DOMAIN Fields}
    OBVIOUS
  <2>3. IsFiniteSet(image)
    <3> HIDE DEF f
    <3>1. QED
      BY <1>2, <2>1, SurjectiveImage
  <2>4. ASSUME NEW T \in image PROVE IsFiniteSet(T)
    <3>1. PICK i \in DOMAIN Fields : T = Range(Fields[i].scales)
      BY <2>2
    <3> DEFINE s == Fields[i].scales
    <3>2. s \in Seq(DOMAIN Scales)
      BY FieldsAre
    <3> HIDE DEF s
    <3>3. Len(s) \in Nat /\ DOMAIN s = 1..Len(s)
      BY <3>2, LenProperties
    <3>4. IsFiniteSet(DOMAIN s)
      BY <3>3, FS_Interval
    <3>5. Range(s) = {s[x] : x \in DOMAIN s}
      BY DEF Range
    <3>6. QED
      BY <3>1, <3>4, <3>5, SurjectiveImage DEF s
  <2>5. IsFiniteSet(UNION image)
    <3> HIDE DEF image
    <3>1. QED
      BY <2>3, <2>4, FS_UNION
  <2>6. QED
    BY <2>2, <2>5 DEF ScaleNames
<1>5. IsFiniteSet(FileScales)
  <2>1. FileScales \in SUBSET ScaleNames
    BY DEF FileScales
  <2>2. QED
    BY <1>4, <2>1, FS_Subset
<1>6. Cardinality(FieldFiles) \in Nat
  BY <1>3, FS_CardinalityType
<1>7. QED
  BY <1>1, <1>3, <1>5, <1>6

\* Caches that fit are bounded.
LEMMA FitBounded == CachesFit(caches) => CachesBounded
PROOF
<1> SUFFICES ASSUME CachesFit(caches) PROVE CachesBounded
  OBVIOUS
<1>1. PICK t : /\ DOMAIN caches.fields \subseteq Slices(FieldFiles, t)
               /\ DOMAIN caches.scales \subseteq Slices(FileScales, t)
  BY DEF CachesFit
<1>2. IsFiniteSet(Frequencies) /\ Cardinality(Frequencies) \in Nat
  BY FrequenciesFinite
<1>3. ASSUME NEW names, IsFiniteSet(names), NEW keys \in SUBSET Slices(names, t)
      PROVE  /\ Cardinality(keys) \in Nat
             /\ Cardinality(keys) <= Cardinality(names) * Cardinality(Frequencies)
  <2>1. /\ IsFiniteSet(Slices(names, t))
        /\ Cardinality(Slices(names, t)) <= Cardinality(names) * Cardinality(Frequencies)
    BY <1>3, SlicesBounded
  <2>2. IsFiniteSet(keys) /\ Cardinality(keys) <= Cardinality(Slices(names, t))
    BY <2>1, FS_Subset
  <2>3. Cardinality(keys) \in Nat /\ Cardinality(Slices(names, t)) \in Nat /\ Cardinality(names) \in Nat
    BY <1>3, <2>1, <2>2, FS_CardinalityType
  <2> DEFINE a == Cardinality(names)
             b == Cardinality(Frequencies)
  <2>4. a * b \in Int
    BY <1>2, <2>3
  <2> HIDE DEF a, b
  <2>5. Cardinality(Slices(names, t)) <= a * b
    BY <2>1 DEF a, b
  <2>6. Cardinality(keys) <= a * b
    BY <2>2, <2>3, <2>4, <2>5
  <2>7. QED
    BY <2>3, <2>6 DEF a, b
<1>4. Cardinality(DOMAIN caches.fields) <= Cardinality(Frequencies) * Len(Fields)
  <2> DEFINE a == Cardinality(FieldFiles)
             b == Cardinality(Frequencies)
             n == Len(Fields)
             m == Cardinality(DOMAIN caches.fields)
  <2>1. m \in Nat /\ m <= a * b
    BY <1>1, <1>3, NamesFinite
  <2>2. a \in Nat /\ n \in Nat /\ a <= n /\ b \in Nat
    BY <1>2, NamesFinite
  <2> HIDE DEF a, b, n, m
  <2>3. a * b <= n * b
    <3>1. CASE b = 0
      BY <2>2, <3>1
    <3>2. CASE b # 0
      BY <2>2, <3>2, Products
    <3>3. QED
      BY <3>1, <3>2
  <2>4. a * b \in Nat /\ n * b \in Nat /\ n * b = b * n
    BY <2>2
  <2>5. m <= b * n
    BY <2>1, <2>3, <2>4
  <2>6. QED
    BY <2>5 DEF b, m, n
<1>5. Cardinality(DOMAIN caches.scales) <= Cardinality(Frequencies) * Cardinality(FileScales)
  <2> DEFINE a == Cardinality(FileScales)
             b == Cardinality(Frequencies)
             m == Cardinality(DOMAIN caches.scales)
  <2>1. m \in Nat /\ m <= a * b
    BY <1>1, <1>3, NamesFinite
  <2>2. a \in Nat /\ b \in Nat
    BY <1>2, NamesFinite, FS_CardinalityType
  <2> HIDE DEF a, b, m
  <2>3. a * b = b * a
    BY <2>2
  <2>4. QED
    BY <2>1, <2>3 DEF a, b, m
<1>6. QED
  BY <1>4, <1>5 DEF CachesBounded

\* An evaluation fills the caches, and prunes what fills them.
LEMMA EvaluateFits ==
  ASSUME NEW cached, CachesFit(cached), NEW t, NEW address
  PROVE  CachesFit(Evaluate(cached, t, address).caches)
PROOF
<1> DEFINE fields == FilledFields(cached, t)
           scales == FilledScales(cached, t)
<1>1. /\ DOMAIN fields = DOMAIN cached.fields \cup FieldKeys(t)
      /\ DOMAIN scales = DOMAIN cached.scales \cup ScaleKeys(t)
  BY DEF FilledFields, FilledScales, Filled
<1>2. KeepTimes(t) \subseteq {SelectionTime(t, frequency) : frequency \in Frequencies}
  <2>1. Constant = SelectionTime(t, "constant") /\ "constant" \in Frequencies
    BY DEF SelectionTime, Frequencies
  <2>2. \A i \in DOMAIN Fields : Fields[i].frequency \in Frequencies
    BY FieldsAre
  <2>3. \A name \in ScaleNames : Scales[name].frequency \in Frequencies
    <3>1. ScaleNames \subseteq DOMAIN Scales
      <4> SUFFICES ASSUME NEW i \in DOMAIN Fields PROVE Range(Fields[i].scales) \subseteq DOMAIN Scales
        BY DEF ScaleNames
      <4> DEFINE s == Fields[i].scales
      <4>1. s \in Seq(DOMAIN Scales)
        BY FieldsAre
      <4> HIDE DEF s
      <4>2. \A j \in DOMAIN s : s[j] \in DOMAIN Scales
        BY <4>1, LenProperties, ElementOfSeq
      <4>3. QED
        BY <4>2 DEF Range, s
    <3>2. QED
      BY <3>1, FieldsAssumption
  <2>4. QED
    BY <2>1, <2>2, <2>3 DEF KeepTimes
<1>3. ASSUME NEW names, NEW u, NEW keys \in SUBSET Slices(names, u)
      PROVE  {key \in keys : key[2] \in KeepTimes(t)} \subseteq Slices(names, t)
  <2> SUFFICES ASSUME NEW key \in keys, key[2] \in KeepTimes(t) PROVE key \in Slices(names, t)
    OBVIOUS
  <2>1. PICK name \in names, early \in Frequencies : key = <<name, SelectionTime(u, early)>>
    BY <1>3 DEF Slices
  <2>2. PICK frequency \in Frequencies : key[2] = SelectionTime(t, frequency)
    BY <1>2
  <2>3. key = <<name, SelectionTime(t, frequency)>>
    BY <2>1, <2>2
  <2>4. QED
    BY <2>3 DEF Slices
<1>4. FieldKeys(t) \subseteq Slices(FieldFiles, t)
  <2> SUFFICES ASSUME NEW i \in DOMAIN Fields PROVE ArrayKey(Fields[i], t) \in Slices(FieldFiles, t)
    BY DEF FieldKeys
  <2>1. Fields[i].frequency \in Frequencies /\ Fields[i].file \in FieldFiles
    BY FieldsAre DEF FieldFiles
  <2>2. QED
    BY <2>1 DEF ArrayKey, Slices
<1>5. ScaleKeys(t) \subseteq Slices(FileScales, t)
  <2> SUFFICES ASSUME NEW name \in FileScales PROVE ScaleKey(name, t) \in Slices(FileScales, t)
    BY DEF ScaleKeys
  <2>1. Scales[name].frequency \in Frequencies
    <3>1. PICK i \in DOMAIN Fields : name \in Range(Fields[i].scales)
      BY DEF FileScales, ScaleNames
    <3> DEFINE s == Fields[i].scales
    <3>2. s \in Seq(DOMAIN Scales)
      BY FieldsAre
    <3> HIDE DEF s
    <3>3. name \in DOMAIN Scales
      BY <3>1, <3>2, LenProperties, ElementOfSeq DEF Range, s
    <3>4. QED
      BY <3>3, FieldsAssumption
  <2>2. QED
    BY <2>1 DEF ScaleKey, Slices
<1>6. PICK u : /\ DOMAIN cached.fields \subseteq Slices(FieldFiles, u)
               /\ DOMAIN cached.scales \subseteq Slices(FileScales, u)
  BY DEF CachesFit
<1>7. {key \in DOMAIN fields : key[2] \in KeepTimes(t)} \subseteq Slices(FieldFiles, t)
  <2>1. {key \in DOMAIN cached.fields : key[2] \in KeepTimes(t)} \subseteq Slices(FieldFiles, t)
    BY <1>3, <1>6
  <2>2. QED
    BY <1>1, <1>4, <2>1
<1>8. {key \in DOMAIN scales : key[2] \in KeepTimes(t)} \subseteq Slices(FileScales, t)
  <2>1. {key \in DOMAIN cached.scales : key[2] \in KeepTimes(t)} \subseteq Slices(FileScales, t)
    BY <1>3, <1>6
  <2>2. QED
    BY <1>1, <1>5, <2>1
<1>9. /\ DOMAIN Prune(fields, t) = {key \in DOMAIN fields : key[2] \in KeepTimes(t)}
      /\ DOMAIN Prune(scales, t) = {key \in DOMAIN scales : key[2] \in KeepTimes(t)}
  BY DEF Prune, Restrict
<1> HIDE DEF fields, scales
<1>10. \A c : c.fields = Prune(fields, t) /\ c.scales = Prune(scales, t) => CachesFit(c)
  BY <1>7, <1>8, <1>9 DEF CachesFit
<1>11. \/ Evaluate(cached, t, address).caches = cached
       \/ /\ Evaluate(cached, t, address).caches.fields = Prune(fields, t)
          /\ Evaluate(cached, t, address).caches.scales = Prune(scales, t)
  BY DEF Evaluate, fields, scales
<1>12. QED
  BY <1>10, <1>11

LEMMA FitHolds == Spec => []CachesFit(caches)
PROOF
<1>1. Init => CachesFit(caches)
  BY EmptyIsSeq DEF Init, EmptyCaches, CachesFit
<1>2. CachesFit(caches) /\ [Next]_vars => CachesFit(caches)'
  <2> SUFFICES ASSUME CachesFit(caches), [Next]_vars PROVE CachesFit(caches')
    BY DEF CachesFit
  <2>1. \A elapsed, prepared : prepared \in Preparations(elapsed) => CachesFit(prepared.caches)
    <3> SUFFICES ASSUME NEW elapsed, NEW prepared \in Preparations(elapsed)
                 PROVE  CachesFit(prepared.caches)
      OBVIOUS
    <3>1. PICK fresh, address : prepared = Prepared(elapsed, fresh, address)
      BY DEF Preparations
    <3>2. \/ prepared.caches = caches
          \/ prepared.caches = Evaluate(caches, Clock(Midpoint(elapsed, run.edt)), address).caches
      BY <3>1 DEF Prepared
    <3>3. QED
      BY <3>2, EvaluateFits
  <2>2. CASE CpuStep \/ PrepareHostStep \/ Prefetch
    <3>1. \/ caches' = caches
          \/ \E elapsed : \E prepared \in Preparations(elapsed) : caches' = prepared.caches
      BY <2>2 DEF CpuStep, PrepareHostStep, Prefetch
    <3>2. QED
      BY <2>1, <3>1
  <2>3. CASE UNCHANGED caches
    BY <2>3
  <2>4. QED
    BY <2>2, <2>3 DEF Next, Loop, FirstForcing, LoopEnds, Finish, LaunchStep, CompleteStep,
       StepEnds, DeviceRuns, Stopped, vars, hostVars
<1>3. QED
  BY <1>1, <1>2, PTL DEF Spec

\* However long the run and whatever times it evaluates, what the operator
\* keeps is bounded by the configuration (emissions.py
\* _prune_temporal_caches).
THEOREM CachesStayBounded == Spec => []CachesBounded
PROOF BY FitBounded, FitHolds, PTL
=============================================================================
