------------------------------ MODULE WALProofs ------------------------------
(***************************************************************************)
(* Proofs about the log as bytes: types, what Open leaves on disk, and     *)
(* that crashes lose no acknowledged record and never block Open.          *)
(***************************************************************************)
EXTENDS WAL, WellFoundedInduction, TLAPS

-----------------------------------------------------------------------------
(* The natural numbers. *)

\* A nonempty set of naturals has a least element.
LEMMA NatLeast ==
  ASSUME NEW S \in SUBSET Nat, S # {}
  PROVE  \E n \in S : \A m \in S : n <= m
<1>1. PICK n \in S : \A m \in S : ~(<<m, n>> \in OpToRel(<, Nat))
  BY WFMin, NatLessThanWellFounded, Zenon
<1>2. ASSUME NEW m \in S, m < n PROVE <<m, n>> \in OpToRel(<, Nat)
  BY <1>2 DEF OpToRel
<1>3. \A m \in S : ~(m < n)
  BY <1>1, <1>2, Zenon
<1>4. \A m \in S : m \in Nat
  OBVIOUS
<1> QED
  BY <1>3, <1>4

\* Induction over the naturals, for a set in place of a predicate.
LEMMA NatInd ==
  ASSUME NEW S \in SUBSET Nat, 0 \in S, \A n \in S : n + 1 \in S
  PROVE  S = Nat
<1> SUFFICES ASSUME Nat \ S # {} PROVE FALSE
  BY Zenon
<1>1. PICK n \in Nat \ S : \A m \in Nat \ S : n <= m
  BY NatLeast, Zenon
<1>2. n # 0 /\ n - 1 \in Nat
  BY <1>1
<1>3. n - 1 \in S
  BY <1>1, <1>2
<1> QED
  BY <1>1, <1>2, <1>3

\* A nonempty set of naturals with an upper bound has a greatest element.
LEMMA NatGreatest ==
  ASSUME NEW S \in SUBSET Nat, S # {}, NEW b \in Nat, \A m \in S : m <= b
  PROVE  \E n \in S : \A m \in S : m <= n
<1> DEFINE T == {b - m : m \in S}
<1>1. T \in SUBSET Nat /\ T # {}
  <2>1. ASSUME NEW m \in S PROVE b - m \in Nat
    OBVIOUS
  <2>2. PICK m \in S : TRUE
    BY Zenon
  <2>3. b - m \in T
    OBVIOUS
  <2> QED
    BY <2>1, <2>3
<1>2. PICK d \in T : \A e \in T : d <= e
  BY <1>1, NatLeast, Zenon
<1>3. PICK n \in S : d = b - n
  BY <1>2
<1>4. ASSUME NEW m \in S PROVE m <= n
  <2>1. d <= b - m
    BY <1>2
  <2> QED
    BY <2>1, <1>3
<1> QED
  BY <1>4

\* From here on Zenon proves a step unless the step names another prover.
USE Zenon

-----------------------------------------------------------------------------
(* Replay is the recursive function its loop describes. *)

\* Bytes are digits.
LEMMA CellTyped ==
    ASSUME NEW b \in Seq(Cell), NEW i \in 1..Len(b)
    PROVE  b[i] \in Cell /\ b[i].digit \in 0..(Radix - 1) /\ b[i].digit \in Nat
<1>1. b[i] \in Cell
  BY SMT
<1>2. b[i].digit \in 0..(Radix - 1)
  BY <1>1 DEF Cell, Digits
<1> QED BY <1>1, <1>2, LengthsFit, SMT

\* A length read from the file is a number.
LEMMA SizeTyped ==
    ASSUME NEW b \in Seq(Cell), NEW i \in 1..(Len(b) + 1), HeaderFits(b, i)
    PROVE  /\ i \in 1..Len(b) /\ i + 1 \in 1..Len(b) /\ i + 2 \in 1..Len(b)
           /\ SizeAt(b, i) \in Nat
           /\ FrameEnd(b, i) \in Nat /\ FrameEnd(b, i) = i + 2 + SizeAt(b, i)
<1>1. Len(b) \in Nat
  BY SMT
<1>2. i \in 1..Len(b) /\ i + 1 \in 1..Len(b) /\ i + 2 \in 1..Len(b)
  BY <1>1, SMT DEF HeaderFits, RecordHdrSize
<1>3. b[i].digit \in Nat /\ b[i + 1].digit \in Nat
  BY <1>2, CellTyped
<1>4. Radix * b[i + 1].digit \in Nat
  BY <1>3, LengthsFit, SMT
<1>5. SizeAt(b, i) \in Nat
  <2>1. \A x, y \in Nat : x + y \in Nat
    BY SMT
  <2> QED BY <1>3, <1>4, <2>1 DEF SizeAt
<1> QED BY <1>2, <1>5, SMT DEF FrameEnd, RecordHdrSize

\* A valid frame ends inside the file, behind its start.
LEMMA ValidEnds ==
    ASSUME NEW b \in Seq(Cell), NEW i \in 1..(Len(b) + 1), ValidAt(b, i)
    PROVE  FrameEnd(b, i) + 1 \in (i + 1)..(Len(b) + 1)
<1>1. FrameEnd(b, i) \in Nat /\ FrameEnd(b, i) = i + 2 + SizeAt(b, i) /\ SizeAt(b, i) \in Nat
  BY SizeTyped DEF ValidAt
<1> QED BY <1>1, SMT DEF ValidAt

\* A round of the loop looks only at the rounds that follow it.
LEMMA RoundsFollow ==
    ASSUME NEW b \in Seq(Cell), NEW i \in 1..(Len(b) + 1), NEW f, NEW g,
           \A j \in (i + 1)..(Len(b) + 1) : f[j] = g[j]
    PROVE  ReplayFrom(b, f, i) = ReplayFrom(b, g, i)
<1>1. CASE ValidAt(b, i)
  <2>1. f[FrameEnd(b, i) + 1] = g[FrameEnd(b, i) + 1]
    BY <1>1, ValidEnds
  <2> QED BY <2>1 DEF ReplayFrom
<1>2. CASE ~ValidAt(b, i)
  BY <1>2 DEF ReplayFrom
<1> QED BY <1>1, <1>2

Reads(b, f) == f = [i \in 1..(Len(b) + 1) |-> ReplayFrom(b, f, i)]

\* The loop terminates: there is a function that satisfies its equation.
LEMMA ReadExists ==
    ASSUME NEW b \in Seq(Cell)
    PROVE  \E f : Reads(b, f)
<1> DEFINE L == Len(b) + 1
           Solves(f, m) == /\ f = [i \in 1..L |-> f[i]]
                           /\ \A i \in 1..L : i > L - m => f[i] = ReplayFrom(b, f, i)
           Q == {m \in Nat : \E f : Solves(f, m)}
<1>1. L \in Nat \ {0}
  BY SMT
<1>2. 0 \in Q
  <2>1. Solves([i \in 1..L |-> 0], 0)
    BY <1>1, SMT
  <2> QED BY <2>1
<1>3. ASSUME NEW m \in Q PROVE m + 1 \in Q
  <2>1. PICK f : Solves(f, m)
    OBVIOUS
  <2> DEFINE n == L - m
  <2>2. CASE n \notin 1..L
    <3>1. Solves(f, m + 1)
      BY <1>1, <2>1, <2>2, SMT
    <3> QED BY <3>1, SMT
  <2>3. CASE n \in 1..L
    <3> DEFINE g == [i \in 1..L |-> IF i = n THEN ReplayFrom(b, f, n) ELSE f[i]]
    <3> HIDE DEF L
    <3>1. ASSUME NEW i \in 1..L, i > L - (m + 1) PROVE g[i] = ReplayFrom(b, g, i)
      <4>1. i >= n
        BY <1>1, <3>1, SMT
      <4>2. \A j \in (i + 1)..L : f[j] = g[j]
        BY <1>1, <2>3, <4>1, SMT
      <4>3. ReplayFrom(b, f, i) = ReplayFrom(b, g, i)
        BY <4>2, RoundsFollow DEF L
      <4>4. CASE i = n
        BY <4>3, <4>4
      <4>5. CASE i # n
        <5>1. i > L - m
          BY <1>1, <4>1, <4>5, SMT
        <5>2. f[i] = ReplayFrom(b, f, i)
          BY <2>1, <5>1
        <5> QED BY <4>3, <4>5, <5>2
      <4> QED BY <4>4, <4>5
    <3>2. g = [i \in 1..L |-> g[i]]
      OBVIOUS
    <3>3. Solves(g, m + 1)
      BY <3>1, <3>2
    <3> HIDE DEF g, Solves
    <3> QED BY <3>3, SMT
  <2> QED BY <2>2, <2>3
<1>4. Q = Nat
  <2> HIDE DEF Q
  <2>1. Q \in SUBSET Nat
    BY DEF Q
  <2> QED BY <1>2, <1>3, <2>1, NatInd
<1>5. PICK f : Solves(f, L)
  <2>1. L \in Q
    BY <1>1, <1>4
  <2> QED BY <2>1
<1>6. \A i \in 1..L : f[i] = ReplayFrom(b, f, i)
  BY <1>1, <1>5, SMT
<1>7. f = [i \in 1..L |-> ReplayFrom(b, f, i)]
  BY <1>5, <1>6
<1> QED BY <1>7 DEF Reads

ReadOf(b) == CHOOSE f : Reads(b, f)

\* What replay returns, round by round.
LEMMA ReplayRounds ==
    ASSUME NEW b \in Seq(Cell)
    PROVE  /\ Replay(b) = ReadOf(b)[1]
           /\ \A i \in 1..(Len(b) + 1) : ReadOf(b)[i] = ReplayFrom(b, ReadOf(b), i)
<1>1. Reads(b, ReadOf(b))
  BY ReadExists DEF ReadOf
<1>2. Replay(b) = ReadOf(b)[1]
  BY DEF Replay, ReadOf, Reads
<1>3. \A i \in 1..(Len(b) + 1) : ReadOf(b)[i] = ReplayFrom(b, ReadOf(b), i)
  BY <1>1 DEF Reads
<1> QED BY <1>2, <1>3
-----------------------------------------------------------------------------
(* What replay returns for any file. *)

\* Induction from the end of the file to its start.
LEMMA Backwards ==
    ASSUME NEW L \in Nat, NEW S,
           \A i \in 1..L : (\A j \in (i + 1)..L : j \in S) => i \in S
    PROVE  \A i \in 1..L : i \in S
<1> DEFINE Bad == {i \in 1..L : i \notin S}
<1> SUFFICES ASSUME Bad # {} PROVE FALSE
  OBVIOUS
<1>1. PICK n \in Bad : \A m \in Bad : m <= n
  <2>1. Bad \in SUBSET Nat /\ \A m \in Bad : m <= L
    BY SMT
  <2> HIDE DEF Bad
  <2> QED BY <2>1, NatGreatest
<1>2. \A j \in (n + 1)..L : j \in S
  BY <1>1, SMT
<1> QED BY <1>1, <1>2

Outcomes == [recs : Seq(Range(Payloads)), good : Nat, err : {"nil", "ErrWALCorrupt"}]

\* e lists where the frames of recs end, from position i on.
Ends(e, i, recs, good) ==
    /\ e \in [1..(Len(recs) + 1) -> Nat]
    /\ e[1] = i - 1 /\ e[Len(recs) + 1] = good
    /\ \A j \in 1..Len(recs) : e[j + 1] = e[j] + RecordHdrSize + Len(recs[j])

Outcome(b, i, r) ==
    /\ r \in Outcomes /\ r.good \in (i - 1)..Len(b)
    /\ \E e : Ends(e, i, r.recs, r.good)

\* The loop ends at i.
LEMMA StopOutcome ==
    ASSUME NEW b \in Seq(Cell), NEW i \in 1..(Len(b) + 1), NEW r,
           r = Stop(i - 1) \/ \E n : r = RecoverOrCorrupt(b, i - 1, n)
    PROVE  Outcome(b, i, r)
<1>1. r \in Outcomes /\ r.recs = <<>> /\ r.good = i - 1
  <2>1. \/ r = [recs |-> <<>>, good |-> i - 1, err |-> "nil"]
        \/ r = [recs |-> <<>>, good |-> i - 1, err |-> "ErrWALCorrupt"]
    BY DEF Stop, RecoverOrCorrupt
  <2>2. <<>> \in Seq(Range(Payloads)) /\ i - 1 \in Nat
    BY SMT
  <2>3. r.recs = <<>> /\ r.good = i - 1
    BY <2>1, SMT
  <2>4. \A x \in Seq(Range(Payloads)), n \in Nat, y \in {"nil", "ErrWALCorrupt"} :
           [recs |-> x, good |-> n, err |-> y] \in Outcomes
    BY DEF Outcomes
  <2> QED BY <2>1, <2>2, <2>3, <2>4
<1>2. Ends([j \in 1..1 |-> i - 1], i, r.recs, r.good)
  BY <1>1, SMT DEF Ends
<1> QED BY <1>1, <1>2, SMT DEF Outcome

\* A payload that replay accepts is the text of a record.
LEMMA PayloadTyped ==
    ASSUME NEW b \in Seq(Cell), NEW i \in 1..(Len(b) + 1), ValidAt(b, i)
    PROVE  /\ PayloadAt(b, i) \in Range(Payloads)
           /\ Len(PayloadAt(b, i)) = SizeAt(b, i)
<1>1. SizeAt(b, i) \in Nat
  BY SizeTyped DEF ValidAt
<1>2. DOMAIN PayloadAt(b, i) = 1..SizeAt(b, i)
  BY DEF PayloadAt
<1>3. PayloadAt(b, i) \in Range(Payloads)
  BY DEF ValidAt
<1>4. PayloadAt(b, i) \in Seq(Digits)
  BY <1>3, DigitsKnown, SMT DEF Range
<1>5. Len(PayloadAt(b, i)) = SizeAt(b, i)
  BY <1>1, <1>2, <1>4, SMT
<1> QED BY <1>3, <1>5

\* Every round returns records of the log, the end of the last of them, and
\* nil or ErrWALCorrupt.
LEMMA ReadOutcome ==
    ASSUME NEW b \in Seq(Cell)
    PROVE  \A i \in 1..(Len(b) + 1) : Outcome(b, i, ReadOf(b)[i])
<1> DEFINE L == Len(b) + 1
           S == {i \in 1..L : Outcome(b, i, ReadOf(b)[i])}
<1>1. ASSUME NEW i \in 1..L, \A j \in (i + 1)..L : j \in S PROVE i \in S
  <2>1. ReadOf(b)[i] = ReplayFrom(b, ReadOf(b), i)
    BY ReplayRounds
  <2>2. CASE ~ValidAt(b, i)
    <3>1. \/ ReadOf(b)[i] = Stop(i - 1)
          \/ \E n : ReadOf(b)[i] = RecoverOrCorrupt(b, i - 1, n)
      BY <2>1, <2>2 DEF ReplayFrom
    <3> QED BY <3>1, StopOutcome
  <2>3. CASE ValidAt(b, i)
    <3> DEFINE q == FrameEnd(b, i) + 1
               r == ReadOf(b)[q]
               p == PayloadAt(b, i)
    <3>1. q \in (i + 1)..L /\ q = i + RecordHdrSize + SizeAt(b, i)
      BY <2>3, ValidEnds, SizeTyped, SMT DEF ValidAt, RecordHdrSize
    <3>2. Outcome(b, q, r)
      BY <1>1, <3>1
    <3>3. ReadOf(b)[i] = [r EXCEPT !.recs = <<p>> \o @]
      <4>1. HeaderFits(b, i) /\ Plausible(SizeAt(b, i)) /\ ~Overruns(b, i)
        BY <2>3, SizeTyped, SMT DEF ValidAt, Overruns
      <4> QED BY <2>1, <2>3, <4>1 DEF ReplayFrom
    <3>4. p \in Range(Payloads) /\ Len(p) = SizeAt(b, i) /\ SizeAt(b, i) \in Nat
      BY <2>3, PayloadTyped, SizeTyped DEF ValidAt
    <3> HIDE DEF q, r, p
    <3>5. /\ r \in Outcomes /\ r.recs \in Seq(Range(Payloads)) /\ r.good \in Nat
          /\ r.good \in (q - 1)..Len(b)
      BY <3>2 DEF Outcome, Outcomes
    <3>6. PICK e : Ends(e, q, r.recs, r.good)
      BY <3>2 DEF Outcome
    <3> DEFINE s == <<p>> \o r.recs
    <3>7. /\ s \in Seq(Range(Payloads)) /\ Len(s) = Len(r.recs) + 1 /\ s[1] = p
          /\ \A j \in 1..Len(r.recs) : s[j + 1] = r.recs[j]
      BY <3>4, <3>5, SMT
    <3> HIDE DEF s
    <3>8. ReadOf(b)[i] = [recs |-> s, good |-> r.good, err |-> r.err]
      BY <3>3, <3>5 DEF s, Outcomes
    <3>9. ReadOf(b)[i] \in Outcomes
      BY <3>5, <3>7, <3>8, SMT DEF Outcomes
    <3>10. r.good \in (i - 1)..Len(b)
      BY <3>1, <3>5, SMT
    <3> DEFINE d == [j \in 1..(Len(s) + 1) |-> IF j = 1 THEN i - 1 ELSE e[j - 1]]
    <3>11. Ends(d, i, s, r.good)
      <4>1. /\ e \in [1..(Len(r.recs) + 1) -> Nat] /\ e[1] = q - 1
            /\ e[Len(r.recs) + 1] = r.good /\ Len(r.recs) \in Nat
            /\ \A j \in 1..Len(r.recs) : e[j + 1] = e[j] + RecordHdrSize + Len(r.recs[j])
        BY <3>5, <3>6, SMT DEF Ends
      <4>2. d \in [1..(Len(s) + 1) -> Nat] /\ d[1] = i - 1 /\ d[Len(s) + 1] = r.good
        BY <3>7, <4>1, SMT
      <4>3. ASSUME NEW j \in 1..Len(s) PROVE d[j + 1] = d[j] + RecordHdrSize + Len(s[j])
        <5>1. CASE j = 1
          <6>1. d[2] = q - 1 /\ d[1] = i - 1
            BY <3>7, <4>1, SMT
          <6>2. q - 1 = (i - 1) + RecordHdrSize + Len(p)
            BY <3>1, <3>4, SMT DEF RecordHdrSize
          <6> QED BY <3>7, <5>1, <6>1, <6>2, SMT
        <5>2. CASE j # 1
          <6>1. j - 1 \in 1..Len(r.recs) /\ (j - 1) + 1 = j
            BY <3>7, <4>1, <5>2, SMT
          <6>2. d[j + 1] = e[j] /\ d[j] = e[j - 1]
            BY <3>7, <4>1, <5>2, SMT
          <6>3. s[j] = r.recs[j - 1]
            BY <3>7, <6>1
          <6> QED BY <4>1, <6>1, <6>2, <6>3
        <5> QED BY <5>1, <5>2
      <4> HIDE DEF d
      <4> QED BY <4>2, <4>3 DEF Ends
    <3> HIDE DEF d
    <3>12. Outcome(b, i, ReadOf(b)[i])
      BY <3>8, <3>9, <3>10, <3>11, SMT DEF Outcome
    <3> QED BY <3>12
  <2> QED BY <2>2, <2>3
<1>2. L \in Nat
  BY SMT
<1>3. \A i \in 1..L : i \in S
  <2> HIDE DEF S, L
  <2> QED BY <1>1, <1>2, Backwards
<1> QED BY <1>3
-----------------------------------------------------------------------------
(* encodeRecord. *)

\* Two digits say a number below Radix squared.
LEMMA TwoDigits ==
    ASSUME NEW n \in Nat, NEW r \in Nat \ {0}, n < r * r
    PROVE  /\ n % r \in 0..(r - 1) /\ n \div r \in 0..(r - 1)
           /\ (n % r) + r * (n \div r) = n
<1>1. n % r \in 0..(r - 1) /\ n \div r \in Int /\ n = r * (n \div r) + (n % r)
  BY SMT
<1> DEFINE q == n \div r
<1> HIDE DEF q
<1>2. q >= 0
  <2>1. \A x, y, z \in Int : x < 0 /\ y > 0 /\ z < y => y * x + z < 0
    <3> SUFFICES ASSUME NEW x \in Int, NEW y \in Int, NEW z \in Int, x < 0, y > 0, z < y
                 PROVE  y * x + z < 0
      OBVIOUS
    <3>1. y * x <= -y
      BY SMT
    <3> QED BY <3>1, SMT
  <2> QED BY <1>1, <2>1, SMT DEF q
<1>3. q <= r - 1
  <2>1. \A x, y \in Int : y > 0 /\ x >= y => y * x >= y * y
    BY SMT
  <2> QED BY <1>1, <2>1, SMT DEF q
<1> QED BY <1>1, <1>2, <1>3, SMT DEF q
\* Appending to a file.
LEMMA Joined ==
    ASSUME NEW S, NEW h \in Seq(S), NEW t \in Seq(S)
    PROVE  /\ h \o t \in Seq(S) /\ Len(h \o t) = Len(h) + Len(t)
           /\ \A i \in 1..Len(h) : (h \o t)[i] = h[i]
           /\ \A j \in 1..Len(t) : (h \o t)[Len(h) + j] = t[j]
BY SMT

\* The texts of the records are nonempty, and short enough for their length.
LEMMA TextTyped ==
    ASSUME NEW k \in DOMAIN Payloads
    PROVE  /\ Payloads[k] \in Seq(Digits) /\ Payloads[k] \in Range(Payloads)
           /\ Len(Payloads[k]) \in 1..MaxRecordSize
           /\ DOMAIN Payloads = 1..Len(Payloads) /\ Len(Payloads) \in Nat
BY LengthsFit, DigitsKnown, SMT DEF Range

\* A frame: its length in two digits, one cell with a checksum, its text.
LEMMA Encoded ==
    ASSUME NEW k \in DOMAIN Payloads, NEW c \in CrcDigits,
           NEW e, e = EncodeRecord(Payloads[k], c)
    PROVE  /\ e \in Seq(Cell) /\ Len(e) = RecordHdrSize + Len(Payloads[k])
           /\ e[1].digit + Radix * e[2].digit = Len(Payloads[k])
           /\ e[3].crc = Payloads[k]
           /\ \A j \in 1..Len(Payloads[k]) : e[3 + j].digit = Payloads[k][j]
           /\ \A j \in 1..Len(e) : j # 3 => e[j].crc = None
           /\ e[1].field = "size" /\ e[2].field = "size"
<1> DEFINE p == Payloads[k]
           n == Len(p)
           x == n % Radix
           y == n \div Radix
<1>1. p \in Seq(Digits) /\ p \in Range(Payloads) /\ n \in 1..MaxRecordSize
  BY TextTyped
<1>2. x \in Digits /\ y \in Digits /\ x + Radix * y = n
  <2>1. n \in Nat /\ n < Radix * Radix /\ Radix \in Nat \ {0}
    <3>1. Radix * Radix \in Nat
      BY LengthsFit, SMT
    <3> QED BY <1>1, <3>1, LengthsFit, SMT
  <2> HIDE DEF n
  <2> QED BY <2>1, TwoDigits DEF Digits
<1> DEFINE h == <<Byte(x, "size"), Byte(y, "size"), [Byte(c, "crc") EXCEPT !.crc = p]>>
           t == [i \in 1..n |-> Byte(p[i], "payload")]
<1>3. e = h \o t
  BY DEF EncodeRecord, LengthDigits
<1> HIDE DEF x, y, n, p
<1>4. \A d \in Digits, f \in {"size", "crc", "payload"}, g \in Range(Payloads) \cup {None} :
         [digit |-> d, field |-> f, crc |-> g] \in Cell
  BY DEF Cell
<1>5. /\ Byte(x, "size") \in Cell /\ Byte(y, "size") \in Cell
      /\ [Byte(c, "crc") EXCEPT !.crc = p] = [digit |-> c, field |-> "crc", crc |-> p]
      /\ [Byte(c, "crc") EXCEPT !.crc = p] \in Cell
  <2>1. c \in Digits
    BY DigitsKnown
  <2>2. [Byte(c, "crc") EXCEPT !.crc = p] = [digit |-> c, field |-> "crc", crc |-> p]
    BY SMT DEF Byte
  <2> QED BY <1>1, <1>2, <1>4, <2>1, <2>2, SMT DEF Byte
<1>6. h \in Seq(Cell) /\ Len(h) = 3
  BY <1>5, SMT
<1>7. \A i \in 1..n : p[i] \in Digits /\ Byte(p[i], "payload") \in Cell
  <2>1. \A i \in 1..n : p[i] \in Digits
    BY <1>1, SMT DEF n
  <2> QED BY <1>4, <2>1 DEF Byte
<1>8. t \in Seq(Cell) /\ Len(t) = n
  BY <1>1, <1>7, SMT
<1>9. h[1].digit = x /\ h[2].digit = y /\ h[3].crc = p /\ h[1].crc = None /\ h[2].crc = None
  BY <1>5 DEF Byte
<1>9a. h[1].field = "size" /\ h[2].field = "size"
  BY DEF Byte
<1>10. \A j \in 1..n : t[j].digit = p[j] /\ t[j].crc = None
  BY DEF Byte
<1> HIDE DEF h, t
<1>10a. /\ e \in Seq(Cell) /\ Len(e) = Len(h) + Len(t)
        /\ \A i \in 1..Len(h) : e[i] = h[i]
        /\ \A j \in 1..Len(t) : e[Len(h) + j] = t[j]
  <2>1. h \in Seq(Cell) /\ t \in Seq(Cell)
    BY <1>6, <1>8
  <2>2. /\ h \o t \in Seq(Cell) /\ Len(h \o t) = Len(h) + Len(t)
        /\ \A i \in 1..Len(h) : (h \o t)[i] = h[i]
        /\ \A j \in 1..Len(t) : (h \o t)[Len(h) + j] = t[j]
    BY <2>1, Joined, SMT
  <2> QED BY <1>3, <2>2
<1>11. e \in Seq(Cell) /\ Len(e) = 3 + n
  BY <1>6, <1>8, <1>10a
<1>12. e[1] = h[1] /\ e[2] = h[2] /\ e[3] = h[3]
  BY <1>6, <1>10a, SMT
<1>13. \A j \in 1..n : e[3 + j] = t[j]
  BY <1>6, <1>8, <1>10a
<1>14. ASSUME NEW j \in 1..Len(e), j # 3 PROVE e[j].crc = None
  <2>1. CASE j < 3
    BY <1>9, <1>12, <2>1, SMT
  <2>2. CASE j > 3
    <3>1. j - 3 \in 1..n /\ 3 + (j - 3) = j
      BY <1>1, <1>11, <2>2, SMT
    <3> QED BY <1>10, <1>13, <3>1
  <2> QED BY <1>14, <2>1, <2>2, SMT
<1>15. \A j \in 1..n : e[3 + j].digit = p[j]
  BY <1>10, <1>13
<1>16. e[1].digit + Radix * e[2].digit = n /\ e[3].crc = p
  BY <1>2, <1>9, <1>12
<1>17. e[1].field = "size" /\ e[2].field = "size"
  BY <1>9a, <1>12
<1> QED BY <1>11, <1>14, <1>15, <1>16, <1>17 DEF n, p, RecordHdrSize

-----------------------------------------------------------------------------
(* Types, and what Open leaves on disk. *)

\* A text that replay accepts has a number.
LEMMA NumberTyped ==
    ASSUME NEW p \in Range(Payloads)
    PROVE  Number(p) \in DOMAIN Payloads /\ Payloads[Number(p)] = p
<1>1. \E k \in DOMAIN Payloads : Payloads[k] = p
  BY DEF Range
<1> QED BY <1>1 DEF Number

\* Open's mem: the numbers of the records replay applied.
LEMMA OpenMemTyped ==
    ASSUME NEW b \in Seq(Cell), NEW m, m = [k \in DOMAIN Replay(b).recs |-> Number(Replay(b).recs[k])]
    PROVE  /\ Outcome(b, 1, Replay(b)) /\ Replay(b).recs \in Seq(Range(Payloads))
           /\ m \in Seq(DOMAIN Payloads) /\ Len(m) = Len(Replay(b).recs)
           /\ \A k \in 1..Len(m) : Payloads[m[k]] = Replay(b).recs[k]
           /\ Replay(b).good \in 0..Len(b)
<1>1. Outcome(b, 1, Replay(b))
  <2>1. 1 \in 1..(Len(b) + 1)
    BY SMT
  <2> QED BY <2>1, ReadOutcome, ReplayRounds
<1> DEFINE s == Replay(b).recs
<1>2. s \in Seq(Range(Payloads)) /\ Replay(b).good \in 0..Len(b)
  BY <1>1, SMT DEF Outcome, Outcomes
<1> HIDE DEF s
<1>3. /\ DOMAIN s = 1..Len(s) /\ Len(s) \in Nat
      /\ \A k \in 1..Len(s) : Number(s[k]) \in DOMAIN Payloads /\ Payloads[Number(s[k])] = s[k]
  BY <1>2, NumberTyped, SMT
<1>4. m = [k \in 1..Len(s) |-> Number(s[k])]
  BY <1>3 DEF s
<1>5. m \in Seq(DOMAIN Payloads) /\ Len(m) = Len(s)
  BY <1>3, <1>4, SMT
<1> QED BY <1>1, <1>2, <1>3, <1>4, <1>5 DEF s
\* Of a list of records with known ends, the length is the last end less the first.
LEMMA LengthFromEnds ==
    ASSUME NEW ks \in Seq(DOMAIN Payloads), NEW recs, Len(recs) = Len(ks),
           \A k \in 1..Len(ks) : Payloads[ks[k]] = recs[k],
           NEW e, NEW good, Ends(e, 1, recs, good)
    PROVE  FramesLength(ks) = good
<1> DEFINE L == Len(ks) + 1
           W(j) == RecordHdrSize + Len(Payloads[ks[j]])
           Eq(f) == f = [i \in 1..L |-> IF i > Len(ks) THEN 0 ELSE W(i) + f[i + 1]]
           g == [i \in 1..L |-> good - e[i]]
           f == CHOOSE x : Eq(x)
<1>1. Len(ks) \in Nat /\ L \in Nat /\ L = Len(ks) + 1
  BY SMT
<1>2. \A j \in 1..Len(ks) : W(j) \in Nat
  BY TextTyped, SMT DEF RecordHdrSize
<1>3. FramesLength(ks) = f[1]
  BY DEF FramesLength
<1> HIDE DEF W, L
<1>4. ASSUME NEW i \in 1..L
      PROVE  /\ i > Len(ks) => e[i] = good /\ e[i] \in Nat
             /\ ~(i > Len(ks)) => /\ i \in 1..Len(ks) /\ i + 1 \in (i + 1)..L
                                  /\ W(i) \in Nat /\ e[i] \in Nat
                                  /\ good - e[i] = W(i) + (good - e[i + 1])
  <2>1. good \in Nat /\ e[1] = 0 /\ e[i] \in Nat /\ e[L] = good
    BY <1>1, SMTT(20) DEF Ends, L
  <2>2. CASE i > Len(ks)
    BY <1>1, <2>1, <2>2, SMT
  <2>3. CASE ~(i > Len(ks))
    <3>1. i \in 1..Len(ks) /\ i + 1 \in (i + 1)..L /\ i + 1 \in 1..L
      BY <1>1, <2>3, SMT
    <3>2. e[i + 1] \in Nat
      BY <3>1 DEF Ends, L
    <3>3. e[i + 1] = e[i] + RecordHdrSize + Len(recs[i])
      BY <3>1 DEF Ends
    <3>4. W(i) = RecordHdrSize + Len(recs[i]) /\ W(i) \in Nat /\ Len(recs[i]) \in Nat
      <4>1. Len(Payloads[ks[i]]) \in Nat
        BY <3>1, TextTyped, SMT
      <4> QED BY <1>2, <3>1, <4>1 DEF W
    <3>5. good - e[i] = W(i) + (good - e[i + 1])
      <4> DEFINE x == e[i]
                 y == e[i + 1]
                 n == Len(recs[i])
                 w == W(i)
      <4>1. good \in Nat /\ x \in Nat /\ y \in Nat /\ n \in Nat /\ y = x + 3 + n /\ w = 3 + n
        BY <2>1, <3>2, <3>3, <3>4 DEF RecordHdrSize
      <4> HIDE DEF x, y, n, w
      <4>2. good - x = w + (good - y)
        BY <4>1, SMT
      <4> QED BY <4>2 DEF x, y, w
    <3> QED BY <2>1, <2>3, <3>1, <3>4, <3>5
  <2> QED BY <2>2, <2>3
<1>5. good \in Nat /\ e[1] = 0
  BY <1>1, SMT DEF Ends
<1>6. Eq(g)
  <2> SUFFICES ASSUME NEW i \in 1..L
               PROVE  g[i] = IF i > Len(ks) THEN 0 ELSE W(i) + g[i + 1]
    OBVIOUS
  <2>1. g[i] = good - e[i]
    OBVIOUS
  <2>2. CASE i > Len(ks)
    BY <1>4, <1>5, <2>1, <2>2, SMT
  <2>3. CASE ~(i > Len(ks))
    <3>1. g[i + 1] = good - e[i + 1]
      BY <1>1, <1>4, <2>3, SMT
    <3> HIDE DEF g
    <3> QED BY <1>4, <2>1, <2>3, <3>1
  <2> QED BY <2>2, <2>3
<1>7. Eq(f)
  <2> HIDE DEF Eq, g
  <2> QED BY <1>6
<1> HIDE DEF f
<1> DEFINE S == {i \in 1..L : f[i] = good - e[i]}
<1>8. ASSUME NEW i \in 1..L, \A j \in (i + 1)..L : j \in S PROVE i \in S
  <2>1. f[i] = IF i > Len(ks) THEN 0 ELSE W(i) + f[i + 1]
    BY <1>7
  <2>2. CASE i > Len(ks)
    BY <1>4, <1>5, <2>1, <2>2, SMT
  <2>3. CASE ~(i > Len(ks))
    <3>1. f[i + 1] = good - e[i + 1]
      BY <1>4, <1>8, <2>3
    <3> QED BY <1>4, <2>1, <2>3, <3>1
  <2> QED BY <2>2, <2>3
<1>9. \A i \in 1..L : i \in S
  <2> HIDE DEF S
  <2> QED BY <1>1, <1>8, Backwards
<1>10. f[1] = good - e[1]
  BY <1>1, <1>9, SMT
<1> QED BY <1>3, <1>5, <1>10, SMT

\* Open keeps the frames of what it applied and nothing else.
LEMMA OpenKeepsFrames ==
    ASSUME TypeOK, Open
    PROVE  Len(body') = FramesLength(mem')
<1> DEFINE r == Replay(body)
           m == mem'
<1>1. body \in Seq(Cell) /\ m = [k \in DOMAIN r.recs |-> Number(r.recs[k])]
      /\ body' = SubSeq(body, 1, r.good)
  BY DEF TypeOK, Open
<1>2. /\ Outcome(body, 1, r) /\ m \in Seq(DOMAIN Payloads) /\ Len(m) = Len(r.recs)
      /\ \A k \in 1..Len(m) : Payloads[m[k]] = r.recs[k]
      /\ r.good \in 0..Len(body)
  BY <1>1, OpenMemTyped, SMT
<1> HIDE DEF r, m
<1>3. PICK e : Ends(e, 1, r.recs, r.good)
  BY <1>2 DEF Outcome
<1>4. FramesLength(m) = r.good
  BY <1>2, <1>3, LengthFromEnds
<1>5. Len(body') = r.good
  BY <1>1, <1>2, SMT
<1> QED BY <1>4, <1>5 DEF m
\* A prefix of a file.
LEMMA Cut ==
    ASSUME NEW S, NEW b \in Seq(S), NEW n \in 0..Len(b)
    PROVE  /\ SubSeq(b, 1, n) \in Seq(S) /\ Len(SubSeq(b, 1, n)) = n
           /\ \A i \in 1..n : SubSeq(b, 1, n)[i] = b[i]
BY SMT

\* The file after PowerLoss: n bytes as they were, then zeros up to m.
Zeroed(b, n, m) == SubSeq(b, 1, n) \o [i \in 1..(m - n) |-> Byte(0, "payload")]

\* PowerLoss leaves bytes, and no checksum behind the first n.
LEMMA ZerosTyped ==
    ASSUME NEW b \in Seq(Cell), NEW n \in 0..Len(b), NEW m \in n..Len(b),
           NEW c, c = Zeroed(b, n, m)
    PROVE  /\ c \in Seq(Cell) /\ Len(c) = m
           /\ \A i \in 1..n : c[i] = b[i]
           /\ \A i \in (n + 1)..m : c[i] = Byte(0, "payload") /\ c[i].crc = None
<1> DEFINE h == SubSeq(b, 1, n)
           t == [i \in 1..(m - n) |-> Byte(0, "payload")]
<1>1. h \in Seq(Cell) /\ Len(h) = n /\ \A i \in 1..n : h[i] = b[i]
  BY Cut
<1>2. Byte(0, "payload") \in Cell
  <2>1. 0 \in Digits
    BY LengthsFit, SMT DEF Digits
  <2> QED BY <2>1 DEF Byte, Cell
<1>3. t \in Seq(Cell) /\ Len(t) = m - n /\ \A i \in 1..(m - n) : t[i] = Byte(0, "payload") /\ t[i].crc = None
  BY <1>2, SMT DEF Byte
<1> HIDE DEF h, t
<1>4. h \in Seq(Cell) /\ t \in Seq(Cell) /\ c = h \o t
  BY <1>1, <1>3 DEF h, t, Zeroed
<1>5. /\ h \o t \in Seq(Cell) /\ Len(h \o t) = Len(h) + Len(t)
      /\ \A i \in 1..Len(h) : (h \o t)[i] = h[i]
      /\ \A j \in 1..Len(t) : (h \o t)[Len(h) + j] = t[j]
  BY <1>4, Joined, SMT
<1>6. c \in Seq(Cell) /\ Len(c) = m
  BY <1>1, <1>3, <1>4, <1>5, SMT
<1>7. \A i \in 1..n : c[i] = b[i]
  BY <1>1, <1>4, <1>5
<1>8. ASSUME NEW i \in (n + 1)..m PROVE c[i] = Byte(0, "payload") /\ c[i].crc = None
  <2>1. i - n \in 1..Len(t) /\ Len(h) + (i - n) = i
    BY <1>1, <1>3, SMT
  <2>2. c[i] = t[i - n]
    BY <1>4, <1>5, <2>1
  <2> QED BY <1>3, <2>1, <2>2
<1> QED BY <1>6, <1>7, <1>8

\* The file after Write, and after a write that fails part of the way.
LEMMA AppendTyped ==
    ASSUME NEW b \in Seq(Cell), NEW k \in DOMAIN Payloads, NEW d \in CrcDigits,
           NEW n \in 0..(RecordHdrSize + Len(Payloads[k]))
    PROVE  /\ b \o EncodeRecord(Payloads[k], d) \in Seq(Cell)
           /\ Len(b \o EncodeRecord(Payloads[k], d)) >= Len(b)
           /\ b \o SubSeq(EncodeRecord(Payloads[k], d), 1, n) \in Seq(Cell)
           /\ Len(b \o SubSeq(EncodeRecord(Payloads[k], d), 1, n)) >= Len(b)
<1> DEFINE e == EncodeRecord(Payloads[k], d)
           h == SubSeq(e, 1, n)
<1>1. e \in Seq(Cell) /\ Len(e) = RecordHdrSize + Len(Payloads[k])
  BY Encoded
<1> HIDE DEF e
<1>2. h \in Seq(Cell)
  BY <1>1, SMT
<1> HIDE DEF h
<1>3. b \o e \in Seq(Cell) /\ Len(b \o e) >= Len(b) /\ b \o h \in Seq(Cell) /\ Len(b \o h) >= Len(b)
  BY <1>1, <1>2, SMT
<1> QED BY <1>3 DEF e, h

\* A new log is typed.
LEMMA InitTyped == Init => TypeOK
<1> SUFFICES ASSUME Init PROVE TypeOK
  OBVIOUS
<1>1. up \in BOOLEAN /\ torn \in BOOLEAN
  BY DEF Init
<1>2. Len(Payloads) \in Nat
  BY DigitsKnown, SMT
<1> QED BY <1>1, <1>2, MaxRotsIsNat, SMT DEF Init, TypeOK

\* Every action of the log keeps the types.
LEMMA NextTyped == TypeOK /\ [Next]_vars => TypeOK'
<1> SUFFICES ASSUME TypeOK, [Next]_vars PROVE TypeOK'
  OBVIOUS
<1> USE MaxRotsIsNat
<1>1. /\ body \in Seq(Cell) /\ Len(body) \in Nat /\ synced \in 0..Len(body)
      /\ Len(Payloads) \in Nat /\ DOMAIN Payloads = 1..Len(Payloads)
      /\ next \in 1..(Len(Payloads) + 1) /\ pending \in 0..Len(Payloads)
      /\ acked \in Seq(DOMAIN Payloads) /\ mem \in Seq(DOMAIN Payloads)
  BY DigitsKnown, SMT DEF TypeOK
<1>2. CASE OpenEmpty
  <2>1. up' \in BOOLEAN /\ torn' \in BOOLEAN
    BY <1>2 DEF OpenEmpty, TypeOK, faults
  <2> QED BY <1>2, <2>1, SMT DEF OpenEmpty, TypeOK, faults
<1>3. CASE HeaderTorn
  BY <1>3 DEF HeaderTorn, TypeOK, faults
<1>4. CASE Open
  <2>1. /\ Replay(body).good \in 0..Len(body) /\ mem' \in Seq(DOMAIN Payloads)
        /\ body' = SubSeq(body, 1, Replay(body).good)
    BY <1>1, <1>4, OpenMemTyped DEF Open
  <2>2. body' \in Seq(Cell) /\ Len(body') = Replay(body).good
    BY <1>1, <2>1, Cut
  <2>3. synced' \in 0..Len(body')
    BY <1>1, <1>4, <2>1, <2>2, SMT DEF Open
  <2>4. up' \in BOOLEAN /\ up'
    BY <1>4 DEF Open
  <2> QED BY <1>4, <2>1, <2>2, <2>3, <2>4 DEF Open, TypeOK, faults
<1>5. CASE Write
  <2>1. body' \in Seq(Cell) /\ Len(body') >= Len(body) /\ Len(body') \in Nat
    <3>1. PICK c \in CrcDigits : body' = body \o EncodeRecord(Payloads[next], c)
      BY <1>5 DEF Write
    <3>2. next \in DOMAIN Payloads /\ 0 \in 0..(RecordHdrSize + Len(Payloads[next]))
      BY <1>5, TextTyped, SMT DEF Write, CanAppend, RecordHdrSize
    <3>3. body' \in Seq(Cell) /\ Len(body') >= Len(body)
      BY <1>1, <3>1, <3>2, AppendTyped
    <3> QED BY <3>3, SMT
  <2>2. up /\ next \in 1..Len(Payloads)
    BY <1>1, <1>5 DEF Write, CanAppend
  <2> QED BY <1>1, <1>5, <2>1, <2>2, SMT DEF Write, TypeOK, faults
<1>6. CASE WriteError
  <2>1. next \in DOMAIN Payloads
    BY <1>6 DEF WriteError, CanAppend
  <2>2. body' \in Seq(Cell) /\ Len(body') >= Len(body) /\ Len(body') \in Nat
    <3>1. PICK c \in CrcDigits, n \in 0..(RecordHdrSize + Len(Payloads[next]) - 1) :
             body' = body \o SubSeq(EncodeRecord(Payloads[next], c), 1, n)
      BY <1>6 DEF WriteError
    <3>2. n \in 0..(RecordHdrSize + Len(Payloads[next]))
      BY <2>1, TextTyped, SMT DEF RecordHdrSize
    <3>3. body' \in Seq(Cell) /\ Len(body') >= Len(body)
      BY <1>1, <2>1, <3>1, <3>2, AppendTyped
    <3> QED BY <3>3, SMT
  <2>3. torn' \in BOOLEAN
    BY <1>6 DEF WriteError
  <2> QED BY <1>1, <1>6, <2>1, <2>2, <2>3, SMT DEF WriteError, TypeOK
<1>7. CASE Sync
  <2>1. pending \in DOMAIN Payloads
    BY <1>1, <1>7, SMT DEF Sync
  <2> QED BY <1>1, <1>7, <2>1, SMT DEF Sync, TypeOK, faults
<1>8. CASE SyncError
  BY <1>1, <1>8, SMT DEF SyncError, TypeOK, faults
<1>9. CASE ProcessExit
  <2>1. up' \in BOOLEAN
    BY <1>9 DEF ProcessExit
  <2> QED BY <1>1, <1>9, <2>1, SMT DEF ProcessExit, TypeOK, faults
<1>10. CASE PowerLoss
  <2>1. up' \in BOOLEAN
    BY <1>10 DEF PowerLoss
  <2>2. body' \in Seq(Cell) /\ synced' \in 0..Len(body')
    <3>1. PICK n \in synced..Len(body) : \E m \in n..Len(body) :
             /\ body' = SubSeq(body, 1, n) \o [i \in 1..(m - n) |-> Byte(0, "payload")]
             /\ synced' = m
      BY <1>10 DEF PowerLoss
    <3>2. PICK m \in n..Len(body) : body' = Zeroed(body, n, m) /\ synced' = m
      BY <3>1 DEF Zeroed
    <3>3. n \in 0..Len(body) /\ m \in n..Len(body) /\ m \in Nat /\ n \in Nat
      BY <1>1, SMT
    <3> DEFINE c == body'
    <3>4. c = Zeroed(body, n, m)
      BY <3>2
    <3> HIDE DEF c
    <3>5. c \in Seq(Cell) /\ Len(c) = m
      BY <1>1, <3>3, <3>4, ZerosTyped
    <3>6. synced' \in 0..Len(c)
      BY <3>2, <3>3, <3>5, SMT
    <3> QED BY <3>5, <3>6 DEF c
  <2> QED BY <1>1, <1>10, <2>1, <2>2, SMT DEF PowerLoss, TypeOK, faults
<1>11. CASE Rot
  <2>1. PICK i \in DOMAIN body, d \in Digits : body' = [body EXCEPT ![i] = Byte(d, body[i].field)]
    BY <1>11 DEF Rot
  <2>2. Byte(d, body[i].field) \in Cell
    <3>1. body[i] \in Cell
      BY <1>1, SMT
    <3> QED BY <3>1 DEF Cell, Byte
  <2>3. body' \in Seq(Cell) /\ Len(body') = Len(body)
    BY <1>1, <2>1, <2>2, SMT
  <2> QED BY <1>1, <1>11, <2>3, SMT DEF Rot, TypeOK
<1>12. CASE UNCHANGED vars
  BY <1>12 DEF vars, faults, TypeOK
<1> QED BY <1>2, <1>3, <1>4, <1>5, <1>6, <1>7, <1>8, <1>9, <1>10, <1>11, <1>12 DEF Next

\* For any records, faults and number of damaged bytes: the log is a sequence of
\* bytes, encodeRecord (wal.go) writes lengths that fit their field, and
\* every payload that replay applies is the text of a record.
THEOREM LogTyped == Spec => []TypeOK
BY InitTyped, NextTyped, PTL DEF Spec

\* For any records and whatever happened to the file before: the file that
\* OpenWithOptions (db.go) leaves is as long as the frames of the records it
\* applied, so that the next append lands where the next replay looks for it.
THEOREM OpenKeepsWhatItLoaded == Spec => FileIsMemory
<1>1. TypeOK /\ [Next]_vars => [Open => Len(body') = FramesLength(mem')]_vars
  BY OpenKeepsFrames
<1> QED BY <1>1, InitTyped, NextTyped, PTL DEF Spec, FileIsMemory
-----------------------------------------------------------------------------
(***************************************************************************)
(* A log that only crashes have touched.  It is a chain of complete frames,*)
(* of ascending records, and behind them a tail in which at most the third *)
(* byte is a checksum: what is left of one more frame, then zeros.  F is   *)
(* the set of the positions where the frames and the tail begin, T that of *)
(* the tail, num the record at each, top the number of the next record.    *)
(***************************************************************************)

\* The frame of record k, at i.
FrameAt(b, i, k) ==
    /\ ValidAt(b, i) /\ PayloadAt(b, i) = Payloads[k]
    /\ \A c \in i..FrameEnd(b, i) : c # i + 2 => b[c].crc = None

Chain(b, F, T, num, top) ==
    /\ F \subseteq 1..(Len(b) + 1) /\ 1 \in F /\ T \in F /\ \A i \in F : i <= T
    /\ top \in Nat
    /\ \A i \in F \ {T} : /\ num[i] \in DOMAIN Payloads /\ num[i] < top
                          /\ FrameAt(b, i, num[i]) /\ FrameEnd(b, i) + 1 \in F

Ordered(b, F, T, num) ==
    \A i, j \in F : i < j => FrameEnd(b, i) < j /\ (j # T => num[i] < num[j])

TornTail(b, F, T, num, top) ==
    \A c \in T..Len(b) : b[c].crc # None =>
        /\ c = T + 2
        /\ \E k \in DOMAIN Payloads :
              k < top /\ b[c].crc = Payloads[k] /\ \A i \in F \ {T} : num[i] < k

Framed(b, F, T, num, top) == Chain(b, F, T, num, top) /\ Ordered(b, F, T, num) /\ TornTail(b, F, T, num, top)

\* Where a frame ends, and where its checksum is.
LEMMA FrameFacts ==
    ASSUME NEW b \in Seq(Cell), NEW i \in 1..(Len(b) + 1), NEW k \in DOMAIN Payloads, FrameAt(b, i, k)
    PROVE  /\ FrameEnd(b, i) \in (i + 3)..Len(b) /\ i + 2 \in 1..Len(b)
           /\ SizeAt(b, i) = Len(Payloads[k])
           /\ b[i + 2].crc = Payloads[k] /\ Payloads[k] # None
           /\ \A c \in i..FrameEnd(b, i) : c # i + 2 => b[c].crc = None
<1>1. ValidAt(b, i) /\ PayloadAt(b, i) = Payloads[k]
  BY DEF FrameAt
<1>2. Len(PayloadAt(b, i)) = SizeAt(b, i)
  BY <1>1, PayloadTyped
<1>3. SizeAt(b, i) \in Nat /\ FrameEnd(b, i) = i + 2 + SizeAt(b, i) /\ i + 2 \in 1..Len(b)
  BY <1>1, SizeTyped DEF ValidAt
<1>4. FrameEnd(b, i) <= Len(b) /\ SizeAt(b, i) # 0
  BY <1>1 DEF ValidAt, Plausible
<1>5. b[i + 2].crc = Payloads[k]
  BY <1>1 DEF ValidAt
<1>6. Payloads[k] # None
  BY TextTyped, NoneIsNoText
<1>7. FrameEnd(b, i) \in (i + 3)..Len(b)
  BY <1>3, <1>4, SMT
<1> QED BY <1>1, <1>2, <1>3, <1>5, <1>6, <1>7 DEF FrameAt

\* Only the bytes of a frame matter to it.
LEMMA FrameKept ==
    ASSUME NEW b \in Seq(Cell), NEW c \in Seq(Cell), NEW i \in 1..(Len(b) + 1),
           NEW k \in DOMAIN Payloads, FrameAt(b, i, k),
           FrameEnd(b, i) <= Len(c), \A x \in i..FrameEnd(b, i) : c[x] = b[x]
    PROVE  FrameAt(c, i, k) /\ FrameEnd(c, i) = FrameEnd(b, i)
<1>1. /\ FrameEnd(b, i) \in (i + 3)..Len(b) /\ i + 2 \in 1..Len(b)
      /\ b[i + 2].crc = Payloads[k]
      /\ \A x \in i..FrameEnd(b, i) : x # i + 2 => b[x].crc = None
  BY FrameFacts
<1>2. /\ HeaderFits(b, i) /\ Plausible(SizeAt(b, i)) /\ PayloadAt(b, i) = Payloads[k]
      /\ b[i + 2].crc = PayloadAt(b, i) /\ PayloadAt(b, i) \in Range(Payloads)
      /\ SizeAt(b, i) \in Nat /\ FrameEnd(b, i) = i + 2 + SizeAt(b, i)
  BY SizeTyped DEF FrameAt, ValidAt
<1>3. i \in i..FrameEnd(b, i) /\ i + 1 \in i..FrameEnd(b, i) /\ i + 2 \in i..FrameEnd(b, i)
  BY <1>1, SMT
<1>4. SizeAt(c, i) = SizeAt(b, i) /\ c[i + 2] = b[i + 2]
  BY <1>3 DEF SizeAt
<1>5. FrameEnd(c, i) = FrameEnd(b, i)
  BY <1>4 DEF FrameEnd
<1>6. PayloadAt(c, i) = PayloadAt(b, i)
  <2>1. ASSUME NEW j \in 1..SizeAt(b, i)
        PROVE  c[i + RecordHdrSize - 1 + j].digit = b[i + RecordHdrSize - 1 + j].digit
    <3>1. i + RecordHdrSize - 1 + j \in i..FrameEnd(b, i)
      BY <1>2, SMT DEF RecordHdrSize
    <3> QED BY <3>1
  <2> QED BY <1>4, <2>1 DEF PayloadAt
<1>7. HeaderFits(c, i)
  BY <1>1, SMT DEF HeaderFits, RecordHdrSize
<1>8. ValidAt(c, i)
  BY <1>2, <1>4, <1>5, <1>6, <1>7 DEF ValidAt
<1>9. \A x \in i..FrameEnd(c, i) : x # i + 2 => c[x].crc = None
  BY <1>1, <1>5
<1> QED BY <1>2, <1>5, <1>6, <1>8, <1>9 DEF FrameAt

\* What is known of a frame in the chain.
LEMMA ChainFacts ==
    ASSUME NEW b \in Seq(Cell), NEW F, NEW T, NEW num, NEW top, Chain(b, F, T, num, top),
           NEW i \in F, i # T
    PROVE  /\ i \in 1..(Len(b) + 1) /\ T \in 1..(Len(b) + 1) /\ i < T
           /\ num[i] \in DOMAIN Payloads /\ num[i] < top /\ num[i] \in Nat
           /\ FrameAt(b, i, num[i])
           /\ FrameEnd(b, i) \in (i + 3)..Len(b) /\ FrameEnd(b, i) + 1 \in F
           /\ FrameEnd(b, i) < T
<1>1. /\ i \in 1..(Len(b) + 1) /\ T \in 1..(Len(b) + 1) /\ i <= T /\ i \in F \ {T}
  BY DEF Chain
<1>2. /\ num[i] \in DOMAIN Payloads /\ num[i] < top
      /\ FrameAt(b, i, num[i]) /\ FrameEnd(b, i) + 1 \in F
  BY <1>1 DEF Chain
<1>3. FrameEnd(b, i) \in (i + 3)..Len(b)
  BY <1>1, <1>2, FrameFacts
<1>4. FrameEnd(b, i) + 1 <= T
  BY <1>2 DEF Chain
<1>5. num[i] \in Nat
  BY <1>2, TextTyped, SMT
<1> QED BY <1>1, <1>2, <1>3, <1>4, <1>5, SMT
\* c agrees with b up to n and has no checksum behind it.
SameUpTo(n, b, c) ==
    /\ n \in 0..Len(b) /\ n <= Len(c)
    /\ \A i \in 1..n : c[i] = b[i]
    /\ \A i \in (n + 1)..Len(c) : c[i].crc = None

\* A file that agrees with a chain up to n and has no checksum behind it is a
\* chain: the frames that end by n, and a tail.
LEMMA FramedPrefix ==
    ASSUME NEW b \in Seq(Cell), NEW c \in Seq(Cell), NEW F, NEW T, NEW num, NEW top,
           Framed(b, F, T, num, top), NEW n, SameUpTo(n, b, c)
    PROVE  \E G \in SUBSET F, U \in F :
              /\ Framed(c, G, U, num, top) /\ U <= n + 1 /\ (n + 1 \in F => U = n + 1)
              /\ \A i \in F \ {T} : FrameEnd(b, i) <= n =>
                    i \in G \ {U} /\ FrameEnd(c, i) = FrameEnd(b, i)
<1> DEFINE G == {i \in F : i <= n + 1}
<1>1. /\ Chain(b, F, T, num, top) /\ 1 \in F /\ T \in F
      /\ top \in Nat /\ Len(b) \in Nat /\ Len(c) \in Nat
      /\ n \in Nat /\ n <= Len(b) /\ n <= Len(c)
      /\ \A i \in F : i \in 1..(Len(b) + 1) /\ i <= T /\ i \in Nat /\ i >= 1
  <2>1. /\ Chain(b, F, T, num, top) /\ 1 \in F /\ T \in F
        /\ top \in Nat /\ F \subseteq 1..(Len(b) + 1)
        /\ \A i \in F : i <= T
    BY DEF Framed, Chain
  <2>2. n \in Nat /\ n <= Len(b) /\ n <= Len(c)
    BY SMT DEF SameUpTo
  <2> QED BY <2>1, <2>2, SMT
<1>a. G \subseteq F /\ \A i \in F : i \in G <=> i <= n + 1
  OBVIOUS
<1> HIDE DEF G
<1>2. PICK U \in G : \A i \in G : i <= U
  <2>1. G \in SUBSET Nat /\ 1 \in G /\ \A i \in G : i <= n + 1
    BY <1>1, <1>a, SMT
  <2>2. n + 1 \in Nat
    BY <1>1, SMT
  <2> QED BY <2>1, <2>2, NatGreatest
<1>3. ASSUME NEW i \in G, i # U
      PROVE  /\ i \in F \ {T} /\ i < U /\ FrameEnd(b, i) <= n /\ FrameEnd(b, i) \in Nat
             /\ FrameAt(c, i, num[i]) /\ FrameEnd(c, i) = FrameEnd(b, i)
             /\ FrameEnd(c, i) + 1 \in G /\ FrameEnd(b, i) < U
  <2>1. i \in F /\ U \in F /\ i < U /\ U <= n + 1 /\ i \in Nat /\ U \in Nat
    BY <1>1, <1>2, <1>3, <1>a, SMT
  <2>2. i # T
    BY <2>1, <1>1, SMT
  <2>3. /\ i \in 1..(Len(b) + 1) /\ num[i] \in DOMAIN Payloads /\ FrameAt(b, i, num[i])
        /\ FrameEnd(b, i) \in (i + 3)..Len(b) /\ FrameEnd(b, i) + 1 \in F
    BY <1>1, <2>1, <2>2, ChainFacts, SMT
  <2>4. FrameEnd(b, i) < U
    BY <2>1 DEF Framed, Ordered
  <2>5. FrameEnd(b, i) <= n /\ FrameEnd(b, i) <= Len(c)
    BY <1>1, <2>1, <2>3, <2>4, SMT
  <2>6. \A x \in i..FrameEnd(b, i) : c[x] = b[x]
    BY <1>1, <2>3, <2>5, SMT DEF SameUpTo
  <2>7. FrameAt(c, i, num[i]) /\ FrameEnd(c, i) = FrameEnd(b, i)
    BY <2>3, <2>5, <2>6, FrameKept
  <2>8. FrameEnd(c, i) + 1 \in G
    BY <1>1, <1>a, <2>3, <2>5, <2>7, SMT
  <2> QED BY <2>1, <2>2, <2>3, <2>4, <2>5, <2>7, <2>8, SMT
<1>4. Chain(c, G, U, num, top)
  <2>1. \A i \in G : i \in 1..(Len(c) + 1)
    BY <1>1, <1>a, SMT
  <2>2. 1 \in G
    BY <1>1, <1>a, SMT
  <2>3. ASSUME NEW i \in G \ {U}
        PROVE  /\ num[i] \in DOMAIN Payloads /\ num[i] < top
               /\ FrameAt(c, i, num[i]) /\ FrameEnd(c, i) + 1 \in G
    <3>1. num[i] \in DOMAIN Payloads /\ num[i] < top
      BY <1>1, <1>3, ChainFacts, SMT
    <3> QED BY <1>3, <3>1
  <2> QED BY <1>1, <1>2, <2>1, <2>2, <2>3 DEF Chain
<1>5. Ordered(c, G, U, num)
  <2> SUFFICES ASSUME NEW i \in G, NEW j \in G, i < j
               PROVE  FrameEnd(c, i) < j /\ (j # U => num[i] < num[j])
    BY DEF Ordered
  <2>1. i # U
    BY <1>1, <1>2, <1>a, SMT
  <2>2. FrameEnd(b, i) < j /\ (j # T => num[i] < num[j])
    BY <1>a DEF Framed, Ordered
  <2>3. j # U => j # T
    BY <1>3
  <2> QED BY <1>3, <2>1, <2>2, <2>3
<1>6. TornTail(c, G, U, num, top)
  <2> SUFFICES ASSUME NEW x \in U..Len(c), c[x].crc # None
               PROVE  /\ x = U + 2
                      /\ \E k \in DOMAIN Payloads :
                            /\ k < top /\ c[x].crc = Payloads[k]
                            /\ \A i \in G \ {U} : num[i] < k
    BY DEF TornTail
  <2>1. U \in F /\ U \in Nat /\ U >= 1 /\ x \in 1..n /\ c[x] = b[x] /\ x \in U..Len(b)
    <3>1. U \in F /\ U \in Nat /\ U >= 1
      BY <1>1, <1>2, <1>a
    <3>2. x \in 1..n
      <4>1. ~(x \in (n + 1)..Len(c))
        BY DEF SameUpTo
      <4> QED BY <1>1, <3>1, <4>1, SMT
    <3>3. c[x] = b[x]
      BY <3>2 DEF SameUpTo
    <3> QED BY <1>1, <3>1, <3>2, <3>3, SMT
  <2>2. CASE U = T
    <3>1. /\ x = T + 2
          /\ \E k \in DOMAIN Payloads :
                k < top /\ b[x].crc = Payloads[k] /\ \A i \in F \ {T} : num[i] < k
      BY <2>1, <2>2 DEF Framed, TornTail
    <3>2. \A i \in G \ {U} : i \in F \ {T}
      BY <1>3
    <3> QED BY <2>1, <2>2, <3>1, <3>2
  <2>3. CASE U # T
    <3>1. /\ num[U] \in DOMAIN Payloads /\ num[U] < top /\ FrameAt(b, U, num[U])
          /\ FrameEnd(b, U) \in (U + 3)..Len(b) /\ FrameEnd(b, U) + 1 \in F /\ U \in 1..(Len(b) + 1)
      BY <1>1, <2>1, <2>3, ChainFacts, SMTT(20)
    <3>2. FrameEnd(b, U) + 1 \notin G
      BY <1>1, <1>2, <2>1, <3>1, SMT
    <3>3. x \in U..FrameEnd(b, U)
      BY <1>1, <1>a, <2>1, <3>1, <3>2, SMT
    <3>4. /\ b[U + 2].crc = Payloads[num[U]]
          /\ \A y \in U..FrameEnd(b, U) : y # U + 2 => b[y].crc = None
      BY <3>1, FrameFacts, SMT
    <3>5. x = U + 2
      BY <2>1, <3>3, <3>4
    <3>6. \A i \in G \ {U} : num[i] < num[U]
      BY <1>3, <2>1, <2>3, <1>a DEF Framed, Ordered
    <3> QED BY <2>1, <3>1, <3>4, <3>5, <3>6
  <2> QED BY <2>2, <2>3
<1>7. U <= n + 1 /\ (n + 1 \in F => U = n + 1)
  <2>1. U <= n + 1
    BY <1>2, <1>a
  <2>2. n + 1 \in F => n + 1 \in G
    BY <1>1, <1>a, SMT
  <2> QED BY <1>1, <1>2, <1>a, <2>1, <2>2, SMT
<1>8. ASSUME NEW i \in F \ {T}, FrameEnd(b, i) <= n
      PROVE  i \in G \ {U} /\ FrameEnd(c, i) = FrameEnd(b, i)
  <2>1. /\ i \in 1..(Len(b) + 1) /\ FrameEnd(b, i) \in (i + 3)..Len(b) /\ FrameEnd(b, i) + 1 \in F
    BY <1>1, ChainFacts, SMT
  <2>2. i \in G /\ FrameEnd(b, i) + 1 \in G
    BY <1>1, <1>8, <1>a, <2>1, SMT
  <2>3. i # U
    BY <1>1, <1>2, <2>1, <2>2, SMT
  <2> QED BY <1>3, <2>2, <2>3
<1>9. G \in SUBSET F /\ U \in F
  BY <1>2, <1>a
<1> QED BY <1>4, <1>5, <1>6, <1>7, <1>8, <1>9 DEF Framed
\* The start of a file that extends b by a frame at T and has no checksum behind it.
OneMore(b, c, T, k) ==
    /\ T - 1 <= Len(c) /\ \A x \in 1..(T - 1) : c[x] = b[x]
    /\ FrameAt(c, T, k) /\ \A x \in (FrameEnd(c, T) + 1)..Len(c) : c[x].crc = None

\* Record k at T.
Renumber(num, T, k) == [x \in Nat |-> IF x = T THEN k ELSE num[x]]

\* Record k follows those of the chain.
Follows(F, T, num, k) == \A i \in F \ {T} : num[i] < k

\* c is b with record k at T: one more frame, and the others as they were.
Extended(b, c, F, T, num, k, V, num2, up2) ==
    /\ Framed(c, F \cup {V}, V, num2, up2) /\ T \in (F \cup {V}) \ {V}
    /\ num2[T] = k /\ V <= Len(c) + 1 /\ V > T
    /\ \A i \in F \ {T} : i \in (F \cup {V}) \ {V} /\ num2[i] = num[i]
                          /\ FrameEnd(c, i) = FrameEnd(b, i)

\* One more complete frame in place of the tail.
LEMMA FramedExtend ==
    ASSUME NEW b \in Seq(Cell), NEW c \in Seq(Cell), NEW F, NEW T, NEW num, NEW top,
           Framed(b, F, T, num, top), NEW k \in DOMAIN Payloads, OneMore(b, c, T, k),
           Follows(F, T, num, k), NEW up2 \in Nat, top <= up2, k < up2,
           NEW V, V = FrameEnd(c, T) + 1, NEW num2, num2 = Renumber(num, T, k)
    PROVE  Extended(b, c, F, T, num, k, V, num2, up2)
<1>1. /\ Chain(b, F, T, num, top) /\ 1 \in F /\ T \in F
      /\ top \in Nat /\ Len(b) \in Nat /\ Len(c) \in Nat
      /\ \A i \in F : i \in 1..(Len(b) + 1) /\ i <= T /\ i \in Nat /\ i >= 1
  <2>1. /\ Chain(b, F, T, num, top) /\ 1 \in F /\ T \in F
        /\ top \in Nat /\ F \subseteq 1..(Len(b) + 1)
        /\ \A i \in F : i <= T
    BY DEF Framed, Chain
  <2> QED BY <2>1, SMT
<1>2. /\ T \in Nat /\ T >= 1 /\ T - 1 <= Len(c) /\ T \in 1..(Len(c) + 1)
  BY <1>1, SMT DEF OneMore
<1>3. /\ FrameAt(c, T, k) /\ FrameEnd(c, T) \in (T + 3)..Len(c) /\ V \in (T + 1)..(Len(c) + 1)
  BY <1>2, FrameFacts, SMT DEF OneMore
<1>4. num2[T] = k
  BY <1>2 DEF Renumber
<1>5. ASSUME NEW i \in F, i # T
      PROVE  /\ num2[i] = num[i] /\ num[i] \in DOMAIN Payloads /\ num[i] \in Nat /\ num[i] < up2
             /\ FrameAt(c, i, num2[i]) /\ FrameEnd(c, i) = FrameEnd(b, i)
             /\ FrameEnd(c, i) + 1 \in F /\ i < T /\ FrameEnd(c, i) < T /\ FrameEnd(c, i) \in Nat
  <2>1. /\ i \in 1..(Len(b) + 1) /\ i < T /\ num[i] \in DOMAIN Payloads /\ num[i] < top
        /\ num[i] \in Nat /\ FrameAt(b, i, num[i]) /\ FrameEnd(b, i) \in (i + 3)..Len(b)
        /\ FrameEnd(b, i) + 1 \in F /\ FrameEnd(b, i) < T
    BY <1>1, <1>5, ChainFacts, SMT
  <2>2. num2[i] = num[i]
    BY <1>1, <1>5 DEF Renumber
  <2>3. FrameEnd(b, i) <= Len(c)
    BY <1>2, <1>1, <2>1, SMT
  <2>4. \A x \in i..FrameEnd(b, i) : c[x] = b[x]
    BY <1>2, <2>1, SMT DEF OneMore
  <2>5. FrameAt(c, i, num[i]) /\ FrameEnd(c, i) = FrameEnd(b, i)
    BY <2>1, <2>3, <2>4, FrameKept
  <2>6. num[i] < up2
    BY <1>1, <2>1, SMT
  <2> QED BY <2>1, <2>2, <2>5, <2>6, SMT
<1> DEFINE G == F \cup {V}
<1>6. G = F \cup {V} /\ V \notin F /\ \A i \in G : i \in 1..(Len(c) + 1) /\ i <= V /\ (i # V => i \in F)
  BY <1>1, <1>2, <1>3, SMT
<1> HIDE DEF G
<1>7. Chain(c, G, V, num2, up2)
  <2>1. ASSUME NEW i \in G \ {V}
        PROVE  /\ num2[i] \in DOMAIN Payloads /\ num2[i] < up2
               /\ FrameAt(c, i, num2[i]) /\ FrameEnd(c, i) + 1 \in G
    <3>1. i \in F
      BY <1>6
    <3>2. CASE i = T
      BY <1>3, <1>4, <1>6, <3>2
    <3>3. CASE i # T
      BY <1>5, <1>6, <3>1, <3>3
    <3> QED BY <3>2, <3>3
  <2>2. 1 \in G /\ V \in G
    BY <1>1, <1>6
  <2> QED BY <1>6, <2>1, <2>2 DEF Chain
<1>8. Ordered(c, G, V, num2)
  <2> SUFFICES ASSUME NEW i \in G, NEW j \in G, i < j
               PROVE  FrameEnd(c, i) < j /\ (j # V => num2[i] < num2[j])
    BY DEF Ordered
  <2>1. i \in F
    BY <1>3, <1>6, SMT
  <2>2. CASE i = T
    <3>1. j = V
      BY <1>1, <1>3, <1>6, <2>2, SMT
    <3> QED BY <1>3, <2>2, <3>1, SMT
  <2>3. CASE i # T /\ j = V
    <3>1. FrameEnd(c, i) < T /\ FrameEnd(c, i) \in Nat
      BY <1>5, <2>1, <2>3
    <3>2. T < V /\ T \in Nat /\ V \in Nat
      BY <1>2, <1>3, SMT
    <3> QED BY <2>3, <3>1, <3>2, SMT
  <2>4. CASE i # T /\ j = T
    <3>1. num[i] < k /\ num2[i] = num[i] /\ FrameEnd(c, i) < T
      BY <1>5, <2>1, <2>4 DEF Follows
    <3> QED BY <1>4, <2>4, <3>1
  <2>5. CASE i # T /\ j # V /\ j # T
    <3>1. j \in F
      BY <1>6, <2>5
    <3>2. FrameEnd(b, i) < j /\ num[i] < num[j]
      BY <2>1, <2>5, <3>1 DEF Framed, Ordered
    <3> QED BY <1>5, <2>1, <2>5, <3>1, <3>2
  <2> QED BY <2>2, <2>3, <2>4, <2>5
<1>9. TornTail(c, G, V, num2, up2)
  BY DEF TornTail, OneMore
<1>10. Framed(c, G, V, num2, up2)
  BY <1>7, <1>8, <1>9 DEF Framed
<1>11. V <= Len(c) + 1 /\ V > T /\ T # V
  BY <1>2, <1>3, SMT
<1>12. \A i \in F \ {T} : i \in (F \cup {V}) \ {V}
  BY <1>6
<1> QED BY <1>1, <1>4, <1>5, <1>6, <1>10, <1>11, <1>12 DEF Extended

\* What appendRecord writes is a frame.
LEMMA EncodedFrame ==
    ASSUME NEW b \in Seq(Cell), NEW k \in DOMAIN Payloads, NEW d \in CrcDigits,
           NEW c, c = b \o EncodeRecord(Payloads[k], d)
    PROVE  c \in Seq(Cell) /\ OneMore(b, c, Len(b) + 1, k) /\ FrameEnd(c, Len(b) + 1) = Len(c)
<1> DEFINE e == EncodeRecord(Payloads[k], d)
           T == Len(b) + 1
           n == Len(Payloads[k])
<1>1. /\ e \in Seq(Cell) /\ Len(e) = RecordHdrSize + Len(Payloads[k])
      /\ e[1].digit + Radix * e[2].digit = Len(Payloads[k])
      /\ e[3].crc = Payloads[k]
      /\ \A j \in 1..Len(Payloads[k]) : e[3 + j].digit = Payloads[k][j]
      /\ \A j \in 1..Len(e) : j # 3 => e[j].crc = None
  BY Encoded, SMT
<1>2. /\ Payloads[k] \in Seq(Digits) /\ Payloads[k] \in Range(Payloads)
      /\ n \in 1..MaxRecordSize /\ n \in Nat /\ MaxRecordSize \in Nat
  BY TextTyped, LengthsFit, SMT
<1>3. c = b \o e
  OBVIOUS
<1> HIDE DEF e
<1>4. /\ c \in Seq(Cell) /\ Len(c) = Len(b) + Len(e)
      /\ \A i \in 1..Len(b) : c[i] = b[i]
      /\ \A j \in 1..Len(e) : c[Len(b) + j] = e[j]
  <2>1. /\ b \o e \in Seq(Cell) /\ Len(b \o e) = Len(b) + Len(e)
        /\ \A i \in 1..Len(b) : (b \o e)[i] = b[i]
        /\ \A j \in 1..Len(e) : (b \o e)[Len(b) + j] = e[j]
    <3>1. e \in Seq(Cell)
      BY <1>1
    <3> QED BY <3>1, Joined, SMT
  <2> QED BY <1>3, <2>1
<1>5. Len(b) \in Nat /\ T \in Nat /\ T >= 1 /\ Len(e) = 3 + n /\ Len(c) = T + 2 + n
  BY <1>1, <1>2, <1>4, SMT DEF RecordHdrSize
<1>6. c[T] = e[1] /\ c[T + 1] = e[2] /\ c[T + 2] = e[3]
  <2>1. 1 \in 1..Len(e) /\ 2 \in 1..Len(e) /\ 3 \in 1..Len(e)
    BY <1>2, <1>5, SMT
  <2>2. T = Len(b) + 1 /\ T + 1 = Len(b) + 2 /\ T + 2 = Len(b) + 3
    BY <1>5, SMT
  <2> QED BY <1>4, <2>1, <2>2
<1>7. \A j \in 1..n : c[T + 2 + j] = e[3 + j] /\ e[3 + j].digit = Payloads[k][j]
  <2> SUFFICES ASSUME NEW j \in 1..n
               PROVE  c[T + 2 + j] = e[3 + j] /\ e[3 + j].digit = Payloads[k][j]
    OBVIOUS
  <2>1. 3 + j \in 1..Len(e) /\ T + 2 + j = Len(b) + (3 + j)
    BY <1>2, <1>5, SMT
  <2> QED BY <1>1, <1>4, <2>1
<1> HIDE DEF T, n
<1>8. SizeAt(c, T) = n /\ FrameEnd(c, T) = T + 2 + n
  <2>1. SizeAt(c, T) = n
    BY <1>1, <1>6 DEF SizeAt, n
  <2> QED BY <1>2, <1>5, <2>1, SMT DEF FrameEnd, RecordHdrSize
<1>9. PayloadAt(c, T) = Payloads[k]
  <2>1. PayloadAt(c, T) = [j \in 1..n |-> c[T + 2 + j].digit]
    <3>1. \A j \in 1..n : T + RecordHdrSize - 1 + j = T + 2 + j
      BY <1>2, <1>5, SMT DEF RecordHdrSize
    <3> QED BY <1>8, <3>1 DEF PayloadAt
  <2>2. Payloads[k] = [j \in 1..n |-> Payloads[k][j]]
    BY <1>2, SMT DEF n
  <2>3. \A j \in 1..n : c[T + 2 + j].digit = Payloads[k][j]
    BY <1>7
  <2>4. [j \in 1..n |-> c[T + 2 + j].digit] = [j \in 1..n |-> Payloads[k][j]]
    BY <2>3
  <2> QED BY <2>1, <2>2, <2>4
<1>10. ValidAt(c, T)
  <2>1. HeaderFits(c, T)
    BY <1>2, <1>5, SMT DEF HeaderFits, RecordHdrSize
  <2>2. Plausible(SizeAt(c, T)) /\ FrameEnd(c, T) <= Len(c)
    BY <1>2, <1>5, <1>8, SMT DEF Plausible
  <2> QED BY <1>1, <1>2, <1>6, <1>9, <2>1, <2>2 DEF ValidAt
<1>11. ASSUME NEW x \in T..FrameEnd(c, T), x # T + 2 PROVE c[x].crc = None
  <2>1. x - Len(b) \in 1..Len(e) /\ x - Len(b) # 3 /\ Len(b) + (x - Len(b)) = x
    BY <1>2, <1>5, <1>8, <1>11, SMT DEF T
  <2> QED BY <1>1, <1>4, <2>1, SMTT(20)
<1>12. FrameAt(c, T, k)
  BY <1>9, <1>10, <1>11 DEF FrameAt
<1>13. OneMore(b, c, T, k)
  <2>1. T - 1 = Len(b) /\ T - 1 <= Len(c) /\ FrameEnd(c, T) = Len(c) /\ Len(c) \in Nat
    BY <1>2, <1>5, <1>8, SMT DEF T
  <2> QED BY <1>4, <1>12, <2>1, SMT DEF OneMore
<1> QED BY <1>4, <1>5, <1>8, <1>13 DEF T

\* What replay makes of the tail: it holds no record, or exactly one.
LEMMA FramedClosed ==
    ASSUME NEW b \in Seq(Cell), NEW F, NEW T, NEW num, NEW top, Framed(b, F, T, num, top)
    PROVE  \E G, V, num2 :
              /\ Framed(b, G, V, num2, top) /\ ~ValidAt(b, V)
              /\ \A i \in F \ {T} : i \in G \ {V} /\ num2[i] = num[i]
<1>1. CASE ~ValidAt(b, T)
  BY <1>1
<1>2. CASE ValidAt(b, T)
  <2>1. T \in 1..(Len(b) + 1) /\ T \in Nat /\ T >= 1 /\ top \in Nat /\ Len(b) \in Nat
    BY SMT DEF Framed, Chain
  <2>2. /\ PayloadAt(b, T) \in Range(Payloads) /\ b[T + 2].crc = PayloadAt(b, T)
        /\ T + 2 \in T..Len(b)
        /\ FrameEnd(b, T) \in Nat /\ FrameEnd(b, T) >= T /\ FrameEnd(b, T) <= Len(b)
    BY <1>2, <2>1, SizeTyped, SMT DEF ValidAt
  <2>3. b[T + 2].crc # None
    BY <2>2, NoneIsNoText
  <2>4. PICK k \in DOMAIN Payloads :
           k < top /\ b[T + 2].crc = Payloads[k] /\ \A i \in F \ {T} : num[i] < k
    BY <2>2, <2>3 DEF Framed, TornTail
  <2>5. \A c \in T..Len(b) : c # T + 2 => b[c].crc = None
    BY DEF Framed, TornTail
  <2>6. FrameAt(b, T, k)
    BY <1>2, <2>1, <2>2, <2>4, <2>5, SMT DEF FrameAt
  <2>7. FrameEnd(b, T) \in (T + 3)..Len(b)
    BY <2>1, <2>6, FrameFacts
  <2>8. OneMore(b, b, T, k)
    BY <2>1, <2>5, <2>6, <2>7, SMT DEF OneMore
  <2> DEFINE V == FrameEnd(b, T) + 1
             num2 == Renumber(num, T, k)
  <2>9. top <= top /\ V = FrameEnd(b, T) + 1 /\ num2 = Renumber(num, T, k) /\ Follows(F, T, num, k)
    BY <2>1, <2>4, SMT DEF Follows
  <2> HIDE DEF V, num2
  <2>10. /\ Framed(b, F \cup {V}, V, num2, top)
         /\ \A i \in F \ {T} : i \in (F \cup {V}) \ {V} /\ num2[i] = num[i]
    <3>1. Extended(b, b, F, T, num, k, V, num2, top)
      BY <2>1, <2>4, <2>8, <2>9, FramedExtend
    <3> QED BY <3>1 DEF Extended
  <2>11. ~ValidAt(b, V)
    <3> SUFFICES ASSUME ValidAt(b, V) PROVE FALSE
      OBVIOUS
    <3>1. V \in 1..(Len(b) + 1) /\ V > T + 2
      BY <2>1, <2>7, SMT DEF V
    <3>2. V + 2 \in T..Len(b) /\ V + 2 # T + 2 /\ b[V + 2].crc \in Range(Payloads)
      BY <2>1, <3>1, SizeTyped, SMT DEF ValidAt
    <3> QED BY <2>5, <3>2, NoneIsNoText
  <2> QED BY <2>10, <2>11
<1> QED BY <1>1, <1>2
\* Behind the start of the tail no record is left to be found.
LEMMA NothingBehind ==
    ASSUME NEW b \in Seq(Cell), NEW F, NEW T, NEW num, NEW top, Framed(b, F, T, num, top),
           NEW n \in Nat, n > T, n <= Len(b)
    PROVE  ~HasValidRecord(SubSeq(b, n, Len(b)))
<1> DEFINE s == SubSeq(b, n, Len(b))
<1>1. T \in Nat /\ T >= 1 /\ Len(b) \in Nat
  BY SMT DEF Framed, Chain
<1>2. s \in Seq(Cell) /\ Len(s) = Len(b) - n + 1 /\ \A i \in 1..Len(s) : s[i] = b[n + i - 1]
  BY <1>1, SMT
<1> HIDE DEF s
<1>3. ASSUME NEW i \in 1..Len(s), ValidAt(s, i) PROVE FALSE
  <2>1. i \in 1..(Len(s) + 1) /\ HeaderFits(s, i)
    BY <1>2, <1>3, SMT DEF ValidAt
  <2>2. i + 2 \in 1..Len(s)
    BY <1>2, <2>1, SizeTyped
  <2>3. s[i + 2] = b[n + (i + 2) - 1] /\ n + (i + 2) - 1 \in T..Len(b) /\ n + (i + 2) - 1 # T + 2
    BY <1>1, <1>2, <2>2, SMT
  <2>4. s[i + 2].crc = None
    BY <2>3 DEF Framed, TornTail
  <2>5. s[i + 2].crc \in Range(Payloads)
    BY <1>3 DEF ValidAt
  <2> QED BY <2>4, <2>5, NoneIsNoText
<1> QED BY <1>3 DEF HasValidRecord, s

\* at lists the frames of the chain from position i on, and recs their records.
Listing(at, F, T, num, i, recs) ==
    /\ at \in [1..Len(recs) -> F \ {T}]
    /\ \A x \in 1..Len(recs) : at[x] >= i /\ recs[x] = Payloads[num[at[x]]]
    /\ \A x, y \in 1..Len(recs) : x < y => at[x] < at[y]
    /\ \A j \in F \ {T} : j >= i => \E x \in 1..Len(recs) : at[x] = j

\* Replay stops at the tail, with nothing applied from it and no error.
LEMMA ReplayTail ==
    ASSUME NEW b \in Seq(Cell), NEW F, NEW T, NEW num, NEW top, Framed(b, F, T, num, top),
           ~ValidAt(b, T)
    PROVE  ReadOf(b)[T] = Stop(T - 1)
<1>1. T \in 1..(Len(b) + 1) /\ T \in Nat /\ T >= 1 /\ Len(b) \in Nat
  BY SMT DEF Framed, Chain
<1>2. ReadOf(b)[T] = ReplayFrom(b, ReadOf(b), T)
  BY <1>1, ReplayRounds
<1>3. ASSUME NEW n \in Nat, n > T PROVE RecoverOrCorrupt(b, T - 1, n) = Stop(T - 1)
  <2>1. n <= Len(b) => ~HasValidRecord(SubSeq(b, n, Len(b)))
    BY <1>3, NothingBehind
  <2> QED BY <2>1 DEF RecoverOrCorrupt
<1>4. RecoverOrCorrupt(b, T - 1, T + RecordHdrSize) = Stop(T - 1)
  BY <1>1, <1>3, SMT DEF RecordHdrSize
<1>5. HeaderFits(b, T) => RecoverOrCorrupt(b, T - 1, FrameEnd(b, T) + 1) = Stop(T - 1)
  BY <1>1, <1>3, SizeTyped, SMT
<1> QED BY <1>2, <1>4, <1>5 DEF ReplayFrom

\* Replay applies the frames of the chain in order, and stops at the tail.
LEMMA ReplayFramed ==
    ASSUME NEW b \in Seq(Cell), NEW F, NEW T, NEW num, NEW top, Framed(b, F, T, num, top),
           ~ValidAt(b, T)
    PROVE  \A i \in F : /\ ReadOf(b)[i].err = "nil" /\ ReadOf(b)[i].good = T - 1
                        /\ \E at : Listing(at, F, T, num, i, ReadOf(b)[i].recs)
<1> DEFINE R(i) == ReadOf(b)[i]
           P(i) == /\ R(i).err = "nil" /\ R(i).good = T - 1
                   /\ \E at : Listing(at, F, T, num, i, R(i).recs)
           L == Len(b) + 1
           S == {i \in 1..L : i \in F => P(i)}
<1>1. /\ Chain(b, F, T, num, top) /\ T \in F /\ L \in Nat
      /\ \A i \in F : i \in 1..L /\ i <= T /\ i \in Nat
  <2>1. /\ Chain(b, F, T, num, top) /\ T \in F /\ F \subseteq 1..(Len(b) + 1)
        /\ \A i \in F : i <= T
    BY DEF Framed, Chain
  <2> QED BY <2>1, SMT
<1>2. P(T)
  <2>1. R(T).err = "nil" /\ R(T).good = T - 1 /\ R(T).recs = <<>>
    <3>1. R(T) = Stop(T - 1)
      BY ReplayTail
    <3> HIDE DEF R
    <3> QED BY <3>1, SMT DEF Stop
  <2>2. Listing([x \in 1..0 |-> 0], F, T, num, T, <<>>)
    BY <1>1, SMT DEF Listing
  <2> QED BY <2>1, <2>2
<1>3. ASSUME NEW i \in F, i # T, P(FrameEnd(b, i) + 1) PROVE P(i)
  <2> DEFINE q == FrameEnd(b, i) + 1
             s == R(q).recs
             p == PayloadAt(b, i)
             z == <<p>> \o s
  <2>1. /\ i \in 1..L /\ i < T /\ i \in Nat /\ FrameAt(b, i, num[i])
        /\ FrameEnd(b, i) \in (i + 3)..Len(b) /\ q \in F /\ q \in 1..L
    BY <1>1, <1>3, ChainFacts
  <2>2. HeaderFits(b, i) /\ Plausible(SizeAt(b, i)) /\ ~Overruns(b, i) /\ ValidAt(b, i) /\ p = Payloads[num[i]]
    BY <2>1, SMT DEF FrameAt, ValidAt, Overruns
  <2>3. Outcome(b, q, R(q)) /\ p \in Range(Payloads)
    BY <2>1, <2>2, ReadOutcome, PayloadTyped
  <2>4. R(q) \in Outcomes /\ s \in Seq(Range(Payloads))
    BY <2>3 DEF Outcome, Outcomes
  <2>5. R(i) = [R(q) EXCEPT !.recs = z]
    BY <2>1, <2>2, ReplayRounds DEF ReplayFrom
  <2>6. R(q).err = "nil" /\ R(q).good = T - 1
    BY <1>3
  <2>7. PICK at : Listing(at, F, T, num, q, s)
    BY <1>3
  <2>8. q > i /\ q \in Nat
    BY <2>1, SMT
  <2>9. \A j \in F \ {T} : j > i => j >= q
    <3> SUFFICES ASSUME NEW j \in F, j > i PROVE j >= q
      OBVIOUS
    <3>1. FrameEnd(b, i) < j
      BY <1>1 DEF Framed, Ordered
    <3> QED BY <1>1, <2>1, <3>1, SMT
  <2> HIDE DEF R, q, s, p
  <2>10. R(i).err = "nil" /\ R(i).good = T - 1 /\ R(i).recs = z
    BY <2>4, <2>5, <2>6 DEF Outcomes
  <2>11. /\ Len(s) \in Nat /\ Len(z) = Len(s) + 1 /\ z[1] = p
         /\ \A x \in 2..Len(z) : x - 1 \in 1..Len(s) /\ z[x] = s[x - 1]
    BY <2>3, <2>4, SMT
  <2> HIDE DEF z
  <2> DEFINE at2 == [x \in 1..Len(z) |-> IF x = 1 THEN i ELSE at[x - 1]]
  <2>12. at2[1] = i /\ \A x \in 2..Len(z) : at2[x] = at[x - 1]
    BY <2>11, SMT
  <2>13. /\ \A x \in 1..Len(s) : at[x] \in F \ {T} /\ at[x] >= q /\ s[x] = Payloads[num[at[x]]]
         /\ \A x, y \in 1..Len(s) : x < y => at[x] < at[y]
         /\ \A j \in F \ {T} : j >= q => \E x \in 1..Len(s) : at[x] = j
    BY <2>7 DEF Listing
  <2>14. ASSUME NEW x \in 1..Len(z)
         PROVE  at2[x] \in F \ {T} /\ at2[x] >= i /\ z[x] = Payloads[num[at2[x]]]
    <3>1. CASE x = 1
      BY <1>3, <2>1, <2>2, <2>11, <2>12, <3>1, SMT
    <3>2. CASE x # 1
      <4>1. x \in 2..Len(z) /\ x - 1 \in 1..Len(s) /\ z[x] = s[x - 1] /\ at2[x] = at[x - 1]
        BY <2>11, <2>12, <3>2, SMT
      <4>2. at[x - 1] \in F \ {T} /\ at[x - 1] >= q /\ s[x - 1] = Payloads[num[at[x - 1]]]
        BY <2>13, <4>1
      <4>3. at[x - 1] >= i
        <5>1. at[x - 1] \in Nat
          BY <1>1, <4>2
        <5> QED BY <1>1, <2>8, <4>2, <5>1, SMT
      <4> HIDE DEF at2
      <4> QED BY <4>1, <4>2, <4>3
    <3> QED BY <3>1, <3>2
  <2>15. ASSUME NEW x \in 1..Len(z), NEW y \in 1..Len(z), x < y PROVE at2[x] < at2[y]
    <3>1. y \in 2..Len(z) /\ y - 1 \in 1..Len(s) /\ at2[y] = at[y - 1]
      BY <2>11, <2>12, <2>15, SMT
    <3>2. at[y - 1] \in F /\ at[y - 1] >= q
      BY <2>13, <3>1
    <3>3. CASE x = 1
      <4>1. at2[x] = i
        BY <2>12, <3>3
      <4> HIDE DEF at2
      <4>2. at[y - 1] \in Nat /\ i \in Nat
        BY <1>1, <3>2
      <4> QED BY <2>8, <3>1, <3>2, <4>1, <4>2, SMT
    <3>4. CASE x # 1
      <4>1. x - 1 \in 1..Len(s) /\ at2[x] = at[x - 1] /\ x - 1 < y - 1
        BY <2>11, <2>12, <2>15, <3>4, SMT
      <4> HIDE DEF at2
      <4> QED BY <2>13, <3>1, <4>1, SMT
    <3> QED BY <3>3, <3>4
  <2>16. ASSUME NEW j \in F \ {T}, j >= i PROVE \E x \in 1..Len(z) : at2[x] = j
    <3>1. CASE j = i
      BY <2>11, <2>12, <3>1, SMT
    <3>2. CASE j # i
      <4>1. j >= q
        BY <1>1, <2>1, <2>9, <2>16, <3>2, SMT
      <4>2. PICK x \in 1..Len(s) : at[x] = j
        BY <2>13, <4>1
      <4>3. x + 1 \in 2..Len(z) /\ x + 1 \in 1..Len(z) /\ (x + 1) - 1 = x
        BY <2>11, SMT
      <4>4. at2[x + 1] = j
        BY <2>12, <4>2, <4>3
      <4> HIDE DEF at2
      <4> QED BY <4>3, <4>4
    <3> QED BY <3>1, <3>2
  <2>17. at2 \in [1..Len(z) -> F \ {T}]
    BY <2>14
  <2> HIDE DEF at2
  <2>18. Listing(at2, F, T, num, i, z)
    BY <2>14, <2>15, <2>16, <2>17 DEF Listing
  <2> QED BY <2>10, <2>18
<1>4. ASSUME NEW i \in 1..L, \A j \in (i + 1)..L : j \in S PROVE i \in S
  <2> SUFFICES ASSUME i \in F PROVE P(i)
    OBVIOUS
  <2>1. CASE i = T
    BY <1>2, <2>1
  <2>2. CASE i # T
    <3> DEFINE q == FrameEnd(b, i) + 1
    <3>1. q \in F /\ q \in (i + 1)..L
      BY <1>1, <2>2, ChainFacts, SMT
    <3>2. q \in S
      BY <1>4, <3>1
    <3>3. P(q)
      BY <3>1, <3>2
    <3> HIDE DEF P
    <3> QED BY <1>3, <2>2, <3>3
  <2> QED BY <2>1, <2>2
<1>5. \A i \in 1..L : i \in S
  <2> HIDE DEF S, L
  <2> QED BY <1>1, <1>4, Backwards
<1> QED BY <1>1, <1>5
-----------------------------------------------------------------------------
(* What the steps do to a chain. *)

\* The frames of the chain F are frames of H, the same records at the same places.
Inherits(b, F, T, num, c, H, U, num2) ==
    \A i \in F \ {T} : i \in H \ {U} /\ num2[i] = num[i] /\ FrameEnd(c, i) = FrameEnd(b, i)

\* In a tail that does not begin with a record there is none.
LEMMA TailHoldsNone ==
    ASSUME NEW b \in Seq(Cell), NEW F, NEW T, NEW num, NEW top, Framed(b, F, T, num, top),
           ~ValidAt(b, T), NEW x \in T..Len(b)
    PROVE  ~ValidAt(b, x)
<1> SUFFICES ASSUME ValidAt(b, x) PROVE FALSE
  OBVIOUS
<1>1. T \in 1..(Len(b) + 1) /\ T \in Nat /\ Len(b) \in Nat
  BY SMT DEF Framed, Chain
<1>2. x \in 1..(Len(b) + 1) /\ x \in Nat
  BY <1>1, SMT
<1>3. x + 2 \in 1..Len(b) /\ b[x + 2].crc \in Range(Payloads)
  BY <1>2, SizeTyped DEF ValidAt
<1>4. x + 2 = T + 2
  BY <1>1, <1>2, <1>3, NoneIsNoText, SMT DEF Framed, TornTail
<1> QED BY <1>1, <1>2, <1>4, SMT

\* Open truncates the tail, in which there is no record, and leaves a chain.
LEMMA OpenChain ==
    ASSUME TypeOK, NEW F, NEW T, NEW num, Framed(body, F, T, num, next), Open
    PROVE  /\ ~CutsIntactRecord
           /\ \E H, U, num2 : /\ Framed(body', H, U, num2, next) /\ U = Len(body') + 1
                              /\ Inherits(body, F, T, num, body', H, U, num2)
<1>1. body \in Seq(Cell) /\ Len(body) \in Nat
  BY SMT DEF TypeOK
<1>2. PICK G, V, num2 : /\ Framed(body, G, V, num2, next) /\ ~ValidAt(body, V)
                        /\ \A i \in F \ {T} : i \in G \ {V} /\ num2[i] = num[i]
  BY <1>1, FramedClosed, SMT
<1>3. 1 \in G /\ V \in G /\ V \in 1..(Len(body) + 1) /\ Chain(body, G, V, num2, next)
  BY <1>2 DEF Framed, Chain
<1>4. Replay(body).good = V - 1
  <2>1. ReadOf(body)[1].good = V - 1
    BY <1>1, <1>2, <1>3, ReplayFramed, SMT
  <2> QED BY <1>1, <2>1, ReplayRounds
<1> DEFINE c == body'
           n == V - 1
<1>5. c = SubSeq(body, 1, n) /\ n \in 0..Len(body)
  BY <1>3, <1>4, SMT DEF Open
<1>6. c \in Seq(Cell) /\ Len(c) = n /\ \A i \in 1..n : c[i] = body[i]
  BY <1>1, <1>5, Cut
<1> HIDE DEF c, n
<1>7. SameUpTo(n, body, c) /\ n = V - 1 /\ n \in Nat /\ n + 1 = V
  BY <1>3, <1>5, <1>6, SMT DEF SameUpTo, n
<1>8. PICK H \in SUBSET G, U \in G :
         /\ Framed(c, H, U, num2, next) /\ (n + 1 \in G => U = n + 1)
         /\ \A i \in G \ {V} : FrameEnd(body, i) <= n =>
               i \in H \ {U} /\ FrameEnd(c, i) = FrameEnd(body, i)
  BY <1>1, <1>2, <1>6, <1>7, FramedPrefix, SMT
<1>9. U = V /\ U = Len(c) + 1
  BY <1>3, <1>6, <1>7, <1>8
<1>10. ASSUME NEW i \in F \ {T}
       PROVE  i \in H \ {U} /\ num2[i] = num[i] /\ FrameEnd(c, i) = FrameEnd(body, i)
  <2>1. i \in G \ {V} /\ num2[i] = num[i]
    BY <1>2
  <2>2. FrameEnd(body, i) \in Nat /\ FrameEnd(body, i) < V
    BY <1>1, <1>3, <2>1, ChainFacts, SMT
  <2>3. FrameEnd(body, i) <= n
    BY <1>3, <1>7, <2>2, SMT
  <2> QED BY <1>8, <2>1, <2>3
<1>11. ~CutsIntactRecord
  <2>1. \A x \in V..Len(body) : ~ValidAt(body, x)
    BY <1>1, <1>2, TailHoldsNone
  <2>2. Len(body') + 1 = V
    BY <1>9 DEF c
  <2> QED BY <2>1, <2>2 DEF CutsIntactRecord
<1>12. Inherits(body, F, T, num, c, H, U, num2)
  BY <1>10 DEF Inherits
<1> QED BY <1>8, <1>9, <1>11, <1>12 DEF c

\* Write puts one more frame behind the chain.
LEMMA WriteChain ==
    ASSUME TypeOK, NEW F, NEW T, NEW num, Framed(body, F, T, num, next), T = Len(body) + 1, Write
    PROVE  \E H, V, num2 : /\ Framed(body', H, V, num2, next') /\ V = Len(body') + 1
                           /\ T \in H \ {V} /\ num2[T] = next
                           /\ Inherits(body, F, T, num, body', H, V, num2)
<1>1. /\ body \in Seq(Cell) /\ Len(body) \in Nat /\ next \in DOMAIN Payloads /\ next \in Nat
      /\ next' = next + 1
  BY SMT DEF TypeOK, Write, CanAppend
<1>2. PICK d \in CrcDigits : body' = body \o EncodeRecord(Payloads[next], d)
  BY DEF Write
<1> DEFINE c == body'
<1>3. c = body \o EncodeRecord(Payloads[next], d)
  BY <1>2
<1> HIDE DEF c
<1>4. c \in Seq(Cell) /\ OneMore(body, c, T, next) /\ FrameEnd(c, T) = Len(c)
  BY <1>1, <1>3, EncodedFrame
<1>5. Follows(F, T, num, next)
  BY DEF Framed, Chain, Follows
<1>6. PICK V, num2 : V = FrameEnd(c, T) + 1 /\ num2 = Renumber(num, T, next)
  OBVIOUS
<1>7. PICK up2 \in Nat : up2 = next + 1 /\ next <= up2 /\ next < up2
  BY <1>1, SMT
<1>8. Extended(body, c, F, T, num, next, V, num2, up2)
  <2>1. /\ Framed(body, F, T, num, next) /\ body \in Seq(Cell) /\ next \in DOMAIN Payloads
        /\ c \in Seq(Cell) /\ OneMore(body, c, T, next)
    BY <1>1, <1>4
  <2> QED BY <1>5, <1>6, <1>7, <2>1, FramedExtend
<1>9. V = Len(c) + 1
  BY <1>4, <1>6
<1>10. PICK H : Framed(c, H, V, num2, up2) /\ T \in H \ {V} /\ num2[T] = next
                /\ Inherits(body, F, T, num, c, H, V, num2)
  BY <1>8 DEF Extended, Inherits
<1> QED BY <1>1, <1>7, <1>9, <1>10 DEF c

\* A crash keeps n bytes of the file, and zeros.
LEMMA ZeroedSame ==
    ASSUME NEW b \in Seq(Cell), NEW n \in 0..Len(b), NEW m \in n..Len(b),
           NEW c, c = Zeroed(b, n, m)
    PROVE  c \in Seq(Cell) /\ SameUpTo(n, b, c)
<1>1. c \in Seq(Cell) /\ Len(c) = m /\ \A i \in 1..n : c[i] = b[i]
  BY ZerosTyped, SMT
<1>2. \A i \in (n + 1)..m : c[i].crc = None
  BY ZerosTyped, SMT
<1> QED BY <1>1, <1>2, SMT DEF SameUpTo

\* The frames that such a crash leaves whole remain.
LEMMA ZeroedChain ==
    ASSUME NEW b \in Seq(Cell), NEW F, NEW T, NEW num, NEW top, Framed(b, F, T, num, top),
           NEW n \in 0..Len(b), NEW m \in n..Len(b), NEW c, c = Zeroed(b, n, m)
    PROVE  \E H \in SUBSET F, U \in F :
              /\ Framed(c, H, U, num, top) /\ U <= n + 1
              /\ \A i \in F \ {T} : FrameEnd(b, i) <= n =>
                    i \in H \ {U} /\ FrameEnd(c, i) = FrameEnd(b, i)
BY ZeroedSame, FramedPrefix, SMT

-----------------------------------------------------------------------------
(* Crashes only: the log stays a chain, and every acknowledged record is in it. *)

\* The acknowledged records are frames that have reached the disk; while the
\* database is open there is no tail, and the record being committed is in place.
Logged(F, T, num) ==
    /\ \A k \in Range(acked) : \E i \in F \ {T} : num[i] = k /\ FrameEnd(body, i) <= synced
    /\ up => T = Len(body) + 1
    /\ pending # 0 => \E i \in F \ {T} : num[i] = pending

HeaderFirst == header # "whole" => ~up /\ body = <<>> /\ acked = <<>>

LogInv ==
    /\ TypeOK /\ HeaderFirst /\ (pending # 0 => pending = next - 1)
    /\ OnlyCrashes => \E F, T, num : Framed(body, F, T, num, next) /\ Logged(F, T, num)

\* An empty log.
LEMMA EmptyFramed ==
    ASSUME NEW top \in Nat
    PROVE  Framed(<<>>, {1}, 1, [x \in Nat |-> 0], top)
BY SMT DEF Framed, Chain, Ordered, TornTail

\* A new log is a chain without frames.
LEMMA InitLogInv == Init => LogInv
<1> SUFFICES ASSUME Init PROVE LogInv
  OBVIOUS
<1>1. TypeOK
  BY InitTyped
<1>2. Framed(body, {1}, 1, [x \in Nat |-> 0], next)
  BY EmptyFramed DEF Init
<1>3. Logged({1}, 1, [x \in Nat |-> 0])
  BY SMT DEF Init, Logged, Range
<1> QED BY <1>1, <1>2, <1>3 DEF LogInv, HeaderFirst, Init

\* Open keeps the acknowledged records.
LEMMA OpenLogged ==
    ASSUME LogInv, OnlyCrashes, Open
    PROVE  \E F, T, num : Framed(body', F, T, num, next') /\ Logged(F, T, num)'
<1>1. /\ TypeOK /\ Len(body) \in Nat /\ synced \in Nat /\ pending' = 0
      /\ next' = next /\ acked' = acked /\ body \in Seq(Cell)
  BY SMT DEF LogInv, TypeOK, Open
<1>2. PICK F, T, num : Framed(body, F, T, num, next) /\ Logged(F, T, num)
  BY DEF LogInv
<1>3. PICK H, U, num2 : /\ Framed(body', H, U, num2, next) /\ U = Len(body') + 1
                        /\ Inherits(body, F, T, num, body', H, U, num2)
  BY <1>1, <1>2, OpenChain
<1>4. body' \in Seq(Cell) /\ Len(body') \in Nat
  BY <1>1, NextTyped, SMT DEF Next, TypeOK
<1> DEFINE c == body'
<1> HIDE DEF c
<1>5. synced' = IF synced > Len(c) THEN Len(c) ELSE synced
  BY DEF Open, c
<1>6. ASSUME NEW k \in Range(acked)
      PROVE  \E i \in H \ {U} : num2[i] = k /\ FrameEnd(c, i) <= synced'
  <2>1. PICK i \in F \ {T} : num[i] = k /\ FrameEnd(body, i) <= synced
    BY <1>2 DEF Logged
  <2>2. i \in H \ {U} /\ num2[i] = k /\ FrameEnd(c, i) = FrameEnd(body, i)
    BY <1>3, <2>1 DEF Inherits, c
  <2>3. FrameEnd(c, i) \in (i + 3)..Len(c) /\ i \in 1..(Len(c) + 1)
    <3>1. Chain(c, H, U, num2, next) /\ c \in Seq(Cell)
      BY <1>3, <1>4 DEF Framed, c
    <3> QED BY <2>2, <3>1, ChainFacts
  <2>4. FrameEnd(c, i) <= synced'
    BY <1>1, <1>5, <2>1, <2>2, <2>3, SMT
  <2> QED BY <2>2, <2>4
<1>7. Framed(body', H, U, num2, next')
  BY <1>1, <1>3
<1>8. Logged(H, U, num2)'
  BY <1>1, <1>3, <1>6 DEF Logged, c
<1> QED BY <1>7, <1>8

\* Of a log that PowerLoss cuts, what was synced stays.
LEMMA PowerLossLogged ==
    ASSUME LogInv, OnlyCrashes, PowerLoss
    PROVE  \E F, T, num : Framed(body', F, T, num, next') /\ Logged(F, T, num)'
<1>1. /\ body \in Seq(Cell) /\ Len(body) \in Nat /\ synced \in 0..Len(body)
      /\ next' = next /\ acked' = acked /\ pending' = 0 /\ ~up'
  BY SMT DEF LogInv, TypeOK, PowerLoss
<1>2. PICK F, T, num : Framed(body, F, T, num, next) /\ Logged(F, T, num)
  BY DEF LogInv
<1>3. PICK n \in synced..Len(body) : \E m \in n..Len(body) :
         body' = Zeroed(body, n, m) /\ synced' = m
  BY DEF PowerLoss, Zeroed
<1>4. PICK m \in n..Len(body) : body' = Zeroed(body, n, m) /\ synced' = m
  BY <1>3
<1> DEFINE c == body'
<1>5. n \in 0..Len(body) /\ n \in Nat /\ m \in Nat /\ c = Zeroed(body, n, m) /\ n <= m
  BY <1>1, <1>4, SMT
<1> HIDE DEF c
<1>6. PICK H \in SUBSET F, U \in F :
         /\ Framed(c, H, U, num, next)
         /\ \A i \in F \ {T} : FrameEnd(body, i) <= n =>
               i \in H \ {U} /\ FrameEnd(c, i) = FrameEnd(body, i)
  BY <1>1, <1>2, <1>5, ZeroedChain, SMT
<1>7. ASSUME NEW k \in Range(acked)
      PROVE  \E i \in H \ {U} : num[i] = k /\ FrameEnd(c, i) <= synced'
  <2>1. PICK i \in F \ {T} : num[i] = k /\ FrameEnd(body, i) <= synced
    BY <1>2 DEF Logged
  <2>2. FrameEnd(body, i) \in Nat
    <3>1. Chain(body, F, T, num, next)
      BY <1>2 DEF Framed
    <3>2. FrameEnd(body, i) \in (i + 3)..Len(body) /\ i \in 1..(Len(body) + 1)
      BY <1>1, <2>1, <3>1, ChainFacts
    <3> QED BY <1>1, <3>2, SMT
  <2>3. FrameEnd(body, i) <= n /\ FrameEnd(body, i) <= synced'
    BY <1>1, <1>4, <1>5, <2>1, <2>2, SMT
  <2>4. i \in H \ {U} /\ FrameEnd(c, i) = FrameEnd(body, i)
    BY <1>6, <2>3
  <2> QED BY <2>1, <2>3, <2>4
<1>8. Framed(body', H, U, num, next')
  BY <1>1, <1>6 DEF c
<1>9. Logged(H, U, num)'
  BY <1>1, <1>7 DEF Logged, c
<1> QED BY <1>8, <1>9

\* Write adds the record being committed.
LEMMA WriteLogged ==
    ASSUME LogInv, OnlyCrashes, Write
    PROVE  \E F, T, num : Framed(body', F, T, num, next') /\ Logged(F, T, num)'
<1>1. /\ TypeOK /\ up /\ up' = up /\ acked' = acked /\ pending' = next /\ synced' = synced
  BY DEF LogInv, Write, CanAppend
<1>2. PICK F, T, num : Framed(body, F, T, num, next) /\ Logged(F, T, num)
  BY DEF LogInv
<1>3. T = Len(body) + 1
  BY <1>1, <1>2 DEF Logged
<1>4. PICK H, V, num2 : /\ Framed(body', H, V, num2, next') /\ V = Len(body') + 1
                        /\ T \in H \ {V} /\ num2[T] = next
                        /\ Inherits(body, F, T, num, body', H, V, num2)
  BY <1>1, <1>2, <1>3, WriteChain
<1>5. ASSUME NEW k \in Range(acked)
      PROVE  \E i \in H \ {V} : num2[i] = k /\ FrameEnd(body', i) <= synced
  <2>1. PICK i \in F \ {T} : num[i] = k /\ FrameEnd(body, i) <= synced
    BY <1>2 DEF Logged
  <2> QED BY <1>4, <2>1 DEF Inherits
<1>6. Logged(H, V, num2)'
  BY <1>1, <1>4, <1>5 DEF Logged
<1> QED BY <1>4, <1>6

\* Sync makes the chain, the acknowledged record included, durable.
LEMMA SyncLogged ==
    ASSUME LogInv, OnlyCrashes, Sync
    PROVE  \E F, T, num : Framed(body', F, T, num, next') /\ Logged(F, T, num)'
<1>1. /\ body \in Seq(Cell) /\ Len(body) \in Nat /\ acked \in Seq(DOMAIN Payloads)
      /\ pending # 0 /\ up /\ up' = up /\ body' = body /\ next' = next
      /\ acked' = Append(acked, pending) /\ pending' = 0 /\ synced' = Len(body)
  BY SMT DEF LogInv, TypeOK, Sync
<1>2. PICK F, T, num : Framed(body, F, T, num, next) /\ Logged(F, T, num)
  BY DEF LogInv
<1>3. Chain(body, F, T, num, next)
  BY <1>2 DEF Framed
<1>4. ASSUME NEW i \in F \ {T} PROVE FrameEnd(body, i) <= Len(body)
  <2>1. FrameEnd(body, i) \in (i + 3)..Len(body) /\ i \in 1..(Len(body) + 1)
    BY <1>1, <1>3, ChainFacts
  <2> QED BY <1>1, <2>1, SMT
<1>5. Range(acked') \subseteq Range(acked) \cup {pending}
  BY <1>1, SMT DEF Range
<1>6. ASSUME NEW k \in Range(acked')
      PROVE  \E i \in F \ {T} : num[i] = k /\ FrameEnd(body, i) <= Len(body)
  <2>1. CASE k \in Range(acked)
    BY <1>2, <1>4, <2>1 DEF Logged
  <2>2. CASE k = pending
    BY <1>1, <1>2, <1>4, <2>2 DEF Logged
  <2> QED BY <1>5, <2>1, <2>2
<1>7. Framed(body', F, T, num, next')
  BY <1>1, <1>2
<1>8. Logged(F, T, num)'
  <2>1. T = Len(body) + 1
    BY <1>1, <1>2 DEF Logged
  <2> QED BY <1>1, <1>6, <2>1 DEF Logged
<1> QED BY <1>7, <1>8

\* A step that writes nothing and acknowledges nothing.
LEMMA SameLogged ==
    ASSUME LogInv, OnlyCrashes, body' = body, synced' = synced, next' = next, acked' = acked,
           up' => up, pending' # 0 => pending' = pending
    PROVE  \E F, T, num : Framed(body', F, T, num, next') /\ Logged(F, T, num)'
<1>1. PICK F, T, num : Framed(body, F, T, num, next) /\ Logged(F, T, num)
  BY DEF LogInv
<1>2. Framed(body', F, T, num, next')
  BY <1>1
<1>3. Logged(F, T, num)'
  BY <1>1 DEF Logged
<1> QED BY <1>2, <1>3

\* Every step keeps the chain of frames.
LEMMA NextLogInv == LogInv /\ [Next]_vars => LogInv'
<1> SUFFICES ASSUME LogInv, [Next]_vars PROVE LogInv'
  OBVIOUS
<1>1. TypeOK'
  BY NextTyped DEF LogInv
<1>2. TypeOK /\ HeaderFirst /\ (pending # 0 => pending = next - 1)
  BY DEF LogInv
<1> DEFINE Chained == \E F, T, num : Framed(body', F, T, num, next') /\ Logged(F, T, num)'
<1> SUFFICES HeaderFirst' /\ (pending # 0 => pending = next - 1)' /\ (OnlyCrashes' => Chained)
  BY <1>1 DEF LogInv
<1> HIDE DEF Chained
<1>3. CASE OpenEmpty
  <2>1. /\ pending' = 0 /\ next' = next /\ acked' = <<>> /\ body' = <<>> /\ header' = "whole"
        /\ next \in Nat
    BY <1>2, <1>3, SMT DEF OpenEmpty, HeaderFirst, TypeOK
  <2>2. Framed(body', {1}, 1, [x \in Nat |-> 0], next')
    BY <2>1, EmptyFramed
  <2>3. Logged({1}, 1, [x \in Nat |-> 0])'
    BY <2>1, SMT DEF Logged, Range
  <2> QED BY <2>1, <2>2, <2>3 DEF HeaderFirst, Chained
<1>4. CASE HeaderTorn
  <2>1. OnlyCrashes' => Chained
    BY <1>4, SameLogged DEF HeaderTorn, Chained, OnlyCrashes, faults
  <2> QED BY <1>2, <1>4, <2>1 DEF HeaderTorn, HeaderFirst
<1>5. CASE Open
  <2>1. OnlyCrashes' => Chained
    BY <1>5, OpenLogged DEF Open, Chained, OnlyCrashes, faults
  <2> QED BY <1>2, <1>5, <2>1 DEF Open, HeaderFirst
<1>6. CASE Write
  <2>1. OnlyCrashes' => Chained
    BY <1>6, WriteLogged DEF Write, Chained, OnlyCrashes, faults
  <2>2. header' = "whole" /\ pending' = next' - 1
    BY <1>2, <1>6, SMT DEF Write, CanAppend, HeaderFirst, TypeOK
  <2> QED BY <2>1, <2>2 DEF HeaderFirst
<1>7. CASE WriteError
  <2>1. ~OnlyCrashes'
    BY <1>7 DEF WriteError, OnlyCrashes
  <2>2. header' = "whole" /\ pending' = 0
    BY <1>2, <1>7 DEF WriteError, CanAppend, HeaderFirst
  <2> QED BY <2>1, <2>2 DEF HeaderFirst
<1>8. CASE Sync
  <2>1. OnlyCrashes' => Chained
    BY <1>8, SyncLogged DEF Sync, Chained, OnlyCrashes, faults
  <2>2. header' = "whole" /\ pending' = 0
    BY <1>2, <1>8 DEF Sync, HeaderFirst
  <2> QED BY <2>1, <2>2 DEF HeaderFirst
<1>9. CASE SyncError
  <2>1. OnlyCrashes' => Chained
    BY <1>9, SameLogged DEF SyncError, Chained, OnlyCrashes, faults
  <2> QED BY <1>2, <1>9, <2>1 DEF SyncError, HeaderFirst
<1>10. CASE ProcessExit
  <2>1. OnlyCrashes' => Chained
    BY <1>10, SameLogged DEF ProcessExit, Chained, OnlyCrashes, faults
  <2> QED BY <1>2, <1>10, <2>1 DEF ProcessExit, HeaderFirst
<1>11. CASE PowerLoss
  <2>1. OnlyCrashes' => Chained
    BY <1>11, PowerLossLogged DEF PowerLoss, Chained, OnlyCrashes, faults
  <2> QED BY <1>2, <1>11, <2>1 DEF PowerLoss, HeaderFirst
<1>12. CASE Rot
  <2>1. ~OnlyCrashes'
    BY <1>2, <1>12, SMT DEF Rot, OnlyCrashes, TypeOK
  <2>2. (header' # "whole" => body = <<>>) /\ DOMAIN body # {}
    BY <1>2, <1>12 DEF Rot, HeaderFirst
  <2>3. header' = "whole"
    BY <2>2, SMT
  <2> QED BY <1>2, <1>12, <2>1, <2>3 DEF Rot, HeaderFirst
<1>13. CASE UNCHANGED vars
  <2>1. OnlyCrashes' => Chained
    BY <1>13, SameLogged DEF vars, Chained, OnlyCrashes, faults
  <2> QED BY <1>2, <1>13, <2>1 DEF vars, HeaderFirst
<1> QED BY <1>3, <1>4, <1>5, <1>6, <1>7, <1>8, <1>9, <1>10, <1>11, <1>12, <1>13 DEF Next

\* For any records and any number of crashes: whatever a process exit or a power
\* loss leaves behind the last complete record, replay (wal.go) takes it for a
\* torn tail, and never for corruption that refuses to open the database.
THEOREM CrashesNeverRefuse == Spec => []CrashesNeverBlockOpen
<1>1. LogInv => CrashesNeverBlockOpen
  <2> SUFFICES ASSUME LogInv, OnlyCrashes PROVE Replay(body).err = "nil"
    BY DEF CrashesNeverBlockOpen
  <2>1. body \in Seq(Cell)
    BY DEF LogInv, TypeOK
  <2>2. PICK F, T, num : Framed(body, F, T, num, next)
    BY DEF LogInv
  <2>3. PICK G, V, num2 : Framed(body, G, V, num2, next) /\ ~ValidAt(body, V)
    BY <2>1, <2>2, FramedClosed
  <2>4. 1 \in G
    BY <2>3 DEF Framed, Chain
  <2>5. ReadOf(body)[1].err = "nil"
    BY <2>1, <2>3, <2>4, ReplayFramed
  <2> QED BY <2>1, <2>5, ReplayRounds
<1> QED BY <1>1, InitLogInv, NextLogInv, PTL DEF Spec
-----------------------------------------------------------------------------
(* What is acknowledged is applied again. *)

Applied ==
    /\ Range(acked) \subseteq Range(mem)
    /\ \A i, j \in DOMAIN mem : i < j => mem[i] < mem[j]
    /\ \A k \in Range(mem) : k < next /\ (pending # 0 => k < pending)

MemInv == LogInv /\ (up /\ OnlyCrashes => Applied)

\* When texts differ, the number of a payload is the record it came from.
LEMMA NumberOf ==
    ASSUME RecordsDiffer, NEW k \in DOMAIN Payloads
    PROVE  Number(Payloads[k]) = k
BY DEF RecordsDiffer, Number

\* Open applies the chain, record by record.
LEMMA OpenApplied ==
    ASSUME RecordsDiffer, LogInv, OnlyCrashes, Open
    PROVE  Applied'
<1>1. /\ body \in Seq(Cell) /\ Len(body) \in Nat /\ pending = 0
      /\ next' = next /\ acked' = acked /\ pending' = pending
  BY SMT DEF LogInv, TypeOK, Open
<1>2. PICK F, T, num : Framed(body, F, T, num, next) /\ Logged(F, T, num)
  BY DEF LogInv
<1>3. PICK G, V, num2 : /\ Framed(body, G, V, num2, next) /\ ~ValidAt(body, V)
                        /\ \A i \in F \ {T} : i \in G \ {V} /\ num2[i] = num[i]
  BY <1>1, <1>2, FramedClosed, SMT
<1>4. 1 \in G /\ \A i \in G : i \in 1..(Len(body) + 1)
  BY <1>3 DEF Framed, Chain
<1> DEFINE recs == Replay(body).recs
<1>5. PICK at : Listing(at, G, V, num2, 1, recs)
  <2>1. \E at : Listing(at, G, V, num2, 1, ReadOf(body)[1].recs)
    BY <1>1, <1>3, <1>4, ReplayFramed
  <2> QED BY <1>1, <2>1, ReplayRounds
<1>6. mem' = [k \in DOMAIN recs |-> Number(recs[k])]
  BY DEF Open
<1>7. recs \in Seq(Range(Payloads))
  <2>1. Outcome(body, 1, ReadOf(body)[1])
    BY <1>1, ReadOutcome, SMT
  <2> QED BY <1>1, <2>1, ReplayRounds DEF Outcome, Outcomes
<1> DEFINE m == mem'
<1> HIDE DEF recs, m
<1>8. ASSUME NEW x \in 1..Len(recs)
      PROVE  /\ at[x] \in G \ {V} /\ num2[at[x]] \in DOMAIN Payloads /\ num2[at[x]] < next
             /\ Number(recs[x]) = num2[at[x]]
  <2>1. at[x] \in G \ {V} /\ recs[x] = Payloads[num2[at[x]]]
    BY <1>5 DEF Listing
  <2>2. num2[at[x]] \in DOMAIN Payloads /\ num2[at[x]] < next
    BY <1>3, <2>1 DEF Framed, Chain
  <2> QED BY <2>1, <2>2, NumberOf
<1>9. DOMAIN m = 1..Len(recs) /\ \A x \in 1..Len(recs) : m[x] = num2[at[x]]
  <2>1. DOMAIN recs = 1..Len(recs)
    BY <1>7, SMT
  <2> QED BY <1>6, <1>8, <2>1 DEF m
<1>10. ASSUME NEW k \in Range(acked) PROVE k \in Range(m)
  <2>1. PICK i \in F \ {T} : num[i] = k
    BY <1>2 DEF Logged
  <2>2. i \in G \ {V} /\ num2[i] = k /\ i >= 1
    BY <1>1, <1>3, <1>4, <2>1, SMT
  <2>3. PICK x \in 1..Len(recs) : at[x] = i
    BY <1>5, <2>2 DEF Listing
  <2> QED BY <1>9, <2>2, <2>3 DEF Range
<1>11. ASSUME NEW x \in DOMAIN m, NEW y \in DOMAIN m, x < y PROVE m[x] < m[y]
  <2>1. at[x] < at[y] /\ at[x] \in G /\ at[y] \in G \ {V}
    BY <1>5, <1>8, <1>9, <1>11 DEF Listing
  <2>2. num2[at[x]] < num2[at[y]]
    BY <1>3, <2>1 DEF Framed, Ordered
  <2> QED BY <1>9, <2>2, SMT
<1>12. ASSUME NEW k \in Range(m) PROVE k < next
  BY <1>8, <1>9, SMT DEF Range
<1> QED BY <1>1, <1>10, <1>11, <1>12 DEF Applied, m

\* Every step keeps memory in commit order.
LEMMA NextMemInv == RecordsDiffer /\ MemInv /\ [Next]_vars => MemInv'
<1> SUFFICES ASSUME RecordsDiffer, MemInv, [Next]_vars PROVE MemInv'
  OBVIOUS
<1>1. LogInv'
  BY NextLogInv DEF MemInv
<1>2. TypeOK /\ HeaderFirst /\ LogInv
  BY DEF MemInv, LogInv
<1> SUFFICES ASSUME up', OnlyCrashes' PROVE Applied'
  BY <1>1 DEF MemInv
<1>3. CASE OpenEmpty
  BY <1>2, <1>3, SMT DEF OpenEmpty, HeaderFirst, Applied, Range
<1>4. CASE HeaderTorn
  BY <1>4 DEF HeaderTorn
<1>5. CASE Open
  <2>1. OnlyCrashes
    BY <1>5 DEF Open, OnlyCrashes, faults
  <2> QED BY <1>2, <1>5, <2>1, OpenApplied
<1>6. CASE Write
  <2>1. Applied /\ next \in Nat /\ mem \in Seq(DOMAIN Payloads)
    BY <1>2, <1>6, SMT DEF Write, CanAppend, OnlyCrashes, faults, MemInv, TypeOK
  <2>2. \A k \in Range(mem) : k \in Nat
    BY <2>1, SMT DEF Range
  <2> QED BY <1>6, <2>1, <2>2, SMT DEF Write, Applied
<1>7. CASE WriteError
  BY <1>7 DEF WriteError, OnlyCrashes
<1>8. CASE Sync
  <2>1. /\ Applied /\ pending # 0 /\ pending \in DOMAIN Payloads /\ pending \in Nat
        /\ next \in Nat /\ pending < next
        /\ mem \in Seq(DOMAIN Payloads) /\ acked \in Seq(DOMAIN Payloads)
        /\ mem' = Append(mem, pending) /\ acked' = Append(acked, pending)
        /\ pending' = 0 /\ next' = next
    BY <1>2, <1>8, SMT DEF Sync, OnlyCrashes, faults, MemInv, LogInv, TypeOK
  <2> DEFINE m == mem'
             a == acked'
  <2>2. m = Append(mem, pending) /\ a = Append(acked, pending)
    BY <2>1
  <2> HIDE DEF m, a
  <2>3. /\ Len(mem) \in Nat /\ DOMAIN m = 1..(Len(mem) + 1) /\ DOMAIN mem = 1..Len(mem)
        /\ m[Len(mem) + 1] = pending /\ \A i \in DOMAIN mem : m[i] = mem[i]
    BY <2>1, <2>2, SMT
  <2>4. Range(m) = Range(mem) \cup {pending}
    BY <2>3, SMT DEF Range
  <2>5. Range(a) \subseteq Range(acked) \cup {pending}
    BY <2>1, <2>2, SMT DEF Range
  <2>6. Range(a) \subseteq Range(m)
    BY <2>1, <2>4, <2>5 DEF Applied
  <2>7. ASSUME NEW i \in DOMAIN m, NEW j \in DOMAIN m, i < j PROVE m[i] < m[j]
    <3>1. i \in DOMAIN mem /\ mem[i] \in Range(mem)
      BY <2>3, <2>7, SMT DEF Range
    <3>2. CASE j \in DOMAIN mem
      BY <2>1, <2>3, <2>7, <3>1, <3>2 DEF Applied
    <3>3. CASE j = Len(mem) + 1
      BY <2>1, <2>3, <3>1, <3>3 DEF Applied
    <3> QED BY <2>3, <3>2, <3>3, SMT
  <2>8. \A k \in Range(m) : k < next
    BY <2>1, <2>4 DEF Applied
  <2> QED BY <2>1, <2>6, <2>7, <2>8 DEF Applied, m, a
<1>9. CASE SyncError
  BY <1>9 DEF SyncError, OnlyCrashes, faults, MemInv, Applied
<1>10. CASE ProcessExit
  BY <1>10 DEF ProcessExit
<1>11. CASE PowerLoss
  BY <1>11 DEF PowerLoss
<1>12. CASE Rot
  BY <1>12 DEF Rot
<1>13. CASE UNCHANGED vars
  BY <1>13 DEF vars, OnlyCrashes, faults, MemInv, Applied
<1> QED BY <1>3, <1>4, <1>5, <1>6, <1>7, <1>8, <1>9, <1>10, <1>11, <1>12, <1>13 DEF Next

\* For any records, no two with the same text, and any number of crashes: an
\* open database has applied every record whose commit was acknowledged, in
\* commit order and none twice.  Sync comes before the acknowledgement
\* (appendRecord, wal.go), so the record's frame is in the part of the file that
\* no crash takes, and replay reads every frame of that part.
THEOREM AcknowledgedSurvives == RecordsDiffer => (Spec => []AckedSurvive)
<1> SUFFICES ASSUME RecordsDiffer PROVE Spec => []AckedSurvive
  OBVIOUS
<1>1. Init => MemInv
  BY InitLogInv DEF MemInv, Init
<1>2. MemInv /\ [Next]_vars => MemInv'
  BY NextMemInv
<1>3. MemInv => AckedSurvive
  BY DEF MemInv, AckedSurvive, Applied
<1> QED BY <1>1, <1>2, <1>3, PTL DEF Spec
=============================================================================
