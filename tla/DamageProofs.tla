---------------------------- MODULE DamageProofs ----------------------------
(***************************************************************************)
(* Proofs about a log with a damaged byte: Open cuts off no complete,      *)
(* valid record.                                                           *)
(***************************************************************************)
EXTENDS WALProofs

\* Zenon proves a step unless the step names another prover.
USE Zenon

-----------------------------------------------------------------------------
(***************************************************************************)
(* One damaged byte, outside the lengths.  Damage in the tail leaves a     *)
(* chain.  Damage in a frame D, at position p, leaves a file that differs  *)
(* from a chain in that byte alone.                                        *)
(***************************************************************************)

\* A checksum follows the two bytes of a length.
Marked(b) ==
    \A x \in 1..Len(b) : b[x].crc # None =>
        x > 2 /\ b[x - 1].field = "size" /\ b[x - 2].field = "size"

\* A cut keeps lengths in front of checksums.
LEMMA MarkedPrefix ==
    ASSUME NEW b \in Seq(Cell), NEW c \in Seq(Cell), NEW n, SameUpTo(n, b, c), Marked(b)
    PROVE  Marked(c)
<1> SUFFICES ASSUME NEW x \in 1..Len(c), c[x].crc # None
             PROVE  x > 2 /\ c[x - 1].field = "size" /\ c[x - 2].field = "size"
  BY DEF Marked
<1>1. n \in Nat /\ Len(b) \in Nat /\ Len(c) \in Nat /\ n <= Len(b) /\ x \in Nat /\ x >= 1
  BY SMT DEF SameUpTo
<1>2. x <= n
  BY <1>1, SMT DEF SameUpTo
<1>3. x \in 1..Len(b) /\ x \in 1..n /\ c[x] = b[x]
  BY <1>1, <1>2, SMT DEF SameUpTo
<1>4. x > 2 /\ b[x - 1].field = "size" /\ b[x - 2].field = "size"
  BY <1>3 DEF Marked
<1>5. x - 1 \in 1..n /\ x - 2 \in 1..n
  BY <1>1, <1>2, <1>4, SMT
<1>6. c[x - 1] = b[x - 1] /\ c[x - 2] = b[x - 2]
  BY <1>5 DEF SameUpTo
<1> QED BY <1>4, <1>6

\* So does a write.
LEMMA MarkedWrite ==
    ASSUME NEW b \in Seq(Cell), Marked(b), NEW k \in DOMAIN Payloads, NEW d \in CrcDigits,
           NEW c, c = b \o EncodeRecord(Payloads[k], d)
    PROVE  Marked(c)
<1> DEFINE e == EncodeRecord(Payloads[k], d)
<1>1. /\ e \in Seq(Cell) /\ Len(e) = RecordHdrSize + Len(Payloads[k])
      /\ \A j \in 1..Len(e) : j # 3 => e[j].crc = None
  BY Encoded, SMT
<1>2. e[1].field = "size" /\ e[2].field = "size"
  BY Encoded, SMT
<1>3. c = b \o e
  OBVIOUS
<1>4. Len(Payloads[k]) \in Nat
  BY TextTyped, SMT
<1> HIDE DEF e
<1>5. /\ Len(b) \in Nat /\ Len(e) \in Nat /\ Len(e) >= 3 /\ Len(c) = Len(b) + Len(e)
      /\ \A i \in 1..Len(b) : c[i] = b[i]
      /\ \A j \in 1..Len(e) : c[Len(b) + j] = e[j]
  <2>1. /\ Len(b \o e) = Len(b) + Len(e)
        /\ \A i \in 1..Len(b) : (b \o e)[i] = b[i]
        /\ \A j \in 1..Len(e) : (b \o e)[Len(b) + j] = e[j]
    <3>1. e \in Seq(Cell)
      BY <1>1
    <3> QED BY <3>1, Joined, SMT
  <2>2. Len(b) \in Nat /\ Len(e) \in Nat /\ Len(e) >= 3
    BY <1>1, <1>4, SMT DEF RecordHdrSize
  <2> QED BY <1>3, <2>1, <2>2
<1> SUFFICES ASSUME NEW x \in 1..Len(c), c[x].crc # None
             PROVE  x > 2 /\ c[x - 1].field = "size" /\ c[x - 2].field = "size"
  BY DEF Marked
<1>6. CASE x <= Len(b)
  <2>1. x \in 1..Len(b) /\ b[x].crc # None
    BY <1>5, <1>6, SMT
  <2>2. x > 2 /\ b[x - 1].field = "size" /\ b[x - 2].field = "size"
    BY <2>1 DEF Marked
  <2>3. x - 1 \in 1..Len(b) /\ x - 2 \in 1..Len(b)
    BY <1>5, <2>1, <2>2, SMT
  <2> QED BY <1>5, <2>2, <2>3
<1>7. CASE x > Len(b)
  <2>1. x - Len(b) \in 1..Len(e) /\ Len(b) + (x - Len(b)) = x
    BY <1>5, <1>7, SMT
  <2>2. x - Len(b) = 3
    BY <1>1, <1>5, <2>1, SMT
  <2>3. x - 1 = Len(b) + 2 /\ x - 2 = Len(b) + 1 /\ x > 2 /\ 1 \in 1..Len(e) /\ 2 \in 1..Len(e)
    BY <1>5, <1>7, <2>2, SMT
  <2> QED BY <1>2, <1>5, <2>3
<1> QED BY <1>5, <1>6, <1>7, SMTT(20)

\* c is b with the byte at p damaged.
Damage(b, c, p) ==
    /\ p \in 1..Len(b) /\ Len(c) = Len(b)
    /\ c[p].crc = None /\ c[p].field = b[p].field /\ c[p].digit # b[p].digit
    /\ \A x \in 1..Len(b) : x # p => c[x] = b[x]

\* So does damage outside the lengths.
LEMMA MarkedDamage ==
    ASSUME NEW b \in Seq(Cell), NEW c \in Seq(Cell), NEW p, Damage(b, c, p), Marked(b)
    PROVE  Marked(c)
<1> SUFFICES ASSUME NEW x \in 1..Len(c), c[x].crc # None
             PROVE  x > 2 /\ c[x - 1].field = "size" /\ c[x - 2].field = "size"
  BY DEF Marked
<1>1. x \in 1..Len(b) /\ x # p /\ c[x] = b[x] /\ Len(b) \in Nat
  BY SMT DEF Damage
<1>2. x > 2 /\ b[x - 1].field = "size" /\ b[x - 2].field = "size"
  BY <1>1 DEF Marked
<1>3. x - 1 \in 1..Len(b) /\ x - 2 \in 1..Len(b)
  BY <1>1, <1>2, SMT
<1>4. \A y \in 1..Len(b) : c[y].field = b[y].field
  BY DEF Damage
<1> QED BY <1>2, <1>3, <1>4

\* Rot damages a byte that is not of a length.
LEMMA RotDamages ==
    ASSUME TypeOK, Rot, "size" \notin Faults
    PROVE  \E p : Damage(body, body', p) /\ body[p].field # "size"
<1>1. body \in Seq(Cell)
  BY DEF TypeOK
<1>2. PICK p \in DOMAIN body, d \in Digits :
         /\ body[p].field \in Faults /\ d # body[p].digit
         /\ body' = [body EXCEPT ![p] = Byte(d, body[p].field)]
  BY DEF Rot
<1>3. p \in 1..Len(body) /\ Len(body') = Len(body) /\ body'[p] = Byte(d, body[p].field)
      /\ \A x \in 1..Len(body) : x # p => body'[x] = body[x]
  BY <1>1, <1>2, SMT
<1>4. body'[p].crc = None /\ body'[p].field = body[p].field /\ body'[p].digit = d
  BY <1>3, SMT DEF Byte
<1>5. Damage(body, body', p)
  BY <1>2, <1>3, <1>4 DEF Damage
<1> QED BY <1>2, <1>5

\* A tail in which checksums only disappear is a tail.
LEMMA TailChanged ==
    ASSUME NEW b \in Seq(Cell), NEW c \in Seq(Cell), NEW F, NEW T, NEW num, NEW top,
           Framed(b, F, T, num, top), Len(c) = Len(b),
           \A x \in 1..Len(b) : IF x < T THEN c[x] = b[x] ELSE c[x].crc \in {None, b[x].crc}
    PROVE  Framed(c, F, T, num, top)
<1>1. /\ Chain(b, F, T, num, top) /\ T \in F /\ 1 \in F /\ Len(b) \in Nat /\ top \in Nat
      /\ \A i \in F : i \in 1..(Len(b) + 1) /\ i <= T
  BY SMT DEF Framed, Chain
<1>2. ASSUME NEW i \in F, i # T
      PROVE  /\ num[i] \in DOMAIN Payloads /\ num[i] < top
             /\ FrameAt(c, i, num[i]) /\ FrameEnd(c, i) = FrameEnd(b, i) /\ FrameEnd(b, i) + 1 \in F
  <2>1. /\ i \in 1..(Len(b) + 1) /\ T \in 1..(Len(b) + 1) /\ num[i] \in DOMAIN Payloads /\ num[i] < top
        /\ FrameAt(b, i, num[i]) /\ FrameEnd(b, i) \in (i + 3)..Len(b) /\ FrameEnd(b, i) + 1 \in F
        /\ FrameEnd(b, i) < T
    BY <1>1, <1>2, ChainFacts, SMT
  <2>2. FrameEnd(b, i) <= Len(c) /\ \A x \in i..FrameEnd(b, i) : c[x] = b[x]
    BY <2>1, SMT
  <2> QED BY <2>1, <2>2, FrameKept
<1>3. Chain(c, F, T, num, top)
  BY <1>1, <1>2 DEF Chain
<1>4. Ordered(c, F, T, num)
  <2> SUFFICES ASSUME NEW i \in F, NEW j \in F, i < j
               PROVE  FrameEnd(c, i) < j /\ (j # T => num[i] < num[j])
    BY DEF Ordered
  <2>1. i # T
    BY <1>1, SMT
  <2>2. FrameEnd(b, i) < j /\ (j # T => num[i] < num[j])
    BY DEF Framed, Ordered
  <2> QED BY <1>2, <2>1, <2>2
<1>5. TornTail(c, F, T, num, top)
  <2> SUFFICES ASSUME NEW x \in T..Len(c), c[x].crc # None
               PROVE  /\ x = T + 2
                      /\ \E k \in DOMAIN Payloads :
                            k < top /\ c[x].crc = Payloads[k] /\ \A i \in F \ {T} : num[i] < k
    BY DEF TornTail
  <2>1. x \in 1..Len(b) /\ ~(x < T) /\ x \in T..Len(b)
    BY <1>1, SMT
  <2>2. c[x].crc = b[x].crc
    BY <2>1
  <2> QED BY <2>1, <2>2 DEF Framed, TornTail
<1> QED BY <1>3, <1>4, <1>5 DEF Framed

\* The file b is the chain o with the byte at p, behind the length of frame D, damaged.
Hit(o, b, F, T, D, p) == D \in F \ {T} /\ p \in (D + 2)..FrameEnd(o, D) /\ Damage(o, b, p)

\* Damage to a chain: in the tail it leaves a chain, elsewhere it is in a frame.
LEMMA DamagedChain ==
    ASSUME NEW b \in Seq(Cell), NEW c \in Seq(Cell), NEW F, NEW T, NEW num, NEW top,
           Framed(b, F, T, num, top), Marked(b), NEW p, Damage(b, c, p), b[p].field # "size"
    PROVE  Framed(c, F, T, num, top) \/ \E D : Hit(b, c, F, T, D, p)
<1>1. /\ Chain(b, F, T, num, top) /\ T \in F /\ 1 \in F /\ Len(b) \in Nat
      /\ \A i \in F : i \in 1..(Len(b) + 1) /\ i <= T /\ i \in Nat
  <2>1. Chain(b, F, T, num, top) /\ F \subseteq 1..(Len(b) + 1) /\ T \in F /\ 1 \in F /\ \A i \in F : i <= T
    BY DEF Framed, Chain
  <2> QED BY <2>1, SMT
<1>2. p \in 1..Len(b) /\ Len(c) = Len(b) /\ c[p].crc = None /\ \A x \in 1..Len(b) : x # p => c[x] = b[x]
  BY DEF Damage
<1>3. CASE p >= T
  <2>1. \A x \in 1..Len(b) : IF x < T THEN c[x] = b[x] ELSE c[x].crc \in {None, b[x].crc}
    BY <1>1, <1>2, <1>3, SMT
  <2> QED BY <1>2, <2>1, TailChanged
<1>4. CASE p < T
  <2> DEFINE G == {i \in F : i <= p}
  <2>1. PICK D \in G : \A i \in G : i <= D
    <3>1. G \in SUBSET Nat /\ 1 \in G /\ p \in Nat /\ \A i \in G : i <= p
      BY <1>1, <1>2, SMT
    <3> HIDE DEF G
    <3> QED BY <3>1, NatGreatest
  <2>a. D \in F /\ D <= p
    BY <2>1
  <2>2. D \in F /\ D # T /\ D <= p /\ D \in Nat
    <3>1. D \in Nat /\ p \in Nat /\ T \in Nat
      BY <1>1, <1>2, <2>a, SMT
    <3> HIDE DEF G
    <3> QED BY <1>4, <2>a, <3>1, SMT
  <2>3. /\ D \in 1..(Len(b) + 1) /\ num[D] \in DOMAIN Payloads /\ FrameAt(b, D, num[D])
        /\ FrameEnd(b, D) \in (D + 3)..Len(b) /\ FrameEnd(b, D) + 1 \in F
    BY <1>1, <2>2, ChainFacts, SMT
  <2>4. p <= FrameEnd(b, D)
    <3>1. FrameEnd(b, D) + 1 \notin G
      BY <2>1, <2>2, <2>3, SMT
    <3> QED BY <1>2, <2>2, <2>3, <3>1, SMT
  <2>5. D + 2 \in 1..Len(b) /\ b[D + 2].crc # None
    BY <2>3, FrameFacts
  <2>6. b[(D + 2) - 1].field = "size" /\ b[(D + 2) - 2].field = "size"
    BY <2>5 DEF Marked
  <2>7. (D + 2) - 1 = D + 1 /\ (D + 2) - 2 = D
    BY <2>2, SMT
  <2>8. p # D /\ p # D + 1
    BY <2>6, <2>7
  <2>9. p \in (D + 2)..FrameEnd(b, D)
    BY <1>2, <2>2, <2>3, <2>4, <2>8, SMT
  <2> QED BY <2>2, <2>9 DEF Hit
<1> QED BY <1>1, <1>2, <1>3, <1>4, SMT

\* The damaged frame keeps its length, and is not valid; the others are as before.
LEMMA HitFacts ==
    ASSUME NEW o \in Seq(Cell), NEW b \in Seq(Cell), NEW F, NEW T, NEW num, NEW top,
           Framed(o, F, T, num, top), NEW D, NEW p, Hit(o, b, F, T, D, p)
    PROVE  /\ Len(b) = Len(o) /\ D \in 1..(Len(b) + 1) /\ D \in Nat /\ D < T
           /\ FrameEnd(b, D) = FrameEnd(o, D) /\ FrameEnd(o, D) \in (D + 3)..Len(b)
           /\ FrameEnd(o, D) + 1 \in F
           /\ HeaderFits(b, D) /\ Plausible(SizeAt(b, D)) /\ ~ValidAt(b, D)
           /\ \A x \in D..FrameEnd(o, D) : x # D + 2 => b[x].crc = None
<1>1. Chain(o, F, T, num, top) /\ D \in F /\ D # T
  BY DEF Framed, Hit
<1>2. /\ D \in 1..(Len(o) + 1) /\ D < T /\ num[D] \in DOMAIN Payloads /\ FrameAt(o, D, num[D])
      /\ FrameEnd(o, D) \in (D + 3)..Len(o) /\ FrameEnd(o, D) + 1 \in F
  BY <1>1, ChainFacts, SMT
<1>3. /\ SizeAt(o, D) = Len(Payloads[num[D]]) /\ o[D + 2].crc = Payloads[num[D]]
      /\ \A x \in D..FrameEnd(o, D) : x # D + 2 => o[x].crc = None
      /\ D + 2 \in 1..Len(o)
  BY <1>2, FrameFacts, SMT
<1>4. /\ p \in (D + 2)..FrameEnd(o, D) /\ p \in 1..Len(o) /\ Len(b) = Len(o)
      /\ b[p].crc = None /\ b[p].digit # o[p].digit
      /\ \A x \in 1..Len(o) : x # p => b[x] = o[x]
  BY DEF Hit, Damage
<1>5. D \in Nat /\ D >= 1 /\ Len(o) \in Nat /\ D + 1 \in 1..Len(o) /\ D \in 1..Len(o)
  BY <1>2, <1>3, SMT
<1>6. b[D] = o[D] /\ b[D + 1] = o[D + 1]
  BY <1>4, <1>5, SMT
<1>7. SizeAt(b, D) = SizeAt(o, D) /\ FrameEnd(b, D) = FrameEnd(o, D)
  BY <1>6 DEF SizeAt, FrameEnd
<1>8. HeaderFits(o, D) /\ Plausible(SizeAt(o, D)) /\ PayloadAt(o, D) = Payloads[num[D]]
  BY <1>2 DEF FrameAt, ValidAt
<1>9. HeaderFits(b, D) /\ Plausible(SizeAt(b, D))
  BY <1>4, <1>7, <1>8 DEF HeaderFits
<1>10. ~ValidAt(b, D)
  <2> SUFFICES ASSUME ValidAt(b, D) PROVE FALSE
    OBVIOUS
  <2>1. b[D + 2].crc = PayloadAt(b, D) /\ PayloadAt(b, D) \in Range(Payloads)
    BY DEF ValidAt
  <2>2. p # D + 2
    BY <1>4, <2>1, NoneIsNoText
  <2>3. PayloadAt(b, D) = PayloadAt(o, D)
    BY <1>3, <1>4, <1>8, <2>1, <2>2
  <2> DEFINE j == p - (D + 2)
             n == SizeAt(o, D)
  <2>4. n \in Nat /\ FrameEnd(o, D) = D + 2 + n
    BY <1>2, <1>8, SizeTyped
  <2>5. j \in 1..n /\ D + RecordHdrSize - 1 + j = p
    BY <1>4, <1>5, <2>2, <2>4, SMT DEF RecordHdrSize
  <2>6. PayloadAt(b, D)[j] = b[D + RecordHdrSize - 1 + j].digit
    BY <1>7, <2>5 DEF PayloadAt
  <2>7. PayloadAt(o, D)[j] = o[D + RecordHdrSize - 1 + j].digit
    BY <2>5 DEF PayloadAt
  <2> QED BY <1>4, <2>3, <2>5, <2>6, <2>7
<1>11. \A x \in D..FrameEnd(o, D) : x # D + 2 => b[x].crc = None
  <2> SUFFICES ASSUME NEW x \in D..FrameEnd(o, D), x # D + 2 PROVE b[x].crc = None
    OBVIOUS
  <2>1. x \in 1..Len(o)
    BY <1>2, <1>5, SMT
  <2> QED BY <1>3, <1>4, <2>1
<1> QED BY <1>1, <1>2, <1>4, <1>5, <1>7, <1>9, <1>10, <1>11

\* A round that finds a record returns what the next one returns.
LEMMA ValidRound ==
    ASSUME NEW b \in Seq(Cell), NEW i \in 1..(Len(b) + 1), ValidAt(b, i)
    PROVE  /\ ReadOf(b)[i].good = ReadOf(b)[FrameEnd(b, i) + 1].good
           /\ ReadOf(b)[i].err = ReadOf(b)[FrameEnd(b, i) + 1].err
<1> DEFINE q == FrameEnd(b, i) + 1
           r == ReadOf(b)[q]
           z == <<PayloadAt(b, i)>> \o r.recs
<1>1. HeaderFits(b, i) /\ Plausible(SizeAt(b, i)) /\ ~Overruns(b, i)
  <2>1. HeaderFits(b, i) /\ Plausible(SizeAt(b, i)) /\ FrameEnd(b, i) <= Len(b)
    BY DEF ValidAt
  <2>2. SizeAt(b, i) \in Nat /\ i \in Nat /\ Len(b) \in Nat
    BY <2>1, SizeTyped, SMT
  <2>3. FrameEnd(b, i) \in Int
    BY <2>2, SMT DEF FrameEnd, RecordHdrSize
  <2> QED BY <2>1, <2>2, <2>3, SMT DEF Overruns
<1>2. q \in 1..(Len(b) + 1)
  BY ValidEnds, SMT
<1>3. ReadOf(b)[i] = [r EXCEPT !.recs = z]
  BY <1>1, ReplayRounds DEF ReplayFrom
<1>4. r \in Outcomes
  BY <1>2, ReadOutcome DEF Outcome
<1> HIDE DEF r, z
<1>5. ReadOf(b)[i].good = r.good /\ ReadOf(b)[i].err = r.err
  BY <1>3, <1>4 DEF Outcomes
<1> QED BY <1>5 DEF r

\* A record stays one wherever the bytes from its start to the end are copied.
LEMMA ValidMoved ==
    ASSUME NEW b \in Seq(Cell), NEW c \in Seq(Cell),
           NEW i \in 1..(Len(b) + 1), NEW j \in 1..(Len(c) + 1), Len(b) - i = Len(c) - j,
           \A x \in 0..(Len(b) - i) : c[j + x] = b[i + x], ValidAt(b, i)
    PROVE  ValidAt(c, j)
<1>1. Len(b) \in Nat /\ Len(c) \in Nat /\ i \in Nat /\ j \in Nat
  BY SMT
<1>2. /\ HeaderFits(b, i) /\ Plausible(SizeAt(b, i)) /\ FrameEnd(b, i) <= Len(b)
      /\ b[i + 2].crc = PayloadAt(b, i) /\ PayloadAt(b, i) \in Range(Payloads)
  BY DEF ValidAt
<1>3. /\ i + 2 \in 1..Len(b) /\ SizeAt(b, i) \in Nat /\ FrameEnd(b, i) = i + 2 + SizeAt(b, i)
  BY <1>2, SizeTyped
<1>4. c[j + 0] = b[i + 0] /\ c[j + 1] = b[i + 1] /\ c[j + 2] = b[i + 2]
  <2>1. 0 \in 0..(Len(b) - i) /\ 1 \in 0..(Len(b) - i) /\ 2 \in 0..(Len(b) - i)
    BY <1>1, <1>3, SMT
  <2> QED BY <2>1
<1>5. c[j] = b[i] /\ c[j + 1] = b[i + 1] /\ c[j + 2] = b[i + 2]
  <2>1. j + 0 = j /\ i + 0 = i
    BY <1>1, SMT
  <2> QED BY <1>4, <2>1
<1>6. SizeAt(c, j) = SizeAt(b, i)
  BY <1>5 DEF SizeAt
<1>7. PayloadAt(c, j) = PayloadAt(b, i)
  <2>1. ASSUME NEW y \in 1..SizeAt(b, i)
        PROVE  c[j + RecordHdrSize - 1 + y].digit = b[i + RecordHdrSize - 1 + y].digit
    <3>1. PICK x \in 0..(Len(b) - i) : x = 2 + y
      BY <1>1, <1>2, <1>3, SMT
    <3>2. j + RecordHdrSize - 1 + y = j + x /\ i + RecordHdrSize - 1 + y = i + x
      BY <1>1, <1>3, <3>1, SMT DEF RecordHdrSize
    <3> QED BY <3>1, <3>2
  <2> QED BY <1>6, <2>1 DEF PayloadAt
<1>8. HeaderFits(c, j) /\ FrameEnd(c, j) <= Len(c)
  BY <1>1, <1>2, <1>3, <1>6, SMT DEF HeaderFits, FrameEnd, RecordHdrSize
<1> QED BY <1>2, <1>5, <1>6, <1>7, <1>8 DEF ValidAt

\* A damaged record with a valid one right behind it is refused.
LEMMA Refused ==
    ASSUME NEW b \in Seq(Cell), NEW good, NEW n \in 1..(Len(b) + 1), ValidAt(b, n)
    PROVE  RecoverOrCorrupt(b, good, n).err = "ErrWALCorrupt"
<1> DEFINE s == SubSeq(b, n, Len(b))
<1>1. n \in 1..Len(b) /\ Len(b) \in Nat
  BY SizeTyped, SMT DEF ValidAt
<1>2. s \in Seq(Cell) /\ Len(s) = Len(b) - n + 1 /\ \A i \in 1..Len(s) : s[i] = b[n + i - 1]
  BY <1>1, SMT
<1> HIDE DEF s
<1>3. 1 \in 1..Len(s) /\ 1 \in 1..(Len(s) + 1) /\ Len(b) - n = Len(s) - 1
  BY <1>1, <1>2, SMT
<1>4. ASSUME NEW x \in 0..(Len(b) - n) PROVE s[1 + x] = b[n + x]
  <2>1. 1 + x \in 1..Len(s) /\ n + (1 + x) - 1 = n + x
    BY <1>1, <1>2, SMT
  <2> QED BY <1>2, <2>1
<1>5. ValidAt(s, 1)
  BY <1>2, <1>3, <1>4, ValidMoved
<1>6. HasValidRecord(s)
  BY <1>3, <1>5, SMT DEF HasValidRecord
<1>7. RecoverOrCorrupt(b, good, n) = [Stop(good) EXCEPT !.err = "ErrWALCorrupt"]
  BY <1>1, <1>6, SMT DEF RecoverOrCorrupt, s
<1> QED BY <1>7 DEF Stop

\* Replay of a damaged chain: the rounds come to the damaged frame and stop there.
LEMMA HitReplay ==
    ASSUME NEW o \in Seq(Cell), NEW b \in Seq(Cell), NEW F, NEW T, NEW num, NEW top,
           Framed(o, F, T, num, top), NEW D, NEW p, Hit(o, b, F, T, D, p)
    PROVE  /\ Replay(b).good = D - 1
           /\ Replay(b).err = RecoverOrCorrupt(b, D - 1, FrameEnd(o, D) + 1).err
<1> DEFINE R(i) == ReadOf(b)[i]
           L == Len(b) + 1
           Z == RecoverOrCorrupt(b, D - 1, FrameEnd(o, D) + 1)
           S == {i \in 1..L : i \in F /\ i <= D => R(i).good = D - 1 /\ R(i).err = Z.err}
<1>1. /\ Len(b) = Len(o) /\ D \in 1..L /\ D \in Nat /\ D < T
      /\ FrameEnd(b, D) = FrameEnd(o, D) /\ FrameEnd(o, D) \in (D + 3)..Len(b)
      /\ HeaderFits(b, D) /\ Plausible(SizeAt(b, D)) /\ ~ValidAt(b, D)
  BY HitFacts, SMT
<1>2. /\ Chain(o, F, T, num, top) /\ D \in F /\ L \in Nat /\ 1 \in F /\ 1 <= D
      /\ \A i \in F : i \in 1..L /\ i \in Nat
  <2>1. Chain(o, F, T, num, top) /\ D \in F /\ F \subseteq 1..(Len(o) + 1) /\ 1 \in F
    BY DEF Framed, Chain, Hit
  <2> QED BY <1>1, <2>1, SMT
<1>3. R(D).good = D - 1 /\ R(D).err = Z.err
  <2>1. ~Overruns(b, D)
    BY <1>1, SMT DEF Overruns
  <2>2. R(D) = Z
    BY <1>1, <2>1, ReplayRounds DEF ReplayFrom
  <2>3. Z.good = D - 1
    BY DEF RecoverOrCorrupt, Stop
  <2> HIDE DEF R, Z
  <2> QED BY <2>2, <2>3
<1>4. ASSUME NEW i \in 1..L, \A j \in (i + 1)..L : j \in S PROVE i \in S
  <2> SUFFICES ASSUME i \in F, i <= D PROVE R(i).good = D - 1 /\ R(i).err = Z.err
    OBVIOUS
  <2>1. CASE i = D
    BY <1>3, <2>1
  <2>2. CASE i # D
    <3> DEFINE q == FrameEnd(o, i) + 1
    <3>1. i < D /\ i # T /\ i \in Nat
      BY <1>1, <1>2, <2>2, SMT
    <3>2. /\ num[i] \in DOMAIN Payloads /\ FrameAt(o, i, num[i])
          /\ FrameEnd(o, i) \in (i + 3)..Len(o) /\ q \in F
      BY <1>2, <3>1, ChainFacts, SMT
    <3>3. FrameEnd(o, i) < D
      BY <1>2, <3>1 DEF Framed, Ordered
    <3>4. \A x \in i..FrameEnd(o, i) : b[x] = o[x]
      <4> SUFFICES ASSUME NEW x \in i..FrameEnd(o, i) PROVE b[x] = o[x]
        OBVIOUS
      <4>1. x \in 1..Len(o) /\ x < D
        BY <1>1, <1>2, <3>1, <3>2, <3>3, SMT
      <4>2. p \in (D + 2)..FrameEnd(o, D) /\ \A y \in 1..Len(o) : y # p => b[y] = o[y]
        BY DEF Hit, Damage
      <4> QED BY <1>1, <4>1, <4>2, SMT
    <3>5. FrameAt(b, i, num[i]) /\ FrameEnd(b, i) = FrameEnd(o, i)
      BY <1>1, <3>2, <3>4, FrameKept, SMT
    <3>6. ValidAt(b, i)
      BY <3>5 DEF FrameAt
    <3>7. R(i).good = R(q).good /\ R(i).err = R(q).err
      BY <3>5, <3>6, ValidRound
    <3>8. q \in (i + 1)..L /\ q <= D
      BY <1>1, <1>2, <3>1, <3>2, <3>3, SMTT(20)
    <3>9. q \in S
      BY <1>4, <3>8
    <3> HIDE DEF R, q, Z
    <3> QED BY <3>2, <3>7, <3>8, <3>9
  <2> QED BY <2>1, <2>2
<1>5. \A i \in 1..L : i \in S
  <2> HIDE DEF S, L
  <2> QED BY <1>2, <1>4, Backwards
<1>6. R(1).good = D - 1 /\ R(1).err = Z.err
  <2>1. 1 \in S
    BY <1>2, <1>5
  <2> HIDE DEF R, Z, L
  <2> QED BY <1>2, <2>1
<1>7. Replay(b) = R(1)
  BY ReplayRounds
<1> QED BY <1>6, <1>7

\* Open of a damaged log: it succeeds only if the damaged frame is the last thing
\* in the file, and then what it cuts off holds no record.
LEMMA OpenHit ==
    ASSUME TypeOK, NEW o \in Seq(Cell), NEW F, NEW T, NEW num, Framed(o, F, T, num, next),
           NEW D, NEW p, Hit(o, body, F, T, D, p), Open
    PROVE  /\ ~CutsIntactRecord
           /\ \E H, U, num2 : Framed(body', H, U, num2, next) /\ U = Len(body') + 1
<1>1. body \in Seq(Cell) /\ Len(body) \in Nat
  BY SMT DEF TypeOK
<1>2. PICK G, V, num2 : /\ Framed(o, G, V, num2, next) /\ ~ValidAt(o, V)
                        /\ \A i \in F \ {T} : i \in G \ {V} /\ num2[i] = num[i]
  BY FramedClosed, SMT
<1>3. Hit(o, body, G, V, D, p)
  BY <1>2 DEF Hit
<1> DEFINE E == FrameEnd(o, D)
<1>4. /\ Len(body) = Len(o) /\ D \in 1..(Len(body) + 1) /\ D \in Nat /\ D < V
      /\ E \in (D + 3)..Len(body) /\ E + 1 \in G /\ ~ValidAt(body, D)
      /\ \A x \in D..E : x # D + 2 => body[x].crc = None
  BY <1>1, <1>2, <1>3, HitFacts, SMT
<1>5. Chain(o, G, V, num2, next) /\ V \in 1..(Len(o) + 1) /\ V \in G
  BY <1>2 DEF Framed, Chain
<1>6. p \in 1..E /\ \A x \in 1..Len(o) : x # p => body[x] = o[x]
  BY <1>3, <1>4, SMT DEF Hit, Damage
<1>7. Replay(body).good = D - 1 /\ RecoverOrCorrupt(body, D - 1, E + 1).err = "nil"
  <2>1. /\ Replay(body).good = D - 1
        /\ Replay(body).err = RecoverOrCorrupt(body, D - 1, E + 1).err
    BY <1>1, <1>2, <1>3, HitReplay, SMT
  <2> QED BY <2>1 DEF Open
<1> HIDE DEF E
<1>8. E + 1 \in 1..(Len(body) + 1) /\ E \in Nat
  BY <1>1, <1>4, SMT
<1>9. ~ValidAt(body, E + 1)
  BY <1>1, <1>7, <1>8, Refused
<1>10. \A x \in (E + 1)..Len(o) : body[x] = o[x]
  BY <1>4, <1>6, <1>8, SMT
<1>11. E + 1 = V
  <2> SUFFICES ASSUME E + 1 # V PROVE FALSE
    OBVIOUS
  <2>1. PICK q \in G : q = E + 1
    BY <1>4
  <2>2. /\ num2[q] \in DOMAIN Payloads /\ FrameAt(o, q, num2[q]) /\ q \in 1..(Len(o) + 1)
        /\ FrameEnd(o, q) \in (q + 3)..Len(o)
    BY <1>5, <2>1, ChainFacts, SMT
  <2>3. \A x \in q..FrameEnd(o, q) : body[x] = o[x]
    BY <1>8, <1>10, <2>1, <2>2, SMT
  <2>4. FrameEnd(o, q) <= Len(body)
    BY <1>4, <2>2, SMT
  <2>5. FrameAt(body, q, num2[q])
    BY <1>1, <2>2, <2>3, <2>4, FrameKept
  <2> QED BY <1>9, <2>1, <2>5 DEF FrameAt
<1>12. \A x \in V..Len(o) : x # V + 2 => body[x].crc = None
  <2>1. \A x \in V..Len(o) : x # V + 2 => o[x].crc = None
    BY <1>2 DEF Framed, TornTail
  <2> QED BY <1>10, <1>11, <2>1
<1>13. ASSUME NEW x \in D..Len(body), ValidAt(body, x) PROVE FALSE
  <2>1. x \in 1..(Len(body) + 1) /\ x \in Nat /\ HeaderFits(body, x)
    BY <1>1, <1>4, <1>13, SMT DEF ValidAt
  <2>2. x + 2 \in 1..Len(body) /\ body[x + 2].crc # None
    BY <1>1, <1>13, <2>1, SizeTyped, NoneIsNoText DEF ValidAt
  <2>3. x # D /\ x # V
    BY <1>4, <1>9, <1>11, <1>13
  <2>4. CASE x + 2 <= E
    <3>1. x + 2 \in D..E /\ x + 2 # D + 2
      BY <1>4, <1>8, <2>1, <2>3, <2>4, SMT
    <3> QED BY <1>4, <2>2, <3>1
  <2>5. CASE x + 2 > E
    <3>1. x + 2 \in V..Len(o) /\ x + 2 # V + 2
      BY <1>1, <1>4, <1>5, <1>8, <1>11, <2>1, <2>2, <2>3, <2>5, SMTT(20)
    <3> QED BY <1>12, <2>2, <3>1
  <2> QED BY <1>8, <2>1, <2>4, <2>5, SMT
<1> DEFINE c == body'
           n == D - 1
<1>14. c = SubSeq(body, 1, n) /\ n \in 0..Len(body) /\ n \in 0..Len(o)
  BY <1>1, <1>4, <1>7, SMT DEF Open
<1>15. c \in Seq(Cell) /\ Len(c) = n /\ \A i \in 1..n : c[i] = body[i]
  BY <1>1, <1>14, Cut
<1> HIDE DEF c
<1>16. \A i \in 1..n : c[i] = o[i]
  <2>1. p \in (D + 2)..FrameEnd(o, D)
    BY <1>3 DEF Hit
  <2>2. \A i \in 1..n : i \in 1..Len(o) /\ i # p
    BY <1>1, <1>4, <1>14, <2>1, SMT
  <2> QED BY <1>6, <1>15, <2>2
<1> HIDE DEF n
<1>17. n \in Nat /\ n + 1 = D
  BY <1>4, SMT DEF n
<1>18. SameUpTo(n, o, c)
  BY <1>14, <1>15, <1>16, <1>17, SMT DEF SameUpTo
<1>19. PICK H \in SUBSET G, U \in G : Framed(c, H, U, num2, next) /\ (n + 1 \in G => U = n + 1)
  BY <1>2, <1>15, <1>18, FramedPrefix, SMT
<1>20. U = Len(c) + 1
  <2>1. D \in G
    BY <1>3 DEF Hit
  <2> QED BY <1>15, <1>17, <1>19, <2>1
<1>21. ~CutsIntactRecord
  <2>1. Len(body') + 1 = D
    BY <1>15, <1>17 DEF c
  <2> QED BY <1>13, <2>1 DEF CutsIntactRecord
<1> QED BY <1>19, <1>20, <1>21 DEF c

\* The file c is a chain, or one that is damaged at p.
ChainOrHit(c, num, top, D, p) ==
    \E H, U : \/ Framed(c, H, U, num, top)
              \/ \E a \in Seq(Cell) : Framed(a, H, U, num, top) /\ Hit(a, c, H, U, D, p)

\* A crash that cuts a damaged log keeps the damaged frame or makes it the tail.
LEMMA HitZeroed ==
    ASSUME NEW o \in Seq(Cell), NEW b \in Seq(Cell), NEW F, NEW T, NEW num, NEW top,
           Framed(o, F, T, num, top), NEW D, NEW p, Hit(o, b, F, T, D, p),
           NEW n \in 0..Len(b), NEW m \in n..Len(b), NEW c, c = Zeroed(b, n, m)
    PROVE  ChainOrHit(c, num, top, D, p)
<1>1. /\ Len(b) = Len(o) /\ D \in Nat /\ D < T /\ Len(o) \in Nat
      /\ FrameEnd(o, D) \in (D + 3)..Len(b)
  BY HitFacts, SMT
<1>2. /\ D \in F \ {T} /\ p \in (D + 2)..FrameEnd(o, D) /\ p \in 1..Len(o)
      /\ b[p].crc = None /\ b[p].field = o[p].field /\ b[p].digit # o[p].digit
      /\ \A x \in 1..Len(o) : x # p => b[x] = o[x]
  BY DEF Hit, Damage
<1>3. n \in 0..Len(o) /\ m \in n..Len(o) /\ n \in Nat /\ m \in Nat /\ n <= m
  BY <1>1, SMT
<1>4. /\ c \in Seq(Cell) /\ Len(c) = m /\ \A i \in 1..n : c[i] = b[i]
      /\ \A i \in (n + 1)..m : c[i] = Byte(0, "payload") /\ c[i].crc = None
  <2>1. c \in Seq(Cell) /\ Len(c) = m /\ \A i \in 1..n : c[i] = b[i]
    BY ZerosTyped, SMT
  <2>2. \A i \in (n + 1)..m : c[i] = Byte(0, "payload") /\ c[i].crc = None
    BY ZerosTyped, SMT
  <2> QED BY <2>1, <2>2
<1>5. PICK a : a = Zeroed(o, n, m)
  OBVIOUS
<1>6. /\ a \in Seq(Cell) /\ Len(a) = m /\ \A i \in 1..n : a[i] = o[i]
      /\ \A i \in (n + 1)..m : a[i] = Byte(0, "payload") /\ a[i].crc = None
  BY <1>3, <1>5, ZerosTyped, SMT
<1>7. PICK H \in SUBSET F, U \in F :
         /\ Framed(a, H, U, num, top) /\ U <= n + 1
         /\ \A i \in F \ {T} : FrameEnd(o, i) <= n =>
               i \in H \ {U} /\ FrameEnd(a, i) = FrameEnd(o, i)
  BY <1>3, <1>5, ZeroedChain, SMT
<1>8. \A x \in 1..m : x # p => c[x] = a[x]
  <2> SUFFICES ASSUME NEW x \in 1..m, x # p PROVE c[x] = a[x]
    OBVIOUS
  <2>1. CASE x <= n
    <3>1. x \in 1..n /\ x \in 1..Len(o)
      BY <1>1, <1>3, <2>1, SMT
    <3> QED BY <1>2, <1>4, <1>6, <3>1
  <2>2. CASE x > n
    BY <1>3, <1>4, <1>6, <2>2, SMT
  <2> QED BY <1>3, <2>1, <2>2, SMT
<1>9. CASE FrameEnd(o, D) <= n
  <2>1. D \in H \ {U} /\ FrameEnd(a, D) = FrameEnd(o, D)
    BY <1>2, <1>7, <1>9
  <2>2. p \in 1..n /\ p \in 1..m
    BY <1>1, <1>2, <1>3, <1>9, SMT
  <2>3. c[p] = b[p] /\ a[p] = o[p]
    BY <1>4, <1>6, <2>2
  <2>4. Damage(a, c, p)
    BY <1>2, <1>4, <1>6, <1>8, <2>2, <2>3 DEF Damage
  <2>5. Hit(a, c, H, U, D, p)
    BY <1>2, <2>1, <2>4 DEF Hit
  <2> QED BY <1>6, <1>7, <2>5 DEF ChainOrHit
<1>10. CASE ~(FrameEnd(o, D) <= n)
  <2>1. U \in Nat /\ U >= 1 /\ F \subseteq Nat
    BY <1>1, SMT DEF Framed, Chain
  <2>2. U <= D
    <3>1. D < U => FrameEnd(o, D) < U
      BY <1>2, <1>7 DEF Framed, Ordered
    <3> QED BY <1>1, <1>3, <1>7, <1>10, <2>1, <3>1, SMT
  <2>3. \A x \in 1..Len(a) : IF x < U THEN c[x] = a[x] ELSE c[x].crc \in {None, a[x].crc}
    <3> SUFFICES ASSUME NEW x \in 1..m
                 PROVE  IF x < U THEN c[x] = a[x] ELSE c[x].crc \in {None, a[x].crc}
      BY <1>6
    <3>1. CASE x # p
      BY <1>8, <3>1
    <3>2. CASE x = p
      <4>1. ~(x < U)
        BY <1>1, <1>2, <2>1, <2>2, <3>2, SMT
      <4>2. c[x].crc = None
        BY <1>2, <1>3, <1>4, <3>2, SMT
      <4> QED BY <4>1, <4>2
    <3> QED BY <3>1, <3>2
  <2>4. Framed(c, H, U, num, top)
    BY <1>4, <1>6, <1>7, <2>3, TailChanged
  <2> QED BY <2>4 DEF ChainOrHit
<1> QED BY <1>9, <1>10

\* The log has no damage behind the length of a frame.
Whole == \E F, T, num : Framed(body, F, T, num, next) /\ (up => T = Len(body) + 1)

\* The one damaged byte is in a frame, and no Open has truncated it.
Damaged ==
    /\ ~up /\ rots = MaxRots
    /\ \E o, F, T, num, D, p :
          o \in Seq(Cell) /\ Framed(o, F, T, num, next) /\ Hit(o, body, F, T, D, p)

DamageInv == LogInv /\ (~torn => Marked(body) /\ (Whole \/ Damaged))

\* At most one byte is damaged, and it is not part of a length.
OneDamage == MaxRots <= 1 /\ "size" \notin Faults

\* A new log is a chain.
LEMMA InitDamageInv == Init => DamageInv
<1> SUFFICES ASSUME Init PROVE DamageInv
  OBVIOUS
<1>1. Framed(body, {1}, 1, [x \in Nat |-> 0], next) /\ ~up
  BY EmptyFramed DEF Init
<1>2. Marked(body)
  BY SMT DEF Init, Marked
<1> QED BY <1>1, <1>2, InitLogInv DEF DamageInv, Whole

\* Open leaves a chain with no tail.
LEMMA OpenWhole ==
    ASSUME DamageInv, ~torn, Open
    PROVE  Marked(body)' /\ Whole' /\ ~CutsIntactRecord
<1>1. /\ TypeOK /\ body \in Seq(Cell) /\ Len(body) \in Nat /\ next' = next /\ Marked(body)
      /\ body' \in Seq(Cell)
  <2>1. TypeOK'
    BY NextTyped DEF DamageInv, LogInv, Next
  <2>2. TypeOK /\ Marked(body) /\ next' = next
    BY DEF DamageInv, LogInv, Open
  <2>3. body \in Seq(Cell) /\ body' \in Seq(Cell)
    BY <2>1, <2>2 DEF TypeOK
  <2> QED BY <2>2, <2>3, SMT
<1>2. /\ ~CutsIntactRecord
      /\ \E H, U, num2 : Framed(body', H, U, num2, next) /\ U = Len(body') + 1
  <2>1. CASE Whole
    <3>1. PICK F, T, num : Framed(body, F, T, num, next)
      BY <2>1 DEF Whole
    <3> QED BY <1>1, <3>1, OpenChain
  <2>2. CASE Damaged
    <3>1. PICK o, F, T, num, D, p :
             o \in Seq(Cell) /\ Framed(o, F, T, num, next) /\ Hit(o, body, F, T, D, p)
      BY <2>2 DEF Damaged
    <3> QED BY <1>1, <3>1, OpenHit
  <2> QED BY <2>1, <2>2 DEF DamageInv
<1>3. Whole'
  <2>1. PICK H, U, num2 : Framed(body', H, U, num2, next') /\ U = Len(body') + 1
    BY <1>1, <1>2
  <2> QED BY <2>1 DEF Whole
<1>4. Marked(body)'
  <2> DEFINE c == body'
             n == Replay(body).good
  <2>1. n \in 0..Len(body)
    <3>1. Outcome(body, 1, ReadOf(body)[1]) /\ Replay(body) = ReadOf(body)[1]
      BY <1>1, ReadOutcome, ReplayRounds, SMT
    <3> QED BY <3>1, SMT DEF Outcome
  <2>2. c = SubSeq(body, 1, n) /\ c \in Seq(Cell)
    BY <1>1 DEF Open
  <2> HIDE DEF c, n
  <2>3. Len(c) = n /\ \A i \in 1..n : c[i] = body[i]
    BY <1>1, <2>1, <2>2, Cut
  <2>4. SameUpTo(n, body, c)
    BY <2>1, <2>3, SMT DEF SameUpTo
  <2>5. Marked(c)
    BY <1>1, <2>2, <2>4, MarkedPrefix
  <2> QED BY <2>5 DEF c
<1> QED BY <1>2, <1>3, <1>4

\* PowerLoss leaves a chain, or the damaged one.
LEMMA PowerLossWhole ==
    ASSUME DamageInv, ~torn, PowerLoss
    PROVE  Marked(body)' /\ (Whole' \/ Damaged')
<1>1. /\ body \in Seq(Cell) /\ Len(body) \in Nat /\ synced \in 0..Len(body) /\ Marked(body)
      /\ next' = next /\ ~up' /\ rots' = rots
  BY SMT DEF DamageInv, LogInv, TypeOK, PowerLoss, faults
<1>2. PICK n \in synced..Len(body) : \E m \in n..Len(body) : body' = Zeroed(body, n, m)
  BY DEF PowerLoss, Zeroed
<1>3. PICK m \in n..Len(body) : body' = Zeroed(body, n, m)
  BY <1>2
<1> DEFINE c == body'
<1>4. n \in 0..Len(body) /\ m \in n..Len(body) /\ c = Zeroed(body, n, m)
  BY <1>1, <1>3, SMT
<1> HIDE DEF c
<1>5. Marked(c)
  <2>1. c \in Seq(Cell) /\ SameUpTo(n, body, c)
    BY <1>1, <1>4, ZeroedSame
  <2> QED BY <1>1, <2>1, MarkedPrefix
<1>6. CASE Whole
  <2>1. PICK F, T, num : Framed(body, F, T, num, next)
    BY <1>6 DEF Whole
  <2>2. PICK H, U : Framed(c, H, U, num, next)
    BY <1>1, <1>4, <2>1, ZeroedChain, SMT
  <2>3. Framed(body', H, U, num, next')
    BY <1>1, <2>2 DEF c
  <2>4. Whole'
    BY <1>1, <2>3 DEF Whole
  <2> QED BY <1>5, <2>4 DEF c
<1>7. CASE Damaged
  <2>1. PICK o, F, T, num, D, p :
           o \in Seq(Cell) /\ Framed(o, F, T, num, next) /\ Hit(o, body, F, T, D, p)
    BY <1>7 DEF Damaged
  <2>a. ChainOrHit(c, num, next, D, p)
    BY <1>1, <1>4, <2>1, HitZeroed
  <2>2. PICK H, U : \/ Framed(c, H, U, num, next)
                    \/ \E a \in Seq(Cell) : Framed(a, H, U, num, next) /\ Hit(a, c, H, U, D, p)
    BY <2>a DEF ChainOrHit
  <2>3. CASE Framed(c, H, U, num, next)
    <3>1. Framed(body', H, U, num, next')
      BY <1>1, <2>3 DEF c
    <3>2. Whole'
      BY <1>1, <3>1 DEF Whole
    <3> QED BY <1>5, <3>2 DEF c
  <2>4. ASSUME NEW a \in Seq(Cell), Framed(a, H, U, num, next), Hit(a, c, H, U, D, p)
        PROVE  Damaged'
    <3>1. Framed(a, H, U, num, next') /\ Hit(a, body', H, U, D, p)
      BY <1>1, <2>4 DEF c
    <3>2. ~up' /\ rots' = MaxRots
      BY <1>1, <1>7 DEF Damaged
    <3> QED BY <3>1, <3>2 DEF Damaged
  <2> QED BY <1>5, <2>2, <2>3, <2>4 DEF c
<1> QED BY <1>6, <1>7 DEF DamageInv

\* Rot damages a chain that had no damage.
LEMMA RotWhole ==
    ASSUME DamageInv, ~torn, Rot, OneDamage
    PROVE  Marked(body)' /\ (Whole' \/ Damaged')
<1>1. /\ TypeOK /\ body \in Seq(Cell) /\ Marked(body) /\ next' = next /\ ~up' /\ ~up
      /\ rots \in Nat /\ rots < MaxRots /\ rots' = rots + 1 /\ MaxRots \in Nat /\ MaxRots <= 1
  BY MaxRotsIsNat, SMT DEF DamageInv, LogInv, TypeOK, Rot, OneDamage
<1>2. rots' = MaxRots
  BY <1>1, SMT
<1>3. PICK p : Damage(body, body', p) /\ body[p].field # "size"
  BY <1>1, RotDamages DEF OneDamage
<1>4. body' \in Seq(Cell)
  <2>1. TypeOK'
    BY <1>1, NextTyped DEF Next
  <2> QED BY <2>1 DEF TypeOK
<1>5. PICK F, T, num : Framed(body, F, T, num, next)
  <2>1. ~Damaged
    BY <1>1, SMT DEF Damaged
  <2> QED BY <2>1 DEF DamageInv, Whole
<1> DEFINE c == body'
<1>6. c \in Seq(Cell) /\ Damage(body, c, p)
  BY <1>3, <1>4
<1> HIDE DEF c
<1>7. Marked(c)
  BY <1>1, <1>6, MarkedDamage
<1>8. Framed(c, F, T, num, next) \/ \E D : Hit(body, c, F, T, D, p)
  BY <1>1, <1>3, <1>5, <1>6, DamagedChain
<1>9. CASE Framed(c, F, T, num, next)
  <2>1. Framed(body', F, T, num, next')
    BY <1>1, <1>9 DEF c
  <2>2. Whole'
    BY <1>1, <2>1 DEF Whole
  <2> QED BY <1>7, <2>2 DEF c
<1>10. ASSUME NEW D, Hit(body, c, F, T, D, p) PROVE Damaged'
  <2>1. PICK o \in Seq(Cell) : o = body
    BY <1>1
  <2>2. Framed(o, F, T, num, next') /\ Hit(o, body', F, T, D, p)
    BY <1>1, <1>5, <1>10, <2>1 DEF c
  <2> QED BY <1>1, <1>2, <2>2 DEF Damaged
<1> QED BY <1>7, <1>8, <1>9, <1>10 DEF c

\* Steps that leave the file alone.
LEMMA SameWhole ==
    ASSUME DamageInv, ~torn, body' = body, next' = next, rots' = rots, up' => up
    PROVE  Marked(body)' /\ (Whole' \/ Damaged')
<1>1. Marked(body)'
  BY DEF DamageInv
<1>2. CASE Whole
  <2>1. PICK F, T, num : Framed(body, F, T, num, next) /\ (up => T = Len(body) + 1)
    BY <1>2 DEF Whole
  <2>2. Framed(body', F, T, num, next') /\ (up' => T = Len(body') + 1)
    BY <2>1
  <2> QED BY <1>1, <2>2 DEF Whole
<1>3. CASE Damaged
  <2>1. PICK o, F, T, num, D, p :
           o \in Seq(Cell) /\ Framed(o, F, T, num, next) /\ Hit(o, body, F, T, D, p)
    BY <1>3 DEF Damaged
  <2>2. o \in Seq(Cell) /\ Framed(o, F, T, num, next') /\ Hit(o, body', F, T, D, p)
    BY <2>1
  <2>3. ~up' /\ rots' = MaxRots
    BY <1>3 DEF Damaged
  <2> QED BY <1>1, <2>2, <2>3 DEF Damaged
<1> QED BY <1>2, <1>3 DEF DamageInv

\* Every step keeps a chain with at most one damaged byte.
LEMMA NextDamageInv == OneDamage /\ DamageInv /\ [Next]_vars => DamageInv'
<1> SUFFICES ASSUME OneDamage, DamageInv, [Next]_vars PROVE DamageInv'
  OBVIOUS
<1>1. LogInv'
  BY NextLogInv DEF DamageInv
<1> SUFFICES ASSUME ~torn' PROVE Marked(body)' /\ (Whole' \/ Damaged')
  BY <1>1 DEF DamageInv
<1>2. TypeOK /\ HeaderFirst /\ next \in Nat
  BY SMT DEF DamageInv, LogInv, TypeOK
<1>3. CASE OpenEmpty
  <2>1. body' = <<>> /\ next' \in Nat
    BY <1>2, <1>3 DEF OpenEmpty
  <2>2. Framed(body', {1}, 1, [x \in Nat |-> 0], next') /\ Len(body') = 0
    BY <2>1, EmptyFramed
  <2>3. Whole'
    BY <2>2, SMT DEF Whole
  <2>4. Marked(body)'
    BY <2>1, SMT DEF Marked
  <2> QED BY <2>3, <2>4
<1>4. CASE Open
  <2>1. ~torn
    BY <1>4 DEF Open, faults
  <2> QED BY <1>4, <2>1, OpenWhole
<1>5. CASE Write
  <2>1. ~torn /\ up /\ body \in Seq(Cell) /\ next \in DOMAIN Payloads
    BY <1>2, <1>5 DEF Write, CanAppend, faults, TypeOK
  <2>2. PICK F, T, num : Framed(body, F, T, num, next) /\ T = Len(body) + 1
    BY <2>1 DEF DamageInv, Whole, Damaged
  <2>3. PICK H, V, num2 : Framed(body', H, V, num2, next') /\ V = Len(body') + 1
    BY <1>2, <1>5, <2>2, WriteChain
  <2>4. PICK d \in CrcDigits : body' = body \o EncodeRecord(Payloads[next], d)
    BY <1>5 DEF Write
  <2>5. Marked(body)'
    BY <2>1, <2>4, MarkedWrite DEF DamageInv
  <2> QED BY <2>3, <2>5 DEF Whole
<1>6. CASE WriteError
  BY <1>6 DEF WriteError
<1>7. CASE PowerLoss
  <2>1. ~torn
    BY <1>7 DEF PowerLoss, faults
  <2> QED BY <1>7, <2>1, PowerLossWhole
<1>8. CASE Rot
  <2>1. ~torn
    BY <1>8 DEF Rot
  <2> QED BY <1>8, <2>1, RotWhole
<1>9. CASE HeaderTorn \/ Sync \/ SyncError \/ ProcessExit \/ UNCHANGED vars
  <2>1. ~torn /\ body' = body /\ next' = next /\ rots' = rots /\ (up' => up)
    BY <1>9, SMT DEF HeaderTorn, Sync, SyncError, ProcessExit, vars, faults
  <2> QED BY <2>1, SameWhole
<1> QED BY <1>3, <1>4, <1>5, <1>6, <1>7, <1>8, <1>9 DEF Next

\* Damage is told from a torn tail (DamageIsDetected): as long as at most one byte
\* is damaged, and that byte is not part of a length, OpenWithOptions cuts off no
\* complete, valid record, wherever crashes have cut the file before and after.
THEOREM DamageDetected == OneDamage => (Spec => DamageIsDetected)
<1> SUFFICES ASSUME OneDamage PROVE Spec => DamageIsDetected
  OBVIOUS
<1>1. DamageInv /\ [Next]_vars => [Open /\ ~torn => ~CutsIntactRecord]_vars
  BY OpenWhole
<1>2. DamageInv /\ [Next]_vars => DamageInv'
  BY NextDamageInv
<1> QED BY <1>1, <1>2, InitDamageInv, PTL DEF Spec, DamageIsDetected
=============================================================================
