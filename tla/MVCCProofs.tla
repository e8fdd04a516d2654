----------------------------- MODULE MVCCProofs -----------------------------
(***************************************************************************)
(* Proofs about the kernel, for any sets of keys, values and transactions, *)
(* any bounds and any set of I/O faults; what replaying a file rebuilds    *)
(* and what snapshots see of it; and Compact's rewritten file: a replay of *)
(* it shows every retained snapshot what memory shows.                     *)
(***************************************************************************)
EXTENDS MVCC, WellFoundedInduction, TLAPS

-----------------------------------------------------------------------------
(* The natural numbers. *)

\* A nonempty set of naturals has a least element.
LEMMA NatLeast ==
  ASSUME NEW S \in SUBSET Nat, S # {}
  PROVE  \E n \in S : \A m \in S : n <= m
<1>1. PICK n \in S : \A m \in S : ~(<<m, n>> \in OpToRel(<, Nat))
  BY WFMin, NatLessThanWellFounded, Zenon
<1>2. ASSUME NEW m \in S, m < n PROVE <<m, n>> \in OpToRel(<, Nat)
  BY <1>2 DEF OpToRel
<1>3. \A m \in S : ~(m < n)
  BY <1>1, <1>2, Zenon
<1>4. \A m \in S : m \in Nat
  OBVIOUS
<1> QED
  BY <1>3, <1>4

\* Induction over the naturals, for a set in place of a predicate.
LEMMA NatInd ==
  ASSUME NEW S \in SUBSET Nat, 0 \in S, \A n \in S : n + 1 \in S
  PROVE  S = Nat
<1> SUFFICES ASSUME Nat \ S # {} PROVE FALSE
  BY Zenon
<1>1. PICK n \in Nat \ S : \A m \in Nat \ S : n <= m
  BY NatLeast, Zenon
<1>2. n # 0 /\ n - 1 \in Nat
  BY <1>1
<1>3. n - 1 \in S
  BY <1>1, <1>2
<1> QED
  BY <1>1, <1>2, <1>3

\* A nonempty set of naturals with an upper bound has a greatest element.
LEMMA NatGreatest ==
  ASSUME NEW S \in SUBSET Nat, S # {}, NEW b \in Nat, \A m \in S : m <= b
  PROVE  \E n \in S : \A m \in S : m <= n
<1> DEFINE T == {b - m : m \in S}
<1>1. T \in SUBSET Nat /\ T # {}
  <2>1. ASSUME NEW m \in S PROVE b - m \in Nat
    OBVIOUS
  <2>2. PICK m \in S : TRUE
    BY Zenon
  <2>3. b - m \in T
    OBVIOUS
  <2> QED
    BY <2>1, <2>3
<1>2. PICK d \in T : \A e \in T : d <= e
  BY <1>1, NatLeast, Zenon
<1>3. PICK n \in S : d = b - n
  BY <1>2
<1>4. ASSUME NEW m \in S PROVE m <= n
  <2>1. d <= b - m
    BY <1>2
  <2> QED
    BY <2>1, <1>3
<1> QED
  BY <1>4

-----------------------------------------------------------------------------
(* Sequences. *)

\* The empty sequence.
LEMMA EmptySeq ==
  ASSUME NEW S, NEW seq \in Seq(S)
  PROVE  seq = <<>> <=> Len(seq) = 0
OBVIOUS

\* The length and the domain of a sequence.
LEMMA LenProperties ==
  ASSUME NEW S, NEW seq \in Seq(S)
  PROVE  Len(seq) \in Nat /\ seq \in [1..Len(seq) -> S] /\ DOMAIN seq = 1..Len(seq)
OBVIOUS

\* Two sequences of the same length with the same elements are the same.
LEMMA SeqEqual ==
  ASSUME NEW S, NEW s \in Seq(S), NEW t \in Seq(S), Len(s) = Len(t),
         \A i \in 1..Len(s) : s[i] = t[i]
  PROVE  s = t
OBVIOUS

\* What Append returns.
LEMMA AppendProperties ==
  ASSUME NEW S, NEW seq \in Seq(S), NEW elt \in S
  PROVE  /\ Append(seq, elt) \in Seq(S) /\ Append(seq, elt) # <<>>
         /\ Len(Append(seq, elt)) = Len(seq) + 1
         /\ \A i \in 1..Len(seq) : Append(seq, elt)[i] = seq[i]
         /\ Append(seq, elt)[Len(seq) + 1] = elt
OBVIOUS

\* What SubSeq returns.
LEMMA SubSeqProperties ==
  ASSUME NEW S, NEW s, NEW m \in Int, NEW n \in Int, \A i \in m..n : s[i] \in S
  PROVE  /\ SubSeq(s, m, n) \in Seq(S)
         /\ Len(SubSeq(s, m, n)) = IF m <= n THEN n - m + 1 ELSE 0
         /\ \A i \in 1..(n - m + 1) : SubSeq(s, m, n)[i] = s[m + i - 1]
OBVIOUS

\* A slice that ends before it begins is empty.
LEMMA SubSeqEmpty ==
  ASSUME NEW s, NEW m \in Int, NEW n \in Int, n < m
  PROVE  SubSeq(s, m, n) = <<>>
OBVIOUS

\* A slice of everything is the sequence.
LEMMA SubSeqFull ==
  ASSUME NEW S, NEW seq \in Seq(S)
  PROVE  SubSeq(seq, 1, Len(seq)) = seq
OBVIOUS

\* From here on Zenon proves a step unless the step names another prover.
USE Zenon

-----------------------------------------------------------------------------
(* Listing a set of versions in order. *)

Listing(s, S, n) == \E c \in 0..n : s \in [1..c -> S] /\ IsAscending(s, S)

\* A set of naturals with an upper bound can be listed in ascending order.
LEMMA AscendingExists ==
  ASSUME NEW b \in Nat, NEW S \in SUBSET (0..b)
  PROVE  \E s : Listing(s, S, b + 1)
<1> DEFINE Listable(n) == \A T \in SUBSET (0..(n - 1)) : \E s : Listing(s, T, n)
           Q == {n \in Nat : Listable(n)}
<1>1. 0 \in Q
  <2> SUFFICES ASSUME NEW T \in SUBSET (0..(0 - 1)) PROVE \E s : Listing(s, T, 0)
    OBVIOUS
  <2>1. T = {}
    BY SMT
  <2>2. [i \in 1..0 |-> 0] \in [1..0 -> T] /\ IsAscending([i \in 1..0 |-> 0], T) /\ 0 \in 0..0
    BY <2>1, SMT DEF IsAscending
  <2> QED
    BY <2>2 DEF Listing
<1>2. ASSUME NEW n \in Q PROVE n + 1 \in Q
  <2> SUFFICES ASSUME NEW T \in SUBSET (0..n) PROVE \E s : Listing(s, T, n + 1)
    BY SMT
  <2>1. CASE n \notin T
    <3>1. T \in SUBSET (0..(n - 1))
      BY <2>1, SMT
    <3>2. PICK s : Listing(s, T, n)
      BY <3>1
    <3>3. Listing(s, T, n + 1)
      BY <3>2, SMT DEF Listing
    <3> QED
      BY <3>3
  <2>2. CASE n \in T
    <3> DEFINE U == T \ {n}
    <3>1. U \in SUBSET (0..(n - 1))
      BY SMT
    <3>2. PICK u : Listing(u, U, n)
      BY <3>1
    <3>3. PICK c \in 0..n : u \in [1..c -> U] /\ IsAscending(u, U)
      BY <3>2 DEF Listing
    <3>4. c \in Nat /\ c + 1 \in 0..(n + 1) /\ DOMAIN u = 1..c
      BY <3>3, SMT
    <3>5. /\ \A i, j \in 1..c : i < j => u[i] < u[j]
          /\ \A x \in U : \E i \in 1..c : u[i] = x
      BY <3>3, <3>4 DEF IsAscending
    <3> DEFINE s == [i \in 1..(c + 1) |-> IF i = c + 1 THEN n ELSE u[i]]
    <3>6. s \in [1..(c + 1) -> T] /\ DOMAIN s = 1..(c + 1)
      BY <2>2, <3>3, <3>4, SMT
    <3>7. ASSUME NEW i \in 1..(c + 1), NEW j \in 1..(c + 1), i < j PROVE s[i] < s[j]
      <4>1. i \in 1..c /\ s[i] = u[i] /\ u[i] \in 0..(n - 1)
        <5>1. i \in 1..c /\ i # c + 1
          BY <3>7, <3>4, SMT
        <5>2. u[i] \in U
          BY <5>1, <3>3
        <5> QED
          BY <5>1, <5>2, <3>1
      <4>2. CASE j = c + 1
        BY <4>1, <4>2, SMT
      <4>3. CASE j # c + 1
        BY <4>1, <4>3, <3>4, <3>5, <3>7, SMT
      <4> QED
        BY <4>2, <4>3
    <3>8. ASSUME NEW x \in T PROVE \E i \in 1..(c + 1) : s[i] = x
      <4>1. CASE x = n
        BY <3>4, <4>1, SMT
      <4>2. CASE x # n
        <5>1. PICK i \in 1..c : u[i] = x
          BY <3>5, <4>2
        <5>2. i \in 1..(c + 1) /\ s[i] = x
          BY <3>4, <5>1, SMT
        <5> QED
          BY <5>2
      <4> QED
        BY <4>1, <4>2
    <3> HIDE DEF s
    <3>9. IsAscending(s, T)
      BY <3>6, <3>7, <3>8 DEF IsAscending
    <3> QED
      BY <3>4, <3>6, <3>9 DEF Listing
  <2> QED
    BY <2>1, <2>2
<1>3. Q = Nat
  <2> HIDE DEF Q
  <2>1. Q \in SUBSET Nat
    BY DEF Q
  <2> QED
    BY <1>1, <1>2, <2>1, NatInd
<1>4. b + 1 \in Q
  BY <1>3, SMT
<1> QED
  BY <1>4, SMT

\* Ascending lists every number of the set, in order.
LEMMA AscendingLists ==
  ASSUME NEW b \in Nat, NEW S \in SUBSET (0..b)
  PROVE  Listing(Ascending(S, b + 1), S, b + 1)
<1> DEFINE All == UNION {[1..c -> S] : c \in 0..(b + 1)}
<1>1. \A s : Listing(s, S, b + 1) <=> s \in All /\ IsAscending(s, S)
  BY DEF Listing
<1>2. \E s \in All : IsAscending(s, S)
  BY <1>1, AscendingExists
<1> HIDE DEF All
<1>3. Ascending(S, b + 1) = CHOOSE s \in All : IsAscending(s, S)
  BY DEF Ascending, All
<1> QED
  BY <1>1, <1>2, <1>3

-----------------------------------------------------------------------------
(* Reading a version chain. *)

IsBase(i, versions, rv) ==
    /\ i \in 0..Len(versions)
    /\ i > 0 => versions[i].version <= rv
    /\ \A j \in (i + 1)..Len(versions) : versions[j].version > rv

\* The versions of a chain have their types.
LEMMA VersionsTyped ==
  ASSUME NEW versions \in Seq(Version)
  PROVE  /\ Len(versions) \in Nat
         /\ \A i \in 1..Len(versions) :
               versions[i] \in Version /\ versions[i].version \in Nat /\ versions[i].op \in Ops
<1>1. Len(versions) \in Nat /\ \A i \in 1..Len(versions) : versions[i] \in Version
  BY SMT
<1>2. \A v \in Version : v.version \in Nat /\ v.op \in Ops
  BY DEF Version
<1> QED
  BY <1>1, <1>2

\* The loop of Tx.Get stops at the last version at or below the snapshot, or
\* runs off the front when there is none.
LEMMA BaseIdxIsBase ==
  ASSUME NEW versions \in Seq(Version), NEW rv \in Nat
  PROVE  IsBase(BaseIdx(versions, rv), versions, rv)
<1> DEFINE I == {i \in 1..Len(versions) : versions[i].version <= rv}
<1>1. \E i : IsBase(i, versions, rv)
  <2>1. CASE I = {}
    <3>1. IsBase(0, versions, rv)
      BY <2>1, VersionsTyped, SMT DEF IsBase
    <3> QED
      BY <3>1
  <2>2. CASE I # {}
    <3>1. /\ I \in SUBSET Nat /\ Len(versions) \in Nat
          /\ \A i \in I : i <= Len(versions)
      BY VersionsTyped, SMT
    <3>2. PICK n \in I : \A m \in I : m <= n
      BY <2>2, <3>1, NatGreatest
    <3>3. IsBase(n, versions, rv)
      BY <3>2, VersionsTyped, SMT DEF IsBase
    <3> QED
      BY <3>3
  <2> QED
    BY <2>1, <2>2
<1> QED
  BY <1>1 DEF BaseIdx, IsBase

\* The loop that looks for a snapshot stops at one position.
LEMMA BaseIdxUnique ==
  ASSUME NEW versions \in Seq(Version), NEW rv \in Nat, NEW i, IsBase(i, versions, rv)
  PROVE  BaseIdx(versions, rv) = i
<1> DEFINE b == BaseIdx(versions, rv)
<1>1. IsBase(b, versions, rv)
  BY BaseIdxIsBase
<1> HIDE DEF b
<1>2. ~(b < i) /\ ~(i < b)
  BY <1>1, VersionsTyped, SMT DEF IsBase
<1> QED
  BY <1>1, <1>2, SMT DEF b, IsBase

\* A version above the snapshot, appended by DB.apply, is not seen.
LEMMA AppendInvisible ==
  ASSUME NEW versions \in Seq(Version), NEW rv \in Nat,
         NEW e \in Version, e.version > rv
  PROVE  Visible(Append(versions, e), rv) = Visible(versions, rv)
<1> DEFINE b == BaseIdx(versions, rv)
           longer == Append(versions, e)
<1>1. IsBase(b, versions, rv)
  BY BaseIdxIsBase
<1> HIDE DEF b
<1>2. longer \in Seq(Version)
  BY SMT
<1>3. IsBase(b, longer, rv)
  BY <1>1, SMT DEF IsBase
<1>4. BaseIdx(longer, rv) = b
  BY <1>2, <1>3, BaseIdxUnique
<1>5. b # 0 => longer[b] = versions[b]
  BY <1>1, SMT DEF IsBase
<1> QED
  BY <1>4, <1>5 DEF Visible, b

\* PruneVersions keeps what every snapshot at or after retain reads.
LEMMA PruneInvisible ==
  ASSUME NEW versions \in Seq(Version), NEW retain \in Nat, NEW rv \in Nat, retain <= rv
  PROVE  /\ PruneVersions(versions, retain) \in Seq(Version)
         /\ Visible(PruneVersions(versions, retain), rv) = Visible(versions, rv)
<1> DEFINE b == BaseIdx(versions, retain)
           c == BaseIdx(versions, rv)
           n == Len(versions)
           kept == SubSeq(versions, b, n)
<1>1. IsBase(b, versions, retain) /\ IsBase(c, versions, rv)
  BY BaseIdxIsBase
<1>2. Visible(versions, rv) = IF c = 0 \/ versions[c].op = Delete THEN None ELSE versions[c].op
  BY DEF Visible
<1>3. PruneVersions(versions, retain) =
        IF b = 0 THEN versions
        ELSE IF versions[b].op = Delete /\ b = n THEN <<>> ELSE kept
  BY DEF PruneVersions
<1> HIDE DEF b, c
<1>4. b \in 0..n /\ c \in 0..n /\ b <= c
  BY <1>1, VersionsTyped, SMT DEF IsBase
<1>5. CASE b = 0
  BY <1>3, <1>5
<1>6. CASE b # 0 /\ versions[b].op = Delete /\ b = n
  <2>1. c = b
    BY <1>4, <1>6, SMT
  <2>2. Visible(versions, rv) = None
    BY <1>2, <2>1, <1>6
  <2>3. IsBase(0, <<>>, rv) /\ <<>> \in Seq(Version)
    BY SMT DEF IsBase
  <2>4. BaseIdx(<<>>, rv) = 0
    BY <2>3, BaseIdxUnique
  <2> QED
    BY <1>3, <1>6, <2>2, <2>3, <2>4 DEF Visible
<1>7. CASE b # 0 /\ ~(versions[b].op = Delete /\ b = n)
  <2> DEFINE d == c - b + 1
  <2>1. /\ kept \in Seq(Version) /\ Len(kept) = n - b + 1
        /\ \A i \in 1..(n - b + 1) : kept[i] = versions[b + i - 1]
    <3>1. b \in 1..n /\ n \in Nat
      BY <1>4, <1>7, VersionsTyped, SMT
    <3>2. \A i \in b..n : versions[i] \in Version
      BY <3>1, VersionsTyped, SMT
    <3> QED
      BY <3>1, <3>2, SubSeqProperties, SMT
  <2> HIDE DEF kept
  <2>2. d \in 1..Len(kept) /\ kept[d] = versions[c] /\ c # 0
    BY <2>1, <1>4, <1>7, VersionsTyped, SMT
  <2>3. ASSUME NEW j \in (d + 1)..Len(kept) PROVE kept[j].version > rv
    <3>1. /\ kept[j] = versions[b + j - 1]
          /\ b + j - 1 \in (c + 1)..n
      BY <2>1, <1>4, <1>7, VersionsTyped, SMT
    <3> QED
      BY <3>1, <1>1 DEF IsBase
  <2>4. IsBase(d, kept, rv)
    BY <2>2, <2>3, <1>1, SMT DEF IsBase
  <2>5. BaseIdx(kept, rv) = d
    BY <2>1, <2>4, BaseIdxUnique
  <2>6. PruneVersions(versions, retain) = kept
    BY <1>3, <1>7
  <2>7. Visible(kept, rv) = IF d = 0 \/ kept[d].op = Delete THEN None ELSE kept[d].op
    BY <2>5 DEF Visible
  <2> QED
    BY <1>2, <2>1, <2>2, <2>6, <2>7, SMT
<1> QED
  BY <1>5, <1>6, <1>7
-----------------------------------------------------------------------------
(* Replaying records. *)

Fresh == [history |-> NoHistory, version |-> 0]

\* s lists the states that replaying the first n records of f goes through.
IsReplay(s, f, n) ==
    s = [i \in 0..n |-> IF i = 0 THEN Fresh ELSE Apply(s[i - 1], f[i])]

\* Replay unfolds its recursive function.
LEMMA ReplayDef ==
  ASSUME NEW f
  PROVE  Replay(f) = (CHOOSE s : IsReplay(s, f, Len(f)))[Len(f)]
BY DEF Replay, IsReplay, Fresh

\* The recursive function of replay exists.
LEMMA ReplayExists ==
  ASSUME NEW f, NEW n \in Nat
  PROVE  \E s : IsReplay(s, f, n)
<1> DEFINE Q == {m \in Nat : \E s : IsReplay(s, f, m)}
<1>1. 0 \in Q
  <2>1. IsReplay([i \in 0..0 |-> Fresh], f, 0)
    BY SMT DEF IsReplay
  <2> QED
    BY <2>1
<1>2. ASSUME NEW m \in Q PROVE m + 1 \in Q
  <2>1. PICK s : IsReplay(s, f, m)
    OBVIOUS
  <2> DEFINE r == [i \in 0..(m + 1) |-> IF i = m + 1 THEN Apply(s[m], f[m + 1]) ELSE s[i]]
  <2>2. ASSUME NEW i \in 0..(m + 1)
        PROVE  r[i] = IF i = 0 THEN Fresh ELSE Apply(r[i - 1], f[i])
    <3>1. CASE i = 0
      BY <3>1, <2>1, SMT DEF IsReplay
    <3>2. CASE i \in 1..m
      <4>1. r[i] = s[i] /\ r[i - 1] = s[i - 1]
        BY <3>2, SMT
      <4>2. s[i] = Apply(s[i - 1], f[i])
        BY <2>1, <3>2, SMT DEF IsReplay
      <4> QED
        BY <4>1, <4>2, <3>2, SMT
    <3>3. CASE i = m + 1
      <4>1. r[i] = Apply(s[m], f[m + 1]) /\ r[i - 1] = s[m] /\ i # 0
        BY <3>3, SMT
      <4> QED
        BY <4>1, <3>3
    <3> QED
      BY <3>1, <3>2, <3>3, SMT
  <2>3. r = [i \in 0..(m + 1) |-> r[i]]
    OBVIOUS
  <2> HIDE DEF r
  <2>4. IsReplay(r, f, m + 1)
    BY <2>2, <2>3 DEF IsReplay
  <2> QED
    BY <2>4, SMT
<1>3. Q = Nat
  <2>1. Q \in SUBSET Nat
    OBVIOUS
  <2> HIDE DEF Q
  <2> QED
    BY <1>1, <1>2, <2>1, NatInd
<1> QED
  BY <1>3

\* Replays of two files go through the same states as long as they agree.
LEMMA ReplayAgree ==
  ASSUME NEW f, NEW g, NEW n \in Nat, NEW m \in Nat, n <= m,
         \A i \in 1..n : f[i] = g[i],
         NEW s, IsReplay(s, f, n), NEW r, IsReplay(r, g, m)
  PROVE  \A i \in 0..n : s[i] = r[i]
<1> DEFINE Q == {i \in Nat : i <= n => s[i] = r[i]}
<1>1. 0 \in Q
  BY SMT DEF IsReplay
<1>2. ASSUME NEW i \in Q PROVE i + 1 \in Q
  <2> SUFFICES ASSUME i + 1 <= n PROVE s[i + 1] = r[i + 1]
    BY SMT
  <2>1. s[i] = r[i] /\ f[i + 1] = g[i + 1]
    BY SMT
  <2>2. s[i + 1] = Apply(s[i], f[i + 1]) /\ r[i + 1] = Apply(r[i], g[i + 1])
    <3>1. i + 1 \in 0..n /\ i + 1 \in 0..m /\ i + 1 # 0 /\ (i + 1) - 1 = i
      BY SMT
    <3> QED
      BY <3>1 DEF IsReplay
  <2> QED
    BY <2>1, <2>2
<1>3. Q = Nat
  <2>1. Q \in SUBSET Nat
    OBVIOUS
  <2> HIDE DEF Q
  <2> QED
    BY <1>1, <1>2, <2>1, NatInd
<1> QED
  BY <1>3, SMT

\* Replaying one more record applies it to what the others rebuilt.
LEMMA ReplayAppend ==
  ASSUME NEW f \in Seq(Frame), NEW rec \in Frame
  PROVE  Replay(Append(f, rec)) = Apply(Replay(f), rec)
<1> DEFINE n == Len(f)
           g == Append(f, rec)
           s == CHOOSE s : IsReplay(s, f, n)
           r == CHOOSE r : IsReplay(r, g, n + 1)
<1>1. n \in Nat /\ Len(g) = n + 1 /\ g[n + 1] = rec /\ \A i \in 1..n : f[i] = g[i]
  BY SMT
<1>2. Replay(f) = s[n] /\ Replay(g) = r[n + 1]
  BY <1>1, ReplayDef
<1> HIDE DEF g, n
<1>3. IsReplay(s, f, n) /\ IsReplay(r, g, n + 1)
  <2>1. n + 1 \in Nat
    BY <1>1, SMT
  <2>2. (\E x : IsReplay(x, f, n)) /\ (\E x : IsReplay(x, g, n + 1))
    BY <1>1, <2>1, ReplayExists
  <2> QED
    BY <2>2
<1> HIDE DEF s, r
<1>4. s[n] = r[n]
  BY <1>1, <1>3, ReplayAgree, SMT
<1>5. r[n + 1] = Apply(r[n], g[n + 1])
  <2>1. n + 1 \in 0..(n + 1) /\ n + 1 # 0 /\ (n + 1) - 1 = n
    BY <1>1, SMT
  <2> QED
    BY <1>3, <2>1 DEF IsReplay
<1> QED
  BY <1>1, <1>2, <1>4, <1>5 DEF g

\* An empty file replays to an empty store.
LEMMA ReplayEmpty == Replay(<<>>) = Fresh
<1>1. PICK s : IsReplay(s, <<>>, 0)
  BY ReplayExists
<1>2. Len(<<>>) = 0
  OBVIOUS
<1>3. \A r : IsReplay(r, <<>>, 0) => r[0] = Fresh
  BY SMT DEF IsReplay
<1> QED
  BY <1>1, <1>2, <1>3, ReplayDef

Bounded(versions, v) == \A i \in 1..Len(versions) : versions[i].version <= v

\* A well-formed memory: no version is newer than db.version.
GoodState(s) ==
    /\ s.history \in [Keys -> Seq(Version)]
    /\ s.version \in Nat
    /\ \A k \in Keys : Bounded(s.history[k], s.version)

\* Applying operations at a version keeps the chains bounded by it.
LEMMA ApplyOpsGood ==
  ASSUME NEW h \in [Keys -> Seq(Version)], NEW ops \in Writes, NEW u \in Nat, NEW v \in Nat,
         \A k \in Keys : Bounded(h[k], u), NEW w \in Nat, u <= w, v <= w
  PROVE  /\ ApplyOps(h, v, ops) \in [Keys -> Seq(Version)]
         /\ \A k \in Keys : Bounded(ApplyOps(h, v, ops)[k], w)
<1> DEFINE e(k) == [version |-> v, op |-> ops[k]]
           longer(k) == Append(h[k], e(k))
<1>1. ASSUME NEW k \in Keys, ops[k] # None
      PROVE  longer(k) \in Seq(Version) /\ Bounded(longer(k), w)
  <2>1. e(k) \in Version /\ e(k).version = v
    BY <1>1 DEF Version, Writes
  <2> HIDE DEF e
  <2>2. /\ longer(k) \in Seq(Version) /\ Len(longer(k)) = Len(h[k]) + 1
        /\ \A i \in 1..Len(h[k]) : longer(k)[i] = h[k][i]
        /\ longer(k)[Len(h[k]) + 1] = e(k)
    BY <2>1, AppendProperties, SMT
  <2> HIDE DEF longer
  <2>3. \A i \in 1..Len(h[k]) : h[k][i].version \in Nat /\ h[k][i].version <= u
    BY VersionsTyped DEF Bounded
  <2>4. Len(h[k]) \in Nat
    BY VersionsTyped
  <2> QED
    BY <2>1, <2>2, <2>3, <2>4, SMT DEF Bounded
<1>2. ASSUME NEW k \in Keys PROVE Bounded(h[k], w)
  BY VersionsTyped, SMT DEF Bounded
<1> QED
  BY <1>1, <1>2 DEF ApplyOps

\* DB.apply keeps the version a bound of the history.
LEMMA ApplyGood ==
  ASSUME NEW s, GoodState(s), NEW rec \in Frame
  PROVE  GoodState(Apply(s, rec))
<1>1. rec.version \in Nat /\ rec.ops \in Writes
  BY DEF Frame
<1> DEFINE w == Larger(s.version, rec.version)
           h == ApplyOps(s.history, rec.version, rec.ops)
<1>2. w \in Nat /\ s.version <= w /\ rec.version <= w
  BY <1>1, SMT DEF GoodState, Larger
<1> HIDE DEF w
<1>3. h \in [Keys -> Seq(Version)] /\ \A k \in Keys : Bounded(h[k], w)
  BY <1>1, <1>2, ApplyOpsGood DEF GoodState
<1> HIDE DEF h
<1>4. Apply(s, rec) = [history |-> h, version |-> w]
  BY DEF Apply, h, w
<1> QED
  BY <1>2, <1>3, <1>4, SMT DEF GoodState

\* Open rebuilds a well-formed memory from any file of records.
LEMMA ReplayGood ==
  ASSUME NEW f \in Seq(Frame)
  PROVE  GoodState(Replay(f))
<1> DEFINE n == Len(f)
           s == CHOOSE s : IsReplay(s, f, n)
           Q == {i \in Nat : i <= n => GoodState(s[i])}
<1>1. n \in Nat /\ Replay(f) = s[n] /\ \A i \in 1..n : f[i] \in Frame
  BY ReplayDef, SMT
<1>2. IsReplay(s, f, n)
  BY <1>1, ReplayExists
<1> HIDE DEF s, n
<1>3. GoodState(Fresh)
  BY SMT DEF GoodState, Fresh, NoHistory, Bounded
<1>4. 0 \in Q
  BY <1>1, <1>2, <1>3, SMT DEF IsReplay
<1>5. ASSUME NEW i \in Q PROVE i + 1 \in Q
  <2> SUFFICES ASSUME i + 1 <= n PROVE GoodState(s[i + 1])
    BY SMT
  <2>1. i + 1 \in 0..n /\ i + 1 # 0 /\ (i + 1) - 1 = i /\ f[i + 1] \in Frame
    BY <1>1, SMT
  <2>2. s[i + 1] = Apply(s[i], f[i + 1])
    BY <1>2, <2>1 DEF IsReplay
  <2>3. GoodState(s[i])
    BY <1>1, SMT
  <2> QED
    BY <2>1, <2>2, <2>3, ApplyGood
<1>6. Q = Nat
  <2>1. Q \in SUBSET Nat
    OBVIOUS
  <2> HIDE DEF Q
  <2> QED
    BY <1>4, <1>5, <2>1, NatInd
<1> QED
  BY <1>1, <1>6, SMT

-----------------------------------------------------------------------------
(* Compaction. *)

\* Pruning keeps a suffix of a chain, so it invents no version.
LEMMA PruneBounded ==
  ASSUME NEW versions \in Seq(Version), NEW retain \in Nat, NEW v \in Nat,
         Bounded(versions, v)
  PROVE  Bounded(PruneVersions(versions, retain), v)
<1> DEFINE b == BaseIdx(versions, retain)
           n == Len(versions)
<1>1. b \in 0..n /\ n \in Nat
  BY BaseIdxIsBase, VersionsTyped DEF IsBase
<1>2. PruneVersions(versions, retain) \in {versions, <<>>} \/
        (b # 0 /\ PruneVersions(versions, retain) = SubSeq(versions, b, n))
  BY DEF PruneVersions
<1> HIDE DEF b
<1>3. Bounded(<<>>, v)
  BY SMT DEF Bounded
<1>4. ASSUME b # 0 PROVE Bounded(SubSeq(versions, b, n), v)
  <2>1. b \in 1..n /\ \A i \in b..n : versions[i] \in Version
    BY <1>1, <1>4, VersionsTyped, SMT
  <2>2. /\ Len(SubSeq(versions, b, n)) = n - b + 1
        /\ \A i \in 1..(n - b + 1) : SubSeq(versions, b, n)[i] = versions[b + i - 1]
    BY <1>1, <2>1, SubSeqProperties, SMT
  <2> QED
    BY <1>1, <2>1, <2>2, SMT DEF Bounded
<1> QED
  BY <1>2, <1>3, <1>4

\* A record is a frame of the file.
LEMMA RecordTyped ==
  ASSUME NEW v \in Nat, NEW ops \in Writes
  PROVE  Record(v, ops) \in Frame
BY DEF Record, Frame

\* What a version holds for a key.
LEMMA OpAtIs ==
  ASSUME NEW versions \in Seq(Version), NEW w
  PROVE  \/ OpAt(versions, w) = None /\ \A j \in 1..Len(versions) : versions[j].version # w
         \/ /\ OpAt(versions, w) \in Ops
            /\ \E j \in 1..Len(versions) : versions[j].version = w /\ versions[j].op = OpAt(versions, w)
<1> DEFINE I == {i \in 1..Len(versions) : versions[i].version = w}
<1>1. OpAt(versions, w) = IF I = {} THEN None ELSE versions[Greatest(I)].op
  BY LenProperties DEF OpAt
<1>2. CASE I = {}
  BY <1>1, <1>2
<1>3. CASE I # {}
  <2>1. I \in SUBSET Nat /\ Len(versions) \in Nat /\ \A m \in I : m <= Len(versions)
    BY VersionsTyped, SMT
  <2>2. \E n \in I : \A m \in I : m <= n
    BY <1>3, <2>1, NatGreatest
  <2> DEFINE j == Greatest(I)
  <2>3. j \in I
    BY <2>2 DEF Greatest
  <2> HIDE DEF j
  <2>4. j \in 1..Len(versions) /\ versions[j].version = w
    BY <2>3
  <2>5. OpAt(versions, w) = versions[j].op
    BY <1>1, <1>3 DEF j
  <2> QED
    BY <2>4, <2>5, VersionsTyped
<1> QED
  BY <1>2, <1>3

\* OpAt returns an operation or None.
LEMMA OpAtTyped ==
  ASSUME NEW versions \in Seq(Version), NEW w
  PROVE  OpAt(versions, w) \in Ops \cup {None}
BY OpAtIs

\* compactRecords writes well-formed records.
LEMMA CompactRecordsTyped ==
  ASSUME NEW h \in [Keys -> Seq(Version)], NEW v \in Nat, NEW retain,
         \A k \in Keys : Bounded(h[k], v)
  PROVE  CompactRecords(h, retain, v) \in Seq(Frame)
<1>1. SnapshotRecords(h, v) \in Seq(Frame)
  <2> DEFINE live == [k \in Keys |-> IF h[k] = <<>> \/ Newest(h[k]).op = Delete
                                     THEN None ELSE Newest(h[k]).op]
  <2>1. ASSUME NEW k \in Keys, h[k] # <<>> PROVE Newest(h[k]).op \in Ops
    <3>1. Len(h[k]) \in 1..Len(h[k])
      BY <2>1, SMT
    <3> QED
      BY <3>1, VersionsTyped DEF Newest
  <2>2. live \in Writes
    BY <2>1 DEF Writes
  <2>3. Record(v, live) \in Frame
    BY <2>2, RecordTyped
  <2> HIDE DEF live
  <2>4. <<Record(v, live)>> \in Seq(Frame) /\ <<>> \in Seq(Frame)
    BY <2>3, SMT
  <2> QED
    BY <2>4 DEF SnapshotRecords, live
<1>2. GroupRecords(h, v) \in Seq(Frame)
  <2> DEFINE S == VersionsIn(h)
             versions == Ascending(S, v + 1)
  <2>1. S \in SUBSET (0..v)
    <3> SUFFICES ASSUME NEW k \in Keys, NEW i \in 1..Len(h[k]) PROVE h[k][i].version \in 0..v
      BY SMT DEF VersionsIn
    <3> QED
      BY VersionsTyped, SMT DEF Bounded
  <2> HIDE DEF S
  <2>2. Listing(versions, S, v + 1)
    BY <2>1, AscendingLists
  <2> HIDE DEF versions
  <2>3. PICK c \in 0..(v + 1) : versions \in [1..c -> S]
    BY <2>2 DEF Listing
  <2>4. c \in Nat /\ DOMAIN versions = 1..c
    BY <2>3, SMT
  <2>5. \A i \in 1..c : versions[i] \in Nat
    <3>1. \A x \in S : x \in Nat
      BY <2>1, SMT
    <3> QED
      BY <2>3, <3>1
  <2> DEFINE rec(i) == Record(versions[i], [k \in Keys |-> OpAt(h[k], versions[i])])
  <2>6. ASSUME NEW i \in 1..c PROVE rec(i) \in Frame
    <3>1. \A k \in Keys : OpAt(h[k], versions[i]) \in Ops \cup {None}
      BY <2>5, OpAtTyped
    <3> QED
      BY <2>5, <3>1, RecordTyped DEF Writes
  <2>7. GroupRecords(h, v) = [i \in 1..c |-> rec(i)]
    BY <2>4 DEF GroupRecords, versions, S
  <2> HIDE DEF rec
  <2> QED
    BY <2>4, <2>6, <2>7, SMT
<1> QED
  BY <1>1, <1>2 DEF CompactRecords

\* The records that replay accepts are a file.
LEMMA GoodPrefixTyped ==
  ASSUME NEW f \in Seq(Frame)
  PROVE  GoodPrefix(f) \in Seq(Frame)
<1> DEFINE I == {i \in 1..Len(f) : ~Readable(f[i])}
<1>1. GoodPrefix(f) = IF I = {} THEN f ELSE SubSeq(f, 1, Least(I) - 1)
  BY DEF GoodPrefix
<1>2. ASSUME I # {} PROVE Least(I) \in 1..Len(f)
  <2>1. I \in SUBSET Nat
    BY SMT
  <2>2. \E n \in I : \A m \in I : n <= m
    BY <2>1, <1>2, NatLeast
  <2>3. Least(I) \in I
    BY <2>2 DEF Least
  <2> QED
    BY <2>3
<1> HIDE DEF I
<1>3. ASSUME I # {} PROVE SubSeq(f, 1, Least(I) - 1) \in Seq(Frame)
  <2>1. \A i \in 1..(Least(I) - 1) : f[i] \in Frame
    BY <1>2, <1>3, SMT
  <2> QED
    BY <1>2, <1>3, <2>1, SubSeqProperties, SMT
<1> QED
  BY <1>1, <1>3

\* oldestReadVersion is at or below every registered snapshot.
LEMMA OldestIsOldest ==
  ASSUME TypeOK
  PROVE  /\ OldestReadVersion \in Nat
         /\ \A t \in active : OldestReadVersion <= tx[t].readVersion
<1> DEFINE S == {tx[t].readVersion : t \in active}
<1>1. S \in SUBSET Nat
  BY SMT DEF TypeOK, Tx
<1>2. CASE active = {}
  BY <1>2 DEF OldestReadVersion, TypeOK
<1>3. CASE active # {}
  <2>1. S # {}
    BY <1>3
  <2>2. \E n \in S : \A m \in S : n <= m
    BY <1>1, <2>1, NatLeast
  <2>3. Least(S) \in S /\ \A m \in S : Least(S) <= m
    BY <2>2 DEF Least
  <2> QED
    BY <1>1, <1>3, <2>3 DEF OldestReadVersion
<1> QED
  BY <1>2, <1>3

-----------------------------------------------------------------------------
(* The invariant. *)

IInv == TypeOK /\ MemoryConsistent

\* A closed transaction is a transaction.
LEMMA ClosedTxTyped == ClosedTx \in Tx /\ ClosedTx.state = "closed" /\ NoWrites \in Writes
BY DEF ClosedTx, Tx, NoWrites, Writes

\* The memory part of a step that only closes transactions or leaves them be.
LEMMA FinishInv ==
  ASSUME IInv, NEW t \in Txs, Finish(t), UNCHANGED <<up, history, version>>
  PROVE  /\ tx' \in [Txs -> Tx]
         /\ active' = {u \in Txs : tx'[u].state # "closed"}
         /\ MemoryConsistent'
<1> USE DEF IInv, Finish
<1>1. tx' \in [Txs -> Tx] /\ tx'[t].state = "closed" /\ \A u \in Txs : u # t => tx'[u] = tx[u]
  BY ClosedTxTyped DEF TypeOK
<1>2. active' = {u \in Txs : tx'[u].state # "closed"}
  BY <1>1 DEF TypeOK
<1>3. MemoryConsistent'
  BY <1>1 DEF MemoryConsistent
<1> QED
  BY <1>1, <1>2, <1>3

\* Pruning keeps types and bounds.
LEMMA PrunedInv ==
  ASSUME IInv, history' = Pruned(history, OldestReadVersion), UNCHANGED <<up, version, tx>>
  PROVE  /\ history' \in [Keys -> Seq(Version)]
         /\ MemoryConsistent'
<1>1. OldestReadVersion \in Nat /\ version \in Nat
  BY OldestIsOldest DEF IInv, TypeOK
<1>2. ASSUME NEW k \in Keys
      PROVE  /\ history'[k] = PruneVersions(history[k], OldestReadVersion)
             /\ history'[k] \in Seq(Version)
             /\ Bounded(history'[k], version)
  <2>1. history[k] \in Seq(Version) /\ Bounded(history[k], version)
    BY DEF IInv, TypeOK, MemoryConsistent, Bounded
  <2>2. history'[k] = PruneVersions(history[k], OldestReadVersion)
    BY DEF Pruned
  <2> QED
    BY <1>1, <2>1, <2>2, PruneInvisible, PruneBounded, SMT
<1>3. history' \in [Keys -> Seq(Version)]
  BY <1>2 DEF Pruned
<1> QED
  BY <1>2, <1>3 DEF MemoryConsistent, Bounded, IInv

\* Initially, and after a crash, nothing is open.
LEMMA InitInv == Init => IInv
<1> SUFFICES ASSUME Init PROVE IInv
  OBVIOUS
<1>1. tx \in [Txs -> Tx] /\ \A t \in Txs : tx[t].state = "closed"
  BY ClosedTxTyped DEF Init
<1>2. history \in [Keys -> Seq(Version)] /\ \A k \in Keys : Len(history[k]) = 0
  BY SMT DEF Init, NoHistory
<1>3. up \in BOOLEAN /\ closed \in BOOLEAN /\ fileOpen \in BOOLEAN
  BY DEF Init
<1>4. /\ version \in Nat /\ compacting \in {"no", "written", "renamed"}
      /\ file \in Seq(Frame) /\ tmp \in Seq(Frame) /\ synced \in 0..Len(file)
  BY SMT DEF Init
<1>5. active = {t \in Txs : tx[t].state # "closed"}
  BY <1>1 DEF Init
<1> QED
  BY <1>1, <1>2, <1>3, <1>4, <1>5, SMT DEF IInv, TypeOK, MemoryConsistent

\* Every step keeps the invariant.
LEMMA NextInv == IInv /\ [Next]_vars => IInv'
<1> SUFFICES ASSUME IInv, [Next]_vars PROVE IInv'
  OBVIOUS
<1>t. /\ up \in BOOLEAN /\ closed \in BOOLEAN /\ fileOpen \in BOOLEAN
      /\ history \in [Keys -> Seq(Version)] /\ version \in Nat /\ tx \in [Txs -> Tx]
      /\ active = {t \in Txs : tx[t].state # "closed"}
      /\ file \in Seq(Frame) /\ tmp \in Seq(Frame) /\ synced \in 0..Len(file)
      /\ compacting \in {"no", "written", "renamed"}
  BY DEF IInv, TypeOK
<1>m. MemoryConsistent
  BY DEF IInv
<1>f. /\ Len(file) \in Nat /\ Len(tmp) \in Nat
      /\ \A rec \in Frame : /\ Append(file, rec) \in Seq(Frame)
                            /\ Len(Append(file, rec)) = Len(file) + 1
  BY <1>t, AppendProperties, LenProperties
<1>r. \A t \in Txs, v \in Nat :
        /\ tx[t].writes \in Writes
        /\ Record(v, tx[t].writes) \in Frame
        /\ [Record(v, tx[t].writes) EXCEPT !.whole = FALSE] \in Frame
  <2>1. \A t \in Txs : tx[t].writes \in Writes
    BY <1>t DEF Tx
  <2>2. \A v \in Nat, ops \in Writes : [Record(v, ops) EXCEPT !.whole = FALSE] \in Frame
    BY DEF Record, Frame
  <2> QED
    BY <2>1, <2>2, RecordTyped
<1>1. ASSUME NEW t \in Txs, NEW writable \in BOOLEAN, Begin(t, writable) PROVE IInv'
  <2> DEFINE new == [state |-> "open", writable |-> writable,
                     readVersion |-> version, writes |-> NoWrites]
  <2>1. new \in Tx
    BY <1>t, ClosedTxTyped DEF Tx
  <2>2. tx' = [tx EXCEPT ![t] = new]
    BY <1>1 DEF Begin
  <2>3. tx' \in [Txs -> Tx] /\ tx'[t] = new /\ \A u \in Txs : u # t => tx'[u] = tx[u]
    BY <2>1, <2>2, <1>t
  <2>4. active' = {u \in Txs : tx'[u].state # "closed"}
    BY <2>3, <1>t, <1>1 DEF Begin
  <2>5. MemoryConsistent'
    BY <2>3, <1>t, <1>m, <1>1, SMT DEF Begin, MemoryConsistent
  <2> QED
    BY <2>3, <2>4, <2>5, <1>t, <1>1 DEF Begin, IInv, TypeOK
<1>2. ASSUME NEW t \in Txs, NEW k \in Keys, NEW op \in Ops, Put(t, k, op) PROVE IInv'
  <2>1. /\ tx' \in [Txs -> Tx]
        /\ \A u \in Txs : tx'[u].state = tx[u].state /\ tx'[u].readVersion = tx[u].readVersion
    BY <1>2, <1>t DEF Put, Tx, Writes
  <2>2. active' = {u \in Txs : tx'[u].state # "closed"}
    BY <2>1, <1>t, <1>2 DEF Put
  <2>3. MemoryConsistent'
    BY <2>1, <1>m, <1>2 DEF Put, MemoryConsistent
  <2> QED
    BY <2>1, <2>2, <2>3, <1>t, <1>2 DEF Put, IInv, TypeOK
<1>3. ASSUME NEW t \in Txs, Rollback(t) PROVE IInv'
  BY <1>3, <1>t, FinishInv DEF Rollback, IInv, TypeOK
<1>4. ASSUME NEW t \in Txs, CommitNothing(t) PROVE IInv'
  BY <1>4, <1>t, FinishInv DEF CommitNothing, IInv, TypeOK
<1>5. ASSUME NEW t \in Txs, CommitWrite(t) PROVE IInv'
  <2>1. /\ tx' \in [Txs -> Tx]
        /\ \A u \in Txs : /\ tx'[u].state # "closed" <=> tx[u].state # "closed"
                          /\ tx'[u].readVersion = tx[u].readVersion
    BY <1>5, <1>t DEF CommitWrite, MustAppend, InCommit, Tx
  <2>2. active' = {u \in Txs : tx'[u].state # "closed"}
    BY <2>1, <1>t, <1>5 DEF CommitWrite
  <2>3. MemoryConsistent'
    BY <2>1, <1>m, <1>5 DEF CommitWrite, MemoryConsistent
  <2>4. file' \in Seq(Frame) /\ synced' \in 0..Len(file')
    <3>1. version + 1 \in Nat
      BY <1>t, SMT
    <3>2. Record(version + 1, tx[t].writes) \in Frame
      BY <3>1, <1>r
    <3>3. file' = Append(file, Record(version + 1, tx[t].writes)) /\ synced' = synced
      BY <1>5 DEF CommitWrite
    <3> QED
      BY <3>2, <3>3, <1>t, <1>f, SMT
  <2> QED
    BY <2>1, <2>2, <2>3, <2>4, <1>t, <1>5 DEF CommitWrite, IInv, TypeOK
<1>6. ASSUME NEW t \in Txs, CommitWriteError(t) PROVE IInv'
  <2>1. file' \in Seq(Frame) /\ synced' \in 0..Len(file')
    <3> DEFINE part == [Record(version + 1, tx[t].writes) EXCEPT !.whole = FALSE]
    <3>1. version + 1 \in Nat
      BY <1>t, SMT
    <3>2. part \in Frame
      BY <3>1, <1>r
    <3>3. file' = file \/ file' = Append(file, part)
      BY <1>6 DEF CommitWriteError
    <3> HIDE DEF part
    <3>4. synced' = synced
      BY <1>6 DEF CommitWriteError
    <3>5. CASE file' = file
      BY <3>4, <3>5, <1>t
    <3>6. CASE file' = Append(file, part)
      <4>1. file' \in Seq(Frame) /\ Len(file') = Len(file) + 1
        BY <3>2, <3>6, <1>f
      <4> QED
        BY <4>1, <3>4, <1>t, <1>f, SMT
    <3> QED
      BY <3>3, <3>5, <3>6
  <2> QED
    BY <2>1, <1>6, <1>t, FinishInv DEF CommitWriteError, IInv, TypeOK
<1>7. ASSUME NEW t \in Txs, CommitSync(t) PROVE IInv'
  <2>1. /\ tx' \in [Txs -> Tx] /\ tx'[t].state = "closed"
        /\ \A u \in Txs : u # t => tx'[u] = tx[u]
    BY <1>7, <1>t, ClosedTxTyped DEF CommitSync, Finish
  <2>2. active' = {u \in Txs : tx'[u].state # "closed"}
    BY <2>1, <1>t, <1>7 DEF CommitSync, Finish
  <2>3. /\ history' \in [Keys -> Seq(Version)]
        /\ \A k \in Keys : Bounded(history'[k], version')
    <3>1. version + 1 \in Nat /\ version <= version + 1
      BY <1>t, SMT
    <3>2. \A k \in Keys : Bounded(history[k], version)
      BY <1>m DEF MemoryConsistent, Bounded
    <3>3. history' = ApplyOps(history, version + 1, tx[t].writes) /\ version' = version + 1
      BY <1>7 DEF CommitSync
    <3> QED
      <4>1. tx[t].writes \in Writes /\ version \in Nat /\ history \in [Keys -> Seq(Version)]
        BY <1>t, <1>r
      <4>2. version + 1 <= version + 1
        BY <3>1, SMT
      <4>3. /\ ApplyOps(history, version + 1, tx[t].writes) \in [Keys -> Seq(Version)]
            /\ \A k \in Keys : Bounded(ApplyOps(history, version + 1, tx[t].writes)[k], version + 1)
        BY <4>1, <4>2, <3>1, <3>2, ApplyOpsGood
      <4> QED
        BY <4>3, <3>3
  <2>4. MemoryConsistent'
    <3>1. \A u \in Txs : tx'[u].state # "closed" => up' /\ tx'[u].readVersion <= version'
      <4> SUFFICES ASSUME NEW u \in Txs, tx'[u].state # "closed"
                   PROVE  up' /\ tx'[u].readVersion <= version'
        OBVIOUS
      <4>1. tx'[u] = tx[u] /\ up' = up /\ version' = version + 1
        BY <2>1, <1>7 DEF CommitSync
      <4>2. up /\ tx[u].readVersion <= version
        BY <4>1, <1>m DEF MemoryConsistent
      <4>3. tx[u].readVersion \in Nat
        BY <1>t DEF Tx
      <4> QED
        BY <4>1, <4>2, <4>3, <1>t, SMT
    <3> QED
      BY <2>3, <3>1 DEF MemoryConsistent, Bounded
  <2>5. synced' \in 0..Len(file') /\ version' \in Nat
    BY <1>7, <1>t, <1>f, SMT DEF CommitSync
  <2> QED
    BY <2>1, <2>2, <2>3, <2>4, <2>5, <1>t, <1>7 DEF CommitSync, IInv, TypeOK
<1>8. ASSUME NEW t \in Txs, CommitSyncError(t) PROVE IInv'
  BY <1>8, <1>t, FinishInv DEF CommitSyncError, IInv, TypeOK
<1>9. CASE CompactWrite
  <2>1. history' \in [Keys -> Seq(Version)] /\ MemoryConsistent'
    BY <1>9, PrunedInv DEF CompactWrite
  <2>2. tmp' \in Seq(Frame)
    <3>1. \A k \in Keys : Bounded(history'[k], version)
      BY <2>1, <1>9 DEF MemoryConsistent, Bounded, CompactWrite
    <3> QED
      BY <2>1, <3>1, <1>t, <1>9, CompactRecordsTyped DEF CompactWrite
  <2> QED
    BY <2>1, <2>2, <1>t, <1>9 DEF CompactWrite, IInv, TypeOK
<1>10. CASE CompactTmpError
  <2>1. history' \in [Keys -> Seq(Version)] /\ MemoryConsistent'
    BY <1>10, PrunedInv DEF CompactTmpError
  <2> QED
    BY <2>1, <1>t, <1>10 DEF CompactTmpError, IInv, TypeOK
<1>11. CASE CompactRename
  <2>1. file' \in Seq(Frame) /\ tmp' \in Seq(Frame) /\ synced' \in 0..Len(file')
    BY <1>11, <1>t, <1>f, SMT DEF CompactRename
  <2> QED
    BY <2>1, <1>11, <1>t, <1>m DEF CompactRename, IInv, TypeOK, MemoryConsistent
<1>12. CASE CompactRenameError
  <2>1. fileOpen' \in BOOLEAN
    BY <1>12 DEF CompactRenameError
  <2>2. tmp' \in Seq(Frame)
    BY <1>12, SMT DEF CompactRenameError
  <2> QED
    BY <2>1, <2>2, <1>12, <1>t, <1>m DEF CompactRenameError, IInv, TypeOK, MemoryConsistent
<1>13. CASE CompactReopen
  BY <1>13, <1>t, <1>m DEF CompactReopen, IInv, TypeOK, MemoryConsistent
<1>14. CASE CompactReopenError
  BY <1>14, <1>t, <1>m DEF CompactReopenError, IInv, TypeOK, MemoryConsistent
<1>15. CASE Close
  BY <1>15, <1>t, <1>m DEF Close, IInv, TypeOK, MemoryConsistent
<1>16. CASE Crash
  <2>1. tx' \in [Txs -> Tx] /\ \A u \in Txs : tx'[u].state = "closed"
    BY <1>16, ClosedTxTyped DEF Crash
  <2>2. history' \in [Keys -> Seq(Version)] /\ \A k \in Keys : Len(history'[k]) = 0
    BY <1>16, SMT DEF Crash, NoHistory
  <2>3. file' \in Seq(Frame)
    <3>1. file' \in CrashImages(file, synced)
      BY <1>16 DEF Crash
    <3>2. ASSUME NEW n \in synced..Len(file) PROVE SubSeq(file, 1, n) \in Seq(Frame)
      <4>1. n \in Int /\ \A i \in 1..n : file[i] \in Frame
        BY <1>t, <1>f, SMT
      <4> QED
        BY <4>1, SubSeqProperties, SMT
    <3>3. ASSUME NEW n \in synced..(Len(file) - 1)
          PROVE  [file[n + 1] EXCEPT !.whole = FALSE] \in Frame
      <4>1. file[n + 1] \in Frame
        BY <1>t, <1>f, SMT
      <4> QED
        BY <4>1 DEF Frame
    <3>4. ASSUME NEW n \in synced..(Len(file) - 1)
          PROVE  Append(SubSeq(file, 1, n), [file[n + 1] EXCEPT !.whole = FALSE]) \in Seq(Frame)
      <4>1. n \in synced..Len(file)
        BY <1>t, <1>f, SMT
      <4> QED
        BY <4>1, <3>2, <3>3, AppendProperties
    <3> QED
      BY <3>1, <3>2, <3>4 DEF CrashImages
  <2>4. synced' \in 0..Len(file') /\ active' = {u \in Txs : tx'[u].state # "closed"}
    BY <2>1, <2>3, <1>16, SMT DEF Crash
  <2>5. MemoryConsistent'
    BY <2>1, <2>2, SMT DEF MemoryConsistent
  <2>6. version' \in Nat /\ tmp' \in Seq(Frame)
    BY <1>16, SMT DEF Crash
  <2>7. up' \in BOOLEAN /\ closed' \in BOOLEAN /\ fileOpen' \in BOOLEAN
    BY <1>16 DEF Crash
  <2> QED
    BY <2>1, <2>2, <2>3, <2>4, <2>5, <2>6, <2>7, <1>16 DEF Crash, IInv, TypeOK
<1>17. CASE Open
  <2>1. file' \in Seq(Frame)
    BY <1>17, <1>t, GoodPrefixTyped DEF Open
  <2>2. GoodState(Replay(file'))
    BY <2>1, ReplayGood
  <2>3. history' \in [Keys -> Seq(Version)] /\ version' \in Nat
        /\ \A k \in Keys : Bounded(history'[k], version')
    BY <2>2, <1>17 DEF Open, GoodState
  <2>4. \A u \in Txs : tx[u].state = "closed"
    BY <1>m, <1>17 DEF MemoryConsistent, Open
  <2>5. MemoryConsistent'
    BY <2>3, <2>4, <1>17 DEF MemoryConsistent, Bounded, Open
  <2>6. synced' \in 0..Len(file')
    BY <2>1, <1>17, SMT DEF Open
  <2>7. up' \in BOOLEAN /\ closed' \in BOOLEAN /\ fileOpen' \in BOOLEAN
    BY <1>17, <1>t DEF Open
  <2> QED
    BY <2>1, <2>3, <2>5, <2>6, <2>7, <1>t, <1>17 DEF Open, IInv, TypeOK
<1>18. CASE UNCHANGED vars
  BY <1>18, <1>t, <1>m DEF vars, IInv, TypeOK, MemoryConsistent
<1> QED
  BY <1>1, <1>2, <1>3, <1>4, <1>5, <1>6, <1>7, <1>8, <1>9, <1>10, <1>11, <1>12,
     <1>13, <1>14, <1>15, <1>16, <1>17, <1>18 DEF Next

\* Every variable of the kernel keeps its type, db.active holds exactly the
\* open transactions, and db.version is never behind a version or a snapshot,
\* through commits, compactions, I/O errors, crashes and recovery.
THEOREM KernelInvariant == Spec => [](TypeOK /\ MemoryConsistent)
<1>1. Init => IInv
  BY InitInv
<1>2. IInv /\ [Next]_vars => IInv'
  BY NextInv
<1>3. IInv => TypeOK /\ MemoryConsistent
  BY DEF IInv
<1> QED
  BY <1>1, <1>2, <1>3, PTL DEF Spec

\* The file, the memory and the transactions keep their types.
THEOREM KernelTyped == Spec => []TypeOK
BY KernelInvariant, PTL

-----------------------------------------------------------------------------
(* Stable snapshots. *)

\* A step leaves the snapshot of every transaction that stays open alone.
LEMMA SnapshotKept ==
  ASSUME IInv, [Next]_vars, NEW t \in Txs,
         tx[t].state # "closed", tx'[t].state # "closed"
  PROVE  /\ tx'[t].readVersion = tx[t].readVersion
         /\ \A k \in Keys : Visible(history'[k], tx[t].readVersion)
                          = Visible(history[k], tx[t].readVersion)
<1> DEFINE rv == tx[t].readVersion
           Goal == /\ tx'[t].readVersion = rv
                   /\ \A k \in Keys : Visible(history'[k], rv) = Visible(history[k], rv)
<1>t. /\ tx \in [Txs -> Tx] /\ rv \in Nat /\ version \in Nat /\ rv <= version /\ t \in active
      /\ history \in [Keys -> Seq(Version)] /\ up
  BY DEF IInv, TypeOK, MemoryConsistent, Tx
<1>f. ASSUME NEW u \in Txs, Finish(u) PROVE u # t /\ tx'[t] = tx[t]
  <2>1. tx'[u].state = "closed" /\ (u # t => tx'[t] = tx[t])
    BY <1>t, <1>f, ClosedTxTyped DEF Finish
  <2> QED
    BY <2>1
<1>p. ASSUME history' = Pruned(history, OldestReadVersion), tx' = tx PROVE Goal
  <2>1. OldestReadVersion \in Nat /\ OldestReadVersion <= rv
    BY <1>t, OldestIsOldest DEF IInv
  <2>2. ASSUME NEW k \in Keys PROVE Visible(history'[k], rv) = Visible(history[k], rv)
    <3>1. history'[k] = PruneVersions(history[k], OldestReadVersion) /\ history[k] \in Seq(Version)
      BY <1>p, <1>t DEF Pruned
    <3> DEFINE o == OldestReadVersion
    <3>2. o \in Nat /\ o <= rv /\ rv \in Nat
      BY <1>t, <2>1
    <3> HIDE DEF o, rv
    <3>3. Visible(PruneVersions(history[k], o), rv) = Visible(history[k], rv)
      BY <3>1, <3>2, PruneInvisible
    <3> QED BY <3>1, <3>3 DEF o
  <2> QED
    BY <2>2, <1>p
<1>1. ASSUME NEW u \in Txs, NEW writable \in BOOLEAN, Begin(u, writable) PROVE Goal
  <2>1. u # t
    BY <1>1 DEF Begin
  <2> QED
    BY <2>1, <1>1, <1>t DEF Begin
<1>2. ASSUME NEW u \in Txs, NEW k \in Keys, NEW op \in Ops, Put(u, k, op) PROVE Goal
  <2>1. tx'[t].readVersion = rv
    BY <1>2, <1>t DEF Put, Tx
  <2> QED
    BY <2>1, <1>2 DEF Put
<1>3. ASSUME NEW u \in Txs,
             Rollback(u) \/ CommitNothing(u) \/ CommitWriteError(u) \/ CommitSyncError(u)
      PROVE  Goal
  <2>1. Finish(u) /\ history' = history
    BY <1>3 DEF Rollback, CommitNothing, CommitWriteError, CommitSyncError
  <2> QED
    BY <2>1, <1>f
<1>4. ASSUME NEW u \in Txs, CommitWrite(u) PROVE Goal
  <2>1. tx'[t].readVersion = rv
    BY <1>4, <1>t DEF CommitWrite, Tx
  <2> QED
    BY <2>1, <1>4 DEF CommitWrite
<1>5. ASSUME NEW u \in Txs, CommitSync(u) PROVE Goal
  <2>1. tx'[t] = tx[t]
    BY <1>5, <1>f DEF CommitSync
  <2>2. ASSUME NEW k \in Keys PROVE Visible(history'[k], rv) = Visible(history[k], rv)
    <3> DEFINE e == [version |-> version + 1, op |-> tx[u].writes[k]]
    <3>1. history'[k] = IF tx[u].writes[k] = None THEN history[k] ELSE Append(history[k], e)
      BY <1>5 DEF CommitSync, ApplyOps
    <3>2. CASE tx[u].writes[k] # None
      <4>1. tx[u].writes[k] \in Ops
        BY <3>2, <1>t, SMT DEF Tx, Writes
      <4>2. e \in Version /\ e.version > rv
        BY <4>1, <1>t, SMT DEF Version
      <4> HIDE DEF e
      <4> QED
        BY <3>1, <3>2, <4>2, <1>t, AppendInvisible, SMT
    <3>3. CASE tx[u].writes[k] = None
      BY <3>1, <3>3
    <3> QED
      BY <3>2, <3>3
  <2> QED
    BY <2>1, <2>2
<1>6. CASE CompactWrite \/ CompactTmpError
  BY <1>6, <1>p DEF CompactWrite, CompactTmpError
<1>7. CASE CompactRename \/ CompactRenameError \/ CompactReopen \/ CompactReopenError \/ Close
  BY <1>7 DEF CompactRename, CompactRenameError, CompactReopen, CompactReopenError, Close
<1>8. ~Crash
  BY ClosedTxTyped DEF Crash
<1>9. ~Open
  BY <1>t DEF Open
<1>10. CASE UNCHANGED vars
  BY <1>10 DEF vars
<1> QED
  BY <1>1, <1>2, <1>3, <1>4, <1>5, <1>6, <1>7, <1>8, <1>9, <1>10 DEF Next

\* Snapshot isolation of reads: what Tx.Get returns to an open transaction for
\* a key changes only when the transaction writes the key itself, whatever
\* other transactions commit, whatever Compact prunes, and whichever I/O call
\* fails.
THEOREM StableSnapshots == Spec => SnapshotStable
<1>1. IInv /\ [Next]_vars => [ReadsRepeat]_vars
  <2> SUFFICES ASSUME IInv, [Next]_vars, NEW t \in Txs, NEW k \in Keys,
                      tx[t].state # "closed", tx'[t].state # "closed",
                      tx'[t].writes[k] = tx[t].writes[k]
               PROVE  Get(t, k)' = Get(t, k)
    BY DEF ReadsRepeat
  <2>1. /\ tx'[t].readVersion = tx[t].readVersion
        /\ Visible(history'[k], tx[t].readVersion) = Visible(history[k], tx[t].readVersion)
    BY SnapshotKept
  <2> QED
    BY <2>1 DEF Get
<1>2. Spec => []IInv
  BY InitInv, NextInv, PTL DEF Spec
<1> QED
  BY <1>1, <1>2, PTL DEF Spec, SnapshotStable

-----------------------------------------------------------------------------
(* What replaying a file rebuilds. *)

\* Versions grow, in the chain of a key and in a file.
Ordered(s) == \A i, j \in 1..Len(s) : i < j => s[i].version < s[j].version

AllReadable(f) == \A i \in 1..Len(f) : Readable(f[i])

-----------------------------------------------------------------------------
(* Prefixes. *)

\* A file is built by appending its records one by one.
LEMMA PrefixAppend ==
  ASSUME NEW S, NEW s \in Seq(S), NEW n \in Nat, n + 1 <= Len(s)
  PROVE  /\ SubSeq(s, 1, n) \in Seq(S)
         /\ s[n + 1] \in S
         /\ SubSeq(s, 1, n + 1) = Append(SubSeq(s, 1, n), s[n + 1])
<1>1. Len(s) \in Nat /\ \A i \in 1..Len(s) : s[i] \in S
  BY SMT
<1>2. SubSeq(s, 1, n) \in Seq(S) /\ Len(SubSeq(s, 1, n)) = n
      /\ \A i \in 1..n : SubSeq(s, 1, n)[i] = s[i]
  <2>1. \A i \in 1..n : s[i] \in S
    BY <1>1, SMT
  <2> QED BY <2>1, SubSeqProperties, SMT
<1>3. SubSeq(s, 1, n + 1) \in Seq(S) /\ Len(SubSeq(s, 1, n + 1)) = n + 1
      /\ \A i \in 1..(n + 1) : SubSeq(s, 1, n + 1)[i] = s[i]
  <2>1. n + 1 \in Int /\ \A i \in 1..(n + 1) : s[i] \in S
    BY <1>1, SMT
  <2> QED BY <2>1, SubSeqProperties, SMT
<1>4. s[n + 1] \in S
  BY <1>1, SMT
<1> DEFINE p == SubSeq(s, 1, n)
           q == SubSeq(s, 1, n + 1)
           a == Append(p, s[n + 1])
<1> HIDE DEF p, q
<1>5. /\ a \in Seq(S) /\ Len(a) = n + 1 /\ a[n + 1] = s[n + 1]
      /\ \A i \in 1..n : a[i] = s[i]
  BY <1>2, <1>4, AppendProperties, SMT DEF p
<1> HIDE DEF a
<1>6. \A i \in 1..(n + 1) : a[i] = q[i]
  BY <1>3, <1>5, SMT DEF q
<1>7. q = a
  BY <1>3, <1>5, <1>6, SeqEqual DEF q
<1> QED BY <1>2, <1>4, <1>7 DEF p, q, a

\* The first n elements of a sequence.
LEMMA PrefixProperties ==
  ASSUME NEW S, NEW s \in Seq(S), NEW n \in 0..Len(s)
  PROVE  /\ SubSeq(s, 1, n) \in Seq(S)
         /\ Len(SubSeq(s, 1, n)) = n
         /\ \A i \in 1..n : SubSeq(s, 1, n)[i] = s[i]
<1>1. n \in Int /\ \A i \in 1..n : s[i] \in S
  BY SMT
<1> QED BY <1>1, SubSeqProperties, SMT

\* A version above all others goes at the end.
LEMMA AppendOrdered ==
  ASSUME NEW S, NEW s \in Seq(S), NEW e \in S, Ordered(s), NEW v \in Nat, Bounded(s, v),
         \A x \in S : x.version \in Nat, v < e.version
  PROVE  Ordered(Append(s, e))
<1> DEFINE a == Append(s, e)
<1>1. /\ Len(s) \in Nat /\ Len(a) = Len(s) + 1 /\ a[Len(s) + 1] = e
      /\ \A i \in 1..Len(s) : a[i] = s[i] /\ s[i] \in S
  BY AppendProperties, SMT
<1> HIDE DEF a
<1>2. ASSUME NEW i \in 1..Len(a), NEW j \in 1..Len(a), i < j PROVE a[i].version < a[j].version
  <2>1. i \in 1..Len(s) /\ a[i] = s[i] /\ s[i].version \in Nat /\ s[i].version <= v
    BY <1>1, <1>2, SMT DEF Bounded
  <2>2. CASE j = Len(s) + 1
    <3>1. e.version \in Nat
      OBVIOUS
    <3> QED BY <1>1, <2>1, <2>2, <3>1, SMT
  <2>3. CASE j \in 1..Len(s)
    BY <1>1, <1>2, <2>1, <2>3 DEF Ordered
  <2> QED BY <1>1, <2>2, <2>3, SMT
<1> QED BY <1>2 DEF Ordered, a

\* The fields of a record.
LEMMA FrameTyped == \A rec \in Frame : rec.version \in Nat /\ rec.ops \in Writes /\ rec.whole \in BOOLEAN
BY DEF Frame

\* The fields of a version.
LEMMA VersionTyped == \A e \in Version : e.version \in Nat /\ e.op \in Ops
BY DEF Version

-----------------------------------------------------------------------------
(* What the newest snapshot sees. *)

\* A key without versions is not found.
LEMMA VisibleEmpty ==
  ASSUME NEW rv \in Nat
  PROVE  Visible(<<>>, rv) = None
<1>1. <<>> \in Seq(Version) /\ IsBase(0, <<>>, rv)
  BY SMT DEF IsBase
<1>2. BaseIdx(<<>>, rv) = 0
  BY <1>1, BaseIdxUnique
<1> QED BY <1>2 DEF Visible

\* A snapshot at or above every version sees the last one.
LEMMA VisibleLast ==
  ASSUME NEW versions \in Seq(Version), NEW v \in Nat, Bounded(versions, v)
  PROVE  Visible(versions, v) =
            IF Len(versions) = 0 \/ versions[Len(versions)].op = Delete THEN None
            ELSE versions[Len(versions)].op
<1>1. IsBase(Len(versions), versions, v)
  BY VersionsTyped, SMT DEF IsBase, Bounded
<1>2. BaseIdx(versions, v) = Len(versions)
  BY <1>1, BaseIdxUnique
<1> QED BY <1>2 DEF Visible

\* Snapshots above every version see the same.
LEMMA VisibleLater ==
  ASSUME NEW versions \in Seq(Version), NEW u \in Nat, NEW v \in Nat, Bounded(versions, u), u <= v
  PROVE  Visible(versions, v) = Visible(versions, u)
<1>1. Bounded(versions, v)
  BY VersionsTyped, SMT DEF Bounded
<1> QED BY <1>1, VisibleLast

\* A snapshot at the version just appended sees it.
LEMMA VisibleAppended ==
  ASSUME NEW versions \in Seq(Version), NEW e \in Version, NEW v \in Nat, e.version = v,
         Bounded(versions, v)
  PROVE  Visible(Append(versions, e), v) = IF e.op = Delete THEN None ELSE e.op
<1> DEFINE a == Append(versions, e)
<1>1. /\ a \in Seq(Version) /\ Len(a) = Len(versions) + 1 /\ a[Len(a)] = e /\ Len(versions) \in Nat
      /\ \A i \in 1..Len(versions) : a[i] = versions[i]
  BY AppendProperties, SMT
<1> HIDE DEF a
<1>2. Bounded(a, v)
  BY <1>1, SMT DEF Bounded
<1>3. Len(a) # 0
  BY <1>1, SMT
<1> QED BY <1>1, <1>2, <1>3, VisibleLast DEF a

\* Two memories with the same committed store have the same one after the same
\* commit.
LEMMA StoreApply ==
  ASSUME NEW g \in [Keys -> Seq(Version)], NEW h \in [Keys -> Seq(Version)], NEW v \in Nat,
         \A k \in Keys : Bounded(g[k], v) /\ Bounded(h[k], v),
         Store(g, v) = Store(h, v), NEW ops \in Writes
  PROVE  Store(ApplyOps(g, v + 1, ops), v + 1) = Store(ApplyOps(h, v + 1, ops), v + 1)
<1> SUFFICES ASSUME NEW k \in Keys
             PROVE  Visible(ApplyOps(g, v + 1, ops)[k], v + 1)
                      = Visible(ApplyOps(h, v + 1, ops)[k], v + 1)
  BY DEF Store
<1>1. Visible(g[k], v) = Visible(h[k], v)
  <2>1. Store(g, v)[k] = Visible(g[k], v) /\ Store(h, v)[k] = Visible(h[k], v)
    BY DEF Store
  <2> QED BY <2>1
<1>2. v + 1 \in Nat /\ v <= v + 1 /\ g[k] \in Seq(Version) /\ h[k] \in Seq(Version)
  BY SMT
<1>3. CASE ops[k] = None
  <2>1. ApplyOps(g, v + 1, ops)[k] = g[k] /\ ApplyOps(h, v + 1, ops)[k] = h[k]
    BY <1>3 DEF ApplyOps
  <2> QED BY <1>1, <1>2, <2>1, VisibleLater, SMT
<1>4. CASE ops[k] # None
  <2> DEFINE e == [version |-> v + 1, op |-> ops[k]]
  <2>1. /\ ApplyOps(g, v + 1, ops)[k] = Append(g[k], e)
        /\ ApplyOps(h, v + 1, ops)[k] = Append(h[k], e)
    BY <1>4 DEF ApplyOps
  <2>2. e \in Version /\ e.version = v + 1
    BY <1>2, <1>4 DEF Version, Writes
  <2> HIDE DEF e
  <2>3. Bounded(g[k], v + 1) /\ Bounded(h[k], v + 1)
    BY VersionsTyped, SMT DEF Bounded
  <2>4. Visible(Append(g[k], e), v + 1) = IF e.op = Delete THEN None ELSE e.op
    BY <1>2, <2>2, <2>3, VisibleAppended
  <2>5. Visible(Append(h[k], e), v + 1) = IF e.op = Delete THEN None ELSE e.op
    BY <1>2, <2>2, <2>3, VisibleAppended
  <2> QED BY <2>1, <2>4, <2>5
<1> QED BY <1>3, <1>4

-----------------------------------------------------------------------------
(* What a replay rebuilds. *)

\* Before the first record.
LEMMA ReplayNothing ==
  ASSUME NEW f
  PROVE  /\ SubSeq(f, 1, 0) = <<>>
         /\ Replay(SubSeq(f, 1, 0)).version = 0
         /\ \A k \in Keys : Replay(SubSeq(f, 1, 0)).history[k] = <<>>
<1>1. SubSeq(f, 1, 0) = <<>>
  BY SubSeqEmpty, SMT
<1>2. Replay(SubSeq(f, 1, 0)) = Fresh
  BY <1>1, ReplayEmpty
<1>3. Fresh.version = 0 /\ \A k \in Keys : Fresh.history[k] = <<>>
  BY DEF Fresh, NoHistory
<1> QED BY <1>1, <1>2, <1>3

\* One more record.
LEMMA ReplayPrefix ==
  ASSUME NEW f \in Seq(Frame), NEW n \in Nat, n + 1 <= Len(f)
  PROVE  /\ Replay(SubSeq(f, 1, n + 1)).version
               = Larger(Replay(SubSeq(f, 1, n)).version, f[n + 1].version)
         /\ \A k \in Keys :
               Replay(SubSeq(f, 1, n + 1)).history[k]
                  = IF f[n + 1].ops[k] = None THEN Replay(SubSeq(f, 1, n)).history[k]
                    ELSE Append(Replay(SubSeq(f, 1, n)).history[k],
                                [version |-> f[n + 1].version, op |-> f[n + 1].ops[k]])
<1>1. /\ SubSeq(f, 1, n) \in Seq(Frame) /\ f[n + 1] \in Frame
      /\ SubSeq(f, 1, n + 1) = Append(SubSeq(f, 1, n), f[n + 1])
  BY PrefixAppend
<1>2. Replay(SubSeq(f, 1, n + 1)) = Apply(Replay(SubSeq(f, 1, n)), f[n + 1])
  BY <1>1, ReplayAppend
<1>3. ASSUME NEW r, NEW rec
      PROVE  /\ Apply(r, rec).version = Larger(r.version, rec.version)
             /\ \A k \in Keys : Apply(r, rec).history[k]
                    = IF rec.ops[k] = None THEN r.history[k]
                      ELSE Append(r.history[k], [version |-> rec.version, op |-> rec.ops[k]])
  BY DEF Apply, ApplyOps
<1> QED BY <1>2, <1>3, SMT

\* The version after a replay is the largest in the file, or 0.
LEMMA ReplayVersion ==
  ASSUME NEW f \in Seq(Frame)
  PROVE  /\ Bounded(f, Replay(f).version)
         /\ \A v \in Nat : Bounded(f, v) => Replay(f).version <= v
<1> DEFINE p(n) == SubSeq(f, 1, n)
           Largest(n) == /\ Bounded(p(n), Replay(p(n)).version)
                         /\ \A v \in Nat : Bounded(p(n), v) => Replay(p(n)).version <= v
           Q == {n \in Nat : n <= Len(f) => Largest(n)}
<1>1. 0 \in Q
  <2>1. p(0) = <<>> /\ Replay(p(0)).version = 0
    BY ReplayNothing
  <2>2. Largest(0)
    BY <2>1, SMT DEF Bounded
  <2> QED BY <2>2
<1>2. ASSUME NEW n \in Q PROVE n + 1 \in Q
  <2> SUFFICES ASSUME n + 1 <= Len(f) PROVE Largest(n + 1)
    BY SMT
  <2>1. Largest(n)
    BY LenProperties, SMT
  <2>2. p(n) \in Seq(Frame) /\ f[n + 1] \in Frame /\ p(n + 1) = Append(p(n), f[n + 1])
    BY PrefixAppend
  <2> DEFINE q == p(n)
             rec == f[n + 1]
  <2> HIDE DEF q, rec
  <2>3. /\ q \in Seq(Frame) /\ rec \in Frame /\ p(n + 1) = Append(q, rec) /\ rec.version \in Nat
        /\ Bounded(q, Replay(q).version)
        /\ \A v \in Nat : Bounded(q, v) => Replay(q).version <= v
    BY <2>1, <2>2, FrameTyped DEF q, rec
  <2>4. Replay(p(n + 1)).version = Larger(Replay(q).version, rec.version)
    BY ReplayPrefix DEF q, rec
  <2>5. Replay(q).version \in Nat
    BY <2>3, ReplayGood DEF GoodState
  <2> DEFINE a == Append(q, rec)
  <2>6. /\ Len(q) \in Nat /\ Len(a) = Len(q) + 1 /\ a[Len(q) + 1] = rec
        /\ \A i \in 1..Len(q) : a[i] = q[i] /\ q[i].version \in Nat
    BY <2>3, AppendProperties, FrameTyped, SMT
  <2> HIDE DEF a
  <2>7. \A v \in Nat : Bounded(a, v) <=> (Bounded(q, v) /\ rec.version <= v)
    <3> SUFFICES ASSUME NEW v \in Nat PROVE Bounded(a, v) <=> (Bounded(q, v) /\ rec.version <= v)
      OBVIOUS
    <3>1. /\ \A i \in 1..Len(q) : i \in 1..Len(a)
          /\ Len(q) + 1 \in 1..Len(a)
          /\ \A i \in 1..Len(a) : i \in 1..Len(q) \/ i = Len(q) + 1
      BY <2>6, SMT
    <3> QED BY <2>6, <3>1 DEF Bounded
  <2>8. \A u \in Nat, v \in Nat : Bounded(q, u) /\ u <= v => Bounded(q, v)
    BY <2>6, SMT DEF Bounded
  <2>9. p(n + 1) = a
    BY <2>3 DEF a
  <2> DEFINE w == Replay(p(n + 1)).version
  <2> HIDE DEF w
  <2>10. w \in Nat /\ Replay(q).version <= w /\ rec.version <= w
         /\ w \in {Replay(q).version, rec.version}
    BY <2>3, <2>4, <2>5, SMT DEF Larger, w
  <2>11. Bounded(a, w)
    BY <2>3, <2>5, <2>7, <2>8, <2>10
  <2>12. \A v \in Nat : Bounded(a, v) => w <= v
    BY <2>3, <2>7, <2>10
  <2> QED BY <2>9, <2>11, <2>12 DEF w
<1>3. Q = Nat
  <2>1. Q \in SUBSET Nat
    OBVIOUS
  <2> HIDE DEF Q
  <2> QED BY <1>1, <1>2, <2>1, NatInd
<1>4. Len(f) \in Nat /\ p(Len(f)) = f
  BY SubSeqFull, SMT
<1>5. Largest(Len(f))
  BY <1>3, <1>4, SMT
<1> QED BY <1>4, <1>5

\* Every version a replay rebuilds is at or below the versions in the file.
LEMMA ReplayBounded ==
  ASSUME NEW f \in Seq(Frame), NEW v \in Nat, Bounded(f, v)
  PROVE  /\ Replay(f).history \in [Keys -> Seq(Version)]
         /\ Replay(f).version \in Nat /\ Replay(f).version <= v
         /\ \A k \in Keys : Bounded(Replay(f).history[k], v)
<1>1. Replay(f).version <= v
  BY ReplayVersion
<1>2. GoodState(Replay(f))
  BY ReplayGood
<1>3. ASSUME NEW k \in Keys PROVE Bounded(Replay(f).history[k], v)
  <2> DEFINE c == Replay(f).history[k]
             w == Replay(f).version
  <2>1. c \in Seq(Version) /\ Bounded(c, w) /\ w \in Nat /\ w <= v
    BY <1>1, <1>2 DEF GoodState
  <2> HIDE DEF c, w
  <2>2. Bounded(c, v)
    BY <2>1, VersionsTyped, SMT DEF Bounded
  <2> QED BY <2>2 DEF c
<1> QED BY <1>1, <1>2, <1>3 DEF GoodState

\* Open rebuilds ordered chains from an ordered file.
LEMMA ReplayOrdered ==
  ASSUME NEW f \in Seq(Frame), Ordered(f)
  PROVE  \A k \in Keys : Ordered(Replay(f).history[k])
<1> DEFINE p(n) == SubSeq(f, 1, n)
           Sorted(n) == \A k \in Keys : Ordered(Replay(p(n)).history[k])
           Q == {n \in Nat : n <= Len(f) => Sorted(n)}
<1>1. 0 \in Q
  <2>1. \A k \in Keys : Replay(p(0)).history[k] = <<>>
    BY ReplayNothing
  <2>2. Sorted(0)
    BY <2>1, SMT DEF Ordered
  <2> QED BY <2>2
<1>2. ASSUME NEW n \in Q PROVE n + 1 \in Q
  <2> SUFFICES ASSUME n + 1 <= Len(f), NEW k \in Keys PROVE Ordered(Replay(p(n + 1)).history[k])
    BY SMT
  <2>1. Ordered(Replay(p(n)).history[k])
    BY LenProperties, SMT
  <2>2. p(n) \in Seq(Frame) /\ f[n + 1] \in Frame /\ p(n + 1) = Append(p(n), f[n + 1])
    BY PrefixAppend
  <2> DEFINE q == p(n)
             rec == f[n + 1]
             v == rec.version - 1
  <2>3. n \in 0..Len(f) /\ Len(q) = n /\ \A i \in 1..n : q[i] = f[i] /\ f[i] \in Frame
    <3>1. n \in 0..Len(f)
      BY LenProperties, SMT
    <3> QED BY <3>1, PrefixProperties, LenProperties, SMT
  <2>4. rec.version \in Nat /\ rec.ops \in Writes /\ \A i \in 1..n : q[i].version \in Nat
    BY <2>2, <2>3, FrameTyped
  <2>5. \A i \in 1..n : q[i].version < rec.version
    BY <2>3, LenProperties, SMT DEF Ordered
  <2> HIDE DEF q, rec
  <2>6. CASE n = 0
    <3>2. Replay(q).history[k] = <<>>
      BY <2>6, ReplayNothing DEF q
    <3>3. Replay(p(n + 1)).history[k] = IF rec.ops[k] = None THEN <<>>
                                        ELSE Append(<<>>, [version |-> rec.version, op |-> rec.ops[k]])
      BY <3>2, ReplayPrefix DEF q, rec
    <3> QED BY <3>3, SMT DEF Ordered
  <2>7. CASE n # 0
    <3>1. v \in Nat /\ Bounded(q, v)
      BY <2>3, <2>4, <2>5, <2>7, SMT DEF Bounded
    <3> DEFINE c == Replay(q).history[k]
               e == [version |-> rec.version, op |-> rec.ops[k]]
    <3>2. c \in Seq(Version) /\ Bounded(c, v) /\ Ordered(c)
      BY <2>1, <2>2, <3>1, ReplayBounded DEF q
    <3>3. Replay(p(n + 1)).history[k] = IF rec.ops[k] = None THEN c ELSE Append(c, e)
      BY ReplayPrefix DEF q, rec
    <3>4. CASE rec.ops[k] # None
      <4>1. e \in Version /\ e.version = rec.version
        BY <2>4, <3>4 DEF Version, Writes
      <4> HIDE DEF c, e
      <4>2. Ordered(Append(c, e))
        <5>1. v < e.version
          BY <2>4, <4>1, SMT
        <5> QED BY <3>1, <3>2, <4>1, <5>1, AppendOrdered, VersionTyped
      <4> QED BY <3>3, <3>4, <4>2
    <3> QED BY <3>2, <3>3, <3>4
  <2> QED BY <2>6, <2>7
<1>3. Q = Nat
  <2>1. Q \in SUBSET Nat
    OBVIOUS
  <2> HIDE DEF Q
  <2> QED BY <1>1, <1>2, <2>1, NatInd
<1>4. Len(f) \in Nat /\ p(Len(f)) = f
  BY SubSeqFull, SMT
<1>5. Sorted(Len(f))
  BY <1>3, <1>4, SMT
<1> QED BY <1>4, <1>5

\* Replay rejects nothing in a file of readable records, and what it keeps of
\* any file is readable and as ordered as the file was.
LEMMA GoodPrefixKeeps ==
  ASSUME NEW f \in Seq(Frame)
  PROVE  /\ AllReadable(f) => GoodPrefix(f) = f
         /\ AllReadable(GoodPrefix(f))
         /\ Ordered(f) => Ordered(GoodPrefix(f))
<1> DEFINE I == {i \in 1..Len(f) : ~Readable(f[i])}
<1>1. GoodPrefix(f) = IF I = {} THEN f ELSE SubSeq(f, 1, Least(I) - 1)
  BY DEF GoodPrefix
<1>2. CASE I = {}
  <2>1. GoodPrefix(f) = f
    BY <1>1, <1>2
  <2>2. AllReadable(f)
    BY <1>2 DEF AllReadable
  <2> QED BY <2>1, <2>2
<1>3. CASE I # {}
  <2>1. I \in SUBSET Nat
    BY SMT
  <2>2. \E n \in I : \A m \in I : n <= m
    BY <2>1, <1>3, NatLeast
  <2>3. Least(I) \in I /\ \A m \in I : Least(I) <= m
    BY <2>2 DEF Least
  <2> DEFINE m == Least(I)
             n == m - 1
             p == SubSeq(f, 1, n)
  <2> HIDE DEF m
  <2>4. n \in 0..Len(f) /\ m # 0 /\ \A i \in 1..n : Readable(f[i])
    <3>1. m \in 1..Len(f) /\ \A i \in 1..Len(f) : ~Readable(f[i]) => m <= i
      BY <2>3 DEF m
    <3> QED BY <3>1, LenProperties, SMT
  <2>5. GoodPrefix(f) = p
    BY <1>1, <1>3, <2>4 DEF m
  <2>6. ~AllReadable(f)
    BY <2>3 DEF AllReadable
  <2> HIDE DEF n, I
  <2>7. Len(p) = n /\ \A i \in 1..n : p[i] = f[i]
    BY <2>4, PrefixProperties
  <2> HIDE DEF p
  <2>8. AllReadable(p)
    BY <2>4, <2>7 DEF AllReadable
  <2>9. Ordered(f) => Ordered(p)
    BY <2>4, <2>7, LenProperties, SMT DEF Ordered
  <2> QED BY <2>5, <2>6, <2>8, <2>9
<1> QED BY <1>2, <1>3

-----------------------------------------------------------------------------
(* What Compact writes. *)

\* Pruning keeps a suffix, in order.
LEMMA PruneOrdered ==
  ASSUME NEW versions \in Seq(Version), NEW retain \in Nat, Ordered(versions)
  PROVE  Ordered(PruneVersions(versions, retain))
<1> DEFINE b == BaseIdx(versions, retain)
           n == Len(versions)
           kept == SubSeq(versions, b, n)
<1>1. b \in 0..n /\ n \in Nat
  BY BaseIdxIsBase, VersionsTyped DEF IsBase
<1>2. PruneVersions(versions, retain) \in {versions, <<>>} \/
        (b # 0 /\ PruneVersions(versions, retain) = kept)
  BY DEF PruneVersions
<1> HIDE DEF b
<1>3. Ordered(<<>>)
  BY SMT DEF Ordered
<1>4. ASSUME b # 0 PROVE Ordered(kept)
  <2>1. b \in 1..n /\ \A i \in b..n : versions[i] \in Version
    BY <1>1, <1>4, VersionsTyped, SMT
  <2>2. /\ Len(kept) = n - b + 1
        /\ \A i \in 1..(n - b + 1) : kept[i] = versions[b + i - 1]
    BY <1>1, <2>1, SubSeqProperties, SMT
  <2> HIDE DEF kept
  <2>3. ASSUME NEW i \in 1..Len(kept), NEW j \in 1..Len(kept), i < j
        PROVE  kept[i].version < kept[j].version
    <3>1. b + i - 1 \in 1..n /\ b + j - 1 \in 1..n /\ b + i - 1 < b + j - 1
      BY <1>1, <2>1, <2>2, <2>3, SMT
    <3>2. versions[b + i - 1].version < versions[b + j - 1].version
      BY <3>1 DEF Ordered
    <3> QED BY <1>1, <2>1, <2>2, <3>2, SMT
  <2> QED BY <2>3 DEF Ordered
<1> QED BY <1>2, <1>3, <1>4

-----------------------------------------------------------------------------
(* Compact's rewritten file. *)

\* A record of any keys is of an admissible size.  Without it a rewritten
\* record may be one that replay rejects.
RecordsFit == \A K \in SUBSET Keys : Cardinality(K) <= MaxRecordOps

\* File f answers every snapshot from oldest to v as history h does.
Image(f, v, h, oldest) ==
    /\ Ordered(f) /\ AllReadable(f) /\ Bounded(f, v)
    /\ \A rv \in oldest..v : Store(Replay(f).history, rv) = Store(h, rv)

\* Replay accepts every record that is written whole.
LEMMA RecordReadable ==
  ASSUME RecordsFit, NEW v, NEW ops
  PROVE  Readable(Record(v, ops))
<1> DEFINE rec == Record(v, ops)
<1>1. rec.whole = TRUE
  BY DEF Record
<1>2. Written(rec.ops) \in SUBSET Keys
  BY DEF Written
<1> HIDE DEF rec
<1> QED BY <1>1, <1>2 DEF Readable, RecordsFit, rec

-----------------------------------------------------------------------------
(* One record per retained version. *)

\* The records of g are the versions of h, grouped by version.
Grouping(g, h) ==
    /\ \A k \in Keys, i \in 1..Len(g) :
          IF g[i].ops[k] = None THEN \A j \in 1..Len(h[k]) : h[k][j].version # g[i].version
          ELSE \E j \in 1..Len(h[k]) : h[k][j].version = g[i].version /\ h[k][j].op = g[i].ops[k]
    /\ \A k \in Keys : \A j \in 1..Len(h[k]) : \E i \in 1..Len(g) : g[i].version = h[k][j].version

\* The else branch of compactRecords: its records hold every version once, in
\* ascending order.
LEMMA GroupRecordsGroup ==
  ASSUME NEW h \in [Keys -> Seq(Version)], NEW v \in Nat, \A k \in Keys : Bounded(h[k], v)
  PROVE  /\ GroupRecords(h, v) \in Seq(Frame) /\ Grouping(GroupRecords(h, v), h)
         /\ Ordered(GroupRecords(h, v)) /\ Bounded(GroupRecords(h, v), v)
         /\ RecordsFit => AllReadable(GroupRecords(h, v))
<1> DEFINE S == VersionsIn(h)
           versions == Ascending(S, v + 1)
           opAt(k, w) == OpAt(h[k], w)
<1>1. \A k \in Keys : \A j \in 1..Len(h[k]) : h[k][j].version \in S
  BY LenProperties, SMT DEF VersionsIn
<1>2. S \in SUBSET (0..v)
  <2> SUFFICES ASSUME NEW k \in Keys, NEW i \in 1..Len(h[k]) PROVE h[k][i].version \in 0..v
    BY SMT DEF VersionsIn
  <2> QED BY VersionsTyped, SMT DEF Bounded
<1> HIDE DEF S
<1>3. Listing(versions, S, v + 1)
  BY <1>2, AscendingLists
<1> HIDE DEF versions
<1>4. PICK c \in 0..(v + 1) : versions \in [1..c -> S] /\ IsAscending(versions, S)
  BY <1>3 DEF Listing
<1>5. c \in Nat /\ DOMAIN versions = 1..c /\ \A x \in S : \E i \in 1..c : versions[i] = x
  BY <1>4, SMT DEF IsAscending
<1>6. /\ \A i \in 1..c : versions[i] \in S
      /\ \A i, j \in 1..c : i < j => versions[i] < versions[j]
  BY <1>4, <1>5 DEF IsAscending
<1>7. \A i \in 1..c : versions[i] \in Nat /\ versions[i] <= v
  <2>1. \A x \in S : x \in Nat /\ x <= v
    BY <1>2, SMT
  <2> QED BY <2>1, <1>6
<1>8. ASSUME NEW k \in Keys, NEW w \in Nat
      PROVE  \/ opAt(k, w) = None /\ \A j \in 1..Len(h[k]) : h[k][j].version # w
             \/ /\ opAt(k, w) \in Ops
                /\ \E j \in 1..Len(h[k]) : h[k][j].version = w /\ h[k][j].op = opAt(k, w)
  BY OpAtIs
<1> DEFINE row(w) == [k \in Keys |-> opAt(k, w)]
           rec(i) == Record(versions[i], row(versions[i]))
           g == GroupRecords(h, v)
<1>9. g = [i \in 1..c |-> rec(i)]
  BY <1>5 DEF GroupRecords, versions, S
<1> HIDE DEF opAt, g
<1>10. ASSUME NEW w \in Nat PROVE row(w) \in Writes
  BY <1>8 DEF Writes
<1>11. ASSUME NEW i \in 1..c
       PROVE  /\ rec(i) \in Frame /\ rec(i).version = versions[i]
              /\ \A k \in Keys : rec(i).ops[k] = opAt(k, versions[i])
  BY <1>7, <1>10, RecordTyped DEF Record
<1> HIDE DEF rec
<1>12. g \in Seq(Frame) /\ Len(g) = c /\ \A i \in 1..c : g[i] = rec(i)
  BY <1>5, <1>9, <1>11, SMT
<1>13. Grouping(g, h)
  <2>1. ASSUME NEW k \in Keys, NEW i \in 1..c
        PROVE  IF g[i].ops[k] = None THEN \A j \in 1..Len(h[k]) : h[k][j].version # g[i].version
               ELSE \E j \in 1..Len(h[k]) : h[k][j].version = g[i].version /\ h[k][j].op = g[i].ops[k]
    <3>1. g[i].version = versions[i] /\ g[i].ops[k] = opAt(k, versions[i]) /\ versions[i] \in Nat
      BY <1>7, <1>11, <1>12
    <3> DEFINE w == versions[i]
               op == opAt(k, w)
    <3> HIDE DEF w, op
    <3>2. \/ op = None /\ \A j \in 1..Len(h[k]) : h[k][j].version # w
          \/ op \in Ops /\ \E j \in 1..Len(h[k]) : h[k][j].version = w /\ h[k][j].op = op
      BY <1>8, <3>1 DEF w, op
    <3>3. g[i].version = w /\ g[i].ops[k] = op
      BY <3>1 DEF w, op
    <3> QED BY <3>2, <3>3, SentinelsDistinct
  <2>2. ASSUME NEW k \in Keys, NEW j \in 1..Len(h[k])
        PROVE  \E i \in 1..c : g[i].version = h[k][j].version
    <3>1. PICK i \in 1..c : versions[i] = h[k][j].version
      BY <1>1, <1>5, <2>2
    <3>2. g[i].version = versions[i]
      BY <1>11, <1>12
    <3> QED BY <3>1, <3>2
  <2> QED BY <1>12, <2>1, <2>2 DEF Grouping
<1>14. Ordered(g) /\ Bounded(g, v)
  <2>1. Len(g) = c /\ \A i \in 1..c : g[i].version = versions[i]
    BY <1>11, <1>12
  <2> QED BY <1>6, <1>7, <2>1 DEF Ordered, Bounded
<1>15. RecordsFit => AllReadable(g)
  BY <1>12, RecordReadable DEF AllReadable, rec
<1> QED BY <1>12, <1>13, <1>14, <1>15 DEF g

\* After n records a replay has rebuilt the first m versions of a chain: those
\* the n records hold.
Rebuilt(g, c, n, m) ==
    \A i \in 1..Len(g), j \in 1..Len(c) : c[j].version = g[i].version => (j <= m <=> i <= n)

\* One more record rebuilds the next version of a chain, or leaves it.
LEMMA GroupStep ==
  ASSUME NEW g \in Seq(Frame), NEW h \in [Keys -> Seq(Version)], Grouping(g, h), Ordered(g),
         NEW k \in Keys, Ordered(h[k]), NEW n \in Nat, n + 1 <= Len(g),
         NEW m \in 0..Len(h[k]), Rebuilt(g, h[k], n, m)
  PROVE  \/ g[n + 1].ops[k] = None /\ Rebuilt(g, h[k], n + 1, m)
         \/ /\ g[n + 1].ops[k] # None /\ m + 1 <= Len(h[k])
            /\ h[k][m + 1] = [version |-> g[n + 1].version, op |-> g[n + 1].ops[k]]
            /\ Rebuilt(g, h[k], n + 1, m + 1)
<1> DEFINE c == h[k]
           rec == g[n + 1]
<1>1. /\ Len(g) \in Nat /\ \A i \in 1..Len(g) : g[i].version \in Nat
      /\ Len(c) \in Nat /\ \A j \in 1..Len(c) : c[j] \in Version /\ c[j].version \in Nat
  BY FrameTyped, VersionsTyped, LenProperties
<1>2. /\ IF rec.ops[k] = None THEN \A j \in 1..Len(c) : c[j].version # rec.version
         ELSE \E j \in 1..Len(c) : c[j].version = rec.version /\ c[j].op = rec.ops[k]
      /\ \A j \in 1..Len(c) : \E i \in 1..Len(g) : g[i].version = c[j].version
  <2>1. n + 1 \in 1..Len(g)
    BY <1>1, SMT
  <2> QED BY <2>1 DEF Grouping
<1>3. /\ \A i \in 1..Len(g) : g[i].version = rec.version => i = n + 1
      /\ \A i \in 1..Len(g) : g[i].version < rec.version => i <= n
  <2> SUFFICES ASSUME NEW i \in 1..Len(g)
               PROVE  /\ g[i].version = rec.version => i = n + 1
                      /\ g[i].version < rec.version => i <= n
    OBVIOUS
  <2>1. n + 1 \in 1..Len(g) /\ (i = n + 1 \/ i < n + 1 \/ n + 1 < i)
    BY <1>1, SMT
  <2>2. /\ i < n + 1 => g[i].version < rec.version
        /\ n + 1 < i => rec.version < g[i].version
    BY <2>1 DEF Ordered
  <2>3. g[i].version \in Nat /\ rec.version \in Nat /\ i \in Nat
    BY <1>1, <2>1, SMT
  <2> DEFINE x == g[i].version
             y == rec.version
  <2> HIDE DEF x, y
  <2>4. /\ x \in Nat /\ y \in Nat /\ i \in Nat /\ (i = n + 1 \/ i < n + 1 \/ n + 1 < i)
        /\ i < n + 1 => x < y
        /\ n + 1 < i => y < x
    BY <2>1, <2>2, <2>3 DEF x, y
  <2>5. (x = y => i = n + 1) /\ (x < y => i <= n \/ i = n + 1)
    BY <2>4, SMT
  <2>6. i = n + 1 => x = y
    BY DEF x, y
  <2>7. ~(x < y /\ x = y)
    BY <2>4, SMT
  <2> QED BY <2>5, <2>6, <2>7 DEF x, y
<1>4. Ordered(c) /\ Rebuilt(g, c, n, m) /\ m \in 0..Len(c)
  OBVIOUS
<1> HIDE DEF c
<1>5. CASE rec.ops[k] = None
  <2>1. \A j \in 1..Len(c) : c[j].version # rec.version
    BY <1>2, <1>5
  <2>2. ASSUME NEW i \in 1..Len(g), NEW j \in 1..Len(c), c[j].version = g[i].version
        PROVE  j <= m <=> i <= n + 1
    <3>1. i # n + 1
      BY <2>1, <2>2
    <3>2. j <= m <=> i <= n
      BY <1>4, <2>2 DEF Rebuilt
    <3> QED BY <1>1, <3>1, <3>2, SMT
  <2>3. Rebuilt(g, c, n + 1, m)
    BY <2>2 DEF Rebuilt
  <2> QED BY <1>5, <2>3 DEF c
<1>6. CASE rec.ops[k] # None
  <2>1. PICK j \in 1..Len(c) : c[j].version = rec.version /\ c[j].op = rec.ops[k]
    BY <1>2, <1>6
  <2>2. j > m
    <3>1. n + 1 \in 1..Len(g)
      BY <1>1, SMT
    <3>2. j <= m <=> n + 1 <= n
      BY <1>4, <2>1, <3>1 DEF Rebuilt
    <3> QED BY <1>1, <1>4, <3>2, SMT
  <2>3. j = m + 1
    <3> SUFFICES ASSUME m + 1 < j PROVE FALSE
      BY <1>4, <2>2, SMT
    <3>1. m + 1 \in 1..Len(c) /\ c[m + 1].version < rec.version
      BY <1>1, <1>4, <2>1, SMT DEF Ordered
    <3>2. PICK i \in 1..Len(g) : g[i].version = c[m + 1].version
      BY <1>2, <3>1
    <3>3. i <= n
      BY <1>3, <3>1, <3>2
    <3>4. m + 1 <= m
      BY <1>4, <3>1, <3>2, <3>3 DEF Rebuilt
    <3> QED BY <1>4, <3>4, SMT
  <2>4. c[m + 1] = [version |-> rec.version, op |-> rec.ops[k]]
    <3>1. c[m + 1] \in Version /\ c[m + 1].version = rec.version /\ c[m + 1].op = rec.ops[k]
      BY <1>1, <2>1, <2>3
    <3> QED BY <3>1 DEF Version
  <2>5. \A x \in 1..Len(c) : c[x].version = rec.version => x = m + 1
    BY <1>1, <1>4, <2>1, <2>3, SMT DEF Ordered
  <2>6. Rebuilt(g, c, n + 1, m + 1)
    <3> SUFFICES ASSUME NEW i \in 1..Len(g), NEW x \in 1..Len(c), c[x].version = g[i].version
                 PROVE  x <= m + 1 <=> i <= n + 1
      BY DEF Rebuilt
    <3>1. x <= m <=> i <= n
      BY <1>4 DEF Rebuilt
    <3>2. x = m + 1 <=> i = n + 1
      BY <1>3, <2>1, <2>3, <2>5
    <3> QED BY <1>1, <1>4, <3>1, <3>2, SMT
  <2> QED BY <1>4, <1>6, <2>3, <2>4, <2>6, SMT DEF c
<1> QED BY <1>5, <1>6

\* Replaying the grouped records rebuilds the history they were made from.
LEMMA GroupReplay ==
  ASSUME NEW g \in Seq(Frame), NEW h \in [Keys -> Seq(Version)], Grouping(g, h), Ordered(g),
         \A k \in Keys : Ordered(h[k])
  PROVE  Replay(g).history = h
<1> SUFFICES ASSUME NEW k \in Keys PROVE Replay(g).history[k] = h[k]
  <2>1. Replay(g).history \in [Keys -> Seq(Version)]
    BY ReplayGood DEF GoodState
  <2> QED BY <2>1, SMT
<1> DEFINE c == h[k]
           chain(n) == Replay(SubSeq(g, 1, n)).history[k]
           P(n, m) == chain(n) = SubSeq(c, 1, m) /\ Rebuilt(g, c, n, m)
           Q == {n \in Nat : n <= Len(g) => \E m \in 0..Len(c) : P(n, m)}
<1>1. c \in Seq(Version) /\ Len(c) \in Nat /\ Len(g) \in Nat
  BY LenProperties
<1>2. 0 \in Q
  <2>1. chain(0) = <<>> /\ SubSeq(c, 1, 0) = <<>>
    BY ReplayNothing
  <2>2. Rebuilt(g, c, 0, 0)
    BY <1>1, SMT DEF Rebuilt
  <2> HIDE DEF chain, c
  <2>3. P(0, 0)
    BY <2>1, <2>2
  <2>4. 0 \in 0..Len(c)
    BY <1>1, SMT
  <2> QED BY <2>3, <2>4
<1>3. ASSUME NEW n \in Q PROVE n + 1 \in Q
  <2> SUFFICES ASSUME n + 1 <= Len(g) PROVE \E m \in 0..Len(c) : P(n + 1, m)
    BY SMT
  <2>1. PICK m \in 0..Len(c) : P(n, m)
    BY <1>1, SMT
  <2> DEFINE rec == g[n + 1]
             e == [version |-> rec.version, op |-> rec.ops[k]]
  <2>2. chain(n + 1) = IF rec.ops[k] = None THEN chain(n) ELSE Append(chain(n), e)
    BY ReplayPrefix
  <2>3. \/ rec.ops[k] = None /\ Rebuilt(g, c, n + 1, m)
        \/ /\ rec.ops[k] # None /\ m + 1 <= Len(c) /\ c[m + 1] = e
           /\ Rebuilt(g, c, n + 1, m + 1)
    BY <2>1, GroupStep
  <2> HIDE DEF chain, c, e, rec
  <2>4. CASE rec.ops[k] = None /\ Rebuilt(g, c, n + 1, m)
    <3>1. P(n + 1, m)
      BY <2>1, <2>2, <2>4
    <3> QED BY <3>1
  <2>5. CASE /\ rec.ops[k] # None /\ m + 1 <= Len(c) /\ c[m + 1] = e
             /\ Rebuilt(g, c, n + 1, m + 1)
    <3>1. m \in Nat /\ m + 1 \in 0..Len(c)
      BY <1>1, <2>5, SMT
    <3>2. SubSeq(c, 1, m + 1) = Append(SubSeq(c, 1, m), c[m + 1])
      BY <1>1, <2>5, <3>1, PrefixAppend
    <3>3. P(n + 1, m + 1)
      BY <2>1, <2>2, <2>5, <3>2
    <3> QED BY <3>1, <3>3
  <2> QED BY <2>3, <2>4, <2>5
<1>4. Q = Nat
  <2>1. Q \in SUBSET Nat
    OBVIOUS
  <2> HIDE DEF Q
  <2> QED BY <1>2, <1>3, <2>1, NatInd
<1>5. PICK m \in 0..Len(c) : P(Len(g), m)
  BY <1>1, <1>4, SMT
<1>6. SubSeq(g, 1, Len(g)) = g /\ SubSeq(c, 1, Len(c)) = c
  BY <1>1, SubSeqFull
<1>7. m = Len(c)
  <2> SUFFICES ASSUME m # Len(c) PROVE FALSE
    OBVIOUS
  <2>1. Len(c) \in 1..Len(c) /\ m < Len(c)
    BY <1>1, SMT
  <2>2. PICK i \in 1..Len(g) : g[i].version = c[Len(c)].version
    BY <2>1 DEF Grouping
  <2>3. Len(c) <= m
    BY <1>1, <1>5, <2>1, <2>2, SMT DEF Rebuilt
  <2> QED BY <1>1, <2>1, <2>3, SMT
<1> QED BY <1>5, <1>6, <1>7

-----------------------------------------------------------------------------
(* One record with the live keys. *)

\* A snapshot record rebuilds the committed store, and no record an empty one.
LEMMA SnapshotReplay ==
  ASSUME NEW h \in [Keys -> Seq(Version)], NEW v \in Nat, \A k \in Keys : Bounded(h[k], v)
  PROVE  /\ Store(Replay(SnapshotRecords(h, v)).history, v) = Store(h, v)
         /\ Ordered(SnapshotRecords(h, v)) /\ Bounded(SnapshotRecords(h, v), v)
         /\ RecordsFit => AllReadable(SnapshotRecords(h, v))
<1> DEFINE live == [k \in Keys |-> IF h[k] = <<>> \/ Newest(h[k]).op = Delete
                                   THEN None ELSE Newest(h[k]).op]
           f == SnapshotRecords(h, v)
           rec == Record(v, live)
<1>1. ASSUME NEW k \in Keys
      PROVE  /\ live[k] = Visible(h[k], v)
             /\ live[k] \in Ops \cup {None} /\ live[k] # Delete
  <2>1. h[k] \in Seq(Version) /\ Len(h[k]) \in Nat /\ Bounded(h[k], v)
    BY LenProperties
  <2>2. h[k] = <<>> <=> Len(h[k]) = 0
    BY <2>1, EmptySeq
  <2>3. Visible(h[k], v) = IF Len(h[k]) = 0 \/ h[k][Len(h[k])].op = Delete THEN None
                           ELSE h[k][Len(h[k])].op
    BY <2>1, VisibleLast
  <2>4. live[k] = Visible(h[k], v)
    BY <2>2, <2>3 DEF Newest
  <2>5. Len(h[k]) # 0 => h[k][Len(h[k])].op \in Ops
    BY <2>1, VersionsTyped, SMT
  <2> HIDE DEF live
  <2> QED BY <2>3, <2>4, <2>5, SentinelsDistinct DEF Ops
<1>2. live \in Writes
  BY <1>1 DEF Writes
<1>3. f = IF Written(live) = {} THEN <<>> ELSE <<rec>>
  BY DEF SnapshotRecords
<1> HIDE DEF live, f
<1>4. rec \in Frame /\ rec.version = v /\ rec.ops = live
  BY <1>2, RecordTyped DEF Record
<1> HIDE DEF rec
<1>5. SUFFICES /\ \A k \in Keys : Visible(Replay(f).history[k], v) = live[k]
               /\ Ordered(f) /\ Bounded(f, v) /\ (RecordsFit => AllReadable(f))
  BY <1>1 DEF Store, f
<1>6. CASE Written(live) = {}
  <2>1. f = <<>> /\ \A k \in Keys : live[k] = None
    BY <1>3, <1>6 DEF Written
  <2>2. \A k \in Keys : Replay(<<>>).history[k] = <<>>
    BY ReplayEmpty, SMT DEF Fresh, NoHistory
  <2>3. \A k \in Keys : Visible(Replay(f).history[k], v) = live[k]
    BY <2>1, <2>2, VisibleEmpty
  <2> QED BY <2>1, <2>3, SMT DEF Ordered, Bounded, AllReadable
<1>7. CASE Written(live) # {}
  <2>1. f = <<rec>> /\ f = Append(<<>>, rec) /\ <<>> \in Seq(Frame)
    BY <1>3, <1>7, SMT
  <2>2. Replay(f) = Apply(Fresh, rec)
    BY <1>4, <2>1, ReplayAppend, ReplayEmpty
  <2>3. ASSUME NEW k \in Keys PROVE Visible(Replay(f).history[k], v) = live[k]
    <3> DEFINE e == [version |-> v, op |-> live[k]]
    <3>1. Replay(f).history[k] = IF live[k] = None THEN <<>> ELSE Append(<<>>, e)
      BY <1>4, <2>2, SMT DEF Apply, ApplyOps, Fresh, NoHistory
    <3>2. CASE live[k] = None
      BY <3>1, <3>2, VisibleEmpty
    <3>3. CASE live[k] # None
      <4>1. e \in Version /\ e.version = v /\ e.op = live[k] /\ e.op # Delete
        BY <1>1, <3>3 DEF Version
      <4> HIDE DEF e
      <4>2. <<>> \in Seq(Version) /\ Bounded(<<>>, v)
        BY SMT DEF Bounded
      <4>3. Visible(Append(<<>>, e), v) = live[k]
        BY <4>1, <4>2, VisibleAppended
      <4> QED BY <3>1, <3>3, <4>3
    <3> QED BY <3>2, <3>3
  <2>4. Len(f) = 1 /\ f[1] = rec
    BY <2>1, SMT
  <2>5. Ordered(f) /\ Bounded(f, v)
    BY <1>4, <2>4, SMT DEF Ordered, Bounded
  <2>6. RecordsFit => AllReadable(f)
    BY <2>4, RecordReadable, SMT DEF AllReadable, rec
  <2> QED BY <2>3, <2>5, <2>6
<1> QED BY <1>6, <1>7

\* compactRecords "builds WAL records that rebuild retained history".
LEMMA CompactImage ==
  ASSUME RecordsFit, NEW h \in [Keys -> Seq(Version)], NEW v \in Nat, NEW retain \in 0..v,
         \A k \in Keys : Bounded(h[k], v) /\ Ordered(h[k])
  PROVE  Image(CompactRecords(h, retain, v), v, h, retain)
<1>1. CASE retain = v
  <2>1. CompactRecords(h, retain, v) = SnapshotRecords(h, v)
    BY <1>1 DEF CompactRecords
  <2>2. \A rv \in retain..v : rv = v
    BY <1>1, SMT
  <2>3. /\ Store(Replay(SnapshotRecords(h, v)).history, v) = Store(h, v)
        /\ Ordered(SnapshotRecords(h, v)) /\ Bounded(SnapshotRecords(h, v), v)
        /\ AllReadable(SnapshotRecords(h, v))
    BY SnapshotReplay
  <2> QED BY <2>1, <2>2, <2>3 DEF Image
<1>2. CASE retain # v
  <2> DEFINE g == GroupRecords(h, v)
  <2>1. CompactRecords(h, retain, v) = g
    BY <1>2 DEF CompactRecords
  <2>2. g \in Seq(Frame) /\ Grouping(g, h) /\ Ordered(g) /\ Bounded(g, v) /\ AllReadable(g)
    BY GroupRecordsGroup
  <2> HIDE DEF g
  <2>3. Replay(g).history = h
    BY <2>2, GroupReplay
  <2> QED BY <2>1, <2>2, <2>3 DEF Image
<1> QED BY <1>1, <1>2

=============================================================================
