----------------------------- MODULE BTreeProofs -----------------------------
(***************************************************************************)
(* Proofs about the B+tree, for any integer and string keys, any even      *)
(* order and any history of Put and Delete: it keeps its shape, stands for *)
(* the map it promises to be, and its iterators, which follow the leaf     *)
(* chain, return what it holds from their starting key on, in order.       *)
(***************************************************************************)
EXTENDS ShapeProofs

\* Zenon proves a step unless the step names another prover.
USE Zenon

-----------------------------------------------------------------------------
(* Insertion at the leaf. *)

Good(h, r, a, s, w) ==
    /\ \E R, lv, rk : Shape(h, r, R, lv, a, s, w) /\ Chained(h, R, rk)
    /\ Bounded(h)

\* g stores what h does, but v for k.
Changed(h, g, k, v) == \A x, y : Stored(g, x, y) <=> (Stored(h, x, y) /\ x # k) \/ (x = k /\ y = v)

\* A node that has not split has nothing to link.
LEMMA WholeShape ==
    ASSUME NEW h, NEW r, NEW R, NEW lv, NEW a, NEW s
    PROVE  Shape(h, r, R, lv, a, s, nil) <=> Sound(h, r, R, lv)
<1>1. Passed(h, R, a, nil) <=> Passed(h, R, nil, nil)
  <2>1. \A x : Whole(R, a, nil, x) = R[x] /\ Whole(R, nil, nil, x) = R[x]
    BY DEF Whole
  <2> QED BY <2>1, SMT DEF Passed
<1>2. Whole(R, a, nil, r) = Whole(R, nil, nil, r)
  BY DEF Whole
<1>3. Halves(h, r, R, lv, a, s, nil) /\ Halves(h, r, R, lv, nil, nil, nil)
  BY DEF Halves
<1> QED BY <1>1, <1>2, <1>3 DEF Sound, Shape

\* The halves of a leaf hold what the leaf held.
LEMMA HalvesHold ==
    ASSUME NEW n, Formed(n), n.leaf, NEW left, NEW right, Formed(left), Formed(right), left.leaf, right.leaf,
           NEW m \in 1..(Len(n.keys) - 1),
           Divided(n.keys, m, left.keys, right.keys), Divided(n.vals, m, left.vals, right.vals), NEW x, NEW y
    PROVE  Holds(n, x, y) <=> Holds(left, x, y) \/ Holds(right, x, y)
<1> DEFINE N == Len(n.keys)
<1>1. N \in Nat /\ Len(n.vals) = N /\ m \in Nat /\ m < N
  <2>1. Len(n.keys) \in Nat /\ Len(n.vals) = Len(n.keys)
    BY NodeParts
  <2> QED BY <2>1, SMT
<1>2. Len(left.vals) = m /\ \A i \in 1..m : left.keys[i] = n.keys[i] /\ left.vals[i] = n.vals[i]
  BY DEF Divided, Before
<1>3. Len(right.vals) = N - m /\ \A i \in 1..(N - m) : right.keys[i] = n.keys[m + i] /\ right.vals[i] = n.vals[m + i]
  BY <1>1 DEF Divided, Behind
<1> HIDE DEF N
<1>4. ASSUME Holds(n, x, y) PROVE Holds(left, x, y) \/ Holds(right, x, y)
  <2>1. PICK i \in 1..N : n.keys[i] = x /\ n.vals[i] = y
    BY <1>1, <1>4 DEF Holds
  <2>2. CASE i <= m
    <3>1. i \in 1..m
      BY <1>1, <2>2, SMT
    <3> QED BY <1>2, <2>1, <3>1 DEF Holds
  <2>3. CASE i > m
    <3>1. i - m \in 1..(N - m) /\ m + (i - m) = i
      BY <1>1, <2>3, SMT
    <3>2. right.keys[i - m] = x /\ right.vals[i - m] = y
      BY <1>3, <2>1, <3>1
    <3> QED BY <1>3, <3>1, <3>2 DEF Holds
  <2> QED BY <1>1, <2>2, <2>3, SMT
<1>5. ASSUME Holds(left, x, y) PROVE Holds(n, x, y)
  <2>1. \A i \in 1..m : i \in 1..N
    BY <1>1, SMT
  <2> QED BY <1>1, <1>2, <1>5, <2>1 DEF Holds
<1>6. ASSUME Holds(right, x, y) PROVE Holds(n, x, y)
  <2>1. PICK i \in 1..(N - m) : right.keys[i] = x /\ right.vals[i] = y
    BY <1>3, <1>6 DEF Holds
  <2>2. m + i \in 1..N
    BY <1>1, SMT
  <2>3. n.keys[m + i] = x /\ n.vals[m + i] = y
    BY <1>3, <2>1
  <2> QED BY <1>1, <2>2, <2>3 DEF Holds
<1> QED BY <1>4, <1>5, <1>6

\* A leaf that has grown past the order splits.
LEMMA LeafSplits ==
    ASSUME NEW h, NEW r, NEW R, NEW lv, NEW rk, Sound(h, r, R, lv), Chained(h, R, rk), NEW a \in Leaves(h),
           Len(h[a].keys) >= 2, Len(h[a].keys) <= Order + 1,
           \A b \in Addresses(h) : b # a => Len(h[b].keys) <= Order /\ (h[b].leaf \/ h[b].next = nil)
    PROVE  LET out == splitLeaf(h, a)
           IN /\ Good(out.heap, r, a, out.key, out.right)
              /\ \A x, y : Stored(out.heap, x, y) <=> Stored(h, x, y)
              /\ Len(out.heap) = Len(h) + 1 /\ \A b \in Addresses(h) : b # a => out.heap[b] = h[b]
<1> DEFINE n == h[a]
           m == Mid(n)
           s == n.keys[m + 1]
           w == Len(h) + 1
           left == LeftLeaf(h, a)
           right == RightLeaf(h, a)
           g == SplitHeap(h, a, left, right)
           Q == SplitRanges(h, R, a, s)
<1>1. a \in Addresses(h) /\ n.leaf /\ h \in Seq(Node) /\ Len(h) \in Nat /\ Formed(n)
  BY SMT DEF Leaves, Sound, Shape
<1>2. /\ splitLeaf(h, a) = Grown(g, s, w)
      /\ Divided(n.keys, m, left.keys, right.keys) /\ Divided(n.vals, m, left.vals, right.vals)
      /\ m \in 1..(Len(n.keys) - 1)
      /\ n.keys[1] \in R[a] /\ Less(n.keys[1], s) /\ s \in R[a]
      /\ Splits(n, left, right, s, R[a], 0)
  BY <1>1, SplitLeafShape
<1>3. left.next = w /\ right.next = n.next
  BY DEF LeftLeaf, RightLeaf, Leaf
<1> HIDE DEF m, s, left, right
<1>4. Shape(g, r, Q, SplitLevels(h, lv, a), a, s, w)
  BY <1>1, <1>2, SplitShape
<1>5. Formed(left) /\ Formed(right) /\ left.leaf /\ right.leaf
  BY <1>1, <1>2 DEF Splits
<1>6. IsSplit(h, a, left, right, g)
  BY <1>1, <1>5, SplitNodes DEF Formed
<1>7. /\ Q[a] = {k \in R[a] : Less(k, s)} /\ Q[w] = {k \in R[a] : ~Less(k, s)}
      /\ \A b \in Addresses(h) : b # a => Q[b] = R[b]
  BY <1>1, SMT DEF SplitRanges, Addresses
<1>8. w # nil
  BY <1>1, SMT DEF nil
<1> HIDE DEF g, Q, w
<1>9. /\ Len(g) = w /\ g[a] = left /\ g[w] = right /\ \A b \in Addresses(h) : b # a => g[b] = h[b]
      /\ Addresses(g) = Addresses(h) \cup {w} /\ w \notin Addresses(h)
  BY <1>6 DEF IsSplit, w
<1>10. w \notin Leaves(h) /\ Leaves(g) = Leaves(h) \cup {w}
  BY <1>1, <1>5, <1>9 DEF Leaves
<1>11. \A b \in Leaves(h) : b # a => g[b].next = h[b].next /\ Q[b] = R[b]
  BY <1>7, <1>9 DEF Leaves
<1>12. n.keys[1] \in Q[a] /\ s \in Q[w] /\ R[a] \subseteq Keys /\ s \in Keys
  <2>1. R[a] \subseteq Keys
    BY <1>1 DEF Sound, Shape, Ranged
  <2> QED BY <1>2, <1>7, <2>1, LessIrreflexive
<1>13. \E rl : Chained(g, Q, rl)
  <2>1. g[a].next = w /\ g[w].next = h[a].next /\ Q[a] # {} /\ Q[w] # {}
    BY <1>3, <1>9, <1>12
  <2>2. ChainCut(h, R, a, s, w, g, Q)
    BY <1>7, <1>8, <1>10, <1>11, <1>12, <2>1 DEF ChainCut
  <2> QED BY <2>2, ChainSplit
<1>14. Len(left.keys) <= Order /\ Len(right.keys) <= Order
  <2>1. Len(left.keys) = m /\ Len(right.keys) = Len(n.keys) - m /\ Len(n.keys) \in Nat /\ Order \in Nat
    <3>1. Len(n.keys) \in Nat
      BY <1>1, NodeParts
    <3> QED BY <1>2, <3>1, OrderIsEven DEF Divided, Before, Behind
  <2> QED BY <1>2, <2>1, SMT
<1>15. Bounded(g)
  BY <1>5, <1>9, <1>14 DEF Bounded
<1>16. Good(g, r, a, s, w)
  BY <1>4, <1>13, <1>15 DEF Good
<1>17. \A x, y : Holds(n, x, y) <=> Holds(left, x, y) \/ Holds(right, x, y)
  BY <1>1, <1>2, <1>5, HalvesHold
<1>18. \A x, y : Stored(g, x, y) <=> Stored(h, x, y)
  <2>1. \A x, y : Stored(g, x, y) => Stored(h, x, y)
    BY <1>1, <1>9, <1>17 DEF Stored
  <2>2. ASSUME NEW x, NEW y, Stored(h, x, y) PROVE Stored(g, x, y)
    BY <1>1, <1>9, <1>17, <2>2 DEF Stored
  <2> QED BY <2>1, <2>2
<1>19. splitLeaf(h, a).heap = g /\ splitLeaf(h, a).key = s /\ splitLeaf(h, a).right = w
  <2>1. splitLeaf(h, a) = Grown(g, s, w)
    BY <1>2
  <2>2. Grown(g, s, w).heap = g /\ Grown(g, s, w).key = s /\ Grown(g, s, w).right = w
    BY DEF Grown
  <2> QED BY <2>1, <2>2
<1> QED BY <1>9, <1>16, <1>18, <1>19 DEF w

\* A key is stored in the leaf whose range has it.
LEMMA StoredInRange ==
    ASSUME NEW h, NEW r, NEW R, NEW lv, Sound(h, r, R, lv), NEW a \in Leaves(h), NEW k \in R[a],
           NEW b \in Addresses(h), NEW y, Holds(h[b], k, y)
    PROVE  b = a
<1>1. Formed(h[b])
  BY DEF Sound, Shape
<1>2. h[b].leaf /\ Len(h[b].vals) = Len(h[b].keys)
  <2>1. ~h[b].leaf => Len(h[b].vals) = 0
    BY <1>1 DEF Formed
  <2>2. h[b].leaf
    BY <2>1, SMT DEF Holds
  <2> QED BY <1>1, <2>2 DEF Formed
<1>3. k \in R[b]
  BY <1>2 DEF Holds, Sound, Shape, Ranged
<1> QED BY <1>2, <1>3 DEF Sound, Shape, Disjoint, Leaves

\* Replacing the leaf of k.
LEMMA StoredReplaced ==
    ASSUME NEW h, NEW r, NEW R, NEW lv, Sound(h, r, R, lv), NEW a \in Leaves(h), NEW k \in R[a], NEW v,
           NEW q, Puts(h[a], k, v, q), NEW g, Addresses(g) = Addresses(h), g[a] = q,
           \A b \in Addresses(h) : b # a => g[b] = h[b]
    PROVE  Changed(h, g, k, v)
<1>1. a \in Addresses(h)
  BY DEF Leaves
<1>2. \A b \in Addresses(h) : \A y : b # a => ~Holds(h[b], k, y)
  BY StoredInRange
<1> SUFFICES ASSUME NEW x, NEW y PROVE Stored(g, x, y) <=> (Stored(h, x, y) /\ x # k) \/ (x = k /\ y = v)
  BY DEF Changed
<1>3. Holds(g[a], x, y) <=> (Holds(h[a], x, y) /\ x # k) \/ (x = k /\ y = v)
  BY DEF Puts
<1>4. \A b \in Addresses(h) : b # a => g[b] = h[b]
  OBVIOUS
<1>5. Stored(g, x, y) <=> Holds(g[a], x, y) \/ \E b \in Addresses(h) : b # a /\ Holds(h[b], x, y)
  BY <1>1, <1>4 DEF Stored
<1>6. Stored(h, x, y) <=> Holds(h[a], x, y) \/ \E b \in Addresses(h) : b # a /\ Holds(h[b], x, y)
  BY <1>1 DEF Stored
<1> QED BY <1>2, <1>3, <1>5, <1>6

Kin(h, a, g) == Len(h) <= Len(g) /\ \A b \in Addresses(h) : b # a => g[b] = h[b]

\* insert at a leaf.
LEMMA LeafInserted ==
    ASSUME NEW h, NEW r, NEW R, NEW lv, NEW rk, Sound(h, r, R, lv), Chained(h, R, rk), Bounded(h),
           NEW a \in Leaves(h), NEW k \in R[a], NEW v \in RowKeys
    PROVE  LET out == insertLeaf(h, a, k, v)
           IN Good(out.heap, r, a, out.key, out.right) /\ Changed(h, out.heap, k, v) /\ Kin(h, a, out.heap)
<1> DEFINE n == h[a]
           q == Filled(n, k, v)
           g == [h EXCEPT ![a] = q]
           i == position(n.keys, k)
           out == insertLeaf(h, a, k, v)
<1>1. /\ a \in Addresses(h) /\ n.leaf /\ h \in Seq(Node) /\ Len(h) \in Nat /\ Formed(n)
      /\ R[a] \subseteq Keys /\ k \in Keys
      /\ \A j \in 1..Len(n.keys) : n.keys[j] \in R[a]
  BY HeapLength DEF Leaves, Sound, Shape, Ranged
<1>2. IsFilled(n, k, v, q)
  BY <1>1, FilledIs
<1>3. out = IF (i <= Len(n.keys) /\ n.keys[i] = k) \/ Len(n.keys) + 1 <= Order THEN Kept(g) ELSE splitLeaf(g, a)
  BY DEF insertLeaf, Filled
<1>4. i <= Len(n.keys) /\ n.keys[i] = k => q.keys = n.keys
  BY DEF Filled, Leaf
<1> HIDE DEF q, i, out
<1>5. /\ Formed(q) /\ q.leaf /\ q.next = n.next /\ Puts(n, k, v, q)
      /\ Len(q.keys) = Len(n.keys) \/ Len(q.keys) = Len(n.keys) + 1
      /\ \A j \in 1..Len(q.keys) : q.keys[j] \in R[a]
  BY <1>1, <1>2 DEF IsFilled
<1>6. Sound(g, r, R, lv)
  BY <1>1, <1>5, LeafReplaced
<1>7. Len(g) = Len(h) /\ g[a] = q /\ \A b \in Addresses(h) : b # a => g[b] = h[b]
  BY <1>1, <1>5, SMT DEF Addresses, Formed
<1> HIDE DEF g
<1>8. Addresses(g) = Addresses(h) /\ Leaves(g) = Leaves(h)
  <2>1. Addresses(g) = Addresses(h)
    BY <1>7 DEF Addresses
  <2> QED BY <1>1, <1>5, <1>7, <2>1 DEF Leaves
<1>9. Chained(g, R, rk)
  <2>1. \A b \in Leaves(h) : g[b].next = h[b].next
    BY <1>5, <1>7 DEF Leaves
  <2> QED BY <1>8, <2>1, ChainKept
<1>10. Changed(h, g, k, v)
  BY <1>5, <1>7, <1>8, StoredReplaced
<1>11. Kin(h, a, g)
  BY <1>1, <1>7, SMT DEF Kin
<1>12. Len(n.keys) \in Nat /\ Order \in Nat /\ Order >= 2 /\ Len(n.keys) <= Order
  <2>1. Len(n.keys) \in Nat
    BY <1>1, NodeParts
  <2> QED BY <1>1, <2>1, OrderIsEven DEF Bounded
<1>13. CASE Len(q.keys) <= Order /\ out = Kept(g)
  <2>1. Bounded(g)
    BY <1>5, <1>7, <1>8, <1>13 DEF Bounded
  <2>2. out.heap = g /\ out.key = nil /\ out.right = nil
    BY <1>13 DEF Kept, Grown
  <2>3. Good(g, r, a, nil, nil)
    <3>1. Shape(g, r, R, lv, a, nil, nil)
      BY <1>6, WholeShape
    <3> QED BY <1>9, <2>1, <3>1 DEF Good
  <2> QED BY <1>10, <1>11, <2>2, <2>3 DEF out
<1>14. CASE Len(n.keys) + 1 > Order /\ out = splitLeaf(g, a)
  <2>1. /\ a \in Leaves(g) /\ Len(g[a].keys) >= 2 /\ Len(g[a].keys) <= Order + 1
        /\ \A b \in Addresses(g) : b # a => Len(g[b].keys) <= Order /\ (g[b].leaf \/ g[b].next = nil)
    <3>1. Len(q.keys) >= 2 /\ Len(q.keys) <= Order + 1
      BY <1>5, <1>12, <1>14, SMT
    <3> QED BY <1>7, <1>8, <3>1 DEF Bounded
  <2>2. /\ Good(out.heap, r, a, out.key, out.right)
        /\ \A x, y : Stored(out.heap, x, y) <=> Stored(g, x, y)
        /\ Len(out.heap) = Len(g) + 1 /\ \A b \in Addresses(g) : b # a => out.heap[b] = g[b]
    BY <1>6, <1>9, <1>14, <2>1, LeafSplits
  <2>3. Changed(h, out.heap, k, v)
    BY <1>10, <2>2 DEF Changed
  <2>4. Kin(h, a, out.heap)
    BY <1>1, <1>7, <1>8, <2>2, SMT DEF Kin
  <2> QED BY <2>2, <2>3, <2>4 DEF out
<1>15. i <= Len(n.keys) /\ n.keys[i] = k => Len(q.keys) <= Order
  BY <1>4, <1>12
<1>16. Len(n.keys) + 1 <= Order => Len(q.keys) <= Order
  BY <1>5, <1>12
<1>17. Len(n.keys) + 1 <= Order \/ Len(n.keys) + 1 > Order
  BY <1>12, SMT
<1> QED BY <1>3, <1>13, <1>14, <1>15, <1>16, <1>17

\* An interior node holds no pair.
LEMMA InteriorHoldsNothing ==
    ASSUME NEW n, Formed(n), ~n.leaf
    PROVE  \A x, y : ~Holds(n, x, y)
<1>1. Len(n.vals) = 0
  BY DEF Formed
<1> QED BY <1>1, SMT DEF Holds

\* An interior node that has grown past the order splits.
LEMMA InteriorSplits ==
    ASSUME NEW h, NEW r, NEW R, NEW lv, NEW rk, Sound(h, r, R, lv), Chained(h, R, rk),
           NEW a \in Addresses(h), ~h[a].leaf, Len(h[a].keys) >= 3, Len(h[a].keys) <= Order + 1,
           \A b \in Addresses(h) : b # a => Len(h[b].keys) <= Order /\ (h[b].leaf \/ h[b].next = nil)
    PROVE  LET out == splitInterior(h, a)
           IN /\ Good(out.heap, r, a, out.key, out.right)
              /\ \A x, y : Stored(out.heap, x, y) <=> Stored(h, x, y)
              /\ Kin(h, a, out.heap)
<1> DEFINE n == h[a]
           s == n.keys[Mid(n) + 1]
           w == Len(h) + 1
           left == LeftInterior(n)
           right == RightInterior(n)
           g == SplitHeap(h, a, left, right)
           Q == SplitRanges(h, R, a, s)
           m == Mid(n) + 1
<1>1. h \in Seq(Node) /\ Len(h) \in Nat /\ Formed(n) /\ Len(n.keys) \in Nat
  <2>1. h \in Seq(Node) /\ Len(h) \in Nat /\ Formed(n)
    BY SMT DEF Sound, Shape
  <2> QED BY <2>1, NodeParts
<1>2. /\ splitInterior(h, a) = Grown(g, s, w)
      /\ Len(left.keys) < Len(n.keys) /\ Len(right.keys) < Len(n.keys)
      /\ n.keys[1] \in R[a] /\ Less(n.keys[1], s) /\ s \in R[a]
      /\ Splits(n, left, right, s, R[a], m)
  BY SplitInteriorShape
<1>3. left.next = nil /\ right.next = nil
  BY DEF LeftInterior, RightInterior, Interior
<1> HIDE DEF s, left, right, m
<1>4. Shape(g, r, Q, SplitLevels(h, lv, a), a, s, w)
  BY <1>1, <1>2, SplitShape
<1>5. Formed(left) /\ Formed(right) /\ ~left.leaf /\ ~right.leaf
  BY <1>1, <1>2 DEF Splits
<1>6. IsSplit(h, a, left, right, g)
  BY <1>1, <1>5, SplitNodes DEF Formed
<1>7. \A b \in Addresses(h) : b # a => Q[b] = R[b]
  BY <1>1, SMT DEF SplitRanges, Addresses
<1> HIDE DEF g, Q, w
<1>8. /\ Len(g) = w /\ g[a] = left /\ g[w] = right /\ \A b \in Addresses(h) : b # a => g[b] = h[b]
      /\ Addresses(g) = Addresses(h) \cup {w} /\ w \notin Addresses(h)
  BY <1>6 DEF IsSplit, w
<1>9. Leaves(g) = Leaves(h) /\ \A b \in Leaves(h) : g[b].next = h[b].next /\ Q[b] = R[b]
  BY <1>5, <1>7, <1>8 DEF Leaves
<1>10. Chained(g, Q, rk)
  BY <1>9, ChainKept, SMT
<1>11. Bounded(g)
  <2>1. Len(left.keys) \in Nat /\ Len(right.keys) \in Nat /\ Order \in Nat
    BY <1>5, NodeParts, OrderIsEven
  <2>2. Len(left.keys) < Len(n.keys) /\ Len(right.keys) < Len(n.keys) /\ Len(n.keys) \in Nat
    BY <1>1, <1>2
  <2>3. Len(left.keys) <= Order /\ Len(right.keys) <= Order
    BY <2>1, <2>2, SMT
  <2> QED BY <1>3, <1>8, <2>3 DEF Bounded
<1>12. Good(g, r, a, s, w)
  BY <1>4, <1>10, <1>11 DEF Good
<1>13. \A x, y : ~Holds(n, x, y) /\ ~Holds(left, x, y) /\ ~Holds(right, x, y)
  BY <1>1, <1>5, InteriorHoldsNothing
<1>14. \A x, y : Stored(g, x, y) <=> Stored(h, x, y)
  BY <1>8, <1>13 DEF Stored
<1>15. splitInterior(h, a).heap = g /\ splitInterior(h, a).key = s /\ splitInterior(h, a).right = w
  BY <1>2, SMT DEF Grown
<1>16. Kin(h, a, g)
  BY <1>1, <1>8, SMT DEF Kin, w
<1> QED BY <1>12, <1>14, <1>15, <1>16

\* insert at an interior node, once the call on its child i has returned.
Linking(below, r, a, out) ==
    /\ Good(out.heap, r, a, out.key, out.right)
    /\ \A x, y : Stored(out.heap, x, y) <=> Stored(below.heap, x, y)
    /\ Kin(below.heap, a, out.heap)

\* What insert does to an interior node keeps the tree and what it stores.
LEMMA InteriorInserted ==
    ASSUME NEW below, NEW r, NEW c, Good(below.heap, r, c, below.key, below.right),
           NEW a, NEW i, Edge(below.heap, a, i), below.heap[a].children[i] = c
    PROVE  Linking(below, r, a, insertInterior(below, a, i))
<1> DEFINE h == below.heap
           s == below.key
           w == below.right
           n == h[a]
           q == Linked(n, i, s, w)
           g == [h EXCEPT ![a] = q]
           out == insertInterior(below, a, i)
<1>1. out = IF w = nil THEN below ELSE IF Len(n.keys) + 1 <= Order THEN Kept(g) ELSE splitInterior(g, a)
  BY DEF insertInterior, Linked
<1> HIDE DEF h, s, w, out, q
<1>2. PICK R, lv, rk : Shape(h, r, R, lv, c, s, w) /\ Chained(h, R, rk)
  BY DEF Good, h, s, w
<1>3. Bounded(h) /\ a \in Addresses(h) /\ ~n.leaf /\ Edge(h, a, i) /\ n.children[i] = c
  BY DEF Good, h, Edge
<1>4. h \in Seq(Node) /\ Len(h) \in Nat /\ Formed(n)
  BY <1>2, <1>3, HeapLength DEF Shape
<1>5. Len(n.keys) \in Nat /\ Order \in Nat /\ Order >= 2 /\ Len(n.keys) <= Order
  <2>1. Len(n.keys) \in Nat
    BY <1>4, NodeParts
  <2> QED BY <1>3, <2>1, OrderIsEven DEF Bounded
<1>6. CASE w = nil
  <2>1. out = below
    BY <1>1, <1>6
  <2>2. Good(h, r, a, s, w)
    <3>1. Shape(h, r, R, lv, a, s, w)
      BY <1>2, <1>6, WholeShape
    <3> QED BY <1>2, <1>3, <3>1 DEF Good
  <2>3. Kin(h, a, h)
    BY <1>4, SMT DEF Kin
  <2> QED BY <2>1, <2>2, <2>3 DEF out, h, s, w, Linking
<1>7. CASE w # nil
  <2>1. Sound(g, r, R, lv) /\ Formed(q) /\ ~q.leaf /\ Len(q.keys) = Len(n.keys) + 1
    <3>1. IsLinked(h, r, R, lv, a, q)
      BY <1>2, <1>3, <1>7, LinkShape DEF q
    <3> QED BY <3>1 DEF IsLinked
  <2>2. q.next = nil
    BY DEF q, Linked, Interior
  <2>3. Len(g) = Len(h) /\ g[a] = q /\ \A b \in Addresses(h) : b # a => g[b] = h[b]
    BY <1>3, <1>4, <2>1, SMT DEF Addresses, Formed
  <2> HIDE DEF g
  <2>4. Addresses(g) = Addresses(h)
    BY <2>3 DEF Addresses
  <2>5. Leaves(g) = Leaves(h) /\ \A b \in Leaves(h) : g[b].next = h[b].next
    BY <1>3, <2>1, <2>3, <2>4 DEF Leaves
  <2>6. Chained(g, R, rk)
    BY <1>2, <2>5, ChainKept
  <2>7. \A x, y : Stored(g, x, y) <=> Stored(h, x, y)
    <3>1. \A x, y : ~Holds(n, x, y) /\ ~Holds(q, x, y)
      BY <1>3, <1>4, <2>1, InteriorHoldsNothing
    <3> QED BY <2>3, <2>4, <3>1 DEF Stored
  <2>8. Kin(h, a, g)
    BY <1>4, <2>3, SMT DEF Kin
  <2>9. CASE Len(n.keys) + 1 <= Order
    <3>1. out.heap = g /\ out.key = nil /\ out.right = nil
      BY <1>1, <1>7, <2>9 DEF Kept, Grown
    <3>2. Bounded(g)
      BY <1>3, <2>1, <2>2, <2>3, <2>4, <2>9 DEF Bounded
    <3>3. Good(g, r, a, nil, nil)
      <4>1. Shape(g, r, R, lv, a, nil, nil)
        BY <2>1, WholeShape
      <4> QED BY <2>6, <3>2, <4>1 DEF Good
    <3> QED BY <2>7, <2>8, <3>1, <3>3 DEF out, h, Linking
  <2>10. CASE ~(Len(n.keys) + 1 <= Order)
    <3>1. out = splitInterior(g, a)
      BY <1>1, <1>7, <2>10
    <3>2. /\ a \in Addresses(g) /\ ~g[a].leaf /\ Len(g[a].keys) >= 3 /\ Len(g[a].keys) <= Order + 1
          /\ \A b \in Addresses(g) : b # a => Len(g[b].keys) <= Order /\ (g[b].leaf \/ g[b].next = nil)
      <4>1. Len(q.keys) >= 3 /\ Len(q.keys) <= Order + 1
        BY <1>5, <2>1, <2>10, SMT
      <4> QED BY <1>3, <2>1, <2>3, <2>4, <4>1 DEF Bounded
    <3>3. /\ Good(out.heap, r, a, out.key, out.right)
          /\ \A x, y : Stored(out.heap, x, y) <=> Stored(g, x, y)
          /\ Kin(g, a, out.heap)
      BY <2>1, <2>6, <3>1, <3>2, InteriorSplits
    <3>4. Kin(h, a, out.heap)
      BY <2>3, <2>4, <3>3 DEF Kin
    <3> QED BY <2>7, <3>3, <3>4 DEF out, h, Linking
  <2> QED BY <2>9, <2>10
<1> QED BY <1>6, <1>7

-----------------------------------------------------------------------------
(* Insertion. *)

\* What the call of insert at p[m] returns: the nodes above it are as they were.
Returned(h, r, p, m, k, v, out) ==
    /\ Good(out.heap, r, p[m], out.key, out.right) /\ Changed(h, out.heap, k, v)
    /\ Len(h) <= Len(out.heap) /\ Len(out.heap) \in Nat
    /\ \A e \in 0..(m - 1) : out.heap[p[e]] = h[p[e]]

Call(h, k, v, p, d, f, j) ==
    IF j = 0 THEN insertLeaf(h, p[d], k, v)
    ELSE insertInterior(f[j - 1], p[d - j], childIndex(h[p[d - j]], k))

\* The recursive definition of the calls has a solution.
LEMMA CallsExist ==
    ASSUME NEW h, NEW r, NEW k, NEW v, NEW p, NEW d \in Nat
    PROVE  \E f : f = [j \in 0..d |-> Call(h, k, v, p, d, f, j)]
<1> DEFINE Solves(f, m) == f = [j \in 0..m |-> Call(h, k, v, p, d, f, j)]
           S == {m \in Nat : \E f : Solves(f, m)}
<1>1. 0 \in S
  <2> DEFINE f == [j \in 0..0 |-> insertLeaf(h, p[d], k, v)]
  <2>1. \A j \in 0..0 : f[j] = Call(h, k, v, p, d, f, j)
    BY SMT DEF Call
  <2>2. f = [j \in 0..0 |-> Call(h, k, v, p, d, f, j)]
    BY <2>1
  <2> HIDE DEF f
  <2> QED BY <2>2
<1>2. ASSUME NEW m \in S PROVE m + 1 \in S
  <2>1. PICK f : Solves(f, m)
    BY <1>2
  <2> DEFINE x == insertInterior(f[m], p[d - (m + 1)], childIndex(h[p[d - (m + 1)]], k))
  <2> HIDE DEF x
  <2> DEFINE g == [j \in 0..(m + 1) |-> IF j = m + 1 THEN x ELSE f[j]]
  <2>2. \A j \in 0..m : f[j] = Call(h, k, v, p, d, f, j) /\ g[j] = f[j] /\ j # m + 1
    <3>1. \A j \in 0..m : f[j] = Call(h, k, v, p, d, f, j)
      BY <2>1
    <3>2. \A j \in 0..m : j \in 0..(m + 1) /\ j # m + 1
      BY SMT
    <3> QED BY <3>1, <3>2
  <2>3. g[m + 1] = x /\ m \in 0..m /\ m \in Nat /\ 0 \in 0..m
    BY SMT
  <2>4. g = [j \in 0..(m + 1) |-> g[j]]
    OBVIOUS
  <2> HIDE DEF g
  <2>5. \A j \in 0..(m + 1) : g[j] = Call(h, k, v, p, d, g, j)
    <3> SUFFICES ASSUME NEW j \in 0..(m + 1) PROVE g[j] = Call(h, k, v, p, d, g, j)
      OBVIOUS
    <3>1. CASE j = m + 1
      <4>1. j # 0 /\ j - 1 = m
        BY <2>3, <3>1, SMT
      <4>2. g[j - 1] = f[m]
        BY <2>2, <2>3, <4>1
      <4> QED BY <2>3, <3>1, <4>1, <4>2 DEF Call, x
    <3>2. CASE j \in 0..m /\ j # 0
      <4>1. j - 1 \in 0..m
        BY <2>3, <3>2, SMT
      <4>2. g[j - 1] = f[j - 1] /\ g[j] = f[j] /\ f[j] = Call(h, k, v, p, d, f, j)
        BY <2>2, <3>2, <4>1
      <4> QED BY <3>2, <4>2 DEF Call
    <3>3. CASE j = 0
      <4>1. g[0] = f[0] /\ f[0] = Call(h, k, v, p, d, f, 0)
        BY <2>2, <2>3
      <4> QED BY <3>3, <4>1 DEF Call
    <3> QED BY <2>3, <3>1, <3>2, <3>3, SMT
  <2>6. Solves(g, m + 1) /\ m + 1 \in Nat
    <3>1. [j \in 0..(m + 1) |-> g[j]] = [j \in 0..(m + 1) |-> Call(h, k, v, p, d, g, j)]
      BY <2>5
    <3> QED BY <2>3, <2>4, <3>1, SMT
  <2> HIDE DEF Solves
  <2> QED BY <2>6
<1>3. S = Nat
  <2>1. S \in SUBSET Nat
    OBVIOUS
  <2> HIDE DEF S
  <2> QED BY <1>1, <1>2, <2>1, NatInd
<1> QED BY <1>3

\* insert, called at the root, changes one pair and leaves at most the root split.
LEMMA InsertDone ==
    ASSUME NEW h, NEW r, NEW R, NEW lv, NEW rk, Sound(h, r, R, lv), Chained(h, R, rk), Bounded(h),
           NEW k \in Keys, NEW v \in RowKeys
    PROVE  LET out == insert(h, r, k, v)
           IN Good(out.heap, r, r, out.key, out.right) /\ Changed(h, out.heap, k, v)
<1> DEFINE p == path(h, r, k)
           d == depth(h, p)
           f == CHOOSE g : g = [j \in 0..d |-> Call(h, k, v, p, d, g, j)]
<1>1. Walk(h, R, k, p, d) /\ p[0] = r /\ Len(h) \in Nat
  <2>1. h \in Seq(Node)
    BY DEF Sound, Shape
  <2> QED BY <2>1, WalkExists, HeapLength
<1>2. insert(h, r, k, v) = f[d]
  BY DEF insert, Call
<1> HIDE DEF p, d
<1>3. d \in Nat
  BY <1>1, SMT DEF Walk
<1>4. f = [j \in 0..d |-> Call(h, k, v, p, d, f, j)]
  BY <1>3, CallsExist, SMT
<1> HIDE DEF f
<1>5. \A j \in 0..d : f[j] = Call(h, k, v, p, d, f, j)
  BY <1>4
<1> DEFINE S == {j \in Nat : j <= d => Returned(h, r, p, d - j, k, v, f[j])}
<1>6. 0 \in S
  <2>1. 0 \in 0..d /\ d - 0 = d /\ d \in 0..d
    BY <1>3, SMT
  <2>2. f[0] = insertLeaf(h, p[d], k, v)
    BY <1>5, <2>1 DEF Call
  <2>3. p[d] \in Leaves(h) /\ k \in R[p[d]]
    BY <1>1, <2>1 DEF Walk, Leaves
  <2>4. Good(f[0].heap, r, p[d], f[0].key, f[0].right) /\ Changed(h, f[0].heap, k, v) /\ Kin(h, p[d], f[0].heap)
    BY <2>2, <2>3, LeafInserted
  <2>5. \A e \in 0..(d - 1) : f[0].heap[p[e]] = h[p[e]]
    <3>1. \A e \in 0..(d - 1) : e \in 0..d /\ e < d
      BY <1>3, SMT
    <3>2. \A e \in 0..(d - 1) : p[e] \in Addresses(h) /\ p[e] # p[d]
      BY <1>1, <2>1, <3>1 DEF Walk
    <3> QED BY <2>4, <3>2 DEF Kin
  <2>6. Len(f[0].heap) \in Nat
    <3>1. f[0].heap \in Seq(Node)
      BY <2>4 DEF Good, Shape
    <3> QED BY <3>1, HeapLength
  <2>7. Returned(h, r, p, d, k, v, f[0])
    BY <2>4, <2>5, <2>6 DEF Returned, Kin
  <2> QED BY <2>1, <2>7
<1>7. ASSUME NEW j \in S PROVE j + 1 \in S
  <2> SUFFICES ASSUME j + 1 <= d PROVE Returned(h, r, p, d - (j + 1), k, v, f[j + 1])
    BY SMT
  <2> DEFINE m == d - (j + 1)
             c == childIndex(h[p[m]], k)
             below == f[j]
             out == f[j + 1]
  <2>1. /\ j \in Nat /\ m \in 0..(d - 1) /\ m + 1 = d - j /\ m \in 0..((d - j) - 1) /\ j + 1 \in 0..d
        /\ j + 1 # 0 /\ (j + 1) - 1 = j /\ m \in 0..d
        /\ \A e \in 0..(m - 1) : e \in 0..d /\ e < m /\ e \in 0..((d - j) - 1)
    BY <1>3, <1>7, SMT
  <2>2. Returned(h, r, p, d - j, k, v, f[j])
    BY <1>3, <1>7, <2>1, SMT
  <2>3. out = insertInterior(below, p[m], c)
    BY <1>5, <2>1 DEF Call
  <2> HIDE DEF m, c, below, out
  <2>4. Edge(h, p[m], c) /\ p[m + 1] = h[p[m]].children[c] /\ p[m] \in Addresses(h)
    BY <1>1, <2>1 DEF Walk, c
  <2>5. /\ Good(below.heap, r, p[m + 1], below.key, below.right) /\ Changed(h, below.heap, k, v)
        /\ Len(h) <= Len(below.heap) /\ Len(below.heap) \in Nat
        /\ \A e \in 0..((d - j) - 1) : below.heap[p[e]] = h[p[e]]
    BY <2>1, <2>2 DEF Returned, below
  <2>6. \A b \in Addresses(h) : b \in Addresses(below.heap)
    BY <1>1, <2>5, SMT DEF Addresses
  <2>7. Edge(below.heap, p[m], c) /\ below.heap[p[m]].children[c] = p[m + 1]
    BY <2>1, <2>4, <2>5, <2>6 DEF Edge
  <2>8. /\ Good(out.heap, r, p[m], out.key, out.right)
        /\ \A x, y : Stored(out.heap, x, y) <=> Stored(below.heap, x, y)
        /\ Kin(below.heap, p[m], out.heap)
    <3>1. Linking(below, r, p[m], insertInterior(below, p[m], c))
      BY <2>5, <2>7, InteriorInserted
    <3> QED BY <2>3, <3>1 DEF Linking
  <2>9. Changed(h, out.heap, k, v)
    BY <2>5, <2>8 DEF Changed
  <2>10. \A e \in 0..(m - 1) : out.heap[p[e]] = h[p[e]]
    <3>1. \A e \in 0..(m - 1) : p[e] \in Addresses(h) /\ p[e] # p[m]
      BY <1>1, <2>1 DEF Walk
    <3> QED BY <2>1, <2>5, <2>6, <2>8, <3>1 DEF Kin
  <2>11. Len(out.heap) \in Nat
    <3>1. out.heap \in Seq(Node)
      BY <2>8 DEF Good, Shape
    <3> QED BY <3>1, HeapLength
  <2>12. Len(h) <= Len(out.heap)
    BY <1>1, <2>5, <2>8, <2>11, SMT DEF Kin
  <2> QED BY <2>8, <2>9, <2>10, <2>11, <2>12 DEF Returned, m, out
<1>8. S = Nat
  <2>1. S \in SUBSET Nat
    OBVIOUS
  <2> HIDE DEF S
  <2> QED BY <1>6, <1>7, <2>1, NatInd
<1>9. Returned(h, r, p, 0, k, v, f[d])
  <2>1. d <= d /\ d - d = 0 /\ d \in S
    BY <1>3, <1>8, SMT
  <2> QED BY <2>1
<1> QED BY <1>1, <1>2, <1>9 DEF Returned

-----------------------------------------------------------------------------
(* The operations keep the tree in shape. *)

BInv == Good(heap, root, nil, nil, nil)

Dropped(h, g, k) == \A x, y : Stored(g, x, y) <=> Stored(h, x, y) /\ x # k

\* Put keeps the tree in shape and changes what it stores for its key alone.
LEMMA PutStep ==
    ASSUME BInv, NEW k \in Keys, Put(k, RowKey(k))
    PROVE  BInv' /\ Changed(heap, heap', k, RowKey(k))
<1> DEFINE v == RowKey(k)
           done == insert(heap, root, k, v)
           s == done.key
           w == done.right
           h == done.heap
<1>1. v \in RowKeys
  BY DEF RowKeys
<1>2. Good(h, root, root, s, w) /\ Changed(heap, h, k, v)
  BY <1>1, InsertDone DEF BInv, Good, Sound
<1>3. IF w = nil THEN heap' = h /\ root' = root
      ELSE heap' = NewRoot(h, root, s, w) /\ root' = Len(h) + 1
  BY DEF Put, NewRoot
<1> HIDE DEF v, done
<1>4. PICK R, lv, rk : Shape(h, root, R, lv, root, s, w) /\ Chained(h, R, rk)
  BY <1>2 DEF Good
<1>5. CASE w = nil
  <2>1. Sound(h, root, R, lv)
    BY <1>4, <1>5, WholeShape
  <2>2. Good(h, root, nil, nil, nil)
    BY <1>2, <1>4, <2>1 DEF Good, Sound
  <2> QED BY <1>2, <1>3, <1>5, <2>2 DEF BInv, v
<1>6. CASE w # nil
  <2> DEFINE g == NewRoot(h, root, s, w)
             q == Len(h) + 1
             n == Interior(<<s>>, <<root, w>>)
  <2>1. PICK Q, l : Sound(g, q, Q, l) /\ \A b \in Addresses(h) : Q[b] = R[b]
    BY <1>4, <1>6, NewRootShape, SMT
  <2>2. h \in Seq(Node) /\ Len(h) \in Nat
    BY <1>4, HeapLength DEF Shape
  <2>3. ~n.leaf /\ n.next = nil /\ n.keys = <<s>> /\ n.vals = << >>
    BY DEF Interior
  <2> HIDE DEF n
  <2>4. Len(g) = q /\ g[q] = n /\ \A b \in Addresses(h) : g[b] = h[b]
    BY <2>2, SMT DEF NewRoot, Addresses, n
  <2> HIDE DEF g
  <2>5. Addresses(g) = Addresses(h) \cup {q}
    BY <2>2, <2>4, SMT DEF Addresses
  <2>6. Leaves(g) = Leaves(h) /\ \A b \in Leaves(h) : g[b].next = h[b].next /\ Q[b] = R[b]
    BY <2>1, <2>3, <2>4, <2>5 DEF Leaves
  <2>7. Chained(g, Q, rk)
    BY <1>4, <2>6, ChainKept
  <2>8. Bounded(g)
    <3>1. Len(<<s>>) <= Order
      BY OrderIsEven, SMT
    <3> QED BY <1>2, <2>3, <2>4, <2>5, <3>1 DEF Bounded, Good
  <2>9. Good(g, q, nil, nil, nil)
    BY <2>1, <2>7, <2>8 DEF Good, Sound
  <2>10. \A x, y : Stored(g, x, y) <=> Stored(h, x, y)
    <3>1. \A x, y : ~Holds(n, x, y)
      BY <2>3, SMT DEF Holds
    <3> QED BY <2>4, <2>5, <3>1 DEF Stored
  <2>11. Changed(heap, g, k, v)
    BY <1>2, <2>10 DEF Changed
  <2> QED BY <1>3, <1>6, <2>9, <2>11 DEF BInv, g, v
<1> QED BY <1>5, <1>6

Taken(s, i, t) ==
    /\ Len(t) = Len(s) - 1
    /\ \A j \in 1..Len(t) : j < i => t[j] = s[j]
    /\ \A j \in 1..Len(t) : j >= i => t[j] = s[j + 1]

\* removeAt closes the gap.
LEMMA RemoveAtIs ==
    ASSUME NEW T, NEW s \in Seq(T), NEW i \in 1..Len(s)
    PROVE  removeAt(s, i) \in Seq(T) /\ Taken(s, i, removeAt(s, i))
<1> DEFINE t == removeAt(s, i)
<1>1. Len(s) \in Nat /\ i \in Nat /\ Len(s) - 1 \in Nat /\ \A j \in 1..Len(s) : s[j] \in T
  BY SMT
<1>2. t = [j \in 1..(Len(s) - 1) |-> IF j < i THEN s[j] ELSE s[j + 1]]
  BY DEF removeAt
<1> HIDE DEF t
<1>3. \A j \in 1..(Len(s) - 1) : t[j] \in T
  BY <1>1, <1>2, SMT
<1>4. t \in Seq(T) /\ Len(t) = Len(s) - 1
  BY <1>1, <1>2, <1>3, SMT
<1>5. Taken(s, i, t)
  BY <1>1, <1>2, <1>4, SMT DEF Taken
<1> QED BY <1>4, <1>5 DEF t

\* A leaf without its key at i.
Shorter(n, i) == Leaf(removeAt(n.keys, i), removeAt(n.vals, i), n.next)

IsShorter(n, k, q) ==
    /\ Formed(q) /\ q.leaf /\ q.next = n.next /\ Len(q.keys) <= Len(n.keys)
    /\ \A i \in 1..Len(q.keys) : \E j \in 1..Len(n.keys) : q.keys[i] = n.keys[j]
    /\ \A x, y : Holds(q, x, y) <=> Holds(n, x, y) /\ x # k

\* A leaf without one of its keys has all the other pairs.
LEMMA ShorterIs ==
    ASSUME NEW n, Formed(n), n.leaf, NEW i \in 1..Len(n.keys)
    PROVE  IsShorter(n, n.keys[i], Shorter(n, i))
<1> DEFINE ks == removeAt(n.keys, i)
           rs == removeAt(n.vals, i)
           q == Shorter(n, i)
           N == Len(n.keys)
<1>1. /\ n.keys \in Seq(Keys) /\ n.vals \in Seq(RowKeys) /\ n.next \in Nat /\ Len(n.keys) \in Nat
      /\ Len(n.vals) = Len(n.keys) /\ Sorted(n.keys)
  BY NodeParts
<1>2. ks \in Seq(Keys) /\ Taken(n.keys, i, ks)
  BY <1>1, RemoveAtIs
<1>3. rs \in Seq(RowKeys) /\ Taken(n.vals, i, rs)
  <2>1. i \in 1..Len(n.vals)
    BY <1>1
  <2> QED BY <1>1, <2>1, RemoveAtIs
<1>4. q = Leaf(ks, rs, n.next)
  BY DEF Shorter
<1> HIDE DEF ks, rs, q
<1>5. /\ N \in Nat /\ i \in 1..N /\ Len(ks) = N - 1 /\ Len(rs) = N - 1 /\ Len(n.vals) = N
      /\ \A j \in 1..(N - 1) : j < i => ks[j] = n.keys[j] /\ rs[j] = n.vals[j]
      /\ \A j \in 1..(N - 1) : j >= i => ks[j] = n.keys[j + 1] /\ rs[j] = n.vals[j + 1]
      /\ \A a, b \in 1..N : a < b => Less(n.keys[a], n.keys[b])
      /\ \A a \in 1..N : n.keys[a] \in Keys
  <2>1. N \in Nat /\ i \in 1..N /\ Len(ks) = N - 1 /\ Len(rs) = N - 1 /\ Len(n.vals) = N
    BY <1>1, <1>2, <1>3 DEF Taken
  <2>2. \A a \in 1..N : n.keys[a] \in Keys
    BY <1>1, SMT
  <2> HIDE DEF N
  <2>3. /\ \A j \in 1..(N - 1) : j < i => ks[j] = n.keys[j] /\ rs[j] = n.vals[j]
        /\ \A j \in 1..(N - 1) : j >= i => ks[j] = n.keys[j + 1] /\ rs[j] = n.vals[j + 1]
    BY <1>2, <1>3, <2>1 DEF Taken
  <2>4. \A a, b \in 1..N : a < b => Less(n.keys[a], n.keys[b])
    BY <1>1 DEF Sorted, N
  <2> QED BY <2>1, <2>2, <2>3, <2>4
<1> HIDE DEF N
<1>6. Sorted(ks)
  <2> SUFFICES ASSUME NEW a \in 1..(N - 1), NEW b \in 1..(N - 1), a < b PROVE Less(ks[a], ks[b])
    BY <1>5 DEF Sorted
  <2>1. a \in 1..N /\ a + 1 \in 1..N /\ b \in 1..N /\ b + 1 \in 1..N /\ a < b + 1 /\ a + 1 < b + 1
        /\ (a < i \/ a >= i) /\ (b < i \/ b >= i) /\ (a >= i => b >= i)
    BY <1>5, SMT
  <2> QED BY <1>5, <2>1
<1>7. Formed(q) /\ q.leaf /\ q.keys = ks /\ q.vals = rs /\ q.next = n.next
  <2>1. Len(ks) = Len(rs)
    BY <1>5
  <2>2. ks \in Seq(Keys) /\ rs \in Seq(RowKeys) /\ n.next \in Nat
    BY <1>1, <1>2, <1>3
  <2> DEFINE f == Leaf(ks, rs, n.next)
  <2>3. Formed(f) /\ f.leaf /\ f.keys = ks /\ f.vals = rs /\ f.next = n.next
    BY <1>6, <2>1, <2>2, MakeLeaf, SMT
  <2> HIDE DEF f
  <2>4. q = f
    BY <1>4 DEF f
  <2> QED BY <2>3, <2>4
<1>8. \A j \in 1..N : j # i => n.keys[j] # n.keys[i]
  <2> SUFFICES ASSUME NEW j \in 1..N, j # i PROVE n.keys[j] # n.keys[i]
    OBVIOUS
  <2>1. j < i \/ i < j
    BY <1>5, SMT
  <2>2. Less(n.keys[j], n.keys[i]) \/ Less(n.keys[i], n.keys[j])
    BY <1>5, <2>1
  <2> QED BY <1>5, <2>2, LessIrreflexive
<1>9. ASSUME NEW j \in 1..(N - 1)
      PROVE  \E m \in 1..N : m # i /\ ks[j] = n.keys[m] /\ rs[j] = n.vals[m]
  <2>1. j \in 1..N /\ j + 1 \in 1..N /\ ((j < i /\ j # i) \/ (j >= i /\ j + 1 # i))
    BY <1>5, SMT
  <2> QED BY <1>5, <2>1
<1>10. ASSUME NEW m \in 1..N, m # i
       PROVE  \E j \in 1..(N - 1) : ks[j] = n.keys[m] /\ rs[j] = n.vals[m]
  <2>1. CASE m < i
    <3>1. m \in 1..(N - 1)
      BY <1>5, <2>1, SMT
    <3> QED BY <1>5, <2>1, <3>1
  <2>2. CASE m > i
    <3>1. m - 1 \in 1..(N - 1) /\ m - 1 >= i /\ (m - 1) + 1 = m
      BY <1>5, <2>2, SMT
    <3>2. ks[m - 1] = n.keys[(m - 1) + 1] /\ rs[m - 1] = n.vals[(m - 1) + 1]
      BY <1>5, <3>1
    <3> QED BY <3>1, <3>2
  <2> QED BY <1>5, <1>10, <2>1, <2>2, SMT
<1>11. ASSUME NEW x, NEW y PROVE Holds(q, x, y) <=> Holds(n, x, y) /\ x # n.keys[i]
  <2>1. Holds(q, x, y) <=> \E j \in 1..(N - 1) : ks[j] = x /\ rs[j] = y
    BY <1>5, <1>7 DEF Holds
  <2>2. Holds(n, x, y) <=> \E m \in 1..N : n.keys[m] = x /\ n.vals[m] = y
    BY <1>5 DEF Holds
  <2>3. Holds(q, x, y) => Holds(n, x, y) /\ x # n.keys[i]
    BY <1>8, <1>9, <2>1, <2>2, SMT
  <2>4. Holds(n, x, y) /\ x # n.keys[i] => Holds(q, x, y)
    BY <1>10, <2>1, <2>2
  <2> QED BY <2>3, <2>4
<1>12. Len(q.keys) <= Len(n.keys) /\ \A j \in 1..Len(q.keys) : \E m \in 1..Len(n.keys) : q.keys[j] = n.keys[m]
  BY <1>5, <1>7, <1>9, SMT DEF N
<1> QED BY <1>7, <1>11, <1>12 DEF IsShorter, q

\* The keys of a leaf differ.
LEMMA MatchesAre ==
    ASSUME NEW n, Formed(n), NEW k
    PROVE  matches(n.keys, k) = {i \in 1..Len(n.keys) : n.keys[i] = k}
<1>1. n.keys \in Seq(Keys) /\ Len(n.keys) \in Nat /\ Sorted(n.keys)
  BY NodeParts
<1>2. ASSUME NEW i \in 1..Len(n.keys), n.keys[i] = k, NEW j \in 1..(i - 1) PROVE n.keys[j] # k
  <2>1. j \in 1..Len(n.keys) /\ j < i
    BY <1>1, SMT
  <2>2. Less(n.keys[j], k) /\ k \in Keys
    BY <1>1, <1>2, <2>1, SMT DEF Sorted
  <2> QED BY <2>2, LessIrreflexive
<1> QED BY <1>2 DEF matches

\* Search arrives at the leaf of the key.
LEMMA DescendIs ==
    ASSUME NEW h, NEW r, NEW R, NEW lv, Sound(h, r, R, lv), NEW k \in Keys
    PROVE  descend(h, r, k) \in Leaves(h) /\ k \in R[descend(h, r, k)]
<1> DEFINE p == path(h, r, k)
           d == depth(h, p)
<1>1. Walk(h, R, k, p, d) /\ descend(h, r, k) = p[d] /\ Len(h) \in Nat
  <2>1. h \in Seq(Node)
    BY DEF Sound, Shape
  <2> QED BY <2>1, WalkExists, HeapLength
<1> HIDE DEF p, d
<1>2. d \in 0..d
  BY <1>1, SMT DEF Walk
<1> QED BY <1>1, <1>2 DEF Walk, Leaves

\* Delete keeps the tree in shape and drops its key alone.
LEMMA DeleteStep ==
    ASSUME BInv, NEW k \in Keys, Delete(k)
    PROVE  BInv' /\ Dropped(heap, heap', k)
<1> DEFINE a == descend(heap, root, k)
           n == heap[a]
           found == matches(n.keys, k)
<1>1. PICK R, lv, rk : Sound(heap, root, R, lv) /\ Chained(heap, R, rk) /\ Bounded(heap)
  BY DEF BInv, Good, Sound
<1>2. a \in Leaves(heap) /\ k \in R[a]
  BY <1>1, DescendIs
<1>3. /\ \/ \E i \in found : heap' = [heap EXCEPT ![a] = Shorter(n, i)]
         \/ found = {} /\ heap' = heap
      /\ root' = root
  BY DEF Delete, remove, Shorter
<1> HIDE DEF a
<1>4. a \in Addresses(heap) /\ n.leaf /\ Formed(n) /\ heap \in Seq(Node)
      /\ \A j \in 1..Len(n.keys) : n.keys[j] \in R[a]
  BY <1>1, <1>2 DEF Leaves, Sound, Shape, Ranged
<1>5. found = {i \in 1..Len(n.keys) : n.keys[i] = k}
  <2>1. Formed(n)
    BY <1>4
  <2> QED BY <2>1, MatchesAre, SMT
<1>6. \A b \in Addresses(heap) : \A y : b # a => ~Holds(heap[b], k, y)
  BY <1>1, <1>2, StoredInRange
<1>7. ASSUME NEW i \in found, heap' = [heap EXCEPT ![a] = Shorter(n, i)]
      PROVE  BInv' /\ Dropped(heap, heap', k)
  <2> DEFINE q == Shorter(n, i)
             g == [heap EXCEPT ![a] = q]
  <2>1. i \in 1..Len(n.keys) /\ n.keys[i] = k
    BY <1>5, <1>7
  <2>2. IsShorter(n, k, q)
    BY <1>4, <2>1, ShorterIs
  <2> HIDE DEF q
  <2>3. /\ Formed(q) /\ q.leaf /\ q.next = n.next /\ Len(q.keys) <= Len(n.keys)
        /\ \A j \in 1..Len(q.keys) : q.keys[j] \in R[a]
        /\ \A x, y : Holds(q, x, y) <=> Holds(n, x, y) /\ x # k
    BY <1>4, <2>2 DEF IsShorter
  <2>4. Sound(g, root, R, lv)
    BY <1>1, <1>4, <2>3, LeafReplaced
  <2>5. Len(g) = Len(heap) /\ g[a] = q /\ \A b \in Addresses(heap) : b # a => g[b] = heap[b]
    BY <1>4, <2>3, SMT DEF Addresses, Formed
  <2> HIDE DEF g
  <2>6. Addresses(g) = Addresses(heap)
    BY <2>5 DEF Addresses
  <2>7. Leaves(g) = Leaves(heap) /\ \A b \in Leaves(heap) : g[b].next = heap[b].next
    BY <1>4, <2>3, <2>5, <2>6 DEF Leaves
  <2>8. Chained(g, R, rk)
    BY <1>1, <2>7, ChainKept
  <2>9. Bounded(g)
    <3>1. Len(q.keys) \in Nat /\ Len(n.keys) \in Nat /\ Order \in Nat
      BY <1>4, <2>3, NodeParts, OrderIsEven
    <3>2. Len(q.keys) <= Order
      BY <1>1, <1>4, <2>3, <3>1, SMT DEF Bounded
    <3> QED BY <1>1, <2>3, <2>5, <2>6, <3>2 DEF Bounded
  <2>10. Good(g, root, nil, nil, nil)
    BY <2>4, <2>8, <2>9 DEF Good, Sound
  <2>11. Dropped(heap, g, k)
    <3> SUFFICES ASSUME NEW x, NEW y PROVE Stored(g, x, y) <=> Stored(heap, x, y) /\ x # k
      BY DEF Dropped
    <3>1. Stored(g, x, y) <=> Holds(q, x, y) \/ \E b \in Addresses(heap) : b # a /\ Holds(heap[b], x, y)
      BY <1>4, <2>5, <2>6 DEF Stored
    <3>2. Stored(heap, x, y) <=> Holds(n, x, y) \/ \E b \in Addresses(heap) : b # a /\ Holds(heap[b], x, y)
      BY <1>4 DEF Stored
    <3> QED BY <1>6, <2>3, <3>1, <3>2
  <2> QED BY <1>3, <1>7, <2>10, <2>11 DEF BInv, g, q
<1>8. CASE found = {} /\ heap' = heap
  <2>1. Len(n.vals) = Len(n.keys)
    BY <1>4 DEF Formed
  <2>2. \A y : ~Holds(n, k, y)
    BY <1>5, <1>8, <2>1 DEF Holds
  <2>3. Dropped(heap, heap, k)
    BY <1>6, <2>2 DEF Dropped, Stored
  <2> QED BY <1>3, <1>8, <2>3 DEF BInv
<1> QED BY <1>3, <1>7, <1>8

\* The empty tree is one leaf.
LEMMA InitStep ==
    ASSUME Init
    PROVE  BInv /\ \A x, y : ~Stored(heap, x, y)
<1> DEFINE n == Leaf(<< >>, << >>, nil)
           R == [b \in {1} |-> Keys]
           lv == [b \in {1} |-> 0]
<1>1. Formed(n) /\ n.leaf /\ n.keys = << >> /\ n.vals = << >> /\ n.next = nil /\ n.children = << >>
  BY SMT DEF Formed, Leaf, Node, Sorted, nil
<1> HIDE DEF n
<1>2. heap = <<n>> /\ root = 1
  BY DEF Init, n
<1>3. heap \in Seq(Node) /\ Len(heap) = 1 /\ heap[1] = n
  BY <1>1, <1>2, SMT DEF Formed
<1>4. Addresses(heap) = {1}
  BY <1>3, SMT DEF Addresses
<1>5. R[1] = Keys /\ lv[1] = 0
  OBVIOUS
<1> HIDE DEF R, lv
<1>6. \A b, i : ~Edge(heap, b, i)
  BY <1>1, <1>3, <1>4 DEF Edge
<1>7. Ranged(heap, R) /\ Disjoint(heap, R) /\ Bounded(heap)
  <2>1. \A i \in 1..Len(n.keys) : n.keys[i] \in Keys
    BY <1>1, SMT
  <2>2. Len(n.keys) <= Order
    BY <1>1, OrderIsEven, SMT
  <2> QED BY <1>1, <1>3, <1>4, <1>5, <2>1, <2>2 DEF Ranged, Disjoint, Bounded
<1>8. Leveled(heap, lv) /\ Tree(heap) /\ Passed(heap, R, nil, nil)
  <2>1. lv[1] \in 0..(Len(heap) - 1)
    BY <1>3, <1>5, SMT
  <2> QED BY <1>4, <1>6, <2>1 DEF Leveled, Tree, Passed
<1>9. Sound(heap, root, R, lv)
  BY <1>1, <1>2, <1>3, <1>4, <1>5, <1>6, <1>7, <1>8 DEF Sound, Shape, Whole, Halves
<1>10. Chained(heap, R, lv)
  BY <1>1, <1>3, <1>4, <1>5, SMT DEF Chained, Leaves
<1>11. \A x, y : ~Stored(heap, x, y)
  BY <1>1, <1>3, <1>4, SMT DEF Stored, Holds
<1> QED BY <1>7, <1>9, <1>10, <1>11 DEF BInv, Good, Sound

-----------------------------------------------------------------------------
(* The map the tree stands for. *)

\* A stored key is in the leaf of its range, once.
LEMMA StoredOnce ==
    ASSUME NEW h, NEW r, NEW R, NEW lv, Sound(h, r, R, lv), NEW a \in Addresses(h), NEW x, NEW y,
           Holds(h[a], x, y)
    PROVE  /\ a \in Leaves(h) /\ x \in R[a] /\ x \in Keys
           /\ \A z : Stored(h, x, z) => z = y
<1>1. Formed(h[a])
  BY DEF Sound, Shape
<1>2. h[a].leaf
  BY <1>1, InteriorHoldsNothing
<1>3. h[a].keys \in Seq(Keys) /\ Len(h[a].keys) \in Nat /\ Len(h[a].vals) = Len(h[a].keys) /\ Sorted(h[a].keys)
  BY <1>1, <1>2, NodeParts
<1>4. PICK i \in 1..Len(h[a].keys) : h[a].keys[i] = x /\ h[a].vals[i] = y
  BY <1>3 DEF Holds
<1>5. a \in Leaves(h) /\ x \in R[a] /\ x \in Keys
  BY <1>2, <1>4 DEF Leaves, Sound, Shape, Ranged
<1>6. ASSUME NEW z, Stored(h, x, z) PROVE z = y
  <2>1. Holds(h[a], x, z)
    <3>1. PICK b \in Addresses(h) : Holds(h[b], x, z)
      BY <1>6 DEF Stored
    <3>2. b = a
      BY <1>5, <3>1, StoredInRange
    <3> QED BY <3>1, <3>2
  <2>2. PICK j \in 1..Len(h[a].keys) : h[a].keys[j] = x /\ h[a].vals[j] = z
    BY <1>3, <2>1 DEF Holds
  <2>3. ~(i < j) /\ ~(j < i)
    BY <1>3, <1>4, <1>5, <2>2, LessIrreflexive DEF Sorted
  <2>4. i = j
    BY <1>3, <2>3, SMT
  <2> QED BY <1>4, <2>2, <2>4
<1> QED BY <1>5, <1>6

\* The pairs of the tree are those stored in its leaves.
LEMMA PairsAre == \A p : p \in Pairs <=> \E x, y : p = <<x, y>> /\ Stored(heap, x, y)
<1>1. ASSUME NEW n PROVE \A i \in 1..Len(n.vals) : pairs(n)[i] = <<n.keys[i], n.vals[i]>>
  BY DEF pairs
<1>2. \A p : p \in Pairs <=> \E a \in Addresses(heap) : \E i \in 1..Len(heap[a].vals) : p = pairs(heap[a])[i]
  BY SMT DEF Pairs, Addresses
<1>3. ASSUME NEW p, NEW a, NEW i \in 1..Len(heap[a].vals), p = pairs(heap[a])[i]
      PROVE  \E x, y : p = <<x, y>> /\ Holds(heap[a], x, y)
  <2>1. p = <<heap[a].keys[i], heap[a].vals[i]>> /\ Holds(heap[a], heap[a].keys[i], heap[a].vals[i])
    BY <1>1, <1>3 DEF Holds
  <2> QED BY <2>1
<1>4. ASSUME NEW p, p \in Pairs PROVE \E x, y : p = <<x, y>> /\ Stored(heap, x, y)
  BY <1>2, <1>3, <1>4, SMT DEF Stored
<1>5. ASSUME NEW x, NEW y, Stored(heap, x, y) PROVE <<x, y>> \in Pairs
  <2>1. PICK a \in Addresses(heap) : Holds(heap[a], x, y)
    BY <1>5 DEF Stored
  <2>2. PICK i \in 1..Len(heap[a].vals) : <<x, y>> = pairs(heap[a])[i]
    BY <1>1, <2>1 DEF Holds
  <2> QED BY <1>2, <2>2
<1> QED BY <1>4, <1>5, SMT

\* The map m has the pairs stored in h.
Mapped(h, m) ==
    /\ m = [x \in DOMAIN m |-> m[x]]
    /\ \A x : x \in DOMAIN m <=> \E y : Stored(h, x, y)
    /\ \A x, y : Stored(h, x, y) => m[x] = y

MapInv == Mapped(heap, Contents)

\* In a tree in shape every key has one row key, so its pairs are a map.
LEMMA ContentsAre == BInv => MapInv
<1> SUFFICES ASSUME BInv PROVE Mapped(heap, Contents)
  BY DEF MapInv
<1> DEFINE D == {p[1] : p \in Pairs}
<1>1. PICK R, lv : Sound(heap, root, R, lv)
  BY DEF BInv, Good, Sound
<1>2. \A x : x \in D <=> \E y : Stored(heap, x, y)
  <2>1. ASSUME NEW p \in Pairs PROVE \E y : Stored(heap, p[1], y)
    <3>1. PICK x, y : p = <<x, y>> /\ Stored(heap, x, y)
      BY <2>1, PairsAre
    <3>2. p[1] = x
      BY <3>1
    <3> QED BY <3>1, <3>2
  <2>2. ASSUME NEW x, NEW y, Stored(heap, x, y) PROVE x \in D
    <3>1. <<x, y>> \in Pairs /\ <<x, y>>[1] = x
      BY <2>2, PairsAre
    <3> QED BY <3>1
  <2> QED BY <2>1, <2>2
<1>3. Contents = [x \in D |-> (CHOOSE p \in Pairs : p[1] = x)[2]]
  BY DEF Contents
<1> HIDE DEF D
<1>4. Contents = [x \in DOMAIN Contents |-> Contents[x]] /\ DOMAIN Contents = D
  BY <1>3, SMT
<1>5. ASSUME NEW x, NEW y, Stored(heap, x, y) PROVE Contents[x] = y
  <2>1. <<x, y>> \in Pairs /\ <<x, y>>[1] = x
    BY <1>5, PairsAre
  <2> DEFINE q == CHOOSE p \in Pairs : p[1] = x
  <2>2. q \in Pairs /\ q[1] = x
    BY <2>1
  <2> HIDE DEF q
  <2>3. PICK u, z : q = <<u, z>> /\ Stored(heap, u, z)
    BY <2>2, PairsAre
  <2>4. u = x /\ q[2] = z
    BY <2>2, <2>3
  <2>5. z = y
    <3>1. PICK b \in Addresses(heap) : Holds(heap[b], x, y)
      BY <1>5 DEF Stored
    <3>2. \A w : Stored(heap, x, w) => w = y
      BY <1>1, <3>1, StoredOnce
    <3> QED BY <2>3, <2>4, <3>2
  <2>6. x \in D
    BY <1>2, <1>5
  <2> QED BY <1>3, <2>4, <2>5, <2>6 DEF q
<1> QED BY <1>2, <1>4, <1>5 DEF Mapped

\* The maps of the pairs before and after a change.
WithPair(m, k, v) == [x \in DOMAIN m \cup {k} |-> IF x = k THEN v ELSE m[x]]

\* A put changes the map at its key.
LEMMA MappedPut ==
    ASSUME NEW h, NEW m, Mapped(h, m), NEW g, NEW q, Mapped(g, q), NEW k, NEW v, Changed(h, g, k, v)
    PROVE  q = WithPair(m, k, v)
<1>1. Stored(g, k, v) /\ \A x, y : x # k => (Stored(g, x, y) <=> Stored(h, x, y))
  BY DEF Changed
<1>2. DOMAIN q = DOMAIN m \cup {k}
  BY <1>1, SMT DEF Mapped
<1>3. \A x \in DOMAIN q : q[x] = IF x = k THEN v ELSE m[x]
  BY <1>1, SMT DEF Mapped
<1>4. q = [x \in DOMAIN q |-> q[x]]
  BY DEF Mapped
<1>5. [x \in DOMAIN q |-> q[x]] = [x \in DOMAIN q |-> IF x = k THEN v ELSE m[x]]
  BY <1>3
<1> QED BY <1>2, <1>4, <1>5 DEF WithPair

\* A deletion removes its key from the map.
LEMMA MappedDelete ==
    ASSUME NEW h, NEW m, Mapped(h, m), NEW g, NEW q, Mapped(g, q), NEW k, Dropped(h, g, k)
    PROVE  q = [x \in DOMAIN m \ {k} |-> m[x]]
<1>1. DOMAIN q = DOMAIN m \ {k}
  BY DEF Mapped, Dropped
<1>2. \A x \in DOMAIN q : q[x] = m[x]
  BY DEF Mapped, Dropped
<1>3. q = [x \in DOMAIN q |-> q[x]]
  BY DEF Mapped
<1>4. [x \in DOMAIN q |-> q[x]] = [x \in DOMAIN q |-> m[x]]
  BY <1>2
<1> QED BY <1>1, <1>3, <1>4

-----------------------------------------------------------------------------
(* The theorems. *)

\* The shape of the tree survives every Put and Delete, in every order.
THEOREM TreeKeepsItsShape == Spec => []BInv
<1>1. Init => BInv
  BY InitStep
<1>2. BInv /\ [Next]_vars => BInv'
  <2> SUFFICES ASSUME BInv, [Next]_vars PROVE BInv'
    OBVIOUS
  <2>1. CASE Next
    BY <2>1, PutStep, DeleteStep DEF Next
  <2>2. CASE UNCHANGED vars
    BY <2>2 DEF BInv, vars
  <2> QED BY <2>1, <2>2
<1> QED BY <1>1, <1>2, PTL DEF Spec

\* Nodes stay within their order, leaves have a row key for every key, interior
\* nodes a child more than keys, and no pointer dangles (btree.go).
THEOREM BTreeTyped == Spec => []TypeOK
<1>1. BInv => TypeOK
  <2> SUFFICES ASSUME BInv PROVE TypeOK
    OBVIOUS
  <2>1. PICK R, lv, rk : Sound(heap, root, R, lv) /\ Chained(heap, R, rk) /\ Bounded(heap)
    BY DEF BInv, Good, Sound
  <2>2. heap \in Seq(Node) /\ root \in 1..Len(heap) /\ Len(heap) \in Nat
    BY <2>1, SMT DEF Sound, Shape, Addresses
  <2>3. ASSUME NEW a \in 1..Len(heap)
        PROVE  LET n == heap[a]
               IN /\ Len(n.keys) <= Order
                  /\ Len(n.vals) = IF n.leaf THEN Len(n.keys) ELSE 0
                  /\ Len(n.children) = IF n.leaf THEN 0 ELSE Len(n.keys) + 1
                  /\ \A i \in 1..Len(n.children) : n.children[i] <= Len(heap)
                  /\ n.next <= Len(heap)
    <3>1. Formed(heap[a]) /\ a \in Addresses(heap)
      BY <2>1 DEF Sound, Shape, Addresses
    <3>2. \A i \in 1..Len(heap[a].children) : heap[a].children[i] <= Len(heap)
      <4>1. heap[a].leaf => Len(heap[a].children) = 0
        BY <3>1 DEF Formed
      <4>2. \A i \in 1..Len(heap[a].children) : Edge(heap, a, i)
        BY <3>1, <4>1, SMT DEF Edge
      <4> QED BY <2>1, <2>2, <4>2, SMT DEF Sound, Shape, Leveled, Addresses
    <3>3. heap[a].next <= Len(heap)
      <4>1. heap[a].next = nil \/ heap[a].next \in Addresses(heap)
        BY <2>1, <3>1 DEF Bounded, Chained, Leaves
      <4> QED BY <2>2, <4>1, SMT DEF nil, Addresses
    <3> QED BY <2>1, <3>1, <3>2, <3>3 DEF Formed, Bounded
  <2> QED BY <2>2, <2>3 DEF TypeOK
<1> QED BY <1>1, TreeKeepsItsShape, PTL

\* Get (btree.go) finds exactly the keys in the leaves, whatever separators and
\* empty leaves the splits and deletions before it left behind.
THEOREM GetIsExact == Spec => []GetFindsEveryKey
<1>1. BInv => GetFindsEveryKey
  <2> SUFFICES ASSUME BInv, NEW k \in Keys
               PROVE  Get(k) = IF k \in DOMAIN Contents THEN {Contents[k]} ELSE {}
    BY DEF GetFindsEveryKey
  <2> DEFINE a == descend(heap, root, k)
             n == heap[a]
  <2>1. PICK R, lv : Sound(heap, root, R, lv)
    BY DEF BInv, Good, Sound
  <2>2. a \in Leaves(heap) /\ k \in R[a]
    BY <2>1, DescendIs
  <2>3. Get(k) = {n.vals[i] : i \in matches(n.keys, k)}
    BY DEF Get
  <2> HIDE DEF a
  <2>4. Formed(n) /\ n.leaf /\ a \in Addresses(heap)
    BY <2>1, <2>2 DEF Leaves, Sound, Shape
  <2>5. Len(n.vals) = Len(n.keys) /\ matches(n.keys, k) = {i \in 1..Len(n.keys) : n.keys[i] = k}
    <3>1. Len(n.vals) = Len(n.keys)
      BY <2>4 DEF Formed
    <3> QED BY <2>4, <3>1, MatchesAre, SMT
  <2>6. \A y : y \in Get(k) <=> Holds(n, k, y)
    BY <2>3, <2>5 DEF Holds
  <2>7. \A y : Holds(n, k, y) <=> Stored(heap, k, y)
    BY <2>1, <2>2, <2>4, StoredInRange DEF Stored
  <2>8. Mapped(heap, Contents)
    BY ContentsAre DEF MapInv
  <2>9. \A y : y \in Get(k) <=> k \in DOMAIN Contents /\ y = Contents[k]
    BY <2>6, <2>7, <2>8 DEF Mapped
  <2> QED BY <2>9
<1> QED BY <1>1, TreeKeepsItsShape, PTL

\* The tree implements the ordered map: Put and Delete (btree.go) change the pair
\* of the key they are given, and no other.
THEOREM TreeImplementsMap == Spec => ImplementsOrderedMap
<1>1. Init => Abstract!Init
  <2> SUFFICES ASSUME Init PROVE Contents = [k \in {} |-> {}]
    BY DEF Abstract!Init
  <2>1. Mapped(heap, Contents) /\ \A x, y : ~Stored(heap, x, y)
    BY InitStep, ContentsAre DEF MapInv
  <2>2. DOMAIN Contents = {} /\ Contents = [x \in DOMAIN Contents |-> Contents[x]]
    BY <2>1 DEF Mapped
  <2> QED BY <2>2
<1>2. BInv' => MapInv'
  BY ContentsAre, PTL
<1>3. ASSUME BInv, NEW k \in Keys, Put(k, RowKey(k)) PROVE Abstract!Put(k, RowKey(k))
  <2>1. BInv' /\ Changed(heap, heap', k, RowKey(k))
    BY <1>3, PutStep
  <2>2. Mapped(heap, Contents) /\ Mapped(heap', Contents')
    BY <1>2, <1>3, <2>1, ContentsAre DEF MapInv
  <2>3. Contents' = WithPair(Contents, k, RowKey(k))
    BY <2>1, <2>2, MappedPut
  <2> QED BY <2>3 DEF Abstract!Put, WithPair
<1>4. ASSUME BInv, NEW k \in Keys, Delete(k) PROVE Abstract!Delete(k)
  <2>1. BInv' /\ Dropped(heap, heap', k)
    BY <1>4, DeleteStep
  <2>2. Mapped(heap, Contents) /\ Mapped(heap', Contents')
    BY <1>2, <1>4, <2>1, ContentsAre DEF MapInv
  <2> QED BY <2>1, <2>2, MappedDelete DEF Abstract!Delete
<1>5. BInv /\ [Next]_vars => [Abstract!Next]_Contents
  <2> SUFFICES ASSUME BInv, [Next]_vars PROVE [Abstract!Next]_Contents
    OBVIOUS
  <2>1. CASE Next
    <3>1. PICK k \in Keys : Put(k, RowKey(k)) \/ Delete(k)
      BY <2>1 DEF Next
    <3>2. RowKey(k) \in RowKeys
      BY DEF RowKeys
    <3> QED BY <1>3, <1>4, <3>1, <3>2 DEF Abstract!Next
  <2>2. CASE UNCHANGED vars
    BY <2>2, SMT DEF vars, Contents, Pairs
  <2> QED BY <2>1, <2>2
<1>6. BInv => \A k \in Keys : /\ Put(k, RowKey(k)) => Abstract!Put(k, RowKey(k))
                             /\ Delete(k) => Abstract!Delete(k)
  BY <1>3, <1>4
<1> QED BY <1>1, <1>5, <1>6, TreeKeepsItsShape, PTL DEF Spec, ImplementsOrderedMap, Abstract!Spec

-----------------------------------------------------------------------------
(* Lists of pairs. *)

\* q has the pairs of P, in the order of their keys.
Lists(q, P) ==
    /\ q \in Seq(Keys \X RowKeys)
    /\ \A i, j \in 1..Len(q) : i < j => Less(q[i][1], q[j][1])
    /\ \A p : p \in P <=> \E i \in 1..Len(q) : q[i] = p

Precedes(P, U) == \A x \in P, y \in U : Less(x[1], y[1])

\* Two lists, of which the first precedes the second, make one.
LEMMA ListsConcat ==
    ASSUME NEW q, NEW P, Lists(q, P), NEW t, NEW U, Lists(t, U), Precedes(P, U)
    PROVE  Lists(q \o t, P \cup U)
<1> DEFINE s == q \o t
           m == Len(q)
           n == Len(t)
<1>1. q \in Seq(Keys \X RowKeys) /\ t \in Seq(Keys \X RowKeys) /\ m \in Nat /\ n \in Nat
  BY SMT DEF Lists
<1>2. /\ s \in Seq(Keys \X RowKeys) /\ Len(s) = m + n
      /\ \A i \in 1..m : s[i] = q[i]
      /\ \A i \in 1..n : s[m + i] = t[i]
  BY <1>1, SMT
<1>3. /\ \A i, j \in 1..m : i < j => Less(q[i][1], q[j][1])
      /\ \A i, j \in 1..n : i < j => Less(t[i][1], t[j][1])
      /\ \A p : p \in P <=> \E i \in 1..m : q[i] = p
      /\ \A p : p \in U <=> \E i \in 1..n : t[i] = p
  BY DEF Lists
<1> HIDE DEF s, m, n
<1>4. \A i \in 1..(m + n) : i \in 1..m \/ (i - m \in 1..n /\ s[i] = t[i - m])
  <2> SUFFICES ASSUME NEW i \in 1..(m + n), i \notin 1..m PROVE i - m \in 1..n /\ s[i] = t[i - m]
    OBVIOUS
  <2>1. i - m \in 1..n /\ m + (i - m) = i
    BY <1>1, SMT
  <2>2. s[m + (i - m)] = t[i - m]
    BY <1>2, <2>1
  <2> QED BY <2>1, <2>2
<1>5. ASSUME NEW i \in 1..(m + n), NEW j \in 1..(m + n), i < j PROVE Less(s[i][1], s[j][1])
  <2>1. CASE i \in 1..m /\ j \in 1..m
    BY <1>2, <1>3, <1>5, <2>1, SMT
  <2>2. CASE i \in 1..m /\ j \notin 1..m
    <3>1. s[i] = q[i] /\ s[j] = t[j - m] /\ j - m \in 1..n
      BY <1>2, <1>4, <2>2
    <3>2. q[i] \in P /\ t[j - m] \in U
      BY <1>3, <2>2, <3>1
    <3> QED BY <3>1, <3>2 DEF Precedes
  <2>3. CASE i \notin 1..m /\ j \notin 1..m
    <3>1. i - m < j - m
      BY <1>1, <1>5, SMT
    <3> QED BY <1>3, <1>4, <2>3, <3>1, SMT
  <2>4. CASE i \notin 1..m /\ j \in 1..m
    BY <1>1, <1>5, <2>4, SMT
  <2> QED BY <2>1, <2>2, <2>3, <2>4, SMT
<1>6. ASSUME NEW p PROVE p \in P \cup U <=> \E i \in 1..(m + n) : s[i] = p
  <2>1. ASSUME p \in P PROVE \E i \in 1..(m + n) : s[i] = p
    <3>1. PICK i \in 1..m : q[i] = p
      BY <1>3, <2>1
    <3>2. i \in 1..(m + n)
      BY <1>1, SMT
    <3> QED BY <1>2, <3>1, <3>2
  <2>2. ASSUME p \in U PROVE \E i \in 1..(m + n) : s[i] = p
    <3>1. PICK i \in 1..n : t[i] = p
      BY <1>3, <2>2
    <3>2. m + i \in 1..(m + n)
      BY <1>1, SMT
    <3> QED BY <1>2, <3>1, <3>2, SMT
  <2>3. ASSUME NEW i \in 1..(m + n), s[i] = p PROVE p \in P \cup U
    BY <1>2, <1>3, <1>4, <2>3
  <2> QED BY <2>1, <2>2, <2>3
<1> QED BY <1>2, <1>5, <1>6 DEF Lists, s

\* The pairs of a leaf.
Held(n) == {pairs(n)[i] : i \in 1..Len(n.vals)}

\* The pairs of a leaf.
LEMMA PairsOfLeaf ==
    ASSUME NEW n, Formed(n), n.leaf
    PROVE  /\ Len(n.keys) \in Nat /\ Len(n.vals) = Len(n.keys) /\ Sorted(n.keys)
           /\ pairs(n) \in Seq(Keys \X RowKeys) /\ Len(pairs(n)) = Len(n.keys)
           /\ \A i \in 1..Len(n.keys) : pairs(n)[i] = <<n.keys[i], n.vals[i]>> /\ pairs(n)[i][1] = n.keys[i]
<1> DEFINE N == Len(n.keys)
<1>1. n.keys \in Seq(Keys) /\ n.vals \in Seq(RowKeys) /\ N \in Nat /\ Len(n.vals) = N /\ Sorted(n.keys)
  BY NodeParts
<1>2. \A i \in 1..N : n.keys[i] \in Keys /\ n.vals[i] \in RowKeys
  BY <1>1, SMT
<1>3. pairs(n) = [i \in 1..N |-> <<n.keys[i], n.vals[i]>>]
  BY <1>1 DEF pairs
<1> HIDE DEF N
<1>4. \A i \in 1..N : <<n.keys[i], n.vals[i]>> \in Keys \X RowKeys
  BY <1>2
<1>5. pairs(n) \in Seq(Keys \X RowKeys) /\ Len(pairs(n)) = N
  BY <1>1, <1>3, <1>4, SMT
<1>6. \A i \in 1..N : pairs(n)[i] = <<n.keys[i], n.vals[i]>> /\ pairs(n)[i][1] = n.keys[i]
  BY <1>3, SMT
<1> QED BY <1>1, <1>5, <1>6 DEF N

\* A leaf lists its pairs in order.
LEMMA LeafListed ==
    ASSUME NEW n, Formed(n), n.leaf
    PROVE  Lists(pairs(n), Held(n))
<1>1. /\ Len(n.keys) \in Nat /\ Len(n.vals) = Len(n.keys) /\ Sorted(n.keys)
      /\ pairs(n) \in Seq(Keys \X RowKeys) /\ Len(pairs(n)) = Len(n.keys)
      /\ \A i \in 1..Len(n.keys) : pairs(n)[i][1] = n.keys[i]
  BY PairsOfLeaf
<1>2. \A i, j \in 1..Len(n.keys) : i < j => Less(pairs(n)[i][1], pairs(n)[j][1])
  BY <1>1 DEF Sorted
<1>3. \A p : p \in Held(n) <=> \E i \in 1..Len(n.keys) : pairs(n)[i] = p
  BY <1>1 DEF Held
<1> QED BY <1>1, <1>2, <1>3 DEF Lists

\* The rest of a leaf behind its first m pairs.
Remaining(n, m) == SubSeq(pairs(n), m + 1, Len(n.keys))
HeldBehind(n, m) == {pairs(n)[i] : i \in (m + 1)..Len(n.keys)}

\* So does what is left of a leaf from a position on.
LEMMA RestListed ==
    ASSUME NEW n, Formed(n), n.leaf, NEW m \in 0..Len(n.keys)
    PROVE  Lists(Remaining(n, m), HeldBehind(n, m))
<1> DEFINE q == pairs(n)
           t == Remaining(n, m)
           N == Len(n.keys)
<1>1. /\ N \in Nat /\ Sorted(n.keys) /\ q \in Seq(Keys \X RowKeys) /\ Len(q) = N
      /\ \A i \in 1..N : q[i][1] = n.keys[i]
  BY PairsOfLeaf
<1> HIDE DEF q
<1>2. t \in Seq(Keys \X RowKeys) /\ Behind(q, m, t)
  <2>1. m \in 0..Len(q)
    BY <1>1
  <2>2. SubSeq(q, m + 1, Len(q)) \in Seq(Keys \X RowKeys) /\ Divided(q, m, SubSeq(q, 1, m), SubSeq(q, m + 1, Len(q)))
    BY <1>1, <2>1, SubSeqDivides
  <2>3. t = SubSeq(q, m + 1, Len(q))
    BY <1>1 DEF Remaining, q
  <2> HIDE DEF t
  <2> QED BY <2>2, <2>3 DEF Divided
<1>3. \A i, j \in 1..N : i < j => Less(q[i][1], q[j][1])
  BY <1>1 DEF Sorted
<1> HIDE DEF t, N
<1>4. m \in Nat /\ m <= N /\ Len(t) = N - m /\ \A i \in 1..(N - m) : t[i] = q[m + i] /\ m + i \in 1..N
  <2>1. m \in Nat /\ m <= N
    BY <1>1, SMT DEF N
  <2>2. \A i \in 1..(N - m) : m + i \in 1..N
    BY <1>1, <2>1, SMT
  <2> QED BY <1>1, <1>2, <2>1, <2>2 DEF Behind
<1>5. \A i, j \in 1..(N - m) : i < j => Less(t[i][1], t[j][1])
  <2> SUFFICES ASSUME NEW i \in 1..(N - m), NEW j \in 1..(N - m), i < j PROVE Less(t[i][1], t[j][1])
    OBVIOUS
  <2>1. m + i < m + j
    BY <1>4, SMT
  <2> QED BY <1>3, <1>4, <2>1
<1>6. ASSUME NEW p PROVE p \in HeldBehind(n, m) <=> \E i \in 1..(N - m) : t[i] = p
  <2>1. p \in HeldBehind(n, m) <=> \E j \in (m + 1)..N : q[j] = p
    BY DEF HeldBehind, q, N
  <2>2. ASSUME NEW j \in (m + 1)..N, q[j] = p PROVE \E i \in 1..(N - m) : t[i] = p
    <3>1. j - m \in 1..(N - m) /\ m + (j - m) = j
      BY <1>1, <1>4, SMT
    <3>2. t[j - m] = q[m + (j - m)]
      BY <1>4, <3>1
    <3> QED BY <2>2, <3>1, <3>2
  <2>3. \A i \in 1..(N - m) : m + i \in (m + 1)..N
    BY <1>1, <1>4, SMT
  <2>4. ASSUME NEW i \in 1..(N - m), t[i] = p PROVE \E j \in (m + 1)..N : q[j] = p
    BY <1>4, <2>3, <2>4
  <2> QED BY <2>1, <2>2, <2>4
<1> QED BY <1>2, <1>4, <1>5, <1>6 DEF Lists, t

-----------------------------------------------------------------------------
(* Walking the chain. *)

\* There are finitely many leaves, so their ranks are bounded.
LEMMA RanksBounded ==
    ASSUME NEW h, Len(h) \in Nat, NEW R, NEW rk, Chained(h, R, rk)
    PROVE  \E B \in Nat : \A a \in Leaves(h) : rk[a] <= B
<1> DEFINE S == {m \in Nat : \E B \in Nat : \A a \in Leaves(h) : a <= m => rk[a] <= B}
<1>1. \A a \in Leaves(h) : rk[a] \in Nat /\ a \in Nat /\ a >= 1 /\ a <= Len(h)
  BY SMT DEF Chained, Leaves, Addresses
<1>2. 0 \in S
  <2>1. \A a \in Leaves(h) : ~(a <= 0)
    BY <1>1, SMT
  <2> QED BY <2>1
<1>3. ASSUME NEW m \in S PROVE m + 1 \in S
  <2>1. PICK B \in Nat : \A a \in Leaves(h) : a <= m => rk[a] <= B
    BY <1>3
  <2>2. CASE m + 1 \in Leaves(h)
    <3>1. \A a \in Leaves(h) : a <= m + 1 => rk[a] <= B + rk[m + 1]
      <4>1. rk[m + 1] \in Nat
        BY <1>1, <2>2
      <4>2. \A a \in Leaves(h) : a <= m + 1 => a <= m \/ a = m + 1
        BY <1>1, SMT
      <4> QED BY <1>1, <2>1, <4>1, <4>2, SMT
    <3>2. B + rk[m + 1] \in Nat
      BY <1>1, <2>2, SMT
    <3> QED BY <3>1, <3>2, SMT
  <2>3. CASE m + 1 \notin Leaves(h)
    <3>1. \A a \in Leaves(h) : a <= m + 1 => a <= m
      BY <1>1, <2>3, SMT
    <3> QED BY <2>1, <3>1, SMT
  <2> QED BY <2>2, <2>3
<1>4. S = Nat
  <2>1. S \in SUBSET Nat
    OBVIOUS
  <2> HIDE DEF S
  <2> QED BY <1>2, <1>3, <2>1, NatInd
<1>5. PICK B \in Nat : \A a \in Leaves(h) : a <= Len(h) => rk[a] <= B
  BY <1>4
<1> QED BY <1>1, <1>5

\* What an iterator returns from node b on, when f says what it returns from the next.
Onward(h, f, b) == IF b = nil THEN << >> ELSE pairs(h[b]) \o f[h[b].next]

\* The recursive definition of what is behind a leaf has a solution: the chain ends.
LEMMA ChainEnds ==
    ASSUME NEW h, NEW r, NEW R, NEW lv, NEW rk, Sound(h, r, R, lv), Chained(h, R, rk), Bounded(h)
    PROVE  \E f : f = [b \in 0..Len(h) |-> Onward(h, f, b)]
<1> DEFINE D == 0..Len(h)
           wt == [b \in D |-> IF b = nil THEN 0 ELSE IF h[b].leaf THEN rk[b] + 1 ELSE 1]
<1>1. Len(h) \in Nat
  BY SMT DEF Sound, Shape
<1>2. PICK B \in Nat : \A a \in Leaves(h) : rk[a] <= B
  BY <1>1, RanksBounded
<1>3. \A b \in D : b # nil => b \in Addresses(h)
  BY <1>1, SMT DEF nil, Addresses
<1>4. nil \in D /\ \A b \in Leaves(h) : b \in D /\ b # nil
  BY <1>1, SMT DEF nil, Leaves, Addresses
<1>5. wt[nil] = 0 /\ \A b \in D : b # nil => wt[b] = IF h[b].leaf THEN rk[b] + 1 ELSE 1
  BY <1>4
<1> HIDE DEF D, wt
<1>6. \A b \in Leaves(h) : /\ rk[b] \in Nat /\ wt[b] = rk[b] + 1
                           /\ h[b].next # nil => h[b].next \in Leaves(h) /\ rk[h[b].next] = rk[b] - 1
  BY <1>4, <1>5, SMT DEF Chained, Leaves
<1>7. ASSUME NEW b \in D, b # nil PROVE h[b].next \in D /\ wt[h[b].next] < wt[b]
  <2>1. CASE b \in Leaves(h) /\ h[b].next # nil
    BY <1>4, <1>6, <2>1, SMT
  <2>2. CASE b \in Leaves(h) /\ h[b].next = nil
    BY <1>4, <1>5, <1>6, <2>2, SMT
  <2>3. CASE b \notin Leaves(h)
    <3>1. b \in Addresses(h) /\ ~h[b].leaf /\ h[b].next = nil
      BY <1>3, <1>7, <2>3 DEF Bounded, Leaves
    <3> QED BY <1>4, <1>5, <1>7, <3>1, SMT
  <2> QED BY <2>1, <2>2, <2>3
<1>8. \A b \in D : wt[b] \in Nat /\ wt[b] <= B + 1
  <2> SUFFICES ASSUME NEW b \in D PROVE wt[b] \in Nat /\ wt[b] <= B + 1
    OBVIOUS
  <2>1. CASE b \in Leaves(h)
    BY <1>2, <1>6, <2>1, SMT
  <2>2. CASE b = nil
    BY <1>2, <1>5, <2>2, SMT
  <2>3. CASE b \notin Leaves(h) /\ b # nil
    <3>1. ~h[b].leaf
      BY <1>3, <2>3 DEF Leaves
    <3> QED BY <1>2, <1>5, <2>3, <3>1, SMT
  <2> QED BY <2>1, <2>2, <2>3
<1> DEFINE Solves(f, m) == f = [b \in D |-> f[b]] /\ \A b \in D : wt[b] <= m => f[b] = Onward(h, f, b)
           S == {m \in Nat : \E f : Solves(f, m)}
<1>9. 0 \in S
  <2> DEFINE f == [b \in D |-> << >>]
  <2>1. \A b \in D : wt[b] <= 0 => b = nil
    <3> SUFFICES ASSUME NEW b \in D, b # nil PROVE ~(wt[b] <= 0)
      OBVIOUS
    <3>1. h[b].next \in D /\ wt[h[b].next] < wt[b]
      BY <1>7
    <3> QED BY <1>8, <3>1, SMT
  <2>2. f[nil] = << >> /\ f = [b \in D |-> f[b]]
    BY <1>4
  <2> HIDE DEF f
  <2>3. Solves(f, 0)
    BY <2>1, <2>2 DEF Onward
  <2> HIDE DEF Solves
  <2> QED BY <2>3
<1>10. ASSUME NEW m \in S PROVE m + 1 \in S
  <2>1. PICK f : Solves(f, m)
    BY <1>10
  <2> DEFINE g == [b \in D |-> IF wt[b] <= m THEN f[b] ELSE Onward(h, f, b)]
  <2>2. g = [b \in D |-> g[b]]
    OBVIOUS
  <2>3. \A b \in D : (wt[b] <= m => g[b] = f[b]) /\ (~(wt[b] <= m) => g[b] = Onward(h, f, b))
    OBVIOUS
  <2> HIDE DEF g
  <2>4. ASSUME NEW b \in D, wt[b] <= m + 1 PROVE g[b] = Onward(h, g, b)
    <3>1. g[b] = Onward(h, f, b)
      BY <2>1, <2>3
    <3>2. CASE b = nil
      BY <3>1, <3>2 DEF Onward
    <3>3. CASE b # nil
      <4>1. h[b].next \in D /\ wt[h[b].next] <= m
        <5>1. h[b].next \in D /\ wt[h[b].next] < wt[b]
          BY <1>7, <3>3
        <5>2. wt[b] \in Nat /\ wt[h[b].next] \in Nat /\ m \in Nat
          BY <1>8, <1>10, <5>1
        <5> QED BY <2>4, <5>1, <5>2, SMT
      <4>2. g[h[b].next] = f[h[b].next]
        BY <2>3, <4>1
      <4> QED BY <3>1, <3>3, <4>2 DEF Onward
    <3> QED BY <3>2, <3>3
  <2>5. Solves(g, m + 1) /\ m + 1 \in Nat
    BY <2>2, <2>4, SMT
  <2> HIDE DEF Solves
  <2> QED BY <2>5
<1>11. S = Nat
  <2>1. S \in SUBSET Nat
    OBVIOUS
  <2> HIDE DEF S
  <2> QED BY <1>9, <1>10, <2>1, NatInd
<1>12. PICK f : Solves(f, B + 1)
  <2>1. B + 1 \in S
    BY <1>11, SMT
  <2> QED BY <2>1
<1>13. [b \in D |-> f[b]] = [b \in D |-> Onward(h, f, b)]
  BY <1>8, <1>12
<1>14. f = [b \in D |-> Onward(h, f, b)]
  BY <1>12, <1>13
<1> QED BY <1>14 DEF D

\* The pairs of the leaves with fewer than m leaves behind them.
HeldFrom(h, rk, m) == UNION {Held(h[c]) : c \in {x \in Leaves(h) : rk[x] < m}}

\* The key of a pair is in the range of its leaf.
LEMMA HeldInRange ==
    ASSUME NEW h, NEW r, NEW R, NEW lv, Sound(h, r, R, lv), NEW a \in Leaves(h), NEW p \in Held(h[a])
    PROVE  p[1] \in R[a] /\ p[1] \in Keys
<1>1. Formed(h[a]) /\ h[a].leaf /\ a \in Addresses(h)
  BY DEF Leaves, Sound, Shape
<1>2. Len(h[a].vals) = Len(h[a].keys) /\ \A i \in 1..Len(h[a].keys) : pairs(h[a])[i][1] = h[a].keys[i]
  BY <1>1, PairsOfLeaf
<1>3. \E i \in 1..Len(h[a].keys) : p[1] = h[a].keys[i]
  BY <1>2, SMT DEF Held
<1> QED BY <1>1, <1>3 DEF Sound, Shape, Ranged

\* What is behind a leaf is in the leaves of lower rank, in order.
LEMMA TailListed ==
    ASSUME NEW h, NEW r, NEW R, NEW lv, NEW rk, Sound(h, r, R, lv), Chained(h, R, rk),
           NEW f, f = [b \in 0..Len(h) |-> Onward(h, f, b)], NEW a \in Leaves(h)
    PROVE  Lists(f[h[a].next], HeldFrom(h, rk, rk[a]))
<1>1. Len(h) \in Nat
  BY SMT DEF Sound, Shape
<1>2. /\ f[nil] = << >>
      /\ \A b \in Leaves(h) : f[b] = pairs(h[b]) \o f[h[b].next]
  <2>1. nil \in 0..Len(h) /\ \A b \in Leaves(h) : b \in 0..Len(h) /\ b # nil
    BY <1>1, SMT DEF nil, Leaves, Addresses
  <2>2. \A b \in 0..Len(h) : f[b] = Onward(h, f, b)
    OBVIOUS
  <2> QED BY <2>1, <2>2 DEF Onward
<1>3. /\ \A b \in Leaves(h) : /\ rk[b] \in Nat /\ (h[b].next = nil <=> rk[b] = 0)
                              /\ h[b].next # nil => h[b].next \in Leaves(h) /\ rk[h[b].next] = rk[b] - 1
      /\ \A b, c \in Leaves(h) : rk[b] = rk[c] => b = c
      /\ \A b, c \in Leaves(h) : rk[c] < rk[b] => \A x \in R[b], y \in R[c] : Less(x, y)
  BY DEF Chained
<1> DEFINE T(b) == Lists(f[h[b].next], HeldFrom(h, rk, rk[b]))
           S == {m \in Nat : \A b \in Leaves(h) : rk[b] = m => T(b)}
<1>4. 0 \in S
  <2> SUFFICES ASSUME NEW b \in Leaves(h), rk[b] = 0 PROVE T(b)
    OBVIOUS
  <2>1. f[h[b].next] = << >>
    BY <1>2, <1>3
  <2>2. HeldFrom(h, rk, rk[b]) = {}
    <3>1. \A c \in Leaves(h) : ~(rk[c] < rk[b])
      BY <1>3, SMT
    <3> QED BY <3>1 DEF HeldFrom
  <2>3. Lists(<< >>, {})
    BY SMT DEF Lists
  <2> QED BY <2>1, <2>2, <2>3
<1>5. ASSUME NEW m \in S PROVE m + 1 \in S
  <2> SUFFICES ASSUME NEW b \in Leaves(h), rk[b] = m + 1 PROVE T(b)
    BY SMT
  <2> DEFINE c == h[b].next
  <2>1. m \in Nat /\ c \in Leaves(h) /\ rk[c] = m /\ rk[b] = m + 1
    BY <1>3, <1>5, SMT
  <2>2. T(c)
    BY <1>5, <2>1
  <2> HIDE DEF c
  <2>3. f[c] = pairs(h[c]) \o f[h[c].next]
    BY <1>2, <2>1
  <2>4. Lists(pairs(h[c]), Held(h[c]))
    BY <2>1, LeafListed DEF Leaves, Sound, Shape
  <2>5. Precedes(Held(h[c]), HeldFrom(h, rk, rk[c]))
    <3> SUFFICES ASSUME NEW x \in Held(h[c]), NEW y \in HeldFrom(h, rk, rk[c]) PROVE Less(x[1], y[1])
      BY DEF Precedes
    <3>1. PICK d \in Leaves(h) : rk[d] < rk[c] /\ y \in Held(h[d])
      BY DEF HeldFrom
    <3>2. x[1] \in R[c] /\ y[1] \in R[d]
      BY <2>1, <3>1, HeldInRange
    <3> QED BY <1>3, <2>1, <3>1, <3>2
  <2>6. Lists(f[c], Held(h[c]) \cup HeldFrom(h, rk, rk[c]))
    <3>1. Lists(pairs(h[c]) \o f[h[c].next], Held(h[c]) \cup HeldFrom(h, rk, rk[c]))
      BY <2>2, <2>4, <2>5, ListsConcat
    <3> QED BY <2>3, <3>1
  <2>7. Held(h[c]) \cup HeldFrom(h, rk, rk[c]) = HeldFrom(h, rk, rk[b])
    <3>1. \A d \in Leaves(h) : rk[d] < rk[b] <=> d = c \/ rk[d] < rk[c]
      <4> SUFFICES ASSUME NEW d \in Leaves(h) PROVE rk[d] < rk[b] <=> d = c \/ rk[d] < rk[c]
        OBVIOUS
      <4>1. rk[d] \in Nat /\ (rk[d] = m <=> d = c)
        BY <1>3, <2>1
      <4> QED BY <2>1, <4>1, SMT
    <3> QED BY <2>1, <3>1 DEF HeldFrom
  <2> QED BY <2>6, <2>7 DEF c
<1>6. S = Nat
  <2>1. S \in SUBSET Nat
    OBVIOUS
  <2> HIDE DEF S
  <2> QED BY <1>4, <1>5, <2>1, NatInd
<1> QED BY <1>3, <1>6

\* Every iterator returns the rest of its leaf and what is behind it.
LEMMA DrainListed ==
    ASSUME NEW R, NEW lv, NEW rk, Sound(heap, root, R, lv), Chained(heap, R, rk), Bounded(heap),
           NEW a \in Leaves(heap), NEW m \in 0..Len(heap[a].keys)
    PROVE  Lists(Drain(a, m + 1), HeldBehind(heap[a], m) \cup HeldFrom(heap, rk, rk[a]))
<1> DEFINE f == CHOOSE g : g = [b \in 0..Len(heap) |-> Onward(heap, g, b)]
<1>1. f = [b \in 0..Len(heap) |-> Onward(heap, f, b)]
  BY ChainEnds
<1>2. Drain(a, m + 1) = Remaining(heap[a], m) \o f[heap[a].next]
  BY DEF Drain, Onward, Remaining
<1> HIDE DEF f
<1>3. Lists(f[heap[a].next], HeldFrom(heap, rk, rk[a]))
  BY <1>1, TailListed
<1>4. Formed(heap[a]) /\ heap[a].leaf /\ a \in Addresses(heap)
  BY DEF Leaves, Sound, Shape
<1>5. Lists(Remaining(heap[a], m), HeldBehind(heap[a], m))
  BY <1>4, RestListed
<1>6. HeldBehind(heap[a], m) \subseteq Held(heap[a])
  <2>1. Len(heap[a].vals) = Len(heap[a].keys) /\ Len(heap[a].keys) \in Nat
    BY <1>4, PairsOfLeaf
  <2>2. \A i \in (m + 1)..Len(heap[a].keys) : i \in 1..Len(heap[a].vals)
    BY <2>1, SMT
  <2> QED BY <2>2 DEF HeldBehind, Held
<1>7. Precedes(HeldBehind(heap[a], m), HeldFrom(heap, rk, rk[a]))
  <2> SUFFICES ASSUME NEW x \in HeldBehind(heap[a], m), NEW y \in HeldFrom(heap, rk, rk[a])
               PROVE  Less(x[1], y[1])
    BY DEF Precedes
  <2>1. PICK d \in Leaves(heap) : rk[d] < rk[a] /\ y \in Held(heap[d])
    BY DEF HeldFrom
  <2>2. x[1] \in R[a] /\ y[1] \in R[d]
    BY <1>6, <2>1, HeldInRange
  <2> QED BY <2>1, <2>2 DEF Chained
<1>8. Lists(Remaining(heap[a], m) \o f[heap[a].next], HeldBehind(heap[a], m) \cup HeldFrom(heap, rk, rk[a]))
  BY <1>3, <1>5, <1>7, ListsConcat
<1> QED BY <1>2, <1>8

-----------------------------------------------------------------------------
(* The leftmost leaf. *)

LeftBelow(h, b) == IF h[b].leaf THEN b ELSE h[b].children[1]

\* The recursive definition of the way to the leftmost leaf has a solution.
LEMMA LeftPathExists ==
    ASSUME NEW h, Len(h) \in Nat, NEW a
    PROVE  \E p : /\ leftmost(h, a) = p[Len(h)] /\ p[0] = a
                  /\ \A i \in 1..Len(h) : p[i] = LeftBelow(h, p[i - 1])
<1> DEFINE Step(f, i) == IF i = 0 THEN a ELSE LeftBelow(h, f[i - 1])
           Solves(f, m) == f = [i \in 0..m |-> Step(f, i)]
           S == {m \in Nat : \E f : Solves(f, m)}
<1>1. 0 \in S
  <2> DEFINE f == [i \in 0..0 |-> a]
  <2>1. f = [i \in 0..0 |-> Step(f, i)]
    BY SMT
  <2> QED BY <2>1
<1>2. ASSUME NEW m \in S PROVE m + 1 \in S
  <2>1. PICK f : Solves(f, m)
    BY <1>2
  <2> DEFINE g == [i \in 0..(m + 1) |-> IF i = m + 1 THEN LeftBelow(h, f[m]) ELSE f[i]]
  <2>2. \A i \in 0..m : f[i] = Step(f, i) /\ g[i] = f[i] /\ i # m + 1
    BY <2>1, SMT
  <2>3. g[m + 1] = LeftBelow(h, f[m]) /\ m \in 0..m /\ m \in Nat /\ 0 \in 0..m
    BY SMT
  <2>4. g = [i \in 0..(m + 1) |-> g[i]]
    OBVIOUS
  <2> HIDE DEF g
  <2>5. \A i \in 0..(m + 1) : g[i] = Step(g, i)
    <3> SUFFICES ASSUME NEW i \in 0..(m + 1) PROVE g[i] = Step(g, i)
      OBVIOUS
    <3>1. CASE i = m + 1
      <4>1. i # 0 /\ i - 1 = m
        BY <2>3, <3>1, SMT
      <4>2. g[i - 1] = f[m]
        BY <2>2, <2>3, <4>1
      <4> QED BY <2>3, <3>1, <4>1, <4>2
    <3>2. CASE i \in 0..m /\ i # 0
      <4>1. i - 1 \in 0..m
        BY <2>3, <3>2, SMT
      <4>2. g[i - 1] = f[i - 1] /\ g[i] = f[i] /\ f[i] = Step(f, i)
        BY <2>2, <3>2, <4>1
      <4> QED BY <3>2, <4>2
    <3>3. CASE i = 0
      <4>1. g[0] = f[0] /\ f[0] = Step(f, 0)
        BY <2>2, <2>3
      <4> QED BY <3>3, <4>1
    <3> QED BY <2>3, <3>1, <3>2, <3>3, SMT
  <2>6. Solves(g, m + 1) /\ m + 1 \in Nat
    <3>1. [i \in 0..(m + 1) |-> g[i]] = [i \in 0..(m + 1) |-> Step(g, i)]
      BY <2>5
    <3>2. g = [i \in 0..(m + 1) |-> Step(g, i)]
      BY <2>4, <3>1
    <3>3. m + 1 \in Nat
      BY <2>3, SMT
    <3> QED BY <3>2, <3>3
  <2> HIDE DEF Solves
  <2> QED BY <2>6
<1>3. S = Nat
  <2>1. S \in SUBSET Nat
    OBVIOUS
  <2> HIDE DEF S
  <2> QED BY <1>1, <1>2, <2>1, NatInd
<1> DEFINE p == CHOOSE f : f = [i \in 0..Len(h) |-> Step(f, i)]
<1>4. Solves(p, Len(h))
  BY <1>3
<1>5. leftmost(h, a) = p[Len(h)]
  BY DEF leftmost, LeftBelow
<1> HIDE DEF p
<1>6. \A i \in 0..Len(h) : p[i] = Step(p, i)
  BY <1>4
<1>7. 0 \in 0..Len(h) /\ \A i \in 1..Len(h) : i \in 0..Len(h) /\ i # 0
  BY SMT
<1> QED BY <1>5, <1>6, <1>7

\* X comes before every other key.
Initial(X) == \A x \in X : \A z \in Keys \ X : Less(x, z)

\* The leftmost leaf has every other leaf behind it.
LEMMA LeftmostIs ==
    ASSUME NEW h, NEW r, NEW R, NEW lv, NEW rk, Sound(h, r, R, lv), Chained(h, R, rk)
    PROVE  leftmost(h, r) \in Leaves(h) /\ \A c \in Leaves(h) : rk[c] <= rk[leftmost(h, r)]
<1> DEFINE N == Len(h)
<1>1. h \in Seq(Node) /\ N \in Nat /\ r \in Addresses(h) /\ R[r] = Keys
  BY SMT DEF Sound, Shape, Whole
<1>2. PICK p : leftmost(h, r) = p[N] /\ p[0] = r /\ \A i \in 1..N : p[i] = LeftBelow(h, p[i - 1])
  BY <1>1, LeftPathExists, SMT
<1> HIDE DEF N
<1>3. \A b \in Addresses(h) : lv[b] \in 0..(N - 1)
  BY DEF Sound, Shape, Leveled, N
<1> DEFINE On(i) == p[i] \in Addresses(h) /\ Initial(R[p[i]]) /\ (h[p[i]].leaf \/ lv[p[i]] + i <= lv[r])
           S == {i \in Nat : i <= N => On(i)}
<1>4. 0 \in S
  <2>1. lv[r] + 0 <= lv[r]
    BY <1>1, <1>3, SMT
  <2> QED BY <1>1, <1>2, <2>1 DEF Initial
<1>5. ASSUME NEW i \in S PROVE i + 1 \in S
  <2> SUFFICES ASSUME i + 1 <= N PROVE On(i + 1)
    BY SMT
  <2> DEFINE b == p[i]
             c == p[i + 1]
  <2>1. On(i) /\ i \in Nat
    BY <1>1, <1>5, SMT
  <2>2. c = LeftBelow(h, b)
    <3>1. i + 1 \in 1..N /\ (i + 1) - 1 = i
      BY <1>1, <2>1, SMT
    <3> QED BY <1>2, <3>1
  <2>3. CASE h[b].leaf
    <3>1. c = b
      BY <2>2, <2>3 DEF LeftBelow
    <3> QED BY <2>1, <2>3, <3>1
  <2>4. CASE ~h[b].leaf
    <3>1. b \in Addresses(h) /\ Initial(R[b]) /\ lv[b] + i <= lv[r] /\ Formed(h[b]) /\ R[b] \subseteq Keys
      BY <2>1, <2>4 DEF Sound, Shape, Ranged
    <3> DEFINE ks == h[b].keys
    <3>2. ks \in Seq(Keys) /\ Len(ks) \in Nat /\ Len(h[b].children) = Len(ks) + 1
      BY <2>4, <3>1, NodeParts
    <3>3. Edge(h, b, 1) /\ c = h[b].children[1]
      BY <2>2, <2>4, <3>1, <3>2, SMT DEF Edge, LeftBelow
    <3>4. c \in Addresses(h) /\ lv[c] < lv[b] /\ R[c] = {k \in R[b] : IsChild(ks, k, 1)}
      <4>1. c \in Addresses(h) /\ lv[c] < lv[b]
        BY <3>3 DEF Sound, Shape, Leveled
      <4>2. R[c] = {k \in R[b] : IsChild(ks, k, 1)}
        <5>1. Passed(h, R, nil, nil)
          BY DEF Sound, Shape
        <5>2. Whole(R, nil, nil, c) = {k \in R[b] : IsChild(ks, k, 1)}
          BY <3>3, <5>1 DEF Passed
        <5> QED BY <5>2 DEF Whole
      <4> QED BY <4>1, <4>2
    <3>5. \A k : IsChild(ks, k, 1) <=> (1 <= Len(ks) => Less(k, ks[1]))
      BY <3>2, SMT DEF IsChild
    <3>6. ASSUME NEW x \in R[c], NEW z \in Keys \ R[c] PROVE Less(x, z)
      <4>1. CASE z \notin R[b]
        BY <3>1, <3>4, <4>1 DEF Initial
      <4>2. CASE z \in R[b]
        <5>1. 1 <= Len(ks) /\ ~Less(z, ks[1]) /\ Less(x, ks[1])
          BY <3>4, <3>5, <4>2
        <5>2. ks[1] \in Keys /\ x \in Keys /\ z \in Keys
          <6>1. ks[1] \in Keys
            <7> HIDE DEF ks
            <7> QED BY <3>2, <5>1, SMT
          <6> QED BY <3>1, <3>4, <6>1
        <5>3. z = ks[1] \/ Less(ks[1], z)
          BY <5>1, <5>2, LessTotal
        <5> QED BY <5>1, <5>2, <5>3, LessTransitive
      <4> QED BY <4>1, <4>2
    <3>7. lv[c] + (i + 1) <= lv[r]
      <4>1. lv[c] \in Int /\ lv[b] \in Int /\ lv[r] \in Int
        BY <1>1, <1>3, <3>1, <3>4, SMT
      <4> HIDE DEF b, c
      <4> QED BY <2>1, <3>1, <3>4, <4>1, SMT
    <3>8. Initial(R[c])
      BY <3>6 DEF Initial
    <3> QED BY <3>4, <3>7, <3>8
  <2> QED BY <2>3, <2>4
<1>6. S = Nat
  <2>1. S \in SUBSET Nat
    OBVIOUS
  <2> HIDE DEF S
  <2> QED BY <1>4, <1>5, <2>1, NatInd
<1> DEFINE a == p[N]
<1>7. On(N)
  <2>1. N \in S /\ N <= N
    BY <1>1, <1>6, SMT
  <2> QED BY <2>1
<1>8. a \in Leaves(h) /\ Initial(R[a])
  <2>1. lv[r] \in 0..(N - 1) /\ lv[a] \in 0..(N - 1)
    BY <1>1, <1>3, <1>7
  <2>2. h[a].leaf
    BY <1>1, <1>7, <2>1, SMT
  <2> QED BY <1>7, <2>2 DEF Leaves
<1> HIDE DEF a, S
<1>9. ASSUME NEW c \in Leaves(h), ~(rk[c] <= rk[a]) PROVE FALSE
  <2>1. rk[c] \in Nat /\ rk[a] \in Nat
    BY <1>8 DEF Chained
  <2>2. c # a /\ rk[a] < rk[c]
    BY <1>9, <2>1, SMT
  <2>3. PICK x \in R[a], z \in R[c] : TRUE
    BY <1>8, <2>2, SMT DEF Chained
  <2>4. x \in Keys /\ z \in Keys /\ z \notin R[a]
    BY <1>8, <2>2 DEF Sound, Shape, Ranged, Disjoint, Leaves
  <2>5. Less(x, z)
    BY <1>8, <2>4 DEF Initial
  <2>6. Less(z, x)
    BY <1>8, <2>2 DEF Chained
  <2> QED BY <2>4, <2>5, <2>6, LessTransitive, LessIrreflexive
<1> QED BY <1>2, <1>8, <1>9 DEF a

-----------------------------------------------------------------------------

\* Ascend and Seek (btree.go) return in order every pair of the tree from their
\* starting key on, and no other, whatever empty leaves they pass over.
THEOREM IteratorsAreExact == Spec => []IteratorsAreComplete
<1> DEFINE complete(found, wanted) == InOrder(found) /\ {found[i] : i \in 1..Len(found)} = wanted
<1>1. ASSUME NEW found, NEW wanted, Lists(found, wanted) PROVE complete(found, wanted)
  <2>1. Len(found) \in Nat
    BY <1>1, SMT DEF Lists
  <2>2. \A i \in 1..(Len(found) - 1) : i \in 1..Len(found) /\ i + 1 \in 1..Len(found) /\ i < i + 1
    BY <2>1, SMT
  <2>3. InOrder(found)
    BY <1>1, <2>2 DEF InOrder, Lists
  <2>4. \A p : p \in wanted <=> \E i \in 1..Len(found) : found[i] = p
    BY <1>1 DEF Lists
  <2>5. {found[i] : i \in 1..Len(found)} = wanted
    BY <2>4
  <2> QED BY <2>3, <2>5
<1>2. BInv => IteratorsAreComplete
  <2> SUFFICES ASSUME BInv PROVE IteratorsAreComplete
    OBVIOUS
  <2>1. PICK R, lv, rk : Sound(heap, root, R, lv) /\ Chained(heap, R, rk) /\ Bounded(heap)
    BY DEF BInv, Good, Sound
  <2>2. \A p : p \in Pairs <=> \E c \in Leaves(heap) : p \in Held(heap[c])
    <3>1. \A p : p \in Pairs <=> \E c \in Addresses(heap) : p \in Held(heap[c])
      BY DEF Pairs, Held, Addresses
    <3>2. \A c \in Addresses(heap) : ~heap[c].leaf => Held(heap[c]) = {}
      <4>1. \A c \in Addresses(heap) : ~heap[c].leaf => Len(heap[c].vals) = 0
        BY <2>1 DEF Sound, Shape, Formed
      <4> QED BY <4>1, SMT DEF Held
    <3> QED BY <3>1, <3>2 DEF Leaves
  <2>3. \A c \in Leaves(heap) : rk[c] \in Nat
    BY <2>1 DEF Chained
  <2>4. \A b, c \in Leaves(heap) : rk[b] = rk[c] => b = c
    BY <2>1 DEF Chained
  <2>5. \A c \in Leaves(heap) :
           /\ Formed(heap[c]) /\ heap[c].leaf /\ Len(heap[c].keys) \in Nat
           /\ Len(heap[c].vals) = Len(heap[c].keys)
           /\ \A i \in 1..Len(heap[c].keys) : pairs(heap[c])[i][1] = heap[c].keys[i]
    <3> SUFFICES ASSUME NEW c \in Leaves(heap)
                 PROVE  /\ Formed(heap[c]) /\ heap[c].leaf /\ Len(heap[c].keys) \in Nat
                        /\ Len(heap[c].vals) = Len(heap[c].keys)
                        /\ \A i \in 1..Len(heap[c].keys) : pairs(heap[c])[i][1] = heap[c].keys[i]
      OBVIOUS
    <3>1. Formed(heap[c]) /\ heap[c].leaf
      BY <2>1 DEF Leaves, Sound, Shape
    <3> QED BY <3>1, PairsOfLeaf
  <2>6. complete(Ascend, Pairs)
    <3> DEFINE a == leftmost(heap, root)
    <3>1. a \in Leaves(heap) /\ \A c \in Leaves(heap) : rk[c] <= rk[a]
      BY <2>1, LeftmostIs
    <3>2. Ascend = Drain(a, 1)
      BY DEF Ascend
    <3> HIDE DEF a
    <3>3. Lists(Drain(a, 0 + 1), HeldBehind(heap[a], 0) \cup HeldFrom(heap, rk, rk[a]))
      <4>1. 0 \in 0..Len(heap[a].keys)
        BY <2>5, <3>1, SMT
      <4> QED BY <2>1, <3>1, <4>1, DrainListed
    <3>4. HeldBehind(heap[a], 0) = Held(heap[a])
      <4>1. 0 + 1 = 1 /\ Len(heap[a].vals) = Len(heap[a].keys)
        BY <2>5, <3>1, SMT
      <4> QED BY <4>1 DEF HeldBehind, Held
    <3>5. Held(heap[a]) \cup HeldFrom(heap, rk, rk[a]) = Pairs
      <4>1. \A c \in Leaves(heap) : c = a \/ rk[c] < rk[a]
        <5> SUFFICES ASSUME NEW c \in Leaves(heap), c # a PROVE rk[c] < rk[a]
          OBVIOUS
        <5>1. rk[c] \in Nat /\ rk[a] \in Nat /\ rk[c] <= rk[a] /\ rk[c] # rk[a]
          BY <2>3, <2>4, <3>1
        <5> QED BY <5>1, SMT
      <4>2. \A p : p \in HeldFrom(heap, rk, rk[a]) <=> \E c \in Leaves(heap) : rk[c] < rk[a] /\ p \in Held(heap[c])
        BY DEF HeldFrom
      <4> QED BY <2>2, <3>1, <4>1, <4>2
    <3>6. Lists(Ascend, Pairs)
      BY <3>2, <3>3, <3>4, <3>5, SMT
    <3> QED BY <1>1, <3>6
  <2>7. ASSUME NEW k \in Keys PROVE complete(Seek(k), {p \in Pairs : ~Less(p[1], k)})
    <3> DEFINE a == descend(heap, root, k)
               n == heap[a]
               i == position(n.keys, k)
               m == i - 1
    <3>1. a \in Leaves(heap) /\ k \in R[a]
      BY <2>1, DescendIs
    <3>2. Seek(k) = Drain(a, i)
      BY DEF Seek
    <3> HIDE DEF a
    <3>3. n.keys \in Seq(Keys) /\ Sorted(n.keys) /\ Len(n.keys) \in Nat
      <4>1. Formed(n)
        BY <2>5, <3>1
      <4> QED BY <4>1, NodeParts
    <3>4. IsPosition(n.keys, k, i)
      BY <3>3, PositionIs
    <3> HIDE DEF i
    <3>5. i \in 1..(Len(n.keys) + 1) /\ m \in 0..Len(n.keys) /\ m + 1 = i
      <4>1. i \in 1..(Len(n.keys) + 1)
        BY <3>4 DEF IsPosition
      <4> QED BY <3>3, <4>1, SMT
    <3>6. Lists(Drain(a, m + 1), HeldBehind(n, m) \cup HeldFrom(heap, rk, rk[a]))
      BY <2>1, <3>1, <3>5, DrainListed
    <3>7. \A j \in 1..Len(n.keys) : j >= i <=> ~Less(n.keys[j], k)
      <4> SUFFICES ASSUME NEW j \in 1..Len(n.keys) PROVE j >= i <=> ~Less(n.keys[j], k)
        OBVIOUS
      <4>1. ASSUME j < i PROVE Less(n.keys[j], k)
        <5>1. j \in 1..(i - 1)
          BY <3>3, <3>5, <4>1, SMT
        <5> QED BY <3>4, <5>1 DEF IsPosition
      <4>2. ASSUME j >= i PROVE ~Less(n.keys[j], k)
        <5>1. i \in 1..Len(n.keys) /\ ~Less(n.keys[i], k) /\ n.keys[i] \in Keys /\ n.keys[j] \in Keys
          BY <3>3, <3>4, <3>5, <4>2, SMT DEF IsPosition
        <5>2. i = j \/ Less(n.keys[i], n.keys[j])
          BY <3>3, <3>5, <4>2, <5>1, SMT DEF Sorted
        <5> QED BY <5>1, <5>2, LessTransitive
      <4>3. j < i \/ j >= i
        BY <3>3, <3>5, SMT
      <4> QED BY <3>3, <3>5, <4>1, <4>2, <4>3
    <3>8. \A p : p \in HeldBehind(n, m) <=> p \in Held(n) /\ ~Less(p[1], k)
      <4>1. \A j \in 1..Len(n.keys) : pairs(n)[j][1] = n.keys[j]
        BY <2>5, <3>1
      <4>2. \A j : j \in (m + 1)..Len(n.keys) <=> j \in 1..Len(n.keys) /\ j >= i
        BY <3>3, <3>5, SMT
      <4>3. \A p : p \in HeldBehind(n, m) <=> \E j \in 1..Len(n.keys) : j >= i /\ p = pairs(n)[j]
        BY <4>2 DEF HeldBehind
      <4>4. \A p : p \in Held(n) <=> \E j \in 1..Len(n.keys) : p = pairs(n)[j]
        BY <2>5, <3>1 DEF Held
      <4> QED BY <3>7, <4>1, <4>3, <4>4, SMT
    <3>9. \A p : p \in HeldFrom(heap, rk, rk[a]) <=>
                   \E c \in Leaves(heap) : c # a /\ p \in Held(heap[c]) /\ ~Less(p[1], k)
      <4>1. ASSUME NEW c \in Leaves(heap), c # a, NEW p \in Held(heap[c])
            PROVE  rk[c] < rk[a] <=> ~Less(p[1], k)
        <5>1. p[1] \in R[c] /\ p[1] \in Keys
          BY <2>1, HeldInRange
        <5>2. rk[c] \in Nat /\ rk[a] \in Nat /\ rk[c] # rk[a]
          BY <2>3, <2>4, <3>1, <4>1
        <5>3. CASE rk[c] < rk[a]
          <6>1. Less(k, p[1])
            BY <2>1, <3>1, <5>1, <5>3 DEF Chained
          <6>2. ~Less(p[1], k)
            BY <5>1, <6>1, LessTransitive, LessIrreflexive
          <6> QED BY <5>3, <6>2
        <5>4. CASE rk[a] < rk[c]
          <6>1. Less(p[1], k)
            BY <2>1, <3>1, <5>1, <5>4 DEF Chained
          <6> QED BY <5>2, <5>4, <6>1, SMT
        <5> QED BY <5>2, <5>3, <5>4, SMT
      <4>2. \A p : p \in HeldFrom(heap, rk, rk[a]) <=> \E c \in Leaves(heap) : rk[c] < rk[a] /\ p \in Held(heap[c])
        BY DEF HeldFrom
      <4>3. ~(rk[a] < rk[a])
        BY <2>3, <3>1, SMT
      <4> QED BY <4>1, <4>2, <4>3
    <3>10. HeldBehind(n, m) \cup HeldFrom(heap, rk, rk[a]) = {p \in Pairs : ~Less(p[1], k)}
      BY <2>2, <3>1, <3>8, <3>9
    <3>11. Lists(Seek(k), {p \in Pairs : ~Less(p[1], k)})
      BY <3>2, <3>5, <3>6, <3>10
    <3> QED BY <1>1, <3>11
  <2> QED BY <2>6, <2>7 DEF IteratorsAreComplete
<1> QED BY <1>2, TreeKeepsItsShape, PTL
=============================================================================
