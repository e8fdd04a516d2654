----------------------------- MODULE ShapeProofs -----------------------------
(***************************************************************************)
(* What the shape of a B+tree is, for any integer and string keys and any  *)
(* even order, and how searches, splits and links relate to it.            *)
(***************************************************************************)
EXTENDS BTree, WellFoundedInduction, TLAPS

-----------------------------------------------------------------------------
(* The natural numbers. *)

\* A nonempty set of naturals has a least element.
LEMMA NatLeast ==
  ASSUME NEW S \in SUBSET Nat, S # {}
  PROVE  \E n \in S : \A m \in S : n <= m
<1>1. PICK n \in S : \A m \in S : ~(<<m, n>> \in OpToRel(<, Nat))
  BY WFMin, NatLessThanWellFounded, Zenon
<1>2. ASSUME NEW m \in S, m < n PROVE <<m, n>> \in OpToRel(<, Nat)
  BY <1>2 DEF OpToRel
<1>3. \A m \in S : ~(m < n)
  BY <1>1, <1>2, Zenon
<1>4. \A m \in S : m \in Nat
  OBVIOUS
<1> QED
  BY <1>3, <1>4

\* Induction over the naturals, for a set in place of a predicate.
LEMMA NatInd ==
  ASSUME NEW S \in SUBSET Nat, 0 \in S, \A n \in S : n + 1 \in S
  PROVE  S = Nat
<1> SUFFICES ASSUME Nat \ S # {} PROVE FALSE
  BY Zenon
<1>1. PICK n \in Nat \ S : \A m \in Nat \ S : n <= m
  BY NatLeast, Zenon
<1>2. n # 0 /\ n - 1 \in Nat
  BY <1>1
<1>3. n - 1 \in S
  BY <1>1, <1>2
<1> QED
  BY <1>1, <1>2, <1>3

\* From here on Zenon proves a step unless the step names another prover.
USE Zenon

-----------------------------------------------------------------------------
(* The order of keys, and the loops that search a node. *)

\* A key is one of an integer and a string.
LEMMA KeyParts ==
    ASSUME NEW a \in Keys
    PROVE  a.v \in Int /\ a.isInt \in BOOLEAN /\ a = [isInt |-> a.isInt, v |-> a.v]
<1>1. CASE a \in [isInt : {TRUE}, v : Ints]
  BY <1>1, KeysAreNumbers
<1>2. CASE a \in [isInt : {FALSE}, v : Strings]
  BY <1>2, KeysAreNumbers
<1> QED BY <1>1, <1>2 DEF Keys

\* pkKey.compare is a total order.
LEMMA LessIrreflexive == \A a \in Keys : ~Less(a, a)
<1> SUFFICES ASSUME NEW a \in Keys PROVE ~Less(a, a)
  OBVIOUS
<1>1. ~(a.v < a.v)
  BY KeyParts, SMT
<1> QED BY <1>1 DEF Less

\* The order of keys is transitive.
LEMMA LessTransitive == \A a, b, c \in Keys : Less(a, b) /\ Less(b, c) => Less(a, c)
<1> SUFFICES ASSUME NEW a \in Keys, NEW b \in Keys, NEW c \in Keys, Less(a, b), Less(b, c)
             PROVE  Less(a, c)
  OBVIOUS
<1>1. a.v < b.v /\ b.v < c.v => a.v < c.v
  BY KeyParts, SMT
<1>2. a.isInt \in BOOLEAN /\ b.isInt \in BOOLEAN /\ c.isInt \in BOOLEAN
  BY KeyParts
<1> QED BY <1>1, <1>2 DEF Less

\* The order of keys is total.
LEMMA LessTotal == \A a, b \in Keys : a = b \/ Less(a, b) \/ Less(b, a)
<1> SUFFICES ASSUME NEW a \in Keys, NEW b \in Keys PROVE a = b \/ Less(a, b) \/ Less(b, a)
  OBVIOUS
<1>1. a.v < b.v \/ a.v = b.v \/ b.v < a.v
  BY KeyParts, SMT
<1>2. a.isInt \in BOOLEAN /\ b.isInt \in BOOLEAN
  BY KeyParts
<1>3. a.v = b.v /\ a.isInt = b.isInt => a = b
  BY KeyParts
<1> QED BY <1>1, <1>2, <1>3 DEF Less

\* Where a loop over ks stops that continues while k is not less.
IsChild(ks, k, i) ==
    /\ i \in 1..(Len(ks) + 1)
    /\ \A j \in 1..(i - 1) : ~Less(k, ks[j])
    /\ i <= Len(ks) => Less(k, ks[i])

\* childIndex has exactly one answer.
LEMMA ChildIndexIs ==
    ASSUME NEW n, n.keys \in Seq(Keys), NEW k, NEW i
    PROVE  childIndex(n, k) = i <=> IsChild(n.keys, k, i)
<1> DEFINE ks == n.keys
           S == {m \in 1..(Len(ks) + 1) : m = Len(ks) + 1 \/ Less(k, ks[m])}
<1>1. Len(ks) \in Nat
  BY SMT
<1>2. PICK m \in S : \A j \in S : m <= j
  <2>1. S \in SUBSET Nat
    BY <1>1, SMT
  <2>2. Len(ks) + 1 \in S
    BY <1>1, SMT
  <2> HIDE DEF S
  <2> QED BY <2>1, <2>2, NatLeast
<1> HIDE DEF ks
<1>3. IsChild(ks, k, m)
  BY <1>1, <1>2, SMT DEF IsChild
<1>4. \A x, y : IsChild(ks, k, x) /\ IsChild(ks, k, y) => x = y
  BY <1>1, SMT DEF IsChild
<1>5. childIndex(n, k) = CHOOSE x : IsChild(ks, k, x)
  BY DEF childIndex, IsChild, ks
<1> QED BY <1>3, <1>4, <1>5 DEF ks

\* position too.
IsPosition(ks, k, i) ==
    /\ i \in 1..(Len(ks) + 1)
    /\ \A j \in 1..(i - 1) : Less(ks[j], k)
    /\ i <= Len(ks) => ~Less(ks[i], k)

\* position skips exactly the smaller keys.
LEMMA PositionIs ==
    ASSUME NEW ks \in Seq(Keys), NEW k
    PROVE  IsPosition(ks, k, position(ks, k))
<1> DEFINE S == {m \in 1..(Len(ks) + 1) : m = Len(ks) + 1 \/ ~Less(ks[m], k)}
<1>1. Len(ks) \in Nat
  BY SMT
<1>2. PICK m \in S : \A j \in S : m <= j
  <2>1. S \in SUBSET Nat
    BY <1>1, SMT
  <2>2. Len(ks) + 1 \in S
    BY <1>1, SMT
  <2> HIDE DEF S
  <2> QED BY <2>1, <2>2, NatLeast
<1>3. IsPosition(ks, k, m)
  BY <1>1, <1>2, SMT DEF IsPosition
<1>4. position(ks, k) = CHOOSE x : IsPosition(ks, k, x)
  BY DEF position, IsPosition
<1> QED BY <1>3, <1>4

-----------------------------------------------------------------------------
(* The shape of the tree.  R[a] is the set of the keys whose search passes *)
(* node a, and lv[a] the node's height.  In the middle of an insertion,    *)
(* node a has split: w is its right half, s their separator, and no node   *)
(* points to w yet.  Without such a split, w is nil.                       *)

Addresses(h) == 1..Len(h)

Sorted(ks) == \A i, j \in 1..Len(ks) : i < j => Less(ks[i], ks[j])

\* A node by itself.
Formed(n) ==
    /\ n \in Node
    /\ Len(n.vals) = IF n.leaf THEN Len(n.keys) ELSE 0
    /\ Len(n.children) = IF n.leaf THEN 0 ELSE Len(n.keys) + 1
    /\ Sorted(n.keys)

Edge(h, a, i) == a \in Addresses(h) /\ ~h[a].leaf /\ i \in 1..Len(h[a].children)

\* The ranges of keys and the heights of the nodes.
Ranged(h, R) ==
    \A a \in Addresses(h) :
        R[a] \subseteq Keys /\ \A i \in 1..Len(h[a].keys) : h[a].keys[i] \in R[a]

Disjoint(h, R) ==
    \A a, b \in Addresses(h) : h[a].leaf /\ h[b].leaf /\ a # b => R[a] \cap R[b] = {}

Leveled(h, lv) ==
    /\ \A a \in Addresses(h) : lv[a] \in 0..(Len(h) - 1)
    /\ \A a, i : Edge(h, a, i) => h[a].children[i] \in Addresses(h) /\ lv[h[a].children[i]] < lv[a]

\* Every node is the child of at most one other.
Tree(h) ==
    \A a, b, i, j : Edge(h, a, i) /\ Edge(h, b, j) /\ h[a].children[i] = h[b].children[j] => a = b /\ i = j

\* The keys whose search passes x when the split of a is complete.
Whole(R, a, w, x) == IF x = a /\ w # nil THEN R[a] \cup R[w] ELSE R[x]

Passed(h, R, a, w) ==
    \A b, i : Edge(h, b, i) => Whole(R, a, w, h[b].children[i]) = {k \in R[b] : IsChild(h[b].keys, k, i)}

\* The two halves of a, when it has split.
Halves(h, r, R, lv, a, s, w) ==
    w # nil =>
        /\ a \in Addresses(h) /\ w \in Addresses(h) /\ a # w /\ w # r
        /\ \A b, i : Edge(h, b, i) => h[b].children[i] # w
        /\ s \in R[w] /\ R[a] # {} /\ lv[w] = lv[a]
        /\ \A k \in R[a] : Less(k, s)
        /\ \A k \in R[w] : ~Less(k, s)

Shape(h, r, R, lv, a, s, w) ==
    /\ h \in Seq(Node) /\ r \in Addresses(h)
    /\ \A b \in Addresses(h) : Formed(h[b])
    /\ Ranged(h, R) /\ Disjoint(h, R) /\ Leveled(h, lv) /\ Tree(h)
    /\ Passed(h, R, a, w)
    /\ Whole(R, a, w, r) = Keys
    /\ \A b, i : Edge(h, b, i) => h[b].children[i] # r
    /\ Halves(h, r, R, lv, a, s, w)

Sound(h, r, R, lv) == Shape(h, r, R, lv, nil, nil, nil)

\* A heap has a length.
LEMMA HeapLength ==
    ASSUME NEW h \in Seq(Node)
    PROVE  Len(h) \in Nat
BY SMT

\* The fields of a node have their types.
LEMMA NodeParts ==
    ASSUME NEW n, Formed(n)
    PROVE  /\ n.leaf \in BOOLEAN /\ n.keys \in Seq(Keys) /\ n.vals \in Seq(RowKeys)
           /\ n.children \in Seq(Nat \ {nil}) /\ n.next \in Nat
           /\ Len(n.keys) \in Nat
           /\ n.leaf => Len(n.vals) = Len(n.keys) /\ Len(n.children) = 0
           /\ ~n.leaf => Len(n.vals) = 0 /\ Len(n.children) = Len(n.keys) + 1
           /\ Sorted(n.keys)
<1>1. n \in Node
  BY DEF Formed
<1>2. n.leaf \in BOOLEAN /\ n.keys \in Seq(Keys) /\ n.vals \in Seq(RowKeys)
      /\ n.children \in Seq(Nat \ {nil}) /\ n.next \in Nat
  BY <1>1 DEF Node
<1>3. Len(n.keys) \in Nat
  BY <1>2, SMT
<1> QED BY <1>2, <1>3 DEF Formed

\* Leaves and interior nodes are nodes.
LEMMA MakeLeaf ==
    ASSUME NEW ks \in Seq(Keys), NEW rs \in Seq(RowKeys), NEW nx \in Nat, Len(ks) = Len(rs), Sorted(ks)
    PROVE  /\ Formed(Leaf(ks, rs, nx))
           /\ Leaf(ks, rs, nx).leaf /\ Leaf(ks, rs, nx).keys = ks /\ Leaf(ks, rs, nx).vals = rs
           /\ Leaf(ks, rs, nx).next = nx /\ Leaf(ks, rs, nx).children = << >>
BY SMT DEF Formed, Leaf, Node

\* Interior nodes are nodes.
LEMMA MakeInterior ==
    ASSUME NEW ks \in Seq(Keys), NEW cs \in Seq(Nat \ {nil}), Len(cs) = Len(ks) + 1, Sorted(ks)
    PROVE  /\ Formed(Interior(ks, cs))
           /\ ~Interior(ks, cs).leaf /\ Interior(ks, cs).keys = ks /\ Interior(ks, cs).children = cs
           /\ Interior(ks, cs).vals = << >> /\ Interior(ks, cs).next = nil
BY SMT DEF Formed, Interior, Node, nil

\* A leaf may change within its range.
LEMMA LeafReplaced ==
    ASSUME NEW h, NEW r, NEW R, NEW lv, Sound(h, r, R, lv), NEW a \in Addresses(h), h[a].leaf,
           NEW n, Formed(n), n.leaf, \A i \in 1..Len(n.keys) : n.keys[i] \in R[a]
    PROVE  Sound([h EXCEPT ![a] = n], r, R, lv)
<1> DEFINE g == [h EXCEPT ![a] = n]
<1>1. h \in Seq(Node) /\ n \in Node
  BY DEF Sound, Shape, Formed
<1>2. g \in Seq(Node) /\ Len(g) = Len(h) /\ g[a] = n /\ \A b \in Addresses(h) : b # a => g[b] = h[b]
  BY <1>1, SMT DEF Addresses
<1> HIDE DEF g
<1>3. Addresses(g) = Addresses(h)
  BY <1>2 DEF Addresses
<1>4. \A b, i : Edge(g, b, i) <=> Edge(h, b, i)
  BY <1>2, <1>3 DEF Edge
<1>5. \A b, i : Edge(h, b, i) => g[b] = h[b]
  BY <1>2 DEF Edge
<1>6. \A b \in Addresses(g) : Formed(g[b])
  BY <1>2, <1>3 DEF Sound, Shape
<1>7. Ranged(g, R)
  BY <1>2, <1>3 DEF Sound, Shape, Ranged
<1>8. Disjoint(g, R)
  BY <1>2, <1>3 DEF Sound, Shape, Disjoint
<1>9. Leveled(g, lv)
  BY <1>2, <1>3, <1>4, <1>5 DEF Sound, Shape, Leveled
<1>10. Tree(g)
  BY <1>4, <1>5, SMT DEF Sound, Shape, Tree
<1>11. Passed(g, R, nil, nil)
  BY <1>4, <1>5, SMT DEF Sound, Shape, Passed
<1>12. \A b, i : Edge(g, b, i) => g[b].children[i] # r
  BY <1>4, <1>5 DEF Sound, Shape
<1>13. Whole(R, nil, nil, r) = Keys /\ r \in Addresses(g)
  BY <1>3 DEF Sound, Shape
<1>14. Halves(g, r, R, lv, nil, nil, nil)
  BY DEF Halves
<1> QED BY <1>2, <1>6, <1>7, <1>8, <1>9, <1>10, <1>11, <1>12, <1>13, <1>14 DEF Sound, Shape, g

\* What the halves of a node n with range X must be like; the left half keeps the
\* first m children.
Splits(n, left, right, s, X, m) ==
    /\ Formed(left) /\ Formed(right) /\ left.leaf = n.leaf /\ right.leaf = n.leaf
    /\ \A i \in 1..Len(left.keys) : left.keys[i] \in X /\ Less(left.keys[i], s)
    /\ \A i \in 1..Len(right.keys) : right.keys[i] \in X /\ ~Less(right.keys[i], s)
    /\ m \in Nat
    /\ ~n.leaf => Len(left.children) = m /\ Len(right.children) = Len(n.children) - m
    /\ ~n.leaf => \A i \in 1..m :
          /\ left.children[i] = n.children[i]
          /\ \A k \in X : IsChild(n.keys, k, i) <=> Less(k, s) /\ IsChild(left.keys, k, i)
    /\ ~n.leaf => \A i \in 1..(Len(n.children) - m) :
          /\ right.children[i] = n.children[m + i]
          /\ \A k \in X : IsChild(n.keys, k, m + i) <=> ~Less(k, s) /\ IsChild(right.keys, k, i)

SplitRanges(h, R, a, s) ==
    [b \in 1..(Len(h) + 1) |-> IF b = a THEN {k \in R[a] : Less(k, s)}
                               ELSE IF b = Len(h) + 1 THEN {k \in R[a] : ~Less(k, s)}
                               ELSE R[b]]

SplitLevels(h, lv, a) == [b \in 1..(Len(h) + 1) |-> IF b = Len(h) + 1 THEN lv[a] ELSE lv[b]]

SplitHeap(h, a, left, right) == Append([h EXCEPT ![a] = left], right)

\* The nodes after a split.
IsSplit(h, a, left, right, g) ==
    /\ g \in Seq(Node) /\ Len(g) = Len(h) + 1 /\ g[a] = left /\ g[Len(h) + 1] = right
    /\ \A b \in Addresses(h) : b # a => g[b] = h[b]
    /\ Addresses(g) = Addresses(h) \cup {Len(h) + 1} /\ Len(h) + 1 \notin Addresses(h)

\* A split changes one node and appends one.
LEMMA SplitNodes ==
    ASSUME NEW h \in Seq(Node), NEW a \in Addresses(h), NEW left \in Node, NEW right \in Node
    PROVE  IsSplit(h, a, left, right, SplitHeap(h, a, left, right))
<1> DEFINE e == [h EXCEPT ![a] = left]
<1>1. e \in Seq(Node) /\ Len(e) = Len(h) /\ e[a] = left /\ \A b \in Addresses(h) : b # a => e[b] = h[b]
  BY SMT DEF Addresses
<1> HIDE DEF e
<1>2. Len(h) \in Nat
  BY SMT
<1>3. /\ Append(e, right) \in Seq(Node) /\ Len(Append(e, right)) = Len(h) + 1
      /\ Append(e, right)[Len(h) + 1] = right
      /\ \A b \in Addresses(h) : Append(e, right)[b] = e[b]
  BY <1>1, <1>2, SMT DEF Addresses
<1> QED BY <1>1, <1>2, <1>3, SMT DEF SplitHeap, IsSplit, e, Addresses

\* A node that splits at one of the keys of its range.
LEMMA SplitShape ==
    ASSUME NEW h, NEW r, NEW R, NEW lv, Sound(h, r, R, lv), NEW a \in Addresses(h),
           NEW s \in R[a], NEW y \in R[a], Less(y, s),
           NEW left, NEW right, NEW m, Splits(h[a], left, right, s, R[a], m)
    PROVE  Shape(SplitHeap(h, a, left, right), r, SplitRanges(h, R, a, s), SplitLevels(h, lv, a),
                 a, s, Len(h) + 1)
<1> DEFINE g == SplitHeap(h, a, left, right)
           w == Len(h) + 1
           Q == SplitRanges(h, R, a, s)
           l == SplitLevels(h, lv, a)
           n == h[a]
<1>1. h \in Seq(Node) /\ Len(h) \in Nat /\ left \in Node /\ right \in Node
  BY SMT DEF Sound, Shape, Splits, Formed
<1>2. /\ g \in Seq(Node) /\ Len(g) = w /\ g[a] = left /\ g[w] = right
      /\ \A b \in Addresses(h) : b # a => g[b] = h[b]
      /\ Addresses(g) = Addresses(h) \cup {w} /\ w \notin Addresses(h)
  <2>1. IsSplit(h, a, left, right, g)
    BY <1>1, SplitNodes
  <2> QED BY <2>1 DEF IsSplit
<1>3. /\ Q[a] = {k \in R[a] : Less(k, s)} /\ Q[w] = {k \in R[a] : ~Less(k, s)}
      /\ \A b \in Addresses(h) : b # a => Q[b] = R[b]
  BY <1>1, <1>2 DEF SplitRanges, Addresses
<1>4. l[w] = lv[a] /\ \A b \in Addresses(h) : l[b] = lv[b]
  BY <1>1, <1>2 DEF SplitLevels, Addresses
<1>5. w # nil /\ a # w
  BY <1>1, <1>2, SMT DEF nil
<1> HIDE DEF g, w, Q, l
<1>6. n.leaf \in BOOLEAN /\ Formed(n) /\ Len(n.children) \in Nat
  <2>1. Formed(n)
    BY DEF Sound, Shape
  <2> QED BY <2>1, NodeParts, SMT
<1>7. \A b \in Addresses(g) : Formed(g[b])
  BY <1>2 DEF Sound, Shape, Splits
<1>8. R[a] \subseteq Keys
  BY DEF Sound, Shape, Ranged
<1>9. Ranged(g, Q)
  <2> SUFFICES ASSUME NEW b \in Addresses(g)
               PROVE  Q[b] \subseteq Keys /\ \A i \in 1..Len(g[b].keys) : g[b].keys[i] \in Q[b]
    BY DEF Ranged
  <2>1. CASE b = a
    BY <1>2, <1>3, <1>8, <2>1 DEF Splits
  <2>2. CASE b = w
    BY <1>2, <1>3, <1>8, <2>2 DEF Splits
  <2>3. CASE b # a /\ b # w
    BY <1>2, <1>3, <2>3 DEF Sound, Shape, Ranged
  <2> QED BY <2>1, <2>2, <2>3
<1>10. Disjoint(g, Q)
  <2>1. \A b \in Addresses(h) : Q[b] \subseteq R[b] /\ g[b].leaf = h[b].leaf
    BY <1>2, <1>3, SMT DEF Splits
  <2>2. Q[w] \subseteq R[a] /\ Q[w] \cap Q[a] = {} /\ g[w].leaf = h[a].leaf
    BY <1>2, <1>3 DEF Splits
  <2>3. Disjoint(h, R)
    BY DEF Sound, Shape
  <2>4. ASSUME NEW b \in Addresses(h), NEW c \in Addresses(h), g[b].leaf, g[c].leaf, b # c
        PROVE  Q[b] \cap Q[c] = {}
    <3>1. R[b] \cap R[c] = {}
      BY <2>1, <2>3, <2>4 DEF Disjoint
    <3> QED BY <2>1, <3>1
  <2>5. ASSUME NEW b \in Addresses(h), g[b].leaf, g[w].leaf PROVE Q[b] \cap Q[w] = {}
    <3>1. CASE b = a
      BY <2>2, <3>1
    <3>2. CASE b # a
      <4>1. R[b] \cap R[a] = {}
        BY <1>1, <2>1, <2>2, <2>3, <2>5, <3>2 DEF Disjoint
      <4> QED BY <2>1, <2>2, <4>1
    <3> QED BY <3>1, <3>2
  <2> QED BY <1>2, <2>4, <2>5 DEF Disjoint
<1>11. \A i : Edge(g, a, i) => Edge(h, a, i) /\ i \in 1..m /\ g[a].children[i] = n.children[i]
  BY <1>1, <1>2, <1>6, SMT DEF Edge, Splits
<1>12. \A i : Edge(g, w, i) => /\ Edge(h, a, m + i) /\ g[w].children[i] = n.children[m + i]
                               /\ i \in 1..(Len(n.children) - m)
  BY <1>1, <1>2, <1>6, SMT DEF Edge, Splits
<1>13. \A b, i : b # a /\ b # w /\ Edge(g, b, i) => Edge(h, b, i) /\ g[b].children[i] = h[b].children[i]
  BY <1>2 DEF Edge
<1>14. Leveled(h, lv) /\ Tree(h) /\ Passed(h, R, nil, nil)
  BY DEF Sound, Shape
<1>15. \A b, i : Edge(g, b, i) => g[b].children[i] \in Addresses(h)
  BY <1>11, <1>12, <1>13, <1>14, SMT DEF Leveled
<1>16. Leveled(g, l)
  <2>1. \A b \in Addresses(g) : l[b] \in 0..(Len(g) - 1)
    BY <1>1, <1>2, <1>4, <1>14, SMT DEF Leveled, w
  <2>2. ASSUME NEW b, NEW i, Edge(g, b, i) PROVE l[g[b].children[i]] < l[b]
    <3>1. b \in Addresses(g)
      BY <2>2 DEF Edge
    <3>2. l[g[b].children[i]] = lv[g[b].children[i]]
      BY <1>4, <1>15, <2>2
    <3>3. CASE b = a
      BY <1>4, <1>11, <1>14, <2>2, <3>2, <3>3 DEF Leveled
    <3>4. CASE b = w
      BY <1>4, <1>12, <1>14, <2>2, <3>2, <3>4, SMT DEF Leveled
    <3>5. CASE b # a /\ b # w
      BY <1>2, <1>4, <1>13, <1>14, <2>2, <3>1, <3>2, <3>5, SMT DEF Leveled
    <3> QED BY <3>3, <3>4, <3>5
  <2> QED BY <1>2, <1>15, <2>1, <2>2 DEF Leveled
<1>17. Tree(g)
  <2> SUFFICES ASSUME NEW b, NEW c, NEW i, NEW j, Edge(g, b, i), Edge(g, c, j),
                      g[b].children[i] = g[c].children[j]
               PROVE  b = c /\ i = j
    BY DEF Tree
  <2>1. i \in Nat /\ j \in Nat /\ m \in Nat
    BY SMT DEF Edge, Splits
  <2>2. CASE b \notin {a, w} /\ c \notin {a, w}
    BY <1>13, <1>14, <2>2, SMT DEF Tree
  <2>3. CASE b \notin {a, w} /\ c \in {a, w}
    BY <1>11, <1>12, <1>13, <1>14, <2>3, SMT DEF Tree
  <2>4. CASE b \in {a, w} /\ c \notin {a, w}
    BY <1>11, <1>12, <1>13, <1>14, <2>4, SMT DEF Tree
  <2>5. CASE b = a /\ c = a
    BY <1>11, <1>14, <2>5 DEF Tree
  <2>6. CASE b = w /\ c = w
    <3>1. m + i = m + j
      BY <1>12, <1>14, <2>6 DEF Tree
    <3> QED BY <2>1, <2>6, <3>1, SMT
  <2>7. CASE b = a /\ c = w
    <3>1. i = m + j /\ i \in 1..m
      BY <1>11, <1>12, <1>14, <2>7, SMT DEF Tree
    <3> QED BY <1>12, <2>1, <2>7, <3>1, SMT
  <2>8. CASE b = w /\ c = a
    <3>1. j = m + i /\ j \in 1..m
      BY <1>11, <1>12, <1>14, <2>8, SMT DEF Tree
    <3> QED BY <1>12, <2>1, <2>8, <3>1, SMT
  <2> QED BY <2>2, <2>3, <2>4, <2>5, <2>6, <2>7, <2>8
<1>18. \A b \in Addresses(h) : Whole(Q, a, w, b) = R[b]
  BY <1>3, <1>5 DEF Whole
<1>19. Passed(g, Q, a, w)
  <2> SUFFICES ASSUME NEW b, NEW i, Edge(g, b, i)
               PROVE  R[g[b].children[i]] = {k \in Q[b] : IsChild(g[b].keys, k, i)}
    BY <1>15, <1>18, SMT DEF Passed
  <2>1. \A c, j : Edge(h, c, j) => R[h[c].children[j]] = {k \in R[c] : IsChild(h[c].keys, k, j)}
    BY <1>14 DEF Passed, Whole
  <2>2. CASE b = a
    <3>1. R[g[b].children[i]] = {k \in R[a] : IsChild(n.keys, k, i)} /\ i \in 1..m /\ ~n.leaf
      BY <1>11, <2>1, <2>2, SMT DEF Edge
    <3>2. \A k \in R[a] : IsChild(n.keys, k, i) <=> Less(k, s) /\ IsChild(left.keys, k, i)
      BY <3>1 DEF Splits
    <3> QED BY <1>2, <1>3, <2>2, <3>1, <3>2
  <2>3. CASE b = w
    <3>1. /\ R[g[b].children[i]] = {k \in R[a] : IsChild(n.keys, k, m + i)}
          /\ i \in 1..(Len(n.children) - m) /\ ~n.leaf
      BY <1>12, <2>1, <2>3, SMT DEF Edge
    <3>2. \A k \in R[a] : IsChild(n.keys, k, m + i) <=> ~Less(k, s) /\ IsChild(right.keys, k, i)
      BY <3>1 DEF Splits
    <3> QED BY <1>2, <1>3, <2>3, <3>1, <3>2
  <2>4. CASE b # a /\ b # w
    <3>1. b \in Addresses(h) /\ g[b] = h[b] /\ Q[b] = R[b]
      BY <1>2, <1>3, <2>4 DEF Edge
    <3> QED BY <1>13, <2>1, <2>4, <3>1, SMT
  <2> QED BY <2>2, <2>3, <2>4
<1>20. r \in Addresses(h) /\ Whole(Q, a, w, r) = Keys /\ \A b, i : Edge(g, b, i) => g[b].children[i] # r
  <2>1. r \in Addresses(h) /\ R[r] = Keys /\ \A b, i : Edge(h, b, i) => h[b].children[i] # r
    BY DEF Sound, Shape, Whole
  <2> QED BY <1>11, <1>12, <1>13, <1>18, <2>1, SMT
<1>21. Halves(g, r, Q, l, a, s, w)
  <2>1. s \in Q[w] /\ Q[a] # {}
    BY <1>3, <1>8, LessIrreflexive
  <2>2. \A b, i : Edge(g, b, i) => g[b].children[i] # w
    BY <1>2, <1>15, SMT
  <2> QED BY <1>2, <1>3, <1>4, <1>5, <1>20, <2>1, <2>2 DEF Halves
<1> QED BY <1>2, <1>7, <1>9, <1>10, <1>16, <1>17, <1>19, <1>20, <1>21 DEF Shape, g, Q, l, w

\* insertAt puts x at position i, and everything from there one further.
Inserted(s, i, x, t) ==
    /\ Len(t) = Len(s) + 1 /\ t[i] = x
    /\ \A j \in 1..Len(t) : j < i => t[j] = s[j]
    /\ \A j \in 1..Len(s) : j >= i => t[j + 1] = s[j]

\* insertAt makes room for one element.
LEMMA InsertAtIs ==
    ASSUME NEW T, NEW s \in Seq(T), NEW i \in 1..(Len(s) + 1), NEW x \in T
    PROVE  insertAt(s, i, x) \in Seq(T) /\ Inserted(s, i, x, insertAt(s, i, x))
<1> DEFINE t == insertAt(s, i, x)
<1>1. Len(s) \in Nat /\ i \in Nat /\ \A j \in 1..Len(s) : s[j] \in T
  BY SMT
<1>2. t = [j \in 1..(Len(s) + 1) |-> IF j < i THEN s[j] ELSE IF j = i THEN x ELSE s[j - 1]]
  BY DEF insertAt
<1> HIDE DEF t
<1>3. \A j \in 1..(Len(s) + 1) : t[j] \in T
  BY <1>1, <1>2, SMT
<1>4. t \in Seq(T) /\ Len(t) = Len(s) + 1
  BY <1>1, <1>2, <1>3, SMT
<1>5. Inserted(s, i, x, t)
  BY <1>1, <1>2, <1>4, SMT DEF Inserted
<1> QED BY <1>4, <1>5 DEF t

\* A separator s between keys[i - 1] and keys[i] divides the keys that go to the
\* child i, and no others.
LEMMA SeparatorDivides ==
    ASSUME NEW ks \in Seq(Keys), NEW i \in 1..(Len(ks) + 1), NEW s \in Keys,
           NEW t \in Seq(Keys), Inserted(ks, i, s, t),
           \A j \in 1..Len(ks) : j >= i => Less(s, ks[j]), NEW k \in Keys
    PROVE  /\ \A j \in 1..(Len(ks) + 1) : j < i => (IsChild(t, k, j) <=> IsChild(ks, k, j))
           /\ IsChild(t, k, i) <=> IsChild(ks, k, i) /\ Less(k, s)
           /\ IsChild(t, k, i + 1) <=> IsChild(ks, k, i) /\ ~Less(k, s)
           /\ \A j \in 1..(Len(ks) + 1) : j > i => (IsChild(t, k, j + 1) <=> IsChild(ks, k, j))
<1>1. Len(ks) \in Nat /\ i \in Nat /\ i >= 1 /\ i <= Len(ks) + 1 /\ Len(t) = Len(ks) + 1 /\ t[i] = s
      /\ \A j \in 1..Len(ks) : ks[j] \in Keys
  BY SMT DEF Inserted
<1>2. \A j \in 1..Len(t) : j < i => t[j] = ks[j]
  BY DEF Inserted
<1>3. \A j \in 1..Len(ks) : j >= i => t[j + 1] = ks[j]
  BY DEF Inserted
<1>4. \A j \in 1..Len(ks) : j >= i /\ Less(k, s) => Less(k, ks[j])
  BY <1>1, LessTransitive
<1>5. ASSUME NEW j \in 1..(Len(ks) + 1), j < i PROVE IsChild(t, k, j) <=> IsChild(ks, k, j)
  BY <1>1, <1>2, <1>5, SMT DEF IsChild
<1>6. IsChild(t, k, i) <=> IsChild(ks, k, i) /\ Less(k, s)
  <2>1. /\ i \in 1..(Len(t) + 1) /\ i <= Len(t) /\ i \in 1..(Len(ks) + 1)
        /\ \A j \in 1..(i - 1) : j \in 1..Len(t) /\ j < i
        /\ i <= Len(ks) => i \in 1..Len(ks) /\ i >= i
    BY <1>1, SMT
  <2>2. \A j \in 1..(i - 1) : t[j] = ks[j]
    BY <1>2, <2>1
  <2> QED BY <1>1, <1>4, <2>1, <2>2 DEF IsChild
<1>7. IsChild(t, k, i + 1) <=> IsChild(ks, k, i) /\ ~Less(k, s)
  <2>1. ASSUME IsChild(t, k, i + 1) PROVE IsChild(ks, k, i) /\ ~Less(k, s)
    <3>1. \A j \in 1..i : ~Less(k, t[j])
      BY <1>1, <2>1, SMT DEF IsChild
    <3>2. i <= Len(ks) => Less(k, ks[i])
      <4>1. i <= Len(ks) => t[i + 1] = ks[i] /\ i + 1 <= Len(t)
        BY <1>1, <1>3, SMT
      <4> QED BY <2>1, <4>1 DEF IsChild
    <3>3. \A j \in 1..(i - 1) : ~Less(k, ks[j])
      BY <1>1, <1>2, <3>1, SMT
    <3> QED BY <1>1, <3>1, <3>2, <3>3, SMT DEF IsChild
  <2>2. ASSUME IsChild(ks, k, i), ~Less(k, s) PROVE IsChild(t, k, i + 1)
    <3>1. i + 1 \in 1..(Len(t) + 1) /\ (i + 1) - 1 = i /\ (i + 1 <= Len(t) => i <= Len(ks) /\ i \in 1..Len(ks) /\ i >= i)
      BY <1>1, SMT
    <3>2. ASSUME NEW j \in 1..i PROVE ~Less(k, t[j])
      <4>1. j = i \/ (j < i /\ j \in 1..(i - 1) /\ j \in 1..Len(t))
        BY <1>1, SMT
      <4> QED BY <1>1, <1>2, <2>2, <4>1 DEF IsChild
    <3>3. i + 1 <= Len(t) => Less(k, t[i + 1])
      BY <1>3, <2>2, <3>1 DEF IsChild
    <3> QED BY <3>1, <3>2, <3>3 DEF IsChild
  <2> QED BY <2>1, <2>2
<1>8. ASSUME NEW j \in 1..(Len(ks) + 1), j > i PROVE IsChild(t, k, j + 1) <=> IsChild(ks, k, j)
  <2>1. ASSUME IsChild(t, k, j + 1) PROVE IsChild(ks, k, j)
    <3>1. \A x \in 1..(j - 1) : ~Less(k, ks[x])
      <4> SUFFICES ASSUME NEW x \in 1..(j - 1) PROVE ~Less(k, ks[x])
        OBVIOUS
      <4>1. CASE x < i
        BY <1>1, <1>2, <1>8, <2>1, <4>1, SMT DEF IsChild
      <4>2. CASE x >= i
        <5>1. t[x + 1] = ks[x] /\ x + 1 \in 1..((j + 1) - 1)
          BY <1>1, <1>3, <1>8, <4>2, SMT
        <5> QED BY <2>1, <5>1 DEF IsChild
      <4> QED BY <1>1, <1>8, <4>1, <4>2, SMT
    <3>2. j <= Len(ks) => Less(k, ks[j])
      <4>1. j <= Len(ks) => t[j + 1] = ks[j] /\ j + 1 <= Len(t)
        BY <1>1, <1>3, <1>8, SMT
      <4> QED BY <2>1, <4>1 DEF IsChild
    <3> QED BY <3>1, <3>2 DEF IsChild
  <2>2. ASSUME IsChild(ks, k, j) PROVE IsChild(t, k, j + 1)
    <3>1. i \in 1..(j - 1) /\ i \in 1..Len(ks)
      BY <1>1, <1>8, SMT
    <3>2. ~Less(k, s)
      BY <1>1, <1>4, <2>2, <3>1, SMT DEF IsChild
    <3>3. \A x \in 1..((j + 1) - 1) : ~Less(k, t[x])
      <4> SUFFICES ASSUME NEW x \in 1..((j + 1) - 1) PROVE ~Less(k, t[x])
        OBVIOUS
      <4>1. CASE x < i
        BY <1>1, <1>2, <1>8, <2>2, <4>1, SMT DEF IsChild
      <4>2. CASE x = i
        BY <1>1, <3>2, <4>2
      <4>3. CASE x > i
        <5>1. t[(x - 1) + 1] = ks[x - 1] /\ x - 1 \in 1..(j - 1) /\ (x - 1) + 1 = x
          BY <1>1, <1>3, <1>8, <4>3, SMT
        <5> QED BY <2>2, <5>1 DEF IsChild
      <4> QED BY <1>1, <1>8, <4>1, <4>2, <4>3, SMT
    <3>4. j + 1 <= Len(t) => Less(k, t[j + 1])
      <4>1. j + 1 <= Len(t) => t[j + 1] = ks[j] /\ j <= Len(ks)
        BY <1>1, <1>3, <1>8, SMT
      <4> QED BY <2>2, <4>1 DEF IsChild
    <3> QED BY <1>1, <3>3, <3>4, SMT DEF IsChild
  <2> QED BY <2>1, <2>2
<1> QED BY <1>5, <1>6, <1>7, <1>8

\* The node above a node that has split takes up the separator and the right half.
Linked(n, i, s, w) == Interior(insertAt(n.keys, i, s), insertAt(n.children, i + 1, w))

\* The separator of a child that split lies between the separators around it.
LEMMA SeparatorFits ==
    ASSUME NEW h, NEW r, NEW R, NEW lv, NEW c, NEW s, NEW w, Shape(h, r, R, lv, c, s, w), w # nil,
           NEW p, NEW i, Edge(h, p, i), h[p].children[i] = c
    PROVE  /\ s \in R[p] /\ \A j \in 1..Len(h[p].keys) : j < i => Less(h[p].keys[j], s)
           /\ \A j \in 1..Len(h[p].keys) : j >= i => Less(s, h[p].keys[j])
<1> DEFINE ks == h[p].keys
<1>1. p \in Addresses(h) /\ i \in 1..Len(h[p].children) /\ ~h[p].leaf
  BY DEF Edge
<1>2. Formed(h[p])
  BY <1>1 DEF Shape
<1>3. ks \in Seq(Keys) /\ Len(ks) \in Nat /\ Sorted(ks) /\ i \in 1..(Len(ks) + 1)
  BY <1>1, <1>2, NodeParts
<1>4. \A j \in 1..Len(ks) : ks[j] \in Keys
  BY <1>3, SMT
<1>5. R[c] \cup R[w] = {k \in R[p] : IsChild(ks, k, i)} /\ R[p] \subseteq Keys
  BY <1>1 DEF Shape, Passed, Whole, Ranged
<1>6. PICK y \in R[c] : Less(y, s)
  BY DEF Shape, Halves
<1>7. s \in R[w]
  BY DEF Shape, Halves
<1> HIDE DEF ks
<1>8. s \in R[p] /\ IsChild(ks, s, i) /\ y \in R[p] /\ IsChild(ks, y, i) /\ s \in Keys /\ y \in Keys
  BY <1>5, <1>6, <1>7
<1>9. ASSUME NEW j \in 1..Len(ks), j < i PROVE Less(ks[j], s)
  <2>1. ~Less(y, ks[j])
    BY <1>3, <1>8, <1>9, SMT DEF IsChild
  <2>2. ks[j] = y \/ Less(ks[j], y)
    BY <1>4, <1>8, <2>1, LessTotal
  <2> QED BY <1>4, <1>6, <1>8, <2>2, LessTransitive
<1>10. ASSUME NEW j \in 1..Len(ks), j >= i PROVE Less(s, ks[j])
  <2>1. i \in 1..Len(ks) /\ Less(s, ks[i])
    BY <1>3, <1>8, <1>10, SMT DEF IsChild
  <2>2. j = i \/ Less(ks[i], ks[j])
    BY <1>3, <1>10, <2>1, SMT DEF Sorted
  <2> QED BY <1>4, <1>8, <2>1, <2>2, LessTransitive
<1> QED BY <1>8, <1>9, <1>10 DEF ks

\* Putting a key between its neighbours keeps a node sorted.
LEMMA InsertedSorted ==
    ASSUME NEW ks \in Seq(Keys), Sorted(ks), NEW i \in 1..(Len(ks) + 1), NEW s \in Keys, NEW t \in Seq(Keys),
           Inserted(ks, i, s, t), \A j \in 1..Len(ks) : j < i => Less(ks[j], s),
           \A j \in 1..Len(ks) : j >= i => Less(s, ks[j])
    PROVE  Sorted(t)
<1>1. Len(ks) \in Nat /\ i \in Nat /\ i >= 1 /\ i <= Len(ks) + 1 /\ Len(t) = Len(ks) + 1 /\ t[i] = s
  BY SMT DEF Inserted
<1>2. \A j \in 1..Len(t) : j < i => t[j] = ks[j] /\ j \in 1..Len(ks)
  BY <1>1, SMT DEF Inserted
<1>3. \A j \in 1..Len(t) : j > i => t[j] = ks[j - 1] /\ j - 1 \in 1..Len(ks) /\ j - 1 >= i
  <2> SUFFICES ASSUME NEW j \in 1..Len(t), j > i PROVE t[j] = ks[j - 1] /\ j - 1 \in 1..Len(ks) /\ j - 1 >= i
    OBVIOUS
  <2>1. j - 1 \in 1..Len(ks) /\ j - 1 >= i /\ (j - 1) + 1 = j
    BY <1>1, SMT
  <2>2. t[(j - 1) + 1] = ks[j - 1]
    BY <2>1 DEF Inserted
  <2> QED BY <2>1, <2>2
<1> SUFFICES ASSUME NEW a \in 1..Len(t), NEW b \in 1..Len(t), a < b PROVE Less(t[a], t[b])
  BY DEF Sorted
<1>4. CASE a = i
  BY <1>1, <1>3, <1>4
<1>5. CASE b = i
  BY <1>1, <1>2, <1>5
<1>6. CASE a < i /\ b < i
  BY <1>2, <1>6 DEF Sorted
<1>7. CASE a < i /\ b > i
  <2>1. a < b - 1
    BY <1>1, <1>7, SMT
  <2> QED BY <1>2, <1>3, <1>7, <2>1 DEF Sorted
<1>8. CASE a > i /\ b > i
  <2>1. a - 1 < b - 1
    BY <1>1, <1>8, SMT
  <2> QED BY <1>3, <1>8, <2>1 DEF Sorted
<1> QED BY <1>1, <1>4, <1>5, <1>6, <1>7, <1>8, SMT

IsLinked(h, r, R, lv, p, q) ==
    /\ Sound([h EXCEPT ![p] = q], r, R, lv)
    /\ Formed(q) /\ ~q.leaf /\ Len(q.keys) = Len(h[p].keys) + 1

\* Linking the right half of a child into its parent completes the split.
LEMMA LinkShape ==
    ASSUME NEW h, NEW r, NEW R, NEW lv, NEW c, NEW s, NEW w, Shape(h, r, R, lv, c, s, w), w # nil,
           NEW p, NEW i, Edge(h, p, i), h[p].children[i] = c
    PROVE  IsLinked(h, r, R, lv, p, Linked(h[p], i, s, w))
<1> DEFINE n == h[p]
           ks == insertAt(n.keys, i, s)
           cs == insertAt(n.children, i + 1, w)
           q == Linked(n, i, s, w)
           g == [h EXCEPT ![p] = q]
<1>1. p \in Addresses(h) /\ ~n.leaf /\ i \in 1..Len(n.children) /\ h \in Seq(Node) /\ Len(h) \in Nat
  BY SMT DEF Edge, Shape
<1>2. Formed(n)
  BY <1>1 DEF Shape
<1>3. /\ n.keys \in Seq(Keys) /\ n.children \in Seq(Nat \ {nil}) /\ Len(n.keys) \in Nat
      /\ Len(n.children) = Len(n.keys) + 1 /\ Sorted(n.keys)
  BY <1>1, <1>2, NodeParts
<1>4. /\ w \in Addresses(h) /\ c \in Addresses(h) /\ c # w /\ w # r /\ lv[w] = lv[c]
      /\ \A b, j : Edge(h, b, j) => h[b].children[j] # w
      /\ s \in R[w] /\ (\A k \in R[c] : Less(k, s)) /\ (\A k \in R[w] : ~Less(k, s))
  BY DEF Shape, Halves
<1>5. /\ s \in R[p] /\ \A j \in 1..Len(n.keys) : j < i => Less(n.keys[j], s)
      /\ \A j \in 1..Len(n.keys) : j >= i => Less(s, n.keys[j])
  BY SeparatorFits
<1>6. \A b \in Addresses(h) : R[b] \subseteq Keys /\ \A j \in 1..Len(h[b].keys) : h[b].keys[j] \in R[b]
  BY DEF Shape, Ranged
<1>7. s \in Keys /\ w \in Nat \ {nil} /\ i \in 1..(Len(n.keys) + 1) /\ i + 1 \in 1..(Len(n.children) + 1)
  BY <1>1, <1>3, <1>4, <1>5, <1>6, SMT DEF Addresses, nil
<1>8. ks \in Seq(Keys) /\ Inserted(n.keys, i, s, ks)
  BY <1>3, <1>7, InsertAtIs
<1>9. cs \in Seq(Nat \ {nil}) /\ Inserted(n.children, i + 1, w, cs)
  BY <1>3, <1>7, InsertAtIs
<1>10. Sorted(ks)
  <2> HIDE DEF ks, cs, n
  <2> QED BY <1>3, <1>5, <1>7, <1>8, InsertedSorted
<1>11. Len(ks) = Len(n.keys) + 1 /\ Len(cs) = Len(ks) + 1
  BY <1>3, <1>8, <1>9 DEF Inserted
<1>12. Formed(q) /\ ~q.leaf /\ q.keys = ks /\ q.children = cs
  <2>1. q = Interior(ks, cs)
    BY DEF Linked
  <2> HIDE DEF ks, cs, q
  <2> QED BY <1>8, <1>9, <1>10, <1>11, <2>1, MakeInterior
<1> HIDE DEF ks, cs, q
<1>13. q \in Node
  BY <1>12 DEF Formed
<1>14. /\ g \in Seq(Node) /\ Len(g) = Len(h) /\ g[p] = q /\ \A b \in Addresses(h) : b # p => g[b] = h[b]
  BY <1>1, <1>13, SMT DEF Addresses
<1> HIDE DEF g
<1>15. Addresses(g) = Addresses(h)
  BY <1>14 DEF Addresses
<1>16. \A b, j : b # p => (Edge(g, b, j) <=> Edge(h, b, j))
  BY <1>14, <1>15 DEF Edge
<1>17. \A b, j : b # p /\ Edge(h, b, j) => g[b] = h[b]
  BY <1>14 DEF Edge
<1>18. /\ cs[i + 1] = w
       /\ \A j \in 1..Len(cs) : j <= i => cs[j] = n.children[j] /\ j \in 1..Len(n.children)
       /\ \A j \in 1..Len(cs) : j > i + 1 => cs[j] = n.children[j - 1] /\ j - 1 \in 1..Len(n.children)
  <2>1. Len(cs) = Len(n.children) + 1 /\ i \in Nat /\ Len(n.children) \in Nat
    BY <1>1, <1>3, <1>11, SMT
  <2>2. cs[i + 1] = w /\ \A j \in 1..Len(cs) : j < i + 1 => cs[j] = n.children[j]
    BY <1>9 DEF Inserted
  <2>3. ASSUME NEW j \in 1..Len(cs), j > i + 1 PROVE cs[j] = n.children[j - 1] /\ j - 1 \in 1..Len(n.children)
    <3>1. j - 1 \in 1..Len(n.children) /\ j - 1 >= i + 1 /\ (j - 1) + 1 = j
      BY <2>1, <2>3, SMT
    <3> QED BY <1>9, <3>1 DEF Inserted
  <2>4. ASSUME NEW j \in 1..Len(cs), j <= i PROVE cs[j] = n.children[j] /\ j \in 1..Len(n.children)
    <3>1. j < i + 1 /\ j \in 1..Len(n.children)
      BY <1>1, <2>1, <2>4, SMT
    <3> QED BY <2>2, <3>1
  <2> QED BY <2>2, <2>3, <2>4
<1>19. \A j : Edge(g, p, j) <=> j \in 1..Len(cs)
  BY <1>1, <1>12, <1>14, <1>15 DEF Edge
<1>20. \A j \in 1..Len(cs) :
         /\ j <= i => Edge(h, p, j) /\ g[p].children[j] = h[p].children[j]
         /\ j > i + 1 => Edge(h, p, j - 1) /\ g[p].children[j] = h[p].children[j - 1]
         /\ j = i + 1 => g[p].children[j] = w
  BY <1>1, <1>12, <1>14, <1>18 DEF Edge
<1>21. Leveled(h, lv) /\ Tree(h) /\ Passed(h, R, c, w)
  BY DEF Shape
<1>22. i \in Nat
  BY <1>1, SMT
<1>23. Leveled(g, lv)
  <2>1. \A b \in Addresses(h) : lv[b] \in 0..(Len(h) - 1)
    BY <1>21 DEF Leveled
  <2>2. ASSUME NEW b, NEW j, Edge(g, b, j)
        PROVE  g[b].children[j] \in Addresses(h) /\ lv[g[b].children[j]] < lv[b]
    <3>1. CASE b # p
      BY <1>16, <1>17, <1>21, <2>2, <3>1 DEF Leveled
    <3>2. CASE b = p /\ j = i + 1
      BY <1>4, <1>19, <1>20, <1>21, <2>2, <3>2, SMT DEF Leveled
    <3>3. CASE b = p /\ j # i + 1
      <4>1. j \in 1..Len(cs) /\ (j <= i \/ j > i + 1)
        BY <1>19, <1>22, <2>2, <3>3, SMT
      <4> QED BY <1>20, <1>21, <3>3, <4>1 DEF Leveled
    <3> QED BY <3>1, <3>2, <3>3
  <2> QED BY <1>14, <1>15, <2>1, <2>2 DEF Leveled
\* Where the pointer of an edge was before.
<1> DEFINE o(b, j) == IF b = p /\ j > i + 1 THEN j - 1 ELSE j
<1>24. ASSUME NEW b, NEW j, Edge(g, b, j), ~(b = p /\ j = i + 1)
       PROVE  Edge(h, b, o(b, j)) /\ g[b].children[j] = h[b].children[o(b, j)] /\ j \in Nat
  <2>1. j \in Nat
    BY <1>24, SMT DEF Edge
  <2>2. CASE b # p
    BY <1>16, <1>17, <1>24, <2>1, <2>2
  <2>3. CASE b = p
    <3>1. j \in 1..Len(cs) /\ (j <= i \/ j > i + 1)
      BY <1>19, <1>22, <1>24, <2>1, <2>3, SMT
    <3>2. CASE j <= i
      BY <1>20, <1>22, <2>1, <2>3, <3>1, <3>2
    <3>3. CASE j > i + 1
      BY <1>20, <1>22, <2>1, <2>3, <3>1, <3>3
    <3> QED BY <3>1, <3>2, <3>3
  <2> QED BY <2>2, <2>3
<1>25. Edge(g, p, i + 1) => g[p].children[i + 1] = w
  BY <1>19, <1>20
<1>26. Tree(g)
  <2> SUFFICES ASSUME NEW a, NEW b, NEW j, NEW m, Edge(g, a, j), Edge(g, b, m),
                      g[a].children[j] = g[b].children[m]
               PROVE  a = b /\ j = m
    BY DEF Tree
  <2>1. CASE a = p /\ j = i + 1 /\ b = p /\ m = i + 1
    BY <2>1
  <2>2. CASE a = p /\ j = i + 1 /\ ~(b = p /\ m = i + 1)
    BY <1>4, <1>24, <1>25, <2>2, SMT
  <2>3. CASE b = p /\ m = i + 1 /\ ~(a = p /\ j = i + 1)
    BY <1>4, <1>24, <1>25, <2>3, SMT
  <2>4. CASE ~(a = p /\ j = i + 1) /\ ~(b = p /\ m = i + 1)
    <3>1. a = b /\ o(a, j) = o(b, m) /\ j \in Nat /\ m \in Nat
      BY <1>21, <1>24, <2>4, SMT DEF Tree
    <3> QED BY <1>22, <2>4, <3>1, SMT
  <2> QED BY <2>1, <2>2, <2>3, <2>4
<1>27. \A b, j : Edge(h, b, j) /\ ~(b = p /\ j = i)
                 => R[h[b].children[j]] = {k \in R[b] : IsChild(h[b].keys, k, j)}
  <2>1. \A b, j : Edge(h, b, j) /\ h[b].children[j] = c => b = p /\ j = i
    BY <1>21 DEF Tree
  <2> QED BY <1>21, <2>1, SMT DEF Passed, Whole
<1>28. R[c] \cup R[w] = {k \in R[p] : IsChild(n.keys, k, i)}
  BY <1>21 DEF Passed, Whole
<1>29. \A k \in Keys :
         /\ \A j \in 1..(Len(n.keys) + 1) : j < i => (IsChild(ks, k, j) <=> IsChild(n.keys, k, j))
         /\ IsChild(ks, k, i) <=> IsChild(n.keys, k, i) /\ Less(k, s)
         /\ IsChild(ks, k, i + 1) <=> IsChild(n.keys, k, i) /\ ~Less(k, s)
         /\ \A j \in 1..(Len(n.keys) + 1) : j > i => (IsChild(ks, k, j + 1) <=> IsChild(n.keys, k, j))
  <2> HIDE DEF n
  <2> QED BY <1>3, <1>5, <1>7, <1>8, SeparatorDivides
<1>30. Passed(g, R, nil, nil)
  <2> SUFFICES ASSUME NEW b, NEW j, Edge(g, b, j)
               PROVE  R[g[b].children[j]] = {k \in R[b] : IsChild(g[b].keys, k, j)}
    BY DEF Passed, Whole
  <2>1. CASE b # p
    BY <1>16, <1>17, <1>27, <2>1, SMT
  <2>2. CASE b = p
    <3>1. j \in 1..Len(cs) /\ g[b].keys = ks /\ R[p] \subseteq Keys /\ j \in Nat
      BY <1>1, <1>6, <1>12, <1>14, <1>19, <2>2, SMT
    <3>2. CASE j < i
      <4>1. R[g[b].children[j]] = {k \in R[p] : IsChild(n.keys, k, j)} /\ j \in 1..(Len(n.keys) + 1)
        <5>1. Edge(h, p, j) /\ g[b].children[j] = n.children[j] /\ j # i
          BY <1>20, <1>22, <2>2, <3>1, <3>2, SMT
        <5>2. R[n.children[j]] = {k \in R[p] : IsChild(n.keys, k, j)}
          BY <1>27, <5>1
        <5> QED BY <1>3, <5>1, <5>2 DEF Edge
      <4>2. \A k \in R[p] : IsChild(ks, k, j) <=> IsChild(n.keys, k, j)
        BY <1>29, <3>1, <3>2, <4>1
      <4> QED BY <2>2, <3>1, <4>1, <4>2
    <3>3. CASE j = i
      <4>1. g[b].children[j] = c
        BY <1>20, <1>22, <2>2, <3>1, <3>3, SMT
      <4>2. \A k \in R[p] : IsChild(ks, k, j) <=> IsChild(n.keys, k, i) /\ Less(k, s)
        BY <1>29, <3>1, <3>3
      <4> QED BY <1>4, <1>28, <2>2, <3>1, <4>1, <4>2
    <3>4. CASE j = i + 1
      <4>1. g[b].children[j] = w
        BY <1>20, <2>2, <3>1, <3>4
      <4>2. \A k \in R[p] : IsChild(ks, k, j) <=> IsChild(n.keys, k, i) /\ ~Less(k, s)
        BY <1>29, <3>1, <3>4
      <4> QED BY <1>4, <1>28, <2>2, <3>1, <4>1, <4>2
    <3>5. CASE j > i + 1
      <4>1. /\ R[g[b].children[j]] = {k \in R[p] : IsChild(n.keys, k, j - 1)}
            /\ j - 1 \in 1..(Len(n.keys) + 1) /\ j - 1 > i /\ (j - 1) + 1 = j
        <5>1. Edge(h, p, j - 1) /\ g[b].children[j] = n.children[j - 1]
          BY <1>20, <1>22, <2>2, <3>1, <3>5
        <5>2. j - 1 # i /\ j - 1 > i /\ (j - 1) + 1 = j
          BY <1>22, <3>1, <3>5, SMT
        <5>3. R[n.children[j - 1]] = {k \in R[p] : IsChild(n.keys, k, j - 1)}
          BY <1>27, <5>1, <5>2
        <5> QED BY <1>3, <5>1, <5>2, <5>3 DEF Edge
      <4>2. \A k \in R[p] : IsChild(ks, k, j) <=> IsChild(n.keys, k, j - 1)
        BY <1>29, <3>1, <4>1, SMT
      <4> QED BY <2>2, <3>1, <4>1, <4>2
    <3> QED BY <1>22, <3>1, <3>2, <3>3, <3>4, <3>5, SMT
  <2> QED BY <2>1, <2>2
<1>31. Ranged(g, R)
  <2>1. \A j \in 1..Len(ks) : ks[j] \in R[p]
    <3> SUFFICES ASSUME NEW j \in 1..Len(ks) PROVE ks[j] \in R[p]
      OBVIOUS
    <3>1. CASE j < i
      BY <1>1, <1>3, <1>6, <1>7, <1>8, <1>11, <3>1, SMT DEF Inserted
    <3>2. CASE j = i
      BY <1>5, <1>8, <3>2 DEF Inserted
    <3>3. CASE j > i
      <4>1. j - 1 \in 1..Len(n.keys) /\ j - 1 >= i /\ (j - 1) + 1 = j
        <5> DEFINE m == Len(n.keys)
        <5>1. m \in Nat /\ Len(ks) = m + 1 /\ i \in 1..(m + 1)
          BY <1>3, <1>7, <1>11
        <5> HIDE DEF m
        <5>2. j - 1 \in 1..m /\ j - 1 >= i /\ (j - 1) + 1 = j
          BY <3>3, <5>1, SMT
        <5> QED BY <5>2 DEF m
      <4>2. ks[(j - 1) + 1] = n.keys[j - 1]
        BY <1>8, <4>1 DEF Inserted
      <4> QED BY <1>1, <1>6, <4>1, <4>2
    <3> QED BY <1>11, <1>22, <3>1, <3>2, <3>3, SMT
  <2> QED BY <1>6, <1>12, <1>14, <1>15, <2>1 DEF Ranged
<1>32. Disjoint(g, R)
  BY <1>12, <1>14, <1>15 DEF Shape, Disjoint
<1>33. \A b \in Addresses(g) : Formed(g[b])
  BY <1>12, <1>14, <1>15 DEF Shape
<1>34. \A b, j : Edge(g, b, j) => g[b].children[j] # r
  <2>1. \A b, j : Edge(h, b, j) => h[b].children[j] # r
    BY DEF Shape
  <2> QED BY <1>4, <1>24, <1>25, <2>1, SMT
<1>35. Whole(R, nil, nil, r) = Keys /\ r \in Addresses(g)
  BY <1>15 DEF Shape, Whole
<1>36. Halves(g, r, R, lv, nil, nil, nil)
  BY DEF Halves
<1>37. Sound(g, r, R, lv)
  BY <1>14, <1>23, <1>26, <1>30, <1>31, <1>32, <1>33, <1>34, <1>35, <1>36 DEF Sound, Shape
<1> QED BY <1>11, <1>12, <1>37 DEF g, q, IsLinked

-----------------------------------------------------------------------------
(* The two splits. *)

Mid(n) == Len(n.keys) \div 2

\* The middle leaves keys on both sides, the middle key of three or more not counted.
LEMMA Half ==
    ASSUME NEW x \in Nat, x >= 2
    PROVE  x \div 2 \in 1..(x - 1) /\ (x >= 3 => x \div 2 \in 1..(x - 2))
BY SMT

\* The first m elements of a sequence, and the rest.
Before(q, m, x) == Len(x) = m /\ \A i \in 1..m : x[i] = q[i]
Behind(q, m, y) == Len(y) = Len(q) - m /\ \A i \in 1..(Len(q) - m) : y[i] = q[m + i]

Divided(q, m, x, y) == Before(q, m, x) /\ Behind(q, m, y)

\* The two slices that a split takes divide the sequence.
LEMMA SubSeqDivides ==
    ASSUME NEW T, NEW q \in Seq(T), NEW m \in 0..Len(q)
    PROVE  /\ SubSeq(q, 1, m) \in Seq(T) /\ SubSeq(q, m + 1, Len(q)) \in Seq(T)
           /\ Divided(q, m, SubSeq(q, 1, m), SubSeq(q, m + 1, Len(q)))
<1>1. Len(q) \in Nat /\ \A i \in 1..Len(q) : q[i] \in T
  BY SMT
<1>2. SubSeq(q, 1, m) = [i \in 1..m |-> q[i]] /\ SubSeq(q, 1, m) \in Seq(T)
  BY <1>1, SMT
<1>3. /\ SubSeq(q, m + 1, Len(q)) = [i \in 1..(Len(q) - m) |-> q[m + i]]
      /\ SubSeq(q, m + 1, Len(q)) \in Seq(T)
  BY <1>1, SMT
<1> QED BY <1>1, <1>2, <1>3, SMT DEF Divided, Before, Behind

\* Both parts of a sorted sequence are sorted, and the first key of the second
\* separates them.
LEMMA DividedSorted ==
    ASSUME NEW q \in Seq(Keys), Sorted(q), NEW m \in 0..(Len(q) - 1), NEW x \in Seq(Keys), NEW y \in Seq(Keys),
           Divided(q, m, x, y)
    PROVE  /\ Sorted(x) /\ Sorted(y)
           /\ \A i \in 1..Len(x) : Less(x[i], q[m + 1])
           /\ \A i \in 1..Len(y) : ~Less(y[i], q[m + 1])
<1>1. Len(q) \in Nat /\ m \in Nat /\ m + 1 \in 1..Len(q) /\ q[m + 1] \in Keys
  BY SMT
<1>2. Len(x) = m /\ \A i \in 1..m : x[i] = q[i] /\ i \in 1..Len(q)
  BY <1>1, SMT DEF Divided, Before, Behind
<1>3. Len(y) = Len(q) - m /\ \A i \in 1..(Len(q) - m) : y[i] = q[m + i] /\ m + i \in 1..Len(q)
  BY <1>1, SMT DEF Divided, Before, Behind
<1>4. Sorted(x)
  BY <1>2 DEF Sorted
<1>5. Sorted(y)
  <2> SUFFICES ASSUME NEW i \in 1..Len(y), NEW j \in 1..Len(y), i < j PROVE Less(y[i], y[j])
    BY DEF Sorted
  <2>1. m + i < m + j
    BY <1>1, SMT
  <2> QED BY <1>3, <2>1 DEF Sorted
<1>6. ASSUME NEW i \in 1..Len(x) PROVE Less(x[i], q[m + 1])
  <2>1. i < m + 1
    BY <1>1, <1>2, SMT
  <2> QED BY <1>1, <1>2, <2>1 DEF Sorted
<1>7. ASSUME NEW i \in 1..Len(y) PROVE ~Less(y[i], q[m + 1])
  <2>1. CASE i = 1
    BY <1>1, <1>3, <2>1, LessIrreflexive
  <2>2. CASE i # 1
    <3>1. m + 1 < m + i
      BY <1>1, <2>2, SMT
    <3>2. Less(q[m + 1], q[m + i]) /\ q[m + i] \in Keys
      BY <1>1, <1>3, <3>1, SMT DEF Sorted
    <3> QED BY <1>1, <1>3, <3>2, LessIrreflexive, LessTransitive
  <2> QED BY <2>1, <2>2
<1> QED BY <1>4, <1>5, <1>6, <1>7

LeftLeaf(h, a) == Leaf(SubSeq(h[a].keys, 1, Mid(h[a])), SubSeq(h[a].vals, 1, Mid(h[a])), Len(h) + 1)
RightLeaf(h, a) ==
    LET n == h[a]
    IN Leaf(SubSeq(n.keys, Mid(n) + 1, Len(n.keys)), SubSeq(n.vals, Mid(n) + 1, Len(n.vals)), n.next)

\* splitLeaf leaves a tree that lacks only the link to the right half.
LEMMA SplitLeafShape ==
    ASSUME NEW h, NEW r, NEW R, NEW lv, Sound(h, r, R, lv), NEW a \in Addresses(h), h[a].leaf,
           Len(h[a].keys) >= 2
    PROVE  /\ splitLeaf(h, a) = Grown(SplitHeap(h, a, LeftLeaf(h, a), RightLeaf(h, a)),
                                      h[a].keys[Mid(h[a]) + 1], Len(h) + 1)
           /\ Divided(h[a].keys, Mid(h[a]), LeftLeaf(h, a).keys, RightLeaf(h, a).keys)
           /\ Divided(h[a].vals, Mid(h[a]), LeftLeaf(h, a).vals, RightLeaf(h, a).vals)
           /\ Mid(h[a]) \in 1..(Len(h[a].keys) - 1)
           /\ h[a].keys[1] \in R[a] /\ Less(h[a].keys[1], h[a].keys[Mid(h[a]) + 1])
           /\ h[a].keys[Mid(h[a]) + 1] \in R[a]
           /\ Splits(h[a], LeftLeaf(h, a), RightLeaf(h, a), h[a].keys[Mid(h[a]) + 1], R[a], 0)
<1> DEFINE n == h[a]
           m == Mid(n)
           left == LeftLeaf(h, a)
           right == RightLeaf(h, a)
           s == n.keys[m + 1]
<1>1. Formed(n) /\ h \in Seq(Node)
  BY DEF Sound, Shape
<1>2. /\ n.keys \in Seq(Keys) /\ n.vals \in Seq(RowKeys) /\ n.next \in Nat /\ Len(n.keys) \in Nat
      /\ Len(n.vals) = Len(n.keys) /\ Sorted(n.keys)
  BY <1>1, NodeParts
<1>3. m \in 1..(Len(n.keys) - 1) /\ m \in 0..(Len(n.keys) - 1) /\ m \in 0..Len(n.keys) /\ Len(h) + 1 \in Nat
  <2>1. m \in 1..(Len(n.keys) - 1)
    BY <1>2, Half DEF Mid
  <2> QED BY <1>1, <1>2, <2>1, SMT
<1> HIDE DEF m
<1> DEFINE lk == SubSeq(n.keys, 1, m)
           rk == SubSeq(n.keys, m + 1, Len(n.keys))
           lw == SubSeq(n.vals, 1, m)
           rw == SubSeq(n.vals, m + 1, Len(n.vals))
<1>4. lk \in Seq(Keys) /\ rk \in Seq(Keys) /\ Divided(n.keys, m, lk, rk)
  BY <1>2, <1>3, SubSeqDivides
<1>5. lw \in Seq(RowKeys) /\ rw \in Seq(RowKeys) /\ Divided(n.vals, m, lw, rw)
  BY <1>2, <1>3, SubSeqDivides
<1>6. left = Leaf(lk, lw, Len(h) + 1) /\ right = Leaf(rk, rw, n.next)
  BY DEF LeftLeaf, RightLeaf, m
<1> HIDE DEF lk, rk, lw, rw
<1>7. /\ Sorted(lk) /\ Sorted(rk) /\ (\A i \in 1..Len(lk) : Less(lk[i], s))
      /\ \A i \in 1..Len(rk) : ~Less(rk[i], s)
  BY <1>2, <1>3, <1>4, DividedSorted
<1>8. Len(lk) = Len(lw) /\ Len(rk) = Len(rw)
  BY <1>2, <1>4, <1>5 DEF Divided, Before, Behind
<1>9. Formed(left) /\ left.leaf /\ left.keys = lk /\ left.vals = lw
  BY <1>3, <1>4, <1>5, <1>6, <1>7, <1>8, MakeLeaf, SMT
<1>10. Formed(right) /\ right.leaf /\ right.keys = rk /\ right.vals = rw
  BY <1>2, <1>4, <1>5, <1>6, <1>7, <1>8, MakeLeaf, SMT
<1>11. splitLeaf(h, a) = Grown(SplitHeap(h, a, left, right), s, Len(h) + 1)
  <2>1. splitLeaf(h, a) = Grown(Append([h EXCEPT ![a] = left], right), right.keys[1], Len(h) + 1)
    BY <1>6 DEF splitLeaf, m, lk, rk, lw, rw, Mid
  <2>2. right.keys[1] = s
    BY <1>2, <1>3, <1>4, <1>10, SMT DEF Divided, Before, Behind
  <2> QED BY <2>1, <2>2 DEF SplitHeap
<1>12. \A i \in 1..Len(n.keys) : n.keys[i] \in R[a]
  BY DEF Sound, Shape, Ranged
<1>13. s \in R[a] /\ n.keys[1] \in R[a] /\ Less(n.keys[1], s)
  <2>1. 1 \in 1..Len(n.keys) /\ m + 1 \in 1..Len(n.keys) /\ 1 < m + 1
    BY <1>2, <1>3, SMT
  <2> QED BY <1>2, <1>12, <2>1 DEF Sorted
<1>14. (\A i \in 1..Len(lk) : lk[i] \in R[a]) /\ \A i \in 1..Len(rk) : rk[i] \in R[a]
  <2>1. \A i \in 1..Len(lk) : lk[i] = n.keys[i] /\ i \in 1..Len(n.keys)
    BY <1>2, <1>3, <1>4, SMT DEF Divided, Before, Behind
  <2>2. \A i \in 1..Len(rk) : rk[i] = n.keys[m + i] /\ m + i \in 1..Len(n.keys)
    BY <1>2, <1>3, <1>4, SMT DEF Divided, Before, Behind
  <2> QED BY <1>12, <2>1, <2>2
<1>15. Splits(n, left, right, s, R[a], 0)
  BY <1>7, <1>9, <1>10, <1>14 DEF Splits
<1> QED BY <1>3, <1>4, <1>5, <1>9, <1>10, <1>11, <1>13, <1>15 DEF m

\* The keys below the separator go where the left half sends them, the others
\* where the right half does.
LEMMA DividedChildren ==
    ASSUME NEW q \in Seq(Keys), Sorted(q), NEW m \in 0..(Len(q) - 1), NEW x \in Seq(Keys), NEW y \in Seq(Keys),
           Before(q, m, x), Behind(q, m + 1, y), NEW k \in Keys
    PROVE  /\ \A i \in 1..(m + 1) : IsChild(q, k, i) <=> Less(k, q[m + 1]) /\ IsChild(x, k, i)
           /\ \A i \in 1..(Len(q) - m) : IsChild(q, k, (m + 1) + i) <=> ~Less(k, q[m + 1]) /\ IsChild(y, k, i)
<1> DEFINE s == q[m + 1]
           l == Len(q)
<1>1. l \in Nat /\ m \in Nat /\ m + 1 <= l /\ s \in Keys /\ \A i \in 1..l : q[i] \in Keys
  BY SMT
<1>2. Len(x) = m /\ \A i \in 1..m : x[i] = q[i]
  BY DEF Before
<1>3. Len(y) = l - (m + 1) /\ \A i \in 1..(l - (m + 1)) : y[i] = q[(m + 1) + i]
  BY DEF Behind
<1>4. \A i, j \in 1..l : i < j => Less(q[i], q[j])
  BY DEF Sorted
<1> HIDE DEF l
<1>5. ASSUME NEW i \in 1..m PROVE i \in 1..l /\ Less(q[i], s) /\ (Less(k, q[i]) => Less(k, s))
  <2>1. i \in 1..l /\ m + 1 \in 1..l /\ i < m + 1
    BY <1>1, SMT
  <2>2. Less(q[i], s)
    BY <1>4, <2>1
  <2> QED BY <1>1, <2>1, <2>2, LessTransitive
<1> HIDE DEF s
<1>6. ASSUME NEW i \in 1..(m + 1) PROVE IsChild(q, k, i) <=> Less(k, s) /\ IsChild(x, k, i)
  <2>1. IsChild(q, k, i) => Less(k, s)
    <3>1. i <= l /\ (i \in 1..m \/ i = m + 1)
      BY <1>1, SMT
    <3> QED BY <1>5, <3>1 DEF IsChild, l, s
  <2>2. \A j \in 1..(i - 1) : x[j] = q[j]
    BY <1>1, <1>2, SMT
  <2>3. i <= m => x[i] = q[i]
    BY <1>1, <1>2, SMT
  <2>4. i > m => q[i] = s
    BY <1>1, SMT DEF s
  <2>5. i \in 1..(l + 1) /\ i \in 1..(Len(x) + 1) /\ i <= l /\ (i <= Len(x) <=> i <= m)
    BY <1>1, <1>2, SMT
  <2> QED BY <1>1, <2>1, <2>2, <2>3, <2>4, <2>5, SMT DEF IsChild, l
<1>7. ASSUME NEW i \in 1..(l - m)
      PROVE  IsChild(q, k, (m + 1) + i) <=> ~Less(k, s) /\ IsChild(y, k, i)
  <2>1. ASSUME IsChild(q, k, (m + 1) + i) PROVE ~Less(k, s) /\ IsChild(y, k, i)
    <3>1. \A j \in 1..(m + i) : ~Less(k, q[j])
      BY <1>1, <2>1, SMT DEF IsChild
    <3>2. ~Less(k, s)
      <4>1. m + 1 \in 1..(m + i)
        BY <1>1, SMT
      <4> QED BY <3>1, <4>1 DEF s
    <3>3. \A j \in 1..(i - 1) : ~Less(k, y[j])
      <4> SUFFICES ASSUME NEW j \in 1..(i - 1) PROVE ~Less(k, y[j])
        OBVIOUS
      <4>1. j \in 1..(l - (m + 1)) /\ (m + 1) + j \in 1..(m + i)
        BY <1>1, SMT
      <4> QED BY <1>3, <3>1, <4>1
    <3>4. i <= Len(y) => Less(k, y[i])
      <4>1. i <= Len(y) => i \in 1..(l - (m + 1)) /\ (m + 1) + i <= l
        BY <1>1, <1>3, SMT
      <4> QED BY <1>3, <2>1, <4>1 DEF IsChild, l
    <3>5. i \in 1..(Len(y) + 1)
      BY <1>1, <1>3, SMT
    <3> QED BY <3>2, <3>3, <3>4, <3>5 DEF IsChild
  <2>2. ASSUME ~Less(k, s), IsChild(y, k, i) PROVE IsChild(q, k, (m + 1) + i)
    <3>1. \A j \in 1..(((m + 1) + i) - 1) : ~Less(k, q[j])
      <4> SUFFICES ASSUME NEW j \in 1..(((m + 1) + i) - 1) PROVE ~Less(k, q[j])
        OBVIOUS
      <4>1. CASE j \in 1..m
        BY <1>5, <2>2, <4>1
      <4>2. CASE j = m + 1
        BY <2>2, <4>2 DEF s
      <4>3. CASE j > m + 1
        <5>1. j - (m + 1) \in 1..(i - 1) /\ j - (m + 1) \in 1..(l - (m + 1)) /\ (m + 1) + (j - (m + 1)) = j
          BY <1>1, <4>3, SMT
        <5>2. y[j - (m + 1)] = q[j]
          BY <1>3, <5>1
        <5> QED BY <2>2, <5>1, <5>2 DEF IsChild
      <4> QED BY <1>1, <4>1, <4>2, <4>3, SMT
    <3>2. (m + 1) + i <= l => Less(k, q[(m + 1) + i])
      <4>1. (m + 1) + i <= l => i \in 1..(l - (m + 1)) /\ i <= Len(y)
        BY <1>1, <1>3, SMT
      <4> QED BY <1>3, <2>2, <4>1 DEF IsChild
    <3>3. (m + 1) + i \in 1..(l + 1)
      BY <1>1, SMT
    <3> QED BY <3>1, <3>2, <3>3 DEF IsChild, l
  <2> QED BY <2>1, <2>2
<1> QED BY <1>6, <1>7 DEF s, l

LeftInterior(n) == Interior(SubSeq(n.keys, 1, Mid(n)), SubSeq(n.children, 1, Mid(n) + 1))
RightInterior(n) ==
    Interior(SubSeq(n.keys, Mid(n) + 2, Len(n.keys)), SubSeq(n.children, Mid(n) + 2, Len(n.children)))

\* splitInterior leaves a tree that lacks only the link to the right half.
LEMMA SplitInteriorShape ==
    ASSUME NEW h, NEW r, NEW R, NEW lv, Sound(h, r, R, lv), NEW a \in Addresses(h), ~h[a].leaf,
           Len(h[a].keys) >= 3
    PROVE  /\ splitInterior(h, a) = Grown(SplitHeap(h, a, LeftInterior(h[a]), RightInterior(h[a])),
                                          h[a].keys[Mid(h[a]) + 1], Len(h) + 1)
           /\ Len(LeftInterior(h[a]).keys) < Len(h[a].keys) /\ Len(RightInterior(h[a]).keys) < Len(h[a].keys)
           /\ h[a].keys[1] \in R[a] /\ Less(h[a].keys[1], h[a].keys[Mid(h[a]) + 1])
           /\ h[a].keys[Mid(h[a]) + 1] \in R[a]
           /\ Splits(h[a], LeftInterior(h[a]), RightInterior(h[a]), h[a].keys[Mid(h[a]) + 1], R[a],
                     Mid(h[a]) + 1)
<1> DEFINE n == h[a]
           m == Mid(n)
           left == LeftInterior(n)
           right == RightInterior(n)
           s == n.keys[m + 1]
<1>1. Formed(n) /\ h \in Seq(Node)
  BY DEF Sound, Shape
<1>2. /\ n.keys \in Seq(Keys) /\ n.children \in Seq(Nat \ {nil}) /\ Len(n.keys) \in Nat
      /\ Len(n.children) = Len(n.keys) + 1 /\ Sorted(n.keys)
  BY <1>1, NodeParts
<1>3. /\ m \in 1..(Len(n.keys) - 2) /\ m \in 0..(Len(n.keys) - 1) /\ m \in 0..Len(n.keys)
      /\ m + 1 \in 0..Len(n.keys) /\ m + 1 \in 0..(Len(n.keys) - 1) /\ m + 1 \in 0..Len(n.children)
      /\ (m + 1) + 1 = m + 2
  <2> DEFINE l == Len(n.keys)
  <2>1. l \in Nat /\ l >= 3 /\ m = l \div 2 /\ Len(n.children) = l + 1
    BY <1>2 DEF Mid
  <2> HIDE DEF l, m, n
  <2>2. l >= 2
    BY <2>1, SMT
  <2>3. m \in 1..(l - 2)
    BY <2>1, <2>2, Half
  <2>4. /\ m \in 0..(l - 1) /\ m \in 0..l /\ m + 1 \in 0..l /\ m + 1 \in 0..(l - 1) /\ m + 1 \in 0..(l + 1)
        /\ (m + 1) + 1 = m + 2
    BY <2>1, <2>3, SMT
  <2> QED BY <2>1, <2>3, <2>4 DEF l
<1> HIDE DEF m
<1> DEFINE lk == SubSeq(n.keys, 1, m)
           rk == SubSeq(n.keys, m + 2, Len(n.keys))
           lc == SubSeq(n.children, 1, m + 1)
           rc == SubSeq(n.children, m + 2, Len(n.children))
           nlk == SubSeq(n.keys, m + 1, Len(n.keys))
           nrk == SubSeq(n.keys, 1, m + 1)
<1>4. lk \in Seq(Keys) /\ nlk \in Seq(Keys) /\ Divided(n.keys, m, lk, nlk)
  BY <1>2, <1>3, SubSeqDivides
<1>5. rk \in Seq(Keys) /\ nrk \in Seq(Keys) /\ Divided(n.keys, m + 1, nrk, rk)
  BY <1>2, <1>3, SubSeqDivides
<1>6. lc \in Seq(Nat \ {nil}) /\ rc \in Seq(Nat \ {nil}) /\ Divided(n.children, m + 1, lc, rc)
  BY <1>2, <1>3, SubSeqDivides
<1>7. left = Interior(lk, lc) /\ right = Interior(rk, rc)
  BY DEF LeftInterior, RightInterior, m
<1> HIDE DEF lk, rk, lc, rc, nlk, nrk
<1>8. Sorted(lk) /\ \A i \in 1..Len(lk) : Less(lk[i], s)
  BY <1>2, <1>3, <1>4, DividedSorted
<1>9. Sorted(rk)
  BY <1>2, <1>3, <1>5, DividedSorted
<1>a. Before(n.keys, m, lk) /\ Behind(n.keys, m + 1, rk)
  BY <1>4, <1>5 DEF Divided
<1>10. Len(lk) = m /\ \A i \in 1..m : lk[i] = n.keys[i]
  BY <1>4 DEF Divided, Before, Behind
<1>11. Len(rk) = Len(n.keys) - (m + 1) /\ \A i \in 1..(Len(n.keys) - (m + 1)) : rk[i] = n.keys[(m + 1) + i]
  BY <1>5 DEF Divided, Before, Behind
<1>12. /\ Len(lc) = m + 1 /\ Len(rc) = Len(n.children) - (m + 1)
       /\ \A i \in 1..(m + 1) : lc[i] = n.children[i]
       /\ \A i \in 1..(Len(n.children) - (m + 1)) : rc[i] = n.children[(m + 1) + i]
  BY <1>6 DEF Divided, Before, Behind
<1>13. Len(lc) = Len(lk) + 1 /\ Len(rc) = Len(rk) + 1 /\ Len(lk) < Len(n.keys) /\ Len(rk) < Len(n.keys)
  <2> DEFINE l == Len(n.keys)
  <2>1. l \in Nat /\ m \in 1..(l - 2) /\ Len(n.children) = l + 1
    BY <1>2, <1>3
  <2>2. Len(lk) = m /\ Len(rk) = l - (m + 1) /\ Len(lc) = m + 1 /\ Len(rc) = (l + 1) - (m + 1)
    BY <1>10, <1>11, <1>12, <2>1
  <2> HIDE DEF l
  <2>3. Len(lc) = Len(lk) + 1 /\ Len(rc) = Len(rk) + 1 /\ Len(lk) < l /\ Len(rk) < l
    BY <2>1, <2>2, SMT
  <2> QED BY <2>3 DEF l
<1>14. Formed(left) /\ ~left.leaf /\ left.keys = lk /\ left.children = lc
  BY <1>4, <1>6, <1>7, <1>8, <1>13, MakeInterior, SMT
<1>15. Formed(right) /\ ~right.leaf /\ right.keys = rk /\ right.children = rc
  BY <1>5, <1>6, <1>7, <1>9, <1>13, MakeInterior, SMT
<1>16. splitInterior(h, a) = Grown(SplitHeap(h, a, left, right), s, Len(h) + 1)
  BY <1>7 DEF splitInterior, m, lk, rk, lc, rc, Mid, SplitHeap
<1>17. (\A i \in 1..Len(n.keys) : n.keys[i] \in R[a]) /\ R[a] \subseteq Keys
  BY DEF Sound, Shape, Ranged
<1>18. s \in R[a] /\ n.keys[1] \in R[a] /\ Less(n.keys[1], s)
  <2>1. 1 \in 1..Len(n.keys) /\ m + 1 \in 1..Len(n.keys) /\ 1 < m + 1
    BY <1>2, <1>3, SMT
  <2> QED BY <1>2, <1>17, <2>1 DEF Sorted
<1>19. \A i \in 1..Len(lk) : lk[i] \in R[a]
  <2>1. \A i \in 1..Len(lk) : lk[i] = n.keys[i] /\ i \in 1..Len(n.keys)
    <3>1. \A i \in 1..m : i \in 1..Len(n.keys)
      BY <1>2, <1>3, SMT
    <3> QED BY <1>10, <3>1
  <2> QED BY <1>17, <2>1
<1>20. \A i \in 1..Len(rk) : rk[i] \in R[a] /\ ~Less(rk[i], s)
  <2> SUFFICES ASSUME NEW i \in 1..Len(rk) PROVE rk[i] \in R[a] /\ ~Less(rk[i], s)
    OBVIOUS
  <2>1. rk[i] = n.keys[(m + 1) + i] /\ (m + 1) + i \in 1..Len(n.keys) /\ m + 1 < (m + 1) + i /\ m + 1 \in 1..Len(n.keys)
    BY <1>2, <1>3, <1>11, SMT
  <2>2. rk[i] \in R[a] /\ Less(s, rk[i])
    BY <1>2, <1>17, <2>1 DEF Sorted
  <2> QED BY <1>17, <1>18, <2>2, LessIrreflexive, LessTransitive
<1>21. \A k \in Keys :
         /\ \A i \in 1..(m + 1) : IsChild(n.keys, k, i) <=> Less(k, s) /\ IsChild(lk, k, i)
         /\ \A i \in 1..(Len(n.keys) - m) : IsChild(n.keys, k, (m + 1) + i) <=> ~Less(k, s) /\ IsChild(rk, k, i)
  BY <1>2, <1>3, <1>4, <1>5, <1>a, DividedChildren, ZenonT(30)
<1>22. Len(n.children) - (m + 1) = Len(n.keys) - m /\ m + 1 \in Nat
  BY <1>2, <1>3, SMT
<1>23. Splits(n, left, right, s, R[a], m + 1)
  <2> HIDE DEF s, left, right, n
  <2>1. \A i \in 1..(m + 1) :
          /\ left.children[i] = n.children[i]
          /\ \A k \in R[a] : IsChild(n.keys, k, i) <=> Less(k, s) /\ IsChild(left.keys, k, i)
    BY <1>12, <1>14, <1>17, <1>21
  <2>2. \A i \in 1..(Len(n.children) - (m + 1)) :
          /\ right.children[i] = n.children[(m + 1) + i]
          /\ \A k \in R[a] : IsChild(n.keys, k, (m + 1) + i) <=> ~Less(k, s) /\ IsChild(right.keys, k, i)
    BY <1>12, <1>15, <1>17, <1>21, <1>22
  <2>3. ~n.leaf /\ Len(left.children) = m + 1 /\ Len(right.children) = Len(n.children) - (m + 1)
    BY <1>12, <1>14, <1>15 DEF n
  <2>4. /\ \A i \in 1..Len(left.keys) : left.keys[i] \in R[a] /\ Less(left.keys[i], s)
        /\ \A i \in 1..Len(right.keys) : right.keys[i] \in R[a] /\ ~Less(right.keys[i], s)
    BY <1>8, <1>14, <1>15, <1>19, <1>20
  <2>5. left.leaf = n.leaf /\ right.leaf = n.leaf
    <3>1. left.leaf \in BOOLEAN /\ right.leaf \in BOOLEAN /\ n.leaf \in BOOLEAN
      BY <1>1, <1>14, <1>15, NodeParts DEF n
    <3> QED BY <1>14, <1>15, <2>3, <3>1
  <2> QED BY <1>14, <1>15, <1>22, <2>1, <2>2, <2>3, <2>4, <2>5 DEF Splits
<1> QED BY <1>13, <1>14, <1>15, <1>16, <1>18, <1>23 DEF m

\* A new root above the halves of the old one.
NewRoot(h, r, s, w) == Append(h, Interior(<<s>>, <<r, w>>))

\* A new root above the two halves of the old one completes the split.
LEMMA NewRootShape ==
    ASSUME NEW h, NEW r, NEW R, NEW lv, NEW s, NEW w, Shape(h, r, R, lv, r, s, w), w # nil
    PROVE  \E Q, l : /\ Sound(NewRoot(h, r, s, w), Len(h) + 1, Q, l)
                     /\ \A b \in Addresses(h) : Q[b] = R[b]
<1> DEFINE q == Len(h) + 1
           n == Interior(<<s>>, <<r, w>>)
           g == NewRoot(h, r, s, w)
           Q == [b \in 1..q |-> IF b = q THEN Keys ELSE R[b]]
           l == [b \in 1..q |-> IF b = q THEN lv[r] + 1 ELSE lv[b]]
<1>1. h \in Seq(Node) /\ Len(h) \in Nat /\ r \in Addresses(h)
  BY SMT DEF Shape
<1>2. /\ w \in Addresses(h) /\ w # r /\ lv[w] = lv[r] /\ s \in R[w]
      /\ \A b, i : Edge(h, b, i) => h[b].children[i] # w
      /\ (\A k \in R[r] : Less(k, s)) /\ \A k \in R[w] : ~Less(k, s)
  BY DEF Shape, Halves
<1>3. /\ \A b, i : Edge(h, b, i) => h[b].children[i] # r /\ h[b].children[i] \in Addresses(h)
      /\ R[r] \cup R[w] = Keys
  BY DEF Shape, Whole, Leveled
<1>4. Formed(n) /\ ~n.leaf /\ n.keys = <<s>> /\ n.children = <<r, w>>
  <2>1. <<s>> \in Seq(Keys) /\ <<r, w>> \in Seq(Nat \ {nil}) /\ Len(<<r, w>>) = Len(<<s>>) + 1
    BY <1>1, <1>2, <1>3, SMT DEF Addresses, nil
  <2>2. Sorted(<<s>>)
    BY SMT DEF Sorted
  <2> QED BY <2>1, <2>2, MakeInterior
<1>5. n \in Node
  BY <1>4 DEF Formed
<1> HIDE DEF n
<1>6. /\ g \in Seq(Node) /\ Len(g) = q /\ g[q] = n /\ \A b \in Addresses(h) : g[b] = h[b]
      /\ Addresses(g) = Addresses(h) \cup {q} /\ q \notin Addresses(h)
  <2>1. Append(h, n) \in Seq(Node) /\ Len(Append(h, n)) = q /\ Append(h, n)[q] = n
        /\ \A b \in Addresses(h) : Append(h, n)[b] = h[b]
    BY <1>1, <1>5, SMT DEF Addresses
  <2> QED BY <1>1, <2>1, SMT DEF NewRoot, Addresses, n
<1>7. Q[q] = Keys /\ l[q] = lv[r] + 1 /\ \A b \in Addresses(h) : Q[b] = R[b] /\ l[b] = lv[b]
  BY <1>1, <1>6 DEF Addresses
<1> HIDE DEF g, Q, l
<1>8. \A b, i : Edge(g, b, i) <=> Edge(h, b, i) \/ (b = q /\ i \in {1, 2})
  <2>1. \A i : i \in 1..Len(<<r, w>>) <=> i \in {1, 2}
    BY SMT
  <2> QED BY <1>4, <1>6, <2>1 DEF Edge
<1>9. \A b, i : Edge(h, b, i) => b \in Addresses(h) /\ b # q /\ g[b] = h[b]
  BY <1>6 DEF Edge
<1>10. g[q].children[1] = r /\ g[q].children[2] = w /\ g[q].keys = <<s>> /\ ~g[q].leaf
  BY <1>4, <1>6, SMT
<1>11. Ranged(g, Q)
  <2>1. \A i \in 1..Len(<<s>>) : <<s>>[i] \in Keys
    BY <1>2, <1>3, SMT
  <2> QED BY <1>6, <1>7, <1>10, <2>1 DEF Shape, Ranged
<1>12. Disjoint(g, Q)
  <2>1. Disjoint(h, R)
    BY DEF Shape
  <2> QED BY <1>6, <1>7, <1>10, <2>1 DEF Disjoint
<1>13. Leveled(g, l)
  <2>1. (\A b \in Addresses(h) : lv[b] \in 0..(Len(h) - 1))
        /\ \A b, i : Edge(h, b, i) => h[b].children[i] \in Addresses(h) /\ lv[h[b].children[i]] < lv[b]
    BY DEF Shape, Leveled
  <2>2. \A b \in Addresses(g) : l[b] \in 0..(Len(g) - 1)
    BY <1>1, <1>6, <1>7, <2>1, SMT
  <2>3. ASSUME NEW b, NEW i, Edge(g, b, i)
        PROVE  g[b].children[i] \in Addresses(h) /\ l[g[b].children[i]] < l[b]
    <3>1. CASE Edge(h, b, i)
      BY <1>7, <1>9, <2>1, <3>1, SMT
    <3>2. CASE b = q /\ i \in {1, 2}
      <4>1. g[b].children[i] \in Addresses(h) /\ lv[g[b].children[i]] = lv[r] /\ lv[r] \in Nat
        BY <1>1, <1>2, <1>10, <2>1, <3>2, SMT
      <4> QED BY <1>7, <3>2, <4>1, SMT
    <3> QED BY <1>8, <2>3, <3>1, <3>2
  <2> QED BY <1>6, <2>2, <2>3 DEF Leveled
<1>14. Tree(g)
  <2>1. Tree(h)
    BY DEF Shape
  <2> QED BY <1>2, <1>3, <1>8, <1>9, <1>10, <2>1, SMT DEF Tree
<1>15. \A k \in Keys : (IsChild(<<s>>, k, 1) <=> Less(k, s)) /\ (IsChild(<<s>>, k, 2) <=> ~Less(k, s))
  BY SMT DEF IsChild
<1>16. Passed(g, Q, nil, nil)
  <2> SUFFICES ASSUME NEW b, NEW i, Edge(g, b, i)
               PROVE  Q[g[b].children[i]] = {k \in Q[b] : IsChild(g[b].keys, k, i)}
    BY DEF Passed, Whole
  <2>1. CASE Edge(h, b, i)
    <3>1. Passed(h, R, r, w)
      BY DEF Shape
    <3> QED BY <1>3, <1>7, <1>9, <2>1, <3>1, SMT DEF Passed, Whole
  <2>2. CASE b = q /\ i = 1
    BY <1>1, <1>2, <1>3, <1>7, <1>10, <1>15, <2>2, SMT
  <2>3. CASE b = q /\ i = 2
    BY <1>1, <1>2, <1>3, <1>7, <1>10, <1>15, <2>3, SMT
  <2> QED BY <1>8, <2>1, <2>2, <2>3
<1>17. \A b, i : Edge(g, b, i) => g[b].children[i] # q
  BY <1>1, <1>2, <1>3, <1>6, <1>8, <1>9, <1>10, SMT
<1>18. (\A b \in Addresses(g) : Formed(g[b])) /\ q \in Addresses(g) /\ Whole(Q, nil, nil, q) = Keys
  BY <1>4, <1>6, <1>7 DEF Shape, Whole
<1>19. Halves(g, q, Q, l, nil, nil, nil)
  BY DEF Halves
<1>20. Sound(g, q, Q, l)
  BY <1>6, <1>11, <1>12, <1>13, <1>14, <1>16, <1>17, <1>18, <1>19 DEF Sound, Shape
<1> QED BY <1>7, <1>20 DEF g

-----------------------------------------------------------------------------
(* Going down the tree. *)

Below(h, b, k) == IF h[b].leaf THEN b ELSE h[b].children[childIndex(h[b], k)]
IsPath(h, a, k, p) == p[0] = a /\ \A i \in 1..Len(h) : p[i] = Below(h, p[i - 1], k)

\* The recursive definition of path has a solution.
LEMMA PathExists ==
    ASSUME NEW h, Len(h) \in Nat, NEW a, NEW k
    PROVE  IsPath(h, a, k, path(h, a, k))
<1> DEFINE Step(f, i) == IF i = 0 THEN a ELSE Below(h, f[i - 1], k)
           Solves(f, m) == f = [i \in 0..m |-> Step(f, i)]
           S == {m \in Nat : \E f : Solves(f, m)}
<1>1. 0 \in S
  <2> DEFINE f == [i \in 0..0 |-> a]
  <2>1. f = [i \in 0..0 |-> Step(f, i)]
    BY SMT
  <2> QED BY <2>1
<1>2. ASSUME NEW m \in S PROVE m + 1 \in S
  <2>1. PICK f : Solves(f, m)
    BY <1>2
  <2> DEFINE g == [i \in 0..(m + 1) |-> IF i = m + 1 THEN Below(h, f[m], k) ELSE f[i]]
  <2>2. \A i \in 0..m : f[i] = Step(f, i) /\ g[i] = f[i] /\ i # m + 1
    BY <2>1, SMT
  <2>3. g[m + 1] = Below(h, f[m], k) /\ m \in 0..m /\ m \in Nat
    BY SMT
  <2>4. \A i \in 0..(m + 1) : g[i] = Step(g, i)
    <3> SUFFICES ASSUME NEW i \in 0..(m + 1) PROVE g[i] = Step(g, i)
      OBVIOUS
    <3>1. CASE i = m + 1
      <4>1. i # 0 /\ i - 1 = m
        BY <2>3, <3>1, SMT
      <4>2. g[i - 1] = f[m]
        BY <2>2, <2>3, <4>1
      <4> HIDE DEF g
      <4> QED BY <2>3, <3>1, <4>1, <4>2
    <3>2. CASE i \in 0..m /\ i # 0
      <4>1. i - 1 \in 0..m
        BY <2>3, <3>2, SMT
      <4>2. g[i - 1] = f[i - 1] /\ g[i] = f[i] /\ f[i] = Step(f, i)
        BY <2>2, <3>2, <4>1
      <4> HIDE DEF g
      <4> QED BY <3>2, <4>2
    <3>3. CASE i = 0
      <4>1. 0 \in 0..m
        BY <2>3, SMT
      <4>2. g[0] = f[0] /\ f[0] = Step(f, 0)
        BY <2>2, <4>1
      <4> HIDE DEF g
      <4> QED BY <3>3, <4>2
    <3> QED BY <2>3, <3>1, <3>2, <3>3, SMT
  <2>5. g = [i \in 0..(m + 1) |-> Step(g, i)]
    BY <2>4
  <2> HIDE DEF g
  <2>6. Solves(g, m + 1)
    BY <2>5
  <2>7. m + 1 \in Nat
    BY <2>3, SMT
  <2> HIDE DEF Solves
  <2> QED BY <2>6, <2>7
<1>3. S = Nat
  <2>1. S \in SUBSET Nat
    OBVIOUS
  <2> HIDE DEF S
  <2> QED BY <1>1, <1>2, <2>1, NatInd
<1>4. PICK f : Solves(f, Len(h))
  BY <1>3
<1>5. path(h, a, k) = CHOOSE p : p = [i \in 0..Len(h) |-> Step(p, i)]
  BY DEF path, Below
<1>6. Solves(path(h, a, k), Len(h))
  BY <1>4, <1>5
<1> DEFINE p == path(h, a, k)
<1> HIDE DEF p
<1>7. \A i \in 0..Len(h) : p[i] = Step(p, i)
  BY <1>6 DEF p
<1>8. \A i \in 1..Len(h) : i \in 0..Len(h) /\ i # 0
  BY SMT
<1>9. 0 \in 0..Len(h)
  BY SMT
<1> QED BY <1>7, <1>8, <1>9 DEF p, IsPath

\* The search of k goes from the root to the leaf whose range has k.
Walk(h, R, k, p, d) ==
    /\ d \in 0..Len(h) /\ h[p[d]].leaf /\ k \in R[p[d]]
    /\ \A i \in 0..d : p[i] \in Addresses(h)
    /\ \A i \in 0..(d - 1) :
          Edge(h, p[i], childIndex(h[p[i]], k)) /\ p[i + 1] = h[p[i]].children[childIndex(h[p[i]], k)]
    /\ \A i, j \in 0..d : i < j => p[i] # p[j]

\* A search that passes a node passes one of its children.
LEMMA ChildPassed ==
    ASSUME NEW h, NEW r, NEW R, NEW lv, Sound(h, r, R, lv), NEW b \in Addresses(h), ~h[b].leaf, NEW k \in R[b]
    PROVE  /\ Edge(h, b, childIndex(h[b], k)) /\ Below(h, b, k) = h[b].children[childIndex(h[b], k)]
           /\ Below(h, b, k) \in Addresses(h) /\ k \in R[Below(h, b, k)] /\ lv[Below(h, b, k)] < lv[b]
<1> DEFINE i == childIndex(h[b], k)
<1>1. Formed(h[b]) /\ k \in Keys
  BY DEF Sound, Shape, Ranged
<1>2. h[b].keys \in Seq(Keys) /\ Sorted(h[b].keys) /\ Len(h[b].children) = Len(h[b].keys) + 1
  BY <1>1, NodeParts
<1>3. i \in 1..(Len(h[b].keys) + 1) /\ IsChild(h[b].keys, k, i)
  <2>1. IsChild(h[b].keys, k, i)
    BY <1>2, ChildIndexIs
  <2> QED BY <2>1 DEF IsChild
<1> HIDE DEF i
<1>4. Edge(h, b, i)
  BY <1>2, <1>3 DEF Edge
<1>5. Below(h, b, k) = h[b].children[i]
  BY DEF Below, i
<1>6. h[b].children[i] \in Addresses(h) /\ lv[h[b].children[i]] < lv[b]
  BY <1>4 DEF Sound, Shape, Leveled
<1>7. R[h[b].children[i]] = {x \in R[b] : IsChild(h[b].keys, x, i)}
  BY <1>4 DEF Sound, Shape, Passed, Whole
<1> QED BY <1>3, <1>4, <1>5, <1>6, <1>7 DEF i

\* A search ends at the one leaf in whose range its key is.
LEMMA WalkExists ==
    ASSUME NEW h, NEW r, NEW R, NEW lv, Sound(h, r, R, lv), NEW k \in Keys
    PROVE  /\ Walk(h, R, k, path(h, r, k), depth(h, path(h, r, k)))
           /\ path(h, r, k)[0] = r
           /\ descend(h, r, k) = path(h, r, k)[depth(h, path(h, r, k))]
<1> DEFINE p == path(h, r, k)
           N == Len(h)
           d == depth(h, p)
<1>1. h \in Seq(Node) /\ N \in Nat /\ r \in Addresses(h) /\ R[r] = Keys
  BY SMT DEF Sound, Shape, Whole
<1>2. IsPath(h, r, k, p)
  BY <1>1, PathExists
<1> HIDE DEF p, N
<1>3. p[0] = r /\ \A i \in 1..N : p[i] = Below(h, p[i - 1], k)
  BY <1>2 DEF IsPath, N
<1>4. \A b \in Addresses(h) : lv[b] \in 0..(N - 1)
  BY DEF Sound, Shape, Leveled, N
<1> DEFINE On(i) == p[i] \in Addresses(h) /\ k \in R[p[i]] /\ (h[p[i]].leaf \/ lv[p[i]] + i <= lv[r])
           S == {i \in Nat : i <= N => On(i)}
<1>5. 0 \in S
  <2>1. lv[r] + 0 <= lv[r]
    BY <1>1, <1>4, SMT
  <2> QED BY <1>1, <1>3, <2>1
<1>6. ASSUME NEW i \in S PROVE i + 1 \in S
  <2> SUFFICES ASSUME i + 1 <= N PROVE On(i + 1)
    BY SMT
  <2>1. On(i) /\ i \in Nat
    BY <1>1, <1>6, SMT
  <2>2. p[i + 1] = Below(h, p[i], k)
    <3>1. i + 1 \in 1..N /\ (i + 1) - 1 = i
      BY <1>1, <2>1, SMT
    <3> QED BY <1>3, <3>1
  <2>3. CASE h[p[i]].leaf
    <3>1. p[i + 1] = p[i]
      BY <2>2, <2>3 DEF Below
    <3> QED BY <2>1, <2>3, <3>1
  <2>4. CASE ~h[p[i]].leaf
    <3>1. p[i + 1] \in Addresses(h) /\ k \in R[p[i + 1]] /\ lv[p[i + 1]] < lv[p[i]]
      BY <2>1, <2>2, <2>4, ChildPassed, SMT
    <3>2. lv[p[i + 1]] + (i + 1) <= lv[r]
      <4>1. lv[p[i + 1]] \in Int /\ lv[p[i]] \in Int /\ lv[r] \in Int /\ lv[p[i]] + i <= lv[r]
        BY <1>1, <1>4, <2>1, <2>4, <3>1, SMT
      <4> QED BY <2>1, <3>1, <4>1, SMT
    <3> QED BY <3>1, <3>2
  <2> QED BY <2>3, <2>4
<1>7. S = Nat
  <2>1. S \in SUBSET Nat
    OBVIOUS
  <2> HIDE DEF S
  <2> QED BY <1>5, <1>6, <2>1, NatInd
<1>8. \A i \in 0..N : On(i)
  BY <1>1, <1>7, SMT
<1> HIDE DEF S
<1>9. h[p[N]].leaf
  <2>1. N \in 0..N /\ lv[r] \in 0..(N - 1)
    BY <1>1, <1>4, SMT
  <2>2. On(N) /\ lv[p[N]] \in 0..(N - 1)
    BY <1>4, <1>8, <2>1
  <2> QED BY <1>1, <2>1, <2>2, SMT
<1> DEFINE D == {i \in 0..N : h[p[i]].leaf}
<1>10. PICK e \in D : \A i \in D : e <= i
  <2>1. D \in SUBSET Nat /\ N \in D
    BY <1>1, <1>9, SMT
  <2> HIDE DEF D
  <2> QED BY <2>1, NatLeast
<1>11. e \in 0..N /\ h[p[e]].leaf /\ \A i \in 0..(e - 1) : ~h[p[i]].leaf
  <2>1. \A i \in 0..(e - 1) : i \in 0..N /\ ~(e <= i)
    BY <1>1, <1>10, SMT
  <2> QED BY <1>10, <2>1
<1>12. d \in 0..N /\ h[p[d]].leaf /\ \A i \in 0..(d - 1) : ~h[p[i]].leaf
  BY <1>11 DEF depth, N
<1> HIDE DEF d, D
<1>13. \A i \in 0..(d - 1) : /\ i \in 0..N /\ i + 1 \in 1..N /\ i + 1 \in 0..N /\ (i + 1) - 1 = i
  BY <1>1, <1>12, SMT
<1>14. \A i \in 0..(d - 1) :
          /\ Edge(h, p[i], childIndex(h[p[i]], k)) /\ p[i + 1] = h[p[i]].children[childIndex(h[p[i]], k)]
          /\ lv[p[i + 1]] < lv[p[i]]
  <2> SUFFICES ASSUME NEW i \in 0..(d - 1)
               PROVE  /\ Edge(h, p[i], childIndex(h[p[i]], k))
                      /\ p[i + 1] = h[p[i]].children[childIndex(h[p[i]], k)]
                      /\ lv[p[i + 1]] < lv[p[i]]
    OBVIOUS
  <2>1. p[i + 1] = Below(h, p[i], k) /\ On(i) /\ ~h[p[i]].leaf
    BY <1>3, <1>8, <1>12, <1>13
  <2> QED BY <2>1, ChildPassed, SMT
<1> DEFINE L == {j \in Nat : j <= d => \A i \in 0..(j - 1) : lv[p[j]] < lv[p[i]]}
<1>15. L = Nat
  <2>1. 0 \in L
    BY SMT
  <2>2. ASSUME NEW j \in L PROVE j + 1 \in L
    <3> SUFFICES ASSUME j + 1 <= d, NEW i \in 0..j PROVE lv[p[j + 1]] < lv[p[i]]
      BY SMT
    <3>1. j \in 0..(d - 1) /\ j \in Nat /\ j <= d
      BY <1>12, <2>2, SMT
    <3>2. lv[p[j + 1]] < lv[p[j]]
      BY <1>14, <3>1
    <3>3. lv[p[j + 1]] \in Int /\ lv[p[j]] \in Int /\ lv[p[i]] \in Int
      <4>1. i \in 0..N /\ j \in 0..N /\ j + 1 \in 0..N
        BY <1>1, <1>12, <3>1, SMT
      <4> QED BY <1>1, <1>4, <1>8, <4>1, SMT
    <3>4. CASE i = j
      BY <3>2, <3>4
    <3>5. CASE i \in 0..(j - 1)
      <4>1. lv[p[j]] < lv[p[i]]
        BY <2>2, <3>1, <3>5
      <4> QED BY <3>2, <3>3, <4>1, SMT
    <3> QED BY <3>1, <3>4, <3>5, SMT
  <2>3. L \in SUBSET Nat
    OBVIOUS
  <2> HIDE DEF L
  <2> QED BY <2>1, <2>2, <2>3, NatInd
<1>16. \A i, j \in 0..d : i < j => p[i] # p[j]
  <2> SUFFICES ASSUME NEW i \in 0..d, NEW j \in 0..d, i < j PROVE p[i] # p[j]
    OBVIOUS
  <2>1. j \in Nat /\ j <= d /\ i \in 0..(j - 1) /\ j \in 0..N
    BY <1>1, <1>12, SMT
  <2>2. lv[p[j]] < lv[p[i]] /\ lv[p[j]] \in Int
    <3>1. p[j] \in Addresses(h)
      BY <1>8, <2>1
    <3>2. lv[p[j]] \in 0..(N - 1)
      BY <1>4, <3>1
    <3>3. lv[p[j]] \in Int
      BY <1>1, <3>2, SMT
    <3> QED BY <1>15, <2>1, <3>3
  <2> QED BY <2>2, SMT
<1>17. Walk(h, R, k, p, d)
  <2>1. \A i \in 0..d : i \in 0..N
    BY <1>1, <1>12, SMT
  <2> QED BY <1>8, <1>12, <1>14, <1>16, <2>1 DEF Walk, N
<1> DEFINE E == {i \in Nat : d + i <= N => p[d + i] = p[d]}
<1>18. E = Nat
  <2>1. 0 \in E
    BY <1>12, SMT
  <2>2. ASSUME NEW i \in E PROVE i + 1 \in E
    <3> SUFFICES ASSUME d + (i + 1) <= N PROVE p[d + (i + 1)] = p[d]
      BY SMT
    <3>1. d + (i + 1) \in 1..N /\ (d + (i + 1)) - 1 = d + i /\ d + i <= N
      BY <1>1, <1>12, SMT
    <3>2. p[d + i] = p[d]
      BY <2>2, <3>1
    <3>3. p[d + (i + 1)] = Below(h, p[d], k)
      BY <1>3, <3>1, <3>2
    <3> QED BY <1>12, <3>3 DEF Below
  <2>3. E \in SUBSET Nat
    OBVIOUS
  <2> HIDE DEF E
  <2> QED BY <2>1, <2>2, <2>3, NatInd
<1>19. p[N] = p[d]
  <2>1. N - d \in Nat /\ d + (N - d) = N
    BY <1>1, <1>12, SMT
  <2>2. N - d \in E
    BY <1>18, <2>1
  <2> QED BY <1>1, <2>1, <2>2, SMT
<1> QED BY <1>3, <1>17, <1>19 DEF descend, p, d, N

-----------------------------------------------------------------------------
(* What the leaves hold. *)

Holds(n, x, y) == \E i \in 1..Len(n.vals) : n.keys[i] = x /\ n.vals[i] = y
Stored(h, x, y) == \E a \in Addresses(h) : Holds(h[a], x, y)

\* What n becomes when it is given v for k.
Puts(n, k, v, q) == \A x, y : Holds(q, x, y) <=> (Holds(n, x, y) /\ x # k) \/ (x = k /\ y = v)

\* The leaf that insertLeaf leaves before a split.
Filled(n, k, v) ==
    LET i == position(n.keys, k)
    IN IF i <= Len(n.keys) /\ n.keys[i] = k
       THEN Leaf(n.keys, [n.vals EXCEPT ![i] = v], n.next)
       ELSE Leaf(insertAt(n.keys, i, k), insertAt(n.vals, i, v), n.next)

IsFilled(n, k, v, q) ==
    /\ Formed(q) /\ q.leaf /\ q.next = n.next
    /\ Len(q.keys) = Len(n.keys) \/ Len(q.keys) = Len(n.keys) + 1
    /\ \A i \in 1..Len(q.keys) : q.keys[i] = k \/ \E j \in 1..Len(n.keys) : q.keys[i] = n.keys[j]
    /\ Puts(n, k, v, q)

\* An existing key gets the new row key.
LEMMA FilledPresent ==
    ASSUME NEW n, Formed(n), n.leaf, NEW k \in Keys, NEW v \in RowKeys, NEW i \in 1..Len(n.keys), n.keys[i] = k
    PROVE  IsFilled(n, k, v, Leaf(n.keys, [n.vals EXCEPT ![i] = v], n.next))
<1> DEFINE rs == [n.vals EXCEPT ![i] = v]
           q == Leaf(n.keys, rs, n.next)
<1>1. /\ n.keys \in Seq(Keys) /\ n.vals \in Seq(RowKeys) /\ n.next \in Nat /\ Len(n.keys) \in Nat
      /\ Len(n.vals) = Len(n.keys) /\ Sorted(n.keys)
  BY NodeParts
<1>2. /\ rs \in Seq(RowKeys) /\ Len(rs) = Len(n.keys) /\ rs[i] = v
      /\ \A j \in 1..Len(n.keys) : j # i => rs[j] = n.vals[j]
  BY <1>1, SMT
<1> HIDE DEF rs
<1>3. Formed(q) /\ q.leaf /\ q.keys = n.keys /\ q.vals = rs /\ q.next = n.next
  BY <1>1, <1>2, MakeLeaf, SMT
<1> HIDE DEF q
<1>4. \A j \in 1..Len(n.keys) : j # i => n.keys[j] # k
  <2> SUFFICES ASSUME NEW j \in 1..Len(n.keys), j # i PROVE n.keys[j] # k
    OBVIOUS
  <2>1. j < i \/ i < j
    BY <1>1, SMT
  <2>2. Less(n.keys[j], k) \/ Less(k, n.keys[j])
    BY <1>1, <2>1 DEF Sorted
  <2> QED BY <2>2, LessIrreflexive
<1>5. Puts(n, k, v, q)
  BY <1>1, <1>2, <1>3, <1>4 DEF Puts, Holds
<1> QED BY <1>1, <1>3, <1>5 DEF IsFilled, q, rs

\* A new key goes where it belongs.
LEMMA FilledAbsent ==
    ASSUME NEW n, Formed(n), n.leaf, NEW k \in Keys, NEW v \in RowKeys, NEW i, IsPosition(n.keys, k, i),
           ~(i <= Len(n.keys) /\ n.keys[i] = k)
    PROVE  /\ IsFilled(n, k, v, Leaf(insertAt(n.keys, i, k), insertAt(n.vals, i, v), n.next))
           /\ Len(Leaf(insertAt(n.keys, i, k), insertAt(n.vals, i, v), n.next).keys) = Len(n.keys) + 1
<1> DEFINE ks == insertAt(n.keys, i, k)
           rs == insertAt(n.vals, i, v)
           q == Leaf(ks, rs, n.next)
<1>1. /\ n.keys \in Seq(Keys) /\ n.vals \in Seq(RowKeys) /\ n.next \in Nat /\ Len(n.keys) \in Nat
      /\ Len(n.vals) = Len(n.keys) /\ Sorted(n.keys)
  BY NodeParts
<1>2. i \in 1..(Len(n.keys) + 1) /\ i \in 1..(Len(n.vals) + 1) /\ i \in Nat
  BY <1>1, SMT DEF IsPosition
<1>3. ks \in Seq(Keys) /\ Inserted(n.keys, i, k, ks)
  BY <1>1, <1>2, InsertAtIs
<1>4. rs \in Seq(RowKeys) /\ Inserted(n.vals, i, v, rs)
  BY <1>1, <1>2, InsertAtIs
<1> HIDE DEF ks, rs
<1>5. /\ \A j \in 1..Len(n.keys) : j < i => Less(n.keys[j], k)
      /\ \A j \in 1..Len(n.keys) : j >= i => Less(k, n.keys[j])
  <2>1. \A j \in 1..Len(n.keys) : j < i => Less(n.keys[j], k)
    BY <1>1, <1>2, SMT DEF IsPosition
  <2>2. i <= Len(n.keys) => Less(k, n.keys[i]) /\ i \in 1..Len(n.keys)
    <3>1. i <= Len(n.keys) => i \in 1..Len(n.keys) /\ n.keys[i] \in Keys /\ ~Less(n.keys[i], k)
      BY <1>1, <1>2, SMT DEF IsPosition
    <3> QED BY <3>1, LessTotal
  <2> SUFFICES ASSUME NEW j \in 1..Len(n.keys), j >= i PROVE Less(k, n.keys[j])
    BY <2>1
  <2>3. i <= Len(n.keys) /\ (j = i \/ i < j)
    BY <1>1, <1>2, SMT
  <2>4. CASE i < j
    <3>1. Less(n.keys[i], n.keys[j]) /\ n.keys[i] \in Keys /\ n.keys[j] \in Keys
      BY <1>1, <2>2, <2>3, <2>4, SMT DEF Sorted
    <3> QED BY <2>2, <2>3, <3>1, LessTransitive
  <2> QED BY <2>2, <2>3, <2>4
<1>6. Sorted(ks)
  BY <1>1, <1>2, <1>3, <1>5, InsertedSorted
<1>7. Len(ks) = Len(n.keys) + 1 /\ Len(rs) = Len(ks)
  BY <1>1, <1>3, <1>4 DEF Inserted
<1>8. Formed(q) /\ q.leaf /\ q.keys = ks /\ q.vals = rs /\ q.next = n.next
  BY <1>1, <1>3, <1>4, <1>6, <1>7, MakeLeaf, SMT
<1> HIDE DEF q
<1> DEFINE N == Len(n.keys)
<1>9. /\ ks[i] = k /\ rs[i] = v /\ i \in 1..(N + 1) /\ N \in Nat
      /\ \A j \in 1..(N + 1) : j < i => ks[j] = n.keys[j] /\ rs[j] = n.vals[j]
      /\ \A j \in 1..N : j >= i => ks[j + 1] = n.keys[j] /\ rs[j + 1] = n.vals[j]
  BY <1>1, <1>2, <1>3, <1>4, <1>7 DEF Inserted
<1>10. \A j \in 1..N : n.keys[j] # k
  <2>1. \A j \in 1..N : j < i \/ j >= i
    BY <1>2, <1>9, SMT
  <2> QED BY <1>5, <2>1, LessIrreflexive
<1>11. ASSUME NEW j \in 1..(N + 1), j # i
       PROVE  \E m \in 1..N : ks[j] = n.keys[m] /\ rs[j] = n.vals[m]
  <2>1. CASE j < i
    <3>1. j \in 1..N
      BY <1>9, <2>1, SMT
    <3> QED BY <1>9, <2>1, <3>1
  <2>2. CASE j > i
    <3>1. j - 1 \in 1..N /\ j - 1 >= i /\ (j - 1) + 1 = j
      BY <1>9, <2>2, SMT
    <3>2. ks[(j - 1) + 1] = n.keys[j - 1] /\ rs[(j - 1) + 1] = n.vals[j - 1]
      BY <1>9, <3>1
    <3> QED BY <3>1, <3>2
  <2> QED BY <1>9, <1>11, <2>1, <2>2, SMT
<1>12. ASSUME NEW m \in 1..N
       PROVE  \E j \in 1..(N + 1) : ks[j] = n.keys[m] /\ rs[j] = n.vals[m]
  <2>1. m \in 1..(N + 1) /\ m + 1 \in 1..(N + 1) /\ (m < i \/ m >= i)
    BY <1>9, SMT
  <2> QED BY <1>9, <2>1
<1>13. Len(n.vals) = N /\ Len(rs) = N + 1 /\ Len(ks) = N + 1
  BY <1>1, <1>7
<1> HIDE DEF N
<1>14. Puts(n, k, v, q)
  <2> SUFFICES ASSUME NEW x, NEW y
               PROVE  Holds(q, x, y) <=> (Holds(n, x, y) /\ x # k) \/ (x = k /\ y = v)
    BY DEF Puts
  <2>1. Holds(q, x, y) <=> \E j \in 1..(N + 1) : ks[j] = x /\ rs[j] = y
    BY <1>8, <1>13 DEF Holds
  <2>2. Holds(n, x, y) <=> \E m \in 1..N : n.keys[m] = x /\ n.vals[m] = y
    BY <1>13 DEF Holds
  <2>3. ASSUME Holds(q, x, y) PROVE (Holds(n, x, y) /\ x # k) \/ (x = k /\ y = v)
    <3>1. PICK j \in 1..(N + 1) : ks[j] = x /\ rs[j] = y
      BY <2>1, <2>3
    <3>2. CASE j = i
      BY <1>9, <3>1, <3>2
    <3>3. CASE j # i
      <4>1. PICK m \in 1..N : ks[j] = n.keys[m] /\ rs[j] = n.vals[m]
        BY <1>11, <3>3
      <4>2. n.keys[m] = x /\ n.vals[m] = y
        BY <3>1, <4>1
      <4> QED BY <1>10, <2>2, <4>2
    <3> QED BY <3>2, <3>3
  <2>4. ASSUME Holds(n, x, y) PROVE Holds(q, x, y)
    <3>1. PICK m \in 1..N : n.keys[m] = x /\ n.vals[m] = y
      BY <2>2, <2>4
    <3> QED BY <1>12, <2>1, <3>1
  <2>5. Holds(q, k, v)
    BY <1>8, <1>9, <1>13 DEF Holds
  <2> QED BY <2>3, <2>4, <2>5
<1>15. \A j \in 1..Len(q.keys) : q.keys[j] = k \/ \E m \in 1..Len(n.keys) : q.keys[j] = n.keys[m]
  BY <1>8, <1>9, <1>11, <1>13 DEF N
<1> QED BY <1>7, <1>8, <1>14, <1>15 DEF IsFilled, q, ks, rs

\* insertLeaf, before it splits, puts the pair into the leaf.
LEMMA FilledIs ==
    ASSUME NEW n, Formed(n), n.leaf, NEW k \in Keys, NEW v \in RowKeys
    PROVE  IsFilled(n, k, v, Filled(n, k, v))
<1> DEFINE i == position(n.keys, k)
<1>1. n.keys \in Seq(Keys)
  BY NodeParts
<1>2. IsPosition(n.keys, k, i)
  BY <1>1, PositionIs
<1> HIDE DEF i
<1>3. i \in 1..(Len(n.keys) + 1) /\ Len(n.keys) \in Nat
  BY <1>1, <1>2, SMT DEF IsPosition
<1>4. CASE i <= Len(n.keys) /\ n.keys[i] = k
  <2>1. i \in 1..Len(n.keys)
    BY <1>3, <1>4, SMT
  <2>2. IsFilled(n, k, v, Leaf(n.keys, [n.vals EXCEPT ![i] = v], n.next))
    BY <1>4, <2>1, FilledPresent
  <2> QED BY <1>4, <2>2 DEF Filled, i
<1>5. CASE ~(i <= Len(n.keys) /\ n.keys[i] = k)
  <2>1. IsFilled(n, k, v, Leaf(insertAt(n.keys, i, k), insertAt(n.vals, i, v), n.next))
    BY <1>2, <1>5, FilledAbsent
  <2> QED BY <1>5, <2>1 DEF Filled, i
<1> QED BY <1>4, <1>5

-----------------------------------------------------------------------------
(* The leaf chain.  rk[a] is the number of leaves behind leaf a. *)

Leaves(h) == {a \in Addresses(h) : h[a].leaf}

Chained(h, R, rk) ==
    /\ \A a \in Leaves(h) :
          /\ rk[a] \in Nat /\ (h[a].next = nil <=> rk[a] = 0)
          /\ h[a].next # nil => h[a].next \in Leaves(h) /\ rk[h[a].next] = rk[a] - 1
    /\ \A a, b \in Leaves(h) : a # b => rk[a] # rk[b] /\ R[a] # {}
    /\ \A a, b \in Leaves(h) : rk[b] < rk[a] => \A x \in R[a], y \in R[b] : Less(x, y)

\* Nodes within their order, and no chain through interior nodes.
Bounded(h) == \A a \in Addresses(h) : Len(h[a].keys) <= Order /\ (h[a].leaf \/ h[a].next = nil)

\* The chain depends on the leaves alone.
LEMMA ChainKept ==
    ASSUME NEW h, NEW R, NEW rk, Chained(h, R, rk), NEW g, NEW Q, Leaves(g) = Leaves(h),
           \A a \in Leaves(h) : g[a].next = h[a].next /\ Q[a] = R[a]
    PROVE  Chained(g, Q, rk)
BY DEF Chained

\* A leaf that splits keeps its place, and its right half comes behind it.
ChainCut(h, R, a, s, w, g, Q) ==
    /\ w \notin Leaves(h) /\ w # nil /\ Leaves(g) = Leaves(h) \cup {w}
    /\ \A b \in Leaves(h) : b # a => g[b].next = h[b].next /\ Q[b] = R[b]
    /\ g[a].next = w /\ g[w].next = h[a].next
    /\ Q[a] = {k \in R[a] : Less(k, s)} /\ Q[w] = {k \in R[a] : ~Less(k, s)}
    /\ Q[a] # {} /\ Q[w] # {} /\ R[a] \subseteq Keys /\ s \in Keys

\* A leaf that splits leaves the chain ordered and unbroken.
LEMMA ChainSplit ==
    ASSUME NEW h, NEW R, NEW rk, Chained(h, R, rk), NEW a \in Leaves(h), NEW s, NEW w, NEW g, NEW Q,
           ChainCut(h, R, a, s, w, g, Q)
    PROVE  \E rl : Chained(g, Q, rl)
<1> USE DEF ChainCut
<1> DEFINE rl == [b \in Leaves(g) |-> IF b = w THEN rk[a] ELSE IF rk[b] >= rk[a] THEN rk[b] + 1 ELSE rk[b]]
<1>1. /\ rl[w] = rk[a]
      /\ \A b \in Leaves(h) : rl[b] = IF rk[b] >= rk[a] THEN rk[b] + 1 ELSE rk[b]
  OBVIOUS
<1> HIDE DEF rl
<1>2. \A b \in Leaves(h) : rk[b] \in Nat /\ (b # a => rk[b] # rk[a] /\ rk[b] # 0 - 1)
  BY SMT DEF Chained
<1>3. /\ rk[a] \in Nat /\ rl[a] = rk[a] + 1
      /\ \A b \in Leaves(h) : b # a => (rk[b] > rk[a] /\ rl[b] = rk[b] + 1) \/ (rk[b] < rk[a] /\ rl[b] = rk[b])
  BY <1>1, <1>2, SMT
<1>4. ASSUME NEW b \in Leaves(g)
      PROVE  /\ rl[b] \in Nat /\ (g[b].next = nil <=> rl[b] = 0)
             /\ g[b].next # nil => g[b].next \in Leaves(g) /\ rl[g[b].next] = rl[b] - 1
  <2>1. \A c \in Leaves(h) : /\ rk[c] \in Nat /\ (h[c].next = nil <=> rk[c] = 0)
                             /\ h[c].next # nil => h[c].next \in Leaves(h) /\ rk[h[c].next] = rk[c] - 1
    BY DEF Chained
  <2>2. CASE b = a
    <3>1. g[b].next = w /\ w \in Leaves(g) /\ rl[b] = rk[a] + 1
      BY <1>3, <2>2
    <3> QED BY <1>1, <1>3, <3>1, SMT
  <2>3. CASE b = w
    <3>1. g[b].next = h[a].next /\ rl[b] = rk[a]
      BY <1>1, <2>3
    <3>2. ASSUME h[a].next # nil PROVE h[a].next \in Leaves(g) /\ rl[h[a].next] = rk[a] - 1
      <4> DEFINE c == h[a].next
      <4>1. c \in Leaves(h) /\ rk[c] = rk[a] - 1
        BY <2>1, <3>2
      <4> HIDE DEF c
      <4>2. c # a /\ ~(rk[c] > rk[a])
        BY <1>3, <4>1, SMT
      <4>3. rl[c] = rk[c]
        BY <1>3, <4>1, <4>2
      <4> QED BY <4>1, <4>3 DEF c
    <3> QED BY <1>3, <2>1, <3>1, <3>2
  <2>4. CASE b # a /\ b # w
    <3>1. b \in Leaves(h) /\ g[b].next = h[b].next
      BY <2>4
    <3>2. ASSUME h[b].next # nil PROVE h[b].next \in Leaves(g) /\ rl[h[b].next] = rl[b] - 1
      <4> DEFINE c == h[b].next
      <4>1. c \in Leaves(h) /\ rk[c] = rk[b] - 1 /\ rk[b] \in Nat /\ rk[c] \in Nat
        BY <2>1, <3>1, <3>2
      <4> HIDE DEF c
      <4>2. CASE c = a
        BY <1>3, <2>4, <3>1, <4>1, <4>2, SMT DEF c
      <4>3. CASE c # a
        <5>1. (rk[b] > rk[a] /\ rl[b] = rk[b] + 1) \/ (rk[b] < rk[a] /\ rl[b] = rk[b])
          BY <1>3, <2>4, <3>1
        <5>2. (rk[c] > rk[a] /\ rl[c] = rk[c] + 1) \/ (rk[c] < rk[a] /\ rl[c] = rk[c])
          BY <1>3, <4>1, <4>3
        <5>3. rl[c] = rl[b] - 1
          BY <1>3, <4>1, <5>1, <5>2, SMT
        <5> QED BY <4>1, <5>3 DEF c
      <4> QED BY <4>2, <4>3
    <3>3. rl[b] \in Nat /\ (rl[b] = 0 <=> rk[b] = 0)
      <4>1. rk[b] \in Nat /\ ((rk[b] > rk[a] /\ rl[b] = rk[b] + 1) \/ (rk[b] < rk[a] /\ rl[b] = rk[b]))
        BY <1>2, <1>3, <2>4, <3>1
      <4> QED BY <1>3, <4>1, SMT
    <3> QED BY <2>1, <3>1, <3>2, <3>3
  <2> QED BY <2>2, <2>3, <2>4
<1>5. ASSUME NEW b \in Leaves(g), NEW c \in Leaves(g), b # c PROVE rl[b] # rl[c] /\ Q[b] # {}
  <2>1. b \in Leaves(h) /\ b # a => Q[b] # {}
    BY DEF Chained
  <2>2. b \in Leaves(h) /\ c \in Leaves(h) => rk[b] # rk[c]
    BY <1>5 DEF Chained
  <2>3. Q[b] # {}
    BY <2>1
  <2>4. CASE b \in Leaves(h) /\ c \in Leaves(h)
    <3>1. rk[b] \in Nat /\ rk[c] \in Nat
      BY <1>2, <2>4
    <3> QED BY <1>1, <1>3, <2>2, <2>3, <2>4, <3>1, SMT
  <2>5. CASE b = w
    <3>1. c \in Leaves(h) /\ rk[c] \in Nat /\ rl[b] = rk[a]
      BY <1>1, <1>2, <1>5, <2>5
    <3> QED BY <1>3, <2>3, <3>1, SMT
  <2>6. CASE c = w
    <3>1. b \in Leaves(h) /\ rk[b] \in Nat /\ rl[c] = rk[a]
      BY <1>1, <1>2, <1>5, <2>6
    <3> QED BY <1>3, <2>3, <3>1, SMT
  <2> QED BY <2>4, <2>5, <2>6
<1>6. ASSUME NEW b \in Leaves(g), NEW c \in Leaves(g), rl[c] < rl[b], NEW x \in Q[b], NEW y \in Q[c]
      PROVE  Less(x, y)
  <2>1. \A d, e \in Leaves(h) : rk[e] < rk[d] => \A x1 \in R[d], y1 \in R[e] : Less(x1, y1)
    BY DEF Chained
  <2> DEFINE old(d) == IF d = w THEN a ELSE d
  <2>2. \A d \in Leaves(g) : old(d) \in Leaves(h) /\ Q[d] \subseteq R[old(d)]
    OBVIOUS
  <2>3. CASE old(b) = old(c)
    <3>1. rl[a] \in Nat /\ rl[w] \in Nat /\ rl[a] > rl[w]
      BY <1>1, <1>3, SMT
    <3>2. b = a /\ c = w
      <4>1. b # c
        BY <1>4, <1>6, SMT
      <4>2. ~(b = w /\ c = a)
        BY <1>6, <3>1, SMT
      <4> QED BY <2>3, <4>1, <4>2
    <3>3. x \in Keys /\ y \in Keys /\ Less(x, s) /\ ~Less(y, s)
      BY <3>2
    <3>4. y = s \/ Less(s, y)
      BY <3>3, LessTotal
    <3> QED BY <3>3, <3>4, LessTransitive
  <2>4. CASE old(b) # old(c)
    <3>1. rk[old(c)] < rk[old(b)]
      <4>1. \A d \in Leaves(h) : rk[d] \in Nat
        BY <1>2
      <4> QED BY <1>1, <1>3, <1>6, <2>2, <2>4, <4>1, SMT
    <3> QED BY <2>1, <2>2, <3>1
  <2> QED BY <2>3, <2>4
<1>7. Chained(g, Q, rl)
  BY <1>4, <1>5, <1>6 DEF Chained
<1> QED BY <1>7
=============================================================================
