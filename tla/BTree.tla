-------------------------------- MODULE BTree --------------------------------
(***************************************************************************)
(* The in-memory B+tree behind every primary-key and secondary index       *)
(* (btree.go).  Nodes are cells of a heap, pointers are their addresses,   *)
(* and 0 is nil, so that the leaf chain (next) and the tree (children) are *)
(* two structures that every split has to keep in step.  Deletion only     *)
(* ever shortens a leaf: leaves become empty and stay, and separators      *)
(* outlive the keys they were copied from.  Positions count from 1, and a  *)
(* walk along pointers is a function of the number of steps taken, of      *)
(* which there are at most as many as nodes.                               *)
(***************************************************************************)
EXTENDS Integers, Sequences

CONSTANTS
    Ints,       \* integer keys
    Strings,    \* string keys, each as its rank in the order of strings
    Order       \* btreeOrder: the most keys a node keeps

ASSUME OrderIsEven == Order \in Nat /\ Order >= 2 /\ Order % 2 = 0
ASSUME KeysAreNumbers == Ints \cup Strings \subseteq Int

VARIABLES
    heap,       \* the nodes, in the order they were allocated
    root        \* the root's address

vars == <<heap, root>>

nil == 0
Keys == [isInt : {TRUE}, v : Ints] \cup [isInt : {FALSE}, v : Strings]

\* The row storage key an index keeps for k; no two keys share one.
RowKey(k) == <<"row", k>>
RowKeys == {RowKey(k) : k \in Keys}

\* pkKey.compare(a, b) < 0: integers come before strings.
Less(a, b) == IF a.isInt = b.isInt THEN a.v < b.v ELSE a.isInt

Leaf(ks, rs, nx) == [leaf |-> TRUE, keys |-> ks, vals |-> rs, children |-> <<>>, next |-> nx]
Interior(ks, cs) == [leaf |-> FALSE, keys |-> ks, vals |-> <<>>, children |-> cs, next |-> nil]

Init ==
    /\ heap = <<Leaf(<<>>, <<>>, nil)>>
    /\ root = 1

-----------------------------------------------------------------------------
(* Searching *)

\* Where the loops that skip smaller keys stop.
position(ks, k) ==
    CHOOSE i \in 1..(Len(ks) + 1) :
        /\ \A j \in 1..(i - 1) : Less(ks[j], k)
        /\ i <= Len(ks) => ~Less(ks[i], k)

\* Where the loops that look for k stop; no position when they do not find it.
matches(ks, k) == {i \in 1..Len(ks) : ks[i] = k /\ \A j \in 1..(i - 1) : ks[j] # k}

childIndexSkipsEqual(n, k) == position(n.keys, k)                    \* mutant

childIndex(n, k) ==
    CHOOSE i \in 1..(Len(n.keys) + 1) :
        /\ \A j \in 1..(i - 1) : ~Less(k, n.keys[j])
        /\ i <= Len(n.keys) => Less(k, n.keys[i])

\* The nodes on the way from a to the leaf of k; the walk stays at the leaf.
path(h, a, k) ==
    LET p[i \in 0..Len(h)] ==
            IF i = 0 THEN a
            ELSE LET b == p[i - 1]
                 IN IF h[b].leaf THEN b ELSE h[b].children[childIndex(h[b], k)]
    IN p

descend(h, a, k) == path(h, a, k)[Len(h)]

leftmost(h, a) ==
    LET p[i \in 0..Len(h)] ==
            IF i = 0 THEN a
            ELSE LET b == p[i - 1] IN IF h[b].leaf THEN b ELSE h[b].children[1]
    IN p[Len(h)]

\* The row key of k, as a set that is empty when the key is not found.
Get(k) ==
    LET n == heap[descend(heap, root, k)]
    IN {n.vals[i] : i \in matches(n.keys, k)}

\* What an iterator at position i of leaf a still returns: first the rest of the
\* leaf, then the leaves behind it.
pairs(n) == [j \in 1..Len(n.vals) |-> <<n.keys[j], n.vals[j]>>]
Drain(a, i) ==
    LET behind[b \in 0..Len(heap)] ==
            IF b = nil THEN <<>> ELSE pairs(heap[b]) \o behind[heap[b].next]
    IN SubSeq(pairs(heap[a]), i, Len(heap[a].keys)) \o behind[heap[a].next]

Seek(k) == LET a == descend(heap, root, k) IN Drain(a, position(heap[a].keys, k))

Ascend == Drain(leftmost(heap, root), 1)

-----------------------------------------------------------------------------
(* Changing the tree.  An insertion below address a returns the heap it    *)
(* leaves and, when the node split, the separator and the new right node.  *)

insertAt(s, i, x) ==
    [j \in 1..(Len(s) + 1) |-> IF j < i THEN s[j] ELSE IF j = i THEN x ELSE s[j - 1]]
removeAt(s, i) == [j \in 1..(Len(s) - 1) |-> IF j < i THEN s[j] ELSE s[j + 1]]

Grown(h, k, right) == [heap |-> h, key |-> k, right |-> right]
Kept(h) == Grown(h, nil, nil)

splitLeafLosingChain(h, a) ==                                        \* mutant
    LET n == h[a]
        mid == Len(n.keys) \div 2
        right == Leaf(SubSeq(n.keys, mid + 1, Len(n.keys)), SubSeq(n.vals, mid + 1, Len(n.vals)), nil)
        left == Leaf(SubSeq(n.keys, 1, mid), SubSeq(n.vals, 1, mid), Len(h) + 1)
    IN Grown(Append([h EXCEPT ![a] = left], right), right.keys[1], Len(h) + 1)

splitLeaf(h, a) ==
    LET n == h[a]
        mid == Len(n.keys) \div 2
        right == Leaf(SubSeq(n.keys, mid + 1, Len(n.keys)), SubSeq(n.vals, mid + 1, Len(n.vals)), n.next)
        left == Leaf(SubSeq(n.keys, 1, mid), SubSeq(n.vals, 1, mid), Len(h) + 1)
    IN Grown(Append([h EXCEPT ![a] = left], right), right.keys[1], Len(h) + 1)

splitInteriorKeepingChild(h, a) ==                                   \* mutant
    LET n == h[a]
        mid == Len(n.keys) \div 2
        right == Interior(SubSeq(n.keys, mid + 2, Len(n.keys)),
                          SubSeq(n.children, mid + 2, Len(n.children)))
        left == Interior(SubSeq(n.keys, 1, mid), SubSeq(n.children, 1, mid))
    IN Grown(Append([h EXCEPT ![a] = left], right), n.keys[mid + 1], Len(h) + 1)

\* The middle key moves up: it stays in neither half.
splitInterior(h, a) ==
    LET n == h[a]
        mid == Len(n.keys) \div 2
        right == Interior(SubSeq(n.keys, mid + 2, Len(n.keys)),
                          SubSeq(n.children, mid + 2, Len(n.children)))
        left == Interior(SubSeq(n.keys, 1, mid), SubSeq(n.children, 1, mid + 1))
    IN Grown(Append([h EXCEPT ![a] = left], right), n.keys[mid + 1], Len(h) + 1)

insertLeaf(h, a, k, r) ==
    LET n == h[a]
        i == position(n.keys, k)
        inserted == [h EXCEPT ![a] = Leaf(insertAt(n.keys, i, k), insertAt(n.vals, i, r), n.next)]
    IN IF i <= Len(n.keys) /\ n.keys[i] = k
       THEN Kept([h EXCEPT ![a] = Leaf(n.keys, [n.vals EXCEPT ![i] = r], n.next)])
       ELSE IF Len(n.keys) + 1 <= Order THEN Kept(inserted) ELSE splitLeaf(inserted, a)

\* What insert does at the interior node a when the call on its child i returns.
insertInterior(below, a, i) ==
    LET h == below.heap
        n == h[a]
        linked == [h EXCEPT ![a] = Interior(insertAt(n.keys, i, below.key),
                                            insertAt(n.children, i + 1, below.right))]
    IN IF below.right = nil THEN below
       ELSE IF Len(n.keys) + 1 <= Order THEN Kept(linked)
       ELSE splitInterior(linked, a)

\* The calls of insert go down the path of k and return from its leaf upwards.
depth(h, p) == CHOOSE d \in 0..Len(h) : h[p[d]].leaf /\ \A i \in 0..(d - 1) : ~h[p[i]].leaf

insert(h, a, k, r) ==
    LET p == path(h, a, k)
        d == depth(h, p)
        returned[j \in 0..d] ==
            IF j = 0 THEN insertLeaf(h, p[d], k, r)
            ELSE insertInterior(returned[j - 1], p[d - j], childIndex(h[p[d - j]], k))
    IN returned[d]

Put(k, r) ==
    LET done == insert(heap, root, k, r)
    IN IF done.right = nil
       THEN heap' = done.heap /\ UNCHANGED root
       ELSE /\ heap' = Append(done.heap, Interior(<<done.key>>, <<root, done.right>>))
            /\ root' = Len(done.heap) + 1

remove(h, a, i) == [h EXCEPT ![a] = Leaf(removeAt(h[a].keys, i), removeAt(h[a].vals, i), h[a].next)]

deleteUnmatched(k) ==                                                \* mutant
    LET a == descend(heap, root, k)
        i == position(heap[a].keys, k)
    IN /\ heap' = IF i <= Len(heap[a].keys) THEN remove(heap, a, i) ELSE heap
       /\ UNCHANGED root

\* btreeNode.delete, at the leaf it reaches.  Delete's test for a root without
\* keys never succeeds: an interior node loses no key.
Delete(k) ==
    LET a == descend(heap, root, k)
        found == matches(heap[a].keys, k)
    IN /\ \/ \E i \in found : heap' = remove(heap, a, i)
          \/ found = {} /\ UNCHANGED heap
       /\ UNCHANGED root

Next == \E k \in Keys : Put(k, RowKey(k)) \/ Delete(k)

Spec == Init /\ [][Next]_vars

-----------------------------------------------------------------------------
(* Properties *)

Node == [leaf : BOOLEAN, keys : Seq(Keys), vals : Seq(RowKeys), children : Seq(Nat \ {nil}), next : Nat]

\* Nodes stay within their order, a leaf has a row key for every key, an interior
\* node has one child more than keys, and no pointer dangles.
TypeOK ==
    /\ heap \in Seq(Node)
    /\ root \in 1..Len(heap)
    /\ \A a \in 1..Len(heap) :
        LET n == heap[a]
        IN /\ Len(n.keys) <= Order
           /\ Len(n.vals) = IF n.leaf THEN Len(n.keys) ELSE 0
           /\ Len(n.children) = IF n.leaf THEN 0 ELSE Len(n.keys) + 1
           /\ \A i \in 1..Len(n.children) : n.children[i] <= Len(heap)
           /\ n.next <= Len(heap)

\* Every pair ever put and not deleted since: no node leaves the tree, so it is in
\* one of the leaves.
Pairs == UNION {{pairs(heap[a])[i] : i \in 1..Len(heap[a].vals)} : a \in 1..Len(heap)}

\* The map the tree stands for.
Contents == [k \in {p[1] : p \in Pairs} |-> (CHOOSE p \in Pairs : p[1] = k)[2]]

InOrder(found) == \A i \in 1..(Len(found) - 1) : Less(found[i][1], found[i + 1][1])

\* Get finds exactly the keys in the leaves, however the splits and the deletions
\* before it left separators and empty leaves behind.
GetFindsEveryKey ==
    LET map == Contents
    IN \A k \in Keys : Get(k) = IF k \in DOMAIN map THEN {map[k]} ELSE {}

\* An iterator, which follows the leaf chain and passes over empty leaves,
\* returns in order every pair of the tree from its starting key on, and no
\* other: secondaryIdx.lookup and the table scans rest on it.
IteratorsAreComplete ==
    LET complete(found, wanted) == InOrder(found) /\ {found[i] : i \in 1..Len(found)} = wanted
    IN /\ complete(Ascend, Pairs)
       /\ \A k \in Keys : complete(Seek(k), {p \in Pairs : ~Less(p[1], k)})

\* Each operation does to the map the tree stands for what the operation of the
\* same name does to an ordered map: one key changes, and only the one asked for.
Abstract == INSTANCE OrderedMap WITH map <- Contents
ImplementsOrderedMap ==
    /\ Abstract!Spec
    /\ [][\A k \in Keys : /\ Put(k, RowKey(k)) => Abstract!Put(k, RowKey(k))
                         /\ Delete(k) => Abstract!Delete(k)]_vars
=============================================================================
