-------------------------- MODULE BPlusTreeProofs ---------------------------
(***************************************************************************)
(* The B+ tree (bptree.c) is sound for any number of entries, any size of  *)
(* a node and any allocation that fails: it is a balanced and sorted tree, *)
(* it implements IdMap, and free_node releases all it can reach once.      *)
(*                                                                         *)
(* The properties speak of the tree through recursive functions.  The      *)
(* inductive invariant does not: it says that two functions exist on the   *)
(* nodes, a height h and a region R, the keys whose descent comes to the   *)
(* node, and relates only a node and its children.                         *)
(***************************************************************************)
EXTENDS BPlusTree, FiniteSetTheorems, SequenceTheorems, WellFoundedInduction, TLAPS

Ascending(s) == \A i, j \in 1..Len(s) : i < j => s[i] < s[j]

\* The least number of keys of a node that is not the root.
Half(n) == IF heap[n].leaf THEN (MaxKeys + 1) \div 2 ELSE MaxKeys - (MaxKeys + 1) \div 2

\* The node that holds a key too many, the node that no other points to yet,
\* and the place that stands for that node as well.
Over == IF pc \in {"splitLeaf", "splitInternal"} THEN node ELSE Null
Orphan == split.right
OpenLink ==
  IF pc = "absorb" /\ path # <<>> THEN <<path[Len(path)].node, path[Len(path)].child>>
  ELSE <<Null, 0>>

\* The keys of p's region that belong into its child i.
Slot(R, p, i) ==
  {k \in R[p] : /\ i > 1 => heap[p].keys[i - 1] <= k
                /\ i <= Len(heap[p].keys) => k < heap[p].keys[i]}

NodeOK(h, R, n, over) ==
  /\ heap[n] \in NodeRecord
  /\ Len(heap[n].keys) >= 1
  /\ n # root => Len(heap[n].keys) >= Half(n)
  /\ Len(heap[n].keys) <= (IF n = over THEN MaxKeys + 1 ELSE MaxKeys)
  /\ Ascending(heap[n].keys)
  /\ \A i \in 1..Len(heap[n].keys) : heap[n].keys[i] \in R[n]
  /\ heap[n].leaf => Len(heap[n].vals) = Len(heap[n].keys) /\ heap[n].kids = <<>> /\ h[n] = 0
  /\ ~heap[n].leaf =>
       /\ heap[n].vals = <<>> /\ heap[n].next = Null
       /\ Len(heap[n].kids) = Len(heap[n].keys) + 1
       /\ h[n] > 0

\* A child is one lower than its parent and owns its slot.
KidsOK(h, R, p, orphan, link) ==
  \A i \in 1..Len(heap[p].kids) :
    /\ heap[p].kids[i] \in DOMAIN heap
    /\ h[p] = h[heap[p].kids[i]] + 1
    /\ Slot(R, p, i) = R[heap[p].kids[i]] \cup (IF link = <<p, i>> THEN R[orphan] ELSE {})

\* Nodes of one height own different keys.
Apart(h, R) ==
  \A m, n \in DOMAIN heap : m # n /\ h[m] = h[n] => R[m] \cap R[n] = {}

Linked(n) == \E p \in DOMAIN heap : \E i \in 1..Len(heap[p].kids) : heap[p].kids[i] = n

AllLinked(orphan) == \A n \in DOMAIN heap : n = root \/ n = orphan \/ Linked(n)

RootOK(h, R, orphan) ==
  /\ root \in DOMAIN heap
  /\ orphan \in (DOMAIN heap \ {root}) \cup {Null}
  /\ \A n \in DOMAIN heap : h[n] <= h[root]
  /\ Key = R[root] \cup (IF orphan # Null /\ h[orphan] = h[root] THEN R[orphan] ELSE {})

Before(A, B) == \A a \in A : \A b \in B : a < b

\* Between the keys of a leaf and those of the next one there are none.
NextOK(R, n) ==
  /\ heap[n].next = Null =>
       \A m \in DOMAIN heap : heap[m].leaf /\ m # n => Before(R[m], R[n])
  /\ heap[n].next # Null =>
       /\ heap[n].next \in DOMAIN heap
       /\ heap[heap[n].next].leaf
       /\ Before(R[n], R[heap[n].next])
       /\ \A m \in DOMAIN heap : heap[m].leaf /\ m \notin {n, heap[n].next} =>
            Before(R[m], R[n]) \/ Before(R[heap[n].next], R[m])

Shape(h, R, over, orphan, link) ==
  /\ DOMAIN heap \subseteq Node
  /\ h \in [DOMAIN heap -> Nat]
  /\ R \in [DOMAIN heap -> SUBSET Key]
  /\ \A n \in DOMAIN heap : NodeOK(h, R, n, over)
  /\ \A p \in DOMAIN heap : KidsOK(h, R, p, orphan, link)
  /\ Apart(h, R)
  /\ AllLinked(orphan)
  /\ RootOK(h, R, orphan)
  /\ \A n \in DOMAIN heap : heap[n].leaf => NextOK(R, n)

\* The nodes from the root to the current one.
OnPath(i) == IF i <= Len(path) THEN path[i].node ELSE node

Stack(h) ==
  /\ path \in Seq([node : DOMAIN heap, child : 1..(MaxKeys + 1)])
  /\ node \in DOMAIN heap
  /\ OnPath(1) = root
  /\ \A i \in 1..Len(path) :
       /\ path[i].child <= Len(heap[path[i].node].kids)
       /\ heap[path[i].node].kids[path[i].child] = OnPath(i + 1)
  /\ \A i \in 1..(Len(path) + 1) : h[OnPath(i)] + i = h[root] + 1

\* Between a split and the link to its right half.
Handed(h, R) ==
  /\ split \in [promoted : Key, right : DOMAIN heap]
  /\ split.right # node
  /\ h[split.right] = h[node]
  /\ split.promoted \in R[split.right]
  /\ \A k \in R[node] : k < split.promoted
  /\ \A k \in R[split.right] : split.promoted <= k
  /\ Len(heap[node].keys) >= Half(node)

\* Where the call that runs has come to.
Running(h, R) ==
  /\ pc \in {"insert", "search"} => node \in DOMAIN heap /\ key \in R[node]
  /\ pc \in {"insert", "splitLeaf", "absorb", "splitInternal"} => Stack(h)
  /\ pc \in {"splitLeaf", "splitInternal"} =>
       /\ Len(heap[node].keys) = MaxKeys + 1
       /\ heap[node].leaf <=> pc = "splitLeaf"
  /\ pc = "absorb" => Handed(h, R)

Tree(h, R) == Shape(h, R, Over, Orphan, OpenLink) /\ Running(h, R)

\* What an insertion without memory leaves.
Wreck(h, R) ==
  \E over, orphan \in DOMAIN heap \cup {Null} :
    /\ Shape(h, R, over, orphan, <<Null, 0>>)
    /\ orphan # Null => h[orphan] = h[root]

CallOK ==
  /\ pc \in {"idle", "insert", "splitLeaf", "absorb", "splitInternal", "search"}
  /\ damaged \in BOOLEAN
  /\ damaged => pc = "idle"
  /\ pc = "idle" => key = Null /\ value = Null /\ node = Null
  /\ pc # "idle" => key \in Key
  /\ pc = "search" => value = Null
  /\ pc \notin {"idle", "search"} => value \in Value
  /\ pc \in {"idle", "search"} => path = <<>>
  /\ pc # "absorb" => split = NoSplit
  /\ Splitting => <<key, value>> \in Bindings

EmptyTree ==
  /\ root = Null
  /\ DOMAIN heap = {}
  /\ node = Null
  /\ path = <<>>
  /\ pc \in {"idle", "insert", "search"}

TreeInv ==
  /\ CallOK
  /\ \/ EmptyTree
     \/ ~damaged /\ \E h, R : Tree(h, R)
     \/ damaged /\ \E h, R : Wreck(h, R)

-----------------------------------------------------------------------------
(* Sequences and positions.                                                *)

\* A set of natural numbers that is not empty has a least member.
LEMMA LeastOf ==
  ASSUME NEW S, S \subseteq Nat, S # {}
  PROVE  \E x \in S : \A y \in S : x <= y
<1>1. IsWellFoundedOn(OpToRel(<, Nat), Nat)
  BY NatLessThanWellFounded
<1>2. PICK x \in S : \A y \in S : ~(<<y, x>> \in OpToRel(<, Nat))
  BY <1>1, WFMin, Zenon
<1>3. ASSUME NEW y \in S PROVE x <= y
  <2>1. y \in Nat /\ x \in Nat
    OBVIOUS
  <2>2. ~(y < x)
    BY <1>2, <2>1 DEF OpToRel
  <2> QED
    BY <2>1, <2>2
<1> QED
  BY <1>3

\* 1..n has n members.
LEMMA IntervalSize == ASSUME NEW n \in Nat PROVE Cardinality(1..n) = n
<1>1. Cardinality(1..n) = IF 1 > n THEN 0 ELSE n - 1 + 1
  BY FS_Interval
<1> QED
  BY <1>1

\* The numbers up to n that come before all others of them are 1, 2, ....
LEMMA PrefixSize ==
  ASSUME NEW n \in Nat, NEW S, S \subseteq 1..n,
         \A i, j \in 1..n : i < j /\ j \in S => i \in S
  PROVE  /\ Cardinality(S) \in 0..n
         /\ \A i \in 1..n : i <= Cardinality(S) <=> i \in S
<1>1. CASE (1..n) \ S = {}
  <2>1. S = 1..n
    BY <1>1
  <2>2. Cardinality(1..n) = n
    BY IntervalSize
  <2> QED
    BY <2>1, <2>2
<1>2. CASE (1..n) \ S # {}
  <2>1. PICK m \in (1..n) \ S : \A j \in (1..n) \ S : m <= j
    <3> DEFINE T == (1..n) \ S
    <3>1. T \subseteq Nat /\ T # {}
      BY <1>2
    <3> HIDE DEF T
    <3>2. \E m \in T : \A j \in T : m <= j
      BY <3>1, LeastOf
    <3> QED
      BY <3>2 DEF T
  <2>2. S = 1..(m - 1)
    <3>1. ASSUME NEW i \in S PROVE i \in 1..(m - 1)
      BY <2>1
    <3>2. ASSUME NEW i \in 1..(m - 1) PROVE i \in S
      BY <2>1
    <3> QED
      BY <3>1, <3>2
  <2>3. Cardinality(1..(m - 1)) = m - 1
    BY <2>1, IntervalSize
  <2>4. \A i \in 1..n : i <= m - 1 <=> i \in S
    BY <2>1, <2>2
  <2>5. m - 1 \in 0..n
    BY <2>1
  <2>6. Cardinality(S) = m - 1
    BY <2>2, <2>3, Zenon
  <2> HIDE DEF Cardinality
  <2> QED
    BY <2>4, <2>5, <2>6
<1> QED
  BY <1>1, <1>2

\* The child to go down to comes after the keys that are not above k
\* (find_child_index).
LEMMA ChildIndexIs ==
  ASSUME NEW ks \in Seq(Int), Ascending(ks), NEW k \in Int
  PROVE  /\ ChildIndex(ks, k) \in 1..(Len(ks) + 1)
         /\ \A i \in 1..Len(ks) : i < ChildIndex(ks, k) <=> ks[i] <= k
<1>1. \A i, j \in 1..Len(ks) : i < j /\ j \in AtMost(ks, k) => i \in AtMost(ks, k)
  <2>1. \A i \in 1..Len(ks) : ks[i] \in Int
    OBVIOUS
  <2> QED
    BY <2>1 DEF AtMost, Ascending
<1>2. AtMost(ks, k) \subseteq 1..Len(ks) /\ Len(ks) \in Nat
  BY DEF AtMost
<1>3. /\ Cardinality(AtMost(ks, k)) \in 0..Len(ks)
      /\ \A i \in 1..Len(ks) : i <= Cardinality(AtMost(ks, k)) <=> i \in AtMost(ks, k)
  BY <1>1, <1>2, PrefixSize
<1>4. PICK c : c = Cardinality(AtMost(ks, k))
  OBVIOUS
<1>5. ChildIndex(ks, k) = c + 1
  BY <1>4 DEF ChildIndex
<1>6. c \in 0..Len(ks) /\ \A i \in 1..Len(ks) : i <= c <=> ks[i] <= k
  BY <1>3, <1>4 DEF AtMost
<1> QED
  BY <1>2, <1>5, <1>6

\* A key's place in a leaf comes after the smaller keys (the scan of
\* insert_into_leaf).
LEMMA LeafPositionIs ==
  ASSUME NEW ks \in Seq(Int), Ascending(ks), NEW k \in Int
  PROVE  /\ LeafPosition(ks, k) \in 1..(Len(ks) + 1)
         /\ \A i \in 1..Len(ks) : i < LeafPosition(ks, k) <=> ks[i] < k
<1>1. \A i, j \in 1..Len(ks) : i < j /\ j \in Below(ks, k) => i \in Below(ks, k)
  <2>1. \A i \in 1..Len(ks) : ks[i] \in Int
    OBVIOUS
  <2> QED
    BY <2>1 DEF Below, Ascending
<1>2. Below(ks, k) \subseteq 1..Len(ks) /\ Len(ks) \in Nat
  BY DEF Below
<1>3. /\ Cardinality(Below(ks, k)) \in 0..Len(ks)
      /\ \A i \in 1..Len(ks) : i <= Cardinality(Below(ks, k)) <=> i \in Below(ks, k)
  BY <1>1, <1>2, PrefixSize
<1>4. PICK c : c = Cardinality(Below(ks, k))
  OBVIOUS
<1>5. LeafPosition(ks, k) = c + 1
  BY <1>4 DEF LeafPosition
<1>6. c \in 0..Len(ks) /\ \A i \in 1..Len(ks) : i <= c <=> ks[i] < k
  BY <1>3, <1>4 DEF Below
<1> QED
  BY <1>2, <1>5, <1>6

\* t is s with x put in at i.
Grown(t, s, i, x) ==
  /\ Len(t) = Len(s) + 1
  /\ t[i] = x
  /\ \A j \in 1..(i - 1) : t[j] = s[j]
  /\ \A j \in (i + 1)..(Len(s) + 1) : t[j] = s[j - 1]

\* What shifting the array up and storing x at i leaves.
LEMMA InsertedAtIs ==
  ASSUME NEW S, NEW s \in Seq(S), NEW x \in S, NEW i \in 1..(Len(s) + 1)
  PROVE  InsertedAt(s, i, x) \in Seq(S) /\ Grown(InsertedAt(s, i, x), s, i, x)
<1> DEFINE a == SubSeq(s, 1, i - 1)
           b == SubSeq(s, i, Len(s))
<1>1. /\ a \in Seq(S) /\ Len(a) = i - 1
      /\ \A j \in 1..(i - 1) : a[j] = s[j]
  OBVIOUS
<1>2. /\ b \in Seq(S) /\ Len(b) = Len(s) - i + 1
      /\ \A j \in 1..(Len(s) - i + 1) : b[j] = s[i + j - 1]
  OBVIOUS
<1>3. InsertedAt(s, i, x) = (a \o <<x>>) \o b
  BY DEF InsertedAt
<1> HIDE DEF a, b
<1> DEFINE c == a \o <<x>>
<1>4. c \in Seq(S) /\ Len(c) = i /\ \A j \in 1..i : c[j] = IF j < i THEN a[j] ELSE x
  BY <1>1
<1> HIDE DEF c
<1>5. InsertedAt(s, i, x) = c \o b
  BY <1>3 DEF c
<1> HIDE DEF c
<1>6. c \in Seq(S) /\ b \in Seq(S) /\ Len(c) = i /\ Len(b) = Len(s) - i + 1
  BY <1>2, <1>4
<1>7. c \o b \in Seq(S) /\ Len(c \o b) = Len(c) + Len(b)
  BY <1>6, ConcatProperties
<1>8. \A j \in 1..(Len(c) + Len(b)) :
        (c \o b)[j] = IF j <= Len(c) THEN c[j] ELSE b[j - Len(c)]
  BY <1>6, ConcatProperties
<1>9. Len(s) \in Nat /\ Len(c) + Len(b) = Len(s) + 1
  BY <1>6
<1>10. c[i] = x /\ \A j \in 1..(i - 1) : c[j] = s[j]
  BY <1>1, <1>4
<1>11. (c \o b)[i] = x /\ \A j \in 1..(i - 1) : (c \o b)[j] = s[j]
  BY <1>6, <1>8, <1>9, <1>10
<1>12. ASSUME NEW j \in (i + 1)..(Len(s) + 1) PROVE (c \o b)[j] = s[j - 1]
  <2>1. /\ j - i \in 1..(Len(s) - i + 1) /\ i + (j - i) - 1 = j - 1
        /\ j \in 1..(Len(c) + Len(b)) /\ ~(j <= Len(c))
    BY <1>6, <1>9
  <2>2. (c \o b)[j] = b[j - i]
    BY <1>6, <1>8, <2>1
  <2>3. b[j - i] = s[i + (j - i) - 1]
    BY <1>2, <2>1
  <2> QED
    BY <2>1, <2>2, <2>3
<1> QED
  BY <1>5, <1>6, <1>7, <1>9, <1>11, <1>12 DEF Grown

\* Length and members of a part of an array (the copy loops of a split).
LEMMA PartIs ==
  ASSUME NEW S, NEW s \in Seq(S), NEW a \in Nat, NEW b \in Nat, 1 <= a, b <= Len(s), a <= b + 1
  PROVE  /\ SubSeq(s, a, b) \in Seq(S)
         /\ Len(SubSeq(s, a, b)) = b - a + 1
         /\ \A j \in 1..(b - a + 1) : SubSeq(s, a, b)[j] = s[a + j - 1]
OBVIOUS
-----------------------------------------------------------------------------
(* Nodes.                                                                  *)

\* The keys of a node can be compared.
LEMMA KeysAreIntegers ==
  ASSUME NEW s \in Seq(Key)
  PROVE  s \in Seq(Int) /\ Len(s) \in Nat /\ \A i \in 1..Len(s) : s[i] \in Key /\ s[i] \in Int
<1>1. s \in [1..Len(s) -> Key] /\ Len(s) \in Nat
  OBVIOUS
<1>2. s \in [1..Len(s) -> Int]
  BY <1>1, TreeAssumption
<1>3. s \in Seq(Int)
  BY <1>1, <1>2
<1> QED
  BY <1>1, <1>2, <1>3

\* What NodeOK says of the types.
NodeFacts(n) ==
  /\ heap[n].leaf \in BOOLEAN
  /\ heap[n].keys \in Seq(Key) /\ heap[n].keys \in Seq(Int) /\ Len(heap[n].keys) \in Nat
  /\ \A i \in 1..Len(heap[n].keys) : heap[n].keys[i] \in Key /\ heap[n].keys[i] \in Int
  /\ heap[n].vals \in Seq(Value) /\ Len(heap[n].vals) \in Nat
  /\ heap[n].kids \in Seq(Node) /\ Len(heap[n].kids) \in Nat
  /\ heap[n].next \in Node \cup {Null}

\* The typed facts that hold of a node.
LEMMA NodeTypes ==
  ASSUME NEW h, NEW R, NEW n, NEW over, NodeOK(h, R, n, over)
  PROVE  NodeFacts(n)
<1>1. heap[n] \in NodeRecord /\ Key \subseteq Int
  BY TreeAssumption DEF NodeOK
<1>2. heap[n].keys \in Seq(Key)
  BY <1>1 DEF NodeRecord
<1>3. /\ heap[n].keys \in Seq(Int) /\ Len(heap[n].keys) \in Nat
      /\ \A i \in 1..Len(heap[n].keys) : heap[n].keys[i] \in Key /\ heap[n].keys[i] \in Int
  BY <1>2, KeysAreIntegers
<1> QED
  BY <1>1, <1>2, <1>3 DEF NodeRecord, NodeFacts

\* The slots of a node are apart.
LEMMA SlotsApart ==
  ASSUME NEW R, NEW p, NodeFacts(p), Ascending(heap[p].keys),
         Len(heap[p].kids) <= Len(heap[p].keys) + 1, R[p] \subseteq Key,
         NEW i \in 1..Len(heap[p].kids), NEW j \in 1..Len(heap[p].kids), i < j,
         NEW k \in Slot(R, p, i)
  PROVE  k \notin Slot(R, p, j)
<1> DEFINE ks == heap[p].keys
<1>1. k \in Int /\ i \in Nat /\ j \in Nat /\ i >= 1 /\ j >= 1
  <2>1. k \in Key
    BY DEF Slot
  <2>2. Len(heap[p].kids) \in Nat
    BY DEF NodeFacts
  <2> QED
    BY <2>1, <2>2, TreeAssumption
<1>2. Len(ks) \in Nat /\ j <= Len(ks) + 1
  BY DEF NodeFacts
<1>3. i \in 1..Len(ks) /\ j - 1 \in 1..Len(ks) /\ j > 1
  BY <1>1, <1>2
<1>4. ks[i] \in Int /\ ks[j - 1] \in Int
  BY <1>3 DEF NodeFacts
<1>5. k < ks[i]
  BY <1>3 DEF Slot
<1>6. i < j - 1 => ks[i] < ks[j - 1]
  BY <1>3 DEF Ascending
<1>7. k \in Slot(R, p, j) => ks[j - 1] <= k
  BY <1>3 DEF Slot
<1> HIDE DEF ks
<1>8. i = j - 1 => ks[i] = ks[j - 1]
  OBVIOUS
<1> QED
  BY <1>1, <1>4, <1>5, <1>6, <1>7, <1>8

\* Every node owns a key, at least the first one it holds.
LEMMA RegionsInhabited ==
  ASSUME NEW h, NEW R, NEW n, NEW over, NodeOK(h, R, n, over)
  PROVE  heap[n].keys[1] \in R[n] /\ heap[n].keys[1] \in Key /\ heap[n].keys[1] \in Int
<1>1. NodeFacts(n)
  BY NodeTypes
<1>2. 1 \in 1..Len(heap[n].keys)
  BY <1>1 DEF NodeOK, NodeFacts
<1> QED
  BY <1>1, <1>2 DEF NodeOK, NodeFacts

\* No node has two parents, or two places in one.
LEMMA OneLink ==
  ASSUME NEW h, NEW R, NEW over, NEW orphan, NEW link, Shape(h, R, over, orphan, link),
         NEW p \in DOMAIN heap, NEW q \in DOMAIN heap,
         NEW i \in 1..Len(heap[p].kids), NEW j \in 1..Len(heap[q].kids),
         heap[p].kids[i] = heap[q].kids[j]
  PROVE  p = q /\ i = j
<1> DEFINE m == heap[p].kids[i]
<1>1. m \in DOMAIN heap /\ h[p] = h[m] + 1 /\ h[q] = h[m] + 1
      /\ R[m] \subseteq Slot(R, p, i) /\ R[m] \subseteq Slot(R, q, j)
  BY DEF Shape, KidsOK
<1>2. PICK k : k \in R[m]
  BY <1>1, RegionsInhabited DEF Shape
<1>3. k \in Slot(R, p, i) /\ k \in Slot(R, q, j)
  BY <1>1, <1>2
<1>4. p = q
  <2>1. k \in R[p] /\ k \in R[q]
    BY <1>3 DEF Slot
  <2> QED
    BY <1>1, <2>1 DEF Shape, Apart
<1>5. i = j
  <2>1. NodeOK(h, R, p, over)
    BY DEF Shape
  <2>2. /\ NodeFacts(p) /\ Ascending(heap[p].keys) /\ R[p] \subseteq Key
        /\ Len(heap[p].kids) <= Len(heap[p].keys) + 1
    <3>1. NodeFacts(p)
      BY <2>1, NodeTypes
    <3>2. R[p] \subseteq Key
      BY DEF Shape
    <3>3. Ascending(heap[p].keys)
      BY <2>1 DEF NodeOK
    <3>4. CASE heap[p].leaf
      BY <2>1, <3>1, <3>2, <3>3, <3>4 DEF NodeOK, NodeFacts
    <3>5. CASE ~heap[p].leaf
      BY <2>1, <3>1, <3>2, <3>3, <3>5 DEF NodeOK, NodeFacts
    <3> QED
      BY <3>4, <3>5
  <2>3. ~(i < j) /\ ~(j < i)
    BY <1>3, <1>4, <2>2, SlotsApart
  <2> QED
    BY <1>4, <2>2, <2>3 DEF NodeFacts
<1> QED
  BY <1>4, <1>5

\* Nothing of the tree depends on more than the heap and the root.
LEMMA ShapeStays ==
  ASSUME NEW h, NEW R, NEW over, NEW orphan, NEW link, Shape(h, R, over, orphan, link),
         heap' = heap, root' = root
  PROVE  Shape(h, R, over, orphan, link)'
<1>1. \A n \in DOMAIN heap : NodeOK(h, R, n, over)'
  BY DEF Shape, NodeOK, Half
<1>2. \A n \in DOMAIN heap : KidsOK(h, R, n, orphan, link)'
  BY DEF Shape, KidsOK, Slot
<1>3. Apart(h, R)'
  BY DEF Shape, Apart
<1>4. AllLinked(orphan)' /\ RootOK(h, R, orphan)'
  BY DEF Shape, AllLinked, Linked, RootOK
<1>5. \A n \in DOMAIN heap : heap[n].leaf => NextOK(R, n)'
  BY DEF Shape, NextOK
<1> QED
  BY <1>1, <1>2, <1>3, <1>4, <1>5 DEF Shape

-----------------------------------------------------------------------------
(* Calls, returns and failures.                                            *)

\* What the invariant says of one node.
LEMMA TreeFacts ==
  ASSUME NEW h, NEW R, NEW over, NEW orphan, NEW link, Shape(h, R, over, orphan, link),
         NEW n \in DOMAIN heap
  PROVE  /\ NodeOK(h, R, n, over) /\ NodeFacts(n) /\ KidsOK(h, R, n, orphan, link)
         /\ h[n] \in Nat /\ R[n] \subseteq Key
         /\ n # Null
<1>1. NodeOK(h, R, n, over) /\ KidsOK(h, R, n, orphan, link) /\ n \in Node
  BY DEF Shape
<1>2. h[n] \in Nat /\ R[n] \subseteq Key
  BY DEF Shape
<1> QED
  BY <1>1, <1>2, NodeTypes, TreeAssumption

\* After a return nothing of the call is left.
LEMMA Returned ==
  ASSUME NEW r, Return(r), damaged' \in BOOLEAN
  PROVE  /\ CallOK'
         /\ Over' = Null /\ Orphan' = Null /\ OpenLink' = <<Null, 0>>
         /\ \A h, R : Running(h, R)'
<1>1. pc' = "idle" /\ split' = NoSplit /\ path' = <<>> /\ node' = Null /\ key' = Null /\ value' = Null
  BY DEF Return
<1>2. CallOK'
  BY <1>1 DEF CallOK, Splitting
<1>3. Over' = Null /\ OpenLink' = <<Null, 0>>
  BY <1>1 DEF Over, OpenLink
<1>4. Orphan' = Null
  BY <1>1 DEF Orphan, NoSplit
<1>5. \A h, R : Running(h, R)'
  BY <1>1 DEF Running
<1> QED
  BY <1>2, <1>3, <1>4, <1>5

\* An insertion or a search is over and has not changed a node.
LEMMA ReturnKeeps ==
  ASSUME TreeInv, NEW r, Return(r), UNCHANGED <<heap, root, damaged>>,
         pc \in {"insert", "search"}
  PROVE  TreeInv'
<1>1. damaged' \in BOOLEAN /\ ~damaged
  BY DEF TreeInv, CallOK
<1>2. /\ CallOK'
      /\ Over' = Null /\ Orphan' = Null /\ OpenLink' = <<Null, 0>>
  BY <1>1, Returned
<1>3. CASE EmptyTree
  <2>1. EmptyTree'
    BY <1>3 DEF EmptyTree, Return
  <2> QED
    BY <1>2, <2>1 DEF TreeInv
<1>4. ASSUME NEW h, NEW R, Tree(h, R) PROVE TreeInv'
  <2>1. Over = Null /\ Orphan = Null /\ OpenLink = <<Null, 0>>
    BY DEF TreeInv, CallOK, Over, Orphan, OpenLink, NoSplit
  <2>2. Shape(h, R, Null, Null, <<Null, 0>>)
    BY <1>4, <2>1 DEF Tree
  <2>3. Shape(h, R, Null, Null, <<Null, 0>>)'
    BY <2>2, ShapeStays
  <2>4. Tree(h, R)'
    BY <1>1, <1>2, <2>3, Returned DEF Tree
  <2> QED
    BY <1>1, <1>2, <2>4 DEF TreeInv
<1> QED
  BY <1>1, <1>3, <1>4 DEF TreeInv

\* A call of bptree_insert or bptree_search changes no node.
LEMMA CallKeeps ==
  ASSUME TreeInv, NEW where, NEW k, NEW v, Call(where, k, v),
         \/ where = "insert" /\ <<k, v>> \in Entries
         \/ where = "search" /\ k \in Key /\ v = Null
  PROVE  TreeInv'
<1>1. /\ pc = "idle" /\ damaged = FALSE /\ damaged' = FALSE
      /\ split = NoSplit /\ split' = NoSplit /\ path = <<>> /\ path' = <<>>
      /\ heap' = heap /\ root' = root /\ node' = root
      /\ pc' = where /\ key' = k /\ value' = v
  BY DEF TreeInv, CallOK, Call
<1>2. CallOK'
  BY <1>1, TreeAssumption DEF CallOK, Splitting
<1>3. CASE EmptyTree
  <2>1. EmptyTree'
    BY <1>1, <1>3 DEF EmptyTree
  <2> QED
    BY <1>2, <2>1 DEF TreeInv
<1>4. ASSUME NEW h, NEW R, Tree(h, R) PROVE TreeInv'
  <2>1. Over = Null /\ Orphan = Null /\ OpenLink = <<Null, 0>>
    BY <1>1 DEF Over, Orphan, OpenLink, NoSplit
  <2>2. Shape(h, R, Null, Null, <<Null, 0>>)
    BY <1>4, <2>1 DEF Tree
  <2>3. Shape(h, R, Null, Null, <<Null, 0>>)'
    BY <1>1, <2>2, ShapeStays
  <2>4. Over' = Null /\ Orphan' = Null /\ OpenLink' = <<Null, 0>>
    BY <1>1 DEF Over, Orphan, OpenLink, NoSplit
  <2>5. root \in DOMAIN heap /\ R[root] = Key /\ h[root] \in Nat
    BY <2>2 DEF Shape, RootOK
  <2>6. Stack(h)'
    <3>1. <<>> \in Seq([node : DOMAIN heap, child : 1..(MaxKeys + 1)]) /\ Len(<<>>) = 0
      OBVIOUS
    <3>2. OnPath(1)' = root
      BY <1>1, <3>1 DEF OnPath
    <3>3. \A i \in 1..(Len(path) + 1)' : i = 1
      BY <1>1, <3>1
    <3>4. h[root] + 1 = h[root] + 1
      BY <2>5
    <3>5. \A i \in 1..(Len(path) + 1)' : h[OnPath(i)'] + i = h[root] + 1
      BY <3>2, <3>3, <3>4
    <3>6. \A i \in 1..Len(path)' : FALSE
      BY <1>1, <3>1
    <3> QED
      BY <1>1, <2>5, <3>1, <3>2, <3>5, <3>6 DEF Stack
  <2>7. k \in Key
    BY TreeAssumption
  <2>8. Running(h, R)'
    BY <1>1, <2>5, <2>6, <2>7 DEF Running
  <2>9. Tree(h, R)'
    BY <2>3, <2>4, <2>8 DEF Tree
  <2> QED
    BY <1>1, <1>2, <2>9 DEF TreeInv
<1> QED
  BY <1>1, <1>3, <1>4 DEF TreeInv

\* bptree_free leaves the empty tree.
LEMMA FreeKeeps == ASSUME TreeInv, FreeTree PROVE TreeInv'
<1>1. /\ pc = "idle" /\ pc' = pc /\ key' = key /\ value' = value /\ node' = node
      /\ path' = path /\ split' = split /\ damaged' = FALSE
  BY DEF FreeTree, args
<1>2. CallOK'
  BY <1>1 DEF TreeInv, CallOK, Splitting
<1>3. DOMAIN heap' = {} /\ root' = Null
  BY DEF FreeTree
<1>4. EmptyTree'
  BY <1>1, <1>3 DEF TreeInv, CallOK, EmptyTree
<1> QED
  BY <1>2, <1>4 DEF TreeInv

\* The first insertion makes a leaf of one key, which owns every key.
LEMMA CreateRootKeeps == ASSUME TreeInv, CreateRoot PROVE TreeInv'
<1>1. damaged' = FALSE /\ node = Null /\ pc = "insert" /\ key \in Key /\ value \in Value
  BY DEF TreeInv, CallOK, CreateRoot
<1>2. EmptyTree
  <2>1. ASSUME NEW h, NEW R, Tree(h, R) PROVE FALSE
    <3>1. node \in DOMAIN heap /\ DOMAIN heap \subseteq Node
      BY <1>1, <2>1 DEF Tree, Running, Shape
    <3> QED
      BY <1>1, <3>1, TreeAssumption
  <2> QED
    BY <1>1, <2>1 DEF TreeInv, CallOK, CreateRoot
<1>3. PICK r \in Node : r = NewNode
  BY DEF CreateRoot, Free, NewNode
<1>4. /\ CallOK'
      /\ Over' = Null /\ Orphan' = Null /\ OpenLink' = <<Null, 0>>
  BY <1>1, Returned DEF CreateRoot
<1>5. DOMAIN heap' = {r} /\ heap'[r] = Leaf(<<key>>, <<value>>, Null) /\ root' = r /\ r # Null
  BY <1>2, <1>3, TreeAssumption DEF CreateRoot, Allocated, EmptyTree
<1>6. PICK h : h = [n \in {r} |-> 0]
  OBVIOUS
<1>7. PICK R : R = [n \in {r} |-> Key]
  OBVIOUS
<1>8. Shape(h, R, Null, Null, <<Null, 0>>)'
  <2>1. NodeOK(h, R, r, Null)'
    <3>1. heap'[r] \in NodeRecord
      <4>1. <<key>> \in Seq(Key) /\ <<value>> \in Seq(Value) /\ <<>> \in Seq(Node)
        BY <1>1
      <4> QED
        BY <1>5, <4>1 DEF Leaf, NodeRecord
    <3>2. Ascending(heap'[r].keys) /\ Len(heap'[r].keys) = 1 /\ heap'[r].keys[1] = key
      BY <1>5 DEF Leaf, Ascending
    <3>3. \A i \in 1..Len(heap'[r].keys) : i = 1
      BY <3>2
    <3> QED
      BY <1>1, <1>5, <1>6, <1>7, <3>1, <3>2, <3>3, TreeAssumption DEF NodeOK, Leaf
  <2>2. KidsOK(h, R, r, Null, <<Null, 0>>)'
    BY <1>5 DEF KidsOK, Leaf
  <2>3. Apart(h, R)' /\ AllLinked(Null)'
    BY <1>5 DEF Apart, AllLinked
  <2>4. RootOK(h, R, Null)'
    BY <1>5, <1>6, <1>7 DEF RootOK
  <2>5. NextOK(R, r)'
    BY <1>5 DEF NextOK, Leaf
  <2> QED
    BY <1>5, <1>6, <1>7, <2>1, <2>2, <2>3, <2>4, <2>5 DEF Shape
<1>9. Tree(h, R)'
  BY <1>1, <1>4, <1>8, Returned DEF Tree, CreateRoot
<1> QED
  BY <1>1, <1>4, <1>9 DEF TreeInv

\* A failure leaves what the insertion has made of the tree.
LEMMA FailKeeps ==
  ASSUME TreeInv, OutOfMemory
  PROVE  TreeInv'
<1>1. Fail /\ damaged = FALSE /\ damaged' = TRUE /\ heap' = heap /\ root' = root
  BY DEF TreeInv, CallOK, OutOfMemory, CreateRootFails, SplitLeafFails, SplitInternalFails,
         GrowRootFails, Fail
<1>2. CallOK'
  BY <1>1, Returned DEF Fail
<1>3. CASE EmptyTree
  <2>1. EmptyTree'
    BY <1>1, <1>3 DEF EmptyTree, Fail, Return
  <2> QED
    BY <1>2, <2>1 DEF TreeInv
<1>4. ASSUME NEW h, NEW R, Tree(h, R) PROVE TreeInv'
  <2>1. CASE pc \in {"splitLeaf", "splitInternal"}
    <3>1. Over = node /\ Orphan = Null /\ OpenLink = <<Null, 0>>
      BY <2>1 DEF TreeInv, CallOK, Over, Orphan, OpenLink, NoSplit
    <3>2. Shape(h, R, node, Null, <<Null, 0>>) /\ node \in DOMAIN heap
      BY <1>4, <2>1, <3>1 DEF Tree, Running, Stack
    <3>3. PICK over \in DOMAIN heap : over = node
      BY <3>2
    <3>4. Shape(h, R, over, Null, <<Null, 0>>)'
      BY <1>1, <3>2, <3>3, ShapeStays
    <3>5. Wreck(h, R)'
      BY <1>1, <3>4 DEF Wreck
    <3> QED
      BY <1>1, <1>2, <3>5 DEF TreeInv
  <2>2. CASE pc = "absorb" /\ path = <<>>
    <3>1. Over = Null /\ Orphan = split.right /\ OpenLink = <<Null, 0>>
      BY <2>2 DEF Over, Orphan, OpenLink
    <3>2. Stack(h) /\ Handed(h, R)
      BY <1>4, <2>2 DEF Tree, Running
    <3>3. node = root
      BY <2>2, <3>2 DEF Stack, OnPath
    <3>4. PICK orphan \in DOMAIN heap : orphan = split.right
      BY <3>2 DEF Handed
    <3>5. h[orphan] = h[root]
      BY <3>2, <3>3, <3>4 DEF Handed
    <3>6. Shape(h, R, Null, orphan, <<Null, 0>>)
      BY <1>4, <3>1, <3>4 DEF Tree
    <3>7. Shape(h, R, Null, orphan, <<Null, 0>>)'
      BY <1>1, <3>6, ShapeStays
    <3>8. Wreck(h, R)'
      BY <1>1, <3>5, <3>7 DEF Wreck
    <3> QED
      BY <1>1, <1>2, <3>8 DEF TreeInv
  <2>3. ~CreateRootFails
    <3>1. pc = "insert" => node \in DOMAIN heap /\ DOMAIN heap \subseteq Node
      BY <1>4 DEF Tree, Running, Shape
    <3> QED
      BY <3>1, TreeAssumption DEF CreateRootFails
  <2> QED
    BY <2>1, <2>2, <2>3 DEF OutOfMemory, SplitLeafFails, SplitInternalFails, GrowRootFails
<1> QED
  BY <1>1, <1>3, <1>4 DEF TreeInv

-----------------------------------------------------------------------------
(* The descent.                                                            *)

\* The child that find_child_index chooses owns the key.
LEMMA ChildOwns ==
  ASSUME NEW h, NEW R, NEW over, Shape(h, R, over, Null, <<Null, 0>>),
         NEW n \in DOMAIN heap, ~heap[n].leaf, NEW k \in R[n]
  PROVE  LET c == ChildIndex(heap[n].keys, k) IN
         /\ c \in 1..Len(heap[n].kids) /\ c <= Len(heap[n].keys) + 1
         /\ heap[n].kids[c] \in DOMAIN heap
         /\ h[n] = h[heap[n].kids[c]] + 1
         /\ k \in R[heap[n].kids[c]]
<1> DEFINE ks == heap[n].keys
           c == ChildIndex(ks, k)
<1>1. /\ NodeOK(h, R, n, over) /\ NodeFacts(n) /\ KidsOK(h, R, n, Null, <<Null, 0>>)
      /\ R[n] \subseteq Key /\ n # Null
  BY TreeFacts
<1>2. ks \in Seq(Int) /\ Ascending(ks) /\ k \in Int /\ Len(ks) \in Nat
      /\ Len(heap[n].kids) = Len(ks) + 1
  BY <1>1, TreeAssumption DEF NodeOK, NodeFacts
<1>3. c \in 1..(Len(ks) + 1) /\ \A i \in 1..Len(ks) : i < c <=> ks[i] <= k
  BY <1>2, ChildIndexIs
<1>4. \A i \in 1..Len(ks) : ks[i] \in Int
  BY <1>1 DEF NodeFacts
<1> HIDE DEF c
<1>5. c > 1 => ks[c - 1] <= k
  BY <1>2, <1>3
<1>6. c <= Len(ks) => k < ks[c]
  <2> SUFFICES ASSUME c <= Len(ks) PROVE k < ks[c]
    OBVIOUS
  <2>1. c \in 1..Len(ks) /\ ~(c < c)
    BY <1>2, <1>3
  <2>2. ~(ks[c] <= k) /\ ks[c] \in Int
    BY <1>3, <1>4, <2>1
  <2> QED
    BY <1>2, <2>2
<1>7. k \in Slot(R, n, c)
  BY <1>5, <1>6 DEF Slot
<1>8. c \in 1..Len(heap[n].kids) /\ <<Null, 0>> # <<n, c>>
  BY <1>1, <1>2, <1>3
<1> QED
  BY <1>1, <1>2, <1>3, <1>7, <1>8 DEF KidsOK, c

\* Each frame of the descent is a node and a child of it.
LEMMA PathFacts ==
  ASSUME NEW h, Stack(h), NEW i \in 1..Len(path)
  PROVE  path[i].node \in DOMAIN heap /\ path[i].child \in 1..(MaxKeys + 1) /\ Len(path) \in Nat
<1> DEFINE S == [node : DOMAIN heap, child : 1..(MaxKeys + 1)]
<1>1. path \in Seq(S)
  BY DEF Stack
<1>2. path[i] \in S /\ Len(path) \in Nat
  <2> HIDE DEF S
  <2> QED
    BY <1>1
<1> QED
  BY <1>2

\* The child to which an insertion goes down owns the key.
LEMMA DescendKeeps == ASSUME TreeInv, Descend PROVE TreeInv'
<1>1. /\ pc = "insert" /\ pc' = "insert" /\ damaged = FALSE /\ damaged' = FALSE
      /\ heap' = heap /\ root' = root /\ key' = key /\ value' = value
      /\ split = NoSplit /\ split' = NoSplit
      /\ node # Null /\ ~heap[node].leaf
      /\ path' = Append(path, [node |-> node, child |-> ChildIndex(heap[node].keys, key)])
      /\ node' = heap[node].kids[ChildIndex(heap[node].keys, key)]
  BY DEF TreeInv, CallOK, Descend, Current, args
<1>2. CallOK'
  BY <1>1 DEF TreeInv, CallOK, Splitting
<1>3. PICK h, R : Tree(h, R)
  BY <1>1 DEF TreeInv, EmptyTree
<1>4. /\ Over = Null /\ Orphan = Null /\ OpenLink = <<Null, 0>>
      /\ Over' = Null /\ Orphan' = Null /\ OpenLink' = <<Null, 0>>
  BY <1>1 DEF Over, Orphan, OpenLink, NoSplit
<1>5. Shape(h, R, Null, Null, <<Null, 0>>)
  BY <1>3, <1>4 DEF Tree
<1>6. Shape(h, R, Null, Null, <<Null, 0>>)'
  BY <1>1, <1>5, ShapeStays
<1>7. Stack(h) /\ key \in R[node] /\ node \in DOMAIN heap
  BY <1>1, <1>3 DEF Tree, Running
<1>8. PICK c : c = ChildIndex(heap[node].keys, key)
  OBVIOUS
<1>9. /\ c \in 1..Len(heap[node].kids) /\ c <= Len(heap[node].keys) + 1
      /\ node' \in DOMAIN heap
      /\ h[node] = h[node'] + 1
      /\ key \in R[node']
  BY <1>1, <1>5, <1>7, <1>8, ChildOwns, SMTT(30)
<1>10. c \in 1..(MaxKeys + 1)
  <2>1. NodeFacts(node) /\ NodeOK(h, R, node, Null)
    BY <1>5, <1>7, TreeFacts
  <2>2. Len(heap[node].keys) <= MaxKeys /\ Len(heap[node].keys) \in Nat /\ Len(heap[node].kids) \in Nat
    BY <1>1, <2>1 DEF NodeOK, NodeFacts
  <2> QED
    BY <1>9, <2>2, TreeAssumption
<1>11. Stack(h)'
  <2> DEFINE S == [node : DOMAIN heap, child : 1..(MaxKeys + 1)]
             e == [node |-> node, child |-> c]
  <2>1. path \in Seq(S) /\ Len(path) \in Nat /\ e \in S
    BY <1>7, <1>10 DEF Stack
  <2>2. /\ path' \in Seq(S) /\ Len(path') = Len(path) + 1
        /\ path'[Len(path) + 1] = e
        /\ \A i \in 1..Len(path) : path'[i] = path[i]
    BY <1>1, <1>8, <2>1
  <2> HIDE DEF S
  <2>3. \A i \in 1..(Len(path) + 1) : OnPath(i)' = OnPath(i)
    BY <2>1, <2>2 DEF OnPath
  <2>4. OnPath(Len(path) + 1) = node /\ OnPath(Len(path) + 2)' = node'
    BY <2>1, <2>2 DEF OnPath
  <2>5. OnPath(1)' = root
    BY <1>7, <2>1, <2>3 DEF Stack
  <2>6. ASSUME NEW i \in 1..Len(path')
        PROVE  /\ path'[i].child <= Len(heap[path'[i].node].kids)
               /\ heap[path'[i].node].kids[path'[i].child] = OnPath(i + 1)'
    <3>1. CASE i \in 1..Len(path)
      <4>1. i + 1 \in 1..(Len(path) + 1) /\ path'[i] = path[i]
        BY <2>1, <2>2, <3>1
      <4>2. OnPath(i + 1)' = OnPath(i + 1)
        BY <2>3, <4>1
      <4> QED
        BY <1>7, <3>1, <4>1, <4>2 DEF Stack
    <3>2. CASE i = Len(path) + 1
      <4>1. i + 1 = Len(path) + 2 /\ path'[i].node = node /\ path'[i].child = c
        BY <2>1, <2>2, <3>2
      <4>2. c <= Len(heap[node].kids) /\ heap[node].kids[c] = node'
        BY <1>1, <1>8, <1>9
      <4>3. OnPath(i + 1)' = node'
        BY <2>1, <2>2, <4>1 DEF OnPath
      <4> QED
        BY <4>1, <4>2, <4>3
    <3> QED
      BY <2>1, <2>2, <3>1, <3>2
  <2>7. ASSUME NEW i \in 1..(Len(path') + 1) PROVE h[OnPath(i)'] + i = h[root] + 1
    <3>1. CASE i \in 1..(Len(path) + 1)
      BY <1>7, <2>3, <3>1 DEF Stack
    <3>2. CASE i = Len(path) + 2
      <4>0. Len(path) + 1 \in 1..(Len(path) + 1) /\ OnPath(Len(path) + 1) = node
        BY <2>1 DEF OnPath
      <4>1. h[node] + (Len(path) + 1) = h[root] + 1
        BY <1>7, <4>0 DEF Stack
      <4>2. h[node'] \in Nat /\ h[node] \in Nat
        BY <1>5, <1>7, <1>9, TreeFacts
      <4>3. h[root] \in Nat
        BY <1>5, TreeFacts DEF Shape, RootOK
      <4>4. OnPath(i)' = node'
        BY <2>1, <2>2, <3>2 DEF OnPath
      <4>5. h[OnPath(i)'] = h[node']
        BY <4>4
      <4>6. h[node'] + (Len(path) + 2) = h[root] + 1
        <5>1. h[node] = h[node'] + 1
          BY <1>9
        <5>2. Len(path) \in Nat
          BY <2>1
        <5> QED
          BY <4>1, <4>2, <4>3, <5>1, <5>2, SMTT(30)
      <4> QED
        BY <3>2, <4>5, <4>6
    <3> QED
      BY <2>1, <2>2, <3>1, <3>2
  <2> QED
    BY <1>1, <1>9, <2>2, <2>5, <2>6, <2>7 DEF Stack, S
<1>12. Running(h, R)'
  BY <1>1, <1>9, <1>11 DEF Running
<1>13. Tree(h, R)'
  BY <1>4, <1>6, <1>12 DEF Tree
<1> QED
  BY <1>1, <1>2, <1>13 DEF TreeInv

\* So does the child to which a search goes down.
LEMMA SearchDescendKeeps == ASSUME TreeInv, SearchDescend PROVE TreeInv'
<1>1. /\ pc = "search" /\ pc' = "search" /\ damaged = FALSE /\ damaged' = FALSE
      /\ heap' = heap /\ root' = root /\ key' = key /\ value' = value
      /\ split = NoSplit /\ split' = NoSplit /\ path' = path
      /\ node # Null /\ ~heap[node].leaf
      /\ node' = heap[node].kids[ChildIndex(heap[node].keys, key)]
  BY DEF TreeInv, CallOK, SearchDescend, Current, args
<1>2. CallOK'
  BY <1>1 DEF TreeInv, CallOK, Splitting
<1>3. PICK h, R : Tree(h, R)
  BY <1>1 DEF TreeInv, EmptyTree
<1>4. /\ Over = Null /\ Orphan = Null /\ OpenLink = <<Null, 0>>
      /\ Over' = Null /\ Orphan' = Null /\ OpenLink' = <<Null, 0>>
  BY <1>1 DEF Over, Orphan, OpenLink, NoSplit
<1>5. Shape(h, R, Null, Null, <<Null, 0>>)
  BY <1>3, <1>4 DEF Tree
<1>6. Shape(h, R, Null, Null, <<Null, 0>>)'
  BY <1>1, <1>5, ShapeStays
<1>7. key \in R[node] /\ node \in DOMAIN heap
  BY <1>1, <1>3 DEF Tree, Running
<1>8. node' \in DOMAIN heap /\ key \in R[node']
  BY <1>1, <1>5, <1>7, ChildOwns
<1>9. Running(h, R)'
  BY <1>1, <1>8 DEF Running
<1>10. Tree(h, R)'
  BY <1>4, <1>6, <1>9 DEF Tree
<1> QED
  BY <1>1, <1>2, <1>10 DEF TreeInv

-----------------------------------------------------------------------------
(* insert_into_leaf.                                                       *)

\* A key that goes between the smaller and the greater ones leaves them sorted.
LEMMA InsertedAscends ==
  ASSUME NEW s \in Seq(Int), Ascending(s), NEW x \in Int, NEW i \in 1..(Len(s) + 1),
         \A j \in 1..(i - 1) : s[j] < x,
         \A j \in i..Len(s) : x < s[j]
  PROVE  Ascending(InsertedAt(s, i, x))
<1> DEFINE t == InsertedAt(s, i, x)
<1>1. Grown(t, s, i, x)
  <2>1. PICK S : S = Int
    OBVIOUS
  <2>2. s \in Seq(S) /\ x \in S
    BY <2>1
  <2> QED
    BY <2>2, InsertedAtIs
<1>2. Len(s) \in Nat /\ \A j \in 1..Len(s) : s[j] \in Int
  OBVIOUS
<1>3. PICK n : n = Len(s)
  OBVIOUS
<1>4. ASSUME NEW a \in 1..(n + 1), NEW b \in 1..(n + 1), a < b PROVE t[a] < t[b]
  <2> HIDE DEF t
  <2>1. CASE b < i
    <3>1. a \in 1..(i - 1) /\ b \in 1..(i - 1) /\ a \in 1..Len(s) /\ b \in 1..Len(s)
      BY <1>2, <1>3, <1>4, <2>1
    <3> QED
      BY <1>1, <1>4, <3>1 DEF Ascending, Grown
  <2>2. CASE b = i
    <3>1. a \in 1..(i - 1)
      BY <1>2, <1>3, <1>4, <2>2
    <3> QED
      BY <1>1, <2>2, <3>1 DEF Grown
  <2>3. CASE b > i
    <3>1. b \in (i + 1)..(Len(s) + 1) /\ b - 1 \in i..Len(s) /\ b - 1 \in 1..Len(s)
      BY <1>2, <1>3, <1>4, <2>3
    <3>2. t[b] = s[b - 1] /\ x < s[b - 1]
      BY <1>1, <3>1 DEF Grown
    <3>3. CASE a < i
      <4>1. a \in 1..(i - 1) /\ a \in 1..Len(s) /\ a < b - 1
        BY <1>2, <1>3, <1>4, <2>3, <3>3
      <4>2. t[a] = s[a] /\ s[a] < s[b - 1]
        BY <1>1, <3>1, <4>1 DEF Ascending, Grown
      <4> QED
        BY <3>2, <4>2
    <3>4. CASE a = i
      BY <1>1, <3>2, <3>4 DEF Grown
    <3>5. CASE a > i
      <4>1. a \in (i + 1)..(Len(s) + 1) /\ a - 1 \in 1..Len(s) /\ a - 1 < b - 1
        BY <1>2, <1>3, <1>4, <2>3, <3>5
      <4>2. t[a] = s[a - 1] /\ s[a - 1] < s[b - 1]
        BY <1>1, <3>1, <4>1 DEF Ascending, Grown
      <4> QED
        BY <3>2, <4>2
    <3> QED
      BY <1>3, <1>4, <3>3, <3>4, <3>5
  <2> QED
    BY <1>3, <1>4, <2>1, <2>2, <2>3
<1>5. Len(t) = n + 1
  BY <1>1, <1>3 DEF Grown
<1> QED
  BY <1>4, <1>5 DEF Ascending

\* A leaf is replaced: the tree around it is the same.
LEMMA LeafReplaced ==
  ASSUME NEW h, NEW R, NEW over, Shape(h, R, over, Null, <<Null, 0>>),
         NEW l \in DOMAIN heap, heap[l].leaf, over = Null,
         root' = root, DOMAIN heap' = DOMAIN heap,
         \A n \in DOMAIN heap \ {l} : heap'[n] = heap[n],
         heap'[l].leaf, heap'[l].next = heap[l].next, heap'[l].kids = <<>>,
         NEW full, NodeOK(h, R, l, full)', full \in {l, Null}
  PROVE  Shape(h, R, full, Null, <<Null, 0>>)'
<1>1. ASSUME NEW n \in DOMAIN heap PROVE NodeOK(h, R, n, full)'
  <2>1. CASE n = l
    BY <2>1
  <2>2. CASE n # l
    <3>1. NodeOK(h, R, n, Null) /\ n # Null /\ NodeFacts(n)
      BY TreeFacts
    <3>2. heap'[n] = heap[n] /\ n # full
      BY <2>2, <3>1
    <3>3. (n = full) = FALSE /\ (n = Null) = FALSE
      BY <3>1, <3>2
    <3> QED
      BY <3>1, <3>2, <3>3 DEF NodeOK, Half
  <2> QED
    BY <2>1, <2>2
<1>2. NodeOK(h, R, l, over) /\ heap[l].kids = <<>>
  BY DEF Shape, NodeOK
<1>3. \A n \in DOMAIN heap : heap'[n].kids = heap[n].kids
  BY <1>2
<1>4. ASSUME NEW n \in DOMAIN heap PROVE KidsOK(h, R, n, Null, <<Null, 0>>)'
  <2>1. CASE n = l
    BY <2>1 DEF KidsOK
  <2>2. CASE n # l
    <3>1. KidsOK(h, R, n, Null, <<Null, 0>>) /\ heap'[n] = heap[n]
      BY <2>2, TreeFacts
    <3> QED
      BY <3>1 DEF KidsOK, Slot
  <2> QED
    BY <2>1, <2>2
<1>5. Apart(h, R)'
  BY DEF Shape, Apart
<1>6. AllLinked(Null)'
  <2>1. AllLinked(Null)
    BY DEF Shape
  <2> QED
    BY <1>3, <2>1 DEF AllLinked, Linked
<1>7. RootOK(h, R, Null)'
  BY DEF Shape, RootOK
<1>8. /\ \A n \in DOMAIN heap : heap'[n].leaf = heap[n].leaf
      /\ \A n \in DOMAIN heap : heap'[n].next = heap[n].next
  <2>1. heap[l].leaf = TRUE /\ heap'[l].leaf = TRUE
    <3>1. heap[l].leaf \in BOOLEAN /\ heap'[l].leaf \in BOOLEAN
      BY <1>1, <1>2, NodeTypes DEF NodeOK, NodeRecord, NodeFacts
    <3> QED
      BY <3>1
  <2> QED
    BY <2>1
<1>9. ASSUME NEW n \in DOMAIN heap, heap[n].leaf PROVE NextOK(R, n)'
  <2>1. NextOK(R, n)
    BY <1>9 DEF Shape
  <2> QED
    BY <1>8, <2>1 DEF NextOK
<1> QED
  BY <1>1, <1>4, <1>5, <1>6, <1>7, <1>8, <1>9 DEF Shape

\* The key goes into the leaf that owns it, in its place; one too many is
\* left to the split.
LEMMA InsertIntoLeafKeeps == ASSUME TreeInv, InsertIntoLeaf PROVE TreeInv'
<1> DEFINE ks == heap[node].keys
           vs == heap[node].vals
<1>1. /\ pc = "insert" /\ damaged = FALSE /\ damaged' = FALSE /\ root' = root
      /\ key \in Key /\ value \in Value /\ split = NoSplit
      /\ node # Null /\ heap[node].leaf /\ ~Has(ks, key)
  BY DEF TreeInv, CallOK, InsertIntoLeaf, Current, AtLeaf
<1>2. PICK h, R : Tree(h, R)
  BY <1>1 DEF TreeInv, EmptyTree
<1>3. /\ Over = Null /\ Orphan = Null /\ OpenLink = <<Null, 0>>
  BY <1>1 DEF Over, Orphan, OpenLink, NoSplit
<1>4. Shape(h, R, Null, Null, <<Null, 0>>)
  BY <1>2, <1>3 DEF Tree
<1>5. Stack(h) /\ key \in R[node] /\ node \in DOMAIN heap
  BY <1>1, <1>2 DEF Tree, Running
<1>6. NodeOK(h, R, node, Null) /\ NodeFacts(node) /\ R[node] \subseteq Key
  BY <1>4, <1>5, TreeFacts
<1>7. /\ ks \in Seq(Key) /\ ks \in Seq(Int) /\ vs \in Seq(Value) /\ Len(ks) \in Nat
      /\ Len(vs) = Len(ks) /\ Ascending(ks) /\ key \in Int
      /\ Len(ks) >= 1 /\ Len(ks) <= MaxKeys /\ \A j \in 1..Len(ks) : ks[j] \in R[node]
  BY <1>1, <1>6, TreeAssumption DEF NodeOK, NodeFacts
<1>8. PICK i : i = LeafPosition(ks, key)
  OBVIOUS
<1>9. i \in 1..(Len(ks) + 1) /\ \A j \in 1..Len(ks) : j < i <=> ks[j] < key
  BY <1>7, <1>8, LeafPositionIs
<1>10. PICK ks2 : ks2 = InsertedAt(ks, i, key)
  OBVIOUS
<1>11. PICK vs2 : vs2 = InsertedAt(vs, i, value)
  OBVIOUS
<1>12. /\ ks2 \in Seq(Key) /\ Len(ks2) = Len(ks) + 1 /\ ks2[i] = key
       /\ \A j \in 1..(i - 1) : ks2[j] = ks[j]
       /\ \A j \in (i + 1)..(Len(ks) + 1) : ks2[j] = ks[j - 1]
  <2>1. ks2 \in Seq(Key) /\ Grown(ks2, ks, i, key)
    BY <1>1, <1>7, <1>9, <1>10, InsertedAtIs
  <2> QED
    BY <2>1 DEF Grown
<1>13. /\ vs2 \in Seq(Value) /\ Len(vs2) = Len(ks) + 1 /\ vs2[i] = value
  <2>1. i \in 1..(Len(vs) + 1)
    BY <1>7, <1>9
  <2>2. vs2 \in Seq(Value) /\ Grown(vs2, vs, i, value)
    BY <1>1, <1>7, <1>11, <2>1, InsertedAtIs
  <2> QED
    BY <1>7, <2>2 DEF Grown
<1>14. Ascending(ks2)
  <2>1. ASSUME NEW j \in 1..(i - 1) PROVE ks[j] < key
    <3>1. j \in 1..Len(ks) /\ j < i
      BY <1>7, <1>9
    <3> QED
      BY <1>9, <3>1
  <2>2. ASSUME NEW j \in i..Len(ks) PROVE key < ks[j]
    <3>1. j \in 1..Len(ks) /\ ~(j < i)
      BY <1>7, <1>9
    <3>2. ~(ks[j] < key) /\ ks[j] # key /\ ks[j] \in Int
      BY <1>1, <1>6, <1>9, <3>1 DEF Has, NodeFacts
    <3> QED
      BY <1>7, <3>2
  <2> QED
    BY <1>7, <1>9, <1>10, <2>1, <2>2, InsertedAscends
<1>15. ASSUME NEW j \in 1..Len(ks2) PROVE ks2[j] \in R[node]
  <2>1. CASE j = i
    BY <1>5, <1>12, <2>1
  <2>2. CASE j < i
    <3>1. j \in 1..(i - 1) /\ j \in 1..Len(ks)
      BY <1>7, <1>9, <2>2
    <3> QED
      BY <1>7, <1>12, <3>1
  <2>3. CASE j > i
    <3>1. j \in (i + 1)..(Len(ks) + 1) /\ j - 1 \in 1..Len(ks)
      BY <1>7, <1>9, <1>12, <2>3
    <3> QED
      BY <1>7, <1>12, <3>1
  <2> QED
    BY <1>9, <2>1, <2>2, <2>3
<1>16. /\ DOMAIN heap' = DOMAIN heap
       /\ \A n \in DOMAIN heap \ {node} : heap'[n] = heap[n]
       /\ heap'[node] = Leaf(ks2, vs2, heap[node].next)
  BY <1>5, <1>8, <1>10, <1>11 DEF InsertIntoLeaf, Current
<1>17. PICK full : full = Over'
  OBVIOUS
<1>18. /\ pc' = "idle" /\ Return(<<"inserted">>) /\ Len(ks) < MaxKeys /\ full = Null
       \/ /\ pc' = "splitLeaf" /\ Len(ks) = MaxKeys /\ full = node
          /\ UNCHANGED <<args, node, path, split, reply>>
  <2>1. CASE Len(ks) < MaxKeys
    BY <1>17, <2>1 DEF InsertIntoLeaf, Return, Over, Current
  <2>2. CASE ~(Len(ks) < MaxKeys)
    <3>1. Len(ks) = MaxKeys
      BY <1>7, <2>2, TreeAssumption
    <3> QED
      BY <1>17, <2>2, <3>1 DEF InsertIntoLeaf, Over, Current
  <2> QED
    BY <2>1, <2>2
<1>20. PICK l \in DOMAIN heap : l = node
  BY <1>5
<1>21. NodeOK(h, R, l, full)'
  <2>1. heap'[l] = Leaf(ks2, vs2, heap[node].next)
    BY <1>16, <1>20
  <2>2. heap'[l] \in NodeRecord
    <3>1. <<>> \in Seq(Node) /\ heap[node].next \in Node \cup {Null}
      BY <1>6 DEF NodeFacts
    <3> QED
      BY <1>12, <1>13, <2>1, <3>1 DEF Leaf, NodeRecord
  <2>3. Len(ks2) <= (IF l = full THEN MaxKeys + 1 ELSE MaxKeys)
    <3>1. CASE full = Null
      BY <1>1, <1>7, <1>12, <1>18, <1>20, <3>1, TreeAssumption
    <3>2. CASE full = node
      BY <1>7, <1>12, <1>20, <3>2, TreeAssumption
    <3> QED
      BY <1>18, <3>1, <3>2
  <2>4. l # root => Len(ks2) >= Half(l)'
    <3>1. l # root => Len(ks) >= (MaxKeys + 1) \div 2
      BY <1>1, <1>6, <1>20 DEF NodeOK, Half
    <3>2. Half(l)' = (MaxKeys + 1) \div 2
      BY <2>1 DEF Half, Leaf
    <3>3. (MaxKeys + 1) \div 2 \in Int
      BY TreeAssumption
    <3> QED
      BY <1>7, <1>12, <3>1, <3>2, <3>3
  <2>5. Len(ks2) >= 1
    BY <1>7, <1>12
  <2>6. h[l] = 0
    BY <1>1, <1>6, <1>20 DEF NodeOK
  <2>7. /\ heap'[l].keys = ks2 /\ heap'[l].vals = vs2 /\ heap'[l].kids = <<>>
        /\ heap'[l].leaf = TRUE
    BY <2>1 DEF Leaf
  <2> QED
    BY <1>1, <1>12, <1>13, <1>14, <1>15, <1>20, <2>2, <2>3, <2>4, <2>5, <2>6, <2>7 DEF NodeOK
<1>22. Shape(h, R, full, Null, <<Null, 0>>)'
  <2>1. /\ heap'[l].leaf /\ heap'[l].next = heap[l].next /\ heap'[l].kids = <<>>
        /\ heap[l].leaf /\ full \in {l, Null}
        /\ \A n \in DOMAIN heap \ {l} : heap'[n] = heap[n]
    BY <1>1, <1>16, <1>18, <1>20 DEF Leaf
  <2> QED
    BY <1>1, <1>4, <1>16, <1>21, <2>1, LeafReplaced
<1>23. CASE pc' = "idle"
  <2>1. Return(<<"inserted">>) /\ damaged' \in BOOLEAN
    BY <1>1, <1>18, <1>23
  <2>2. CallOK' /\ Over' = Null /\ Orphan' = Null /\ OpenLink' = <<Null, 0>> /\ Running(h, R)'
    BY <2>1, Returned
  <2>3. Tree(h, R)'
    BY <1>17, <1>22, <2>2 DEF Tree
  <2> QED
    BY <1>1, <2>2, <2>3 DEF TreeInv
<1>24. CASE pc' = "splitLeaf"
  <2>1. /\ key' = key /\ value' = value /\ node' = node /\ path' = path /\ split' = split
        /\ Len(ks) = MaxKeys
    BY <1>18, <1>24 DEF args
  <2>2. Orphan' = Null /\ OpenLink' = <<Null, 0>>
    BY <1>1, <1>24, <2>1 DEF Orphan, OpenLink, NoSplit
  <2>3. <<key, value>> \in Bindings'
    <3>1. i \in 1..Len(vs2) /\ heap'[node].keys = ks2 /\ heap'[node].vals = vs2
      BY <1>7, <1>9, <1>13, <1>16 DEF Leaf
    <3>2. <<key, value>> = <<heap'[node].keys[i], heap'[node].vals[i]>>
      BY <1>12, <1>13, <3>1
    <3> QED
      BY <1>5, <1>16, <3>1, <3>2 DEF Bindings
  <2>4. CallOK'
    BY <1>1, <1>24, <2>1, <2>3 DEF CallOK, Splitting
  <2>5. Stack(h)'
    <3>1. ASSUME NEW n \in DOMAIN heap PROVE heap'[n].kids = heap[n].kids
      <4>1. heap[node].kids = <<>> /\ heap'[node].kids = <<>>
        BY <1>1, <1>6, <1>16 DEF NodeOK, Leaf
      <4> QED
        BY <1>16, <4>1
    <3>2. ASSUME NEW i2 \in 1..Len(path) PROVE path[i2].node \in DOMAIN heap
      BY <1>5, PathFacts
    <3>3. \A i2 : OnPath(i2)' = OnPath(i2)
      BY <2>1 DEF OnPath
    <3> QED
      BY <1>1, <1>5, <1>16, <2>1, <3>1, <3>2, <3>3 DEF Stack
  <2>6. Running(h, R)'
    BY <1>12, <1>16, <1>24, <2>1, <2>5 DEF Running, Leaf
  <2>7. Tree(h, R)'
    BY <1>17, <1>22, <2>2, <2>6 DEF Tree
  <2> QED
    BY <1>1, <2>4, <2>7 DEF TreeInv
<1> QED
  BY <1>18, <1>23, <1>24

-----------------------------------------------------------------------------
(* What both kinds of split do.                                            *)

\* Parts of two ordered regions are ordered.
LEMMA BeforeParts ==
  ASSUME NEW A, NEW B, Before(A, B), NEW A1, A1 \subseteq A, NEW B1, B1 \subseteq B
  PROVE  Before(A1, B1)
BY DEF Before

\* Before is transitive across a region with a key.
LEMMA BeforeChain ==
  ASSUME NEW A, NEW B, NEW C, A \subseteq Int, B \subseteq Int, C \subseteq Int,
         Before(A, B), Before(B, C), B # {}
  PROVE  Before(A, C)
<1>1. PICK b \in B : TRUE
  OBVIOUS
<1>2. ASSUME NEW a \in A, NEW c \in C PROVE a < c
  <2>1. a < b /\ b < c /\ a \in Int /\ b \in Int /\ c \in Int
    BY <1>1 DEF Before
  <2> QED
    BY <2>1
<1> QED
  BY <1>2 DEF Before

\* A part of a sorted array is sorted.
LEMMA PartAscends ==
  ASSUME NEW s \in Seq(Int), Ascending(s), NEW a \in Nat, NEW b \in Nat, 1 <= a, b <= Len(s),
         a <= b + 1
  PROVE  Ascending(SubSeq(s, a, b))
<1> DEFINE t == SubSeq(s, a, b)
<1>1. Len(t) = b - a + 1 /\ \A j \in 1..(b - a + 1) : t[j] = s[a + j - 1]
  BY PartIs
<1> HIDE DEF t
<1>2. ASSUME NEW i \in 1..(b - a + 1), NEW j \in 1..(b - a + 1), i < j PROVE t[i] < t[j]
  <2>1. a + i - 1 \in 1..Len(s) /\ a + j - 1 \in 1..Len(s) /\ a + i - 1 < a + j - 1
    <3>1. Len(s) \in Nat
      OBVIOUS
    <3> QED
      BY <1>2, <3>1
  <2>2. s[a + i - 1] < s[a + j - 1]
    BY <2>1 DEF Ascending
  <2> QED
    BY <1>1, <2>2
<1> QED
  BY <1>1, <1>2 DEF Ascending, t

\* The node l is split: r is new and takes the keys from pr on.
Splits(h, R, h2, R2, l, r, pr) ==
  /\ Shape(h, R, l, Null, <<Null, 0>>)
  /\ l \in DOMAIN heap /\ r \in Node /\ r \notin DOMAIN heap
  /\ pr \in Int
  /\ h2 = [n \in DOMAIN heap \cup {r} |-> IF n = r THEN h[l] ELSE h[n]]
  /\ R2 = [n \in DOMAIN heap \cup {r} |->
             IF n = r THEN {k \in R[l] : pr <= k}
             ELSE IF n = l THEN {k \in R[l] : k < pr} ELSE R[n]]
  /\ root' = root
  /\ DOMAIN heap' = DOMAIN heap \cup {r}
  /\ \A n \in DOMAIN heap : n # l => heap'[n] = heap[n]

\* The link to l, which stands for r as well; the root has none.
LinkTo(link, l) ==
  \/ l = root /\ link = <<Null, 0>>
  \/ \E q \in DOMAIN heap : \E j \in 1..Len(heap[q].kids) : link = <<q, j>> /\ heap[q].kids[j] = l

\* A split divides the region of the node at the promoted key and changes
\* no other.
LEMMA SplitRegions ==
  ASSUME NEW h, NEW R, NEW h2, NEW R2, NEW l, NEW r, NEW pr, Splits(h, R, h2, R2, l, r, pr)
  PROVE  /\ h2 \in [DOMAIN heap' -> Nat] /\ R2 \in [DOMAIN heap' -> SUBSET Key]
         /\ h2[r] = h[l] /\ h2[l] = h[l] /\ r # l /\ l # Null /\ r # Null
         /\ R2[r] = {k \in R[l] : pr <= k} /\ R2[l] = {k \in R[l] : k < pr}
         /\ R2[l] \cup R2[r] = R[l] /\ R2[l] \cap R2[r] = {}
         /\ Before(R2[l], R2[r])
         /\ \A n \in DOMAIN heap : h2[n] = h[n]
         /\ \A n \in DOMAIN heap : n # l => R2[n] = R[n]
<1>1. h \in [DOMAIN heap -> Nat] /\ R \in [DOMAIN heap -> SUBSET Key] /\ DOMAIN heap \subseteq Node
  BY DEF Splits, Shape
<1>2. l \in DOMAIN heap /\ r \notin DOMAIN heap /\ r \in Node /\ pr \in Int
  BY DEF Splits
<1>3. \A k \in R[l] : k \in Int /\ k \in Key
  BY <1>1, <1>2, TreeAssumption
<1>4. \A k \in R[l] : k < pr <=> ~(pr <= k)
  BY <1>2, <1>3
<1>5. h2 = [n \in DOMAIN heap \cup {r} |-> IF n = r THEN h[l] ELSE h[n]]
      /\ DOMAIN heap' = DOMAIN heap \cup {r}
  BY DEF Splits
<1>6. h2 \in [DOMAIN heap' -> Nat] /\ h2[r] = h[l] /\ \A n \in DOMAIN heap : h2[n] = h[n]
  BY <1>1, <1>2, <1>5
<1>7. R2 = [n \in DOMAIN heap \cup {r} |->
             IF n = r THEN {k \in R[l] : pr <= k}
             ELSE IF n = l THEN {k \in R[l] : k < pr} ELSE R[n]]
  BY DEF Splits
<1>8. /\ R2[r] = {k \in R[l] : pr <= k} /\ R2[l] = {k \in R[l] : k < pr}
      /\ \A n \in DOMAIN heap : n # l => R2[n] = R[n]
  BY <1>2, <1>7
<1>9. R2 \in [DOMAIN heap' -> SUBSET Key]
  <2>1. ASSUME NEW n \in DOMAIN heap' PROVE R2[n] \subseteq Key
    BY <1>1, <1>2, <1>5, <1>8, <2>1
  <2> QED
    BY <1>5, <1>7, <2>1
<1>10. R2[l] \cup R2[r] = R[l] /\ R2[l] \cap R2[r] = {}
  BY <1>4, <1>8
<1>11. Before(R2[l], R2[r])
  <2>1. ASSUME NEW a \in R2[l], NEW b \in R2[r] PROVE a < b
    <3>1. a < pr /\ pr <= b /\ a \in Int /\ b \in Int
      BY <1>3, <1>8
    <3> QED
      BY <1>2, <3>1
  <2> QED
    BY <2>1 DEF Before
<1> QED
  BY <1>1, <1>2, <1>6, <1>8, <1>9, <1>10, <1>11, TreeAssumption

\* The same as one fact about the seven of them.
Regions(h, R, h2, R2, l, r, pr) ==
  /\ h2[r] = h[l] /\ h2[l] = h[l] /\ r # l /\ l # Null
  /\ R2[r] = {k \in R[l] : pr <= k} /\ R2[l] = {k \in R[l] : k < pr}
  /\ \A n \in DOMAIN heap : h2[n] = h[n]
  /\ \A n \in DOMAIN heap : n # l => R2[n] = R[n]

\* SplitRegions in that form.
LEMMA RegionsOfSplit ==
  ASSUME NEW h, NEW R, NEW h2, NEW R2, NEW l, NEW r, NEW pr, Splits(h, R, h2, R2, l, r, pr)
  PROVE  Regions(h, R, h2, R2, l, r, pr)
BY SplitRegions DEF Regions

\* A node that is not split stays as it was.
LEMMA SplitNodes ==
  ASSUME NEW h, NEW R, NEW h2, NEW R2, NEW l, NEW r, NEW pr, Splits(h, R, h2, R2, l, r, pr),
         NEW n \in DOMAIN heap, n # l
  PROVE  NodeOK(h2, R2, n, Null)'
<1>1. NodeOK(h, R, n, l) /\ n # Null
  BY TreeFacts DEF Splits
<1>2. h2[n] = h[n] /\ R2[n] = R[n]
  BY SplitRegions
<1>3. heap'[n] = heap[n] /\ root' = root
  BY DEF Splits
<1>4. (n = l) = FALSE /\ (n = Null) = FALSE
  BY <1>1
<1> QED
  BY <1>1, <1>2, <1>3, <1>4 DEF NodeOK, Half

\* The children of a node that is not split own what they owned.
LEMMA SplitKids ==
  ASSUME NEW h, NEW R, NEW h2, NEW R2, NEW l, NEW r, NEW pr, Splits(h, R, h2, R2, l, r, pr),
         NEW link, LinkTo(link, l),
         NEW p \in DOMAIN heap, p # l
  PROVE  KidsOK(h2, R2, p, r, link)'
<1>1. Shape(h, R, l, Null, <<Null, 0>>) /\ heap'[p] = heap[p] /\ DOMAIN heap' = DOMAIN heap \cup {r}
  BY DEF Splits
<1>2. KidsOK(h, R, p, Null, <<Null, 0>>) /\ p # Null
  BY <1>1, TreeFacts
<1>3. ASSUME NEW i \in 1..Len(heap[p].kids)
      PROVE  /\ heap[p].kids[i] \in DOMAIN heap'
             /\ h2[p] = h2[heap[p].kids[i]] + 1
             /\ Slot(R2, p, i)' = R2[heap[p].kids[i]] \cup (IF link = <<p, i>> THEN R2[r] ELSE {})
  <2>1. PICK c : c = heap[p].kids[i]
    OBVIOUS
  <2>2. c \in DOMAIN heap /\ h[p] = h[c] + 1 /\ Slot(R, p, i) = R[c]
    BY <1>2, <2>1 DEF KidsOK
  <2>3. h2[p] = h[p] /\ h2[c] = h[c] /\ R2[p] = R[p] /\ R2[l] \cup R2[r] = R[l]
    BY <2>2, SplitRegions
  <2>4. Slot(R2, p, i)' = R[c]
    BY <1>1, <2>2, <2>3 DEF Slot
  <2>5. CASE c = l
    <3>1. l # root
      <4>1. h[c] \in Nat /\ h[p] <= h[root] /\ h[root] \in Nat
        BY <1>1, <2>2, TreeFacts DEF Shape, RootOK
      <4>2. h[l] < h[root]
        BY <2>2, <2>5, <4>1
      <4> QED
        BY <4>1, <4>2
    <3>2. PICK q \in DOMAIN heap : \E j \in 1..Len(heap[q].kids) : link = <<q, j>> /\ heap[q].kids[j] = l
      BY <3>1 DEF LinkTo
    <3>3. PICK j \in 1..Len(heap[q].kids) : link = <<q, j>> /\ heap[q].kids[j] = l
      BY <3>2
    <3>4. p = q /\ i = j
      <4>1. heap[p].kids[i] = heap[q].kids[j]
        BY <2>1, <2>5, <3>3
      <4> QED
        BY <1>1, <4>1, OneLink
    <3>5. link = <<p, i>>
      BY <3>3, <3>4
    <3> QED
      BY <1>1, <2>1, <2>2, <2>3, <2>4, <2>5, <3>5
  <2>6. CASE c # l
    <3>1. link # <<p, i>>
      BY <1>2, <2>1, <2>6 DEF LinkTo
    <3>2. R2[c] = R[c]
      BY <2>2, <2>6, SplitRegions
    <3> QED
      BY <1>1, <2>1, <2>2, <2>3, <2>4, <3>1, <3>2
  <2> QED
    BY <2>5, <2>6
<1> QED
  BY <1>1, <1>3 DEF KidsOK

\* After a split nodes of one height still own different keys.
LEMMA SplitApart ==
  ASSUME NEW h, NEW R, NEW h2, NEW R2, NEW l, NEW r, NEW pr, Splits(h, R, h2, R2, l, r, pr)
  PROVE  Apart(h2, R2)'
<1>1. Apart(h, R) /\ l \in DOMAIN heap /\ DOMAIN heap' = DOMAIN heap \cup {r}
  BY DEF Splits, Shape
<1>2. /\ h2[r] = h[l] /\ R2[l] \subseteq R[l] /\ R2[r] \subseteq R[l] /\ R2[l] \cap R2[r] = {}
      /\ \A n \in DOMAIN heap : h2[n] = h[n]
      /\ \A n \in DOMAIN heap : n # l => R2[n] = R[n]
  BY SplitRegions
<1>3. ASSUME NEW m \in DOMAIN heap', NEW n \in DOMAIN heap', m # n, h2[m] = h2[n]
      PROVE  R2[m] \cap R2[n] = {}
  <2>1. CASE m \in DOMAIN heap /\ n \in DOMAIN heap
    <3>1. R[m] \cap R[n] = {}
      BY <1>1, <1>2, <1>3, <2>1 DEF Apart
    <3>2. R2[m] \subseteq R[m] /\ R2[n] \subseteq R[n]
      BY <1>2, <2>1
    <3> QED
      BY <3>1, <3>2
  <2>2. CASE m = r
    <3>1. CASE n = l
      BY <1>2, <2>2, <3>1
    <3>2. CASE n # l
      <4>1. n \in DOMAIN heap /\ h[n] = h[l]
        BY <1>1, <1>2, <1>3, <2>2
      <4>2. R[l] \cap R[n] = {}
        BY <1>1, <3>2, <4>1 DEF Apart
      <4> QED
        BY <1>2, <2>2, <3>2, <4>1, <4>2
    <3> QED
      BY <3>1, <3>2
  <2>3. CASE n = r
    <3>1. CASE m = l
      BY <1>2, <2>3, <3>1
    <3>2. CASE m # l
      <4>1. m \in DOMAIN heap /\ h[m] = h[l]
        BY <1>1, <1>2, <1>3, <2>3
      <4>2. R[l] \cap R[m] = {}
        BY <1>1, <3>2, <4>1 DEF Apart
      <4> QED
        BY <1>2, <2>3, <3>2, <4>1, <4>2
    <3> QED
      BY <3>1, <3>2
  <2> QED
    BY <1>1, <2>1, <2>2, <2>3
<1> QED
  BY <1>3 DEF Apart

\* A split leaves the root in charge of every key.
LEMMA SplitRoot ==
  ASSUME NEW h, NEW R, NEW h2, NEW R2, NEW l, NEW r, NEW pr, Splits(h, R, h2, R2, l, r, pr)
  PROVE  RootOK(h2, R2, r)'
<1>1. /\ root \in DOMAIN heap /\ l \in DOMAIN heap /\ r \notin DOMAIN heap /\ root' = root
      /\ DOMAIN heap' = DOMAIN heap \cup {r} /\ \A n \in DOMAIN heap : h[n] <= h[root]
      /\ R[root] = Key /\ Apart(h, R) /\ R[l] \subseteq Key
      /\ NodeOK(h, R, l, l)
  BY DEF Splits, Shape, RootOK
<1>2. /\ h2[r] = h[l] /\ R2[l] \cup R2[r] = R[l] /\ r # Null
      /\ \A n \in DOMAIN heap : h2[n] = h[n]
      /\ \A n \in DOMAIN heap : n # l => R2[n] = R[n]
  BY SplitRegions
<1>3. r \in DOMAIN heap' \ {root}
  BY <1>1
<1>4. \A n \in DOMAIN heap' : h2[n] <= h2[root]
  BY <1>1, <1>2
<1>5. CASE l = root
  <2>1. Key = R2[root] \cup R2[r] /\ h2[r] = h2[root]
    BY <1>1, <1>2, <1>5
  <2> QED
    BY <1>1, <1>2, <1>3, <1>4, <2>1 DEF RootOK
<1>6. CASE l # root
  <2>1. h[l] # h[root]
    <3>1. R[l] # {}
      BY <1>1, RegionsInhabited
    <3> QED
      BY <1>1, <1>6, <3>1 DEF Apart
  <2>2. Key = R2[root] /\ h2[r] # h2[root]
    BY <1>1, <1>2, <1>6, <2>1
  <2> QED
    BY <1>1, <1>2, <1>3, <1>4, <2>2 DEF RootOK
<1> QED
  BY <1>5, <1>6

\* Each node that was linked is linked after a split, if the halves
\* share out the links.
LEMMA SplitLinked ==
  ASSUME NEW h, NEW R, NEW h2, NEW R2, NEW l, NEW r, NEW pr, Splits(h, R, h2, R2, l, r, pr),
         \A i \in 1..Len(heap[l].kids) :
           \E p \in {l, r} : \E j \in 1..Len(heap'[p].kids) : heap'[p].kids[j] = heap[l].kids[i]
  PROVE  AllLinked(r)'
<1>1. AllLinked(Null) /\ l \in DOMAIN heap /\ DOMAIN heap' = DOMAIN heap \cup {r} /\ root' = root
      /\ \A n \in DOMAIN heap : n # l => heap'[n] = heap[n]
  BY DEF Splits, Shape
<1>2. \A n \in DOMAIN heap : n # Null
  BY TreeFacts DEF Splits
<1>3. ASSUME NEW n \in DOMAIN heap, n # root PROVE Linked(n)'
  <2>1. Linked(n)
    BY <1>1, <1>2, <1>3 DEF AllLinked
  <2>2. PICK p \in DOMAIN heap : \E i \in 1..Len(heap[p].kids) : heap[p].kids[i] = n
    BY <2>1 DEF Linked
  <2>3. CASE p = l
    BY <1>1, <2>2, <2>3 DEF Linked
  <2>4. CASE p # l
    BY <1>1, <2>2, <2>4 DEF Linked
  <2> QED
    BY <2>3, <2>4
<1> QED
  BY <1>1, <1>3 DEF AllLinked

\* A split of an inner node leaves the leaves as they are.
LEMMA SplitNextInner ==
  ASSUME NEW h, NEW R, NEW h2, NEW R2, NEW l, NEW r, NEW pr, Splits(h, R, h2, R2, l, r, pr),
         heap[l].leaf = FALSE, heap'[l].leaf = FALSE, heap'[r].leaf = FALSE
  PROVE  \A n \in DOMAIN heap' : heap'[n].leaf => NextOK(R2, n)'
<1>1. /\ DOMAIN heap' = DOMAIN heap \cup {r} /\ r \notin DOMAIN heap
      /\ \A n \in DOMAIN heap : n # l => heap'[n] = heap[n]
      /\ \A n \in DOMAIN heap : heap[n].leaf => NextOK(R, n)
  BY DEF Splits, Shape
<1>2. \A n \in DOMAIN heap : n # l => R2[n] = R[n]
  BY SplitRegions
<1>3. \A n \in DOMAIN heap' : heap'[n].leaf => n \in DOMAIN heap /\ heap[n].leaf /\ n # l
  BY <1>1
<1>4. \A n \in DOMAIN heap : heap[n].leaf => heap'[n].leaf /\ heap'[n] = heap[n] /\ R2[n] = R[n]
  BY <1>1, <1>2
<1>5. ASSUME NEW n \in DOMAIN heap', heap'[n].leaf PROVE NextOK(R2, n)'
  <2>1. NextOK(R, n) /\ n \in DOMAIN heap /\ heap[n].leaf
    BY <1>1, <1>3, <1>5
  <2>2. heap'[n].next = heap[n].next /\ R2[n] = R[n]
    BY <1>4, <2>1
  <2>3. CASE heap[n].next = Null
    <3>1. ASSUME NEW m \in DOMAIN heap', heap'[m].leaf, m # n PROVE Before(R2[m], R2[n])
      <4>1. m \in DOMAIN heap /\ heap[m].leaf /\ R2[m] = R[m]
        BY <1>3, <1>4, <3>1
      <4>2. Before(R[m], R[n])
        BY <2>1, <2>3, <3>1, <4>1 DEF NextOK
      <4> QED
        BY <2>2, <4>1, <4>2
    <3> QED
      BY <2>2, <2>3, <3>1 DEF NextOK
  <2>4. CASE heap[n].next # Null
    <3>1. PICK y : y = heap[n].next
      OBVIOUS
    <3>2. y \in DOMAIN heap /\ heap[y].leaf /\ Before(R[n], R[y])
      BY <2>1, <2>4, <3>1 DEF NextOK
    <3>3. y \in DOMAIN heap' /\ heap'[y].leaf /\ R2[y] = R[y] /\ Before(R2[n], R2[y])
      BY <1>1, <1>4, <2>2, <3>2
    <3>4. ASSUME NEW m \in DOMAIN heap', heap'[m].leaf, m # n, m # y
          PROVE  Before(R2[m], R2[n]) \/ Before(R2[y], R2[m])
      <4>1. m \in DOMAIN heap /\ heap[m].leaf /\ R2[m] = R[m]
        BY <1>3, <1>4, <3>4
      <4>2. Before(R[m], R[n]) \/ Before(R[y], R[m])
        BY <2>1, <2>4, <3>1, <3>4, <4>1 DEF NextOK
      <4> QED
        BY <2>2, <3>3, <4>1, <4>2
    <3> QED
      BY <2>2, <2>4, <3>1, <3>3, <3>4 DEF NextOK
  <2> QED
    BY <2>3, <2>4
<1> QED
  BY <1>5

\* The new leaf is linked in behind the one it was split from.
LEMMA SplitNextLeaf ==
  ASSUME NEW h, NEW R, NEW h2, NEW R2, NEW l, NEW r, NEW pr, Splits(h, R, h2, R2, l, r, pr),
         heap[l].leaf, heap'[l].leaf = TRUE, heap'[r].leaf = TRUE,
         heap'[l].next = r, heap'[r].next = heap[l].next
  PROVE  \A n \in DOMAIN heap' : heap'[n].leaf => NextOK(R2, n)'
<1>1. /\ DOMAIN heap' = DOMAIN heap \cup {r} /\ r \notin DOMAIN heap /\ l \in DOMAIN heap
      /\ Shape(h, R, l, Null, <<Null, 0>>)
      /\ \A n \in DOMAIN heap : n # l => heap'[n] = heap[n]
      /\ \A n \in DOMAIN heap : heap[n].leaf => NextOK(R, n)
  BY DEF Splits, Shape
<1>2. /\ R2[l] \subseteq R[l] /\ R2[r] \subseteq R[l] /\ Before(R2[l], R2[r])
      /\ \A n \in DOMAIN heap : n # l => R2[n] = R[n]
      /\ l # Null /\ r # Null /\ r # l
  BY SplitRegions
<1>3. \A n \in DOMAIN heap' : heap'[n].leaf => n = r \/ (n \in DOMAIN heap /\ heap[n].leaf)
  BY <1>1
<1>4. \A n \in DOMAIN heap : heap[n].leaf => heap'[n].leaf
  BY <1>1
<1>5. \A n \in DOMAIN heap : R2[n] \subseteq R[n]
  BY <1>2
<1>6. \A n \in DOMAIN heap : R[n] \subseteq Int /\ R[n] # {}
  <2>1. ASSUME NEW n \in DOMAIN heap PROVE R[n] \subseteq Int /\ R[n] # {}
    <3>1. R[n] \subseteq Key /\ NodeOK(h, R, n, l)
      BY <1>1, TreeFacts
    <3> QED
      BY <3>1, RegionsInhabited, TreeAssumption
  <2> QED
    BY <2>1
<1>7. PICK x : x = heap[l].next
  OBVIOUS
<1>8. ASSUME x = Null PROVE NextOK(R2, l)' /\ NextOK(R2, r)'
  <2>1. ASSUME NEW m \in DOMAIN heap, heap[m].leaf, m # l PROVE Before(R2[m], R2[l]) /\ Before(R2[m], R2[r])
    <3>1. Before(R[m], R[l])
      BY <1>1, <1>7, <1>8, <2>1 DEF NextOK
    <3> QED
      BY <1>2, <1>5, <2>1, <3>1, BeforeParts
  <2>2. NextOK(R2, l)'
    <3>1. heap'[l].next = r /\ r \in DOMAIN heap'
      BY <1>1
    <3>2. \A m \in DOMAIN heap' : heap'[m].leaf /\ m \notin {l, r} => Before(R2[m], R2[l])
      BY <1>3, <2>1
    <3> QED
      BY <1>2, <3>1, <3>2 DEF NextOK
  <2>3. NextOK(R2, r)'
    <3>1. heap'[r].next = Null
      BY <1>7, <1>8
    <3>2. \A m \in DOMAIN heap' : heap'[m].leaf /\ m # r => Before(R2[m], R2[r])
      BY <1>2, <1>3, <2>1
    <3> QED
      BY <3>1, <3>2 DEF NextOK
  <2> QED
    BY <2>2, <2>3
<1>9. ASSUME x # Null PROVE NextOK(R2, l)' /\ NextOK(R2, r)'
  <2>0. x \in DOMAIN heap /\ heap[x].leaf /\ Before(R[l], R[x])
    BY <1>1, <1>7, <1>9 DEF NextOK
  <2>1. x # l /\ x # r
    <3>1. PICK k \in R[l] : k \in Int
      BY <1>1, <1>6
    <3>2. ~Before(R[l], R[l])
      BY <3>1 DEF Before
    <3> QED
      BY <1>1, <2>0, <3>2
  <2>2. R2[x] = R[x] /\ Before(R2[l], R2[x]) /\ Before(R2[r], R2[x])
    BY <1>2, <2>0, <2>1, BeforeParts
  <2>3. ASSUME NEW m \in DOMAIN heap, heap[m].leaf, m # l, m # x
        PROVE  \/ Before(R2[m], R2[l]) /\ Before(R2[m], R2[r])
               \/ Before(R2[x], R2[m]) /\ Before(R2[r], R2[m])
    <3>1. Before(R[m], R[l]) \/ Before(R[x], R[m])
      BY <1>1, <1>7, <1>9, <2>3 DEF NextOK
    <3>2. CASE Before(R[m], R[l])
      BY <1>2, <1>5, <2>3, <3>2, BeforeParts
    <3>3. CASE Before(R[x], R[m])
      <4>1. Before(R[l], R[m])
        BY <1>1, <1>6, <2>0, <2>3, <3>3, BeforeChain
      <4> QED
        BY <1>2, <1>5, <2>0, <2>3, <3>3, <4>1, BeforeParts
    <3> QED
      BY <3>1, <3>2, <3>3
  <2>4. NextOK(R2, l)'
    <3>1. heap'[l].next = r /\ r \in DOMAIN heap'
      BY <1>1
    <3>2. \A m \in DOMAIN heap' :
            heap'[m].leaf /\ m \notin {l, r} => Before(R2[m], R2[l]) \/ Before(R2[r], R2[m])
      BY <1>3, <2>2, <2>3
    <3> QED
      BY <1>2, <3>1, <3>2 DEF NextOK
  <2>5. NextOK(R2, r)'
    <3>1. heap'[r].next = x /\ x \in DOMAIN heap' /\ heap'[x].leaf
      BY <1>1, <1>4, <1>7, <2>0
    <3>2. \A m \in DOMAIN heap' :
            heap'[m].leaf /\ m \notin {r, x} => Before(R2[m], R2[r]) \/ Before(R2[x], R2[m])
      BY <1>2, <1>3, <2>3
    <3> QED
      BY <1>9, <2>2, <3>1, <3>2 DEF NextOK
  <2> QED
    BY <2>4, <2>5
<1>10. ASSUME NEW n \in DOMAIN heap, heap[n].leaf, n # l PROVE NextOK(R2, n)'
  <2>1. NextOK(R, n) /\ heap'[n].next = heap[n].next /\ R2[n] = R[n]
    BY <1>1, <1>2, <1>10
  <2>2. CASE heap[n].next = Null
    <3>1. ASSUME NEW m \in DOMAIN heap, heap[m].leaf, m # n PROVE Before(R2[m], R2[n])
      <4>1. Before(R[m], R[n])
        BY <2>1, <2>2, <3>1 DEF NextOK
      <4> QED
        BY <1>5, <1>10, <3>1, <4>1, BeforeParts
    <3>2. Before(R2[r], R2[n])
      <4>1. Before(R[l], R[n])
        BY <1>1, <1>10, <2>1, <2>2 DEF NextOK
      <4> QED
        BY <1>2, <2>1, <4>1, BeforeParts
    <3>3. \A m \in DOMAIN heap' : heap'[m].leaf /\ m # n => Before(R2[m], R2[n])
      BY <1>3, <3>1, <3>2
    <3> QED
      BY <2>1, <2>2, <3>3 DEF NextOK
  <2>3. CASE heap[n].next # Null
    <3>1. PICK y : y = heap[n].next
      OBVIOUS
    <3>2. y \in DOMAIN heap /\ heap[y].leaf /\ Before(R[n], R[y])
      BY <2>1, <2>3, <3>1 DEF NextOK
    <3>3. y \in DOMAIN heap' /\ heap'[y].leaf /\ Before(R2[n], R2[y])
      BY <1>1, <1>4, <1>5, <2>1, <3>2, BeforeParts
    <3>4. ASSUME NEW m \in DOMAIN heap, heap[m].leaf, m # n, m # y
          PROVE  Before(R2[m], R2[n]) \/ Before(R2[y], R2[m])
      <4>1. Before(R[m], R[n]) \/ Before(R[y], R[m])
        BY <2>1, <2>3, <3>1, <3>4 DEF NextOK
      <4> QED
        BY <1>5, <1>10, <3>2, <3>4, <4>1, BeforeParts
    <3>5. Before(R2[r], R2[n]) \/ Before(R2[y], R2[r])
      <4>1. CASE y = l
        BY <1>2, <4>1
      <4>2. CASE y # l
        <5>1. Before(R[l], R[n]) \/ Before(R[y], R[l])
          BY <1>1, <1>10, <2>1, <2>3, <3>1, <4>2 DEF NextOK
        <5> QED
          BY <1>2, <1>5, <2>1, <3>2, <5>1, BeforeParts
      <4> QED
        BY <4>1, <4>2
    <3>6. \A m \in DOMAIN heap' :
            heap'[m].leaf /\ m \notin {n, y} => Before(R2[m], R2[n]) \/ Before(R2[y], R2[m])
      BY <1>3, <3>4, <3>5
    <3> QED
      BY <2>1, <2>3, <3>1, <3>3, <3>6 DEF NextOK
  <2> QED
    BY <2>2, <2>3
<1>11. NextOK(R2, l)' /\ NextOK(R2, r)'
  BY <1>8, <1>9
<1>12. ASSUME NEW n \in DOMAIN heap', heap'[n].leaf PROVE NextOK(R2, n)'
  <2>1. CASE n = r
    BY <1>11, <2>1
  <2>2. CASE n = l
    BY <1>11, <2>2
  <2>3. CASE n # r /\ n # l
    BY <1>3, <1>10, <1>12, <2>3
  <2> QED
    BY <2>1, <2>2, <2>3
<1> QED
  BY <1>12

\* So the whole tree is sound after a split, the right half aside.
LEMMA SplitShape ==
  ASSUME NEW h, NEW R, NEW h2, NEW R2, NEW l, NEW r, NEW pr, Splits(h, R, h2, R2, l, r, pr),
         NEW link, LinkTo(link, l),
         NodeOK(h2, R2, l, Null)', NodeOK(h2, R2, r, Null)',
         KidsOK(h2, R2, l, r, link)', KidsOK(h2, R2, r, r, link)',
         \A i \in 1..Len(heap[l].kids) :
           \E p \in {l, r} : \E j \in 1..Len(heap'[p].kids) : heap'[p].kids[j] = heap[l].kids[i],
         \A n \in DOMAIN heap' : heap'[n].leaf => NextOK(R2, n)'
  PROVE  Shape(h2, R2, Null, r, link)'
<1>1. DOMAIN heap' = DOMAIN heap \cup {r} /\ DOMAIN heap \subseteq Node /\ r \in Node
  BY DEF Splits, Shape
<1>2. DOMAIN heap' \subseteq Node /\ h2 \in [DOMAIN heap' -> Nat] /\ R2 \in [DOMAIN heap' -> SUBSET Key]
  BY <1>1, SplitRegions
<1>3. \A n \in DOMAIN heap' : NodeOK(h2, R2, n, Null)'
  BY <1>1, SplitNodes
<1>4. \A n \in DOMAIN heap' : KidsOK(h2, R2, n, r, link)'
  BY <1>1, SplitKids
<1>5. Apart(h2, R2)' /\ RootOK(h2, R2, r)' /\ AllLinked(r)'
  BY SplitApart, SplitRoot, SplitLinked
<1> QED
  BY <1>2, <1>3, <1>4, <1>5 DEF Shape

\* The nodes on the path are higher than the current one, and it is the child
\* that the last of them descended to.
LEMMA PathAbove ==
  ASSUME NEW h, Stack(h), h \in [DOMAIN heap -> Nat], root \in DOMAIN heap
  PROVE  /\ \A i \in 1..Len(path) : OnPath(i) = path[i].node /\ h[path[i].node] > h[node]
         /\ OnPath(Len(path) + 1) = node
<1>1. Len(path) \in Nat /\ node \in DOMAIN heap
  <2>1. path \in Seq([node : DOMAIN heap, child : 1..(MaxKeys + 1)]) /\ node \in DOMAIN heap
    BY DEF Stack
  <2> QED
    BY <2>1
<1>2. OnPath(Len(path) + 1) = node
  BY <1>1 DEF OnPath
<1>3. ASSUME NEW i \in 1..Len(path) PROVE OnPath(i) = path[i].node /\ h[path[i].node] > h[node]
  <2>1. OnPath(i) = path[i].node
    BY <1>1 DEF OnPath
  <2>2. i \in 1..(Len(path) + 1) /\ Len(path) + 1 \in 1..(Len(path) + 1) /\ i < Len(path) + 1
    BY <1>1
  <2>3. h[OnPath(i)] + i = h[root] + 1 /\ h[OnPath(Len(path) + 1)] + (Len(path) + 1) = h[root] + 1
    BY <2>2 DEF Stack
  <2>4. h[path[i].node] + i = h[root] + 1 /\ h[node] + (Len(path) + 1) = h[root] + 1
    BY <1>2, <2>1, <2>3
  <2>5. h[path[i].node] \in Nat /\ h[node] \in Nat /\ h[root] \in Nat
    BY <1>1, PathFacts
  <2>6. PICK a \in Nat : a = h[path[i].node]
    BY <2>5
  <2>7. PICK b \in Nat : b = h[node]
    BY <2>5
  <2>8. a > b
    <3>1. a + i = b + (Len(path) + 1)
      BY <2>4, <2>6, <2>7
    <3> QED
      BY <1>1, <2>2, <3>1
  <2> QED
    BY <2>1, <2>6, <2>7, <2>8
<1> QED
  BY <1>2, <1>3

\* The last frame of the descent is the link to the node at hand.
LEMMA LinkOnPath ==
  ASSUME NEW h, Stack(h), NEW link,
         link = IF path # <<>> THEN <<path[Len(path)].node, path[Len(path)].child>>
                ELSE <<Null, 0>>
  PROVE  LinkTo(link, node)
<1>1. path \in Seq([node : DOMAIN heap, child : 1..(MaxKeys + 1)])
  BY DEF Stack
<1>2. CASE path = <<>>
  <2>1. OnPath(1) = node
    BY <1>2 DEF OnPath
  <2> QED
    BY <1>2, <2>1 DEF Stack, LinkTo
<1>3. CASE path # <<>>
  <2>1. Len(path) \in 1..Len(path)
    BY <1>1, <1>3
  <2>2. OnPath(Len(path) + 1) = node
    BY <2>1 DEF OnPath
  <2>3. PICK q \in DOMAIN heap : q = path[Len(path)].node
    BY <2>1, PathFacts
  <2>4. PICK j : j = path[Len(path)].child
    OBVIOUS
  <2>5. j <= Len(heap[q].kids) /\ heap[q].kids[j] = node /\ j \in 1..(MaxKeys + 1)
    BY <2>1, <2>2, <2>3, <2>4, PathFacts DEF Stack
  <2>6. j \in 1..Len(heap[q].kids)
    BY <2>5
  <2>7. link = <<q, j>>
    BY <1>3, <2>3, <2>4
  <2> QED
    BY <2>5, <2>6, <2>7 DEF LinkTo
<1> QED
  BY <1>2, <1>3

\* The path stays what it was as long as the nodes on it keep their children.
LEMMA StackStays ==
  ASSUME NEW h, NEW h2, Stack(h), h \in [DOMAIN heap -> Nat], root \in DOMAIN heap,
         node' = node, path' = path, root' = root, DOMAIN heap \subseteq DOMAIN heap',
         \A n \in DOMAIN heap : h2[n] = h[n],
         \A n \in DOMAIN heap : n # node => heap'[n] = heap[n]
  PROVE  Stack(h2)'
<1>1. path \in Seq([node : DOMAIN heap', child : 1..(MaxKeys + 1)]) /\ Len(path) \in Nat
  <2> DEFINE S == [node : DOMAIN heap, child : 1..(MaxKeys + 1)]
             T == [node : DOMAIN heap', child : 1..(MaxKeys + 1)]
  <2>1. path \in Seq(S)
    BY DEF Stack
  <2>2. S \subseteq T
    OBVIOUS
  <2> HIDE DEF S, T
  <2>3. \A i \in 1..Len(path) : path[i] \in T
    BY <2>1, <2>2
  <2>4. path \in Seq(T) /\ Len(path) \in Nat
    BY <2>1, <2>3
  <2> QED
    BY <2>4 DEF T
<1>2. \A i : OnPath(i)' = OnPath(i)
  BY DEF OnPath
<1>3. ASSUME NEW i \in 1..Len(path)
      PROVE  /\ path[i].child <= Len(heap'[path[i].node].kids)
             /\ heap'[path[i].node].kids[path[i].child] = OnPath(i + 1)
  <2>1. path[i].node \in DOMAIN heap /\ path[i].node # node
    <3>1. path[i].node \in DOMAIN heap /\ node \in DOMAIN heap
      BY PathFacts DEF Stack
    <3>2. h[path[i].node] > h[node] /\ h[node] \in Nat
      BY <3>1, PathAbove
    <3> QED
      BY <3>1, <3>2
  <2>2. heap'[path[i].node] = heap[path[i].node]
    BY <2>1
  <2> QED
    BY <2>2 DEF Stack
<1>4. ASSUME NEW i \in 1..(Len(path) + 1) PROVE h2[OnPath(i)] + i = h2[root] + 1
  <2>1. OnPath(i) \in DOMAIN heap
    <3>1. CASE i <= Len(path)
      <4>1. i \in 1..Len(path)
        BY <1>1, <3>1
      <4> QED
        BY <4>1, PathAbove, PathFacts
    <3>2. CASE ~(i <= Len(path))
      BY <3>2 DEF OnPath, Stack
    <3> QED
      BY <3>1, <3>2
  <2>2. h[OnPath(i)] + i = h[root] + 1
    BY DEF Stack
  <2>3. h2[OnPath(i)] = h[OnPath(i)] /\ h2[root] = h[root]
    BY <2>1
  <2> QED
    BY <2>2, <2>3
<1>5. node \in DOMAIN heap /\ OnPath(1) = root
  BY DEF Stack
<1> QED
  BY <1>1, <1>2, <1>3, <1>4, <1>5 DEF Stack

\* What a split leaves to its caller.
LEMMA SplitTree ==
  ASSUME TreeInv, pc \in {"splitLeaf", "splitInternal"}, pc' = "absorb",
         UNCHANGED <<root, args, node, path, damaged>>,
         NEW h, NEW R, NEW h2, NEW R2, NEW r, NEW pr, NEW l, l = node,
         Splits(h, R, h2, R2, l, r, pr), Stack(h),
         split' = [promoted |-> pr, right |-> r], pr \in R[l], pr \in R2[r],
         NEW link, link = OpenLink', Shape(h2, R2, Null, r, link)',
         Len(heap'[l].keys) >= Half(l)',
         <<key, value>> \in Bindings'
  PROVE  TreeInv'
<1>1. /\ root \in DOMAIN heap /\ l \in DOMAIN heap /\ h \in [DOMAIN heap -> Nat]
      /\ root' = root /\ DOMAIN heap' = DOMAIN heap \cup {r}
      /\ \A n \in DOMAIN heap : n # l => heap'[n] = heap[n]
      /\ R[l] \subseteq Key
  BY DEF Splits, Shape, RootOK
<1>2. /\ h2[r] = h[l] /\ h2[l] = h[l] /\ r # l
      /\ R2[r] = {k \in R[l] : pr <= k} /\ R2[l] = {k \in R[l] : k < pr}
      /\ \A n \in DOMAIN heap : h2[n] = h[n]
  BY SplitRegions
<1>3. /\ damaged = FALSE /\ damaged' = FALSE /\ key' = key /\ value' = value
      /\ node' = node /\ path' = path /\ key \in Key /\ value \in Value
  BY DEF TreeInv, CallOK, args
<1>4. CallOK'
  BY <1>3 DEF CallOK, Splitting
<1>5. Stack(h2)'
  BY <1>1, <1>2, <1>3, StackStays
<1>6. Handed(h2, R2)'
  <2>1. split' \in [promoted : Key, right : DOMAIN heap'] /\ split'.right = r /\ split'.promoted = pr
    BY <1>1
  <2>2. Len(heap'[node'].keys) >= Half(node)'
    BY <1>3 DEF Half
  <2> QED
    BY <1>2, <1>3, <2>1, <2>2 DEF Handed
<1>7. Over' = Null /\ Orphan' = r
  BY DEF Over, Orphan
<1>8. Running(h2, R2)'
  BY <1>5, <1>6 DEF Running
<1>9. Tree(h2, R2)'
  BY <1>7, <1>8 DEF Tree
<1> QED
  BY <1>3, <1>4, <1>9 DEF TreeInv

-----------------------------------------------------------------------------
(* insert_into_leaf, insert_into_internal.                                 *)

\* Half of the keys of a node that is too full.
LEMMA SplitPointIs ==
  ASSUME NEW m, m = SplitPoint(MaxKeys + 1)
  PROVE  /\ m \in 1..MaxKeys /\ m + 2 <= MaxKeys + 1 /\ m \in Nat /\ MaxKeys \in Nat
         /\ (MaxKeys + 1) \div 2 = m /\ MaxKeys + 1 - m >= m /\ m >= MaxKeys - m
BY TreeAssumption DEF SplitPoint

\* The node that is split, before the split.
LEMMA FullNode ==
  ASSUME TreeInv, pc \in {"splitLeaf", "splitInternal"}
  PROVE  \E h, R : /\ Shape(h, R, node, Null, <<Null, 0>>) /\ Stack(h) /\ node \in DOMAIN heap
                   /\ Len(heap[node].keys) = MaxKeys + 1
                   /\ heap[node].leaf <=> pc = "splitLeaf"
                   /\ NodeOK(h, R, node, node) /\ NodeFacts(node)
                   /\ KidsOK(h, R, node, Null, <<Null, 0>>)
<1>1. damaged = FALSE /\ split = NoSplit /\ ~EmptyTree
  BY DEF TreeInv, CallOK, EmptyTree
<1>2. PICK h, R : Tree(h, R)
  BY <1>1 DEF TreeInv
<1>3. Over = node /\ Orphan = Null /\ OpenLink = <<Null, 0>>
  BY <1>1 DEF Over, Orphan, OpenLink, NoSplit
<1>4. Shape(h, R, node, Null, <<Null, 0>>)
  BY <1>2, <1>3 DEF Tree
<1>5. /\ Stack(h) /\ Len(heap[node].keys) = MaxKeys + 1
      /\ heap[node].leaf <=> pc = "splitLeaf"
  BY <1>2 DEF Tree, Running
<1>6. node \in DOMAIN heap
  BY <1>5 DEF Stack
<1>7. /\ NodeOK(h, R, node, node) /\ NodeFacts(node)
      /\ KidsOK(h, R, node, Null, <<Null, 0>>)
  BY <1>4, <1>6, TreeFacts
<1> QED
  BY <1>4, <1>5, <1>6, <1>7

\* What a sequence is cut into.
Left(t, s, m) == Len(t) = m /\ \A j \in 1..m : t[j] = s[j]
Right(t, s, m) == Len(t) = Len(s) - m /\ \A j \in 1..(Len(s) - m) : t[j] = s[m + j]

\* The two parts of a divided array.
LEMMA HalvesAre ==
  ASSUME NEW S, NEW s \in Seq(S), NEW n, Len(s) = n, NEW m \in 1..n
  PROVE  /\ SubSeq(s, 1, m) \in Seq(S) /\ Left(SubSeq(s, 1, m), s, m)
         /\ SubSeq(s, m + 1, n) \in Seq(S) /\ Right(SubSeq(s, m + 1, n), s, m)
<1>1. n \in Nat /\ m \in Nat /\ 1 <= m /\ m <= n
  OBVIOUS
<1>2. /\ SubSeq(s, 1, m) \in Seq(S) /\ Len(SubSeq(s, 1, m)) = m - 1 + 1
      /\ \A j \in 1..(m - 1 + 1) : SubSeq(s, 1, m)[j] = s[1 + j - 1]
  BY <1>1, PartIs
<1>3. /\ SubSeq(s, m + 1, n) \in Seq(S) /\ Len(SubSeq(s, m + 1, n)) = n - (m + 1) + 1
      /\ \A j \in 1..(n - (m + 1) + 1) : SubSeq(s, m + 1, n)[j] = s[m + 1 + j - 1]
  BY <1>1, PartIs
<1>4. m - 1 + 1 = m /\ n - (m + 1) + 1 = n - m
  BY <1>1
<1>5. ASSUME NEW j \in 1..m PROVE SubSeq(s, 1, m)[j] = s[j]
  <2>1. 1 + j - 1 = j /\ j \in 1..(m - 1 + 1)
    BY <1>1
  <2> QED
    BY <1>2, <2>1
<1>6. ASSUME NEW j \in 1..(n - m) PROVE SubSeq(s, m + 1, n)[j] = s[m + j]
  <2>1. m + 1 + j - 1 = m + j /\ j \in 1..(n - (m + 1) + 1)
    BY <1>1
  <2> QED
    BY <1>3, <2>1
<1> QED
  BY <1>2, <1>3, <1>4, <1>5, <1>6 DEF Left, Right

\* The heap that insert_into_leaf leaves.
LEMMA SplitLeafHeap ==
  ASSUME TreeInv, SplitLeaf
  PROVE  LET ks == heap[node].keys
             vs == heap[node].vals
             m == SplitPoint(MaxKeys + 1)
             r == NewNode
         IN  /\ node \in DOMAIN heap /\ r \in Node /\ r \notin DOMAIN heap
             /\ ks \in Seq(Key) /\ vs \in Seq(Value)
             /\ Len(ks) = MaxKeys + 1 /\ Len(vs) = MaxKeys + 1
             /\ DOMAIN heap' = DOMAIN heap \cup {r}
             /\ \A n \in DOMAIN heap : n # node => heap'[n] = heap[n]
             /\ \E lk, lv, rk, rv :
                  /\ lk = SubSeq(ks, 1, m) /\ lv = SubSeq(vs, 1, m)
                  /\ rk = SubSeq(ks, m + 1, MaxKeys + 1) /\ rv = SubSeq(vs, m + 1, MaxKeys + 1)
                  /\ heap'[node] = Leaf(lk, lv, r)
                  /\ heap'[r] = Leaf(rk, rv, heap[node].next)
             /\ split' = [promoted |-> ks[m + 1], right |-> r]
<1> DEFINE ks == heap[node].keys
           vs == heap[node].vals
<1>1. pc = "splitLeaf" /\ Free # {}
  BY DEF SplitLeaf
<1>2. PICK h, R : /\ Shape(h, R, node, Null, <<Null, 0>>) /\ Stack(h) /\ node \in DOMAIN heap
                  /\ Len(ks) = MaxKeys + 1
                  /\ heap[node].leaf <=> pc = "splitLeaf"
                  /\ NodeOK(h, R, node, node) /\ NodeFacts(node)
                  /\ KidsOK(h, R, node, Null, <<Null, 0>>)
  BY <1>1, FullNode
<1>3. PICK r : r = NewNode
  OBVIOUS
<1>4. r \in Node /\ r \notin DOMAIN heap
  BY <1>1, <1>3 DEF Free, NewNode
<1>5. PICK m : m = SplitPoint(MaxKeys + 1)
  OBVIOUS
<1>6. m + 1 \in 1..(MaxKeys + 1)
  BY <1>5, SplitPointIs
<1>7. ks \in Seq(Key) /\ vs \in Seq(Value) /\ Len(vs) = MaxKeys + 1
  BY <1>1, <1>2 DEF NodeOK, NodeFacts
<1>7a. PICK lk, lv, rk, rv :
        /\ lk = SubSeq(ks, 1, m) /\ lv = SubSeq(vs, 1, m)
        /\ rk = SubSeq(ks, m + 1, MaxKeys + 1) /\ rv = SubSeq(vs, m + 1, MaxKeys + 1)
  OBVIOUS
<1>8. PICK right : right = Leaf(rk, rv, heap[node].next)
  OBVIOUS
<1>9. PICK left : left = Leaf(lk, lv, r)
  OBVIOUS
<1>10. heap' = Allocated([heap EXCEPT ![node] = left], r, right)
       /\ split' = [promoted |-> right.keys[1], right |-> r]
  BY <1>2, <1>3, <1>5, <1>7a, <1>8, <1>9 DEF SplitLeaf, Current
<1>11. /\ DOMAIN heap' = DOMAIN heap \cup {r}
       /\ \A n \in DOMAIN heap : n # node => heap'[n] = heap[n]
       /\ heap'[node] = left /\ heap'[r] = right
  BY <1>2, <1>4, <1>10 DEF Allocated
<1>12. right.keys[1] = ks[m + 1]
  <2>1. PICK q \in Seq(Key) : q = ks
    BY <1>7
  <2>2. Len(q) = MaxKeys + 1 /\ m \in 1..(MaxKeys + 1)
    BY <1>2, <1>5, <2>1, SplitPointIs
  <2>3. Right(SubSeq(q, m + 1, MaxKeys + 1), q, m)
    BY <2>2, HalvesAre
  <2>4. 1 \in 1..(Len(q) - m)
    BY <1>5, <2>2, SplitPointIs
  <2>5. right.keys = rk
    BY <1>8 DEF Leaf
  <2>6. Right(rk, q, m)
    BY <1>7a, <2>1, <2>3
  <2> QED
    BY <2>1, <2>4, <2>5, <2>6 DEF Right
<1>13. split' = [promoted |-> ks[m + 1], right |-> r]
  BY <1>10, <1>12
<1>14. \E lk2, lv2, rk2, rv2 :
         /\ lk2 = SubSeq(ks, 1, m) /\ lv2 = SubSeq(vs, 1, m)
         /\ rk2 = SubSeq(ks, m + 1, MaxKeys + 1) /\ rv2 = SubSeq(vs, m + 1, MaxKeys + 1)
         /\ heap'[node] = Leaf(lk2, lv2, r)
         /\ heap'[r] = Leaf(rk2, rv2, heap[node].next)
  <2>1. heap'[node] = Leaf(lk, lv, r) /\ heap'[r] = Leaf(rk, rv, heap[node].next)
    BY <1>8, <1>9, <1>11
  <2> QED
    BY <1>7a, <2>1, Zenon
<1> QED
  BY <1>2, <1>3, <1>4, <1>5, <1>7, <1>11, <1>13, <1>14

\* The entries of a leaf are in its halves.
EntriesOf(n) == {<<heap[n].keys[i], heap[n].vals[i]>> : i \in 1..Len(heap[n].vals)}

\* Splitting a leaf loses no entry.
LEMMA SplitLeafBindings == ASSUME TreeInv, SplitLeaf PROVE Bindings' = Bindings
<1>1. PICK m : m = SplitPoint(MaxKeys + 1)
  OBVIOUS
<1>2. PICK r : r = NewNode
  OBVIOUS
<1>3. PICK ks : ks = heap[node].keys
  OBVIOUS
<1>4. PICK vs : vs = heap[node].vals
  OBVIOUS
<1>5. /\ node \in DOMAIN heap /\ r \notin DOMAIN heap
      /\ ks \in Seq(Key) /\ vs \in Seq(Value)
      /\ Len(ks) = MaxKeys + 1 /\ Len(vs) = MaxKeys + 1
      /\ DOMAIN heap' = DOMAIN heap \cup {r}
      /\ \A n \in DOMAIN heap : n # node => heap'[n] = heap[n]
  BY <1>1, <1>2, <1>3, <1>4, SplitLeafHeap
<1>6. m \in Nat /\ MaxKeys \in Nat /\ m \in 1..MaxKeys
  BY <1>1, SplitPointIs
<1>7. PICK lk, lv, rk, rv :
        /\ lk = SubSeq(ks, 1, m) /\ lv = SubSeq(vs, 1, m)
        /\ rk = SubSeq(ks, m + 1, MaxKeys + 1) /\ rv = SubSeq(vs, m + 1, MaxKeys + 1)
        /\ heap'[node] = Leaf(lk, lv, r)
        /\ heap'[r] = Leaf(rk, rv, heap[node].next)
  BY <1>1, <1>2, <1>3, <1>4, SplitLeafHeap
<1>8. /\ Left(heap'[node].keys, ks, m) /\ Left(heap'[node].vals, vs, m)
      /\ Right(heap'[r].keys, ks, m) /\ Right(heap'[r].vals, vs, m)
  <2>1. m \in 1..(MaxKeys + 1)
    BY <1>6
  <2>2. Left(lk, ks, m) /\ Right(rk, ks, m)
    BY <1>5, <1>7, <2>1, HalvesAre
  <2>3. Left(lv, vs, m) /\ Right(rv, vs, m)
    BY <1>5, <1>7, <2>1, HalvesAre
  <2>4. heap'[node].keys = lk /\ heap'[node].vals = lv /\ heap'[r].keys = rk /\ heap'[r].vals = rv
    <3>1. heap'[node] = Leaf(lk, lv, r)
      BY <1>7
    <3>2. heap'[r] = Leaf(rk, rv, heap[node].next)
      BY <1>7
    <3>3. heap'[node].keys = lk /\ heap'[node].vals = lv
      BY <3>1 DEF Leaf
    <3>4. heap'[r].keys = rk /\ heap'[r].vals = rv
      BY <3>2 DEF Leaf
    <3> QED
      BY <3>3, <3>4
  <2> QED
    BY <2>2, <2>3, <2>4
<1>9. EntriesOf(node)' \cup {<<heap'[r].keys[i], heap'[r].vals[i]>> : i \in 1..Len(heap'[r].vals)}
        = EntriesOf(node)
  <2> DEFINE A == {<<heap'[node].keys[i], heap'[node].vals[i]>> : i \in 1..Len(heap'[node].vals)}
             B == {<<heap'[r].keys[i], heap'[r].vals[i]>> : i \in 1..Len(heap'[r].vals)}
             C == {<<ks[i], vs[i]>> : i \in 1..Len(vs)}
  <2>1. /\ Len(heap'[node].vals) = m
        /\ \A j \in 1..m : heap'[node].keys[j] = ks[j] /\ heap'[node].vals[j] = vs[j]
    BY <1>8 DEF Left
  <2>2. /\ Len(heap'[r].vals) = MaxKeys + 1 - m
        /\ \A j \in 1..(MaxKeys + 1 - m) :
             heap'[r].keys[j] = ks[m + j] /\ heap'[r].vals[j] = vs[m + j]
    <3>1. PICK n : n = MaxKeys + 1
      OBVIOUS
    <3>2. Len(ks) = n /\ Len(vs) = n
      BY <1>5, <3>1
    <3>3. /\ Len(heap'[r].vals) = n - m
          /\ \A j \in 1..(n - m) : heap'[r].keys[j] = ks[m + j] /\ heap'[r].vals[j] = vs[m + j]
      BY <1>8, <3>2 DEF Right
    <3>4. n - m = MaxKeys + 1 - m
      BY <1>6, <3>1
    <3> QED
      BY <3>3, <3>4, Zenon
  <2>3. A = {<<ks[i], vs[i]>> : i \in 1..m}
    BY <2>1
  <2>4. B = {<<ks[m + i], vs[m + i]>> : i \in 1..(MaxKeys + 1 - m)}
    BY <2>2
  <2>5. C = {<<ks[i], vs[i]>> : i \in 1..(MaxKeys + 1)}
    BY <1>5
  <2>6. \A i \in 1..m : i \in 1..(MaxKeys + 1)
    BY <1>6
  <2>7. \A i \in 1..(MaxKeys + 1 - m) : m + i \in 1..(MaxKeys + 1)
    BY <1>6
  <2>8. ASSUME NEW i \in 1..(MaxKeys + 1) PROVE i \in 1..m \/ \E j \in 1..(MaxKeys + 1 - m) : i = m + j
    <3>1. CASE i > m
      <4>1. i - m \in 1..(MaxKeys + 1 - m) /\ i = m + (i - m)
        BY <1>6, <3>1
      <4> QED
        BY <4>1
    <3> QED
      BY <1>6, <3>1
  <2>9. A \cup B = C
    <3> HIDE DEF A, B, C
    <3>1. A \subseteq C
      BY <2>3, <2>5, <2>6
    <3>2. B \subseteq C
      BY <2>4, <2>5, <2>7
    <3>3. C \subseteq A \cup B
      <4>1. ASSUME NEW i \in 1..(MaxKeys + 1) PROVE <<ks[i], vs[i]>> \in A \cup B
        <5>1. CASE i \in 1..m
          BY <2>3, <5>1
        <5>2. CASE \E j \in 1..(MaxKeys + 1 - m) : i = m + j
          BY <2>4, <5>2
        <5> QED
          BY <2>8, <5>1, <5>2
      <4> QED
        BY <2>5, <4>1
    <3> QED
      BY <3>1, <3>2, <3>3
  <2>10. node' = node
    BY DEF SplitLeaf
  <2> QED
    BY <1>3, <1>4, <2>9, <2>10 DEF EntriesOf
<1>10. node' = node
  BY DEF SplitLeaf
<1>11. Bindings = UNION {EntriesOf(n) : n \in DOMAIN heap}
  BY DEF Bindings, EntriesOf
<1> DEFINE E2(n) == {<<heap'[n].keys[i], heap'[n].vals[i]>> : i \in 1..Len(heap'[n].vals)}
<1>12. Bindings' = UNION {E2(n) : n \in DOMAIN heap'}
  BY DEF Bindings
<1>13. E2(node) \cup E2(r) = EntriesOf(node)
  BY <1>9, <1>10 DEF EntriesOf
<1>14. \A n \in DOMAIN heap : n # node => E2(n) = EntriesOf(n)
  BY <1>5 DEF EntriesOf
<1> HIDE DEF E2
<1> QED
  BY <1>5, <1>11, <1>12, <1>13, <1>14

\* Half of a sorted sequence is sorted, and the middle key tells the halves apart.
LEMMA HalvesAscend ==
  ASSUME NEW s \in Seq(Int), Ascending(s), NEW m \in 1..(Len(s) - 1),
         NEW t, NEW u, t = SubSeq(s, 1, m), u = SubSeq(s, m + 1, Len(s))
  PROVE  /\ Ascending(t) /\ \A j \in 1..Len(t) : t[j] < s[m + 1]
         /\ Ascending(u) /\ \A j \in 1..Len(u) : s[m + 1] <= u[j]
<1>1. Len(s) \in Nat /\ m \in Nat /\ m + 1 \in 1..Len(s) /\ m \in 1..Len(s)
  OBVIOUS
<1>2. Ascending(t)
  BY <1>1, PartAscends
<1>3. Ascending(u)
  BY <1>1, PartAscends
<1>4. Left(t, s, m) /\ Right(u, s, m)
  BY <1>1, HalvesAre
<1>5. \A j \in 1..Len(s) : s[j] \in Int
  OBVIOUS
<1>6. ASSUME NEW j \in 1..Len(t) PROVE t[j] < s[m + 1]
  <2>1. j \in 1..m
    BY <1>4 DEF Left
  <2>2. t[j] = s[j]
    BY <1>4, <2>1 DEF Left
  <2>3. j \in 1..Len(s) /\ j < m + 1
    BY <1>1, <2>1
  <2> QED
    BY <1>1, <2>2, <2>3 DEF Ascending
<1>7. ASSUME NEW j \in 1..Len(u) PROVE s[m + 1] <= u[j]
  <2>1. j \in 1..(Len(s) - m)
    BY <1>4 DEF Right
  <2>2. u[j] = s[m + j]
    BY <1>4, <2>1 DEF Right
  <2>3. m + j \in 1..Len(s) /\ m + 1 <= m + j
    BY <1>1, <2>1
  <2>4. m + 1 < m + j => s[m + 1] < s[m + j]
    BY <1>1, <2>3 DEF Ascending
  <2>5. s[m + 1] \in Int /\ s[m + j] \in Int
    BY <1>1, <1>5, <2>3
  <2>6. m + 1 = m + j => s[m + 1] = s[m + j]
    OBVIOUS
  <2>7. m + 1 < m + j \/ m + 1 = m + j
    BY <1>1, <2>1
  <2> QED
    BY <2>2, <2>4, <2>5, <2>6, <2>7, SMTT(30)
<1> QED
  BY <1>2, <1>3, <1>6, <1>7

\* Splitting a leaf keeps the invariant.
LEMMA SplitLeafKeeps == ASSUME TreeInv, SplitLeaf PROVE TreeInv'
<1>1. /\ pc = "splitLeaf" /\ pc' = "absorb" /\ Free # {}
      /\ UNCHANGED <<root, args, node, path, damaged>>
      /\ node' = node /\ path' = path /\ root' = root
  BY DEF SplitLeaf
<1>2. PICK h, R : /\ Shape(h, R, node, Null, <<Null, 0>>) /\ Stack(h) /\ node \in DOMAIN heap
                  /\ Len(heap[node].keys) = MaxKeys + 1
                  /\ heap[node].leaf <=> pc = "splitLeaf"
                  /\ NodeOK(h, R, node, node) /\ NodeFacts(node)
                  /\ KidsOK(h, R, node, Null, <<Null, 0>>)
  BY <1>1, FullNode
<1>3. PICK m : m = SplitPoint(MaxKeys + 1)
  OBVIOUS
<1>4. PICK r : r = NewNode
  OBVIOUS
<1>5. PICK l \in DOMAIN heap : l = node
  BY <1>2
<1>6. PICK ks : ks = heap[l].keys
  OBVIOUS
<1>7. PICK vs : vs = heap[l].vals
  OBVIOUS
<1>8. /\ r \in Node /\ r \notin DOMAIN heap
      /\ ks \in Seq(Key) /\ vs \in Seq(Value)
      /\ Len(ks) = MaxKeys + 1 /\ Len(vs) = MaxKeys + 1
      /\ DOMAIN heap' = DOMAIN heap \cup {r}
      /\ \A n \in DOMAIN heap : n # l => heap'[n] = heap[n]
      /\ split' = [promoted |-> ks[m + 1], right |-> r]
  BY <1>3, <1>4, <1>5, <1>6, <1>7, SplitLeafHeap
<1>9. PICK lk, lv, rk, rv :
        /\ lk = SubSeq(ks, 1, m) /\ lv = SubSeq(vs, 1, m)
        /\ rk = SubSeq(ks, m + 1, MaxKeys + 1) /\ rv = SubSeq(vs, m + 1, MaxKeys + 1)
        /\ heap'[l] = Leaf(lk, lv, r)
        /\ heap'[r] = Leaf(rk, rv, heap[l].next)
  BY <1>3, <1>4, <1>5, <1>6, <1>7, SplitLeafHeap
<1>10. /\ m \in Nat /\ MaxKeys \in Nat /\ m \in 1..MaxKeys /\ m \in 1..(MaxKeys + 1)
       /\ m + 1 \in 1..(MaxKeys + 1) /\ (MaxKeys + 1) \div 2 = m /\ MaxKeys + 1 - m >= m
  BY <1>3, SplitPointIs
<1>11. /\ Left(lk, ks, m) /\ lk \in Seq(Key) /\ Right(rk, ks, m) /\ rk \in Seq(Key)
  BY <1>8, <1>9, <1>10, HalvesAre
<1>12. /\ Left(lv, vs, m) /\ lv \in Seq(Value) /\ Right(rv, vs, m) /\ rv \in Seq(Value)
  BY <1>8, <1>9, <1>10, HalvesAre
<1>13. /\ Len(lk) = m /\ Len(lv) = m /\ Len(rk) = MaxKeys + 1 - m /\ Len(rv) = MaxKeys + 1 - m
  <2>1. Len(lk) = m /\ Len(lv) = m /\ Len(rk) = Len(ks) - m /\ Len(rv) = Len(vs) - m
    BY <1>11, <1>12 DEF Left, Right
  <2> QED
    BY <1>8, <1>10, <2>1
<1>14. ks \in Seq(Int) /\ Ascending(ks) /\ \A j \in 1..Len(ks) : ks[j] \in R[l]
  BY <1>2, <1>5, <1>6 DEF NodeOK, NodeFacts
<1>15. PICK pr : pr = ks[m + 1]
  OBVIOUS
<1>16. /\ Ascending(lk) /\ \A j \in 1..Len(lk) : lk[j] < pr
       /\ Ascending(rk) /\ \A j \in 1..Len(rk) : pr <= rk[j]
  <2>1. m \in 1..(Len(ks) - 1) /\ rk = SubSeq(ks, m + 1, Len(ks))
    BY <1>8, <1>9, <1>10
  <2> QED
    BY <1>9, <1>14, <1>15, <2>1, HalvesAscend
<1>17. pr \in R[l] /\ pr \in Key /\ pr \in Int
  <2>1. m + 1 \in 1..Len(ks)
    BY <1>8, <1>10
  <2> QED
    BY <1>8, <1>14, <1>15, <2>1, KeysAreIntegers
<1>18. /\ \A j \in 1..Len(lk) : lk[j] \in R[l] /\ lk[j] < pr
       /\ \A j \in 1..Len(rk) : rk[j] \in R[l] /\ pr <= rk[j]
  <2>1. ASSUME NEW j \in 1..Len(lk) PROVE lk[j] \in R[l]
    <3>1. j \in 1..m /\ j \in 1..Len(ks)
      BY <1>8, <1>10, <1>13
    <3> QED
      BY <1>11, <1>14, <3>1 DEF Left
  <2>2. ASSUME NEW j \in 1..Len(rk) PROVE rk[j] \in R[l]
    <3>1. j \in 1..(Len(ks) - m) /\ m + j \in 1..Len(ks)
      BY <1>8, <1>10, <1>13
    <3> QED
      BY <1>11, <1>14, <3>1 DEF Right
  <2> QED
    BY <1>16, <2>1, <2>2
<1>19. PICK h2 : h2 = [n \in DOMAIN heap \cup {r} |-> IF n = r THEN h[l] ELSE h[n]]
  OBVIOUS
<1>20. PICK R2 : R2 = [n \in DOMAIN heap \cup {r} |->
             IF n = r THEN {k \in R[l] : pr <= k}
             ELSE IF n = l THEN {k \in R[l] : k < pr} ELSE R[n]]
  OBVIOUS
<1>21. Splits(h, R, h2, R2, l, r, pr)
  BY <1>1, <1>2, <1>5, <1>8, <1>17, <1>19, <1>20 DEF Splits
<1>22. /\ h2[r] = h[l] /\ h2[l] = h[l] /\ r # l /\ l # Null /\ r # Null
       /\ R2[r] = {k \in R[l] : pr <= k} /\ R2[l] = {k \in R[l] : k < pr}
  BY <1>21, SplitRegions
<1>23. /\ heap'[l].leaf = TRUE /\ heap'[l].keys = lk /\ heap'[l].vals = lv /\ heap'[l].kids = <<>>
       /\ heap'[l].next = r
  <2>1. heap'[l] = Leaf(lk, lv, r)
    BY <1>9
  <2> QED
    BY <2>1 DEF Leaf
<1>24. /\ heap'[r].leaf = TRUE /\ heap'[r].keys = rk /\ heap'[r].vals = rv /\ heap'[r].kids = <<>>
       /\ heap'[r].next = heap[l].next
  <2>1. heap'[r] = Leaf(rk, rv, heap[l].next)
    BY <1>9
  <2> QED
    BY <2>1 DEF Leaf
<1>25. heap[l].leaf /\ h[l] = 0 /\ heap[l].kids = <<>> /\ heap[l].next \in Node \cup {Null}
  BY <1>1, <1>2, <1>5 DEF NodeOK, NodeFacts
<1>26. <<>> \in Seq(Node)
  OBVIOUS
<1>27. Half(l)' = m /\ Half(r)' = m
  BY <1>10, <1>23, <1>24 DEF Half
<1>28. NodeOK(h2, R2, l, Null)'
  <2>1. heap'[l] \in NodeRecord
    <3>1. heap'[l] = Leaf(lk, lv, r)
      BY <1>9
    <3> QED
      BY <1>8, <1>11, <1>12, <1>26, <3>1 DEF Leaf, NodeRecord
  <2>2. Len(lk) >= 1 /\ Len(lk) >= Half(l)' /\ Len(lk) <= MaxKeys
    BY <1>10, <1>13, <1>27
  <2>3. \A j \in 1..Len(lk) : lk[j] \in R2[l]
    BY <1>18, <1>22
  <2>4. Len(lv) = Len(lk) /\ h2[l] = 0
    BY <1>13, <1>22, <1>25
  <2> QED
    BY <1>16, <1>22, <1>23, <2>1, <2>2, <2>3, <2>4 DEF NodeOK
<1>29. NodeOK(h2, R2, r, Null)'
  <2>1. heap'[r] \in NodeRecord
    <3>1. heap'[r] = Leaf(rk, rv, heap[l].next)
      BY <1>9
    <3> QED
      BY <1>11, <1>12, <1>25, <1>26, <3>1 DEF Leaf, NodeRecord
  <2>2. Len(rk) >= 1 /\ Len(rk) >= Half(r)' /\ Len(rk) <= MaxKeys
    BY <1>10, <1>13, <1>27
  <2>3. \A j \in 1..Len(rk) : rk[j] \in R2[r]
    BY <1>18, <1>22
  <2>4. Len(rv) = Len(rk) /\ h2[r] = 0
    BY <1>13, <1>22, <1>25
  <2> QED
    BY <1>16, <1>22, <1>24, <2>1, <2>2, <2>3, <2>4 DEF NodeOK
<1>30. PICK link : link = OpenLink'
  OBVIOUS
<1>31. LinkTo(link, l)
  <2>1. link = IF path # <<>> THEN <<path[Len(path)].node, path[Len(path)].child>> ELSE <<Null, 0>>
    BY <1>1, <1>30 DEF OpenLink
  <2> QED
    BY <1>2, <1>5, <2>1, LinkOnPath
<1>32. KidsOK(h2, R2, l, r, link)' /\ KidsOK(h2, R2, r, r, link)'
  BY <1>23, <1>24 DEF KidsOK
<1>33. \A n \in DOMAIN heap' : heap'[n].leaf => NextOK(R2, n)'
  BY <1>21, <1>23, <1>24, <1>25, SplitNextLeaf
<1>34. Shape(h2, R2, Null, r, link)'
  <2>1. \A i \in 1..Len(heap[l].kids) : FALSE
    BY <1>25
  <2> QED
    BY <1>21, <1>28, <1>29, <1>31, <1>32, <1>33, <2>1, SplitShape
<1>35. <<key, value>> \in Bindings'
  BY <1>1, SplitLeafBindings DEF TreeInv, CallOK, Splitting
<1>36. Len(heap'[l].keys) >= Half(l)'
  BY <1>10, <1>13, <1>23, <1>27
<1>37. pr \in R2[r] /\ split' = [promoted |-> pr, right |-> r]
  BY <1>8, <1>15, <1>17, <1>22
<1> QED
  BY <1>1, <1>2, <1>5, <1>17, <1>21, <1>30, <1>34, <1>35, <1>36, <1>37, SplitTree

\* Two inner nodes that share the keys but the one in the middle, and the children.
InnerHalves(ks, cs, m, left, right) ==
  \E lk, lc, rk, rc :
    /\ lk = SubSeq(ks, 1, m) /\ lc = SubSeq(cs, 1, m + 1)
    /\ rk = SubSeq(ks, m + 2, MaxKeys + 1) /\ rc = SubSeq(cs, m + 2, MaxKeys + 2)
    /\ left = Internal(lk, lc) /\ right = Internal(rk, rc)

\* The heap that a split by insert_into_internal leaves.
LEMMA SplitInternalHeap ==
  ASSUME TreeInv, SplitInternal
  PROVE  LET ks == heap[node].keys
             cs == heap[node].kids
             m == SplitPoint(MaxKeys + 1)
             r == NewNode
         IN  /\ node \in DOMAIN heap /\ r \in Node /\ r \notin DOMAIN heap
             /\ ks \in Seq(Key) /\ cs \in Seq(Node)
             /\ Len(ks) = MaxKeys + 1 /\ Len(cs) = MaxKeys + 2
             /\ ~heap[node].leaf /\ heap[node].vals = <<>>
             /\ DOMAIN heap' = DOMAIN heap \cup {r}
             /\ \A n \in DOMAIN heap : n # node => heap'[n] = heap[n]
             /\ InnerHalves(ks, cs, m, heap'[node], heap'[r])
             /\ split' = [promoted |-> ks[m + 1], right |-> r]
<1> DEFINE ks == heap[node].keys
           cs == heap[node].kids
<1>1. pc = "splitInternal" /\ Free # {}
  BY DEF SplitInternal
<1>2. PICK h, R : /\ Shape(h, R, node, Null, <<Null, 0>>) /\ Stack(h) /\ node \in DOMAIN heap
                  /\ Len(ks) = MaxKeys + 1
                  /\ heap[node].leaf <=> pc = "splitLeaf"
                  /\ NodeOK(h, R, node, node) /\ NodeFacts(node)
                  /\ KidsOK(h, R, node, Null, <<Null, 0>>)
  BY <1>1, FullNode
<1>3. PICK r : r = NewNode
  OBVIOUS
<1>4. r \in Node /\ r \notin DOMAIN heap
  BY <1>1, <1>3 DEF Free, NewNode
<1>5. PICK m : m = SplitPoint(MaxKeys + 1)
  OBVIOUS
<1>6. MaxKeys + 1 + 1 = MaxKeys + 2
  BY <1>5, SplitPointIs
<1>7. ks \in Seq(Key) /\ cs \in Seq(Node) /\ Len(cs) = MaxKeys + 2 /\ ~heap[node].leaf
      /\ heap[node].vals = <<>>
  <2>1. ~heap[node].leaf
    BY <1>1, <1>2
  <2>2. ks \in Seq(Key) /\ cs \in Seq(Node) /\ Len(cs) = Len(ks) + 1 /\ heap[node].vals = <<>>
    BY <1>2, <2>1 DEF NodeOK, NodeFacts
  <2> QED
    BY <1>2, <1>6, <2>1, <2>2
<1>8. PICK lk, lc, rk, rc :
        /\ lk = SubSeq(ks, 1, m) /\ lc = SubSeq(cs, 1, m + 1)
        /\ rk = SubSeq(ks, m + 2, MaxKeys + 1) /\ rc = SubSeq(cs, m + 2, MaxKeys + 2)
  OBVIOUS
<1>9. PICK left, right : left = Internal(lk, lc) /\ right = Internal(rk, rc)
  OBVIOUS
<1>10. heap' = Allocated([heap EXCEPT ![node] = left], r, right)
       /\ split' = [promoted |-> ks[m + 1], right |-> r]
  BY <1>2, <1>3, <1>5, <1>6, <1>8, <1>9 DEF SplitInternal, Current
<1>11. /\ DOMAIN heap' = DOMAIN heap \cup {r}
       /\ \A n \in DOMAIN heap : n # node => heap'[n] = heap[n]
       /\ heap'[node] = left /\ heap'[r] = right
  BY <1>2, <1>4, <1>10 DEF Allocated
<1>12. InnerHalves(ks, cs, m, heap'[node], heap'[r])
  <2>1. InnerHalves(ks, cs, m, left, right)
    BY <1>8, <1>9, Zenon DEF InnerHalves
  <2> QED
    BY <1>11, <2>1
<1>13. split' = [promoted |-> ks[m + 1], right |-> r]
  BY <1>10
<1>14. /\ DOMAIN heap' = DOMAIN heap \cup {r}
       /\ \A n \in DOMAIN heap : n # node => heap'[n] = heap[n]
  BY <1>11
<1>15. node \in DOMAIN heap /\ Len(ks) = MaxKeys + 1
  BY <1>2
<1> QED
  BY <1>3, <1>4, <1>5, <1>7, <1>12, <1>13, <1>14, <1>15

\* Splitting an inner node concerns no entry.
LEMMA SplitInternalBindings == ASSUME TreeInv, SplitInternal PROVE Bindings' = Bindings
<1>1. PICK r : r = NewNode
  OBVIOUS
<1>2. /\ node \in DOMAIN heap /\ r \notin DOMAIN heap /\ heap[node].vals = <<>>
      /\ DOMAIN heap' = DOMAIN heap \cup {r}
      /\ \A n \in DOMAIN heap : n # node => heap'[n] = heap[n]
  BY <1>1, SplitInternalHeap
<1>3. \E lk, lc, rk, rc : heap'[node] = Internal(lk, lc) /\ heap'[r] = Internal(rk, rc)
  BY <1>1, SplitInternalHeap DEF InnerHalves
<1>4. heap'[node].vals = <<>> /\ heap'[r].vals = <<>>
  BY <1>3 DEF Internal
<1> DEFINE E(n) == {<<heap[n].keys[i], heap[n].vals[i]>> : i \in 1..Len(heap[n].vals)}
           E2(n) == {<<heap'[n].keys[i], heap'[n].vals[i]>> : i \in 1..Len(heap'[n].vals)}
<1>5. Bindings = UNION {E(n) : n \in DOMAIN heap} /\ Bindings' = UNION {E2(n) : n \in DOMAIN heap'}
  BY DEF Bindings
<1>6. E(node) = {} /\ E2(node) = {} /\ E2(r) = {}
  BY <1>2, <1>4
<1>7. \A n \in DOMAIN heap : n # node => E2(n) = E(n)
  BY <1>2
<1> HIDE DEF E, E2
<1> QED
  BY <1>2, <1>5, <1>6, <1>7

\* The slots of the halves are the slots that the whole had.
SameLeft(A, ks, m, lk, i) ==
  \A k \in A :
    /\ k < ks[m + 1]
    /\ i > 1 => lk[i - 1] <= k
    /\ i <= Len(lk) => k < lk[i]
    <=>
    /\ i > 1 => ks[i - 1] <= k
    /\ i <= Len(ks) => k < ks[i]

SameRight(A, ks, m, rk, i, j) ==
  \A k \in A :
    /\ ks[m + 1] <= k
    /\ i > 1 => rk[i - 1] <= k
    /\ i <= Len(rk) => k < rk[i]
    <=>
    /\ j > 1 => ks[j - 1] <= k
    /\ j <= Len(ks) => k < ks[j]

\* The children of the left half own what they owned.
LEMMA LeftSlot ==
  ASSUME NEW A, A \subseteq Int, NEW ks \in Seq(Int), Ascending(ks), NEW m \in 1..(Len(ks) - 1),
         NEW lk, Left(lk, ks, m), NEW i \in 1..(m + 1)
  PROVE  SameLeft(A, ks, m, lk, i)
<1>1. Len(ks) \in Nat /\ m \in Nat /\ m + 1 \in 1..Len(ks) /\ \A j \in 1..Len(ks) : ks[j] \in Int
  OBVIOUS
<1>2. PICK pr \in Int : pr = ks[m + 1]
  BY <1>1
<1>3. i > 1 => lk[i - 1] = ks[i - 1]
  <2>1. i > 1 => i - 1 \in 1..m
    BY <1>1
  <2> QED
    BY <2>1 DEF Left
<1>4. CASE i = m + 1
  <2>1. ~(i <= Len(lk)) /\ i <= Len(ks) /\ ks[i] = pr
    <3>1. Len(lk) = m
      BY DEF Left
    <3> QED
      BY <1>1, <1>2, <1>4, <3>1
  <2>2. ASSUME NEW k \in A
        PROVE  /\ k < ks[m + 1]
               /\ i > 1 => lk[i - 1] <= k
               /\ i <= Len(lk) => k < lk[i]
               <=>
               /\ i > 1 => ks[i - 1] <= k
               /\ i <= Len(ks) => k < ks[i]
    BY <1>2, <1>3, <2>1
  <2> QED
    BY <2>2 DEF SameLeft
<1>5. CASE i \in 1..m
  <2>1. i <= Len(lk) /\ lk[i] = ks[i]
    BY <1>5 DEF Left
  <2>2. i \in 1..Len(ks) /\ i <= Len(ks) /\ i < m + 1
    BY <1>1, <1>5
  <2>3. PICK x \in Int : x = ks[i]
    BY <1>1, <2>2
  <2>4. x < pr
    BY <1>1, <1>2, <2>2, <2>3 DEF Ascending
  <2>5. ASSUME NEW k \in A, k < x PROVE k < pr
    <3>1. k \in Int
      OBVIOUS
    <3> QED
      BY <2>4, <2>5, <3>1
  <2>6. ASSUME NEW k \in A
        PROVE  /\ k < ks[m + 1]
               /\ i > 1 => lk[i - 1] <= k
               /\ i <= Len(lk) => k < lk[i]
               <=>
               /\ i > 1 => ks[i - 1] <= k
               /\ i <= Len(ks) => k < ks[i]
    <3>1. k < ks[i] => k < ks[m + 1]
      BY <1>2, <2>3, <2>5
    <3> QED
      BY <1>3, <2>1, <2>2, <3>1
  <2> QED
    BY <2>6 DEF SameLeft
<1> QED
  BY <1>1, <1>4, <1>5

\* The children of the right half own what they owned.
LEMMA RightSlot ==
  ASSUME NEW A, A \subseteq Int, NEW ks \in Seq(Int), Ascending(ks), NEW m \in 1..(Len(ks) - 1),
         NEW rk, Right(rk, ks, m + 1), NEW i \in 1..(Len(ks) - m), NEW j, j = m + 1 + i
  PROVE  SameRight(A, ks, m, rk, i, j)
<1>1. /\ Len(ks) \in Nat /\ m \in Nat /\ m + 1 \in 1..Len(ks)
      /\ i \in Nat /\ i >= 1 /\ j \in Nat /\ j > 1
  OBVIOUS
<1>2. \A n \in 1..Len(ks) : ks[n] \in Int
  OBVIOUS
<1>3. PICK pr \in Int : pr = ks[m + 1]
  BY <1>1, <1>2
<1>4. Len(rk) = Len(ks) - (m + 1) /\ \A n \in 1..(Len(ks) - (m + 1)) : rk[n] = ks[m + 1 + n]
  BY DEF Right
<1>5. (i <= Len(rk) <=> j <= Len(ks)) /\ (i <= Len(rk) => rk[i] = ks[j])
  <2>1. i <= Len(rk) <=> j <= Len(ks)
    BY <1>1, <1>4
  <2>2. i <= Len(rk) => i \in 1..(Len(ks) - (m + 1))
    BY <1>1, <1>4
  <2> QED
    BY <1>4, <2>1, <2>2
<1>6. ASSUME NEW k \in A PROVE (pr <= k /\ (i > 1 => rk[i - 1] <= k)) <=> ks[j - 1] <= k
  <2>1. k \in Int
    OBVIOUS
  <2>2. CASE i = 1
    <3>1. j - 1 = m + 1
      BY <1>1, <2>2
    <3>2. ks[j - 1] = pr
      BY <1>3, <3>1
    <3> QED
      BY <2>2, <3>2
  <2>3. CASE i > 1
    <3>1. i - 1 \in 1..(Len(ks) - (m + 1)) /\ m + 1 + (i - 1) = j - 1
      BY <1>1, <2>3
    <3>2. rk[i - 1] = ks[j - 1]
      <4>1. rk[i - 1] = ks[m + 1 + (i - 1)]
        BY <1>4, <3>1
      <4> QED
        BY <3>1, <4>1
    <3>3. j - 1 \in 1..Len(ks) /\ m + 1 < j - 1
      BY <1>1, <2>3
    <3>4. PICK x \in Int : x = ks[j - 1]
      BY <1>2, <3>3
    <3>5. pr < x
      BY <1>1, <1>3, <3>3, <3>4 DEF Ascending
    <3>6. x <= k => pr <= k
      BY <2>1, <3>5
    <3> QED
      BY <2>3, <3>2, <3>4, <3>6
  <2> QED
    BY <1>1, <2>2, <2>3
<1>7. ASSUME NEW k \in A
      PROVE  /\ ks[m + 1] <= k
             /\ i > 1 => rk[i - 1] <= k
             /\ i <= Len(rk) => k < rk[i]
             <=>
             /\ j > 1 => ks[j - 1] <= k
             /\ j <= Len(ks) => k < ks[j]
  BY <1>1, <1>3, <1>5, <1>6
<1> QED
  BY <1>7 DEF SameRight

\* The children of both halves own the slots they had.
LEMMA HalvesKids ==
  ASSUME NEW h, NEW R, NEW h2, NEW R2, NEW l, NEW r, NEW pr, Splits(h, R, h2, R2, l, r, pr),
         KidsOK(h, R, l, Null, <<Null, 0>>),
         NEW ks \in Seq(Int), NEW cs \in Seq(Node), Ascending(ks),
         ks = heap[l].keys, cs = heap[l].kids, Len(cs) = Len(ks) + 1,
         NEW m \in 1..(Len(ks) - 1), pr = ks[m + 1],
         NEW lk, NEW lc, NEW rk, NEW rc,
         Left(lk, ks, m), Left(lc, cs, m + 1), Right(rk, ks, m + 1), Right(rc, cs, m + 1),
         heap'[l].keys = lk, heap'[l].kids = lc, heap'[r].keys = rk, heap'[r].kids = rc,
         NEW link, LinkTo(link, l)
  PROVE  KidsOK(h2, R2, l, r, link)' /\ KidsOK(h2, R2, r, r, link)'
<1>1. Len(ks) \in Nat /\ m \in Nat /\ m + 1 \in 1..Len(ks) /\ \A i \in 1..Len(ks) : ks[i] \in Int
  BY SMTT(30)
<1>2. /\ l \in DOMAIN heap /\ r \notin DOMAIN heap /\ DOMAIN heap' = DOMAIN heap \cup {r}
      /\ Shape(h, R, l, Null, <<Null, 0>>) /\ pr \in Int
  BY DEF Splits
<1>3. /\ h2[r] = h[l] /\ h2[l] = h[l] /\ r # l /\ l # Null
      /\ R2[r] = {k \in R[l] : pr <= k} /\ R2[l] = {k \in R[l] : k < pr}
      /\ \A n \in DOMAIN heap : h2[n] = h[n]
      /\ \A n \in DOMAIN heap : n # l => R2[n] = R[n]
  <2>1. Regions(h, R, h2, R2, l, r, pr)
    BY RegionsOfSplit
  <2> QED
    BY <2>1 DEF Regions
<1>4. ASSUME NEW i \in 1..Len(cs)
      PROVE  /\ cs[i] \in DOMAIN heap /\ h[l] = h[cs[i]] + 1 /\ Slot(R, l, i) = R[cs[i]]
             /\ cs[i] # l /\ h2[cs[i]] = h[cs[i]] /\ R2[cs[i]] = R[cs[i]]
  <2>1. cs[i] \in DOMAIN heap /\ h[l] = h[cs[i]] + 1 /\ Slot(R, l, i) = R[cs[i]]
    <3>1. i \in 1..Len(heap[l].kids) /\ heap[l].kids[i] = cs[i] /\ <<Null, 0>> # <<l, i>>
      BY <1>3
    <3>2. /\ heap[l].kids[i] \in DOMAIN heap /\ h[l] = h[heap[l].kids[i]] + 1
          /\ Slot(R, l, i) = R[heap[l].kids[i]]
      BY <3>1 DEF KidsOK
    <3> QED
      BY <3>1, <3>2, Zenon
  <2>2. h[cs[i]] \in Nat /\ h[l] \in Nat
    BY <1>2, <2>1, TreeFacts
  <2>3. cs[i] # l
    BY <2>1, <2>2, SMTT(30)
  <2> QED
    BY <1>3, <2>1, <2>3
<1>5. \A i : link # <<l, i>> /\ link # <<r, i>>
  <2>1. ASSUME NEW q \in DOMAIN heap, NEW j \in 1..Len(heap[q].kids), heap[q].kids[j] = l
        PROVE  q # l /\ q # r
    <3>1. KidsOK(h, R, q, Null, <<Null, 0>>) /\ h[l] \in Nat
      BY <1>2, TreeFacts
    <3>2. h[q] = h[l] + 1
      BY <2>1, <3>1 DEF KidsOK
    <3>3. h[q] # h[l]
      BY <3>1, <3>2
    <3> QED
      BY <1>2, <3>3
  <2>2. r # Null
    BY SplitRegions
  <2> QED
    BY <1>3, <2>1, <2>2 DEF LinkTo
<1>6. R[l] \subseteq Int
  BY <1>2, TreeFacts, TreeAssumption
<1>7. KidsOK(h2, R2, l, r, link)'
  <2>1. ASSUME NEW i \in 1..Len(lc)
        PROVE  lc[i] \in DOMAIN heap' /\ h2[l] = h2[lc[i]] + 1 /\ Slot(R2, l, i)' = R2[lc[i]]
    <3>1. i \in 1..(m + 1) /\ i \in 1..Len(cs) /\ lc[i] = cs[i]
      <4>1. i \in 1..(m + 1)
        BY DEF Left
      <4>2. i \in 1..Len(cs)
        BY <1>1, <4>1
      <4> QED
        BY <4>1, <4>2 DEF Left
    <3>2. lc[i] \in DOMAIN heap /\ h2[l] = h2[lc[i]] + 1 /\ R2[lc[i]] = Slot(R, l, i)
      <4>1. PICK c : c = cs[i]
        OBVIOUS
      <4>2. c \in DOMAIN heap /\ h[l] = h[c] + 1 /\ Slot(R, l, i) = R[c] /\ h2[c] = h[c] /\ R2[c] = R[c]
        BY <1>4, <3>1, <4>1
      <4>3. c \in DOMAIN heap /\ h2[l] = h2[c] + 1 /\ R2[c] = Slot(R, l, i)
        BY <1>3, <4>2
      <4> QED
        BY <3>1, <4>1, <4>3
    <3>3. Slot(R2, l, i)' = {k \in R2[l] : /\ i > 1 => lk[i - 1] <= k
                                           /\ i <= Len(lk) => k < lk[i]}
      BY DEF Slot
    <3>4. Slot(R, l, i) = {k \in R[l] : /\ i > 1 => ks[i - 1] <= k
                                        /\ i <= Len(ks) => k < ks[i]}
      BY DEF Slot
    <3>5. R2[l] = {k \in R[l] : k < ks[m + 1]}
      BY <1>3
    <3>6. SameLeft(R[l], ks, m, lk, i)
      BY <1>6, <3>1, LeftSlot
    <3>7. Slot(R2, l, i)' = Slot(R, l, i)
      BY <3>3, <3>4, <3>5, <3>6 DEF SameLeft
    <3> QED
      BY <1>2, <3>2, <3>7
  <2> QED
    BY <1>5, <2>1 DEF KidsOK
<1>8. KidsOK(h2, R2, r, r, link)'
  <2>1. ASSUME NEW i \in 1..Len(rc)
        PROVE  rc[i] \in DOMAIN heap' /\ h2[r] = h2[rc[i]] + 1 /\ Slot(R2, r, i)' = R2[rc[i]]
    <3>0. PICK j : j = m + 1 + i
      OBVIOUS
    <3>1. /\ i \in 1..(Len(ks) - m) /\ j \in 1..Len(cs) /\ rc[i] = cs[j]
          /\ i \in Nat /\ j \in Nat /\ i >= 1 /\ j > 1
      <4>1. i \in 1..(Len(cs) - (m + 1)) /\ rc[i] = cs[m + 1 + i]
        BY DEF Right
      <4>2. Len(cs) - (m + 1) = Len(ks) - m
        BY <1>1
      <4> QED
        BY <1>1, <3>0, <4>1, <4>2, SMTT(30)
    <3>2. rc[i] \in DOMAIN heap /\ h2[r] = h2[rc[i]] + 1 /\ R2[rc[i]] = Slot(R, l, j)
      <4>1. PICK c : c = cs[j]
        OBVIOUS
      <4>2. c \in DOMAIN heap /\ h[l] = h[c] + 1 /\ Slot(R, l, j) = R[c] /\ h2[c] = h[c] /\ R2[c] = R[c]
        BY <1>4, <3>1, <4>1
      <4>3. c \in DOMAIN heap /\ h2[r] = h2[c] + 1 /\ R2[c] = Slot(R, l, j)
        BY <1>3, <4>2
      <4> QED
        BY <3>1, <4>1, <4>3
    <3>3. Slot(R2, r, i)' = {k \in R2[r] : /\ i > 1 => rk[i - 1] <= k
                                           /\ i <= Len(rk) => k < rk[i]}
      BY DEF Slot
    <3>4. Slot(R, l, j) = {k \in R[l] : /\ j > 1 => ks[j - 1] <= k
                                        /\ j <= Len(ks) => k < ks[j]}
      BY DEF Slot
    <3>5. R2[r] = {k \in R[l] : ks[m + 1] <= k}
      BY <1>3
    <3>6. SameRight(R[l], ks, m, rk, i, j)
      BY <1>6, <3>0, <3>1, RightSlot
    <3>7. Slot(R2, r, i)' = Slot(R, l, j)
      BY <3>3, <3>4, <3>5, <3>6 DEF SameRight
    <3> QED
      BY <1>2, <3>2, <3>7
  <2> QED
    BY <1>5, <2>1 DEF KidsOK
<1> QED
  BY <1>7, <1>8

\* The child at i is in one of the halves.
LEMMA HalvesHold ==
  ASSUME NEW S, NEW s \in Seq(S), NEW m \in 1..Len(s), NEW t, NEW u,
         Left(t, s, m), Right(u, s, m), NEW i \in 1..Len(s)
  PROVE  (\E j \in 1..Len(t) : t[j] = s[i]) \/ (\E j \in 1..Len(u) : u[j] = s[i])
<1>1. Len(s) \in Nat
  OBVIOUS
<1>2. CASE i <= m
  <2>1. i \in 1..m
    BY <1>1, <1>2
  <2> QED
    BY <2>1 DEF Left
<1>3. CASE i > m
  <2>1. PICK j : j = i - m
    OBVIOUS
  <2>2. j \in 1..(Len(s) - m) /\ m + j = i
    BY <1>1, <1>3, <2>1
  <2>3. Len(u) = Len(s) - m /\ u[j] = s[m + j]
    BY <2>2 DEF Right
  <2>4. j \in 1..Len(u) /\ u[j] = s[i]
    BY <2>2, <2>3
  <2> QED
    BY <2>4
<1> QED
  BY <1>1, <1>2, <1>3

\* Splitting an inner node keeps the invariant.
LEMMA SplitInternalKeeps == ASSUME TreeInv, SplitInternal PROVE TreeInv'
<1>1. /\ pc = "splitInternal" /\ pc' = "absorb" /\ Free # {}
      /\ UNCHANGED <<root, args, node, path, damaged>>
      /\ node' = node /\ path' = path /\ root' = root
  BY DEF SplitInternal
<1>2. PICK h, R : /\ Shape(h, R, node, Null, <<Null, 0>>) /\ Stack(h) /\ node \in DOMAIN heap
                  /\ Len(heap[node].keys) = MaxKeys + 1
                  /\ heap[node].leaf <=> pc = "splitLeaf"
                  /\ NodeOK(h, R, node, node) /\ NodeFacts(node)
                  /\ KidsOK(h, R, node, Null, <<Null, 0>>)
  BY <1>1, FullNode
<1>3. PICK m : m = SplitPoint(MaxKeys + 1)
  OBVIOUS
<1>4. PICK r : r = NewNode
  OBVIOUS
<1>5. PICK l \in DOMAIN heap : l = node
  BY <1>2
<1>6. PICK ks : ks = heap[l].keys
  OBVIOUS
<1>7. PICK cs : cs = heap[l].kids
  OBVIOUS
<1>8. /\ r \in Node /\ r \notin DOMAIN heap
      /\ ks \in Seq(Key) /\ cs \in Seq(Node)
      /\ Len(ks) = MaxKeys + 1 /\ Len(cs) = MaxKeys + 2
      /\ ~heap[l].leaf
      /\ DOMAIN heap' = DOMAIN heap \cup {r}
      /\ \A n \in DOMAIN heap : n # l => heap'[n] = heap[n]
      /\ split' = [promoted |-> ks[m + 1], right |-> r]
  BY <1>3, <1>4, <1>5, <1>6, <1>7, SplitInternalHeap
<1>9. PICK lk, lc, rk, rc :
        /\ lk = SubSeq(ks, 1, m) /\ lc = SubSeq(cs, 1, m + 1)
        /\ rk = SubSeq(ks, m + 2, MaxKeys + 1) /\ rc = SubSeq(cs, m + 2, MaxKeys + 2)
        /\ heap'[l] = Internal(lk, lc)
        /\ heap'[r] = Internal(rk, rc)
  <2>1. InnerHalves(ks, cs, m, heap'[l], heap'[r])
    BY <1>3, <1>4, <1>5, <1>6, <1>7, SplitInternalHeap
  <2> QED
    BY <2>1 DEF InnerHalves
<1>10. /\ m \in Nat /\ MaxKeys \in Nat /\ m \in 1..MaxKeys
       /\ m \in 1..(MaxKeys + 1) /\ m + 1 \in 1..(MaxKeys + 1) /\ m + 1 \in 1..(MaxKeys + 2)
       /\ (MaxKeys + 1) \div 2 = m /\ m >= MaxKeys - m /\ MaxKeys - m >= 1
       /\ m + 1 + 1 = m + 2 /\ MaxKeys + 1 + 1 = MaxKeys + 2
  BY <1>3, SplitPointIs
<1>11. Left(lk, ks, m) /\ lk \in Seq(Key)
  BY <1>8, <1>9, <1>10, HalvesAre
<1>12. Right(rk, ks, m + 1) /\ rk \in Seq(Key)
  <2>1. rk = SubSeq(ks, (m + 1) + 1, MaxKeys + 1)
    BY <1>9, <1>10
  <2>2. PICK m1 : m1 = m + 1
    OBVIOUS
  <2>3. rk = SubSeq(ks, m1 + 1, MaxKeys + 1) /\ m1 \in 1..(MaxKeys + 1)
    BY <1>10, <2>1, <2>2
  <2>4. Right(rk, ks, m1) /\ rk \in Seq(Key)
    BY <1>8, <2>3, HalvesAre
  <2> QED
    BY <2>2, <2>4
<1>13. Left(lc, cs, m + 1) /\ lc \in Seq(Node) /\ Right(rc, cs, m + 1) /\ rc \in Seq(Node)
  <2>2. PICK m1 : m1 = m + 1
    OBVIOUS
  <2>3. /\ lc = SubSeq(cs, 1, m1) /\ rc = SubSeq(cs, m1 + 1, MaxKeys + 2)
        /\ m1 \in 1..(MaxKeys + 2)
    BY <1>9, <1>10, <2>2
  <2>4. Left(lc, cs, m1) /\ lc \in Seq(Node) /\ Right(rc, cs, m1) /\ rc \in Seq(Node)
    BY <1>8, <2>3, HalvesAre
  <2> QED
    BY <2>2, <2>4
<1>14. /\ Len(lk) = m /\ Len(rk) = MaxKeys - m /\ Len(lc) = m + 1 /\ Len(rc) = MaxKeys + 1 - m
  <2>1. Len(lk) = m /\ Len(lc) = m + 1 /\ Len(rk) = Len(ks) - (m + 1) /\ Len(rc) = Len(cs) - (m + 1)
    BY <1>11, <1>12, <1>13 DEF Left, Right
  <2>2. Len(rk) = MaxKeys - m
    BY <1>8, <1>10, <2>1
  <2>3. Len(rc) = MaxKeys + 1 - m
    BY <1>8, <1>10, <2>1
  <2> QED
    BY <2>1, <2>2, <2>3
<1>15. ks \in Seq(Int) /\ Ascending(ks) /\ \A j \in 1..Len(ks) : ks[j] \in R[l]
  BY <1>2, <1>5, <1>6 DEF NodeOK, NodeFacts
<1>16. PICK pr : pr = ks[m + 1]
  OBVIOUS
<1>17. pr \in R[l] /\ pr \in Key /\ pr \in Int
  <2>1. m + 1 \in 1..Len(ks)
    BY <1>8, <1>10
  <2> QED
    BY <1>8, <1>15, <1>16, <2>1, KeysAreIntegers
<1>18. m \in 1..(Len(ks) - 1) /\ Len(ks) \in Nat /\ Len(cs) = Len(ks) + 1
  BY <1>8, <1>10
<1>19. Ascending(lk) /\ Ascending(rk)
  <2>1. Ascending(lk)
    <3>1. PICK a \in Nat : a = 1
      OBVIOUS
    <3>2. 1 <= a /\ m <= Len(ks) /\ a <= m + 1
      BY <1>8, <1>10, <3>1
    <3>3. lk = SubSeq(ks, a, m)
      BY <1>9, <3>1
    <3> QED
      BY <1>10, <1>15, <3>2, <3>3, PartAscends
  <2>2. Ascending(rk)
    <3>1. PICK a \in Nat : a = m + 2
      BY <1>10
    <3>2. PICK b \in Nat : b = MaxKeys + 1
      BY <1>10
    <3>3. 1 <= a /\ b <= Len(ks) /\ a <= b + 1
      BY <1>8, <1>10, <3>1, <3>2
    <3>4. rk = SubSeq(ks, a, b)
      BY <1>9, <3>1, <3>2
    <3> QED
      BY <1>15, <3>3, <3>4, PartAscends
  <2> QED
    BY <2>1, <2>2
<1>20. \A j \in 1..Len(lk) : lk[j] \in R[l] /\ lk[j] < pr
  <2>1. ASSUME NEW j \in 1..Len(lk) PROVE lk[j] \in R[l] /\ lk[j] < pr
    <3>1. j \in 1..m /\ j \in 1..Len(ks) /\ j < m + 1 /\ m + 1 \in 1..Len(ks)
      BY <1>8, <1>10, <1>14
    <3>2. lk[j] = ks[j]
      BY <1>11, <3>1 DEF Left
    <3> QED
      BY <1>15, <1>16, <3>1, <3>2 DEF Ascending
  <2> QED
    BY <2>1
<1>21. \A j \in 1..Len(rk) : rk[j] \in R[l] /\ pr <= rk[j]
  <2>1. ASSUME NEW j \in 1..Len(rk) PROVE rk[j] \in R[l] /\ pr <= rk[j]
    <3>1. j \in 1..(MaxKeys - m) /\ Len(ks) - (m + 1) = MaxKeys - m
      BY <1>8, <1>10, <1>14
    <3>2. m + 1 + j \in 1..Len(ks) /\ m + 1 < m + 1 + j /\ m + 1 \in 1..Len(ks)
      BY <1>8, <1>10, <3>1
    <3>3. rk[j] = ks[m + 1 + j]
      BY <1>12, <3>1 DEF Right
    <3>4. pr < ks[m + 1 + j]
      BY <1>15, <1>16, <3>2 DEF Ascending
    <3>5. PICK x \in Int : x = ks[m + 1 + j]
      BY <1>8, <3>2, KeysAreIntegers
    <3>6. pr <= x
      BY <1>17, <3>4, <3>5
    <3> QED
      BY <1>15, <3>2, <3>3, <3>5, <3>6
  <2> QED
    BY <2>1
<1>22. PICK h2 : h2 = [n \in DOMAIN heap \cup {r} |-> IF n = r THEN h[l] ELSE h[n]]
  OBVIOUS
<1>23. PICK R2 : R2 = [n \in DOMAIN heap \cup {r} |->
             IF n = r THEN {k \in R[l] : pr <= k}
             ELSE IF n = l THEN {k \in R[l] : k < pr} ELSE R[n]]
  OBVIOUS
<1>24. Splits(h, R, h2, R2, l, r, pr)
  BY <1>1, <1>2, <1>5, <1>8, <1>17, <1>22, <1>23 DEF Splits
<1>25. /\ h2[r] = h[l] /\ h2[l] = h[l] /\ r # l /\ l # Null /\ r # Null
       /\ R2[r] = {k \in R[l] : pr <= k} /\ R2[l] = {k \in R[l] : k < pr}
  BY <1>24, SplitRegions
<1>26. /\ heap'[l].leaf = FALSE /\ heap'[l].keys = lk /\ heap'[l].vals = <<>> /\ heap'[l].kids = lc
       /\ heap'[l].next = Null
  <2>1. heap'[l] = Internal(lk, lc)
    BY <1>9
  <2> QED
    BY <2>1 DEF Internal
<1>27. /\ heap'[r].leaf = FALSE /\ heap'[r].keys = rk /\ heap'[r].vals = <<>> /\ heap'[r].kids = rc
       /\ heap'[r].next = Null
  <2>1. heap'[r] = Internal(rk, rc)
    BY <1>9
  <2> QED
    BY <2>1 DEF Internal
<1>28. heap[l].leaf = FALSE /\ h[l] > 0
  <2>1. heap[l].leaf \in BOOLEAN
    BY <1>2, <1>5 DEF NodeFacts
  <2>2. h[l] > 0
    BY <1>2, <1>5, <1>8 DEF NodeOK
  <2> QED
    BY <1>8, <2>1, <2>2
<1>29. <<>> \in Seq(Value)
  OBVIOUS
<1>30. Half(l)' = MaxKeys - m /\ Half(r)' = MaxKeys - m
  BY <1>10, <1>26, <1>27 DEF Half
<1>31. NodeOK(h2, R2, l, Null)'
  <2>1. heap'[l] \in NodeRecord
    <3>1. heap'[l] = Internal(lk, lc)
      BY <1>9
    <3> QED
      BY <1>11, <1>13, <1>29, <3>1 DEF Internal, NodeRecord
  <2>2. Len(lk) >= 1 /\ Len(lk) >= Half(l)' /\ Len(lk) <= MaxKeys
    BY <1>10, <1>14, <1>30
  <2>3. \A j \in 1..Len(lk) : lk[j] \in R2[l]
    BY <1>20, <1>25
  <2>4. Len(lc) = Len(lk) + 1 /\ h2[l] > 0
    BY <1>14, <1>25, <1>28
  <2> QED
    BY <1>19, <1>25, <1>26, <2>1, <2>2, <2>3, <2>4 DEF NodeOK
<1>32. NodeOK(h2, R2, r, Null)'
  <2>1. heap'[r] \in NodeRecord
    <3>1. heap'[r] = Internal(rk, rc)
      BY <1>9
    <3> QED
      BY <1>12, <1>13, <1>29, <3>1 DEF Internal, NodeRecord
  <2>2. Len(rk) >= 1 /\ Len(rk) >= Half(r)' /\ Len(rk) <= MaxKeys
    BY <1>10, <1>14, <1>30
  <2>3. \A j \in 1..Len(rk) : rk[j] \in R2[r]
    BY <1>21, <1>25
  <2>4. Len(rc) = Len(rk) + 1
    BY <1>10, <1>14
  <2>5. h2[r] > 0
    BY <1>25, <1>28
  <2> QED
    BY <1>19, <1>25, <1>27, <2>1, <2>2, <2>3, <2>4, <2>5 DEF NodeOK
<1>33. PICK link : link = OpenLink'
  OBVIOUS
<1>34. LinkTo(link, l)
  <2>1. link = IF path # <<>> THEN <<path[Len(path)].node, path[Len(path)].child>> ELSE <<Null, 0>>
    BY <1>1, <1>33 DEF OpenLink
  <2> QED
    BY <1>2, <1>5, <2>1, LinkOnPath
<1>35. KidsOK(h2, R2, l, r, link)' /\ KidsOK(h2, R2, r, r, link)'
  <2>1. KidsOK(h, R, l, Null, <<Null, 0>>)
    BY <1>2, <1>5
  <2> QED
    BY <1>6, <1>7, <1>8, <1>11, <1>12, <1>13, <1>15, <1>16, <1>18, <1>24, <1>26, <1>27, <1>34,
       <2>1, HalvesKids
<1>36. \A n \in DOMAIN heap' : heap'[n].leaf => NextOK(R2, n)'
  BY <1>24, <1>26, <1>27, <1>28, SplitNextInner
<1>37. \A i \in 1..Len(heap[l].kids) :
         \E p \in {l, r} : \E j \in 1..Len(heap'[p].kids) : heap'[p].kids[j] = heap[l].kids[i]
  <2>1. m + 1 \in 1..Len(cs)
    BY <1>8, <1>10
  <2>2. ASSUME NEW i \in 1..Len(cs)
        PROVE  \E p \in {l, r} : \E j \in 1..Len(heap'[p].kids) : heap'[p].kids[j] = cs[i]
    <3>1. (\E j \in 1..Len(lc) : lc[j] = cs[i]) \/ (\E j \in 1..Len(rc) : rc[j] = cs[i])
      BY <1>8, <1>13, <2>1, HalvesHold
    <3> QED
      BY <1>26, <1>27, <3>1
  <2> QED
    BY <1>7, <2>2
<1>38. Shape(h2, R2, Null, r, link)'
  BY <1>24, <1>31, <1>32, <1>34, <1>35, <1>36, <1>37, SplitShape
<1>39. <<key, value>> \in Bindings'
  BY <1>1, SplitInternalBindings DEF TreeInv, CallOK, Splitting
<1>40. Len(heap'[l].keys) >= Half(l)'
  BY <1>10, <1>14, <1>26, <1>30
<1>41. pr \in R2[r] /\ split' = [promoted |-> pr, right |-> r]
  BY <1>8, <1>16, <1>17, <1>25
<1> QED
  BY <1>1, <1>2, <1>5, <1>17, <1>24, <1>33, <1>38, <1>39, <1>40, <1>41, SplitTree

-----------------------------------------------------------------------------
(* insert_into_internal, after its recursive call split the child.         *)

\* The child c of p, which is l, was split, and r and pr are handed to p.
Promoted(R, p, c, l, r, pr, ks) ==
  /\ pr \in Int /\ ks \in Seq(Int) /\ ks = heap[p].keys /\ Ascending(ks)
  /\ c \in 1..(Len(ks) + 1) /\ R[p] \subseteq Int /\ R[l] # {}
  /\ Slot(R, p, c) = R[l] \cup R[r] /\ pr \in R[r]
  /\ \A k \in R[l] : k < pr
  /\ \A k \in R[r] : pr <= k

\* The key that is handed up lies between the separators beside the child.
LEMMA PromotedFits ==
  ASSUME NEW R, NEW p, NEW c, NEW l, NEW r, NEW pr, NEW ks, Promoted(R, p, c, l, r, pr, ks)
  PROVE  /\ pr \in R[p]
         /\ \A j \in 1..(c - 1) : ks[j] < pr
         /\ \A j \in c..Len(ks) : pr < ks[j]
<1>0. /\ pr \in Int /\ ks \in Seq(Int) /\ ks = heap[p].keys /\ Ascending(ks)
      /\ c \in 1..(Len(ks) + 1) /\ R[p] \subseteq Int /\ R[l] # {}
      /\ Slot(R, p, c) = R[l] \cup R[r] /\ pr \in R[r]
      /\ \A k \in R[l] : k < pr
      /\ \A k \in R[r] : pr <= k
  BY DEF Promoted
<1>1. Len(ks) \in Nat /\ \A j \in 1..Len(ks) : ks[j] \in Int
  BY <1>0
<1>2. pr \in Slot(R, p, c)
  BY <1>0
<1>3. pr \in R[p] /\ (c <= Len(ks) => pr < ks[c])
  BY <1>0, <1>2 DEF Slot
<1>4. PICK k : k \in R[l]
  BY <1>0
<1>5. k \in Slot(R, p, c) /\ k < pr
  BY <1>0, <1>4
<1>6. k \in Int /\ (c > 1 => ks[c - 1] <= k)
  BY <1>0, <1>5 DEF Slot
<1>7. ASSUME NEW j \in 1..(c - 1) PROVE ks[j] < pr
  <2>1. j \in 1..Len(ks) /\ c - 1 \in 1..Len(ks) /\ c > 1 /\ (j < c - 1 \/ j = c - 1)
    BY <1>0, <1>1
  <2>2. PICK x \in Int : x = ks[c - 1]
    BY <1>0, <1>1, <2>1
  <2>3. PICK y \in Int : y = ks[j]
    BY <1>0, <1>1, <2>1
  <2>4. x <= k
    BY <1>0, <1>6, <2>1, <2>2
  <2>5. x < pr
    BY <1>0, <1>5, <1>6, <2>4
  <2>6. y < x \/ y = x
    BY <1>0, <2>1, <2>2, <2>3 DEF Ascending
  <2>7. y < pr
    BY <1>0, <2>5, <2>6
  <2> QED
    BY <1>0, <2>3, <2>7
<1>8. ASSUME NEW j \in c..Len(ks) PROVE pr < ks[j]
  <2>1. j \in 1..Len(ks) /\ c \in 1..Len(ks) /\ c <= Len(ks) /\ (c < j \/ j = c)
    BY <1>0, <1>1
  <2>2. PICK x \in Int : x = ks[c]
    BY <1>0, <1>1, <2>1
  <2>3. PICK y \in Int : y = ks[j]
    BY <1>0, <1>1, <2>1
  <2>4. pr < x
    BY <1>0, <1>3, <2>1, <2>2
  <2>5. x < y \/ y = x
    BY <1>0, <2>1, <2>2, <2>3 DEF Ascending
  <2>6. pr < y
    BY <1>0, <2>4, <2>5
  <2> QED
    BY <1>0, <2>3, <2>6
<1> QED
  BY <1>0, <1>3, <1>7, <1>8

\* The slots of the parent: the child's is shared, the others are the same.
LEMMA AbsorbSlots ==
  ASSUME NEW R, NEW p, NEW c, NEW l, NEW r, NEW pr, NEW ks, Promoted(R, p, c, l, r, pr, ks),
         NEW t, Grown(t, ks, c, pr), heap'[p].keys = t
  PROVE  /\ Slot(R, p, c)' = R[l]
         /\ Slot(R, p, c + 1)' = R[r]
         /\ \A i \in 1..(c - 1) : Slot(R, p, i)' = Slot(R, p, i)
         /\ \A i \in (c + 2)..(Len(ks) + 2) : Slot(R, p, i)' = Slot(R, p, i - 1)
<1>0. /\ pr \in Int /\ ks \in Seq(Int) /\ ks = heap[p].keys /\ Ascending(ks)
      /\ c \in 1..(Len(ks) + 1) /\ R[p] \subseteq Int /\ R[l] # {}
      /\ Slot(R, p, c) = R[l] \cup R[r] /\ pr \in R[r]
      /\ \A k \in R[l] : k < pr
      /\ \A k \in R[r] : pr <= k
  BY DEF Promoted
<1>1. Len(ks) \in Nat /\ \A j \in 1..Len(ks) : ks[j] \in Int
  BY <1>0
<1>2. c \in Nat /\ c >= 1
  BY <1>0, <1>1
<1>3. /\ pr \in R[p]
      /\ \A j \in 1..(c - 1) : ks[j] < pr
      /\ \A j \in c..Len(ks) : pr < ks[j]
  BY PromotedFits
<1>4. /\ Len(t) = Len(ks) + 1 /\ t[c] = pr
      /\ \A j \in 1..(c - 1) : t[j] = ks[j]
      /\ \A j \in (c + 1)..(Len(ks) + 1) : t[j] = ks[j - 1]
  BY DEF Grown
<1>5. \A i : Slot(R, p, i)' = {k \in R[p] : /\ i > 1 => t[i - 1] <= k
                                            /\ i <= Len(t) => k < t[i]}
  BY DEF Slot
<1>6. \A i : Slot(R, p, i) = {k \in R[p] : /\ i > 1 => ks[i - 1] <= k
                                           /\ i <= Len(ks) => k < ks[i]}
  BY <1>0 DEF Slot
<1>7. R[l] \subseteq Slot(R, p, c) /\ R[r] \subseteq Slot(R, p, c)
  BY <1>0
<1>8. c > 1 => t[c - 1] = ks[c - 1] /\ ks[c - 1] \in Int /\ ks[c - 1] < pr
  <2>1. c > 1 => c - 1 \in 1..(c - 1) /\ c - 1 \in 1..Len(ks)
    BY <1>0, <1>1, <1>2
  <2> QED
    BY <1>0, <1>1, <1>3, <1>4, <2>1
<1>9. c <= Len(ks) => t[c + 1] = ks[c] /\ ks[c] \in Int /\ pr < ks[c]
  <2>1. c <= Len(ks) => c + 1 \in (c + 1)..(Len(ks) + 1) /\ c \in 1..Len(ks) /\ c \in c..Len(ks)
                        /\ c + 1 - 1 = c
    BY <1>0, <1>1, <1>2
  <2> QED
    BY <1>0, <1>1, <1>3, <1>4, <2>1
<1>10. Slot(R, p, c)' = R[l]
  <2>1. c <= Len(t)
    BY <1>0, <1>1, <1>2, <1>4
  <2>2. Slot(R, p, c)' = {k \in R[p] : (c > 1 => t[c - 1] <= k) /\ k < pr}
    BY <1>0, <1>4, <1>5, <2>1
  <2>3. ASSUME NEW k \in R[p] PROVE (c > 1 => t[c - 1] <= k) /\ k < pr <=> k \in R[l]
    <3>1. k \in Int
      BY <1>0
    <3>2. k \in Slot(R, p, c) => k \in R[l] \/ k \in R[r]
      BY <1>0
    <3>3. k \in R[r] => ~(k < pr)
      <4>1. k \in R[r] => pr <= k
        BY <1>0
      <4> QED
        BY <1>0, <3>1, <4>1
    <3>4. k < pr /\ c <= Len(ks) => k < ks[c]
      BY <1>0, <1>9, <3>1
    <3>5. (c > 1 => t[c - 1] <= k) /\ k < pr => k \in Slot(R, p, c)
      BY <1>0, <1>6, <1>8, <3>4
    <3>6. k \in R[l] => k < pr
      BY <1>0
    <3>7. k \in R[l] => (c > 1 => t[c - 1] <= k)
      BY <1>0, <1>6, <1>7, <1>8
    <3> QED
      BY <1>0, <3>2, <3>3, <3>5, <3>6, <3>7
  <2>4. R[l] \subseteq R[p]
    BY <1>0, <1>6, <1>7
  <2> QED
    BY <1>0, <2>2, <2>3, <2>4
<1>11. Slot(R, p, c + 1)' = R[r]
  <2>1. (c + 1 <= Len(t) <=> c <= Len(ks)) /\ c + 1 > 1 /\ c + 1 - 1 = c
    BY <1>0, <1>1, <1>2, <1>4
  <2>2. Slot(R, p, c + 1)' = {k \in R[p] : pr <= k /\ (c <= Len(ks) => k < ks[c])}
    BY <1>0, <1>4, <1>5, <1>9, <2>1, SMTT(30)
  <2>3. ASSUME NEW k \in R[p] PROVE pr <= k /\ (c <= Len(ks) => k < ks[c]) <=> k \in R[r]
    <3>1. k \in Int
      BY <1>0
    <3>2. k \in Slot(R, p, c) => k \in R[l] \/ k \in R[r]
      BY <1>0
    <3>3. k \in R[l] => ~(pr <= k)
      <4>1. k \in R[l] => k < pr
        BY <1>0
      <4> QED
        BY <1>0, <3>1, <4>1
    <3>4. pr <= k /\ c > 1 => ks[c - 1] <= k
      <4>1. c > 1 => ks[c - 1] < pr /\ ks[c - 1] \in Int
        BY <1>0, <1>8
      <4> QED
        BY <1>0, <3>1, <4>1
    <3>5. pr <= k /\ (c <= Len(ks) => k < ks[c]) => k \in Slot(R, p, c)
      BY <1>0, <1>6, <3>4
    <3>6. k \in R[r] => pr <= k
      BY <1>0
    <3>7. k \in R[r] => (c <= Len(ks) => k < ks[c])
      BY <1>0, <1>6, <1>7
    <3> QED
      BY <1>0, <3>2, <3>3, <3>5, <3>6, <3>7
  <2>4. R[r] \subseteq R[p]
    BY <1>0, <1>6, <1>7
  <2> QED
    BY <1>0, <2>2, <2>3, <2>4
<1>12. ASSUME NEW i \in 1..(c - 1) PROVE Slot(R, p, i)' = Slot(R, p, i)
  <2>1. i <= Len(t) /\ i <= Len(ks)
    BY <1>0, <1>1, <1>2, <1>4
  <2>2. t[i] = ks[i] /\ (i > 1 => t[i - 1] = ks[i - 1])
    <3>1. i > 1 => i - 1 \in 1..(c - 1)
      BY <1>0, <1>2
    <3> QED
      BY <1>0, <1>4, <3>1
  <2>3. ASSUME NEW k \in R[p]
        PROVE  (i > 1 => t[i - 1] <= k) /\ (i <= Len(t) => k < t[i])
                 <=> (i > 1 => ks[i - 1] <= k) /\ (i <= Len(ks) => k < ks[i])
    BY <2>1, <2>2
  <2> QED
    BY <1>5, <1>6, <2>3, ZenonT(30)
<1>13. ASSUME NEW i \in (c + 2)..(Len(ks) + 2) PROVE Slot(R, p, i)' = Slot(R, p, i - 1)
  <2>0. PICK a : a = i - 1
    BY <1>0
  <2>1. i > 1 /\ a > 1 /\ (i <= Len(t) <=> a <= Len(ks))
    BY <1>0, <1>1, <1>2, <1>4, <2>0
  <2>2. t[i - 1] = ks[a - 1]
    <3>1. a \in (c + 1)..(Len(ks) + 1)
      BY <1>0, <1>1, <1>2, <2>0
    <3> QED
      BY <1>0, <1>4, <2>0, <3>1
  <2>3. i <= Len(t) => t[i] = ks[a]
    <3>1. i <= Len(t) => i \in (c + 1)..(Len(ks) + 1)
      BY <1>0, <1>1, <1>2, <1>4
    <3> QED
      BY <1>0, <1>4, <2>0, <3>1
  <2>4. Slot(R, p, i)' = Slot(R, p, a)
    BY <1>0, <1>5, <1>6, <2>1, <2>2, <2>3, ZenonT(30)
  <2> QED
    BY <1>0, <2>0, <2>4
<1> QED
  BY <1>0, <1>10, <1>11, <1>12, <1>13

\* Where the call is when a split comes back to a parent.
Absorbs(h, R, p, c) ==
  /\ path # <<>> /\ p = path[Len(path)].node /\ c = path[Len(path)].child
  /\ Shape(h, R, Null, split.right, <<p, c>>) /\ Stack(h) /\ Handed(h, R)
  /\ p \in DOMAIN heap /\ c \in 1..Len(heap[p].kids) /\ heap[p].kids[c] = node
  /\ heap[p].leaf = FALSE /\ heap[p].vals = <<>>

\* When a split comes back to a parent, the parent's last link stands for
\* both halves.
LEMMA AbsorbContext ==
  ASSUME TreeInv, pc = "absorb", path # <<>>
  PROVE  damaged = FALSE /\ \E h, R, p, c : Absorbs(h, R, p, c)
<1>1. damaged = FALSE /\ ~EmptyTree
  BY DEF TreeInv, CallOK, EmptyTree
<1>2. PICK h, R : Tree(h, R)
  BY <1>1 DEF TreeInv
<1>3. PICK p : p = path[Len(path)].node
  OBVIOUS
<1>4. PICK c : c = path[Len(path)].child
  OBVIOUS
<1>5. Over = Null /\ Orphan = split.right /\ OpenLink = <<p, c>>
  BY <1>3, <1>4 DEF Over, Orphan, OpenLink
<1>6. Shape(h, R, Null, split.right, <<p, c>>) /\ Stack(h) /\ Handed(h, R)
  BY <1>2, <1>5 DEF Tree, Running
<1>7. Len(path) \in 1..Len(path)
  <2>1. path \in Seq([node : DOMAIN heap, child : 1..(MaxKeys + 1)])
    BY <1>6 DEF Stack
  <2> QED
    BY <2>1
<1>8. p \in DOMAIN heap /\ c \in 1..(MaxKeys + 1)
  BY <1>3, <1>4, <1>6, <1>7, PathFacts
<1>9. c <= Len(heap[p].kids) /\ heap[p].kids[c] = node
  <2>1. OnPath(Len(path) + 1) = node
    BY <1>7 DEF OnPath
  <2> QED
    BY <1>3, <1>4, <1>6, <1>7, <2>1 DEF Stack
<1>10. NodeOK(h, R, p, Null) /\ NodeFacts(p)
  BY <1>6, <1>8, TreeFacts
<1>11. c \in 1..Len(heap[p].kids)
  BY <1>8, <1>9, <1>10 DEF NodeFacts
<1>12. heap[p].leaf = FALSE
  <2>1. heap[p].leaf => heap[p].kids = <<>>
    BY <1>10 DEF NodeOK
  <2>2. heap[p].leaf \in BOOLEAN
    BY <1>10 DEF NodeFacts
  <2> QED
    BY <1>11, <2>1, <2>2
<1>13. heap[p].vals = <<>>
  BY <1>10, <1>12 DEF NodeOK
<1>14. Absorbs(h, R, p, c)
  BY <1>3, <1>4, <1>6, <1>8, <1>9, <1>11, <1>12, <1>13 DEF Absorbs
<1> QED
  BY <1>1, <1>14

\* What holds of the parent and of the two halves then.
LEMMA AbsorbFacts ==
  ASSUME NEW h, NEW R, NEW p, NEW c, Absorbs(h, R, p, c), NEW ks, ks = heap[p].keys
  PROVE  /\ NodeOK(h, R, p, Null) /\ NodeFacts(p) /\ KidsOK(h, R, p, split.right, <<p, c>>)
         /\ node \in DOMAIN heap /\ split.right \in DOMAIN heap
         /\ h[p] = h[node] + 1 /\ h[split.right] = h[node]
         /\ split.promoted \in Key /\ split.promoted \in Int
         /\ Promoted(R, p, c, node, split.right, split.promoted, ks)
<1>1. /\ NodeOK(h, R, p, Null) /\ NodeFacts(p) /\ KidsOK(h, R, p, split.right, <<p, c>>)
      /\ R[p] \subseteq Key
  BY TreeFacts DEF Absorbs
<1>2. /\ split \in [promoted : Key, right : DOMAIN heap]
      /\ h[split.right] = h[node]
      /\ split.promoted \in R[split.right]
      /\ \A k \in R[node] : k < split.promoted
      /\ \A k \in R[split.right] : split.promoted <= k
  BY DEF Absorbs, Handed
<1>3. split.promoted \in Key /\ split.right \in DOMAIN heap /\ split.promoted \in Int
  BY <1>2, TreeAssumption
<1>4. node \in DOMAIN heap /\ c \in 1..Len(heap[p].kids) /\ heap[p].kids[c] = node
  BY DEF Absorbs, Stack
<1>5. h[p] = h[node] + 1 /\ Slot(R, p, c) = R[node] \cup R[split.right]
  BY <1>1, <1>4 DEF KidsOK
<1>6. R[node] # {}
  <2>1. NodeOK(h, R, node, Null)
    BY <1>4, TreeFacts DEF Absorbs
  <2> QED
    BY <2>1, RegionsInhabited
<1>7. ks \in Seq(Int) /\ Ascending(ks) /\ Len(heap[p].kids) = Len(ks) + 1
  BY <1>1 DEF NodeOK, NodeFacts, Absorbs
<1>8. R[p] \subseteq Int
  BY <1>1, TreeAssumption
<1>9. Promoted(R, p, c, node, split.right, split.promoted, ks)
  BY <1>2, <1>3, <1>4, <1>5, <1>6, <1>7, <1>8 DEF Promoted
<1> QED
  BY <1>1, <1>2, <1>3, <1>4, <1>5, <1>9

\* The heap that insert_into_internal leaves.
LEMMA AbsorbHeap ==
  ASSUME NEW h, NEW R, NEW p, NEW c, Absorbs(h, R, p, c), AbsorbSplit
  PROVE  /\ DOMAIN heap' = DOMAIN heap /\ root' = root /\ damaged' = damaged
         /\ \A n \in DOMAIN heap : n # p => heap'[n] = heap[n]
         /\ \E ks2, cs2 :
              /\ ks2 = InsertedAt(heap[p].keys, c, split.promoted)
              /\ cs2 = InsertedAt(heap[p].kids, c + 1, split.right)
              /\ heap'[p] = Internal(ks2, cs2)
         /\ \/ Len(heap[p].keys) < MaxKeys /\ Return(<<"inserted">>)
            \/ /\ ~(Len(heap[p].keys) < MaxKeys) /\ pc' = "splitInternal" /\ node' = p
               /\ path' = SubSeq(path, 1, Len(path) - 1) /\ split' = NoSplit
               /\ UNCHANGED <<args, reply>>
<1>1. p = path[Len(path)].node /\ c = path[Len(path)].child /\ p \in DOMAIN heap
  BY DEF Absorbs
<1>2. PICK new : new = Internal(InsertedAt(heap[p].keys, c, split.promoted),
                                InsertedAt(heap[p].kids, c + 1, split.right))
  OBVIOUS
<1>3. heap' = [heap EXCEPT ![p] = new] /\ root' = root /\ damaged' = damaged
  BY <1>1, <1>2 DEF AbsorbSplit
<1>4. PICK ks2, cs2 : /\ ks2 = InsertedAt(heap[p].keys, c, split.promoted)
                      /\ cs2 = InsertedAt(heap[p].kids, c + 1, split.right)
  OBVIOUS
<1>5. new = Internal(ks2, cs2)
  BY <1>2, <1>4
<1>6. /\ DOMAIN heap' = DOMAIN heap /\ heap'[p] = new
      /\ \A n \in DOMAIN heap : n # p => heap'[n] = heap[n]
  BY <1>1, <1>3
<1>7. \E a, b :
        /\ a = InsertedAt(heap[p].keys, c, split.promoted)
        /\ b = InsertedAt(heap[p].kids, c + 1, split.right)
        /\ heap'[p] = Internal(a, b)
  BY <1>4, <1>5, <1>6
<1>8. \/ Len(heap[p].keys) < MaxKeys /\ Return(<<"inserted">>)
      \/ /\ ~(Len(heap[p].keys) < MaxKeys) /\ pc' = "splitInternal" /\ node' = p
         /\ path' = SubSeq(path, 1, Len(path) - 1) /\ split' = NoSplit
         /\ UNCHANGED <<args, reply>>
  BY <1>1 DEF AbsorbSplit
<1> QED
  BY <1>3, <1>6, <1>7, <1>8

\* Taking in a split concerns no entry.
LEMMA AbsorbBindings == ASSUME TreeInv, AbsorbSplit PROVE Bindings' = Bindings
<1>1. PICK h, R, p, c : Absorbs(h, R, p, c)
  BY AbsorbContext DEF AbsorbSplit
<1>2. /\ DOMAIN heap' = DOMAIN heap
      /\ \A n \in DOMAIN heap : n # p => heap'[n] = heap[n]
      /\ \E ks2, cs2 : heap'[p] = Internal(ks2, cs2)
  BY <1>1, AbsorbHeap
<1>3. heap'[p].vals = <<>> /\ heap[p].vals = <<>> /\ p \in DOMAIN heap
  BY <1>1, <1>2 DEF Internal, Absorbs
<1> DEFINE E(n) == {<<heap[n].keys[i], heap[n].vals[i]>> : i \in 1..Len(heap[n].vals)}
           E2(n) == {<<heap'[n].keys[i], heap'[n].vals[i]>> : i \in 1..Len(heap'[n].vals)}
<1>4. Bindings = UNION {E(n) : n \in DOMAIN heap} /\ Bindings' = UNION {E2(n) : n \in DOMAIN heap'}
  BY DEF Bindings
<1>5. E(p) = {} /\ E2(p) = {}
  BY <1>3
<1>6. \A n \in DOMAIN heap : n # p => E2(n) = E(n)
  BY <1>2
<1>7. \A n \in DOMAIN heap : E2(n) = E(n)
  BY <1>5, <1>6
<1> HIDE DEF E, E2
<1> QED
  BY <1>2, <1>4, <1>7

\* The parent takes the link over: the tree is whole again.
LEMMA AbsorbShape ==
  ASSUME NEW h, NEW R, NEW p, NEW c, Absorbs(h, R, p, c), AbsorbSplit,
         NEW full, full \in {p, Null}, full = Null => Len(heap[p].keys) < MaxKeys
  PROVE  Shape(h, R, full, Null, <<Null, 0>>)' /\ Len(heap'[p].keys) = Len(heap[p].keys) + 1
         /\ heap'[p].leaf = FALSE /\ \A i \in 1..c : heap'[p].kids[i] = heap[p].kids[i]
<1>1. PICK ks : ks = heap[p].keys
  OBVIOUS
<1>2. PICK cs : cs = heap[p].kids
  OBVIOUS
<1>3. PICK r : r = split.right
  OBVIOUS
<1>4. PICK pr : pr = split.promoted
  OBVIOUS
<1>5. PICK l : l = node
  OBVIOUS
<1>6. /\ DOMAIN heap' = DOMAIN heap /\ root' = root
      /\ \A n \in DOMAIN heap : n # p => heap'[n] = heap[n]
  BY AbsorbHeap
<1>7. PICK ks2, cs2 : /\ ks2 = InsertedAt(ks, c, pr) /\ cs2 = InsertedAt(cs, c + 1, r)
                      /\ heap'[p] = Internal(ks2, cs2)
  BY <1>1, <1>2, <1>3, <1>4, AbsorbHeap
<1>8. /\ Shape(h, R, Null, r, <<p, c>>) /\ p \in DOMAIN heap /\ c \in 1..Len(cs) /\ cs[c] = l
      /\ heap[p].leaf = FALSE /\ heap[p].vals = <<>>
  BY <1>2, <1>3, <1>5 DEF Absorbs
<1>9. /\ NodeOK(h, R, p, Null) /\ NodeFacts(p) /\ KidsOK(h, R, p, r, <<p, c>>)
      /\ l \in DOMAIN heap /\ r \in DOMAIN heap
      /\ h[p] = h[l] + 1 /\ h[r] = h[l]
      /\ pr \in Key /\ pr \in Int
      /\ Promoted(R, p, c, l, r, pr, ks)
  BY <1>1, <1>3, <1>4, <1>5, AbsorbFacts
<1>10. /\ p # Null /\ r # Null
       /\ \A n \in DOMAIN heap : n # Null /\ h[n] \in Nat
  BY <1>8, <1>9, TreeFacts
<1>11. /\ ks \in Seq(Key) /\ ks \in Seq(Int) /\ cs \in Seq(Node) /\ Len(ks) \in Nat
       /\ Len(cs) = Len(ks) + 1 /\ c \in 1..(Len(ks) + 1)
       /\ Ascending(ks) /\ Len(ks) >= 1 /\ Len(ks) <= MaxKeys /\ h[p] > 0
       /\ \A j \in 1..Len(ks) : ks[j] \in R[p]
  <2>1. /\ ks \in Seq(Key) /\ ks \in Seq(Int) /\ cs \in Seq(Node) /\ Len(ks) \in Nat
        /\ Len(cs) \in Nat
    BY <1>1, <1>2, <1>9 DEF NodeFacts
  <2>2. (p = Null) = FALSE /\ heap[p].leaf = FALSE
    BY <1>8, <1>10
  <2>3. /\ Len(cs) = Len(ks) + 1 /\ Ascending(ks) /\ Len(ks) >= 1 /\ Len(ks) <= MaxKeys /\ h[p] > 0
        /\ \A j \in 1..Len(ks) : ks[j] \in R[p]
    <3>1. NodeOK(h, R, p, Null)
      BY <1>9
    <3> QED
      BY <1>1, <1>2, <2>2, <3>1 DEF NodeOK
  <2>4. c \in 1..(Len(ks) + 1)
    BY <1>8, <2>1, <2>3
  <2> QED
    BY <2>1, <2>3, <2>4
<1>12. ks2 \in Seq(Key) /\ Grown(ks2, ks, c, pr)
  BY <1>7, <1>9, <1>11, InsertedAtIs
<1>13. cs2 \in Seq(Node) /\ Grown(cs2, cs, c + 1, r)
  <2>1. PICK a : a = c + 1
    OBVIOUS
  <2>2. a \in 1..(Len(cs) + 1) /\ r \in Node
    BY <1>8, <1>9, <1>11, <2>1 DEF Shape
  <2>3. cs2 = InsertedAt(cs, a, r)
    BY <1>7, <2>1
  <2>4. cs2 \in Seq(Node) /\ Grown(cs2, cs, a, r)
    BY <1>11, <2>2, <2>3, InsertedAtIs
  <2> QED
    BY <2>1, <2>4
<1>14. /\ heap'[p].leaf = FALSE /\ heap'[p].keys = ks2 /\ heap'[p].vals = <<>>
       /\ heap'[p].kids = cs2 /\ heap'[p].next = Null
  BY <1>7 DEF Internal
<1>15. /\ Len(ks2) = Len(ks) + 1 /\ ks2[c] = pr
       /\ \A j \in 1..(c - 1) : ks2[j] = ks[j]
       /\ \A j \in (c + 1)..(Len(ks) + 1) : ks2[j] = ks[j - 1]
  BY <1>12 DEF Grown
<1>16. /\ Len(cs2) = Len(cs) + 1 /\ cs2[c + 1] = r
       /\ \A j \in 1..c : cs2[j] = cs[j]
       /\ \A j \in (c + 2)..(Len(cs) + 1) : cs2[j] = cs[j - 1]
  <2>1. (c + 1) - 1 = c /\ (c + 1) + 1 = c + 2
    BY <1>11
  <2> QED
    BY <1>13, <2>1 DEF Grown
<1>17. /\ pr \in R[p]
       /\ \A j \in 1..(c - 1) : ks[j] < pr
       /\ \A j \in c..Len(ks) : pr < ks[j]
  BY <1>9, PromotedFits
<1>18. ASSUME NEW n \in DOMAIN heap, n # p PROVE NodeOK(h, R, n, full)'
  <2>1. NodeOK(h, R, n, Null) /\ n # Null /\ heap'[n] = heap[n]
    BY <1>6, <1>8, <1>18, TreeFacts
  <2>2. (n = Null) = FALSE /\ (n = full) = FALSE
    BY <1>18, <2>1
  <2> QED
    BY <1>6, <2>1, <2>2 DEF NodeOK, Half
<1>19. Ascending(ks2)
  <2>1. /\ \A j \in 1..(c - 1) : ks[j] < pr
        /\ \A j \in c..Len(ks) : pr < ks[j]
    BY <1>9, PromotedFits
  <2> QED
    BY <1>7, <1>9, <1>11, <2>1, InsertedAscends
<1>20. ASSUME NEW j \in 1..Len(ks2) PROVE ks2[j] \in R[p]
  <2>1. CASE j = c
    BY <1>15, <1>17, <2>1
  <2>2. CASE j < c
    <3>1. j \in 1..(c - 1) /\ j \in 1..Len(ks)
      BY <1>11, <1>15, <2>2
    <3> QED
      BY <1>11, <1>15, <3>1
  <2>3. CASE j > c
    <3>1. j \in (c + 1)..(Len(ks) + 1) /\ j - 1 \in 1..Len(ks)
      BY <1>11, <1>15, <2>3
    <3> QED
      BY <1>11, <1>15, <3>1
  <2> QED
    BY <1>11, <1>15, <2>1, <2>2, <2>3
<1>21. NodeOK(h, R, p, full)'
  <2>1. heap'[p] \in NodeRecord
    <3>1. <<>> \in Seq(Value)
      OBVIOUS
    <3> QED
      BY <1>7, <1>12, <1>13, <3>1 DEF Internal, NodeRecord
  <2>2. p # root => Len(ks2) >= Half(p)'
    <3>1. p # root => Len(ks) >= Half(p)
      BY <1>1, <1>9 DEF NodeOK
    <3>2. Half(p)' = Half(p) /\ Half(p) \in Int
      BY <1>8, <1>14, TreeAssumption DEF Half
    <3> QED
      BY <1>11, <1>15, <3>1, <3>2
  <2>3. Len(ks2) <= (IF p = full THEN MaxKeys + 1 ELSE MaxKeys)
    <3>1. CASE full = p
      BY <1>11, <1>15, <3>1, TreeAssumption
    <3>2. CASE full = Null
      BY <1>1, <1>10, <1>11, <1>15, <3>2, TreeAssumption
    <3> QED
      BY <3>1, <3>2
  <2>4. Len(ks2) >= 1 /\ Len(cs2) = Len(ks2) + 1
    BY <1>11, <1>15, <1>16
  <2> QED
    BY <1>6, <1>11, <1>14, <1>19, <1>20, <2>1, <2>2, <2>3, <2>4 DEF NodeOK
<1>22. ASSUME NEW n \in DOMAIN heap, n # p PROVE KidsOK(h, R, n, Null, <<Null, 0>>)'
  <2>1. KidsOK(h, R, n, r, <<p, c>>) /\ heap'[n] = heap[n] /\ n # Null
    BY <1>6, <1>8, <1>22, TreeFacts
  <2>2. \A i : <<p, c>> # <<n, i>> /\ <<Null, 0>> # <<n, i>>
    BY <1>22, <2>1
  <2> QED
    BY <1>6, <2>1, <2>2 DEF KidsOK, Slot
<1>23. /\ Slot(R, p, c)' = R[l]
       /\ Slot(R, p, c + 1)' = R[r]
       /\ \A i \in 1..(c - 1) : Slot(R, p, i)' = Slot(R, p, i)
       /\ \A i \in (c + 2)..(Len(ks) + 2) : Slot(R, p, i)' = Slot(R, p, i - 1)
  BY <1>9, <1>12, <1>14, AbsorbSlots
<1>24. ASSUME NEW i \in 1..Len(cs), i # c
       PROVE  cs[i] \in DOMAIN heap /\ h[p] = h[cs[i]] + 1 /\ Slot(R, p, i) = R[cs[i]]
  <2>1. i \in 1..Len(heap[p].kids) /\ heap[p].kids[i] = cs[i] /\ <<p, c>> # <<p, i>>
    BY <1>2, <1>24
  <2>2. /\ heap[p].kids[i] \in DOMAIN heap /\ h[p] = h[heap[p].kids[i]] + 1
        /\ Slot(R, p, i) = R[heap[p].kids[i]]
    BY <1>9, <2>1 DEF KidsOK
  <2> QED
    BY <2>1, <2>2, Zenon
<1>25. KidsOK(h, R, p, Null, <<Null, 0>>)'
  <2>1. ASSUME NEW i \in 1..Len(cs2)
        PROVE  cs2[i] \in DOMAIN heap /\ h[p] = h[cs2[i]] + 1 /\ Slot(R, p, i)' = R[cs2[i]]
    <3>1. CASE i < c
      <4>1. i \in 1..(c - 1) /\ i \in 1..Len(cs) /\ i \in 1..c /\ i # c
        BY <1>11, <1>16, <3>1
      <4>2. cs2[i] = cs[i] /\ Slot(R, p, i)' = Slot(R, p, i)
        BY <1>16, <1>23, <4>1
      <4> QED
        BY <1>24, <4>1, <4>2
    <3>2. CASE i = c
      <4>1. cs2[c] = l
        BY <1>8, <1>11, <1>16
      <4> QED
        BY <1>9, <1>23, <3>2, <4>1
    <3>3. CASE i = c + 1
      <4>1. cs2[i] = r /\ h[p] = h[r] + 1
        BY <1>9, <1>16, <3>3
      <4> QED
        BY <1>9, <1>23, <3>3, <4>1
    <3>4. CASE i > c + 1
      <4>0. PICK a : a = i - 1
        OBVIOUS
      <4>1. /\ i \in (c + 2)..(Len(cs) + 1) /\ i \in (c + 2)..(Len(ks) + 2)
            /\ a \in 1..Len(cs) /\ a # c
        BY <1>11, <1>16, <3>4, <4>0
      <4>2. cs2[i] = cs[a] /\ Slot(R, p, i)' = Slot(R, p, a)
        BY <1>16, <1>23, <4>0, <4>1
      <4> QED
        BY <1>24, <4>1, <4>2
    <3> QED
      BY <1>11, <1>16, <3>1, <3>2, <3>3, <3>4
  <2>2. \A i : <<Null, 0>> # <<p, i>>
    BY <1>10
  <2> QED
    BY <1>6, <1>14, <2>1, <2>2 DEF KidsOK
<1>26. Apart(h, R)'
  BY <1>6, <1>8 DEF Shape, Apart
<1>27. AllLinked(Null)'
  <2>1. ASSUME NEW n \in DOMAIN heap, n # root PROVE Linked(n)'
    <3>1. CASE n = r
      <4>1. c + 1 \in 1..Len(cs2)
        BY <1>11, <1>16
      <4> QED
        BY <1>6, <1>8, <1>14, <1>16, <3>1, <4>1 DEF Linked
    <3>2. CASE n # r
      <4>1. Linked(n)
        BY <1>8, <2>1, <3>2 DEF Shape, AllLinked
      <4>2. PICK q \in DOMAIN heap : \E i \in 1..Len(heap[q].kids) : heap[q].kids[i] = n
        BY <4>1 DEF Linked
      <4>3. PICK i \in 1..Len(heap[q].kids) : heap[q].kids[i] = n
        BY <4>2
      <4>4. CASE q # p
        BY <1>6, <4>3, <4>4 DEF Linked
      <4>5. CASE q = p
        <5>1. i \in 1..Len(cs) /\ cs[i] = n
          BY <1>2, <4>3, <4>5
        <5>2. CASE i <= c
          <6>1. i \in 1..c /\ i \in 1..Len(cs2)
            BY <1>11, <1>16, <5>1, <5>2
          <6>2. cs2[i] = n
            BY <1>16, <5>1, <6>1
          <6> QED
            BY <1>6, <1>8, <1>14, <6>1, <6>2 DEF Linked
        <5>3. CASE i > c
          <6>0. PICK b : b = i + 1
            OBVIOUS
          <6>1. b \in (c + 2)..(Len(cs) + 1) /\ b \in 1..Len(cs2) /\ b - 1 = i
            BY <1>11, <1>16, <5>1, <5>3, <6>0, SMTT(30)
          <6>2. cs2[b] = n
            BY <1>16, <5>1, <6>1
          <6> QED
            BY <1>6, <1>8, <1>14, <6>1, <6>2 DEF Linked
        <5> QED
          BY <1>11, <5>1, <5>2, <5>3
      <4> QED
        BY <4>4, <4>5
    <3> QED
      BY <3>1, <3>2
  <2> QED
    BY <1>6, <2>1 DEF AllLinked
<1>28. RootOK(h, R, Null)'
  <2>1. RootOK(h, R, r)
    BY <1>8 DEF Shape
  <2>2. h[p] <= h[root] /\ root \in DOMAIN heap
    BY <1>8, <2>1 DEF RootOK
  <2>3. h[p] = h[r] + 1 /\ h[p] \in Nat /\ h[r] \in Nat /\ h[root] \in Nat
    BY <1>8, <1>9, <1>10, <2>2
  <2>4. h[r] # h[root]
    BY <2>2, <2>3
  <2>5. Key = R[root]
    BY <2>1, <2>4 DEF RootOK
  <2> QED
    BY <1>6, <2>1, <2>5 DEF RootOK
<1>29. ASSUME NEW n \in DOMAIN heap, heap'[n].leaf PROVE NextOK(R, n)'
  <2>1. n # p /\ heap[n].leaf /\ heap'[n] = heap[n]
    BY <1>6, <1>14, <1>29
  <2>2. \A m \in DOMAIN heap : heap'[m].leaf = heap[m].leaf
    BY <1>6, <1>8, <1>14
  <2>3. NextOK(R, n)
    BY <1>8, <2>1 DEF Shape
  <2> QED
    BY <1>6, <2>1, <2>2, <2>3 DEF NextOK
<1>30. Shape(h, R, full, Null, <<Null, 0>>)'
  <2>1. /\ DOMAIN heap' \subseteq Node /\ h \in [DOMAIN heap' -> Nat]
        /\ R \in [DOMAIN heap' -> SUBSET Key]
    BY <1>6, <1>8 DEF Shape
  <2>2. \A n \in DOMAIN heap' : NodeOK(h, R, n, full)'
    BY <1>6, <1>18, <1>21
  <2>3. \A n \in DOMAIN heap' : KidsOK(h, R, n, Null, <<Null, 0>>)'
    BY <1>6, <1>22, <1>25
  <2>4. \A n \in DOMAIN heap' : heap'[n].leaf => NextOK(R, n)'
    BY <1>6, <1>29
  <2> QED
    BY <1>26, <1>27, <1>28, <2>1, <2>2, <2>3, <2>4 DEF Shape
<1> QED
  BY <1>1, <1>2, <1>14, <1>15, <1>16, <1>30

\* The path without its last place leads to the parent.
LEMMA PathToParent ==
  ASSUME NEW h, Stack(h), h \in [DOMAIN heap -> Nat], root \in DOMAIN heap, path # <<>>,
         NEW p, p = path[Len(path)].node,
         node' = p, path' = SubSeq(path, 1, Len(path) - 1), root' = root,
         DOMAIN heap' = DOMAIN heap, \A n \in DOMAIN heap : n # p => heap'[n] = heap[n]
  PROVE  Stack(h)'
<1> DEFINE S == [node : DOMAIN heap, child : 1..(MaxKeys + 1)]
<1>1. path \in Seq(S)
  BY DEF Stack
<1> HIDE DEF S
<1>2. PICK l : l = Len(path)
  OBVIOUS
<1>3. l \in Nat /\ l >= 1 /\ l \in 1..Len(path)
  BY <1>1, <1>2
<1>4. PICK t : t = SubSeq(path, 1, l - 1)
  OBVIOUS
<1>5. t \in Seq(S) /\ Len(t) = l - 1 /\ \A i \in 1..(l - 1) : t[i] = path[i]
  BY <1>1, <1>2, <1>3, <1>4
<1>6. path' = t
  BY <1>2, <1>4
<1>7. \A i \in 1..l : OnPath(i) = path[i].node
  BY <1>2, <1>3 DEF OnPath
<1>8. ASSUME NEW i \in 1..l PROVE OnPath(i)' = OnPath(i)
  <2>1. CASE i = l
    <3>1. ~(i <= Len(t))
      BY <1>3, <1>5, <2>1
    <3>2. OnPath(i)' = p
      BY <1>6, <3>1 DEF OnPath
    <3> QED
      BY <1>2, <1>7, <2>1, <3>2
  <2>2. CASE i # l
    <3>1. i \in 1..(l - 1) /\ i <= Len(t)
      BY <1>3, <1>5, <2>2
    <3>2. OnPath(i)' = t[i].node
      BY <1>6, <3>1 DEF OnPath
    <3> QED
      BY <1>5, <1>7, <3>1, <3>2
  <2> QED
    BY <2>1, <2>2
<1>9. p \in DOMAIN heap /\ h[p] \in Nat /\ h[root] \in Nat
  BY <1>2, <1>3, PathFacts
<1>10. h[p] + l = h[root] + 1
  <2>1. l \in 1..(Len(path) + 1)
    BY <1>2, <1>3
  <2>2. h[OnPath(l)] + l = h[root] + 1
    BY <2>1 DEF Stack
  <2> QED
    BY <1>2, <1>3, <1>7, <2>2
<1>11. ASSUME NEW i \in 1..(l - 1)
       PROVE  /\ t[i].child <= Len(heap'[t[i].node].kids)
              /\ heap'[t[i].node].kids[t[i].child] = OnPath(i + 1)'
  <2>1. i \in 1..Len(path) /\ i \in 1..l /\ i + 1 \in 1..l /\ i < l /\ i \in 1..(Len(path) + 1)
    BY <1>2, <1>3
  <2>2. PICK q \in DOMAIN heap : q = path[i].node
    BY <2>1, PathFacts
  <2>3. h[q] + i = h[root] + 1 /\ h[q] \in Nat
    <3>1. h[OnPath(i)] + i = h[root] + 1
      BY <2>1 DEF Stack
    <3> QED
      BY <1>7, <2>1, <2>2, <3>1
  <2>4. q # p
    <3> SUFFICES ASSUME q = p PROVE FALSE
      OBVIOUS
    <3>1. h[p] + i = h[p] + l
      BY <1>10, <2>3
    <3> QED
      BY <1>3, <1>9, <2>1, <3>1
  <2>5. heap'[q] = heap[q]
    BY <2>4
  <2>6. t[i] = path[i]
    BY <1>5
  <2>7. path[i].child <= Len(heap[q].kids) /\ heap[q].kids[path[i].child] = OnPath(i + 1)
    BY <2>1, <2>2 DEF Stack
  <2>8. OnPath(i + 1)' = OnPath(i + 1)
    <3>1. PICK j \in 1..l : j = i + 1
      BY <2>1
    <3>2. OnPath(j)' = OnPath(j)
      BY <1>8
    <3> QED
      BY <3>1, <3>2 DEF OnPath
  <2> QED
    BY <2>2, <2>5, <2>6, <2>7, <2>8
<1>12. ASSUME NEW i \in 1..l PROVE h[OnPath(i)'] + i = h[root] + 1
  <2>1. i \in 1..(Len(path) + 1)
    BY <1>2, <1>3
  <2>2. h[OnPath(i)] + i = h[root] + 1
    BY <2>1 DEF Stack
  <2> QED
    BY <1>8, <2>2
<1>13. OnPath(1)' = root
  <2>1. PICK j \in 1..l : j = 1
    BY <1>3
  <2>2. OnPath(j)' = OnPath(j)
    BY <1>8
  <2> QED
    BY <2>1, <2>2 DEF Stack, OnPath
<1>14. Len(path') = l - 1 /\ Len(path') + 1 = l
  BY <1>3, <1>5, <1>6
<1> QED
  BY <1>5, <1>6, <1>9, <1>11, <1>12, <1>13, <1>14 DEF Stack, S

\* The parent that takes in the right half keeps the invariant.
LEMMA AbsorbSplitKeeps == ASSUME TreeInv, AbsorbSplit PROVE TreeInv'
<1>1. pc = "absorb" /\ path # <<>> /\ key \in Key /\ value \in Value /\ <<key, value>> \in Bindings
  BY DEF AbsorbSplit, TreeInv, CallOK, Splitting
<1>2. damaged = FALSE /\ \E h, R, p, c : Absorbs(h, R, p, c)
  BY <1>1, AbsorbContext
<1>3. PICK h, R, p, c : Absorbs(h, R, p, c)
  BY <1>2
<1>4. /\ DOMAIN heap' = DOMAIN heap /\ root' = root /\ damaged' = damaged
      /\ \A n \in DOMAIN heap : n # p => heap'[n] = heap[n]
      /\ \/ Len(heap[p].keys) < MaxKeys /\ Return(<<"inserted">>)
         \/ /\ ~(Len(heap[p].keys) < MaxKeys) /\ pc' = "splitInternal" /\ node' = p
            /\ path' = SubSeq(path, 1, Len(path) - 1) /\ split' = NoSplit
            /\ UNCHANGED <<args, reply>>
  BY <1>3, AbsorbHeap
<1>5. CASE Len(heap[p].keys) < MaxKeys /\ Return(<<"inserted">>)
  <2>1. damaged' \in BOOLEAN
    BY <1>2, <1>4
  <2>2. /\ CallOK' /\ Over' = Null /\ Orphan' = Null /\ OpenLink' = <<Null, 0>>
        /\ Running(h, R)'
    BY <1>5, <2>1, Returned
  <2>3. PICK full : full = Null
    OBVIOUS
  <2>4. Shape(h, R, full, Null, <<Null, 0>>)'
    BY <1>3, <1>5, <2>3, AbsorbShape
  <2>5. Tree(h, R)'
    BY <2>2, <2>3, <2>4 DEF Tree
  <2> QED
    BY <1>2, <1>4, <2>2, <2>5 DEF TreeInv
<1>6. CASE /\ ~(Len(heap[p].keys) < MaxKeys) /\ pc' = "splitInternal" /\ node' = p
           /\ path' = SubSeq(path, 1, Len(path) - 1) /\ split' = NoSplit
           /\ UNCHANGED <<args, reply>>
  <2>1. /\ Stack(h) /\ h \in [DOMAIN heap -> Nat] /\ root \in DOMAIN heap
        /\ p = path[Len(path)].node /\ p \in DOMAIN heap
    BY <1>3 DEF Absorbs, Shape, RootOK
  <2>2. p # Null /\ NodeOK(h, R, p, Null) /\ NodeFacts(p)
    BY <1>3, TreeFacts DEF Absorbs
  <2>3. PICK full : full = p
    OBVIOUS
  <2>4. /\ Shape(h, R, full, Null, <<Null, 0>>)' /\ Len(heap'[p].keys) = Len(heap[p].keys) + 1
        /\ heap'[p].leaf = FALSE
    BY <1>3, <2>2, <2>3, AbsorbShape
  <2>5. Len(heap'[p].keys) = MaxKeys + 1
    <3>1. (p = Null) = FALSE
      BY <2>2
    <3>2. Len(heap[p].keys) <= MaxKeys /\ Len(heap[p].keys) \in Nat
      BY <2>2, <3>1 DEF NodeOK, NodeFacts
    <3> QED
      BY <1>6, <2>4, <3>2, TreeAssumption
  <2>6. Stack(h)'
    BY <1>1, <1>4, <1>6, <2>1, PathToParent
  <2>7. Over' = p /\ Orphan' = Null /\ OpenLink' = <<Null, 0>>
    BY <1>6 DEF Over, Orphan, OpenLink, NoSplit
  <2>8. Running(h, R)'
    BY <1>6, <2>4, <2>5, <2>6 DEF Running
  <2>9. Tree(h, R)'
    BY <2>3, <2>4, <2>7, <2>8 DEF Tree
  <2>10. CallOK'
    <3>1. Bindings' = Bindings /\ key' = key /\ value' = value
      BY <1>6, AbsorbBindings DEF args
    <3> QED
      BY <1>1, <1>2, <1>4, <1>6, <3>1 DEF CallOK, Splitting
  <2> QED
    BY <1>2, <1>4, <2>9, <2>10 DEF TreeInv
<1> QED
  BY <1>4, <1>5, <1>6


-----------------------------------------------------------------------------
(* The root is split.                                                      *)

\* Before and after a new root q is put above the two halves l and r.
Grows(h, R, h2, R2, q, l, r, pr) ==
  /\ Shape(h, R, Null, r, <<Null, 0>>)
  /\ l = root /\ l \in DOMAIN heap /\ r \in DOMAIN heap /\ r # l
  /\ h[r] = h[l] /\ Key = R[l] \cup R[r]
  /\ pr \in Key /\ pr \in R[r] /\ (\A k \in R[l] : k < pr) /\ (\A j \in R[r] : pr <= j)
  /\ Len(heap[l].keys) >= Half(l)
  /\ q \in Node /\ q \notin DOMAIN heap
  /\ DOMAIN heap' = DOMAIN heap \cup {q} /\ root' = q
  /\ \A n \in DOMAIN heap : heap'[n] = heap[n]
  /\ heap'[q] = Internal(<<pr>>, <<l, r>>)
  /\ h2 = [n \in DOMAIN heap \cup {q} |-> IF n = q THEN h[l] + 1 ELSE h[n]]
  /\ R2 = [n \in DOMAIN heap \cup {q} |-> IF n = q THEN Key ELSE R[n]]

NewRoot(h, R, h2, R2, q, l, r, pr) ==
  /\ h2 \in [DOMAIN heap' -> Nat] /\ R2 \in [DOMAIN heap' -> SUBSET Key]
  /\ h2[q] = h[l] + 1 /\ R2[q] = Key
  /\ \A n \in DOMAIN heap : n # q /\ n # Null /\ h2[n] = h[n] /\ R2[n] = R[n] /\ h[n] <= h[l] /\ h[n] \in Nat
  /\ q # Null
  /\ heap'[q].leaf = FALSE /\ heap'[q].keys = <<pr>> /\ heap'[q].vals = <<>>
  /\ heap'[q].kids = <<l, r>> /\ heap'[q].next = Null

\* Heights and regions with a new root on top.
LEMMA GrowFacts ==
  ASSUME NEW h, NEW R, NEW h2, NEW R2, NEW q, NEW l, NEW r, NEW pr, Grows(h, R, h2, R2, q, l, r, pr)
  PROVE  NewRoot(h, R, h2, R2, q, l, r, pr)
<1>1. h \in [DOMAIN heap -> Nat] /\ R \in [DOMAIN heap -> SUBSET Key] /\ l \in DOMAIN heap
  BY DEF Grows, Shape
<1>2. /\ q \notin DOMAIN heap /\ q \in Node /\ DOMAIN heap' = DOMAIN heap \cup {q}
      /\ h2 = [n \in DOMAIN heap \cup {q} |-> IF n = q THEN h[l] + 1 ELSE h[n]]
      /\ R2 = [n \in DOMAIN heap \cup {q} |-> IF n = q THEN Key ELSE R[n]]
  BY DEF Grows
<1>3. \A n \in DOMAIN heap : n # Null /\ h[n] <= h[l] /\ h[n] \in Nat
  BY TreeAssumption DEF Grows, Shape, RootOK
<1>4. h[l] + 1 \in Nat
  BY <1>1
<1>5. h2 \in [DOMAIN heap' -> Nat] /\ R2 \in [DOMAIN heap' -> SUBSET Key]
  BY <1>1, <1>2, <1>4
<1>6. h2[q] = h[l] + 1 /\ R2[q] = Key
  BY <1>2
<1>7. \A n \in DOMAIN heap : n # q /\ h2[n] = h[n] /\ R2[n] = R[n]
  BY <1>2
<1>8. heap'[q] = Internal(<<pr>>, <<l, r>>)
  BY DEF Grows
<1>9. q # Null
  BY <1>2, TreeAssumption
<1> QED
  BY <1>3, <1>5, <1>6, <1>7, <1>8, <1>9 DEF Internal, NewRoot

\* The new root is a node above its two halves.
LEMMA GrowNode ==
  ASSUME NEW h, NEW R, NEW h2, NEW R2, NEW q, NEW l, NEW r, NEW pr, Grows(h, R, h2, R2, q, l, r, pr)
  PROVE  NodeOK(h2, R2, q, Null)' /\ KidsOK(h2, R2, q, Null, <<Null, 0>>)'
<1>1. /\ h2[q] = h[l] + 1 /\ R2[q] = Key /\ h[l] \in Nat /\ h2[l] = h[l] /\ h2[r] = h[r]
      /\ R2[l] = R[l] /\ R2[r] = R[r] /\ q # Null
      /\ heap'[q].leaf = FALSE /\ heap'[q].keys = <<pr>> /\ heap'[q].vals = <<>>
      /\ heap'[q].kids = <<l, r>> /\ heap'[q].next = Null
  <2>1. l \in DOMAIN heap /\ r \in DOMAIN heap
    BY DEF Grows
  <2> QED
    <3>1. NewRoot(h, R, h2, R2, q, l, r, pr)
      BY GrowFacts
    <3> QED
      BY <2>1, <3>1 DEF NewRoot
<1>2. /\ l \in DOMAIN heap' /\ r \in DOMAIN heap' /\ l \in Node /\ r \in Node /\ root' = q
      /\ pr \in Key /\ Key = R[l] \cup R[r] /\ h[r] = h[l]
      /\ heap'[q] = Internal(<<pr>>, <<l, r>>)
  BY DEF Grows, Shape
<1>3. Len(<<pr>>) = 1 /\ <<pr>>[1] = pr /\ Len(<<l, r>>) = 2 /\ <<l, r>>[1] = l /\ <<l, r>>[2] = r
  OBVIOUS
<1>4. \A i \in 1..1 : i = 1
  OBVIOUS
<1>5. NodeOK(h2, R2, q, Null)'
  <2>1. heap'[q] \in NodeRecord
    <3>1. <<pr>> \in Seq(Key) /\ <<>> \in Seq(Value) /\ <<l, r>> \in Seq(Node)
      BY <1>2
    <3> QED
      BY <1>2, <3>1 DEF Internal, NodeRecord
  <2>2. Ascending(<<pr>>)
    BY <1>3, <1>4 DEF Ascending
  <2>3. \A i \in 1..Len(<<pr>>) : <<pr>>[i] \in Key
    BY <1>2, <1>3, <1>4
  <2>4. 1 <= MaxKeys
    BY TreeAssumption
  <2>5. h2[q] > 0
    BY <1>1
  <2> QED
    BY <1>1, <1>2, <1>3, <2>1, <2>2, <2>3, <2>4, <2>5 DEF NodeOK
<1>6. KidsOK(h2, R2, q, Null, <<Null, 0>>)'
  <2>0. Key \subseteq Int /\ pr \in Int
    BY <1>2, TreeAssumption
  <2>1. /\ \A k \in R[l] : k < pr
        /\ \A k \in R[r] : pr <= k
    BY DEF Grows
  <2>2. Slot(R2, q, 1)' = R[l]
    <3>1. Slot(R2, q, 1)' = {k \in Key : k < pr}
      BY <1>1, <1>3 DEF Slot
    <3>2. ASSUME NEW k \in Key PROVE k < pr <=> k \in R[l]
      <4>1. k \in R[l] \/ k \in R[r]
        BY <1>2
      <4>2. k \in R[r] => pr <= k
        BY <2>1
      <4>3. k \in R[l] => k < pr
        BY <2>1
      <4> QED
        BY <2>0, <4>1, <4>2, <4>3
    <3> QED
      BY <1>2, <3>1, <3>2
  <2>3. Slot(R2, q, 2)' = R[r]
    <3>1. Slot(R2, q, 2)' = {k \in Key : pr <= k}
      BY <1>1, <1>3 DEF Slot
    <3>2. ASSUME NEW k \in Key PROVE pr <= k <=> k \in R[r]
      <4>1. k \in R[l] \/ k \in R[r]
        BY <1>2
      <4>2. k \in R[r] => pr <= k
        BY <2>1
      <4>3. k \in R[l] => k < pr
        BY <2>1
      <4> QED
        BY <2>0, <4>1, <4>2, <4>3
    <3> QED
      BY <1>2, <3>1, <3>2
  <2>4. ASSUME NEW i \in 1..Len(<<l, r>>)
        PROVE  /\ <<l, r>>[i] \in DOMAIN heap' /\ h2[q] = h2[<<l, r>>[i]] + 1
               /\ Slot(R2, q, i)' = R2[<<l, r>>[i]]
    <3>1. CASE i = 1
      BY <1>1, <1>2, <1>3, <2>2, <3>1
    <3>2. CASE i = 2
      BY <1>1, <1>2, <1>3, <2>3, <3>2
    <3> QED
      BY <1>3, <3>1, <3>2
  <2>5. \A i : <<Null, 0>> # <<q, i>>
    BY <1>1
  <2> QED
    BY <1>1, <2>4, <2>5 DEF KidsOK
<1> QED
  BY <1>5, <1>6

\* The tree with the new root is sound.
LEMMA GrowShape ==
  ASSUME NEW h, NEW R, NEW h2, NEW R2, NEW q, NEW l, NEW r, NEW pr, Grows(h, R, h2, R2, q, l, r, pr)
  PROVE  Shape(h2, R2, Null, Null, <<Null, 0>>)'
<1>1. /\ h2 \in [DOMAIN heap' -> Nat] /\ R2 \in [DOMAIN heap' -> SUBSET Key]
      /\ h2[q] = h[l] + 1 /\ R2[q] = Key
      /\ \A n \in DOMAIN heap : n # q /\ n # Null /\ h2[n] = h[n] /\ R2[n] = R[n] /\ h[n] <= h[l] /\ h[n] \in Nat
      /\ q # Null
      /\ heap'[q].leaf = FALSE /\ heap'[q].kids = <<l, r>>
  <2>1. NewRoot(h, R, h2, R2, q, l, r, pr)
    BY GrowFacts
  <2> QED
    BY <2>1 DEF NewRoot
<1>2. /\ Shape(h, R, Null, r, <<Null, 0>>)
      /\ l = root /\ l \in DOMAIN heap /\ r \in DOMAIN heap /\ r # l
      /\ Len(heap[l].keys) >= Half(l)
      /\ q \in Node /\ DOMAIN heap' = DOMAIN heap \cup {q} /\ root' = q
      /\ \A n \in DOMAIN heap : heap'[n] = heap[n]
  BY DEF Grows
<1>3. ASSUME NEW n \in DOMAIN heap PROVE NodeOK(h2, R2, n, Null)'
  <2>1. NodeOK(h, R, n, Null) /\ n # Null /\ heap'[n] = heap[n] /\ h2[n] = h[n] /\ R2[n] = R[n]
    BY <1>1, <1>2 DEF Shape
  <2>2. Len(heap'[n].keys) >= Half(n)'
    <3>1. Half(n)' = Half(n)
      BY <2>1 DEF Half
    <3>2. CASE n = l
      BY <1>2, <2>1, <3>1, <3>2
    <3>3. CASE n # l
      BY <1>2, <2>1, <3>1, <3>3 DEF NodeOK
    <3> QED
      BY <3>2, <3>3
  <2> QED
    BY <2>1, <2>2 DEF NodeOK
<1>4. ASSUME NEW n \in DOMAIN heap PROVE KidsOK(h2, R2, n, Null, <<Null, 0>>)'
  <2>1. KidsOK(h, R, n, r, <<Null, 0>>) /\ n # Null /\ heap'[n] = heap[n] /\ h2[n] = h[n] /\ R2[n] = R[n]
    BY <1>1, <1>2 DEF Shape
  <2>2. \A i : <<Null, 0>> # <<n, i>>
    BY <2>1
  <2>3. ASSUME NEW i \in 1..Len(heap[n].kids)
        PROVE  /\ heap[n].kids[i] \in DOMAIN heap' /\ h2[n] = h2[heap[n].kids[i]] + 1
               /\ Slot(R2, n, i)' = R2[heap[n].kids[i]]
    <3>1. /\ heap[n].kids[i] \in DOMAIN heap /\ h[n] = h[heap[n].kids[i]] + 1
          /\ Slot(R, n, i) = R[heap[n].kids[i]]
      BY <2>1, <2>2 DEF KidsOK
    <3>2. Slot(R2, n, i)' = Slot(R, n, i)
      BY <2>1 DEF Slot
    <3> QED
      BY <1>1, <1>2, <2>1, <3>1, <3>2
  <2> QED
    BY <2>1, <2>2, <2>3 DEF KidsOK
<1>5. Apart(h2, R2)'
  <2>1. ASSUME NEW m \in DOMAIN heap', NEW n \in DOMAIN heap', m # n, h2[m] = h2[n]
        PROVE  R2[m] \cap R2[n] = {}
    <3>1. \A a \in DOMAIN heap : h2[a] # h2[q]
      BY <1>1, <1>2
    <3>2. m \in DOMAIN heap /\ n \in DOMAIN heap
      BY <1>2, <2>1, <3>1
    <3>3. h[m] = h[n] /\ R2[m] = R[m] /\ R2[n] = R[n]
      BY <1>1, <2>1, <3>2
    <3> QED
      BY <1>2, <2>1, <3>2, <3>3 DEF Shape, Apart
  <2> QED
    BY <2>1 DEF Apart
<1>6. AllLinked(Null)'
  <2>1. ASSUME NEW n \in DOMAIN heap PROVE Linked(n)'
    <3>0. /\ Len(<<l, r>>) = 2 /\ <<l, r>>[1] = l /\ <<l, r>>[2] = r /\ 1 \in 1..2 /\ 2 \in 1..2
          /\ q \in DOMAIN heap'
      BY <1>2
    <3>1. CASE n = l
      BY <1>1, <3>0, <3>1, ZenonT(30) DEF Linked
    <3>2. CASE n = r
      BY <1>1, <3>0, <3>2, ZenonT(30) DEF Linked
    <3>3. CASE n # l /\ n # r
      <4>1. Linked(n)
        BY <1>2, <3>3 DEF Shape, AllLinked
      <4>2. PICK p \in DOMAIN heap : \E i \in 1..Len(heap[p].kids) : heap[p].kids[i] = n
        BY <4>1 DEF Linked
      <4>3. heap'[p] = heap[p] /\ p \in DOMAIN heap'
        BY <1>2
      <4> QED
        BY <4>2, <4>3 DEF Linked
    <3> QED
      BY <3>1, <3>2, <3>3
  <2> QED
    BY <1>2, <2>1 DEF AllLinked
<1>7. RootOK(h2, R2, Null)'
  <2>1. \A n \in DOMAIN heap' : h2[n] <= h2[q]
    BY <1>1, <1>2
  <2> QED
    BY <1>1, <1>2, <2>1 DEF RootOK
<1>8. ASSUME NEW n \in DOMAIN heap', heap'[n].leaf PROVE NextOK(R2, n)'
  <2>1. n \in DOMAIN heap /\ heap[n].leaf /\ heap'[n] = heap[n] /\ R2[n] = R[n]
    BY <1>1, <1>2, <1>8
  <2>2. NextOK(R, n)
    BY <1>2, <2>1 DEF Shape
  <2>3. ASSUME NEW m \in DOMAIN heap', heap'[m].leaf
        PROVE  m \in DOMAIN heap /\ heap[m].leaf /\ R2[m] = R[m]
    BY <1>1, <1>2, <2>3
  <2>4. CASE heap[n].next = Null
    <3>1. \A m \in DOMAIN heap : heap[m].leaf /\ m # n => Before(R[m], R[n])
      BY <2>2, <2>4 DEF NextOK
    <3> QED
      BY <2>1, <2>3, <2>4, <3>1 DEF NextOK
  <2>5. CASE heap[n].next # Null
    <3>0. PICK x : x = heap[n].next
      OBVIOUS
    <3>1. /\ x \in DOMAIN heap /\ heap[x].leaf /\ Before(R[n], R[x])
          /\ \A m \in DOMAIN heap : heap[m].leaf /\ m \notin {n, x} => Before(R[m], R[n]) \/ Before(R[x], R[m])
      BY <2>2, <2>5, <3>0 DEF NextOK
    <3>2. heap'[n].next = x /\ x # Null /\ x \in DOMAIN heap' /\ heap'[x].leaf /\ R2[x] = R[x]
      BY <1>1, <1>2, <2>1, <2>5, <3>0, <3>1
    <3> QED
      BY <2>1, <2>3, <3>1, <3>2 DEF NextOK
  <2> QED
    BY <2>4, <2>5
<1>9. NodeOK(h2, R2, q, Null)' /\ KidsOK(h2, R2, q, Null, <<Null, 0>>)'
  BY GrowNode
<1>10. DOMAIN heap' \subseteq Node
  BY <1>2 DEF Shape
<1>11. /\ \A n \in DOMAIN heap' : NodeOK(h2, R2, n, Null)'
       /\ \A n \in DOMAIN heap' : KidsOK(h2, R2, n, Null, <<Null, 0>>)'
  BY <1>2, <1>3, <1>4, <1>9
<1> QED
  BY <1>1, <1>5, <1>6, <1>7, <1>8, <1>10, <1>11 DEF Shape

\* bptree_insert's new root keeps the invariant and every entry.
LEMMA GrowRootKeeps == ASSUME TreeInv, GrowRoot PROVE TreeInv' /\ Bindings' = Bindings
<1>1. /\ pc = "absorb" /\ path = <<>> /\ Free # {} /\ root' = NewNode
      /\ heap' = Allocated(heap, NewNode, Internal(<<split.promoted>>, <<root, split.right>>))
      /\ Return(<<"inserted">>) /\ damaged' = damaged /\ damaged = FALSE
  BY DEF GrowRoot, TreeInv, CallOK
<1>2. PICK h, R : Tree(h, R)
  BY <1>1 DEF TreeInv, EmptyTree
<1>3. PICK r : r = split.right
  OBVIOUS
<1>4. PICK l : l = node
  OBVIOUS
<1>5. PICK pr : pr = split.promoted
  OBVIOUS
<1>6. PICK q : q = NewNode
  OBVIOUS
<1>7. q \in Node /\ q \notin DOMAIN heap
  BY <1>1, <1>6 DEF Free, NewNode
<1>8. Shape(h, R, Null, r, <<Null, 0>>) /\ Stack(h) /\ Handed(h, R)
  BY <1>1, <1>2, <1>3 DEF Tree, Running, Over, Orphan, OpenLink
<1>9. l = root
  BY <1>1, <1>4, <1>8 DEF Stack, OnPath
<1>10. /\ r \in DOMAIN heap /\ pr \in Key /\ r # l /\ h[r] = h[l] /\ pr \in R[r]
       /\ \A k \in R[l] : k < pr
       /\ \A k \in R[r] : pr <= k
       /\ Len(heap[l].keys) >= Half(l)
  BY <1>3, <1>4, <1>5, <1>8 DEF Handed
<1>11. l \in DOMAIN heap /\ Key = R[l] \cup R[r]
  <2>1. r # Null
    BY <1>8, <1>10, TreeFacts
  <2> QED
    BY <1>8, <1>9, <1>10, <2>1 DEF Shape, RootOK
<1>12. PICK new : new = Internal(<<pr>>, <<l, r>>)
  OBVIOUS
<1>13. heap' = Allocated(heap, q, new) /\ root' = q
  BY <1>1, <1>3, <1>5, <1>6, <1>9, <1>12
<1>14. /\ DOMAIN heap' = DOMAIN heap \cup {q} /\ heap'[q] = new
       /\ \A n \in DOMAIN heap : heap'[n] = heap[n]
  BY <1>7, <1>13 DEF Allocated
<1>15. PICK h2 : h2 = [n \in DOMAIN heap \cup {q} |-> IF n = q THEN h[l] + 1 ELSE h[n]]
  OBVIOUS
<1>16. PICK R2 : R2 = [n \in DOMAIN heap \cup {q} |-> IF n = q THEN Key ELSE R[n]]
  OBVIOUS
<1>17. (\A k \in R[l] : k < pr) /\ (\A j \in R[r] : pr <= j)
  BY <1>10
<1>18. Grows(h, R, h2, R2, q, l, r, pr)
  BY <1>7, <1>8, <1>9, <1>10, <1>11, <1>12, <1>13, <1>14, <1>15, <1>16, <1>17 DEF Grows
<1>19. Shape(h2, R2, Null, Null, <<Null, 0>>)'
  BY <1>18, GrowShape
<1>20. /\ CallOK' /\ Over' = Null /\ Orphan' = Null /\ OpenLink' = <<Null, 0>>
       /\ Running(h2, R2)'
  <2>1. damaged' \in BOOLEAN
    BY <1>1
  <2> QED
    BY <1>1, <2>1, Returned
<1>21. Tree(h2, R2)'
  BY <1>19, <1>20 DEF Tree
<1>22. Bindings' = Bindings
  <2> DEFINE E(n) == {<<heap[n].keys[i], heap[n].vals[i]>> : i \in 1..Len(heap[n].vals)}
             E2(n) == {<<heap'[n].keys[i], heap'[n].vals[i]>> : i \in 1..Len(heap'[n].vals)}
  <2>1. Bindings = UNION {E(n) : n \in DOMAIN heap} /\ Bindings' = UNION {E2(n) : n \in DOMAIN heap'}
    BY DEF Bindings
  <2>2. E2(q) = {}
    <3>1. heap'[q].vals = <<>>
      <4>1. NewRoot(h, R, h2, R2, q, l, r, pr)
        BY <1>18, GrowFacts
      <4> QED
        BY <4>1 DEF NewRoot
    <3> QED
      BY <3>1
  <2>3. \A n \in DOMAIN heap : E2(n) = E(n)
    BY <1>14
  <2> HIDE DEF E, E2
  <2> QED
    BY <1>14, <2>1, <2>2, <2>3
<1> QED
  BY <1>1, <1>20, <1>21, <1>22 DEF TreeInv


-----------------------------------------------------------------------------
(* The invariant.                                                          *)

\* The empty tree is sound.
LEMMA TreeInit == ASSUME Init PROVE TreeInv
<1>1. /\ DOMAIN heap = {} /\ root = Null /\ pc = "idle" /\ key = Null /\ value = Null
      /\ node = Null /\ path = <<>> /\ split = NoSplit /\ damaged = FALSE
  BY DEF Init
<1> QED
  BY <1>1 DEF TreeInv, CallOK, EmptyTree, Splitting

\* Every step keeps the invariant.
LEMMA TreeStep == ASSUME TreeInv, [Next]_vars PROVE TreeInv'
<1>1. CASE \E e \in Entries : Insert(e[1], e[2])
  <2>1. PICK e \in Entries : Insert(e[1], e[2])
    BY <1>1
  <2>2. PICK k, v : k = e[1] /\ v = e[2]
    OBVIOUS
  <2>3. Call("insert", k, v) /\ <<k, v>> \in Entries
    BY <2>1, <2>2, TreeAssumption DEF Insert
  <2> QED
    BY <2>3, CallKeeps
<1>2. CASE \E k \in Key : Search(k)
  <2>1. PICK k \in Key : Call("search", k, Null)
    BY <1>2 DEF Search
  <2> QED
    BY <2>1, CallKeeps
<1>3. CASE InsertStep
  <2>1. CASE RefuseDuplicate
    BY <2>1, ReturnKeeps DEF RefuseDuplicate
  <2> QED
    BY <1>3, <2>1, CreateRootKeeps, DescendKeeps, InsertIntoLeafKeeps, SplitLeafKeeps,
       AbsorbSplitKeeps, SplitInternalKeeps, GrowRootKeeps DEF InsertStep
<1>4. CASE OutOfMemory
  BY <1>4, FailKeeps
<1>5. CASE SearchStep
  <2>1. CASE SearchReturns
    <3>1. PICK r : Return(r) /\ UNCHANGED <<heap, root, damaged>> /\ pc = "search"
      BY <2>1 DEF SearchReturns
    <3> QED
      BY <3>1, ReturnKeeps
  <2> QED
    BY <1>5, <2>1, SearchDescendKeeps DEF SearchStep
<1>6. CASE FreeTree
  BY <1>6, FreeKeeps
<1>7. CASE UNCHANGED vars
  <2>1. /\ heap' = heap /\ root' = root /\ pc' = pc /\ key' = key /\ value' = value
        /\ node' = node /\ path' = path /\ split' = split /\ damaged' = damaged
    BY <1>7 DEF vars
  <2>2. Bindings' = Bindings
    BY <2>1 DEF Bindings
  <2>3. CallOK'
    BY <2>1, <2>2 DEF TreeInv, CallOK, Splitting
  <2>4. CASE EmptyTree
    BY <2>1, <2>3, <2>4 DEF TreeInv, EmptyTree
  <2>5. ASSUME NEW h, NEW R, damaged = FALSE, Tree(h, R) PROVE TreeInv'
    <3>1. PICK over, orphan, link : over = Over /\ orphan = Orphan /\ link = OpenLink
      OBVIOUS
    <3>2. Over' = over /\ Orphan' = orphan /\ OpenLink' = link
      BY <2>1, <3>1 DEF Over, Orphan, OpenLink
    <3>3. Shape(h, R, over, orphan, link)
      BY <2>5, <3>1 DEF Tree
    <3>4. Shape(h, R, over, orphan, link)'
      BY <2>1, <3>3, ShapeStays
    <3>5. Running(h, R)'
      <4>1. Stack(h) => Stack(h)'
        <5>1. \A i : OnPath(i)' = OnPath(i)
          BY <2>1 DEF OnPath
        <5> QED
          BY <2>1, <5>1 DEF Stack
      <4>2. Handed(h, R) => Handed(h, R)'
        BY <2>1 DEF Handed, Half
      <4> QED
        BY <2>1, <2>5, <4>1, <4>2 DEF Tree, Running
    <3>6. Tree(h, R)'
      BY <3>2, <3>4, <3>5 DEF Tree
    <3> QED
      BY <2>1, <2>3, <2>5, <3>6 DEF TreeInv
  <2>6. ASSUME NEW h, NEW R, damaged = TRUE, Wreck(h, R) PROVE TreeInv'
    <3>1. PICK over, orphan \in DOMAIN heap \cup {Null} :
            Shape(h, R, over, orphan, <<Null, 0>>) /\ (orphan # Null => h[orphan] = h[root])
      BY <2>6 DEF Wreck
    <3>2. Shape(h, R, over, orphan, <<Null, 0>>)'
      BY <2>1, <3>1, ShapeStays
    <3>3. Wreck(h, R)'
      BY <2>1, <3>1, <3>2 DEF Wreck
    <3> QED
      BY <2>1, <2>3, <2>6, <3>3 DEF TreeInv
  <2>7. damaged \in BOOLEAN
    BY DEF TreeInv, CallOK
  <2> QED
    BY <2>4, <2>5, <2>6, <2>7 DEF TreeInv
<1> QED
  BY <1>1, <1>2, <1>3, <1>4, <1>5, <1>6, <1>7 DEF Next

\* The tree is sound at every moment of a call, and also without memory.
THEOREM TreeInvariant == Spec => []TreeInv
<1>1. Init => TreeInv
  BY TreeInit
<1>2. TreeInv /\ [Next]_vars => TreeInv'
  BY TreeStep
<1> QED
  BY <1>1, <1>2, PTL DEF Spec


\* The shape of a tree that is there, whatever the call is at.
LEMMA TreeShape ==
  ASSUME TreeInv, ~EmptyTree
  PROVE  \E h, R, over, orphan, link :
           /\ Shape(h, R, over, orphan, link)
           /\ ~damaged => Tree(h, R) /\ over = Over /\ orphan = Orphan /\ link = OpenLink
           /\ damaged => /\ link = <<Null, 0>>
                         /\ orphan # Null => h[orphan] = h[root]
<1>1. CASE damaged = FALSE
  <2>1. PICK h, R : Tree(h, R)
    BY <1>1 DEF TreeInv
  <2>2. PICK over, orphan, link : over = Over /\ orphan = Orphan /\ link = OpenLink
    OBVIOUS
  <2>3. Shape(h, R, over, orphan, link)
    BY <2>1, <2>2 DEF Tree
  <2> QED
    BY <1>1, <2>1, <2>2, <2>3
<1>2. CASE damaged = TRUE
  <2>1. PICK h, R : Wreck(h, R)
    BY <1>2 DEF TreeInv
  <2>2. PICK over, orphan \in DOMAIN heap \cup {Null} :
          Shape(h, R, over, orphan, <<Null, 0>>) /\ (orphan # Null => h[orphan] = h[root])
    BY <2>1 DEF Wreck
  <2>3. PICK link : link = <<Null, 0>>
    OBVIOUS
  <2> QED
    BY <1>2, <2>2, <2>3
<1> QED
  BY <1>1, <1>2 DEF TreeInv, CallOK

\* No node outgrows its arrays.
LEMMA NodesTyped ==
  ASSUME NEW h, NEW R, NEW over, NEW orphan, NEW link, Shape(h, R, over, orphan, link),
         NEW n \in DOMAIN heap
  PROVE  /\ heap[n] \in NodeRecord
         /\ Len(heap[n].keys) <= MaxKeys + 1
         /\ Len(heap[n].vals) <= MaxKeys + 1
         /\ Len(heap[n].kids) <= MaxKeys + 2
<1>1. NodeOK(h, R, n, over) /\ NodeFacts(n)
  BY TreeFacts
<1>2. Len(heap[n].keys) <= MaxKeys + 1 /\ Len(heap[n].keys) \in Nat /\ MaxKeys \in Nat
  <2>1. CASE n = over
    BY <1>1, <2>1, TreeAssumption DEF NodeOK, NodeFacts
  <2>2. CASE n # over
    <3>1. Len(heap[n].keys) <= MaxKeys /\ Len(heap[n].keys) \in Nat /\ MaxKeys \in Nat
      BY <1>1, <2>2, TreeAssumption DEF NodeOK, NodeFacts
    <3> QED
      BY <3>1
  <2> QED
    BY <2>1, <2>2
<1>3. Len(<<>>) = 0
  OBVIOUS
<1>4. CASE heap[n].leaf
  BY <1>1, <1>2, <1>3, <1>4 DEF NodeOK
<1>5. CASE ~heap[n].leaf
  <2>1. Len(heap[n].vals) = 0 /\ Len(heap[n].kids) = Len(heap[n].keys) + 1
    BY <1>1, <1>3, <1>5 DEF NodeOK
  <2>2. heap[n] \in NodeRecord
    BY <1>1 DEF NodeOK
  <2> QED
    BY <1>2, <2>1, <2>2
<1> QED
  BY <1>4, <1>5

\* Every variable keeps to its range, and no node outgrows its arrays, at any
\* moment of any call (the arrays of struct BPlusTreeNode).
THEOREM TreeTyped == Spec => []TypeOK
<1>1. TreeInv => TypeOK
  <2> SUFFICES ASSUME TreeInv PROVE TypeOK
    OBVIOUS
  <2>1. /\ pc \in {"idle", "insert", "splitLeaf", "absorb", "splitInternal", "search"}
        /\ key \in Key \cup {Null} /\ value \in Value \cup {Null} /\ damaged \in BOOLEAN
    BY DEF TreeInv, CallOK
  <2>2. NoSplit \in [promoted : Key \cup {0}, right : DOMAIN heap \cup {Null}]
    BY DEF NoSplit
  <2>3. <<>> \in Seq([node : DOMAIN heap, child : 1..(MaxKeys + 1)])
    OBVIOUS
  <2>4. CASE EmptyTree
    <3>1. pc # "absorb" /\ split = NoSplit
      BY <2>4 DEF EmptyTree, TreeInv, CallOK
    <3> QED
      BY <2>1, <2>2, <2>3, <2>4, <3>1 DEF TypeOK, EmptyTree
  <2>5. CASE ~EmptyTree
    <3>1. PICK h, R, over, orphan, link :
            /\ Shape(h, R, over, orphan, link)
            /\ ~damaged => Tree(h, R)
      BY <2>5, TreeShape
    <3>2. DOMAIN heap \subseteq Node /\ root \in DOMAIN heap
      BY <3>1 DEF Shape, RootOK
    <3>3. \A n \in DOMAIN heap :
            /\ heap[n] \in NodeRecord
            /\ Len(heap[n].keys) <= MaxKeys + 1
            /\ Len(heap[n].vals) <= MaxKeys + 1
            /\ Len(heap[n].kids) <= MaxKeys + 2
      BY <3>1, NodesTyped
    <3>4. CASE pc = "idle"
      <4>1. node = Null /\ path = <<>> /\ split = NoSplit
        BY <3>4 DEF TreeInv, CallOK
      <4> QED
        BY <2>1, <2>2, <2>3, <3>2, <3>3, <4>1 DEF TypeOK
    <3>5. CASE pc # "idle"
      <4>1. Tree(h, R)
        BY <3>1, <3>5 DEF TreeInv, CallOK
      <4>2. node \in DOMAIN heap
        BY <2>1, <3>5, <4>1 DEF Tree, Running, Stack
      <4>3. path \in Seq([node : DOMAIN heap, child : 1..(MaxKeys + 1)])
        <5>1. CASE pc = "search"
          BY <2>3, <5>1 DEF TreeInv, CallOK
        <5>2. CASE pc # "search"
          BY <2>1, <3>5, <4>1, <5>2 DEF Tree, Running, Stack
        <5> QED
          BY <5>1, <5>2
      <4>4. split \in [promoted : Key \cup {0}, right : DOMAIN heap \cup {Null}]
        <5>1. CASE pc = "absorb"
          <6>1. split \in [promoted : Key, right : DOMAIN heap]
            BY <4>1, <5>1 DEF Tree, Running, Handed
          <6> QED
            BY <6>1
        <5>2. CASE pc # "absorb"
          BY <2>2, <5>2 DEF TreeInv, CallOK
        <5> QED
          BY <5>1, <5>2
      <4> QED
        BY <2>1, <3>2, <3>3, <4>2, <4>3, <4>4 DEF TypeOK
    <3> QED
      BY <3>4, <3>5
  <2> QED
    BY <2>4, <2>5
<1> QED
  BY <1>1, TreeInvariant, PTL


-----------------------------------------------------------------------------
(* The map that the tree stores.                                           *)

\* The map with the entries of a set of pairs.
FromPairs(V) == [k \in {b[1] : b \in V} |-> (CHOOSE b \in V : b[1] = k)[2]]

Functional(V) == \A b, c \in V : b[1] = c[1] => b = c

\* The map of a functional set of pairs.
LEMMA FromPairsIs ==
  ASSUME NEW V, Functional(V)
  PROVE  /\ DOMAIN FromPairs(V) = {b[1] : b \in V}
         /\ \A b \in V : FromPairs(V)[b[1]] = b[2]
<1>1. ASSUME NEW b \in V PROVE FromPairs(V)[b[1]] = b[2]
  <2>1. PICK k : k = b[1]
    OBVIOUS
  <2>2. PICK c : c = CHOOSE a \in V : a[1] = k
    OBVIOUS
  <2>3. c \in V /\ c[1] = k
    BY <2>1, <2>2
  <2>4. c = b
    BY <2>1, <2>3 DEF Functional
  <2>5. FromPairs(V)[k] = c[2]
    BY <2>1, <2>2 DEF FromPairs
  <2> QED
    BY <2>1, <2>4, <2>5
<1> QED
  BY <1>1 DEF FromPairs

\* One more pair with a new key is one more entry.
LEMMA OneMore ==
  ASSUME NEW V, NEW W, NEW k, NEW v, Functional(W), W = V \cup {<<k, v>>},
         \A b \in V : b[1] # k
  PROVE  /\ k \notin DOMAIN FromPairs(V)
         /\ FromPairs(W) = [x \in DOMAIN FromPairs(V) \cup {k} |->
                              IF x = k THEN v ELSE FromPairs(V)[x]]
<1>1. Functional(V)
  BY DEF Functional
<1>2. /\ DOMAIN FromPairs(V) = {b[1] : b \in V} /\ \A b \in V : FromPairs(V)[b[1]] = b[2]
  BY <1>1, FromPairsIs
<1>3. /\ DOMAIN FromPairs(W) = {b[1] : b \in W} /\ \A b \in W : FromPairs(W)[b[1]] = b[2]
  BY FromPairsIs
<1>4. k \notin DOMAIN FromPairs(V)
  BY <1>2
<1>5. <<k, v>> \in W /\ <<k, v>>[1] = k /\ <<k, v>>[2] = v
  OBVIOUS
<1>6. DOMAIN FromPairs(W) = DOMAIN FromPairs(V) \cup {k} /\ FromPairs(W)[k] = v
  BY <1>2, <1>3, <1>5
<1>7. ASSUME NEW x \in DOMAIN FromPairs(V) PROVE FromPairs(W)[x] = FromPairs(V)[x] /\ x # k
  <2>1. PICK b \in V : b[1] = x
    BY <1>2
  <2> QED
    BY <1>2, <1>3, <2>1
<1>8. FromPairs(W) = [x \in DOMAIN FromPairs(W) |-> FromPairs(W)[x]]
  BY DEF FromPairs
<1> HIDE DEF FromPairs
<1> DEFINE F == [x \in DOMAIN FromPairs(V) \cup {k} |-> IF x = k THEN v ELSE FromPairs(V)[x]]
<1>9. FromPairs(W) = F
  BY <1>6, <1>7, <1>8
<1> QED
  BY <1>4, <1>9

\* An entry sits in a leaf that owns its key.
LEMMA BindingOwned ==
  ASSUME NEW h, NEW R, NEW over, NEW orphan, NEW link, Shape(h, R, over, orphan, link),
         NEW b \in Bindings
  PROVE  \E n \in DOMAIN heap : \E i \in 1..Len(heap[n].keys) :
           /\ heap[n].leaf /\ h[n] = 0 /\ b = <<heap[n].keys[i], heap[n].vals[i]>>
           /\ b[1] = heap[n].keys[i] /\ b[1] \in R[n] /\ Len(heap[n].vals) = Len(heap[n].keys)
<1>1. PICK n \in DOMAIN heap : b \in {<<heap[n].keys[i], heap[n].vals[i]>> : i \in 1..Len(heap[n].vals)}
  BY DEF Bindings
<1>2. PICK i \in 1..Len(heap[n].vals) : b = <<heap[n].keys[i], heap[n].vals[i]>>
  BY <1>1
<1>3. NodeOK(h, R, n, over) /\ NodeFacts(n)
  BY TreeFacts
<1>4. heap[n].leaf
  <2> SUFFICES ASSUME ~heap[n].leaf PROVE FALSE
    OBVIOUS
  <2>1. heap[n].vals = <<>>
    BY <1>3 DEF NodeOK
  <2>2. Len(heap[n].vals) = 0
    BY <2>1
  <2> QED
    BY <1>2, <2>2
<1>5. Len(heap[n].vals) = Len(heap[n].keys) /\ h[n] = 0
  BY <1>3, <1>4 DEF NodeOK
<1>6. i \in 1..Len(heap[n].keys)
  BY <1>5
<1>7. heap[n].keys[i] \in R[n]
  BY <1>3, <1>6 DEF NodeOK
<1>8. b[1] = heap[n].keys[i]
  BY <1>2
<1> QED
  BY <1>2, <1>4, <1>5, <1>6, <1>7, <1>8

\* Two leaves own no key both.
LEMMA LeafOwns ==
  ASSUME NEW h, NEW R, NEW over, NEW orphan, NEW link, Shape(h, R, over, orphan, link),
         NEW m \in DOMAIN heap, NEW n \in DOMAIN heap, h[m] = 0, h[n] = 0,
         NEW k \in R[m], k \in R[n]
  PROVE  m = n
BY DEF Shape, Apart

\* A key has one entry.
LEMMA BindingsFunctional == ASSUME TreeInv PROVE Functional(Bindings)
<1>1. CASE EmptyTree
  <2>1. Bindings = {}
    BY <1>1 DEF Bindings, EmptyTree
  <2> QED
    BY <2>1 DEF Functional
<1>2. CASE ~EmptyTree
  <2>1. PICK h, R, over, orphan, link : Shape(h, R, over, orphan, link)
    BY <1>2, TreeShape
  <2>2. ASSUME NEW b \in Bindings, NEW c \in Bindings, b[1] = c[1] PROVE b = c
    <3>1. PICK n \in DOMAIN heap : \E i \in 1..Len(heap[n].keys) :
            /\ heap[n].leaf /\ h[n] = 0 /\ b = <<heap[n].keys[i], heap[n].vals[i]>>
            /\ b[1] = heap[n].keys[i] /\ b[1] \in R[n] /\ Len(heap[n].vals) = Len(heap[n].keys)
      BY <2>1, BindingOwned
    <3>2. PICK i \in 1..Len(heap[n].keys) :
            h[n] = 0 /\ b = <<heap[n].keys[i], heap[n].vals[i]>> /\ b[1] = heap[n].keys[i] /\ b[1] \in R[n]
      BY <3>1
    <3>3. PICK m \in DOMAIN heap : \E j \in 1..Len(heap[m].keys) :
            /\ heap[m].leaf /\ h[m] = 0 /\ c = <<heap[m].keys[j], heap[m].vals[j]>>
            /\ c[1] = heap[m].keys[j] /\ c[1] \in R[m] /\ Len(heap[m].vals) = Len(heap[m].keys)
      BY <2>1, BindingOwned
    <3>4. PICK j \in 1..Len(heap[m].keys) :
            h[m] = 0 /\ c = <<heap[m].keys[j], heap[m].vals[j]>> /\ c[1] = heap[m].keys[j] /\ c[1] \in R[m]
      BY <3>3
    <3>5. m = n
      BY <2>1, <2>2, <3>2, <3>4, LeafOwns
    <3>6. i = j
      <4>1. PICK ks : ks = heap[n].keys
        OBVIOUS
      <4>2. Ascending(ks) /\ Len(ks) \in Nat /\ \A a \in 1..Len(ks) : ks[a] \in Int
        <5>1. NodeOK(h, R, n, over) /\ NodeFacts(n)
          BY <2>1, TreeFacts
        <5> QED
          BY <4>1, <5>1 DEF NodeOK, NodeFacts
      <4>3. i \in 1..Len(ks) /\ j \in 1..Len(ks) /\ ks[i] = ks[j]
        BY <2>2, <3>2, <3>4, <3>5, <4>1
      <4>4. PICK x \in Int : x = ks[i]
        BY <4>2, <4>3
      <4>5. ~(i < j) /\ ~(j < i)
        <5>1. i < j => x < x
          BY <4>2, <4>3, <4>4 DEF Ascending
        <5>2. j < i => x < x
          BY <4>2, <4>3, <4>4 DEF Ascending
        <5> QED
          BY <4>4, <5>1, <5>2
      <4> QED
        BY <4>2, <4>3, <4>5
    <3> QED
      BY <3>2, <3>4, <3>5, <3>6
  <2> QED
    BY <2>2 DEF Functional
<1> QED
  BY <1>1, <1>2

\* A key that is stored and belongs to a leaf is found in that leaf.
LEMMA KeyInLeaf ==
  ASSUME NEW h, NEW R, NEW over, NEW orphan, NEW link, Shape(h, R, over, orphan, link),
         NEW n \in DOMAIN heap, heap[n].leaf, NEW k \in R[n]
  PROVE  /\ \A b \in Bindings : b[1] = k =>
              \E i \in 1..Len(heap[n].keys) : heap[n].keys[i] = k /\ b[2] = heap[n].vals[i]
         /\ \A i \in 1..Len(heap[n].keys) : <<heap[n].keys[i], heap[n].vals[i]>> \in Bindings
<1>1. NodeOK(h, R, n, over)
  BY TreeFacts
<1>2. h[n] = 0 /\ Len(heap[n].vals) = Len(heap[n].keys)
  BY <1>1 DEF NodeOK
<1>3. ASSUME NEW b \in Bindings, b[1] = k
      PROVE  \E i \in 1..Len(heap[n].keys) : heap[n].keys[i] = k /\ b[2] = heap[n].vals[i]
  <2>1. PICK m \in DOMAIN heap : \E j \in 1..Len(heap[m].keys) :
          /\ heap[m].leaf /\ h[m] = 0 /\ b = <<heap[m].keys[j], heap[m].vals[j]>>
          /\ b[1] = heap[m].keys[j] /\ b[1] \in R[m] /\ Len(heap[m].vals) = Len(heap[m].keys)
    BY BindingOwned
  <2>2. m = n
    BY <1>2, <1>3, <2>1, LeafOwns
  <2> QED
    BY <1>3, <2>1, <2>2
<1>4. \A i \in 1..Len(heap[n].keys) : <<heap[n].keys[i], heap[n].vals[i]>> \in Bindings
  BY <1>2 DEF Bindings
<1> QED
  BY <1>3, <1>4


Pairs(ks, vs) == {<<ks[j], vs[j]>> : j \in 1..Len(vs)}

\* Growing keys and values at the same place adds one entry.
LEMMA GrownPairs ==
  ASSUME NEW ks, NEW vs, NEW n \in Nat, Len(ks) = n, Len(vs) = n, NEW i \in 1..(n + 1),
         NEW ks2, NEW vs2, NEW k, NEW v, Grown(ks2, ks, i, k), Grown(vs2, vs, i, v)
  PROVE  Pairs(ks2, vs2) = Pairs(ks, vs) \cup {<<k, v>>}
<1>1. /\ Len(vs2) = n + 1 /\ ks2[i] = k /\ vs2[i] = v
      /\ \A j \in 1..(i - 1) : ks2[j] = ks[j] /\ vs2[j] = vs[j]
      /\ \A j \in (i + 1)..(n + 1) : ks2[j] = ks[j - 1] /\ vs2[j] = vs[j - 1]
  BY DEF Grown
<1> DEFINE A == {<<ks2[j], vs2[j]>> : j \in 1..(n + 1)}
           B == {<<ks[j], vs[j]>> : j \in 1..n}
<1>2. ASSUME NEW j \in 1..(n + 1) PROVE <<ks2[j], vs2[j]>> \in B \cup {<<k, v>>}
  <2>1. CASE j = i
    BY <1>1, <2>1
  <2>2. CASE j < i
    <3>1. j \in 1..(i - 1) /\ j \in 1..n
      BY <2>2
    <3> QED
      BY <1>1, <3>1
  <2>3. CASE j > i
    <3>1. PICK a : a = j - 1
      OBVIOUS
    <3>2. j \in (i + 1)..(n + 1) /\ a \in 1..n
      BY <2>3, <3>1
    <3>3. ks2[j] = ks[a] /\ vs2[j] = vs[a]
      BY <1>1, <3>1, <3>2
    <3> QED
      BY <3>2, <3>3
  <2> QED
    BY <2>1, <2>2, <2>3
<1>3. ASSUME NEW j \in 1..n PROVE <<ks[j], vs[j]>> \in A
  <2>1. CASE j < i
    <3>1. j \in 1..(i - 1) /\ j \in 1..(n + 1)
      BY <2>1
    <3>2. ks2[j] = ks[j] /\ vs2[j] = vs[j]
      BY <1>1, <3>1
    <3> QED
      BY <3>1, <3>2
  <2>2. CASE ~(j < i)
    <3>1. PICK a : a = j + 1
      OBVIOUS
    <3>2. a \in (i + 1)..(n + 1) /\ a \in 1..(n + 1) /\ a - 1 = j
      BY <2>2, <3>1
    <3>3. ks2[a] = ks[j] /\ vs2[a] = vs[j]
      BY <1>1, <3>2
    <3> QED
      BY <3>2, <3>3
  <2> QED
    BY <2>1, <2>2
<1>4. <<k, v>> \in A
  BY <1>1
<1>5. A = B \cup {<<k, v>>}
  <2>1. A \subseteq B \cup {<<k, v>>}
    BY <1>2
  <2>2. B \subseteq A
    BY <1>3
  <2> QED
    BY <1>4, <2>1, <2>2
<1> QED
  BY <1>1, <1>5 DEF Pairs

\* An insertion into a leaf adds its entry and no other.
LEMMA InsertIntoLeafBindings ==
  ASSUME TreeInv, InsertIntoLeaf PROVE Bindings' = Bindings \cup {<<key, value>>}
<1> DEFINE ks == heap[node].keys
           vs == heap[node].vals
<1>1. /\ pc = "insert" /\ damaged = FALSE /\ key \in Key /\ value \in Value /\ split = NoSplit
      /\ node # Null /\ heap[node].leaf
  BY DEF TreeInv, CallOK, InsertIntoLeaf, Current, AtLeaf
<1>2. PICK h, R : Tree(h, R)
  BY <1>1 DEF TreeInv, EmptyTree
<1>3. Shape(h, R, Null, Null, <<Null, 0>>)
  BY <1>1, <1>2 DEF Tree, Over, Orphan, OpenLink, NoSplit
<1>4. node \in DOMAIN heap
  BY <1>1, <1>2 DEF Tree, Running
<1>5. NodeOK(h, R, node, Null) /\ NodeFacts(node)
  BY <1>3, <1>4, TreeFacts
<1>6. /\ ks \in Seq(Key) /\ ks \in Seq(Int) /\ vs \in Seq(Value) /\ Len(ks) \in Nat
      /\ Len(vs) = Len(ks) /\ Ascending(ks) /\ key \in Int
  BY <1>1, <1>5, TreeAssumption DEF NodeOK, NodeFacts
<1>7. PICK i : i = LeafPosition(ks, key)
  OBVIOUS
<1>8. i \in 1..(Len(ks) + 1) /\ i \in 1..(Len(vs) + 1)
  BY <1>6, <1>7, LeafPositionIs
<1>9. PICK ks2 : ks2 = InsertedAt(ks, i, key)
  OBVIOUS
<1>10. PICK vs2 : vs2 = InsertedAt(vs, i, value)
  OBVIOUS
<1>11. Grown(ks2, ks, i, key)
  BY <1>1, <1>6, <1>8, <1>9, InsertedAtIs
<1>12. Grown(vs2, vs, i, value)
  BY <1>1, <1>6, <1>8, <1>10, InsertedAtIs
<1>13. /\ DOMAIN heap' = DOMAIN heap
       /\ \A n \in DOMAIN heap : n # node => heap'[n] = heap[n]
       /\ heap'[node] = Leaf(ks2, vs2, heap[node].next)
  BY <1>4, <1>7, <1>9, <1>10 DEF InsertIntoLeaf, Current
<1>14. heap'[node].keys = ks2 /\ heap'[node].vals = vs2
  BY <1>13 DEF Leaf
<1>15. Pairs(ks2, vs2) = Pairs(ks, vs) \cup {<<key, value>>}
  <2>1. PICK a, b, k, v : a = ks /\ b = vs /\ k = key /\ v = value
    OBVIOUS
  <2>2. PICK n \in Nat : n = Len(a)
    BY <1>6, <2>1
  <2>3. Len(b) = n /\ i \in 1..(n + 1) /\ Grown(ks2, a, i, k) /\ Grown(vs2, b, i, v)
    BY <1>6, <1>8, <1>11, <1>12, <2>1, <2>2
  <2>4. Pairs(ks2, vs2) = Pairs(a, b) \cup {<<k, v>>}
    BY <2>2, <2>3, GrownPairs
  <2> QED
    BY <2>1, <2>4
<1> DEFINE E(n) == {<<heap[n].keys[j], heap[n].vals[j]>> : j \in 1..Len(heap[n].vals)}
           E2(n) == {<<heap'[n].keys[j], heap'[n].vals[j]>> : j \in 1..Len(heap'[n].vals)}
<1>16. Bindings = UNION {E(n) : n \in DOMAIN heap} /\ Bindings' = UNION {E2(n) : n \in DOMAIN heap'}
  BY DEF Bindings
<1>17. E2(node) = E(node) \cup {<<key, value>>}
  BY <1>14, <1>15 DEF Pairs
<1>18. \A n \in DOMAIN heap : n # node => E2(n) = E(n)
  BY <1>13
<1> HIDE DEF E, E2
<1> QED
  BY <1>4, <1>13, <1>16, <1>17, <1>18

\* The abstract map is that of the entries a caller may see.
LEMMA MapIs ==
  /\ AbstractMap = FromPairs(Visible)
  /\ (~damaged /\ ~Splitting => Visible = Bindings)
  /\ (damaged => Visible = {})
BY DEF AbstractMap, FromPairs, Visible

\* The new entry becomes visible.
LEMMA EntryAdded ==
  ASSUME Functional(Bindings)', Visible' = Visible \cup {<<key, value>>},
         \A b \in Visible : b[1] # key
  PROVE  /\ key \notin DOMAIN AbstractMap
         /\ AbstractMap' = [k \in DOMAIN AbstractMap \cup {key} |->
                              IF k = key THEN value ELSE AbstractMap[k]]
<1>1. PICK V, W, k, v : V = Visible /\ W = Visible' /\ k = key /\ v = value
  OBVIOUS
<1>2. AbstractMap = FromPairs(V) /\ AbstractMap' = FromPairs(W)
  BY <1>1 DEF AbstractMap, FromPairs
<1>3. Functional(W)
  <2>1. W \subseteq Bindings'
    BY <1>1 DEF Visible
  <2> QED
    BY <2>1 DEF Functional
<1>4. /\ k \notin DOMAIN FromPairs(V)
      /\ FromPairs(W) = [x \in DOMAIN FromPairs(V) \cup {k} |->
                              IF x = k THEN v ELSE FromPairs(V)[x]]
  <2>1. W = V \cup {<<k, v>>} /\ \A b \in V : b[1] # k
    BY <1>1
  <2> QED
    BY <1>3, <2>1, OneMore, ZenonT(30)
<1> QED
  BY <1>1, <1>2, <1>4


-----------------------------------------------------------------------------
(* Each step is a step of the map.                                         *)

\* No key has two offsets.
LEMMA FunctionalNow == TreeInv => Functional(Bindings)
BY BindingsFunctional

\* Nor after a step.
LEMMA FunctionalAfter == TreeInv' => Functional(Bindings)'
BY FunctionalNow, PTL

\* What a caller may see determines the map.
LEMMA SameMap == ASSUME Visible' = Visible PROVE AbstractMap' = AbstractMap
<1>1. PICK V : V = Visible
  OBVIOUS
<1>2. AbstractMap = FromPairs(V) /\ AbstractMap' = FromPairs(V)
  BY <1>1 DEF AbstractMap, FromPairs
<1> QED
  BY <1>2

\* Nothing visible is the empty map.
LEMMA NoMap == ASSUME NEW V, V = {} PROVE FromPairs(V) = [k \in {} |-> 0]
BY DEF FromPairs

\* The empty tree is the empty map.
LEMMA MapInit == ASSUME Init PROVE Map!Init
<1>1. Bindings = {}
  BY DEF Init, Bindings
<1>2. Visible = {}
  BY <1>1 DEF Visible
<1>3. AbstractMap = [k \in {} |-> 0]
  BY <1>2, NoMap, MapIs
<1> QED
  BY <1>3 DEF Init, Map!Init, Map!NoOp, AbstractOp

\* A step that shows nothing: between the first and the last of a call.
LEMMA Hidden ==
  ASSUME TreeInv, pc # "idle", pc' # "idle", pc = "search" <=> pc' = "search", damaged' = damaged,
         UNCHANGED <<key, value, reply>>, Visible' = Visible
  PROVE  UNCHANGED Map!vars
<1>1. AbstractMap' = AbstractMap
  BY SameMap
<1>2. AbstractOp' = AbstractOp
  BY DEF AbstractOp
<1> QED
  BY <1>1, <1>2 DEF Map!vars

\* Calling is the map's call.
LEMMA CallMaps ==
  ASSUME TreeInv, NEW where, NEW k, NEW v, Call(where, k, v),
         \/ where = "insert" /\ k \in Key /\ v \in Value
         \/ where = "search" /\ k \in Key /\ v = Null
  PROVE  Map!Call
<1>1. /\ pc = "idle" /\ damaged = FALSE /\ damaged' = FALSE /\ reply' = <<"none">>
      /\ heap' = heap /\ pc' = where /\ key' = k /\ value' = v
  BY DEF TreeInv, CallOK, Call
<1>2. Bindings' = Bindings
  BY <1>1 DEF Bindings
<1>3. Visible' = Visible
  BY <1>1, <1>2 DEF Visible, Splitting
<1>4. AbstractMap' = AbstractMap
  BY <1>3, SameMap
<1>5. AbstractOp = [name |-> "none"]
  BY <1>1 DEF AbstractOp
<1>6. AbstractOp' \in Map!Calls
  BY <1>1 DEF AbstractOp, Map!Calls
<1> QED
  BY <1>1, <1>4, <1>5, <1>6 DEF Map!Call, Map!NoOp

\* An insertion that returns shows its entry.
LEMMA InsertedMaps ==
  ASSUME TreeInv, TreeInv', pc \notin {"idle", "search"}, damaged = FALSE, damaged' = damaged,
         Return(<<"inserted">>), Bindings' = Bindings \cup {<<key, value>>},
         \A b \in Bindings : b[1] = key => Splitting
  PROVE  Map!Inserted
<1>1. pc' = "idle" /\ reply' = <<"inserted">>
  BY DEF Return
<1>2. Visible' = Bindings'
  BY <1>1 DEF Visible, Splitting
<1>3. Functional(Bindings)'
  BY FunctionalAfter
<1>4. \A b \in Visible : b[1] # key
  BY DEF Visible
<1>5. Visible' = Visible \cup {<<key, value>>}
  <2>1. ASSUME NEW b \in Bindings, b[1] = key PROVE b = <<key, value>>
    <3>1. PICK c : c = <<key, value>>
      OBVIOUS
    <3>2. b \in Bindings' /\ c \in Bindings' /\ b[1] = c[1]
      BY <2>1, <3>1
    <3>3. b = c
      BY <1>3, <3>2 DEF Functional
    <3> QED
      BY <3>1, <3>3
  <2>2. ASSUME NEW b \in Bindings, b[1] # key PROVE b \in Visible
    BY <2>2 DEF Visible
  <2>3. Visible \subseteq Bindings
    BY DEF Visible
  <2> QED
    BY <1>2, <2>1, <2>2, <2>3
<1>6. /\ key \notin DOMAIN AbstractMap
      /\ AbstractMap' = [k \in DOMAIN AbstractMap \cup {key} |->
                           IF k = key THEN value ELSE AbstractMap[k]]
  BY <1>3, <1>4, <1>5, EntryAdded
<1>7. AbstractOp = [name |-> "insert", key |-> key, value |-> value]
  BY DEF AbstractOp
<1>8. AbstractOp.name = "insert" /\ AbstractOp.key = key /\ AbstractOp.value = value
  BY <1>7
<1>9. AbstractOp' = [name |-> "none"]
  BY <1>1 DEF AbstractOp
<1> HIDE DEF AbstractMap
<1> QED
  BY <1>1, <1>6, <1>8, <1>9 DEF Map!Inserted, Map!Return, Map!NoOp


\* A first entry is the map's insertion.
LEMMA CreateRootMaps == ASSUME TreeInv, TreeInv', CreateRoot PROVE Map!Inserted
<1>1. /\ pc = "insert" /\ node = Null /\ damaged = FALSE /\ damaged' = damaged
      /\ Return(<<"inserted">>)
  BY DEF TreeInv, CallOK, CreateRoot
<1>2. EmptyTree
  <2>1. ASSUME NEW h, NEW R, Tree(h, R) PROVE FALSE
    <3>1. node \in DOMAIN heap /\ DOMAIN heap \subseteq Node
      BY <1>1, <2>1 DEF Tree, Running, Shape
    <3> QED
      BY <1>1, <3>1, TreeAssumption
  <2> QED
    BY <1>1, <2>1 DEF TreeInv
<1>3. Bindings = {}
  BY <1>2 DEF EmptyTree, Bindings
<1>4. Bindings' = {<<key, value>>}
  <2>1. PICK q, a, b : q = NewNode /\ a = <<key>> /\ b = <<value>>
    OBVIOUS
  <2>2. DOMAIN heap' = {q} /\ heap'[q] = Leaf(a, b, Null)
    BY <1>2, <2>1 DEF CreateRoot, Allocated, EmptyTree
  <2>3. heap'[q].keys = a /\ heap'[q].vals = b
    BY <2>2 DEF Leaf
  <2>4. Len(b) = 1 /\ a[1] = key /\ b[1] = value
    BY <2>1
  <2>5. {<<heap'[q].keys[i], heap'[q].vals[i]>> : i \in 1..Len(heap'[q].vals)} = {<<key, value>>}
    <3>1. 1..Len(b) = {1}
      BY <2>4
    <3> QED
      BY <2>3, <2>4, <3>1
  <2>6. Bindings' = UNION {{<<heap'[n].keys[i], heap'[n].vals[i]>> : i \in 1..Len(heap'[n].vals)} :
                             n \in {q}}
    BY <2>2 DEF Bindings
  <2> QED
    BY <2>5, <2>6
<1> QED
  BY <1>1, <1>3, <1>4, InsertedMaps

\* The leaf at which an insertion or a search has arrived.
LEMMA AtOwnLeaf ==
  ASSUME TreeInv, pc \in {"insert", "search"}, AtLeaf
  PROVE  /\ \A b \in Bindings : b[1] = key =>
              \E i \in 1..Len(heap[node].keys) : heap[node].keys[i] = key /\ b[2] = heap[node].vals[i]
         /\ \A i \in 1..Len(heap[node].keys) : <<heap[node].keys[i], heap[node].vals[i]>> \in Bindings
         /\ Len(heap[node].keys) \in Nat
<1>1. damaged = FALSE /\ split = NoSplit /\ node # Null /\ heap[node].leaf
  BY DEF TreeInv, CallOK, AtLeaf, Current
<1>2. PICK h, R : Tree(h, R)
  BY <1>1 DEF TreeInv, EmptyTree
<1>3. Shape(h, R, Null, Null, <<Null, 0>>)
  BY <1>1, <1>2 DEF Tree, Over, Orphan, OpenLink, NoSplit
<1>4. PICK n \in DOMAIN heap : n = node
  BY <1>2 DEF Tree, Running
<1>5. PICK k \in R[n] : k = key
  BY <1>2, <1>4 DEF Tree, Running
<1>6. NodeFacts(n)
  BY <1>3, TreeFacts
<1>7. Len(heap[n].keys) \in Nat
  BY <1>6 DEF NodeFacts
<1>8. /\ \A b \in Bindings : b[1] = k =>
           \E i \in 1..Len(heap[n].keys) : heap[n].keys[i] = k /\ b[2] = heap[n].vals[i]
      /\ \A i \in 1..Len(heap[n].keys) : <<heap[n].keys[i], heap[n].vals[i]>> \in Bindings
  BY <1>1, <1>3, <1>4, KeyInLeaf
<1> QED
  BY <1>4, <1>5, <1>7, <1>8

\* A leaf with room completes the insertion; one without shows nothing yet.
LEMMA InsertIntoLeafMaps ==
  ASSUME TreeInv, TreeInv', InsertIntoLeaf PROVE Map!Inserted \/ UNCHANGED Map!vars
<1>1. /\ pc = "insert" /\ damaged = FALSE /\ damaged' = damaged /\ AtLeaf /\ ~Has(heap[node].keys, key)
  BY DEF TreeInv, CallOK, InsertIntoLeaf, Current
<1>2. \A b \in Bindings : b[1] # key
  <2>1. \A b \in Bindings : b[1] = key => \E i \in 1..Len(heap[node].keys) : heap[node].keys[i] = key
    BY <1>1, AtOwnLeaf
  <2> QED
    BY <1>1, <2>1 DEF Has
<1>3. Bindings' = Bindings \cup {<<key, value>>}
  BY InsertIntoLeafBindings
<1>4. CASE Return(<<"inserted">>)
  BY <1>1, <1>2, <1>3, <1>4, InsertedMaps
<1>5. CASE pc' = "splitLeaf" /\ UNCHANGED <<args, node, path, split, reply>>
  <2>1. key' = key /\ value' = value /\ reply' = reply
    BY <1>5 DEF args
  <2>2. Visible = Bindings
    BY <1>1 DEF Visible, Splitting
  <2>3. Visible' = {b \in Bindings' : b[1] # key}
    BY <1>1, <1>5, <2>1 DEF Visible, Splitting
  <2>4. Visible' = Visible
    BY <1>2, <1>3, <2>2, <2>3
  <2> QED
    BY <1>1, <1>5, <2>1, <2>4, Hidden
<1> QED
  BY <1>4, <1>5 DEF InsertIntoLeaf

\* Splits move entries and keep them.
LEMMA SplitMaps ==
  ASSUME TreeInv, TreeInv', SplitLeaf \/ SplitInternal \/ AbsorbSplit
  PROVE  Map!Inserted \/ UNCHANGED Map!vars
<1>1. Bindings' = Bindings
  BY SplitLeafBindings, SplitInternalBindings, AbsorbBindings
<1>2. /\ damaged = FALSE /\ damaged' = damaged /\ Splitting /\ pc # "idle" /\ pc # "search"
      /\ <<key, value>> \in Bindings
  BY DEF TreeInv, CallOK, SplitLeaf, SplitInternal, AbsorbSplit, Splitting
<1>3. \/ Return(<<"inserted">>)
      \/ pc' \in {"absorb", "splitInternal"} /\ key' = key /\ value' = value /\ reply' = reply
  BY DEF SplitLeaf, SplitInternal, AbsorbSplit, args
<1>4. CASE Return(<<"inserted">>)
  <2>1. Bindings' = Bindings \cup {<<key, value>>}
    BY <1>1, <1>2
  <2> QED
    BY <1>2, <1>4, <2>1, InsertedMaps
<1>5. CASE pc' \in {"absorb", "splitInternal"} /\ key' = key /\ value' = value /\ reply' = reply
  <2>1. Visible' = Visible
    BY <1>1, <1>2, <1>5 DEF Visible, Splitting
  <2> QED
    BY <1>2, <1>5, <2>1, Hidden
<1> QED
  BY <1>3, <1>4, <1>5

\* Completing a split of the root completes the insertion.
LEMMA GrowRootMaps == ASSUME TreeInv, TreeInv', GrowRoot PROVE Map!Inserted
<1>1. Bindings' = Bindings
  BY GrowRootKeeps
<1>2. /\ damaged = FALSE /\ damaged' = damaged /\ Splitting /\ pc # "idle" /\ pc # "search"
      /\ <<key, value>> \in Bindings /\ Return(<<"inserted">>)
  BY DEF TreeInv, CallOK, GrowRoot, Splitting
<1>3. Bindings' = Bindings \cup {<<key, value>>}
  BY <1>1, <1>2
<1> QED
  BY <1>2, <1>3, InsertedMaps

\* Going down shows nothing to the caller.
LEMMA DescendMaps ==
  ASSUME TreeInv, TreeInv', Descend \/ SearchDescend PROVE UNCHANGED Map!vars
<1>1. /\ heap' = heap /\ pc' = pc /\ key' = key /\ value' = value /\ damaged' = damaged
      /\ reply' = reply /\ pc # "idle"
  BY DEF Descend, SearchDescend, args
<1>2. Bindings' = Bindings
  BY <1>1 DEF Bindings
<1>3. Visible' = Visible
  BY <1>1, <1>2 DEF Visible, Splitting
<1> QED
  BY <1>1, <1>3, Hidden

\* The leaf that owns a key has it if any leaf has: the refusal is right.
LEMMA RefuseDuplicateMaps ==
  ASSUME TreeInv, TreeInv', RefuseDuplicate PROVE Map!Duplicate
<1>1. /\ pc = "insert" /\ damaged = FALSE /\ damaged' = damaged /\ AtLeaf /\ Has(heap[node].keys, key)
      /\ Return(<<"duplicate">>) /\ heap' = heap
  BY DEF TreeInv, CallOK, RefuseDuplicate, Current
<1>2. PICK i \in 1..Len(heap[node].keys) : heap[node].keys[i] = key
  BY <1>1 DEF Has
<1>3. <<heap[node].keys[i], heap[node].vals[i]>> \in Bindings
  BY <1>1, AtOwnLeaf
<1>4. Visible = Bindings /\ Bindings' = Bindings
  BY <1>1 DEF Visible, Splitting, Bindings
<1>5. Visible' = Visible
  BY <1>1, <1>4 DEF Visible, Splitting, Return
<1>6. AbstractMap' = AbstractMap
  BY <1>5, SameMap
<1>7. key \in DOMAIN AbstractMap
  <2>1. PICK b : b = <<heap[node].keys[i], heap[node].vals[i]>>
    OBVIOUS
  <2>2. b \in Visible /\ b[1] = key
    BY <1>2, <1>3, <1>4, <2>1
  <2>3. DOMAIN AbstractMap = {c[1] : c \in Visible}
    BY DEF AbstractMap
  <2> QED
    BY <2>2, <2>3
<1>8. AbstractOp = [name |-> "insert", key |-> key, value |-> value] /\ AbstractOp' = [name |-> "none"]
  BY <1>1 DEF AbstractOp, Return
<1>9. AbstractOp.name = "insert" /\ AbstractOp.key = key
  BY <1>8
<1> HIDE DEF AbstractMap
<1> QED
  BY <1>1, <1>6, <1>7, <1>8, <1>9 DEF Map!Duplicate, Map!Return, Map!NoOp, Return


\* The leaf that owns a key has it if any leaf has: the answer is right.
LEMMA SearchReturnsMaps ==
  ASSUME TreeInv, TreeInv', SearchReturns PROVE Map!Found
<1>1. /\ pc = "search" /\ damaged = FALSE /\ damaged' = damaged /\ heap' = heap /\ pc' = "idle"
      /\ key' = Null
  BY DEF TreeInv, CallOK, SearchReturns, Return
<1>2. Visible = Bindings /\ Bindings' = Bindings
  BY <1>1 DEF Visible, Splitting, Bindings
<1>3. Visible' = Visible
  BY <1>1, <1>2 DEF Visible, Splitting
<1>4. AbstractMap' = AbstractMap
  BY <1>3, SameMap
<1>5. AbstractOp = [name |-> "search", key |-> key] /\ AbstractOp' = [name |-> "none"]
  BY <1>1 DEF AbstractOp
<1>6. AbstractOp.name = "search" /\ AbstractOp.key = key
  BY <1>5
<1>7. /\ DOMAIN AbstractMap = {b[1] : b \in Bindings}
      /\ \A b \in Bindings : AbstractMap[b[1]] = b[2]
  <2>1. PICK V : V = Bindings
    OBVIOUS
  <2>2. AbstractMap = FromPairs(V)
    BY <1>2, <2>1, MapIs
  <2>3. Functional(V)
    BY <2>1, BindingsFunctional
  <2>4. /\ DOMAIN FromPairs(V) = {b[1] : b \in V}
        /\ \A b \in V : FromPairs(V)[b[1]] = b[2]
    BY <2>3, FromPairsIs
  <2> QED
    BY <2>1, <2>2, <2>4
<1>8. reply' = IF key \in DOMAIN AbstractMap THEN <<"found", AbstractMap[key]>> ELSE <<"absent">>
  <2> DEFINE hits == {i \in 1..Len(heap[node].keys) : heap[node].keys[i] = key}
  <2>1. CASE node = Null
    <3>1. EmptyTree
      <4>1. ASSUME NEW h, NEW R, Tree(h, R) PROVE FALSE
        <5>1. node \in DOMAIN heap /\ DOMAIN heap \subseteq Node
          BY <1>1, <4>1 DEF Tree, Running, Shape
        <5> QED
          BY <2>1, <5>1, TreeAssumption
      <4> QED
        BY <1>1, <4>1 DEF TreeInv
    <3>2. Bindings = {}
      BY <3>1 DEF EmptyTree, Bindings
    <3>3. reply' = <<"absent">>
      BY <2>1 DEF SearchReturns, Return
    <3> QED
      BY <1>7, <3>2, <3>3
  <2>2. CASE node # Null /\ hits = {}
    <3>1. reply' = <<"absent">>
      BY <2>2 DEF SearchReturns, Return, Current
    <3>2. AtLeaf
      BY <2>2 DEF SearchReturns
    <3>3. \A b \in Bindings : b[1] # key
      <4>1. \A b \in Bindings : b[1] = key => \E i \in 1..Len(heap[node].keys) : heap[node].keys[i] = key
        BY <1>1, <3>2, AtOwnLeaf
      <4> QED
        BY <2>2, <4>1
    <3>4. key \notin DOMAIN AbstractMap
      BY <1>7, <3>3
    <3> QED
      BY <3>1, <3>4
  <2>3. CASE node # Null /\ hits # {}
    <3>1. PICK S : S = hits
      OBVIOUS
    <3>2. PICK c : c = CHOOSE i \in S : \A j \in S : i <= j
      OBVIOUS
    <3>3. AtLeaf
      BY <2>3 DEF SearchReturns
    <3>4. Len(heap[node].keys) \in Nat
      BY <1>1, <3>3, AtOwnLeaf
    <3>5. S \subseteq Nat /\ S # {}
      BY <2>3, <3>1, <3>4
    <3>6. \E i \in S : \A j \in S : i <= j
      BY <3>5, LeastOf
    <3>7. c \in S
      BY <3>2, <3>6
    <3>8. c \in 1..Len(heap[node].keys) /\ heap[node].keys[c] = key
      BY <3>1, <3>7
    <3>9. PICK b : b = <<heap[node].keys[c], heap[node].vals[c]>>
      OBVIOUS
    <3>10. b \in Bindings /\ b[1] = key /\ b[2] = heap[node].vals[c]
      <4>1. <<heap[node].keys[c], heap[node].vals[c]>> \in Bindings
        BY <1>1, <3>3, <3>8, AtOwnLeaf
      <4> QED
        BY <3>8, <3>9, <4>1
    <3>11. reply' = <<"found", heap[node].vals[c]>>
      BY <2>3, <3>1, <3>2 DEF SearchReturns, Return, Current
    <3> HIDE DEF AbstractMap
    <3> QED
      BY <1>7, <3>10, <3>11
  <2> QED
    BY <2>1, <2>2, <2>3
<1> HIDE DEF AbstractMap
<1> QED
  BY <1>1, <1>4, <1>5, <1>6, <1>8 DEF Map!Found, Map!Return, Map!NoOp

\* A call without memory is the map's.
LEMMA OutOfMemoryMaps ==
  ASSUME TreeInv, TreeInv', OutOfMemory PROVE Map!OutOfMemory
<1>1. /\ pc \notin {"idle", "search"} /\ damaged' = TRUE /\ pc' = "idle" /\ reply' = <<"outOfMemory">>
  BY DEF OutOfMemory, CreateRootFails, SplitLeafFails, SplitInternalFails, GrowRootFails, Fail, Return
<1>2. Visible' = {}
  BY <1>1 DEF Visible
<1>3. AbstractMap' = [k \in {} |-> 0]
  <2>1. PICK V : V = Visible'
    OBVIOUS
  <2>2. AbstractMap' = FromPairs(V)
    BY <2>1 DEF AbstractMap, FromPairs
  <2> QED
    BY <1>2, <2>1, <2>2, NoMap
<1>4. AbstractOp = [name |-> "insert", key |-> key, value |-> value] /\ AbstractOp' = [name |-> "none"]
  BY <1>1 DEF AbstractOp
<1>5. AbstractOp.name = "insert"
  BY <1>4
<1> QED
  BY <1>1, <1>3, <1>4, <1>5 DEF Map!OutOfMemory, Map!Return, Map!NoOp

\* bptree_free empties the map.
LEMMA FreeMaps == ASSUME TreeInv, TreeInv', FreeTree PROVE Map!Free
<1>1. pc = "idle" /\ pc' = "idle" /\ damaged' = FALSE /\ reply' = <<"none">> /\ DOMAIN heap' = {}
  BY DEF FreeTree
<1>2. Visible' = {}
  BY <1>1 DEF Visible, Bindings
<1>3. AbstractMap' = [k \in {} |-> 0]
  <2>1. PICK V : V = Visible'
    OBVIOUS
  <2>2. AbstractMap' = FromPairs(V)
    BY <2>1 DEF AbstractMap, FromPairs
  <2> QED
    BY <1>2, <2>1, <2>2, NoMap
<1>4. AbstractOp = [name |-> "none"] /\ AbstractOp' = [name |-> "none"]
  BY <1>1 DEF AbstractOp
<1> QED
  BY <1>1, <1>3, <1>4 DEF Map!Free, Map!NoOp

\* Every step is a step of the map or none.
LEMMA MapStep == ASSUME TreeInv, TreeInv', [Next]_vars PROVE [Map!Next]_(Map!vars)
<1>1. CASE \E e \in Entries : Insert(e[1], e[2])
  <2>1. PICK e \in Entries : Insert(e[1], e[2])
    BY <1>1
  <2>2. PICK k, v : k = e[1] /\ v = e[2]
    OBVIOUS
  <2>3. Call("insert", k, v) /\ k \in Key /\ v \in Value
    BY <2>1, <2>2, TreeAssumption DEF Insert
  <2>4. Map!Call
    BY <2>3, CallMaps
  <2> QED
    BY <2>4 DEF Map!Next
<1>2. CASE \E k \in Key : Search(k)
  <2>1. PICK k \in Key : Call("search", k, Null)
    BY <1>2 DEF Search
  <2>2. Map!Call
    BY <2>1, CallMaps
  <2> QED
    BY <2>2 DEF Map!Next
<1>3. CASE InsertStep
  BY <1>3, CreateRootMaps, DescendMaps, RefuseDuplicateMaps, InsertIntoLeafMaps, SplitMaps,
     GrowRootMaps DEF InsertStep, Map!Next
<1>4. CASE OutOfMemory
  BY <1>4, OutOfMemoryMaps DEF Map!Next
<1>5. CASE SearchStep
  BY <1>5, DescendMaps, SearchReturnsMaps DEF SearchStep, Map!Next
<1>6. CASE FreeTree
  BY <1>6, FreeMaps DEF Map!Next
<1>7. CASE UNCHANGED vars
  <2>1. /\ heap' = heap /\ pc' = pc /\ key' = key /\ value' = value /\ damaged' = damaged
        /\ reply' = reply
    BY <1>7 DEF vars
  <2>2. Bindings' = Bindings
    BY <2>1 DEF Bindings
  <2>3. Visible' = Visible
    BY <2>1, <2>2 DEF Visible, Splitting
  <2>4. AbstractMap' = AbstractMap /\ AbstractOp' = AbstractOp
    BY <2>1, <2>3, SameMap DEF AbstractOp
  <2> QED
    BY <2>1, <2>4 DEF Map!vars
<1> QED
  BY <1>1, <1>2, <1>3, <1>4, <1>5, <1>6, <1>7 DEF Next

\* The tree is a map for its callers: an insertion adds exactly its entry or
\* nothing, and a search finds exactly what was inserted (bptree_insert,
\* bptree_search).
THEOREM TreeIsMap == Spec => ImplementsIdMap
<1>1. Init => Map!Init
  BY MapInit
<1>2. TreeInv /\ TreeInv' /\ [Next]_vars => [Map!Next]_(Map!vars)
  BY MapStep
<1> QED
  BY <1>1, <1>2, TreeInvariant, PTL DEF Spec, ImplementsIdMap, Map!Spec


-----------------------------------------------------------------------------
(* The nodes below a node: what free_node visits.                          *)

\* The smallest set with n that has the children of its members.
Reached(n) ==
  {m \in DOMAIN heap :
     \A A \in SUBSET DOMAIN heap : n \in A /\ (\A x \in A : Kids(x) \subseteq A) => m \in A}

\* The equation that defines what lies below a node.
IsSubtree(f) == f = [n \in DOMAIN heap |-> {n} \cup UNION {f[m] : m \in Kids(n)}]

\* The recursive definition of Subtree has a solution, the reachable nodes.
LEMMA SubtreeIs ==
  ASSUME \A n \in DOMAIN heap : Kids(n) \subseteq DOMAIN heap
  PROVE  IsSubtree(Subtree)
<1> DEFINE R == [n \in DOMAIN heap |-> Reached(n)]
<1>1. ASSUME NEW n \in DOMAIN heap PROVE R[n] = {n} \cup UNION {R[m] : m \in Kids(n)}
  <2> DEFINE B == {n} \cup UNION {R[m] : m \in Kids(n)}
  <2>1. B \subseteq DOMAIN heap
    BY DEF Reached
  <2>2. \A x \in B : Kids(x) \subseteq B
    <3> SUFFICES ASSUME NEW x \in B, NEW y \in Kids(x) PROVE y \in B
      OBVIOUS
    <3>1. CASE x = n
      <4>1. y \in DOMAIN heap
        BY <3>1
      <4>2. y \in Reached(y)
        BY <4>1 DEF Reached
      <4> QED
        BY <3>1, <4>1, <4>2
    <3>2. CASE \E m \in Kids(n) : x \in R[m]
      <4>1. PICK m \in Kids(n) : x \in R[m]
        BY <3>2
      <4>2. y \in DOMAIN heap /\ m \in DOMAIN heap /\ x \in Reached(m)
        BY <4>1 DEF Reached
      <4>3. y \in Reached(m)
        BY <4>2 DEF Reached
      <4> QED
        BY <4>1, <4>2, <4>3
    <3> QED
      BY <3>1, <3>2
  <2>3. R[n] \subseteq B
    BY <2>1, <2>2 DEF Reached
  <2>4. n \in R[n]
    BY DEF Reached
  <2>5. ASSUME NEW m \in Kids(n), NEW x \in R[m] PROVE x \in R[n]
    BY <2>5 DEF Reached
  <2> QED
    BY <2>3, <2>4, <2>5
<1>2. IsSubtree(R)
  BY <1>1, Zenon DEF IsSubtree
<1>3. IsSubtree(CHOOSE f : IsSubtree(f))
  BY <1>2, Zenon
<1>4. Subtree = CHOOSE f : IsSubtree(f)
  BY Zenon DEF Subtree, IsSubtree
<1> QED
  BY <1>3, <1>4

\* What the invariant says of one child.
LEMMA KidsFacts ==
  ASSUME NEW h, NEW R, NEW over, NEW orphan, NEW link, Shape(h, R, over, orphan, link),
         NEW m \in DOMAIN heap, NEW c \in Kids(m)
  PROVE  /\ c \in DOMAIN heap /\ h[m] = h[c] + 1 /\ R[c] \subseteq R[m]
         /\ h[m] \in Nat /\ h[c] \in Nat
         /\ \E i \in 1..Len(heap[m].kids) : c = heap[m].kids[i] /\ R[c] \subseteq Slot(R, m, i)
<1>1. KidsOK(h, R, m, orphan, link)
  BY TreeFacts
<1>2. PICK i \in 1..Len(heap[m].kids) : c = heap[m].kids[i]
  BY DEF Kids
<1>3. c \in DOMAIN heap /\ h[m] = h[c] + 1 /\ R[c] \subseteq Slot(R, m, i)
  BY <1>1, <1>2 DEF KidsOK
<1>4. R[c] \subseteq R[m]
  BY <1>3 DEF Slot
<1>5. h[m] \in Nat /\ h[c] \in Nat
  BY <1>3, TreeFacts
<1> QED
  BY <1>2, <1>3, <1>4, <1>5

\* Subtree satisfies its equation on a sound tree.
LEMMA SubtreeOf ==
  ASSUME NEW h, NEW R, NEW over, NEW orphan, NEW link, Shape(h, R, over, orphan, link),
         NEW n \in DOMAIN heap
  PROVE  Subtree[n] = {n} \cup UNION {Subtree[m] : m \in Kids(n)}
<1>1. \A m \in DOMAIN heap : Kids(m) \subseteq DOMAIN heap
  BY KidsFacts
<1>2. IsSubtree(Subtree)
  BY <1>1, SubtreeIs
<1>3. PICK S : S = Subtree /\ IsSubtree(S)
  BY <1>2
<1>4. S = [m \in DOMAIN heap |-> {m} \cup UNION {S[c] : c \in Kids(m)}]
  BY <1>3, Zenon DEF IsSubtree
<1>5. S[n] = {n} \cup UNION {S[c] : c \in Kids(n)}
  BY <1>4, Zenon
<1> QED
  BY <1>3, <1>5, Zenon

\* What lies below a node owns none but its keys, and is all that is linked.
Closed(R, n) ==
  /\ n \in Subtree[n]
  /\ \A x \in Subtree[n] : x \in DOMAIN heap /\ R[x] \subseteq R[n] /\ Kids(x) \subseteq Subtree[n]

\* By induction on the height: the nodes below own keys of the node only.
LEMMA SubtreeClosed ==
  ASSUME NEW h, NEW R, NEW over, NEW orphan, NEW link, Shape(h, R, over, orphan, link),
         NEW n \in DOMAIN heap
  PROVE  Closed(R, n)
<1> DEFINE bad == {m \in DOMAIN heap : ~Closed(R, m)}
           S == {h[m] : m \in bad}
<1> SUFFICES ASSUME bad # {} PROVE FALSE
  OBVIOUS
<1>1. S \subseteq Nat /\ S # {}
  <2>1. \A m \in DOMAIN heap : h[m] \in Nat
    BY TreeFacts
  <2> QED
    BY <2>1
<1> HIDE DEF S
<1>2. \E x \in S : \A y \in S : x <= y
  BY <1>1, LeastOf
<1>3. PICK m \in bad : \A y \in bad : h[m] <= h[y]
  BY <1>2 DEF S
<1>4. \A c \in Kids(m) : /\ c \in DOMAIN heap /\ h[m] = h[c] + 1 /\ R[c] \subseteq R[m]
                         /\ h[m] \in Nat /\ h[c] \in Nat
  BY KidsFacts
<1>5. \A c \in Kids(m) : Closed(R, c)
  <2> SUFFICES ASSUME NEW c \in Kids(m), ~Closed(R, c) PROVE FALSE
    OBVIOUS
  <2>1. c \in bad
    BY <1>4
  <2>2. h[m] <= h[c] /\ h[m] = h[c] + 1 /\ h[c] \in Nat
    BY <1>3, <1>4, <2>1
  <2> QED
    BY <2>2
<1>6. Subtree[m] = {m} \cup UNION {Subtree[c] : c \in Kids(m)}
  BY SubtreeOf
<1>7. ASSUME NEW x \in Subtree[m]
      PROVE  x \in DOMAIN heap /\ R[x] \subseteq R[m] /\ Kids(x) \subseteq Subtree[m]
  <2>1. CASE x = m
    <3>1. \A c \in Kids(m) : c \in Subtree[c]
      BY <1>5 DEF Closed
    <3> QED
      BY <1>6, <2>1, <3>1
  <2>2. CASE x # m
    <3>1. PICK c \in Kids(m) : x \in Subtree[c]
      BY <1>6, <2>2
    <3>2. x \in DOMAIN heap /\ R[x] \subseteq R[c] /\ Kids(x) \subseteq Subtree[c]
      BY <1>5, <3>1 DEF Closed
    <3> QED
      BY <1>4, <1>6, <3>1, <3>2
  <2> QED
    BY <2>1, <2>2
<1>8. Closed(R, m)
  BY <1>6, <1>7 DEF Closed
<1> QED
  BY <1>8

\* Every node lies below the root or below the node without a parent.
LEMMA AllReached ==
  ASSUME NEW h, NEW R, NEW over, NEW orphan, NEW link, Shape(h, R, over, orphan, link),
         NEW n \in DOMAIN heap
  PROVE  n \in Subtree[root] \/ (orphan \in DOMAIN heap /\ n \in Subtree[orphan])
<1> DEFINE Met(m) == m \in Subtree[root] \/ (orphan \in DOMAIN heap /\ m \in Subtree[orphan])
           bad == {m \in DOMAIN heap : ~Met(m)}
           S == {h[root] - h[m] : m \in bad}
<1> SUFFICES ASSUME bad # {} PROVE FALSE
  OBVIOUS
<1>0. root \in DOMAIN heap /\ \A m \in DOMAIN heap : h[m] <= h[root]
  BY DEF Shape, RootOK
<1>1. S \subseteq Nat /\ S # {}
  <2>1. \A m \in DOMAIN heap : h[m] \in Nat
    BY TreeFacts
  <2>2. \A m \in DOMAIN heap : h[root] - h[m] \in Nat
    BY <1>0, <2>1
  <2> QED
    BY <2>2
<1> HIDE DEF S
<1>2. \E x \in S : \A y \in S : x <= y
  BY <1>1, LeastOf
<1>3. PICK m \in bad : \A y \in bad : h[root] - h[m] <= h[root] - h[y]
  BY <1>2 DEF S
<1>4. \A x \in DOMAIN heap : Closed(R, x)
  BY SubtreeClosed
<1>5. m # root /\ m # orphan
  <2>1. m \in DOMAIN heap /\ ~Met(m) /\ m \in Subtree[m]
    BY <1>3, <1>4 DEF Closed
  <2> QED
    BY <2>1
<1>6. PICK p \in DOMAIN heap : m \in Kids(p)
  <2>1. Linked(m)
    BY <1>3, <1>5 DEF Shape, AllLinked
  <2> QED
    BY <2>1 DEF Linked, Kids
<1>7. h[p] = h[m] + 1 /\ h[p] \in Nat /\ h[m] \in Nat /\ h[root] \in Nat
  BY <1>0, <1>6, KidsFacts, TreeFacts
<1>8. Met(p)
  <2>1. ~(h[root] - h[m] <= h[root] - h[p])
    BY <1>7
  <2> QED
    BY <1>3, <2>1
<1>9. Met(m)
  <2>1. CASE p \in Subtree[root]
    <3>1. Closed(R, root)
      BY <1>0, <1>4
    <3> QED
      BY <1>6, <2>1, <3>1 DEF Closed
  <2>2. CASE orphan \in DOMAIN heap /\ p \in Subtree[orphan]
    <3>1. Closed(R, orphan)
      BY <1>4, <2>2
    <3> QED
      BY <1>6, <2>2, <3>1 DEF Closed
  <2> QED
    BY <1>8, <2>1, <2>2
<1> QED
  BY <1>9

\* By induction on the height: Height computes h.
LEMMA HeightIs ==
  ASSUME NEW h, NEW R, NEW over, NEW orphan, NEW link, Shape(h, R, over, orphan, link)
  PROVE  \A n \in DOMAIN heap : Height[n] = h[n]
<1> DEFINE Eq(f) == f = [n \in DOMAIN heap |-> IF heap[n].leaf THEN 0 ELSE 1 + f[heap[n].kids[1]]]
<1>1. ASSUME NEW n \in DOMAIN heap
      PROVE  /\ h[n] = IF heap[n].leaf THEN 0 ELSE 1 + h[heap[n].kids[1]]
             /\ h[n] \in Nat
             /\ ~heap[n].leaf => /\ heap[n].kids[1] \in DOMAIN heap /\ h[heap[n].kids[1]] \in Nat
                                 /\ h[n] = h[heap[n].kids[1]] + 1
  <2>1. NodeOK(h, R, n, over) /\ NodeFacts(n) /\ h[n] \in Nat
    BY TreeFacts
  <2>2. CASE heap[n].leaf
    BY <2>1, <2>2 DEF NodeOK
  <2>3. CASE ~heap[n].leaf
    <3>1. 1 \in 1..Len(heap[n].kids)
      BY <2>1, <2>3 DEF NodeOK, NodeFacts
    <3>2. PICK c \in Kids(n) : c = heap[n].kids[1]
      BY <3>1 DEF Kids
    <3>3. c \in DOMAIN heap /\ h[n] = h[c] + 1 /\ h[c] \in Nat
      BY KidsFacts
    <3> QED
      BY <2>1, <2>3, <3>2, <3>3
  <2> QED
    BY <2>2, <2>3
<1>2. h = [n \in DOMAIN heap |-> h[n]]
  BY DEF Shape
<1>3. Eq(h)
  BY <1>1, <1>2
<1>4. Eq(CHOOSE f : Eq(f))
  BY <1>3, Zenon
<1>5. Height = CHOOSE f : Eq(f)
  BY DEF Height
<1> HIDE DEF Eq
<1>6. Eq(Height)
  BY <1>4, <1>5
<1>7. PICK f : f = Height
  OBVIOUS
<1>8. \A n \in DOMAIN heap : f[n] = IF heap[n].leaf THEN 0 ELSE 1 + f[heap[n].kids[1]]
  BY <1>6, <1>7 DEF Eq
<1> DEFINE bad == {n \in DOMAIN heap : f[n] # h[n]}
           S == {h[n] : n \in bad}
<1>9. bad = {}
  <2> SUFFICES ASSUME bad # {} PROVE FALSE
    OBVIOUS
  <2>1. S \subseteq Nat /\ S # {}
    BY <1>1
  <2> HIDE DEF S
  <2>2. \E x \in S : \A y \in S : x <= y
    BY <2>1, LeastOf
  <2>3. PICK m \in bad : \A y \in bad : h[m] <= h[y]
    BY <2>2 DEF S
  <2>4. CASE heap[m].leaf
    BY <1>1, <1>8, <2>3, <2>4
  <2>5. CASE ~heap[m].leaf
    <3>1. PICK c : c = heap[m].kids[1]
      OBVIOUS
    <3>2. c \in DOMAIN heap /\ h[c] \in Nat /\ h[m] = h[c] + 1 /\ f[m] = 1 + f[c]
      BY <1>1, <1>8, <2>3, <2>5, <3>1
    <3>3. ~(h[m] <= h[c])
      BY <3>2
    <3>4. f[c] = h[c]
      BY <2>3, <3>2, <3>3
    <3>5. f[m] = h[m]
      BY <3>2, <3>4
    <3> QED
      BY <2>3, <3>5
  <2> QED
    BY <2>4, <2>5
<1> QED
  BY <1>7, <1>9


-----------------------------------------------------------------------------
(* Between calls.                                                          *)

\* The tree between two calls.
LEMMA IdleShape ==
  ASSUME TreeInv, ~EmptyTree, pc = "idle"
  PROVE  \E h, R, over, orphan, link :
           /\ link = <<Null, 0>>
           /\ Shape(h, R, over, orphan, link)
           /\ orphan # Null => h[orphan] = h[root]
           /\ ~damaged => over = Null /\ orphan = Null
<1>1. PICK h, R, over, orphan, link :
        /\ Shape(h, R, over, orphan, link)
        /\ ~damaged => Tree(h, R) /\ over = Over /\ orphan = Orphan /\ link = OpenLink
        /\ damaged => /\ link = <<Null, 0>>
                      /\ orphan # Null => h[orphan] = h[root]
  BY TreeShape
<1>2. split = NoSplit
  BY DEF TreeInv, CallOK
<1>3. Over = Null /\ Orphan = Null /\ OpenLink = <<Null, 0>>
  BY <1>2 DEF Over, Orphan, OpenLink, NoSplit
<1> QED
  BY <1>1, <1>3

\* What is reachable from the root.
LEMMA LiveIs ==
  ASSUME NEW h, NEW R, NEW over, NEW orphan, NEW link, Shape(h, R, over, orphan, link)
  PROVE  /\ Live = Subtree[root] /\ root \in Live /\ root \in DOMAIN heap
         /\ \A x \in Live : x \in DOMAIN heap /\ R[x] \subseteq R[root] /\ Kids(x) \subseteq Live
         /\ orphan = Null => Live = DOMAIN heap
<1>1. root \in DOMAIN heap /\ root # Null
  <2>1. root \in DOMAIN heap
    BY DEF Shape, RootOK
  <2> QED
    BY <2>1, TreeFacts
<1>2. Live = Subtree[root]
  BY <1>1 DEF Live
<1>3. Closed(R, root)
  BY <1>1, SubtreeClosed
<1>4. root \in Live /\ \A x \in Live : x \in DOMAIN heap /\ R[x] \subseteq R[root] /\ Kids(x) \subseteq Live
  BY <1>2, <1>3 DEF Closed
<1>5. ASSUME orphan = Null PROVE Live = DOMAIN heap
  <2>1. ASSUME NEW n \in DOMAIN heap PROVE n \in Live
    <3>1. n \in Subtree[root] \/ (orphan \in DOMAIN heap /\ n \in Subtree[orphan])
      BY AllReached
    <3>2. orphan \notin DOMAIN heap
      BY <1>5, TreeAssumption DEF Shape
    <3> QED
      BY <1>2, <3>1, <3>2
  <2> QED
    BY <1>4, <2>1
<1> QED
  BY <1>1, <1>2, <1>4, <1>5

\* A tree without a node has no live one.
LEMMA EmptyLive == ASSUME EmptyTree PROVE Live = {} /\ DOMAIN heap = {}
BY DEF EmptyTree, Live

\* Between calls every node but the root is at least half full, none is over
\* full, and all leaves are equally deep (insert_into_leaf,
\* insert_into_internal, the new root of bptree_insert).
THEOREM TreeBalanced == Spec => []Balanced
<1>1. TreeInv => Balanced
  <2> SUFFICES ASSUME TreeInv, Settled PROVE Balanced
    BY DEF Balanced
  <2>1. CASE EmptyTree
    <3>1. Live = {}
      BY <2>1, EmptyLive
    <3> QED
      BY <3>1 DEF Balanced
  <2>2. CASE ~EmptyTree
    <3>1. pc = "idle" /\ ~damaged
      BY DEF Settled
    <3>2. PICK h, R, over, orphan, link :
            /\ Shape(h, R, over, orphan, link)
            /\ ~damaged => over = Null /\ orphan = Null
      BY <2>2, <3>1, IdleShape
    <3>3. \A n \in Live : n \in DOMAIN heap
      BY <3>2, LiveIs
    <3>4. ASSUME NEW n \in Live
          PROVE  /\ Len(heap[n].keys) <= MaxKeys
                 /\ n = root => Len(heap[n].keys) >= 1
                 /\ n # root => Len(heap[n].keys) >= Half(n)
                 /\ Len(heap[n].vals) = (IF heap[n].leaf THEN Len(heap[n].keys) ELSE 0)
                 /\ Len(heap[n].kids) = (IF heap[n].leaf THEN 0 ELSE Len(heap[n].keys) + 1)
      <4>1. NodeOK(h, R, n, over) /\ n # Null
        BY <3>2, <3>3, <3>4, TreeFacts
      <4>2. (n = over) = FALSE
        BY <3>1, <3>2, <4>1
      <4>3. Len(<<>>) = 0
        OBVIOUS
      <4> QED
        BY <4>1, <4>2, <4>3 DEF NodeOK
    <3>5. ASSUME NEW n \in Live, NEW m1 \in Kids(n), NEW m2 \in Kids(n) PROVE Height[m1] = Height[m2]
      <4>1. /\ m1 \in DOMAIN heap /\ h[n] = h[m1] + 1 /\ h[m1] \in Nat
            /\ m2 \in DOMAIN heap /\ h[n] = h[m2] + 1 /\ h[m2] \in Nat
        BY <3>2, <3>3, <3>5, KidsFacts
      <4>2. Height[m1] = h[m1] /\ Height[m2] = h[m2]
        BY <3>2, <4>1, HeightIs
      <4> QED
        BY <4>1, <4>2
    <3> QED
      BY <3>4, <3>5 DEF Balanced, Half
  <2> QED
    BY <2>1, <2>2
<1> QED
  BY <1>1, TreeInvariant, PTL

\* The first keys of leaves are in the order of the leaves.
LEMMA FirstKeys ==
  ASSUME NEW h, NEW R, NEW over, NEW orphan, NEW link, Shape(h, R, over, orphan, link),
         NEW m \in DOMAIN heap, NEW n \in DOMAIN heap, Before(R[m], R[n])
  PROVE  /\ heap[m].keys[1] < heap[n].keys[1]
         /\ heap[m].keys[1] \in Int /\ heap[n].keys[1] \in Int
<1>1. NodeOK(h, R, m, over) /\ NodeOK(h, R, n, over)
  BY TreeFacts
<1>2. heap[m].keys[1] \in R[m] /\ heap[n].keys[1] \in R[n]
  BY <1>1, RegionsInhabited
<1>3. heap[m].keys[1] \in Int /\ heap[n].keys[1] \in Int
  BY <1>1, RegionsInhabited
<1> QED
  BY <1>2, <1>3 DEF Before

\* Between calls the keys are in order down the tree, which is what
\* find_child_index relies on, and along the next pointers of the leaves.
THEOREM TreeSorted == Spec => []KeysAscend
<1>1. TreeInv => KeysAscend
  <2> SUFFICES ASSUME TreeInv, Settled PROVE SeparatorsSeparate /\ LeafChainAscends
    BY DEF KeysAscend
  <2>1. CASE EmptyTree
    <3>1. Live = {}
      BY <2>1, EmptyLive
    <3> QED
      BY <3>1 DEF SeparatorsSeparate, LeafChainAscends, Leaves
  <2>2. CASE ~EmptyTree
    <3>1. pc = "idle" /\ ~damaged
      BY DEF Settled
    <3>2. PICK h, R, over, orphan, link :
            /\ Shape(h, R, over, orphan, link)
            /\ ~damaged => over = Null /\ orphan = Null
      BY <2>2, <3>1, IdleShape
    <3>3. Live = DOMAIN heap
      BY <3>1, <3>2, LiveIs
    <3>4. \A n \in DOMAIN heap : Closed(R, n)
      BY <3>2, SubtreeClosed
    <3>5. ASSUME NEW m \in DOMAIN heap, NEW k \in KeysOf(m) PROVE k \in R[m]
      <4>1. PICK x \in Subtree[m] : \E j \in 1..Len(heap[x].keys) : k = heap[x].keys[j]
        BY DEF KeysOf
      <4>2. x \in DOMAIN heap /\ R[x] \subseteq R[m]
        BY <3>4 DEF Closed
      <4>3. NodeOK(h, R, x, over)
        BY <3>2, <4>2, TreeFacts
      <4> QED
        BY <4>1, <4>2, <4>3 DEF NodeOK
    <3>6. ASSUME NEW n \in Live PROVE Ascending(heap[n].keys)
      <4>1. NodeOK(h, R, n, over)
        BY <3>2, <3>3, <3>6, TreeFacts
      <4> QED
        BY <4>1 DEF NodeOK
    <3>7. ASSUME NEW n \in Live, NEW i \in 1..Len(heap[n].kids), NEW k \in KeysOf(heap[n].kids[i])
          PROVE  /\ i > 1 => heap[n].keys[i - 1] <= k
                 /\ i <= Len(heap[n].keys) => k < heap[n].keys[i]
      <4>1. KidsOK(h, R, n, orphan, link)
        BY <3>2, <3>3, <3>7, TreeFacts
      <4>2. heap[n].kids[i] \in DOMAIN heap /\ R[heap[n].kids[i]] \subseteq Slot(R, n, i)
        BY <4>1 DEF KidsOK
      <4>3. k \in Slot(R, n, i)
        BY <3>5, <4>2
      <4> QED
        BY <4>3 DEF Slot
    <3>8. SeparatorsSeparate
      BY <3>6, <3>7 DEF SeparatorsSeparate, Ascending
    <3>9. ASSUME NEW n \in Leaves
          PROVE  LET greater == {m \in Leaves : heap[m].keys[1] > heap[n].keys[1]} IN
                 IF greater = {} THEN heap[n].next = Null
                 ELSE /\ heap[n].next \in greater
                      /\ \A m \in greater : heap[heap[n].next].keys[1] <= heap[m].keys[1]
      <4> DEFINE greater == {m \in Leaves : heap[m].keys[1] > heap[n].keys[1]}
      <4>1. /\ n \in DOMAIN heap /\ heap[n].leaf
            /\ \A m : m \in Leaves <=> m \in DOMAIN heap /\ heap[m].leaf
        BY <3>3 DEF Leaves
      <4>2. NextOK(R, n)
        BY <3>2, <4>1 DEF Shape
      <4>3. CASE heap[n].next = Null
        <5>1. ASSUME NEW m \in greater PROVE FALSE
          <6>1. m \in DOMAIN heap /\ heap[m].leaf /\ heap[m].keys[1] > heap[n].keys[1]
            BY <4>1
          <6>2. NodeOK(h, R, n, over)
            BY <3>2, <4>1, TreeFacts
          <6>3. heap[n].keys[1] \in Int
            BY <6>2, RegionsInhabited
          <6>4. m # n
            BY <6>1, <6>3
          <6>5. Before(R[m], R[n])
            BY <4>2, <4>3, <6>1, <6>4 DEF NextOK
          <6>6. heap[m].keys[1] < heap[n].keys[1] /\ heap[m].keys[1] \in Int
            BY <3>2, <4>1, <6>1, <6>5, FirstKeys
          <6> QED
            BY <6>1, <6>3, <6>6
        <5> QED
          BY <4>3, <5>1
      <4>4. CASE heap[n].next # Null
        <5>1. PICK x : x = heap[n].next
          OBVIOUS
        <5>2. /\ x \in DOMAIN heap /\ heap[x].leaf /\ Before(R[n], R[x])
              /\ \A m \in DOMAIN heap : heap[m].leaf /\ m \notin {n, x} =>
                   Before(R[m], R[n]) \/ Before(R[x], R[m])
          BY <4>2, <4>4, <5>1 DEF NextOK
        <5>3. /\ heap[n].keys[1] < heap[x].keys[1]
              /\ heap[n].keys[1] \in Int /\ heap[x].keys[1] \in Int
          BY <3>2, <4>1, <5>2, FirstKeys
        <5>4. x \in greater
          BY <4>1, <5>2, <5>3
        <5>5. ASSUME NEW m \in greater PROVE heap[x].keys[1] <= heap[m].keys[1]
          <6>1. m \in DOMAIN heap /\ heap[m].leaf /\ heap[m].keys[1] > heap[n].keys[1]
            BY <4>1
          <6>2. m # n
            BY <5>3, <6>1
          <6>3. CASE m = x
            BY <5>3, <6>3
          <6>4. CASE Before(R[m], R[n])
            <7>1. heap[m].keys[1] < heap[n].keys[1] /\ heap[m].keys[1] \in Int
              BY <3>2, <4>1, <6>1, <6>4, FirstKeys
            <7> QED
              BY <5>3, <6>1, <7>1
          <6>5. CASE Before(R[x], R[m])
            <7>1. heap[x].keys[1] < heap[m].keys[1] /\ heap[m].keys[1] \in Int
              BY <3>2, <5>2, <6>1, <6>5, FirstKeys
            <7> QED
              BY <5>3, <7>1
          <6> QED
            BY <5>2, <6>1, <6>2, <6>3, <6>4, <6>5
        <5> QED
          BY <5>1, <5>4, <5>5
      <4> QED
        BY <4>3, <4>4
    <3> QED
      BY <3>8, <3>9 DEF LeafChainAscends
  <2> QED
    BY <2>1, <2>2
<1> QED
  BY <1>1, TreeInvariant, PTL


\* The node without a parent and what is below it are apart from the rest.
LEMMA OrphanApart ==
  ASSUME NEW h, NEW R, NEW over, NEW orphan, NEW link, Shape(h, R, over, orphan, link),
         orphan \in DOMAIN heap, h[orphan] = h[root], NEW n \in Subtree[orphan]
  PROVE  n \notin Live
<1> SUFFICES ASSUME n \in Live PROVE FALSE
  OBVIOUS
<1>1. root \in DOMAIN heap /\ orphan # root
  BY TreeAssumption DEF Shape, RootOK
<1>2. n \in DOMAIN heap /\ R[n] \subseteq R[root]
  BY LiveIs
<1>3. Closed(R, orphan)
  BY SubtreeClosed
<1>4. R[n] \subseteq R[orphan]
  BY <1>3 DEF Closed
<1>5. NodeOK(h, R, n, over)
  BY <1>2, TreeFacts
<1>6. heap[n].keys[1] \in R[n]
  BY <1>5, RegionsInhabited
<1>7. R[orphan] \cap R[root] = {}
  BY <1>1 DEF Shape, Apart
<1> QED
  BY <1>2, <1>4, <1>6, <1>7

\* A reachable node but the root is reached from one place, the root from none.
LEMMA OneWay ==
  ASSUME NEW h, NEW R, NEW over, NEW orphan, NEW link, Shape(h, R, over, orphan, link),
         orphan # Null => h[orphan] = h[root], NEW n \in Live
  PROVE  /\ n = root => LinksTo(n) = {}
         /\ n # root => \E l : LinksTo(n) = {l}
<1>1. /\ root \in DOMAIN heap /\ \A x \in Live : x \in DOMAIN heap /\ Kids(x) \subseteq Live
  BY LiveIs
<1>2. ASSUME NEW l \in LinksTo(n)
      PROVE  /\ l[1] \in Live /\ l[1] \in DOMAIN heap /\ l[2] \in 1..Len(heap[l[1]].kids)
             /\ heap[l[1]].kids[l[2]] = n /\ n \in Kids(l[1]) /\ l = <<l[1], l[2]>>
  <2>1. l \in Live \X (1..(MaxKeys + 2)) /\ l[2] <= Len(heap[l[1]].kids) /\ heap[l[1]].kids[l[2]] = n
    BY DEF LinksTo
  <2>2. PICK p \in Live, i \in 1..(MaxKeys + 2) : l = <<p, i>>
    BY <2>1
  <2>3. l[1] = p /\ l[2] = i
    BY <2>2
  <2>4. p \in DOMAIN heap
    BY <1>1
  <2>5. NodeFacts(p)
    BY <2>4, TreeFacts
  <2>6. i \in 1..Len(heap[p].kids)
    BY <2>1, <2>3, <2>5 DEF NodeFacts
  <2> QED
    BY <2>1, <2>2, <2>3, <2>4, <2>6 DEF Kids
<1>3. CASE n = root
  <2> SUFFICES ASSUME NEW l \in LinksTo(n) PROVE FALSE
    BY <1>3
  <2>1. PICK p \in DOMAIN heap : n \in Kids(p)
    BY <1>2
  <2>2. h[p] = h[n] + 1 /\ h[n] \in Nat
    BY <2>1, KidsFacts
  <2>3. h[p] <= h[root]
    BY DEF Shape, RootOK
  <2> QED
    BY <1>3, <2>2, <2>3
<1>4. CASE n # root
  <2>1. \A x \in Live : orphan \in DOMAIN heap => x \notin Subtree[orphan]
    <3>1. orphan \in DOMAIN heap => h[orphan] = h[root]
      BY TreeAssumption DEF Shape
    <3> QED
      BY <3>1, OrphanApart
  <2>2. n # orphan
    <3>1. ASSUME n = orphan PROVE FALSE
      <4>1. orphan \in DOMAIN heap
        BY <1>1, <3>1
      <4>2. Closed(R, orphan)
        BY <4>1, SubtreeClosed
      <4>3. n \in Subtree[orphan]
        BY <3>1, <4>2 DEF Closed
      <4> QED
        BY <2>1, <4>1, <4>3
    <3> QED
      BY <3>1
  <2>3. Linked(n)
    BY <1>1, <1>4, <2>2 DEF Shape, AllLinked
  <2>4. PICK p \in DOMAIN heap : \E i \in 1..Len(heap[p].kids) : heap[p].kids[i] = n
    BY <2>3 DEF Linked
  <2>5. PICK i \in 1..Len(heap[p].kids) : heap[p].kids[i] = n
    BY <2>4
  <2>6. p \in Live
    <3>1. p \in Subtree[root] \/ (orphan \in DOMAIN heap /\ p \in Subtree[orphan])
      BY AllReached
    <3>2. ASSUME orphan \in DOMAIN heap, p \in Subtree[orphan] PROVE FALSE
      <4>1. Closed(R, orphan)
        BY <3>2, SubtreeClosed
      <4>2. n \in Subtree[orphan]
        BY <2>5, <3>2, <4>1 DEF Closed, Kids
      <4> QED
        BY <2>1, <3>2, <4>2
    <3> QED
      BY <3>1, <3>2, LiveIs
  <2>7. i \in 1..(MaxKeys + 2) /\ i <= Len(heap[p].kids)
    <3>1. Len(heap[p].kids) <= MaxKeys + 2
      BY NodesTyped
    <3>2. NodeFacts(p)
      BY TreeFacts
    <3> QED
      BY <3>1, <3>2, TreeAssumption DEF NodeFacts
  <2>8. <<p, i>> \in LinksTo(n)
    BY <2>5, <2>6, <2>7 DEF LinksTo
  <2>9. ASSUME NEW l \in LinksTo(n) PROVE l = <<p, i>>
    <3>1. PICK q, j : q = l[1] /\ j = l[2]
      OBVIOUS
    <3>2. /\ q \in DOMAIN heap /\ j \in 1..Len(heap[q].kids)
          /\ heap[q].kids[j] = n /\ l = <<q, j>>
      BY <1>2, <3>1
    <3>3. p = q /\ i = j
      BY <2>5, <3>2, OneLink
    <3> QED
      BY <3>2, <3>3
  <2> QED
    BY <1>4, <2>8, <2>9
<1> QED
  BY <1>3, <1>4

\* Between calls, also after one that ran out of memory, free_node comes to
\* every node it reaches from one place, so it frees none twice; what it does
\* not reach is the right half of a root that found no new root, whole.
THEOREM TreeFreed == Spec => []FreeReachesOnce
<1>1. TreeInv => FreeReachesOnce
  <2> SUFFICES ASSUME TreeInv, pc = "idle"
               PROVE  /\ \A n \in Live : Cardinality(LinksTo(n)) = (IF n = root THEN 0 ELSE 1)
                      /\ DOMAIN heap \ Live # {} =>
                           damaged /\ \E n \in DOMAIN heap \ Live : DOMAIN heap \ Live = Subtree[n]
    BY DEF FreeReachesOnce
  <2>1. CASE EmptyTree
    BY <2>1, EmptyLive
  <2>2. CASE ~EmptyTree
    <3>1. PICK h, R, over, orphan, link :
            /\ Shape(h, R, over, orphan, link)
            /\ orphan # Null => h[orphan] = h[root]
            /\ ~damaged => over = Null /\ orphan = Null
      BY <2>2, IdleShape
    <3>2. ASSUME NEW n \in Live PROVE Cardinality(LinksTo(n)) = (IF n = root THEN 0 ELSE 1)
      <4>1. CASE n = root
        <5>1. LinksTo(n) = {}
          BY <3>1, <4>1, OneWay
        <5> QED
          BY <4>1, <5>1, FS_EmptySet
      <4>2. CASE n # root
        <5>1. PICK l : LinksTo(n) = {l}
          BY <3>1, <4>2, OneWay
        <5> QED
          BY <4>2, <5>1, FS_Singleton
      <4> QED
        BY <4>1, <4>2
    <3>3. CASE orphan = Null
      <4>1. DOMAIN heap \ Live = {}
        BY <3>1, <3>3, LiveIs
      <4> QED
        BY <3>2, <4>1
    <3>4. CASE orphan # Null
      <4>1. damaged /\ h[orphan] = h[root]
        BY <3>1, <3>4 DEF TreeInv, CallOK
      <4>2. orphan \in DOMAIN heap
        BY <3>1, <3>4 DEF Shape, RootOK
      <4>3. Closed(R, orphan)
        BY <3>1, <4>2, SubtreeClosed
      <4>4. DOMAIN heap \ Live = Subtree[orphan]
        <5>1. ASSUME NEW n \in Subtree[orphan] PROVE n \in DOMAIN heap \ Live
          BY <3>1, <4>1, <4>2, <4>3, <5>1, OrphanApart DEF Closed
        <5>2. ASSUME NEW n \in DOMAIN heap, n \notin Live PROVE n \in Subtree[orphan]
          <6>1. n \in Subtree[root] \/ (orphan \in DOMAIN heap /\ n \in Subtree[orphan])
            BY <3>1, AllReached
          <6>2. Live = Subtree[root]
            BY <3>1, LiveIs
          <6> QED
            BY <5>2, <6>1, <6>2
        <5> QED
          BY <5>1, <5>2
      <4>5. orphan \in DOMAIN heap \ Live
        BY <4>3, <4>4 DEF Closed
      <4> QED
        BY <3>2, <4>1, <4>4, <4>5
    <3> QED
      BY <3>3, <3>4
  <2> QED
    BY <2>1, <2>2
<1> QED
  BY <1>1, TreeInvariant, PTL


=============================================================================
