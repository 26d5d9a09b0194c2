----------------------------- MODULE BPlusTree ------------------------------
(***************************************************************************)
(* The B+ tree of index/bptree.c: nodes on a heap, insertion as a descent  *)
(* that remembers its path, an insertion into a leaf, and splits that climb*)
(* back along the path; search as a descent.  Each action is one node's    *)
(* work in the recursion.  calloc may fail wherever a node is created.     *)
(*                                                                         *)
(* The caller is table_index.c: calls do not overlap, and after an         *)
(* insertion that ran out of memory the next call frees the tree.          *)
(***************************************************************************)
EXTENDS Integers, Sequences, FiniteSets

CONSTANTS
  MaxKeys,  \* BPTREE_MAX_KEYS
  Key,      \* ids
  Value,    \* offsets
  Entries,  \* the <<id, offset>> pairs the caller may insert
  Node,     \* addresses calloc can return
  Null,
  MayFail   \* TRUE: calloc may return NULL

ASSUME TreeAssumption ==
  /\ MaxKeys \in Nat \ {0, 1}
  /\ Key \subseteq Int
  /\ Entries \subseteq Key \X Value
  /\ Null \notin Node
  /\ MayFail \in BOOLEAN

VARIABLES
  heap,     \* the allocated nodes: a function from some of Node to node records
  root,     \* root of the tree
  pc,       \* "idle", or the function that runs
  key,      \* arguments of the call, Null between calls
  value,
  node,     \* the node the recursion or the search is at
  path,     \* the callers on the stack: <<[node, child], ...>>, root first
  split,    \* what a split hands to its caller: [promoted, right]
  damaged,  \* the last insertion ran out of memory
  reply     \* what the last call returned

vars == <<heap, root, pc, key, value, node, path, split, damaged, reply>>
args == <<key, value>>

NoSplit == [promoted |-> 0, right |-> Null]

Leaf(ks, vs, nx) == [leaf |-> TRUE, keys |-> ks, vals |-> vs, kids |-> <<>>, next |-> nx]
Internal(ks, cs) == [leaf |-> FALSE, keys |-> ks, vals |-> <<>>, kids |-> cs, next |-> Null]

Init ==
  /\ heap = [n \in {} |-> Null]
  /\ root = Null
  /\ pc = "idle"
  /\ key = Null
  /\ value = Null
  /\ node = Null
  /\ path = <<>>
  /\ split = NoSplit
  /\ damaged = FALSE
  /\ reply = <<"none">>

-----------------------------------------------------------------------------
(* Helpers.                                                                *)

\* The sequence with x at position i, the rest moved up.
InsertedAt(s, i, x) == SubSeq(s, 1, i - 1) \o <<x>> \o SubSeq(s, i, Len(s))

Below(s, k) == {i \in 1..Len(s) : s[i] < k}
AtMost(s, k) == {i \in 1..Len(s) : s[i] <= k}

\* insert_into_leaf: the position at which the key belongs.
LeafPosition(ks, k) == Cardinality(Below(ks, k)) + 1

\* Mutant of ChildIndex: a key equal to a separator goes left.
ChildIndexLeft(ks, k) == Cardinality(Below(ks, k)) + 1

\* find_child_index: a key equal to a separator goes right.
ChildIndex(ks, k) == Cardinality(AtMost(ks, k)) + 1

Has(s, x) == \E i \in 1..Len(s) : s[i] = x

\* Mutant of SplitPoint: the left half takes one more.
SplitPointRight(n) == n \div 2 + 1

SplitPoint(n) == n \div 2

Free == Node \ DOMAIN heap
NewNode == CHOOSE n \in Free : TRUE

\* The heap with one more node, and others replaced.
Allocated(h, n, new) == [m \in DOMAIN h \cup {n} |-> IF m = n THEN new ELSE h[m]]

Current == heap[node]

Return(r) ==
  /\ pc' = "idle"
  /\ reply' = r
  /\ node' = Null
  /\ path' = <<>>
  /\ split' = NoSplit
  /\ key' = Null
  /\ value' = Null

\* calloc returned NULL: the error goes up through every caller.
Fail ==
  /\ MayFail
  /\ Return(<<"outOfMemory">>)
  /\ damaged' = TRUE
  /\ UNCHANGED <<heap, root>>

-----------------------------------------------------------------------------
(* bptree_insert.                                                          *)

Call(where, k, v) ==
  /\ pc = "idle"
  /\ ~damaged
  /\ pc' = where
  /\ key' = k
  /\ value' = v
  /\ node' = root
  /\ reply' = <<"none">>
  /\ UNCHANGED <<heap, root, path, split, damaged>>

Insert(k, v) == Call("insert", k, v)

CreateRoot ==
  /\ pc = "insert"
  /\ node = Null
  /\ Free # {}
  /\ heap' = Allocated(heap, NewNode, Leaf(<<key>>, <<value>>, Null))
  /\ root' = NewNode
  /\ Return(<<"inserted">>)
  /\ UNCHANGED <<damaged>>

CreateRootFails == pc = "insert" /\ node = Null /\ Fail

\* insert_into_internal, up to its recursive call.
Descend ==
  /\ pc = "insert"
  /\ node # Null
  /\ ~Current.leaf
  /\ LET c == ChildIndex(Current.keys, key)
     IN  /\ path' = Append(path, [node |-> node, child |-> c])
         /\ node' = Current.kids[c]
  /\ UNCHANGED <<heap, root, pc, args, split, damaged, reply>>

AtLeaf == node # Null /\ Current.leaf

RefuseDuplicate ==
  /\ pc = "insert"
  /\ AtLeaf
  /\ Has(Current.keys, key)
  /\ Return(<<"duplicate">>)
  /\ UNCHANGED <<heap, root, damaged>>

\* Mutant of InsertIntoLeaf: the leaf is split one key too late.
InsertIntoLeafLate ==
  /\ pc = "insert"
  /\ AtLeaf
  /\ ~Has(Current.keys, key)
  /\ LET i == LeafPosition(Current.keys, key)
     IN  heap' = [heap EXCEPT ![node] =
                    Leaf(InsertedAt(@.keys, i, key), InsertedAt(@.vals, i, value), @.next)]
  /\ IF Len(Current.keys) <= MaxKeys
     THEN Return(<<"inserted">>)
     ELSE pc' = "splitLeaf" /\ UNCHANGED <<args, node, path, split, reply>>
  /\ UNCHANGED <<root, damaged>>

\* The entry goes in first; a leaf that is then too full is split.
InsertIntoLeaf ==
  /\ pc = "insert"
  /\ AtLeaf
  /\ ~Has(Current.keys, key)
  /\ LET i == LeafPosition(Current.keys, key)
     IN  heap' = [heap EXCEPT ![node] =
                    Leaf(InsertedAt(@.keys, i, key), InsertedAt(@.vals, i, value), @.next)]
  /\ IF Len(Current.keys) < MaxKeys
     THEN Return(<<"inserted">>)
     ELSE pc' = "splitLeaf" /\ UNCHANGED <<args, node, path, split, reply>>
  /\ UNCHANGED <<root, damaged>>

\* Mutant of SplitLeaf: the new leaf does not take over the next pointer.
SplitLeafUnlinked ==
  /\ pc = "splitLeaf"
  /\ Free # {}
  /\ LET n == Len(Current.keys)
         m == SplitPoint(n)
         right == Leaf(SubSeq(Current.keys, m + 1, n), SubSeq(Current.vals, m + 1, n), Null)
         left == Leaf(SubSeq(Current.keys, 1, m), SubSeq(Current.vals, 1, m), NewNode)
     IN  /\ heap' = Allocated([heap EXCEPT ![node] = left], NewNode, right)
         /\ split' = [promoted |-> right.keys[1], right |-> NewNode]
  /\ pc' = "absorb"
  /\ UNCHANGED <<root, args, node, path, damaged, reply>>

\* The upper half moves to a new leaf, linked in behind this one; its first
\* key is handed up.
SplitLeaf ==
  /\ pc = "splitLeaf"
  /\ Free # {}
  /\ LET n == Len(Current.keys)
         m == SplitPoint(n)
         right == Leaf(SubSeq(Current.keys, m + 1, n), SubSeq(Current.vals, m + 1, n),
                       Current.next)
         left == Leaf(SubSeq(Current.keys, 1, m), SubSeq(Current.vals, 1, m), NewNode)
     IN  /\ heap' = Allocated([heap EXCEPT ![node] = left], NewNode, right)
         /\ split' = [promoted |-> right.keys[1], right |-> NewNode]
  /\ pc' = "absorb"
  /\ UNCHANGED <<root, args, node, path, damaged, reply>>

SplitLeafFails == pc = "splitLeaf" /\ Fail

\* insert_into_internal, after its recursive call split the child.
AbsorbSplit ==
  /\ pc = "absorb"
  /\ path # <<>>
  /\ LET top == path[Len(path)]
         parent == heap[top.node]
     IN  /\ heap' = [heap EXCEPT ![top.node] =
                       Internal(InsertedAt(parent.keys, top.child, split.promoted),
                                InsertedAt(parent.kids, top.child + 1, split.right))]
         /\ IF Len(parent.keys) < MaxKeys
            THEN Return(<<"inserted">>)
            ELSE /\ pc' = "splitInternal"
                 /\ node' = top.node
                 /\ path' = SubSeq(path, 1, Len(path) - 1)
                 /\ split' = NoSplit
                 /\ UNCHANGED <<args, reply>>
  /\ UNCHANGED <<root, damaged>>

\* Mutant of SplitInternal: the child behind the middle key is in both halves.
SplitInternalShared ==
  /\ pc = "splitInternal"
  /\ Free # {}
  /\ LET n == Len(Current.keys)
         m == SplitPoint(n)
         right == Internal(SubSeq(Current.keys, m + 2, n), SubSeq(Current.kids, m + 2, n + 1))
         left == Internal(SubSeq(Current.keys, 1, m), SubSeq(Current.kids, 1, m + 2))
     IN  /\ heap' = Allocated([heap EXCEPT ![node] = left], NewNode, right)
         /\ split' = [promoted |-> Current.keys[m + 1], right |-> NewNode]
  /\ pc' = "absorb"
  /\ UNCHANGED <<root, args, node, path, damaged, reply>>

\* The middle key is handed up and stays in neither half.
SplitInternal ==
  /\ pc = "splitInternal"
  /\ Free # {}
  /\ LET n == Len(Current.keys)
         m == SplitPoint(n)
         right == Internal(SubSeq(Current.keys, m + 2, n), SubSeq(Current.kids, m + 2, n + 1))
         left == Internal(SubSeq(Current.keys, 1, m), SubSeq(Current.kids, 1, m + 1))
     IN  /\ heap' = Allocated([heap EXCEPT ![node] = left], NewNode, right)
         /\ split' = [promoted |-> Current.keys[m + 1], right |-> NewNode]
  /\ pc' = "absorb"
  /\ UNCHANGED <<root, args, node, path, damaged, reply>>

SplitInternalFails == pc = "splitInternal" /\ Fail

\* The root was split: a new root above its two halves.
GrowRoot ==
  /\ pc = "absorb"
  /\ path = <<>>
  /\ Free # {}
  /\ heap' = Allocated(heap, NewNode, Internal(<<split.promoted>>, <<root, split.right>>))
  /\ root' = NewNode
  /\ Return(<<"inserted">>)
  /\ UNCHANGED <<damaged>>

\* The right half is reachable from nowhere.
GrowRootFails == pc = "absorb" /\ path = <<>> /\ Fail

-----------------------------------------------------------------------------
(* bptree_search.                                                          *)

Search(k) == Call("search", k, Null)

\* Mutant of SearchDescend: the loop looks at the same node again.
SearchDescendStuck ==
  /\ pc = "search"
  /\ node # Null
  /\ ~Current.leaf
  /\ UNCHANGED vars

SearchDescend ==
  /\ pc = "search"
  /\ node # Null
  /\ ~Current.leaf
  /\ node' = Current.kids[ChildIndex(Current.keys, key)]
  /\ UNCHANGED <<heap, root, pc, args, path, split, damaged, reply>>

SearchReturns ==
  /\ pc = "search"
  /\ node = Null \/ AtLeaf
  /\ LET hits == IF node = Null THEN {}
                 ELSE {i \in 1..Len(Current.keys) : Current.keys[i] = key}
     IN  Return(IF hits = {} THEN <<"absent">>
                ELSE <<"found", Current.vals[CHOOSE i \in hits : \A j \in hits : i <= j]>>)
  /\ UNCHANGED <<heap, root, damaged>>

-----------------------------------------------------------------------------
(* bptree_free: every node below the root is released.  A node that was    *)
(* not below it stays allocated for good; nothing will ever point to it.   *)

Kids(n) == {heap[n].kids[i] : i \in 1..Len(heap[n].kids)}

\* free_node: the nodes it visits.
Subtree[n \in DOMAIN heap] == {n} \cup UNION {Subtree[m] : m \in Kids(n)}

FreeTree ==
  /\ pc = "idle"
  /\ heap' = [n \in {} |-> Null]
  /\ root' = Null
  /\ damaged' = FALSE
  /\ reply' = <<"none">>
  /\ UNCHANGED <<pc, args, node, path, split>>

-----------------------------------------------------------------------------
InsertStep ==
  \/ CreateRoot \/ Descend \/ RefuseDuplicate \/ InsertIntoLeaf \/ SplitLeaf
  \/ AbsorbSplit \/ SplitInternal \/ GrowRoot

OutOfMemory == CreateRootFails \/ SplitLeafFails \/ SplitInternalFails \/ GrowRootFails

SearchStep == SearchDescend \/ SearchReturns

Next ==
  \/ \E e \in Entries : Insert(e[1], e[2])
  \/ \E k \in Key : Search(k)
  \/ InsertStep \/ OutOfMemory \/ SearchStep \/ FreeTree

Spec == Init /\ [][Next]_vars

\* A call runs to its end.
FairSpec == Spec /\ WF_vars(InsertStep) /\ WF_vars(SearchStep)

-----------------------------------------------------------------------------
(* Properties.                                                             *)

NodeRecord ==
  [leaf : BOOLEAN, keys : Seq(Key), vals : Seq(Value), kids : Seq(Node),
   next : Node \cup {Null}]

\* The range of every variable, and the arrays of struct BPlusTreeNode: at no
\* moment does a node hold more than BPTREE_MAX_KEYS + 1 keys and values or
\* BPTREE_MAX_KEYS + 2 children.
TypeOK ==
  /\ DOMAIN heap \subseteq Node
  /\ \A n \in DOMAIN heap : heap[n] \in NodeRecord
  /\ \A n \in DOMAIN heap :
       /\ Len(heap[n].keys) <= MaxKeys + 1
       /\ Len(heap[n].vals) <= MaxKeys + 1
       /\ Len(heap[n].kids) <= MaxKeys + 2
  /\ root \in DOMAIN heap \cup {Null}
  /\ pc \in {"idle", "insert", "splitLeaf", "absorb", "splitInternal", "search"}
  /\ key \in Key \cup {Null}
  /\ value \in Value \cup {Null}
  /\ node \in DOMAIN heap \cup {Null}
  /\ path \in Seq([node : DOMAIN heap, child : 1..(MaxKeys + 1)])
  /\ split \in [promoted : Key \cup {0}, right : DOMAIN heap \cup {Null}]
  /\ damaged \in BOOLEAN

Settled == pc = "idle" /\ ~damaged
Live == IF root = Null THEN {} ELSE Subtree[root]
Leaves == {n \in Live : heap[n].leaf}

\* How far a node is above the first leaf below it.
Height[n \in DOMAIN heap] == IF heap[n].leaf THEN 0 ELSE 1 + Height[heap[n].kids[1]]

\* Between calls no node is over-full, leaves pair keys with values, inner
\* nodes have a child on each side of every key, a split has left every node
\* but the root with at least its half, and every leaf is equally deep: the
\* tree only grows at its root.
Balanced ==
  Settled =>
    /\ \A n \in Live :
         LET ks == Len(heap[n].keys)
             half == IF heap[n].leaf THEN (MaxKeys + 1) \div 2
                     ELSE MaxKeys - (MaxKeys + 1) \div 2
         IN  /\ ks <= MaxKeys
             /\ ks >= (IF n = root THEN 1 ELSE half)
             /\ Len(heap[n].vals) = (IF heap[n].leaf THEN ks ELSE 0)
             /\ Len(heap[n].kids) = (IF heap[n].leaf THEN 0 ELSE ks + 1)
    /\ \A n \in Live : \A m1, m2 \in Kids(n) : Height[m1] = Height[m2]

KeysOf(n) == UNION {{heap[m].keys[j] : j \in 1..Len(heap[m].keys)} :
                      m \in {m \in Subtree[n] : heap[m].leaf}}

\* The keys below a child lie between the separators beside it, the left one
\* included, and keys in a node ascend: this is what find_child_index relies on.
SeparatorsSeparate ==
  \A n \in Live :
    LET ks == heap[n].keys IN
    /\ \A i, j \in 1..Len(ks) : i < j => ks[i] < ks[j]
    /\ \A i \in 1..Len(heap[n].kids) :
         \A k \in KeysOf(heap[n].kids[i]) :
           /\ i > 1 => ks[i - 1] <= k
           /\ i <= Len(ks) => k < ks[i]

\* The next pointers string all leaves together in ascending order of keys:
\* each leaf but the last points to the leaf with the next greater keys.
LeafChainAscends ==
  \A n \in Leaves :
    LET greater == {m \in Leaves : heap[m].keys[1] > heap[n].keys[1]} IN
    IF greater = {} THEN heap[n].next = Null
    ELSE /\ heap[n].next \in greater
         /\ \A m \in greater : heap[heap[n].next].keys[1] <= heap[m].keys[1]

\* Between calls the keys are in order down the tree and along its leaves.
KeysAscend == Settled => SeparatorsSeparate /\ LeafChainAscends

\* The places from which free_node comes to a node.
LinksTo(n) ==
  {l \in Live \X (1..(MaxKeys + 2)) :
     l[2] <= Len(heap[l[1]].kids) /\ heap[l[1]].kids[l[2]] = n}

\* Between calls, also after one that ran out of memory, free_node meets every
\* node it reaches once, and what it does not reach is at most the right half
\* of a root for which there was no new root, as one tree: so the comment on
\* bptree_free, that it releases all memory, is true but for that.
FreeReachesOnce ==
  LET lost == DOMAIN heap \ Live
  IN  pc = "idle" =>
        /\ \A n \in Live : Cardinality(LinksTo(n)) = (IF n = root THEN 0 ELSE 1)
        /\ lost # {} =>
             damaged /\ \E n \in lost : lost = Subtree[n]

\* A call returns, also one that splits every node on its path.
CallReturns == pc # "idle" ~> pc = "idle"

-----------------------------------------------------------------------------
(* BPlusTree implements IdMap.                                             *)

\* The entries of all leaves; one that has its place in a leaf that is still
\* to be split counts when its insertion returns.
Bindings == UNION {{<<heap[n].keys[i], heap[n].vals[i]>> : i \in 1..Len(heap[n].vals)} :
                     n \in DOMAIN heap}

Splitting == pc \in {"splitLeaf", "absorb", "splitInternal"}

Visible == {b \in Bindings : ~damaged /\ ~(Splitting /\ b[1] = key)}

AbstractMap == [k \in {b[1] : b \in Visible} |-> (CHOOSE b \in Visible : b[1] = k)[2]]

AbstractOp ==
  CASE pc = "idle" -> [name |-> "none"]
    [] pc = "search" -> [name |-> "search", key |-> key]
    [] OTHER -> [name |-> "insert", key |-> key, value |-> value]

Map == INSTANCE IdMap WITH map <- AbstractMap, op <- AbstractOp, broken <- damaged

\* Through its interface the tree is a map: an insertion adds exactly its
\* entry or nothing, and a search finds exactly what was inserted.
ImplementsIdMap == Map!Spec

=============================================================================
