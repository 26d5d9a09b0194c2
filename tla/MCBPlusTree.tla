---------------------------- MODULE MCBPlusTree -----------------------------
(* Constants for model checking BPlusTree.                                 *)
EXTENDS BPlusTree

CONSTANT N  \* how many keys

Keys == 1..N
Nodes == 1..(2 * N)

\* One offset for each id, and a second one for id 1.
EachOnce == {<<k, 10 * k>> : k \in Keys} \cup {<<1, 99>>}
Offsets == {e[2] : e \in EachOnce}
=============================================================================
