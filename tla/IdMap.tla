------------------------------- MODULE IdMap --------------------------------
(***************************************************************************)
(* What a B+ tree promises its caller: a map from ids to offsets.  An      *)
(* insertion adds one new entry, or is refused because the id is there and *)
(* changes nothing, or fails for lack of memory; after that failure the    *)
(* map is unspecified (`broken`) until it is freed.                        *)
(***************************************************************************)
CONSTANTS Key, Value

VARIABLES
  map,     \* the entries, a function from some of Key to Value
  op,      \* the call in progress: [name, key, value], name "none" outside calls
  broken,  \* an insertion ran out of memory
  reply    \* what the last call returned

vars == <<map, op, broken, reply>>

NoOp == [name |-> "none"]

Init ==
  /\ map = [k \in {} |-> 0]
  /\ op = NoOp
  /\ broken = FALSE
  /\ reply = <<"none">>

Calls == [name : {"insert"}, key : Key, value : Value]
           \cup [name : {"search"}, key : Key]

Call ==
  /\ op = NoOp
  /\ ~broken
  /\ op' \in Calls
  /\ reply' = <<"none">>
  /\ UNCHANGED <<map, broken>>

Return(r) == op' = NoOp /\ reply' = r

Inserted ==
  /\ op.name = "insert"
  /\ op.key \notin DOMAIN map
  /\ map' = [k \in DOMAIN map \cup {op.key} |->
               IF k = op.key THEN op.value ELSE map[k]]
  /\ Return(<<"inserted">>)
  /\ UNCHANGED broken

Duplicate ==
  /\ op.name = "insert"
  /\ op.key \in DOMAIN map
  /\ Return(<<"duplicate">>)
  /\ UNCHANGED <<map, broken>>

Found ==
  /\ op.name = "search"
  /\ Return(IF op.key \in DOMAIN map THEN <<"found", map[op.key]>> ELSE <<"absent">>)
  /\ UNCHANGED <<map, broken>>

OutOfMemory ==
  /\ op.name = "insert"
  /\ broken' = TRUE
  /\ map' = [k \in {} |-> 0]
  /\ Return(<<"outOfMemory">>)

Free ==
  /\ op = NoOp
  /\ map' = [k \in {} |-> 0]
  /\ broken' = FALSE
  /\ reply' = <<"none">>
  /\ UNCHANGED op

Next ==
  \/ Call \/ Inserted \/ Duplicate \/ Found \/ OutOfMemory \/ Free

Spec == Init /\ [][Next]_vars

=============================================================================
