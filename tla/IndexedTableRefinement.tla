----------------------- MODULE IndexedTableRefinement -----------------------
(***************************************************************************)
(* IndexedTable implements RowStore: whatever the index does, it shows in  *)
(* no answer.  The numbered list of a table is what a scan of its file     *)
(* counts.                                                                 *)
(***************************************************************************)
EXTENDS IndexedTable

AbstractRows ==
  [t \in Table |-> {<<RowId(file[t], i), file[t][i]>> : i \in DataRows(file[t])}]

AbstractCount == [t \in Table |-> Cardinality(DataRows(file[t]))]

AbstractRequest ==
  CASE Idle -> [op |-> "none"]
    [] pc = "select" -> [op |-> "select", table |-> T, where |-> stmt.row]
    [] ~Idle /\ pc # "select" /\ stmt.cont = "find" ->
         [op |-> "find", table |-> T, id |-> stmt.id]
    [] OTHER -> [op |-> "insert", table |-> T, row |-> stmt.row]

\* An INSERT that goes on has written its row.
AbstractStored == ~Idle /\ \E p \in Proc, t \in Table : Registering(p, t)

Store == INSTANCE RowStore WITH
  Item <- Row, Id <- Ids, Any <- AnyRow,
  rows <- AbstractRows, count <- AbstractCount, request <- AbstractRequest,
  stored <- AbstractStored, answer <- reply

\* Behind SELECT and INSERT the tables behave as numbered lists of rows: every
\* step of execute_insert, execute_select and the index is one of RowStore's
\* steps or changes nothing a statement can observe.
ImplementsRowStore == Store!Spec

=============================================================================
