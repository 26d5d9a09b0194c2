------------------------------ MODULE RowStore ------------------------------
(***************************************************************************)
(* What the tables promise, with no index and no file: each table is a     *)
(* numbered list of rows that only grows.  A statement is submitted, an    *)
(* INSERT may add its row once, and one answer is given; an answer that is *)
(* not an error tells the truth about the list at that moment.             *)
(*                                                                         *)
(* An INSERT that is answered with an error may have added its row or not: *)
(* the program keeps the row when only the registration failed.            *)
(***************************************************************************)
EXTENDS Integers

CONSTANTS
  Table,  \* table names
  Item,   \* rows
  Id,     \* ids a SELECT may ask for
  Any     \* the filter of a SELECT without WHERE

VARIABLES
  rows,     \* [Table -> set of <<id, row>>]
  count,    \* [Table -> Nat], how many rows each table has
  request,  \* the statement being executed
  stored,   \* its row has been added
  answer    \* what the last statement answered

vars == <<rows, count, request, stored, answer>>

NoRequest == [op |-> "none"]
NoAnswer == [kind |-> "none"]
Error == [kind |-> "error"]

Requests ==
  [op : {"insert"}, table : Table, row : Item]
    \cup [op : {"find"}, table : Table, id : Id]
    \cup [op : {"select"}, table : Table, where : Item \cup {Any}]

\* Any list may be there at the start; its ids are 1, 2, ... count.
Init ==
  /\ rows \in [Table -> SUBSET (Nat \X Item)]
  /\ \A t \in Table : {x[1] : x \in rows[t]} = 1..count[t]
  /\ \A t \in Table : \A x, y \in rows[t] : x[1] = y[1] => x = y
  /\ request = NoRequest
  /\ stored = FALSE
  /\ answer = NoAnswer

Submit(r) ==
  /\ request = NoRequest
  /\ request' = r
  /\ answer' = NoAnswer
  /\ UNCHANGED <<rows, count, stored>>

Store ==
  /\ request.op = "insert"
  /\ ~stored
  /\ stored' = TRUE
  /\ count' = [count EXCEPT ![request.table] = @ + 1]
  /\ rows' = [rows EXCEPT ![request.table] =
                @ \cup {<<count[request.table] + 1, request.row>>}]
  /\ UNCHANGED <<request, answer>>

\* The answers that are true now.
Truth ==
  CASE request.op = "insert" -> IF stored THEN {[kind |-> "inserted"]} ELSE {}
    [] request.op = "find" ->
         IF request.id \in 1..count[request.table]
         THEN {[kind |-> "row", table |-> request.table, id |-> x[1], row |-> x[2]] :
                 x \in {y \in rows[request.table] : y[1] = request.id}}
         ELSE {[kind |-> "noRow", table |-> request.table, id |-> request.id]}
    [] request.op = "select" ->
         {[kind |-> "rows", table |-> request.table, where |-> request.where,
           rows |-> {x \in rows[request.table] : request.where \in {Any, x[2]}}]}

\* A statement may also fail, or die with its process and answer nothing.
Answer ==
  /\ request # NoRequest
  /\ answer' \in Truth \cup {Error, NoAnswer}
  /\ request' = NoRequest
  /\ stored' = FALSE
  /\ UNCHANGED <<rows, count>>

Next == (\E r \in Requests : Submit(r)) \/ Store \/ Answer

Spec == Init /\ [][Next]_vars

=============================================================================
