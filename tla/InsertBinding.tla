---------------------------- MODULE InsertBinding ---------------------------
(***************************************************************************)
(* How execute_insert turns a parsed INSERT and a loaded schema into the   *)
(* row it appends, one column a step, and what it holds meanwhile.  Every  *)
(* call may fail.  Index and file are in IndexedTable: here they answer.   *)
(***************************************************************************)
EXTENDS Integers, Sequences, FiniteSetsExt

CONSTANTS
  Statements,  \* [columns, values]: two lists of any lengths above zero
  Schemas,     \* sequences of column names, without IdColumn
  IdColumn,
  BadValues,   \* values with a line end
  Empty,       \* the empty string
  Null

\* The parser wants one column and one value at least; load_schema refuses a
\* schema without columns or with a column id.  Assumed in StatementStages.
InsertAssumption ==
  /\ \A s \in Statements :
       /\ s.columns \in Seq(Range(s.columns)) /\ s.columns # <<>>
       /\ s.values \in Seq(Range(s.values)) /\ s.values # <<>>
  /\ \A c \in Schemas : c \in Seq(Range(c)) /\ c # <<>> /\ IdColumn \notin Range(c)
  /\ Empty \notin BadValues
  /\ Null # Empty
  /\ \A s \in Statements : Null \notin Range(s.values)

VARIABLES
  statement,
  schema,
  pc,
  index,     \* the columns of the statement that are done
  assigned,  \* places of the schema that have got a value
  row,       \* row_values, Null before it is prepared
  held,      \* what has been allocated and not freed
  stored     \* history: the row append_row_csv was given, Null before

vars == <<statement, schema, pc, index, assigned, row, held, stored>>

Refusals == {"countMismatch", "explicitId", "unknownColumn", "newline", "duplicateColumn"}
Answers == Refusals \cup {"ok", "failed"}

\* schema_find_column: the first place with that name, 0 if there is none.
FindColumn(name) ==
  LET places == {i \in 1..Len(schema) : schema[i] = name}
  IN  IF places = {} THEN 0 ELSE Min(places)

\* load_schema has succeeded.
Init ==
  /\ statement \in Statements
  /\ schema \in Schemas
  /\ pc = "count"
  /\ index = 0
  /\ assigned = {}
  /\ row = Null
  /\ held = {"schema"}
  /\ stored = Null

Column == statement.columns[index + 1]
Value == statement.values[index + 1]
MoreColumns == index < Len(statement.columns)

\* The statement is answered and everything it holds but kept is freed.
AnswerKeeping(answer, kept) ==
  /\ pc' = answer
  /\ held' = kept
  /\ UNCHANGED <<statement, schema, index, assigned, row, stored>>

Answer(answer) == AnswerKeeping(answer, {})

-----------------------------------------------------------------------------
(* validate_insert_columns                                                 *)

CountsDiffer == Len(statement.columns) # Len(statement.values)

CountRefused == pc = "count" /\ CountsDiffer /\ Answer("countMismatch")

CountOk ==
  /\ pc = "count"
  /\ ~CountsDiffer
  /\ pc' = "validate"
  /\ UNCHANGED <<statement, schema, index, assigned, row, held, stored>>

\* The first of the three checks that the column or its value fails.
Fault ==
  IF Column = IdColumn THEN "explicitId"
  ELSE IF FindColumn(Column) = 0 THEN "unknownColumn"
  ELSE IF Value \in BadValues THEN "newline"
  ELSE "none"

Validate ==
  /\ pc = "validate"
  /\ MoreColumns
  /\ Fault = "none"
  /\ index' = index + 1
  /\ UNCHANGED <<statement, schema, pc, assigned, row, held, stored>>

ValidateRefuses ==
  /\ pc = "validate"
  /\ MoreColumns
  /\ Fault # "none"
  /\ Answer(Fault)

Validated ==
  /\ pc = "validate"
  /\ ~MoreColumns
  /\ pc' = "getId"
  /\ index' = 0
  /\ UNCHANGED <<statement, schema, assigned, row, held, stored>>

-----------------------------------------------------------------------------
(* build_insert_row                                                        *)

\* table_index_get_next_id answers with an id.
GetNextId ==
  /\ pc = "getId"
  /\ pc' = "prepare"
  /\ UNCHANGED <<statement, schema, index, assigned, row, held, stored>>

\* A slot for every column of the schema, and marks for those assigned.
PrepareRow ==
  /\ pc = "prepare"
  /\ row' = [i \in 1..Len(schema) |-> Empty]
  /\ held' = held \cup {"assigned", "row"}
  /\ pc' = "assign"
  /\ UNCHANGED <<statement, schema, index, assigned, stored>>

\* Mutant of Assign: values go to the slots in the order they are written.
AssignInOrder ==
  LET place == FindColumn(Column)
  IN  /\ pc = "assign"
      /\ MoreColumns
      /\ place > 0 /\ place \notin assigned
      /\ row' = [row EXCEPT ![index + 1] = Value]
      /\ assigned' = assigned \cup {place}
      /\ index' = index + 1
      /\ UNCHANGED <<statement, schema, pc, held, stored>>

Assign ==
  LET place == FindColumn(Column)
  IN  /\ pc = "assign"
      /\ MoreColumns
      /\ place > 0 /\ place \notin assigned
      /\ row' = [row EXCEPT ![place] = Value]
      /\ assigned' = assigned \cup {place}
      /\ index' = index + 1
      /\ UNCHANGED <<statement, schema, pc, held, stored>>

\* The second look at the names finds one that is unknown, or one it has seen.
AssignRefuses ==
  LET place == FindColumn(Column)
  IN  /\ pc = "assign"
      /\ MoreColumns
      /\ place \in assigned \cup {0}
      /\ Answer(IF place = 0 THEN "unknownColumn" ELSE "duplicateColumn")

RowBuilt ==
  /\ pc = "assign"
  /\ ~MoreColumns
  /\ held' = held \ {"assigned"}
  /\ pc' = "append"
  /\ UNCHANGED <<statement, schema, index, assigned, row, stored>>

-----------------------------------------------------------------------------
(* The rest of execute_insert.                                             *)

AppendRow ==
  /\ pc = "append"
  /\ stored' = row
  /\ held' = held \ {"row"}
  /\ pc' = "register"
  /\ UNCHANGED <<statement, schema, index, assigned, row>>

RegisterRow == pc = "register" /\ AnswerKeeping("ok", held \ {"schema"})

\* There is no id to be had.  Where the index had to be rebuilt and a line could
\* not be parsed, the fields parsed of it are not freed.
GetIdFails == pc = "getId" /\ \E lost \in SUBSET {"fields"} : AnswerKeeping("failed", lost)

\* The memory, the file or the registration is not to be had.
Fails ==
  /\ pc \in {"prepare", "append", "register"} \/ (pc = "assign" /\ MoreColumns)
  /\ Answer("failed")

Step ==
  \/ CountRefused \/ CountOk \/ Validate \/ ValidateRefuses \/ Validated \/ GetNextId
  \/ PrepareRow \/ Assign \/ AssignRefuses \/ RowBuilt \/ AppendRow \/ RegisterRow

Next == Step \/ GetIdFails \/ Fails

\* execute_insert is sequential code that runs.
FairSpec == Init /\ [][Next]_vars /\ WF_vars(Step)

-----------------------------------------------------------------------------
(* Properties.                                                             *)

\* The range of every variable.
TypeOK ==
  /\ statement \in Statements
  /\ schema \in Schemas
  /\ pc \in Answers \cup {"count", "validate", "getId", "prepare", "assign", "append",
                          "register"}
  /\ index \in 0..Len(statement.columns)
  /\ assigned \subseteq 1..Len(schema)
  /\ row # Null => Range(row) \subseteq Range(statement.values) \cup {Empty}
  /\ held \subseteq {"schema", "assigned", "row", "fields"}
  /\ stored # Null => Range(stored) \subseteq Range(statement.values) \cup {Empty}

\* What an INSERT must be to be carried out.
Acceptable ==
  /\ Len(statement.columns) = Len(statement.values)
  /\ Range(statement.columns) \subseteq Range(schema)
  /\ Cardinality(Range(statement.columns)) = Len(statement.columns)
  /\ Range(statement.values) \cap BadValues = {}

\* The row that reaches the file has a value for each column of the schema, in
\* the schema's order: the one the statement gave to that name, in whatever
\* order it was written, and the empty string where it gave none.
StoredRowIsWhatWasNamed ==
  stored # Null =>
    /\ Acceptable
    /\ Len(stored) = Len(schema)
    /\ \A c \in 1..Len(schema) :
         LET named == {i \in 1..Len(statement.columns) :
                         statement.columns[i] = schema[c] /\ FindColumn(schema[c]) = c}
         IN  IF named = {} THEN stored[c] = Empty
             ELSE \E i \in named : stored[c] = statement.values[i]

\* A statement that could be carried out is not refused, and one that could
\* not has left no row behind.
RefusedForCause == pc \in Refusals => ~Acceptable /\ stored = Null

\* Every way out of execute_insert frees what it has allocated itself.  Only the
\* fields of a line the index could not be rebuilt from stay, and then there has
\* been no row yet.
OnlyFieldsAreLost ==
  pc \in Answers => held = {} \/ (held = {"fields"} /\ pc = "failed" /\ row = Null)

\* Every INSERT is answered.
InsertReturns == pc = "count" ~> pc \in Answers

=============================================================================
