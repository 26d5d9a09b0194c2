---------------------------- MODULE SelectBinding ---------------------------
(***************************************************************************)
(* How execute_select turns a parsed SELECT and a loaded schema into an    *)
(* answer: the selected columns, the filter, the path by id and the scan,  *)
(* one column or row a step, and what is held meanwhile.  The index is in  *)
(* IndexedTable: here it answers with the row of an id.                    *)
(***************************************************************************)
EXTENDS Integers, Sequences, FiniteSetsExt

CONSTANTS
  Queries,    \* [select_all, columns, has_where, where_column, where_value]
  Schemas,    \* sequences of column names, without IdColumn
  IdColumn,
  Tables,     \* sequences of lines: rows, Malformed and Blank
  Malformed, Blank,
  IntOf,      \* what parse_int_strict makes of a value
  NoInt,      \* the value is no integer
  Null

\* Assumed of the constants, in StatementStages.
SelectAssumption ==
  /\ \A q \in Queries :
       /\ q.select_all \in BOOLEAN /\ q.has_where \in BOOLEAN
       /\ q.columns \in Seq(Range(q.columns))
       /\ q.select_all \/ q.columns # <<>>
  /\ \A c \in Schemas : c \in Seq(Range(c)) /\ c # <<>> /\ IdColumn \notin Range(c)
  /\ \A t \in Tables : t \in Seq(Range(t))

VARIABLES
  query,
  schema,
  table,
  pc,
  index,            \* columns bound, or lines read
  headers,
  selected_indexes, \* 0 stands for INTERNAL_ID_SELECT_INDEX
  where_index,      \* 0 stands for -1
  id,               \* current_internal_id
  rows,             \* the output rows collected
  overran,          \* something was written behind selected_indexes
  held              \* what has been allocated or opened and not given back

vars == <<query, schema, table, pc, index, headers, selected_indexes, where_index, id, rows,
          overran, held>>

Answers == {"ok", "unknownColumn", "notInteger", "badRow", "failed", "aborted"}

\* schema_find_column: the first place with that name, 0 if there is none.
FindColumn(name) ==
  LET places == {i \in 1..Len(schema) : schema[i] = name}
  IN  IF places = {} THEN 0 ELSE Min(places)

\* load_schema has succeeded.
Init ==
  /\ query \in Queries
  /\ schema \in Schemas
  /\ table \in Tables
  /\ pc = "indexes"
  /\ index = 0
  /\ headers = <<>>
  /\ selected_indexes = <<>>
  /\ where_index = 0
  /\ id = 1
  /\ rows = <<>>
  /\ overran = FALSE
  /\ held = {"schema"}

input == <<query, schema, table>>
binding == <<headers, selected_indexes, where_index>>

\* The query is answered; everything it holds but kept is given back.
AnswerKeeping(answer, kept) ==
  /\ pc' = answer
  /\ held' = kept
  /\ UNCHANGED <<input, binding, index, id, rows, overran>>

Answer(answer) == AnswerKeeping(answer, {})

-----------------------------------------------------------------------------
(* build_select_indexes and resolve_where_index                            *)

Allocate ==
  /\ pc = "indexes"
  /\ held' = held \cup {"selected_indexes", "headers"}
  /\ pc' = "bind"
  /\ UNCHANGED <<input, binding, index, id, rows, overran>>

\* The columns that are asked for.
Columns == IF query.select_all THEN schema ELSE query.columns

MoreColumns == index < Len(Columns)
Column == Columns[index + 1]

\* Where the value of a requested column is: 0 is the id itself.
PlaceOf(name) == IF name = IdColumn THEN 0 ELSE FindColumn(name)

Known(name) == name = IdColumn \/ FindColumn(name) > 0

\* The array has one slot for each column of the schema.
Slots == Len(schema)

Bind ==
  /\ pc = "bind"
  /\ MoreColumns
  /\ Known(Column)
  /\ headers' = Append(headers, Column)
  /\ selected_indexes' =
       Append(selected_indexes, IF query.select_all THEN index + 1 ELSE PlaceOf(Column))
  /\ overran' = (overran \/ index >= Slots)
  /\ index' = index + 1
  /\ UNCHANGED <<input, where_index, pc, id, rows, held>>

BindRefuses ==
  /\ pc = "bind"
  /\ MoreColumns
  /\ ~Known(Column)
  /\ Answer("unknownColumn")

\* A write behind the array may hit what malloc keeps there, at once or later.
Abort ==
  /\ overran
  /\ pc \notin Answers
  /\ Answer("aborted")

WhereIndex ==
  IF ~query.has_where \/ query.where_column = IdColumn THEN 0
  ELSE FindColumn(query.where_column)

\* Mutant of WhereKnown: only a selected column can be filtered on.
WhereKnownIfSelected == query.has_where => query.where_column \in Range(headers) \cup {IdColumn}

WhereKnown == query.has_where => Known(query.where_column)

ById == query.has_where /\ query.where_column = IdColumn

ResolveWhere ==
  /\ pc = "bind"
  /\ ~MoreColumns
  /\ WhereKnown
  /\ where_index' = WhereIndex
  /\ pc' = IF ById THEN "find" ELSE "open"
  /\ index' = 0
  /\ UNCHANGED <<input, headers, selected_indexes, id, rows, overran, held>>

ResolveRefuses ==
  /\ pc = "bind"
  /\ ~MoreColumns
  /\ ~WhereKnown
  /\ Answer("unknownColumn")

-----------------------------------------------------------------------------
(* select_row_buffer_push: the requested columns of a row, the id for 0.   *)

Projected(fields, row_id) ==
  [i \in 1..Len(selected_indexes) |->
     IF selected_indexes[i] = 0 THEN row_id ELSE fields[selected_indexes[i]]]

\* A line that is neither blank nor malformed has fields.
IsRow(line) == line \notin {Malformed, Blank}

\* Mutant of Fits: a row that ends early is taken.
FitsNotLonger(line) == Len(line) <= Len(schema)

Fits(line) == Len(line) = Len(schema)

-----------------------------------------------------------------------------
(* execute_index_select                                                    *)

\* The lines that have an id, in their order.
DataRows ==
  LET upTo[n \in 0..Len(table)] ==
        IF n = 0 THEN <<>>
        ELSE upTo[n - 1] \o (IF table[n] = Blank THEN <<>> ELSE <<table[n]>>)
  IN  upTo[Len(table)]

Indexable == \A i \in 1..Len(table) : table[i] # Malformed

WhereId == IntOf[query.where_value]

NotInteger == pc = "find" /\ WhereId = NoInt /\ Answer("notInteger")

\* table_index_find_row, which has to index the table.
Found == WhereId \in 1..Len(DataRows)

FindNothing ==
  /\ pc = "find"
  /\ WhereId # NoInt
  /\ Indexable
  /\ ~Found
  /\ pc' = "show"
  /\ UNCHANGED <<input, binding, index, id, rows, overran, held>>

FindMisfit ==
  /\ pc = "find"
  /\ WhereId # NoInt
  /\ Indexable
  /\ Found
  /\ ~Fits(DataRows[WhereId])
  /\ Answer("badRow")

FindRow ==
  /\ pc = "find"
  /\ WhereId # NoInt
  /\ Indexable
  /\ Found
  /\ Fits(DataRows[WhereId])
  /\ rows' = <<Projected(DataRows[WhereId], WhereId)>>
  /\ held' = held \cup {"rows", "fields"}
  /\ pc' = "show"
  /\ UNCHANGED <<input, binding, index, id, overran>>

\* The id cannot be looked up: the index cannot be built, or the row not be read.
\* The fields parsed of a line that cannot be parsed to its end are not freed.
FindFails ==
  /\ pc = "find"
  /\ WhereId # NoInt
  /\ \E lost \in SUBSET IF DataRows = <<>> THEN {} ELSE {"fields"} :
       AnswerKeeping("failed", lost)

\* The row's copy fails: the row buffer may have been allocated already.
FindRowFails ==
  /\ pc = "find"
  /\ WhereId # NoInt
  /\ Indexable
  /\ Found
  /\ Fits(DataRows[WhereId])
  /\ \E kept \in {{}, {"rows"}} : AnswerKeeping("failed", kept)

-----------------------------------------------------------------------------
(* The scan.                                                               *)

Open ==
  /\ pc = "open"
  /\ held' = held \cup {"file"}
  /\ pc' = "scan"
  /\ UNCHANGED <<input, binding, index, id, rows, overran>>

AtLine == pc = "scan" /\ index < Len(table)
Line == table[index + 1]

SkipBlank ==
  /\ AtLine
  /\ Line = Blank
  /\ index' = index + 1
  /\ UNCHANGED <<input, binding, pc, id, rows, overran, held>>

\* Whatever rows were collected before are not freed.
ScanRefuses ==
  /\ AtLine
  /\ Line # Blank
  /\ Line # Malformed => ~Fits(Line)
  /\ AnswerKeeping("badRow", held \cap {"rows"})

\* row_matches_where
Matches == query.has_where => Line[where_index] = query.where_value

\* The line's fields could not be copied; the rows stay allocated here too.
ParseFails == AtLine /\ Line # Blank /\ AnswerKeeping("failed", held \cap {"rows"})

\* Mutant of PassRow: only rows that are shown are numbered.
PassRowUncounted ==
  /\ AtLine
  /\ IsRow(Line)
  /\ Fits(Line)
  /\ ~Matches
  /\ index' = index + 1
  /\ UNCHANGED <<input, binding, pc, id, rows, overran, held>>

\* Mutant of PassRow: the scan does not go on behind a row that is not shown.
PassRowStuck ==
  /\ AtLine
  /\ IsRow(Line)
  /\ Fits(Line)
  /\ ~Matches
  /\ UNCHANGED vars

PassRow ==
  /\ AtLine
  /\ IsRow(Line)
  /\ Fits(Line)
  /\ ~Matches
  /\ index' = index + 1
  /\ id' = id + 1
  /\ UNCHANGED <<input, binding, pc, rows, overran, held>>

CollectRow ==
  /\ AtLine
  /\ IsRow(Line)
  /\ Fits(Line)
  /\ Matches
  /\ rows' = Append(rows, Projected(Line, id))
  /\ index' = index + 1
  /\ id' = id + 1
  /\ held' = held \cup {"rows"}
  /\ UNCHANGED <<input, binding, pc, overran>>

ScanDone ==
  /\ pc = "scan"
  /\ ~AtLine
  /\ held' = held \ {"file"}
  /\ pc' = "show"
  /\ UNCHANGED <<input, binding, index, id, rows, overran>>

Show == pc = "show" /\ AnswerKeeping("ok", {})

\* A row to show could not be copied.
CollectFails == AtLine /\ IsRow(Line) /\ Fits(Line) /\ Matches /\ Answer("failed")

\* Memory or the file is not to be had.
Fails ==
  /\ \/ pc \in {"indexes", "open", "show"}
     \/ pc = "bind" /\ MoreColumns /\ Known(Column)
  /\ Answer("failed")

Step ==
  \/ Allocate \/ Bind \/ BindRefuses \/ ResolveWhere \/ ResolveRefuses \/ NotInteger
  \/ FindNothing \/ FindMisfit \/ FindRow \/ Open \/ SkipBlank \/ ScanRefuses \/ PassRow
  \/ CollectRow \/ ScanDone \/ Show

Next == Step \/ FindFails \/ FindRowFails \/ ParseFails \/ CollectFails \/ Fails \/ Abort

\* Where the index cannot be built the only step of execute_select is a failure.
Goes == Step \/ FindFails

\* execute_select is sequential code that runs.
FairSpec == Init /\ [][Next]_vars /\ WF_vars(Goes)

-----------------------------------------------------------------------------
(* Properties.                                                             *)

\* The range of every variable.
TypeOK ==
  /\ query \in Queries /\ schema \in Schemas /\ table \in Tables
  /\ pc \in Answers \cup {"indexes", "bind", "find", "open", "scan", "show"}
  /\ index \in 0..(Len(table) + Len(Columns))
  /\ Len(headers) <= Len(Columns)
  /\ selected_indexes \in Seq(0..Len(schema))
  /\ where_index \in 0..Len(schema)
  /\ id \in 1..(Len(table) + 1)
  /\ Len(rows) <= IF ById THEN 1 ELSE index
  /\ overran \in BOOLEAN
  /\ held \subseteq {"schema", "selected_indexes", "headers", "rows", "fields", "file"}

\* The value a column of that name has in the data row with that rank.
ValueOf(name, rank) ==
  IF name = IdColumn THEN rank ELSE DataRows[rank][FindColumn(name)]

\* The ranks of the rows an answer must show.
Wanted ==
  {rank \in 1..Len(DataRows) :
     ~query.has_where \/
       IF query.where_column = IdColumn THEN rank = WhereId
       ELSE ValueOf(query.where_column, rank) = query.where_value}

\* What a query reads has as many fields as the schema has columns: by id the
\* row, in a scan every line that is not blank.
RowsFit ==
  IF ById THEN Found => Fits(DataRows[WhereId])
  ELSE \A i \in 1..Len(table) : table[i] = Blank \/ (IsRow(table[i]) /\ Fits(table[i]))

\* An answer shows, under the requested names in the requested order, the
\* values of exactly the rows that pass the filter, in the order of the file,
\* each with its rank as its id, whichever path found it.  Of two columns with
\* one name the first is meant, except by the star, which shows both.  A misfit
\* among the lines that are read, shown or not, lets no answer out.
AnswerIsTheQuery ==
  pc = "ok" =>
    /\ RowsFit
    /\ headers = Columns
    /\ \E ranks \in [1..Len(rows) -> Wanted] :
         /\ \A i, j \in 1..Len(rows) : i < j => ranks[i] < ranks[j]
         /\ \A rank \in Wanted : \E i \in 1..Len(rows) : ranks[i] = rank
         /\ \A i \in 1..Len(rows) :
              rows[i] = [k \in 1..Len(Columns) |->
                           IF query.select_all THEN DataRows[ranks[i]][k]
                           ELSE ValueOf(Columns[k], ranks[i])]

\* A query is refused only for a name or a value that is wrong, or a misfit
\* among the lines that it reads.
RefusedForCause ==
  /\ pc = "unknownColumn" =>
       \/ \E name \in Range(Columns) : ~Known(name)
       \/ query.has_where /\ ~Known(query.where_column)
  /\ pc = "notInteger" => ById /\ WhereId = NoInt
  /\ pc = "badRow" => ~RowsFit

\* The places of a row that a query reads, to filter and to show.
PlacesRead ==
  (Range(selected_indexes) \ {0}) \cup
  (IF query.has_where /\ ~ById THEN {where_index} ELSE {})

\* The row an id has led to, or the line the scan is at.
RowAtHand == IF pc = "find" THEN DataRows[WhereId] ELSE Line

AtRow ==
  \/ pc = "find" /\ WhereId # NoInt /\ Indexable /\ Found
  \/ AtLine /\ IsRow(Line)

\* Nothing behind selected_indexes is written but for a list of more columns
\* than the schema has.  Otherwise nothing is read outside an array: each bound
\* column has its header, a row that fits has every place that is read in it, by
\* id and in a scan, and print_result_table finds a value for each header in
\* every row it is given.
AccessesStayInBounds ==
  IF overran THEN ~query.select_all /\ Len(query.columns) > Slots
  ELSE /\ Len(selected_indexes) <= Slots
       /\ pc \in {"find", "scan", "show"} => Len(selected_indexes) = Len(headers)
       /\ AtRow /\ Fits(RowAtHand) => PlacesRead \subseteq 1..Len(RowAtHand)
       /\ pc = "show" => \A i \in 1..Len(rows) : Len(rows[i]) = Len(headers)

\* Every way out gives back what it took, with two exceptions.  A scan that ends
\* at a line, and a row by id that could not be copied, lose the rows collected;
\* an id that could not be looked up may lose the fields of one line.
OnlyRowsAndFieldsAreLost ==
  pc \in Answers \ {"aborted"} =>
    /\ held \subseteq {"rows", "fields"}
    /\ "rows" \in held =>
         IF ById THEN pc = "failed" /\ Found ELSE pc \in {"badRow", "failed"} /\ rows # <<>>
    /\ "fields" \in held => pc = "failed" /\ ById /\ DataRows # <<>>

\* executor.c:602: selected_indexes holds an entry for each column of the output.
EveryColumnHasASlot == ~overran

\* Every SELECT is answered.
SelectReturns == pc = "indexes" ~> pc \in Answers

=============================================================================
