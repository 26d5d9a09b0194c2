------------------------ MODULE StatementStagesProofs ------------------------
(***************************************************************************)
(* One SQL text through lexer, parser and binding, for texts, token        *)
(* arrays, statements, schemas and tables of any size.  The tokens are the *)
(* text, the syntax tree is what the tokens say, the row of an INSERT is   *)
(* the one that was named, and the answer of a SELECT is the query's; only *)
(* what is wrong is refused; nothing is accessed out of bounds, and every  *)
(* stage gives back what it took, whatever allocation fails.               *)
(***************************************************************************)
EXTENDS StatementStages, FiniteSetTheorems, SequenceLemmas

-----------------------------------------------------------------------------
(* Names and places.                                                       *)

\* The cardinality that InsertBinding speaks of is the one of the theorems.
LEMMA OneCardinality == ASSUME NEW S PROVE Insert!Cardinality(S) = Cardinality(S)
BY DEF Cardinality, Insert!Cardinality

LEMMA MinProperties ==
  ASSUME NEW S, S \subseteq Nat, S # {}
  PROVE  /\ Insert!Min(S) \in S /\ \A x \in S : Insert!Min(S) <= x
         /\ Select!Min(S) \in S /\ \A x \in S : Select!Min(S) <= x
<1>1. \E x \in S : \A y \in S : x <= y
  BY LeastMember
<1> QED
  BY <1>1 DEF Insert!Min, Select!Min

\* schema_find_column: a place with that name, 0 if the schema has none.
LEMMA FoundColumn ==
  ASSUME Len(schema) \in Nat, NEW name
  PROVE  /\ Insert!FindColumn(name) \in 0..Len(schema)
         /\ Select!FindColumn(name) = Insert!FindColumn(name)
         /\ Insert!FindColumn(name) # 0 => schema[Insert!FindColumn(name)] = name
         /\ \A i \in 1..Len(schema) : schema[i] = name => Insert!FindColumn(name) # 0
<1> DEFINE places == {i \in 1..Len(schema) : schema[i] = name}
<1>1. Insert!FindColumn(name) = (IF places = {} THEN 0 ELSE Insert!Min(places))
  BY DEF Insert!FindColumn
<1>2. Select!FindColumn(name) = (IF places = {} THEN 0 ELSE Insert!Min(places))
  BY DEF Select!FindColumn, Select!Min, Insert!Min
<1>3. places \subseteq Nat /\ \A i \in places : i \in 1..Len(schema) /\ schema[i] = name
  OBVIOUS
<1>4. places # {} => Insert!Min(places) \in places
  <2> HIDE DEF places
  <2> QED
    BY <1>3, MinProperties
<1>5. CASE places = {}
  BY <1>1, <1>2, <1>5
<1>6. CASE places # {}
  <2> DEFINE p == Insert!Min(places)
  <2>1. /\ Insert!FindColumn(name) = p /\ Select!FindColumn(name) = p
        /\ p \in 1..Len(schema) /\ schema[p] = name
    BY <1>1, <1>2, <1>3, <1>4, <1>6
  <2> HIDE DEF p
  <2> QED
    BY <2>1
<1> QED
  BY <1>5, <1>6

-----------------------------------------------------------------------------
(* execute_insert.                                                         *)

\* What the code holds at each place.
InsertHeld ==
  /\ pc \in {"count", "validate", "getId", "prepare", "register"} => held = {"schema"}
  /\ pc = "assign" => held = {"schema", "assigned", "row"}
  /\ pc = "append" => held = {"schema", "row"}
  /\ pc \in Insert!Answers => held = {} \/ (held = {"fields"} /\ pc = "failed" /\ row = Null)

Place(i) == Insert!FindColumn(statement.columns[i])

\* A column that validate_insert_columns has let pass.
Checked(i) ==
  /\ statement.columns[i] # IdColumn
  /\ Place(i) # 0
  /\ statement.values[i] \notin BadValues

\* What is known of the statement when its columns up to index are looked at.
InsertChecked ==
  /\ pc = "validate" =>
       Len(statement.columns) = Len(statement.values) /\ \A i \in 1..index : Checked(i)
  /\ pc \in {"getId", "prepare", "assign", "append", "register"} \/ stored # Null =>
       /\ Len(statement.columns) = Len(statement.values)
       /\ \A i \in 1..Len(statement.columns) : Checked(i)

\* The values of the columns up to index are in the places of these names.
RowIsNamed ==
  /\ row \in [1..Len(schema) -> Insert!Range(statement.values) \cup {Empty}]
  /\ assigned = {Place(i) : i \in 1..index}
  /\ \A i \in 1..index : row[Place(i)] = statement.values[i]
  /\ \A i, j \in 1..index : Place(i) = Place(j) => i = j
  /\ \A p \in (1..Len(schema)) \ assigned : row[p] = Empty

InsertRow ==
  /\ pc \in {"count", "validate", "getId", "prepare"} => assigned = {} /\ row = Null
  /\ pc \in {"count", "getId", "prepare"} => index = 0
  /\ pc \in {"assign", "append", "register"} \/ stored # Null => RowIsNamed
  /\ pc \in {"append", "register"} \/ stored # Null => index = Len(statement.columns)
  /\ stored # Null => stored = row /\ pc \in {"register", "ok", "failed"}

InsertTypes ==
  /\ statement \in Statements
  /\ schema \in Schemas
  /\ pc \in Insert!Answers
       \cup {"count", "validate", "getId", "prepare", "assign", "append", "register"}
  /\ index \in 0..Len(statement.columns)
  /\ assigned \subseteq 1..Len(schema)
  /\ row # Null => row \in [1..Len(schema) -> Insert!Range(statement.values) \cup {Empty}]

InsertInv ==
  InsertTypes /\ InsertHeld /\ InsertChecked /\ InsertRow /\ Insert!RefusedForCause

\* The constants, as the proofs use them.
InsertFacts ==
  /\ Len(schema) \in Nat /\ schema \in [1..Len(schema) -> Insert!Range(schema)]
  /\ Len(statement.columns) \in Nat
  /\ statement.columns \in [1..Len(statement.columns) -> Insert!Range(statement.columns)]
  /\ Len(statement.values) \in Nat
  /\ statement.values \in [1..Len(statement.values) -> Insert!Range(statement.values)]
  /\ IdColumn \notin Insert!Range(schema)

LEMMA InsertConstants ==
  ASSUME statement \in Statements, schema \in Schemas
  PROVE  InsertFacts
<1>1. /\ schema \in Seq(Insert!Range(schema)) /\ IdColumn \notin Insert!Range(schema)
      /\ statement.columns \in Seq(Insert!Range(statement.columns))
      /\ statement.values \in Seq(Insert!Range(statement.values))
  BY StagesAssumption DEF Insert!InsertAssumption
<1> QED
  BY <1>1 DEF InsertFacts

LEMMA InsertInit == Insert!Init => InsertInv
<1> SUFFICES ASSUME Insert!Init PROVE InsertInv
  OBVIOUS
<1>1. InsertFacts
  BY InsertConstants DEF Insert!Init
<1> QED
  BY <1>1 DEF Insert!Init, InsertInv, InsertTypes, InsertHeld, InsertChecked, InsertRow, InsertFacts,
              Insert!Answers, Insert!Refusals, Insert!RefusedForCause

\* A list has no name twice iff it has as many names as places.
LEMMA NamesDiffer ==
  ASSUME InsertFacts
  PROVE  Insert!Cardinality(Insert!Range(statement.columns)) = Len(statement.columns)
         <=> \A i, j \in 1..Len(statement.columns) :
               statement.columns[i] = statement.columns[j] => i = j
<1> DEFINE S == 1..Len(statement.columns)
           T == Insert!Range(statement.columns)
<1>1. statement.columns \in [S -> T] /\ Len(statement.columns) \in Nat
  BY DEF InsertFacts
<1>2. \A t \in T : \E s \in S : statement.columns[s] = t
  BY <1>1 DEF Insert!Range
<1>3. statement.columns \in Surjection(S, T)
  BY <1>1, <1>2 DEF Surjection
<1>4. IsFiniteSet(S) /\ Cardinality(S) = Len(statement.columns)
  <2>1. IsFiniteSet(S) /\ Cardinality(S) = (IF 1 > Len(statement.columns) THEN 0
                                            ELSE Len(statement.columns) - 1 + 1)
    BY <1>1, FS_Interval
  <2> HIDE DEF S
  <2> QED
    BY <1>1, <2>1
<1>5. Cardinality(T) = Cardinality(S) <=> statement.columns \in Injection(S, T)
  BY <1>3, <1>4, FS_Surjection
<1>6. statement.columns \in Injection(S, T) <=>
        \A i, j \in S : statement.columns[i] = statement.columns[j] => i = j
  BY <1>1 DEF Injection, IsInjective
<1> QED
  BY <1>4, <1>5, <1>6, OneCardinality

\* Each fault of a column is one of the whole statement.
LEMMA FaultCounts ==
  ASSUME InsertFacts, index \in 0..Len(statement.columns), Insert!MoreColumns,
         Len(statement.columns) = Len(statement.values),
         Insert!Fault # "none" \/ Insert!FindColumn(Insert!Column) = 0
  PROVE  ~Insert!Acceptable
<1> DEFINE i == index + 1
<1>1. /\ i \in 1..Len(statement.columns) /\ i \in 1..Len(statement.values)
      /\ Insert!Column = statement.columns[i] /\ Insert!Value = statement.values[i]
  BY DEF Insert!MoreColumns, InsertFacts, Insert!Column, Insert!Value
<1>2. /\ Insert!Column \in Insert!Range(statement.columns)
      /\ Insert!Value \in Insert!Range(statement.values)
  BY <1>1 DEF InsertFacts, Insert!Range
<1>3. Insert!FindColumn(Insert!Column) = 0 => Insert!Column \notin Insert!Range(schema)
  BY FoundColumn DEF InsertFacts, Insert!Range
<1>4. \/ Insert!Column = IdColumn
      \/ Insert!FindColumn(Insert!Column) = 0
      \/ Insert!Value \in BadValues
  BY DEF Insert!Fault
<1> QED
  BY <1>2, <1>3, <1>4 DEF Insert!Acceptable, InsertFacts

LEMMA InsertAnswersKeeping ==
  ASSUME InsertInv, NEW answer \in Insert!Answers, NEW kept,
         Insert!AnswerKeeping(answer, kept),
         kept = {} \/ (kept = {"fields"} /\ answer = "failed" /\ row = Null),
         answer = "ok" => FALSE,
         answer \in Insert!Refusals => ~Insert!Acceptable /\ stored = Null
  PROVE  InsertInv'
<1>1. /\ pc' = answer /\ held' = kept
      /\ UNCHANGED <<statement, schema, index, assigned, row, stored>>
  BY DEF Insert!AnswerKeeping
<1>2. \A i : Checked(i)' <=> Checked(i)
  BY <1>1 DEF Checked, Place, Insert!FindColumn
<1>3. RowIsNamed' <=> RowIsNamed
  BY <1>1 DEF RowIsNamed, Place, Insert!FindColumn
<1>4. Insert!Acceptable' <=> Insert!Acceptable
  BY <1>1 DEF Insert!Acceptable
<1>5. stored # Null => answer = "failed"
  BY DEF Insert!Answers
<1> QED
  BY <1>1, <1>2, <1>3, <1>4, <1>5
     DEF InsertInv, InsertTypes, InsertHeld, InsertChecked, InsertRow, Insert!Answers,
         Insert!Refusals, Insert!RefusedForCause

LEMMA InsertAnswers ==
  ASSUME InsertInv, NEW answer \in Insert!Answers, Insert!Answer(answer),
         answer = "ok" => FALSE,
         answer \in Insert!Refusals => ~Insert!Acceptable /\ stored = Null
  PROVE  InsertInv'
BY InsertAnswersKeeping DEF Insert!Answer

\* No id, and so no row: of an index that could not be rebuilt fields may stay.
LEMMA GetIdFailsKeeps == ASSUME InsertInv, Insert!GetIdFails PROVE InsertInv'
<1>1. PICK lost \in SUBSET {"fields"} : pc = "getId" /\ Insert!AnswerKeeping("failed", lost)
  BY DEF Insert!GetIdFails
<1>2. lost = {} \/ lost = {"fields"}
  OBVIOUS
<1>3. row = Null
  BY <1>1 DEF InsertInv, InsertRow
<1> QED
  BY <1>1, <1>2, <1>3, InsertAnswersKeeping DEF Insert!Answers, Insert!Refusals

\* The steps of validate_insert_columns and before build_insert_row's loop.
LEMMA CheckKeeps ==
  ASSUME InsertInv,
         \/ Insert!CountOk \/ Insert!Validate \/ Insert!Validated \/ Insert!GetNextId
  PROVE  InsertInv'
<1>0. InsertFacts
  BY InsertConstants DEF InsertInv, InsertTypes
<1>1. /\ UNCHANGED <<statement, schema, assigned, row, held, stored>>
      /\ pc \in {"count", "validate", "getId"} /\ stored = Null
  BY DEF InsertInv, InsertRow, Insert!CountOk, Insert!Validate, Insert!Validated, Insert!GetNextId
<1>2. \A i : Checked(i)' <=> Checked(i)
  BY <1>1 DEF Checked, Place, Insert!FindColumn
<1>3. CASE Insert!CountOk
  BY <1>0, <1>1, <1>3
     DEF InsertInv, InsertTypes, InsertHeld, InsertChecked, InsertRow, InsertFacts,
         Insert!RefusedForCause, Insert!Answers, Insert!Refusals, Insert!CountOk,
         Insert!CountsDiffer
<1>4. CASE Insert!Validate
  <2>1. index' = index + 1 /\ index' \in 0..Len(statement.columns) /\ pc' = "validate"
        /\ pc = "validate"
    BY <1>0, <1>4
       DEF Insert!Validate, Insert!MoreColumns, InsertInv, InsertTypes, InsertFacts
  <2>2. Checked(index + 1)
    BY <1>4 DEF Insert!Validate, Insert!Fault, Insert!Column, Insert!Value, Checked, Place
  <2>3. \A i \in 1..index' : i \in 1..index \/ i = index + 1
    BY <2>1 DEF InsertInv, InsertTypes
  <2>4. InsertChecked'
    BY <1>1, <1>2, <2>1, <2>2, <2>3 DEF InsertInv, InsertChecked
  <2> QED
    BY <1>1, <2>1, <2>4
       DEF InsertInv, InsertTypes, InsertHeld, InsertRow, Insert!RefusedForCause,
           Insert!Answers, Insert!Refusals
<1>5. CASE Insert!Validated
  <2>1. index' = 0 /\ pc' = "getId" /\ pc = "validate" /\ index = Len(statement.columns)
    BY <1>0, <1>5
       DEF Insert!Validated, Insert!MoreColumns, InsertInv, InsertTypes, InsertFacts
  <2>2. InsertChecked'
    BY <1>1, <1>2, <2>1 DEF InsertInv, InsertChecked
  <2> QED
    BY <1>0, <1>1, <2>1, <2>2
       DEF InsertInv, InsertTypes, InsertHeld, InsertRow, InsertFacts, Insert!RefusedForCause,
           Insert!Answers, Insert!Refusals
<1>6. CASE Insert!GetNextId
  <2>1. index' = index /\ pc' = "prepare" /\ pc = "getId"
    BY <1>6 DEF Insert!GetNextId
  <2>2. InsertChecked'
    BY <1>1, <1>2, <2>1 DEF InsertInv, InsertChecked
  <2> QED
    BY <1>1, <2>1, <2>2
       DEF InsertInv, InsertTypes, InsertHeld, InsertRow, Insert!RefusedForCause,
           Insert!Answers, Insert!Refusals
<1> QED
  BY <1>3, <1>4, <1>5, <1>6

LEMMA PrepareKeeps == ASSUME InsertInv, Insert!PrepareRow PROVE InsertInv'
<1>0. InsertFacts
  BY InsertConstants DEF InsertInv, InsertTypes
<1>1. /\ UNCHANGED <<statement, schema, index, assigned, stored>>
      /\ pc = "prepare" /\ pc' = "assign" /\ stored = Null /\ index = 0 /\ assigned = {}
      /\ held' = {"schema", "assigned", "row"}
      /\ row' = [i \in 1..Len(schema) |-> Empty]
  BY DEF InsertInv, InsertRow, InsertHeld, Insert!PrepareRow
<1>2. \A i : Checked(i)' <=> Checked(i)
  BY <1>1 DEF Checked, Place, Insert!FindColumn
<1>3. RowIsNamed'
  BY <1>1 DEF RowIsNamed
<1>4. InsertChecked'
  BY <1>1, <1>2 DEF InsertInv, InsertChecked
<1> QED
  BY <1>0, <1>1, <1>3, <1>4
     DEF InsertInv, InsertTypes, InsertHeld, InsertRow, InsertFacts, Insert!RefusedForCause,
         Insert!Answers, Insert!Refusals

\* The next column has a place of its own, and its value is put there.
LEMMA AssignKeeps == ASSUME InsertInv, Insert!Assign PROVE InsertInv'
<1>0. InsertFacts
  BY InsertConstants DEF InsertInv, InsertTypes
<1> DEFINE next == index + 1
<1>1. /\ UNCHANGED <<statement, schema, pc, held, stored>> /\ pc = "assign" /\ stored = Null
      /\ index' = next /\ next \in 1..Len(statement.columns)
      /\ Place(next) > 0 /\ Place(next) \notin assigned
      /\ row' = [row EXCEPT ![Place(next)] = statement.values[next]]
      /\ assigned' = assigned \cup {Place(next)}
  BY <1>0 DEF Insert!Assign, Insert!MoreColumns, Insert!Column, Insert!Value, Place, InsertInv,
              InsertTypes, InsertRow, InsertFacts
<1>2. \A i : (Checked(i)' <=> Checked(i)) /\ Place(i)' = Place(i)
  BY <1>1 DEF Checked, Place, Insert!FindColumn
<1>3. Place(next) \in 1..Len(schema) /\ next \in 1..Len(statement.values)
      /\ statement.values[next] \in Insert!Range(statement.values)
  <2>1. Place(next) \in 0..Len(schema)
    BY <1>0, FoundColumn DEF Place, InsertFacts
  <2>2. Len(statement.columns) = Len(statement.values)
    BY <1>1 DEF InsertInv, InsertChecked
  <2> QED
    BY <1>0, <1>1, <2>1, <2>2 DEF InsertFacts
<1>4. RowIsNamed
  BY <1>1 DEF InsertInv, InsertRow
<1>5. \A i \in 1..index' : i \in 1..index \/ i = next
  BY <1>1 DEF InsertInv, InsertTypes
<1>6. \A i \in 1..index : i \in 1..index' /\ Place(i) \in assigned /\ Place(i) # Place(next)
  BY <1>1, <1>4 DEF RowIsNamed, InsertInv, InsertTypes
<1> HIDE DEF next
<1>7. RowIsNamed'
  <2>1. row' \in [1..Len(schema) -> Insert!Range(statement.values) \cup {Empty}]
    BY <1>1, <1>3, <1>4 DEF RowIsNamed
  <2>2. assigned' = {Place(i) : i \in 1..index'}
    BY <1>1, <1>4, <1>5, <1>6 DEF RowIsNamed
  <2>3. \A i \in 1..index' : row'[Place(i)] = statement.values[i]
    <3>1. assigned \subseteq 1..Len(schema)
      BY DEF InsertInv, InsertTypes
    <3> QED
      BY <1>1, <1>3, <1>4, <1>5, <1>6, <3>1 DEF RowIsNamed
  <2>4. \A i, j \in 1..index' : Place(i) = Place(j) => i = j
    BY <1>4, <1>5, <1>6 DEF RowIsNamed
  <2>5. \A p \in (1..Len(schema)) \ assigned' : row'[p] = Empty
    BY <1>1, <1>3, <1>4 DEF RowIsNamed
  <2> QED
    BY <1>1, <1>2, <2>1, <2>2, <2>3, <2>4, <2>5 DEF RowIsNamed
<1>8. InsertChecked'
  BY <1>1, <1>2 DEF InsertInv, InsertChecked
<1>9. InsertTypes'
  <2>1. row' \in [1..Len(schema) -> Insert!Range(statement.values) \cup {Empty}]
    BY <1>1, <1>3, <1>4 DEF RowIsNamed
  <2>2. index' \in 0..Len(statement.columns)
    BY <1>0, <1>1 DEF InsertFacts
  <2>3. assigned' \subseteq 1..Len(schema)
    BY <1>1, <1>3 DEF InsertInv, InsertTypes
  <2> QED
    BY <1>1, <2>1, <2>2, <2>3 DEF InsertInv, InsertTypes
<1> QED
  BY <1>1, <1>7, <1>8, <1>9
     DEF InsertInv, InsertHeld, InsertRow, Insert!RefusedForCause, Insert!Answers,
         Insert!Refusals

LEMMA StoreKeeps == ASSUME InsertInv, Insert!RowBuilt \/ Insert!AppendRow PROVE InsertInv'
<1>0. InsertFacts
  BY InsertConstants DEF InsertInv, InsertTypes
<1>1. /\ UNCHANGED <<statement, schema, index, assigned, row>> /\ RowIsNamed
      /\ index = Len(statement.columns) /\ stored = Null
      /\ \/ /\ pc = "assign" /\ pc' = "append" /\ stored' = stored
            /\ held' = {"schema", "row"}
         \/ pc = "append" /\ pc' = "register" /\ stored' = row /\ held' = {"schema"}
  <2>1. /\ UNCHANGED <<statement, schema, index, assigned, row>>
        /\ \/ /\ pc = "assign" /\ pc' = "append" /\ stored' = stored
              /\ held' = held \ {"assigned"} /\ ~Insert!MoreColumns
           \/ pc = "append" /\ pc' = "register" /\ stored' = row /\ held' = held \ {"row"}
    BY DEF Insert!RowBuilt, Insert!AppendRow
  <2>2. RowIsNamed /\ stored = Null
    BY <2>1 DEF InsertInv, InsertRow
  <2>3. index = Len(statement.columns)
    BY <1>0, <2>1 DEF InsertInv, InsertTypes, InsertRow, InsertFacts, Insert!MoreColumns
  <2>4. held = (IF pc = "assign" THEN {"schema", "assigned", "row"} ELSE {"schema", "row"})
    BY <2>1 DEF InsertInv, InsertHeld
  <2> QED
    BY <2>1, <2>2, <2>3, <2>4
<1>2. \A i : (Checked(i)' <=> Checked(i)) /\ Place(i)' = Place(i)
  BY <1>1 DEF Checked, Place, Insert!FindColumn
<1>3. RowIsNamed'
  BY <1>1, <1>2 DEF RowIsNamed
<1>4. InsertChecked'
  BY <1>1, <1>2 DEF InsertInv, InsertChecked
<1> QED
  BY <1>1, <1>3, <1>4
     DEF InsertInv, InsertTypes, InsertHeld, InsertRow, Insert!RefusedForCause, Insert!Answers,
         Insert!Refusals

LEMMA RegisterKeeps == ASSUME InsertInv, Insert!RegisterRow PROVE InsertInv'
<1>1. /\ UNCHANGED <<statement, schema, index, assigned, row, stored>>
      /\ pc = "register" /\ pc' = "ok" /\ held' = {}
  BY DEF InsertInv, InsertHeld, Insert!RegisterRow, Insert!AnswerKeeping
<1>2. \A i : (Checked(i)' <=> Checked(i)) /\ Place(i)' = Place(i)
  BY <1>1 DEF Checked, Place, Insert!FindColumn
<1>3. RowIsNamed' <=> RowIsNamed
  BY <1>1, <1>2 DEF RowIsNamed
<1>4. InsertChecked'
  BY <1>1, <1>2 DEF InsertInv, InsertChecked
<1> QED
  BY <1>1, <1>3, <1>4
     DEF InsertInv, InsertTypes, InsertHeld, InsertRow, Insert!RefusedForCause, Insert!Answers,
         Insert!Refusals

\* A refused statement is wrong: the counts, a column on its own, or a name
\* that is written twice.
LEMMA RefusalKeeps ==
  ASSUME InsertInv,
         Insert!CountRefused \/ Insert!ValidateRefuses \/ Insert!AssignRefuses
  PROVE  InsertInv'
<1>0. InsertFacts
  BY InsertConstants DEF InsertInv, InsertTypes
<1>1. stored = Null /\ index \in 0..Len(statement.columns)
  BY DEF InsertInv, InsertTypes, InsertRow, Insert!CountRefused, Insert!ValidateRefuses,
         Insert!AssignRefuses
<1>2. CASE Insert!CountRefused
  <2>1. ~Insert!Acceptable
    BY <1>2 DEF Insert!CountRefused, Insert!CountsDiffer, Insert!Acceptable
  <2> QED
    BY <1>1, <1>2, <2>1, InsertAnswers DEF Insert!CountRefused, Insert!Answers, Insert!Refusals
<1>3. CASE Insert!ValidateRefuses
  <2>1. ~Insert!Acceptable
    BY <1>0, <1>1, <1>3, FaultCounts
       DEF Insert!ValidateRefuses, InsertInv, InsertChecked
  <2>2. Insert!Fault \in {"explicitId", "unknownColumn", "newline"}
    BY <1>3 DEF Insert!ValidateRefuses, Insert!Fault
  <2> QED
    BY <1>1, <1>3, <2>1, <2>2, InsertAnswers
       DEF Insert!ValidateRefuses, Insert!Answers, Insert!Refusals
<1>4. CASE Insert!AssignRefuses
  <2> DEFINE next == index + 1
  <2>1. /\ pc = "assign" /\ Insert!MoreColumns /\ next \in 1..Len(statement.columns)
        /\ Place(next) \in assigned \cup {0}
        /\ Place(next) = Insert!FindColumn(Insert!Column)
        /\ Insert!Answer(IF Place(next) = 0 THEN "unknownColumn" ELSE "duplicateColumn")
    BY <1>0, <1>1, <1>4
       DEF Insert!AssignRefuses, Insert!MoreColumns, Insert!Column, Place, InsertFacts
  <2>2. Len(statement.columns) = Len(statement.values) /\ RowIsNamed
    BY <2>1 DEF InsertInv, InsertChecked, InsertRow
  <2>3. CASE Place(next) = 0
    <3>1. ~Insert!Acceptable
      BY <1>0, <1>1, <2>1, <2>2, <2>3, FaultCounts
    <3> QED
      BY <1>1, <2>1, <2>3, <3>1, InsertAnswers DEF Insert!Answers, Insert!Refusals
  <2>4. CASE Place(next) # 0
    <3>1. PICK i \in 1..index : Place(i) = Place(next)
      BY <2>1, <2>2, <2>4 DEF RowIsNamed
    <3>2. statement.columns[i] = statement.columns[next]
      BY <1>0, <2>4, <3>1, FoundColumn DEF Place, InsertFacts
    <3>3. i \in 1..Len(statement.columns) /\ i # next
      BY <1>0, <1>1, <3>1 DEF InsertFacts
    <3>4. ~Insert!Acceptable
      BY <1>0, <2>1, <3>2, <3>3, NamesDiffer DEF Insert!Acceptable
    <3> QED
      BY <1>1, <2>1, <2>4, <3>4, InsertAnswers DEF Insert!Answers, Insert!Refusals
  <2> QED
    BY <2>3, <2>4
<1> QED
  BY <1>2, <1>3, <1>4

LEMMA InsertStep == InsertInv /\ Insert!Next => InsertInv'
<1> SUFFICES ASSUME InsertInv, Insert!Next PROVE InsertInv'
  OBVIOUS
<1>1. CASE \/ Insert!CountOk \/ Insert!Validate \/ Insert!Validated \/ Insert!GetNextId
  BY <1>1, CheckKeeps
<1>2. CASE Insert!CountRefused \/ Insert!ValidateRefuses \/ Insert!AssignRefuses
  BY <1>2, RefusalKeeps
<1>3. CASE Insert!PrepareRow
  BY <1>3, PrepareKeeps
<1>4. CASE Insert!Assign
  BY <1>4, AssignKeeps
<1>5. CASE Insert!RowBuilt \/ Insert!AppendRow
  BY <1>5, StoreKeeps
<1>6. CASE Insert!RegisterRow
  BY <1>6, RegisterKeeps
<1>7. CASE Insert!Fails
  BY <1>7, InsertAnswers DEF Insert!Fails, Insert!Answers, Insert!Refusals
<1>8. CASE Insert!GetIdFails
  BY <1>8, GetIdFailsKeeps
<1> QED
  BY <1>1, <1>2, <1>3, <1>4, <1>5, <1>6, <1>7, <1>8 DEF Insert!Next, Insert!Step

\* What the invariant says of execute_insert.
LEMMA InsertSafe ==
  InsertInv => /\ Insert!TypeOK /\ Insert!OnlyFieldsAreLost
               /\ Insert!StoredRowIsWhatWasNamed /\ Insert!RefusedForCause
<1> SUFFICES ASSUME InsertInv
             PROVE  /\ Insert!TypeOK /\ Insert!OnlyFieldsAreLost
                    /\ Insert!StoredRowIsWhatWasNamed /\ Insert!RefusedForCause
  OBVIOUS
<1>0. InsertFacts /\ InsertTypes /\ InsertHeld /\ InsertChecked /\ InsertRow
  BY InsertConstants DEF InsertInv, InsertTypes
<1>1. Insert!TypeOK
  <2>1. held \subseteq {"schema", "assigned", "row", "fields"}
    BY <1>0 DEF InsertTypes, InsertHeld
  <2>2. row # Null => Insert!Range(row) \subseteq Insert!Range(statement.values) \cup {Empty}
    BY <1>0 DEF InsertTypes, Insert!Range
  <2>3. stored # Null => stored = row
    BY <1>0 DEF InsertRow
  <2> QED
    BY <1>0, <2>1, <2>2, <2>3 DEF InsertTypes, Insert!TypeOK
<1>2. Insert!OnlyFieldsAreLost
  BY <1>0 DEF InsertHeld, Insert!OnlyFieldsAreLost
<1>3. ASSUME stored # Null PROVE Insert!StoredRowIsWhatWasNamed
  <2>1. /\ stored = row /\ RowIsNamed /\ index = Len(statement.columns)
        /\ Len(statement.columns) = Len(statement.values)
        /\ \A i \in 1..Len(statement.columns) : Checked(i)
    BY <1>0, <1>3 DEF InsertRow, InsertChecked
  <2>2. \A i \in 1..Len(statement.columns) :
          schema[Place(i)] = statement.columns[i] /\ Place(i) \in 1..Len(schema)
    BY <1>0, <2>1, FoundColumn DEF Checked, Place, InsertFacts
  <2>3. Insert!Acceptable
    <3>1. Insert!Range(statement.columns) \subseteq Insert!Range(schema)
      BY <1>0, <2>2 DEF Insert!Range, InsertFacts
    <3>2. \A i, j \in 1..Len(statement.columns) :
            statement.columns[i] = statement.columns[j] => i = j
      BY <2>1 DEF RowIsNamed, Place
    <3>3. Insert!Cardinality(Insert!Range(statement.columns)) = Len(statement.columns)
      BY <1>0, <3>2, NamesDiffer
    <3>4. Insert!Range(statement.values) \cap BadValues = {}
      BY <1>0, <2>1 DEF Checked, Insert!Range, InsertFacts
    <3> QED
      BY <2>1, <3>1, <3>3, <3>4 DEF Insert!Acceptable
  <2>4. Len(stored) = Len(schema)
    BY <1>0, <2>1 DEF RowIsNamed, InsertFacts
  <2>5. ASSUME NEW c \in 1..Len(schema)
        PROVE  LET named == {i \in 1..Len(statement.columns) :
                               statement.columns[i] = schema[c]
                               /\ Insert!FindColumn(schema[c]) = c}
               IN  IF named = {} THEN stored[c] = Empty
                   ELSE \E i \in named : stored[c] = statement.values[i]
    <3> DEFINE named == {i \in 1..Len(statement.columns) :
                           statement.columns[i] = schema[c]
                           /\ Insert!FindColumn(schema[c]) = c}
    <3>1. CASE named = {}
      <4>1. c \notin assigned
        BY <2>1, <2>2, <3>1 DEF RowIsNamed, Place
      <4> QED
        BY <2>1, <3>1, <4>1 DEF RowIsNamed
    <3>2. CASE named # {}
      <4>1. PICK i \in named : TRUE
        BY <3>2
      <4>2. Place(i) = c
        BY <4>1 DEF Place
      <4>3. stored[c] = statement.values[i]
        BY <2>1, <4>1, <4>2 DEF RowIsNamed
      <4> QED
        BY <3>2, <4>3
    <3> QED
      BY <3>1, <3>2
  <2> QED
    BY <2>3, <2>4, <2>5 DEF Insert!StoredRowIsWhatWasNamed
<1> QED
  BY <1>1, <1>2, <1>3 DEF Insert!StoredRowIsWhatWasNamed, InsertInv

-----------------------------------------------------------------------------
(* execute_select.                                                         *)

SelectTypes ==
  /\ query \in Queries /\ schema \in Schemas /\ table \in Tables
  /\ pc \in Select!Answers \cup {"indexes", "bind", "find", "open", "scan", "show"}
  /\ index \in 0..(Len(table) + Len(Select!Columns))
  /\ headers \in Seq(Select!Range(headers)) /\ Len(headers) <= Len(Select!Columns)
  /\ selected_indexes \in Seq(0..Len(schema))
  /\ where_index \in 0..Len(schema)
  /\ id \in 1..(Len(table) + 1)
  /\ rows \in Seq(Select!Range(rows)) /\ Len(rows) <= IF Select!ById THEN 1 ELSE index
  /\ overran \in BOOLEAN

\* How far the loops are: every column bound has its header and its place, and
\* the filter of a scan has found its column.
SelectLoops ==
  /\ pc \in {"indexes", "bind", "find", "open"} => rows = <<>> /\ id = 1
  /\ pc \in {"indexes", "find", "open"} => index = 0
  /\ pc \in {"indexes", "bind"} => index = Len(headers) /\ Len(headers) <= Len(Select!Columns)
  /\ pc \in {"indexes", "bind", "find", "open", "scan"} => Len(selected_indexes) = Len(headers)
  /\ pc = "find" => Select!ById
  /\ pc \in {"open", "scan"} =>
       ~Select!ById /\ (query.has_where => where_index \in 1..Len(schema))
  /\ pc = "scan" => index \in 0..Len(table) /\ id <= index + 1

SelectHeld ==
  /\ pc \in {"indexes", "bind", "find", "open"} =>
       held \subseteq {"schema", "selected_indexes", "headers"}
  /\ pc = "scan" =>
       /\ held \subseteq {"schema", "selected_indexes", "headers", "file", "rows"}
       /\ "rows" \in held => rows # <<>>
  /\ pc = "show" => held \subseteq {"schema", "selected_indexes", "headers", "fields", "rows"}
  /\ pc = "aborted" => held = {}
  /\ Select!OnlyRowsAndFieldsAreLost

\* Only a list that is longer than the schema gets behind the slots.
SelectSlots ==
  IF overran THEN ~query.select_all /\ Len(query.columns) > Len(schema)
  ELSE Len(selected_indexes) <= Len(schema)

SelectInv == SelectTypes /\ SelectLoops /\ SelectHeld /\ SelectSlots /\ Select!RefusedForCause

\* The constants, as the proofs use them.
SelectFacts ==
  /\ schema \in Seq(Select!Range(schema)) /\ Len(schema) \in Nat
  /\ table \in Seq(Select!Range(table)) /\ Len(table) \in Nat
  /\ Select!Columns \in Seq(Select!Range(Select!Columns)) /\ Len(Select!Columns) \in Nat
  /\ query.select_all => Select!Columns = schema
  /\ query.has_where \in BOOLEAN

LEMMA SelectConstants ==
  ASSUME query \in Queries, schema \in Schemas, table \in Tables
  PROVE  SelectFacts
<1>1. /\ schema \in Seq(Select!Range(schema)) /\ table \in Seq(Select!Range(table))
      /\ query.columns \in Seq(Select!Range(query.columns)) /\ query.has_where \in BOOLEAN
      /\ query.select_all \in BOOLEAN
  BY StagesAssumption DEF Select!SelectAssumption
<1>2. CASE query.select_all
  <2>1. Select!Columns = schema
    BY <1>2 DEF Select!Columns
  <2> QED
    BY <1>1, <2>1 DEF SelectFacts
<1>3. CASE ~query.select_all
  <2>1. Select!Columns = query.columns
    BY <1>3 DEF Select!Columns
  <2> QED
    BY <1>1, <1>3, <2>1 DEF SelectFacts
<1> QED
  BY <1>2, <1>3

LEMMA AppendToSequence ==
  ASSUME NEW s, s \in Seq(Select!Range(s)), NEW e
  PROVE  Append(s, e) \in Seq(Select!Range(Append(s, e))) /\ Len(Append(s, e)) = Len(s) + 1
<1> DEFINE T == Select!Range(s) \cup {e}
           longer == Append(s, e)
<1>1. s \in Seq(T) /\ e \in T
  OBVIOUS
<1>2. longer \in Seq(T) /\ Len(longer) = Len(s) + 1 /\ Len(longer) \in Nat
  BY <1>1
<1> HIDE DEF longer, T
<1>3. longer \in [1..Len(longer) -> T]
  BY <1>2
<1>4. longer \in [1..Len(longer) -> Select!Range(longer)]
  BY <1>3 DEF Select!Range
<1>5. longer \in Seq(Select!Range(longer))
  BY <1>2, <1>4
<1> QED
  BY <1>2, <1>5 DEF longer

LEMMA SelectInit == Select!Init => SelectInv
<1> SUFFICES ASSUME Select!Init PROVE SelectInv
  OBVIOUS
<1>1. SelectFacts
  BY SelectConstants DEF Select!Init
<1>2. /\ headers \in Seq(Select!Range(headers)) /\ Len(headers) = 0
      /\ rows \in Seq(Select!Range(rows)) /\ Len(rows) = 0
      /\ selected_indexes \in Seq(0..Len(schema)) /\ Len(selected_indexes) = 0
  BY DEF Select!Init
<1>3. SelectTypes
  <2>1. Len(rows) <= IF Select!ById THEN 1 ELSE index
    BY <1>2 DEF Select!Init
  <2>2. /\ index \in 0..(Len(table) + Len(Select!Columns)) /\ where_index \in 0..Len(schema)
        /\ id \in 1..(Len(table) + 1) /\ Len(headers) <= Len(Select!Columns)
    BY <1>1, <1>2 DEF Select!Init, SelectFacts
  <2>3. /\ query \in Queries /\ schema \in Schemas /\ table \in Tables
        /\ pc = "indexes" /\ overran = FALSE
    BY DEF Select!Init
  <2> QED
    BY <1>2, <2>1, <2>2, <2>3 DEF SelectTypes
<1>4. SelectLoops
  BY <1>1, <1>2 DEF Select!Init, SelectLoops, SelectFacts
<1> QED
  BY <1>1, <1>2, <1>3, <1>4
     DEF Select!Init, SelectInv, SelectHeld, SelectSlots, SelectFacts, Select!Answers,
         Select!RefusedForCause, Select!OnlyRowsAndFieldsAreLost

\* What was asked does not change.
LEMMA SameQuery ==
  ASSUME UNCHANGED Select!input
  PROVE  /\ UNCHANGED <<query, schema, table>>
         /\ Select!Columns' = Select!Columns /\ (Select!ById' <=> Select!ById)
         /\ Select!WhereId' = Select!WhereId
         /\ \A name : Select!Known(name)' <=> Select!Known(name)
         /\ Select!DataRows' = Select!DataRows /\ (Select!Found' <=> Select!Found)
         /\ Select!RowsFit' <=> Select!RowsFit
<1>1. /\ UNCHANGED <<query, schema, table>>
      /\ Select!Columns' = Select!Columns /\ (Select!ById' <=> Select!ById)
      /\ Select!WhereId' = Select!WhereId
      /\ \A name : Select!Known(name)' <=> Select!Known(name)
  BY DEF Select!input, Select!Columns, Select!ById, Select!WhereId, Select!Known,
         Select!FindColumn
<1>2. Select!DataRows' = Select!DataRows
  BY <1>1 DEF Select!DataRows
<1>3. Select!Found' <=> Select!Found
  BY <1>1, <1>2 DEF Select!Found
<1>4. Select!RowsFit' <=> Select!RowsFit
  BY <1>1, <1>2, <1>3 DEF Select!RowsFit, Select!Fits, Select!IsRow
<1> QED
  BY <1>1, <1>2, <1>3, <1>4

\* What an answer may leave behind.
LostWith(answer, kept) ==
  IF answer = "aborted" THEN kept = {}
  ELSE /\ kept \subseteq {"rows", "fields"}
       /\ "rows" \in kept =>
            IF Select!ById THEN answer = "failed" /\ Select!Found
            ELSE answer \in {"badRow", "failed"} /\ rows # <<>>
       /\ "fields" \in kept => answer = "failed" /\ Select!ById /\ Select!DataRows # <<>>

LEMMA SelectAnswers ==
  ASSUME SelectInv, NEW answer \in Select!Answers, NEW kept,
         Select!AnswerKeeping(answer, kept), LostWith(answer, kept),
         answer = "unknownColumn" =>
           \/ \E name \in Select!Range(Select!Columns) : ~Select!Known(name)
           \/ query.has_where /\ ~Select!Known(query.where_column),
         answer = "notInteger" => Select!ById /\ Select!WhereId = NoInt,
         answer = "badRow" => ~Select!RowsFit
  PROVE  SelectInv'
<1>1. /\ pc' = answer /\ held' = kept /\ UNCHANGED Select!input
      /\ UNCHANGED <<headers, selected_indexes, where_index, index, id, rows, overran>>
  BY DEF Select!AnswerKeeping, Select!input, Select!binding
<1>2. SelectTypes'
  BY <1>1, SameQuery DEF SelectInv, SelectTypes
<1>3. SelectLoops' /\ SelectSlots'
  BY <1>1, SameQuery DEF SelectInv, SelectLoops, SelectSlots, Select!Answers
<1>4. Select!OnlyRowsAndFieldsAreLost'
  <2>1. answer # "aborted" =>
          /\ held' \subseteq {"rows", "fields"}
          /\ "rows" \in held' =>
               IF Select!ById' THEN pc' = "failed" /\ Select!Found'
               ELSE pc' \in {"badRow", "failed"} /\ rows' # <<>>
          /\ "fields" \in held' => pc' = "failed" /\ Select!ById' /\ Select!DataRows' # <<>>
    BY <1>1, SameQuery DEF LostWith
  <2> QED
    BY <1>1, <2>1 DEF Select!OnlyRowsAndFieldsAreLost
<1>5. SelectHeld'
  BY <1>1, <1>4 DEF SelectHeld, LostWith, Select!Answers
<1>6. Select!RefusedForCause'
  BY <1>1, SameQuery DEF Select!RefusedForCause
<1> QED
  BY <1>2, <1>3, <1>5, <1>6 DEF SelectInv

LEMMA SlotsStay ==
  ASSUME SelectInv, UNCHANGED Select!input, UNCHANGED <<selected_indexes, overran>>
  PROVE  SelectSlots'
BY SameQuery DEF SelectInv, SelectSlots

LEMMA BindKeeps ==
  ASSUME SelectInv, Select!Allocate \/ Select!Bind \/ Select!ResolveWhere \/ Select!Open
  PROVE  SelectInv'
<1>0. SelectFacts /\ SelectTypes /\ SelectLoops /\ SelectHeld
  BY SelectConstants DEF SelectInv, SelectTypes
<1>1. UNCHANGED Select!input /\ UNCHANGED <<rows, id>> /\ rows = <<>> /\ id = 1
  BY <1>0
     DEF SelectLoops, Select!Allocate, Select!Bind, Select!ResolveWhere, Select!Open,
         Select!binding
<1>2. CASE Select!Allocate
  <2>1. /\ pc = "indexes" /\ pc' = "bind" /\ held' = held \cup {"selected_indexes", "headers"}
        /\ UNCHANGED <<headers, selected_indexes, where_index, index, overran>>
    BY <1>2 DEF Select!Allocate, Select!binding
  <2> QED
    BY <1>0, <1>1, <2>1, SameQuery
       DEF SelectInv, SelectTypes, SelectLoops, SelectHeld, SelectSlots, Select!Answers,
           Select!RefusedForCause, Select!OnlyRowsAndFieldsAreLost
<1>3. CASE Select!Bind
  <2>1. /\ pc = "bind" /\ pc' = "bind" /\ Select!MoreColumns /\ Select!Known(Select!Column)
        /\ headers' = Append(headers, Select!Column)
        /\ selected_indexes' =
             Append(selected_indexes,
                    IF query.select_all THEN index + 1 ELSE Select!PlaceOf(Select!Column))
        /\ overran' = (overran \/ index >= Len(schema))
        /\ index' = index + 1 /\ UNCHANGED <<where_index, held>>
    BY <1>3 DEF Select!Bind, Select!Slots
  <2>2. index + 1 \in 1..Len(Select!Columns)
    BY <1>0, <2>1 DEF Select!MoreColumns, SelectTypes, SelectFacts
  <2>3. (IF query.select_all THEN index + 1 ELSE Select!PlaceOf(Select!Column))
          \in 0..Len(schema)
    <3>1. CASE query.select_all
      BY <1>0, <2>2, <3>1 DEF SelectFacts
    <3>2. CASE ~query.select_all
      <4>1. Select!PlaceOf(Select!Column) \in 0..Len(schema)
        BY <1>0, FoundColumn DEF Select!PlaceOf, SelectFacts
      <4> QED
        BY <3>2, <4>1
    <3> QED
      BY <3>1, <3>2
  <2>4. headers' \in Seq(Select!Range(headers')) /\ Len(headers') = Len(headers) + 1
    <3>1. headers \in Seq(Select!Range(headers))
      BY <1>0 DEF SelectTypes
    <3> QED
      BY <2>1, <3>1, AppendToSequence
  <2>5. /\ selected_indexes' \in Seq(0..Len(schema))
        /\ Len(selected_indexes') = Len(selected_indexes) + 1
    BY <1>0, <2>1, <2>3 DEF SelectTypes
  <2>6. index = Len(headers) /\ Len(headers) = Len(selected_indexes) /\ Len(rows) = 0
    BY <1>0, <1>1, <2>1 DEF SelectLoops
  <2>7. SelectTypes'
    BY <1>0, <1>1, <2>1, <2>2, <2>4, <2>5, <2>6, SameQuery DEF SelectTypes, SelectFacts
  <2>8. SelectLoops'
    BY <1>0, <1>1, <2>1, <2>2, <2>4, <2>5, <2>6, SameQuery DEF SelectLoops, SelectFacts
  <2>9. SelectSlots'
    <3>1. query' = query /\ schema' = schema /\ overran \in BOOLEAN
      BY <1>0, <1>1 DEF SelectTypes, Select!input
    <3>2. CASE overran
      BY <2>1, <3>1, <3>2 DEF SelectInv, SelectSlots
    <3>3. CASE index >= Len(schema)
      <4>1. Len(Select!Columns) > Len(schema)
        BY <1>0, <2>2, <3>3 DEF SelectFacts, SelectTypes
      <4>2. ~query.select_all /\ Select!Columns = query.columns
        BY <1>0, <4>1 DEF SelectFacts, Select!Columns
      <4> QED
        BY <2>1, <3>1, <3>3, <4>1, <4>2 DEF SelectSlots
    <3>4. CASE ~overran /\ ~(index >= Len(schema))
      <4>1. Len(selected_indexes') <= Len(schema)
        BY <1>0, <2>5, <2>6, <3>4 DEF SelectFacts, SelectTypes
      <4> QED
        BY <2>1, <3>1, <3>4, <4>1 DEF SelectSlots
    <3> QED
      BY <3>2, <3>3, <3>4
  <2> QED
    BY <1>0, <2>1, <2>7, <2>8, <2>9 DEF SelectInv, SelectHeld, SelectSlots, Select!Answers, Select!RefusedForCause, Select!OnlyRowsAndFieldsAreLost
<1>4. CASE Select!ResolveWhere
  <2>1. /\ pc = "bind" /\ pc' = (IF Select!ById THEN "find" ELSE "open")
        /\ Select!WhereKnown /\ where_index' = Select!WhereIndex /\ index' = 0
        /\ UNCHANGED <<headers, selected_indexes, overran, held>>
    BY <1>4 DEF Select!ResolveWhere
  <2>2. Select!WhereIndex \in 0..Len(schema)
    BY <1>0, FoundColumn DEF Select!WhereIndex, SelectFacts
  <2>3. ~Select!ById /\ query.has_where => Select!WhereIndex \in 1..Len(schema)
    BY <1>0, <2>1, <2>2
       DEF Select!WhereIndex, Select!WhereKnown, Select!Known, Select!ById, SelectFacts
  <2>4. SelectTypes'
    BY <1>0, <1>1, <2>1, <2>2, SameQuery DEF SelectTypes, SelectFacts
  <2>5. SelectLoops'
    BY <1>0, <1>1, <2>1, <2>3, SameQuery DEF SelectLoops, SelectFacts
  <2>6. SelectSlots'
    BY <1>1, <2>1, SlotsStay
  <2> QED
    BY <1>0, <2>1, <2>4, <2>5, <2>6
       DEF SelectInv, SelectHeld, Select!Answers, Select!RefusedForCause, Select!OnlyRowsAndFieldsAreLost
<1>5. CASE Select!Open
  <2>1. /\ pc = "open" /\ pc' = "scan" /\ held' = held \cup {"file"} /\ index = 0
        /\ UNCHANGED <<headers, selected_indexes, where_index, index, overran>>
    BY <1>0, <1>5 DEF Select!Open, Select!binding, SelectLoops
  <2>2. SelectSlots'
    BY <1>1, <2>1, SlotsStay
  <2>3. SelectHeld'
    BY <1>0, <1>1, <2>1 DEF SelectHeld, Select!Answers, Select!OnlyRowsAndFieldsAreLost
  <2> QED
    BY <1>0, <1>1, <2>1, <2>2, <2>3, SameQuery
       DEF SelectInv, SelectTypes, SelectLoops, SelectFacts, Select!Answers,
           Select!RefusedForCause, Select!OnlyRowsAndFieldsAreLost
<1> QED
  BY <1>2, <1>3, <1>4, <1>5

LEMMA FindKeeps ==
  ASSUME SelectInv, Select!FindNothing \/ Select!FindRow
  PROVE  SelectInv'
<1>0. SelectFacts /\ SelectTypes /\ SelectLoops /\ SelectHeld
  BY SelectConstants DEF SelectInv, SelectTypes
<1>1. /\ UNCHANGED Select!input /\ pc = "find" /\ pc' = "show"
      /\ UNCHANGED <<headers, selected_indexes, where_index, index, id, overran>>
      /\ Select!ById
  BY <1>0 DEF Select!FindNothing, Select!FindRow, Select!binding, SelectLoops
<1>2. rows' \in Seq(Select!Range(rows')) /\ Len(rows') <= 1
  <2>1. CASE Select!FindNothing
    <3>1. rows' = <<>>
      BY <1>0, <2>1 DEF Select!FindNothing, SelectLoops
    <3> QED
      BY <3>1
  <2>2. CASE Select!FindRow
    <3>1. PICK r : rows' = <<r>>
      BY <2>2 DEF Select!FindRow
    <3>2. rows' = Append(rows, r) /\ rows \in Seq(Select!Range(rows)) /\ Len(rows) = 0
      BY <1>0, <1>1, <3>1 DEF SelectTypes, SelectLoops
    <3>3. /\ Append(rows, r) \in Seq(Select!Range(Append(rows, r)))
          /\ Len(Append(rows, r)) = Len(rows) + 1
      BY <3>2, AppendToSequence
    <3> QED
      BY <3>2, <3>3
  <2> QED
    BY <2>1, <2>2
<1>3. held' \subseteq {"schema", "selected_indexes", "headers", "fields", "rows"}
  BY <1>0, <1>1 DEF Select!FindNothing, Select!FindRow, SelectHeld
<1>4. SelectTypes'
  <2>1. Select!ById'
    BY <1>1, SameQuery, Zenon
  <2>2. Len(rows') <= IF Select!ById' THEN 1 ELSE index'
    <3>1. (IF Select!ById' THEN 1 ELSE index') = 1
      BY <2>1, Zenon
    <3> QED
      BY <1>2, <3>1
  <2> QED
    BY <1>0, <1>1, <1>2, <2>2, SameQuery DEF SelectTypes
<1>5. SelectSlots'
  BY <1>1, SlotsStay
<1> QED
  BY <1>0, <1>1, <1>3, <1>4, <1>5
     DEF SelectInv, SelectLoops, SelectHeld, Select!Answers, Select!RefusedForCause, Select!OnlyRowsAndFieldsAreLost

LEMMA ScanKeeps ==
  ASSUME SelectInv,
         Select!SkipBlank \/ Select!PassRow \/ Select!CollectRow \/ Select!ScanDone
  PROVE  SelectInv'
<1>0. SelectFacts /\ SelectTypes /\ SelectLoops /\ SelectHeld
  BY SelectConstants DEF SelectInv, SelectTypes
<1>1. /\ UNCHANGED Select!input /\ pc = "scan"
      /\ UNCHANGED <<headers, selected_indexes, where_index, overran>>
      /\ ~Select!ById
  BY <1>0
     DEF Select!SkipBlank, Select!PassRow, Select!CollectRow, Select!ScanDone, Select!AtLine,
         Select!binding, SelectLoops
<1>2. rows \in Seq(Select!Range(rows)) /\ Len(rows) <= index /\ Len(rows) \in Nat
  BY <1>0, <1>1 DEF SelectTypes
<1>3. CASE Select!SkipBlank \/ Select!PassRow \/ Select!CollectRow
  <2>1. /\ pc' = "scan" /\ index' = index + 1 /\ index' \in 0..Len(table)
        /\ id' \in {id, id + 1}
    BY <1>0, <1>3
       DEF Select!SkipBlank, Select!PassRow, Select!CollectRow, Select!AtLine, SelectTypes,
           SelectLoops, SelectFacts
  <2>2. rows' \in Seq(Select!Range(rows')) /\ Len(rows') \in {Len(rows), Len(rows) + 1}
    <3>1. CASE rows' = rows
      BY <1>2, <3>1
    <3>2. CASE Select!CollectRow
      <4>1. PICK r : rows' = Append(rows, r)
        BY <3>2 DEF Select!CollectRow
      <4> QED
        BY <1>2, <4>1, AppendToSequence
    <3> QED
      BY <1>3, <3>1, <3>2 DEF Select!SkipBlank, Select!PassRow
  <2>3. held' \subseteq {"schema", "selected_indexes", "headers", "file", "rows"}
    BY <1>0, <1>1, <1>3 DEF Select!SkipBlank, Select!PassRow, Select!CollectRow, SelectHeld
  <2>4. id' \in 1..(Len(table) + 1) /\ id' <= index' + 1
    BY <1>0, <1>1, <2>1 DEF SelectTypes, SelectLoops, SelectFacts
  <2>5. SelectTypes'
    BY <1>0, <1>1, <1>2, <2>1, <2>2, <2>4, SameQuery DEF SelectTypes, SelectFacts
  <2>6. SelectLoops'
    BY <1>0, <1>1, <2>1, <2>4, SameQuery DEF SelectLoops
  <2>7. SelectSlots'
    BY <1>1, SlotsStay
  <2>8. "rows" \in held' => rows' # <<>>
    <3>1. CASE Select!CollectRow
      <4>1. PICK r : rows' = Append(rows, r)
        BY <3>1 DEF Select!CollectRow
      <4>2. Len(Append(rows, r)) = Len(rows) + 1
        BY <1>2, <4>1, AppendToSequence
      <4> QED
        BY <1>2, <4>1, <4>2
    <3>2. CASE Select!SkipBlank \/ Select!PassRow
      BY <1>0, <1>1, <3>2 DEF Select!SkipBlank, Select!PassRow, SelectHeld
    <3> QED
      BY <1>3, <3>1, <3>2
  <2> QED
    BY <1>0, <2>1, <2>3, <2>5, <2>6, <2>7, <2>8
       DEF SelectInv, SelectHeld, Select!Answers, Select!RefusedForCause, Select!OnlyRowsAndFieldsAreLost
<1>4. CASE Select!ScanDone
  <2>1. /\ pc' = "show" /\ held' = held \ {"file"} /\ UNCHANGED <<index, id, rows>>
    BY <1>4 DEF Select!ScanDone
  <2>2. SelectTypes'
    BY <1>0, <1>1, <2>1, SameQuery DEF SelectTypes
  <2>3. SelectSlots'
    BY <1>1, SlotsStay
  <2> QED
    BY <1>0, <1>1, <2>1, <2>2, <2>3
       DEF SelectInv, SelectLoops, SelectHeld, Select!Answers, Select!RefusedForCause, Select!OnlyRowsAndFieldsAreLost
<1> QED
  BY <1>3, <1>4

\* The ways out.  A misfit keeps the rows, a failure some rows or fields.
LEMMA SelectEnds ==
  ASSUME SelectInv,
         \/ Select!BindRefuses \/ Select!ResolveRefuses \/ Select!NotInteger
         \/ Select!FindMisfit \/ Select!FindFails \/ Select!FindRowFails
         \/ Select!ScanRefuses \/ Select!ParseFails \/ Select!Show \/ Select!CollectFails \/ Select!Fails \/ Select!Abort
  PROVE  SelectInv'
<1>0. SelectFacts /\ SelectTypes /\ SelectLoops /\ SelectHeld
  BY SelectConstants DEF SelectInv, SelectTypes
<1>1. CASE Select!BindRefuses
  <2>1. Select!Column \in Select!Range(Select!Columns)
    <3>1. index + 1 \in 1..Len(Select!Columns)
      BY <1>0, <1>1 DEF Select!BindRefuses, Select!MoreColumns, SelectTypes, SelectFacts
    <3> QED
      BY <1>0, <3>1 DEF Select!Column, SelectFacts
  <2>2. \E name \in Select!Range(Select!Columns) : ~Select!Known(name)
    BY <1>1, <2>1 DEF Select!BindRefuses
  <2> QED
    BY <1>1, <2>2, SelectAnswers DEF LostWith, Select!BindRefuses, Select!Answer, Select!Answers
<1>2. CASE Select!ResolveRefuses
  <2>1. query.has_where /\ ~Select!Known(query.where_column)
    BY <1>2 DEF Select!ResolveRefuses, Select!WhereKnown
  <2> QED
    BY <1>2, <2>1, SelectAnswers DEF LostWith, Select!ResolveRefuses, Select!Answer, Select!Answers
<1>3. CASE Select!NotInteger
  <2>1. Select!ById /\ Select!WhereId = NoInt
    BY <1>0, <1>3 DEF Select!NotInteger, SelectLoops
  <2> QED
    BY <1>3, <2>1, SelectAnswers DEF LostWith, Select!NotInteger, Select!Answer, Select!Answers
<1>4. CASE Select!FindMisfit
  <2>1. Select!AnswerKeeping("badRow", {}) /\ Select!ById /\ ~Select!RowsFit
    BY <1>0, <1>4 DEF Select!FindMisfit, Select!Answer, Select!RowsFit, SelectLoops
  <2> QED
    BY <2>1, SelectAnswers DEF LostWith, Select!Answers
<1>5. CASE Select!ScanRefuses
  <2>1. /\ Select!AnswerKeeping("badRow", held \cap {"rows"}) /\ pc = "scan" /\ ~Select!ById
        /\ index + 1 \in 1..Len(table) /\ Select!Line = table[index + 1]
        /\ Select!Line # BlankLine /\ (Select!Line # Malformed => ~Select!Fits(Select!Line))
    BY <1>0, <1>5
       DEF Select!ScanRefuses, Select!AtLine, Select!Line, SelectTypes, SelectLoops, SelectFacts
  <2>2. ~Select!RowsFit
    BY <2>1 DEF Select!RowsFit, Select!IsRow
  <2>3. "rows" \in held => rows # <<>>
    BY <1>0, <2>1 DEF SelectHeld
  <2>4. LostWith("badRow", held \cap {"rows"})
    BY <2>1, <2>3 DEF LostWith
  <2> QED
    BY <2>1, <2>2, <2>4, SelectAnswers DEF Select!Answers
<1>6. CASE Select!FindFails
  <2>1. PICK lost \in SUBSET IF Select!DataRows = <<>> THEN {} ELSE {"fields"} :
          pc = "find" /\ Select!AnswerKeeping("failed", lost)
    BY <1>6 DEF Select!FindFails
  <2>2. Select!ById
    BY <1>0, <2>1 DEF SelectLoops
  <2>3. LostWith("failed", lost)
    BY <2>1, <2>2 DEF LostWith
  <2> QED
    BY <2>1, <2>3, SelectAnswers DEF Select!Answers
<1>7. CASE Select!FindRowFails
  <2>1. PICK kept \in {{}, {"rows"}} :
          pc = "find" /\ Select!Found /\ Select!AnswerKeeping("failed", kept)
    BY <1>7 DEF Select!FindRowFails
  <2>2. Select!ById
    BY <1>0, <2>1 DEF SelectLoops
  <2>3. LostWith("failed", kept)
    BY <2>1, <2>2 DEF LostWith
  <2> QED
    BY <2>1, <2>3, SelectAnswers DEF Select!Answers
<1>8. CASE Select!ParseFails
  <2>1. Select!AnswerKeeping("failed", held \cap {"rows"}) /\ pc = "scan" /\ ~Select!ById
    BY <1>0, <1>8 DEF Select!ParseFails, Select!AtLine, SelectLoops
  <2>2. "rows" \in held => rows # <<>>
    BY <1>0, <2>1 DEF SelectHeld
  <2>3. LostWith("failed", held \cap {"rows"})
    BY <2>1, <2>2 DEF LostWith
  <2> QED
    BY <2>1, <2>3, SelectAnswers DEF Select!Answers
<1>9. CASE Select!Show \/ Select!CollectFails \/ Select!Fails \/ Select!Abort
  <2>1. PICK answer \in {"failed", "ok", "aborted"} : Select!AnswerKeeping(answer, {})
    BY <1>9 DEF Select!Show, Select!CollectFails, Select!Fails, Select!Abort, Select!Answer
  <2>2. LostWith(answer, {}) /\ answer \in Select!Answers
    BY DEF LostWith, Select!Answers
  <2> QED
    BY <2>1, <2>2, SelectAnswers
<1> QED
  BY <1>1, <1>2, <1>3, <1>4, <1>5, <1>6, <1>7, <1>8, <1>9

LEMMA SelectStep == SelectInv /\ Select!Next => SelectInv'
BY BindKeeps, FindKeeps, ScanKeeps, SelectEnds DEF Select!Next, Select!Step

\* What the invariant says of execute_select.
LEMMA SelectSafe ==
  SelectInv => /\ Select!TypeOK /\ Select!OnlyRowsAndFieldsAreLost /\ Select!RefusedForCause
<1> SUFFICES ASSUME SelectInv
             PROVE  /\ Select!TypeOK /\ Select!OnlyRowsAndFieldsAreLost
                    /\ Select!RefusedForCause
  OBVIOUS
<1>0. SelectTypes /\ SelectLoops /\ SelectHeld
  BY DEF SelectInv
<1>1. held \subseteq {"schema", "selected_indexes", "headers", "rows", "fields", "file"}
  BY <1>0 DEF SelectTypes, SelectHeld, Select!OnlyRowsAndFieldsAreLost
<1>2. Select!TypeOK
  BY <1>0, <1>1 DEF SelectTypes, Select!TypeOK
<1> QED
  BY <1>0, <1>2 DEF SelectInv, SelectHeld

-----------------------------------------------------------------------------
(* The answer of execute_select.                                           *)

\* What DataRows puts together.
LineParts ==
  [i \in 1..Len(table) |-> IF table[i] = BlankLine THEN <<>> ELSE <<table[i]>>]

LEMMA DataRowsAre ==
  ASSUME SelectFacts
  PROVE  /\ LineParts \in Seq(Seq(Select!Range(table))) /\ Len(LineParts) = Len(table)
         /\ \A i \in 1..Len(table) :
              LineParts[i] = IF table[i] = BlankLine THEN <<>> ELSE <<table[i]>>
         /\ Select!DataRows = FlattenSeq(LineParts)
         /\ Select!DataRows \in Seq(Select!Range(table))
         /\ Len(Select!DataRows) \in Nat
<1>1. PICK X : X = Select!Range(table)
  OBVIOUS
<1>2. table \in Seq(X) /\ Len(table) \in Nat
  BY <1>1 DEF SelectFacts
<1> DEFINE e(i) == IF table[i] = BlankLine THEN <<>> ELSE <<table[i]>>
<1>3. ASSUME NEW i \in 1..Len(table) PROVE e(i) \in Seq(X)
  <2>1. table[i] \in X
    BY <1>2
  <2>2. <<>> \in Seq(X) /\ <<table[i]>> \in Seq(X)
    BY <2>1
  <2> QED
    BY <2>2
<1>4. LineParts = [i \in 1..Len(table) |-> e(i)]
  BY DEF LineParts
<1> HIDE DEF e
<1>5. LineParts \in Seq(Seq(X)) /\ Len(LineParts) = Len(table)
  BY <1>2, <1>3, <1>4
<1> DEFINE UpTo(u) == u = [n \in 0..Len(table) |->
                             IF n = 0 THEN <<>> ELSE u[n - 1] \o e(n)]
<1>6. \A u : UpTo(u) <=> u = [n \in 0..Len(LineParts) |->
                             IF n = 0 THEN <<>> ELSE u[n - 1] \o LineParts[n]]
  <2>1. \A n \in 0..Len(table) : n # 0 => n \in 1..Len(table)
    BY <1>2
  <2>2. \A n \in 1..Len(table) : LineParts[n] = e(n)
    BY <1>4
  <2> QED
    BY <1>5, <2>1, <2>2
<1>7. \E u : UpTo(u)
  <2>1. \E u : u = [n \in 0..Len(LineParts) |->
                    IF n = 0 THEN <<>> ELSE u[n - 1] \o LineParts[n]]
    BY <1>5, PartsExist
  <2> QED
    BY <1>6, <2>1
<1>8. Select!DataRows = (CHOOSE u : UpTo(u))[Len(table)]
  BY DEF Select!DataRows, e
<1>9. PICK u : u = CHOOSE w : UpTo(w)
  OBVIOUS
<1>10. UpTo(u)
  <2>1. UpTo(CHOOSE w : UpTo(w))
    BY <1>7, Zenon
  <2> QED
    BY <1>9, <2>1
<1>11. Select!DataRows = FlattenSeq(LineParts)
  <2>1. u[Len(LineParts)] = FlattenSeq(LineParts)
    BY <1>5, <1>6, <1>10, FlattenByParts
  <2> QED
    BY <1>5, <1>8, <1>9, <2>1
<1>12. FlattenSeq(LineParts) \in Seq(X)
  BY <1>5, FlattenSeqType
<1>13. Len(FlattenSeq(LineParts)) \in Nat
  BY <1>12
<1> QED
  BY <1>1, <1>4, <1>5, <1>11, <1>12, <1>13 DEF e

\* p says how many data rows the first lines are.
Ranks(p) == Layout(p, LineParts, Select!DataRows)

LEMMA RanksExist == ASSUME SelectFacts PROVE \E p : Ranks(p)
BY DataRowsAre, FlattenLayout DEF Ranks

\* The next line is blank or has the next rank.
LEMMA RankOfLine ==
  ASSUME SelectFacts, NEW p, Ranks(p), NEW i \in Nat, i < Len(table)
  PROVE  /\ p[0] = 0 /\ p[i] \in Nat /\ p[Len(table)] = Len(Select!DataRows)
         /\ table[i + 1] = BlankLine => p[i + 1] = p[i]
         /\ table[i + 1] # BlankLine =>
              /\ p[i + 1] = p[i] + 1
              /\ p[i] + 1 \in 1..Len(Select!DataRows)
              /\ Select!DataRows[p[i] + 1] = table[i + 1]
<1>1. PICK s, t, j : s = LineParts /\ t = Select!DataRows /\ j = i + 1
  OBVIOUS
<1>2. Len(table) \in Nat /\ Len(t) \in Nat
  BY <1>1, DataRowsAre DEF SelectFacts
<1>3. j \in 1..Len(table) /\ j - 1 = i /\ i \in 0..Len(table)
  BY <1>1, <1>2
<1>4. /\ p \in [0..Len(table) -> Nat] /\ p[0] = 0 /\ p[Len(table)] = Len(t)
      /\ p[j] = p[j - 1] + Len(s[j]) /\ p[j] <= Len(t)
      /\ \A k \in 1..Len(s[j]) : t[p[j - 1] + k] = s[j][k]
  BY <1>1, <1>3, DataRowsAre DEF Ranks, Layout
<1>5. PICK x : x = p[i]
  OBVIOUS
<1>6. x \in Nat /\ p[j] = x + Len(s[j]) /\ \A k \in 1..Len(s[j]) : t[x + k] = s[j][k]
  BY <1>3, <1>4, <1>5
<1>7. CASE table[j] = BlankLine
  <2>1. s[j] = <<>>
    BY <1>1, <1>3, <1>7, DataRowsAre
  <2>2. Len(s[j]) = 0
    BY <2>1
  <2> QED
    BY <1>1, <1>4, <1>5, <1>6, <1>7, <2>2
<1>8. CASE table[j] # BlankLine
  <2>1. s[j] = <<table[j]>>
    BY <1>1, <1>3, <1>8, DataRowsAre
  <2>2. Len(s[j]) = 1 /\ s[j][1] = table[j]
    BY <2>1
  <2>3. p[j] = x + 1 /\ t[x + 1] = table[j]
    BY <1>6, <2>2
  <2>4. x + 1 \in 1..Len(t)
    BY <1>2, <1>4, <1>6, <2>3
  <2> QED
    BY <1>1, <1>4, <1>5, <1>6, <1>8, <2>3, <2>4
<1> QED
  BY <1>7, <1>8

\* The answers the rows of a table would give.
AnswerRows ==
  [rank \in 1..Len(Select!DataRows) |->
     [k \in 1..Len(Select!Columns) |->
        IF query.select_all THEN Select!DataRows[rank][k]
        ELSE Select!ValueOf(Select!Columns[k], rank)]]

\* The rows shown are the answers of the ranks in wanted that are below limit.
Shows(ranks, shown, limit, wanted, answers) ==
  /\ ranks \in [1..Len(shown) -> wanted]
  /\ \A i, j \in 1..Len(shown) : i < j => ranks[i] < ranks[j]
  /\ \A i \in 1..Len(shown) : ranks[i] < limit /\ shown[i] = answers[ranks[i]]
  /\ \A rank \in wanted : rank < limit => \E i \in 1..Len(shown) : ranks[i] = rank

LEMMA ShowsNothing ==
  ASSUME NEW limit \in Nat, NEW wanted, NEW answers, \A rank \in wanted : ~(rank < limit)
  PROVE  \E ranks : Shows(ranks, <<>>, limit, wanted, answers)
<1> DEFINE ranks == [i \in 1..0 |-> 0]
<1>1. Len(<<>>) = 0
  OBVIOUS
<1>2. Shows(ranks, <<>>, limit, wanted, answers)
  BY <1>1 DEF Shows
<1> QED
  BY <1>2

LEMMA ShowsLess ==
  ASSUME NEW ranks, NEW shown, NEW limit \in Nat, NEW wanted, wanted \subseteq Nat, NEW answers,
         limit \notin wanted, Shows(ranks, shown, limit, wanted, answers)
  PROVE  Shows(ranks, shown, limit + 1, wanted, answers)
<1>1. \A rank \in wanted : rank \in Nat /\ (rank < limit + 1 => rank < limit)
  OBVIOUS
<1>2. \A i \in 1..Len(shown) : ranks[i] \in wanted /\ ranks[i] < limit
  BY DEF Shows
<1>3. ASSUME NEW i \in 1..Len(shown) PROVE ranks[i] < limit + 1
  <2>1. ranks[i] \in Nat /\ ranks[i] < limit
    BY <1>1, <1>2
  <2> QED
    BY <2>1
<1> QED
  BY <1>1, <1>3 DEF Shows

LEMMA ShowsMore ==
  ASSUME NEW X, NEW shown \in Seq(X), NEW r \in X, NEW ranks, NEW limit \in Nat, NEW wanted,
         wanted \subseteq Nat, NEW answers, limit \in wanted, r = answers[limit],
         Shows(ranks, shown, limit, wanted, answers)
  PROVE  \E f : Shows(f, Append(shown, r), limit + 1, wanted, answers)
<1>1. PICK n, m, t : n = Len(shown) /\ m = n + 1 /\ t = Append(shown, r)
  OBVIOUS
<1>2. n \in Nat /\ m \in Nat /\ m \in 1..m
  BY <1>1
<1>3. Len(t) = m /\ t[m] = r /\ \A i \in 1..n : t[i] = shown[i]
  BY <1>1, AppendProperties
<1>4. /\ ranks \in [1..n -> wanted]
      /\ \A i, j \in 1..n : i < j => ranks[i] < ranks[j]
      /\ \A i \in 1..n : ranks[i] < limit /\ shown[i] = answers[ranks[i]]
      /\ \A rank \in wanted : rank < limit => \E i \in 1..n : ranks[i] = rank
  BY <1>1 DEF Shows
<1>5. PICK f : f = [i \in 1..m |-> IF i = m THEN limit ELSE ranks[i]]
  OBVIOUS
<1>6. \A i \in 1..m : i = m \/ i \in 1..n
  BY <1>1, <1>2
<1>7. f[m] = limit /\ \A i \in 1..n : i \in 1..m /\ i # m /\ f[i] = ranks[i]
  BY <1>1, <1>2, <1>5
<1>8. f \in [1..m -> wanted]
  BY <1>4, <1>5, <1>6
<1>9. \A i \in 1..n : ranks[i] \in Nat
  BY <1>4
<1>10. ASSUME NEW i \in 1..m, NEW j \in 1..m, i < j PROVE f[i] < f[j]
  <2>1. i \in 1..n /\ (j = m \/ j \in 1..n)
    BY <1>1, <1>2, <1>6, <1>10
  <2> QED
    BY <1>4, <1>7, <1>10, <2>1
<1>11. ASSUME NEW i \in 1..m PROVE f[i] < limit + 1 /\ t[i] = answers[f[i]]
  <2>1. CASE i = m
    BY <1>3, <1>7, <2>1
  <2>2. CASE i \in 1..n
    <3>1. f[i] = ranks[i] /\ ranks[i] \in Nat /\ ranks[i] < limit
      BY <1>4, <1>7, <1>9, <2>2
    <3>2. t[i] = answers[f[i]]
      BY <1>3, <1>4, <2>2, <3>1
    <3> QED
      BY <3>1, <3>2
  <2> QED
    BY <1>6, <2>1, <2>2
<1>12. ASSUME NEW rank \in wanted, rank < limit + 1 PROVE \E i \in 1..m : f[i] = rank
  <2>1. rank = limit \/ rank < limit
    BY <1>12
  <2>2. CASE rank < limit
    <3>1. PICK i \in 1..n : ranks[i] = rank
      BY <1>4, <2>2
    <3> QED
      BY <1>7, <3>1
  <2> QED
    BY <1>2, <1>7, <2>1, <2>2
<1>13. Shows(f, t, limit + 1, wanted, answers)
  BY <1>3, <1>8, <1>10, <1>11, <1>12 DEF Shows
<1> QED
  BY <1>1, <1>13

\* The columns bound so far have their names and their places.
SelectBound ==
  /\ Len(selected_indexes) = Len(headers)
  /\ \A k \in 1..Len(headers) :
       /\ headers[k] = Select!Columns[k]
       /\ selected_indexes[k] =
            IF query.select_all THEN k ELSE Select!PlaceOf(Select!Columns[k])
       /\ ~query.select_all => Select!Known(Select!Columns[k])

\* What has been collected before limit is what is wanted before limit.
ShownBelow(limit) == \E ranks : Shows(ranks, rows, limit, Select!Wanted, AnswerRows)

LineFits(i) ==
  table[i] = BlankLine \/ (Select!IsRow(table[i]) /\ Select!Fits(table[i]))

\* Why the answer is the query: the numbers the scan counts are the ranks of the rows.
SelectAnswer ==
  /\ pc \in {"indexes", "bind", "find", "open", "scan", "show", "ok"} => SelectBound
  /\ pc \in {"find", "open", "scan", "show", "ok"} => Len(headers) = Len(Select!Columns)
  /\ pc \in {"open", "scan"} => where_index = Select!WhereIndex
  /\ pc = "scan" => \E p : Ranks(p) /\ id = p[index] + 1 /\ ShownBelow(id)
  /\ pc = "scan" => \A i \in 1..index : LineFits(i)
  /\ pc \in {"show", "ok"} => Select!RowsFit /\ ShownBelow(Len(Select!DataRows) + 1)

LEMMA WantedRanks ==
  ASSUME SelectFacts
  PROVE  /\ Select!Wanted \subseteq 1..Len(Select!DataRows) /\ Select!Wanted \subseteq Nat
         /\ \A rank \in Select!Wanted : rank >= 1 /\ rank < Len(Select!DataRows) + 1
<1>1. Len(Select!DataRows) \in Nat
  BY DataRowsAre
<1>2. Select!Wanted \subseteq 1..Len(Select!DataRows)
  BY DEF Select!Wanted
<1> QED
  BY <1>1, <1>2

LEMMA SelectAnswerInit == Select!Init => SelectAnswer
<1> SUFFICES ASSUME Select!Init PROVE SelectAnswer
  OBVIOUS
<1>1. pc = "indexes" /\ headers = <<>> /\ selected_indexes = <<>>
  BY DEF Select!Init
<1>2. SelectBound
  BY <1>1 DEF SelectBound
<1> QED
  BY <1>1, <1>2 DEF SelectAnswer

\* What depends on the query, the schema and the table alone.
LEMMA SameAnswers ==
  ASSUME UNCHANGED Select!input
  PROVE  /\ Select!Columns' = Select!Columns /\ Select!Wanted' = Select!Wanted
         /\ AnswerRows' = AnswerRows /\ Select!DataRows' = Select!DataRows
         /\ LineParts' = LineParts /\ Select!WhereIndex' = Select!WhereIndex
         /\ \A name : Select!PlaceOf(name)' = Select!PlaceOf(name)
         /\ \A name : Select!Known(name)' <=> Select!Known(name)
         /\ \A p : Ranks(p)' <=> Ranks(p)
         /\ (Select!RowsFit' <=> Select!RowsFit) /\ \A i : LineFits(i)' <=> LineFits(i)
<1>1. UNCHANGED <<query, schema, table>>
  BY DEF Select!input
<1>2. Select!Columns' = Select!Columns
  BY <1>1 DEF Select!Columns
<1>3. Select!DataRows' = Select!DataRows
  BY <1>1 DEF Select!DataRows
<1>4. Select!Wanted' = Select!Wanted
  BY <1>1, <1>3 DEF Select!Wanted, Select!ValueOf, Select!FindColumn, Select!WhereId
<1>5. AnswerRows' = AnswerRows
  BY <1>1, <1>2, <1>3 DEF AnswerRows, Select!ValueOf, Select!FindColumn
<1>6. LineParts' = LineParts
  BY <1>1 DEF LineParts
<1>7. Select!WhereIndex' = Select!WhereIndex /\ \A name : Select!PlaceOf(name)' = Select!PlaceOf(name)
  BY <1>1 DEF Select!WhereIndex, Select!PlaceOf, Select!FindColumn
<1>8. \A name : Select!Known(name)' <=> Select!Known(name)
  BY SameQuery
<1>9. \A p : Ranks(p)' <=> Ranks(p)
  BY <1>3, <1>6 DEF Ranks
<1>10. (Select!RowsFit' <=> Select!RowsFit) /\ \A i : LineFits(i)' <=> LineFits(i)
  BY <1>1, SameQuery DEF LineFits, Select!Fits, Select!IsRow
<1> QED
  BY <1>2, <1>3, <1>4, <1>5, <1>6, <1>7, <1>8, <1>9, <1>10

LEMMA SameBound ==
  ASSUME SelectBound, UNCHANGED Select!input, UNCHANGED <<headers, selected_indexes>>
  PROVE  SelectBound'
<1>1. /\ \A k \in 1..Len(headers') : headers'[k] = Select!Columns'[k]
      /\ \A k \in 1..Len(headers') :
           ~query'.select_all => Select!Known(Select!Columns[k])'
  BY SameAnswers DEF SelectBound, Select!input, Select!Known, Select!FindColumn, Select!Columns
<1>2. \A k \in 1..Len(headers') :
        selected_indexes'[k] =
          IF query'.select_all THEN k ELSE Select!PlaceOf(Select!Columns[k])'
  BY SameAnswers DEF SelectBound, Select!input, Select!PlaceOf, Select!FindColumn, Select!Columns
<1> QED
  BY <1>1, <1>2 DEF SelectBound

\* A row in the columns that were asked for.
LEMMA ProjectionAnswers ==
  ASSUME SelectFacts, SelectBound, Len(headers) = Len(Select!Columns),
         NEW rank \in 1..Len(Select!DataRows)
  PROVE  Select!Projected(Select!DataRows[rank], rank) = AnswerRows[rank]
<1>1. PICK n, line : n = Len(Select!Columns) /\ line = Select!DataRows[rank]
  OBVIOUS
<1>2. /\ n \in Nat /\ Len(selected_indexes) = n
      /\ \A k \in 1..n : /\ selected_indexes[k] = IF query.select_all THEN k ELSE Select!PlaceOf(Select!Columns[k])
                         /\ ~query.select_all => Select!Known(Select!Columns[k])
  BY <1>1 DEF SelectBound, SelectFacts
<1>3. ASSUME NEW k \in 1..n
      PROVE  (IF selected_indexes[k] = 0 THEN rank ELSE line[selected_indexes[k]]) =
             IF query.select_all THEN line[k] ELSE Select!ValueOf(Select!Columns[k], rank)
  <2>1. CASE query.select_all
    <3>1. selected_indexes[k] = k /\ k # 0
      BY <1>2, <2>1
    <3> QED
      BY <2>1, <3>1
  <2>2. CASE ~query.select_all
    <3>1. PICK name : name = Select!Columns[k]
      OBVIOUS
    <3>2. Select!Known(name) /\ selected_indexes[k] = Select!PlaceOf(name)
      BY <1>2, <2>2, <3>1
    <3>3. CASE name = IdColumn
      BY <2>2, <3>1, <3>2, <3>3 DEF Select!PlaceOf, Select!ValueOf
    <3>4. CASE name # IdColumn
      <4>1. selected_indexes[k] = Select!FindColumn(name) /\ Select!FindColumn(name) > 0
        BY <3>2, <3>4 DEF Select!PlaceOf, Select!Known
      <4>2. selected_indexes[k] # 0
        BY <4>1, FoundColumn DEF SelectFacts
      <4> QED
        BY <1>1, <2>2, <3>1, <3>4, <4>1, <4>2 DEF Select!ValueOf
    <3> QED
      BY <3>3, <3>4
  <2> QED
    BY <2>1, <2>2
<1>4. Select!Projected(line, rank) =
        [k \in 1..n |-> IF selected_indexes[k] = 0 THEN rank ELSE line[selected_indexes[k]]]
  BY <1>2 DEF Select!Projected
<1>5. AnswerRows[rank] =
        [k \in 1..n |-> IF query.select_all THEN line[k] ELSE Select!ValueOf(Select!Columns[k], rank)]
  BY <1>1 DEF AnswerRows
<1> QED
  BY <1>1, <1>3, <1>4, <1>5

LEMMA SameShown ==
  ASSUME NEW limit, ShownBelow(limit), UNCHANGED Select!input, rows' = rows
  PROVE  ShownBelow(limit)'
<1>1. Select!Wanted' = Select!Wanted /\ AnswerRows' = AnswerRows
  BY SameAnswers
<1>2. PICK ranks : Shows(ranks, rows, limit, Select!Wanted, AnswerRows)
  BY DEF ShownBelow
<1>3. Shows(ranks, rows', limit, Select!Wanted', AnswerRows')
  BY <1>1, <1>2
<1> QED
  BY <1>3 DEF ShownBelow

\* A sequence lengthened by a value of any kind: where the value stands, and that the others stay.
LEMMA AppendAt ==
  ASSUME NEW Y, NEW s \in Seq(Y), NEW x, NEW n, n = Len(s), NEW m, m = n + 1
  PROVE  /\ Len(Append(s, x)) = m /\ Append(s, x)[m] = x
         /\ \A k \in 1..n : Append(s, x)[k] = s[k]
<1>1. PICK X : X = Y \cup {x}
  OBVIOUS
<1>2. s \in Seq(X) /\ x \in X
  <2>1. s \in [1..n -> Y] /\ n \in Nat
    OBVIOUS
  <2>2. s \in [1..n -> X]
    BY <1>1, <2>1
  <2> QED
    BY <1>1, <2>1, <2>2
<1> QED
  BY <1>2, AppendProperties

LEMMA BindAnswers ==
  ASSUME SelectInv, SelectAnswer, Select!Allocate \/ Select!Bind \/ Select!ResolveWhere \/ Select!Open
  PROVE  SelectAnswer'
<1>0. SelectFacts /\ SelectTypes /\ SelectLoops
  BY SelectConstants DEF SelectInv, SelectTypes
<1>1. UNCHANGED Select!input /\ SelectBound
  BY DEF Select!Allocate, Select!Bind, Select!ResolveWhere, Select!Open, SelectAnswer
<1>2. CASE Select!Allocate
  <2>1. pc' = "bind" /\ UNCHANGED <<headers, selected_indexes>>
    BY <1>2 DEF Select!Allocate, Select!binding
  <2>2. SelectBound'
    BY <1>1, <2>1, SameBound
  <2> QED
    BY <2>1, <2>2 DEF SelectAnswer
<1>3. CASE Select!Bind
  <2>1. PICK n, m, c, x : /\ n = Len(headers) /\ m = n + 1 /\ c = Select!Columns[m]
                          /\ x = IF query.select_all THEN m ELSE Select!PlaceOf(c)
    OBVIOUS
  <2>2. /\ pc = "bind" /\ pc' = "bind" /\ Select!MoreColumns /\ Select!Known(Select!Column)
        /\ headers' = Append(headers, Select!Column)
        /\ selected_indexes' =
             Append(selected_indexes,
                    IF query.select_all THEN index + 1 ELSE Select!PlaceOf(Select!Column))
    BY <1>3 DEF Select!Bind
  <2>3. n = index /\ n \in Nat /\ Select!Column = c /\ Len(selected_indexes) = n
    <3>1. n = index /\ Len(selected_indexes) = n
      BY <1>0, <2>1, <2>2 DEF SelectLoops
    <3>2. n \in Nat
      BY <1>0, <3>1 DEF SelectTypes
    <3> QED
      BY <2>1, <3>1, <3>2 DEF Select!Column
  <2>4. Select!Known(c) /\ headers' = Append(headers, c) /\ selected_indexes' = Append(selected_indexes, x)
    BY <2>1, <2>2, <2>3
  <2>5. /\ Len(headers') = m /\ headers'[m] = c /\ \A k \in 1..n : headers'[k] = headers[k]
    <3>1. PICK Y, h : Y = Select!Range(headers) /\ h = headers
      OBVIOUS
    <3>2. h \in Seq(Y) /\ n = Len(h) /\ headers' = Append(h, c)
      BY <1>0, <2>1, <2>4, <3>1 DEF SelectTypes
    <3>3. /\ Len(Append(h, c)) = m /\ Append(h, c)[m] = c
          /\ \A k \in 1..n : Append(h, c)[k] = h[k]
      BY <2>1, <3>2, AppendAt
    <3> QED
      BY <3>1, <3>2, <3>3
  <2>6. /\ Len(selected_indexes') = m /\ selected_indexes'[m] = x
        /\ \A k \in 1..n : selected_indexes'[k] = selected_indexes[k]
    <3>1. PICK Y, h : Y = 0..Len(schema) /\ h = selected_indexes
      OBVIOUS
    <3>2. h \in Seq(Y) /\ n = Len(h) /\ selected_indexes' = Append(h, x)
      BY <1>0, <2>3, <2>4, <3>1 DEF SelectTypes
    <3>3. /\ Len(Append(h, x)) = m /\ Append(h, x)[m] = x
          /\ \A k \in 1..n : Append(h, x)[k] = h[k]
      BY <2>1, <3>2, AppendAt
    <3> QED
      BY <3>1, <3>2, <3>3
  <2>7. ASSUME NEW k \in 1..m
        PROVE  /\ headers'[k] = Select!Columns[k]
               /\ selected_indexes'[k] =
                    IF query.select_all THEN k ELSE Select!PlaceOf(Select!Columns[k])
               /\ ~query.select_all => Select!Known(Select!Columns[k])
    <3>1. CASE k = m
      BY <2>1, <2>4, <2>5, <2>6, <3>1
    <3>2. CASE k # m
      <4>1. k \in 1..n
        BY <2>1, <2>3, <3>2
      <4> QED
        BY <1>1, <2>1, <2>5, <2>6, <4>1 DEF SelectBound
    <3> QED
      BY <3>1, <3>2
  <2>8. SelectBound'
    <3>1. query' = query /\ schema' = schema
      BY <1>1 DEF Select!input
    <3>2. ASSUME NEW k \in 1..m
          PROVE  /\ headers'[k] = Select!Columns'[k]
                 /\ selected_indexes'[k] =
                      IF query'.select_all THEN k ELSE Select!PlaceOf(Select!Columns[k])'
                 /\ ~query'.select_all => Select!Known(Select!Columns[k])'
      <4>1. headers'[k] = Select!Columns'[k]
        BY <2>7, <3>1 DEF Select!Columns
      <4>2. selected_indexes'[k] =
              IF query'.select_all THEN k ELSE Select!PlaceOf(Select!Columns[k])'
        BY <2>7, <3>1 DEF Select!Columns, Select!PlaceOf, Select!FindColumn
      <4>3. ~query'.select_all => Select!Known(Select!Columns[k])'
        BY <2>7, <3>1 DEF Select!Columns, Select!Known, Select!FindColumn
      <4> QED
        BY <4>1, <4>2, <4>3
    <3> QED
      BY <2>5, <2>6, <3>2 DEF SelectBound
  <2> QED
    BY <2>2, <2>8 DEF SelectAnswer
<1>4. CASE Select!ResolveWhere
  <2>1. /\ pc = "bind" /\ pc' \in {"find", "open"} /\ ~Select!MoreColumns
        /\ where_index' = Select!WhereIndex /\ UNCHANGED <<headers, selected_indexes>>
    BY <1>4 DEF Select!ResolveWhere
  <2>2. Len(headers) = Len(Select!Columns)
    BY <1>0, <2>1 DEF Select!MoreColumns, SelectLoops, SelectTypes, SelectFacts
  <2>3. SelectBound' /\ Len(headers') = Len(Select!Columns') /\ where_index' = Select!WhereIndex'
    BY <1>1, <2>1, <2>2, SameBound, SameAnswers
  <2> QED
    BY <2>1, <2>3 DEF SelectAnswer
<1>5. CASE Select!Open
  <2>1. /\ pc = "open" /\ pc' = "scan" /\ rows = <<>> /\ id = 1 /\ index = 0
        /\ UNCHANGED <<headers, selected_indexes, where_index, rows, id, index>>
    BY <1>0, <1>5 DEF Select!Open, Select!binding, SelectLoops
  <2>2. SelectBound' /\ Len(headers') = Len(Select!Columns') /\ where_index' = Select!WhereIndex'
    BY <1>1, <2>1, SameBound, SameAnswers DEF SelectAnswer
  <2>3. PICK p : Ranks(p)
    BY <1>0, RanksExist
  <2>4. p[0] = 0
    BY <1>0, <2>3, DataRowsAre DEF Ranks, Layout
  <2>5. ShownBelow(1)
    <3>1. \A rank \in Select!Wanted : ~(rank < 1)
      BY <1>0, WantedRanks
    <3> QED
      BY <2>1, <3>1, ShowsNothing DEF ShownBelow
  <2>6. Ranks(p)' /\ ShownBelow(1)' /\ id' = 1 /\ index' = 0
    BY <1>1, <2>1, <2>3, <2>5, SameAnswers, SameShown
  <2>7. (\E q : Ranks(q) /\ id = q[index] + 1 /\ ShownBelow(id))'
    BY <2>4, <2>6
  <2>8. (\A i \in 1..index : LineFits(i))'
    BY <2>6
  <2> QED
    BY <2>1, <2>2, <2>7, <2>8 DEF SelectAnswer
<1> QED
  BY <1>2, <1>3, <1>4, <1>5

LEMMA FindAnswers ==
  ASSUME SelectInv, SelectAnswer, Select!FindNothing \/ Select!FindRow
  PROVE  SelectAnswer'
<1>0. SelectFacts /\ SelectTypes /\ SelectLoops
  BY SelectConstants DEF SelectInv, SelectTypes
<1>1. /\ UNCHANGED Select!input /\ pc = "find" /\ pc' = "show"
      /\ UNCHANGED <<headers, selected_indexes, where_index>>
      /\ Select!ById /\ rows = <<>>
  BY <1>0 DEF Select!FindNothing, Select!FindRow, Select!binding, SelectLoops
<1>2. SelectBound /\ Len(headers) = Len(Select!Columns)
  BY <1>1 DEF SelectAnswer
<1>3. SelectBound' /\ Len(headers') = Len(Select!Columns')
  BY <1>1, <1>2, SameBound, SameAnswers
<1>4. PICK d, w, n, a : d = Select!WhereId /\ w = Select!Wanted /\ n = Len(Select!DataRows) /\ a = AnswerRows
  OBVIOUS
<1>5. n \in Nat /\ w \subseteq 1..n /\ w \subseteq Nat
  BY <1>0, <1>4, DataRowsAre, WantedRanks
<1>6. w = {rank \in 1..n : rank = d}
  BY <1>1, <1>4 DEF Select!Wanted, Select!ById
<1>7. \E ranks : Shows(ranks, rows', n + 1, w, a)
  <2>1. CASE Select!FindNothing
    <3>1. rows' = <<>> /\ d \notin 1..n
      BY <1>1, <1>4, <2>1 DEF Select!FindNothing, Select!Found
    <3>2. \A rank \in w : ~(rank < n + 1)
      BY <1>6, <3>1
    <3>3. PICK l : l = n + 1 /\ l \in Nat
      BY <1>5
    <3>4. \A rank \in w : ~(rank < l)
      BY <3>2, <3>3
    <3>5. \E ranks : Shows(ranks, <<>>, l, w, a)
      BY <3>3, <3>4, ShowsNothing
    <3> QED
      BY <3>1, <3>3, <3>5
  <2>2. CASE Select!FindRow
    <3>1. PICK r : r = Select!Projected(Select!DataRows[d], d)
      OBVIOUS
    <3>2. rows' = <<r>> /\ d \in 1..n
      BY <1>4, <2>2, <3>1 DEF Select!FindRow, Select!Found
    <3>3. r = a[d]
      BY <1>0, <1>2, <1>4, <3>1, <3>2, ProjectionAnswers
    <3>4. PICK f : f = [i \in 1..1 |-> d]
      OBVIOUS
    <3>5. Len(rows') = 1 /\ rows'[1] = r
      BY <3>2
    <3>6. f \in [1..1 -> w] /\ f[1] = d /\ \A i \in 1..1 : i = 1
      BY <1>6, <3>2, <3>4
    <3>7. d < n + 1 /\ d \in Nat
      BY <1>5, <3>2
    <3>8. \A rank \in w : rank = d
      BY <1>6
    <3>9. Shows(f, rows', n + 1, w, a)
      BY <3>3, <3>5, <3>6, <3>7, <3>8 DEF Shows
    <3> QED
      BY <3>9
  <2> QED
    BY <2>1, <2>2
<1>8. ShownBelow(n + 1)'
  BY <1>1, <1>4, <1>7, SameAnswers DEF ShownBelow
<1>9. Len(Select!DataRows') = n
  BY <1>1, <1>4, SameAnswers
<1>10. ShownBelow(Len(Select!DataRows) + 1)'
  BY <1>8, <1>9
<1>11. Select!RowsFit'
  <2>1. Select!Found => Select!Fits(Select!DataRows[Select!WhereId])
    BY DEF Select!FindNothing, Select!FindRow
  <2>2. Select!RowsFit
    BY <1>1, <2>1 DEF Select!RowsFit
  <2> QED
    BY <1>1, <2>2, SameAnswers
<1> QED
  BY <1>1, <1>3, <1>10, <1>11 DEF SelectAnswer

LEMMA ScanAnswers ==
  ASSUME SelectInv, SelectAnswer,
         Select!SkipBlank \/ Select!PassRow \/ Select!CollectRow \/ Select!ScanDone
  PROVE  SelectAnswer'
<1>0. SelectFacts /\ SelectTypes /\ SelectLoops
  BY SelectConstants DEF SelectInv, SelectTypes
<1>1. /\ UNCHANGED Select!input /\ pc = "scan" /\ ~Select!ById
      /\ UNCHANGED <<headers, selected_indexes, where_index>>
  BY <1>0
     DEF Select!SkipBlank, Select!PassRow, Select!CollectRow, Select!ScanDone, Select!AtLine,
         Select!binding, SelectLoops
<1>2. SelectBound /\ Len(headers) = Len(Select!Columns) /\ where_index = Select!WhereIndex
  BY <1>1 DEF SelectAnswer
<1>3. SelectBound' /\ Len(headers') = Len(Select!Columns') /\ where_index' = Select!WhereIndex'
  BY <1>1, <1>2, SameBound, SameAnswers
<1>4. PICK p, d : Ranks(p) /\ d = id /\ d = p[index] + 1 /\ ShownBelow(d)
  BY <1>1 DEF SelectAnswer
<1>11. \A k \in 1..index : LineFits(k)
  BY <1>1 DEF SelectAnswer
<1>5. PICK w, n, a, i : w = Select!Wanted /\ n = Len(Select!DataRows) /\ a = AnswerRows /\ i = index
  OBVIOUS
<1>6. /\ n \in Nat /\ w \subseteq 1..n /\ w \subseteq Nat /\ i \in 0..Len(table) /\ Len(table) \in Nat
      /\ d \in Nat /\ i \in Nat
  BY <1>0, <1>1, <1>4, <1>5, DataRowsAre, WantedRanks DEF SelectLoops, SelectTypes, SelectFacts
<1>7. PICK ranks : Shows(ranks, rows, d, w, a)
  BY <1>4, <1>5 DEF ShownBelow
<1>8. Ranks(p)'
  BY <1>1, <1>4, SameAnswers
<1>9. CASE Select!ScanDone
  <2>1. pc' = "show" /\ rows' = rows /\ i = Len(table)
    BY <1>1, <1>5, <1>6, <1>9 DEF Select!ScanDone, Select!AtLine
  <2>2. p[Len(table)] = n
    BY <1>0, <1>4, <1>5, DataRowsAre DEF Ranks, Layout
  <2>3. ShownBelow(n + 1)'
    BY <1>1, <1>4, <1>5, <2>1, <2>2, SameShown
  <2>4. ShownBelow(Len(Select!DataRows) + 1)'
    BY <1>1, <1>5, <2>3, SameAnswers
  <2>5. Select!RowsFit
    BY <1>1, <1>5, <1>11, <2>1 DEF Select!RowsFit, LineFits
  <2>6. Select!RowsFit'
    BY <1>1, <2>5, SameAnswers
  <2> QED
    BY <1>3, <2>1, <2>4, <2>6 DEF SelectAnswer
<1>10. CASE Select!SkipBlank \/ Select!PassRow \/ Select!CollectRow
  <2>1. /\ pc' = "scan" /\ index' = i + 1 /\ i < Len(table) /\ Select!Line = table[i + 1]
    BY <1>1, <1>5, <1>10
       DEF Select!SkipBlank, Select!PassRow, Select!CollectRow, Select!AtLine, Select!Line
  <2>2. /\ table[i + 1] = BlankLine => p[i + 1] = p[i]
        /\ table[i + 1] # BlankLine =>
             /\ p[i + 1] = p[i] + 1 /\ p[i] + 1 \in 1..n
             /\ Select!DataRows[p[i] + 1] = table[i + 1]
    BY <1>0, <1>4, <1>5, <1>6, <2>1, RankOfLine
  <2>5. (\A k \in 1..index : LineFits(k))'
    <3>1. LineFits(i + 1)
      BY <1>10, <2>1
         DEF LineFits, Select!SkipBlank, Select!PassRow, Select!CollectRow
    <3>2. \A k \in 1..(i + 1) : k \in 1..i \/ k = i + 1
      BY <1>6
    <3>3. \A k \in 1..(i + 1) : LineFits(k)
      BY <1>5, <1>11, <3>1, <3>2
    <3> QED
      BY <1>1, <2>1, <3>3, SameAnswers
  <2>3. CASE Select!SkipBlank
    <3>1. rows' = rows /\ id' = id /\ table[i + 1] = BlankLine
      BY <2>1, <2>3 DEF Select!SkipBlank
    <3>2. id' = p[index'] + 1
      BY <1>4, <1>5, <2>1, <2>2, <3>1
    <3>3. ShownBelow(id)'
      <4>1. ShownBelow(d)'
        BY <1>1, <1>4, <3>1, SameShown
      <4> QED
        BY <1>4, <3>1, <4>1
    <3> QED
      BY <1>3, <1>8, <2>1, <2>5, <3>2, <3>3 DEF SelectAnswer
  <2>4. CASE Select!PassRow \/ Select!CollectRow
    <3>1. id' = d + 1 /\ table[i + 1] # BlankLine
      BY <1>4, <2>1, <2>4 DEF Select!PassRow, Select!CollectRow, Select!IsRow
    <3>2. id' = p[index'] + 1 /\ d \in 1..n /\ Select!DataRows[d] = table[i + 1]
      BY <1>4, <1>5, <2>1, <2>2, <3>1
    <3>3. d \in w <=> Select!Matches
      <4>1. CASE ~query.has_where
        BY <1>5, <3>2, <4>1 DEF Select!Wanted, Select!Matches
      <4>2. CASE query.has_where
        <5>1. query.where_column # IdColumn
          BY <1>1, <4>2 DEF Select!ById
        <5>2. where_index = Select!FindColumn(query.where_column)
          BY <1>2, <4>2, <5>1 DEF Select!WhereIndex
        <5>3. Select!ValueOf(query.where_column, d) = Select!Line[where_index]
          BY <2>1, <3>2, <5>1, <5>2 DEF Select!ValueOf
        <5>4. Select!Matches <=> Select!Line[where_index] = query.where_value
          BY <4>2 DEF Select!Matches
        <5>5. d \in w <=> Select!ValueOf(query.where_column, d) = query.where_value
          BY <1>5, <3>2, <4>2, <5>1 DEF Select!Wanted
        <5> QED
          BY <5>3, <5>4, <5>5
      <4> QED
        BY <1>0, <4>1, <4>2 DEF SelectFacts
    <3>4. \E f : Shows(f, rows', d + 1, w, a)
      <4>1. CASE Select!PassRow
        <5>1. rows' = rows /\ d \notin w
          BY <3>3, <4>1 DEF Select!PassRow
        <5>2. Shows(ranks, rows, d + 1, w, a)
          BY <1>6, <1>7, <5>1, ShowsLess
        <5> QED
          BY <5>1, <5>2
      <4>2. CASE Select!CollectRow
        <5>1. PICK r, X : r = Select!Projected(Select!Line, id) /\ X = Select!Range(rows) \cup {r}
          OBVIOUS
        <5>2. rows' = Append(rows, r) /\ d \in w
          BY <3>3, <4>2, <5>1 DEF Select!CollectRow
        <5>3. r = a[d]
          BY <1>0, <1>2, <1>4, <1>5, <2>1, <3>2, <5>1, ProjectionAnswers
        <5>4. rows \in Seq(X) /\ r \in X
          BY <1>0, <5>1 DEF SelectTypes
        <5>5. \E f : Shows(f, Append(rows, r), d + 1, w, a)
          BY <1>6, <1>7, <5>2, <5>3, <5>4, ShowsMore
        <5> QED
          BY <5>2, <5>5
      <4> QED
        BY <2>4, <4>1, <4>2
    <3>5. ShownBelow(id)'
      <4>1. \E f : Shows(f, rows', id', w, a)
        BY <3>1, <3>4
      <4>2. Select!Wanted' = w /\ AnswerRows' = a
        BY <1>1, <1>5, SameAnswers
      <4> QED
        BY <4>1, <4>2 DEF ShownBelow
    <3> QED
      BY <1>3, <1>8, <2>1, <2>5, <3>2, <3>5 DEF SelectAnswer
  <2> QED
    BY <1>10, <2>3, <2>4
<1> QED
  BY <1>9, <1>10

LEMMA EndAnswers ==
  ASSUME SelectInv, SelectAnswer,
         \/ Select!BindRefuses \/ Select!ResolveRefuses \/ Select!NotInteger
         \/ Select!FindMisfit \/ Select!FindFails \/ Select!FindRowFails
         \/ Select!ScanRefuses \/ Select!ParseFails \/ Select!Show \/ Select!CollectFails \/ Select!Fails \/ Select!Abort
  PROVE  SelectAnswer'
<1>1. CASE Select!Show
  <2>1. /\ pc = "show" /\ pc' = "ok" /\ UNCHANGED Select!input
        /\ UNCHANGED <<headers, selected_indexes, rows>>
    BY <1>1 DEF Select!Show, Select!AnswerKeeping, Select!input, Select!binding
  <2>2. SelectBound' /\ Len(headers') = Len(Select!Columns')
    BY <2>1, SameBound, SameAnswers DEF SelectAnswer
  <2>3. PICK n : n = Len(Select!DataRows) + 1
    OBVIOUS
  <2>4. ShownBelow(n)'
    BY <2>1, <2>3, SameShown DEF SelectAnswer
  <2>5. ShownBelow(Len(Select!DataRows) + 1)'
    BY <2>1, <2>3, <2>4, SameAnswers
  <2>6. Select!RowsFit'
    BY <2>1, SameAnswers DEF SelectAnswer
  <2> QED
    BY <2>1, <2>2, <2>5, <2>6 DEF SelectAnswer
<1>2. CASE ~Select!Show
  <2>1. pc' \in {"unknownColumn", "notInteger", "badRow", "failed", "aborted"}
    BY <1>2 DEF Select!BindRefuses, Select!ResolveRefuses, Select!NotInteger, Select!FindMisfit,
      Select!FindFails, Select!FindRowFails, Select!ScanRefuses, Select!ParseFails, Select!CollectFails,
      Select!Fails, Select!Abort, Select!Answer, Select!AnswerKeeping
  <2> QED
    BY <2>1 DEF SelectAnswer
<1> QED
  BY <1>1, <1>2

LEMMA SelectAnswerStep == SelectInv /\ SelectAnswer /\ Select!Next => SelectAnswer'
BY BindAnswers, FindAnswers, ScanAnswers, EndAnswers DEF Select!Next, Select!Step

LEMMA SelectAnswersQuery == ASSUME SelectInv, SelectAnswer PROVE Select!AnswerIsTheQuery
<1> SUFFICES ASSUME pc = "ok" PROVE Select!AnswerIsTheQuery
  BY DEF Select!AnswerIsTheQuery
<1>0. SelectFacts /\ SelectTypes
  BY SelectConstants DEF SelectInv, SelectTypes
<1>1. /\ SelectBound /\ Len(headers) = Len(Select!Columns) /\ Select!RowsFit
      /\ ShownBelow(Len(Select!DataRows) + 1)
  BY DEF SelectAnswer
<1>2. headers = Select!Columns
  <2>1. PICK X, c, h : X = Select!Range(headers) \cup Select!Range(Select!Columns) /\ c = Select!Columns /\ h = headers
    OBVIOUS
  <2>2. h \in Seq(X) /\ c \in Seq(X) /\ Len(h) = Len(c)
    BY <1>0, <1>1, <2>1 DEF SelectTypes, SelectFacts
  <2>3. \A k \in 1..Len(h) : h[k] = c[k]
    BY <1>1, <2>1 DEF SelectBound
  <2> QED
    BY <2>1, <2>2, <2>3, SeqEqual
<1>3. PICK w, a, n : w = Select!Wanted /\ a = AnswerRows /\ n = Len(Select!DataRows)
  OBVIOUS
<1>4. PICK ranks : Shows(ranks, rows, n + 1, w, a)
  BY <1>1, <1>3 DEF ShownBelow
<1>5. \A rank \in w : rank \in 1..n /\ rank < n + 1
  BY <1>0, <1>3, WantedRanks
<1>6. /\ ranks \in [1..Len(rows) -> w]
      /\ \A i, j \in 1..Len(rows) : i < j => ranks[i] < ranks[j]
      /\ \A i \in 1..Len(rows) : rows[i] = a[ranks[i]]
      /\ \A rank \in w : \E i \in 1..Len(rows) : ranks[i] = rank
  BY <1>4, <1>5 DEF Shows
<1>7. ASSUME NEW i \in 1..Len(rows)
      PROVE  rows[i] = [k \in 1..Len(Select!Columns) |->
                          IF query.select_all THEN Select!DataRows[ranks[i]][k]
                          ELSE Select!ValueOf(Select!Columns[k], ranks[i])]
  <2>1. PICK r : r = ranks[i]
    OBVIOUS
  <2>2. r \in 1..n /\ rows[i] = a[r]
    BY <1>5, <1>6, <2>1
  <2> QED
    BY <1>3, <2>1, <2>2 DEF AnswerRows
<1> QED
  BY <1>1, <1>2, <1>3, <1>6, <1>7 DEF Select!AnswerIsTheQuery

\* Whatever is read of a row is a place of it.
LEMMA SelectReads == ASSUME SelectInv, SelectAnswer PROVE Select!AccessesStayInBounds
<1>0. SelectFacts /\ SelectTypes /\ SelectLoops /\ SelectSlots
  BY SelectConstants DEF SelectInv, SelectTypes
<1>1. CASE overran
  BY <1>0, <1>1 DEF SelectSlots, Select!AccessesStayInBounds, Select!Slots
<1>2. CASE ~overran
  <2>1. Len(selected_indexes) <= Select!Slots
    BY <1>0, <1>2 DEF SelectSlots, Select!Slots
  <2>2. pc \in {"find", "scan", "show"} => SelectBound /\ Len(headers) = Len(Select!Columns)
    BY DEF SelectAnswer
  <2>3. pc \in {"find", "scan", "show"} => Len(selected_indexes) = Len(headers)
    BY <2>2 DEF SelectBound
  <2>4. ASSUME Select!AtRow, Select!Fits(Select!RowAtHand)
        PROVE  Select!PlacesRead \subseteq 1..Len(Select!RowAtHand)
    <3>1. Len(Select!RowAtHand) = Len(schema) /\ Len(schema) \in Nat
      BY <1>0, <2>4 DEF Select!Fits, SelectFacts
    <3>2. Select!Range(selected_indexes) \subseteq 0..Len(schema)
      BY <1>0 DEF SelectTypes, Select!Range
    <3>3. pc \in {"find", "scan"}
      BY <2>4 DEF Select!AtRow, Select!AtLine
    <3>4. query.has_where /\ ~Select!ById => where_index \in 1..Len(schema)
      BY <1>0, <3>3 DEF SelectLoops
    <3>5. (Select!Range(selected_indexes) \ {0}) \subseteq 1..Len(schema)
      BY <3>1, <3>2
    <3> QED
      BY <3>1, <3>4, <3>5 DEF Select!PlacesRead
  <2>5. ASSUME pc = "show", NEW i \in 1..Len(rows) PROVE Len(rows[i]) = Len(headers)
    <3>1. PICK n, m, a, w : /\ n = Len(Select!DataRows) /\ m = Len(Select!Columns)
                            /\ a = AnswerRows /\ w = Select!Wanted
      OBVIOUS
    <3>2. PICK ranks : Shows(ranks, rows, n + 1, w, a)
      BY <2>5, <3>1 DEF SelectAnswer, ShownBelow
    <3>3. w \subseteq 1..n /\ m \in Nat
      BY <1>0, <3>1, WantedRanks DEF SelectFacts
    <3>4. ranks[i] \in 1..n /\ rows[i] = a[ranks[i]]
      BY <3>2, <3>3 DEF Shows
    <3>5. PICK r : r = ranks[i]
      OBVIOUS
    <3>6. a[r] = [k \in 1..m |-> IF query.select_all THEN Select!DataRows[r][k]
                                 ELSE Select!ValueOf(Select!Columns[k], r)]
      BY <3>1, <3>4, <3>5 DEF AnswerRows
    <3>7. Len(a[r]) = m
      BY <3>3, <3>6
    <3> QED
      BY <2>2, <2>5, <3>1, <3>4, <3>5, <3>7
  <2> QED
    BY <1>2, <2>1, <2>3, <2>4, <2>5 DEF Select!AccessesStayInBounds
<1> QED
  BY <1>0, <1>1, <1>2 DEF SelectTypes

\* The block of the token array.
TokenArray == IF slots > 0 THEN 1 ELSE 0

-----------------------------------------------------------------------------
(* lex_sql.                                                                *)

\* Each token is a block, and so are their array and the literal's buffer,
\* which exists while a literal is read.
LexInv ==
  /\ Lexer!TypeOK
  /\ Lexer!BufferHoldsTerminator
  /\ buffer = Null <=> capacity = 0
  /\ buffer # Null => pc \in {"string", "closed"}
  /\ live = Len(tokens) + TokenArray + Lexer!BufferBlock

LEMMA LexInit == Lexer!Init => LexInv
<1> SUFFICES ASSUME Lexer!Init PROVE LexInv
  OBVIOUS
<1>1. input \in Seq(Lexer!Char) /\ Len(input) \in Nat
  BY StagesAssumption DEF Lexer!LexerAssumption, Lexer!Init
<1> QED
  BY <1>1 DEF Lexer!Init, LexInv, Lexer!TypeOK, Lexer!BufferHoldsTerminator, TokenArray, Lexer!BufferBlock

\* What holds of the lexer's variables in each of its states.
LexFacts ==
  /\ input \in Texts /\ input \in Seq(Lexer!Char) /\ Len(input) \in Nat
  /\ index \in 0..Len(input) /\ start \in 0..index
  /\ tokens \in Seq(Lexer!Token) /\ Len(tokens) \in Nat
  /\ slots \in Nat /\ capacity \in Nat /\ live \in Nat
  /\ Len(tokens) <= slots
  /\ buffer # Null => buffer \in Seq(Lexer!Char) /\ Len(buffer) \in Nat /\ Len(buffer) < capacity
  /\ FirstTokens \in Nat \ {0} /\ FirstBytes \in Nat \ {0, 1}
  /\ Null \notin Seq(Lexer!Char)

LEMMA LexTypes == ASSUME LexInv PROVE LexFacts
BY StagesAssumption
   DEF LexInv, LexFacts, Lexer!TypeOK, Lexer!BufferHoldsTerminator, Lexer!LexerAssumption

\* A token is pushed: the array has room for it, and its blocks are counted.
LEMMA PushKeeps ==
  ASSUME LexInv, NEW type, NEW text, NEW position,
         [type |-> type, text |-> text, position |-> position] \in Lexer!Token,
         NEW freed, freed = Lexer!BufferBlock,
         Lexer!PushToken(type, text, position, freed),
         input' = input, index' \in 0..Len(input), start' \in 0..index',
         pc' \in {"scan", "ok"}, buffer' = Null, capacity' = 0
  PROVE  LexInv'
<1> USE LexTypes DEF LexFacts
<1>1. tokens' \in Seq(Lexer!Token) /\ Len(tokens') = Len(tokens) + 1
  BY DEF Lexer!PushToken
<1>2. slots' \in Nat /\ Len(tokens') <= slots' /\ slots' > 0
  <2>1. CASE slots = 0
    BY <1>1, <2>1 DEF Lexer!PushToken, Lexer!Full, Lexer!Grown
  <2>2. CASE slots > 0 /\ Lexer!Full
    <3>1. slots' = 2 * slots
      BY <1>1, <2>2 DEF Lexer!PushToken, Lexer!Grown
    <3> QED
      BY <1>1, <2>2, <3>1 DEF Lexer!Full
  <2>3. CASE slots > 0 /\ ~Lexer!Full
    BY <1>1, <2>3 DEF Lexer!PushToken, Lexer!Full
  <2> QED
    BY <2>1, <2>2, <2>3
<1>3. live' = Len(tokens') + 1
  <2>1. TokenArray + Lexer!ArrayBlock = 1 /\ Lexer!ArrayBlock \in Nat
    BY DEF TokenArray, Lexer!BufferBlock, Lexer!ArrayBlock
  <2>2. live' = live + 1 + Lexer!ArrayBlock - freed /\ freed \in Nat
    BY DEF Lexer!PushToken, TokenArray, Lexer!BufferBlock
  <2>3. live = Len(tokens) + TokenArray + freed /\ TokenArray \in Nat
    BY DEF LexInv, TokenArray, Lexer!BufferBlock
  <2>4. live' = Len(tokens) + (TokenArray + Lexer!ArrayBlock) + 1
    BY <2>1, <2>2, <2>3
  <2> QED
    BY <1>1, <2>1, <2>4
<1> QED
  BY <1>1, <1>2, <1>3 DEF LexInv, Lexer!TypeOK, Lexer!BufferHoldsTerminator, Lexer!Answers, TokenArray, Lexer!BufferBlock

LEMMA PushFailsKeeps ==
  ASSUME LexInv, NEW freed, freed = Lexer!BufferBlock, Lexer!PushFails(freed),
         buffer' = Null, capacity' = 0
  PROVE  LexInv'
<1> USE LexTypes DEF LexFacts
<1>1. /\ input' = input /\ index' = index /\ start' = start /\ tokens' = tokens
      /\ pc' = "outOfMemory"
  BY DEF Lexer!PushFails
<1>2. live = Len(tokens) + TokenArray + freed /\ TokenArray \in Nat /\ freed \in Nat
  BY DEF LexInv, TokenArray, Lexer!BufferBlock
<1>3. slots' \in Nat /\ Len(tokens) <= slots' /\ live' = Len(tokens) + TokenArray'
  <2>1. CASE slots' = slots /\ live' = live - freed
    BY <1>2, <2>1 DEF TokenArray
  <2>2. CASE slots' = Lexer!Grown /\ live' = live + Lexer!ArrayBlock - freed
    <3>1. slots' \in Nat /\ slots' > 0 /\ slots <= slots'
      <4>1. CASE slots = 0
        BY <2>2, <4>1 DEF Lexer!Grown
      <4>2. CASE slots > 0
        BY <2>2, <4>2 DEF Lexer!Grown
      <4> QED
        BY <4>1, <4>2
    <3>2. TokenArray + Lexer!ArrayBlock = 1 /\ Lexer!ArrayBlock \in Nat
      BY DEF TokenArray, Lexer!BufferBlock, Lexer!ArrayBlock
    <3>3. TokenArray' = 1
      BY <3>1 DEF TokenArray, Lexer!BufferBlock
    <3>4. live' = Len(tokens) + (TokenArray + Lexer!ArrayBlock)
      BY <1>2, <2>2, <3>2
    <3> QED
      BY <3>1, <3>2, <3>3, <3>4
  <2> QED
    BY <2>1, <2>2 DEF Lexer!PushFails
<1> QED
  BY <1>1, <1>3 DEF LexInv, Lexer!TypeOK, Lexer!BufferHoldsTerminator, Lexer!Answers, TokenArray, Lexer!BufferBlock

LEMMA DropKeeps ==
  ASSUME LexInv, NEW answer \in Lexer!Answers, Lexer!DropBuffer(answer)
  PROVE  LexInv'
<1> USE LexTypes DEF LexFacts
<1>1. /\ input' = input /\ index' = index /\ start' = start /\ tokens' = tokens
      /\ pc' = answer /\ buffer' = Null /\ capacity' = 0 /\ slots' = slots
  BY DEF Lexer!DropBuffer
<1>2. live' = Len(tokens) + TokenArray
  <2>1. live' = live - Lexer!BufferBlock /\ Lexer!BufferBlock \in Nat
    BY DEF Lexer!DropBuffer, TokenArray, Lexer!BufferBlock
  <2>2. live = Len(tokens) + TokenArray + Lexer!BufferBlock /\ TokenArray \in Nat
    BY DEF LexInv, TokenArray, Lexer!BufferBlock
  <2> QED
    BY <2>1, <2>2
<1> QED
  BY <1>1, <1>2 DEF LexInv, Lexer!TypeOK, Lexer!BufferHoldsTerminator, Lexer!Answers, TokenArray, Lexer!BufferBlock

LEMMA StringCharKeeps ==
  ASSUME LexInv, Lexer!StringChar
  PROVE  LexInv'
<1> USE LexTypes DEF LexFacts
<1>1. /\ input' = input /\ start' = start /\ tokens' = tokens /\ slots' = slots
      /\ pc = "string" /\ pc' = "string"
  BY DEF Lexer!StringChar
<1>2. index < Len(input) /\ Lexer!Here \in Lexer!Char
  BY DEF Lexer!StringChar, Lexer!AtEnd, Lexer!Here
<1>3. index' \in 0..Len(input) /\ index <= index'
  BY <1>2 DEF Lexer!StringChar, Lexer!Passed, Lexer!Escaped, Lexer!NextIsQuote
<1>4. /\ buffer' \in Seq(Lexer!Char)
      /\ Len(buffer') = Lexer!Length + 1
      /\ Lexer!Length \in Nat
  BY <1>2 DEF Lexer!StringChar, Lexer!Length
<1>5. buffer' # Null
  BY <1>4
<1>6. capacity' \in Nat /\ Len(buffer') < capacity' /\ capacity' # 0
  <2>1. Lexer!Length <= capacity /\ (capacity = 0 => Lexer!Length = 0)
    BY DEF Lexer!Length, LexInv
  <2>2. CASE Lexer!Short /\ capacity = 0
    BY <1>4, <2>1, <2>2 DEF Lexer!StringChar
  <2>3. CASE Lexer!Short /\ capacity > 0
    <3>1. Lexer!Length < capacity
      BY <2>3 DEF Lexer!Length
    <3>2. capacity' = 2 * capacity
      BY <2>3 DEF Lexer!StringChar
    <3> QED
      BY <1>4, <2>3, <3>1, <3>2
  <2>4. CASE ~Lexer!Short
    <3>1. capacity' = capacity /\ Lexer!Length + 1 < capacity
      BY <1>4, <2>4 DEF Lexer!StringChar, Lexer!Short
    <3> QED
      BY <1>4, <3>1
  <2> QED
    BY <2>2, <2>3, <2>4
<1>7. live' = Len(tokens) + TokenArray + 1
  <2>1. buffer = Null => Lexer!Short
    BY DEF Lexer!Short, Lexer!Length, LexInv
  <2>2. live' = live + (1 - Lexer!BufferBlock) /\ Lexer!BufferBlock \in {0, 1}
    BY <2>1 DEF Lexer!StringChar, Lexer!BufferBlock
  <2>4. live = Len(tokens) + TokenArray + Lexer!BufferBlock /\ TokenArray \in Nat
    BY DEF LexInv, TokenArray, Lexer!BufferBlock
  <2> QED
    BY <2>2, <2>4
<1> QED
  BY <1>1, <1>3, <1>4, <1>5, <1>6, <1>7
     DEF LexInv, Lexer!TypeOK, Lexer!BufferHoldsTerminator, TokenArray, Lexer!BufferBlock

\* The index moves, or not, and nothing is allocated.
LEMMA MoveKeeps ==
  ASSUME LexInv, UNCHANGED <<input, buffer, capacity, tokens, slots, live>>,
         index' \in 0..Len(input), start' \in 0..index',
         pc' \in {"scan", "word", "string", "closed"} \cup Lexer!Answers,
         buffer # Null => pc' \in {"string", "closed"}
  PROVE  LexInv'
BY DEF LexInv, Lexer!TypeOK, Lexer!BufferHoldsTerminator, TokenArray, Lexer!BufferBlock

LEMMA LexStep == LexInv /\ Lexer!Next => LexInv'
<1> SUFFICES ASSUME LexInv, Lexer!Next PROVE LexInv'
  OBVIOUS
<1> USE LexTypes DEF LexFacts
<1>0. pc \notin {"string", "closed"} => buffer = Null /\ capacity = 0
  BY DEF LexInv
<1>1. CASE Lexer!SkipBlank \/ Lexer!WordChar \/ Lexer!StartWord \/ Lexer!OpenQuote
  <2>1. /\ UNCHANGED <<input, buffer, capacity, tokens, slots, live>>
        /\ index' \in 0..Len(input) /\ start' \in 0..index'
        /\ pc' \in {"scan", "word", "string"} /\ buffer = Null
    BY <1>0, <1>1
       DEF Lexer!SkipBlank, Lexer!WordChar, Lexer!StartWord, Lexer!OpenQuote, Lexer!Sees, Lexer!AtEnd
  <2> QED
    BY <2>1, MoveKeeps
<1>2. CASE Lexer!CloseQuote \/ Lexer!RunOut
  <2>1. /\ UNCHANGED <<input, buffer, capacity, tokens, slots, live>>
        /\ index' \in 0..Len(input) /\ start' \in 0..index' /\ pc' = "closed"
    BY <1>2 DEF Lexer!CloseQuote, Lexer!RunOut, Lexer!Sees, Lexer!AtEnd
  <2> QED
    BY <2>1, MoveKeeps
<1>3. CASE Lexer!Unexpected
  BY <1>0, <1>3, MoveKeeps DEF Lexer!Unexpected, Lexer!Answers
<1>4. CASE Lexer!PushSymbol
  <2>1. /\ pc = "scan" /\ index < Len(input) /\ Lexer!Here \in Symbol
        /\ Lexer!PushToken(Lexer!Here, <<Lexer!Here>>, index, 0)
        /\ input' = input /\ index' = index + 1 /\ start' = start /\ pc' = "scan"
        /\ buffer' = buffer /\ capacity' = capacity
    BY <1>4 DEF Lexer!PushSymbol, Lexer!Sees, Lexer!AtEnd
  <2>2. [type |-> Lexer!Here, text |-> <<Lexer!Here>>, position |-> index] \in Lexer!Token
    BY <2>1 DEF Lexer!Token, Lexer!Char
  <2> QED
    BY <1>0, <2>1, <2>2, PushKeeps DEF TokenArray, Lexer!BufferBlock
<1>5. CASE Lexer!PushEnd
  <2>1. /\ pc = "scan" /\ Lexer!PushToken("END", <<>>, index, 0)
        /\ input' = input /\ index' = index /\ start' = start /\ pc' = "ok"
        /\ buffer' = buffer /\ capacity' = capacity
    BY <1>5 DEF Lexer!PushEnd
  <2>2. [type |-> "END", text |-> <<>>, position |-> index] \in Lexer!Token
    BY DEF Lexer!Token
  <2> QED
    BY <1>0, <2>1, <2>2, PushKeeps DEF TokenArray, Lexer!BufferBlock
<1>6. CASE Lexer!PushWord
  <2> DEFINE word == SubSeq(input, start + 1, index)
  <2>1. /\ pc = "word" /\ Lexer!PushToken(Lexer!WordType(word), word, start, 0)
        /\ input' = input /\ index' = index /\ start' = start /\ pc' = "scan"
        /\ buffer' = buffer /\ capacity' = capacity
    BY <1>6 DEF Lexer!PushWord, Lexer!WordEnds
  <2>2. word \in Seq(Lexer!Char) /\ start \in Nat
    OBVIOUS
  <2> HIDE DEF word
  <2>3. [type |-> Lexer!WordType(word), text |-> word, position |-> start] \in Lexer!Token
    BY <2>2 DEF Lexer!Token, Lexer!WordType
  <2> QED
    BY <1>0, <2>1, <2>3, PushKeeps DEF TokenArray, Lexer!BufferBlock
<1>7. CASE Lexer!PushString
  <2> DEFINE text == IF buffer = Null THEN <<>> ELSE buffer
  <2>1. /\ Lexer!PushToken("STRING", text, start, Lexer!BufferBlock)
        /\ input' = input /\ index' = index /\ start' = start /\ pc' = "scan"
        /\ buffer' = Null /\ capacity' = 0
    BY <1>7 DEF Lexer!PushString
  <2>2. text \in Seq(Lexer!Char) /\ start \in Nat
    OBVIOUS
  <2> HIDE DEF text
  <2>3. [type |-> "STRING", text |-> text, position |-> start] \in Lexer!Token
    BY <2>2 DEF Lexer!Token
  <2> QED
    BY <2>1, <2>3, PushKeeps
<1>8. CASE Lexer!StringChar
  BY <1>8, StringCharKeeps
<1>9. CASE Lexer!Unterminated \/ Lexer!StringCharFails
  BY <1>9, DropKeeps DEF Lexer!Unterminated, Lexer!StringCharFails, Lexer!Answers
<1>10. CASE Lexer!ScanFails \/ Lexer!WordFails
  BY <1>0, <1>10, PushFailsKeeps DEF Lexer!ScanFails, Lexer!WordFails, Lexer!WordEnds, TokenArray, Lexer!BufferBlock
<1>11. CASE Lexer!PushStringFails
  BY <1>11, PushFailsKeeps DEF Lexer!PushStringFails
<1>12. CASE Lexer!FreeTokens
  <2>1. /\ input' = input /\ index' = index /\ start' = start /\ tokens' = <<>> /\ slots' = 0
        /\ pc' = "freed" /\ buffer' = buffer /\ capacity' = capacity /\ buffer = Null
    BY <1>0, <1>12 DEF Lexer!FreeTokens, Lexer!Answers
  <2>2. live' = 0
    BY <1>12, <2>1 DEF Lexer!FreeTokens, LexInv, TokenArray, Lexer!BufferBlock
  <2> QED
    BY <1>0, <2>1, <2>2 DEF LexInv, Lexer!TypeOK, Lexer!BufferHoldsTerminator, TokenArray, Lexer!BufferBlock
<1> QED
  BY <1>1, <1>2, <1>3, <1>4, <1>5, <1>6, <1>7, <1>8, <1>9, <1>10, <1>11, <1>12
     DEF Lexer!Next, Lexer!Step, Lexer!Fails

-----------------------------------------------------------------------------
(* The text that lex_sql reads.                                            *)

\* Two tokens that follow one another: see TokensSpellInput.
Apart(s, t) ==
  /\ Lexer!BlankBetween(Lexer!EndOf(s), t.position)
  /\ Lexer!IsWord(s) /\ Lexer!IsWord(t) => Lexer!EndOf(s) < t.position
  /\ s.type = "STRING" /\ t.type = "STRING" => Lexer!EndOf(s) < t.position

\* A token is written where it says, or lacks only the quote behind the text.
Spelled(t) ==
  \/ /\ Lexer!EndOf(t) <= Len(input)
     /\ SubSeq(input, t.position + 1, Lexer!EndOf(t)) = Lexer!Spelling(t)
  \/ /\ t.type = "STRING" /\ Lexer!EndOf(t) = Len(input) + 1
     /\ SubSeq(input, t.position + 1, Len(input)) \o <<Quote>> = Lexer!Spelling(t)

LastEnd == IF Len(tokens) = 0 THEN 0 ELSE Lexer!EndOf(tokens[Len(tokens)])

LastIs(types) == Len(tokens) > 0 /\ tokens[Len(tokens)].type \in types

WordTypes == {"IDENTIFIER", "NUMBER"}
WordChars == Letter \cup Digit

\* Behind the last token there are only blanks up to this place.
BlankTo(at) == Lexer!BlankBetween(LastEnd, at) /\ (LastEnd <= at \/ at = Len(input))

\* The tokens pushed.
LexTokens ==
  /\ \A i \in 1..Len(tokens) : Spelled(tokens[i]) /\ tokens[i].position <= index
  /\ Len(tokens) > 0 => Lexer!BlankBetween(0, tokens[1].position)
  /\ \A i \in 2..Len(tokens) : Apart(tokens[i - 1], tokens[i])
  /\ pc \notin {"ok", "freed"} => \A i \in 1..Len(tokens) : tokens[i].type # "END"
  /\ pc = "ok" =>
       /\ LastIs({"END"}) /\ tokens[Len(tokens)].position = Len(input)
       /\ \A i \in 1..(Len(tokens) - 1) : tokens[i].type # "END"

\* The value of the literal that is read.
Literal == IF buffer = Null THEN <<>> ELSE buffer

Opened == <<Quote>> \o Lexer!Doubled(Literal)

\* The text behind them: where the next token may start, and what of it was read.
LexPlace ==
  /\ pc = "scan" =>
       /\ BlankTo(index)
       /\ LastIs(WordTypes) /\ LastEnd = index => ~Lexer!Sees(WordChars)
       /\ LastIs({"STRING"}) /\ LastEnd = index => ~Lexer!Sees({Quote})
  /\ pc \in {"word", "string", "closed"} => BlankTo(start) /\ LastEnd <= start
  /\ pc = "word" /\ LastIs(WordTypes) => LastEnd < start
  /\ pc \in {"string", "closed"} /\ LastIs({"STRING"}) => LastEnd < start
  /\ pc = "string" => SubSeq(input, start + 1, index) = Opened
  /\ pc = "closed" =>
       \/ SubSeq(input, start + 1, index) = Opened \o <<Quote>> /\ ~Lexer!Sees({Quote})
       \/ SubSeq(input, start + 1, index) = Opened /\ index = Len(input)

Odd(n) == n % 2 = 1

\* Outside a literal the quotes read are even in number, unless the text ended
\* with the one that was to close the last literal.
LexQuotes ==
  /\ pc = "scan" =>
       \/ ~Odd(Lexer!QuotesUpTo(index))
       \/ index = Len(input) /\ index > 0 /\ input[index] = Quote
  /\ pc = "word" => ~Odd(Lexer!QuotesUpTo(index))
  /\ pc = "string" => Odd(Lexer!QuotesUpTo(index)) /\ index > 0
  /\ pc = "closed" =>
       /\ index > 0
       /\ \/ ~Odd(Lexer!QuotesUpTo(index)) /\ input[index] = Quote
          \/ Odd(Lexer!QuotesUpTo(index)) /\ index = Len(input)
  /\ Lexer!RefusedForCause

LexText == LexTokens /\ LexPlace /\ LexQuotes

\* The classes of the characters, as far as a proof tells them apart.
LEMMA LexClasses ==
  /\ Quote \in Lexer!Char
  /\ Quote \notin WordChars \cup BlankChars \cup Symbol \cup Other
  /\ Symbol \cap {"IDENTIFIER", "NUMBER", "STRING", "END"} = {}
BY StagesAssumption DEF Lexer!LexerAssumption, WordChars, Lexer!Char

LEMMA LexCardinality == ASSUME NEW S PROVE Lexer!Cardinality(S) = Cardinality(S)
BY DEF Cardinality, Lexer!Cardinality

\* The quotes read, one character on.
LEMMA QuotesStep ==
  ASSUME NEW n \in Nat
  PROVE  /\ Lexer!QuotesUpTo(n) \in Nat
         /\ Lexer!QuotesUpTo(n + 1) =
              Lexer!QuotesUpTo(n) + (IF input[n + 1] = Quote THEN 1 ELSE 0)
<1>1. PICK m, s, S, T : /\ m = n + 1 /\ s = input
                        /\ S = {i \in 1..n : s[i] = Quote} /\ T = {i \in 1..m : s[i] = Quote}
  OBVIOUS
<1>2. Lexer!QuotesUpTo(n) = Cardinality(S) /\ Lexer!QuotesUpTo(m) = Cardinality(T)
  <2>1. Lexer!QuotesUpTo(n) = Lexer!Cardinality(S) /\ Lexer!QuotesUpTo(m) = Lexer!Cardinality(T)
    BY <1>1, Zenon DEF Lexer!QuotesUpTo
  <2> QED
    BY <2>1, LexCardinality
<1>3. IsFiniteSet(S) /\ Cardinality(S) \in Nat
  <2>1. IsFiniteSet(1..n)
    BY FS_Interval
  <2>2. S \in SUBSET (1..n)
    BY <1>1
  <2>3. IsFiniteSet(S)
    BY <2>1, <2>2, FS_Subset
  <2> QED
    BY <2>3, FS_CardinalityType
<1>4. CASE s[m] = Quote
  <2>1. T = S \cup {m} /\ m \notin S
    BY <1>1, <1>4
  <2>2. Cardinality(T) = Cardinality(S) + 1
    BY <1>3, <2>1, FS_AddElement
  <2> QED
    BY <1>1, <1>2, <1>3, <1>4, <2>2
<1>5. CASE s[m] # Quote
  <2>1. T = S
    <3>1. ASSUME NEW i \in T PROVE i \in S
      <4>1. i # m
        BY <1>1, <1>5
      <4> QED
        BY <1>1, <4>1
    <3>2. \A i \in S : i \in T
      BY <1>1
    <3>3. T \subseteq S /\ S \subseteq T
      BY <3>1, <3>2
    <3> QED
      BY <3>3, Zenon
  <2>2. Cardinality(T) = Cardinality(S) + 0
    BY <1>3, <2>1
  <2>3. input[n + 1] # Quote
    BY <1>1, <1>5
  <2> QED
    BY <1>1, <1>2, <1>3, <2>2, <2>3
<1> QED
  BY <1>4, <1>5

LEMMA NoQuotes == ~Odd(Lexer!QuotesUpTo(0)) /\ Lexer!QuotesUpTo(0) = 0
<1>1. {i \in 1..0 : input[i] = Quote} = {}
  OBVIOUS
<1>2. Lexer!QuotesUpTo(0) = 0
  BY <1>1, FS_EmptySet, LexCardinality DEF Lexer!QuotesUpTo
<1> QED
  BY <1>2 DEF Odd

LEMMA OddAlternates == ASSUME NEW n \in Nat PROVE Odd(n + 1) <=> ~Odd(n)
BY DEF Odd

\* One character on, the quotes read are even again or odd, or as they were.
LEMMA ReadOne ==
  ASSUME NEW n \in Nat
  PROVE  /\ input[n + 1] = Quote =>
              (Odd(Lexer!QuotesUpTo(n + 1)) <=> ~Odd(Lexer!QuotesUpTo(n)))
         /\ input[n + 1] # Quote =>
              (Odd(Lexer!QuotesUpTo(n + 1)) <=> Odd(Lexer!QuotesUpTo(n)))
<1>1. PICK q, r : q = Lexer!QuotesUpTo(n) /\ r = Lexer!QuotesUpTo(n + 1)
  OBVIOUS
<1>2. q \in Nat /\ r = q + (IF input[n + 1] = Quote THEN 1 ELSE 0)
  BY <1>1, QuotesStep
<1>3. CASE input[n + 1] = Quote
  BY <1>1, <1>2, <1>3, OddAlternates
<1>4. CASE input[n + 1] # Quote
  BY <1>1, <1>2, <1>4
<1> QED
  BY <1>3, <1>4

LEMMA SameQuotes ==
  ASSUME UNCHANGED input, NEW n, index' = n
  PROVE  Odd(Lexer!QuotesUpTo(index))' <=> Odd(Lexer!QuotesUpTo(n))
BY DEF Lexer!QuotesUpTo, Odd

LEMMA LexQuotesInit == Lexer!Init => LexQuotes
<1> SUFFICES ASSUME Lexer!Init PROVE LexQuotes
  OBVIOUS
<1>1. pc = "scan" /\ index = 0
  BY DEF Lexer!Init
<1>2. ~Odd(Lexer!QuotesUpTo(index))
  BY <1>1, NoQuotes
<1> QED
  BY <1>1, <1>2 DEF LexQuotes, Lexer!RefusedForCause

\* Between the tokens, and in a word.
LEMMA ScanQuotes ==
  ASSUME LexInv, LexQuotes,
         \/ Lexer!SkipBlank \/ Lexer!PushSymbol \/ Lexer!Unexpected \/ Lexer!StartWord
         \/ Lexer!WordChar \/ Lexer!PushWord \/ Lexer!OpenQuote \/ Lexer!PushEnd
  PROVE  LexQuotes'
<1> USE LexTypes DEF LexFacts
<1>1. input' = input /\ index \in Nat
  BY DEF Lexer!SkipBlank, Lexer!PushSymbol, Lexer!Unexpected, Lexer!StartWord, Lexer!WordChar,
         Lexer!PushWord, Lexer!OpenQuote, Lexer!PushEnd
<1>2. PICK n, m : n = index /\ m = n + 1
  OBVIOUS
<1>3. pc = "scan" /\ index < Len(input) => ~Odd(Lexer!QuotesUpTo(n))
  BY <1>2 DEF LexQuotes
<1>4. CASE Lexer!SkipBlank \/ Lexer!PushSymbol \/ Lexer!WordChar
  <2>1. /\ index < Len(input) /\ Lexer!Here \in BlankChars \cup Symbol \cup WordChars
        /\ index' = m /\ pc' = pc /\ pc \in {"scan", "word"}
    BY <1>2, <1>4 DEF Lexer!SkipBlank, Lexer!PushSymbol, Lexer!WordChar, Lexer!Sees, Lexer!AtEnd,
                      WordChars
  <2>2. input[n + 1] # Quote
    BY <1>2, <2>1, LexClasses DEF Lexer!Here
  <2>3. ~Odd(Lexer!QuotesUpTo(n))
    BY <1>2, <1>3, <2>1 DEF LexQuotes
  <2>4. ~Odd(Lexer!QuotesUpTo(m))
    BY <1>1, <1>2, <2>2, <2>3, ReadOne
  <2>5. ~Odd(Lexer!QuotesUpTo(index))'
    BY <1>1, <2>1, <2>4, SameQuotes
  <2> QED
    BY <2>1, <2>5 DEF LexQuotes, Lexer!RefusedForCause
<1>5. CASE Lexer!Unexpected
  <2>1. /\ index < Len(input) /\ Lexer!Here \in Other /\ index' = n /\ pc' = "unexpected"
        /\ pc = "scan"
    BY <1>2, <1>5 DEF Lexer!Unexpected, Lexer!Sees, Lexer!AtEnd
  <2>2. PICK q : q = Lexer!QuotesUpTo(n)
    OBVIOUS
  <2>3. ~Odd(q) /\ q \in Nat
    BY <1>1, <1>2, <1>3, <2>1, <2>2, QuotesStep
  <2>4. Lexer!QuotesUpTo(index)' = q
    BY <1>1, <2>1, <2>2 DEF Lexer!QuotesUpTo
  <2>5. q % 2 = 0
    BY <2>3 DEF Odd
  <2>6. Lexer!Here' \in Other
    BY <1>1, <1>2, <2>1 DEF Lexer!Here
  <2> QED
    BY <2>1, <2>4, <2>5, <2>6 DEF LexQuotes, Lexer!RefusedForCause
<1>6. CASE Lexer!StartWord
  <2>1. index < Len(input) /\ index' = n /\ pc = "scan" /\ pc' = "word"
    BY <1>2, <1>6 DEF Lexer!StartWord, Lexer!Sees, Lexer!AtEnd
  <2>2. ~Odd(Lexer!QuotesUpTo(index))'
    BY <1>1, <1>3, <2>1, SameQuotes
  <2> QED
    BY <2>1, <2>2 DEF LexQuotes, Lexer!RefusedForCause
<1>7. CASE Lexer!PushWord
  <2>1. index' = n /\ pc = "word" /\ pc' = "scan"
    BY <1>2, <1>7 DEF Lexer!PushWord, Lexer!WordEnds
  <2>2. ~Odd(Lexer!QuotesUpTo(n))
    BY <1>2, <2>1 DEF LexQuotes
  <2>3. ~Odd(Lexer!QuotesUpTo(index))'
    BY <1>1, <2>1, <2>2, SameQuotes
  <2> QED
    BY <2>1, <2>3 DEF LexQuotes, Lexer!RefusedForCause
<1>8. CASE Lexer!OpenQuote
  <2>1. index < Len(input) /\ Lexer!Here = Quote /\ index' = m /\ pc = "scan" /\ pc' = "string"
    BY <1>2, <1>8 DEF Lexer!OpenQuote, Lexer!Sees, Lexer!AtEnd
  <2>2. Odd(Lexer!QuotesUpTo(m)) /\ m > 0
    BY <1>1, <1>2, <1>3, <2>1, ReadOne DEF Lexer!Here
  <2>3. Odd(Lexer!QuotesUpTo(index))' /\ index' > 0
    BY <1>1, <2>1, <2>2, SameQuotes
  <2> QED
    BY <2>1, <2>3 DEF LexQuotes, Lexer!RefusedForCause
<1>9. CASE Lexer!PushEnd
  <2>1. index = Len(input) /\ index' = n /\ pc = "scan" /\ pc' = "ok"
    BY <1>2, <1>9 DEF Lexer!PushEnd, Lexer!AtEnd
  <2>2. ~Odd(Lexer!QuotesUpTo(n)) \/ input[n] = Quote
    BY <1>2, <2>1 DEF LexQuotes
  <2>3. Lexer!QuotesUpTo(Len(input))' = Lexer!QuotesUpTo(n) /\ input'[n] = input[n]
    BY <1>1, <1>2, <2>1 DEF Lexer!QuotesUpTo
  <2>4. Lexer!QuotesUpTo(n) % 2 = 1 => input[n] = Quote
    BY <2>2 DEF Odd
  <2>5. Len(input)' = n
    BY <1>1, <1>2, <2>1
  <2>6. (Lexer!QuotesUpTo(Len(input)) % 2 = 1 => input[Len(input)] = Quote)'
    BY <2>3, <2>4, <2>5
  <2> QED
    BY <2>1, <2>6 DEF LexQuotes, Lexer!RefusedForCause
<1> QED
  BY <1>4, <1>5, <1>6, <1>7, <1>8, <1>9

\* In a literal and behind it.
LEMMA StringQuotes ==
  ASSUME LexInv, LexQuotes,
         \/ Lexer!StringChar \/ Lexer!CloseQuote \/ Lexer!RunOut \/ Lexer!Unterminated
         \/ Lexer!PushString
  PROVE  LexQuotes'
<1> USE LexTypes DEF LexFacts
<1>1. input' = input /\ index \in Nat
  BY DEF Lexer!StringChar, Lexer!CloseQuote, Lexer!RunOut, Lexer!Unterminated, Lexer!PushString,
         Lexer!DropBuffer
<1>2. PICK n, m, l : n = index /\ m = n + 1 /\ l = m + 1
  OBVIOUS
<1>3. pc = "string" => Odd(Lexer!QuotesUpTo(n)) /\ n > 0
  BY <1>2 DEF LexQuotes
<1>4. CASE Lexer!StringChar
  <2>1. pc = "string" /\ pc' = "string" /\ (Lexer!Here = Quote => Lexer!Escaped)
        /\ index' = index + Lexer!Passed
    BY <1>4 DEF Lexer!StringChar
  <2>2. CASE Lexer!Escaped
    <3>1. input[n + 1] = Quote /\ input[m + 1] = Quote /\ index' = l
      BY <1>1, <1>2, <2>1, <2>2 DEF Lexer!Escaped, Lexer!Sees, Lexer!Here, Lexer!NextIsQuote, Lexer!Passed
    <3>2. Odd(Lexer!QuotesUpTo(l)) /\ l > 0
      BY <1>1, <1>2, <1>3, <2>1, <3>1, ReadOne
    <3>3. Odd(Lexer!QuotesUpTo(index))' /\ index' > 0
      BY <1>1, <3>1, <3>2, SameQuotes
    <3> QED
      BY <2>1, <3>3 DEF LexQuotes, Lexer!RefusedForCause
  <2>3. CASE ~Lexer!Escaped
    <3>1. input[n + 1] # Quote /\ index' = m
      BY <1>1, <1>2, <2>1, <2>3 DEF Lexer!Here, Lexer!Passed
    <3>2. Odd(Lexer!QuotesUpTo(m)) /\ m > 0
      BY <1>1, <1>2, <1>3, <2>1, <3>1, ReadOne
    <3>3. Odd(Lexer!QuotesUpTo(index))' /\ index' > 0
      BY <1>1, <3>1, <3>2, SameQuotes
    <3> QED
      BY <2>1, <3>3 DEF LexQuotes, Lexer!RefusedForCause
  <2> QED
    BY <2>2, <2>3
<1>5. CASE Lexer!CloseQuote
  <2>1. input[n + 1] = Quote /\ index' = m /\ pc = "string" /\ pc' = "closed"
    BY <1>2, <1>5 DEF Lexer!CloseQuote, Lexer!Sees, Lexer!Here
  <2>2. ~Odd(Lexer!QuotesUpTo(m)) /\ m > 0
    BY <1>1, <1>2, <1>3, <2>1, ReadOne
  <2>3. ~Odd(Lexer!QuotesUpTo(index))' /\ index' > 0 /\ input'[index'] = Quote
    BY <1>1, <1>2, <2>1, <2>2, SameQuotes
  <2> QED
    BY <2>1, <2>3 DEF LexQuotes, Lexer!RefusedForCause
<1>6. CASE Lexer!RunOut
  <2>1. index = Len(input) /\ index' = n /\ pc = "string" /\ pc' = "closed"
    BY <1>2, <1>6 DEF Lexer!RunOut, Lexer!AtEnd
  <2>2. Odd(Lexer!QuotesUpTo(index))' /\ index' > 0 /\ index' = Len(input')
    BY <1>1, <1>2, <1>3, <2>1, SameQuotes
  <2> QED
    BY <2>1, <2>2 DEF LexQuotes, Lexer!RefusedForCause
<1>7. CASE Lexer!Unterminated
  <2>1. index' = n /\ pc = "closed" /\ pc' = "unterminated" /\ input[index] # Quote
    BY <1>2, <1>7 DEF Lexer!Unterminated, Lexer!LastIsQuote, Lexer!DropBuffer
  <2>2. Odd(Lexer!QuotesUpTo(n)) /\ n = Len(input)
    BY <1>2, <2>1 DEF LexQuotes
  <2>3. Lexer!QuotesUpTo(Len(input))' = Lexer!QuotesUpTo(n)
    BY <1>1, <2>2 DEF Lexer!QuotesUpTo
  <2>4. (Lexer!QuotesUpTo(Len(input)) % 2 = 1)'
    BY <2>2, <2>3 DEF Odd
  <2> QED
    BY <2>1, <2>4 DEF LexQuotes, Lexer!RefusedForCause
<1>8. CASE Lexer!PushString
  <2>1. index' = n /\ pc = "closed" /\ pc' = "scan" /\ input[index] = Quote
    BY <1>2, <1>8 DEF Lexer!PushString, Lexer!LastIsQuote
  <2>2. n > 0 /\ (~Odd(Lexer!QuotesUpTo(n)) \/ n = Len(input))
    BY <1>2, <2>1 DEF LexQuotes
  <2>3. Odd(Lexer!QuotesUpTo(index))' <=> Odd(Lexer!QuotesUpTo(n))
    BY <1>1, <2>1, SameQuotes
  <2>4. /\ ~Odd(Lexer!QuotesUpTo(index))' \/ n = Len(input)
        /\ index' > 0 /\ input'[index'] = Quote /\ index' = n /\ Len(input') = Len(input)
    BY <1>1, <1>2, <2>1, <2>2, <2>3
  <2> QED
    BY <2>1, <2>4 DEF LexQuotes, Lexer!RefusedForCause
<1> QED
  BY <1>4, <1>5, <1>6, <1>7, <1>8

LEMMA LexQuotesStep == LexInv /\ LexQuotes /\ Lexer!Next => LexQuotes'
<1> SUFFICES ASSUME LexInv, LexQuotes, Lexer!Next PROVE LexQuotes'
  OBVIOUS
<1>1. CASE Lexer!Step
  BY <1>1, ScanQuotes, StringQuotes DEF Lexer!Step
<1>2. CASE Lexer!Fails \/ Lexer!FreeTokens
  <2>1. pc' \in {"outOfMemory", "freed"}
    BY <1>2 DEF Lexer!Fails, Lexer!FreeTokens, Lexer!ScanFails, Lexer!WordFails, Lexer!StringCharFails,
                Lexer!PushStringFails, Lexer!PushFails, Lexer!DropBuffer
  <2> QED
    BY <2>1 DEF LexQuotes, Lexer!RefusedForCause
<1> QED
  BY <1>1, <1>2 DEF Lexer!Next

-----------------------------------------------------------------------------
(* How a token is written.                                                 *)

\* What Doubled puts together.
LexSingles(v) == [i \in 1..Len(v) |-> IF v[i] = Quote THEN <<Quote, Quote>> ELSE <<v[i]>>]

LEMMA LexSinglesType ==
  ASSUME NEW v \in Seq(Lexer!Char)
  PROVE  LexSingles(v) \in Seq(Seq(Lexer!Char)) /\ Len(LexSingles(v)) = Len(v)
<1>1. Quote \in Lexer!Char /\ \A i \in 1..Len(v) : v[i] \in Lexer!Char
  BY LexClasses
<1>2. <<Quote, Quote>> \in Seq(Lexer!Char) /\ \A c \in Lexer!Char : <<c>> \in Seq(Lexer!Char)
  BY <1>1
<1>3. \A i \in 1..Len(v) : (IF v[i] = Quote THEN <<Quote, Quote>> ELSE <<v[i]>>) \in Seq(Lexer!Char)
  BY <1>1, <1>2
<1>4. Len(v) \in Nat
  OBVIOUS
<1> QED
  BY <1>3, <1>4 DEF LexSingles

LEMMA LexDoubledType ==
  ASSUME NEW v \in Seq(Lexer!Char)
  PROVE  Lexer!Doubled(v) \in Seq(Lexer!Char) /\ Lexer!Doubled(v) = FlattenSeq(LexSingles(v))
<1> DEFINE s == LexSingles(v)
<1>1. s \in Seq(Seq(Lexer!Char)) /\ Len(s) = Len(v) /\ Len(v) \in Nat
  BY LexSinglesType
<1> DEFINE e(i) == IF v[i] = Quote THEN <<Quote, Quote>> ELSE <<v[i]>>
           UpTo(u) == u = [n \in 0..Len(v) |-> IF n = 0 THEN <<>> ELSE u[n - 1] \o e(n)]
<1>2. \A n \in 1..Len(v) : s[n] = e(n)
  BY DEF LexSingles
<1> HIDE DEF s, e
<1>3. \A u : UpTo(u) <=> u = [n \in 0..Len(s) |-> IF n = 0 THEN <<>> ELSE u[n - 1] \o s[n]]
  <2>1. \A n \in 0..Len(v) : n # 0 => n \in 1..Len(v)
    BY <1>1
  <2> QED
    BY <1>1, <1>2, <2>1
<1>4. \E u : UpTo(u)
  <2>1. \E u : u = [n \in 0..Len(s) |-> IF n = 0 THEN <<>> ELSE u[n - 1] \o s[n]]
    BY <1>1, PartsExist
  <2> QED
    BY <1>3, <2>1
<1>5. Lexer!Doubled(v) = (CHOOSE u : UpTo(u))[Len(v)]
  BY DEF Lexer!Doubled, e
<1>6. PICK u : u = CHOOSE w : UpTo(w)
  OBVIOUS
<1>7. UpTo(u)
  <2>1. UpTo(CHOOSE w : UpTo(w))
    BY <1>4, Zenon
  <2> QED
    BY <1>6, <2>1
<1>8. Lexer!Doubled(v) = FlattenSeq(s)
  <2>1. u[Len(s)] = FlattenSeq(s)
    BY <1>1, <1>3, <1>7, FlattenByParts
  <2> QED
    BY <1>1, <1>5, <1>6, <2>1
<1>9. FlattenSeq(s) \in Seq(Lexer!Char)
  BY <1>1, FlattenSeqType
<1> QED
  BY <1>8, <1>9 DEF s

LEMMA LexDoubledNothing == Lexer!Doubled(<<>>) = <<>>
<1>1. <<>> \in Seq(Lexer!Char)
  OBVIOUS
<1>2. LexSingles(<<>>) = <<>>
  BY DEF LexSingles
<1>3. FlattenSeq(<<>>) = <<>>
  <2>1. <<>> \in Seq(Seq(Lexer!Char)) /\ Len(<<>>) = 0
    OBVIOUS
  <2> QED
    BY <2>1, FlattenSeqIs
<1> QED
  BY <1>1, <1>2, <1>3, LexDoubledType

LEMMA LexDoubledAppend ==
  ASSUME NEW v \in Seq(Lexer!Char), NEW c \in Lexer!Char
  PROVE  Lexer!Doubled(Append(v, c)) =
           Lexer!Doubled(v) \o (IF c = Quote THEN <<Quote, Quote>> ELSE <<c>>)
<1>1. PICK e, s, t, n : /\ e = (IF c = Quote THEN <<Quote, Quote>> ELSE <<c>>) /\ n = Len(v)
                        /\ s = LexSingles(v) /\ t = LexSingles(Append(v, c))
  OBVIOUS
<1>2. <<Quote, Quote>> \in Seq(Lexer!Char) /\ <<c>> \in Seq(Lexer!Char)
  BY LexClasses
<1>3. e \in Seq(Lexer!Char)
  BY <1>1, <1>2
<1>4. Append(v, c) \in Seq(Lexer!Char) /\ n \in Nat /\ Len(Append(v, c)) = n + 1
  BY <1>1
<1>5. /\ s \in Seq(Seq(Lexer!Char)) /\ Len(s) = n
      /\ t \in Seq(Seq(Lexer!Char)) /\ Len(t) = n + 1
  BY <1>1, <1>4, LexSinglesType
<1>6. \A i \in 1..n : t[i] = s[i]
  BY <1>1, <1>4 DEF LexSingles
<1>7. t[n + 1] = e
  BY <1>1, <1>4 DEF LexSingles
<1>8. t = Append(s, e)
  <2>1. Append(s, e) \in Seq(Seq(Lexer!Char)) /\ Len(Append(s, e)) = Len(t)
    BY <1>3, <1>4, <1>5
  <2>2. ASSUME NEW i \in 1..Len(t) PROVE t[i] = Append(s, e)[i]
    <3>1. CASE i = n + 1
      BY <1>3, <1>4, <1>5, <1>7, <3>1
    <3>2. CASE i # n + 1
      <4>1. i \in 1..n
        BY <1>4, <1>5, <3>2
      <4> QED
        BY <1>3, <1>4, <1>5, <1>6, <4>1
    <3> QED
      BY <3>1, <3>2
  <2> QED
    BY <1>5, <2>1, <2>2, SeqEqual
<1>9. FlattenSeq(t) = FlattenSeq(s) \o e
  BY <1>3, <1>5, <1>8, FlattenAppend
<1> QED
  BY <1>1, <1>4, <1>9, LexDoubledType

\* A quoted text: its type, and its length.
LEMMA QuotedText ==
  ASSUME NEW v \in Seq(Lexer!Char)
  PROVE  /\ <<Quote>> \o Lexer!Doubled(v) \in Seq(Lexer!Char)
         /\ (<<Quote>> \o Lexer!Doubled(v)) \o <<Quote>> \in Seq(Lexer!Char)
         /\ <<Quote>> \o Lexer!Doubled(v) \o <<Quote>> = (<<Quote>> \o Lexer!Doubled(v)) \o <<Quote>>
BY LexClasses, LexDoubledType

LEMMA SpellingType ==
  ASSUME NEW t \in Lexer!Token
  PROVE  /\ Lexer!Spelling(t) \in Seq(Lexer!Char)
         /\ Lexer!EndOf(t) = t.position + Len(Lexer!Spelling(t))
         /\ Lexer!EndOf(t) \in Nat /\ t.position \in Nat /\ t.position <= Lexer!EndOf(t)
<1>1. t.position \in Nat /\ t.text \in Seq(Lexer!Char)
  BY DEF Lexer!Token
<1>2. Lexer!Spelling(t) \in Seq(Lexer!Char)
  BY <1>1, QuotedText DEF Lexer!Spelling
<1>3. Len(Lexer!Spelling(t)) \in Nat
  BY <1>2
<1> QED
  BY <1>1, <1>2, <1>3 DEF Lexer!EndOf

\* A part of a text, one character longer.
LEMMA SliceGrows ==
  ASSUME NEW X, NEW s \in Seq(X), NEW a \in Nat, NEW b \in Nat, a <= b, b < Len(s)
  PROVE  SubSeq(s, a + 1, b + 1) = SubSeq(s, a + 1, b) \o <<s[b + 1]>>
<1>1. PICK p, m, n, c : /\ p = a + 1 /\ m = b + 1 /\ n = b - a /\ c = s[m]
  OBVIOUS
<1>2. p \in Nat /\ m \in Nat /\ n \in Nat /\ m = n + p /\ b = n + p - 1 /\ p >= 1 /\ c \in X
      /\ m <= Len(s)
  BY <1>1
<1>3. SubSeq(s, p, m) \in Seq(X) /\ Len(SubSeq(s, p, m)) = n + 1
  BY <1>2, SubSeqProperties
<1>4. SubSeq(s, p, b) \in Seq(X) /\ Len(SubSeq(s, p, b)) = n
  BY <1>1, <1>2, SubSeqProperties
<1>5. PICK u, v : u = SubSeq(s, p, m) /\ v = SubSeq(s, p, b)
  OBVIOUS
<1>6. \A i \in 1..(n + 1) : u[i] = s[p + i - 1]
  BY <1>1, <1>2, <1>5, SubSeqProperties
<1>7. \A i \in 1..n : v[i] = s[p + i - 1]
  BY <1>1, <1>2, <1>5, SubSeqProperties
<1>8. Joins(v \o <<c>>, v, <<c>>, X)
  <2>1. v \in Seq(X) /\ <<c>> \in Seq(X)
    BY <1>2, <1>4, <1>5
  <2> QED
    BY <2>1, ConcatJoins
<1>9. ASSUME NEW i \in 1..(n + 1) PROVE u[i] = (v \o <<c>>)[i]
  <2>1. CASE i = n + 1
    <3>1. u[i] = c
      BY <1>1, <1>2, <1>6, <2>1
    <3>2. (v \o <<c>>)[i] = c
      BY <1>2, <1>4, <1>5, <1>8, <2>1 DEF Joins
    <3> QED
      BY <3>1, <3>2
  <2>2. CASE i # n + 1
    <3>1. i \in 1..n
      BY <1>2, <2>2
    <3>2. (v \o <<c>>)[i] = v[i]
      BY <1>4, <1>5, <1>8, <3>1 DEF Joins
    <3> QED
      BY <1>6, <1>7, <3>1, <3>2
  <2> QED
    BY <2>1, <2>2
<1>10. v \o <<c>> \in Seq(X) /\ Len(v \o <<c>>) = n + 1
  BY <1>2, <1>4, <1>5
<1> QED
  BY <1>1, <1>3, <1>5, <1>9, <1>10, SeqEqual

-----------------------------------------------------------------------------
(* The tokens that were pushed.                                            *)

LEMMA LastSame ==
  ASSUME UNCHANGED tokens
  PROVE  LastEnd' = LastEnd /\ \A types : LastIs(types)' <=> LastIs(types)
BY DEF LastEnd, LastIs

LEMMA TokensStay ==
  ASSUME LexInv, LexTokens, UNCHANGED <<input, tokens>>, index <= index', index' \in Nat,
         pc \notin {"ok", "freed"}, pc' # "ok"
  PROVE  LexTokens'
<1> USE LexTypes DEF LexFacts
<1>1. PICK s, ts, n : s = input /\ ts = tokens /\ n = Len(ts)
  OBVIOUS
<1>2. s' = s /\ ts' = ts /\ input' = s /\ tokens' = ts
  BY <1>1
<1>3. ASSUME NEW i \in 1..n PROVE Spelled(ts[i])' /\ ts[i].position <= index'
  <2>1. PICK t : t = ts[i]
    OBVIOUS
  <2>2. t \in Lexer!Token
    BY <1>1, <2>1
  <2>3. t.position \in Nat /\ t.position <= index
    BY <1>1, <2>1, <2>2 DEF LexTokens, Lexer!Token
  <2>4. Spelled(t)
    BY <1>1, <2>1 DEF LexTokens
  <2>5. Spelled(t)'
    BY <2>4 DEF Spelled
  <2> QED
    BY <2>1, <2>3, <2>5
<1>4. n > 0 => Lexer!BlankBetween(0, ts[1].position)'
  BY <1>1 DEF LexTokens, Lexer!BlankBetween
<1>5. ASSUME NEW i \in 2..n PROVE Apart(ts[i - 1], ts[i])'
  <2>1. Apart(ts[i - 1], ts[i])
    BY <1>1 DEF LexTokens
  <2> QED
    BY <2>1 DEF Apart, Lexer!BlankBetween
<1>6. \A i \in 1..n : ts[i].type # "END"
  BY <1>1 DEF LexTokens
<1> QED
  BY <1>1, <1>2, <1>3, <1>4, <1>5, <1>6 DEF LexTokens

\* What a token must be for its place behind the others.
Fits(t) ==
  /\ Spelled(t)
  /\ Lexer!BlankBetween(LastEnd, t.position)
  /\ LastIs(WordTypes) /\ Lexer!IsWord(t) => LastEnd < t.position
  /\ LastIs({"STRING"}) /\ t.type = "STRING" => LastEnd < t.position

LEMMA PushFits ==
  ASSUME LexInv, LexTokens, NEW t \in Lexer!Token, tokens' = Append(tokens, t), UNCHANGED input,
         index' \in Nat, index <= index', pc \notin {"ok", "freed"}, pc' \in {"scan", "ok"},
         pc' = "ok" <=> t.type = "END", pc' = "ok" => t.position = Len(input),
         t.position <= index', Fits(t)
  PROVE  /\ LexTokens'
         /\ LastEnd' = Lexer!EndOf(t) /\ \A types : LastIs(types)' <=> t.type \in types
<1> USE LexTypes DEF LexFacts
<1>1. PICK s, ts, us, n, m : /\ s = input /\ ts = tokens /\ us = Append(ts, t) /\ n = Len(ts)
                             /\ m = n + 1
  OBVIOUS
<1>2. input' = s /\ tokens' = us /\ us \in Seq(Lexer!Token) /\ n \in Nat
  BY <1>1
<1>3. Len(us) = m /\ us[m] = t /\ \A i \in 1..n : us[i] = ts[i] /\ us[i] \in Lexer!Token
  BY <1>1, AppendProperties
<1>4. Spelled(t)' /\ \A a : Lexer!BlankBetween(a, t.position)' <=> Lexer!BlankBetween(a, t.position)
  BY DEF Fits, Spelled, Lexer!BlankBetween
<1>5. ASSUME NEW i \in 1..m PROVE Spelled(us[i])' /\ us[i].position <= index'
  <2>1. CASE i = m
    BY <1>3, <1>4, <2>1
  <2>2. CASE i # m
    <3>1. PICK u : u = us[i]
      OBVIOUS
    <3>2. i \in 1..n /\ u \in Lexer!Token /\ u = ts[i]
      BY <1>1, <1>2, <1>3, <2>2, <3>1
    <3>3. u.position \in Nat /\ u.position <= index
      BY <1>1, <3>2 DEF LexTokens, Lexer!Token
    <3>4. Spelled(u)
      BY <1>1, <3>2 DEF LexTokens
    <3>5. Spelled(u)'
      BY <3>4 DEF Spelled
    <3> QED
      BY <3>1, <3>3, <3>5
  <2> QED
    BY <2>1, <2>2
<1>6. Lexer!BlankBetween(0, us[1].position)'
  <2>1. CASE n = 0
    <3>1. us[1] = t /\ LastEnd = 0
      BY <1>1, <1>3, <2>1 DEF LastEnd
    <3> QED
      BY <1>4, <3>1 DEF Fits
  <2>2. CASE n > 0
    <3>1. us[1] = ts[1]
      BY <1>2, <1>3, <2>2
    <3>2. Lexer!BlankBetween(0, ts[1].position)
      BY <1>1, <2>2 DEF LexTokens
    <3> QED
      BY <3>1, <3>2 DEF Lexer!BlankBetween
  <2> QED
    BY <1>2, <2>1, <2>2
<1>7. ASSUME NEW i \in 2..m PROVE Apart(us[i - 1], us[i])'
  <2>1. CASE i = m
    <3>1. i - 1 = n /\ n \in 1..n /\ us[i] = t /\ us[i - 1] = ts[n]
      BY <1>1, <1>2, <1>3, <2>1
    <3>2. PICK u : u = ts[n]
      OBVIOUS
    <3>3. /\ LastEnd = Lexer!EndOf(u)
          /\ LastIs(WordTypes) <=> u.type \in WordTypes
          /\ LastIs({"STRING"}) <=> u.type = "STRING"
      BY <1>1, <3>1, <3>2 DEF LastEnd, LastIs
    <3>4. Lexer!BlankBetween(Lexer!EndOf(u), t.position)'
      BY <1>4, <3>3 DEF Fits
    <3>5. /\ Lexer!IsWord(u) /\ Lexer!IsWord(t) => Lexer!EndOf(u) < t.position
          /\ u.type = "STRING" /\ t.type = "STRING" => Lexer!EndOf(u) < t.position
      BY <3>3 DEF Fits, WordTypes, Lexer!IsWord
    <3>6. Apart(u, t)'
      BY <3>4, <3>5 DEF Apart
    <3> QED
      BY <3>1, <3>2, <3>6
  <2>2. CASE i # m
    <3>1. i \in 2..n /\ us[i] = ts[i] /\ us[i - 1] = ts[i - 1]
      BY <1>1, <1>2, <1>3, <2>2
    <3>2. Apart(ts[i - 1], ts[i])
      BY <1>1, <3>1 DEF LexTokens
    <3> QED
      BY <3>1, <3>2 DEF Apart, Lexer!BlankBetween
  <2> QED
    BY <2>1, <2>2
<1>8. \A i \in 1..n : us[i].type # "END"
  BY <1>1, <1>3 DEF LexTokens
<1>9. LastEnd' = Lexer!EndOf(t) /\ \A types : LastIs(types)' <=> t.type \in types
  BY <1>1, <1>2, <1>3 DEF LastEnd, LastIs
<1>10. \A i \in 1..m : t.type # "END" => us[i].type # "END"
  BY <1>1, <1>2, <1>3, <1>8
<1>11. m > 0 /\ m - 1 = n
  BY <1>1, <1>2
<1>12. pc' = "ok" =>
         /\ LastIs({"END"})' /\ us[m].position = Len(input)
         /\ \A i \in 1..(m - 1) : us[i].type # "END"
  BY <1>3, <1>8, <1>9, <1>11
<1> QED
  BY <1>2, <1>3, <1>5, <1>6, <1>7, <1>9, <1>10, <1>11, <1>12 DEF LexTokens

\* The text behind the token that was pushed last.
LEMMA BlankBehind ==
  ASSUME LastEnd \in Nat, index \in Nat, index <= LastEnd, LastEnd <= index \/ index = Len(input)
  PROVE  BlankTo(index)
<1>1. \A i \in (LastEnd + 1)..index : FALSE
  OBVIOUS
<1> QED
  BY <1>1 DEF BlankTo, Lexer!BlankBetween

LEMMA SliceOne ==
  ASSUME NEW X, NEW s \in Seq(X), NEW b \in Nat, b < Len(s)
  PROVE  SubSeq(s, b + 1, b + 1) = <<s[b + 1]>> /\ s[b + 1] \in X
<1>1. PICK p, c : p = b + 1 /\ c = s[p]
  OBVIOUS
<1>2. p \in Int /\ p \in 1..Len(s) /\ c \in X /\ \A i \in p..p : s[i] \in X
  BY <1>1
<1>3. SubSeq(s, p, p) \in Seq(X) /\ Len(SubSeq(s, p, p)) = 1
  BY <1>2, SubSeqProperties
<1>4. SubSeq(s, p, p)[1] = c
  BY <1>1, <1>2, SubSeqProperties
<1>5. <<c>> \in Seq(X) /\ Len(<<c>>) = 1 /\ \A i \in 1..1 : i = 1 /\ <<c>>[1] = c
  BY <1>2
<1>6. SubSeq(s, p, p) = <<c>>
  BY <1>3, <1>4, <1>5, SeqEqual
<1> QED
  BY <1>1, <1>2, <1>6

LEMMA LastEndType == ASSUME LexInv PROVE LastEnd \in Nat
<1>1. Len(tokens) # 0 => tokens[Len(tokens)] \in Lexer!Token
  BY LexTypes DEF LexFacts
<1> QED
  BY <1>1, SpellingType DEF LastEnd

LEMMA LiteralType ==
  ASSUME LexInv
  PROVE  Literal \in Seq(Lexer!Char) /\ Opened \in Seq(Lexer!Char)
<1>1. Literal \in Seq(Lexer!Char)
  BY LexTypes DEF LexFacts, Literal
<1> QED
  BY <1>1, QuotedText DEF Opened

\* A blank is passed, or a word or a literal begins, or a word goes on.
LEMMA MoveText ==
  ASSUME LexInv, LexInv', LexTokens, LexPlace,
         Lexer!SkipBlank \/ Lexer!StartWord \/ Lexer!WordChar \/ Lexer!OpenQuote
  PROVE  LexTokens' /\ LexPlace'
<1> USE LexTypes DEF LexFacts
<1>1. /\ UNCHANGED <<input, tokens, buffer>> /\ index < Len(input) /\ pc \in {"scan", "word"}
      /\ index' \in {index, index + 1} /\ pc' \in {"scan", "word", "string"}
  BY DEF Lexer!SkipBlank, Lexer!StartWord, Lexer!WordChar, Lexer!OpenQuote, Lexer!Sees, Lexer!AtEnd
<1>2. LexTokens'
  BY <1>1, TokensStay
<1>3. LastEnd' = LastEnd /\ (\A types : LastIs(types)' <=> LastIs(types)) /\ LastEnd \in Nat
  BY <1>1, LastSame, LastEndType
<1>4. PICK n, m, e : n = index /\ m = n + 1 /\ e = LastEnd
  OBVIOUS
<1>5. n \in Nat /\ m \in Nat /\ e \in Nat /\ n < Len(input)
  BY <1>1, <1>3, <1>4
<1>6. pc = "scan" => e <= n /\ \A i \in (e + 1)..n : input[i] \in BlankChars
  BY <1>1, <1>4, <1>5 DEF LexPlace, BlankTo, Lexer!BlankBetween
<1>7. CASE Lexer!SkipBlank
  <2>1. pc = "scan" /\ pc' = "scan" /\ index' = m /\ input[m] \in BlankChars
    BY <1>4, <1>7 DEF Lexer!SkipBlank, Lexer!Sees, Lexer!Here
  <2>2. \A i \in (e + 1)..m : i = m \/ i \in (e + 1)..n
    BY <1>4, <1>5
  <2>3. e < m /\ \A i \in (e + 1)..m : input[i] \in BlankChars
    BY <1>4, <1>5, <1>6, <2>1, <2>2
  <2>4. BlankTo(index)'
    BY <1>1, <1>3, <1>4, <1>5, <2>1, <2>3 DEF BlankTo, Lexer!BlankBetween
  <2>5. LastEnd' # index'
    BY <1>3, <1>4, <1>5, <2>1, <2>3
  <2> QED
    BY <1>2, <2>1, <2>4, <2>5 DEF LexPlace
<1>8. CASE Lexer!StartWord \/ Lexer!OpenQuote
  <2>1. pc = "scan" /\ start' = n
    BY <1>4, <1>8 DEF Lexer!StartWord, Lexer!OpenQuote
  <2>2. BlankTo(start)'
    BY <1>1, <1>3, <1>4, <1>5, <1>6, <2>1 DEF BlankTo, Lexer!BlankBetween
  <2>3. LastEnd' <= start'
    BY <1>3, <1>4, <1>6, <2>1
  <2>4. CASE Lexer!StartWord
    <3>1. pc' = "word" /\ Lexer!Sees(WordChars)
      BY <2>4 DEF Lexer!StartWord, WordChars
    <3>2. LastIs(WordTypes) => LastEnd # index
      BY <2>1, <3>1 DEF LexPlace
    <3>3. LastIs(WordTypes)' => LastEnd' < start'
      BY <1>3, <1>4, <1>5, <1>6, <2>1, <3>2
    <3> QED
      BY <1>2, <2>2, <2>3, <3>1, <3>3 DEF LexPlace
  <2>5. CASE Lexer!OpenQuote
    <3>1. pc' = "string" /\ Lexer!Sees({Quote}) /\ index' = m
      BY <1>4, <2>5 DEF Lexer!OpenQuote
    <3>2. LastIs({"STRING"}) => LastEnd # index
      BY <2>1, <3>1 DEF LexPlace
    <3>3. LastIs({"STRING"})' => LastEnd' < start'
      BY <1>3, <1>4, <1>5, <1>6, <2>1, <3>2
    <3>4. SubSeq(input, n + 1, m) = <<Quote>>
      BY <1>4, <1>5, <3>1, SliceOne DEF Lexer!Sees, Lexer!Here
    <3>5. buffer' = Null
      BY <1>1, <2>1 DEF LexInv
    <3>6. Literal' = <<>>
      BY <3>5 DEF Literal
    <3>7. Opened' = <<Quote>>
      <4>1. <<Quote>> \in Seq(Lexer!Char)
        BY LexClasses
      <4>2. Opened' = <<Quote>> \o <<>>
        BY <3>6, LexDoubledNothing DEF Opened
      <4> QED
        BY <4>1, <4>2
    <3>8. (SubSeq(input, start + 1, index) = Opened)'
      BY <1>1, <1>4, <2>1, <3>1, <3>4, <3>7
    <3> QED
      BY <1>2, <2>2, <2>3, <3>1, <3>3, <3>8 DEF LexPlace
  <2> QED
    BY <1>8, <2>4, <2>5
<1>9. CASE Lexer!WordChar
  <2>1. pc = "word" /\ pc' = "word" /\ start' = start
    BY <1>9 DEF Lexer!WordChar
  <2>2. BlankTo(start) /\ LastEnd <= start /\ (LastIs(WordTypes) => LastEnd < start)
    BY <2>1 DEF LexPlace
  <2>3. BlankTo(start)' /\ LastEnd' <= start' /\ (LastIs(WordTypes)' => LastEnd' < start')
    BY <1>1, <1>3, <2>1, <2>2 DEF BlankTo, Lexer!BlankBetween
  <2> QED
    BY <1>2, <2>1, <2>3 DEF LexPlace
<1> QED
  BY <1>7, <1>8, <1>9

\* A character of a literal is read, with the two quotes that one stands for.
LEMMA StringCharText ==
  ASSUME LexInv, LexInv', LexTokens, LexPlace, Lexer!StringChar
  PROVE  LexTokens' /\ LexPlace'
<1> USE LexTypes DEF LexFacts
<1>1. /\ UNCHANGED <<input, tokens, start>> /\ index < Len(input) /\ pc = "string" /\ pc' = "string"
      /\ index' = index + Lexer!Passed /\ (Lexer!Here = Quote => Lexer!Escaped)
      /\ buffer' = IF buffer = Null THEN <<Lexer!Here>> ELSE Append(buffer, Lexer!Here)
  BY DEF Lexer!StringChar, Lexer!AtEnd
<1>2. index' \in Nat /\ index <= index'
  BY <1>1 DEF Lexer!Passed
<1>3. LexTokens'
  BY <1>1, <1>2, TokensStay
<1>4. LastEnd' = LastEnd /\ (\A types : LastIs(types)' <=> LastIs(types)) /\ LastEnd \in Nat
  BY <1>1, LastSame, LastEndType
<1>5. BlankTo(start)' /\ LastEnd' <= start' /\ (LastIs({"STRING"})' => LastEnd' < start')
  <2>1. BlankTo(start) /\ LastEnd <= start /\ (LastIs({"STRING"}) => LastEnd < start)
    BY <1>1 DEF LexPlace
  <2> QED
    BY <1>1, <1>4, <2>1 DEF BlankTo, Lexer!BlankBetween
<1>6. PICK s, a, n, m, l, c, v, q :
        /\ s = input /\ a = start /\ n = index /\ m = n + 1 /\ l = m + 1 /\ c = s[m]
        /\ v = Literal /\ q = SubSeq(s, a + 1, n)
  OBVIOUS
<1>7. /\ s \in Seq(Lexer!Char) /\ a \in Nat /\ n \in Nat /\ m \in Nat /\ a <= n /\ n < Len(s)
      /\ c \in Lexer!Char /\ c = Lexer!Here
  <2>1. s \in Seq(Lexer!Char) /\ a \in Nat /\ n \in Nat /\ a <= n /\ n < Len(s)
    BY <1>1, <1>6
  <2>2. m \in Nat /\ m \in 1..Len(s)
    BY <1>6, <2>1
  <2>3. c = Lexer!Here
    BY <1>6 DEF Lexer!Here
  <2>4. c \in Lexer!Char
    <3>1. PICK X : X = Lexer!Char
      OBVIOUS
    <3>2. s \in Seq(X) /\ m \in 1..Len(s) => s[m] \in X
      OBVIOUS
    <3> QED
      BY <1>6, <2>1, <2>2, <3>1, <3>2
  <2> QED
    BY <1>6, <2>1, <2>2, <2>3, <2>4
<1>8. v \in Seq(Lexer!Char) /\ <<Quote>> \o Lexer!Doubled(v) \in Seq(Lexer!Char)
  BY <1>6, LiteralType, QuotedText
<1>9. q = <<Quote>> \o Lexer!Doubled(v)
  BY <1>1, <1>6 DEF LexPlace, Opened
<1>10. Literal' = Append(v, c)
  <2>1. buffer' # Null
    <3>1. <<c>> \in Seq(Lexer!Char)
      BY <1>7
    <3>2. buffer # Null => Append(buffer, c) \in Seq(Lexer!Char)
      BY <1>7
    <3> QED
      BY <1>1, <1>7, <3>1, <3>2
  <2>2. CASE buffer = Null
    <3>1. v = <<>> /\ buffer' = <<c>>
      BY <1>1, <1>6, <1>7, <2>2 DEF Literal
    <3> QED
      BY <2>1, <3>1 DEF Literal
  <2>3. CASE buffer # Null
    <3>1. v = buffer /\ buffer' = Append(buffer, c)
      BY <1>1, <1>6, <1>7, <2>3 DEF Literal
    <3> QED
      BY <2>1, <3>1 DEF Literal
  <2> QED
    BY <2>2, <2>3
<1>11. PICK e : e = IF c = Quote THEN <<Quote, Quote>> ELSE <<c>>
  OBVIOUS
<1>12. <<Quote>> \in Seq(Lexer!Char) /\ <<Quote, Quote>> \in Seq(Lexer!Char) /\ <<c>> \in Seq(Lexer!Char)
  BY <1>7, LexClasses
<1>13. Opened' = q \o e
  <2>1. Lexer!Doubled(Append(v, c)) = Lexer!Doubled(v) \o e
    BY <1>7, <1>8, <1>11, LexDoubledAppend
  <2>2. Opened' = <<Quote>> \o (Lexer!Doubled(v) \o e)
    BY <1>10, <2>1 DEF Opened
  <2>3. Lexer!Doubled(v) \in Seq(Lexer!Char) /\ e \in Seq(Lexer!Char)
    BY <1>8, <1>11, <1>12, LexDoubledType
  <2>4. (<<Quote>> \o Lexer!Doubled(v)) \o e = <<Quote>> \o (Lexer!Doubled(v) \o e)
    <3>1. PICK d, f, X : d = Lexer!Doubled(v) /\ f = <<Quote>> /\ X = Lexer!Char
      OBVIOUS
    <3>2. f \in Seq(X) /\ d \in Seq(X) /\ e \in Seq(X)
      BY <1>12, <2>3, <3>1
    <3>3. (f \o d) \o e = f \o (d \o e)
      BY ONLY <3>2, ConcatAssociative
    <3> QED
      BY <3>1, <3>3
  <2> QED
    BY <1>9, <2>2, <2>4
<1>14. SubSeq(s, a + 1, m) = q \o <<c>>
  <2>1. SubSeq(s, a + 1, n + 1) = SubSeq(s, a + 1, n) \o <<s[n + 1]>>
    BY <1>7, SliceGrows
  <2> QED
    BY <1>6, <2>1
<1>15. SubSeq(input', start' + 1, index') = q \o e
  <2>1. CASE Lexer!Escaped
    <3>1. c = Quote /\ m < Len(s) /\ s[l] = Quote /\ index' = l
      BY <1>1, <1>6, <1>7, <2>1
         DEF Lexer!Escaped, Lexer!Sees, Lexer!NextIsQuote, Lexer!Passed
    <3>2. SubSeq(s, a + 1, l) = SubSeq(s, a + 1, m) \o <<s[l]>>
      BY <1>6, <1>7, <3>1, SliceGrows
    <3>3. SubSeq(s, a + 1, l) = (q \o <<Quote>>) \o <<Quote>>
      BY <1>14, <3>1, <3>2
    <3>4. (q \o <<Quote>>) \o <<Quote>> = q \o (<<Quote>> \o <<Quote>>)
      <4>1. PICK X : X = Lexer!Char
        OBVIOUS
      <4>2. q \in Seq(X) /\ <<Quote>> \in Seq(X)
        BY <1>8, <1>9, <1>12, <4>1
      <4> QED
        BY <4>2, ConcatAssociative
    <3>5. <<Quote>> \o <<Quote>> = <<Quote, Quote>>
      <4>1. PICK u : u = <<Quote>> \o <<Quote>>
        OBVIOUS
      <4>2. Joins(u, <<Quote>>, <<Quote>>, Lexer!Char)
        BY <1>12, <4>1, ConcatJoins
      <4>3. u \in Seq(Lexer!Char) /\ Len(u) = 2 /\ u[1] = Quote /\ u[2] = Quote
        BY <4>2 DEF Joins
      <4>4. u = <<Quote, Quote>>
        BY <1>12, <4>3, SeqEqual
      <4> QED
        BY <4>1, <4>4
    <3> QED
      BY <1>1, <1>6, <1>11, <3>1, <3>3, <3>4, <3>5
  <2>2. CASE ~Lexer!Escaped
    <3>1. c # Quote /\ index' = m
      BY <1>1, <1>6, <1>7, <2>2 DEF Lexer!Passed
    <3> QED
      BY <1>1, <1>6, <1>11, <1>14, <3>1
  <2> QED
    BY <2>1, <2>2
<1>16. (SubSeq(input, start + 1, index) = Opened)'
  BY <1>13, <1>15
<1> QED
  BY <1>1, <1>3, <1>5, <1>16 DEF LexPlace

\* A literal is closed, or the text ends in it.
LEMMA CloseText ==
  ASSUME LexInv, LexInv', LexTokens, LexPlace, Lexer!CloseQuote \/ Lexer!RunOut
  PROVE  LexTokens' /\ LexPlace'
<1> USE LexTypes DEF LexFacts
<1>1. /\ UNCHANGED <<input, tokens, start, buffer>> /\ pc = "string" /\ pc' = "closed"
      /\ index' \in {index, index + 1}
  BY DEF Lexer!CloseQuote, Lexer!RunOut
<1>2. LexTokens'
  BY <1>1, TokensStay
<1>3. LastEnd' = LastEnd /\ (\A types : LastIs(types)' <=> LastIs(types)) /\ LastEnd \in Nat
  BY <1>1, LastSame, LastEndType
<1>4. BlankTo(start)' /\ LastEnd' <= start' /\ (LastIs({"STRING"})' => LastEnd' < start')
  <2>1. BlankTo(start) /\ LastEnd <= start /\ (LastIs({"STRING"}) => LastEnd < start)
    BY <1>1 DEF LexPlace
  <2> QED
    BY <1>1, <1>3, <2>1 DEF BlankTo, Lexer!BlankBetween
<1>5. SubSeq(input, start + 1, index) = Opened /\ Opened' = Opened
  BY <1>1 DEF LexPlace, Opened, Literal
<1>6. CASE Lexer!CloseQuote
  <2>1. PICK s, a, n, m : s = input /\ a = start /\ n = index /\ m = n + 1
    OBVIOUS
  <2>2. /\ s \in Seq(Lexer!Char) /\ a \in Nat /\ n \in Nat /\ a <= n /\ n < Len(s)
        /\ s[m] = Quote /\ index' = m
        /\ ~(m < Len(s) /\ s[m + 1] = Quote)
    BY <1>6, <2>1 DEF Lexer!CloseQuote, Lexer!Sees, Lexer!AtEnd, Lexer!Here, Lexer!NextIsQuote
  <2>3. SubSeq(s, a + 1, m) = SubSeq(s, a + 1, n) \o <<Quote>>
    BY <2>1, <2>2, SliceGrows
  <2>4. (SubSeq(input, start + 1, index) = Opened \o <<Quote>>)'
    BY <1>1, <1>5, <2>1, <2>2, <2>3
  <2>5. ~Lexer!Sees({Quote})'
    BY <1>1, <2>1, <2>2 DEF Lexer!Sees, Lexer!AtEnd, Lexer!Here
  <2> QED
    BY <1>1, <1>2, <1>4, <2>4, <2>5 DEF LexPlace
<1>7. CASE Lexer!RunOut
  <2>1. index' = index /\ index = Len(input)
    BY <1>7 DEF Lexer!RunOut, Lexer!AtEnd
  <2>2. (SubSeq(input, start + 1, index) = Opened /\ index = Len(input))'
    BY <1>1, <1>5, <2>1
  <2> QED
    BY <1>1, <1>2, <1>4, <2>2 DEF LexPlace
<1> QED
  BY <1>6, <1>7

\* A token is pushed that ends where the lexer goes on, or lacks its quote.
Pushes(t) ==
  /\ t \in Lexer!Token /\ Fits(t) /\ tokens' = Append(tokens, t) /\ input' = input
  /\ pc \notin {"ok", "freed"} /\ pc' \in {"scan", "ok"} /\ (pc' = "ok" <=> t.type = "END")
  /\ pc' = "ok" => t.position = Len(input)
  /\ t.position <= index' /\ index <= index' /\ index' <= Lexer!EndOf(t)
  /\ Lexer!EndOf(t) <= index' \/ index' = Len(input)
  /\ t.type \in WordTypes => ~Lexer!Sees(WordChars)'
  /\ t.type = "STRING" => ~Lexer!Sees({Quote})'

LEMMA PushText ==
  ASSUME LexInv, LexInv', LexTokens, NEW t, Pushes(t)
  PROVE  LexTokens' /\ LexPlace'
<1> USE DEF Pushes
<1>1. index' \in Nat /\ index \in Nat
  BY LexTypes DEF LexFacts, LexInv, Lexer!TypeOK
<1>2. /\ LexTokens'
      /\ LastEnd' = Lexer!EndOf(t) /\ \A types : LastIs(types)' <=> t.type \in types
  BY <1>1, PushFits
<1>3. Lexer!EndOf(t) \in Nat
  BY SpellingType
<1>4. BlankTo(index)'
  <2>1. \A i \in (LastEnd' + 1)..index' : FALSE
    BY <1>1, <1>2, <1>3
  <2>2. LastEnd' <= index' \/ index' = Len(input')
    BY <1>2
  <2> QED
    BY <2>1, <2>2 DEF BlankTo, Lexer!BlankBetween
<1>5. /\ LastIs(WordTypes)' => ~Lexer!Sees(WordChars)'
      /\ LastIs({"STRING"})' => ~Lexer!Sees({Quote})'
  BY <1>2
<1> QED
  BY <1>2, <1>4, <1>5 DEF LexPlace

LEMMA SymbolText ==
  ASSUME LexInv, LexInv', LexTokens, LexPlace, Lexer!PushSymbol
  PROVE  LexTokens' /\ LexPlace'
<1> USE LexTypes DEF LexFacts
<1>1. PICK s, n, m, c, t : /\ s = input /\ n = index /\ m = n + 1 /\ c = s[m]
                           /\ t = [type |-> c, text |-> <<c>>, position |-> n]
  OBVIOUS
<1>2. /\ s \in Seq(Lexer!Char) /\ n \in Nat /\ m \in Nat /\ n < Len(s)
      /\ c \in Symbol /\ c \in Lexer!Char /\ pc = "scan" /\ pc' = "scan" /\ index' = m
      /\ tokens' = Append(tokens, t) /\ UNCHANGED input
  <2>1. c = Lexer!Here
    BY <1>1 DEF Lexer!Here
  <2> QED
    BY <1>1, <2>1 DEF Lexer!PushSymbol, Lexer!PushToken, Lexer!Sees, Lexer!AtEnd, Lexer!Char
<1>3. t \in Lexer!Token /\ t.type = c /\ t.text = <<c>> /\ t.position = n
  BY <1>1, <1>2 DEF Lexer!Token
<1>4. c \notin {"IDENTIFIER", "NUMBER", "STRING", "END"}
  BY <1>2, LexClasses
<1>5. Lexer!Spelling(t) = <<c>> /\ Lexer!EndOf(t) = m
  <2>1. Lexer!Spelling(t) = <<c>>
    BY <1>3, <1>4 DEF Lexer!Spelling
  <2> QED
    BY <1>1, <1>3, <2>1 DEF Lexer!EndOf
<1>6. Spelled(t)
  <2>1. SubSeq(s, n + 1, n + 1) = <<s[n + 1]>>
    BY <1>2, SliceOne
  <2>2. SubSeq(input, t.position + 1, Lexer!EndOf(t)) = Lexer!Spelling(t)
    BY <1>1, <1>3, <1>5, <2>1
  <2>3. Lexer!EndOf(t) <= Len(input)
    BY <1>1, <1>2, <1>5
  <2> QED
    BY <2>2, <2>3 DEF Spelled
<1>7. Fits(t)
  <2>1. BlankTo(index)
    BY <1>2 DEF LexPlace
  <2> QED
    BY <1>1, <1>3, <1>4, <1>6, <2>1 DEF Fits, BlankTo, Lexer!IsWord
<1>8. Pushes(t)
  BY <1>1, <1>2, <1>3, <1>4, <1>5, <1>7 DEF Pushes, WordTypes
<1> QED
  BY <1>8, PushText

LEMMA EndText ==
  ASSUME LexInv, LexInv', LexTokens, LexPlace, Lexer!PushEnd
  PROVE  LexTokens' /\ LexPlace'
<1> USE LexTypes DEF LexFacts
<1>1. PICK s, n, t : /\ s = input /\ n = index
                     /\ t = [type |-> "END", text |-> <<>>, position |-> n]
  OBVIOUS
<1>2. /\ n \in Nat /\ n = Len(s) /\ pc = "scan" /\ pc' = "ok" /\ index' = n
      /\ tokens' = Append(tokens, t) /\ UNCHANGED input
  BY <1>1 DEF Lexer!PushEnd, Lexer!PushToken, Lexer!AtEnd
<1>3. t \in Lexer!Token /\ t.type = "END" /\ t.text = <<>> /\ t.position = n
  BY <1>1, <1>2 DEF Lexer!Token
<1>4. Lexer!Spelling(t) = <<>> /\ Lexer!EndOf(t) = n
  <2>1. Lexer!Spelling(t) = <<>>
    BY <1>3 DEF Lexer!Spelling
  <2> QED
    BY <1>2, <1>3, <2>1 DEF Lexer!EndOf
<1>5. Spelled(t)
  <2>1. SubSeq(s, n + 1, n) = <<>>
    BY <1>2
  <2> QED
    BY <1>1, <1>2, <1>3, <1>4, <2>1 DEF Spelled
<1>6. Fits(t)
  <2>1. BlankTo(index)
    BY <1>2 DEF LexPlace
  <2> QED
    BY <1>1, <1>3, <1>5, <2>1 DEF Fits, BlankTo, Lexer!IsWord
<1>7. Pushes(t)
  <2>1. /\ t.position <= index' /\ index <= index' /\ index' <= Lexer!EndOf(t)
        /\ Lexer!EndOf(t) <= index'
    BY <1>1, <1>2, <1>3, <1>4
  <2>2. pc \notin {"ok", "freed"} /\ pc' \in {"scan", "ok"} /\ t.type \notin WordTypes \cup {"STRING"}
    BY <1>2, <1>3 DEF WordTypes
  <2> QED
    BY <1>1, <1>2, <1>3, <1>6, <2>1, <2>2 DEF Pushes
<1> QED
  BY <1>7, PushText

LEMMA WordText ==
  ASSUME LexInv, LexInv', LexTokens, LexPlace, Lexer!PushWord
  PROVE  LexTokens' /\ LexPlace'
<1> USE LexTypes DEF LexFacts
<1>1. PICK s, a, n, w, t : /\ s = input /\ a = start /\ n = index /\ w = SubSeq(s, a + 1, n)
                           /\ t = [type |-> Lexer!WordType(w), text |-> w, position |-> a]
  OBVIOUS
<1>2. /\ s \in Seq(Lexer!Char) /\ a \in Nat /\ n \in Nat /\ a <= n /\ n <= Len(s)
      /\ pc = "word" /\ pc' = "scan" /\ index' = n /\ ~Lexer!Sees(WordChars)
      /\ tokens' = Append(tokens, t) /\ UNCHANGED input
  BY <1>1 DEF Lexer!PushWord, Lexer!PushToken, Lexer!WordEnds, WordChars
<1>3. w \in Seq(Lexer!Char) /\ Len(w) = n - a
  BY <1>1, <1>2
<1>4. t \in Lexer!Token /\ t.type \in WordTypes /\ t.text = w /\ t.position = a
  BY <1>1, <1>2, <1>3 DEF Lexer!Token, Lexer!WordType, WordTypes
<1>5. Lexer!Spelling(t) = w /\ Lexer!EndOf(t) = n
  <2>1. Lexer!Spelling(t) = w
    BY <1>4 DEF Lexer!Spelling, WordTypes
  <2> QED
    BY <1>2, <1>3, <1>4, <2>1 DEF Lexer!EndOf
<1>6. Spelled(t)
  BY <1>1, <1>2, <1>4, <1>5 DEF Spelled
<1>7. Fits(t)
  <2>1. BlankTo(start) /\ (LastIs(WordTypes) => LastEnd < start)
    BY <1>2 DEF LexPlace
  <2> QED
    BY <1>1, <1>4, <1>6, <2>1 DEF Fits, BlankTo, Lexer!IsWord, WordTypes
<1>8. ~Lexer!Sees(WordChars)'
  BY <1>1, <1>2 DEF Lexer!Sees, Lexer!AtEnd, Lexer!Here
<1>9. t.type \notin {"STRING", "END"}
  BY <1>4 DEF WordTypes
<1>10. Pushes(t)
  <2>1. /\ t.position <= index' /\ index <= index' /\ index' <= Lexer!EndOf(t)
        /\ Lexer!EndOf(t) <= index'
    BY <1>1, <1>2, <1>4, <1>5
  <2>2. pc \notin {"ok", "freed"} /\ pc' \in {"scan", "ok"} /\ pc' # "ok"
    BY <1>2
  <2> QED
    BY <1>1, <1>2, <1>4, <1>7, <1>8, <1>9, <2>1, <2>2 DEF Pushes
<1> QED
  BY <1>10, PushText

LEMMA StringText ==
  ASSUME LexInv, LexInv', LexTokens, LexPlace, Lexer!PushString
  PROVE  LexTokens' /\ LexPlace'
<1> USE LexTypes DEF LexFacts
<1>1. PICK s, a, n, v, q, t : /\ s = input /\ a = start /\ n = index /\ v = Literal
                              /\ q = SubSeq(s, a + 1, n)
                              /\ t = [type |-> "STRING", text |-> v, position |-> a]
  OBVIOUS
<1>2. /\ s \in Seq(Lexer!Char) /\ a \in Nat /\ n \in Nat /\ a <= n /\ n <= Len(s)
      /\ pc = "closed" /\ pc' = "scan" /\ index' = n
      /\ tokens' = Append(tokens, t) /\ UNCHANGED input
  BY <1>1 DEF Lexer!PushString, Lexer!PushToken, Literal
<1>3. v \in Seq(Lexer!Char) /\ Opened \in Seq(Lexer!Char) /\ Opened = <<Quote>> \o Lexer!Doubled(v)
  BY <1>1, LiteralType DEF Opened
<1>4. q \in Seq(Lexer!Char) /\ Len(q) = n - a
  BY <1>1, <1>2
<1>5. t \in Lexer!Token /\ t.type = "STRING" /\ t.text = v /\ t.position = a
  BY <1>1, <1>2, <1>3 DEF Lexer!Token
<1>6. PICK o : o = Opened
  OBVIOUS
<1>7. Lexer!Spelling(t) = o \o <<Quote>> /\ o \in Seq(Lexer!Char)
  <2>1. Lexer!Spelling(t) = <<Quote>> \o Lexer!Doubled(v) \o <<Quote>>
    BY <1>5 DEF Lexer!Spelling
  <2> QED
    BY <1>3, <1>6, <2>1, QuotedText
<1>8. Len(o \o <<Quote>>) = Len(o) + 1 /\ Len(o) \in Nat
  <2>1. <<Quote>> \in Seq(Lexer!Char) /\ Len(<<Quote>>) = 1
    BY LexClasses
  <2> QED
    BY <1>7, <2>1
<1>9. \/ q = o \o <<Quote>> /\ ~Lexer!Sees({Quote})
      \/ q = o /\ n = Len(s)
  BY <1>1, <1>2, <1>6 DEF LexPlace
<1>10. /\ n <= Lexer!EndOf(t) /\ (Lexer!EndOf(t) <= n \/ n = Len(s)) /\ Spelled(t)
  <2>1. CASE q = o \o <<Quote>>
    <3>1. Lexer!EndOf(t) = n
      BY <1>2, <1>4, <1>5, <1>7, <2>1 DEF Lexer!EndOf
    <3>2. SubSeq(input, t.position + 1, Lexer!EndOf(t)) = Lexer!Spelling(t)
      BY <1>1, <1>5, <1>7, <2>1, <3>1
    <3>3. Lexer!EndOf(t) <= Len(input)
      BY <1>1, <1>2, <3>1
    <3> QED
      BY <1>2, <3>1, <3>2, <3>3 DEF Spelled
  <2>2. CASE q = o /\ n = Len(s)
    <3>1. Lexer!EndOf(t) = n + 1
      <4>1. Lexer!EndOf(t) = a + Len(o \o <<Quote>>)
        BY <1>5, <1>7 DEF Lexer!EndOf
      <4>2. Len(o) = n - a
        BY <1>4, <2>2
      <4> QED
        BY <1>2, <1>8, <4>1, <4>2
    <3>2. SubSeq(input, t.position + 1, Len(input)) \o <<Quote>> = Lexer!Spelling(t)
      BY <1>1, <1>5, <1>7, <2>2
    <3>3. Lexer!EndOf(t) = Len(input) + 1
      BY <1>1, <2>2, <3>1
    <3>4. Spelled(t)
      BY <1>5, <3>2, <3>3 DEF Spelled
    <3> QED
      BY <1>2, <2>2, <3>1, <3>4
  <2> QED
    BY <1>9, <2>1, <2>2
<1>11. Fits(t)
  <2>1. BlankTo(start) /\ (LastIs({"STRING"}) => LastEnd < start)
    BY <1>2 DEF LexPlace
  <2> QED
    BY <1>1, <1>5, <1>10, <2>1 DEF Fits, BlankTo, Lexer!IsWord
<1>12. ~Lexer!Sees({Quote})'
  <2>1. ~Lexer!Sees({Quote}) \/ n = Len(s)
    BY <1>9
  <2> QED
    BY <1>1, <1>2, <2>1 DEF Lexer!Sees, Lexer!AtEnd, Lexer!Here
<1>13. Pushes(t)
  BY <1>1, <1>2, <1>5, <1>10, <1>11, <1>12 DEF Pushes, WordTypes
<1> QED
  BY <1>13, PushText

LEMMA LexTextInit == Lexer!Init => LexText
<1> SUFFICES ASSUME Lexer!Init PROVE LexText
  OBVIOUS
<1>1. pc = "scan" /\ index = 0 /\ tokens = <<>> /\ Len(tokens) = 0
  BY DEF Lexer!Init
<1>2. LexTokens
  BY <1>1 DEF LexTokens
<1>3. LastEnd = 0 /\ \A types : ~LastIs(types)
  BY <1>1 DEF LastEnd, LastIs
<1>4. BlankTo(index)
  BY <1>1, <1>3, BlankBehind
<1>5. LexPlace
  BY <1>1, <1>3, <1>4 DEF LexPlace
<1> QED
  BY <1>2, <1>5, LexQuotesInit DEF LexText

LEMMA LexTextStep == LexInv /\ LexText /\ Lexer!Next => LexText'
<1> SUFFICES ASSUME LexInv, LexTokens, LexPlace, LexQuotes, Lexer!Next PROVE LexText'
  BY DEF LexText
<1>1. LexInv' /\ LexQuotes'
  BY LexStep, LexQuotesStep
<1>2. CASE Lexer!SkipBlank \/ Lexer!StartWord \/ Lexer!WordChar \/ Lexer!OpenQuote
  BY <1>1, <1>2, MoveText DEF LexText
<1>3. CASE Lexer!StringChar
  BY <1>1, <1>3, StringCharText DEF LexText
<1>4. CASE Lexer!CloseQuote \/ Lexer!RunOut
  BY <1>1, <1>4, CloseText DEF LexText
<1>5. CASE Lexer!PushSymbol
  BY <1>1, <1>5, SymbolText DEF LexText
<1>6. CASE Lexer!PushEnd
  BY <1>1, <1>6, EndText DEF LexText
<1>7. CASE Lexer!PushWord
  BY <1>1, <1>7, WordText DEF LexText
<1>8. CASE Lexer!PushString
  BY <1>1, <1>8, StringText DEF LexText
<1>9. CASE Lexer!Unexpected \/ Lexer!Unterminated \/ Lexer!Fails
  <2>1. /\ UNCHANGED <<input, index, tokens>> /\ pc \notin {"ok", "freed"}
        /\ pc' \in {"unexpected", "unterminated", "outOfMemory"}
    BY <1>9 DEF Lexer!Unexpected, Lexer!Unterminated, Lexer!Fails, Lexer!ScanFails, Lexer!WordFails,
                Lexer!WordEnds, Lexer!StringCharFails, Lexer!PushStringFails, Lexer!PushFails,
                Lexer!DropBuffer
  <2>2. index' \in Nat /\ index <= index'
    BY <2>1, LexTypes DEF LexFacts
  <2>3. LexTokens'
    BY <2>1, <2>2, TokensStay
  <2>4. LexPlace'
    BY <2>1 DEF LexPlace
  <2> QED
    BY <1>1, <2>3, <2>4 DEF LexText
<1>10. CASE Lexer!FreeTokens
  <2>1. tokens' = <<>> /\ Len(tokens') = 0 /\ pc' = "freed"
    BY <1>10 DEF Lexer!FreeTokens
  <2>2. LexTokens' /\ LexPlace'
    BY <2>1 DEF LexTokens, LexPlace
  <2> QED
    BY <1>1, <2>2 DEF LexText
<1> QED
  BY <1>2, <1>3, <1>4, <1>5, <1>6, <1>7, <1>8, <1>9, <1>10 DEF Lexer!Next, Lexer!Step

LEMMA TextSpelled == ASSUME LexInv, LexText PROVE Lexer!TokensSpellInput
<1> USE LexTypes DEF LexFacts
<1>0. LexTokens
  BY DEF LexText
<1>1. PICK s, ts, n : s = input /\ ts = tokens /\ n = Len(ts)
  OBVIOUS
<1>2. ASSUME NEW i \in 1..n
      PROVE  LET t == ts[i]
                 here == SubSeq(s, t.position + 1, Lexer!Min({Lexer!EndOf(t), Len(s)}))
             IN  /\ \/ here = Lexer!Spelling(t)
                    \/ t.type = "STRING" /\ here \o <<Quote>> = Lexer!Spelling(t)
                 /\ t.position <= index
  <2>1. PICK t, e, l : t = ts[i] /\ e = Lexer!EndOf(t) /\ l = Len(s)
    OBVIOUS
  <2>2. t \in Lexer!Token /\ Spelled(t) /\ t.position <= index
    BY <1>0, <1>1, <2>1 DEF LexTokens
  <2>3. e \in Nat /\ l \in Nat
    BY <1>1, <2>1, <2>2, SpellingType
  <2>4. Lexer!Min({e, l}) = IF e <= l THEN e ELSE l
    <3>1. Lexer!Min({e, l}) = Min({e, l})
      BY DEF Lexer!Min, Min
    <3>2. Min({e, l}) \in {e, l} /\ \A y \in {e, l} : Min({e, l}) <= y
      BY <2>3, MinMember
    <3> QED
      BY <2>3, <3>1, <3>2
  <2>5. PICK h : h = SubSeq(s, t.position + 1, Lexer!Min({e, l}))
    OBVIOUS
  <2>6. \/ h = Lexer!Spelling(t)
        \/ t.type = "STRING" /\ h \o <<Quote>> = Lexer!Spelling(t)
    <3>1. CASE e <= l /\ SubSeq(s, t.position + 1, e) = Lexer!Spelling(t)
      <4>1. Lexer!Min({e, l}) = e
        BY <2>4, <3>1
      <4>2. h = SubSeq(s, t.position + 1, e)
        BY <2>5, <4>1
      <4> QED
        BY <3>1, <4>2
    <3>2. CASE /\ t.type = "STRING" /\ e = l + 1
               /\ SubSeq(s, t.position + 1, l) \o <<Quote>> = Lexer!Spelling(t)
      <4>1. ~(e <= l)
        BY <2>3, <3>2
      <4> QED
        BY <2>4, <2>5, <3>2, <4>1
    <3> QED
      BY <1>1, <2>1, <2>2, <3>1, <3>2 DEF Spelled
  <2> QED
    BY <2>1, <2>2, <2>5, <2>6
<1>3. \A i \in 1..n : i = 1 => Lexer!BlankBetween(0, ts[i].position)
  BY <1>0, <1>1 DEF LexTokens
<1>4. \A i \in 1..n : i > 1 => Apart(ts[i - 1], ts[i])
  <2>1. \A i \in 1..n : i > 1 => i \in 2..n
    BY <1>1
  <2> QED
    BY <1>0, <1>1, <2>1 DEF LexTokens
<1>5. ASSUME pc = "ok"
      PROVE  /\ \A i \in 1..n : ts[i].type = "END" <=> i = n
             /\ ts[Len(ts)].position = Len(s)
  <2>1. n > 0 /\ ts[n].type = "END" /\ ts[n].position = Len(s)
        /\ \A i \in 1..(n - 1) : ts[i].type # "END"
    BY <1>0, <1>1, <1>5 DEF LexTokens, LastIs
  <2>2. n \in Nat /\ \A i \in 1..n : i = n \/ i \in 1..(n - 1)
    BY <1>1
  <2>3. \A i \in 1..(n - 1) : i # n
    BY <2>2
  <2> QED
    BY <1>1, <2>1, <2>2, <2>3
<1> QED
  BY <1>1, <1>2, <1>3, <1>4, <1>5 DEF Lexer!TokensSpellInput, Apart

-----------------------------------------------------------------------------
(* parse_statement.                                                        *)

ParseEnds == Parser!Answers \cup {"freed"}

InsertPlaces ==
  {"into", "columnsOpen", "columnsClose", "valuesWord", "valuesOpen", "value", "moreValues",
   "valuesClose"}

SelectPlaces ==
  {"selectList", "from", "where", "whereColumn", "equals", "whereValue", "connector?"}

ColumnPlaces == {"column", "pushColumn", "moreColumns"}

ParsePlaces ==
  {"statement", "table", "semicolon", "end"} \cup InsertPlaces \cup SelectPlaces
  \cup ColumnPlaces \cup ParseEnds

AnyValue == Words \cup Numbers \cup Strings

StatementType ==
  [type : {"INSERT", "SELECT"}, table_name : Words \cup {Null},
   columns : Seq(Words), values : Seq(AnyValue),
   select_all : BOOLEAN, has_where : BOOLEAN,
   where_column : Words \cup {Null}, where_value : AnyValue \cup {Null}]

\* The array that is read ends with its only END, at MaxTokens at the latest.
ParseTokens ==
  /\ tokens \in Seq(Parser!Token) /\ Len(tokens) <= MaxTokens
  /\ Len(tokens) = MaxTokens => Parser!Ended
  /\ index \in 0..Len(tokens)
  /\ Parser!StopsAtEnd

\* What of the tree exists where: a place that fills a field finds it empty.
ParseTree ==
  /\ pc \in ParsePlaces
  /\ statement \in StatementType
  /\ slots \in [{"columns", "values"} -> Nat]
  /\ identifier \in Words \cup {Null}
  /\ identifier # Null <=> pc = "pushColumn"
  /\ pc \in InsertPlaces => statement.type = "INSERT"
  /\ pc \in SelectPlaces => statement.type = "SELECT"
  /\ statement.type = "INSERT" => statement.where_column = Null /\ statement.where_value = Null
  /\ pc = "statement" =>
       statement = Parser!EmptyStatement /\ slots = [columns |-> 0, values |-> 0]
  /\ pc \in {"into", "selectList", "from", "table"} => statement.table_name = Null
  /\ statement.type = "SELECT" /\ pc \in ColumnPlaces => statement.table_name = Null
  /\ pc \in ColumnPlaces \cup {"selectList", "from", "table", "where", "whereColumn"} =>
       statement.where_column = Null
  /\ pc \in ColumnPlaces
        \cup {"selectList", "from", "table", "where", "whereColumn", "equals", "whereValue"} =>
       statement.where_value = Null

IdentifierBlock == IF identifier = Null THEN 0 ELSE 1

\* The blocks that are allocated are those of the tree and the identifier that
\* is being copied; each list fits its array.
ParseMemory ==
  /\ Len(statement.columns) <= slots["columns"]
  /\ Len(statement.values) <= slots["values"]
  /\ live = Parser!Owned + IdentifierBlock
  /\ pc \in ParseEnds \ {"ok"} => live = 0

ParseInv == ParseTokens /\ ParseTree /\ ParseMemory

LEMMA ParseInit == Parser!Init => ParseInv
<1> SUFFICES ASSUME Parser!Init PROVE ParseInv
  OBVIOUS
<1>1. MaxTokens \in Nat \ {0}
  BY StagesAssumption DEF Parser!ParserAssumption
<1>2. ParseTokens
  BY <1>1 DEF Parser!Init, ParseTokens, Parser!StopsAtEnd, Parser!Ended
<1>3. Parser!EmptyStatement \in StatementType
  BY DEF Parser!EmptyStatement, StatementType
<1>4. ParseTree
  BY <1>3 DEF Parser!Init, ParseTree, ParsePlaces, InsertPlaces, SelectPlaces, ColumnPlaces,
              ParseEnds, Parser!Answers, Parser!EmptyStatement
<1>5. ParseMemory
  BY DEF Parser!Init, ParseMemory, Parser!Owned, Parser!StringBlocks, Parser!ListBlocks,
         Parser!EmptyStatement, IdentifierBlock, ParseEnds, Parser!Answers
<1> QED
  BY <1>2, <1>4, <1>5 DEF ParseInv

\* A look at the current token: it is the next of the array, and END is the last.
LEMMA LookAtToken ==
  ASSUME ParseTokens, NEW t \in Parser!Token, Parser!Current(t)
  PROVE  /\ tokens' \in Seq(Parser!Token) /\ Len(tokens') <= MaxTokens
         /\ Len(tokens') = MaxTokens => Parser!Ended'
         /\ index \in 0..(Len(tokens') - 1)
         /\ Parser!Ended' /\ index + 1 = Len(tokens') => t.type = "END"
<1>1. MaxTokens \in Nat \ {0}
  BY StagesAssumption DEF Parser!ParserAssumption
<1>2. CASE index < Len(tokens)
  <2>1. tokens' = tokens /\ t = tokens[index + 1]
    BY <1>2 DEF Parser!Current
  <2> QED
    BY <1>2, <2>1 DEF ParseTokens, Parser!Ended
<1>3. CASE ~(index < Len(tokens))
  <2>1. /\ ~Parser!Ended /\ t \in Parser!Unseen /\ tokens' = Append(tokens, t)
        /\ index = Len(tokens)
    BY <1>3 DEF Parser!Current, ParseTokens
  <2>2. tokens' \in Seq(Parser!Token) /\ Len(tokens') = Len(tokens) + 1 /\ tokens'[Len(tokens')] = t
    BY <2>1 DEF ParseTokens
  <2>3. Len(tokens) < MaxTokens
    BY <1>1, <2>1 DEF ParseTokens
  <2>4. Len(tokens) + 1 = MaxTokens => t.type = "END"
    BY <2>1 DEF Parser!Unseen
  <2>5. Parser!Ended' <=> t.type = "END"
    BY <2>2 DEF Parser!Ended
  <2> QED
    BY <1>1, <2>1, <2>2, <2>3, <2>4, <2>5 DEF ParseTokens
<1> QED
  BY <1>2, <1>3

\* The parser passes the token, or leaves it where it is.
LEMMA ReadingKeepsTokens ==
  ASSUME ParseTokens, NEW t \in Parser!Token, Parser!Current(t),
         \/ index' = index
         \/ index' = index + 1 /\ (t.type # "END" \/ pc' = "ok")
  PROVE  ParseTokens'
<1>1. /\ tokens' \in Seq(Parser!Token) /\ Len(tokens') <= MaxTokens
      /\ Len(tokens') = MaxTokens => Parser!Ended'
      /\ index \in 0..(Len(tokens') - 1) /\ Len(tokens') \in Nat
      /\ Parser!Ended' /\ index + 1 = Len(tokens') => t.type = "END"
  BY LookAtToken
<1>2. index' \in 0..Len(tokens')
  BY <1>1
<1>3. Parser!StopsAtEnd'
  <2>1. CASE index' = index
    BY <1>1, <2>1 DEF Parser!StopsAtEnd
  <2>2. CASE index' = index + 1 /\ t.type # "END"
    BY <1>1, <2>2 DEF Parser!StopsAtEnd
  <2>3. CASE pc' = "ok"
    BY <2>3 DEF Parser!StopsAtEnd, Parser!Answers
  <2> QED
    BY <2>1, <2>2, <2>3
<1> QED
  BY <1>1, <1>2, <1>3 DEF ParseTokens

LEMMA RestingKeepsTokens ==
  ASSUME ParseTokens, UNCHANGED <<tokens, index>>,
         pc \notin ParseEnds \/ pc' \in ParseEnds
  PROVE  ParseTokens'
BY DEF ParseTokens, Parser!Ended, Parser!StopsAtEnd, ParseEnds

\* The kinds of tokens.
LEMMA TokenKinds ==
  ASSUME NEW t \in Parser!Token
  PROVE  /\ Parser!IsName(t) => t.text \in Words
         /\ Parser!IsValue(t) => t.text \in AnyValue
         /\ Parser!IsName(t) \/ Parser!IsValue(t) => t.text # Null
<1>1. Null \notin AnyValue
  BY StagesAssumption DEF Parser!ParserAssumption, AnyValue
<1>2. CASE t \in [type : {"IDENTIFIER"}, text : Words]
  BY <1>1, <1>2 DEF Parser!IsName, Parser!IsValue, AnyValue
<1>3. CASE t \in [type : {"NUMBER"}, text : Numbers]
  BY <1>1, <1>3 DEF Parser!IsName, Parser!IsValue, AnyValue
<1>4. CASE t \in [type : {"STRING"}, text : Strings]
  BY <1>1, <1>4 DEF Parser!IsName, Parser!IsValue, AnyValue
<1>5. CASE t \in [type : Parser!Marks \cup {"END"}, text : {Null}]
  BY <1>5 DEF Parser!IsName, Parser!IsValue, Parser!Marks
<1> QED
  BY <1>2, <1>3, <1>4, <1>5 DEF Parser!Token

LEMMA StatementFields ==
  ASSUME NEW s \in StatementType
  PROVE  /\ s.type \in {"INSERT", "SELECT"}
         /\ s.columns \in Seq(Words) /\ Len(s.columns) \in Nat
         /\ s.values \in Seq(AnyValue) /\ Len(s.values) \in Nat
         /\ s.table_name \in Words \cup {Null} /\ s.where_column \in Words \cup {Null}
         /\ s.where_value \in AnyValue \cup {Null}
         /\ s.select_all \in BOOLEAN /\ s.has_where \in BOOLEAN
BY DEF StatementType

\* A tree without texts and arrays owns nothing, before a step and after it.
LEMMA EmptyOwnsNothing ==
  /\ /\ statement.table_name = Null /\ statement.columns = <<>> /\ statement.values = <<>>
     /\ statement.where_column = Null /\ statement.where_value = Null
     /\ slots["columns"] = 0 /\ slots["values"] = 0
     => Parser!Owned = 0
  /\ /\ statement'.table_name = Null /\ statement'.columns = <<>> /\ statement'.values = <<>>
     /\ statement'.where_column = Null /\ statement'.where_value = Null
     /\ slots'["columns"] = 0 /\ slots'["values"] = 0
     => Parser!Owned' = 0
<1>1. ASSUME statement.table_name = Null, statement.columns = <<>>, statement.values = <<>>,
             statement.where_column = Null, statement.where_value = Null,
             slots["columns"] = 0, slots["values"] = 0
      PROVE  Parser!Owned = 0
  <2>1. Parser!ListBlocks("columns") = 0 /\ Parser!ListBlocks("values") = 0
    BY <1>1 DEF Parser!ListBlocks
  <2>2. /\ Parser!StringBlocks("table_name") = 0 /\ Parser!StringBlocks("where_column") = 0
        /\ Parser!StringBlocks("where_value") = 0
    BY <1>1 DEF Parser!StringBlocks
  <2>3. CASE statement.type = "INSERT"
    BY <2>1, <2>2, <2>3 DEF Parser!Owned
  <2>4. CASE statement.type # "INSERT"
    BY <2>1, <2>2, <2>4 DEF Parser!Owned
  <2> QED
    BY <2>3, <2>4
<1>2. ASSUME statement'.table_name = Null, statement'.columns = <<>>, statement'.values = <<>>,
             statement'.where_column = Null, statement'.where_value = Null,
             slots'["columns"] = 0, slots'["values"] = 0
      PROVE  Parser!Owned' = 0
  <2>1. Parser!ListBlocks("columns")' = 0 /\ Parser!ListBlocks("values")' = 0
    BY <1>2 DEF Parser!ListBlocks
  <2>2. /\ Parser!StringBlocks("table_name")' = 0 /\ Parser!StringBlocks("where_column")' = 0
        /\ Parser!StringBlocks("where_value")' = 0
    BY <1>2 DEF Parser!StringBlocks
  <2>3. CASE statement'.type = "INSERT"
    BY <2>1, <2>2, <2>3 DEF Parser!Owned
  <2>4. CASE statement'.type # "INSERT"
    BY <2>1, <2>2, <2>4 DEF Parser!Owned
  <2> QED
    BY <2>3, <2>4
<1> QED
  BY <1>1, <1>2

\* A step that allocates nothing and changes no field that owns a block.
LEMMA NothingOwnedChanges ==
  ASSUME ParseTree, ParseMemory, UNCHANGED <<slots, identifier, live>>,
         statement' \in StatementType,
         \/ statement'.type = statement.type
         \/ pc = "statement" ,
         statement'.table_name = statement.table_name,
         statement'.columns = statement.columns,
         statement'.values = statement.values,
         statement'.where_column = statement.where_column,
         statement'.where_value = statement.where_value,
         pc' \notin ParseEnds \ {"ok"}
  PROVE  ParseMemory'
<1>1. Parser!Owned' = Parser!Owned
  <2>1. CASE statement'.type = statement.type
    BY <2>1 DEF Parser!Owned, Parser!StringBlocks, Parser!ListBlocks
  <2>2. CASE pc = "statement"
    <3>1. /\ statement.table_name = Null /\ statement.columns = <<>> /\ statement.values = <<>>
          /\ statement.where_column = Null /\ statement.where_value = Null
          /\ slots["columns"] = 0 /\ slots["values"] = 0
      BY <2>2 DEF ParseTree, Parser!EmptyStatement
    <3>2. Parser!Owned = 0
      BY <3>1, EmptyOwnsNothing
    <3>3. Parser!Owned' = 0
      BY <3>1, EmptyOwnsNothing
    <3> QED
      BY <3>2, <3>3
  <2> QED
    BY <2>1, <2>2
<1> QED
  BY <1>1 DEF ParseMemory, IdentifierBlock

\* What failing frees is all there is.
LEMMA FreedIsNothing ==
  ASSUME ParseTree, Parser!Freed
  PROVE  /\ statement' \in StatementType
         /\ statement'.where_column = Null /\ statement'.where_value = Null
         /\ slots' \in [{"columns", "values"} -> Nat]
         /\ Parser!Owned' = 0
         /\ Len(statement'.columns) <= slots'["columns"]
         /\ Len(statement'.values) <= slots'["values"]
<1>1. /\ statement' \in StatementType
      /\ statement'.table_name = Null /\ statement'.columns = <<>> /\ statement'.values = <<>>
      /\ statement'.where_column = Null /\ statement'.where_value = Null
  <2>1. <<>> \in Seq(Words) /\ <<>> \in Seq(AnyValue)
    OBVIOUS
  <2>2. statement' = [statement EXCEPT !.table_name = Null, !.columns = <<>>, !.values = <<>>,
                                       !.where_column = Null, !.where_value = Null]
    BY DEF Parser!Freed
  <2>3. statement \in StatementType
    BY DEF ParseTree
  <2> QED
    BY <2>1, <2>2, <2>3 DEF StatementType
<1>2. slots' = [columns |-> 0, values |-> 0]
  BY DEF Parser!Freed
<1>3. slots' \in [{"columns", "values"} -> Nat] /\ slots'["columns"] = 0 /\ slots'["values"] = 0
  BY <1>2
<1> QED
  BY <1>1, <1>3, EmptyOwnsNothing

LEMMA OwnedType ==
  ASSUME ParseTree
  PROVE  Parser!Owned \in Nat /\ IdentifierBlock \in Nat
<1>1. Parser!ListBlocks("columns") \in Nat /\ Parser!ListBlocks("values") \in Nat
  BY DEF ParseTree, StatementType, Parser!ListBlocks
<1>2. /\ Parser!StringBlocks("table_name") \in Nat /\ Parser!StringBlocks("where_column") \in Nat
      /\ Parser!StringBlocks("where_value") \in Nat
  BY DEF Parser!StringBlocks
<1>3. IdentifierBlock \in Nat
  BY DEF IdentifierBlock
<1>4. CASE statement.type = "INSERT"
  BY <1>1, <1>2, <1>3, <1>4 DEF Parser!Owned
<1>5. CASE statement.type # "INSERT"
  BY <1>1, <1>2, <1>3, <1>5 DEF Parser!Owned
<1> QED
  BY <1>4, <1>5

LEMMA FailKeeps ==
  ASSUME ParseTree, ParseMemory, NEW answer \in Parser!Answers \ {"ok"}, Parser!Fail(answer)
  PROVE  ParseTree' /\ ParseMemory'
<1>1. /\ pc' = answer /\ Parser!Freed /\ identifier' = Null
      /\ live' = live - Parser!Owned - IdentifierBlock
  BY DEF Parser!Fail, IdentifierBlock
<1>2. live' = 0
  BY <1>1, OwnedType DEF ParseMemory
<1>3. ParseTree'
  BY <1>1, FreedIsNothing
     DEF ParseTree, ParsePlaces, ParseEnds, Parser!Answers, InsertPlaces, SelectPlaces,
         ColumnPlaces
<1>4. ParseMemory'
  BY <1>1, <1>2, FreedIsNothing DEF ParseMemory, IdentifierBlock
<1> QED
  BY <1>3, <1>4

-----------------------------------------------------------------------------
(* The parser's steps.                                                     *)

\* A keyword or a mark at its place.
LEMMA FixedKeeps ==
  ASSUME ParseInv, Parser!Fixed
  PROVE  ParseInv'
<1>1. PICK t \in Parser!Token : Parser!Current(t) /\ Parser!Fits(t)
  BY DEF Parser!Fixed
<1>2. /\ UNCHANGED <<statement, slots, identifier, live>> /\ index' = index + 1
      /\ \/ pc = "into" /\ pc' = "table"
         \/ pc = "columnsOpen" /\ pc' = "column"
         \/ pc = "columnsClose" /\ pc' = "valuesWord"
         \/ pc = "valuesWord" /\ pc' = "valuesOpen"
         \/ pc = "valuesOpen" /\ pc' = "value"
         \/ pc = "valuesClose" /\ pc' = "semicolon"
         \/ pc = "from" /\ pc' = "table"
         \/ pc = "equals" /\ pc' = "whereValue"
         \/ pc = "semicolon" /\ pc' = "end"
         \/ pc = "end" /\ pc' = "ok"
  BY DEF Parser!Fixed, Parser!After
<1>3. t.type # "END" \/ pc' = "ok"
  <2>1. CASE pc = "end"
    BY <1>2, <2>1
  <2>2. CASE pc # "end"
    <3>1. t.type = "IDENTIFIER" \/ (pc \in DOMAIN Parser!ExpectedMark /\ t.type = Parser!ExpectedMark[pc])
      BY <1>1, <1>2 DEF Parser!Fits, Parser!IsWord
    <3>2. /\ Parser!ExpectedMark["columnsOpen"] = "(" /\ Parser!ExpectedMark["columnsClose"] = ")"
          /\ Parser!ExpectedMark["valuesOpen"] = "(" /\ Parser!ExpectedMark["valuesClose"] = ")"
          /\ Parser!ExpectedMark["equals"] = "=" /\ Parser!ExpectedMark["semicolon"] = ";"
          /\ DOMAIN Parser!ExpectedMark =
               {"columnsOpen", "columnsClose", "valuesOpen", "valuesClose", "equals",
                "semicolon", "end"}
      BY DEF Parser!ExpectedMark
    <3> QED
      BY <2>2, <3>1, <3>2
  <2> QED
    BY <2>1, <2>2
<1>4. ParseTokens'
  BY <1>1, <1>2, <1>3, ReadingKeepsTokens DEF ParseInv
<1>5. ParseTree'
  <2>1. ParseTree
    BY DEF ParseInv
  <2>2. statement.type \in {"INSERT", "SELECT"}
    BY <2>1, StatementFields DEF ParseTree
  <2>3. /\ pc' \in ParsePlaces /\ pc # "pushColumn" /\ pc' # "pushColumn" /\ pc' # "statement"
        /\ pc' \in InsertPlaces => pc \in InsertPlaces
        /\ pc' \in SelectPlaces => pc \in SelectPlaces
        /\ pc' = "table" => pc \in {"into", "from"}
        /\ pc' \in ColumnPlaces => pc = "columnsOpen"
        /\ pc' \notin {"into", "selectList", "from", "where", "whereColumn", "equals"}
        /\ pc' = "whereValue" => pc = "equals"
    BY <1>2 DEF ParsePlaces, InsertPlaces, SelectPlaces, ColumnPlaces, ParseEnds, Parser!Answers
  <2> QED
    BY <1>2, <2>1, <2>2, <2>3 DEF ParseTree, InsertPlaces, SelectPlaces
<1>6. ParseMemory'
  BY <1>2, NothingOwnedChanges DEF ParseInv, ParseTree, ParseEnds, Parser!Answers
<1> QED
  BY <1>4, <1>5, <1>6 DEF ParseInv

\* The first word, the star, the end of a list or of a filter: no text is kept.
LEMMA ChoiceKeeps ==
  ASSUME ParseInv,
         \/ Parser!Dispatch \/ Parser!Star \/ Parser!MoreColumns \/ Parser!MoreValues
         \/ Parser!Where \/ Parser!NoConnector
  PROVE  ParseInv'
<1>0. ParseTokens /\ ParseTree /\ ParseMemory /\ statement \in StatementType
  BY DEF ParseInv, ParseTree
<1>1. CASE Parser!Dispatch
  <2>1. PICK t \in Parser!Token :
          /\ Parser!Current(t) /\ t.type = "IDENTIFIER"
          /\ \/ pc' = "into" /\ statement' = statement
             \/ pc' = "selectList" /\ statement' = [statement EXCEPT !.type = "SELECT"]
    BY <1>1 DEF Parser!Dispatch, Parser!IsWord
  <2>2. UNCHANGED <<slots, identifier, live>> /\ index' = index + 1 /\ pc = "statement"
    BY <1>1 DEF Parser!Dispatch
  <2>3. ParseTokens'
    BY <1>0, <2>1, <2>2, ReadingKeepsTokens
  <2>4. /\ statement' \in StatementType
        /\ statement'.table_name = statement.table_name
        /\ statement'.columns = statement.columns /\ statement'.values = statement.values
        /\ statement'.where_column = statement.where_column
        /\ statement'.where_value = statement.where_value
        /\ pc' = "selectList" => statement'.type = "SELECT"
        /\ pc' = "into" => statement' = statement
    BY <1>0, <2>1 DEF StatementType
  <2>5. /\ statement.type = "INSERT" /\ statement.table_name = Null
        /\ statement.where_column = Null /\ statement.where_value = Null
    BY <1>0, <2>2 DEF ParseTree, Parser!EmptyStatement
  <2>6. ParseTree'
    BY <1>0, <2>1, <2>2, <2>4, <2>5
       DEF ParseTree, ParsePlaces, InsertPlaces, SelectPlaces, ColumnPlaces, ParseEnds,
           Parser!Answers
  <2>7. ParseMemory'
    BY <1>0, <2>1, <2>2, <2>4, NothingOwnedChanges DEF ParseEnds, Parser!Answers
  <2> QED
    BY <2>3, <2>6, <2>7 DEF ParseInv
<1>2. CASE Parser!Star \/ Parser!NoConnector
  <2>1. PICK t \in Parser!Token :
          /\ Parser!Current(t)
          /\ \/ t.type = "*" /\ index' = index + 1
             \/ index' = index
    BY <1>2 DEF Parser!Star, Parser!NoConnector
  <2>2. /\ UNCHANGED <<slots, identifier, live>>
        /\ \/ /\ pc = "selectList" /\ pc' = "from"
              /\ statement' = [statement EXCEPT !.select_all = TRUE]
           \/ /\ pc = "connector?" /\ pc' = "semicolon"
              /\ statement' = [statement EXCEPT !.has_where = TRUE]
    BY <1>2 DEF Parser!Star, Parser!NoConnector
  <2>3. ParseTokens'
    BY <1>0, <2>1, ReadingKeepsTokens
  <2>4. /\ statement' \in StatementType /\ statement'.type = statement.type
        /\ statement'.table_name = statement.table_name
        /\ statement'.columns = statement.columns /\ statement'.values = statement.values
        /\ statement'.where_column = statement.where_column
        /\ statement'.where_value = statement.where_value
    BY <1>0, <2>2 DEF StatementType
  <2>5. ParseTree'
    BY <1>0, <2>2, <2>4
       DEF ParseTree, ParsePlaces, InsertPlaces, SelectPlaces, ColumnPlaces, ParseEnds,
           Parser!Answers
  <2>6. ParseMemory'
    BY <1>0, <2>2, <2>4, NothingOwnedChanges DEF ParseEnds, Parser!Answers
  <2> QED
    BY <2>3, <2>5, <2>6 DEF ParseInv
<1>3. CASE Parser!MoreColumns \/ Parser!MoreValues \/ Parser!Where
  <2>1. PICK t \in Parser!Token :
          /\ Parser!Current(t)
          /\ \/ t.type \in {",", "IDENTIFIER"} /\ index' = index + 1
             \/ index' = index
    BY <1>3 DEF Parser!MoreColumns, Parser!MoreValues, Parser!More, Parser!Where, Parser!IsWord
  <2>2. /\ UNCHANGED <<statement, slots, identifier, live>>
        /\ \/ /\ pc = "moreColumns"
              /\ \/ pc' = "column"
                 \/ pc' = "columnsClose" /\ statement.type = "INSERT"
                 \/ pc' = "from" /\ statement.type # "INSERT"
           \/ pc = "moreValues" /\ pc' \in {"value", "valuesClose"}
           \/ pc = "where" /\ pc' \in {"whereColumn", "semicolon"}
    BY <1>3 DEF Parser!MoreColumns, Parser!MoreValues, Parser!More, Parser!Where
  <2>3. ParseTokens'
    BY <1>0, <2>1, ReadingKeepsTokens
  <2>4. statement.type \in {"INSERT", "SELECT"}
    BY <1>0, StatementFields
  <2>5. ParseTree'
    BY <1>0, <2>2, <2>4
       DEF ParseTree, ParsePlaces, InsertPlaces, SelectPlaces, ColumnPlaces, ParseEnds,
           Parser!Answers
  <2>6. ParseMemory'
    BY <1>0, <2>2, NothingOwnedChanges DEF ParseEnds, Parser!Answers
  <2> QED
    BY <2>3, <2>5, <2>6 DEF ParseInv
<1> QED
  BY <1>1, <1>2, <1>3

\* A parse that fails frees all it has.
LEMMA ParseFailsKeeps ==
  ASSUME ParseInv,
         \/ Parser!Unsupported \/ Parser!Connector \/ Parser!Expected \/ Parser!CopyFails
         \/ Parser!PushFails
  PROVE  ParseInv'
<1>0. ParseTokens /\ ParseTree /\ ParseMemory /\ statement \in StatementType
  BY DEF ParseInv, ParseTree
<1>1. CASE Parser!Unsupported
  <2>1. PICK t \in Parser!Token : Parser!Current(t)
    BY <1>1 DEF Parser!Unsupported
  <2>2. /\ UNCHANGED <<index, statement, slots, identifier, live>>
        /\ pc = "statement" /\ pc' = "unsupported"
    BY <1>1 DEF Parser!Unsupported
  <2>3. ParseTokens'
    BY <1>0, <2>1, <2>2, ReadingKeepsTokens
  <2>4. ParseTree'
    BY <1>0, <2>2
       DEF ParseTree, ParsePlaces, InsertPlaces, SelectPlaces, ColumnPlaces, ParseEnds,
           Parser!Answers
  <2>5. live = 0
    <3>1. /\ statement.table_name = Null /\ statement.columns = <<>> /\ statement.values = <<>>
          /\ statement.where_column = Null /\ statement.where_value = Null
          /\ slots["columns"] = 0 /\ slots["values"] = 0 /\ identifier = Null
      BY <1>0, <2>2 DEF ParseTree, Parser!EmptyStatement
    <3> QED
      BY <1>0, <3>1, EmptyOwnsNothing DEF ParseMemory, IdentifierBlock
  <2>6. Parser!Owned' = Parser!Owned /\ IdentifierBlock' = IdentifierBlock
    BY <2>2 DEF Parser!Owned, Parser!StringBlocks, Parser!ListBlocks, IdentifierBlock
  <2>7. ParseMemory'
    BY <1>0, <2>2, <2>5, <2>6 DEF ParseMemory
  <2> QED
    BY <2>3, <2>4, <2>7 DEF ParseInv
<1>2. CASE Parser!Connector \/ Parser!Expected \/ Parser!CopyFails
  <2>1. PICK t \in Parser!Token, answer \in {"connector", "expected", "outOfMemory"} :
          Parser!Current(t) /\ Parser!Fail(answer)
    BY <1>2 DEF Parser!Connector, Parser!Expected, Parser!CopyFails
  <2>2. index' = index /\ answer \in Parser!Answers \ {"ok"}
    BY <2>1 DEF Parser!Fail, Parser!Answers
  <2> QED
    BY <1>0, <2>1, <2>2, FailKeeps, ReadingKeepsTokens DEF ParseInv
<1>3. CASE Parser!PushFails
  <2>1. /\ Parser!Fail("outOfMemory") /\ UNCHANGED <<tokens, index>>
        /\ "outOfMemory" \in Parser!Answers \ {"ok"} /\ pc' \in ParseEnds
    BY <1>3 DEF Parser!PushFails, Parser!Fail, Parser!Answers, ParseEnds
  <2> QED
    BY <1>0, <2>1, FailKeeps, RestingKeepsTokens DEF ParseInv
<1> QED
  BY <1>1, <1>2, <1>3

\* What a step adds is allocated once.  The blocks are numbers; the sums are
\* taken for each type of statement.
LEMMA OwnedSum ==
  ASSUME ParseTree
  PROVE  /\ Parser!StringBlocks("table_name") \in Nat
         /\ Parser!StringBlocks("where_column") \in Nat
         /\ Parser!StringBlocks("where_value") \in Nat
         /\ Parser!ListBlocks("columns") \in Nat /\ Parser!ListBlocks("values") \in Nat
         /\ statement.type = "INSERT" =>
              Parser!Owned = Parser!StringBlocks("table_name") + Parser!ListBlocks("columns")
                             + Parser!ListBlocks("values")
         /\ statement.type = "SELECT" =>
              Parser!Owned = Parser!StringBlocks("table_name") + Parser!ListBlocks("columns")
                             + (Parser!StringBlocks("where_column")
                                + Parser!StringBlocks("where_value"))
<1>1. Parser!ListBlocks("columns") \in Nat /\ Parser!ListBlocks("values") \in Nat
  BY DEF ParseTree, StatementType, Parser!ListBlocks
<1>2. /\ Parser!StringBlocks("table_name") \in Nat /\ Parser!StringBlocks("where_column") \in Nat
      /\ Parser!StringBlocks("where_value") \in Nat
  BY DEF Parser!StringBlocks
<1> QED
  BY <1>1, <1>2 DEF Parser!Owned

\* A field that was empty gets a text.
LEMMA NameKeeps ==
  ASSUME ParseInv, Parser!TableName \/ Parser!WhereColumn \/ Parser!WhereValue
  PROVE  ParseInv'
<1>0. ParseTokens /\ ParseTree /\ ParseMemory /\ statement \in StatementType
  BY DEF ParseInv, ParseTree
<1>1. PICK t \in Parser!Token, field \in {"table_name", "where_column", "where_value"} :
        /\ Parser!Current(t)
        /\ statement' = [statement EXCEPT ![field] = t.text]
        /\ \/ field = "table_name" /\ pc = "table" /\ Parser!IsName(t)
              /\ pc' = (IF statement.type = "INSERT" THEN "columnsOpen" ELSE "where")
           \/ field = "where_column" /\ pc = "whereColumn" /\ Parser!IsName(t) /\ pc' = "equals"
           \/ field = "where_value" /\ pc = "whereValue" /\ Parser!IsValue(t)
              /\ pc' = "connector?"
  BY DEF Parser!TableName, Parser!WhereColumn, Parser!WhereValue, Parser!Name
<1>2. UNCHANGED <<slots, identifier>> /\ index' = index + 1 /\ live' = live + 1
  BY DEF Parser!TableName, Parser!WhereColumn, Parser!WhereValue, Parser!Name
<1>3. ParseTokens'
  <2>1. t.type # "END"
    BY <1>1 DEF Parser!IsName, Parser!IsValue
  <2> QED
    BY <1>0, <1>1, <1>2, <2>1, ReadingKeepsTokens
<1>4. /\ t.text # Null
      /\ field \in {"table_name", "where_column"} => t.text \in Words
      /\ t.text \in AnyValue
  BY <1>1, TokenKinds DEF Parser!IsName, Parser!IsValue
<1>5. /\ statement' \in StatementType /\ statement'.type = statement.type
      /\ statement'.columns = statement.columns /\ statement'.values = statement.values
      /\ statement'[field] = t.text
      /\ \A other \in {"table_name", "where_column", "where_value"} \ {field} :
           statement'[other] = statement[other]
  BY <1>0, <1>1, <1>4 DEF StatementType
<1>6. statement[field] = Null
  BY <1>0, <1>1 DEF ParseTree
<1>7. statement.type \in {"INSERT", "SELECT"} /\ (field # "table_name" => statement.type = "SELECT")
  BY <1>0, <1>1, StatementFields DEF ParseTree, SelectPlaces
<1>8. ParseTree'
  <2>1. /\ statement'.where_column = statement.where_column \/ field = "where_column"
        /\ statement'.where_value = statement.where_value \/ field = "where_value"
    BY <1>5
  <2> QED
    BY <1>0, <1>1, <1>2, <1>5, <1>7, <2>1
       DEF ParseTree, ParsePlaces, InsertPlaces, SelectPlaces, ColumnPlaces, ParseEnds,
           Parser!Answers
<1>9. ParseMemory'
  <2>1. /\ Parser!ListBlocks("columns")' = Parser!ListBlocks("columns")
        /\ Parser!ListBlocks("values")' = Parser!ListBlocks("values")
    BY <1>2, <1>5 DEF Parser!ListBlocks
  <2>2. /\ Parser!StringBlocks(field) = 0 /\ Parser!StringBlocks(field)' = 1
        /\ \A other \in {"table_name", "where_column", "where_value"} \ {field} :
             Parser!StringBlocks(other)' = Parser!StringBlocks(other)
    BY <1>4, <1>5, <1>6 DEF Parser!StringBlocks
  <2>3. Parser!Owned' = Parser!Owned + 1
    <3>1. CASE statement.type = "INSERT"
      <4>1. field = "table_name"
        BY <1>7, <3>1
      <4>2. Parser!Owned' = Parser!StringBlocks("table_name")' + Parser!ListBlocks("columns")'
                            + Parser!ListBlocks("values")'
        BY <1>5, <3>1 DEF Parser!Owned
      <4> QED
        BY <1>0, <2>1, <2>2, <3>1, <4>1, <4>2, OwnedSum
    <3>2. CASE statement.type = "SELECT"
      <4>1. Parser!Owned' = Parser!StringBlocks("table_name")' + Parser!ListBlocks("columns")'
                            + (Parser!StringBlocks("where_column")'
                               + Parser!StringBlocks("where_value")')
        BY <1>5, <3>2 DEF Parser!Owned
      <4>2. CASE field = "table_name"
        BY <1>0, <2>1, <2>2, <3>2, <4>1, <4>2, OwnedSum
      <4>3. CASE field = "where_column"
        BY <1>0, <2>1, <2>2, <3>2, <4>1, <4>3, OwnedSum
      <4>4. CASE field = "where_value"
        BY <1>0, <2>1, <2>2, <3>2, <4>1, <4>4, OwnedSum
      <4> QED
        BY <4>2, <4>3, <4>4
    <3> QED
      BY <1>7, <3>1, <3>2
  <2>4. Parser!Owned \in Nat /\ IdentifierBlock \in Nat
    BY <1>0, OwnedType
  <2> QED
    BY <1>0, <1>1, <1>2, <1>5, <2>3, <2>4
       DEF ParseMemory, IdentifierBlock, ParseEnds, Parser!Answers
<1> QED
  BY <1>3, <1>8, <1>9 DEF ParseInv

\* A list that may have grown holds one text more.
LEMMA ListGrows ==
  ASSUME ParseTree, NEW list \in {"columns", "values"}, NEW text,
         Len(statement[list]) <= slots[list],
         statement[list] \in Seq(AnyValue), text \in AnyValue,
         statement'[list] = Append(statement[list], text),
         slots' = Parser!Grown(list)
  PROVE  /\ Len(statement'[list]) <= slots'[list]
         /\ slots' \in [{"columns", "values"} -> Nat]
         /\ \A other \in {"columns", "values"} \ {list} : slots'[other] = slots[other]
         /\ Parser!ListBlocks(list)' = Parser!ListBlocks(list) + 1 + Parser!NewArray(list)
         /\ Parser!NewArray(list) \in Nat
<1>0. FirstItems \in Nat \ {0} /\ slots \in [{"columns", "values"} -> Nat]
  BY StagesAssumption DEF Parser!ParserAssumption, ParseTree
<1>1. Len(statement'[list]) = Len(statement[list]) + 1 /\ Len(statement[list]) \in Nat
  OBVIOUS
<1>2. CASE ~Parser!ListFull(list)
  <2>1. slots' = slots /\ Len(statement[list]) < slots[list] /\ slots[list] > 0
    BY <1>0, <1>1, <1>2 DEF Parser!Grown, Parser!ListFull
  <2>2. Parser!NewArray(list) = 0 /\ slots'[list] = slots[list]
    BY <1>0, <2>1 DEF Parser!NewArray
  <2>3. /\ Parser!ListBlocks(list) = Len(statement[list]) + 1
        /\ Parser!ListBlocks(list)' = Len(statement'[list]) + 1
    BY <2>1, <2>2 DEF Parser!ListBlocks
  <2>4. Len(statement'[list]) <= slots'[list]
    BY <1>0, <1>1, <2>1, <2>2
  <2>5. Parser!ListBlocks(list)' = Parser!ListBlocks(list) + 1 + Parser!NewArray(list)
    BY <1>1, <2>2, <2>3
  <2> QED
    BY <1>0, <2>1, <2>2, <2>4, <2>5
<1>3. CASE Parser!ListFull(list) /\ slots[list] = 0
  <2>1. /\ slots' \in [{"columns", "values"} -> Nat] /\ slots'[list] = FirstItems
        /\ \A other \in {"columns", "values"} \ {list} : slots'[other] = slots[other]
    BY <1>0, <1>3 DEF Parser!Grown
  <2>2. Len(statement[list]) = 0
    BY <1>3 DEF Parser!ListFull
  <2> QED
    BY <1>0, <1>1, <1>3, <2>1, <2>2 DEF Parser!ListBlocks, Parser!NewArray
<1>4. CASE Parser!ListFull(list) /\ slots[list] > 0
  <2>1. /\ slots' \in [{"columns", "values"} -> Nat] /\ slots'[list] = 2 * slots[list]
        /\ \A other \in {"columns", "values"} \ {list} : slots'[other] = slots[other]
    BY <1>0, <1>4 DEF Parser!Grown
  <2>2. Len(statement[list]) = slots[list]
    BY <1>4 DEF Parser!ListFull
  <2> QED
    BY <1>0, <1>1, <1>4, <2>1, <2>2 DEF Parser!ListBlocks, Parser!NewArray
<1> QED
  BY <1>0, <1>2, <1>3, <1>4

LEMMA ReadIdentifierKeeps ==
  ASSUME ParseInv, Parser!ReadIdentifier
  PROVE  ParseInv'
<1>0. ParseTokens /\ ParseTree /\ ParseMemory /\ statement \in StatementType
  BY DEF ParseInv, ParseTree
<1>1. PICK t \in Parser!Token : Parser!Current(t) /\ Parser!IsName(t) /\ identifier' = t.text
  BY DEF Parser!ReadIdentifier
<1>2. /\ UNCHANGED <<statement, slots>> /\ index' = index + 1 /\ live' = live + 1
      /\ pc \in {"column", "selectList"} /\ pc' = "pushColumn"
  BY DEF Parser!ReadIdentifier
<1>3. ParseTokens'
  <2>1. t.type # "END"
    BY <1>1 DEF Parser!IsName
  <2> QED
    BY <1>0, <1>1, <1>2, <2>1, ReadingKeepsTokens
<1>4. identifier' \in Words /\ identifier' # Null
  BY <1>1, TokenKinds
<1>5. ParseTree'
  BY <1>0, <1>2, <1>4
     DEF ParseTree, ParsePlaces, InsertPlaces, SelectPlaces, ColumnPlaces, ParseEnds,
         Parser!Answers
<1>6. ParseMemory'
  <2>1. IdentifierBlock = 0 /\ IdentifierBlock' = 1
    BY <1>0, <1>2, <1>4 DEF IdentifierBlock, ParseTree
  <2>2. Parser!Owned' = Parser!Owned /\ Parser!Owned \in Nat
    BY <1>0, <1>2, OwnedType DEF Parser!Owned, Parser!StringBlocks, Parser!ListBlocks
  <2> QED
    BY <1>0, <1>2, <2>1, <2>2 DEF ParseMemory, ParseEnds, Parser!Answers
<1> QED
  BY <1>3, <1>5, <1>6 DEF ParseInv

\* A list gets its next text.  parse_identifier_list makes one copy and frees
\* the other, parse_value_list makes one.
LEMMA PushKeepsMemory ==
  ASSUME ParseInv, NEW list \in {"columns", "values"}, NEW text \in AnyValue,
         list = "columns" => text \in Words,
         list = "values" => statement.type = "INSERT",
         statement' = [statement EXCEPT ![list] = Append(@, text)],
         slots' = Parser!Grown(list),
         live' = live + 1 + Parser!NewArray(list) - IdentifierBlock,
         identifier' = Null
  PROVE  /\ statement' \in StatementType
         /\ statement'.type = statement.type /\ statement'.table_name = statement.table_name
         /\ statement'.where_column = statement.where_column
         /\ statement'.where_value = statement.where_value
         /\ slots' \in [{"columns", "values"} -> Nat]
         /\ pc' \notin ParseEnds \ {"ok"} => ParseMemory'
<1>0. ParseTree /\ ParseMemory /\ statement \in StatementType
  BY DEF ParseInv, ParseTree
<1>1. /\ statement' \in StatementType
      /\ statement'.type = statement.type /\ statement'.table_name = statement.table_name
      /\ statement'.where_column = statement.where_column
      /\ statement'.where_value = statement.where_value
      /\ statement'[list] = Append(statement[list], text)
      /\ \A other \in {"columns", "values"} \ {list} : statement'[other] = statement[other]
  <2>1. CASE list = "columns"
    <3>1. Append(statement.columns, text) \in Seq(Words)
      BY <1>0, <2>1, StatementFields
    <3> QED
      BY <1>0, <2>1, <3>1 DEF StatementType
  <2>2. CASE list = "values"
    <3>1. Append(statement.values, text) \in Seq(AnyValue)
      BY <1>0, <2>2, StatementFields
    <3> QED
      BY <1>0, <2>2, <3>1 DEF StatementType
  <2> QED
    BY <2>1, <2>2
<1>2. statement[list] \in Seq(AnyValue) /\ Len(statement[list]) <= slots[list]
  BY <1>0, StatementFields DEF ParseMemory, AnyValue
<1>3. /\ Len(statement'[list]) <= slots'[list]
      /\ slots' \in [{"columns", "values"} -> Nat]
      /\ \A other \in {"columns", "values"} \ {list} : slots'[other] = slots[other]
      /\ Parser!ListBlocks(list)' = Parser!ListBlocks(list) + 1 + Parser!NewArray(list)
      /\ Parser!NewArray(list) \in Nat
  BY <1>0, <1>1, <1>2, ListGrows
<1>4. \A other \in {"columns", "values"} \ {list} :
        Parser!ListBlocks(other)' = Parser!ListBlocks(other)
  BY <1>1, <1>3 DEF Parser!ListBlocks
<1>5. /\ Parser!StringBlocks("table_name")' = Parser!StringBlocks("table_name")
      /\ Parser!StringBlocks("where_column")' = Parser!StringBlocks("where_column")
      /\ Parser!StringBlocks("where_value")' = Parser!StringBlocks("where_value")
  BY <1>1 DEF Parser!StringBlocks
<1>6. Parser!Owned' = Parser!Owned + 1 + Parser!NewArray(list)
  <2>1. CASE statement.type = "INSERT"
    <3>1. Parser!Owned' = Parser!StringBlocks("table_name")' + Parser!ListBlocks("columns")'
                          + Parser!ListBlocks("values")'
      BY <1>1, <2>1 DEF Parser!Owned
    <3>2. CASE list = "columns"
      BY <1>0, <1>3, <1>4, <1>5, <2>1, <3>1, <3>2, OwnedSum
    <3>3. CASE list = "values"
      BY <1>0, <1>3, <1>4, <1>5, <2>1, <3>1, <3>3, OwnedSum
    <3> QED
      BY <3>2, <3>3
  <2>2. CASE statement.type = "SELECT"
    <3>1. Parser!Owned' = Parser!StringBlocks("table_name")' + Parser!ListBlocks("columns")'
                          + (Parser!StringBlocks("where_column")'
                             + Parser!StringBlocks("where_value")')
      BY <1>1, <2>2 DEF Parser!Owned
    <3>2. list = "columns"
      BY <2>2
    <3> QED
      BY <1>0, <1>3, <1>5, <2>2, <3>1, <3>2, OwnedSum
  <2> QED
    BY <1>0, <2>1, <2>2, StatementFields
<1>7. Len(statement'.columns) <= slots'["columns"] /\ Len(statement'.values) <= slots'["values"]
  <2>1. CASE list = "columns"
    BY <1>0, <1>1, <1>3, <2>1 DEF ParseMemory
  <2>2. CASE list = "values"
    BY <1>0, <1>1, <1>3, <2>2 DEF ParseMemory
  <2> QED
    BY <2>1, <2>2
<1>8. live' = Parser!Owned' + IdentifierBlock'
  <2>1. IdentifierBlock' = 0
    BY DEF IdentifierBlock
  <2>2. Parser!Owned \in Nat /\ IdentifierBlock \in Nat /\ live = Parser!Owned + IdentifierBlock
    BY <1>0, OwnedType DEF ParseMemory
  <2> QED
    BY <1>3, <1>6, <2>1, <2>2
<1> QED
  BY <1>1, <1>3, <1>7, <1>8 DEF ParseMemory

LEMMA AppendKeeps ==
  ASSUME ParseInv, Parser!PushIdentifier \/ Parser!Value
  PROVE  ParseInv'
<1>0. ParseTokens /\ ParseTree /\ ParseMemory /\ statement \in StatementType
  BY DEF ParseInv, ParseTree
<1>1. CASE Parser!PushIdentifier
  <2>1. /\ pc = "pushColumn" /\ pc' = "moreColumns" /\ UNCHANGED <<tokens, index>>
        /\ statement' = [statement EXCEPT !["columns"] = Append(@, identifier)]
        /\ slots' = Parser!Grown("columns") /\ live' = live + Parser!NewArray("columns")
        /\ identifier' = Null
    BY <1>1 DEF Parser!PushIdentifier
  <2>2. identifier \in Words /\ identifier \in AnyValue /\ IdentifierBlock = 1
    BY <1>0, <2>1 DEF ParseTree, AnyValue, IdentifierBlock
  <2>3. live' = live + 1 + Parser!NewArray("columns") - IdentifierBlock
    <3>1. Parser!NewArray("columns") \in Nat /\ live \in Nat
      BY <1>0, OwnedType DEF Parser!NewArray, ParseMemory
    <3> QED
      BY <2>1, <2>2, <3>1
  <2>4. /\ statement' \in StatementType
        /\ statement'.type = statement.type /\ statement'.table_name = statement.table_name
        /\ statement'.where_column = statement.where_column
        /\ statement'.where_value = statement.where_value
        /\ slots' \in [{"columns", "values"} -> Nat]
        /\ pc' \notin ParseEnds \ {"ok"} => ParseMemory'
    BY <2>1, <2>2, <2>3, PushKeepsMemory
  <2>5. ParseTokens'
    BY <1>0, <2>1, RestingKeepsTokens DEF ParseEnds, Parser!Answers
  <2>6. ParseTree'
    BY <1>0, <2>1, <2>4
       DEF ParseTree, ParsePlaces, InsertPlaces, SelectPlaces, ColumnPlaces, ParseEnds,
           Parser!Answers
  <2> QED
    BY <2>1, <2>4, <2>5, <2>6 DEF ParseInv, ParseEnds, Parser!Answers
<1>2. CASE Parser!Value
  <2>1. PICK t \in Parser!Token :
          /\ Parser!Current(t) /\ Parser!IsValue(t)
          /\ statement' = [statement EXCEPT !["values"] = Append(@, t.text)]
    BY <1>2 DEF Parser!Value
  <2>2. /\ pc = "value" /\ pc' = "moreValues" /\ index' = index + 1
        /\ slots' = Parser!Grown("values") /\ live' = live + 1 + Parser!NewArray("values")
        /\ identifier' = identifier
    BY <1>2 DEF Parser!Value
  <2>3. /\ t.text \in AnyValue /\ t.type # "END" /\ statement.type = "INSERT"
        /\ identifier = Null /\ IdentifierBlock = 0
    BY <1>0, <2>1, <2>2, TokenKinds DEF Parser!IsValue, ParseTree, InsertPlaces, IdentifierBlock
  <2>4. live' = live + 1 + Parser!NewArray("values") - IdentifierBlock
    <3>1. Parser!NewArray("values") \in Nat /\ live \in Nat
      BY <1>0, OwnedType DEF Parser!NewArray, ParseMemory
    <3> QED
      BY <2>2, <2>3, <3>1
  <2>5. /\ statement' \in StatementType
        /\ statement'.type = statement.type /\ statement'.table_name = statement.table_name
        /\ statement'.where_column = statement.where_column
        /\ statement'.where_value = statement.where_value
        /\ slots' \in [{"columns", "values"} -> Nat]
        /\ pc' \notin ParseEnds \ {"ok"} => ParseMemory'
    BY <2>1, <2>2, <2>3, <2>4, PushKeepsMemory
  <2>6. ParseTokens'
    BY <1>0, <2>1, <2>2, <2>3, ReadingKeepsTokens
  <2>7. ParseTree'
    BY <1>0, <2>2, <2>3, <2>5
       DEF ParseTree, ParsePlaces, InsertPlaces, SelectPlaces, ColumnPlaces, ParseEnds,
           Parser!Answers
  <2> QED
    BY <2>2, <2>5, <2>6, <2>7 DEF ParseInv, ParseEnds, Parser!Answers
<1> QED
  BY <1>1, <1>2

LEMMA FreeStatementKeeps ==
  ASSUME ParseInv, Parser!FreeStatement
  PROVE  ParseInv'
<1>0. ParseTokens /\ ParseTree /\ ParseMemory
  BY DEF ParseInv
<1>1. /\ pc = "ok" /\ pc' = "freed" /\ Parser!Freed /\ live' = live - Parser!Owned
      /\ UNCHANGED <<tokens, index, identifier>> /\ identifier = Null
  BY <1>0 DEF Parser!FreeStatement, ParseTree
<1>2. live' = 0
  BY <1>0, <1>1, OwnedType DEF ParseMemory, IdentifierBlock
<1>3. ParseTokens'
  BY <1>0, <1>1, RestingKeepsTokens DEF ParseEnds
<1>4. ParseTree'
  BY <1>0, <1>1, FreedIsNothing
     DEF ParseTree, ParsePlaces, ParseEnds, Parser!Answers, InsertPlaces, SelectPlaces,
         ColumnPlaces
<1>5. ParseMemory'
  BY <1>0, <1>1, <1>2, FreedIsNothing DEF ParseMemory, IdentifierBlock
<1> QED
  BY <1>3, <1>4, <1>5 DEF ParseInv

LEMMA ParseStep == ParseInv /\ Parser!Next => ParseInv'
<1> SUFFICES ASSUME ParseInv, Parser!Next PROVE ParseInv'
  OBVIOUS
<1>1. CASE Parser!Fixed
  BY <1>1, FixedKeeps
<1>2. CASE \/ Parser!Dispatch \/ Parser!Star \/ Parser!MoreColumns \/ Parser!MoreValues
           \/ Parser!Where \/ Parser!NoConnector
  BY <1>2, ChoiceKeeps
<1>3. CASE \/ Parser!Unsupported \/ Parser!Connector \/ Parser!Expected \/ Parser!CopyFails
           \/ Parser!PushFails
  BY <1>3, ParseFailsKeeps
<1>4. CASE Parser!TableName \/ Parser!WhereColumn \/ Parser!WhereValue
  BY <1>4, NameKeeps
<1>5. CASE Parser!ReadIdentifier
  BY <1>5, ReadIdentifierKeeps
<1>6. CASE Parser!PushIdentifier \/ Parser!Value
  BY <1>6, AppendKeeps
<1>7. CASE Parser!FreeStatement
  BY <1>7, FreeStatementKeeps
<1> QED
  BY <1>1, <1>2, <1>3, <1>4, <1>5, <1>6, <1>7 DEF Parser!Next, Parser!Step

\* What the invariant says of the parser.
LEMMA ParseSafe == ParseInv => Parser!TypeOK /\ Parser!StopsAtEnd /\ Parser!NothingIsLost
<1> SUFFICES ASSUME ParseInv PROVE Parser!TypeOK /\ Parser!StopsAtEnd /\ Parser!NothingIsLost
  OBVIOUS
<1>0. ParseTokens /\ ParseTree /\ ParseMemory
  BY DEF ParseInv
<1>1. live \in Nat
  BY <1>0, OwnedType DEF ParseMemory
<1>2. pc \in DOMAIN Parser!After \cup Parser!Answers \cup
            {"statement", "table", "column", "selectList", "pushColumn", "moreColumns",
             "value", "moreValues", "where", "whereColumn", "whereValue", "connector?",
             "freed"}
  <2>1. DOMAIN Parser!After =
          {"into", "columnsOpen", "columnsClose", "valuesWord", "valuesOpen", "valuesClose",
           "from", "equals", "semicolon", "end"}
    BY DEF Parser!After
  <2> QED
    BY <1>0, <2>1 DEF ParseTree, ParsePlaces, InsertPlaces, SelectPlaces, ColumnPlaces, ParseEnds,
                      Parser!Answers
<1>3. Parser!TypeOK
  BY <1>0, <1>1, <1>2, StatementFields DEF ParseTokens, ParseTree, Parser!TypeOK, AnyValue
<1>4. Parser!NothingIsLost
  <2>1. pc = "ok" => IdentifierBlock = 0
    BY <1>0 DEF ParseTree, IdentifierBlock
  <2>2. pc = "ok" => live = Parser!Owned
    BY <1>0, <2>1, OwnedType DEF ParseMemory
  <2> QED
    BY <1>0, <2>2 DEF ParseMemory, Parser!NothingIsLost, ParseEnds, Parser!Answers
<1> QED
  BY <1>0, <1>3, <1>4 DEF ParseTokens

-----------------------------------------------------------------------------
(* The language that parse_statement reads.                                *)

\* The types of the items of a list.
NameTypes == {"IDENTIFIER"}
ValueTypes == {"STRING", "NUMBER", "IDENTIFIER"}

\* A list from a place on: its items, and the commas behind them.
ItemsFrom(s, a, m, types) == \A k \in 1..m : s[a + 2 * k - 2].type \in types
CommasFrom(s, a, m) == \A k \in 1..m : s[a + 2 * k - 1].type = ","

\* What IsList says.
IsListOf(u, types) ==
  /\ Len(u) % 2 = 1
  /\ \A j \in 1..Len(u) : IF j % 2 = 1 THEN u[j].type \in types ELSE u[j].type = ","

LEMMA ListsAre ==
  ASSUME NEW u
  PROVE  /\ Parser!IsList(u, Parser!IsName) <=> IsListOf(u, NameTypes)
         /\ Parser!IsList(u, Parser!Literal) <=> IsListOf(u, ValueTypes)
<1>1. Parser!IsList(u, Parser!IsName) <=> IsListOf(u, NameTypes)
  BY DEF Parser!IsList, IsListOf, Parser!IsName, NameTypes
<1>2. Parser!IsList(u, Parser!Literal) <=> IsListOf(u, ValueTypes)
  BY DEF Parser!IsList, IsListOf, Parser!Literal, ValueTypes
<1> QED
  BY <1>1, <1>2

\* A part of a sequence that is a list, by the numbers of its items.
LEMMA ListIs ==
  ASSUME NEW X, NEW s \in Seq(X), NEW a \in Nat \ {0}, NEW b \in Nat, b <= Len(s), NEW types
  PROVE  IsListOf(SubSeq(s, a, b), types) <=>
           \E m \in Nat \ {0} : b = a + 2 * m - 2 /\ ItemsFrom(s, a, m, types) /\ CommasFrom(s, a, m - 1)
<1>1. PICK u, l : u = SubSeq(s, a, b) /\ l = Len(u)
  OBVIOUS
<1>2. /\ l = (IF a <= b THEN b - a + 1 ELSE 0) /\ l \in Nat
      /\ \A j \in 1..l : u[j] = s[a + j - 1]
  BY <1>1
<1>3. ASSUME IsListOf(u, types)
      PROVE  \E m \in Nat \ {0} : b = a + 2 * m - 2 /\ ItemsFrom(s, a, m, types) /\ CommasFrom(s, a, m - 1)
  <2>1. PICK m \in Nat : l = 2 * m - 1 /\ m >= 1
    <3>1. l % 2 = 1
      BY <1>1, <1>3 DEF IsListOf
    <3>2. l = 2 * ((l + 1) \div 2) - 1 /\ (l + 1) \div 2 >= 1 /\ (l + 1) \div 2 \in Nat
      BY <1>2, <3>1
    <3> QED
      BY <3>2
  <2>2. b = a + 2 * m - 2
    BY <1>2, <2>1
  <2>3. ASSUME NEW k \in 1..m PROVE s[a + 2 * k - 2].type \in types
    <3>1. PICK j : j = 2 * k - 1
      OBVIOUS
    <3>2. j \in 1..l /\ j % 2 = 1 /\ a + j - 1 = a + 2 * k - 2
      BY <2>1, <3>1
    <3>3. u[j].type \in types /\ u[j] = s[a + j - 1]
      BY <1>1, <1>2, <1>3, <3>2 DEF IsListOf
    <3> QED
      BY <3>2, <3>3
  <2>4. ASSUME NEW k \in 1..(m - 1) PROVE s[a + 2 * k - 1].type = ","
    <3>1. PICK j : j = 2 * k
      OBVIOUS
    <3>2. j \in 1..l /\ j % 2 # 1 /\ a + j - 1 = a + 2 * k - 1
      BY <2>1, <3>1
    <3>3. u[j].type = "," /\ u[j] = s[a + j - 1]
      BY <1>1, <1>2, <1>3, <3>2 DEF IsListOf
    <3> QED
      BY <3>2, <3>3
  <2>5. m \in Nat \ {0}
    BY <2>1
  <2> QED
    BY <2>2, <2>3, <2>4, <2>5 DEF ItemsFrom, CommasFrom
<1>4. ASSUME NEW m \in Nat \ {0}, b = a + 2 * m - 2, ItemsFrom(s, a, m, types), CommasFrom(s, a, m - 1)
      PROVE  IsListOf(u, types)
  <2>1. l = 2 * m - 1 /\ l % 2 = 1
    <3>1. l = 2 * m - 1
      BY <1>2, <1>4
    <3> QED
      BY ONLY <3>1, m \in Nat \ {0}
  <2>2. ASSUME NEW j \in 1..l, j % 2 = 1 PROVE u[j].type \in types
    <3>1. PICK k : k = (j + 1) \div 2
      OBVIOUS
    <3>2. j = 2 * k - 1 /\ k \in 1..m /\ a + j - 1 = a + 2 * k - 2
      BY <2>1, <2>2, <3>1
    <3>3. s[a + 2 * k - 2].type \in types
      BY <1>4, <3>2 DEF ItemsFrom
    <3> QED
      BY <1>2, <3>2, <3>3
  <2>3. ASSUME NEW j \in 1..l, j % 2 # 1 PROVE u[j].type = ","
    <3>1. PICK k : k = j \div 2
      OBVIOUS
    <3>2. j = 2 * k /\ k \in 1..(m - 1) /\ a + j - 1 = a + 2 * k - 1
      BY <2>1, <2>3, <3>1
    <3>3. s[a + 2 * k - 1].type = ","
      BY <1>4, <3>2 DEF CommasFrom
    <3> QED
      BY <1>2, <3>2, <3>3
  <2>4. \A j \in 1..l : IF j % 2 = 1 THEN u[j].type \in types ELSE u[j].type = ","
    BY <2>2, <2>3
  <2> QED
    BY <1>1, <2>1, <2>4, Zenon DEF IsListOf
<1> QED
  BY <1>1, <1>3, <1>4

\* The types of two tokens, and of three.
HasTwoTypes(u, a, b) == Len(u) = 2 /\ u[1].type = a /\ u[2].type = b
HasThreeTypes(u, a, b, c) ==
  Len(u) = 3 /\ u[1].type = a /\ u[2].type = b /\ u[3].type = c

LEMMA TypesAre ==
  ASSUME NEW X, NEW u \in Seq(X), NEW a, NEW b, NEW c
  PROVE  /\ Parser!Types(u) = <<a, b>> <=> HasTwoTypes(u, a, b)
         /\ Parser!Types(u) = <<a, b, c>> <=> HasThreeTypes(u, a, b, c)
<1>1. PICK v, n : v = Parser!Types(u) /\ n = Len(u)
  OBVIOUS
<1>2. n \in Nat /\ v = [i \in 1..n |-> u[i].type]
  BY <1>1 DEF Parser!Types
<1>3. PICK Y : Y = {a, b, c} \cup {v[i] : i \in 1..n}
  OBVIOUS
<1>4. v \in Seq(Y) /\ Len(v) = n /\ \A i \in 1..n : v[i] = u[i].type
  <2>1. \A i \in 1..n : v[i] = u[i].type /\ u[i].type \in Y
    BY <1>2, <1>3
  <2> QED
    BY <1>2, <2>1
<1>5. <<a, b>> \in Seq(Y) /\ <<a, b, c>> \in Seq(Y)
  BY <1>3
<1>6. v = <<a, b>> <=> n = 2 /\ v[1] = a /\ v[2] = b
  <2>1. ASSUME n = 2, v[1] = a, v[2] = b PROVE v = <<a, b>>
    <3>1. \A i \in 1..n : i = 1 \/ i = 2
      BY <2>1
    <3> QED
      BY <1>4, <1>5, <2>1, <3>1, SeqEqual
  <2> QED
    BY <1>4, <2>1
<1>7. v = <<a, b, c>> <=> n = 3 /\ v[1] = a /\ v[2] = b /\ v[3] = c
  <2>1. ASSUME n = 3, v[1] = a, v[2] = b, v[3] = c PROVE v = <<a, b, c>>
    <3>1. \A i \in 1..n : i = 1 \/ i = 2 \/ i = 3
      BY <2>1
    <3> QED
      BY <1>4, <1>5, <2>1, <3>1, SeqEqual
  <2>2. ASSUME v = <<a, b, c>> PROVE n = 3 /\ v[1] = a /\ v[2] = b /\ v[3] = c
    <3>1. Len(<<a, b, c>>) = 3
      OBVIOUS
    <3> QED
      BY <1>4, <2>2, <3>1
  <2> QED
    BY <2>1, <2>2
<1>8. (n = 2 => v[1] = u[1].type /\ v[2] = u[2].type)
      /\ (n = 3 => v[1] = u[1].type /\ v[2] = u[2].type /\ v[3] = u[3].type)
  BY <1>2, <1>4
<1> QED
  BY <1>1, <1>6, <1>7, <1>8 DEF HasTwoTypes, HasThreeTypes

\* An INSERT of m columns and v values, and where its parts stand.
InsertHead(s) ==
  /\ Parser!IsWord(s[1], "INSERT") /\ Parser!IsWord(s[2], "INTO")
  /\ Parser!IsName(s[3]) /\ s[4].type = "("

Insertion(s, m, v) ==
  /\ m \in Nat \ {0} /\ v \in Nat \ {0} /\ Len(s) = 2 * m + 2 * v + 8
  /\ InsertHead(s)
  /\ ItemsFrom(s, 5, m, NameTypes) /\ CommasFrom(s, 5, m - 1)
  /\ s[2 * m + 4].type = ")" /\ Parser!IsWord(s[2 * m + 5], "VALUES") /\ s[2 * m + 6].type = "("
  /\ ItemsFrom(s, 2 * m + 7, v, ValueTypes) /\ CommasFrom(s, 2 * m + 7, v - 1)
  /\ s[2 * m + 2 * v + 6].type = ")" /\ s[2 * m + 2 * v + 7].type = ";"
  /\ s[2 * m + 2 * v + 8].type = "END"

InsertShape(s, i) ==
  /\ Len(s) >= 11 /\ i \in 6..(Len(s) - 6 + 1) /\ InsertHead(s)
  /\ IsListOf(SubSeq(s, 5, i - 1), NameTypes)
  /\ s[i].type = ")" /\ Parser!IsWord(s[i + 1], "VALUES") /\ s[i + 2].type = "("
  /\ IsListOf(SubSeq(s, i + 3, Len(s) - 3), ValueTypes)
  /\ Parser!Types(SubSeq(s, Len(s) - 2, Len(s))) = <<")", ";", "END">>

LEMMA InsertFormIs ==
  ASSUME NEW X, NEW s \in Seq(X), NEW i
  PROVE  Parser!InsertForm(s, i) <=> \E m, v : Insertion(s, m, v) /\ i = 2 * m + 4
<1>1. PICK l : l = Len(s)
  OBVIOUS
<1>2. l \in Nat
  BY <1>1
<1>3. Parser!InsertForm(s, i) <=> InsertShape(s, i)
  BY ListsAre, Zenon DEF Parser!InsertForm, InsertHead, InsertShape
<1>4. ASSUME l >= 3
      PROVE  Parser!Types(SubSeq(s, l - 2, l)) = <<")", ";", "END">> <=>
               s[l - 2].type = ")" /\ s[l - 1].type = ";" /\ s[l].type = "END"
  <2>1. PICK u : u = SubSeq(s, l - 2, l)
    OBVIOUS
  <2>2. u \in Seq(X) /\ Len(u) = 3 /\ u[1] = s[l - 2] /\ u[2] = s[l - 1] /\ u[3] = s[l]
    BY <1>1, <1>2, <1>4, <2>1
  <2>3. Parser!Types(u) = <<")", ";", "END">> <=> HasThreeTypes(u, ")", ";", "END")
    <3>1. u \in Seq(X)
      BY <2>2
    <3> QED
      BY ONLY <3>1, TypesAre, Zenon
  <2> QED
    BY <2>1, <2>2, <2>3 DEF HasThreeTypes
<1>5. ASSUME Parser!InsertForm(s, i)
      PROVE  \E m, v : Insertion(s, m, v) /\ i = 2 * m + 4
  <2>0. /\ l >= 11 /\ i \in 6..(l - 6 + 1) /\ InsertHead(s)
        /\ IsListOf(SubSeq(s, 5, i - 1), NameTypes)
        /\ s[i].type = ")" /\ Parser!IsWord(s[i + 1], "VALUES") /\ s[i + 2].type = "("
        /\ IsListOf(SubSeq(s, i + 3, l - 3), ValueTypes)
        /\ Parser!Types(SubSeq(s, l - 2, l)) = <<")", ";", "END">>
    BY <1>1, <1>3, <1>5, Zenon DEF InsertShape
  <2>1. /\ l >= 11 /\ i \in 6..(l - 6 + 1) /\ i \in Nat
        /\ 5 \in Nat \ {0} /\ i - 1 \in Nat /\ i - 1 <= Len(s)
        /\ i + 3 \in Nat \ {0} /\ l - 3 \in Nat /\ l - 3 <= Len(s)
    <3>1. l >= 11 /\ i \in 6..(l - 6 + 1)
      BY <2>0, Zenon
    <3> QED
      BY ONLY <3>1, <1>1, <1>2
  <2>2. PICK m \in Nat \ {0} :
          i - 1 = 5 + 2 * m - 2 /\ ItemsFrom(s, 5, m, NameTypes) /\ CommasFrom(s, 5, m - 1)
    BY <2>0, <2>1, ListIs
  <2>3. PICK v \in Nat \ {0} :
          /\ l - 3 = i + 3 + 2 * v - 2
          /\ ItemsFrom(s, i + 3, v, ValueTypes) /\ CommasFrom(s, i + 3, v - 1)
    <3>1. PICK a, b : a = i + 3 /\ b = l - 3
      OBVIOUS
    <3>2. a \in Nat \ {0} /\ b \in Nat /\ b <= Len(s) /\ IsListOf(SubSeq(s, a, b), ValueTypes)
      BY <2>0, <2>1, <3>1
    <3>3. \E v \in Nat \ {0} :
            b = a + 2 * v - 2 /\ ItemsFrom(s, a, v, ValueTypes) /\ CommasFrom(s, a, v - 1)
      BY <3>2, ListIs
    <3> QED
      BY <3>1, <3>3
  <2>4. /\ i = 2 * m + 4 /\ l = 2 * m + 2 * v + 8 /\ i + 1 = 2 * m + 5 /\ i + 2 = 2 * m + 6
        /\ i + 3 = 2 * m + 7 /\ l - 2 = 2 * m + 2 * v + 6 /\ l - 1 = 2 * m + 2 * v + 7
    BY <1>2, <2>1, <2>2, <2>3
  <2>5. s[l - 2].type = ")" /\ s[l - 1].type = ";" /\ s[l].type = "END"
    <3>1. l >= 3
      BY ONLY <1>2, <2>1
    <3> QED
      BY <1>4, <2>0, <3>1, Zenon
  <2>6. /\ ItemsFrom(s, 2 * m + 7, v, ValueTypes) /\ CommasFrom(s, 2 * m + 7, v - 1)
        /\ s[2 * m + 4].type = ")" /\ Parser!IsWord(s[2 * m + 5], "VALUES")
        /\ s[2 * m + 6].type = "("
    BY <2>0, <2>3, <2>4
  <2>7. /\ s[2 * m + 2 * v + 6].type = ")" /\ s[2 * m + 2 * v + 7].type = ";"
        /\ s[2 * m + 2 * v + 8].type = "END"
    BY <2>4, <2>5
  <2>8. Insertion(s, m, v)
    BY <1>1, <2>0, <2>2, <2>4, <2>6, <2>7 DEF Insertion
  <2> QED
    BY <2>4, <2>8
<1>6. ASSUME NEW m, NEW v, Insertion(s, m, v), i = 2 * m + 4
      PROVE  Parser!InsertForm(s, i)
  <2>1. /\ m \in Nat \ {0} /\ v \in Nat \ {0} /\ l = 2 * m + 2 * v + 8
        /\ InsertHead(s)
        /\ ItemsFrom(s, 5, m, NameTypes) /\ CommasFrom(s, 5, m - 1)
        /\ s[2 * m + 4].type = ")" /\ Parser!IsWord(s[2 * m + 5], "VALUES")
        /\ s[2 * m + 6].type = "("
        /\ ItemsFrom(s, 2 * m + 7, v, ValueTypes) /\ CommasFrom(s, 2 * m + 7, v - 1)
        /\ s[2 * m + 2 * v + 6].type = ")" /\ s[2 * m + 2 * v + 7].type = ";"
        /\ s[2 * m + 2 * v + 8].type = "END"
    BY <1>1, <1>6 DEF Insertion
  <2>2. /\ i = 2 * m + 4 /\ i + 1 = 2 * m + 5 /\ i + 2 = 2 * m + 6 /\ i + 3 = 2 * m + 7
        /\ l - 2 = 2 * m + 2 * v + 6 /\ l - 1 = 2 * m + 2 * v + 7 /\ l >= 11 /\ l >= 3
        /\ i \in 6..(l - 6 + 1) /\ i - 1 = 5 + 2 * m - 2 /\ l - 3 = (i + 3) + 2 * v - 2
        /\ i - 1 \in Nat /\ i - 1 <= l /\ i + 3 \in Nat \ {0} /\ l - 3 \in Nat
        /\ l - 3 <= l
    <3>1. m \in Nat \ {0} /\ v \in Nat \ {0} /\ l = 2 * m + 2 * v + 8 /\ i = 2 * m + 4
      BY <1>6, <2>1, Zenon
    <3>2. m \in Nat /\ m >= 1 /\ v \in Nat /\ v >= 1
      BY ONLY <3>1
    <3> QED
      BY ONLY <1>2, <3>1, <3>2
  <2>3. IsListOf(SubSeq(s, 5, i - 1), NameTypes)
    <3>1. PICK b : b = i - 1
      OBVIOUS
    <3>2. 5 \in Nat \ {0} /\ b \in Nat /\ b <= Len(s) /\ b = 5 + 2 * m - 2
      BY <1>1, <2>2, <3>1
    <3>3. IsListOf(SubSeq(s, 5, b), NameTypes)
      BY <2>1, <3>2, ListIs
    <3> QED
      BY <3>1, <3>3
  <2>4. IsListOf(SubSeq(s, i + 3, l - 3), ValueTypes)
    <3>1. PICK a, b : a = i + 3 /\ b = l - 3
      OBVIOUS
    <3>2. /\ a \in Nat \ {0} /\ b \in Nat /\ b <= Len(s) /\ b = a + 2 * v - 2
          /\ ItemsFrom(s, a, v, ValueTypes) /\ CommasFrom(s, a, v - 1)
      BY <1>1, <2>1, <2>2, <3>1
    <3>3. IsListOf(SubSeq(s, a, b), ValueTypes)
      BY <2>1, <3>2, ListIs
    <3> QED
      BY <3>1, <3>3
  <2>5. s[l - 2].type = ")" /\ s[l - 1].type = ";" /\ s[l].type = "END"
    BY <2>1, <2>2
  <2>6. Parser!Types(SubSeq(s, l - 2, l)) = <<")", ";", "END">>
    BY <1>4, <2>2, <2>5
  <2>7. s[i].type = ")" /\ Parser!IsWord(s[i + 1], "VALUES") /\ s[i + 2].type = "("
    BY <2>1, <2>2
  <2>8. InsertShape(s, i)
    BY <1>1, <2>1, <2>2, <2>3, <2>4, <2>6, <2>7 DEF InsertShape
  <2> QED
    BY <1>3, <2>8
<1> QED
  BY <1>5, <1>6

\* A SELECT of w items, with the four tokens of a filter or without, and where
\* its parts stand.
SelectList(s, w) ==
  /\ w \in Nat \ {0} /\ Parser!IsWord(s[1], "SELECT")
  /\ \/ w = 1 /\ s[2].type = "*"
     \/ ItemsFrom(s, 2, w, NameTypes) /\ CommasFrom(s, 2, w - 1)

SelectTable(s, w) ==
  /\ SelectList(s, w)
  /\ Parser!IsWord(s[2 * w + 1], "FROM") /\ Parser!IsName(s[2 * w + 2])

SelectFilter(s, w) ==
  /\ Parser!IsWord(s[2 * w + 3], "WHERE") /\ Parser!IsName(s[2 * w + 4])
  /\ s[2 * w + 5].type = "=" /\ s[2 * w + 6].type \in ValueTypes

Selection(s, w, f) ==
  /\ SelectTable(s, w)
  /\ f \in {0, 4} /\ Len(s) = 2 * w + 4 + f
  /\ f = 4 => SelectFilter(s, w)
  /\ s[2 * w + 3 + f].type = ";" /\ s[2 * w + 4 + f].type = "END"

\* What follows the table of a SELECT.
SelectRest(r) ==
  \/ HasTwoTypes(r, ";", "END")
  \/ /\ Len(r) = 6
     /\ Parser!IsWord(r[1], "WHERE") /\ Parser!IsName(r[2])
     /\ r[3].type = "=" /\ r[4].type \in ValueTypes
     /\ r[5].type = ";" /\ r[6].type = "END"

SelectRestWritten(r) ==
  \/ Parser!Types(r) = <<";", "END">>
  \/ /\ Len(r) = 6
     /\ Parser!IsWord(r[1], "WHERE") /\ Parser!IsName(r[2])
     /\ r[3].type = "=" /\ Parser!Literal(r[4])
     /\ Parser!Types(SubSeq(r, 5, 6)) = <<";", "END">>

SelectShape(s, i) ==
  /\ i \in 3..(Len(s) - 3)
  /\ Parser!IsWord(s[1], "SELECT")
  /\ (i = 3 /\ s[2].type = "*") \/ IsListOf(SubSeq(s, 2, i - 1), NameTypes)
  /\ Parser!IsWord(s[i], "FROM") /\ Parser!IsName(s[i + 1])
  /\ SelectRestWritten(SubSeq(s, i + 2, Len(s)))

LEMMA SelectRestIs ==
  ASSUME NEW X, NEW r \in Seq(X)
  PROVE  SelectRestWritten(r) <=> SelectRest(r)
<1>1. Parser!Types(r) = <<";", "END">> <=> HasTwoTypes(r, ";", "END")
  BY TypesAre, Zenon
<1>2. ASSUME Len(r) = 6
      PROVE  Parser!Types(SubSeq(r, 5, 6)) = <<";", "END">> <=> r[5].type = ";" /\ r[6].type = "END"
  <2>1. PICK u : u = SubSeq(r, 5, 6)
    OBVIOUS
  <2>2. u \in Seq(X) /\ Len(u) = 2 /\ u[1] = r[5] /\ u[2] = r[6]
    <3>1. PICK a, b : a = 5 /\ b = 6
      OBVIOUS
    <3>2. a \in Int /\ b \in Int /\ \A i \in a..b : r[i] \in X
      <4>1. PICK l : l = Len(r)
        OBVIOUS
      <4>2. \A i \in 1..l : r[i] \in X
        BY <4>1
      <4>3. a \in Int /\ b \in Int /\ a..b \subseteq 1..l
        BY <1>2, <3>1, <4>1
      <4> QED
        BY <4>2, <4>3
    <3>3. /\ SubSeq(r, a, b) \in Seq(X)
          /\ Len(SubSeq(r, a, b)) = IF a <= b THEN b - a + 1 ELSE 0
          /\ \A i \in 1..(b - a + 1) : SubSeq(r, a, b)[i] = r[a + i - 1]
      BY ONLY <3>2, SubSeqProperties
    <3> QED
      BY <2>1, <3>1, <3>3
  <2>3. Parser!Types(u) = <<";", "END">> <=> HasTwoTypes(u, ";", "END")
    <3>1. u \in Seq(X)
      BY <2>2
    <3> QED
      BY ONLY <3>1, TypesAre, Zenon
  <2> QED
    BY <2>1, <2>2, <2>3 DEF HasTwoTypes
<1>3. Parser!Literal(r[4]) <=> r[4].type \in ValueTypes
  BY DEF Parser!Literal, ValueTypes
<1> QED
  BY <1>1, <1>2, <1>3, Zenon DEF SelectRest, SelectRestWritten

LEMMA SelectFormIs ==
  ASSUME NEW X, NEW s \in Seq(X), NEW i
  PROVE  Parser!SelectForm(s, i) <=> \E w, f : Selection(s, w, f) /\ i = 2 * w + 1
<1>1. PICK l : l = Len(s)
  OBVIOUS
<1>2. l \in Nat
  BY <1>1
<1>3. Parser!SelectForm(s, i) <=> SelectShape(s, i)
  BY ListsAre, Zenon DEF Parser!SelectForm, SelectShape, SelectRestWritten
<1>4. ASSUME NEW a \in Nat \ {0}, a <= l
      PROVE  SelectRestWritten(SubSeq(s, a, l)) <=>
               \/ l = a + 1 /\ s[a].type = ";" /\ s[a + 1].type = "END"
               \/ /\ l = a + 5
                  /\ Parser!IsWord(s[a], "WHERE") /\ Parser!IsName(s[a + 1])
                  /\ s[a + 2].type = "=" /\ s[a + 3].type \in ValueTypes
                  /\ s[a + 4].type = ";" /\ s[a + 5].type = "END"
  <2>1. PICK r : r = SubSeq(s, a, l)
    OBVIOUS
  <2>2. r \in Seq(X) /\ Len(r) = l - a + 1 /\ \A j \in 1..Len(r) : r[j] = s[a + j - 1]
    BY <1>1, <1>2, <1>4, <2>1
  <2>3. SelectRestWritten(r) <=> SelectRest(r)
    BY <2>2, SelectRestIs
  <2>4. CASE l = a + 1
    <3>1. Len(r) = 2 /\ r[1] = s[a] /\ r[2] = s[a + 1] /\ l # a + 5 /\ Len(r) # 6
      BY <2>2, <2>4
    <3> QED
      BY <2>1, <2>3, <2>4, <3>1, Zenon DEF SelectRest, HasTwoTypes
  <2>5. CASE l = a + 5
    <3>1. /\ Len(r) = 6 /\ r[1] = s[a] /\ r[2] = s[a + 1] /\ r[3] = s[a + 2] /\ r[4] = s[a + 3]
          /\ r[5] = s[a + 4] /\ r[6] = s[a + 5] /\ l # a + 1 /\ Len(r) # 2
      BY <2>2, <2>5
    <3> QED
      BY <2>1, <2>3, <2>5, <3>1, Zenon DEF SelectRest, HasTwoTypes
  <2>6. CASE l # a + 1 /\ l # a + 5
    <3>1. Len(r) # 2 /\ Len(r) # 6
      BY <1>2, <1>4, <2>2, <2>6
    <3> QED
      BY <2>1, <2>3, <2>6, <3>1, Zenon DEF SelectRest, HasTwoTypes
  <2> QED
    BY <2>4, <2>5, <2>6
<1>5. ASSUME Parser!SelectForm(s, i)
      PROVE  \E w, f : Selection(s, w, f) /\ i = 2 * w + 1
  <2>0. /\ i \in 3..(l - 3)
        /\ Parser!IsWord(s[1], "SELECT")
        /\ (i = 3 /\ s[2].type = "*") \/ IsListOf(SubSeq(s, 2, i - 1), NameTypes)
        /\ Parser!IsWord(s[i], "FROM") /\ Parser!IsName(s[i + 1])
        /\ SelectRestWritten(SubSeq(s, i + 2, l))
    BY <1>1, <1>3, <1>5, Zenon DEF SelectShape
  <2>1. i \in Nat /\ i >= 3 /\ i <= l - 3 /\ i - 1 \in Nat /\ i - 1 <= Len(s)
    <3>1. i \in 3..(l - 3)
      BY <2>0, Zenon
    <3> QED
      BY ONLY <1>1, <1>2, <3>1
  <2>2. PICK w \in Nat \ {0} : i = 2 * w + 1 /\ SelectTable(s, w)
    <3>1. PICK w \in Nat \ {0} : i = 2 * w + 1 /\ SelectList(s, w)
      <4>1. CASE i = 3 /\ s[2].type = "*"
        <5>1. 1 \in Nat \ {0} /\ i = 2 * 1 + 1
          BY ONLY <4>1
        <5>2. SelectList(s, 1)
          BY <2>0, <4>1, <5>1, Zenon DEF SelectList
        <5> QED
          BY <5>1, <5>2
      <4>2. CASE IsListOf(SubSeq(s, 2, i - 1), NameTypes)
        <5>1. PICK b : b = i - 1
          OBVIOUS
        <5>2. b \in Nat /\ b <= Len(s) /\ 2 \in Nat \ {0} /\ IsListOf(SubSeq(s, 2, b), NameTypes)
          BY <2>1, <4>2, <5>1
        <5>3. PICK w \in Nat \ {0} :
                b = 2 + 2 * w - 2 /\ ItemsFrom(s, 2, w, NameTypes) /\ CommasFrom(s, 2, w - 1)
          BY <5>2, ListIs
        <5>4. i = 2 * w + 1
          BY ONLY <2>1, <5>1, <5>3
        <5>5. SelectList(s, w)
          BY <2>0, <5>3, Zenon DEF SelectList
        <5> QED
          BY <5>4, <5>5
      <4> QED
        BY <2>0, <4>1, <4>2
    <3>2. i + 1 = 2 * w + 2
      BY <3>1
    <3>3. SelectTable(s, w)
      BY <2>0, <3>1, <3>2 DEF SelectTable
    <3> QED
      BY <3>1, <3>3
  <2>3. PICK a : a = i + 2
    OBVIOUS
  <2>4. /\ a \in Nat \ {0} /\ a <= l /\ a = 2 * w + 3 /\ a + 1 = 2 * w + 4 /\ a + 2 = 2 * w + 5
        /\ a + 3 = 2 * w + 6 /\ a + 4 = 2 * w + 7 /\ a + 5 = 2 * w + 8
    BY <1>2, <2>1, <2>2, <2>3
  <2>5. \/ l = a + 1 /\ s[a].type = ";" /\ s[a + 1].type = "END"
        \/ /\ l = a + 5
           /\ Parser!IsWord(s[a], "WHERE") /\ Parser!IsName(s[a + 1])
           /\ s[a + 2].type = "=" /\ s[a + 3].type \in ValueTypes
           /\ s[a + 4].type = ";" /\ s[a + 5].type = "END"
    <3>1. SelectRestWritten(SubSeq(s, a, l))
      BY <2>0, <2>3
    <3> QED
      BY <1>4, <2>4, <3>1
  <2>6. CASE l = a + 1 /\ s[a].type = ";" /\ s[a + 1].type = "END"
    <3>0. l = a + 1
      BY <2>6, Zenon
    <3>1. Len(s) = 2 * w + 4 + 0 /\ a = 2 * w + 3 + 0 /\ a + 1 = 2 * w + 4 + 0 /\ 0 \in {0, 4} /\ 0 # 4
      BY ONLY <1>1, <2>4, <3>0, w \in Nat \ {0}
    <3>2. Selection(s, w, 0)
      BY <2>2, <2>6, <3>1 DEF Selection
    <3> QED
      BY <2>2, <3>2
  <2>7. CASE /\ l = a + 5
             /\ Parser!IsWord(s[a], "WHERE") /\ Parser!IsName(s[a + 1])
             /\ s[a + 2].type = "=" /\ s[a + 3].type \in ValueTypes
             /\ s[a + 4].type = ";" /\ s[a + 5].type = "END"
    <3>0. l = a + 5
      BY <2>7, Zenon
    <3>1. Len(s) = 2 * w + 4 + 4 /\ a + 4 = 2 * w + 3 + 4 /\ a + 5 = 2 * w + 4 + 4 /\ 4 \in {0, 4}
      BY ONLY <1>1, <2>4, <3>0, w \in Nat \ {0}
    <3>2. SelectFilter(s, w)
      BY <2>4, <2>7 DEF SelectFilter
    <3>3. Selection(s, w, 4)
      BY <2>2, <2>7, <3>1, <3>2 DEF Selection
    <3> QED
      BY <2>2, <3>3
  <2> QED
    BY <2>5, <2>6, <2>7
<1>6. ASSUME NEW w, NEW f, Selection(s, w, f), i = 2 * w + 1
      PROVE  Parser!SelectForm(s, i)
  <2>1. /\ w \in Nat \ {0} /\ Parser!IsWord(s[1], "SELECT")
        /\ \/ w = 1 /\ s[2].type = "*"
           \/ ItemsFrom(s, 2, w, NameTypes) /\ CommasFrom(s, 2, w - 1)
        /\ Parser!IsWord(s[2 * w + 1], "FROM") /\ Parser!IsName(s[2 * w + 2])
        /\ f \in {0, 4} /\ l = 2 * w + 4 + f
        /\ f = 4 => SelectFilter(s, w)
        /\ s[2 * w + 3 + f].type = ";" /\ s[2 * w + 4 + f].type = "END"
    BY <1>1, <1>6 DEF Selection, SelectTable, SelectList
  <2>2. w \in Nat \ {0} /\ f \in {0, 4} /\ l = 2 * w + 4 + f /\ i = 2 * w + 1
    BY <1>6, <2>1, Zenon
  <2>3. PICK a, b : a = i + 2 /\ b = i - 1
    OBVIOUS
  <2>4. /\ i \in 3..(l - 3) /\ a \in Nat \ {0} /\ a <= l /\ b \in Nat /\ b <= Len(s)
        /\ 2 \in Nat \ {0} /\ b = 2 + 2 * w - 2 /\ i + 1 = 2 * w + 2
    BY ONLY <1>1, <1>2, <2>2, <2>3
  <2>5. (i = 3 /\ s[2].type = "*") \/ IsListOf(SubSeq(s, 2, b), NameTypes)
    <3>1. CASE w = 1 /\ s[2].type = "*"
      BY <2>2, <3>1
    <3>2. CASE ItemsFrom(s, 2, w, NameTypes) /\ CommasFrom(s, 2, w - 1)
      <4>1. IsListOf(SubSeq(s, 2, b), NameTypes)
        BY <2>2, <2>4, <3>2, ListIs
      <4> QED
        BY <4>1
    <3> QED
      BY <2>1, <3>1, <3>2
  <2>6. SelectRestWritten(SubSeq(s, a, l))
    <3>1. CASE f = 0
      <4>1. l = a + 1 /\ a = 2 * w + 3 + f /\ a + 1 = 2 * w + 4 + f
        BY ONLY <1>2, <2>2, <2>3, <3>1
      <4>2. l = a + 1 /\ s[a].type = ";" /\ s[a + 1].type = "END"
        BY <2>1, <4>1
      <4> QED
        BY <1>4, <2>4, <4>2
    <3>2. CASE f = 4
      <4>1. /\ l = a + 5 /\ a + 4 = 2 * w + 3 + f /\ a + 5 = 2 * w + 4 + f /\ a = 2 * w + 3
            /\ a + 1 = 2 * w + 4 /\ a + 2 = 2 * w + 5 /\ a + 3 = 2 * w + 6
        BY ONLY <1>2, <2>2, <2>3, <3>2
      <4>2. /\ Parser!IsWord(s[2 * w + 3], "WHERE") /\ Parser!IsName(s[2 * w + 4])
            /\ s[2 * w + 5].type = "=" /\ s[2 * w + 6].type \in ValueTypes
        BY <2>1, <3>2 DEF SelectFilter
      <4>3. /\ l = a + 5
            /\ Parser!IsWord(s[a], "WHERE") /\ Parser!IsName(s[a + 1])
            /\ s[a + 2].type = "=" /\ s[a + 3].type \in ValueTypes
            /\ s[a + 4].type = ";" /\ s[a + 5].type = "END"
        BY <2>1, <4>1, <4>2
      <4> QED
        BY <1>4, <2>4, <4>3
    <3> QED
      BY <2>2, <3>1, <3>2
  <2>7. SelectShape(s, i)
    BY <1>1, <2>1, <2>2, <2>3, <2>4, <2>5, <2>6, Zenon DEF SelectShape
  <2> QED
    BY <1>3, <2>7
<1> QED
  BY <1>5, <1>6

-----------------------------------------------------------------------------
(* What the parser has read where it stands.                               *)

\* The columns of an INSERT: m names and k commas, and then the values.
ColumnsRead(s, m, k) ==
  InsertHead(s) /\ ItemsFrom(s, 5, m, NameTypes) /\ CommasFrom(s, 5, k)

ColumnsClosed(s, m) ==
  m \in Nat \ {0} /\ ColumnsRead(s, m, m - 1) /\ s[2 * m + 4].type = ")"

ValuesRead(s, m, v, k) ==
  /\ ColumnsClosed(s, m)
  /\ Parser!IsWord(s[2 * m + 5], "VALUES") /\ s[2 * m + 6].type = "("
  /\ ItemsFrom(s, 2 * m + 7, v, ValueTypes) /\ CommasFrom(s, 2 * m + 7, k)

ValuesClosed(s, m, v) ==
  /\ v \in Nat \ {0} /\ ValuesRead(s, m, v, v - 1)
  /\ s[2 * m + 2 * v + 6].type = ")"

\* An INSERT read up to place p, n tokens of s.
InsertRead(p, s, n, m, v) ==
  /\ p \notin {"selectList", "from", "where", "whereColumn", "equals", "whereValue", "connector?"}
  /\ p \in {"statement", "into", "table", "columnsOpen"} => m = 0 /\ v = 0
  /\ p \in {"column", "pushColumn", "moreColumns", "columnsClose", "valuesWord", "valuesOpen"} =>
       v = 0
  /\ p = "statement" => n = 0
  /\ p = "into" => n = 1 /\ Parser!IsWord(s[1], "INSERT")
  /\ p = "table" => n = 2 /\ Parser!IsWord(s[1], "INSERT") /\ Parser!IsWord(s[2], "INTO")
  /\ p = "columnsOpen" =>
       /\ n = 3 /\ Parser!IsWord(s[1], "INSERT") /\ Parser!IsWord(s[2], "INTO")
       /\ Parser!IsName(s[3])
  /\ p = "column" => n = 2 * m + 4 /\ ColumnsRead(s, m, m)
  /\ p = "pushColumn" =>
       n = 2 * m + 5 /\ ColumnsRead(s, m, m) /\ Parser!IsName(s[2 * m + 5])
  /\ p \in {"moreColumns", "columnsClose"} =>
       m \in Nat \ {0} /\ n = 2 * m + 3 /\ ColumnsRead(s, m, m - 1)
  /\ p = "columnsClose" => Len(s) >= 2 * m + 4 /\ s[2 * m + 4].type # ","
  /\ p = "valuesWord" => n = 2 * m + 4 /\ ColumnsClosed(s, m)
  /\ p = "valuesOpen" =>
       n = 2 * m + 5 /\ ColumnsClosed(s, m) /\ Parser!IsWord(s[2 * m + 5], "VALUES")
  /\ p = "value" => n = 2 * m + 2 * v + 6 /\ ValuesRead(s, m, v, v)
  /\ p \in {"moreValues", "valuesClose"} =>
       v \in Nat \ {0} /\ n = 2 * m + 2 * v + 5 /\ ValuesRead(s, m, v, v - 1)
  /\ p = "valuesClose" => Len(s) >= 2 * m + 2 * v + 6 /\ s[2 * m + 2 * v + 6].type # ","
  /\ p = "semicolon" => n = 2 * m + 2 * v + 6 /\ ValuesClosed(s, m, v)
  /\ p = "end" =>
       n = 2 * m + 2 * v + 7 /\ ValuesClosed(s, m, v) /\ s[2 * m + 2 * v + 7].type = ";"
  /\ p = "ok" => n = 2 * m + 2 * v + 8 /\ Insertion(s, m, v)

\* A SELECT read up to place p, n tokens of s.
SelectRead(p, s, n, w, f) ==
  /\ p \notin {"statement", "into", "columnsOpen", "columnsClose", "valuesWord", "valuesOpen",
               "value", "moreValues", "valuesClose"}
  /\ f \in {0, 4}
  /\ p \notin {"semicolon", "end", "ok"} => f = 0
  /\ p = "selectList" => n = 1 /\ w = 0 /\ Parser!IsWord(s[1], "SELECT")
  /\ p = "column" =>
       /\ n = 2 * w + 1 /\ w \in Nat \ {0} /\ Parser!IsWord(s[1], "SELECT")
       /\ ItemsFrom(s, 2, w, NameTypes) /\ CommasFrom(s, 2, w)
  /\ p = "pushColumn" =>
       /\ n = 2 * w + 2 /\ Parser!IsWord(s[1], "SELECT") /\ Parser!IsName(s[2 * w + 2])
       /\ ItemsFrom(s, 2, w, NameTypes) /\ CommasFrom(s, 2, w)
  /\ p \in {"moreColumns", "from"} => n = 2 * w /\ SelectList(s, w)
  /\ p = "moreColumns" => s[2].type # "*"
  /\ p = "from" /\ s[2].type # "*" => Len(s) >= 2 * w + 1 /\ s[2 * w + 1].type # ","
  /\ p = "table" => n = 2 * w + 1 /\ SelectList(s, w) /\ Parser!IsWord(s[2 * w + 1], "FROM")
  /\ p = "where" => n = 2 * w + 2 /\ SelectTable(s, w)
  /\ p = "whereColumn" =>
       n = 2 * w + 3 /\ SelectTable(s, w) /\ Parser!IsWord(s[2 * w + 3], "WHERE")
  /\ p = "equals" =>
       /\ n = 2 * w + 4 /\ SelectTable(s, w) /\ Parser!IsWord(s[2 * w + 3], "WHERE")
       /\ Parser!IsName(s[2 * w + 4])
  /\ p = "whereValue" =>
       /\ n = 2 * w + 5 /\ SelectTable(s, w) /\ Parser!IsWord(s[2 * w + 3], "WHERE")
       /\ Parser!IsName(s[2 * w + 4]) /\ s[2 * w + 5].type = "="
  /\ p = "connector?" => n = 2 * w + 6 /\ SelectTable(s, w) /\ SelectFilter(s, w)
  /\ p \in {"semicolon", "end", "ok"} /\ f = 4 => SelectFilter(s, w)
  /\ p = "semicolon" => n = 2 * w + 2 + f /\ SelectTable(s, w)
  /\ p = "semicolon" /\ f = 0 =>
       Len(s) >= 2 * w + 3 /\ ~Parser!IsWord(s[2 * w + 3], "WHERE")
  /\ p = "end" => n = 2 * w + 3 + f /\ SelectTable(s, w) /\ s[2 * w + 3 + f].type = ";"
  /\ p = "ok" => n = 2 * w + 4 + f /\ Selection(s, w, f)

-----------------------------------------------------------------------------
(* What was read stays read when tokens follow.                            *)

Extends(u, s) ==
  Len(s) \in Nat /\ Len(u) \in Nat /\ Len(u) >= Len(s) /\ \A j \in 1..Len(s) : u[j] = s[j]

LEMMA ListKept ==
  ASSUME NEW s, NEW u, Extends(u, s), NEW a \in Nat \ {0}, NEW m \in Nat, NEW types
  PROVE  /\ a + 2 * m - 2 <= Len(s) /\ ItemsFrom(s, a, m, types) => ItemsFrom(u, a, m, types)
         /\ a + 2 * m - 1 <= Len(s) /\ CommasFrom(s, a, m) => CommasFrom(u, a, m)
<1>1. PICK l : l = Len(s)
  OBVIOUS
<1>2. l \in Nat /\ \A j \in 1..l : u[j] = s[j]
  BY <1>1 DEF Extends
<1>3. ASSUME a + 2 * m - 2 <= l, ItemsFrom(s, a, m, types) PROVE ItemsFrom(u, a, m, types)
  <2>1. ASSUME NEW k \in 1..m PROVE u[a + 2 * k - 2].type \in types
    <3>1. PICK j : j = a + 2 * k - 2
      OBVIOUS
    <3>2. j \in 1..l
      BY <1>2, <1>3, <3>1
    <3>3. s[j].type \in types
      BY <1>3, <3>1 DEF ItemsFrom
    <3> QED
      BY <1>2, <3>1, <3>2, <3>3
  <2> QED
    BY <2>1 DEF ItemsFrom
<1>4. ASSUME a + 2 * m - 1 <= l, CommasFrom(s, a, m) PROVE CommasFrom(u, a, m)
  <2>1. ASSUME NEW k \in 1..m PROVE u[a + 2 * k - 1].type = ","
    <3>1. PICK j : j = a + 2 * k - 1
      OBVIOUS
    <3>2. j \in 1..l
      BY <1>2, <1>4, <3>1
    <3>3. s[j].type = ","
      BY <1>4, <3>1 DEF CommasFrom
    <3> QED
      BY <1>2, <3>1, <3>2, <3>3
  <2> QED
    BY <2>1 DEF CommasFrom
<1> QED
  BY <1>1, <1>3, <1>4

LEMMA ColumnsKept ==
  ASSUME NEW s, NEW u, Extends(u, s), NEW m \in Nat
  PROVE  /\ m # 0 /\ 2 * m + 3 <= Len(s) /\ ColumnsRead(s, m, m - 1) => ColumnsRead(u, m, m - 1)
         /\ 2 * m + 4 <= Len(s) /\ ColumnsRead(s, m, m) => ColumnsRead(u, m, m)
         /\ 2 * m + 4 <= Len(s) /\ ColumnsClosed(s, m) => ColumnsClosed(u, m)
<1>1. PICK l : l = Len(s)
  OBVIOUS
<1>2. l \in Nat /\ \A j \in 1..l : u[j] = s[j]
  BY <1>1 DEF Extends
<1>3. 5 \in Nat \ {0}
  OBVIOUS
<1>4. ASSUME l >= 4, InsertHead(s) PROVE InsertHead(u)
  <2>1. u[1] = s[1] /\ u[2] = s[2] /\ u[3] = s[3] /\ u[4] = s[4]
    BY <1>2, <1>4
  <2> QED
    BY <1>4, <2>1 DEF InsertHead
<1>5. ASSUME m # 0, 2 * m + 3 <= l, ColumnsRead(s, m, m - 1) PROVE ColumnsRead(u, m, m - 1)
  <2>1. PICK k : k = m - 1
    OBVIOUS
  <2>2. k \in Nat /\ 5 + 2 * m - 2 <= l /\ 5 + 2 * k - 1 <= l /\ l >= 4
    BY <1>2, <1>5, <2>1
  <2>3. InsertHead(s) /\ ItemsFrom(s, 5, m, NameTypes) /\ CommasFrom(s, 5, k)
    BY <1>5, <2>1 DEF ColumnsRead
  <2>4. ItemsFrom(u, 5, m, NameTypes)
    BY <1>1, <1>3, <2>2, <2>3, ListKept
  <2>5. CommasFrom(u, 5, k)
    BY <1>1, <1>3, <2>2, <2>3, ListKept
  <2> QED
    BY <1>4, <2>1, <2>2, <2>3, <2>4, <2>5 DEF ColumnsRead
<1>6. ASSUME 2 * m + 4 <= l, ColumnsRead(s, m, m) PROVE ColumnsRead(u, m, m)
  <2>2. 5 + 2 * m - 2 <= l /\ 5 + 2 * m - 1 <= l /\ l >= 4
    BY <1>2, <1>6
  <2>3. InsertHead(s) /\ ItemsFrom(s, 5, m, NameTypes) /\ CommasFrom(s, 5, m)
    BY <1>6 DEF ColumnsRead
  <2>4. ItemsFrom(u, 5, m, NameTypes)
    BY <1>1, <1>3, <2>2, <2>3, ListKept
  <2>5. CommasFrom(u, 5, m)
    BY <1>1, <1>3, <2>2, <2>3, ListKept
  <2> QED
    BY <1>4, <2>2, <2>3, <2>4, <2>5 DEF ColumnsRead
<1>7. ASSUME 2 * m + 4 <= l, ColumnsClosed(s, m) PROVE ColumnsClosed(u, m)
  <2>1. m \in Nat \ {0} /\ ColumnsRead(s, m, m - 1) /\ s[2 * m + 4].type = ")"
    BY <1>7 DEF ColumnsClosed
  <2>2. m # 0 /\ 2 * m + 3 <= l /\ 2 * m + 4 \in 1..l
    BY <1>2, <1>7, <2>1
  <2>3. u[2 * m + 4].type = ")"
    BY <1>2, <2>1, <2>2
  <2> QED
    BY <1>5, <2>1, <2>2, <2>3 DEF ColumnsClosed
<1> QED
  BY <1>1, <1>5, <1>6, <1>7

LEMMA ValuesKept ==
  ASSUME NEW s, NEW u, Extends(u, s), NEW m \in Nat, NEW v \in Nat
  PROVE  /\ v # 0 /\ 2 * m + 2 * v + 5 <= Len(s) /\ ValuesRead(s, m, v, v - 1) =>
              ValuesRead(u, m, v, v - 1)
         /\ 2 * m + 2 * v + 6 <= Len(s) /\ ValuesRead(s, m, v, v) => ValuesRead(u, m, v, v)
         /\ 2 * m + 2 * v + 6 <= Len(s) /\ ValuesClosed(s, m, v) => ValuesClosed(u, m, v)
<1>1. PICK l, a : l = Len(s) /\ a = 2 * m + 7
  OBVIOUS
<1>2. l \in Nat /\ a \in Nat \ {0} /\ \A j \in 1..l : u[j] = s[j]
  BY <1>1 DEF Extends
<1>3. ASSUME l >= 2 * m + 6, NEW k, ValuesRead(s, m, v, k)
      PROVE  /\ ColumnsClosed(u, m)
             /\ Parser!IsWord(u[2 * m + 5], "VALUES") /\ u[2 * m + 6].type = "("
             /\ ItemsFrom(s, a, v, ValueTypes) /\ CommasFrom(s, a, k)
  <2>1. /\ ColumnsClosed(s, m)
        /\ Parser!IsWord(s[2 * m + 5], "VALUES") /\ s[2 * m + 6].type = "("
        /\ ItemsFrom(s, a, v, ValueTypes) /\ CommasFrom(s, a, k)
    BY <1>1, <1>3 DEF ValuesRead
  <2>2. 2 * m + 4 <= l /\ 2 * m + 5 \in 1..l /\ 2 * m + 6 \in 1..l
    BY <1>2, <1>3
  <2>3. ColumnsClosed(u, m)
    BY <1>1, <2>1, <2>2, ColumnsKept
  <2>4. u[2 * m + 5] = s[2 * m + 5] /\ u[2 * m + 6] = s[2 * m + 6]
    BY <1>2, <2>2
  <2> QED
    BY <2>1, <2>3, <2>4
<1>5. ASSUME v # 0, 2 * m + 2 * v + 5 <= l, ValuesRead(s, m, v, v - 1)
      PROVE  ValuesRead(u, m, v, v - 1)
  <2>1. PICK k : k = v - 1
    OBVIOUS
  <2>2. k \in Nat /\ a + 2 * v - 2 <= l /\ a + 2 * k - 1 <= l /\ l >= 2 * m + 6
    <3>1. v # 0 /\ 2 * m + 2 * v + 5 <= l
      BY <1>5, Zenon
    <3> QED
      BY ONLY <1>1, <1>2, <2>1, <3>1, m \in Nat, v \in Nat
  <2>3. /\ ColumnsClosed(u, m)
        /\ Parser!IsWord(u[2 * m + 5], "VALUES") /\ u[2 * m + 6].type = "("
        /\ ItemsFrom(s, a, v, ValueTypes) /\ CommasFrom(s, a, k)
    BY <1>3, <1>5, <2>1, <2>2
  <2>4. ItemsFrom(u, a, v, ValueTypes)
    BY <1>1, <1>2, <2>2, <2>3, ListKept
  <2>5. CommasFrom(u, a, k)
    BY <1>1, <1>2, <2>2, <2>3, ListKept
  <2> QED
    BY <1>1, <2>1, <2>3, <2>4, <2>5 DEF ValuesRead
<1>6. ASSUME 2 * m + 2 * v + 6 <= l, ValuesRead(s, m, v, v) PROVE ValuesRead(u, m, v, v)
  <2>2. a + 2 * v - 2 <= l /\ a + 2 * v - 1 <= l /\ l >= 2 * m + 6
    BY <1>1, <1>2, <1>6
  <2>3. /\ ColumnsClosed(u, m)
        /\ Parser!IsWord(u[2 * m + 5], "VALUES") /\ u[2 * m + 6].type = "("
        /\ ItemsFrom(s, a, v, ValueTypes) /\ CommasFrom(s, a, v)
    BY <1>3, <1>6, <2>2
  <2>4. ItemsFrom(u, a, v, ValueTypes)
    BY <1>1, <1>2, <2>2, <2>3, ListKept
  <2>5. CommasFrom(u, a, v)
    BY <1>1, <1>2, <2>2, <2>3, ListKept
  <2> QED
    BY <1>1, <2>3, <2>4, <2>5 DEF ValuesRead
<1>7. ASSUME 2 * m + 2 * v + 6 <= l, ValuesClosed(s, m, v) PROVE ValuesClosed(u, m, v)
  <2>1. /\ v \in Nat \ {0} /\ ValuesRead(s, m, v, v - 1)
        /\ s[2 * m + 2 * v + 6].type = ")"
    BY <1>7 DEF ValuesClosed
  <2>2. v # 0 /\ 2 * m + 2 * v + 5 <= l /\ 2 * m + 2 * v + 6 \in 1..l
    BY <1>2, <1>7, <2>1
  <2>3. u[2 * m + 2 * v + 6].type = ")"
    BY <1>2, <2>1, <2>2
  <2> QED
    BY <1>5, <2>1, <2>2, <2>3 DEF ValuesClosed
<1> QED
  BY <1>1, <1>5, <1>6, <1>7

LEMMA SelectKept ==
  ASSUME NEW s, NEW u, Extends(u, s), NEW w \in Nat
  PROVE  /\ w # 0 /\ 2 * w <= Len(s) /\ SelectList(s, w) => SelectList(u, w)
         /\ 2 * w + 1 <= Len(s) /\ ItemsFrom(s, 2, w, NameTypes) /\ CommasFrom(s, 2, w) =>
              ItemsFrom(u, 2, w, NameTypes) /\ CommasFrom(u, 2, w)
         /\ w # 0 /\ 2 * w + 2 <= Len(s) /\ SelectTable(s, w) => SelectTable(u, w)
         /\ w # 0 /\ 2 * w + 6 <= Len(s) /\ SelectFilter(s, w) => SelectFilter(u, w)
<1>1. PICK l : l = Len(s)
  OBVIOUS
<1>2. l \in Nat /\ \A j \in 1..l : u[j] = s[j]
  BY <1>1 DEF Extends
<1>3. 2 \in Nat \ {0}
  OBVIOUS
<1>5. ASSUME w # 0, 2 * w <= l, SelectList(s, w) PROVE SelectList(u, w)
  <2>1. PICK k : k = w - 1
    OBVIOUS
  <2>2. w \in Nat \ {0} /\ k \in Nat /\ 2 + 2 * w - 2 <= l /\ 2 + 2 * k - 1 <= l /\ 1 \in 1..l /\ 2 \in 1..l
    BY <1>2, <1>5, <2>1
  <2>3. /\ Parser!IsWord(s[1], "SELECT") /\ u[1] = s[1] /\ u[2] = s[2]
        /\ \/ w = 1 /\ s[2].type = "*"
           \/ ItemsFrom(s, 2, w, NameTypes) /\ CommasFrom(s, 2, k)
    BY <1>2, <1>5, <2>1, <2>2 DEF SelectList
  <2>4. ItemsFrom(s, 2, w, NameTypes) => ItemsFrom(u, 2, w, NameTypes)
    BY <1>1, <1>3, <2>2, ListKept
  <2>5. CommasFrom(s, 2, k) => CommasFrom(u, 2, k)
    BY <1>1, <1>3, <2>2, ListKept
  <2> QED
    BY <2>1, <2>2, <2>3, <2>4, <2>5, Zenon DEF SelectList
<1>6. ASSUME 2 * w + 1 <= l, ItemsFrom(s, 2, w, NameTypes), CommasFrom(s, 2, w)
      PROVE  ItemsFrom(u, 2, w, NameTypes) /\ CommasFrom(u, 2, w)
  <2>2. 2 + 2 * w - 2 <= l /\ 2 + 2 * w - 1 <= l
    BY <1>2, <1>6
  <2>4. ItemsFrom(u, 2, w, NameTypes)
    BY <1>1, <1>3, <1>6, <2>2, ListKept
  <2>5. CommasFrom(u, 2, w)
    BY <1>1, <1>3, <1>6, <2>2, ListKept
  <2> QED
    BY <2>4, <2>5
<1>7. ASSUME w # 0, 2 * w + 2 <= l, SelectTable(s, w) PROVE SelectTable(u, w)
  <2>1. 2 * w <= l /\ 2 * w + 1 \in 1..l /\ 2 * w + 2 \in 1..l
    BY <1>2, <1>7
  <2>2. u[2 * w + 1] = s[2 * w + 1] /\ u[2 * w + 2] = s[2 * w + 2]
    BY <1>2, <2>1
  <2> QED
    BY <1>5, <1>7, <2>1, <2>2 DEF SelectTable
<1>8. ASSUME w # 0, 2 * w + 6 <= l, SelectFilter(s, w) PROVE SelectFilter(u, w)
  <2>1. 2 * w + 3 \in 1..l /\ 2 * w + 4 \in 1..l /\ 2 * w + 5 \in 1..l /\ 2 * w + 6 \in 1..l
    BY <1>2, <1>8
  <2>2. /\ u[2 * w + 3] = s[2 * w + 3] /\ u[2 * w + 4] = s[2 * w + 4]
        /\ u[2 * w + 5] = s[2 * w + 5] /\ u[2 * w + 6] = s[2 * w + 6]
    BY <1>2, <2>1
  <2> QED
    BY <1>8, <2>2 DEF SelectFilter
<1> QED
  BY <1>1, <1>5, <1>6, <1>7, <1>8

LEMMA InsertReadKept ==
  ASSUME NEW p, NEW s, NEW u, NEW n, NEW m \in Nat, NEW v \in Nat,
         InsertRead(p, s, n, m, v), p # "ok", n <= Len(s), Extends(u, s)
  PROVE  InsertRead(p, u, n, m, v)
<1>1. PICK l : l = Len(s)
  OBVIOUS
<1>2. l \in Nat /\ n <= l /\ Len(u) \in Nat /\ Len(u) >= l /\ \A j \in 1..l : u[j] = s[j]
  BY <1>1 DEF Extends
<1>3. CASE p = "into"
  <2>1. /\ n = 1 /\ m = 0 /\ v = 0
        /\ Parser!IsWord(s[1], "INSERT")
    BY <1>1, <1>3 DEF InsertRead
  <2>2. n = 1 /\ m = 0 /\ v = 0
    BY <2>1, Zenon
  <2>3. l >= 1 /\ 1 \in 1..l
    BY ONLY <1>2, <2>2, m \in Nat, v \in Nat
  <2>5. u[1] = s[1]
    BY <1>2, <2>3
  <2> QED
    BY <1>3, <2>1, <2>2, <2>3, <2>5 DEF InsertRead
<1>4. CASE p = "table"
  <2>1. /\ n = 2 /\ m = 0 /\ v = 0
        /\ Parser!IsWord(s[1], "INSERT")
        /\ Parser!IsWord(s[2], "INTO")
    BY <1>1, <1>4 DEF InsertRead
  <2>2. n = 2 /\ m = 0 /\ v = 0
    BY <2>1, Zenon
  <2>3. l >= 2 /\ 1 \in 1..l /\ 2 \in 1..l
    BY ONLY <1>2, <2>2, m \in Nat, v \in Nat
  <2>5. u[1] = s[1] /\ u[2] = s[2]
    BY <1>2, <2>3
  <2> QED
    BY <1>4, <2>1, <2>2, <2>3, <2>5 DEF InsertRead
<1>5. CASE p = "columnsOpen"
  <2>1. /\ n = 3 /\ m = 0 /\ v = 0
        /\ Parser!IsWord(s[1], "INSERT")
        /\ Parser!IsWord(s[2], "INTO")
        /\ Parser!IsName(s[3])
    BY <1>1, <1>5 DEF InsertRead
  <2>2. n = 3 /\ m = 0 /\ v = 0
    BY <2>1, Zenon
  <2>3. l >= 3 /\ 1 \in 1..l /\ 2 \in 1..l /\ 3 \in 1..l
    BY ONLY <1>2, <2>2, m \in Nat, v \in Nat
  <2>5. u[1] = s[1] /\ u[2] = s[2] /\ u[3] = s[3]
    BY <1>2, <2>3
  <2> QED
    BY <1>5, <2>1, <2>2, <2>3, <2>5 DEF InsertRead
<1>6. CASE p = "column"
  <2>1. /\ n = 2 * m + 4 /\ v = 0
        /\ ColumnsRead(s, m, m)
    BY <1>1, <1>6 DEF InsertRead
  <2>2. n = 2 * m + 4 /\ v = 0
    BY <2>1, Zenon
  <2>3. l >= 2 * m + 4
    BY ONLY <1>2, <2>2, m \in Nat, v \in Nat
  <2>4. ColumnsRead(u, m, m)
    <3>1. 2 * m + 4 <= l
      BY ONLY <1>2, <2>2, <2>3, m \in Nat, v \in Nat
    <3> QED
      BY <1>1, <2>1, <3>1, ColumnsKept
  <2> QED
    BY <1>6, <2>1, <2>2, <2>3, <2>4 DEF InsertRead
<1>7. CASE p = "pushColumn"
  <2>1. /\ n = 2 * m + 5 /\ v = 0
        /\ ColumnsRead(s, m, m)
        /\ Parser!IsName(s[2 * m + 5])
    BY <1>1, <1>7 DEF InsertRead
  <2>2. n = 2 * m + 5 /\ v = 0
    BY <2>1, Zenon
  <2>3. l >= 2 * m + 5 /\ 2 * m + 5 \in 1..l
    BY ONLY <1>2, <2>2, m \in Nat, v \in Nat
  <2>4. ColumnsRead(u, m, m)
    <3>1. 2 * m + 4 <= l
      BY ONLY <1>2, <2>2, <2>3, m \in Nat, v \in Nat
    <3> QED
      BY <1>1, <2>1, <3>1, ColumnsKept
  <2>5. u[2 * m + 5] = s[2 * m + 5]
    BY <1>2, <2>3
  <2> QED
    BY <1>7, <2>1, <2>2, <2>3, <2>4, <2>5 DEF InsertRead
<1>8. CASE p = "moreColumns"
  <2>1. /\ m \in Nat \ {0} /\ n = 2 * m + 3 /\ v = 0
        /\ ColumnsRead(s, m, m - 1)
    BY <1>1, <1>8 DEF InsertRead
  <2>2. m \in Nat \ {0} /\ n = 2 * m + 3 /\ v = 0
    BY <2>1, Zenon
  <2>3. l >= 2 * m + 3
    BY ONLY <1>2, <2>2, m \in Nat, v \in Nat
  <2>4. ColumnsRead(u, m, m - 1)
    <3>1. m # 0 /\ 2 * m + 3 <= l
      BY ONLY <1>2, <2>2, <2>3, m \in Nat, v \in Nat
    <3> QED
      BY <1>1, <2>1, <3>1, ColumnsKept
  <2> QED
    BY <1>8, <2>1, <2>2, <2>3, <2>4 DEF InsertRead
<1>9. CASE p = "columnsClose"
  <2>1. /\ m \in Nat \ {0} /\ n = 2 * m + 3 /\ v = 0 /\ l >= 2 * m + 4
        /\ ColumnsRead(s, m, m - 1)
        /\ s[2 * m + 4].type # ","
    BY <1>1, <1>9 DEF InsertRead
  <2>2. m \in Nat \ {0} /\ n = 2 * m + 3 /\ v = 0 /\ l >= 2 * m + 4
    BY <2>1, Zenon
  <2>3. l >= 2 * m + 3 /\ 2 * m + 4 \in 1..l
    BY ONLY <1>2, <2>2, m \in Nat, v \in Nat
  <2>4. ColumnsRead(u, m, m - 1)
    <3>1. m # 0 /\ 2 * m + 3 <= l
      BY ONLY <1>2, <2>2, <2>3, m \in Nat, v \in Nat
    <3> QED
      BY <1>1, <2>1, <3>1, ColumnsKept
  <2>5. u[2 * m + 4] = s[2 * m + 4]
    BY <1>2, <2>3
  <2>6. Len(u) >= 2 * m + 4
    BY ONLY <1>2, <2>2, m \in Nat, v \in Nat
  <2> QED
    BY <1>9, <2>1, <2>2, <2>3, <2>4, <2>5, <2>6 DEF InsertRead
<1>10. CASE p = "valuesWord"
  <2>1. /\ n = 2 * m + 4 /\ v = 0
        /\ ColumnsClosed(s, m)
    BY <1>1, <1>10 DEF InsertRead
  <2>2. n = 2 * m + 4 /\ v = 0
    BY <2>1, Zenon
  <2>3. l >= 2 * m + 4
    BY ONLY <1>2, <2>2, m \in Nat, v \in Nat
  <2>4. ColumnsClosed(u, m)
    <3>1. 2 * m + 4 <= l
      BY ONLY <1>2, <2>2, <2>3, m \in Nat, v \in Nat
    <3> QED
      BY <1>1, <2>1, <3>1, ColumnsKept
  <2> QED
    BY <1>10, <2>1, <2>2, <2>3, <2>4 DEF InsertRead
<1>11. CASE p = "valuesOpen"
  <2>1. /\ n = 2 * m + 5 /\ v = 0
        /\ ColumnsClosed(s, m)
        /\ Parser!IsWord(s[2 * m + 5], "VALUES")
    BY <1>1, <1>11 DEF InsertRead
  <2>2. n = 2 * m + 5 /\ v = 0
    BY <2>1, Zenon
  <2>3. l >= 2 * m + 5 /\ 2 * m + 5 \in 1..l
    BY ONLY <1>2, <2>2, m \in Nat, v \in Nat
  <2>4. ColumnsClosed(u, m)
    <3>1. 2 * m + 4 <= l
      BY ONLY <1>2, <2>2, <2>3, m \in Nat, v \in Nat
    <3> QED
      BY <1>1, <2>1, <3>1, ColumnsKept
  <2>5. u[2 * m + 5] = s[2 * m + 5]
    BY <1>2, <2>3
  <2> QED
    BY <1>11, <2>1, <2>2, <2>3, <2>4, <2>5 DEF InsertRead
<1>12. CASE p = "value"
  <2>1. /\ n = 2 * m + 2 * v + 6
        /\ ValuesRead(s, m, v, v)
    BY <1>1, <1>12 DEF InsertRead
  <2>2. n = 2 * m + 2 * v + 6
    BY <2>1, Zenon
  <2>3. l >= 2 * m + 2 * v + 6
    BY ONLY <1>2, <2>2, m \in Nat, v \in Nat
  <2>4. ValuesRead(u, m, v, v)
    <3>1. 2 * m + 2 * v + 6 <= l
      BY ONLY <1>2, <2>2, <2>3, m \in Nat, v \in Nat
    <3> QED
      BY <1>1, <2>1, <3>1, ValuesKept
  <2> QED
    BY <1>12, <2>1, <2>2, <2>3, <2>4 DEF InsertRead
<1>13. CASE p = "moreValues"
  <2>1. /\ v \in Nat \ {0} /\ n = 2 * m + 2 * v + 5
        /\ ValuesRead(s, m, v, v - 1)
    BY <1>1, <1>13 DEF InsertRead
  <2>2. v \in Nat \ {0} /\ n = 2 * m + 2 * v + 5
    BY <2>1, Zenon
  <2>3. l >= 2 * m + 2 * v + 5
    BY ONLY <1>2, <2>2, m \in Nat, v \in Nat
  <2>4. ValuesRead(u, m, v, v - 1)
    <3>1. v # 0 /\ 2 * m + 2 * v + 5 <= l
      BY ONLY <1>2, <2>2, <2>3, m \in Nat, v \in Nat
    <3> QED
      BY <1>1, <2>1, <3>1, ValuesKept
  <2> QED
    BY <1>13, <2>1, <2>2, <2>3, <2>4 DEF InsertRead
<1>14. CASE p = "valuesClose"
  <2>1. /\ v \in Nat \ {0} /\ n = 2 * m + 2 * v + 5 /\ l >= 2 * m + 2 * v + 6
        /\ ValuesRead(s, m, v, v - 1)
        /\ s[2 * m + 2 * v + 6].type # ","
    BY <1>1, <1>14 DEF InsertRead
  <2>2. v \in Nat \ {0} /\ n = 2 * m + 2 * v + 5 /\ l >= 2 * m + 2 * v + 6
    BY <2>1, Zenon
  <2>3. l >= 2 * m + 2 * v + 5 /\ 2 * m + 2 * v + 6 \in 1..l
    BY ONLY <1>2, <2>2, m \in Nat, v \in Nat
  <2>4. ValuesRead(u, m, v, v - 1)
    <3>1. v # 0 /\ 2 * m + 2 * v + 5 <= l
      BY ONLY <1>2, <2>2, <2>3, m \in Nat, v \in Nat
    <3> QED
      BY <1>1, <2>1, <3>1, ValuesKept
  <2>5. u[2 * m + 2 * v + 6] = s[2 * m + 2 * v + 6]
    BY <1>2, <2>3
  <2>6. Len(u) >= 2 * m + 2 * v + 6
    BY ONLY <1>2, <2>2, m \in Nat, v \in Nat
  <2> QED
    BY <1>14, <2>1, <2>2, <2>3, <2>4, <2>5, <2>6 DEF InsertRead
<1>15. CASE p = "semicolon"
  <2>1. /\ n = 2 * m + 2 * v + 6
        /\ ValuesClosed(s, m, v)
    BY <1>1, <1>15 DEF InsertRead
  <2>2. n = 2 * m + 2 * v + 6
    BY <2>1, Zenon
  <2>3. l >= 2 * m + 2 * v + 6
    BY ONLY <1>2, <2>2, m \in Nat, v \in Nat
  <2>4. ValuesClosed(u, m, v)
    <3>1. 2 * m + 2 * v + 6 <= l
      BY ONLY <1>2, <2>2, <2>3, m \in Nat, v \in Nat
    <3> QED
      BY <1>1, <2>1, <3>1, ValuesKept
  <2> QED
    BY <1>15, <2>1, <2>2, <2>3, <2>4 DEF InsertRead
<1>16. CASE p = "end"
  <2>1. /\ n = 2 * m + 2 * v + 7
        /\ ValuesClosed(s, m, v)
        /\ s[2 * m + 2 * v + 7].type = ";"
    BY <1>1, <1>16 DEF InsertRead
  <2>2. n = 2 * m + 2 * v + 7
    BY <2>1, Zenon
  <2>3. l >= 2 * m + 2 * v + 7 /\ 2 * m + 2 * v + 7 \in 1..l
    BY ONLY <1>2, <2>2, m \in Nat, v \in Nat
  <2>4. ValuesClosed(u, m, v)
    <3>1. 2 * m + 2 * v + 6 <= l
      BY ONLY <1>2, <2>2, <2>3, m \in Nat, v \in Nat
    <3> QED
      BY <1>1, <2>1, <3>1, ValuesKept
  <2>5. u[2 * m + 2 * v + 7] = s[2 * m + 2 * v + 7]
    BY <1>2, <2>3
  <2> QED
    BY <1>16, <2>1, <2>2, <2>3, <2>4, <2>5 DEF InsertRead
<1>17. CASE p \notin {"into", "table", "columnsOpen", "column", "pushColumn", "moreColumns", "columnsClose", "valuesWord", "valuesOpen", "value", "moreValues", "valuesClose", "semicolon", "end"}
  BY <1>17 DEF InsertRead
<1> QED
  BY <1>3, <1>4, <1>5, <1>6, <1>7, <1>8, <1>9, <1>10, <1>11, <1>12, <1>13, <1>14, <1>15, <1>16, <1>17

LEMMA SelectReadKept ==
  ASSUME NEW p, NEW s, NEW u, NEW n, NEW w \in Nat, NEW f \in {0, 4},
         SelectRead(p, s, n, w, f), p # "ok", n <= Len(s), Extends(u, s)
  PROVE  SelectRead(p, u, n, w, f)
<1>1. PICK l : l = Len(s)
  OBVIOUS
<1>2. l \in Nat /\ n <= l /\ Len(u) \in Nat /\ Len(u) >= l /\ \A j \in 1..l : u[j] = s[j]
  BY <1>1 DEF Extends
<1>3. CASE p = "selectList"
  <2>1. /\ n = 1 /\ w = 0 /\ f = 0
        /\ Parser!IsWord(s[1], "SELECT")
    BY <1>1, <1>3 DEF SelectRead
  <2>2. n = 1 /\ w = 0 /\ f = 0
    BY <2>1, Zenon
  <2>3. l >= 1 /\ 1 \in 1..l
    BY ONLY <1>2, <2>2, w \in Nat
  <2>5. u[1] = s[1]
    BY <1>2, <2>3
  <2> QED
    BY <1>3, <2>1, <2>2, <2>3, <2>5 DEF SelectRead
<1>4. CASE p = "column"
  <2>1. /\ w \in Nat \ {0} /\ n = 2 * w + 1 /\ f = 0
        /\ ItemsFrom(s, 2, w, NameTypes)
        /\ CommasFrom(s, 2, w)
        /\ Parser!IsWord(s[1], "SELECT")
    BY <1>1, <1>4 DEF SelectRead
  <2>2. w \in Nat \ {0} /\ n = 2 * w + 1 /\ f = 0
    BY <2>1, Zenon
  <2>3. l >= 2 * w + 1 /\ 1 \in 1..l /\ 2 * w + 1 <= l
    BY ONLY <1>2, <2>2, w \in Nat
  <2>4. ItemsFrom(u, 2, w, NameTypes) /\ CommasFrom(u, 2, w)
    BY <1>1, <2>1, <2>3, SelectKept
  <2>5. u[1] = s[1]
    BY <1>2, <2>3
  <2> QED
    BY <1>4, <2>1, <2>2, <2>3, <2>4, <2>5 DEF SelectRead
<1>5. CASE p = "pushColumn"
  <2>1. /\ n = 2 * w + 2 /\ f = 0
        /\ ItemsFrom(s, 2, w, NameTypes)
        /\ CommasFrom(s, 2, w)
        /\ Parser!IsWord(s[1], "SELECT")
        /\ Parser!IsName(s[2 * w + 2])
    BY <1>1, <1>5 DEF SelectRead
  <2>2. n = 2 * w + 2 /\ f = 0
    BY <2>1, Zenon
  <2>3. l >= 2 * w + 2 /\ 1 \in 1..l /\ 2 * w + 2 \in 1..l /\ 2 * w + 1 <= l
    BY ONLY <1>2, <2>2, w \in Nat
  <2>4. ItemsFrom(u, 2, w, NameTypes) /\ CommasFrom(u, 2, w)
    BY <1>1, <2>1, <2>3, SelectKept
  <2>5. u[1] = s[1] /\ u[2 * w + 2] = s[2 * w + 2]
    BY <1>2, <2>3
  <2> QED
    BY <1>5, <2>1, <2>2, <2>3, <2>4, <2>5 DEF SelectRead
<1>6. CASE p = "moreColumns"
  <2>1. /\ n = 2 * w /\ f = 0 /\ w # 0
        /\ SelectList(s, w)
        /\ s[2].type # "*"
    <3>1. /\ n = 2 * w /\ f = 0
          /\ SelectList(s, w)
          /\ s[2].type # "*"
      BY <1>1, <1>6 DEF SelectRead
    <3>2. w # 0
      BY <3>1 DEF SelectList
    <3> QED
      BY <3>1, <3>2, Zenon
  <2>2. n = 2 * w /\ f = 0 /\ w # 0
    BY <2>1, Zenon
  <2>3. l >= 2 * w /\ 2 \in 1..l /\ w # 0 /\ 2 * w <= l
    BY ONLY <1>2, <2>2, w \in Nat
  <2>4. SelectList(u, w)
    BY <1>1, <2>1, <2>3, SelectKept
  <2>5. u[2] = s[2]
    BY <1>2, <2>3
  <2> QED
    BY <1>6, <2>1, <2>2, <2>3, <2>4, <2>5 DEF SelectRead
<1>7. CASE p = "from" /\ s[2].type = "*"
  <2>1. /\ n = 2 * w /\ f = 0 /\ w # 0
        /\ SelectList(s, w)
        /\ s[2].type = "*"
    <3>1. /\ n = 2 * w /\ f = 0
          /\ SelectList(s, w)
          /\ s[2].type = "*"
      BY <1>1, <1>7 DEF SelectRead
    <3>2. w # 0
      BY <3>1 DEF SelectList
    <3> QED
      BY <3>1, <3>2, Zenon
  <2>2. n = 2 * w /\ f = 0 /\ w # 0
    BY <2>1, Zenon
  <2>3. l >= 2 * w /\ 2 \in 1..l /\ w # 0 /\ 2 * w <= l
    BY ONLY <1>2, <2>2, w \in Nat
  <2>4. SelectList(u, w)
    BY <1>1, <2>1, <2>3, SelectKept
  <2>5. u[2] = s[2]
    BY <1>2, <2>3
  <2> QED
    BY <1>7, <2>1, <2>2, <2>3, <2>4, <2>5 DEF SelectRead
<1>8. CASE p = "from" /\ s[2].type # "*"
  <2>1. /\ n = 2 * w /\ f = 0 /\ l >= 2 * w + 1 /\ w # 0
        /\ SelectList(s, w)
        /\ s[2].type # "*"
        /\ s[2 * w + 1].type # ","
    <3>1. /\ n = 2 * w /\ f = 0 /\ l >= 2 * w + 1
          /\ SelectList(s, w)
          /\ s[2].type # "*"
          /\ s[2 * w + 1].type # ","
      BY <1>1, <1>8 DEF SelectRead
    <3>2. w # 0
      BY <3>1 DEF SelectList
    <3> QED
      BY <3>1, <3>2, Zenon
  <2>2. n = 2 * w /\ f = 0 /\ l >= 2 * w + 1 /\ w # 0
    BY <2>1, Zenon
  <2>3. l >= 2 * w /\ 2 \in 1..l /\ 2 * w + 1 \in 1..l /\ w # 0 /\ 2 * w <= l
    BY ONLY <1>2, <2>2, w \in Nat
  <2>4. SelectList(u, w)
    BY <1>1, <2>1, <2>3, SelectKept
  <2>5. u[2] = s[2] /\ u[2 * w + 1] = s[2 * w + 1]
    BY <1>2, <2>3
  <2>6. Len(u) >= 2 * w + 1
    BY ONLY <1>2, <2>2, w \in Nat
  <2> QED
    BY <1>8, <2>1, <2>2, <2>3, <2>4, <2>5, <2>6 DEF SelectRead
<1>9. CASE p = "table"
  <2>1. /\ n = 2 * w + 1 /\ f = 0 /\ w # 0
        /\ SelectList(s, w)
        /\ Parser!IsWord(s[2 * w + 1], "FROM")
    <3>1. /\ n = 2 * w + 1 /\ f = 0
          /\ SelectList(s, w)
          /\ Parser!IsWord(s[2 * w + 1], "FROM")
      BY <1>1, <1>9 DEF SelectRead
    <3>2. w # 0
      BY <3>1 DEF SelectList
    <3> QED
      BY <3>1, <3>2, Zenon
  <2>2. n = 2 * w + 1 /\ f = 0 /\ w # 0
    BY <2>1, Zenon
  <2>3. l >= 2 * w + 1 /\ 2 * w + 1 \in 1..l /\ w # 0 /\ 2 * w <= l
    BY ONLY <1>2, <2>2, w \in Nat
  <2>4. SelectList(u, w)
    BY <1>1, <2>1, <2>3, SelectKept
  <2>5. u[2 * w + 1] = s[2 * w + 1]
    BY <1>2, <2>3
  <2> QED
    BY <1>9, <2>1, <2>2, <2>3, <2>4, <2>5 DEF SelectRead
<1>10. CASE p = "where"
  <2>1. /\ n = 2 * w + 2 /\ f = 0 /\ w # 0
        /\ SelectTable(s, w)
    <3>1. /\ n = 2 * w + 2 /\ f = 0
          /\ SelectTable(s, w)
      BY <1>1, <1>10 DEF SelectRead
    <3>2. w # 0
      BY <3>1 DEF SelectList, SelectTable
    <3> QED
      BY <3>1, <3>2, Zenon
  <2>2. n = 2 * w + 2 /\ f = 0 /\ w # 0
    BY <2>1, Zenon
  <2>3. l >= 2 * w + 2 /\ w # 0 /\ 2 * w + 2 <= l
    BY ONLY <1>2, <2>2, w \in Nat
  <2>4. SelectTable(u, w)
    BY <1>1, <2>1, <2>3, SelectKept
  <2> QED
    BY <1>10, <2>1, <2>2, <2>3, <2>4 DEF SelectRead
<1>11. CASE p = "whereColumn"
  <2>1. /\ n = 2 * w + 3 /\ f = 0 /\ w # 0
        /\ SelectTable(s, w)
        /\ Parser!IsWord(s[2 * w + 3], "WHERE")
    <3>1. /\ n = 2 * w + 3 /\ f = 0
          /\ SelectTable(s, w)
          /\ Parser!IsWord(s[2 * w + 3], "WHERE")
      BY <1>1, <1>11 DEF SelectRead
    <3>2. w # 0
      BY <3>1 DEF SelectList, SelectTable
    <3> QED
      BY <3>1, <3>2, Zenon
  <2>2. n = 2 * w + 3 /\ f = 0 /\ w # 0
    BY <2>1, Zenon
  <2>3. l >= 2 * w + 3 /\ 2 * w + 3 \in 1..l /\ w # 0 /\ 2 * w + 2 <= l
    BY ONLY <1>2, <2>2, w \in Nat
  <2>4. SelectTable(u, w)
    BY <1>1, <2>1, <2>3, SelectKept
  <2>5. u[2 * w + 3] = s[2 * w + 3]
    BY <1>2, <2>3
  <2> QED
    BY <1>11, <2>1, <2>2, <2>3, <2>4, <2>5 DEF SelectRead
<1>12. CASE p = "equals"
  <2>1. /\ n = 2 * w + 4 /\ f = 0 /\ w # 0
        /\ SelectTable(s, w)
        /\ Parser!IsWord(s[2 * w + 3], "WHERE")
        /\ Parser!IsName(s[2 * w + 4])
    <3>1. /\ n = 2 * w + 4 /\ f = 0
          /\ SelectTable(s, w)
          /\ Parser!IsWord(s[2 * w + 3], "WHERE")
          /\ Parser!IsName(s[2 * w + 4])
      BY <1>1, <1>12 DEF SelectRead
    <3>2. w # 0
      BY <3>1 DEF SelectList, SelectTable
    <3> QED
      BY <3>1, <3>2, Zenon
  <2>2. n = 2 * w + 4 /\ f = 0 /\ w # 0
    BY <2>1, Zenon
  <2>3. l >= 2 * w + 4 /\ 2 * w + 3 \in 1..l /\ 2 * w + 4 \in 1..l /\ w # 0 /\ 2 * w + 2 <= l
    BY ONLY <1>2, <2>2, w \in Nat
  <2>4. SelectTable(u, w)
    BY <1>1, <2>1, <2>3, SelectKept
  <2>5. u[2 * w + 3] = s[2 * w + 3] /\ u[2 * w + 4] = s[2 * w + 4]
    BY <1>2, <2>3
  <2> QED
    BY <1>12, <2>1, <2>2, <2>3, <2>4, <2>5 DEF SelectRead
<1>13. CASE p = "whereValue"
  <2>1. /\ n = 2 * w + 5 /\ f = 0 /\ w # 0
        /\ SelectTable(s, w)
        /\ Parser!IsWord(s[2 * w + 3], "WHERE")
        /\ Parser!IsName(s[2 * w + 4])
        /\ s[2 * w + 5].type = "="
    <3>1. /\ n = 2 * w + 5 /\ f = 0
          /\ SelectTable(s, w)
          /\ Parser!IsWord(s[2 * w + 3], "WHERE")
          /\ Parser!IsName(s[2 * w + 4])
          /\ s[2 * w + 5].type = "="
      BY <1>1, <1>13 DEF SelectRead
    <3>2. w # 0
      BY <3>1 DEF SelectList, SelectTable
    <3> QED
      BY <3>1, <3>2, Zenon
  <2>2. n = 2 * w + 5 /\ f = 0 /\ w # 0
    BY <2>1, Zenon
  <2>3. l >= 2 * w + 5 /\ 2 * w + 3 \in 1..l /\ 2 * w + 4 \in 1..l /\ 2 * w + 5 \in 1..l /\ w # 0 /\ 2 * w + 2 <= l
    BY ONLY <1>2, <2>2, w \in Nat
  <2>4. SelectTable(u, w)
    BY <1>1, <2>1, <2>3, SelectKept
  <2>5. u[2 * w + 3] = s[2 * w + 3] /\ u[2 * w + 4] = s[2 * w + 4] /\ u[2 * w + 5] = s[2 * w + 5]
    BY <1>2, <2>3
  <2> QED
    BY <1>13, <2>1, <2>2, <2>3, <2>4, <2>5 DEF SelectRead
<1>14. CASE p = "connector?"
  <2>1. /\ n = 2 * w + 6 /\ f = 0 /\ w # 0
        /\ SelectTable(s, w)
        /\ SelectFilter(s, w)
    <3>1. /\ n = 2 * w + 6 /\ f = 0
          /\ SelectTable(s, w)
          /\ SelectFilter(s, w)
      BY <1>1, <1>14 DEF SelectRead
    <3>2. w # 0
      BY <3>1 DEF SelectList, SelectTable
    <3> QED
      BY <3>1, <3>2, Zenon
  <2>2. n = 2 * w + 6 /\ f = 0 /\ w # 0
    BY <2>1, Zenon
  <2>3. l >= 2 * w + 6 /\ w # 0 /\ 2 * w + 2 <= l /\ w # 0 /\ 2 * w + 6 <= l
    BY ONLY <1>2, <2>2, w \in Nat
  <2>4. SelectTable(u, w) /\ SelectFilter(u, w)
    BY <1>1, <2>1, <2>3, SelectKept
  <2> QED
    BY <1>14, <2>1, <2>2, <2>3, <2>4 DEF SelectRead
<1>15. CASE p = "semicolon" /\ f = 0
  <2>1. /\ n = 2 * w + 2 + f /\ f = 0 /\ l >= 2 * w + 3 /\ w # 0
        /\ SelectTable(s, w)
        /\ ~Parser!IsWord(s[2 * w + 3], "WHERE")
    <3>1. /\ n = 2 * w + 2 + f /\ f = 0 /\ l >= 2 * w + 3
          /\ SelectTable(s, w)
          /\ ~Parser!IsWord(s[2 * w + 3], "WHERE")
      BY <1>1, <1>15 DEF SelectRead
    <3>2. w # 0
      BY <3>1 DEF SelectList, SelectTable
    <3> QED
      BY <3>1, <3>2, Zenon
  <2>2. n = 2 * w + 2 + f /\ f = 0 /\ l >= 2 * w + 3 /\ w # 0
    BY <2>1, Zenon
  <2>3. l >= 2 * w + 2 + f /\ 2 * w + 3 \in 1..l /\ w # 0 /\ 2 * w + 2 <= l
    BY ONLY <1>2, <2>2, w \in Nat
  <2>4. SelectTable(u, w)
    BY <1>1, <2>1, <2>3, SelectKept
  <2>5. u[2 * w + 3] = s[2 * w + 3]
    BY <1>2, <2>3
  <2>6. Len(u) >= 2 * w + 3
    BY ONLY <1>2, <2>2, w \in Nat
  <2> QED
    BY <1>15, <2>1, <2>2, <2>3, <2>4, <2>5, <2>6 DEF SelectRead
<1>16. CASE p = "semicolon" /\ f = 4
  <2>1. /\ n = 2 * w + 2 + f /\ f = 4 /\ w # 0
        /\ SelectTable(s, w)
        /\ SelectFilter(s, w)
    <3>1. /\ n = 2 * w + 2 + f /\ f = 4
          /\ SelectTable(s, w)
          /\ SelectFilter(s, w)
      BY <1>1, <1>16 DEF SelectRead
    <3>2. w # 0
      BY <3>1 DEF SelectList, SelectTable
    <3> QED
      BY <3>1, <3>2, Zenon
  <2>2. n = 2 * w + 2 + f /\ f = 4 /\ w # 0
    BY <2>1, Zenon
  <2>3. l >= 2 * w + 2 + f /\ w # 0 /\ 2 * w + 2 <= l /\ w # 0 /\ 2 * w + 6 <= l
    BY ONLY <1>2, <2>2, w \in Nat
  <2>4. SelectTable(u, w) /\ SelectFilter(u, w)
    BY <1>1, <2>1, <2>3, SelectKept
  <2> QED
    BY <1>16, <2>1, <2>2, <2>3, <2>4 DEF SelectRead
<1>17. CASE p = "end" /\ f = 0
  <2>1. /\ n = 2 * w + 3 + f /\ f = 0 /\ w # 0
        /\ SelectTable(s, w)
        /\ s[2 * w + 3 + f].type = ";"
    <3>1. /\ n = 2 * w + 3 + f /\ f = 0
          /\ SelectTable(s, w)
          /\ s[2 * w + 3 + f].type = ";"
      BY <1>1, <1>17 DEF SelectRead
    <3>2. w # 0
      BY <3>1 DEF SelectList, SelectTable
    <3> QED
      BY <3>1, <3>2, Zenon
  <2>2. n = 2 * w + 3 + f /\ f = 0 /\ w # 0
    BY <2>1, Zenon
  <2>3. l >= 2 * w + 3 + f /\ 2 * w + 3 + f \in 1..l /\ w # 0 /\ 2 * w + 2 <= l
    BY ONLY <1>2, <2>2, w \in Nat
  <2>4. SelectTable(u, w)
    BY <1>1, <2>1, <2>3, SelectKept
  <2>5. u[2 * w + 3 + f] = s[2 * w + 3 + f]
    BY <1>2, <2>3
  <2>6. u[2 * w + 3 + f].type = ";"
    BY <2>1, <2>5
  <2>7. f # 4 /\ f \in {0, 4}
    BY <2>2
  <2> QED
    BY <1>17, <2>2, <2>4, <2>6, <2>7, Zenon DEF SelectRead
<1>18. CASE p = "end" /\ f = 4
  <2>1. /\ n = 2 * w + 3 + f /\ f = 4 /\ w # 0
        /\ SelectTable(s, w)
        /\ SelectFilter(s, w)
        /\ s[2 * w + 3 + f].type = ";"
    <3>1. /\ n = 2 * w + 3 + f /\ f = 4
          /\ SelectTable(s, w)
          /\ SelectFilter(s, w)
          /\ s[2 * w + 3 + f].type = ";"
      BY <1>1, <1>18 DEF SelectRead
    <3>2. w # 0
      BY <3>1 DEF SelectList, SelectTable
    <3> QED
      BY <3>1, <3>2, Zenon
  <2>2. n = 2 * w + 3 + f /\ f = 4 /\ w # 0
    BY <2>1, Zenon
  <2>3. l >= 2 * w + 3 + f /\ 2 * w + 3 + f \in 1..l /\ w # 0 /\ 2 * w + 2 <= l /\ w # 0 /\ 2 * w + 6 <= l
    BY ONLY <1>2, <2>2, w \in Nat
  <2>4. SelectTable(u, w) /\ SelectFilter(u, w)
    BY <1>1, <2>1, <2>3, SelectKept
  <2>5. u[2 * w + 3 + f] = s[2 * w + 3 + f]
    BY <1>2, <2>3
  <2>6. u[2 * w + 3 + f].type = ";"
    BY <2>1, <2>5
  <2> QED
    BY <1>18, <2>2, <2>4, <2>6, Zenon DEF SelectRead
<1>19. CASE p \notin {"selectList", "column", "pushColumn", "moreColumns", "from", "table", "where", "whereColumn", "equals", "whereValue", "connector?", "semicolon", "end"}
  BY <1>19 DEF SelectRead
<1> QED
  BY <1>3, <1>4, <1>5, <1>6, <1>7, <1>8, <1>9, <1>10, <1>11, <1>12, <1>13, <1>14, <1>15, <1>16, <1>17, <1>18, <1>19

-----------------------------------------------------------------------------
(* What is read when one more token fits.                                  *)

LEMMA ItemAdded ==
  ASSUME NEW s, NEW a \in Nat, NEW m \in Nat, NEW b, b = m + 1, NEW types
  PROVE  /\ ItemsFrom(s, a, 0, types) /\ CommasFrom(s, a, 0)
         /\ ItemsFrom(s, a, m, types) /\ s[a + 2 * m].type \in types => ItemsFrom(s, a, b, types)
         /\ CommasFrom(s, a, m) /\ s[a + 2 * m + 1].type = "," => CommasFrom(s, a, b)
<1>1. ItemsFrom(s, a, 0, types) /\ CommasFrom(s, a, 0)
  BY DEF ItemsFrom, CommasFrom
<1>2. ASSUME ItemsFrom(s, a, m, types), s[a + 2 * m].type \in types PROVE ItemsFrom(s, a, b, types)
  <2>1. ASSUME NEW k \in 1..b PROVE s[a + 2 * k - 2].type \in types
    <3>1. CASE k \in 1..m
      BY <1>2, <3>1 DEF ItemsFrom
    <3>2. CASE k = b
      <4>1. a + 2 * k - 2 = a + 2 * m
        BY <3>2
      <4> QED
        BY <1>2, <4>1
    <3> QED
      BY <3>1, <3>2
  <2> QED
    BY <2>1 DEF ItemsFrom
<1>3. ASSUME CommasFrom(s, a, m), s[a + 2 * m + 1].type = "," PROVE CommasFrom(s, a, b)
  <2>1. ASSUME NEW k \in 1..b PROVE s[a + 2 * k - 1].type = ","
    <3>1. CASE k \in 1..m
      BY <1>3, <3>1 DEF CommasFrom
    <3>2. CASE k = b
      <4>1. a + 2 * k - 1 = a + 2 * m + 1
        BY <3>2
      <4> QED
        BY <1>3, <4>1
    <3>3. k \in 1..m \/ k = b
      OBVIOUS
    <3> QED
      BY <3>1, <3>2, <3>3, Zenon
  <2> QED
    BY <2>1 DEF CommasFrom
<1> QED
  BY <1>1, <1>2, <1>3

\* The token behind the first n fits at p, and m names and v values are read.
InsertReading(p, s, n, k, m, v) ==
  n \in Nat /\ k = n + 1 /\ Len(s) = k /\ m \in Nat /\ v \in Nat /\ InsertRead(p, s, n, m, v)

LEMMA InsertBegins ==
  ASSUME NEW s, NEW n, NEW k, NEW m, NEW v
  PROVE  /\ InsertReading("statement", s, n, k, m, v) /\ Parser!IsWord(s[k], "INSERT") =>
              InsertRead("into", s, k, m, v)
         /\ InsertReading("into", s, n, k, m, v) /\ Parser!IsWord(s[k], "INTO") =>
              InsertRead("table", s, k, m, v)
         /\ InsertReading("table", s, n, k, m, v) /\ Parser!IsName(s[k]) =>
              InsertRead("columnsOpen", s, k, m, v)
         /\ InsertReading("columnsOpen", s, n, k, m, v) /\ s[k].type = "(" =>
              InsertRead("column", s, k, m, v)
<1>1. ASSUME InsertReading("statement", s, n, k, m, v), Parser!IsWord(s[k], "INSERT")
      PROVE  InsertRead("into", s, k, m, v)
  <2>1. n \in Nat /\ k = n + 1 /\ Len(s) = k /\ m \in Nat /\ v \in Nat /\ n = 0 /\ m = 0 /\ v = 0
    BY <1>1 DEF InsertReading, InsertRead
  <2>3. k = 1
    BY ONLY <2>1
  <2> QED
    BY <1>1, <2>1, <2>3 DEF InsertRead
<1>2. ASSUME InsertReading("into", s, n, k, m, v), Parser!IsWord(s[k], "INTO")
      PROVE  InsertRead("table", s, k, m, v)
  <2>1. n \in Nat /\ k = n + 1 /\ Len(s) = k /\ m \in Nat /\ v \in Nat /\ n = 1 /\ m = 0 /\ v = 0
    BY <1>2 DEF InsertReading, InsertRead
  <2>2. /\ Parser!IsWord(s[1], "INSERT")
    BY <1>2 DEF InsertReading, InsertRead
  <2>3. k = 2
    BY ONLY <2>1
  <2> QED
    BY <1>2, <2>1, <2>2, <2>3 DEF InsertRead
<1>3. ASSUME InsertReading("table", s, n, k, m, v), Parser!IsName(s[k])
      PROVE  InsertRead("columnsOpen", s, k, m, v)
  <2>1. n \in Nat /\ k = n + 1 /\ Len(s) = k /\ m \in Nat /\ v \in Nat /\ n = 2 /\ m = 0 /\ v = 0
    BY <1>3 DEF InsertReading, InsertRead
  <2>2. /\ Parser!IsWord(s[1], "INSERT")
        /\ Parser!IsWord(s[2], "INTO")
    BY <1>3 DEF InsertReading, InsertRead
  <2>3. k = 3
    BY ONLY <2>1
  <2> QED
    BY <1>3, <2>1, <2>2, <2>3 DEF InsertRead
<1>4. ASSUME InsertReading("columnsOpen", s, n, k, m, v), s[k].type = "("
      PROVE  InsertRead("column", s, k, m, v)
  <2>1. n \in Nat /\ k = n + 1 /\ Len(s) = k /\ m \in Nat /\ v \in Nat /\ n = 3 /\ m = 0 /\ v = 0
    BY <1>4 DEF InsertReading, InsertRead
  <2>2. /\ Parser!IsWord(s[1], "INSERT")
        /\ Parser!IsWord(s[2], "INTO")
        /\ Parser!IsName(s[3])
    BY <1>4 DEF InsertReading, InsertRead
  <2>3. ColumnsRead(s, m, m) /\ k = 2 * m + 4
    <3>1. m = 0 /\ k = 4 /\ k = 2 * m + 4
      BY ONLY <2>1
    <3>2. ItemsFrom(s, 5, 0, NameTypes) /\ CommasFrom(s, 5, 0)
      BY DEF ItemsFrom, CommasFrom
    <3>3. InsertHead(s)
      BY <1>4, <2>2, <3>1 DEF InsertHead
    <3> QED
      BY <3>1, <3>2, <3>3 DEF ColumnsRead
  <2> QED
    BY <1>4, <2>1, <2>2, <2>3 DEF InsertRead
<1> QED
  BY <1>1, <1>2, <1>3, <1>4, Zenon

LEMMA ColumnsMove ==
  ASSUME NEW s, NEW n, NEW k, NEW m, NEW v
  PROVE  /\ InsertReading("column", s, n, k, m, v) /\ Parser!IsName(s[k]) =>
              InsertRead("pushColumn", s, k, m, v)
         /\ InsertReading("moreColumns", s, n, k, m, v) /\ s[k].type = "," =>
              InsertRead("column", s, k, m, v)
         /\ InsertReading("moreColumns", s, n, k, m, v) /\ s[k].type # "," =>
              InsertRead("columnsClose", s, n, m, v)
         /\ InsertReading("columnsClose", s, n, k, m, v) /\ s[k].type = ")" =>
              InsertRead("valuesWord", s, k, m, v)
<1>1. ASSUME InsertReading("column", s, n, k, m, v), Parser!IsName(s[k])
      PROVE  InsertRead("pushColumn", s, k, m, v)
  <2>1. n \in Nat /\ k = n + 1 /\ Len(s) = k /\ m \in Nat /\ v \in Nat /\ n = 2 * m + 4 /\ v = 0
    BY <1>1 DEF InsertReading, InsertRead
  <2>2. /\ ColumnsRead(s, m, m)
    BY <1>1 DEF InsertReading, InsertRead
  <2>3. k = 2 * m + 5
    BY ONLY <2>1
  <2> QED
    BY <1>1, <2>1, <2>2, <2>3 DEF InsertRead
<1>2. ASSUME InsertReading("moreColumns", s, n, k, m, v), s[k].type = ","
      PROVE  InsertRead("column", s, k, m, v)
  <2>1. n \in Nat /\ k = n + 1 /\ Len(s) = k /\ m \in Nat /\ v \in Nat /\ m \in Nat \ {0} /\ n = 2 * m + 3 /\ v = 0
    BY <1>2 DEF InsertReading, InsertRead
  <2>2. /\ ColumnsRead(s, m, m - 1)
    BY <1>2 DEF InsertReading, InsertRead
  <2>3. PICK j : j = m - 1
    OBVIOUS
  <2>4. k = 2 * m + 4 /\ j \in Nat /\ m = j + 1 /\ k = 5 + 2 * j + 1 /\ 5 \in Nat
    BY ONLY <2>1, <2>3
  <2>5. InsertHead(s) /\ ItemsFrom(s, 5, m, NameTypes) /\ CommasFrom(s, 5, j)
    BY <2>2, <2>3 DEF ColumnsRead
  <2>6. CommasFrom(s, 5, m)
    BY <1>2, <2>4, <2>5, ItemAdded
  <2>7. ColumnsRead(s, m, m)
    BY <2>5, <2>6 DEF ColumnsRead
  <2> QED
    BY <1>2, <2>1, <2>2, <2>4, <2>7 DEF InsertRead
<1>3. ASSUME InsertReading("moreColumns", s, n, k, m, v), s[k].type # ","
      PROVE  InsertRead("columnsClose", s, n, m, v)
  <2>1. n \in Nat /\ k = n + 1 /\ Len(s) = k /\ m \in Nat /\ v \in Nat /\ m \in Nat \ {0} /\ n = 2 * m + 3 /\ v = 0
    BY <1>3 DEF InsertReading, InsertRead
  <2>2. /\ ColumnsRead(s, m, m - 1)
    BY <1>3 DEF InsertReading, InsertRead
  <2>3. k = 2 * m + 4 /\ Len(s) >= 2 * m + 4
    BY ONLY <2>1
  <2> QED
    BY <1>3, <2>1, <2>2, <2>3 DEF InsertRead
<1>4. ASSUME InsertReading("columnsClose", s, n, k, m, v), s[k].type = ")"
      PROVE  InsertRead("valuesWord", s, k, m, v)
  <2>1. n \in Nat /\ k = n + 1 /\ Len(s) = k /\ m \in Nat /\ v \in Nat /\ m \in Nat \ {0} /\ n = 2 * m + 3 /\ v = 0
    BY <1>4 DEF InsertReading, InsertRead
  <2>2. /\ ColumnsRead(s, m, m - 1)
    BY <1>4 DEF InsertReading, InsertRead
  <2>3. k = 2 * m + 4
    BY ONLY <2>1
  <2>4. ColumnsClosed(s, m)
    BY <1>4, <2>1, <2>2, <2>3 DEF ColumnsClosed
  <2> QED
    BY <1>4, <2>1, <2>2, <2>3, <2>4 DEF InsertRead
<1> QED
  BY <1>1, <1>2, <1>3, <1>4, Zenon

LEMMA ValuesMove ==
  ASSUME NEW s, NEW n, NEW k, NEW m, NEW v
  PROVE  /\ InsertReading("valuesWord", s, n, k, m, v) /\ Parser!IsWord(s[k], "VALUES") =>
              InsertRead("valuesOpen", s, k, m, v)
         /\ InsertReading("valuesOpen", s, n, k, m, v) /\ s[k].type = "(" =>
              InsertRead("value", s, k, m, v)
         /\ InsertReading("value", s, n, k, m, v) /\ s[k].type \in ValueTypes =>
              InsertRead("moreValues", s, k, m, v + 1)
         /\ InsertReading("moreValues", s, n, k, m, v) /\ s[k].type = "," =>
              InsertRead("value", s, k, m, v)
         /\ InsertReading("moreValues", s, n, k, m, v) /\ s[k].type # "," =>
              InsertRead("valuesClose", s, n, m, v)
<1>1. ASSUME InsertReading("valuesWord", s, n, k, m, v), Parser!IsWord(s[k], "VALUES")
      PROVE  InsertRead("valuesOpen", s, k, m, v)
  <2>1. n \in Nat /\ k = n + 1 /\ Len(s) = k /\ m \in Nat /\ v \in Nat /\ n = 2 * m + 4 /\ v = 0
    BY <1>1 DEF InsertReading, InsertRead
  <2>2. /\ ColumnsClosed(s, m)
    BY <1>1 DEF InsertReading, InsertRead
  <2>3. k = 2 * m + 5
    BY ONLY <2>1
  <2> QED
    BY <1>1, <2>1, <2>2, <2>3 DEF InsertRead
<1>2. ASSUME InsertReading("valuesOpen", s, n, k, m, v), s[k].type = "("
      PROVE  InsertRead("value", s, k, m, v)
  <2>1. n \in Nat /\ k = n + 1 /\ Len(s) = k /\ m \in Nat /\ v \in Nat /\ n = 2 * m + 5 /\ v = 0
    BY <1>2 DEF InsertReading, InsertRead
  <2>2. /\ ColumnsClosed(s, m)
        /\ Parser!IsWord(s[2 * m + 5], "VALUES")
    BY <1>2 DEF InsertReading, InsertRead
  <2>3. k = 2 * m + 6 /\ k = 2 * m + 2 * v + 6 /\ 2 * m + 7 \in Nat
    BY ONLY <2>1
  <2>4. ItemsFrom(s, 2 * m + 7, v, ValueTypes) /\ CommasFrom(s, 2 * m + 7, v)
    <3>1. PICK b : b = 2 * m + 7
      OBVIOUS
    <3>2. b \in Nat /\ 0 \in Nat /\ v = 0
      BY ONLY <2>1, <2>3, <3>1
    <3>3. ItemsFrom(s, b, 0, ValueTypes) /\ CommasFrom(s, b, 0)
      BY DEF ItemsFrom, CommasFrom
    <3> QED
      BY <3>1, <3>2, <3>3
  <2>5. ValuesRead(s, m, v, v)
    BY <1>2, <2>2, <2>3, <2>4 DEF ValuesRead
  <2> QED
    BY <1>2, <2>1, <2>2, <2>3, <2>5 DEF InsertRead
<1>3. ASSUME InsertReading("value", s, n, k, m, v), s[k].type \in ValueTypes
      PROVE  InsertRead("moreValues", s, k, m, v + 1)
  <2>1. n \in Nat /\ k = n + 1 /\ Len(s) = k /\ m \in Nat /\ v \in Nat /\ n = 2 * m + 2 * v + 6
    BY <1>3 DEF InsertReading, InsertRead
  <2>2. /\ ValuesRead(s, m, v, v)
    BY <1>3 DEF InsertReading, InsertRead
  <2>3. PICK j, b : j = v + 1 /\ b = 2 * m + 7
    OBVIOUS
  <2>4. /\ k = 2 * m + 2 * j + 5 /\ j \in Nat \ {0} /\ j - 1 = v /\ b \in Nat /\ k = b + 2 * v
    BY ONLY <2>1, <2>3
  <2>5. /\ ColumnsClosed(s, m)
        /\ Parser!IsWord(s[2 * m + 5], "VALUES") /\ s[2 * m + 6].type = "("
        /\ ItemsFrom(s, b, v, ValueTypes) /\ CommasFrom(s, b, v)
    BY <2>2, <2>3 DEF ValuesRead
  <2>6. ItemsFrom(s, b, j, ValueTypes)
    BY <1>3, <2>1, <2>3, <2>4, <2>5, ItemAdded
  <2>7. ValuesRead(s, m, j, j - 1)
    BY <2>3, <2>4, <2>5, <2>6 DEF ValuesRead
  <2>8. InsertRead("moreValues", s, k, m, j)
    BY <2>4, <2>7 DEF InsertRead
  <2> QED
    BY <1>3, <2>3, <2>8
<1>4. ASSUME InsertReading("moreValues", s, n, k, m, v), s[k].type = ","
      PROVE  InsertRead("value", s, k, m, v)
  <2>1. n \in Nat /\ k = n + 1 /\ Len(s) = k /\ m \in Nat /\ v \in Nat /\ v \in Nat \ {0} /\ n = 2 * m + 2 * v + 5
    BY <1>4 DEF InsertReading, InsertRead
  <2>2. /\ ValuesRead(s, m, v, v - 1)
    BY <1>4 DEF InsertReading, InsertRead
  <2>3. PICK j, b : j = v - 1 /\ b = 2 * m + 7
    OBVIOUS
  <2>4. k = 2 * m + 2 * v + 6 /\ j \in Nat /\ v = j + 1 /\ k = b + 2 * j + 1 /\ b \in Nat
    BY ONLY <2>1, <2>3
  <2>5. /\ ColumnsClosed(s, m)
        /\ Parser!IsWord(s[2 * m + 5], "VALUES") /\ s[2 * m + 6].type = "("
        /\ ItemsFrom(s, b, v, ValueTypes) /\ CommasFrom(s, b, j)
    BY <2>2, <2>3 DEF ValuesRead
  <2>6. CommasFrom(s, b, v)
    BY <1>4, <2>4, <2>5, ItemAdded
  <2>7. ValuesRead(s, m, v, v)
    BY <2>3, <2>5, <2>6 DEF ValuesRead
  <2> QED
    BY <1>4, <2>1, <2>2, <2>4, <2>7 DEF InsertRead
<1>5. ASSUME InsertReading("moreValues", s, n, k, m, v), s[k].type # ","
      PROVE  InsertRead("valuesClose", s, n, m, v)
  <2>1. n \in Nat /\ k = n + 1 /\ Len(s) = k /\ m \in Nat /\ v \in Nat /\ v \in Nat \ {0} /\ n = 2 * m + 2 * v + 5
    BY <1>5 DEF InsertReading, InsertRead
  <2>2. /\ ValuesRead(s, m, v, v - 1)
    BY <1>5 DEF InsertReading, InsertRead
  <2>3. k = 2 * m + 2 * v + 6 /\ Len(s) >= 2 * m + 2 * v + 6
    BY ONLY <2>1
  <2> QED
    BY <1>5, <2>1, <2>2, <2>3 DEF InsertRead
<1> QED
  BY <1>1, <1>2, <1>3, <1>4, <1>5, Zenon

LEMMA InsertFinishes ==
  ASSUME NEW s, NEW n, NEW k, NEW m, NEW v
  PROVE  /\ InsertReading("valuesClose", s, n, k, m, v) /\ s[k].type = ")" =>
              InsertRead("semicolon", s, k, m, v)
         /\ InsertReading("semicolon", s, n, k, m, v) /\ s[k].type = ";" =>
              InsertRead("end", s, k, m, v)
         /\ InsertReading("end", s, n, k, m, v) /\ s[k].type = "END" =>
              InsertRead("ok", s, k, m, v)
<1>1. ASSUME InsertReading("valuesClose", s, n, k, m, v), s[k].type = ")"
      PROVE  InsertRead("semicolon", s, k, m, v)
  <2>1. n \in Nat /\ k = n + 1 /\ Len(s) = k /\ m \in Nat /\ v \in Nat /\ v \in Nat \ {0} /\ n = 2 * m + 2 * v + 5
    BY <1>1 DEF InsertReading, InsertRead
  <2>2. /\ ValuesRead(s, m, v, v - 1)
    BY <1>1 DEF InsertReading, InsertRead
  <2>3. k = 2 * m + 2 * v + 6
    BY ONLY <2>1
  <2>4. ValuesClosed(s, m, v)
    BY <1>1, <2>1, <2>2, <2>3 DEF ValuesClosed
  <2> QED
    BY <1>1, <2>1, <2>2, <2>3, <2>4 DEF InsertRead
<1>2. ASSUME InsertReading("semicolon", s, n, k, m, v), s[k].type = ";"
      PROVE  InsertRead("end", s, k, m, v)
  <2>1. n \in Nat /\ k = n + 1 /\ Len(s) = k /\ m \in Nat /\ v \in Nat /\ n = 2 * m + 2 * v + 6
    BY <1>2 DEF InsertReading, InsertRead
  <2>2. /\ ValuesClosed(s, m, v)
    BY <1>2 DEF InsertReading, InsertRead
  <2>3. k = 2 * m + 2 * v + 7
    BY ONLY <2>1
  <2> QED
    BY <1>2, <2>1, <2>2, <2>3 DEF InsertRead
<1>3. ASSUME InsertReading("end", s, n, k, m, v), s[k].type = "END"
      PROVE  InsertRead("ok", s, k, m, v)
  <2>1. n \in Nat /\ k = n + 1 /\ Len(s) = k /\ m \in Nat /\ v \in Nat /\ n = 2 * m + 2 * v + 7
    BY <1>3 DEF InsertReading, InsertRead
  <2>2. /\ ValuesClosed(s, m, v)
        /\ s[2 * m + 2 * v + 7].type = ";"
    BY <1>3 DEF InsertReading, InsertRead
  <2>3. k = 2 * m + 2 * v + 8
    BY ONLY <2>1
  <2>4. Insertion(s, m, v)
    BY <1>3, <2>1, <2>2, <2>3
       DEF Insertion, ValuesClosed, ValuesRead, ColumnsClosed, ColumnsRead
  <2> QED
    BY <1>3, <2>1, <2>2, <2>3, <2>4 DEF InsertRead
<1> QED
  BY <1>1, <1>2, <1>3, Zenon

LEMMA InsertPush ==
  ASSUME NEW s, NEW n, NEW m \in Nat, NEW v, InsertRead("pushColumn", s, n, m, v)
  PROVE  InsertRead("moreColumns", s, n, m + 1, v)
<1>1. n = 2 * m + 5 /\ v = 0 /\ ColumnsRead(s, m, m) /\ Parser!IsName(s[2 * m + 5])
  BY DEF InsertRead
<1>2. PICK j : j = m + 1
  OBVIOUS
<1>3. j \in Nat \ {0} /\ j - 1 = m /\ n = 2 * j + 3 /\ 2 * m + 5 = 5 + 2 * m /\ 5 \in Nat
  BY ONLY <1>1, <1>2, m \in Nat
<1>4. InsertHead(s) /\ ItemsFrom(s, 5, m, NameTypes) /\ CommasFrom(s, 5, m)
  BY <1>1 DEF ColumnsRead
<1>5. s[5 + 2 * m].type \in NameTypes
  BY <1>1, <1>3 DEF Parser!IsName, NameTypes
<1>6. ItemsFrom(s, 5, j, NameTypes)
  BY <1>2, <1>3, <1>4, <1>5, ItemAdded
<1>7. ColumnsRead(s, j, j - 1)
  BY <1>3, <1>4, <1>6 DEF ColumnsRead
<1>8. InsertRead("moreColumns", s, n, j, v)
  BY <1>1, <1>3, <1>7 DEF InsertRead
<1> QED
  BY <1>2, <1>8

\* The token behind the first n fits at p, and w items are read.
SelectReading(p, s, n, k, w, f) ==
  n \in Nat /\ k = n + 1 /\ Len(s) = k /\ w \in Nat /\ f \in {0, 4} /\ SelectRead(p, s, n, w, f)

LEMMA SelectStarts ==
  ASSUME NEW s, Parser!IsWord(s[1], "SELECT")
  PROVE  SelectRead("selectList", s, 1, 0, 0)
BY DEF SelectRead

LEMMA SelectBegins ==
  ASSUME NEW s, NEW n, NEW k, NEW w, NEW f
  PROVE  /\ SelectReading("selectList", s, n, k, w, f) /\ s[k].type = "*" =>
              SelectRead("from", s, k, 1, f)
         /\ SelectReading("selectList", s, n, k, w, f) /\ Parser!IsName(s[k]) =>
              SelectRead("pushColumn", s, k, w, f)
         /\ SelectReading("column", s, n, k, w, f) /\ Parser!IsName(s[k]) =>
              SelectRead("pushColumn", s, k, w, f)
         /\ SelectReading("moreColumns", s, n, k, w, f) /\ s[k].type = "," =>
              SelectRead("column", s, k, w, f)
         /\ SelectReading("moreColumns", s, n, k, w, f) /\ s[k].type # "," =>
              SelectRead("from", s, n, w, f)
<1>1. ASSUME SelectReading("selectList", s, n, k, w, f), s[k].type = "*"
      PROVE  SelectRead("from", s, k, 1, f)
  <2>1. n \in Nat /\ k = n + 1 /\ Len(s) = k /\ w \in Nat /\ f \in {0, 4} /\ n = 1 /\ w = 0 /\ f = 0
    BY <1>1 DEF SelectReading, SelectRead
  <2>2. /\ Parser!IsWord(s[1], "SELECT")
    BY <1>1 DEF SelectReading, SelectRead
  <2>3. k = 2 /\ 1 \in Nat \ {0} /\ k = 2 * 1
    BY ONLY <2>1
  <2>4. SelectList(s, 1)
    BY <1>1, <2>2, <2>3 DEF SelectList
  <2> QED
    BY <1>1, <2>1, <2>2, <2>3, <2>4 DEF SelectRead
<1>2. ASSUME SelectReading("selectList", s, n, k, w, f), Parser!IsName(s[k])
      PROVE  SelectRead("pushColumn", s, k, w, f)
  <2>1. n \in Nat /\ k = n + 1 /\ Len(s) = k /\ w \in Nat /\ f \in {0, 4} /\ n = 1 /\ w = 0 /\ f = 0
    BY <1>2 DEF SelectReading, SelectRead
  <2>2. /\ Parser!IsWord(s[1], "SELECT")
    BY <1>2 DEF SelectReading, SelectRead
  <2>3. k = 2 * w + 2
    BY ONLY <2>1
  <2>4. ItemsFrom(s, 2, w, NameTypes) /\ CommasFrom(s, 2, w)
    BY <2>1 DEF ItemsFrom, CommasFrom
  <2> QED
    BY <1>2, <2>1, <2>2, <2>3, <2>4 DEF SelectRead
<1>3. ASSUME SelectReading("column", s, n, k, w, f), Parser!IsName(s[k])
      PROVE  SelectRead("pushColumn", s, k, w, f)
  <2>1. n \in Nat /\ k = n + 1 /\ Len(s) = k /\ w \in Nat /\ f \in {0, 4} /\ w \in Nat \ {0} /\ n = 2 * w + 1 /\ f = 0
    BY <1>3 DEF SelectReading, SelectRead
  <2>2. /\ Parser!IsWord(s[1], "SELECT")
        /\ ItemsFrom(s, 2, w, NameTypes)
        /\ CommasFrom(s, 2, w)
    BY <1>3 DEF SelectReading, SelectRead
  <2>3. k = 2 * w + 2
    BY ONLY <2>1
  <2> QED
    BY <1>3, <2>1, <2>2, <2>3 DEF SelectRead
<1>4. ASSUME SelectReading("moreColumns", s, n, k, w, f), s[k].type = ","
      PROVE  SelectRead("column", s, k, w, f)
  <2>1. n \in Nat /\ k = n + 1 /\ Len(s) = k /\ w \in Nat /\ f \in {0, 4} /\ n = 2 * w /\ f = 0
    BY <1>4 DEF SelectReading, SelectRead
  <2>2. /\ SelectList(s, w)
        /\ s[2].type # "*"
    BY <1>4 DEF SelectReading, SelectRead
  <2>3. w # 0
    BY <2>2 DEF SelectList
  <2>4. PICK j : j = w - 1
    OBVIOUS
  <2>5. k = 2 * w + 1 /\ j \in Nat /\ w = j + 1 /\ k = 2 + 2 * j + 1 /\ 2 \in Nat
    BY ONLY <2>1, <2>3, <2>4
  <2>6. Parser!IsWord(s[1], "SELECT") /\ ItemsFrom(s, 2, w, NameTypes) /\ CommasFrom(s, 2, j)
    BY <2>2, <2>4 DEF SelectList
  <2>7. CommasFrom(s, 2, w)
    BY <1>4, <2>5, <2>6, ItemAdded
  <2> QED
    BY <1>4, <2>1, <2>2, <2>3, <2>5, <2>6, <2>7 DEF SelectRead
<1>5. ASSUME SelectReading("moreColumns", s, n, k, w, f), s[k].type # ","
      PROVE  SelectRead("from", s, n, w, f)
  <2>1. n \in Nat /\ k = n + 1 /\ Len(s) = k /\ w \in Nat /\ f \in {0, 4} /\ n = 2 * w /\ f = 0
    BY <1>5 DEF SelectReading, SelectRead
  <2>2. /\ SelectList(s, w)
        /\ s[2].type # "*"
    BY <1>5 DEF SelectReading, SelectRead
  <2>3. k = 2 * w + 1 /\ Len(s) >= 2 * w + 1
    BY ONLY <2>1
  <2> QED
    BY <1>5, <2>1, <2>2, <2>3 DEF SelectRead
<1> QED
  BY <1>1, <1>2, <1>3, <1>4, <1>5, Zenon

LEMMA TableMoves ==
  ASSUME NEW s, NEW n, NEW k, NEW w, NEW f
  PROVE  /\ SelectReading("from", s, n, k, w, f) /\ Parser!IsWord(s[k], "FROM") =>
              SelectRead("table", s, k, w, f)
         /\ SelectReading("table", s, n, k, w, f) /\ Parser!IsName(s[k]) =>
              SelectRead("where", s, k, w, f)
         /\ SelectReading("where", s, n, k, w, f) /\ Parser!IsWord(s[k], "WHERE") =>
              SelectRead("whereColumn", s, k, w, f)
         /\ SelectReading("where", s, n, k, w, f) /\ ~Parser!IsWord(s[k], "WHERE") =>
              SelectRead("semicolon", s, n, w, f)
         /\ SelectReading("whereColumn", s, n, k, w, f) /\ Parser!IsName(s[k]) =>
              SelectRead("equals", s, k, w, f)
<1>1. ASSUME SelectReading("from", s, n, k, w, f), Parser!IsWord(s[k], "FROM")
      PROVE  SelectRead("table", s, k, w, f)
  <2>1. n \in Nat /\ k = n + 1 /\ Len(s) = k /\ w \in Nat /\ f \in {0, 4} /\ n = 2 * w /\ f = 0
    BY <1>1 DEF SelectReading, SelectRead
  <2>2. /\ SelectList(s, w)
    BY <1>1 DEF SelectReading, SelectRead
  <2>3. k = 2 * w + 1
    BY ONLY <2>1
  <2> QED
    BY <1>1, <2>1, <2>2, <2>3 DEF SelectRead
<1>2. ASSUME SelectReading("table", s, n, k, w, f), Parser!IsName(s[k])
      PROVE  SelectRead("where", s, k, w, f)
  <2>1. n \in Nat /\ k = n + 1 /\ Len(s) = k /\ w \in Nat /\ f \in {0, 4} /\ n = 2 * w + 1 /\ f = 0
    BY <1>2 DEF SelectReading, SelectRead
  <2>2. /\ SelectList(s, w)
        /\ Parser!IsWord(s[2 * w + 1], "FROM")
    BY <1>2 DEF SelectReading, SelectRead
  <2>3. k = 2 * w + 2
    BY ONLY <2>1
  <2>4. SelectTable(s, w)
    BY <1>2, <2>2, <2>3 DEF SelectTable
  <2> QED
    BY <1>2, <2>1, <2>2, <2>3, <2>4 DEF SelectRead
<1>3. ASSUME SelectReading("where", s, n, k, w, f), Parser!IsWord(s[k], "WHERE")
      PROVE  SelectRead("whereColumn", s, k, w, f)
  <2>1. n \in Nat /\ k = n + 1 /\ Len(s) = k /\ w \in Nat /\ f \in {0, 4} /\ n = 2 * w + 2 /\ f = 0
    BY <1>3 DEF SelectReading, SelectRead
  <2>2. /\ SelectTable(s, w)
    BY <1>3 DEF SelectReading, SelectRead
  <2>3. k = 2 * w + 3
    BY ONLY <2>1
  <2> QED
    BY <1>3, <2>1, <2>2, <2>3 DEF SelectRead
<1>4. ASSUME SelectReading("where", s, n, k, w, f), ~Parser!IsWord(s[k], "WHERE")
      PROVE  SelectRead("semicolon", s, n, w, f)
  <2>1. n \in Nat /\ k = n + 1 /\ Len(s) = k /\ w \in Nat /\ f \in {0, 4} /\ n = 2 * w + 2 /\ f = 0
    BY <1>4 DEF SelectReading, SelectRead
  <2>2. /\ SelectTable(s, w)
    BY <1>4 DEF SelectReading, SelectRead
  <2>3. k = 2 * w + 3
    BY ONLY <2>1
  <2>4. n = 2 * w + 2 + f /\ Len(s) >= 2 * w + 3
    BY ONLY <2>1
  <2> QED
    BY <1>4, <2>1, <2>2, <2>3, <2>4 DEF SelectRead
<1>5. ASSUME SelectReading("whereColumn", s, n, k, w, f), Parser!IsName(s[k])
      PROVE  SelectRead("equals", s, k, w, f)
  <2>1. n \in Nat /\ k = n + 1 /\ Len(s) = k /\ w \in Nat /\ f \in {0, 4} /\ n = 2 * w + 3 /\ f = 0
    BY <1>5 DEF SelectReading, SelectRead
  <2>2. /\ SelectTable(s, w)
        /\ Parser!IsWord(s[2 * w + 3], "WHERE")
    BY <1>5 DEF SelectReading, SelectRead
  <2>3. k = 2 * w + 4
    BY ONLY <2>1
  <2> QED
    BY <1>5, <2>1, <2>2, <2>3 DEF SelectRead
<1> QED
  BY <1>1, <1>2, <1>3, <1>4, <1>5, Zenon

LEMMA SelectFinishes ==
  ASSUME NEW s, NEW n, NEW k, NEW w, NEW f
  PROVE  /\ SelectReading("equals", s, n, k, w, f) /\ s[k].type = "=" =>
              SelectRead("whereValue", s, k, w, f)
         /\ SelectReading("whereValue", s, n, k, w, f) /\ s[k].type \in ValueTypes =>
              SelectRead("connector?", s, k, w, f)
         /\ SelectReading("connector?", s, n, k, w, f) /\ ~Parser!Connects(s[k]) =>
              SelectRead("semicolon", s, n, w, 4)
         /\ SelectReading("semicolon", s, n, k, w, f) /\ s[k].type = ";" =>
              SelectRead("end", s, k, w, f)
         /\ SelectReading("end", s, n, k, w, f) /\ s[k].type = "END" =>
              SelectRead("ok", s, k, w, f)
<1>1. ASSUME SelectReading("equals", s, n, k, w, f), s[k].type = "="
      PROVE  SelectRead("whereValue", s, k, w, f)
  <2>1. n \in Nat /\ k = n + 1 /\ Len(s) = k /\ w \in Nat /\ f \in {0, 4} /\ n = 2 * w + 4 /\ f = 0
    BY <1>1 DEF SelectReading, SelectRead
  <2>2. /\ SelectTable(s, w)
        /\ Parser!IsWord(s[2 * w + 3], "WHERE")
        /\ Parser!IsName(s[2 * w + 4])
    BY <1>1 DEF SelectReading, SelectRead
  <2>3. k = 2 * w + 5
    BY ONLY <2>1
  <2> QED
    BY <1>1, <2>1, <2>2, <2>3 DEF SelectRead
<1>2. ASSUME SelectReading("whereValue", s, n, k, w, f), s[k].type \in ValueTypes
      PROVE  SelectRead("connector?", s, k, w, f)
  <2>1. n \in Nat /\ k = n + 1 /\ Len(s) = k /\ w \in Nat /\ f \in {0, 4} /\ n = 2 * w + 5 /\ f = 0
    BY <1>2 DEF SelectReading, SelectRead
  <2>2. /\ SelectTable(s, w)
        /\ Parser!IsWord(s[2 * w + 3], "WHERE")
        /\ Parser!IsName(s[2 * w + 4])
        /\ s[2 * w + 5].type = "="
    BY <1>2 DEF SelectReading, SelectRead
  <2>3. k = 2 * w + 6
    BY ONLY <2>1
  <2>4. SelectFilter(s, w)
    BY <1>2, <2>2, <2>3 DEF SelectFilter
  <2> QED
    BY <1>2, <2>1, <2>2, <2>3, <2>4 DEF SelectRead
<1>3. ASSUME SelectReading("connector?", s, n, k, w, f), ~Parser!Connects(s[k])
      PROVE  SelectRead("semicolon", s, n, w, 4)
  <2>1. n \in Nat /\ k = n + 1 /\ Len(s) = k /\ w \in Nat /\ f \in {0, 4} /\ n = 2 * w + 6 /\ f = 0
    BY <1>3 DEF SelectReading, SelectRead
  <2>2. /\ SelectTable(s, w)
        /\ SelectFilter(s, w)
    BY <1>3 DEF SelectReading, SelectRead
  <2>3. k = 2 * w + 7
    BY ONLY <2>1
  <2>4. n = 2 * w + 2 + 4 /\ 4 \in {0, 4}
    BY ONLY <2>1
  <2> QED
    BY <1>3, <2>1, <2>2, <2>3, <2>4 DEF SelectRead
<1>4. ASSUME SelectReading("semicolon", s, n, k, w, f), s[k].type = ";"
      PROVE  SelectRead("end", s, k, w, f)
  <2>1. n \in Nat /\ k = n + 1 /\ Len(s) = k /\ w \in Nat /\ f \in {0, 4} /\ n = 2 * w + 2 + f
    BY <1>4 DEF SelectReading, SelectRead
  <2>2. /\ SelectTable(s, w)
        /\ f = 4 => SelectFilter(s, w)
    BY <1>4 DEF SelectReading, SelectRead
  <2>3. k = 2 * w + 3 + f
    BY ONLY <2>1
  <2> QED
    BY <1>4, <2>1, <2>2, <2>3 DEF SelectRead
<1>5. ASSUME SelectReading("end", s, n, k, w, f), s[k].type = "END"
      PROVE  SelectRead("ok", s, k, w, f)
  <2>1. n \in Nat /\ k = n + 1 /\ Len(s) = k /\ w \in Nat /\ f \in {0, 4} /\ n = 2 * w + 3 + f
    BY <1>5 DEF SelectReading, SelectRead
  <2>2. /\ SelectTable(s, w)
        /\ f = 4 => SelectFilter(s, w)
        /\ s[2 * w + 3 + f].type = ";"
    BY <1>5 DEF SelectReading, SelectRead
  <2>3. k = 2 * w + 4 + f
    BY ONLY <2>1
  <2>4. Selection(s, w, f)
    BY <1>5, <2>1, <2>2, <2>3 DEF Selection
  <2> QED
    BY <1>5, <2>1, <2>2, <2>3, <2>4 DEF SelectRead
<1> QED
  BY <1>1, <1>2, <1>3, <1>4, <1>5, Zenon

LEMMA SelectPush ==
  ASSUME NEW s, NEW n, NEW w \in Nat, NEW f, SelectRead("pushColumn", s, n, w, f)
  PROVE  SelectRead("moreColumns", s, n, w + 1, f)
<1>1. /\ n = 2 * w + 2 /\ f = 0 /\ Parser!IsWord(s[1], "SELECT") /\ Parser!IsName(s[2 * w + 2])
      /\ ItemsFrom(s, 2, w, NameTypes) /\ CommasFrom(s, 2, w)
  BY DEF SelectRead
<1>2. PICK j : j = w + 1
  OBVIOUS
<1>3. /\ j \in Nat \ {0} /\ j - 1 = w /\ n = 2 * j /\ 2 * w + 2 = 2 + 2 * w /\ 2 \in Nat
      /\ 2 + 2 * 1 - 2 = 2 /\ 1 \in 1..j
  <2>1. n = 2 * w + 2
    BY <1>1, Zenon
  <2> QED
    BY ONLY <1>2, <2>1, w \in Nat
<1>4. s[2 + 2 * w].type \in NameTypes
  BY <1>1, <1>3 DEF Parser!IsName, NameTypes
<1>5. ItemsFrom(s, 2, j, NameTypes)
  BY <1>1, <1>2, <1>3, <1>4, ItemAdded
<1>6. SelectList(s, j)
  BY <1>1, <1>3, <1>5 DEF SelectList
<1>7. s[2].type # "*"
  <2>1. s[2 + 2 * 1 - 2].type \in NameTypes
    BY <1>3, <1>5 DEF ItemsFrom
  <2> QED
    BY <1>3, <2>1 DEF NameTypes
<1>8. SelectRead("moreColumns", s, n, j, f)
  BY <1>1, <1>3, <1>6, <1>7 DEF SelectRead
<1> QED
  BY <1>2, <1>8

-----------------------------------------------------------------------------
(* The syntax tree of what was read.                                       *)

\* The items of a list in a syntax tree.
TextsFrom(list, s, a) == \A k \in 1..Len(list) : list[k] = s[a + 2 * k - 2].text

BeforeTable == {"statement", "into", "table"}

InsertTree(p, s, n, st, word) ==
  /\ st.select_all = FALSE /\ st.has_where = FALSE
  /\ st.where_column = Null /\ st.where_value = Null
  /\ p \in BeforeTable => st.table_name = Null
  /\ p \notin BeforeTable => st.table_name = s[3].text
  /\ TextsFrom(st.columns, s, 5) /\ TextsFrom(st.values, s, 2 * Len(st.columns) + 7)
  /\ p = "pushColumn" => word = s[n].text

\* The items of a SELECT, the star among them, and the tokens of its filter.
Width(st) == IF st.select_all THEN 1 ELSE Len(st.columns)
FilterLength(st) == IF st.has_where THEN 4 ELSE 0

UpToTable == {"selectList", "column", "pushColumn", "moreColumns", "from", "table"}
BehindFilter == {"semicolon", "end", "ok"}
FilterNamed == {"equals", "whereValue", "connector?"}

SelectTree(p, s, n, w, st, word) ==
  /\ st.values = <<>>
  /\ st.select_all => st.columns = <<>>
  /\ p = "selectList" => st.select_all = FALSE
  /\ p # "selectList" => (st.select_all = TRUE <=> s[2].type = "*")
  /\ TextsFrom(st.columns, s, 2)
  /\ p = "pushColumn" => word = s[n].text
  /\ p \in UpToTable => st.table_name = Null
  /\ p \notin UpToTable => st.table_name = s[2 * w + 2].text
  /\ p \in FilterNamed \/ st.has_where => st.where_column = s[2 * w + 4].text
  /\ p = "connector?" \/ st.has_where => st.where_value = s[2 * w + 6].text
  /\ p \in BehindFilter /\ ~st.has_where => st.where_column = Null /\ st.where_value = Null
  /\ p \notin BehindFilter => st.has_where = FALSE

\* Where the parser stands: what it read, and the tree of it.
Stands(p, s, n, st, word) ==
  /\ Len(s) <= n + 1
  /\ st.type = "INSERT" =>
       /\ InsertRead(p, s, n, Len(st.columns), Len(st.values))
       /\ InsertTree(p, s, n, st, word)
  /\ st.type = "SELECT" =>
       /\ SelectRead(p, s, n, Width(st), FilterLength(st))
       /\ SelectTree(p, s, n, Width(st), st, word)

Reading == ParsePlaces \ ParseEnds

ParseStands ==
  pc \in Reading \cup {"ok"} => Stands(pc, tokens, index, statement, identifier)

LEMMA InsertReach ==
  ASSUME NEW p \in Reading, NEW s, NEW n, NEW m \in Nat, NEW v \in Nat, InsertRead(p, s, n, m, v)
  PROVE  /\ n \in Nat
         /\ p \notin BeforeTable => n >= 3
         /\ m # 0 => n >= 2 * m + 3
         /\ v # 0 => n >= 2 * m + 2 * v + 5
         /\ p = "pushColumn" => n >= 1
<1>1. CASE p \in BeforeTable \cup {"columnsOpen"}
  <2>1. m = 0 /\ v = 0 /\ (n = 0 \/ n = 1 \/ n = 2 \/ n = 3) /\ (p = "columnsOpen" => n = 3)
    BY <1>1 DEF InsertRead, BeforeTable
  <2> QED
    BY <1>1, <2>1 DEF BeforeTable
<1>2. CASE p \in {"column", "pushColumn", "moreColumns", "columnsClose", "valuesWord", "valuesOpen"}
  <2>1. v = 0 /\ ((n = 2 * m + 3 /\ m # 0) \/ n = 2 * m + 4 \/ n = 2 * m + 5)
    BY <1>2 DEF InsertRead
  <2>2. n \in Nat /\ n >= 3 /\ n >= 2 * m + 3 /\ n >= 1 /\ v = 0
    BY ONLY <2>1, m \in Nat
  <2> QED
    BY <2>2
<1>3. CASE p \in {"value", "moreValues", "valuesClose", "semicolon", "end"}
  <2>1. (n = 2 * m + 2 * v + 5 /\ v # 0) \/ n = 2 * m + 2 * v + 6 \/ n = 2 * m + 2 * v + 7
    BY <1>3 DEF InsertRead
  <2>2. n \in Nat /\ n >= 3 /\ n >= 2 * m + 3 /\ n >= 2 * m + 2 * v + 5 /\ n >= 1
    BY ONLY <2>1, m \in Nat, v \in Nat
  <2> QED
    BY <2>2
<1>4. p \notin {"selectList", "from", "where", "whereColumn", "equals", "whereValue", "connector?"}
  BY DEF InsertRead
<1> QED
  BY <1>1, <1>2, <1>3, <1>4
     DEF Reading, ParsePlaces, InsertPlaces, SelectPlaces, ColumnPlaces, BeforeTable

LEMMA SelectReach ==
  ASSUME NEW p \in Reading, NEW s, NEW n, NEW w \in Nat, NEW f \in {0, 4}, SelectRead(p, s, n, w, f)
  PROVE  /\ n \in Nat
         /\ p # "selectList" => n >= 2
         /\ w # 0 => n >= 2 * w
         /\ p \notin UpToTable => n >= 2 * w + 2
         /\ p \in FilterNamed \/ f = 4 => n >= 2 * w + 4
         /\ p = "connector?" \/ f = 4 => n >= 2 * w + 6
<1>1. CASE p = "selectList"
  <2>1. n = 1 /\ w = 0 /\ f = 0
    BY <1>1 DEF SelectRead
  <2> QED
    BY <1>1, <2>1 DEF UpToTable, FilterNamed
<1>2. CASE p \in UpToTable \ {"selectList"}
  <2>0. w # 0 \/ ~SelectList(s, w)
    BY DEF SelectList
  <2>1. f = 0 /\ ((n = 2 * w + 1 /\ w # 0) \/ n = 2 * w + 2 \/ (n = 2 * w /\ w # 0))
    <3>1. f = 0
      BY <1>2 DEF SelectRead, UpToTable
    <3>2. CASE p \in {"column", "pushColumn"}
      BY <3>1, <3>2 DEF SelectRead
    <3>3. CASE p \in {"moreColumns", "from"}
      BY <2>0, <3>1, <3>3 DEF SelectRead
    <3>4. CASE p = "table"
      BY <2>0, <3>1, <3>4 DEF SelectRead
    <3> QED
      BY <1>2, <3>2, <3>3, <3>4 DEF UpToTable
  <2>2. n \in Nat /\ n >= 2 /\ n >= 2 * w /\ f # 4
    BY ONLY <2>1, w \in Nat
  <2> QED
    BY <1>2, <2>2 DEF UpToTable, FilterNamed
<1>3. CASE p \in {"where", "whereColumn"}
  <2>1. f = 0 /\ (n = 2 * w + 2 \/ n = 2 * w + 3)
    BY <1>3 DEF SelectRead
  <2>2. n \in Nat /\ n >= 2 /\ n >= 2 * w /\ n >= 2 * w + 2 /\ f # 4
    BY ONLY <2>1, w \in Nat
  <2> QED
    BY <1>3, <2>2 DEF FilterNamed
<1>4. CASE p \in FilterNamed
  <2>1. f = 0 /\ (n = 2 * w + 4 \/ n = 2 * w + 5 \/ n = 2 * w + 6) /\ (p = "connector?" => n = 2 * w + 6)
    BY <1>4 DEF SelectRead, FilterNamed
  <2>2. n \in Nat /\ n >= 2 /\ n >= 2 * w /\ n >= 2 * w + 2 /\ n >= 2 * w + 4 /\ f # 4
    BY ONLY <2>1, w \in Nat
  <2>3. p = "connector?" => n >= 2 * w + 6
    BY <2>1
  <2> QED
    BY <2>2, <2>3
<1>5. CASE p \in {"semicolon", "end"}
  <2>1. n = 2 * w + 2 + f \/ n = 2 * w + 3 + f
    BY <1>5 DEF SelectRead
  <2>2. n \in Nat /\ n >= 2 /\ n >= 2 * w /\ n >= 2 * w + 2 /\ (f = 4 => n >= 2 * w + 4 /\ n >= 2 * w + 6)
    BY ONLY <2>1, w \in Nat, f \in {0, 4}
  <2> QED
    BY <1>5, <2>2 DEF FilterNamed
<1>6. p \notin {"statement", "into", "columnsOpen", "columnsClose", "valuesWord", "valuesOpen",
                "value", "moreValues", "valuesClose"}
  BY DEF SelectRead
<1> QED
  BY <1>1, <1>2, <1>3, <1>4, <1>5, <1>6
     DEF Reading, ParsePlaces, InsertPlaces, SelectPlaces, ColumnPlaces, UpToTable, FilterNamed

LEMMA TextsKept ==
  ASSUME NEW list, NEW s, NEW u, Extends(u, s), Len(list) \in Nat, NEW a \in Nat \ {0},
         Len(list) # 0 => a + 2 * Len(list) - 2 <= Len(s), TextsFrom(list, s, a)
  PROVE  TextsFrom(list, u, a)
<1>1. PICK l, d : l = Len(s) /\ d = Len(list)
  OBVIOUS
<1>2. l \in Nat /\ d \in Nat /\ (d # 0 => a + 2 * d - 2 <= l) /\ \A j \in 1..l : u[j] = s[j]
  BY <1>1 DEF Extends
<1>3. ASSUME NEW k \in 1..d PROVE list[k] = u[a + 2 * k - 2].text
  <2>1. PICK j : j = a + 2 * k - 2
    OBVIOUS
  <2>2. j \in 1..l
    BY <1>2, <2>1
  <2>3. list[k] = s[j].text
    BY <1>1, <2>1 DEF TextsFrom
  <2> QED
    BY <1>2, <2>1, <2>2, <2>3
<1> QED
  BY <1>1, <1>3 DEF TextsFrom

LEMMA InsertTreeKept ==
  ASSUME NEW p \in Reading, NEW s, NEW u, NEW n, NEW st \in StatementType, NEW word,
         InsertRead(p, s, n, Len(st.columns), Len(st.values)), n <= Len(s), Extends(u, s),
         InsertTree(p, s, n, st, word)
  PROVE  InsertTree(p, u, n, st, word)
<1>1. PICK m, v, l, a : m = Len(st.columns) /\ v = Len(st.values) /\ l = Len(s) /\ a = 2 * m + 7
  OBVIOUS
<1>2. m \in Nat /\ v \in Nat
  BY <1>1 DEF StatementType
<1>3. /\ n \in Nat
      /\ p \notin BeforeTable => n >= 3
      /\ m # 0 => n >= 2 * m + 3
      /\ v # 0 => n >= 2 * m + 2 * v + 5
      /\ p = "pushColumn" => n >= 1
  <2>1. InsertRead(p, s, n, m, v)
    BY <1>1
  <2> QED
    BY <1>2, <2>1, InsertReach
<1>4. l \in Nat /\ n <= l /\ \A j \in 1..l : u[j] = s[j]
  BY <1>1 DEF Extends
<1>5. TextsFrom(st.columns, s, 5) /\ TextsFrom(st.values, s, a)
  BY <1>1 DEF InsertTree
<1>6. /\ 5 \in Nat \ {0} /\ a \in Nat \ {0}
      /\ m # 0 => 5 + 2 * m - 2 <= l
      /\ v # 0 => a + 2 * v - 2 <= l
  <2>1. n \in Nat /\ (m # 0 => n >= 2 * m + 3) /\ (v # 0 => n >= 2 * m + 2 * v + 5)
    BY <1>3, Zenon
  <2>2. a = 2 * m + 7 /\ l \in Nat /\ n <= l
    BY <1>1, <1>4, Zenon
  <2> QED
    BY ONLY <1>2, <2>1, <2>2
<1>7. TextsFrom(st.columns, u, 5)
  BY <1>1, <1>2, <1>5, <1>6, TextsKept
<1>8. TextsFrom(st.values, u, a)
  BY <1>1, <1>2, <1>5, <1>6, TextsKept
<1>9. p \notin BeforeTable => u[3] = s[3]
  BY <1>3, <1>4
<1>10. p = "pushColumn" => u[n] = s[n]
  BY <1>3, <1>4
<1>11. /\ st.select_all = FALSE /\ st.has_where = FALSE
       /\ st.where_column = Null /\ st.where_value = Null
       /\ p \in BeforeTable => st.table_name = Null
       /\ p \notin BeforeTable => st.table_name = s[3].text
       /\ p = "pushColumn" => word = s[n].text
  BY DEF InsertTree
<1> QED
  BY <1>1, <1>7, <1>8, <1>9, <1>10, <1>11 DEF InsertTree

LEMMA WidthType ==
  ASSUME NEW st \in StatementType
  PROVE  /\ Width(st) \in Nat /\ FilterLength(st) \in {0, 4}
         /\ st.has_where \in BOOLEAN /\ st.select_all \in BOOLEAN
         /\ st.has_where = FALSE <=> FilterLength(st) = 0
         /\ st.has_where = TRUE <=> FilterLength(st) = 4
<1>1. st.has_where \in BOOLEAN /\ st.select_all \in BOOLEAN /\ Len(st.columns) \in Nat
  BY DEF StatementType
<1>2. Width(st) \in Nat
  BY <1>1 DEF Width
<1>3. CASE st.has_where = TRUE
  BY <1>1, <1>2, <1>3 DEF FilterLength
<1>4. CASE st.has_where = FALSE
  BY <1>1, <1>2, <1>4 DEF FilterLength
<1> QED
  BY <1>1, <1>3, <1>4

LEMMA SelectTreeKept ==
  ASSUME NEW p \in Reading, NEW s, NEW u, NEW n, NEW st \in StatementType, NEW word,
         SelectRead(p, s, n, Width(st), FilterLength(st)), n <= Len(s), Extends(u, s),
         SelectTree(p, s, n, Width(st), st, word)
  PROVE  SelectTree(p, u, n, Width(st), st, word)
<1>1. PICK w, f, m, l :
        w = Width(st) /\ f = FilterLength(st) /\ m = Len(st.columns) /\ l = Len(s)
  OBVIOUS
<1>2. w \in Nat /\ f \in {0, 4} /\ m \in Nat /\ (f = 4 <=> st.has_where = TRUE)
  <2>1. m \in Nat
    BY <1>1 DEF StatementType
  <2> QED
    BY <1>1, <2>1, WidthType, Zenon
<1>3. SelectRead(p, s, n, w, f) /\ SelectTree(p, s, n, w, st, word)
  BY <1>1
<1>4. /\ n \in Nat
      /\ p # "selectList" => n >= 2
      /\ w # 0 => n >= 2 * w
      /\ p \notin UpToTable => n >= 2 * w + 2
      /\ p \in FilterNamed \/ f = 4 => n >= 2 * w + 4
      /\ p = "connector?" \/ f = 4 => n >= 2 * w + 6
  BY <1>2, <1>3, SelectReach
<1>5. l \in Nat /\ n <= l /\ \A j \in 1..l : u[j] = s[j]
  BY <1>1 DEF Extends
<1>6. m # 0 => m = w
  <2>1. CASE st.select_all = TRUE
    BY <1>1, <1>3, <2>1 DEF SelectTree
  <2>2. CASE st.select_all = FALSE
    BY <1>1, <2>2 DEF Width
  <2> QED
    BY <2>1, <2>2, WidthType
<1>7. TextsFrom(st.columns, u, 2)
  <2>1. m # 0 => 2 + 2 * m - 2 <= l
    BY ONLY <1>2, <1>4, <1>5, <1>6
  <2>2. TextsFrom(st.columns, s, 2) /\ 2 \in Nat \ {0}
    BY <1>3 DEF SelectTree
  <2> QED
    BY <1>1, <1>2, <2>1, <2>2, TextsKept
<1>8. /\ p # "selectList" => u[2] = s[2]
      /\ p = "pushColumn" => u[n] = s[n]
      /\ p \notin UpToTable => u[2 * w + 2] = s[2 * w + 2]
  <2>1. /\ p # "selectList" => 2 \in 1..l
        /\ p = "pushColumn" => n \in 1..l
        /\ p \notin UpToTable => 2 * w + 2 \in 1..l
    <3>1. ASSUME n >= 2 PROVE 2 \in 1..l /\ n \in 1..l
      BY ONLY <1>4, <1>5, <3>1
    <3>2. ASSUME n >= 2 * w + 2 PROVE 2 * w + 2 \in 1..l
      <4>1. n \in Nat /\ l \in Nat /\ n <= l
        BY <1>4, <1>5, Zenon
      <4> QED
        BY ONLY <1>2, <3>2, <4>1
    <3>3. p = "pushColumn" => p # "selectList"
      OBVIOUS
    <3> QED
      BY <1>4, <3>1, <3>2, <3>3, Zenon
  <2> QED
    BY <1>5, <2>1
<1>9. /\ p \in FilterNamed \/ f = 4 => u[2 * w + 4] = s[2 * w + 4]
      /\ p = "connector?" \/ f = 4 => u[2 * w + 6] = s[2 * w + 6]
  <2>1. /\ p \in FilterNamed \/ f = 4 => 2 * w + 4 \in 1..l
        /\ p = "connector?" \/ f = 4 => 2 * w + 6 \in 1..l
    BY <1>2, <1>4, <1>5
  <2> QED
    BY <1>5, <2>1
<1>10. SelectTree(p, u, n, w, st, word)
  BY <1>2, <1>3, <1>7, <1>8, <1>9 DEF SelectTree
<1> QED
  BY <1>1, <1>10

LEMMA StandsKept ==
  ASSUME NEW p \in Reading, NEW s, NEW u, NEW n \in Nat, NEW st \in StatementType, NEW word,
         Stands(p, s, n, st, word), n <= Len(s), Extends(u, s), Len(u) = n + 1
  PROVE  Stands(p, u, n, st, word)
<1>1. p # "ok" /\ Len(u) <= n + 1 /\ Len(st.columns) \in Nat /\ Len(st.values) \in Nat
  BY DEF Reading, ParseEnds, Parser!Answers, StatementType
<1>2. Width(st) \in Nat /\ FilterLength(st) \in {0, 4}
  BY WidthType
<1>3. ASSUME st.type = "INSERT"
      PROVE  InsertRead(p, u, n, Len(st.columns), Len(st.values)) /\ InsertTree(p, u, n, st, word)
  <2>1. InsertRead(p, s, n, Len(st.columns), Len(st.values)) /\ InsertTree(p, s, n, st, word)
    BY <1>3 DEF Stands
  <2>2. InsertTree(p, u, n, st, word)
    BY <2>1, InsertTreeKept
  <2>3. InsertRead(p, u, n, Len(st.columns), Len(st.values))
    BY <1>1, <2>1, InsertReadKept
  <2> QED
    BY <2>2, <2>3
<1>4. ASSUME st.type = "SELECT"
      PROVE  /\ SelectRead(p, u, n, Width(st), FilterLength(st))
             /\ SelectTree(p, u, n, Width(st), st, word)
  <2>1. /\ SelectRead(p, s, n, Width(st), FilterLength(st))
        /\ SelectTree(p, s, n, Width(st), st, word)
    BY <1>4 DEF Stands
  <2>2. SelectTree(p, u, n, Width(st), st, word)
    BY <2>1, SelectTreeKept
  <2>3. SelectRead(p, u, n, Width(st), FilterLength(st))
    BY <1>1, <1>2, <2>1, SelectReadKept
  <2> QED
    BY <2>2, <2>3
<1> QED
  BY <1>1, <1>3, <1>4 DEF Stands

-----------------------------------------------------------------------------
(* Every step leaves the parser where its invariant says.                  *)

LEMMA InsertMoved ==
  ASSUME NEW p, NEW q, NEW s, NEW n, NEW j, NEW st, NEW word, st.type = "INSERT",
         InsertTree(p, s, n, st, word), InsertRead(q, s, j, Len(st.columns), Len(st.values)),
         q # "pushColumn", Len(s) <= j + 1,
         (p \in BeforeTable /\ q \in BeforeTable) \/ (p \notin BeforeTable /\ q \notin BeforeTable)
  PROVE  Stands(q, s, j, st, word)
<1>1. InsertTree(q, s, j, st, word)
  BY DEF InsertTree
<1> QED
  BY <1>1 DEF Stands

LEMMA SelectMoved ==
  ASSUME NEW p, NEW q, NEW s, NEW n, NEW j, NEW st, NEW word, st.type = "SELECT",
         SelectTree(p, s, n, Width(st), st, word),
         SelectRead(q, s, j, Width(st), FilterLength(st)),
         p # "selectList", q \notin {"selectList", "pushColumn"}, Len(s) <= j + 1,
         (p \in UpToTable /\ q \in UpToTable) \/ (p \notin UpToTable /\ q \notin UpToTable),
         q \in FilterNamed => p \in FilterNamed, q = "connector?" => p = "connector?",
         q \in BehindFilter =>
           p \in BehindFilter \/ (st.where_column = Null /\ st.where_value = Null),
         q \notin BehindFilter => p \notin BehindFilter
  PROVE  Stands(q, s, j, st, word)
<1>1. SelectTree(q, s, j, Width(st), st, word)
  BY DEF SelectTree
<1> QED
  BY <1>1 DEF Stands

\* A token has been looked at: it stands behind the first index of s.
LookedAt(s, t) ==
  /\ index \in Nat /\ s \in Seq(Parser!Token) /\ Len(s) = index + 1 /\ s[index + 1] = t
  /\ Stands(pc, s, index, statement, identifier)

LEMMA LookStands ==
  ASSUME ParseInv, ParseStands, NEW t \in Parser!Token, Parser!Current(t), pc \in Reading
  PROVE  LookedAt(tokens', t)
<1>1. /\ index \in Nat /\ index <= Len(tokens) /\ tokens \in Seq(Parser!Token)
      /\ statement \in StatementType
  BY DEF ParseInv, ParseTokens, ParseTree
<1>2. Stands(pc, tokens, index, statement, identifier)
  BY DEF ParseStands
<1>3. Len(tokens) <= index + 1
  BY <1>2 DEF Stands
<1>4. PICK s : s = tokens'
  OBVIOUS
<1>5. /\ s \in Seq(Parser!Token) /\ Len(s) = index + 1 /\ s[index + 1] = t
      /\ Extends(s, tokens)
  <2>1. CASE index < Len(tokens)
    <3>1. s = tokens /\ t = tokens[index + 1]
      BY <1>4, <2>1 DEF Parser!Current
    <3> QED
      BY <1>1, <1>3, <2>1, <3>1 DEF Extends
  <2>2. CASE ~(index < Len(tokens))
    <3>1. s = Append(tokens, t)
      BY <1>4, <2>2 DEF Parser!Current
    <3>2. Len(tokens) = index
      BY <1>1, <2>2
    <3> QED
      BY <1>1, <3>1, <3>2 DEF Extends
  <2> QED
    BY <2>1, <2>2
<1>6. PICK p, r, n, st, word :
        p = pc /\ r = tokens /\ n = index /\ st = statement /\ word = identifier
  OBVIOUS
<1>7. /\ p \in Reading /\ n \in Nat /\ st \in StatementType /\ Stands(p, r, n, st, word)
      /\ n <= Len(r) /\ Extends(s, r) /\ Len(s) = n + 1
  BY <1>1, <1>2, <1>5, <1>6
<1>8. Stands(p, s, n, st, word)
  BY <1>7, StandsKept
<1> QED
  BY <1>1, <1>4, <1>5, <1>6, <1>8 DEF LookedAt

\* What is known of the step that looks at t, in constants.
Looking(p, s, n, k, t, st, word) ==
  /\ p \in Reading /\ n \in Nat /\ k = n + 1 /\ Len(s) = k /\ s[k] = t
  /\ st \in StatementType /\ Stands(p, s, n, st, word)
  /\ pc = p /\ tokens' = s /\ index = n /\ statement = st /\ identifier = word

LEMMA LookingIs ==
  ASSUME ParseInv, ParseStands, NEW t \in Parser!Token, Parser!Current(t), pc \in Reading
  PROVE  \E p, s, n, k, st, word : Looking(p, s, n, k, t, st, word)
<1>1. PICK p, s, n, k, st, word :
        /\ p = pc /\ s = tokens' /\ n = index /\ k = n + 1 /\ st = statement
        /\ word = identifier
  OBVIOUS
<1>2. LookedAt(s, t)
  BY <1>1, LookStands
<1>3. statement \in StatementType
  BY DEF ParseInv, ParseTree
<1>4. Looking(p, s, n, k, t, st, word)
  BY <1>1, <1>2, <1>3 DEF LookedAt, Looking
<1> QED
  BY <1>4

\* The same of an INSERT and of a SELECT.
LEMMA LookingInsert ==
  ASSUME NEW p, NEW s, NEW n, NEW k, NEW t, NEW st, NEW word,
         Looking(p, s, n, k, t, st, word), st.type = "INSERT"
  PROVE  /\ InsertReading(p, s, n, k, Len(st.columns), Len(st.values))
         /\ InsertTree(p, s, n, st, word) /\ Len(s) <= n + 1 /\ Len(s) <= k + 1
<1>1. Len(st.columns) \in Nat /\ Len(st.values) \in Nat
  BY DEF Looking, StatementType
<1>2. /\ InsertRead(p, s, n, Len(st.columns), Len(st.values))
      /\ InsertTree(p, s, n, st, word)
  BY DEF Looking, Stands
<1>3. n \in Nat /\ k = n + 1 /\ Len(s) = k
  BY DEF Looking
<1>4. Len(s) <= n + 1 /\ Len(s) <= k + 1
  BY ONLY <1>3
<1> QED
  BY <1>1, <1>2, <1>3, <1>4 DEF InsertReading

LEMMA LookingSelect ==
  ASSUME NEW p, NEW s, NEW n, NEW k, NEW t, NEW st, NEW word,
         Looking(p, s, n, k, t, st, word), st.type = "SELECT"
  PROVE  /\ SelectReading(p, s, n, k, Width(st), FilterLength(st))
         /\ SelectTree(p, s, n, Width(st), st, word) /\ Len(s) <= n + 1 /\ Len(s) <= k + 1
<1>1. Width(st) \in Nat /\ FilterLength(st) \in {0, 4}
  BY WidthType DEF Looking
<1>2. /\ SelectRead(p, s, n, Width(st), FilterLength(st))
      /\ SelectTree(p, s, n, Width(st), st, word)
  BY DEF Looking, Stands
<1>3. n \in Nat /\ k = n + 1 /\ Len(s) = k
  BY DEF Looking
<1>4. Len(s) <= n + 1 /\ Len(s) <= k + 1
  BY ONLY <1>3
<1> QED
  BY <1>1, <1>2, <1>3, <1>4 DEF SelectReading

LEMMA StandsAfter ==
  ASSUME NEW q, NEW s, NEW j, NEW st, NEW word, Stands(q, s, j, st, word),
         pc' = q, tokens' = s, index' = j, statement' = st, identifier' = word
  PROVE  ParseStands'
BY DEF ParseStands

\* expect_keyword and expect_type read what they expect.
LEMMA FixedStands ==
  ASSUME ParseInv, ParseStands, Parser!Fixed
  PROVE  ParseStands'
<1>1. PICK t \in Parser!Token : Parser!Current(t) /\ Parser!Fits(t)
  BY DEF Parser!Fixed
<1>2. /\ UNCHANGED <<statement, identifier>> /\ index' = index + 1
      /\ \/ pc = "into" /\ pc' = "table" /\ Parser!IsWord(t, "INTO")
         \/ pc = "columnsOpen" /\ pc' = "column" /\ t.type = "("
         \/ pc = "columnsClose" /\ pc' = "valuesWord" /\ t.type = ")"
         \/ pc = "valuesWord" /\ pc' = "valuesOpen" /\ Parser!IsWord(t, "VALUES")
         \/ pc = "valuesOpen" /\ pc' = "value" /\ t.type = "("
         \/ pc = "valuesClose" /\ pc' = "semicolon" /\ t.type = ")"
         \/ pc = "semicolon" /\ pc' = "end" /\ t.type = ";"
         \/ pc = "end" /\ pc' = "ok" /\ t.type = "END"
         \/ pc = "from" /\ pc' = "table" /\ Parser!IsWord(t, "FROM")
         \/ pc = "equals" /\ pc' = "whereValue" /\ t.type = "="
  <2>1. pc \in DOMAIN Parser!After /\ pc' = Parser!After[pc]
    BY DEF Parser!Fixed
  <2>2. UNCHANGED <<statement, identifier>> /\ index' = index + 1
    BY DEF Parser!Fixed
  <2>3. \/ pc = "into" /\ Parser!IsWord(t, "INTO")
        \/ pc = "valuesWord" /\ Parser!IsWord(t, "VALUES")
        \/ pc = "from" /\ Parser!IsWord(t, "FROM")
        \/ pc = "columnsOpen" /\ t.type = "("
        \/ pc = "columnsClose" /\ t.type = ")"
        \/ pc = "valuesOpen" /\ t.type = "("
        \/ pc = "valuesClose" /\ t.type = ")"
        \/ pc = "equals" /\ t.type = "="
        \/ pc = "semicolon" /\ t.type = ";"
        \/ pc = "end" /\ t.type = "END"
    <3>1. /\ DOMAIN Parser!ExpectedWord = {"into", "valuesWord", "from"}
          /\ Parser!ExpectedWord["into"] = "INTO" /\ Parser!ExpectedWord["valuesWord"] = "VALUES"
          /\ Parser!ExpectedWord["from"] = "FROM"
      BY DEF Parser!ExpectedWord
    <3>2. /\ DOMAIN Parser!ExpectedMark =
               {"columnsOpen", "columnsClose", "valuesOpen", "valuesClose", "equals",
                "semicolon", "end"}
          /\ Parser!ExpectedMark["columnsOpen"] = "(" /\ Parser!ExpectedMark["columnsClose"] = ")"
          /\ Parser!ExpectedMark["valuesOpen"] = "(" /\ Parser!ExpectedMark["valuesClose"] = ")"
          /\ Parser!ExpectedMark["equals"] = "=" /\ Parser!ExpectedMark["semicolon"] = ";"
          /\ Parser!ExpectedMark["end"] = "END"
      BY DEF Parser!ExpectedMark
    <3>3. pc \notin {"table", "column", "whereColumn", "selectList", "value", "whereValue"}
      BY <2>1 DEF Parser!After
    <3>4. \/ pc \in DOMAIN Parser!ExpectedWord /\ Parser!IsWord(t, Parser!ExpectedWord[pc])
          \/ pc \in DOMAIN Parser!ExpectedMark /\ t.type = Parser!ExpectedMark[pc]
      BY <1>1, <3>3 DEF Parser!Fits
    <3>5. CASE pc \in DOMAIN Parser!ExpectedWord /\ Parser!IsWord(t, Parser!ExpectedWord[pc])
      BY <3>1, <3>5
    <3>6. CASE pc \in DOMAIN Parser!ExpectedMark /\ t.type = Parser!ExpectedMark[pc]
      BY <3>2, <3>6
    <3> QED
      BY <3>4, <3>5, <3>6
  <2>4. /\ Parser!After["into"] = "table" /\ Parser!After["columnsOpen"] = "column"
        /\ Parser!After["columnsClose"] = "valuesWord" /\ Parser!After["valuesWord"] = "valuesOpen"
        /\ Parser!After["valuesOpen"] = "value" /\ Parser!After["valuesClose"] = "semicolon"
        /\ Parser!After["from"] = "table" /\ Parser!After["equals"] = "whereValue"
        /\ Parser!After["semicolon"] = "end" /\ Parser!After["end"] = "ok"
    BY DEF Parser!After
  <2> QED
    BY <2>1, <2>2, <2>3, <2>4
<1>3. pc \in Reading
  BY <1>2 DEF Reading, ParsePlaces, InsertPlaces, SelectPlaces, ColumnPlaces, ParseEnds, Parser!Answers
<1>4. PICK p, s, n, k, st, word : Looking(p, s, n, k, t, st, word)
  BY <1>1, <1>3, LookingIs
<1>5. /\ pc = p /\ tokens' = s /\ index' = k /\ statement' = st /\ identifier' = word
      /\ s[k] = t /\ statement = st
  BY <1>2, <1>4 DEF Looking
<1>6. /\ st.type \in {"INSERT", "SELECT"}
      /\ p \in InsertPlaces => st.type = "INSERT"
      /\ p \in SelectPlaces => st.type = "SELECT"
  BY <1>5 DEF ParseInv, ParseTree, StatementType
<1>7. ASSUME p = "into", pc' = "table", Parser!IsWord(t, "INTO"), st.type = "INSERT" PROVE ParseStands'
  <2>1. InsertRead("table", s, k, Len(st.columns), Len(st.values))
    <3>1. InsertReading("into", s, n, k, Len(st.columns), Len(st.values))
      BY <1>4, <1>7, LookingInsert
    <3> QED
      BY <1>5, <1>7, <3>1, InsertBegins
  <2>2. InsertTree(p, s, n, st, word) /\ Len(s) <= k + 1
    BY <1>4, <1>7, LookingInsert
  <2>3. Stands("table", s, k, st, word)
    BY <1>7, <2>1, <2>2, InsertMoved DEF BeforeTable
  <2> QED
    BY <1>5, <1>7, <2>3, StandsAfter
<1>8. ASSUME p = "columnsOpen", pc' = "column", t.type = "(", st.type = "INSERT" PROVE ParseStands'
  <2>1. InsertRead("column", s, k, Len(st.columns), Len(st.values))
    <3>1. InsertReading("columnsOpen", s, n, k, Len(st.columns), Len(st.values))
      BY <1>4, <1>8, LookingInsert
    <3> QED
      BY <1>5, <1>8, <3>1, InsertBegins
  <2>2. InsertTree(p, s, n, st, word) /\ Len(s) <= k + 1
    BY <1>4, <1>8, LookingInsert
  <2>3. Stands("column", s, k, st, word)
    BY <1>8, <2>1, <2>2, InsertMoved DEF BeforeTable
  <2> QED
    BY <1>5, <1>8, <2>3, StandsAfter
<1>9. ASSUME p = "columnsClose", pc' = "valuesWord", t.type = ")", st.type = "INSERT" PROVE ParseStands'
  <2>1. InsertRead("valuesWord", s, k, Len(st.columns), Len(st.values))
    <3>1. InsertReading("columnsClose", s, n, k, Len(st.columns), Len(st.values))
      BY <1>4, <1>9, LookingInsert
    <3> QED
      BY <1>5, <1>9, <3>1, ColumnsMove
  <2>2. InsertTree(p, s, n, st, word) /\ Len(s) <= k + 1
    BY <1>4, <1>9, LookingInsert
  <2>3. Stands("valuesWord", s, k, st, word)
    BY <1>9, <2>1, <2>2, InsertMoved DEF BeforeTable
  <2> QED
    BY <1>5, <1>9, <2>3, StandsAfter
<1>10. ASSUME p = "valuesWord", pc' = "valuesOpen", Parser!IsWord(t, "VALUES"), st.type = "INSERT" PROVE ParseStands'
  <2>1. InsertRead("valuesOpen", s, k, Len(st.columns), Len(st.values))
    <3>1. InsertReading("valuesWord", s, n, k, Len(st.columns), Len(st.values))
      BY <1>4, <1>10, LookingInsert
    <3> QED
      BY <1>5, <1>10, <3>1, ValuesMove
  <2>2. InsertTree(p, s, n, st, word) /\ Len(s) <= k + 1
    BY <1>4, <1>10, LookingInsert
  <2>3. Stands("valuesOpen", s, k, st, word)
    BY <1>10, <2>1, <2>2, InsertMoved DEF BeforeTable
  <2> QED
    BY <1>5, <1>10, <2>3, StandsAfter
<1>11. ASSUME p = "valuesOpen", pc' = "value", t.type = "(", st.type = "INSERT" PROVE ParseStands'
  <2>1. InsertRead("value", s, k, Len(st.columns), Len(st.values))
    <3>1. InsertReading("valuesOpen", s, n, k, Len(st.columns), Len(st.values))
      BY <1>4, <1>11, LookingInsert
    <3> QED
      BY <1>5, <1>11, <3>1, ValuesMove
  <2>2. InsertTree(p, s, n, st, word) /\ Len(s) <= k + 1
    BY <1>4, <1>11, LookingInsert
  <2>3. Stands("value", s, k, st, word)
    BY <1>11, <2>1, <2>2, InsertMoved DEF BeforeTable
  <2> QED
    BY <1>5, <1>11, <2>3, StandsAfter
<1>12. ASSUME p = "valuesClose", pc' = "semicolon", t.type = ")", st.type = "INSERT" PROVE ParseStands'
  <2>1. InsertRead("semicolon", s, k, Len(st.columns), Len(st.values))
    <3>1. InsertReading("valuesClose", s, n, k, Len(st.columns), Len(st.values))
      BY <1>4, <1>12, LookingInsert
    <3> QED
      BY <1>5, <1>12, <3>1, InsertFinishes
  <2>2. InsertTree(p, s, n, st, word) /\ Len(s) <= k + 1
    BY <1>4, <1>12, LookingInsert
  <2>3. Stands("semicolon", s, k, st, word)
    BY <1>12, <2>1, <2>2, InsertMoved DEF BeforeTable
  <2> QED
    BY <1>5, <1>12, <2>3, StandsAfter
<1>13. ASSUME p = "semicolon", pc' = "end", t.type = ";", st.type = "INSERT" PROVE ParseStands'
  <2>1. InsertRead("end", s, k, Len(st.columns), Len(st.values))
    <3>1. InsertReading("semicolon", s, n, k, Len(st.columns), Len(st.values))
      BY <1>4, <1>13, LookingInsert
    <3> QED
      BY <1>5, <1>13, <3>1, InsertFinishes
  <2>2. InsertTree(p, s, n, st, word) /\ Len(s) <= k + 1
    BY <1>4, <1>13, LookingInsert
  <2>3. Stands("end", s, k, st, word)
    BY <1>13, <2>1, <2>2, InsertMoved DEF BeforeTable
  <2> QED
    BY <1>5, <1>13, <2>3, StandsAfter
<1>14. ASSUME p = "end", pc' = "ok", t.type = "END", st.type = "INSERT" PROVE ParseStands'
  <2>1. InsertRead("ok", s, k, Len(st.columns), Len(st.values))
    <3>1. InsertReading("end", s, n, k, Len(st.columns), Len(st.values))
      BY <1>4, <1>14, LookingInsert
    <3> QED
      BY <1>5, <1>14, <3>1, InsertFinishes
  <2>2. InsertTree(p, s, n, st, word) /\ Len(s) <= k + 1
    BY <1>4, <1>14, LookingInsert
  <2>3. Stands("ok", s, k, st, word)
    BY <1>14, <2>1, <2>2, InsertMoved DEF BeforeTable
  <2> QED
    BY <1>5, <1>14, <2>3, StandsAfter
<1>15. ASSUME p = "from", pc' = "table", Parser!IsWord(t, "FROM"), st.type = "SELECT" PROVE ParseStands'
  <2>1. SelectRead("table", s, k, Width(st), FilterLength(st))
    <3>1. SelectReading("from", s, n, k, Width(st), FilterLength(st))
      BY <1>4, <1>15, LookingSelect
    <3> QED
      BY <1>5, <1>15, <3>1, TableMoves
  <2>2. SelectTree(p, s, n, Width(st), st, word) /\ Len(s) <= k + 1
    BY <1>4, <1>15, LookingSelect
  <2>3. Stands("table", s, k, st, word)
    BY <1>15, <2>1, <2>2, SelectMoved DEF UpToTable, FilterNamed, BehindFilter
  <2> QED
    BY <1>5, <1>15, <2>3, StandsAfter
<1>16. ASSUME p = "equals", pc' = "whereValue", t.type = "=", st.type = "SELECT" PROVE ParseStands'
  <2>1. SelectRead("whereValue", s, k, Width(st), FilterLength(st))
    <3>1. SelectReading("equals", s, n, k, Width(st), FilterLength(st))
      BY <1>4, <1>16, LookingSelect
    <3> QED
      BY <1>5, <1>16, <3>1, SelectFinishes
  <2>2. SelectTree(p, s, n, Width(st), st, word) /\ Len(s) <= k + 1
    BY <1>4, <1>16, LookingSelect
  <2>3. Stands("whereValue", s, k, st, word)
    BY <1>16, <2>1, <2>2, SelectMoved DEF UpToTable, FilterNamed, BehindFilter
  <2> QED
    BY <1>5, <1>16, <2>3, StandsAfter
<1>17. ASSUME p = "semicolon", pc' = "end", t.type = ";", st.type = "SELECT" PROVE ParseStands'
  <2>1. SelectRead("end", s, k, Width(st), FilterLength(st))
    <3>1. SelectReading("semicolon", s, n, k, Width(st), FilterLength(st))
      BY <1>4, <1>17, LookingSelect
    <3> QED
      BY <1>5, <1>17, <3>1, SelectFinishes
  <2>2. SelectTree(p, s, n, Width(st), st, word) /\ Len(s) <= k + 1
    BY <1>4, <1>17, LookingSelect
  <2>3. Stands("end", s, k, st, word)
    BY <1>17, <2>1, <2>2, SelectMoved DEF UpToTable, FilterNamed, BehindFilter
  <2> QED
    BY <1>5, <1>17, <2>3, StandsAfter
<1>18. ASSUME p = "end", pc' = "ok", t.type = "END", st.type = "SELECT" PROVE ParseStands'
  <2>1. SelectRead("ok", s, k, Width(st), FilterLength(st))
    <3>1. SelectReading("end", s, n, k, Width(st), FilterLength(st))
      BY <1>4, <1>18, LookingSelect
    <3> QED
      BY <1>5, <1>18, <3>1, SelectFinishes
  <2>2. SelectTree(p, s, n, Width(st), st, word) /\ Len(s) <= k + 1
    BY <1>4, <1>18, LookingSelect
  <2>3. Stands("ok", s, k, st, word)
    BY <1>18, <2>1, <2>2, SelectMoved DEF UpToTable, FilterNamed, BehindFilter
  <2> QED
    BY <1>5, <1>18, <2>3, StandsAfter
<1> QED
  BY <1>2, <1>5, <1>6, <1>7, <1>8, <1>9, <1>10, <1>11, <1>12, <1>13, <1>14, <1>15, <1>16, <1>17, <1>18 DEF InsertPlaces, SelectPlaces

\* What the items of a statement are like after each assignment to a field.
LEMMA TextsGrow ==
  ASSUME NEW X, NEW list \in Seq(X), NEW e \in X, NEW s, NEW a \in Nat, TextsFrom(list, s, a),
         e = s[a + 2 * Len(list)].text
  PROVE  /\ TextsFrom(Append(list, e), s, a) /\ Len(Append(list, e)) = Len(list) + 1
         /\ Append(list, e) \in Seq(X)
<1>1. PICK l, d : l = Append(list, e) /\ d = Len(list)
  OBVIOUS
<1>2. /\ d \in Nat /\ Len(l) = d + 1 /\ l[d + 1] = e /\ l \in Seq(X)
      /\ \A k \in 1..d : l[k] = list[k]
  BY <1>1
<1>3. ASSUME NEW k \in 1..(d + 1) PROVE l[k] = s[a + 2 * k - 2].text
  <2>1. CASE k \in 1..d
    BY <1>1, <1>2, <2>1 DEF TextsFrom
  <2>2. CASE k = d + 1
    <3>1. a + 2 * k - 2 = a + 2 * d
      BY <1>2, <2>2
    <3> QED
      BY <1>1, <1>2, <2>2, <3>1
  <2>3. k \in 1..d \/ k = d + 1
    BY <1>2
  <2> QED
    BY <2>1, <2>2, <2>3
<1> QED
  BY <1>1, <1>2, <1>3 DEF TextsFrom

\* Who has read a name first has read no star.
LEMMA NamesAreNoStar ==
  ASSUME NEW p \in {"column", "pushColumn", "moreColumns"}, NEW s, NEW n, NEW st \in StatementType,
         NEW word, SelectRead(p, s, n, Width(st), FilterLength(st)),
         SelectTree(p, s, n, Width(st), st, word)
  PROVE  st.select_all = FALSE /\ Width(st) = Len(st.columns)
<1>1. PICK w : w = Width(st)
  OBVIOUS
<1>2. w \in Nat /\ st.select_all \in BOOLEAN
  BY <1>1, WidthType
<1>3. CASE p = "moreColumns"
  <2>1. s[2].type # "*" /\ (st.select_all = TRUE <=> s[2].type = "*")
    BY <1>3 DEF SelectRead, SelectTree
  <2> QED
    BY <1>2, <2>1 DEF Width
<1>4. CASE p # "moreColumns"
  <2>1. SelectRead(p, s, n, w, FilterLength(st))
    BY <1>1
  <2>2. /\ ItemsFrom(s, 2, w, NameTypes)
        /\ p = "column" => w # 0
        /\ p = "pushColumn" => Parser!IsName(s[2 * w + 2])
    BY <1>4, <2>1 DEF SelectRead
  <2>3. CASE w = 0
    BY <1>1, <1>2, <2>3 DEF Width
  <2>4. CASE w # 0
    <3>1. 1 \in 1..w /\ 2 + 2 * 1 - 2 = 2
      BY <1>2, <2>4
    <3>2. s[2].type \in NameTypes
      BY <2>2, <3>1 DEF ItemsFrom
    <3>3. s[2].type # "*"
      BY <3>2 DEF NameTypes
    <3>4. st.select_all = TRUE <=> s[2].type = "*"
      BY <1>4 DEF SelectTree
    <3> QED
      BY <1>2, <3>3, <3>4 DEF Width
  <2> QED
    BY <2>3, <2>4
<1> QED
  BY <1>3, <1>4

\* The first word.
LEMMA DispatchStands ==
  ASSUME ParseInv, ParseStands, Parser!Dispatch
  PROVE  ParseStands'
<1>1. PICK t \in Parser!Token :
        /\ Parser!Current(t)
        /\ \/ Parser!IsWord(t, "INSERT") /\ pc' = "into" /\ statement' = statement
           \/ /\ Parser!IsWord(t, "SELECT") /\ pc' = "selectList"
              /\ statement' = [statement EXCEPT !.type = "SELECT"]
  BY DEF Parser!Dispatch
<1>2. pc = "statement" /\ pc \in Reading /\ index' = index + 1 /\ identifier' = identifier
  BY DEF Parser!Dispatch, Reading, ParsePlaces, ParseEnds, Parser!Answers
<1>3. PICK p, s, n, k, st, word : Looking(p, s, n, k, t, st, word)
  BY <1>1, <1>2, LookingIs
<1>4. /\ p = "statement" /\ tokens' = s /\ index' = k /\ identifier' = word /\ s[k] = t
      /\ statement = st /\ st \in StatementType
  BY <1>2, <1>3 DEF Looking
<1>5. st = Parser!EmptyStatement
  BY <1>2, <1>4 DEF ParseInv, ParseTree
<1>6. /\ st.type = "INSERT" /\ st.columns = <<>> /\ st.values = <<>> /\ st.select_all = FALSE
      /\ st.has_where = FALSE /\ st.table_name = Null
  BY <1>5 DEF Parser!EmptyStatement
<1>7. /\ InsertReading("statement", s, n, k, Len(st.columns), Len(st.values))
      /\ InsertTree("statement", s, n, st, word) /\ Len(s) <= k + 1
  BY <1>3, <1>4, <1>6, LookingInsert
<1>8. ASSUME Parser!IsWord(t, "INSERT"), pc' = "into", statement' = statement PROVE ParseStands'
  <2>1. InsertRead("into", s, k, Len(st.columns), Len(st.values))
    BY <1>4, <1>7, <1>8, InsertBegins
  <2>2. Stands("into", s, k, st, word)
    BY <1>6, <1>7, <2>1, InsertMoved DEF BeforeTable
  <2> QED
    BY <1>4, <1>8, <2>2, StandsAfter
<1>9. ASSUME Parser!IsWord(t, "SELECT"), pc' = "selectList",
             statement' = [statement EXCEPT !.type = "SELECT"]
      PROVE  ParseStands'
  <2>1. n = 0 /\ k = 1 /\ Len(s) = 1
    BY <1>3, <1>7 DEF InsertReading, InsertRead, Looking
  <2>2. PICK r : r = [st EXCEPT !.type = "SELECT"]
    OBVIOUS
  <2>3. /\ r.type = "SELECT" /\ r.columns = <<>> /\ r.values = <<>> /\ r.select_all = FALSE
        /\ r.has_where = FALSE /\ r.table_name = Null
    BY <1>4, <1>6, <2>2 DEF StatementType
  <2>4. Width(r) = 0 /\ FilterLength(r) = 0
    BY <2>3 DEF Width, FilterLength
  <2>5. SelectRead("selectList", s, k, Width(r), FilterLength(r))
    BY <1>4, <1>9, <2>1, <2>4, SelectStarts
  <2>6. SelectTree("selectList", s, k, Width(r), r, word)
    BY <2>3 DEF SelectTree, TextsFrom, UpToTable, FilterNamed, BehindFilter
  <2>7. Stands("selectList", s, k, r, word)
    BY <2>1, <2>3, <2>5, <2>6 DEF Stands
  <2> QED
    BY <1>4, <1>9, <2>2, <2>7, StandsAfter
<1> QED
  BY <1>1, <1>8, <1>9

\* The star.
LEMMA StarStands ==
  ASSUME ParseInv, ParseStands, Parser!Star
  PROVE  ParseStands'
<1>1. PICK t \in Parser!Token : Parser!Current(t) /\ t.type = "*"
  BY DEF Parser!Star
<1>2. /\ pc = "selectList" /\ pc' = "from" /\ pc \in Reading /\ index' = index + 1
      /\ identifier' = identifier /\ statement' = [statement EXCEPT !.select_all = TRUE]
  BY DEF Parser!Star, Reading, ParsePlaces, SelectPlaces, ParseEnds, Parser!Answers
<1>3. PICK p, s, n, k, st, word : Looking(p, s, n, k, t, st, word)
  BY <1>1, <1>2, LookingIs
<1>4. /\ p = "selectList" /\ tokens' = s /\ index' = k /\ identifier' = word /\ s[k] = t
      /\ statement = st /\ st \in StatementType
  BY <1>2, <1>3 DEF Looking
<1>5. st.type = "SELECT"
  BY <1>2, <1>4 DEF ParseInv, ParseTree, SelectPlaces
<1>6. /\ SelectReading("selectList", s, n, k, Width(st), FilterLength(st))
      /\ SelectTree("selectList", s, n, Width(st), st, word) /\ Len(s) <= k + 1
  BY <1>3, <1>4, <1>5, LookingSelect
<1>7. SelectRead("from", s, k, 1, FilterLength(st))
  BY <1>1, <1>4, <1>6, SelectBegins
<1>8. st.select_all = FALSE /\ st.has_where = FALSE /\ st.values = <<>> /\ st.table_name = Null
  BY <1>6 DEF SelectTree, UpToTable, BehindFilter
<1>9. st.columns = <<>> /\ k = 2
  <2>1. Width(st) = 0 /\ n = 1 /\ k = n + 1
    BY <1>6 DEF SelectReading, SelectRead
  <2>2. Len(st.columns) = 0 /\ st.columns \in Seq(Words)
    BY <1>4, <1>8, <2>1 DEF Width, StatementType
  <2> QED
    BY <2>1, <2>2
<1>10. PICK r : r = [st EXCEPT !.select_all = TRUE]
  OBVIOUS
<1>11. /\ r.type = "SELECT" /\ r.columns = <<>> /\ r.values = <<>> /\ r.select_all = TRUE
       /\ r.has_where = FALSE /\ r.table_name = Null
  BY <1>4, <1>5, <1>8, <1>9, <1>10 DEF StatementType
<1>12. Width(r) = 1 /\ FilterLength(r) = FilterLength(st)
  BY <1>8, <1>11 DEF Width, FilterLength
<1>13. SelectTree("from", s, k, Width(r), r, word)
  BY <1>1, <1>4, <1>9, <1>11 DEF SelectTree, TextsFrom, UpToTable, FilterNamed, BehindFilter
<1>14. Stands("from", s, k, r, word)
  BY <1>6, <1>7, <1>11, <1>12, <1>13 DEF Stands
<1> QED
  BY <1>2, <1>4, <1>10, <1>14, StandsAfter

\* The name of the table.
LEMMA TableNameStands ==
  ASSUME ParseInv, ParseStands, Parser!TableName
  PROVE  ParseStands'
<1>1. PICK t \in Parser!Token :
        /\ Parser!Current(t) /\ Parser!IsName(t)
        /\ statement' = [statement EXCEPT !.table_name = t.text]
  BY DEF Parser!TableName, Parser!Name
<1>2. /\ pc = "table" /\ pc \in Reading /\ index' = index + 1 /\ identifier' = identifier
      /\ pc' = IF statement.type = "INSERT" THEN "columnsOpen" ELSE "where"
  BY DEF Parser!TableName, Parser!Name, Reading, ParsePlaces, ParseEnds, Parser!Answers
<1>3. PICK p, s, n, k, st, word : Looking(p, s, n, k, t, st, word)
  BY <1>1, <1>2, LookingIs
<1>4. /\ p = "table" /\ tokens' = s /\ index' = k /\ identifier' = word /\ s[k] = t
      /\ statement = st /\ st \in StatementType
  BY <1>2, <1>3 DEF Looking
<1>5. PICK r : r = [st EXCEPT !.table_name = t.text]
  OBVIOUS
<1>6. /\ r.type = st.type /\ r.columns = st.columns /\ r.values = st.values
      /\ r.select_all = st.select_all /\ r.has_where = st.has_where /\ r.table_name = t.text
      /\ r.where_column = st.where_column /\ r.where_value = st.where_value
      /\ st.type \in {"INSERT", "SELECT"} /\ statement' = r
  BY <1>1, <1>4, <1>5 DEF StatementType
<1>7. CASE st.type = "INSERT"
  <2>1. /\ InsertReading("table", s, n, k, Len(st.columns), Len(st.values))
        /\ InsertTree("table", s, n, st, word) /\ Len(s) <= k + 1
    BY <1>3, <1>4, <1>7, LookingInsert
  <2>2. InsertRead("columnsOpen", s, k, Len(r.columns), Len(r.values))
    BY <1>1, <1>4, <1>6, <2>1, InsertBegins
  <2>3. k = 3
    BY <2>1 DEF InsertReading, InsertRead
  <2>4. InsertTree("columnsOpen", s, k, r, word)
    BY <1>4, <1>6, <2>1, <2>3 DEF InsertTree, BeforeTable
  <2>5. Stands("columnsOpen", s, k, r, word)
    BY <1>6, <1>7, <2>1, <2>2, <2>4 DEF Stands
  <2> QED
    BY <1>2, <1>4, <1>6, <1>7, <2>5, StandsAfter
<1>8. CASE st.type = "SELECT"
  <2>1. /\ SelectReading("table", s, n, k, Width(st), FilterLength(st))
        /\ SelectTree("table", s, n, Width(st), st, word) /\ Len(s) <= k + 1
    BY <1>3, <1>4, <1>8, LookingSelect
  <2>2. Width(r) = Width(st) /\ FilterLength(r) = FilterLength(st)
    BY <1>6 DEF Width, FilterLength
  <2>3. SelectRead("where", s, k, Width(r), FilterLength(r))
    BY <1>1, <1>4, <2>1, <2>2, TableMoves
  <2>4. k = 2 * Width(st) + 2
    <3>1. n = 2 * Width(st) + 1 /\ k = n + 1
      BY <2>1 DEF SelectReading, SelectRead
    <3>2. Width(st) \in Nat
      BY <1>4, WidthType
    <3> QED
      BY ONLY <3>1, <3>2
  <2>5. SelectTree("where", s, k, Width(r), r, word)
    BY <1>4, <1>6, <2>1, <2>2, <2>4 DEF SelectTree, UpToTable, FilterNamed, BehindFilter
  <2>6. Stands("where", s, k, r, word)
    BY <1>6, <1>8, <2>1, <2>3, <2>5 DEF Stands
  <2> QED
    BY <1>2, <1>4, <1>6, <1>8, <2>6, StandsAfter
<1> QED
  BY <1>6, <1>7, <1>8

\* The column and the value of a filter.
LEMMA WhereColumnStands ==
  ASSUME ParseInv, ParseStands, Parser!WhereColumn
  PROVE  ParseStands'
<1>1. PICK t \in Parser!Token :
        /\ Parser!Current(t) /\ Parser!IsName(t)
        /\ statement' = [statement EXCEPT !.where_column = t.text]
  BY DEF Parser!WhereColumn, Parser!Name
<1>2. /\ pc = "whereColumn" /\ pc \in Reading /\ index' = index + 1 /\ identifier' = identifier
      /\ pc' = "equals"
  BY DEF Parser!WhereColumn, Parser!Name, Reading, ParsePlaces, SelectPlaces, ParseEnds, Parser!Answers
<1>3. PICK p, s, n, k, st, word : Looking(p, s, n, k, t, st, word)
  BY <1>1, <1>2, LookingIs
<1>4. /\ p = "whereColumn" /\ tokens' = s /\ index' = k /\ identifier' = word /\ s[k] = t
      /\ statement = st /\ st \in StatementType
  BY <1>2, <1>3 DEF Looking
<1>5. st.type = "SELECT"
  BY <1>2, <1>4 DEF ParseInv, ParseTree, SelectPlaces
<1>6. PICK r : r = [st EXCEPT !.where_column = t.text]
  OBVIOUS
<1>7. /\ r.type = st.type /\ r.columns = st.columns /\ r.values = st.values
      /\ r.select_all = st.select_all /\ r.has_where = st.has_where
      /\ r.table_name = st.table_name /\ r.where_column = t.text /\ statement' = r
  BY <1>1, <1>4, <1>6 DEF StatementType
<1>8. /\ SelectReading("whereColumn", s, n, k, Width(st), FilterLength(st))
      /\ SelectTree("whereColumn", s, n, Width(st), st, word) /\ Len(s) <= k + 1
  BY <1>3, <1>4, <1>5, LookingSelect
<1>9. Width(r) = Width(st) /\ FilterLength(r) = FilterLength(st)
  BY <1>7 DEF Width, FilterLength
<1>10. SelectRead("equals", s, k, Width(r), FilterLength(r))
  BY <1>1, <1>4, <1>8, <1>9, TableMoves
<1>11. k = 2 * Width(st) + 4
  <2>1. n = 2 * Width(st) + 3 /\ k = n + 1
    BY <1>8 DEF SelectReading, SelectRead
  <2>2. Width(st) \in Nat
    BY <1>4, WidthType
  <2> QED
    BY ONLY <2>1, <2>2
<1>12. SelectTree("equals", s, k, Width(r), r, word)
  BY <1>4, <1>7, <1>8, <1>9, <1>11 DEF SelectTree, UpToTable, FilterNamed, BehindFilter
<1>13. Stands("equals", s, k, r, word)
  BY <1>5, <1>7, <1>8, <1>10, <1>12 DEF Stands
<1> QED
  BY <1>2, <1>4, <1>7, <1>13, StandsAfter

LEMMA WhereValueStands ==
  ASSUME ParseInv, ParseStands, Parser!WhereValue
  PROVE  ParseStands'
<1>1. PICK t \in Parser!Token :
        /\ Parser!Current(t) /\ Parser!IsValue(t)
        /\ statement' = [statement EXCEPT !.where_value = t.text]
  BY DEF Parser!WhereValue
<1>2. /\ pc = "whereValue" /\ pc \in Reading /\ index' = index + 1 /\ identifier' = identifier
      /\ pc' = "connector?"
  BY DEF Parser!WhereValue, Reading, ParsePlaces, SelectPlaces, ParseEnds, Parser!Answers
<1>3. PICK p, s, n, k, st, word : Looking(p, s, n, k, t, st, word)
  BY <1>1, <1>2, LookingIs
<1>4. /\ p = "whereValue" /\ tokens' = s /\ index' = k /\ identifier' = word /\ s[k] = t
      /\ statement = st /\ st \in StatementType
  BY <1>2, <1>3 DEF Looking
<1>5. st.type = "SELECT"
  BY <1>2, <1>4 DEF ParseInv, ParseTree, SelectPlaces
<1>6. PICK r : r = [st EXCEPT !.where_value = t.text]
  OBVIOUS
<1>7. /\ r.type = st.type /\ r.columns = st.columns /\ r.values = st.values
      /\ r.select_all = st.select_all /\ r.has_where = st.has_where
      /\ r.table_name = st.table_name /\ r.where_column = st.where_column
      /\ r.where_value = t.text /\ statement' = r
  BY <1>1, <1>4, <1>6 DEF StatementType
<1>8. /\ SelectReading("whereValue", s, n, k, Width(st), FilterLength(st))
      /\ SelectTree("whereValue", s, n, Width(st), st, word) /\ Len(s) <= k + 1
  BY <1>3, <1>4, <1>5, LookingSelect
<1>9. Width(r) = Width(st) /\ FilterLength(r) = FilterLength(st)
  BY <1>7 DEF Width, FilterLength
<1>10. SelectRead("connector?", s, k, Width(r), FilterLength(r))
  <2>1. s[k].type \in ValueTypes
    BY <1>1, <1>4 DEF Parser!IsValue, ValueTypes
  <2> QED
    BY <1>8, <1>9, <2>1, SelectFinishes
<1>11. k = 2 * Width(st) + 6
  <2>1. n = 2 * Width(st) + 5 /\ k = n + 1
    BY <1>8 DEF SelectReading, SelectRead
  <2>2. Width(st) \in Nat
    BY <1>4, WidthType
  <2> QED
    BY ONLY <2>1, <2>2
<1>12. SelectTree("connector?", s, k, Width(r), r, word)
  BY <1>4, <1>7, <1>8, <1>9, <1>11 DEF SelectTree, UpToTable, FilterNamed, BehindFilter
<1>13. Stands("connector?", s, k, r, word)
  BY <1>5, <1>7, <1>8, <1>10, <1>12 DEF Stands
<1> QED
  BY <1>2, <1>4, <1>7, <1>13, StandsAfter

\* A filter that is complete is used.
LEMMA NoConnectorStands ==
  ASSUME ParseInv, ParseStands, Parser!NoConnector
  PROVE  ParseStands'
<1>1. PICK t \in Parser!Token : Parser!Current(t) /\ ~Parser!Connects(t)
  BY DEF Parser!NoConnector
<1>2. /\ pc = "connector?" /\ pc \in Reading /\ index' = index /\ identifier' = identifier
      /\ pc' = "semicolon" /\ statement' = [statement EXCEPT !.has_where = TRUE]
  BY DEF Parser!NoConnector, Reading, ParsePlaces, SelectPlaces, ParseEnds, Parser!Answers
<1>3. PICK p, s, n, k, st, word : Looking(p, s, n, k, t, st, word)
  BY <1>1, <1>2, LookingIs
<1>4. /\ p = "connector?" /\ tokens' = s /\ index' = n /\ identifier' = word /\ s[k] = t
      /\ statement = st /\ st \in StatementType
  BY <1>2, <1>3 DEF Looking
<1>5. st.type = "SELECT"
  BY <1>2, <1>4 DEF ParseInv, ParseTree, SelectPlaces
<1>6. PICK r : r = [st EXCEPT !.has_where = TRUE]
  OBVIOUS
<1>7. /\ r.type = st.type /\ r.columns = st.columns /\ r.values = st.values
      /\ r.select_all = st.select_all /\ r.has_where = TRUE
      /\ r.table_name = st.table_name /\ r.where_column = st.where_column
      /\ r.where_value = st.where_value /\ statement' = r
  BY <1>2, <1>4, <1>6 DEF StatementType
<1>8. /\ SelectReading("connector?", s, n, k, Width(st), FilterLength(st))
      /\ SelectTree("connector?", s, n, Width(st), st, word) /\ Len(s) <= n + 1
  BY <1>3, <1>4, <1>5, LookingSelect
<1>9. Width(r) = Width(st) /\ FilterLength(r) = 4
  BY <1>7 DEF Width, FilterLength
<1>10. SelectRead("semicolon", s, n, Width(r), FilterLength(r))
  BY <1>1, <1>4, <1>8, <1>9, SelectFinishes
<1>11. SelectTree("semicolon", s, n, Width(r), r, word)
  BY <1>4, <1>7, <1>8, <1>9 DEF SelectTree, UpToTable, FilterNamed, BehindFilter
<1>12. Stands("semicolon", s, n, r, word)
  BY <1>5, <1>7, <1>8, <1>10, <1>11 DEF Stands
<1> QED
  BY <1>2, <1>4, <1>7, <1>12, StandsAfter

\* A filter follows, or the end.
LEMMA WhereStands ==
  ASSUME ParseInv, ParseStands, Parser!Where
  PROVE  ParseStands'
<1>1. PICK t \in Parser!Token :
        /\ Parser!Current(t)
        /\ IF Parser!IsWord(t, "WHERE") THEN index' = index + 1 /\ pc' = "whereColumn"
           ELSE index' = index /\ pc' = "semicolon"
  BY DEF Parser!Where
<1>2. /\ pc = "where" /\ pc \in Reading /\ identifier' = identifier /\ statement' = statement
  BY DEF Parser!Where, Reading, ParsePlaces, SelectPlaces, ParseEnds, Parser!Answers
<1>3. PICK p, s, n, k, st, word : Looking(p, s, n, k, t, st, word)
  BY <1>1, <1>2, LookingIs
<1>4. /\ p = "where" /\ tokens' = s /\ index = n /\ k = n + 1 /\ identifier' = word /\ s[k] = t
      /\ statement = st /\ statement' = st /\ st \in StatementType
  BY <1>2, <1>3 DEF Looking
<1>5. st.type = "SELECT" /\ st.where_column = Null /\ st.where_value = Null
  BY <1>2, <1>4 DEF ParseInv, ParseTree, SelectPlaces
<1>8. /\ SelectReading("where", s, n, k, Width(st), FilterLength(st))
      /\ SelectTree("where", s, n, Width(st), st, word) /\ Len(s) <= n + 1 /\ Len(s) <= k + 1
  BY <1>3, <1>4, <1>5, LookingSelect
<1>9. CASE Parser!IsWord(t, "WHERE")
  <2>1. SelectRead("whereColumn", s, k, Width(st), FilterLength(st))
    BY <1>4, <1>8, <1>9, TableMoves
  <2>2. Stands("whereColumn", s, k, st, word)
    BY <1>5, <1>8, <2>1, SelectMoved DEF UpToTable, FilterNamed, BehindFilter
  <2>3. index' = k /\ pc' = "whereColumn"
    BY <1>1, <1>4, <1>9
  <2> QED
    BY <1>4, <2>2, <2>3, StandsAfter
<1>10. CASE ~Parser!IsWord(t, "WHERE")
  <2>1. SelectRead("semicolon", s, n, Width(st), FilterLength(st))
    BY <1>4, <1>8, <1>10, TableMoves
  <2>2. Stands("semicolon", s, n, st, word)
    BY <1>5, <1>8, <2>1, SelectMoved DEF UpToTable, FilterNamed, BehindFilter
  <2>3. index' = n /\ pc' = "semicolon"
    BY <1>1, <1>4, <1>10
  <2> QED
    BY <1>4, <2>2, <2>3, StandsAfter
<1> QED
  BY <1>9, <1>10

\* A name of a list is read, and then put into the list.
LEMMA ReadIdentifierStands ==
  ASSUME ParseInv, ParseStands, Parser!ReadIdentifier
  PROVE  ParseStands'
<1>1. PICK t \in Parser!Token :
        Parser!Current(t) /\ Parser!IsName(t) /\ identifier' = t.text
  BY DEF Parser!ReadIdentifier
<1>2. /\ pc \in {"column", "selectList"} /\ pc \in Reading /\ index' = index + 1
      /\ statement' = statement /\ pc' = "pushColumn"
  BY DEF Parser!ReadIdentifier, Reading, ParsePlaces, SelectPlaces, ColumnPlaces, ParseEnds,
         Parser!Answers
<1>3. PICK p, s, n, k, st, word : Looking(p, s, n, k, t, st, word)
  BY <1>1, <1>2, LookingIs
<1>4. /\ p \in {"column", "selectList"} /\ tokens' = s /\ index' = k /\ s[k] = t
      /\ statement = st /\ statement' = st /\ st \in StatementType /\ pc = p
  BY <1>2, <1>3 DEF Looking
<1>5. /\ st.type \in {"INSERT", "SELECT"}
      /\ p = "selectList" => st.type = "SELECT"
  BY <1>4 DEF ParseInv, ParseTree, SelectPlaces, StatementType
<1>6. PICK e : e = t.text
  OBVIOUS
<1>7. CASE st.type = "INSERT"
  <2>1. /\ InsertReading("column", s, n, k, Len(st.columns), Len(st.values))
        /\ InsertTree("column", s, n, st, word) /\ Len(s) <= k + 1
    BY <1>3, <1>4, <1>5, <1>7, LookingInsert
  <2>2. InsertRead("pushColumn", s, k, Len(st.columns), Len(st.values))
    BY <1>1, <1>4, <2>1, ColumnsMove, InsertBegins
  <2>3. InsertTree("pushColumn", s, k, st, e)
    BY <1>4, <1>6, <2>1 DEF InsertTree, BeforeTable
  <2>4. Stands("pushColumn", s, k, st, e)
    BY <1>7, <2>1, <2>2, <2>3 DEF Stands
  <2> QED
    BY <1>1, <1>2, <1>4, <1>6, <2>4, StandsAfter
<1>8. CASE st.type = "SELECT"
  <2>1. /\ SelectReading(p, s, n, k, Width(st), FilterLength(st))
        /\ SelectTree(p, s, n, Width(st), st, word) /\ Len(s) <= k + 1
    BY <1>3, <1>8, LookingSelect
  <2>2. SelectRead("pushColumn", s, k, Width(st), FilterLength(st))
    <3>1. CASE p = "column"
      BY <1>1, <1>4, <2>1, <3>1, SelectBegins
    <3>2. CASE p = "selectList"
      BY <1>1, <1>4, <2>1, <3>2, SelectBegins
    <3> QED
      BY <1>4, <3>1, <3>2
  <2>3. st.select_all = TRUE <=> s[2].type = "*"
    <3>1. CASE p = "column"
      BY <2>1, <3>1 DEF SelectTree
    <3>2. CASE p = "selectList"
      <4>1. st.select_all = FALSE
        BY <2>1, <3>2 DEF SelectTree
      <4>2. n = 1 /\ k = n + 1
        BY <2>1, <3>2 DEF SelectReading, SelectRead
      <4>3. s[2].type # "*"
        BY <1>1, <1>4, <4>2 DEF Parser!IsName
      <4> QED
        BY <4>1, <4>3
    <3> QED
      BY <1>4, <3>1, <3>2
  <2>4. SelectTree("pushColumn", s, k, Width(st), st, e)
    BY <1>4, <1>6, <2>1, <2>3 DEF SelectTree, UpToTable, FilterNamed, BehindFilter
  <2>5. Stands("pushColumn", s, k, st, e)
    BY <1>8, <2>1, <2>2, <2>4 DEF Stands
  <2> QED
    BY <1>1, <1>2, <1>4, <1>6, <2>5, StandsAfter
<1> QED
  BY <1>5, <1>7, <1>8

LEMMA PushIdentifierStands ==
  ASSUME ParseInv, ParseStands, Parser!PushIdentifier
  PROVE  ParseStands'
<1>1. /\ pc = "pushColumn" /\ pc' = "moreColumns" /\ tokens' = tokens /\ index' = index
      /\ statement' = [statement EXCEPT !.columns = Append(@, identifier)]
      /\ identifier' = Null
  BY DEF Parser!PushIdentifier
<1>2. PICK s, n, st, word : s = tokens /\ n = index /\ st = statement /\ word = identifier
  OBVIOUS
<1>3. PICK r : r = [st EXCEPT !.columns = Append(st.columns, word)]
  OBVIOUS
<1>4. statement' = r /\ st \in StatementType /\ word \in Words
  <2>1. ParseTree
    BY DEF ParseInv
  <2>2. st \in StatementType /\ identifier \in Words \cup {Null} /\ identifier # Null
    BY <1>1, <1>2, <2>1 DEF ParseTree
  <2> QED
    BY <1>1, <1>2, <1>3, <2>2
<1>5. Stands("pushColumn", s, n, st, word)
  BY <1>1, <1>2 DEF ParseStands, Reading, ParsePlaces, ColumnPlaces, ParseEnds, Parser!Answers
<1>6. PICK columns : columns = Append(st.columns, word)
  OBVIOUS
<1>7. /\ r.type = st.type /\ r.columns = columns /\ r.values = st.values
      /\ r.select_all = st.select_all /\ r.has_where = st.has_where
      /\ r.table_name = st.table_name /\ r.where_column = st.where_column
      /\ r.where_value = st.where_value /\ st.type \in {"INSERT", "SELECT"}
      /\ st.columns \in Seq(Words)
  BY <1>3, <1>4, <1>6 DEF StatementType
<1>8. PICK m : m = Len(st.columns)
  OBVIOUS
<1>9. m \in Nat /\ Len(columns) = m + 1
  BY <1>6, <1>7, <1>8
<1>10. Len(s) <= n + 1
  BY <1>5 DEF Stands
<1>11. CASE st.type = "INSERT"
  <2>1. InsertRead("pushColumn", s, n, m, Len(st.values)) /\ InsertTree("pushColumn", s, n, st, word)
    BY <1>5, <1>8, <1>11 DEF Stands
  <2>2. InsertRead("moreColumns", s, n, m + 1, Len(r.values))
    BY <1>7, <1>9, <2>1, InsertPush
  <2>3. n = 2 * m + 5 /\ Len(st.values) = 0
    BY <2>1 DEF InsertRead
  <2>4. TextsFrom(columns, s, 5)
    <3>1. 5 + 2 * m = n /\ 5 \in Nat
      BY ONLY <1>9, <2>3
    <3>2. TextsFrom(st.columns, s, 5) /\ word = s[5 + 2 * Len(st.columns)].text
      BY <1>8, <2>1, <3>1 DEF InsertTree
    <3> QED
      BY <1>4, <1>6, <1>7, <3>1, <3>2, TextsGrow
  <2>5. TextsFrom(r.values, s, 2 * Len(r.columns) + 7)
    BY <1>7, <2>3 DEF TextsFrom
  <2>6. InsertTree("moreColumns", s, n, r, Null)
    BY <1>7, <2>1, <2>4, <2>5 DEF InsertTree, BeforeTable
  <2>7. InsertRead("moreColumns", s, n, Len(r.columns), Len(r.values))
    BY <1>7, <1>9, <2>2
  <2>8. Stands("moreColumns", s, n, r, Null)
    BY <1>7, <1>10, <1>11, <2>6, <2>7 DEF Stands
  <2> QED
    BY <1>1, <1>2, <1>4, <2>8, StandsAfter
<1>12. CASE st.type = "SELECT"
  <2>1. /\ SelectRead("pushColumn", s, n, Width(st), FilterLength(st))
        /\ SelectTree("pushColumn", s, n, Width(st), st, word)
    BY <1>5, <1>12 DEF Stands
  <2>2. st.select_all = FALSE /\ Width(st) = m
    BY <1>4, <1>8, <2>1, NamesAreNoStar
  <2>3. Width(r) = m + 1 /\ FilterLength(r) = FilterLength(st)
    BY <1>7, <1>9, <2>2 DEF Width, FilterLength
  <2>4. SelectRead("moreColumns", s, n, Width(r), FilterLength(r))
    BY <1>9, <2>1, <2>2, <2>3, SelectPush
  <2>5. n = 2 * m + 2
    BY <2>1, <2>2 DEF SelectRead
  <2>6. TextsFrom(columns, s, 2)
    <3>1. 2 + 2 * m = n /\ 2 \in Nat
      BY ONLY <1>9, <2>5
    <3>2. TextsFrom(st.columns, s, 2) /\ word = s[2 + 2 * Len(st.columns)].text
      BY <1>8, <2>1, <3>1 DEF SelectTree
    <3> QED
      BY <1>4, <1>6, <1>7, <3>1, <3>2, TextsGrow
  <2>7. SelectTree("moreColumns", s, n, Width(r), r, Null)
    BY <1>7, <2>1, <2>2, <2>6 DEF SelectTree, UpToTable, FilterNamed, BehindFilter
  <2>8. Stands("moreColumns", s, n, r, Null)
    BY <1>7, <1>10, <1>12, <2>4, <2>7 DEF Stands
  <2> QED
    BY <1>1, <1>2, <1>4, <2>8, StandsAfter
<1> QED
  BY <1>7, <1>11, <1>12

\* A comma, or the end of a list.
LEMMA MoreColumnsStands ==
  ASSUME ParseInv, ParseStands, Parser!MoreColumns
  PROVE  ParseStands'
<1>1. PICK t \in Parser!Token :
        /\ Parser!Current(t)
        /\ IF t.type = "," THEN index' = index + 1 /\ pc' = "column"
           ELSE /\ index' = index
                /\ pc' = IF statement.type = "INSERT" THEN "columnsClose" ELSE "from"
  BY DEF Parser!MoreColumns, Parser!More
<1>2. /\ pc = "moreColumns" /\ pc \in Reading /\ identifier' = identifier /\ statement' = statement
  BY DEF Parser!MoreColumns, Parser!More, Reading, ParsePlaces, ColumnPlaces, ParseEnds,
         Parser!Answers
<1>3. PICK p, s, n, k, st, word : Looking(p, s, n, k, t, st, word)
  BY <1>1, <1>2, LookingIs
<1>4. /\ p = "moreColumns" /\ tokens' = s /\ index = n /\ k = n + 1 /\ identifier' = word
      /\ s[k] = t /\ statement = st /\ statement' = st /\ st \in StatementType
  BY <1>2, <1>3 DEF Looking
<1>5. st.type \in {"INSERT", "SELECT"}
  BY <1>4 DEF StatementType
<1>6. /\ t.type = "," => index' = k /\ pc' = "column"
      /\ t.type # "," /\ st.type = "INSERT" => index' = n /\ pc' = "columnsClose"
      /\ t.type # "," /\ st.type = "SELECT" => index' = n /\ pc' = "from"
  BY <1>1, <1>4
<1>7. CASE st.type = "INSERT"
  <2>1. /\ InsertReading("moreColumns", s, n, k, Len(st.columns), Len(st.values))
        /\ InsertTree("moreColumns", s, n, st, word) /\ Len(s) <= n + 1 /\ Len(s) <= k + 1
    BY <1>3, <1>4, <1>7, LookingInsert
  <2>2. CASE t.type = ","
    <3>1. InsertRead("column", s, k, Len(st.columns), Len(st.values))
      BY <1>4, <2>1, <2>2, ColumnsMove
    <3>2. Stands("column", s, k, st, word)
      BY <1>7, <2>1, <3>1, InsertMoved DEF BeforeTable
    <3> QED
      BY <1>4, <1>6, <2>2, <3>2, StandsAfter
  <2>3. CASE t.type # ","
    <3>1. InsertRead("columnsClose", s, n, Len(st.columns), Len(st.values))
      BY <1>4, <2>1, <2>3, ColumnsMove
    <3>2. Stands("columnsClose", s, n, st, word)
      BY <1>7, <2>1, <3>1, InsertMoved DEF BeforeTable
    <3> QED
      BY <1>4, <1>6, <1>7, <2>3, <3>2, StandsAfter
  <2> QED
    BY <2>2, <2>3
<1>8. CASE st.type = "SELECT"
  <2>1. /\ SelectReading("moreColumns", s, n, k, Width(st), FilterLength(st))
        /\ SelectTree("moreColumns", s, n, Width(st), st, word)
        /\ Len(s) <= n + 1 /\ Len(s) <= k + 1
    BY <1>3, <1>4, <1>8, LookingSelect
  <2>2. CASE t.type = ","
    <3>1. SelectRead("column", s, k, Width(st), FilterLength(st))
      BY <1>4, <2>1, <2>2, SelectBegins
    <3>2. Stands("column", s, k, st, word)
      BY <1>8, <2>1, <3>1, SelectMoved DEF UpToTable, FilterNamed, BehindFilter
    <3> QED
      BY <1>4, <1>6, <2>2, <3>2, StandsAfter
  <2>3. CASE t.type # ","
    <3>1. SelectRead("from", s, n, Width(st), FilterLength(st))
      BY <1>4, <2>1, <2>3, SelectBegins
    <3>2. Stands("from", s, n, st, word)
      BY <1>8, <2>1, <3>1, SelectMoved DEF UpToTable, FilterNamed, BehindFilter
    <3> QED
      BY <1>4, <1>6, <1>8, <2>3, <3>2, StandsAfter
  <2> QED
    BY <2>2, <2>3
<1> QED
  BY <1>5, <1>7, <1>8

LEMMA MoreValuesStands ==
  ASSUME ParseInv, ParseStands, Parser!MoreValues
  PROVE  ParseStands'
<1>1. PICK t \in Parser!Token :
        /\ Parser!Current(t)
        /\ IF t.type = "," THEN index' = index + 1 /\ pc' = "value"
           ELSE index' = index /\ pc' = "valuesClose"
  BY DEF Parser!MoreValues, Parser!More
<1>2. /\ pc = "moreValues" /\ pc \in Reading /\ identifier' = identifier /\ statement' = statement
  BY DEF Parser!MoreValues, Parser!More, Reading, ParsePlaces, InsertPlaces, ParseEnds,
         Parser!Answers
<1>3. PICK p, s, n, k, st, word : Looking(p, s, n, k, t, st, word)
  BY <1>1, <1>2, LookingIs
<1>4. /\ p = "moreValues" /\ tokens' = s /\ index = n /\ k = n + 1 /\ identifier' = word
      /\ s[k] = t /\ statement = st /\ statement' = st /\ st \in StatementType
  BY <1>2, <1>3 DEF Looking
<1>5. st.type = "INSERT"
  BY <1>2, <1>4 DEF ParseInv, ParseTree, InsertPlaces
<1>6. /\ t.type = "," => index' = k /\ pc' = "value"
      /\ t.type # "," => index' = n /\ pc' = "valuesClose"
  BY <1>1, <1>4
<1>7. /\ InsertReading("moreValues", s, n, k, Len(st.columns), Len(st.values))
      /\ InsertTree("moreValues", s, n, st, word) /\ Len(s) <= n + 1 /\ Len(s) <= k + 1
  BY <1>3, <1>4, <1>5, LookingInsert
<1>8. CASE t.type = ","
  <2>1. InsertRead("value", s, k, Len(st.columns), Len(st.values))
    BY <1>4, <1>7, <1>8, ValuesMove
  <2>2. Stands("value", s, k, st, word)
    BY <1>5, <1>7, <2>1, InsertMoved DEF BeforeTable
  <2> QED
    BY <1>4, <1>6, <1>8, <2>2, StandsAfter
<1>9. CASE t.type # ","
  <2>1. InsertRead("valuesClose", s, n, Len(st.columns), Len(st.values))
    BY <1>4, <1>7, <1>9, ValuesMove
  <2>2. Stands("valuesClose", s, n, st, word)
    BY <1>5, <1>7, <2>1, InsertMoved DEF BeforeTable
  <2> QED
    BY <1>4, <1>6, <1>9, <2>2, StandsAfter
<1> QED
  BY <1>8, <1>9

LEMMA ValueStands ==
  ASSUME ParseInv, ParseStands, Parser!Value
  PROVE  ParseStands'
<1>1. PICK t \in Parser!Token :
        /\ Parser!Current(t) /\ Parser!IsValue(t)
        /\ statement' = [statement EXCEPT !.values = Append(@, t.text)]
  BY DEF Parser!Value
<1>2. /\ pc = "value" /\ pc \in Reading /\ index' = index + 1 /\ identifier' = identifier
      /\ pc' = "moreValues"
  BY DEF Parser!Value, Reading, ParsePlaces, InsertPlaces, ParseEnds, Parser!Answers
<1>3. PICK p, s, n, k, st, word : Looking(p, s, n, k, t, st, word)
  BY <1>1, <1>2, LookingIs
<1>4. /\ p = "value" /\ tokens' = s /\ index' = k /\ k = n + 1 /\ identifier' = word /\ s[k] = t
      /\ statement = st /\ st \in StatementType
  BY <1>2, <1>3 DEF Looking
<1>5. st.type = "INSERT"
  BY <1>2, <1>4 DEF ParseInv, ParseTree, InsertPlaces
<1>6. PICK r : r = [st EXCEPT !.values = Append(st.values, t.text)]
  OBVIOUS
<1>7. PICK e, values : e = t.text /\ values = Append(st.values, e)
  OBVIOUS
<1>8. /\ r.type = st.type /\ r.columns = st.columns /\ r.values = values
      /\ r.select_all = st.select_all /\ r.has_where = st.has_where
      /\ r.table_name = st.table_name /\ r.where_column = st.where_column
      /\ r.where_value = st.where_value /\ statement' = r
  BY <1>1, <1>4, <1>6, <1>7 DEF StatementType
<1>9. e \in AnyValue /\ st.values \in Seq(AnyValue)
  BY <1>1, <1>4, <1>7, TokenKinds DEF StatementType
<1>10. PICK m, v, a : m = Len(st.columns) /\ v = Len(st.values) /\ a = 2 * m + 7
  OBVIOUS
<1>11. m \in Nat /\ v \in Nat /\ Len(values) = v + 1 /\ a \in Nat
  BY <1>4, <1>7, <1>9, <1>10 DEF StatementType
<1>12. /\ InsertReading("value", s, n, k, m, v)
       /\ InsertTree("value", s, n, st, word) /\ Len(s) <= k + 1
  BY <1>3, <1>4, <1>5, <1>10, LookingInsert
<1>13. InsertRead("moreValues", s, k, m, v + 1)
  <2>1. s[k].type \in ValueTypes
    BY <1>1, <1>4 DEF Parser!IsValue, ValueTypes
  <2> QED
    BY <1>12, <2>1, ValuesMove
<1>14. TextsFrom(values, s, a)
  <2>1. n = 2 * m + 2 * v + 6
    BY <1>12 DEF InsertReading, InsertRead
  <2>2. k = n + 1 /\ a = 2 * m + 7
    BY <1>4, <1>10, Zenon
  <2>3. m \in Nat /\ v \in Nat
    BY <1>11
  <2>4. a + 2 * v = k
    BY ONLY <2>1, <2>2, <2>3
  <2>5. TextsFrom(st.values, s, a) /\ e = s[a + 2 * Len(st.values)].text
    BY <1>4, <1>7, <1>10, <1>12, <2>4 DEF InsertTree
  <2> QED
    BY <1>7, <1>9, <1>11, <2>5, TextsGrow
<1>15. InsertTree("moreValues", s, k, r, word)
  BY <1>8, <1>10, <1>12, <1>14 DEF InsertTree, BeforeTable
<1>16. InsertRead("moreValues", s, k, Len(r.columns), Len(r.values))
  BY <1>8, <1>10, <1>11, <1>13
<1>17. Stands("moreValues", s, k, r, word)
  BY <1>5, <1>8, <1>12, <1>15, <1>16 DEF Stands
<1> QED
  BY <1>2, <1>4, <1>8, <1>17, StandsAfter

-----------------------------------------------------------------------------
\* The parser starts at the place where nothing is read.
LEMMA ParseStandsInit == Parser!Init => ParseStands
<1> SUFFICES ASSUME Parser!Init PROVE ParseStands
  OBVIOUS
<1>1. /\ pc = "statement" /\ tokens = <<>> /\ index = 0
      /\ statement = Parser!EmptyStatement
  BY DEF Parser!Init
<1>2. PICK s, st : s = tokens /\ st = statement
  OBVIOUS
<1>3. /\ st.type = "INSERT" /\ st.columns = <<>> /\ st.values = <<>> /\ st.select_all = FALSE
      /\ st.has_where = FALSE /\ st.table_name = Null /\ st.where_column = Null
      /\ st.where_value = Null
  BY <1>1, <1>2 DEF Parser!EmptyStatement
<1>4. Len(st.columns) = 0 /\ Len(st.values) = 0 /\ Len(s) = 0
  BY <1>1, <1>2, <1>3
<1>5. InsertRead("statement", s, 0, 0, 0)
  BY DEF InsertRead
<1>6. InsertTree("statement", s, 0, st, identifier)
  BY <1>3, <1>4 DEF InsertTree, TextsFrom, BeforeTable
<1>7. Stands("statement", s, 0, st, identifier)
  BY <1>3, <1>4, <1>5, <1>6 DEF Stands
<1> QED
  BY <1>1, <1>2, <1>7 DEF ParseStands

\* Where it ends otherwise than with a tree, nothing is claimed.
LEMMA EndsStand ==
  ASSUME pc' \in {"unsupported", "expected", "connector", "outOfMemory", "freed"}
  PROVE  ParseStands'
BY DEF ParseStands, Reading, ParseEnds, Parser!Answers

LEMMA ParseStandsStep ==
  ASSUME ParseInv, ParseStands, Parser!Next
  PROVE  ParseStands'
<1>1. CASE Parser!Dispatch
  BY <1>1, DispatchStands
<1>2. CASE Parser!Unsupported
  BY <1>2, EndsStand DEF Parser!Unsupported
<1>3. CASE Parser!Fixed
  BY <1>3, FixedStands
<1>4. CASE Parser!Star
  BY <1>4, StarStands
<1>5. CASE Parser!TableName
  BY <1>5, TableNameStands
<1>6. CASE Parser!WhereColumn
  BY <1>6, WhereColumnStands
<1>7. CASE Parser!ReadIdentifier
  BY <1>7, ReadIdentifierStands
<1>8. CASE Parser!PushIdentifier
  BY <1>8, PushIdentifierStands
<1>9. CASE Parser!MoreColumns
  BY <1>9, MoreColumnsStands
<1>10. CASE Parser!Value
  BY <1>10, ValueStands
<1>11. CASE Parser!MoreValues
  BY <1>11, MoreValuesStands
<1>12. CASE Parser!WhereValue
  BY <1>12, WhereValueStands
<1>13. CASE Parser!Where
  BY <1>13, WhereStands
<1>14. CASE Parser!Connector
  BY <1>14, EndsStand DEF Parser!Connector, Parser!Fail
<1>15. CASE Parser!NoConnector
  BY <1>15, NoConnectorStands
<1>16. CASE Parser!Expected
  BY <1>16, EndsStand DEF Parser!Expected, Parser!Fail
<1>17. CASE Parser!CopyFails
  BY <1>17, EndsStand DEF Parser!CopyFails, Parser!Fail
<1>18. CASE Parser!PushFails
  BY <1>18, EndsStand DEF Parser!PushFails, Parser!Fail
<1>19. CASE Parser!FreeStatement
  BY <1>19, EndsStand DEF Parser!FreeStatement
<1> QED
  BY <1>1, <1>2, <1>3, <1>4, <1>5, <1>6, <1>7, <1>8, <1>9, <1>10, <1>11, <1>12, <1>13, <1>14,
     <1>15, <1>16, <1>17, <1>18, <1>19, Zenon DEF Parser!Next, Parser!Step

-----------------------------------------------------------------------------
(* A parse that succeeds.                                                  *)

LEMMA ItemsAre ==
  ASSUME NEW X, NEW list \in Seq(X), Len(list) # 0, NEW a \in Nat, NEW b,
         b = a + 2 * Len(list) - 2, TextsFrom(list, tokens, a)
  PROVE  list = Parser!Items(a, b)
<1>1. PICK n : n = Len(list)
  OBVIOUS
<1>2. n \in Nat /\ n # 0 /\ list = [k \in 1..n |-> list[k]]
  BY <1>1
<1>3. b = a + 2 * n - 2
  BY <1>1
<1>4. (b - a) \div 2 + 1 = n
  <2>1. b - a = 2 * (n - 1)
    BY ONLY <1>2, <1>3, a \in Nat
  <2>2. (2 * (n - 1)) \div 2 = n - 1
    BY ONLY <1>2
  <2> QED
    BY <1>2, <2>1, <2>2
<1>5. ASSUME NEW k \in 1..n PROVE list[k] = tokens[a + 2 * (k - 1)].text
  <2>1. a + 2 * k - 2 = a + 2 * (k - 1)
    BY ONLY a \in Nat, <1>2, k \in 1..n
  <2> QED
    BY <1>1, <2>1 DEF TextsFrom
<1>6. Parser!Items(a, b) = [k \in 1..n |-> tokens[a + 2 * (k - 1)].text]
  BY <1>4, Zenon DEF Parser!Items
<1> QED
  BY <1>2, <1>5, <1>6

LEMMA InsertAccepted ==
  ASSUME ParseInv, ParseStands, pc = "ok", statement.type = "INSERT"
  PROVE  \E i \in 1..Len(tokens) :
           Parser!InsertForm(tokens, i) /\ statement = Parser!InsertMeaning(i)
<1>1. PICK s, st, m, v :
        s = tokens /\ st = statement /\ m = Len(st.columns) /\ v = Len(st.values)
  OBVIOUS
<1>2. /\ s \in Seq(Parser!Token) /\ st \in StatementType /\ st.type = "INSERT"
      /\ m \in Nat /\ v \in Nat
  BY <1>1 DEF ParseInv, ParseTokens, ParseTree, StatementType
<1>3. Stands("ok", s, index, st, identifier)
  BY <1>1 DEF ParseStands
<1>4. Insertion(s, m, v) /\ InsertTree("ok", s, index, st, identifier)
  BY <1>1, <1>2, <1>3 DEF Stands, InsertRead
<1>5. PICK i, l : i = 2 * m + 4 /\ l = Len(s)
  OBVIOUS
<1>6. l = 2 * m + 2 * v + 8 /\ m # 0 /\ v # 0
  BY <1>4, <1>5 DEF Insertion
<1>7. i \in 1..l /\ i - 1 = 5 + 2 * m - 2 /\ i + 3 = 2 * m + 7 /\ l - 3 = (i + 3) + 2 * v - 2
      /\ i + 3 \in Nat
  BY ONLY <1>2, <1>5, <1>6
<1>8. Parser!InsertForm(s, i)
  BY <1>2, <1>4, <1>5, InsertFormIs
<1>9. st.columns = Parser!Items(5, i - 1)
  <2>1. PICK a, b : a = 5 /\ b = i - 1
    OBVIOUS
  <2>2. /\ st.columns \in Seq(Words) /\ Len(st.columns) # 0 /\ a \in Nat
        /\ b = a + 2 * Len(st.columns) - 2
    BY <1>1, <1>2, <1>6, <1>7, <2>1 DEF StatementType
  <2>3. TextsFrom(st.columns, tokens, a)
    BY <1>1, <1>4, <2>1 DEF InsertTree
  <2>4. st.columns = Parser!Items(a, b)
    BY ONLY <2>2, <2>3, ItemsAre
  <2> QED
    BY <2>1, <2>4
<1>10. st.values = Parser!Items(i + 3, l - 3)
  <2>1. PICK a, b : a = i + 3 /\ b = l - 3
    OBVIOUS
  <2>2. /\ st.values \in Seq(AnyValue) /\ Len(st.values) # 0 /\ a \in Nat
        /\ b = a + 2 * Len(st.values) - 2
    BY <1>1, <1>2, <1>6, <1>7, <2>1 DEF StatementType
  <2>3. TextsFrom(st.values, tokens, a)
    BY <1>1, <1>4, <1>7, <2>1 DEF InsertTree
  <2>4. st.values = Parser!Items(a, b)
    BY ONLY <2>2, <2>3, ItemsAre
  <2> QED
    BY <2>1, <2>4
<1>11. /\ st.table_name = tokens[3].text /\ st.select_all = FALSE /\ st.has_where = FALSE
       /\ st.where_column = Null /\ st.where_value = Null
  BY <1>1, <1>4 DEF InsertTree, BeforeTable
<1>12. PICK r : r = Parser!InsertMeaning(i)
  OBVIOUS
<1>13. r = [type |-> "INSERT", table_name |-> tokens[3].text, columns |-> Parser!Items(5, i - 1),
            values |-> Parser!Items(i + 3, l - 3), select_all |-> FALSE, has_where |-> FALSE,
            where_column |-> Null, where_value |-> Null]
  BY <1>1, <1>5, <1>12 DEF Parser!InsertMeaning, Parser!EmptyStatement
<1>14. st = r
  BY <1>2, <1>9, <1>10, <1>11, <1>13 DEF StatementType
<1> QED
  BY <1>1, <1>5, <1>7, <1>8, <1>12, <1>14

LEMMA SelectAccepted ==
  ASSUME ParseInv, ParseStands, pc = "ok", statement.type = "SELECT"
  PROVE  \E i \in 1..Len(tokens) :
           Parser!SelectForm(tokens, i) /\ statement = Parser!SelectMeaning(i)
<1>1. PICK s, st, w, f :
        s = tokens /\ st = statement /\ w = Width(st) /\ f = FilterLength(st)
  OBVIOUS
<1>2. /\ s \in Seq(Parser!Token) /\ st \in StatementType /\ st.type = "SELECT"
      /\ w \in Nat /\ f \in {0, 4}
  BY <1>1, WidthType DEF ParseInv, ParseTokens, ParseTree
<1>3. Stands("ok", s, index, st, identifier)
  BY <1>1 DEF ParseStands
<1>4. Selection(s, w, f) /\ SelectTree("ok", s, index, w, st, identifier)
  BY <1>1, <1>2, <1>3 DEF Stands, SelectRead
<1>5. PICK i, l : i = 2 * w + 1 /\ l = Len(s)
  OBVIOUS
<1>6. l = 2 * w + 4 + f /\ w # 0
  BY <1>4, <1>5 DEF Selection, SelectTable, SelectList
<1>7. i \in 1..l /\ i - 1 = 2 + 2 * w - 2 /\ i + 1 = 2 * w + 2 /\ i + 2 = 2 * w + 3
      /\ i + 3 = 2 * w + 4 /\ i + 5 = 2 * w + 6
  BY ONLY <1>2, <1>5, <1>6
<1>8. Parser!SelectForm(s, i)
  BY <1>2, <1>4, <1>5, SelectFormIs
<1>9. st.select_all = (tokens[2].type = "*") /\ st.values = <<>> /\ st.table_name = tokens[i + 1].text
  <2>1. st.select_all = TRUE <=> tokens[2].type = "*"
    BY <1>1, <1>4 DEF SelectTree
  <2>2. st.select_all \in BOOLEAN
    BY <1>2 DEF StatementType
  <2>3. st.values = <<>> /\ st.table_name = s[2 * w + 2].text
    BY <1>4 DEF SelectTree, UpToTable
  <2> QED
    BY <1>1, <1>7, <2>1, <2>2, <2>3
<1>10. st.columns = IF tokens[2].type = "*" THEN <<>> ELSE Parser!Items(2, i - 1)
  <2>1. CASE tokens[2].type = "*"
    BY <1>4, <1>9, <2>1 DEF SelectTree
  <2>2. CASE tokens[2].type # "*"
    <3>1. PICK a, b : a = 2 /\ b = i - 1
      OBVIOUS
    <3>2. w = Len(st.columns)
      BY <1>1, <1>9, <2>2 DEF Width
    <3>3. /\ st.columns \in Seq(Words) /\ Len(st.columns) # 0 /\ a \in Nat
          /\ b = a + 2 * Len(st.columns) - 2
      BY <1>2, <1>6, <1>7, <3>1, <3>2 DEF StatementType
    <3>4. TextsFrom(st.columns, tokens, a)
      BY <1>1, <1>4, <3>1 DEF SelectTree
    <3>5. st.columns = Parser!Items(a, b)
      BY ONLY <3>3, <3>4, ItemsAre
    <3> QED
      BY <2>2, <3>1, <3>5
  <2> QED
    BY <2>1, <2>2
<1>11. st.has_where = (tokens[i + 2].type # ";")
  <2>1. CASE st.has_where = TRUE
    <3>1. f = 4
      BY <1>1, <2>1 DEF FilterLength
    <3>2. s[2 * w + 3].type = "IDENTIFIER"
      BY <1>4, <3>1 DEF Selection, SelectFilter, Parser!IsWord
    <3> QED
      BY <1>1, <1>7, <2>1, <3>2
  <2>2. CASE st.has_where = FALSE
    <3>1. f = 0
      BY <1>1, <2>2 DEF FilterLength
    <3>2. s[2 * w + 3 + f].type = ";"
      BY <1>4, Zenon DEF Selection
    <3>3. 2 * w + 3 + f = i + 2
      BY ONLY <1>2, <1>5, <3>1
    <3>4. s[i + 2].type = ";"
      BY <3>2, <3>3
    <3> QED
      BY <1>1, <2>2, <3>4
  <2> QED
    BY <1>2, <2>1, <2>2 DEF StatementType
<1>12. /\ st.where_column = IF st.has_where THEN tokens[i + 3].text ELSE Null
       /\ st.where_value = IF st.has_where THEN tokens[i + 5].text ELSE Null
  <2>1. CASE st.has_where
    BY <1>1, <1>4, <1>7, <2>1 DEF SelectTree
  <2>2. CASE ~st.has_where
    BY <1>4, <2>2 DEF SelectTree, BehindFilter
  <2> QED
    BY <2>1, <2>2
<1>13. PICK r : r = Parser!SelectMeaning(i)
  OBVIOUS
<1>14. r = [type |-> "SELECT", table_name |-> tokens[i + 1].text,
            columns |-> IF tokens[2].type = "*" THEN <<>> ELSE Parser!Items(2, i - 1),
            values |-> <<>>, select_all |-> tokens[2].type = "*",
            has_where |-> tokens[i + 2].type # ";",
            where_column |-> IF tokens[i + 2].type # ";" THEN tokens[i + 3].text ELSE Null,
            where_value |-> IF tokens[i + 2].type # ";" THEN tokens[i + 5].text ELSE Null]
  BY <1>13 DEF Parser!SelectMeaning, Parser!EmptyStatement
<1>15. st = r
  BY <1>2, <1>9, <1>10, <1>11, <1>12, <1>14 DEF StatementType
<1> QED
  BY <1>1, <1>5, <1>7, <1>8, <1>13, <1>15

LEMMA TreeSays ==
  ASSUME ParseInv, ParseStands
  PROVE  Parser!TreeSaysWhatIsWritten
<1>1. statement.type \in {"INSERT", "SELECT"}
  BY DEF ParseInv, ParseTree, StatementType
<1> QED
  BY <1>1, InsertAccepted, SelectAccepted, Zenon DEF Parser!TreeSaysWhatIsWritten

-----------------------------------------------------------------------------
(* What every statement that begins like the tokens read has next.         *)

FitsAt(p, t) ==
  /\ p = "statement" => Parser!IsWord(t, "INSERT") \/ Parser!IsWord(t, "SELECT")
  /\ p = "into" => Parser!IsWord(t, "INTO")
  /\ p = "valuesWord" => Parser!IsWord(t, "VALUES")
  /\ p = "from" => Parser!IsWord(t, "FROM")
  /\ p \in {"columnsOpen", "valuesOpen"} => t.type = "("
  /\ p \in {"columnsClose", "valuesClose"} => t.type = ")"
  /\ p = "equals" => t.type = "="
  /\ p \in {"semicolon", "connector?"} => t.type = ";"
  /\ p = "end" => t.type = "END"
  /\ p \in {"table", "column", "whereColumn"} => Parser!IsName(t)
  /\ p = "selectList" => t.type = "*" \/ Parser!IsName(t)
  /\ p \in {"value", "whereValue"} => t.type \in ValueTypes

\* The length of a list is where no comma follows an item.
LEMMA ListEnds ==
  ASSUME NEW u, NEW a \in Nat, NEW M \in Nat \ {0}, NEW m \in Nat,
         CommasFrom(u, a, M - 1), u[a + 2 * M - 1].type # ","
  PROVE  /\ CommasFrom(u, a, m) => m < M
         /\ m # 0 /\ CommasFrom(u, a, m - 1) /\ u[a + 2 * m - 1].type # "," => m = M
<1>1. ASSUME NEW k \in Nat, CommasFrom(u, a, k) PROVE k < M
  <2>1. SUFFICES ASSUME ~(k < M) PROVE FALSE
    OBVIOUS
  <2>2. M \in 1..k
    BY ONLY <2>1, k \in Nat, M \in Nat \ {0}
  <2> QED
    BY <1>1, <2>2 DEF CommasFrom
<1>2. ASSUME m # 0, CommasFrom(u, a, m - 1), u[a + 2 * m - 1].type # "," PROVE m = M
  <2>1. PICK k : k = m - 1
    OBVIOUS
  <2>2. m # 0
    BY <1>2, Zenon
  <2>3. k \in Nat /\ m = k + 1 /\ m # 0
    BY ONLY <2>1, <2>2, m \in Nat
  <2>4. k < M
    BY <1>1, <1>2, <2>1, <2>3
  <2>5. ASSUME m < M PROVE FALSE
    <3>1. m \in 1..(M - 1)
      BY ONLY <2>3, <2>5, m \in Nat, M \in Nat \ {0}
    <3> QED
      BY <1>2, <3>1 DEF CommasFrom
  <2> QED
    BY ONLY <2>3, <2>5, <2>4, m \in Nat, M \in Nat \ {0}
<1> QED
  BY <1>1, <1>2

LEMMA ItemAt ==
  ASSUME NEW u, NEW a \in Nat, NEW M \in Nat, NEW m \in Nat, NEW types,
         ItemsFrom(u, a, M, types), m < M
  PROVE  u[a + 2 * m].type \in types
<1>1. PICK k : k = m + 1
  OBVIOUS
<1>2. k \in 1..M /\ a + 2 * k - 2 = a + 2 * m
  BY <1>1
<1> QED
  BY <1>2 DEF ItemsFrom

\* Two INSERTs with the same columns, as far as they are read.
LEMMA ColumnsMeet ==
  ASSUME NEW u, NEW M, NEW V, Insertion(u, M, V), NEW m \in Nat
  PROVE  /\ ColumnsRead(u, m, m) => m < M /\ Parser!IsName(u[2 * m + 5])
         /\ m # 0 /\ ColumnsRead(u, m, m - 1) /\ u[2 * m + 4].type # "," => m = M
         /\ ColumnsClosed(u, m) => m = M
<1>1. M \in Nat \ {0} /\ V \in Nat \ {0}
  BY DEF Insertion
<1>2. PICK a : a = 5
  OBVIOUS
<1>3. /\ ItemsFrom(u, a, M, NameTypes) /\ CommasFrom(u, a, M - 1)
      /\ u[2 * M + 4].type = ")"
  BY <1>2 DEF Insertion
<1>4. a \in Nat /\ M \in Nat /\ a + 2 * M - 1 = 2 * M + 4 /\ a + 2 * m - 1 = 2 * m + 4
      /\ a + 2 * m = 2 * m + 5
  BY <1>1, <1>2
<1>5. /\ CommasFrom(u, a, m) => m < M
      /\ m # 0 /\ CommasFrom(u, a, m - 1) /\ u[a + 2 * m - 1].type # "," => m = M
  BY <1>1, <1>3, <1>4, ListEnds
<1>6. ASSUME ColumnsRead(u, m, m) PROVE m < M /\ Parser!IsName(u[2 * m + 5])
  <2>1. CommasFrom(u, a, m)
    BY <1>2, <1>6 DEF ColumnsRead
  <2>2. u[a + 2 * m].type \in NameTypes
    BY <1>3, <1>4, <1>5, <2>1, ItemAt
  <2> QED
    BY <1>4, <1>5, <2>1, <2>2 DEF NameTypes, Parser!IsName
<1>7. ASSUME m # 0, ColumnsRead(u, m, m - 1), u[2 * m + 4].type # "," PROVE m = M
  BY <1>2, <1>4, <1>5, <1>7 DEF ColumnsRead
<1>8. ASSUME ColumnsClosed(u, m) PROVE m = M
  BY <1>7, <1>8 DEF ColumnsClosed
<1> QED
  BY <1>6, <1>7, <1>8

LEMMA ValuesMeet ==
  ASSUME NEW u, NEW M, NEW V, Insertion(u, M, V), NEW m \in Nat, NEW v \in Nat
  PROVE  /\ ValuesRead(u, m, v, v) => v < V /\ u[2 * m + 2 * v + 7].type \in ValueTypes
         /\ v # 0 /\ ValuesRead(u, m, v, v - 1) /\ u[2 * m + 2 * v + 6].type # "," => v = V
         /\ ValuesClosed(u, m, v) => v = V
<1>1. M \in Nat \ {0} /\ V \in Nat \ {0}
  BY DEF Insertion
<1>2. PICK a : a = 2 * m + 7
  OBVIOUS
<1>3. ASSUME NEW k, ValuesRead(u, m, v, k)
      PROVE  m = M /\ CommasFrom(u, a, k) /\ ItemsFrom(u, a, V, ValueTypes)
             /\ CommasFrom(u, a, V - 1) /\ u[2 * m + 2 * V + 6].type = ")"
  <2>1. m = M
    BY <1>3, ColumnsMeet DEF ValuesRead
  <2> QED
    BY <1>2, <1>3, <2>1, Zenon DEF ValuesRead, Insertion
<1>4. a \in Nat /\ V \in Nat /\ a + 2 * V - 1 = 2 * m + 2 * V + 6
      /\ a + 2 * v - 1 = 2 * m + 2 * v + 6 /\ a + 2 * v = 2 * m + 2 * v + 7
  BY <1>1, <1>2
<1>5. ASSUME NEW k, ValuesRead(u, m, v, k)
      PROVE  /\ CommasFrom(u, a, v) => v < V
             /\ v # 0 /\ CommasFrom(u, a, v - 1) /\ u[a + 2 * v - 1].type # "," => v = V
  BY <1>1, <1>3, <1>4, <1>5, ListEnds
<1>6. ASSUME ValuesRead(u, m, v, v)
      PROVE  v < V /\ u[2 * m + 2 * v + 7].type \in ValueTypes
  <2>1. v < V /\ ItemsFrom(u, a, V, ValueTypes)
    BY <1>3, <1>5, <1>6
  <2>2. u[a + 2 * v].type \in ValueTypes
    BY <1>4, <2>1, ItemAt
  <2> QED
    BY <1>4, <2>1, <2>2
<1>7. ASSUME v # 0, ValuesRead(u, m, v, v - 1), u[2 * m + 2 * v + 6].type # "," PROVE v = V
  <2>1. PICK k : k = v - 1
    OBVIOUS
  <2>2. ValuesRead(u, m, v, k)
    BY <1>7, <2>1
  <2>3. CommasFrom(u, a, v - 1)
    BY <1>3, <2>1, <2>2
  <2> QED
    BY <1>4, <1>5, <1>7, <2>2, <2>3
<1>8. ASSUME ValuesClosed(u, m, v) PROVE v = V
  BY <1>7, <1>8 DEF ValuesClosed
<1> QED
  BY <1>6, <1>7, <1>8

\* Two SELECTs with the same items, as far as they are read.
LEMMA ItemsMeet ==
  ASSUME NEW u, NEW W, NEW F, Selection(u, W, F), NEW w \in Nat \ {0}
  PROVE  /\ /\ ItemsFrom(u, 2, w, NameTypes) /\ CommasFrom(u, 2, w)
            => w < W /\ Parser!IsName(u[2 * w + 2])
         /\ SelectList(u, w) /\ (u[2].type # "*" => u[2 * w + 1].type # ",") => w = W
<1>1. W \in Nat \ {0} /\ Parser!IsWord(u[2 * W + 1], "FROM")
  BY DEF Selection, SelectTable, SelectList
<1>2. PICK a : a = 2
  OBVIOUS
<1>3. \/ W = 1 /\ u[2].type = "*"
      \/ ItemsFrom(u, a, W, NameTypes) /\ CommasFrom(u, a, W - 1)
  BY <1>2 DEF Selection, SelectTable, SelectList
<1>4. a \in Nat /\ W \in Nat /\ a + 2 * W - 1 = 2 * W + 1 /\ a + 2 * w - 1 = 2 * w + 1
      /\ a + 2 * w = 2 * w + 2 /\ u[2 * W + 1].type # ","
  BY <1>1, <1>2 DEF Parser!IsWord
<1>5. ASSUME NEW i \in Nat \ {0}, ItemsFrom(u, 2, i, NameTypes) PROVE u[2].type # "*"
  <2>1. PICK j : j = 2
    OBVIOUS
  <2>2. 1 \in 1..i /\ j + 2 * 1 - 2 = 2
    BY <2>1
  <2>3. u[2].type \in NameTypes
    BY <1>5, <2>1, <2>2 DEF ItemsFrom
  <2> QED
    BY <2>3 DEF NameTypes
<1>6. ASSUME u[2].type # "*"
      PROVE  /\ ItemsFrom(u, a, W, NameTypes)
             /\ CommasFrom(u, a, w) => w < W
             /\ CommasFrom(u, a, w - 1) /\ u[a + 2 * w - 1].type # "," => w = W
  <2>1. ItemsFrom(u, a, W, NameTypes) /\ CommasFrom(u, a, W - 1)
    BY <1>3, <1>6
  <2>2. u[a + 2 * W - 1].type # ","
    BY <1>4
  <2>3. w \in Nat /\ w # 0
    OBVIOUS
  <2> QED
    BY <1>1, <1>4, <2>1, <2>2, <2>3, ListEnds
<1>7. ASSUME ItemsFrom(u, 2, w, NameTypes), CommasFrom(u, 2, w)
      PROVE  w < W /\ Parser!IsName(u[2 * w + 2])
  <2>1. u[2].type # "*"
    BY <1>5, <1>7
  <2>2. w < W /\ ItemsFrom(u, a, W, NameTypes)
    BY <1>2, <1>6, <1>7, <2>1
  <2>3. u[a + 2 * w].type \in NameTypes
    BY <1>4, <2>2, ItemAt
  <2> QED
    BY <1>4, <2>2, <2>3 DEF NameTypes, Parser!IsName
<1>8. ASSUME SelectList(u, w), u[2].type # "*" => u[2 * w + 1].type # "," PROVE w = W
  <2>1. CASE u[2].type = "*"
    <3>1. ~ItemsFrom(u, 2, w, NameTypes) /\ ~ItemsFrom(u, a, W, NameTypes)
      BY <1>1, <1>2, <1>5, <2>1
    <3> QED
      BY <1>3, <1>8, <3>1 DEF SelectList
  <2>2. CASE u[2].type # "*"
    BY <1>2, <1>4, <1>6, <1>8, <2>2 DEF SelectList
  <2> QED
    BY <2>1, <2>2
<1> QED
  BY <1>7, <1>8

\* Only an INSERT goes on from the places of one.
LEMMA InsertFollows ==
  ASSUME NEW u, NEW M, NEW V, Insertion(u, M, V),
         NEW p \in Reading \ {"pushColumn"}, NEW n, NEW k, n \in Nat, k = n + 1,
         NEW m \in Nat, NEW v \in Nat, InsertRead(p, u, n, m, v)
  PROVE  FitsAt(p, u[k])
<1>1. /\ InsertHead(u) /\ Parser!IsWord(u[2 * M + 5], "VALUES") /\ u[2 * M + 6].type = "("
      /\ u[2 * M + 4].type = ")" /\ M \in Nat \ {0} /\ V \in Nat \ {0}
      /\ u[2 * M + 2 * V + 6].type = ")" /\ u[2 * M + 2 * V + 7].type = ";"
      /\ u[2 * M + 2 * V + 8].type = "END"
  BY DEF Insertion
<1>2. CASE p \in {"statement", "into", "table", "columnsOpen"}
  <2>1. \/ p = "statement" /\ n = 0
        \/ p = "into" /\ n = 1
        \/ p = "table" /\ n = 2
        \/ p = "columnsOpen" /\ n = 3
    BY <1>2, Zenon DEF InsertRead
  <2>2. \/ p = "statement" /\ k = 1
        \/ p = "into" /\ k = 2
        \/ p = "table" /\ k = 3
        \/ p = "columnsOpen" /\ k = 4
    BY ONLY <2>1, k = n + 1
  <2> QED
    BY <1>1, <2>2 DEF FitsAt, InsertHead
<1>3. CASE p = "column"
  <2>1. n = 2 * m + 4 /\ ColumnsRead(u, m, m)
    BY <1>3 DEF InsertRead
  <2>2. k = 2 * m + 5
    BY ONLY <2>1, k = n + 1, m \in Nat
  <2> QED
    BY <1>3, <2>1, <2>2, ColumnsMeet DEF FitsAt
<1>4. CASE p = "columnsClose"
  <2>1. /\ m \in Nat \ {0} /\ n = 2 * m + 3 /\ ColumnsRead(u, m, m - 1)
        /\ u[2 * m + 4].type # ","
    BY <1>4 DEF InsertRead
  <2>2. n = 2 * m + 3
    BY <2>1, Zenon
  <2>3. k = 2 * m + 4
    BY ONLY <2>2, k = n + 1, m \in Nat
  <2>4. m = M
    BY <2>1, ColumnsMeet
  <2> QED
    BY <1>1, <1>4, <2>3, <2>4 DEF FitsAt
<1>5. CASE p \in {"valuesWord", "valuesOpen"}
  <2>1. /\ ColumnsClosed(u, m) /\ (p = "valuesWord" => n = 2 * m + 4)
        /\ (p = "valuesOpen" => n = 2 * m + 5)
    BY <1>5 DEF InsertRead
  <2>2. m = M
    BY <2>1, ColumnsMeet
  <2>3. (p = "valuesWord" => k = 2 * m + 5) /\ (p = "valuesOpen" => k = 2 * m + 6)
    BY ONLY <2>1, k = n + 1, m \in Nat
  <2> QED
    BY <1>1, <1>5, <2>2, <2>3 DEF FitsAt
<1>6. CASE p = "value"
  <2>1. n = 2 * m + 2 * v + 6 /\ ValuesRead(u, m, v, v)
    BY <1>6 DEF InsertRead
  <2>2. k = 2 * m + 2 * v + 7
    BY ONLY <2>1, k = n + 1, m \in Nat, v \in Nat
  <2> QED
    BY <1>6, <2>1, <2>2, ValuesMeet DEF FitsAt
<1>7. CASE p = "valuesClose"
  <2>1. /\ v \in Nat \ {0} /\ n = 2 * m + 2 * v + 5 /\ ValuesRead(u, m, v, v - 1)
        /\ u[2 * m + 2 * v + 6].type # ","
    BY <1>7 DEF InsertRead
  <2>2. n = 2 * m + 2 * v + 5
    BY <2>1, Zenon
  <2>3. k = 2 * m + 2 * v + 6
    BY ONLY <2>2, k = n + 1, m \in Nat, v \in Nat
  <2>4. m = M /\ v = V
    BY <2>1, ColumnsMeet, ValuesMeet DEF ValuesRead
  <2> QED
    BY <1>1, <1>7, <2>3, <2>4 DEF FitsAt
<1>8. CASE p \in {"semicolon", "end"}
  <2>1. /\ ValuesClosed(u, m, v) /\ (p = "semicolon" => n = 2 * m + 2 * v + 6)
        /\ (p = "end" => n = 2 * m + 2 * v + 7)
    BY <1>8 DEF InsertRead
  <2>2. m = M /\ v = V
    BY <2>1, ColumnsMeet, ValuesMeet DEF ValuesRead, ValuesClosed
  <2>3. /\ p = "semicolon" => k = 2 * m + 2 * v + 7
        /\ p = "end" => k = 2 * m + 2 * v + 8
    BY ONLY <2>1, k = n + 1, m \in Nat, v \in Nat
  <2> QED
    BY <1>1, <1>8, <2>2, <2>3 DEF FitsAt
<1>9. CASE p \in {"moreColumns", "moreValues"}
  BY <1>9 DEF FitsAt
<1>10. p \notin {"selectList", "from", "where", "whereColumn", "equals", "whereValue", "connector?"}
  BY DEF InsertRead
<1>11. p \in {"statement", "into", "table", "columnsOpen", "column", "columnsClose", "valuesWord",
              "valuesOpen", "value", "valuesClose", "semicolon", "end", "moreColumns", "moreValues"}
  BY <1>10 DEF Reading, ParsePlaces, ParseEnds, InsertPlaces, SelectPlaces, ColumnPlaces,
               Parser!Answers
<1> QED
  BY <1>2, <1>3, <1>4, <1>5, <1>6, <1>7, <1>8, <1>9, <1>11

\* Only a SELECT goes on from the places of one.
LEMMA SelectFollows ==
  ASSUME NEW u, NEW W, NEW F, Selection(u, W, F),
         NEW p \in Reading \ {"pushColumn"}, NEW n, NEW k, n \in Nat, k = n + 1,
         NEW w \in Nat, NEW f \in {0, 4}, SelectRead(p, u, n, w, f)
  PROVE  FitsAt(p, u[k])
<1>1. /\ W \in Nat \ {0} /\ Parser!IsWord(u[2 * W + 1], "FROM") /\ Parser!IsName(u[2 * W + 2])
      /\ F \in {0, 4} /\ (F = 4 => SelectFilter(u, W))
      /\ u[2 * W + 3 + F].type = ";" /\ u[2 * W + 4 + F].type = "END"
  BY DEF Selection, SelectTable, SelectList
<1>2. /\ F = 0 => u[2 * W + 3].type = ";" /\ u[2 * W + 4].type = "END"
      /\ F = 4 => u[2 * W + 7].type = ";" /\ u[2 * W + 8].type = "END"
  <2>1. /\ F = 0 => 2 * W + 3 + F = 2 * W + 3 /\ 2 * W + 4 + F = 2 * W + 4
        /\ F = 4 => 2 * W + 3 + F = 2 * W + 7 /\ 2 * W + 4 + F = 2 * W + 8
    <3>1. W \in Nat
      BY <1>1
    <3> QED
      BY ONLY <3>1
  <2> QED
    BY <1>1, <2>1
<1>3. ASSUME SelectTable(u, w) PROVE w = W
  <2>1. w \in Nat \ {0} /\ SelectList(u, w) /\ u[2 * w + 1].type # ","
    BY <1>3 DEF SelectTable, SelectList, Parser!IsWord
  <2> QED
    BY <2>1, ItemsMeet
<1>4. ASSUME w = W, Parser!IsWord(u[2 * w + 3], "WHERE")
      PROVE  F = 4 /\ SelectFilter(u, w)
  BY <1>1, <1>2, <1>4 DEF Parser!IsWord
<1>5. ASSUME w = W, ~Parser!IsWord(u[2 * w + 3], "WHERE")
      PROVE  F = 0
  BY <1>1, <1>5 DEF SelectFilter
<1>6. CASE p = "selectList"
  <2>1. k = 2
    BY <1>6 DEF SelectRead
  <2>2. u[2].type = "*" \/ Parser!IsName(u[2])
    <3>1. CASE u[2].type = "*"
      BY <3>1
    <3>2. CASE ItemsFrom(u, 2, W, NameTypes)
      <4>1. PICK a : a = 2
        OBVIOUS
      <4>2. 0 \in Nat /\ 0 < W /\ a + 2 * 0 = 2 /\ a \in Nat /\ W \in Nat
        <5>1. W \in Nat \ {0}
          BY <1>1
        <5> QED
          BY ONLY <4>1, <5>1
      <4>3. u[a + 2 * 0].type \in NameTypes
        BY <3>2, <4>1, <4>2, ItemAt
      <4> QED
        BY <4>2, <4>3 DEF NameTypes, Parser!IsName
    <3> QED
      BY <3>1, <3>2 DEF Selection, SelectTable, SelectList
  <2> QED
    BY <1>6, <2>1, <2>2 DEF FitsAt
<1>7. CASE p = "column"
  <2>1. /\ n = 2 * w + 1 /\ w \in Nat \ {0}
        /\ ItemsFrom(u, 2, w, NameTypes) /\ CommasFrom(u, 2, w)
    BY <1>7 DEF SelectRead
  <2>2. k = 2 * w + 2
    BY ONLY <2>1, k = n + 1, w \in Nat
  <2> QED
    BY <1>7, <2>1, <2>2, ItemsMeet DEF FitsAt
<1>8. CASE p = "from"
  <2>1. n = 2 * w /\ SelectList(u, w) /\ (u[2].type # "*" => u[2 * w + 1].type # ",")
    BY <1>8 DEF SelectRead
  <2>2. k = 2 * w + 1
    BY ONLY <2>1, k = n + 1, w \in Nat
  <2>3. w \in Nat \ {0}
    BY <2>1 DEF SelectList
  <2>4. w = W
    BY <2>1, <2>3, ItemsMeet
  <2> QED
    BY <1>1, <1>8, <2>2, <2>4 DEF FitsAt
<1>9. CASE p = "table"
  <2>1. n = 2 * w + 1 /\ SelectList(u, w) /\ Parser!IsWord(u[2 * w + 1], "FROM")
    BY <1>9 DEF SelectRead
  <2>2. k = 2 * w + 2
    BY ONLY <2>1, k = n + 1, w \in Nat
  <2>3. w \in Nat \ {0} /\ u[2 * w + 1].type # ","
    BY <2>1 DEF SelectList, Parser!IsWord
  <2>4. w = W
    BY <2>1, <2>3, ItemsMeet
  <2> QED
    BY <1>1, <1>9, <2>2, <2>4 DEF FitsAt
<1>10. CASE p \in {"whereColumn", "equals", "whereValue"}
  <2>1. /\ SelectTable(u, w) /\ Parser!IsWord(u[2 * w + 3], "WHERE")
        /\ p = "whereColumn" => n = 2 * w + 3
        /\ p = "equals" => n = 2 * w + 4
        /\ p = "whereValue" => n = 2 * w + 5
    BY <1>10 DEF SelectRead
  <2>2. w = W
    BY <1>3, <2>1
  <2>3. SelectFilter(u, w)
    BY <1>4, <2>1, <2>2
  <2>4. /\ p = "whereColumn" => k = 2 * w + 4
        /\ p = "equals" => k = 2 * w + 5
        /\ p = "whereValue" => k = 2 * w + 6
    BY ONLY <2>1, k = n + 1, w \in Nat
  <2> QED
    BY <1>10, <2>3, <2>4 DEF FitsAt, SelectFilter
<1>11. CASE p = "connector?"
  <2>1. n = 2 * w + 6 /\ SelectTable(u, w) /\ Parser!IsWord(u[2 * w + 3], "WHERE")
    BY <1>11 DEF SelectRead, SelectFilter
  <2>2. w = W
    BY <1>3, <2>1
  <2>3. F = 4
    BY <1>4, <2>1, <2>2
  <2>4. k = 2 * w + 7
    BY ONLY <2>1, k = n + 1, w \in Nat
  <2> QED
    BY <1>2, <1>11, <2>2, <2>3, <2>4 DEF FitsAt
<1>12. CASE p \in {"semicolon", "end"}
  <2>1. /\ SelectTable(u, w) /\ (f = 4 => SelectFilter(u, w))
        /\ p = "semicolon" => n = 2 * w + 2 + f
        /\ p = "end" => n = 2 * w + 3 + f /\ u[2 * w + 3 + f].type = ";"
        /\ p = "semicolon" /\ f = 0 => ~Parser!IsWord(u[2 * w + 3], "WHERE")
    BY <1>12 DEF SelectRead
  <2>2. w = W
    BY <1>3, <2>1
  <2>3. CASE f = 4
    <3>1. F = 4
      BY <1>4, <2>1, <2>2, <2>3 DEF SelectFilter
    <3>2. (p = "semicolon" => k = 2 * w + 7) /\ (p = "end" => k = 2 * w + 8)
      <4>1. (p = "semicolon" => n = 2 * w + 2 + f) /\ (p = "end" => n = 2 * w + 3 + f)
        BY <2>1, Zenon
      <4> QED
        BY ONLY <2>3, <4>1, k = n + 1, w \in Nat
    <3> QED
      BY <1>2, <1>12, <2>2, <3>1, <3>2 DEF FitsAt
  <2>4. CASE f = 0
    <3>1. ~Parser!IsWord(u[2 * w + 3], "WHERE")
      <4>1. CASE p = "end"
        <5>1. u[2 * w + 3 + f].type = ";"
          BY <2>1, <4>1, Zenon
        <5>2. 2 * w + 3 + f = 2 * w + 3
          BY ONLY <2>4, w \in Nat
        <5> QED
          BY <5>1, <5>2 DEF Parser!IsWord
      <4> QED
        BY <1>12, <2>1, <2>4, <4>1, Zenon
    <3>2. F = 0
      BY <1>5, <2>2, <3>1
    <3>3. (p = "semicolon" => k = 2 * w + 3) /\ (p = "end" => k = 2 * w + 4)
      <4>1. (p = "semicolon" => n = 2 * w + 2 + f) /\ (p = "end" => n = 2 * w + 3 + f)
        BY <2>1, Zenon
      <4> QED
        BY ONLY <2>4, <4>1, k = n + 1, w \in Nat
    <3> QED
      BY <1>2, <1>12, <2>2, <3>2, <3>3 DEF FitsAt
  <2> QED
    BY <2>3, <2>4
<1>13. CASE p \in {"where", "moreColumns"}
  BY <1>13 DEF FitsAt
<1>14. p \notin {"statement", "into", "columnsOpen", "columnsClose", "valuesWord", "valuesOpen",
                 "value", "moreValues", "valuesClose"}
  BY DEF SelectRead
<1>15. p \in {"selectList", "column", "from", "table", "whereColumn", "equals", "whereValue",
              "connector?", "semicolon", "end", "where", "moreColumns"}
  BY <1>14 DEF Reading, ParsePlaces, ParseEnds, InsertPlaces, SelectPlaces, ColumnPlaces,
               Parser!Answers
<1> QED
  BY <1>6, <1>7, <1>8, <1>9, <1>10, <1>11, <1>12, <1>13, <1>15

-----------------------------------------------------------------------------
(* What is refused.                                                        *)

\* The ends that are tried are parts of token arrays.
LEMMA ModelsAre ==
  ASSUME NEW model \in Parser!Models
  PROVE  \E X : model \in Seq(X)
<1>1. CASE model = <<Parser!Word("INSERT"), Parser!Word("INTO"), Parser!AName, Parser!Mark("("),
                     Parser!AName, Parser!Mark(")"), Parser!Word("VALUES"), Parser!Mark("("),
                     Parser!AName, Parser!Mark(")"), Parser!Mark(";"), Parser!Mark("END")>>
  <2>1. PICK a, b, c, d, e, f, g, h :
          /\ a = Parser!Word("INSERT") /\ b = Parser!Word("INTO") /\ c = Parser!AName
          /\ d = Parser!Mark("(") /\ e = Parser!Mark(")") /\ f = Parser!Word("VALUES")
          /\ g = Parser!Mark(";") /\ h = Parser!Mark("END")
    OBVIOUS
  <2>2. model = <<a, b, c, d, c, e, f, d, c, e, g, h>>
    BY <1>1, <2>1
  <2>3. <<a, b, c, d, c, e, f, d, c, e, g, h>> \in Seq({a, b, c, d, e, f, g, h})
    OBVIOUS
  <2> QED
    BY <2>2, <2>3
<1>2. CASE model = <<Parser!Word("SELECT"), Parser!AName, Parser!Word("FROM"), Parser!AName,
                     Parser!Word("WHERE"), Parser!AName, Parser!Mark("="), Parser!AName,
                     Parser!Mark(";"), Parser!Mark("END")>>
  <2>1. PICK a, b, c, d, e, g, h :
          /\ a = Parser!Word("SELECT") /\ b = Parser!AName /\ c = Parser!Word("FROM")
          /\ d = Parser!Word("WHERE") /\ e = Parser!Mark("=")
          /\ g = Parser!Mark(";") /\ h = Parser!Mark("END")
    OBVIOUS
  <2>2. model = <<a, b, c, b, d, b, e, b, g, h>>
    BY <1>2, <2>1
  <2>3. <<a, b, c, b, d, b, e, b, g, h>> \in Seq({a, b, c, d, e, g, h})
    OBVIOUS
  <2> QED
    BY <2>2, <2>3
<1> QED
  BY <1>1, <1>2 DEF Parser!Models

LEMMA EndingType ==
  ASSUME NEW rest \in Parser!Endings
  PROVE  \E X : rest \in Seq(X)
<1>1. PICK model \in Parser!Models :
        \E i \in 1..(Len(model) + 1) : rest = SubSeq(model, i, Len(model))
  BY DEF Parser!Endings
<1>2. PICK i \in 1..(Len(model) + 1) : rest = SubSeq(model, i, Len(model))
  BY <1>1
<1>3. PICK X : model \in Seq(X)
  BY ModelsAre
<1>4. PICK n : n = Len(model)
  OBVIOUS
<1>5. i \in Int /\ n \in Int /\ \A j \in i..n : model[j] \in X
  <2>1. n \in Nat /\ \A j \in 1..n : model[j] \in X
    BY <1>3, <1>4
  <2>2. i \in 1..(n + 1)
    BY <1>4
  <2>3. i \in Int /\ n \in Int /\ i..n \subseteq 1..n
    BY <2>1, <2>2
  <2> QED
    BY <2>1, <2>3
<1>6. SubSeq(model, i, n) \in Seq(X)
  BY ONLY <1>5, SubSeqProperties
<1> QED
  BY <1>4, <1>6, <1>2

LEMMA StatementIs ==
  ASSUME NEW X, NEW u \in Seq(X), Parser!IsStatement(u)
  PROVE  \/ \E m, v : Insertion(u, m, v)
         \/ \E w, f : Selection(u, w, f)
<1>1. PICK i : Parser!InsertForm(u, i) \/ Parser!SelectForm(u, i)
  BY DEF Parser!IsStatement
<1> QED
  BY <1>1, InsertFormIs, SelectFormIs

\* An INSERT is no SELECT.
LEMMA FirstWord ==
  ASSUME NEW u
  PROVE  /\ (\E m, v : Insertion(u, m, v)) => Parser!IsWord(u[1], "INSERT")
         /\ (\E w, f : Selection(u, w, f)) => Parser!IsWord(u[1], "SELECT")
         /\ ~(Parser!IsWord(u[1], "INSERT") /\ Parser!IsWord(u[1], "SELECT"))
<1>1. ASSUME NEW m, NEW v, Insertion(u, m, v) PROVE Parser!IsWord(u[1], "INSERT")
  BY <1>1 DEF Insertion, InsertHead
<1>2. ASSUME NEW w, NEW f, Selection(u, w, f) PROVE Parser!IsWord(u[1], "SELECT")
  BY <1>2 DEF Selection, SelectTable, SelectList
<1>3. ~(Parser!IsWord(u[1], "INSERT") /\ Parser!IsWord(u[1], "SELECT"))
  BY DEF Parser!IsWord
<1> QED
  BY <1>1, <1>2, <1>3

LEMMA InsertBegun ==
  ASSUME NEW p \in Reading \ {"statement"}, NEW s, NEW n, NEW m, NEW v, InsertRead(p, s, n, m, v)
  PROVE  Parser!IsWord(s[1], "INSERT")
<1>1. p \notin {"selectList", "from", "where", "whereColumn", "equals", "whereValue", "connector?"}
  BY DEF InsertRead
<1>2. p \in {"into", "table", "columnsOpen", "column", "pushColumn", "columnsClose", "valuesWord",
             "valuesOpen", "value", "valuesClose", "semicolon", "end", "moreColumns", "moreValues"}
  BY <1>1 DEF Reading, ParsePlaces, ParseEnds, InsertPlaces, SelectPlaces, ColumnPlaces,
              Parser!Answers
<1>3. CASE p \in {"into", "table", "columnsOpen"}
  BY <1>3 DEF InsertRead
<1>4. CASE p \in {"column", "pushColumn", "columnsClose", "moreColumns"}
  <2>1. \E i : ColumnsRead(s, m, i)
    BY <1>4 DEF InsertRead
  <2> QED
    BY <2>1 DEF ColumnsRead, InsertHead
<1>5. CASE p \in {"valuesWord", "valuesOpen"}
  <2>1. ColumnsClosed(s, m)
    BY <1>5 DEF InsertRead
  <2> QED
    BY <2>1 DEF ColumnsClosed, ColumnsRead, InsertHead
<1>6. CASE p \in {"value", "moreValues", "valuesClose", "semicolon", "end"}
  <2>1. \E i : ValuesRead(s, m, v, i)
    BY <1>6 DEF InsertRead, ValuesClosed
  <2> QED
    BY <2>1 DEF ValuesRead, ColumnsClosed, ColumnsRead, InsertHead
<1> QED
  BY <1>2, <1>3, <1>4, <1>5, <1>6

LEMMA SelectBegun ==
  ASSUME NEW p \in Reading, NEW s, NEW n, NEW w, NEW f, SelectRead(p, s, n, w, f)
  PROVE  Parser!IsWord(s[1], "SELECT")
<1>1. p \notin {"statement", "into", "columnsOpen", "columnsClose", "valuesWord", "valuesOpen",
                 "value", "moreValues", "valuesClose"}
  BY DEF SelectRead
<1>2. p \in {"selectList", "column", "pushColumn", "from", "table", "whereColumn", "equals",
             "whereValue", "connector?", "semicolon", "end", "where", "moreColumns"}
  BY <1>1 DEF Reading, ParsePlaces, ParseEnds, InsertPlaces, SelectPlaces, ColumnPlaces,
              Parser!Answers
<1>3. CASE p \in {"selectList", "column", "pushColumn"}
  BY <1>3 DEF SelectRead
<1>4. CASE p \in {"from", "table", "moreColumns"}
  <2>1. SelectList(s, w)
    BY <1>4 DEF SelectRead
  <2> QED
    BY <2>1 DEF SelectList
<1>5. CASE p \in {"where", "whereColumn", "equals", "whereValue", "connector?", "semicolon", "end"}
  <2>1. SelectTable(s, w)
    BY <1>5 DEF SelectRead
  <2> QED
    BY <2>1 DEF SelectTable, SelectList
<1> QED
  BY <1>2, <1>3, <1>4, <1>5

\* A statement that begins with the tokens looked at has one next that fits.
LEMMA StatementGoesOn ==
  ASSUME NEW p, NEW s, NEW n, NEW k, NEW t, NEW st, NEW word, Looking(p, s, n, k, t, st, word),
         p # "pushColumn", st.type \in {"INSERT", "SELECT"}, p = "statement" => st.type = "INSERT",
         NEW X, NEW u \in Seq(X), Extends(u, s), Parser!IsStatement(u)
  PROVE  FitsAt(p, t)
<1>1. /\ p \in Reading \ {"pushColumn"} /\ n \in Nat /\ k = n + 1 /\ Len(s) = k /\ s[k] = t
      /\ p # "ok"
  BY DEF Looking, Reading, ParseEnds, Parser!Answers
<1>2. u[k] = t /\ u[1] = s[1] /\ n <= Len(s)
  <2>1. \A j \in 1..k : u[j] = s[j]
    BY <1>1 DEF Extends
  <2>2. k \in 1..k /\ 1 \in 1..k /\ n <= k
    BY ONLY <1>1
  <2> QED
    BY <1>1, <2>1, <2>2
<1>3. (\E m, v : Insertion(u, m, v)) \/ (\E w, f : Selection(u, w, f))
  BY StatementIs
<1>4. CASE p = "statement"
  BY <1>1, <1>2, <1>3, <1>4, FirstWord DEF FitsAt, Looking, Stands, InsertRead
<1>5. CASE st.type = "INSERT" /\ p # "statement"
  <2>1. PICK m, v : m = Len(st.columns) /\ v = Len(st.values)
    OBVIOUS
  <2>2. m \in Nat /\ v \in Nat /\ InsertRead(p, s, n, m, v)
    BY <1>5, <2>1, LookingInsert DEF InsertReading
  <2>3. InsertRead(p, u, n, m, v)
    BY <1>1, <1>2, <2>2, InsertReadKept
  <2>4. Parser!IsWord(u[1], "INSERT")
    BY <1>1, <1>5, <2>3, InsertBegun
  <2>5. PICK M, V : Insertion(u, M, V)
    BY <1>3, <2>4, FirstWord
  <2> QED
    BY <1>1, <1>2, <2>2, <2>3, <2>5, InsertFollows
<1>6. CASE st.type = "SELECT" /\ p # "statement"
  <2>1. PICK w, f : w = Width(st) /\ f = FilterLength(st)
    OBVIOUS
  <2>2. w \in Nat /\ f \in {0, 4} /\ SelectRead(p, s, n, w, f)
    BY <1>6, <2>1, LookingSelect, WidthType DEF SelectReading, Looking
  <2>3. SelectRead(p, u, n, w, f)
    BY <1>1, <1>2, <2>2, SelectReadKept
  <2>4. Parser!IsWord(u[1], "SELECT")
    BY <1>1, <2>3, SelectBegun
  <2>5. PICK W, F : Selection(u, W, F)
    BY <1>3, <2>4, FirstWord
  <2> QED
    BY <1>1, <1>2, <2>2, <2>3, <2>5, SelectFollows
<1> QED
  BY <1>4, <1>5, <1>6

LEMMA RefusedToken ==
  ASSUME ParseInv, ParseStands, pc \in Reading \ {"pushColumn"},
         NEW t \in Parser!Token, Parser!Current(t), ~FitsAt(pc, t)
  PROVE  ~Parser!MayBecomeStatement(tokens')
<1>1. PICK p, s, n, k, st, word : Looking(p, s, n, k, t, st, word)
  BY LookingIs
<1>2. /\ pc = p /\ tokens' = s /\ statement = st /\ Len(s) = k /\ k = n + 1 /\ n \in Nat
      /\ p # "pushColumn"
  BY <1>1 DEF Looking
<1>3. st.type \in {"INSERT", "SELECT"} /\ (p = "statement" => st.type = "INSERT")
  BY <1>2 DEF ParseInv, ParseTree, StatementType, Parser!EmptyStatement
<1>4. s \in Seq(Parser!Token)
  BY <1>1, <1>2, LookStands DEF LookedAt
<1>5. ASSUME NEW rest \in Parser!Endings, Parser!IsStatement(s \o rest) PROVE FALSE
  <2>1. PICK Y : rest \in Seq(Y)
    BY EndingType
  <2>2. PICK X : X = Parser!Token \cup Y
    OBVIOUS
  <2>3. s \in Seq(X) /\ rest \in Seq(X)
    BY <1>4, <2>1, <2>2
  <2>4. PICK u : u = s \o rest
    OBVIOUS
  <2>5. Joins(u, s, rest, X)
    BY <2>3, <2>4, ConcatJoins
  <2>6. u \in Seq(X) /\ Len(u) = Len(s) + Len(rest) /\ Len(s) \in Nat /\ Len(rest) \in Nat
        /\ \A j \in 1..Len(s) : u[j] = s[j]
    BY <2>5 DEF Joins
  <2>7. Len(u) \in Nat /\ Len(u) >= Len(s)
    BY ONLY <2>6
  <2>8. Extends(u, s)
    BY <2>6, <2>7 DEF Extends
  <2>9. Parser!IsStatement(u)
    BY <1>5, <2>4
  <2>10. FitsAt(p, t)
    BY <1>1, <1>2, <1>3, <2>6, <2>8, <2>9, StatementGoesOn
  <2> QED
    BY <1>2, <2>10
<1>6. ~Parser!MayBecomeStatement(s)
  BY <1>5 DEF Parser!MayBecomeStatement
<1> QED
  BY <1>2, <1>6

\* What the code compares a token with is what fits.
LEMMA FitsIs ==
  ASSUME NEW t, FitsAt(pc, t), pc \in DOMAIN Parser!After \cup Parser!NamePlaces
  PROVE  Parser!Fits(t)
<1>1. pc \in {"into", "valuesWord", "from", "columnsOpen", "columnsClose", "valuesOpen",
              "valuesClose", "equals", "semicolon", "end", "table", "column", "whereColumn",
              "selectList", "value", "whereValue"}
  BY DEF Parser!After, Parser!NamePlaces
<1>2. CASE pc \in {"into", "valuesWord", "from"}
  <2>1. /\ DOMAIN Parser!ExpectedWord = {"into", "valuesWord", "from"}
        /\ Parser!ExpectedWord["into"] = "INTO" /\ Parser!ExpectedWord["valuesWord"] = "VALUES"
        /\ Parser!ExpectedWord["from"] = "FROM"
    BY DEF Parser!ExpectedWord
  <2>2. pc \in DOMAIN Parser!ExpectedWord /\ Parser!IsWord(t, Parser!ExpectedWord[pc])
    BY <1>2, <2>1 DEF FitsAt
  <2> QED
    BY <2>2 DEF Parser!Fits
<1>3. CASE pc \in {"columnsOpen", "columnsClose", "valuesOpen", "valuesClose", "equals",
                   "semicolon", "end"}
  <2>1. /\ DOMAIN Parser!ExpectedMark =
             {"columnsOpen", "columnsClose", "valuesOpen", "valuesClose", "equals",
              "semicolon", "end"}
        /\ Parser!ExpectedMark["columnsOpen"] = "(" /\ Parser!ExpectedMark["columnsClose"] = ")"
        /\ Parser!ExpectedMark["valuesOpen"] = "(" /\ Parser!ExpectedMark["valuesClose"] = ")"
        /\ Parser!ExpectedMark["equals"] = "=" /\ Parser!ExpectedMark["semicolon"] = ";"
        /\ Parser!ExpectedMark["end"] = "END"
    BY DEF Parser!ExpectedMark
  <2>2. pc \in DOMAIN Parser!ExpectedMark /\ t.type = Parser!ExpectedMark[pc]
    BY <1>3, <2>1 DEF FitsAt
  <2> QED
    BY <2>2 DEF Parser!Fits
<1>4. CASE pc \in {"table", "column", "whereColumn", "selectList"}
  BY <1>4 DEF FitsAt, Parser!Fits
<1>5. CASE pc \in {"value", "whereValue"}
  BY <1>5 DEF FitsAt, Parser!Fits, Parser!IsValue, ValueTypes
<1> QED
  BY <1>1, <1>2, <1>3, <1>4, <1>5

\* A filter that is read up to its value does not depend on what follows.
LEMMA FilterKept ==
  ASSUME NEW s, NEW u, NEW w \in Nat \ {0}, NEW n, n = 2 * w + 6, \A j \in 1..n : u[j] = s[j],
         SelectTable(s, w), SelectFilter(s, w)
  PROVE  SelectTable(u, w) /\ SelectFilter(u, w)
<1>1. /\ 1 \in 1..n /\ 2 \in 1..n /\ 2 * w + 1 \in 1..n /\ 2 * w + 2 \in 1..n
      /\ 2 * w + 3 \in 1..n /\ 2 * w + 4 \in 1..n /\ 2 * w + 5 \in 1..n /\ 2 * w + 6 \in 1..n
  BY ONLY n = 2 * w + 6, w \in Nat \ {0}
<1>2. /\ u[1] = s[1] /\ u[2] = s[2] /\ u[2 * w + 1] = s[2 * w + 1]
      /\ u[2 * w + 2] = s[2 * w + 2] /\ u[2 * w + 3] = s[2 * w + 3]
      /\ u[2 * w + 4] = s[2 * w + 4] /\ u[2 * w + 5] = s[2 * w + 5]
      /\ u[2 * w + 6] = s[2 * w + 6]
  BY <1>1
<1>3. ASSUME ItemsFrom(s, 2, w, NameTypes) PROVE ItemsFrom(u, 2, w, NameTypes)
  <2>1. PICK a : a = 2
    OBVIOUS
  <2>2. ASSUME NEW i \in 1..w PROVE u[a + 2 * i - 2].type \in NameTypes
    <3>1. a + 2 * i - 2 \in 1..n
      BY ONLY <2>1, n = 2 * w + 6, w \in Nat \ {0}, i \in 1..w
    <3> QED
      BY <1>3, <2>1, <3>1 DEF ItemsFrom
  <2> QED
    BY <2>1, <2>2 DEF ItemsFrom
<1>4. ASSUME CommasFrom(s, 2, w - 1) PROVE CommasFrom(u, 2, w - 1)
  <2>1. PICK a : a = 2
    OBVIOUS
  <2>2. ASSUME NEW i \in 1..(w - 1) PROVE u[a + 2 * i - 1].type = ","
    <3>1. a + 2 * i - 1 \in 1..n
      BY ONLY <2>1, n = 2 * w + 6, w \in Nat \ {0}, i \in 1..(w - 1)
    <3> QED
      BY <1>4, <2>1, <3>1 DEF CommasFrom
  <2> QED
    BY <2>1, <2>2 DEF CommasFrom
<1>5. SelectTable(u, w)
  BY <1>2, <1>3, <1>4, Zenon DEF SelectTable, SelectList
<1>6. SelectFilter(u, w)
  BY <1>2, Zenon DEF SelectFilter
<1> QED
  BY <1>5, <1>6

\* A filter that AND or OR would go on could have ended there.
LEMMA FilterComplete ==
  ASSUME ParseInv, ParseStands, pc = "connector?", NEW t \in Parser!Token, Parser!Current(t)
  PROVE  /\ Parser!MayBecomeStatement(SubSeq(tokens', 1, Len(tokens') - 1)) /\ Len(tokens') > 6
         /\ Parser!IsWord(tokens'[Len(tokens') - 4], "WHERE")
<1>0. pc \in Reading
  BY DEF Reading, ParsePlaces, SelectPlaces, ParseEnds, Parser!Answers
<1>1. PICK p, s, n, k, st, word : Looking(p, s, n, k, t, st, word)
  BY <1>0, LookingIs
<1>2. /\ p = "connector?" /\ tokens' = s /\ statement = st /\ Len(s) = k /\ k = n + 1
      /\ n \in Nat
  BY <1>1 DEF Looking
<1>3. st.type = "SELECT"
  BY <1>2 DEF ParseInv, ParseTree, SelectPlaces
<1>4. s \in Seq(Parser!Token)
  BY <1>0, <1>1, <1>2, LookStands DEF LookedAt
<1>5. PICK w : w = Width(st)
  OBVIOUS
<1>6. w \in Nat /\ SelectTree(p, s, n, w, st, word) /\ SelectRead(p, s, n, w, FilterLength(st))
  BY <1>1, <1>3, <1>5, LookingSelect, WidthType DEF SelectReading, Looking
<1>7. n = 2 * w + 6 /\ SelectTable(s, w) /\ SelectFilter(s, w)
  BY <1>2, <1>6 DEF SelectRead
<1>8. w # 0 /\ Parser!IsWord(s[2 * w + 3], "WHERE")
  BY <1>7 DEF SelectTable, SelectList, SelectFilter
<1>9. Len(s) = 2 * w + 7 /\ Len(s) > 6 /\ Len(s) - 4 = 2 * w + 3 /\ k - 1 = n
  <2>1. n = 2 * w + 6
    BY <1>7
  <2>2. w # 0
    BY <1>8
  <2>3. w \in Nat
    BY <1>6
  <2> QED
    BY ONLY <1>2, <2>1, <2>2, <2>3
<1>10. PICK r : r = SubSeq(s, 1, n)
  OBVIOUS
<1>11. SubSeq(s, 1, Len(s) - 1) = r
  BY <1>2, <1>9, <1>10
<1>12. r \in Seq(Parser!Token) /\ Len(r) = n /\ \A j \in 1..n : r[j] = s[j]
  BY <1>2, <1>4, <1>10
<1>13. PICK a, b : a = Parser!Mark(";") /\ b = Parser!Mark("END")
  OBVIOUS
<1>14. a.type = ";" /\ b.type = "END"
  BY <1>13 DEF Parser!Mark
<1>15. <<a, b>> \in Parser!Endings
  <2>1. PICK c, d, e, f, g :
          /\ c = Parser!Word("SELECT") /\ d = Parser!AName /\ e = Parser!Word("FROM")
          /\ f = Parser!Word("WHERE") /\ g = Parser!Mark("=")
    OBVIOUS
  <2>2. PICK model : model = <<c, d, e, d, f, d, g, d, a, b>>
    OBVIOUS
  <2>3. model \in Parser!Models
    BY <1>13, <2>1, <2>2 DEF Parser!Models
  <2>4. PICK X : X = {a, b, c, d, e, f, g}
    OBVIOUS
  <2>5. model \in Seq(X) /\ Len(model) = 10 /\ model[9] = a /\ model[10] = b
    BY <2>2, <2>4
  <2>6. PICK i, j : i = 9 /\ j = 10
    OBVIOUS
  <2>7. i \in Int /\ j \in Int /\ (\A h \in i..j : model[h] \in X)
    <3>1. i \in Int /\ j \in Int /\ \A h \in i..j : h = 9 \/ h = 10
      BY ONLY <2>6
    <3>2. model[9] \in X /\ model[10] \in X
      BY <2>4, <2>5
    <3> QED
      BY <3>1, <3>2
  <2>8. /\ SubSeq(model, i, j) \in Seq(X)
        /\ Len(SubSeq(model, i, j)) = IF i <= j THEN j - i + 1 ELSE 0
        /\ \A h \in 1..(j - i + 1) : SubSeq(model, i, j)[h] = model[i + h - 1]
    BY ONLY <2>7, SubSeqProperties
  <2>9. PICK q : q = SubSeq(model, i, j)
    OBVIOUS
  <2>10. q \in Seq(X) /\ Len(q) = 2 /\ q[1] = a /\ q[2] = b
    BY <2>5, <2>6, <2>8, <2>9
  <2>11. <<a, b>> \in Seq(X) /\ Len(<<a, b>>) = 2 /\ <<a, b>>[1] = a /\ <<a, b>>[2] = b
    BY <2>4
  <2>12. \A h \in 1..2 : q[h] = <<a, b>>[h]
    BY <2>10, <2>11
  <2>13. q = <<a, b>>
    BY <2>10, <2>11, <2>12, SeqEqual
  <2>14. i \in 1..(Len(model) + 1) /\ q = SubSeq(model, i, Len(model))
    BY <2>5, <2>6, <2>9
  <2>15. q \in {SubSeq(model, h, Len(model)) : h \in 1..(Len(model) + 1)}
    BY <2>14
  <2>16. q \in Parser!Endings
    BY <2>3, <2>15, Zenon DEF Parser!Endings
  <2> QED
    BY <2>13, <2>16
<1>16. PICK X : X = Parser!Token \cup {a, b}
  OBVIOUS
<1>17. r \in Seq(X) /\ <<a, b>> \in Seq(X)
  <2>1. <<a, b>> \in Seq(X)
    BY <1>16
  <2> QED
    BY <1>12, <1>16, <2>1
<1>18. PICK u, rest : rest = <<a, b>> /\ u = r \o rest
  OBVIOUS
<1>19. Joins(u, r, rest, X)
  BY <1>17, <1>18, ConcatJoins
<1>20. Len(rest) = 2 /\ rest[1] = a /\ rest[2] = b
  BY <1>18
<1>21. /\ u \in Seq(X) /\ Len(u) = n + 2 /\ (\A j \in 1..n : u[j] = r[j])
       /\ u[n + 1] = a /\ u[n + 2] = b
  BY <1>12, <1>19, <1>20 DEF Joins
<1>22. SelectTable(u, w) /\ SelectFilter(u, w)
  <2>1. \A j \in 1..n : u[j] = s[j]
    BY <1>12, <1>21
  <2>2. w \in Nat \ {0}
    BY <1>6, <1>8
  <2> QED
    BY <1>7, <2>1, <2>2, FilterKept
<1>23. Selection(u, w, 4)
  <2>1. n = 2 * w + 6 /\ w \in Nat
    BY <1>6, <1>7
  <2>2. 2 * w + 4 + 4 = n + 2 /\ 2 * w + 3 + 4 = n + 1
    BY ONLY <2>1
  <2> QED
    BY <1>14, <1>21, <1>22, <2>2 DEF Selection
<1>24. PICK i : i = 2 * w + 1
  OBVIOUS
<1>25. Parser!SelectForm(u, i)
  BY <1>21, <1>23, <1>24, SelectFormIs
<1>26. i \in 1..Len(u)
  <2>1. n = 2 * w + 6 /\ w \in Nat /\ Len(u) = n + 2
    BY <1>6, <1>7, <1>21
  <2> QED
    BY ONLY <1>24, <2>1
<1>27. Parser!IsStatement(u)
  BY <1>25, <1>26 DEF Parser!IsStatement
<1>28. Parser!MayBecomeStatement(r)
  BY <1>15, <1>18, <1>27 DEF Parser!MayBecomeStatement
<1> QED
  BY <1>2, <1>8, <1>9, <1>11, <1>28

\* Where nothing is refused, nothing is claimed.
LEMMA NothingRefused ==
  ASSUME pc' \notin {"unsupported", "expected", "connector"}
  PROVE  Parser!RefusedIsHopeless'
BY DEF Parser!RefusedIsHopeless

LEMMA UnsupportedIsHopeless ==
  ASSUME ParseInv, ParseStands, Parser!Unsupported
  PROVE  Parser!RefusedIsHopeless'
<1>1. PICK t \in Parser!Token :
        Parser!Current(t) /\ ~Parser!IsWord(t, "INSERT") /\ ~Parser!IsWord(t, "SELECT")
  BY DEF Parser!Unsupported
<1>2. pc = "statement" /\ pc \in Reading \ {"pushColumn"} /\ pc' = "unsupported"
  BY DEF Parser!Unsupported, Reading, ParsePlaces, ParseEnds, Parser!Answers
<1>3. ~FitsAt(pc, t)
  BY <1>1, <1>2 DEF FitsAt
<1>4. ~Parser!MayBecomeStatement(tokens')
  BY <1>1, <1>2, <1>3, RefusedToken
<1> QED
  BY <1>2, <1>4 DEF Parser!RefusedIsHopeless

LEMMA ExpectedIsHopeless ==
  ASSUME ParseInv, ParseStands, Parser!Expected
  PROVE  Parser!RefusedIsHopeless'
<1>1. PICK t \in Parser!Token : Parser!Current(t) /\ ~Parser!Fits(t)
  BY DEF Parser!Expected
<1>2. pc \in DOMAIN Parser!After \cup Parser!NamePlaces /\ pc' = "expected"
  BY DEF Parser!Expected, Parser!Fail
<1>3. pc \in Reading \ {"pushColumn"}
  BY <1>2 DEF Parser!After, Parser!NamePlaces, Reading, ParsePlaces, InsertPlaces, SelectPlaces,
              ColumnPlaces, ParseEnds, Parser!Answers
<1>4. ~FitsAt(pc, t)
  BY <1>1, <1>2, FitsIs
<1>5. ~Parser!MayBecomeStatement(tokens')
  BY <1>1, <1>3, <1>4, RefusedToken
<1> QED
  BY <1>2, <1>5 DEF Parser!RefusedIsHopeless

LEMMA ConnectorIsHopeless ==
  ASSUME ParseInv, ParseStands, Parser!Connector
  PROVE  Parser!RefusedIsHopeless'
<1>1. PICK t \in Parser!Token : Parser!Current(t) /\ Parser!Connects(t)
  BY DEF Parser!Connector
<1>2. pc = "connector?" /\ pc \in Reading \ {"pushColumn"}
  BY DEF Parser!Connector, Reading, ParsePlaces, SelectPlaces, ParseEnds, Parser!Answers
<1>3. ~FitsAt(pc, t)
  BY <1>1, <1>2 DEF FitsAt, Parser!Connects, Parser!IsWord
<1>4. ~Parser!MayBecomeStatement(tokens')
  BY <1>1, <1>2, <1>3, RefusedToken
<1>5. /\ Parser!MayBecomeStatement(SubSeq(tokens', 1, Len(tokens') - 1)) /\ Len(tokens') > 6
      /\ Parser!IsWord(tokens'[Len(tokens') - 4], "WHERE")
  BY <1>1, <1>2, FilterComplete
<1> QED
  BY <1>4, <1>5 DEF Parser!RefusedIsHopeless

LEMMA RefusedInit == Parser!Init => Parser!RefusedIsHopeless
BY DEF Parser!Init, Parser!RefusedIsHopeless

LEMMA RefusedStep ==
  ASSUME ParseInv, ParseStands, Parser!Next
  PROVE  Parser!RefusedIsHopeless'
<1>1. CASE Parser!Unsupported
  BY <1>1, UnsupportedIsHopeless
<1>2. CASE Parser!Expected
  BY <1>2, ExpectedIsHopeless
<1>3. CASE Parser!Connector
  BY <1>3, ConnectorIsHopeless
<1>4. CASE Parser!Dispatch \/ Parser!Star \/ Parser!TableName \/ Parser!WhereColumn
  BY <1>4, NothingRefused
     DEF Parser!Dispatch, Parser!Star, Parser!TableName, Parser!WhereColumn, Parser!Name
<1>5. CASE Parser!Fixed
  BY <1>5, NothingRefused DEF Parser!Fixed, Parser!After
<1>6. CASE Parser!ReadIdentifier \/ Parser!PushIdentifier \/ Parser!Value \/ Parser!WhereValue
  BY <1>6, NothingRefused
     DEF Parser!ReadIdentifier, Parser!PushIdentifier, Parser!Value, Parser!WhereValue
<1>7. CASE Parser!MoreColumns \/ Parser!MoreValues
  BY <1>7, NothingRefused DEF Parser!MoreColumns, Parser!MoreValues, Parser!More
<1>8. CASE Parser!Where \/ Parser!NoConnector
  BY <1>8, NothingRefused DEF Parser!Where, Parser!NoConnector
<1>9. CASE Parser!CopyFails \/ Parser!PushFails \/ Parser!FreeStatement
  BY <1>9, NothingRefused DEF Parser!CopyFails, Parser!PushFails, Parser!Fail, Parser!FreeStatement
<1> QED
  BY <1>1, <1>2, <1>3, <1>4, <1>5, <1>6, <1>7, <1>8, <1>9, Zenon DEF Parser!Next, Parser!Step

-----------------------------------------------------------------------------
(* The stages together.                                                    *)

StagesInv ==
  /\ stage = "lex" => LexInv /\ LexText
  /\ stage = "parse" => ParseInv /\ ParseStands /\ Parser!RefusedIsHopeless
  /\ stage = "insert" => InsertInv
  /\ stage = "select" => SelectInv /\ SelectAnswer

LEMMA LexTextStutter ==
  ASSUME LexText, UNCHANGED <<pc, index, input, start, buffer, tokens>>
  PROVE  LexText'
<1>1. LastEnd' = LastEnd
  BY DEF LastEnd, Lexer!EndOf
<1>2. Opened' = Opened
  BY DEF Opened, Literal
<1>3. \A types : LastIs(types)' <=> LastIs(types)
  BY DEF LastIs
<1>4. \A S : Lexer!Sees(S)' <=> Lexer!Sees(S)
  BY DEF Lexer!Sees, Lexer!Here, Lexer!AtEnd
<1>5. \A a, b : Lexer!BlankBetween(a, b)' <=> Lexer!BlankBetween(a, b)
  BY DEF Lexer!BlankBetween
<1>6. \A n : Lexer!QuotesUpTo(n)' = Lexer!QuotesUpTo(n)
  BY DEF Lexer!QuotesUpTo
<1>7. LexTokens'
  BY DEF LexText, LexTokens, Spelled, LastIs, Lexer!BlankBetween, Apart
<1>8. LexPlace'
  BY <1>1, <1>2, <1>3, <1>4, <1>5 DEF LexText, LexPlace, BlankTo
<1>9. Lexer!RefusedForCause'
  BY <1>6 DEF LexText, LexQuotes, Lexer!RefusedForCause, Lexer!Here
<1>10. LexQuotes'
  BY <1>6, <1>9 DEF LexText, LexQuotes
<1> QED
  BY <1>7, <1>8, <1>10 DEF LexText

LEMMA SelectAnswerStutter ==
  ASSUME SelectAnswer,
         UNCHANGED <<pc, index, schema, query, table, headers, selected_indexes, where_index, id, rows>>
  PROVE  SelectAnswer'
<1>1. /\ Select!DataRows' = Select!DataRows /\ LineParts' = LineParts
      /\ Select!Columns' = Select!Columns /\ Select!WhereId' = Select!WhereId
  BY DEF Select!DataRows, LineParts, Select!Columns, Select!WhereId
<1>2. \A name : Select!FindColumn(name)' = Select!FindColumn(name)
  BY DEF Select!FindColumn
<1>3. \A name, rank : Select!ValueOf(name, rank)' = Select!ValueOf(name, rank)
  BY <1>1, <1>2 DEF Select!ValueOf
<1>4. SelectBound' <=> SelectBound
  BY <1>1, <1>2 DEF SelectBound, Select!PlaceOf, Select!Known
<1>5. Select!Wanted' = Select!Wanted
  BY <1>1, <1>3 DEF Select!Wanted
<1>6. AnswerRows' = AnswerRows
  BY <1>1, <1>3 DEF AnswerRows
<1>7. \A limit : ShownBelow(limit)' <=> ShownBelow(limit)
  BY <1>5, <1>6 DEF ShownBelow
<1>8. \A p : Ranks(p)' <=> Ranks(p)
  BY <1>1 DEF Ranks
<1>9. Select!WhereIndex' = Select!WhereIndex
  BY <1>2 DEF Select!WhereIndex
<1>10. (Select!RowsFit' <=> Select!RowsFit) /\ \A i : LineFits(i)' <=> LineFits(i)
  BY <1>1 DEF Select!RowsFit, LineFits, Select!Fits, Select!IsRow, Select!Found, Select!ById
<1> QED
  BY <1>1, <1>4, <1>7, <1>8, <1>9, <1>10 DEF SelectAnswer

LEMMA StagesInit == Init => StagesInv
BY LexInit, LexTextInit, ParseInit, ParseStandsInit, RefusedInit, InsertInit, SelectInit,
   SelectAnswerInit DEF Init, StagesInv

LEMMA StagesStutter == StagesInv /\ UNCHANGED vars => StagesInv'
<1> SUFFICES ASSUME StagesInv, UNCHANGED vars PROVE StagesInv'
  OBVIOUS
<1> USE DEF vars, tokenVars, lexerVars, bindingVars, insertVars, selectVars
<1>1. LexInv' <=> LexInv
  BY DEF LexInv, Lexer!TypeOK, Lexer!BufferHoldsTerminator, TokenArray, Lexer!BufferBlock
<1>2. ParseInv' <=> ParseInv
  BY DEF ParseInv, ParseTokens, ParseTree, ParseMemory, IdentifierBlock, Parser!Ended,
         Parser!StopsAtEnd, Parser!Owned, Parser!StringBlocks, Parser!ListBlocks
<1>3. InsertInv' <=> InsertInv
  BY DEF InsertInv, InsertTypes, InsertHeld, InsertChecked, InsertRow, RowIsNamed, Checked,
         Place, Insert!FindColumn, Insert!RefusedForCause, Insert!Acceptable
<1>4. SelectInv' <=> SelectInv
  <2>1. UNCHANGED Select!input
    BY DEF Select!input
  <2>2. /\ (Select!RefusedForCause' <=> Select!RefusedForCause)
        /\ (Select!OnlyRowsAndFieldsAreLost' <=> Select!OnlyRowsAndFieldsAreLost)
    BY <2>1, SameQuery DEF Select!RefusedForCause, Select!OnlyRowsAndFieldsAreLost
  <2> QED
    BY <2>1, <2>2, SameQuery DEF SelectInv, SelectTypes, SelectLoops, SelectHeld, SelectSlots
<1>5. LexText => LexText'
  BY LexTextStutter
<1>6. SelectAnswer => SelectAnswer'
  BY SelectAnswerStutter
<1>7. ParseStands => ParseStands'
  BY DEF ParseStands
<1>8. Parser!RefusedIsHopeless => Parser!RefusedIsHopeless'
  BY DEF Parser!RefusedIsHopeless
<1> QED
  BY <1>1, <1>2, <1>3, <1>4, <1>5, <1>6, <1>7, <1>8 DEF StagesInv

LEMMA StagesStep == StagesInv /\ [Next]_vars => StagesInv'
<1> SUFFICES ASSUME StagesInv, [Next]_vars PROVE StagesInv'
  OBVIOUS
<1>1. CASE LexNext
  BY <1>1, LexStep, LexTextStep DEF LexNext, OutsideLexer, StagesInv
<1>2. CASE ParseNext
  BY <1>2, ParseStep, ParseStandsStep, RefusedStep DEF ParseNext, OutsideParser, StagesInv
<1>3. CASE InsertNext
  BY <1>3, InsertStep DEF InsertNext, OutsideInsert, StagesInv
<1>4. CASE SelectNext
  BY <1>4, SelectStep, SelectAnswerStep DEF SelectNext, OutsideSelect, StagesInv
<1>5. CASE UNCHANGED vars
  BY <1>5, StagesStutter
<1> QED
  BY <1>1, <1>2, <1>3, <1>4, <1>5 DEF Next

\* What each stage holds, and what it has made of its input, at every step.
THEOREM StagesInvariant == Spec => []StagesInv
BY StagesInit, StagesStep, PTL DEF Spec

\* lex_sql: what the invariant says of it.
LEMMA LexSafe ==
  LexInv => Lexer!TypeOK /\ Lexer!BufferHoldsTerminator /\ Lexer!OnlyTokensStayAllocated
<1> SUFFICES ASSUME LexInv
             PROVE  Lexer!TypeOK /\ Lexer!BufferHoldsTerminator /\ Lexer!OnlyTokensStayAllocated
  OBVIOUS
<1>1. ASSUME pc \in Lexer!Answers \cup {"freed"}
      PROVE  live = Len(tokens) + (IF slots > 0 THEN 1 ELSE 0)
  <2>1. Lexer!BufferBlock = 0
    BY <1>1 DEF LexInv, Lexer!Answers, Lexer!BufferBlock
  <2>2. Len(tokens) \in Nat /\ TokenArray \in Nat
    BY LexTypes DEF LexFacts, TokenArray
  <2>3. live = Len(tokens) + TokenArray
    BY <2>1, <2>2 DEF LexInv
  <2> QED
    BY <2>3 DEF TokenArray
<1> QED
  BY <1>1 DEF LexInv, Lexer!OnlyTokensStayAllocated

\* Every variable stays in its range, whatever the texts and tables are.
THEOREM StagesTyped == Spec => []TypeOK
<1>1. StagesInv => TypeOK
  BY LexSafe, ParseSafe, InsertSafe, SelectSafe DEF StagesInv, TypeOK
<1> QED
  BY <1>1, StagesInvariant, PTL

\* No text, token array or table makes the code read or write outside an array:
\* the literal's buffer, the slots of the tokens, the tokens behind END, the
\* columns of a row by id, in a scan and in the printed table.  All but this: a
\* SELECT of more columns than the schema has writes behind selected_indexes, and
\* no other statement does.
THEOREM AccessesInBounds == Spec => []AccessesStayInBounds
<1>1. StagesInv => AccessesStayInBounds
  BY LexSafe, ParseSafe, SelectReads DEF StagesInv, AccessesStayInBounds
<1> QED
  BY <1>1, StagesInvariant, PTL

\* Whichever allocation or call fails, no stage loses anything but tokens of a
\* text that lex_sql refuses, rows of a SELECT that fails, and fields of a line
\* that cannot be parsed while an id is looked up or given out; each of them is
\* lost on no other way out than the code's own that forgets it.
THEOREM LossesAreKnown == Spec => []OnlyKnownLosses
<1>1. StagesInv => OnlyKnownLosses
  BY LexSafe, ParseSafe, InsertSafe, SelectSafe DEF StagesInv, OnlyKnownLosses
<1> QED
  BY <1>1, StagesInvariant, PTL

\* For statements and schemas of any length: the row that execute_insert stores
\* has each named value in its named column, and no value that was not given.
THEOREM NamedRowStored == Spec => []StoredRowIsWhatWasNamed
<1>1. StagesInv => StoredRowIsWhatWasNamed
  BY InsertSafe DEF StagesInv, StoredRowIsWhatWasNamed
<1> QED
  BY <1>1, StagesInvariant, PTL

\* For texts of any length: the tokens that lex_sql makes are the text, and between
\* them there is nothing but blanks.
THEOREM TokensAreTheText == Spec => []TokensSpellInput
<1>1. StagesInv => TokensSpellInput
  BY TextSpelled DEF StagesInv, TokensSpellInput
<1> QED
  BY <1>1, StagesInvariant, PTL

\* For token arrays of any length: what parse_statement accepts is a statement of
\* the language, and the syntax tree holds its names and values in their order.
THEOREM TreeIsTheStatement == Spec => []TreeSaysWhatIsWritten
<1>1. StagesInv => TreeSaysWhatIsWritten
  BY TreeSays DEF StagesInv, TreeSaysWhatIsWritten
<1> QED
  BY <1>1, StagesInvariant, PTL

\* For queries, schemas and files of any size: execute_select answers with the
\* values asked for of exactly the rows that pass the filter, by index and by scan.
THEOREM AnswerIsRight == Spec => []AnswerIsTheQuery
<1>1. StagesInv => AnswerIsTheQuery
  BY SelectAnswersQuery DEF StagesInv, AnswerIsTheQuery
<1> QED
  BY <1>1, StagesInvariant, PTL

\* Other than for lack of memory, lex_sql refuses only wrong texts, parse_statement
\* only token arrays that nothing could complete, execute_insert only an INSERT
\* that could not be carried out, and execute_select only wrong names, wrong values
\* and files of which a line it reads does not fit the schema.
THEOREM WrongIsRefused == Spec => []OnlyWrongIsRefused
<1>1. LexText => Lexer!RefusedForCause
  BY DEF LexText, LexQuotes
<1>2. StagesInv => OnlyWrongIsRefused
  BY <1>1, InsertSafe, SelectSafe DEF StagesInv, OnlyWrongIsRefused
<1> QED
  BY <1>2, StagesInvariant, PTL

=============================================================================
