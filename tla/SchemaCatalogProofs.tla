------------------------ MODULE SchemaCatalogProofs -------------------------
(***************************************************************************)
(* load_schema for any files, names and headers: what it hands out is what *)
(* was asked for, whoever replaces files while it runs.                    *)
(***************************************************************************)
EXTENDS SchemaCatalog, Integers, TLAPS

Partial == [table : Name \cup {None}, columns : Columns \cup {None}]

\* The variables of a call that the answer is made of.
CallType ==
  /\ listed \in BOOLEAN
  /\ meta \in [Storage -> Content]
  /\ csv \in [Storage -> HeaderFile]
  /\ pc \in {"idle", "open", "search", "reopen", "read", "header"}
  /\ name \in Name \cup {None}
  /\ todo \subseteq Storage
  /\ storage \in Storage \cup {None}
  /\ lines \in Seq(Line)
  /\ schema \in Partial
  /\ edited \in BOOLEAN

\* What has been checked of a schema stays checked: the columns are compared
\* with the data file afterwards, and neither schema nor name changes.
Checked ==
  pc = "header" => schema \in Complete /\ Valid(schema)

SchemaInv == CallType /\ Checked /\ AnswerFitsRequest

LEMMA SchemaInit == Init => SchemaInv
<1> SUFFICES ASSUME Init PROVE SchemaInv
  OBVIOUS
<1>1. CallType
  <2>1. NoSchema \in Partial
    BY DEF NoSchema, Partial
  <2>2. lines \in Seq(Line)
    BY DEF Init
  <2> QED
    BY <2>1, <2>2 DEF Init, CallType
<1>2. Checked
  BY DEF Init, Checked
<1>3. AnswerFitsRequest
  BY DEF Init, AnswerFitsRequest, NoResult
<1> QED
  BY <1>1, <1>2, <1>3 DEF SchemaInv

\* A call that ends without a schema.
LEMMA ReturnKeeps ==
  ASSUME SchemaInv, NEW answer, Return(answer),
         answer.kind = "ok" =>
           /\ name \in {answer.schema.table, answer.storage}
           /\ answer.schema \in Complete
           /\ ~Contains(answer.schema.columns, Id)
  PROVE  SchemaInv'
<1>1. CallType'
  BY DEF SchemaInv, CallType, Return, NoSchema, Partial, disk
<1>2. Checked'
  BY DEF Return, Checked
<1>3. name' = name /\ result' = answer
  BY DEF Return
<1>4. AnswerFitsRequest'
  BY <1>3 DEF AnswerFitsRequest
<1> QED
  BY <1>1, <1>2, <1>4 DEF SchemaInv

LEMMA RejectKeeps ==
  ASSUME SchemaInv, Reject \/ Return([kind |-> "outOfResources"])
  PROVE  SchemaInv'
<1>1. CASE Reject
  BY <1>1, ReturnKeeps DEF Reject
<1>2. CASE Return([kind |-> "outOfResources"])
  BY <1>2, ReturnKeeps
<1> QED
  BY <1>1, <1>2

\* A line that is accepted leaves a schema that may still be incomplete.
LEMMA StoredType ==
  ASSUME NEW s \in Partial, NEW line \in Line, Acceptable(line)
  PROVE  Stored(s, line) \in Partial
<1>1. CASE \E n \in Name : line = TableLine(n)
  BY <1>1 DEF TableLine, Stored, Partial
<1>2. CASE \E h \in Headers : line = ColumnsLine(h)
  <2>1. PICK h \in Columns : line = ColumnsLine(h)
    BY <1>2 DEF Acceptable, Columns
  <2> QED
    BY <2>1 DEF ColumnsLine, Stored, Partial
<1>3. CASE line = OtherLine
  BY <1>3 DEF OtherLine, Stored, Partial
<1>4. line # Broken
  BY DEF Acceptable
<1> QED
  BY <1>1, <1>2, <1>3, <1>4 DEF Line

LEMMA SchemaStep == SchemaInv /\ [Next]_vars => SchemaInv'
<1> SUFFICES ASSUME SchemaInv, [Next]_vars PROVE SchemaInv'
  OBVIOUS
<1> USE DEF SchemaInv
<1>1. CASE OpenExact \/ CandidateMatches
  <2>1. PICK s \in Storage : Choose(s)
    BY <1>1 DEF OpenExact, CandidateMatches, CallType
  <2> QED
    BY <2>1 DEF Choose, CallType, Checked, AnswerFitsRequest, disk
<1>2. CASE OpenDirectory \/ CandidateSkipped
  BY <1>2 DEF OpenDirectory, CandidateSkipped, CallType, Checked, AnswerFitsRequest, disk
<1>3. CASE Reopen
  <2>1. meta[storage] \in Seq(Line)
    BY <1>3, CatalogAssumption DEF Reopen, Readable
  <2> QED
    BY <1>3, <2>1 DEF Reopen, CallType, Checked, AnswerFitsRequest, disk
<1>4. CASE ReadLine
  <2>1. Head(lines) \in Line /\ Tail(lines) \in Seq(Line)
    BY <1>4 DEF ReadLine, AtLine, CallType
  <2>2. schema' \in Partial
    BY <1>4, <2>1, StoredType DEF ReadLine, CallType
  <2> QED
    BY <1>4, <2>1, <2>2 DEF ReadLine, AtLine, CallType, Checked, AnswerFitsRequest, disk
<1>5. CASE Validate
  <2>1. schema \in Complete
    BY <1>5 DEF Validate, Valid, CallType, Partial, Complete
  <2> QED
    BY <1>5, <2>1 DEF Validate, Valid, CallType, Checked, AnswerFitsRequest, disk
<1>6. CASE CheckHeader
  <2>1. schema \in Complete /\ Valid(schema)
    BY <1>6 DEF CheckHeader, Checked
  <2>2. CASE csv[storage] = schema.columns
    <3> DEFINE answer == [kind |-> "ok", storage |-> storage, schema |-> schema]
    <3>1. Return(answer) /\ answer.schema = schema /\ answer.storage = storage
      BY <1>6, <2>2 DEF CheckHeader
    <3> HIDE DEF answer
    <3> QED
      BY <2>1, <3>1, ReturnKeeps DEF Valid
  <2>3. CASE csv[storage] # schema.columns
    BY <1>6, <2>3, RejectKeeps DEF CheckHeader
  <2> QED
    BY <2>2, <2>3
<1>7. CASE \/ OpenExactFails \/ OpenDirectoryFails \/ CandidateFails \/ NoCandidate
           \/ ReopenFails \/ ReadLineRejects \/ ValidateRejects \/ OutOfResources
  BY <1>7, RejectKeeps
     DEF OpenExactFails, OpenDirectoryFails, CandidateFails, NoCandidate, ReopenFails, ReadLineRejects,
         ValidateRejects, OutOfResources
<1>8. ASSUME NEW n \in Name, LoadSchema(n)
      PROVE  SchemaInv'
  BY <1>8 DEF LoadSchema, CallType, Checked, AnswerFitsRequest, NoResult, disk
<1>9. ASSUME NEW s \in Storage, NEW f \in Content, EditMeta(s, f)
      PROVE  SchemaInv'
  BY <1>9 DEF EditMeta, CallType, Checked, Valid, AnswerFitsRequest
<1>10. ASSUME NEW s \in Storage, NEW f \in HeaderFile, EditCsv(s, f)
       PROVE  SchemaInv'
  BY <1>10 DEF EditCsv, CallType, Checked, Valid, AnswerFitsRequest
<1>11. CASE EditDirectory
  BY <1>11 DEF EditDirectory, CallType, Checked, Valid, AnswerFitsRequest
<1>12. CASE UNCHANGED vars
  BY <1>12 DEF vars, CallType, Checked, Valid, AnswerFitsRequest
<1> QED
  BY <1>1, <1>2, <1>3, <1>4, <1>5, <1>6, <1>7, <1>8, <1>9, <1>10, <1>11, <1>12 DEF Next, Progress

\* A schema whose columns are compared with the data file is complete and valid.
THEOREM SchemaInvariant == Spec => []SchemaInv
BY SchemaInit, SchemaStep, PTL DEF Spec

\* Every variable of load_schema keeps its range, and the header of a data file
\* is only compared with a schema that is complete.
THEOREM SchemaTypeCorrect == Spec => []TypeOK
<1>1. SchemaInv => TypeOK
  BY DEF SchemaInv, CallType, Checked, Partial, TypeOK
<1> QED
  BY <1>1, SchemaInvariant, PTL

\* load_schema (schema.c:323) never hands out the schema of another table than
\* the one asked for, nor one with a column called id, however files are
\* replaced between the search, the second opening and the check of the header.
THEOREM SchemaFitsRequest == Spec => []AnswerFitsRequest
<1>1. SchemaInv => AnswerFitsRequest
  BY DEF SchemaInv
<1> QED
  BY <1>1, SchemaInvariant, PTL

-----------------------------------------------------------------------------
(* While nobody edits, load_schema says what the directory as a whole says. *)

\* v is the value of the last of the first k lines with that key.
IsLast(v, file, k, key) ==
  \/ v = None /\ \A i \in 1..k : file[i].key # key
  \/ \E i \in 1..k :
       /\ file[i].key = key /\ v = file[i].value
       /\ \A j \in (i + 1)..k : file[j].key # key

\* k lines of the chosen file are read and the rest is left.
ReadUpTo(k) ==
  LET file == meta[storage]
  IN  /\ \A i \in 1..k : file[i] \in Line /\ Acceptable(file[i])
      /\ IsLast(schema.table, file, k, "table")
      /\ IsLast(schema.columns, file, k, "columns")

\* The file that is read is a candidate, and what is left of it is its end.
Chosen ==
  /\ pc \in {"reopen", "read", "header"} =>
       storage \in Storage /\ Readable(storage) /\ storage \in Candidates(name)
  /\ pc = "read" =>
       \E k \in 0..Len(meta[storage]) :
         lines = SubSeq(meta[storage], k + 1, Len(meta[storage])) /\ ReadUpTo(k)
  /\ pc = "header" => ReadUpTo(Len(meta[storage]))

\* No file that declares the name has been passed over.
Searched ==
  pc = "search" =>
    /\ Searches(name)
    /\ todo \subseteq {s \in Storage : meta[s] # Absent}
    /\ \A s \in Storage : Readable(s) /\ Declares(meta[s], name) => s \in todo

CatalogInv ==
  /\ SchemaInv
  /\ pc \in {"idle", "open", "search", "reopen"} => schema = NoSchema
  /\ pc # "idle" => result = NoResult
  /\ ~edited => Chosen /\ Searched
  /\ AnswerMatchesCatalog

\* A file that is read to its end is described.
LEMMA LastIsLastOf ==
  ASSUME NEW file \in Seq(Line), NEW v, NEW key \in {"table", "columns"},
         IsLast(v, file, Len(file), key)
  PROVE  v = LastOf(file, key)
<1> DEFINE at == {i \in DOMAIN file : file[i].key = key}
<1>0. Len(file) \in Nat /\ DOMAIN file = 1..Len(file)
  OBVIOUS
<1>1. LastOf(file, key) =
        IF at = {} THEN None ELSE file[CHOOSE i \in at : \A j \in at : j <= i].value
  BY DEF LastOf
<1>2. CASE v = None /\ \A i \in 1..Len(file) : file[i].key # key
  <2>1. at = {}
    BY <1>0, <1>2
  <2> QED
    BY <1>1, <1>2, <2>1
<1>3. CASE \E i \in 1..Len(file) :
             /\ file[i].key = key /\ v = file[i].value
             /\ \A j \in (i + 1)..Len(file) : file[j].key # key
  <2>1. PICK i \in 1..Len(file) :
          /\ file[i].key = key /\ v = file[i].value
          /\ \A j \in (i + 1)..Len(file) : file[j].key # key
    BY <1>3
  <2>2. i \in at /\ at \subseteq 1..Len(file)
    BY <1>0, <2>1
  <2>3. \A j \in at : j <= i
    <3> SUFFICES ASSUME NEW j \in at, ~(j <= i) PROVE FALSE
      OBVIOUS
    <3>1. j \in (i + 1)..Len(file) /\ file[j].key = key
      BY <1>0, <2>2
    <3> QED
      BY <2>1, <3>1
  <2> DEFINE m == CHOOSE n \in at : \A j \in at : j <= n
  <2>4. m \in at /\ \A j \in at : j <= m
    BY <2>2, <2>3
  <2> HIDE DEF m, at
  <2>5. m = i
    <3>1. m \in 1..Len(file) /\ i \in 1..Len(file)
      BY <2>2, <2>4
    <3>2. m <= i /\ i <= m
      BY <2>2, <2>3, <2>4
    <3> QED
      BY <1>0, <3>1, <3>2
  <2>6. at # {}
    BY <2>2
  <2> QED
    BY <1>1, <2>1, <2>5, <2>6 DEF m
<1> QED
  BY <1>2, <1>3 DEF IsLast

\* One more line is read.
LEMMA StoredIsLast ==
  ASSUME NEW file \in Seq(Line), NEW k \in 0..(Len(file) - 1), NEW s \in Partial,
         Acceptable(file[k + 1]), IsLast(s.table, file, k, "table"),
         IsLast(s.columns, file, k, "columns")
  PROVE  /\ IsLast(Stored(s, file[k + 1]).table, file, k + 1, "table")
         /\ IsLast(Stored(s, file[k + 1]).columns, file, k + 1, "columns")
<1> DEFINE line == file[k + 1]
<1>0. /\ k + 1 \in 1..Len(file) /\ k \in Nat /\ line \in Line
      /\ \A i \in 1..(k + 1) : i \in 1..k \/ i = k + 1
  OBVIOUS
<1>1. ASSUME NEW v, NEW key, IsLast(v, file, k, key), line.key # key
      PROVE  IsLast(v, file, k + 1, key)
  <2>1. CASE v = None /\ \A i \in 1..k : file[i].key # key
    BY <1>0, <1>1, <2>1 DEF IsLast
  <2>2. CASE \E i \in 1..k :
               /\ file[i].key = key /\ v = file[i].value
               /\ \A j \in (i + 1)..k : file[j].key # key
    <3>1. PICK i \in 1..k :
            /\ file[i].key = key /\ v = file[i].value
            /\ \A j \in (i + 1)..k : file[j].key # key
      BY <2>2
    <3>2. i \in 1..(k + 1) /\ \A j \in (i + 1)..(k + 1) : j \in (i + 1)..k \/ j = k + 1
      BY <1>0
    <3> QED
      BY <1>1, <3>1, <3>2 DEF IsLast
  <2> QED
    BY <1>1, <2>1, <2>2 DEF IsLast
<1>2. ASSUME NEW key, line.key = key
      PROVE  IsLast(line.value, file, k + 1, key)
  <2>1. k + 1 \in 1..(k + 1) /\ (k + 1 + 1)..(k + 1) = {}
    BY <1>0
  <2> QED
    BY <1>2, <2>1 DEF IsLast
<1>3. CASE \E n \in Name : line = TableLine(n)
  <2>1. line.key = "table" /\ line.key # "columns"
    BY <1>3 DEF TableLine
  <2>2. Stored(s, line) = [s EXCEPT !.table = line.value]
    BY <2>1 DEF Stored
  <2>3. Stored(s, line).table = line.value /\ Stored(s, line).columns = s.columns
    BY <2>2 DEF Partial
  <2> HIDE DEF line
  <2>4. IsLast(line.value, file, k + 1, "table") /\ IsLast(s.columns, file, k + 1, "columns")
    BY <1>1, <1>2, <2>1
  <2> QED
    BY <2>3, <2>4 DEF line
<1>4. CASE \E h \in Headers : line = ColumnsLine(h)
  <2>1. line.key = "columns" /\ line.key # "table"
    BY <1>4 DEF ColumnsLine
  <2>2. Stored(s, line) = [s EXCEPT !.columns = line.value]
    BY <2>1 DEF Stored
  <2>3. Stored(s, line).columns = line.value /\ Stored(s, line).table = s.table
    BY <2>2 DEF Partial
  <2> HIDE DEF line
  <2>4. IsLast(line.value, file, k + 1, "columns") /\ IsLast(s.table, file, k + 1, "table")
    BY <1>1, <1>2, <2>1
  <2> QED
    BY <2>3, <2>4 DEF line
<1>5. CASE line = OtherLine
  <2>1. line.key # "columns" /\ line.key # "table"
    BY <1>5 DEF OtherLine
  <2>2. Stored(s, line) = s
    BY <2>1 DEF Stored
  <2> HIDE DEF line
  <2> QED
    BY <1>1, <2>1, <2>2 DEF line
<1>6. line # Broken
  BY DEF Acceptable
<1> QED
  BY <1>0, <1>3, <1>4, <1>5, <1>6 DEF Line


\* What a meta file is.
LEMMA ReadableFile ==
  ASSUME NEW s \in Storage, Readable(s)
  PROVE  meta[s] \in Seq(Line) /\ Len(meta[s]) \in Nat /\ meta[s] # Absent
BY CatalogAssumption DEF Readable

LEMMA CatalogInit == Init => CatalogInv
<1> SUFFICES ASSUME Init PROVE CatalogInv
  OBVIOUS
<1>1. SchemaInv
  BY SchemaInit
<1>2. pc = "idle" /\ schema = NoSchema /\ result.kind = "none"
  BY DEF Init, NoResult
<1> QED
  BY <1>1, <1>2 DEF CatalogInv, Chosen, Searched, AnswerMatchesCatalog

\* A call returns what the catalog says, or has run out of memory.
LEMMA AnswerKeeps ==
  ASSUME CatalogInv, SchemaInv', NEW answer, Return(answer),
         ~edited /\ answer.kind = "ok" =>
           /\ answer.storage \in Candidates(name) /\ Usable(name, answer.storage)
           /\ answer.schema = Described(answer.storage),
         ~edited /\ answer.kind = "error" =>
           \/ \E s \in Candidates(name) : ~Usable(name, s)
           \/ Candidates(name) = {}
           \/ Searches(name) /\ (~listed \/ \E s \in Storage : meta[s] = Unreadable)
  PROVE  CatalogInv'
<1>1. /\ UNCHANGED <<listed, meta, csv, name, edited>> /\ result' = answer /\ pc' = "idle"
      /\ schema' = NoSchema
  BY DEF Return, disk
<1>2. AnswerMatchesCatalog'
  BY <1>1 DEF AnswerMatchesCatalog, Candidates, Searches, Usable, Described, Readable
<1> QED
  BY <1>1, <1>2 DEF CatalogInv, Chosen, Searched

\* A call that goes on has not answered.
LEMMA GoesOn ==
  ASSUME CatalogInv, SchemaInv', pc # "idle", pc' # "idle", result' = result,
         pc' \in {"open", "search", "reopen"} => schema' = NoSchema,
         ~edited' => Chosen' /\ Searched'
  PROVE  CatalogInv'
BY DEF CatalogInv, AnswerMatchesCatalog, NoResult

\* A file is chosen.
LEMMA ChooseKeeps ==
  ASSUME CatalogInv, SchemaInv', OpenExact \/ CandidateMatches
  PROVE  CatalogInv'
<1>1. PICK s \in Storage :
        /\ Choose(s) /\ Readable(s) /\ pc \in {"open", "search"}
        /\ \/ pc = "open" /\ s = name
           \/ pc = "search" /\ Declares(meta[s], name)
  BY DEF OpenExact, CandidateMatches, CatalogInv, SchemaInv, CallType
<1>2. /\ storage' = s /\ pc' = "reopen" /\ UNCHANGED <<meta, csv, name, schema, result, edited>>
  BY <1>1 DEF Choose, disk
<1>3. ~edited => s \in Candidates(name)
  BY <1>1, ReadableFile DEF CatalogInv, Searched, Searches, Candidates
<1>4. ~edited' => Chosen' /\ Searched'
  BY <1>1, <1>2, <1>3 DEF Chosen, Searched, Candidates, Searches, Readable
<1> QED
  BY <1>1, <1>2, <1>4, GoesOn DEF CatalogInv

LEMMA SearchKeeps ==
  ASSUME CatalogInv, SchemaInv', OpenDirectory \/ CandidateSkipped
  PROVE  CatalogInv'
<1>1. /\ pc \in {"open", "search"} /\ pc' = "search"
      /\ UNCHANGED <<meta, csv, name, storage, schema, result, edited>>
  BY DEF OpenDirectory, CandidateSkipped, disk
<1>2. ~edited => Searched'
  <2>1. CASE OpenDirectory
    <3>1. /\ Searches(name)
          /\ todo' = {s \in Storage : meta[s] # Absent}
      BY <2>1 DEF OpenDirectory
    <3> QED
      BY <1>1, <3>1, ReadableFile DEF Searched, Searches, Readable
  <2>2. CASE CandidateSkipped
    <3>1. PICK s \in todo : ~Declares(meta[s], name) /\ todo' = todo \ {s} /\ pc = "search"
      BY <2>2 DEF CandidateSkipped
    <3> QED
      BY <1>1, <3>1 DEF CatalogInv, Searched, Searches, Readable
  <2> QED
    BY <2>1, <2>2
<1> QED
  BY <1>1, <1>2, GoesOn DEF CatalogInv, Chosen

\* The file is read, line by line, and is complete at its end.
LEMMA ReadKeeps ==
  ASSUME CatalogInv, SchemaInv', Reopen \/ ReadLine \/ Validate
  PROVE  CatalogInv'
<1>0. SchemaInv /\ schema \in Partial
  BY DEF CatalogInv, SchemaInv, CallType
<1>1. /\ pc \in {"reopen", "read"} /\ pc' \in {"read", "header"}
      /\ UNCHANGED <<meta, csv, name, storage, result, edited>>
  BY DEF Reopen, ReadLine, AtLine, Validate, disk
<1> SUFFICES ASSUME ~edited PROVE Chosen'
  BY <1>1, GoesOn DEF Searched
<1> DEFINE file == meta[storage]
<1>2. /\ storage \in Storage /\ Readable(storage) /\ storage \in Candidates(name)
      /\ file \in Seq(Line) /\ Len(file) \in Nat
  BY <1>1, ReadableFile DEF CatalogInv, Chosen
<1>3. storage' \in Storage /\ Readable(storage)' /\ storage' \in Candidates(name)'
  BY <1>1, <1>2 DEF Readable, Candidates, Searches
<1>4. CASE Reopen
  <2>1. lines' = file /\ schema' = NoSchema /\ pc' = "read"
    BY <1>4 DEF Reopen, CatalogInv
  <2>2. file = SubSeq(file, 0 + 1, Len(file)) /\ 0 \in 0..Len(file)
    BY <1>2
  <2>3. ReadUpTo(0)'
    BY <1>1, <2>1 DEF ReadUpTo, IsLast, NoSchema
  <2> QED
    BY <1>1, <1>3, <2>1, <2>2, <2>3 DEF Chosen
<1>5. CASE ReadLine \/ Validate
  <2>1. PICK k \in 0..Len(file) : lines = SubSeq(file, k + 1, Len(file)) /\ ReadUpTo(k)
    BY <1>5 DEF ReadLine, AtLine, Validate, CatalogInv, Chosen
  <2>2. CASE ReadLine
    <3>1. lines # <<>> /\ Acceptable(Head(lines)) /\ schema' = Stored(schema, Head(lines))
          /\ lines' = Tail(lines) /\ pc' = "read"
      BY <2>2 DEF ReadLine, AtLine
    <3>2. k \in 0..(Len(file) - 1)
      BY <1>2, <2>1, <3>1
    <3>3. Head(lines) = file[k + 1] /\ Tail(lines) = SubSeq(file, (k + 1) + 1, Len(file))
      BY <1>2, <2>1, <3>2
    <3>4. /\ IsLast(schema'.table, file, k + 1, "table")
          /\ IsLast(schema'.columns, file, k + 1, "columns")
      BY <1>0, <1>2, <2>1, <3>1, <3>2, <3>3, StoredIsLast DEF ReadUpTo
    <3>5. \A i \in 1..(k + 1) : file[i] \in Line /\ Acceptable(file[i])
      <4>1. \A i \in 1..(k + 1) : i \in 1..k \/ i = k + 1
        BY <3>2
      <4> QED
        BY <1>2, <2>1, <3>1, <3>2, <3>3, <4>1 DEF ReadUpTo
    <3>6. ReadUpTo(k + 1)'
      BY <1>1, <3>4, <3>5 DEF ReadUpTo
    <3>7. k + 1 \in 0..Len(file)
      BY <1>2, <3>2
    <3> QED
      BY <1>1, <1>3, <3>1, <3>3, <3>6, <3>7 DEF Chosen
  <2>3. CASE Validate
    <3>1. lines = <<>> /\ pc' = "header" /\ schema' = schema
      BY <2>3 DEF Validate
    <3>2. k = Len(file)
      <4>1. Len(SubSeq(file, k + 1, Len(file))) = Len(file) - k
        BY <1>2
      <4>2. Len(lines) = 0
        BY <3>1
      <4>3. Len(file) - k = 0
        BY <2>1, <4>1, <4>2
      <4> QED
        BY <1>2, <4>3
    <3>3. ReadUpTo(Len(meta[storage]))'
      BY <1>1, <2>1, <3>1, <3>2 DEF ReadUpTo
    <3> QED
      BY <1>1, <1>3, <3>1, <3>3 DEF Chosen
  <2> QED
    BY <1>5, <2>2, <2>3
<1> QED
  BY <1>4, <1>5

\* A call that ends has its reason in the directory.
LEMMA EndKeeps ==
  ASSUME CatalogInv, SchemaInv',
         \/ OpenExactFails \/ OpenDirectoryFails \/ CandidateFails \/ NoCandidate
         \/ ReopenFails \/ ReadLineRejects \/ ValidateRejects \/ CheckHeader \/ OutOfResources
  PROVE  CatalogInv'
<1>0. SchemaInv /\ schema \in Partial /\ meta \in [Storage -> Content]
  BY DEF CatalogInv, SchemaInv, CallType
<1>1. CASE OutOfResources
  <2>1. Return([kind |-> "outOfResources"])
    BY <1>1 DEF OutOfResources
  <2> QED
    BY <2>1, AnswerKeeps
<1>2. ASSUME Reject,
             ~edited => \/ \E s \in Candidates(name) : ~Usable(name, s)
                        \/ Candidates(name) = {}
                        \/ Searches(name) /\ (~listed \/ \E s \in Storage : meta[s] = Unreadable)
      PROVE  CatalogInv'
  BY <1>2, AnswerKeeps DEF Reject
<1>3. CASE OpenExactFails
  <2>1. Reject
    BY <1>3 DEF OpenExactFails
  <2>2. name \in TooLong \/ (name \in Storage /\ meta[name] = Unreadable)
    BY <1>3 DEF OpenExactFails
  <2>3. CASE name \in TooLong
    <3>1. Candidates(name) = {}
      BY <2>3, CatalogAssumption DEF Candidates, Searches
    <3> QED
      BY <1>2, <2>1, <3>1
  <2>4. CASE name \in Storage /\ meta[name] = Unreadable
    <3>1. ~Readable(name)
      BY <2>4, CatalogAssumption DEF Readable
    <3>2. CASE Searches(name)
      BY <1>2, <2>1, <2>4, <3>2
    <3>3. CASE ~Searches(name)
      <4>1. name \in Candidates(name)
        BY <2>4, <3>3 DEF Candidates
      <4> QED
        BY <1>2, <2>1, <3>1, <4>1 DEF Usable
    <3> QED
      BY <3>2, <3>3
  <2> QED
    BY <2>2, <2>3, <2>4
<1>8. CASE OpenDirectoryFails \/ CandidateFails \/ NoCandidate \/ ReopenFails
  <2>1. Reject
    BY <1>8 DEF OpenDirectoryFails, CandidateFails, NoCandidate, ReopenFails
  <2>2. ASSUME ~edited
        PROVE  \/ Candidates(name) = {}
               \/ Searches(name) /\ (~listed \/ \E s \in Storage : meta[s] = Unreadable)
    <3>1. CASE OpenDirectoryFails
      BY <3>1 DEF OpenDirectoryFails
    <3>2. CASE CandidateFails
      <4>1. PICK s \in todo : ~Readable(s) /\ s \in Storage /\ meta[s] # Absent
        BY <2>2, <3>2 DEF CandidateFails, CatalogInv, Searched
      <4>2. Searches(name)
        BY <2>2, <3>2 DEF CandidateFails, CatalogInv, Searched
      <4> QED
        BY <1>0, <4>1, <4>2 DEF Readable, Content
    <3>3. CASE NoCandidate
      BY <2>2, <3>3 DEF NoCandidate, CatalogInv, Searched, Candidates
    <3>4. CASE ReopenFails
      BY <2>2, <3>4 DEF ReopenFails, CatalogInv, Chosen
    <3> QED
      BY <1>8, <3>1, <3>2, <3>3, <3>4
  <2> QED
    BY <1>2, <2>1, <2>2
<1> DEFINE file == meta[storage]
<1>4. CASE ReadLineRejects
  <2>1. Reject
    BY <1>4 DEF ReadLineRejects
  <2>2. ASSUME ~edited PROVE storage \in Candidates(name) /\ ~Usable(name, storage)
    <3>1. storage \in Candidates(name) /\ file \in Seq(Line) /\ Len(file) \in Nat
      BY <1>4, <2>2, ReadableFile DEF ReadLineRejects, AtLine, CatalogInv, Chosen
    <3>2. PICK k \in 0..Len(file) : lines = SubSeq(file, k + 1, Len(file))
      BY <1>4, <2>2 DEF ReadLineRejects, AtLine, CatalogInv, Chosen
    <3>3. lines # <<>> /\ ~Acceptable(Head(lines))
      BY <1>4 DEF ReadLineRejects, AtLine
    <3>4. k \in 0..(Len(file) - 1)
      BY <3>1, <3>2, <3>3
    <3>5. Head(lines) = file[k + 1] /\ k + 1 \in DOMAIN file
      BY <3>1, <3>2, <3>4
    <3> QED
      BY <3>1, <3>3, <3>5 DEF Usable
  <2> QED
    BY <1>2, <2>1, <2>2
<1>5. ASSUME pc \in {"read", "header"}, pc = "read" => lines = <<>>, ~edited
      PROVE  /\ storage \in Candidates(name) /\ Readable(storage) /\ schema = Described(storage)
             /\ \A i \in DOMAIN file : Acceptable(file[i])
  <2>1. /\ storage \in Candidates(name) /\ Readable(storage)
        /\ file \in Seq(Line) /\ Len(file) \in Nat
    BY <1>5, ReadableFile DEF CatalogInv, Chosen
  <2>2. ReadUpTo(Len(meta[storage]))
    <3>1. CASE pc = "read"
      <4>1. PICK k \in 0..Len(file) : lines = SubSeq(file, k + 1, Len(file)) /\ ReadUpTo(k)
        BY <1>5, <3>1 DEF CatalogInv, Chosen
      <4>2. Len(SubSeq(file, k + 1, Len(file))) = Len(file) - k
        BY <2>1
      <4>3. Len(file) - k = 0
        BY <1>5, <3>1, <4>1, <4>2
      <4>4. k = Len(file)
        BY <2>1, <4>3
      <4> QED
        BY <4>1, <4>4
    <3>2. CASE pc = "header"
      BY <1>5, <3>2 DEF CatalogInv, Chosen
    <3> QED
      BY <1>5, <3>1, <3>2
  <2>3. schema.table = LastOf(file, "table") /\ schema.columns = LastOf(file, "columns")
    BY <2>1, <2>2, LastIsLastOf DEF ReadUpTo
  <2>4. schema = [table |-> schema.table, columns |-> schema.columns]
    BY <1>0 DEF Partial
  <2>5. DOMAIN file = 1..Len(file)
    BY <2>1
  <2> QED
    BY <2>1, <2>2, <2>3, <2>4, <2>5 DEF Described, ReadUpTo
<1>6. CASE ValidateRejects
  <2>1. Reject
    BY <1>6 DEF ValidateRejects
  <2>2. ASSUME ~edited PROVE storage \in Candidates(name) /\ ~Usable(name, storage)
    <3>1. storage \in Candidates(name) /\ schema = Described(storage)
      BY <1>5, <1>6, <2>2 DEF ValidateRejects
    <3>2. ~Valid(schema)
      BY <1>6 DEF ValidateRejects
    <3>3. schema \in Complete => schema.table # None /\ schema.columns # None
      BY CatalogAssumption DEF Complete, Columns
    <3> QED
      BY <3>1, <3>2, <3>3 DEF Usable, Valid
  <2> QED
    BY <1>2, <2>1, <2>2
<1>7. CASE CheckHeader
  <2>1. pc = "header"
    BY <1>7 DEF CheckHeader
  <2>2. schema \in Complete /\ Valid(schema)
    BY <1>0, <2>1 DEF SchemaInv, Checked
  <2>3. CASE csv[storage] = schema.columns
    <3> DEFINE answer == [kind |-> "ok", storage |-> storage, schema |-> schema]
    <3>1. /\ Return(answer) /\ answer.schema = schema /\ answer.storage = storage
          /\ answer.kind = "ok"
      BY <1>7, <2>3 DEF CheckHeader
    <3>2. ~edited => /\ storage \in Candidates(name) /\ schema = Described(storage)
                     /\ Usable(name, storage)
      BY <1>5, <2>1, <2>2, <2>3 DEF Usable, Valid
    <3> HIDE DEF answer
    <3> QED
      BY <3>1, <3>2, AnswerKeeps
  <2>4. CASE csv[storage] # schema.columns
    <3>1. Reject
      BY <1>7, <2>4 DEF CheckHeader
    <3>2. ~edited => storage \in Candidates(name) /\ ~Usable(name, storage)
      BY <1>5, <2>1, <2>4 DEF Usable
    <3> QED
      BY <1>2, <3>1, <3>2
  <2> QED
    BY <2>3, <2>4
<1> QED
  BY <1>1, <1>3, <1>4, <1>6, <1>7, <1>8

LEMMA CatalogStep == CatalogInv /\ [Next]_vars => CatalogInv'
<1> SUFFICES ASSUME CatalogInv, [Next]_vars PROVE CatalogInv'
  OBVIOUS
<1>0. SchemaInv'
  BY SchemaStep DEF CatalogInv
<1>1. CASE OpenExact \/ CandidateMatches
  BY <1>0, <1>1, ChooseKeeps
<1>2. CASE OpenDirectory \/ CandidateSkipped
  BY <1>0, <1>2, SearchKeeps
<1>3. CASE Reopen \/ ReadLine \/ Validate
  BY <1>0, <1>3, ReadKeeps
<1>4. CASE \/ OpenExactFails \/ OpenDirectoryFails \/ CandidateFails \/ NoCandidate
           \/ ReopenFails \/ ReadLineRejects \/ ValidateRejects \/ CheckHeader \/ OutOfResources
  BY <1>0, <1>4, EndKeeps
<1>5. ASSUME NEW n \in Name, LoadSchema(n) PROVE CatalogInv'
  <2>1. pc' = "open" /\ schema' = schema /\ schema = NoSchema /\ result' = NoResult
    BY <1>5 DEF LoadSchema, CatalogInv
  <2> QED
    BY <1>0, <2>1 DEF CatalogInv, Chosen, Searched, AnswerMatchesCatalog, NoResult
<1>6. ASSUME NEW s \in Storage, NEW f \in Content, EditMeta(s, f) PROVE CatalogInv'
  BY <1>0, <1>6 DEF EditMeta, CatalogInv, AnswerMatchesCatalog
<1>7. ASSUME NEW s \in Storage, NEW f \in HeaderFile, EditCsv(s, f) PROVE CatalogInv'
  BY <1>0, <1>7 DEF EditCsv, CatalogInv, AnswerMatchesCatalog
<1>8. CASE EditDirectory
  BY <1>0, <1>8 DEF EditDirectory, CatalogInv, AnswerMatchesCatalog
<1>9. CASE UNCHANGED vars
  BY <1>0, <1>9
     DEF vars, CatalogInv, AnswerMatchesCatalog, Chosen, Searched, Searches, ReadUpTo, Readable,
         Candidates, Usable, Described
<1> QED
  BY <1>1, <1>2, <1>3, <1>4, <1>5, <1>6, <1>7, <1>8, <1>9 DEF Next, Progress

\* load_schema, while nobody edits a file or the directory: a schema that is
\* handed out is the one that a candidate's file describes and whose data file
\* fits.  A name is refused only for a candidate that is wrong or cannot be
\* opened, for want of a candidate (none is sought for a name too long for a
\* file), or, where the table has no file of its own name, because the directory
\* or a file in it cannot be opened.
THEOREM CatalogAnswered == Spec => []AnswerMatchesCatalog
<1>1. CatalogInv => AnswerMatchesCatalog
  BY DEF CatalogInv
<1> QED
  BY <1>1, CatalogInit, CatalogStep, PTL DEF Spec

=============================================================================
