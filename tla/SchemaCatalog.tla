--------------------------- MODULE SchemaCatalog ----------------------------
(***************************************************************************)
(* load_schema of storage/schema.c: from the table name in a statement to  *)
(* the meta file that describes the table, and to the data file whose name *)
(* (storage_name) is the key of the index registry.  It looks at several   *)
(* files one after the other, opens the chosen one twice, and users edit   *)
(* these files by hand, also while a prompt is open.                       *)
(*                                                                         *)
(* An editor replaces a file as a whole; what the program reads of a file  *)
(* is what the file held when it was opened.                               *)
(***************************************************************************)
EXTENDS Sequences, SequencesExt

CONSTANTS
  Storage,    \* base names of meta and data files
  Name,       \* names a statement may use for a table
  TooLong,    \* those that are longer than a file name may be
  Id,         \* the reserved column name
  MetaFiles,  \* contents a meta file may have: sequences of lines
  Headers,    \* lists of columns a file may have, and Malformed
  Absent,     \* there is no such file
  Unreadable, \* a meta file that cannot be opened, a data file without a header
  Malformed,  \* csv_parse_line rejects the list
  Broken,     \* a meta line without '='
  None        \* a field of Schema that is still NULL

Columns == {h \in Headers : h # Malformed}
Complete == [table : Name, columns : Columns]
Content == MetaFiles \cup {Absent, Unreadable}

\* A data file that is missing, empty or has a malformed header is Unreadable.
HeaderFile == Columns \cup {Unreadable}

\* A line is key=value; keys other than these two are skipped ("other").
TableLine(n) == [key |-> "table", value |-> n]
ColumnsLine(c) == [key |-> "columns", value |-> c]
OtherLine == [key |-> "other", value |-> None]

Line == {TableLine(n) : n \in Name} \cup {ColumnsLine(h) : h \in Headers} \cup {OtherLine, Broken}

ASSUME CatalogAssumption ==
  /\ Storage \subseteq Name
  /\ TooLong \subseteq Name \ Storage
  /\ MetaFiles \subseteq Seq(Line)
  /\ <<>> \notin Headers  \* csv_parse_line finds at least one field
  /\ None \notin Name \cup Headers \cup Storage
  /\ {Absent, Unreadable} \cap (MetaFiles \cup Headers) = {}

VARIABLES
  listed,  \* opendir opens the schema directory
  meta,    \* [Storage -> Content], schema/<storage>.meta
  csv,     \* [Storage -> HeaderFile], the first line of data/<storage>.csv
  pc,      \* where load_schema is
  name,    \* the table name it was called with
  todo,    \* directory entries readdir has still to return
  storage, \* the meta file that was chosen
  lines,   \* what is left to read of it
  schema,  \* [table, columns] read so far
  result,  \* what the last call answered
  edited   \* history: a file was edited after the last call began

vars == <<listed, meta, csv, pc, name, todo, storage, lines, schema, result, edited>>
disk == <<listed, meta, csv>>

NoSchema == [table |-> None, columns |-> None]
NoResult == [kind |-> "none"]

Readable(s) == meta[s] \in MetaFiles

Init ==
  /\ listed \in BOOLEAN
  /\ meta \in [Storage -> Content]
  /\ csv \in [Storage -> HeaderFile]
  /\ pc = "idle"
  /\ name = None
  /\ todo = {}
  /\ storage = None
  /\ lines = <<>>
  /\ schema = NoSchema
  /\ result = NoResult
  /\ edited = FALSE

Return(answer) ==
  /\ pc' = "idle"
  /\ todo' = {}
  /\ storage' = None
  /\ lines' = <<>>
  /\ schema' = NoSchema
  /\ result' = answer
  /\ UNCHANGED <<disk, name, edited>>

Reject == Return([kind |-> "error"])

LoadSchema(n) ==
  /\ pc = "idle"
  /\ pc' = "open"
  /\ name' = n
  /\ result' = NoResult
  /\ edited' = FALSE
  /\ UNCHANGED <<disk, todo, storage, lines, schema>>

-----------------------------------------------------------------------------
(* find_schema_path                                                        *)

Choose(s) ==
  /\ storage' = s
  /\ pc' = "reopen"
  /\ todo' = {}
  /\ UNCHANGED <<disk, name, lines, schema, result, edited>>

OpenExact == pc = "open" /\ name \in Storage /\ Readable(name) /\ Choose(name)

\* fopen fails, and not because there is no such file: nothing else is tried.
OpenExactFails ==
  /\ pc = "open"
  /\ name \in TooLong \/ (name \in Storage /\ meta[name] = Unreadable)
  /\ Reject

\* The table has no file of its own name, and a file that declares it is sought.
Searches(n) == n \notin TooLong /\ (n \in Storage => meta[n] = Absent)

OpenDirectoryFails == pc = "open" /\ Searches(name) /\ ~listed /\ Reject

OpenDirectory ==
  /\ pc = "open"
  /\ Searches(name)
  /\ listed
  /\ pc' = "search"
  /\ todo' = {s \in Storage : meta[s] # Absent}
  /\ UNCHANGED <<disk, name, storage, lines, schema, result, edited>>

\* file_declares_table: any table line counts, broken lines do not matter.
Declares(file, n) == Contains(file, TableLine(n))

CandidateMatches ==
  /\ pc = "search"
  /\ \E s \in todo : Readable(s) /\ Declares(meta[s], name) /\ Choose(s)

CandidateSkipped ==
  /\ pc = "search"
  /\ \E s \in todo :
       /\ Readable(s)
       /\ ~Declares(meta[s], name)
       /\ todo' = todo \ {s}
  /\ UNCHANGED <<disk, pc, name, storage, lines, schema, result, edited>>

\* A file that cannot be opened ends the search, whatever it describes.
CandidateFails == pc = "search" /\ (\E s \in todo : ~Readable(s)) /\ Reject

NoCandidate == pc = "search" /\ todo = {} /\ Reject

-----------------------------------------------------------------------------
(* load_schema, once it has a path.                                        *)

Reopen ==
  /\ pc = "reopen"
  /\ Readable(storage)
  /\ lines' = meta[storage]
  /\ pc' = "read"
  /\ UNCHANGED <<disk, name, todo, storage, schema, result, edited>>

ReopenFails == pc = "reopen" /\ ~Readable(storage) /\ Reject

AtLine == pc = "read" /\ lines # <<>>

\* Mutant of Stored: the first line of a kind is kept.
StoredFirst(s, line) ==
  CASE line.key = "table" /\ s.table = None -> [s EXCEPT !.table = line.value]
    [] line.key = "columns" /\ s.columns = None -> [s EXCEPT !.columns = line.value]
    [] OTHER -> s

\* A later line of the same kind replaces an earlier one.
Stored(s, line) ==
  CASE line.key = "table" -> [s EXCEPT !.table = line.value]
    [] line.key = "columns" -> [s EXCEPT !.columns = line.value]
    [] OTHER -> s

Acceptable(line) == line # Broken /\ line # ColumnsLine(Malformed)

ReadLine ==
  /\ AtLine
  /\ Acceptable(Head(lines))
  /\ schema' = Stored(schema, Head(lines))
  /\ lines' = Tail(lines)
  /\ UNCHANGED <<disk, pc, name, todo, storage, result, edited>>

ReadLineRejects == AtLine /\ ~Acceptable(Head(lines)) /\ Reject

\* Mutant of Valid: find_schema_path has found the name, so it is not compared.
ValidUnnamed(s) == s.table # None /\ s.columns # None /\ ~Contains(s.columns, Id)

\* All fields are there, no column is called id, and the table or the file has
\* the name the statement used.
Valid(s) ==
  /\ s.table # None
  /\ s.columns # None
  /\ ~Contains(s.columns, Id)
  /\ name \in {s.table, storage}

Validate ==
  /\ pc = "read"
  /\ lines = <<>>
  /\ Valid(schema)
  /\ pc' = "header"
  /\ UNCHANGED <<disk, name, todo, storage, lines, schema, result, edited>>

ValidateRejects == pc = "read" /\ lines = <<>> /\ ~Valid(schema) /\ Reject

\* validate_csv_header
CheckHeader ==
  /\ pc = "header"
  /\ IF csv[storage] = schema.columns
     THEN Return([kind |-> "ok", storage |-> storage, schema |-> schema])
     ELSE Reject

\* A string cannot be copied, a path cannot be built, or the process has no file
\* handle left.
OutOfResources == pc # "idle" /\ Return([kind |-> "outOfResources"])

-----------------------------------------------------------------------------
(* The user.                                                               *)

\* The directory's rights are changed.
EditDirectory ==
  /\ listed' = ~listed
  /\ edited' = TRUE
  /\ UNCHANGED <<meta, csv, pc, name, todo, storage, lines, schema, result>>

EditMeta(s, file) ==
  /\ meta' = [meta EXCEPT ![s] = file]
  /\ edited' = TRUE
  /\ UNCHANGED <<listed, csv, pc, name, todo, storage, lines, schema, result>>

EditCsv(s, file) ==
  /\ csv' = [csv EXCEPT ![s] = file]
  /\ edited' = TRUE
  /\ UNCHANGED <<listed, meta, pc, name, todo, storage, lines, schema, result>>

Progress ==
  \/ OpenExact \/ OpenExactFails \/ OpenDirectory \/ OpenDirectoryFails
  \/ CandidateMatches \/ CandidateSkipped \/ CandidateFails \/ NoCandidate
  \/ Reopen \/ ReopenFails \/ ReadLine \/ ReadLineRejects
  \/ Validate \/ ValidateRejects \/ CheckHeader

Next ==
  \/ Progress
  \/ OutOfResources
  \/ EditDirectory
  \/ \E n \in Name : LoadSchema(n)
  \/ \E s \in Storage : (\E file \in Content : EditMeta(s, file))
                        \/ (\E file \in HeaderFile : EditCsv(s, file))

Spec == Init /\ [][Next]_vars

-----------------------------------------------------------------------------
(* Properties.                                                             *)

\* The range of the variables; the header is compared with a complete schema.
TypeOK ==
  /\ listed \in BOOLEAN
  /\ meta \in [Storage -> Content]
  /\ csv \in [Storage -> HeaderFile]
  /\ pc \in {"idle", "open", "search", "reopen", "read", "header"}
  /\ name \in Name \cup {None}
  /\ todo \subseteq Storage
  /\ storage \in Storage \cup {None}
  /\ lines \in Seq(Line)
  /\ schema \in [table : Name \cup {None}, columns : Columns \cup {None}]
  /\ pc = "header" => schema \in Complete
  /\ edited \in BOOLEAN

\* A schema that is handed out was asked for by its name or by its file's name
\* and has no column called id, even when files were replaced between the
\* search and the reading, or a file has two table lines.
AnswerFitsRequest ==
  result.kind = "ok" =>
    /\ name \in {result.schema.table, result.storage}
    /\ result.schema \in Complete
    /\ ~Contains(result.schema.columns, Id)

\* The files that may describe table n: the file of that name, or else those
\* that declare the name.  Those are not sought for a name that is too long.
Candidates(n) ==
  IF Searches(n) THEN {s \in Storage : Readable(s) /\ Declares(meta[s], n)}
  ELSE {n} \cap Storage

\* The schema that a meta file describes: the last line of each kind.
LastOf(file, key) ==
  LET at == {i \in DOMAIN file : file[i].key = key}
  IN  IF at = {} THEN None ELSE file[CHOOSE i \in at : \A j \in at : j <= i].value

Described(s) == [table |-> LastOf(meta[s], "table"), columns |-> LastOf(meta[s], "columns")]

\* The candidate is well formed, belongs to n and fits its data file.
Usable(n, s) ==
  /\ Readable(s)
  /\ \A i \in DOMAIN meta[s] : Acceptable(meta[s][i])
  /\ Described(s) \in Complete
  /\ ~Contains(Described(s).columns, Id)
  /\ n \in {Described(s).table, s}
  /\ csv[s] = Described(s).columns

\* While nobody edits, the answer is what the directory as a whole says.  A
\* schema is one a candidate describes.  A refusal means that a candidate is
\* unusable or there is none, or, only where the table has no file of its own
\* name, that the directory or a file in it cannot be opened.
AnswerMatchesCatalog ==
  ~edited =>
    /\ result.kind = "ok" =>
         /\ result.storage \in Candidates(name)
         /\ Usable(name, result.storage)
         /\ result.schema = Described(result.storage)
    /\ result.kind = "error" =>
         \/ \E s \in Candidates(name) : ~Usable(name, s)
         \/ Candidates(name) = {}
         \/ Searches(name) /\ (~listed \/ \E s \in Storage : meta[s] = Unreadable)

=============================================================================
