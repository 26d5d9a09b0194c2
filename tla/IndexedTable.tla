---------------------------- MODULE IndexedTable ----------------------------
(***************************************************************************)
(* The core of the SQL processor: INSERT, SELECT ... WHERE id = k and      *)
(* SELECT over append-only CSV files, each with an in-memory index from    *)
(* the hidden row id to the offset at which the row begins.                *)
(*                                                                         *)
(*   executor.c     execute_insert, execute_index_select, execute_select   *)
(*   table_index.c  the registry: one index per table, rebuilt on demand   *)
(*   storage.c      append_row_csv, read_row_at_offset_csv, scan_rows_csv  *)
(*                                                                         *)
(* A file is the sequence of chunks that fgets(line, 4096) returns, line   *)
(* ends removed, the header first.  An offset is the position of a chunk.  *)
(* An id is not stored: it is the rank of the row among the data rows, so  *)
(* the index must agree with what a scan of the file would count.          *)
(*                                                                         *)
(* One statement runs at a time, and each of its steps is an action.  A    *)
(* process is one run of the program (a prompt that stays open, a command  *)
(* line call): all share the files, each has a registry of its own.        *)
(***************************************************************************)
EXTENDS Integers, Sequences, FiniteSets

CONSTANTS
  Table,      \* storage names
  Proc,       \* running processes of the program
  Row,        \* chunks that parse into as many fields as the schema has columns
  Short,      \* chunks that parse into another number of fields
  Garbled,    \* chunks csv_parse_line rejects
  Blank,      \* an empty line
  Header,     \* the first line
  LongRow,    \* rows of 4096 bytes and more: fgets returns them in two chunks
  Parts,      \* [LongRow -> the two chunks]
  Joined,     \* what two rows make when no line end separates them
  Torn,       \* chunks a row can leave behind when writing it fails half way
  LostFlush,  \* TRUE: the write that fclose performs may fail
  AnyRow,     \* a SELECT without WHERE
  InitFiles,  \* contents a table file may have when the program starts
  MaxChunks,  \* bound: no INSERT begins on a file of this many chunks
  MaxId       \* bound: no INSERT begins when next_id is above

Chunk == Row \cup Short \cup Garbled \cup {Blank, Header}

ASSUME ProgramAssumption == Table # {} /\ Proc # {}

ASSUME ChunkAssumption ==
  /\ Blank \notin Row \cup Short \cup Garbled \cup {Header}
  /\ Row \cap (Short \cup Garbled) = {}
  /\ Short \cap Garbled = {}
  /\ Joined \in Chunk \ {Blank}
  /\ Torn \subseteq Chunk \ {Blank}
  /\ AnyRow \notin Row

ASSUME LongRowAssumption ==
  /\ LongRow \cap Chunk = {}
  /\ \A r \in LongRow : Parts[r] \in Seq(Chunk \ {Blank}) /\ Len(Parts[r]) = 2

ASSUME FileAssumption ==
  /\ InitFiles \subseteq {f \in Seq(Chunk) : Len(f) > 0}
  /\ LostFlush \in BOOLEAN
  /\ MaxChunks \in Nat
  /\ MaxId \in Nat

VARIABLES
  file,     \* [Table -> Seq(Chunk)], the CSV files
  ended,    \* [Table -> BOOLEAN], the last character of the file is a line end
  loaded,   \* [Proc -> [Table -> BOOLEAN]], TableIndex.loaded
  next_id,  \* [Proc -> [Table -> Nat]], TableIndex.next_id
  tree,     \* [Proc -> [Table -> id :> offset]], the contents of TableIndex.tree
  force,    \* [Proc -> BOOLEAN], force_next_register_failure
  pc,       \* where the running statement is, "idle" between statements
  stmt,     \* its parameters and local variables
  reply,    \* what the last statement answered
  acked     \* history: <<table, id, row>> for every INSERT that answered ok

vars == <<file, ended, loaded, next_id, tree, force, pc, stmt, reply, acked>>
index == <<loaded, next_id, tree>>
disk == <<file, ended>>

-----------------------------------------------------------------------------
(* The file as a scan sees it.                                             *)

\* Positions of the chunks a scan counts as rows: not the header, not blank.
DataRows(f) == {i \in 2..Len(f) : f[i] # Blank}

\* The id a scan gives to the data row at position i.
RowId(f, i) == Cardinality({j \in DataRows(f) : j <= i})

\* A map that holds exactly the ids and positions a scan of f would find.
Matches(map, f) ==
  /\ DOMAIN map = 1..Cardinality(DataRows(f))
  /\ \A i \in DataRows(f) : map[RowId(f, i)] = i

-----------------------------------------------------------------------------
(* Statements.                                                             *)

EmptyTree == [id \in {} |-> 0]

\* The tree with the entry bptree_insert adds; entries that are there stay.
WithEntry(map, id, offset) ==
  [i \in DOMAIN map \cup {id} |-> IF i \in DOMAIN map THEN map[i] ELSE offset]

NoReply == [kind |-> "none"]
ErrorReply == [kind |-> "error"]

NoStmt == [proc |-> CHOOSE p \in Proc : TRUE, table |-> CHOOSE t \in Table : TRUE,
           row |-> AnyRow, id |-> 0, offset |-> 0, cont |-> "find",
           pos |-> 0, next |-> 0, rows |-> {}]

P == stmt.proc
T == stmt.table
Index == tree[P][T]
Lines == file[T]

Idle == pc = "idle"

\* The statement goes on at `where`.
Goto(where) == pc' = where /\ UNCHANGED reply

\* The statement returns to its caller: its local variables are gone.
Return(answer) == pc' = "idle" /\ stmt' = NoStmt /\ reply' = answer

\* The index entry of the running statement's table, and only that one.
SetEntry(ld, nx, tr) ==
  /\ loaded' = [loaded EXCEPT ![P][T] = ld]
  /\ next_id' = [next_id EXCEPT ![P][T] = nx]
  /\ tree' = [tree EXCEPT ![P][T] = tr]

\* Mutant of ClearEntry: next_id set to 0, as memset leaves it.
ClearEntryZeroed == SetEntry(FALSE, 0, EmptyTree)

\* table_index_invalidate, and the failure path of ensure_loaded.
ClearEntry == SetEntry(FALSE, 1, EmptyTree)

Init ==
  /\ file \in [Table -> InitFiles]
  /\ ended \in [Table -> BOOLEAN]
  /\ loaded = [p \in Proc |-> [t \in Table |-> FALSE]]
  /\ next_id = [p \in Proc |-> [t \in Table |-> 1]]
  /\ tree = [p \in Proc |-> [t \in Table |-> EmptyTree]]
  /\ force = [p \in Proc |-> FALSE]
  /\ pc = "idle"
  /\ stmt = NoStmt
  /\ reply = NoReply
  /\ acked = {}

\* A statement that passed load_schema (and an INSERT its validation) begins.
Begin(s, where) ==
  /\ Idle
  /\ stmt' = s
  /\ pc' = where
  /\ reply' = NoReply
  /\ UNCHANGED <<disk, index, force, acked>>

BeginInsert(p, t, r) ==
  /\ Len(file[t]) < MaxChunks
  /\ next_id[p][t] <= MaxId
  /\ Begin([NoStmt EXCEPT !.proc = p, !.table = t, !.row = r, !.cont = "getId"], "ensure")

BeginFind(p, t, k) ==
  Begin([NoStmt EXCEPT !.proc = p, !.table = t, !.id = k, !.cont = "find"], "ensure")

BeginSelect(p, t, w) ==
  Begin([NoStmt EXCEPT !.proc = p, !.table = t, !.row = w, !.pos = 2, !.next = 1], "select")

-----------------------------------------------------------------------------
(* ensure_loaded: reuse the index, or rebuild it from the file row by row. *)

AlreadyLoaded ==
  /\ pc = "ensure"
  /\ loaded[P][T]
  /\ Goto(stmt.cont)
  /\ UNCHANGED <<disk, index, force, stmt, acked>>

StartRebuild ==
  /\ pc = "ensure"
  /\ ~loaded[P][T]
  /\ tree' = [tree EXCEPT ![P][T] = EmptyTree]
  /\ stmt' = [stmt EXCEPT !.pos = 2, !.next = 1]
  /\ Goto("scan")
  /\ UNCHANGED <<disk, loaded, next_id, force, acked>>

AtEnd == stmt.pos > Len(Lines)
Here == Lines[stmt.pos]

\* Mutant of SkipBlank: the loop does not read the next line.
SkipBlankStuck ==
  /\ pc \in {"scan", "select"}
  /\ ~AtEnd
  /\ Here = Blank
  /\ UNCHANGED vars

SkipBlank ==
  /\ pc \in {"scan", "select"}
  /\ ~AtEnd
  /\ Here = Blank
  /\ stmt' = [stmt EXCEPT !.pos = @ + 1]
  /\ UNCHANGED <<disk, index, force, pc, reply, acked>>

\* Mutant of RebuildRow: the offset is taken after the line is read.
RebuildRowLate ==
  /\ pc = "scan"
  /\ ~AtEnd
  /\ Here \notin Garbled \cup {Blank}
  /\ tree' = [tree EXCEPT ![P][T] = WithEntry(Index, stmt.next, stmt.pos + 1)]
  /\ stmt' = [stmt EXCEPT !.pos = @ + 1, !.next = @ + 1]
  /\ UNCHANGED <<disk, loaded, next_id, force, pc, reply, acked>>

\* rebuild_row: the columns are not looked at, the id is a running count.
RebuildRow ==
  /\ pc = "scan"
  /\ ~AtEnd
  /\ Here \notin Garbled \cup {Blank}
  /\ tree' = [tree EXCEPT ![P][T] = WithEntry(Index, stmt.next, stmt.pos)]
  /\ stmt' = [stmt EXCEPT !.pos = @ + 1, !.next = @ + 1]
  /\ UNCHANGED <<disk, loaded, next_id, force, pc, reply, acked>>

\* Mutant of RebuildDone: the entry is not marked as loaded.
RebuildDoneUnmarked ==
  /\ pc = "scan"
  /\ AtEnd
  /\ SetEntry(FALSE, stmt.next, Index)
  /\ Goto(stmt.cont)
  /\ UNCHANGED <<disk, force, stmt, acked>>

RebuildDone ==
  /\ pc = "scan"
  /\ AtEnd
  /\ SetEntry(TRUE, stmt.next, Index)
  /\ Goto(stmt.cont)
  /\ UNCHANGED <<disk, force, stmt, acked>>

\* The error goes to execute_insert (which invalidates if it was registering)
\* or to the end of the statement.
RebuildAborts ==
  /\ ClearEntry
  /\ IF stmt.cont = "insert"
     THEN Goto("invalidate") /\ UNCHANGED stmt
     ELSE Return(ErrorReply)
  /\ UNCHANGED <<disk, force, acked>>

RebuildRejects == pc = "scan" /\ ~AtEnd /\ Here \in Garbled /\ RebuildAborts

\* The file cannot be opened or read, or there is no memory for a tree node.
RebuildFails == pc = "scan" /\ RebuildAborts

-----------------------------------------------------------------------------
(* INSERT.                                                                 *)

GetNextId ==
  /\ pc = "getId"
  /\ stmt' = [stmt EXCEPT !.id = next_id[P][T]]
  /\ Goto("append")
  /\ UNCHANGED <<disk, index, force, acked>>

\* Mutant of WritesLineEnd: the missing line end is not noticed.
WritesNoLineEnd(t) == FALSE

\* append_row_csv writes a line end first when the file does not end in one.
WritesLineEnd(t) == ~ended[t]

Written(r) == IF r \in LongRow THEN Parts[r] ELSE <<r>>

AppendRow ==
  /\ pc = "append"
  /\ IF ended[T] \/ WritesLineEnd(T)
     THEN /\ file' = [file EXCEPT ![T] = @ \o Written(stmt.row)]
          /\ stmt' = [stmt EXCEPT !.offset = Len(Lines) + 1]
     ELSE /\ file' = [file EXCEPT ![T][Len(Lines)] = Joined]
          /\ stmt' = [stmt EXCEPT !.offset = Len(Lines)]
  /\ ended' = [ended EXCEPT ![T] = FALSE]
  /\ Goto("register")
  /\ UNCHANGED <<index, force, acked>>

\* build_insert_row fails, or append_row_csv fails before it writes a field.
AppendFails ==
  /\ pc = "append"
  /\ \E e \in {ended[T], TRUE} : ended' = [ended EXCEPT ![T] = e]
  /\ Return(ErrorReply)
  /\ UNCHANGED <<file, index, force, acked>>

\* Writing fails after some of the row: the index is not invalidated.
AppendTorn ==
  /\ pc = "append"
  /\ \E c \in Torn : file' = [file EXCEPT ![T] = Append(@, c)]
  /\ ended' = [ended EXCEPT ![T] = FALSE]
  /\ Return(ErrorReply)
  /\ UNCHANGED <<index, force, acked>>

\* The row is still in the stdio buffer when fclose fails to write it, or
\* writes only some of it, and the result of fclose is not looked at.
AppendLost ==
  /\ pc = "append"
  /\ LostFlush
  /\ \/ UNCHANGED disk
     \/ /\ \E c \in Torn : file' = [file EXCEPT ![T] = Append(@, c)]
        /\ ended' = [ended EXCEPT ![T] = FALSE]
  /\ stmt' = [stmt EXCEPT !.offset = Len(Lines) + 1]
  /\ Goto("register")
  /\ UNCHANGED <<index, force, acked>>

RegisterForcedToFail ==
  /\ pc = "register"
  /\ force[P]
  /\ force' = [force EXCEPT ![P] = FALSE]
  /\ Goto("invalidate")
  /\ UNCHANGED <<disk, index, stmt, acked>>

RegisterRow ==
  /\ pc = "register"
  /\ ~force[P]
  /\ stmt' = [stmt EXCEPT !.cont = "insert"]
  /\ Goto("ensure")
  /\ UNCHANGED <<disk, index, force, acked>>

WithId == WithEntry(Index, stmt.id, stmt.offset)

\* Mutant of NextAfter: next_id moves only past a greater id.
NextAfterGreater(id, next) == IF id > next THEN id + 1 ELSE next

\* next_id is pushed past the id that went in.
NextAfter(id, next) == IF id >= next THEN id + 1 ELSE next

InsertId ==
  /\ pc = "insert"
  /\ stmt.id \notin DOMAIN Index
  /\ SetEntry(loaded[P][T], NextAfter(stmt.id, next_id[P][T]), WithId)
  /\ acked' = acked \cup {<<T, stmt.id, stmt.row>>}
  /\ Return([kind |-> "inserted"])
  /\ UNCHANGED <<disk, force>>

\* bptree_insert refuses a duplicate and leaves the tree alone; out of memory
\* it leaves a tree in which any of the keys may be missing.
InsertFails ==
  /\ pc = "insert"
  /\ \E keep \in SUBSET DOMAIN WithId :
       /\ stmt.id \in DOMAIN Index => keep = DOMAIN Index
       /\ tree' = [tree EXCEPT ![P][T] = [id \in keep |-> WithId[id]]]
  /\ Goto("invalidate")
  /\ UNCHANGED <<disk, loaded, next_id, force, stmt, acked>>

\* Mutant of Invalidate: the failed INSERT leaves the index as it is.
InvalidateNothing ==
  /\ pc = "invalidate"
  /\ Return(ErrorReply)
  /\ UNCHANGED <<disk, index, force, acked>>

\* execute_insert after a failed registration: the row stays in the file.
Invalidate ==
  /\ pc = "invalidate"
  /\ ClearEntry
  /\ Return(ErrorReply)
  /\ UNCHANGED <<disk, force, acked>>

-----------------------------------------------------------------------------
(* SELECT ... WHERE id = k.                                                *)

FindRow ==
  /\ pc = "find"
  /\ IF stmt.id \in DOMAIN Index
     THEN stmt' = [stmt EXCEPT !.offset = Index[stmt.id]] /\ Goto("read")
     ELSE Return([kind |-> "noRow", table |-> T, id |-> stmt.id])
  /\ UNCHANGED <<disk, index, force, acked>>

\* read_row_at_offset_csv, and the check against the schema's column count.
ReadableAt(f, i) == i <= Len(f) /\ f[i] \in Row

ReadRow ==
  /\ pc = "read"
  /\ Return(IF ReadableAt(Lines, stmt.offset)
            THEN [kind |-> "row", table |-> T, id |-> stmt.id, row |-> Lines[stmt.offset]]
            ELSE ErrorReply)
  /\ UNCHANGED <<disk, index, force, acked>>

-----------------------------------------------------------------------------
(* SELECT by scanning, with or without WHERE on a column.                  *)

RowMatches(w, r) == w \in {AnyRow, r}

\* Mutant of SelectRow: the id is counted after the WHERE filter.
SelectRowCountingMatches ==
  /\ pc = "select"
  /\ ~AtEnd
  /\ Here \in Row
  /\ stmt' = IF RowMatches(stmt.row, Here)
             THEN [stmt EXCEPT !.pos = @ + 1, !.next = @ + 1,
                               !.rows = @ \cup {<<stmt.next, Here>>}]
             ELSE [stmt EXCEPT !.pos = @ + 1]
  /\ UNCHANGED <<disk, index, force, pc, reply, acked>>

SelectRow ==
  /\ pc = "select"
  /\ ~AtEnd
  /\ Here \in Row
  /\ stmt' = [stmt EXCEPT !.pos = @ + 1, !.next = @ + 1,
                          !.rows = IF RowMatches(stmt.row, Here)
                                   THEN @ \cup {<<stmt.next, Here>>} ELSE @]
  /\ UNCHANGED <<disk, index, force, pc, reply, acked>>

SelectDone ==
  /\ pc = "select"
  /\ AtEnd
  /\ Return([kind |-> "rows", table |-> T, where |-> stmt.row, rows |-> stmt.rows])
  /\ UNCHANGED <<disk, index, force, acked>>

SelectRejects ==
  /\ pc = "select"
  /\ ~AtEnd
  /\ Here \notin Row \cup {Blank}
  /\ Return(ErrorReply)
  /\ UNCHANGED <<disk, index, force, acked>>

\* The file cannot be opened or read, no memory for the result, or no output.
SelectFails ==
  /\ pc \in {"find", "read", "select"}
  /\ Return(ErrorReply)
  /\ UNCHANGED <<disk, index, force, acked>>

-----------------------------------------------------------------------------
(* What happens to a process between or during statements.                 *)

\* table_index_force_next_register_failure, the hook the tests use.
ForceNextRegisterFailure(p) ==
  /\ Idle
  /\ force' = [force EXCEPT ![p] = TRUE]
  /\ UNCHANGED <<disk, index, pc, stmt, reply, acked>>

\* table_index_registry_reset: every entry goes, and the flag with them.
ClearRegistry(p) ==
  /\ loaded' = [loaded EXCEPT ![p] = [t \in Table |-> FALSE]]
  /\ next_id' = [next_id EXCEPT ![p] = [t \in Table |-> 1]]
  /\ tree' = [tree EXCEPT ![p] = [t \in Table |-> EmptyTree]]
  /\ force' = [force EXCEPT ![p] = FALSE]
  /\ UNCHANGED <<disk, acked>>

RegistryReset(p) == Idle /\ ClearRegistry(p) /\ UNCHANGED <<pc, stmt, reply>>

\* The process running the statement dies; its memory is gone, the file stays.
Crash == ~Idle /\ ClearRegistry(P) /\ Return(NoReply)

-----------------------------------------------------------------------------
Ids == 0..(MaxId + 1)

\* The running statement goes on as its code says.
Progress ==
  \/ AlreadyLoaded \/ StartRebuild \/ SkipBlank \/ RebuildRow \/ RebuildDone
  \/ RebuildRejects \/ GetNextId \/ AppendRow \/ RegisterForcedToFail
  \/ RegisterRow \/ InsertId \/ Invalidate \/ FindRow \/ ReadRow
  \/ SelectRow \/ SelectDone \/ SelectRejects

\* A file operation or an allocation of the running statement fails.
Failure ==
  \/ RebuildFails \/ AppendFails \/ AppendTorn \/ AppendLost \/ InsertFails
  \/ SelectFails

BeginStatement(p, t) ==
  \/ \E r \in Row \cup LongRow : BeginInsert(p, t, r)
  \/ \E k \in Ids : BeginFind(p, t, k)
  \/ \E w \in Row \cup {AnyRow} : BeginSelect(p, t, w)

Environment ==
  \/ \E p \in Proc, t \in Table : BeginStatement(p, t)
  \/ \E p \in Proc : ForceNextRegisterFailure(p) \/ RegistryReset(p)
  \/ Crash

Next == Progress \/ Failure \/ Environment

Spec == Init /\ [][Next]_vars

\* The program is sequential code: a statement that has begun goes on.
\* Nothing is assumed of failures, crashes or the user.
FairSpec == Spec /\ WF_vars(Progress)

-----------------------------------------------------------------------------
(* Properties.                                                             *)

Where == {"idle", "ensure", "scan", "getId", "append", "register", "insert",
          "invalidate", "find", "read", "select"}

Conts == {"getId", "insert", "find"}

Offsets == Nat \ {0}

\* The range of the variables (reply apart); ids and offsets are positive.
TypeOK ==
  /\ file \in [Table -> Seq(Chunk)]
  /\ ended \in [Table -> BOOLEAN]
  /\ loaded \in [Proc -> [Table -> BOOLEAN]]
  /\ next_id \in [Proc -> [Table -> Nat \ {0}]]
  /\ DOMAIN tree = Proc
  /\ \A p \in Proc :
       /\ DOMAIN tree[p] = Table
       /\ \A t \in Table :
            /\ DOMAIN tree[p][t] \subseteq Nat \ {0}
            /\ \A id \in DOMAIN tree[p][t] : tree[p][t][id] \in Offsets
  /\ force \in [Proc -> BOOLEAN]
  /\ pc \in Where
  /\ stmt \in [proc : Proc, table : Table, row : Row \cup LongRow \cup {AnyRow},
                id : Nat, offset : Nat, cont : Conts, pos : Nat, next : Nat,
                rows : SUBSET (Nat \X Row)]
  /\ acked \subseteq Table \X (Nat \ {0}) \X (Row \cup LongRow \cup {AnyRow})

\* An INSERT of p into t has written its row and not yet registered it, or
\* has failed to and not yet invalidated the index.
Registering(p, t) ==
  /\ P = p
  /\ T = t
  /\ \/ pc \in {"register", "insert", "invalidate"}
     \/ pc \in {"ensure", "scan"} /\ stmt.cont = "insert"

\* docs/requirements.md 5.1 and 5.3: an index in use holds exactly the ids and
\* offsets a scan of its file would find, and next_id is the first free id.
\* Only the INSERT that is between its write and its registration may see a
\* difference; what it does when registering fails must take it away.
IndexMatchesFile ==
  \A p \in Proc, t \in Table :
    loaded[p][t] /\ ~Registering(p, t) =>
      /\ Matches(tree[p][t], file[t])
      /\ next_id[p][t] = Cardinality(DataRows(file[t])) + 1

\* A SELECT that scans answers every matching row once, each with the id its
\* rank among all data rows gives it, whatever faults came before.
SelectAgreesWithFile ==
  reply.kind = "rows" =>
    LET f == file[reply.table]
        matching == {i \in DataRows(f) : RowMatches(reply.where, f[i])}
    IN  reply.rows = {<<RowId(f, i), f[i]>> : i \in matching}

\* A row whose INSERT answered ok stays in the file under the id it was
\* registered with: later statements, failures, rebuilds and crashes never
\* lose it or renumber it.
AckedRowsKeepTheirId ==
  \A a \in acked :
    \E i \in DataRows(file[a[1]]) :
      RowId(file[a[1]], i) = a[2] /\ file[a[1]][i] = a[3]

\* README.md: the id of a new row is one above the greatest in the table.  The
\* id is taken before the row is written and used after.
NewIdIsNext ==
  /\ pc = "append" => stmt.id = Cardinality(DataRows(Lines)) + 1
  /\ pc = "register" => stmt.id = Cardinality(DataRows(Lines))

\* register_row calls ensure_loaded after the row is in the file: a rebuild at
\* that point would count the row and then refuse it as a duplicate.  It never
\* rebuilds, because get_next_id has loaded the index.
RegisterNeverRebuilds ==
  pc \in {"ensure", "scan"} /\ stmt.cont = "insert" => loaded[P][T]

\* Whatever happened before, the ids of a usable index are 1, 2, ... up to
\* next_id - 1 without a gap, and later ids are never before earlier ones in
\* the file.
IndexIsDense ==
  \A p \in Proc, t \in Table :
    loaded[p][t] /\ ~Registering(p, t) =>
      /\ DOMAIN tree[p][t] = 1..(next_id[p][t] - 1)
      /\ \A i, j \in DOMAIN tree[p][t] : i < j => tree[p][t][i] <= tree[p][t][j]

\* An index that becomes usable is one that matches the file at that moment:
\* a rebuild repairs whatever was wrong with the index before it.
RebuildMatchesFile ==
  [][\A p \in Proc, t \in Table :
       ~loaded[p][t] /\ loaded'[p][t] =>
         /\ Matches(tree'[p][t], file'[t])
         /\ next_id'[p][t] = Cardinality(DataRows(file'[t])) + 1]_vars

\* The files are append-only: no step changes, moves or removes a chunk.
FileOnlyGrows ==
  [][\A t \in Table :
       /\ Len(file[t]) <= Len(file'[t])
       /\ \A i \in 1..Len(file[t]) : file'[t][i] = file[t][i]]_vars

\* Every statement returns, also when the index has to be rebuilt or dropped.
StatementReturns == ~Idle ~> Idle

=============================================================================
