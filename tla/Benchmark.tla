------------------------------ MODULE Benchmark -----------------------------
(***************************************************************************)
(* The benchmark program as a client of IndexedTable: prepare empties a    *)
(* table file behind the index's back and fills it with INSERTs of         *)
(* generated rows; query-only asks for one row by id and by value, several *)
(* times each.  Between its runs the same process may do anything else, as *)
(* the tests do, so that a run finds files and indexes of any kind.        *)
(***************************************************************************)
EXTENDS IndexedTable

CONSTANTS
  Runner,        \* the process that runs the benchmark
  Generated,     \* the row build_insert_statement makes for a row number
  BrokenHeader,  \* what is there of a header that could not be written
  Counts,        \* row counts
  Targets,       \* target ids
  QueryRepeat

ASSUME BenchmarkAssumption ==
  /\ Runner \in Proc
  /\ Counts \cup Targets \subseteq Nat \ {0}
  /\ Generated \in [1..MaxId -> Row]
  /\ Counts \cup Targets \subseteq 1..MaxId
  /\ BrokenHeader \in Garbled
  /\ QueryRepeat \in Nat \ {0}

VARIABLES
  bench,   \* where the benchmark is, "off" between its runs
  table,   \* the table of its run
  goal,    \* row_count or target_id
  done,    \* rows inserted, or queries answered
  result,  \* how its last run ended
  found    \* what the last query by id answered

run == <<table, goal>>
allVars == <<vars, bench, run, done, result, found>>

BenchInit ==
  /\ Init
  /\ bench = "off"
  /\ table \in Table
  /\ goal = 1
  /\ done = 0
  /\ result = "none"
  /\ found = NoReply

\* load_schema compares the header of the file with the schema.
SchemaLoads(t) == file[t][1] = Header

At(where) == bench = where /\ Idle

Go(where, count) == bench' = where /\ done' = count /\ UNCHANGED <<run, result, found>>

Over(how) == bench' = "off" /\ done' = 0 /\ result' = how /\ UNCHANGED <<run, found>>

-----------------------------------------------------------------------------
(* What both modes share.                                                  *)

Start(where, n) ==
  /\ At("off")
  /\ \E t \in Table : SchemaLoads(t) /\ table' = t
  /\ bench' = where
  /\ goal' = n
  /\ done' = 0
  /\ result' = "none"
  /\ found' = NoReply
  /\ UNCHANGED vars

\* Mutant of Reset: what is loaded stays loaded.
ResetNothing == UNCHANGED <<disk, index, force, acked>>

Reset == ClearRegistry(Runner)

\* A run that is not over submits a statement and waits for its answer.
Submit(where) == bench' = where /\ UNCHANGED <<run, done, result, found>>

\* An error ends the run where it is, and the registry is not reset.
RunFails ==
  /\ bench \in {"insert", "inserting", "finding", "selecting"}
  /\ Idle
  /\ bench = "insert" \/ reply = ErrorReply
  /\ Over("failed")
  /\ UNCHANGED vars

\* A run that has done all it should resets the registry again.
Complete(how) == Reset /\ Over(how) /\ UNCHANGED <<pc, stmt, reply>>

-----------------------------------------------------------------------------
(* run_prepare_mode                                                        *)

StartPrepare == \E n \in Counts : Start("header", n)

\* Mutant of Emptied: the file is opened to append.
EmptiedNot(t) == file[t]

\* The file after fopen with "wb" and the header line.
Emptied(t) == <<Header>>

SetFile(chunks, ends) ==
  /\ file' = [file EXCEPT ![table] = chunks]
  /\ ended' = [ended EXCEPT ![table] = ends]
  /\ acked' = {a \in acked : a[1] # table}
  /\ UNCHANGED <<index, force, pc, stmt, reply>>

WriteHeader == At("header") /\ SetFile(Emptied(table), TRUE) /\ Go("reset", 0)

\* The file cannot be opened, or only some of the header gets into it.
WriteHeaderFails ==
  /\ At("header")
  /\ \/ UNCHANGED vars
     \/ \E head \in {Header, BrokenHeader} : SetFile(<<head>>, FALSE)
  /\ Over("failed")

ResetForInserts ==
  /\ At("reset")
  /\ Reset
  /\ Go("insert", 0)
  /\ UNCHANGED <<pc, stmt, reply>>

MoreRows == done < goal

InsertNext ==
  /\ At("insert")
  /\ MoreRows
  /\ BeginInsert(Runner, table, Generated[done + 1])
  /\ Submit("inserting")

Inserted ==
  /\ At("inserting")
  /\ reply.kind = "inserted"
  /\ Go("insert", done + 1)
  /\ UNCHANGED vars

Prepared == At("insert") /\ ~MoreRows /\ Complete("prepared")

-----------------------------------------------------------------------------
(* run_query_only_mode and run_query_benchmark                             *)

StartQueries == \E k \in Targets : Start("resetFirst", k)

ResetForQueries ==
  /\ At("resetFirst")
  /\ Reset
  /\ Go("find", 0)
  /\ UNCHANGED <<pc, stmt, reply>>

FindTarget ==
  /\ At("find")
  /\ BeginFind(Runner, table, goal)
  /\ Submit("finding")

TargetFound ==
  /\ At("finding")
  /\ reply.kind \in {"row", "noRow"}
  /\ found' = reply
  /\ bench' = IF done + 1 < QueryRepeat THEN "find" ELSE "select"
  /\ done' = (done + 1) % QueryRepeat
  /\ UNCHANGED <<vars, run, result>>

SelectTarget ==
  /\ At("select")
  /\ BeginSelect(Runner, table, Generated[goal])
  /\ Submit("selecting")

\* Mutant of TargetSelected: the repetitions are not counted.
TargetSelectedAgain ==
  /\ At("selecting")
  /\ reply.kind = "rows"
  /\ done + 1 < QueryRepeat
  /\ Go("select", done)
  /\ UNCHANGED vars

TargetSelected ==
  /\ At("selecting")
  /\ reply.kind = "rows"
  /\ done + 1 < QueryRepeat
  /\ Go("select", done + 1)
  /\ UNCHANGED vars

Queried ==
  /\ At("selecting")
  /\ reply.kind = "rows"
  /\ done + 1 = QueryRepeat
  /\ Complete("queried")

-----------------------------------------------------------------------------
\* The benchmark goes on as its code says.
BenchStep ==
  \/ WriteHeader \/ ResetForInserts \/ InsertNext \/ Inserted \/ Prepared
  \/ ResetForQueries \/ FindTarget \/ TargetFound \/ SelectTarget \/ TargetSelected \/ Queried
  \/ RunFails

BenchStart == StartPrepare \/ StartQueries

\* The statement that runs goes on, or fails.
StatementStep == (Progress \/ Failure) /\ UNCHANGED <<bench, run, done, result, found>>

\* Between the runs: statements on tables whose schema loads.
OtherStatement ==
  /\ At("off")
  /\ \E t \in Table : SchemaLoads(t) /\ BeginStatement(Runner, t)
  /\ UNCHANGED <<bench, run, done, found>>
  /\ result' = "none"

\* The process dies, within a statement or within a run.
Killed ==
  /\ bench # "off" \/ ~Idle
  /\ ClearRegistry(Runner)
  /\ Return(NoReply)
  /\ Over("killed")

BenchNext == BenchStep \/ BenchStart \/ WriteHeaderFails \/ StatementStep \/ OtherStatement \/ Killed

BenchSpec == BenchInit /\ [][BenchNext]_allVars

\* The benchmark and the statements it submits are sequential code that runs.
FairBenchSpec == BenchSpec /\ WF_allVars(BenchStep) /\ WF_allVars(StatementStep)

-----------------------------------------------------------------------------
(* Properties.                                                             *)

\* The data set prepare promises: a header and the generated rows in order.
DataSet(n) == <<Header>> \o [i \in 1..n |-> Generated[i]]

\* docs/requirements.md:127: a prepare that reports success has made the data
\* set of its row count, whatever was in the file and in the index before, and
\* whatever failed in earlier runs.
PreparedIsDataSet == result = "prepared" => file[table] = DataSet(goal)

\* No statement of a run uses an index of rows that prepare has thrown away:
\* but for the INSERT that is between its write and its registration, an index
\* that is loaded while a run's statement is under way is that of the file.
RunSeesItsFile ==
  bench # "off" /\ ~Idle /\ loaded[Runner][table] /\ ~Registering(Runner, table) =>
    Matches(tree[Runner][table], file[table])

\* benchmark_main.c:285: on a prepared data set the query by id and the query
\* by value find the same record.
QueriesFindTheSame ==
  result = "queried" /\ (\E n \in Counts : file[table] = DataSet(n)) =>
    reply.rows = IF found.kind = "row" THEN {<<found.id, found.row>>} ELSE {}

\* Every run of the benchmark comes to an end.
RunsEnd == bench # "off" ~> bench = "off"

=============================================================================
