-------------------------- MODULE BenchmarkProofs ---------------------------
(***************************************************************************)
(* The benchmark program (benchmark_main.c) does what it promises, for any *)
(* files, row counts, targets and numbers of repetitions, and after runs   *)
(* that failed, were killed or wrote half a row: what prepare reports as   *)
(* prepared is the data set, no statement of a run uses an index of rows   *)
(* that are gone, and both queries find the same record.                   *)
(*                                                                         *)
(* The lemmas about one statement come from IndexedTableProofs.  There   *)
(* they serve a program that is Undisturbed; here a run relies on them     *)
(* only from its reset to the first error, and then it ends.               *)
(***************************************************************************)
EXTENDS Benchmark, IndexedTableProofs

\* What fclose still has to write reaches the file.  Without it an INSERT can
\* answer ok and leave no row, and no prepare can promise anything.
FlushesWork == ~LostFlush

\* Every row number has a row of its own.
RowsDiffer ==
  \A m, n \in DOMAIN Generated : m # n => Generated[m] # Generated[n]

-----------------------------------------------------------------------------
(* The inductive invariant.                                                *)

BenchPlaces ==
  {"off", "header", "reset", "insert", "inserting", "resetFirst", "find", "finding",
   "select", "selecting"}

\* Where a run is between two statements, and where one of its statements runs.
Between == bench \in {"header", "reset", "insert", "resetFirst", "find", "select"}
Submitted == bench \in {"inserting", "finding", "selecting"}

\* The index was reset when the run began its work.
AfterReset == Submitted \/ bench \in {"insert", "find", "select"}

BenchType ==
  /\ bench \in BenchPlaces
  /\ table \in Table
  /\ bench # "off" => goal \in 1..MaxId
  /\ done \in Nat

\* The statement that runs is that of the benchmark's process, and within a run
\* it is about the table of the run.
OneStatement ==
  /\ ~Idle => P = Runner
  /\ Between => Idle
  /\ Submitted /\ ~Idle => T = table

\* The error that will end the run.
Failed == Submitted /\ Idle /\ reply = ErrorReply

\* The index of the run's table, once it was reset.
RunEntry == AfterReset /\ ~Failed => EntryInv(Runner, table)

\* What the file of a prepare holds, and what its INSERT is about to write or
\* has written.
InsertGoesOn ==
  /\ stmt.row = Generated[done + 1]
  /\ pc \notin {"find", "read", "select"}
  /\ pc \in {"ensure", "scan"} => stmt.cont # "find"
  /\ HasRow => file[table] = DataSet(done)
  /\ HasOffset => file[table] = DataSet(done + 1)

PrepareInv ==
  /\ bench = "reset" => done = 0 /\ file[table] = DataSet(0)
  /\ bench = "insert" => done <= goal /\ file[table] = DataSet(done)
  /\ bench = "inserting" =>
       /\ done < goal
       /\ ~Idle => InsertGoesOn
       /\ Idle /\ reply.kind = "inserted" => file[table] = DataSet(done + 1)
  /\ result = "prepared" => bench = "off" /\ Idle /\ file[table] = DataSet(goal)

\* The answer r to a query for the id `goal` says what is in f.
Finds(r, f) ==
  \/ r.kind = "noRow" /\ goal > Cardinality(DataRows(f))
  \/ /\ r.kind = "row"
     /\ r.id = goal
     /\ \E i \in DataRows(f) : RowId(f, i) = goal /\ r.row = f[i]

FindGoesOn ==
  /\ stmt.id = goal
  /\ pc \in {"ensure", "scan", "find", "read"}
  /\ pc \in {"ensure", "scan"} => stmt.cont = "find"
  /\ pc = "find" => loaded[P][T]
  /\ pc = "read" => stmt.offset \in DataRows(Lines) /\ RowId(Lines, stmt.offset) = goal

Selected ==
  /\ SelectAgreesWithFile
  /\ reply.kind = "rows" => reply.table = table /\ reply.where = Generated[goal]

QueryInv ==
  /\ bench = "finding" =>
       /\ ~Idle => FindGoesOn
       /\ Idle /\ reply.kind \in {"row", "noRow"} => Finds(reply, file[table])
  /\ bench \in {"select", "selecting"} => Finds(found, file[table])
  /\ bench = "selecting" =>
       /\ ~Idle => pc = "select" /\ stmt.row = Generated[goal]
       /\ Idle => Selected
  /\ result = "queried" =>
       /\ bench = "off" /\ Idle /\ goal \in 1..MaxId
       /\ Finds(found, file[table])
       /\ reply.kind = "rows" /\ Selected

StatementInv == TypeInv /\ StaysLoaded /\ CursorInv

RunInv == BenchType /\ OneStatement /\ RunEntry /\ PrepareInv /\ QueryInv

BenchInv == StatementInv /\ RunInv

LEMMA BenchInitHolds == BenchInit => BenchInv
<1> SUFFICES ASSUME BenchInit PROVE BenchInv
  OBVIOUS
<1>1. StatementInv
  <2>1. Init
    BY DEF BenchInit
  <2>2. StaysLoaded
    BY <2>1 DEF Init, StaysLoaded
  <2> QED
    BY <2>1, <2>2, TypeInit, ScanInit DEF StatementInv, ScanInv
<1>2. /\ bench = "off" /\ result = "none" /\ done = 0 /\ table \in Table /\ Idle
  BY DEF BenchInit, Init, Idle
<1>3. BenchType /\ OneStatement
  BY <1>2 DEF BenchType, BenchPlaces, OneStatement, Between, Submitted
<1>4. RunEntry /\ PrepareInv /\ QueryInv
  BY <1>2 DEF RunEntry, AfterReset, Submitted, PrepareInv, QueryInv
<1> QED
  BY <1>1, <1>3, <1>4 DEF BenchInv, RunInv

-----------------------------------------------------------------------------
(* The data set.                                                           *)

LEMMA DataSetIs ==
  ASSUME NEW n \in 0..MaxId
  PROVE  /\ DataSet(n) \in Seq(Chunk) /\ Len(DataSet(n)) = n + 1
         /\ DataSet(n)[1] = Header
         /\ \A i \in 1..n : DataSet(n)[i + 1] = Generated[i] /\ Generated[i] \in Row
<1> DEFINE rows == [i \in 1..n |-> Generated[i]]
<1>0. n \in Nat /\ MaxId \in Nat /\ Header \in Chunk
  BY FileAssumption DEF Chunk
<1>1. \A i \in 1..n : Generated[i] \in Row
  BY <1>0, BenchmarkAssumption
<1>2. rows \in Seq(Row) /\ Len(rows) = n
  BY <1>0, <1>1
<1>3. rows \in Seq(Chunk)
  BY <1>2 DEF Chunk
<1>4. <<Header>> \in Seq(Chunk) /\ Len(<<Header>>) = 1
  BY <1>0
<1> HIDE DEF rows
<1>5. /\ <<Header>> \o rows \in Seq(Chunk) /\ Len(<<Header>> \o rows) = n + 1
      /\ (<<Header>> \o rows)[1] = Header
      /\ \A i \in 1..n : (<<Header>> \o rows)[i + 1] = rows[i]
  BY <1>0, <1>2, <1>3, <1>4
<1>6. DataSet(n) = <<Header>> \o rows
  BY DEF DataSet, rows
<1>7. \A i \in 1..n : rows[i] = Generated[i]
  BY DEF rows
<1> QED
  BY <1>1, <1>5, <1>6, <1>7

LEMMA DataSetGrows ==
  ASSUME NEW n \in Nat, n + 1 \in 1..MaxId
  PROVE  DataSet(n) \o <<Generated[n + 1]>> = DataSet(n + 1)
<1> DEFINE longer == DataSet(n) \o <<Generated[n + 1]>>
<1>0. MaxId \in Nat
  BY FileAssumption
<1>1. n \in 0..MaxId /\ n + 1 \in 0..MaxId
  BY <1>0
<1>2. Generated[n + 1] \in Chunk
  BY BenchmarkAssumption DEF Chunk
<1>3. longer \in Seq(Chunk) /\ Len(longer) = n + 2
      /\ longer[n + 2] = Generated[n + 1]
      /\ \A i \in 1..(n + 1) : longer[i] = DataSet(n)[i]
  BY <1>1, <1>2, DataSetIs
<1> HIDE DEF longer
<1>4. DataSet(n + 1) \in Seq(Chunk) /\ Len(DataSet(n + 1)) = n + 2
  BY <1>1, DataSetIs
<1>5. ASSUME NEW i \in 1..(n + 2)
      PROVE  longer[i] = DataSet(n + 1)[i]
  <2>1. CASE i = 1
    BY <1>1, <1>3, <2>1, DataSetIs
  <2>2. CASE i = n + 2
    <3>1. n + 1 \in 1..(n + 1) /\ n + 2 = (n + 1) + 1
      OBVIOUS
    <3>2. DataSet(n + 1)[n + 2] = Generated[n + 1]
      BY <1>1, <3>1, DataSetIs
    <3> QED
      BY <1>3, <2>2, <3>2
  <2>3. CASE i \in 2..(n + 1)
    <3>1. i - 1 \in 1..n /\ i - 1 \in 1..(n + 1) /\ i = (i - 1) + 1 /\ i \in 1..(n + 1)
      BY <2>3
    <3>2. DataSet(n)[i] = Generated[i - 1] /\ DataSet(n + 1)[i] = Generated[i - 1]
      BY <1>1, <3>1, DataSetIs
    <3> QED
      BY <1>3, <3>1, <3>2
  <2> QED
    BY <2>1, <2>2, <2>3
<1>6. longer = DataSet(n + 1)
  BY <1>3, <1>4, <1>5
<1> QED
  BY <1>6 DEF longer

\* The id of a generated row is its number.
LEMMA DataSetRows ==
  ASSUME NEW n \in 0..MaxId
  PROVE  /\ DataRows(DataSet(n)) = 2..(n + 1)
         /\ Cardinality(DataRows(DataSet(n))) = n
         /\ \A i \in 2..(n + 1) : RowId(DataSet(n), i) = i - 1
<1>0. n \in Nat /\ Len(DataSet(n)) = n + 1
  BY DataSetIs, FileAssumption
<1>1. ASSUME NEW i \in 2..(n + 1)
      PROVE  DataSet(n)[i] # Blank
  <2>1. i - 1 \in 1..n /\ i = (i - 1) + 1
    BY <1>0
  <2>2. DataSet(n)[i] \in Row
    BY <2>1, DataSetIs
  <2> QED
    BY <2>2, ChunkAssumption
<1>2. DataRows(DataSet(n)) = 2..(n + 1)
  BY <1>0, <1>1 DEF DataRows
<1>3. ASSUME NEW k \in Nat, k <= n
      PROVE  Cardinality(2..(k + 1)) = k
  <2>1. 2 \in Int /\ k + 1 \in Int
    OBVIOUS
  <2>2. Cardinality(2..(k + 1)) = IF 2 > k + 1 THEN 0 ELSE (k + 1) - 2 + 1
    BY <2>1, FS_Interval
  <2> QED
    BY <2>2
<1>4. ASSUME NEW i \in 2..(n + 1)
      PROVE  RowId(DataSet(n), i) = i - 1
  <2>1. i - 1 \in Nat /\ i - 1 <= n /\ i = (i - 1) + 1
    BY <1>0
  <2>2. {j \in 2..(n + 1) : j <= i} = 2..i
    BY <1>0
  <2>3. Cardinality(2..i) = i - 1
    BY <1>3, <2>1
  <2> QED
    BY <1>2, <2>2, <2>3 DEF RowId
<1> QED
  BY <1>0, <1>2, <1>3, <1>4

-----------------------------------------------------------------------------
(* The steps of a run as steps of IndexedTable.                            *)

\* The statement that runs goes on for the same process and table, or returns.
LEMMA SameStatement ==
  ASSUME TypeInv, Progress \/ Failure
  PROVE  /\ ~Idle
         /\ Idle' \/ (P' = P /\ T' = T /\ stmt'.row = stmt.row)
<1> USE DEF Idle
<1>0. stmt \in Statement
  BY TypeParts DEF TypeInv
<1>1. CASE AlreadyLoaded \/ RebuildDone \/ RegisterForcedToFail \/ InsertFails
  BY <1>1 DEF AlreadyLoaded, RebuildDone, RegisterForcedToFail, InsertFails, P, T
<1>2. CASE StartRebuild \/ SkipBlank \/ RebuildRow
  BY <1>0, <1>2 DEF StartRebuild, SkipBlank, RebuildRow, Statement, P, T
<1>3. CASE RebuildRejects \/ RebuildFails
  BY <1>3 DEF RebuildRejects, RebuildFails, RebuildAborts, Return, P, T
<1>4. CASE GetNextId \/ RegisterRow
  BY <1>0, <1>4 DEF GetNextId, RegisterRow, Statement, P, T
<1>5. CASE AppendRow
  <2>1. stmt'.proc = stmt.proc /\ stmt'.table = stmt.table /\ stmt'.row = stmt.row
    BY <1>0, <1>5 DEF AppendRow, Statement
  <2> QED
    BY <1>5, <2>1 DEF AppendRow, P, T
<1>6. CASE AppendLost
  BY <1>0, <1>6 DEF AppendLost, Statement, P, T
<1>7. CASE AppendFails \/ AppendTorn \/ InsertId \/ Invalidate \/ ReadRow
           \/ SelectDone \/ SelectRejects \/ SelectFails
  BY <1>7 DEF AppendFails, AppendTorn, InsertId, Invalidate, ReadRow, SelectDone,
              SelectRejects, SelectFails, Return
<1>8. CASE FindRow
  BY <1>0, <1>8 DEF FindRow, Return, Statement, P, T
<1>9. CASE SelectRow
  BY <1>0, <1>9 DEF SelectRow, Statement, P, T
<1> QED
  BY <1>1, <1>2, <1>3, <1>4, <1>5, <1>6, <1>7, <1>8, <1>9 DEF Progress, Failure

\* A registry that is reset has no index in use.
LEMMA Unloaded ==
  ASSUME TypeInv, ClearRegistry(Runner), NEW t \in Table
  PROVE  ~loaded'[Runner][t] /\ file' = file
<1>1. loaded \in [Proc -> [Table -> BOOLEAN]] /\ Runner \in Proc
  BY TypeParts, BenchmarkAssumption DEF TypeInv, IndexType
<1> QED
  BY <1>1 DEF ClearRegistry, disk

\* What the steps of a run are for IndexedTable: its own steps, a file that is
\* written anew between two statements, or the end of the process.
LEMMA StepsAre ==
  ASSUME RunInv, [BenchNext]_allVars
  PROVE  \/ [Next]_vars
         \/ Idle /\ \E t \in Table, head \in {Header, BrokenHeader}, e \in BOOLEAN :
              /\ file' = [file EXCEPT ![t] = <<head>>]
              /\ ended' = [ended EXCEPT ![t] = e]
              /\ acked' \in SUBSET acked
              /\ UNCHANGED <<index, force, pc, stmt, reply>>
         \/ Killed
<1> USE BenchmarkAssumption
<1>0. table \in Table /\ (bench # "off" => goal \in 1..MaxId) /\ done \in Nat
  BY DEF RunInv, BenchType
<1>1. CASE StartPrepare \/ StartQueries \/ Inserted \/ TargetFound \/ TargetSelected \/ RunFails
  BY <1>1 DEF StartPrepare, StartQueries, Start, Inserted, TargetFound, TargetSelected, RunFails
<1>2. CASE ResetForInserts \/ ResetForQueries \/ Prepared \/ Queried
  <2>1. RegistryReset(Runner)
    BY <1>2 DEF ResetForInserts, ResetForQueries, Prepared, Queried, Complete, At, Reset,
                RegistryReset
  <2> QED
    BY <2>1 DEF Next, Environment
<1>3. CASE InsertNext
  <2>1. done + 1 \in 1..MaxId
    BY <1>0, <1>3, FileAssumption DEF InsertNext, MoreRows, At
  <2>2. Generated[done + 1] \in Row
    BY <2>1
  <2>3. BeginStatement(Runner, table)
    BY <1>3, <2>2 DEF InsertNext, BeginStatement
  <2> QED
    BY <1>0, <2>3 DEF Next, Environment
<1>4. CASE FindTarget
  <2>1. goal \in Ids
    BY <1>0, <1>4, FileAssumption DEF FindTarget, At, Ids
  <2>2. BeginStatement(Runner, table)
    BY <1>4, <2>1 DEF FindTarget, BeginStatement
  <2> QED
    BY <1>0, <2>2 DEF Next, Environment
<1>5. CASE SelectTarget
  <2>1. goal \in 1..MaxId
    BY <1>0, <1>5 DEF SelectTarget, At
  <2>2. Generated[goal] \in Row \cup {AnyRow}
    BY <2>1
  <2>3. BeginStatement(Runner, table)
    BY <1>5, <2>2 DEF SelectTarget, BeginStatement
  <2> QED
    BY <1>0, <2>3 DEF Next, Environment
<1>6. CASE OtherStatement
  BY <1>6 DEF OtherStatement, Next, Environment
<1>7. CASE StatementStep
  BY <1>7 DEF StatementStep, Next
<1>8. CASE WriteHeader
  BY <1>0, <1>8 DEF WriteHeader, SetFile, Emptied, At
<1>9. CASE WriteHeaderFails
  BY <1>0, <1>9 DEF WriteHeaderFails, SetFile, At
<1>10. CASE UNCHANGED allVars
  BY <1>10 DEF allVars
<1> QED
  BY <1>1, <1>2, <1>3, <1>4, <1>5, <1>6, <1>7, <1>8, <1>9, <1>10
     DEF BenchNext, BenchStep, BenchStart

LEMMA StatementInvStep == BenchInv /\ [BenchNext]_allVars => StatementInv'
<1> SUFFICES ASSUME BenchInv, [BenchNext]_allVars PROVE StatementInv'
  OBVIOUS
<1> USE BenchmarkAssumption
<1>0. RunInv /\ TypeInv /\ StaysLoaded /\ CursorInv
  BY DEF BenchInv, StatementInv
<1>1. CASE [Next]_vars
  BY <1>0, <1>1, TypeStep, StaysLoadedStep, CursorStep DEF StatementInv
<1>2. ASSUME NEW t \in Table, NEW head \in {Header, BrokenHeader}, NEW e \in BOOLEAN,
             Idle,
             file' = [file EXCEPT ![t] = <<head>>],
             ended' = [ended EXCEPT ![t] = e],
             acked' \in SUBSET acked,
             UNCHANGED <<index, force, pc, stmt, reply>>
      PROVE  StatementInv'
  <2>0. DiskType /\ IndexType /\ ForceType /\ AckType /\ pc \in Where /\ stmt \in Statement
    BY <1>0, TypeParts DEF TypeInv
  <2>1. DiskType'
    <3>1. <<head>> \in Seq(Chunk)
      BY DEF Chunk
    <3> QED
      BY <1>2, <2>0, <3>1 DEF DiskType
  <2>2. IndexType' /\ ForceType' /\ AckType'
    BY <1>2, <2>0 DEF IndexType, TreeType, ForceType, AckType, index
  <2>3. TypeOK'
    BY <1>2, <2>0, <2>1, <2>2, TypePartsNext
  <2>4. pc' = "idle" /\ stmt' = stmt
    BY <1>2 DEF Idle
  <2>5. TypeInv' /\ StaysLoaded'
    BY <2>3, <2>4 DEF TypeInv, StatementReady, HasRow, HasId, HasOffset, StaysLoaded
  <2>6. FilesBegun'
    <3>1. \A u \in Table : file'[u] = IF u = t THEN <<head>> ELSE file[u]
      BY <1>2, <2>0 DEF DiskType
    <3>2. Len(<<head>>) > 0 /\ \A u \in Table : Len(file[u]) > 0
      BY <1>0 DEF CursorInv, FilesBegun
    <3> QED
      BY <3>1, <3>2 DEF FilesBegun
  <2> QED
    BY <2>4, <2>5, <2>6 DEF StatementInv, CursorInv, Idle
<1>3. CASE Killed
  <2>1. ClearRegistry(Runner) /\ Return(NoReply)
    BY <1>3 DEF Killed
  <2>2. DiskType' /\ IndexType' /\ ForceType' /\ AckType'
    BY <1>0, <2>1, ClearRegistryType DEF TypeInv
  <2>3. pc' \in Where /\ stmt' \in Statement /\ StatementReady'
    BY <2>1, ReturnType
  <2>4. TypeInv'
    BY <2>2, <2>3, TypePartsNext DEF TypeInv
  <2>5. pc' = "idle" /\ file' = file
    BY <2>1 DEF Return, ClearRegistry, disk
  <2> QED
    BY <1>0, <2>4, <2>5 DEF StatementInv, StaysLoaded, CursorInv, FilesBegun, Idle
<1> QED
  BY <1>0, <1>1, <1>2, <1>3, StepsAre


-----------------------------------------------------------------------------
(* One step of a statement that a run has submitted.                       *)

\* The running statement is that of the run.
Mine == StatementInv /\ BenchType /\ OneStatement /\ Submitted /\ StatementStep

LEMMA MineIs ==
  ASSUME Mine
  PROVE  /\ TypeInv /\ stmt \in Statement /\ file \in [Table -> Seq(Chunk)]
         /\ Runner \in Proc /\ table \in Table /\ P = Runner /\ T = table
         /\ Lines = file[table] /\ FilesBegun
         /\ ~Idle /\ (Idle' \/ (P' = P /\ T' = T /\ stmt'.row = stmt.row))
         /\ table' = table /\ goal' = goal /\ done' = done /\ bench' = bench
         /\ found' = found /\ result' = result
         /\ goal \in 1..MaxId /\ done \in Nat
<1>1. TypeInv /\ (Progress \/ Failure)
  BY DEF Mine, StatementInv, StatementStep
<1>2. /\ ~Idle /\ (Idle' \/ (P' = P /\ T' = T /\ stmt'.row = stmt.row))
  BY <1>1, SameStatement
<1>3. P = Runner /\ T = table
  BY <1>2 DEF Mine, OneStatement
<1>4. stmt \in Statement /\ file \in [Table -> Seq(Chunk)] /\ FilesBegun
  BY <1>1, TypeParts DEF TypeInv, DiskType, Mine, StatementInv, CursorInv
<1>5. table \in Table /\ goal \in 1..MaxId /\ done \in Nat
  BY DEF Mine, BenchType, Submitted
<1>6. /\ table' = table /\ goal' = goal /\ done' = done /\ bench' = bench
      /\ found' = found /\ result' = result
  BY DEF Mine, StatementStep, run
<1> QED
  BY <1>1, <1>2, <1>3, <1>4, <1>5, <1>6, BenchmarkAssumption DEF Lines

\* Its row, when it is an INSERT, is written whole if it is written.
LEMMA RowWritten ==
  ASSUME Mine, InsertGoesOn, done < goal, AppendRow
  PROVE  file'[table] = DataSet(done + 1)
<1> USE MineIs
<1>1. done + 1 \in 1..MaxId
  BY FileAssumption
<1>2. stmt.row \in Row /\ stmt.row \notin LongRow
  BY <1>1, BenchmarkAssumption, LongRowAssumption DEF InsertGoesOn, Chunk
<1>3. file' = [file EXCEPT ![T] = @ \o <<stmt.row>>]
  BY <1>2 DEF AppendRow, WritesLineEnd, Written
<1>4. file[table] = DataSet(done) /\ stmt.row = Generated[done + 1]
  BY DEF InsertGoesOn, HasRow, AppendRow
<1> QED
  BY <1>1, <1>3, <1>4, DataSetGrows

LEMMA InsertingStep ==
  ASSUME Mine, FlushesWork, bench = "inserting", PrepareInv
  PROVE  /\ ~Idle' => InsertGoesOn'
         /\ Idle' /\ reply'.kind = "inserted" => file'[table] = DataSet(done + 1)
<1> USE MineIs DEF Idle
<1>0. InsertGoesOn /\ done < goal
  BY DEF PrepareInv
<1>1. stmt.cont \in Conts /\ ErrorReply.kind # "inserted"
  BY DEF Statement, ErrorReply
<1>2. ASSUME ~Idle', pc' \notin {"find", "read", "select"}, file' = file,
             pc' \in {"ensure", "scan"} => stmt'.cont # "find",
             HasRow' => HasRow,
             HasOffset' => HasOffset
      PROVE  InsertGoesOn'
  BY <1>0, <1>2 DEF InsertGoesOn
<1>3. CASE AlreadyLoaded \/ RebuildDone
  <2>1. /\ pc \in {"ensure", "scan"} /\ pc' = stmt.cont /\ pc' \in {"getId", "insert"}
        /\ file' = file /\ stmt' = stmt
    BY <1>0, <1>1, <1>3 DEF AlreadyLoaded, RebuildDone, Goto, InsertGoesOn, Conts, disk
  <2>2. (HasRow' => HasRow) /\ (HasOffset' => HasOffset)
    BY <2>1 DEF HasRow, HasOffset
  <2> QED
    BY <1>2, <2>1, <2>2
<1>4. CASE StartRebuild \/ SkipBlank \/ RebuildRow
  <2>1. /\ pc \in {"ensure", "scan"} /\ pc' = "scan" /\ stmt'.cont = stmt.cont /\ file' = file
    BY <1>0, <1>4 DEF StartRebuild, SkipBlank, RebuildRow, Goto, InsertGoesOn, Statement, disk
  <2>2. (HasRow' => HasRow) /\ (HasOffset' => HasOffset)
    BY <2>1 DEF HasRow, HasOffset
  <2> QED
    BY <1>0, <1>2, <2>1, <2>2 DEF InsertGoesOn
<1>5. ASSUME pc' = "invalidate", file' = file
      PROVE  InsertGoesOn'
  BY <1>2, <1>5 DEF HasRow, HasOffset
<1>6. CASE RebuildRejects \/ RebuildFails
  <2>1. file' = file /\ (pc' = "invalidate" \/ (pc' = "idle" /\ reply' = ErrorReply))
    BY <1>6 DEF RebuildRejects, RebuildFails, RebuildAborts, Goto, Return, disk
  <2> QED
    BY <1>1, <1>5, <2>1
<1>7. CASE RegisterForcedToFail \/ InsertFails
  <2>1. file' = file /\ pc' = "invalidate"
    BY <1>7 DEF RegisterForcedToFail, InsertFails, Goto, disk
  <2> QED
    BY <1>5, <2>1
<1>8. CASE GetNextId
  <2>1. pc = "getId" /\ pc' = "append" /\ file' = file
    BY <1>8 DEF GetNextId, Goto, disk
  <2>2. HasRow /\ ~HasOffset'
    BY <2>1 DEF HasRow, HasOffset
  <2> QED
    BY <1>2, <2>1, <2>2
<1>9. CASE RegisterRow
  <2>1. pc = "register" /\ pc' = "ensure" /\ stmt'.cont = "insert" /\ file' = file
    BY <1>9 DEF RegisterRow, Goto, Statement, disk
  <2>2. HasOffset /\ ~HasRow'
    BY <2>1 DEF HasRow, HasOffset
  <2> QED
    BY <1>2, <2>1, <2>2
<1>10. CASE AppendRow
  <2>1. file'[table] = DataSet(done + 1) /\ pc' = "register"
    BY <1>0, <1>10, RowWritten DEF AppendRow, Goto
  <2>2. ~HasRow'
    BY <2>1 DEF HasRow
  <2> QED
    BY <1>0, <2>1, <2>2 DEF InsertGoesOn
<1>11. CASE AppendFails \/ AppendTorn \/ Invalidate
  BY <1>1, <1>11 DEF AppendFails, AppendTorn, Invalidate, Return
<1>12. CASE AppendLost
  BY <1>12 DEF AppendLost, FlushesWork
<1>13. CASE InsertId
  <2>1. pc = "insert" /\ pc' = "idle" /\ file' = file
    BY <1>13 DEF InsertId, Return, disk
  <2> QED
    BY <1>0, <2>1 DEF InsertGoesOn, HasOffset
<1>14. CASE FindRow \/ ReadRow \/ SelectRow \/ SelectDone \/ SelectRejects \/ SelectFails
  BY <1>0, <1>14
     DEF FindRow, ReadRow, SelectRow, SelectDone, SelectRejects, SelectFails, InsertGoesOn
<1> QED
  BY <1>3, <1>4, <1>6, <1>7, <1>8, <1>9, <1>10, <1>11, <1>12, <1>13, <1>14
     DEF Mine, StatementStep, Progress, Failure

\* What an index that agrees with its file says of one id.
LEMMA IndexTells ==
  ASSUME NEW f \in Seq(Chunk), NEW map, Matches(map, f), NEW id \in Nat \ {0}
  PROVE  /\ id \in DOMAIN map => id <= Cardinality(DataRows(f))
         /\ id \notin DOMAIN map => id > Cardinality(DataRows(f))
<1>1. Cardinality(DataRows(f)) \in Nat
  BY UpToFinite, CountBounds
<1> QED
  BY <1>1 DEF Matches


LEMMA FindingStep ==
  ASSUME Mine, bench = "finding", RunEntry, QueryInv
  PROVE  /\ file' = file
         /\ ~Idle' => FindGoesOn'
         /\ Idle' /\ reply'.kind \in {"row", "noRow"} => Finds(reply, file[table])'
<1> USE MineIs DEF Idle
<1>0. FindGoesOn
  BY DEF QueryInv
<1>1. ErrorReply.kind = "error"
  BY DEF ErrorReply
<1>2. ASSUME ~Idle', pc' \in {"ensure", "scan", "find"}, stmt'.id = stmt.id,
             pc' \in {"ensure", "scan"} => stmt'.cont = "find",
             pc' = "find" => loaded'[P][T]
      PROVE  FindGoesOn'
  BY <1>0, <1>2 DEF FindGoesOn
<1>3. CASE AlreadyLoaded
  <2>1. pc' = "find" /\ loaded[P][T] /\ UNCHANGED <<file, stmt, loaded>>
    BY <1>0, <1>3 DEF AlreadyLoaded, Goto, FindGoesOn, disk, index
  <2> QED
    BY <1>2, <2>1
<1>4. CASE RebuildDone
  <2>1. pc' = "find" /\ UNCHANGED <<file, stmt>>
    BY <1>0, <1>4 DEF RebuildDone, Goto, FindGoesOn, disk
  <2>2. loaded'[P][T]
    <3>1. loaded \in [Proc -> [Table -> BOOLEAN]]
      BY TypeParts DEF TypeInv, IndexType
    <3> QED
      BY <1>4, <3>1 DEF RebuildDone, SetEntry
  <2> QED
    BY <1>2, <2>1, <2>2
<1>5. CASE StartRebuild \/ SkipBlank \/ RebuildRow
  <2>1. /\ pc \in {"ensure", "scan"} /\ pc' = "scan" /\ stmt'.cont = stmt.cont
        /\ stmt'.id = stmt.id /\ file' = file
    BY <1>0, <1>5 DEF StartRebuild, SkipBlank, RebuildRow, Goto, FindGoesOn, Statement, disk
  <2> QED
    BY <1>0, <1>2, <2>1 DEF FindGoesOn
<1>6. CASE RebuildRejects \/ RebuildFails
  <2>1. pc = "scan" /\ file' = file /\ stmt.cont = "find"
    BY <1>0, <1>6 DEF RebuildRejects, RebuildFails, RebuildAborts, FindGoesOn, disk
  <2>2. pc' = "idle" /\ reply' = ErrorReply
    BY <1>6, <2>1 DEF RebuildRejects, RebuildFails, RebuildAborts, Return
  <2> QED
    BY <1>1, <2>1, <2>2
<1>7. CASE FindRow
  <2>1. Registered(Runner, table)
    <3>1. loaded[Runner][table] /\ ~Registering(Runner, table) /\ ~Failed /\ AfterReset
      BY <1>0, <1>7 DEF FindRow, FindGoesOn, Registering, Failed, AfterReset, Submitted
    <3> QED
      BY <3>1 DEF RunEntry, EntryInv
  <2>2. file[table] \in Seq(Chunk) /\ Index = tree[Runner][table]
    BY DEF Index
  <2>3. MatchesUpTo(Index, Lines, Len(Lines)) /\ Matches(Index, Lines)
    BY <2>1, <2>2, MatchesAll DEF Registered
  <2>4. stmt.id = goal /\ file' = file /\ goal \in Nat \ {0}
    BY <1>0, <1>7, FileAssumption DEF FindRow, FindGoesOn, disk
  <2>5. CASE stmt.id \in DOMAIN Index
    <3>1. pc' = "read" /\ stmt'.offset = Index[goal] /\ stmt'.id = goal
      BY <1>7, <2>4, <2>5 DEF FindRow, Goto, Statement
    <3>2. Index[goal] \in UpTo(Lines, Len(Lines)) /\ Count(Lines, Index[goal]) = goal
      BY <2>3, <2>4, <2>5 DEF MatchesUpTo
    <3>3. Index[goal] \in DataRows(Lines) /\ RowId(Lines, Index[goal]) = goal
      BY <3>2 DEF UpTo, Count, RowId
    <3>4. Lines' = Lines
      BY <2>4, <3>1 DEF Lines
    <3> QED
      BY <2>4, <3>1, <3>3, <3>4 DEF FindGoesOn
  <2>6. CASE stmt.id \notin DOMAIN Index
    <3>1. pc' = "idle" /\ reply' = [kind |-> "noRow", table |-> T, id |-> stmt.id]
      BY <1>7, <2>6 DEF FindRow, Return
    <3>2. goal > Cardinality(DataRows(Lines))
      BY <2>2, <2>3, <2>4, <2>6, IndexTells
    <3>3. Finds(reply, file[table])'
      BY <2>4, <3>1, <3>2 DEF Finds
    <3> QED
      BY <2>4, <3>1, <3>3
  <2> QED
    BY <2>5, <2>6
<1>8. CASE ReadRow
  <2>1. /\ stmt.offset \in DataRows(Lines) /\ RowId(Lines, stmt.offset) = goal /\ stmt.id = goal
        /\ pc' = "idle" /\ file' = file
    BY <1>0, <1>8 DEF ReadRow, Return, FindGoesOn, disk
  <2>2. CASE ReadableAt(Lines, stmt.offset)
    <3>1. reply' = [kind |-> "row", table |-> T, id |-> stmt.id, row |-> Lines[stmt.offset]]
      BY <1>8, <2>2 DEF ReadRow, Return
    <3>2. Finds(reply, file[table])'
      BY <2>1, <3>1 DEF Finds
    <3> QED
      BY <2>1, <3>2
  <2>3. CASE ~ReadableAt(Lines, stmt.offset)
    BY <1>1, <1>8, <2>1, <2>3 DEF ReadRow, Return
  <2> QED
    BY <2>2, <2>3
<1>9. CASE SelectFails
  BY <1>1, <1>9 DEF SelectFails, Return, disk
<1>10. CASE \/ GetNextId \/ AppendRow \/ AppendFails \/ AppendTorn \/ AppendLost
            \/ RegisterForcedToFail \/ RegisterRow \/ InsertId \/ InsertFails \/ Invalidate
            \/ SelectRow \/ SelectDone \/ SelectRejects
  BY <1>0, <1>10
     DEF GetNextId, AppendRow, AppendFails, AppendTorn, AppendLost, RegisterForcedToFail,
         RegisterRow, InsertId, InsertFails, Invalidate, SelectRow, SelectDone, SelectRejects,
         FindGoesOn
<1> QED
  BY <1>3, <1>4, <1>5, <1>6, <1>7, <1>8, <1>9, <1>10
     DEF Mine, StatementStep, Progress, Failure

LEMMA SelectingStep ==
  ASSUME Mine, bench = "selecting", QueryInv
  PROVE  /\ file' = file
         /\ ~Idle' => pc' = "select" /\ stmt'.row = Generated[goal]
         /\ Idle' => Selected'
<1> USE MineIs DEF Idle
<1>0. pc = "select" /\ stmt.row = Generated[goal] /\ HalfSelected
  BY DEF QueryInv, Mine, StatementInv, CursorInv
<1>1. ErrorReply.kind = "error"
  BY DEF ErrorReply
<1>2. CASE SkipBlank \/ SelectRow
  BY <1>0, <1>2 DEF SkipBlank, SelectRow, disk
<1>3. CASE SelectDone
  <2>1. SelectAgreesWithFile'
    BY <1>0, <1>3, SelectDoneAgrees
  <2>2. reply' = [kind |-> "rows", table |-> T, where |-> stmt.row, rows |-> stmt.rows]
        /\ file' = file /\ pc' = "idle"
    BY <1>3 DEF SelectDone, Return, disk
  <2>3. reply'.table = table /\ reply'.where = Generated[goal]
    BY <1>0, <2>2
  <2> QED
    BY <2>1, <2>2, <2>3 DEF Selected
<1>4. CASE SelectRejects \/ SelectFails
  <2>1. pc' = "idle" /\ reply' = ErrorReply /\ file' = file
    BY <1>4 DEF SelectRejects, SelectFails, Return, disk
  <2> QED
    BY <1>1, <2>1 DEF Selected, SelectAgreesWithFile
<1>5. CASE \/ AlreadyLoaded \/ StartRebuild \/ RebuildRow \/ RebuildDone \/ RebuildRejects
           \/ RebuildFails \/ GetNextId \/ AppendRow \/ AppendFails \/ AppendTorn \/ AppendLost
           \/ RegisterForcedToFail \/ RegisterRow \/ InsertId \/ InsertFails \/ Invalidate
           \/ FindRow \/ ReadRow
  BY <1>0, <1>5
     DEF AlreadyLoaded, StartRebuild, RebuildRow, RebuildDone, RebuildRejects, RebuildFails,
         GetNextId, AppendRow, AppendFails, AppendTorn, AppendLost, RegisterForcedToFail,
         RegisterRow, InsertId, InsertFails, Invalidate, FindRow, ReadRow
<1> QED
  BY <1>2, <1>3, <1>4, <1>5 DEF Mine, StatementStep, Progress, Failure

\* The index of the run's table stays that of its file, or the statement fails.
LEMMA EntryOfRun ==
  ASSUME Mine, FlushesWork, RunEntry, PrepareInv, QueryInv
  PROVE  RunEntry'
<1> USE MineIs DEF Idle
<1>1. PICK p \in Proc, t \in Table : p = Runner /\ t = table /\ p = P /\ t = T
  OBVIOUS
<1>2. AfterReset /\ ~Failed
  BY DEF Mine, AfterReset, Failed
<1>3. Ready(p, t)
  <2>1. EntryInv(p, t)
    BY <1>1, <1>2 DEF RunEntry
  <2> QED
    BY <1>1, <2>1 DEF Ready, Mine, StatementInv
<1>4. pc = "append" => bench = "inserting" /\ InsertGoesOn /\ done < goal
  BY DEF Mine, Submitted, PrepareInv, QueryInv, FindGoesOn
<1>5. pc = "append" => stmt.row \notin LongRow
  <2>1. ASSUME pc = "append" PROVE stmt.row \in Row
    BY <1>4, <2>1, BenchmarkAssumption, FileAssumption DEF InsertGoesOn
  <2> QED
    BY <2>1, LongRowAssumption DEF Chunk
<1>6. CASE AppendTorn
  BY <1>6 DEF AppendTorn, Return, RunEntry, Failed, Mine, Submitted
<1>7. CASE ~AppendTorn
  <2>1. ~AppendLost /\ (Progress \/ Failure)
    BY DEF AppendLost, FlushesWork, Mine, StatementStep
  <2>2. EntryInv(p, t)'
    BY <1>3, <1>5, <1>7, <2>1, EntryStep DEF EntryKept
  <2> QED
    BY <1>1, <2>2 DEF RunEntry, EntryInv, Registering, Registered
<1> QED
  BY <1>6, <1>7


-----------------------------------------------------------------------------
(* The steps of the benchmark, kind by kind.                               *)

LEMMA RunStatement ==
  ASSUME BenchInv, FlushesWork, StatementStep
  PROVE  RunInv'
<1>0. /\ StatementInv /\ BenchType /\ OneStatement /\ RunEntry /\ PrepareInv /\ QueryInv
      /\ TypeInv
  BY DEF BenchInv, RunInv, StatementInv
<1>1. ~Idle /\ (Idle' \/ (P' = P /\ T' = T /\ stmt'.row = stmt.row))
  BY <1>0, SameStatement DEF StatementStep
<1>2. /\ bench' = bench /\ table' = table /\ goal' = goal /\ done' = done
      /\ result' = result /\ found' = found
  BY DEF StatementStep, run
<1>3. BenchType'
  BY <1>0, <1>2 DEF BenchType
<1>4. CASE Submitted
  <2>1. Mine
    BY <1>0, <1>4 DEF Mine
  <2>2. OneStatement'
    BY <1>0, <1>1, <1>2, <1>4 DEF OneStatement, Submitted, Between
  <2>3. RunEntry'
    BY <1>0, <2>1, EntryOfRun
  <2>4. PrepareInv'
    <3>1. CASE bench = "inserting"
      <4>1. /\ ~Idle' => InsertGoesOn'
            /\ Idle' /\ reply'.kind = "inserted" => file'[table] = DataSet(done + 1)
        BY <1>0, <2>1, <3>1, InsertingStep
      <4> QED
        BY <1>0, <1>2, <3>1, <4>1 DEF PrepareInv, DataSet
    <3>2. CASE bench # "inserting"
      BY <1>0, <1>2, <1>4, <3>2 DEF PrepareInv, Submitted
    <3> QED
      BY <3>1, <3>2
  <2>5. QueryInv'
    <3>1. CASE bench = "inserting"
      BY <1>0, <1>2, <3>1 DEF QueryInv
    <3>2. CASE bench = "finding"
      <4>1. /\ ~Idle' => FindGoesOn'
            /\ Idle' /\ reply'.kind \in {"row", "noRow"} => Finds(reply, file[table])'
        BY <1>0, <2>1, <3>2, FindingStep
      <4> QED
        BY <1>0, <1>2, <3>2, <4>1 DEF QueryInv
    <3>3. CASE bench = "selecting"
      <4>1. /\ file' = file
            /\ ~Idle' => pc' = "select" /\ stmt'.row = Generated[goal]
            /\ Idle' => Selected'
        BY <1>0, <2>1, <3>3, SelectingStep
      <4>2. Finds(found, file[table])'
        BY <1>0, <1>2, <3>3, <4>1 DEF QueryInv, Finds
      <4> QED
        BY <1>0, <1>2, <3>3, <4>1, <4>2 DEF QueryInv
    <3> QED
      BY <1>4, <3>1, <3>2, <3>3 DEF Submitted
  <2> QED
    BY <1>3, <2>2, <2>3, <2>4, <2>5 DEF RunInv
<1>5. CASE ~Submitted
  <2>1. bench = "off"
    BY <1>0, <1>1, <1>5 DEF OneStatement, Between, Submitted, BenchType, BenchPlaces
  <2>2. result \notin {"prepared", "queried"}
    BY <1>0, <1>1 DEF PrepareInv, QueryInv
  <2>3. OneStatement'
    BY <1>0, <1>1, <1>2, <2>1 DEF OneStatement, Submitted, Between
  <2> QED
    BY <1>2, <1>3, <2>1, <2>2, <2>3
       DEF RunInv, RunEntry, AfterReset, Submitted, PrepareInv, QueryInv
<1> QED
  BY <1>4, <1>5

\* A run that begins has done nothing yet.
LEMMA RunBegins ==
  ASSUME BenchInv, StartPrepare \/ StartQueries
  PROVE  RunInv'
<1>1. PICK where \in {"header", "resetFirst"}, n \in Counts \cup Targets : Start(where, n)
  BY DEF StartPrepare, StartQueries
<1>2. /\ bench' \in {"header", "resetFirst"} /\ table' \in Table /\ goal' = n /\ done' = 0
      /\ result' = "none" /\ pc' = "idle"
  BY <1>1 DEF Start, At, Idle, vars
<1>3. n \in 1..MaxId
  BY BenchmarkAssumption
<1> QED
  BY <1>2, <1>3
     DEF RunInv, BenchType, BenchPlaces, OneStatement, Idle, Submitted, RunEntry, AfterReset,
         PrepareInv, QueryInv

\* prepare writes the file anew; the index is reset before it is used.
LEMMA RunWrites ==
  ASSUME BenchInv, WriteHeader \/ WriteHeaderFails
  PROVE  RunInv'
<1>0. bench = "header" /\ Idle /\ table \in Table /\ goal \in 1..MaxId
  BY DEF BenchInv, RunInv, BenchType, WriteHeader, WriteHeaderFails, At
<1>1. pc' = "idle" /\ table' = table /\ goal' = goal /\ done' = 0
  BY <1>0 DEF WriteHeader, WriteHeaderFails, SetFile, Go, Over, run, vars, Idle
<1>2. CASE WriteHeader
  <2>1. bench' = "reset" /\ result' = result /\ result \notin {"prepared", "queried"}
    BY <1>0, <1>2 DEF WriteHeader, Go, BenchInv, RunInv, PrepareInv, QueryInv
  <2>2. file \in [Table -> Seq(Chunk)] /\ file' = [file EXCEPT ![table] = <<Header>>]
    BY <1>2, TypeParts
       DEF WriteHeader, SetFile, Emptied, BenchInv, StatementInv, TypeInv, DiskType
  <2>3. DataSet(0) = <<Header>>
    <3>1. 0 \in 0..MaxId
      BY FileAssumption
    <3>2. DataSet(0) \in Seq(Chunk) /\ Len(DataSet(0)) = 0 + 1 /\ DataSet(0)[1] = Header
      BY <3>1, DataSetIs
    <3> QED
      BY <3>2
  <2>4. file'[table'] = DataSet(0)
    BY <1>0, <1>1, <2>2, <2>3
  <2>5. DataSet(0)' = DataSet(0)
    BY DEF DataSet
  <2> QED
    BY <1>0, <1>1, <2>1, <2>4, <2>5
       DEF RunInv, BenchType, BenchPlaces, OneStatement, Idle, Submitted, RunEntry, AfterReset,
           PrepareInv, QueryInv
<1>3. CASE WriteHeaderFails
  <2>1. bench' = "off" /\ result' = "failed"
    BY <1>3 DEF WriteHeaderFails, Over
  <2> QED
    BY <1>0, <1>1, <2>1
       DEF RunInv, BenchType, BenchPlaces, OneStatement, Idle, Submitted, Between, RunEntry,
           AfterReset, PrepareInv, QueryInv
<1> QED
  BY <1>2, <1>3

LEMMA RunResets ==
  ASSUME BenchInv, ResetForInserts \/ ResetForQueries
  PROVE  RunInv'
<1>0. /\ bench \in {"reset", "resetFirst"} /\ Idle /\ table \in Table /\ goal \in 1..MaxId
      /\ TypeInv /\ PrepareInv /\ result \notin {"prepared", "queried"}
  BY DEF BenchInv, StatementInv, RunInv, BenchType, PrepareInv, QueryInv, ResetForInserts,
         ResetForQueries, At
<1>1. /\ ClearRegistry(Runner) /\ pc' = "idle" /\ table' = table /\ goal' = goal /\ done' = 0
      /\ result' = result /\ bench' = IF bench = "reset" THEN "insert" ELSE "find"
  BY <1>0 DEF ResetForInserts, ResetForQueries, At, Reset, Go, run, Idle
<1>2. ~loaded'[Runner][table'] /\ file' = file
  BY <1>0, <1>1, Unloaded
<1>3. EntryInv(Runner, table)'
  BY <1>1, <1>2 DEF EntryInv, ToRegister
<1>4. bench = "reset" => file'[table'] = DataSet(done)' /\ done' <= goal'
  BY <1>0, <1>1, <1>2, FileAssumption DEF PrepareInv, DataSet
<1> QED
  BY <1>0, <1>1, <1>3, <1>4
     DEF RunInv, BenchType, BenchPlaces, OneStatement, Idle, Submitted, RunEntry, PrepareInv,
         QueryInv

\* A statement that a run submits finds the index of its table in order.
LEMMA EntryBegins ==
  ASSUME BenchInv, AfterReset, ~Submitted, UNCHANGED <<file, index>>, table' = table,
         pc' = "select" \/ (pc' = "ensure" /\ stmt'.cont # "insert")
  PROVE  RunEntry'
<1>0. Idle /\ EntryInv(Runner, table) /\ ~Failed
  BY DEF BenchInv, RunInv, OneStatement, Between, AfterReset, Submitted, RunEntry, Failed
<1>1. loaded[Runner][table] => Registered(Runner, table)
  BY <1>0 DEF EntryInv, Idle, Registering
<1>2. loaded'[Runner][table'] => Registered(Runner, table)'
  BY <1>1 DEF Registered, index
<1> QED
  BY <1>2 DEF RunEntry, EntryInv, ToRegister


LEMMA RunSubmits ==
  ASSUME BenchInv, InsertNext \/ FindTarget \/ SelectTarget
  PROVE  RunInv'
<1>0. /\ bench \in {"insert", "find", "select"} /\ table \in Table /\ goal \in 1..MaxId
      /\ done \in Nat /\ PrepareInv /\ QueryInv /\ result \notin {"prepared", "queried"}
  BY DEF BenchInv, RunInv, BenchType, PrepareInv, QueryInv, InsertNext, FindTarget, SelectTarget, At
<1>1. /\ table' = table /\ goal' = goal /\ done' = done /\ result' = result /\ found' = found
      /\ file' = file /\ UNCHANGED index
  BY DEF InsertNext, FindTarget, SelectTarget, BeginInsert, BeginFind, BeginSelect, Begin,
         Submit, run, disk
<1>2. CASE InsertNext
  <2>1. /\ bench = "insert" /\ bench' = "inserting" /\ pc' = "ensure" /\ done < goal
        /\ P' = Runner /\ T' = table /\ stmt'.row = Generated[done + 1] /\ stmt'.cont = "getId"
    BY <1>2, NoStmtType, BenchmarkAssumption
       DEF InsertNext, At, MoreRows, BeginInsert, Begin, Submit, NoStmt, P, T
  <2>2. RunEntry'
    BY <1>1, <2>1, EntryBegins DEF AfterReset, Submitted
  <2>3. file'[table'] = DataSet(done)'
    BY <1>0, <1>1, <2>1 DEF PrepareInv, DataSet
  <2>4. InsertGoesOn'
    BY <1>1, <2>1, <2>3 DEF InsertGoesOn, HasOffset
  <2> QED
    BY <1>0, <1>1, <2>1, <2>2, <2>4
       DEF RunInv, BenchType, BenchPlaces, OneStatement, Idle, Between, Submitted, PrepareInv,
           QueryInv
<1>3. CASE FindTarget
  <2>1. /\ bench' = "finding" /\ pc' = "ensure" /\ bench = "find"
        /\ P' = Runner /\ T' = table /\ stmt'.id = goal /\ stmt'.cont = "find"
    BY <1>3, NoStmtType, BenchmarkAssumption
       DEF FindTarget, At, BeginFind, Begin, Submit, NoStmt, P, T
  <2>2. RunEntry'
    BY <1>1, <2>1, EntryBegins DEF AfterReset, Submitted
  <2>3. FindGoesOn'
    BY <1>1, <2>1 DEF FindGoesOn
  <2> QED
    BY <1>0, <1>1, <2>1, <2>2, <2>3
       DEF RunInv, BenchType, BenchPlaces, OneStatement, Idle, Between, Submitted, PrepareInv,
           QueryInv
<1>4. CASE SelectTarget
  <2>1. /\ bench' = "selecting" /\ pc' = "select" /\ bench = "select"
        /\ P' = Runner /\ T' = table /\ stmt'.row = Generated[goal]
    BY <1>4, NoStmtType, BenchmarkAssumption
       DEF SelectTarget, At, BeginSelect, Begin, Submit, NoStmt, P, T
  <2>2. RunEntry'
    BY <1>1, <2>1, EntryBegins DEF AfterReset, Submitted
  <2>3. Finds(found, file[table])'
    BY <1>0, <1>1, <2>1 DEF QueryInv, Finds
  <2> QED
    BY <1>0, <1>1, <2>1, <2>2, <2>3
       DEF RunInv, BenchType, BenchPlaces, OneStatement, Idle, Between, Submitted, PrepareInv,
           QueryInv
<1> QED
  BY <1>2, <1>3, <1>4

\* The answer is looked at, and the run goes on.
LEMMA RunGoesOn ==
  ASSUME BenchInv, Inserted \/ TargetFound \/ TargetSelected
  PROVE  RunInv'
<1>0. /\ bench \in {"inserting", "finding", "selecting"} /\ table \in Table /\ goal \in 1..MaxId
      /\ goal \in Nat /\ done \in Nat /\ PrepareInv /\ QueryInv /\ RunEntry
      /\ result \notin {"prepared", "queried"} /\ pc = "idle"
  BY FileAssumption
     DEF BenchInv, RunInv, BenchType, PrepareInv, QueryInv, Inserted, TargetFound, TargetSelected,
         At, Idle
<1>1. /\ table' = table /\ goal' = goal /\ result' = result /\ file' = file /\ UNCHANGED index
      /\ pc' = pc /\ stmt' = stmt /\ reply' = reply
      /\ bench' \in {"insert", "find", "select"}
  BY DEF Inserted, TargetFound, TargetSelected, Go, run, vars, index
<1>2. RunEntry'
  <2>1. reply.kind # "error" /\ ErrorReply.kind = "error"
    BY DEF Inserted, TargetFound, TargetSelected, ErrorReply
  <2>2. EntryInv(Runner, table)
    BY <1>0, <2>1 DEF RunEntry, AfterReset, Submitted, Failed
  <2> QED
    BY <1>0, <1>1, <2>2
       DEF RunEntry, EntryInv, Registering, Registered, ToRegister, index, P, T
<1>3. CASE Inserted
  <2>1. bench = "inserting" /\ bench' = "insert" /\ done' = done + 1 /\ found' = found
    BY <1>3 DEF Inserted, At, Go
  <2>2. done < goal /\ file[table] = DataSet(done + 1)
    BY <1>0, <1>3, <2>1 DEF PrepareInv, Inserted, Idle
  <2>3. file'[table'] = DataSet(done)'
    BY <1>1, <2>1, <2>2 DEF DataSet
  <2> QED
    BY <1>0, <1>1, <1>2, <2>1, <2>2, <2>3
       DEF RunInv, BenchType, BenchPlaces, OneStatement, Idle, Submitted, PrepareInv, QueryInv
<1>4. CASE TargetFound
  <2>1. bench = "finding" /\ bench' \in {"find", "select"} /\ found' = reply
        /\ reply.kind \in {"row", "noRow"} /\ done' \in Nat
    <3>1. (done + 1) % QueryRepeat \in Nat
      BY <1>0, BenchmarkAssumption
    <3> QED
      BY <1>4, <3>1 DEF TargetFound, At
  <2>2. Finds(found, file[table])'
    BY <1>0, <1>1, <2>1 DEF QueryInv, Finds, Idle
  <2> QED
    BY <1>0, <1>1, <1>2, <2>1, <2>2
       DEF RunInv, BenchType, BenchPlaces, OneStatement, Idle, Submitted, PrepareInv, QueryInv
<1>5. CASE TargetSelected
  <2>1. bench = "selecting" /\ bench' = "select" /\ found' = found /\ done' = done + 1
    BY <1>5 DEF TargetSelected, At, Go
  <2>2. Finds(found, file[table])'
    BY <1>0, <1>1, <2>1 DEF QueryInv, Finds
  <2> QED
    BY <1>0, <1>1, <1>2, <2>1, <2>2
       DEF RunInv, BenchType, BenchPlaces, OneStatement, Idle, Submitted, PrepareInv, QueryInv
<1> QED
  BY <1>3, <1>4, <1>5

LEMMA RunEnds ==
  ASSUME BenchInv, Prepared \/ Queried \/ RunFails \/ Killed
  PROVE  RunInv'
<1>0. table \in Table /\ PrepareInv /\ QueryInv /\ (bench # "off" => goal \in 1..MaxId)
      /\ goal' = goal /\ table' = table /\ found' = found /\ done' = 0 /\ bench' = "off"
  BY DEF BenchInv, RunInv, BenchType, Prepared, Queried, RunFails, Killed, Complete, Over, run
<1>1. pc' = "idle"
  BY DEF Prepared, Queried, RunFails, Killed, Complete, Over, At, Idle, Return, vars
<1>2. BenchType' /\ OneStatement' /\ RunEntry'
  BY <1>0, <1>1
     DEF BenchType, BenchPlaces, OneStatement, Idle, Between, Submitted, RunEntry, AfterReset
<1>3. CASE Prepared
  <2>1. /\ bench = "insert" /\ ~(done < goal) /\ result' = "prepared" /\ file' = file
    BY <1>3 DEF Prepared, At, MoreRows, Complete, Over, Reset, ClearRegistry, disk
  <2>2. done = goal /\ file[table] = DataSet(done)
    BY <1>0, <2>1, FileAssumption DEF PrepareInv, BenchInv, RunInv, BenchType
  <2>3. file'[table'] = DataSet(goal)'
    BY <1>0, <2>1, <2>2 DEF DataSet
  <2> QED
    BY <1>0, <1>1, <1>2, <2>1, <2>3 DEF RunInv, PrepareInv, QueryInv, Idle
<1>4. CASE Queried
  <2>1. /\ bench = "selecting" /\ result' = "queried" /\ file' = file /\ reply' = reply
        /\ reply.kind = "rows" /\ Idle
    BY <1>4 DEF Queried, At, Complete, Over, Reset, ClearRegistry, disk
  <2>2. Finds(found, file[table]) /\ Selected
    BY <1>0, <2>1 DEF QueryInv
  <2>3. Finds(found, file[table])' /\ Selected'
    BY <1>0, <2>1, <2>2 DEF Finds, Selected, SelectAgreesWithFile
  <2> QED
    BY <1>0, <1>1, <1>2, <2>1, <2>3 DEF RunInv, PrepareInv, QueryInv, Idle
<1>5. CASE RunFails \/ Killed
  <2>1. result' \in {"failed", "killed"}
    BY <1>5 DEF RunFails, Killed, Over
  <2> QED
    BY <1>0, <1>2, <2>1 DEF RunInv, PrepareInv, QueryInv
<1> QED
  BY <1>3, <1>4, <1>5

LEMMA RunAside ==
  ASSUME BenchInv, OtherStatement
  PROVE  RunInv'
<1>1. PICK t \in Table : BeginStatement(Runner, t)
  BY DEF OtherStatement
<1>2. P' = Runner
  BY <1>1, NoStmtType, BenchmarkAssumption
     DEF BeginStatement, BeginInsert, BeginFind, BeginSelect, Begin, NoStmt, P
<1>3. /\ bench = "off" /\ bench' = "off" /\ result' = "none" /\ table' = table /\ done' = done
      /\ table \in Table /\ done \in Nat
  BY DEF OtherStatement, At, run, BenchInv, RunInv, BenchType
<1> QED
  BY <1>2, <1>3
     DEF RunInv, BenchType, BenchPlaces, OneStatement, Between, Submitted, RunEntry, AfterReset,
         PrepareInv, QueryInv

LEMMA RunStutters ==
  ASSUME BenchInv, UNCHANGED allVars
  PROVE  RunInv'
<1>1. BenchType' /\ OneStatement' /\ RunEntry'
  BY DEF BenchInv, RunInv, allVars, vars, run, index, BenchType, OneStatement, Idle, Between,
         Submitted, RunEntry, AfterReset, Failed, EntryInv, Registering, Registered, ToRegister,
         AllButLast, HalfRebuilt, P, T, Index, Lines
<1>2. PrepareInv'
  BY DEF BenchInv, RunInv, allVars, vars, run, PrepareInv, InsertGoesOn, HasRow, HasOffset,
         DataSet, Idle
<1>3. QueryInv'
  BY DEF BenchInv, RunInv, allVars, vars, run, index, QueryInv, FindGoesOn, Finds, Selected,
         SelectAgreesWithFile, Idle, P, T, Lines
<1> QED
  BY <1>1, <1>2, <1>3 DEF RunInv

LEMMA BenchStepHolds == ASSUME FlushesWork PROVE BenchInv /\ [BenchNext]_allVars => BenchInv'
BY StatementInvStep, RunStatement, RunBegins, RunWrites, RunResets, RunSubmits, RunGoesOn, RunEnds,
   RunAside, RunStutters
   DEF BenchInv, BenchNext, BenchStep, BenchStart

\* A benchmark's statements find the entry of its table right from the reset to the first error.
THEOREM BenchInvariant == ASSUME FlushesWork PROVE BenchSpec => []BenchInv
BY BenchInitHolds, BenchStepHolds, PTL DEF BenchSpec

-----------------------------------------------------------------------------
(* What follows.                                                           *)

\* docs/requirements.md:127: what run_prepare_mode (benchmark_main.c) reports
\* as prepared is the header and the generated rows in order, whatever was in
\* the file and the index before, and whatever failed in earlier runs.
THEOREM PrepareMakesDataSet == ASSUME FlushesWork PROVE BenchSpec => []PreparedIsDataSet
<1>1. BenchInv => PreparedIsDataSet
  BY DEF BenchInv, RunInv, PrepareInv, PreparedIsDataSet
<1> QED
  BY <1>1, BenchInvariant, PTL

\* The registry is reset at the right places (benchmark_main.c): no statement
\* of a run uses an index of rows that prepare has thrown away, although the
\* file was replaced behind the back of the index.
THEOREM RunsUseTheirFile == ASSUME FlushesWork PROVE BenchSpec => []RunSeesItsFile
<1>1. BenchInv => RunSeesItsFile
  <2> SUFFICES ASSUME BenchInv, bench # "off", ~Idle, loaded[Runner][table],
                      ~Registering(Runner, table)
               PROVE  Matches(tree[Runner][table], file[table])
    BY DEF RunSeesItsFile
  <2>1. Submitted /\ table \in Table
    BY DEF BenchInv, RunInv, BenchType, BenchPlaces, OneStatement, Between, Submitted
  <2>2. EntryInv(Runner, table)
    BY <2>1 DEF BenchInv, RunInv, RunEntry, AfterReset, Failed
  <2>3. file[table] \in Seq(Chunk)
    BY <2>1, TypeParts DEF BenchInv, StatementInv, TypeInv, DiskType
  <2> QED
    BY <2>2, <2>3, MatchesAll DEF EntryInv, Registered
<1> QED
  BY <1>1, BenchInvariant, PTL


\* Only the target's own line matches the value that the second query asks for.
LEMMA OneMatch ==
  ASSUME RowsDiffer, NEW n \in 1..MaxId, NEW k \in 1..MaxId, NEW i \in DataRows(DataSet(n))
  PROVE  /\ RowId(DataSet(n), i) = i - 1
         /\ RowMatches(Generated[k], DataSet(n)[i]) <=> i = k + 1
<1>0. n \in 0..MaxId /\ MaxId \in Nat
  BY FileAssumption
<1>1. i \in 2..(n + 1) /\ RowId(DataSet(n), i) = i - 1
  BY <1>0, DataSetRows
<1>2. i - 1 \in 1..n /\ i - 1 \in 1..MaxId /\ i = (i - 1) + 1
  BY <1>0, <1>1
<1>3. DataSet(n)[i] = Generated[i - 1]
  BY <1>0, <1>2, DataSetIs
<1>4. Generated[k] \in Row /\ Generated[k] # AnyRow
  BY BenchmarkAssumption, ChunkAssumption
<1>5. DOMAIN Generated = 1..MaxId
  BY BenchmarkAssumption
<1>6. Generated[k] = Generated[i - 1] <=> k = i - 1
  BY <1>2, <1>5 DEF RowsDiffer
<1>7. k = i - 1 <=> i = k + 1
  BY <1>1
<1> QED
  BY <1>1, <1>3, <1>4, <1>6, <1>7 DEF RowMatches

\* benchmark_main.c:285 on a data set that prepare made: the query by id, which
\* uses the index, and the query by value, which scans, find the same record,
\* or both find none.
THEOREM QueriesAgree ==
  ASSUME FlushesWork, RowsDiffer
  PROVE  BenchSpec => []QueriesFindTheSame
<1>1. BenchInv => QueriesFindTheSame
  <2> SUFFICES ASSUME BenchInv, result = "queried", NEW n \in Counts, file[table] = DataSet(n)
               PROVE  reply.rows = IF found.kind = "row" THEN {<<found.id, found.row>>} ELSE {}
    BY DEF QueriesFindTheSame
  <2> DEFINE f == DataSet(n)
             w == Generated[goal]
  <2>0. n \in 1..MaxId /\ n \in 0..MaxId /\ n \in Nat /\ goal \in 1..MaxId /\ goal \in Nat
    BY BenchmarkAssumption, FileAssumption DEF BenchInv, RunInv, QueryInv
  <2>1. Finds(found, f)
    BY DEF BenchInv, RunInv, QueryInv
  <2>2. reply.rows = {<<RowId(f, i), f[i]>> : i \in {i \in DataRows(f) : RowMatches(w, f[i])}}
    BY DEF BenchInv, RunInv, QueryInv, Selected, SelectAgreesWithFile
  <2>3. DataRows(f) = 2..(n + 1) /\ Cardinality(DataRows(f)) = n
    BY <2>0, DataSetRows
  <2>4. ASSUME NEW i \in DataRows(f)
        PROVE  RowId(f, i) = i - 1 /\ (RowMatches(w, f[i]) <=> i = goal + 1)
    BY <2>0, OneMatch
  <2> HIDE DEF f, w
  <2>5. CASE goal <= n
    <3>1. goal + 1 \in DataRows(f) /\ (goal + 1) - 1 = goal
      BY <2>0, <2>3, <2>5
    <3>2. {i \in DataRows(f) : RowMatches(w, f[i])} = {goal + 1}
      BY <2>4, <3>1
    <3>3. reply.rows = {<<goal, f[goal + 1]>>}
      BY <2>2, <2>4, <3>1, <3>2
    <3>4. found.kind = "row" /\ found.id = goal /\ found.row = f[goal + 1]
      <4>1. PICK i \in DataRows(f) : RowId(f, i) = goal /\ found.row = f[i]
        BY <2>0, <2>1, <2>3, <2>5 DEF Finds
      <4>2. i = goal + 1
        BY <2>0, <2>3, <2>4, <4>1
      <4> QED
        BY <2>0, <2>1, <2>3, <2>5, <4>1, <4>2 DEF Finds
    <3> QED
      BY <3>3, <3>4
  <2>6. CASE goal > n
    <3>1. goal + 1 \notin DataRows(f)
      BY <2>0, <2>3, <2>6
    <3>2. {i \in DataRows(f) : RowMatches(w, f[i])} = {}
      BY <2>4, <3>1
    <3>3. reply.rows = {}
      BY <2>2, <3>2
    <3>4. found.kind # "row"
      <4>1. ASSUME NEW i \in DataRows(f) PROVE RowId(f, i) # goal
        BY <2>0, <2>3, <2>4, <2>6
      <4> QED
        BY <2>1, <4>1 DEF Finds
    <3> QED
      BY <3>3, <3>4
  <2> QED
    BY <2>0, <2>5, <2>6
<1> QED
  BY <1>1, BenchInvariant, PTL

=============================================================================
