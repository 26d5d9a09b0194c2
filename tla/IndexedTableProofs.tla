------------------------- MODULE IndexedTableProofs -------------------------
(***************************************************************************)
(* Theorems about IndexedTable, for every set of tables, processes and     *)
(* rows, files of any length and any number of statements: the index       *)
(* agrees with the file, and the program implements RowStore.              *)
(***************************************************************************)
EXTENDS IndexedTableRefinement, FiniteSetTheorems, TLAPS

-----------------------------------------------------------------------------
(* Types.  TypeOK is not inductive: that ids and offsets in the tree are   *)
(* positive and that files hold rows rests on what a statement carries     *)
(* when it reaches the step that puts them there.                          *)

\* The running INSERT has its id, and its row is in the file.
HasId == \/ pc \in {"append", "register", "insert"}
         \/ pc \in {"ensure", "scan"} /\ stmt.cont = "insert"

HasOffset == \/ pc \in {"register", "insert"}
             \/ pc \in {"ensure", "scan"} /\ stmt.cont = "insert"

\* The running INSERT has not written its row.
HasRow == \/ pc \in {"getId", "append"}
          \/ pc \in {"ensure", "scan"} /\ stmt.cont = "getId"

StatementReady ==
  /\ HasRow => stmt.row \in Row \cup LongRow
  /\ pc = "scan" => stmt.pos > 0 /\ stmt.next > 0
  /\ HasId => stmt.id > 0
  /\ HasOffset => stmt.offset > 0

TypeInv == TypeOK /\ StatementReady

\* The type of a statement record, as TypeOK states it.
Statement ==
  [proc : Proc, table : Table, row : Row \cup LongRow \cup {AnyRow},
   id : Nat, offset : Nat, cont : Conts, pos : Nat, next : Nat,
   rows : SUBSET (Nat \X Row)]

TreeType(tr) ==
  /\ DOMAIN tr \subseteq Nat \ {0}
  /\ \A id \in DOMAIN tr : tr[id] \in Offsets

\* TypeOK, by the groups of variables that actions change together.
DiskType == file \in [Table -> Seq(Chunk)] /\ ended \in [Table -> BOOLEAN]

IndexType ==
  /\ loaded \in [Proc -> [Table -> BOOLEAN]]
  /\ next_id \in [Proc -> [Table -> Nat \ {0}]]
  /\ DOMAIN tree = Proc
  /\ \A p \in Proc : DOMAIN tree[p] = Table /\ \A t \in Table : TreeType(tree[p][t])

AckType == acked \subseteq Table \X (Nat \ {0}) \X (Row \cup LongRow \cup {AnyRow})

ForceType == force \in [Proc -> BOOLEAN]

LEMMA TypeParts ==
  TypeOK <=> /\ DiskType /\ IndexType /\ ForceType /\ AckType
             /\ pc \in Where /\ stmt \in Statement
BY DEF TypeOK, DiskType, IndexType, TreeType, ForceType, AckType, Statement

\* The same after a step.
LEMMA TypePartsNext ==
  ASSUME DiskType', IndexType', ForceType', AckType', pc' \in Where, stmt' \in Statement
  PROVE  TypeOK'
BY DEF TypeOK, DiskType, IndexType, TreeType, ForceType, AckType, Statement

LEMMA NoStmtType == NoStmt \in Statement
BY ProgramAssumption DEF NoStmt, Statement, Conts

\* What is written to a file is made of chunks.
LEMMA WrittenType ==
  ASSUME NEW r \in Row \cup LongRow
  PROVE  Written(r) \in Seq(Chunk)
<1>1. CASE r \in LongRow
  <2>1. Parts[r] \in Seq(Chunk \ {Blank})
    BY <1>1, LongRowAssumption
  <2>2. Parts[r] \in Seq(Chunk)
    BY <2>1
  <2> QED
    BY <1>1, <2>2 DEF Written
<1>2. CASE r \notin LongRow
  <2>1. r \in Chunk
    BY <1>2 DEF Chunk
  <2> QED
    BY <1>2, <2>1 DEF Written
<1> QED
  BY <1>1, <1>2

\* An entry keeps its type when all of it is replaced by typed values.
LEMMA SetEntryType ==
  ASSUME TypeOK, NEW nx \in Nat \ {0}, NEW tr, TreeType(tr),
         \E ld \in BOOLEAN : SetEntry(ld, nx, tr)
  PROVE  IndexType'
<1> PICK ld \in BOOLEAN : SetEntry(ld, nx, tr)
  OBVIOUS
<1>1. P \in Proc /\ T \in Table
  BY DEF TypeOK, P, T
<1>2. loaded' \in [Proc -> [Table -> BOOLEAN]]
  BY <1>1 DEF TypeOK, SetEntry
<1>3. next_id' \in [Proc -> [Table -> Nat \ {0}]]
  BY <1>1 DEF TypeOK, SetEntry
<1>4. DOMAIN tree' = Proc
  BY <1>1 DEF TypeOK, SetEntry
<1>5. ASSUME NEW p \in Proc, NEW t \in Table
      PROVE  TreeType(tree'[p][t])
  <2>1. tree'[p] = IF p = P THEN [tree[P] EXCEPT ![T] = tr] ELSE tree[p]
    BY <1>1 DEF TypeOK, SetEntry
  <2>2. tree'[p][t] = IF p = P /\ t = T THEN tr ELSE tree[p][t]
    <3>1. \A q \in Proc : DOMAIN tree[q] = Table
      BY DEF TypeOK
    <3> QED
      BY <1>1, <2>1, <3>1
  <2>3. TreeType(tree[p][t])
    BY DEF TypeOK, TreeType
  <2> QED
    BY <2>2, <2>3
<1>6. \A p \in Proc : DOMAIN tree'[p] = Table
  BY <1>1 DEF TypeOK, SetEntry
<1> QED
  BY <1>2, <1>3, <1>4, <1>5, <1>6 DEF IndexType

LEMMA EmptyTreeType == TreeType(EmptyTree)
BY DEF TreeType, EmptyTree

LEMMA WithEntryType ==
  ASSUME NEW map, TreeType(map), NEW id \in Nat \ {0}, NEW offset \in Nat \ {0}
  PROVE  TreeType(WithEntry(map, id, offset))
BY DEF TreeType, WithEntry, Offsets

LEMMA TypeInit == Init => TypeInv
<1> SUFFICES ASSUME Init PROVE TypeInv
  OBVIOUS
<1>1. file \in [Table -> Seq(Chunk)]
  BY FileAssumption DEF Init
<1>2. stmt \in Statement
  BY NoStmtType DEF Init
<1>3. \A p \in Proc : DOMAIN tree[p] = Table /\ \A t \in Table : TreeType(tree[p][t])
  BY EmptyTreeType DEF Init
<1>4. TypeOK
  BY <1>1, <1>2, <1>3 DEF Init, TypeOK, Statement, TreeType, Where
<1>5. StatementReady
  BY DEF Init, StatementReady, HasRow, HasId, HasOffset
<1> QED
  BY <1>4, <1>5 DEF TypeInv

\* What a statement that returns leaves behind is typed.
LEMMA ReturnType ==
  ASSUME NEW r, Return(r)
  PROVE  pc' \in Where /\ stmt' \in Statement /\ StatementReady'
BY NoStmtType DEF Return, Where, StatementReady, HasRow, HasId, HasOffset

LEMMA ClearEntryType ==
  ASSUME TypeOK, ClearEntry
  PROVE  IndexType'
<1>1. TreeType(EmptyTree)
  BY EmptyTreeType
<1>2. \E ld \in BOOLEAN : SetEntry(ld, 1, EmptyTree)
  BY DEF ClearEntry
<1> QED
  BY <1>1, <1>2, SetEntryType

LEMMA ClearRegistryType ==
  ASSUME TypeOK, NEW p \in Proc, ClearRegistry(p)
  PROVE  DiskType' /\ IndexType' /\ ForceType' /\ AckType'
<1> USE DEF ClearRegistry
<1>1. DiskType' /\ AckType'
  BY TypeParts DEF DiskType, AckType, disk
<1>2. ForceType'
  BY DEF TypeOK, ForceType
<1>3. loaded' \in [Proc -> [Table -> BOOLEAN]]
  BY DEF TypeOK
<1>4. next_id' \in [Proc -> [Table -> Nat \ {0}]]
  BY DEF TypeOK
<1>5. DOMAIN tree' = Proc
  BY DEF TypeOK
<1>6. ASSUME NEW q \in Proc
      PROVE  DOMAIN tree'[q] = Table /\ \A t \in Table : TreeType(tree'[q][t])
  <2>1. tree'[q] = IF q = p THEN [t \in Table |-> EmptyTree] ELSE tree[q]
    BY DEF TypeOK
  <2> QED
    BY <2>1, EmptyTreeType, TypeParts DEF IndexType
<1> QED
  BY <1>1, <1>2, <1>3, <1>4, <1>5, <1>6 DEF IndexType

\* A step that leaves the files, the index, the hook and the history alone.
LEMMA SameDataType ==
  ASSUME TypeOK, UNCHANGED <<disk, index, force, acked>>
  PROVE  DiskType' /\ IndexType' /\ ForceType' /\ AckType'
BY TypeParts DEF DiskType, IndexType, TreeType, ForceType, AckType, disk, index

\* The statement's actions, one lemma for each group of the specification.
LEMMA BeginType ==
  ASSUME TypeInv, NEW p \in Proc, NEW t \in Table, BeginStatement(p, t)
  PROVE  TypeInv'
<1> USE NoStmtType DEF TypeInv, Statement, Begin
<1>1. ASSUME NEW r \in Row \cup LongRow, BeginInsert(p, t, r)
      PROVE  TypeInv'
  <2>1. stmt' \in Statement /\ pc' \in Where /\ StatementReady'
    BY <1>1 DEF BeginInsert, Conts, Where, StatementReady, HasRow, HasId, HasOffset, NoStmt
  <2> QED
    BY <1>1, <2>1, SameDataType, TypePartsNext DEF BeginInsert
<1>2. ASSUME NEW k \in Ids, BeginFind(p, t, k)
      PROVE  TypeInv'
  <2>1. k \in Nat
    BY FileAssumption DEF Ids
  <2>2. stmt' \in Statement /\ pc' \in Where /\ StatementReady'
    BY <1>2, <2>1 DEF BeginFind, Conts, Where, StatementReady, HasRow, HasId, HasOffset, NoStmt
  <2> QED
    BY <1>2, <2>2, SameDataType, TypePartsNext DEF BeginFind
<1>3. ASSUME NEW w \in Row \cup {AnyRow}, BeginSelect(p, t, w)
      PROVE  TypeInv'
  <2>1. stmt' \in Statement /\ pc' \in Where /\ StatementReady'
    BY <1>3 DEF BeginSelect, Conts, Where, StatementReady, HasRow, HasId, HasOffset, NoStmt
  <2> QED
    BY <1>3, <2>1, SameDataType, TypePartsNext DEF BeginSelect
<1> QED
  BY <1>1, <1>2, <1>3 DEF BeginStatement

LEMMA RebuildType ==
  ASSUME TypeInv,
         \/ AlreadyLoaded \/ StartRebuild \/ SkipBlank \/ RebuildRow \/ RebuildDone
         \/ RebuildRejects \/ RebuildFails
  PROVE  TypeInv'
<1> USE DEF TypeInv
<1>0. /\ DiskType /\ IndexType /\ ForceType /\ AckType
      /\ pc \in Where /\ stmt \in Statement
      /\ P \in Proc /\ T \in Table /\ TreeType(Index)
  BY TypeParts DEF P, T, Index, Statement, IndexType
<1>1. CASE AlreadyLoaded
  <2>1. stmt' \in Statement /\ pc' \in Where /\ StatementReady'
    BY <1>0, <1>1 DEF AlreadyLoaded, Goto, Statement, Conts, Where, StatementReady,
                      HasRow, HasId, HasOffset
  <2> QED
    BY <1>1, <2>1, SameDataType, TypePartsNext DEF AlreadyLoaded
<1>2. CASE StartRebuild
  <2>1. stmt' \in Statement /\ pc' \in Where /\ StatementReady'
    <3>1. stmt' \in Statement
      BY <1>0, <1>2 DEF StartRebuild, Statement
    <3>2. /\ pc = "ensure" /\ pc' = "scan"
          /\ stmt'.pos = 2 /\ stmt'.next = 1 /\ stmt'.id = stmt.id /\ stmt'.row = stmt.row
          /\ stmt'.offset = stmt.offset /\ stmt'.cont = stmt.cont
      BY <1>0, <1>2 DEF StartRebuild, Goto, Statement
    <3> QED
      BY <3>1, <3>2 DEF Where, StatementReady, HasRow, HasId, HasOffset
  <2>2. IndexType'
    <3>1. DOMAIN tree' = Proc /\ tree' = [tree EXCEPT ![P] = [tree[P] EXCEPT ![T] = EmptyTree]]
      BY <1>0, <1>2 DEF StartRebuild, IndexType
    <3>2. ASSUME NEW p \in Proc
          PROVE  DOMAIN tree'[p] = Table /\ \A t \in Table : TreeType(tree'[p][t])
      BY <1>0, <3>1, EmptyTreeType DEF IndexType
    <3> QED
      BY <1>0, <1>2, <3>1, <3>2 DEF StartRebuild, IndexType
  <2> QED
    BY <1>0, <1>2, <2>1, <2>2, TypePartsNext DEF StartRebuild, DiskType, ForceType, AckType, disk
<1>3. CASE SkipBlank
  <2>1. stmt' \in Statement /\ pc' \in Where /\ StatementReady'
    BY <1>0, <1>3 DEF SkipBlank, Statement, StatementReady, HasRow, HasId, HasOffset
  <2> QED
    BY <1>3, <2>1, SameDataType, TypePartsNext DEF SkipBlank
<1>4. CASE RebuildRow
  <2>1. stmt.next \in Nat \ {0} /\ stmt.pos \in Nat \ {0}
    BY <1>0, <1>4 DEF RebuildRow, Statement, StatementReady
  <2>2. stmt' \in Statement /\ pc' \in Where /\ StatementReady'
    <3>1. stmt' \in Statement
      <4>1. stmt.pos + 1 \in Nat /\ stmt.next + 1 \in Nat
        BY <2>1
      <4>2. stmt' = [stmt EXCEPT !.pos = stmt.pos + 1, !.next = stmt.next + 1]
        BY <1>0, <1>4 DEF RebuildRow, Statement
      <4> QED
        BY <1>0, <4>1, <4>2 DEF Statement
    <3>2. /\ pc = "scan" /\ pc' = "scan"
          /\ stmt'.pos = stmt.pos + 1 /\ stmt'.next = stmt.next + 1 /\ stmt'.id = stmt.id /\ stmt'.row = stmt.row
          /\ stmt'.offset = stmt.offset /\ stmt'.cont = stmt.cont
      BY <1>0, <1>4 DEF RebuildRow, Statement
    <3> QED
      BY <1>0, <2>1, <3>1, <3>2 DEF StatementReady, HasRow, HasId, HasOffset
  <2>3. TreeType(WithEntry(Index, stmt.next, stmt.pos))
    BY <1>0, <2>1, WithEntryType
  <2>4. IndexType'
    <3>1. tree' = [tree EXCEPT ![P] = [tree[P] EXCEPT ![T] =
                                         WithEntry(Index, stmt.next, stmt.pos)]]
      BY <1>4 DEF RebuildRow
    <3>2. ASSUME NEW p \in Proc
          PROVE  DOMAIN tree'[p] = Table /\ \A t \in Table : TreeType(tree'[p][t])
      BY <1>0, <2>3, <3>1 DEF IndexType
    <3> QED
      BY <1>0, <1>4, <3>1, <3>2 DEF RebuildRow, IndexType
  <2> QED
    BY <1>0, <1>4, <2>2, <2>4, TypePartsNext DEF RebuildRow, DiskType, ForceType, AckType, disk
<1>5. CASE RebuildDone
  <2>1. stmt' \in Statement /\ pc' \in Where /\ StatementReady'
    BY <1>0, <1>5 DEF RebuildDone, Goto, Statement, Conts, Where, StatementReady,
                      HasRow, HasId, HasOffset
  <2>2. stmt.next \in Nat \ {0}
    BY <1>0, <1>5 DEF RebuildDone, Statement, StatementReady
  <2>3. \E ld \in BOOLEAN : SetEntry(ld, stmt.next, Index)
    <3>1. SetEntry(TRUE, stmt.next, Index)
      BY <1>5 DEF RebuildDone
    <3> QED
      BY <3>1
  <2>4. IndexType'
    BY <1>0, <2>2, <2>3, SetEntryType
  <2> QED
    BY <1>0, <1>5, <2>1, <2>4, TypePartsNext DEF RebuildDone, DiskType, ForceType, AckType, disk
<1>6. CASE pc = "scan" /\ RebuildAborts
  <2>1. stmt' \in Statement /\ pc' \in Where /\ StatementReady'
    <3>1. CASE stmt.cont = "insert"
      BY <1>0, <1>6, <3>1 DEF RebuildAborts, Goto, Where, StatementReady, HasRow, HasId, HasOffset
    <3>2. CASE stmt.cont # "insert"
      <4>1. Return(ErrorReply)
        BY <1>6, <3>2 DEF RebuildAborts
      <4> QED
        BY <4>1, ReturnType
    <3> QED
      BY <3>1, <3>2
  <2>2. IndexType'
    BY <1>6, ClearEntryType DEF RebuildAborts
  <2> QED
    BY <1>0, <1>6, <2>1, <2>2, TypePartsNext DEF RebuildAborts, DiskType, ForceType, AckType, disk
<1> QED
  BY <1>1, <1>2, <1>3, <1>4, <1>5, <1>6 DEF RebuildRejects, RebuildFails

LEMMA InsertType ==
  ASSUME TypeInv,
         \/ GetNextId \/ AppendRow \/ AppendFails \/ AppendTorn \/ AppendLost
         \/ RegisterForcedToFail \/ RegisterRow \/ InsertId \/ InsertFails \/ Invalidate
  PROVE  TypeInv'
<1> USE DEF TypeInv
<1>0. /\ DiskType /\ IndexType /\ ForceType /\ AckType
      /\ pc \in Where /\ stmt \in Statement
      /\ P \in Proc /\ T \in Table /\ TreeType(Index)
  BY TypeParts DEF P, T, Index, Statement, IndexType
<1>1. CASE GetNextId
  <2>1. next_id[P][T] \in Nat \ {0}
    BY <1>0 DEF IndexType
  <2>2. stmt' \in Statement /\ pc' \in Where /\ StatementReady'
    BY <1>0, <1>1, <2>1 DEF GetNextId, Goto, Statement, Where, StatementReady,
                            HasRow, HasId, HasOffset
  <2> QED
    BY <1>1, <2>2, SameDataType, TypePartsNext DEF GetNextId
<1>2. CASE AppendRow
  <2>1. ended[T] \/ WritesLineEnd(T)
    BY <1>0 DEF DiskType, WritesLineEnd
  <2>2. /\ file' = [file EXCEPT ![T] = @ \o Written(stmt.row)]
        /\ stmt' = [stmt EXCEPT !.offset = Len(Lines) + 1]
    BY <1>2, <2>1 DEF AppendRow
  <2>3. stmt.row \in Row \cup LongRow
    BY <1>2 DEF AppendRow, StatementReady, HasRow
  <2>4. Lines \in Seq(Chunk) /\ Len(Lines) + 1 \in Nat \ {0}
    BY <1>0 DEF DiskType, Lines
  <2>5. Lines \o Written(stmt.row) \in Seq(Chunk)
    BY <2>3, <2>4, WrittenType
  <2>6. DiskType'
    BY <1>0, <1>2, <2>2, <2>5 DEF DiskType, AppendRow, Lines
  <2>7. stmt' \in Statement
    BY <1>0, <2>2, <2>4 DEF Statement
  <2>8. /\ pc = "append" /\ pc' = "register"
        /\ stmt'.id = stmt.id /\ stmt'.offset = Len(Lines) + 1
    BY <1>0, <1>2, <2>2 DEF AppendRow, Goto, Statement
  <2>9. StatementReady'
    BY <2>4, <2>8 DEF StatementReady, HasRow, HasId, HasOffset
  <2> QED
    BY <1>0, <1>2, <2>6, <2>7, <2>8, <2>9, TypePartsNext
       DEF AppendRow, Where, IndexType, TreeType, ForceType, AckType, index
<1>3. CASE AppendFails
  <2>1. stmt' \in Statement /\ pc' \in Where /\ StatementReady'
    BY <1>3, ReturnType DEF AppendFails
  <2>2. DiskType'
    BY <1>0, <1>3 DEF AppendFails, DiskType
  <2> QED
    BY <1>0, <1>3, <2>1, <2>2, TypePartsNext
       DEF AppendFails, IndexType, TreeType, ForceType, AckType, index
<1>4. ASSUME NEW c \in Torn
      PROVE  [file EXCEPT ![T] = Append(@, c)] \in [Table -> Seq(Chunk)]
  <2>1. c \in Chunk
    BY ChunkAssumption
  <2>2. Append(file[T], c) \in Seq(Chunk)
    BY <1>0, <2>1 DEF DiskType
  <2> QED
    BY <1>0, <2>2 DEF DiskType
<1>5. CASE AppendTorn
  <2>1. stmt' \in Statement /\ pc' \in Where /\ StatementReady'
    BY <1>5, ReturnType DEF AppendTorn
  <2>2. DiskType'
    BY <1>0, <1>4, <1>5 DEF AppendTorn, DiskType
  <2> QED
    BY <1>0, <1>5, <2>1, <2>2, TypePartsNext
       DEF AppendTorn, IndexType, TreeType, ForceType, AckType, index
<1>6. CASE AppendLost
  <2>1. Len(Lines) + 1 \in Nat \ {0}
    BY <1>0 DEF DiskType, Lines
  <2>2. DiskType'
    BY <1>0, <1>4, <1>6 DEF AppendLost, DiskType, disk
  <2>3. stmt' \in Statement
    BY <1>0, <1>6, <2>1 DEF AppendLost, Statement
  <2>4. /\ pc = "append" /\ pc' = "register"
        /\ stmt'.id = stmt.id /\ stmt'.offset = Len(Lines) + 1
    BY <1>0, <1>6 DEF AppendLost, Goto, Statement
  <2>5. StatementReady'
    BY <2>1, <2>4 DEF StatementReady, HasRow, HasId, HasOffset
  <2> QED
    BY <1>0, <1>6, <2>2, <2>3, <2>4, <2>5, TypePartsNext
       DEF AppendLost, Where, IndexType, TreeType, ForceType, AckType, index
<1>7. CASE RegisterForcedToFail
  <2>1. stmt' \in Statement /\ pc' \in Where /\ StatementReady'
    BY <1>0, <1>7 DEF RegisterForcedToFail, Goto, Where, StatementReady, HasRow, HasId,
                      HasOffset
  <2>2. ForceType'
    BY <1>0, <1>7 DEF RegisterForcedToFail, ForceType
  <2> QED
    BY <1>0, <1>7, <2>1, <2>2, TypePartsNext
       DEF RegisterForcedToFail, DiskType, IndexType, TreeType, AckType, disk, index
<1>8. CASE RegisterRow
  <2>1. stmt' \in Statement /\ pc' \in Where /\ StatementReady'
    BY <1>0, <1>8 DEF RegisterRow, Goto, Statement, Conts, Where, StatementReady, HasRow,
                      HasId, HasOffset
  <2> QED
    BY <1>8, <2>1, SameDataType, TypePartsNext DEF RegisterRow
<1>9. CASE InsertId
  <2>1. stmt' \in Statement /\ pc' \in Where /\ StatementReady'
    BY <1>9, ReturnType DEF InsertId
  <2>2. stmt.id \in Nat \ {0} /\ stmt.offset \in Nat \ {0}
    BY <1>0, <1>9 DEF InsertId, Statement, StatementReady, HasId, HasOffset
  <2>3. NextAfter(stmt.id, next_id[P][T]) \in Nat \ {0}
    BY <1>0, <2>2 DEF NextAfter, IndexType
  <2>4. TreeType(WithId)
    BY <1>0, <2>2, WithEntryType DEF WithId
  <2>5. \E ld \in BOOLEAN : SetEntry(ld, NextAfter(stmt.id, next_id[P][T]), WithId)
    BY <1>0, <1>9 DEF InsertId, IndexType
  <2>6. IndexType'
    BY <2>3, <2>4, <2>5, SetEntryType
  <2>7. AckType'
    <3>1. stmt.row \in Row \cup LongRow \cup {AnyRow}
      BY <1>0 DEF Statement
    <3> QED
      BY <1>0, <1>9, <2>2, <3>1 DEF InsertId, AckType
  <2> QED
    BY <1>0, <1>9, <2>1, <2>6, <2>7, TypePartsNext DEF InsertId, DiskType, ForceType, disk
<1>10. CASE InsertFails
  <2>1. stmt' \in Statement /\ pc' \in Where /\ StatementReady'
    BY <1>0, <1>10 DEF InsertFails, Goto, Where, StatementReady, HasRow, HasId, HasOffset
  <2>2. stmt.id \in Nat \ {0} /\ stmt.offset \in Nat \ {0}
    BY <1>0, <1>10 DEF InsertFails, Statement, StatementReady, HasId, HasOffset
  <2>3. TreeType(WithId)
    BY <1>0, <2>2, WithEntryType DEF WithId
  <2>4. PICK keep \in SUBSET DOMAIN WithId :
          tree' = [tree EXCEPT ![P] = [tree[P] EXCEPT ![T] = [id \in keep |-> WithId[id]]]]
    BY <1>10 DEF InsertFails
  <2>5. TreeType([id \in keep |-> WithId[id]])
    BY <2>3 DEF TreeType
  <2>6. ASSUME NEW p \in Proc
        PROVE  DOMAIN tree'[p] = Table /\ \A t \in Table : TreeType(tree'[p][t])
    BY <1>0, <2>4, <2>5 DEF IndexType
  <2>7. IndexType'
    BY <1>0, <1>10, <2>4, <2>6 DEF InsertFails, IndexType
  <2> QED
    BY <1>0, <1>10, <2>1, <2>7, TypePartsNext DEF InsertFails, DiskType, ForceType, AckType, disk
<1>11. CASE Invalidate
  <2>1. IndexType'
    BY <1>11, ClearEntryType DEF Invalidate
  <2>2. stmt' \in Statement /\ pc' \in Where /\ StatementReady'
    BY <1>11, ReturnType DEF Invalidate
  <2> QED
    BY <1>0, <1>11, <2>1, <2>2, TypePartsNext DEF Invalidate, DiskType, ForceType, AckType, disk
<1> QED
  BY <1>1, <1>2, <1>3, <1>5, <1>6, <1>7, <1>8, <1>9, <1>10, <1>11

LEMMA SelectType ==
  ASSUME TypeInv,
         \/ FindRow \/ ReadRow \/ SelectRow \/ SelectDone \/ SelectRejects \/ SelectFails
  PROVE  TypeInv'
<1> USE DEF TypeInv
<1>0. /\ pc \in Where /\ stmt \in Statement
      /\ P \in Proc /\ T \in Table /\ TreeType(Index)
  BY TypeParts DEF P, T, Index, Statement, IndexType
<1>1. ASSUME NEW r, Return(r), UNCHANGED <<disk, index, force, acked>>
      PROVE  TypeInv'
  BY <1>1, ReturnType, SameDataType, TypePartsNext
<1>2. CASE FindRow
  <2>1. CASE stmt.id \in DOMAIN Index
    <3>1. Index[stmt.id] \in Nat
      BY <1>0, <2>1 DEF TreeType, Offsets
    <3>2. stmt' \in Statement /\ pc' \in Where /\ StatementReady'
      BY <1>0, <1>2, <2>1, <3>1 DEF FindRow, Goto, Statement, Where, StatementReady, HasRow,
                                    HasId, HasOffset
    <3> QED
      BY <1>2, <3>2, SameDataType, TypePartsNext DEF FindRow
  <2>2. CASE stmt.id \notin DOMAIN Index
    BY <1>1, <1>2, <2>2 DEF FindRow
  <2> QED
    BY <2>1, <2>2
<1>3. CASE ReadRow
  BY <1>1, <1>3 DEF ReadRow
<1>4. CASE SelectRow
  <2>1. Here \in Row /\ stmt.next \in Nat /\ stmt.pos + 1 \in Nat /\ stmt.next + 1 \in Nat
    BY <1>0, <1>4 DEF SelectRow, Statement
  <2>2. stmt.rows \cup {<<stmt.next, Here>>} \in SUBSET (Nat \X Row)
        /\ stmt.rows \in SUBSET (Nat \X Row)
    BY <1>0, <2>1 DEF Statement
  <2>3. PICK rs \in SUBSET (Nat \X Row) :
          stmt' = [stmt EXCEPT !.pos = stmt.pos + 1, !.next = stmt.next + 1, !.rows = rs]
    BY <1>0, <1>4, <2>2 DEF SelectRow, Statement
  <2>4. stmt' \in Statement
    BY <1>0, <2>1, <2>3 DEF Statement
  <2>5. pc' \in Where /\ StatementReady'
    BY <1>0, <1>4 DEF SelectRow, StatementReady, HasRow, HasId, HasOffset
  <2> QED
    BY <1>4, <2>4, <2>5, SameDataType, TypePartsNext DEF SelectRow
<1>5. CASE SelectDone
  BY <1>1, <1>5 DEF SelectDone
<1>6. CASE SelectRejects
  BY <1>1, <1>6 DEF SelectRejects
<1>7. CASE SelectFails
  BY <1>1, <1>7 DEF SelectFails
<1> QED
  BY <1>2, <1>3, <1>4, <1>5, <1>6, <1>7

LEMMA EnvironmentType ==
  ASSUME TypeInv, Environment
  PROVE  TypeInv'
<1> USE DEF TypeInv
<1>1. ASSUME NEW p \in Proc, NEW t \in Table, BeginStatement(p, t)
      PROVE  TypeInv'
  BY <1>1, BeginType
<1>2. ASSUME NEW p \in Proc, ForceNextRegisterFailure(p)
      PROVE  TypeInv'
  <2>1. DiskType' /\ IndexType' /\ ForceType' /\ AckType'
    BY <1>2, TypeParts DEF ForceNextRegisterFailure, DiskType, IndexType, TreeType,
                           ForceType, AckType, disk, index
  <2>2. pc' \in Where /\ stmt' \in Statement /\ StatementReady'
    BY <1>2, TypeParts DEF ForceNextRegisterFailure, StatementReady, HasRow, HasId, HasOffset
  <2> QED
    BY <2>1, <2>2, TypePartsNext
<1>3. ASSUME NEW p \in Proc, RegistryReset(p)
      PROVE  TypeInv'
  <2>1. DiskType' /\ IndexType' /\ ForceType' /\ AckType'
    BY <1>3, ClearRegistryType DEF RegistryReset
  <2>2. pc' \in Where /\ stmt' \in Statement /\ StatementReady'
    BY <1>3, TypeParts DEF RegistryReset, StatementReady, HasRow, HasId, HasOffset
  <2> QED
    BY <2>1, <2>2, TypePartsNext
<1>4. CASE Crash
  <2>1. P \in Proc
    BY TypeParts DEF P, Statement
  <2>2. DiskType' /\ IndexType' /\ ForceType' /\ AckType'
    BY <1>4, <2>1, ClearRegistryType DEF Crash
  <2>3. pc' \in Where /\ stmt' \in Statement /\ StatementReady'
    BY <1>4, ReturnType DEF Crash
  <2> QED
    BY <2>2, <2>3, TypePartsNext
<1> QED
  BY <1>1, <1>2, <1>3, <1>4 DEF Environment

LEMMA TypeStep == TypeInv /\ [Next]_vars => TypeInv'
<1> SUFFICES ASSUME TypeInv, [Next]_vars PROVE TypeInv'
  OBVIOUS
<1>1. CASE Progress
  BY <1>1, RebuildType, InsertType, SelectType DEF Progress
<1>2. CASE Failure
  BY <1>2, RebuildType, InsertType, SelectType DEF Failure
<1>3. CASE Environment
  BY <1>3, EnvironmentType
<1>4. CASE UNCHANGED vars
  <2>1. DiskType' /\ IndexType' /\ ForceType' /\ AckType'
    BY <1>4, TypeParts DEF TypeInv, DiskType, IndexType, TreeType, ForceType, AckType, vars,
                           disk, index
  <2>2. pc' \in Where /\ stmt' \in Statement /\ StatementReady'
    BY <1>4, TypeParts DEF TypeInv, StatementReady, HasRow, HasId, HasOffset, vars
  <2> QED
    BY <2>1, <2>2, TypePartsNext DEF TypeInv
<1> QED
  BY <1>1, <1>2, <1>3, <1>4 DEF Next

\* In every reachable state every variable has its type and the running
\* statement carries what its next steps need.
THEOREM TypeInvariant == Spec => []TypeInv
BY TypeInit, TypeStep, PTL DEF Spec

\* Every id and offset the indexes ever hold is positive and every file stays
\* a sequence of chunks, whatever fails (executor.c, table_index.c, storage.c).
THEOREM TypeCorrect == Spec => []TypeOK
<1>1. TypeInv => TypeOK
  BY DEF TypeInv
<1> QED
  BY <1>1, TypeInvariant, PTL

-----------------------------------------------------------------------------
(* The second ensure_loaded of an INSERT.  The invariant says more than the *)
(* property: once get_next_id has loaded the index, nothing unloads it      *)
(* until the INSERT returns or drops it.                                    *)

StaysLoaded ==
  /\ pc \in {"getId", "append", "register", "insert"} => loaded[P][T]
  /\ pc \in {"ensure", "scan"} /\ stmt.cont = "insert" => loaded[P][T]

LEMMA StaysLoadedStep == TypeInv /\ StaysLoaded /\ [Next]_vars => StaysLoaded'
<1> SUFFICES ASSUME TypeInv, StaysLoaded, [Next]_vars PROVE StaysLoaded'
  OBVIOUS
<1>0. /\ stmt \in Statement /\ P \in Proc /\ T \in Table
      /\ loaded \in [Proc -> [Table -> BOOLEAN]]
  BY TypeParts DEF TypeInv, P, T, Statement, IndexType
<1>1. CASE AlreadyLoaded
  BY <1>0, <1>1 DEF AlreadyLoaded, Goto, StaysLoaded, index, P, T
<1>2. CASE StartRebuild
  BY <1>0, <1>2 DEF StartRebuild, Goto, StaysLoaded, P, T, Statement
<1>3. CASE SkipBlank \/ RebuildRow
  BY <1>0, <1>3 DEF SkipBlank, RebuildRow, StaysLoaded, index, P, T, Statement
<1>4. CASE RebuildDone
  <2>1. loaded'[P][T]
    BY <1>0, <1>4 DEF RebuildDone, SetEntry
  <2> QED
    BY <1>4, <2>1 DEF RebuildDone, Goto, StaysLoaded, P, T
<1>5. ASSUME \/ pc' = "idle" \/ pc' = "invalidate" \/ pc' = "read" \/ pc' = "select"
             \/ pc' = "ensure" /\ stmt'.cont # "insert"
      PROVE  StaysLoaded'
  BY <1>5 DEF StaysLoaded
<1>6. CASE RebuildRejects \/ RebuildFails
  BY <1>5, <1>6 DEF RebuildRejects, RebuildFails, RebuildAborts, Goto, Return
<1>7. CASE GetNextId
  BY <1>0, <1>7 DEF GetNextId, Goto, StaysLoaded, index, P, T, Statement
<1>8. CASE AppendRow \/ AppendLost
  <2>1. stmt'.proc = stmt.proc /\ stmt'.table = stmt.table /\ loaded' = loaded
    BY <1>0, <1>8 DEF AppendRow, AppendLost, index, Statement
  <2> QED
    BY <1>8, <2>1 DEF AppendRow, AppendLost, Goto, StaysLoaded, P, T
<1>9. CASE RegisterRow
  BY <1>0, <1>9 DEF RegisterRow, Goto, StaysLoaded, index, P, T, Statement
<1>10. CASE RegisterForcedToFail \/ InsertFails
  BY <1>5, <1>10 DEF RegisterForcedToFail, InsertFails, Goto
<1>11. CASE AppendFails \/ AppendTorn \/ InsertId \/ Invalidate
  BY <1>5, <1>11 DEF AppendFails, AppendTorn, InsertId, Invalidate, Return
<1>12. CASE FindRow \/ ReadRow
  BY <1>5, <1>12 DEF FindRow, ReadRow, Goto, Return
<1>13. CASE SelectRow \/ SelectDone \/ SelectRejects \/ SelectFails
  BY <1>5, <1>13 DEF SelectRow, SelectDone, SelectRejects, SelectFails, Return
<1>14. ASSUME NEW p \in Proc, NEW t \in Table, BeginStatement(p, t)
       PROVE  StaysLoaded'
  BY <1>5, <1>14, NoStmtType
     DEF BeginStatement, BeginInsert, BeginFind, BeginSelect, Begin, NoStmt
<1>15. ASSUME NEW p \in Proc, ForceNextRegisterFailure(p) \/ RegistryReset(p)
       PROVE  StaysLoaded'
  BY <1>5, <1>15 DEF ForceNextRegisterFailure, RegistryReset, Idle
<1>16. CASE Crash
  BY <1>5, <1>16 DEF Crash, Return
<1>17. CASE UNCHANGED vars
  BY <1>17 DEF vars, StaysLoaded, P, T
<1> QED
  BY <1>1, <1>2, <1>3, <1>4, <1>6, <1>7, <1>8, <1>9, <1>10, <1>11, <1>12, <1>13, <1>14, <1>15,
     <1>16, <1>17 DEF Next, Progress, Failure, Environment

\* register_row finds the index loaded (table_index.c:224): an INSERT never
\* counts its own row into the index by rebuilding it, whatever fails.
THEOREM RegisterFindsIndexLoaded == Spec => []RegisterNeverRebuilds
<1>1. Init => StaysLoaded
  BY DEF Init, StaysLoaded
<1>2. StaysLoaded => RegisterNeverRebuilds
  BY DEF StaysLoaded, RegisterNeverRebuilds
<1> QED
  BY <1>1, <1>2, TypeInvariant, StaysLoadedStep, PTL DEF Spec

-----------------------------------------------------------------------------
(* The files.                                                              *)

LEMMA GrowsStep ==
  TypeInv /\ [Next]_vars =>
    \A t \in Table :
      /\ Len(file[t]) <= Len(file'[t])
      /\ \A i \in 1..Len(file[t]) : file'[t][i] = file[t][i]
<1> SUFFICES ASSUME TypeInv, [Next]_vars, NEW t \in Table
             PROVE  /\ Len(file[t]) <= Len(file'[t])
                    /\ \A i \in 1..Len(file[t]) : file'[t][i] = file[t][i]
  OBVIOUS
<1>0. /\ file \in [Table -> Seq(Chunk)] /\ ended \in [Table -> BOOLEAN]
      /\ T \in Table /\ Len(file[t]) \in Nat
  BY TypeParts DEF TypeInv, DiskType, T, Statement
<1>1. CASE file' = file
  BY <1>0, <1>1
<1>2. ASSUME NEW s \in Seq(Chunk), file' = [file EXCEPT ![T] = @ \o s]
      PROVE  /\ Len(file[t]) <= Len(file'[t])
             /\ \A i \in 1..Len(file[t]) : file'[t][i] = file[t][i]
  <2>1. CASE t = T
    <3>1. file'[t] = file[t] \o s
      BY <1>0, <1>2, <2>1
    <3> QED
      BY <1>0, <3>1
  <2>2. CASE t # T
    BY <1>0, <1>2, <2>2
  <2> QED
    BY <2>1, <2>2
<1>3. CASE AppendRow
  <2>1. ended[T] \/ WritesLineEnd(T)
    BY <1>0 DEF WritesLineEnd
  <2>2. Written(stmt.row) \in Seq(Chunk)
    BY <1>3, WrittenType DEF TypeInv, AppendRow, StatementReady, HasRow
  <2> QED
    BY <1>2, <1>3, <2>1, <2>2 DEF AppendRow
<1>4. ASSUME NEW c \in Torn, file' = [file EXCEPT ![T] = Append(@, c)]
      PROVE  /\ Len(file[t]) <= Len(file'[t])
             /\ \A i \in 1..Len(file[t]) : file'[t][i] = file[t][i]
  <2>1. c \in Chunk
    BY ChunkAssumption
  <2>2. file'[t] = IF t = T THEN Append(file[t], c) ELSE file[t]
    BY <1>0, <1>4
  <2> QED
    BY <1>0, <2>1, <2>2
<1>5. CASE AppendTorn \/ AppendLost
  BY <1>1, <1>4, <1>5 DEF AppendTorn, AppendLost, disk
<1>6. CASE AlreadyLoaded \/ StartRebuild \/ SkipBlank \/ RebuildRow \/ RebuildDone
           \/ RebuildRejects \/ RebuildFails
  BY <1>1, <1>6 DEF AlreadyLoaded, StartRebuild, SkipBlank, RebuildRow, RebuildDone,
                    RebuildRejects, RebuildFails, RebuildAborts, disk
<1>7. CASE GetNextId \/ AppendFails \/ RegisterForcedToFail \/ RegisterRow \/ InsertId
           \/ InsertFails \/ Invalidate
  BY <1>1, <1>7 DEF GetNextId, AppendFails, RegisterForcedToFail, RegisterRow, InsertId,
                    InsertFails, Invalidate, disk
<1>8. CASE FindRow \/ ReadRow \/ SelectRow \/ SelectDone \/ SelectRejects \/ SelectFails
  BY <1>1, <1>8 DEF FindRow, ReadRow, SelectRow, SelectDone, SelectRejects, SelectFails, disk
<1>9. CASE Environment
  BY <1>1, <1>9 DEF Environment, BeginStatement, BeginInsert, BeginFind, BeginSelect, Begin,
                    ForceNextRegisterFailure, RegistryReset, Crash, ClearRegistry, disk
<1>10. CASE UNCHANGED vars
  BY <1>1, <1>10 DEF vars
<1> QED
  BY <1>3, <1>5, <1>6, <1>7, <1>8, <1>9, <1>10 DEF Next, Progress, Failure

\* Offsets stay valid for ever: no statement changes or removes what a file
\* holds (append_row_csv seeks to the end before every write, storage.c:231, :257).
THEOREM FilesAreAppendOnly == Spec => FileOnlyGrows
BY TypeInvariant, GrowsStep, PTL DEF Spec, FileOnlyGrows

-----------------------------------------------------------------------------
(***************************************************************************)
(* How far index and file agree: for all tables and files, any number of   *)
(* rows and of statements.                                                 *)
(*                                                                         *)
(* While only one process uses the files, no write fails half way and no   *)
(* row is longer than the line buffer (Undisturbed), an index in use       *)
(* agrees with its file, whatever else fails.  The invariant behind it     *)
(* says what the index holds in the middle of a rebuild (the rows before   *)
(* the cursor) and between the write of a row and its registration (every  *)
(* row but the last).                                                      *)
(*                                                                         *)
(* Without these assumptions, scans still tell the truth, a rebuild still  *)
(* repairs the index, and the ids of an index in use still have no gap.    *)
(***************************************************************************)

Undisturbed ==
  /\ Torn = {}
  /\ ~LostFlush
  /\ LongRow = {}
  /\ \A p, q \in Proc : p = q

-----------------------------------------------------------------------------
(* Counting the rows of a file.                                            *)

\* The data rows at positions up to n.
UpTo(f, n) == {j \in DataRows(f) : j <= n}

\* How many there are.  RowId(f, i) is Count(f, i).
Count(f, n) == Cardinality(UpTo(f, n))

\* The map holds exactly the data rows at positions up to n.
MatchesUpTo(map, f, n) ==
  /\ DOMAIN map = 1..Count(f, n)
  /\ \A i \in UpTo(f, n) : map[Count(f, i)] = i
  /\ \A id \in DOMAIN map : map[id] \in UpTo(f, n) /\ Count(f, map[id]) = id

LEMMA UpToFinite ==
  ASSUME NEW f \in Seq(Chunk), NEW n \in Nat
  PROVE  IsFiniteSet(UpTo(f, n)) /\ Count(f, n) \in Nat
<1>1. 1 \in Int /\ Len(f) \in Int
  OBVIOUS
<1>2. IsFiniteSet(1..Len(f))
  BY <1>1, FS_Interval
<1>3. UpTo(f, n) \in SUBSET (1..Len(f))
  BY DEF UpTo, DataRows
<1>4. IsFiniteSet(UpTo(f, n))
  BY <1>2, <1>3, FS_Subset
<1> QED
  BY <1>4, FS_CardinalityType DEF Count

\* One position further: the count goes up by one at a data row.
LEMMA CountNext ==
  ASSUME NEW f \in Seq(Chunk), NEW n \in Nat
  PROVE  Count(f, n + 1) = IF n + 1 \in DataRows(f) THEN Count(f, n) + 1 ELSE Count(f, n)
<1>1. IsFiniteSet(UpTo(f, n)) /\ n + 1 \notin UpTo(f, n)
  BY UpToFinite DEF UpTo
<1>2. CASE n + 1 \in DataRows(f)
  <2>1. UpTo(f, n + 1) = UpTo(f, n) \cup {n + 1}
    BY <1>2 DEF UpTo, DataRows
  <2> QED
    BY <1>1, <1>2, <2>1, FS_AddElement DEF Count
<1>3. CASE n + 1 \notin DataRows(f)
  <2>1. UpTo(f, n + 1) = UpTo(f, n)
    BY <1>3 DEF UpTo, DataRows
  <2> QED
    BY <1>3, <2>1 DEF Count
<1> QED
  BY <1>2, <1>3

LEMMA CountMonotone ==
  ASSUME NEW f \in Seq(Chunk), NEW m \in Nat, NEW n \in Nat, m <= n
  PROVE  Count(f, m) <= Count(f, n)
<1>1. UpTo(f, m) \in SUBSET UpTo(f, n)
  BY DEF UpTo, DataRows
<1> QED
  BY <1>1, UpToFinite, FS_Subset DEF Count

\* Nothing is counted up to the header; everything up to the end.
LEMMA CountBounds ==
  ASSUME NEW f \in Seq(Chunk)
  PROVE  /\ Count(f, 1) = 0
         /\ UpTo(f, Len(f)) = DataRows(f)
         /\ Count(f, Len(f)) = Cardinality(DataRows(f))
<1>1. UpTo(f, 1) = {}
  BY DEF UpTo, DataRows
<1>2. UpTo(f, Len(f)) = DataRows(f)
  BY DEF UpTo, DataRows
<1> QED
  BY <1>1, <1>2, FS_EmptySet DEF Count

\* What lies at or before n is counted the same after a row is appended.
LEMMA CountAppend ==
  ASSUME NEW f \in Seq(Chunk), NEW c \in Chunk, NEW n \in Nat, n <= Len(f)
  PROVE  UpTo(f \o <<c>>, n) = UpTo(f, n) /\ Count(f \o <<c>>, n) = Count(f, n)
<1>1. \A i \in 1..Len(f) : (f \o <<c>>)[i] = f[i]
  OBVIOUS
<1>2. Len(f \o <<c>>) = Len(f) + 1
  OBVIOUS
<1>3. UpTo(f \o <<c>>, n) = UpTo(f, n)
  BY <1>1, <1>2 DEF UpTo, DataRows
<1> QED
  BY <1>3 DEF Count

-----------------------------------------------------------------------------
(* The index follows the file.                                             *)

LEMMA MatchesNothing ==
  ASSUME NEW f \in Seq(Chunk)
  PROVE  MatchesUpTo(EmptyTree, f, 1)
<1>1. UpTo(f, 1) = {} /\ Count(f, 1) = 0
  <2>1. UpTo(f, 1) = {}
    BY DEF UpTo, DataRows
  <2> QED
    BY <2>1, CountBounds
<1>2. DOMAIN EmptyTree = {} /\ 1..0 = {}
  BY DEF EmptyTree
<1> QED
  BY <1>1, <1>2 DEF MatchesUpTo

LEMMA MatchesSkip ==
  ASSUME NEW f \in Seq(Chunk), NEW n \in Nat, NEW map,
         MatchesUpTo(map, f, n), n + 1 \notin DataRows(f)
  PROVE  MatchesUpTo(map, f, n + 1)
<1>1. UpTo(f, n + 1) = UpTo(f, n)
  BY DEF UpTo, DataRows
<1>2. Count(f, n + 1) = Count(f, n)
  BY <1>1 DEF Count
<1> QED
  BY <1>1, <1>2 DEF MatchesUpTo

LEMMA MatchesAdd ==
  ASSUME NEW f \in Seq(Chunk), NEW n \in Nat, NEW map,
         MatchesUpTo(map, f, n), n + 1 \in DataRows(f)
  PROVE  MatchesUpTo(WithEntry(map, Count(f, n) + 1, n + 1), f, n + 1)
<1> DEFINE c == Count(f, n)
           new == WithEntry(map, c + 1, n + 1)
<1>1. c \in Nat /\ Count(f, n + 1) = c + 1
  BY UpToFinite, CountNext
<1>2. UpTo(f, n + 1) = UpTo(f, n) \cup {n + 1}
  BY DEF UpTo, DataRows
<1>3. DOMAIN map = 1..c
  BY DEF MatchesUpTo
<1>4. DOMAIN new = 1..(c + 1) /\ new[c + 1] = n + 1 /\ \A id \in 1..c : new[id] = map[id]
  BY <1>1, <1>3 DEF WithEntry
<1>5. ASSUME NEW i \in UpTo(f, n)
      PROVE  new[Count(f, i)] = i
  <2>1. i \in Nat /\ i - 1 \in Nat /\ i <= n /\ i = (i - 1) + 1 /\ i \in DataRows(f)
    BY DEF UpTo, DataRows
  <2>2. Count(f, i) = Count(f, i - 1) + 1 /\ Count(f, i - 1) \in Nat
    BY <2>1, CountNext, UpToFinite
  <2>3. Count(f, i) \in 1..c
    BY <1>1, <2>1, <2>2, CountMonotone
  <2> QED
    BY <1>4, <2>3 DEF MatchesUpTo
<1>6. \A i \in UpTo(f, n + 1) : new[Count(f, i)] = i
  BY <1>1, <1>2, <1>4, <1>5
<1>7. ASSUME NEW id \in DOMAIN new
      PROVE  new[id] \in UpTo(f, n + 1) /\ Count(f, new[id]) = id
  <2>1. CASE id = c + 1
    BY <1>1, <1>2, <1>4, <2>1
  <2>2. CASE id \in 1..c
    BY <1>2, <1>3, <1>4, <2>2 DEF MatchesUpTo
  <2> QED
    BY <1>1, <1>4, <2>1, <2>2
<1> QED
  BY <1>1, <1>4, <1>6, <1>7 DEF MatchesUpTo

LEMMA MatchesAppend ==
  ASSUME NEW f \in Seq(Chunk), NEW c \in Chunk, NEW map, MatchesUpTo(map, f, Len(f))
  PROVE  MatchesUpTo(map, f \o <<c>>, Len(f))
<1>1. Len(f) \in Nat
  OBVIOUS
<1>2. UpTo(f \o <<c>>, Len(f)) = UpTo(f, Len(f))
  BY <1>1, CountAppend
<1>3. \A i \in UpTo(f, Len(f)) : Count(f \o <<c>>, i) = Count(f, i)
  BY CountAppend DEF UpTo, DataRows
<1>4. Count(f \o <<c>>, Len(f)) = Count(f, Len(f))
  BY <1>1, CountAppend
<1> QED
  BY <1>2, <1>3, <1>4 DEF MatchesUpTo

LEMMA MatchesAll ==
  ASSUME NEW f \in Seq(Chunk), NEW map, MatchesUpTo(map, f, Len(f))
  PROVE  Matches(map, f)
BY CountBounds DEF MatchesUpTo, Matches, RowId, Count, UpTo

-----------------------------------------------------------------------------
(* The inductive invariant.                                                *)

Registered(p, t) ==
  /\ MatchesUpTo(tree[p][t], file[t], Len(file[t]))
  /\ next_id[p][t] = Count(file[t], Len(file[t])) + 1

\* The running INSERT has written its row and has not registered it.
AllButLast ==
  LET n == Len(Lines) IN
  /\ n \in DataRows(Lines)
  /\ MatchesUpTo(Index, Lines, n - 1)
  /\ next_id[P][T] = Count(Lines, n - 1) + 1
  /\ stmt.id = next_id[P][T]
  /\ stmt.offset = n

ToRegister == \/ pc \in {"register", "insert"}
              \/ pc = "ensure" /\ stmt.cont = "insert"

HalfRebuilt ==
  /\ ~loaded[P][T]
  /\ stmt.pos - 1 \in 1..Len(Lines)
  /\ MatchesUpTo(Index, Lines, stmt.pos - 1)
  /\ stmt.next = Count(Lines, stmt.pos - 1) + 1

IndexInv ==
  /\ \A t \in Table : Len(file[t]) > 0
  /\ \A p \in Proc, t \in Table : loaded[p][t] /\ ~Registering(p, t) => Registered(p, t)
  /\ ToRegister => AllButLast
  /\ pc = "append" => stmt.id = next_id[P][T]
  /\ pc = "scan" => HalfRebuilt

LEMMA IndexInit == Init => IndexInv
BY FileAssumption DEF Init, IndexInv, ToRegister

\* What every step may rely on.
Assumed == Undisturbed /\ TypeInv /\ StaysLoaded /\ IndexInv

\* Every file has its header line.
FilesBegun == \A t \in Table : Len(file[t]) > 0

LEMMA EntryTypes ==
  ASSUME TypeInv, FilesBegun
  PROVE  /\ stmt \in Statement /\ P \in Proc /\ T \in Table
         /\ file \in [Table -> Seq(Chunk)] /\ Lines \in Seq(Chunk)
         /\ Len(Lines) \in Nat \ {0}
         /\ loaded \in [Proc -> [Table -> BOOLEAN]]
         /\ next_id \in [Proc -> [Table -> Nat \ {0}]]
         /\ DOMAIN tree = Proc /\ \A p \in Proc : DOMAIN tree[p] = Table
<1>1. /\ stmt \in Statement /\ P \in Proc /\ T \in Table
      /\ file \in [Table -> Seq(Chunk)] /\ Lines \in Seq(Chunk)
      /\ loaded \in [Proc -> [Table -> BOOLEAN]]
      /\ next_id \in [Proc -> [Table -> Nat \ {0}]]
      /\ DOMAIN tree = Proc /\ \A p \in Proc : DOMAIN tree[p] = Table
  BY TypeParts DEF TypeInv, Statement, P, T, Lines, DiskType, IndexType
<1>2. Len(Lines) \in Nat /\ Len(Lines) > 0
  BY <1>1 DEF FilesBegun, Lines
<1> QED
  BY <1>1, <1>2

LEMMA AssumedTypes ==
  ASSUME Assumed
  PROVE  /\ stmt \in Statement /\ P \in Proc /\ T \in Table /\ \A p \in Proc : p = P
         /\ file \in [Table -> Seq(Chunk)] /\ Lines \in Seq(Chunk)
         /\ Len(Lines) \in Nat \ {0}
         /\ loaded \in [Proc -> [Table -> BOOLEAN]]
         /\ next_id \in [Proc -> [Table -> Nat \ {0}]]
         /\ DOMAIN tree = Proc /\ \A p \in Proc : DOMAIN tree[p] = Table
<1>1. TypeInv /\ FilesBegun
  BY DEF Assumed, IndexInv, FilesBegun
<1>2. \A p \in Proc : p = P
  BY <1>1, EntryTypes DEF Assumed, Undisturbed
<1> QED
  BY <1>1, <1>2, EntryTypes

\* The same of one entry, at which the running statement works.
EntryInv(p, t) ==
  /\ loaded[p][t] => Registering(p, t) \/ Registered(p, t)
  /\ ToRegister => AllButLast
  /\ pc = "append" => stmt.id = next_id[P][T]
  /\ pc = "scan" => HalfRebuilt

Ready(p, t) ==
  /\ p = P /\ t = T
  /\ TypeInv /\ StaysLoaded /\ FilesBegun
  /\ EntryInv(p, t)

\* A step only concerns the entry and the file of the running statement: what
\* has to be shown for it is about that entry alone.
OthersSame ==
  \A p \in Proc, t \in Table \ {T} :
    /\ file'[t] = file[t]
    /\ loaded'[p][t] = loaded[p][t]
    /\ next_id'[p][t] = next_id[p][t]
    /\ tree'[p][t] = tree[p][t]

EntryKept(p, t) == OthersSame /\ Len(file'[t]) > 0 /\ EntryInv(p, t)'

\* A step that leaves the files and the index alone: its statement was not
\* registering a row, or goes on doing so.
LEMMA EntrySame ==
  ASSUME NEW p \in Proc, NEW t \in Table, Ready(p, t), file' = file, UNCHANGED index,
         \/ ~Registering(p, t)
         \/ Registering(p, t)',
         ToRegister' => AllButLast',
         pc' = "append" => stmt'.id = next_id'[P'][T'],
         pc' = "scan" => HalfRebuilt'
  PROVE  EntryKept(p, t)
<1>1. OthersSame /\ Len(file'[t]) > 0
  BY DEF OthersSame, index, Ready, FilesBegun
<1>2. Registered(p, t) => Registered(p, t)'
  BY DEF Registered, index
<1>3. loaded'[p][t] => Registering(p, t)' \/ Registered(p, t)'
  BY <1>2 DEF index, Ready, EntryInv
<1> QED
  BY <1>1, <1>3 DEF EntryKept, EntryInv

\* A step at which the running statement's entry stops being in use.
LEMMA EntryCleared ==
  ASSUME NEW p \in Proc, NEW t \in Table, Ready(p, t),
         file' = file, ClearEntry, pc' \in {"idle", "invalidate"}
  PROVE  EntryKept(p, t)
<1>1. TypeInv /\ FilesBegun /\ p = P /\ t = T
  BY DEF Ready
<1>2. OthersSame /\ Len(file'[t]) > 0 /\ ~loaded'[p][t]
  BY <1>1, EntryTypes DEF OthersSame, ClearEntry, SetEntry, FilesBegun
<1>3. ~ToRegister' /\ pc' # "append" /\ pc' # "scan"
  BY DEF ToRegister
<1> QED
  BY <1>2, <1>3 DEF EntryKept, EntryInv

LEMMA ReadyTypes ==
  ASSUME NEW p \in Proc, NEW t \in Table, Ready(p, t)
  PROVE  /\ stmt \in Statement /\ P \in Proc /\ T \in Table /\ p = P /\ t = T
         /\ file \in [Table -> Seq(Chunk)] /\ Lines \in Seq(Chunk)
         /\ Len(Lines) \in Nat \ {0}
         /\ loaded \in [Proc -> [Table -> BOOLEAN]]
         /\ next_id \in [Proc -> [Table -> Nat \ {0}]]
         /\ DOMAIN tree = Proc /\ \A q \in Proc : DOMAIN tree[q] = Table
BY EntryTypes DEF Ready

-----------------------------------------------------------------------------
(* A rebuild that goes on.  This needs neither Undisturbed nor IndexInv.   *)

LEMMA HalfRebuiltStep ==
  ASSUME TypeInv, FilesBegun, pc = "scan" => HalfRebuilt,
         StartRebuild \/ (SkipBlank /\ pc = "scan") \/ RebuildRow
  PROVE  /\ HalfRebuilt' /\ P' = P /\ T' = T /\ pc' = "scan"
         /\ file' = file /\ loaded' = loaded /\ ~loaded[P][T]
<1> USE EntryTypes
<1>1. CASE StartRebuild
  <2>1. /\ stmt'.pos = 2 /\ stmt'.next = 1 /\ P' = P /\ T' = T /\ pc' = "scan"
        /\ file' = file /\ loaded' = loaded /\ ~loaded[P][T] /\ tree'[P][T] = EmptyTree
    BY <1>1 DEF StartRebuild, Goto, Statement, P, T, disk
  <2>2. MatchesUpTo(EmptyTree, Lines, 1) /\ Count(Lines, 1) = 0
    BY MatchesNothing, CountBounds
  <2> QED
    BY <2>1, <2>2 DEF HalfRebuilt, Lines, Index
<1>2. ASSUME pc = "scan", stmt.pos <= Len(Lines)
      PROVE  \E n \in Nat : /\ n + 1 = stmt.pos /\ n = stmt.pos - 1 /\ stmt.pos \in 1..Len(Lines)
                            /\ MatchesUpTo(Index, Lines, n) /\ stmt.next = Count(Lines, n) + 1
                            /\ n + 1 \in DataRows(Lines) <=> Lines[n + 1] # Blank
  <2> DEFINE n == stmt.pos - 1
  <2>1. n \in Nat /\ n + 1 = stmt.pos /\ n >= 1 /\ n + 1 <= Len(Lines)
    BY <1>2 DEF HalfRebuilt, Statement
  <2>2. MatchesUpTo(Index, Lines, n) /\ stmt.next = Count(Lines, n) + 1
    BY <1>2 DEF HalfRebuilt
  <2>3. n + 1 \in DataRows(Lines) <=> Lines[n + 1] # Blank
    BY <2>1 DEF DataRows
  <2>4. n = stmt.pos - 1 /\ stmt.pos \in 1..Len(Lines)
    BY <2>1
  <2> HIDE DEF n
  <2> QED
    BY <2>1, <2>2, <2>3, <2>4
<1>3. CASE SkipBlank /\ pc = "scan"
  <2>1. /\ stmt'.pos = stmt.pos + 1 /\ stmt'.next = stmt.next /\ P' = P /\ T' = T
        /\ pc' = "scan" /\ file' = file /\ UNCHANGED index
        /\ stmt.pos <= Len(Lines) /\ Lines[stmt.pos] = Blank
    BY <1>3 DEF SkipBlank, Statement, P, T, disk, AtEnd, Here
  <2>2. PICK n \in Nat : /\ n + 1 = stmt.pos /\ n = stmt.pos - 1 /\ stmt.pos \in 1..Len(Lines)
                         /\ MatchesUpTo(Index, Lines, n) /\ stmt.next = Count(Lines, n) + 1
                         /\ n + 1 \notin DataRows(Lines)
    BY <1>2, <1>3, <2>1
  <2>3. MatchesUpTo(Index, Lines, n + 1) /\ Count(Lines, n + 1) = Count(Lines, n)
    BY <2>2, MatchesSkip, CountNext
  <2>4. stmt'.pos - 1 = n + 1 /\ stmt'.pos - 1 \in 1..Len(Lines) /\ Lines' = Lines /\ Index' = Index
    BY <2>1, <2>2 DEF Lines, Index, index
  <2> QED
    BY <1>3, <2>1, <2>2, <2>3, <2>4 DEF HalfRebuilt, index
<1>4. CASE RebuildRow
  <2>1. /\ stmt'.pos = stmt.pos + 1 /\ stmt'.next = stmt.next + 1 /\ P' = P /\ T' = T
        /\ pc = "scan" /\ pc' = "scan" /\ file' = file /\ loaded' = loaded
        /\ tree'[P][T] = WithEntry(Index, stmt.next, stmt.pos)
        /\ stmt.pos <= Len(Lines) /\ Lines[stmt.pos] # Blank
    BY <1>4 DEF RebuildRow, Statement, P, T, disk, AtEnd, Here
  <2>2. PICK n \in Nat : /\ n + 1 = stmt.pos /\ n = stmt.pos - 1 /\ stmt.pos \in 1..Len(Lines)
                         /\ MatchesUpTo(Index, Lines, n) /\ stmt.next = Count(Lines, n) + 1
                         /\ n + 1 \in DataRows(Lines)
    BY <1>2, <2>1
  <2>3. /\ MatchesUpTo(WithEntry(Index, Count(Lines, n) + 1, n + 1), Lines, n + 1)
        /\ Count(Lines, n + 1) = Count(Lines, n) + 1
    BY <2>2, MatchesAdd, CountNext
  <2>4. /\ stmt'.pos - 1 = n + 1 /\ stmt'.pos - 1 \in 1..Len(Lines) /\ Lines' = Lines
        /\ Index' = WithEntry(Index, Count(Lines, n) + 1, n + 1)
    BY <2>1, <2>2 DEF Lines, Index
  <2>5. ~loaded[P][T] /\ stmt'.next = Count(Lines, n + 1) + 1
    BY <2>1, <2>2, <2>3 DEF HalfRebuilt
  <2> QED
    BY <2>1, <2>3, <2>4, <2>5 DEF HalfRebuilt
<1> QED
  BY <1>1, <1>3, <1>4

-----------------------------------------------------------------------------
(* The invariant is kept, action by action.                                *)

LEMMA EntryRebuild ==
  ASSUME NEW p \in Proc, NEW t \in Table, Ready(p, t),
         \/ AlreadyLoaded \/ StartRebuild \/ SkipBlank \/ RebuildRow \/ RebuildDone
         \/ RebuildRejects \/ RebuildFails
  PROVE  EntryKept(p, t)
<1> USE ReadyTypes
<1>1. p = P /\ t = T
  OBVIOUS
<1>2. pc = "scan" => HalfRebuilt /\ stmt.cont # "insert"
  BY DEF Ready, EntryInv, StaysLoaded, HalfRebuilt
<1>3. CASE AlreadyLoaded
  <2>1. CASE stmt.cont = "insert"
    <3>1. Registering(p, t) /\ Registering(p, t)'
      BY <1>1, <1>3, <2>1 DEF AlreadyLoaded, Goto, Registering, P, T
    <3>2. AllButLast'
      BY <1>3, <2>1 DEF AlreadyLoaded, Ready, EntryInv, ToRegister, AllButLast, disk, index,
                        P, T, Lines, Index
    <3>3. pc' = "insert"
      BY <1>3, <2>1 DEF AlreadyLoaded, Goto
    <3> QED
      BY <1>1, <1>3, <3>1, <3>2, <3>3, EntrySame DEF AlreadyLoaded, disk
  <2>2. CASE stmt.cont # "insert"
    <3>1. ~Registering(p, t)
      BY <1>3, <2>2 DEF AlreadyLoaded, Registering
    <3>2. pc' \in {"getId", "find"}
      BY <1>3, <2>2 DEF AlreadyLoaded, Goto, Statement, Conts
    <3>3. ~ToRegister'
      BY <3>2 DEF ToRegister
    <3> QED
      BY <1>1, <1>3, <3>1, <3>2, <3>3, EntrySame DEF AlreadyLoaded, disk
  <2> QED
    BY <2>1, <2>2
<1>4. CASE StartRebuild \/ (SkipBlank /\ pc = "scan") \/ RebuildRow
  <2>1. /\ HalfRebuilt' /\ P' = P /\ T' = T /\ pc' = "scan" /\ file' = file
        /\ loaded' = loaded /\ ~loaded[P][T]
    BY <1>4, HalfRebuiltStep DEF Ready, EntryInv, FilesBegun
  <2>2. OthersSame
    <3>1. next_id' = next_id
      BY <1>4 DEF StartRebuild, SkipBlank, RebuildRow, index
    <3>2. tree' = tree \/ \E m : tree' = [tree EXCEPT ![P][T] = m]
      BY <1>4 DEF StartRebuild, SkipBlank, RebuildRow, index
    <3>3. \A q \in Proc, u \in Table \ {T} : tree'[q][u] = tree[q][u]
      <4> SUFFICES ASSUME NEW q \in Proc, NEW u \in Table \ {T} PROVE tree'[q][u] = tree[q][u]
        OBVIOUS
      <4>1. DOMAIN tree = Proc /\ DOMAIN tree[q] = Table
        OBVIOUS
      <4>2. CASE tree' = tree
        BY <4>2
      <4>3. ASSUME NEW m, tree' = [tree EXCEPT ![P][T] = m]
            PROVE  tree'[q][u] = tree[q][u]
        BY <4>1, <4>3
      <4> QED
        BY <3>2, <4>2, <4>3
    <3> QED
      BY <2>1, <3>1, <3>3 DEF OthersSame
  <2>3. Len(file'[t]) > 0 /\ ~loaded'[p][t]
    BY <1>1, <2>1 DEF Ready, FilesBegun
  <2>4. ~ToRegister'
    BY <2>1 DEF ToRegister
  <2> QED
    BY <1>1, <2>1, <2>2, <2>3, <2>4 DEF EntryKept, EntryInv
<1>5. CASE SkipBlank /\ pc = "select"
  <2>1. pc' = "select" /\ file' = file /\ UNCHANGED index
    BY <1>5 DEF SkipBlank, disk
  <2>2. ~Registering(p, t) /\ ~ToRegister'
    BY <1>5, <2>1 DEF Registering, ToRegister
  <2> QED
    BY <1>1, <2>1, <2>2, EntrySame
<1>6. CASE RebuildDone
  <2>1. stmt.pos - 1 = Len(Lines)
    BY <1>2, <1>6 DEF RebuildDone, HalfRebuilt, AtEnd, Statement
  <2>2. /\ file' = file /\ next_id'[p][t] = stmt.next /\ tree'[p][t] = tree[p][t]
        /\ pc' \in {"getId", "find"}
    <3>1. file' = file /\ next_id'[P][T] = stmt.next /\ tree'[P][T] = tree[P][T]
      BY <1>6 DEF RebuildDone, SetEntry, disk, Index
    <3>2. pc' \in {"getId", "find"}
      BY <1>2, <1>6 DEF RebuildDone, Goto, Statement, Conts
    <3> QED
      BY <1>1, <3>1, <3>2
  <2>3. Registered(p, t)'
    BY <1>1, <1>2, <1>6, <2>1, <2>2 DEF RebuildDone, Registered, HalfRebuilt, Lines, Index
  <2>4. OthersSame /\ Len(file'[t]) > 0
    BY <1>1, <1>6, <2>2 DEF OthersSame, RebuildDone, SetEntry, Ready, FilesBegun
  <2>5. ~ToRegister'
    BY <2>2 DEF ToRegister
  <2> QED
    BY <1>1, <2>2, <2>3, <2>4, <2>5 DEF EntryKept, EntryInv
<1>7. CASE RebuildAborts
  <2>1. file' = file /\ ClearEntry /\ pc' \in {"idle", "invalidate"}
    BY <1>7 DEF RebuildAborts, Goto, Return, disk
  <2> QED
    BY <2>1, EntryCleared
<1> QED
  BY <1>3, <1>4, <1>5, <1>6, <1>7 DEF RebuildRejects, RebuildFails, SkipBlank

LEMMA EntryInsert ==
  ASSUME NEW p \in Proc, NEW t \in Table, Ready(p, t),
         pc = "append" => stmt.row \notin LongRow,
         \/ GetNextId \/ AppendRow \/ AppendFails
         \/ RegisterForcedToFail \/ RegisterRow \/ InsertId \/ InsertFails \/ Invalidate
  PROVE  EntryKept(p, t)
<1> USE ReadyTypes
<1>1. p = P /\ t = T
  OBVIOUS
<1>2. CASE GetNextId
  <2>1. /\ stmt'.id = next_id[P][T] /\ P' = P /\ T' = T /\ pc' = "append"
        /\ file' = file /\ UNCHANGED index
    BY <1>2 DEF GetNextId, Goto, Statement, P, T, disk
  <2>2. ~Registering(p, t) /\ ~ToRegister' /\ stmt'.id = next_id'[P'][T']
    BY <1>2, <2>1 DEF GetNextId, Registering, ToRegister, index
  <2> QED
    BY <1>1, <2>1, <2>2, EntrySame
<1>3. CASE AppendRow
  <2>1. stmt.row \in Row /\ stmt.row \in Chunk /\ stmt.row # Blank /\ stmt.row \notin LongRow
    BY <1>3, ChunkAssumption
       DEF Ready, TypeInv, AppendRow, StatementReady, HasRow, Chunk
  <2>2. ended[T] \/ WritesLineEnd(T)
    BY DEF WritesLineEnd
  <2>3. /\ file' = [file EXCEPT ![T] = @ \o <<stmt.row>>]
        /\ stmt'.offset = Len(Lines) + 1 /\ stmt'.id = stmt.id /\ P' = P /\ T' = T
        /\ pc = "append" /\ pc' = "register" /\ UNCHANGED index
    BY <1>3, <2>1, <2>2 DEF AppendRow, Written, Goto, Statement, P, T
  <2>4. Lines' = Lines \o <<stmt.row>>
    BY <2>3 DEF Lines
  <2>5. Registered(p, t)
    <3>1. loaded[p][t] /\ ~Registering(p, t)
      BY <1>1, <2>3 DEF Ready, StaysLoaded, Registering
    <3> QED
      BY <3>1 DEF Ready, EntryInv
  <2>6. AllButLast'
    <3> DEFINE n == Len(Lines)
               new == Lines \o <<stmt.row>>
    <3>1. Len(new) = n + 1 /\ new[n + 1] = stmt.row /\ n + 1 \in 2..Len(new)
      BY <2>1
    <3>2. n + 1 \in DataRows(new)
      BY <2>1, <3>1 DEF DataRows
    <3>3. MatchesUpTo(Index, Lines, n) /\ next_id[P][T] = Count(Lines, n) + 1
      BY <1>1, <2>5 DEF Registered, Index, Lines
    <3>4. MatchesUpTo(Index, new, n)
      BY <2>1, <3>3, MatchesAppend
    <3>5. n \in Nat /\ n <= Len(Lines)
      OBVIOUS
    <3>6. Count(new, n) = Count(Lines, n)
      BY <2>1, <3>5, CountAppend
    <3>7. stmt.id = next_id[P][T]
      BY <2>3 DEF Ready, EntryInv
    <3>8. next_id' = next_id /\ tree' = tree
      BY <2>3 DEF index
    <3>9. (n + 1) - 1 = n
      OBVIOUS
    <3>10. Lines' = new /\ Len(Lines') = n + 1 /\ Index' = Index
           /\ next_id'[P'][T'] = next_id[P][T] /\ stmt'.id = stmt.id /\ stmt'.offset = n + 1
      BY <2>3, <2>4, <3>1, <3>8 DEF Index
    <3> HIDE DEF n, new
    <3> QED
      BY <3>2, <3>3, <3>4, <3>6, <3>7, <3>9, <3>10 DEF AllButLast
  <2>7. OthersSame /\ Len(file'[t]) > 0
    BY <1>1, <2>1, <2>3 DEF OthersSame, index
  <2>8. Registering(p, t)'
    BY <1>1, <2>3 DEF Registering
  <2> QED
    BY <1>1, <2>3, <2>6, <2>7, <2>8 DEF EntryKept, EntryInv
<1>4. CASE AppendFails
  <2>1. file' = file /\ UNCHANGED index /\ pc' = "idle" /\ pc = "append"
    BY <1>4 DEF AppendFails, Return
  <2>2. ~Registering(p, t) /\ ~ToRegister'
    BY <2>1 DEF Registering, ToRegister
  <2> QED
    BY <1>1, <2>1, <2>2, EntrySame
<1>5. CASE RegisterForcedToFail
  <2>1. file' = file /\ UNCHANGED index /\ pc' = "invalidate" /\ P' = P /\ T' = T
    BY <1>5 DEF RegisterForcedToFail, Goto, disk, P, T
  <2>2. Registering(p, t)' /\ ~ToRegister'
    BY <1>1, <2>1 DEF Registering, ToRegister
  <2> QED
    BY <1>1, <2>1, <2>2, EntrySame
<1>6. CASE RegisterRow
  <2>1. /\ file' = file /\ UNCHANGED index /\ pc = "register" /\ pc' = "ensure"
        /\ P' = P /\ T' = T /\ stmt'.cont = "insert" /\ stmt'.id = stmt.id
        /\ stmt'.offset = stmt.offset
    BY <1>6 DEF RegisterRow, Goto, disk, P, T, Statement
  <2>2. Registering(p, t)'
    BY <1>1, <2>1 DEF Registering
  <2>3. AllButLast'
    BY <2>1 DEF Ready, EntryInv, ToRegister, AllButLast, Lines, Index, index
  <2> QED
    BY <1>1, <2>1, <2>2, <2>3, EntrySame
<1>7. CASE InsertId
  <2>1. pc = "insert" /\ pc' = "idle" /\ file' = file /\ AllButLast
    BY <1>7 DEF InsertId, Return, disk, Ready, EntryInv, ToRegister
  <2>2. /\ tree'[p][t] = WithEntry(Index, stmt.id, stmt.offset)
        /\ next_id'[p][t] = NextAfter(stmt.id, next_id[P][T])
    BY <1>1, <1>7 DEF InsertId, SetEntry, WithId
  <2>3. Registered(p, t)'
    <3> DEFINE n == Len(Lines) - 1
    <3>1. n \in Nat /\ n + 1 = Len(Lines) /\ n + 1 \in DataRows(Lines)
      BY <2>1 DEF AllButLast
    <3>2. /\ MatchesUpTo(Index, Lines, n) /\ stmt.id = Count(Lines, n) + 1
          /\ next_id[P][T] = stmt.id /\ stmt.offset = n + 1
      BY <2>1, <3>1 DEF AllButLast
    <3> HIDE DEF n
    <3>3. Count(Lines, n + 1) = Count(Lines, n) + 1 /\ Count(Lines, n) \in Nat
      BY <3>1, CountNext, UpToFinite
    <3>4. MatchesUpTo(WithEntry(Index, stmt.id, stmt.offset), Lines, n + 1)
      BY <3>1, <3>2, MatchesAdd
    <3>5. NextAfter(stmt.id, next_id[P][T]) = Count(Lines, n + 1) + 1
      BY <3>2, <3>3 DEF NextAfter
    <3>6. file'[t] = Lines
      BY <1>1, <2>1 DEF Lines
    <3> QED
      BY <2>2, <3>1, <3>4, <3>5, <3>6 DEF Registered
  <2>4. OthersSame /\ Len(file'[t]) > 0 /\ ~ToRegister'
    BY <1>1, <1>7, <2>1 DEF OthersSame, InsertId, SetEntry, Ready, FilesBegun, ToRegister
  <2> QED
    BY <1>1, <2>1, <2>3, <2>4 DEF EntryKept, EntryInv
<1>8. CASE InsertFails
  <2>1. /\ pc' = "invalidate" /\ file' = file /\ P' = P /\ T' = T
        /\ loaded' = loaded /\ next_id' = next_id
    BY <1>8 DEF InsertFails, Goto, disk, P, T
  <2>2. OthersSame
    BY <1>8, <2>1 DEF OthersSame, InsertFails
  <2>3. Registering(p, t)' /\ ~ToRegister' /\ Len(file'[t]) > 0
    BY <1>1, <2>1 DEF Registering, ToRegister, Ready, FilesBegun
  <2> QED
    BY <1>1, <2>1, <2>2, <2>3 DEF EntryKept, EntryInv
<1>9. CASE Invalidate
  BY <1>9, EntryCleared DEF Invalidate, Return, disk
<1> QED
  BY <1>2, <1>3, <1>4, <1>5, <1>6, <1>7, <1>8, <1>9

LEMMA EntrySelect ==
  ASSUME NEW p \in Proc, NEW t \in Table, Ready(p, t),
         \/ FindRow \/ ReadRow \/ SelectRow \/ SelectDone \/ SelectRejects \/ SelectFails
  PROVE  EntryKept(p, t)
<1>1. p = P /\ t = T
  BY DEF Ready
<1>2. pc \in {"find", "read", "select"} /\ pc' \in {"read", "select", "idle"}
  BY DEF FindRow, ReadRow, SelectRow, SelectDone, SelectRejects, SelectFails, Goto, Return
<1>3. file' = file /\ UNCHANGED index
  BY DEF FindRow, ReadRow, SelectRow, SelectDone, SelectRejects, SelectFails, disk
<1>4. ~Registering(p, t) /\ ~ToRegister'
  BY <1>2 DEF Registering, ToRegister
<1> QED
  BY <1>1, <1>2, <1>3, <1>4, EntrySame

LEMMA EntryStep ==
  ASSUME NEW p \in Proc, NEW t \in Table, Ready(p, t), Progress \/ Failure,
         ~AppendTorn, ~AppendLost, pc = "append" => stmt.row \notin LongRow
  PROVE  EntryKept(p, t)
BY EntryRebuild, EntryInsert, EntrySelect DEF Progress, Failure

-----------------------------------------------------------------------------
(* From the running statement's entry to all of them.                      *)

LEMMA IndexInvLocal ==
  ASSUME Assumed, NEW p \in Proc, NEW t \in Table, p = P, t = T,
         EntryKept(p, t)
  PROVE  IndexInv'
<1> USE AssumedTypes
<1>1. \A u \in Table : Len(file'[u]) > 0
  BY DEF EntryKept, OthersSame, Assumed, IndexInv
<1>2. ASSUME NEW q \in Proc, NEW u \in Table, loaded'[q][u], ~Registering(q, u)'
      PROVE  Registered(q, u)'
  <2>1. CASE u = t
    <3>1. q = p
      OBVIOUS
    <3> QED
      BY <1>2, <2>1, <3>1 DEF EntryKept, EntryInv
  <2>2. CASE u # t
    <3>1. loaded[q][u] /\ ~Registering(q, u)
      BY <1>2, <2>2 DEF EntryKept, OthersSame, Registering
    <3>2. Registered(q, u)
      BY <3>1 DEF Assumed, IndexInv
    <3> QED
      BY <2>2, <3>2 DEF EntryKept, OthersSame, Registered
  <2> QED
    BY <2>1, <2>2
<1> QED
  BY <1>1, <1>2 DEF IndexInv, EntryKept, EntryInv

LEMMA AssumedReady ==
  ASSUME Assumed, NEW p \in Proc, NEW t \in Table, p = P, t = T
  PROVE  Ready(p, t)
BY DEF Assumed, IndexInv, Ready, EntryInv, FilesBegun

LEMMA IndexEnvironment ==
  ASSUME Assumed, Environment
  PROVE  IndexInv'
<1> USE AssumedTypes
<1>1. PICK p \in Proc, t \in Table : p = P /\ t = T
  OBVIOUS
<1>2. Ready(p, t)
  BY <1>1, AssumedReady
<1>3. ASSUME NEW q \in Proc, NEW u \in Table, BeginStatement(q, u)
      PROVE  IndexInv'
  <2>1. pc = "idle" /\ file' = file /\ UNCHANGED index
    BY <1>3 DEF BeginStatement, BeginInsert, BeginFind, BeginSelect, Begin, Idle, disk
  <2>2. pc' = "select" \/ (pc' = "ensure" /\ stmt'.cont # "insert")
    BY <1>3, NoStmtType
       DEF BeginStatement, BeginInsert, BeginFind, BeginSelect, Begin, NoStmt
  <2>3. ~Registering(p, t) /\ ~ToRegister'
    BY <2>1, <2>2 DEF Registering, ToRegister
  <2> QED
    BY <1>1, <2>1, <2>2, <2>3, EntrySame, IndexInvLocal, <1>2
<1>4. ASSUME NEW q \in Proc, ForceNextRegisterFailure(q)
      PROVE  IndexInv'
  <2>1. pc = "idle" /\ pc' = "idle" /\ file' = file /\ UNCHANGED index
    BY <1>4 DEF ForceNextRegisterFailure, Idle, disk
  <2>2. ~Registering(p, t) /\ ~ToRegister'
    BY <2>1 DEF Registering, ToRegister
  <2> QED
    BY <1>1, <2>1, <2>2, EntrySame, IndexInvLocal, <1>2
<1>5. ASSUME NEW q \in Proc, ClearRegistry(q), pc' = "idle"
      PROVE  IndexInv'
  <2>1. \A r \in Proc, u \in Table : ~loaded'[r][u]
    BY <1>5 DEF ClearRegistry
  <2>2. file' = file /\ ~ToRegister'
    BY <1>5 DEF ClearRegistry, disk, ToRegister
  <2> QED
    BY <1>5, <2>1, <2>2 DEF Assumed, IndexInv
<1>6. ASSUME NEW q \in Proc, RegistryReset(q)
      PROVE  IndexInv'
  BY <1>5, <1>6 DEF RegistryReset, Idle
<1>7. CASE Crash
  BY <1>5, <1>7 DEF Crash, Return
<1> QED
  BY <1>3, <1>4, <1>6, <1>7 DEF Environment

LEMMA IndexStep ==
  ASSUME Undisturbed
  PROVE  TypeInv /\ StaysLoaded /\ IndexInv /\ [Next]_vars => IndexInv'
<1> SUFFICES ASSUME TypeInv, StaysLoaded, IndexInv, [Next]_vars PROVE IndexInv'
  OBVIOUS
<1>1. Assumed
  BY DEF Assumed
<1>2. CASE Progress \/ Failure
  <2>1. PICK p \in Proc, t \in Table : p = P /\ t = T
    BY <1>1, AssumedTypes
  <2>2. ~AppendTorn /\ ~AppendLost /\ stmt.row \notin LongRow
    BY DEF AppendTorn, AppendLost, Undisturbed
  <2>3. Ready(p, t)
    BY <1>1, <2>1, AssumedReady
  <2>4. EntryKept(p, t)
    BY <1>2, <2>2, <2>3, EntryStep
  <2> QED
    BY <1>1, <2>1, <2>4, IndexInvLocal
<1>3. CASE Environment
  BY <1>1, <1>3, IndexEnvironment
<1>4. CASE UNCHANGED vars
  BY <1>4 DEF vars, IndexInv, Registering, Registered, ToRegister, AllButLast, HalfRebuilt,
              P, T, Index, Lines
<1> QED
  BY <1>2, <1>3, <1>4 DEF Next

\* Undisturbed, a loaded index agrees with its file, but for the row being registered.
THEOREM IndexInvariant ==
  ASSUME Undisturbed
  PROVE  Spec => [](TypeInv /\ StaysLoaded /\ IndexInv)
<1>1. Init => StaysLoaded
  BY DEF Init, StaysLoaded
<1> QED
  BY <1>1, TypeInit, TypeStep, StaysLoadedStep, IndexInit, IndexStep, PTL DEF Spec

\* docs/requirements.md 5.1 and 5.3 for the undisturbed program: an index in
\* use holds exactly what a scan of its file would find, after any number of
\* statements, failed registrations, rebuilds, resets and crashes.
THEOREM IndexAgrees ==
  ASSUME Undisturbed
  PROVE  Spec => []IndexMatchesFile
<1>1. TypeInv /\ IndexInv => IndexMatchesFile
  <2> SUFFICES ASSUME TypeInv, IndexInv, NEW p \in Proc, NEW t \in Table,
                      loaded[p][t], ~Registering(p, t)
               PROVE  /\ Matches(tree[p][t], file[t])
                      /\ next_id[p][t] = Cardinality(DataRows(file[t])) + 1
    BY DEF IndexMatchesFile
  <2>1. file[t] \in Seq(Chunk)
    BY TypeParts DEF TypeInv, DiskType
  <2>2. Registered(p, t)
    BY DEF IndexInv
  <2> QED
    BY <2>1, <2>2, MatchesAll, CountBounds DEF Registered
<1> QED
  BY <1>1, IndexInvariant, PTL

\* README.md:111 for the undisturbed program: the id get_next_id hands out is
\* one above the number of rows when the row is written, and is the row's rank
\* when it is registered.
THEOREM NewIdCorrect ==
  ASSUME Undisturbed
  PROVE  Spec => []NewIdIsNext
<1>1. TypeInv /\ StaysLoaded /\ IndexInv => NewIdIsNext
  <2> SUFFICES ASSUME TypeInv, StaysLoaded, IndexInv
               PROVE  NewIdIsNext
    OBVIOUS
  <2>0. Assumed
    BY DEF Assumed
  <2> USE <2>0, AssumedTypes
  <2>1. ASSUME pc = "append"
        PROVE  stmt.id = Cardinality(DataRows(Lines)) + 1
    <3>1. Registered(P, T)
      BY <2>1 DEF IndexInv, StaysLoaded, Registering
    <3> QED
      BY <2>1, <3>1, CountBounds DEF IndexInv, Registered, Lines
  <2>2. ASSUME pc = "register"
        PROVE  stmt.id = Cardinality(DataRows(Lines))
    <3> DEFINE n == Len(Lines) - 1
    <3>1. n \in Nat /\ n + 1 = Len(Lines) /\ n + 1 \in DataRows(Lines)
          /\ stmt.id = Count(Lines, n) + 1
      BY <2>2 DEF IndexInv, ToRegister, AllButLast
    <3> HIDE DEF n
    <3>2. Count(Lines, n + 1) = Count(Lines, n) + 1
      BY <3>1, CountNext
    <3> QED
      BY <3>1, <3>2, CountBounds
  <2> QED
    BY <2>1, <2>2 DEF NewIdIsNext
<1> QED
  BY <1>1, IndexInvariant, PTL

-----------------------------------------------------------------------------
(***************************************************************************)
(* What a scan of a file finds is right whatever went wrong before: for    *)
(* any number of processes and any fault, a SELECT that scans answers what *)
(* its file says, and a rebuild leaves the index its file describes.       *)
(***************************************************************************)

\* The rows a scan of f for w has collected when it has read n chunks.
Collected(f, w, n) == {<<RowId(f, i), f[i]>> : i \in {j \in UpTo(f, n) : RowMatches(w, f[j])}}

HalfSelected ==
  /\ stmt.pos - 1 \in 1..Len(Lines)
  /\ stmt.next = Count(Lines, stmt.pos - 1) + 1
  /\ stmt.rows = Collected(Lines, stmt.row, stmt.pos - 1)

\* A scan has read what lies before its cursor, and a statement that runs has
\* not answered, so that no file changes under an answer.
CursorInv ==
  /\ FilesBegun
  /\ pc = "scan" => HalfRebuilt
  /\ pc = "select" => HalfSelected
  /\ ~Idle => reply = NoReply

ScanInv == CursorInv /\ SelectAgreesWithFile

LEMMA ScanInit == Init => ScanInv
BY FileAssumption
   DEF Init, ScanInv, CursorInv, FilesBegun, Idle, SelectAgreesWithFile, NoReply

-----------------------------------------------------------------------------
(* The scan of a SELECT.                                                   *)

LEMMA CollectedNothing ==
  ASSUME NEW f \in Seq(Chunk), NEW w
  PROVE  Collected(f, w, 1) = {}
BY DEF Collected, UpTo, DataRows

LEMMA CollectedSkip ==
  ASSUME NEW f \in Seq(Chunk), NEW w, NEW n \in Nat,
         n + 1 \notin DataRows(f) \/ ~RowMatches(w, f[n + 1])
  PROVE  Collected(f, w, n + 1) = Collected(f, w, n)
<1>1. {j \in UpTo(f, n + 1) : RowMatches(w, f[j])} = {j \in UpTo(f, n) : RowMatches(w, f[j])}
  BY DEF UpTo, DataRows
<1> QED
  BY <1>1 DEF Collected

LEMMA CollectedRow ==
  ASSUME NEW f \in Seq(Chunk), NEW w, NEW n \in Nat,
         n + 1 \in DataRows(f), RowMatches(w, f[n + 1])
  PROVE  Collected(f, w, n + 1) = Collected(f, w, n) \cup {<<Count(f, n) + 1, f[n + 1]>>}
<1>1. {j \in UpTo(f, n + 1) : RowMatches(w, f[j])}
        = {j \in UpTo(f, n) : RowMatches(w, f[j])} \cup {n + 1}
  BY DEF UpTo, DataRows
<1>2. RowId(f, n + 1) = Count(f, n) + 1
  BY CountNext DEF RowId, Count, UpTo
<1> QED
  BY <1>1, <1>2 DEF Collected

\* The scan goes on: HalfSelected is kept.
LEMMA HalfSelectedStep ==
  ASSUME TypeInv, FilesBegun, pc = "select", HalfSelected, SkipBlank \/ SelectRow
  PROVE  HalfSelected' /\ pc' = "select" /\ file' = file /\ reply' = reply
<1> USE EntryTypes
<1> DEFINE n == stmt.pos - 1
<1>1. /\ stmt.pos <= Len(Lines) /\ pc' = "select" /\ file' = file /\ reply' = reply
      /\ stmt'.pos = stmt.pos + 1 /\ stmt'.row = stmt.row /\ T' = T
  <2>1. stmt.pos \in Nat /\ Len(Lines) \in Nat
    BY DEF Statement
  <2>2. stmt.pos <= Len(Lines) /\ pc' = "select" /\ file' = file /\ reply' = reply
    BY <2>1 DEF SkipBlank, SelectRow, AtEnd, disk
  <2>3. CASE SkipBlank
    BY <2>3, <2>2 DEF SkipBlank, Statement, T
  <2>4. CASE SelectRow
    BY <2>4, <2>2 DEF SelectRow, Statement, T
  <2> QED
    BY <2>3, <2>4
<1>2. /\ n \in Nat /\ n + 1 = stmt.pos /\ n + 1 \in 2..Len(Lines)
      /\ stmt'.pos - 1 = n + 1 /\ stmt'.pos - 1 \in 1..Len(Lines)
  <2>1. stmt.pos \in Nat /\ Len(Lines) \in Nat /\ n \in 1..Len(Lines)
    BY DEF HalfSelected, Statement
  <2> QED
    BY <1>1, <2>1
<1>3. stmt.next = Count(Lines, n) + 1 /\ stmt.rows = Collected(Lines, stmt.row, n)
  BY DEF HalfSelected
<1>4. Lines' = Lines
  BY <1>1 DEF Lines
<1>5. CASE SkipBlank
  <2>1. stmt'.next = stmt.next /\ stmt'.rows = stmt.rows /\ Lines[n + 1] = Blank
    BY <1>2, <1>5 DEF SkipBlank, Statement, Here
  <2>2. n + 1 \notin DataRows(Lines)
    BY <2>1 DEF DataRows
  <2> HIDE DEF n
  <2>3. /\ Count(Lines, n + 1) = Count(Lines, n)
        /\ Collected(Lines, stmt.row, n + 1) = Collected(Lines, stmt.row, n)
    BY <1>2, <2>2, CountNext, CollectedSkip
  <2> QED
    BY <1>1, <1>2, <1>3, <1>4, <2>1, <2>3 DEF HalfSelected
<1>6. CASE SelectRow
  <2>1. /\ stmt'.next = stmt.next + 1 /\ Lines[n + 1] \in Row
        /\ stmt'.rows = IF RowMatches(stmt.row, Lines[n + 1])
                        THEN stmt.rows \cup {<<stmt.next, Lines[n + 1]>>} ELSE stmt.rows
    BY <1>2, <1>6 DEF SelectRow, Statement, Here
  <2>2. n + 1 \in DataRows(Lines)
    BY <1>2, <2>1, ChunkAssumption DEF DataRows
  <2> HIDE DEF n
  <2>3. Count(Lines, n + 1) = Count(Lines, n) + 1
    BY <1>2, <2>2, CountNext
  <2>4. stmt'.rows = Collected(Lines, stmt.row, n + 1)
    <3>1. CASE RowMatches(stmt.row, Lines[n + 1])
      <4>1. Collected(Lines, stmt.row, n + 1)
              = Collected(Lines, stmt.row, n) \cup {<<Count(Lines, n) + 1, Lines[n + 1]>>}
        BY <1>2, <2>2, <3>1, CollectedRow
      <4> QED
        BY <1>3, <2>1, <3>1, <4>1
    <3>2. CASE ~RowMatches(stmt.row, Lines[n + 1])
      BY <1>2, <1>3, <2>1, <3>2, CollectedSkip
    <3> QED
      BY <3>1, <3>2
  <2> QED
    BY <1>1, <1>2, <1>3, <1>4, <2>1, <2>3, <2>4 DEF HalfSelected
<1> QED
  BY <1>1, <1>5, <1>6

\* The scan has reached the end of the file: its answer is right.
LEMMA SelectDoneAgrees ==
  ASSUME TypeInv, FilesBegun, HalfSelected, SelectDone
  PROVE  SelectAgreesWithFile'
<1> USE EntryTypes
<1>1. stmt.pos - 1 = Len(Lines)
  BY DEF SelectDone, HalfSelected, AtEnd, Statement
<1>2. stmt.rows = Collected(Lines, stmt.row, Len(Lines))
  BY <1>1 DEF HalfSelected
<1>3. UpTo(Lines, Len(Lines)) = DataRows(Lines)
  BY CountBounds
<1>4. /\ reply' = [kind |-> "rows", table |-> T, where |-> stmt.row, rows |-> stmt.rows]
      /\ file'[T] = Lines
  BY DEF SelectDone, Return, disk, Lines
<1>5. /\ reply'.kind = "rows" /\ reply'.table = T /\ reply'.where = stmt.row
      /\ reply'.rows = stmt.rows /\ file'[reply'.table] = Lines
  BY <1>4
<1>6. stmt.rows = {<<RowId(Lines, i), Lines[i]>> :
                     i \in {j \in DataRows(Lines) : RowMatches(stmt.row, Lines[j])}}
  BY <1>2, <1>3 DEF Collected
<1> QED
  BY <1>5, <1>6 DEF SelectAgreesWithFile

-----------------------------------------------------------------------------
(* The invariant.                                                          *)

\* Any other step: no scan begins or goes on, and no SELECT by scan answers.
LEMMA CursorElse ==
  ASSUME TypeInv, CursorInv, [Next]_vars, pc' \notin {"scan", "select"},
         ~Idle' => reply' = NoReply,
         reply'.kind = "rows" => reply' = reply /\ file' = file
  PROVE  CursorInv' /\ (SelectAgreesWithFile => SelectAgreesWithFile')
<1>1. FilesBegun'
  <2> SUFFICES ASSUME NEW t \in Table PROVE Len(file'[t]) > 0
    BY DEF FilesBegun
  <2>1. TypeInv'
    BY TypeStep
  <2>2. file[t] \in Seq(Chunk) /\ file'[t] \in Seq(Chunk)
    BY <2>1 DEF TypeInv, TypeOK
  <2>3. Len(file[t]) > 0 /\ Len(file[t]) <= Len(file'[t])
    BY GrowsStep DEF CursorInv, FilesBegun
  <2> QED
    BY <2>2, <2>3
<1>2. SelectAgreesWithFile => SelectAgreesWithFile'
  BY DEF CursorInv, SelectAgreesWithFile
<1> QED
  BY <1>1, <1>2 DEF CursorInv

LEMMA CursorStep ==
  TypeInv /\ CursorInv /\ [Next]_vars =>
    CursorInv' /\ (SelectAgreesWithFile => SelectAgreesWithFile')
<1> SUFFICES ASSUME TypeInv, CursorInv, [Next]_vars
             PROVE  CursorInv' /\ (SelectAgreesWithFile => SelectAgreesWithFile')
  OBVIOUS
<1>0. FilesBegun /\ (~Idle => reply = NoReply) /\ NoReply.kind # "rows" /\ ErrorReply.kind # "rows"
  BY DEF CursorInv, NoReply, ErrorReply
<1>1. CASE StartRebuild \/ (SkipBlank /\ pc = "scan") \/ RebuildRow
  <2>1. HalfRebuilt' /\ pc' = "scan" /\ file' = file
    BY <1>1, HalfRebuiltStep DEF CursorInv
  <2>2. reply' = reply /\ ~Idle
    BY <1>1 DEF StartRebuild, SkipBlank, RebuildRow, Goto, Idle
  <2> QED
    BY <1>0, <2>1, <2>2 DEF CursorInv, FilesBegun, SelectAgreesWithFile
<1>2. CASE (SkipBlank /\ pc = "select") \/ SelectRow
  <2>1. HalfSelected' /\ pc' = "select" /\ file' = file /\ reply' = reply /\ ~Idle
    BY <1>2, HalfSelectedStep DEF CursorInv, SelectRow, Idle
  <2> QED
    BY <1>0, <2>1 DEF CursorInv, FilesBegun, SelectAgreesWithFile
<1>3. CASE SelectDone
  <2>1. SelectAgreesWithFile' /\ file' = file /\ pc' = "idle"
    BY <1>3, SelectDoneAgrees DEF CursorInv, SelectDone, Return, disk
  <2> QED
    BY <1>0, <2>1 DEF CursorInv, FilesBegun, Idle
<1>4. CASE AlreadyLoaded \/ RebuildDone
  <2>1. stmt \in Statement
    BY TypeParts DEF TypeInv
  <2>2. pc' \notin {"scan", "select"} /\ reply' = NoReply
    BY <1>0, <1>4, <2>1 DEF AlreadyLoaded, RebuildDone, Goto, Idle, Statement, Conts
  <2> QED
    BY <1>0, <2>2, CursorElse
<1>5. CASE RebuildRejects \/ RebuildFails
  <2>1. pc' \in {"idle", "invalidate"} /\ reply' \in {NoReply, ErrorReply}
        /\ (pc' = "idle" \/ reply' = NoReply)
    BY <1>0, <1>5 DEF RebuildRejects, RebuildFails, RebuildAborts, Goto, Return, Idle
  <2> QED
    BY <1>0, <2>1, CursorElse DEF Idle
<1>6. CASE GetNextId \/ AppendRow \/ AppendLost \/ RegisterForcedToFail \/ RegisterRow \/ InsertFails
  <2>1. pc' \notin {"scan", "select"} /\ reply' = NoReply
    BY <1>0, <1>6
       DEF GetNextId, AppendRow, AppendLost, RegisterForcedToFail, RegisterRow, InsertFails, Goto, Idle
  <2> QED
    BY <1>0, <2>1, CursorElse
<1>7. CASE AppendFails \/ AppendTorn \/ InsertId \/ Invalidate \/ ReadRow \/ SelectRejects \/ SelectFails
  <2>1. pc' = "idle" /\ reply'.kind # "rows"
    BY <1>0, <1>7
       DEF AppendFails, AppendTorn, InsertId, Invalidate, ReadRow, SelectRejects, SelectFails, Return
  <2> QED
    BY <2>1, CursorElse DEF Idle
<1>8. CASE FindRow
  <2>1. (pc' = "read" /\ reply' = NoReply) \/ (pc' = "idle" /\ reply'.kind # "rows")
    BY <1>0, <1>8 DEF FindRow, Goto, Return, Idle
  <2> QED
    BY <1>0, <2>1, CursorElse DEF Idle
<1>9. ASSUME NEW p \in Proc, NEW t \in Table, BeginStatement(p, t)
      PROVE  CursorInv' /\ (SelectAgreesWithFile => SelectAgreesWithFile')
  <2>1. reply' = NoReply /\ file' = file
    BY <1>9 DEF BeginStatement, BeginInsert, BeginFind, BeginSelect, Begin, disk
  <2>2. CASE pc' # "select"
    <3>1. pc' # "scan"
      BY <1>9 DEF BeginStatement, BeginInsert, BeginFind, BeginSelect, Begin
    <3> QED
      BY <1>0, <2>1, <2>2, <3>1, CursorElse
  <2>3. ASSUME NEW w \in Row \cup {AnyRow}, BeginSelect(p, t, w)
        PROVE  CursorInv' /\ (SelectAgreesWithFile => SelectAgreesWithFile')
    <3>1. /\ stmt'.pos = 2 /\ stmt'.next = 1 /\ stmt'.rows = {} /\ T' = t /\ pc' = "select"
      BY <2>3, NoStmtType DEF BeginSelect, Begin, NoStmt, T
    <3>2. file[t] \in Seq(Chunk) /\ Len(file[t]) \in Nat \ {0} /\ file'[t] = file[t]
      BY <1>0, <2>1, TypeParts DEF TypeInv, DiskType, FilesBegun
    <3>3. Collected(file[t], stmt'.row, 1) = {} /\ Count(file[t], 1) = 0
      BY <3>2, CollectedNothing, CountBounds
    <3>4. HalfSelected'
      BY <3>1, <3>2, <3>3 DEF HalfSelected, Lines
    <3> QED
      BY <1>0, <2>1, <3>1, <3>4 DEF CursorInv, FilesBegun, SelectAgreesWithFile
  <2> QED
    BY <1>9, <2>2, <2>3 DEF BeginStatement, BeginInsert, BeginFind, BeginSelect, Begin
<1>10. ASSUME NEW p \in Proc, ForceNextRegisterFailure(p) \/ RegistryReset(p)
       PROVE  CursorInv' /\ (SelectAgreesWithFile => SelectAgreesWithFile')
  <2>1. pc' = "idle" /\ reply' = reply /\ file' = file
    BY <1>10 DEF ForceNextRegisterFailure, RegistryReset, ClearRegistry, Idle, disk
  <2> QED
    BY <2>1, CursorElse DEF Idle
<1>11. CASE Crash
  <2>1. pc' = "idle" /\ reply' = NoReply
    BY <1>11 DEF Crash, Return
  <2> QED
    BY <1>0, <2>1, CursorElse DEF Idle
<1>12. CASE UNCHANGED vars
  BY <1>12 DEF vars, CursorInv, FilesBegun, HalfRebuilt, HalfSelected, Idle, SelectAgreesWithFile,
               P, T, Index, Lines
<1> QED
  BY <1>1, <1>2, <1>3, <1>4, <1>5, <1>6, <1>7, <1>8, <1>9, <1>10, <1>11, <1>12
     DEF Next, Progress, Failure, Environment, SkipBlank

LEMMA ScanStep == TypeInv /\ ScanInv /\ [Next]_vars => ScanInv'
BY CursorStep DEF ScanInv

\* A SELECT and a rebuild know exactly the lines before their cursor, after any fault.
THEOREM ScanInvariant == Spec => [](TypeInv /\ ScanInv)
BY TypeInit, TypeStep, ScanInit, ScanStep, PTL DEF Spec

\* execute_select (executor.c:683-716) answers every matching row of the file
\* once and with the right id, for any number of processes and after any fault.
THEOREM ScanTellsTheTruth == Spec => []SelectAgreesWithFile
<1>1. ScanInv => SelectAgreesWithFile
  BY DEF ScanInv, CursorInv
<1> QED
  BY <1>1, ScanInvariant, PTL

-----------------------------------------------------------------------------
(* Rebuilding.                                                             *)

LEMMA RebuildDoneMatches ==
  ASSUME TypeInv, FilesBegun, HalfRebuilt, RebuildDone
  PROVE  /\ MatchesUpTo(tree'[P][T], file'[T], Len(file'[T]))
         /\ Matches(tree'[P][T], file'[T])
         /\ next_id'[P][T] = Count(file'[T], Len(file'[T])) + 1
         /\ next_id'[P][T] = Cardinality(DataRows(file'[T])) + 1
<1> USE EntryTypes
<1>1. stmt.pos - 1 = Len(Lines)
  BY DEF RebuildDone, HalfRebuilt, AtEnd, Statement
<1>2. tree'[P][T] = Index /\ next_id'[P][T] = stmt.next /\ file'[T] = Lines
  BY DEF RebuildDone, SetEntry, disk, Lines, Index
<1>3. MatchesUpTo(Index, Lines, Len(Lines)) /\ stmt.next = Count(Lines, Len(Lines)) + 1
  BY <1>1 DEF HalfRebuilt
<1> QED
  BY <1>2, <1>3, MatchesAll, CountBounds

\* Only the end of a rebuild puts an index into use.
LEMMA OnlyRebuildLoads ==
  ASSUME TypeInv, [Next]_vars, NEW p \in Proc, NEW t \in Table, ~loaded[p][t], loaded'[p][t]
  PROVE  RebuildDone /\ p = P /\ t = T
<1>0. loaded \in [Proc -> [Table -> BOOLEAN]] /\ P \in Proc /\ T \in Table
  BY TypeParts DEF TypeInv, IndexType, P, T, Statement
<1>1. loaded' # loaded
  OBVIOUS
<1>2. ASSUME ClearEntry
      PROVE  FALSE
  <2>1. loaded'[p][t] = IF p = P /\ t = T THEN FALSE ELSE loaded[p][t]
    BY <1>0, <1>2 DEF ClearEntry, SetEntry
  <2> QED
    BY <2>1
<1>3. ASSUME NEW q \in Proc, ClearRegistry(q)
      PROVE  FALSE
  <2>1. loaded'[p][t] = IF p = q THEN FALSE ELSE loaded[p][t]
    BY <1>0, <1>3 DEF ClearRegistry
  <2> QED
    BY <2>1
<1>4. CASE RebuildDone
  <2>1. loaded'[p][t] = IF p = P /\ t = T THEN TRUE ELSE loaded[p][t]
    BY <1>0, <1>4 DEF RebuildDone, SetEntry
  <2> QED
    BY <1>4, <2>1
<1>5. CASE InsertId
  <2>1. loaded' = [loaded EXCEPT ![P][T] = loaded[P][T]]
    BY <1>5 DEF InsertId, SetEntry
  <2>2. loaded'[p][t] = loaded[p][t]
    BY <1>0, <2>1
  <2> QED
    BY <2>2
<1>6. CASE AlreadyLoaded \/ StartRebuild \/ SkipBlank \/ RebuildRow \/ RebuildRejects \/ RebuildFails
  BY <1>1, <1>2, <1>6
     DEF AlreadyLoaded, StartRebuild, SkipBlank, RebuildRow, RebuildRejects, RebuildFails,
         RebuildAborts, index
<1>7. CASE GetNextId \/ AppendRow \/ AppendFails \/ AppendTorn \/ AppendLost
           \/ RegisterForcedToFail \/ RegisterRow \/ InsertFails \/ Invalidate
  BY <1>1, <1>2, <1>7
     DEF GetNextId, AppendRow, AppendFails, AppendTorn, AppendLost, RegisterForcedToFail,
         RegisterRow, InsertFails, Invalidate, index
<1>8. CASE FindRow \/ ReadRow \/ SelectRow \/ SelectDone \/ SelectRejects \/ SelectFails
  BY <1>1, <1>8 DEF FindRow, ReadRow, SelectRow, SelectDone, SelectRejects, SelectFails, index
<1>9. CASE Environment
  BY <1>0, <1>1, <1>3, <1>9
     DEF Environment, BeginStatement, BeginInsert, BeginFind, BeginSelect, Begin,
         ForceNextRegisterFailure, RegistryReset, Crash, index
<1>10. CASE UNCHANGED vars
  BY <1>1, <1>10 DEF vars
<1> QED
  BY <1>4, <1>5, <1>6, <1>7, <1>8, <1>9, <1>10 DEF Next, Progress, Failure

\* An index that comes into use (table_index.c:160) holds exactly what its file
\* describes at that moment: a rebuild repairs any damage, whoever did it.
THEOREM RebuildRepairs == Spec => RebuildMatchesFile
<1>1. TypeInv /\ ScanInv /\ [Next]_vars =>
        [\A p \in Proc, t \in Table :
           ~loaded[p][t] /\ loaded'[p][t] =>
             /\ Matches(tree'[p][t], file'[t])
             /\ next_id'[p][t] = Cardinality(DataRows(file'[t])) + 1]_vars
  BY OnlyRebuildLoads, RebuildDoneMatches DEF ScanInv, CursorInv, RebuildDone
<1> QED
  BY <1>1, ScanInvariant, PTL DEF Spec, RebuildMatchesFile

-----------------------------------------------------------------------------
(***************************************************************************)
(* The ids of an index in use have no gap, and rows with later ids are not *)
(* before rows with earlier ones: for any number of processes and whatever *)
(* fails.  Without Undisturbed this is what is left of the agreement       *)
(* between index and file.                                                 *)
(***************************************************************************)

Ascending(map) == \A i, j \in DOMAIN map : i < j => map[i] <= map[j]

\* No offset is behind the place where the next row would go: the write that
\* fclose loses registers exactly that place.
Dense(p, t) ==
  /\ DOMAIN tree[p][t] = 1..(next_id[p][t] - 1)
  /\ Ascending(tree[p][t])
  /\ \A i \in DOMAIN tree[p][t] : tree[p][t][i] <= Len(file[t]) + 1

\* The running INSERT has its id and its offset, which fit behind the others.
Registrable ==
  /\ Dense(P, T)
  /\ stmt.id = next_id[P][T]
  /\ \A i \in DOMAIN Index : Index[i] <= stmt.offset
  /\ stmt.offset <= Len(Lines) + 1

DenseInv ==
  /\ \A p \in Proc, t \in Table : loaded[p][t] /\ ~Registering(p, t) => Dense(p, t)
  /\ ToRegister => Registrable
  /\ pc = "append" => stmt.id = next_id[P][T]

LEMMA DenseInit == Init => DenseInv
BY DEF Init, DenseInv, ToRegister

\* What every step may rely on.
Known == TypeInv /\ StaysLoaded /\ ScanInv /\ DenseInv

LEMMA KnownTypes ==
  ASSUME Known
  PROVE  /\ stmt \in Statement /\ P \in Proc /\ T \in Table
         /\ file \in [Table -> Seq(Chunk)] /\ Lines \in Seq(Chunk)
         /\ Len(Lines) \in Nat \ {0}
         /\ loaded \in [Proc -> [Table -> BOOLEAN]]
         /\ next_id \in [Proc -> [Table -> Nat \ {0}]]
         /\ DOMAIN tree = Proc /\ \A p \in Proc : DOMAIN tree[p] = Table
BY EntryTypes DEF Known, ScanInv, CursorInv

\* A map that follows a file is dense.
LEMMA MatchesAscends ==
  ASSUME NEW f \in Seq(Chunk), NEW map, MatchesUpTo(map, f, Len(f))
  PROVE  Ascending(map) /\ \A i \in DOMAIN map : map[i] <= Len(f) + 1
<1>1. Len(f) \in Nat /\ Count(f, Len(f)) \in Nat
  BY UpToFinite
<1>2. \A i \in DOMAIN map : /\ i \in Nat /\ map[i] \in Nat /\ map[i] <= Len(f)
                            /\ Count(f, map[i]) = i
  BY <1>1 DEF MatchesUpTo, UpTo, DataRows
<1>3. ASSUME NEW i \in DOMAIN map, NEW j \in DOMAIN map, i < j
      PROVE  map[i] <= map[j]
  <2>1. CASE map[j] < map[i]
    <3>1. Count(f, map[j]) <= Count(f, map[i])
      BY <1>2, <2>1, CountMonotone
    <3> QED
      BY <1>2, <1>3, <3>1
  <2> QED
    BY <1>2, <2>1
<1> QED
  BY <1>1, <1>2, <1>3 DEF Ascending

-----------------------------------------------------------------------------
(* What has to be shown of a step.                                         *)

\* The files only grow, so that an index nobody touches stays dense.
LEMMA DenseKept ==
  ASSUME Known, [Next]_vars, NEW p \in Proc, NEW t \in Table, Dense(p, t),
         next_id'[p][t] = next_id[p][t], tree'[p][t] = tree[p][t]
  PROVE  Dense(p, t)'
<1>1. TypeInv' /\ TypeInv
  BY TypeStep DEF Known
<1>2. Len(file[t]) \in Nat /\ Len(file'[t]) \in Nat
  <2>1. file[t] \in Seq(Chunk) /\ file'[t] \in Seq(Chunk)
    BY <1>1 DEF TypeInv, TypeOK
  <2> QED
    BY <2>1
<1>3. Len(file[t]) <= Len(file'[t])
  BY <1>1, GrowsStep
<1>4. \A i \in DOMAIN tree[p][t] : tree[p][t][i] \in Nat
  BY <1>1 DEF TypeInv, TypeOK, Offsets
<1>5. \A i \in DOMAIN tree[p][t] : tree[p][t][i] <= Len(file'[t]) + 1
  BY <1>2, <1>3, <1>4 DEF Dense
<1> QED
  BY <1>5 DEF Dense

\* A step concerns the entry of the running statement only.
OtherEntriesSame ==
  \A p \in Proc, t \in Table :
    p # P \/ t # T =>
      /\ loaded'[p][t] = loaded[p][t]
      /\ next_id'[p][t] = next_id[p][t]
      /\ tree'[p][t] = tree[p][t]

LEMMA DenseLocal ==
  ASSUME Known, [Next]_vars, NEW p \in Proc, NEW t \in Table, p = P, t = T,
         OtherEntriesSame,
         loaded'[p][t] => Registering(p, t)' \/ Dense(p, t)',
         ToRegister' => Registrable',
         pc' = "append" => stmt'.id = next_id'[P'][T']
  PROVE  DenseInv'
<1>1. ASSUME NEW q \in Proc, NEW u \in Table, loaded'[q][u], ~Registering(q, u)'
      PROVE  Dense(q, u)'
  <2>1. CASE q = p /\ u = t
    BY <1>1, <2>1
  <2>2. CASE q # p \/ u # t
    <3>1. loaded[q][u] /\ ~Registering(q, u)
      BY <1>1, <2>2 DEF OtherEntriesSame, Registering
    <3>2. Dense(q, u)
      BY <3>1 DEF Known, DenseInv
    <3> QED
      BY <2>2, <3>2, DenseKept DEF OtherEntriesSame
  <2> QED
    BY <2>1, <2>2
<1> QED
  BY <1>1 DEF DenseInv

\* A step that leaves all indexes alone.
LEMMA DenseSame ==
  ASSUME Known, [Next]_vars, UNCHANGED index,
         NEW p \in Proc, NEW t \in Table, p = P, t = T,
         ~Registering(p, t) \/ Registering(p, t)',
         ToRegister' => Registrable',
         pc' = "append" => stmt'.id = next_id'[P'][T']
  PROVE  DenseInv'
<1>1. OtherEntriesSame
  BY DEF OtherEntriesSame, index
<1>2. ASSUME loaded'[p][t], ~Registering(p, t)'
      PROVE  Dense(p, t)'
  <2>1. Dense(p, t)
    BY <1>2 DEF Known, DenseInv, index
  <2> QED
    BY <2>1, DenseKept DEF index
<1> QED
  BY <1>1, <1>2, DenseLocal

\* A step that takes the running statement's index out of use.
LEMMA DenseCleared ==
  ASSUME Known, [Next]_vars, ClearEntry, pc' \in {"idle", "invalidate"}
  PROVE  DenseInv'
<1> USE KnownTypes
<1>1. PICK p \in Proc, t \in Table : p = P /\ t = T
  OBVIOUS
<1>2. OtherEntriesSame /\ ~loaded'[p][t]
  BY <1>1 DEF OtherEntriesSame, ClearEntry, SetEntry
<1>3. ~ToRegister' /\ pc' # "append"
  BY DEF ToRegister
<1> QED
  BY <1>1, <1>2, <1>3, DenseLocal

-----------------------------------------------------------------------------
(* The invariant is kept, action by action.                                *)

LEMMA DenseRebuild ==
  ASSUME Known, [Next]_vars,
         \/ AlreadyLoaded \/ StartRebuild \/ SkipBlank \/ RebuildRow \/ RebuildDone
         \/ RebuildRejects \/ RebuildFails
  PROVE  DenseInv'
<1> USE KnownTypes
<1>1. PICK p \in Proc, t \in Table : p = P /\ t = T
  OBVIOUS
<1>2. pc = "scan" => HalfRebuilt /\ stmt.cont # "insert"
  BY DEF Known, ScanInv, CursorInv, StaysLoaded, HalfRebuilt
<1>3. CASE AlreadyLoaded
  <2>1. /\ stmt' = stmt /\ P' = P /\ T' = T /\ Lines' = Lines /\ Index' = Index
        /\ UNCHANGED index /\ UNCHANGED file /\ pc = "ensure" /\ pc' = stmt.cont
    BY <1>3 DEF AlreadyLoaded, Goto, disk, index, P, T, Lines, Index
  <2>2. CASE stmt.cont = "insert"
    <3>1. ToRegister /\ Registering(p, t)'
      BY <1>1, <2>1, <2>2 DEF ToRegister, Registering
    <3>2. Registrable'
      BY <2>1, <3>1 DEF Known, DenseInv, Registrable, Dense, index
    <3> QED
      BY <1>1, <2>1, <2>2, <3>1, <3>2, DenseSame
  <2>3. CASE stmt.cont # "insert"
    <3>1. ~Registering(p, t) /\ ~ToRegister' /\ pc' # "append"
      BY <2>1, <2>3 DEF Registering, ToRegister, Statement, Conts
    <3> QED
      BY <1>1, <2>1, <3>1, DenseSame
  <2> QED
    BY <2>2, <2>3
<1>4. CASE StartRebuild \/ (SkipBlank /\ pc = "scan") \/ RebuildRow
  <2>1. pc' = "scan" /\ loaded' = loaded /\ ~loaded[P][T]
    BY <1>2, <1>4, HalfRebuiltStep DEF Known, ScanInv, CursorInv
  <2>2. OtherEntriesSame /\ ~loaded'[p][t]
    BY <1>1, <1>4, <2>1 DEF OtherEntriesSame, StartRebuild, SkipBlank, RebuildRow, index
  <2>3. ~ToRegister'
    BY <2>1 DEF ToRegister
  <2> QED
    BY <1>1, <2>1, <2>2, <2>3, DenseLocal
<1>5. CASE SkipBlank /\ pc = "select"
  <2>1. UNCHANGED index /\ pc' = "select"
    BY <1>5 DEF SkipBlank
  <2>2. ~Registering(p, t) /\ ~ToRegister'
    BY <1>5, <2>1 DEF Registering, ToRegister
  <2> QED
    BY <1>1, <2>1, <2>2, DenseSame
<1>6. CASE RebuildDone
  <2>1. stmt.pos - 1 = Len(Lines)
    <3>1. stmt.pos > Len(Lines) /\ stmt.pos - 1 \in 1..Len(Lines)
      BY <1>2, <1>6 DEF RebuildDone, HalfRebuilt, AtEnd
    <3>2. stmt.pos \in Nat /\ Len(Lines) \in Nat
      BY <1>2 DEF Statement
    <3> QED
      BY <3>1, <3>2
  <2>2. MatchesUpTo(Index, Lines, Len(Lines)) /\ stmt.next = Count(Lines, Len(Lines)) + 1
    BY <1>2, <1>6, <2>1 DEF RebuildDone, HalfRebuilt
  <2>3. Ascending(Index) /\ \A i \in DOMAIN Index : Index[i] <= Len(Lines) + 1
    BY <2>2, MatchesAscends
  <2>4. tree'[P][T] = Index /\ next_id'[P][T] = stmt.next /\ file' = file
    BY <1>6 DEF RebuildDone, SetEntry, disk, Index
  <2>5. Count(Lines, Len(Lines)) \in Nat
    BY UpToFinite
  <2>6. DOMAIN Index = 1..(stmt.next - 1)
    BY <2>2, <2>5 DEF MatchesUpTo
  <2>7. Dense(p, t)'
    BY <1>1, <2>3, <2>4, <2>6 DEF Dense, Lines
  <2>8. OtherEntriesSame
    BY <1>1, <1>6 DEF OtherEntriesSame, RebuildDone, SetEntry
  <2>9. ~ToRegister' /\ pc' # "append"
    BY <1>2, <1>6 DEF RebuildDone, Goto, ToRegister, Statement, Conts
  <2> QED
    BY <1>1, <2>7, <2>8, <2>9, DenseLocal
<1>7. CASE RebuildAborts
  <2>1. ClearEntry /\ pc' \in {"idle", "invalidate"}
    BY <1>7 DEF RebuildAborts, Goto, Return
  <2> QED
    BY <2>1, DenseCleared
<1> QED
  BY <1>3, <1>4, <1>5, <1>6, <1>7 DEF RebuildRejects, RebuildFails, SkipBlank

LEMMA DenseInsert ==
  ASSUME Known, [Next]_vars,
         \/ GetNextId \/ AppendRow \/ AppendFails \/ AppendTorn \/ AppendLost
         \/ RegisterForcedToFail \/ RegisterRow \/ InsertId \/ InsertFails \/ Invalidate
  PROVE  DenseInv'
<1> USE KnownTypes
<1>1. PICK p \in Proc, t \in Table : p = P /\ t = T
  OBVIOUS
<1>2. CASE GetNextId
  <2>1. /\ stmt'.id = next_id[P][T] /\ P' = P /\ T' = T /\ pc' = "append" /\ UNCHANGED index
    BY <1>2 DEF GetNextId, Goto, Statement, P, T
  <2>2. ~Registering(p, t) /\ ~ToRegister' /\ stmt'.id = next_id'[P'][T']
    BY <1>2, <2>1 DEF GetNextId, Registering, ToRegister, index
  <2> QED
    BY <1>1, <2>1, <2>2, DenseSame
<1>3. CASE AppendRow \/ AppendLost
  <2>1. /\ stmt'.offset = Len(Lines) + 1 /\ stmt'.id = stmt.id /\ P' = P /\ T' = T
        /\ pc = "append" /\ pc' = "register" /\ UNCHANGED index
    <3>1. CASE AppendRow
      BY <3>1 DEF AppendRow, WritesLineEnd, Goto, Statement, P, T
    <3>2. CASE AppendLost
      BY <3>2 DEF AppendLost, Goto, Statement, P, T
    <3> QED
      BY <1>3, <3>1, <3>2
  <2>2. Dense(p, t) /\ stmt.id = next_id[P][T]
    <3>1. loaded[p][t] /\ ~Registering(p, t)
      BY <1>1, <2>1 DEF Known, StaysLoaded, Registering
    <3> QED
      BY <2>1, <3>1 DEF Known, DenseInv
  <2>3. Dense(p, t)'
    BY <2>1, <2>2, DenseKept DEF index
  <2>4. Len(Lines) <= Len(Lines') /\ Len(Lines') \in Nat
    <3>1. TypeInv /\ TypeInv'
      BY TypeStep DEF Known
    <3>2. file'[t] \in Seq(Chunk) /\ file[t] \in Seq(Chunk)
      BY <3>1 DEF TypeInv, TypeOK
    <3>3. Len(file[t]) <= Len(file'[t])
      BY <3>1, GrowsStep
    <3> QED
      BY <1>1, <2>1, <3>2, <3>3 DEF Lines
  <2>5. Registrable'
    <3>1. Index' = tree[p][t] /\ next_id'[P'][T'] = next_id[P][T]
      BY <1>1, <2>1 DEF Index, index
    <3>2. \A i \in DOMAIN tree[p][t] : tree[p][t][i] <= Len(Lines) + 1
      BY <1>1, <2>2 DEF Dense, Lines
    <3>3. Dense(P, T)'
      BY <1>1, <2>1, <2>3
    <3> QED
      BY <2>1, <2>2, <2>4, <3>1, <3>2, <3>3 DEF Registrable
  <2>6. Registering(p, t)'
    BY <1>1, <2>1 DEF Registering
  <2> QED
    BY <1>1, <2>1, <2>5, <2>6, DenseSame
<1>4. CASE AppendFails \/ AppendTorn
  <2>1. UNCHANGED index /\ pc' = "idle" /\ pc = "append"
    BY <1>4 DEF AppendFails, AppendTorn, Return
  <2>2. ~Registering(p, t) /\ ~ToRegister'
    BY <2>1 DEF Registering, ToRegister
  <2> QED
    BY <1>1, <2>1, <2>2, DenseSame
<1>5. CASE RegisterForcedToFail
  <2>1. UNCHANGED index /\ pc' = "invalidate" /\ P' = P /\ T' = T
    BY <1>5 DEF RegisterForcedToFail, Goto, P, T
  <2>2. Registering(p, t)' /\ ~ToRegister'
    BY <1>1, <2>1 DEF Registering, ToRegister
  <2> QED
    BY <1>1, <2>1, <2>2, DenseSame
<1>6. CASE RegisterRow
  <2>1. /\ file' = file /\ UNCHANGED index /\ pc = "register" /\ pc' = "ensure"
        /\ P' = P /\ T' = T /\ stmt'.cont = "insert" /\ stmt'.id = stmt.id
        /\ stmt'.offset = stmt.offset
    BY <1>6 DEF RegisterRow, Goto, disk, P, T, Statement
  <2>2. Registering(p, t)'
    BY <1>1, <2>1 DEF Registering
  <2>3. Lines' = Lines /\ Index' = Index
    BY <2>1 DEF Lines, Index, index
  <2>4. Registrable'
    BY <2>1, <2>3 DEF Known, DenseInv, ToRegister, Registrable, Dense, index
  <2> QED
    BY <1>1, <2>1, <2>2, <2>4, DenseSame
<1>7. CASE InsertId
  <2>1. Registrable /\ pc' = "idle" /\ file' = file
    BY <1>7 DEF InsertId, ToRegister, Known, DenseInv, Return, disk
  <2>2. next_id[P][T] \in Nat \ {0}
    OBVIOUS
  <2>3. /\ tree'[P][T] = WithEntry(Index, stmt.id, stmt.offset)
        /\ next_id'[P][T] = stmt.id + 1
    BY <1>7, <2>1, <2>2 DEF InsertId, SetEntry, WithId, NextAfter, Registrable
  <2>4. DOMAIN Index = 1..(stmt.id - 1) /\ stmt.id \in Nat \ {0} /\ Ascending(Index)
    BY <2>1, <2>2 DEF Registrable, Dense, Index
  <2> DEFINE new == WithEntry(Index, stmt.id, stmt.offset)
  <2>5. /\ DOMAIN new = 1..stmt.id /\ new[stmt.id] = stmt.offset
        /\ \A i \in 1..(stmt.id - 1) : new[i] = Index[i]
    BY <2>4 DEF WithEntry
  <2>6. /\ \A i \in DOMAIN Index : Index[i] <= stmt.offset /\ Index[i] <= Len(Lines) + 1
        /\ stmt.offset <= Len(Lines) + 1 /\ stmt.offset \in Nat
    BY <2>1 DEF Registrable, Dense, Index, Lines, Statement
  <2> HIDE DEF new
  <2>7. Ascending(new)
    <3> SUFFICES ASSUME NEW i \in 1..stmt.id, NEW j \in 1..stmt.id, i < j
                 PROVE  new[i] <= new[j]
      BY <2>5 DEF Ascending
    <3>1. i \in DOMAIN Index /\ new[i] = Index[i]
      <4>1. i \in 1..(stmt.id - 1)
        BY <2>4
      <4> QED
        BY <2>4, <2>5, <4>1
    <3>2. CASE j = stmt.id
      BY <2>5, <2>6, <3>1, <3>2
    <3>3. CASE j # stmt.id
      <4>1. j \in DOMAIN Index /\ new[j] = Index[j]
        BY <2>4, <2>5, <3>3
      <4> QED
        BY <2>4, <3>1, <4>1 DEF Ascending
    <3> QED
      BY <3>2, <3>3
  <2>8. \A i \in DOMAIN new : new[i] <= Len(Lines) + 1
    BY <2>4, <2>5, <2>6
  <2>9. Dense(p, t)'
    <3>1. tree'[p][t] = new /\ next_id'[p][t] - 1 = stmt.id /\ file'[t] = Lines
      BY <1>1, <2>1, <2>3, <2>4 DEF new, Lines
    <3> QED
      BY <2>5, <2>7, <2>8, <3>1 DEF Dense
  <2>10. OtherEntriesSame /\ ~ToRegister'
    BY <1>7, <2>1 DEF OtherEntriesSame, InsertId, SetEntry, ToRegister
  <2> QED
    BY <1>1, <2>1, <2>9, <2>10, DenseLocal
<1>8. CASE InsertFails
  <2>1. pc' = "invalidate" /\ P' = P /\ T' = T /\ loaded' = loaded /\ next_id' = next_id
    BY <1>8 DEF InsertFails, Goto, P, T
  <2>2. OtherEntriesSame
    BY <1>8, <2>1 DEF OtherEntriesSame, InsertFails
  <2>3. Registering(p, t)' /\ ~ToRegister'
    BY <1>1, <2>1 DEF Registering, ToRegister
  <2> QED
    BY <1>1, <2>1, <2>2, <2>3, DenseLocal
<1>9. CASE Invalidate
  BY <1>9, DenseCleared DEF Invalidate, Return
<1> QED
  BY <1>2, <1>3, <1>4, <1>5, <1>6, <1>7, <1>8, <1>9

LEMMA DenseSelect ==
  ASSUME Known, [Next]_vars,
         \/ FindRow \/ ReadRow \/ SelectRow \/ SelectDone \/ SelectRejects \/ SelectFails
  PROVE  DenseInv'
<1>1. PICK p \in Proc, t \in Table : p = P /\ t = T
  BY KnownTypes
<1>2. pc \in {"find", "read", "select"} /\ pc' \in {"read", "select", "idle"}
  BY DEF FindRow, ReadRow, SelectRow, SelectDone, SelectRejects, SelectFails, Goto, Return
<1>3. UNCHANGED index
  BY DEF FindRow, ReadRow, SelectRow, SelectDone, SelectRejects, SelectFails
<1>4. ~Registering(p, t) /\ ~ToRegister'
  BY <1>2 DEF Registering, ToRegister
<1> QED
  BY <1>1, <1>2, <1>3, <1>4, DenseSame

LEMMA DenseEnvironment ==
  ASSUME Known, [Next]_vars, Environment
  PROVE  DenseInv'
<1> USE KnownTypes
<1>1. PICK p \in Proc, t \in Table : p = P /\ t = T
  OBVIOUS
<1>2. ASSUME NEW q \in Proc, NEW u \in Table, BeginStatement(q, u)
      PROVE  DenseInv'
  <2>1. pc = "idle" /\ UNCHANGED index
    BY <1>2 DEF BeginStatement, BeginInsert, BeginFind, BeginSelect, Begin, Idle
  <2>2. pc' = "select" \/ (pc' = "ensure" /\ stmt'.cont # "insert")
    BY <1>2, NoStmtType
       DEF BeginStatement, BeginInsert, BeginFind, BeginSelect, Begin, NoStmt
  <2>3. ~Registering(p, t) /\ ~ToRegister'
    BY <2>1, <2>2 DEF Registering, ToRegister
  <2> QED
    BY <1>1, <2>1, <2>2, <2>3, DenseSame
<1>3. ASSUME NEW q \in Proc, ForceNextRegisterFailure(q)
      PROVE  DenseInv'
  <2>1. pc = "idle" /\ pc' = "idle" /\ UNCHANGED index
    BY <1>3 DEF ForceNextRegisterFailure, Idle
  <2>2. ~Registering(p, t) /\ ~ToRegister'
    BY <2>1 DEF Registering, ToRegister
  <2> QED
    BY <1>1, <2>1, <2>2, DenseSame
<1>4. ASSUME NEW q \in Proc, ClearRegistry(q), pc' = "idle", pc = "idle" \/ q = P
      PROVE  DenseInv'
  <2>1. ASSUME NEW r \in Proc, NEW u \in Table, loaded'[r][u]
        PROVE  Dense(r, u)'
    <3>1. /\ r # q /\ loaded[r][u] /\ next_id'[r][u] = next_id[r][u]
          /\ tree'[r][u] = tree[r][u]
      BY <1>4, <2>1 DEF ClearRegistry
    <3>2. ~Registering(r, u)
      BY <1>4, <3>1 DEF Registering
    <3>3. Dense(r, u)
      BY <3>1, <3>2 DEF Known, DenseInv
    <3> QED
      BY <3>1, <3>3, DenseKept
  <2> QED
    BY <1>4, <2>1 DEF DenseInv, ToRegister
<1>5. ASSUME NEW q \in Proc, RegistryReset(q)
      PROVE  DenseInv'
  BY <1>4, <1>5 DEF RegistryReset, Idle
<1>6. CASE Crash
  BY <1>4, <1>6 DEF Crash, Return
<1> QED
  BY <1>2, <1>3, <1>5, <1>6 DEF Environment

LEMMA DenseStep == TypeInv /\ StaysLoaded /\ ScanInv /\ DenseInv /\ [Next]_vars => DenseInv'
<1> SUFFICES ASSUME TypeInv, StaysLoaded, ScanInv, DenseInv, [Next]_vars PROVE DenseInv'
  OBVIOUS
<1>1. Known
  BY DEF Known
<1>2. CASE Progress
  BY <1>1, <1>2, DenseRebuild, DenseInsert, DenseSelect DEF Progress
<1>3. CASE Failure
  BY <1>1, <1>3, DenseRebuild, DenseInsert, DenseSelect DEF Failure
<1>4. CASE Environment
  BY <1>1, <1>4, DenseEnvironment
<1>5. CASE UNCHANGED vars
  BY <1>5 DEF vars, DenseInv, Registering, ToRegister, Registrable, Dense, P, T, Index, Lines
<1> QED
  BY <1>2, <1>3, <1>4, <1>5 DEF Next

\* Ids handed out by a usable index have no gap (table_index.c:231), whatever
\* failed before, in this process or in others.
THEOREM IndexStaysDense == Spec => []IndexIsDense
<1>1. Init => StaysLoaded
  BY DEF Init, StaysLoaded
<1>2. DenseInv => IndexIsDense
  BY DEF DenseInv, Dense, Ascending, IndexIsDense
<1> QED
  BY <1>1, <1>2, StaysLoadedStep, ScanInvariant, DenseInit, DenseStep, PTL DEF Spec

-----------------------------------------------------------------------------
(* What a client is promised while the program is Undisturbed.  With files *)
(* that hold nothing but rows and blank lines at the start IndexedTable    *)
(* implements RowStore: every step of the program is a step of the         *)
(* numbered list, or none.  And whatever the files hold, a row whose       *)
(* INSERT answered ok keeps its id.                                        *)

\* No line misfits the schema when the program starts.
OrderlyFiles == \A f \in InitFiles : \A i \in DataRows(f) : f[i] \in Row

-----------------------------------------------------------------------------
(* What the answers rest on, beyond the agreement of index and file.       *)

\* A SELECT by id uses an index that is loaded, and the offset it reads at is
\* that of its id.  An INSERT has its row; `cont` tells the two apart.
FollowsRequest ==
  /\ \A t \in Table : \A i \in DataRows(file[t]) : file[t][i] \in Row
  /\ pc = "find" => loaded[P][T]
  /\ pc = "read" => stmt.offset \in DataRows(Lines) /\ RowId(Lines, stmt.offset) = stmt.id
  /\ pc \in {"find", "read"} => stmt.cont = "find"
  /\ pc \in {"getId", "append"} => stmt.cont = "getId"
  /\ pc \in {"register", "insert", "invalidate"} => stmt.cont # "find"
  /\ ~Idle /\ pc # "select" /\ stmt.cont # "find" => stmt.row \in Row

RefinementInv == TypeInv /\ StaysLoaded /\ IndexInv /\ ScanInv /\ FollowsRequest

LEMMA FollowsInit == ASSUME OrderlyFiles PROVE Init => FollowsRequest
BY DEF Init, FollowsRequest, OrderlyFiles, Idle

\* The only step that writes.
LEMMA AppendUndisturbed ==
  ASSUME Undisturbed, RefinementInv, AppendRow
  PROVE  /\ stmt.row \in Row /\ stmt.row \in Chunk
         /\ file' = [file EXCEPT ![T] = Lines \o <<stmt.row>>]
         /\ file' \in [Table -> Seq(Chunk)] /\ file \in [Table -> Seq(Chunk)]
         /\ T \in Table /\ Lines \in Seq(Chunk) /\ stmt \in Statement
<1>0. Assumed
  BY DEF Assumed, RefinementInv
<1> USE <1>0, AssumedTypes
<1>1. stmt.row \in Row /\ stmt.row \in Chunk /\ stmt.row \notin LongRow
  BY DEF Assumed, TypeInv, AppendRow, StatementReady, HasRow, Undisturbed, Chunk
<1>2. ended[T] \/ WritesLineEnd(T)
  BY DEF WritesLineEnd
<1>3. file' = [file EXCEPT ![T] = Lines \o <<stmt.row>>]
  BY <1>1, <1>2 DEF AppendRow, Written, Lines
<1>4. Lines \o <<stmt.row>> \in Seq(Chunk)
  BY <1>1
<1> QED
  BY <1>1, <1>3, <1>4

\* What a row that is appended does to the data rows.
LEMMA AppendedRows ==
  ASSUME NEW f \in Seq(Chunk), Len(f) > 0, NEW c \in Row
  PROVE  LET g == f \o <<c>> IN
         /\ g \in Seq(Chunk)
         /\ DataRows(g) = DataRows(f) \cup {Len(f) + 1}
         /\ \A i \in DataRows(f) : g[i] = f[i] /\ RowId(g, i) = RowId(f, i)
         /\ g[Len(f) + 1] = c
         /\ Cardinality(DataRows(g)) = Cardinality(DataRows(f)) + 1
         /\ RowId(g, Len(f) + 1) = Cardinality(DataRows(f)) + 1
<1> DEFINE g == f \o <<c>>
           n == Len(f)
<1>1. c \in Chunk /\ c # Blank
  BY ChunkAssumption DEF Chunk
<1>2. g \in Seq(Chunk) /\ Len(g) = n + 1 /\ g[n + 1] = c /\ \A i \in 1..n : g[i] = f[i]
  BY <1>1
<1>3. n \in Nat /\ n > 0
  OBVIOUS
<1>4. DataRows(g) = DataRows(f) \cup {n + 1}
  BY <1>1, <1>2, <1>3 DEF DataRows
<1>5. \A i \in DataRows(f) : i \in Nat /\ i <= n /\ i \in 1..n
  BY <1>3 DEF DataRows
<1>6. \A i \in DataRows(f) : Count(g, i) = Count(f, i)
  BY <1>1, <1>5, CountAppend
<1>7. Count(g, n) = Count(f, n)
  BY <1>1, <1>3, CountAppend
<1>8. Count(g, n + 1) = Count(f, n) + 1
  BY <1>2, <1>3, <1>4, <1>7, CountNext
<1>9. Count(f, n) = Cardinality(DataRows(f)) /\ Count(g, n + 1) = Cardinality(DataRows(g))
  BY <1>2, CountBounds
<1>10. \A i : RowId(g, i) = Count(g, i) /\ RowId(f, i) = Count(f, i)
  BY DEF RowId, Count, UpTo
<1> HIDE DEF g, n
<1>11. \A i \in DataRows(f) : g[i] = f[i] /\ RowId(g, i) = RowId(f, i)
  BY <1>2, <1>5, <1>6, <1>10
<1>12. RowId(g, n + 1) = Cardinality(DataRows(f)) + 1
  BY <1>8, <1>9, <1>10
<1>13. Cardinality(DataRows(g)) = Cardinality(DataRows(f)) + 1
  BY <1>8, <1>9
<1> QED
  BY <1>2, <1>4, <1>11, <1>12, <1>13 DEF g, n

LEMMA AppendedPairs ==
  ASSUME NEW f \in Seq(Chunk), Len(f) > 0, NEW c \in Row
  PROVE  LET g == f \o <<c>> IN
         {<<RowId(g, i), g[i]>> : i \in DataRows(g)}
           = {<<RowId(f, i), f[i]>> : i \in DataRows(f)} \cup {<<Cardinality(DataRows(f)) + 1, c>>}
<1> DEFINE g == f \o <<c>>
           n == Len(f) + 1
<1>1. /\ DataRows(g) = DataRows(f) \cup {n}
      /\ \A i \in DataRows(f) : g[i] = f[i] /\ RowId(g, i) = RowId(f, i)
      /\ g[n] = c /\ RowId(g, n) = Cardinality(DataRows(f)) + 1
  BY AppendedRows
<1> HIDE DEF g, n
<1>2. {<<RowId(g, i), g[i]>> : i \in DataRows(g)}
        = {<<RowId(g, i), g[i]>> : i \in DataRows(f)} \cup {<<RowId(g, n), g[n]>>}
  BY <1>1
<1>3. {<<RowId(g, i), g[i]>> : i \in DataRows(f)} = {<<RowId(f, i), f[i]>> : i \in DataRows(f)}
  BY <1>1
<1> QED
  BY <1>1, <1>2, <1>3 DEF g

\* A step that writes nothing.
LEMMA FollowsSame ==
  ASSUME FollowsRequest, file' = file,
         pc' = "find" => loaded'[P'][T'],
         pc' = "read" => stmt'.offset \in DataRows(Lines') /\ RowId(Lines', stmt'.offset) = stmt'.id,
         pc' \in {"find", "read"} => stmt'.cont = "find",
         pc' \in {"getId", "append"} => stmt'.cont = "getId",
         pc' \in {"register", "insert", "invalidate"} => stmt'.cont # "find",
         ~Idle' /\ pc' # "select" /\ stmt'.cont # "find" => stmt'.row \in Row
  PROVE  FollowsRequest'
BY DEF FollowsRequest

LEMMA FollowsRebuild ==
  ASSUME Undisturbed, RefinementInv,
         \/ AlreadyLoaded \/ StartRebuild \/ SkipBlank \/ RebuildRow \/ RebuildDone
         \/ RebuildRejects \/ RebuildFails
  PROVE  FollowsRequest'
<1>0. stmt \in Statement /\ P \in Proc /\ T \in Table /\ loaded \in [Proc -> [Table -> BOOLEAN]]
  BY EntryTypes DEF RefinementInv, ScanInv, CursorInv
<1>1. FollowsRequest /\ stmt.cont \in Conts
  BY <1>0 DEF RefinementInv, Statement
<1>2. CASE AlreadyLoaded
  <2>1. /\ pc = "ensure" /\ pc' = stmt.cont /\ stmt' = stmt /\ file' = file
        /\ loaded'[P'][T']
    BY <1>2 DEF AlreadyLoaded, Goto, disk, index, P, T
  <2> QED
    BY <1>1, <2>1, FollowsSame DEF FollowsRequest, Conts, Idle
<1>3. CASE RebuildDone
  <2>1. /\ pc = "scan" /\ pc' = stmt.cont /\ stmt' = stmt /\ file' = file
        /\ loaded'[P'][T']
    BY <1>0, <1>3 DEF RebuildDone, SetEntry, Goto, disk, P, T
  <2> QED
    BY <1>1, <2>1, FollowsSame DEF FollowsRequest, Conts, Idle
<1>4. CASE StartRebuild \/ SkipBlank \/ RebuildRow
  <2>1. /\ pc' = (IF pc = "select" THEN "select" ELSE "scan") /\ pc \in {"ensure", "scan", "select"}
        /\ stmt'.cont = stmt.cont /\ stmt'.row = stmt.row /\ file' = file
    BY <1>0, <1>4 DEF StartRebuild, SkipBlank, RebuildRow, Goto, disk, Statement
  <2> QED
    BY <1>1, <2>1, FollowsSame DEF FollowsRequest, Idle
<1>5. CASE RebuildAborts /\ pc = "scan"
  <2>1. file' = file
    BY <1>5 DEF RebuildAborts, disk
  <2>2. CASE stmt.cont = "insert"
    BY <1>1, <1>5, <2>1, <2>2, FollowsSame DEF RebuildAborts, Goto, FollowsRequest, Idle
  <2>3. CASE stmt.cont # "insert"
    BY <1>1, <1>5, <2>1, <2>3, FollowsSame DEF RebuildAborts, Return, Idle
  <2> QED
    BY <2>2, <2>3
<1> QED
  BY <1>2, <1>3, <1>4, <1>5 DEF RebuildRejects, RebuildFails

LEMMA FollowsInsert ==
  ASSUME Undisturbed, RefinementInv,
         \/ GetNextId \/ AppendRow \/ AppendFails \/ AppendTorn \/ AppendLost
         \/ RegisterForcedToFail \/ RegisterRow \/ InsertId \/ InsertFails \/ Invalidate
  PROVE  FollowsRequest'
<1>0. stmt \in Statement /\ FollowsRequest
  BY TypeParts DEF RefinementInv, TypeInv
<1>1. CASE AppendRow
  <2> USE <1>1, AppendUndisturbed
  <2>1. /\ pc' = "register" /\ stmt'.cont = stmt.cont /\ stmt'.row = stmt.row
        /\ stmt.cont = "getId"
    BY <1>0 DEF AppendRow, Goto, FollowsRequest, Statement
  <2>2. ASSUME NEW t \in Table, NEW i \in DataRows(file'[t])
        PROVE  file'[t][i] \in Row
    <3>1. CASE t # T
      <4>1. file'[t] = file[t]
        BY <3>1
      <4> QED
        BY <1>0, <2>2, <4>1 DEF FollowsRequest
    <3>2. CASE t = T
      <4>1. file'[t] = Lines \o <<stmt.row>> /\ Lines = file[t] /\ Len(Lines) > 0
        BY <3>2 DEF Lines, RefinementInv, ScanInv, CursorInv, FilesBegun
      <4>2. i \in DataRows(Lines) \/ i = Len(Lines) + 1
        BY <2>2, <4>1, AppendedRows
      <4>3. \A j \in DataRows(Lines) : Lines[j] \in Row
        BY <1>0, <3>2, <4>1 DEF FollowsRequest
      <4>4. i \in DataRows(Lines) => file'[t][i] = Lines[i]
        <5>1. i \in DataRows(Lines) => i \in 1..Len(Lines)
          BY DEF DataRows
        <5>2. i \in 1..Len(Lines) => (Lines \o <<stmt.row>>)[i] = Lines[i]
          OBVIOUS
        <5> QED
          BY <4>1, <5>1, <5>2
      <4>5. i = Len(Lines) + 1 => file'[t][i] = stmt.row
        BY <4>1, AppendedRows
      <4> QED
        BY <4>2, <4>3, <4>5, <4>4
    <3> QED
      BY <3>1, <3>2
  <2> QED
    BY <2>1, <2>2 DEF FollowsRequest
<1>2. CASE GetNextId \/ RegisterForcedToFail \/ RegisterRow \/ InsertFails
  <2>1. /\ file' = file /\ pc' \in {"append", "invalidate", "ensure"} /\ stmt'.row = stmt.row
        /\ stmt.cont # "find" /\ stmt'.cont # "find" /\ pc \in {"getId", "register", "insert"}
        /\ pc' = "append" => stmt'.cont = "getId"
    BY <1>0, <1>2
       DEF GetNextId, RegisterForcedToFail, RegisterRow, InsertFails, Goto, disk, Statement,
           FollowsRequest
  <2> QED
    BY <1>0, <2>1, FollowsSame DEF FollowsRequest, Idle
<1>3. CASE AppendFails \/ InsertId \/ Invalidate
  <2>1. file' = file /\ pc' = "idle"
    BY <1>3 DEF AppendFails, InsertId, Invalidate, Return, disk
  <2> QED
    BY <1>0, <2>1, FollowsSame DEF Idle
<1>4. CASE AppendTorn \/ AppendLost
  BY <1>4 DEF AppendTorn, AppendLost, Undisturbed
<1> QED
  BY <1>1, <1>2, <1>3, <1>4

\* FindRow finds the offset of the row whose rank its id is.
LEMMA FoundOffset ==
  ASSUME Undisturbed, RefinementInv, pc = "find"
  PROVE  /\ DOMAIN Index = 1..Cardinality(DataRows(Lines))
         /\ \A id \in DOMAIN Index : Index[id] \in DataRows(Lines) /\ RowId(Lines, Index[id]) = id
<1>0. /\ P \in Proc /\ T \in Table /\ Lines \in Seq(Chunk) /\ loaded[P][T]
  BY EntryTypes DEF RefinementInv, ScanInv, CursorInv, FollowsRequest
<1>1. MatchesUpTo(Index, Lines, Len(Lines))
  BY <1>0 DEF RefinementInv, IndexInv, Registering, Registered, Index, Lines
<1>2. Count(Lines, Len(Lines)) = Cardinality(DataRows(Lines)) /\ UpTo(Lines, Len(Lines)) = DataRows(Lines)
  BY <1>0, CountBounds
<1> QED
  BY <1>1, <1>2 DEF MatchesUpTo, RowId, Count, UpTo

LEMMA FollowsSelect ==
  ASSUME Undisturbed, RefinementInv,
         \/ FindRow \/ ReadRow \/ SelectRow \/ SelectDone \/ SelectRejects \/ SelectFails
  PROVE  FollowsRequest'
<1>0. stmt \in Statement /\ FollowsRequest
  BY TypeParts DEF RefinementInv, TypeInv
<1>1. CASE FindRow /\ pc' = "read"
  <2>1. /\ pc = "find" /\ stmt.id \in DOMAIN Index /\ stmt'.offset = Index[stmt.id]
        /\ stmt'.id = stmt.id /\ stmt'.cont = stmt.cont /\ file' = file /\ T' = T
    BY <1>0, <1>1 DEF FindRow, Goto, Return, disk, Statement, T
  <2>2. Lines' = Lines
    BY <2>1 DEF Lines
  <2>3. stmt'.offset \in DataRows(Lines') /\ RowId(Lines', stmt'.offset) = stmt'.id
    BY <2>1, <2>2, FoundOffset
  <2>4. stmt'.cont = "find"
    BY <1>0, <2>1 DEF FollowsRequest
  <2> QED
    BY <1>0, <1>1, <2>1, <2>3, <2>4, FollowsSame
<1>2. CASE pc' \in {"idle", "select"}
  <2>1. file' = file
    BY DEF FindRow, ReadRow, SelectRow, SelectDone, SelectRejects, SelectFails, disk
  <2> QED
    BY <1>0, <1>2, <2>1, FollowsSame DEF Idle
<1> QED
  BY <1>1, <1>2
     DEF FindRow, ReadRow, SelectRow, SelectDone, SelectRejects, SelectFails, Goto, Return

LEMMA FollowsEnvironment ==
  ASSUME Undisturbed, RefinementInv, Environment
  PROVE  FollowsRequest'
<1>0. FollowsRequest
  BY DEF RefinementInv
<1>1. ASSUME NEW p \in Proc, NEW t \in Table, BeginStatement(p, t)
      PROVE  FollowsRequest'
  <2>1. file' = file /\ pc' \in {"ensure", "select"}
    BY <1>1 DEF BeginStatement, BeginInsert, BeginFind, BeginSelect, Begin, disk
  <2>2. pc' = "ensure" /\ stmt'.cont # "find" => stmt'.row \in Row
    BY <1>1, NoStmtType
       DEF BeginStatement, BeginInsert, BeginFind, BeginSelect, Begin, NoStmt, Undisturbed
  <2> QED
    BY <1>0, <2>1, <2>2, FollowsSame
<1>2. ASSUME NEW p \in Proc, ForceNextRegisterFailure(p) \/ RegistryReset(p)
      PROVE  FollowsRequest'
  <2>1. file' = file /\ pc' = "idle"
    BY <1>2 DEF ForceNextRegisterFailure, RegistryReset, ClearRegistry, Idle, disk
  <2> QED
    BY <1>0, <2>1, FollowsSame DEF Idle
<1>3. CASE Crash
  <2>1. file' = file /\ pc' = "idle"
    BY <1>3 DEF Crash, ClearRegistry, Return, disk
  <2> QED
    BY <1>0, <2>1, FollowsSame DEF Idle
<1> QED
  BY <1>1, <1>2, <1>3 DEF Environment

LEMMA FollowsStep ==
  ASSUME Undisturbed
  PROVE  RefinementInv /\ [Next]_vars => FollowsRequest'
<1> SUFFICES ASSUME RefinementInv, [Next]_vars PROVE FollowsRequest'
  OBVIOUS
<1>1. CASE Progress
  BY <1>1, FollowsRebuild, FollowsInsert, FollowsSelect DEF Progress
<1>2. CASE Failure
  BY <1>2, FollowsRebuild, FollowsInsert, FollowsSelect DEF Failure
<1>3. CASE Environment
  BY <1>3, FollowsEnvironment
<1>4. CASE UNCHANGED vars
  BY <1>4 DEF vars, RefinementInv, FollowsRequest, Idle, P, T, Lines
<1> QED
  BY <1>1, <1>2, <1>3, <1>4 DEF Next

\* Undisturbed, a SELECT by id reads at the row whose rank is its id, from a right index.
THEOREM RefinementInvariant ==
  ASSUME Undisturbed, OrderlyFiles
  PROVE  Spec => []RefinementInv
<1>1. RefinementInv <=> (TypeInv /\ StaysLoaded /\ IndexInv) /\ (TypeInv /\ ScanInv) /\ FollowsRequest
  BY DEF RefinementInv
<1> QED
  BY <1>1, IndexInvariant, ScanInvariant, FollowsInit, FollowsStep, PTL DEF Spec

-----------------------------------------------------------------------------
(* What the mapping makes of a state.                                      *)

\* The running INSERT has written its row.
RowInStore == \/ pc \in {"register", "insert", "invalidate"}
              \/ pc \in {"ensure", "scan"} /\ stmt.cont = "insert"

LEMMA StoredMeans == ASSUME TypeInv PROVE AbstractStored <=> RowInStore
<1>1. P \in Proc /\ T \in Table
  BY TypeParts DEF TypeInv, P, T, Statement
<1>2. RowInStore => ~Idle
  BY DEF RowInStore, Idle
<1> QED
  BY <1>1, <1>2 DEF AbstractStored, Registering, RowInStore

LEMMA RequestMeans ==
  /\ Idle => AbstractRequest = [op |-> "none"]
  /\ pc = "select" => AbstractRequest = [op |-> "select", table |-> T, where |-> stmt.row]
  /\ ~Idle /\ pc # "select" /\ stmt.cont = "find" =>
       AbstractRequest = [op |-> "find", table |-> T, id |-> stmt.id]
  /\ ~Idle /\ pc # "select" /\ stmt.cont # "find" =>
       AbstractRequest = [op |-> "insert", table |-> T, row |-> stmt.row]
BY DEF AbstractRequest, Idle

LEMMA RequestMeansNext ==
  /\ Idle' => AbstractRequest' = [op |-> "none"]
  /\ pc' = "select" => AbstractRequest' = [op |-> "select", table |-> T', where |-> stmt'.row]
  /\ ~Idle' /\ pc' # "select" /\ stmt'.cont = "find" =>
       AbstractRequest' = [op |-> "find", table |-> T', id |-> stmt'.id]
  /\ ~Idle' /\ pc' # "select" /\ stmt'.cont # "find" =>
       AbstractRequest' = [op |-> "insert", table |-> T', row |-> stmt'.row]
BY DEF AbstractRequest, Idle

-----------------------------------------------------------------------------
(* The initial states.                                                     *)

LEMMA CountsOnce ==
  ASSUME NEW f \in Seq(Chunk), NEW i \in DataRows(f), NEW j \in DataRows(f), i < j
  PROVE  RowId(f, i) < RowId(f, j)
<1>1. i \in Nat /\ j \in Nat /\ j - 1 \in Nat /\ i <= j - 1 /\ (j - 1) + 1 = j
  BY DEF DataRows
<1>2. RowId(f, i) = Count(f, i) /\ RowId(f, j) = Count(f, j)
  BY DEF RowId, Count, UpTo
<1>3. Count(f, j) = Count(f, j - 1) + 1
  BY <1>1, CountNext
<1>4. Count(f, i) <= Count(f, j - 1)
  BY <1>1, CountMonotone
<1>5. Count(f, i) \in Nat /\ Count(f, j - 1) \in Nat
  BY <1>1, UpToFinite, FS_CardinalityType DEF Count
<1> QED
  BY <1>2, <1>3, <1>4, <1>5

\* The ids a scan gives are 1, 2, ... without a gap.
LEMMA CountsAll ==
  ASSUME NEW f \in Seq(Chunk)
  PROVE  {RowId(f, i) : i \in DataRows(f)} = 1..Cardinality(DataRows(f))
<1> DEFINE S == DataRows(f)
           n == Cardinality(S)
           id == [i \in S |-> RowId(f, i)]
<1>1. IsFiniteSet(S) /\ n \in Nat
  <2>1. UpTo(f, Len(f)) = S
    BY CountBounds
  <2> QED
    BY <2>1, UpToFinite, FS_CardinalityType
<1>2. \A i \in S : RowId(f, i) \in 1..n
  <2> SUFFICES ASSUME NEW i \in S PROVE RowId(f, i) \in 1..n
    OBVIOUS
  <2>1. i \in Nat /\ i - 1 \in Nat /\ i <= Len(f) /\ (i - 1) + 1 = i
    BY DEF DataRows
  <2>2. RowId(f, i) = Count(f, i)
    BY DEF RowId, Count, UpTo
  <2>3. Count(f, i) = Count(f, i - 1) + 1
    BY <2>1, CountNext
  <2>4. Count(f, i) <= Count(f, Len(f)) /\ Count(f, Len(f)) = n
    BY <2>1, CountMonotone, CountBounds
  <2>5. Count(f, i - 1) \in Nat
    BY <2>1, UpToFinite
  <2> QED
    BY <1>1, <2>2, <2>3, <2>4, <2>5
<1>3. \A i, j \in S : RowId(f, i) = RowId(f, j) => i = j
  <2> SUFFICES ASSUME NEW i \in S, NEW j \in S, i # j PROVE RowId(f, i) # RowId(f, j)
    OBVIOUS
  <2>1. i < j \/ j < i
    BY DEF DataRows
  <2>2. RowId(f, i) < RowId(f, j) \/ RowId(f, j) < RowId(f, i)
    BY <2>1, CountsOnce
  <2>3. RowId(f, i) \in Nat /\ RowId(f, j) \in Nat
    BY <1>2
  <2> QED
    BY <2>2, <2>3
<1>4. id \in Injection(S, 1..n)
  BY <1>2, <1>3 DEF Injection, IsInjective
<1>5. IsFiniteSet(1..n) /\ Cardinality(1..n) = n
  BY <1>1, FS_Interval
<1>6. id \in Surjection(S, 1..n)
  BY <1>4, <1>5, FS_Injection
<1>7. \A k \in 1..n : \E i \in S : id[i] = k
  BY <1>6 DEF Surjection
<1> QED
  BY <1>2, <1>7

LEMMA RefinesInit ==
  ASSUME OrderlyFiles, Init
  PROVE  Store!Init
<1>1. TypeInv /\ Idle /\ AbstractRequest = [op |-> "none"] /\ reply = NoReply
  BY TypeInit, RequestMeans DEF Init, Idle
<1>2. AbstractStored = FALSE
  BY <1>1 DEF AbstractStored
<1>3. ASSUME NEW t \in Table
      PROVE  /\ AbstractRows[t] = {<<RowId(file[t], i), file[t][i]>> : i \in DataRows(file[t])}
             /\ AbstractRows[t] \in SUBSET (Nat \X Row)
             /\ {x[1] : x \in AbstractRows[t]} = 1..AbstractCount[t]
             /\ \A x, y \in AbstractRows[t] : x[1] = y[1] => x = y
  <2> DEFINE f == file[t]
  <2>1. f \in Seq(Chunk) /\ f \in InitFiles
    BY FileAssumption DEF Init
  <2>2. AbstractRows[t] = {<<RowId(f, i), f[i]>> : i \in DataRows(f)}
    BY DEF AbstractRows
  <2>3. {RowId(f, i) : i \in DataRows(f)} = 1..AbstractCount[t]
    BY <2>1, CountsAll DEF AbstractCount
  <2>4. \A i \in DataRows(f) : RowId(f, i) \in Nat /\ f[i] \in Row
    <3>1. AbstractCount[t] \in Nat
      <4>1. AbstractCount[t] = Count(f, Len(f))
        BY <2>1, CountBounds DEF AbstractCount
      <4> QED
        BY <2>1, <4>1, UpToFinite
    <3>2. \A i \in DataRows(f) : RowId(f, i) \in 1..AbstractCount[t]
      BY <2>3
    <3> QED
      BY <2>1, <3>1, <3>2 DEF OrderlyFiles
  <2>5. ASSUME NEW i \in DataRows(f), NEW j \in DataRows(f), RowId(f, i) = RowId(f, j)
        PROVE  i = j
    <3>1. i \in Nat /\ j \in Nat
      BY DEF DataRows
    <3>2. ~(i < j) /\ ~(j < i)
      BY <2>1, <2>4, <2>5, CountsOnce
    <3> QED
      BY <3>1, <3>2
  <2> HIDE DEF f
  <2>6. {x[1] : x \in AbstractRows[t]} = {RowId(f, i) : i \in DataRows(f)}
    <3>1. \A i \in DataRows(f) : <<RowId(f, i), f[i]>>[1] = RowId(f, i)
      OBVIOUS
    <3>2. \A x \in AbstractRows[t] : \E i \in DataRows(f) : x[1] = RowId(f, i)
      BY <2>2, <3>1
    <3>3. \A i \in DataRows(f) : \E x \in AbstractRows[t] : x[1] = RowId(f, i)
      BY <2>2, <3>1
    <3> QED
      BY <3>2, <3>3
  <2>7. AbstractRows[t] \in SUBSET (Nat \X Row)
    BY <2>2, <2>4
  <2>8. \A x, y \in AbstractRows[t] : x[1] = y[1] => x = y
    BY <2>2, <2>5
  <2> QED
    BY <2>2, <2>3, <2>6, <2>7, <2>8 DEF f
<1>4. AbstractRows \in [Table -> SUBSET (Nat \X Row)]
  <2>1. AbstractRows = [t \in Table |-> AbstractRows[t]]
    BY DEF AbstractRows
  <2> QED
    BY <1>3, <2>1
<1> QED
  BY <1>1, <1>2, <1>3, <1>4 DEF Store!Init, Store!NoRequest, Store!NoAnswer, NoReply

-----------------------------------------------------------------------------
(* The steps.                                                              *)

LEMMA SameRows ==
  ASSUME file' = file
  PROVE  UNCHANGED <<AbstractRows, AbstractCount>>
BY DEF AbstractRows, AbstractCount

\* A statement goes on and nothing shows: not a row, not an answer.
LEMMA Unnoticed ==
  ASSUME TypeInv, TypeInv', file' = file, reply' = reply, ~Idle, ~Idle',
         T' = T, stmt'.row = stmt.row, stmt'.id = stmt.id \/ stmt'.cont # "find",
         pc' = "select" <=> pc = "select",
         stmt'.cont = "find" <=> stmt.cont = "find",
         RowInStore' <=> RowInStore
  PROVE  UNCHANGED Store!vars
<1>1. AbstractRequest' = AbstractRequest
  BY RequestMeans, RequestMeansNext
<1>2. AbstractStored' <=> AbstractStored
  <2>1. AbstractStored' <=> RowInStore'
    BY StoredMeans, PTL
  <2> QED
    BY <2>1, StoredMeans
<1>3. AbstractStored' = AbstractStored
  BY <1>2 DEF AbstractStored
<1> QED
  BY <1>1, <1>3, SameRows DEF Store!vars

\* A statement begins.
LEMMA Requested ==
  ASSUME TypeInv, TypeInv', NEW p \in Proc, NEW t \in Table, BeginStatement(p, t), Undisturbed
  PROVE  \E r \in Store!Requests : Store!Submit(r)
<1>1. /\ Idle /\ ~Idle' /\ reply' = NoReply /\ file' = file
      /\ pc' \in {"ensure", "select"} /\ stmt'.cont # "insert"
  BY NoStmtType
     DEF BeginStatement, BeginInsert, BeginFind, BeginSelect, Begin, Idle, disk, NoStmt, Statement
<1>2. AbstractRequest' \in Store!Requests
  <2>1. ASSUME NEW r \in Row, BeginInsert(p, t, r)
        PROVE  AbstractRequest' = [op |-> "insert", table |-> t, row |-> r]
    BY <2>1, NoStmtType, RequestMeansNext DEF BeginInsert, Begin, NoStmt, Statement, T, Idle
  <2>2. ASSUME NEW k \in Ids, BeginFind(p, t, k)
        PROVE  AbstractRequest' = [op |-> "find", table |-> t, id |-> k]
    BY <2>2, NoStmtType, RequestMeansNext DEF BeginFind, Begin, NoStmt, Statement, T, Idle
  <2>3. ASSUME NEW w \in Row \cup {AnyRow}, BeginSelect(p, t, w)
        PROVE  AbstractRequest' = [op |-> "select", table |-> t, where |-> w]
    BY <2>3, NoStmtType, RequestMeansNext DEF BeginSelect, Begin, NoStmt, Statement, T, Idle
  <2> QED
    BY <2>1, <2>2, <2>3 DEF BeginStatement, Store!Requests, Undisturbed
<1>3. AbstractStored = FALSE /\ AbstractStored' = FALSE
  BY <1>1 DEF AbstractStored, Registering
<1>4. AbstractRequest = [op |-> "none"]
  BY <1>1, RequestMeans
<1> QED
  BY <1>1, <1>2, <1>3, <1>4, SameRows DEF Store!Submit, Store!NoRequest, Store!NoAnswer, NoReply

\* A row is written: it goes to the end of the list.
LEMMA Stored ==
  ASSUME Undisturbed, RefinementInv, RefinementInv', AppendRow
  PROVE  Store!Store
<1> USE AppendUndisturbed
<1>1. /\ pc = "append" /\ pc' = "register" /\ stmt.cont = "getId"
      /\ stmt'.cont = stmt.cont /\ stmt'.row = stmt.row /\ T' = T /\ reply' = reply
  BY DEF AppendRow, Goto, RefinementInv, FollowsRequest, Statement, T
<1>2. /\ AbstractRequest = [op |-> "insert", table |-> T, row |-> stmt.row]
      /\ AbstractRequest' = AbstractRequest
  BY <1>1, RequestMeans, RequestMeansNext DEF Idle
<1>3. AbstractStored = FALSE /\ AbstractStored' = TRUE
  <2>1. ~AbstractStored
    BY <1>1, StoredMeans DEF RowInStore, RefinementInv
  <2>2. AbstractStored' <=> RowInStore'
    BY StoredMeans, PTL DEF RefinementInv
  <2>3. RowInStore'
    BY <1>1 DEF RowInStore
  <2> QED
    BY <2>1, <2>2, <2>3 DEF AbstractStored
<1>4. Len(Lines) > 0
  BY DEF RefinementInv, ScanInv, CursorInv, FilesBegun, Lines
<1> DEFINE g == Lines \o <<stmt.row>>
<1>5. \A t \in Table : file'[t] = IF t = T THEN g ELSE file[t]
  OBVIOUS
<1>6. file[T] = Lines
  BY DEF Lines
<1>7. AbstractCount' = [AbstractCount EXCEPT ![T] = @ + 1]
  <2>1. Cardinality(DataRows(g)) = Cardinality(DataRows(Lines)) + 1
    BY <1>4, AppendedRows
  <2> HIDE DEF g
  <2> QED
    BY <1>5, <1>6, <2>1 DEF AbstractCount
<1>8. AbstractRows' = [AbstractRows EXCEPT ![T] = @ \cup {<<AbstractCount[T] + 1, stmt.row>>}]
  <2>1. {<<RowId(g, i), g[i]>> : i \in DataRows(g)}
          = {<<RowId(Lines, i), Lines[i]>> : i \in DataRows(Lines)}
              \cup {<<Cardinality(DataRows(Lines)) + 1, stmt.row>>}
    BY <1>4, AppendedPairs
  <2> HIDE DEF g
  <2>2. AbstractCount[T] = Cardinality(DataRows(Lines))
    BY <1>6 DEF AbstractCount
  <2>3. AbstractRows[T] = {<<RowId(Lines, i), Lines[i]>> : i \in DataRows(Lines)}
    BY <1>6 DEF AbstractRows
  <2>4. AbstractRows'[T] = AbstractRows[T] \cup {<<AbstractCount[T] + 1, stmt.row>>}
    <3>1. AbstractRows'[T] = {<<RowId(g, i), g[i]>> : i \in DataRows(g)}
      BY <1>5 DEF AbstractRows
    <3> QED
      BY <2>1, <2>2, <2>3, <3>1
  <2>5. \A t \in Table \ {T} : AbstractRows'[t] = AbstractRows[t]
    BY <1>5 DEF AbstractRows
  <2>6. /\ AbstractRows = [t \in Table |-> AbstractRows[t]]
        /\ AbstractRows' = [t \in Table |-> AbstractRows'[t]]
    BY DEF AbstractRows
  <2> QED
    BY <2>4, <2>5, <2>6
<1>9. /\ AbstractRequest.op = "insert" /\ AbstractRequest.table = T
      /\ AbstractRequest.row = stmt.row
  BY <1>2
<1>10. ~AbstractStored
  BY <1>3
<1> QED
  BY <1>1, <1>2, <1>3, <1>7, <1>8, <1>9, <1>10 DEF Store!Store

\* A statement returns.
LEMMA Answered ==
  ASSUME ~Idle, pc' = "idle", file' = file, reply' \in Store!Truth \cup {ErrorReply, NoReply}
  PROVE  Store!Answer
<1>1. AbstractRequest # [op |-> "none"] /\ AbstractRequest' = [op |-> "none"]
  <2>1. AbstractRequest.op # "none"
    <3>1. CASE pc = "select"
      BY <3>1, RequestMeans
    <3>2. CASE pc # "select" /\ stmt.cont = "find"
      BY <3>2, RequestMeans
    <3>3. CASE pc # "select" /\ stmt.cont # "find"
      BY <3>3, RequestMeans
    <3> QED
      BY <3>1, <3>2, <3>3
  <2> QED
    BY <2>1, RequestMeansNext DEF Idle
<1>2. AbstractStored' = FALSE
  BY DEF AbstractStored, Idle
<1> QED
  BY <1>1, <1>2, SameRows
     DEF Store!Answer, Store!NoRequest, Store!Error, Store!NoAnswer, ErrorReply, NoReply

LEMMA RefinesRebuild ==
  ASSUME RefinementInv, TypeInv',
         \/ AlreadyLoaded \/ StartRebuild \/ SkipBlank \/ RebuildRow \/ RebuildDone
         \/ RebuildRejects \/ RebuildFails
  PROVE  Store!Answer \/ UNCHANGED Store!vars
<1>0. TypeInv /\ stmt \in Statement
  BY TypeParts DEF RefinementInv, TypeInv
<1>1. CASE AlreadyLoaded \/ RebuildDone
  <2>1. /\ file' = file /\ reply' = reply /\ stmt' = stmt /\ T' = T
        /\ pc \in {"ensure", "scan"} /\ pc' = stmt.cont
    BY <1>1 DEF AlreadyLoaded, RebuildDone, Goto, disk, T
  <2>2. stmt.cont \in Conts
    BY <1>0 DEF Statement
  <2> QED
    BY <1>0, <2>1, <2>2, Unnoticed DEF Idle, RowInStore, Conts
<1>2. CASE StartRebuild \/ SkipBlank \/ RebuildRow
  <2>1. /\ file' = file /\ reply' = reply /\ T' = T
        /\ stmt'.row = stmt.row /\ stmt'.id = stmt.id /\ stmt'.cont = stmt.cont
        /\ pc \in {"ensure", "scan", "select"}
        /\ pc' = (IF pc = "select" THEN "select" ELSE "scan")
    BY <1>0, <1>2 DEF StartRebuild, SkipBlank, RebuildRow, Goto, disk, T, Statement
  <2> QED
    BY <1>0, <2>1, Unnoticed DEF Idle, RowInStore
<1>3. CASE RebuildAborts /\ pc = "scan"
  <2>1. file' = file
    BY <1>3 DEF RebuildAborts, disk
  <2>2. CASE stmt.cont = "insert"
    <3>1. reply' = reply /\ stmt' = stmt /\ T' = T /\ pc' = "invalidate"
      BY <1>3, <2>2 DEF RebuildAborts, Goto, T
    <3> QED
      BY <1>0, <1>3, <2>1, <2>2, <3>1, Unnoticed DEF Idle, RowInStore
  <2>3. CASE stmt.cont # "insert"
    BY <1>3, <2>1, <2>3, Answered DEF RebuildAborts, Return, Idle
  <2> QED
    BY <2>2, <2>3
<1> QED
  BY <1>1, <1>2, <1>3 DEF RebuildRejects, RebuildFails

LEMMA RefinesInsert ==
  ASSUME Undisturbed, RefinementInv, RefinementInv',
         \/ GetNextId \/ AppendRow \/ AppendFails \/ AppendTorn \/ AppendLost
         \/ RegisterForcedToFail \/ RegisterRow \/ InsertId \/ InsertFails \/ Invalidate
  PROVE  Store!Store \/ Store!Answer \/ UNCHANGED Store!vars
<1>0. TypeInv /\ stmt \in Statement /\ TypeInv' /\ FollowsRequest
  BY TypeParts DEF RefinementInv, TypeInv
<1>1. CASE AppendRow
  BY <1>1, Stored
<1>2. CASE GetNextId \/ RegisterForcedToFail \/ RegisterRow \/ InsertFails
  <2>1. /\ file' = file /\ reply' = reply /\ T' = T
        /\ stmt'.row = stmt.row /\ stmt'.cont # "find" /\ stmt.cont # "find"
        /\ \/ pc = "getId" /\ pc' = "append"
           \/ pc = "register" /\ pc' = "ensure" /\ stmt'.cont = "insert"
           \/ pc \in {"register", "insert"} /\ pc' = "invalidate"
    BY <1>0, <1>2
       DEF GetNextId, RegisterForcedToFail, RegisterRow, InsertFails, Goto, disk, T, Statement,
           FollowsRequest
  <2> QED
    BY <1>0, <2>1, Unnoticed DEF Idle, RowInStore
<1>3. CASE InsertId
  <2>1. /\ pc = "insert" /\ pc' = "idle" /\ file' = file /\ ~Idle
        /\ reply' = [kind |-> "inserted"] /\ stmt.cont # "find"
    BY <1>0, <1>3 DEF InsertId, Return, disk, Idle, FollowsRequest
  <2>2. AbstractRequest.op = "insert" /\ AbstractStored
    BY <1>0, <2>1, RequestMeans, StoredMeans DEF RowInStore
  <2>3. Store!Truth = {[kind |-> "inserted"]}
    BY <2>2 DEF Store!Truth
  <2> QED
    BY <2>1, <2>3, Answered
<1>4. CASE AppendFails \/ Invalidate
  BY <1>4, Answered DEF AppendFails, Invalidate, Return, disk, Idle
<1>5. CASE AppendTorn \/ AppendLost
  BY <1>5 DEF AppendTorn, AppendLost, Undisturbed
<1> QED
  BY <1>1, <1>2, <1>3, <1>4, <1>5

\* SELECT ... WHERE id = k answers what the list has under k.
LEMMA FindsTruth ==
  ASSUME Undisturbed, RefinementInv, pc \in {"find", "read"}, FindRow \/ ReadRow, pc' = "idle"
  PROVE  reply' \in Store!Truth \cup {ErrorReply}
<1>0. /\ TypeInv /\ T \in Table /\ stmt \in Statement /\ Lines \in Seq(Chunk)
      /\ stmt.cont = "find"
  BY EntryTypes DEF RefinementInv, ScanInv, CursorInv, FollowsRequest
<1>1. AbstractRequest = [op |-> "find", table |-> T, id |-> stmt.id]
  BY <1>0, RequestMeans DEF Idle
<1>2. /\ AbstractRequest.op = "find" /\ AbstractRequest.table = T
      /\ AbstractRequest.id = stmt.id
  BY <1>1
<1>3. /\ AbstractCount[T] = Cardinality(DataRows(Lines))
      /\ AbstractRows[T] = {<<RowId(Lines, i), Lines[i]>> : i \in DataRows(Lines)}
  BY <1>0 DEF AbstractCount, AbstractRows, Lines
<1>4. Store!Truth =
        IF stmt.id \in 1..AbstractCount[T]
        THEN {[kind |-> "row", table |-> T, id |-> x[1], row |-> x[2]] :
                x \in {y \in AbstractRows[T] : y[1] = stmt.id}}
        ELSE {[kind |-> "noRow", table |-> T, id |-> stmt.id]}
  BY <1>2 DEF Store!Truth
<1>5. CASE FindRow
  <2>1. stmt.id \notin DOMAIN Index /\ pc = "find"
    BY <1>0, <1>5 DEF FindRow, Goto
  <2>2. reply' = [kind |-> "noRow", table |-> T, id |-> stmt.id]
    BY <1>5, <2>1 DEF FindRow, Return
  <2>3. stmt.id \notin 1..AbstractCount[T]
    BY <1>3, <2>1, FoundOffset
  <2> QED
    BY <1>4, <2>2, <2>3
<1>6. CASE ReadRow
  <2> DEFINE i == stmt.offset
  <2>1. i \in DataRows(Lines) /\ RowId(Lines, i) = stmt.id
    BY <1>6 DEF RefinementInv, FollowsRequest, ReadRow
  <2>2. Lines[i] \in Row /\ i <= Len(Lines)
    BY <1>0, <2>1 DEF RefinementInv, FollowsRequest, Lines, DataRows
  <2>3. reply' = [kind |-> "row", table |-> T, id |-> stmt.id, row |-> Lines[i]]
    BY <1>6, <2>2 DEF ReadRow, Return, ReadableAt
  <2>4. stmt.id \in 1..AbstractCount[T]
    BY <1>0, <1>3, <2>1, CountsAll
  <2> HIDE DEF i
  <2>5. <<stmt.id, Lines[i]>> \in AbstractRows[T]
    BY <1>3, <2>1
  <2> QED
    BY <1>4, <2>3, <2>4, <2>5
<1> QED
  BY <1>5, <1>6

\* A scan answers what the list has.
LEMMA ScansTruth ==
  ASSUME RefinementInv, SelectDone
  PROVE  reply' \in Store!Truth
<1>0. TypeInv /\ ScanInv /\ T \in Table
  BY EntryTypes DEF RefinementInv, ScanInv, CursorInv
<1>1. /\ AbstractRequest.op = "select" /\ AbstractRequest.table = T
      /\ AbstractRequest.where = stmt.row
  BY RequestMeans DEF SelectDone
<1>2. AbstractRows[T] = {<<RowId(Lines, i), Lines[i]>> : i \in DataRows(Lines)}
  BY <1>0 DEF AbstractRows, Lines
<1>3. /\ reply' = [kind |-> "rows", table |-> T, where |-> stmt.row, rows |-> stmt.rows]
      /\ file'[T] = Lines
  BY DEF SelectDone, Return, disk, Lines
<1>4. stmt.rows = {<<RowId(Lines, i), Lines[i]>> :
                     i \in {j \in DataRows(Lines) : RowMatches(stmt.row, Lines[j])}}
  <2>1. /\ reply'.kind = "rows" /\ reply'.table = T /\ reply'.where = stmt.row
        /\ reply'.rows = stmt.rows
    BY <1>3
  <2> QED
    BY <1>0, <1>3, <2>1, SelectDoneAgrees DEF SelectAgreesWithFile, ScanInv, CursorInv, SelectDone
<1>5. stmt.rows = {x \in AbstractRows[T] : stmt.row \in {AnyRow, x[2]}}
  <2>1. \A i : <<RowId(Lines, i), Lines[i]>>[2] = Lines[i]
    OBVIOUS
  <2>2. \A x : x \in stmt.rows <=> x \in AbstractRows[T] /\ stmt.row \in {AnyRow, x[2]}
    BY <1>2, <1>4, <2>1 DEF RowMatches
  <2> QED
    BY <2>2
<1>6. Store!Truth = {[kind |-> "rows", table |-> T, where |-> stmt.row,
                      rows |-> {x \in AbstractRows[T] : stmt.row \in {AnyRow, x[2]}}]}
  BY <1>1 DEF Store!Truth
<1> QED
  BY <1>3, <1>5, <1>6

LEMMA RefinesSelect ==
  ASSUME Undisturbed, RefinementInv, TypeInv',
         \/ FindRow \/ ReadRow \/ SelectRow \/ SelectDone \/ SelectRejects \/ SelectFails
  PROVE  Store!Answer \/ UNCHANGED Store!vars
<1>0. TypeInv /\ stmt \in Statement
  BY TypeParts DEF RefinementInv, TypeInv
<1>1. CASE (FindRow \/ ReadRow) /\ pc' = "idle"
  <2>1. pc \in {"find", "read"} /\ file' = file
    BY <1>1 DEF FindRow, ReadRow, disk
  <2> QED
    BY <1>1, <2>1, FindsTruth, Answered DEF Idle
<1>2. CASE FindRow /\ pc' # "idle"
  <2>1. /\ pc = "find" /\ pc' = "read" /\ file' = file /\ reply' = reply /\ T' = T
        /\ stmt'.row = stmt.row /\ stmt'.id = stmt.id /\ stmt'.cont = stmt.cont
    BY <1>0, <1>2 DEF FindRow, Goto, Return, disk, T, Statement
  <2> QED
    BY <1>0, <2>1, Unnoticed DEF Idle, RowInStore
<1>3. CASE SelectRow
  <2>1. /\ pc = "select" /\ pc' = "select" /\ file' = file /\ reply' = reply /\ T' = T
        /\ stmt'.row = stmt.row /\ stmt'.id = stmt.id /\ stmt'.cont = stmt.cont
    BY <1>0, <1>3 DEF SelectRow, disk, T, Statement
  <2> QED
    BY <1>0, <2>1, Unnoticed DEF Idle, RowInStore
<1>4. CASE SelectDone
  BY <1>4, ScansTruth, Answered DEF SelectDone, Return, disk, Idle
<1>5. CASE SelectRejects \/ SelectFails
  BY <1>5, Answered DEF SelectRejects, SelectFails, Return, disk, Idle
<1> QED
  BY <1>1, <1>2, <1>3, <1>4, <1>5 DEF ReadRow, Return

LEMMA RefinesEnvironment ==
  ASSUME Undisturbed, RefinementInv, TypeInv', Environment
  PROVE  (\E r \in Store!Requests : Store!Submit(r)) \/ Store!Answer \/ UNCHANGED Store!vars
<1>0. TypeInv
  BY DEF RefinementInv
<1>1. ASSUME NEW p \in Proc, NEW t \in Table, BeginStatement(p, t)
      PROVE  \E r \in Store!Requests : Store!Submit(r)
  BY <1>0, <1>1, Requested
<1>2. ASSUME NEW p \in Proc, ForceNextRegisterFailure(p) \/ RegistryReset(p)
      PROVE  UNCHANGED Store!vars
  <2>1. file' = file /\ pc' = pc /\ stmt' = stmt /\ reply' = reply
    BY <1>2 DEF ForceNextRegisterFailure, RegistryReset, ClearRegistry, disk
  <2> QED
    BY <2>1, SameRows
       DEF Store!vars, AbstractRequest, AbstractStored, Registering, Idle, T, P
<1>3. CASE Crash
  BY <1>3, Answered DEF Crash, ClearRegistry, Return, disk
<1> QED
  BY <1>1, <1>2, <1>3 DEF Environment

LEMMA RefinesStep ==
  ASSUME Undisturbed, RefinementInv, RefinementInv', [Next]_vars
  PROVE  [Store!Next]_(Store!vars)
<1>0. TypeInv'
  BY DEF RefinementInv
<1>1. CASE Progress
  BY <1>0, <1>1, RefinesRebuild, RefinesInsert, RefinesSelect DEF Progress, Store!Next
<1>2. CASE Failure
  BY <1>0, <1>2, RefinesRebuild, RefinesInsert, RefinesSelect DEF Failure, Store!Next
<1>3. CASE Environment
  BY <1>0, <1>3, RefinesEnvironment DEF Store!Next
<1>4. CASE UNCHANGED vars
  BY <1>4, SameRows
     DEF vars, Store!vars, AbstractRequest, AbstractStored, Registering, Idle, T, P
<1> QED
  BY <1>1, <1>2, <1>3, <1>4 DEF Next

\* Whatever the index does (rebuilt, dropped after a failed registration, lost
\* in a crash), execute_insert, execute_index_select and execute_select behave
\* as a numbered list of rows that only grows.
THEOREM RefinesRowStore ==
  ASSUME Undisturbed, OrderlyFiles
  PROVE  Spec => ImplementsRowStore
<1>1. Init => Store!Init
  BY RefinesInit
<1>2. RefinementInv /\ RefinementInv' /\ [Next]_vars => [Store!Next]_(Store!vars)
  BY RefinesStep
<1> QED
  BY <1>1, <1>2, RefinementInvariant, PTL DEF Spec, ImplementsRowStore, Store!Spec

-----------------------------------------------------------------------------
(***************************************************************************)
(* A row whose INSERT answered ok keeps its id for ever: for any tables    *)
(* and files, across failed statements, rebuilds, resets and crashes.      *)
(***************************************************************************)

\* The row that is about to be registered is the one the INSERT was given, and
\* stands where the INSERT says.
AckedInv ==
  /\ AckedRowsKeepTheirId
  /\ ToRegister => Lines[stmt.offset] = stmt.row

Kept(a, f) == \E i \in DataRows(f) : RowId(f, i) = a[2] /\ f[i] = a[3]

LEMMA AckedInit == Init => AckedInv
BY DEF Init, AckedInv, AckedRowsKeepTheirId, ToRegister

\* A row that is appended moves no other row and renumbers none.
LEMMA KeptByAppend ==
  ASSUME NEW a, NEW f \in Seq(Chunk), NEW c \in Chunk, Kept(a, f)
  PROVE  Kept(a, f \o <<c>>)
<1>1. PICK i \in DataRows(f) : RowId(f, i) = a[2] /\ f[i] = a[3]
  BY DEF Kept
<1>2. i \in Nat /\ i <= Len(f) /\ i \in 1..Len(f) /\ f[i] # Blank /\ i >= 2
  BY DEF DataRows
<1>3. (f \o <<c>>)[i] = f[i] /\ Len(f \o <<c>>) = Len(f) + 1
  BY <1>2
<1>4. i \in DataRows(f \o <<c>>)
  BY <1>2, <1>3 DEF DataRows
<1>5. Count(f \o <<c>>, i) = Count(f, i)
  BY <1>2, CountAppend
<1> QED
  BY <1>1, <1>3, <1>4, <1>5 DEF Kept, RowId, Count, UpTo

\* The only write that happens when nothing is torn or lost.
LEMMA WriteUndisturbed ==
  ASSUME Assumed, [Next]_vars, file' # file
  PROVE  /\ AppendRow /\ stmt.row \in Chunk
         /\ file' = [file EXCEPT ![T] = Lines \o <<stmt.row>>]
<1> USE AssumedTypes
<1>1. ~AppendTorn /\ ~AppendLost
  BY DEF AppendTorn, AppendLost, Assumed, Undisturbed
<1>2. CASE AppendRow
  <2>1. stmt.row \in Row /\ stmt.row \in Chunk /\ stmt.row \notin LongRow
    BY <1>2 DEF Assumed, TypeInv, AppendRow, StatementReady, HasRow, Undisturbed, Chunk
  <2>2. ended[T] \/ WritesLineEnd(T)
    BY DEF WritesLineEnd
  <2> QED
    BY <1>2, <2>1, <2>2 DEF AppendRow, Written, Lines
<1>3. CASE AlreadyLoaded \/ StartRebuild \/ SkipBlank \/ RebuildRow \/ RebuildDone
           \/ RebuildRejects \/ RebuildFails
  BY <1>3 DEF AlreadyLoaded, StartRebuild, SkipBlank, RebuildRow, RebuildDone,
              RebuildRejects, RebuildFails, RebuildAborts, disk
<1>4. CASE GetNextId \/ AppendFails \/ RegisterForcedToFail \/ RegisterRow \/ InsertId
           \/ InsertFails \/ Invalidate
  BY <1>4 DEF GetNextId, AppendFails, RegisterForcedToFail, RegisterRow, InsertId,
              InsertFails, Invalidate, disk
<1>5. CASE FindRow \/ ReadRow \/ SelectRow \/ SelectDone \/ SelectRejects \/ SelectFails
  BY <1>5 DEF FindRow, ReadRow, SelectRow, SelectDone, SelectRejects, SelectFails, disk
<1>6. CASE Environment
  BY <1>6 DEF Environment, BeginStatement, BeginInsert, BeginFind, BeginSelect, Begin,
              ForceNextRegisterFailure, RegistryReset, Crash, ClearRegistry, disk
<1>7. CASE UNCHANGED vars
  BY <1>7 DEF vars
<1> QED
  BY <1>1, <1>2, <1>3, <1>4, <1>5, <1>6, <1>7 DEF Next, Progress, Failure

\* What was kept is kept by every step.
LEMMA KeptByStep ==
  ASSUME Assumed, AckedInv, [Next]_vars, NEW a \in acked
  PROVE  Kept(a, file'[a[1]])
<1> USE AssumedTypes
<1>1. a[1] \in Table
  BY TypeParts DEF Assumed, TypeInv, AckType
<1>2. Kept(a, file[a[1]]) /\ file[a[1]] \in Seq(Chunk)
  BY <1>1 DEF AckedInv, AckedRowsKeepTheirId, Kept
<1>3. CASE file' = file
  BY <1>2, <1>3
<1>4. CASE file' # file
  <2>1. stmt.row \in Chunk /\ file' = [file EXCEPT ![T] = Lines \o <<stmt.row>>]
    BY <1>4, WriteUndisturbed
  <2>2. CASE a[1] = T
    <3>1. file[a[1]] = Lines /\ file'[a[1]] = Lines \o <<stmt.row>>
      BY <2>1, <2>2 DEF Lines
    <3> QED
      BY <1>2, <2>1, <3>1, KeptByAppend
  <2>3. CASE a[1] # T
    BY <1>1, <1>2, <2>1, <2>3
  <2> QED
    BY <2>2, <2>3
<1> QED
  BY <1>3, <1>4

\* A row that is acknowledged is where its id says.
LEMMA KeptByInsert ==
  ASSUME Assumed, AckedInv, InsertId
  PROVE  Kept(<<T, stmt.id, stmt.row>>, Lines)
<1> USE AssumedTypes
<1> DEFINE n == Len(Lines) - 1
<1>1. AllButLast /\ Lines[stmt.offset] = stmt.row
  BY DEF InsertId, ToRegister, Assumed, IndexInv, AckedInv
<1>2. /\ n \in Nat /\ n + 1 = Len(Lines) /\ n + 1 \in DataRows(Lines)
      /\ stmt.id = Count(Lines, n) + 1 /\ stmt.offset = n + 1
  BY <1>1 DEF AllButLast
<1> HIDE DEF n
<1>3. RowId(Lines, n + 1) = stmt.id
  BY <1>2, CountNext DEF RowId, Count, UpTo
<1> QED
  BY <1>1, <1>2, <1>3 DEF Kept

\* From its write to its registration an INSERT keeps its row and offset.
LEMMA RowStays ==
  ASSUME Assumed, AckedInv, [Next]_vars, ToRegister'
  PROVE  (Lines[stmt.offset] = stmt.row)'
<1> USE AssumedTypes
<1>1. CASE AppendRow
  <2>1. stmt.row \in Chunk /\ file' = [file EXCEPT ![T] = Lines \o <<stmt.row>>]
    <3>1. stmt.row \in Row /\ stmt.row \in Chunk /\ stmt.row \notin LongRow
      BY <1>1 DEF Assumed, TypeInv, AppendRow, StatementReady, HasRow, Undisturbed, Chunk
    <3>2. ended[T] \/ WritesLineEnd(T)
      BY DEF WritesLineEnd
    <3> QED
      BY <1>1, <3>1, <3>2 DEF AppendRow, Written, Lines
  <2>2. stmt'.offset = Len(Lines) + 1 /\ stmt'.row = stmt.row /\ T' = T
    BY <1>1 DEF AppendRow, WritesLineEnd, Statement, T
  <2>3. Lines' = Lines \o <<stmt.row>>
    BY <2>1, <2>2 DEF Lines
  <2>4. (Lines \o <<stmt.row>>)[Len(Lines) + 1] = stmt.row
    BY <2>1
  <2> QED
    BY <2>2, <2>3, <2>4
<1>2. ASSUME ToRegister, stmt'.row = stmt.row, stmt'.offset = stmt.offset, T' = T, file' = file
      PROVE  (Lines[stmt.offset] = stmt.row)'
  BY <1>2 DEF AckedInv, Lines
<1>3. CASE AlreadyLoaded
  <2>1. stmt' = stmt /\ file' = file /\ T' = T
    BY <1>3 DEF AlreadyLoaded, disk, T
  <2>2. ToRegister
    BY <1>3, <2>1 DEF AlreadyLoaded, Goto, ToRegister, Statement, Conts
  <2> QED
    BY <1>2, <2>1, <2>2
<1>4. CASE RegisterRow
  <2>1. stmt'.row = stmt.row /\ stmt'.offset = stmt.offset /\ T' = T /\ file' = file /\ ToRegister
    BY <1>4 DEF RegisterRow, disk, T, Statement, ToRegister
  <2> QED
    BY <1>2, <2>1
<1>5. CASE UNCHANGED vars
  BY <1>2, <1>5 DEF vars, ToRegister, T
<1>6. CASE RebuildDone
  BY <1>6 DEF RebuildDone, Goto, ToRegister, Statement, Conts, Assumed, StaysLoaded, IndexInv,
              HalfRebuilt
<1>7. CASE StartRebuild \/ SkipBlank \/ RebuildRow \/ RebuildRejects \/ RebuildFails
  BY <1>7 DEF StartRebuild, SkipBlank, RebuildRow, RebuildRejects, RebuildFails, RebuildAborts,
              Goto, Return, ToRegister
<1>8. CASE GetNextId \/ AppendFails \/ AppendTorn \/ AppendLost \/ RegisterForcedToFail
           \/ InsertId \/ InsertFails \/ Invalidate
  BY <1>8 DEF GetNextId, AppendFails, AppendTorn, AppendLost, RegisterForcedToFail,
              InsertId, InsertFails, Invalidate, Goto, Return, ToRegister, Assumed, Undisturbed
<1>9. CASE FindRow \/ ReadRow \/ SelectRow \/ SelectDone \/ SelectRejects \/ SelectFails
  BY <1>9 DEF FindRow, ReadRow, SelectRow, SelectDone, SelectRejects, SelectFails, Goto, Return,
              ToRegister
<1>10. ASSUME NEW p \in Proc, NEW t \in Table, BeginStatement(p, t)
       PROVE  FALSE
  BY <1>10, NoStmtType
     DEF BeginStatement, BeginInsert, BeginFind, BeginSelect, Begin, NoStmt, ToRegister
<1>11. ASSUME NEW p \in Proc, ForceNextRegisterFailure(p) \/ RegistryReset(p)
       PROVE  FALSE
  BY <1>11 DEF ForceNextRegisterFailure, RegistryReset, Idle, ToRegister
<1>12. CASE Crash
  BY <1>12 DEF Crash, Return, ToRegister
<1> QED
  BY <1>1, <1>3, <1>4, <1>5, <1>6, <1>7, <1>8, <1>9, <1>10, <1>11, <1>12
     DEF Next, Progress, Failure, Environment

\* Only the end of an INSERT acknowledges.
LEMMA OnlyInsertAcknowledges ==
  ASSUME [Next]_vars, acked' # acked
  PROVE  InsertId
<1>1. ~AlreadyLoaded /\ ~StartRebuild /\ ~SkipBlank /\ ~RebuildRow /\ ~RebuildDone
      /\ ~RebuildRejects /\ ~RebuildFails
  BY DEF AlreadyLoaded, StartRebuild, SkipBlank, RebuildRow, RebuildDone, RebuildRejects,
         RebuildFails, RebuildAborts
<1>2. ~GetNextId /\ ~AppendRow /\ ~AppendFails /\ ~AppendTorn /\ ~AppendLost
      /\ ~RegisterForcedToFail /\ ~RegisterRow /\ ~InsertFails /\ ~Invalidate
  BY DEF GetNextId, AppendRow, AppendFails, AppendTorn, AppendLost, RegisterForcedToFail,
         RegisterRow, InsertFails, Invalidate
<1>3. ~FindRow /\ ~ReadRow /\ ~SelectRow /\ ~SelectDone /\ ~SelectRejects /\ ~SelectFails
  BY DEF FindRow, ReadRow, SelectRow, SelectDone, SelectRejects, SelectFails
<1>4. ~Environment
  BY DEF Environment, BeginStatement, BeginInsert, BeginFind, BeginSelect, Begin,
         ForceNextRegisterFailure, RegistryReset, Crash, ClearRegistry
<1>5. acked' # acked => ~UNCHANGED vars
  BY DEF vars
<1> QED
  BY <1>1, <1>2, <1>3, <1>4, <1>5 DEF Next, Progress, Failure

LEMMA AckedStep ==
  ASSUME Assumed, AckedInv, [Next]_vars
  PROVE  AckedInv'
<1>1. ASSUME NEW a \in acked'
      PROVE  Kept(a, file'[a[1]])
  <2>1. CASE a \in acked
    BY <2>1, KeptByStep
  <2>2. CASE a \notin acked
    <3>1. InsertId
      BY <1>1, <2>2, OnlyInsertAcknowledges
    <3>2. a = <<T, stmt.id, stmt.row>> /\ file' = file
      BY <1>1, <2>2, <3>1 DEF InsertId, disk
    <3>3. Kept(a, Lines) /\ file'[a[1]] = Lines
      BY <3>1, <3>2, KeptByInsert DEF Lines
    <3> QED
      BY <3>3
  <2> QED
    BY <2>1, <2>2
<1>2. AckedRowsKeepTheirId'
  BY <1>1 DEF AckedRowsKeepTheirId, Kept
<1>3. ToRegister' => (Lines[stmt.offset] = stmt.row)'
  BY RowStays
<1> QED
  BY <1>2, <1>3 DEF AckedInv

\* docs/requirements.md:157 for the undisturbed program: the id an INSERT was
\* acknowledged with finds its row after any later rebuild.
THEOREM AckedRowsKept ==
  ASSUME Undisturbed
  PROVE  Spec => []AckedRowsKeepTheirId
<1>1. (TypeInv /\ StaysLoaded /\ IndexInv) /\ AckedInv /\ [Next]_vars => AckedInv'
  BY AckedStep DEF Assumed
<1>2. AckedInv => AckedRowsKeepTheirId
  BY DEF AckedInv
<1> QED
  BY <1>1, <1>2, AckedInit, IndexInvariant, PTL DEF Spec
=============================================================================
