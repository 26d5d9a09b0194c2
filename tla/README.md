# Verification of the file-backed SQL processor

This directory holds TLA+ models of the SQL processor in this repository, the TLC
configurations that check them, and proofs for TLAPS. Paths such as `executor.c:226` are
below `src/` of the repository.

The program takes one SQL statement at a time, `INSERT` or `SELECT`, from a prompt, a file or
the command line. A table is a CSV file that only grows. The CSV does not hold the hidden
primary key: a row's id is its rank among the data rows, and an in-memory B+ tree per table
maps ids to the byte offsets at which rows begin. Whether that index agrees with the file is
what most of this development is about.

## Inventory

| Component | State it keeps | Operations | What makes it correct |
|---|---|---|---|
| statement execution, `execution/executor.c` | local variables of one statement | INSERT; SELECT by id; SELECT by scan | both SELECT paths number rows alike; an acknowledged row keeps its id; a failed statement leaves a usable index |
| index registry, `index/table_index.c` | one entry per data file: loaded, tree, next_id; a test hook | ensure_loaded and rebuild, get_next_id, register_row, find_row, invalidate, reset | a loaded entry is what a scan of the file would build |
| B+ tree, `index/bptree.c` | nodes on the heap | insert, search, init, free | it is a map, it stays balanced and sorted, and it releases what it allocated |
| CSV storage, `storage/storage.c` | none; the files | append, read at an offset, scan, escape, parse | what is written can be read back; offsets are row starts |
| schema catalog, `storage/schema.c` | none; the files | load_schema, which searches, reads and validates | the schema belongs to the name asked for and fits its data file |
| SQL lexer, `sql/lexer.c` | index, token array, buffer of a literal | lex_sql, free_token_array | the tokens spell the text; a wrong text is refused; buffers hold what is written |
| SQL parser, AST, `sql/parser.c`, `sql/ast.c` | position, syntax tree | parse_statement, free_statement | accepts exactly the grammar and never reads behind the last token; releases what a failed parse allocated |
| command line and prompt, `app/main.c` | arguments, input buffer, exit code | choose a source of SQL, read it, run it, reset | what runs is what was named; the exit code tells failures; one failed input does not end a session |
| benchmark, `benchmark/benchmark_main.c` | rows inserted, queries answered | prepare, query-only | a prepare leaves exactly its data set; both kinds of query find the same record with an index of this file |
| utilities, `common/util.c` | none | strings, lists, paths, integers | small pure functions |

Interaction: `main.c` lexes and parses a text and calls `execute_statement`; `executor.c` loads
the schema, then asks the registry for an id or an offset; the registry scans the file through
a callback (`rebuild_row`) into a tree; `executor.c` appends to the file and afterwards
registers the row. There are no threads. What is hard is the order of these steps and their
failures: every step may fail (a file operation, an allocation), the process may be killed in
the middle, the prompt may stay open while another process of the same program appends to the
same file, and users edit CSV and meta files by hand. `PROJECT.json` lists the hazards with
their lines.

## Modules

`IndexedTable` is the core. It models the INSERT and the two SELECT paths of `executor.c`, the
whole registry and the file operations of `storage.c`, one action per step that reads or
changes shared state.

* `file` is the CSV as the sequence of chunks that `fgets(line, 4096)` returns; `ended` says
  whether it ends in a line end. A chunk is a row that fits the schema, a row with another
  number of fields, a line that does not parse, an empty line, or the header. An offset is a
  position in the sequence. `LongRow` are rows of 4096 bytes and more, which come back in two chunks.
* `loaded`, `next_id`, `tree` are the fields of `TableIndex`, for each process and table. `tree` is
  a function from ids to offsets: what `BPlusTree` implements. `force` is the test hook.
* `pc` and `stmt` are the running statement. An INSERT goes through *ensure, scan, getId,
  append, register, ensure, insert*; a failed registration goes to *invalidate*. A SELECT by id
  goes through *ensure, scan, find, read*; another SELECT is *select*.
* `acked` is a history of the INSERTs that answered ok.
* Failures are actions of their own: a rebuild that stops, an append that fails before, during
  (`AppendTorn`) or after (`AppendLost`) writing, a tree insertion without memory, a failed
  read or output. `Crash` kills the process that runs the statement.
* `Torn`, `LostFlush` and `LongRow` switch the faults on that the code does not recover from.

`RowStore` is what the tables promise: a numbered list of rows to which an INSERT adds its row
once, and true answers. `IndexedTableRefinement` maps `IndexedTable` to it: the list is the
data rows of the file, the request is the running statement.

`BPlusTree` models the tree node by node. An insertion descends and pushes its callers on
`path`; a split hands `[promoted, right]` to its caller, which absorbs it and may split in
turn. `calloc` may fail wherever a node is created. After that failure the caller frees the
tree (`table_index.c:145`, `executor.c:227`), so the model lets only `FreeTree` follow.
`IdMap` is what the tree promises, and `ImplementsIdMap` the refinement. `IndexedTable` uses
the promise: its `WithEntry` is `IdMap`'s insertion, its `InsertFails` the unspecified map that is
left when there is no memory.

`CsvLine` models `csv_escape_field` and the writing loop as operators, and `csv_parse_line` as a
state machine that takes one character a step. Characters are classes: quote, comma, blank,
carriage return, others. `IndexedTable` relies on it: a row that INSERT writes is never a line
that does not parse.

`SchemaCatalog` models `load_schema`: the exact file name, otherwise the directory in any
order, the second opening of the chosen file, its lines, the checks, and the comparison with
the CSV header. Users replace files at any moment and change who may list the directory
(`listed`); a name in `TooLong` is longer than a file name may be, which `fopen` does not report
as a missing file. `OutOfResources` is everything else that may fail at any step.

`SqlLexer` models `lex_sql`, one character or one token a step. Characters are classes, an index
counts from 0 as in the source, and the end of the text is the terminator that the code
compares with. `slots` and `capacity` are the sizes of the token array and of a literal's buffer,
which grow by doubling; `live` counts the blocks that are allocated.

`SqlParser` models `parse_statement` as a recursive descent flattened into `pc`, the token or
construct it expects next. A token is chosen when it is first looked at, so that all token arrays
the lexer can produce are read without being enumerated; none has anything behind its `END`. Texts are compared
without case in the code, so one word stands for all its spellings. Keywords are not reserved: a
column may be called `from`; `NameWords` bounds which words are tried where a name or a value stands. `identifier`, `statement`
and `slots` are what the parser and the tree own.

`InsertBinding` and `SelectBinding` model what `execute_insert` and `execute_select` do with a parsed
statement and a loaded schema: the checks, the row in the schema's order, the list of output
columns, the filter, the path by id and the scan of the lines. `held` names everything
allocated or opened; where the code forgets something (`FindFails`, `GetIdFails`, `ScanRefuses`) it
stays there. The index and the file only answer here; they are `IndexedTable`'s. Two
details of the source matter: `selected_indexes` has a fixed size, which `overran` watches, and
the place of a column may be none, which the source writes -1 and the models 0.

`StatementStages` holds the four machines of a statement, lexer, parser and the two bindings,
next to each other: `stage` says which one a behaviour belongs to, and they share variables as
their loops share the names `index`, `tokens`, `schema`. Each starts from whatever the one before it may
hand over, so that none waits for another. Its properties are those of the stages, put together
by what they promise.

`CommandLine` models the program from `main` to its exit code: options, the three-fold look-up that
decides whether a word is a path or SQL (`fopen`, `stat`, `fopen`), measuring and reading a file,
standard input, the prompt, and each text on its way through lexer, parser and executor, which
answer ok or fail; `Lost` stands for what they forget when they fail. One word may name a file; the file may be missing, locked, a directory, something that is
neither, or undecidable, and others may edit it between any two steps. `typed`, `seen` and `answers` are histories.

`Benchmark` extends `IndexedTable`: its INSERTs and SELECTs are that module's statements, and its
own actions replace the file (`WriteHeader`), reset the registry and count. Between two runs the process may
take any other statement, as the tests do, and it may be killed at every step.

`MC<Module>` defines the constants of a module for TLC.
The proofs are in modules of their own, `<Module>Proofs`. `IndexedTableProofs` holds those of the table and of its
refinement, and `BenchmarkProofs` extends it; `StatementStagesProofs` holds those of the bindings, the lexer, the
parser and of `StatementStages`, in this order. `SequenceLemmas` has what several of them need: induction over a set of
numbers, and the laws of concatenation and of `FlattenSeq`.

## Runs

| Run | Checks | Bounds |
|---|---|---|
| `table_clean` | `TypeOK`, `IndexMatchesFile`, `NewIdIsNext`, `AckedRowsKeepTheirId`, `ImplementsRowStore` | two tables, one process, two rows; no INSERT begins on a file of 3 chunks or with `next_id` above 2 |
| `table_faults` | `SelectAgreesWithFile`, `RegisterNeverRebuilds`, `IndexIsDense`, `RebuildMatchesFile`, `FileOnlyGrows`, `StatementReturns` | one table, two processes, damaged files, torn and lost and over-long rows, up to 3 chunks |
| `table_torn`, `table_long_row` | one property each, which is violated | one table, one process, one fault |
| `btree` | `TypeOK`, `Balanced`, `KeysAscend`, `FreeReachesOnce`, `CallReturns`, `ImplementsIdMap` | every order of 10 ids, three keys a node, `calloc` failing anywhere |
| `csv_line` | `TypeOK`, `WrittenRowComesBack`, `CommasSeparate` | values up to 3 characters (2 when the row has two fields), typed lines up to 5 |
| `csv_blanks` | `RowComesBack`, which is violated | values up to 2 characters |
| `schema` | `AnswerFitsRequest`, `AnswerMatchesCatalog` | two files, eight contents, four names of which one is too long, any edits |
| `stages` | `TypeOK`, `AccessesStayInBounds`, `OnlyWrongIsRefused`, `OnlyKnownLosses`, `TokensSpellInput`, `TreeSaysWhatIsWritten`, `StoredRowIsWhatWasNamed`, `AnswerIsTheQuery`, `StagesReturn` | every text up to 5 characters of six classes; token arrays up to 16; INSERTs with lists up to 3 against schemas of one and two columns; SELECTs with lists up to 3 and every filter on six tables; first sizes of arrays and buffers 1 and 2 |
| `select_overrun` | `EveryColumnHasASlot`, which is violated | SELECTs with lists up to 2 |
| `command_line` | `ExitTellsFailure`, `RunsWhatWasNamed`, `OnlyLossesStayBehind`, `RefusedPathExists`, `ProgramEnds` | three arguments, two lines, one edit of the file, two chunks of standard input |
| `benchmark` | `PreparedIsDataSet`, `RunSeesItsFile`, `QueriesFindTheSame`, `RunsEnd` | runs of one and three rows, two repetitions |

What the less obvious properties say:

* `ImplementsRowStore`: with index, rebuilds, failures and crashes, a table behaves like a numbered
  list to which an INSERT adds once, and every answer is true of that list.
* `RebuildMatchesFile`, `SelectAgreesWithFile`: after any fault whatever, a rebuild gives the index the file
  describes, and a scan tells the truth about the file.
* `FreeReachesOnce`: whatever failed, freeing the tree visits no node twice and each node but the
  right half of a root that found no new root above it.
* `WrittenRowComesBack`: a line that INSERT wrote is never refused and its fields come back, but for the
  outer blanks of values written without quotes.
* `AnswerMatchesCatalog`: while nobody edits, the schema handed out, or the refusal, is what the
  directory as a whole says, in whatever order it is listed. A file or a directory that cannot be opened
  is an excuse only where the code has to look at it.
* `AccessesStayInBounds`: the lexer's buffers, the parser's token array, and, by id and in a scan, the places of a row that
  a SELECT reads to filter, to show and to draw. Writes behind `selected_indexes` are left out of it: it says
  when they happen, and claims nothing of what follows one.
* `OnlyWrongIsRefused`: a text, a token array or a statement that is refused is wrong. For the
  lexer the converse is exact too: with an odd number of quotes only two forms are accepted.
* `OnlyKnownLosses`: what every stage leaves allocated after every failure, and that it is nothing but the
  losses listed below.
* `OnlyLossesStayBehind`: at the prompt and at the exit only the losses of texts that failed are held, and main
  has given back its own.
* `TreeSaysWhatIsWritten`: the tokens a successful parse has read are the statement's text, written out from
  the tree.
* `RunsWhatWasNamed`: the text that runs for a file name is what the file held while it was looked at, although it is
  opened, looked up, opened again and measured, and others may change it in between.
* `RunSeesItsFile`: no statement of a benchmark run works with an index of the rows that `prepare` threw away.

Why these bounds are enough: the steps of a statement look at one chunk, one entry and one
other statement's leftovers at a time, and files of three chunks hold an old row with a
blank line, a damaged line or an unregistered row, and a new one. Files and ids stay within
`MaxChunks` and `MaxId`, the only bounds in the guards; both guard only the beginning of an
INSERT, so no started statement is cut off. Ten ids fill a tree of three levels in many orders
and split inner nodes. Five characters are enough for an opening quote, a doubled quote, a
closing quote and what follows it. Sixteen tokens hold an INSERT with three columns and three
values, and a list grows twice on the way to three items; the first sizes are small so that growing happens.
Every place at which such a statement can be cut off is reached. Two columns of a schema can
repeat, miss and cross over, and lists of three can name one that does not exist or one twice; three arguments are
one more than any form the program accepts; one edit can come between any two of the steps that
look at the file, and two lines show that a session goes on. `MaxTokens`, `MaxArguments`,
`MaxLines`, `MaxChunks` and `MaxEdits` are the bounds in the guards of these modules: they end
an input, never a step that answers it. `NameWords` keeps one keyword and one other word as
names: the parser tells names apart only by whether they are a keyword it looks for. Two prepares
of different sizes overwrite each other in both orders. No symmetry is used.

Deadlock is checked in the runs of `IndexedTable`, `BPlusTree` and `SchemaCatalog`, whose machines
take one request after another. It is not checked where a machine returns once and stops:
`CsvLine`, `StatementStages` and `CommandLine`. `Benchmark` may really stop: after a header that could
not be written no statement loads the table, and every further prepare fails in the same way.

Fairness. The modules with a liveness property assume weak fairness of the steps the code takes
when nothing fails: the program is sequential code and keeps running. Nothing is assumed of
failures, crashes, users or new statements. `StatementReturns`, `CallReturns`, `StagesReturn` and
`ProgramEnds` rest on it. For `ProgramEnds` the end of standard input is one of the steps: a user
who keeps typing keeps the session open, and `MaxLines` ends it. `Benchmark` assumes weak fairness
of its own steps and of the steps and failures of the statement it waits for; `RunsEnd` rests on
both.

### What the violated runs show

* `table_torn`. A write error after some of a row leaves a partial row in the file and the
  index loaded (`storage.c:287-301`, `executor.c:216-220`). Later rows get ids that change at the
  next rebuild. A failed registration is handled with an invalidation, this failure is not.
* `table_long_row`. INSERT accepts a row of any length; every reader uses a buffer of 4096
  bytes and takes a longer row for several (`storage.c:382`, `executor.c:683`).
* `csv_blanks`. A value with outer blanks and no comma or quote loses them
  (`storage.c:124` against `:180-191`).
* `select_overrun`. `selected_indexes` has a slot per column of the schema (`executor.c:606`), a
  statement may list more, as the README's own example with `id` and all columns does.

Other departures from what a document or a comment says are written into the properties or
allowed for in a model, and have no run of their own:

* A short row is still in the stdio buffer when `fclose` runs, and what that returns is not looked at
  (`storage.c:306`): when the write fails then, the INSERT answers ok and registers a row that is not in the file.
  `LostFlush` switches this on. `IndexMatchesFile` does not hold with it, so `table_clean` has it off;
  `table_faults` has it on.
* Without memory for a new root, the right half of the old root is lost (`bptree.c:360-364`);
  `FreeReachesOnce` allows exactly this. The index itself recovers, because the caller drops the tree.
* Whether a literal was closed is decided by the character before the index (`lexer.c:174`), which
  may be the second half of a doubled quote or the opening quote: `'abc''` and a single `'` are
  accepted. `RefusedForCause` of `SqlLexer` says which texts are.
* `fopen` opens a directory on Linux, so the refusal written for directories (`main.c:103`) is not
  reached for those that may be read, and reading one fails later. `DirectoriesOpen` chooses.
* A copy that fails (`main.c:330`) leaves the message that is printed unwritten.
* At the prompt a statement is first looked up as a path. Longer than a file name may be and
  without a slash, it gives `ENAMETOOLONG`, which is none of the errors that mean "not a path"
  (`main.c:135`). `RefusedPathExists` allows it for `LongWords`.
* For a table whose first column is `age` the benchmark's generated values repeat
  (`benchmark_main.c:68`), so that a query by value finds more than one by id. The run generates distinct rows.
* What is allocated is lost in four places. A scan that ends at a wrong row forgets the rows it has collected
  (`executor.c:690-708`), and so does a SELECT by id whose row cannot be copied (`executor.c:554`). Of a line that
  cannot be parsed to its end the fields parsed so far are not freed, in a rebuild and at an offset
  (`storage.c:393`, `:344`; `executor.c:202`, `:522`, `:541`). The tokens of a text that fails in the lexer are not freed
  (`main.c:399`). `OnlyKnownLosses` allows exactly these. What a failed
  `load_schema` or a tree insertion may lose is outside of the stages; `OnlyLossesStayBehind` counts it among what a failed statement
  leaves.
* A table whose name is longer than a file name may be is refused although a meta file declares it, since
  `fopen` then fails with another error than a missing file has (`schema.c:188`). `Searches` says so.

`table_faults` shows what still holds in spite of these: a scan always tells what the file
says, a rebuild always repairs the index, ids have no gaps, files only grow.

With two processes, a loaded index does not see what the other process appended. No document
speaks of several processes, so there is no run for it; `IndexMatchesFile` and `NewIdIsNext`
are checked and proved for one process.

## Proofs

All proofs hold for every value of the constants: any tables, rows, texts, token arrays, schemas and files of any
length, and, where nothing else is said, any number of processes and every fault. Every constant
that bounds a run (`MaxId`, `MaxChunks`, `MaxTokens`, `MaxArguments`, `MaxLines`, `MaxEdits`) may be any
number. Four assumptions occur beyond the `ASSUME`s of the modules, each named where it is used:

* `Undisturbed` is one process, `Torn = {}`, `LostFlush = FALSE`, `LongRow = {}`: exactly what takes the
  index away from its file, as the violated runs and the remarks above show.
* `OrderlyFiles` says that no line misfits the schema when the program starts.
* `FlushesWork` is `~LostFlush`: an INSERT whose last write fails unnoticed leaves a prepare one row short.
* `RowsDiffer` says that the benchmark's generated rows differ, which the table whose first column is `age` does not give.

Each proof of `[]Inv` has the same shape: an inductive invariant, for the most part checked by TLC on the instance of
the run before it was proved, one lemma per action or per kind of action, and a last temporal step.
Every safety property that a passing run checks is stated by one of these theorems.

Induction over data. The library's induction theorems take an operator as a parameter, which the installed provers
cannot instantiate. `SequenceLemmas` therefore states induction for a set: `SetInduction` says that a set which holds 0
and with each number the next one holds all of `Nat`. It follows from `LeastMember`, which the library's
theorems on well-founded relations give without such a parameter. A statement about every length is then one about the set of lengths for which it
holds. `FlattenSeqIs` derives in this way what `FlattenSeq` is: nothing for no parts, and one part more at
a time; `FlattenByParts` gives the same for the recursive functions of the models (`Doubled` of
`SqlLexer`, `DataRows`). `FlattenLayout` then says where each part stands in the whole: behind the parts before it, character by character.

For the tree, whose invariant says that two functions exist, TLC was given them: the heights, and the regions
computed from the separators.

Statements and index (`IndexedTableProofs`):

* `TypeCorrect`: `Spec => []TypeOK`. `TypeOK` is not inductive: the id of a row that is registered
  comes from `next_id`, and the offset from the cursor of a scan. `TypeInv` adds what the cursor,
  the counter and the id are at each `pc` (`StatementReady`).
* `RegisterFindsIndexLoaded`: `Spec => []RegisterNeverRebuilds`. The strengthening `StaysLoaded`
  says that the index of a running INSERT is loaded from *getId* on. No failure between
  *getId* and *insert* unloads it, and only the running statement could.
* `FilesAreAppendOnly`: `Spec => FileOnlyGrows`, by the type invariant; it needs the line end that
  `append_row_csv` adds before it writes.
* `ScanTellsTheTruth`: `Spec => []SelectAgreesWithFile`. `ScanInv` says what a SELECT has collected
  when its cursor is at a position (`HalfSelected`), what the tree holds in the middle of a rebuild
  (`HalfRebuilt`: exactly the rows before the cursor, and the counter is one more than their number), and
  that a running statement has not answered, so that no file changes under an answer.
* `RebuildRepairs`: `Spec => RebuildMatchesFile`. Only the end of a rebuild marks an index as loaded
  (`OnlyRebuildLoads`), and there the cursor of `HalfRebuilt` is behind the last line.
* `IndexStaysDense`: `Spec => []IndexIsDense`. `DenseInv` adds that no offset is behind the place where the next
  row goes, and that a running INSERT holds the next id and an offset that is not before any other
  (`Registrable`). Both survive torn, lost and over-long rows and other processes, since files only grow.
* `IndexAgrees`: under `Undisturbed`, `Spec => []IndexMatchesFile`. `IndexInv` says that a loaded index
  matches the file unless an INSERT is registering (`Registered`), and that it then matches all rows but
  the last, whose id and offset the statement holds (`AllButLast`). The lemmas before it say what
  counting the data rows up to a position does when a blank line or a row is passed and when a
  row is appended.
* `NewIdCorrect`: under `Undisturbed`, `Spec => []NewIdIsNext`, from the same invariant.
* `AckedRowsKept`: under `Undisturbed`, `Spec => []AckedRowsKeepTheirId`. `AckedInv` adds that the row a running
  INSERT is about to register stands at its offset; appending moves and renumbers nothing.
* `RefinesRowStore`: under `Undisturbed` and `OrderlyFiles`, `Spec => ImplementsRowStore`. `RefinementInv` is the
  invariants above and `FollowsRequest`: a SELECT by id uses a loaded index, and reads at the
  offset of the row whose rank is its id. One lemma for each kind of step shows that it submits,
  stores, answers with a `Truth`, or shows nothing (`Unnoticed`). That a file's ids are 1, 2, ... without a
  gap (`CountsAll`) follows from counting: different rows have different ids, all of them up to their number.

B+ tree (`BPlusTreeProofs`). The properties speak of what is below a node and of how high it is, by recursion over the
nodes; nothing recursive can be inductive for these provers. `TreeInv` therefore says that two functions exist on the nodes, a
height `h` and a region `R`, the keys whose descent comes to the node, and relates a node to its children only
(`Shape`): a child is one lower and owns its parent's region between the separators beside it (`KidsOK`),
nodes of one height share no key (`Apart`), every node but the root is linked (`AllLinked`), nodes are at least half
full (`NodeOK`), and between the regions of a leaf and its `next` there is no other leaf (`NextOK`). In the middle of an insertion three
places differ: the node with a key too many, the right half that nobody points to yet, and the link that stands for
it as well (`Over`, `Orphan`, `OpenLink`); `Stack` ties the callers on `path` to the heights, and `Wreck` is
what a failed allocation leaves. A split divides the region of a node at the promoted key (`Splits`), which is
proved once for leaves and inner nodes.

* `TreeInvariant`: `Spec => []TreeInv`, one lemma for each action.
* `TreeTyped`: `Spec => []TypeOK`, with the one slot that each array has to spare.
* `TreeIsMap`: `Spec => ImplementsIdMap`. Since leaves share no key, the entries are the graph of a function, and
  the leaf a descent ends in has a key if any leaf has it: so an insertion, a refusal and an answer are `IdMap`'s, and
  every split is a stutter.
* `TreeBalanced`, `TreeSorted`, `TreeFreed`: `Spec => []Balanced`, `[]KeysAscend`, `[]FreeReachesOnce`. Here the recursive
  functions come in: `SubtreeOf` and `HeightIs` show by induction on `h`, a least counterexample, that
  `Subtree` and `Height` satisfy their equations on a sound tree.

Schema catalog (`SchemaCatalogProofs`):

* `SchemaFitsRequest`: `Spec => []AnswerFitsRequest`. `Checked` says that a schema whose columns are
  being compared with the data file is complete and was found valid; edits of the files do not reach it.
* `CatalogAnswered`: `Spec => []AnswerMatchesCatalog`. `CatalogInv` describes a search on its way, as long as
  nobody has edited: the entries that were passed neither declare the name nor could not be opened, the
  file that is read is a candidate, and the lines that were read say what the file says up to there.

Stages of a statement (`StatementStagesProofs`). `StagesInv` has one part per stage; a step of one stage leaves the others alone
because `stage` never changes. For each stage there are two invariants: what it holds and where it is (`LexInv`, `ParseInv`,
`InsertInv`, `SelectInv`), and what it has made of its input so far (`LexText`, `ParseStands`, `SelectAnswer`).

* `StagesTyped`: `Spec => []TypeOK`.
* `AccessesInBounds`: `Spec => []AccessesStayInBounds`. For the lexer, a literal's characters and its
  terminator fit the buffer also when it has just not been grown; for the parser, `END` is the last token and no
  rule has gone past it; for a SELECT, every place that is read was found in the schema, and the row was counted, before it is read.
* `LossesAreKnown`: `Spec => []OnlyKnownLosses`. The invariants say at each `pc` which blocks, copies and handles
  are held, so that each failure can be compared with what it gives back.
* `NamedRowStored`: `Spec => []StoredRowIsWhatWasNamed`. `InsertInv` says which columns `Assign` has filled after each step, and that
  the columns of the statement are as many as the schema's and different: so none is left (a counting
  argument on finite sets).
* `TokensAreTheText`: `Spec => []TokensSpellInput`. `LexTokens` says it of the tokens pushed so far: each is spelled at its
  position, and between the end of one and the start of the next there are blanks only. `LexPlace` says what the text
  behind the last token may be, and that the piece of a literal read so far is the opening quote and the buffer with its
  quotes doubled again.
* `TreeIsTheStatement`: `Spec => []TreeSaysWhatIsWritten`. `ParseStands` gives, for every place of the grammar, how many tokens were read and what
  they are, as a function of how many columns and values have been collected: in an INSERT with `m` columns the column `i` is token
  `2i + 3` and the value `j` token `2m + 2j + 5` (`InsertRead`); for a SELECT see `SelectRead`. At the end this list is the statement
  written out from the tree, part by part.
* `AnswerIsRight`: `Spec => []AnswerIsTheQuery`. The id that the scan counts is the rank of the line it has come to
  (`Ranks`), and the rows collected are those that pass the filter below that rank (`ShownBelow`). That one read at an offset
  finds the same row by id follows from the layout of the data rows.
* `WrongIsRefused`: `Spec => []OnlyWrongIsRefused`. For the lexer, the parity of the quotes read says whether a literal is open
  (`LexQuotes`), except at a quote that ends the text. For the parser, "nothing could complete the tokens read" is proved from
  the other end: in every statement of the language that begins with these tokens, the next token fits the place the parser is at
  (`FitsAt`; `InsertFollows`, `SelectFollows`), and a place refuses only a token that does not fit. That a list of the
  statement ends where the parser saw it end is `ListEnds`. For the bindings, each refusal is compared
  with the schema.

The line of a table file (`CsvLineProofs`). A value that INSERT writes between quotes is spelled by doubling its quotes, and so
the place of each of its characters in the line is known by `Layout`. The invariants say, for the written line and for the line that was
typed, which part of which field the cursor stands in and that the fields so far, and the buffer, are what was written up to there. The
assumption is that quote, comma, blank, carriage return and the other characters are different.

* `TypeCorrect`: `Spec => []TypeOK`.
* `RowsComeBack`: `Spec => []WrittenRowComesBack`, for rows of any length.
* `CommasSplit`: `Spec => []CommasSeparate`, for typed lines of any length.

Command line (`CommandLineProofs`). `CommandLineInv` keeps the histories `seen` and `answers` together
with what is held and loaded at each `pc`, and says what was seen of a file by each look-up so far.

* `ExitCodeCorrect`: `Spec => []ExitTellsFailure`.
* `NamedTextRuns`: `Spec => []RunsWhatWasNamed`, with edits between any two look-ups.
* `GivenBackByMain`: `Spec => []OnlyLossesStayBehind`.
* `RefusedPathsExist`: `Spec => []RefusedPathExists`.

Benchmark (`BenchmarkProofs`). The registry is not right all the time here: replacing a file takes it away from a
loaded index. `BenchInv` says that the entry of the run's table is right (`EntryInv`, of the lemmas of
`IndexedTableProofs`) from the reset of a run to its first error, and ties the file to the number of rows
inserted. The scan's invariant needs no such condition.

* `PrepareMakesDataSet`: under `FlushesWork`, `BenchSpec => []PreparedIsDataSet`. Torn and over-long rows need no
  assumption: a torn write ends the prepare.
* `RunsUseTheirFile`: under `FlushesWork`, `BenchSpec => []RunSeesItsFile`.
* `QueriesAgree`: under `FlushesWork` and `RowsDiffer`, `BenchSpec => []QueriesFindTheSame`.

Every assumption on constants is stated with `ASSUME` in the module that declares them and is evaluated by every run of it.

Only model-checked: the liveness properties `StatementReturns`, `CallReturns`, `StagesReturn`, `ProgramEnds` and `RunsEnd`, since
fairness and `ENABLED` are out of the prover's reach. No module that is proved about uses a `RECURSIVE` operator: recursion is
written as recursive functions or folds. The violated properties are refuted by their runs.

## Not modelled, and simplifications

* A statement of `IndexedTable` begins with any row, id or filter; one that fails before it touches
  the index (schema, validation, an id that is not an integer) changes nothing there and is left
  to the bindings.
* The machines of one statement are joined by what they hand over, not run in one behaviour:
  the parser starts from any token array, the bindings from any statement and schema, the
  index from any row and filter. `CommandLine` has their order.
* The wording of messages, the drawing of the result table (one step that may fail), measured
  times and the benchmark's output. The benchmark's table name is taken to resolve to one storage name in every run.
* Statements of different processes do not overlap: processes share files, but each statement
  runs alone. Interleaved appends of two processes are not modelled.
* A crash loses what is in memory; a crash during the write itself is not modelled apart from
  `AppendTorn` and `AppendLost`.
* The header is shorter than 4096 bytes, a line typed at the prompt shorter than its buffer.
  Ids (`int`) and offsets (`long`) do not overflow.
* A file that grows between the measuring and the reading is run cut off; `RunsWhatWasNamed` says so and
  does not forbid it. In `CommandLine` the file is edited only right before a step that looks at it, which reaches
  the same answers.
* The registry array, its growth by doubling, and string copies are abstracted; where they fail
  the statement fails. `build_path`, `copy_string` and the formatting of errors have no model.
* In `SchemaCatalog` an editor replaces whole files; a data file that is missing, empty or has
  a malformed header is one case. A search visits the entries that were there when the directory
  was opened; one that is added during the search is not seen, one that is removed is not found.
* The tests.

## Plan

Done: `IndexedTable` with `RowStore`; `BPlusTree` with `IdMap`; `CsvLine`; `SchemaCatalog`; lexer,
parser and bindings with `StatementStages`; `CommandLine`; `Benchmark`; proofs of every safety property that a passing
run checks, and of the refinements of `RowStore` and `IdMap`. Left, in this order:

1. What `IndexedTable` takes from `IdMap` and `CsvLine`, as lemmas about both.
2. `Catalogued`: `SchemaCatalog` composed with the registry, whose key is the storage name, so
   that two names of one table share one index while files are edited.
