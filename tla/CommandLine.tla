----------------------------- MODULE CommandLine ----------------------------
(***************************************************************************)
(* The program from main to exit: how its arguments, a file or the         *)
(* terminal become SQL texts, how each text goes through lexer, parser and *)
(* executor, and what is held, printed and returned.  Lexer, parser and    *)
(* executor only answer here; their own modules say what they do.          *)
(* The file a word names may be edited by others meanwhile.                *)
(***************************************************************************)
EXTENDS Integers, Sequences, SequencesExt

CONSTANTS
  Execute, File, Help, Dash, Unknown,  \* the options, "-" and any other option
  Space,            \* a blank word
  Path,             \* the one word that may name a file
  Words,            \* every other word
  LongWords,        \* those that are longer than a file name may be
  Exit,             \* exit, quit, .exit, .quit
  Contents,         \* what the file may hold: sequences of words
  DirectoriesOpen,  \* fopen opens a directory, as it does on Linux
  MaxArguments, MaxLines, MaxChunks, MaxEdits

Texts == Words \cup {Space, Path}
Options == {Execute, File, Help, Dash, Unknown}

\* Help is "-h" as an argument and "help" at the prompt.
Lines == Texts \cup {Exit, Help}

ASSUME CommandLineAssumption ==
  /\ DirectoriesOpen \in BOOLEAN
  /\ Contents \subseteq Seq(Texts)
  /\ LongWords \subseteq Words
  /\ {MaxArguments, MaxLines, MaxChunks, MaxEdits} \subseteq Nat

\* A locked file is there and cannot be opened; of a hidden one stat cannot
\* tell whether it is there.
Files ==
  [kind : {"regular", "locked"}, words : Contents] \cup
  [kind : {"absent", "directory", "socket", "hidden"}, words : {<<>>}]

VARIABLES
  argv,       \* without argv[0]
  terminal,   \* stdin_is_interactive()
  file,
  edits,
  pc,
  typed,      \* history: the lines typed at the prompt
  value,      \* the argument or line that is being resolved
  size,       \* file_size
  text,       \* sql_text
  error,      \* the message buffer: "unset" or what it says
  had_error,  \* had_error and ok
  held,       \* what has been allocated or opened and not given back
  registry,   \* the index registry has entries
  seen,       \* history: the states of file since the input was taken
  answers,    \* history: [value, text, answer] of every input, in order
  exit_code

vars == <<argv, terminal, file, edits, pc, typed, value, size, text, error, had_error, held,
          registry, seen, answers, exit_code>>

\* What no step of the program changes, and what only reading a file does.
world == <<argv, terminal, file, edits>>
history == <<typed, answers>>

None == "none"
Running == -1

Repl == argv = <<>> /\ terminal

Init ==
  /\ argv \in UNION {[1..n -> Texts \cup Options] : n \in 0..MaxArguments}
  /\ terminal \in BOOLEAN
  /\ file \in Files
  /\ edits = 0
  /\ pc = "start"
  /\ typed = <<>>
  /\ value = None
  /\ size = 0
  /\ text = <<>>
  /\ error = "unset"
  /\ had_error = FALSE
  /\ held = {}
  /\ registry = FALSE
  /\ seen = {file}
  /\ answers = <<>>
  /\ exit_code = Running

\* Somebody else edits, adds or removes the file.  While the program has it
\* open, only an edit in place matters to it; while it does something else, an
\* edit is like one before its next look.
EditFile ==
  /\ edits < MaxEdits
  /\ pc \in {"exists", "stat", "open", "measure", "read"}
  /\ file' \in Files \ {file}
  /\ "file" \in held => file.kind = "regular" /\ file'.kind = "regular"
  /\ edits' = edits + 1
  /\ seen' = seen \cup {file'}
  /\ UNCHANGED <<argv, terminal, pc, typed, value, size, text, error, had_error, held, registry,
                 answers, exit_code>>

-----------------------------------------------------------------------------
(* The ways an input can end.                                              *)

\* main resets the registry on each of its ways out.
Leave(code) ==
  /\ exit_code' = code
  /\ pc' = "exit"
  /\ registry' = FALSE

\* The prompt comes back, or the program ends.
Resume(failed, loaded) ==
  IF Repl
  THEN pc' = "prompt" /\ registry' = loaded /\ UNCHANGED exit_code
  ELSE Leave(IF failed THEN 1 ELSE 0)

\* Mutant of Note: an earlier failure is forgotten.
NoteLast(failed) == had_error' = failed

Note(failed) == had_error' = (had_error \/ failed)

\* What is left allocated by code that main calls when that fails.
Lost == {"lost_tokens", "lost_by_executor"}

\* The input is answered with what the error buffer says then, and all that is
\* held for it but kept is given back.
Finish(answer, kept, loaded) ==
  /\ answers' = Append(answers, [value |-> value, text |-> text, answer |-> answer])
  /\ error' = answer
  /\ held' = (held \cap Lost) \cup kept
  /\ Note(answer # "ok")
  /\ Resume(answer # "ok", loaded)
  /\ UNCHANGED <<world, typed, value, size, text, seen>>

Fail(message) == Finish(message, {}, registry)

-----------------------------------------------------------------------------
(* load_noninteractive_sql, where there is no prompt.                      *)

StartRepl ==
  /\ pc = "start"
  /\ Repl
  /\ pc' = "prompt"
  /\ UNCHANGED <<world, history, value, size, text, error, had_error, held, registry, seen,
                 exit_code>>

AskedForHelp == argv # <<>> /\ argv[1] = Help

ShowHelp ==
  /\ pc = "start"
  /\ AskedForHelp
  /\ Leave(0)
  /\ UNCHANGED <<world, history, value, size, text, error, had_error, held, seen>>

\* What the arguments ask for: the first that fits, in the code's order.
Source ==
  CASE argv = <<>> -> "stream"
    [] argv # <<>> /\ argv[1] = Execute -> "join"
    [] argv # <<>> /\ argv[1] = File ->
         IF Len(argv) < 2 THEN "missing file path"
         ELSE IF argv[2] = Dash THEN "stream"
         ELSE IF Len(argv) > 2 THEN "unexpected arguments"
         ELSE "open"
    [] argv # <<>> /\ argv[1] = Unknown -> "unknown option"
    [] argv = <<Dash>> -> "stream"
    [] Len(argv) = 1 /\ argv[1] \in Texts -> "exists"
    [] OTHER -> "join"

Rejected == {"missing file path", "unexpected arguments", "unknown option"}

Classify ==
  /\ pc = "start"
  /\ ~Repl
  /\ ~AskedForHelp
  /\ Source \notin Rejected
  /\ pc' = Source
  /\ value' = CASE Source = "open" -> argv[2]
                [] Source = "exists" -> argv[1]
                [] OTHER -> None
  /\ seen' = {file}
  /\ UNCHANGED <<world, history, size, text, error, had_error, held, registry, exit_code>>

Reject == pc = "start" /\ ~Repl /\ ~AskedForHelp /\ Source \in Rejected /\ Fail(Source)

\* The text is complete.
Loaded(sql) ==
  /\ text' = sql
  /\ held' = held \cup {"sql_text"}
  /\ pc' = "check"
  /\ UNCHANGED <<world, history, value, size, error, had_error, registry, seen, exit_code>>

Arguments == IF argv[1] = Execute THEN Tail(argv) ELSE argv

JoinArguments == pc = "join" /\ Arguments # <<>> /\ Loaded(Arguments)

JoinNothing == pc = "join" /\ Arguments = <<>> /\ Fail("missing SQL statement")

JoinFails == pc = "join" /\ Arguments # <<>> /\ Fail("out of memory")

\* read_stream: a chunk a step.
ReadChunk ==
  /\ pc = "stream"
  /\ Len(text) < MaxChunks
  /\ \E word \in Texts : text' = Append(text, word)
  /\ held' = held \cup {"sql_text"}
  /\ UNCHANGED <<world, pc, history, value, size, error, had_error, registry, seen, exit_code>>

StreamEnds == pc = "stream" /\ Loaded(text)

StreamFails == pc = "stream" /\ \E why \in {"out of memory", "failed to read"} : Fail(why)

-----------------------------------------------------------------------------
(* load_sql_from_argument and read_entire_file                             *)

\* What fopen and stat see under the name value.  Of a name that is too long
\* they report another error than that there is no such file.
Found ==
  IF value = Path THEN file
  ELSE [kind |-> IF value \in LongWords THEN "hidden" ELSE "absent", words |-> <<>>]

Opens == Found.kind = "regular" \/ (Found.kind = "directory" /\ DirectoriesOpen)

To(step) ==
  /\ pc' = step
  /\ UNCHANGED <<world, history, value, size, text, error, had_error, held, registry, seen,
                 exit_code>>

\* Mutant of FileExists: the program waits for the file.
FileExistsAtLast == pc = "exists" /\ To(IF Opens THEN "open" ELSE "exists")

FileExists == pc = "exists" /\ To(IF Opens THEN "open" ELSE "stat")

\* Mutant of NoSuchFile: what cannot be opened is taken for SQL.
NoSuchFileToOpen == TRUE

\* Mutant of NoSuchFile: a missing file is an error like every other.
NoSuchFileNever == FALSE

NoSuchFile == Found.kind = "absent"

StatRefuses ==
  /\ pc = "stat"
  /\ ~NoSuchFile
  /\ Fail(CASE Found.kind = "directory" -> "path is a directory"
            [] Found.kind = "socket" -> "path is not a regular file"
            [] OTHER -> "failed to access")

\* The argument is the SQL itself.
StatFindsNone == pc = "stat" /\ NoSuchFile /\ Loaded(<<value>>)

\* copy_string fails, and no message is written.
CopyFails == pc = "stat" /\ NoSuchFile /\ Fail(error)

OpenFile ==
  /\ pc = "open"
  /\ Opens
  /\ held' = held \cup {"file"}
  /\ pc' = "measure"
  /\ UNCHANGED <<world, history, value, size, text, error, had_error, registry, seen, exit_code>>

OpenFails == pc = "open" /\ ~Opens /\ Fail("failed to open")

\* The end of a directory is further than memory goes, or at its beginning.
MeasureFile ==
  /\ pc = "measure"
  /\ Found.kind = "directory" => size' = 0
  /\ Found.kind # "directory" => size' = Len(Found.words)
  /\ held' = held \cup {"sql_text"}
  /\ pc' = "read"
  /\ UNCHANGED <<world, history, value, text, error, had_error, registry, seen, exit_code>>

MeasureFails ==
  /\ pc = "measure"
  /\ \E why \in {"failed to seek", "failed to measure", "failed to rewind", "out of memory"} :
       Fail(why)

Complete == Len(Found.words) >= size

\* fread stops at the measured size, however long the file is by now.
ReadFile ==
  /\ pc = "read"
  /\ Complete
  /\ text' = [i \in 1..size |-> IF i <= Len(Found.words) THEN Found.words[i] ELSE None]
  /\ held' = held \ {"file"}
  /\ pc' = "check"
  /\ UNCHANGED <<world, history, value, size, error, had_error, registry, seen, exit_code>>

ReadFails == pc = "read" /\ size > 0 /\ Fail("failed to read")

-----------------------------------------------------------------------------
(* execute_sql_text                                                        *)

IsBlank == Range(text) \subseteq {Space}

RefuseBlank == pc = "check" /\ IsBlank /\ Fail("missing SQL statement")

Lex ==
  /\ pc = "check"
  /\ ~IsBlank
  /\ held' = held \cup {"tokens"}
  /\ pc' = "parse"
  /\ UNCHANGED <<world, history, value, size, text, error, had_error, registry, seen, exit_code>>

\* The tokens made before the failure, if any, stay allocated.
LexFails ==
  /\ pc = "check"
  /\ ~IsBlank
  /\ \E kept \in {{}, {"lost_tokens"}} : Finish("lexer", kept, registry)

Parse ==
  /\ pc = "parse"
  /\ held' = held \cup {"statement"}
  /\ pc' = "run"
  /\ UNCHANGED <<world, history, value, size, text, error, had_error, registry, seen, exit_code>>

ParseFails == pc = "parse" /\ Fail("parser")

\* Mutant of Run: the text outlives its execution.
RunKeepsText ==
  pc = "run" /\ \E loaded \in {registry, TRUE} : Finish("ok", {"sql_text"}, loaded)

\* Whatever the answer is, the executor may have indexed a table.
Run == pc = "run" /\ \E loaded \in {registry, TRUE} : Finish("ok", {}, loaded)

\* Of a statement that fails, the rows a SELECT has collected, the fields of a line
\* that could not be parsed, a part of a tree or of a schema may stay allocated.
RunFails ==
  /\ pc = "run"
  /\ \E kept \in {{}, {"lost_by_executor"}}, loaded \in {registry, TRUE} :
       Finish("executor", kept, loaded)

-----------------------------------------------------------------------------
(* run_repl                                                                *)

\* fgets returns the next line.
Prompt(word) ==
  /\ pc = "prompt"
  /\ Len(typed) < MaxLines
  /\ typed' = Append(typed, word)

Skip ==
  \E word \in {Space, Help} :
    /\ Prompt(word)
    /\ UNCHANGED <<world, pc, value, size, text, error, had_error, held, registry, seen, answers,
                   exit_code>>

TypeExit ==
  /\ Prompt(Exit)
  /\ Leave(IF had_error THEN 1 ELSE 0)
  /\ UNCHANGED <<world, value, size, text, error, had_error, held, seen, answers>>

\* execute_argument_or_sql has an error buffer of its own.
TypeInput ==
  \E word \in Words \cup {Path} :
    /\ Prompt(word)
    /\ value' = word
    /\ text' = <<>>
    /\ error' = "unset"
    /\ seen' = {file}
    /\ pc' = "exists"
    /\ UNCHANGED <<world, size, had_error, held, registry, answers, exit_code>>

InputEnds ==
  /\ pc = "prompt"
  /\ Leave(IF had_error THEN 1 ELSE 0)
  /\ UNCHANGED <<world, history, value, size, text, error, had_error, held, seen>>

\* The terminal cannot be read: the session ends with an error of its own.
InputFails ==
  /\ pc = "prompt"
  /\ answers' = Append(answers, [value |-> None, text |-> <<>>, answer |-> "unreadable"])
  /\ Leave(1)
  /\ UNCHANGED <<world, typed, value, size, text, error, had_error, held, seen>>

Step ==
  \/ StartRepl \/ ShowHelp \/ Classify \/ Reject \/ JoinArguments \/ JoinNothing \/ ReadChunk
  \/ StreamEnds \/ FileExists \/ StatRefuses \/ StatFindsNone \/ OpenFile \/ OpenFails
  \/ MeasureFile \/ ReadFile \/ ReadFails \/ RefuseBlank \/ Lex \/ Parse \/ Run \/ Skip
  \/ TypeExit \/ TypeInput \/ InputEnds

Failure ==
  JoinFails \/ StreamFails \/ CopyFails \/ MeasureFails \/ LexFails \/ ParseFails \/ RunFails
    \/ InputFails

Next == Step \/ Failure \/ EditFile

Spec == Init /\ [][Next]_vars

\* The program is sequential code that runs, and its input comes to an end.
FairSpec == Spec /\ WF_vars(Step)

-----------------------------------------------------------------------------
(* Properties.                                                             *)

\* The exit code is 0 if and only if nothing that was asked for failed, however
\* many inputs of a session came after the failure.
ExitTellsFailure ==
  pc = "exit" => (exit_code = 0 <=> \A i \in 1..Len(answers) : answers[i].answer = "ok")

\* What is run for a file name is what the file held, its length and words, at
\* one or two moments since the name was given.  The name itself is run as SQL
\* only if at one of them there was no such file, and never after -f.
RunsWhatWasNamed ==
  pc \in {"check", "parse", "run"} /\ value # None =>
    \/ /\ text = <<value>>
       /\ Repl \/ Source = "exists"
       /\ value = Path => \E f \in seen : f.kind = "absent"
    \/ /\ value = Path
       /\ \E f, g \in seen :
            /\ Len(f.words) = Len(text)
            /\ IsPrefix(text, g.words)

\* At the prompt and at the end the text, the tokens, the statement and the file of
\* every input that was answered are given back, whatever failed and at whichever
\* call, and at the end the registry too.  Only what other code has lost stays: the
\* tokens of a text that the lexer refused, and what a statement that failed left.
OnlyLossesStayBehind ==
  pc \in {"prompt", "exit"} =>
    /\ held \subseteq Lost
    /\ "lost_tokens" \in held => \E i \in 1..Len(answers) : answers[i].answer = "lexer"
    /\ "lost_by_executor" \in held => \E i \in 1..Len(answers) : answers[i].answer = "executor"
    /\ pc = "exit" => ~registry

PathsRefused == {"path is a directory", "path is not a regular file", "failed to access"}

\* main.c:470: an input may be SQL or a path.  It is turned away as a path only
\* where something of that name was there when it was looked for, or where it is
\* longer than a file name may be.
RefusedPathExists ==
  pc \in {"prompt", "exit"} /\ answers # <<>> /\ Last(answers).answer \in PathsRefused =>
    \/ Last(answers).value \in LongWords
    \/ Last(answers).value = Path /\ \E f \in seen : f.kind # "absent"

\* A program whose input ends comes to its own end.
ProgramEnds == <>(pc = "exit")

=============================================================================
