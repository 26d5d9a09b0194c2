-------------------------- MODULE CommandLineProofs -------------------------
(***************************************************************************)
(* The program from main to exit, for any arguments, lines, files and      *)
(* edits: exit code, what runs for a name, what is refused as a path, and  *)
(* what stays behind.                                                      *)
(***************************************************************************)
EXTENDS CommandLine, TLAPS

Messages ==
  {"unset", "ok", "missing file path", "unexpected arguments", "unknown option",
   "missing SQL statement", "out of memory", "failed to read", "path is a directory",
   "path is not a regular file", "failed to access", "failed to open", "failed to seek",
   "failed to measure", "failed to rewind", "lexer", "parser", "executor", "unreadable"}

AnyWord == Texts \cup Options \cup {None}

AnswerRecord == [value : AnyWord, text : Seq(AnyWord), answer : Messages]

\* The ranges of the variables the properties look at.
TypeInv ==
  /\ argv \in Seq(Texts \cup Options)
  /\ file \in Files
  /\ seen \subseteq Files
  /\ value \in AnyWord
  /\ size \in Nat
  /\ text \in Seq(AnyWord)
  /\ error \in Messages
  /\ had_error \in BOOLEAN
  /\ answers \in Seq(AnswerRecord)
  /\ pc \in {"start", "prompt", "join", "stream", "exists", "stat", "open", "measure", "read",
             "check", "parse", "run", "exit"}

AllOk == \A i \in 1..Len(answers) : answers[i].answer = "ok"

\* The flag that decides the exit code is set if and only if an answer was not
\* ok; where there is no prompt nothing is answered before the end.
FlagTellsFailure ==
  /\ pc # "exit" => (had_error <=> ~AllOk)
  /\ pc = "start" \/ (~Repl /\ pc # "exit") => answers = <<>>
  /\ pc = "prompt" => Repl
  /\ pc \notin {"prompt", "exit"} => error = "unset"
  /\ ExitTellsFailure

\* What has been found out about the name that is looked up.
NameFollowed ==
  /\ file \in seen
  /\ pc \in {"exists", "stat"} => Repl \/ Source = "exists"
  /\ pc \in {"join", "stream"} => value = None
  /\ pc \in {"measure", "read"} => value = Path
  /\ pc = "read" => \E f \in seen : Len(f.words) = size
  /\ RunsWhatWasNamed

\* The answer with which something is lost.
LostWith(loss) == IF loss = "lost_tokens" THEN "lexer" ELSE "executor"

\* Whatever is lost is lost with an answer that says so.
HeldAccounted ==
  /\ \A loss \in held \cap Lost :
       \E i \in 1..Len(answers) : answers[i].answer = LostWith(loss)
  /\ pc \in {"start", "prompt", "exit"} => held \subseteq Lost
  /\ pc = "exit" => ~registry

CommandLineInv ==
  TypeInv /\ FlagTellsFailure /\ NameFollowed /\ HeldAccounted /\ RefusedPathExists

-----------------------------------------------------------------------------
(* The initial state.                                                      *)

LEMMA ArgumentsType ==
  ASSUME NEW S, NEW n \in Nat, NEW m \in Nat, NEW s \in UNION {[1..k -> S] : k \in n..m}
  PROVE  s \in Seq(S)
OBVIOUS

LEMMA CommandLineInit == Init => CommandLineInv
<1> SUFFICES ASSUME Init PROVE CommandLineInv
  OBVIOUS
<1>1. argv \in Seq(Texts \cup Options)
  BY CommandLineAssumption DEF Init
<1>2. TypeInv
  <2>1. text \in Seq(AnyWord) /\ answers \in Seq(AnswerRecord)
    BY DEF Init
  <2>2. value \in AnyWord /\ error \in Messages
    BY DEF Init, AnyWord, Messages
  <2> QED
    BY <1>1, <2>1, <2>2 DEF Init, TypeInv
<1>3. FlagTellsFailure
  BY DEF Init, FlagTellsFailure, AllOk, ExitTellsFailure
<1>4. NameFollowed
  BY DEF Init, NameFollowed, RunsWhatWasNamed
<1>5. HeldAccounted /\ RefusedPathExists
  BY DEF Init, HeldAccounted, RefusedPathExists
<1> QED
  BY <1>2, <1>3, <1>4, <1>5 DEF CommandLineInv

-----------------------------------------------------------------------------
(* An input is answered.                                                   *)

\* The answer joins the earlier ones.
LEMMA AnswerAppended ==
  ASSUME TypeInv, NEW r \in AnswerRecord, answers' = Append(answers, r)
  PROVE  /\ answers' \in Seq(AnswerRecord)
         /\ Len(answers') = Len(answers) + 1 /\ Len(answers) \in Nat
         /\ \A i \in 1..Len(answers) : answers'[i] = answers[i]
         /\ answers' # <<>> /\ Last(answers') = r /\ answers'[Len(answers')] = r
         /\ AllOk' <=> (AllOk /\ r.answer = "ok")
<1>1. /\ answers' \in Seq(AnswerRecord)
      /\ Len(answers') = Len(answers) + 1 /\ Len(answers) \in Nat
      /\ \A i \in 1..Len(answers) : answers'[i] = answers[i]
      /\ answers'[Len(answers) + 1] = r
  BY DEF TypeInv
<1>2. AllOk' <=> (AllOk /\ r.answer = "ok")
  BY <1>1 DEF AllOk
<1> QED
  BY <1>1, <1>2 DEF Last

LEMMA FinishKeeps ==
  ASSUME CommandLineInv, pc \notin {"prompt", "exit"},
         NEW answer \in Messages, NEW kept, NEW loaded, Finish(answer, kept, loaded),
         kept \subseteq Lost, \A loss \in kept : answer = LostWith(loss),
         answer \in PathsRefused =>
           \/ value \in LongWords
           \/ value = Path /\ \E f \in seen : f.kind # "absent"
  PROVE  CommandLineInv'
<1> DEFINE record == [value |-> value, text |-> text, answer |-> answer]
<1>1. record \in AnswerRecord /\ record.answer = answer /\ record.value = value
  BY DEF CommandLineInv, TypeInv, AnswerRecord
<1>2. answers' = Append(answers, record)
  BY DEF Finish
<1> HIDE DEF record
<1>3. /\ answers' \in Seq(AnswerRecord)
      /\ Len(answers') = Len(answers) + 1 /\ Len(answers) \in Nat
      /\ \A i \in 1..Len(answers) : answers'[i] = answers[i]
      /\ answers' # <<>> /\ Last(answers') = record /\ answers'[Len(answers')] = record
      /\ AllOk' <=> (AllOk /\ answer = "ok")
  BY <1>1, <1>2, AnswerAppended DEF CommandLineInv
<1>4. /\ argv' = argv /\ terminal' = terminal /\ file' = file /\ seen' = seen
      /\ value' = value /\ text' = text /\ size' = size /\ error' = answer
      /\ had_error' = (had_error \/ answer # "ok")
      /\ held' = (held \cap Lost) \cup kept
  BY DEF Finish, Note, world
<1>5. /\ pc' \in {"prompt", "exit"}
      /\ pc' = "prompt" => Repl
      /\ pc' = "exit" => ~Repl /\ ~registry' /\ exit_code' = (IF answer # "ok" THEN 1 ELSE 0)
  BY DEF Finish, Resume, Leave
<1>6. Repl' = Repl /\ Source' = Source
  BY <1>4 DEF Repl, Source
<1>7. TypeInv'
  BY <1>3, <1>4, <1>5 DEF CommandLineInv, TypeInv
<1>8. FlagTellsFailure'
  <2>1. had_error <=> ~AllOk
    BY DEF CommandLineInv, FlagTellsFailure
  <2>2. had_error' <=> ~AllOk'
    BY <1>3, <1>4, <2>1
  <2>3. ~Repl => AllOk
    BY DEF CommandLineInv, FlagTellsFailure, AllOk
  <2>4. ExitTellsFailure'
    BY <1>3, <1>5, <2>3 DEF ExitTellsFailure, AllOk
  <2> QED
    BY <1>5, <1>6, <2>2, <2>4 DEF FlagTellsFailure
<1>9. NameFollowed'
  BY <1>4, <1>5, <1>6 DEF CommandLineInv, NameFollowed, RunsWhatWasNamed
<1>10. HeldAccounted'
  <2>1. ASSUME NEW loss \in held' \cap Lost
        PROVE  \E i \in 1..Len(answers') : answers'[i].answer = LostWith(loss)
    <3>1. CASE loss \in kept
      <4>1. Len(answers') \in 1..Len(answers') /\ answers'[Len(answers')].answer = LostWith(loss)
        BY <1>1, <1>3, <3>1
      <4> QED
        BY <4>1
    <3>2. CASE loss \notin kept
      <4>1. PICK i \in 1..Len(answers) : answers[i].answer = LostWith(loss)
        BY <1>4, <2>1, <3>2 DEF CommandLineInv, HeldAccounted
      <4>2. i \in 1..Len(answers') /\ answers'[i] = answers[i]
        BY <1>3
      <4> QED
        BY <4>1, <4>2
    <3> QED
      BY <3>1, <3>2
  <2>2. held' \subseteq Lost
    BY <1>4
  <2> QED
    BY <1>5, <2>1, <2>2 DEF HeldAccounted
<1>11. RefusedPathExists'
  BY <1>1, <1>3, <1>4 DEF RefusedPathExists, PathsRefused
<1> QED
  BY <1>7, <1>8, <1>9, <1>10, <1>11 DEF CommandLineInv

\* The program goes on with the input it has: nothing is answered, and what is
\* known of the name stays known.
LEMMA GoesOnKeeps ==
  ASSUME CommandLineInv, UNCHANGED world, UNCHANGED <<answers, error, had_error>>,
         pc \notin {"prompt", "exit"},
         pc' \in {"join", "stream", "exists", "stat", "open", "measure", "read", "check",
                  "parse", "run"},
         pc = "start" => ~Repl,
         seen' \subseteq Files, file \in seen',
         value' \in AnyWord, size' \in Nat, text' \in Seq(AnyWord),
         held' \cap Lost \subseteq held,
         pc' \in {"exists", "stat"} => Repl \/ Source = "exists",
         pc' \in {"join", "stream"} => value' = None,
         pc' \in {"measure", "read"} => value' = Path,
         pc' = "read" => \E f \in seen' : Len(f.words) = size',
         RunsWhatWasNamed'
  PROVE  CommandLineInv'
<1>1. /\ argv' = argv /\ terminal' = terminal /\ file' = file
      /\ answers' = answers /\ error' = error /\ had_error' = had_error
  BY DEF world
<1>2. Repl' = Repl /\ Source' = Source
  BY <1>1 DEF Repl, Source
<1>3. TypeInv'
  BY <1>1 DEF CommandLineInv, TypeInv
<1>4. FlagTellsFailure'
  BY <1>1, <1>2 DEF CommandLineInv, FlagTellsFailure, AllOk, ExitTellsFailure
<1>5. NameFollowed'
  BY <1>1, <1>2 DEF NameFollowed
<1>6. HeldAccounted'
  <2>1. \A loss \in held' \cap Lost : loss \in held \cap Lost
    OBVIOUS
  <2> QED
    BY <1>1, <2>1 DEF CommandLineInv, HeldAccounted
<1>7. RefusedPathExists'
  BY DEF RefusedPathExists
<1> QED
  BY <1>3, <1>4, <1>5, <1>6, <1>7 DEF CommandLineInv

\* The program ends without an answer of its own.
LEMMA LeaveKeeps ==
  ASSUME CommandLineInv, pc \in {"start", "prompt"}, NEW code, Leave(code),
         code = (IF had_error THEN 1 ELSE 0),
         UNCHANGED world,
         UNCHANGED <<value, size, text, error, had_error, held, seen, answers>>
  PROVE  CommandLineInv'
<1>1. /\ argv' = argv /\ terminal' = terminal /\ file' = file
      /\ pc' = "exit" /\ registry' = FALSE /\ exit_code' = code
  BY DEF world, Leave
<1>2. TypeInv'
  BY <1>1 DEF CommandLineInv, TypeInv
<1>3. FlagTellsFailure'
  BY <1>1 DEF CommandLineInv, FlagTellsFailure, AllOk, ExitTellsFailure
<1>4. NameFollowed'
  BY <1>1 DEF CommandLineInv, NameFollowed, RunsWhatWasNamed
<1>5. HeldAccounted'
  BY <1>1 DEF CommandLineInv, HeldAccounted
<1>6. RefusedPathExists'
  <2>1. CASE pc = "start"
    BY <2>1 DEF CommandLineInv, FlagTellsFailure, RefusedPathExists
  <2>2. CASE pc = "prompt"
    BY <1>1, <2>2 DEF CommandLineInv, RefusedPathExists
  <2> QED
    BY <2>1, <2>2
<1> QED
  BY <1>2, <1>3, <1>4, <1>5, <1>6 DEF CommandLineInv

-----------------------------------------------------------------------------
(* Every step.                                                             *)

\* A sequence of words is what an argument list is joined to.
LEMMA ArgumentsJoined ==
  ASSUME TypeInv, argv # <<>>
  PROVE  Arguments \in Seq(AnyWord)
<1>1. argv \in Seq(AnyWord)
  BY DEF TypeInv, AnyWord
<1>2. Tail(argv) \in Seq(AnyWord)
  BY <1>1
<1> QED
  BY <1>1, <1>2 DEF Arguments

LEMMA FoundKinds ==
  ASSUME CommandLineInv
  PROVE  /\ Found.kind \in {"regular", "locked", "absent", "directory", "socket", "hidden"}
         /\ value = Path => Found = file /\ file \in seen
         /\ value # Path => Found.kind \in {"absent", "hidden"}
         /\ value # Path /\ Found.kind = "hidden" => value \in LongWords
BY DEF Found, Files, CommandLineInv, TypeInv, NameFollowed

LEMMA FileFacts ==
  ASSUME NEW f \in Files
  PROVE  f.words \in Seq(Texts) /\ (f.kind = "directory" => f.words = <<>>)
<1>1. CASE f \in [kind : {"regular", "locked"}, words : Contents]
  <2>1. f.words \in Contents /\ f.kind # "directory"
    BY <1>1
  <2> QED
    BY <2>1, CommandLineAssumption
<1>2. CASE f \in [kind : {"absent", "directory", "socket", "hidden"}, words : {<<>>}]
  <2>1. f.words = <<>>
    BY <1>2
  <2>2. <<>> \in Seq(Texts)
    OBVIOUS
  <2> QED
    BY <2>1, <2>2
<1> QED
  BY <1>1, <1>2 DEF Files

LEMMA RunsKept ==
  ASSUME CommandLineInv, UNCHANGED <<argv, terminal, value, text, seen>>,
         pc \in {"check", "parse", "run"}, pc' \in {"parse", "run"}
  PROVE  RunsWhatWasNamed'
<1>1. Repl' = Repl /\ Source' = Source
  BY DEF Repl, Source
<1> QED
  BY <1>1 DEF CommandLineInv, NameFollowed, RunsWhatWasNamed

LEMMA LoadingKeeps ==
  ASSUME CommandLineInv, StatFindsNone \/ JoinArguments \/ StreamEnds \/ ReadFile
  PROVE  CommandLineInv'
<1>1. CASE StatFindsNone
  <2>1. /\ UNCHANGED world /\ UNCHANGED <<answers, error, had_error, seen, value, size>>
        /\ pc = "stat" /\ pc' = "check" /\ text' = <<value>>
        /\ held' = held \cup {"sql_text"} /\ NoSuchFile
    BY <1>1 DEF StatFindsNone, Loaded, history
  <2>2. Repl' = Repl /\ Source' = Source /\ (Repl \/ Source = "exists")
    BY <2>1 DEF Repl, Source, world, CommandLineInv, NameFollowed
  <2>3. value = Path => \E f \in seen : f.kind = "absent"
    BY <2>1, FoundKinds DEF NoSuchFile
  <2>4. RunsWhatWasNamed'
    BY <2>1, <2>2, <2>3 DEF RunsWhatWasNamed
  <2>5. text' \in Seq(AnyWord)
    BY <2>1 DEF CommandLineInv, TypeInv
  <2> QED
    BY <2>1, <2>4, <2>5, GoesOnKeeps DEF CommandLineInv, TypeInv, NameFollowed, Lost
<1>2. CASE JoinArguments \/ StreamEnds
  <2>1. /\ UNCHANGED world /\ UNCHANGED <<answers, error, had_error, seen, value, size>>
        /\ pc \in {"join", "stream"} /\ pc' = "check"
        /\ held' = held \cup {"sql_text"}
    BY <1>2 DEF JoinArguments, StreamEnds, Loaded, history
  <2>2. RunsWhatWasNamed'
    BY <2>1 DEF RunsWhatWasNamed, CommandLineInv, NameFollowed
  <2>3. text' \in Seq(AnyWord)
    <3>1. CASE JoinArguments
      <4>1. argv # <<>> /\ text' = Arguments
        BY <3>1 DEF JoinArguments, Loaded, Arguments
      <4> QED
        BY <4>1, ArgumentsJoined DEF CommandLineInv
    <3>2. CASE StreamEnds
      BY <3>2 DEF StreamEnds, Loaded, CommandLineInv, TypeInv
    <3> QED
      BY <1>2, <3>1, <3>2
  <2> QED
    BY <2>1, <2>2, <2>3, GoesOnKeeps DEF CommandLineInv, TypeInv, NameFollowed, Lost
<1>3. CASE ReadFile
  <2>1. /\ UNCHANGED world /\ UNCHANGED <<answers, error, had_error, seen, value, size>>
        /\ pc = "read" /\ pc' = "check" /\ Complete
        /\ text' = [i \in 1..size |-> IF i <= Len(Found.words) THEN Found.words[i] ELSE None]
        /\ held' = held \ {"file"}
    BY <1>3 DEF ReadFile, history
  <2>2. value = Path /\ Found = file /\ file \in seen /\ file \in Files /\ size \in Nat
    BY <2>1, FoundKinds DEF CommandLineInv, NameFollowed, TypeInv
  <2>3. file.words \in Seq(Texts) /\ size <= Len(file.words)
    BY <2>1, <2>2, FileFacts DEF Complete
  <2>4. text' = [i \in 1..size |-> file.words[i]]
    BY <2>1, <2>2, <2>3
  <2>5. text' \in Seq(AnyWord) /\ Len(text') = size
    BY <2>2, <2>3, <2>4 DEF AnyWord
  <2>6. SubSeq(text', 1, size) = SubSeq(file.words, 1, size)
    BY <2>2, <2>3, <2>4
  <2>7. IsPrefix(text', file.words)
    BY <2>3, <2>5, <2>6 DEF IsPrefix
  <2>8. PICK f \in seen : Len(f.words) = size
    BY <2>1 DEF CommandLineInv, NameFollowed
  <2>9. RunsWhatWasNamed'
    <3>1. \E f1, g \in seen : Len(f1.words) = Len(text') /\ IsPrefix(text', g.words)
      BY <2>2, <2>5, <2>7, <2>8
    <3> QED
      BY <2>1, <2>2, <3>1 DEF RunsWhatWasNamed
  <2> QED
    BY <2>1, <2>2, <2>5, <2>9, GoesOnKeeps DEF CommandLineInv, TypeInv, NameFollowed
<1> QED
  BY <1>1, <1>2, <1>3

\* Nothing but the place in the program and what is held changes.
LEMMA AdvanceKeeps ==
  ASSUME CommandLineInv, UNCHANGED world,
         UNCHANGED <<answers, error, had_error, seen, value, size, text>>,
         \/ pc = "exists" /\ pc' \in {"open", "stat"}
         \/ pc = "open" /\ pc' = "measure" /\ value = Path
         \/ pc = "check" /\ pc' = "parse"
         \/ pc = "parse" /\ pc' = "run",
         held' \cap Lost \subseteq held
  PROVE  CommandLineInv'
<1>1. RunsWhatWasNamed'
  <2>1. CASE pc' \in {"parse", "run"}
    BY <2>1, RunsKept DEF world
  <2>2. CASE pc' \in {"open", "stat", "measure"}
    BY <2>2 DEF RunsWhatWasNamed
  <2> QED
    BY <2>1, <2>2
<1> QED
  BY <1>1, GoesOnKeeps DEF CommandLineInv, TypeInv, NameFollowed

LEMMA FailKeeps ==
  ASSUME CommandLineInv, pc \notin {"prompt", "exit"},
         NEW answer \in Messages \ PathsRefused, Fail(answer)
  PROVE  CommandLineInv'
BY FinishKeeps DEF Fail

LEMMA ClassifyKeeps ==
  ASSUME CommandLineInv, Classify
  PROVE  CommandLineInv'
<1>1. /\ UNCHANGED world /\ UNCHANGED <<answers, error, had_error, size, text, held>>
      /\ pc = "start" /\ ~Repl /\ Source \notin Rejected /\ pc' = Source /\ seen' = {file}
  BY DEF Classify, history
<1>2. Source \in {"stream", "join", "open", "exists"} \cup Rejected
  BY DEF Source, Rejected
<1>3. /\ Source \in {"stream", "join"} => value' = None
      /\ Source = "open" => value' = argv[2] /\ Len(argv) >= 2
      /\ Source = "exists" => value' = argv[1] /\ Len(argv) >= 1
  <2>1. Source = "open" => argv # <<>> /\ ~(Len(argv) < 2)
    BY DEF Source
  <2>2. Source = "exists" => Len(argv) = 1
    BY DEF Source
  <2>3. /\ Source \in {"stream", "join"} => value' = None
        /\ Source = "open" => value' = argv[2]
        /\ Source = "exists" => value' = argv[1]
    BY DEF Classify
  <2> QED
    BY <2>1, <2>2, <2>3 DEF CommandLineInv, TypeInv
<1>4. value' \in AnyWord
  <2>1. CASE Source \in {"stream", "join"}
    BY <1>3, <2>1 DEF AnyWord
  <2>2. CASE Source = "open"
    BY <1>3, <2>2 DEF AnyWord, CommandLineInv, TypeInv
  <2>3. CASE Source = "exists"
    BY <1>3, <2>3 DEF AnyWord, CommandLineInv, TypeInv
  <2> QED
    BY <1>1, <1>2, <2>1, <2>2, <2>3
<1>5. RunsWhatWasNamed'
  BY <1>1, <1>2 DEF RunsWhatWasNamed, Rejected
<1> QED
  BY <1>1, <1>2, <1>3, <1>4, <1>5, GoesOnKeeps DEF CommandLineInv, TypeInv, NameFollowed, Rejected

\* At the prompt a line is typed that is looked up, skipped or cannot be read.
LEMMA PromptKeeps ==
  ASSUME CommandLineInv, StartRepl \/ Skip \/ TypeInput \/ InputFails
  PROVE  CommandLineInv'
<1>1. CASE StartRepl \/ Skip
  <2>1. /\ UNCHANGED world
        /\ UNCHANGED <<answers, error, had_error, seen, value, size, text, held>>
        /\ pc \in {"start", "prompt"} /\ pc' = "prompt" /\ Repl
    BY <1>1 DEF StartRepl, Skip, Prompt, history, CommandLineInv, FlagTellsFailure
  <2>2. Repl' = Repl
    BY <2>1 DEF Repl, world
  <2>3. TypeInv'
    BY <2>1 DEF CommandLineInv, TypeInv, world
  <2>4. FlagTellsFailure'
    BY <2>1, <2>2 DEF CommandLineInv, FlagTellsFailure, AllOk, ExitTellsFailure
  <2>5. NameFollowed' /\ HeldAccounted'
    BY <2>1 DEF CommandLineInv, NameFollowed, HeldAccounted, RunsWhatWasNamed, world
  <2>6. RefusedPathExists'
    BY <2>1 DEF CommandLineInv, FlagTellsFailure, RefusedPathExists
  <2> QED
    BY <2>3, <2>4, <2>5, <2>6 DEF CommandLineInv
<1>2. CASE TypeInput
  <2>1. /\ UNCHANGED world /\ UNCHANGED <<answers, had_error, size, held>>
        /\ pc = "prompt" /\ pc' = "exists" /\ Repl
        /\ value' \in Texts /\ text' = <<>> /\ error' = "unset" /\ seen' = {file}
    BY <1>2 DEF TypeInput, Prompt, Texts, CommandLineInv, FlagTellsFailure
  <2>2. Repl' = Repl /\ "unset" \in Messages /\ value' \in AnyWord
    BY <2>1 DEF Repl, world, Messages, AnyWord
  <2>3. TypeInv'
    BY <2>1, <2>2 DEF CommandLineInv, TypeInv, world
  <2>4. FlagTellsFailure'
    BY <2>1, <2>2 DEF CommandLineInv, FlagTellsFailure, AllOk, ExitTellsFailure
  <2>5. NameFollowed'
    BY <2>1, <2>2 DEF CommandLineInv, NameFollowed, RunsWhatWasNamed, world
  <2>6. HeldAccounted' /\ RefusedPathExists'
    BY <2>1 DEF CommandLineInv, HeldAccounted, RefusedPathExists
  <2> QED
    BY <2>3, <2>4, <2>5, <2>6 DEF CommandLineInv
<1>3. CASE InputFails
  <2> DEFINE record == [value |-> None, text |-> <<>>, answer |-> "unreadable"]
  <2>1. /\ UNCHANGED world /\ UNCHANGED <<value, size, text, error, had_error, held, seen>>
        /\ answers' = Append(answers, record)
        /\ pc = "prompt" /\ pc' = "exit" /\ exit_code' = 1 /\ registry' = FALSE
    BY <1>3 DEF InputFails, Leave
  <2>2. record \in AnswerRecord /\ record.answer = "unreadable"
    BY DEF AnswerRecord, AnyWord, Messages
  <2> HIDE DEF record
  <2>3. /\ answers' \in Seq(AnswerRecord)
        /\ Len(answers') = Len(answers) + 1 /\ Len(answers) \in Nat
        /\ \A i \in 1..Len(answers) : answers'[i] = answers[i]
        /\ Last(answers').answer = "unreadable" /\ ~AllOk'
    BY <2>1, <2>2, AnswerAppended DEF CommandLineInv
  <2>4. TypeInv'
    BY <2>1, <2>3 DEF CommandLineInv, TypeInv, world
  <2>5. FlagTellsFailure'
    BY <2>1, <2>3 DEF FlagTellsFailure, ExitTellsFailure, AllOk
  <2>6. NameFollowed'
    BY <2>1 DEF CommandLineInv, NameFollowed, RunsWhatWasNamed, world
  <2>7. HeldAccounted'
    BY <2>1, <2>3 DEF CommandLineInv, HeldAccounted
  <2>8. RefusedPathExists'
    BY <2>3 DEF RefusedPathExists, PathsRefused
  <2> QED
    BY <2>4, <2>5, <2>6, <2>7, <2>8 DEF CommandLineInv
<1> QED
  BY <1>1, <1>2, <1>3

LEMMA EditKeeps ==
  ASSUME CommandLineInv, EditFile
  PROVE  CommandLineInv'
<1>1. /\ UNCHANGED <<argv, terminal, pc, value, size, text, error, had_error, held, registry,
                     answers, exit_code>>
      /\ pc \in {"exists", "stat", "open", "measure", "read"}
      /\ file' \in Files /\ seen' = seen \cup {file'}
  BY DEF EditFile
<1>2. Repl' = Repl /\ Source' = Source
  BY <1>1 DEF Repl, Source
<1>3. TypeInv'
  BY <1>1 DEF CommandLineInv, TypeInv
<1>4. FlagTellsFailure'
  BY <1>1, <1>2 DEF CommandLineInv, FlagTellsFailure, AllOk, ExitTellsFailure
<1>5. NameFollowed'
  BY <1>1, <1>2 DEF CommandLineInv, NameFollowed, RunsWhatWasNamed
<1>6. HeldAccounted' /\ RefusedPathExists'
  BY <1>1 DEF CommandLineInv, HeldAccounted, RefusedPathExists
<1> QED
  BY <1>3, <1>4, <1>5, <1>6 DEF CommandLineInv

\* The steps that answer an input.
LEMMA AnswerKeeps ==
  ASSUME CommandLineInv,
         \/ Reject \/ JoinNothing \/ JoinFails \/ StreamFails \/ StatRefuses \/ CopyFails
         \/ OpenFails \/ MeasureFails \/ ReadFails \/ RefuseBlank \/ LexFails \/ ParseFails
         \/ Run \/ RunFails
  PROVE  CommandLineInv'
<1>1. CASE Reject
  <2>1. Source \in Messages \ PathsRefused
    BY <1>1 DEF Reject, Rejected, Messages, PathsRefused
  <2> QED
    BY <1>1, <2>1, FailKeeps DEF Reject
<1>2. CASE \/ JoinNothing \/ JoinFails \/ StreamFails \/ OpenFails \/ MeasureFails \/ ReadFails
           \/ RefuseBlank \/ ParseFails
  <2>1. PICK answer \in {"missing SQL statement", "out of memory", "failed to read",
                         "failed to open", "failed to seek", "failed to measure",
                         "failed to rewind", "parser"} :
          Fail(answer) /\ pc \notin {"prompt", "exit"}
    BY <1>2 DEF JoinNothing, JoinFails, StreamFails, OpenFails, MeasureFails, ReadFails,
                RefuseBlank, ParseFails
  <2>2. answer \in Messages \ PathsRefused
    BY DEF Messages, PathsRefused
  <2> QED
    BY <2>1, <2>2, FailKeeps
<1>3. CASE CopyFails
  <2>1. error = "unset" /\ pc = "stat"
    BY <1>3 DEF CopyFails, CommandLineInv, FlagTellsFailure
  <2>2. error \in Messages \ PathsRefused
    BY <2>1 DEF Messages, PathsRefused
  <2> QED
    BY <1>3, <2>1, <2>2, FailKeeps DEF CopyFails
<1>4. CASE StatRefuses
  <2>1. PICK answer \in PathsRefused : pc = "stat" /\ ~NoSuchFile /\ Fail(answer)
    BY <1>4 DEF StatRefuses, PathsRefused
  <2>2. \/ value \in LongWords
        \/ value = Path /\ \E f \in seen : f.kind # "absent"
    BY <2>1, FoundKinds DEF NoSuchFile
  <2>3. answer \in Messages
    BY DEF Messages, PathsRefused
  <2> QED
    BY <2>1, <2>2, <2>3, FinishKeeps DEF Fail
<1>5. CASE LexFails \/ Run \/ RunFails
  <2>1. PICK answer \in {"lexer", "ok", "executor"}, kept \in SUBSET Lost,
             loaded \in {registry, TRUE} :
          /\ Finish(answer, kept, loaded) /\ pc \notin {"prompt", "exit"}
          /\ \A loss \in kept : answer = LostWith(loss)
    <3>1. CASE LexFails
      <4>1. PICK kept \in {{}, {"lost_tokens"}} : Finish("lexer", kept, registry)
        BY <3>1 DEF LexFails
      <4>2. kept \in SUBSET Lost /\ \A loss \in kept : LostWith(loss) = "lexer"
        BY DEF Lost, LostWith
      <4> QED
        BY <3>1, <4>1, <4>2 DEF LexFails
    <3>2. CASE Run
      <4>1. PICK loaded \in {registry, TRUE} : Finish("ok", {}, loaded)
        BY <3>2 DEF Run
      <4>2. {} \in SUBSET Lost /\ \A loss \in {} : LostWith(loss) = "ok"
        OBVIOUS
      <4> QED
        BY <3>2, <4>1, <4>2 DEF Run
    <3>3. CASE RunFails
      <4>1. PICK kept \in {{}, {"lost_by_executor"}}, loaded \in {registry, TRUE} :
              Finish("executor", kept, loaded)
        BY <3>3 DEF RunFails
      <4>2. kept \in SUBSET Lost /\ \A loss \in kept : LostWith(loss) = "executor"
        BY DEF Lost, LostWith
      <4> QED
        BY <3>3, <4>1, <4>2 DEF RunFails
    <3> QED
      BY <1>5, <3>1, <3>2, <3>3
  <2>2. answer \in Messages /\ answer \notin PathsRefused
    BY DEF Messages, PathsRefused
  <2> QED
    BY <2>1, <2>2, FinishKeeps
<1> QED
  BY <1>1, <1>2, <1>3, <1>4, <1>5

LEMMA CommandLineStep == CommandLineInv /\ [Next]_vars => CommandLineInv'
<1> SUFFICES ASSUME CommandLineInv, [Next]_vars PROVE CommandLineInv'
  OBVIOUS
<1>1. CASE ShowHelp \/ TypeExit \/ InputEnds
  <2>1. /\ pc \in {"start", "prompt"} /\ UNCHANGED world
        /\ UNCHANGED <<value, size, text, error, had_error, held, seen, answers>>
        /\ Leave(IF had_error THEN 1 ELSE 0)
    <3>1. pc = "start" => ~had_error
      BY DEF CommandLineInv, FlagTellsFailure, AllOk
    <3> QED
      BY <1>1, <3>1 DEF ShowHelp, TypeExit, InputEnds, Prompt, history
  <2> QED
    BY <2>1, LeaveKeeps
<1>2. CASE FileExists
  <2>1. /\ UNCHANGED world
        /\ UNCHANGED <<answers, error, had_error, seen, value, size, text, held>>
        /\ pc = "exists" /\ pc' \in {"open", "stat"}
    BY <1>2 DEF FileExists, To, history
  <2> QED
    BY <2>1, AdvanceKeeps
<1>3. CASE OpenFile
  <2>1. value = Path
    BY <1>3, FoundKinds DEF OpenFile, Opens
  <2>2. /\ UNCHANGED world
        /\ UNCHANGED <<answers, error, had_error, seen, value, size, text>>
        /\ pc = "open" /\ pc' = "measure" /\ held' = held \cup {"file"}
    BY <1>3 DEF OpenFile, history
  <2> QED
    BY <2>1, <2>2, AdvanceKeeps DEF Lost
<1>4. CASE Lex \/ Parse
  <2>1. /\ UNCHANGED world
        /\ UNCHANGED <<answers, error, had_error, seen, value, size, text>>
        /\ (pc = "check" /\ pc' = "parse") \/ (pc = "parse" /\ pc' = "run")
        /\ held' = held \cup {"tokens"} \/ held' = held \cup {"statement"}
    BY <1>4 DEF Lex, Parse, history
  <2> QED
    BY <2>1, AdvanceKeeps DEF Lost
<1>5. CASE ReadChunk
  <2>1. /\ UNCHANGED world /\ UNCHANGED <<answers, error, had_error, seen, value, size>>
        /\ pc = "stream" /\ pc' = "stream" /\ held' = held \cup {"sql_text"}
        /\ \E word \in Texts : text' = Append(text, word)
    BY <1>5 DEF ReadChunk, history
  <2>2. text' \in Seq(AnyWord)
    BY <2>1 DEF AnyWord, CommandLineInv, TypeInv
  <2>3. RunsWhatWasNamed'
    BY <2>1 DEF RunsWhatWasNamed
  <2> QED
    BY <2>1, <2>2, <2>3, GoesOnKeeps DEF CommandLineInv, TypeInv, NameFollowed, Lost
<1>6. CASE MeasureFile
  <2>1. /\ UNCHANGED world /\ UNCHANGED <<answers, error, had_error, seen, value, text>>
        /\ pc = "measure" /\ pc' = "read" /\ held' = held \cup {"sql_text"}
        /\ Found.kind = "directory" => size' = 0
        /\ Found.kind # "directory" => size' = Len(Found.words)
    BY <1>6 DEF MeasureFile, history
  <2>2. value = Path /\ Found = file /\ file \in seen /\ file \in Files
    BY <2>1, FoundKinds DEF CommandLineInv, NameFollowed, TypeInv
  <2>3. size' = Len(file.words) /\ size' \in Nat
    BY <2>1, <2>2, FileFacts
  <2>4. RunsWhatWasNamed'
    BY <2>1 DEF RunsWhatWasNamed
  <2> QED
    BY <2>1, <2>2, <2>3, <2>4, GoesOnKeeps DEF CommandLineInv, TypeInv, Lost
<1>7. CASE UNCHANGED vars
  BY <1>7 DEF vars, CommandLineInv, TypeInv, FlagTellsFailure, NameFollowed, HeldAccounted,
              RefusedPathExists, RunsWhatWasNamed, ExitTellsFailure, AllOk, Repl, Source
<1> QED
  BY <1>1, <1>2, <1>3, <1>4, <1>5, <1>6, <1>7, LoadingKeeps, ClassifyKeeps, PromptKeeps,
     EditKeeps, AnswerKeeps
     DEF Next, Step, Failure

\* What the program holds, has seen of the files and has answered, at every step.
THEOREM CommandLineInvariant == Spec => []CommandLineInv
BY CommandLineInit, CommandLineStep, PTL DEF Spec

\* The exit code is 0 if and only if nothing failed, however many inputs of a
\* session came after the failure (main.c, run_repl and main).
THEOREM ExitCodeCorrect == Spec => []ExitTellsFailure
<1>1. CommandLineInv => ExitTellsFailure
  BY DEF CommandLineInv, FlagTellsFailure
<1> QED
  BY <1>1, CommandLineInvariant, PTL

\* However often the file is edited between its look-ups, what runs for a name
\* is what the file held then, or the name itself where there was no such file
\* (main.c, load_sql_from_argument and read_entire_file).
THEOREM NamedTextRuns == Spec => []RunsWhatWasNamed
<1>1. CommandLineInv => RunsWhatWasNamed
  BY DEF CommandLineInv, NameFollowed
<1> QED
  BY <1>1, CommandLineInvariant, PTL

\* Whatever failed before, at the prompt and at the end main has given back all
\* that it took, and at the end no index is loaded.  Only tokens of a text that
\* the lexer refused and what the executor lost of a statement that failed stay.
THEOREM GivenBackByMain == Spec => []OnlyLossesStayBehind
<1>1. CommandLineInv => OnlyLossesStayBehind
  BY DEF CommandLineInv, HeldAccounted, LostWith, Lost, OnlyLossesStayBehind
<1> QED
  BY <1>1, CommandLineInvariant, PTL

\* An input is refused as a path only where something of that name was there,
\* or where it is longer than a file name may be (main.c:470, main.c:135).
THEOREM RefusedPathsExist == Spec => []RefusedPathExists
<1>1. CommandLineInv => RefusedPathExists
  BY DEF CommandLineInv
<1> QED
  BY <1>1, CommandLineInvariant, PTL

=============================================================================
