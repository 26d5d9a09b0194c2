-------------------------- MODULE StatementStages --------------------------
(***************************************************************************)
(* The four machines one SQL text goes through: lexer, parser, and the     *)
(* binding of an INSERT or a SELECT.  Each takes whatever the one before   *)
(* it may hand over, so none waits for another here: a behaviour is that   *)
(* of one stage, and the machines share variables as their loops share the *)
(* names.  The order of the stages, and what execute_sql_string does when  *)
(* one fails, is in CommandLine.                                           *)
(***************************************************************************)
EXTENDS Integers, Sequences

CONSTANTS
  Stages,  \* the stages a run looks at
  Letter, Digit, BlankChars, Symbol, Quote, Other, Texts, FirstTokens, FirstBytes,
  Words, NameWords, Numbers, Strings, MaxTokens, FirstItems,
  Statements, BadValues, Empty,
  Queries, Tables, Malformed, BlankLine, IntOf, NoInt,
  Schemas, IdColumn, Null

VARIABLES
  stage,
  pc, index,
  tokens, slots, live,                   \* lexer and parser
  input, start, buffer, capacity,        \* lexer
  statement,                             \* parser and INSERT
  identifier,                            \* parser
  schema, held,                          \* INSERT and SELECT
  assigned, row, stored,                 \* INSERT
  query, table, headers, selected_indexes, where_index, id, rows, overran  \* SELECT

tokenVars == <<tokens, slots, live>>
lexerVars == <<input, start, buffer, capacity>>
bindingVars == <<schema, held>>
insertVars == <<assigned, row, stored>>
selectVars ==
  <<query, table, headers, selected_indexes, where_index, id, rows, overran>>

vars ==
  <<stage, pc, index, tokenVars, lexerVars, statement, identifier, bindingVars, insertVars,
    selectVars>>

Lexer == INSTANCE SqlLexer WITH Blank <- BlankChars
Parser == INSTANCE SqlParser
Insert == INSTANCE InsertBinding
Select == INSTANCE SelectBinding WITH Blank <- BlankLine

ASSUME StagesAssumption ==
  /\ Stages \subseteq {"lex", "parse", "insert", "select"}
  /\ Lexer!LexerAssumption
  /\ Parser!ParserAssumption
  /\ Insert!InsertAssumption
  /\ Select!SelectAssumption

-----------------------------------------------------------------------------
(* Where a stage runs, the variables of the others are Null.               *)

NoTokens == tokens = Null /\ slots = Null /\ live = Null
NoLexer == input = Null /\ start = Null /\ buffer = Null /\ capacity = Null
NoBinding == schema = Null /\ held = Null
NoInsert == assigned = Null /\ row = Null /\ stored = Null
NoSelect ==
  /\ query = Null /\ table = Null /\ headers = Null /\ selected_indexes = Null
  /\ where_index = Null /\ id = Null /\ rows = Null /\ overran = Null

Init ==
  /\ stage \in Stages
  /\ \/ /\ stage = "lex"
        /\ Lexer!Init
        /\ statement = Null /\ identifier = Null
        /\ NoBinding /\ NoInsert /\ NoSelect
     \/ /\ stage = "parse"
        /\ Parser!Init
        /\ NoLexer /\ NoBinding /\ NoInsert /\ NoSelect
     \/ /\ stage = "insert"
        /\ Insert!Init
        /\ identifier = Null
        /\ NoTokens /\ NoLexer /\ NoSelect
     \/ /\ stage = "select"
        /\ Select!Init
        /\ statement = Null /\ identifier = Null
        /\ NoTokens /\ NoLexer /\ NoInsert

OutsideLexer == <<stage, statement, identifier, bindingVars, insertVars, selectVars>>
OutsideParser == <<stage, lexerVars, bindingVars, insertVars, selectVars>>
OutsideInsert == <<stage, identifier, tokenVars, lexerVars, selectVars>>
OutsideSelect == <<stage, statement, identifier, tokenVars, lexerVars, insertVars>>

LexNext == stage = "lex" /\ Lexer!Next /\ UNCHANGED OutsideLexer
ParseNext == stage = "parse" /\ Parser!Next /\ UNCHANGED OutsideParser
InsertNext == stage = "insert" /\ Insert!Next /\ UNCHANGED OutsideInsert
SelectNext == stage = "select" /\ Select!Next /\ UNCHANGED OutsideSelect

Next == LexNext \/ ParseNext \/ InsertNext \/ SelectNext

\* What the code does next when nothing fails, and where it must fail.
Goes ==
  \/ stage = "lex" /\ Lexer!Step /\ UNCHANGED OutsideLexer
  \/ stage = "parse" /\ Parser!Step /\ UNCHANGED OutsideParser
  \/ stage = "insert" /\ Insert!Step /\ UNCHANGED OutsideInsert
  \/ stage = "select" /\ Select!Goes /\ UNCHANGED OutsideSelect

Spec == Init /\ [][Next]_vars

\* Every stage is sequential code that runs.
FairSpec == Spec /\ WF_vars(Goes)

-----------------------------------------------------------------------------
(* Properties.  Those of a stage are explained in its module.              *)

\* The range of every variable, in each stage.
TypeOK ==
  /\ stage = "lex" => Lexer!TypeOK
  /\ stage = "parse" => Parser!TypeOK
  /\ stage = "insert" => Insert!TypeOK
  /\ stage = "select" => Select!TypeOK

\* Nothing is read or written outside an array: lex_sql keeps a place for the
\* terminator of a literal and a slot for every token, parse_statement never
\* reads behind the END token, and execute_select reads places that the row has.
\* The exception is a SELECT of more columns than the schema has, which writes
\* behind selected_indexes (EveryColumnHasASlot); what follows such a write is
\* undefined, and nothing is claimed of it.
AccessesStayInBounds ==
  /\ stage = "lex" => Lexer!BufferHoldsTerminator
  /\ stage = "parse" => Parser!StopsAtEnd
  /\ stage = "select" => Select!AccessesStayInBounds

\* The tokens lex_sql makes are the text: nothing is lost, split or joined.
TokensSpellInput == stage = "lex" => Lexer!TokensSpellInput

\* What parse_statement accepts is a statement, and its tree says the same.
TreeSaysWhatIsWritten == stage = "parse" => Parser!TreeSaysWhatIsWritten

\* The row execute_insert stores has each named value in its named column.
StoredRowIsWhatWasNamed == stage = "insert" => Insert!StoredRowIsWhatWasNamed

\* execute_select answers with the requested values of exactly the rows that
\* pass the filter, by index and by scan.
AnswerIsTheQuery == stage = "select" => Select!AnswerIsTheQuery

\* What is refused, other than for lack of memory, is wrong: lex_sql refuses only
\* wrong texts, parse_statement what could not become a statement, execute_insert
\* what could not be carried out, and then stores nothing, and execute_select
\* wrong names, wrong values and files whose lines do not fit the schema.
OnlyWrongIsRefused ==
  /\ stage = "lex" => Lexer!RefusedForCause
  /\ stage = "parse" => Parser!RefusedIsHopeless
  /\ stage = "insert" => Insert!RefusedForCause
  /\ stage = "select" => Select!RefusedForCause

\* Whatever call fails, each stage gives back what it took but for these: the
\* tokens lex_sql has made (lexer.c:231), the rows a SELECT has collected when it
\* ends at a line or cannot copy a row (executor.c:690, 554), and the fields of a
\* line that cannot be parsed while an id is looked up or given out (storage.c:344,
\* 393).  A failed parse owns nothing, and free_statement frees a whole statement.
\* The index's own nodes are in BPlusTree, and what load_schema took for a schema
\* it refuses is outside: the stages begin with a schema that is loaded.
OnlyKnownLosses ==
  /\ stage = "lex" => Lexer!OnlyTokensStayAllocated
  /\ stage = "parse" => Parser!NothingIsLost
  /\ stage = "insert" => Insert!OnlyFieldsAreLost
  /\ stage = "select" => Select!OnlyRowsAndFieldsAreLost

\* executor.c:602: selected_indexes holds an entry for each column of the output.
EveryColumnHasASlot == stage = "select" => Select!EveryColumnHasASlot

\* Every text is cut up or refused, every token array is parsed or refused, and
\* every statement is answered.
StagesReturn ==
  <>(\/ stage = "lex" /\ pc \in Lexer!Answers
     \/ stage = "parse" /\ pc \in Parser!Answers
     \/ stage = "insert" /\ pc \in Insert!Answers
     \/ stage = "select" /\ pc \in Select!Answers)

=============================================================================
