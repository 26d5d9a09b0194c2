------------------------------ MODULE SqlParser -----------------------------
(***************************************************************************)
(* parse_statement: a recursive descent over the tokens of lex_sql, and    *)
(* the memory a statement owns.  A token is chosen when the parser first   *)
(* looks at it, so every token array the lexer can produce is read.  Texts *)
(* are compared without case: a word stands for all its spellings.         *)
(***************************************************************************)
EXTENDS Integers, Sequences

CONSTANTS
  Words,      \* the words of the input: keywords and others
  NameWords,  \* bound: the words that stand where a name or a value is expected
  Numbers, Strings,
  MaxTokens,  \* bound: the longest token array
  FirstItems, \* the first size of a string list's array
  Null

Marks == {"*", "=", ",", "(", ")", ";"}

Token ==
  [type : {"IDENTIFIER"}, text : Words]
  \cup [type : {"NUMBER"}, text : Numbers]
  \cup [type : {"STRING"}, text : Strings]
  \cup [type : Marks \cup {"END"}, text : {Null}]

\* Assumed of the constants, in StatementStages.
ParserAssumption ==
  /\ NameWords \subseteq Words
  /\ MaxTokens \in Nat \ {0}
  /\ FirstItems \in Nat \ {0}
  /\ Null \notin Words \cup Numbers \cup Strings

VARIABLES
  tokens,     \* the tokens looked at so far
  index,      \* tokens before the current one
  pc,         \* what parse_statement expects next, or what it answered
  statement,
  slots,      \* the sizes of the two lists' arrays
  identifier, \* the copy parse_identifier_list holds, Null if it holds none
  live        \* allocated blocks

vars == <<tokens, index, pc, statement, slots, identifier, live>>

EmptyStatement ==
  [type |-> "INSERT", table_name |-> Null, columns |-> <<>>, values |-> <<>>,
   select_all |-> FALSE, has_where |-> FALSE, where_column |-> Null, where_value |-> Null]

Answers == {"ok", "unsupported", "expected", "connector", "outOfMemory"}

-----------------------------------------------------------------------------
Init ==
  /\ tokens = <<>>
  /\ index = 0
  /\ pc = "statement"
  /\ statement = EmptyStatement
  /\ slots = [columns |-> 0, values |-> 0]
  /\ identifier = Null
  /\ live = 0

\* lex_sql ends every array with the only END.
Ended == tokens # <<>> /\ tokens[Len(tokens)].type = "END"

NamePlaces == {"table", "column", "selectList", "value", "whereColumn", "whereValue"}

\* The tokens that may stand at a place nobody has looked at.
Unseen ==
  {t \in Token :
     /\ Len(tokens) + 1 = MaxTokens => t.type = "END"
     /\ pc \in NamePlaces /\ t.type = "IDENTIFIER" => t.text \in NameWords}

\* current_token is t.  Behind END there is nothing to read.
Current(t) ==
  IF index < Len(tokens)
  THEN t = tokens[index + 1] /\ UNCHANGED tokens
  ELSE /\ ~Ended
       /\ t \in Unseen
       /\ tokens' = Append(tokens, t)

IsWord(t, word) == t.type = "IDENTIFIER" /\ t.text = word
IsName(t) == t.type = "IDENTIFIER"

\* Mutant of IsValue: everything is a value but what ends or continues the list.
IsValueLoose(t) == t.type \notin {",", ")"}

IsValue(t) == t.type \in {"STRING", "NUMBER", "IDENTIFIER"}

-----------------------------------------------------------------------------
(* Keywords and marks at fixed places: what is expected there, and what    *)
(* comes after it.                                                         *)

ExpectedWord == [into |-> "INTO", valuesWord |-> "VALUES", from |-> "FROM"]

ExpectedMark ==
  [columnsOpen |-> "(", columnsClose |-> ")", valuesOpen |-> "(", valuesClose |-> ")",
   equals |-> "=", semicolon |-> ";", end |-> "END"]

After ==
  [into |-> "table", columnsOpen |-> "column", columnsClose |-> "valuesWord",
   valuesWord |-> "valuesOpen", valuesOpen |-> "value", valuesClose |-> "semicolon",
   from |-> "table", equals |-> "whereValue", semicolon |-> "end", end |-> "ok"]

Fits(t) ==
  \/ pc \in DOMAIN ExpectedWord /\ IsWord(t, ExpectedWord[pc])
  \/ pc \in DOMAIN ExpectedMark /\ t.type = ExpectedMark[pc]
  \/ pc \in {"table", "column", "whereColumn"} /\ IsName(t)
  \/ pc = "selectList" /\ (t.type = "*" \/ IsName(t))
  \/ pc \in {"value", "whereValue"} /\ IsValue(t)

\* expect_keyword, expect_type
Fixed ==
  /\ pc \in DOMAIN After
  /\ \E t \in Token : Current(t) /\ Fits(t)
  /\ index' = index + 1
  /\ pc' = After[pc]
  /\ UNCHANGED <<statement, slots, identifier, live>>

-----------------------------------------------------------------------------
(* free_statement frees what the fields of the statement's type own.       *)

\* Blocks of a string list and its array.
ListBlocks(list) == Len(statement[list]) + (IF slots[list] > 0 THEN 1 ELSE 0)

StringBlocks(field) == IF statement[field] = Null THEN 0 ELSE 1

Owned ==
  StringBlocks("table_name") + ListBlocks("columns")
  + IF statement.type = "INSERT" THEN ListBlocks("values")
    ELSE StringBlocks("where_column") + StringBlocks("where_value")

Freed ==
  /\ statement' = [statement EXCEPT !.table_name = Null, !.columns = <<>>, !.values = <<>>,
                                    !.where_column = Null, !.where_value = Null]
  /\ slots' = [columns |-> 0, values |-> 0]

\* The parse fails: what the statement owns and what the list holds is freed.
Fail(answer) ==
  /\ pc' = answer
  /\ Freed
  /\ live' = live - Owned - (IF identifier = Null THEN 0 ELSE 1)
  /\ identifier' = Null
  /\ UNCHANGED index

\* The blocks that growing a full list makes.
ListFull(list) == Len(statement[list]) = slots[list]
Grown(list) ==
  IF ~ListFull(list) THEN slots
  ELSE [slots EXCEPT ![list] = IF @ = 0 THEN FirstItems ELSE 2 * @]
NewArray(list) == IF slots[list] = 0 THEN 1 ELSE 0

-----------------------------------------------------------------------------
(* The places where a text is kept.                                        *)

\* parse_identifier copies the word into a field.
Name(place, field, next) ==
  /\ pc = place
  /\ \E t \in Token :
       /\ Current(t)
       /\ IsName(t)
       /\ statement' = [statement EXCEPT ![field] = t.text]
  /\ live' = live + 1
  /\ index' = index + 1
  /\ pc' = next
  /\ UNCHANGED <<slots, identifier>>

TableName ==
  Name("table", "table_name", IF statement.type = "INSERT" THEN "columnsOpen" ELSE "where")

WhereColumn == Name("whereColumn", "where_column", "equals")

\* parse_identifier_list reads a word, and then pushes a second copy of it.
ReadIdentifier ==
  /\ pc \in {"column", "selectList"}
  /\ \E t \in Token : Current(t) /\ IsName(t) /\ identifier' = t.text
  /\ live' = live + 1
  /\ index' = index + 1
  /\ pc' = "pushColumn"
  /\ UNCHANGED <<statement, slots>>

PushIdentifier ==
  /\ pc = "pushColumn"
  /\ statement' = [statement EXCEPT !.columns = Append(@, identifier)]
  /\ slots' = Grown("columns")
  /\ live' = live + NewArray("columns")  \* one copy is made, the other freed
  /\ identifier' = Null
  /\ pc' = "moreColumns"
  /\ UNCHANGED <<tokens, index>>

\* Mutant of PushFails: the copy that could not be pushed is not freed.
PushFailsKeepsCopy ==
  /\ pc = "pushColumn"
  /\ pc' = "outOfMemory"
  /\ Freed
  /\ live' = live - Owned
  /\ identifier' = Null
  /\ UNCHANGED <<tokens, index>>

PushFails ==
  /\ pc = "pushColumn"
  /\ Fail("outOfMemory")
  /\ UNCHANGED tokens

\* A comma asks for one more.
More(place, item, next) ==
  /\ pc = place
  /\ \E t \in Token :
       /\ Current(t)
       /\ IF t.type = "," THEN index' = index + 1 /\ pc' = item
          ELSE UNCHANGED index /\ pc' = next
  /\ UNCHANGED <<statement, slots, identifier, live>>

MoreColumns ==
  More("moreColumns", "column", IF statement.type = "INSERT" THEN "columnsClose" ELSE "from")

MoreValues == More("moreValues", "value", "valuesClose")

\* parse_value_list
Value ==
  /\ pc = "value"
  /\ \E t \in Token :
       /\ Current(t)
       /\ IsValue(t)
       /\ statement' = [statement EXCEPT !.values = Append(@, t.text)]
  /\ slots' = Grown("values")
  /\ live' = live + 1 + NewArray("values")
  /\ index' = index + 1
  /\ pc' = "moreValues"
  /\ UNCHANGED identifier

\* parse_condition_value
WhereValue ==
  /\ pc = "whereValue"
  /\ \E t \in Token :
       /\ Current(t)
       /\ IsValue(t)
       /\ statement' = [statement EXCEPT !.where_value = t.text]
  /\ live' = live + 1
  /\ index' = index + 1
  /\ pc' = "connector?"
  /\ UNCHANGED <<slots, identifier>>

\* A copy or a longer list cannot be allocated for a token that fits.
CopyFails ==
  /\ pc \in {"table", "column", "selectList", "whereColumn", "value", "whereValue"}
  /\ \E t \in Token : Current(t) /\ Fits(t) /\ t.type # "*"
  /\ Fail("outOfMemory")

-----------------------------------------------------------------------------
(* The choices of parse_statement, parse_select and parse_insert.          *)

Dispatch ==
  /\ pc = "statement"
  /\ \E t \in Token :
       /\ Current(t)
       /\ \/ /\ IsWord(t, "INSERT")
             /\ pc' = "into"
             /\ UNCHANGED statement
          \/ /\ IsWord(t, "SELECT")
             /\ pc' = "selectList"
             /\ statement' = [statement EXCEPT !.type = "SELECT"]
  /\ index' = index + 1
  /\ UNCHANGED <<slots, identifier, live>>

\* There is no statement yet to free.
Unsupported ==
  /\ pc = "statement"
  /\ \E t \in Token : Current(t) /\ ~IsWord(t, "INSERT") /\ ~IsWord(t, "SELECT")
  /\ pc' = "unsupported"
  /\ UNCHANGED <<index, statement, slots, identifier, live>>

Star ==
  /\ pc = "selectList"
  /\ \E t \in Token : Current(t) /\ t.type = "*"
  /\ statement' = [statement EXCEPT !.select_all = TRUE]
  /\ index' = index + 1
  /\ pc' = "from"
  /\ UNCHANGED <<slots, identifier, live>>

Where ==
  /\ pc = "where"
  /\ \E t \in Token :
       /\ Current(t)
       /\ IF IsWord(t, "WHERE") THEN index' = index + 1 /\ pc' = "whereColumn"
          ELSE UNCHANGED index /\ pc' = "semicolon"
  /\ UNCHANGED <<statement, slots, identifier, live>>

\* reject_unsupported_where_connector
Connects(t) == IsWord(t, "AND") \/ IsWord(t, "OR")

Connector ==
  /\ pc = "connector?"
  /\ \E t \in Token : Current(t) /\ Connects(t)
  /\ Fail("connector")

\* Mutant of NoConnector: the WHERE clause is read but not used.
NoConnectorUnused ==
  /\ pc = "connector?"
  /\ \E t \in Token : Current(t) /\ ~Connects(t)
  /\ pc' = "semicolon"
  /\ UNCHANGED <<index, statement, slots, identifier, live>>

NoConnector ==
  /\ pc = "connector?"
  /\ \E t \in Token : Current(t) /\ ~Connects(t)
  /\ statement' = [statement EXCEPT !.has_where = TRUE]
  /\ pc' = "semicolon"
  /\ UNCHANGED <<index, slots, identifier, live>>

\* set_expected_token_error
Expected ==
  /\ pc \in DOMAIN After \cup NamePlaces
  /\ \E t \in Token : Current(t) /\ ~Fits(t)
  /\ Fail("expected")

FreeStatement ==
  /\ pc = "ok"
  /\ pc' = "freed"
  /\ Freed
  /\ live' = live - Owned
  /\ UNCHANGED <<tokens, index, identifier>>

Step ==
  \/ Dispatch \/ Unsupported \/ Fixed \/ Star \/ TableName \/ WhereColumn
  \/ ReadIdentifier \/ PushIdentifier \/ MoreColumns \/ Value \/ MoreValues
  \/ WhereValue \/ Where \/ Connector \/ NoConnector \/ Expected

Next == Step \/ CopyFails \/ PushFails \/ FreeStatement

\* The parser is sequential code that runs; nothing is assumed of its caller.
FairSpec == Init /\ [][Next]_vars /\ WF_vars(Step)

-----------------------------------------------------------------------------
(* The language, written as what a token array must look like.             *)

Literal(t) == t.type \in {"STRING", "NUMBER", "IDENTIFIER"}

\* Items at the odd places, commas at the even ones.
IsList(s, Item(_)) ==
  /\ Len(s) % 2 = 1
  /\ \A i \in 1..Len(s) : IF i % 2 = 1 THEN Item(s[i]) ELSE s[i].type = ","

Types(s) == [i \in 1..Len(s) |-> s[i].type]

\* INSERT INTO name ( names ) VALUES ( values ) ; with ")" at i
InsertForm(s, i) ==
  /\ Len(s) >= 11
  /\ i \in 6..(Len(s) - 6 + 1)
  /\ IsWord(s[1], "INSERT") /\ IsWord(s[2], "INTO") /\ IsName(s[3]) /\ s[4].type = "("
  /\ IsList(SubSeq(s, 5, i - 1), IsName)
  /\ s[i].type = ")" /\ IsWord(s[i + 1], "VALUES") /\ s[i + 2].type = "("
  /\ IsList(SubSeq(s, i + 3, Len(s) - 3), Literal)
  /\ Types(SubSeq(s, Len(s) - 2, Len(s))) = <<")", ";", "END">>

\* SELECT * or names FROM name [WHERE name = value] ; with FROM at i
SelectForm(s, i) ==
  /\ i \in 3..(Len(s) - 3)
  /\ IsWord(s[1], "SELECT")
  /\ (i = 3 /\ s[2].type = "*") \/ IsList(SubSeq(s, 2, i - 1), IsName)
  /\ IsWord(s[i], "FROM") /\ IsName(s[i + 1])
  /\ LET rest == SubSeq(s, i + 2, Len(s))
     IN  \/ Types(rest) = <<";", "END">>
         \/ /\ Len(rest) = 6
            /\ IsWord(rest[1], "WHERE") /\ IsName(rest[2])
            /\ rest[3].type = "=" /\ Literal(rest[4])
            /\ Types(SubSeq(rest, 5, 6)) = <<";", "END">>

IsStatement(s) == \E i \in 1..Len(s) : InsertForm(s, i) \/ SelectForm(s, i)

\* The texts of the items from one place to another.
Items(first, last) ==
  [k \in 1..((last - first) \div 2 + 1) |-> tokens[first + 2 * (k - 1)].text]

InsertMeaning(i) ==
  [EmptyStatement EXCEPT
     !.table_name = tokens[3].text,
     !.columns = Items(5, i - 1),
     !.values = Items(i + 3, Len(tokens) - 3)]

SelectMeaning(i) ==
  LET filtered == tokens[i + 2].type # ";"
  IN  [EmptyStatement EXCEPT
         !.type = "SELECT",
         !.table_name = tokens[i + 1].text,
         !.select_all = tokens[2].type = "*",
         !.columns = IF tokens[2].type = "*" THEN <<>> ELSE Items(2, i - 1),
         !.has_where = filtered,
         !.where_column = IF filtered THEN tokens[i + 3].text ELSE Null,
         !.where_value = IF filtered THEN tokens[i + 5].text ELSE Null]

\* Whatever begins a statement becomes one with the end of one of these.
Word(w) == [type |-> "IDENTIFIER", text |-> w]
Mark(m) == [type |-> m, text |-> Null]
AName == Word(CHOOSE n \in Words : TRUE)

Models ==
  { <<Word("INSERT"), Word("INTO"), AName, Mark("("), AName, Mark(")"), Word("VALUES"),
      Mark("("), AName, Mark(")"), Mark(";"), Mark("END")>>,
    <<Word("SELECT"), AName, Word("FROM"), AName, Word("WHERE"), AName, Mark("="), AName,
      Mark(";"), Mark("END")>> }

Endings == UNION {{SubSeq(s, i, Len(s)) : i \in 1..(Len(s) + 1)} : s \in Models}

MayBecomeStatement(s) == \E rest \in Endings : IsStatement(s \o rest)

-----------------------------------------------------------------------------
(* Properties.                                                             *)

\* The range of every variable.
TypeOK ==
  /\ tokens \in Seq(Token) /\ Len(tokens) <= MaxTokens
  /\ index \in 0..Len(tokens)
  /\ pc \in DOMAIN After \cup Answers \cup
            {"statement", "table", "column", "selectList", "pushColumn", "moreColumns",
             "value", "moreValues", "where", "whereColumn", "whereValue", "connector?",
             "freed"}
  /\ statement.type \in {"INSERT", "SELECT"}
  /\ statement.columns \in Seq(Words)
  /\ statement.values \in Seq(Words \cup Numbers \cup Strings)
  /\ slots \in [{"columns", "values"} -> Nat]
  /\ identifier \in Words \cup {Null}
  /\ live \in Nat

\* The parser never looks behind the END token, which nothing but END's own
\* place lets it pass: the array is not read out of bounds.
StopsAtEnd == Ended /\ pc \notin Answers \cup {"freed"} => index < Len(tokens)

\* An accepted array is a statement of the language, and the syntax tree is
\* what it says: the lists in their order, the filter used iff it is written.
TreeSaysWhatIsWritten ==
  pc = "ok" =>
    \E i \in 1..Len(tokens) :
      \/ InsertForm(tokens, i) /\ statement = InsertMeaning(i)
      \/ SelectForm(tokens, i) /\ statement = SelectMeaning(i)

\* What is refused could not have become a statement, whatever came next; AND
\* and OR get their own message only where a filter is complete.
RefusedIsHopeless ==
  /\ pc \in {"unsupported", "expected", "connector"} => ~MayBecomeStatement(tokens)
  /\ pc = "connector" =>
       MayBecomeStatement(SubSeq(tokens, 1, Len(tokens) - 1)) /\ Len(tokens) > 6
       /\ IsWord(tokens[Len(tokens) - 4], "WHERE")

\* A parse that failed, for whatever reason, owns nothing; a statement owns
\* exactly what free_statement frees.
NothingIsLost ==
  /\ pc \in (Answers \ {"ok"}) \cup {"freed"} => live = 0
  /\ pc = "ok" => live = Owned

\* Every token array is parsed or refused.
ParseReturns == pc = "statement" ~> pc \in Answers

=============================================================================
