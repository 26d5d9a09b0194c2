------------------------------ MODULE CsvLine -------------------------------
(***************************************************************************)
(* One line of a table file: how csv_escape_field and append_row_csv write *)
(* a row, and how csv_parse_line reads a line back, one character a step.  *)
(* The line is one INSERT wrote or one a user typed into the file.         *)
(***************************************************************************)
EXTENDS Integers, Sequences, FiniteSets, SequencesExt

CONSTANTS
  Quote, Comma, Space, CR,  \* Space stands for blanks and tabs
  Plain,      \* the other characters
  Rows,       \* rows INSERT writes: sequences of values, a value is a string of Char
  TypedLines, \* lines a user may have written
  NoRow,      \* the line was not written by INSERT
  Null

Char == {Quote, Comma, Space, CR} \cup Plain

\* validate_insert_columns has refused values with line ends.
ASSUME RowAssumption ==
  /\ Quote # Comma /\ Quote # Space /\ Quote # CR
  /\ Comma # Space /\ Comma # CR /\ Space # CR
  /\ Plain \cap {Quote, Comma, Space, CR} = {}
  /\ Rows \subseteq Seq(Seq(Char \ {CR})) \ {<<>>}
  /\ TypedLines \subseteq Seq(Char)
  /\ NoRow \notin Rows
  /\ Null \notin Seq(Char)

VARIABLES
  row,                \* the row that was written
  line,               \* the line that is read
  cursor,
  in_quotes,
  just_closed_quote,
  buffer,             \* the field so far, Null before its first character
  fields,             \* the fields that are complete
  result              \* "parsing", "ok", "malformed" or "outOfMemory"

vars == <<row, line, cursor, in_quotes, just_closed_quote, buffer, fields, result>>

-----------------------------------------------------------------------------
(* Writing.                                                                *)

NeedsQuotes(v) == Contains(v, Quote) \/ Contains(v, Comma)

\* Mutant of Doubled: quotes are copied as they are.
DoubledNot(v) == v

Doubled(v) ==
  FlattenSeq([i \in 1..Len(v) |-> IF v[i] = Quote THEN <<Quote, Quote>> ELSE <<v[i]>>])

\* csv_escape_field
Escaped(v) ==
  IF v = <<>> THEN <<Quote, Quote>>
  ELSE IF NeedsQuotes(v) THEN <<Quote>> \o Doubled(v) \o <<Quote>>
  ELSE v

\* The fields of a row as append_row_csv writes them.
Line(values) ==
  FlattenSeq([i \in 1..Len(values) |->
                IF i = 1 THEN Escaped(values[i]) ELSE <<Comma>> \o Escaped(values[i])])

-----------------------------------------------------------------------------
(* Reading.                                                                *)

Init ==
  /\ \/ row \in Rows /\ line = Line(row)
     \/ row = NoRow /\ line \in TypedLines
  /\ cursor = 1
  /\ in_quotes = FALSE
  /\ just_closed_quote = FALSE
  /\ buffer = Null
  /\ fields = <<>>
  /\ result = "parsing"

Parsing == result = "parsing"
AtEnd == cursor > Len(line)
Sees(c) == ~AtEnd /\ line[cursor] = c
NextIs(c) == cursor < Len(line) /\ line[cursor + 1] = c

Text == IF buffer = Null THEN <<>> ELSE buffer

\* trim_whitespace
Trim(s) ==
  LET ink == {i \in 1..Len(s) : s[i] # Space}
  IN  IF ink = {} THEN <<>> ELSE SubSeq(s, Min(ink), Max(ink))

Reject == result' = "malformed" /\ UNCHANGED <<row, line, cursor, in_quotes, just_closed_quote,
                                               buffer, fields>>

\* The field gets a character, or not, and the cursor moves n on.
Take(s, n) ==
  /\ buffer' = IF s = <<>> THEN buffer ELSE Text \o s
  /\ cursor' = cursor + n

\* Mutant of DoubledQuote: the cursor moves past both quotes and one more.
DoubledQuoteFar ==
  /\ Parsing
  /\ in_quotes
  /\ Sees(Quote)
  /\ NextIs(Quote)
  /\ Take(<<Quote>>, 3)
  /\ UNCHANGED <<row, line, in_quotes, just_closed_quote, fields, result>>

DoubledQuote ==
  /\ Parsing
  /\ in_quotes
  /\ Sees(Quote)
  /\ NextIs(Quote)
  /\ Take(<<Quote>>, 2)
  /\ UNCHANGED <<row, line, in_quotes, just_closed_quote, fields, result>>

ClosingQuote ==
  /\ Parsing
  /\ in_quotes
  /\ Sees(Quote)
  /\ ~NextIs(Quote)
  /\ in_quotes' = FALSE
  /\ just_closed_quote' = TRUE
  /\ Take(<<>>, 1)
  /\ UNCHANGED <<row, line, fields, result>>

Unterminated == Parsing /\ in_quotes /\ AtEnd /\ Reject

QuotedChar ==
  /\ Parsing
  /\ in_quotes
  /\ ~AtEnd
  /\ ~Sees(Quote)
  /\ Take(<<line[cursor]>>, 1)
  /\ UNCHANGED <<row, line, in_quotes, just_closed_quote, fields, result>>

FieldText == IF just_closed_quote THEN Text ELSE Trim(Text)

FieldEnds ==
  /\ Parsing
  /\ ~in_quotes
  /\ AtEnd \/ Sees(Comma)
  /\ fields' = Append(fields, FieldText)
  /\ buffer' = Null
  /\ just_closed_quote' = FALSE
  /\ IF AtEnd THEN result' = "ok" /\ UNCHANGED cursor
     ELSE cursor' = cursor + 1 /\ UNCHANGED result
  /\ UNCHANGED <<row, line, in_quotes>>

OpeningQuote ==
  /\ Parsing
  /\ ~in_quotes
  /\ Sees(Quote)
  /\ buffer = Null
  /\ in_quotes' = TRUE
  /\ Take(<<>>, 1)
  /\ UNCHANGED <<row, line, just_closed_quote, fields, result>>

\* A character outside quotes that neither ends the field nor opens a quote.
AtBareChar ==
  /\ Parsing
  /\ ~in_quotes
  /\ ~AtEnd
  /\ ~Sees(Comma)
  /\ ~(Sees(Quote) /\ buffer = Null)

AfterQuoteRejected == AtBareChar /\ just_closed_quote /\ ~Sees(Space) /\ Reject

\* Mutant of BareChar: line ends inside the line are kept.
BareCharAny ==
  /\ AtBareChar
  /\ just_closed_quote => Sees(Space)
  /\ Take(<<line[cursor]>>, 1)
  /\ UNCHANGED <<row, line, in_quotes, just_closed_quote, fields, result>>

BareChar ==
  /\ AtBareChar
  /\ just_closed_quote => Sees(Space)
  /\ Take(IF Sees(CR) THEN <<>> ELSE <<line[cursor]>>, 1)
  /\ UNCHANGED <<row, line, in_quotes, just_closed_quote, fields, result>>

\* append_character, copy_string or string_list_push has no memory.
OutOfMemory ==
  /\ Parsing
  /\ result' = "outOfMemory"
  /\ UNCHANGED <<row, line, cursor, in_quotes, just_closed_quote, buffer, fields>>

Step ==
  \/ DoubledQuote \/ ClosingQuote \/ Unterminated \/ QuotedChar \/ FieldEnds
  \/ OpeningQuote \/ AfterQuoteRejected \/ BareChar

Next == Step \/ OutOfMemory

Spec == Init /\ [][Next]_vars

-----------------------------------------------------------------------------
(* Properties.                                                             *)

\* The range of every variable; the cursor never passes the line's end.
TypeOK ==
  /\ row \in Rows \cup {NoRow}
  /\ line \in Seq(Char)
  /\ cursor \in 1..(Len(line) + 1)
  /\ in_quotes \in BOOLEAN
  /\ just_closed_quote \in BOOLEAN
  /\ buffer \in Seq(Char) \cup {Null}
  /\ fields \in Seq(Seq(Char))
  /\ result \in {"parsing", "ok", "malformed", "outOfMemory"}

\* A line INSERT wrote is never refused, which would stop every later SELECT of
\* the table, and splits into as many fields as the row had.  Whatever a value
\* contains, each field that has been read is the value that was written; only
\* a value written without quotes loses its outer blanks.
WrittenRowComesBack ==
  row # NoRow =>
    /\ result # "malformed"
    /\ result = "ok" => Len(fields) = Len(row)
    /\ \A i \in 1..Len(fields) :
         fields[i] = IF NeedsQuotes(row[i]) THEN row[i] ELSE Trim(row[i])

Commas == {i \in 1..Len(line) : line[i] = Comma}

\* at numbers the commas from left to right.
NumbersCommas(at) ==
  /\ \A i, j \in DOMAIN at : i < j => at[i] < at[j]
  /\ \A c \in Commas : \E i \in DOMAIN at : at[i] = c

\* The text between two positions, without line ends.
Between(first, last) ==
  FlattenSeq([i \in 1..(last - first + 1) |->
                IF line[first + i - 1] = CR THEN <<>> ELSE <<line[first + i - 1]>>])

\* A line without quotes is never refused; its fields are what stands between
\* the commas.
CommasSeparate ==
  ~Contains(line, Quote) =>
    /\ result # "malformed"
    /\ result = "ok" =>
         \E at \in [1..(Len(fields) - 1) -> Commas] :
           /\ NumbersCommas(at)
           /\ \A i \in 1..Len(fields) :
                fields[i] = Trim(Between(IF i = 1 THEN 1 ELSE at[i - 1] + 1,
                                         IF i = Len(fields) THEN Len(line) ELSE at[i] - 1))

\* docs/test-cases.md:188: at the offset append returned the same row is read.
RowComesBack == row # NoRow /\ result = "ok" => fields = row

=============================================================================
