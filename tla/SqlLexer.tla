------------------------------ MODULE SqlLexer ------------------------------
(***************************************************************************)
(* lex_sql: a text is cut into tokens, one character or one token a step.  *)
(* Every allocation may fail.  Positions count from 0, as in the source.   *)
(***************************************************************************)
EXTENDS Integers, Sequences, FiniteSetsExt

CONSTANTS
  Letter, Digit,     \* is_identifier_continue; Letter includes '_' and UTF-8 bytes
  Blank, Symbol,     \* Symbol: * = , ( ) ;  each is a token type of its own
  Quote, Other,
  Texts,             \* the SQL texts that may be read
  FirstTokens, FirstBytes, \* the first sizes of the token array and of a literal's buffer
  Null

Char == Letter \cup Digit \cup Blank \cup Symbol \cup {Quote} \cup Other

\* Assumed of the constants, in StatementStages.
LexerAssumption ==
  /\ Texts \subseteq Seq(Char)
  /\ FirstTokens \in Nat \ {0}
  /\ FirstBytes \in Nat \ {0, 1}
  /\ Null \notin Seq(Char)
  /\ Quote \notin Letter \cup Digit \cup Blank \cup Symbol \cup Other
  /\ Symbol \cap {"IDENTIFIER", "NUMBER", "STRING", "END"} = {}

VARIABLES
  input,
  index,
  pc,        \* where the lexer stands, or what it has answered
  start,     \* where the word or literal began
  buffer,    \* the characters of the literal, Null before the first
  capacity,  \* the size of the literal's buffer
  tokens,
  slots,     \* TokenArray.capacity
  live       \* allocated blocks that have not been freed

vars == <<input, index, pc, start, buffer, capacity, tokens, slots, live>>

Answers == {"ok", "unexpected", "unterminated", "outOfMemory"}

-----------------------------------------------------------------------------
Init ==
  /\ input \in Texts
  /\ index = 0
  /\ pc = "scan"
  /\ start = 0
  /\ buffer = Null
  /\ capacity = 0
  /\ tokens = <<>>
  /\ slots = 0
  /\ live = 0

AtEnd == index = Len(input)
Here == input[index + 1]
Sees(class) == ~AtEnd /\ Here \in class

\* Mutant of NextIsQuote: the character before is compared.
PreviousIsQuote == index > 0 /\ input[index] = Quote

\* input[index + 1], which is the terminator behind the last character.
NextIsQuote == index + 1 < Len(input) /\ input[index + 2] = Quote

-----------------------------------------------------------------------------
(* push_token.                                                             *)

Full == Len(tokens) = slots

Grown == IF slots = 0 THEN FirstTokens ELSE 2 * slots

\* realloc of an empty array makes a block.
ArrayBlock == IF slots = 0 THEN 1 ELSE 0

\* The token is stored; the caller frees the freed blocks it still holds.
PushToken(type, text, position, freed) ==
  /\ tokens' = Append(tokens, [type |-> type, text |-> text, position |-> position])
  /\ slots' = IF Full THEN Grown ELSE slots
  /\ live' = live + 1 + ArrayBlock - freed

\* realloc fails, or the array has grown and copy_string fails.
PushFails(freed) ==
  /\ \/ UNCHANGED slots /\ live' = live - freed
     \/ Full /\ slots' = Grown /\ live' = live + ArrayBlock - freed
  /\ pc' = "outOfMemory"
  /\ UNCHANGED <<input, index, start, tokens>>

-----------------------------------------------------------------------------
(* lex_sql                                                                 *)

SkipBlank ==
  /\ pc = "scan"
  /\ Sees(Blank)
  /\ index' = index + 1
  /\ UNCHANGED <<input, pc, start, buffer, capacity, tokens, slots, live>>

PushSymbol ==
  /\ pc = "scan"
  /\ Sees(Symbol)
  /\ PushToken(Here, <<Here>>, index, 0)
  /\ index' = index + 1
  /\ UNCHANGED <<input, pc, start, buffer, capacity>>

Unexpected ==
  /\ pc = "scan"
  /\ Sees(Other)
  /\ pc' = "unexpected"
  /\ UNCHANGED <<input, index, start, buffer, capacity, tokens, slots, live>>

PushEnd ==
  /\ pc = "scan"
  /\ AtEnd
  /\ PushToken("END", <<>>, index, 0)
  /\ pc' = "ok"
  /\ UNCHANGED <<input, index, start, buffer, capacity>>

ScanFails ==
  /\ pc = "scan"
  /\ Sees(Symbol) \/ AtEnd
  /\ PushFails(0)
  /\ UNCHANGED <<buffer, capacity>>

-----------------------------------------------------------------------------
(* lex_word                                                                *)

\* is_identifier_start, which digits pass too
StartWord ==
  /\ pc = "scan"
  /\ Sees(Letter \cup Digit)
  /\ pc' = "word"
  /\ start' = index
  /\ UNCHANGED <<input, index, buffer, capacity, tokens, slots, live>>

WordChar ==
  /\ pc = "word"
  /\ Sees(Letter \cup Digit)
  /\ index' = index + 1
  /\ UNCHANGED <<input, pc, start, buffer, capacity, tokens, slots, live>>

WordType(text) == IF Head(text) \in Digit THEN "NUMBER" ELSE "IDENTIFIER"

WordEnds == pc = "word" /\ ~Sees(Letter \cup Digit)

PushWord ==
  /\ WordEnds
  /\ LET word == SubSeq(input, start + 1, index)
     IN  PushToken(WordType(word), word, start, 0)
  /\ pc' = "scan"
  /\ UNCHANGED <<input, index, start, buffer, capacity>>

WordFails ==
  /\ WordEnds
  /\ PushFails(0)
  /\ UNCHANGED <<buffer, capacity>>

-----------------------------------------------------------------------------
(* lex_string                                                              *)

OpenQuote ==
  /\ pc = "scan"
  /\ Sees({Quote})
  /\ pc' = "string"
  /\ start' = index
  /\ index' = index + 1
  /\ UNCHANGED <<input, buffer, capacity, tokens, slots, live>>

\* A doubled quote is one character of the value.
Escaped == Sees({Quote}) /\ NextIsQuote

Length == IF buffer = Null THEN 0 ELSE Len(buffer)

Short == Length + 1 >= capacity

\* Mutant of Passed: the second quote of a doubled one is left for the next step.
PassedOne == 1

Passed == IF Escaped THEN 2 ELSE 1

StringChar ==
  /\ pc = "string"
  /\ ~AtEnd
  /\ Here = Quote => Escaped
  /\ buffer' = IF buffer = Null THEN <<Here>> ELSE Append(buffer, Here)
  /\ IF Short
     THEN capacity' = IF capacity = 0 THEN FirstBytes ELSE 2 * capacity
     ELSE UNCHANGED capacity
  /\ live' = live + IF Short /\ buffer = Null THEN 1 ELSE 0
  /\ index' = index + Passed
  /\ UNCHANGED <<input, pc, start, tokens, slots>>

BufferBlock == IF buffer = Null THEN 0 ELSE 1

\* The literal is given up; buffer and capacity are locals of lex_string.
DropBuffer(answer) ==
  /\ pc' = answer
  /\ live' = live - BufferBlock
  /\ buffer' = Null
  /\ capacity' = 0
  /\ UNCHANGED <<input, index, start, tokens, slots>>

\* realloc cannot grow the buffer.
StringCharFails ==
  /\ pc = "string"
  /\ ~AtEnd
  /\ Here = Quote => Escaped
  /\ Short
  /\ DropBuffer("outOfMemory")

CloseQuote ==
  /\ pc = "string"
  /\ Sees({Quote})
  /\ ~NextIsQuote
  /\ index' = index + 1
  /\ pc' = "closed"
  /\ UNCHANGED <<input, start, buffer, capacity, tokens, slots, live>>

RunOut ==
  /\ pc = "string"
  /\ AtEnd
  /\ pc' = "closed"
  /\ UNCHANGED <<input, index, start, buffer, capacity, tokens, slots, live>>

\* The check looks at the last character read, whatever it was read as.
LastIsQuote == input[index] = Quote

Unterminated ==
  /\ pc = "closed"
  /\ ~LastIsQuote
  /\ DropBuffer("unterminated")

\* An empty literal gets a buffer now, copy_string("").
PushString ==
  /\ pc = "closed"
  /\ LastIsQuote
  /\ PushToken("STRING", IF buffer = Null THEN <<>> ELSE buffer, start, BufferBlock)
  /\ pc' = "scan"
  /\ buffer' = Null
  /\ capacity' = 0
  /\ UNCHANGED <<input, index, start>>

PushStringFails ==
  /\ pc = "closed"
  /\ LastIsQuote
  /\ PushFails(BufferBlock)
  /\ buffer' = Null
  /\ capacity' = 0

-----------------------------------------------------------------------------
FreeTokens ==
  /\ pc \in Answers
  /\ live' = live - Len(tokens) - (IF slots > 0 THEN 1 ELSE 0)
  /\ tokens' = <<>>
  /\ slots' = 0
  /\ pc' = "freed"
  /\ UNCHANGED <<input, index, start, buffer, capacity>>

Step ==
  \/ SkipBlank \/ PushSymbol \/ Unexpected \/ PushEnd
  \/ StartWord \/ WordChar \/ PushWord
  \/ OpenQuote \/ StringChar \/ CloseQuote \/ RunOut \/ Unterminated \/ PushString

Fails == ScanFails \/ WordFails \/ StringCharFails \/ PushStringFails

Next == Step \/ Fails \/ FreeTokens

\* The lexer is a loop that runs; nothing is assumed of its caller.
FairSpec == Init /\ [][Next]_vars /\ WF_vars(Step)

-----------------------------------------------------------------------------
(* Properties.                                                             *)

Token == [type : Symbol \cup {"IDENTIFIER", "NUMBER", "STRING", "END"},
          text : Seq(Char), position : Nat]

\* The range of every variable; the index never passes the terminator.
TypeOK ==
  /\ input \in Texts
  /\ index \in 0..Len(input)
  /\ pc \in {"scan", "word", "string", "closed", "freed"} \cup Answers
  /\ start \in 0..index
  /\ buffer \in Seq(Char) \cup {Null}
  /\ capacity \in Nat
  /\ tokens \in Seq(Token)
  /\ slots \in Nat
  /\ live \in Nat

\* The literal and the terminator that line 189 writes fit the buffer, and the
\* token array has a slot for every token.
BufferHoldsTerminator ==
  /\ buffer # Null => Len(buffer) < capacity
  /\ Len(tokens) <= slots

Doubled(text) ==
  LET upTo[n \in 0..Len(text)] ==
        IF n = 0 THEN <<>>
        ELSE upTo[n - 1] \o (IF text[n] = Quote THEN <<Quote, Quote>> ELSE <<text[n]>>)
  IN  upTo[Len(text)]

\* How a token is written in SQL.
Spelling(t) ==
  IF t.type = "STRING" THEN <<Quote>> \o Doubled(t.text) \o <<Quote>> ELSE t.text

EndOf(t) == t.position + Len(Spelling(t))

IsWord(t) == t.type \in {"IDENTIFIER", "NUMBER"}

BlankBetween(from, to) ==
  \A i \in (from + 1)..to : input[i] \in Blank

\* The tokens, written out at their positions, are the text, and nothing but
\* blanks stands between them; words and literals are as long as they can be,
\* so 'it''s' is one literal and 20a one number.  Only the quote that closes
\* the last literal may be missing, see RefusedForCause.
TokensSpellInput ==
  /\ \A i \in 1..Len(tokens) :
       LET t == tokens[i]
           here == SubSeq(input, t.position + 1, Min({EndOf(t), Len(input)}))
       IN  /\ \/ here = Spelling(t)
              \/ t.type = "STRING" /\ here \o <<Quote>> = Spelling(t)
           /\ t.position <= index
           /\ i = 1 => BlankBetween(0, t.position)
           /\ i > 1 =>
                LET s == tokens[i - 1]
                IN  /\ BlankBetween(EndOf(s), t.position)
                    /\ IsWord(s) /\ IsWord(t) => EndOf(s) < t.position
                    /\ s.type = "STRING" /\ t.type = "STRING" => EndOf(s) < t.position
  /\ pc = "ok" =>
       /\ \A i \in 1..Len(tokens) : tokens[i].type = "END" <=> i = Len(tokens)
       /\ tokens[Len(tokens)].position = Len(input)

QuotesUpTo(n) == Cardinality({i \in 1..n : input[i] = Quote})

\* A text is refused for a cause: an unknown character outside every literal,
\* or an odd number of quotes.  Of those with an odd number the comment at
\* lexer.c:173 says that they are wrong; the check behind it lets those pass
\* that end in a quote, and no others.
RefusedForCause ==
  /\ pc = "ok" /\ QuotesUpTo(Len(input)) % 2 = 1 => input[Len(input)] = Quote
  /\ pc = "unexpected" => Here \in Other /\ QuotesUpTo(index) % 2 = 0
  /\ pc = "unterminated" => QuotesUpTo(Len(input)) % 2 = 1

\* Whether it succeeded or not, lex_sql leaves its caller the tokens and their
\* array and nothing else; after free_tokens nothing is left.
OnlyTokensStayAllocated ==
  pc \in Answers \cup {"freed"} =>
    live = Len(tokens) + (IF slots > 0 THEN 1 ELSE 0)

\* Every text is cut up or refused.
LexReturns == pc = "scan" ~> pc \in Answers

=============================================================================
