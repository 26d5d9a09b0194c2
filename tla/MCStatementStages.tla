------------------------- MODULE MCStatementStages -------------------------
(* Constants for model checking StatementStages.                           *)
EXTENDS StatementStages, SequencesExt, TLC

CONSTANTS
  a, digit, blank, mark, q, o, TextLen,      \* characters
  idName, c, d, e, v, w, newline, one, padded, ListLen

Lists(S, n) == UNION {[1..k -> S] : k \in 1..n}

AllTexts == SeqOf({a, digit, blank, mark, q, o}, TextLen)

\* Three columns against schemas of one and two, one of which names a column
\* twice; e is in none of them.
AllStatements ==
  [columns : Lists({idName, c, d, e}, 3), values : Lists({v, w, newline}, 3)]
AllSchemas == {<<c>>, <<c, d>>, <<d, c>>, <<c, c>>}

\* one and padded are texts that read as the integer 1; v is none.
AllIntOf == (v :> NoInt) @@ (one :> 1) @@ (padded :> 1)

Everything == [select_all |-> TRUE, columns |-> <<>>]
Some(list) == [select_all |-> FALSE, columns |-> list]

NoFilter == [has_where |-> FALSE, where_column |-> Null, where_value |-> Null]
Filters ==
  {NoFilter} \cup
  [has_where : {TRUE}, where_column : {idName, c, d, e}, where_value : {v, one, padded}]

AllQueries ==
  {s @@ f : s \in {Everything} \cup {Some(l) : l \in Lists({idName, c, d, e}, ListLen)},
            f \in Filters}

\* Rows of one and of two fields, so that some misfit.
AllTables == {
  <<>>, <<BlankLine, <<v>>, <<one>>>>, <<<<v>>, <<one, v>>>>, <<<<one>>, Malformed>>,
  <<<<v, one>>, BlankLine, <<one, v>>>>, <<<<one, one>>, <<one, v>>, <<v, one>>>> }
=============================================================================
