--------------------------- MODULE MCIndexedTable ---------------------------
(* Constants for model checking IndexedTable.                              *)
EXTENDS IndexedTableRefinement

CONSTANTS t1, t2, p1, p2, a, b, long, shortRow, badQuote, blank, header

\* A long row is cut into two chunks that parse: a table with one column.
OneColumnParts == [r \in LongRow |-> <<a, b>>]

\* A table as the program leaves it or a user prepares it: only a header, a
\* row, or a blank line between the header and a row.
PlainFiles == {<<header>>, <<header, blank>>}

\* Also a line with another number of fields and a line that does not parse.
DamagedFiles == {<<header, a>>, <<header, blank, shortRow>>, <<header, badQuote>>}
=============================================================================
