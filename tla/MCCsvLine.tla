----------------------------- MODULE MCCsvLine ------------------------------
(* Constants for model checking CsvLine.                                   *)
EXTENDS CsvLine

CONSTANTS
  x,          \* a character that means nothing
  ValueLen,   \* longest value of a row with two fields
  LineLen     \* longest typed line

Values(n) == SeqOf(Char \ {CR}, n)

\* Rows of one field, and shorter ones of two.
AllRows == {<<v>> : v \in Values(ValueLen + 1)}
           \cup {<<v, w>> : v \in Values(ValueLen), w \in Values(ValueLen)}
AllLines == SeqOf(Char, LineLen)
=============================================================================
