SPECIFICATION Spec
CONSTANTS
  Quote = Quote
  Comma = Comma
  Space = Space
  CR = CR
  x = x
  Plain = {x}
  ValueLen = 1
  LineLen = 2
  Rows <- AllRows
  TypedLines <- AllLines
  NoRow = NoRow
  Null = Null
INVARIANTS RowComesBack
CHECK_DEADLOCK FALSE
