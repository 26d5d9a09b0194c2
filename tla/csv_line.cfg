SPECIFICATION Spec
CONSTANTS
  Quote = Quote
  Comma = Comma
  Space = Space
  CR = CR
  x = x
  Plain = {x}
  ValueLen = 2
  LineLen = 5
  Rows <- AllRows
  TypedLines <- AllLines
  NoRow = NoRow
  Null = Null
INVARIANTS TypeOK WrittenRowComesBack CommasSeparate
CHECK_DEADLOCK FALSE
