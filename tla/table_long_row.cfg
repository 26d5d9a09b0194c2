SPECIFICATION Spec
CONSTANTS
  t1 = t1
  t2 = t2
  p1 = p1
  p2 = p2
  a = a
  b = b
  long = long
  shortRow = shortRow
  badQuote = badQuote
  blank = blank
  header = header
  Table = {t1}
  Proc = {p1}
  Row = {a, b}
  Short = {shortRow}
  Garbled = {badQuote}
  Blank = blank
  Header = header
  LongRow = {long}
  Parts <- OneColumnParts
  Joined = shortRow
  Torn = {}
  LostFlush = FALSE
  AnyRow = AnyRow
  InitFiles <- PlainFiles
  MaxChunks = 3
  MaxId = 2
INVARIANTS IndexMatchesFile
