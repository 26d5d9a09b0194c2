SPECIFICATION FairSpec
CONSTANTS
  Stages = {"select"}
  a = a
  digit = digit
  blank = blank
  mark = mark
  q = q
  o = o
  TextLen = 1
  Letter = {a}
  Digit = {digit}
  BlankChars = {blank}
  Symbol = {mark}
  Quote = q
  Other = {o}
  Texts <- AllTexts
  FirstTokens = 2
  FirstBytes = 2
  Words = {"INSERT", "INTO", "VALUES", "SELECT", "FROM", "WHERE", "AND", "OR", "name"}
  NameWords = {"FROM", "name"}
  Numbers = {number}
  Strings = {string}
  MaxTokens = 2
  FirstItems = 1
  idName = idName
  c = c
  d = d
  e = e
  v = v
  w = w
  newline = newline
  one = one
  padded = padded
  ListLen = 2
  Statements <- AllStatements
  BadValues = {newline}
  Empty = Empty
  Queries <- AllQueries
  Tables <- AllTables
  Malformed = Malformed
  BlankLine = BlankLine
  IntOf <- AllIntOf
  NoInt = NoInt
  Schemas <- AllSchemas
  IdColumn = idName
  Null = Null
INVARIANTS EveryColumnHasASlot
CHECK_DEADLOCK FALSE
