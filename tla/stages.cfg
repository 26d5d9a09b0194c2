SPECIFICATION FairSpec
CONSTANTS
  Stages = {"lex", "parse", "insert", "select"}
  a = a
  digit = digit
  blank = blank
  mark = mark
  q = q
  o = o
  TextLen = 5
  Letter = {a}
  Digit = {digit}
  BlankChars = {blank}
  Symbol = {mark}
  Quote = q
  Other = {o}
  Texts <- AllTexts
  FirstTokens = 2
  FirstBytes = 2
  Words = {"INSERT", "INTO", "VALUES", "SELECT", "FROM", "WHERE", "AND", "OR", "name"}
  NameWords = {"FROM", "name"}
  Numbers = {number}
  Strings = {string}
  MaxTokens = 16
  FirstItems = 1
  idName = idName
  c = c
  d = d
  e = e
  v = v
  w = w
  newline = newline
  one = one
  padded = padded
  ListLen = 3
  Statements <- AllStatements
  BadValues = {newline}
  Empty = Empty
  Queries <- AllQueries
  Tables <- AllTables
  Malformed = Malformed
  BlankLine = BlankLine
  IntOf <- AllIntOf
  NoInt = NoInt
  Schemas <- AllSchemas
  IdColumn = idName
  Null = Null
INVARIANTS
  TypeOK AccessesStayInBounds OnlyWrongIsRefused OnlyKnownLosses
  TokensSpellInput TreeSaysWhatIsWritten StoredRowIsWhatWasNamed AnswerIsTheQuery
PROPERTIES StagesReturn
CHECK_DEADLOCK FALSE
