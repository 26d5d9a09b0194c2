SPECIFICATION FairBenchSpec
CONSTANTS
  t1 = t1
  p1 = p1
  a = a
  b = b
  c = c
  header = header
  broken = broken
  blank = blank
  Table = {t1}
  Proc = {p1}
  Row = {a, b, c}
  Short = {}
  Garbled = {broken}
  Blank = blank
  Header = header
  LongRow = {}
  Parts <- OneColumnParts
  Joined = broken
  Torn = {broken}
  LostFlush = FALSE
  AnyRow = AnyRow
  InitFiles <- OldFiles
  MaxChunks = 4
  MaxId = 3
  Runner = p1
  Generated <- DistinctRows
  BrokenHeader = broken
  Counts = {1, 3}
  Targets = {1, 3}
  QueryRepeat = 2
INVARIANTS PreparedIsDataSet RunSeesItsFile QueriesFindTheSame
PROPERTIES RunsEnd
CHECK_DEADLOCK FALSE
