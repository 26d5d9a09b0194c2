SPECIFICATION FairSpec
CONSTANTS
  w = w
  path = path
  blank = blank
  sql = sql
  Execute = Execute
  File = File
  Help = Help
  Dash = Dash
  Unknown = Unknown
  Space = blank
  Path = path
  Words = {w, sql}
  LongWords = {sql}
  Exit = Exit
  Contents <- AllContents
  DirectoriesOpen = TRUE
  MaxArguments = 3
  MaxLines = 2
  MaxChunks = 2
  MaxEdits = 1
INVARIANTS ExitTellsFailure RunsWhatWasNamed OnlyLossesStayBehind RefusedPathExists
PROPERTIES ProgramEnds
CHECK_DEADLOCK FALSE
