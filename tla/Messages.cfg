CONSTANTS
  Entries <- ThreeRows
  PageSize = 2
  TypeChoices <- OnlyMessages
  LevelChoices <- OnlyInfo
  SourceChoices <- OneSource
  Pages <- TwoPages
  MaxAsks = 3
SPECIFICATION TabSpec
INVARIANTS
  TabTypeOK
  RowsAnswerQuestion
  NothingMissing
CHECK_DEADLOCK FALSE
