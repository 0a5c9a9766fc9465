SPECIFICATION SplitSpec
CONSTANTS
  MaxFragments = 4
  MaxDefinitions = 2
  Files <- MCFiles
INVARIANTS
  SplitTypeOK
  LinesKept
  CutsWhereTheServerDoes
  ColumnsAsWritten
  LinesAsWritten
