SPECIFICATION BaseSpec
CONSTANTS
  Commits <- MCCommits
  Snapshots <- MCSnapshots
  Trees <- MCTrees
  MaxMoves = 2
INVARIANTS
  BaseTypeOK
  JudgedAgainstTheCommit
  FailsOnlyWhenItMust
  NothingMadeUp
