SPECIFICATION Spec
CONSTANTS
  Sink = "clickhouse"
  Database <- MCDatabase
  Statements <- Followed
  Sections <- MCSections
  MaxLines = 6
INVARIANTS
  SinkTypeOK
  SinkLeavesBehind
  SinkNamesDistinct
  SinkPointsAtDeclarations
  ViewVerdictIsReal
