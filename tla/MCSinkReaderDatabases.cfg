SPECIFICATION Spec
CONSTANTS
  Sink = "clickhouse"
  Database <- MCDatabase
  Statements <- Databases
  Sections <- MCSections
  MaxLines = 4
INVARIANT LaterCreateReplaces
