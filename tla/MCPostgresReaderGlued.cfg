SPECIFICATION Spec
CONSTANTS
  Dialect = "postgres"
  Statements <- WithGluedKeys
  Connections <- MCConnections
  MaxFiles = 2
  MaxLines = 5
INVARIANT PostgresLeavesBehind
