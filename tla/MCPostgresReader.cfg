SPECIFICATION Spec
CONSTANTS
  Dialect = "postgres"
  Statements <- Common
  Connections <- MCConnections
  MaxFiles = 2
  MaxLines = 6
INVARIANTS
  PostgresTypeOK
  PostgresLeavesBehind
  PostgresNamesDistinct
  PostgresPointsAtDeclarations
