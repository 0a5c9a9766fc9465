SPECIFICATION Spec
CONSTANTS
  Dialect = "mysql"
  Statements <- Common
  Connections <- MCConnections
  MaxFiles = 2
  MaxLines = 5
INVARIANTS
  MySQLTypeOK
  MySQLLeavesBehind
  MySQLNamesDistinct
  MySQLPointsAtDeclarations
  PlacedWhereTheRunnerIs
