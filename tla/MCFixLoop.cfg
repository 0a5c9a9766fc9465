SPECIFICATION Spec
CONSTANT Inputs <- IncludeInputs
INVARIANT FixedStaysFixed
PROPERTIES
  FixKeepsCarried
  FixStaysInTheTable
  FixNeverMovesTables
  FixesConverge
