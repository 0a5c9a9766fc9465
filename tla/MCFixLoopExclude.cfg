SPECIFICATION Spec
CONSTANT Inputs <- ExcludeInputs
PROPERTY FixKeepsCarried
