SPECIFICATION Spec
CONSTANT Inputs <- MapperInputs
INVARIANT StableOutput
