SPECIFICATION Spec
CONSTANT Inputs <- MCInputsAll
INVARIANTS
  TypeOK
  EveryLeftOutColumnListedOnce
  NoSilentDefault
  ErrorsAreReal
  EditElsewhereSaysNothing
  ViewReportedIffItMisplaces
PROPERTY ImplementsVerdict
