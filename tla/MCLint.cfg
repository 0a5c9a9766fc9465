SPECIFICATION Spec
CONSTANT Invocations <- MCInvocations
INVARIANTS
  LintTypeOK
  NothingEscapes
  DisableOnlyHides
  LeftOutNeverVanishes
  ReportedMarkersAreUseless
