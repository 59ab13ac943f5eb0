SPECIFICATION CaseSpec
CONSTANTS
  None = None
  Torn = Torn
  FactsOf <- MCFactsOf
  CodeOf <- MCCodeOf
  BytesAt <- MCBytesAt
  Scenarios <- MCScenarios
INVARIANTS
  ValidatedInputsAgree
  CleanInputsAccepted
  SatisfiedIsObserved
  BoundAlignmentIsSameOrder
CHECK_DEADLOCK FALSE
