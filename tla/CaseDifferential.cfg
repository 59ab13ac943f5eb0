SPECIFICATION CaseSpec
CONSTANTS
  None = None
  Torn = Torn
  FactsOf <- MCFactsOf
  CodeOf <- MCCodeOf
  BytesAt <- MCBytesAt
  Scenarios <- MCScenarios
INVARIANTS
  CaseDifferentialAgrees
CHECK_DEADLOCK FALSE
