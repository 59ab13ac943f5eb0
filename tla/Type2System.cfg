SPECIFICATION Spec
CONSTANTS
  Data <- MCData
  NoRequest = NoRequest
  Unknown = Unknown
  NoRun = NoRun
  NoContract = NoContract
  Programs <- MCPrograms
  OtherProgram <- P1
  ContractsUsed <- MCContracts
INVARIANTS
  VerifiedIsReal
  DeviationNeverContradicted
  ContradictedDidNotFire
  WithdrawnEvidenceStaysUnknown
  CompleteEvidenceVerifies
CHECK_DEADLOCK FALSE
