SPECIFICATION Spec
CONSTANTS
  Data <- MCData
  NoRequest = NoRequest
  Unknown = Unknown
  Programs <- MCPrograms
  Foreign <- MCForeign
  MaxForeign = 1
INVARIANTS
  BoundIsTrue
  ExactAccessesAreBound
  DenialMeansLoss
CHECK_DEADLOCK FALSE
