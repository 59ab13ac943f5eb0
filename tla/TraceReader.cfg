SPECIFICATION Spec
CONSTANTS
  Data <- MCData
  NoRequest = NoRequest
  NoFooter = NoFooter
  Events <- MCEvents
  Footers <- MCFooters
  CycleLimit = 4
INVARIANTS
  ReaderInv
  ParsedObservationsAdmitted
CHECK_DEADLOCK FALSE
