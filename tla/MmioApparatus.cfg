SPECIFICATION SystemSpec
CONSTANTS
  Data <- MCData
  NoRequest = NoRequest
  NoFooter = NoFooter
  Setups <- MCSetups
  PowerOn <- MCPowerOn
  MaxCycle = 6
  MaxEpoch = 2
INVARIANTS
  ParsedTraceReplays
  ParsedTraceIsWholeRun
  CompleteRunParses
  AnomalyLocated
  DamageDetected
CHECK_DEADLOCK FALSE
