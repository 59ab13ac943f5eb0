SPECIFICATION FirmwareSpec
CONSTANTS
  None = None
  Nothing = Nothing
  Registers = {"a", "sp"}
  Zero = "zero"
  Upper = 2
  Word = 16
  Narrow = 8
  Samples <- MCSamples
  MaxFunctionEdges = 1
  MaxSiteEdges = 2
  Cfgs <- MCCfgs
  Programs <- MCPrograms
INVARIANTS
  FactsAreTrue
  WitnessesValidate
  ReachedIsReachable
CHECK_DEADLOCK FALSE
