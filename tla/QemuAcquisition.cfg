SPECIFICATION SystemSpec
CONSTANTS
  Entry = Entry
  Other = Other
  NoTarget = NoTarget
  NoEnd = NoEnd
  Nothing = Nothing
  Torn = Torn
  Limit = 4
  MaxDamage = 1
  Callers = {"first", "second"}
  Codes <- MCCodes
  Pc <- MCPc
  Declared <- MCDeclared
INVARIANTS
  OneOwner
  DoneIsLoadable
PROPERTIES
  ImplementsStore
  AcquisitionEnds
CHECK_DEADLOCK FALSE
