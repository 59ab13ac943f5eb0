SPECIFICATION Spec
CONSTANTS
  Entry = Entry
  Target = Target
  NoTarget = NoTarget
  NoEnd = NoEnd
  Limit = 4
  Codes = {"elf"}
  Pc <- MCPc
  Declared <- MCDeclared
INVARIANTS
  PluginInv
  StopsAsDeclared
CHECK_DEADLOCK FALSE
