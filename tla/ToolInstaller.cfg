SPECIFICATION Spec
CONSTANTS
  first = first
  second = second
  Installers <- MCInstallers
  NoFile = NoFile
  MaxKills = 1
  MaxForeign = 1
SYMMETRY MCSymmetry
INVARIANTS
  PublishedIsWhole
  KilledNeverBlocks
PROPERTIES
  PassMeansInstalled
  ExistingUntouched
CHECK_DEADLOCK FALSE
