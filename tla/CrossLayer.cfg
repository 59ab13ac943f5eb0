\* The static side of the cross-layer comparison, on two sites or two primitives.
CONSTANTS
  Nothing = Nothing
  Raised = Raised
  Unspecified = Unspecified
  Machine = Machine
  User = User
  MaxBits = 3
  AddressBits = 3
  Worlds <- MCWorlds
  Contracts <- MCContracts
  Conditions <- MCConditions
SPECIFICATION Spec
INVARIANTS
  MaterializedIsValid
  MatchesAreTrue
  ComparisonsAreTrue
  TriggerVerdictsStand
  VerdictsNeverReverse
  TrueAccountsAgree
  CandidatesAreTrue
  CandidatesStand
CHECK_DEADLOCK FALSE
