SPECIFICATION Spec
CONSTANTS
  Minor = 10
  ShareScale = 1000
  Currencies = {"TRY", "USD", "EUR"}
  Base = "TRY"
  Rate <- MCRate
  Projects <- AllProjects
INVARIANTS
  NoEngineAssertion
  EffectsKeepSignAndSize
  CostOrderChangesNothing
  LeavingACostOutMovesOnlyTheTotal
CHECK_DEADLOCK FALSE
