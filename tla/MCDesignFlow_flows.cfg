SPECIFICATION Spec
CONSTANTS
  N = 4
  Composed = {2}
  Appearing <- MayAppear
  Disappearing <- Vanishes
  Invalidating <- OneAgain
  Steps <- MCSteps
  Exit <- MCExit
  Flows <- MCMixedFlows
  Outcomes = {"SUCCESS", "UNCHANGED"}
  MaxInvalidations = 2
  Shuffle = FALSE
  Asserts = TRUE
INVARIANTS
  TypeOK
  NeedsAreNecessary
  NoLostStep
  UpToDate
PROPERTIES
  RerunsAreCaused
  KeepsOrder
  Ends
CHECK_DEADLOCK FALSE
