SPECIFICATION Spec
CONSTANTS
  N = 4
  Composed = {2}
  Appearing <- Nothing
  Disappearing <- Nothing
  Invalidating <- TwoAgain
  Steps <- MCSteps
  Exit <- MCExit
  Flows <- MCFlows
  Outcomes = {"SUCCESS"}
  MaxInvalidations = 1
  Shuffle = FALSE
  Asserts = TRUE
INVARIANTS
  InvalidatedIsReexecuted
CHECK_DEADLOCK FALSE
