\* A run overwrites a final rejection made while it was running.
SPECIFICATION Spec
CONSTANTS
  Reviewers = {sam}
  Senior = {sam}
  MaxAttempts = 1
  MaxStalls = 0
  ReverifyAfter = FALSE
  Budgets <- OneDecision
PROPERTIES FinalRejectionSurvivesAutomation
CHECK_DEADLOCK FALSE
