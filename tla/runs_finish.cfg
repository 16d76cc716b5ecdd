\* Every accepted job ends, and decides unless it fails for good.
SPECIFICATION FairSpec
CONSTANTS
  Reviewers = {sam}
  Senior = {sam}
  MaxAttempts = 1
  MaxStalls = 1
  ReverifyAfter = FALSE
  Budgets <- Failing
PROPERTIES RunsFinish WaitingJobDecides
CHECK_DEADLOCK FALSE
