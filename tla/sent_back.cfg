\* Everyone who sends an applicant back, and the monitoring of one who was
\* approved, against runs.
SPECIFICATION Spec
CONSTANTS
  Reviewers = {sam}
  Senior = {sam}
  MaxAttempts = 1
  MaxStalls = 0
  ReverifyAfter = TRUE
  Budgets <- SentBack
INVARIANTS Inductive

CHECK_DEADLOCK FALSE
