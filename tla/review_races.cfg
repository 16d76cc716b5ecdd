\* Reviewers and the case endpoints racing verification runs that fail.
SPECIFICATION Spec
CONSTANTS
  Reviewers = {ana, sam}
  Senior = {sam}
  MaxAttempts = 2
  MaxStalls = 0
  ReverifyAfter = FALSE
  Budgets <- Races
INVARIANTS TypeOK RowMatchesTimeline QueuedIsVisible AutomatedDecisionRecorded
PROPERTIES FreshReadsRespectFinal
CHECK_DEADLOCK FALSE
