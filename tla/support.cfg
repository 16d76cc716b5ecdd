SPECIFICATION Spec
CONSTANTS
  Texts <- MCTexts
  Applicants <- MCApplicants
  Runtimes = {"stub", "claude"}
  MaxTurns = 2
  MaxRuns = 2
  MaxStaff = 1
  MaxTrouble = 1
INVARIANTS PolicyOnTheWayOut InboxMatchesOutcome
PROPERTIES OnlyAnswersInFlight
CHECK_DEADLOCK FALSE
