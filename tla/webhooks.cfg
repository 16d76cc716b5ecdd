\* Two events to one endpoint, one fault, a breaker that opens on two failures.
SPECIFICATION Spec
CONSTANTS
  Events = {e1, e2}
  MaxAttempts = 2
  JobAttempts = 2
  BreakAt = 2
  MaxFaults = 1
INVARIANTS AbandonedWhenExhausted
PROPERTIES DeliversAtLeastOnce
CHECK_DEADLOCK FALSE
