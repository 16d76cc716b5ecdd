\* Four requests, so that a resubmission's run overlaps the first, on a level
\* that rejects automatically.
SPECIFICATION Spec
CONSTANTS
  MaxDocs = 2
  MaxRequests = 4
  Images = {"good", "expired", "forged"}
  AutoReject = TRUE
INVARIANTS RejectionNeedsFinding
PROPERTIES ApprovalNeedsReading
CHECK_DEADLOCK FALSE
