SPECIFICATION Spec
CONSTANTS
  LevelsInUse <- Templates
  Residences = {"GBR", "RUS", "PRK"}
  Images = {"passport", "selfie", "bill", "BLURRY_IMAGE", "expired", "expiring",
            "child's", "stranger's", "nameless", "altered", "partial", "forged",
            "worn", "registered", "syrian", "illegible", "licence", "mask",
            "no face", "crowd", "sunglasses", "still", "other face", "seen face",
            "own face", "old bill", "bad bill"}
  MaxTrouble = 1
  MaxRuns = 2
  MaxDocs = 3
INVARIANTS TypeOK RejectedOnFindings InOrderIsApproved
PROPERTIES DueDiligenceRatchets ApprovalRestsOnThisRun
CHECK_DEADLOCK FALSE
