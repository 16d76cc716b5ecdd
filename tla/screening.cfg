SPECIFICATION Spec
CONSTANTS
  Entries = {"same", "namesake", "translit"}
  Likeness <- MCLikeness
  Feeds <- MCFeeds
  MinFeed = 2
  MaxAge = 1
  MaxDays = 3
  MaxRuns = 2
  MaxDecisions = 1
  MaxTrouble = 1
  MaxAttempts = 2
INVARIANTS TypeOK SettledByAnalyst UndecidedIsOpen NewMatchIsLoud
PROPERTIES FrozenForSomebodyNew NeverBlinded
CHECK_DEADLOCK FALSE
