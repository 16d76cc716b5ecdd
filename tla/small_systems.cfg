\* Companies that may own each other in a circle of three; two documents in three
\* formats; two tenants, two writers and three numbers drawn.
SPECIFICATION MCSpec
CONSTANTS
  Companies = {"acme", "holding", "trust"}
  Persons = {"ada", "bob"}
  Listed = {"ada"}
  ParentOf <- MCParent
  Offshore = {"trust"}
  Customers = {"u1"}
  Extracts <- MCExtracts
  HandEdges <- MCHandEdges
  Depths = {2, 4}
  MaxPosts = 2
  MaxByHand = 1
  Year = 2026
  Documents <- MCDocuments
  Misreadings = {0, 1, 2, 3, 4, 5, 6, 7, 8, 9, 10, 16, 36}
  MaxSlips = 2
  Tenants = {t1, t2}
  Writers = {w1, w2}
  Facts = {a, b}
  MaxSeq = 3
INVARIANTS LittleDropped SanctionedHalfIsCaught OneSlipIsCaught HonestChain TamperingIsLocated
CHECK_DEADLOCK FALSE
