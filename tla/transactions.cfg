\* Eight series of transfers; two accounts of the same tenant or with the same
\* face, and one document between them.
SPECIFICATION MCSpec
CONSTANTS
  Scenarios <- MCScenarios
  MaxAttempts = 2
  Accounts = {a1, a2}
  DupTenants = {t1, t2}
  Faces = {f1, f2}
  Identities = {i1, i2}
  Numbers = {n1}
  MaxRows = 2
  MaxActs = 3
INVARIANTS NeverSettlesUnreleased BlockedHasOwner StructuringIsCaught SameFaceSameName RepeatIsNoticed
PROPERTIES ReleaseStands
SYMMETRY MCSymmetry
CHECK_DEADLOCK FALSE
