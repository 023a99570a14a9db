SPECIFICATION Spec
CONSTANTS
  Sessions = {s1, s2}
  Grants = {g1}
  NoGrant = NoGrant
  None = None
  Requests = {r1, r2}
  StateLimit = 1
  MaxEvents = 3
  MaxConnects = 1
  MaxSwitches = 1
SYMMETRY Symmetry
INVARIANTS TypeOK ReceiptsExpire ShownIsGranted
PROPERTY RevisionsAdvance
CHECK_DEADLOCK FALSE
