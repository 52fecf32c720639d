SPECIFICATION BoundedSpec
CONSTANTS
  User = {u1, u2}
  NoUser = NoUser
  Revoke = TRUE
  MaxVersion = 1
  MaxObservers = 3
  MaxSignIns = 1
  MaxCalls = 3
  MaxUploads = 1
SYMMETRY Symmetry
CHECK_DEADLOCK FALSE
INVARIANT EmailIsOwn
