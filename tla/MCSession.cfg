SPECIFICATION BoundedSpec
CONSTANTS
  User = {u1, u2}
  NoUser = NoUser
  Revoke = FALSE
  MaxVersion = 1
  MaxObservers = 3
  MaxSignIns = 1
  MaxCalls = 4
  MaxUploads = 1
SYMMETRY Symmetry
CHECK_DEADLOCK FALSE
INVARIANTS
  TypeOK
  EventListIsMine
