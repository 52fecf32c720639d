SPECIFICATION BoundedSpec
CONSTANTS
  Offset <- OffsetSmall
  Year = 3
  Horizon = 4
  NoRequest = NoRequest
  MaxOrders = 3
  Date = {1, 4}
CHECK_DEADLOCK FALSE
INVARIANTS
  TypeOK
  PendingIsChecked
  OnTime
