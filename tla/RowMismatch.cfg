SPECIFICATION Spec
CONSTANTS
  Event = {e1, e2}
  MaxNotes = 2
  MaxObservers = 1
CHECK_DEADLOCK FALSE
INVARIANT RowOpensItsEvent
