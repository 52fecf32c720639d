SPECIFICATION BoundedSpec
CONSTANTS
  Event = {e1, e2}
  MaxNotes = 2
  MaxObservers = 2
  MaxTogether = 3
  MaxReloads = 2
CHECK_DEADLOCK FALSE
INVARIANTS
  TypeOK
  LatestRowsLast
  BadgeCounts
PROPERTY EveryNoteListed
