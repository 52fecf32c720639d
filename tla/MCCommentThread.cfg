SPECIFICATION BoundedSpec
CONSTANTS
  User = {u1, u2, u3}
  Me = u1
  MaxComments = 2
  MaxOwed = 3
  MaxUntold = 3
  Writer = {u1, u2, u3}
  Zone = {0, 28800, 32400}
  Step = 60
  MaxAge = 1300000
CHECK_DEADLOCK FALSE
INVARIANTS
  TypeOK
  SettledShowsThread
  SendsTyped
  OthersTold
  LabelRounds
  NeverYounger
PROPERTY DeletesOwnRow
