SPECIFICATION CrashFreeSpec
CONSTANTS
  User = {u1, u2, u3}
  Event = {e1}
  Blank = Blank
  NoUser = NoUser
  NoEvent = NoEvent
  NoView = NoView
  NoForm = NoForm
  Organisers = {u1}
  Editors = {}
  MaxBusy = 2
  MaxChanges = 3
  MaxUploads = 1
SYMMETRY Symmetry
CHECK_DEADLOCK FALSE
INVARIANT AcceptedIsMember
