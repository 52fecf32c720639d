SPECIFICATION OverlapSpec
CONSTANTS
  User = {u1, u2}
  Event = {e1}
  Blank = Blank
  NoUser = NoUser
  NoEvent = NoEvent
  NoView = NoView
  NoForm = NoForm
  Organisers = {u1}
  Editors = {u1}
  MaxBusy = 2
  MaxChanges = 3
  MaxUploads = 1
SYMMETRY Symmetry
CHECK_DEADLOCK FALSE
PROPERTY FollowsRules
INVARIANTS
  TypeOK
  SentinelKept
  OnlyConsenting
  OrganiserKept
  InvitesFirst
  NoSilentJoin
  RostersSound
