SPECIFICATION BoundedSpec
CONSTANTS
  User = {u1, u2}
  NoUser = NoUser
  Place = {p1, p2}
  Nameless = {p2}
  Unset = Unset
  NoAddress = NoAddress
  NoPlace = NoPlace
  NoEvent = NoEvent
  MaxForms = 2
  MaxGeocodes = 2
  MaxSearches = 2
SYMMETRY Symmetry
CHECK_DEADLOCK FALSE
INVARIANTS
  TypeOK
  UploadedComplete
  PinShowsLocation
  EntryHasEvent
  NamesOrganiser
PROPERTY EventKeepsOrganiser
