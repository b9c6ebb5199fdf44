SPECIFICATION Spec
CONSTANTS
  Users = {u1, u2}
  MaxModelId = 3
  MaxMembers = 1
  MaxOffers = 1
  NoUri = NoUri
  Self = Self
SYMMETRY UserSymmetry
INVARIANTS
  BaseIsRoot
  StoredFileIsItsOwn
PROPERTIES
  OnlyTheCreatorUpdates
CHECK_DEADLOCK FALSE
