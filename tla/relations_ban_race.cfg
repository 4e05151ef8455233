SPECIFICATION Spec
CONSTANTS
  User = {a, b}
  NoUser = NoUser
  Request = {r1, r2}
  Faults = FALSE
INVARIANT BannedAreNotFriends
