SPECIFICATION SSpec
CONSTANTS
  User = {a, b}
  NoUser = NoUser
  Request = {r1, r2}
  Faults = TRUE
INVARIANTS TypeOK NobodyAlone Consent RefusedUnderBan BrokenOffCleanly
PROPERTY CallsAreAtomic
