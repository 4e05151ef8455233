SPECIFICATION SFairSpec
CONSTANTS
  f = f  u1 = u1  u2 = u2  None = None
  e1 = e1  e2 = e2
  User <- Users
  Email = {e1, e2}
  Founders <- TheFounder
  InvitesPerUser = 1
  InviteOnly = FALSE
  Request = {r1, r2}
  Savers <- OneSaver
  Token = {t1, t2}
  Visit = {v1}
  Fold <- Lower
  MaxAtWork = 2
INVARIANTS TypeOK InvitesAddUp OneAccountPerEmail LoginEntersOwn
PROPERTIES SettingsStand OnlyOwnersAct RegistrationsEnd
