SPECIFICATION Spec
CONSTANTS
  User = {a}
  None = None
  Id = {i1, i2, i3}
  Key = {k1, k2}
  Picture = {p1, p2}
  Request = {r1, r2}
  Cap <- Caps
  Hour = 1
SYMMETRY Interchangeable
INVARIANTS TypeOK CapHoldsUpToRaces PicturesAreTheirOwn EventsOnlyLostToFaults
