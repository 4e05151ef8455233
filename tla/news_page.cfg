SPECIFICATION Spec
CONSTANTS
  Owner = {o1, o2}
  Limit = 2
  MaxRows = 3
INVARIANTS TypeOK ShowsOnlyViewable NothingSkipped
