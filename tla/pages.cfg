SPECIFICATION Spec
SYMMETRY Interchangeable
CONSTANTS
  Viewer = v
  Owner = o
  Author = a
  Post = {p1}
  Comment = {c1, c2}
  Text = {t1, t2}
  NoText = NoText
  MaxWrites = 2
INVARIANTS TypeOK PartsOfOneMoment LastingRefusal
