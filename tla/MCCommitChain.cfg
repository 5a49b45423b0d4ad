CONSTANTS
  Path = {a}
  ChangeSetId = {c1, c2, c3}
  Outsider = {o1}
  Reader = {r1}
  Absent = Absent
  MaxOps = 2
SYMMETRY Symmetry
SPECIFICATION Spec
INVARIANTS
  LostOnlyToOverlap
  NoDirtyRead
  ReadsMissOnlyTheGap
