CONSTANTS
  Path = {a, b}
  ChangeSetId = {c1, c2}
  Outsider = {o1}
  Reader = {}
  Absent = Absent
  MaxOps = 1
SYMMETRY Symmetry
SPECIFICATION Spec
INVARIANTS
  TypeOK
  ChangedIsStaged
PROPERTIES
  ViewChangesExplained
  TornOnlyUnpinned
  ImplementsStore
