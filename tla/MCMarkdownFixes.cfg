CONSTANTS
  PathTitle = "A"
  InitialLine <- PlainLines
  InitialLink <- FirstLinks
  MaxInitial = 3
  MaxLines = 16
  MaxBatch = 2
  MaxOutside = 1
  NoDoc = NoDoc
  NoFix = NoFix
SPECIFICATION Spec
INVARIANTS
  TypeOK
PROPERTIES
  FreshFixMendsItsHeading
  LinksMoveOnlyBelowTheirLike
  LoopComesToRest
