CONSTANTS
  NumPaths = 2
  Run = {r1, r2}
  Mute = {r2}
  Outsider = {o1}
  MaxOutside = 2
  NoFile = NoFile
  Half = Half
SPECIFICATION Spec
CHECK_DEADLOCK FALSE
INVARIANTS
  TypeOK
  WritesAreValidated
  NoHalfText
  ReportIsExact
  WrittenIsPrefix
  TempIsOwned
PROPERTIES
  UnracedWriteOnlyAdds
