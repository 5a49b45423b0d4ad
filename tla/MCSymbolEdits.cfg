SPECIFICATION Spec
CONSTANTS
  File <- MCFile
  TestFile <- MCTestFile
  GeneratedFile <- MCGeneratedFile
  Name <- MCName
  Private <- MCPrivate
  Start <- MCStart
  Changed <- MCChanged
  Source <- MCSource
  NoText = NoText
  MaxChanges = 2
INVARIANTS
  TypeOK
  DeletesAreHarmless
PROPERTIES
  HashGuards
  CycleReportsOneEdit
CHECK_DEADLOCK FALSE
