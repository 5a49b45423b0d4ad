CONSTANTS
  ModulePath <- Module
  File <- Files
  Target <- Targets
  RuleSet <- Rules
  Exception <- Exceptions
  Setup <- Setups
  MaxIssues = 2
  NoRules = NoRules
  NoRule = NoRule
  NoLayer = NoLayer
  NoUse = NoUse
SPECIFICATION Spec
INVARIANTS
  TypeOK
  FailOnAgreesWithScores
  ViolationsAlwaysShow
PROPERTIES
  NothingBadHelps
