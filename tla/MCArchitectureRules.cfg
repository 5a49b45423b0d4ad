CONSTANTS
  ModulePath <- Module
  File <- Files
  Target <- Targets
  RuleSet <- Rules
  Exception <- Exceptions
  NoRules = NoRules
  NoRule = NoRule
  NoLayer = NoLayer
  NoUse = NoUse
SPECIFICATION RulesSpec
INVARIANTS
  RulesTypeOK
  MostSpecificRuleDecides
PROPERTIES
  ExceptionsOnlyExcuse
