SPECIFICATION DocSpec
CONSTANTS
  MaxId = 3
  MaxAssocId = 3
  MaxDependencies = 0
  MaxEnumValues = 0
  Statements <- RepeatedFieldStatements
  PackageStatements <- OnePackage
INVARIANTS
  NeverAborts
CHECK_DEADLOCK FALSE
