SPECIFICATION DocSpec
CONSTANTS
  MaxId = 3
  MaxAssocId = 3
  MaxDependencies = 0
  MaxEnumValues = 0
  Statements <- AssocStatements
  PackageStatements <- OnePackage
INVARIANTS
  NoNestedAssociation
CHECK_DEADLOCK FALSE
