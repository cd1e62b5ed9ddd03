SPECIFICATION DocSpec
CONSTANTS
  MaxId = 4
  MaxAssocId = 0
  MaxDependencies = 0
  MaxEnumValues = 0
  Statements <- DeclarationStatements
  PackageStatements <- OnePackage
INVARIANTS
  EnumNamesUnique
CHECK_DEADLOCK FALSE
