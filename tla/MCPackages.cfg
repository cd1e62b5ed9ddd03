SPECIFICATION OrderlySpec
CONSTANTS
  MaxId = 4
  MaxAssocId = 0
  MaxDependencies = 1
  MaxEnumValues = 1
  Statements <- PackageStatementSet
  PackageStatements <- FieldPackages
INVARIANTS
  FieldReferences
  ComponentsVisible
PROPERTIES
  ImplementsScopes
CHECK_DEADLOCK FALSE
