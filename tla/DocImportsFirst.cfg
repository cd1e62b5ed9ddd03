SPECIFICATION DocSpec
CONSTANTS
  MaxId = 4
  MaxAssocId = 0
  MaxDependencies = 1
  MaxEnumValues = 0
  Statements <- PackageStatementSet
  PackageStatements <- FieldPackages
PROPERTIES
  ImportsFirst
CHECK_DEADLOCK FALSE
