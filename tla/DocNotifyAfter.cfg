SPECIFICATION DocSpec
CONSTANTS
  MaxId = 4
  MaxAssocId = 0
  MaxDependencies = 0
  MaxEnumValues = 0
  Statements <- BodyStatements
  PackageStatements <- OnePackage
PROPERTIES
  NotifyAfterCapabilities
CHECK_DEADLOCK FALSE
