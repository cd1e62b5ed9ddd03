SPECIFICATION Spec
CONSTANTS
  MaxId = 5
  MaxAssocId = 0
  MaxDependencies = 0
  MaxEnumValues = 0
  Statements <- BodyStatements
  PackageStatements <- OnePackage
PROPERTIES
  SystemBodyOnlyGrows
  NotifyFreezesCaps
CHECK_DEADLOCK FALSE
