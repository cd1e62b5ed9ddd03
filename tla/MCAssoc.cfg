SPECIFICATION Spec
CONSTANTS
  MaxId = 4
  MaxAssocId = 2
  MaxDependencies = 0
  MaxEnumValues = 0
  Statements <- AssocStatements
  PackageStatements <- OnePackage
INVARIANTS
  OwnAssociationFound
  AssocsWellFormed
  AbortsExplained
PROPERTIES
  SystemBodyOnlyGrows
  ErrorLeavesStore
CHECK_DEADLOCK FALSE
