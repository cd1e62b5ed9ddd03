SPECIFICATION OrderlySpec
CONSTANTS
  MaxId = 5
  MaxAssocId = 0
  MaxDependencies = 0
  MaxEnumValues = 0
  Statements <- DeclarationStatements
  PackageStatements <- OnePackage
INVARIANTS
  TypeOK
  NamesUnique
  ContextResolves
  SystemForest
  FullNamesArePaths
PROPERTIES
  ErrorLeavesStore
  ImplementsScopes
CHECK_DEADLOCK FALSE
