SPECIFICATION MCSpec
CHECK_DEADLOCK FALSE
CONSTANTS
  MaxId = 5
  MaxAssocId = 2
  MaxNested = 2
  MaxPath = 4
  PackageNames <- MCPackageNames
  SystemNames = {"s", ""}
  Capabilities = {"READONLY"}
  FieldIds = {0}
  MaxSystems = 3
  EnumNumbers <- MCEnumNumbers
  FieldBuiltins = {"U8", "I16", "F32"}
  FieldLengths = {1, 2, 1073741824}
  MaxFields = 3
  MaxEnumValues = 2
INVARIANTS
  ApiTypeOK
  NoSystemLost
  OneListUnlessMoved
  NamesFollowParents
  AssocsReferToLiving
  StorageTypeFits
  FieldsDoNotOverlap
PROPERTIES
  DestroyKeepsOthers
