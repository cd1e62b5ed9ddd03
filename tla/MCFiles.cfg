SPECIFICATION Spec
CHECK_DEADLOCK FALSE
CONSTANTS
  StackSize = 3
  BodyLength = 4
  HeadLength = 3
  Texts <- MCTexts
INVARIANTS
  FilesTypeOK
  BlocksMatchSource
  AbortsOnlyTooDeep
  OnlyAcceptedContexts
  ErrorIndexRight
PROPERTIES
  ImplementsImportOrder
  EndsIfSortable
  NeverEndsUnsortable
