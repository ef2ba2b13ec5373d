CONSTANTS
  Uuids <- ThreeUuids
  UuidLists <- ManyUuids
  Names <- TwoNames
  FieldData <- ThreeFields
  SvcData <- SomeOrNone
  Careless = {}
  HciFails = FALSE
  MaxCalls = 4
CHECK_DEADLOCK FALSE
SPECIFICATION Spec
INVARIANT LoadedIsCurrent
PROPERTY ImplementsFields
