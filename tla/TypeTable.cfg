CONSTANTS
  NumClasses = 4
  MaxSlots = 2
  StaticIndices = {2, 3}
  Class <- MCClass
  TypeKey <- MCClass
  Root = 0
  RootIndex = 1
  DynBegin = 4
  Unset = Unset
  DataTypes = {"int32", "int64"}
  FieldsOf <- MCFieldsOf
  MethodsOf <- MCMethodsOf
  AttrsOf <- MCAttrsOf
  Creatable = {1, 2, 3}
  Values <- MCValues
  Given <- MCGiven
SPECIFICATION MCSpec
INVARIANTS
  RegistryInv
  InstanceCheckExact
  ParentIndexSmaller
  ReflectionReadsBack
  ConversionsSettle
  CreatesWhatWasGiven
PROPERTIES
  EntriesStay
CHECK_DEADLOCK FALSE
