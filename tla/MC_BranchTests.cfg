CONSTANTS
  WordBits = 8
  Heap <- MC_Heap
  UndefinedValue = 1
  TrueValue = 3
  FalseValue = 5
  NullValue = 7
  TheHoleValue = 9
  NanValue = 37
  NewHeapNumber = 101
  Unpredictable = {0}
  Layouts <- MC_Layouts
  IntInputs <- MC_IntInputs
  SmiInputs <- MC_SmiInputs
  TaggedInputs <- MC_TaggedInputs
  DoubleInputs <- MC_DoubleInputs
SPECIFICATION Spec
INVARIANTS
  TypeOK
  BranchSound
  CompareSound
  TypeTestsSound
  TypeofSound
  ChecksSound
