CONSTANTS
  WordBits = 8
  Heap <- MC_Heap
  UndefinedValue = 1
  TrueValue = 3
  FalseValue = 5
  NanValue <- MC_NanValue
  NewHeapNumber = 101
  IntInputs <- MC_IntInputs
  TaggedInputs <- MC_TaggedInputs
  DoubleInputs <- MC_DoubleInputs
  Unpredictable <- MC_Unpredictable
SPECIFICATION Spec
INVARIANTS
  TypeOK
  NumberTagSound
  UntagSound
  PointerMapSafeAtGC
