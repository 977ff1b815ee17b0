CONSTANTS
  WordBits = 8
  Heap <- MC_Heap
  UndefinedValue = 1
  TrueValue = 1     \* the Math handlers never compare with the true and false roots
  FalseValue = 1
  NanValue <- MC_NanValue
  NewHeapNumber = 101
  IntInputs <- MC_IntInputs
  TaggedInputs <- MC_TaggedInputs
  DoubleInputs <- MC_DoubleInputs
  Unpredictable = {0}
SPECIFICATION Spec
INVARIANT
  MinMaxRegistersSound
