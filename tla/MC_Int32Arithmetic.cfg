CONSTANTS
  WordBits = 8
  RegisterInputs <- MC_RegisterInputs
  ConstantFactors <- MC_ConstantFactors
  FixedRightArgs <- MC_FixedRightArgs
  ShiftConstants <- MC_ShiftConstants
  Unpredictable <- MC_Unpredictable
SPECIFICATION Spec
INVARIANTS
  TypeOK
  DivisionSound
  MultiplicationSound
  AddSubBitShiftSound
  BoundsCheckSound
