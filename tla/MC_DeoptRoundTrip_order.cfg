CONSTANTS
  Self <- MC_Self
  FormalParameterCount <- MC_FormalParameterCount
  ArgumentsSlotIndex <- MC_ArgumentsSlotIndex
  SpillSlotCount <- MC_SpillSlotCount
  StubParameterCount <- MC_StubParameterCount
  SmiValueBits <- MC_SmiValueBits
  InlinedClosures <- MC_InlinedClosures
  Objects <- MC_Objects
  DeoptPoints <- MC_DeoptPoints
  InputFrames <- MC_InputFrames
  SharedInfo <- MC_SharedInfo
  PrototypeOf <- MC_PrototypeOf
  CallerFrames <- MC_CallerFrames

SPECIFICATION Spec

PROPERTY
  SplicedAfterMaterialization
