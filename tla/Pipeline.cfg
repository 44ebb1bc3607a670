SPECIFICATION Spec
CONSTANTS
  height_granularity = 64
  Inputs <- MCInputs
  HeightsBehind = {0, 8}
INVARIANTS
  TypeOK
  FramesCover
  FragmentsExact
  MergedWhereFramesFit
  OperationOnce
  SettingsTold
  SizesTold
  RestoredFramesTile
  RegistryExact
  ImageRestored
