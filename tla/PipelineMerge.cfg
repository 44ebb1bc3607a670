SPECIFICATION Spec
CONSTANTS
  height_granularity = 16
  Inputs <- MergeInputs
  HeightsBehind = {0, 8}
INVARIANTS
  MergedIsWhole
