SPECIFICATION Spec
CONSTANTS
  items_per_gaggle = 4
  max_scale_shift = 3
  bplane_alignment = 16
  Inputs <- MCInputs
  Garbage <- MCGarbage
INVARIANTS
  TypeOK
  TransformReversible
  Lockstep
  Progressive
  TransitionsAgree
  SkippedAreZero
  DepthsRestored
  SegmentRestored
  ImageRestored
