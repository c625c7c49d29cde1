\* The OptiX backend alone.
SPECIFICATION Spec
CHECK_DEADLOCK FALSE
CONSTANTS
  GENERATION_MAX = 1
  SLOT_SPACE = 2
  COUNT_MAX = 2
  None = None
  Stray <- AllFamilies
  MaxSlots <- TwoSlots
  Apis = {"OptiX"}
PROPERTIES
  OptixDestroysWhatItNames
