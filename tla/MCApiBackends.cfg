\* All ten backends, two slots of two generations per family: a slot is
\* reused once and then retired. Counters saturate at 2. Any handle
\* may be passed where one of another family is expected.
SPECIFICATION Spec
CHECK_DEADLOCK FALSE
CONSTANTS
  GENERATION_MAX = 1
  SLOT_SPACE = 2
  COUNT_MAX = 2
  None = None
  Stray <- AllFamilies
  MaxSlots <- TwoSlots
  Apis = {"OpenGl", "Cuda", "Hip", "OpenCl", "LevelZero", "Video", "WebGpu",
          "OptiX", "Sycl", "Amf"}
INVARIANTS
  ParentsLive
  FramesInOrder
PROPERTIES
  NeverReissued
  DestroysWhatItNames
  OptixDestroysOne
