\* Every shim of the eleven APIs against its backend, one slot of one
\* generation per family; requests are mangled in every way while at most one
\* handle is out, replies at any time.
SPECIFICATION Spec
CHECK_DEADLOCK FALSE
CONSTANTS
  GENERATION_MAX = 0
  SLOT_SPACE = 2
  COUNT_MAX = 1
  None = None
  Stray = {}
  MaxSlots <- OneSlot
  Apis = {"Vulkan", "OpenGl", "Cuda", "Hip", "OpenCl", "LevelZero", "Video",
          "WebGpu", "OptiX", "Sycl", "Amf"}
  Scalar <- SomeScalars
  Forged <- FarHandle
  FOREIGN_MAX = 1
  REQ_ID = 258
  SEQ = 772
  SESSION_ID = 1029
INVARIANTS
  AcceptedIsUnderstood
  AnsweredCallsSucceed
  ResultIsTheServers
  BooksAgree
