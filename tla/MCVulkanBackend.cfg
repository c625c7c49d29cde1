\* One slot per family, two for memory, and two generations per slot, so that
\* freed memory, buffers and pools are replaced while something still refers
\* to them. Memory handles stray.
SPECIFICATION Spec
CHECK_DEADLOCK FALSE
CONSTANTS
  GENERATION_MAX = 1
  SLOT_SPACE = 2
  COUNT_MAX = 1
  None = None
  Stray = {"Memory"}
  MaxSlots <- VulkanSlots
INVARIANTS
  ParentsLive
PROPERTIES
  BoundForLife
  DanglingStaysDangling
  NeverReissued
  DestroysWhatItNames
