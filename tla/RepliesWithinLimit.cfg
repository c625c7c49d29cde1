\* A peer that negotiates a limit and then makes a call.
SPECIFICATION Spec
CHECK_DEADLOCK FALSE
CONSTANTS
  DEFAULT_MAX_FRAME_BODY = 24
  None = None
  PeerFrame <- SomeFrames
  MaxFrames = 3
  REQ_ID_MAX = 2
INVARIANTS
  RepliesWithinLimit
