\* The crate's client with three calls, the last under a saturated request
\* id, and a peer that pipelines any three frames and goes away at any point.
SPECIFICATION Spec
CHECK_DEADLOCK FALSE
CONSTANTS
  DEFAULT_MAX_FRAME_BODY = 24
  None = None
  PeerFrame <- SomeFrames
  MaxFrames = 3
  REQ_ID_MAX = 2
INVARIANTS
  TypeOK
  AnswersInOrder
  NoLeftovers
  NeverUnexpected
  AnnouncedLimitInForce
  RecordedIsSent
PROPERTIES
  NoWayBack
  CallReturns
  ServeEnds
