\* Three clients; a socket's buffer holds the shorter of the replies and lacks one
\* byte for the longer, so that a replay of two calls returns after the one and
\* may block after the other.
SPECIFICATION Spec
CHECK_DEADLOCK FALSE
CONSTANTS
  recorder = recorder
  replayer = replayer
  stranger = stranger
  None = None
  Recorder <- recorder
  Replayer <- replayer
  Stranger <- stranger
  Clients = {recorder, replayer, stranger}
  CAPACITY = 5
  MAX_FRAME = 2
  COUNT_MAX = 3
  CALLS_MAX = 2
  Requests <- SomeRequests
  Scribbles <- SomeScribbles
INVARIANTS
  CountsAgree
  ReplayReproduces
PROPERTIES
  ImplementsFramed
  ReplayEnds
  EveryoneServed
