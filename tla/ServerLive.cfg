\* Two connections; no symmetry, since this run checks liveness.  The clients are
\* finite, so the system may stop.
SPECIFICATION FairSpec
CONSTANTS
  NumWorkers = 2
  FdLimit = 8
  Conn = {c1, c2}
  MaxMsgs = 1
  PipeCap = 1
PROPERTIES
  CloseNoticed
CHECK_DEADLOCK FALSE
