\* Two workers and two clients: the second gets descriptor 7, which its worker
\* does not hold.  The clients are finite, so the system may stop.
SPECIFICATION FairSpec
CONSTANTS
  NumWorkers = 2
  FdLimit = 8
  Conn = {c1, c2}
  MaxMsgs = 1
  PipeCap = 2
PROPERTIES
  ClientAnswered
CHECK_DEADLOCK FALSE
