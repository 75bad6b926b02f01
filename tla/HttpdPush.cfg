\* Two connections: what one closes is opened for the other in the same pass.
SPECIFICATION Spec
CONSTANTS
  Conn = {c1, c2}
  Request <- MCRequest
  Fd <- MCFd
  BufSize = 2
  FileLen = 3
  CgiHead = 2
  MaxOut = 3
  PipeSize = 2
SYMMETRY MCSymmetry
INVARIANTS
  PushHasData
CHECK_DEADLOCK FALSE
