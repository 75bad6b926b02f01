\* Two connections over five descriptors: enough for two scripts only when the
\* descriptors one connection closes are opened for the other.
SPECIFICATION Spec
CONSTANTS
  Conn = {c1, c2}
  Request <- MCRequest
  Fd <- MCFd
  BufSize = 2
  FileLen = 3
  CgiHead = 2
  MaxOut = 3
  PipeSize = 2
SYMMETRY MCSymmetry
INVARIANTS
  OwnDescriptors
  LoopAssertsHold
  OneStatus
  ScriptFed
CHECK_DEADLOCK FALSE
