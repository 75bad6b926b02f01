\* Three connections over two free descriptors: closed numbers are reused, and
\* the limit is met.  The clients are finite, so the system may stop.
SPECIFICATION Spec
CONSTANTS
  NumWorkers = 2
  FdLimit = 8
  Conn = {c1, c2, c3}
  MaxMsgs = 1
  PipeCap = 1
SYMMETRY MCSymmetry
INVARIANTS
  TypeOK
  DescriptorsTracked
  JobsInOrder
  MarkIsOwn
  ListSound
CHECK_DEADLOCK FALSE
