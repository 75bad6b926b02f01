\* Three threads and two enqueues besides any number of dequeues: a thread can
\* be stopped between its CASes while two others race over what it left.
SPECIFICATION Spec
CONSTANTS
  Thread = {t1, t2, t3}
  Value = {v1, v2}
  Node = {n1, n2, n3}
  NULL = NULL
  OK = OK
  FAIL = FAIL
  SizeMod = 4
SYMMETRY MCSymmetry
INVARIANTS
  TypeOK
  ListInv
  SwingSucceeds
  HeadNotPastTail
  SizeAccounted
  DeinitLeavesEmpty
PROPERTY
  ImplementsFifo
