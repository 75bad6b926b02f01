\* Two threads, two enqueues; no symmetry, since this run checks liveness.
SPECIFICATION FairSpec
CONSTANTS
  Thread = {t1, t2}
  Value = {v1}
  Node = {n1, n2, n3}
  NULL = NULL
  OK = OK
  FAIL = FAIL
  SizeMod = 4
PROPERTY
  CallsReturn
