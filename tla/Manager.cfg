\* Three workers, two signals, every worker may end at any time.
SPECIFICATION Spec
CONSTANTS
  Slots = 3
  MaxPid = 6
  MaxSignals = 2
  ServerStatus = {0, 1}
INVARIANTS
  WorkersKept
PROPERTIES
  ReloadEnds
\* Waiting for workers that run on is no deadlock, and the manager may be over.
CHECK_DEADLOCK FALSE
