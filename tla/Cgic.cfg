\* Every way a short form can be cut, bodies made of pieces of the boundary, and
\* one failing call anywhere.
SPECIFICATION Spec
CONSTANTS
  Request <- MCRequest
  Boundary <- MCBoundary
  Env <- MCEnv
  OtherEnv <- MCOtherEnv
  Garbage <- MCGarbage
  Faults = {"alloc", "temp", "open", "disk"}
  Saves <- MCSaves
  MaxOps = 3
  MaxRuns = 2
INVARIANTS
  FormAsSent
  TempFilesOwned
  
  StaysInBody
  AnswersAgree
  CookiesFound
CHECK_DEADLOCK FALSE
