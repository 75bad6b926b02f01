\* Two threads and three jobs: "average mode" wraps around, an event may be reset
\* just after it was set, and a thread may sleep with a job in its queue.
SPECIFICATION FairSpec
CONSTANTS
  PoolSize = 2
  MaxJobs = 3
  NULL = NULL
INVARIANTS
  TypeOK
  EachJobOnce
  Even
PROPERTIES
  JobsRun
