\* Two jobs and one fault, with fair scheduling.
SPECIFICATION FairSpec
CONSTANTS
  Size = 2
  CacheSize = 1
  MaxJobs = 2
  MaxFaults = 1
  c1 = c1
  c2 = c2
  p1 = p1
  p2 = p2
  NoWorker = NoWorker
  NoJob = NoJob
  NoCallback = NoCallback
  Callbacks <- OneCallback
  Programs <- OneProgram
  ProgramOf <- OneProgramOf
INVARIANTS
  Bookkeeping
  SpeculationReserve
  NoWorkAfterSettling
PROPERTIES
  AtMostOnce
  ImplementsJobService
  Progress
\* The pool may be closed, or idle with every job settled.
CHECK_DEADLOCK FALSE
