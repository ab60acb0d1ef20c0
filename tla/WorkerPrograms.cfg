\* One worker that may be lost, a cache of one program, three jobs of two programs.
SPECIFICATION Spec
CONSTANTS
  Size = 1
  CacheSize = 1
  MaxJobs = 3
  MaxFaults = 1
  c1 = c1
  c2 = c2
  p1 = p1
  p2 = p2
  NoWorker = NoWorker
  NoJob = NoJob
  NoCallback = NoCallback
  Callbacks <- TwoCallbacks
  Programs <- TwoPrograms
  ProgramOf <- TwoProgramOf
SYMMETRY ProgramSymmetry
INVARIANTS
  TypeOK
  ProtocolHolds
  RequiredNotStranded
\* The pool may be closed, or idle with every job settled.
CHECK_DEADLOCK FALSE
