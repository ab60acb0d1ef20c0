\* One scope, two jobs of every kind and two faults, with fair scheduling.
CONSTANTS
  MaxJobs = 2
  MaxFaults = 2
SPECIFICATION FairSpec
INVARIANTS SparkSound
PROPERTIES SparkProgress
\* The run ends.
CHECK_DEADLOCK FALSE
