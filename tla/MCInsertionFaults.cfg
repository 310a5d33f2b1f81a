\* Failures, crashes and restarts over three projects.
SPECIFICATION Spec
CONSTANTS
  a = a  b = b  c = c  a1 = a1  a2 = a2  b1 = b1  b2 = b2  c1 = c1  c2 = c2
  Projects <- WideProjects
  FilesOf <- WideFiles
  Dataset <- WideDataset
  TooLarge = {}
  Broken = {}
  MaxWorkers = 2
  MaxFiles = 1
  Limits = {0}
  MaxRuns = 2
  MaxFaults = 1
INVARIANTS TypeOK OneProjectRow FileAllOrNothing ModuleHasProject CacheSound
           OneTaskPerProject TasksQueued PoolOpenWhileUsed
PROPERTY Indexes
CHECK_DEADLOCK FALSE
