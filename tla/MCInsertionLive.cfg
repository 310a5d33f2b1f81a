\* Three projects for two active tasks, with and without a limit.
SPECIFICATION FairSpec
CONSTANTS
  a = a  b = b  c = c  a1 = a1  a2 = a2  b1 = b1  b2 = b2  c1 = c1  c2 = c2
  Projects <- WideProjects
  FilesOf <- LongFiles
  Dataset <- WideDataset
  TooLarge = {c2}
  Broken = {b2}
  MaxWorkers = 2
  MaxFiles = 1
  Limits = {0, 2}
  MaxRuns = 2
  MaxFaults = 0
INVARIANTS ActiveBound LimitOvershoot ExhaustedMeansIndexed
PROPERTY Terminates
CHECK_DEADLOCK FALSE
