SPECIFICATION FairSpec
CONSTANTS
  s1 = s1
  s2 = s2
  Service = {s1, s2}
  NoService = NoService
  Blocks = {TRUE}
  Updating = FALSE
  RawLock = FALSE
  MaxEvents = 3
  MaxLoops = 4
INVARIANTS
  NothingBuried
  CleanRun
PROPERTIES
  InsertAnswered
  CreationEnds
\* The run ends.
CHECK_DEADLOCK FALSE
