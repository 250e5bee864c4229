\* Ids that may collide: what holds whatever they are, and while they differ.
SPECIFICATION Spec
CONSTANTS
  init = init
  later = later
  update = update
  d = d
  e = e
  Job <- Jobs
  NoJob = NoJob
  Instance = {"i", "l", "d", "e"}
  InstanceOf <- Where
  Initial = {init, e}
  Update = {update}
  Driverless = {d}
  Unaddressed = {e}
  Id = {i1, i2}
  NoId = NoId
INVARIANTS
  NoResultMissed
  AckedOnce
  AckIsTrue
\* All jobs come to an end, and an orphaned lock stops the manager.
CHECK_DEADLOCK FALSE
