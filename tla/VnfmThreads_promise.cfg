\* Ids that differ: the threads keep the promise of DriverAcks, in the end.
SPECIFICATION FairUniqueSpec
CONSTANTS
  init = init
  later = later
  update = update
  d = d
  e = e
  Job <- Threads
  NoJob = NoJob
  Instance = {"i", "l", "d", "e"}
  InstanceOf <- WhereThreads
  Initial = {init}
  Update = {update}
  Driverless = {}
  Unaddressed = {}
  Id = {i1, i2, i3}
  NoId = NoId
PROPERTIES
  Promise
  ResultIsAcked
\* All jobs come to an end, and an orphaned lock stops the manager.
CHECK_DEADLOCK FALSE
