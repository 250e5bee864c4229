SPECIFICATION Spec
CONSTANTS
  s1 = s1
  s2 = s2
  NoService = NoService
  Service = {s1, s2}
  Blocks = {TRUE, FALSE}
  Updating = TRUE
  RawLock = TRUE
  MaxEvents = 1
  MaxLoops = 3
CHECK_DEADLOCK FALSE
SYMMETRY Alike
INVARIANTS
  LockOrphaned
  OwnEvent
