\* Two services of two VDUs and one, two deletions and a restart of the plugin.
SPECIFICATION Spec
CONSTANTS
  a = a
  b = b
  c1 = c1
  c2 = c2
  NoService = NoService
  Service = {a, b}
  Size <- Sizes
  MaxInstances = 2
  Deployed = {b}
  Call = {c1, c2}
  MaxRefused = 1
  MaxRestarts = 1
SYMMETRY Calls
INVARIANTS
  OnlyAsked
  Swept
  StuckByOther
  UnrecordedOfOneVdu
\* Deployments and deletions end.
CHECK_DEADLOCK FALSE
