\* Every graph on three VDUs, faulty templates, an update request, one kill of
\* the managers, under fairness.
SPECIFICATION FairSpec
CONSTANTS
  a = a
  b = b
  c = c
  Vdu <- Three
  NoVdu = NoVdu
  Templates <- GraphTemplates
  MaxUpdates = 1
  MaxKills = 1
INVARIANTS
  DependencyOrder
  NoSpuriousAck
  ActiveIsComplete
PROPERTIES
  ErrorStays
  DeployStops
  ErrorReported
\* A deployment ends, and one whose configuration is lost waits for ever.
CHECK_DEADLOCK FALSE
