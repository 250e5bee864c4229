\* Three nodes, so that a commit can find one SIL that has committed, one that
\* refuses and one that has not been asked; two contents of the leaf, so that it
\* can be merged.  The server may die, and then it stops.
SPECIFICATION FairSpec
CHECK_DEADLOCK FALSE
CONSTANTS
  n1 = n1
  n2 = n2
  n3 = n3
  a = a
  b = b
  Node = {n1, n2, n3}
  Leaf = {n1, n2}
  Content = {a, b}
  Schema <- TwoForLeafs
  None = None
  Nothing = Nothing
  Unknown = Unknown
INVARIANTS
  DeviceFollows
PROPERTIES
  AllOrNothing
  Answered
