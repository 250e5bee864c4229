\* Two sessions, two contents, one token; two kinds of failure between two
\* starts, so that a late failure meets a backup that cannot be loaded.
SPECIFICATION FairSpec
CONSTANTS
  s1 = s1
  s2 = s2
  a = a
  token = token
  NoSession = NoSession
  Session = {s1, s2}
  Empty = Empty
  Content = {Empty, a}
  PersistId = {token}
  NoId = NoId
  NoFile = NoFile
  MaxFaults = 2
INVARIANTS
  TrialHasSession
  CommitTakesCandidate
PROPERTIES
  Promise
  LocksExclude
  TrialEnds
