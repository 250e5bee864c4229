\* Three events, so that a log of one message can lose the end of a replay and
\* still have one to send; three seconds, so that an event comes after stopTime.
SPECIFICATION FairSpec
CONSTANTS
  replayer = replayer
  viewer = viewer
  Session = {replayer, viewer}
  MaxTime = 3
  MaxEvents = 3
  Windows <- Requests
  Sizes = {0, 1, 2}
  Bursts = {2}
  NoSub = NoSub
  ReplayComplete = ReplayComplete
  NotificationComplete = NotificationComplete
INVARIANTS
  NothingLost
  PointersLive
  StopKept
PROPERTIES
  InOrder
  StopEnds
