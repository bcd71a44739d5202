CONSTANTS
  guide = guide
  controller = controller
  NoAddress = NoAddress
  NoDatagram = NoDatagram
  Client = {guide, controller}
  Plays <- MCPlays
  MaxSequence = 2
  Lease = 2
  Heartbeat = 1
  QueueLimit = 2
  InboxLimit = 1
  MaxStall = 0
  MaxTime = 1
  MaxSession = 1
  MaxLaunch = 1
  MaxData <- MCTraffic
  MaxHandled = 50
SPECIFICATION FairSpec
CHECK_DEADLOCK FALSE
PROPERTIES ImplementsRelay SignalStops
