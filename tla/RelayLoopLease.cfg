CONSTANTS
  guide = guide
  controller = controller
  NoAddress = NoAddress
  NoDatagram = NoDatagram
  Client = {guide, controller}
  Plays <- MCPlays
  MaxSequence = 4
  Lease = 3
  Heartbeat = 2
  QueueLimit = 4
  InboxLimit = 1
  MaxStall = 1
  MaxTime = 6
  MaxSession = 1
  MaxLaunch = 0
  MaxData <- MCSilence
  MaxHandled = 50
SPECIFICATION Spec
CHECK_DEADLOCK FALSE
INVARIANTS SilentPeersGo
PROPERTIES TimelyPeersStay
