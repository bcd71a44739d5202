CONSTANTS
  m0 = m0
  m1 = m1
  x = x
  y = y
  nan = nan
  Motors = {m0, m1}
  ZeroMotors = m0
  NotFiniteMotors = {m1}
  NoPacket = NoPacket
  Packet <- MCPacket
  Stamp = {1, 2}
  Name = {1, 2, 3}
  LongName = {3}
  Finite = {x, y}
  NotFinite = {nan}
  ZeroStamp = 1
  ZeroName = 1
  ZeroDouble = x
  Doubles = 2
  Seen <- MCSeen
  NoObservation = NoObservation
  Slot = {1, 2}
SPECIFICATION BSpec
INVARIANTS CodecsMatch MotorsFromLastGood ObservationChecksAgree FiniteValuesAreOfOnePacket
