CONSTANTS
  a1 = a1
  a2 = a2
  NoAddress = NoAddress
  Address = {a1, a2}
  Datagram <- MCTraffic
  MaxSequence = 7
  Lease = 0
  MaxClock = 1
  MaxHandled = 5
SPECIFICATION Spec
SYMMETRY MCSymmetry
CHECK_DEADLOCK FALSE
INVARIANTS UnregisteredAddressesAreRejected
