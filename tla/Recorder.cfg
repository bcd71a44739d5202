CONSTANTS
  LastSlot = 1
  QueueLimit = 1
  Absent = Absent
  Stale = Stale
  Torn = Torn
  MaxRevision <- MCMaxRevision
SPECIFICATION FairSpec
CHECK_DEADLOCK FALSE
INVARIANTS SamplesAccounted WrittenInOrder SealedIsComplete OverwritesAccounted GapsExplained
PROPERTIES SuccessIsSealed RecorderEnds
