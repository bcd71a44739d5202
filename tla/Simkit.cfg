CONSTANTS
  p1 = p1
  p2 = p2
  p3 = p3
  Process = {p1, p2, p3}
  leader = p1
  EnvName = {"BOARD", "MODE", "ODOM", "OLD", "KEEP"}
  NulValue = "nul"
  Board = "board"
  Job <- MCJob
  Nothing = Nothing
  ExitCode = {0, 7}
  NoRevision = NoRevision
  File <- MCFile
  Beside <- MCSidecars
  r1 = r1
  r2 = r2
  JointOrder <- MCJointOrder
  NoLimit = NoLimit
  NotANumber = NotANumber
  Model <- MCModel
  Preparer = {r1, r2}
  NoFile = NoFile
SPECIFICATION CFairSpec
CHECK_DEADLOCK FALSE
INVARIANTS
  BoardOutlivesWorkload ExitIsClean StatusIsTheLeaders EnvironmentIsTheProfiles
  StatsMatchRecords VerifiersAgree ContractVouches ContractCoversJoints
PROPERTIES RunEnds
