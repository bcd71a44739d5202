CONSTANTS
  p1 = p1
  p2 = p2
  p3 = p3
  Process = {p1, p2, p3}
  leader = p1
  EnvName = {"BOARD", "MODE", "ODOM", "OLD", "KEEP"}
  NulValue = "nul"
  Board = "board"
  Job <- MCJob
  Nothing = Nothing
  ExitCode = {0, 7}
SPECIFICATION Spec
CHECK_DEADLOCK FALSE
INVARIANTS CleansUpOnExit
