CONSTANTS
  N = 3
  Humans = {1, 2}
  Host = 1
  Cmds <- MCCmds
  SwitchTargets = {}
  Unstable = {}
  Diverging = {2}
  LoadingKicks = FALSE
  MaxFrames = 3
  MaxToggles = 0
  Orders <- PlainOrders
SPECIFICATION Spec
INVARIANTS NoFalseAlarm DifferenceNoticed
CHECK_DEADLOCK FALSE
