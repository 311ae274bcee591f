CONSTANTS
  N = 2
  Humans = {1, 2}
  Host = 1
  Cmds <- MCCmds
  SwitchTargets = {}
  Unstable = {2}
  Diverging = {}
  LoadingKicks = FALSE
  MaxFrames = 2
  MaxToggles = 2
  Orders <- PlainOrders
SPECIFICATION FairSpec
PROPERTIES GameGoesOn
CHECK_DEADLOCK FALSE
