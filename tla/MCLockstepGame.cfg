CONSTANTS
  N = 3
  Humans = {1, 2}
  Host = 1
  Cmds <- MCCmds
  SwitchTargets = {3}
  Unstable = {2}
  Diverging = {}
  LoadingKicks = FALSE
  MaxFrames = 2
  MaxToggles = 1
  Orders <- SwitchOrders
SPECIFICATION Spec
INVARIANTS TypeOK ExecutesBroadcasts SameFrames OneFrameAhead
PROPERTIES AbstractSpec
CHECK_DEADLOCK FALSE
