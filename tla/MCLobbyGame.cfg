CONSTANTS
  N = 3
  Clients = {h, c, d}
  Host = h
  c = c
  d = d
  Teams = {"a", "b"}
  NumColors = 3
  Settings = {"s", "t"}
  Openings <- AnyGame
  Timeouts = TRUE
  Meddles = FALSE
  Swaps = FALSE
  MaxOps = 3
SPECIFICATION Spec
INVARIANTS ListsAgree ColorsUnique OthersStartAlike
CHECK_DEADLOCK FALSE
