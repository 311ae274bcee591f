SPECIFICATION Spec
CONSTANTS
  a = a  b = b  c = c  d = d  ab = ab  bc = bc  ca = ca
  Nodes = {a, b, c, d}
  Flags = {a, b, c}
  Gates = {b}
  Roads = {ab, bc, ca}
  Fragile = {ca}
  Route <- MCRoute
  Steps <- MCSteps
  Figures = {f1, f2, f3}
  Homeless = {}
  Fights = {fight1}
  FightTime = 2
  BlockTime = 1
  Nowhere = Nowhere
INVARIANTS EventsKnown KeepsItsProgress NobodyWalksIntoAFight NoJam
CHECK_DEADLOCK FALSE
SYMMETRY Alike
