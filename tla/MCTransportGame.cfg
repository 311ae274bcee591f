SPECIFICATION FairSpec
CONSTANTS
  fa = fa  fb = fb  fc = fc  ab = ab  bc = bc  w1 = w1  w2 = w2  w3 = w3
  Flags = {fa, fb, fc}
  Roads = {ab, bc}
  Ends <- MCEnds
  Length <- MCLength
  Donkeys = {ab}
  Houses = {fa, fc}
  Early <- NoEarly
  Fragile = {bc}
  Wares = {w1, w2, w3}
  Home <- HomeAtEnds
  Capacity = 1
  MaxOrders = 2
  MaxCuts = 2
  Door = Door  NoDir = NoDir  NoGoal = NoGoal  NoWare = NoWare
INVARIANTS OnePlace NothingOverlooked RoutesStand HouseAtWork
PROPERTIES Delivered
CHECK_DEADLOCK FALSE
