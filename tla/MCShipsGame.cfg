SPECIFICATION Spec
CONSTANTS
  h1 = h1  h2 = h2  h3 = h3   fort = fort  i1 = i1  i2 = i2
  x1 = x1  x2 = x2  f1 = f1  w1 = w1
  Points = {h1, h2, h3}
  Sea = Sea
  FirstHarbors = {h1, h2}
  Works = {fort}
  IslandOf <- MCIslandOf
  Ships = {x1}
  Figures = {f1}
  Wares = {w1}
  Cap = 1
  Far = 3
  Bases = {h1}
  Sets = 1
  MaxRazed = 2
  Careful = TRUE
  None = None
INVARIANTS ShipsAtWork NothingLost BoundForHarbours
CHECK_DEADLOCK FALSE
