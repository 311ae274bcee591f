SPECIFICATION Spec
CONSTANTS
  h1 = h1  h2 = h2  h3 = h3   fort = fort  i1 = i1  i2 = i2
  x1 = x1  x2 = x2  f1 = f1  w1 = w1
  Points = {h1, h2}
  Sea = Sea
  FirstHarbors = {h1, h2}
  Works = {fort}
  IslandOf <- MCIslandOf
  Ships = {x1, x2}
  Figures = {f1}
  Wares = {w1}
  Cap = 2
  Far = 3
  Bases = {}
  Sets = 0
  MaxRazed = 1
  Careful = TRUE
  None = None
PROPERTY Served
CHECK_DEADLOCK FALSE
