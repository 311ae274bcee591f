SPECIFICATION Spec
CONSTANTS
  fa = fa  fb = fb  fc = fc  fd = fd  ab = ab  bc = bc  cd = cd
  h1 = h1  h2 = h2  site = site  shop = shop
  Flags = {fa, fb, fc, fd}
  Roads = {ab, bc, cd}
  Ends <- MCEnds
  Houses = {h1, h2}
  Usuals = {shop}
  SiteList <- OneSite
  FlagAt <- MCFlagAt
  Room <- MCRoom
  Makers = {fd}
  Outs = {h2}
  Wants = {h1}
  Closable = {h2}
  Doomed = {h1, h2, site, shop, bc, fc}
  Wares = {1, 2}
  InStock <- MCStock
  Patient = TRUE
  None = None
INVARIANTS NothingDangles ListedOnce CountsExact NotLeftAtTheDoor
CHECK_DEADLOCK FALSE
