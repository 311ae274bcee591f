SPECIFICATION Spec
CONSTANTS
  D = D A = A B = B a1 = a1 a2 = a2 b1 = b1
  Players = {D, A, B}
  FirstOwner = D
  Leagues <- MCLeagues
  Attackers = {a1, a2, b1}
  Party <- MCParty
  Needs = {3}
  MaxQueue = 1
  MaxEntering = 2
  UnsignedMax = 255
  Nobody = Nobody NoFoe = NoFoe Anyone = Anyone
INVARIANTS GoalKnowsAttackers EverybodyCounted NeverDeserted OneEnemyAtTheFlag
PROPERTIES TakenByRight SiegeEnds
