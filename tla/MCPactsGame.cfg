CONSTANTS
  N = 2
  Team <- Rivals
  Saved <- RunningTreaty
  Proposals <- AnyAlliance
  Durations <- Short
  NwfLength = 2
  Careful = TRUE
  MaxPost = 1
  MaxGF = 10
  MaxOrders = 1
SPECIFICATION Spec
INVARIANTS TypeOK Mutual PartnersSafe SeesAllies
PROPERTIES Consent EndsByBoth
CHECK_DEADLOCK FALSE
