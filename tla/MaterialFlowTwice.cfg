SPECIFICATION FSpec
CONSTANTS
  Refused = Refused
  MaxPassports = 4
  MaxParts = 2
  MaxTaints = 1
  Amounts <- Whole
  Dimensions = {"mass", "energy"}
  Kinds = {"fraud"}
  Careful = FALSE
INVARIANTS
  NothingOverdrawn
CHECK_DEADLOCK FALSE
