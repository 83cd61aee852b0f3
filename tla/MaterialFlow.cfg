SPECIFICATION FSpec
CONSTANTS
  Refused = Refused
  MaxPassports = 4
  MaxParts = 2
  MaxTaints = 1
  Amounts <- WithNegative
  Dimensions = {"mass", "energy"}
  Kinds = {"fraud"}
  Careful = TRUE
INVARIANTS
  FTypeOK
  Conservation
  NothingOverdrawn
  RecallExact
  TaintsMatchRecall
CHECK_DEADLOCK FALSE
