SPECIFICATION RSpec
CONSTANTS
  Limit = 127
  MaxExp = 2
  MaxShift = 2
  Err = Err
  Passports = {1, 2, 3, 4, 5}
  Labels = {"mass"}
  Measured <- Declarable
  Initial <- Starts
  Listings <- Orders
  Definitions <- Defs
  SeedRegistry <- Seed
  MaxRevisions = 1
  MaxAttests = 1
INVARIANTS
  VerifiedMeansCovered
  AttestationStands
  AggregatesExact
  SpotChecksExact
  ArithmeticExact
CHECK_DEADLOCK FALSE
