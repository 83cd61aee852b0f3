SPECIFICATION SSpec
CONSTANTS
  None = None
  AnyVerifier = AnyVerifier
  Segs = {1, 2}
  OwnerHeld = {2}
  Offers <- FiveOffers
  Notes <- TwoNotes
  MaxSeals = 2
  MaxRefreshes = 2
  MaxRecords = 2
INVARIANTS
  ErasureExact
  ArchiveTellsDecay
  MeasurementsSound
  LookupsFit
CHECK_DEADLOCK FALSE
