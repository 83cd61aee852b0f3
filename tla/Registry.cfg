SPECIFICATION RSpec
CONSTANTS
  None = None
  vocabA = vocabA
  vocabB = vocabB
  vocabC = vocabC
  east = east
  west = west
  Peers = {east, west}
  Pairs <- TwoPairs
  OwnerOf <- TwoOwners
  KindsOf <- FiveKinds
  Transforms <- TwoTransforms
  Bundles <- TwoBundles
  Applications <- Descriptors
  MaxVersion = 2
  MaxPublished = 3
  Cap = 2
INVARIANTS
  MirrorsServePublished
  ChainsExact
  RightsMatchCatalog
  CompositionLaw
PROPERTY VersionsStayServed
CHECK_DEADLOCK FALSE
