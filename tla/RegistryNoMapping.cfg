SPECIFICATION RSpec
CONSTANTS
  None = None
  vocabA = vocabA
  vocabB = vocabB
  vocabC = vocabC
  east = east
  west = west
  Peers = {east, west}
  Pairs <- TwoPairs
  OwnerOf <- TwoOwners
  KindsOf <- TierThreeFirst
  Transforms <- TwoTransforms
  Bundles <- TwoBundles
  Applications <- Descriptors
  MaxVersion = 2
  MaxPublished = 2
  Cap = 2
INVARIANT NoMappingNeverComposed
CHECK_DEADLOCK FALSE
