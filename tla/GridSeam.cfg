SPECIFICATION GSpec
CONSTANTS
  None = None
  AnyVerifier = AnyVerifier
  customs = customs
  dealer = dealer
  Custodian = oem
  MaxSegments = 3
  MaxSequence = 1
  MaxVersions = 2
  MaxSpines = 1
  MaxAnswers = 1
  MaxSteps = 2
  Asked = {1}
  Policies = {p}
  Readers = {oem}
  Verifiers = {customs, dealer}
  Terms <- TwoTerms
INVARIANTS
  ProofsExact
  VersionsPinned
  SeamsAgree
  
CHECK_DEADLOCK FALSE
