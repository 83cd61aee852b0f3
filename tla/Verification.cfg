SPECIFICATION NSpec
CONSTANTS
  NoHash = NoHash
  NoSalt = NoSalt
  NoRef = NoRef
  NoActor = NoActor
  NoTime = NoTime
  Nothing = Nothing
  Authors = {a1}
  Salts = {s1}
  Times = {0, 2}
  MaxLen = 2
  MaxEdits = 1
  MaxNow = 2
  Points = {p1}
  Payloads <- OneKind
  Requirements <- TwoRequirements
  SlotSets <- ThreeSlotSets
INVARIANTS
  AnchoredCopyIsGenuine
  AnchoredCopyIsGenuineToOwner
  PassIsGenuine
  DiligenceStands
PROPERTIES
  VerdictsOnlyWeather
CHECK_DEADLOCK FALSE
