SPECIFICATION WSpec
CONSTANTS
  NoHash = NoHash
  NoSalt = NoSalt
  NoRef = NoRef
  NoActor = NoActor
  Nothing = Nothing
  Authors = {a1}
  Salts = {s1}
  Times = {1}
  MaxLen = 2
  MaxEdits = 1
  Payloads <- TwoPayloads
INVARIANTS
  InPlaceEditsDetected
CHECK_DEADLOCK FALSE
