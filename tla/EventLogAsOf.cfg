SPECIFICATION Spec
CONSTANTS
  NoHash = NoHash
  NoSalt = NoSalt
  NoRef = NoRef
  NoActor = NoActor
  Nothing = Nothing
  eo = eo
  alice = alice
  Authors = {a1}
  Salts = {}
  Times = {1, 2}
  MaxLen = 2
  Payloads <- OnePayload
INVARIANTS
  AsOfHasAllEvents
CHECK_DEADLOCK FALSE
