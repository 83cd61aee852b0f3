SPECIFICATION Spec
CONSTANTS
  NoHash = NoHash
  NoSalt = NoSalt
  NoRef = NoRef
  NoActor = NoActor
  Nothing = Nothing
  eo = eo
  alice = alice
  Authors = {a1, a2}
  Salts = {s1, s2}
  Times = {1}
  MaxLen = 3
  Payloads <- EventPayloads
SYMMETRY Symmetric
INVARIANTS
  TypeOK
  ChainVerifies
  StoreMatchesChain
  OwnerVerifies
  HonestClaimsHold
PROPERTIES
  ImplementsLedger
CHECK_DEADLOCK FALSE
