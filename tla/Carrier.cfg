SPECIFICATION CSpec
CONSTANTS
  None = None
  Invalid = Invalid
  NoHash = NoHash
  NoSalt = NoSalt
  NoRef = NoRef
  NoActor = NoActor
  Nothing = Nothing
  Authors = {a1}
  Salts = {}
  Times <- Dates
  MaxLen = 3
  Payloads <- FlagPayloads
  DigitKeys <- Digits
  Orders <- Listed
  Questions <- AllQuestions
INVARIANTS
  CardReadsBack
  SignedFits
  CardProvesLog
  TextsReadBack
PROPERTIES
  FlagNeverClears
  SettledViewsStay
CHECK_DEADLOCK FALSE
