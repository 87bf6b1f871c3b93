CONSTANTS
  Msgs <- TextMsgs
  MaxPtr = 10
  MaxOffset = 16384
  Datagram = 512
SPECIFICATION Spec
INVARIANTS
  UnknownTypesSurvived
CHECK_DEADLOCK FALSE
