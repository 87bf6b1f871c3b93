CONSTANTS
  Msgs <- EscapedMsgs
  MaxPtr = 10
  MaxOffset = 16384
  Datagram = 512
SPECIFICATION Spec
INVARIANTS
  EscapedDotsKept
CHECK_DEADLOCK FALSE
