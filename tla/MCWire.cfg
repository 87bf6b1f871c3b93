CONSTANTS
  Msgs <- MCMsgs
  MaxPtr = 10
  MaxOffset = 60
  Datagram = 110
SPECIFICATION Spec
INVARIANTS
  CompressionSound
  BufferSuffices
  Decoded
CHECK_DEADLOCK FALSE
