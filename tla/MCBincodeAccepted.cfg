SPECIFICATION Spec
CONSTANTS
  ByteBase = 2
  StreamSize = 2
  MaxMessageLen = 1
  MessageLens = {1, 2}
  MaxMessages = 2
INVARIANT DeliversAccepted
CHECK_DEADLOCK FALSE
