SPECIFICATION LiveSpec
CONSTANTS
  ByteBase = 6
  StreamSize = 4
  MaxMessageLen = 4
  MessageLens = {0, 1, 2, 3, 5}
  MaxMessages = 3
INVARIANT TypeOK
PROPERTIES ImplementsMessageQueue FlushedArrive
