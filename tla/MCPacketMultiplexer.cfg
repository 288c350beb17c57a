SPECIFICATION LiveSpec
CONSTANTS
  Channels = {c1, c2}
  BufferSize = 1
  MaxPackets = 3
INVARIANTS RoutedInOrder FlushIsComplete
PROPERTY OthersArrive
CHECK_DEADLOCK FALSE
