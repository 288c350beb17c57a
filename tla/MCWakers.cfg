SPECIFICATION MCSpec
CONSTANTS
  Capacity = 2
  MaxItems = 4
  SendWindowSize = 2
  RecvWindowSize = 2
INVARIANTS FifoExactlyOnce NoLostWakeup TypeOK CallsAreWoken FlushIsPrompt
PROPERTIES ItemsArrive CallsReturn
CHECK_DEADLOCK FALSE
