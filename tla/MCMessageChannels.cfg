SPECIFICATION LiveSpec
CONSTANTS
  Capacity = 1
  MaxSent = 3
  MaxFlushes = 2
  MaxArrivals = 2
INVARIANTS MessagesInOrder FlushIsComplete NoLostSignal
PROPERTY FlushHappens
CHECK_DEADLOCK FALSE
