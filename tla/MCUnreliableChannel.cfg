SPECIFICATION Spec
CONSTANTS
  PacketCapacity = 8
  ByteBase = 3
  BufferSize = 1
  Burst = 3
  TimeSteps = {3}
  MaxIdle = 12
  MessageLens = {0, 1, 5, 6, 7}
  MaxMessages = 4
  MaxFaults = 1
INVARIANTS TypeOK NothingDropped FramingIntact RateBounded
CHECK_DEADLOCK FALSE
