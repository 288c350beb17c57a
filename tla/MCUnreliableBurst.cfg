SPECIFICATION Spec
CONSTANTS
  PacketCapacity = 4
  ByteBase = 3
  BufferSize = 1
  Burst = 4
  TimeSteps = {3}
  MaxIdle = 3
  MessageLens = {1}
  MaxMessages = 3
  MaxFaults = 0
INVARIANT BurstBounded
CHECK_DEADLOCK FALSE
