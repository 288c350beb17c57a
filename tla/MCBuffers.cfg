SPECIFICATION BuffersSpec
CONSTANTS
  RingCapacity = 3
  MaxData = 2
  Byte = {b1, b2}
  HalfRange = 8
  Capacity = 5
  StreamStart = 13
  StreamLen = 7
INVARIANTS TypeOK SlicesDisjoint ReadIsConsistent RangesSorted UnackedReadable AcksRight HeldBytesIntact UnreadySeparate
PROPERTIES ImplementsByteQueue ImplementsSendBuffer WindowEndAdvances ImplementsReassembly
