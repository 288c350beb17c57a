SPECIFICATION LiveSpec
CONSTANTS
  HalfRange = 9
  SendWindowSize = 2
  RecvWindowSize = 2
  InitSend = 2
  MaxPayload = 2
  StreamStart = 16
  StreamLen = 4
  MaxFaults = 1
  MaxInFlight = 2
  MaxChunk = 1
INVARIANTS TypeOK NoPanic NothingForgotten FlowControl
PROPERTIES ImplementsStream EverythingArrives
CHECK_DEADLOCK FALSE
