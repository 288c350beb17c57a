SPECIFICATION LiveSpec
CONSTANTS
  Capacity = 1
  MaxItems = 1
PROPERTY DisconnectSeen
CHECK_DEADLOCK FALSE
