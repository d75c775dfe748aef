\* A buffer of five units, sources of up to three, two uses of three calls.
SPECIFICATION HelperSpec
CONSTANTS
  Capacity = 5
  MaxPart = 3
  MaxCalls = 3
  OldFiles <- MCOldFiles
CHECK_DEADLOCK FALSE
INVARIANTS Unpacks RoomSuffices
