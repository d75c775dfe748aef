\* A buffer of two bytes, files of up to five, an int that counts to four.
SPECIFICATION Spec
CONSTANTS
  NbDescriptors = 2
  NbConnects = 2
  MaxLength = 5
  Sources <- MCSources
  BufferMax = 2
  IntMax = 4
  ReadError <- MCReadError
  Garbage <- MCGarbage
CHECK_DEADLOCK FALSE
INVARIANTS SocketReturned ReceivedWhole SentWhole
PROPERTY Returns
