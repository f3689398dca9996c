SPECIFICATION SelectSpec
CONSTANTS
  MaxFd = 1
  AnyInt = {0, 7}
INVARIANTS
  SelectTypeOK
  NothingInvented
  OneReaderRight
