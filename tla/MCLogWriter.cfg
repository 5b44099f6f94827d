CONSTANTS
  PutShapes <- MCPutShapes
  DeleteLens = {2}
  FileBufSize = 4
  HeaderSize = 84
  MaxEntries = 3
  MaxFaults = 2
  MaxReaders = 1
SPECIFICATION LWSpec
INVARIANTS LWTypeOK CommittedReadable FlushedDurable CountsCoverData
PROPERTIES ReaderStable
CHECK_DEADLOCK FALSE
