CONSTANTS
  PutShapes <- MCEmptyKey
  DeleteLens = {}
  FileBufSize = 1024
  HeaderSize = 84
  MaxEntries = 85
  MaxFaults = 0
  MaxReaders = 0
SPECIFICATION LWSpec
INVARIANTS AlwaysOpenable
