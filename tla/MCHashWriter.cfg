CONSTANTS
  a = a
  b = b
  Key <- MCKey
  NoKey = NoKey
  HashFns <- MCOneHashFn
  KeyLen <- MCKeyLen
  ValueLens = {1}
  MaxPuts = 2
  MaxDeletes = 1
  HashSizeArgs = {0, 3}
  BigCapacity = 3
  MaxFlush = 2
  MaxCuts = 1
  TightAddresses = TRUE
SPECIFICATION HWFairSpec
CONSTRAINT MCFirstKey
INVARIANTS FileExact FileGarbage FileCovers FileLoadable HashPutRoom
PROPERTIES HashWriteReturns
CHECK_DEADLOCK FALSE
