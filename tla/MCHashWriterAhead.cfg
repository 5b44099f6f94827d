CONSTANTS
  a = a
  b = b
  Key <- MCKey
  NoKey = NoKey
  HashFns <- MCOneHashFn
  KeyLen <- MCKeyLen
  ValueLens = {1}
  MaxPuts = 2
  MaxDeletes = 0
  HashSizeArgs = {0}
  BigCapacity = 100
  MaxFlush = 2
  MaxCuts = 0
  TightAddresses = FALSE
SPECIFICATION HWFairSpec
PROPERTIES AgainReturns
CHECK_DEADLOCK FALSE
