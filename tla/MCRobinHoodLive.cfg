CONSTANTS
  a = a
  b = b
  c = c
  Key <- MCKey
  HashFns <- MCFewHashFns
  KeyLen <- MCKeyLen
  ValueLens = {1, 200}
  NoKey = NoKey
  MaxPuts = 3
  MaxDeletes = 1
SPECIFICATION FairSpec
INVARIANTS GarbageConserved
PROPERTIES CallsReturn
CHECK_DEADLOCK FALSE
