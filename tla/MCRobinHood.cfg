CONSTANTS
  a = a
  b = b
  c = c
  Key <- MCKey
  HashFns <- MCHashFns
  KeyLen <- MCKeyLen
  ValueLens = {1}
  NoKey = NoKey
  MaxPuts = 4
  MaxDeletes = 1
SYMMETRY Symmetry
SPECIFICATION Spec
INVARIANTS TypeOK RobinHoodOrder PointersArePuts RoomForPut IndexExact HeaderLoadable
PROPERTIES GetExact HashnextExact ImplementsMap
CHECK_DEADLOCK FALSE
