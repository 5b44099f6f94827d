CONSTANTS
  r1 = r1
  Readers <- MCReaders
  Capacities = {1, 2}
  HeaderPieces = 2
  MaxLogEnd = 2
  MaxFiles = 3
  MaxCrashes = 1
SPECIFICATION IFSpec
INVARIANTS IFTypeOK MappedWhole NoFalseCorrupt SuccessIsWhole
PROPERTIES ReadersUndisturbed
