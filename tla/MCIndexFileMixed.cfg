CONSTANTS
  r1 = r1
  Readers <- MCReaders
  Capacities = {1, 2}
  HeaderPieces = 2
  MaxLogEnd = 2
  MaxFiles = 3
  MaxCrashes = 0
SPECIFICATION IFSpec
INVARIANTS OneFile
