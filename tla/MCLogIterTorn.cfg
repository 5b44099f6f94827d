CONSTANTS
  Compressions = {TRUE}
  BlockSize = 5
  Shapes <- MCShapes
  MaxEntries = 2
  ChunkLens = {1, 2, 4}
  StaleHeaders = TRUE
  NextAfterMiss = FALSE
SPECIFICATION LISpec
INVARIANTS AddressesDecode
