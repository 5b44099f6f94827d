CONSTANTS
  Compressions = {TRUE, FALSE}
  BlockSize = 5
  Shapes <- MCShapes
  MaxEntries = 4
  ChunkLens = {1, 2, 4}
  StaleHeaders = FALSE
  NextAfterMiss = FALSE
SPECIFICATION LISpec
INVARIANTS LITypeOK BlocksParse NextReaches ChunkExact RestReadable AddressStable KeycmpExact
