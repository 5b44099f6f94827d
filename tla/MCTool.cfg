CONSTANTS
  p1 = p1
  p2 = p2
  n1 = n1
  n2 = n2
  k1 = k1
  k2 = k2
  Proc <- MCProc
  Pair <- MCPair
  Key = {k1, k2}
  Value = {"v1"}
  NoValue = NoValue
  InitialLogs <- MCLogs
  Compression = {"unset", "snappy"}
  BlockArgs <- MCBlockArgs
  MaxFiles = 3
  MaxLines = 1
  MaxCommands = 3
  MaxFaults = 1
SYMMETRY Symmetry
SPECIFICATION ToolSpec
INVARIANTS ToolTypeOK   AppendExact RewriteKeepsLive
PROPERTIES RewriteFailsClean
CHECK_DEADLOCK FALSE
