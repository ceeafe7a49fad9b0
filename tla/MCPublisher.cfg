\* Two calls over two services, connections drained before the next dial.
CONSTANTS
  a = a
  b = b
  Services = {a, b}
  Batches <- MCBatches
  Configs <- MCConfigs
  MaxCalls = 2
  Overlap = FALSE
SPECIFICATION Spec
INVARIANTS TypeOK VerdictIsBacked SuccessIsWhole
PROPERTIES NoOldNews ImplementsBoard
