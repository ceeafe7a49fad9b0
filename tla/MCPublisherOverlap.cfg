\* One service, and a call may connect while the previous connection still
\* holds packets the broker has not processed.
CONSTANTS
  a = a
  b = b
  Services = {a}
  Batches <- MCOneBatch
  Configs <- MCPlainConfigs
  MaxCalls = 2
  Overlap = TRUE
SPECIFICATION Spec
INVARIANTS BlankIsBlankForEveryone
PROPERTY CallReturns
