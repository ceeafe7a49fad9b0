\* Two jobs, two publishers each.
CONSTANTS
  NJobs = 2
  NPublishers = 2
SPECIFICATION Spec
INVARIANTS TypeOK NoShutdownVerdicts NothingCutShort OnceExitTellsAll
PROPERTIES FailureEndsNothing SignalEndsProcess LoopGoesOn
CHECK_DEADLOCK FALSE
