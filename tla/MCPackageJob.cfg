\* Two packages, three versions, two runs.
CONSTANTS
  NPackages = 2
  MaxVersion = 3
  MaxRuns = 2
SPECIFICATION Spec
INVARIANTS AllOrNothing LatestIsNewer
PROPERTY CurrentUnlessTouched
CHECK_DEADLOCK FALSE
