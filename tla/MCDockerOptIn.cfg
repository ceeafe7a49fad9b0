\* Containers that opt in, one of them with up2date.enable=true.
CONSTANTS
  MaxInt = 8
  Repos = {"nginx"}
  Hosts <- MCSmallHosts
  Tags <- MCSmallTags
  MaxChanges = 0
  MaxRuns = 1
SPECIFICATION Spec
INVARIANT OptInNeedsWatchLabel
CHECK_DEADLOCK FALSE
