\* Four hosts, five tags of one repository, one run, two pushes or deletions.
CONSTANTS
  MaxInt = 8
  Repos = {"nginx"}
  Hosts <- MCHosts
  Tags <- MCTags
  MaxChanges = 2
  MaxRuns = 1
SPECIFICATION Spec
INVARIANTS TypeOK VerdictsAreTrue SameImageSameVerdict VerdictIsAboutReported EveryWatchedOnce
CHECK_DEADLOCK FALSE
