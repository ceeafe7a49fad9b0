\* Two nodes whose ids continue each other.
CONSTANTS
  Characters <- MCCharacters
  Kept <- MCKept
  Blank <- MCBlank
  Nodes <- MCJoinedNodes
  Hosted <- MCJoinedHosted
  Fields <- MCFields
  Optional <- MCOptional
  Entities <- MCEntities
  MaxCycles <- MCJoinedCycles
SPECIFICATION Spec
INVARIANT ServicesOnTheirDevice
CHECK_DEADLOCK FALSE
