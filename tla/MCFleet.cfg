\* Three nodes, two of which sanitise alike.
CONSTANTS
  Characters <- MCCharacters
  Kept <- MCKept
  Blank <- MCBlank
  Nodes <- MCNodes
  Hosted <- MCHosted
  Fields <- MCFields
  Optional <- MCOptional
  Entities <- MCEntities
  MaxCycles <- MCCycles
SPECIFICATION Spec
INVARIANTS TypeOK FieldsAreOwn StaleMeansGone EntityHasState ApartNodesKeepDevices
CHECK_DEADLOCK FALSE
