\* Images of ten hosts, texts of up to five words, three pages of tags.
CONSTANTS
  Dotted <- MCDotted
  Lower <- MCLower
  Images <- MCImages
  Others <- MCOthers
  LastPage = 3
  Headers <- MCHeaders
  Usual <- MCUsual
  Probe <- MCProbe
SPECIFICATION Spec
INVARIANTS CutsAgree AskedWhereItIs OnlyMisreadShortens
PROPERTIES UnderstoodListingEnds
CHECK_DEADLOCK FALSE
