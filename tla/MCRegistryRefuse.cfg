\* A registry that hands out tokens and accepts none of them.
CONSTANTS
  LastTag = 1
  Registries = {"refuse"}
  MaxExpiries = 0
  MaxListings = 1
SPECIFICATION Spec
PROPERTY ListingReturns
