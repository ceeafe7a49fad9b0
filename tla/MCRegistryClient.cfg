\* Every kind of registry, three tags, two listings.
CONSTANTS
  LastTag = 3
  Registries = {"open", "token", "refuse"}
  MaxExpiries = 2
  MaxListings = 2
SPECIFICATION Spec
INVARIANTS TypeOK Collected
PROPERTIES ImplementsTagListing ListingEnds
