SPECIFICATION Spec
CONSTANTS
  Market <- MCMarket
  Discoverable <- MCDiscoverable
  Fresh = 2
  Leads = {1}
  MaxRevision = 3
  MaxTerms = 3
  MaxSpecs = 2
  MaxPhotos = 2
  MaxTime = 3
INVARIANTS VisibleAsSeen Decidable
PROPERTIES PublishedAsApproved ExpiryHonoured
CHECK_DEADLOCK FALSE
