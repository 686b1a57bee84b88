CONSTANTS
  u1 = u1
  u2 = u2
  u3 = u3
  Users <- People
  Ordinary = {"LISTING_MANAGER", "AGENT"}
  Interaction = TRUE
  MaxEpisodes = 2
  MaxUnable = 1
SPECIFICATION Spec
SYMMETRY UserSymmetry
INVARIANTS OwnerKept TransfersStand
PROPERTIES NoInheritedGrant
