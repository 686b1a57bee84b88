--------------------------- MODULE MCOrganizations ---------------------------
EXTENDS Organizations, TLC
CONSTANTS u1, u2, u3
People == {u1, u2, u3}
UserSymmetry == Permutations(People)
=============================================================================
