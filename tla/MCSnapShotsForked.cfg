\* The same instance, for BranchesRestore.
CONSTANTS
  IDs = {s1, s2, s3, s4}
  Initial = Initial
  Contents <- MCContents
  MaxLines = 4

SPECIFICATION Spec
SYMMETRY IDSymmetry
INVARIANT
  BranchesRestore
