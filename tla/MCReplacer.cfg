\* Three frames, K = 3: frames below, at and above K accesses side by side.
CONSTANTS
  Frames = {f1, f2, f3}
  K = 3
  NoFrame = none
  MaxTime = 9

SPECIFICATION Spec
SYMMETRY FrameSymmetry
INVARIANTS
  CountIsExact
  ReplacerInv
PROPERTY
  ImplementsPolicy
