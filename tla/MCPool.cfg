\* Two frames for up to three pages: every third page has to be evicted for.
CONSTANTS
  Frames = {0, 1}
  Guards = {g1, g2}
  Values = {v1, v2}
  MaxPages = 3

SPECIFICATION Spec
SYMMETRY PoolSymmetry
INVARIANTS
  PoolInv
  GuardsHoldTheirFrame
  FramesAccounted
  FreeChainSound
PROPERTY
  ImplementsPageStore
