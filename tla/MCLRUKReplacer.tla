--------------------------- MODULE MCLRUKReplacer ---------------------------
(* Small instances of LRUKReplacer for TLC. *)
EXTENDS LRUKReplacer

\* Frames are interchangeable.
FrameSymmetry == Permutations(Frames)
=============================================================================
