---------------------------- MODULE MCBufferPool ----------------------------
(* Small instances of BufferPool for TLC. *)
EXTENDS BufferPool

\* Guards are interchangeable, and so are the values written.
PoolSymmetry == Permutations(Guards) \cup Permutations(Values)
=============================================================================
