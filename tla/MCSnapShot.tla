----------------------------- MODULE MCSnapShot -----------------------------
(* Small instances of SnapShot for TLC. *)
EXTENDS SnapShot, TLC

\* Diffs with no, one and two hunks, with and without a tail.
MCContents == { <<1>>, <<2, 1, 2>>, <<1, 1, 1>> }

IDSymmetry == Permutations(IDs)
=============================================================================
