---------------------------- MODULE MCUserSystem ----------------------------
(* Small instances of UserSystem for TLC. *)
EXTENDS UserSystem, TLC

\* User names are interchangeable.
UserSymmetry == Permutations(Users)
=============================================================================
