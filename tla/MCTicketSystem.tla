--------------------------- MODULE MCTicketSystem ---------------------------
(* Small instances of TicketSystem for TLC. *)
EXTENDS TicketSystem, TLC

\* Users are interchangeable.
UserSymmetry == Permutations(Users)
=============================================================================
