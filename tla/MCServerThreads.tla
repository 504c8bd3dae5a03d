-------------------------- MODULE MCServerThreads --------------------------
(* Small instances of ServerThreads for TLC. *)
EXTENDS ServerThreads
=============================================================================
