------------------------------ MODULE PageStore ------------------------------
(***************************************************************************)
(* What the buffer pool and the disk manager promise together: pages that  *)
(* are handed out one at a time, read as they were last written, and       *)
(* outlive an orderly restart.                                             *)
(***************************************************************************)
CONSTANTS
  Pages,
  Values,
  Unwritten   \* the content of a page before it is first written

VARIABLE contents   \* page in use -> content

New(p) ==
  /\ p \notin DOMAIN contents
  /\ contents' = [q \in DOMAIN contents \cup {p} |->
                    IF q = p THEN Unwritten ELSE contents[q]]

Write(p, v) ==
  /\ p \in DOMAIN contents
  /\ contents' = [contents EXCEPT ![p] = v]

Delete(p) ==
  /\ p \in DOMAIN contents
  /\ contents' = [q \in DOMAIN contents \ {p} |-> contents[q]]

Init == contents = [p \in {} |-> Unwritten]

Next ==
  \E p \in Pages : New(p) \/ Delete(p) \/ \E v \in Values : Write(p, v)

Spec == Init /\ [][Next]_contents
=============================================================================
