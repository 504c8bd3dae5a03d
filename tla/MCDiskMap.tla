------------------------------ MODULE MCDiskMap ------------------------------
(* Small instances of DiskMap for TLC. *)
EXTENDS DiskMap

\* Eight keys that come and go down to the empty tree; trees of three levels,
\* loaded in order or with a left half that is fuller, lose and regain a few.
MCLoads ==
  { [keys |-> <<5, 2, 8, 1, 4, 7, 3, 6>>, gone |-> 8],
    [keys |-> [i \in 1 .. 14 |-> i], gone |-> 2],
    [keys |-> [i \in 1 .. 14 |-> 2 * i] \o <<1, 3>>, gone |-> 2] }

\* Two versions of one key, one of every other.
MCVersions == [k \in 1 .. 28 |-> IF k = 5 THEN {k, 100 + k} ELSE {k}]
=============================================================================
