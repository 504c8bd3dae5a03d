---------------------------- MODULE ValueStorage ----------------------------
(***************************************************************************)
(* The elements of a data file and the chain of blank ones                 *)
(* (single_value_storage.hpp), as operators on [blank, pages, elem]: the   *)
(* first blank element, the pages of the file so far and                   *)
(* the elements [data, nxt] by index.  Page 0 is the header, so no element *)
(* has index 0, and 0 ends the chain.                                      *)
(***************************************************************************)
EXTENDS Integers, SequencesExt, Functions

CONSTANT PageSize       \* max_element_in_page

ASSUME PageSizeAssumption == PageSize \in Nat \ {0}

NoElements == [blank |-> 0, pages |-> 0, elem |-> [e \in {} |-> 0]]

\* The index that write returns, and the storage after it.
WriteIndex(S) == IF S.blank # 0 THEN S.blank ELSE (S.pages + 1) * PageSize

Write(S, value) ==
  LET first == WriteIndex(S)
      last == first + PageSize - 1
      page == [e \in first .. last |-> [data |-> value, nxt |-> IF e = last THEN 0 ELSE e + 1]]
  IN  IF S.blank # 0
      THEN [S EXCEPT !.blank = S.elem[first].nxt, !.elem[first].data = value]
      ELSE [blank |-> page[first].nxt, pages |-> S.pages + 1,
            elem |-> [e \in DOMAIN S.elem \cup first .. last |->
                        IF e \in first .. last THEN page[e] ELSE S.elem[e]]]

\* A bug: the offset in the page is forgotten.
UpdateFirstOfPage(S, index, value) ==
  [S EXCEPT !.elem[(index \div PageSize) * PageSize].data = value]

Update(S, index, value) == [S EXCEPT !.elem[index].data = value]

Read(S, index) == S.elem[index].data

\* A bug: the rest of the chain is forgotten.
DeleteUnlinked(S, index) == [S EXCEPT !.elem[index].nxt = 0, !.blank = index]

Delete(S, index) == [S EXCEPT !.elem[index].nxt = S.blank, !.blank = index]

\* The chain of blank elements, as far as it has no cycle.
RECURSIVE ChainFrom(_, _, _)
ChainFrom(S, e, limit) ==
  IF e = 0 \/ limit = 0 THEN <<>> ELSE <<e>> \o ChainFrom(S, S.elem[e].nxt, limit - 1)

Blanks(S) == ChainFrom(S, S.blank, S.pages * PageSize + 1)
=============================================================================
