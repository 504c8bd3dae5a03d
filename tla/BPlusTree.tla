------------------------------ MODULE BPlusTree ------------------------------
(***************************************************************************)
(* The B+ tree (bpt.hpp), as operators from trees to trees.  A tree is     *)
(* [page, root, siz]; page maps the numbers of pages to their content, and *)
(* root is 0 for the empty tree.  An entry is a key and a number (of a     *)
(* value, or of a child page).                                             *)
(*                                                                         *)
(* In the data of an inner page the key of a child is the largest key      *)
(* under it.  Only the pages on the way to the largest key of all have one *)
(* child more than keys: it lies in the slot after the last key, or in p_n *)
(* when there is no such slot.  In a leaf p_n is the next leaf.            *)
(***************************************************************************)
EXTENDS Integers, SequencesExt, FiniteSetsExt

CONSTANT KMax       \* kMaxKeyCount

ASSUME KMaxAssumption == KMax \in Nat /\ KMax >= 3

KMin == (KMax + 1) \div 2
Slots == 0 .. KMax - 1

\* Bytes nobody has written.
Junk == [first |-> -1, second |-> -1]

kInvalidValueIndex == -1

EmptyTree == [page |-> [id \in {} |-> Junk], root |-> 0, siz |-> 0]

-----------------------------------------------------------------------------
(* Pages *)

NewPage(leaf, root, entries, count) ==
  [leaf |-> leaf, root |-> root, count |-> count, pn |-> IF leaf THEN 0 ELSE Junk.second,
   data |-> [i \in Slots |-> IF i \in DOMAIN entries THEN entries[i] ELSE Junk]]

LastKey(p) == p.data[p.count - 1].first

\* The past-the-end child is in p_n when the data is full.
Child(p, i) == IF i < KMax THEN p.data[i].second ELSE p.pn

SetChild(p, i, id) ==
  IF i < KMax THEN [p EXCEPT !.data[i].second = id] ELSE [p EXCEPT !.pn = id]

SetKey(p, i, key) == [p EXCEPT !.data[i].first = key]

\* The data with an entry put in at a slot: one slot more than a page has.
Inserted(data, at, entry) ==
  [i \in 0 .. KMax |-> IF i < at THEN data[i] ELSE IF i = at THEN entry ELSE data[i - 1]]

\* The first count slots from entries, the others as they are.
Overwrite(p, entries, count) ==
  [p EXCEPT !.count = count,
            !.data = [i \in Slots |-> IF i < count THEN entries[i] ELSE @[i]]]

\* memmove over the entry at a slot; the past-the-end child stays where it is.
Erase(p, at) ==
  Overwrite(p, [i \in 0 .. p.count - 2 |-> p.data[IF i < at THEN i ELSE i + 1]], p.count - 1)

\* The entries of q after those of p.
Joined(p, q) ==
  Overwrite(p, [i \in 0 .. p.count + q.count - 1 |->
                  IF i < p.count THEN p.data[i] ELSE q.data[i - p.count]], p.count + q.count)

Fresh(T) == CHOOSE id \in 1 .. Cardinality(DOMAIN T.page) + 1 : id \notin DOMAIN T.page

Store(T, id, p) == [T EXCEPT !.page = [i \in DOMAIN @ \cup {id} |-> IF i = id THEN p ELSE @[i]]]

DeletePage(T, id) == [T EXCEPT !.page = [i \in DOMAIN @ \ {id} |-> @[i]]]

-----------------------------------------------------------------------------
(* Finding.  A position is the path from the root: a page and a slot for   *)
(* every level.                                                            *)

LowerBound(p, key) == Cardinality({i \in 0 .. p.count - 1 : p.data[i].first < key})

RECURSIVE PathFrom(_, _, _)
PathFrom(T, id, key) ==
  LET p == T.page[id]
      at == LowerBound(p, key)
  IN  <<[id |-> id, at |-> at]>> \o IF p.leaf THEN <<>> ELSE PathFrom(T, Child(p, at), key)

FindPosition(T, key) == IF T.root = 0 THEN <<>> ELSE PathFrom(T, T.root, key)

IsEnd(T, pos) == pos = <<>> \/ Last(pos).at = T.page[Last(pos).id].count

EntryAt(T, pos) == T.page[Last(pos).id].data[Last(pos).at]

Found(T, pos, key) == ~IsEnd(T, pos) /\ EntryAt(T, pos).first = key

\* A bug: the last entry of every leaf is passed over.
FollowingTooSoon(T, id, at) ==
  IF at + 2 < T.page[id].count THEN <<id, at + 1>>
  ELSE IF T.page[id].pn = 0 THEN <<>> ELSE <<T.page[id].pn, 0>>

\* operator++ of the iterators: a slot of a leaf, or <<>> at the end.
Following(T, id, at) ==
  IF at + 1 < T.page[id].count THEN <<id, at + 1>>
  ELSE IF T.page[id].pn = 0 THEN <<>> ELSE <<T.page[id].pn, 0>>

RECURSIVE ScanFrom(_, _, _)
ScanFrom(T, it, limit) ==
  IF it = <<>> \/ limit = 0 THEN <<>>
  ELSE <<T.page[it[1]].data[it[2]]>> \o ScanFrom(T, Following(T, it[1], it[2]), limit - 1)

\* The entries that an iteration from lower_bound on meets (bounded: the
\* chain of leaves might have a cycle).
Scan(T, key) ==
  LET pos == FindPosition(T, key)
  IN  IF IsEnd(T, pos) THEN <<>> ELSE ScanFrom(T, <<Last(pos).id, Last(pos).at>>, T.siz + 1)

GetIndex(T, key) ==
  LET pos == FindPosition(T, key)
  IN  IF Found(T, pos, key) THEN EntryAt(T, pos).second ELSE kInvalidValueIndex

-----------------------------------------------------------------------------
(* Insertion *)

Up(pos) == pos[Len(pos) - 1]

\* is_in_right_skew_path: the parent has a past-the-end child.
ParentInRightSkewPath(T, pos) ==
  \/ Len(pos) = 2
  \/ LET g == pos[Len(pos) - 2] IN g.at = T.page[g.id].count

\* A root over a page that was split and the page split off.
NewRoot(T, left, right) ==
  LET id == Fresh(T)
      U == Store(T, left, [T.page[left] EXCEPT !.root = FALSE])
      entries == [i \in {0, 1} |-> IF i = 0 THEN [first |-> LastKey(T.page[left]), second |-> left]
                                            ELSE [first |-> -1, second |-> right]]
  IN  [Store(U, id, NewPage(FALSE, TRUE, entries, 1)) EXCEPT !.root = id]

RECURSIVE InsertFixUpLoopPartA(_, _, _)

\* The inner page before last in pos is full: split it for one child more.
InsertFixUpLoopPartB(T, pos, entry, key) ==
  LET id == Up(pos).id
      at == Up(pos).at
      p == T.page[id]
      new == Fresh(T)
      last == at - 1 = KMax      \* the child that was split is the past-the-end one
      all == IF last THEN Inserted(p.data, KMax, [first |-> key, second |-> p.pn])
                     ELSE Inserted([p.data EXCEPT ![at - 1].first = key], at, entry)
      split == NewPage(FALSE, FALSE, [i \in 0 .. KMin - 1 |-> all[KMax + 1 - KMin + i]], KMin)
      U == Store(Store(T, id, Overwrite(p, all, KMax + 1 - KMin)),
                 new, SetChild(split, KMin, IF last THEN entry.second ELSE p.pn))
  IN  IF Len(pos) = 2 THEN NewRoot(U, id, new) ELSE InsertFixUpLoopPartA(U, Front(pos), new)

\* The last page of pos, on the way to the largest key, has been split and
\* new split off: enter it in the parent.
InsertFixUpLoopPartA(T, pos, new) ==
  LET at == Up(pos).at + 1
      p == T.page[Up(pos).id]
      key == LastKey(T.page[Last(pos).id])
      entry == [first |-> LastKey(T.page[new]), second |-> new]
      moved == SetChild(SetKey(p, at - 1, key), p.count + 1, Child(p, p.count))
      shifted == [moved EXCEPT !.data = [i \in Slots |->
                    IF i \in at + 1 .. p.count THEN @[i - 1] ELSE @[i]]]
      placed == IF at < KMax THEN [shifted EXCEPT !.data[at] = entry]
                             ELSE SetChild(shifted, at, new)
  IN  IF p.count < KMax
      THEN Store(T, Up(pos).id, [placed EXCEPT !.count = p.count + 1])
      ELSE InsertFixUpLoopPartB(T, [pos EXCEPT ![Len(pos) - 1].at = at], entry, key)

RECURSIVE InsertEntryAt(_, _, _, _)
InsertEntryAt(T, pos, entry, isFixingUp) ==
  LET id == Last(pos).id
      p == T.page[id]
      all == Inserted(p.data, Last(pos).at, entry)
      new == Fresh(T)
      kept == Overwrite(p, all, KMax + 1 - KMin)
      split == NewPage(~isFixingUp, FALSE, [i \in 0 .. KMin - 1 |-> all[KMax + 1 - KMin + i]], KMin)
      U == IF isFixingUp THEN Store(Store(T, id, kept), new, split)
           ELSE Store(Store(T, id, [kept EXCEPT !.pn = new]), new, [split EXCEPT !.pn = p.pn])
  IN  CASE p.count < KMax -> Store(T, id, Overwrite(p, all, p.count + 1))
        [] p.count = KMax /\ p.root -> NewRoot(U, id, new)
        [] p.count = KMax /\ ~p.root /\ ParentInRightSkewPath(T, pos) ->
             InsertFixUpLoopPartA(U, pos, new)
        [] OTHER ->
             InsertEntryAt(Store(U, Up(pos).id, SetKey(U.page[Up(pos).id], Up(pos).at, LastKey(kept))),
                           [Front(pos) EXCEPT ![Len(pos) - 1].at = @ + 1],
                           [first |-> LastKey(split), second |-> new], TRUE)

PutKey(T, key, value) ==
  LET pos == FindPosition(T, key)
      entry == [first |-> key, second |-> value]
  IN  CASE Found(T, pos, key) -> Store(T, Last(pos).id, SetChild(T.page[Last(pos).id], Last(pos).at, value))
        [] T.siz = 0 -> [page |-> Store(T, Fresh(T), NewPage(TRUE, TRUE, [i \in {0} |-> entry], 1)).page,
                         root |-> Fresh(T), siz |-> 1]
        [] OTHER -> [InsertEntryAt(T, pos, entry, FALSE) EXCEPT !.siz = @ + 1]

-----------------------------------------------------------------------------
(* Removal.  A merge gives up a page.  The page itself is freed where its  *)
(* guard has been dropped; where a guard still pins it DeletePage refuses, *)
(* and where nobody asks it stays: then no tree has the page any more.     *)

\* An inner root without keys gives way to its only child.
DropRoot(T) ==
  LET child == T.page[T.root].data[0].second
  IN  DeletePage([Store(T, child, [T.page[child] EXCEPT !.root = TRUE]) EXCEPT !.root = child], T.root)

\* (A leaf root without keys is the empty tree and does not get here.)
HasEnoughKeys(p) == p.count > KMin \/ p.root

\* Entry 0 of p taken from the end of prev.
Borrowed(p, prev) ==
  Overwrite(p, [i \in 0 .. p.count |-> IF i = 0 THEN prev.data[prev.count - 1] ELSE p.data[i - 1]],
            p.count + 1)

RECURSIVE RemoveEntryInRightSkewPath(_, _)
RemoveEntryInRightSkewPath(T, pos) ==
  LET id == Last(pos).id
      at == Last(pos).at
      p0 == T.page[id]
      p == IF at = p0.count THEN [p0 EXCEPT !.count = @ - 1]
           ELSE SetChild(Erase(p0, at), p0.count - 1, Child(p0, p0.count))
      U == Store(T, id, p)
      parent == U.page[Up(pos).id]
      prevId == Child(parent, Up(pos).at - 1)
      prev == U.page[prevId]
      lent == [prev EXCEPT !.count = @ - 1]
      merged == SetChild(Joined(prev, p), prev.count + p.count, Child(p, p.count))
      WithPrev(q) == Store(Store(U, prevId, q), Up(pos).id, SetKey(parent, Up(pos).at - 1, LastKey(q)))
  IN  CASE HasEnoughKeys(p0) -> IF p.root /\ p.count = 0 THEN DropRoot(U) ELSE U
        [] ~HasEnoughKeys(p0) /\ prev.count > KMin ->
             Store(WithPrev(lent), id, Borrowed(SetChild(p, p.count + 1, Child(p, p.count)), prev))
        [] OTHER -> RemoveEntryInRightSkewPath(WithPrev(merged), Front(pos))

\* A bug: the separators further up keep the old key.
KeepSeparators(T, pos) == T

\* The largest key of the last page of pos has changed.
RECURSIVE TryUpdateTillRoot(_, _)
TryUpdateTillRoot(T, pos) ==
  IF \/ Len(pos) < 2
     \/ Last(pos).at # T.page[Last(pos).id].count - 1
     \/ Up(pos).at >= T.page[Up(pos).id].count
  THEN T
  ELSE TryUpdateTillRoot(
         Store(T, Up(pos).id, SetKey(T.page[Up(pos).id], Up(pos).at, LastKey(T.page[Last(pos).id]))),
         Front(pos))

RECURSIVE RemoveEntryAt(_, _, _)
RemoveEntryAt(T, pos, isFixingUp) ==
  LET id == Last(pos).id
      upId == Up(pos).id
      upAt == Up(pos).at
      p == Erase(T.page[id], Last(pos).at)
      needUpdate == Len(pos) >= 2 /\ p.count = Last(pos).at /\ upAt < T.page[upId].count
      U == IF needUpdate
           THEN Store(Store(T, id, p), upId, SetKey(T.page[upId], upAt, LastKey(p)))
           ELSE Store(T, id, p)
      Updated(V) == IF needUpdate THEN TryUpdateTillRoot(V, Front(pos)) ELSE V
      up == U.page[upId]
      right == ParentInRightSkewPath(T, pos)
      prevId == IF upAt > 0 THEN Child(up, upAt - 1) ELSE 0
      nextId == IF upAt < (IF right THEN up.count ELSE up.count - 1) THEN Child(up, upAt + 1) ELSE 0
      prev == U.page[prevId]
      next == U.page[nextId]
      \* next has the past-the-end child
      nextIsLast == isFixingUp /\ upAt + 1 = up.count
      GoOn(V, at) == LET rest == [Front(pos) EXCEPT ![Len(pos) - 1].at = at]
                     IN  IF right THEN RemoveEntryInRightSkewPath(V, rest) ELSE RemoveEntryAt(V, rest, TRUE)
      BorrowFromPrev ==
        LET lent == [prev EXCEPT !.count = @ - 1]
        IN  Updated(Store(Store(Store(U, id, Borrowed(p, prev)), prevId, lent),
                          upId, SetKey(up, upAt - 1, LastKey(lent))))
      BorrowFromNext ==
        LET rest == Erase(next, 0)
            lent == IF nextIsLast THEN SetChild(rest, rest.count, Child(next, next.count)) ELSE rest
            grown == [p EXCEPT !.count = @ + 1, !.data[p.count] = next.data[0]]
        IN  TryUpdateTillRoot(Store(Store(Store(U, id, grown), nextId, lent),
                                    upId, SetKey(up, upAt, LastKey(grown))), Front(pos))
      MergeIntoPrev ==
        LET merged == [Joined(prev, p) EXCEPT !.pn = p.pn]
        IN  GoOn(DeletePage(Store(Store(U, prevId, merged), upId, SetKey(up, upAt - 1, LastKey(merged))), id),
                 upAt)
      MergeNext ==
        LET linked == CASE nextIsLast -> SetChild(p, p.count + next.count, Child(next, next.count))
                        [] ~isFixingUp -> [p EXCEPT !.pn = next.pn]
                        [] OTHER -> p
            merged == Joined(linked, next)
        IN  GoOn(Store(Store(U, id, merged), upId, SetKey(up, upAt, LastKey(merged))), upAt + 1)
  IN  CASE HasEnoughKeys(T.page[id]) -> Updated(U)
        [] ~HasEnoughKeys(T.page[id]) /\ prevId # 0 /\ prev.count > KMin -> BorrowFromPrev
        [] ~HasEnoughKeys(T.page[id]) /\ ~(prevId # 0 /\ prev.count > KMin)
           /\ nextId # 0 /\ next.count > KMin -> BorrowFromNext
        [] OTHER -> IF prevId # 0 THEN MergeIntoPrev ELSE MergeNext

RemoveKey(T, key) ==
  LET pos == FindPosition(T, key)
  IN  CASE ~Found(T, pos, key) -> T
        [] T.siz = 1 -> [T EXCEPT !.root = 0, !.siz = 0]
        [] OTHER -> [RemoveEntryAt(T, pos, FALSE) EXCEPT !.siz = @ - 1]

-----------------------------------------------------------------------------
(* What a tree should look like *)

NumChildren(T, p, right) == IF p.leaf THEN 0 ELSE IF right THEN p.count + 1 ELSE p.count

\* The tree under a page without the numbers of pages and the stale slots:
\* its keys, and the trees under its children.
RECURSIVE Unfold(_, _, _)
Unfold(T, id, right) ==
  LET p == T.page[id]
      n == NumChildren(T, p, right)
  IN  [keys |-> [i \in 1 .. p.count |-> p.data[i - 1].first],
       subs |-> [i \in 1 .. n |-> Unfold(T, Child(p, i - 1), right /\ i = n)]]

\* Uniform depth, fill between KMin and KMax below the root, keys sorted, and
\* every key of an inner page the largest below its child.
RECURSIVE Depth(_)
Depth(s) == IF s.subs = <<>> THEN 0 ELSE 1 + Depth(s.subs[1])

RECURSIVE LargestIn(_)
LargestIn(s) == IF s.subs = <<>> THEN Last(s.keys) ELSE LargestIn(Last(s.subs))

RECURSIVE ShapeSound(_, _)
ShapeSound(s, isRoot) ==
  /\ Len(s.keys) \in (IF isRoot THEN 1 ELSE KMin) .. KMax
  /\ \A i, j \in DOMAIN s.keys : i < j => s.keys[i] < s.keys[j]
  /\ \A i \in DOMAIN s.subs :
       /\ ShapeSound(s.subs[i], FALSE)
       /\ Depth(s.subs[i]) = Depth(s.subs[1])
       /\ i \in DOMAIN s.keys => s.keys[i] = LargestIn(s.subs[i])
=============================================================================
