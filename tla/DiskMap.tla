------------------------------- MODULE DiskMap -------------------------------
(***************************************************************************)
(* A disk map (disk_map.hpp): a B+ tree from keys to the indices of        *)
(* elements, and the storage of the elements.  One client; Put, Remove and *)
(* the searches they start with.  (A restart stores root, size and first   *)
(* blank in the headers and reads them again; what the pool keeps of the   *)
(* pages is BufferPool's matter.)                                          *)
(***************************************************************************)
EXTENDS BPlusTree, ValueStorage

CONSTANTS
  Loads,      \* [keys, gone]: keys put one after the other to begin with, and
              \* a bound of the model: how many of them may be missing at once
  Versions    \* key -> the values put for it

VARIABLES
  load,
  indexer,
  storage,
  map         \* what the client has put: a history variable

vars == <<load, indexer, storage, map>>

Keys == Range(load.keys)

-----------------------------------------------------------------------------
(* The operations, as functions of the tree and the storage *)

PutInto(m, key, value) ==
  LET index == GetIndex(m.indexer, key)
  IN  IF index # kInvalidValueIndex
      THEN [m EXCEPT !.storage = Update(@, index, value)]
      ELSE [indexer |-> PutKey(m.indexer, key, WriteIndex(m.storage)),
            storage |-> Write(m.storage, value)]

RemoveFrom(m, key) ==
  LET index == GetIndex(m.indexer, key)
  IN  IF index = kInvalidValueIndex THEN m
      ELSE [indexer |-> RemoveKey(m.indexer, key), storage |-> Delete(m.storage, index)]

FirstOf(key) == CHOOSE v \in Versions[key] : TRUE

Loaded(keys) ==
  FoldLeft(LAMBDA m, k : PutInto(m, k, FirstOf(k)),
           [indexer |-> EmptyTree, storage |-> NoElements], keys)

Init ==
  /\ load \in Loads
  /\ indexer = Loaded(load.keys).indexer
  /\ storage = Loaded(load.keys).storage
  /\ map = [k \in Keys |-> FirstOf(k)]

Become(m) == indexer' = m.indexer /\ storage' = m.storage /\ UNCHANGED load

Here == [indexer |-> indexer, storage |-> storage]

DoPut(key, value) ==
  /\ Become(PutInto(Here, key, value))
  /\ map' = [k \in DOMAIN map \cup {key} |-> IF k = key THEN value ELSE map[k]]

DoRemove(key) ==
  /\ indexer.siz > Cardinality(Keys) - load.gone
  /\ Become(RemoveFrom(Here, key))
  /\ map' = [k \in DOMAIN map \ {key} |-> map[k]]

Next ==
  \E key \in Keys : DoRemove(key) \/ \E value \in Versions[key] : DoPut(key, value)

Spec == Init /\ [][Next]_vars

-----------------------------------------------------------------------------
(* Properties *)

Entries == {k \in Keys : GetIndex(indexer, k) # kInvalidValueIndex}

\* The state without numbers of pages and elements and without stale bytes.
View == << load, IF indexer.root = 0 THEN <<>> ELSE Unfold(indexer, indexer.root, TRUE),
           [i \in DOMAIN Scan(indexer, 0) |-> Scan(indexer, 0)[i].first], map,
           [i \in DOMAIN Blanks(storage) |-> Blanks(storage)[i] \in
                {GetIndex(indexer, k) : k \in Keys}], indexer.siz >>

\* The tree is a B+ tree whatever splits, loans and merges made it: leaves at
\* one depth, pages filled to the minimum, sorted, and every separator exactly
\* the largest key below it, as the searches and TryUpdateTillRoot presuppose.
TreeSound ==
  IF indexer.root = 0 THEN indexer.siz = 0
  ELSE ShapeSound(Unfold(indexer, indexer.root, TRUE), TRUE)

\* An iteration from any key meets every entry from there on once and in
\* order: the leaves stay chained through every split and merge.
IterationComplete ==
  \A k \in Keys :
    LET scan == Scan(indexer, k)
        keys == [i \in DOMAIN scan |-> scan[i].first]
    IN  /\ \A i, j \in DOMAIN keys : i < j => keys[i] < keys[j]
        /\ Range(keys) = {j \in Entries : j >= k}

\* No element is lost and none is on the chain of blanks while an entry has
\* it: what write hands out next is nobody's.
BlanksSound ==
  LET blanks == Blanks(storage)
      used == {GetIndex(indexer, k) : k \in Entries}
  IN  /\ IsInjective(blanks)
      /\ Range(blanks) = DOMAIN storage.elem \ used
      /\ Cardinality(used) = Cardinality(Entries)

\* The pair of files is a map: whatever was put, overwritten and removed
\* before, every key reads as the client last put it, or as absent.
ReadsAsPut ==
  /\ Entries = DOMAIN map
  /\ \A k \in Entries : Read(storage, GetIndex(indexer, k)) = map[k]
=============================================================================
