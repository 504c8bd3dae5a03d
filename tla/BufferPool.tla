----------------------------- MODULE BufferPool -----------------------------
(***************************************************************************)
(* The buffer pool over a page file with its chain of free pages           *)
(* (buffer_pool_manager.cpp, disk_manager.cpp), driven through page guards.*)
(* Every operation runs under the pool's mutex and is one step.  Of the    *)
(* replacer only the evictable frames are here: which of them is the       *)
(* victim is LRUKReplacer's matter, and any may be.  The bytes of a page   *)
(* are a value that a caller wrote, or the number of the next free page,   *)
(* or junk.                                                                *)
(***************************************************************************)
EXTENDS Integers, SequencesExt

CONSTANTS
  Frames,
  Guards,       \* page guards of the callers
  Values,       \* what callers write
  MaxPages      \* bound of the model: pages of the file

ASSUME ValuesAssumption == \A v \in Values : v \notin -1 .. MaxPages
ASSUME PagesAssumption == MaxPages \in Nat
ASSUME FiniteAssumption == IsFiniteSet(Frames) /\ IsFiniteSet(Guards)

VARIABLES
  owned,      \* the pages callers refer to -> whether they have been written
  pageTable,  \* page_table_
  frames,     \* pages_: frame -> [page, bytes, dirty, pins]
  freeList,   \* free_list_
  evictable,  \* the frames the replacer may give up
  guards,     \* guard -> [page, frame, dirty], or NoGuard
  disk,       \* the bytes of pages 1, 2, ... in the file
  meta        \* the disk manager's counters and head of the free chain

vars == <<owned, pageTable, frames, freeList, evictable, guards, disk, meta>>

\* Uninitialised memory, or whatever a buffer held before.
Junk == -1

NoGuard == [page |-> 0]

EmptyFrame == [page |-> 0, bytes |-> Junk, dirty |-> FALSE, pins |-> 0]

NoPages == [p \in {} |-> 0]
EmptyFrames == [f \in Frames |-> EmptyFrame]
AllFree == SetToSeq(Frames)

Init ==
  /\ pageTable = NoPages
  /\ frames = EmptyFrames
  /\ freeList = AllFree
  /\ evictable = {}
  /\ owned = [p \in {} |-> FALSE]
  /\ guards = [g \in Guards |-> NoGuard]
  /\ disk = <<>>
  /\ meta = [firstEmpty |-> 0, total |-> 0, noneEmpty |-> 0]

-----------------------------------------------------------------------------
(* The disk manager *)

NewPageId == IF meta.firstEmpty = 0 THEN meta.total + 1 ELSE meta.firstEmpty

\* d is the file after a write-back that came before.
AllocNewEmptyPageId(d) ==
  IF meta.firstEmpty = 0
  THEN /\ meta' = [meta EXCEPT !.total = @ + 1, !.noneEmpty = @ + 1]
       /\ disk' = Append(d, Junk)
  ELSE /\ meta' = [meta EXCEPT !.firstEmpty = d[meta.firstEmpty], !.noneEmpty = @ + 1]
       /\ disk' = d

\* A bug: the page is made the head without a link to the old head.
DeallocatePageNoLink(p) ==
  /\ disk' = disk
  /\ meta' = [meta EXCEPT !.firstEmpty = p, !.noneEmpty = @ - 1]

DeallocatePage(p) ==
  /\ disk' = [disk EXCEPT ![p] = meta.firstEmpty]
  /\ meta' = [meta EXCEPT !.firstEmpty = p, !.noneEmpty = @ - 1]

-----------------------------------------------------------------------------
(* Frames *)

\* The frame a page is loaded into: a free one, or the replacer's victim.
FramesToUse == IF freeList # <<>> THEN {Head(freeList)} ELSE evictable

\* A bug: a dirty victim is not written back.
WriteBackNothing(f) == disk

\* The file after the victim's write-back.
WriteBack(f) ==
  IF freeList = <<>> /\ frames[f].dirty
  THEN [disk EXCEPT ![frames[f].page] = frames[f].bytes]
  ELSE disk

\* A bug: the page that was there keeps its entry.
LoadKeepsOldEntry(f, p, bytes) ==
  /\ frames' = [frames EXCEPT ![f] = [page |-> p, bytes |-> bytes, dirty |-> FALSE, pins |-> 1]]
  /\ pageTable' = [q \in DOMAIN pageTable \cup {p} |-> IF q = p THEN f ELSE pageTable[q]]
  /\ freeList' = IF freeList # <<>> THEN Tail(freeList) ELSE freeList
  /\ evictable' = evictable \ {f}

\* p takes frame f over from whatever page was there.
Load(f, p, bytes) ==
  /\ frames' = [frames EXCEPT ![f] = [page |-> p, bytes |-> bytes, dirty |-> FALSE, pins |-> 1]]
  /\ pageTable' = [q \in (DOMAIN pageTable \ {frames[f].page}) \cup {p} |->
                     IF q = p THEN f ELSE pageTable[q]]
  /\ freeList' = IF freeList # <<>> THEN Tail(freeList) ELSE freeList
  /\ evictable' = evictable \ {f}

Guard(g, p, f) == guards' = [guards EXCEPT ![g] = [page |-> p, frame |-> f, dirty |-> FALSE]]

\* A frame off the free list keeps the bytes it has; a victim's are reset.
NewPageGuarded(g, f) ==
  LET p == NewPageId
  IN  /\ guards[g] = NoGuard
      /\ f \in FramesToUse
      /\ p <= MaxPages
      /\ AllocNewEmptyPageId(WriteBack(f))
      /\ Load(f, p, IF freeList # <<>> THEN frames[f].bytes ELSE 0)
      /\ Guard(g, p, f)
      /\ owned' = [q \in DOMAIN owned \cup {p} |-> IF q = p THEN FALSE ELSE owned[q]]

FetchResident(g, p) ==
  LET f == pageTable[p]
  IN  /\ guards[g] = NoGuard
      /\ p \in DOMAIN owned \cap DOMAIN pageTable
      /\ frames' = [frames EXCEPT ![f].pins = @ + 1]
      /\ evictable' = evictable \ {f}
      /\ Guard(g, p, f)
      /\ UNCHANGED <<owned, pageTable, freeList, disk, meta>>

FetchFromDisk(g, p, f) ==
  /\ guards[g] = NoGuard
  /\ p \in DOMAIN owned \ DOMAIN pageTable
  /\ f \in FramesToUse
  /\ disk' = WriteBack(f)
  /\ Load(f, p, disk'[p])
  /\ Guard(g, p, f)
  /\ UNCHANGED <<owned, meta>>

\* GetDataMut: the page itself is marked dirty only when the guard is dropped.
WriteThrough(g, v) ==
  LET p == guards[g].page
  IN  /\ guards[g] # NoGuard
      /\ p \in DOMAIN owned
      /\ frames' = [frames EXCEPT ![guards[g].frame].bytes = v]
      /\ guards' = [guards EXCEPT ![g].dirty = TRUE]
      /\ owned' = [owned EXCEPT ![p] = TRUE]
      /\ UNCHANGED <<pageTable, freeList, evictable, disk, meta>>

\* A bug: the pin is not taken back.
UnpinPageKeepsPin(p, dirty) ==
  /\ frames' = IF p \in DOMAIN pageTable /\ dirty
                THEN [frames EXCEPT ![pageTable[p]].dirty = TRUE] ELSE frames
  /\ UNCHANGED evictable

\* A bug: the frame becomes evictable whoever else holds it.
UnpinPageAlwaysEvictable(p, dirty) ==
  LET f == pageTable[p]
  IN  IF p \notin DOMAIN pageTable \/ frames[f].pins = 0
      THEN UNCHANGED <<frames, evictable>>
      ELSE /\ frames' = [frames EXCEPT ![f].pins = @ - 1, ![f].dirty = @ \/ dirty]
           /\ evictable' = evictable \cup {f}

UnpinPage(p, dirty) ==
  LET f == pageTable[p]
  IN  IF p \notin DOMAIN pageTable \/ frames[f].pins = 0
      THEN UNCHANGED <<frames, evictable>>
      ELSE /\ frames' = [frames EXCEPT ![f].pins = @ - 1, ![f].dirty = @ \/ dirty]
           /\ evictable' = IF frames[f].pins = 1 THEN evictable \cup {f} ELSE evictable

DropGuard(g) ==
  /\ guards[g] # NoGuard
  /\ UnpinPage(frames[guards[g].frame].page, guards[g].dirty)
  /\ guards' = [guards EXCEPT ![g] = NoGuard]
  /\ UNCHANGED <<owned, pageTable, freeList, disk, meta>>

\* The caller, who does not look at the answer, has forgotten the page anyway.
Disown(p) ==
  /\ p \in DOMAIN owned
  /\ owned' = [q \in DOMAIN owned \ {p} |-> owned[q]]
  /\ UNCHANGED guards

DeletePage(p) ==
  LET f == pageTable[p]
  IN  /\ Disown(p)
      /\ p \in DOMAIN pageTable
      /\ frames[f].pins = 0
      /\ pageTable' = [q \in DOMAIN pageTable \ {p} |-> pageTable[q]]
      /\ evictable' = evictable \ {f}
      /\ freeList' = Append(freeList, f)
      /\ frames' = [frames EXCEPT ![f] = [EmptyFrame EXCEPT !.bytes = 0]]
      /\ DeallocatePage(p)

\* A page that is pinned, or not in the pool, is never given back.
LosePage(p) ==
  /\ Disown(p)
  /\ p \in DOMAIN pageTable => frames[pageTable[p]].pins > 0
  /\ UNCHANGED <<pageTable, frames, freeList, evictable, disk, meta>>

-----------------------------------------------------------------------------
(* Flush and restart *)

\* The file after every page of the pool has been written to it.
Flushed == [p \in DOMAIN disk |->
              IF p \in DOMAIN pageTable THEN frames[pageTable[p]].bytes ELSE disk[p]]

\* FlushAllPages: the pages, then the header.
FlushAllPages ==
  /\ disk' = Flushed
  /\ frames' = [f \in Frames |->
                  IF frames[f].page \in DOMAIN pageTable
                  THEN [frames[f] EXCEPT !.dirty = FALSE] ELSE frames[f]]
  /\ UNCHANGED <<owned, pageTable, freeList, evictable, guards, meta>>

\* The pool is destroyed, then the disk manager, and both are made anew.
Restart ==
  /\ \A g \in Guards : guards[g] = NoGuard
  /\ disk' = Flushed
  /\ pageTable' = NoPages
  /\ frames' = EmptyFrames
  /\ freeList' = AllFree
  /\ evictable' = {}
  /\ UNCHANGED <<owned, guards, meta>>

Next ==
  \/ \E g \in Guards :
       \/ DropGuard(g)
       \/ \E f \in Frames : NewPageGuarded(g, f)
       \/ \E p \in 1 .. MaxPages : FetchResident(g, p)
       \/ \E p \in 1 .. MaxPages, f \in Frames : FetchFromDisk(g, p, f)
       \/ \E v \in Values : WriteThrough(g, v)
  \/ \E p \in 1 .. MaxPages : DeletePage(p) \/ LosePage(p)
  \/ FlushAllPages
  \/ Restart

Spec == Init /\ [][Next]_vars

-----------------------------------------------------------------------------
(* Properties *)

Bytewise == Values \cup 0 .. MaxPages \cup {Junk}

GuardType == [page : 1 .. meta.total, frame : Frames, dirty : BOOLEAN]

FrameType ==
  [page : 0 .. meta.total, bytes : Bytewise, dirty : BOOLEAN, pins : 0 .. Cardinality(Guards)]

\* The types of the variables; a frame is never pinned more often than there
\* are guards to unpin it (UnpinPage).
TypeOK ==
  /\ owned \in [DOMAIN owned -> BOOLEAN] /\ DOMAIN owned \subseteq 1 .. meta.total
  /\ pageTable \in [DOMAIN pageTable -> Frames] /\ DOMAIN pageTable \subseteq 1 .. meta.total
  /\ frames \in [Frames -> FrameType]
  /\ freeList \in Seq(Frames)
  /\ evictable \subseteq Frames
  /\ guards \in [Guards -> GuardType \cup {NoGuard}]
  /\ meta \in [firstEmpty : 0 .. MaxPages, total : 0 .. MaxPages, noneEmpty : 0 .. MaxPages]
  /\ disk \in Seq(Bytewise) /\ Len(disk) = meta.total

Bytes(p) == IF p \in DOMAIN pageTable THEN frames[pageTable[p]].bytes ELSE disk[p]

Store == INSTANCE PageStore WITH
  Pages <- 1 .. MaxPages,
  Unwritten <- Junk,
  contents <- [p \in DOMAIN owned |-> IF owned[p] THEN Bytes(p) ELSE Junk]

\* Whatever is fetched, evicted, written back, flushed, deleted and restarted
\* in between: a page reads as it was last written, and no page that somebody
\* refers to is handed out again.
ImplementsPageStore == Store!Spec

\* The guards that refer to frame f.
Holders(f) == {g \in Guards : guards[g] # NoGuard /\ guards[g].frame = f}

\* What a guard points at is its page, for as long as the guard lives: a pinned
\* frame is neither evicted nor freed, and the replacer knows of every pin.
GuardsHoldTheirFrame ==
  /\ \A g \in Guards :
       guards[g] # NoGuard =>
         /\ guards[g].page \in DOMAIN pageTable
         /\ pageTable[guards[g].page] = guards[g].frame
         /\ guards[g].frame \notin evictable
  /\ \A f \in Frames : frames[f].pins = Cardinality(Holders(f))

\* A frame is in the free list, once, or it holds the one page that the table
\* has under it, never both, never neither; and when nobody holds it any more
\* the replacer may give it up, so no frame is lost to the pool.
FramesAccounted ==
  /\ IsInjective(freeList)
  /\ \A p \in DOMAIN pageTable :
       pageTable[p] \notin ToSet(freeList) /\ frames[pageTable[p]].page = p
  /\ \A f \in Frames \ ToSet(freeList) :
       frames[f].page \in DOMAIN pageTable /\ pageTable[frames[f].page] = f
  /\ \A f \in ToSet(freeList) : frames[f].page = 0
  /\ evictable = {f \in Frames \ ToSet(freeList) : frames[f].pins = 0}

\* The page that follows the i-th of the chain s of free pages.
Link(s, i) == IF i = 0 THEN meta.firstEmpty ELSE disk[s[i]]

\* s is the chain of the free pages, from its head to its end.
IsFreeChain(s) ==
  /\ DOMAIN s = 1 .. meta.total - meta.noneEmpty
  /\ \A i \in DOMAIN s : Link(s, i - 1) = s[i]
  /\ Link(s, meta.total - meta.noneEmpty) = 0

\* The chain of free pages is a list without repetition that comes to an end,
\* shares no page with those in use or in the pool, and has the length that the
\* two counters say.
FreeChainSound ==
  /\ meta.noneEmpty <= meta.total
  /\ \E s \in [1 .. meta.total - meta.noneEmpty -> 1 .. meta.total] :
       /\ IsFreeChain(s)
       /\ IsInjective(s)
       /\ \A i \in DOMAIN s : s[i] \notin DOMAIN owned \cup DOMAIN pageTable

\* A guard has written to page p since it was made.
Written(p) == \E g \in Guards : guards[g] # NoGuard /\ guards[g].page = p /\ guards[g].dirty

\* A page that is not marked dirty, and that no guard is about to mark, may be
\* dropped: the file has what the frame has.
CleanPagesStored ==
  \A p \in DOMAIN pageTable \cap DOMAIN owned :
    owned[p] /\ ~frames[pageTable[p]].dirty /\ ~Written(p) => disk[p] = frames[pageTable[p]].bytes

\* The inductive invariant behind the refinement of PageStore.
PoolInv ==
  TypeOK /\ GuardsHoldTheirFrame /\ FramesAccounted /\ FreeChainSound /\ CleanPagesStored
=============================================================================
