-------------------------- MODULE BufferPool_proofs --------------------------
(***************************************************************************)
(* Proofs about BufferPool, for any number of frames, guards and pages:    *)
(* its invariants, and that it implements PageStore.                       *)
(***************************************************************************)
EXTENDS BufferPool, FiniteSetTheorems, TLAPS

USE ValuesAssumption, PagesAssumption, FiniteAssumption

-----------------------------------------------------------------------------
(* Lists *)

\* The first element of a list without repetition is not in the rest of it.
LEMMA TailOfList ==
  ASSUME NEW S, NEW s \in Seq(S), s # <<>>, IsInjective(s)
  PROVE  /\ Head(s) \in S /\ Head(s) \in ToSet(s)
         /\ Tail(s) \in Seq(S) /\ IsInjective(Tail(s))
         /\ ToSet(Tail(s)) = ToSet(s) \ {Head(s)}
<1>1. /\ Len(s) \in Nat /\ Len(s) > 0 /\ Head(s) = s[1] /\ DOMAIN s = 1 .. Len(s)
      /\ Tail(s) \in Seq(S) /\ DOMAIN Tail(s) = 1 .. Len(s) - 1
      /\ \A i \in 1 .. Len(s) - 1 : Tail(s)[i] = s[i + 1]
  OBVIOUS
<1>2. \A i, j \in 1 .. Len(s) : s[i] = s[j] => i = j
  BY <1>1 DEF IsInjective
<1>3. Head(s) \in S /\ Head(s) \in ToSet(s)
  BY <1>1 DEF ToSet
<1>4. IsInjective(Tail(s))
  <2>1. ASSUME NEW i \in 1 .. Len(s) - 1, NEW j \in 1 .. Len(s) - 1, Tail(s)[i] = Tail(s)[j]
        PROVE  i = j
    <3>1. s[i + 1] = s[j + 1] /\ i + 1 \in 1 .. Len(s) /\ j + 1 \in 1 .. Len(s)
      BY <1>1, <2>1
    <3>. QED
      BY <1>2, <3>1
  <2>. QED
    BY <1>1, <2>1 DEF IsInjective
<1>5. ASSUME NEW x \in ToSet(Tail(s)) PROVE x \in ToSet(s) \ {Head(s)}
  <2>1. PICK i \in 1 .. Len(s) - 1 : x = s[i + 1]
    BY <1>1 DEF ToSet
  <2>2. i + 1 \in 1 .. Len(s) /\ 1 \in 1 .. Len(s) /\ i + 1 # 1
    BY <1>1
  <2>. QED
    BY <1>1, <1>2, <2>1, <2>2 DEF ToSet
<1>6. ASSUME NEW x \in ToSet(s) \ {Head(s)} PROVE x \in ToSet(Tail(s))
  <2>1. PICK i \in 1 .. Len(s) : x = s[i]
    BY <1>1 DEF ToSet
  <2>2. i - 1 \in 1 .. Len(s) - 1
    BY <1>1, <2>1
  <2>3. x = Tail(s)[i - 1]
    BY <1>1, <2>1, <2>2
  <2>. QED
    BY <1>1, <2>2, <2>3 DEF ToSet
<1>. QED
  BY <1>1, <1>3, <1>4, <1>5, <1>6

\* An element that is not in a list can be put at its end.
LEMMA AppendToList ==
  ASSUME NEW S, NEW s \in Seq(S), IsInjective(s), NEW x \in S, x \notin ToSet(s)
  PROVE  /\ Append(s, x) \in Seq(S) /\ IsInjective(Append(s, x))
         /\ ToSet(Append(s, x)) = ToSet(s) \cup {x}
<1>1. /\ Len(s) \in Nat /\ DOMAIN s = 1 .. Len(s)
      /\ Append(s, x) \in Seq(S) /\ DOMAIN Append(s, x) = 1 .. Len(s) + 1
      /\ Append(s, x)[Len(s) + 1] = x
      /\ \A i \in 1 .. Len(s) : Append(s, x)[i] = s[i]
  OBVIOUS
<1>2. \A i \in 1 .. Len(s) : s[i] # x
  BY <1>1 DEF ToSet
<1>3. \A i \in 1 .. Len(s) + 1 : i \in 1 .. Len(s) \/ i = Len(s) + 1
  BY <1>1
<1>4. IsInjective(Append(s, x))
  BY <1>1, <1>2, <1>3 DEF IsInjective
<1>5. ASSUME NEW y \in ToSet(Append(s, x)) PROVE y \in ToSet(s) \cup {x}
  BY <1>1, <1>3 DEF ToSet
<1>6. ASSUME NEW y \in ToSet(s) PROVE y \in ToSet(Append(s, x))
  BY <1>1 DEF ToSet
<1>7. x \in ToSet(Append(s, x))
  BY <1>1 DEF ToSet
<1>. QED
  BY <1>1, <1>4, <1>5, <1>6, <1>7

\* SetToSeq lists every element of a finite set, once.
LEMMA ListOfSet ==
  ASSUME NEW S, IsFiniteSet(S)
  PROVE  SetToSeq(S) \in Seq(S) /\ IsInjective(SetToSeq(S)) /\ ToSet(SetToSeq(S)) = S
<1>. DEFINE n == Cardinality(S)
            s == SetToSeq(S)
<1>1. n \in Nat /\ \E f : f \in Bijection(1 .. n, S)
  BY FS_CardinalityType DEF ExistsBijection
<1>2. \E f \in [1 .. n -> S] : IsInjective(f)
  BY <1>1 DEF Bijection, Injection
<1>3. s \in [1 .. n -> S] /\ IsInjective(s)
  BY <1>2 DEF SetToSeq
<1>. HIDE DEF s
<1>4. s \in Injection(1 .. n, S)
  BY <1>3 DEF Injection
<1>5. IsFiniteSet(1 .. n) /\ Cardinality(1 .. n) = n
  BY <1>1, FS_Interval
<1>6. s \in Surjection(1 .. n, S)
  BY <1>4, <1>5, FS_Injection
<1>7. ToSet(s) = S
  BY <1>3, <1>6 DEF ToSet, Surjection
<1>8. s \in Seq(S)
  BY <1>1, <1>3
<1>. QED
  BY <1>3, <1>7, <1>8 DEF s

-----------------------------------------------------------------------------
(* Frames, guards and the free list *)

\* What holds of the frames, between the operations and after each of them.
Framed == GuardsHoldTheirFrame /\ FramesAccounted

\* A guard is none, or it has a page, which is not 0.
LEMMA GuardIs ==
  ASSUME TypeOK, NEW g \in Guards
  PROVE  \/ guards[g] = NoGuard /\ guards[g].page = 0
         \/ /\ guards[g] # NoGuard /\ guards[g].page \in 1 .. meta.total /\ guards[g].page # 0
            /\ guards[g].frame \in Frames /\ guards[g].dirty \in BOOLEAN
BY DEF TypeOK, GuardType, NoGuard

\* The guards of a frame are finitely many.
LEMMA HoldersCount ==
  ASSUME NEW f
  PROVE  /\ IsFiniteSet(Holders(f)) /\ Cardinality(Holders(f)) \in 0 .. Cardinality(Guards)
         /\ Cardinality(Holders(f)) = 0 <=> Holders(f) = {}
<1>1. Holders(f) \subseteq Guards
  BY DEF Holders
<1>2. IsFiniteSet(Holders(f)) /\ Cardinality(Holders(f)) <= Cardinality(Guards)
  BY <1>1, FS_Subset
<1>3. Cardinality(Holders(f)) \in Nat /\ Cardinality(Guards) \in Nat
  BY <1>2, FS_CardinalityType
<1>. QED
  BY <1>2, <1>3, FS_EmptySet

\* A frame that a page may be loaded into is held by nobody, and the page that
\* the table has under it, if any, is the one it holds.
LEMMA FrameToUse ==
  ASSUME TypeOK, Framed, NEW f \in FramesToUse
  PROVE  /\ f \in Frames /\ frames[f].pins = 0 /\ Holders(f) = {}
         /\ \A p \in DOMAIN pageTable : pageTable[p] = f => p = frames[f].page
         /\ IF freeList = <<>>
            THEN f \in evictable /\ frames[f].page \in DOMAIN pageTable /\ pageTable[frames[f].page] = f
            ELSE f = Head(freeList) /\ f \in ToSet(freeList)
                 /\ frames[f].page = 0 /\ 0 \notin DOMAIN pageTable
<1>. USE DEF TypeOK, Framed, FramesAccounted, GuardsHoldTheirFrame
<1>1. 0 \notin DOMAIN pageTable
  OBVIOUS
<1>2. f \in Frames /\ (freeList # <<>> => f = Head(freeList) /\ f \in ToSet(freeList))
  BY TailOfList DEF FramesToUse
<1>3. \A p \in DOMAIN pageTable : pageTable[p] = f => p = frames[f].page
  OBVIOUS
<1>4. Holders(f) = {}
  <2>. SUFFICES ASSUME NEW g \in Guards, guards[g] # NoGuard, guards[g].frame = f PROVE FALSE
    BY DEF Holders
  <2>1. guards[g].page \in DOMAIN pageTable /\ pageTable[guards[g].page] = f /\ f \notin evictable
    OBVIOUS
  <2>. QED
    BY <1>2, <2>1 DEF FramesToUse
<1>5. frames[f].pins = 0
  BY <1>2, <1>4, HoldersCount
<1>. QED
  BY <1>1, <1>2, <1>3, <1>4, <1>5 DEF FramesToUse

\* A page that was not in the pool has a frame to itself, and the guard that
\* asked for it is the only one there.
LEMMA TakeOver ==
  ASSUME TypeOK, Framed, NEW f \in FramesToUse, NEW g \in Guards, guards[g] = NoGuard,
         NEW p \in 1 .. meta'.total, p \notin DOMAIN pageTable, NEW bytes \in Bytewise,
         Load(f, p, bytes), Guard(g, p, f),
         meta'.total \in Nat, meta.total <= meta'.total
  PROVE  /\ Framed'
         /\ pageTable' \in [DOMAIN pageTable' -> Frames] /\ DOMAIN pageTable' \subseteq 1 .. meta'.total
         /\ frames' \in [Frames -> FrameType']
         /\ freeList' \in Seq(Frames)
         /\ evictable' \subseteq Frames
         /\ guards' \in [Guards -> GuardType' \cup {NoGuard}]
         /\ DOMAIN pageTable' \subseteq DOMAIN pageTable \cup {p}
         /\ pageTable'[p] = f /\ frames'[f].bytes = bytes
         /\ \A q \in DOMAIN pageTable \ {frames[f].page} :
              /\ q \in DOMAIN pageTable' /\ q # p /\ pageTable'[q] = pageTable[q]
              /\ pageTable[q] # f /\ frames'[pageTable[q]] = frames[pageTable[q]]
         /\ frames[f].page # p => frames[f].page \notin DOMAIN pageTable'
         /\ \A q : q # p => (Written(q)' <=> Written(q))
<1>. USE DEF TypeOK
<1>. DEFINE new == [page |-> p, bytes |-> bytes, dirty |-> FALSE, pins |-> 1]
            old == frames[f].page
<1>1. /\ f \in Frames /\ frames[f].pins = 0 /\ Holders(f) = {}
      /\ \A q \in DOMAIN pageTable : pageTable[q] = f => q = old
      /\ freeList = <<>> => f \in evictable /\ old \in DOMAIN pageTable /\ pageTable[old] = f
      /\ freeList # <<>> => f = Head(freeList) /\ f \in ToSet(freeList) /\ old = 0
                            /\ 0 \notin DOMAIN pageTable
  BY FrameToUse
<1>2. /\ frames'[f] = new
      /\ \A x \in Frames : x # f => frames'[x] = frames[x]
      /\ DOMAIN frames' = Frames
      /\ frames' = [x \in Frames |-> frames'[x]]
  BY <1>1 DEF Load
<1>3. /\ pageTable' = [q \in (DOMAIN pageTable \ {old}) \cup {p} |-> IF q = p THEN f ELSE pageTable[q]]
      /\ DOMAIN pageTable' = (DOMAIN pageTable \ {old}) \cup {p}
      /\ \A q \in DOMAIN pageTable' : pageTable'[q] = IF q = p THEN f ELSE pageTable[q]
  BY DEF Load
<1>4. /\ guards'[g] = [page |-> p, frame |-> f, dirty |-> FALSE]
      /\ \A h \in Guards : h # g => guards'[h] = guards[h]
      /\ guards' = [h \in Guards |-> guards'[h]]
  BY DEF Guard
<1>5. guards'[g] # NoGuard /\ guards'[g].page = p /\ guards'[g].frame = f /\ ~guards'[g].dirty
  <2>1. p # 0
    OBVIOUS
  <2>. QED
    BY <1>4, <2>1 DEF NoGuard
<1>6. /\ freeList' \in Seq(Frames) /\ IsInjective(freeList')
      /\ ToSet(freeList') = ToSet(freeList) \ {f}
  <2>1. CASE freeList = <<>>
    <3>1. f \notin ToSet(freeList)
      BY <1>1, <2>1 DEF Framed, FramesAccounted
    <3>2. freeList' = freeList
      BY <2>1 DEF Load
    <3>. QED
      BY <3>1, <3>2 DEF Framed, FramesAccounted
  <2>2. CASE freeList # <<>>
    <3>1. freeList' = Tail(freeList)
      BY <2>2 DEF Load
    <3>. QED
      BY <1>1, <2>2, <3>1, TailOfList DEF Framed, FramesAccounted
  <2>. QED
    BY <2>1, <2>2
<1>7. evictable' = evictable \ {f}
  BY DEF Load
<1>8. Cardinality(Guards) \in Nat /\ 1 <= Cardinality(Guards)
  <2>1. Cardinality(Guards) \in Nat
    BY FS_CardinalityType
  <2>2. Cardinality(Guards) # 0
    BY FS_EmptySet
  <2>. QED
    BY <2>1, <2>2
<1>9. frames' \in [Frames -> FrameType']
  <2>1. new \in FrameType'
    BY <1>8 DEF FrameType
  <2>2. FrameType \subseteq FrameType'
    BY DEF FrameType
  <2>. HIDE DEF new
  <2>. QED
    BY <1>2, <2>1, <2>2
<1>10. guards' \in [Guards -> GuardType' \cup {NoGuard}]
  <2>1. guards'[g] \in GuardType'
    BY <1>1, <1>4 DEF GuardType
  <2>2. GuardType \subseteq GuardType'
    BY DEF GuardType
  <2>. QED
    BY <1>4, <2>1, <2>2
<1>11. /\ pageTable' \in [DOMAIN pageTable' -> Frames]
       /\ DOMAIN pageTable' \subseteq 1 .. meta'.total
  <2>1. DOMAIN pageTable \subseteq 1 .. meta'.total
    OBVIOUS
  <2>. QED
    BY <1>1, <1>3, <2>1
<1>12. \A q \in DOMAIN pageTable \ {old} :
         /\ q \in DOMAIN pageTable' /\ q # p /\ pageTable'[q] = pageTable[q]
         /\ pageTable[q] \in Frames /\ pageTable[q] # f /\ frames'[pageTable[q]] = frames[pageTable[q]]
  BY <1>1, <1>2, <1>3
<1>13. GuardsHoldTheirFrame'
  <2>1. ASSUME NEW h \in Guards, guards'[h] # NoGuard
        PROVE  /\ guards'[h].page \in DOMAIN pageTable'
               /\ pageTable'[guards'[h].page] = guards'[h].frame
               /\ guards'[h].frame \notin evictable'
    <3>1. CASE h = g
      BY <1>3, <1>5, <1>7, <3>1
    <3>2. CASE h # g
      <4>1. /\ guards'[h] = guards[h] /\ guards[h].page \in DOMAIN pageTable
            /\ pageTable[guards[h].page] = guards[h].frame /\ guards[h].frame \notin evictable
        BY <1>4, <2>1, <3>2 DEF Framed, GuardsHoldTheirFrame
      <4>2. guards[h].frame # f
        BY <1>1, <2>1, <4>1 DEF Holders
      <4>3. guards[h].page # old
        BY <1>1, <4>1, <4>2
      <4>. QED
        BY <1>7, <1>12, <4>1, <4>3
    <3>. QED
      BY <3>1, <3>2
  <2>2. ASSUME NEW x \in Frames
        PROVE  frames'[x].pins = Cardinality(Holders(x)')
    <3>1. CASE x = f
      <4>1. Holders(f)' = {g}
        BY <1>1, <1>4, <1>5 DEF Holders
      <4>2. frames'[f].pins = 1
        BY <1>2
      <4>. QED
        BY <3>1, <4>1, <4>2, FS_Singleton
    <3>2. CASE x # f
      <4>1. Holders(x)' = Holders(x)
        BY <1>4, <1>5, <3>2 DEF Holders
      <4>. QED
        BY <1>2, <3>2, <4>1 DEF Framed, GuardsHoldTheirFrame
    <3>. QED
      BY <3>1, <3>2
  <2>. QED
    BY <2>1, <2>2 DEF GuardsHoldTheirFrame
<1>14. FramesAccounted'
  <2>1. ASSUME NEW q \in DOMAIN pageTable'
        PROVE  pageTable'[q] \notin ToSet(freeList') /\ frames'[pageTable'[q]].page = q
    <3>1. CASE q = p
      BY <1>2, <1>3, <1>6, <3>1
    <3>2. CASE q # p
      <4>1. q \in DOMAIN pageTable \ {old}
        BY <1>3, <3>2
      <4>. QED
        BY <1>6, <1>12, <4>1 DEF Framed, FramesAccounted
    <3>. QED
      BY <3>1, <3>2
  <2>2. ASSUME NEW x \in Frames \ ToSet(freeList')
        PROVE  frames'[x].page \in DOMAIN pageTable' /\ pageTable'[frames'[x].page] = x
    <3>1. CASE x = f
      BY <1>2, <1>3, <3>1
    <3>2. CASE x # f
      <4>1. frames'[x] = frames[x] /\ frames[x].page \in DOMAIN pageTable /\ pageTable[frames[x].page] = x
        BY <1>2, <1>6, <3>2 DEF Framed, FramesAccounted
      <4>2. frames[x].page # old
        BY <1>1, <3>2, <4>1
      <4>. QED
        BY <1>12, <4>1, <4>2
    <3>. QED
      BY <3>1, <3>2
  <2>3. \A x \in ToSet(freeList') : frames'[x].page = 0
    <3>1. ToSet(freeList) \subseteq Frames
      BY DEF ToSet
    <3>. QED
      BY <1>2, <1>6, <3>1 DEF Framed, FramesAccounted
  <2>4. evictable' = {x \in Frames \ ToSet(freeList') : frames'[x].pins = 0}
    <3>1. \A x \in Frames : x \in evictable' <=> x \notin ToSet(freeList') /\ frames'[x].pins = 0
      <4>. TAKE x \in Frames
      <4>1. CASE x = f
        BY <1>2, <1>7, <4>1
      <4>2. CASE x # f
        BY <1>2, <1>6, <1>7, <4>2 DEF Framed, FramesAccounted
      <4>. QED
        BY <4>1, <4>2
    <3>. QED
      BY <1>7, <3>1
  <2>. QED
    BY <1>6, <2>1, <2>2, <2>3, <2>4 DEF FramesAccounted
<1>15. \A q : q # p => (Written(q)' <=> Written(q))
  BY <1>4, <1>5 DEF Written
<1>16. /\ pageTable'[p] = f /\ frames'[f].bytes = bytes /\ evictable' \subseteq Frames
       /\ DOMAIN pageTable' \subseteq DOMAIN pageTable \cup {p}
       /\ old # p => old \notin DOMAIN pageTable'
  BY <1>2, <1>3, <1>7
<1>17. Framed'
  BY <1>13, <1>14 DEF Framed
<1>. QED
  BY ONLY <1>6, <1>9, <1>10, <1>11, <1>12, <1>15, <1>16, <1>17

-----------------------------------------------------------------------------
(* The chain of free pages *)

MetaType == [firstEmpty : 0 .. MaxPages, total : 0 .. MaxPages, noneEmpty : 0 .. MaxPages]

\* The counters are numbers of pages.
LEMMA MetaIs ==
  ASSUME NEW m \in MetaType
  PROVE  /\ m.total \in Nat /\ m.total <= MaxPages /\ m.noneEmpty \in Nat
         /\ m.firstEmpty \in Nat /\ m.firstEmpty <= MaxPages
BY DEF MetaType

\* s is the chain, its pages differ and are not in use.
SoundChain(s, n, used) ==
  /\ s \in [1 .. n -> 1 .. meta.total]
  /\ IsInjective(s)
  /\ \A i \in 1 .. n : Link(s, i - 1) = s[i] /\ s[i] \notin used
  /\ Link(s, n) = 0

\* FreeChainSound with a name for the length of the chain.
LEMMA ChainIs ==
  ASSUME TypeOK, FreeChainSound
  PROVE  \E n \in Nat : /\ meta.total = meta.noneEmpty + n
                        /\ \E s : SoundChain(s, n, DOMAIN owned \cup DOMAIN pageTable)
<1>. DEFINE n == meta.total - meta.noneEmpty
<1>1. meta \in MetaType /\ meta.noneEmpty <= meta.total
  BY DEF TypeOK, MetaType, FreeChainSound
<1>2. n \in Nat /\ meta.total = meta.noneEmpty + n
  BY <1>1, MetaIs
<1>3. PICK s \in [1 .. n -> 1 .. meta.total] :
        /\ IsFreeChain(s) /\ IsInjective(s)
        /\ \A i \in DOMAIN s : s[i] \notin DOMAIN owned \cup DOMAIN pageTable
  BY DEF FreeChainSound
<1>4. SoundChain(s, n, DOMAIN owned \cup DOMAIN pageTable)
  BY <1>3 DEF IsFreeChain, SoundChain
<1>. QED
  BY <1>2, <1>4

\* And back.
LEMMA ChainGiven ==
  ASSUME meta' \in MetaType, NEW n \in Nat, meta'.total = meta'.noneEmpty + n,
         NEW s, SoundChain(s, n, DOMAIN owned \cup DOMAIN pageTable)'
  PROVE  FreeChainSound'
<1>1. meta'.total \in Nat /\ meta'.noneEmpty \in Nat
  BY MetaIs
<1>2. meta'.total - meta'.noneEmpty = n /\ meta'.noneEmpty <= meta'.total
  BY <1>1
<1>3. s \in [1 .. n -> 1 .. meta'.total] /\ DOMAIN s = 1 .. n
  BY DEF SoundChain
<1>4. IsFreeChain(s)'
  BY <1>2, <1>3 DEF IsFreeChain, SoundChain
<1>. QED
  BY <1>2, <1>3, <1>4 DEF FreeChainSound, SoundChain

\* The chain stays as it is when only pages in use or in the pool are written,
\* and none comes into use.
LEMMA ChainFrame ==
  ASSUME TypeOK, FreeChainSound, UNCHANGED meta,
         \A p \in 1 .. meta.total : p \notin DOMAIN owned \cup DOMAIN pageTable => disk'[p] = disk[p],
         DOMAIN owned' \cup DOMAIN pageTable' \subseteq DOMAIN owned \cup DOMAIN pageTable
  PROVE  FreeChainSound'
<1>. DEFINE used == DOMAIN owned \cup DOMAIN pageTable
<1>1. PICK n \in Nat : meta.total = meta.noneEmpty + n /\ \E s : SoundChain(s, n, used)
  BY ChainIs
<1>2. PICK s : SoundChain(s, n, used)
  BY <1>1
<1>3. \A i \in 1 .. n : s[i] \in 1 .. meta.total /\ s[i] \notin used
  BY <1>2 DEF SoundChain
<1>4. ASSUME NEW i \in 0 .. n PROVE Link(s, i)' = Link(s, i)
  <2>1. i # 0 => i \in 1 .. n
    OBVIOUS
  <2>. QED
    BY <1>3, <2>1 DEF Link
<1>5. SoundChain(s, n, used)'
  <2>1. \A i \in 1 .. n : i - 1 \in 0 .. n
    OBVIOUS
  <2>. QED
    BY <1>2, <1>4, <2>1 DEF SoundChain
<1>6. meta' \in MetaType
  BY DEF TypeOK, MetaType
<1>. QED
  BY <1>1, <1>5, <1>6, ChainGiven

\* A new page is one that nobody uses: the head of the chain, whose second page
\* becomes the head, or the page after the last one of the file.
LEMMA ChainAlloc ==
  ASSUME TypeOK, FreeChainSound, NEW d \in Seq(Bytewise), Len(d) = meta.total,
         \A p \in 1 .. meta.total : p \notin DOMAIN pageTable => d[p] = disk[p],
         NewPageId <= MaxPages, AllocNewEmptyPageId(d),
         DOMAIN owned' \subseteq DOMAIN owned \cup {NewPageId},
         DOMAIN pageTable' \subseteq DOMAIN pageTable \cup {NewPageId}
  PROVE  /\ FreeChainSound'
         /\ NewPageId \in 1 .. meta'.total /\ NewPageId \notin DOMAIN owned \cup DOMAIN pageTable
         /\ meta' \in MetaType
         /\ meta.total <= meta'.total
         /\ disk' \in Seq(Bytewise) /\ Len(disk') = meta'.total
         /\ \A p \in 1 .. meta.total : disk'[p] = d[p]
<1>. DEFINE used == DOMAIN owned \cup DOMAIN pageTable
<1>1. meta \in MetaType /\ used \subseteq 1 .. meta.total
  BY DEF TypeOK, MetaType
<1>2. /\ meta.total \in Nat /\ meta.total <= MaxPages /\ meta.noneEmpty \in Nat
      /\ meta.firstEmpty \in Nat
  BY <1>1, MetaIs
<1>3. PICK n \in Nat : meta.total = meta.noneEmpty + n /\ \E s : SoundChain(s, n, used)
  BY ChainIs
<1>4. PICK s : SoundChain(s, n, used)
  BY <1>3
<1>5. /\ \A i \in 1 .. n : Link(s, i - 1) = s[i] /\ s[i] \in 1 .. meta.total /\ s[i] \notin used
      /\ \A i, j \in 1 .. n : s[i] = s[j] => i = j
      /\ Link(s, n) = 0 /\ Link(s, 0) = meta.firstEmpty
  BY <1>4 DEF SoundChain, IsInjective, Link
<1>. HIDE DEF used
<1>6. CASE meta.firstEmpty = 0
  <2>1. n = 0
    <3>. SUFFICES ASSUME n # 0 PROVE FALSE
      OBVIOUS
    <3>1. 1 \in 1 .. n /\ 1 - 1 = 0
      OBVIOUS
    <3>2. Link(s, 0) = s[1] /\ s[1] \in 1 .. meta.total
      BY <1>5, <3>1
    <3>. QED
      BY <1>2, <1>5, <1>6, <3>2
  <2>2. /\ meta' = [meta EXCEPT !.total = @ + 1, !.noneEmpty = @ + 1]
        /\ disk' = Append(d, Junk) /\ NewPageId = meta.total + 1
    BY <1>6 DEF AllocNewEmptyPageId, NewPageId
  <2>3. /\ meta'.total = meta.total + 1 /\ meta'.noneEmpty = meta.noneEmpty + 1
        /\ meta'.firstEmpty = 0
    BY <1>1, <1>6, <2>2 DEF MetaType
  <2>4. meta' \in MetaType
    <3>1. meta.total + 1 \in 0 .. MaxPages /\ meta.noneEmpty + 1 \in 0 .. MaxPages
      BY <1>2, <1>3, <2>1, <2>2
    <3>. QED
      BY <1>1, <2>2, <3>1 DEF MetaType
  <2>5. disk' \in Seq(Bytewise) /\ Len(disk') = meta.total + 1 /\ \A p \in 1 .. meta.total : disk'[p] = d[p]
    <3>1. Junk \in Bytewise
      BY DEF Bytewise
    <3>. QED
      BY <1>2, <2>2, <3>1
  <2>. DEFINE e == [i \in 1 .. 0 |-> 0]
  <2>6. meta'.total = meta'.noneEmpty + 0
    BY <1>2, <1>3, <2>1, <2>3
  <2>7. SoundChain(e, 0, DOMAIN owned \cup DOMAIN pageTable)'
    BY <2>3 DEF SoundChain, IsInjective, Link
  <2>8. FreeChainSound'
    BY <2>4, <2>6, <2>7, ChainGiven
  <2>9. meta.total + 1 \notin used /\ meta.total + 1 \in 1 .. meta'.total /\ meta.total <= meta'.total
    BY <1>1, <1>2, <2>3
  <2>. QED
    BY <2>2, <2>3, <2>4, <2>5, <2>8, <2>9 DEF used
<1>7. CASE meta.firstEmpty # 0
  <2>1. n # 0
    BY <1>5, <1>7
  <2>2. 1 \in 1 .. n /\ 1 - 1 = 0
    BY <2>1
  <2>3. /\ s[1] = meta.firstEmpty /\ NewPageId = s[1]
        /\ s[1] \in 1 .. meta.total /\ s[1] \notin used
    BY <1>5, <1>7, <2>2 DEF NewPageId
  <2>4. /\ meta' = [meta EXCEPT !.firstEmpty = d[s[1]], !.noneEmpty = @ + 1] /\ disk' = d
    BY <1>7, <2>3 DEF AllocNewEmptyPageId
  <2>5. d[s[1]] = Link(s, 1)
    BY <2>3 DEF Link, used
  <2>6. Link(s, 1) \in 0 .. meta.total
    <3>1. CASE n = 1
      BY <1>2, <1>5, <3>1
    <3>2. CASE n # 1
      <4>1. 2 \in 1 .. n /\ 2 - 1 = 1
        BY <2>1, <3>2
      <4>2. Link(s, 1) = s[2] /\ s[2] \in 1 .. meta.total
        BY <1>5, <4>1
      <4>. QED
        BY <4>2
    <3>. QED
      BY <3>1, <3>2
  <2>7. /\ meta'.total = meta.total /\ meta'.noneEmpty = meta.noneEmpty + 1
        /\ meta'.firstEmpty = Link(s, 1)
    BY <1>1, <2>4, <2>5 DEF MetaType
  <2>8. meta' \in MetaType
    <3>1. meta.noneEmpty + 1 \in 0 .. MaxPages /\ Link(s, 1) \in 0 .. MaxPages
      BY <1>2, <1>3, <2>1, <2>6
    <3>. QED
      BY <1>1, <2>4, <2>5, <3>1 DEF MetaType
  <2>9. PICK m \in Nat : n = m + 1
    <3>1. n - 1 \in Nat /\ n = (n - 1) + 1
      BY <2>1
    <3>. QED
      BY <3>1
  <2>10. meta'.total = meta'.noneEmpty + m
    <3>1. meta.noneEmpty + (m + 1) = (meta.noneEmpty + 1) + m
      BY <1>2, <2>9
    <3>. QED
      BY <1>3, <2>7, <2>9, <3>1
  <2>. DEFINE r == [i \in 1 .. m |-> s[i + 1]]
  <2>11. \A i \in 1 .. m : i + 1 \in 1 .. n /\ (i + 1) - 1 = i /\ i + 1 # 1
    BY <2>9
  <2>12. DOMAIN r = 1 .. m /\ \A i \in 1 .. m : r[i] = s[i + 1]
    OBVIOUS
  <2>13. r \in [1 .. m -> 1 .. meta'.total]
    BY <1>5, <2>7, <2>11
  <2>. HIDE DEF r
  <2>14. IsInjective(r)
    <3>1. ASSUME NEW i \in 1 .. m, NEW j \in 1 .. m, r[i] = r[j] PROVE i = j
      <4>1. s[i + 1] = s[j + 1] /\ i + 1 \in 1 .. n /\ j + 1 \in 1 .. n
        BY <2>11, <2>12, <3>1
      <4>2. i + 1 = j + 1
        BY <1>5, <4>1
      <4>. QED
        BY <4>2
    <3>. QED
      BY <2>12, <3>1 DEF IsInjective
  <2>15. \A i \in 1 .. n : disk'[s[i]] = disk[s[i]]
    BY <1>5, <2>4 DEF used
  <2>16. ASSUME NEW i \in 0 .. m PROVE Link(r, i)' = Link(s, i + 1)
    <3>1. CASE i = 0
      BY <2>7, <3>1 DEF Link
    <3>2. CASE i # 0
      <4>1. i \in 1 .. m /\ i + 1 # 0
        BY <3>2
      <4>2. Link(r, i)' = disk'[r[i]] /\ Link(s, i + 1) = disk[s[i + 1]]
        BY <3>2, <4>1 DEF Link
      <4>. QED
        BY <2>11, <2>12, <2>15, <4>1, <4>2
    <3>. QED
      BY <3>1, <3>2
  <2>17. SoundChain(r, m, DOMAIN owned \cup DOMAIN pageTable)'
    <3>1. ASSUME NEW i \in 1 .. m
          PROVE  Link(r, i - 1)' = r[i] /\ r[i] \notin DOMAIN owned' \cup DOMAIN pageTable'
      <4>1. i - 1 \in 0 .. m /\ (i - 1) + 1 = i
        OBVIOUS
      <4>2. Link(r, i - 1)' = Link(s, i)
        BY <2>16, <4>1
      <4>3. Link(s, i) = s[i + 1]
        BY <1>5, <2>11
      <4>4. s[i + 1] \notin used /\ s[i + 1] # s[1]
        BY <1>5, <2>2, <2>11
      <4>. QED
        BY <2>3, <2>12, <4>2, <4>3, <4>4 DEF used
    <3>2. Link(r, m)' = 0
      <4>1. m \in 0 .. m
        OBVIOUS
      <4>. QED
        BY <1>5, <2>9, <2>16, <4>1
    <3>. QED
      BY <2>13, <2>14, <3>1, <3>2 DEF SoundChain
  <2>18. FreeChainSound'
    BY <2>8, <2>10, <2>17, ChainGiven
  <2>. QED
    BY <1>2, <2>3, <2>4, <2>7, <2>8, <2>18 DEF used
<1>. QED
  BY <1>2, <1>6, <1>7

\* All pages but one.
LEMMA OneOut ==
  ASSUME NEW n \in Nat, NEW p \in 1 .. n
  PROVE  IsFiniteSet((1 .. n) \ {p}) /\ Cardinality((1 .. n) \ {p}) = n - 1
<1>1. IsFiniteSet(1 .. n) /\ Cardinality(1 .. n) = n
  BY FS_Interval
<1>. QED
  BY <1>1, FS_RemoveElement

\* A page that was in use becomes the head of the chain.
LEMMA ChainDealloc ==
  ASSUME TypeOK, FreeChainSound, NEW p \in DOMAIN owned \cup DOMAIN pageTable, DeallocatePage(p),
         DOMAIN owned' \subseteq DOMAIN owned \ {p}, DOMAIN pageTable' \subseteq DOMAIN pageTable \ {p}
  PROVE  /\ FreeChainSound'
         /\ meta' \in MetaType /\ meta'.total = meta.total
         /\ disk' \in Seq(Bytewise) /\ Len(disk') = meta.total
         /\ \A q \in 1 .. meta.total : q # p => disk'[q] = disk[q]
<1>. DEFINE used == DOMAIN owned \cup DOMAIN pageTable
<1>1. /\ meta \in MetaType /\ used \subseteq 1 .. meta.total
      /\ disk \in Seq(Bytewise) /\ Len(disk) = meta.total
  BY DEF TypeOK, MetaType
<1>2. /\ meta.total \in Nat /\ meta.total <= MaxPages /\ meta.noneEmpty \in Nat
      /\ meta.firstEmpty \in Nat /\ meta.firstEmpty <= MaxPages /\ p \in 1 .. meta.total
  BY <1>1, MetaIs
<1>3. PICK n \in Nat : meta.total = meta.noneEmpty + n /\ \E s : SoundChain(s, n, used)
  BY ChainIs
<1>4. PICK s : SoundChain(s, n, used)
  BY <1>3
<1>5. /\ \A i \in 1 .. n : /\ Link(s, i - 1) = s[i] /\ s[i] \in 1 .. meta.total /\ s[i] \notin used
                           /\ s[i] # p
      /\ \A i, j \in 1 .. n : s[i] = s[j] => i = j
      /\ Link(s, n) = 0 /\ Link(s, 0) = meta.firstEmpty
  BY <1>4 DEF SoundChain, IsInjective, Link
<1>6. n < meta.total
  <2>. DEFINE T == (1 .. meta.total) \ {p}
  <2>1. IsFiniteSet(1 .. n) /\ Cardinality(1 .. n) = n
    BY FS_Interval
  <2>2. IsFiniteSet(T) /\ Cardinality(T) = meta.total - 1
    BY <1>2, OneOut
  <2>4. s \in Injection(1 .. n, T)
    BY <1>4, <1>5 DEF Injection, SoundChain
  <2>5. n <= meta.total - 1
    BY <2>1, <2>2, <2>4, FS_Injection
  <2>. QED
    BY <1>2, <2>5
<1>7. /\ disk' = [disk EXCEPT ![p] = meta.firstEmpty]
      /\ meta' = [meta EXCEPT !.firstEmpty = p, !.noneEmpty = @ - 1]
  BY DEF DeallocatePage
<1>8. meta'.total = meta.total /\ meta'.noneEmpty = meta.noneEmpty - 1 /\ meta'.firstEmpty = p
  BY <1>1, <1>7 DEF MetaType
<1>9. meta' \in MetaType
  <2>1. meta.noneEmpty - 1 \in 0 .. MaxPages /\ p \in 0 .. MaxPages
    BY <1>2, <1>3, <1>6
  <2>. QED
    BY <1>1, <1>7, <2>1 DEF MetaType
<1>10. /\ disk' \in Seq(Bytewise) /\ Len(disk') = meta.total /\ disk'[p] = meta.firstEmpty
       /\ \A q \in 1 .. meta.total : q # p => disk'[q] = disk[q]
  <2>1. meta.firstEmpty \in Bytewise
    BY <1>2 DEF Bytewise
  <2>. QED
    BY <1>1, <1>2, <1>7, <2>1
<1>. HIDE DEF used
<1>. DEFINE r == [i \in 1 .. n + 1 |-> IF i = 1 THEN p ELSE s[i - 1]]
<1>11. meta'.total = meta'.noneEmpty + (n + 1) /\ n + 1 \in Nat
  BY <1>2, <1>3, <1>8
<1>12. \A i \in 1 .. n + 1 : i = 1 \/ \E j \in 1 .. n : i = j + 1
  <2>1. \A i \in 1 .. n + 1 : i # 1 => i - 1 \in 1 .. n /\ i = (i - 1) + 1
    OBVIOUS
  <2>. QED
    BY <2>1
<1>13. \A j \in 1 .. n : j + 1 \in 1 .. n + 1 /\ j + 1 # 1 /\ (j + 1) - 1 = j
  OBVIOUS
<1>14. DOMAIN r = 1 .. n + 1 /\ r[1] = p /\ \A j \in 1 .. n : r[j + 1] = s[j]
  BY <1>13
<1>15. r \in [1 .. n + 1 -> 1 .. meta'.total]
  <2>1. \A i \in 1 .. n + 1 : r[i] \in 1 .. meta'.total
    <3>. HIDE DEF r
    <3>. TAKE i \in 1 .. n + 1
    <3>1. CASE i = 1
      BY <1>2, <1>8, <1>14, <3>1
    <3>2. CASE i # 1
      <4>1. PICK j \in 1 .. n : i = j + 1
        BY <1>12, <3>2
      <4>. QED
        BY <1>5, <1>8, <1>14, <4>1
    <3>. QED
      BY <3>1, <3>2
  <2>. QED
    BY <2>1
<1>. HIDE DEF r
<1>16. IsInjective(r)
  <2>1. ASSUME NEW i \in 1 .. n + 1, NEW j \in 1 .. n + 1, r[i] = r[j] PROVE i = j
    <3>0. \A k \in 1 .. n + 1 : k # 1 => r[k] # p
      <4>. SUFFICES ASSUME NEW k \in 1 .. n + 1, k # 1 PROVE r[k] # p
        OBVIOUS
      <4>1. PICK l \in 1 .. n : k = l + 1
        BY <1>12
      <4>. QED
        BY <1>5, <1>14, <4>1
    <3>1. CASE i = 1
      BY <1>14, <2>1, <3>0, <3>1
    <3>2. CASE j = 1
      BY <1>14, <2>1, <3>0, <3>2
    <3>3. CASE i # 1 /\ j # 1
      <4>1. PICK k \in 1 .. n : i = k + 1
        BY <1>12, <3>3
      <4>2. PICK l \in 1 .. n : j = l + 1
        BY <1>12, <3>3
      <4>3. s[k] = s[l]
        BY <1>14, <2>1, <4>1, <4>2
      <4>. QED
        BY <1>5, <4>1, <4>2, <4>3
    <3>. QED
      BY <3>1, <3>2, <3>3
  <2>. QED
    BY <1>14, <2>1 DEF IsInjective
<1>17. ASSUME NEW i \in 0 .. n PROVE Link(r, i + 1)' = Link(s, i)
  <2>0. i + 1 # 0
    OBVIOUS
  <2>1. Link(r, i + 1)' = disk'[r[i + 1]]
    BY <2>0 DEF Link
  <2>2. CASE i = 0
    BY <1>5, <1>10, <1>14, <2>1, <2>2
  <2>3. CASE i # 0
    <3>1. i \in 1 .. n
      BY <2>3
    <3>2. Link(s, i) = disk[s[i]]
      BY <2>3 DEF Link
    <3>. QED
      BY <1>5, <1>10, <1>14, <2>1, <3>1, <3>2
  <2>. QED
    BY <2>2, <2>3
<1>18. SoundChain(r, n + 1, DOMAIN owned \cup DOMAIN pageTable)'
  <2>1. ASSUME NEW i \in 1 .. n + 1
        PROVE  Link(r, i - 1)' = r[i] /\ r[i] \notin DOMAIN owned' \cup DOMAIN pageTable'
    <3>1. CASE i = 1
      <4>1. Link(r, 0)' = p
        BY <1>8 DEF Link
      <4>. QED
        BY <1>14, <3>1, <4>1
    <3>2. CASE i # 1
      <4>1. PICK j \in 1 .. n : i = j + 1
        BY <1>12, <3>2
      <4>2. j - 1 \in 0 .. n /\ (j - 1) + 1 = j /\ i - 1 = j
        BY <4>1
      <4>3. Link(r, j)' = Link(s, j - 1)
        BY <1>17, <4>2
      <4>. QED
        BY <1>5, <1>14, <4>1, <4>2, <4>3 DEF used
    <3>. QED
      BY <3>1, <3>2
  <2>2. Link(r, n + 1)' = 0
    <3>1. n \in 0 .. n
      OBVIOUS
    <3>. QED
      BY <1>5, <1>17, <3>1
  <2>. QED
    BY <1>15, <1>16, <2>1, <2>2 DEF SoundChain
<1>19. FreeChainSound'
  BY <1>9, <1>11, <1>18, ChainGiven
<1>. QED
  BY <1>8, <1>9, <1>10, <1>19

-----------------------------------------------------------------------------
(* The operations *)

\* What page q reads as, when it has been written.
Content(q) == IF owned[q] THEN Bytes(q) ELSE Junk

\* The pages in Q read as before.
ReadAlike(Q) == \A q \in Q : Content(q)' = Content(q)

\* The number of a page in use or in the pool is a page of the file, and a
\* frame has room for what a page of the file can hold.
LEMMA PoolTypes ==
  ASSUME TypeOK
  PROVE  /\ meta \in MetaType /\ meta.total \in Nat /\ meta.total <= MaxPages
         /\ DOMAIN owned \subseteq 1 .. meta.total /\ DOMAIN pageTable \subseteq 1 .. meta.total
         /\ \A p \in DOMAIN pageTable : pageTable[p] \in Frames
         /\ \A f \in Frames : frames[f].bytes \in Bytewise /\ frames[f].page \in 0 .. meta.total
                              /\ frames[f].dirty \in BOOLEAN
         /\ \A p \in 1 .. meta.total : disk[p] \in Bytewise
<1>1. meta \in MetaType
  BY DEF TypeOK, MetaType
<1>. QED
  BY <1>1, MetaIs DEF TypeOK, FrameType

\* A guard's page is the one its frame holds.
LEMMA HeldPage ==
  ASSUME TypeOK, Framed, NEW g \in Guards, guards[g] # NoGuard
  PROVE  /\ guards[g].page \in DOMAIN pageTable /\ pageTable[guards[g].page] = guards[g].frame
         /\ guards[g].frame \in Frames /\ guards[g].frame \notin evictable
         /\ frames[guards[g].frame].page = guards[g].page
         /\ g \in Holders(guards[g].frame)
         /\ frames[guards[g].frame].pins \in Nat /\ frames[guards[g].frame].pins > 0
<1>1. /\ guards[g].page \in DOMAIN pageTable /\ pageTable[guards[g].page] = guards[g].frame
      /\ guards[g].frame \in Frames /\ guards[g].frame \notin evictable
      /\ frames[guards[g].frame].page = guards[g].page
  BY GuardIs DEF Framed, GuardsHoldTheirFrame, FramesAccounted
<1>2. g \in Holders(guards[g].frame)
  BY DEF Holders
<1>3. frames[guards[g].frame].pins = Cardinality(Holders(guards[g].frame))
  BY <1>1 DEF Framed, GuardsHoldTheirFrame
<1>. QED
  BY <1>1, <1>2, <1>3, HoldersCount

\* Writing a victim back leaves a file in which every page that is not in the
\* pool, and the victim's, has what it should have.
LEMMA WrittenBack ==
  ASSUME TypeOK, Framed, CleanPagesStored, NEW f \in FramesToUse
  PROVE  /\ WriteBack(f) \in Seq(Bytewise) /\ Len(WriteBack(f)) = meta.total
         /\ \A p \in 1 .. meta.total : p # frames[f].page => WriteBack(f)[p] = disk[p]
         /\ \A p \in 1 .. meta.total : p \notin DOMAIN pageTable => WriteBack(f)[p] = disk[p]
         /\ \A p \in DOMAIN pageTable \cap DOMAIN owned :
              p = frames[f].page /\ owned[p] => WriteBack(f)[p] = frames[f].bytes
<1>. DEFINE old == frames[f].page
<1>1. /\ f \in Frames /\ Holders(f) = {}
      /\ freeList = <<>> => old \in DOMAIN pageTable /\ pageTable[old] = f
      /\ freeList # <<>> => old = 0 /\ 0 \notin DOMAIN pageTable
  BY FrameToUse
<1>2. /\ disk \in Seq(Bytewise) /\ Len(disk) = meta.total /\ meta.total \in Nat
      /\ DOMAIN pageTable \subseteq 1 .. meta.total /\ frames[f].bytes \in Bytewise
      /\ frames[f].dirty \in BOOLEAN
  BY <1>1, PoolTypes DEF TypeOK
<1>3. CASE freeList = <<>> /\ frames[f].dirty
  <2>1. WriteBack(f) = [disk EXCEPT ![old] = frames[f].bytes] /\ old \in 1 .. meta.total
    BY <1>1, <1>2, <1>3 DEF WriteBack
  <2>2. WriteBack(f) \in Seq(Bytewise) /\ Len(WriteBack(f)) = meta.total
    BY <1>2, <2>1
  <2>. QED
    BY <1>1, <1>2, <1>3, <2>1, <2>2
<1>4. CASE ~(freeList = <<>> /\ frames[f].dirty)
  <2>1. WriteBack(f) = disk
    BY <1>4 DEF WriteBack
  <2>2. ASSUME NEW p \in DOMAIN pageTable \cap DOMAIN owned, p = old, owned[p]
        PROVE  disk[p] = frames[f].bytes
    <3>1. freeList = <<>> /\ pageTable[p] = f /\ ~frames[f].dirty
      BY <1>1, <1>4, <2>2
    <3>2. ~Written(p)
      <4>. SUFFICES ASSUME NEW g \in Guards, guards[g] # NoGuard, guards[g].page = p PROVE FALSE
        BY DEF Written
      <4>. QED
        BY <1>1, <3>1, HeldPage
    <3>. QED
      BY <2>2, <3>1, <3>2 DEF CleanPagesStored
  <2>. QED
    BY <1>2, <2>1, <2>2
<1>. QED
  BY <1>3, <1>4

\* When a page is loaded, every other page reads as before, and what is not
\* marked dirty is in the file.
LEMMA LoadReads ==
  ASSUME TypeOK, Framed, CleanPagesStored, NEW f \in FramesToUse, NEW g \in Guards,
         guards[g] = NoGuard, NEW p \in 1 .. meta'.total, p \notin DOMAIN pageTable,
         NEW bytes \in Bytewise, Load(f, p, bytes), Guard(g, p, f),
         meta'.total \in Nat, meta.total <= meta'.total,
         \A q \in 1 .. meta.total : disk'[q] = WriteBack(f)[q],
         \A q \in DOMAIN owned' \ {p} : q \in DOMAIN owned /\ owned'[q] = owned[q],
         p \in DOMAIN owned' /\ owned'[p] => disk'[p] = bytes
  PROVE  /\ CleanPagesStored'
         /\ \A q \in DOMAIN owned \cap DOMAIN owned' : q # p => Content(q)' = Content(q)
<1>. DEFINE old == frames[f].page
<1>1. /\ \A q \in 1 .. meta.total : q # old => WriteBack(f)[q] = disk[q]
      /\ \A q \in 1 .. meta.total : q \notin DOMAIN pageTable => WriteBack(f)[q] = disk[q]
      /\ \A q \in DOMAIN pageTable \cap DOMAIN owned :
           q = old /\ owned[q] => WriteBack(f)[q] = frames[f].bytes
  BY WrittenBack
<1>2. /\ DOMAIN owned \subseteq 1 .. meta.total /\ DOMAIN pageTable \subseteq 1 .. meta.total
  BY PoolTypes
<1>3. /\ DOMAIN pageTable' \subseteq DOMAIN pageTable \cup {p}
      /\ pageTable'[p] = f /\ frames'[f].bytes = bytes
      /\ \A q \in DOMAIN pageTable \ {old} :
           /\ q \in DOMAIN pageTable' /\ q # p /\ pageTable'[q] = pageTable[q]
           /\ pageTable[q] # f /\ frames'[pageTable[q]] = frames[pageTable[q]]
      /\ old # p => old \notin DOMAIN pageTable'
      /\ \A q : q # p => (Written(q)' <=> Written(q))
  BY TakeOver
<1>4. old \in DOMAIN pageTable => pageTable[old] = f
  BY FrameToUse
<1>5. CleanPagesStored'
  <2>. SUFFICES ASSUME NEW q \in DOMAIN pageTable' \cap DOMAIN owned', owned'[q],
                       ~frames'[pageTable'[q]].dirty, ~Written(q)'
                PROVE  disk'[q] = frames'[pageTable'[q]].bytes
    BY DEF CleanPagesStored
  <2>1. CASE q = p
    BY <1>3, <2>1
  <2>2. CASE q # p
    <3>1. q \in DOMAIN pageTable /\ q # old /\ q \in DOMAIN owned /\ owned[q]
      BY <1>3, <2>2
    <3>2. frames'[pageTable'[q]] = frames[pageTable[q]] /\ ~Written(q)
      BY <1>3, <2>2, <3>1
    <3>3. disk'[q] = disk[q]
      BY <1>1, <1>2, <3>1
    <3>4. ~frames[pageTable[q]].dirty
      BY <3>2
    <3>. QED
      BY <3>1, <3>2, <3>3, <3>4 DEF CleanPagesStored
  <2>. QED
    BY <2>1, <2>2
<1>6. ASSUME NEW q \in DOMAIN owned \cap DOMAIN owned', q # p
      PROVE  Content(q)' = Content(q)
  <2>1. owned'[q] = owned[q] /\ q \in 1 .. meta.total
    BY <1>2, <1>6
  <2>2. ASSUME owned[q] PROVE Bytes(q)' = Bytes(q)
    <3>1. CASE q \in DOMAIN pageTable /\ q # old
      BY <1>3, <3>1 DEF Bytes
    <3>2. CASE q \in DOMAIN pageTable /\ q = old
      <4>1. q \notin DOMAIN pageTable' /\ disk'[q] = frames[f].bytes
        BY <1>1, <1>3, <1>6, <2>1, <2>2, <3>2
      <4>. QED
        BY <1>4, <3>2, <4>1 DEF Bytes
    <3>3. CASE q \notin DOMAIN pageTable
      BY <1>1, <1>3, <1>6, <2>1, <3>3 DEF Bytes
    <3>. QED
      BY <3>1, <3>2, <3>3
  <2>. QED
    BY <2>1, <2>2 DEF Content
<1>. QED
  BY <1>5, <1>6

\* A new page is one that was not in use.
LEMMA NewPageStep ==
  ASSUME PoolInv, NEW g \in Guards, NEW f \in Frames, NewPageGuarded(g, f)
  PROVE  /\ PoolInv' /\ ReadAlike(DOMAIN owned)
         /\ \E p \in 1 .. MaxPages : /\ p \notin DOMAIN owned /\ DOMAIN owned' = DOMAIN owned \cup {p}
                                     /\ Content(p)' = Junk
<1>. DEFINE bytes == IF freeList # <<>> THEN frames[f].bytes ELSE 0
<1>0. PICK p : p = NewPageId
  OBVIOUS
<1>1. TypeOK /\ Framed /\ FreeChainSound /\ CleanPagesStored
  BY DEF PoolInv, Framed
<1>2. /\ guards[g] = NoGuard /\ f \in FramesToUse /\ p <= MaxPages
      /\ AllocNewEmptyPageId(WriteBack(f)) /\ Load(f, p, bytes) /\ Guard(g, p, f)
      /\ owned' = [q \in DOMAIN owned \cup {p} |-> IF q = p THEN FALSE ELSE owned[q]]
  BY <1>0 DEF NewPageGuarded
<1>3. /\ WriteBack(f) \in Seq(Bytewise) /\ Len(WriteBack(f)) = meta.total
      /\ \A q \in 1 .. meta.total : q \notin DOMAIN pageTable => WriteBack(f)[q] = disk[q]
  BY <1>1, <1>2, WrittenBack
<1>4. bytes \in Bytewise
  BY <1>1, PoolTypes DEF Bytewise
<1>. HIDE DEF bytes
<1>5. DOMAIN pageTable' \subseteq DOMAIN pageTable \cup {p}
  BY <1>2 DEF Load
<1>6. /\ FreeChainSound'
      /\ p \in 1 .. meta'.total /\ p \notin DOMAIN owned \cup DOMAIN pageTable
      /\ meta' \in MetaType /\ meta.total <= meta'.total
      /\ disk' \in Seq(Bytewise) /\ Len(disk') = meta'.total
      /\ \A q \in 1 .. meta.total : disk'[q] = WriteBack(f)[q]
  <2>1. DOMAIN owned' \subseteq DOMAIN owned \cup {p}
    BY <1>2
  <2>. QED
    BY <1>0, <1>1, <1>2, <1>3, <1>5, <2>1, ChainAlloc
<1>7. meta'.total \in Nat /\ meta'.total <= MaxPages /\ meta.total \in Nat
  BY <1>1, <1>6, MetaIs, PoolTypes
<1>8. /\ Framed'
      /\ pageTable' \in [DOMAIN pageTable' -> Frames] /\ DOMAIN pageTable' \subseteq 1 .. meta'.total
      /\ frames' \in [Frames -> FrameType'] /\ freeList' \in Seq(Frames)
      /\ evictable' \subseteq Frames /\ guards' \in [Guards -> GuardType' \cup {NoGuard}]
  BY <1>1, <1>2, <1>4, <1>6, <1>7, TakeOver
<1>9. owned' \in [DOMAIN owned' -> BOOLEAN] /\ DOMAIN owned' \subseteq 1 .. meta'.total
  <2>1. owned \in [DOMAIN owned -> BOOLEAN] /\ DOMAIN owned \subseteq 1 .. meta.total
    BY <1>1 DEF TypeOK
  <2>2. DOMAIN owned \subseteq 1 .. meta'.total
    BY <1>6, <1>7, <2>1
  <2>. QED
    BY <1>2, <1>6, <2>1, <2>2
<1>10. TypeOK'
  BY <1>6, <1>8, <1>9 DEF TypeOK, MetaType
<1>11. CleanPagesStored' /\ \A q \in DOMAIN owned \cap DOMAIN owned' : q # p => Content(q)' = Content(q)
  <2>1. \A q \in DOMAIN owned' \ {p} : q \in DOMAIN owned /\ owned'[q] = owned[q]
    BY <1>2
  <2>2. ~(p \in DOMAIN owned' /\ owned'[p])
    BY <1>2
  <2>. QED
    BY <1>1, <1>2, <1>4, <1>6, <1>7, <2>1, <2>2, LoadReads
<1>12. /\ DOMAIN owned' = DOMAIN owned \cup {p} /\ p \notin DOMAIN owned /\ p \in 1 .. MaxPages
       /\ ~owned'[p]
  BY <1>2, <1>6, <1>7
<1>13. Content(p)' = Junk
  BY <1>12 DEF Content
<1>14. ReadAlike(DOMAIN owned)
  BY <1>11, <1>12 DEF ReadAlike
<1>15. PoolInv'
  BY <1>6, <1>8, <1>10, <1>11 DEF PoolInv, Framed
<1>. QED
  BY <1>12, <1>13, <1>14, <1>15

\* A page comes into the pool as it is in the file.
LEMMA FetchFromDiskStep ==
  ASSUME PoolInv, NEW g \in Guards, NEW p \in 1 .. MaxPages, NEW f \in Frames, FetchFromDisk(g, p, f)
  PROVE  PoolInv' /\ ReadAlike(DOMAIN owned)
<1>1. TypeOK /\ Framed /\ FreeChainSound /\ CleanPagesStored
  BY DEF PoolInv, Framed
<1>2. /\ guards[g] = NoGuard /\ p \in DOMAIN owned \ DOMAIN pageTable /\ f \in FramesToUse
      /\ disk' = WriteBack(f) /\ Load(f, p, disk'[p]) /\ Guard(g, p, f)
      /\ UNCHANGED <<owned, meta>>
  BY DEF FetchFromDisk
<1>3. /\ WriteBack(f) \in Seq(Bytewise) /\ Len(WriteBack(f)) = meta.total
      /\ \A q \in 1 .. meta.total : q \notin DOMAIN pageTable => WriteBack(f)[q] = disk[q]
  BY <1>1, <1>2, WrittenBack
<1>4. /\ p \in 1 .. meta'.total /\ p \notin DOMAIN pageTable /\ disk'[p] \in Bytewise
      /\ disk'[p] = disk[p] /\ meta'.total \in Nat /\ meta.total <= meta'.total
  BY <1>1, <1>2, <1>3, PoolTypes
<1>5. /\ Framed'
      /\ pageTable' \in [DOMAIN pageTable' -> Frames] /\ DOMAIN pageTable' \subseteq 1 .. meta'.total
      /\ frames' \in [Frames -> FrameType'] /\ freeList' \in Seq(Frames)
      /\ evictable' \subseteq Frames /\ guards' \in [Guards -> GuardType' \cup {NoGuard}]
      /\ DOMAIN pageTable' \subseteq DOMAIN pageTable \cup {p}
      /\ pageTable'[p] = f /\ frames'[f].bytes = disk'[p]
  BY <1>1, <1>2, <1>4, TakeOver
<1>6. TypeOK'
  BY <1>1, <1>2, <1>3, <1>5 DEF TypeOK
<1>7. FreeChainSound'
  <2>1. DOMAIN owned' \cup DOMAIN pageTable' \subseteq DOMAIN owned \cup DOMAIN pageTable
    BY <1>2, <1>5
  <2>. QED
    BY <1>1, <1>2, <1>3, <2>1, ChainFrame
<1>8. /\ CleanPagesStored'
      /\ \A q \in DOMAIN owned \cap DOMAIN owned' : q # p => Content(q)' = Content(q)
  BY <1>1, <1>2, <1>4, LoadReads
<1>9. Content(p)' = Content(p)
  <2>1. p \in DOMAIN pageTable'
    BY <1>2 DEF Load
  <2>. QED
    BY <1>2, <1>4, <1>5, <2>1 DEF Content, Bytes
<1>. QED
  BY <1>2, <1>5, <1>6, <1>7, <1>8, <1>9 DEF PoolInv, Framed, ReadAlike

\* One more guard for a page that is in the pool.
LEMMA FetchResidentStep ==
  ASSUME PoolInv, NEW g \in Guards, NEW p \in 1 .. MaxPages, FetchResident(g, p)
  PROVE  PoolInv' /\ ReadAlike(DOMAIN owned)
<1>0. PICK f : f = pageTable[p]
  OBVIOUS
<1>1. TypeOK /\ Framed /\ FreeChainSound /\ CleanPagesStored
  BY DEF PoolInv, Framed
<1>2. /\ guards[g] = NoGuard /\ p \in DOMAIN owned /\ p \in DOMAIN pageTable
      /\ frames' = [frames EXCEPT ![f].pins = @ + 1]
      /\ evictable' = evictable \ {f} /\ Guard(g, p, f)
      /\ UNCHANGED <<owned, pageTable, freeList, disk, meta>>
  BY <1>0 DEF FetchResident
<1>3. f \in Frames /\ f \notin ToSet(freeList) /\ p \in 1 .. meta.total /\ frames[f].page = p
  BY <1>0, <1>1, <1>2, PoolTypes DEF Framed, FramesAccounted
<1>4. /\ frames \in [Frames -> FrameType] /\ guards \in [Guards -> GuardType \cup {NoGuard}]
  BY <1>1 DEF TypeOK
<1>5. /\ guards'[g] = [page |-> p, frame |-> f, dirty |-> FALSE]
      /\ \A h \in Guards : h # g => guards'[h] = guards[h]
      /\ guards' \in [Guards -> GuardType \cup {NoGuard}]
  BY <1>2, <1>3, <1>4 DEF Guard, GuardType
<1>6. guards'[g] # NoGuard /\ guards'[g].page = p /\ guards'[g].frame = f /\ ~guards'[g].dirty
  <2>1. p # 0
    BY <1>3
  <2>. QED
    BY <1>5, <2>1 DEF NoGuard
<1>7. /\ Holders(f)' = Holders(f) \cup {g} /\ g \notin Holders(f)
      /\ \A x \in Frames : x # f => Holders(x)' = Holders(x)
  BY <1>2, <1>5, <1>6 DEF Holders
<1>8. /\ Cardinality(Holders(f)') = Cardinality(Holders(f)) + 1
      /\ Cardinality(Holders(f)') \in 0 .. Cardinality(Guards)
  <2>1. Cardinality(Holders(f)') = Cardinality(Holders(f)) + 1
    BY <1>7, HoldersCount, FS_AddElement
  <2>2. Holders(f)' \subseteq Guards
    BY DEF Holders
  <2>3. Cardinality(Holders(f)') <= Cardinality(Guards) /\ Cardinality(Guards) \in Nat
    BY <2>2, FS_Subset, FS_CardinalityType
  <2>. QED
    BY <2>1, <2>3, HoldersCount
<1>9. frames[f].pins = Cardinality(Holders(f)) /\ frames[f].pins \in Nat
  BY <1>1, <1>3, HoldersCount DEF Framed, GuardsHoldTheirFrame
<1>10. /\ frames'[f].pins = frames[f].pins + 1
       /\ frames'[f].page = frames[f].page /\ frames'[f].bytes = frames[f].bytes
       /\ frames'[f].dirty = frames[f].dirty
       /\ \A x \in Frames : x # f => frames'[x] = frames[x]
  BY <1>2, <1>3, <1>4 DEF FrameType
<1>11. frames' \in [Frames -> FrameType]
  <2>1. frames[f].pins + 1 \in 0 .. Cardinality(Guards)
    BY <1>8, <1>9
  <2>2. [frames[f] EXCEPT !.pins = @ + 1] \in FrameType
    BY <1>3, <1>4, <2>1 DEF FrameType
  <2>. QED
    BY <1>2, <1>3, <1>4, <2>2
<1>12. TypeOK'
  <2>1. FrameType' = FrameType /\ GuardType' = GuardType
    BY <1>2 DEF FrameType, GuardType
  <2>. QED
    BY <1>1, <1>2, <1>5, <1>11, <2>1 DEF TypeOK
<1>13. GuardsHoldTheirFrame'
  <2>1. ASSUME NEW h \in Guards, guards'[h] # NoGuard
        PROVE  /\ guards'[h].page \in DOMAIN pageTable'
               /\ pageTable'[guards'[h].page] = guards'[h].frame
               /\ guards'[h].frame \notin evictable'
    <3>1. CASE h = g
      BY <1>0, <1>2, <1>6, <3>1
    <3>2. CASE h # g
      BY <1>1, <1>2, <1>5, <2>1, <3>2 DEF Framed, GuardsHoldTheirFrame
    <3>. QED
      BY <3>1, <3>2
  <2>2. ASSUME NEW x \in Frames PROVE frames'[x].pins = Cardinality(Holders(x)')
    <3>1. CASE x = f
      BY <1>8, <1>9, <1>10, <3>1
    <3>2. CASE x # f
      BY <1>1, <1>7, <1>10, <3>2 DEF Framed, GuardsHoldTheirFrame
    <3>. QED
      BY <3>1, <3>2
  <2>. QED
    BY <2>1, <2>2 DEF GuardsHoldTheirFrame
<1>14. FramesAccounted'
  <2>1. \A x \in Frames : frames'[x].page = frames[x].page
    BY <1>10
  <2>2. ToSet(freeList) \subseteq Frames /\ \A q \in DOMAIN pageTable : pageTable[q] \in Frames
    BY <1>1 DEF TypeOK, ToSet
  <2>3. evictable' = {x \in Frames \ ToSet(freeList) : frames'[x].pins = 0}
    <3>1. \A x \in Frames : x \in evictable' <=> x \notin ToSet(freeList) /\ frames'[x].pins = 0
      <4>. TAKE x \in Frames
      <4>1. CASE x = f
        BY <1>2, <1>9, <1>10, <4>1
      <4>2. CASE x # f
        BY <1>1, <1>2, <1>10, <4>2 DEF Framed, FramesAccounted
      <4>. QED
        BY <4>1, <4>2
    <3>2. evictable' \subseteq Frames
      BY <1>12 DEF TypeOK
    <3>. QED
      BY <3>1, <3>2
  <2>. QED
    BY <1>1, <1>2, <2>1, <2>2, <2>3 DEF Framed, FramesAccounted
<1>15. FreeChainSound'
  BY <1>1, <1>2, ChainFrame
<1>16. \A q : Written(q)' <=> Written(q)
  BY <1>2, <1>5, <1>6 DEF Written
<1>17. \A x \in Frames : frames'[x].bytes = frames[x].bytes /\ frames'[x].dirty = frames[x].dirty
  BY <1>10
<1>18. CleanPagesStored' /\ ReadAlike(DOMAIN owned)
  BY <1>1, <1>2, <1>16, <1>17, PoolTypes DEF CleanPagesStored, ReadAlike, Content, Bytes
<1>. QED
  BY <1>12, <1>13, <1>14, <1>15, <1>18 DEF PoolInv

\* Writing through a guard changes its page and no other.
LEMMA WriteThroughStep ==
  ASSUME PoolInv, NEW g \in Guards, NEW v \in Values, WriteThrough(g, v)
  PROVE  /\ PoolInv'
         /\ \E p \in DOMAIN owned : /\ Content(p)' = v /\ ReadAlike(DOMAIN owned \ {p})
                                    /\ DOMAIN owned' = DOMAIN owned
<1>0. PICK p, f : p = guards[g].page /\ f = guards[g].frame
  OBVIOUS
<1>1. TypeOK /\ Framed /\ FreeChainSound /\ CleanPagesStored
  BY DEF PoolInv, Framed
<1>2. /\ guards[g] # NoGuard /\ p \in DOMAIN owned
      /\ frames' = [frames EXCEPT ![f].bytes = v]
      /\ guards' = [guards EXCEPT ![g].dirty = TRUE]
      /\ owned' = [owned EXCEPT ![p] = TRUE]
      /\ UNCHANGED <<pageTable, freeList, evictable, disk, meta>>
  BY <1>0 DEF WriteThrough
<1>3. /\ p \in DOMAIN pageTable /\ pageTable[p] = f /\ f \in Frames /\ frames[f].page = p
  BY <1>0, <1>1, <1>2, HeldPage
<1>4. /\ frames \in [Frames -> FrameType] /\ guards \in [Guards -> GuardType \cup {NoGuard}]
      /\ owned \in [DOMAIN owned -> BOOLEAN]
  BY <1>1 DEF TypeOK
<1>5. guards[g] \in GuardType
  BY <1>2, <1>4
<1>6. /\ guards'[g].page = guards[g].page /\ guards'[g].frame = guards[g].frame /\ guards'[g].dirty
      /\ guards'[g] # NoGuard /\ guards' \in [Guards -> GuardType \cup {NoGuard}]
      /\ \A h \in Guards : h # g => guards'[h] = guards[h]
  <2>1. guards'[g] = [guards[g] EXCEPT !.dirty = TRUE]
    BY <1>2, <1>4
  <2>2. /\ guards'[g] \in GuardType /\ guards'[g].page = guards[g].page
        /\ guards'[g].frame = guards[g].frame /\ guards'[g].dirty
    BY <1>5, <2>1 DEF GuardType
  <2>3. guards'[g].page # 0
    BY <1>1, <1>2, <2>2, GuardIs
  <2>4. guards'[g] # NoGuard
    BY <2>3 DEF NoGuard
  <2>. QED
    BY <1>2, <1>4, <2>2, <2>4
<1>7. /\ frames'[f].pins = frames[f].pins /\ frames'[f].page = frames[f].page
      /\ frames'[f].bytes = v /\ frames'[f].dirty = frames[f].dirty
      /\ \A x \in Frames : x # f => frames'[x] = frames[x]
  BY <1>2, <1>3, <1>4 DEF FrameType
<1>8. frames' \in [Frames -> FrameType]
  <2>1. [frames[f] EXCEPT !.bytes = v] \in FrameType
    BY <1>3, <1>4 DEF FrameType, Bytewise
  <2>. QED
    BY <1>2, <1>3, <1>4, <2>1
<1>9. /\ owned' \in [DOMAIN owned' -> BOOLEAN] /\ DOMAIN owned' = DOMAIN owned /\ owned'[p]
      /\ \A q \in DOMAIN owned : q # p => owned'[q] = owned[q]
  BY <1>2, <1>4
<1>10. TypeOK'
  <2>1. FrameType' = FrameType /\ GuardType' = GuardType
    BY <1>2 DEF FrameType, GuardType
  <2>. QED
    BY <1>1, <1>2, <1>6, <1>8, <1>9, <2>1 DEF TypeOK
<1>11. \A x : Holders(x)' = Holders(x)
  BY <1>2, <1>6 DEF Holders
<1>12. \A x \in Frames : frames'[x].pins = frames[x].pins /\ frames'[x].page = frames[x].page
  BY <1>7
<1>13. GuardsHoldTheirFrame'
  <2>1. \A h \in Guards : guards'[h] # NoGuard =>
          /\ guards[h] # NoGuard
          /\ guards'[h].page = guards[h].page /\ guards'[h].frame = guards[h].frame
    BY <1>2, <1>6
  <2>. QED
    BY <1>1, <1>2, <1>11, <1>12, <2>1 DEF Framed, GuardsHoldTheirFrame
<1>14. FramesAccounted'
  <2>1. ToSet(freeList) \subseteq Frames /\ \A q \in DOMAIN pageTable : pageTable[q] \in Frames
    BY <1>1 DEF TypeOK, ToSet
  <2>2. evictable' = {x \in Frames \ ToSet(freeList) : frames'[x].pins = 0}
    BY <1>1, <1>2, <1>12 DEF Framed, FramesAccounted
  <2>. QED
    BY <1>1, <1>2, <1>12, <2>1, <2>2 DEF Framed, FramesAccounted
<1>15. FreeChainSound'
  BY <1>1, <1>2, <1>9, ChainFrame
<1>16. \A q \in DOMAIN pageTable : q # p => pageTable[q] # f /\ pageTable[q] \in Frames
  BY <1>1, <1>3, PoolTypes DEF Framed, FramesAccounted
<1>17. CleanPagesStored'
  <2>. SUFFICES ASSUME NEW q \in DOMAIN pageTable \cap DOMAIN owned, owned'[q],
                       ~frames'[pageTable[q]].dirty, ~Written(q)'
                PROVE  disk[q] = frames'[pageTable[q]].bytes
    BY <1>2, <1>9 DEF CleanPagesStored
  <2>1. q # p
    BY <1>0, <1>6 DEF Written
  <2>2. ~Written(q)
    BY <1>6 DEF Written
  <2>3. frames'[pageTable[q]] = frames[pageTable[q]] /\ owned[q]
    BY <1>7, <1>9, <1>16, <2>1
  <2>. QED
    BY <1>1, <2>2, <2>3 DEF CleanPagesStored
<1>18. Content(p)' = v
  BY <1>2, <1>3, <1>7, <1>9 DEF Content, Bytes
<1>19. ReadAlike(DOMAIN owned \ {p})
  BY <1>2, <1>7, <1>9, <1>16 DEF ReadAlike, Content, Bytes
<1>20. PoolInv'
  BY <1>10, <1>13, <1>14, <1>15, <1>17 DEF PoolInv
<1>. QED
  BY <1>2, <1>9, <1>18, <1>19, <1>20

\* Dropping a guard takes its pin back, and marks the page if it was written.
LEMMA DropGuardStep ==
  ASSUME PoolInv, NEW g \in Guards, DropGuard(g)
  PROVE  PoolInv' /\ ReadAlike(DOMAIN owned)
<1>0. PICK p, f, d : p = guards[g].page /\ f = guards[g].frame /\ d = guards[g].dirty
  OBVIOUS
<1>1. TypeOK /\ Framed /\ FreeChainSound /\ CleanPagesStored
  BY DEF PoolInv, Framed
<1>2. /\ guards[g] # NoGuard /\ UnpinPage(frames[f].page, d)
      /\ guards' = [guards EXCEPT ![g] = NoGuard]
      /\ UNCHANGED <<owned, pageTable, freeList, disk, meta>>
  BY <1>0 DEF DropGuard
<1>3. /\ p \in DOMAIN pageTable /\ pageTable[p] = f /\ f \in Frames /\ frames[f].page = p
      /\ g \in Holders(f) /\ frames[f].pins \in Nat /\ frames[f].pins > 0 /\ d \in BOOLEAN
  BY <1>0, <1>1, <1>2, HeldPage, GuardIs
<1>4. /\ frames' = [frames EXCEPT ![f].pins = @ - 1, ![f].dirty = @ \/ d]
      /\ evictable' = IF frames[f].pins = 1 THEN evictable \cup {f} ELSE evictable
  BY <1>2, <1>3 DEF UnpinPage
<1>5. /\ frames \in [Frames -> FrameType] /\ guards \in [Guards -> GuardType \cup {NoGuard}]
  BY <1>1 DEF TypeOK
<1>6. /\ guards'[g] = NoGuard /\ \A h \in Guards : h # g => guards'[h] = guards[h]
      /\ guards' \in [Guards -> GuardType \cup {NoGuard}]
  BY <1>2, <1>5
<1>7. /\ Holders(f)' = Holders(f) \ {g}
      /\ \A x \in Frames : x # f => Holders(x)' = Holders(x)
  BY <1>0, <1>6 DEF Holders
<1>8. /\ Cardinality(Holders(f)') = Cardinality(Holders(f)) - 1
      /\ frames[f].pins = Cardinality(Holders(f))
      /\ frames[f].pins \in 0 .. Cardinality(Guards)
  <2>1. IsFiniteSet(Holders(f)) /\ Cardinality(Holders(f)) \in 0 .. Cardinality(Guards)
    BY HoldersCount
  <2>2. Cardinality(Holders(f) \ {g}) = Cardinality(Holders(f)) - 1
    BY <1>3, <2>1, FS_RemoveElement
  <2>3. frames[f].pins = Cardinality(Holders(f))
    BY <1>1, <1>3 DEF Framed, GuardsHoldTheirFrame
  <2>. QED
    BY <1>7, <2>1, <2>2, <2>3
<1>9. /\ frames'[f].pins = frames[f].pins - 1
      /\ frames'[f].page = frames[f].page /\ frames'[f].bytes = frames[f].bytes
      /\ frames'[f].dirty = (frames[f].dirty \/ d)
      /\ \A x \in Frames : x # f => frames'[x] = frames[x]
      /\ frames' \in [Frames -> FrameType]
  <2>1. frames[f].pins - 1 \in 0 .. Cardinality(Guards)
    <3>1. Cardinality(Guards) \in Nat
      BY FS_CardinalityType
    <3>. QED
      BY <1>3, <1>8, <3>1
  <2>2. /\ frames[f] \in FrameType
        /\ frames'[f] = [frames[f] EXCEPT !.pins = @ - 1, !.dirty = @ \/ d]
    BY <1>3, <1>4, <1>5
  <2>3. frames[f].dirty \/ d \in BOOLEAN
    BY <1>3
  <2>4. /\ frames'[f] \in FrameType /\ frames'[f].pins = frames[f].pins - 1
        /\ frames'[f].page = frames[f].page /\ frames'[f].bytes = frames[f].bytes
        /\ frames'[f].dirty = (frames[f].dirty \/ d)
    BY <2>1, <2>2, <2>3 DEF FrameType
  <2>. QED
    BY <1>3, <1>4, <1>5, <2>4
<1>10. f \notin ToSet(freeList)
  BY <1>1, <1>3 DEF Framed, FramesAccounted
<1>11. TypeOK'
  <2>1. FrameType' = FrameType /\ GuardType' = GuardType
    BY <1>2 DEF FrameType, GuardType
  <2>2. evictable' \subseteq Frames
    BY <1>1, <1>3, <1>4 DEF TypeOK
  <2>. QED
    BY <1>1, <1>2, <1>6, <1>9, <2>1, <2>2 DEF TypeOK
<1>12. GuardsHoldTheirFrame'
  <2>1. ASSUME NEW h \in Guards, guards'[h] # NoGuard
        PROVE  /\ guards'[h].page \in DOMAIN pageTable'
               /\ pageTable'[guards'[h].page] = guards'[h].frame
               /\ guards'[h].frame \notin evictable'
    <3>1. h # g /\ guards'[h] = guards[h]
      BY <1>6, <2>1
    <3>2. /\ guards[h].page \in DOMAIN pageTable /\ pageTable[guards[h].page] = guards[h].frame
          /\ guards[h].frame \notin evictable
      BY <1>1, <2>1, <3>1 DEF Framed, GuardsHoldTheirFrame
    <3>3. ASSUME frames[f].pins = 1 PROVE guards[h].frame # f
      <4>1. Holders(f)' = {}
        <5>1. IsFiniteSet(Holders(f) \ {g})
          BY HoldersCount, FS_RemoveElement
        <5>2. Cardinality(Holders(f)') = 0
          BY <1>8, <3>3
        <5>. QED
          BY <1>7, <5>1, <5>2, FS_EmptySet
      <4>. QED
        BY <2>1, <3>1, <4>1 DEF Holders
    <3>. QED
      BY <1>2, <1>4, <3>1, <3>2, <3>3
  <2>2. ASSUME NEW x \in Frames PROVE frames'[x].pins = Cardinality(Holders(x)')
    <3>1. CASE x = f
      BY <1>8, <1>9, <3>1
    <3>2. CASE x # f
      BY <1>1, <1>7, <1>9, <3>2 DEF Framed, GuardsHoldTheirFrame
    <3>. QED
      BY <3>1, <3>2
  <2>. QED
    BY <2>1, <2>2 DEF GuardsHoldTheirFrame
<1>13. FramesAccounted'
  <2>1. \A x \in Frames : frames'[x].page = frames[x].page
    BY <1>9
  <2>2. ToSet(freeList) \subseteq Frames /\ \A q \in DOMAIN pageTable : pageTable[q] \in Frames
    BY <1>1 DEF TypeOK, ToSet
  <2>3. evictable' = {x \in Frames \ ToSet(freeList) : frames'[x].pins = 0}
    <3>1. \A x \in Frames : x \in evictable' <=> x \notin ToSet(freeList) /\ frames'[x].pins = 0
      <4>. TAKE x \in Frames
      <4>1. CASE x = f
        <5>1. f \notin evictable
          BY <1>1, <1>3 DEF Framed, FramesAccounted
        <5>. QED
          BY <1>3, <1>4, <1>9, <1>10, <4>1, <5>1
      <4>2. CASE x # f
        BY <1>1, <1>4, <1>9, <4>2 DEF Framed, FramesAccounted
      <4>. QED
        BY <4>1, <4>2
    <3>2. evictable' \subseteq Frames
      BY <1>11 DEF TypeOK
    <3>. QED
      BY <3>1, <3>2
  <2>. QED
    BY <1>1, <1>2, <2>1, <2>2, <2>3 DEF Framed, FramesAccounted
<1>14. FreeChainSound'
  BY <1>1, <1>2, ChainFrame
<1>15. \A x \in Frames : frames'[x].bytes = frames[x].bytes
  BY <1>9
<1>16. ReadAlike(DOMAIN owned)
  BY <1>1, <1>2, <1>15, PoolTypes DEF ReadAlike, Content, Bytes
<1>17. CleanPagesStored'
  <2>. SUFFICES ASSUME NEW q \in DOMAIN pageTable \cap DOMAIN owned, owned[q],
                       ~frames'[pageTable[q]].dirty, ~Written(q)'
                PROVE  disk[q] = frames'[pageTable[q]].bytes
    BY <1>2 DEF CleanPagesStored
  <2>1. pageTable[q] \in Frames
    BY <1>1, PoolTypes
  <2>2. ~frames[pageTable[q]].dirty /\ (pageTable[q] = f => ~d)
    BY <1>9, <2>1
  <2>3. ASSUME NEW h \in Guards, guards[h] # NoGuard, guards[h].page = q, guards[h].dirty
        PROVE  FALSE
    <3>1. CASE h = g
      BY <1>0, <1>3, <2>2, <2>3, <3>1
    <3>2. CASE h # g
      BY <1>6, <2>3, <3>2 DEF Written
    <3>. QED
      BY <3>1, <3>2
  <2>4. ~Written(q)
    BY <2>3 DEF Written
  <2>. QED
    BY <1>1, <1>15, <2>1, <2>2, <2>4 DEF CleanPagesStored
<1>. QED
  BY <1>11, <1>12, <1>13, <1>14, <1>16, <1>17 DEF PoolInv

\* A page nobody holds leaves the pool and becomes the head of the free chain.
LEMMA DeletePageStep ==
  ASSUME PoolInv, NEW p \in 1 .. MaxPages, DeletePage(p)
  PROVE  /\ PoolInv' /\ ReadAlike(DOMAIN owned \ {p})
         /\ p \in DOMAIN owned /\ DOMAIN owned' = DOMAIN owned \ {p}
<1>0. PICK f : f = pageTable[p]
  OBVIOUS
<1>. DEFINE new == [EmptyFrame EXCEPT !.bytes = 0]
<1>1. TypeOK /\ Framed /\ FreeChainSound /\ CleanPagesStored
  BY DEF PoolInv, Framed
<1>2. /\ p \in DOMAIN owned /\ owned' = [q \in DOMAIN owned \ {p} |-> owned[q]]
      /\ p \in DOMAIN pageTable /\ frames[f].pins = 0
      /\ pageTable' = [q \in DOMAIN pageTable \ {p} |-> pageTable[q]]
      /\ evictable' = evictable \ {f} /\ freeList' = Append(freeList, f)
      /\ frames' = [frames EXCEPT ![f] = new]
      /\ DeallocatePage(p) /\ UNCHANGED guards
  BY <1>0 DEF DeletePage, Disown
<1>3. /\ f \in Frames /\ f \notin ToSet(freeList) /\ frames[f].page = p
      /\ \A q \in DOMAIN pageTable : q # p => pageTable[q] # f /\ pageTable[q] \in Frames
  BY <1>0, <1>1, <1>2, PoolTypes DEF Framed, FramesAccounted
<1>4. /\ freeList \in Seq(Frames) /\ IsInjective(freeList) /\ frames \in [Frames -> FrameType]
      /\ owned \in [DOMAIN owned -> BOOLEAN] /\ DOMAIN owned \subseteq 1 .. meta.total
      /\ pageTable \in [DOMAIN pageTable -> Frames] /\ DOMAIN pageTable \subseteq 1 .. meta.total
  BY <1>1 DEF TypeOK, Framed, FramesAccounted
<1>5. /\ freeList' \in Seq(Frames) /\ IsInjective(freeList')
      /\ ToSet(freeList') = ToSet(freeList) \cup {f}
  BY <1>2, <1>3, <1>4, AppendToList
<1>6. /\ DOMAIN owned' = DOMAIN owned \ {p} /\ DOMAIN pageTable' = DOMAIN pageTable \ {p}
      /\ \A q \in DOMAIN owned' : owned'[q] = owned[q]
      /\ \A q \in DOMAIN pageTable' : pageTable'[q] = pageTable[q]
  BY <1>2
<1>7. /\ FreeChainSound'
      /\ meta' \in MetaType /\ meta'.total = meta.total
      /\ disk' \in Seq(Bytewise) /\ Len(disk') = meta.total
      /\ \A q \in 1 .. meta.total : q # p => disk'[q] = disk[q]
  BY <1>1, <1>2, <1>6, ChainDealloc
<1>8. /\ frames'[f] = new /\ new.page = 0 /\ new.pins = 0
      /\ \A x \in Frames : x # f => frames'[x] = frames[x]
      /\ frames' \in [Frames -> FrameType]
  <2>1. /\ new \in FrameType /\ new.page = 0 /\ new.pins = 0
    <3>1. 0 \in 0 .. meta.total /\ 0 \in Bytewise
      BY <1>1, PoolTypes DEF Bytewise
    <3>2. 0 \in 0 .. Cardinality(Guards)
      BY FS_CardinalityType
    <3>. QED
      BY <3>1, <3>2 DEF FrameType, EmptyFrame
  <2>. HIDE DEF new
  <2>. QED
    BY <1>2, <1>3, <1>4, <2>1
<1>. HIDE DEF new
<1>9. TypeOK'
  <2>1. FrameType' = FrameType /\ GuardType' = GuardType
    BY <1>7 DEF FrameType, GuardType
  <2>2. owned' \in [DOMAIN owned' -> BOOLEAN] /\ pageTable' \in [DOMAIN pageTable' -> Frames]
    BY <1>4, <1>6, <1>2
  <2>. QED
    BY <1>1, <1>2, <1>4, <1>5, <1>6, <1>7, <1>8, <2>1, <2>2 DEF TypeOK, MetaType
<1>10. GuardsHoldTheirFrame'
  <2>1. Holders(f) = {}
    BY <1>1, <1>2, <1>3, HoldersCount DEF Framed, GuardsHoldTheirFrame
  <2>2. ASSUME NEW h \in Guards, guards[h] # NoGuard
        PROVE  /\ guards[h].page \in DOMAIN pageTable'
               /\ pageTable'[guards[h].page] = guards[h].frame
               /\ guards[h].frame \notin evictable'
    <3>1. /\ guards[h].page \in DOMAIN pageTable /\ pageTable[guards[h].page] = guards[h].frame
          /\ guards[h].frame \notin evictable
      BY <1>1, <2>2 DEF Framed, GuardsHoldTheirFrame
    <3>2. guards[h].page # p
      BY <1>0, <2>1, <2>2, <3>1 DEF Holders
    <3>. QED
      BY <1>2, <1>6, <3>1, <3>2
  <2>3. \A x \in Frames : Holders(x)' = Holders(x) /\ frames'[x].pins = frames[x].pins
    BY <1>2, <1>8 DEF Holders
  <2>. QED
    BY <1>1, <1>2, <2>2, <2>3 DEF Framed, GuardsHoldTheirFrame
<1>11. FramesAccounted'
  <2>1. \A q \in DOMAIN pageTable' : pageTable'[q] \notin ToSet(freeList') /\ frames'[pageTable'[q]].page = q
    <3>. TAKE q \in DOMAIN pageTable'
    <3>1. q # p /\ q \in DOMAIN pageTable /\ pageTable'[q] = pageTable[q]
      BY <1>6
    <3>. QED
      BY <1>1, <1>3, <1>5, <1>8, <3>1 DEF Framed, FramesAccounted
  <2>2. \A x \in Frames \ ToSet(freeList') :
          frames'[x].page \in DOMAIN pageTable' /\ pageTable'[frames'[x].page] = x
    <3>. TAKE x \in Frames \ ToSet(freeList')
    <3>1. /\ x # f /\ frames'[x] = frames[x]
          /\ frames[x].page \in DOMAIN pageTable /\ pageTable[frames[x].page] = x
      BY <1>1, <1>5, <1>8 DEF Framed, FramesAccounted
    <3>2. frames[x].page # p
      BY <1>0, <3>1
    <3>. QED
      BY <1>6, <3>1, <3>2
  <2>3. \A x \in ToSet(freeList') : frames'[x].page = 0
    <3>1. ToSet(freeList) \subseteq Frames
      BY <1>4 DEF ToSet
    <3>. QED
      BY <1>1, <1>3, <1>5, <1>8, <3>1 DEF Framed, FramesAccounted
  <2>4. evictable' = {x \in Frames \ ToSet(freeList') : frames'[x].pins = 0}
    <3>1. evictable = {x \in Frames \ ToSet(freeList) : frames[x].pins = 0}
      BY <1>1 DEF Framed, FramesAccounted
    <3>. QED
      BY <1>2, <1>5, <1>8, <3>1
  <2>. QED
    BY <1>5, <2>1, <2>2, <2>3, <2>4 DEF FramesAccounted
<1>12. \A q \in DOMAIN pageTable' : frames'[pageTable'[q]] = frames[pageTable[q]]
  BY <1>3, <1>6, <1>8
<1>13. CleanPagesStored'
  <2>1. \A q : Written(q)' <=> Written(q)
    BY <1>2 DEF Written
  <2>2. \A q \in DOMAIN owned \ {p} : disk'[q] = disk[q]
    BY <1>4, <1>7
  <2>. QED
    BY <1>1, <1>6, <1>12, <2>1, <2>2 DEF CleanPagesStored
<1>14. ReadAlike(DOMAIN owned \ {p})
  <2>1. \A q \in DOMAIN owned \ {p} : disk'[q] = disk[q]
    BY <1>4, <1>7
  <2>. QED
    BY <1>6, <1>12, <2>1 DEF ReadAlike, Content, Bytes
<1>. QED
  BY <1>2, <1>6, <1>7, <1>9, <1>10, <1>11, <1>13, <1>14 DEF PoolInv

\* A page that is only forgotten stays where it is.
LEMMA LosePageStep ==
  ASSUME PoolInv, NEW p \in 1 .. MaxPages, LosePage(p)
  PROVE  /\ PoolInv' /\ ReadAlike(DOMAIN owned \ {p})
         /\ p \in DOMAIN owned /\ DOMAIN owned' = DOMAIN owned \ {p}
<1>1. TypeOK /\ GuardsHoldTheirFrame /\ FramesAccounted /\ FreeChainSound /\ CleanPagesStored
  BY DEF PoolInv
<1>2. /\ p \in DOMAIN owned /\ owned' = [q \in DOMAIN owned \ {p} |-> owned[q]]
      /\ UNCHANGED <<pageTable, frames, freeList, evictable, guards, disk, meta>>
  BY DEF LosePage, Disown
<1>3. /\ DOMAIN owned' = DOMAIN owned \ {p}
      /\ \A q \in DOMAIN owned' : owned'[q] = owned[q]
  BY <1>2
<1>4. TypeOK'
  <2>1. owned \in [DOMAIN owned -> BOOLEAN]
    BY <1>1 DEF TypeOK
  <2>2. owned' \in [DOMAIN owned' -> BOOLEAN]
    BY <1>2, <1>3, <2>1
  <2>3. FrameType' = FrameType /\ GuardType' = GuardType
    BY <1>2 DEF FrameType, GuardType
  <2>. QED
    BY <1>1, <1>2, <1>3, <2>2, <2>3 DEF TypeOK
<1>5. GuardsHoldTheirFrame'
  BY <1>1, <1>2 DEF GuardsHoldTheirFrame, Holders
<1>6. FramesAccounted'
  BY <1>1, <1>2 DEF FramesAccounted
<1>7. FreeChainSound'
  BY <1>1, <1>2, <1>3, ChainFrame
<1>8. CleanPagesStored'
  <2>1. \A q : Written(q)' <=> Written(q)
    BY <1>2 DEF Written
  <2>. QED
    BY <1>1, <1>2, <1>3, <2>1 DEF CleanPagesStored
<1>9. ReadAlike(DOMAIN owned \ {p})
  BY <1>2, <1>3 DEF ReadAlike, Content, Bytes
<1>. QED
  BY <1>2, <1>3, <1>4, <1>5, <1>6, <1>7, <1>8, <1>9 DEF PoolInv

\* The file with every page of the pool written to it.
LEMMA FlushedIs ==
  ASSUME TypeOK
  PROVE  /\ Flushed \in Seq(Bytewise) /\ Len(Flushed) = meta.total
         /\ \A p \in 1 .. meta.total : Flushed[p] = Bytes(p)
<1>1. disk \in Seq(Bytewise) /\ Len(disk) = meta.total /\ meta.total \in Nat
  BY PoolTypes DEF TypeOK
<1>2. Flushed = [p \in 1 .. meta.total |-> Bytes(p)]
  BY <1>1 DEF Flushed, Bytes
<1>3. \A p \in 1 .. meta.total : Bytes(p) \in Bytewise
  BY PoolTypes DEF Bytes
<1>4. Flushed \in [1 .. meta.total -> Bytewise]
  BY <1>2, <1>3
<1>. HIDE DEF Flushed
<1>5. Flushed \in Seq(Bytewise)
  BY <1>1, <1>4
<1>. QED
  BY <1>1, <1>2, <1>4, <1>5

\* A flush changes no page, only where it is kept.
LEMMA FlushStep ==
  ASSUME PoolInv, FlushAllPages
  PROVE  PoolInv' /\ ReadAlike(DOMAIN owned)
<1>1. TypeOK /\ GuardsHoldTheirFrame /\ FramesAccounted /\ FreeChainSound /\ CleanPagesStored
  BY DEF PoolInv
<1>2. /\ disk' = Flushed /\ UNCHANGED <<owned, pageTable, freeList, evictable, guards, meta>>
      /\ frames' = [f \in Frames |-> IF frames[f].page \in DOMAIN pageTable
                                     THEN [frames[f] EXCEPT !.dirty = FALSE] ELSE frames[f]]
  BY DEF FlushAllPages
<1>3. /\ disk' \in Seq(Bytewise) /\ Len(disk') = meta.total
      /\ \A p \in 1 .. meta.total : disk'[p] = Bytes(p)
  BY <1>1, <1>2, FlushedIs
<1>4. ASSUME NEW f \in Frames
      PROVE  /\ frames'[f] \in FrameType /\ frames'[f].page = frames[f].page
             /\ frames'[f].bytes = frames[f].bytes /\ frames'[f].pins = frames[f].pins
  <2>1. frames[f] \in FrameType
    BY <1>1 DEF TypeOK
  <2>2. frames'[f] = frames[f] \/ frames'[f] = [frames[f] EXCEPT !.dirty = FALSE]
    BY <1>2
  <2>. QED
    BY <2>1, <2>2 DEF FrameType
<1>5. frames' \in [Frames -> FrameType]
  BY <1>2, <1>4
<1>6. TypeOK'
  <2>1. FrameType' = FrameType /\ GuardType' = GuardType
    BY <1>2 DEF FrameType, GuardType
  <2>. QED
    BY <1>1, <1>2, <1>3, <1>5, <2>1 DEF TypeOK
<1>7. ToSet(freeList) \subseteq Frames /\ \A q \in DOMAIN pageTable : pageTable[q] \in Frames
  BY <1>1 DEF TypeOK, ToSet
<1>8. GuardsHoldTheirFrame'
  BY <1>1, <1>2, <1>4 DEF GuardsHoldTheirFrame, Holders
<1>9. FramesAccounted'
  <2>1. evictable' = {x \in Frames \ ToSet(freeList) : frames'[x].pins = 0}
    BY <1>1, <1>2, <1>4 DEF FramesAccounted
  <2>. QED
    BY <1>1, <1>2, <1>4, <1>7, <2>1 DEF FramesAccounted
<1>10. FreeChainSound'
  <2>1. \A p \in 1 .. meta.total : p \notin DOMAIN pageTable => disk'[p] = disk[p]
    BY <1>3 DEF Bytes
  <2>. QED
    BY <1>1, <1>2, <2>1, ChainFrame
<1>11. \A q \in 1 .. meta.total : Bytes(q)' = Bytes(q) /\ disk'[q] = Bytes(q)
  <2>. TAKE q \in 1 .. meta.total
  <2>1. CASE q \in DOMAIN pageTable
    BY <1>2, <1>3, <1>4, <1>7, <2>1 DEF Bytes
  <2>2. CASE q \notin DOMAIN pageTable
    BY <1>2, <1>3, <2>2 DEF Bytes
  <2>. QED
    BY <2>1, <2>2
<1>12. DOMAIN owned \subseteq 1 .. meta.total
  BY <1>1, PoolTypes
<1>13. CleanPagesStored'
  BY <1>2, <1>11, <1>12 DEF CleanPagesStored, Bytes
<1>14. ReadAlike(DOMAIN owned)
  BY <1>2, <1>11, <1>12 DEF ReadAlike, Content
<1>. QED
  BY <1>6, <1>8, <1>9, <1>10, <1>13, <1>14 DEF PoolInv

\* Nothing is in the pool.
PoolEmpty ==
  /\ meta.total \in Nat
  /\ pageTable = NoPages /\ frames = EmptyFrames /\ freeList = AllFree /\ evictable = {}
  /\ guards = [g \in Guards |-> NoGuard]

\* What a new pool is.
FreshPool ==
  /\ Framed
  /\ pageTable \in [DOMAIN pageTable -> Frames] /\ DOMAIN pageTable = {}
  /\ frames \in [Frames -> FrameType] /\ freeList \in Seq(Frames) /\ evictable \subseteq Frames
  /\ guards \in [Guards -> GuardType \cup {NoGuard}]

\* A new pool has all its frames free and nobody holds any.
LEMMA EmptyPool == PoolEmpty => FreshPool
<1>. SUFFICES ASSUME PoolEmpty PROVE FreshPool
  OBVIOUS
<1>0. meta.total \in Nat
  BY DEF PoolEmpty
<1>1. freeList \in Seq(Frames) /\ IsInjective(freeList) /\ ToSet(freeList) = Frames
  BY ListOfSet DEF PoolEmpty, AllFree
<1>2. pageTable \in [DOMAIN pageTable -> Frames] /\ DOMAIN pageTable = {} /\ evictable = {}
  BY DEF PoolEmpty, NoPages
<1>3. \A f \in Frames : frames[f] = EmptyFrame
  BY DEF PoolEmpty, EmptyFrames
<1>4. frames \in [Frames -> FrameType]
  <2>1. Junk \in Bytewise /\ 0 \in 0 .. meta.total
    BY <1>0 DEF Bytewise
  <2>2. 0 \in 0 .. Cardinality(Guards)
    BY FS_CardinalityType
  <2>3. EmptyFrame \in FrameType
    BY <2>1, <2>2 DEF EmptyFrame, FrameType
  <2>. QED
    BY <2>3 DEF PoolEmpty, EmptyFrames
<1>5. \A g \in Guards : guards[g] = NoGuard
  BY DEF PoolEmpty
<1>6. guards \in [Guards -> GuardType \cup {NoGuard}]
  BY DEF PoolEmpty
<1>7. GuardsHoldTheirFrame
  <2>1. \A f \in Frames : Holders(f) = {} /\ frames[f].pins = 0
    BY <1>3, <1>5 DEF Holders, EmptyFrame
  <2>2. Cardinality({}) = 0
    BY FS_EmptySet
  <2>. QED
    BY <1>5, <2>1, <2>2 DEF GuardsHoldTheirFrame
<1>8. FramesAccounted
  BY <1>1, <1>2, <1>3 DEF FramesAccounted, EmptyFrame
<1>. QED
  BY <1>1, <1>2, <1>4, <1>6, <1>7, <1>8 DEF FreshPool, Framed

\* After an orderly restart the pool is empty and the file has every page.
LEMMA RestartStep ==
  ASSUME PoolInv, Restart
  PROVE  PoolInv' /\ ReadAlike(DOMAIN owned)
<1>1. TypeOK /\ Framed /\ FreeChainSound /\ CleanPagesStored
  BY DEF PoolInv, Framed
<1>2. /\ disk' = Flushed /\ UNCHANGED <<owned, guards, meta>>
      /\ \A g \in Guards : guards[g] = NoGuard
      /\ pageTable' = NoPages /\ frames' = EmptyFrames /\ freeList' = AllFree /\ evictable' = {}
  BY DEF Restart
<1>3. /\ disk' \in Seq(Bytewise) /\ Len(disk') = meta.total
      /\ \A p \in 1 .. meta.total : disk'[p] = Bytes(p)
  BY <1>1, <1>2, FlushedIs
<1>4. PoolEmpty'
  <2>1. guards = [g \in Guards |-> guards[g]]
    BY <1>1 DEF TypeOK
  <2>2. guards' = [g \in Guards |-> NoGuard]
    BY <1>2, <2>1
  <2>. QED
    BY <1>1, <1>2, <2>2, PoolTypes DEF PoolEmpty
<1>5. PoolEmpty' => FreshPool'
  BY EmptyPool, PTL
<1>6. FreshPool'
  BY <1>4, <1>5
<1>7. TypeOK'
  BY <1>1, <1>2, <1>3, <1>6 DEF TypeOK, FreshPool
<1>8. FreeChainSound'
  <2>1. \A p \in 1 .. meta.total : p \notin DOMAIN pageTable => disk'[p] = disk[p]
    BY <1>3 DEF Bytes
  <2>. QED
    BY <1>1, <1>2, <1>6, <2>1, ChainFrame DEF FreshPool
<1>9. CleanPagesStored'
  BY <1>6 DEF CleanPagesStored, FreshPool
<1>10. ReadAlike(DOMAIN owned)
  <2>1. DOMAIN owned \subseteq 1 .. meta.total
    BY <1>1, PoolTypes
  <2>2. \A q \in DOMAIN owned : Bytes(q)' = Bytes(q)
    BY <1>3, <1>6, <2>1 DEF Bytes, FreshPool
  <2>. QED
    BY <1>2, <2>2 DEF ReadAlike, Content
<1>. QED
  BY <1>6, <1>7, <1>8, <1>9, <1>10 DEF PoolInv, Framed, FreshPool

\* The pool starts empty, over an empty file.
LEMMA PoolInvInit ==
  ASSUME Init
  PROVE  PoolInv
<1>1. /\ meta = [firstEmpty |-> 0, total |-> 0, noneEmpty |-> 0]
      /\ disk = <<>> /\ owned = [p \in {} |-> FALSE]
  BY DEF Init
<1>2. meta.total = 0 /\ meta.noneEmpty = 0 /\ meta.firstEmpty = 0
  BY <1>1
<1>3. FreshPool
  BY <1>2, EmptyPool DEF Init, PoolEmpty
<1>4. TypeOK
  BY <1>1, <1>2, <1>3 DEF TypeOK, FreshPool
<1>5. FreeChainSound
  <2>. DEFINE e == [i \in 1 .. 0 |-> 0]
  <2>1. e \in [1 .. meta.total - meta.noneEmpty -> 1 .. meta.total] /\ DOMAIN e = {}
    BY <1>2
  <2>2. IsFreeChain(e)
    BY <1>2 DEF IsFreeChain, Link
  <2>3. IsInjective(e)
    BY DEF IsInjective
  <2>. HIDE DEF e
  <2>4. meta.noneEmpty <= meta.total
    BY <1>2
  <2>. QED
    BY <1>2, <2>1, <2>2, <2>3, <2>4, Zenon DEF FreeChainSound
<1>6. CleanPagesStored
  BY <1>3 DEF CleanPagesStored, FreshPool
<1>. QED
  BY <1>3, <1>4, <1>5, <1>6 DEF PoolInv, Framed, FreshPool

-----------------------------------------------------------------------------
(* Theorems *)

\* Every step of the pool keeps its invariant, and is a step of the page store
\* on what the pages read as, or changes nothing there.
LEMMA PoolStep ==
  ASSUME PoolInv, [Next]_vars
  PROVE  PoolInv' /\ [Store!Next]_([p \in DOMAIN owned |-> IF owned[p] THEN Bytes(p) ELSE Junk])
<1>. DEFINE old == [p \in DOMAIN owned |-> IF owned[p] THEN Bytes(p) ELSE Junk]
            new == [p \in DOMAIN owned' |-> IF owned'[p] THEN Bytes(p)' ELSE Junk]
<1>1. ASSUME ReadAlike(DOMAIN owned), DOMAIN owned' = DOMAIN owned PROVE new = old
  BY <1>1 DEF ReadAlike, Content
<1>2. ASSUME NEW p \in 1 .. MaxPages, ReadAlike(DOMAIN owned \ {p}),
             p \in DOMAIN owned, DOMAIN owned' = DOMAIN owned \ {p}
      PROVE  Store!Next
  <2>1. new = [q \in DOMAIN old \ {p} |-> old[q]] /\ p \in DOMAIN old
    BY <1>2 DEF ReadAlike, Content
  <2>2. Store!Delete(p)
    BY <2>1 DEF Store!Delete
  <2>. QED
    BY <2>2 DEF Store!Next
<1>3. ASSUME NEW g \in Guards, NEW f \in Frames, NewPageGuarded(g, f)
      PROVE  PoolInv' /\ Store!Next
  <2>1. PoolInv' /\ ReadAlike(DOMAIN owned)
    BY <1>3, NewPageStep
  <2>2. PICK p \in 1 .. MaxPages : /\ p \notin DOMAIN owned /\ DOMAIN owned' = DOMAIN owned \cup {p}
                                   /\ Content(p)' = Junk
    BY <1>3, NewPageStep
  <2>3. /\ new = [q \in DOMAIN old \cup {p} |-> IF q = p THEN Junk ELSE old[q]]
        /\ p \notin DOMAIN old
    BY <2>1, <2>2 DEF ReadAlike, Content
  <2>4. Store!New(p)
    BY <2>3 DEF Store!New
  <2>. QED
    BY <2>1, <2>2, <2>4 DEF Store!Next
<1>4. ASSUME NEW g \in Guards, NEW p \in 1 .. MaxPages, FetchResident(g, p)
      PROVE  PoolInv' /\ new = old
  <2>1. UNCHANGED owned
    BY <1>4 DEF FetchResident
  <2>. QED
    BY <1>1, <1>4, <2>1, FetchResidentStep
<1>5. ASSUME NEW g \in Guards, NEW p \in 1 .. MaxPages, NEW f \in Frames, FetchFromDisk(g, p, f)
      PROVE  PoolInv' /\ new = old
  <2>1. UNCHANGED owned
    BY <1>5 DEF FetchFromDisk
  <2>. QED
    BY <1>1, <1>5, <2>1, FetchFromDiskStep
<1>6. ASSUME NEW g \in Guards, NEW v \in Values, WriteThrough(g, v)
      PROVE  PoolInv' /\ Store!Next
  <2>1. PoolInv'
    BY <1>6, WriteThroughStep
  <2>2. PICK p \in DOMAIN owned : /\ Content(p)' = v /\ ReadAlike(DOMAIN owned \ {p})
                                  /\ DOMAIN owned' = DOMAIN owned
    BY <1>6, WriteThroughStep
  <2>3. new = [old EXCEPT ![p] = v] /\ p \in DOMAIN old
    BY <2>2 DEF ReadAlike, Content
  <2>4. Store!Write(p, v)
    BY <2>3 DEF Store!Write
  <2>5. p \in 1 .. MaxPages
    BY PoolTypes DEF PoolInv
  <2>. QED
    BY <2>1, <2>4, <2>5 DEF Store!Next
<1>7. ASSUME NEW g \in Guards, DropGuard(g)
      PROVE  PoolInv' /\ new = old
  <2>1. UNCHANGED owned
    BY <1>7 DEF DropGuard
  <2>. QED
    BY <1>1, <1>7, <2>1, DropGuardStep
<1>8. ASSUME NEW p \in 1 .. MaxPages, DeletePage(p) \/ LosePage(p)
      PROVE  PoolInv' /\ Store!Next
  BY <1>2, <1>8, DeletePageStep, LosePageStep
<1>9. ASSUME FlushAllPages \/ Restart PROVE PoolInv' /\ new = old
  <2>1. UNCHANGED owned
    BY <1>9 DEF FlushAllPages, Restart
  <2>. QED
    BY <1>1, <1>9, <2>1, FlushStep, RestartStep
<1>10. ASSUME UNCHANGED vars PROVE PoolInv' /\ new = old
  <2>1. new = old
    BY <1>10 DEF vars, Bytes
  <2>2. TypeOK' = TypeOK
    BY <1>10 DEF vars, TypeOK, FrameType, GuardType
  <2>3. GuardsHoldTheirFrame' = GuardsHoldTheirFrame
    BY <1>10 DEF vars, GuardsHoldTheirFrame, Holders
  <2>4. FramesAccounted' = FramesAccounted
    BY <1>10 DEF vars, FramesAccounted
  <2>5. FreeChainSound' = FreeChainSound
    BY <1>10 DEF vars, FreeChainSound, IsFreeChain, Link
  <2>6. CleanPagesStored' = CleanPagesStored
    BY <1>10 DEF vars, CleanPagesStored, Written
  <2>7. PoolInv'
    BY <2>2, <2>3, <2>4, <2>5, <2>6 DEF PoolInv
  <2>. QED
    BY <2>1, <2>7
<1>. HIDE DEF new, old
<1>11. PoolInv' /\ (Store!Next \/ new = old)
  BY <1>3, <1>4, <1>5, <1>6, <1>7, <1>8, <1>9, <1>10 DEF Next
<1>. QED
  BY <1>11 DEF new, old

\* The invariant of the pool holds in every state: the types, every guard on a
\* pinned frame, every frame free or in use, the chain of free pages sound, and
\* every page that may be dropped from the pool stored.
THEOREM PoolInvariance == Spec => []PoolInv
<1>1. Init => PoolInv
  BY PoolInvInit
<1>2. PoolInv /\ [Next]_vars => PoolInv'
  BY PoolStep
<1>. QED
  BY <1>1, <1>2, PTL DEF Spec

\* A guard's frame holds the guard's page as long as the guard lives, and has
\* as many pins as guards.
THEOREM GuardsKeepFrames == Spec => []GuardsHoldTheirFrame
<1>1. PoolInv => GuardsHoldTheirFrame
  BY DEF PoolInv
<1>. QED
  BY <1>1, PoolInvariance, PTL

\* No frame is free and in use, none is neither, and the unpinned ones are the
\* replacer's.
THEOREM NoFrameIsLost == Spec => []FramesAccounted
<1>1. PoolInv => FramesAccounted
  BY DEF PoolInv
<1>. QED
  BY <1>1, PoolInvariance, PTL

\* The chain of free pages ends, is as long as the counters say, and has no
\* page that is in use.
THEOREM FreePagesAreFree == Spec => []FreeChainSound
<1>1. PoolInv => FreeChainSound
  BY DEF PoolInv
<1>. QED
  BY <1>1, PoolInvariance, PTL

\* The pool over its file is a store of pages that read as they were written.
THEOREM PoolIsPageStore == Spec => ImplementsPageStore
<1>. DEFINE C == [p \in DOMAIN owned |-> IF owned[p] THEN Bytes(p) ELSE Junk]
<1>1. Init => Store!Init
  BY DEF Init, Store!Init
<1>2. PoolInv /\ [Next]_vars => [Store!Next]_C
  BY PoolStep
<1>. QED
  BY <1>1, <1>2, PoolInvariance, PTL DEF Spec, ImplementsPageStore, Store!Spec
=============================================================================
