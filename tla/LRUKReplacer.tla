---------------------------- MODULE LRUKReplacer ----------------------------
(***************************************************************************)
(* The LRU-K replacer as its callers drive it, in any order of calls; it   *)
(* implements LRUKPolicy.                                                  *)
(***************************************************************************)
EXTENDS LRUKChains

CONSTANT MaxTime   \* bound of the model: accesses recorded

VARIABLES
  replacer,
  timestamp,   \* current_timestamp_
  answer       \* what the last TryEvictLeastImportant found

vars == <<replacer, timestamp, answer>>

Init ==
  /\ replacer = EmptyReplacer
  /\ timestamp = 0
  /\ answer = NoFrame

Record(f) ==
  /\ timestamp < MaxTime
  /\ timestamp' = timestamp + 1
  /\ replacer' = RecordAccess(replacer, f, timestamp')
  /\ UNCHANGED answer

Mark(f, b) ==
  /\ replacer' = SetEvictable(replacer, f, b)
  /\ UNCHANGED <<timestamp, answer>>

EvictExact(f) ==
  /\ CanEvict(replacer, f)
  /\ replacer' = EvictFrame(replacer, f)
  /\ answer' = NoFrame
  /\ UNCHANGED timestamp

EvictLeastImportant ==
  /\ answer' = Victim(replacer)
  /\ replacer' = IF answer' = NoFrame THEN replacer ELSE TryEvictExactFrame(replacer, answer')
  /\ UNCHANGED timestamp

Next ==
  \/ \E f \in Frames : Record(f) \/ EvictExact(f) \/ \E b \in BOOLEAN : Mark(f, b)
  \/ EvictLeastImportant

Spec == Init /\ [][Next]_vars

-----------------------------------------------------------------------------
(* Properties *)

\* The times of the nodes of f in a main chain.
TimesIn(main, f) == {main[i].time : i \in {k \in DOMAIN main : main[k].frame = f}}

AccessesOf(f) == TimesIn(replacer.main, f)

EvictableIn(r) == {f \in Frames : CanEvict(r, f)}

Evictable == EvictableIn(replacer)

Policy == INSTANCE LRUKPolicy WITH
  clock <- timestamp,
  accesses <- [f \in Frames |-> AccessesOf(f)],
  evictable <- Evictable

\* The two chains choose the victims that LRU-K chooses from the full history
\* of accesses, through any mix of accesses, pins and evictions.
ImplementsPolicy == Policy!Spec

\* The counter that decides whether there is anything to evict, a size_t that
\* every path changes by one, counts the evictable frames.
CountIsExact == replacer.count = Cardinality(Evictable)

-----------------------------------------------------------------------------
(* The invariant of the proofs, on a replacer r at the time now *)

NodeType == [frame : Frames, time : Nat]

ReplacerType ==
  [lru : Seq(Frames), main : Seq(NodeType), visits : [Frames -> Nat],
   evitable : SUBSET Frames, count : Int]

\* The nodes of the main chain lie in the order of their times.
MainOrdered(main, now) ==
  /\ \A i \in DOMAIN main : main[i].time <= now
  /\ \A i, j \in DOMAIN main : i < j => main[i].time < main[j].time

\* The LRU chain holds, once each, the tracked frames with fewer than K visits.
LRUChainSound(r) ==
  /\ \A f \in Frames : f \in ToSet(r.lru) <=> r.visits[f] \in 1 .. K - 1
  /\ IsInjective(r.lru)

Before(s, f, g) == \E i, j \in DOMAIN s : i < j /\ s[i] = f /\ s[j] = g

\* Some time in T is later than all of S.
LastLater(S, T) == \E u \in T : \A t \in S : t < u

\* The LRU chain has the frames in the order of their last accesses.
LRUOrdered(r) ==
  \A f, g \in Frames : Before(r.lru, f, g) => LastLater(TimesIn(r.main, f), TimesIn(r.main, g))

\* The main chain keeps the last K accesses of a frame, or all there are.
LastVisitsKept(r) ==
  \A f \in Frames :
    Cardinality(TimesIn(r.main, f)) = IF r.visits[f] <= K THEN r.visits[f] ELSE K

ChainsSound(r, now) ==
  /\ r \in ReplacerType
  /\ MainOrdered(r.main, now)
  /\ LRUChainSound(r)
  /\ LRUOrdered(r)
  /\ LastVisitsKept(r)
  /\ r.count = Cardinality(EvictableIn(r))

\* Each chain has its nodes in the order of time, the LRU chain one for each
\* frame with fewer than K visits, the main chain one for each of the last K
\* visits: what TryEvictLeastImportant takes for granted when it stops at the
\* first evictable node.
ReplacerInv ==
  /\ timestamp \in Nat
  /\ answer \in Frames \cup {NoFrame}
  /\ ChainsSound(replacer, timestamp)
=============================================================================
