----------------------------- MODULE LRUKChains -----------------------------
(***************************************************************************)
(* The data of the LRU-K replacer and what its operations make of it       *)
(* (replacer.cpp).  A replacer is a record:                                *)
(*   lru       LRU_chain: frames with fewer than K visits                  *)
(*   main      LRUK_chain: an access per node, at most K for a frame       *)
(*   visits    visit_count, 0 when the frame is not active; all numbers    *)
(*             above K are one                                             *)
(*   evitable  the frames whose evitable bit is set                        *)
(*   count     current_evitable_count_                                     *)
(***************************************************************************)
EXTENDS Integers, SequencesExt

CONSTANTS
  Frames,    \* 0 .. max_frame_count - 1
  K,         \* k_value
  NoFrame    \* TryEvictLeastImportant returns false

ASSUME FramesAssumption == IsFiniteSet(Frames)
ASSUME KAssumption == K \in Nat /\ K >= 2
ASSUME NoFrameAssumption == NoFrame \notin Frames

EmptyReplacer ==
  [lru |-> <<>>, main |-> <<>>, visits |-> [f \in Frames |-> 0],
   evitable |-> {}, count |-> 0]

Active(r, f) == r.visits[f] # 0

AddRecordToMainChain(r, f, now) == Append(r.main, [frame |-> f, time |-> now])

RemoveFirstNode(main, f) == RemoveFirstMatch(main, LAMBDA x : x.frame = f)

FirstRecord(r, f, now) ==
  [r EXCEPT !.visits[f] = 1,
            !.evitable = @ \ {f},
            !.main = AddRecordToMainChain(r, f, now),
            !.lru = Append(@, f)]

\* visit_count after one more visit.
NextVisits(r, f) == IF r.visits[f] > K THEN r.visits[f] ELSE r.visits[f] + 1

\* A bug: a frame of K visits keeps its place in the LRU chain.
NextRecordStaysInLRU(r, f, now) ==
  LET n == NextVisits(r, f)
      main == AddRecordToMainChain(r, f, now)
  IN  [r EXCEPT !.visits[f] = n,
                !.lru = IF n <= K THEN Append(RemoveFirst(@, f), f) ELSE RemoveFirst(@, f),
                !.main = IF n > K THEN RemoveFirstNode(main, f) ELSE main]

NextRecord(r, f, now) ==
  LET n == NextVisits(r, f)
      main == AddRecordToMainChain(r, f, now)
  IN  [r EXCEPT !.visits[f] = n,
                !.lru = IF n < K THEN Append(RemoveFirst(@, f), f) ELSE RemoveFirst(@, f),
                !.main = IF n > K THEN RemoveFirstNode(main, f) ELSE main]

RecordAccess(r, f, now) ==
  IF Active(r, f) THEN NextRecord(r, f, now) ELSE FirstRecord(r, f, now)

\* A bug: the count follows every call.
SetEvictableAlwaysCounts(r, f, b) ==
  IF ~Active(r, f) THEN r
  ELSE [r EXCEPT !.evitable = IF b THEN @ \cup {f} ELSE @ \ {f},
                 !.count = IF b THEN @ + 1 ELSE @ - 1]

SetEvictable(r, f, b) ==
  IF ~Active(r, f) \/ (f \in r.evitable) = b THEN r
  ELSE [r EXCEPT !.evitable = IF b THEN @ \cup {f} ELSE @ \ {f},
                 !.count = IF b THEN @ + 1 ELSE @ - 1]

CanEvict(r, f) == Active(r, f) /\ f \in r.evitable

\* The chain of the other frames' nodes, in the order they had.
RemoveWholeFrame(main, f) ==
  LET others == {i \in DOMAIN main : main[i].frame # f}
      Place(n) == CHOOSE i \in others : Cardinality({k \in others : k <= i}) = n
  IN  [n \in 1 .. Cardinality(others) |-> main[Place(n)]]

\* TryEvictExactFrame when it succeeds: the evitable bit stays as it is.
EvictFrame(r, f) ==
  [r EXCEPT !.lru = RemoveFirst(@, f),
            !.main = RemoveWholeFrame(@, f),
            !.visits[f] = 0,
            !.count = @ - 1]

TryEvictExactFrame(r, f) == IF CanEvict(r, f) THEN EvictFrame(r, f) ELSE r

\* A bug: the main chain is looked through first.
CandidatesMainFirst(r) == [i \in DOMAIN r.main |-> r.main[i].frame] \o r.lru

\* The order in which TryEvictLeastImportant looks at the frames.
Candidates(r) == r.lru \o [i \in DOMAIN r.main |-> r.main[i].frame]

Victim(r) ==
  LET i == SelectInSeq(Candidates(r), LAMBDA f : f \in r.evitable)
  IN  IF r.count = 0 \/ i = 0 THEN NoFrame ELSE Candidates(r)[i]
=============================================================================
