----------------------------- MODULE LRUKPolicy -----------------------------
(***************************************************************************)
(* What LRU-K replacement promises: the victim is the evictable frame whose *)
(* K-th most recent access lies furthest back.  Frames with fewer than K    *)
(* accesses go first, the least recently used of them before the others.    *)
(***************************************************************************)
EXTENDS Integers, FiniteSets, FiniteSetsExt

CONSTANTS
  Frames,
  K,
  NoFrame    \* the answer when there is nothing to evict

VARIABLES
  clock,      \* accesses so far
  accesses,   \* frame -> the times of its last K accesses; none when untracked
  evictable,  \* tracked frames that may be given up
  answer      \* the last victim

vars == <<clock, accesses, evictable, answer>>

Init ==
  /\ clock = 0
  /\ accesses = [f \in Frames |-> {}]
  /\ evictable = {}
  /\ answer = NoFrame

LastK(S) == IF Cardinality(S) > K THEN S \ {Min(S)} ELSE S

Access(f) ==
  /\ clock' = clock + 1
  /\ accesses' = [accesses EXCEPT ![f] = LastK(@ \cup {clock'})]
  /\ UNCHANGED <<evictable, answer>>

Pin(f) ==
  /\ evictable' = evictable \ {f}
  /\ UNCHANGED <<clock, accesses, answer>>

Unpin(f) ==
  /\ accesses[f] # {}
  /\ evictable' = evictable \cup {f}
  /\ UNCHANGED <<clock, accesses, answer>>

Forget(f) ==
  /\ f \in evictable
  /\ evictable' = evictable \ {f}
  /\ accesses' = [accesses EXCEPT ![f] = {}]
  /\ UNCHANGED clock

Drop(f) == Forget(f) /\ answer' = NoFrame

Seldom(f) == Cardinality(accesses[f]) < K

\* f is given up rather than g.
GoesBefore(f, g) ==
  \/ Seldom(f) /\ ~Seldom(g)
  \/ Seldom(f) /\ Seldom(g) /\ Max(accesses[f]) <= Max(accesses[g])
  \/ ~Seldom(f) /\ ~Seldom(g) /\ Min(accesses[f]) <= Min(accesses[g])

Evict(f) ==
  /\ Forget(f)
  /\ \A g \in evictable : GoesBefore(f, g)
  /\ answer' = f

EvictNothing ==
  /\ evictable = {}
  /\ answer' = NoFrame
  /\ UNCHANGED <<clock, accesses, evictable>>

Next ==
  \/ \E f \in Frames : Access(f) \/ Pin(f) \/ Unpin(f) \/ Drop(f) \/ Evict(f)
  \/ EvictNothing

Spec == Init /\ [][Next]_vars
=============================================================================
