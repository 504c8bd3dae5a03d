------------------------------ MODULE SnapShot ------------------------------
(***************************************************************************)
(* Snapshots of a data file (dataguard: snapshot.cpp, snapshot.h).  The    *)
(* meta file holds HEAD and a line per snapshot with its ancestor; INIT    *)
(* is the empty file.  The frontier is a copy of the file at HEAD, and a   *)
(* snapshot is a diff from its ancestor that applies both ways.            *)
(*                                                                         *)
(* One data file: every operation treats all files alike, one by one.      *)
(* The names are as long as "INIT", so that all lines of the meta file are *)
(* equally long; a failing operation changes nothing and is left out.      *)
(***************************************************************************)
EXTENDS Integers, SequencesExt, FiniteSetsExt

CONSTANTS
  IDs,          \* names of snapshots
  Initial,      \* INIT
  Contents,     \* what the data file may hold: sequences of bytes
  MaxLines      \* bound of the model: lines of the meta file

ASSUME InitAssumption == Initial \notin IDs
ASSUME ContentsAssumption == Contents \subseteq Seq(Nat) \ {<<>>}

VARIABLES
  file,         \* the data file
  frontier,
  head,         \* the first line of the meta file
  lines,        \* its other lines, <<snapshot, ancestor>>
  diff,         \* the diff files, by snapshot
  taken,        \* what each snapshot was taken of: a history variable
  spoiled       \* whether a removal has used a diff that it had already rewritten,
                \* or missed one after rewriting others: a history variable

vars == <<file, frontier, head, lines, diff, taken, spoiled>>

Map(f, x, y) == [z \in DOMAIN f \cup {x} |-> IF z = x THEN y ELSE f[z]]

-----------------------------------------------------------------------------
(* Diffs: hunks of bytes that differ, and the tail of the longer file *)

EOFByte == 255

\* What comes of a copy loop whose unsigned bound has wrapped around below zero:
\* nothing, it does not end.
Endless == <<-1>>

Shared(old, new) == Min({Len(old), Len(new)})

\* The maximal stretches in which the shared parts differ: first and last byte.
Stretches(old, new) ==
  LET differ == {i \in 1 .. Shared(old, new) : old[i] # new[i]}
  IN  {s \in differ \X differ :
         s[1] <= s[2] /\ s[1] .. s[2] \subseteq differ /\ s[1] - 1 \notin differ /\ s[2] + 1 \notin differ}

Hunk(old, new, from, to) ==
  [pos |-> from - 1, old |-> SubSeq(old, from, to), new |-> SubSeq(new, from, to)]

\* tail: 1 for bytes that only the old file has, 2 for the new one, else 3.
GenerateDiff(old, new) ==
  [hunks |-> {Hunk(old, new, s[1], s[2]) : s \in Stretches(old, new)},
   tail |-> IF Len(old) > Len(new) THEN 1 ELSE IF Len(new) > Len(old) THEN 2 ELSE 3,
   bytes |-> SubSeq(IF Len(old) > Len(new) THEN old ELSE new,
                    Shared(old, new) + 1, Max({Len(old), Len(new)}))]

\* Byte i of a file, read beyond its end if need be.
Byte(f, i) == IF i <= Len(f) THEN f[i] ELSE EOFByte

EndOf(h) == h.pos + Len(h.old)

\* Bytes 1 .. n of the patched file: those of the hunks, copies in between.
Patched(old, hunks, isReverse, n) ==
  [i \in 1 .. n |->
     IF \E h \in hunks : i \in h.pos + 1 .. EndOf(h)
     THEN LET h == CHOOSE h \in hunks : i \in h.pos + 1 .. EndOf(h)
          IN  (IF isReverse THEN h.old ELSE h.new)[i - h.pos]
     ELSE Byte(old, i)]

ApplyPatch(old, d, isReverse) ==
  LET cut == d.tail = (IF isReverse THEN 2 ELSE 1)
      keep == IF cut THEN Len(old) - Len(d.bytes) ELSE Len(old)
      n == Max({keep} \cup {EndOf(h) : h \in d.hunks})
  IN  IF old = Endless \/ keep < 0 THEN Endless
      ELSE Patched(old, d.hunks, isReverse, n) \o IF cut THEN <<>> ELSE d.bytes

-----------------------------------------------------------------------------
(* The tree of snapshots *)

HasAnc(ls, id) == \E i \in DOMAIN ls : ls[i][1] = id

\* The last line of a snapshot counts.
AncOf(ls, id) == ls[Max({i \in DOMAIN ls : ls[i][1] = id})][2]

\* The lines of ls that are in the set wanted, in their order.
Kept(ls, wanted) ==
  LET kept[n \in 0 .. Len(ls)] ==
        IF n = 0 THEN <<>>
        ELSE IF ls[n] \in wanted THEN Append(kept[n - 1], ls[n]) ELSE kept[n - 1]
  IN  kept[Len(ls)]

SonsOf(ls, id) ==
  LET mine == Kept(ls, {l \in Range(ls) : l[2] = id}) IN [i \in DOMAIN mine |-> mine[i][1]]

Known(ls, id) == HasAnc(ls, id) \/ SonsOf(ls, id) # <<>>

\* A step from a snapshot to a neighbour applies the diff of the son.
Steps(ls) ==
  {[from |-> AncOf(ls, s), to |-> s, diff |-> s, rev |-> FALSE] : s \in {l[1] : l \in Range(ls)}}
  \cup {[from |-> l[1], to |-> l[2], diff |-> l[1], rev |-> TRUE] : l \in Range(ls)}

\* The search starts at dest, and goes one step further from it in each round,
\* until it meets HEAD: the ways to dest from the snapshots met.  (The order of
\* the queue within a round cannot be told: in a tree there is one way.)
WaysTo(ls, dest) ==
  LET ways[n \in 0 .. Len(ls)] ==
        IF n = 0 THEN [v \in {dest} |-> <<>>]
        ELSE LET met == ways[n - 1]
                 ahead == {w \in Steps(ls) : w.to \in DOMAIN met /\ w.from \notin DOMAIN met}
             IN  IF head \in DOMAIN met THEN met
                 ELSE [v \in DOMAIN met \cup {w.from : w \in ahead} |->
                         IF v \in DOMAIN met THEN met[v]
                         ELSE LET w == CHOOSE w \in ahead : w.from = v IN <<w>> \o met[w.to]]
  IN  ways[Len(ls)]

\* From HEAD to dest.
FindWay(dest) == WaysTo(lines, dest)[head]

DiffsOf(way) == {way[i].diff : i \in DOMAIN way}

HasDiffs(way, diffs) == DiffsOf(way) \subseteq DOMAIN diffs

\* The frontier, changed along a way.
ApplyLongChange(way, diffs) ==
  LET after[n \in 0 .. Len(way)] ==
        IF n = 0 THEN frontier ELSE ApplyPatch(after[n - 1], diffs[way[n].diff], way[n].rev)
  IN  after[Len(way)]

-----------------------------------------------------------------------------

Init ==
  /\ file \in Contents
  /\ frontier = <<>>
  /\ head = Initial
  /\ lines = <<>>
  /\ diff = [id \in {} |-> Initial]
  /\ taken = [id \in {} |-> <<>>]
  /\ spoiled = FALSE

\* Commands change the data; the drivers are flushed before a snapshot.
Edit ==
  /\ file' \in Contents \ {file}
  /\ UNCHANGED <<frontier, head, lines, diff, taken, spoiled>>

\* A bug: the frontier stays behind.
CreateKeepsFrontier(id) ==
  /\ ~spoiled /\ ~Known(lines, id)
  /\ Len(lines) < MaxLines
  /\ head' = id
  /\ lines' = Append(lines, <<id, head>>)
  /\ diff' = Map(diff, id, GenerateDiff(frontier, file))
  /\ taken' = Map(taken, id, file)
  /\ UNCHANGED <<file, frontier, spoiled>>

CreateSnapShot(id) ==
  /\ ~spoiled /\ ~Known(lines, id)
  /\ Len(lines) < MaxLines
  /\ head' = id
  /\ lines' = Append(lines, <<id, head>>)
  /\ diff' = Map(diff, id, GenerateDiff(frontier, file))
  /\ frontier' = file
  /\ taken' = Map(taken, id, file)
  /\ UNCHANGED <<file, spoiled>>

\* A file that is gone is made anew when the data is opened again.
CheckOutFrontier ==
  /\ file' \in (IF head = Initial THEN Contents ELSE {frontier})
  /\ UNCHANGED <<frontier, head, lines, diff, taken, spoiled>>

SwitchToSnapShot(id) ==
  LET way == FindWay(id)
      change == ApplyLongChange(way, diff)
  IN  /\ ~spoiled /\ Known(lines, id)
      /\ HasDiffs(way, diff)
      /\ change # Endless
      /\ frontier' = change
      /\ head' = id
      /\ UNCHANGED <<file, lines, diff, taken, spoiled>>

Removable(id) == ~spoiled /\ id # head /\ Known(lines, id)

\* The meta file is written over and not cut: where it has become shorter its
\* old end stays.
RemoveLeaf(id) ==
  LET rest == Kept(lines, {l \in Range(lines) : l[1] # id})
  IN  /\ Removable(id)
      /\ SonsOf(lines, id) = <<>>
      /\ diff' = [s \in DOMAIN diff \ {id} |-> diff[s]]
      /\ lines' = rest \o SubSeq(lines, Len(rest) + 1, Len(lines))
      /\ taken' = [s \in DOMAIN taken \ {id} |-> taken[s]]
      /\ UNCHANGED <<file, frontier, head, spoiled>>

\* A bug: the sons keep their diffs from the removed snapshot.
RebaseNothing(way, id, diffs, son) == diffs

\* The diff of a son is made anew, from the ancestor of the removed snapshot.
Rebase(way, id, diffs, son) ==
  LET content == ApplyLongChange(way, diffs)
  IN  [diffs EXCEPT ![son] = GenerateDiff(ApplyPatch(content, diffs[id], TRUE),
                                          ApplyPatch(content, diffs[son], FALSE))]

\* The diffs after each round of the loop.
Rebased(way, id, sons) ==
  LET after[n \in 0 .. Len(sons)] ==
        IF n = 0 THEN diff
        ELSE IF sons[n] \in DOMAIN diff THEN Rebase(way, id, after[n - 1], sons[n])
        ELSE after[n - 1]
  IN  after

\* A round that throws, for want of the son's diff, or that does not end.
Fails(way, id, diffs, son) ==
  \/ son \notin DOMAIN diffs
  \/ Endless \in {ApplyPatch(ApplyLongChange(way, diffs), diffs[id], TRUE),
                  ApplyPatch(ApplyLongChange(way, diffs), diffs[son], FALSE)}

FailingRounds(way, id, sons) ==
  LET after == Rebased(way, id, sons)
  IN  {n \in DOMAIN sons : Fails(way, id, after[n - 1], sons[n])}

\* A round finds that an earlier one has rewritten what it needs, a diff on the
\* way or its own, or has no diff to rewrite after others are rewritten.
Spoils(way, sons) ==
  \E m, n \in DOMAIN sons :
    /\ m < n
    /\ sons[m] \in DiffsOf(way) \cup {sons[n]} \/ sons[n] \notin DOMAIN diff

\* All that a removal with sons needs for its first round, or else it changes
\* nothing.
CanRebase(way, id, sons) ==
  HasDiffs(way, diff) /\ sons # <<>> /\ {id, sons[1]} \subseteq DOMAIN diff

RemoveInner(id) ==
  LET way == FindWay(id)
      sons == SonsOf(lines, id)
      rest == Kept(lines, {l \in Range(lines) : l[1] # id /\ l[2] # id})
  IN  /\ Removable(id) /\ HasAnc(lines, id)
      /\ CanRebase(way, id, sons)
      /\ FailingRounds(way, id, sons) = {}
      /\ diff' = Rebased(way, id, sons)[Len(sons)]
      /\ lines' = rest \o [i \in DOMAIN sons |-> <<sons[i], AncOf(lines, id)>>]
      /\ taken' = [s \in DOMAIN taken \ {id} |-> taken[s]]
      /\ spoiled' = Spoils(way, sons)
      /\ UNCHANGED <<file, frontier, head>>

\* The loop is left by an exception, or the process is killed in it: some diffs
\* are rewritten and the meta file is not.
RemoveInnerFails(id) ==
  LET way == FindWay(id)
      sons == SonsOf(lines, id)
      failing == FailingRounds(way, id, sons)
  IN  /\ Removable(id) /\ HasAnc(lines, id)
      /\ CanRebase(way, id, sons)
      /\ failing # {}
      /\ diff' = Rebased(way, id, sons)[Min(failing) - 1]
      /\ spoiled' = Spoils(way, sons)
      /\ UNCHANGED <<file, frontier, head, lines, taken>>

Next ==
  \/ Edit
  \/ CheckOutFrontier
  \/ SwitchToSnapShot(Initial)
  \/ \E id \in IDs : CreateSnapShot(id) \/ SwitchToSnapShot(id) \/ RemoveLeaf(id)
  \/ \E id \in IDs : RemoveInner(id) \/ RemoveInnerFails(id)

Spec == Init /\ [][Next]_vars

-----------------------------------------------------------------------------
(* Properties *)

\* What the frontier would be after a switch.
RestoredAs(id) == ApplyLongChange(FindWay(id), diff)

CanRestore(id) ==
  /\ Known(lines, id)
  /\ HasDiffs(FindWay(id), diff)
  /\ RestoredAs(id) = taken[id]

\* Any snapshot that was taken and not removed can be restored, by however many
\* diffs, forwards and backwards, it is away from HEAD, whatever snapshots
\* were taken, restored and removed in between, as long as no removal has
\* spoiled the diffs.
SnapshotsRestore == ~spoiled => \A id \in DOMAIN taken : CanRestore(id)

\* The frontier is what the snapshot at HEAD was taken of, so that a check-out
\* restores it and the next snapshot's diff starts from it.
FrontierIsHead ==
  ~spoiled => frontier = IF head = Initial THEN <<>> ELSE taken[head]

\* A removal that does not spoil diffs gets through its loop: no diff is missing
\* and no copy loop runs away on a length that has wrapped around.
RemovalsGetThrough ==
  ~spoiled => \A id \in IDs :
    LET way == FindWay(id)
        sons == SonsOf(lines, id)
    IN  /\ Removable(id) /\ HasAnc(lines, id)
        /\ CanRebase(way, id, sons)
        /\ ~Spoils(way, sons)
        => FailingRounds(way, id, sons) = {}

-----------------------------------------------------------------------------
(* What bonus.md promises of branches *)

\* Every line is there once and of a snapshot that was not removed.
LinesSound == IsInjective(lines) /\ {l[1] : l \in Range(lines)} \subseteq DOMAIN taken

\* Every snapshot that was not removed can be restored, whatever branches there
\* are and wherever HEAD is, where the meta file is sound.
BranchesRestore == LinesSound => \A id \in DOMAIN taken : CanRestore(id)
=============================================================================
