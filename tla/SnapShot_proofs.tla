-------------------------- MODULE SnapShot_proofs --------------------------
(***************************************************************************)
(* Proofs about SnapShot: a diff applies both ways, and every snapshot that *)
(* was taken and not removed can be restored.                              *)
(***************************************************************************)
EXTENDS SnapShot, FiniteSetTheorems, SequenceTheorems, WellFoundedInduction, TLAPS

-----------------------------------------------------------------------------
(* Numbers *)

\* A set of natural numbers that is not empty has a least one.
LEMMA LeastOf ==
  ASSUME NEW I \in SUBSET Nat, I # {}
  PROVE  \E m \in I : \A i \in I : m <= i
<1>1. PICK x \in I : \A y \in I : ~ (<<y, x>> \in OpToRel(<, Nat))
  BY NatLessThanWellFounded, WFMin
<1>2. ASSUME NEW y \in I PROVE x <= y
  <2>1. ~ (y < x)
    BY <1>1 DEF OpToRel
  <2>. QED
    BY <2>1
<1>. QED
  BY <1>2

\* Induction: a set of numbers that has 0 and the successor of each of its
\* members below N has all of them up to N.
LEMMA UpTo ==
  ASSUME NEW N \in Nat, NEW S, 0 \in S, \A n \in 0 .. N - 1 : n \in S => n + 1 \in S
  PROVE  \A n \in 0 .. N : n \in S
<1>. DEFINE Missing == {n \in 0 .. N : n \notin S}
<1>1. SUFFICES ASSUME Missing # {} PROVE FALSE
  OBVIOUS
<1>2. PICK m \in Missing : \A n \in Missing : m <= n
  <2>1. Missing \in SUBSET Nat
    OBVIOUS
  <2>. QED
    BY <1>1, <2>1, LeastOf
<1>3. m # 0 /\ m \in 0 .. N
  OBVIOUS
<1>4. m - 1 \in 0 .. N - 1 /\ m - 1 \notin Missing
  BY <1>2, <1>3
<1>5. m - 1 \in S
  BY <1>4
<1>6. (m - 1) + 1 \in S
  BY <1>4, <1>5
<1>. QED
  BY <1>3, <1>6

\* A set of natural numbers with a bound has a greatest one.
LEMMA MaxIs ==
  ASSUME NEW I \in SUBSET Nat, I # {}, NEW b \in Nat, \A i \in I : i <= b
  PROVE  /\ Max(I) \in I
         /\ \A i \in I : Max(I) >= i
<1>. DEFINE Bounds == {n \in Nat : \A i \in I : i <= n}
<1>1. Bounds \in SUBSET Nat /\ b \in Bounds
  OBVIOUS
<1>2. PICK m \in Bounds : \A n \in Bounds : m <= n
  BY <1>1, LeastOf
<1>3. m \in I
  <2>1. SUFFICES ASSUME m \notin I PROVE FALSE
    OBVIOUS
  <2>2. PICK i \in I : TRUE
    OBVIOUS
  <2>3. m \in Nat /\ m # 0
    BY <2>1, <2>2
  <2>4. m - 1 \in Bounds
    BY <2>1, <2>3
  <2>. QED
    BY <1>2, <2>3, <2>4
<1>. QED
  BY <1>3 DEF Max

-----------------------------------------------------------------------------
(* Diffs *)

Bytes == Seq(Nat)

LEMMA NotEndless == \A f \in Bytes : f # Endless
<1>1. ASSUME Endless \in Bytes PROVE FALSE
  <2>1. PICK f \in Seq(Nat) : f = <<-1>>
    BY <1>1 DEF Bytes, Endless
  <2>2. Len(f) = 1 /\ f[1] = -1
    BY <2>1
  <2>3. f[1] \in Nat
    BY <2>2
  <2>. QED
    BY <2>2, <2>3
<1>. QED
  BY <1>1

LEMMA SharedIs ==
  ASSUME NEW old \in Bytes, NEW new \in Bytes
  PROVE  /\ Shared(old, new) \in Nat
         /\ Shared(old, new) = IF Len(old) <= Len(new) THEN Len(old) ELSE Len(new)
<1>1. Len(old) \in Nat /\ Len(new) \in Nat
  BY DEF Bytes
<1>2. ASSUME NEW a \in Nat, NEW b \in Nat PROVE Min({a, b}) = IF a <= b THEN a ELSE b
  <2>1. CASE a <= b
    BY <2>1 DEF Min
  <2>2. CASE ~ (a <= b)
    BY <2>2 DEF Min
  <2>. QED
    BY <2>1, <2>2
<1>. QED
  BY <1>1, <1>2 DEF Shared

\* Every byte that differs is in a stretch, and a stretch has such bytes only.
LEMMA StretchesCover ==
  ASSUME NEW old \in Bytes, NEW new \in Bytes,
         NEW i \in 1 .. Shared(old, new), old[i] # new[i]
  PROVE  \E s \in Stretches(old, new) : i \in s[1] .. s[2]
<1>. DEFINE n == Shared(old, new)
            differ == {k \in 1 .. n : old[k] # new[k]}
            before == {a \in 1 .. i : a .. i \subseteq differ}
            behind == {b \in i .. n : i .. b \subseteq differ}
<1>1. n \in Nat /\ i \in differ
  BY SharedIs
<1>. HIDE DEF differ, n
<1>2. differ \subseteq 1 .. n
  BY DEF differ
<1>3. PICK a \in before : \A x \in before : a <= x
  <2>1. i \in before
    BY <1>1, <1>2
  <2>2. before \in SUBSET Nat
    BY <1>1, <1>2
  <2>. QED
    BY <2>1, <2>2, LeastOf
<1>4. PICK b \in behind : \A x \in behind : b >= x
  <2>1. i \in behind
    BY <1>1, <1>2
  <2>2. behind \in SUBSET Nat /\ \A x \in behind : x <= n
    BY <1>1, <1>2
  <2>. QED
    BY <1>1, <2>1, <2>2, MaxIs
<1>5. a \in 1 .. i /\ b \in i .. n /\ a .. b \subseteq differ
  BY <1>1, <1>2, <1>3, <1>4
<1>6. a - 1 \notin differ
  <2>1. SUFFICES ASSUME a - 1 \in differ PROVE FALSE
    OBVIOUS
  <2>2. a - 1 \in before
    BY <1>1, <1>2, <1>5, <2>1
  <2>. QED
    BY <1>3, <1>5, <2>2
<1>7. b + 1 \notin differ
  <2>1. SUFFICES ASSUME b + 1 \in differ PROVE FALSE
    OBVIOUS
  <2>2. b + 1 \in behind
    BY <1>1, <1>2, <1>5, <2>1
  <2>. QED
    BY <1>4, <1>5, <2>2
<1>8. a \in differ /\ b \in differ /\ a <= b
  BY <1>1, <1>2, <1>5
<1>9. <<a, b>> \in Stretches(old, new)
  BY <1>5, <1>6, <1>7, <1>8 DEF Stretches, differ, n
<1>. QED
  BY <1>1, <1>2, <1>5, <1>9

LEMMA HunkIs ==
  ASSUME NEW old \in Bytes, NEW new \in Bytes, NEW s \in Stretches(old, new),
         NEW h, h = Hunk(old, new, s[1], s[2])
  PROVE  /\ s[1] \in 1 .. Shared(old, new) /\ s[2] \in s[1] .. Shared(old, new)
         /\ EndOf(h) = s[2] /\ h.pos = s[1] - 1
         /\ \A i \in s[1] .. s[2] :
              h.old[i - h.pos] = old[i] /\ h.new[i - h.pos] = new[i]
<1>1. s[1] \in 1 .. Shared(old, new) /\ s[2] \in s[1] .. Shared(old, new)
  BY SharedIs DEF Stretches
<1>2. s[2] <= Len(old) /\ s[2] <= Len(new)
  BY <1>1, SharedIs DEF Bytes
<1>3. PICK a \in Nat, b \in Nat : a = s[1] /\ b = s[2]
  BY <1>1, SharedIs
<1>4. a \in 1 .. Len(old) /\ b \in a .. Len(old) /\ a \in 1 .. Len(new) /\ b \in a .. Len(new)
  <2>1. Len(old) \in Nat /\ Len(new) \in Nat /\ Shared(old, new) \in Nat
    BY SharedIs DEF Bytes
  <2>. QED
    BY <1>1, <1>2, <1>3, <2>1
<1>5. /\ Len(SubSeq(old, a, b)) = b - a + 1
      /\ \A k \in 1 .. b - a + 1 : SubSeq(old, a, b)[k] = old[a + k - 1]
      /\ \A k \in 1 .. b - a + 1 : SubSeq(new, a, b)[k] = new[a + k - 1]
  BY <1>4 DEF Bytes
<1>6. h.pos = a - 1 /\ h.old = SubSeq(old, a, b) /\ h.new = SubSeq(new, a, b)
  BY <1>3 DEF Hunk
<1>7. EndOf(h) = b
  BY <1>5, <1>6 DEF EndOf
<1>8. ASSUME NEW i \in a .. b
      PROVE  h.old[i - h.pos] = old[i] /\ h.new[i - h.pos] = new[i]
  <2>1. PICK k \in 1 .. b - a + 1 : k = i - h.pos
    BY <1>6
  <2>2. a + k - 1 = i
    BY <1>6, <2>1
  <2>. QED
    BY <1>5, <1>6, <2>1, <2>2
<1>. QED
  BY <1>1, <1>3, <1>6, <1>7, <1>8

\* One side of the pair of files, by the direction in which a diff applies.
From(old, new, isReverse) == IF isReverse THEN new ELSE old
To(old, new, isReverse) == IF isReverse THEN old ELSE new

\* The hunks turn the shared part of one file into that of the other.
LEMMA PatchedIs ==
  ASSUME NEW old \in Bytes, NEW new \in Bytes, NEW isReverse \in BOOLEAN,
         NEW i \in 1 .. Shared(old, new),
         NEW hunks, hunks = {Hunk(old, new, s[1], s[2]) : s \in Stretches(old, new)}
  PROVE  Patched(From(old, new, isReverse), hunks, isReverse, Shared(old, new))[i]
           = To(old, new, isReverse)[i]
<1>. DEFINE src == From(old, new, isReverse)
            in(h) == i \in h.pos + 1 .. EndOf(h)
<1>1. i \in 1 .. Len(src) /\ Len(src) \in Nat
  BY SharedIs DEF Bytes, From
<1>2. CASE \E h \in hunks : in(h)
  <2>. DEFINE h == CHOOSE h \in hunks : in(h)
  <2>1. h \in hunks /\ in(h)
    BY <1>2
  <2>. HIDE DEF h
  <2>2. PICK s \in Stretches(old, new) : h = Hunk(old, new, s[1], s[2])
    BY <2>1
  <2>3. /\ s[1] \in 1 .. Shared(old, new) /\ s[2] \in s[1] .. Shared(old, new)
        /\ EndOf(h) = s[2] /\ h.pos = s[1] - 1
        /\ \A k \in s[1] .. s[2] : h.old[k - h.pos] = old[k] /\ h.new[k - h.pos] = new[k]
    BY <2>2, HunkIs
  <2>4. i \in s[1] .. s[2]
    BY <2>1, <2>3
  <2>5. h.old[i - h.pos] = old[i] /\ h.new[i - h.pos] = new[i]
    BY <2>3, <2>4
  <2>6. Patched(src, hunks, isReverse, Shared(old, new))[i]
          = (IF isReverse THEN h.old ELSE h.new)[i - h.pos]
    BY <1>2 DEF Patched, h
  <2>. QED
    BY <2>5, <2>6 DEF To
<1>3. CASE ~ \E h \in hunks : in(h)
  <2>1. old[i] = new[i]
    <3>1. SUFFICES ASSUME old[i] # new[i] PROVE FALSE
      OBVIOUS
    <3>2. PICK s \in Stretches(old, new) : i \in s[1] .. s[2]
      BY <3>1, StretchesCover
    <3>3. PICK h : h = Hunk(old, new, s[1], s[2])
      OBVIOUS
    <3>4. h \in hunks
      BY <3>3
    <3>5. EndOf(h) = s[2] /\ h.pos = s[1] - 1 /\ s[1] \in 1 .. Shared(old, new)
      BY <3>3, HunkIs
    <3>. QED
      BY <1>3, <3>2, <3>4, <3>5, SharedIs
  <2>2. Patched(src, hunks, isReverse, Shared(old, new))[i] = Byte(src, i)
    BY <1>3 DEF Patched
  <2>3. Byte(src, i) = src[i]
    BY <1>1 DEF Byte
  <2>. QED
    BY <2>1, <2>2, <2>3 DEF From, To
<1>. QED
  BY <1>2, <1>3

\* A diff, applied to the file it was made from, makes the other one of it,
\* whatever the two files hold and whichever is longer.
THEOREM DiffApplies ==
  ASSUME NEW old \in Bytes, NEW new \in Bytes, NEW isReverse \in BOOLEAN
  PROVE  ApplyPatch(From(old, new, isReverse), GenerateDiff(old, new), isReverse)
           = To(old, new, isReverse)
<1>. DEFINE m == Shared(old, new)
            src == From(old, new, isReverse)
            dst == To(old, new, isReverse)
            d == GenerateDiff(old, new)
            cut == d.tail = (IF isReverse THEN 2 ELSE 1)
            keep == IF cut THEN Len(src) - Len(d.bytes) ELSE Len(src)
            n == Max({keep} \cup {EndOf(h) : h \in d.hunks})
            patched == Patched(src, d.hunks, isReverse, n)
<1>1. /\ Len(old) \in Nat /\ Len(new) \in Nat /\ m \in Nat
      /\ m = IF Len(old) <= Len(new) THEN Len(old) ELSE Len(new)
      /\ src \in Bytes /\ dst \in Bytes
  BY SharedIs DEF Bytes, From, To
<1>2. d.hunks = {Hunk(old, new, s[1], s[2]) : s \in Stretches(old, new)}
  BY DEF GenerateDiff
<1>3. /\ d.tail = (IF Len(old) > Len(new) THEN 1 ELSE IF Len(new) > Len(old) THEN 2 ELSE 3)
      /\ cut <=> Len(src) > Len(dst)
  BY <1>1 DEF GenerateDiff, From, To
<1>4. /\ d.bytes \in Bytes
      /\ Len(d.bytes) = (IF Len(old) > Len(new) THEN Len(old) ELSE Len(new)) - m
      /\ \A k \in 1 .. Len(d.bytes) :
           d.bytes[k] = (IF Len(old) > Len(new) THEN old ELSE new)[m + k]
  <2>. DEFINE longer == IF Len(old) > Len(new) THEN old ELSE new
  <2>1. Max({Len(old), Len(new)}) = Len(longer)
    <3>1. {Len(old), Len(new)} \in SUBSET Nat /\ {Len(old), Len(new)} # {}
      BY <1>1
    <3>2. Len(longer) \in Nat /\ \A i \in {Len(old), Len(new)} : i <= Len(longer)
      BY <1>1
    <3>3. /\ Max({Len(old), Len(new)}) \in {Len(old), Len(new)}
          /\ \A i \in {Len(old), Len(new)} : Max({Len(old), Len(new)}) >= i
      BY <3>1, <3>2, MaxIs
    <3>. QED
      BY <1>1, <3>3
  <2>2. d.bytes = SubSeq(longer, m + 1, Len(longer))
    BY <2>1 DEF GenerateDiff
  <2>3. longer \in Bytes /\ m + 1 \in 1 .. Len(longer) + 1
    BY <1>1
  <2>. HIDE DEF longer, m, d
  <2>10. PICK c : c = d.bytes
    OBVIOUS
  <2>4. PICK a \in Nat : a = m + 1
    BY <1>1
  <2>5. /\ SubSeq(longer, a, Len(longer)) \in Bytes
        /\ Len(SubSeq(longer, a, Len(longer))) = Len(longer) - a + 1
        /\ \A k \in 1 .. Len(longer) - a + 1 : SubSeq(longer, a, Len(longer))[k] = longer[a + k - 1]
    BY <2>3, <2>4 DEF Bytes
  <2>6. \A k \in Nat : a + k - 1 = m + k
    BY <1>1, <2>4
  <2>7. Len(longer) = IF Len(old) > Len(new) THEN Len(old) ELSE Len(new)
    BY DEF longer
  <2>8. Len(longer) \in Nat /\ Len(c) = Len(longer) - a + 1
    BY <1>1, <2>2, <2>4, <2>5, <2>7, <2>10
  <2>11. Len(c) = Len(longer) - m
    BY <1>1, <2>4, <2>8
  <2>9. ASSUME NEW k \in 1 .. Len(c) PROVE c[k] = longer[m + k]
    <3>1. k \in 1 .. Len(longer) - a + 1 /\ k \in Nat
      BY <2>4, <2>8
    <3>2. c[k] = longer[a + k - 1]
      BY <2>2, <2>4, <2>5, <2>10, <3>1
    <3>. QED
      BY <2>6, <3>1, <3>2
  <2>. QED
    BY <2>2, <2>4, <2>5, <2>7, <2>9, <2>10, <2>11 DEF longer
<1>. HIDE DEF m, d
<1>12. m \in Nat
  BY <1>1
<1>5. keep = m
  <2>1. CASE cut
    <3>1. Len(d.bytes) = Len(src) - m
      BY <1>1, <1>3, <1>4, <2>1 DEF From, To
    <3>2. keep = Len(src) - Len(d.bytes) /\ Len(src) \in Nat
      BY <1>1, <2>1 DEF From
    <3>. QED
      BY <1>1, <3>1, <3>2
  <2>2. CASE ~ cut
    <3>1. Len(src) = m
      BY <1>1, <1>3, <2>2 DEF From, To
    <3>. QED
      BY <2>2, <3>1
  <2>. QED
    BY <2>1, <2>2
<1>6. n = m
  <2>. DEFINE ends == {keep} \cup {EndOf(h) : h \in d.hunks}
  <2>1. ASSUME NEW h \in d.hunks PROVE EndOf(h) \in Nat /\ EndOf(h) <= m
    <3>1. PICK s \in Stretches(old, new) : h = Hunk(old, new, s[1], s[2])
      BY <1>2
    <3>2. /\ s[1] \in 1 .. Shared(old, new) /\ s[2] \in s[1] .. Shared(old, new)
          /\ EndOf(h) = s[2]
      BY <3>1, HunkIs
    <3>. QED
      BY <1>1, <3>2 DEF m
  <2>2. /\ ends \in SUBSET Nat /\ ends # {} /\ m \in ends
        /\ \A i \in ends : i <= m
    BY <1>1, <1>5, <2>1
  <2>. HIDE DEF ends
  <2>3. Max(ends) \in ends /\ \A i \in ends : Max(ends) >= i
    BY <1>1, <2>2, MaxIs
  <2>4. Max(ends) = m
    <3>1. PICK x : x = Max(ends)
      OBVIOUS
    <3>2. x \in Nat /\ x <= m /\ x >= m
      BY <2>2, <2>3, <3>1
    <3>3. x = m
      BY ONLY <3>2, <1>12
    <3>. QED
      BY <3>1, <3>3
  <2>. QED
    BY <2>4 DEF ends
<1>7. /\ patched \in Bytes /\ Len(patched) = m
      /\ \A i \in 1 .. m : patched[i] = dst[i]
  <2>1. patched = Patched(src, d.hunks, isReverse, m)
    BY <1>6
  <2>2. ASSUME NEW i \in 1 .. m PROVE Patched(src, d.hunks, isReverse, m)[i] = dst[i]
    BY <1>2, PatchedIs DEF m
  <2>3. ASSUME NEW i \in 1 .. m PROVE dst[i] \in Nat
    BY <1>1 DEF Bytes, To
  <2>4. Patched(src, d.hunks, isReverse, m) = [i \in 1 .. m |-> Patched(src, d.hunks, isReverse, m)[i]]
    BY DEF Patched
  <2>5. PICK p : p = Patched(src, d.hunks, isReverse, m)
    OBVIOUS
  <2>6. p \in [1 .. m -> Nat] /\ \A i \in 1 .. m : p[i] = dst[i]
    BY <2>2, <2>3, <2>4, <2>5
  <2>7. p \in Bytes /\ Len(p) = m
    BY ONLY <2>6, <1>12 DEF Bytes
  <2>. QED
    BY <2>1, <2>5, <2>6, <2>7
<1>8. ApplyPatch(src, d, isReverse) = patched \o IF cut THEN <<>> ELSE d.bytes
  <2>1. ~ (keep < 0)
    BY ONLY <1>5, <1>12
  <2>2. src # Endless
    BY <1>1, NotEndless
  <2>. HIDE DEF keep
  <2>. QED
    BY <2>1, <2>2 DEF ApplyPatch, keep
<1>. HIDE DEF patched, src, dst
<1>9. PICK p : p = patched
  OBVIOUS
<1>10. CASE cut
  <2>1. Len(dst) = m
    BY <1>1, <1>3, <1>10 DEF src, dst, From, To
  <2>2. p \o <<>> = p
    BY <1>7, <1>9 DEF Bytes
  <2>3. p = dst
    BY <1>1, <1>7, <1>9, <2>1, SeqEqual DEF Bytes
  <2>. QED
    BY <1>8, <1>9, <1>10, <2>2, <2>3 DEF src, dst, d
<1>11. CASE ~ cut
  <2>1. /\ Len(dst) = m + Len(d.bytes)
        /\ \A k \in 1 .. Len(d.bytes) : d.bytes[k] = dst[m + k]
    BY <1>1, <1>3, <1>4, <1>11 DEF src, dst, From, To
  <2>2. PICK b \in Bytes : b = d.bytes
    BY <1>4
  <2>3. /\ p \o b \in Bytes /\ Len(p \o b) = m + Len(b)
        /\ \A i \in 1 .. m + Len(b) : (p \o b)[i] = IF i <= m THEN p[i] ELSE b[i - m]
    BY <1>7, <1>9, ConcatProperties DEF Bytes
  <2>4. ASSUME NEW i \in 1 .. m + Len(b) PROVE (p \o b)[i] = dst[i]
    <3>1. CASE i <= m
      BY <1>1, <1>7, <1>9, <2>3, <3>1
    <3>2. CASE ~ (i <= m)
      <4>1. PICK k \in 1 .. Len(b) : k = i - m
        <5>1. Len(b) \in Nat /\ i \in 1 .. m + Len(b)
          BY DEF Bytes
        <5>2. i - m \in 1 .. Len(b)
          BY ONLY <1>12, <3>2, <5>1
        <5>. QED
          BY ONLY <5>2
      <4>2. m + k = i
        BY <1>1, <4>1
      <4>. QED
        BY <2>1, <2>2, <2>3, <3>2, <4>1, <4>2
    <3>. QED
      BY <3>1, <3>2
  <2>5. p \o b = dst
    BY <1>1, <2>1, <2>2, <2>3, <2>4, SeqEqual DEF Bytes
  <2>. QED
    BY <1>8, <1>9, <1>11, <2>2, <2>5 DEF src, dst, d
<1>. QED
  BY <1>10, <1>11

-----------------------------------------------------------------------------
(* Lines of the meta file *)

\* Kept keeps the wanted lines, and no others.
LEMMA KeptIs ==
  ASSUME NEW S, NEW ls \in Seq(S), NEW wanted
  PROVE  /\ Kept(ls, wanted) \in Seq(S)
         /\ Len(Kept(ls, wanted)) <= Len(ls)
         /\ Range(Kept(ls, wanted)) = Range(ls) \cap wanted
<1>. DEFINE Is(f, m) ==
              f = [n \in 0 .. m |->
                     IF n = 0 THEN <<>>
                     ELSE IF ls[n] \in wanted THEN Append(f[n - 1], ls[n]) ELSE f[n - 1]]
            N == Len(ls)
            k == CHOOSE f : Is(f, N)
<1>1. N \in Nat /\ \A n \in 1 .. N : ls[n] \in S
  OBVIOUS
<1>2. Kept(ls, wanted) = k[N]
  BY DEF Kept
<1>3. \E f : Is(f, N)
  <2>. DEFINE Ok == {m \in Nat : \E f : Is(f, m)}
  <2>1. 0 \in Ok
    <3>1. Is([n \in 0 .. 0 |-> <<>>], 0)
      OBVIOUS
    <3>. QED
      BY <3>1
  <2>2. ASSUME NEW m \in 0 .. N - 1, m \in Ok PROVE m + 1 \in Ok
    <3>1. PICK f : Is(f, m)
      BY <2>2
    <3>. DEFINE g == [n \in 0 .. m + 1 |->
                        IF n <= m THEN f[n]
                        ELSE IF ls[n] \in wanted THEN Append(f[n - 1], ls[n]) ELSE f[n - 1]]
    <3>2. ASSUME NEW n \in 0 .. m + 1
          PROVE  g[n] = IF n = 0 THEN <<>>
                        ELSE IF ls[n] \in wanted THEN Append(g[n - 1], ls[n]) ELSE g[n - 1]
      <4>1. CASE n = 0
        BY <3>1, <4>1
      <4>2. CASE n # 0
        <5>1. n - 1 \in 0 .. m + 1 /\ n - 1 <= m
          BY <4>2
        <5>2. g[n - 1] = f[n - 1]
          BY <5>1
        <5>3. CASE n <= m
          <6>1. g[n] = f[n] /\ n \in 0 .. m
            BY <5>3
          <6>2. f[n] = IF ls[n] \in wanted THEN Append(f[n - 1], ls[n]) ELSE f[n - 1]
            BY <3>1, <4>2, <6>1
          <6>. QED
            BY <4>2, <5>2, <6>1, <6>2
        <5>4. CASE ~ (n <= m)
          BY <4>2, <5>2, <5>4
        <5>. QED
          BY <5>3, <5>4
      <4>. QED
        BY <4>1, <4>2
    <3>3. PICK h : h = g
      OBVIOUS
    <3>4. h = [n \in 0 .. m + 1 |-> h[n]]
      BY <3>3
    <3>. HIDE DEF g
    <3>5. Is(h, m + 1)
      BY <3>2, <3>3, <3>4
    <3>. QED
      BY <3>5
  <2>. HIDE DEF Ok
  <2>3. \A m \in 0 .. N : m \in Ok
    BY <1>1, <2>1, <2>2, UpTo
  <2>4. N \in Ok
    BY <1>1, <2>3
  <2>. QED
    BY <2>4 DEF Ok
<1>4. Is(k, N)
  BY <1>3
<1>. HIDE DEF k
<1>5. /\ k[0] = <<>>
      /\ \A n \in 1 .. N : k[n] = IF ls[n] \in wanted THEN Append(k[n - 1], ls[n]) ELSE k[n - 1]
  <2>1. \A n \in 0 .. N : k[n] = IF n = 0 THEN <<>>
                                 ELSE IF ls[n] \in wanted THEN Append(k[n - 1], ls[n]) ELSE k[n - 1]
    BY <1>4
  <2>2. 0 \in 0 .. N /\ \A n \in 1 .. N : n \in 0 .. N /\ n # 0
    BY <1>1
  <2>. QED
    BY <2>1, <2>2
<1>. HIDE DEF N, Is
<1>. DEFINE Good == {m \in 0 .. N : /\ k[m] \in Seq(S) /\ Len(k[m]) <= m
                                    /\ \A x : (\E j \in 1 .. Len(k[m]) : k[m][j] = x)
                                          <=> (\E i \in 1 .. m : ls[i] = x /\ x \in wanted)}
<1>6. 0 \in Good
  <2>1. k[0] \in Seq(S) /\ Len(k[0]) = 0
    BY <1>5
  <2>. QED
    BY <1>1, <2>1
<1>7. ASSUME NEW n \in 0 .. N - 1, n \in Good PROVE n + 1 \in Good
  <2>1. PICK m \in 1 .. N : m = n + 1
    BY <1>1
  <2>2. PICK s \in Seq(S) : s = k[n]
    BY <1>7
  <2>3. m - 1 = n
    BY <2>1
  <2>4. /\ Len(s) <= n
        /\ \A x : (\E j \in 1 .. Len(s) : s[j] = x) <=> (\E i \in 1 .. n : ls[i] = x /\ x \in wanted)
    BY <1>7, <2>2
  <2>5. PICK l \in S : l = ls[m]
    BY <1>1
  <2>6. CASE l \in wanted
    <3>1. k[m] = Append(s, l)
      BY <1>5, <2>2, <2>3, <2>5, <2>6
    <3>2. PICK t : t = k[m]
      OBVIOUS
    <3>3. /\ t \in Seq(S) /\ Len(t) = Len(s) + 1 /\ t[Len(s) + 1] = l
          /\ \A j \in 1 .. Len(s) : t[j] = s[j]
      BY <3>1, <3>2, AppendProperties
    <3>4. ASSUME NEW x
          PROVE  (\E j \in 1 .. Len(t) : t[j] = x) <=> (\E i \in 1 .. m : ls[i] = x /\ x \in wanted)
      <4>1. (\E j \in 1 .. Len(t) : t[j] = x) <=> ((\E j \in 1 .. Len(s) : s[j] = x) \/ x = l)
        <5>1. PICK e \in Nat : e = Len(s)
          OBVIOUS
        <5>2. Len(t) = e + 1 /\ t[e + 1] = l /\ \A j \in 1 .. e : t[j] = s[j]
          BY <3>3, <5>1
        <5>3. \A j : j \in 1 .. e + 1 <=> (j \in 1 .. e \/ j = e + 1)
          BY <5>1
        <5>. QED
          BY ONLY <5>1, <5>2, <5>3
      <4>2. (\E i \in 1 .. m : ls[i] = x /\ x \in wanted)
              <=> ((\E i \in 1 .. n : ls[i] = x /\ x \in wanted) \/ x = l)
        BY <2>1, <2>5, <2>6
      <4>. QED
        BY <2>4, <4>1, <4>2
    <3>5. Len(t) <= m
      BY <2>1, <2>4, <3>3
    <3>6. m \in 0 .. N
      BY <1>1
    <3>. HIDE DEF N
    <3>7. m \in Good
      BY <3>2, <3>3, <3>4, <3>5, <3>6
    <3>. QED
      BY <2>1, <3>7
  <2>7. CASE l \notin wanted
    <3>1. k[m] = s
      BY <1>5, <2>2, <2>3, <2>5, <2>7
    <3>2. ASSUME NEW x
          PROVE  (\E i \in 1 .. m : ls[i] = x /\ x \in wanted)
              <=> (\E i \in 1 .. n : ls[i] = x /\ x \in wanted)
      BY <2>1, <2>5, <2>7
    <3>3. Len(s) <= m
      BY <2>1, <2>4
    <3>. QED
      BY <2>1, <2>4, <3>1, <3>2, <3>3
  <2>. QED
    BY <2>6, <2>7
<1>. HIDE DEF Good
<1>8. N \in Good
  <2>1. \A n \in 0 .. N : n \in Good
    BY ONLY <1>1, <1>6, <1>7, UpTo
  <2>. QED
    BY <1>1, <2>1
<1>9. PICK t : t = k[N]
  OBVIOUS
<1>10. /\ t \in Seq(S) /\ Len(t) <= N
       /\ \A x : (\E j \in 1 .. Len(t) : t[j] = x) <=> (\E i \in 1 .. N : ls[i] = x /\ x \in wanted)
  BY <1>8, <1>9 DEF Good
<1>11. Range(t) = Range(ls) \cap wanted
  <2>1. DOMAIN t = 1 .. Len(t) /\ DOMAIN ls = 1 .. N
    BY <1>10 DEF N
  <2>. QED
    BY <1>10, <2>1 DEF Range
<1>. QED
  BY <1>2, <1>9, <1>10, <1>11 DEF N

Line == IDs \X (IDs \cup {Initial})

LEMMA LinesOf ==
  ASSUME NEW ls \in Seq(Line)
  PROVE  /\ Range(ls) \subseteq Line
         /\ \A l \in Range(ls) : \E i \in 1 .. Len(ls) : ls[i] = l
         /\ \A i \in 1 .. Len(ls) : ls[i] \in Range(ls)
         /\ \A l \in Range(ls) : l = <<l[1], l[2]>> /\ l[1] \in IDs /\ l[2] \in IDs \cup {Initial}
<1>1. DOMAIN ls = 1 .. Len(ls) /\ \A i \in 1 .. Len(ls) : ls[i] \in Line
  OBVIOUS
<1>2. Range(ls) \subseteq Line /\ \A l \in Range(ls) : \E i \in 1 .. Len(ls) : ls[i] = l
  BY <1>1 DEF Range
<1>3. \A i \in 1 .. Len(ls) : ls[i] \in Range(ls)
  BY <1>1 DEF Range
<1>4. \A l \in Range(ls) : l = <<l[1], l[2]>> /\ l[1] \in IDs /\ l[2] \in IDs \cup {Initial}
  BY <1>2 DEF Line
<1>. QED
  BY <1>2, <1>3, <1>4

\* Lines of one snapshot name one ancestor.
OneAncestor(L) == \A l, m \in L : l[1] = m[1] => l[2] = m[2]

LEMMA AncOfIs ==
  ASSUME NEW ls \in Seq(Line), OneAncestor(Range(ls)), NEW l \in Range(ls)
  PROVE  AncOf(ls, l[1]) = l[2]
<1>. DEFINE I == {i \in DOMAIN ls : ls[i][1] = l[1]}
<1>1. DOMAIN ls = 1 .. Len(ls) /\ Len(ls) \in Nat
  OBVIOUS
<1>2. I \in SUBSET Nat /\ \A i \in I : i <= Len(ls)
  BY <1>1
<1>3. I # {}
  <2>1. PICK i \in 1 .. Len(ls) : ls[i] = l
    BY LinesOf
  <2>. QED
    BY <1>1, <2>1
<1>. HIDE DEF I
<1>4. Max(I) \in I
  BY <1>1, <1>2, <1>3, MaxIs
<1>5. Max(I) \in 1 .. Len(ls) /\ ls[Max(I)][1] = l[1]
  BY <1>1, <1>4 DEF I
<1>6. ls[Max(I)] \in Range(ls)
  BY <1>5, LinesOf
<1>7. ls[Max(I)][2] = l[2]
  BY <1>5, <1>6 DEF OneAncestor
<1>. QED
  BY <1>7 DEF AncOf, I

LEMMA SonsOfIs ==
  ASSUME NEW ls \in Seq(Line), NEW id
  PROVE  /\ SonsOf(ls, id) \in Seq(IDs)
         /\ \A s : s \in Range(SonsOf(ls, id)) <=> \E l \in Range(ls) : l[1] = s /\ l[2] = id
<1>. DEFINE mine == Kept(ls, {l \in Range(ls) : l[2] = id})
<1>1. mine \in Seq(Line) /\ Range(mine) = {l \in Range(ls) : l[2] = id}
  BY KeptIs
<1>2. SonsOf(ls, id) = [i \in DOMAIN mine |-> mine[i][1]]
  BY DEF SonsOf
<1>. HIDE DEF mine
<1>3. DOMAIN mine = 1 .. Len(mine) /\ Len(mine) \in Nat /\ \A i \in 1 .. Len(mine) : mine[i][1] \in IDs
  BY <1>1 DEF Line
<1>4. PICK t : t = SonsOf(ls, id)
  OBVIOUS
<1>5. /\ t \in Seq(IDs) /\ DOMAIN t = DOMAIN mine
      /\ \A i \in DOMAIN mine : t[i] = mine[i][1]
  BY <1>2, <1>3, <1>4
<1>6. \A s : s \in Range(t) <=> \E l \in Range(mine) : l[1] = s
  BY <1>5 DEF Range
<1>. QED
  BY <1>1, <1>4, <1>5, <1>6

LEMMA KnownIs ==
  ASSUME NEW ls \in Seq(Line), NEW id
  PROVE  Known(ls, id) <=> \E l \in Range(ls) : l[1] = id \/ l[2] = id
<1>1. HasAnc(ls, id) <=> \E l \in Range(ls) : l[1] = id
  <2>1. DOMAIN ls = 1 .. Len(ls)
    OBVIOUS
  <2>. QED
    BY <2>1, LinesOf DEF HasAnc
<1>2. SonsOf(ls, id) # <<>> <=> \E l \in Range(ls) : l[2] = id
  <2>1. PICK t : t = SonsOf(ls, id)
    OBVIOUS
  <2>2. t \in Seq(IDs) /\ \A s : s \in Range(t) <=> \E l \in Range(ls) : l[1] = s /\ l[2] = id
    BY <2>1, SonsOfIs
  <2>3. t # <<>> <=> \E s : s \in Range(t)
    BY <2>2 DEF Range
  <2>. QED
    BY <2>1, <2>2, <2>3
<1>. QED
  BY <1>1, <1>2 DEF Known

-----------------------------------------------------------------------------
(* Steps and ways *)

Up(l) == [from |-> l[2], to |-> l[1], diff |-> l[1], rev |-> FALSE]
Down(l) == [from |-> l[1], to |-> l[2], diff |-> l[1], rev |-> TRUE]

LEMMA StepsAre ==
  ASSUME NEW ls \in Seq(Line), OneAncestor(Range(ls))
  PROVE  Steps(ls) = {Up(l) : l \in Range(ls)} \cup {Down(l) : l \in Range(ls)}
<1>1. {[from |-> AncOf(ls, s), to |-> s, diff |-> s, rev |-> FALSE] : s \in {l[1] : l \in Range(ls)}}
        = {Up(l) : l \in Range(ls)}
  BY AncOfIs DEF Up
<1>. QED
  BY <1>1 DEF Steps, Down

\* A chain of steps of the set E, from v to dest.
IsWay(way, E, v, dest) ==
  /\ way \in Seq(E)
  /\ Len(way) = 0 => v = dest
  /\ Len(way) # 0 => way[1].from = v /\ way[Len(way)].to = dest
  /\ \A i \in 1 .. Len(way) - 1 : way[i].to = way[i + 1].from

Longer(t, w, way) == \A i \in 1 .. Len(t) : t[i] = w \/ \E j \in 1 .. Len(way) : t[i] = way[j]

LEMMA WayGrows ==
  ASSUME NEW E, NEW w \in E, NEW dest, NEW way, IsWay(way, E, w.to, dest)
  PROVE  IsWay(<<w>> \o way, E, w.from, dest) /\ Longer(<<w>> \o way, w, way)
<1>1. way \in Seq(E) /\ Len(way) \in Nat
  BY DEF IsWay
<1>2. PICK n \in Nat : n = Len(way)
  BY <1>1
<1>3. PICK t : t = <<w>> \o way
  OBVIOUS
<1>4. /\ t \in Seq(E) /\ Len(t) = n + 1 /\ t[1] = w
      /\ \A i \in 2 .. n + 1 : t[i] = way[i - 1]
  <2>1. <<w>> \in Seq(E) /\ Len(<<w>>) = 1 /\ <<w>>[1] = w
    OBVIOUS
  <2>2. PICK s \in Seq(E) : s = <<w>>
    BY <2>1
  <2>3. /\ s \o way \in Seq(E) /\ Len(s \o way) = 1 + n
        /\ \A i \in 1 .. 1 + n : (s \o way)[i] = IF i <= 1 THEN s[i] ELSE way[i - 1]
    BY <1>1, <1>2, <2>1, <2>2, ConcatProperties
  <2>4. t = s \o way
    BY <1>3, <2>2
  <2>5. t[1] = w
    BY <1>2, <2>1, <2>2, <2>3, <2>4
  <2>6. ASSUME NEW i \in 2 .. n + 1 PROVE t[i] = way[i - 1]
    <3>1. i \in 1 .. 1 + n /\ ~ (i <= 1)
      BY <1>2
    <3>. QED
      BY <2>3, <2>4, <3>1
  <2>. QED
    BY <1>2, <2>3, <2>4, <2>5, <2>6
<1>5. /\ n = 0 => w.to = dest
      /\ n # 0 => way[1].from = w.to /\ way[n].to = dest
      /\ \A i \in 1 .. n - 1 : way[i].to = way[i + 1].from
  BY <1>2 DEF IsWay
<1>6. t[n + 1].to = dest
  <2>1. CASE n = 0
    BY <1>4, <1>5, <2>1
  <2>2. CASE n # 0
    <3>1. n + 1 \in 2 .. n + 1 /\ (n + 1) - 1 = n
      BY <1>2, <2>2
    <3>2. t[n + 1] = way[n]
      BY <1>4, <3>1
    <3>. QED
      BY <1>5, <2>2, <3>2
  <2>. QED
    BY <2>1, <2>2
<1>7. ASSUME NEW i \in 1 .. n PROVE t[i].to = t[i + 1].from
  <2>1. i + 1 \in 2 .. n + 1 /\ (i + 1) - 1 = i
    BY <1>2
  <2>2. t[i + 1] = way[i]
    BY <1>4, <2>1
  <2>3. CASE i = 1
    BY <1>4, <1>5, <2>2, <2>3
  <2>4. CASE i # 1
    <3>1. PICK k \in 1 .. n - 1 : k = i - 1
      BY <1>2, <2>4
    <3>2. t[i] = way[k] /\ k + 1 = i
      <4>1. i \in 2 .. n + 1
        BY <1>2, <2>4
      <4>. QED
        BY <1>4, <3>1, <4>1
    <3>. QED
      BY <1>5, <2>2, <3>2
  <2>. QED
    BY <2>3, <2>4
<1>8. IsWay(t, E, w.from, dest)
  <2>1. Len(t) # 0 /\ Len(t) - 1 = n
    BY <1>2, <1>4
  <2>. QED
    BY <1>4, <1>6, <1>7, <2>1 DEF IsWay
<1>9. ASSUME NEW i \in 1 .. n + 1 PROVE t[i] = w \/ \E j \in 1 .. n : t[i] = way[j]
  <2>1. CASE i = 1
    BY <1>4, <2>1
  <2>2. CASE i # 1
    <3>1. i \in 2 .. n + 1 /\ i - 1 \in 1 .. n
      BY <1>2, <2>2
    <3>. QED
      BY <1>4, <3>1
  <2>. QED
    BY <2>1, <2>2
<1>. QED
  BY <1>2, <1>3, <1>4, <1>8, <1>9 DEF Longer

\* One round of the search.
Ahead(ls, met) == {w \in Steps(ls) : w.to \in DOMAIN met /\ w.from \notin DOMAIN met}

Further(ls, met) ==
  IF head \in DOMAIN met THEN met
  ELSE [v \in DOMAIN met \cup {w.from : w \in Ahead(ls, met)} |->
          IF v \in DOMAIN met THEN met[v]
          ELSE LET w == CHOOSE w \in Ahead(ls, met) : w.from = v IN <<w>> \o met[w.to]]

\* The rounds that WaysTo goes through.
Rounds(ls, dest, k) ==
  /\ WaysTo(ls, dest) = k[Len(ls)]
  /\ k[0] = [v \in {dest} |-> <<>>]
  /\ \A n \in 0 .. Len(ls) - 1 : k[n + 1] = Further(ls, k[n])

LEMMA RoundsAre ==
  ASSUME NEW ls \in Seq(Line), NEW dest
  PROVE  \E k : Rounds(ls, dest, k)
<1>. DEFINE first == [v \in {dest} |-> <<>>]
            Is(f, m) == f = [n \in 0 .. m |-> IF n = 0 THEN first ELSE Further(ls, f[n - 1])]
            N == Len(ls)
            k == CHOOSE f : Is(f, N)
<1>1. N \in Nat
  OBVIOUS
<1>2. WaysTo(ls, dest) = k[N]
  BY DEF WaysTo, Further, Ahead
<1>. HIDE DEF first
<1>3. \E f : Is(f, N)
  <2>. DEFINE Ok == {m \in Nat : \E f : Is(f, m)}
  <2>1. 0 \in Ok
    <3>1. Is([n \in 0 .. 0 |-> first], 0)
      OBVIOUS
    <3>. QED
      BY <3>1
  <2>2. ASSUME NEW m \in 0 .. N - 1, m \in Ok PROVE m + 1 \in Ok
    <3>1. PICK f : Is(f, m)
      BY <2>2
    <3>. DEFINE g == [n \in 0 .. m + 1 |-> IF n <= m THEN f[n] ELSE Further(ls, f[n - 1])]
    <3>2. ASSUME NEW n \in 0 .. m + 1
          PROVE  g[n] = IF n = 0 THEN first ELSE Further(ls, g[n - 1])
      <4>1. CASE n = 0
        BY <3>1, <4>1
      <4>2. CASE n # 0
        <5>1. n - 1 \in 0 .. m + 1 /\ n - 1 <= m
          BY <4>2
        <5>2. g[n - 1] = f[n - 1]
          BY <5>1
        <5>3. CASE n <= m
          <6>1. g[n] = f[n] /\ n \in 0 .. m
            BY <5>3
          <6>2. f[n] = Further(ls, f[n - 1])
            BY <3>1, <4>2, <6>1
          <6>. QED
            BY <4>2, <5>2, <6>1, <6>2
        <5>4. CASE ~ (n <= m)
          BY <4>2, <5>2, <5>4
        <5>. QED
          BY <5>3, <5>4
      <4>. QED
        BY <4>1, <4>2
    <3>3. PICK h : h = g
      OBVIOUS
    <3>4. h = [n \in 0 .. m + 1 |-> h[n]]
      BY <3>3
    <3>. HIDE DEF g
    <3>5. Is(h, m + 1)
      BY <3>2, <3>3, <3>4
    <3>. QED
      BY <3>5
  <2>. HIDE DEF Ok
  <2>3. \A m \in 0 .. N : m \in Ok
    BY <1>1, <2>1, <2>2, UpTo
  <2>4. N \in Ok
    BY <1>1, <2>3
  <2>. QED
    BY <2>4 DEF Ok
<1>. HIDE DEF N
<1>4. Is(k, N)
  BY <1>3
<1>. HIDE DEF k
<1>5. k[0] = first
  <2>1. \A n \in 0 .. N : k[n] = IF n = 0 THEN first ELSE Further(ls, k[n - 1])
    BY <1>4
  <2>. QED
    BY <1>1, <2>1
<1>6. ASSUME NEW n \in 0 .. N - 1 PROVE k[n + 1] = Further(ls, k[n])
  <2>1. PICK m \in 1 .. N : m = n + 1
    BY <1>1
  <2>2. m - 1 = n /\ m # 0 /\ m \in 0 .. N
    BY <1>1, <2>1
  <2>3. \A i \in 0 .. N : k[i] = IF i = 0 THEN first ELSE Further(ls, k[i - 1])
    BY <1>4
  <2>. QED
    BY <2>1, <2>2, <2>3
<1>. QED
  BY <1>2, <1>5, <1>6 DEF first, N, Rounds

\* A round keeps the ways it has, and lengthens them by the steps ahead.
IsFurther(ls, met, new) ==
  /\ DOMAIN new = DOMAIN met \cup {w.from : w \in Ahead(ls, met)}
  /\ \A v \in DOMAIN met : new[v] = met[v]
  /\ \A v \in DOMAIN new \ DOMAIN met :
       \E w \in Ahead(ls, met) : w.from = v /\ new[v] = <<w>> \o met[w.to]

LEMMA FurtherIs ==
  ASSUME NEW ls, NEW met, head \notin DOMAIN met
  PROVE  IsFurther(ls, met, Further(ls, met))
<1>. DEFINE D == DOMAIN met \cup {w.from : w \in Ahead(ls, met)}
            Towards(v) == CHOOSE w \in Ahead(ls, met) : w.from = v
<1>1. Further(ls, met) = [v \in D |-> IF v \in DOMAIN met THEN met[v]
                                      ELSE <<Towards(v)>> \o met[Towards(v).to]]
  BY DEF Further
<1>2. \A v \in D \ DOMAIN met : Towards(v) \in Ahead(ls, met) /\ Towards(v).from = v
  OBVIOUS
<1>. HIDE DEF Towards
<1>. QED
  BY <1>1, <1>2 DEF IsFurther

\* Whoever stands at a snapshot outside P can only go back.
DeadEnds(E, P) == \A u, w \in E : u.to \notin P /\ w.from = u.to => w.to = u.from

\* What the search knows: ways to dest, which do not leave P.
Ways(E, dest, P, met) ==
  /\ dest \in DOMAIN met
  /\ \A v \in DOMAIN met : IsWay(met[v], E, v, dest)
  /\ \A v \in DOMAIN met : v # dest => \E w \in E : w.from = v /\ w.to \in DOMAIN met
  /\ \A v \in DOMAIN met \cap P : \A i \in 1 .. Len(met[v]) : met[v][i].from \in P /\ met[v][i].to \in P

LEMMA FurtherKeepsWays ==
  ASSUME NEW ls, NEW dest, NEW P, dest \in P, DeadEnds(Steps(ls), P),
         NEW met, Ways(Steps(ls), dest, P, met)
  PROVE  Ways(Steps(ls), dest, P, Further(ls, met))
<1>1. CASE head \in DOMAIN met
  BY <1>1 DEF Further
<1>2. CASE head \notin DOMAIN met
  <2>. DEFINE E == Steps(ls)
  <2>1. PICK new : new = Further(ls, met)
    OBVIOUS
  <2>7. IsFurther(ls, met, Further(ls, met))
    BY <1>2, FurtherIs
  <2>2. /\ DOMAIN new = DOMAIN met \cup {w.from : w \in Ahead(ls, met)}
        /\ \A v \in DOMAIN met : new[v] = met[v]
        /\ \A v \in DOMAIN new \ DOMAIN met :
             \E w \in Ahead(ls, met) : w.from = v /\ new[v] = <<w>> \o met[w.to]
    BY <2>1, <2>7 DEF IsFurther
  <2>3. /\ dest \in DOMAIN met
        /\ \A v \in DOMAIN met : IsWay(met[v], E, v, dest)
        /\ \A v \in DOMAIN met : v # dest => \E w \in E : w.from = v /\ w.to \in DOMAIN met
        /\ \A v \in DOMAIN met \cap P :
             \A i \in 1 .. Len(met[v]) : met[v][i].from \in P /\ met[v][i].to \in P
    BY DEF Ways
  <2>4. \A w \in Ahead(ls, met) : w \in E /\ w.to \in DOMAIN met /\ w.from \notin DOMAIN met
    BY DEF Ahead
  <2>. HIDE DEF E
  <2>5. ASSUME NEW v \in DOMAIN new
        PROVE  /\ IsWay(new[v], E, v, dest)
               /\ v # dest => \E w \in E : w.from = v /\ w.to \in DOMAIN new
               /\ v \in P => \A i \in 1 .. Len(new[v]) : new[v][i].from \in P /\ new[v][i].to \in P
    <3>1. CASE v \in DOMAIN met
      BY <2>2, <2>3, <3>1
    <3>2. CASE v \notin DOMAIN met
      <4>1. PICK w \in Ahead(ls, met) : w.from = v /\ new[v] = <<w>> \o met[w.to]
        BY <2>2, <3>2
      <4>2. PICK rest : rest = met[w.to]
        OBVIOUS
      <4>3. w \in E /\ w.to \in DOMAIN met /\ IsWay(rest, E, w.to, dest)
        BY <2>3, <2>4, <4>2
      <4>4. PICK way : way = <<w>> \o rest
        OBVIOUS
      <4>8. IsWay(<<w>> \o rest, E, w.from, dest) /\ Longer(<<w>> \o rest, w, rest)
        BY <4>3, WayGrows
      <4>5. /\ IsWay(way, E, w.from, dest)
            /\ \A i \in 1 .. Len(way) : way[i] = w \/ \E j \in 1 .. Len(rest) : way[i] = rest[j]
        BY <4>4, <4>8 DEF Longer
      <4>6. ASSUME v \in P PROVE w.to \in P
        <5>1. SUFFICES ASSUME w.to \notin P PROVE FALSE
          OBVIOUS
        <5>2. PICK u \in E : u.from = w.to /\ u.to \in DOMAIN met
          BY <2>3, <4>3, <5>1
        <5>3. u.to = w.from
          BY <4>3, <5>1, <5>2 DEF DeadEnds, E
        <5>. QED
          BY <3>2, <4>1, <5>2, <5>3
      <4>7. ASSUME v \in P, NEW i \in 1 .. Len(way) PROVE way[i].from \in P /\ way[i].to \in P
        <5>1. w.from \in P /\ w.to \in P
          BY <4>1, <4>6, <4>7
        <5>2. \A j \in 1 .. Len(rest) : rest[j].from \in P /\ rest[j].to \in P
          BY <2>3, <4>2, <4>3, <5>1
        <5>. QED
          BY <4>5, <5>1, <5>2
      <4>. QED
        BY <2>2, <4>1, <4>2, <4>3, <4>4, <4>5, <4>7
    <3>. QED
      BY <3>1, <3>2
  <2>6. Ways(E, dest, P, new)
    BY <2>2, <2>3, <2>5 DEF Ways
  <2>. QED
    BY <2>1, <2>6 DEF E
<1>. QED
  BY <1>1, <1>2

\* The search goes on until it meets HEAD, everything, or nothing new.
Wide(ls, met, n) ==
  \/ head \in DOMAIN met
  \/ Ahead(ls, met) = {}
  \/ IsFiniteSet(DOMAIN met) /\ Cardinality(DOMAIN met) > n

LEMMA FurtherIsWider ==
  ASSUME NEW ls, NEW met, NEW n \in Nat, Wide(ls, met, n),
         NEW Nodes, IsFiniteSet(Nodes), DOMAIN met \subseteq Nodes,
         \A w \in Steps(ls) : w.from \in Nodes
  PROVE  DOMAIN Further(ls, met) \subseteq Nodes /\ Wide(ls, Further(ls, met), n + 1)
<1>1. CASE head \in DOMAIN met
  BY <1>1 DEF Further, Wide
<1>2. CASE head \notin DOMAIN met
  <2>1. PICK new : new = Further(ls, met)
    OBVIOUS
  <2>2. DOMAIN new = DOMAIN met \cup {w.from : w \in Ahead(ls, met)}
    BY <1>2, <2>1, FurtherIs DEF IsFurther
  <2>3. DOMAIN new \subseteq Nodes
    BY <2>2 DEF Ahead
  <2>4. CASE Ahead(ls, met) = {}
    <3>1. DOMAIN new = DOMAIN met
      BY <2>2, <2>4
    <3>2. Ahead(ls, new) = {}
      BY <2>4, <3>1 DEF Ahead
    <3>. QED
      BY <2>1, <2>3, <3>2 DEF Wide
  <2>5. CASE Ahead(ls, met) # {}
    <3>1. PICK w \in Ahead(ls, met) : TRUE
      BY <2>5
    <3>2. IsFiniteSet(DOMAIN met) /\ Cardinality(DOMAIN met) > n
      BY <1>2, <2>5 DEF Wide
    <3>3. IsFiniteSet(DOMAIN new)
      BY <2>3, FS_Subset
    <3>4. w.from \notin DOMAIN met /\ w.from \in DOMAIN new
      BY <2>2, <3>1 DEF Ahead
    <3>5. /\ IsFiniteSet(DOMAIN met \cup {w.from})
          /\ Cardinality(DOMAIN met \cup {w.from}) = Cardinality(DOMAIN met) + 1
      BY <3>2, <3>4, FS_AddElement
    <3>6. DOMAIN met \cup {w.from} \subseteq DOMAIN new
      BY <2>2, <3>4
    <3>7. Cardinality(DOMAIN met \cup {w.from}) <= Cardinality(DOMAIN new)
      BY <3>3, <3>6, FS_Subset
    <3>8. Cardinality(DOMAIN met) \in Nat /\ Cardinality(DOMAIN new) \in Nat
      BY <3>2, <3>3, FS_CardinalityType
    <3>9. Cardinality(DOMAIN new) > n + 1
      BY <3>2, <3>5, <3>7, <3>8
    <3>. QED
      BY <2>1, <2>3, <3>3, <3>9 DEF Wide
  <2>. QED
    BY <2>4, <2>5
<1>. QED
  BY <1>1, <1>2

\* The snapshots that are met cannot all be left behind: a set of snapshots
\* from which no step leads in has all of them.
Connected(E, Nodes) ==
  \A D \in SUBSET Nodes : D # {} /\ (\A w \in E : w.to \in D => w.from \in D) => D = Nodes

\* The search meets HEAD, and finds a way from it to dest within P.
LEMMA WayFound ==
  ASSUME NEW ls \in Seq(Line), NEW dest, NEW P, dest \in P, DeadEnds(Steps(ls), P),
         NEW Nodes, IsFiniteSet(Nodes), Cardinality(Nodes) <= Len(ls) + 1,
         dest \in Nodes, head \in Nodes,
         \A w \in Steps(ls) : w.from \in Nodes, Connected(Steps(ls), Nodes),
         NEW way, way = WaysTo(ls, dest)[head]
  PROVE  /\ IsWay(way, Steps(ls), head, dest)
         /\ head \in P => \A i \in 1 .. Len(way) : way[i].from \in P /\ way[i].to \in P
<1>. DEFINE E == Steps(ls)
            N == Len(ls)
<1>10. PICK k : Rounds(ls, dest, k)
  BY RoundsAre
<1>1. /\ WaysTo(ls, dest) = k[Len(ls)]
      /\ k[0] = [v \in {dest} |-> <<>>]
      /\ \A n \in 0 .. Len(ls) - 1 : k[n + 1] = Further(ls, k[n])
  BY <1>10 DEF Rounds
<1>. DEFINE Good == {n \in 0 .. N : /\ Ways(E, dest, P, k[n])
                                    /\ DOMAIN k[n] \subseteq Nodes
                                    /\ Wide(ls, k[n], n)}
<1>2. N \in Nat
  OBVIOUS
<1>. HIDE DEF N, E
<1>3. 0 \in Good
  <2>1. PICK met : met = k[0]
    OBVIOUS
  <2>2. DOMAIN met = {dest} /\ met[dest] = <<>>
    BY <1>1, <2>1
  <2>3. IsWay(<<>>, E, dest, dest)
    <3>1. <<>> \in Seq(E) /\ Len(<<>>) = 0
      OBVIOUS
    <3>. QED
      BY <3>1 DEF IsWay
  <2>4. Ways(E, dest, P, met)
    <3>1. Len(<<>>) = 0
      OBVIOUS
    <3>2. \A i \in 1 .. Len(<<>>) : FALSE
      BY <3>1
    <3>. QED
      BY <2>2, <2>3, <3>2 DEF Ways
  <2>5. IsFiniteSet({dest}) /\ Cardinality({dest}) = 1
    BY ONLY FS_Singleton
  <2>6. Wide(ls, met, 0)
    BY <2>2, <2>5 DEF Wide
  <2>7. DOMAIN met \subseteq Nodes
    BY <2>2
  <2>. QED
    BY <1>2, <2>1, <2>4, <2>6, <2>7
<1>4. ASSUME NEW n \in 0 .. N - 1, n \in Good PROVE n + 1 \in Good
  <2>1. PICK met : met = k[n]
    OBVIOUS
  <2>2. k[n + 1] = Further(ls, met)
    BY <1>1, <2>1 DEF N
  <2>3. Ways(E, dest, P, met) /\ DOMAIN met \subseteq Nodes /\ Wide(ls, met, n)
    BY <1>4, <2>1
  <2>4. Ways(E, dest, P, Further(ls, met))
    BY <2>3, FurtherKeepsWays DEF E
  <2>5. DOMAIN Further(ls, met) \subseteq Nodes /\ Wide(ls, Further(ls, met), n + 1)
    BY <1>2, <2>3, FurtherIsWider
  <2>6. n + 1 \in 0 .. N
    BY <1>2
  <2>. QED
    BY <2>2, <2>4, <2>5, <2>6
<1>. HIDE DEF Good
<1>5. N \in Good
  <2>1. \A n \in 0 .. N : n \in Good
    BY ONLY <1>2, <1>3, <1>4, UpTo
  <2>. QED
    BY <1>2, <2>1
<1>6. PICK met : met = WaysTo(ls, dest)
  OBVIOUS
<1>7. Ways(E, dest, P, met) /\ DOMAIN met \subseteq Nodes /\ Wide(ls, met, N)
  BY <1>1, <1>5, <1>6 DEF Good, N
<1>8. head \in DOMAIN met
  <2>1. CASE Ahead(ls, met) = {}
    <3>1. DOMAIN met # {}
      BY <1>7 DEF Ways
    <3>2. \A w \in E : w.to \in DOMAIN met => w.from \in DOMAIN met
      BY <2>1 DEF Ahead, E
    <3>3. DOMAIN met = Nodes
      BY <1>7, <3>1, <3>2 DEF Connected, E
    <3>. QED
      BY <3>3
  <2>2. CASE IsFiniteSet(DOMAIN met) /\ Cardinality(DOMAIN met) > N
    <3>1. Cardinality(DOMAIN met) \in Nat /\ Cardinality(Nodes) \in Nat
      BY <2>2, FS_CardinalityType
    <3>2. Cardinality(DOMAIN met) <= Cardinality(Nodes)
      BY <1>7, FS_Subset
    <3>3. Cardinality(Nodes) = Cardinality(DOMAIN met)
      <4>1. PICK a \in Nat, b \in Nat : a = Cardinality(DOMAIN met) /\ b = Cardinality(Nodes)
        BY <3>1
      <4>2. a > N /\ a <= b /\ b <= N + 1
        BY <2>2, <3>2, <4>1 DEF N
      <4>3. a = b
        BY ONLY <1>2, <4>2, a \in Nat, b \in Nat
      <4>. QED
        BY <4>1, <4>3
    <3>4. Nodes = DOMAIN met
      BY <1>7, <3>3, FS_Subset
    <3>. QED
      BY <3>4
  <2>. QED
    BY <1>7, <2>1, <2>2 DEF Wide
<1>9. way = met[head]
  BY <1>6
<1>. QED
  BY <1>7, <1>8, <1>9 DEF Ways, E

-----------------------------------------------------------------------------
(* The tree of snapshots *)

Saved(tk) == DOMAIN tk \cup {Initial}

ContentOf(tk, s) == IF s = Initial THEN <<>> ELSE tk[s]

NodesOf(L) == {Initial} \cup {l[1] : l \in L}

\* No snapshot is its own ancestor.
Rising(L) == \E depth \in [IDs \cup {Initial} -> Nat] : \A l \in L : depth[l[2]] < depth[l[1]]

\* The lines are a tree, and only a leaf may be a line that a removal has left
\* behind.
Tree(L, tk) ==
  /\ OneAncestor(L)
  /\ \A l \in L : l[2] \in Saved(tk)
  /\ \A s \in DOMAIN tk : \E l \in L : l[1] = s
  /\ Rising(L)

LEMMA NodesAreFinite ==
  ASSUME NEW ls \in Seq(Line)
  PROVE  IsFiniteSet(NodesOf(Range(ls))) /\ Cardinality(NodesOf(Range(ls))) <= Len(ls) + 1
<1>. DEFINE S == {l[1] : l \in Range(ls)}
            f == [i \in 1 .. Len(ls) |-> ls[i][1]]
<1>1. Len(ls) \in Nat /\ IsFiniteSet(1 .. Len(ls)) /\ Cardinality(1 .. Len(ls)) = Len(ls)
  <2>1. PICK n \in Nat : n = Len(ls)
    OBVIOUS
  <2>2. 1 \in Int /\ n \in Int
    OBVIOUS
  <2>3. IsFiniteSet(1 .. n) /\ Cardinality(1 .. n) = IF 1 > n THEN 0 ELSE n - 1 + 1
    BY <2>2, FS_Interval
  <2>4. (IF 1 > n THEN 0 ELSE n - 1 + 1) = n
    OBVIOUS
  <2>. QED
    BY <2>1, <2>3, <2>4
<1>2. f \in Surjection(1 .. Len(ls), S)
  <2>1. f \in [1 .. Len(ls) -> S]
    BY LinesOf
  <2>2. \A s \in S : \E i \in 1 .. Len(ls) : f[i] = s
    BY LinesOf
  <2>. HIDE DEF f, S
  <2>. QED
    BY <2>1, <2>2 DEF Surjection
<1>3. IsFiniteSet(S) /\ Cardinality(S) <= Len(ls)
  <2>. HIDE DEF f, S
  <2>. QED
    BY <1>1, <1>2, FS_Surjection
<1>. HIDE DEF S
<1>4. /\ IsFiniteSet(S \cup {Initial})
      /\ Cardinality(S \cup {Initial}) = IF Initial \in S THEN Cardinality(S) ELSE Cardinality(S) + 1
  BY <1>3, FS_AddElement
<1>5. Cardinality(S) \in Nat
  BY <1>3, FS_CardinalityType
<1>6. Cardinality(S \cup {Initial}) <= Len(ls) + 1
  BY <1>1, <1>3, <1>4, <1>5
<1>7. NodesOf(Range(ls)) = S \cup {Initial}
  BY DEF NodesOf, S
<1>. QED
  BY <1>4, <1>6, <1>7

\* From wherever the search starts, it can go everywhere.
LEMMA TreeConnected ==
  ASSUME NEW ls \in Seq(Line), NEW tk, Tree(Range(ls), tk)
  PROVE  Connected(Steps(ls), NodesOf(Range(ls)))
<1>. DEFINE L == Range(ls)
            Nodes == NodesOf(L)
<1>1. PICK depth \in [IDs \cup {Initial} -> Nat] : \A l \in L : depth[l[2]] < depth[l[1]]
  BY DEF Tree, Rising
<1>2. \A l \in L : l[1] \in Nodes /\ l[2] \in Nodes /\ l[1] \in IDs
  BY LinesOf DEF Tree, Saved, NodesOf
<1>3. Nodes \subseteq IDs \cup {Initial}
  BY LinesOf DEF NodesOf
<1>4. ASSUME NEW X \in SUBSET Nodes, X # {}, \A l \in L : l[1] \in X => l[2] \in X
      PROVE  Initial \in X
  <2>. DEFINE I == {depth[s] : s \in X}
  <2>1. I \in SUBSET Nat /\ I # {}
    BY <1>3, <1>4
  <2>2. PICK m \in I : \A i \in I : m <= i
    BY <2>1, LeastOf
  <2>3. PICK s \in X : depth[s] = m
    OBVIOUS
  <2>4. SUFFICES ASSUME s # Initial PROVE FALSE
    BY <2>3
  <2>5. PICK l \in L : l[1] = s
    BY <2>4 DEF NodesOf
  <2>6. l[2] \in X
    BY <1>4, <2>5
  <2>7. depth[l[2]] \in I /\ depth[l[2]] < m /\ m \in Nat /\ depth[l[2]] \in Nat
    BY <1>1, <2>1, <2>3, <2>5, <2>6
  <2>8. PICK d \in I : d = depth[l[2]]
    BY <2>7
  <2>. HIDE DEF I
  <2>9. m <= d /\ d < m /\ m \in Nat /\ d \in Nat
    BY <2>2, <2>7, <2>8
  <2>. QED
    BY ONLY <2>9
<1>5. SUFFICES ASSUME NEW D \in SUBSET Nodes, D # {},
                      \A w \in Steps(ls) : w.to \in D => w.from \in D
               PROVE  D = Nodes
  BY DEF Connected
<1>6. ASSUME NEW l \in L PROVE l[1] \in D <=> l[2] \in D
  <2>1. Up(l) \in Steps(ls) /\ Down(l) \in Steps(ls)
    BY StepsAre DEF Tree
  <2>2. Up(l).to = l[1] /\ Up(l).from = l[2] /\ Down(l).to = l[2] /\ Down(l).from = l[1]
    BY DEF Up, Down
  <2>. QED
    BY <1>5, <2>1, <2>2
<1>7. Initial \in D
  BY <1>4, <1>5, <1>6
<1>8. SUFFICES ASSUME Nodes \ D # {} PROVE FALSE
  OBVIOUS
<1>9. \A l \in L : l[1] \in Nodes \ D => l[2] \in Nodes \ D
  BY <1>2, <1>6
<1>10. Initial \in Nodes \ D
  <2>. HIDE DEF Nodes, L
  <2>1. PICK X \in SUBSET Nodes : X = Nodes \ D
    OBVIOUS
  <2>2. X # {} /\ \A l \in L : l[1] \in X => l[2] \in X
    BY <1>8, <1>9, <2>1
  <2>3. Initial \in X
    BY <1>4, <2>2
  <2>. QED
    BY <2>1, <2>3
<1>. QED
  BY <1>7, <1>10

\* A line that a removal has left behind leads nowhere.
LEMMA LeftLinesAreDeadEnds ==
  ASSUME NEW ls \in Seq(Line), NEW tk, Tree(Range(ls), tk)
  PROVE  DeadEnds(Steps(ls), Saved(tk))
<1>1. SUFFICES ASSUME NEW u \in Steps(ls), NEW w \in Steps(ls),
                      u.to \notin Saved(tk), w.from = u.to
               PROVE  w.to = u.from
  BY DEF DeadEnds
<1>2. PICK l \in Range(ls) : u = Up(l)
  <2>1. \A l \in Range(ls) : Down(l).to \in Saved(tk)
    BY DEF Down, Tree
  <2>. QED
    BY <1>1, <2>1, StepsAre DEF Tree
<1>3. PICK m \in Range(ls) : w = Down(m)
  <2>1. \A m \in Range(ls) : Up(m).from \in Saved(tk)
    BY DEF Up, Tree
  <2>. QED
    BY <1>1, <2>1, StepsAre DEF Tree
<1>4. m[1] = l[1]
  BY <1>1, <1>2, <1>3 DEF Up, Down
<1>. QED
  BY <1>2, <1>3, <1>4 DEF Up, Down, Tree, OneAncestor

\* A diff is the one from its ancestor, and is there for what was taken.
DiffsFit(L, df, tk) ==
  \A l \in L :
    /\ l[1] \in DOMAIN df <=> l[1] \in DOMAIN tk
    /\ l[1] \in DOMAIN tk => df[l[1]] = GenerateDiff(ContentOf(tk, l[2]), tk[l[1]])

Restores(w, df, tk) ==
  ApplyPatch(ContentOf(tk, w.from), df[w.diff], w.rev) = ContentOf(tk, w.to)

LEMMA StepRestores ==
  ASSUME NEW ls \in Seq(Line), NEW tk, Tree(Range(ls), tk), \A s \in DOMAIN tk : tk[s] \in Bytes,
         NEW df, DiffsFit(Range(ls), df, tk),
         NEW w \in Steps(ls), w.diff \in DOMAIN tk
  PROVE  Restores(w, df, tk)
<1>1. PICK l \in Range(ls) : w = Up(l) \/ w = Down(l)
  BY StepsAre DEF Tree
<1>2. w.diff = l[1]
  BY <1>1 DEF Up, Down
<1>3. l[1] # Initial /\ l[2] \in Saved(tk)
  BY LinesOf, InitAssumption DEF Tree
<1>4. PICK old, new : old = ContentOf(tk, l[2]) /\ new = ContentOf(tk, l[1])
  OBVIOUS
<1>5. old \in Bytes /\ new \in Bytes /\ new = tk[l[1]]
  <2>1. <<>> \in Bytes
    BY DEF Bytes
  <2>. QED
    BY <1>2, <1>3, <1>4, <2>1 DEF ContentOf, Saved
<1>6. df[w.diff] = GenerateDiff(old, new)
  BY <1>2, <1>4, <1>5 DEF DiffsFit
<1>7. /\ ApplyPatch(old, GenerateDiff(old, new), FALSE) = new
      /\ ApplyPatch(new, GenerateDiff(old, new), TRUE) = old
  BY <1>5, DiffApplies DEF From, To
<1>8. CASE w = Up(l)
  BY <1>4, <1>6, <1>7, <1>8 DEF Up, Restores
<1>9. CASE w = Down(l)
  BY <1>4, <1>6, <1>7, <1>9 DEF Down, Restores
<1>. QED
  BY <1>1, <1>8, <1>9

\* Following a way whose steps restore, the frontier becomes what dest holds.
LEMMA ChangeAlong ==
  ASSUME NEW E, NEW way, NEW dest, IsWay(way, E, head, dest),
         NEW df, NEW tk, frontier = ContentOf(tk, head),
         \A i \in 1 .. Len(way) : Restores(way[i], df, tk)
  PROVE  ApplyLongChange(way, df) = ContentOf(tk, dest)
<1>. DEFINE Next1(x, n) == ApplyPatch(x, df[way[n].diff], way[n].rev)
            Is(f, m) == f = [n \in 0 .. m |-> IF n = 0 THEN frontier ELSE Next1(f[n - 1], n)]
            N == Len(way)
            k == CHOOSE f : Is(f, N)
<1>1. N \in Nat
  BY DEF IsWay
<1>2. ApplyLongChange(way, df) = k[N]
  BY DEF ApplyLongChange
<1>. HIDE DEF N, Next1
<1>3. \E f : Is(f, N)
  <2>. DEFINE Ok == {m \in Nat : \E f : Is(f, m)}
  <2>1. 0 \in Ok
    <3>1. Is([n \in 0 .. 0 |-> frontier], 0)
      OBVIOUS
    <3>. QED
      BY <3>1
  <2>2. ASSUME NEW m \in 0 .. N - 1, m \in Ok PROVE m + 1 \in Ok
    <3>1. PICK f : Is(f, m)
      BY <2>2
    <3>. DEFINE g == [n \in 0 .. m + 1 |-> IF n <= m THEN f[n] ELSE Next1(f[n - 1], n)]
    <3>2. ASSUME NEW n \in 0 .. m + 1
          PROVE  g[n] = IF n = 0 THEN frontier ELSE Next1(g[n - 1], n)
      <4>1. CASE n = 0
        BY <3>1, <4>1
      <4>2. CASE n # 0
        <5>1. n - 1 \in 0 .. m + 1 /\ n - 1 <= m
          BY <4>2
        <5>2. g[n - 1] = f[n - 1]
          BY <5>1
        <5>3. CASE n <= m
          <6>1. g[n] = f[n] /\ n \in 0 .. m
            BY <5>3
          <6>2. f[n] = Next1(f[n - 1], n)
            BY <3>1, <4>2, <6>1
          <6>. QED
            BY <4>2, <5>2, <6>1, <6>2
        <5>4. CASE ~ (n <= m)
          BY <4>2, <5>2, <5>4
        <5>. QED
          BY <5>3, <5>4
      <4>. QED
        BY <4>1, <4>2
    <3>3. PICK h : h = g
      OBVIOUS
    <3>4. h = [n \in 0 .. m + 1 |-> h[n]]
      BY <3>3
    <3>. HIDE DEF g
    <3>5. Is(h, m + 1)
      BY <3>2, <3>3, <3>4
    <3>. QED
      BY <3>5
  <2>. HIDE DEF Ok
  <2>3. \A m \in 0 .. N : m \in Ok
    BY <1>1, <2>1, <2>2, UpTo
  <2>4. N \in Ok
    BY <1>1, <2>3
  <2>. QED
    BY <2>4 DEF Ok
<1>4. Is(k, N)
  BY <1>3
<1>. HIDE DEF k
<1>5. \A n \in 0 .. N : k[n] = IF n = 0 THEN frontier ELSE Next1(k[n - 1], n)
  BY <1>4
<1>. HIDE DEF Is
<1>. DEFINE At(n) == IF n = 0 THEN head ELSE way[n].to
            Good == {n \in 0 .. N : k[n] = ContentOf(tk, At(n))}
<1>6. 0 \in Good
  <2>1. 0 \in 0 .. N
    BY <1>1
  <2>. QED
    BY <1>5, <2>1
<1>7. ASSUME NEW n \in 0 .. N - 1, n \in Good PROVE n + 1 \in Good
  <2>1. PICK m \in 1 .. N : m = n + 1
    BY <1>1
  <2>2. m - 1 = n /\ m # 0 /\ m \in 0 .. N
    BY <1>1, <2>1
  <2>3. k[m] = Next1(k[n], m)
    BY <1>5, <2>2
  <2>4. way[m].from = At(n)
    <3>1. CASE n = 0
      BY <1>1, <2>1, <3>1 DEF IsWay, N
    <3>2. CASE n # 0
      <4>1. n \in 1 .. N - 1
        BY <1>1, <3>2
      <4>. QED
        BY <2>1, <3>2, <4>1 DEF IsWay, N
    <3>. QED
      BY <3>1, <3>2
  <2>5. Restores(way[m], df, tk)
    BY DEF N
  <2>6. k[n] = ContentOf(tk, way[m].from)
    BY <1>7, <2>4
  <2>7. k[m] = ContentOf(tk, way[m].to)
    BY <2>3, <2>5, <2>6 DEF Restores, Next1
  <2>8. At(m) = way[m].to
    BY <2>2
  <2>. HIDE DEF At
  <2>. QED
    BY <2>1, <2>2, <2>7, <2>8
<1>. HIDE DEF Good
<1>8. N \in Good
  <2>1. \A n \in 0 .. N : n \in Good
    BY ONLY <1>1, <1>6, <1>7, UpTo
  <2>. QED
    BY <1>1, <2>1
<1>9. At(N) = dest
  BY <1>1 DEF IsWay, N
<1>. HIDE DEF At
<1>10. k[N] = ContentOf(tk, dest)
  BY <1>8, <1>9 DEF Good
<1>. QED
  BY <1>2, <1>10

-----------------------------------------------------------------------------
(* The inductive invariant *)

\* The tree, the diffs between its snapshots, and the snapshot of the frontier.
SnapShotInv ==
  /\ file \in Contents
  /\ lines \in Seq(Line)
  /\ DOMAIN taken \subseteq IDs /\ \A s \in DOMAIN taken : taken[s] \in Contents
  /\ Tree(Range(lines), taken)
  /\ DiffsFit(Range(lines), diff, taken)
  /\ head \in Saved(taken)
  /\ frontier = ContentOf(taken, head)

LEMMA ContentsAreBytes ==
  /\ Contents \subseteq Bytes
  /\ SnapShotInv => \A s \in Saved(taken) : ContentOf(taken, s) \in Bytes
<1>1. Contents \subseteq Bytes /\ <<>> \in Bytes
  BY ContentsAssumption DEF Bytes
<1>. QED
  BY <1>1 DEF SnapShotInv, Saved, ContentOf

\* The way that is found leads from HEAD to dest, and to what was taken it leads
\* by diffs that are there and restore it.
LEMMA FindWayIs ==
  ASSUME SnapShotInv, NEW dest \in NodesOf(Range(lines))
  PROVE  /\ IsWay(FindWay(dest), Steps(lines), head, dest)
         /\ dest \in Saved(taken) => /\ DiffsOf(FindWay(dest)) \subseteq DOMAIN taken
                                     /\ HasDiffs(FindWay(dest), diff)
         /\ HasDiffs(FindWay(dest), diff) => dest \in Saved(taken)
<1>. DEFINE E == Steps(lines)
            Nodes == NodesOf(Range(lines))
<1>1. /\ lines \in Seq(Line) /\ Tree(Range(lines), taken) /\ DiffsFit(Range(lines), diff, taken)
      /\ head \in Saved(taken)
  BY DEF SnapShotInv
<1>2. /\ IsFiniteSet(Nodes) /\ Cardinality(Nodes) <= Len(lines) + 1
      /\ Connected(E, Nodes)
  BY <1>1, NodesAreFinite, TreeConnected
<1>3. Saved(taken) \subseteq Nodes
  BY <1>1 DEF Saved, NodesOf, Tree
<1>4. E = {Up(l) : l \in Range(lines)} \cup {Down(l) : l \in Range(lines)}
  BY <1>1, StepsAre DEF Tree
<1>5. ASSUME NEW w \in E
      PROVE  /\ w.from \in Nodes /\ w.to \in Nodes
             /\ \E l \in Range(lines) :
                  w.diff = l[1] /\ ((w.from = l[1] /\ w.to = l[2]) \/ (w.from = l[2] /\ w.to = l[1]))
  <2>1. PICK l \in Range(lines) : w = Up(l) \/ w = Down(l)
    BY <1>4
  <2>2. l[1] \in Nodes /\ l[2] \in Nodes
    BY <1>1, <1>3 DEF Tree, NodesOf
  <2>. QED
    BY <2>1, <2>2 DEF Up, Down
<1>6. PICK way : way = FindWay(dest)
  OBVIOUS
<1>7. way = WaysTo(lines, dest)[head]
  BY <1>6 DEF FindWay
<1>8. head \in Nodes /\ dest \in Nodes /\ \A w \in Steps(lines) : w.from \in Nodes
  BY <1>1, <1>3, <1>5
<1>. HIDE DEF E, Nodes
<1>9. IsWay(way, E, head, dest)
  <2>1. DeadEnds(Steps(lines), Nodes)
    BY <1>5 DEF DeadEnds, E
  <2>. QED
    BY <1>1, <1>2, <1>7, <1>8, <2>1, WayFound DEF E
<1>10. way \in Seq(E) /\ Len(way) \in Nat
  BY <1>9 DEF IsWay
<1>11. ASSUME dest \in Saved(taken)
       PROVE  DiffsOf(way) \subseteq DOMAIN taken /\ HasDiffs(way, diff)
  <2>1. DeadEnds(Steps(lines), Saved(taken))
    BY <1>1, LeftLinesAreDeadEnds
  <2>2. \A i \in 1 .. Len(way) : way[i].from \in Saved(taken) /\ way[i].to \in Saved(taken)
    BY <1>1, <1>2, <1>7, <1>8, <1>11, <2>1, WayFound DEF E
  <2>3. ASSUME NEW i \in 1 .. Len(way) PROVE way[i].diff \in DOMAIN taken /\ way[i].diff \in DOMAIN diff
    <3>1. PICK l \in Range(lines) : /\ way[i].diff = l[1]
                                    /\ way[i].from = l[1] \/ way[i].to = l[1]
      BY <1>5, <1>10
    <3>2. l[1] \in IDs /\ l[1] \in Saved(taken)
      BY <1>1, <2>2, <3>1, LinesOf
    <3>3. l[1] \in DOMAIN taken
      BY <3>2, InitAssumption DEF Saved
    <3>. QED
      BY <1>1, <3>1, <3>3 DEF DiffsFit
  <2>4. DOMAIN way = 1 .. Len(way)
    BY <1>10
  <2>. QED
    BY <2>3, <2>4 DEF DiffsOf, HasDiffs
<1>12. ASSUME HasDiffs(way, diff) PROVE dest \in Saved(taken)
  <2>1. CASE Len(way) = 0
    BY <1>1, <1>9, <2>1 DEF IsWay
  <2>2. CASE Len(way) # 0
    <3>1. PICK i \in 1 .. Len(way) : i = Len(way)
      BY <1>10, <2>2
    <3>2. way[i].to = dest /\ way[i] \in E
      BY <1>9, <1>10, <2>2, <3>1 DEF IsWay
    <3>3. PICK l \in Range(lines) : way[i].diff = l[1] /\ (dest = l[1] \/ dest = l[2])
      BY <1>5, <3>2
    <3>4. l[1] \in DOMAIN diff
      <4>1. DOMAIN way = 1 .. Len(way)
        BY <1>10
      <4>. QED
        BY <1>12, <3>3, <4>1 DEF HasDiffs, DiffsOf
    <3>5. l[1] \in DOMAIN taken /\ l[2] \in Saved(taken)
      BY <1>1, <3>4 DEF DiffsFit, Tree
    <3>. QED
      BY <3>3, <3>5 DEF Saved
  <2>. QED
    BY <2>1, <2>2
<1>. QED
  BY <1>6, <1>9, <1>11, <1>12 DEF E

\* Along that way, with these diffs or with others that agree on it, the
\* frontier becomes what was taken.
LEMMA WayRestores ==
  ASSUME SnapShotInv, NEW dest \in NodesOf(Range(lines)), dest \in Saved(taken),
         NEW df, \A s \in DiffsOf(FindWay(dest)) : df[s] = diff[s]
  PROVE  ApplyLongChange(FindWay(dest), df) = ContentOf(taken, dest)
<1>1. PICK way : way = FindWay(dest)
  OBVIOUS
<1>2. IsWay(way, Steps(lines), head, dest) /\ DiffsOf(way) \subseteq DOMAIN taken
  BY <1>1, FindWayIs
<1>3. way \in Seq(Steps(lines)) /\ DOMAIN way = 1 .. Len(way)
  BY <1>2 DEF IsWay
<1>4. ASSUME NEW i \in 1 .. Len(way) PROVE Restores(way[i], df, taken)
  <2>1. way[i] \in Steps(lines) /\ way[i].diff \in DiffsOf(way)
    BY <1>3 DEF DiffsOf
  <2>2. \A s \in DOMAIN taken : taken[s] \in Bytes
    BY ContentsAreBytes DEF SnapShotInv
  <2>3. Restores(way[i], diff, taken)
    BY <1>2, <2>1, <2>2, StepRestores DEF SnapShotInv
  <2>4. df[way[i].diff] = diff[way[i].diff]
    BY <1>1, <2>1
  <2>. QED
    BY <2>3, <2>4 DEF Restores
<1>5. frontier = ContentOf(taken, head)
  BY DEF SnapShotInv
<1>6. ApplyLongChange(way, df) = ContentOf(taken, dest)
  BY <1>2, <1>4, <1>5, ChangeAlong
<1>. QED
  BY <1>1, <1>6

-----------------------------------------------------------------------------
(* Every step keeps the invariant *)

LEMMA RangeOfConcat ==
  ASSUME NEW S, NEW a \in Seq(S), NEW b \in Seq(S)
  PROVE  a \o b \in Seq(S) /\ Range(a \o b) = Range(a) \cup Range(b)
<1>1. PICK m \in Nat, n \in Nat : m = Len(a) /\ n = Len(b)
  OBVIOUS
<1>2. PICK c : c = a \o b
  OBVIOUS
<1>3. /\ c \in Seq(S) /\ Len(c) = m + n
      /\ \A i \in 1 .. m + n : c[i] = IF i <= m THEN a[i] ELSE b[i - m]
  BY <1>1, <1>2, ConcatProperties
<1>4. /\ DOMAIN a = 1 .. m /\ DOMAIN b = 1 .. n /\ DOMAIN c = 1 .. m + n
  BY <1>1, <1>3
<1>5. ASSUME NEW x \in Range(c) PROVE x \in Range(a) \cup Range(b)
  <2>1. PICK i \in 1 .. m + n : c[i] = x
    BY <1>4 DEF Range
  <2>2. CASE i <= m
    <3>1. i \in 1 .. m /\ a[i] = x
      BY <1>3, <2>1, <2>2
    <3>. QED
      BY <1>4, <3>1 DEF Range
  <2>3. CASE ~ (i <= m)
    <3>1. i - m \in 1 .. n
      BY <2>3
    <3>2. b[i - m] = x
      BY <1>3, <2>1, <2>3
    <3>. QED
      BY <1>4, <3>1, <3>2 DEF Range
  <2>. QED
    BY <2>2, <2>3
<1>6. ASSUME NEW x \in Range(a) PROVE x \in Range(c)
  <2>1. PICK i \in 1 .. m : a[i] = x
    BY <1>4 DEF Range
  <2>2. i \in 1 .. m + n /\ i <= m
    OBVIOUS
  <2>. QED
    BY <1>3, <1>4, <2>1, <2>2 DEF Range
<1>7. ASSUME NEW x \in Range(b) PROVE x \in Range(c)
  <2>1. PICK i \in 1 .. n : b[i] = x
    BY <1>4 DEF Range
  <2>2. PICK j \in 1 .. m + n : j = m + i
    OBVIOUS
  <2>3. ~ (j <= m) /\ j - m = i
    BY <2>2
  <2>4. c[j] = x
    BY <1>3, <2>1, <2>2, <2>3
  <2>. QED
    BY <1>4, <2>2, <2>4 DEF Range
<1>. QED
  BY <1>2, <1>3, <1>5, <1>6, <1>7

LEMMA InitStarts == Init => SnapShotInv
<1>1. SUFFICES ASSUME Init PROVE SnapShotInv
  OBVIOUS
<1>2. Range(lines) = {} /\ lines \in Seq(Line)
  BY <1>1 DEF Init, Range
<1>3. DOMAIN taken = {}
  BY <1>1 DEF Init
<1>4. Tree(Range(lines), taken)
  <2>1. Rising({})
    <3>1. [s \in IDs \cup {Initial} |-> 0] \in [IDs \cup {Initial} -> Nat]
      OBVIOUS
    <3>. QED
      BY <3>1 DEF Rising
  <2>. QED
    BY <1>2, <1>3, <2>1 DEF Tree, OneAncestor
<1>5. DiffsFit(Range(lines), diff, taken)
  BY <1>2 DEF DiffsFit
<1>. QED
  BY <1>1, <1>2, <1>3, <1>4, <1>5 DEF Init, SnapShotInv, Saved, ContentOf

\* A leaf grows at HEAD.
LEMMA CreateStep ==
  ASSUME SnapShotInv, NEW id \in IDs, CreateSnapShot(id)
  PROVE  SnapShotInv'
<1>. DEFINE L == Range(lines)
<1>1. /\ file \in Contents /\ lines \in Seq(Line) /\ Tree(L, taken) /\ DiffsFit(L, diff, taken)
      /\ DOMAIN taken \subseteq IDs /\ \A s \in DOMAIN taken : taken[s] \in Contents
      /\ head \in Saved(taken) /\ frontier = ContentOf(taken, head)
  BY DEF SnapShotInv
<1>2. /\ ~ Known(lines, id) /\ head' = id /\ lines' = Append(lines, <<id, head>>)
      /\ diff' = Map(diff, id, GenerateDiff(frontier, file))
      /\ taken' = Map(taken, id, file) /\ frontier' = file /\ file' = file
  BY DEF CreateSnapShot
<1>3. \A l \in L : l[1] # id /\ l[2] # id
  BY <1>1, <1>2, KnownIs
<1>4. id \notin DOMAIN taken /\ id # Initial /\ head # id
  BY <1>1, <1>3, InitAssumption DEF Tree, Saved
<1>5. PICK tk, df, ls : tk = taken' /\ df = diff' /\ ls = lines'
  OBVIOUS
<1>6. /\ DOMAIN tk = DOMAIN taken \cup {id} /\ tk[id] = file
      /\ \A s \in DOMAIN taken : tk[s] = taken[s]
  BY <1>2, <1>4, <1>5 DEF Map
<1>7. /\ DOMAIN df = DOMAIN diff \cup {id} /\ df[id] = GenerateDiff(frontier, file)
      /\ \A s \in DOMAIN diff \ {id} : df[s] = diff[s]
  BY <1>2, <1>5 DEF Map
<1>8. ls \in Seq(Line) /\ Range(ls) = L \cup {<<id, head>>}
  <2>1. PICK new \in Line : new = <<id, head>>
    BY <1>1 DEF Line, Saved
  <2>2. PICK one \in Seq(Line) : Range(one) = {new} /\ ls = lines \o one
    <3>1. <<new>> \in Seq(Line) /\ DOMAIN <<new>> = {1} /\ <<new>>[1] = new
      BY <2>1
    <3>2. Range(<<new>>) = {new}
      BY <3>1 DEF Range
    <3>3. ls = lines \o <<new>>
      BY <1>1, <1>2, <1>5, <2>1, AppendIsConcat
    <3>. QED
      BY <3>1, <3>2, <3>3
  <2>5. lines \o one \in Seq(Line) /\ Range(lines \o one) = L \cup Range(one)
    BY <1>1, RangeOfConcat
  <2>. QED
    BY <2>1, <2>2, <2>5
<1>9. \A s \in Saved(taken) : ContentOf(tk, s) = ContentOf(taken, s)
  BY <1>6 DEF ContentOf, Saved
<1>10. Tree(Range(ls), tk)
  <2>1. OneAncestor(Range(ls))
    BY <1>1, <1>3, <1>8 DEF OneAncestor, Tree
  <2>2. \A l \in Range(ls) : l[2] \in Saved(tk)
    BY <1>1, <1>6, <1>8 DEF Tree, Saved
  <2>3. \A s \in DOMAIN tk : \E l \in Range(ls) : l[1] = s
    <3>1. <<id, head>> \in Range(ls) /\ <<id, head>>[1] = id
      BY <1>8
    <3>. QED
      BY <1>1, <1>6, <1>8, <3>1 DEF Tree
  <2>4. Rising(Range(ls))
    <3>1. PICK depth \in [IDs \cup {Initial} -> Nat] : \A l \in L : depth[l[2]] < depth[l[1]]
      BY <1>1 DEF Tree, Rising
    <3>2. head \in IDs \cup {Initial}
      BY <1>1 DEF Saved
    <3>3. PICK deeper : deeper = [depth EXCEPT ![id] = depth[head] + 1]
      OBVIOUS
    <3>4. /\ deeper \in [IDs \cup {Initial} -> Nat] /\ deeper[id] = depth[head] + 1
          /\ \A s \in IDs \cup {Initial} : s # id => deeper[s] = depth[s]
      BY <3>2, <3>3
    <3>5. \A l \in L : deeper[l[2]] < deeper[l[1]]
      BY <1>1, <1>3, <3>1, <3>4, LinesOf
    <3>6. deeper[<<id, head>>[2]] < deeper[<<id, head>>[1]]
      BY <1>4, <3>2, <3>4
    <3>. QED
      BY <1>8, <3>4, <3>5, <3>6 DEF Rising
  <2>. QED
    BY <2>1, <2>2, <2>3, <2>4 DEF Tree
<1>11. DiffsFit(Range(ls), df, tk)
  <2>1. ASSUME NEW l \in L
        PROVE  /\ l[1] \in DOMAIN df <=> l[1] \in DOMAIN tk
               /\ l[1] \in DOMAIN tk => df[l[1]] = GenerateDiff(ContentOf(tk, l[2]), tk[l[1]])
    <3>1. l[2] \in Saved(taken) /\ l[1] # id
      BY <1>1, <1>3 DEF Tree
    <3>. QED
      BY <1>1, <1>6, <1>7, <1>9, <3>1 DEF DiffsFit
  <2>2. PICK l : l = <<id, head>>
    OBVIOUS
  <2>3. /\ l[1] \in DOMAIN df /\ l[1] \in DOMAIN tk
        /\ df[l[1]] = GenerateDiff(ContentOf(tk, l[2]), tk[l[1]])
    BY <1>1, <1>6, <1>7, <1>9, <2>2
  <2>. QED
    BY <1>8, <2>1, <2>2, <2>3 DEF DiffsFit
<1>12. /\ DOMAIN tk \subseteq IDs /\ \A s \in DOMAIN tk : tk[s] \in Contents
       /\ id \in Saved(tk) /\ file = ContentOf(tk, id)
  BY <1>1, <1>4, <1>6 DEF Saved, ContentOf
<1>. HIDE DEF L
<1>. QED
  BY <1>1, <1>2, <1>5, <1>8, <1>10, <1>11, <1>12 DEF SnapShotInv

\* The data is changed, or made again from the frontier.
LEMMA FileStep ==
  ASSUME SnapShotInv, Edit \/ CheckOutFrontier
  PROVE  SnapShotInv'
<1>1. UNCHANGED <<frontier, head, lines, diff, taken>>
  BY DEF Edit, CheckOutFrontier
<1>2. file' \in Contents
  <2>1. head # Initial => frontier \in Contents
    BY DEF SnapShotInv, Saved, ContentOf
  <2>. QED
    BY <2>1 DEF Edit, CheckOutFrontier
<1>. QED
  BY <1>1, <1>2 DEF SnapShotInv

LEMMA KnownNodes ==
  ASSUME SnapShotInv, NEW id, Known(lines, id)
  PROVE  id \in NodesOf(Range(lines))
<1>1. \E l \in Range(lines) : l[1] = id \/ l[2] = id
  BY KnownIs DEF SnapShotInv
<1>. QED
  BY <1>1 DEF SnapShotInv, NodesOf, Tree, Saved

\* The frontier becomes what the snapshot was taken of.
LEMMA SwitchStep ==
  ASSUME SnapShotInv, NEW id, SwitchToSnapShot(id)
  PROVE  SnapShotInv'
<1>1. PICK way : way = FindWay(id)
  OBVIOUS
<1>2. /\ Known(lines, id) /\ HasDiffs(way, diff)
      /\ frontier' = ApplyLongChange(way, diff) /\ head' = id
      /\ UNCHANGED <<file, lines, diff, taken>>
  BY <1>1 DEF SwitchToSnapShot
<1>3. id \in NodesOf(Range(lines))
  BY <1>2, KnownNodes
<1>4. id \in Saved(taken)
  BY <1>1, <1>2, <1>3, FindWayIs
<1>5. ApplyLongChange(way, diff) = ContentOf(taken, id)
  BY <1>1, <1>3, <1>4, WayRestores
<1>. QED
  BY <1>2, <1>4, <1>5 DEF SnapShotInv

\* A leaf goes, but for lines of the old end of the meta file.
LEMMA RemoveLeafStep ==
  ASSUME SnapShotInv, NEW id \in IDs, RemoveLeaf(id)
  PROVE  SnapShotInv'
<1>. DEFINE L == Range(lines)
            rest == Kept(lines, {l \in L : l[1] # id})
<1>1. /\ file \in Contents /\ lines \in Seq(Line) /\ Tree(L, taken) /\ DiffsFit(L, diff, taken)
      /\ DOMAIN taken \subseteq IDs /\ \A s \in DOMAIN taken : taken[s] \in Contents
      /\ head \in Saved(taken) /\ frontier = ContentOf(taken, head)
  BY DEF SnapShotInv
<1>2. /\ id # head /\ SonsOf(lines, id) = <<>>
      /\ diff' = [s \in DOMAIN diff \ {id} |-> diff[s]]
      /\ lines' = rest \o SubSeq(lines, Len(rest) + 1, Len(lines))
      /\ taken' = [s \in DOMAIN taken \ {id} |-> taken[s]]
      /\ UNCHANGED <<file, frontier, head>>
  BY DEF RemoveLeaf, Removable
<1>3. PICK tk, df, ls : tk = taken' /\ df = diff' /\ ls = lines'
  OBVIOUS
<1>4. /\ DOMAIN tk = DOMAIN taken \ {id} /\ \A s \in DOMAIN tk : tk[s] = taken[s]
      /\ DOMAIN df = DOMAIN diff \ {id} /\ \A s \in DOMAIN df : df[s] = diff[s]
  BY <1>2, <1>3
<1>5. \A l \in L : l[2] # id
  <2>1. Range(SonsOf(lines, id)) = {}
    BY <1>2 DEF Range
  <2>. QED
    BY <1>1, <2>1, SonsOfIs
<1>6. /\ ls \in Seq(Line) /\ Range(ls) \subseteq L
      /\ \A l \in L : l[1] # id => l \in Range(ls)
  <2>1. rest \in Seq(Line) /\ Len(rest) <= Len(lines) /\ Range(rest) = {l \in L : l[1] # id}
    BY <1>1, KeptIs
  <2>. HIDE DEF rest
  <2>2. PICK n \in Nat, m \in Nat : n = Len(rest) /\ m = Len(lines)
    BY <1>1, <2>1
  <2>3. PICK end \in Seq(Line) : /\ end = SubSeq(lines, n + 1, m)
                                 /\ Range(end) \subseteq L
    <3>1. PICK k \in 1 .. m + 1 : k = n + 1
      BY <2>1, <2>2
    <3>2. /\ SubSeq(lines, k, m) \in Seq(Line)
          /\ Len(SubSeq(lines, k, m)) = m - k + 1
          /\ \A i \in 1 .. m - k + 1 : SubSeq(lines, k, m)[i] = lines[k + i - 1]
      BY <1>1, <2>2
    <3>3. PICK end : end = SubSeq(lines, k, m)
      OBVIOUS
    <3>4. ASSUME NEW l \in Range(end) PROVE l \in L
      <4>1. PICK i \in 1 .. m - k + 1 : end[i] = l
        BY <3>2, <3>3 DEF Range
      <4>2. PICK j \in 1 .. m : j = k + i - 1
        OBVIOUS
      <4>3. lines[j] = l
        BY <3>2, <3>3, <4>1, <4>2
      <4>. QED
        BY <1>1, <2>2, <4>3, LinesOf
    <3>. QED
      BY <3>1, <3>2, <3>3, <3>4
  <2>4. rest \o end \in Seq(Line) /\ Range(rest \o end) = Range(rest) \cup Range(end)
    BY <2>1, RangeOfConcat
  <2>5. ls = rest \o end
    BY <1>2, <1>3, <2>2, <2>3
  <2>. QED
    BY <2>1, <2>3, <2>4, <2>5
<1>. HIDE DEF L, rest
<1>7. Saved(tk) = Saved(taken) \ {id} /\ \A s \in Saved(tk) : ContentOf(tk, s) = ContentOf(taken, s)
  BY <1>4, InitAssumption DEF Saved, ContentOf
<1>8. Tree(Range(ls), tk)
  <2>1. OneAncestor(Range(ls))
    BY <1>1, <1>6 DEF Tree, OneAncestor
  <2>2. \A l \in Range(ls) : l[2] \in Saved(tk)
    BY <1>1, <1>5, <1>6, <1>7 DEF Tree
  <2>3. \A s \in DOMAIN tk : \E l \in Range(ls) : l[1] = s
    BY <1>1, <1>4, <1>6 DEF Tree
  <2>4. Rising(Range(ls))
    BY <1>1, <1>6 DEF Tree, Rising
  <2>. QED
    BY <2>1, <2>2, <2>3, <2>4 DEF Tree
<1>9. DiffsFit(Range(ls), df, tk)
  <2>1. SUFFICES ASSUME NEW l \in Range(ls)
                 PROVE  /\ l[1] \in DOMAIN df <=> l[1] \in DOMAIN tk
                        /\ l[1] \in DOMAIN tk => df[l[1]] = GenerateDiff(ContentOf(tk, l[2]), tk[l[1]])
    BY DEF DiffsFit
  <2>2. /\ l[1] \in DOMAIN diff <=> l[1] \in DOMAIN taken
        /\ l[1] \in DOMAIN taken => diff[l[1]] = GenerateDiff(ContentOf(taken, l[2]), taken[l[1]])
    BY <1>1, <1>6 DEF DiffsFit
  <2>3. l[2] \in Saved(tk)
    BY <1>8 DEF Tree
  <2>. QED
    BY <1>4, <1>7, <2>2, <2>3
<1>10. /\ DOMAIN tk \subseteq IDs /\ \A s \in DOMAIN tk : tk[s] \in Contents
       /\ head \in Saved(tk) /\ frontier = ContentOf(tk, head)
  BY <1>1, <1>2, <1>4, <1>7
<1>. QED
  BY <1>1, <1>2, <1>3, <1>6, <1>8, <1>9, <1>10 DEF SnapShotInv

\* A son gets the diff from the ancestor of the removed snapshot, if the diffs
\* on the way and the two that are joined are still as they were.
LEMMA RebaseIs ==
  ASSUME SnapShotInv, NEW id \in DOMAIN taken, NEW anc, <<id, anc>> \in Range(lines),
         NEW son \in DOMAIN taken, <<son, id>> \in Range(lines),
         NEW df, df[id] = diff[id], df[son] = diff[son],
         \A s \in DiffsOf(FindWay(id)) : df[s] = diff[s]
  PROVE  /\ Rebase(FindWay(id), id, df, son)
              = [df EXCEPT ![son] = GenerateDiff(ContentOf(taken, anc), taken[son])]
         /\ son \in DOMAIN df => ~ Fails(FindWay(id), id, df, son)
<1>1. /\ lines \in Seq(Line) /\ Tree(Range(lines), taken) /\ DiffsFit(Range(lines), diff, taken)
      /\ \A s \in DOMAIN taken : taken[s] \in Bytes
      /\ id \in Saved(taken) /\ id \in NodesOf(Range(lines))
      /\ id # Initial /\ son # Initial
  <2>1. /\ lines \in Seq(Line) /\ Tree(Range(lines), taken) /\ DiffsFit(Range(lines), diff, taken)
        /\ \A s \in DOMAIN taken : taken[s] \in Bytes
        /\ DOMAIN taken \subseteq IDs
    BY ContentsAreBytes DEF SnapShotInv
  <2>2. \E l \in Range(lines) : l[1] = id
    BY <2>1 DEF Tree
  <2>. QED
    BY <2>1, <2>2, InitAssumption DEF Saved, NodesOf
<1>2. ApplyLongChange(FindWay(id), df) = taken[id]
  BY <1>1, WayRestores DEF ContentOf
<1>3. ApplyPatch(taken[id], df[id], TRUE) = ContentOf(taken, anc)
  <2>1. PICK w : w = Down(<<id, anc>>)
    OBVIOUS
  <2>2. w \in Steps(lines) /\ w.diff = id /\ w.from = id /\ w.to = anc /\ w.rev = TRUE
    BY <1>1, <2>1, StepsAre DEF Down, Tree
  <2>3. Restores(w, diff, taken)
    BY <1>1, <2>2, StepRestores
  <2>. QED
    BY <1>1, <2>2, <2>3 DEF Restores, ContentOf
<1>4. ApplyPatch(taken[id], df[son], FALSE) = taken[son]
  <2>1. PICK w : w = Up(<<son, id>>)
    OBVIOUS
  <2>2. w \in Steps(lines) /\ w.diff = son /\ w.from = id /\ w.to = son /\ w.rev = FALSE
    BY <1>1, <2>1, StepsAre DEF Up, Tree
  <2>3. Restores(w, diff, taken)
    BY <1>1, <2>2, StepRestores
  <2>. QED
    BY <1>1, <2>2, <2>3 DEF Restores, ContentOf
<1>5. ContentOf(taken, anc) # Endless /\ taken[son] # Endless
  <2>1. anc \in Saved(taken)
    <3>1. PICK l \in Range(lines) : l = <<id, anc>>
      OBVIOUS
    <3>. QED
      BY <1>1, <3>1 DEF Tree
  <2>. QED
    BY <1>1, <2>1, ContentsAreBytes, NotEndless
<1>. QED
  BY <1>2, <1>3, <1>4, <1>5 DEF Rebase, Fails

\* The sons of the first n rounds.
Done(sons, n) == {sons[i] : i \in 1 .. n}

\* df has the new diffs of the sons in S, and the old ones of all others.
HasRebased(df, S, anc) ==
  /\ DOMAIN df = DOMAIN diff
  /\ \A s \in DOMAIN diff : df[s] = IF s \in S THEN GenerateDiff(ContentOf(taken, anc), taken[s])
                                    ELSE diff[s]

\* A removal that does not spoil diffs gets through its loop, and after each
\* round the sons treated so far have their new diffs.
LEMMA RebasedIs ==
  ASSUME SnapShotInv, NEW id \in DOMAIN taken, NEW anc, <<id, anc>> \in Range(lines),
         NEW sons \in Seq(IDs), \A s \in Range(sons) : <<s, id>> \in Range(lines) /\ s \in DOMAIN taken,
         ~ Spoils(FindWay(id), sons), HasDiffs(FindWay(id), diff)
  PROVE  /\ HasRebased(Rebased(FindWay(id), id, sons)[Len(sons)], Range(sons), anc)
         /\ FailingRounds(FindWay(id), id, sons) = {}
<1>. DEFINE way == FindWay(id)
            Next1(x, n) == IF sons[n] \in DOMAIN diff THEN Rebase(way, id, x, sons[n]) ELSE x
            Is(f, m) == f = [n \in 0 .. m |-> IF n = 0 THEN diff ELSE Next1(f[n - 1], n)]
            N == Len(sons)
            k == CHOOSE f : Is(f, N)
<1>1. N \in Nat
  OBVIOUS
<1>2. Rebased(way, id, sons) = k
  BY DEF Rebased
<1>. HIDE DEF N, Next1
<1>3. \E f : Is(f, N)
  <2>. DEFINE Ok == {m \in Nat : \E f : Is(f, m)}
  <2>1. 0 \in Ok
    <3>1. Is([n \in 0 .. 0 |-> diff], 0)
      OBVIOUS
    <3>. QED
      BY <3>1
  <2>2. ASSUME NEW m \in 0 .. N - 1, m \in Ok PROVE m + 1 \in Ok
    <3>1. PICK f : Is(f, m)
      BY <2>2
    <3>. DEFINE g == [n \in 0 .. m + 1 |-> IF n <= m THEN f[n] ELSE Next1(f[n - 1], n)]
    <3>2. ASSUME NEW n \in 0 .. m + 1
          PROVE  g[n] = IF n = 0 THEN diff ELSE Next1(g[n - 1], n)
      <4>1. CASE n = 0
        BY <3>1, <4>1
      <4>2. CASE n # 0
        <5>1. n - 1 \in 0 .. m + 1 /\ n - 1 <= m
          BY <4>2
        <5>2. g[n - 1] = f[n - 1]
          BY <5>1
        <5>3. CASE n <= m
          <6>1. g[n] = f[n] /\ n \in 0 .. m
            BY <5>3
          <6>2. f[n] = Next1(f[n - 1], n)
            BY <3>1, <4>2, <6>1
          <6>. QED
            BY <4>2, <5>2, <6>1, <6>2
        <5>4. CASE ~ (n <= m)
          BY <4>2, <5>2, <5>4
        <5>. QED
          BY <5>3, <5>4
      <4>. QED
        BY <4>1, <4>2
    <3>3. PICK h : h = g
      OBVIOUS
    <3>4. h = [n \in 0 .. m + 1 |-> h[n]]
      BY <3>3
    <3>. HIDE DEF g
    <3>5. Is(h, m + 1)
      BY <3>2, <3>3, <3>4
    <3>6. \E e : Is(e, m + 1)
      BY <3>5
    <3>7. m + 1 \in Nat
      OBVIOUS
    <3>. QED
      BY ONLY <3>6, <3>7 DEF Ok
  <2>. HIDE DEF Ok
  <2>3. \A m \in 0 .. N : m \in Ok
    BY <1>1, <2>1, <2>2, UpTo
  <2>4. N \in Ok
    BY <1>1, <2>3
  <2>. QED
    BY <2>4 DEF Ok
<1>4. Is(k, N)
  BY <1>3
<1>. HIDE DEF k
<1>5. \A n \in 0 .. N : k[n] = IF n = 0 THEN diff ELSE Next1(k[n - 1], n)
  BY <1>4
<1>. HIDE DEF Is
<1>6. \A n \in 1 .. N : sons[n] \in Range(sons) /\ sons[n] \in DOMAIN taken /\ sons[n] # id
  <2>1. DOMAIN sons = 1 .. N
    BY DEF N
  <2>2. Rising(Range(lines)) /\ Range(lines) \subseteq Line
    BY LinesOf DEF SnapShotInv, Tree
  <2>3. PICK depth \in [IDs \cup {Initial} -> Nat] : \A l \in Range(lines) : depth[l[2]] < depth[l[1]]
    BY <2>2 DEF Rising
  <2>4. <<id, id>> \notin Range(lines)
    <3>1. SUFFICES ASSUME <<id, id>> \in Range(lines) PROVE FALSE
      OBVIOUS
    <3>2. PICK l \in Range(lines) : l = <<id, id>>
      BY <3>1
    <3>3. depth[id] < depth[id] /\ depth[id] \in Nat
      BY <2>2, <2>3, <3>2 DEF Line
    <3>. QED
      BY <3>3
  <2>. QED
    BY <2>1, <2>4 DEF Range
<1>7. /\ DiffsOf(way) \subseteq DOMAIN diff
      /\ \A s \in DOMAIN taken : s \in DOMAIN diff
  <2>1. \A s \in DOMAIN taken : \E l \in Range(lines) : l[1] = s
    BY DEF SnapShotInv, Tree
  <2>. QED
    BY <2>1 DEF HasDiffs, SnapShotInv, DiffsFit
<1>. DEFINE Good == {n \in 0 .. N : HasRebased(k[n], Done(sons, n), anc)}
<1>. HIDE DEF way
<1>13. ASSUME NEW n \in 0 .. N - 1, NEW m \in 1 .. N, m = n + 1, HasRebased(k[n], Done(sons, n), anc)
       PROVE  /\ Rebase(way, id, k[n], sons[m])
                   = [k[n] EXCEPT ![sons[m]] = GenerateDiff(ContentOf(taken, anc), taken[sons[m]])]
              /\ ~ Fails(way, id, k[n], sons[m])
  <2>1. PICK df : df = k[n]
    OBVIOUS
  <2>2. PICK son \in DOMAIN taken : son = sons[m]
    BY <1>6
  <2>3. \A i \in 1 .. n : i \in 1 .. N /\ i < m
    BY <1>1, <1>13
  <2>4. id \notin Done(sons, n)
    BY <1>6, <2>3 DEF Done
  <2>5. son \notin Done(sons, n) /\ \A s \in DiffsOf(way) : s \notin Done(sons, n)
    <3>1. DOMAIN sons = 1 .. N
      BY DEF N
    <3>2. \A i \in 1 .. n : sons[i] \notin DiffsOf(way) \cup {sons[m]}
      BY <2>3, <3>1 DEF Spoils, way
    <3>. QED
      BY <2>2, <3>2 DEF Done
  <2>6. /\ DOMAIN df = DOMAIN diff /\ df[id] = diff[id] /\ df[son] = diff[son]
        /\ \A s \in DiffsOf(way) : df[s] = diff[s]
    BY <1>7, <1>13, <2>1, <2>4, <2>5 DEF HasRebased
  <2>7. <<son, id>> \in Range(lines) /\ son \in DOMAIN df
    BY <1>6, <1>7, <2>2, <2>6
  <2>8. /\ Rebase(way, id, df, son) = [df EXCEPT ![son] = GenerateDiff(ContentOf(taken, anc), taken[son])]
        /\ ~ Fails(way, id, df, son)
    BY <2>6, <2>7, RebaseIs DEF way
  <2>. QED
    BY <2>1, <2>2, <2>8
<1>8. 0 \in Good
  <2>1. 0 \in 0 .. N /\ Done(sons, 0) = {}
    BY <1>1 DEF Done
  <2>2. k[0] = diff
    BY <1>5, <2>1
  <2>. QED
    BY <2>1, <2>2 DEF HasRebased
<1>9. ASSUME NEW n \in 0 .. N - 1, n \in Good PROVE n + 1 \in Good
  <2>1. PICK m \in 1 .. N : m = n + 1
    BY <1>1
  <2>2. m - 1 = n /\ m # 0 /\ m \in 0 .. N
    BY <1>1, <2>1
  <2>3. PICK df, new : df = k[n] /\ new = k[m]
    OBVIOUS
  <2>4. HasRebased(df, Done(sons, n), anc)
    BY <1>9, <2>3
  <2>5. PICK son \in DOMAIN taken : son = sons[m]
    BY <1>6
  <2>6. new = Rebase(way, id, df, son)
    BY <1>5, <1>7, <2>2, <2>3, <2>5 DEF Next1
  <2>7. Done(sons, m) = Done(sons, n) \cup {son}
    BY <2>1, <2>5 DEF Done
  <2>8. new = [df EXCEPT ![son] = GenerateDiff(ContentOf(taken, anc), taken[son])]
    BY <1>13, <2>1, <2>3, <2>4, <2>5, <2>6
  <2>9. /\ DOMAIN new = DOMAIN df /\ DOMAIN df = DOMAIN diff
        /\ \A s \in DOMAIN df : new[s] = IF s = son THEN GenerateDiff(ContentOf(taken, anc), taken[son])
                                         ELSE df[s]
    BY <2>4, <2>8 DEF HasRebased
  <2>10. HasRebased(new, Done(sons, m), anc)
    BY <2>4, <2>7, <2>9 DEF HasRebased
  <2>. QED
    BY <2>1, <2>2, <2>3, <2>10
<1>10. Done(sons, N) = Range(sons)
  BY DEF N, Range, Done
<1>11. \A n \in 0 .. N : HasRebased(k[n], Done(sons, n), anc)
  <2>. HIDE DEF Good
  <2>1. \A n \in 0 .. N : n \in Good
    BY ONLY <1>1, <1>8, <1>9, UpTo
  <2>. QED
    BY <2>1 DEF Good
<1>12. HasRebased(k[N], Range(sons), anc)
  <2>1. N \in 0 .. N
    BY <1>1
  <2>. QED
    BY <1>10, <1>11, <2>1
<1>14. FailingRounds(way, id, sons) = {}
  <2>1. SUFFICES ASSUME NEW m \in 1 .. N PROVE ~ Fails(way, id, k[m - 1], sons[m])
    BY <1>2 DEF FailingRounds, N
  <2>2. PICK n \in 0 .. N - 1 : n = m - 1
    BY <1>1
  <2>3. m = n + 1 /\ n \in 0 .. N
    BY <1>1, <2>2
  <2>4. HasRebased(k[n], Done(sons, n), anc)
    BY <1>11, <2>3
  <2>. QED
    BY <1>13, <2>2, <2>3, <2>4
<1>. QED
  BY <1>2, <1>12, <1>14 DEF way, N

\* What a removal with sons finds: its ancestor, and that it and its sons were
\* taken.
LEMMA InnerIs ==
  ASSUME SnapShotInv, NEW id \in IDs, HasAnc(lines, id),
         CanRebase(FindWay(id), id, SonsOf(lines, id)), ~ Spoils(FindWay(id), SonsOf(lines, id))
  PROVE  /\ SonsOf(lines, id) \in Seq(IDs)
         /\ id \in DOMAIN taken
         /\ \A s \in Range(SonsOf(lines, id)) : <<s, id>> \in Range(lines) /\ s \in DOMAIN taken
         /\ <<id, AncOf(lines, id)>> \in Range(lines)
<1>. DEFINE L == Range(lines)
            sons == SonsOf(lines, id)
<1>1. lines \in Seq(Line) /\ Tree(L, taken) /\ DiffsFit(L, diff, taken)
  BY DEF SnapShotInv
<1>2. /\ sons \in Seq(IDs) /\ DOMAIN sons = 1 .. Len(sons)
      /\ \A s : s \in Range(sons) <=> \E l \in L : l[1] = s /\ l[2] = id
  BY <1>1, SonsOfIs
<1>3. <<id, AncOf(lines, id)>> \in L
  <2>1. PICK l \in L : l[1] = id
    <3>1. DOMAIN lines = 1 .. Len(lines)
      BY <1>1
    <3>. QED
      BY <1>1, <3>1, LinesOf DEF HasAnc
  <2>2. AncOf(lines, id) = l[2]
    BY <1>1, <2>1, AncOfIs DEF Tree
  <2>3. l = <<id, l[2]>>
    BY <1>1, <2>1, LinesOf
  <2>. QED
    BY <2>2, <2>3
<1>4. ASSUME NEW s \in Range(sons) PROVE <<s, id>> \in L
  <2>1. PICK l \in L : l[1] = s /\ l[2] = id
    BY <1>2
  <2>2. l = <<l[1], l[2]>>
    BY <1>1, LinesOf
  <2>. QED
    BY <2>1, <2>2
<1>5. \A s \in Range(sons) \cup {id} : s \in DOMAIN diff
  <2>1. /\ sons # <<>> /\ {id, sons[1]} \subseteq DOMAIN diff
        /\ \A m, n \in DOMAIN sons : m < n => sons[n] \in DOMAIN diff
    BY DEF CanRebase, Spoils
  <2>. HIDE DEF sons
  <2>2. ASSUME NEW n \in DOMAIN sons PROVE sons[n] \in DOMAIN diff
    <3>1. n \in 1 .. Len(sons) /\ Len(sons) \in Nat
      BY <1>2
    <3>2. CASE n = 1
      BY <2>1, <3>2
    <3>3. CASE n # 1
      <4>1. 1 \in DOMAIN sons /\ 1 < n
        BY <1>2, <3>1, <3>3
      <4>. QED
        BY <2>1, <4>1
    <3>. QED
      BY <3>2, <3>3
  <2>. QED
    BY <2>1, <2>2 DEF Range
<1>. HIDE DEF L, sons
<1>6. \A s \in Range(sons) \cup {id} : s \in DOMAIN taken
  <2>1. ASSUME NEW l \in L, l[1] \in DOMAIN diff PROVE l[1] \in DOMAIN taken
    BY <1>1, <2>1 DEF DiffsFit
  <2>2. <<id, AncOf(lines, id)>>[1] = id
    OBVIOUS
  <2>3. \A s \in Range(sons) : <<s, id>>[1] = s
    OBVIOUS
  <2>. QED
    BY <1>3, <1>4, <1>5, <2>1, <2>2, <2>3
<1>. QED
  BY <1>2, <1>3, <1>4, <1>6 DEF L, sons

\* The sons of the removed snapshot become sons of its ancestor.
LEMMA RemoveInnerStep ==
  ASSUME SnapShotInv, NEW id \in IDs, RemoveInner(id), ~ spoiled'
  PROVE  SnapShotInv'
<1>. DEFINE L == Range(lines)
            way == FindWay(id)
            sons == SonsOf(lines, id)
            rest == Kept(lines, {l \in L : l[1] # id /\ l[2] # id})
<1>1. /\ file \in Contents /\ lines \in Seq(Line) /\ Tree(L, taken) /\ DiffsFit(L, diff, taken)
      /\ DOMAIN taken \subseteq IDs /\ \A s \in DOMAIN taken : taken[s] \in Contents
      /\ head \in Saved(taken) /\ frontier = ContentOf(taken, head)
  BY DEF SnapShotInv
<1>2. /\ id # head /\ HasAnc(lines, id)
      /\ ~ Spoils(way, sons) /\ CanRebase(way, id, sons)
      /\ lines' = rest \o [i \in DOMAIN sons |-> <<sons[i], AncOf(lines, id)>>]
      /\ taken' = [s \in DOMAIN taken \ {id} |-> taken[s]]
      /\ UNCHANGED <<file, frontier, head>>
  BY DEF RemoveInner, Removable
<1>3. diff' = Rebased(way, id, sons)[Len(sons)]
  BY DEF RemoveInner
<1>4. \A s : s \in Range(sons) <=> \E l \in L : l[1] = s /\ l[2] = id
  BY <1>1, SonsOfIs
<1>4a. sons \in Seq(IDs) /\ DOMAIN sons = 1 .. Len(sons)
  BY <1>1, SonsOfIs
<1>5. /\ rest \in Seq(Line) /\ Range(rest) = {l \in L : l[1] # id /\ l[2] # id}
  BY <1>1, KeptIs
<1>6. PICK anc : <<id, anc>> \in L /\ AncOf(lines, id) = anc
  BY <1>2, InnerIs
<1>9. Range(sons) \cup {id} \subseteq DOMAIN taken
  BY <1>2, InnerIs
<1>. HIDE DEF L, rest, sons, way
<1>7. anc \in Saved(taken) /\ anc \in IDs \cup {Initial}
  <2>1. PICK l \in L : l = <<id, anc>>
    BY <1>6
  <2>2. l[2] = anc
    BY <2>1
  <2>. QED
    BY <1>1, <2>2 DEF Tree, Saved
<1>8. \A s \in Range(sons) : <<s, id>> \in L /\ s \in IDs
  BY <1>1, <1>4, LinesOf DEF L
<1>10. PICK depth \in [IDs \cup {Initial} -> Nat] : \A l \in L : depth[l[2]] < depth[l[1]]
  BY <1>1 DEF Tree, Rising
<1>11. depth[anc] < depth[id] /\ \A s \in Range(sons) : depth[id] < depth[s]
  <2>1. PICK l \in L : l = <<id, anc>>
    BY <1>6
  <2>2. ASSUME NEW s \in Range(sons) PROVE depth[id] < depth[s]
    <3>1. PICK m \in L : m = <<s, id>>
      BY <1>8
    <3>. QED
      BY <1>10, <3>1
  <2>. QED
    BY <1>10, <2>1, <2>2
<1>12. anc # id /\ id \notin Range(sons)
  <2>1. depth[id] \in Nat
    OBVIOUS
  <2>. QED
    BY <1>11, <2>1
<1>13. PICK tk, df, ls : tk = taken' /\ df = diff' /\ ls = lines'
  OBVIOUS
<1>14. DOMAIN tk = DOMAIN taken \ {id} /\ \A s \in DOMAIN tk : tk[s] = taken[s]
  BY <1>2, <1>13
<1>15. HasRebased(df, Range(sons), anc)
  <2>1. \A s \in Range(sons) : <<s, id>> \in Range(lines) /\ s \in DOMAIN taken
    BY <1>8, <1>9 DEF L
  <2>2. id \in DOMAIN taken /\ <<id, anc>> \in Range(lines)
    BY <1>6, <1>9 DEF L
  <2>3. PICK mine \in Seq(IDs) : mine = sons
    BY <1>4a
  <2>4. ~ Spoils(FindWay(id), mine)
    BY <1>2, <2>3 DEF way
  <2>5. HasDiffs(FindWay(id), diff)
    BY <1>2 DEF way, CanRebase
  <2>6. HasRebased(Rebased(FindWay(id), id, mine)[Len(mine)], Range(mine), anc)
    BY <2>1, <2>2, <2>3, <2>4, <2>5, RebasedIs
  <2>. QED
    BY <1>3, <1>13, <2>3, <2>6 DEF way
<1>16. /\ ls \in Seq(Line)
       /\ \A l : l \in Range(ls) <=> \/ l \in L /\ l[1] # id /\ l[2] # id
                                     \/ \E s \in Range(sons) : l = <<s, anc>>
  <2>1. PICK moved \in Seq(Line) : /\ moved = [i \in DOMAIN sons |-> <<sons[i], anc>>]
                                   /\ Range(moved) = {<<s, anc>> : s \in Range(sons)}
    <3>1. PICK n \in Nat : n = Len(sons)
      <4>1. Len(sons) \in Nat
        BY <1>4a, LenProperties
      <4>. QED
        BY <4>1
    <3>2. PICK moved : moved = [i \in DOMAIN sons |-> <<sons[i], anc>>]
      OBVIOUS
    <3>3. DOMAIN moved = 1 .. n /\ \A i \in 1 .. n : moved[i] = <<sons[i], anc>>
      BY <1>4a, <3>1, <3>2
    <3>4. \A i \in 1 .. n : sons[i] \in IDs
      BY <1>4a, <3>1
    <3>5. moved \in [1 .. n -> Line]
      BY <1>4a, <1>7, <3>1, <3>2, <3>4 DEF Line
    <3>6. moved \in Seq(Line)
      BY <3>5
    <3>7. Range(moved) = {<<s, anc>> : s \in Range(sons)}
      <4>1. Range(moved) = {moved[i] : i \in 1 .. n} /\ Range(sons) = {sons[i] : i \in 1 .. n}
        BY <1>4a, <3>1, <3>3 DEF Range
      <4>2. {moved[i] : i \in 1 .. n} = {<<s, anc>> : s \in {sons[i] : i \in 1 .. n}}
        BY <3>3
      <4>. QED
        BY <4>1, <4>2
    <3>. QED
      BY <3>2, <3>6, <3>7
  <2>2. rest \o moved \in Seq(Line) /\ Range(rest \o moved) = Range(rest) \cup Range(moved)
    BY <1>5, RangeOfConcat
  <2>3. ls = rest \o moved
    BY <1>2, <1>6, <1>13, <2>1
  <2>. QED
    BY <1>5, <2>1, <2>2, <2>3
<1>17. Saved(tk) = Saved(taken) \ {id} /\ \A s \in Saved(tk) : ContentOf(tk, s) = ContentOf(taken, s)
  BY <1>14, InitAssumption DEF Saved, ContentOf
<1>18. ASSUME NEW l \in L, l[2] # id PROVE l[1] \notin Range(sons)
  <2>1. SUFFICES ASSUME l[1] \in Range(sons) PROVE FALSE
    OBVIOUS
  <2>2. PICK m \in L : m[1] = l[1] /\ m[2] = id
    BY <1>4, <2>1
  <2>. QED
    BY <1>1, <1>18, <2>2 DEF Tree, OneAncestor
<1>19. Tree(Range(ls), tk)
  <2>1. OneAncestor(Range(ls))
    <3>1. SUFFICES ASSUME NEW l \in Range(ls), NEW m \in Range(ls), l[1] = m[1] PROVE l[2] = m[2]
      BY DEF OneAncestor
    <3>. QED
      BY <1>1, <1>16, <1>18, <3>1 DEF Tree, OneAncestor
  <2>2. \A l \in Range(ls) : l[2] \in Saved(tk)
    BY <1>1, <1>7, <1>12, <1>16, <1>17 DEF Tree
  <2>3. ASSUME NEW s \in DOMAIN tk PROVE \E l \in Range(ls) : l[1] = s
    <3>1. PICK l \in L : l[1] = s
      BY <1>1, <1>14 DEF Tree
    <3>2. CASE l[2] = id
      <4>1. <<s, anc>> \in Range(ls) /\ <<s, anc>>[1] = s
        BY <1>4, <1>16, <3>1, <3>2
      <4>. QED
        BY <4>1
    <3>3. CASE l[2] # id
      BY <1>14, <1>16, <3>1, <3>3
    <3>. QED
      BY <3>2, <3>3
  <2>4. Rising(Range(ls))
    <3>1. ASSUME NEW s \in Range(sons) PROVE depth[anc] < depth[s]
      <4>1. depth[anc] \in Nat /\ depth[id] \in Nat /\ depth[s] \in Nat
        BY <1>7, <1>8
      <4>2. depth[anc] < depth[id] /\ depth[id] < depth[s]
        BY <1>11
      <4>. QED
        BY <4>1, <4>2
    <3>2. \A l \in Range(ls) : depth[l[2]] < depth[l[1]]
      BY <1>10, <1>16, <3>1
    <3>. QED
      BY <3>2 DEF Rising
  <2>. QED
    BY <2>1, <2>2, <2>3, <2>4 DEF Tree
<1>20. DiffsFit(Range(ls), df, tk)
  <2>1. SUFFICES ASSUME NEW l \in Range(ls)
                 PROVE  /\ l[1] \in DOMAIN df <=> l[1] \in DOMAIN tk
                        /\ l[1] \in DOMAIN tk => df[l[1]] = GenerateDiff(ContentOf(tk, l[2]), tk[l[1]])
    BY DEF DiffsFit
  <2>2. l[2] \in Saved(tk)
    BY <1>19 DEF Tree
  <2>3. CASE l \in L /\ l[1] # id /\ l[2] # id
    <3>1. /\ l[1] \in DOMAIN diff <=> l[1] \in DOMAIN taken
          /\ l[1] \in DOMAIN taken => diff[l[1]] = GenerateDiff(ContentOf(taken, l[2]), taken[l[1]])
      BY <1>1, <2>3 DEF DiffsFit
    <3>2. l[1] \notin Range(sons)
      BY <1>18, <2>3
    <3>. QED
      BY <1>14, <1>15, <1>17, <2>2, <2>3, <3>1, <3>2 DEF HasRebased
  <2>4. CASE \E s \in Range(sons) : l = <<s, anc>>
    <3>1. PICK s \in Range(sons) : l = <<s, anc>>
      BY <2>4
    <3>2. l[1] = s /\ l[2] = anc /\ s # id /\ s \in DOMAIN taken /\ s \in DOMAIN diff
      <4>1. PICK m \in L : m = <<s, id>>
        BY <1>8
      <4>2. m[1] = s
        BY <4>1
      <4>. QED
        BY <1>1, <1>9, <1>12, <3>1, <4>1, <4>2 DEF DiffsFit
    <3>3. df[s] = GenerateDiff(ContentOf(taken, anc), taken[s]) /\ s \in DOMAIN df
      BY <1>15, <3>2 DEF HasRebased
    <3>. QED
      BY <1>14, <1>17, <2>2, <3>2, <3>3
  <2>. QED
    BY <1>16, <2>3, <2>4
<1>21. /\ DOMAIN tk \subseteq IDs /\ \A s \in DOMAIN tk : tk[s] \in Contents
       /\ head \in Saved(tk) /\ frontier = ContentOf(tk, head)
  BY <1>1, <1>2, <1>14, <1>17
<1>. QED
  BY <1>1, <1>2, <1>13, <1>16, <1>19, <1>20, <1>21 DEF SnapShotInv

\* A removal that does not spoil diffs gets through its loop.
LEMMA LoopEnds ==
  ASSUME SnapShotInv, NEW id \in IDs, HasAnc(lines, id),
         CanRebase(FindWay(id), id, SonsOf(lines, id)), ~ Spoils(FindWay(id), SonsOf(lines, id))
  PROVE  FailingRounds(FindWay(id), id, SonsOf(lines, id)) = {}
<1>1. PICK sons \in Seq(IDs) : sons = SonsOf(lines, id)
  BY InnerIs
<1>2. /\ id \in DOMAIN taken /\ <<id, AncOf(lines, id)>> \in Range(lines)
      /\ \A s \in Range(sons) : <<s, id>> \in Range(lines) /\ s \in DOMAIN taken
  BY <1>1, InnerIs
<1>3. ~ Spoils(FindWay(id), sons) /\ HasDiffs(FindWay(id), diff)
  BY <1>1 DEF CanRebase
<1>4. FailingRounds(FindWay(id), id, sons) = {}
  BY <1>2, <1>3, RebasedIs
<1>. QED
  BY <1>1, <1>4

-----------------------------------------------------------------------------
(* The theorems *)

\* A removal whose loop is left early has spoiled the diffs.
LEMMA FailingStep ==
  ASSUME SnapShotInv, NEW id \in IDs, RemoveInnerFails(id)
  PROVE  spoiled'
<1>. DEFINE sons == SonsOf(lines, id)
<1>1. /\ HasAnc(lines, id) /\ CanRebase(FindWay(id), id, sons)
      /\ FailingRounds(FindWay(id), id, sons) # {}
      /\ spoiled' = Spoils(FindWay(id), sons)
  BY DEF RemoveInnerFails
<1>2. ~ Spoils(FindWay(id), sons) => FailingRounds(FindWay(id), id, sons) = {}
  BY <1>1, LoopEnds
<1>. QED
  BY <1>1, <1>2

\* The invariant holds until diffs are spoiled.
SnapInv == ~spoiled => SnapShotInv

LEMMA EveryStep ==
  ASSUME SnapInv, [Next]_vars
  PROVE  SnapInv'
<1>1. SUFFICES ASSUME ~ spoiled' PROVE SnapShotInv'
  BY DEF SnapInv
<1>2. CASE UNCHANGED vars
  BY <1>1, <1>2 DEF vars, SnapInv, SnapShotInv
<1>3. CASE Edit \/ CheckOutFrontier
  <2>1. ~ spoiled
    BY <1>1, <1>3 DEF Edit, CheckOutFrontier
  <2>. QED
    BY <1>3, <2>1, FileStep DEF SnapInv
<1>4. ASSUME NEW id, SwitchToSnapShot(id) PROVE SnapShotInv'
  <2>1. ~ spoiled
    BY <1>4 DEF SwitchToSnapShot
  <2>. QED
    BY <1>4, <2>1, SwitchStep DEF SnapInv
<1>5. ASSUME NEW id \in IDs, CreateSnapShot(id) PROVE SnapShotInv'
  <2>1. ~ spoiled
    BY <1>5 DEF CreateSnapShot
  <2>. QED
    BY <1>5, <2>1, CreateStep DEF SnapInv
<1>6. ASSUME NEW id \in IDs, RemoveLeaf(id) PROVE SnapShotInv'
  <2>1. ~ spoiled
    BY <1>6 DEF RemoveLeaf, Removable
  <2>. QED
    BY <1>6, <2>1, RemoveLeafStep DEF SnapInv
<1>7. ASSUME NEW id \in IDs, RemoveInner(id) PROVE SnapShotInv'
  <2>1. ~ spoiled
    BY <1>7 DEF RemoveInner, Removable
  <2>. QED
    BY <1>1, <1>7, <2>1, RemoveInnerStep DEF SnapInv
<1>8. ASSUME NEW id \in IDs, RemoveInnerFails(id) PROVE SnapShotInv'
  <2>1. ~ spoiled
    BY <1>8 DEF RemoveInnerFails, Removable
  <2>. QED
    BY <1>1, <1>8, <2>1, FailingStep DEF SnapInv
<1>. QED
  BY <1>2, <1>3, <1>4, <1>5, <1>6, <1>7, <1>8 DEF Next

\* The tree of the meta file, the diffs between its snapshots and the frontier
\* stay consistent, whatever is taken, restored and removed, lines that a
\* removal leaves behind or doubles included, as long as no removal spoils the
\* diffs: in a later round of its loop it needs one that it has rewritten, on
\* its way from HEAD or of a son whose line is doubled, or lacks one
\* (snapshot.cpp, CreateSnapShot, SwitchToSnapShot and RemoveSnapShot).
THEOREM TreeStaysSound == Spec => [](~spoiled => SnapShotInv)
<1>1. Init => SnapInv
  BY InitStarts DEF SnapInv
<1>2. SnapInv /\ [Next]_vars => SnapInv'
  BY EveryStep
<1>3. Spec => []SnapInv
  BY <1>1, <1>2, PTL DEF Spec
<1>4. SnapInv <=> (~spoiled => SnapShotInv)
  BY DEF SnapInv
<1>. QED
  BY <1>3, <1>4, PTL

\* Until then, a snapshot that was taken and not removed can be restored from
\* wherever HEAD is: the search finds a way whose diffs are all there, and they
\* turn the frontier into what was taken (snapshot.cpp, FindWay and
\* ApplyLongChange).
THEOREM SnapshotsAreRestored == Spec => []SnapshotsRestore
<1>1. (~spoiled => SnapShotInv) => SnapshotsRestore
  <2>1. SUFFICES ASSUME SnapShotInv, NEW id \in DOMAIN taken PROVE CanRestore(id)
    BY DEF SnapshotsRestore
  <2>2. PICK l \in Range(lines) : l[1] = id
    BY <2>1 DEF SnapShotInv, Tree
  <2>3. Known(lines, id)
    BY <2>1, <2>2, KnownIs DEF SnapShotInv
  <2>4. id \in NodesOf(Range(lines)) /\ id \in Saved(taken) /\ id # Initial
    BY <2>1, <2>2, InitAssumption DEF NodesOf, Saved, SnapShotInv
  <2>5. HasDiffs(FindWay(id), diff)
    BY <2>1, <2>4, FindWayIs
  <2>6. ApplyLongChange(FindWay(id), diff) = ContentOf(taken, id)
    BY <2>1, <2>4, WayRestores
  <2>. QED
    BY <2>3, <2>4, <2>5, <2>6 DEF CanRestore, RestoredAs, ContentOf
<1>2. Spec => [](~spoiled => SnapShotInv)
  BY TreeStaysSound
<1>. QED
  BY <1>1, <1>2, PTL

\* Until then, the frontier is what the snapshot at HEAD was taken of: a
\* check-out restores that, and the next diff starts from it.
THEOREM FrontierStaysAtHead == Spec => []FrontierIsHead
<1>1. (~spoiled => SnapShotInv) => FrontierIsHead
  BY DEF SnapShotInv, FrontierIsHead, ContentOf
<1>2. Spec => [](~spoiled => SnapShotInv)
  BY TreeStaysSound
<1>. QED
  BY <1>1, <1>2, PTL

\* A removal that would not spoil diffs finds in every round all it needs, and
\* no length in it wraps around (snapshot.cpp, the loop of RemoveSnapShot): what
\* spoils the diffs is what Spoils names and nothing else.
THEOREM RemovalsAlwaysGetThrough == Spec => []RemovalsGetThrough
<1>1. (~spoiled => SnapShotInv) => RemovalsGetThrough
  BY LoopEnds DEF RemovalsGetThrough
<1>2. Spec => [](~spoiled => SnapShotInv)
  BY TreeStaysSound
<1>. QED
  BY <1>1, <1>2, PTL

=============================================================================
