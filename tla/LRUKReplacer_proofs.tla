------------------------ MODULE LRUKReplacer_proofs ------------------------
(***************************************************************************)
(* Proofs about LRUKReplacer: its chains and its count are sound whatever   *)
(* the calls, and it implements LRUKPolicy.                                *)
(***************************************************************************)
EXTENDS LRUKReplacer, FiniteSetTheorems, SequenceTheorems,
        WellFoundedInduction, TLAPS

-----------------------------------------------------------------------------
(* Numbers and sequences *)

\* A set of natural numbers that is not empty has a least one.
LEMMA MinIs ==
  ASSUME NEW I \in SUBSET Nat, I # {}
  PROVE  /\ Min(I) \in I
         /\ \A i \in I : Min(I) <= i
<1>1. PICK x \in I : \A y \in I : ~ (<<y, x>> \in OpToRel(<, Nat))
  BY NatLessThanWellFounded, WFMin
<1>2. ASSUME NEW y \in I PROVE x <= y
  <2>1. ~ (y < x)
    BY <1>1 DEF OpToRel
  <2>. QED
    BY <2>1
<1>. QED
  BY <1>2 DEF Min

\* A set of natural numbers with a bound has a greatest one.
LEMMA MaxIs ==
  ASSUME NEW I \in SUBSET Nat, I # {}, NEW b \in Nat, \A i \in I : i <= b
  PROVE  /\ Max(I) \in I
         /\ \A i \in I : Max(I) >= i
<1>. DEFINE Bounds == {n \in Nat : \A i \in I : i <= n}
<1>1. Bounds \in SUBSET Nat /\ b \in Bounds
  OBVIOUS
<1>2. PICK m \in Bounds : \A n \in Bounds : m <= n
  BY <1>1, MinIs
<1>3. m \in I
  <2>1. SUFFICES ASSUME m \notin I PROVE FALSE
    OBVIOUS
  <2>2. PICK i \in I : TRUE
    OBVIOUS
  <2>3. m \in Nat /\ m # 0
    BY <2>1, <2>2
  <2>4. m - 1 \in Bounds
    BY <2>1, <2>3
  <2>. QED
    BY <1>2, <2>3, <2>4
<1>. QED
  BY <1>3 DEF Max

\* Removing a place of a sequence moves what is behind it up.
LEMMA RemoveAtIs ==
  ASSUME NEW S, NEW s \in Seq(S), NEW i \in 1 .. Len(s)
  PROVE  /\ RemoveAt(s, i) \in Seq(S)
         /\ Len(RemoveAt(s, i)) = Len(s) - 1
         /\ \A k \in 1 .. Len(s) - 1 : RemoveAt(s, i)[k] = IF k < i THEN s[k] ELSE s[k + 1]
<1>. DEFINE a == SubSeq(s, 1, i - 1)
            b == SubSeq(s, i + 1, Len(s))
<1>1. a \in Seq(S) /\ Len(a) = i - 1 /\ \A k \in 1 .. i - 1 : a[k] = s[k]
  OBVIOUS
<1>2. b \in Seq(S) /\ Len(b) = Len(s) - i /\ \A k \in 1 .. Len(s) - i : b[k] = s[i + k]
  OBVIOUS
<1>3. /\ a \o b \in Seq(S)
      /\ Len(a \o b) = Len(s) - 1
      /\ \A k \in 1 .. Len(s) - 1 : (a \o b)[k] = IF k < i THEN s[k] ELSE s[k + 1]
  <2>. HIDE DEF a, b
  <2>1. Len(a) + Len(b) = Len(s) - 1
    BY <1>1, <1>2
  <2>2. /\ a \o b \in Seq(S)
        /\ Len(a \o b) = Len(a) + Len(b)
        /\ \A k \in 1 .. Len(a) + Len(b) : (a \o b)[k] = IF k <= Len(a) THEN a[k] ELSE b[k - Len(a)]
    BY <1>1, <1>2, ConcatProperties
  <2>3. ASSUME NEW k \in 1 .. Len(s) - 1
        PROVE  (a \o b)[k] = IF k < i THEN s[k] ELSE s[k + 1]
    <3>1. CASE k < i
      BY <1>1, <2>1, <2>2, <3>1
    <3>2. CASE ~ (k < i)
      BY <1>1, <1>2, <2>1, <2>2, <3>2
    <3>. QED
      BY <3>1, <3>2
  <2>. QED
    BY <2>1, <2>2, <2>3
<1>. QED
  BY <1>3 DEF RemoveAt

-----------------------------------------------------------------------------
(* The LRU chain *)

\* Unlinking an element takes out one place where it is.
LEMMA RemoveFirstIs ==
  ASSUME NEW S, NEW s \in Seq(S), NEW e \in ToSet(s)
  PROVE  \E i \in 1 .. Len(s) : s[i] = e /\ RemoveFirst(s, e) = RemoveAt(s, i)
<1>. DEFINE I == {i \in 1 .. Len(s) : s[i] = e}
<1>1. I \in SUBSET Nat /\ I # {}
  BY DEF ToSet
<1>2. Min(I) \in I
  BY <1>1, MinIs
<1>3. SelectInSeq(s, LAMBDA v : v = e) = Min(I)
  BY <1>1 DEF SelectInSeq
<1>4. RemoveFirst(s, e) = RemoveAt(s, Min(I))
  BY <1>1, <1>3 DEF RemoveFirst
<1>. QED
  BY <1>2, <1>4

\* Unlinking an element that is there once leaves the others, in their order.
LEMMA RemoveFirstKeeps ==
  ASSUME NEW S, NEW s \in Seq(S), IsInjective(s), NEW e,
         NEW r, r = RemoveFirst(s, e)
  PROVE  /\ r \in Seq(S)
         /\ IsInjective(r)
         /\ \A x : x \in ToSet(r) <=> x \in ToSet(s) /\ x # e
         /\ \A x, y : Before(r, x, y) => Before(s, x, y)
<1>1. CASE e \notin ToSet(s)
  <2>1. r = s
    BY <1>1 DEF RemoveFirst, ToSet
  <2>. QED
    BY <1>1, <2>1
<1>2. CASE e \in ToSet(s)
  <2>1. PICK i \in 1 .. Len(s) : s[i] = e /\ r = RemoveAt(s, i)
    BY <1>2, RemoveFirstIs
  <2>2. /\ r \in Seq(S)
        /\ Len(r) = Len(s) - 1
        /\ \A k \in 1 .. Len(s) - 1 : r[k] = IF k < i THEN s[k] ELSE s[k + 1]
    BY <2>1, RemoveAtIs
  <2>3. DOMAIN r = 1 .. Len(s) - 1 /\ DOMAIN s = 1 .. Len(s)
    BY <2>2
  <2>. DEFINE old(k) == IF k < i THEN k ELSE k + 1
  <2>4. ASSUME NEW k \in DOMAIN r
        PROVE  old(k) \in DOMAIN s /\ r[k] = s[old(k)] /\ old(k) # i
    BY <2>2, <2>3
  <2>5. ASSUME NEW k \in DOMAIN r, NEW l \in DOMAIN r
        PROVE  (k < l => old(k) < old(l)) /\ (old(k) = old(l) => k = l)
    BY <2>3
  <2>6. ASSUME NEW k \in DOMAIN s, k # i
        PROVE  \E l \in DOMAIN r : old(l) = k
    <3>1. CASE k < i
      BY <2>3, <3>1
    <3>2. CASE k > i
      <4>1. k - 1 \in DOMAIN r /\ old(k - 1) = k
        BY <2>3, <3>2
      <4>. QED
        BY <4>1
    <3>. QED
      BY <2>3, <2>6, <3>1, <3>2
  <2>7. IsInjective(r)
    <3>. HIDE DEF old
    <3>. QED
      BY <2>4, <2>5 DEF IsInjective
  <2>8. ASSUME NEW x PROVE x \in ToSet(r) <=> x \in ToSet(s) /\ x # e
    <3>. HIDE DEF old
    <3>1. ASSUME x \in ToSet(r) PROVE x \in ToSet(s) /\ x # e
      BY <2>1, <2>3, <2>4, <3>1 DEF ToSet, IsInjective
    <3>2. ASSUME x \in ToSet(s), x # e PROVE x \in ToSet(r)
      BY <2>1, <2>4, <2>6, <3>2 DEF ToSet
    <3>. QED
      BY <3>1, <3>2
  <2>9. ASSUME NEW x, NEW y, Before(r, x, y) PROVE Before(s, x, y)
    <3>. HIDE DEF old
    <3>. QED
      BY <2>4, <2>5, <2>9 DEF Before
  <2>. QED
    BY <2>2, <2>7, <2>8, <2>9
<1>. QED
  BY <1>1, <1>2

\* r is s with e at its end.
LinkedLast(s, e, r) ==
  /\ IsInjective(r)
  /\ \A x : x \in ToSet(r) <=> x \in ToSet(s) \/ x = e
  /\ \A x, y : Before(r, x, y) => Before(s, x, y) \/ (y = e /\ x \in ToSet(s))

\* A frame that is not in the chain comes last when it is linked in.
LEMMA AppendKeeps ==
  ASSUME NEW S, NEW s \in Seq(S), IsInjective(s), NEW e \in S, e \notin ToSet(s)
  PROVE  Append(s, e) \in Seq(S) /\ LinkedLast(s, e, Append(s, e))
<1>. DEFINE r == Append(s, e)
<1>1. /\ r \in Seq(S)
      /\ DOMAIN s = 1 .. Len(s)
      /\ DOMAIN r = 1 .. Len(s) + 1
      /\ r[Len(s) + 1] = e
      /\ \A k \in 1 .. Len(s) : r[k] = s[k]
  OBVIOUS
<1>. HIDE DEF r
<1>2. IsInjective(r)
  BY <1>1 DEF IsInjective, ToSet
<1>3. ASSUME NEW x PROVE x \in ToSet(r) <=> x \in ToSet(s) \/ x = e
  BY <1>1 DEF ToSet
<1>4. ASSUME NEW x, NEW y, Before(r, x, y)
      PROVE  Before(s, x, y) \/ (y = e /\ x \in ToSet(s))
  <2>1. PICK i, j \in DOMAIN r : i < j /\ r[i] = x /\ r[j] = y
    BY <1>4 DEF Before
  <2>2. i \in DOMAIN s /\ s[i] = x
    BY <1>1, <2>1
  <2>3. CASE j = Len(s) + 1
    BY <1>1, <2>1, <2>2, <2>3 DEF ToSet
  <2>4. CASE j # Len(s) + 1
    BY <1>1, <2>1, <2>2, <2>4 DEF Before
  <2>. QED
    BY <2>3, <2>4
<1>5. r \in Seq(S) /\ LinkedLast(s, e, r)
  BY <1>1, <1>2, <1>3, <1>4 DEF LinkedLast
<1>. QED
  BY <1>5 DEF r

-----------------------------------------------------------------------------
(* The main chain *)

\* A time belongs to a frame when a node has both.
LEMMA TimeOf ==
  ASSUME NEW main, NEW f, NEW t
  PROVE  t \in TimesIn(main, f) <=>
           \E i \in DOMAIN main : main[i].frame = f /\ main[i].time = t
  BY DEF TimesIn

\* The times of a frame are finitely many natural numbers up to now.
LEMMA TimesAreFinite ==
  ASSUME NEW main \in Seq(NodeType), NEW now \in Nat, MainOrdered(main, now), NEW f
  PROVE  /\ TimesIn(main, f) \in SUBSET (0 .. now)
         /\ IsFiniteSet(TimesIn(main, f))
<1>1. ASSUME NEW t \in TimesIn(main, f) PROVE t \in 0 .. now
  <2>1. PICK i \in DOMAIN main : main[i].time = t
    BY <1>1, TimeOf
  <2>2. main[i] \in NodeType
    BY <2>1
  <2>. QED
    BY <2>1, <2>2 DEF MainOrdered, NodeType
<1>2. IsFiniteSet(0 .. now)
  BY FS_Interval
<1>. QED
  BY <1>1, <1>2, FS_Subset

\* A node has a frame and a time.
LEMMA NodeIs ==
  ASSUME NEW main \in Seq(NodeType), NEW i \in DOMAIN main
  PROVE  main[i].frame \in Frames /\ main[i].time \in Nat
<1>1. main[i] \in NodeType
  OBVIOUS
<1>. QED
  BY <1>1 DEF NodeType

\* One more node, of the present time, at the end.
OneNodeMore(main, r, f, t) ==
  /\ Len(r) = Len(main) + 1
  /\ \A k \in 1 .. Len(main) : r[k] = main[k]
  /\ r[Len(main) + 1].frame = f
  /\ r[Len(main) + 1].time = t

\* The frame f has the times T now, the others have what they had.
TimesChange(main, r, f, T) ==
  /\ TimesIn(r, f) = T
  /\ \A g : g # f => TimesIn(r, g) = TimesIn(main, g)

\* A new node brings the present time to its frame.
LEMMA AddNodeKeeps ==
  ASSUME NEW main \in Seq(NodeType), NEW now \in Nat, MainOrdered(main, now),
         NEW f, NEW t \in Nat, now < t, NEW r \in Seq(NodeType), OneNodeMore(main, r, f, t)
  PROVE  MainOrdered(r, t) /\ TimesChange(main, r, f, TimesIn(main, f) \cup {t})
<1>1. PICK n \in Nat : n = Len(main)
  OBVIOUS
<1>2. /\ DOMAIN main = 1 .. n
      /\ DOMAIN r = 1 .. n + 1
      /\ r[n + 1].frame = f /\ r[n + 1].time = t
      /\ \A k \in 1 .. n : r[k] = main[k]
  BY <1>1 DEF OneNodeMore
<1>3. \A k \in 1 .. n : main[k].time \in Nat /\ main[k].time <= now
  BY <1>2, NodeIs DEF MainOrdered
<1>4. MainOrdered(r, t)
  <2>1. ASSUME NEW i \in DOMAIN r PROVE r[i].time <= t
    BY <1>2, <1>3
  <2>2. ASSUME NEW i \in DOMAIN r, NEW j \in DOMAIN r, i < j PROVE r[i].time < r[j].time
    <3>1. i \in 1 .. n /\ r[i] = main[i]
      BY <1>2, <2>2
    <3>2. CASE j = n + 1
      <4>1. r[j].time = t
        BY <1>2, <3>2
      <4>. QED
        BY <1>3, <3>1, <4>1
    <3>3. CASE j # n + 1
      BY <1>2, <2>2, <3>1, <3>3 DEF MainOrdered
    <3>. QED
      BY <3>2, <3>3
  <2>. QED
    BY <2>1, <2>2 DEF MainOrdered
<1>5. ASSUME NEW g, NEW u
      PROVE  u \in TimesIn(r, g) <=> u \in TimesIn(main, g) \/ (g = f /\ u = t)
  <2>1. ASSUME u \in TimesIn(r, g) PROVE u \in TimesIn(main, g) \/ (g = f /\ u = t)
    <3>1. PICK i \in DOMAIN r : r[i].frame = g /\ r[i].time = u
      BY <2>1, TimeOf
    <3>2. CASE i = n + 1
      BY <1>2, <3>1, <3>2
    <3>3. CASE i # n + 1
      <4>1. i \in DOMAIN main /\ r[i] = main[i]
        BY <1>2, <3>3
      <4>. QED
        BY <3>1, <4>1, TimeOf
    <3>. QED
      BY <3>2, <3>3
  <2>2. ASSUME u \in TimesIn(main, g) PROVE u \in TimesIn(r, g)
    <3>1. PICK i \in DOMAIN main : main[i].frame = g /\ main[i].time = u
      BY <2>2, TimeOf
    <3>2. i \in DOMAIN r /\ r[i] = main[i]
      BY <1>2
    <3>. QED
      BY <3>1, <3>2, TimeOf
  <2>3. t \in TimesIn(r, f)
    <3>1. n + 1 \in DOMAIN r
      BY <1>2
    <3>. QED
      BY <1>2, <3>1, TimeOf
  <2>. QED
    BY <2>1, <2>2, <2>3
<1>6. TimesIn(r, f) = TimesIn(main, f) \cup {t}
  BY <1>5
<1>7. ASSUME NEW g, g # f PROVE TimesIn(r, g) = TimesIn(main, g)
  <2>1. \A u : u \in TimesIn(r, g) <=> u \in TimesIn(main, g)
    BY <1>5, <1>7
  <2>. QED
    BY <2>1
<1>. QED
  BY <1>4, <1>6, <1>7 DEF TimesChange

\* The node at i is out of the chain, and what was behind it has moved up.
OneNodeLess(main, r, i) ==
  /\ Len(r) = Len(main) - 1
  /\ \A k \in 1 .. Len(main) - 1 : r[k] = IF k < i THEN main[k] ELSE main[k + 1]

\* The first node of a frame has its least time; without it the others stay.
LEMMA RemoveNodeKeeps ==
  ASSUME NEW main \in Seq(NodeType), NEW now \in Nat, MainOrdered(main, now),
         NEW i \in DOMAIN main, NEW f, f = main[i].frame,
         \A k \in DOMAIN main : main[k].frame = f => i <= k,
         NEW r \in Seq(NodeType), OneNodeLess(main, r, i)
  PROVE  /\ MainOrdered(r, now)
         /\ TimesChange(main, r, f, TimesIn(main, f) \ {Min(TimesIn(main, f))})
<1>1. PICK n \in Nat : n = Len(main)
  OBVIOUS
<1>2. /\ DOMAIN main = 1 .. n /\ i \in 1 .. n
      /\ DOMAIN r = 1 .. n - 1
      /\ \A k \in 1 .. n - 1 : r[k] = IF k < i THEN main[k] ELSE main[k + 1]
  BY <1>1 DEF OneNodeLess
<1>. DEFINE old(k) == IF k < i THEN k ELSE k + 1
<1>3. ASSUME NEW k \in DOMAIN r
      PROVE  old(k) \in DOMAIN main /\ r[k] = main[old(k)] /\ old(k) # i
  BY <1>2
<1>4. ASSUME NEW k \in DOMAIN r, NEW l \in DOMAIN r, k < l
      PROVE  old(k) < old(l)
  BY <1>2, <1>4
<1>5. ASSUME NEW k \in DOMAIN main, k # i
      PROVE  \E l \in DOMAIN r : old(l) = k
  <2>1. CASE k < i
    BY <1>2, <2>1
  <2>2. CASE k > i
    <3>1. k - 1 \in DOMAIN r /\ old(k - 1) = k
      BY <1>2, <2>2
    <3>. QED
      BY <3>1
  <2>3. k \in 1 .. n /\ i \in 1 .. n
    BY <1>2
  <2>. QED
    BY <1>5, <2>1, <2>2, <2>3
<1>. HIDE DEF old
<1>6. MainOrdered(r, now)
  BY <1>3, <1>4 DEF MainOrdered
<1>7. ASSUME NEW t \in TimesIn(main, f) PROVE main[i].time <= t
  <2>1. PICK k \in DOMAIN main : main[k].frame = f /\ main[k].time = t
    BY <1>7, TimeOf
  <2>2. i <= k /\ i \in Nat /\ k \in Nat
    BY <1>2, <2>1
  <2>3. main[i].time \in Nat /\ main[k].time \in Nat
    BY NodeIs
  <2>4. i < k => main[i].time < main[k].time
    BY DEF MainOrdered
  <2>. QED
    BY <2>1, <2>2, <2>3, <2>4
<1>8. main[i].time = Min(TimesIn(main, f))
  <2>1. TimesIn(main, f) \in SUBSET Nat
    BY TimesAreFinite
  <2>2. main[i].time \in TimesIn(main, f)
    BY TimeOf
  <2>3. /\ Min(TimesIn(main, f)) \in TimesIn(main, f)
        /\ \A t \in TimesIn(main, f) : Min(TimesIn(main, f)) <= t
    BY <2>1, <2>2, MinIs
  <2>. QED
    BY <1>7, <2>1, <2>2, <2>3
<1>9. ASSUME NEW k \in DOMAIN main, main[k].time = main[i].time PROVE k = i
  <2>1. main[i].time \in Nat /\ main[k].time \in Nat
    BY NodeIs
  <2>2. k \in Nat /\ i \in Nat
    BY <1>2
  <2>3. (i < k => main[i].time < main[k].time) /\ (k < i => main[k].time < main[i].time)
    BY DEF MainOrdered
  <2>. QED
    BY <1>9, <2>1, <2>2, <2>3
<1>10. ASSUME NEW g, NEW t
       PROVE  t \in TimesIn(r, g) <=> t \in TimesIn(main, g) /\ t # main[i].time
  <2>1. ASSUME t \in TimesIn(r, g) PROVE t \in TimesIn(main, g) /\ t # main[i].time
    <3>1. PICK k \in DOMAIN r : r[k].frame = g /\ r[k].time = t
      BY <2>1, TimeOf
    <3>2. old(k) \in DOMAIN main /\ r[k] = main[old(k)] /\ old(k) # i
      BY <1>3
    <3>. QED
      BY <1>9, <3>1, <3>2, TimeOf
  <2>2. ASSUME t \in TimesIn(main, g), t # main[i].time PROVE t \in TimesIn(r, g)
    <3>1. PICK k \in DOMAIN main : main[k].frame = g /\ main[k].time = t
      BY <2>2, TimeOf
    <3>2. PICK l \in DOMAIN r : old(l) = k
      BY <1>5, <2>2, <3>1
    <3>. QED
      BY <1>3, <3>1, <3>2, TimeOf
  <2>. QED
    BY <2>1, <2>2
<1>11. TimesIn(r, f) = TimesIn(main, f) \ {main[i].time}
  BY <1>10
<1>12. ASSUME NEW g, g # f PROVE TimesIn(r, g) = TimesIn(main, g)
  <2>1. main[i].time \notin TimesIn(main, g)
    BY <1>9, <1>12, TimeOf
  <2>. QED
    BY <1>10, <2>1
<1>. QED
  BY <1>6, <1>8, <1>11, <1>12 DEF TimesChange

\* RecordAccess unlinks the first node of the frame.
LEMMA RemoveFirstNodeIs ==
  ASSUME NEW main \in Seq(NodeType), NEW f, TimesIn(main, f) # {}
  PROVE  /\ RemoveFirstNode(main, f) \in Seq(NodeType)
         /\ \E i \in DOMAIN main :
              /\ f = main[i].frame
              /\ \A k \in DOMAIN main : main[k].frame = f => i <= k
              /\ OneNodeLess(main, RemoveFirstNode(main, f), i)
<1>. DEFINE I == {i \in 1 .. Len(main) : main[i].frame = f}
<1>1. I \in SUBSET Nat /\ I # {}
  <2>1. PICK t : t \in TimesIn(main, f)
    OBVIOUS
  <2>2. PICK i \in DOMAIN main : main[i].frame = f
    BY <2>1, TimeOf
  <2>. QED
    BY <2>2
<1>2. PICK i \in I : i = Min(I) /\ \A k \in I : i <= k
  BY <1>1, MinIs
<1>3. SelectInSeq(main, LAMBDA x : x.frame = f) = Min(I)
  BY <1>1 DEF SelectInSeq
<1>4. RemoveFirstNode(main, f) = RemoveAt(main, i)
  BY <1>1, <1>2, <1>3 DEF RemoveFirstNode, RemoveFirstMatch
<1>5. RemoveAt(main, i) \in Seq(NodeType) /\ OneNodeLess(main, RemoveAt(main, i), i)
  BY <1>2, RemoveAtIs DEF OneNodeLess
<1>6. /\ i \in DOMAIN main /\ f = main[i].frame
      /\ \A k \in DOMAIN main : main[k].frame = f => i <= k
  BY <1>2
<1>. QED
  BY <1>4, <1>5, <1>6

\* How many places of J lie up to i.
Rank(J, i) == Cardinality({k \in J : k <= i})

\* Places of a sequence are finitely many.
LEMMA PlacesFinite ==
  ASSUME NEW n \in Nat, NEW J \in SUBSET (1 .. n)
  PROVE  IsFiniteSet(J) /\ Cardinality(J) \in Nat
<1>1. IsFiniteSet(1 .. n)
  BY FS_Interval
<1>2. IsFiniteSet(J)
  BY <1>1, FS_Subset
<1>. QED
  BY <1>2, FS_CardinalityType

\* Ranks are numbers that do not fall, and rise at each place of J.
LEMMA RankRises ==
  ASSUME NEW n \in Nat, NEW J \in SUBSET (1 .. n), NEW i \in Nat, NEW j \in Nat, i <= j
  PROVE  /\ Rank(J, i) \in Nat /\ Rank(J, j) \in Nat
         /\ Rank(J, i) <= Rank(J, j)
         /\ i < j /\ j \in J => Rank(J, i) < Rank(J, j)
<1>. DEFINE A == {k \in J : k <= i}
            B == {k \in J : k <= j}
<1>1. IsFiniteSet(J)
  BY PlacesFinite
<1>2. A \subseteq B /\ B \subseteq J
  <2>1. \A k \in J : k \in Nat
    OBVIOUS
  <2>2. ASSUME NEW k \in J, k <= i PROVE k <= j
    <3>1. k \in Nat
      BY <2>1
    <3>. QED
      BY ONLY <2>2, <3>1, i \in Nat, j \in Nat, i <= j
  <2>. QED
    BY <2>2
<1>3. IsFiniteSet(A) /\ IsFiniteSet(B)
  BY <1>1, <1>2, FS_Subset
<1>4. Cardinality(A) \in Nat /\ Cardinality(B) \in Nat
  BY <1>3, FS_CardinalityType
<1>5. Cardinality(A) <= Cardinality(B)
  BY <1>2, <1>3, FS_Subset
<1>6. ASSUME i < j, j \in J PROVE Cardinality(A) < Cardinality(B)
  <2>1. A # B
    BY <1>6
  <2>2. Cardinality(A) # Cardinality(B)
    BY <1>2, <1>3, <2>1, FS_Subset
  <2>. QED
    BY <1>4, <1>5, <2>2
<1>. QED
  BY <1>4, <1>5, <1>6 DEF Rank

\* Every number up to that of J is the rank of a place of J.
LEMMA RankReached ==
  ASSUME NEW n \in Nat, NEW J \in SUBSET (1 .. n), NEW m \in 1 .. Cardinality(J)
  PROVE  \E i \in J : Rank(J, i) = m
<1>. DEFINE T == {i \in Nat : Rank(J, i) >= m}
<1>0. \A k \in J : k \in Nat /\ 1 <= k /\ k <= n
  OBVIOUS
<1>1. IsFiniteSet(J) /\ Cardinality(J) \in Nat
  BY PlacesFinite
<1>2. n \in T
  <2>1. {k \in J : k <= n} = J
    BY <1>0
  <2>. QED
    BY <1>1, <2>1 DEF Rank
<1>3. PICK i \in T : \A k \in T : i <= k
  <2>1. T \in SUBSET Nat
    OBVIOUS
  <2>. HIDE DEF T
  <2>. QED
    BY <1>2, <2>1, MinIs
<1>4. i # 0
  <2>1. ASSUME NEW k \in J PROVE ~ (k <= 0)
    BY <1>0
  <2>2. Rank(J, 0) = 0
    BY <2>1, FS_EmptySet DEF Rank
  <2>. QED
    BY <1>3, <2>2
<1>5. i - 1 \in Nat /\ ~ (Rank(J, i - 1) >= m)
  BY <1>3, <1>4
<1>6. Rank(J, i - 1) \in Nat
  <2>1. PICK j \in Nat : j = i - 1
    BY <1>5
  <2>2. j <= j
    BY <2>1
  <2>. QED
    BY <2>1, <2>2, RankRises
<1>7. ASSUME NEW k \in J PROVE k <= i <=> k <= i - 1 \/ k = i
  BY <1>0, <1>3
<1>8. i \in J
  <2>1. SUFFICES ASSUME i \notin J PROVE FALSE
    OBVIOUS
  <2>2. {k \in J : k <= i} = {k \in J : k <= i - 1}
    BY <1>7, <2>1
  <2>. QED
    BY <1>3, <1>5, <2>2 DEF Rank
<1>9. Rank(J, i) = Rank(J, i - 1) + 1
  <2>. DEFINE A == {k \in J : k <= i - 1}
  <2>1. IsFiniteSet(A)
    BY <1>1, FS_Subset
  <2>2. i \notin A
    BY <1>3
  <2>3. {k \in J : k <= i} = A \cup {i}
    BY <1>7, <1>8
  <2>4. Cardinality(A \cup {i}) = Cardinality(A) + 1
    BY <2>1, <2>2, FS_AddElement
  <2>. QED
    BY <2>3, <2>4 DEF Rank
<1>. QED
  BY <1>3, <1>5, <1>6, <1>8, <1>9

\* r has the nodes of main that are not of f: old[k] is the place k had in main.
OthersInOrder(main, f, r, old) ==
  /\ \A k \in DOMAIN r :
       old[k] \in DOMAIN main /\ r[k] = main[old[k]] /\ main[old[k]].frame # f
  /\ \A k, l \in DOMAIN r : k < l => old[k] < old[l]
  /\ \A i \in DOMAIN main : main[i].frame # f => \E k \in DOMAIN r : old[k] = i

\* Evicting a frame leaves exactly the nodes of the others, in their order.
LEMMA RemoveWholeFrameIs ==
  ASSUME NEW main \in Seq(NodeType), NEW f
  PROVE  /\ RemoveWholeFrame(main, f) \in Seq(NodeType)
         /\ \E old : OthersInOrder(main, f, RemoveWholeFrame(main, f), old)
<1>. DEFINE J == {i \in DOMAIN main : main[i].frame # f}
            n == Len(main)
            N == Cardinality(J)
            Place(m) == CHOOSE i \in J : Cardinality({k \in J : k <= i}) = m
            old == [m \in 1 .. N |-> Place(m)]
            r == [m \in 1 .. N |-> main[Place(m)]]
<1>1. n \in Nat /\ DOMAIN main = 1 .. n /\ J \in SUBSET (1 .. n)
  OBVIOUS
<1>2. N \in Nat
  BY <1>1, PlacesFinite
<1>3. ASSUME NEW m \in 1 .. N PROVE Place(m) \in J /\ Rank(J, Place(m)) = m
  <2>1. \E i \in J : Rank(J, i) = m
    BY <1>1, RankReached
  <2>. QED
    BY <2>1 DEF Rank
<1>4. r = RemoveWholeFrame(main, f)
  BY DEF RemoveWholeFrame
<1>. HIDE DEF Place
<1>5. \A m \in 1 .. N : old[m] \in J /\ r[m] = main[old[m]] /\ Rank(J, old[m]) = m
  BY <1>3
<1>6. ASSUME NEW m \in 1 .. N PROVE r[m] \in NodeType
  <2>1. old[m] \in DOMAIN main /\ r[m] = main[old[m]]
    BY <1>5
  <2>. QED
    BY <2>1
<1>7. DOMAIN r = 1 .. N
  OBVIOUS
<1>8. r \in Seq(NodeType)
  BY <1>2, <1>6
<1>. HIDE DEF old, r, n, N
<1>9. ASSUME NEW k \in 1 .. N, NEW l \in 1 .. N, k < l PROVE old[k] < old[l]
  <2>1. old[k] \in J /\ old[l] \in J /\ Rank(J, old[k]) = k /\ Rank(J, old[l]) = l
    BY <1>5
  <2>2. old[k] \in Nat /\ old[l] \in Nat
    BY <1>1, <2>1
  <2>. HIDE DEF J
  <2>3. old[l] <= old[k] => Rank(J, old[l]) <= Rank(J, old[k])
    BY <1>1, <2>2, RankRises
  <2>4. k \in Int /\ l \in Int
    BY <1>2
  <2>. QED
    BY <1>9, <2>1, <2>2, <2>3, <2>4
<1>10. ASSUME NEW i \in J PROVE \E k \in 1 .. N : old[k] = i
  <2>. DEFINE k == Rank(J, i)
  <2>1. i \in 1 .. n
    BY <1>1
  <2>2. k \in Nat /\ k <= Rank(J, n) /\ Rank(J, 0) < k /\ Rank(J, 0) \in Nat
    <3>. HIDE DEF J
    <3>1. i \in Nat /\ 0 <= i /\ 0 < i /\ i <= n /\ i \in J
      BY <1>1, <1>10, <2>1
    <3>2. Rank(J, i) \in Nat /\ Rank(J, i) <= Rank(J, n)
      BY <1>1, <3>1, RankRises
    <3>3. PICK z \in Nat : z = 0
      OBVIOUS
    <3>4. Rank(J, z) \in Nat /\ Rank(J, z) < Rank(J, i)
      BY <1>1, <3>1, <3>3, RankRises
    <3>. QED
      BY <3>2, <3>3, <3>4
  <2>3. Rank(J, n) = N
    <3>1. {x \in J : x <= n} = J
      BY <1>1
    <3>. QED
      BY <3>1 DEF Rank, N
  <2>4. k \in 1 .. N
    BY <1>2, <2>2, <2>3
  <2>5. old[k] \in J /\ Rank(J, old[k]) = k
    BY <1>5, <2>4
  <2>6. old[k] \in Nat /\ i \in Nat
    BY <1>1, <2>1, <2>5
  <2>7. (i < old[k] => k < Rank(J, old[k])) /\ (old[k] < i => Rank(J, old[k]) < k)
    <3>. HIDE DEF J
    <3>1. ASSUME NEW a \in J, NEW b \in J, a < b PROVE Rank(J, a) < Rank(J, b)
      <4>1. a \in Nat /\ b \in Nat /\ a <= b
        BY <1>1, <3>1
      <4>. QED
        BY <1>1, <3>1, <4>1, RankRises
    <3>. QED
      BY <1>10, <2>5, <3>1
  <2>8. old[k] = i
    BY <2>2, <2>5, <2>6, <2>7
  <2>. QED
    BY <2>4, <2>8
<1>11. \A k \in DOMAIN r :
         old[k] \in DOMAIN main /\ r[k] = main[old[k]] /\ main[old[k]].frame # f
  BY <1>5, <1>7
<1>12. \A k, l \in DOMAIN r : k < l => old[k] < old[l]
  BY <1>7, <1>9
<1>13. \A i \in DOMAIN main : main[i].frame # f => \E k \in DOMAIN r : old[k] = i
  BY <1>7, <1>10
<1>14. OthersInOrder(main, f, r, old)
  BY <1>11, <1>12, <1>13 DEF OthersInOrder
<1>. QED
  BY <1>4, <1>8, <1>14

\* Afterwards the frame has no times and those of the others are as before.
LEMMA RemoveWholeFrameKeeps ==
  ASSUME NEW main \in Seq(NodeType), NEW now \in Nat, MainOrdered(main, now), NEW f,
         NEW r \in Seq(NodeType), NEW old, OthersInOrder(main, f, r, old)
  PROVE  MainOrdered(r, now) /\ TimesChange(main, r, f, {})
<1>1. MainOrdered(r, now)
  BY DEF MainOrdered, OthersInOrder
<1>2. ASSUME NEW t \in TimesIn(r, f) PROVE FALSE
  <2>1. PICK k \in DOMAIN r : r[k].frame = f
    BY <1>2, TimeOf
  <2>. QED
    BY <2>1 DEF OthersInOrder
<1>3. ASSUME NEW g, g # f, NEW t
      PROVE  t \in TimesIn(r, g) <=> t \in TimesIn(main, g)
  <2>1. ASSUME t \in TimesIn(r, g) PROVE t \in TimesIn(main, g)
    <3>1. PICK k \in DOMAIN r : r[k].frame = g /\ r[k].time = t
      BY <2>1, TimeOf
    <3>2. old[k] \in DOMAIN main /\ r[k] = main[old[k]]
      BY DEF OthersInOrder
    <3>. QED
      BY <3>1, <3>2, TimeOf
  <2>2. ASSUME t \in TimesIn(main, g) PROVE t \in TimesIn(r, g)
    <3>1. PICK i \in DOMAIN main : main[i].frame = g /\ main[i].time = t
      BY <2>2, TimeOf
    <3>2. PICK k \in DOMAIN r : old[k] = i
      BY <1>3, <3>1 DEF OthersInOrder
    <3>3. r[k] = main[i]
      BY <3>2 DEF OthersInOrder
    <3>. QED
      BY <3>1, <3>3, TimeOf
  <2>. QED
    BY <2>1, <2>2
<1>4. ASSUME NEW g, g # f PROVE TimesIn(r, g) = TimesIn(main, g)
  <2>1. \A t : t \in TimesIn(r, g) <=> t \in TimesIn(main, g)
    BY <1>3, <1>4
  <2>. QED
    BY <2>1
<1>. QED
  BY <1>1, <1>2, <1>4 DEF TimesChange

-----------------------------------------------------------------------------
(* What the methods do to a sound replacer *)

\* A sound replacer that has just made an access to f keeps its LRU chain in
\* order when f is put at the end or left out.
LEMMA LRUStaysOrdered ==
  ASSUME NEW r, NEW q, NEW now \in Nat, ChainsSound(r, now), NEW f \in Frames,
         \A g : g # f => TimesIn(q.main, g) = TimesIn(r.main, g),
         \A x, y : Before(q.lru, x, y) =>
           /\ x # f /\ x \in ToSet(r.lru)
           /\ \/ y # f /\ Before(r.lru, x, y)
              \/ y = f /\ now + 1 \in TimesIn(q.main, f)
  PROVE  LRUOrdered(q)
<1>1. SUFFICES ASSUME NEW x \in Frames, NEW y \in Frames, Before(q.lru, x, y)
               PROVE  LastLater(TimesIn(q.main, x), TimesIn(q.main, y))
  BY DEF LRUOrdered
<1>2. x # f /\ TimesIn(q.main, x) = TimesIn(r.main, x)
  BY <1>1
<1>3. CASE y # f /\ Before(r.lru, x, y)
  BY <1>2, <1>3 DEF ChainsSound, LRUOrdered
<1>4. CASE y = f /\ now + 1 \in TimesIn(q.main, f)
  <2>1. TimesIn(r.main, x) \subseteq 0 .. now
    BY TimesAreFinite DEF ChainsSound, ReplacerType
  <2>2. \A t \in TimesIn(q.main, x) : t < now + 1
    BY <1>2, <2>1
  <2>. QED
    BY <1>4, <2>2 DEF LastLater
<1>. QED
  BY <1>1, <1>3, <1>4

\* The frame f is not in s and last in z, and else they are as the LRU chain.
Relinked(r, f, s, z) ==
  /\ s \in Seq(Frames) /\ IsInjective(s)
  /\ \A x : x \in ToSet(s) <=> x \in ToSet(r.lru) /\ x # f
  /\ \A x, y : Before(s, x, y) =>
       x # f /\ x \in ToSet(r.lru) /\ y # f /\ Before(r.lru, x, y)
  /\ z \in Seq(Frames) /\ IsInjective(z)
  /\ \A x : x \in ToSet(z) <=> x \in ToSet(r.lru) \/ x = f
  /\ \A x, y : Before(z, x, y) =>
       /\ x # f /\ x \in ToSet(r.lru)
       /\ (y # f /\ Before(r.lru, x, y)) \/ y = f

\* What RemoveFirst, and Append after it, make of a sound chain.
LEMMA RelinkedChain ==
  ASSUME NEW r, NEW now, ChainsSound(r, now), NEW f \in Frames
  PROVE  Relinked(r, f, RemoveFirst(r.lru, f), Append(RemoveFirst(r.lru, f), f))
<1>0. PICK s, z : s = RemoveFirst(r.lru, f) /\ z = Append(s, f)
  OBVIOUS
<1>1. r.lru \in Seq(Frames) /\ IsInjective(r.lru)
  BY DEF ChainsSound, ReplacerType, LRUChainSound
<1>2. /\ s \in Seq(Frames) /\ IsInjective(s)
      /\ \A x : x \in ToSet(s) <=> x \in ToSet(r.lru) /\ x # f
      /\ \A x, y : Before(s, x, y) => Before(r.lru, x, y)
  BY <1>0, <1>1, RemoveFirstKeeps
<1>3. ASSUME NEW x, NEW y, Before(s, x, y)
      PROVE  x \in ToSet(s) /\ y \in ToSet(s)
  BY <1>3 DEF Before, ToSet
<1>4. f \notin ToSet(s)
  BY <1>2
<1>5. /\ z \in Seq(Frames) /\ IsInjective(z)
      /\ \A x : x \in ToSet(z) <=> x \in ToSet(s) \/ x = f
      /\ \A x, y : Before(z, x, y) => Before(s, x, y) \/ (y = f /\ x \in ToSet(s))
  BY <1>0, <1>2, <1>4, AppendKeeps DEF LinkedLast
<1>6. Relinked(r, f, s, z)
  BY ONLY <1>2, <1>3, <1>5 DEF Relinked
<1>. QED
  BY <1>0, <1>6

\* The first access tracks a frame that is not evictable yet.
LEMMA FirstRecordKeeps ==
  ASSUME NEW r, NEW now \in Nat, ChainsSound(r, now), NEW f \in Frames, ~ Active(r, f),
         NEW q, q = FirstRecord(r, f, now + 1)
  PROVE  /\ ChainsSound(q, now + 1)
         /\ EvictableIn(q) = EvictableIn(r)
         /\ TimesIn(r.main, f) = {}
         /\ TimesIn(q.main, f) = {now + 1}
         /\ \A g : g # f => TimesIn(q.main, g) = TimesIn(r.main, g)
<1>. DEFINE node == [frame |-> f, time |-> now + 1]
<1>1. /\ r \in ReplacerType /\ r.visits[f] = 0
      /\ r.lru \in Seq(Frames) /\ r.main \in Seq(NodeType)
      /\ MainOrdered(r.main, now)
  BY DEF ChainsSound, ReplacerType, Active
<1>2. node \in NodeType /\ node.frame = f /\ node.time = now + 1
  BY DEF NodeType
<1>3. q = [r EXCEPT !.visits[f] = 1, !.evitable = r.evitable \ {f},
                    !.main = Append(r.main, node), !.lru = Append(r.lru, f)]
  BY DEF FirstRecord, AddRecordToMainChain
<1>. HIDE DEF node
<1>4. Append(r.main, node) \in Seq(NodeType) /\ Append(r.lru, f) \in Seq(Frames)
  BY <1>1, <1>2
<1>5. /\ q \in ReplacerType
      /\ q.lru = Append(r.lru, f) /\ q.main = Append(r.main, node)
      /\ q.visits = [r.visits EXCEPT ![f] = 1]
      /\ q.evitable = r.evitable \ {f} /\ q.count = r.count
  <2>1. [r.visits EXCEPT ![f] = 1] \in [Frames -> Nat]
    BY <1>1 DEF ReplacerType
  <2>2. r.evitable \ {f} \in SUBSET Frames
    BY <1>1 DEF ReplacerType
  <2>. QED
    BY <1>1, <1>3, <1>4, <2>1, <2>2 DEF ReplacerType
<1>6. OneNodeMore(r.main, q.main, f, now + 1) /\ q.main \in Seq(NodeType)
  <2>1. q.main \in Seq(NodeType)
    BY <1>4, <1>5
  <2>2. PICK m \in Seq(NodeType) : m = r.main
    BY <1>1
  <2>3. /\ Len(Append(m, node)) = Len(m) + 1
        /\ \A k \in 1 .. Len(m) : Append(m, node)[k] = m[k]
        /\ Append(m, node)[Len(m) + 1] = node
    BY <1>2
  <2>. QED
    BY <1>2, <1>5, <2>1, <2>2, <2>3 DEF OneNodeMore
<1>7. /\ MainOrdered(q.main, now + 1)
      /\ TimesIn(q.main, f) = TimesIn(r.main, f) \cup {now + 1}
      /\ \A g : g # f => TimesIn(q.main, g) = TimesIn(r.main, g)
  <2>1. PICK t \in Nat : t = now + 1 /\ now < t
    OBVIOUS
  <2>2. OneNodeMore(r.main, q.main, f, t)
    BY <1>6, <2>1
  <2>3. MainOrdered(q.main, t) /\ TimesChange(r.main, q.main, f, TimesIn(r.main, f) \cup {t})
    BY <1>1, <1>6, <2>1, <2>2, AddNodeKeeps
  <2>. QED
    BY <2>1, <2>3 DEF TimesChange
<1>8. TimesIn(r.main, f) = {}
  <2>1. IsFiniteSet(TimesIn(r.main, f))
    BY <1>1, TimesAreFinite
  <2>2. Cardinality(TimesIn(r.main, f)) = 0
    BY <1>1, KAssumption DEF ChainsSound, LastVisitsKept
  <2>. QED
    BY <2>1, <2>2, FS_EmptySet
<1>9. f \notin ToSet(r.lru) /\ IsInjective(r.lru)
  BY <1>1 DEF ChainsSound, LRUChainSound
<1>10. /\ IsInjective(q.lru)
       /\ \A x : x \in ToSet(q.lru) <=> x \in ToSet(r.lru) \/ x = f
       /\ \A x, y : Before(q.lru, x, y) => Before(r.lru, x, y) \/ (y = f /\ x \in ToSet(r.lru))
  <2>1. LinkedLast(r.lru, f, Append(r.lru, f))
    BY <1>1, <1>9, AppendKeeps
  <2>. QED
    BY <1>5, <2>1 DEF LinkedLast
<1>11. LRUChainSound(q)
  <2>1. ASSUME NEW g \in Frames PROVE g \in ToSet(q.lru) <=> q.visits[g] \in 1 .. K - 1
    <3>1. CASE g = f
      <4>1. q.visits[g] = 1
        BY <1>1, <1>5, <3>1 DEF ReplacerType
      <4>. QED
        BY <1>10, <3>1, <4>1, KAssumption
    <3>2. CASE g # f
      <4>1. q.visits[g] = r.visits[g]
        BY <1>1, <1>5, <3>2 DEF ReplacerType
      <4>. QED
        BY <1>10, <3>2, <4>1 DEF ChainsSound, LRUChainSound
    <3>. QED
      BY <3>1, <3>2
  <2>. QED
    BY <1>10, <2>1 DEF LRUChainSound
<1>12. LRUOrdered(q)
  <2>1. ASSUME NEW x, NEW y, Before(r.lru, x, y)
        PROVE  x \in ToSet(r.lru) /\ y \in ToSet(r.lru)
    BY <2>1 DEF Before, ToSet
  <2>2. ASSUME NEW x, NEW y, Before(q.lru, x, y)
        PROVE  /\ x # f /\ x \in ToSet(r.lru)
               /\ (y # f /\ Before(r.lru, x, y)) \/ (y = f /\ now + 1 \in TimesIn(q.main, f))
    BY <1>7, <1>9, <1>10, <2>1, <2>2
  <2>. QED
    BY <1>7, <2>2, LRUStaysOrdered
<1>13. LastVisitsKept(q)
  <2>1. ASSUME NEW g \in Frames
        PROVE  Cardinality(TimesIn(q.main, g)) = IF q.visits[g] <= K THEN q.visits[g] ELSE K
    <3>1. CASE g = f
      <4>1. TimesIn(q.main, g) = {now + 1}
        BY <1>7, <1>8, <3>1
      <4>2. Cardinality(TimesIn(q.main, g)) = 1
        BY <4>1, FS_Singleton
      <4>3. q.visits[g] = 1
        BY <1>1, <1>5, <3>1 DEF ReplacerType
      <4>. QED
        BY <4>2, <4>3, KAssumption
    <3>2. CASE g # f
      <4>1. q.visits[g] = r.visits[g] /\ TimesIn(q.main, g) = TimesIn(r.main, g)
        BY <1>1, <1>5, <1>7, <3>2 DEF ReplacerType
      <4>. QED
        BY <4>1 DEF ChainsSound, LastVisitsKept
    <3>. QED
      BY <3>1, <3>2
  <2>. QED
    BY <2>1 DEF LastVisitsKept
<1>14. EvictableIn(q) = EvictableIn(r)
  <2>1. ASSUME NEW g \in Frames PROVE CanEvict(q, g) <=> CanEvict(r, g)
    <3>1. CASE g = f
      BY <1>1, <1>5, <3>1 DEF CanEvict, Active
    <3>2. CASE g # f
      BY <1>1, <1>5, <3>2 DEF CanEvict, Active, ReplacerType
    <3>. QED
      BY <3>1, <3>2
  <2>. QED
    BY <2>1 DEF EvictableIn
<1>15. q.count = Cardinality(EvictableIn(q))
  BY <1>5, <1>14 DEF ChainsSound
<1>16. ChainsSound(q, now + 1)
  BY <1>5, <1>7, <1>11, <1>12, <1>13, <1>15 DEF ChainsSound
<1>. QED
  BY <1>7, <1>8, <1>14, <1>16

\* The main chain after a further access of f at the time t.
NextMain(r, f, t) ==
  IF NextVisits(r, f) > K THEN RemoveFirstNode(AddRecordToMainChain(r, f, t), f)
  ELSE AddRecordToMainChain(r, f, t)

\* The last K of the times T.
LastTimes(T) == IF Cardinality(T) > K THEN T \ {Min(T)} ELSE T

\* A frame with accesses gets one more time, and gives up its oldest when it
\* has had K before.
LEMMA MainAfterNextRecord ==
  ASSUME NEW r, NEW now \in Nat, ChainsSound(r, now), NEW f \in Frames, Active(r, f)
  PROVE  /\ NextMain(r, f, now + 1) \in Seq(NodeType)
         /\ MainOrdered(NextMain(r, f, now + 1), now + 1)
         /\ TimesChange(r.main, NextMain(r, f, now + 1), f, LastTimes(TimesIn(r.main, f) \cup {now + 1}))
         /\ Cardinality(TimesIn(NextMain(r, f, now + 1), f)) =
               IF NextVisits(r, f) <= K THEN NextVisits(r, f) ELSE K
         /\ NextVisits(r, f) < K => now + 1 \in LastTimes(TimesIn(r.main, f) \cup {now + 1})
<1>01. PICK n : n = NextVisits(r, f)
  OBVIOUS
<1>02. PICK M : M = AddRecordToMainChain(r, f, now + 1)
  OBVIOUS
<1>03. PICK main : main = NextMain(r, f, now + 1)
  OBVIOUS
<1>04. PICK T : T = TimesIn(r.main, f) \cup {now + 1}
  OBVIOUS
<1>1. /\ r \in ReplacerType /\ r.visits[f] \in Nat /\ r.visits[f] # 0
      /\ r.main \in Seq(NodeType)
      /\ MainOrdered(r.main, now)
  BY DEF ChainsSound, ReplacerType, Active
<1>2. PICK t \in Nat : t = now + 1 /\ now < t
  OBVIOUS
<1>3. PICK node \in NodeType : node = [frame |-> f, time |-> t]
  BY <1>2 DEF NodeType
<1>4. PICK m \in Seq(NodeType) : m = r.main
  BY <1>1
<1>5. M = Append(m, node)
  BY <1>02, <1>2, <1>3, <1>4 DEF AddRecordToMainChain
<1>6. M \in Seq(NodeType) /\ OneNodeMore(m, M, f, t)
  <2>1. Append(m, node) \in Seq(NodeType) /\ OneNodeMore(m, Append(m, node), f, t)
    BY <1>3 DEF OneNodeMore
  <2>. QED
    BY <1>5, <2>1
<1>7. MainOrdered(M, t) /\ TimesChange(m, M, f, T)
  BY <1>04, <1>1, <1>2, <1>4, <1>6, AddNodeKeeps
<1>8. /\ IsFiniteSet(TimesIn(m, f)) /\ t \notin TimesIn(m, f)
      /\ T \in SUBSET Nat /\ t \in T /\ IsFiniteSet(T)
  <2>1. TimesIn(m, f) \in SUBSET (0 .. now) /\ IsFiniteSet(TimesIn(m, f))
    BY <1>1, <1>4, TimesAreFinite
  <2>. QED
    BY <1>04, <1>2, <1>4, <2>1, FS_AddElement
<1>9. Cardinality(T) = Cardinality(TimesIn(m, f)) + 1
  BY <1>04, <1>2, <1>4, <1>8, FS_AddElement
<1>10. Cardinality(TimesIn(m, f)) = IF r.visits[f] <= K THEN r.visits[f] ELSE K
  BY <1>4 DEF ChainsSound, LastVisitsKept
<1>11. n \in Nat /\ (n > K <=> r.visits[f] >= K) /\ (n <= K => n = r.visits[f] + 1)
  BY <1>01, <1>1, KAssumption DEF NextVisits
<1>12. Cardinality(T) = IF n <= K THEN n ELSE K + 1
  BY <1>1, <1>9, <1>10, <1>11, KAssumption
<1>. DEFINE goal == /\ main \in Seq(NodeType)
                    /\ MainOrdered(main, now + 1)
                    /\ TimesChange(r.main, main, f, LastTimes(T))
                    /\ Cardinality(TimesIn(main, f)) = IF n <= K THEN n ELSE K
                    /\ n < K => t \in LastTimes(T)
<1>13. ASSUME n <= K PROVE goal
  <2>1. main = M
    BY <1>01, <1>02, <1>03, <1>11, <1>13, KAssumption DEF NextMain
  <2>. QED
    <3>1. MainOrdered(main, now + 1) /\ main \in Seq(NodeType)
      BY ONLY <1>2, <1>6, <1>7, <2>1
    <3>2. TimesChange(r.main, main, f, T)
      BY ONLY <1>4, <1>7, <2>1
    <3>3. TimesIn(main, f) = T
      BY ONLY <3>2 DEF TimesChange
    <3>4. Cardinality(T) = n /\ ~ (n > K) /\ ~ (Cardinality(T) > K)
      BY ONLY <1>11, <1>12, <1>13, KAssumption
    <3>5. LastTimes(T) = T
      BY ONLY <3>4 DEF LastTimes
    <3>. QED
      BY ONLY <1>8, <1>13, <3>1, <3>2, <3>3, <3>4, <3>5
<1>14. ASSUME n > K PROVE goal
  <2>1. main = RemoveFirstNode(M, f)
    BY <1>01, <1>02, <1>03, <1>14 DEF NextMain
  <2>2. TimesIn(M, f) = T
    BY <1>7 DEF TimesChange
  <2>3. /\ main \in Seq(NodeType)
        /\ \E i \in DOMAIN M :
             /\ f = M[i].frame
             /\ \A k \in DOMAIN M : M[k].frame = f => i <= k
             /\ OneNodeLess(M, main, i)
    BY ONLY <1>6, <1>8, <2>1, <2>2, RemoveFirstNodeIs
  <2>4. MainOrdered(main, t) /\ TimesChange(M, main, f, T \ {Min(T)})
    BY <1>6, <1>7, <2>2, <2>3, RemoveNodeKeeps
  <2>5. TimesChange(r.main, main, f, T \ {Min(T)})
    BY <1>4, <1>7, <2>4 DEF TimesChange
  <2>6. Min(T) \in T
    BY <1>8, MinIs
  <2>7. Cardinality(T \ {Min(T)}) = Cardinality(T) - 1
    BY ONLY <1>8, <2>6, FS_RemoveElement
  <2>8. Cardinality(TimesIn(main, f)) = K
    BY ONLY <1>11, <1>12, <1>14, <2>5, <2>7, KAssumption DEF TimesChange
  <2>9. Cardinality(T) > K
    BY <1>11, <1>12, <1>14, KAssumption
  <2>. QED
    <3>1. MainOrdered(main, now + 1)
      BY ONLY <1>2, <2>4
    <3>2. ~ (n <= K)
      BY ONLY <1>11, <1>14, KAssumption
    <3>3. LastTimes(T) = T \ {Min(T)}
      BY ONLY <2>9 DEF LastTimes
    <3>4. ~ (n < K)
      BY ONLY <1>11, <1>14, KAssumption
    <3>. QED
      BY ONLY <1>14, <2>3, <2>5, <2>8, <3>1, <3>2, <3>3, <3>4
<1>15. goal
  <2>1. n <= K \/ n > K
    BY ONLY <1>11, KAssumption
  <2>. QED
    BY ONLY <1>13, <1>14, <2>1
<1>. QED
  BY ONLY <1>01, <1>03, <1>04, <1>2, <1>15

\* A further access keeps the replacer sound and its frame as evictable as it was.
LEMMA NextRecordKeeps ==
  ASSUME NEW r, NEW now \in Nat, ChainsSound(r, now), NEW f \in Frames, Active(r, f),
         NEW q, q = NextRecord(r, f, now + 1)
  PROVE  /\ ChainsSound(q, now + 1)
         /\ EvictableIn(q) = EvictableIn(r)
         /\ TimesChange(r.main, q.main, f, LastTimes(TimesIn(r.main, f) \cup {now + 1}))
<1>1. r \in ReplacerType /\ r.visits[f] \in Nat /\ r.visits[f] # 0
  BY DEF ChainsSound, ReplacerType, Active
<1>2. PICK n : n = NextVisits(r, f)
  OBVIOUS
<1>3. PICK main : main = NextMain(r, f, now + 1)
  OBVIOUS
<1>4. PICK T : T = LastTimes(TimesIn(r.main, f) \cup {now + 1})
  OBVIOUS
<1>5. PICK s : s = RemoveFirst(r.lru, f)
  OBVIOUS
<1>6. PICK z : z = Append(s, f)
  OBVIOUS
<1>7. /\ main \in Seq(NodeType)
      /\ MainOrdered(main, now + 1)
      /\ TimesChange(r.main, main, f, T)
      /\ Cardinality(TimesIn(main, f)) = IF n <= K THEN n ELSE K
      /\ n < K => now + 1 \in T
  BY <1>2, <1>3, <1>4, MainAfterNextRecord
<1>8. n \in Nat /\ n # 0 /\ n # 1
  BY <1>1, <1>2, KAssumption DEF NextVisits
<1>9. Relinked(r, f, s, z)
  BY <1>5, <1>6, RelinkedChain
<1>10. PICK lru : lru = IF n < K THEN z ELSE s
  OBVIOUS
<1>11. q = [r EXCEPT !.visits[f] = n, !.lru = lru, !.main = main]
  BY <1>2, <1>3, <1>5, <1>6, <1>10 DEF NextRecord, NextMain
<1>12. /\ q \in ReplacerType
       /\ q.lru = lru /\ q.main = main
       /\ q.visits = [r.visits EXCEPT ![f] = n]
       /\ q.evitable = r.evitable /\ q.count = r.count
  <2>1. [r.visits EXCEPT ![f] = n] \in [Frames -> Nat]
    BY <1>1, <1>8 DEF ReplacerType
  <2>2. lru \in Seq(Frames)
    BY ONLY <1>9, <1>10 DEF Relinked
  <2>. QED
    BY ONLY <1>1, <1>7, <1>11, <2>1, <2>2 DEF ReplacerType
<1>13. q.visits[f] = n /\ \A g \in Frames : g # f => q.visits[g] = r.visits[g]
  BY ONLY <1>1, <1>12, f \in Frames DEF ReplacerType
<1>14. \A g : g # f => TimesIn(q.main, g) = TimesIn(r.main, g)
  BY ONLY <1>7, <1>12 DEF TimesChange
<1>15. LRUChainSound(q)
  <2>1. ASSUME NEW g \in Frames PROVE g \in ToSet(q.lru) <=> q.visits[g] \in 1 .. K - 1
    <3>1. CASE g = f
      BY ONLY <1>8, <1>9, <1>10, <1>12, <1>13, <3>1, KAssumption DEF Relinked
    <3>2. CASE g # f
      <4>1. g \in ToSet(r.lru) <=> r.visits[g] \in 1 .. K - 1
        BY DEF ChainsSound, LRUChainSound
      <4>. QED
        BY ONLY <1>9, <1>10, <1>12, <1>13, <3>2, <4>1, g \in Frames DEF Relinked
    <3>. QED
      BY <3>1, <3>2
  <2>2. IsInjective(q.lru)
    BY ONLY <1>9, <1>10, <1>12 DEF Relinked
  <2>. QED
    BY <2>1, <2>2 DEF LRUChainSound
<1>16. LRUOrdered(q)
  <2>1. n < K => now + 1 \in TimesIn(q.main, f)
    BY ONLY <1>7, <1>12 DEF TimesChange
  <2>2. ASSUME NEW x, NEW y, Before(q.lru, x, y)
        PROVE  /\ x # f /\ x \in ToSet(r.lru)
               /\ (y # f /\ Before(r.lru, x, y)) \/ (y = f /\ now + 1 \in TimesIn(q.main, f))
    BY ONLY <1>9, <1>10, <1>12, <2>1, <2>2 DEF Relinked
  <2>. QED
    BY <1>14, <2>2, LRUStaysOrdered
<1>17. LastVisitsKept(q)
  <2>1. ASSUME NEW g \in Frames
        PROVE  Cardinality(TimesIn(q.main, g)) = IF q.visits[g] <= K THEN q.visits[g] ELSE K
    <3>1. CASE g = f
      BY ONLY <1>7, <1>12, <1>13, <3>1
    <3>2. CASE g # f
      <4>1. Cardinality(TimesIn(r.main, g)) = IF r.visits[g] <= K THEN r.visits[g] ELSE K
        BY DEF ChainsSound, LastVisitsKept
      <4>. QED
        BY ONLY <1>13, <1>14, <3>2, <4>1, g \in Frames
    <3>. QED
      BY <3>1, <3>2
  <2>. QED
    BY <2>1 DEF LastVisitsKept
<1>18. EvictableIn(q) = EvictableIn(r)
  <2>1. ASSUME NEW g \in Frames PROVE CanEvict(q, g) <=> CanEvict(r, g)
    BY <1>1, <1>8, <1>12, <1>13 DEF CanEvict, Active
  <2>. QED
    BY <2>1 DEF EvictableIn
<1>19. q.count = Cardinality(EvictableIn(q))
  BY <1>12, <1>18 DEF ChainsSound
<1>20. ChainsSound(q, now + 1)
  BY ONLY <1>7, <1>12, <1>15, <1>16, <1>17, <1>19 DEF ChainsSound
<1>. QED
  BY ONLY <1>4, <1>7, <1>12, <1>18, <1>20

\* RecordAccess gives its frame the present time, keeps its last K times, and
\* changes neither what can be evicted nor anything of another frame.
LEMMA RecordAccessKeeps ==
  ASSUME NEW r, NEW now \in Nat, ChainsSound(r, now), NEW f \in Frames
  PROVE  /\ ChainsSound(RecordAccess(r, f, now + 1), now + 1)
         /\ EvictableIn(RecordAccess(r, f, now + 1)) = EvictableIn(r)
         /\ TimesChange(r.main, RecordAccess(r, f, now + 1).main, f,
                        LastTimes(TimesIn(r.main, f) \cup {now + 1}))
<1>1. PICK q : q = RecordAccess(r, f, now + 1)
  OBVIOUS
<1>2. ASSUME Active(r, f)
      PROVE  /\ ChainsSound(q, now + 1)
             /\ EvictableIn(q) = EvictableIn(r)
             /\ TimesChange(r.main, q.main, f, LastTimes(TimesIn(r.main, f) \cup {now + 1}))
  <2>1. q = NextRecord(r, f, now + 1)
    BY <1>1, <1>2 DEF RecordAccess
  <2>. QED
    BY <1>2, <2>1, NextRecordKeeps
<1>3. ASSUME ~ Active(r, f)
      PROVE  /\ ChainsSound(q, now + 1)
             /\ EvictableIn(q) = EvictableIn(r)
             /\ TimesChange(r.main, q.main, f, LastTimes(TimesIn(r.main, f) \cup {now + 1}))
  <2>1. q = FirstRecord(r, f, now + 1)
    BY <1>1, <1>3 DEF RecordAccess
  <2>2. /\ ChainsSound(q, now + 1)
        /\ EvictableIn(q) = EvictableIn(r)
        /\ TimesIn(r.main, f) = {}
        /\ TimesIn(q.main, f) = {now + 1}
        /\ \A g : g # f => TimesIn(q.main, g) = TimesIn(r.main, g)
    BY <1>3, <2>1, FirstRecordKeeps
  <2>3. LastTimes(TimesIn(r.main, f) \cup {now + 1}) = {now + 1}
    <3>1. TimesIn(r.main, f) \cup {now + 1} = {now + 1}
      BY ONLY <2>2
    <3>2. Cardinality({now + 1}) = 1
      BY FS_Singleton
    <3>. QED
      BY ONLY <3>1, <3>2, KAssumption DEF LastTimes
  <2>. QED
    BY ONLY <2>2, <2>3 DEF TimesChange
<1>. QED
  BY ONLY <1>1, <1>2, <1>3

\* What can be evicted is a finite set of frames.
LEMMA EvictableFinite ==
  ASSUME NEW r
  PROVE  IsFiniteSet(EvictableIn(r)) /\ Cardinality(EvictableIn(r)) \in Nat
<1>1. IsFiniteSet(EvictableIn(r))
  BY FramesAssumption, FS_Subset DEF EvictableIn
<1>. QED
  BY <1>1, FS_CardinalityType

\* Marking a frame changes the chains in nothing, and the count with the bit.
LEMMA SetEvictableKeeps ==
  ASSUME NEW r, NEW now, ChainsSound(r, now), NEW f \in Frames, NEW b \in BOOLEAN
  PROVE  /\ ChainsSound(SetEvictable(r, f, b), now)
         /\ SetEvictable(r, f, b).main = r.main
         /\ EvictableIn(SetEvictable(r, f, b)) =
              IF b /\ Active(r, f) THEN EvictableIn(r) \cup {f} ELSE EvictableIn(r) \ {f}
<1>1. CASE ~ Active(r, f) \/ (f \in r.evitable) = b
  <2>1. SetEvictable(r, f, b) = r
    BY <1>1 DEF SetEvictable
  <2>2. f \in EvictableIn(r) <=> Active(r, f) /\ f \in r.evitable
    BY DEF EvictableIn, CanEvict
  <2>. QED
    BY <1>1, <2>1, <2>2
<1>2. CASE ~ (~ Active(r, f) \/ (f \in r.evitable) = b)
  <2>1. PICK bits : bits = IF b THEN r.evitable \cup {f} ELSE r.evitable \ {f}
    OBVIOUS
  <2>2. PICK c : c = IF b THEN r.count + 1 ELSE r.count - 1
    OBVIOUS
  <2>3. PICK q : q = SetEvictable(r, f, b)
    OBVIOUS
  <2>4. q = [r EXCEPT !.evitable = bits, !.count = c]
    BY <1>2, <2>1, <2>2, <2>3 DEF SetEvictable
  <2>5. r \in ReplacerType
    BY DEF ChainsSound
  <2>6. bits \in SUBSET Frames /\ c \in Int
    BY <2>1, <2>2, <2>5 DEF ReplacerType
  <2>7. /\ q \in ReplacerType
        /\ q.lru = r.lru /\ q.main = r.main /\ q.visits = r.visits
        /\ q.evitable = bits /\ q.count = c
    BY ONLY <2>4, <2>5, <2>6 DEF ReplacerType
  <2>8. /\ LRUChainSound(q) /\ LRUOrdered(q) /\ LastVisitsKept(q)
        /\ MainOrdered(q.main, now)
    BY <2>7 DEF ChainsSound, LRUChainSound, LRUOrdered, LastVisitsKept
  <2>9. \A g \in Frames : g \in EvictableIn(q) <=> Active(r, g) /\ g \in bits
    BY <2>7 DEF EvictableIn, CanEvict, Active
  <2>10. \A g \in Frames : g \in EvictableIn(r) <=> Active(r, g) /\ g \in r.evitable
    BY DEF EvictableIn, CanEvict
  <2>11. EvictableIn(q) \subseteq Frames /\ EvictableIn(r) \subseteq Frames
    BY DEF EvictableIn
  <2>12. Active(r, f) /\ (f \in r.evitable <=> ~ b)
    BY <1>2
  <2>13. r.count = Cardinality(EvictableIn(r))
    BY DEF ChainsSound
  <2>14. ASSUME b
         PROVE  EvictableIn(q) = EvictableIn(r) \cup {f} /\ c = Cardinality(EvictableIn(q))
    <3>1. EvictableIn(q) = EvictableIn(r) \cup {f}
      BY ONLY <2>1, <2>9, <2>10, <2>11, <2>12, <2>14, f \in Frames
    <3>2. f \notin EvictableIn(r)
      BY <2>10, <2>12, <2>14
    <3>3. Cardinality(EvictableIn(r) \cup {f}) = Cardinality(EvictableIn(r)) + 1
      BY <3>2, EvictableFinite, FS_AddElement
    <3>. QED
      BY ONLY <2>2, <2>13, <2>14, <3>1, <3>3
  <2>15. ASSUME ~ b
         PROVE  EvictableIn(q) = EvictableIn(r) \ {f} /\ c = Cardinality(EvictableIn(q))
    <3>1. EvictableIn(q) = EvictableIn(r) \ {f}
      BY ONLY <2>1, <2>9, <2>10, <2>11, <2>12, <2>15, f \in Frames
    <3>2. f \in EvictableIn(r)
      BY <2>10, <2>12, <2>15
    <3>3. Cardinality(EvictableIn(r) \ {f}) = Cardinality(EvictableIn(r)) - 1
      BY <3>2, EvictableFinite, FS_RemoveElement
    <3>. QED
      BY ONLY <2>2, <2>13, <2>15, <3>1, <3>3
  <2>16. q.count = Cardinality(EvictableIn(q))
    BY ONLY <2>7, <2>14, <2>15
  <2>17. ChainsSound(q, now)
    BY <2>7, <2>8, <2>16 DEF ChainsSound
  <2>. QED
    BY ONLY <2>3, <2>7, <2>12, <2>14, <2>15, <2>17
<1>. QED
  BY <1>1, <1>2

\* Evicting a frame forgets its accesses and leaves the others as they were.
LEMMA EvictFrameKeeps ==
  ASSUME NEW r, NEW now \in Nat, ChainsSound(r, now), NEW f \in Frames, CanEvict(r, f)
  PROVE  /\ ChainsSound(EvictFrame(r, f), now)
         /\ TimesChange(r.main, EvictFrame(r, f).main, f, {})
         /\ EvictableIn(EvictFrame(r, f)) = EvictableIn(r) \ {f}
<1>1. PICK q : q = EvictFrame(r, f)
  OBVIOUS
<1>2. PICK s : s = RemoveFirst(r.lru, f)
  OBVIOUS
<1>3. PICK main : main = RemoveWholeFrame(r.main, f)
  OBVIOUS
<1>4. PICK c : c = r.count - 1
  OBVIOUS
<1>5. q = [r EXCEPT !.lru = s, !.main = main, !.visits[f] = 0, !.count = c]
  BY <1>1, <1>2, <1>3, <1>4 DEF EvictFrame
<1>6. /\ r \in ReplacerType /\ r.main \in Seq(NodeType) /\ MainOrdered(r.main, now)
      /\ r.visits \in [Frames -> Nat] /\ r.count \in Int
      /\ r.count = Cardinality(EvictableIn(r))
  BY DEF ChainsSound, ReplacerType
<1>7. main \in Seq(NodeType) /\ \E old : OthersInOrder(r.main, f, main, old)
  BY <1>3, <1>6, RemoveWholeFrameIs
<1>8. MainOrdered(main, now) /\ TimesChange(r.main, main, f, {})
  BY <1>6, <1>7, RemoveWholeFrameKeeps
<1>9. PICK z : Relinked(r, f, s, z)
  BY <1>2, RelinkedChain
<1>10. /\ q \in ReplacerType
       /\ q.lru = s /\ q.main = main /\ q.evitable = r.evitable /\ q.count = c
       /\ q.visits = [r.visits EXCEPT ![f] = 0]
  <2>1. [r.visits EXCEPT ![f] = 0] \in [Frames -> Nat]
    BY <1>6
  <2>2. s \in Seq(Frames) /\ c \in Int
    BY ONLY <1>4, <1>6, <1>9 DEF Relinked
  <2>. QED
    BY ONLY <1>5, <1>6, <1>7, <2>1, <2>2 DEF ReplacerType
<1>11. q.visits[f] = 0 /\ \A g \in Frames : g # f => q.visits[g] = r.visits[g]
  BY ONLY <1>6, <1>10, f \in Frames
<1>12. \A g : g # f => TimesIn(q.main, g) = TimesIn(r.main, g)
  BY ONLY <1>8, <1>10 DEF TimesChange
<1>13. LRUChainSound(q)
  <2>1. ASSUME NEW g \in Frames PROVE g \in ToSet(q.lru) <=> q.visits[g] \in 1 .. K - 1
    <3>1. CASE g = f
      BY ONLY <1>9, <1>10, <1>11, <3>1 DEF Relinked
    <3>2. CASE g # f
      <4>1. g \in ToSet(r.lru) <=> r.visits[g] \in 1 .. K - 1
        BY DEF ChainsSound, LRUChainSound
      <4>. QED
        BY ONLY <1>9, <1>10, <1>11, <3>2, <4>1, g \in Frames DEF Relinked
    <3>. QED
      BY <3>1, <3>2
  <2>2. IsInjective(q.lru)
    BY ONLY <1>9, <1>10 DEF Relinked
  <2>. QED
    BY <2>1, <2>2 DEF LRUChainSound
<1>14. LRUOrdered(q)
  <2>1. ASSUME NEW x, NEW y, Before(q.lru, x, y)
        PROVE  /\ x # f /\ x \in ToSet(r.lru)
               /\ (y # f /\ Before(r.lru, x, y)) \/ (y = f /\ now + 1 \in TimesIn(q.main, f))
    BY ONLY <1>9, <1>10, <2>1 DEF Relinked
  <2>. QED
    BY <1>12, <2>1, LRUStaysOrdered
<1>15. LastVisitsKept(q)
  <2>1. ASSUME NEW g \in Frames
        PROVE  Cardinality(TimesIn(q.main, g)) = IF q.visits[g] <= K THEN q.visits[g] ELSE K
    <3>1. CASE g = f
      <4>1. TimesIn(q.main, g) = {}
        BY ONLY <1>8, <1>10, <3>1 DEF TimesChange
      <4>2. Cardinality(TimesIn(q.main, g)) = 0
        BY <4>1, FS_EmptySet
      <4>. QED
        BY ONLY <1>11, <3>1, <4>2, KAssumption
    <3>2. CASE g # f
      <4>1. Cardinality(TimesIn(r.main, g)) = IF r.visits[g] <= K THEN r.visits[g] ELSE K
        BY DEF ChainsSound, LastVisitsKept
      <4>. QED
        BY ONLY <1>11, <1>12, <3>2, <4>1, g \in Frames
    <3>. QED
      BY <3>1, <3>2
  <2>. QED
    BY <2>1 DEF LastVisitsKept
<1>16. EvictableIn(q) = EvictableIn(r) \ {f}
  <2>1. ASSUME NEW g \in Frames PROVE CanEvict(q, g) <=> CanEvict(r, g) /\ g # f
    BY ONLY <1>10, <1>11, g \in Frames DEF CanEvict, Active
  <2>. QED
    BY <2>1 DEF EvictableIn
<1>17. q.count = Cardinality(EvictableIn(q))
  <2>1. f \in EvictableIn(r)
    BY DEF EvictableIn
  <2>2. Cardinality(EvictableIn(r) \ {f}) = Cardinality(EvictableIn(r)) - 1
    BY <2>1, EvictableFinite, FS_RemoveElement
  <2>. QED
    BY ONLY <1>4, <1>6, <1>10, <1>16, <2>2
<1>18. ChainsSound(q, now)
  BY ONLY <1>8, <1>10, <1>13, <1>14, <1>15, <1>17 DEF ChainsSound
<1>. QED
  BY ONLY <1>1, <1>8, <1>10, <1>16, <1>18

\* The order in which LRU-K gives frames up, on the times in the main chain.
Precedes(r, f, g) ==
  LET S == TimesIn(r.main, f)
      T == TimesIn(r.main, g)
  IN  \/ Cardinality(S) < K /\ ~ (Cardinality(T) < K)
      \/ Cardinality(S) < K /\ Cardinality(T) < K /\ Max(S) <= Max(T)
      \/ ~ (Cardinality(S) < K) /\ ~ (Cardinality(T) < K) /\ Min(S) <= Min(T)

\* A tracked frame is in the LRU chain or has K times, and it has some time.
LEMMA TrackedFrame ==
  ASSUME NEW r, NEW now \in Nat, ChainsSound(r, now), NEW f \in Frames
  PROVE  /\ r.visits[f] \in Nat
         /\ r.visits[f] # 0 <=> TimesIn(r.main, f) # {}
         /\ f \in ToSet(r.lru) <=> r.visits[f] # 0 /\ Cardinality(TimesIn(r.main, f)) < K
         /\ TimesIn(r.main, f) \in SUBSET Nat
         /\ \A t \in TimesIn(r.main, f) : t <= now
<1>1. /\ r.visits[f] \in Nat
      /\ r.main \in Seq(NodeType) /\ MainOrdered(r.main, now)
      /\ Cardinality(TimesIn(r.main, f)) = IF r.visits[f] <= K THEN r.visits[f] ELSE K
      /\ f \in ToSet(r.lru) <=> r.visits[f] \in 1 .. K - 1
  BY DEF ChainsSound, ReplacerType, LastVisitsKept, LRUChainSound
<1>2. TimesIn(r.main, f) \in SUBSET (0 .. now) /\ IsFiniteSet(TimesIn(r.main, f))
  BY <1>1, TimesAreFinite
<1>3. Cardinality(TimesIn(r.main, f)) = 0 <=> TimesIn(r.main, f) = {}
  BY <1>2, FS_EmptySet
<1>4. Cardinality(TimesIn(r.main, f)) = 0 <=> r.visits[f] = 0
  BY ONLY <1>1, KAssumption
<1>5. f \in ToSet(r.lru) <=> r.visits[f] # 0 /\ Cardinality(TimesIn(r.main, f)) < K
  BY ONLY <1>1, KAssumption
<1>. QED
  BY ONLY <1>1, <1>2, <1>3, <1>4, <1>5

\* The chains one behind the other, as the eviction walks them.
LEMMA CandidatesAre ==
  ASSUME NEW r, r.lru \in Seq(Frames), r.main \in Seq(NodeType)
  PROVE  /\ Len(r.lru) \in Nat /\ Len(r.main) \in Nat
         /\ DOMAIN r.lru = 1 .. Len(r.lru) /\ DOMAIN r.main = 1 .. Len(r.main)
         /\ Len(Candidates(r)) = Len(r.lru) + Len(r.main)
         /\ \A i \in DOMAIN r.lru : Candidates(r)[i] = r.lru[i]
         /\ \A i \in DOMAIN r.main : Candidates(r)[Len(r.lru) + i] = r.main[i].frame
<1>1. PICK a \in Seq(Frames) : a = r.lru
  OBVIOUS
<1>2. PICK m \in Seq(NodeType) : m = r.main
  OBVIOUS
<1>3. \A i \in DOMAIN m : m[i].frame \in Frames
  BY NodeIs
<1>4. PICK b : b = [i \in DOMAIN m |-> m[i].frame]
  OBVIOUS
<1>5. /\ b \in Seq(Frames) /\ Len(b) = Len(m)
      /\ \A i \in DOMAIN m : b[i] = m[i].frame
  <2>1. DOMAIN m = 1 .. Len(m) /\ Len(m) \in Nat
    OBVIOUS
  <2>. QED
    BY <1>3, <1>4, <2>1
<1>6. Candidates(r) = a \o b
  BY <1>1, <1>2, <1>4 DEF Candidates
<1>7. /\ Len(a \o b) = Len(a) + Len(b)
      /\ \A i \in 1 .. Len(a) + Len(b) : (a \o b)[i] =
            IF i <= Len(a) THEN a[i] ELSE b[i - Len(a)]
  BY <1>5, ConcatProperties
<1>8. /\ Len(a) \in Nat /\ Len(m) \in Nat
      /\ DOMAIN a = 1 .. Len(a) /\ DOMAIN m = 1 .. Len(m)
  OBVIOUS
<1>9. ASSUME NEW i \in DOMAIN a PROVE (a \o b)[i] = a[i]
  BY <1>5, <1>7, <1>8
<1>10. ASSUME NEW i \in DOMAIN m PROVE (a \o b)[Len(a) + i] = m[i].frame
  <2>1. Len(a) + i \in 1 .. Len(a) + Len(b) /\ ~ (Len(a) + i <= Len(a)) /\ Len(a) + i - Len(a) = i
    BY <1>5, <1>8
  <2>. QED
    BY <1>5, <1>7, <2>1
<1>. QED
  BY ONLY <1>1, <1>2, <1>5, <1>6, <1>7, <1>8, <1>9, <1>10

\* TryEvictLeastImportant finds a victim when there is one, the one that LRU-K
\* asks for.
LEMMA VictimIs ==
  ASSUME NEW r, NEW now \in Nat, ChainsSound(r, now)
  PROVE  /\ EvictableIn(r) = {} => Victim(r) = NoFrame
         /\ EvictableIn(r) # {} =>
              /\ Victim(r) \in EvictableIn(r)
              /\ \A g \in EvictableIn(r) : Precedes(r, Victim(r), g)
<1>1. /\ r.lru \in Seq(Frames) /\ r.main \in Seq(NodeType) /\ MainOrdered(r.main, now)
      /\ r.count = Cardinality(EvictableIn(r))
  BY DEF ChainsSound, ReplacerType
<1>2. r.count = 0 <=> EvictableIn(r) = {}
  BY <1>1, EvictableFinite, FS_EmptySet
<1>3. EvictableIn(r) = {} => Victim(r) = NoFrame
  BY <1>2 DEF Victim
<1>4. SUFFICES ASSUME EvictableIn(r) # {}
               PROVE  /\ Victim(r) \in EvictableIn(r)
                      /\ \A g \in EvictableIn(r) : Precedes(r, Victim(r), g)
  BY <1>3
<1>5. PICK C : C = Candidates(r)
  OBVIOUS
<1>6. PICK n \in Nat : n = Len(r.lru)
  BY <1>1
<1>7. /\ DOMAIN r.lru = 1 .. n /\ Len(r.main) \in Nat /\ DOMAIN r.main = 1 .. Len(r.main)
      /\ Len(C) = n + Len(r.main)
      /\ \A i \in DOMAIN r.lru : C[i] = r.lru[i]
      /\ \A i \in DOMAIN r.main : C[n + i] = r.main[i].frame
  BY <1>1, <1>5, <1>6, CandidatesAre
<1>. DEFINE I == {i \in 1 .. Len(C) : C[i] \in r.evitable}
<1>8. \A g \in EvictableIn(r) : g \in Frames /\ r.visits[g] # 0 /\ g \in r.evitable
  BY DEF EvictableIn, CanEvict, Active
<1>9. ASSUME NEW i \in DOMAIN r.lru, r.lru[i] \in r.evitable PROVE i \in I
  BY <1>7, <1>9
<1>10. ASSUME NEW i \in DOMAIN r.main, r.main[i].frame \in r.evitable PROVE n + i \in I
  <2>1. n + i \in 1 .. Len(C)
    BY <1>7
  <2>. QED
    BY <1>7, <1>10, <2>1
<1>11. I \in SUBSET Nat /\ I # {}
  <2>1. PICK g : g \in EvictableIn(r)
    BY <1>4
  <2>2. PICK t : t \in TimesIn(r.main, g)
    BY <1>8, <2>1, TrackedFrame
  <2>3. PICK i \in DOMAIN r.main : r.main[i].frame = g
    BY <2>2, TimeOf
  <2>4. n + i \in I
    BY <1>8, <1>10, <2>1, <2>3
  <2>5. I \in SUBSET Nat
    BY <1>7
  <2>. QED
    BY <2>4, <2>5
<1>12. PICK i \in I : i = Min(I) /\ \A k \in I : i <= k
  <2>. HIDE DEF I
  <2>. QED
    BY <1>11, MinIs
<1>13. i \in Nat /\ 1 <= i /\ i <= n + Len(r.main) /\ C[i] \in r.evitable
  BY <1>7, <1>12
<1>14. Victim(r) = C[i]
  <2>1. SelectInSeq(Candidates(r), LAMBDA f : f \in r.evitable) = Min(I)
    BY <1>5, <1>11 DEF SelectInSeq
  <2>. QED
    BY <1>2, <1>4, <1>5, <1>12, <1>13, <2>1 DEF Victim
<1>15. PICK v : v = C[i]
  OBVIOUS
<1>. HIDE DEF I
<1>16. ASSUME v \in Frames, r.visits[v] # 0 PROVE v \in EvictableIn(r)
  BY <1>13, <1>15, <1>16 DEF EvictableIn, CanEvict, Active
<1>17. ASSUME i <= n
       PROVE  v \in EvictableIn(r) /\ \A g \in EvictableIn(r) : Precedes(r, v, g)
  <2>1. i \in DOMAIN r.lru /\ v = r.lru[i]
    BY <1>7, <1>13, <1>15, <1>17
  <2>2. v \in Frames /\ v \in ToSet(r.lru)
    BY <1>1, <2>1 DEF ToSet
  <2>3. /\ r.visits[v] # 0 /\ Cardinality(TimesIn(r.main, v)) < K
        /\ TimesIn(r.main, v) # {} /\ TimesIn(r.main, v) \in SUBSET Nat
        /\ \A t \in TimesIn(r.main, v) : t <= now
    BY <2>2, TrackedFrame
  <2>4. ASSUME NEW g \in EvictableIn(r) PROVE Precedes(r, v, g)
    <3>1. g \in Frames /\ r.visits[g] # 0 /\ g \in r.evitable
      BY <1>8
    <3>2. CASE ~ (Cardinality(TimesIn(r.main, g)) < K)
      BY <2>3, <3>2 DEF Precedes
    <3>3. CASE Cardinality(TimesIn(r.main, g)) < K
      <4>1. /\ g \in ToSet(r.lru)
            /\ TimesIn(r.main, g) # {} /\ TimesIn(r.main, g) \in SUBSET Nat
            /\ \A t \in TimesIn(r.main, g) : t <= now
        BY <3>1, <3>3, TrackedFrame
      <4>2. PICK j \in DOMAIN r.lru : r.lru[j] = g
        BY <4>1 DEF ToSet
      <4>3. i <= j
        BY <1>9, <1>12, <3>1, <4>2
      <4>4. Max(TimesIn(r.main, v)) \in TimesIn(r.main, v)
        BY <2>3, MaxIs
      <4>5. /\ Max(TimesIn(r.main, g)) \in TimesIn(r.main, g)
            /\ \A t \in TimesIn(r.main, g) : Max(TimesIn(r.main, g)) >= t
        BY <4>1, MaxIs
      <4>6. Max(TimesIn(r.main, v)) <= Max(TimesIn(r.main, g))
        <5>1. CASE i = j
          BY <2>1, <2>3, <4>2, <4>4, <5>1
        <5>2. CASE i # j
          <6>1. i < j
            BY <1>7, <1>13, <4>3, <5>2
          <6>2. Before(r.lru, v, g)
            BY <2>1, <4>2, <6>1 DEF Before
          <6>3. PICK u \in TimesIn(r.main, g) : \A t \in TimesIn(r.main, v) : t < u
            BY <2>2, <3>1, <6>2 DEF ChainsSound, LRUOrdered, LastLater
          <6>. QED
            BY <2>3, <4>1, <4>4, <4>5, <6>3
        <5>. QED
          BY <5>1, <5>2
      <4>. QED
        BY <2>3, <3>3, <4>6 DEF Precedes
    <3>. QED
      BY <3>2, <3>3
  <2>. QED
    BY <1>16, <2>2, <2>3, <2>4
<1>18. ASSUME ~ (i <= n)
       PROVE  v \in EvictableIn(r) /\ \A g \in EvictableIn(r) : Precedes(r, v, g)
  <2>1. PICK k \in DOMAIN r.main : n + k = i
    <3>1. i - n \in DOMAIN r.main /\ n + (i - n) = i
      BY <1>7, <1>13, <1>18
    <3>. QED
      BY <3>1
  <2>2. v = r.main[k].frame /\ v \in Frames /\ r.main[k].time \in Nat
    BY <1>1, <1>7, <1>15, <2>1, NodeIs
  <2>3. r.main[k].time \in TimesIn(r.main, v)
    BY <2>2, TimeOf
  <2>4. ASSUME NEW g \in Frames, g \in r.evitable, r.visits[g] # 0
        PROVE  ~ (Cardinality(TimesIn(r.main, g)) < K)
    <3>1. SUFFICES ASSUME g \in ToSet(r.lru) PROVE FALSE
      BY <2>4, TrackedFrame
    <3>2. PICK j \in DOMAIN r.lru : r.lru[j] = g
      BY <3>1 DEF ToSet
    <3>3. i <= j
      BY <1>9, <1>12, <2>4, <3>2
    <3>. QED
      BY <1>7, <1>13, <1>18, <3>3
  <2>5. r.visits[v] # 0 /\ TimesIn(r.main, v) \in SUBSET Nat
    BY <2>2, <2>3, TrackedFrame
  <2>6. ~ (Cardinality(TimesIn(r.main, v)) < K)
    BY <1>13, <1>15, <2>2, <2>4, <2>5
  <2>7. Min(TimesIn(r.main, v)) <= r.main[k].time /\ Min(TimesIn(r.main, v)) \in Nat
    BY <2>3, <2>5, MinIs
  <2>8. ASSUME NEW g \in EvictableIn(r) PROVE Precedes(r, v, g)
    <3>1. g \in Frames /\ r.visits[g] # 0 /\ g \in r.evitable
      BY <1>8
    <3>2. ~ (Cardinality(TimesIn(r.main, g)) < K)
      BY <2>4, <3>1
    <3>3. TimesIn(r.main, g) # {} /\ TimesIn(r.main, g) \in SUBSET Nat
      BY <3>1, TrackedFrame
    <3>4. Min(TimesIn(r.main, g)) \in TimesIn(r.main, g)
      BY <3>3, MinIs
    <3>5. PICK l \in DOMAIN r.main : r.main[l].frame = g /\ r.main[l].time = Min(TimesIn(r.main, g))
      BY <3>4, TimeOf
    <3>6. k <= l
      <4>1. n + l \in I
        BY <1>10, <3>1, <3>5
      <4>2. n + k <= n + l
        BY <1>12, <2>1, <4>1
      <4>. QED
        BY <1>7, <4>2
    <3>7. r.main[k].time <= r.main[l].time
      <4>1. k < l => r.main[k].time < r.main[l].time
        BY <1>1 DEF MainOrdered
      <4>2. r.main[l].time \in Nat
        BY <1>1, NodeIs
      <4>. QED
        BY <1>7, <2>2, <3>6, <4>1, <4>2
    <3>8. Min(TimesIn(r.main, v)) <= Min(TimesIn(r.main, g))
      BY <2>2, <2>7, <3>3, <3>4, <3>5, <3>7
    <3>. QED
      BY <2>6, <3>2, <3>8 DEF Precedes
  <2>. QED
    BY <1>16, <2>2, <2>5, <2>8
<1>. QED
  BY <1>14, <1>15, <1>17, <1>18

-----------------------------------------------------------------------------
(* The invariant *)

\* A new replacer is sound.
LEMMA InitSound == Init => ReplacerInv /\ Evictable = {} /\ \A f : AccessesOf(f) = {}
<1>. SUFFICES ASSUME Init PROVE ReplacerInv /\ Evictable = {} /\ \A f : AccessesOf(f) = {}
  OBVIOUS
<1>1. PICK r : r = EmptyReplacer
  OBVIOUS
<1>2. /\ r \in ReplacerType /\ r.lru = <<>> /\ r.main = <<>>
      /\ r.visits = [f \in Frames |-> 0] /\ r.evitable = {} /\ r.count = 0
  <2>1. [f \in Frames |-> 0] \in [Frames -> Nat]
    OBVIOUS
  <2>. QED
    BY <1>1, <2>1 DEF EmptyReplacer, ReplacerType
<1>3. DOMAIN r.lru = {} /\ DOMAIN r.main = {}
  BY <1>2
<1>4. \A f : TimesIn(r.main, f) = {}
  BY <1>3 DEF TimesIn
<1>5. EvictableIn(r) = {}
  BY <1>2 DEF EvictableIn, CanEvict
<1>6. MainOrdered(r.main, 0) /\ LRUOrdered(r)
  BY <1>3 DEF MainOrdered, LRUOrdered, Before
<1>7. LRUChainSound(r)
  BY <1>2, <1>3, KAssumption DEF LRUChainSound, ToSet, IsInjective
<1>8. LastVisitsKept(r)
  <2>1. Cardinality({}) = 0
    BY FS_EmptySet
  <2>2. ASSUME NEW f \in Frames
        PROVE  Cardinality(TimesIn(r.main, f)) = 0 /\ r.visits[f] = 0
    <3>1. TimesIn(r.main, f) = {}
      BY <1>4
    <3>2. r.visits[f] = 0
      BY <1>2
    <3>. QED
      BY ONLY <2>1, <3>1, <3>2
  <2>3. 0 <= K
    BY KAssumption
  <2>. QED
    BY ONLY <2>2, <2>3 DEF LastVisitsKept
<1>9. r.count = Cardinality(EvictableIn(r))
  BY <1>2, <1>5, FS_EmptySet
<1>10. ChainsSound(r, 0)
  BY <1>2, <1>6, <1>7, <1>8, <1>9 DEF ChainsSound
<1>. QED
  BY <1>1, <1>4, <1>5, <1>10 DEF Init, ReplacerInv, Evictable, AccessesOf

\* RecordAccess.
LEMMA RecordStep ==
  ASSUME ReplacerInv, NEW f \in Frames, Record(f)
  PROVE  /\ ReplacerInv' /\ Evictable' = Evictable
         /\ TimesChange(replacer.main, replacer'.main, f,
                        LastTimes(AccessesOf(f) \cup {timestamp + 1}))
<1>1. /\ timestamp \in Nat /\ ChainsSound(replacer, timestamp)
      /\ timestamp' = timestamp + 1 /\ answer' = answer
      /\ replacer' = RecordAccess(replacer, f, timestamp + 1)
  BY DEF ReplacerInv, Record
<1>2. /\ ChainsSound(replacer', timestamp + 1)
      /\ EvictableIn(replacer') = EvictableIn(replacer)
      /\ TimesChange(replacer.main, replacer'.main, f,
                     LastTimes(TimesIn(replacer.main, f) \cup {timestamp + 1}))
  BY <1>1, RecordAccessKeeps
<1>. QED
  BY <1>1, <1>2 DEF ReplacerInv, Evictable, AccessesOf

\* SetEvictable.
LEMMA MarkStep ==
  ASSUME ReplacerInv, NEW f \in Frames, NEW b \in BOOLEAN, Mark(f, b)
  PROVE  /\ ReplacerInv' /\ replacer'.main = replacer.main
         /\ Evictable' = IF b /\ Active(replacer, f) THEN Evictable \cup {f} ELSE Evictable \ {f}
<1>1. /\ ChainsSound(replacer, timestamp) /\ replacer' = SetEvictable(replacer, f, b)
      /\ timestamp' = timestamp /\ answer' = answer
  BY DEF ReplacerInv, Mark
<1>2. /\ ChainsSound(replacer', timestamp)
      /\ replacer'.main = replacer.main
      /\ EvictableIn(replacer') =
           IF b /\ Active(replacer, f) THEN EvictableIn(replacer) \cup {f} ELSE EvictableIn(replacer) \ {f}
  BY <1>1, SetEvictableKeeps
<1>. QED
  BY <1>1, <1>2 DEF ReplacerInv, Evictable

\* TryEvictExactFrame.
LEMMA EvictStep ==
  ASSUME ReplacerInv, NEW f \in Frames, CanEvict(replacer, f),
         replacer' = EvictFrame(replacer, f), timestamp' = timestamp,
         answer' \in Frames \cup {NoFrame}
  PROVE  /\ ReplacerInv' /\ f \in Evictable /\ Evictable' = Evictable \ {f}
         /\ TimesChange(replacer.main, replacer'.main, f, {})
<1>1. /\ ChainsSound(replacer', timestamp)
      /\ TimesChange(replacer.main, replacer'.main, f, {})
      /\ EvictableIn(replacer') = EvictableIn(replacer) \ {f}
  BY EvictFrameKeeps DEF ReplacerInv
<1>2. f \in Evictable
  BY DEF Evictable, EvictableIn
<1>. QED
  BY <1>1, <1>2 DEF ReplacerInv, Evictable

\* TryEvictLeastImportant evicts the victim of LRU-K, or finds there is none.
LEMMA EvictLeastImportantStep ==
  ASSUME ReplacerInv, EvictLeastImportant
  PROVE  /\ ReplacerInv'
         /\ \/ Evictable = {} /\ answer' = NoFrame /\ UNCHANGED <<replacer, timestamp>>
            \/ /\ answer' \in Evictable /\ Evictable' = Evictable \ {answer'}
               /\ \A g \in Evictable : Precedes(replacer, answer', g)
               /\ TimesChange(replacer.main, replacer'.main, answer', {})
               /\ UNCHANGED timestamp
<1>1. /\ ChainsSound(replacer, timestamp) /\ timestamp \in Nat
      /\ answer' = Victim(replacer) /\ timestamp' = timestamp
      /\ replacer' = IF answer' = NoFrame THEN replacer ELSE TryEvictExactFrame(replacer, answer')
  BY DEF ReplacerInv, EvictLeastImportant
<1>2. CASE Evictable = {}
  <2>1. answer' = NoFrame /\ replacer' = replacer
    BY <1>1, <1>2, VictimIs DEF Evictable
  <2>. QED
    BY <1>1, <1>2, <2>1 DEF ReplacerInv
<1>3. CASE Evictable # {}
  <2>1. answer' \in Evictable /\ \A g \in Evictable : Precedes(replacer, answer', g)
    BY <1>1, <1>3, VictimIs DEF Evictable
  <2>2. answer' \in Frames /\ CanEvict(replacer, answer') /\ answer' # NoFrame
    BY <2>1, NoFrameAssumption DEF Evictable, EvictableIn
  <2>3. replacer' = EvictFrame(replacer, answer')
    BY <1>1, <2>2 DEF TryEvictExactFrame
  <2>4. PICK v \in Frames : v = answer'
    BY <2>2
  <2>5. /\ ReplacerInv' /\ Evictable' = Evictable \ {v}
        /\ TimesChange(replacer.main, replacer'.main, v, {})
    BY <1>1, <2>2, <2>3, <2>4, EvictStep
  <2>. QED
    BY <1>1, <2>1, <2>4, <2>5
<1>. QED
  BY <1>2, <1>3

\* Every call keeps the chains and the count of the replacer sound.
LEMMA ReplacerInvStep == ReplacerInv /\ [Next]_vars => ReplacerInv'
<1>. SUFFICES ASSUME ReplacerInv, [Next]_vars PROVE ReplacerInv'
  OBVIOUS
<1>1. ASSUME NEW f \in Frames, Record(f) PROVE ReplacerInv'
  BY <1>1, RecordStep
<1>2. ASSUME NEW f \in Frames, NEW b \in BOOLEAN, Mark(f, b) PROVE ReplacerInv'
  BY <1>2, MarkStep
<1>3. ASSUME NEW f \in Frames, EvictExact(f) PROVE ReplacerInv'
  BY <1>3, EvictStep DEF EvictExact
<1>4. CASE EvictLeastImportant
  BY <1>4, EvictLeastImportantStep
<1>5. CASE UNCHANGED vars
  BY <1>5 DEF vars, ReplacerInv
<1>. QED
  BY <1>1, <1>2, <1>3, <1>4, <1>5 DEF Next

\* Whatever the calls, the chains have their nodes in the order of time, the
\* LRU chain the frames with fewer than K visits, the main chain the last K
\* visits of each.
THEOREM ReplacerInvariance == Spec => []ReplacerInv
<1>1. Init => ReplacerInv
  BY InitSound
<1>. QED
  BY <1>1, ReplacerInvStep, PTL DEF Spec

\* The counter counts the evictable frames.
THEOREM CountStaysExact == Spec => []CountIsExact
<1>1. ReplacerInv => CountIsExact
  BY DEF ReplacerInv, ChainsSound, CountIsExact, Evictable
<1>. QED
  BY <1>1, ReplacerInvariance, PTL

-----------------------------------------------------------------------------
(* The refinement *)

\* The policy counts and compares as the replacer does.
LEMMA PolicyOperators ==
  ASSUME NEW S
  PROVE  /\ Policy!Cardinality(S) = Cardinality(S)
         /\ Policy!Min(S) = Min(S) /\ Policy!Max(S) = Max(S)
         /\ Policy!LastK(S) = LastTimes(S)
<1>1. Policy!Cardinality(S) = Cardinality(S)
  BY DEF Policy!Cardinality, Cardinality
<1>2. Policy!Min(S) = Min(S) /\ Policy!Max(S) = Max(S)
  BY DEF Policy!Min, Min, Policy!Max, Max
<1>. QED
  BY <1>1, <1>2 DEF Policy!LastK, LastTimes

\* When the times of f change, so does the policy's record of f, and no other.
LEMMA AccessesChange ==
  ASSUME NEW f \in Frames, NEW T, TimesChange(replacer.main, replacer'.main, f, T)
  PROVE  [g \in Frames |-> AccessesOf(g)]' = [[g \in Frames |-> AccessesOf(g)] EXCEPT ![f] = T]
  BY DEF TimesChange, AccessesOf

\* Every call is a step of the policy or changes nothing it sees.
LEMMA PolicyStep == ReplacerInv /\ [Next]_vars => [Policy!Next]_(Policy!vars)
<1>. SUFFICES ASSUME ReplacerInv, [Next]_vars PROVE Policy!Next \/ UNCHANGED Policy!vars
  OBVIOUS
<1>1. ASSUME NEW f \in Frames, Record(f) PROVE Policy!Access(f)
  <2>1. timestamp' = timestamp + 1 /\ answer' = answer
    BY <1>1 DEF Record
  <2>2. /\ Evictable' = Evictable
        /\ TimesChange(replacer.main, replacer'.main, f,
                       LastTimes(AccessesOf(f) \cup {timestamp + 1}))
    BY <1>1, RecordStep
  <2>3. [g \in Frames |-> AccessesOf(g)]' =
          [[g \in Frames |-> AccessesOf(g)] EXCEPT ![f] = LastTimes(AccessesOf(f) \cup {timestamp + 1})]
    BY <2>2, AccessesChange
  <2>4. LastTimes(AccessesOf(f) \cup {timestamp + 1}) =
          Policy!LastK([g \in Frames |-> AccessesOf(g)][f] \cup {timestamp'})
    BY <2>1, PolicyOperators
  <2>. QED
    BY <2>1, <2>2, <2>3, <2>4 DEF Policy!Access
<1>2. ASSUME NEW f \in Frames, NEW b \in BOOLEAN, Mark(f, b)
      PROVE  Policy!Next \/ UNCHANGED Policy!vars
  <2>1. timestamp' = timestamp /\ answer' = answer
    BY <1>2 DEF Mark
  <2>2. /\ replacer'.main = replacer.main
        /\ Evictable' = IF b /\ Active(replacer, f) THEN Evictable \cup {f} ELSE Evictable \ {f}
    BY <1>2, MarkStep
  <2>3. [g \in Frames |-> AccessesOf(g)]' = [g \in Frames |-> AccessesOf(g)]
    BY <2>2 DEF AccessesOf
  <2>4. CASE b /\ Active(replacer, f)
    <3>1. AccessesOf(f) # {}
      BY <2>4, TrackedFrame DEF ReplacerInv, Active, AccessesOf
    <3>2. Policy!Unpin(f)
      BY <2>1, <2>2, <2>3, <2>4, <3>1 DEF Policy!Unpin
    <3>. QED
      BY <3>2 DEF Policy!Next
  <2>5. CASE ~ (b /\ Active(replacer, f))
    <3>1. Policy!Pin(f)
      BY <2>1, <2>2, <2>3, <2>5 DEF Policy!Pin
    <3>. QED
      BY <3>1 DEF Policy!Next
  <2>. QED
    BY <2>4, <2>5
<1>3. ASSUME NEW f \in Evictable, Evictable' = Evictable \ {f}, timestamp' = timestamp,
             TimesChange(replacer.main, replacer'.main, f, {})
      PROVE  Policy!Forget(f)
  <2>1. f \in Frames
    BY DEF Evictable, EvictableIn
  <2>2. [g \in Frames |-> AccessesOf(g)]' = [[g \in Frames |-> AccessesOf(g)] EXCEPT ![f] = {}]
    BY <1>3, <2>1, AccessesChange
  <2>. QED
    BY <1>3, <2>2 DEF Policy!Forget
<1>4. ASSUME NEW f \in Frames, EvictExact(f) PROVE Policy!Drop(f)
  <2>1. /\ CanEvict(replacer, f) /\ replacer' = EvictFrame(replacer, f)
        /\ answer' = NoFrame /\ timestamp' = timestamp
    BY <1>4 DEF EvictExact
  <2>2. /\ f \in Evictable /\ Evictable' = Evictable \ {f}
        /\ TimesChange(replacer.main, replacer'.main, f, {})
    BY <2>1, EvictStep
  <2>. QED
    BY <1>3, <2>1, <2>2 DEF Policy!Drop
<1>5. ASSUME EvictLeastImportant PROVE Policy!Next
  <2>1. CASE Evictable = {} /\ answer' = NoFrame /\ UNCHANGED <<replacer, timestamp>>
    <3>1. UNCHANGED <<timestamp, [g \in Frames |-> AccessesOf(g)], Evictable>>
      BY <2>1 DEF AccessesOf, Evictable
    <3>2. Policy!EvictNothing
      BY <2>1, <3>1 DEF Policy!EvictNothing
    <3>. QED
      BY <3>2 DEF Policy!Next
  <2>2. ASSUME answer' \in Evictable, Evictable' = Evictable \ {answer'},
               \A g \in Evictable : Precedes(replacer, answer', g),
               TimesChange(replacer.main, replacer'.main, answer', {}),
               UNCHANGED timestamp
        PROVE  Policy!Next
    <3>1. PICK v \in Evictable : v = answer'
      BY <2>2
    <3>2. v \in Frames
      BY DEF Evictable, EvictableIn
    <3>3. Policy!Forget(v)
      BY <1>3, <2>2, <3>1
    <3>4. ASSUME NEW g \in Evictable PROVE Policy!GoesBefore(v, g)
      <4>1. g \in Frames
        BY DEF Evictable, EvictableIn
      <4>2. Precedes(replacer, v, g)
        BY <2>2, <3>1
      <4>. QED
        BY <3>2, <4>1, <4>2, PolicyOperators
        DEF Policy!GoesBefore, Policy!Seldom, Precedes, AccessesOf
    <3>5. Policy!Evict(v)
      BY <3>1, <3>3, <3>4 DEF Policy!Evict
    <3>. QED
      BY <3>2, <3>5 DEF Policy!Next
  <2>. QED
    BY <1>5, <2>1, <2>2, EvictLeastImportantStep
<1>6. CASE UNCHANGED vars
  BY <1>6 DEF vars, Policy!vars, AccessesOf, Evictable
<1>. QED
  BY <1>1, <1>2, <1>4, <1>5, <1>6 DEF Next, Policy!Next

\* The replacer is LRU-K: through any mix of accesses, pins and evictions it
\* evicts the frame that LRU-K chooses from the full history.
THEOREM ReplacerIsLRUK == Spec => ImplementsPolicy
<1>1. Init => Policy!Init
  BY InitSound DEF Init, Policy!Init
<1>. QED
  BY <1>1, PolicyStep, ReplacerInvariance, PTL DEF Spec, ImplementsPolicy, Policy!Spec
=============================================================================
