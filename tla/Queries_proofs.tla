-------------------------- MODULE Queries_proofs --------------------------
(***************************************************************************)
(* Proofs about Queries, for any timetable, dates and number of tickets:   *)
(* the register holds the departures and arrivals of the released trains,  *)
(* and then query_ticket finds exactly the journeys of the timetable,      *)
(* lists exactly what buy_ticket sells, and agrees with query_train, and   *)
(* query_transfer finds the best change between two such tickets.          *)
(***************************************************************************)
EXTENDS Queries, FiniteSetTheorems, SequenceTheorems, WellFoundedInduction, TLAPS

-----------------------------------------------------------------------------
(* Numbers, recursion and sorting *)

\* A set of natural numbers that is not empty has a least one.
LEMMA LeastOf ==
  ASSUME NEW I \in SUBSET Nat, I # {}
  PROVE  \E m \in I : \A i \in I : m <= i
<1>1. PICK x \in I : \A y \in I : ~ (<<y, x>> \in OpToRel(<, Nat))
  BY NatLessThanWellFounded, WFMin
<1>2. ASSUME NEW y \in I PROVE x <= y
  <2>1. ~ (y < x)
    BY <1>1 DEF OpToRel
  <2>. QED
    BY <2>1
<1>. QED
  BY <1>2

\* Min is what its name says for natural numbers.
LEMMA MinIs ==
  ASSUME NEW I \in SUBSET Nat, I # {}
  PROVE  Min(I) \in I /\ \A i \in I : Min(I) <= i
<1>1. \E m \in I : \A i \in I : m <= i
  BY LeastOf
<1>. QED
  BY <1>1 DEF Min

\* Induction: a set of numbers that has a and the successor of each of its
\* members below b has all of them from a to b.
LEMMA UpFrom ==
  ASSUME NEW a \in Int, NEW b \in Int, NEW S,
         a <= b => a \in S, \A n \in a .. b - 1 : n \in S => n + 1 \in S
  PROVE  \A n \in a .. b : n \in S
<1>. DEFINE Missing == {d \in Nat : a + d <= b /\ a + d \notin S}
<1>1. Missing = {}
  <2>1. SUFFICES ASSUME Missing # {} PROVE FALSE
    OBVIOUS
  <2>2. PICK m \in Missing : \A d \in Missing : m <= d
    <3>1. Missing \in SUBSET Nat
      OBVIOUS
    <3>. QED
      BY <2>1, <3>1, LeastOf
  <2>3. m \in Nat /\ a + m <= b /\ a + m \notin S
    OBVIOUS
  <2>4. m # 0
    BY <2>3
  <2>5. m - 1 \in Nat /\ ~ (m <= m - 1)
    BY <2>3, <2>4
  <2>6. m - 1 \notin Missing
    BY <2>2, <2>5
  <2>. HIDE DEF Missing
  <2>7. a + (m - 1) \in S
    <3>1. a + (m - 1) <= b
      BY <2>3
    <3>. QED
      BY <2>5, <2>6, <3>1 DEF Missing
  <2>8. a + (m - 1) \in a .. b - 1
    BY <2>3, <2>5
  <2>9. (a + (m - 1)) + 1 \in S
    BY <2>7, <2>8
  <2>. QED
    BY <2>3, <2>9
<1>2. ASSUME NEW n \in a .. b PROVE n \in S
  <2>1. n - a \in Nat /\ a + (n - a) = n /\ n <= b
    OBVIOUS
  <2>2. n - a \notin Missing
    BY <1>1
  <2>. QED
    BY <2>1, <2>2
<1>. QED
  BY <1>2

\* f starts with s0 at a and goes on with F up to b.
Recurs(f, a, b, s0, F) ==
  f = [n \in a .. b |-> IF n = a THEN s0 ELSE F[<<n, f[n - 1]>>]]

\* A function that is defined by recursion exists.
LEMMA Recursion ==
  ASSUME NEW a \in Int, NEW b \in Int, a <= b, NEW S, NEW s0 \in S, NEW F,
         \A n \in a .. b, s \in S : n # a => F[<<n, s>>] \in S
  PROVE  \E f : Recurs(f, a, b, s0, F) /\ \A n \in a .. b : f[n] \in S
<1>. DEFINE Is(f, m) == f = [n \in a .. m |-> IF n = a THEN s0 ELSE F[<<n, f[n - 1]>>]]
            In(f, m) == \A n \in a .. m : f[n] \in S
            Ok == {m \in a .. b : \E f : Is(f, m) /\ In(f, m)}
<1>1. a \in Ok
  <2>. DEFINE g == [n \in a .. a |-> s0]
  <2>1. \A n \in a .. a : n = a /\ g[n] = s0
    OBVIOUS
  <2>2. Is(g, a) /\ In(g, a)
    BY <2>1
  <2>3. a \in a .. b
    OBVIOUS
  <2>. QED
    BY <2>2, <2>3
<1>2. ASSUME NEW m \in a .. b - 1, m \in Ok PROVE m + 1 \in Ok
  <2>1. PICK f : Is(f, m) /\ In(f, m)
    BY <1>2
  <2>. DEFINE g == [n \in a .. m + 1 |-> IF n <= m THEN f[n] ELSE F[<<n, f[n - 1]>>]]
  <2>2. ASSUME NEW n \in a .. m + 1
        PROVE  g[n] = (IF n = a THEN s0 ELSE F[<<n, g[n - 1]>>]) /\ g[n] \in S
    <3>1. CASE n = a
      <4>1. a \in a .. m /\ a <= m /\ a \in a .. m + 1
        OBVIOUS
      <4>2. g[a] = f[a] /\ f[a] = s0
        BY <2>1, <4>1
      <4>. QED
        BY <3>1, <4>2
    <3>2. CASE n # a
      <4>1. n - 1 \in a .. m + 1 /\ n - 1 <= m /\ n - 1 \in a .. m /\ n \in a .. b
        BY <3>2
      <4>2. g[n - 1] = f[n - 1] /\ f[n - 1] \in S
        BY <2>1, <4>1
      <4>3. F[<<n, f[n - 1]>>] \in S
        BY <3>2, <4>1, <4>2
      <4>4. CASE n <= m
        <5>1. g[n] = f[n] /\ n \in a .. m
          BY <4>4
        <5>2. f[n] = F[<<n, f[n - 1]>>]
          BY <2>1, <3>2, <5>1
        <5>. QED
          BY <3>2, <4>2, <4>3, <5>1, <5>2
      <4>5. CASE ~ (n <= m)
        <5>1. g[n] = F[<<n, f[n - 1]>>]
          BY <4>5
        <5>. QED
          BY <3>2, <4>2, <4>3, <5>1
      <4>. QED
        BY <4>4, <4>5
    <3>. QED
      BY <3>1, <3>2
  <2>3. PICK h : h = g
    OBVIOUS
  <2>4. h = [n \in a .. m + 1 |-> h[n]]
    BY <2>3
  <2>. HIDE DEF g
  <2>5. Is(h, m + 1) /\ In(h, m + 1)
    BY <2>2, <2>3, <2>4
  <2>6. m + 1 \in a .. b
    OBVIOUS
  <2>. QED
    BY <2>5, <2>6
<1>. HIDE DEF Ok
<1>3. \A n \in a .. b : n \in Ok
  BY <1>1, <1>2, UpFrom
<1>4. b \in Ok
  BY <1>3
<1>. QED
  BY <1>4 DEF Ok, Recurs

\* The members of a finite set can be put in the order of a total order R.
LEMMA OrderExists ==
  ASSUME NEW S, IsFiniteSet(S), NEW R,
         \A x \in S : <<x, x>> \notin R,
         \A x, y, z \in S : <<x, y>> \in R /\ <<y, z>> \in R => <<x, z>> \in R,
         \A x, y \in S : x # y => <<x, y>> \in R \/ <<y, x>> \in R
  PROVE  \E s \in [1 .. Cardinality(S) -> S] :
           \A i, j \in 1 .. Cardinality(S) : i < j => <<s[i], s[j]>> \in R
<1>. DEFINE Below(x) == {y \in S : <<y, x>> \in R}
            N == Cardinality(S)
            rank == [x \in S |-> Cardinality(Below(x)) + 1]
<1>1. N \in Nat /\ IsFiniteSet(1 .. N) /\ Cardinality(1 .. N) = N
  <2>1. N \in Nat
    BY FS_CardinalityType
  <2>2. IsFiniteSet(1 .. N) /\ Cardinality(1 .. N) = IF 1 > N THEN 0 ELSE N - 1 + 1
    BY <2>1, FS_Interval
  <2>. QED
    BY <2>1, <2>2
<1>2. ASSUME NEW x \in S PROVE IsFiniteSet(Below(x)) /\ Cardinality(Below(x)) \in Nat
  <2>1. Below(x) \in SUBSET S
    OBVIOUS
  <2>2. IsFiniteSet(Below(x))
    BY <2>1, FS_Subset
  <2>. QED
    BY <2>2, FS_CardinalityType
<1>3. ASSUME NEW x \in S PROVE rank[x] \in 1 .. N
  <2>1. Below(x) \in SUBSET S /\ Below(x) # S
    OBVIOUS
  <2>2. Cardinality(Below(x)) <= N /\ (N = Cardinality(Below(x)) => S = Below(x))
    BY <2>1, FS_Subset
  <2>3. PICK c \in Nat : c = Cardinality(Below(x))
    BY <1>2
  <2>4. rank[x] = c + 1
    BY <2>3
  <2>5. c <= N /\ c # N
    BY <2>1, <2>2, <2>3
  <2>. QED
    BY ONLY <1>1, <2>4, <2>5, c \in Nat
<1>4. ASSUME NEW x \in S, NEW y \in S, <<x, y>> \in R PROVE rank[x] < rank[y]
  <2>1. Below(x) \in SUBSET Below(y) /\ x \in Below(y) /\ x \notin Below(x)
    BY <1>4
  <2>2. /\ Cardinality(Below(x)) <= Cardinality(Below(y))
        /\ Cardinality(Below(y)) = Cardinality(Below(x)) => Below(y) = Below(x)
    BY <1>2, <2>1, FS_Subset
  <2>3. PICK c \in Nat, d \in Nat : c = Cardinality(Below(x)) /\ d = Cardinality(Below(y))
    BY <1>2
  <2>4. c <= d /\ c # d
    BY <2>1, <2>2, <2>3
  <2>5. rank[x] = c + 1 /\ rank[y] = d + 1
    BY <2>3
  <2>. QED
    BY ONLY <2>4, <2>5, c \in Nat, d \in Nat
<1>. HIDE DEF Below
<1>5. rank \in [S -> 1 .. N]
  BY <1>3
<1>6. rank \in Surjection(S, 1 .. N)
  <2>1. ASSUME NEW x \in S, NEW y \in S, rank[x] = rank[y] PROVE x = y
    <3>1. rank[x] \in 1 .. N /\ rank[y] \in 1 .. N
      BY <1>3
    <3>. HIDE DEF rank, N
    <3>2. \A k \in 1 .. N : ~ (k < k)
      BY <1>1
    <3>. QED
      BY <1>4, <2>1, <3>1, <3>2
  <2>. HIDE DEF rank
  <2>2. rank \in Injection(S, 1 .. N)
    BY <1>5, <2>1 DEF Injection, IsInjective
  <2>. QED
    BY <1>1, <2>2, FS_Injection
<1>. DEFINE s == [i \in 1 .. N |-> CHOOSE x \in S : rank[x] = i]
<1>7. ASSUME NEW i \in 1 .. N PROVE s[i] \in S /\ rank[s[i]] = i
  <2>. HIDE DEF rank
  <2>1. \E x \in S : rank[x] = i
    BY <1>6 DEF Surjection
  <2>. QED
    BY <2>1
<1>. HIDE DEF s, rank
<1>8. s \in [1 .. N -> S]
  BY <1>7 DEF s
<1>9. ASSUME NEW i \in 1 .. N, NEW j \in 1 .. N, i < j PROVE <<s[i], s[j]>> \in R
  <2>1. ~ (j < i) /\ i # j
    BY <1>1, <1>9
  <2>2. s[i] # s[j] /\ <<s[j], s[i]>> \notin R
    BY <1>4, <1>7, <2>1
  <2>. QED
    BY <1>7, <2>2
<1>. QED
  BY <1>8, <1>9

\* A finite set that is put in an order is listed without repetitions.
LEMMA OrderLists ==
  ASSUME NEW S, IsFiniteSet(S), NEW R, \A x \in S : <<x, x>> \notin R,
         NEW s \in [1 .. Cardinality(S) -> S],
         \A i, j \in 1 .. Cardinality(S) : i < j => <<s[i], s[j]>> \in R
  PROVE  /\ s \in Seq(S) /\ Len(s) = Cardinality(S) /\ DOMAIN s = 1 .. Len(s)
         /\ Range(s) = S
<1>. DEFINE N == Cardinality(S)
<1>1. N \in Nat /\ IsFiniteSet(1 .. N) /\ Cardinality(1 .. N) = N
  <2>1. N \in Nat
    BY FS_CardinalityType
  <2>2. IsFiniteSet(1 .. N) /\ Cardinality(1 .. N) = IF 1 > N THEN 0 ELSE N - 1 + 1
    BY <2>1, FS_Interval
  <2>. QED
    BY <2>1, <2>2
<1>. HIDE DEF N
<1>2. s \in Seq(S) /\ Len(s) = N /\ DOMAIN s = 1 .. Len(s)
  BY <1>1 DEF N
<1>3. s \in Injection(1 .. N, S)
  <2>1. ASSUME NEW i \in 1 .. N, NEW j \in 1 .. N, s[i] = s[j] PROVE i = j
    <3>1. s[i] \in S
      BY DEF N
    <3>2. ~ (i < j) /\ ~ (j < i)
      BY <2>1, <3>1 DEF N
    <3>. QED
      BY <1>1, <3>2
  <2>. QED
    BY <2>1 DEF Injection, IsInjective, N
<1>4. s \in Surjection(1 .. N, S)
  BY <1>1, <1>3, FS_Injection DEF N
<1>5. Range(s) = S
  BY <1>4 DEF Surjection, Range, N
<1>. QED
  BY <1>2, <1>5 DEF N

-----------------------------------------------------------------------------
(* Sums and the times of a train *)

\* The sums of f from a up to b: each is the one before it and the last summand.
Sums(f, a, b) ==
  /\ Sum(f, a, a - 1) = 0
  /\ \A k \in a - 1 .. b : Sum(f, a, k) \in Int
  /\ \A k \in a .. b : Sum(f, a, k) = Sum(f, a, k - 1) + f[k]

\* The sums of a function exist and are built up from the left.
LEMMA SumIs ==
  ASSUME NEW a \in Int, NEW b \in Int, a - 1 <= b, NEW f, \A k \in a .. b : f[k] \in Int
  PROVE  Sums(f, a, b)
<1>. DEFINE Is(u, m) == u = [k \in a - 1 .. m |-> IF k = a - 1 THEN 0 ELSE u[k - 1] + f[k]]
            F == [p \in (a .. b) \X Int |-> p[2] + f[p[1]]]
<1>1. ASSUME NEW m \in a - 1 .. b PROVE \E u : Is(u, m) /\ \A k \in a - 1 .. m : u[k] \in Int
  <2>1. ASSUME NEW k \in a - 1 .. m, NEW s \in Int, k # a - 1 PROVE F[<<k, s>>] \in Int
    <3>1. k \in a .. b
      BY <2>1
    <3>2. F[<<k, s>>] = s + f[k] /\ f[k] \in Int
      BY <3>1
    <3>. QED
      BY <3>2
  <2>2. a - 1 \in Int /\ m \in Int /\ a - 1 <= m /\ 0 \in Int
    OBVIOUS
  <2>. HIDE DEF F
  <2>3. PICK u : Recurs(u, a - 1, m, 0, F) /\ \A k \in a - 1 .. m : u[k] \in Int
    BY <2>1, <2>2, Recursion
  <2>4. ASSUME NEW k \in a - 1 .. m, k # a - 1 PROVE F[<<k, u[k - 1]>>] = u[k - 1] + f[k]
    <3>1. k - 1 \in a - 1 .. m /\ k \in a .. b
      BY <2>4
    <3>2. u[k - 1] \in Int
      BY <2>3, <3>1
    <3>. QED
      BY <3>1, <3>2 DEF F
  <2>5. Is(u, m)
    BY <2>3, <2>4 DEF Recurs
  <2>. QED
    BY <2>3, <2>5
<1>2. PICK u : Is(u, b) /\ \A k \in a - 1 .. b : u[k] \in Int
  <2>1. b \in a - 1 .. b
    OBVIOUS
  <2>. HIDE DEF Is
  <2>. QED
    BY <1>1, <2>1
<1>3. ASSUME NEW m \in a - 1 .. b PROVE Sum(f, a, m) = u[m]
  <2>. DEFINE v == CHOOSE v : Is(v, m)
  <2>1. Is(v, m)
    BY <1>1
  <2>2. Sum(f, a, m) = v[m]
    <3>1. CASE a <= m
      BY <3>1 DEF Sum
    <3>2. CASE m = a - 1
      <4>1. a - 1 \in a - 1 .. m /\ ~ (a <= m)
        BY <3>2
      <4>2. v[m] = 0
        <5>. HIDE DEF v
        <5>. QED
          BY <2>1, <3>2, <4>1
      <4>. HIDE DEF v
      <4>. QED
        BY <4>1, <4>2 DEF Sum
    <3>. QED
      BY <3>1, <3>2
  <2>. HIDE DEF v
  <2>. DEFINE Same == {k \in a - 1 .. m : v[k] = u[k]}
  <2>3. a - 1 \in Same
    <3>1. a - 1 \in a - 1 .. m /\ a - 1 \in a - 1 .. b
      OBVIOUS
    <3>. QED
      BY <1>2, <2>1, <3>1
  <2>4. ASSUME NEW k \in a - 1 .. m - 1, k \in Same PROVE k + 1 \in Same
    <3>1. k + 1 \in a - 1 .. m /\ k + 1 \in a - 1 .. b /\ k + 1 # a - 1 /\ (k + 1) - 1 = k
      OBVIOUS
    <3>2. v[k + 1] = v[k] + f[k + 1]
      BY <2>1, <3>1
    <3>3. u[k + 1] = u[k] + f[k + 1]
      BY <1>2, <3>1
    <3>. QED
      BY <2>4, <3>1, <3>2, <3>3
  <2>. HIDE DEF Same
  <2>5. \A k \in a - 1 .. m : k \in Same
    BY <2>3, <2>4, UpFrom
  <2>6. m \in Same
    BY <2>5
  <2>. QED
    BY <2>2, <2>6 DEF Same
<1>4. Sum(f, a, a - 1) = 0
  <2>1. a - 1 \in a - 1 .. b
    OBVIOUS
  <2>2. u[a - 1] = 0
    BY <1>2, <2>1
  <2>. QED
    BY <1>3, <2>1, <2>2
<1>5. ASSUME NEW k \in a .. b PROVE Sum(f, a, k) = Sum(f, a, k - 1) + f[k]
  <2>1. k \in a - 1 .. b /\ k - 1 \in a - 1 .. b /\ k # a - 1
    OBVIOUS
  <2>2. u[k] = u[k - 1] + f[k]
    BY <1>2, <2>1
  <2>. QED
    BY <1>3, <2>1, <2>2
<1>. QED
  BY <1>2, <1>3, <1>4, <1>5 DEF Sums

\* What add_train has checked of a train.
LEMMA TrainIs ==
  ASSUME NEW t \in Catalogue
  PROVE  /\ Len(t.stations) \in Nat /\ Len(t.stations) >= 2
         /\ \A i, j \in Stops(t) : t.stations[i] = t.stations[j] => i = j
         /\ \A i \in 1 .. Len(t.stations) - 1 : t.travelTime[i] \in Nat /\ t.price[i] \in Nat
         /\ \A i \in 2 .. Len(t.stations) - 1 : t.stopoverTime[i] \in Nat
         /\ t.startTime \in 0 .. Day - 1 /\ t.seatNum \in Nat /\ t.hash \in Nat /\ t.id \in Nat
<1>1. t.stations \in Seq(Stations) /\ IsInjective(t.stations)
  BY CatalogueAssumption
<1>2. DOMAIN t.stations = Stops(t) /\ Len(t.stations) \in Nat
  BY <1>1 DEF Stops
<1>3. \A i, j \in Stops(t) : t.stations[i] = t.stations[j] => i = j
  BY <1>1, <1>2 DEF IsInjective
<1>. QED
  BY <1>2, <1>3, CatalogueAssumption

\* The times of a train as release_train adds them up.
LEMMA OffsetsAre ==
  ASSUME NEW t \in Catalogue
  PROVE  /\ Offsets(t)[1] = [arrive |-> -1, leave |-> 0]
         /\ \A i \in 2 .. Len(t.stations) :
              /\ Offsets(t)[i].arrive = Offsets(t)[i - 1].leave + t.travelTime[i - 1]
              /\ Offsets(t)[i].leave = IF i = Len(t.stations) THEN -1
                                       ELSE Offsets(t)[i].arrive + t.stopoverTime[i]
<1>. DEFINE n == Len(t.stations)
            start == [arrive |-> -1, leave |-> 0]
            Next1(i, l) == [arrive |-> l + t.travelTime[i - 1],
                            leave |-> IF i = n THEN -1 ELSE l + t.travelTime[i - 1] + t.stopoverTime[i]]
            Is(o) == o = [i \in 1 .. n |-> IF i = 1 THEN start ELSE Next1(i, o[i - 1].leave)]
            S == [arrive : Int, leave : Int]
            F == [p \in (2 .. n) \X S |-> Next1(p[1], p[2].leave)]
            k == CHOOSE o : Is(o)
<1>1. n \in Nat /\ n >= 2
  BY TrainIs
<1>2. Offsets(t) = k
  BY DEF Offsets, OffsetsWaiting, Stops
<1>3. ASSUME NEW i \in 2 .. n, NEW s \in S PROVE F[<<i, s>>] = Next1(i, s.leave) /\ F[<<i, s>>] \in S
  <2>1. F[<<i, s>>] = Next1(i, s.leave)
    OBVIOUS
  <2>2. i - 1 \in 1 .. n - 1 /\ (i # n => i \in 2 .. n - 1)
    BY <1>1
  <2>3. t.travelTime[i - 1] \in Int /\ (i # n => t.stopoverTime[i] \in Int)
    BY <2>2, TrainIs
  <2>4. s.leave \in Int
    OBVIOUS
  <2>5. Next1(i, s.leave) \in S
    BY <2>3, <2>4
  <2>. QED
    BY <2>1, <2>5
<1>4. start \in S
  OBVIOUS
<1>5. \E o : Is(o)
  <2>. HIDE DEF F, S, start, Next1, n
  <2>1. \A i \in 1 .. n, s \in S : i # 1 => F[<<i, s>>] \in S
    BY <1>1, <1>3
  <2>2. PICK o : Recurs(o, 1, n, start, F) /\ \A i \in 1 .. n : o[i] \in S
    <3>1. 1 \in Int /\ n \in Int /\ 1 <= n
      BY <1>1
    <3>. QED
      BY <1>4, <2>1, <3>1, Recursion
  <2>3. ASSUME NEW i \in 1 .. n, i # 1 PROVE F[<<i, o[i - 1]>>] = Next1(i, o[i - 1].leave)
    <3>1. i - 1 \in 1 .. n /\ i \in 2 .. n
      BY <1>1, <2>3
    <3>. QED
      BY <1>3, <2>2, <3>1
  <2>4. Is(o)
    BY <2>2, <2>3 DEF Recurs
  <2>. QED
    BY <2>4
<1>6. Is(k)
  BY <1>5
<1>. HIDE DEF k, Next1, n, start
<1>7. \A i \in 1 .. n : k[i] = IF i = 1 THEN start ELSE Next1(i, k[i - 1].leave)
  BY <1>6
<1>8. k[1] = start
  BY <1>1, <1>7
<1>9. ASSUME NEW i \in 2 .. n PROVE k[i] = Next1(i, k[i - 1].leave)
  BY <1>1, <1>7
<1>10. ASSUME NEW i \in 2 .. n
       PROVE  /\ k[i].arrive = k[i - 1].leave + t.travelTime[i - 1]
              /\ k[i].leave = IF i = n THEN -1 ELSE k[i].arrive + t.stopoverTime[i]
  <2>1. PICK l : l = k[i - 1].leave
    OBVIOUS
  <2>2. k[i] = [arrive |-> l + t.travelTime[i - 1],
                leave |-> IF i = n THEN -1 ELSE l + t.travelTime[i - 1] + t.stopoverTime[i]]
    BY <1>9, <2>1 DEF Next1
  <2>3. k[i].arrive = l + t.travelTime[i - 1]
    BY <2>2
  <2>4. k[i].leave = IF i = n THEN -1 ELSE l + t.travelTime[i - 1] + t.stopoverTime[i]
    BY <2>2
  <2>. QED
    BY <2>1, <2>3, <2>4
<1>. QED
  BY <1>2, <1>8, <1>10 DEF n, start

\* A train arrives at no stop before it has left the ones before.
LEMMA OffsetsGrow ==
  ASSUME NEW t \in Catalogue
  PROVE  /\ Offsets(t)[1].arrive = -1 /\ Offsets(t)[1].leave = 0
         /\ Offsets(t)[Len(t.stations)].leave = -1
         /\ \A j \in 2 .. Len(t.stations) : Offsets(t)[j].arrive \in Nat
         /\ \A i \in 1 .. Len(t.stations) - 1 : Offsets(t)[i].leave \in Nat
         /\ \A i \in 1 .. Len(t.stations) - 1, j \in 2 .. Len(t.stations) :
              IF i < j THEN Offsets(t)[i].leave <= Offsets(t)[j].arrive
              ELSE Offsets(t)[j].arrive <= Offsets(t)[i].leave
<1>. DEFINE n == Len(t.stations)
            A(i) == Offsets(t)[i].arrive
            L(i) == Offsets(t)[i].leave
<1>1. n \in Nat /\ n >= 2
  BY TrainIs
<1>2. /\ \A i \in 1 .. n - 1 : t.travelTime[i] \in Nat
      /\ \A i \in 2 .. n - 1 : t.stopoverTime[i] \in Nat
  BY TrainIs
<1>3. /\ A(1) = -1 /\ L(1) = 0
      /\ \A i \in 2 .. n : A(i) = L(i - 1) + t.travelTime[i - 1]
      /\ \A i \in 2 .. n : L(i) = IF i = n THEN -1 ELSE A(i) + t.stopoverTime[i]
  BY OffsetsAre
<1>. HIDE DEF n, A, L
<1>. DEFINE Good == {m \in 2 .. n : /\ A(m) \in Nat
                                    /\ \A i \in 1 .. m - 1 : L(i) \in Nat /\ L(i) <= A(m)}
<1>4. 2 \in Good
  <2>1. 2 \in 2 .. n /\ 1 \in 1 .. n - 1 /\ 2 - 1 = 1
    BY <1>1
  <2>2. A(2) = 0 + t.travelTime[1] /\ t.travelTime[1] \in Nat
    BY <1>2, <1>3, <2>1
  <2>3. A(2) \in Nat /\ \A i \in 1 .. 2 - 1 : i = 1
    BY <2>2
  <2>. QED
    BY <1>3, <2>1, <2>3
<1>5. ASSUME NEW m \in 2 .. n - 1 PROVE L(m) = A(m) + t.stopoverTime[m] /\ t.stopoverTime[m] \in Nat
  <2>1. m \in 2 .. n /\ m # n
    BY <1>1
  <2>. QED
    BY <1>2, <1>3, <2>1
<1>6. ASSUME NEW m \in 2 .. n - 1, m \in Good PROVE m + 1 \in Good
  <2>1. PICK a \in Nat, w \in Nat : a = A(m) /\ w = t.stopoverTime[m] /\ L(m) = a + w
    BY <1>5, <1>6
  <2>2. m + 1 \in 2 .. n /\ (m + 1) - 1 = m /\ m \in 1 .. n - 1
    BY <1>1
  <2>3. PICK v \in Nat : v = t.travelTime[m]
    BY <1>2, <2>2
  <2>4. A(m + 1) = (a + w) + v
    BY <1>3, <2>1, <2>2, <2>3
  <2>5. ASSUME NEW i \in 1 .. m PROVE L(i) \in Nat /\ L(i) <= A(m + 1)
    <3>1. CASE i = m
      BY <2>1, <2>4, <3>1
    <3>2. CASE i # m
      <4>1. i \in 1 .. m - 1
        BY <3>2
      <4>2. L(i) \in Nat /\ L(i) <= a
        BY <1>6, <2>1, <4>1
      <4>. QED
        BY ONLY <2>4, <4>2, a \in Nat, w \in Nat, v \in Nat
    <3>. QED
      BY <3>1, <3>2
  <2>6. A(m + 1) \in Nat
    BY <2>4
  <2>. QED
    BY <2>2, <2>5, <2>6
<1>7. \A m \in 2 .. n : m \in Good
  <2>. HIDE DEF Good
  <2>1. 2 \in Int /\ n \in Int
    BY <1>1
  <2>. QED
    BY <1>4, <1>6, <2>1, UpFrom
<1>8. ASSUME NEW j \in 2 .. n
      PROVE  A(j) \in Nat /\ \A i \in 1 .. j - 1 : L(i) \in Nat /\ L(i) <= A(j)
  BY <1>7
<1>. HIDE DEF Good
<1>9. ASSUME NEW i \in 1 .. n - 1 PROVE L(i) \in Nat
  <2>1. n \in 2 .. n
    BY <1>1
  <2>. QED
    BY <1>8, <2>1
<1>10. ASSUME NEW i \in 1 .. n - 1, NEW j \in 2 .. n PROVE IF i < j THEN L(i) <= A(j) ELSE A(j) <= L(i)
  <2>1. CASE i < j
    <3>1. i \in 1 .. j - 1
      BY <2>1
    <3>. QED
      BY <1>8, <2>1, <3>1
  <2>2. CASE ~ (i < j)
    <3>1. i \in 2 .. n - 1 /\ j \in 2 .. n - 1 /\ i \in 2 .. n
      BY <1>1, <2>2
    <3>2. A(i) \in Nat /\ A(j) \in Nat /\ L(i) \in Nat /\ L(j) \in Nat /\ A(i) <= L(i) /\ A(j) <= L(j)
      BY <1>5, <1>8, <1>9, <3>1
    <3>3. CASE i = j
      BY <2>2, <3>2, <3>3
    <3>4. CASE i # j
      <4>1. j \in 1 .. i - 1
        BY <2>2, <3>4
      <4>2. L(j) <= A(i)
        BY <1>8, <3>1, <4>1
      <4>. QED
        BY <2>2, <3>2, <4>2
    <3>. QED
      BY <3>3, <3>4
  <2>. QED
    BY <2>1, <2>2
<1>11. L(n) = -1
  <2>1. n \in 2 .. n
    BY <1>1
  <2>. QED
    BY <1>3, <2>1
<1>. QED
  BY <1>3, <1>8, <1>9, <1>10, <1>11 DEF n, A, L

-----------------------------------------------------------------------------
(* The stop register *)

Departure(t, i) ==
  [station |-> t.stations[i], train |-> t.hash, type |-> Leave, startTime |-> t.startTime,
   stop |-> i, beg |-> t.saleDate_beg, end |-> t.saleDate_end, offset |-> Offsets(t)[i].leave]

Arrival(t, j) ==
  [station |-> t.stations[j], train |-> t.hash, type |-> Arrive, startTime |-> t.startTime,
   stop |-> j, beg |-> t.saleDate_beg, end |-> t.saleDate_end, offset |-> Offsets(t)[j].arrive]

\* A train leaves every stop but the last and arrives at every stop but the first.
LeavesAt(t, f, i) == i \in 1 .. Len(t.stations) - 1 /\ t.stations[i] = f
ArrivesAt(t, g, j) == j \in 2 .. Len(t.stations) /\ t.stations[j] = g

\* The released trains have different hashes, and the register has exactly
\* their departures and arrivals.
RegisterInv ==
  /\ released \subseteq Catalogue /\ IsFiniteSet(register)
  /\ \A t, u \in released : t.hash = u.hash => t = u
  /\ register = UNION {UNION {AddStopInfo(t, i) : i \in Stops(t)} : t \in released}

\* The bit fields of a record hold what is put into them.
LEMMA FieldsFit ==
  ASSUME NEW t \in Catalogue, NEW i \in Stops(t), NEW o \in Nat, o < OffsetValues
  PROVE  /\ June_1st_2024 + ((t.saleDate_beg - June_1st_2024) % DayValues) = t.saleDate_beg
         /\ June_1st_2024 + ((t.saleDate_end - June_1st_2024) % DayValues) = t.saleDate_end
         /\ o % OffsetValues = o
<1>1. \A d \in 0 .. 255 : d % 256 = d
  OBVIOUS
<1>2. ASSUME NEW d \in June_1st_2024 .. June_1st_2024 + DayValues - 1
      PROVE  June_1st_2024 + ((d - June_1st_2024) % DayValues) = d
  <2>1. d - 152 \in 0 .. 255
    BY DEF June_1st_2024, DayValues
  <2>2. (d - 152) % 256 = d - 152
    BY <1>1, <2>1
  <2>. QED
    BY <2>1, <2>2 DEF June_1st_2024, DayValues
<1>3. o % 16384 = o
  BY DEF OffsetValues
<1>4. {t.saleDate_beg, t.saleDate_end} \subseteq June_1st_2024 .. June_1st_2024 + DayValues - 1
  BY CatalogueAssumption
<1>. QED
  BY <1>2, <1>3, <1>4 DEF OffsetValues

\* What release_train adds for one stop.
LEMMA StopInfoIs ==
  ASSUME NEW t \in Catalogue, NEW i \in Stops(t)
  PROVE  /\ AddStopInfo(t, i) = {r \in {Departure(t, i)} : i # Len(t.stations)}
                                \cup {r \in {Arrival(t, i)} : i # 1}
         /\ IsFiniteSet(AddStopInfo(t, i))
<1>. DEFINE n == Len(t.stations)
            a == Offsets(t)[i].arrive
            l == Offsets(t)[i].leave
<1>1. n \in Nat /\ n >= 2 /\ i \in 1 .. n
  BY TrainIs DEF Stops
<1>2. /\ IF i = 1 THEN a = -1 ELSE a \in Nat
      /\ IF i = n THEN l = -1 ELSE l \in Nat
  <2>1. i # 1 => i \in 2 .. n
    BY <1>1
  <2>2. i # n => i \in 1 .. n - 1
    BY <1>1
  <2>. QED
    BY <2>1, <2>2, OffsetsGrow
<1>3. a < OffsetValues /\ l < OffsetValues
  BY OffsetsAssumption
<1>. HIDE DEF a, l, n
<1>4. {StopRecord(t, i, Arrive, o) : o \in {a} \ {-1}} = {r \in {Arrival(t, i)} : i # 1}
  <2>1. CASE i = 1
    BY <1>2, <2>1
  <2>2. CASE i # 1
    <3>1. a \in Nat /\ a # -1
      BY <1>2, <2>2
    <3>2. StopRecord(t, i, Arrive, a) = Arrival(t, i)
      <4>1. /\ June_1st_2024 + ((t.saleDate_beg - June_1st_2024) % DayValues) = t.saleDate_beg
            /\ June_1st_2024 + ((t.saleDate_end - June_1st_2024) % DayValues) = t.saleDate_end
            /\ a % OffsetValues = a
        BY <1>3, <3>1, FieldsFit
      <4>. QED
        BY <4>1 DEF StopRecord, Arrival, a
    <3>. QED
      BY <2>2, <3>1, <3>2
  <2>. QED
    BY <2>1, <2>2
<1>5. {StopRecord(t, i, Leave, o) : o \in {l} \ {-1}} = {r \in {Departure(t, i)} : i # n}
  <2>1. CASE i = n
    BY <1>2, <2>1
  <2>2. CASE i # n
    <3>1. l \in Nat /\ l # -1
      BY <1>2, <2>2
    <3>2. StopRecord(t, i, Leave, l) = Departure(t, i)
      <4>1. /\ June_1st_2024 + ((t.saleDate_beg - June_1st_2024) % DayValues) = t.saleDate_beg
            /\ June_1st_2024 + ((t.saleDate_end - June_1st_2024) % DayValues) = t.saleDate_end
            /\ l % OffsetValues = l
        BY <1>3, <3>1, FieldsFit
      <4>. QED
        BY <4>1 DEF StopRecord, Departure, l
    <3>. QED
      BY <2>2, <3>1, <3>2
  <2>. QED
    BY <2>1, <2>2
<1>6. AddStopInfo(t, i) = {r \in {Departure(t, i)} : i # n} \cup {r \in {Arrival(t, i)} : i # 1}
  BY <1>4, <1>5 DEF AddStopInfo, a, l
<1>7. IsFiniteSet({Departure(t, i)} \cup {Arrival(t, i)})
  BY FS_Singleton, FS_Union
<1>8. AddStopInfo(t, i) \in SUBSET ({Departure(t, i)} \cup {Arrival(t, i)})
  BY <1>6
<1>9. IsFiniteSet(AddStopInfo(t, i))
  BY <1>7, <1>8, FS_Subset
<1>. QED
  BY <1>6, <1>9 DEF n

\* The departures from f and the arrivals at g in the register.
LEMMA RegisterIs ==
  ASSUME RegisterInv, NEW f
  PROVE  /\ \A r : r \in register /\ r.station = f /\ r.type = Leave
                     <=> \E t \in released, i \in Nat : LeavesAt(t, f, i) /\ r = Departure(t, i)
         /\ \A r : r \in register /\ r.station = f /\ r.type = Arrive
                     <=> \E t \in released, j \in Nat : ArrivesAt(t, f, j) /\ r = Arrival(t, j)
<1>1. ASSUME NEW r
      PROVE  r \in register <=> \E t \in released : \E i \in Stops(t) : r \in AddStopInfo(t, i)
  BY DEF RegisterInv
<1>2. ASSUME NEW t \in released, NEW i \in Stops(t), NEW r
      PROVE  r \in AddStopInfo(t, i) <=> \/ i # Len(t.stations) /\ r = Departure(t, i)
                                         \/ i # 1 /\ r = Arrival(t, i)
  <2>1. t \in Catalogue
    BY DEF RegisterInv
  <2>. QED
    BY <2>1, StopInfoIs
<1>3. ASSUME NEW t \in released
      PROVE  /\ \A i : i \in Stops(t) /\ i # Len(t.stations) <=> i \in 1 .. Len(t.stations) - 1
             /\ \A i : i \in Stops(t) /\ i # 1 <=> i \in 2 .. Len(t.stations)
             /\ \A i \in Stops(t) : i \in Nat
  <2>1. Len(t.stations) \in Nat
    BY TrainIs DEF RegisterInv
  <2>. QED
    BY <2>1 DEF Stops
<1>4. \A t, i : /\ Departure(t, i).station = t.stations[i] /\ Departure(t, i).type = Leave
                /\ Arrival(t, i).station = t.stations[i] /\ Arrival(t, i).type = Arrive
                /\ Leave # Arrive
  BY DEF Departure, Arrival, Leave, Arrive
<1>5. ASSUME NEW r
      PROVE  r \in register /\ r.station = f /\ r.type = Leave
               <=> \E t \in released, i \in Nat : LeavesAt(t, f, i) /\ r = Departure(t, i)
  <2>1. ASSUME r \in register, r.station = f, r.type = Leave
        PROVE  \E t \in released, i \in Nat : LeavesAt(t, f, i) /\ r = Departure(t, i)
    <3>1. PICK t \in released : \E i \in Stops(t) : r \in AddStopInfo(t, i)
      BY <1>1, <2>1
    <3>2. PICK i \in Stops(t) : r \in AddStopInfo(t, i)
      BY <3>1
    <3>3. i # Len(t.stations) /\ r = Departure(t, i)
      BY <1>2, <1>4, <2>1, <3>2
    <3>. QED
      BY <1>3, <1>4, <2>1, <3>3 DEF LeavesAt
  <2>2. ASSUME NEW t \in released, NEW i \in Nat, LeavesAt(t, f, i), r = Departure(t, i)
        PROVE  r \in register /\ r.station = f /\ r.type = Leave
    <3>1. i \in Stops(t) /\ i # Len(t.stations)
      BY <1>3, <2>2 DEF LeavesAt
    <3>2. r \in AddStopInfo(t, i)
      BY <1>2, <2>2, <3>1
    <3>. QED
      BY <1>1, <1>4, <2>2, <3>1, <3>2 DEF LeavesAt
  <2>. QED
    BY <2>1, <2>2
<1>6. ASSUME NEW r
      PROVE  r \in register /\ r.station = f /\ r.type = Arrive
               <=> \E t \in released, j \in Nat : ArrivesAt(t, f, j) /\ r = Arrival(t, j)
  <2>1. ASSUME r \in register, r.station = f, r.type = Arrive
        PROVE  \E t \in released, j \in Nat : ArrivesAt(t, f, j) /\ r = Arrival(t, j)
    <3>1. PICK t \in released : \E i \in Stops(t) : r \in AddStopInfo(t, i)
      BY <1>1, <2>1
    <3>2. PICK i \in Stops(t) : r \in AddStopInfo(t, i)
      BY <3>1
    <3>3. i # 1 /\ r = Arrival(t, i)
      BY <1>2, <1>4, <2>1, <3>2
    <3>. QED
      BY <1>3, <1>4, <2>1, <3>3 DEF ArrivesAt
  <2>2. ASSUME NEW t \in released, NEW j \in Nat, ArrivesAt(t, f, j), r = Arrival(t, j)
        PROVE  r \in register /\ r.station = f /\ r.type = Arrive
    <3>1. j \in Stops(t) /\ j # 1
      BY <1>3, <2>2 DEF ArrivesAt
    <3>2. r \in AddStopInfo(t, j)
      BY <1>2, <2>2, <3>1
    <3>. QED
      BY <1>1, <1>4, <2>2, <3>1, <3>2 DEF ArrivesAt
  <2>. QED
    BY <2>1, <2>2
<1>. QED
  BY <1>5, <1>6

\* The register has at most one departure and one arrival of a train at a station.
LEMMA OneEach ==
  ASSUME RegisterInv, NEW f, NEW type \in {Arrive, Leave}, NEW r \in register, NEW q \in register,
         r.station = f, r.type = type, q.station = f, q.type = type
  PROVE  r.train \in Nat /\ (r.train = q.train => r = q)
<1>1. ASSUME NEW t \in released, NEW i \in Stops(t), NEW j \in Stops(t), t.stations[i] = t.stations[j]
      PROVE  i = j
  <2>1. t \in Catalogue
    BY DEF RegisterInv
  <2>. QED
    BY <1>1, <2>1, TrainIs
<1>2. ASSUME NEW t \in released
      PROVE  /\ \A i : LeavesAt(t, f, i) \/ ArrivesAt(t, f, i) => i \in Stops(t) /\ t.stations[i] = f
             /\ t.hash \in Nat
  <2>1. Len(t.stations) \in Nat /\ t.hash \in Nat
    BY TrainIs DEF RegisterInv
  <2>. QED
    BY <2>1 DEF Stops, LeavesAt, ArrivesAt
<1>3. \A t, i : Departure(t, i).train = t.hash /\ Arrival(t, i).train = t.hash
  BY DEF Departure, Arrival
<1>4. \A t, u \in released : t.hash = u.hash => t = u
  BY DEF RegisterInv
<1>5. CASE type = Leave
  <2>1. PICK t \in released, i \in Nat : LeavesAt(t, f, i) /\ r = Departure(t, i)
    BY <1>5, RegisterIs
  <2>2. PICK u \in released, j \in Nat : LeavesAt(u, f, j) /\ q = Departure(u, j)
    BY <1>5, RegisterIs
  <2>3. r.train = t.hash /\ q.train = u.hash
    BY <1>3, <2>1, <2>2
  <2>4. ASSUME t = u PROVE i = j
    BY <1>1, <1>2, <2>1, <2>2, <2>4
  <2>. QED
    BY <1>2, <1>4, <2>1, <2>2, <2>3, <2>4
<1>6. CASE type = Arrive
  <2>1. PICK t \in released, i \in Nat : ArrivesAt(t, f, i) /\ r = Arrival(t, i)
    BY <1>6, RegisterIs
  <2>2. PICK u \in released, j \in Nat : ArrivesAt(u, f, j) /\ q = Arrival(u, j)
    BY <1>6, RegisterIs
  <2>3. r.train = t.hash /\ q.train = u.hash
    BY <1>3, <2>1, <2>2
  <2>4. ASSUME t = u PROVE i = j
    BY <1>1, <1>2, <2>1, <2>2, <2>4
  <2>. QED
    BY <1>2, <1>4, <2>1, <2>2, <2>3, <2>4
<1>. QED
  BY <1>5, <1>6

\* rs lists the records of S by train, each once.
ListsByTrain(rs, S) ==
  /\ rs \in Seq(S) /\ Len(rs) = Cardinality(S)
  /\ \A r \in S : \E a \in 1 .. Len(rs) : rs[a] = r
  /\ \A a, b \in 1 .. Len(rs) : a < b => rs[a].train < rs[b].train

\* Records of one station and type are met in the order of the trains.
LEMMA ByTrainLists ==
  ASSUME RegisterInv, NEW f, NEW type \in {Arrive, Leave}, NEW S \in SUBSET register,
         \A r \in S : r.station = f /\ r.type = type
  PROVE  ListsByTrain(ByTrain(S), S)
<1>. DEFINE R == {p \in S \X S : p[1].train < p[2].train}
            N == Cardinality(S)
            Is(s) == s \in [1 .. N -> S] /\ \A i, j \in DOMAIN s : i < j => s[i].train < s[j].train
            rs == CHOOSE s : Is(s)
<1>1. IsFiniteSet(S) /\ N \in Nat
  <2>1. S \in SUBSET register /\ IsFiniteSet(register)
    BY DEF RegisterInv
  <2>2. IsFiniteSet(S)
    BY <2>1, FS_Subset
  <2>. QED
    BY <2>2, FS_CardinalityType
<1>2. ASSUME NEW x \in S, NEW y \in S PROVE x.train \in Nat /\ (x.train = y.train => x = y)
  BY OneEach
<1>3. \A x \in S, y \in S : <<x, y>> \in R <=> x.train < y.train
  OBVIOUS
<1>. HIDE DEF R
<1>4. \E s \in [1 .. N -> S] : \A i, j \in 1 .. N : i < j => <<s[i], s[j]>> \in R
  <2>1. \A x \in S : <<x, x>> \notin R
    BY <1>2, <1>3
  <2>2. \A x, y, z \in S : <<x, y>> \in R /\ <<y, z>> \in R => <<x, z>> \in R
    <3>1. ASSUME NEW x \in S, NEW y \in S, NEW z \in S, <<x, y>> \in R, <<y, z>> \in R
          PROVE  <<x, z>> \in R
      <4>1. x.train \in Nat /\ y.train \in Nat /\ z.train \in Nat
        BY <1>2
      <4>2. x.train < y.train /\ y.train < z.train
        BY <1>3, <3>1
      <4>3. x.train < z.train
        BY <4>1, <4>2
      <4>. QED
        BY <1>3, <4>3
    <3>. QED
      BY <3>1
  <2>3. \A x, y \in S : x # y => <<x, y>> \in R \/ <<y, x>> \in R
    <3>1. ASSUME NEW x \in S, NEW y \in S, x # y PROVE <<x, y>> \in R \/ <<y, x>> \in R
      <4>1. x.train \in Nat /\ y.train \in Nat /\ x.train # y.train
        BY <1>2, <3>1
      <4>2. x.train < y.train \/ y.train < x.train
        BY <4>1
      <4>. QED
        BY <1>3, <4>2
    <3>. QED
      BY <3>1
  <2>. HIDE DEF N
  <2>. QED
    BY <1>1, <2>1, <2>2, <2>3, OrderExists DEF N
<1>5. PICK s \in [1 .. N -> S] : \A i, j \in 1 .. N : i < j => <<s[i], s[j]>> \in R
  BY <1>4
<1>. HIDE DEF N
<1>6. Is(s)
  <2>1. ASSUME NEW i \in 1 .. N, NEW j \in 1 .. N, i < j PROVE s[i].train < s[j].train
    <3>1. s[i] \in S /\ s[j] \in S /\ <<s[i], s[j]>> \in R
      BY <1>5, <2>1
    <3>. QED
      BY <1>3, <3>1
  <2>. QED
    BY <2>1
<1>7. Is(rs)
  BY <1>6
<1>8. ByTrain(S) = rs
  <2>1. ByTrain(S) = CHOOSE u \in [1 .. N -> S] : \A i, j \in DOMAIN u : i < j => u[i].train < u[j].train
    BY DEF ByTrain, InOrder, N
  <2>2. (CHOOSE u \in [1 .. N -> S] : \A i, j \in DOMAIN u : i < j => u[i].train < u[j].train)
          = CHOOSE u : u \in [1 .. N -> S] /\ \A i, j \in DOMAIN u : i < j => u[i].train < u[j].train
    OBVIOUS
  <2>. QED
    BY <2>1, <2>2
<1>. HIDE DEF rs
<1>9. ASSUME NEW i \in 1 .. N, NEW j \in 1 .. N, i < j
      PROVE  rs[i].train < rs[j].train /\ <<rs[i], rs[j]>> \in R
  <2>1. rs[i] \in S /\ rs[j] \in S /\ rs[i].train < rs[j].train
    BY <1>7, <1>9
  <2>. QED
    BY <1>3, <2>1
<1>10. rs \in Seq(S) /\ Len(rs) = N /\ Range(rs) = S /\ DOMAIN rs = 1 .. Len(rs)
  <2>1. \A x \in S : <<x, x>> \notin R
    BY <1>2, <1>3
  <2>2. rs \in [1 .. N -> S] /\ \A i, j \in 1 .. N : i < j => <<rs[i], rs[j]>> \in R
    BY <1>7, <1>9
  <2>. QED
    BY <1>1, <2>1, <2>2, OrderLists DEF N
<1>11. \A r \in S : \E a \in 1 .. Len(rs) : rs[a] = r
  BY <1>10 DEF Range
<1>12. ListsByTrain(rs, S)
  BY <1>9, <1>10, <1>11 DEF ListsByTrain, N
<1>. QED
  BY <1>8, <1>12

\* What the iterators meet at a station.
LEMMA RecordsAre ==
  ASSUME RegisterInv, NEW f, NEW type \in {Arrive, Leave}
  PROVE  ListsByTrain(Records(f, type), {r \in register : r.station = f /\ r.type = type})
BY ByTrainLists DEF Records

-----------------------------------------------------------------------------
(* The two iterators of QueryDirectTrains *)

\* rs are records of S in the order of their trains.
InTrainOrder(rs, S) ==
  /\ rs \in Seq(S) /\ \A r \in S : r.train \in Nat
  /\ \A a, b \in 1 .. Len(rs) : a < b => rs[a].train < rs[b].train

Entries(D, A, date) == {DirectTrainInfo(p[1], p[2], date) : p \in D \X A}
Accs(D, A, date) == [it_to : Nat \ {0}, res : Seq(Entries(D, A, date))]

\* Departure r and arrival a make an entry of the answer.
Match(r, a, date) ==
  /\ r.train = a.train /\ OnSale(r, date)
  /\ DirectTrainInfo(r, a, date).leave < DirectTrainInfo(r, a, date).arrive

\* One round of the loop of QueryDirectTrains: departure r, from acc.
MergeStep(r, acc, arrs, date) ==
  LET ahead == {q \in acc.it_to .. Len(arrs) : arrs[q].train >= r.train}
      it_to == IF ahead = {} THEN Len(arrs) + 1 ELSE Min(ahead)
      met == ahead # {} /\ arrs[it_to].train = r.train
      entry == DirectTrainInfo(r, arrs[it_to], date)
  IN IF ~OnSale(r, date) THEN acc
     ELSE [it_to |-> IF met THEN it_to + 1 ELSE it_to,
           res |-> IF met /\ entry.leave < entry.arrive THEN Append(acc.res, entry) ELSE acc.res]

\* A round that looks for the train of r: there is no later train, the next
\* one is a later one, or it is found.
MovesOn(to, acc, r, arrs, date) ==
  \/ /\ \A q \in acc.it_to .. Len(arrs) : arrs[q].train < r.train
     /\ to = [it_to |-> Len(arrs) + 1, res |-> acc.res]
  \/ \E x \in acc.it_to .. Len(arrs) :
       /\ \A q \in acc.it_to .. x - 1 : arrs[q].train < r.train
       /\ r.train < arrs[x].train
       /\ to = [it_to |-> x, res |-> acc.res]
  \/ \E x \in acc.it_to .. Len(arrs) :
       /\ \A q \in acc.it_to .. x - 1 : arrs[q].train < r.train
       /\ r.train = arrs[x].train
       /\ to = [it_to |-> x + 1,
                res |-> IF Match(r, arrs[x], date)
                        THEN Append(acc.res, DirectTrainInfo(r, arrs[x], date))
                        ELSE acc.res]

\* The cases of a round.
LEMMA MergeStepIs ==
  ASSUME NEW D, NEW A, NEW date, NEW r \in D, NEW arrs, InTrainOrder(arrs, A),
         NEW acc \in Accs(D, A, date), OnSale(r, date), r.train \in Nat
  PROVE  /\ MergeStep(r, acc, arrs, date) \in Accs(D, A, date)
         /\ MovesOn(MergeStep(r, acc, arrs, date), acc, r, arrs, date)
<1>. DEFINE E == Entries(D, A, date)
            N == Len(arrs)
            i == acc.it_to
            ahead == {q \in i .. N : arrs[q].train >= r.train}
            to == MergeStep(r, acc, arrs, date)
<1>1. /\ i \in Nat \ {0} /\ acc.res \in Seq(E)
      /\ Accs(D, A, date) = [it_to : Nat \ {0}, res : Seq(E)]
  BY DEF Accs
<1>. HIDE DEF E
<1>2. N \in Nat /\ \A q \in 1 .. N : arrs[q] \in A /\ arrs[q].train \in Nat
  <2>1. arrs \in Seq(A) /\ \A a \in A : a.train \in Nat
    BY DEF InTrainOrder
  <2>2. \A q \in 1 .. N : arrs[q] \in A
    BY <2>1
  <2>. QED
    BY <2>1, <2>2
<1>. HIDE DEF i, N
<1>3. \A q \in i .. N : q \in 1 .. N
  BY <1>1, <1>2
<1>4. CASE ahead = {}
  <2>1. \A q \in i .. N : arrs[q].train < r.train
    <3>1. ASSUME NEW q \in i .. N PROVE arrs[q].train < r.train
      <4>1. arrs[q].train \in Nat /\ ~ (arrs[q].train >= r.train)
        BY <1>2, <1>3, <1>4
      <4>. QED
        BY <4>1
    <3>. QED
      BY <3>1
  <2>2. to = [it_to |-> N + 1, res |-> acc.res]
    BY <1>4 DEF MergeStep, i, N
  <2>3. to \in Accs(D, A, date)
    <3>1. N + 1 \in Nat \ {0}
      BY <1>2
    <3>. QED
      BY <1>1, <2>2, <3>1
  <2>. QED
    BY <2>1, <2>2, <2>3 DEF i, N, MovesOn
<1>5. CASE ahead # {}
  <2>. DEFINE x == Min(ahead)
  <2>1. x \in ahead /\ \A q \in ahead : x <= q
    <3>1. ahead \in SUBSET Nat
      BY <1>3
    <3>. QED
      BY <1>5, <3>1, MinIs
  <2>2. x \in i .. N /\ arrs[x].train >= r.train /\ x \in 1 .. N
    BY <1>3, <2>1
  <2>. DEFINE met == arrs[x].train = r.train
              entry == DirectTrainInfo(r, arrs[x], date)
  <2>3. to = [it_to |-> IF met THEN x + 1 ELSE x,
              res |-> IF met /\ entry.leave < entry.arrive THEN Append(acc.res, entry) ELSE acc.res]
    BY <1>5 DEF MergeStep, i, N
  <2>. HIDE DEF x
  <2>4. \A q \in i .. x - 1 : arrs[q].train < r.train
    <3>1. ASSUME NEW q \in i .. x - 1 PROVE arrs[q].train < r.train
      <4>1. q \in i .. N /\ ~ (x <= q) /\ q \in 1 .. N
        BY <1>1, <1>2, <2>2
      <4>2. q \notin ahead
        BY <2>1, <4>1
      <4>3. arrs[q].train \in Nat /\ ~ (arrs[q].train >= r.train)
        BY <1>2, <4>1, <4>2
      <4>. QED
        BY <4>3
    <3>. QED
      BY <3>1
  <2>5. entry \in E
    <3>1. PICK p \in D \X A : p[1] = r /\ p[2] = arrs[x]
      <4>1. PICK a \in A : a = arrs[x]
        BY <1>2, <2>2
      <4>2. <<r, a>> \in D \X A /\ <<r, a>>[1] = r /\ <<r, a>>[2] = a
        OBVIOUS
      <4>. QED
        BY <4>1, <4>2
    <3>2. DirectTrainInfo(p[1], p[2], date) \in E
      BY DEF E, Entries
    <3>. QED
      BY <3>1, <3>2
  <2>6. to \in Accs(D, A, date)
    <3>1. x \in Nat \ {0} /\ x + 1 \in Nat \ {0}
      BY <1>2, <2>2
    <3>2. Append(acc.res, entry) \in Seq(E)
      BY <1>1, <2>5
    <3>. HIDE DEF met, entry
    <3>. QED
      BY <1>1, <2>3, <3>1, <3>2
  <2>7. CASE met
    <3>1. Match(r, arrs[x], date) <=> entry.leave < entry.arrive
      BY <2>7 DEF Match
    <3>2. to = [it_to |-> x + 1, res |-> IF Match(r, arrs[x], date) THEN Append(acc.res, entry) ELSE acc.res]
      BY <2>3, <2>7, <3>1
    <3>3. r.train = arrs[x].train
      BY <2>7
    <3>. QED
      BY <2>2, <2>4, <2>6, <3>2, <3>3 DEF i, N, MovesOn
  <2>8. CASE ~ met
    <3>1. to = [it_to |-> x, res |-> acc.res]
      BY <2>3, <2>8
    <3>2. r.train < arrs[x].train
      BY <1>2, <2>2, <2>8
    <3>. QED
      BY <2>2, <2>4, <2>6, <3>1, <3>2 DEF i, N, MovesOn
  <2>. QED
    BY <2>7, <2>8
<1>. QED
  BY <1>4, <1>5

\* The arrivals before it_to are those of trains before the departures to come.
PastArrivals(it_to, n, deps, arrs) ==
  /\ it_to \in 1 .. Len(arrs) + 1
  /\ \A q \in 1 .. it_to - 1, m \in n + 1 .. Len(deps) : arrs[q].train < deps[m].train

\* After n departures res has an entry of each match, in the order of the trains.
Answered(res, n, deps, arrs, date) ==
  /\ \A e : (\E k \in 1 .. Len(res) : res[k] = e)
              <=> \E m \in 1 .. n, q \in 1 .. Len(arrs) :
                    Match(deps[m], arrs[q], date) /\ e = DirectTrainInfo(deps[m], arrs[q], date)
  /\ \A a, b \in 1 .. Len(res) : a < b => res[a].train < res[b].train
  /\ \A a \in 1 .. Len(res) : \E m \in 1 .. n : res[a].train = deps[m].train

Merged(acc, n, deps, arrs, date) ==
  PastArrivals(acc.it_to, n, deps, arrs) /\ Answered(acc.res, n, deps, arrs, date)

\* A departure without a match leaves the answer as it is.
LEMMA AnsweredSame ==
  ASSUME NEW n \in Nat \ {0}, NEW res, NEW deps, NEW arrs, NEW date,
         Answered(res, n - 1, deps, arrs, date),
         \A q \in 1 .. Len(arrs) : ~ Match(deps[n], arrs[q], date)
  PROVE  Answered(res, n, deps, arrs, date)
<1>1. \A m : m \in 1 .. n <=> m \in 1 .. n - 1 \/ m = n
  OBVIOUS
<1>2. ASSUME NEW e
      PROVE  (\E m \in 1 .. n, q \in 1 .. Len(arrs) :
                Match(deps[m], arrs[q], date) /\ e = DirectTrainInfo(deps[m], arrs[q], date))
         <=> (\E m \in 1 .. n - 1, q \in 1 .. Len(arrs) :
                Match(deps[m], arrs[q], date) /\ e = DirectTrainInfo(deps[m], arrs[q], date))
  BY <1>1
<1>. QED
  BY <1>1, <1>2 DEF Answered

\* The entry of a match goes to the end of the answer.
LEMMA AnsweredMore ==
  ASSUME NEW D, NEW A, NEW date, NEW deps, InTrainOrder(deps, D), NEW arrs, InTrainOrder(arrs, A),
         NEW n \in 1 .. Len(deps), NEW res \in Seq(Entries(D, A, date)),
         Answered(res, n - 1, deps, arrs, date),
         NEW x \in 1 .. Len(arrs), Match(deps[n], arrs[x], date)
  PROVE  Answered(Append(res, DirectTrainInfo(deps[n], arrs[x], date)), n, deps, arrs, date)
<1>. DEFINE e1 == DirectTrainInfo(deps[n], arrs[x], date)
            Hit(e, m) == \E q \in 1 .. Len(arrs) :
                           Match(deps[m], arrs[q], date) /\ e = DirectTrainInfo(deps[m], arrs[q], date)
<1>1. /\ Len(deps) \in Nat /\ Len(arrs) \in Nat
      /\ \A m \in 1 .. Len(deps) : deps[m] \in D /\ deps[m].train \in Nat
      /\ \A q \in 1 .. Len(arrs) : arrs[q].train \in Nat
  BY DEF InTrainOrder
<1>2. ASSUME NEW q \in 1 .. Len(arrs), Match(deps[n], arrs[q], date) PROVE q = x
  <2>1. arrs[q].train = arrs[x].train /\ arrs[q].train \in Nat
    BY <1>1, <1>2 DEF Match
  <2>2. ~ (q < x) /\ ~ (x < q)
    BY <2>1 DEF InTrainOrder
  <2>. QED
    BY <1>1, <2>2
<1>3. e1.train = deps[n].train
  BY DEF DirectTrainInfo
<1>4. PICK s : s = Append(res, e1)
  OBVIOUS
<1>. HIDE DEF e1
<1>5. PICK k \in Nat : k = Len(res)
  BY LenProperties
<1>6. Len(s) = k + 1 /\ s[k + 1] = e1 /\ \A j \in 1 .. k : s[j] = res[j]
  <2>1. e1 \in Entries(D, A, date)
    <3>1. PICK d \in D, a \in A : d = deps[n] /\ a = arrs[x]
      BY <1>1 DEF InTrainOrder
    <3>2. PICK p \in D \X A : p[1] = d /\ p[2] = a
      <4>1. <<d, a>> \in D \X A /\ <<d, a>>[1] = d /\ <<d, a>>[2] = a
        OBVIOUS
      <4>. QED
        BY <4>1
    <3>3. DirectTrainInfo(p[1], p[2], date) \in Entries(D, A, date)
      BY DEF Entries
    <3>. QED
      BY <3>1, <3>2, <3>3 DEF e1
  <2>. QED
    BY <1>4, <1>5, <2>1, AppendProperties
<1>7. \A j : j \in 1 .. k + 1 <=> j \in 1 .. k \/ j = k + 1
  BY <1>5
<1>8. \A m : m \in 1 .. n <=> m \in 1 .. n - 1 \/ m = n
  OBVIOUS
<1>9. ASSUME NEW e PROVE (\E j \in 1 .. k + 1 : s[j] = e) <=> \E m \in 1 .. n : Hit(e, m)
  <2>1. (\E j \in 1 .. k : res[j] = e) <=> \E m \in 1 .. n - 1 : Hit(e, m)
    BY <1>5 DEF Answered
  <2>2. (\E j \in 1 .. k + 1 : s[j] = e) <=> (\E j \in 1 .. k : res[j] = e) \/ e = e1
    BY <1>6, <1>7
  <2>3. Hit(e, n) <=> e = e1
    BY <1>2 DEF e1
  <2>. HIDE DEF Hit
  <2>. QED
    BY <1>8, <2>1, <2>2, <2>3
<1>10. ASSUME NEW a \in 1 .. k + 1 PROVE \E m \in 1 .. n : s[a].train = deps[m].train
  <2>1. CASE a = k + 1
    BY <1>3, <1>6, <2>1
  <2>2. CASE a # k + 1
    <3>1. a \in 1 .. k /\ s[a] = res[a]
      BY <1>6, <1>7, <2>2
    <3>2. \E m \in 1 .. n - 1 : res[a].train = deps[m].train
      BY <1>5, <3>1 DEF Answered
    <3>. QED
      BY <1>8, <3>1, <3>2
  <2>. QED
    BY <2>1, <2>2
<1>11. ASSUME NEW a \in 1 .. k + 1, NEW b \in 1 .. k + 1, a < b PROVE s[a].train < s[b].train
  <2>1. a \in 1 .. k /\ s[a] = res[a]
    BY <1>5, <1>6, <1>11
  <2>2. CASE b = k + 1
    <3>1. PICK m \in 1 .. n - 1 : res[a].train = deps[m].train
      BY <1>5, <2>1 DEF Answered
    <3>2. m \in 1 .. Len(deps) /\ m < n
      BY <1>1
    <3>3. deps[m].train < deps[n].train
      BY <3>2 DEF InTrainOrder
    <3>. QED
      BY <1>3, <1>6, <2>1, <2>2, <3>1, <3>3
  <2>3. CASE b # k + 1
    <3>1. b \in 1 .. k /\ s[b] = res[b]
      BY <1>6, <1>7, <2>3
    <3>. QED
      BY <1>5, <1>11, <2>1, <3>1 DEF Answered
  <2>. QED
    BY <2>2, <2>3
<1>12. Answered(s, n, deps, arrs, date)
  BY <1>6, <1>9, <1>10, <1>11 DEF Answered
<1>. QED
  BY <1>4, <1>12 DEF e1

\* A round keeps the answer and the second iterator where they should be.
LEMMA MergedStep ==
  ASSUME NEW D, NEW A, NEW date, NEW deps, InTrainOrder(deps, D), NEW arrs, InTrainOrder(arrs, A),
         NEW n \in 1 .. Len(deps), NEW acc \in Accs(D, A, date), Merged(acc, n - 1, deps, arrs, date)
  PROVE  LET to == MergeStep(deps[n], acc, arrs, date)
         IN to \in Accs(D, A, date) /\ Merged(to, n, deps, arrs, date)
<1>. DEFINE to == MergeStep(deps[n], acc, arrs, date)
            N == Len(arrs)
            Done == to \in Accs(D, A, date) /\ Merged(to, n, deps, arrs, date)
<1>0. SUFFICES Done
  OBVIOUS
<1>1. /\ N \in Nat /\ Len(deps) \in Nat /\ n \in Nat \ {0} /\ (n - 1) + 1 = n
      /\ \A q \in 1 .. N : arrs[q].train \in Nat
      /\ \A m \in 1 .. Len(deps) : deps[m] \in D /\ deps[m].train \in Nat
      /\ \A m \in n + 1 .. Len(deps) : m \in 1 .. Len(deps) /\ m \in n .. Len(deps) /\ deps[n].train < deps[m].train
      /\ n \in n .. Len(deps)
  BY DEF InTrainOrder
<1>2. PICK i \in 1 .. N + 1 : i = acc.it_to
  BY DEF Merged, PastArrivals
<1>3. \A q \in 1 .. i - 1, m \in n .. Len(deps) : arrs[q].train < deps[m].train
  BY <1>1, <1>2 DEF Merged, PastArrivals
<1>4. acc.res \in Seq(Entries(D, A, date)) /\ Answered(acc.res, n - 1, deps, arrs, date)
  BY DEF Accs, Merged
<1>5. CASE ~ OnSale(deps[n], date)
  <2>1. to = acc
    BY <1>5 DEF MergeStep
  <2>2. \A q \in 1 .. N : ~ Match(deps[n], arrs[q], date)
    BY <1>5 DEF Match
  <2>3. Answered(acc.res, n, deps, arrs, date)
    BY <1>1, <1>4, <2>2, AnsweredSame
  <2>4. PastArrivals(i, n, deps, arrs)
    BY <1>1, <1>3 DEF PastArrivals
  <2>. QED
    BY <1>2, <2>1, <2>3, <2>4 DEF Merged
<1>6. CASE OnSale(deps[n], date)
  <2>1. deps[n] \in D /\ deps[n].train \in Nat
    BY <1>1
  <2>2. PICK d \in Nat : d = deps[n].train
    BY <2>1
  <2>3. ASSUME NEW x \in i .. N + 1, \A q \in i .. x - 1 : arrs[q].train < d
        PROVE  (\A q \in 1 .. x - 1 : arrs[q].train < d) /\ PastArrivals(x, n, deps, arrs)
    <3>1. ASSUME NEW q \in 1 .. x - 1 PROVE arrs[q].train < d
      <4>1. CASE q < i
        <5>1. q \in 1 .. i - 1
          BY <1>1, <4>1
        <5>. QED
          BY <1>1, <1>3, <2>2, <5>1
      <4>2. CASE ~ (q < i)
        <5>1. q \in i .. x - 1
          BY <1>1, <4>2
        <5>. QED
          BY <2>3, <5>1
      <4>. QED
        BY <4>1, <4>2
    <3>2. ASSUME NEW q \in 1 .. x - 1, NEW m \in n + 1 .. Len(deps) PROVE arrs[q].train < deps[m].train
      <4>1. arrs[q].train < d /\ d < deps[m].train /\ deps[m].train \in Nat
        BY <1>1, <2>2, <3>1
      <4>2. arrs[q].train \in Nat
        <5>1. q \in 1 .. N
          BY <1>1
        <5>. QED
          BY <1>1, <5>1
      <4>. QED
        BY <4>1, <4>2
    <3>3. x \in 1 .. N + 1
      BY <1>1
    <3>. QED
      BY <3>1, <3>2, <3>3 DEF PastArrivals
  <2>4. \A q \in 1 .. N : arrs[q].train # d => ~ Match(deps[n], arrs[q], date)
    BY <2>2 DEF Match
  <2>5. \A q \in 1 .. N : arrs[q].train < d => arrs[q].train # d
    BY <1>1
  <2>6. to \in Accs(D, A, date) /\ MovesOn(to, acc, deps[n], arrs, date)
    BY <1>6, <2>1, MergeStepIs
  <2>. HIDE DEF to
  <2>7. CASE (\A q \in i .. N : arrs[q].train < d) /\ to = [it_to |-> N + 1, res |-> acc.res]
    <3>1. N + 1 \in i .. N + 1 /\ (N + 1) - 1 = N
      BY <1>1
    <3>2. (\A q \in 1 .. N : arrs[q].train < d) /\ PastArrivals(N + 1, n, deps, arrs)
      BY <2>3, <2>7, <3>1
    <3>3. Answered(acc.res, n, deps, arrs, date)
      BY <1>1, <1>4, <2>4, <2>5, <3>2, AnsweredSame
    <3>4. to.it_to = N + 1 /\ to.res = acc.res
      BY <2>7
    <3>5. PastArrivals(to.it_to, n, deps, arrs)
      BY <3>2, <3>4
    <3>. QED
      BY <2>6, <3>3, <3>4, <3>5 DEF Merged
  <2>8. ASSUME NEW x \in i .. N, \A q \in i .. x - 1 : arrs[q].train < d, d < arrs[x].train,
               to = [it_to |-> x, res |-> acc.res]
        PROVE  Done
    <3>1. x \in i .. N + 1
      BY <1>1
    <3>2. (\A q \in 1 .. x - 1 : arrs[q].train < d) /\ PastArrivals(x, n, deps, arrs)
      BY <2>3, <2>8, <3>1
    <3>3. ASSUME NEW q \in 1 .. N PROVE arrs[q].train # d
      <4>1. CASE q < x
        <5>1. q \in 1 .. x - 1
          BY <1>1, <4>1
        <5>. QED
          BY <2>5, <3>2, <5>1
      <4>2. CASE q = x
        BY <1>1, <2>8, <4>2
      <4>3. CASE x < q
        <5>1. x \in 1 .. N
          BY <1>1
        <5>2. arrs[x].train < arrs[q].train
          BY <4>3, <5>1 DEF InTrainOrder
        <5>. QED
          BY <1>1, <2>8, <5>1, <5>2
      <4>. QED
        BY <1>1, <4>1, <4>2, <4>3
    <3>4. Answered(acc.res, n, deps, arrs, date)
      BY <1>1, <1>4, <2>4, <3>3, AnsweredSame
    <3>5. to.it_to = x /\ to.res = acc.res
      BY <2>8
    <3>. QED
      BY <2>6, <3>2, <3>4, <3>5 DEF Merged
  <2>9. ASSUME NEW x \in i .. N, \A q \in i .. x - 1 : arrs[q].train < d, d = arrs[x].train,
               to = [it_to |-> x + 1,
                     res |-> IF Match(deps[n], arrs[x], date)
                             THEN Append(acc.res, DirectTrainInfo(deps[n], arrs[x], date)) ELSE acc.res]
        PROVE  Done
    <3>1. x \in i .. N + 1 /\ x \in 1 .. N
      BY <1>1
    <3>2. (\A q \in 1 .. x - 1 : arrs[q].train < d) /\ PastArrivals(x, n, deps, arrs)
      BY <2>3, <2>9, <3>1
    <3>3. PastArrivals(x + 1, n, deps, arrs)
      <4>1. ASSUME NEW q \in 1 .. (x + 1) - 1, NEW m \in n + 1 .. Len(deps)
            PROVE  arrs[q].train < deps[m].train
        <5>1. CASE q = x
          BY <1>1, <2>2, <2>9, <5>1
        <5>2. CASE q # x
          <6>1. q \in 1 .. x - 1
            BY <1>1, <5>2
          <6>. QED
            BY <3>2, <6>1 DEF PastArrivals
        <5>. QED
          BY <5>1, <5>2
      <4>2. x + 1 \in 1 .. N + 1
        BY <1>1
      <4>. QED
        BY <4>1, <4>2 DEF PastArrivals
    <3>4. Answered(to.res, n, deps, arrs, date)
      <4>1. CASE Match(deps[n], arrs[x], date)
        <5>1. to.res = Append(acc.res, DirectTrainInfo(deps[n], arrs[x], date))
          BY <2>9, <4>1
        <5>. QED
          BY <1>4, <3>1, <4>1, <5>1, AnsweredMore
      <4>2. CASE ~ Match(deps[n], arrs[x], date)
        <5>1. to.res = acc.res
          BY <2>9, <4>2
        <5>2. ASSUME NEW q \in 1 .. N PROVE ~ Match(deps[n], arrs[q], date)
          <6>1. CASE q < x
            <7>1. q \in 1 .. x - 1
              BY <1>1, <6>1
            <7>. QED
              BY <2>4, <2>5, <3>2, <7>1
          <6>2. CASE q = x
            BY <4>2, <6>2
          <6>3. CASE x < q
            <7>1. arrs[x].train < arrs[q].train
              BY <3>1, <6>3 DEF InTrainOrder
            <7>2. arrs[q].train # d
              BY <1>1, <2>9, <3>1, <7>1
            <7>. QED
              BY <2>4, <7>2
          <6>. QED
            BY <1>1, <6>1, <6>2, <6>3
        <5>. QED
          BY <1>1, <1>4, <5>1, <5>2, AnsweredSame
      <4>. QED
        BY <4>1, <4>2
    <3>5. to.it_to = x + 1
      BY <2>9
    <3>. QED
      BY <2>6, <3>3, <3>4, <3>5 DEF Merged
  <2>. HIDE DEF Done
  <2>10. CASE \E x \in i .. N : /\ \A q \in i .. x - 1 : arrs[q].train < d
                               /\ d < arrs[x].train
                               /\ to = [it_to |-> x, res |-> acc.res]
    BY <2>8, <2>10
  <2>11. CASE \E x \in i .. N :
                /\ \A q \in i .. x - 1 : arrs[q].train < d
                /\ d = arrs[x].train
                /\ to = [it_to |-> x + 1,
                         res |-> IF Match(deps[n], arrs[x], date)
                                 THEN Append(acc.res, DirectTrainInfo(deps[n], arrs[x], date))
                                 ELSE acc.res]
    BY <2>9, <2>11
  <2>. QED
    BY <1>2, <2>2, <2>6, <2>7, <2>10, <2>11 DEF MovesOn
<1>. QED
  BY <1>5, <1>6

\* The departures from f and the arrivals at g.
Departures(f) == {r \in register : r.station = f /\ r.type = Leave}
Arrivals(g) == {r \in register : r.station = g /\ r.type = Arrive}

\* res lists the entries of the matches between f and g, each train once.
ListsMatches(res, date, f, g) ==
  /\ res \in Seq(Entries(Departures(f), Arrivals(g), date))
  /\ \A e : (\E k \in 1 .. Len(res) : res[k] = e)
              <=> \E r \in Departures(f), a \in Arrivals(g) :
                    Match(r, a, date) /\ e = DirectTrainInfo(r, a, date)
  /\ \A a, b \in 1 .. Len(res) : a < b => res[a].train < res[b].train

\* The two iterators, only ever moved forward, find every match.
LEMMA QueryDirectIs ==
  ASSUME RegisterInv, NEW date, NEW f, NEW g
  PROVE  ListsMatches(QueryDirectTrains(date, f, g), date, f, g)
<1>. DEFINE D == Departures(f)
            A == Arrivals(g)
            deps == Records(f, Leave)
            arrs == Records(g, Arrive)
            M == Len(deps)
            S == Accs(D, A, date)
            none == [it_to |-> 1, res |-> <<>>]
            F == [p \in (0 .. M) \X S |-> MergeStep(deps[p[1]], p[2], arrs, date)]
            Is(k) == k = [n \in 0 .. M |-> IF n = 0 THEN none
                                           ELSE MergeStep(deps[n], k[n - 1], arrs, date)]
            k == CHOOSE k : Is(k)
            Good == {n \in 0 .. M : k[n] \in S /\ Merged(k[n], n, deps, arrs, date)}
<1>1. QueryDirectTrains(date, f, g) = k[M].res
  BY DEF QueryDirectTrains, MergeBy, MergeStep
<1>2. ListsByTrain(deps, D) /\ ListsByTrain(arrs, A)
  <2>1. Leave \in {Arrive, Leave} /\ Arrive \in {Arrive, Leave}
    OBVIOUS
  <2>. QED
    BY <2>1, RecordsAre DEF Departures, Arrivals
<1>3. InTrainOrder(deps, D) /\ InTrainOrder(arrs, A)
  <2>1. \A r \in D : r.train \in Nat
    BY OneEach DEF Departures
  <2>2. \A r \in A : r.train \in Nat
    BY OneEach DEF Arrivals
  <2>. HIDE DEF D, A, deps, arrs
  <2>. QED
    BY <1>2, <2>1, <2>2 DEF ListsByTrain, InTrainOrder
<1>. HIDE DEF D, A, deps, arrs
<1>4. M \in Nat /\ deps \in Seq(D)
  BY <1>3 DEF InTrainOrder
<1>. HIDE DEF M
<1>5. none \in S /\ none.it_to = 1 /\ none.res = <<>>
  <2>1. 1 \in Nat \ {0} /\ <<>> \in Seq(Entries(D, A, date))
    OBVIOUS
  <2>. QED
    BY <2>1 DEF Accs
<1>. HIDE DEF none
<1>6. Merged(none, 0, deps, arrs, date)
  <2>1. PastArrivals(1, 0, deps, arrs)
    <3>1. 1 \in 1 .. Len(arrs) + 1
      BY <1>3 DEF InTrainOrder
    <3>. QED
      BY <3>1 DEF PastArrivals
  <2>2. Answered(<<>>, 0, deps, arrs, date)
    BY DEF Answered
  <2>. QED
    BY <1>5, <2>1, <2>2 DEF Merged
<1>7. ASSUME NEW n \in 1 .. M, NEW acc \in S PROVE MergeStep(deps[n], acc, arrs, date) \in S
  <2>1. deps[n] \in D /\ deps[n].train \in Nat
    BY <1>3, <1>4 DEF InTrainOrder, M
  <2>2. CASE OnSale(deps[n], date)
    BY <1>3, <2>1, <2>2, MergeStepIs
  <2>3. CASE ~ OnSale(deps[n], date)
    BY <2>3 DEF MergeStep
  <2>. QED
    BY <2>2, <2>3
<1>. HIDE DEF S
<1>8. \E u : Is(u)
  <2>1. ASSUME NEW n \in 0 .. M, NEW s \in S, n # 0
        PROVE  F[<<n, s>>] = MergeStep(deps[n], s, arrs, date) /\ F[<<n, s>>] \in S
    <3>1. n \in 1 .. M
      BY <1>4, <2>1
    <3>2. F[<<n, s>>] = MergeStep(deps[n], s, arrs, date)
      OBVIOUS
    <3>. QED
      BY <1>7, <3>1, <3>2
  <2>2. 0 \in Int /\ M \in Int /\ 0 <= M
    BY <1>4
  <2>. HIDE DEF F
  <2>3. PICK u : Recurs(u, 0, M, none, F) /\ \A n \in 0 .. M : u[n] \in S
    BY <1>5, <2>1, <2>2, Recursion
  <2>4. ASSUME NEW n \in 0 .. M, n # 0
        PROVE  F[<<n, u[n - 1]>>] = MergeStep(deps[n], u[n - 1], arrs, date)
    <3>1. n - 1 \in 0 .. M
      BY <1>4, <2>4
    <3>2. u[n - 1] \in S
      BY <2>3, <3>1
    <3>. QED
      BY <2>1, <2>4, <3>2
  <2>5. Is(u)
    BY <2>3, <2>4 DEF Recurs
  <2>. QED
    BY <2>5
<1>9. Is(k)
  BY <1>8
<1>. HIDE DEF k
<1>10. k[0] = none /\ \A n \in 1 .. M : k[n] = MergeStep(deps[n], k[n - 1], arrs, date)
  <2>1. \A n \in 0 .. M : k[n] = IF n = 0 THEN none ELSE MergeStep(deps[n], k[n - 1], arrs, date)
    BY <1>9
  <2>2. 0 \in 0 .. M /\ \A n \in 1 .. M : n \in 0 .. M /\ n # 0
    BY <1>4
  <2>. QED
    BY <2>1, <2>2
<1>11. 0 \in Good
  BY <1>4, <1>5, <1>6, <1>10
<1>12. ASSUME NEW n \in 0 .. M - 1, n \in Good PROVE n + 1 \in Good
  <2>1. PICK m \in 1 .. M : m = n + 1 /\ m - 1 = n
    BY <1>4
  <2>2. PICK acc \in S : acc = k[n] /\ Merged(acc, m - 1, deps, arrs, date)
    BY <1>12, <2>1
  <2>3. k[m] = MergeStep(deps[m], acc, arrs, date)
    BY <1>10, <2>1, <2>2
  <2>4. m \in 1 .. Len(deps) /\ acc \in Accs(D, A, date)
    BY DEF M, S
  <2>5. k[m] \in S /\ Merged(k[m], m, deps, arrs, date)
    BY <1>3, <2>2, <2>3, <2>4, MergedStep DEF S
  <2>6. m \in 0 .. M
    BY <1>4
  <2>. QED
    BY <2>1, <2>5, <2>6
<1>13. M \in Good
  <2>. HIDE DEF Good
  <2>1. 0 \in Int /\ M \in Int /\ M \in 0 .. M
    BY <1>4
  <2>2. \A n \in 0 .. M : n \in Good
    BY <1>11, <1>12, <2>1, UpFrom
  <2>. QED
    BY <2>1, <2>2
<1>14. k[M].res \in Seq(Entries(D, A, date)) /\ Answered(k[M].res, M, deps, arrs, date)
  BY <1>13 DEF S, Accs, Merged
<1>15. PICK res \in Seq(Entries(D, A, date)) : /\ QueryDirectTrains(date, f, g) = res
                                               /\ Answered(res, M, deps, arrs, date)
  BY <1>1, <1>14
<1>16. ASSUME NEW e
       PROVE  (\E m \in 1 .. M, q \in 1 .. Len(arrs) :
                 Match(deps[m], arrs[q], date) /\ e = DirectTrainInfo(deps[m], arrs[q], date))
          <=> \E r \in D, a \in A : Match(r, a, date) /\ e = DirectTrainInfo(r, a, date)
  <2>1. ASSUME NEW m \in 1 .. M, NEW q \in 1 .. Len(arrs) PROVE deps[m] \in D /\ arrs[q] \in A
    BY <1>3 DEF InTrainOrder, M
  <2>2. ASSUME NEW r \in D, NEW a \in A
        PROVE  (\E m \in 1 .. M : deps[m] = r) /\ (\E q \in 1 .. Len(arrs) : arrs[q] = a)
    BY <1>2 DEF ListsByTrain, M
  <2>. QED
    BY <2>1, <2>2
<1>17. \A e : (\E j \in 1 .. Len(res) : res[j] = e)
                <=> \E r \in D, a \in A : Match(r, a, date) /\ e = DirectTrainInfo(r, a, date)
  <2>1. ASSUME NEW e
        PROVE  (\E j \in 1 .. Len(res) : res[j] = e)
                 <=> \E m \in 1 .. M, q \in 1 .. Len(arrs) :
                       Match(deps[m], arrs[q], date) /\ e = DirectTrainInfo(deps[m], arrs[q], date)
    BY <1>15, Zenon DEF Answered
  <2>. QED
    BY <1>16, <2>1, Zenon
<1>18. \A a, b \in 1 .. Len(res) : a < b => res[a].train < res[b].train
  BY <1>15 DEF Answered
<1>. QED
  BY <1>15, <1>17, <1>18 DEF ListsMatches, D, A

-----------------------------------------------------------------------------
(* The rides on a date *)

StartDay(t, i, date) == date - (t.startTime + Offsets(t)[i].leave) \div Day

\* The run of train t on day s, from stop i to stop j.
Run(t, s, i, j) ==
  [train |-> t.hash, actual_start_date |-> s, day |-> s - t.saleDate_beg,
   leave |-> s * Day + t.startTime + Offsets(t)[i].leave,
   arrive |-> s * Day + t.startTime + Offsets(t)[j].arrive,
   from |-> i, to |-> j]

\* Stop i of train t is f and a later one, j, is g; it runs on the day on
\* which it leaves i on date.
Goes(t, i, j, date, f, g) ==
  LeavesAt(t, f, i) /\ ArrivesAt(t, g, j) /\ i < j /\ StartDay(t, i, date) \in SaleDays(t)

\* A ride that takes time.
IsRide(e, date, f, g) ==
  \E t \in released, i \in Nat, j \in Nat :
    /\ Goes(t, i, j, date, f, g) /\ e = Run(t, StartDay(t, i, date), i, j)
    /\ TakesTime(e)

\* The numbers of a departure and an arrival of one train.
LEMMA TimesAre ==
  ASSUME NEW t \in Catalogue, NEW i \in Nat, NEW j \in Nat, NEW f, NEW g, NEW date \in Int,
         LeavesAt(t, f, i), ArrivesAt(t, g, j)
  PROVE  /\ Offsets(t)[i].leave \in Nat /\ Offsets(t)[j].arrive \in Nat /\ t.startTime \in Nat
         /\ StartDay(t, i, date) \in Int
         /\ i < j => Offsets(t)[i].leave <= Offsets(t)[j].arrive
         /\ Offsets(t)[i].leave < Offsets(t)[j].arrive => i < j
<1>. DEFINE n == Len(t.stations)
            A(k) == Offsets(t)[k].arrive
            L(k) == Offsets(t)[k].leave
<1>1. i \in 1 .. n - 1 /\ j \in 2 .. n /\ n \in Nat /\ t.startTime \in Nat
  <2>1. n \in Nat /\ t.startTime \in 0 .. Day - 1
    BY TrainIs
  <2>2. i \in 1 .. n - 1 /\ j \in 2 .. n
    BY DEF LeavesAt, ArrivesAt
  <2>3. t.startTime \in Nat
    <3>1. Day - 1 \in Int
      BY DEF Day
    <3>. QED
      BY <2>1, <3>1
  <2>. QED
    BY <2>1, <2>2, <2>3
<1>2. /\ \A k \in 2 .. n : A(k) \in Nat
      /\ \A k \in 1 .. n - 1 : L(k) \in Nat
      /\ \A k \in 1 .. n - 1, m \in 2 .. n : IF k < m THEN L(k) <= A(m) ELSE A(m) <= L(k)
  BY OffsetsGrow
<1>. HIDE DEF n, A, L
<1>3. StartDay(t, i, date) \in Int
  <2>1. PICK x \in Nat : x = t.startTime + L(i)
    BY <1>1, <1>2
  <2>2. x \div 1440 \in Int
    OBVIOUS
  <2>. QED
    BY <2>1, <2>2 DEF StartDay, Day, L
<1>4. (i < j => L(i) <= A(j)) /\ (L(i) < A(j) => i < j)
  BY <1>1, <1>2
<1>. QED
  BY <1>1, <1>2, <1>3, <1>4 DEF A, L, n

\* An entry of a departure and an arrival of one train.
LEMMA EntryIs ==
  ASSUME NEW t \in Catalogue, NEW i \in Nat, NEW j \in Nat, NEW f, NEW g, NEW date \in Int,
         LeavesAt(t, f, i), ArrivesAt(t, g, j)
  PROVE  LET r == Departure(t, i)
             a == Arrival(t, j)
         IN /\ DirectTrainInfo(r, a, date) = Run(t, StartDay(t, i, date), i, j)
            /\ OnSale(r, date) <=> StartDay(t, i, date) \in SaleDays(t)
            /\ Match(r, a, date)
                 <=> Goes(t, i, j, date, f, g) /\ TakesTime(Run(t, StartDay(t, i, date), i, j))
<1>. DEFINE r == Departure(t, i)
            a == Arrival(t, j)
            s == StartDay(t, i, date)
            l == Offsets(t)[i].leave
            b == Offsets(t)[j].arrive
<1>1. /\ r.train = t.hash /\ r.startTime = t.startTime /\ r.stop = i /\ r.beg = t.saleDate_beg
      /\ r.end = t.saleDate_end /\ r.offset = l
      /\ a.train = t.hash /\ a.stop = j /\ a.offset = b
  BY DEF Departure, Arrival
<1>2. DeltaDays(r) = (t.startTime + l) \div Day
  BY <1>1 DEF DeltaDays
<1>3. s = date - DeltaDays(r)
  BY <1>2 DEF StartDay
<1>. HIDE DEF r, a, s
<1>4. DirectTrainInfo(r, a, date) = Run(t, s, i, j)
  BY <1>1, <1>3 DEF DirectTrainInfo, Run
<1>5. OnSale(r, date) <=> s \in SaleDays(t)
  BY <1>1, <1>3 DEF OnSale, SaleDays
<1>6. l \in Nat /\ b \in Nat /\ t.startTime \in Nat /\ s \in Int /\ (l < b => i < j)
  BY TimesAre DEF s
<1>. HIDE DEF l, b
<1>7. Run(t, s, i, j).leave < Run(t, s, i, j).arrive <=> l < b
  <2>1. /\ Run(t, s, i, j).leave = s * Day + t.startTime + l
        /\ Run(t, s, i, j).arrive = s * Day + t.startTime + b
    BY DEF Run, l, b
  <2>2. PICK x \in Int : x = s * Day + t.startTime
    BY <1>6 DEF Day
  <2>. QED
    BY <1>6, <2>1, <2>2
<1>8. Match(r, a, date) <=> Goes(t, i, j, date, f, g) /\ TakesTime(Run(t, s, i, j))
  BY <1>1, <1>4, <1>5, <1>6, <1>7 DEF Match, Goes, TakesTime, s
<1>. QED
  BY <1>4, <1>5, <1>8 DEF r, a, s

\* A departure and an arrival with one hash are those of one train.
LEMMA PairIs ==
  ASSUME RegisterInv, NEW f, NEW g, NEW r \in Departures(f), NEW a \in Arrivals(g), r.train = a.train
  PROVE  \E t \in released, i \in Nat, j \in Nat :
           /\ LeavesAt(t, f, i) /\ ArrivesAt(t, g, j)
           /\ r = Departure(t, i) /\ a = Arrival(t, j)
<1>1. PICK t \in released, i \in Nat : LeavesAt(t, f, i) /\ r = Departure(t, i)
  BY RegisterIs DEF Departures
<1>2. PICK u \in released, j \in Nat : ArrivesAt(u, g, j) /\ a = Arrival(u, j)
  BY RegisterIs DEF Arrivals
<1>3. t.hash = u.hash
  BY <1>1, <1>2 DEF Departure, Arrival
<1>4. t = u
  BY <1>3 DEF RegisterInv
<1>. QED
  BY <1>1, <1>2, <1>4

\* The matches are the rides.
LEMMA MatchesAre ==
  ASSUME RegisterInv, NEW date \in Int, NEW f, NEW g, NEW e
  PROVE  (\E r \in Departures(f), a \in Arrivals(g) : Match(r, a, date) /\ e = DirectTrainInfo(r, a, date))
           <=> IsRide(e, date, f, g)
<1>1. ASSUME NEW r \in Departures(f), NEW a \in Arrivals(g), Match(r, a, date), e = DirectTrainInfo(r, a, date)
      PROVE  IsRide(e, date, f, g)
  <2>1. r.train = a.train
    BY <1>1 DEF Match
  <2>2. PICK t \in released, i \in Nat, j \in Nat :
           /\ LeavesAt(t, f, i) /\ ArrivesAt(t, g, j)
           /\ r = Departure(t, i) /\ a = Arrival(t, j)
    BY <2>1, PairIs
  <2>3. t \in Catalogue
    BY DEF RegisterInv
  <2>4. e = Run(t, StartDay(t, i, date), i, j) /\ Goes(t, i, j, date, f, g) /\ TakesTime(e)
    BY <1>1, <2>2, <2>3, EntryIs
  <2>. QED
    BY <2>4 DEF IsRide
<1>2. ASSUME NEW t \in released, NEW i \in Nat, NEW j \in Nat, Goes(t, i, j, date, f, g),
             e = Run(t, StartDay(t, i, date), i, j), TakesTime(e)
      PROVE  \E r \in Departures(f), a \in Arrivals(g) : Match(r, a, date) /\ e = DirectTrainInfo(r, a, date)
  <2>1. LeavesAt(t, f, i) /\ ArrivesAt(t, g, j) /\ t \in Catalogue
    BY <1>2 DEF Goes, RegisterInv
  <2>2. Departure(t, i) \in Departures(f) /\ Arrival(t, j) \in Arrivals(g)
    BY <2>1, RegisterIs DEF Departures, Arrivals
  <2>3. Match(Departure(t, i), Arrival(t, j), date) /\ e = DirectTrainInfo(Departure(t, i), Arrival(t, j), date)
    BY <1>2, <2>1, EntryIs
  <2>. QED
    BY <2>2, <2>3
<1>. QED
  BY <1>1, <1>2 DEF IsRide

\* What buy_ticket finds for the released trains never arrives before it
\* leaves; what of it takes time are the rides.
LEMMA OffersAre ==
  ASSUME RegisterInv, NEW date \in Int, NEW f, NEW g, NEW e
  PROVE  LET found == \E t \in released : e \in RequestSingleTrain(t.hash, date, f, g)
         IN /\ found => e.leave <= e.arrive
            /\ found /\ TakesTime(e) <=> IsRide(e, date, f, g)
<1>1. ASSUME NEW h
      PROVE  e \in RequestSingleTrain(h, date, f, g)
               <=> \E r \in Departures(f), a \in Arrivals(g) :
                     /\ r.train = h /\ a.train = h /\ OnSale(r, date) /\ r.offset <= a.offset
                     /\ e = DirectTrainInfo(r, a, date)
  <2>. DEFINE Ds == {r \in register : r.station = f /\ r.train = h /\ r.type = Leave}
              As == {a \in register : a.station = g /\ a.train = h /\ a.type = Arrive}
              Fit(p) == OnSale(p[1], date) /\ p[1].offset <= p[2].offset
  <2>1. /\ \A r : r \in Ds <=> r \in Departures(f) /\ r.train = h
        /\ \A a : a \in As <=> a \in Arrivals(g) /\ a.train = h
    BY DEF Departures, Arrivals
  <2>2. e \in RequestSingleTrain(h, date, f, g)
          <=> \E p \in Ds \X As : Fit(p) /\ e = DirectTrainInfo(p[1], p[2], date)
    BY DEF RequestSingleTrain, SoldTogether
  <2>3. \A p \in Ds \X As : p[1] \in Ds /\ p[2] \in As
    OBVIOUS
  <2>4. \A r \in Ds, a \in As : <<r, a>> \in Ds \X As /\ <<r, a>>[1] = r /\ <<r, a>>[2] = a
    OBVIOUS
  <2>. HIDE DEF Ds, As
  <2>5. ASSUME NEW p \in Ds \X As, Fit(p), e = DirectTrainInfo(p[1], p[2], date)
        PROVE  \E r \in Departures(f), a \in Arrivals(g) :
                 /\ r.train = h /\ a.train = h /\ OnSale(r, date) /\ r.offset <= a.offset
                 /\ e = DirectTrainInfo(r, a, date)
    BY <2>1, <2>3, <2>5
  <2>6. ASSUME NEW r \in Departures(f), NEW a \in Arrivals(g), r.train = h, a.train = h,
               OnSale(r, date), r.offset <= a.offset, e = DirectTrainInfo(r, a, date)
        PROVE  \E p \in Ds \X As : Fit(p) /\ e = DirectTrainInfo(p[1], p[2], date)
    <3>1. r \in Ds /\ a \in As
      BY <2>1, <2>6
    <3>2. PICK p : p = <<r, a>>
      OBVIOUS
    <3>3. p \in Ds \X As /\ p[1] = r /\ p[2] = a
      BY <3>1, <3>2
    <3>. QED
      BY <2>6, <3>3
  <2>. QED
    BY <2>2, <2>5, <2>6
<1>2. ASSUME NEW t \in released, NEW i \in Nat, NEW j \in Nat, LeavesAt(t, f, i), ArrivesAt(t, g, j)
      PROVE  LET d == Run(t, StartDay(t, i, date), i, j)
             IN /\ Departure(t, i).offset <= Arrival(t, j).offset <=> d.leave <= d.arrive
                /\ TakesTime(d) => d.leave <= d.arrive /\ i < j
                /\ i < j => d.leave <= d.arrive
                /\ DirectTrainInfo(Departure(t, i), Arrival(t, j), date) = d
                /\ OnSale(Departure(t, i), date) <=> StartDay(t, i, date) \in SaleDays(t)
  <2>. DEFINE s == StartDay(t, i, date)
              d == Run(t, s, i, j)
              l == Offsets(t)[i].leave
              b == Offsets(t)[j].arrive
  <2>1. t \in Catalogue
    BY DEF RegisterInv
  <2>2. /\ l \in Nat /\ b \in Nat /\ t.startTime \in Nat /\ s \in Int
        /\ (l < b => i < j) /\ (i < j => l <= b)
    BY <1>2, <2>1, TimesAre
  <2>3. Departure(t, i).offset = l /\ Arrival(t, j).offset = b
    BY DEF Departure, Arrival
  <2>4. d.leave = s * Day + t.startTime + l /\ d.arrive = s * Day + t.startTime + b
    BY DEF Run
  <2>5. /\ DirectTrainInfo(Departure(t, i), Arrival(t, j), date) = d
        /\ OnSale(Departure(t, i), date) <=> s \in SaleDays(t)
    BY <1>2, <2>1, EntryIs
  <2>. HIDE DEF d, l, b, s
  <2>6. PICK x \in Int : x = s * Day + t.startTime
    BY <2>2 DEF Day
  <2>7. d.leave = x + l /\ d.arrive = x + b
    BY <2>4, <2>6
  <2>8. /\ Departure(t, i).offset <= Arrival(t, j).offset <=> d.leave <= d.arrive
        /\ d.leave < d.arrive => d.leave <= d.arrive /\ i < j
        /\ i < j => d.leave <= d.arrive
    BY <2>2, <2>3, <2>7
  <2>. QED
    BY <2>5, <2>8 DEF TakesTime, d, s
<1>3. ASSUME NEW r \in Departures(f), NEW a \in Arrivals(g), r.train = a.train, OnSale(r, date),
             r.offset <= a.offset, e = DirectTrainInfo(r, a, date)
      PROVE  e.leave <= e.arrive /\ (TakesTime(e) => IsRide(e, date, f, g))
  <2>1. PICK t \in released, i \in Nat, j \in Nat :
           /\ LeavesAt(t, f, i) /\ ArrivesAt(t, g, j)
           /\ r = Departure(t, i) /\ a = Arrival(t, j)
    BY <1>3, PairIs
  <2>2. e = Run(t, StartDay(t, i, date), i, j) /\ StartDay(t, i, date) \in SaleDays(t)
    BY <1>2, <1>3, <2>1
  <2>3. e.leave <= e.arrive /\ (TakesTime(e) => i < j)
    BY <1>2, <1>3, <2>1, <2>2
  <2>. QED
    BY <2>1, <2>2, <2>3 DEF IsRide, Goes
<1>4. ASSUME NEW t \in released, NEW i \in Nat, NEW j \in Nat, Goes(t, i, j, date, f, g),
             e = Run(t, StartDay(t, i, date), i, j), TakesTime(e)
      PROVE  e \in RequestSingleTrain(t.hash, date, f, g)
  <2>1. LeavesAt(t, f, i) /\ ArrivesAt(t, g, j) /\ i < j /\ StartDay(t, i, date) \in SaleDays(t)
    BY <1>4 DEF Goes
  <2>2. PICK r \in Departures(f), a \in Arrivals(g) : r = Departure(t, i) /\ a = Arrival(t, j)
    BY <2>1, RegisterIs DEF Departures, Arrivals
  <2>3. r.train = t.hash /\ a.train = t.hash
    BY <2>2 DEF Departure, Arrival
  <2>4. OnSale(r, date) /\ r.offset <= a.offset /\ e = DirectTrainInfo(r, a, date)
    BY <1>2, <1>4, <2>1, <2>2
  <2>. QED
    BY <1>1, <2>3, <2>4
<1>. QED
  BY <1>1, <1>3, <1>4 DEF IsRide

-----------------------------------------------------------------------------
(* The rows of query_ticket *)

\* The lexicographic order of pairs.
LEMMA BeforeIs ==
  ASSUME NEW a1 \in Int, NEW a2 \in Int, NEW b1 \in Int, NEW b2 \in Int
  PROVE  Before(<<a1, a2>>, <<b1, b2>>) <=> a1 < b1 \/ (a1 = b1 /\ a2 < b2)
<1>. DEFINE a == <<a1, a2>>
            b == <<b1, b2>>
<1>1. a[1] = a1 /\ a[2] = a2 /\ b[1] = b1 /\ b[2] = b2 /\ DOMAIN a = 1 .. 2
  OBVIOUS
<1>. HIDE DEF a, b
<1>2. Before(a, b) <=> \E i \in 1 .. 2 : a[i] < b[i] /\ \A j \in 1 .. i - 1 : a[j] = b[j]
  BY <1>1 DEF Before
<1>3. (\A i \in 1 .. 2 : i = 1 \/ i = 2) /\ 1 .. 1 - 1 = {} /\ 1 .. 2 - 1 = {1} /\ 1 \in 1 .. 2 /\ 2 \in 1 .. 2
  OBVIOUS
<1>4. Before(a, b) <=> a1 < b1 \/ (a1 = b1 /\ a2 < b2)
  BY <1>1, <1>2, <1>3
<1>. QED
  BY <1>4 DEF a, b

\* A hash is that of one released train.
LEMMA TrainOfIs ==
  ASSUME RegisterInv, NEW t \in released
  PROVE  TrainOf(t.hash) = t
BY DEF RegisterInv, TrainOf

\* A ride and its price.
LEMMA RideIs ==
  ASSUME RegisterInv, NEW date \in Int, NEW f, NEW g,
         NEW t \in released, NEW i \in Nat, NEW j \in Nat, Goes(t, i, j, date, f, g)
  PROVE  LET e == Run(t, StartDay(t, i, date), i, j)
         IN /\ e.train = t.hash /\ e.arrive - e.leave \in Int
            /\ WithPriceAndSeats(e).train = t.hash
            /\ WithPriceAndSeats(e).arrive = e.arrive /\ WithPriceAndSeats(e).leave = e.leave
            /\ WithPriceAndSeats(e).price = Sum(t.price, i, j - 1)
            /\ WithPriceAndSeats(e).price \in Int
<1>. DEFINE s == StartDay(t, i, date)
            e == Run(t, s, i, j)
            l == Offsets(t)[i].leave
            a == Offsets(t)[j].arrive
<1>1. t \in Catalogue /\ LeavesAt(t, f, i) /\ ArrivesAt(t, g, j) /\ i < j
  BY DEF RegisterInv, Goes
<1>2. l \in Nat /\ a \in Nat /\ t.startTime \in Nat /\ s \in Int
  BY <1>1, TimesAre
<1>3. /\ e.train = t.hash /\ e.from = i /\ e.to = j
      /\ e.leave = s * Day + t.startTime + l /\ e.arrive = s * Day + t.startTime + a
  BY DEF Run
<1>. HIDE DEF e, s, l, a
<1>4. e.arrive - e.leave \in Int
  <2>1. s * Day \in Int
    BY <1>2 DEF Day
  <2>. QED
    BY <1>2, <1>3, <2>1
<1>5. Sum(t.price, i, j - 1) \in Int
  <2>1. /\ i \in Int /\ j - 1 \in Int /\ i - 1 <= j - 1
        /\ j - 1 \in i - 1 .. j - 1 /\ 1 <= i /\ j <= Len(t.stations) /\ Len(t.stations) \in Nat
    BY <1>1, TrainIs DEF LeavesAt, ArrivesAt
  <2>2. \A k \in i .. j - 1 : t.price[k] \in Int
    <3>1. \A k \in i .. j - 1 : k \in 1 .. Len(t.stations) - 1
      BY <2>1
    <3>. QED
      BY <1>1, <3>1, TrainIs
  <2>. QED
    BY <2>1, <2>2, SumIs DEF Sums
<1>6. TrainOf(e.train) = t
  BY <1>3, TrainOfIs
<1>7. /\ WithPriceAndSeats(e).train = e.train /\ WithPriceAndSeats(e).arrive = e.arrive
      /\ WithPriceAndSeats(e).leave = e.leave
      /\ WithPriceAndSeats(e).price = Sum(TrainOf(e.train).price, e.from, e.to - 1)
  BY DEF WithPriceAndSeats
<1>8. WithPriceAndSeats(e).price = Sum(t.price, i, j - 1)
  BY <1>3, <1>6, <1>7
<1>. QED
  BY <1>3, <1>4, <1>5, <1>7, <1>8 DEF e, s

\* The rows are the rides with their prices and seats, one for each entry of
\* QueryDirectTrains.
ListsRides(rows, date, f, g) ==
  /\ Len(rows) = Len(QueryDirectTrains(date, f, g))
  /\ Len(rows) = Cardinality(Range(rows)) /\ IsFiniteSet(Range(rows))
  /\ \A x : x \in Range(rows) <=> \E e : IsRide(e, date, f, g) /\ x = WithPriceAndSeats(e)

\* query_ticket lists the rides found, each with its price and seats.
LEMMA RowsAre ==
  ASSUME RegisterInv, NEW date \in Int, NEW f, NEW g, NEW sortByTime \in BOOLEAN
  PROVE  ListsRides(QueryTicket(date, f, g, sortByTime), date, f, g)
<1>1. PICK res : /\ res = QueryDirectTrains(date, f, g)
                 /\ res \in Seq(Entries(Departures(f), Arrivals(g), date))
                 /\ \A e : (\E k \in 1 .. Len(res) : res[k] = e) <=> IsRide(e, date, f, g)
                 /\ \A a, b \in 1 .. Len(res) : a < b => res[a].train < res[b].train
  <2>1. ListsMatches(QueryDirectTrains(date, f, g), date, f, g)
    BY QueryDirectIs
  <2>. QED
    BY <2>1, MatchesAre DEF ListsMatches
<1>. DEFINE n == Len(res)
            rows == {WithPriceAndSeats(e) : e \in Range(res)}
            W == [k \in 1 .. n |-> WithPriceAndSeats(res[k])]
            K1(x) == IF sortByTime THEN x.arrive - x.leave ELSE x.price
            K2(x) == TrainOf(x.train).id
            N == Cardinality(rows)
            R == {p \in rows \X rows : Before(<<K1(p[1]), K2(p[1])>>, <<K1(p[2]), K2(p[2])>>)}
<1>2. n \in Nat /\ DOMAIN res = 1 .. n
  BY <1>1
<1>3. \A x : x \in rows <=> \E e : IsRide(e, date, f, g) /\ x = WithPriceAndSeats(e)
  <2>1. \A e : e \in Range(res) <=> \E k \in 1 .. n : res[k] = e
    BY <1>2 DEF Range
  <2>2. \A e : e \in Range(res) <=> IsRide(e, date, f, g)
    BY <1>1, <2>1
  <2>. QED
    BY <2>2
<1>4. ASSUME NEW x \in rows
      PROVE  \E t \in released : /\ x.train = t.hash /\ K1(x) \in Int /\ K2(x) = t.id /\ t.id \in Nat
  <2>1. PICK e : IsRide(e, date, f, g) /\ x = WithPriceAndSeats(e)
    BY <1>3
  <2>2. PICK t \in released, i \in Nat, j \in Nat :
           Goes(t, i, j, date, f, g) /\ e = Run(t, StartDay(t, i, date), i, j)
    BY <2>1 DEF IsRide
  <2>3. x.train = t.hash /\ x.arrive - x.leave \in Int /\ x.price \in Int
    BY <2>1, <2>2, RideIs
  <2>4. TrainOf(x.train) = t /\ t.id \in Nat
    BY <2>3, TrainOfIs, TrainIs DEF RegisterInv
  <2>. QED
    BY <2>3, <2>4
<1>5. \A k \in 1 .. n : W[k].train = res[k].train
  BY DEF WithPriceAndSeats
<1>6. ASSUME NEW k \in 1 .. n PROVE res[k].train \in Nat
  <2>1. IsRide(res[k], date, f, g)
    BY <1>1
  <2>2. PICK t \in released, i \in Nat, j \in Nat :
           Goes(t, i, j, date, f, g) /\ res[k] = Run(t, StartDay(t, i, date), i, j)
    BY <2>1 DEF IsRide
  <2>. QED
    BY <2>2, RideIs, TrainIs DEF RegisterInv
<1>7. W \in Bijection(1 .. n, rows)
  <2>1. \A k \in 1 .. n : W[k] \in rows
    BY <1>2 DEF Range
  <2>2. \A x \in rows : \E k \in 1 .. n : W[k] = x
    BY <1>2 DEF Range
  <2>3. ASSUME NEW a \in 1 .. n, NEW b \in 1 .. n, W[a] = W[b] PROVE a = b
    <3>1. res[a].train = res[b].train
      BY <1>5, <2>3
    <3>2. ~ (a < b) /\ ~ (b < a)
      BY <1>1, <1>6, <3>1
    <3>. QED
      BY <1>2, <3>2
  <2>. HIDE DEF rows
  <2>4. W \in [1 .. n -> rows]
    BY <2>1
  <2>. HIDE DEF W
  <2>. QED
    BY <2>2, <2>3, <2>4 DEF Bijection, Injection, Surjection, IsInjective
<1>8. IsFiniteSet(rows) /\ N = n
  <2>1. IsFiniteSet(1 .. n) /\ Cardinality(1 .. n) = IF 1 > n THEN 0 ELSE n - 1 + 1
    BY <1>2, FS_Interval
  <2>2. Cardinality(1 .. n) = n
    BY <1>2, <2>1
  <2>3. ExistsBijection(1 .. n, rows)
    BY <1>7 DEF ExistsBijection
  <2>. HIDE DEF rows
  <2>. QED
    BY <2>1, <2>2, <2>3, FS_Bijection
<1>9. ASSUME NEW x \in rows, NEW y \in rows, x.train = y.train PROVE x = y
  <2>1. PICK a \in 1 .. n, b \in 1 .. n : x = W[a] /\ y = W[b]
    BY <1>7 DEF Bijection, Surjection
  <2>2. res[a].train = res[b].train
    BY <1>5, <1>9, <2>1
  <2>3. ~ (a < b) /\ ~ (b < a)
    BY <1>1, <1>6, <2>2
  <2>4. a = b
    BY <1>2, <2>3
  <2>. QED
    BY <2>1, <2>4
<1>10. ASSUME NEW x \in rows, NEW y \in rows PROVE K2(x) = K2(y) => x = y
  <2>1. PICK t \in released, u \in released : x.train = t.hash /\ y.train = u.hash /\ K2(x) = t.id /\ K2(y) = u.id
    BY <1>4
  <2>2. t.id = u.id => t.hash = u.hash
    BY HashAssumption DEF RegisterInv
  <2>. QED
    BY <1>9, <2>1, <2>2
<1>11. \A x \in rows, y \in rows :
         <<x, y>> \in R <=> Before(<<K1(x), K2(x)>>, <<K1(y), K2(y)>>)
  OBVIOUS
<1>12. ASSUME NEW x \in rows, NEW y \in rows
       PROVE  /\ K1(x) \in Int /\ K2(x) \in Int
              /\ <<x, y>> \in R <=> K1(x) < K1(y) \/ (K1(x) = K1(y) /\ K2(x) < K2(y))
  <2>1. K1(x) \in Int /\ K2(x) \in Int /\ K1(y) \in Int /\ K2(y) \in Int
    BY <1>4
  <2>. HIDE DEF rows, R, K1, K2
  <2>. QED
    BY <1>11, <2>1, BeforeIs
<1>. DEFINE Is(s) == /\ s \in [1 .. N -> rows]
                     /\ \A i, j \in DOMAIN s :
                          i < j => Before(<<K1(s[i]), K2(s[i])>>, <<K1(s[j]), K2(s[j])>>)
            q == CHOOSE s : Is(s)
<1>13. QueryTicket(date, f, g, sortByTime) = q
  <2>1. QueryTicket(date, f, g, sortByTime)
          = CHOOSE s \in [1 .. N -> rows] :
              \A i, j \in DOMAIN s : i < j => Before(<<K1(s[i]), K2(s[i])>>, <<K1(s[j]), K2(s[j])>>)
    BY <1>1 DEF QueryTicket, InOrder
  <2>2. (CHOOSE s \in [1 .. N -> rows] :
           \A i, j \in DOMAIN s : i < j => Before(<<K1(s[i]), K2(s[i])>>, <<K1(s[j]), K2(s[j])>>)) = q
    OBVIOUS
  <2>. QED
    BY <2>1, <2>2
<1>. HIDE DEF rows, R, K1, K2
<1>14. /\ \A x \in rows : <<x, x>> \notin R
       /\ \A x, y, z \in rows : <<x, y>> \in R /\ <<y, z>> \in R => <<x, z>> \in R
       /\ \A x, y \in rows : x # y => <<x, y>> \in R \/ <<y, x>> \in R
  <2>1. ASSUME NEW x \in rows PROVE <<x, x>> \notin R
    BY <1>12
  <2>2. ASSUME NEW x \in rows, NEW y \in rows, NEW z \in rows, <<x, y>> \in R, <<y, z>> \in R
        PROVE  <<x, z>> \in R
    <3>1. K1(x) \in Int /\ K1(y) \in Int /\ K1(z) \in Int /\ K2(x) \in Int /\ K2(y) \in Int /\ K2(z) \in Int
      BY <1>12
    <3>2. /\ K1(x) < K1(y) \/ (K1(x) = K1(y) /\ K2(x) < K2(y))
          /\ K1(y) < K1(z) \/ (K1(y) = K1(z) /\ K2(y) < K2(z))
      BY <1>12, <2>2
    <3>3. K1(x) < K1(z) \/ (K1(x) = K1(z) /\ K2(x) < K2(z))
      BY <3>1, <3>2
    <3>. QED
      BY <1>12, <3>3
  <2>3. ASSUME NEW x \in rows, NEW y \in rows, x # y PROVE <<x, y>> \in R \/ <<y, x>> \in R
    <3>1. K1(x) \in Int /\ K1(y) \in Int /\ K2(x) \in Int /\ K2(y) \in Int /\ K2(x) # K2(y)
      BY <1>10, <1>12, <2>3
    <3>2. \/ K1(x) < K1(y) \/ (K1(x) = K1(y) /\ K2(x) < K2(y))
          \/ K1(y) < K1(x) \/ (K1(y) = K1(x) /\ K2(y) < K2(x))
      BY <3>1
    <3>. QED
      BY <1>12, <3>2
  <2>. QED
    BY <2>1, <2>2, <2>3
<1>15. N \in Nat
  BY <1>2, <1>8
<1>16. \E s \in [1 .. N -> rows] : \A i, j \in 1 .. N : i < j => <<s[i], s[j]>> \in R
  <2>. HIDE DEF N
  <2>. QED
    BY <1>8, <1>14, OrderExists DEF N
<1>17. PICK s \in [1 .. N -> rows] : \A i, j \in 1 .. N : i < j => <<s[i], s[j]>> \in R
  BY <1>16
<1>. HIDE DEF N
<1>18. Is(s)
  <2>1. ASSUME NEW i \in 1 .. N, NEW j \in 1 .. N, i < j
        PROVE  Before(<<K1(s[i]), K2(s[i])>>, <<K1(s[j]), K2(s[j])>>)
    <3>1. s[i] \in rows /\ s[j] \in rows /\ <<s[i], s[j]>> \in R
      BY <1>17, <2>1
    <3>. QED
      BY <1>11, <3>1
  <2>. QED
    BY <2>1
<1>19. Is(q)
  BY <1>18
<1>. HIDE DEF q
<1>20. ASSUME NEW i \in 1 .. N, NEW j \in 1 .. N, i < j PROVE <<q[i], q[j]>> \in R
  <2>1. /\ q[i] \in rows /\ q[j] \in rows
        /\ Before(<<K1(q[i]), K2(q[i])>>, <<K1(q[j]), K2(q[j])>>)
    BY <1>19, <1>20
  <2>. QED
    BY <1>11, <2>1
<1>21. Len(q) = N /\ Range(q) = rows
  <2>1. q \in [1 .. N -> rows] /\ \A i, j \in 1 .. N : i < j => <<q[i], q[j]>> \in R
    BY <1>19, <1>20
  <2>. QED
    BY <1>8, <1>14, <2>1, OrderLists DEF N
<1>22. \A x : x \in Range(q) <=> \E e : IsRide(e, date, f, g) /\ x = WithPriceAndSeats(e)
  BY <1>3, <1>21
<1>23. /\ Len(q) = Len(QueryDirectTrains(date, f, g))
       /\ Len(q) = Cardinality(Range(q)) /\ IsFiniteSet(Range(q))
  BY <1>1, <1>8, <1>21 DEF N
<1>. QED
  BY <1>13, <1>22, <1>23 DEF ListsRides

-----------------------------------------------------------------------------
(* The timetable *)

\* Min is what its name says for a finite set of integers.
LEMMA MinOfFinite ==
  ASSUME NEW S \in SUBSET Int, IsFiniteSet(S), S # {}
  PROVE  Min(S) \in S /\ \A x \in S : Min(S) <= x
<1>. DEFINE R == {p \in S \X S : p[1] < p[2]}
            N == Cardinality(S)
<1>1. \A x \in S, y \in S : <<x, y>> \in R <=> x < y
  OBVIOUS
<1>2. N \in Nat /\ N # 0
  BY FS_CardinalityType, FS_EmptySet
<1>. HIDE DEF R
<1>3. /\ \A x \in S : <<x, x>> \notin R
      /\ \A x, y, z \in S : <<x, y>> \in R /\ <<y, z>> \in R => <<x, z>> \in R
      /\ \A x, y \in S : x # y => <<x, y>> \in R \/ <<y, x>> \in R
  <2>1. ASSUME NEW x \in S PROVE <<x, x>> \notin R
    BY <1>1
  <2>2. ASSUME NEW x \in S, NEW y \in S, NEW z \in S, <<x, y>> \in R, <<y, z>> \in R
        PROVE  <<x, z>> \in R
    <3>1. x < y /\ y < z
      BY <1>1, <2>2
    <3>2. x < z
      BY <3>1
    <3>. QED
      BY <1>1, <3>2
  <2>3. ASSUME NEW x \in S, NEW y \in S, x # y PROVE <<x, y>> \in R \/ <<y, x>> \in R
    <3>1. x < y \/ y < x
      BY <2>3
    <3>. QED
      BY <1>1, <3>1
  <2>. QED
    BY <2>1, <2>2, <2>3
<1>4. PICK s \in [1 .. N -> S] : \A i, j \in 1 .. N : i < j => <<s[i], s[j]>> \in R
  BY <1>3, OrderExists
<1>5. Range(s) = S
  BY <1>3, <1>4, OrderLists
<1>. HIDE DEF N
<1>6. ASSUME NEW x \in S PROVE s[1] <= x
  <2>1. PICK k \in 1 .. N : s[k] = x
    BY <1>5 DEF Range
  <2>2. CASE k = 1
    BY <2>1, <2>2
  <2>3. CASE k # 1
    <3>1. 1 \in 1 .. N /\ 1 < k
      BY <1>2, <2>3
    <3>2. <<s[1], s[k]>> \in R /\ s[1] \in S /\ s[k] \in S
      BY <1>4, <3>1
    <3>3. s[1] < s[k]
      BY <1>1, <3>2
    <3>4. s[1] \in Int /\ s[k] \in Int
      BY <3>2
    <3>5. s[1] <= s[k]
      BY <3>3, <3>4
    <3>. QED
      BY <2>1, <3>5
  <2>. QED
    BY <2>2, <2>3
<1>7. s[1] \in S
  BY <1>2
<1>. QED
  BY <1>6, <1>7 DEF Min

\* A sum in two parts, the second one from c.
Splits(f, a, c, b) == Sum(f, a, b) = Sum(f, a, c - 1) + Sum(f, c, b)

\* A sum is the sum of its first part and of the rest.
LEMMA SumSplit ==
  ASSUME NEW a \in Int, NEW c \in Int, NEW b \in Int, a <= c, c - 1 <= b,
         NEW f, \A k \in a .. b : f[k] \in Int
  PROVE  Splits(f, a, c, b)
<1>. DEFINE Good == {k \in c - 1 .. b : Sum(f, a, k) = Sum(f, a, c - 1) + Sum(f, c, k)}
<1>1. /\ \A k \in a - 1 .. b : Sum(f, a, k) \in Int
      /\ \A k \in a .. b : Sum(f, a, k) = Sum(f, a, k - 1) + f[k]
  <2>1. a - 1 <= b
    OBVIOUS
  <2>. QED
    BY <2>1, SumIs DEF Sums
<1>2. /\ Sum(f, c, c - 1) = 0
      /\ \A k \in c - 1 .. b : Sum(f, c, k) \in Int
      /\ \A k \in c .. b : Sum(f, c, k) = Sum(f, c, k - 1) + f[k]
  <2>1. \A k \in c .. b : f[k] \in Int
    OBVIOUS
  <2>. QED
    BY <2>1, SumIs DEF Sums
<1>3. c - 1 \in a - 1 .. b
  OBVIOUS
<1>4. c - 1 \in Good
  <2>1. Sum(f, a, c - 1) \in Int /\ c - 1 \in c - 1 .. b
    BY <1>1, <1>3
  <2>. QED
    BY <1>2, <2>1
<1>5. ASSUME NEW k \in c - 1 .. b - 1, k \in Good PROVE k + 1 \in Good
  <2>1. k + 1 \in a .. b /\ k + 1 \in c .. b /\ (k + 1) - 1 = k /\ k \in c - 1 .. b /\ k + 1 \in c - 1 .. b
    OBVIOUS
  <2>2. Sum(f, a, k + 1) = Sum(f, a, k) + f[k + 1] /\ Sum(f, c, k + 1) = Sum(f, c, k) + f[k + 1]
    BY <1>1, <1>2, <2>1
  <2>3. Sum(f, a, c - 1) \in Int /\ Sum(f, c, k) \in Int /\ f[k + 1] \in Int
    BY <1>1, <1>2, <1>3, <2>1
  <2>4. Sum(f, a, k) = Sum(f, a, c - 1) + Sum(f, c, k)
    BY <1>5
  <2>5. Sum(f, a, k + 1) = Sum(f, a, c - 1) + Sum(f, c, k + 1)
    BY <2>2, <2>3, <2>4
  <2>. QED
    BY <2>1, <2>5
<1>. HIDE DEF Good
<1>6. \A k \in c - 1 .. b : k \in Good
  BY <1>4, <1>5, UpFrom
<1>7. b \in c - 1 .. b
  OBVIOUS
<1>. QED
  BY <1>6, <1>7 DEF Good, Splits

\* The times that release_train adds up are those of the timetable.
LEMMA RidesAre ==
  ASSUME NEW t \in Catalogue
  PROVE  /\ \A j \in 2 .. Len(t.stations) : Offsets(t)[j].arrive = Ride(t, j)
         /\ \A i \in 1 .. Len(t.stations) - 1 : Offsets(t)[i].leave = LeavesAfter(t, i)
<1>. DEFINE n == Len(t.stations)
            A(k) == Offsets(t)[k].arrive
            L(k) == Offsets(t)[k].leave
            T(k) == Sum(t.travelTime, 1, k)
            W(k) == Sum(t.stopoverTime, 2, k)
<1>1. n \in Nat /\ n >= 2
  BY TrainIs
<1>2. /\ A(1) = -1 /\ L(1) = 0
      /\ \A i \in 2 .. n : A(i) = L(i - 1) + t.travelTime[i - 1]
      /\ \A i \in 2 .. n : L(i) = IF i = n THEN -1 ELSE A(i) + t.stopoverTime[i]
  BY OffsetsAre
<1>3. /\ T(0) = 0
      /\ \A k \in 0 .. n - 1 : T(k) \in Int
      /\ \A k \in 1 .. n - 1 : T(k) = T(k - 1) + t.travelTime[k]
  <2>1. 1 \in Int /\ n - 1 \in Int /\ 1 - 1 <= n - 1 /\ 1 - 1 = 0
    BY <1>1
  <2>2. \A k \in 1 .. n - 1 : t.travelTime[k] \in Int
    BY TrainIs
  <2>3. Sums(t.travelTime, 1, n - 1)
    <3>. HIDE DEF n
    <3>. QED
      BY <2>1, <2>2, SumIs
  <2>. QED
    BY <2>1, <2>3 DEF Sums
<1>4. /\ W(1) = 0
      /\ \A k \in 1 .. n - 1 : W(k) \in Int
      /\ \A k \in 2 .. n - 1 : W(k) = W(k - 1) + t.stopoverTime[k]
  <2>1. 2 \in Int /\ n - 1 \in Int /\ 2 - 1 <= n - 1 /\ 2 - 1 = 1
    BY <1>1
  <2>2. \A k \in 2 .. n - 1 : t.stopoverTime[k] \in Int
    BY TrainIs
  <2>3. Sums(t.stopoverTime, 2, n - 1)
    <3>. HIDE DEF n
    <3>. QED
      BY <2>1, <2>2, SumIs
  <2>. QED
    BY <2>1, <2>3 DEF Sums
<1>5. \A k : Ride(t, k) = T(k - 1) + W(k - 1)
  BY DEF Ride
<1>6. \A k \in 1 .. n - 1 : t.travelTime[k] \in Int
  BY TrainIs
<1>7. \A k \in 2 .. n - 1 : t.stopoverTime[k] \in Int
  BY TrainIs
<1>. HIDE DEF n, A, L, T, W
<1>. DEFINE Good == {m \in 2 .. n : A(m) = Ride(t, m)}
<1>8. 2 \in Good
  <2>1. 2 \in 2 .. n /\ 2 - 1 = 1 /\ 1 \in 1 .. n - 1 /\ 1 - 1 = 0
    BY <1>1
  <2>2. A(2) = t.travelTime[1] /\ T(1) = t.travelTime[1]
    BY <1>2, <1>3, <1>6, <2>1
  <2>3. Ride(t, 2) = T(1) + W(1)
    BY <1>5, <2>1
  <2>. QED
    BY <1>4, <1>6, <2>1, <2>2, <2>3
<1>9. ASSUME NEW m \in 2 .. n - 1 PROVE L(m) = A(m) + t.stopoverTime[m]
  <2>1. m \in 2 .. n /\ m # n
    BY <1>1
  <2>. QED
    BY <1>2, <2>1
<1>10. ASSUME NEW m \in 2 .. n - 1, m \in Good PROVE m + 1 \in Good
  <2>1. /\ m + 1 \in 2 .. n /\ (m + 1) - 1 = m /\ m \in 1 .. n - 1
        /\ m - 1 \in 0 .. n - 1 /\ m - 1 \in 1 .. n - 1
    BY <1>1
  <2>2. A(m + 1) = A(m) + t.stopoverTime[m] + t.travelTime[m]
    BY <1>2, <1>9, <2>1
  <2>3. A(m) = T(m - 1) + W(m - 1)
    BY <1>5, <1>10
  <2>4. T(m) = T(m - 1) + t.travelTime[m] /\ W(m) = W(m - 1) + t.stopoverTime[m]
    BY <1>3, <1>4, <2>1
  <2>5. /\ T(m - 1) \in Int /\ W(m - 1) \in Int /\ t.travelTime[m] \in Int /\ t.stopoverTime[m] \in Int
    BY <1>3, <1>4, <1>6, <1>7, <2>1
  <2>6. A(m + 1) = T(m) + W(m)
    BY <2>2, <2>3, <2>4, <2>5
  <2>7. A(m + 1) = Ride(t, m + 1)
    BY <1>5, <2>1, <2>6
  <2>. QED
    BY <2>1, <2>7
<1>11. \A m \in 2 .. n : m \in Good
  <2>. HIDE DEF Good
  <2>1. 2 \in Int /\ n \in Int
    BY <1>1
  <2>. QED
    BY <1>8, <1>10, <2>1, UpFrom
<1>12. \A j \in 2 .. n : A(j) = Ride(t, j)
  BY <1>11
<1>13. ASSUME NEW i \in 1 .. n - 1 PROVE L(i) = LeavesAfter(t, i)
  <2>1. CASE i = 1
    BY <1>2, <2>1 DEF LeavesAfter
  <2>2. CASE i # 1
    <3>1. i \in 2 .. n - 1 /\ i \in 2 .. n
      BY <1>1, <2>2
    <3>2. L(i) = Ride(t, i) + t.stopoverTime[i]
      BY <1>9, <1>12, <3>1
    <3>. QED
      BY <2>2, <3>2 DEF LeavesAfter
  <2>. QED
    BY <2>1, <2>2
<1>. QED
  BY <1>12, <1>13 DEF n, A, L

\* What query_train shows of a train on a day of its sale.
LEMMA TimetableIs ==
  ASSUME NEW t \in Catalogue, NEW s \in Int, s \in SaleDays(t)
  PROVE  \E row \in QueryTrain(t, s) :
           /\ row.seats = seats[<<t.hash, s - t.saleDate_beg>>]
           /\ \A i \in 1 .. Len(t.stations) - 1 :
                row.stops[i].leave = s * Day + t.startTime + Offsets(t)[i].leave
           /\ \A j \in 2 .. Len(t.stations) :
                row.stops[j].arrive = s * Day + t.startTime + Offsets(t)[j].arrive
           /\ \A i \in 1 .. Len(t.stations) : row.stops[i].price = Sum(t.price, 1, i - 1)
<1>. DEFINE n == Len(t.stations)
            A(i) == Offsets(t)[i].arrive
            L(i) == Offsets(t)[i].leave
            base == s * Day + t.startTime
            start == [arrive |-> -1, leave |-> base, price |-> 0]
            Next1(i, x) == [arrive |-> x.leave + t.travelTime[i - 1],
                            leave |-> IF i = n THEN -1 ELSE x.leave + t.travelTime[i - 1] + t.stopoverTime[i],
                            price |-> x.price + t.price[i - 1]]
            Is(o) == o = [i \in 1 .. n |-> IF i = 1 THEN start ELSE Next1(i, o[i - 1])]
            S == [arrive : Int, leave : Int, price : Int]
            F == [p \in (1 .. n) \X S |-> Next1(p[1], p[2])]
            k == CHOOSE o : Is(o)
<1>1. n \in Nat /\ n >= 2
  BY TrainIs
<1>2. base \in Int
  <2>1. t.startTime \in Int
    <3>1. t.startTime \in 0 .. Day - 1 /\ Day - 1 \in Int
      BY TrainIs DEF Day
    <3>. QED
      BY <3>1
  <2>2. s * Day \in Int
    BY DEF Day
  <2>. QED
    BY <2>1, <2>2
<1>3. QueryTrain(t, s) = {[stops |-> k, seats |-> seats[<<t.hash, s - t.saleDate_beg>>]]}
  BY DEF QueryTrain, Stops
<1>4. /\ \A i \in 1 .. n - 1 : t.travelTime[i] \in Int /\ t.price[i] \in Int
      /\ \A i \in 2 .. n - 1 : t.stopoverTime[i] \in Int
  BY TrainIs
<1>. HIDE DEF base, n
<1>5. start \in S
  BY <1>2
<1>6. ASSUME NEW i \in 1 .. n, NEW x \in S, i # 1 PROVE F[<<i, x>>] = Next1(i, x) /\ F[<<i, x>>] \in S
  <2>1. F[<<i, x>>] = Next1(i, x)
    OBVIOUS
  <2>2. i - 1 \in 1 .. n - 1 /\ (i # n => i \in 2 .. n - 1)
    BY <1>1, <1>6
  <2>3. t.travelTime[i - 1] \in Int /\ t.price[i - 1] \in Int /\ (i # n => t.stopoverTime[i] \in Int)
    BY <1>4, <2>2
  <2>4. x.leave \in Int /\ x.price \in Int
    OBVIOUS
  <2>5. Next1(i, x) \in S
    BY <2>3, <2>4
  <2>. QED
    BY <2>1, <2>5
<1>. HIDE DEF F, S, start, Next1
<1>7. \E o : Is(o)
  <2>1. 1 \in Int /\ n \in Int /\ 1 <= n
    BY <1>1
  <2>2. PICK o : Recurs(o, 1, n, start, F) /\ \A i \in 1 .. n : o[i] \in S
    BY <1>5, <1>6, <2>1, Recursion
  <2>3. ASSUME NEW i \in 1 .. n, i # 1 PROVE F[<<i, o[i - 1]>>] = Next1(i, o[i - 1])
    <3>1. i - 1 \in 1 .. n
      BY <1>1, <2>3
    <3>. QED
      BY <1>6, <2>2, <2>3, <3>1
  <2>4. Is(o)
    BY <2>2, <2>3 DEF Recurs
  <2>. QED
    BY <2>4
<1>8. Is(k)
  BY <1>7
<1>. HIDE DEF k
<1>9. \A i \in 1 .. n : k[i] = IF i = 1 THEN start ELSE Next1(i, k[i - 1])
  BY <1>8
<1>10. /\ k[1].leave = base /\ k[1].price = 0
  <2>1. k[1] = start
    BY <1>1, <1>9
  <2>. QED
    BY <2>1 DEF start
<1>11. ASSUME NEW i \in 2 .. n
       PROVE  /\ k[i].arrive = k[i - 1].leave + t.travelTime[i - 1]
              /\ k[i].leave = IF i = n THEN -1 ELSE k[i].arrive + t.stopoverTime[i]
              /\ k[i].price = k[i - 1].price + t.price[i - 1]
  <2>1. PICK x : x = k[i - 1]
    OBVIOUS
  <2>2. k[i] = Next1(i, x)
    BY <1>1, <1>9, <2>1
  <2>3. /\ k[i].arrive = x.leave + t.travelTime[i - 1]
        /\ k[i].leave = IF i = n THEN -1 ELSE x.leave + t.travelTime[i - 1] + t.stopoverTime[i]
        /\ k[i].price = x.price + t.price[i - 1]
    BY <2>2 DEF Next1
  <2>. QED
    BY <2>1, <2>3
<1>12. /\ L(1) = 0
       /\ \A i \in 2 .. n : A(i) = L(i - 1) + t.travelTime[i - 1]
       /\ \A i \in 2 .. n : L(i) = IF i = n THEN -1 ELSE A(i) + t.stopoverTime[i]
  BY OffsetsAre DEF n
<1>13. /\ \A i \in 2 .. n : A(i) \in Int
       /\ \A i \in 1 .. n - 1 : L(i) \in Int
  BY OffsetsGrow DEF n
<1>14. /\ Sum(t.price, 1, 0) = 0
       /\ \A i \in 1 .. n - 1 : Sum(t.price, 1, i) = Sum(t.price, 1, i - 1) + t.price[i]
  <2>1. 1 \in Int /\ n - 1 \in Int /\ 1 - 1 <= n - 1 /\ 1 - 1 = 0
    BY <1>1
  <2>2. Sums(t.price, 1, n - 1)
    BY <1>4, <2>1, SumIs
  <2>. QED
    BY <2>1, <2>2 DEF Sums
<1>. HIDE DEF A, L, Is
<1>. DEFINE Good == {m \in 1 .. n : /\ m # n => k[m].leave = base + L(m)
                                    /\ m # 1 => k[m].arrive = base + A(m)
                                    /\ k[m].price = Sum(t.price, 1, m - 1)}
<1>15. 1 \in Good
  <2>1. 1 \in 1 .. n /\ 1 # n /\ 1 - 1 = 0
    BY <1>1
  <2>. QED
    BY <1>2, <1>10, <1>12, <1>14, <2>1
<1>16. ASSUME NEW m \in 1 .. n - 1, m \in Good PROVE m + 1 \in Good
  <2>1. PICK i \in 2 .. n : i = m + 1 /\ i - 1 = m /\ m # n /\ i \in 1 .. n /\ i # 1
    BY <1>1
  <2>2. k[i].arrive = base + A(i)
    <3>1. k[i].arrive = (base + L(m)) + t.travelTime[m] /\ A(i) = L(m) + t.travelTime[m]
      BY <1>11, <1>12, <1>16, <2>1
    <3>2. L(m) \in Int /\ t.travelTime[m] \in Int
      BY <1>4, <1>13
    <3>. QED
      BY <1>2, <3>1, <3>2
  <2>3. ASSUME i # n PROVE k[i].leave = base + L(i)
    <3>1. k[i].leave = (base + A(i)) + t.stopoverTime[i] /\ L(i) = A(i) + t.stopoverTime[i]
      BY <1>11, <1>12, <2>2, <2>3
    <3>2. A(i) \in Int /\ t.stopoverTime[i] \in Int
      <4>1. i \in 2 .. n - 1
        BY <1>1, <2>3
      <4>. QED
        BY <1>4, <1>13, <4>1
    <3>. QED
      BY <1>2, <3>1, <3>2
  <2>4. k[i].price = Sum(t.price, 1, i - 1)
    BY <1>11, <1>14, <1>16, <2>1
  <2>5. i \in Good
    BY <2>1, <2>2, <2>3, <2>4
  <2>. QED
    BY <2>1, <2>5
<1>17. \A m \in 1 .. n : m \in Good
  <2>. HIDE DEF Good
  <2>1. 1 \in Int /\ n \in Int /\ 1 <= n
    BY <1>1
  <2>. QED
    BY <1>15, <1>16, <2>1, UpFrom
<1>18. /\ \A i \in 1 .. n - 1 : k[i].leave = base + L(i)
       /\ \A j \in 2 .. n : k[j].arrive = base + A(j)
       /\ \A i \in 1 .. n : k[i].price = Sum(t.price, 1, i - 1)
  <2>1. /\ \A i \in 1 .. n - 1 : i \in 1 .. n /\ i # n
        /\ \A j \in 2 .. n : j \in 1 .. n /\ j # 1
    BY <1>1
  <2>. QED
    BY <1>17, <2>1
<1>19. PICK row : row = [stops |-> k, seats |-> seats[<<t.hash, s - t.saleDate_beg>>]]
  OBVIOUS
<1>20. row \in QueryTrain(t, s) /\ row.stops = k /\ row.seats = seats[<<t.hash, s - t.saleDate_beg>>]
  BY <1>3, <1>19
<1>. QED
  BY <1>18, <1>20 DEF base, A, L, n

-----------------------------------------------------------------------------
(* The journeys of the timetable *)

\* A day is a whole number of minutes.
LEMMA DayOf ==
  ASSUME NEW s \in Int, NEW x \in Nat
  PROVE  (s * Day + x) \div Day = s + x \div Day
BY DEF Day

\* What a row of query_ticket says of a ride is what the timetable says.
LEMMA PlainIs ==
  ASSUME RegisterInv, NEW date \in Int, NEW f, NEW g,
         NEW t \in released, NEW i \in Nat, NEW j \in Nat, Goes(t, i, j, date, f, g)
  PROVE  Plain(WithPriceAndSeats(Run(t, StartDay(t, i, date), i, j))) = Journey(t, StartDay(t, i, date), i, j)
<1>. DEFINE s == StartDay(t, i, date)
            e == Run(t, s, i, j)
            w == WithPriceAndSeats(e)
<1>1. t \in Catalogue /\ i \in 1 .. Len(t.stations) - 1 /\ j \in 2 .. Len(t.stations)
  BY DEF RegisterInv, Goes, LeavesAt, ArrivesAt
<1>2. Offsets(t)[i].leave = LeavesAfter(t, i) /\ Offsets(t)[j].arrive = Ride(t, j)
  BY <1>1, RidesAre
<1>3. /\ w.train = e.train /\ w.day = e.day /\ w.from = e.from /\ w.to = e.to
      /\ w.leave = e.leave /\ w.arrive = e.arrive
  BY DEF WithPriceAndSeats
<1>4. w.price = Sum(t.price, i, j - 1)
  BY RideIs
<1>5. /\ e.train = t.hash /\ e.day = s - t.saleDate_beg /\ e.from = i /\ e.to = j
      /\ e.leave = s * Day + t.startTime + LeavesAfter(t, i)
      /\ e.arrive = s * Day + t.startTime + Ride(t, j)
  BY <1>2 DEF Run
<1>. HIDE DEF e, w, s
<1>6. Plain(w) = Journey(t, s, i, j)
  BY <1>3, <1>4, <1>5 DEF Plain, Journey
<1>. QED
  BY <1>6 DEF w, e, s

\* The journeys that leave f on date are the rides.
LEMMA JourneysAre ==
  ASSUME RegisterInv, NEW date \in Int, NEW f, NEW g, NEW x
  PROVE  x \in JourneysOn(date, f, g)
           <=> \E t \in released, i \in Nat, j \in Nat :
                 Goes(t, i, j, date, f, g) /\ x = Journey(t, StartDay(t, i, date), i, j)
<1>1. x \in Journeys(f, g)
        <=> \E t \in released : \E j \in {k \in Stops(t) : t.stations[k] = g} :
              \E s \in SaleDays(t), i \in {k \in 1 .. j - 1 : t.stations[k] = f} : x = Journey(t, s, i, j)
  BY DEF Journeys
<1>2. ASSUME NEW t \in released, NEW i, NEW j
      PROVE  /\ i \in Nat /\ j \in Nat /\ LeavesAt(t, f, i) /\ ArrivesAt(t, g, j) /\ i < j
                  <=> /\ j \in Stops(t) /\ t.stations[j] = g
                      /\ i \in 1 .. j - 1 /\ t.stations[i] = f
  <2>1. Len(t.stations) \in Nat
    BY TrainIs DEF RegisterInv
  <2>. QED
    BY <2>1 DEF LeavesAt, ArrivesAt, Stops
<1>3. ASSUME NEW t \in released, NEW i \in Nat, NEW j \in Nat, NEW s \in SaleDays(t),
             LeavesAt(t, f, i), ArrivesAt(t, g, j)
      PROVE  Journey(t, s, i, j).leave \div Day = date <=> s = StartDay(t, i, date)
  <2>1. t \in Catalogue /\ i \in 1 .. Len(t.stations) - 1
    BY <1>3 DEF RegisterInv, LeavesAt
  <2>2. Offsets(t)[i].leave = LeavesAfter(t, i)
    BY <2>1, RidesAre
  <2>3. Offsets(t)[i].leave \in Nat /\ t.startTime \in Nat /\ StartDay(t, i, date) \in Int
    BY <1>3, <2>1, TimesAre
  <2>4. s \in Int
    BY DEF SaleDays
  <2>5. PICK y \in Nat : y = t.startTime + LeavesAfter(t, i)
    BY <2>2, <2>3
  <2>6. Journey(t, s, i, j).leave = s * Day + y
    <3>1. Journey(t, s, i, j).leave = s * Day + t.startTime + LeavesAfter(t, i)
      BY DEF Journey
    <3>2. s * Day \in Int /\ LeavesAfter(t, i) \in Nat
      BY <2>2, <2>3, <2>4 DEF Day
    <3>. QED
      BY <2>3, <2>5, <3>1, <3>2
  <2>7. Journey(t, s, i, j).leave \div Day = s + y \div Day
    BY <2>4, <2>6, DayOf
  <2>8. StartDay(t, i, date) = date - y \div Day
    BY <2>2, <2>5 DEF StartDay
  <2>9. y \div Day \in Int
    BY DEF Day
  <2>. QED
    BY <2>4, <2>7, <2>8, <2>9
<1>4. ASSUME x \in JourneysOn(date, f, g)
      PROVE  \E t \in released, i \in Nat, j \in Nat :
               Goes(t, i, j, date, f, g) /\ x = Journey(t, StartDay(t, i, date), i, j)
  <2>1. x \in Journeys(f, g) /\ x.leave \div Day = date
    BY <1>4 DEF JourneysOn
  <2>2. PICK t \in released : \E j \in {k \in Stops(t) : t.stations[k] = g} :
          \E s \in SaleDays(t), i \in {k \in 1 .. j - 1 : t.stations[k] = f} : x = Journey(t, s, i, j)
    BY <1>1, <2>1
  <2>3. PICK j \in {k \in Stops(t) : t.stations[k] = g} :
          \E s \in SaleDays(t), i \in {k \in 1 .. j - 1 : t.stations[k] = f} : x = Journey(t, s, i, j)
    BY <2>2
  <2>4. PICK s \in SaleDays(t), i \in {k \in 1 .. j - 1 : t.stations[k] = f} : x = Journey(t, s, i, j)
    BY <2>3
  <2>5. i \in Nat /\ j \in Nat /\ LeavesAt(t, f, i) /\ ArrivesAt(t, g, j) /\ i < j
    BY <1>2
  <2>6. s = StartDay(t, i, date)
    BY <1>3, <2>1, <2>4, <2>5
  <2>. QED
    BY <2>4, <2>5, <2>6 DEF Goes
<1>5. ASSUME NEW t \in released, NEW i \in Nat, NEW j \in Nat, Goes(t, i, j, date, f, g),
             x = Journey(t, StartDay(t, i, date), i, j)
      PROVE  x \in JourneysOn(date, f, g)
  <2>1. LeavesAt(t, f, i) /\ ArrivesAt(t, g, j) /\ i < j /\ StartDay(t, i, date) \in SaleDays(t)
    BY <1>5 DEF Goes
  <2>2. j \in Stops(t) /\ t.stations[j] = g /\ i \in 1 .. j - 1 /\ t.stations[i] = f
    BY <1>2, <2>1
  <2>3. x \in Journeys(f, g)
    BY <1>1, <1>5, <2>1, <2>2
  <2>4. x.leave \div Day = date
    BY <1>3, <1>5, <2>1
  <2>. QED
    BY <2>3, <2>4 DEF JourneysOn
<1>. QED
  BY <1>4, <1>5

-----------------------------------------------------------------------------
(* The properties, wherever the register is sound *)

\* Every released train has seats for each day of its sale and each segment.
SeatsInv ==
  \A t \in released : \A d \in 0 .. t.saleDate_end - t.saleDate_beg :
    /\ <<t.hash, d>> \in DOMAIN seats
    /\ seats[<<t.hash, d>>] \in [1 .. Len(t.stations) - 1 -> Int]

\* A question has a date and two different stations.
LEMMA QuestionIs ==
  ASSUME NEW q \in Questions
  PROVE  q[1] \in Int /\ q[2] # q[3]
<1>1. q \in Dates \X Stations \X Stations /\ q[2] # q[3]
  BY DEF Questions
<1>2. q[1] \in Dates
  BY <1>1
<1>3. \A d \in Dates : d \in Int
  BY DatesAssumption
<1>. QED
  BY <1>1, <1>2, <1>3

\* An exact register makes query_ticket and buy_ticket agree on what takes time.
LEMMA ListedNow ==
  ASSUME RegisterInv
  PROVE  ListedIsSold
<1>1. SUFFICES ASSUME NEW q \in Questions
               PROVE  /\ \A x \in SoldOn(q) : x.leave <= x.arrive
                      /\ Range(QueryTicket(q[1], q[2], q[3], FALSE)) = {x \in SoldOn(q) : TakesTime(x)}
  BY DEF ListedIsSold
<1>2. PICK date \in Int, f \in {q[2]}, g \in {q[3]} : date = q[1] /\ f = q[2] /\ g = q[3]
  BY QuestionIs
<1>3. \A x : x \in Range(QueryTicket(date, f, g, FALSE))
               <=> \E e : IsRide(e, date, f, g) /\ x = WithPriceAndSeats(e)
  <2>1. FALSE \in BOOLEAN
    OBVIOUS
  <2>2. ListsRides(QueryTicket(date, f, g, FALSE), date, f, g)
    BY <1>2, <2>1, RowsAre
  <2>. QED
    BY <2>2 DEF ListsRides
<1>4. ASSUME NEW e
      PROVE  /\ (\E t \in released : e \in RequestSingleTrain(t.hash, date, f, g)) => e.leave <= e.arrive
             /\ (\E t \in released : e \in RequestSingleTrain(t.hash, date, f, g)) /\ TakesTime(e)
                  <=> IsRide(e, date, f, g)
  BY <1>2, OffersAre
<1>5. ASSUME NEW x
      PROVE  x \in SoldOn(q)
               <=> \E t \in released : \E e \in RequestSingleTrain(t.hash, date, f, g) : x = WithPriceAndSeats(e)
  BY <1>2 DEF SoldOn, BuyTicketOffer
<1>6. ASSUME NEW e
      PROVE  WithPriceAndSeats(e).leave = e.leave /\ WithPriceAndSeats(e).arrive = e.arrive
  BY DEF WithPriceAndSeats
<1>7. ASSUME NEW x \in SoldOn(q) PROVE x.leave <= x.arrive
  BY <1>4, <1>5, <1>6
<1>8. ASSUME NEW x
      PROVE  x \in Range(QueryTicket(date, f, g, FALSE)) <=> x \in SoldOn(q) /\ TakesTime(x)
  <2>1. ASSUME x \in Range(QueryTicket(date, f, g, FALSE)) PROVE x \in SoldOn(q) /\ TakesTime(x)
    <3>1. PICK e : IsRide(e, date, f, g) /\ x = WithPriceAndSeats(e)
      BY <1>3, <2>1
    <3>2. TakesTime(e) /\ \E t \in released : e \in RequestSingleTrain(t.hash, date, f, g)
      BY <1>4, <3>1
    <3>. QED
      BY <1>5, <1>6, <3>1, <3>2 DEF TakesTime
  <2>2. ASSUME x \in SoldOn(q), TakesTime(x) PROVE x \in Range(QueryTicket(date, f, g, FALSE))
    <3>1. PICK e : /\ \E t \in released : e \in RequestSingleTrain(t.hash, date, f, g)
                   /\ x = WithPriceAndSeats(e)
      BY <1>5, <2>2
    <3>2. TakesTime(e)
      BY <1>6, <2>2, <3>1 DEF TakesTime
    <3>. QED
      BY <1>3, <1>4, <3>1, <3>2
  <2>. QED
    BY <2>1, <2>2
<1>. QED
  BY <1>2, <1>7, <1>8

\* An exact register makes query_ticket find the journeys there are that take time.
LEMMA ExactNow ==
  ASSUME RegisterInv
  PROVE  DirectTrainsExact
<1>1. SUFFICES ASSUME NEW q \in Questions
               PROVE  LET rows == QueryTicket(q[1], q[2], q[3], TRUE)
                      IN /\ Len(rows) = Len(QueryDirectTrains(q[1], q[2], q[3]))
                         /\ {Plain(e) : e \in Range(rows)}
                              = {e \in JourneysOn(q[1], q[2], q[3]) : TakesTime(e)}
                         /\ Len(rows) = Cardinality({e \in JourneysOn(q[1], q[2], q[3]) : TakesTime(e)})
  BY DEF DirectTrainsExact
<1>2. PICK date \in Int, f \in {q[2]}, g \in {q[3]} : date = q[1] /\ f = q[2] /\ g = q[3]
  BY QuestionIs
<1>3. PICK rows : rows = QueryTicket(date, f, g, TRUE) /\ ListsRides(rows, date, f, g)
  <2>1. TRUE \in BOOLEAN
    OBVIOUS
  <2>. QED
    BY <1>2, <2>1, RowsAre
<1>. DEFINE R == Range(rows)
            J == {e \in JourneysOn(date, f, g) : TakesTime(e)}
            P == [x \in R |-> Plain(x)]
<1>4. ASSUME NEW x
      PROVE  x \in R <=> \E t \in released, i \in Nat, j \in Nat :
                           /\ Goes(t, i, j, date, f, g)
                           /\ x = WithPriceAndSeats(Run(t, StartDay(t, i, date), i, j))
                           /\ TakesTime(Run(t, StartDay(t, i, date), i, j))
  <2>1. x \in R <=> \E e : IsRide(e, date, f, g) /\ x = WithPriceAndSeats(e)
    BY <1>3 DEF ListsRides
  <2>. QED
    BY <2>1 DEF IsRide
<1>. HIDE DEF R
<1>5. ASSUME NEW t \in released, NEW i \in Nat, NEW j \in Nat, Goes(t, i, j, date, f, g)
       PROVE  TakesTime(Run(t, StartDay(t, i, date), i, j)) <=> TakesTime(Journey(t, StartDay(t, i, date), i, j))
  <2>. DEFINE e == Run(t, StartDay(t, i, date), i, j)
              w == WithPriceAndSeats(e)
  <2>1. Plain(w) = Journey(t, StartDay(t, i, date), i, j)
    BY <1>2, <1>5, PlainIs
  <2>2. Plain(w).leave = w.leave /\ Plain(w).arrive = w.arrive
    BY DEF Plain
  <2>3. w.leave = e.leave /\ w.arrive = e.arrive
    BY DEF WithPriceAndSeats
  <2>. HIDE DEF e, w
  <2>4. TakesTime(e) <=> TakesTime(Plain(w))
    BY <2>2, <2>3 DEF TakesTime
  <2>. QED
    BY <2>1, <2>4 DEF e
<1>6. ASSUME NEW y PROVE y \in J <=> \E x \in R : y = Plain(x)
  <2>1. ASSUME y \in J PROVE \E x \in R : y = Plain(x)
    <3>1. PICK t \in released, i \in Nat, j \in Nat :
             Goes(t, i, j, date, f, g) /\ y = Journey(t, StartDay(t, i, date), i, j)
      BY <1>2, <2>1, JourneysAre
    <3>2. y = Plain(WithPriceAndSeats(Run(t, StartDay(t, i, date), i, j)))
      BY <1>2, <3>1, PlainIs
    <3>3. TakesTime(Run(t, StartDay(t, i, date), i, j))
      BY <1>5, <2>1, <3>1
    <3>. QED
      BY <1>4, <3>1, <3>2, <3>3
  <2>2. ASSUME NEW x \in R, y = Plain(x) PROVE y \in J
    <3>1. PICK t \in released, i \in Nat, j \in Nat :
             /\ Goes(t, i, j, date, f, g)
             /\ x = WithPriceAndSeats(Run(t, StartDay(t, i, date), i, j))
             /\ TakesTime(Run(t, StartDay(t, i, date), i, j))
      BY <1>4
    <3>2. y = Journey(t, StartDay(t, i, date), i, j)
      BY <1>2, <2>2, <3>1, PlainIs
    <3>3. TakesTime(y)
      BY <1>5, <3>1, <3>2
    <3>. QED
      BY <1>2, <3>1, <3>2, <3>3, JourneysAre
  <2>. QED
    BY <2>1, <2>2
<1>7. ASSUME NEW x \in R, NEW y \in R, Plain(x) = Plain(y) PROVE x = y
  <2>1. PICK t \in released, i \in Nat, j \in Nat :
           /\ Goes(t, i, j, date, f, g)
           /\ x = WithPriceAndSeats(Run(t, StartDay(t, i, date), i, j))
    BY <1>4
  <2>2. PICK u \in released, k \in Nat, m \in Nat :
           /\ Goes(u, k, m, date, f, g)
           /\ y = WithPriceAndSeats(Run(u, StartDay(u, k, date), k, m))
    BY <1>4
  <2>3. /\ Plain(x) = Journey(t, StartDay(t, i, date), i, j)
        /\ Plain(y) = Journey(u, StartDay(u, k, date), k, m)
    BY <1>2, <2>1, <2>2, PlainIs
  <2>4. t.hash = u.hash /\ i = k /\ j = m
    <3>1. Plain(x).train = t.hash /\ Plain(x).from = i /\ Plain(x).to = j
      BY <2>3 DEF Journey
    <3>2. Plain(y).train = u.hash /\ Plain(y).from = k /\ Plain(y).to = m
      BY <2>3 DEF Journey
    <3>. QED
      BY <1>7, <3>1, <3>2
  <2>5. t = u
    BY <2>4 DEF RegisterInv
  <2>. QED
    BY <2>1, <2>2, <2>4, <2>5
<1>8. P \in Bijection(R, J)
  <2>1. P \in [R -> J] /\ (\A y \in J : \E x \in R : P[x] = y)
    BY <1>6
  <2>2. \A x, y \in R : P[x] = P[y] => x = y
    BY <1>7
  <2>. HIDE DEF P, J
  <2>. QED
    BY <2>1, <2>2 DEF Bijection, Injection, Surjection, IsInjective
<1>9. Cardinality(J) = Cardinality(R)
  <2>1. IsFiniteSet(R)
    BY <1>3 DEF R, ListsRides
  <2>2. ExistsBijection(R, J)
    BY <1>8 DEF ExistsBijection
  <2>. HIDE DEF J
  <2>. QED
    BY <2>1, <2>2, FS_Bijection
<1>10. {Plain(x) : x \in R} = J
  BY <1>6
<1>11. /\ Len(rows) = Len(QueryDirectTrains(date, f, g))
       /\ {Plain(x) : x \in Range(rows)} = J
       /\ Len(rows) = Cardinality(J)
  BY <1>3, <1>9, <1>10 DEF R, ListsRides
<1>. QED
  BY <1>2, <1>3, <1>11

\* The seats of a row are the fewest of its segments on its day.
LEMMA SeatsLeftIs ==
  ASSUME RegisterInv, SeatsInv, NEW date \in Int, NEW f, NEW g,
         NEW t \in released, NEW i \in Nat, NEW j \in Nat, Goes(t, i, j, date, f, g)
  PROVE  \A k \in i .. j - 1 :
           WithPriceAndSeats(Run(t, StartDay(t, i, date), i, j)).seats
             <= seats[<<t.hash, StartDay(t, i, date) - t.saleDate_beg>>][k]
<1>. DEFINE s == StartDay(t, i, date)
            day == s - t.saleDate_beg
            row == seats[<<t.hash, day>>]
            K == {i} \cup i .. j - 1
            S == {row[k] : k \in K}
<1>1. t \in Catalogue /\ LeavesAt(t, f, i) /\ ArrivesAt(t, g, j) /\ i < j /\ s \in SaleDays(t)
  BY DEF RegisterInv, Goes
<1>2. K = i .. j - 1 /\ i \in K /\ K \subseteq 1 .. Len(t.stations) - 1
  <2>1. Len(t.stations) \in Nat
    BY <1>1, TrainIs
  <2>. QED
    BY <1>1, <2>1 DEF LeavesAt, ArrivesAt
<1>3. row \in [1 .. Len(t.stations) - 1 -> Int]
  <2>1. \A d \in June_1st_2024 .. June_1st_2024 + DayValues - 1 : d \in Int
    BY DEF June_1st_2024, DayValues
  <2>2. t.saleDate_beg \in Int /\ t.saleDate_end \in Int
    BY <1>1, <2>1, CatalogueAssumption
  <2>3. day \in 0 .. t.saleDate_end - t.saleDate_beg
    BY <1>1, <2>2 DEF SaleDays
  <2>. QED
    BY <2>3 DEF SeatsInv
<1>4. WithPriceAndSeats(Run(t, s, i, j)).seats = Min(S)
  <2>. DEFINE e == Run(t, s, i, j)
  <2>1. e.train = t.hash /\ e.day = day /\ e.from = i /\ e.to = j
    BY DEF Run
  <2>2. WithPriceAndSeats(e).seats = SeatsLeft(e.train, e.day, e.from, e.to)
    BY DEF WithPriceAndSeats
  <2>3. SeatsLeft(t.hash, day, i, j) = Min(S)
    BY DEF SeatsLeft
  <2>. HIDE DEF e, S, day
  <2>4. WithPriceAndSeats(e).seats = Min(S)
    BY <2>1, <2>2, <2>3
  <2>. QED
    BY <2>4 DEF e
<1>5. Min(S) \in S /\ \A x \in S : Min(S) <= x
  <2>. HIDE DEF row
  <2>. DEFINE G == [k \in K |-> row[k]]
  <2>1. S \in SUBSET Int /\ S # {}
    BY <1>2, <1>3
  <2>2. IsFiniteSet(K)
    <3>1. i \in Int /\ j - 1 \in Int
      OBVIOUS
    <3>2. IsFiniteSet(i .. j - 1)
      BY <3>1, FS_Interval
    <3>. HIDE DEF K
    <3>. QED
      BY <1>2, <3>2
  <2>3. G \in Surjection(K, S)
    BY DEF Surjection
  <2>. HIDE DEF K, S, G
  <2>4. IsFiniteSet(S)
    BY <2>2, <2>3, FS_Surjection
  <2>. QED
    BY <2>1, <2>4, MinOfFinite
<1>6. ASSUME NEW k \in i .. j - 1 PROVE row[k] \in S
  BY <1>2
<1>. HIDE DEF S
<1>. QED
  BY <1>4, <1>5, <1>6

\* An exact register makes tickets and query_train agree.
LEMMA TimetableNow ==
  ASSUME RegisterInv, SeatsInv
  PROVE  TicketsMatchTimetable
<1>1. SUFFICES ASSUME NEW q \in Questions, NEW e \in Range(QueryTicket(q[1], q[2], q[3], TRUE))
               PROVE  \E row \in QueryTrain(TrainOf(e.train), e.actual_start_date) :
                        /\ row.stops[e.from].leave = e.leave
                        /\ row.stops[e.to].arrive = e.arrive
                        /\ row.stops[e.to].price - row.stops[e.from].price = e.price
                        /\ \A k \in e.from .. e.to - 1 : e.seats <= row.seats[k]
  BY DEF TicketsMatchTimetable
<1>2. PICK date \in Int, f \in {q[2]}, g \in {q[3]} : date = q[1] /\ f = q[2] /\ g = q[3] /\ f # g
  BY QuestionIs
<1>3. PICK d : IsRide(d, date, f, g) /\ e = WithPriceAndSeats(d)
  <2>1. TRUE \in BOOLEAN
    OBVIOUS
  <2>2. ListsRides(QueryTicket(date, f, g, TRUE), date, f, g)
    BY <1>2, <2>1, RowsAre
  <2>. QED
    BY <1>2, <2>2 DEF ListsRides
<1>4. PICK t \in released, i \in Nat, j \in Nat :
         Goes(t, i, j, date, f, g) /\ d = Run(t, StartDay(t, i, date), i, j)
  BY <1>3 DEF IsRide
<1>. DEFINE s == StartDay(t, i, date)
            n == Len(t.stations)
<1>5. t \in Catalogue /\ LeavesAt(t, f, i) /\ ArrivesAt(t, g, j) /\ i < j /\ s \in SaleDays(t)
  BY <1>4 DEF RegisterInv, Goes
<1>6. n \in Nat /\ i \in 1 .. n - 1 /\ j \in 2 .. n /\ i \in 1 .. n /\ j \in 1 .. n /\ i < j
  <2>1. n \in Nat
    BY <1>5, TrainIs
  <2>2. i \in 1 .. n - 1 /\ j \in 2 .. n
    BY <1>5 DEF LeavesAt, ArrivesAt
  <2>. QED
    BY <1>5, <2>1, <2>2
<1>7. /\ e.train = t.hash /\ e.actual_start_date = s /\ e.from = i /\ e.to = j
      /\ e.leave = s * Day + t.startTime + Offsets(t)[i].leave
      /\ e.arrive = s * Day + t.startTime + Offsets(t)[j].arrive
  BY <1>3, <1>4 DEF WithPriceAndSeats, Run
<1>8. e.price = Sum(t.price, i, j - 1)
  BY <1>2, <1>3, <1>4, RideIs
<1>9. \A k \in i .. j - 1 : e.seats <= seats[<<t.hash, s - t.saleDate_beg>>][k]
  BY <1>2, <1>3, <1>4, SeatsLeftIs
<1>10. s \in Int
  BY <1>2, <1>5, TimesAre
<1>. HIDE DEF s
<1>11. PICK row \in QueryTrain(t, s) :
          /\ row.seats = seats[<<t.hash, s - t.saleDate_beg>>]
          /\ \A k \in 1 .. n - 1 : row.stops[k].leave = s * Day + t.startTime + Offsets(t)[k].leave
          /\ \A k \in 2 .. n : row.stops[k].arrive = s * Day + t.startTime + Offsets(t)[k].arrive
          /\ \A k \in 1 .. n : row.stops[k].price = Sum(t.price, 1, k - 1)
  BY <1>5, <1>10, TimetableIs
<1>. HIDE DEF n
<1>12. row.stops[j].price - row.stops[i].price = Sum(t.price, i, j - 1)
  <2>1. \A k \in 1 .. j - 1 : t.price[k] \in Int
    <3>1. \A k \in 1 .. n - 1 : t.price[k] \in Int
      BY <1>5, TrainIs DEF n
    <3>. QED
      BY <1>6, <3>1
  <2>2. 1 \in Int /\ i \in Int /\ j - 1 \in Int /\ 1 <= i /\ i - 1 <= j - 1 /\ 1 - 1 <= j - 1 /\ i - 1 \in 1 - 1 .. j - 1
    BY <1>6
  <2>3. Sum(t.price, 1, j - 1) = Sum(t.price, 1, i - 1) + Sum(t.price, i, j - 1)
    <3>1. PICK b \in Int : b = j - 1
      BY <2>2
    <3>2. 1 <= i /\ i - 1 <= b /\ \A k \in 1 .. b : t.price[k] \in Int
      BY <2>1, <2>2, <3>1
    <3>3. Splits(t.price, 1, i, b)
      BY <2>2, <3>2, SumSplit
    <3>. QED
      BY <3>1, <3>3 DEF Splits
  <2>4. Sum(t.price, 1, i - 1) \in Int
    BY <2>1, <2>2, SumIs DEF Sums
  <2>5. Sum(t.price, i, j - 1) \in Int
    <3>1. e.price \in Int
      BY <1>2, <1>3, <1>4, RideIs
    <3>. QED
      BY <1>8, <3>1
  <2>6. row.stops[j].price = Sum(t.price, 1, j - 1) /\ row.stops[i].price = Sum(t.price, 1, i - 1)
    BY <1>6, <1>11
  <2>. QED
    BY <2>3, <2>4, <2>5, <2>6
<1>13. row.stops[i].leave = e.leave /\ row.stops[j].arrive = e.arrive
  BY <1>6, <1>7, <1>11
<1>14. TrainOf(e.train) = t
  BY <1>7, TrainOfIs
<1>. QED
  BY <1>7, <1>8, <1>9, <1>11, <1>12, <1>13, <1>14

-----------------------------------------------------------------------------
(* The order of the transfers *)

Keys == Int \X Int \X Int \X Int

\* The lexicographic order of four numbers.
LEMMA FourBefore ==
  ASSUME NEW a \in Keys, NEW b \in Keys
  PROVE  Before(a, b) <=> \/ a[1] < b[1]
                          \/ a[1] = b[1] /\ a[2] < b[2]
                          \/ a[1] = b[1] /\ a[2] = b[2] /\ a[3] < b[3]
                          \/ a[1] = b[1] /\ a[2] = b[2] /\ a[3] = b[3] /\ a[4] < b[4]
<1>1. DOMAIN a = 1 .. 4
  BY DEF Keys
<1>2. Before(a, b) <=> \E i \in 1 .. 4 : a[i] < b[i] /\ \A j \in 1 .. i - 1 : a[j] = b[j]
  BY <1>1 DEF Before
<1>3. /\ \A i \in 1 .. 4 : i = 1 \/ i = 2 \/ i = 3 \/ i = 4
      /\ 1 \in 1 .. 4 /\ 2 \in 1 .. 4 /\ 3 \in 1 .. 4 /\ 4 \in 1 .. 4
      /\ 1 .. 1 - 1 = {} /\ 1 .. 2 - 1 = {1} /\ 1 .. 3 - 1 = {1, 2} /\ 1 .. 4 - 1 = {1, 2, 3}
  OBVIOUS
<1>4. \A i \in 1 .. 4 : a[i] < b[i] /\ (\A j \in 1 .. i - 1 : a[j] = b[j])
        => \/ a[1] < b[1]
           \/ a[1] = b[1] /\ a[2] < b[2]
           \/ a[1] = b[1] /\ a[2] = b[2] /\ a[3] < b[3]
           \/ a[1] = b[1] /\ a[2] = b[2] /\ a[3] = b[3] /\ a[4] < b[4]
  BY <1>3
<1>5. /\ a[1] < b[1] => Before(a, b)
      /\ a[1] = b[1] /\ a[2] < b[2] => Before(a, b)
      /\ a[1] = b[1] /\ a[2] = b[2] /\ a[3] < b[3] => Before(a, b)
      /\ a[1] = b[1] /\ a[2] = b[2] /\ a[3] = b[3] /\ a[4] < b[4] => Before(a, b)
  BY <1>2, <1>3
<1>. QED
  BY <1>2, <1>4, <1>5

\* It is a total order.
LEMMA BeforeOrders ==
  ASSUME NEW a \in Keys, NEW b \in Keys, NEW c \in Keys
  PROVE  /\ ~ Before(a, a)
         /\ Before(a, b) => ~ Before(b, a)
         /\ ~ Before(a, b) /\ ~ Before(b, c) => ~ Before(a, c)
<1>1. /\ a[1] \in Int /\ a[2] \in Int /\ a[3] \in Int /\ a[4] \in Int
      /\ b[1] \in Int /\ b[2] \in Int /\ b[3] \in Int /\ b[4] \in Int
      /\ c[1] \in Int /\ c[2] \in Int /\ c[3] \in Int /\ c[4] \in Int
  BY DEF Keys
<1>2. ~ Before(a, a)
  BY <1>1, FourBefore
<1>3. Before(a, b) => ~ Before(b, a)
  BY <1>1, FourBefore
<1>4. ~ Before(a, b) /\ ~ Before(b, c) => ~ Before(a, c)
  BY <1>1, FourBefore
<1>. QED
  BY <1>2, <1>3, <1>4

\* The members of C are transfers that can be compared.
Comparable(C, sortByTime) ==
  \A s \in C : s.status = "found" /\ TransferKey(s, sortByTime) \in Keys

\* s is one of C that no other comes before; no transfer if there is none.
IsBest(s, C, sortByTime) ==
  IF C = {} THEN s = NoTransfer
  ELSE s \in C /\ \A c \in C : ~ Before(TransferKey(c, sortByTime), TransferKey(s, sortByTime))

\* The solution is the old one or a new one.
LEMMA ImprovedIn ==
  ASSUME NEW s, NEW found, NEW sortByTime
  PROVE  Improved(s, found, sortByTime) \in {s} \cup found
BY DEF Improved, Choose

\* The best of what has been found stays the best.
LEMMA ImprovedIs ==
  ASSUME NEW sortByTime, NEW C, NEW found, NEW s, IsBest(s, C, sortByTime),
         Comparable(C \cup found, sortByTime), \A x, y \in found : x = y
  PROVE  IsBest(Improved(s, found, sortByTime), C \cup found, sortByTime)
<1>. DEFINE K(x) == TransferKey(x, sortByTime)
<1>1. CASE found = {}
  <2>1. Improved(s, found, sortByTime) = s /\ C \cup found = C
    BY <1>1 DEF Improved
  <2>. QED
    BY <2>1
<1>2. CASE found # {}
  <2>1. PICK x \in found : x = CHOOSE y \in found : TRUE
    BY <1>2
  <2>2. found = {x} /\ C \cup found # {}
    BY <2>1
  <2>3. s.status # "thrown" /\ (s.status # "none" <=> C # {})
    BY DEF IsBest, NoTransfer, Comparable
  <2>4. x.status = "found" /\ K(x) \in Keys /\ \A c \in C : K(c) \in Keys
    BY DEF Comparable
  <2>5. Improved(s, found, sortByTime) = IF C # {} /\ Before(K(s), K(x)) THEN s ELSE x
    BY <2>1, <2>2, <2>3, <2>4 DEF Improved, Choose
  <2>. HIDE DEF K
  <2>6. C # {} => s \in C /\ \A c \in C : ~ Before(K(c), K(s))
    BY DEF IsBest, K
  <2>7. CASE C # {} /\ Before(K(s), K(x))
    <3>1. ~ Before(K(x), K(s))
      BY <2>4, <2>6, <2>7, BeforeOrders
    <3>2. s \in C \cup found /\ \A c \in C \cup found : ~ Before(K(c), K(s))
      BY <2>2, <2>6, <2>7, <3>1
    <3>3. IsBest(s, C \cup found, sortByTime)
      BY <2>2, <3>2 DEF IsBest, K
    <3>. QED
      BY <2>5, <2>7, <3>3
  <2>8. CASE ~ (C # {} /\ Before(K(s), K(x)))
    <3>1. ~ Before(K(x), K(x))
      BY <2>4, BeforeOrders
    <3>2. ASSUME NEW c \in C PROVE ~ Before(K(c), K(x))
      <4>1. s \in C /\ ~ Before(K(c), K(s)) /\ ~ Before(K(s), K(x))
        BY <2>6, <2>8
      <4>2. K(c) \in Keys /\ K(s) \in Keys /\ K(x) \in Keys
        BY <2>4, <4>1
      <4>. QED
        BY <4>1, <4>2, BeforeOrders
    <3>3. x \in C \cup found /\ \A c \in C \cup found : ~ Before(K(c), K(x))
      BY <2>2, <3>1, <3>2
    <3>4. IsBest(x, C \cup found, sortByTime)
      BY <2>2, <3>3 DEF IsBest, K
    <3>. QED
      BY <2>5, <2>8, <3>4
  <2>. QED
    BY <2>7, <2>8
<1>. QED
  BY <1>1, <1>2

\* The solution s has become r after the changes of C were looked at.
Checked(s, r, C, sortByTime) ==
  /\ r \in {s} \cup C
  /\ \A B : IsBest(s, B, sortByTime) /\ Comparable(B \cup C, sortByTime) => IsBest(r, B \cup C, sortByTime)

\* One change is looked at.
LEMMA ImprovedChecks ==
  ASSUME NEW s, NEW found, NEW sortByTime, \A x, y \in found : x = y
  PROVE  Checked(s, Improved(s, found, sortByTime), found, sortByTime)
<1>1. ASSUME NEW B, IsBest(s, B, sortByTime), Comparable(B \cup found, sortByTime)
      PROVE  IsBest(Improved(s, found, sortByTime), B \cup found, sortByTime)
  BY <1>1, ImprovedIs
<1>. QED
  BY <1>1, ImprovedIn DEF Checked

\* A loop looks at the changes of all its rounds.
LEMMA LoopChecks ==
  ASSUME NEW n \in Nat, NEW u, NEW C, NEW sortByTime,
         \A k \in 1 .. n : Checked(u[k - 1], u[k], C[k], sortByTime)
  PROVE  Checked(u[0], u[n], UNION {C[k] : k \in 1 .. n}, sortByTime)
<1>. DEFINE Sofar(k) == UNION {C[m] : m \in 1 .. k}
            Good == {k \in 0 .. n : Checked(u[0], u[k], Sofar(k), sortByTime)}
<1>1. 0 \in Good
  <2>1. Sofar(0) = {}
    OBVIOUS
  <2>2. \A B : B \cup {} = B
    OBVIOUS
  <2>3. Checked(u[0], u[0], {}, sortByTime)
    BY <2>2 DEF Checked
  <2>. QED
    BY <2>1, <2>3
<1>2. ASSUME NEW k \in 0 .. n - 1, k \in Good PROVE k + 1 \in Good
  <2>1. PICK m \in 1 .. n : m = k + 1 /\ m - 1 = k /\ m \in 0 .. n
    OBVIOUS
  <2>2. Sofar(m) = Sofar(k) \cup C[m]
    <3>1. \A j : j \in 1 .. m <=> j \in 1 .. k \/ j = m
      BY <2>1
    <3>. QED
      BY <3>1
  <2>3. Checked(u[0], u[k], Sofar(k), sortByTime) /\ Checked(u[k], u[m], C[m], sortByTime)
    BY <1>2, <2>1
  <2>. HIDE DEF Sofar
  <2>4. u[m] \in {u[0]} \cup Sofar(m)
    BY <2>2, <2>3 DEF Checked
  <2>5. ASSUME NEW B, IsBest(u[0], B, sortByTime), Comparable(B \cup Sofar(m), sortByTime)
        PROVE  IsBest(u[m], B \cup Sofar(m), sortByTime)
    <3>1. B \cup Sofar(m) = (B \cup Sofar(k)) \cup C[m]
      BY <2>2
    <3>2. Comparable(B \cup Sofar(k), sortByTime)
      BY <2>5, <3>1 DEF Comparable
    <3>3. IsBest(u[k], B \cup Sofar(k), sortByTime)
      BY <2>3, <2>5, <3>2 DEF Checked
    <3>4. IsBest(u[m], (B \cup Sofar(k)) \cup C[m], sortByTime)
      BY <2>3, <2>5, <3>1, <3>3 DEF Checked
    <3>. QED
      BY <3>1, <3>4
  <2>6. Checked(u[0], u[m], Sofar(m), sortByTime)
    BY <2>4, <2>5 DEF Checked
  <2>. QED
    BY <2>1, <2>6
<1>3. \A k \in 0 .. n : k \in Good
  <2>1. 0 \in Int /\ n \in Int
    OBVIOUS
  <2>. HIDE DEF Good
  <2>. QED
    BY <1>1, <1>2, <2>1, UpFrom
<1>. QED
  BY <1>3

-----------------------------------------------------------------------------
(* The candidates of query_transfer *)

\* CheckTransfer adds up the times that release_train does.
LEMMA TransferOffsetsAre ==
  ASSUME NEW t \in Catalogue
  PROVE  /\ \A i \in 1 .. Len(t.stations) - 1 : TransferOffsets(t)[i].leave = Offsets(t)[i].leave
         /\ \A j \in 2 .. Len(t.stations) : TransferOffsets(t)[j].arrive = Offsets(t)[j].arrive
<1>. DEFINE n == Len(t.stations)
            start == [arrive |-> 0, leave |-> 0]
            Next1(i, l) == [arrive |-> l + t.travelTime[i - 1],
                            leave |-> l + t.travelTime[i - 1] + t.stopoverTime[i]]
            Is(o) == o = [i \in 1 .. n |-> IF i = 1 THEN start ELSE Next1(i, o[i - 1].leave)]
            S == [arrive : Int, leave : Int]
            F == [p \in (2 .. n) \X S |-> Next1(p[1], p[2].leave)]
            k == CHOOSE o : Is(o)
<1>1. n \in Nat /\ n >= 2
  BY TrainIs
<1>2. TransferOffsets(t) = k
  BY DEF TransferOffsets, Stops
<1>3. ASSUME NEW i \in 2 .. n, NEW s \in S PROVE F[<<i, s>>] = Next1(i, s.leave) /\ F[<<i, s>>] \in S
  <2>1. F[<<i, s>>] = Next1(i, s.leave)
    OBVIOUS
  <2>2. i - 1 \in 1 .. n - 1 /\ i \in Stops(t)
    BY <1>1 DEF Stops
  <2>3. t.travelTime[i - 1] \in Int /\ t.stopoverTime[i] \in Int
    BY <2>2, TrainIs, TransferAssumption
  <2>4. s.leave \in Int
    OBVIOUS
  <2>5. Next1(i, s.leave) \in S
    BY <2>3, <2>4
  <2>. QED
    BY <2>1, <2>5
<1>4. start \in S
  OBVIOUS
<1>5. \E o : Is(o)
  <2>. HIDE DEF F, S, start, Next1, n
  <2>1. \A i \in 1 .. n, s \in S : i # 1 => F[<<i, s>>] \in S
    BY <1>1, <1>3
  <2>2. PICK o : Recurs(o, 1, n, start, F) /\ \A i \in 1 .. n : o[i] \in S
    <3>1. 1 \in Int /\ n \in Int /\ 1 <= n
      BY <1>1
    <3>. QED
      BY <1>4, <2>1, <3>1, Recursion
  <2>3. ASSUME NEW i \in 1 .. n, i # 1 PROVE F[<<i, o[i - 1]>>] = Next1(i, o[i - 1].leave)
    <3>1. i - 1 \in 1 .. n /\ i \in 2 .. n
      BY <1>1, <2>3
    <3>. QED
      BY <1>3, <2>2, <3>1
  <2>4. Is(o)
    BY <2>2, <2>3 DEF Recurs
  <2>. QED
    BY <2>4
<1>6. Is(k)
  BY <1>5
<1>. HIDE DEF k, Next1, n, start
<1>7. \A i \in 1 .. n : k[i] = IF i = 1 THEN start ELSE Next1(i, k[i - 1].leave)
  BY <1>6
<1>8. k[1].leave = 0
  BY <1>1, <1>7 DEF start
<1>9. ASSUME NEW i \in 2 .. n
      PROVE  /\ k[i].arrive = k[i - 1].leave + t.travelTime[i - 1]
             /\ k[i].leave = k[i - 1].leave + t.travelTime[i - 1] + t.stopoverTime[i]
  <2>1. PICK l : l = k[i - 1].leave
    OBVIOUS
  <2>2. k[i] = Next1(i, l)
    BY <1>1, <1>7, <2>1
  <2>3. k[i].arrive = l + t.travelTime[i - 1] /\ k[i].leave = l + t.travelTime[i - 1] + t.stopoverTime[i]
    BY <2>2 DEF Next1
  <2>. QED
    BY <2>1, <2>3
<1>. DEFINE O == Offsets(t)
            Good == {i \in 1 .. n - 1 : k[i].leave = O[i].leave}
<1>10. /\ O[1].leave = 0
       /\ \A i \in 2 .. n : O[i].arrive = O[i - 1].leave + t.travelTime[i - 1]
       /\ \A i \in 2 .. n - 1 : O[i].leave = O[i].arrive + t.stopoverTime[i]
  <2>1. /\ O[1] = [arrive |-> -1, leave |-> 0]
        /\ \A i \in 2 .. n :
             /\ O[i].arrive = O[i - 1].leave + t.travelTime[i - 1]
             /\ O[i].leave = IF i = n THEN -1 ELSE O[i].arrive + t.stopoverTime[i]
    BY OffsetsAre DEF n
  <2>2. \A i \in 2 .. n - 1 : i \in 2 .. n /\ i # n
    BY <1>1
  <2>. HIDE DEF O
  <2>. QED
    BY <2>1, <2>2
<1>. HIDE DEF O
<1>11. 1 \in Good
  BY <1>1, <1>8, <1>10
<1>12. ASSUME NEW i \in 1 .. n - 1 - 1, i \in Good PROVE i + 1 \in Good
  <2>1. PICK m \in 2 .. n - 1 : m = i + 1 /\ m - 1 = i /\ m \in 2 .. n /\ m \in 1 .. n - 1
    BY <1>1
  <2>2. k[m].leave = O[m].leave
    BY <1>9, <1>10, <1>12, <2>1
  <2>. QED
    BY <2>1, <2>2
<1>13. \A i \in 1 .. n - 1 : k[i].leave = O[i].leave
  <2>1. 1 \in Int /\ n - 1 \in Int
    BY <1>1
  <2>. HIDE DEF Good
  <2>2. \A i \in 1 .. n - 1 : i \in Good
    BY <1>11, <1>12, <2>1, UpFrom
  <2>. QED
    BY <2>2 DEF Good
<1>14. \A j \in 2 .. n : k[j].arrive = O[j].arrive
  <2>1. \A j \in 2 .. n : j - 1 \in 1 .. n - 1
    BY <1>1
  <2>. QED
    BY <1>9, <1>10, <1>13, <2>1
<1>. QED
  BY <1>2, <1>13, <1>14 DEF n, O

\* A leg of a transfer is what query_ticket lists for the run.
LEMMA LegIs ==
  ASSUME RegisterInv, NEW t \in released, NEW s, NEW i \in 1 .. Len(t.stations) - 1,
         NEW j \in 2 .. Len(t.stations), i < j
  PROVE  Leg(t, s, i, j) = WithPriceAndSeats(Run(t, s, i, j))
<1>1. t \in Catalogue /\ Len(t.stations) \in Nat
  BY TrainIs DEF RegisterInv
<1>2. TransferOffsets(t)[i].leave = Offsets(t)[i].leave /\ TransferOffsets(t)[j].arrive = Offsets(t)[j].arrive
  BY <1>1, TransferOffsetsAre
<1>3. Sum(t.price, 1, j - 1) - Sum(t.price, 1, i - 1) = Sum(t.price, i, j - 1)
  <2>1. PICK b \in Int : b = j - 1
    BY <1>1
  <2>2. 1 \in Int /\ i \in Int /\ 1 <= i /\ i - 1 <= b /\ 1 - 1 <= b /\ i - 1 \in 1 - 1 .. b /\ b \in i - 1 .. b
    BY <1>1, <2>1
  <2>3. (\A k \in 1 .. b : t.price[k] \in Int) /\ (\A k \in i .. b : t.price[k] \in Int)
    <3>1. (\A k \in 1 .. b : k \in 1 .. Len(t.stations) - 1) /\ (\A k \in i .. b : k \in 1 .. Len(t.stations) - 1)
      BY <1>1, <2>1
    <3>. QED
      BY <1>1, <3>1, TrainIs
  <2>4. Splits(t.price, 1, i, b)
    BY <2>2, <2>3, SumSplit
  <2>5. Sums(t.price, 1, b) /\ Sums(t.price, i, b)
    BY <2>2, <2>3, SumIs
  <2>6. Sum(t.price, 1, i - 1) \in Int /\ Sum(t.price, i, b) \in Int
    BY <2>2, <2>5 DEF Sums
  <2>. QED
    BY <2>1, <2>4, <2>6 DEF Splits
<1>. DEFINE e == Run(t, s, i, j)
<1>4. /\ e.train = t.hash /\ e.actual_start_date = s /\ e.day = s - t.saleDate_beg /\ e.from = i /\ e.to = j
      /\ e.leave = s * Day + t.startTime + Offsets(t)[i].leave
      /\ e.arrive = s * Day + t.startTime + Offsets(t)[j].arrive
  BY DEF Run
<1>5. TrainOf(t.hash) = t
  BY TrainOfIs
<1>. HIDE DEF e
<1>6. WithPriceAndSeats(e)
        = [train |-> t.hash, actual_start_date |-> s, day |-> s - t.saleDate_beg,
           leave |-> s * Day + t.startTime + Offsets(t)[i].leave,
           arrive |-> s * Day + t.startTime + Offsets(t)[j].arrive,
           from |-> i, to |-> j, price |-> Sum(t.price, i, j - 1),
           seats |-> SeatsLeft(t.hash, s - t.saleDate_beg, i, j)]
  BY <1>4, <1>5 DEF WithPriceAndSeats
<1>7. Leg(t, s, i, j)
        = [train |-> t.hash, actual_start_date |-> s, day |-> s - t.saleDate_beg,
           leave |-> s * Day + t.startTime + Offsets(t)[i].leave,
           arrive |-> s * Day + t.startTime + Offsets(t)[j].arrive,
           from |-> i, to |-> j, price |-> Sum(t.price, i, j - 1),
           seats |-> SeatsLeft(t.hash, s - t.saleDate_beg, i, j)]
  BY <1>2, <1>3 DEF Leg, LegWithSeatsOf
<1>. QED
  BY <1>6, <1>7 DEF e

-----------------------------------------------------------------------------
(* The second train *)

ArrivalOn(t, s, j) == s * Day + t.startTime + Offsets(t)[j].arrive
DepartureOn(t, s, i) == s * Day + t.startTime + Offsets(t)[i].leave

\* The first day on which t can be started to leave stop i after arrived.
SecondDay(t, i, arrived) ==
  t.saleDate_beg + DaysToWait(DepartureOn(t, t.saleDate_beg, i), arrived)

\* Some day of its sale train t leaves stop i after arrived.
InTime(t, i, arrived) == arrived <= DepartureOn(t, t.saleDate_end, i)

\* The numbers of a train and its sale.
LEMMA SaleIs ==
  ASSUME NEW t \in Catalogue
  PROVE  /\ t.saleDate_beg \in Int /\ t.saleDate_end \in Int /\ t.saleDate_beg <= t.saleDate_end
         /\ t.startTime \in Int /\ Len(t.stations) \in Nat
         /\ \A i \in 1 .. Len(t.stations) - 1, s \in Int : DepartureOn(t, s, i) \in Int
         /\ \A j \in 2 .. Len(t.stations), s \in Int : ArrivalOn(t, s, j) \in Int
<1>1. \A d \in June_1st_2024 .. June_1st_2024 + DayValues - 1 : d \in Int
  BY DEF June_1st_2024, DayValues
<1>2. t.saleDate_beg \in Int /\ t.saleDate_end \in Int /\ t.saleDate_beg <= t.saleDate_end
  BY <1>1, CatalogueAssumption, TransferAssumption
<1>3. t.startTime \in Int /\ Len(t.stations) \in Nat
  <2>1. Day - 1 \in Int
    BY DEF Day
  <2>. QED
    BY <2>1, TrainIs
<1>4. /\ \A i \in 1 .. Len(t.stations) - 1 : Offsets(t)[i].leave \in Int
      /\ \A j \in 2 .. Len(t.stations) : Offsets(t)[j].arrive \in Int
  BY OffsetsGrow
<1>5. ASSUME NEW s \in Int, NEW o \in Int PROVE s * Day + t.startTime + o \in Int
  BY <1>3 DEF Day
<1>6. ASSUME NEW i \in 1 .. Len(t.stations) - 1, NEW s \in Int PROVE DepartureOn(t, s, i) \in Int
  BY <1>4, <1>5 DEF DepartureOn
<1>7. ASSUME NEW j \in 2 .. Len(t.stations), NEW s \in Int PROVE ArrivalOn(t, s, j) \in Int
  BY <1>4, <1>5 DEF ArrivalOn
<1>. QED
  BY <1>2, <1>3, <1>6, <1>7

\* The days to wait are as few as possible.
LEMMA DaysToWaitIs ==
  ASSUME NEW leave \in Int, NEW arrived \in Int
  PROVE  LET w == DaysToWait(leave, arrived)
         IN /\ w \in Nat /\ arrived <= leave + w * Day
            /\ \A v \in Nat : arrived <= leave + v * Day => w <= v
<1>1. CASE leave < arrived
  <2>1. PICK x \in Nat : x = arrived - leave /\ x # 0
    BY <1>1
  <2>2. PICK w \in Nat : w = (x + 1439) \div 1440
    OBVIOUS
  <2>3. DaysToWait(leave, arrived) = w
    BY <1>1, <2>1, <2>2 DEF DaysToWait, Day
  <2>4. x <= w * 1440
    BY <2>2
  <2>5. ASSUME NEW v \in Nat, x <= v * 1440 PROVE w <= v
    BY <2>2, <2>5
  <2>6. \A v \in Nat : arrived <= leave + v * Day <=> x <= v * 1440
    BY <2>1 DEF Day
  <2>. QED
    BY <2>3, <2>4, <2>5, <2>6
<1>2. CASE ~ (leave < arrived)
  <2>1. DaysToWait(leave, arrived) = 0
    BY <1>2 DEF DaysToWait
  <2>2. arrived <= leave + 0 * Day
    BY <1>2 DEF Day
  <2>. QED
    BY <2>1, <2>2
<1>. QED
  BY <1>1, <1>2

\* The second train starts on the first day of its sale on which it leaves in
\* time, if there is one.
LEMMA SecondDayIs ==
  ASSUME NEW t \in Catalogue, NEW i \in 1 .. Len(t.stations) - 1, NEW arrived \in Int
  PROVE  LET s == SecondDay(t, i, arrived)
         IN /\ InTime(t, i, arrived) => s \in SaleDays(t) /\ arrived <= DepartureOn(t, s, i)
            /\ \A v \in SaleDays(t) :
                 arrived <= DepartureOn(t, v, i) => InTime(t, i, arrived) /\ s <= v
<1>1. t.saleDate_beg \in Int /\ t.saleDate_end \in Int /\ t.saleDate_beg <= t.saleDate_end
  BY SaleIs
<1>2. PICK y \in Int : y = t.startTime + Offsets(t)[i].leave
  <2>1. t.startTime \in Int
    BY SaleIs
  <2>2. Offsets(t)[i].leave \in Int
    BY OffsetsGrow
  <2>. QED
    BY <2>1, <2>2
<1>3. PICK beg \in Int, end \in Int : beg = t.saleDate_beg /\ end = t.saleDate_end /\ beg <= end
  BY <1>1
<1>4. ASSUME NEW v \in Int PROVE DepartureOn(t, v, i) = v * 1440 + y
  <2>1. t.startTime \in Int
    BY SaleIs
  <2>2. Offsets(t)[i].leave \in Int
    BY OffsetsGrow
  <2>. QED
    BY <1>2, <2>1, <2>2 DEF DepartureOn, Day
<1>5. PICK w : w = DaysToWait(DepartureOn(t, beg, i), arrived)
  OBVIOUS
<1>6. /\ w \in Nat /\ arrived <= beg * 1440 + y + w * 1440
      /\ \A v \in Nat : arrived <= beg * 1440 + y + v * 1440 => w <= v
  <2>1. PICK l \in Int : l = beg * 1440 + y
    OBVIOUS
  <2>2. w = DaysToWait(l, arrived)
    BY <1>4, <1>5, <2>1
  <2>. QED
    BY <2>1, <2>2, DaysToWaitIs DEF Day
<1>7. ASSUME arrived <= end * 1440 + y
      PROVE  beg + w \in beg .. end /\ arrived <= (beg + w) * 1440 + y
  <2>1. PICK v \in Nat : v = end - beg
    BY <1>3
  <2>2. arrived <= beg * 1440 + y + v * 1440
    BY <1>3, <1>7, <2>1
  <2>3. w <= v
    BY <1>6, <2>2
  <2>4. beg + w \in beg .. end
    <3>1. w \in Nat /\ v \in Int /\ w <= v /\ v = end - beg
      BY <1>6, <2>1, <2>3
    <3>. QED
      BY <3>1
  <2>5. (beg + w) * 1440 + y = beg * 1440 + y + w * 1440
    BY <1>6
  <2>. QED
    BY <1>6, <2>4, <2>5
<1>8. ASSUME NEW v \in beg .. end, arrived <= v * 1440 + y
      PROVE  arrived <= end * 1440 + y /\ beg + w <= v
  <2>1. PICK u \in Nat : u = v - beg
    BY <1>3
  <2>2. arrived <= beg * 1440 + y + u * 1440
    BY <1>3, <1>8, <2>1
  <2>3. w <= u
    BY <1>6, <2>2
  <2>4. v \in Int /\ v <= end
    BY <1>3
  <2>5. v * 1440 + y <= end * 1440 + y
    BY <2>4
  <2>6. arrived <= end * 1440 + y
    BY <1>8, <2>4, <2>5
  <2>7. beg + w <= v
    BY <1>6, <2>1, <2>3, <2>4
  <2>. QED
    BY <2>6, <2>7
<1>9. SaleDays(t) = beg .. end /\ SecondDay(t, i, arrived) = beg + w
  BY <1>3, <1>5 DEF SaleDays, SecondDay
<1>10. InTime(t, i, arrived) <=> arrived <= end * 1440 + y
  <2>1. DepartureOn(t, t.saleDate_end, i) = end * 1440 + y
    BY <1>3, <1>4
  <2>. QED
    BY <2>1 DEF InTime
<1>11. InTime(t, i, arrived) => beg + w \in beg .. end /\ arrived <= DepartureOn(t, beg + w, i)
  BY <1>4, <1>6, <1>7, <1>10
<1>12. ASSUME NEW v \in beg .. end, arrived <= DepartureOn(t, v, i)
       PROVE  InTime(t, i, arrived) /\ beg + w <= v
  BY <1>4, <1>8, <1>10, <1>12
<1>. QED
  BY <1>9, <1>11, <1>12

-----------------------------------------------------------------------------
(* The loops of query_transfer *)

\* The change at stop x of t1 and stop i of t2, if t1 starts on day s.
Change(t1, t2, s, b, x, i, d) ==
  Transfer(Leg(t1, s, b, x), Leg(t2, SecondDay(t2, i, ArrivalOn(t1, s, x)), i, d))

\* One round of CheckTransfer finds the change if the second train is in time.
LEMMA CandidateIs ==
  ASSUME NEW t1 \in Catalogue, NEW t2 \in Catalogue, NEW date \in Int,
         NEW b \in 1 .. Len(t1.stations) - 1, NEW x \in 2 .. Len(t1.stations),
         NEW i \in 1 .. Len(t2.stations) - 1, NEW d, NEW s, s = StartDay(t1, b, date), s \in SaleDays(t1)
  PROVE  Candidate(t1, t2, date, b, i, x, d)
           = IF InTime(t2, i, ArrivalOn(t1, s, x)) THEN {Change(t1, t2, s, b, x, i, d)} ELSE {}
<1>1. /\ TransferOffsets(t1)[b].leave = Offsets(t1)[b].leave
      /\ TransferOffsets(t1)[x].arrive = Offsets(t1)[x].arrive
      /\ TransferOffsets(t2)[i].leave = Offsets(t2)[i].leave
  BY TransferOffsetsAre
<1>2. s = date - (t1.startTime + TransferOffsets(t1)[b].leave) \div Day
  BY <1>1 DEF StartDay
<1>3. Leg(t1, s, b, x).arrive = ArrivalOn(t1, s, x)
  <2>1. Leg(t1, s, b, x).arrive = s * Day + t1.startTime + TransferOffsets(t1)[x].arrive
    BY DEF Leg, LegWithSeatsOf
  <2>. QED
    BY <1>1, <2>1 DEF ArrivalOn
<1>4. \A v \in Int : v * Day + (t2.startTime + TransferOffsets(t2)[i].leave) = DepartureOn(t2, v, i)
  <2>1. PICK y \in Int : y = t2.startTime
    BY SaleIs
  <2>2. PICK o \in Int : o = Offsets(t2)[i].leave
    <3>1. Offsets(t2)[i].leave \in Int
      BY OffsetsGrow
    <3>. QED
      BY <3>1
  <2>3. ASSUME NEW v \in Int PROVE v * Day + (y + o) = v * Day + y + o
    <3>1. PICK w \in Int : w = v * Day
      BY DEF Day
    <3>. QED
      BY <3>1
  <2>. QED
    BY <1>1, <2>1, <2>2, <2>3 DEF DepartureOn
<1>5. t2.saleDate_beg \in Int /\ t2.saleDate_end \in Int
  BY SaleIs
<1>. DEFINE a == ArrivalOn(t1, s, x)
            leave == t2.startTime + TransferOffsets(t2)[i].leave
<1>6. t2.saleDate_beg + DaysToWait(t2.saleDate_beg * Day + leave, a) = SecondDay(t2, i, a)
  BY <1>4, <1>5 DEF SecondDay
<1>7. a > t2.saleDate_end * Day + leave <=> ~ InTime(t2, i, a)
  <2>1. a \in Int
    <3>1. s \in Int
      BY DEF SaleDays
    <3>. QED
      BY <3>1, SaleIs
  <2>2. DepartureOn(t2, t2.saleDate_end, i) \in Int
    BY <1>5, SaleIs
  <2>3. DepartureOn(t2, t2.saleDate_end, i) = t2.saleDate_end * Day + leave
    BY <1>4, <1>5
  <2>. HIDE DEF leave, a
  <2>. QED
    BY <2>1, <2>2, <2>3 DEF InTime
<1>8. Candidate(t1, t2, date, b, i, x, d)
        = IF s \notin SaleDays(t1) THEN {Mistake}
          ELSE IF Leg(t1, s, b, x).arrive > t2.saleDate_end * Day + leave THEN {}
          ELSE {Transfer(Leg(t1, s, b, x),
                         Leg(t2, t2.saleDate_beg + DaysToWait(t2.saleDate_beg * Day + leave,
                                                              Leg(t1, s, b, x).arrive), i, d))}
  BY <1>2 DEF Candidate
<1>. HIDE DEF leave
<1>. QED
  BY <1>3, <1>6, <1>7, <1>8 DEF Change

\* Where t2 stops at i there is one change or none.
LEMMA ChangesAre ==
  ASSUME NEW t1 \in Catalogue, NEW t2 \in Catalogue, NEW date \in Int,
         NEW b \in 1 .. Len(t1.stations) - 1,
         NEW i \in 1 .. Len(t2.stations) - 1, NEW d, NEW s, s = StartDay(t1, b, date), s \in SaleDays(t1)
  PROVE  LET C == Changes(t1, t2, date, b, i, d)
         IN /\ \A c : c \in C <=> \E x \in b + 1 .. Len(t1.stations) :
                                    /\ t1.stations[x] = t2.stations[i]
                                    /\ InTime(t2, i, ArrivalOn(t1, s, x))
                                    /\ c = Change(t1, t2, s, b, x, i, d)
            /\ \A c, e \in C : c = e
<1>. DEFINE n == Len(t1.stations)
            C == Changes(t1, t2, date, b, i, d)
<1>1. n \in Nat /\ \A x \in b + 1 .. n : x \in 2 .. n /\ x \in Stops(t1)
  <2>1. n \in Nat
    BY TrainIs
  <2>. QED
    BY <2>1 DEF Stops
<1>2. \A c : c \in C <=> \E x \in b + 1 .. n : t1.stations[x] = t2.stations[i] /\ c \in Candidate(t1, t2, date, b, i, x, d)
  BY DEF Changes
<1>3. \A c : \A x \in b + 1 .. n : c \in Candidate(t1, t2, date, b, i, x, d)
                 <=> InTime(t2, i, ArrivalOn(t1, s, x)) /\ c = Change(t1, t2, s, b, x, i, d)
  <2>1. ASSUME NEW x \in b + 1 .. n
        PROVE  Candidate(t1, t2, date, b, i, x, d)
                 = IF InTime(t2, i, ArrivalOn(t1, s, x)) THEN {Change(t1, t2, s, b, x, i, d)} ELSE {}
    BY <1>1, CandidateIs
  <2>. QED
    BY <2>1
<1>. HIDE DEF n, C
<1>4. \A x, y \in b + 1 .. n : t1.stations[x] = t1.stations[y] => x = y
  BY <1>1, TrainIs
<1>5. ASSUME NEW c \in C, NEW e \in C PROVE c = e
  <2>1. PICK x \in b + 1 .. n : t1.stations[x] = t2.stations[i] /\ c = Change(t1, t2, s, b, x, i, d)
    BY <1>2, <1>3
  <2>2. PICK y \in b + 1 .. n : t1.stations[y] = t2.stations[i] /\ e = Change(t1, t2, s, b, y, i, d)
    BY <1>2, <1>3
  <2>3. x = y
    BY <1>4, <2>1, <2>2
  <2>. QED
    BY <2>1, <2>2, <2>3
<1>6. \A c : c \in C <=> \E x \in b + 1 .. n : /\ t1.stations[x] = t2.stations[i]
                                                /\ InTime(t2, i, ArrivalOn(t1, s, x))
                                                /\ c = Change(t1, t2, s, b, x, i, d)
  BY <1>2, <1>3
<1>. QED
  BY <1>5, <1>6 DEF C, n

\* All changes from t1, boarded at b, to t2, left at d.
AllChanges(t1, t2, date, b, d) ==
  IF t1.hash = t2.hash THEN {} ELSE UNION {Changes(t1, t2, date, b, i, d) : i \in 1 .. d - 1}

\* CheckTransfer goes through all stops of the second train before the destination.
LEMMA CheckIs ==
  ASSUME NEW t1 \in Catalogue, NEW t2 \in Catalogue, NEW date \in Int, NEW f, NEW g,
         NEW b, LeavesAt(t1, f, b), StartDay(t1, b, date) \in SaleDays(t1),
         NEW d, ArrivesAt(t2, g, d), NEW sol, NEW sortByTime
  PROVE  Checked(sol, CheckTransfer(sol, t1, t2, date, f, g, sortByTime),
                 AllChanges(t1, t2, date, b, d), sortByTime)
<1>1. /\ Len(t1.stations) \in Nat /\ Len(t2.stations) \in Nat
      /\ b \in 1 .. Len(t1.stations) - 1 /\ t1.stations[b] = f
      /\ d \in 2 .. Len(t2.stations) /\ t2.stations[d] = g
  BY TrainIs DEF LeavesAt, ArrivesAt
<1>2. (CHOOSE k \in Stops(t1) : t1.stations[k] = f) = b
  <2>1. b \in Stops(t1)
    BY <1>1 DEF Stops
  <2>2. \A k \in Stops(t1) : t1.stations[k] = f => k = b
    BY <1>1, <2>1, TrainIs
  <2>. QED
    BY <1>1, <2>1, <2>2
<1>3. (CHOOSE k \in Stops(t2) : t2.stations[k] = g) = d
  <2>1. d \in Stops(t2)
    BY <1>1 DEF Stops
  <2>2. \A k \in Stops(t2) : t2.stations[k] = g => k = d
    BY <1>1, <2>1, TrainIs
  <2>. QED
    BY <1>1, <2>1, <2>2
<1>. DEFINE Found(k) == Changes(t1, t2, date, b, d - k, d)
            All == UNION {Changes(t1, t2, date, b, i, d) : i \in 1 .. d - 1}
            S == {sol} \cup All
            F == [p \in (1 .. d - 1) \X S |-> Improved(p[2], Found(p[1]), sortByTime)]
            Is(u) == u = [k \in 0 .. d - 1 |-> IF k = 0 THEN sol ELSE Improved(u[k - 1], Found(k), sortByTime)]
            after == CHOOSE u : Is(u)
            Chosen(b1, d1) ==
              LET u1 == CHOOSE u : u = [k \in 0 .. d1 - 1 |->
                          IF k = 0 THEN sol
                          ELSE Improved(u[k - 1], Changes(t1, t2, date, b1, d1 - k, d1), sortByTime)]
              IN IF t1.hash = t2.hash THEN sol ELSE u1[d1 - 1]
<1>4. CheckTransfer(sol, t1, t2, date, f, g, sortByTime) = IF t1.hash = t2.hash THEN sol ELSE after[d - 1]
  <2>1. CheckTransfer(sol, t1, t2, date, f, g, sortByTime)
          = Chosen(CHOOSE k \in Stops(t1) : t1.stations[k] = f, CHOOSE k \in Stops(t2) : t2.stations[k] = g)
    BY DEF CheckTransfer
  <2>2. Chosen(b, d) = IF t1.hash = t2.hash THEN sol ELSE after[d - 1]
    OBVIOUS
  <2>. HIDE DEF Chosen, after
  <2>. QED
    BY <1>2, <1>3, <2>1, <2>2
<1>5. CASE t1.hash = t2.hash
  <2>1. CheckTransfer(sol, t1, t2, date, f, g, sortByTime) = sol /\ AllChanges(t1, t2, date, b, d) = {}
    BY <1>4, <1>5 DEF AllChanges
  <2>2. \A B : B \cup {} = B
    OBVIOUS
  <2>. QED
    BY <2>1, <2>2 DEF Checked
<1>6. CASE t1.hash # t2.hash
  <2>1. d \in Int /\ 0 <= d - 1 /\ 0 \in Int /\ d - 1 \in Int
    BY <1>1
  <2>2. ASSUME NEW k \in 1 .. d - 1 PROVE Found(k) \subseteq All /\ \A c, e \in Found(k) : c = e
    <3>1. d - k \in 1 .. d - 1 /\ d - k \in 1 .. Len(t2.stations) - 1
      BY <1>1
    <3>2. \A c, e \in Found(k) : c = e
      BY <1>1, <3>1, ChangesAre
    <3>. QED
      BY <3>1, <3>2
  <2>3. ASSUME NEW k \in 0 .. d - 1, NEW s \in S, k # 0
        PROVE  F[<<k, s>>] = Improved(s, Found(k), sortByTime) /\ F[<<k, s>>] \in S
    <3>1. k \in 1 .. d - 1
      BY <2>1, <2>3
    <3>2. F[<<k, s>>] = Improved(s, Found(k), sortByTime)
      BY <3>1
    <3>3. Improved(s, Found(k), sortByTime) \in {s} \cup Found(k)
      BY ImprovedIn
    <3>4. Found(k) \subseteq All
      BY <2>2, <3>1
    <3>. HIDE DEF Found, All, F
    <3>. QED
      BY <3>2, <3>3, <3>4
  <2>4. sol \in S
    OBVIOUS
  <2>5. \A c : c \in All <=> \E k \in 1 .. d - 1 : c \in Found(k)
    <3>1. \A k \in 1 .. d - 1 : d - k \in 1 .. d - 1 /\ d - (d - k) = k
      BY <2>1
    <3>2. ASSUME NEW c \in All PROVE \E k \in 1 .. d - 1 : c \in Found(k)
      <4>1. PICK i \in 1 .. d - 1 : c \in Changes(t1, t2, date, b, i, d)
        OBVIOUS
      <4>. QED
        BY <3>1, <4>1
    <3>. QED
      BY <2>2, <3>2
  <2>. HIDE DEF Found, F, S, All
  <2>6. PICK u : Recurs(u, 0, d - 1, sol, F) /\ \A k \in 0 .. d - 1 : u[k] \in S
    BY <2>1, <2>3, <2>4, Recursion
  <2>7. Is(u)
    <3>1. ASSUME NEW k \in 0 .. d - 1, k # 0 PROVE F[<<k, u[k - 1]>>] = Improved(u[k - 1], Found(k), sortByTime)
      <4>1. k - 1 \in 0 .. d - 1
        BY <2>1, <3>1
      <4>. QED
        BY <2>3, <2>6, <3>1, <4>1
    <3>. QED
      BY <2>6, <3>1 DEF Recurs
  <2>8. Is(after)
    BY <2>7
  <2>. HIDE DEF after
  <2>9. after[0] = sol /\ \A k \in 1 .. d - 1 : after[k] = Improved(after[k - 1], Found(k), sortByTime)
    <3>1. 0 \in 0 .. d - 1 /\ \A k \in 1 .. d - 1 : k \in 0 .. d - 1 /\ k # 0
      BY <2>1
    <3>. QED
      BY <2>8, <3>1
  <2>10. ASSUME NEW k \in 1 .. d - 1 PROVE Checked(after[k - 1], after[k], [m \in 1 .. d - 1 |-> Found(m)][k], sortByTime)
    <3>1. \A c, e \in Found(k) : c = e
      BY <2>2
    <3>2. Checked(after[k - 1], Improved(after[k - 1], Found(k), sortByTime), Found(k), sortByTime)
      BY <3>1, ImprovedChecks
    <3>. QED
      BY <2>9, <3>2
  <2>. DEFINE C == [m \in 1 .. d - 1 |-> Found(m)]
  <2>11. UNION {C[k] : k \in 1 .. d - 1} = All
    <3>1. \A c : c \in UNION {C[k] : k \in 1 .. d - 1} <=> \E k \in 1 .. d - 1 : c \in Found(k)
      OBVIOUS
    <3>. QED
      BY <2>5, <3>1
  <2>12. Checked(after[0], after[d - 1], UNION {C[k] : k \in 1 .. d - 1}, sortByTime)
    <3>1. d - 1 \in Nat
      BY <1>1
    <3>2. \A k \in 1 .. d - 1 : Checked(after[k - 1], after[k], C[k], sortByTime)
      BY <2>10
    <3>. HIDE DEF C
    <3>. QED
      BY <3>1, <3>2, LoopChecks
  <2>13. AllChanges(t1, t2, date, b, d) = All
    BY <1>6 DEF AllChanges, All
  <2>. HIDE DEF C
  <2>14. Checked(sol, after[d - 1], All, sortByTime)
    BY <2>9, <2>11, <2>12
  <2>. QED
    BY <1>4, <1>6, <2>13, <2>14
<1>. QED
  BY <1>5, <1>6

\* Released trains that leave f on a date of their sale, and that arrive at g.
Leaving(date, f) ==
  {t \in released : \E b \in Nat : LeavesAt(t, f, b) /\ StartDay(t, b, date) \in SaleDays(t)}
Arriving(g) == {t \in released : \E d \in Nat : ArrivesAt(t, g, d)}

\* hs lists the trains of T by their hashes.
ListsTrains(hs, T) ==
  /\ Len(hs) \in Nat
  /\ \A k \in 1 .. Len(hs) : \E t \in T : hs[k] = t.hash
  /\ \A t \in T : \E k \in 1 .. Len(hs) : hs[k] = t.hash

\* The trains of a list of records.
LEMMA TrainsListed ==
  ASSUME NEW S, NEW rs, ListsByTrain(rs, S), NEW T,
         \A r \in S : \E t \in T : r.train = t.hash,
         \A t \in T : \E r \in S : r.train = t.hash
  PROVE  ListsTrains([i \in DOMAIN rs |-> rs[i].train], T)
<1>1. /\ rs \in Seq(S) /\ Len(rs) \in Nat /\ DOMAIN rs = 1 .. Len(rs)
      /\ \A r \in S : \E a \in 1 .. Len(rs) : rs[a] = r
  BY DEF ListsByTrain
<1>2. PICK n \in Nat : n = Len(rs)
  BY <1>1
<1>. DEFINE hs == [i \in 1 .. n |-> rs[i].train]
<1>3. [i \in DOMAIN rs |-> rs[i].train] = hs
  BY <1>1, <1>2
<1>4. Len(hs) = n
  <2>1. hs \in [1 .. n -> {rs[i].train : i \in 1 .. n}]
    OBVIOUS
  <2>. HIDE DEF hs
  <2>. QED
    BY <2>1
<1>5. ASSUME NEW k \in 1 .. n PROVE \E t \in T : hs[k] = t.hash
  <2>1. rs[k] \in S
    BY <1>1, <1>2
  <2>2. hs[k] = rs[k].train
    OBVIOUS
  <2>. HIDE DEF hs
  <2>. QED
    BY <2>1, <2>2
<1>6. ASSUME NEW t \in T PROVE \E k \in 1 .. n : hs[k] = t.hash
  <2>1. PICK r \in S : r.train = t.hash
    OBVIOUS
  <2>2. PICK k \in 1 .. n : rs[k] = r
    BY <1>1, <1>2
  <2>3. hs[k] = rs[k].train
    OBVIOUS
  <2>. HIDE DEF hs
  <2>. QED
    BY <2>1, <2>2, <2>3
<1>. HIDE DEF hs
<1>. QED
  BY <1>3, <1>4, <1>5, <1>6 DEF ListsTrains

\* Both lists of query_transfer hold the trains they should.
LEMMA FetchesAre ==
  ASSUME RegisterInv, NEW date \in Int, NEW f, NEW g
  PROVE  /\ ListsTrains(FetchTrainLeavingFrom(date, f), Leaving(date, f))
         /\ ListsTrains(FetchTrainArriavingAt(g), Arriving(g))
<1>1. ASSUME NEW t \in released, NEW b \in Nat, LeavesAt(t, f, b)
      PROVE  /\ OnSale(Departure(t, b), date) <=> StartDay(t, b, date) \in SaleDays(t)
             /\ Departure(t, b).train = t.hash
  <2>1. /\ Departure(t, b).train = t.hash /\ Departure(t, b).startTime = t.startTime
        /\ Departure(t, b).offset = Offsets(t)[b].leave
        /\ Departure(t, b).beg = t.saleDate_beg /\ Departure(t, b).end = t.saleDate_end
    BY DEF Departure
  <2>. QED
    BY <2>1 DEF OnSale, DeltaDays, StartDay, SaleDays
<1>2. ListsTrains(FetchTrainLeavingFrom(date, f), Leaving(date, f))
  <2>. DEFINE S == {x \in register : x.station = f /\ x.type = Leave /\ OnSale(x, date)}
  <2>1. ListsByTrain(ByTrain(S), S)
    BY ByTrainLists
  <2>2. ASSUME NEW r \in S PROVE \E t \in Leaving(date, f) : r.train = t.hash
    <3>1. PICK t \in released, b \in Nat : LeavesAt(t, f, b) /\ r = Departure(t, b)
      BY RegisterIs
    <3>2. t \in Leaving(date, f) /\ r.train = t.hash
      BY <1>1, <2>2, <3>1 DEF Leaving
    <3>. QED
      BY <3>2
  <2>3. ASSUME NEW t \in Leaving(date, f) PROVE \E r \in S : r.train = t.hash
    <3>1. PICK b \in Nat : LeavesAt(t, f, b) /\ StartDay(t, b, date) \in SaleDays(t)
      BY DEF Leaving
    <3>2. t \in released
      BY DEF Leaving
    <3>3. Departure(t, b) \in S /\ Departure(t, b).train = t.hash
      BY <1>1, <3>1, <3>2, RegisterIs
    <3>. QED
      BY <3>3
  <2>. HIDE DEF S
  <2>4. ListsTrains([i \in DOMAIN ByTrain(S) |-> ByTrain(S)[i].train], Leaving(date, f))
    BY <2>1, <2>2, <2>3, TrainsListed
  <2>. QED
    BY <2>4 DEF FetchTrainLeavingFrom, S
<1>3. ListsTrains(FetchTrainArriavingAt(g), Arriving(g))
  <2>. DEFINE S == {r \in register : r.station = g /\ r.type = Arrive}
  <2>1. ListsByTrain(Records(g, Arrive), S)
    BY RecordsAre
  <2>2. ASSUME NEW r \in S PROVE \E t \in Arriving(g) : r.train = t.hash
    <3>1. PICK t \in released, d \in Nat : ArrivesAt(t, g, d) /\ r = Arrival(t, d)
      BY RegisterIs
    <3>. QED
      BY <3>1 DEF Arriving, Arrival
  <2>3. ASSUME NEW t \in Arriving(g) PROVE \E r \in S : r.train = t.hash
    <3>1. PICK d \in Nat : ArrivesAt(t, g, d)
      BY DEF Arriving
    <3>2. t \in released
      BY DEF Arriving
    <3>3. Arrival(t, d) \in S /\ Arrival(t, d).train = t.hash
      BY <3>1, <3>2, RegisterIs DEF Arrival
    <3>. QED
      BY <3>3
  <2>. HIDE DEF S
  <2>4. ListsTrains([i \in DOMAIN Records(g, Arrive) |-> Records(g, Arrive)[i].train], Arriving(g))
    BY <2>1, <2>2, <2>3, TrainsListed
  <2>. QED
    BY <2>4 DEF FetchTrainArriavingAt
<1>. QED
  BY <1>2, <1>3

\* The changes of two trains on the way from f to g, and all changes there are.
PairChanges(t1, t2, date, f, g) ==
  UNION {AllChanges(t1, t2, date, k[1], k[2]) :
           k \in {m \in Nat \X Nat : LeavesAt(t1, f, m[1]) /\ ArrivesAt(t2, g, m[2])}}
ChangesFrom(t1, date, f, g) == UNION {PairChanges(t1, t2, date, f, g) : t2 \in Arriving(g)}
Found(date, f, g) == UNION {ChangesFrom(t1, date, f, g) : t1 \in Leaving(date, f)}

\* What CheckTransfer does for two trains of the lists.
LEMMA PairIsChecked ==
  ASSUME RegisterInv, NEW date \in Int, NEW f, NEW g, NEW t1 \in Leaving(date, f), NEW t2 \in Arriving(g),
         NEW sol, NEW sortByTime
  PROVE  Checked(sol, CheckTransfer(sol, t1, t2, date, f, g, sortByTime),
                 PairChanges(t1, t2, date, f, g), sortByTime)
<1>1. t1 \in Catalogue /\ t2 \in Catalogue
  BY DEF RegisterInv, Leaving, Arriving
<1>2. PICK b \in Nat : LeavesAt(t1, f, b) /\ StartDay(t1, b, date) \in SaleDays(t1)
  BY DEF Leaving
<1>3. PICK d \in Nat : ArrivesAt(t2, g, d)
  BY DEF Arriving
<1>4. \A t \in Catalogue : \A i, j \in Stops(t) : t.stations[i] = t.stations[j] => i = j
  BY TrainIs
<1>5. \A k \in Nat \X Nat : LeavesAt(t1, f, k[1]) /\ ArrivesAt(t2, g, k[2]) <=> k = <<b, d>>
  <2>1. Len(t1.stations) \in Nat /\ Len(t2.stations) \in Nat
    BY <1>1, TrainIs
  <2>2. ASSUME NEW c, LeavesAt(t1, f, c) PROVE c = b
    <3>1. c \in Stops(t1) /\ b \in Stops(t1) /\ t1.stations[c] = t1.stations[b]
      BY <1>2, <2>1, <2>2 DEF LeavesAt, Stops
    <3>. QED
      BY <1>1, <1>4, <3>1
  <2>3. ASSUME NEW c, ArrivesAt(t2, g, c) PROVE c = d
    <3>1. c \in Stops(t2) /\ d \in Stops(t2) /\ t2.stations[c] = t2.stations[d]
      BY <1>3, <2>1, <2>3 DEF ArrivesAt, Stops
    <3>. QED
      BY <1>1, <1>4, <3>1
  <2>. QED
    BY <1>2, <1>3, <2>2, <2>3
<1>6. PairChanges(t1, t2, date, f, g) = AllChanges(t1, t2, date, b, d)
  <2>1. {m \in Nat \X Nat : LeavesAt(t1, f, m[1]) /\ ArrivesAt(t2, g, m[2])} = {<<b, d>>}
    BY <1>5
  <2>2. {AllChanges(t1, t2, date, k[1], k[2]) : k \in {<<b, d>>}} = {AllChanges(t1, t2, date, b, d)}
    OBVIOUS
  <2>3. PairChanges(t1, t2, date, f, g) = UNION {AllChanges(t1, t2, date, b, d)}
    BY <2>1, <2>2 DEF PairChanges
  <2>. QED
    BY <2>3
<1>. QED
  BY <1>1, <1>2, <1>3, <1>6, CheckIs

\* The inner loop of query_transfer.
Inner(sol, h1, date, f, g, sortByTime) ==
  LET trains2 == FetchTrainArriavingAt(g)
      inner[m \in 0 .. Len(trains2)] ==
        IF m = 0 THEN sol
        ELSE CheckTransfer(inner[m - 1], TrainOf(h1), TrainOf(trains2[m]), date, f, g, sortByTime)
  IN inner[Len(trains2)]

\* Round k of a loop makes F[<<k, s>>] of s and looks at the changes C[k]; S
\* has the solutions it can have.
RoundsCheck(F, n, S, sol, C, sortByTime) ==
  /\ S = {sol} \cup UNION {C[k] : k \in 1 .. n}
  /\ \A k \in 1 .. n, s \in S : Checked(s, F[<<k, s>>], C[k], sortByTime)
Loops(F, n, S, sol) == \E u : Recurs(u, 0, n, sol, F) /\ \A k \in 0 .. n : u[k] \in S

\* Such a loop is a recursive function.
LEMMA LoopExists ==
  ASSUME NEW n \in Nat, NEW sol, NEW C, NEW sortByTime, NEW S, NEW F,
         RoundsCheck(F, n, S, sol, C, sortByTime)
  PROVE  Loops(F, n, S, sol)
<1>1. ASSUME NEW k \in 1 .. n, NEW s \in S PROVE F[<<k, s>>] \in S
  <2>1. F[<<k, s>>] \in {s} \cup C[k]
    BY DEF Checked, RoundsCheck
  <2>. QED
    BY <2>1 DEF RoundsCheck
<1>2. \A k \in 0 .. n, s \in S : k # 0 => F[<<k, s>>] \in S
  <2>1. \A k \in 0 .. n : k # 0 => k \in 1 .. n
    OBVIOUS
  <2>. QED
    BY <1>1, <2>1
<1>3. sol \in S /\ 0 \in Int /\ n \in Int /\ 0 <= n
  BY DEF RoundsCheck
<1>4. \E u : Recurs(u, 0, n, sol, F) /\ \A k \in 0 .. n : u[k] \in S
  BY ONLY <1>2, <1>3, Recursion
<1>. QED
  BY <1>4 DEF Loops

\* The inner loop looks at the changes from one train to all others.
LEMMA InnerIs ==
  ASSUME RegisterInv, NEW date \in Int, NEW f, NEW g, NEW t1 \in Leaving(date, f), NEW sol, NEW sortByTime
  PROVE  Checked(sol, Inner(sol, t1.hash, date, f, g, sortByTime), ChangesFrom(t1, date, f, g), sortByTime)
<1>. DEFINE hs == FetchTrainArriavingAt(g)
            n == Len(hs)
            C == [k \in 1 .. n |-> PairChanges(t1, TrainOf(hs[k]), date, f, g)]
            S == {sol} \cup UNION {C[k] : k \in 1 .. n}
            F == [p \in (1 .. n) \X S |-> CheckTransfer(p[2], t1, TrainOf(hs[p[1]]), date, f, g, sortByTime)]
            Is(u) == u = [k \in 0 .. n |-> IF k = 0 THEN sol
                            ELSE CheckTransfer(u[k - 1], TrainOf(t1.hash), TrainOf(hs[k]), date, f, g, sortByTime)]
            inner == CHOOSE u : Is(u)
<1>1. n \in Nat /\ ListsTrains(hs, Arriving(g))
  BY FetchesAre DEF ListsTrains
<1>2. Inner(sol, t1.hash, date, f, g, sortByTime) = inner[n]
  BY DEF Inner
<1>3. TrainOf(t1.hash) = t1
  BY TrainOfIs DEF Leaving
<1>4. ASSUME NEW k \in 1 .. n PROVE TrainOf(hs[k]) \in Arriving(g)
  <2>1. PICK t \in Arriving(g) : hs[k] = t.hash
    BY <1>1 DEF ListsTrains
  <2>2. TrainOf(t.hash) = t
    BY TrainOfIs DEF Arriving
  <2>. QED
    BY <2>1, <2>2
<1>. HIDE DEF hs, S
<1>5. ASSUME NEW k \in 1 .. n, NEW s \in S
      PROVE  /\ F[<<k, s>>] = CheckTransfer(s, t1, TrainOf(hs[k]), date, f, g, sortByTime)
             /\ Checked(s, F[<<k, s>>], C[k], sortByTime)
  <2>1. F[<<k, s>>] = CheckTransfer(s, t1, TrainOf(hs[k]), date, f, g, sortByTime)
    OBVIOUS
  <2>2. C[k] = PairChanges(t1, TrainOf(hs[k]), date, f, g)
    OBVIOUS
  <2>. HIDE DEF F, C
  <2>. QED
    BY <1>4, <2>1, <2>2, PairIsChecked
<1>. HIDE DEF F
<1>6. S = {sol} \cup UNION {C[k] : k \in 1 .. n}
  BY DEF S
<1>7. UNION {C[k] : k \in 1 .. n} = ChangesFrom(t1, date, f, g)
  <2>1. ASSUME NEW t \in Arriving(g) PROVE \E k \in 1 .. n : TrainOf(hs[k]) = t
    <3>1. PICK k \in 1 .. n : hs[k] = t.hash
      BY <1>1 DEF ListsTrains
    <3>2. TrainOf(t.hash) = t
      BY TrainOfIs DEF Arriving
    <3>. QED
      BY <3>1, <3>2
  <2>2. \A x : x \in UNION {C[k] : k \in 1 .. n}
                 <=> \E k \in 1 .. n : x \in PairChanges(t1, TrainOf(hs[k]), date, f, g)
    OBVIOUS
  <2>3. \A x : x \in ChangesFrom(t1, date, f, g) <=> \E t \in Arriving(g) : x \in PairChanges(t1, t, date, f, g)
    BY DEF ChangesFrom
  <2>4. \A x : (\E k \in 1 .. n : x \in PairChanges(t1, TrainOf(hs[k]), date, f, g))
                 <=> \E t \in Arriving(g) : x \in PairChanges(t1, t, date, f, g)
    BY <1>4, <2>1
  <2>. HIDE DEF C
  <2>. QED
    BY <2>2, <2>3, <2>4
<1>. HIDE DEF C, n
<1>8. PICK u : Recurs(u, 0, n, sol, F) /\ \A k \in 0 .. n : u[k] \in S
  <2>1. RoundsCheck(F, n, S, sol, C, sortByTime)
    BY <1>1, <1>5, <1>6 DEF RoundsCheck
  <2>2. Loops(F, n, S, sol)
    BY <1>1, <2>1, LoopExists
  <2>. QED
    BY <2>2 DEF Loops
<1>9. Is(u)
  <2>1. ASSUME NEW k \in 0 .. n, k # 0
        PROVE  F[<<k, u[k - 1]>>] = CheckTransfer(u[k - 1], TrainOf(t1.hash), TrainOf(hs[k]), date, f, g, sortByTime)
    <3>1. k \in 1 .. n /\ k - 1 \in 0 .. n
      BY <1>1, <2>1
    <3>. QED
      BY <1>3, <1>5, <1>8, <3>1
  <2>. QED
    BY <1>8, <2>1 DEF Recurs
<1>10. Is(inner)
  BY <1>9
<1>. HIDE DEF inner
<1>11. /\ inner[0] = sol
       /\ \A k \in 1 .. n : inner[k] = CheckTransfer(inner[k - 1], t1, TrainOf(hs[k]), date, f, g, sortByTime)
  <2>1. 0 \in 0 .. n /\ \A k \in 1 .. n : k \in 0 .. n /\ k # 0
    BY <1>1
  <2>. QED
    BY <1>3, <1>10, <2>1
<1>12. ASSUME NEW k \in 1 .. n PROVE Checked(inner[k - 1], inner[k], C[k], sortByTime)
  <2>1. C[k] = PairChanges(t1, TrainOf(hs[k]), date, f, g)
    BY DEF C
  <2>2. Checked(inner[k - 1], CheckTransfer(inner[k - 1], t1, TrainOf(hs[k]), date, f, g, sortByTime),
                PairChanges(t1, TrainOf(hs[k]), date, f, g), sortByTime)
    BY <1>4, PairIsChecked
  <2>. QED
    BY <1>11, <2>1, <2>2
<1>13. Checked(inner[0], inner[n], UNION {C[k] : k \in 1 .. n}, sortByTime)
  BY <1>1, <1>12, LoopChecks
<1>. QED
  BY <1>2, <1>7, <1>11, <1>13 DEF n

\* query_transfer looks at all changes there are.
LEMMA TransferChecks ==
  ASSUME RegisterInv, NEW date \in Int, NEW f, NEW g, NEW sortByTime
  PROVE  Checked(NoTransfer, QueryTransfer(date, f, g, sortByTime), Found(date, f, g), sortByTime)
<1>. DEFINE hs == FetchTrainLeavingFrom(date, f)
            n == Len(hs)
            C == [k \in 1 .. n |-> ChangesFrom(TrainOf(hs[k]), date, f, g)]
            S == {NoTransfer} \cup UNION {C[k] : k \in 1 .. n}
            F == [p \in (1 .. n) \X S |-> Inner(p[2], hs[p[1]], date, f, g, sortByTime)]
            Is(u) == u = [k \in 0 .. n |-> IF k = 0 THEN NoTransfer
                                           ELSE Inner(u[k - 1], hs[k], date, f, g, sortByTime)]
            outer == CHOOSE u : Is(u)
<1>1. n \in Nat /\ ListsTrains(hs, Leaving(date, f))
  <2>1. ListsTrains(hs, Leaving(date, f)) /\ ListsTrains(FetchTrainArriavingAt(g), Arriving(g))
    BY FetchesAre
  <2>. QED
    BY <2>1 DEF ListsTrains
<1>2. QueryTransfer(date, f, g, sortByTime) = outer[n]
  BY DEF QueryTransfer, Inner
<1>3. ASSUME NEW k \in 1 .. n
      PROVE  TrainOf(hs[k]) \in Leaving(date, f) /\ TrainOf(hs[k]).hash = hs[k]
  <2>1. PICK t \in Leaving(date, f) : hs[k] = t.hash
    BY <1>1 DEF ListsTrains
  <2>2. TrainOf(t.hash) = t
    BY TrainOfIs DEF Leaving
  <2>. QED
    BY <2>1, <2>2
<1>. HIDE DEF hs, S
<1>4. ASSUME NEW k \in 1 .. n, NEW s
      PROVE  Checked(s, Inner(s, hs[k], date, f, g, sortByTime), C[k], sortByTime)
  <2>1. C[k] = ChangesFrom(TrainOf(hs[k]), date, f, g)
    OBVIOUS
  <2>2. PICK t \in Leaving(date, f) : t = TrainOf(hs[k]) /\ t.hash = hs[k]
    BY <1>3
  <2>3. Checked(s, Inner(s, t.hash, date, f, g, sortByTime), ChangesFrom(t, date, f, g), sortByTime)
    BY InnerIs
  <2>. HIDE DEF C
  <2>. QED
    BY <2>1, <2>2, <2>3
<1>5. ASSUME NEW k \in 1 .. n, NEW s \in S
      PROVE  F[<<k, s>>] = Inner(s, hs[k], date, f, g, sortByTime)
  OBVIOUS
<1>. HIDE DEF F
<1>6. S = {NoTransfer} \cup UNION {C[k] : k \in 1 .. n}
  BY DEF S
<1>7. UNION {C[k] : k \in 1 .. n} = Found(date, f, g)
  <2>1. ASSUME NEW t \in Leaving(date, f) PROVE \E k \in 1 .. n : TrainOf(hs[k]) = t
    <3>1. PICK k \in 1 .. n : hs[k] = t.hash
      BY <1>1 DEF ListsTrains
    <3>2. TrainOf(t.hash) = t
      BY TrainOfIs DEF Leaving
    <3>. QED
      BY <3>1, <3>2
  <2>2. \A x : x \in UNION {C[k] : k \in 1 .. n}
                 <=> \E k \in 1 .. n : x \in ChangesFrom(TrainOf(hs[k]), date, f, g)
    OBVIOUS
  <2>3. \A x : x \in Found(date, f, g) <=> \E t \in Leaving(date, f) : x \in ChangesFrom(t, date, f, g)
    BY DEF Found
  <2>4. \A x : (\E k \in 1 .. n : x \in ChangesFrom(TrainOf(hs[k]), date, f, g))
                 <=> \E t \in Leaving(date, f) : x \in ChangesFrom(t, date, f, g)
    BY <1>3, <2>1
  <2>. HIDE DEF C
  <2>. QED
    BY <2>2, <2>3, <2>4
<1>. HIDE DEF C, n
<1>8. PICK u : Recurs(u, 0, n, NoTransfer, F) /\ \A k \in 0 .. n : u[k] \in S
  <2>1. RoundsCheck(F, n, S, NoTransfer, C, sortByTime)
    BY <1>1, <1>4, <1>5, <1>6 DEF RoundsCheck
  <2>2. Loops(F, n, S, NoTransfer)
    BY <1>1, <2>1, LoopExists
  <2>. QED
    BY <2>2 DEF Loops
<1>9. Is(u)
  <2>1. ASSUME NEW k \in 0 .. n, k # 0
        PROVE  F[<<k, u[k - 1]>>] = Inner(u[k - 1], hs[k], date, f, g, sortByTime)
    <3>1. k \in 1 .. n /\ k - 1 \in 0 .. n
      BY <1>1, <2>1
    <3>. QED
      BY <1>5, <1>8, <3>1
  <2>. QED
    BY <1>8, <2>1 DEF Recurs
<1>10. Is(outer)
  BY <1>9
<1>. HIDE DEF outer
<1>11. /\ outer[0] = NoTransfer
       /\ \A k \in 1 .. n : outer[k] = Inner(outer[k - 1], hs[k], date, f, g, sortByTime)
  <2>1. 0 \in 0 .. n /\ \A k \in 1 .. n : k \in 0 .. n /\ k # 0
    BY <1>1
  <2>. QED
    BY <1>10, <2>1
<1>12. ASSUME NEW k \in 1 .. n PROVE Checked(outer[k - 1], outer[k], C[k], sortByTime)
  BY <1>4, <1>11
<1>13. Checked(outer[0], outer[n], UNION {C[k] : k \in 1 .. n}, sortByTime)
  BY <1>1, <1>12, LoopChecks
<1>. QED
  BY <1>2, <1>7, <1>11, <1>13 DEF n

\* Train t1 leaves f on date at its stop b and stops at x, where t2 has its stop
\* i and leaves after that on some day; t2 stops at g afterwards, its stop d.
Connects(t1, b, x, t2, i, d, date, f, g) ==
  /\ t1.hash # t2.hash
  /\ LeavesAt(t1, f, b) /\ StartDay(t1, b, date) \in SaleDays(t1)
  /\ ArrivesAt(t2, g, d)
  /\ x \in b + 1 .. Len(t1.stations) /\ i \in 1 .. d - 1
  /\ t1.stations[x] = t2.stations[i]
  /\ InTime(t2, i, ArrivalOn(t1, StartDay(t1, b, date), x))

IsConnection(c, date, f, g) ==
  \E t1, t2 \in released, b, x, i, d \in Nat :
    Connects(t1, b, x, t2, i, d, date, f, g) /\ c = Change(t1, t2, StartDay(t1, b, date), b, x, i, d)

\* The changes that are looked at are these.
LEMMA FoundAre ==
  ASSUME RegisterInv, NEW date \in Int, NEW f, NEW g, NEW c
  PROVE  c \in Found(date, f, g) <=> IsConnection(c, date, f, g)
<1>1. ASSUME NEW t \in released
      PROVE  t \in Catalogue /\ Len(t.stations) \in Nat
  BY TrainIs DEF RegisterInv
<1>2. ASSUME NEW t1 \in released, NEW t2 \in released, NEW b \in Nat, NEW d \in Nat, NEW i \in 1 .. d - 1,
             LeavesAt(t1, f, b), StartDay(t1, b, date) \in SaleDays(t1), ArrivesAt(t2, g, d)
      PROVE  c \in Changes(t1, t2, date, b, i, d)
               <=> \E x \in b + 1 .. Len(t1.stations) :
                     /\ t1.stations[x] = t2.stations[i]
                     /\ InTime(t2, i, ArrivalOn(t1, StartDay(t1, b, date), x))
                     /\ c = Change(t1, t2, StartDay(t1, b, date), b, x, i, d)
  <2>1. b \in 1 .. Len(t1.stations) - 1 /\ i \in 1 .. Len(t2.stations) - 1
    BY <1>1, <1>2 DEF LeavesAt, ArrivesAt
  <2>. QED
    BY <1>1, <1>2, <2>1, ChangesAre
<1>3. c \in Found(date, f, g)
        <=> \E t1 \in Leaving(date, f), t2 \in Arriving(g), b \in Nat, d \in Nat :
              /\ LeavesAt(t1, f, b) /\ ArrivesAt(t2, g, d)
              /\ t1.hash # t2.hash /\ \E i \in 1 .. d - 1 : c \in Changes(t1, t2, date, b, i, d)
  <2>1. \A t1, t2 : c \in PairChanges(t1, t2, date, f, g)
          <=> \E b \in Nat, d \in Nat :
                LeavesAt(t1, f, b) /\ ArrivesAt(t2, g, d) /\ c \in AllChanges(t1, t2, date, b, d)
    <3>1. ASSUME NEW t1, NEW t2, c \in PairChanges(t1, t2, date, f, g)
          PROVE  \E b \in Nat, d \in Nat :
                   LeavesAt(t1, f, b) /\ ArrivesAt(t2, g, d) /\ c \in AllChanges(t1, t2, date, b, d)
      <4>1. PICK k \in Nat \X Nat : /\ LeavesAt(t1, f, k[1]) /\ ArrivesAt(t2, g, k[2])
                                    /\ c \in AllChanges(t1, t2, date, k[1], k[2])
        BY <3>1 DEF PairChanges
      <4>2. k[1] \in Nat /\ k[2] \in Nat
        OBVIOUS
      <4>. QED
        BY <4>1, <4>2
    <3>2. ASSUME NEW t1, NEW t2, NEW b \in Nat, NEW d \in Nat, LeavesAt(t1, f, b), ArrivesAt(t2, g, d),
                 c \in AllChanges(t1, t2, date, b, d)
          PROVE  c \in PairChanges(t1, t2, date, f, g)
      <4>1. <<b, d>> \in Nat \X Nat /\ <<b, d>>[1] = b /\ <<b, d>>[2] = d
        OBVIOUS
      <4>. QED
        BY <3>2, <4>1 DEF PairChanges
    <3>. QED
      BY <3>1, <3>2
  <2>2. \A t1, t2, b, d : c \in AllChanges(t1, t2, date, b, d)
          <=> t1.hash # t2.hash /\ \E i \in 1 .. d - 1 : c \in Changes(t1, t2, date, b, i, d)
    BY DEF AllChanges
  <2>3. c \in Found(date, f, g)
          <=> \E t1 \in Leaving(date, f), t2 \in Arriving(g) : c \in PairChanges(t1, t2, date, f, g)
    BY DEF Found, ChangesFrom
  <2>. QED
    BY <2>1, <2>2, <2>3
<1>4. ASSUME c \in Found(date, f, g) PROVE IsConnection(c, date, f, g)
  <2>1. PICK t1 \in Leaving(date, f), t2 \in Arriving(g), b \in Nat, d \in Nat :
              /\ LeavesAt(t1, f, b) /\ ArrivesAt(t2, g, d)
              /\ t1.hash # t2.hash /\ \E i \in 1 .. d - 1 : c \in Changes(t1, t2, date, b, i, d)
    BY <1>3, <1>4
  <2>2. PICK i \in 1 .. d - 1 : c \in Changes(t1, t2, date, b, i, d)
    BY <2>1
  <2>3. t1 \in released /\ t2 \in released
    BY DEF Leaving, Arriving
  <2>4. StartDay(t1, b, date) \in SaleDays(t1)
    <3>1. PICK k \in Nat : LeavesAt(t1, f, k) /\ StartDay(t1, k, date) \in SaleDays(t1)
      BY DEF Leaving
    <3>2. k = b
      <4>1. k \in Stops(t1) /\ b \in Stops(t1) /\ t1.stations[k] = t1.stations[b]
        BY <1>1, <2>1, <2>3, <3>1 DEF LeavesAt, Stops
      <4>. QED
        BY <1>1, <2>3, <4>1, TrainIs
    <3>. QED
      BY <3>1, <3>2
  <2>5. PICK x \in b + 1 .. Len(t1.stations) :
                     /\ t1.stations[x] = t2.stations[i]
                     /\ InTime(t2, i, ArrivalOn(t1, StartDay(t1, b, date), x))
                     /\ c = Change(t1, t2, StartDay(t1, b, date), b, x, i, d)
    BY <1>2, <2>1, <2>2, <2>3, <2>4
  <2>6. x \in Nat /\ i \in Nat
    BY <1>1, <2>3
  <2>7. Connects(t1, b, x, t2, i, d, date, f, g)
    BY <2>1, <2>4, <2>5 DEF Connects
  <2>. QED
    BY <2>3, <2>5, <2>6, <2>7 DEF IsConnection
<1>5. ASSUME IsConnection(c, date, f, g) PROVE c \in Found(date, f, g)
  <2>1. PICK t1 \in released, t2 \in released, b \in Nat, x \in Nat, i \in Nat, d \in Nat :
          /\ Connects(t1, b, x, t2, i, d, date, f, g)
          /\ c = Change(t1, t2, StartDay(t1, b, date), b, x, i, d)
    BY <1>5 DEF IsConnection
  <2>2. /\ t1.hash # t2.hash /\ LeavesAt(t1, f, b) /\ StartDay(t1, b, date) \in SaleDays(t1)
        /\ ArrivesAt(t2, g, d) /\ x \in b + 1 .. Len(t1.stations) /\ i \in 1 .. d - 1
        /\ t1.stations[x] = t2.stations[i] /\ InTime(t2, i, ArrivalOn(t1, StartDay(t1, b, date), x))
    BY <2>1 DEF Connects
  <2>3. c \in Changes(t1, t2, date, b, i, d)
    BY <1>2, <2>1, <2>2
  <2>4. t1 \in Leaving(date, f) /\ t2 \in Arriving(g)
    BY <2>2 DEF Leaving, Arriving
  <2>. QED
    BY <1>3, <2>2, <2>3, <2>4
<1>. QED
  BY <1>4, <1>5

-----------------------------------------------------------------------------
(* Transfers and journeys *)

\* What query_ticket lists for train t from stop i, left on date, to stop j.
Ticket(t, date, i, j) == WithPriceAndSeats(Run(t, StartDay(t, i, date), i, j))

\* It leaves on date; its times, price and train are those of the ride.
LEMMA TicketIs ==
  ASSUME RegisterInv, NEW date \in Int, NEW f, NEW g,
         NEW t \in released, NEW i \in Nat, NEW j \in Nat, Goes(t, i, j, date, f, g)
  PROVE  LET w == Ticket(t, date, i, j)
         IN /\ w.train = t.hash /\ TrainOf(w.train) = t /\ w.from = i /\ w.to = j
            /\ w.leave = DepartureOn(t, StartDay(t, i, date), i) /\ w.leave \in Int
            /\ w.arrive = ArrivalOn(t, StartDay(t, i, date), j) /\ w.arrive \in Int
            /\ w.price = Sum(t.price, i, j - 1) /\ w.price \in Int
            /\ w.leave \div Day = date
<1>. DEFINE s == StartDay(t, i, date)
            e == Run(t, s, i, j)
            w == WithPriceAndSeats(e)
<1>1. /\ t \in Catalogue /\ LeavesAt(t, f, i) /\ ArrivesAt(t, g, j)
      /\ i \in 1 .. Len(t.stations) - 1 /\ j \in 2 .. Len(t.stations)
  BY DEF RegisterInv, Goes, LeavesAt, ArrivesAt
<1>2. /\ w.train = t.hash /\ w.leave = e.leave /\ w.arrive = e.arrive
      /\ w.price = Sum(t.price, i, j - 1) /\ w.price \in Int
  BY RideIs
<1>3. w.from = i /\ w.to = j
  BY DEF WithPriceAndSeats, Run
<1>4. e.leave = DepartureOn(t, s, i) /\ e.arrive = ArrivalOn(t, s, j)
  BY DEF Run, DepartureOn, ArrivalOn
<1>. HIDE DEF w, e
<1>5. s \in Int /\ Offsets(t)[i].leave \in Nat /\ t.startTime \in Nat
  BY <1>1, TimesAre
<1>6. DepartureOn(t, s, i) \in Int /\ ArrivalOn(t, s, j) \in Int
  BY <1>1, <1>5, SaleIs
<1>7. DepartureOn(t, s, i) \div Day = date
  <2>1. PICK y \in Nat : y = t.startTime + Offsets(t)[i].leave
    BY <1>5
  <2>2. DepartureOn(t, s, i) = s * Day + y
    <3>1. PICK z \in Int : z = s * Day
      BY <1>5 DEF Day
    <3>. QED
      BY <1>5, <2>1, <3>1 DEF DepartureOn
  <2>3. DepartureOn(t, s, i) \div Day = s + y \div Day
    BY <1>5, <2>2, DayOf
  <2>4. s = date - y \div Day /\ y \div Day \in Int
    BY <2>1 DEF StartDay, Day
  <2>. QED
    BY <2>3, <2>4
<1>8. TrainOf(t.hash) = t
  BY TrainOfIs
<1>9. Ticket(t, date, i, j) = w
  BY DEF Ticket, w, e
<1>. QED
  BY <1>2, <1>3, <1>4, <1>6, <1>7, <1>8, <1>9

\* On the day on which t leaves stop i, if it starts on day s, it starts on day s.
LEMMA StartsOn ==
  ASSUME NEW t \in Catalogue, NEW i \in 1 .. Len(t.stations) - 1, NEW s \in Int
  PROVE  /\ DepartureOn(t, s, i) \div Day \in Int
         /\ StartDay(t, i, DepartureOn(t, s, i) \div Day) = s
<1>1. PICK y \in Nat : y = t.startTime + Offsets(t)[i].leave
  <2>1. Offsets(t)[i].leave \in Nat
    BY OffsetsGrow
  <2>2. t.startTime \in Nat
    <3>1. Day - 1 \in Int
      BY DEF Day
    <3>. QED
      BY <3>1, TrainIs
  <2>. QED
    BY <2>1, <2>2
<1>2. DepartureOn(t, s, i) = s * Day + y
  <2>1. Offsets(t)[i].leave \in Int
    BY OffsetsGrow
  <2>2. t.startTime \in Int
    BY SaleIs
  <2>3. PICK z \in Int : z = s * Day
    BY DEF Day
  <2>. QED
    BY <1>1, <2>1, <2>2, <2>3 DEF DepartureOn
<1>3. DepartureOn(t, s, i) \div Day = s + y \div Day
  BY <1>2, DayOf
<1>4. y \div Day \in Int
  BY DEF Day
<1>5. StartDay(t, i, DepartureOn(t, s, i) \div Day) = DepartureOn(t, s, i) \div Day - y \div Day
  BY <1>1 DEF StartDay
<1>. QED
  BY <1>3, <1>4, <1>5

\* Two rides with a change at y.
Legal(t1, b, x, t2, i, d, date, next, f, y, g) ==
  /\ t1.hash # t2.hash
  /\ Goes(t1, b, x, date, f, y) /\ Goes(t2, i, d, next, y, g)
  /\ ArrivalOn(t1, StartDay(t1, b, date), x) <= DepartureOn(t2, StartDay(t2, i, next), i)

\* The change that query_transfer finds is a change between two tickets.
LEMMA ConnectionIsLegal ==
  ASSUME RegisterInv, NEW date \in Int, NEW f, NEW g, NEW t1 \in released, NEW t2 \in released,
         NEW b \in Nat, NEW x \in Nat, NEW i \in Nat, NEW d \in Nat,
         Connects(t1, b, x, t2, i, d, date, f, g)
  PROVE  \E next \in Int :
           /\ Legal(t1, b, x, t2, i, d, date, next, f, t2.stations[i], g)
           /\ StartDay(t2, i, next) = SecondDay(t2, i, ArrivalOn(t1, StartDay(t1, b, date), x))
           /\ Change(t1, t2, StartDay(t1, b, date), b, x, i, d)
                = Transfer(Ticket(t1, date, b, x), Ticket(t2, next, i, d))
<1>. DEFINE s1 == StartDay(t1, b, date)
            s2 == SecondDay(t2, i, ArrivalOn(t1, s1, x))
            next == DepartureOn(t2, s2, i) \div Day
            y == t2.stations[i]
<1>1. /\ t1 \in Catalogue /\ t2 \in Catalogue
      /\ Len(t1.stations) \in Nat /\ Len(t2.stations) \in Nat
  BY TrainIs DEF RegisterInv
<1>2. /\ t1.hash # t2.hash /\ LeavesAt(t1, f, b) /\ s1 \in SaleDays(t1)
      /\ ArrivesAt(t2, g, d) /\ x \in b + 1 .. Len(t1.stations) /\ i \in 1 .. d - 1
      /\ t1.stations[x] = y /\ InTime(t2, i, ArrivalOn(t1, s1, x))
  BY DEF Connects
<1>3. /\ b \in 1 .. Len(t1.stations) - 1 /\ x \in 2 .. Len(t1.stations) /\ b < x
      /\ i \in 1 .. Len(t2.stations) - 1 /\ d \in 2 .. Len(t2.stations) /\ i < d
  BY <1>1, <1>2 DEF LeavesAt, ArrivesAt
<1>4. s1 \in Int /\ \A s \in SaleDays(t2) : s \in Int
  BY <1>2 DEF SaleDays
<1>5. ArrivalOn(t1, s1, x) \in Int
  BY <1>1, <1>3, <1>4, SaleIs
<1>6. s2 \in SaleDays(t2) /\ ArrivalOn(t1, s1, x) <= DepartureOn(t2, s2, i)
  BY <1>1, <1>2, <1>3, <1>5, SecondDayIs
<1>. HIDE DEF s2, y
<1>7. next \in Int /\ StartDay(t2, i, next) = s2
  BY <1>1, <1>3, <1>4, <1>6, StartsOn
<1>. HIDE DEF next
<1>8. Goes(t1, b, x, date, f, y)
  BY <1>2, <1>3 DEF Goes, ArrivesAt
<1>9. Goes(t2, i, d, next, y, g)
  BY <1>2, <1>3, <1>6, <1>7 DEF Goes, LeavesAt, y
<1>10. Legal(t1, b, x, t2, i, d, date, next, f, y, g)
  BY <1>2, <1>6, <1>7, <1>8, <1>9 DEF Legal
<1>11. Leg(t1, s1, b, x) = Ticket(t1, date, b, x)
  BY <1>3, LegIs DEF Ticket
<1>12. Leg(t2, s2, i, d) = Ticket(t2, next, i, d)
  BY <1>3, <1>7, LegIs DEF Ticket
<1>13. Change(t1, t2, s1, b, x, i, d) = Transfer(Ticket(t1, date, b, x), Ticket(t2, next, i, d))
  BY <1>11, <1>12 DEF Change, s2
<1>. QED
  BY <1>7, <1>10, <1>13 DEF s2, y

\* For each change between two tickets query_transfer finds one in which the
\* second train does not start later.
LEMMA LegalIsConnection ==
  ASSUME RegisterInv, NEW date \in Int, NEW next \in Int, NEW f, NEW y, NEW g,
         NEW t1 \in released, NEW t2 \in released,
         NEW b \in Nat, NEW x \in Nat, NEW i \in Nat, NEW d \in Nat,
         Legal(t1, b, x, t2, i, d, date, next, f, y, g)
  PROVE  /\ Connects(t1, b, x, t2, i, d, date, f, g)
         /\ t2.stations[i] = y
         /\ SecondDay(t2, i, ArrivalOn(t1, StartDay(t1, b, date), x)) <= StartDay(t2, i, next)
<1>. DEFINE s1 == StartDay(t1, b, date)
            s2 == StartDay(t2, i, next)
<1>1. /\ t1 \in Catalogue /\ t2 \in Catalogue
      /\ Len(t1.stations) \in Nat /\ Len(t2.stations) \in Nat
  BY TrainIs DEF RegisterInv
<1>2. /\ t1.hash # t2.hash /\ LeavesAt(t1, f, b) /\ ArrivesAt(t1, y, x) /\ b < x /\ s1 \in SaleDays(t1)
      /\ LeavesAt(t2, y, i) /\ ArrivesAt(t2, g, d) /\ i < d /\ s2 \in SaleDays(t2)
      /\ ArrivalOn(t1, s1, x) <= DepartureOn(t2, s2, i)
  BY DEF Legal, Goes
<1>3. /\ x \in 2 .. Len(t1.stations) /\ t1.stations[x] = y
      /\ i \in 1 .. Len(t2.stations) - 1 /\ t2.stations[i] = y
  BY <1>2 DEF LeavesAt, ArrivesAt
<1>4. x \in b + 1 .. Len(t1.stations) /\ i \in 1 .. d - 1
  BY <1>1, <1>2, <1>3
<1>5. s1 \in Int
  BY <1>2 DEF SaleDays
<1>6. ArrivalOn(t1, s1, x) \in Int
  BY <1>1, <1>3, <1>5, SaleIs
<1>. HIDE DEF s1, s2
<1>7. InTime(t2, i, ArrivalOn(t1, s1, x)) /\ SecondDay(t2, i, ArrivalOn(t1, s1, x)) <= s2
  BY <1>1, <1>2, <1>3, <1>6, SecondDayIs
<1>8. Connects(t1, b, x, t2, i, d, date, f, g)
  BY <1>2, <1>3, <1>4, <1>7 DEF Connects, s1
<1>. QED
  BY <1>3, <1>7, <1>8 DEF s1, s2

\* The changes that the timetable has, in the words of TransferIsBest.
LegalChanges(date, f, g) ==
  UNION {{Transfer(c[1], c[2]) : c \in
            {p \in JourneysOn(date, f, y) \X Journeys(y, g) :
               p[1].train # p[2].train /\ p[1].arrive <= p[2].leave}} : y \in Stations}

\* The times and names of a ticket are those of the journey.
LEMMA PlainTicketIs ==
  ASSUME RegisterInv, NEW date \in Int, NEW f, NEW g,
         NEW t \in released, NEW i \in Nat, NEW j \in Nat, Goes(t, i, j, date, f, g)
  PROVE  LET w == Ticket(t, date, i, j)
         IN /\ Plain(w) = Journey(t, StartDay(t, i, date), i, j)
            /\ Plain(w).train = w.train /\ Plain(w).leave = w.leave
            /\ Plain(w).arrive = w.arrive /\ Plain(w).price = w.price
<1>1. Plain(Ticket(t, date, i, j)) = Journey(t, StartDay(t, i, date), i, j)
  BY PlainIs DEF Ticket
<1>2. \A w : /\ Plain(w).train = w.train /\ Plain(w).leave = w.leave
             /\ Plain(w).arrive = w.arrive /\ Plain(w).price = w.price
  BY DEF Plain
<1>. QED
  BY <1>1, <1>2

\* Every journey is one on some date.
LEMMA JourneysHaveDates ==
  ASSUME RegisterInv, NEW f, NEW g, NEW e
  PROVE  e \in Journeys(f, g) <=> \E date \in Int : e \in JourneysOn(date, f, g)
<1>1. ASSUME e \in Journeys(f, g) PROVE e.leave \div Day \in Int
  <2>1. PICK t \in released : \E j \in {k \in Stops(t) : t.stations[k] = g} :
          \E s \in SaleDays(t), i \in {k \in 1 .. j - 1 : t.stations[k] = f} : e = Journey(t, s, i, j)
    BY <1>1 DEF Journeys
  <2>2. PICK j \in Stops(t) :
          \E s \in SaleDays(t), i \in {k \in 1 .. j - 1 : t.stations[k] = f} : e = Journey(t, s, i, j)
    BY <2>1
  <2>3. PICK s \in SaleDays(t), i \in 1 .. j - 1 : e = Journey(t, s, i, j)
    BY <2>2
  <2>4. t \in Catalogue /\ i \in 1 .. Len(t.stations) - 1 /\ s \in Int
    <3>1. t \in Catalogue /\ Len(t.stations) \in Nat
      BY TrainIs DEF RegisterInv
    <3>. QED
      BY <3>1 DEF Stops, SaleDays
  <2>5. e.leave = DepartureOn(t, s, i)
    <3>1. Offsets(t)[i].leave = LeavesAfter(t, i)
      BY <2>4, RidesAre
    <3>2. e.leave = s * Day + t.startTime + LeavesAfter(t, i)
      BY <2>3 DEF Journey
    <3>. QED
      BY <3>1, <3>2 DEF DepartureOn
  <2>. QED
    BY <2>4, <2>5, StartsOn
<1>2. ASSUME e \in Journeys(f, g) PROVE e \in JourneysOn(e.leave \div Day, f, g)
  BY <1>2 DEF JourneysOn
<1>3. \A date \in Int : e \in JourneysOn(date, f, g) => e \in Journeys(f, g)
  BY DEF JourneysOn
<1>. QED
  BY <1>1, <1>2, <1>3

IsLegalChange(c, date, f, g) ==
  \E t1, t2 \in released, b, x, i, d \in Nat, next \in Int :
    /\ Legal(t1, b, x, t2, i, d, date, next, f, t2.stations[i], g)
    /\ c = Transfer(Plain(Ticket(t1, date, b, x)), Plain(Ticket(t2, next, i, d)))

\* They are the changes between two tickets.
LEMMA LegalChangesAre ==
  ASSUME RegisterInv, NEW date \in Int, NEW f, NEW g, NEW c
  PROVE  c \in LegalChanges(date, f, g) <=> IsLegalChange(c, date, f, g)
<1>1. ASSUME c \in LegalChanges(date, f, g) PROVE IsLegalChange(c, date, f, g)
  <2>0. PICK y \in Stations : \E p \in JourneysOn(date, f, y) \X Journeys(y, g) :
          p[1].train # p[2].train /\ p[1].arrive <= p[2].leave /\ c = Transfer(p[1], p[2])
    BY <1>1 DEF LegalChanges
  <2>1. PICK p \in JourneysOn(date, f, y) \X Journeys(y, g) :
          p[1].train # p[2].train /\ p[1].arrive <= p[2].leave /\ c = Transfer(p[1], p[2])
    BY <2>0
  <2>2. p[1] \in JourneysOn(date, f, y) /\ p[2] \in Journeys(y, g)
    BY <2>1
  <2>3. PICK next \in Int : p[2] \in JourneysOn(next, y, g)
    BY <2>2, JourneysHaveDates
  <2>4. PICK t1 \in released, b \in Nat, x \in Nat :
          Goes(t1, b, x, date, f, y) /\ p[1] = Journey(t1, StartDay(t1, b, date), b, x)
    BY <2>2, JourneysAre
  <2>5. PICK t2 \in released, i \in Nat, d \in Nat :
          Goes(t2, i, d, next, y, g) /\ p[2] = Journey(t2, StartDay(t2, i, next), i, d)
    BY <2>3, JourneysAre
  <2>. DEFINE w1 == Ticket(t1, date, b, x)
              w2 == Ticket(t2, next, i, d)
  <2>6. /\ p[1] = Plain(w1) /\ p[1].train = t1.hash
        /\ p[1].arrive = ArrivalOn(t1, StartDay(t1, b, date), x)
    BY <2>4, PlainTicketIs, TicketIs
  <2>7. /\ p[2] = Plain(w2) /\ p[2].train = t2.hash
        /\ p[2].leave = DepartureOn(t2, StartDay(t2, i, next), i)
    BY <2>5, PlainTicketIs, TicketIs
  <2>8. t2.stations[i] = y
    BY <2>5 DEF Goes, LeavesAt
  <2>. HIDE DEF w1, w2
  <2>9. Legal(t1, b, x, t2, i, d, date, next, f, t2.stations[i], g)
    BY <2>1, <2>4, <2>5, <2>6, <2>7, <2>8 DEF Legal
  <2>10. c = Transfer(Plain(w1), Plain(w2))
    BY <2>1, <2>6, <2>7
  <2>. QED
    BY <2>9, <2>10 DEF IsLegalChange, w1, w2
<1>2. ASSUME IsLegalChange(c, date, f, g) PROVE c \in LegalChanges(date, f, g)
  <2>1. PICK t1 \in released, t2 \in released, b \in Nat, x \in Nat, i \in Nat, d \in Nat, next \in Int :
          /\ Legal(t1, b, x, t2, i, d, date, next, f, t2.stations[i], g)
          /\ c = Transfer(Plain(Ticket(t1, date, b, x)), Plain(Ticket(t2, next, i, d)))
    BY <1>2 DEF IsLegalChange
  <2>. DEFINE y == t2.stations[i]
              w1 == Ticket(t1, date, b, x)
              w2 == Ticket(t2, next, i, d)
  <2>2. /\ t1.hash # t2.hash
        /\ Goes(t1, b, x, date, f, y) /\ Goes(t2, i, d, next, y, g)
        /\ ArrivalOn(t1, StartDay(t1, b, date), x) <= DepartureOn(t2, StartDay(t2, i, next), i)
    BY <2>1 DEF Legal
  <2>3. y \in Stations
    <3>1. t2 \in Catalogue /\ i \in Stops(t2)
      <4>1. t2 \in Catalogue /\ Len(t2.stations) \in Nat
        BY TrainIs DEF RegisterInv
      <4>. QED
        BY <2>2, <4>1 DEF Goes, LeavesAt, Stops
    <3>2. t2.stations \in Seq(Stations)
      BY <3>1, CatalogueAssumption
    <3>. QED
      BY <3>1, <3>2 DEF Stops
  <2>. HIDE DEF y
  <2>4. /\ Plain(w1) = Journey(t1, StartDay(t1, b, date), b, x)
        /\ Plain(w1).train = t1.hash /\ Plain(w1).arrive = ArrivalOn(t1, StartDay(t1, b, date), x)
    BY <2>2, PlainTicketIs, TicketIs
  <2>5. /\ Plain(w2) = Journey(t2, StartDay(t2, i, next), i, d)
        /\ Plain(w2).train = t2.hash /\ Plain(w2).leave = DepartureOn(t2, StartDay(t2, i, next), i)
    BY <2>2, PlainTicketIs, TicketIs
  <2>. HIDE DEF w1, w2
  <2>6. Plain(w1) \in JourneysOn(date, f, y)
    BY <2>2, <2>4, JourneysAre
  <2>7. Plain(w2) \in Journeys(y, g)
    <3>1. Plain(w2) \in JourneysOn(next, y, g)
      BY <2>2, <2>5, JourneysAre
    <3>. QED
      BY <3>1, JourneysHaveDates
  <2>8. Plain(w1).train # Plain(w2).train /\ Plain(w1).arrive <= Plain(w2).leave
    BY <2>2, <2>4, <2>5
  <2>9. c = Transfer(Plain(w1), Plain(w2))
    BY <2>1 DEF w1, w2
  <2>10. PICK p : p = <<Plain(w1), Plain(w2)>>
    OBVIOUS
  <2>11. /\ p \in JourneysOn(date, f, y) \X Journeys(y, g)
         /\ p[1].train # p[2].train /\ p[1].arrive <= p[2].leave
         /\ c = Transfer(p[1], p[2])
    BY <2>6, <2>7, <2>8, <2>9, <2>10
  <2>. QED
    BY <2>3, <2>11 DEF LegalChanges
<1>. QED
  BY <1>1, <1>2

\* The key of a change between two tickets.
KeyOf(w1, w2, t1, t2, sortByTime) ==
  IF sortByTime THEN <<w2.arrive - w1.leave, w1.price + w2.price, t1.id, t2.id>>
  ELSE <<w1.price + w2.price, w2.arrive - w1.leave, t1.id, t2.id>>

\* Only times, prices and names count, and keys can be compared.
HasKey(w1, w2, t1, t2, sortByTime) ==
  /\ TransferKey(Transfer(w1, w2), sortByTime) = KeyOf(w1, w2, t1, t2, sortByTime)
  /\ TransferKey(Transfer(Plain(w1), Plain(w2)), sortByTime) = KeyOf(w1, w2, t1, t2, sortByTime)
  /\ KeyOf(w1, w2, t1, t2, sortByTime) \in Keys

\* Legal changes have such keys.
LEMMA KeyIs ==
  ASSUME RegisterInv, NEW date \in Int, NEW next \in Int, NEW f, NEW y, NEW g,
         NEW t1 \in released, NEW t2 \in released,
         NEW b \in Nat, NEW x \in Nat, NEW i \in Nat, NEW d \in Nat,
         Legal(t1, b, x, t2, i, d, date, next, f, y, g), NEW sortByTime
  PROVE  HasKey(Ticket(t1, date, b, x), Ticket(t2, next, i, d), t1, t2, sortByTime)
<1>. DEFINE w1 == Ticket(t1, date, b, x)
            w2 == Ticket(t2, next, i, d)
<1>1. Goes(t1, b, x, date, f, y) /\ Goes(t2, i, d, next, y, g)
  BY DEF Legal
<1>2. /\ TrainOf(w1.train) = t1 /\ w1.leave \in Int /\ w1.price \in Int
      /\ Plain(w1).train = w1.train /\ Plain(w1).leave = w1.leave /\ Plain(w1).price = w1.price
  BY <1>1, TicketIs, PlainTicketIs
<1>3. /\ TrainOf(w2.train) = t2 /\ w2.arrive \in Int /\ w2.price \in Int
      /\ Plain(w2).train = w2.train /\ Plain(w2).arrive = w2.arrive /\ Plain(w2).price = w2.price
  BY <1>1, TicketIs, PlainTicketIs
<1>4. t1.id \in Int /\ t2.id \in Int
  <2>1. t1 \in Catalogue /\ t2 \in Catalogue
    BY DEF RegisterInv
  <2>. QED
    BY <2>1, TrainIs
<1>. HIDE DEF w1, w2
<1>5. \A v1, v2 : Transfer(v1, v2).first = v1 /\ Transfer(v1, v2).second = v2
  BY DEF Transfer
<1>6. TransferKey(Transfer(w1, w2), sortByTime) = KeyOf(w1, w2, t1, t2, sortByTime)
  BY <1>2, <1>3, <1>5 DEF TransferKey, KeyOf
<1>7. TransferKey(Transfer(Plain(w1), Plain(w2)), sortByTime) = KeyOf(w1, w2, t1, t2, sortByTime)
  BY <1>2, <1>3, <1>5 DEF TransferKey, KeyOf
<1>8. KeyOf(w1, w2, t1, t2, sortByTime) \in Keys
  <2>1. w2.arrive - w1.leave \in Int /\ w1.price + w2.price \in Int
    BY <1>2, <1>3
  <2>. QED
    BY <1>4, <2>1 DEF KeyOf, Keys
<1>. QED
  BY <1>6, <1>7, <1>8 DEF HasKey, w1, w2

\* A second train that starts later is not better.
LEMMA LaterIsNotBetter ==
  ASSUME RegisterInv, NEW date \in Int, NEW next \in Int, NEW later \in Int, NEW f, NEW y, NEW g,
         NEW t1 \in released, NEW t2 \in released,
         NEW b \in Nat, NEW x \in Nat, NEW i \in Nat, NEW d \in Nat,
         Legal(t1, b, x, t2, i, d, date, next, f, y, g),
         Legal(t1, b, x, t2, i, d, date, later, f, y, g),
         StartDay(t2, i, next) <= StartDay(t2, i, later), NEW sortByTime
  PROVE  ~ Before(KeyOf(Ticket(t1, date, b, x), Ticket(t2, later, i, d), t1, t2, sortByTime),
                  KeyOf(Ticket(t1, date, b, x), Ticket(t2, next, i, d), t1, t2, sortByTime))
<1>. DEFINE w1 == Ticket(t1, date, b, x)
            w2 == Ticket(t2, next, i, d)
            w3 == Ticket(t2, later, i, d)
            a == KeyOf(w1, w3, t1, t2, sortByTime)
            c == KeyOf(w1, w2, t1, t2, sortByTime)
<1>1. Goes(t1, b, x, date, f, y) /\ Goes(t2, i, d, next, y, g) /\ Goes(t2, i, d, later, y, g)
  BY DEF Legal
<1>2. w1.leave \in Int /\ w1.price \in Int
  BY <1>1, TicketIs
<1>3. /\ w2.arrive = ArrivalOn(t2, StartDay(t2, i, next), d) /\ w2.arrive \in Int
      /\ w2.price = Sum(t2.price, i, d - 1) /\ w2.price \in Int
  BY <1>1, TicketIs
<1>4. w3.arrive = ArrivalOn(t2, StartDay(t2, i, later), d) /\ w3.price = Sum(t2.price, i, d - 1) /\ w3.arrive \in Int
  BY <1>1, TicketIs
<1>5. a \in Keys /\ c \in Keys
  <2>1. HasKey(w1, w2, t1, t2, sortByTime) /\ HasKey(w1, w3, t1, t2, sortByTime)
    BY KeyIs
  <2>. QED
    BY <2>1 DEF HasKey
<1>. HIDE DEF w1, w2, w3
<1>6. w2.arrive <= w3.arrive
  <2>1. PICK s \in Int, v \in Int : s = StartDay(t2, i, next) /\ v = StartDay(t2, i, later) /\ s <= v
    <3>1. StartDay(t2, i, next) \in SaleDays(t2) /\ StartDay(t2, i, later) \in SaleDays(t2)
      BY <1>1 DEF Goes
    <3>. QED
      BY <3>1 DEF SaleDays
  <2>2. PICK y1 \in Int, y2 \in Int : y1 = t2.startTime /\ y2 = Offsets(t2)[d].arrive
    <3>1. t2 \in Catalogue /\ d \in 2 .. Len(t2.stations)
      BY <1>1 DEF Goes, ArrivesAt, RegisterInv
    <3>2. t2.startTime \in Int
      BY <3>1, SaleIs
    <3>3. Offsets(t2)[d].arrive \in Int
      BY <3>1, OffsetsGrow
    <3>. QED
      BY <3>2, <3>3
  <2>3. w2.arrive = s * 1440 + y1 + y2 /\ w3.arrive = v * 1440 + y1 + y2
    BY <1>3, <1>4, <2>1, <2>2 DEF ArrivalOn, Day
  <2>. QED
    BY <2>1, <2>2, <2>3
<1>7. PICK p \in Int, k2 \in Int, k3 \in Int :
        /\ p = w1.price + w2.price /\ p = w1.price + w3.price
        /\ k2 = w2.arrive - w1.leave /\ k3 = w3.arrive - w1.leave /\ k2 <= k3
  BY <1>2, <1>3, <1>4, <1>6
<1>8. /\ a = IF sortByTime THEN <<k3, p, t1.id, t2.id>> ELSE <<p, k3, t1.id, t2.id>>
      /\ c = IF sortByTime THEN <<k2, p, t1.id, t2.id>> ELSE <<p, k2, t1.id, t2.id>>
  BY <1>7 DEF KeyOf
<1>. HIDE DEF a, c
<1>9. PICK n1 \in Int, n2 \in Int : n1 = t1.id /\ n2 = t2.id
  <2>1. t1 \in Catalogue /\ t2 \in Catalogue
    BY DEF RegisterInv
  <2>2. t1.id \in Int /\ t2.id \in Int
    BY <2>1, TrainIs
  <2>. QED
    BY <2>2
<1>10. ~ Before(a, c)
  <2>1. /\ a[3] = n1 /\ c[3] = n1 /\ a[4] = n2 /\ c[4] = n2
        /\ \/ a[1] = k3 /\ c[1] = k2 /\ a[2] = p /\ c[2] = p
           \/ a[2] = k3 /\ c[2] = k2 /\ a[1] = p /\ c[1] = p
    BY <1>8, <1>9
  <2>2. Before(a, c) => \/ a[1] < c[1]
                        \/ a[1] = c[1] /\ a[2] < c[2]
                        \/ a[1] = c[1] /\ a[2] = c[2] /\ a[3] < c[3]
                        \/ a[1] = c[1] /\ a[2] = c[2] /\ a[3] = c[3] /\ a[4] < c[4]
    BY <1>5, FourBefore
  <2>. QED
    BY <1>7, <1>9, <2>1, <2>2
<1>. QED
  BY <1>10 DEF a, c, w1, w2, w3

\* Every change found is one between two tickets, with a key.
LEMMA FoundIsLegal ==
  ASSUME RegisterInv, NEW date \in Int, NEW f, NEW g, NEW c \in Found(date, f, g), NEW sortByTime
  PROVE  \E t1, t2 \in released, b, x, i, d \in Nat, next \in Int :
           /\ Legal(t1, b, x, t2, i, d, date, next, f, t2.stations[i], g)
           /\ c = Transfer(Ticket(t1, date, b, x), Ticket(t2, next, i, d))
           /\ TransferKey(c, sortByTime) \in Keys
<1>1. PICK t1 \in released, t2 \in released, b \in Nat, x \in Nat, i \in Nat, d \in Nat :
        Connects(t1, b, x, t2, i, d, date, f, g) /\ c = Change(t1, t2, StartDay(t1, b, date), b, x, i, d)
  BY FoundAre DEF IsConnection
<1>2. PICK next \in Int :
        /\ Legal(t1, b, x, t2, i, d, date, next, f, t2.stations[i], g)
        /\ c = Transfer(Ticket(t1, date, b, x), Ticket(t2, next, i, d))
  BY <1>1, ConnectionIsLegal
<1>3. HasKey(Ticket(t1, date, b, x), Ticket(t2, next, i, d), t1, t2, sortByTime)
  BY <1>2, KeyIs
<1>. QED
  BY <1>2, <1>3 DEF HasKey

\* For every legal change there is one that is found and not worse.
LEMMA LegalIsFound ==
  ASSUME RegisterInv, NEW date \in Int, NEW f, NEW g, NEW s \in LegalChanges(date, f, g), NEW sortByTime
  PROVE  \E c \in Found(date, f, g) :
           /\ TransferKey(s, sortByTime) \in Keys
           /\ ~ Before(TransferKey(s, sortByTime), TransferKey(c, sortByTime))
<1>1. PICK t1 \in released, t2 \in released, b \in Nat, x \in Nat, i \in Nat, d \in Nat, later \in Int :
        /\ Legal(t1, b, x, t2, i, d, date, later, f, t2.stations[i], g)
        /\ s = Transfer(Plain(Ticket(t1, date, b, x)), Plain(Ticket(t2, later, i, d)))
  BY LegalChangesAre DEF IsLegalChange
<1>. DEFINE y == t2.stations[i]
            second == SecondDay(t2, i, ArrivalOn(t1, StartDay(t1, b, date), x))
            c == Change(t1, t2, StartDay(t1, b, date), b, x, i, d)
<1>2. Connects(t1, b, x, t2, i, d, date, f, g) /\ second <= StartDay(t2, i, later)
  BY <1>1, LegalIsConnection
<1>3. c \in Found(date, f, g)
  BY <1>2, FoundAre DEF IsConnection
<1>4. PICK next \in Int :
        /\ Legal(t1, b, x, t2, i, d, date, next, f, y, g) /\ StartDay(t2, i, next) = second
        /\ c = Transfer(Ticket(t1, date, b, x), Ticket(t2, next, i, d))
  BY <1>2, ConnectionIsLegal
<1>. HIDE DEF second, c
<1>5. ~ Before(KeyOf(Ticket(t1, date, b, x), Ticket(t2, later, i, d), t1, t2, sortByTime),
               KeyOf(Ticket(t1, date, b, x), Ticket(t2, next, i, d), t1, t2, sortByTime))
  <2>1. /\ Legal(t1, b, x, t2, i, d, date, next, f, y, g)
        /\ Legal(t1, b, x, t2, i, d, date, later, f, y, g)
        /\ StartDay(t2, i, next) <= StartDay(t2, i, later)
    BY <1>1, <1>2, <1>4
  <2>. QED
    BY <2>1, LaterIsNotBetter
<1>6. HasKey(Ticket(t1, date, b, x), Ticket(t2, next, i, d), t1, t2, sortByTime)
  BY <1>4, KeyIs
<1>7. HasKey(Ticket(t1, date, b, x), Ticket(t2, later, i, d), t1, t2, sortByTime)
  BY <1>1, KeyIs
<1>8. TransferKey(s, sortByTime) \in Keys /\ ~ Before(TransferKey(s, sortByTime), TransferKey(c, sortByTime))
  BY <1>1, <1>4, <1>5, <1>6, <1>7 DEF HasKey
<1>. QED
  BY <1>3, <1>8

\* query_transfer answers with the best of the changes found.
LEMMA AnswerIsBest ==
  ASSUME RegisterInv, NEW date \in Int, NEW f, NEW g, NEW sortByTime
  PROVE  IsBest(QueryTransfer(date, f, g, sortByTime), Found(date, f, g), sortByTime)
<1>1. Checked(NoTransfer, QueryTransfer(date, f, g, sortByTime), Found(date, f, g), sortByTime)
  BY TransferChecks
<1>2. Comparable(Found(date, f, g), sortByTime)
  <2>1. \A v, w : Transfer(v, w).status = "found"
    BY DEF Transfer
  <2>2. ASSUME NEW c \in Found(date, f, g) PROVE c.status = "found" /\ TransferKey(c, sortByTime) \in Keys
    BY <2>1, FoundIsLegal
  <2>. QED
    BY <2>2 DEF Comparable
<1>3. {} \cup Found(date, f, g) = Found(date, f, g)
  OBVIOUS
<1>4. IsBest(NoTransfer, {}, sortByTime)
  BY DEF IsBest
<1>5. \A B : IsBest(NoTransfer, B, sortByTime) /\ Comparable(B \cup Found(date, f, g), sortByTime)
        => IsBest(QueryTransfer(date, f, g, sortByTime), B \cup Found(date, f, g), sortByTime)
  BY <1>1 DEF Checked
<1>6. IsBest(QueryTransfer(date, f, g, sortByTime), {} \cup Found(date, f, g), sortByTime)
  BY <1>2, <1>3, <1>4, <1>5
<1>. QED
  BY <1>3, <1>6

\* An exact register makes query_transfer find the best change.
LEMMA BestNow ==
  ASSUME RegisterInv
  PROVE  TransferIsBest
<1>1. SUFFICES ASSUME NEW q \in Questions, NEW sortByTime \in BOOLEAN
               PROVE  LET answer == QueryTransfer(q[1], q[2], q[3], sortByTime)
                          legal == LegalChanges(q[1], q[2], q[3])
                      IN IF legal = {} THEN answer = NoTransfer
                         ELSE /\ answer.status = "found"
                              /\ Transfer(Plain(answer.first), Plain(answer.second)) \in legal
                              /\ \A s \in legal :
                                   ~Before(TransferKey(s, sortByTime), TransferKey(answer, sortByTime))
  BY DEF TransferIsBest, LegalChanges
<1>2. PICK date \in Int, f \in {q[2]}, g \in {q[3]} : date = q[1] /\ f = q[2] /\ g = q[3]
  BY QuestionIs
<1>. DEFINE answer == QueryTransfer(date, f, g, sortByTime)
            legal == LegalChanges(date, f, g)
            K(s) == TransferKey(s, sortByTime)
<1>3. IsBest(answer, Found(date, f, g), sortByTime)
  BY AnswerIsBest
<1>4. ASSUME NEW s \in legal
      PROVE  \E c \in Found(date, f, g) : K(s) \in Keys /\ ~ Before(K(s), K(c))
  BY LegalIsFound
<1>5. ASSUME NEW c \in Found(date, f, g)
      PROVE  /\ c.status = "found" /\ K(c) \in Keys
             /\ Transfer(Plain(c.first), Plain(c.second)) \in legal
  <2>1. PICK t1 \in released, t2 \in released, b \in Nat, x \in Nat, i \in Nat, d \in Nat, next \in Int :
          /\ Legal(t1, b, x, t2, i, d, date, next, f, t2.stations[i], g)
          /\ c = Transfer(Ticket(t1, date, b, x), Ticket(t2, next, i, d))
          /\ K(c) \in Keys
    BY FoundIsLegal
  <2>2. /\ c.status = "found" /\ c.first = Ticket(t1, date, b, x)
        /\ c.second = Ticket(t2, next, i, d)
    BY <2>1 DEF Transfer
  <2>3. IsLegalChange(Transfer(Plain(c.first), Plain(c.second)), date, f, g)
    BY <2>1, <2>2 DEF IsLegalChange
  <2>. QED
    BY <2>1, <2>2, <2>3, LegalChangesAre
<1>. HIDE DEF answer, legal, K
<1>6. CASE legal = {}
  <2>1. Found(date, f, g) = {}
    BY <1>5, <1>6
  <2>2. answer = NoTransfer
    BY <1>3, <2>1 DEF IsBest
  <2>. QED
    BY <1>2, <1>6, <2>2 DEF answer, legal
<1>7. CASE legal # {}
  <2>1. Found(date, f, g) # {}
    BY <1>4, <1>7
  <2>2. answer \in Found(date, f, g) /\ \A c \in Found(date, f, g) : ~ Before(K(c), K(answer))
    BY <1>3, <2>1 DEF IsBest, K
  <2>3. ASSUME NEW s \in legal PROVE ~ Before(K(s), K(answer))
    <3>1. PICK c \in Found(date, f, g) : K(s) \in Keys /\ ~ Before(K(s), K(c))
      BY <1>4
    <3>2. K(c) \in Keys /\ K(answer) \in Keys /\ ~ Before(K(c), K(answer))
      BY <1>5, <2>2
    <3>. QED
      BY <3>1, <3>2, BeforeOrders
  <2>4. answer.status = "found" /\ Transfer(Plain(answer.first), Plain(answer.second)) \in legal
    BY <1>5, <2>2
  <2>. QED
    BY <1>2, <1>7, <2>3, <2>4 DEF answer, legal, K
<1>. QED
  BY <1>6, <1>7

\* An exact register makes the legs of a transfer tickets, if they take time.
LEMMA LegsNow ==
  ASSUME RegisterInv
  PROVE  LegsAreTickets
<1>1. SUFFICES ASSUME NEW q \in Questions, QueryTransfer(q[1], q[2], q[3], TRUE).status = "found"
               PROVE  LET answer == QueryTransfer(q[1], q[2], q[3], TRUE)
                          change == TrainOf(answer.first.train).stations[answer.first.to]
                      IN /\ TakesTime(answer.first) =>
                              answer.first \in Range(QueryTicket(q[1], q[2], change, TRUE))
                         /\ TakesTime(answer.second) =>
                              answer.second \in Range(QueryTicket(answer.second.leave \div Day, change, q[3], TRUE))
  BY DEF LegsAreTickets
<1>2. PICK date \in Int, f \in {q[2]}, g \in {q[3]} : date = q[1] /\ f = q[2] /\ g = q[3]
  BY QuestionIs
<1>3. PICK answer : answer = QueryTransfer(date, f, g, TRUE)
  OBVIOUS
<1>4. answer \in Found(date, f, g)
  <2>1. IsBest(answer, Found(date, f, g), TRUE)
    BY <1>3, AnswerIsBest
  <2>2. answer # NoTransfer
    <3>1. answer.status = "found"
      BY <1>1, <1>2, <1>3
    <3>2. NoTransfer.status = "none"
      BY DEF NoTransfer
    <3>. QED
      BY <3>1, <3>2
  <2>. QED
    BY <2>1, <2>2 DEF IsBest
<1>5. PICK t1 \in released, t2 \in released, b \in Nat, x \in Nat, i \in Nat, d \in Nat, next \in Int :
        /\ Legal(t1, b, x, t2, i, d, date, next, f, t2.stations[i], g)
        /\ answer = Transfer(Ticket(t1, date, b, x), Ticket(t2, next, i, d))
        /\ TransferKey(answer, TRUE) \in Keys
  BY <1>4, FoundIsLegal
<1>. DEFINE y == t2.stations[i]
            w1 == Ticket(t1, date, b, x)
            w2 == Ticket(t2, next, i, d)
<1>6. answer.first = w1 /\ answer.second = w2
  BY <1>5 DEF Transfer
<1>7. Goes(t1, b, x, date, f, y) /\ Goes(t2, i, d, next, y, g)
  BY <1>5 DEF Legal
<1>8. TrainOf(w1.train) = t1 /\ w1.to = x
  BY <1>7, TicketIs
<1>9. w2.leave \div Day = next
  BY <1>7, TicketIs
<1>10. t1.stations[x] = y
  BY <1>7 DEF Goes, ArrivesAt
<1>11. ASSUME NEW on \in Int, NEW from, NEW to, NEW t \in released, NEW k \in Nat, NEW j \in Nat,
              Goes(t, k, j, on, from, to), TakesTime(Ticket(t, on, k, j))
       PROVE  Ticket(t, on, k, j) \in Range(QueryTicket(on, from, to, TRUE))
  <2>1. ListsRides(QueryTicket(on, from, to, TRUE), on, from, to)
    BY RowsAre
  <2>2. TakesTime(Run(t, StartDay(t, k, on), k, j))
    BY <1>11 DEF TakesTime, Ticket, WithPriceAndSeats
  <2>3. IsRide(Run(t, StartDay(t, k, on), k, j), on, from, to)
    BY <1>11, <2>2 DEF IsRide
  <2>. QED
    BY <2>1, <2>3 DEF ListsRides, Ticket
<1>12. /\ TakesTime(w1) => w1 \in Range(QueryTicket(date, f, y, TRUE))
       /\ TakesTime(w2) => w2 \in Range(QueryTicket(next, y, g, TRUE))
  BY <1>7, <1>11
<1>. HIDE DEF w1, w2, y
<1>. QED
  BY <1>2, <1>3, <1>6, <1>8, <1>9, <1>10, <1>12

-----------------------------------------------------------------------------
(* The invariant *)

QueriesInv == RegisterInv /\ SeatsInv

\* The empty register is exact.
LEMMA InitStarts == Init => QueriesInv
<1>1. SUFFICES ASSUME Init PROVE QueriesInv
  OBVIOUS
<1>2. released = {} /\ register = {}
  BY <1>1 DEF Init
<1>3. RegisterInv
  BY <1>2, FS_EmptySet DEF RegisterInv
<1>4. SeatsInv
  BY <1>2 DEF SeatsInv
<1>. QED
  BY <1>3, <1>4 DEF QueriesInv

\* What release_train adds to the register is finite.
LEMMA NewRecordsAreFinite ==
  ASSUME NEW t \in Catalogue
  PROVE  IsFiniteSet(UNION {AddStopInfo(t, i) : i \in Stops(t)})
<1>. DEFINE T == {AddStopInfo(t, i) : i \in Stops(t)}
            G == [i \in Stops(t) |-> AddStopInfo(t, i)]
<1>1. IsFiniteSet(Stops(t))
  <2>1. 1 \in Int /\ Len(t.stations) \in Int
    BY TrainIs
  <2>. QED
    BY <2>1, FS_Interval DEF Stops
<1>2. G \in Surjection(Stops(t), T)
  BY DEF Surjection
<1>3. \A x \in T : IsFiniteSet(x)
  BY StopInfoIs
<1>. HIDE DEF T, G
<1>4. IsFiniteSet(T)
  BY <1>1, <1>2, FS_Surjection
<1>5. IsFiniteSet(UNION T)
  BY <1>3, <1>4, FS_UNION
<1>. QED
  BY <1>5 DEF T

\* A release adds the departures and arrivals of one train, and its seats.
LEMMA ReleaseStep ==
  ASSUME QueriesInv, NEW t \in Catalogue, Release(t)
  PROVE  QueriesInv'
<1>. DEFINE New == UNION {AddStopInfo(t, i) : i \in Stops(t)}
            days == {<<t.hash, d>> : d \in 0 .. t.saleDate_end - t.saleDate_beg}
<1>1. /\ \A r \in released : r.id # t.id
      /\ released' = released \cup {t}
      /\ register' = register \cup New
      /\ seats' = [k \in days \cup DOMAIN seats |->
                     IF k \in days THEN [j \in 1 .. Len(t.stations) - 1 |-> t.seatNum] ELSE seats[k]]
  BY DEF Release
<1>2. RegisterInv /\ SeatsInv
  BY DEF QueriesInv
<1>3. \A r \in released : r.hash # t.hash
  BY <1>1, <1>2, HashAssumption DEF RegisterInv
<1>4. RegisterInv'
  <2>1. released' \subseteq Catalogue
    BY <1>1, <1>2 DEF RegisterInv
  <2>2. IsFiniteSet(New)
    BY NewRecordsAreFinite
  <2>3. IsFiniteSet(register')
    <3>. HIDE DEF New
    <3>. QED
      BY <1>1, <1>2, <2>2, FS_Union DEF RegisterInv
  <2>4. \A r, u \in released' : r.hash = u.hash => r = u
    BY <1>1, <1>2, <1>3 DEF RegisterInv
  <2>5. register' = UNION {UNION {AddStopInfo(r, i) : i \in Stops(r)} : r \in released'}
    <3>. DEFINE Of(r) == UNION {AddStopInfo(r, i) : i \in Stops(r)}
    <3>1. register = UNION {Of(r) : r \in released}
      BY <1>2 DEF RegisterInv
    <3>2. register' = register \cup Of(t)
      BY <1>1
    <3>. HIDE DEF Of
    <3>3. register' = UNION {Of(r) : r \in released'}
      BY <1>1, <3>1, <3>2
    <3>. QED
      BY <3>3 DEF Of
  <2>. QED
    BY <2>1, <2>3, <2>4, <2>5 DEF RegisterInv
<1>5. SeatsInv'
  <2>1. ASSUME NEW u \in released', NEW d \in 0 .. u.saleDate_end - u.saleDate_beg
        PROVE  /\ <<u.hash, d>> \in DOMAIN seats'
               /\ seats'[<<u.hash, d>>] \in [1 .. Len(u.stations) - 1 -> Int]
    <3>1. CASE u = t
      <4>1. <<t.hash, d>> \in days
        BY <2>1, <3>1
      <4>2. seats'[<<t.hash, d>>] = [j \in 1 .. Len(t.stations) - 1 |-> t.seatNum]
        BY <1>1, <4>1
      <4>3. t.seatNum \in Int
        BY TrainIs
      <4>. QED
        BY <1>1, <3>1, <4>1, <4>2, <4>3
    <3>2. CASE u # t
      <4>1. u \in released /\ <<u.hash, d>> \notin days
        BY <1>1, <1>3, <3>2
      <4>2. <<u.hash, d>> \in DOMAIN seats /\ seats[<<u.hash, d>>] \in [1 .. Len(u.stations) - 1 -> Int]
        BY <1>2, <4>1 DEF SeatsInv
      <4>. QED
        BY <1>1, <4>1, <4>2
    <3>. QED
      BY <3>1, <3>2
  <2>. QED
    BY <2>1 DEF SeatsInv
<1>. QED
  BY <1>4, <1>5 DEF QueriesInv

\* A purchase takes seats and leaves the register alone.
LEMMA BuyStep ==
  ASSUME QueriesInv, NEW t, NEW date, NEW f, NEW g, BuyTicket(t, date, f, g)
  PROVE  QueriesInv'
<1>1. RegisterInv /\ SeatsInv
  BY DEF QueriesInv
<1>2. PICK e : /\ seats' = [seats EXCEPT ![<<e.train, e.day>>] =
                              [k \in DOMAIN @ |-> IF k \in e.from .. e.to - 1 THEN @[k] - 1 ELSE @[k]]]
               /\ UNCHANGED <<released, register>>
  BY DEF BuyTicket
<1>3. RegisterInv'
  BY <1>1, <1>2 DEF RegisterInv
<1>4. ASSUME NEW u \in released, NEW d \in 0 .. u.saleDate_end - u.saleDate_beg
      PROVE  /\ <<u.hash, d>> \in DOMAIN seats'
             /\ seats'[<<u.hash, d>>] \in [1 .. Len(u.stations) - 1 -> Int]
  <2>1. PICK row \in [1 .. Len(u.stations) - 1 -> Int] : row = seats[<<u.hash, d>>]
    BY <1>1 DEF SeatsInv
  <2>2. <<u.hash, d>> \in DOMAIN seats /\ DOMAIN seats' = DOMAIN seats
    BY <1>1, <1>2 DEF SeatsInv
  <2>3. CASE <<u.hash, d>> = <<e.train, e.day>>
    <3>1. seats'[<<u.hash, d>>] = [k \in DOMAIN row |-> IF k \in e.from .. e.to - 1 THEN row[k] - 1 ELSE row[k]]
      BY <1>2, <2>1, <2>2, <2>3
    <3>2. DOMAIN row = 1 .. Len(u.stations) - 1 /\ \A k \in DOMAIN row : row[k] \in Int /\ row[k] - 1 \in Int
      OBVIOUS
    <3>. QED
      BY <2>2, <3>1, <3>2
  <2>4. CASE <<u.hash, d>> # <<e.train, e.day>>
    BY <1>2, <2>1, <2>2, <2>4
  <2>. QED
    BY <2>3, <2>4
<1>5. SeatsInv'
  BY <1>2, <1>4 DEF SeatsInv
<1>. QED
  BY <1>3, <1>5 DEF QueriesInv

\* Every step keeps the register exact.
LEMMA EveryStep ==
  ASSUME QueriesInv, [Next]_vars
  PROVE  QueriesInv'
<1>1. CASE \E t \in Catalogue : Release(t)
  BY <1>1, ReleaseStep
<1>2. CASE \E t \in released, date \in Dates, f, g \in Stations : BuyTicket(t, date, f, g)
  BY <1>2, BuyStep
<1>3. CASE UNCHANGED vars
  BY <1>3 DEF vars, QueriesInv, RegisterInv, SeatsInv
<1>. QED
  BY <1>1, <1>2, <1>3 DEF Next

-----------------------------------------------------------------------------
(* The theorems *)

\* The register holds exactly the departures and arrivals of the released
\* trains, which add_stop_info has written, and there are seats for each of
\* their days and segments.
THEOREM RegisterStaysExact == Spec => []QueriesInv
<1>1. Init => QueriesInv
  BY InitStarts
<1>2. QueriesInv /\ [Next]_vars => QueriesInv'
  BY EveryStep
<1>. QED
  BY <1>1, <1>2, PTL DEF Spec

\* query_ticket finds exactly the journeys of the timetable that leave on the
\* date asked for and take time, each once, for every timetable, with travel
\* times of 0, too.
THEOREM TicketsAreExact == Spec => []DirectTrainsExact
<1>1. QueriesInv => DirectTrainsExact
  BY ExactNow DEF QueriesInv
<1>. QED
  BY <1>1, RegisterStaysExact, PTL

\* What query_ticket lists is what buy_ticket sells of the tickets that take
\* time, and no ticket sold arrives before it leaves, for every timetable, with
\* travel times of 0, too, where the two commands differ.
THEOREM TicketsAreSold == Spec => []ListedIsSold
<1>1. QueriesInv => ListedIsSold
  BY ListedNow DEF QueriesInv
<1>. QED
  BY <1>1, RegisterStaysExact, PTL

\* Times, price and seats of a ticket agree with query_train, for every timetable.
THEOREM TicketsFollowTimetable == Spec => []TicketsMatchTimetable
<1>1. QueriesInv => TicketsMatchTimetable
  BY TimetableNow DEF QueriesInv
<1>. QED
  BY <1>1, RegisterStaysExact, PTL

\* query_transfer finds the best change of trains, or that there is none, for
\* every timetable.
THEOREM TransfersAreBest == Spec => []TransferIsBest
<1>1. QueriesInv => TransferIsBest
  BY BestNow DEF QueriesInv
<1>. QED
  BY <1>1, RegisterStaysExact, PTL

\* The legs of its answer that take time are tickets that query_ticket lists,
\* for every timetable.
THEOREM LegsAreListed == Spec => []LegsAreTickets
<1>1. QueriesInv => LegsAreTickets
  BY LegsNow DEF QueriesInv
<1>. QED
  BY <1>1, RegisterStaysExact, PTL
=============================================================================
