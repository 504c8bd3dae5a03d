------------------------- MODULE TicketQueue_proofs -------------------------
(***************************************************************************)
(* Proofs about the waiting queues and the seats of TicketSystem, for any  *)
(* number of users, trains, days, stops and seats: what the entries of a   *)
(* queue point to, that a waiting order has one entry, that older orders   *)
(* are served first, that orders, seats and queues implement a waiting     *)
(* list, and that no seat is lost: on every segment the free seats and the *)
(* tickets of the successful orders make up the seats of the train.        *)
(***************************************************************************)
EXTENDS TicketSystem_proofs

USE TrainsAssumption, StopsAssumption, DaysAssumption, SeatsAssumption, StorageAssumption

\* What QueueInv adds to ServeInv.
Lined == QueueValues /\ EntriesSound /\ EntriesOrdered /\ ScanSound

\* An entry behind another one is no counter, so it points to an order.
LEMMA BehindIsEntry ==
  ASSUME TypeInv, NEW k \in DOMAIN queue, Behind(k)
  PROVE  k[3] # 0 /\ queue[k] \in OrderIdx
<1>1. QueueType /\ QueueRefs
  BY DEF TypeInv, TypeOK
<1>2. PICK x \in DOMAIN queue : x[3] < k[3]
  BY DEF Behind
<1>3. x[3] \in Nat /\ k[3] \in Nat
  BY <1>1, KeyType
<1>4. k[3] # 0
  BY <1>2, <1>3
<1>. QED
  BY <1>1, <1>4 DEF QueueRefs

\* No queue has an entry before there is an order.
LEMMA LinedInit == Init => Lined
BY DEF Init, Idle, Lined, QueueValues, EntriesSound, EntriesOrdered, ScanSound

\* Most steps add no entry and begin no loop: an entry that is left, or still
\* to be visited, points to the order it pointed to.
LEMMA LinedFrame ==
  ASSUME TypeInv, Lined, [Next]_vars,
         DOMAIN queue' \subseteq DOMAIN queue,
         \A k \in DOMAIN queue' : queue'[k] = queue[k],
         scan'.on => /\ scan.on /\ scan'.train = scan.train /\ scan'.day = scan.day
                     /\ scan'.todo \subseteq scan.todo
  PROVE  Lined'
<1>1. /\ nextIdx \in Nat /\ nextIdx' \in {nextIdx, nextIdx + 1}
      /\ \A i \in OrderIdx : data'[i].train = data[i].train /\ data'[i].day = data[i].day
  BY OrdersKept
<1>2. QueueType /\ ScanRefs
  BY DEF TypeInv, TypeOK
<1>3. QueueValues'
  <2>1. \A k \in DOMAIN queue : queue[k] \in Nat /\ k[3] <= queue[k] /\ queue[k] < nextIdx
    BY <1>2 DEF QueueType, Lined, QueueValues
  <2>2. nextIdx' \in Nat /\ nextIdx <= nextIdx'
    BY <1>1
  <2>. QED
    BY <1>1, <2>1, <2>2 DEF QueueValues
<1>4. EntriesSound'
  <2>. SUFFICES ASSUME NEW k \in DOMAIN queue', Behind(k)'
                PROVE  data'[queue'[k]].train = k[1] /\ data'[queue'[k]].day = k[2]
    BY DEF EntriesSound
  <2>1. k \in DOMAIN queue /\ Behind(k) /\ queue'[k] = queue[k]
    BY DEF Behind
  <2>2. queue[k] \in OrderIdx
    BY <2>1, BehindIsEntry
  <2>. QED
    BY <1>1, <2>1, <2>2 DEF Lined, EntriesSound
<1>5. EntriesOrdered'
  BY DEF Lined, EntriesOrdered, Intact
<1>6. ScanSound'
  BY <1>1, <1>2 DEF Lined, ScanSound, ScanRefs
<1>. QED
  BY <1>3, <1>4, <1>5, <1>6 DEF Lined

\* release_train opens queues of a train that has no entries.
LEMMA LinedReleaseTrain ==
  ASSUME TypeInv, Lined, NEW t \in Trains, ReleaseTrain(t)
  PROVE  Lined'
<1>. DEFINE sentinels == {Sentinel(t, d) : d \in DaysOf(t)}
<1>1. /\ UNCHANGED <<data, nextIdx, scan>> /\ ~scan.on
      /\ t \in DOMAIN train /\ ~train[t].released
      /\ queue' = [k \in DOMAIN queue \cup sentinels |->
                     IF k \in sentinels THEN 0 ELSE queue[k]]
  BY DEF ReleaseTrain, Ready
<1>2. \A k \in sentinels : k[1] = t /\ k[3] = 0
  BY DEF Sentinel
<1>3. \A k \in DOMAIN queue : k[1] # t /\ k \notin sentinels /\ k \in DOMAIN queue' /\ queue'[k] = queue[k]
  BY <1>1, <1>2 DEF TypeInv, QueueRefs
<1>4. \A k \in DOMAIN queue' : k \in sentinels \/ k \in DOMAIN queue
  BY <1>1
<1>5. nextIdx \in Nat /\ nextIdx > 0
  BY DEF TypeInv, TypeOK, OrdersType
<1>6. QueueValues'
  BY <1>1, <1>2, <1>3, <1>4, <1>5 DEF Lined, QueueValues
<1>7. ASSUME NEW k \in DOMAIN queue', NEW x \in DOMAIN queue', k[1] = x[1], k[2] = x[2], k[3] < x[3]
      PROVE  k \in DOMAIN queue /\ x \in DOMAIN queue
  <2>1. CASE k \in sentinels /\ x \in sentinels
    BY <1>2, <1>7, <2>1
  <2>. QED
    BY <1>2, <1>3, <1>4, <1>7, <2>1
<1>8. EntriesSound'
  <2>. SUFFICES ASSUME NEW k \in DOMAIN queue', NEW x \in DOMAIN queue',
                       x[1] = k[1], x[2] = k[2], x[3] < k[3]
                PROVE  data'[queue'[k]].train = k[1] /\ data'[queue'[k]].day = k[2]
    BY DEF EntriesSound, Behind
  <2>. QED
    BY <1>1, <1>3, <1>7 DEF Lined, EntriesSound, Behind
<1>9. EntriesOrdered'
  <2>. SUFFICES ASSUME NEW k \in DOMAIN queue', NEW x \in DOMAIN queue',
                       k[1] = x[1], k[2] = x[2], k[3] # 0, k[3] < x[3],
                       Sentinel(k[1], k[2]) \in DOMAIN queue'
                PROVE  queue'[k] < queue'[x]
    BY DEF EntriesOrdered, Intact
  <2>1. k \in DOMAIN queue /\ x \in DOMAIN queue
    BY <1>7
  <2>2. Intact(k[1], k[2])
    BY <1>2, <1>3, <1>4, <2>1 DEF Intact, Sentinel
  <2>. QED
    BY <1>3, <2>1, <2>2 DEF Lined, EntriesOrdered
<1>10. ScanSound'
  BY <1>1 DEF ScanSound
<1>. QED
  BY <1>6, <1>8, <1>9, <1>10 DEF Lined

\* Where lower_bound(counter of t and d) stops no entry of the same queue lies
\* before it.
LEMMA LowerBoundIsFirst ==
  ASSUME QueueType, NEW t \in Nat, NEW d \in Nat, NEW c, IsLowerBound(c, Sentinel(t, d))
  PROVE  ~Behind(c)
<1>. SUFFICES ASSUME NEW x \in DOMAIN queue, x[1] = c[1], x[2] = c[2], x[3] < c[3]
              PROVE  FALSE
  BY DEF Behind
<1>1. c \in DOMAIN queue /\ ~Before(c, <<t, d, 0>>) /\ (Before(x, c) => Before(x, <<t, d, 0>>))
  BY DEF IsLowerBound, Sentinel
<1>2. /\ c[1] \in Nat /\ c[2] \in Nat /\ c[3] \in Nat
      /\ x[1] \in Nat /\ x[2] \in Nat /\ x[3] \in Nat
  BY <1>1, KeyType
<1>3. Before(x, c)
  BY <1>2 DEF Before
<1>. QED
  BY <1>1, <1>2, <1>3 DEF Before

\* If t and d have an entry, it stops at an entry of t and d, at the first one.
LEMMA LowerBoundInQueue ==
  ASSUME QueueType, NEW t \in Nat, NEW d \in Nat, NEW c, IsLowerBound(c, Sentinel(t, d)),
         NEW k \in DOMAIN queue, k[1] = t, k[2] = d
  PROVE  c[1] = t /\ c[2] = d /\ c[3] <= k[3]
<1>1. c \in DOMAIN queue /\ ~Before(c, <<t, d, 0>>) /\ (Before(k, c) => Before(k, <<t, d, 0>>))
  BY DEF IsLowerBound, Sentinel
<1>2. /\ c[1] \in Nat /\ c[2] \in Nat /\ c[3] \in Nat
      /\ k[1] \in Nat /\ k[2] \in Nat /\ k[3] \in Nat
  BY <1>1, KeyType
<1>3. ~Before(k, <<t, d, 0>>)
  BY <1>2 DEF Before
<1>. QED
  BY <1>1, <1>2, <1>3 DEF Before

\* A new entry is put behind the place where lower_bound stopped, whatever it
\* stopped at: only the value of that place changes, and no entry has a new
\* one before it.
LEMMA LinedJoinQueue ==
  ASSUME TypeInv, CounterCovers, Lined,
         NEW u \in Users, NEW o \in Requests(Pending), JoinQueue(u, o)
  PROVE  Lined'
<1>. USE DEF TypeInv, TypeOK
<1>1. UNCHANGED scan /\ ~scan.on /\ o.from < o.to /\ WriteOrder(o)
  BY DEF JoinQueue, CanOrder, OnSale, Ready
<1>2. o \in OrderType /\ o.train \in Nat /\ o.day \in Nat
  BY RequestType DEF OrderType
<1>3. /\ OrderIdx' = OrderIdx \cup {nextIdx}
      /\ data'[nextIdx] = o /\ \A i \in OrderIdx : data'[i] = data[i]
      /\ nextIdx \in Nat /\ nextIdx' = nextIdx + 1
  BY <1>1, <1>2, WriteOrderType DEF WriteOrder, OrdersType
<1>4. PICK c \in DOMAIN queue : IsLowerBound(c, Sentinel(o.train, o.day)) /\ EnqueueAt(c, o)
  BY DEF JoinQueue
<1>. DEFINE key == <<o.train, o.day, queue[c] + 1>>
<1>5. /\ DOMAIN queue' = DOMAIN queue \cup {key}
      /\ \A k \in DOMAIN queue' : queue'[k] = IF k = key THEN nextIdx
                                              ELSE IF k = c THEN queue[c] + 1 ELSE queue[k]
  BY <1>4 DEF EnqueueAt, Put
<1>6. \A k \in DOMAIN queue : /\ k[1] \in Nat /\ k[2] \in Nat /\ k[3] \in Nat /\ queue[k] \in Nat
                              /\ k[3] <= queue[k] /\ queue[k] < nextIdx
  BY KeyType DEF Lined, QueueValues
<1>7. /\ key[1] = o.train /\ key[2] = o.day /\ key[3] = queue[c] + 1 /\ key[3] # 0
      /\ key[3] <= nextIdx
  BY <1>3, <1>6
<1>8. QueueValues'
  <2>. SUFFICES ASSUME NEW k \in DOMAIN queue'
                PROVE  k[3] <= queue'[k] /\ queue'[k] < nextIdx'
    BY DEF QueueValues
  <2>1. CASE k = key
    BY <1>3, <1>5, <1>7, <2>1
  <2>2. CASE k # key
    BY <1>3, <1>5, <1>6, <2>2
  <2>. QED
    BY <2>1, <2>2
<1>9. ASSUME NEW k \in DOMAIN queue, k # key, NEW x \in DOMAIN queue',
             x[1] = k[1], x[2] = k[2], x[3] < k[3]
      PROVE  Behind(k)
  <2>1. CASE x \in DOMAIN queue
    BY <1>9, <2>1 DEF Behind
  <2>2. CASE x = key
    <3>1. c[1] = k[1] /\ c[2] = k[2] /\ c[3] <= k[3]
      BY <1>2, <1>4, <1>7, <1>9, <2>2, LowerBoundInQueue
    <3>2. c[3] < k[3]
      BY <1>6, <1>7, <1>9, <2>2
    <3>. QED
      BY <3>1, <3>2 DEF Behind
  <2>. QED
    BY <1>5, <2>1, <2>2
<1>10. EntriesSound'
  <2>. SUFFICES ASSUME NEW k \in DOMAIN queue', NEW x \in DOMAIN queue',
                       x[1] = k[1], x[2] = k[2], x[3] < k[3]
                PROVE  data'[queue'[k]].train = k[1] /\ data'[queue'[k]].day = k[2]
    BY DEF EntriesSound, Behind
  <2>1. CASE k = key
    BY <1>3, <1>5, <1>7, <2>1
  <2>2. CASE k # key
    <3>1. k \in DOMAIN queue /\ Behind(k)
      BY <1>5, <1>9, <2>2
    <3>2. k # c
      BY <1>2, <1>4, <3>1, LowerBoundIsFirst
    <3>3. queue[k] \in OrderIdx /\ queue'[k] = queue[k]
      BY <1>5, <2>2, <3>1, <3>2, BehindIsEntry
    <3>. QED
      BY <1>3, <3>1, <3>3 DEF Lined, EntriesSound
  <2>. QED
    BY <2>1, <2>2
<1>11. EntriesOrdered'
  <2>. SUFFICES ASSUME NEW k \in DOMAIN queue', NEW x \in DOMAIN queue',
                       k[1] = x[1], k[2] = x[2], k[3] # 0, k[3] < x[3],
                       Sentinel(k[1], k[2]) \in DOMAIN queue'
                PROVE  queue'[k] < queue'[x]
    BY DEF EntriesOrdered, Intact
  <2>1. Intact(k[1], k[2])
    BY <1>5, <1>7 DEF Intact, Sentinel
  <2>2. c[3] # 0 => ~Intact(c[1], c[2])
    BY <1>2, <1>4, EntryFoundMeansLost
  <2>3. k # c /\ (x = c => x[3] = 0)
    BY <2>1, <2>2
  <2>4. k # key
    <3>. SUFFICES ASSUME k = key PROVE FALSE
      OBVIOUS
    <3>1. c = Sentinel(o.train, o.day)
      BY <1>2, <1>4, <1>7, <2>1, LowerBoundIsCounter
    <3>2. x \in DOMAIN queue /\ x[3] # 0
      BY <1>5, <1>6, <1>7
    <3>3. x[3] <= queue[c]
      BY <1>7, <2>1, <3>1, <3>2 DEF CounterCovers
    <3>. QED
      BY <1>6, <1>7, <3>2, <3>3
  <2>5. k \in DOMAIN queue /\ queue'[k] = queue[k] /\ k[3] \in Nat
    BY <1>5, <1>6, <2>3, <2>4
  <2>6. CASE x = key
    BY <1>5, <1>6, <2>5, <2>6
  <2>7. CASE x # key
    <3>1. x \in DOMAIN queue /\ x[3] \in Nat
      BY <1>5, <1>6, <2>7
    <3>2. queue'[x] = queue[x]
      BY <1>5, <2>3, <2>5, <2>7, <3>1
    <3>. QED
      BY <2>1, <2>5, <3>1, <3>2 DEF Lined, EntriesOrdered
  <2>. QED
    BY <2>6, <2>7
<1>12. ScanSound'
  BY <1>1 DEF ScanSound
<1>. QED
  BY <1>8, <1>10, <1>11, <1>12 DEF Lined

\* The loop that a refund begins has the entries behind the place where
\* lower_bound stopped: these are orders of the same train and day.
LEMMA LinedRefundSeats ==
  ASSUME TypeInv, Lined, NEW u \in Users, NEW n \in 1 .. MaxOrders, RefundSeats(u, n)
  PROVE  Lined'
<1>. USE DEF TypeInv, TypeOK
<1>. DEFINE t == data[NthNewest(u, n)].train
            d == data[NthNewest(u, n)].day
<1>1. /\ UNCHANGED queue /\ OrderIdx' = OrderIdx /\ NthNewest(u, n) \in OrderIdx
      /\ \A j \in OrderIdx : data'[j].train = data[j].train /\ data'[j].day = data[j].day
  BY RefundOrders
<1>2. UNCHANGED nextIdx
  BY DEF RefundSeats
<1>3. t \in Nat /\ d \in Nat
  BY <1>1 DEF OrdersType, OrderType
<1>4. PICK c \in DOMAIN queue :
        /\ IsLowerBound(c, Sentinel(t, d))
        /\ scan'.train = t /\ scan'.day = d
        /\ scan'.todo = {[idx |-> queue[k], id |-> k[3]] :
                           k \in {x \in DOMAIN queue : x[1] = t /\ x[2] = d /\ Before(c, x)}}
  BY DEF RefundSeats, FetchQueue
<1>5. QueueValues' /\ EntriesOrdered'
  BY <1>1, <1>2 DEF Lined, QueueValues, EntriesOrdered, Intact
<1>6. EntriesSound'
  <2>. SUFFICES ASSUME NEW k \in DOMAIN queue, Behind(k)
                PROVE  data'[queue[k]].train = k[1] /\ data'[queue[k]].day = k[2]
    BY <1>1 DEF EntriesSound, Behind
  <2>. QED
    BY <1>1, BehindIsEntry DEF Lined, EntriesSound
<1>7. ScanSound'
  <2>. SUFFICES ASSUME NEW k \in DOMAIN queue, k[1] = t, k[2] = d, Before(c, k)
                PROVE  data'[queue[k]].train = t /\ data'[queue[k]].day = d
    BY <1>4 DEF ScanSound
  <2>1. c[1] = t /\ c[2] = d
    BY <1>3, <1>4, LowerBoundInQueue
  <2>2. Behind(k)
    BY <1>3, <2>1 DEF Before, Behind
  <2>. QED
    BY <1>1, <2>2, BehindIsEntry DEF Lined, EntriesSound
<1>. QED
  BY <1>5, <1>6, <1>7 DEF Lined

\* Every step keeps the queues lined up.
LEMMA QueueInvNext == QueueInv /\ [Next]_vars => QueueInv'
<1>. SUFFICES ASSUME QueueInv, [Next]_vars PROVE QueueInv'
  OBVIOUS
<1>1. ServeInv' /\ TypeInv /\ CounterCovers /\ Lined
  BY ServeInvNext DEF QueueInv, ServeInv, Lined
<1>2. Lined'
  <2>1. CASE UNCHANGED <<queue, scan>>
    BY <1>1, <2>1, LinedFrame
  <2>2. CASE \E t \in Trains : ReleaseTrain(t)
    BY <1>1, <2>2, LinedReleaseTrain
  <2>3. CASE \E u \in Users, o \in Requests(Pending) : JoinQueue(u, o)
    BY <1>1, <2>3, LinedJoinQueue
  <2>4. CASE \E u \in Users, n \in 1 .. MaxOrders : RefundSeats(u, n)
    BY <1>1, <2>4, LinedRefundSeats
  <2>5. CASE \E p \in NextEntries : DropEntry(p) \/ ServeEntry(p) \/ SkipEntry(p)
    <3>1. PICK p : DropEntry(p) \/ ServeEntry(p) \/ SkipEntry(p)
      BY <2>5
    <3>2. PICK seat : Visiting(p) /\ Advance(p, seat) /\ (Dequeue(p) \/ UNCHANGED queue)
      BY <3>1 DEF DropEntry, ServeEntry, SkipEntry
    <3>3. scan \in ScanType
      BY <1>1, <3>2, EntryType
    <3>4. /\ scan.on /\ scan'.train = scan.train /\ scan'.day = scan.day
          /\ scan'.todo \subseteq scan.todo
      BY <3>2, <3>3 DEF Advance, ScanType
    <3>5. DOMAIN queue' \subseteq DOMAIN queue /\ \A k \in DOMAIN queue' : queue'[k] = queue[k]
      BY <3>2 DEF Dequeue, RemoveKeys
    <3>. QED
      BY <1>1, <3>4, <3>5, LinedFrame
  <2>6. CASE EndScan
    <3>1. UNCHANGED queue /\ ~scan'.on
      BY <2>6 DEF EndScan, Idle
    <3>. QED
      BY <1>1, <3>1, LinedFrame
  <2>. QED
    BY <2>1, <2>2, <2>3, <2>4, <2>5, <2>6
    DEF Next, vars, Login, Logout, Restart, AddTrain, DeleteTrain, BuySeats, JoinQueueCrash,
        CancelWaiting, RefundCrash, ScanStep
<1>. QED
  BY <1>1, <1>2 DEF QueueInv, Lined

\* The inductive invariant about the entries of the waiting queues.
THEOREM QueueInvariance == Spec => []QueueInv
<1>1. Init => QueueInv
  BY TypeInvInit, ServedInit, LinedInit DEF QueueInv, ServeInv, Served, Lined
<1>. QED
  BY <1>1, QueueInvNext, PTL DEF Spec

\* A waiting order has an entry in the queue of its train and day, and one
\* only, as long as that queue has its counter.
THEOREM OrdersQueuedOnce == Spec => []WaitingOrdersQueued
<1>1. ASSUME QueueInv PROVE WaitingOrdersQueued
  <2>. SUFFICES ASSUME NEW i \in OrderIdx, data[i].status = Pending,
                       Intact(data[i].train, data[i].day)
                PROVE  \E k \in EntriesOf(data[i].train, data[i].day) :
                         /\ queue[k] = i
                         /\ \A x \in EntriesOf(data[i].train, data[i].day) :
                              queue[x] = i => x = k
    BY DEF WaitingOrdersQueued
  <2>1. QueueType
    BY <1>1 DEF QueueInv, ServeInv, TypeInv, TypeOK
  <2>2. PICK k \in EntriesOf(data[i].train, data[i].day) : queue[k] = i
    BY <1>1 DEF QueueInv, ServeInv, WaitingHaveEntries
  <2>3. ASSUME NEW x \in EntriesOf(data[i].train, data[i].day), queue[x] = i
        PROVE  x = k
    <3>1. /\ k \in DOMAIN queue /\ x \in DOMAIN queue /\ k[3] # 0 /\ x[3] # 0
          /\ k[1] = x[1] /\ k[2] = x[2] /\ Intact(k[1], k[2])
      BY <2>2 DEF EntriesOf
    <3>2. /\ k = <<k[1], k[2], k[3]>> /\ x = <<x[1], x[2], x[3]>>
          /\ k[3] \in Nat /\ x[3] \in Nat /\ i \in Nat
      BY <2>1, <2>2, <3>1, KeyType
    <3>3. ~(k[3] < x[3]) /\ ~(x[3] < k[3])
      BY <1>1, <2>2, <2>3, <3>1, <3>2 DEF QueueInv, EntriesOrdered
    <3>. QED
      BY <3>1, <3>2, <3>3
  <2>. QED
    BY <2>2, <2>3
<1>. QED
  BY <1>1, QueueInvariance, PTL

-----------------------------------------------------------------------------
(* Who is served first *)

\* An order stops waiting and becomes successful only in the loop, at its own
\* entry.
LEMMA ServedByLoop ==
  ASSUME TypeInv, [Next]_vars, NEW j \in OrderIdx,
         data[j].status = Pending, data'[j].status = Success
  PROVE  \E p \in NextEntries : ServeEntry(p) /\ p.idx = j
<1>. USE DEF TypeInv, TypeOK
<1>1. j # 0 /\ j # nextIdx /\ j \in DOMAIN data /\ data[j] \in OrderType
  BY DEF OrdersType, OrderIdx
<1>2. data'[j] # data[j]
  BY DEF Pending, Success
<1>3. CASE \E o : WriteOrder(o)
  BY <1>1, <1>2, <1>3 DEF WriteOrder, Put
<1>4. CASE \E i : SetStatus(i, Refunded)
  <2>1. PICK i : SetStatus(i, Refunded)
    BY <1>4
  <2>2. data'[j] = data[j] \/ data'[j] = [data[j] EXCEPT !.status = Refunded]
    BY <1>1, <2>1 DEF SetStatus
  <2>. QED
    BY <1>1, <1>2, <2>2 DEF OrderType, Refunded, Success
<1>5. CASE Restart
  BY <1>1, <1>2, <1>5 DEF Restart
<1>6. CASE UNCHANGED data
  BY <1>2, <1>6
<1>7. CASE \E p \in NextEntries : ServeEntry(p)
  <2>1. PICK p \in NextEntries : ServeEntry(p)
    BY <1>7
  <2>2. CASE p.idx # j
    BY <1>1, <1>2, <2>1, <2>2 DEF ServeEntry, SetStatus
  <2>. QED
    BY <2>1, <2>2
<1>. QED
  BY <1>3, <1>4, <1>5, <1>6, <1>7
  DEF Next, vars, Login, Logout, AddTrain, DeleteTrain, ReleaseTrain, BuySeats, JoinQueue,
      JoinQueueCrash, CancelWaiting, RefundSeats, RefundCrash, ScanStep, DropEntry, SkipEntry,
      EndScan

\* No waiting order is served before an older one of its queue that would fit,
\* as long as that queue has its counter.
THEOREM OldestFirst == Spec => NoOvertaking
<1>. DEFINE Overtakes(i, j) ==
       /\ data[j].status = Pending /\ data'[j].status = Success
       /\ i < j /\ data[i].status = Pending
       /\ data[i].train = data[j].train /\ data[i].day = data[j].day
       /\ Intact(data[j].train, data[j].day)
<1>1. ASSUME QueueInv, [Next]_vars, NEW i \in OrderIdx, NEW j \in OrderIdx, Overtakes(i, j),
             Fits(scan.seat, data[i])
      PROVE  FALSE
  <2>1. TypeInv /\ ScanCovers /\ EntriesOrdered /\ ScanSound /\ QueueType /\ ScanRefs
    BY <1>1 DEF QueueInv, ServeInv, TypeInv, TypeOK
  <2>2. PICK p \in NextEntries : ServeEntry(p) /\ p.idx = j
    BY <1>1, <2>1, ServedByLoop
  <2>3. i \in Nat /\ j \in Nat /\ j # 0 /\ i < j
    BY <1>1, <2>1 DEF OrderIdx, TypeInv, TypeOK, OrdersType
  <2>4. /\ scan.on /\ p \in scan.todo /\ p.id # 0
        /\ \A q \in scan.todo : p.id <= q.id
    BY <2>1, <2>2, <2>3 DEF ServeEntry, Visiting, NextEntries, ScanRefs
  <2>5. data[j].train = scan.train /\ data[j].day = scan.day /\ Intact(scan.train, scan.day)
    BY <1>1, <2>1, <2>2, <2>4 DEF ScanSound
  <2>6. PICK q \in scan.todo : q.idx = i
    BY <1>1, <2>1, <2>4, <2>5 DEF ScanCovers
  <2>. DEFINE kp == <<scan.train, scan.day, p.id>>
              kq == <<scan.train, scan.day, q.id>>
  <2>7. kp \in DOMAIN queue /\ queue[kp] = j /\ kq \in DOMAIN queue /\ queue[kq] = i
    BY <2>1, <2>2, <2>4, <2>5, <2>6 DEF ScanCovers
  <2>8. p.id \in Nat /\ q.id \in Nat /\ p.id <= q.id
    BY <2>1, <2>4, <2>7, KeyType
  <2>9. p.id # q.id
    BY <2>3, <2>7
  <2>10. queue[kp] < queue[kq]
    BY <2>1, <2>4, <2>5, <2>7, <2>8, <2>9 DEF EntriesOrdered
  <2>. QED
    BY <2>3, <2>7, <2>10
<1>2. QueueInv /\ [Next]_vars =>
        \A i, j \in OrderIdx : Overtakes(i, j) => ~Fits(scan.seat, data[i])
  BY <1>1
<1>. QED
  BY <1>2, QueueInvariance, PTL DEF Spec, NoOvertaking

-----------------------------------------------------------------------------
(* TicketSystem implements WaitingList: every step of a command maps to a  *)
(* step of the waiting list or leaves it as it is.  The mapping, one       *)
(* variable at a time:                                                     *)

\* What the running command sees of the seats of a day on sale.
LEMMA SeatsNowType ==
  ASSUME TypeInv, NEW t, NEW d, <<t, d>> \in DOMAIN seats
  PROVE  SeatsNow(t, d) \in [Segments -> Nat]
<1>1. seats[<<t, d>>].seat \in [Segments -> Nat]
  BY DEF TypeInv, TypeOK, SeatsType
<1>2. ScanningDay(t, d) => scan.seat \in [Segments -> Nat]
  <2>1. scan.on => scan \in ScanType
    BY DEF TypeInv, TypeOK, Idle
  <2>. QED
    BY <2>1 DEF ScanType, ScanningDay
<1>. QED
  BY <1>1, <1>2 DEF SeatsNow

\* A record of seats belongs to one train and one day.
LEMMA SeatsKey ==
  ASSUME TypeInv, NEW k \in DOMAIN seats
  PROVE  k = <<k[1], k[2]>> /\ k[1] \in Trains /\ k[2] \in Nat /\ k[1] \in DOMAIN train
BY DEF TypeInv, TypeOK, SeatsType, OrdersKeepTheirTrain, SeatsMatchTrains

\* Orders that do not change are listed as they were.
LEMMA SameOrders ==
  ASSUME UNCHANGED nextIdx, \A i \in OrderIdx : data'[i] = data[i]
  PROVE  ListedOrders' = ListedOrders
<1>1. OrderIdx' = OrderIdx
  BY DEF OrderIdx
<1>. QED
  BY <1>1 DEF ListedOrders, Listed, Covered

\* A change of status in the file is one in the list.
LEMMA ListedStatus ==
  ASSUME TypeInv, UNCHANGED nextIdx, NEW i \in OrderIdx, NEW s, SetStatus(i, s)
  PROVE  List!SetStatus(i, s)
<1>1. OrderIdx' = OrderIdx /\ i \in DOMAIN data /\ OrderIdx \subseteq DOMAIN data
  BY DEF OrderIdx, TypeInv, TypeOK, OrdersType
<1>2. data[i] \in OrderType
  BY DEF TypeInv, TypeOK, OrdersType
<1>3. /\ data'[i] = [data[i] EXCEPT !.status = s]
      /\ \A j \in OrderIdx : j # i => data'[j] = data[j]
  BY <1>1 DEF SetStatus
<1>4. Listed(data'[i]) = [Listed(data[i]) EXCEPT !.status = s]
  BY <1>2, <1>3 DEF Listed, Covered, OrderType
<1>5. ListedOrders' = [j \in OrderIdx |-> Listed(data'[j])]
  BY <1>1 DEF ListedOrders, Listed, Covered
<1>6. ListedOrders' = [ListedOrders EXCEPT ![i].status = s]
  BY <1>3, <1>4, <1>5 DEF ListedOrders
<1>. QED
  BY <1>6 DEF List!SetStatus

\* A new order has a larger number than those before it.
LEMMA ListedEnter ==
  ASSUME TypeInv, NEW o, WriteOrder(o)
  PROVE  List!Enter(nextIdx, Listed(o)) /\ DOMAIN ListedOrders = OrderIdx
<1>1. /\ nextIdx \in Nat /\ nextIdx >= FirstIdx /\ FirstIdx \in Nat
      /\ OrderIdx \subseteq DOMAIN data
  BY DEF TypeInv, TypeOK, OrdersType
<1>2. OrderIdx' = OrderIdx \cup {nextIdx} /\ \A j \in OrderIdx : j < nextIdx
  BY <1>1 DEF WriteOrder, OrderIdx
<1>3. data'[nextIdx] = o /\ \A j \in OrderIdx : data'[j] = data[j]
  BY <1>1, <1>2 DEF WriteOrder, Put
<1>4. ListedOrders' = [j \in OrderIdx \cup {nextIdx} |-> Listed(data'[j])]
  BY <1>2 DEF ListedOrders, Listed, Covered
<1>5. DOMAIN ListedOrders = OrderIdx
  BY DEF ListedOrders
<1>6. ListedOrders' = [j \in DOMAIN ListedOrders \cup {nextIdx} |->
                         IF j = nextIdx THEN Listed(o) ELSE ListedOrders[j]]
  BY <1>2, <1>3, <1>4, <1>5 DEF ListedOrders
<1>. QED
  BY <1>2, <1>5, <1>6 DEF List!Enter

\* Seats that nobody touches are free as they were.
LEMMA SameSeats ==
  ASSUME DOMAIN seats' = DOMAIN seats,
         \A k \in DOMAIN seats : SeatsNow(k[1], k[2])' = SeatsNow(k[1], k[2])
  PROVE  FreeSeats' = FreeSeats
BY DEF FreeSeats

\* The segments of one journey change by n seats.
LEMMA FreeChange ==
  ASSUME NEW o, <<o.train, o.day>> \in DOMAIN seats, NEW n,
         DOMAIN seats' = DOMAIN seats,
         \A k \in DOMAIN seats :
           k # <<o.train, o.day>> => SeatsNow(k[1], k[2])' = SeatsNow(k[1], k[2]),
         SeatsNow(o.train, o.day)' =
           [j \in Segments |-> IF j \in Covered(o) THEN SeatsNow(o.train, o.day)[j] + n
                               ELSE SeatsNow(o.train, o.day)[j]]
  PROVE  List!Change(Listed(o), n)
<1>. DEFINE l == <<o.train, o.day>>
<1>1. Listed(o).on = l /\ Listed(o).legs = Covered(o)
  BY DEF Listed
<1>2. DOMAIN FreeSeats = DOMAIN seats /\ FreeSeats[l] = SeatsNow(o.train, o.day)
  BY DEF FreeSeats
<1>3. FreeSeats' = [k \in DOMAIN seats |-> SeatsNow(k[1], k[2])']
  BY DEF FreeSeats
<1>4. FreeSeats' = [FreeSeats EXCEPT ![l] =
                      [j \in Segments |-> IF j \in Covered(o) THEN FreeSeats[l][j] + n
                                          ELSE FreeSeats[l][j]]]
  BY <1>2, <1>3 DEF FreeSeats
<1>. QED
  BY <1>1, <1>4 DEF List!Change

\* No counter is lost and none is found.
LEMMA SameVoid ==
  ASSUME UNCHANGED train, DOMAIN seats' = DOMAIN seats,
         \A k \in DOMAIN seats : Intact(k[1], k[2])' <=> Intact(k[1], k[2])
  PROVE  Void' = Void
BY DEF Void

\* There is room in the list for an order that fits.
LEMMA RoomFits ==
  ASSUME TypeInv, NEW o \in OrderType, o.from < o.to, <<o.train, o.day>> \in DOMAIN seats
  PROVE  List!Room(Listed(o)) <=> Fits(SeatsNow(o.train, o.day), o)
<1>1. FreeSeats[<<o.train, o.day>>] = SeatsNow(o.train, o.day)
  BY DEF FreeSeats
<1>2. o.from \in Covered(o)
  BY DEF Covered, OrderType, Stops
<1>. QED
  BY <1>1, <1>2 DEF List!Room, Listed, Fits

\* The order of a number has its seats in the store.
LEMMA OrderKey ==
  ASSUME TypeInv, NEW i \in OrderIdx
  PROVE  /\ data[i] \in OrderType /\ data[i].from < data[i].to
         /\ <<data[i].train, data[i].day>> \in DOMAIN seats
         /\ SeatsFor(data[i]).seat \in [Segments -> Nat]
         /\ train[data[i].train].released
<1>1. /\ data[i].train \in DOMAIN train /\ data[i].day \in DaysOf(data[i].train)
      /\ train[data[i].train].released
  BY DEF TypeInv, OrdersKeepTheirTrain, OrdersHaveTrains
<1>2. data[i] \in OrderType /\ data[i].from < data[i].to
  BY DEF TypeInv, TypeOK, OrdersType
<1>. QED
  BY <1>1, <1>2, SeatsForOrder

-----------------------------------------------------------------------------
(* Trains and sessions *)

ListKept == UNCHANGED <<ListedOrders, FreeSeats, Serving, Void>>

\* login, logout and a restart are no business of the list's.
LEMMA SessionKeepsList ==
  ASSUME TypeInv, (\E u \in Users : Login(u) \/ Logout(u)) \/ Restart
  PROVE  ListKept
<1>1. UNCHANGED <<train, seats, nextIdx, queue, scan>> /\ \A i \in OrderIdx : data'[i] = data[i]
  <2>1. \A i \in OrderIdx : i \in DOMAIN data /\ i # 0
    BY DEF TypeInv, TypeOK, OrdersType, OrderIdx
  <2>. QED
    BY <2>1 DEF Login, Logout, Restart
<1>2. ListedOrders' = ListedOrders
  BY <1>1, SameOrders
<1>3. FreeSeats' = FreeSeats /\ Serving' = Serving /\ Void' = Void
  BY <1>1 DEF FreeSeats, SeatsNow, ScanningDay, Serving, Void, Intact
<1>. QED
  BY <1>2, <1>3 DEF ListKept

\* add_train opens a list for each day on sale.
LEMMA AddTrainOpens ==
  ASSUME TypeInv, NEW t \in Trains, NEW m \in SeatNums, NEW n \in DayCounts, AddTrain(t, m, n)
  PROVE  List!Next
<1>. DEFINE L == {t} \X (0 .. n - 1)
<1>1. /\ UNCHANGED <<data, nextIdx, queue, scan>> /\ ~scan.on /\ t \notin DOMAIN train
      /\ DOMAIN seats' = DOMAIN seats \cup L
      /\ \A k \in L : seats'[k].seat = [j \in Segments |-> m]
      /\ \A k \in DOMAIN seats \ L : seats'[k] = seats[k]
      /\ DOMAIN train' = DOMAIN train \cup {t} /\ train'[t].released = FALSE
      /\ \A x \in DOMAIN train : train'[x] = train[x]
  BY DEF AddTrain, Ready, Put
<1>2. \A k \in DOMAIN seats : k[1] \in DOMAIN train
  BY SeatsKey
<1>3. DOMAIN seats \cap L = {}
  BY <1>1, <1>2
<1>4. ListedOrders' = ListedOrders
  BY <1>1, SameOrders
<1>5. FreeSeats' = [k \in DOMAIN FreeSeats \cup L |->
                     IF k \in L THEN [j \in Segments |-> m] ELSE FreeSeats[k]]
  <2>1. FreeSeats' = [k \in DOMAIN seats \cup L |-> SeatsNow(k[1], k[2])']
    BY <1>1 DEF FreeSeats
  <2>2. ASSUME NEW k \in DOMAIN seats \cup L
        PROVE  SeatsNow(k[1], k[2])' = IF k \in L THEN [j \in Segments |-> m] ELSE FreeSeats[k]
    <3>1. k = <<k[1], k[2]>>
      BY SeatsKey
    <3>2. SeatsNow(k[1], k[2])' = seats'[k].seat
      BY <1>1, <3>1 DEF SeatsNow, ScanningDay
    <3>3. k \in DOMAIN seats => FreeSeats[k] = seats[k].seat
      BY <1>1, <3>1 DEF FreeSeats, SeatsNow, ScanningDay
    <3>. QED
      BY <1>1, <3>2, <3>3
  <2>. QED
    BY <2>1, <2>2 DEF FreeSeats
<1>6. Serving = {} /\ Serving' = {}
  BY <1>1 DEF Serving
<1>7. Void' = Void
  BY <1>1, <1>2, <1>3 DEF Void, Intact
<1>8. L \in SUBSET (Trains \X Days)
  BY DEF Days
<1>9. DOMAIN FreeSeats = DOMAIN seats
  BY DEF FreeSeats
<1>10. List!Open(L, m)
  BY <1>3, <1>4, <1>5, <1>6, <1>7, <1>9 DEF List!Open
<1>. HIDE DEF L
<1>. QED
  BY <1>8, <1>10 DEF List!Next

\* delete_train closes them again; nobody has ordered yet.
LEMMA DeleteTrainCloses ==
  ASSUME TypeInv, NEW t \in Trains, DeleteTrain(t)
  PROVE  List!Next
<1>. DEFINE L == {t} \X DaysOf(t)
<1>1. /\ UNCHANGED <<data, nextIdx, queue, scan>> /\ ~scan.on
      /\ t \in DOMAIN train /\ ~train[t].released
      /\ DOMAIN seats' = DOMAIN seats \ L
      /\ \A k \in DOMAIN seats \ L : seats'[k] = seats[k]
      /\ \A x \in DOMAIN train \ {t} : train'[x] = train[x]
  BY DEF DeleteTrain, Ready, RemoveKeys
<1>2. \A k \in DOMAIN seats : k = <<k[1], k[2]>> /\ k[1] \in DOMAIN train /\ k[2] \in DaysOf(k[1])
  BY SeatsKey DEF TypeInv, OrdersKeepTheirTrain, SeatsMatchTrains
<1>3. \A k \in DOMAIN seats : k \in L <=> k[1] = t
  BY <1>2
<1>4. ListedOrders' = ListedOrders
  BY <1>1, SameOrders
<1>5. FreeSeats' = [k \in DOMAIN FreeSeats \ L |-> FreeSeats[k]]
  <2>1. FreeSeats' = [k \in DOMAIN seats \ L |-> SeatsNow(k[1], k[2])']
    BY <1>1 DEF FreeSeats
  <2>2. \A k \in DOMAIN seats \ L : SeatsNow(k[1], k[2])' = SeatsNow(k[1], k[2])
    BY <1>1, <1>2 DEF SeatsNow, ScanningDay
  <2>. QED
    BY <2>1, <2>2 DEF FreeSeats
<1>6. Serving = {} /\ Serving' = {}
  BY <1>1 DEF Serving
<1>7. Void' = Void
  BY <1>1, <1>2, <1>3 DEF Void, Intact
<1>8. L \in SUBSET (Trains \X Days)
  <2>1. train[t].days \in DayCounts
    BY <1>1 DEF TypeInv, TypeOK, TrainsType
  <2>. QED
    BY <2>1 DEF Days, DaysOf
<1>9. \A i \in DOMAIN ListedOrders : ListedOrders[i].on \notin L
  <2>. SUFFICES ASSUME NEW i \in OrderIdx PROVE <<data[i].train, data[i].day>> \notin L
    BY DEF ListedOrders, Listed
  <2>. QED
    BY <1>1, OrderKey
<1>10. List!Close(L)
  BY <1>4, <1>5, <1>6, <1>7, <1>9 DEF List!Close
<1>. HIDE DEF L
<1>. QED
  BY <1>8, <1>10 DEF List!Next

\* release_train puts the counters in: the new lists are not void.
LEMMA ReleaseTrainKeepsList ==
  ASSUME TypeInv, NEW t \in Trains, ReleaseTrain(t)
  PROVE  ListKept
<1>1. /\ UNCHANGED <<seats, data, nextIdx, scan>> /\ t \in DOMAIN train /\ ~train[t].released
      /\ train' = [train EXCEPT ![t].released = TRUE]
      /\ DOMAIN queue' = DOMAIN queue \cup {Sentinel(t, d) : d \in DaysOf(t)}
  BY DEF ReleaseTrain
<1>2. \A k \in DOMAIN seats : k[1] \in DOMAIN train /\ k[2] \in DaysOf(k[1])
  BY SeatsKey DEF TypeInv, OrdersKeepTheirTrain, SeatsMatchTrains
<1>3. ASSUME NEW k \in DOMAIN seats
      PROVE  train'[k[1]].released /\ ~Intact(k[1], k[2])' <=> train[k[1]].released /\ ~Intact(k[1], k[2])
  <2>1. CASE k[1] = t
    BY <1>1, <1>2, <2>1 DEF Intact
  <2>2. CASE k[1] # t
    <3>1. train'[k[1]] = train[k[1]]
      BY <1>1, <1>2, <2>2
    <3>2. Intact(k[1], k[2])' <=> Intact(k[1], k[2])
      BY <1>1, <2>2 DEF Intact, Sentinel
    <3>. QED
      BY <3>1, <3>2
  <2>. QED
    BY <2>1, <2>2
<1>4. Void' = Void
  BY <1>1, <1>3 DEF Void
<1>5. ListedOrders' = ListedOrders
  BY <1>1, SameOrders
<1>. QED
  BY <1>1, <1>4, <1>5 DEF ListKept, FreeSeats, SeatsNow, ScanningDay, Serving

-----------------------------------------------------------------------------
(* Orders *)

\* The record of one list is written while no loop runs, or the loop over this
\* list begins with what was written.
LEMMA SeatsWritten ==
  ASSUME TypeInv, ~scan.on, NEW l \in DOMAIN seats, NEW x,
         seats' = [seats EXCEPT ![l].seat = x],
         \/ ~scan'.on
         \/ scan'.on /\ scan'.train = l[1] /\ scan'.day = l[2] /\ scan'.seat = x
  PROVE  /\ DOMAIN seats' = DOMAIN seats
         /\ \A k \in DOMAIN seats :
              SeatsNow(k[1], k[2])' = IF k = l THEN x ELSE SeatsNow(k[1], k[2])
<1>1. DOMAIN seats' = DOMAIN seats
  OBVIOUS
<1>2. ASSUME NEW k \in DOMAIN seats
      PROVE  SeatsNow(k[1], k[2])' = IF k = l THEN x ELSE SeatsNow(k[1], k[2])
  <2>1. k = <<k[1], k[2]>> /\ l = <<l[1], l[2]>>
    BY SeatsKey
  <2>2. SeatsNow(k[1], k[2]) = seats[k].seat
    BY <2>1 DEF SeatsNow, ScanningDay
  <2>3. seats[k] \in [seat : [Segments -> Nat], max : SeatNums]
    BY DEF TypeInv, TypeOK, SeatsType
  <2>4. CASE k = l
    <3>1. seats'[k].seat = x
      BY <2>3, <2>4
    <3>. QED
      BY <2>1, <2>4, <3>1 DEF SeatsNow, ScanningDay
  <2>5. CASE k # l
    <3>1. seats'[k] = seats[k]
      BY <2>5
    <3>. QED
      BY <2>1, <2>2, <2>5, <3>1 DEF SeatsNow, ScanningDay
  <2>. QED
    BY <2>4, <2>5
<1>. QED
  BY <1>1, <1>2

\* What a request looks like in the list.
LEMMA ListedRequest ==
  ASSUME TypeInv, NEW u \in Users, NEW s \in {Pending, Success}, NEW o \in Requests(s),
         CanOrder(u, o)
  PROVE  /\ o \in OrderType /\ o.from < o.to /\ o.status = s
         /\ <<o.train, o.day>> \in DOMAIN seats
         /\ SeatsFor(o).seat = SeatsNow(o.train, o.day)
         /\ Listed(o) = [on |-> <<o.train, o.day>>, legs |-> Covered(o), num |-> o.num, status |-> s]
         /\ nextIdx \in FirstIdx .. FirstIdx + MaxOrders - 1
         /\ <<o.train, o.day>> \in DOMAIN FreeSeats
         /\ Covered(o) \in SUBSET Segments /\ o.num \in TicketNums
<1>1. /\ ~scan.on /\ o.from < o.to /\ o.train \in DOMAIN train /\ o.day \in DaysOf(o.train)
      /\ nextIdx < FirstIdx + MaxOrders
  BY DEF CanOrder, OnSale, Ready
<1>2. o \in OrderType /\ o.status = s
  BY RequestType
<1>3. <<o.train, o.day>> \in DOMAIN seats
  BY <1>1, SeatsForOrder
<1>4. SeatsFor(o).seat = SeatsNow(o.train, o.day)
  BY <1>1 DEF SeatsFor, SeatsNow, ScanningDay
<1>5. nextIdx \in FirstIdx .. FirstIdx + MaxOrders - 1
  BY <1>1 DEF TypeInv, TypeOK, OrdersType
<1>6. Covered(o) \in SUBSET Segments
  BY <1>1, <1>2, CoveredInSegments
<1>7. o.num \in TicketNums
  BY DEF Requests, NewOrder
<1>. QED
  BY <1>1, <1>2, <1>3, <1>4, <1>5, <1>6, <1>7 DEF Listed, FreeSeats

\* buy_ticket with seats enough buys.
LEMMA BuySeatsBuys ==
  ASSUME TypeInv, NEW u \in Users, NEW o \in Requests(Success), BuySeats(u, o)
  PROVE  List!Next
<1>1. /\ UNCHANGED <<train, queue, scan>> /\ ~scan.on /\ CanOrder(u, o) /\ WriteOrder(o)
      /\ Fits(SeatsFor(o).seat, o)
      /\ seats' = [seats EXCEPT ![<<o.train, o.day>>].seat = Take(@, o)]
  BY DEF BuySeats, CanOrder, Ready
<1>2. /\ o \in OrderType /\ o.from < o.to /\ o.status = Success
      /\ <<o.train, o.day>> \in DOMAIN seats
      /\ SeatsFor(o).seat = SeatsNow(o.train, o.day)
      /\ Listed(o) = [on |-> <<o.train, o.day>>, legs |-> Covered(o), num |-> o.num,
                      status |-> Success]
      /\ nextIdx \in FirstIdx .. FirstIdx + MaxOrders - 1
      /\ <<o.train, o.day>> \in DOMAIN FreeSeats
      /\ Covered(o) \in SUBSET Segments /\ o.num \in TicketNums
  BY <1>1, ListedRequest
<1>3. List!Enter(nextIdx, Listed(o))
  BY <1>1, ListedEnter
<1>4. List!Room(Listed(o))
  BY <1>1, <1>2, RoomFits
<1>5. PICK x : x = Take(SeatsNow(o.train, o.day), o)
  OBVIOUS
<1>6. seats' = [seats EXCEPT ![<<o.train, o.day>>].seat = x]
  BY <1>1, <1>2, <1>5 DEF SeatsFor
<1>7. /\ DOMAIN seats' = DOMAIN seats
      /\ \A k \in DOMAIN seats : SeatsNow(k[1], k[2])' =
           IF k = <<o.train, o.day>> THEN x ELSE SeatsNow(k[1], k[2])
  BY <1>1, <1>2, <1>6, SeatsWritten
<1>8. List!Change(Listed(o), -o.num)
  <2>1. SeatsNow(o.train, o.day) \in [Segments -> Nat]
    BY <1>2, SeatsNowType
  <2>2. x = [j \in Segments |-> IF j \in Covered(o) THEN SeatsNow(o.train, o.day)[j] + (-o.num)
                                ELSE SeatsNow(o.train, o.day)[j]]
    BY <1>2, <1>5, <2>1 DEF Take, OrderType
  <2>3. SeatsNow(o.train, o.day)' = x
    BY <1>2, <1>7
  <2>4. PICK n : n = -o.num
    OBVIOUS
  <2>. QED
    BY <1>2, <1>7, <2>2, <2>3, <2>4, FreeChange
<1>9. Serving = {} /\ Serving' = Serving
  BY <1>1 DEF Serving
<1>10. Void' = Void
  BY <1>1, <1>7, SameVoid DEF Intact
<1>11. List!Buy(nextIdx, Listed(o))
  BY <1>2, <1>3, <1>4, <1>8, <1>9, <1>10 DEF List!Buy, Listed
<1>. QED
  BY <1>2, <1>11 DEF List!Next

\* buy_ticket without seats enough waits; the entry it makes is no counter.
LEMMA JoinQueueWaits ==
  ASSUME TypeInv, NEW u \in Users, NEW o \in Requests(Pending), JoinQueue(u, o) \/ JoinQueueCrash(u, o)
  PROVE  List!Next
<1>1. /\ UNCHANGED <<train, seats, scan>> /\ ~scan.on /\ CanOrder(u, o) /\ WriteOrder(o)
      /\ ~Fits(SeatsFor(o).seat, o)
  BY DEF JoinQueue, JoinQueueCrash, CanOrder, Ready, MustWait
<1>2. /\ o \in OrderType /\ o.from < o.to /\ o.status = Pending
      /\ <<o.train, o.day>> \in DOMAIN seats
      /\ SeatsFor(o).seat = SeatsNow(o.train, o.day)
      /\ Listed(o) = [on |-> <<o.train, o.day>>, legs |-> Covered(o), num |-> o.num,
                      status |-> Pending]
      /\ nextIdx \in FirstIdx .. FirstIdx + MaxOrders - 1
      /\ <<o.train, o.day>> \in DOMAIN FreeSeats
      /\ Covered(o) \in SUBSET Segments /\ o.num \in TicketNums
  BY <1>1, ListedRequest
<1>3. List!Enter(nextIdx, Listed(o))
  BY <1>1, ListedEnter
<1>4. ~List!Room(Listed(o))
  BY <1>1, <1>2, RoomFits
<1>5. \A t, d : Intact(t, d)' <=> Intact(t, d)
  <2>1. CASE UNCHANGED queue
    BY <2>1 DEF Intact
  <2>2. CASE JoinQueue(u, o)
    <3>1. PICK c \in DOMAIN queue : EnqueueAt(c, o)
      BY <2>2 DEF JoinQueue
    <3>2. DOMAIN queue' = DOMAIN queue \cup {<<o.train, o.day, queue[c] + 1>>}
      BY <3>1 DEF EnqueueAt, Put
    <3>3. queue[c] + 1 # 0
      <4>1. queue[c] \in Nat
        BY DEF TypeInv, TypeOK, QueueType
      <4>. QED
        BY <4>1
    <3>. QED
      BY <3>2, <3>3 DEF Intact, Sentinel
  <2>. QED
    BY <2>1, <2>2 DEF JoinQueueCrash
<1>6. Serving = {} /\ Serving' = Serving
  BY <1>1 DEF Serving
<1>7. Void' = Void
  BY <1>1, <1>5, SameVoid
<1>8. FreeSeats' = FreeSeats
  BY <1>1 DEF FreeSeats, SeatsNow, ScanningDay
<1>9. List!Wait(nextIdx, Listed(o))
  BY <1>2, <1>3, <1>4, <1>6, <1>7, <1>8 DEF List!Wait, Listed
<1>. QED
  BY <1>2, <1>9 DEF List!Next

\* refund_ticket of an order that waits cancels it.
LEMMA CancelWaitingCancels ==
  ASSUME TypeInv, NEW u \in Users, NEW n \in 1 .. MaxOrders, CancelWaiting(u, n)
  PROVE  List!Next
<1>1. PICK i : i = NthNewest(u, n)
  OBVIOUS
<1>2. /\ UNCHANGED <<train, seats, nextIdx, queue, scan>> /\ ~scan.on
      /\ n \in 1 .. Len(history[u]) /\ data[i].status = Pending /\ SetStatus(i, Refunded)
  BY <1>1 DEF CancelWaiting, CanRefund, Ready
<1>3. i \in OrderIdx
  BY <1>1, <1>2, NthNewestType
<1>4. List!SetStatus(i, Refunded)
  BY <1>2, <1>3, ListedStatus
<1>5. i \in DOMAIN ListedOrders /\ ListedOrders[i].status = Pending
  BY <1>2, <1>3 DEF ListedOrders, Listed
<1>6. Serving = {} /\ Serving' = Serving /\ FreeSeats' = FreeSeats /\ Void' = Void
  BY <1>2 DEF Serving, FreeSeats, SeatsNow, ScanningDay, Void, Intact
<1>7. List!Cancel(i)
  BY <1>4, <1>5, <1>6 DEF List!Cancel
<1>. QED
  BY <1>5, <1>7 DEF List!Next

\* refund_ticket of an order that has its seats gives them back, and begins to
\* serve; a process that finds no counter and no entry behind it dies instead.
LEMMA RefundRefunds ==
  ASSUME TypeInv, NEW u \in Users, NEW n \in 1 .. MaxOrders, RefundSeats(u, n) \/ RefundCrash(u, n)
  PROVE  List!Next
<1>1. PICK i : i = NthNewest(u, n)
  OBVIOUS
<1>2. PICK o : o = data[i]
  OBVIOUS
<1>3. /\ UNCHANGED <<train, nextIdx, queue>> /\ ~scan.on
      /\ n \in 1 .. Len(history[u]) /\ o.status = Success /\ SetStatus(i, Refunded)
      /\ seats' = [seats EXCEPT ![<<o.train, o.day>>].seat = Give(@, o)]
      /\ \/ ~scan'.on /\ PastTheEnd(Sentinel(o.train, o.day))
         \/ /\ scan'.on /\ scan'.train = o.train /\ scan'.day = o.day
            /\ scan'.seat = Give(SeatsFor(o).seat, o)
  BY <1>1, <1>2 DEF RefundSeats, RefundCrash, CanRefund, Ready
<1>4. i \in OrderIdx
  BY <1>1, <1>3, NthNewestType
<1>5. /\ o \in OrderType /\ o.from < o.to /\ <<o.train, o.day>> \in DOMAIN seats
      /\ train[o.train].released
  BY <1>2, <1>4, OrderKey
<1>6. SeatsFor(o).seat = SeatsNow(o.train, o.day) /\ seats[<<o.train, o.day>>].seat = SeatsFor(o).seat
  BY <1>3 DEF SeatsFor, SeatsNow, ScanningDay
<1>7. PICK x : x = Give(SeatsNow(o.train, o.day), o)
  OBVIOUS
<1>8. seats' = [seats EXCEPT ![<<o.train, o.day>>].seat = x]
  BY <1>3, <1>6, <1>7
<1>9. \/ ~scan'.on /\ PastTheEnd(Sentinel(o.train, o.day))
      \/ scan'.on /\ scan'.train = o.train /\ scan'.day = o.day /\ scan'.seat = x
  BY <1>3, <1>6, <1>7
<1>10. /\ DOMAIN seats' = DOMAIN seats
       /\ \A k \in DOMAIN seats : SeatsNow(k[1], k[2])' =
            IF k = <<o.train, o.day>> THEN x ELSE SeatsNow(k[1], k[2])
  <2>1. PICK l : l = <<o.train, o.day>>
    OBVIOUS
  <2>2. l[1] = o.train /\ l[2] = o.day
    BY <2>1
  <2>. QED
    BY <1>3, <1>5, <1>8, <1>9, <2>1, <2>2, SeatsWritten
<1>11. List!Change(Listed(o), o.num)
  <2>1. SeatsNow(o.train, o.day) \in [Segments -> Nat]
    BY <1>5, SeatsNowType
  <2>2. x = [j \in Segments |-> IF j \in Covered(o) THEN SeatsNow(o.train, o.day)[j] + o.num
                                ELSE SeatsNow(o.train, o.day)[j]]
    BY <1>7, <2>1 DEF Give
  <2>3. SeatsNow(o.train, o.day)' = x
    BY <1>5, <1>10
  <2>4. PICK m : m = o.num
    OBVIOUS
  <2>. QED
    BY <1>5, <1>10, <2>2, <2>3, <2>4, FreeChange
<1>12. List!SetStatus(i, Refunded)
  BY <1>3, <1>4, ListedStatus
<1>13. i \in DOMAIN ListedOrders /\ ListedOrders[i] = Listed(o)
  BY <1>2, <1>4 DEF ListedOrders
<1>14. Void' = Void
  BY <1>3, <1>10, SameVoid DEF Intact
<1>15. Serving = {}
  BY <1>3 DEF Serving
<1>16. Serving' = {<<o.train, o.day>>} \/ (Serving' = {} /\ <<o.train, o.day>> \in Void)
  <2>1. CASE scan'.on
    <3>1. scan'.train = o.train /\ scan'.day = o.day
      BY <1>9, <2>1
    <3>. QED
      BY <2>1, <3>1 DEF Serving
  <2>2. CASE ~scan'.on
    <3>1. o.train \in Nat /\ o.day \in Nat
      BY <1>5 DEF OrderType
    <3>2. ~Intact(o.train, o.day)
      BY <1>9, <2>2, <3>1, CounterIsFound
    <3>. QED
      BY <1>5, <2>2, <3>2 DEF Serving, Void
  <2>. QED
    BY <2>1, <2>2
<1>17. /\ Listed(o).on = <<o.train, o.day>> /\ Listed(o).num = o.num
       /\ Listed(o).status = Success
  BY <1>3 DEF Listed
<1>18. List!Refund(i)
  BY <1>11, <1>12, <1>13, <1>14, <1>15, <1>16, <1>17 DEF List!Refund
<1>. QED
  BY <1>13, <1>18 DEF List!Next

-----------------------------------------------------------------------------
(* The loop of a refund *)

\* An order that could be served now is still before the loop, unless the
\* promise is void.
LEMMA ServableEntry ==
  ASSUME QueueInv, scan.on, NEW i \in List!Servable(<<scan.train, scan.day>>)
  PROVE  /\ i \in OrderIdx /\ data[i].status = Pending /\ Fits(scan.seat, data[i])
         /\ <<scan.train, scan.day>> \notin Void =>
              Intact(scan.train, scan.day) /\ \E q \in scan.todo : q.idx = i
<1>1. TypeInv /\ ScanCovers
  BY DEF QueueInv, ServeInv
<1>2. /\ i \in OrderIdx /\ data[i].status = Pending /\ List!Room(Listed(data[i]))
      /\ <<data[i].train, data[i].day>> = <<scan.train, scan.day>>
  BY DEF List!Servable, ListedOrders, Listed
<1>3. data[i].train = scan.train /\ data[i].day = scan.day
  BY <1>2
<1>4. /\ data[i] \in OrderType /\ data[i].from < data[i].to
      /\ <<data[i].train, data[i].day>> \in DOMAIN seats /\ train[data[i].train].released
  BY <1>1, <1>2, OrderKey
<1>5. Fits(SeatsNow(data[i].train, data[i].day), data[i])
  <2>1. PICK o : o = data[i]
    OBVIOUS
  <2>. QED
    BY <1>1, <1>2, <1>4, <2>1, RoomFits
<1>6. Fits(scan.seat, data[i])
  BY <1>3, <1>5 DEF SeatsNow, ScanningDay
<1>7. <<scan.train, scan.day>> \notin Void => Intact(scan.train, scan.day)
  BY <1>3, <1>4 DEF Void
<1>. QED
  BY <1>1, <1>2, <1>3, <1>6, <1>7 DEF ScanCovers

\* One iteration serves the list it served, and sees the seats it leaves.
LEMMA TurnKeeps ==
  ASSUME TypeInv, NEW p, Visiting(p), NEW seat, Advance(p, seat), UNCHANGED <<train, seats>>
  PROVE  /\ Serving = {<<scan.train, scan.day>>} /\ Serving' = Serving
         /\ <<scan.train, scan.day>> \in DOMAIN seats /\ scan.seat \in [Segments -> Nat]
         /\ SeatsNow(scan.train, scan.day) = scan.seat
         /\ DOMAIN seats' = DOMAIN seats
         /\ \A k \in DOMAIN seats : SeatsNow(k[1], k[2])' =
              IF k = <<scan.train, scan.day>> THEN seat ELSE SeatsNow(k[1], k[2])
<1>1. scan \in ScanType /\ scan.on /\ <<scan.train, scan.day>> \in DOMAIN seats
  BY EntryType DEF Visiting
<1>2. scan'.on /\ scan'.train = scan.train /\ scan'.day = scan.day /\ scan'.seat = seat
  BY <1>1 DEF Advance, ScanType
<1>3. ASSUME NEW k \in DOMAIN seats
      PROVE  SeatsNow(k[1], k[2])' =
               IF k = <<scan.train, scan.day>> THEN seat ELSE SeatsNow(k[1], k[2])
  <2>1. k = <<k[1], k[2]>>
    BY SeatsKey
  <2>2. k = <<scan.train, scan.day>> <=> ScanningDay(k[1], k[2])
    BY <1>1, <2>1 DEF ScanningDay
  <2>. QED
    BY <1>1, <1>2, <2>2 DEF SeatsNow, ScanningDay
<1>4. SeatsNow(scan.train, scan.day) = scan.seat
  BY <1>1 DEF SeatsNow, ScanningDay
<1>5. Serving = {<<scan.train, scan.day>>} /\ Serving' = Serving
  BY <1>1, <1>2 DEF Serving
<1>. QED
  BY <1>1, <1>3, <1>4, <1>5 DEF ScanType

\* An entry that is taken out is no counter.
LEMMA EntryTaken ==
  ASSUME TypeInv, NEW p, p.id # 0, Dequeue(p), UNCHANGED <<train, seats>>
  PROVE  Void' = Void
<1>1. \A t, d : Intact(t, d)' <=> Intact(t, d)
  BY DEF Intact, Sentinel, Dequeue, RemoveKeys
<1>. QED
  BY <1>1, SameVoid

\* A loop that has come to the unused elements of its vector has no order left
\* to serve; it takes the counter, and from then on the promise is void.
LEMMA CounterTaken ==
  ASSUME QueueInv, NEW p, Visiting(p), p.id = 0, Dequeue(p), UNCHANGED <<train, seats>>,
         ListedOrders' = ListedOrders, FreeSeats' = FreeSeats, Serving' = Serving
  PROVE  List!Next \/ ListKept
<1>0. PICK t, d : t = scan.train /\ d = scan.day
  OBVIOUS
<1>. DEFINE l == <<t, d>>
<1>1. TypeInv
  BY DEF QueueInv, ServeInv
<1>2. scan.on /\ l \in DOMAIN seats /\ l \in Serving
  BY <1>0, <1>1, EntryType DEF Visiting, Serving
<1>3. scan.todo = {}
  BY <1>1 DEF Visiting, NextEntries, TypeInv, ScanRefs
<1>4. ASSUME NEW k \in DOMAIN seats, k # l
      PROVE  Intact(k[1], k[2])' <=> Intact(k[1], k[2])
  <2>1. k = <<k[1], k[2]>>
    BY <1>1, SeatsKey
  <2>. QED
    BY <1>0, <1>4, <2>1 DEF Intact, Sentinel, Dequeue, RemoveKeys
<1>5. ~Intact(t, d)'
  BY <1>0 DEF Intact, Sentinel, Dequeue, RemoveKeys
<1>6. CASE ~Intact(t, d)
  <2>1. \A k \in DOMAIN seats : Intact(k[1], k[2])' <=> Intact(k[1], k[2])
    <3>1. \A k \in DOMAIN seats : k = l => k[1] = t /\ k[2] = d
      OBVIOUS
    <3>. QED
      BY <1>4, <1>5, <1>6, <3>1
  <2>2. Void' = Void
    BY <2>1, SameVoid
  <2>. QED
    BY <2>2 DEF ListKept
<1>7. CASE Intact(t, d)
  <2>1. train[t].released
    BY <1>1, <1>7 DEF Intact, Sentinel, TypeInv, QueueRefs
  <2>2. ASSUME NEW k \in DOMAIN seats
        PROVE  train'[k[1]].released /\ ~Intact(k[1], k[2])' <=>
                 (train[k[1]].released /\ ~Intact(k[1], k[2])) \/ k = l
    <3>1. CASE k = l
      <4>1. k[1] = t /\ k[2] = d
        BY <3>1
      <4>. QED
        BY <1>5, <2>1, <3>1, <4>1
    <3>2. CASE k # l
      BY <1>4, <3>2
    <3>. QED
      BY <3>1, <3>2
  <2>3. Void' = Void \cup {l}
    BY <1>2, <2>2 DEF Void
  <2>4. List!Servable(l) = {}
    <3>1. l \notin Void
      BY <1>7 DEF Void
    <3>. QED
      BY <1>0, <1>2, <1>3, <3>1, ServableEntry
  <2>5. List!Lose(l)
    BY <1>2, <2>3, <2>4 DEF List!Lose
  <2>6. l \in Trains \X Days
    BY <1>1, <1>2 DEF TypeInv, OrdersKeepTheirTrain, SeatsMatchTrains
  <2>. HIDE DEF l
  <2>. QED
    BY <2>5, <2>6 DEF List!Next
<1>. QED
  BY <1>6, <1>7

\* An entry that is dropped or skipped, and an unused element that is counted
\* as served, change no order and no free seat.
LEMMA EntryPassed ==
  ASSUME QueueInv, NEW p, DropEntry(p) \/ SkipEntry(p) \/ (ServeEntry(p) /\ p.idx = 0)
  PROVE  List!Next \/ ListKept
<1>1. TypeInv
  BY DEF QueueInv, ServeInv
<1>2. Visiting(p) /\ UNCHANGED <<train, seats, nextIdx>> /\ (Dequeue(p) \/ UNCHANGED queue)
  BY DEF DropEntry, SkipEntry, ServeEntry
<1>3. /\ scan \in ScanType /\ 0 \notin OrderIdx
      /\ data[0] \in HeaderType
  BY <1>1, <1>2, EntryType DEF TypeInv, TypeOK, OrdersType, OrderIdx
<1>4. Advance(p, scan.seat)
  <2>1. CASE ServeEntry(p) /\ p.idx = 0
    <3>1. Covered(data[0]) = {}
      BY <1>3 DEF HeaderType, BlankOrder, NewOrder, Covered
    <3>2. Take(scan.seat, data[0]) = scan.seat
      BY <1>3, <3>1 DEF Take, ScanType
    <3>. QED
      BY <2>1, <3>2 DEF ServeEntry
  <2>. QED
    BY <2>1 DEF DropEntry, SkipEntry
<1>5. \A i \in OrderIdx : data'[i] = data[i]
  <2>1. UNCHANGED data \/ SetStatus(0, Success)
    BY DEF DropEntry, SkipEntry, ServeEntry
  <2>2. \A i \in OrderIdx : i \in DOMAIN data /\ i # 0
    BY <1>1, <1>3 DEF TypeInv, TypeOK, OrdersType
  <2>. QED
    BY <2>1, <2>2 DEF SetStatus
<1>6. ListedOrders' = ListedOrders
  BY <1>2, <1>5, SameOrders
<1>7. PICK seat : seat = scan.seat
  OBVIOUS
<1>8. /\ Serving' = Serving /\ DOMAIN seats' = DOMAIN seats
      /\ SeatsNow(scan.train, scan.day) = seat
      /\ \A k \in DOMAIN seats : SeatsNow(k[1], k[2])' =
           IF k = <<scan.train, scan.day>> THEN seat ELSE SeatsNow(k[1], k[2])
  BY <1>1, <1>2, <1>4, <1>7, TurnKeeps
<1>9. FreeSeats' = FreeSeats
  BY <1>8, SameSeats
<1>10. CASE UNCHANGED queue
  <2>1. Void' = Void
    BY <1>2, <1>10 DEF Void, Intact
  <2>. QED
    BY <1>6, <1>8, <1>9, <2>1 DEF ListKept
<1>11. CASE Dequeue(p) /\ p.id # 0
  <2>1. Void' = Void
    BY <1>1, <1>2, <1>11, EntryTaken
  <2>. QED
    BY <1>6, <1>8, <1>9, <2>1 DEF ListKept
<1>12. CASE Dequeue(p) /\ p.id = 0
  BY <1>2, <1>6, <1>8, <1>9, <1>12, CounterTaken
<1>. QED
  BY <1>2, <1>10, <1>11, <1>12

\* Entries are visited in the order of purchase: an order still to be visited
\* is not older than the one that is visited now.
LEMMA OldestIsNext ==
  ASSUME QueueInv, NEW p, Visiting(p), p \in scan.todo, Intact(scan.train, scan.day),
         NEW q \in scan.todo
  PROVE  p.idx \in Nat /\ q.idx \in Nat /\ p.idx <= q.idx
<1>1. TypeInv /\ ScanCovers /\ EntriesOrdered /\ QueueType
  BY DEF QueueInv, ServeInv, TypeInv, TypeOK
<1>2. scan.on /\ p.id # 0 /\ p.id <= q.id
  BY <1>1 DEF Visiting, NextEntries, TypeInv, ScanRefs
<1>. DEFINE kp == <<scan.train, scan.day, p.id>>
            kq == <<scan.train, scan.day, q.id>>
<1>3. kp \in DOMAIN queue /\ queue[kp] = p.idx /\ kq \in DOMAIN queue /\ queue[kq] = q.idx
  BY <1>1, <1>2 DEF ScanCovers
<1>4. p.id \in Nat /\ q.id \in Nat /\ p.idx \in Nat /\ q.idx \in Nat
  BY <1>1, <1>3, KeyType
<1>5. CASE p.id = q.id
  BY <1>3, <1>4, <1>5
<1>6. CASE p.id # q.id
  <2>1. p.id < q.id
    BY <1>2, <1>4, <1>6
  <2>2. queue[kp] < queue[kq]
    BY <1>1, <1>2, <1>3, <2>1 DEF EntriesOrdered
  <2>. QED
    BY <1>3, <1>4, <2>2
<1>. QED
  BY <1>5, <1>6

\* The order that the loop serves is the oldest one that fits.
LEMMA EntryServed ==
  ASSUME QueueInv, NEW p, ServeEntry(p), p.idx # 0
  PROVE  List!Next
<1>1. TypeInv /\ ScanSound
  BY DEF QueueInv, ServeInv
<1>2. PICK i, o : i = p.idx /\ o = data[i]
  OBVIOUS
<1>3. PICK seat : seat = Take(scan.seat, o)
  OBVIOUS
<1>4. /\ Visiting(p) /\ scan.on /\ UNCHANGED <<train, seats, nextIdx>> /\ Dequeue(p)
      /\ o.status = Pending /\ Fits(scan.seat, o) /\ SetStatus(i, Success)
      /\ Advance(p, seat)
  BY <1>2, <1>3 DEF ServeEntry, Visiting
<1>5. p \in scan.todo
  BY <1>4 DEF Visiting, NextEntries
<1>6. i \in OrderIdx /\ p.id # 0
  BY <1>1, <1>2, <1>4, <1>5 DEF TypeInv, ScanRefs
<1>7. o \in OrderType /\ o.from < o.to /\ <<o.train, o.day>> \in DOMAIN seats
  BY <1>1, <1>2, <1>6, OrderKey
<1>8. o.train = scan.train /\ o.day = scan.day
  BY <1>1, <1>2, <1>4, <1>5 DEF ScanSound
<1>9. /\ Serving = {<<o.train, o.day>>} /\ Serving' = Serving
      /\ scan.seat \in [Segments -> Nat] /\ SeatsNow(o.train, o.day) = scan.seat
      /\ DOMAIN seats' = DOMAIN seats
      /\ \A k \in DOMAIN seats : SeatsNow(k[1], k[2])' =
           IF k = <<o.train, o.day>> THEN seat ELSE SeatsNow(k[1], k[2])
  BY <1>1, <1>4, <1>8, TurnKeeps
<1>10. List!SetStatus(i, Success)
  BY <1>1, <1>4, <1>6, ListedStatus
<1>11. List!Change(Listed(o), -o.num)
  <2>1. seat = [j \in Segments |-> IF j \in Covered(o) THEN SeatsNow(o.train, o.day)[j] + (-o.num)
                                   ELSE SeatsNow(o.train, o.day)[j]]
    BY <1>3, <1>7, <1>9 DEF Take, OrderType
  <2>2. SeatsNow(o.train, o.day)' = seat
    BY <1>7, <1>9
  <2>3. PICK n : n = -o.num
    OBVIOUS
  <2>. QED
    BY <1>7, <1>9, <2>1, <2>2, <2>3, FreeChange
<1>12. Void' = Void
  BY <1>1, <1>4, <1>6, EntryTaken
<1>13. /\ i \in DOMAIN ListedOrders /\ ListedOrders[i] = Listed(o)
       /\ Listed(o).on = <<o.train, o.day>> /\ Listed(o).status = Pending
       /\ Listed(o).num = o.num
  BY <1>2, <1>4, <1>6 DEF ListedOrders, Listed
<1>14. i \in List!Servable(<<o.train, o.day>>)
  <2>1. List!Room(Listed(o))
    BY <1>1, <1>4, <1>7, <1>9, RoomFits
  <2>. QED
    BY <1>13, <2>1 DEF List!Servable
<1>15. ASSUME <<o.train, o.day>> \notin Void, NEW j \in List!Servable(<<o.train, o.day>>)
       PROVE  i <= j
  <2>1. Intact(scan.train, scan.day) /\ \E q \in scan.todo : q.idx = j
    BY <1>4, <1>8, <1>15, ServableEntry
  <2>. QED
    BY <1>2, <1>4, <1>5, <2>1, OldestIsNext
<1>16. List!Serve(i)
  BY <1>9, <1>10, <1>11, <1>12, <1>13, <1>14, <1>15 DEF List!Serve
<1>. QED
  BY <1>13, <1>16 DEF List!Next

\* A loop that ends has visited every order that fits.
LEMMA EndScanIsDone ==
  ASSUME QueueInv, EndScan
  PROVE  List!Next
<1>1. TypeInv /\ ScanCovers
  BY DEF QueueInv, ServeInv
<1>2. /\ scan.on /\ scan.left = 0 /\ ~scan'.on /\ UNCHANGED <<train, data, nextIdx, queue>>
      /\ seats' = [seats EXCEPT ![<<scan.train, scan.day>>].seat = scan.seat]
  BY DEF EndScan, Idle
<1>3. PICK l : l = <<scan.train, scan.day>>
  OBVIOUS
<1>4. l \in DOMAIN seats
  BY <1>1, <1>2, <1>3 DEF TypeInv, ScanRefs
<1>5. Serving = {l} /\ Serving' = {}
  BY <1>2, <1>3 DEF Serving
<1>6. ListedOrders' = ListedOrders
  BY <1>2, SameOrders
<1>7. DOMAIN seats' = DOMAIN seats
  BY <1>2
<1>8. ASSUME NEW k \in DOMAIN seats
      PROVE  SeatsNow(k[1], k[2])' = SeatsNow(k[1], k[2])
  <2>1. k = <<k[1], k[2]>>
    BY <1>1, SeatsKey
  <2>2. seats[k] \in [seat : [Segments -> Nat], max : SeatNums]
    BY <1>1 DEF TypeInv, TypeOK, SeatsType
  <2>3. CASE k = l
    <3>1. seats'[k].seat = scan.seat
      BY <1>2, <1>3, <2>2, <2>3
    <3>. QED
      BY <1>2, <1>3, <2>1, <2>3, <3>1 DEF SeatsNow, ScanningDay
  <2>4. CASE k # l
    <3>1. seats'[k] = seats[k]
      BY <1>2, <1>3, <2>4
    <3>. QED
      BY <1>2, <1>3, <2>1, <2>4, <3>1 DEF SeatsNow, ScanningDay
  <2>. QED
    BY <2>3, <2>4
<1>9. FreeSeats' = FreeSeats
  BY <1>7, <1>8, SameSeats
<1>10. Void' = Void
  BY <1>2, <1>7, SameVoid DEF Intact
<1>11. l \in Void \/ List!Servable(l) = {}
  <2>. SUFFICES ASSUME l \notin Void, NEW i \in List!Servable(l) PROVE FALSE
    OBVIOUS
  <2>1. Intact(scan.train, scan.day) /\ \E q \in scan.todo : q.idx = i
    BY <1>2, <1>3, ServableEntry
  <2>2. IsFiniteSet(scan.todo) /\ Cardinality(scan.todo) <= 0
    BY <1>1, <1>2, <2>1 DEF ScanCovers
  <2>3. Cardinality(scan.todo) = 0
    BY <2>2, FS_CardinalityType
  <2>. QED
    BY <2>1, <2>2, <2>3, FS_EmptySet
<1>12. List!Done(l)
  BY <1>5, <1>6, <1>9, <1>10, <1>11 DEF List!Done
<1>13. l \in Trains \X Days
  BY <1>1, <1>4 DEF TypeInv, OrdersKeepTheirTrain, SeatsMatchTrains
<1>. QED
  BY <1>12, <1>13 DEF List!Next

\* Every step is one of the waiting list or leaves it as it is.
LEMMA ListStep == QueueInv /\ [Next]_vars => [List!Next]_(List!vars)
<1>. SUFFICES ASSUME QueueInv, [Next]_vars PROVE List!Next \/ ListKept
  BY DEF ListKept, List!vars
<1>1. TypeInv
  BY DEF QueueInv, ServeInv
<1>2. CASE (\E u \in Users : Login(u) \/ Logout(u)) \/ Restart
  BY <1>1, <1>2, SessionKeepsList
<1>3. CASE \E t \in Trains, m \in SeatNums, n \in DayCounts : AddTrain(t, m, n)
  BY <1>1, <1>3, AddTrainOpens
<1>4. CASE \E t \in Trains : DeleteTrain(t) \/ ReleaseTrain(t)
  BY <1>1, <1>4, DeleteTrainCloses, ReleaseTrainKeepsList
<1>5. CASE \E u \in Users, o \in Requests(Success) : BuySeats(u, o)
  BY <1>1, <1>5, BuySeatsBuys
<1>6. CASE \E u \in Users, o \in Requests(Pending) : JoinQueue(u, o) \/ JoinQueueCrash(u, o)
  BY <1>1, <1>6, JoinQueueWaits
<1>7. CASE \E u \in Users, n \in 1 .. MaxOrders :
             CancelWaiting(u, n) \/ RefundSeats(u, n) \/ RefundCrash(u, n)
  BY <1>1, <1>7, CancelWaitingCancels, RefundRefunds
<1>8. CASE ScanStep
  BY <1>8, EntryPassed, EntryServed, EndScanIsDone DEF ScanStep
<1>9. CASE UNCHANGED vars
  BY <1>9 DEF vars, ListKept, ListedOrders, Listed, Covered, OrderIdx, FreeSeats, SeatsNow,
              ScanningDay, Serving, Void, Intact
<1>. QED
  BY <1>2, <1>3, <1>4, <1>5, <1>6, <1>7, <1>8, <1>9 DEF Next

\* Orders, seats, queues and the loop of a refund are a waiting list: seats
\* that come back go to the oldest orders that fit, and the loop leaves nobody
\* behind who fits, until it takes the counter itself.
THEOREM TicketsAreWaitingList == Spec => ImplementsWaitingList
<1>1. Init => List!Init
  <2>. SUFFICES ASSUME Init PROVE List!Init
    OBVIOUS
  <2>1. OrderIdx = {}
    BY DEF Init, OrderIdx
  <2>2. ListedOrders = [i \in {} |-> Pending]
    BY <2>1 DEF ListedOrders
  <2>3. DOMAIN seats = {} /\ ~scan.on
    BY DEF Init, Idle
  <2>4. FreeSeats = [l \in {} |-> 0] /\ Void = {} /\ Serving = {}
    BY <2>3 DEF FreeSeats, Void, Serving
  <2>. QED
    BY <2>2, <2>4 DEF List!Init
<1>. QED
  BY <1>1, ListStep, QueueInvariance, PTL DEF Spec, ImplementsWaitingList, List!Spec

-----------------------------------------------------------------------------
(* Counting tickets *)

\* Order o holds tickets for segment j of train t on day d.
Rides(o, t, d, j) == o.status = Success /\ o.train = t /\ o.day = d /\ j \in Covered(o)

\* The tickets for that segment of the orders D[i], i \in I.
Tickets(D, I, t, d, j) == UNION {{i} \X (1 .. D[i].num) : i \in {x \in I : Rides(D[x], t, d, j)}}

\* The tickets of one more order are counted one by one.
LEMMA MoreTickets ==
  ASSUME NEW S, IsFiniteSet(S), NEW i, NEW n \in Nat, S \cap ({i} \X (1 .. n)) = {}
  PROVE  /\ IsFiniteSet(S \cup ({i} \X (1 .. n)))
         /\ Cardinality(S \cup ({i} \X (1 .. n))) = Cardinality(S) + n
<1>. DEFINE T == {i} \X (1 .. n)
            f == [m \in 1 .. n |-> <<i, m>>]
<1>1. IsFiniteSet(1 .. n) /\ Cardinality(1 .. n) = n
  BY FS_Interval
<1>2. f \in Bijection(1 .. n, T)
  <2>1. f \in [1 .. n -> T] /\ \A m \in 1 .. n : f[m] = <<i, m>>
    OBVIOUS
  <2>2. \A z \in T : \E m \in 1 .. n : z = <<i, m>>
    OBVIOUS
  <2>. HIDE DEF f, T
  <2>3. \A l, m \in 1 .. n : f[l] = f[m] => l = m
    BY <2>1
  <2>. QED
    BY <2>1, <2>2, <2>3 DEF Bijection, Injection, Surjection, IsInjective
<1>3. IsFiniteSet(T) /\ Cardinality(T) = n
  BY <1>1, <1>2, FS_Bijection DEF ExistsBijection
<1>4. Cardinality(S \cap T) = 0
  BY FS_EmptySet
<1>5. IsFiniteSet(S \cup T) /\ Cardinality(S \cup T) = Cardinality(S) + n - 0
  BY ONLY IsFiniteSet(S), <1>3, <1>4, FS_Union
<1>6. Cardinality(S) \in Nat
  BY FS_CardinalityType
<1>. QED
  BY <1>5, <1>6

\* What a ticket is.
LEMMA TicketOf ==
  ASSUME NEW D, NEW I, NEW t, NEW d, NEW j, NEW z
  PROVE  z \in Tickets(D, I, t, d, j) <=>
           \E i \in I : Rides(D[i], t, d, j) /\ z \in {i} \X (1 .. D[i].num)
BY DEF Tickets

\* The same orders hold the same tickets.
LEMMA SameTickets ==
  ASSUME NEW D, NEW I, NEW E, NEW J, NEW t, NEW d, NEW j,
         \A i \in I : Rides(D[i], t, d, j) => i \in J /\ Rides(E[i], t, d, j) /\ E[i].num = D[i].num,
         \A i \in J : Rides(E[i], t, d, j) => i \in I /\ Rides(D[i], t, d, j) /\ E[i].num = D[i].num
  PROVE  Tickets(E, J, t, d, j) = Tickets(D, I, t, d, j)
<1>1. ASSUME NEW z \in Tickets(E, J, t, d, j) PROVE z \in Tickets(D, I, t, d, j)
  BY <1>1, TicketOf
<1>2. ASSUME NEW z \in Tickets(D, I, t, d, j) PROVE z \in Tickets(E, J, t, d, j)
  BY <1>2, TicketOf
<1>. QED
  BY <1>1, <1>2

\* E and J have the orders of D and I, and order x on top.
OneMore(D, I, E, J, x, t, d, j) ==
  /\ x \in J /\ Rides(E[x], t, d, j) /\ E[x].num \in Nat
  /\ x \in I => ~Rides(D[x], t, d, j)
  /\ \A i \in I : Rides(D[i], t, d, j) => i \in J /\ Rides(E[i], t, d, j) /\ E[i].num = D[i].num
  /\ \A i \in J \ {x} : Rides(E[i], t, d, j) => i \in I /\ Rides(D[i], t, d, j) /\ E[i].num = D[i].num

\* The tickets of one more order, x, are counted one by one.
LEMMA OneMoreTickets ==
  ASSUME NEW D, NEW I, NEW E, NEW J, NEW x, NEW t, NEW d, NEW j,
         OneMore(D, I, E, J, x, t, d, j)
  PROVE  /\ IsFiniteSet(Tickets(D, I, t, d, j)) <=> IsFiniteSet(Tickets(E, J, t, d, j))
         /\ IsFiniteSet(Tickets(D, I, t, d, j)) =>
              Cardinality(Tickets(E, J, t, d, j)) = Cardinality(Tickets(D, I, t, d, j)) + E[x].num
<1>. DEFINE S == Tickets(D, I, t, d, j)
            T == Tickets(E, J, t, d, j)
            X == {x} \X (1 .. E[x].num)
<1>1. ASSUME NEW z \in T PROVE z \in S \cup X
  <2>1. PICK i \in J : Rides(E[i], t, d, j) /\ z \in {i} \X (1 .. E[i].num)
    BY <1>1, TicketOf
  <2>2. CASE i = x
    BY <2>1, <2>2
  <2>3. CASE i # x
    BY <2>1, <2>3, TicketOf DEF OneMore
  <2>. QED
    BY <2>2, <2>3
<1>2. ASSUME NEW z \in S PROVE z \in T /\ z \notin X
  <2>1. PICK i \in I : Rides(D[i], t, d, j) /\ z \in {i} \X (1 .. D[i].num)
    BY <1>2, TicketOf
  <2>2. i # x /\ i \in J /\ Rides(E[i], t, d, j) /\ E[i].num = D[i].num
    BY <2>1 DEF OneMore
  <2>. QED
    BY <2>1, <2>2, TicketOf
<1>3. ASSUME NEW z \in X PROVE z \in T
  BY <1>3, TicketOf DEF OneMore
<1>4. T = S \cup X /\ S \cap X = {}
  BY <1>1, <1>2, <1>3
<1>5. IsFiniteSet(T) => IsFiniteSet(S)
  BY <1>4, FS_Subset
<1>6. ASSUME IsFiniteSet(S)
      PROVE  IsFiniteSet(T) /\ Cardinality(T) = Cardinality(S) + E[x].num
  <2>1. E[x].num \in Nat
    BY DEF OneMore
  <2>. HIDE DEF S, T
  <2>. QED
    BY <1>4, <1>6, <2>1, MoreTickets
<1>. QED
  BY <1>5, <1>6

-----------------------------------------------------------------------------
(* The balance of one segment *)

\* Free seats and tickets of segment j make up the train's seats; the tickets
\* are finitely many, so that counting them means something.
BalancedAt(t, d, j) ==
  /\ IsFiniteSet(Sold(t, d, j))
  /\ SeatsNow(t, d)[j] + Cardinality(Sold(t, d, j)) = train[t].seatNum

Balanced == \A k \in DOMAIN seats : \A j \in Segments : BalancedAt(k[1], k[2], j)

\* The tickets sold are those of the successful orders.
LEMMA SoldTickets ==
  ASSUME NEW t, NEW d, NEW j
  PROVE  /\ Sold(t, d, j) = Tickets(data, OrderIdx, t, d, j)
         /\ Sold(t, d, j)' = Tickets(data', OrderIdx', t, d, j)
BY DEF Sold, Tickets, Rides

\* Nothing is sold and nothing is given back.
LEMMA BalanceKept ==
  ASSUME TypeInv, [Next]_vars, NEW t, NEW d, NEW j, BalancedAt(t, d, j),
         \A i \in OrderIdx : data'[i].status = Success <=> data[i].status = Success,
         \A i \in OrderIdx' \ OrderIdx : data'[i].status # Success,
         SeatsNow(t, d)'[j] = SeatsNow(t, d)[j],
         train'[t].seatNum = train[t].seatNum
  PROVE  BalancedAt(t, d, j)'
<1>1. /\ OrderIdx \subseteq OrderIdx'
      /\ \A i \in OrderIdx : /\ Rides(data'[i], t, d, j) <=> Rides(data[i], t, d, j)
                             /\ data'[i].num = data[i].num
  BY OrdersKept DEF Rides, Covered
<1>2. \A i \in OrderIdx' \ OrderIdx : ~Rides(data'[i], t, d, j)
  BY DEF Rides
<1>3. Sold(t, d, j)' = Sold(t, d, j)
  <2>1. Tickets(data', OrderIdx', t, d, j) = Tickets(data, OrderIdx, t, d, j)
    BY <1>1, <1>2, SameTickets
  <2>. QED
    BY <2>1, SoldTickets
<1>. QED
  BY <1>3 DEF BalancedAt

\* An order becomes successful, and its tickets are taken from the free seats.
LEMMA BalanceTaken ==
  ASSUME TypeInv, TypeInv', [Next]_vars, NEW t, NEW d, <<t, d>> \in DOMAIN seats,
         NEW j \in Segments, BalancedAt(t, d, j),
         NEW x \in OrderIdx', data'[x].status = Success,
         x \in OrderIdx => data[x].status # Success,
         \A i \in OrderIdx' \ {x} :
           i \in OrderIdx /\ (data'[i].status = Success <=> data[i].status = Success),
         SeatsNow(t, d)'[j] = IF t = data'[x].train /\ d = data'[x].day /\ j \in Covered(data'[x])
                              THEN SeatsNow(t, d)[j] - data'[x].num ELSE SeatsNow(t, d)[j],
         UNCHANGED train
  PROVE  BalancedAt(t, d, j)'
<1>1. /\ OrderIdx \subseteq OrderIdx'
      /\ \A i \in OrderIdx : /\ data'[i].train = data[i].train /\ data'[i].day = data[i].day
                             /\ Covered(data'[i]) = Covered(data[i])
                             /\ data'[i].num = data[i].num
  BY OrdersKept DEF Covered
<1>2. data'[x].num \in Nat
  BY DEF TypeInv, TypeOK, OrdersType, OrderType
<1>3. SeatsNow(t, d)[j] \in Nat
  BY SeatsNowType
<1>4. CASE Rides(data'[x], t, d, j)
  <2>1. OneMore(data, OrderIdx, data', OrderIdx', x, t, d, j)
    BY <1>1, <1>2, <1>4 DEF OneMore, Rides
  <2>2. /\ IsFiniteSet(Sold(t, d, j)')
        /\ Cardinality(Sold(t, d, j)') = Cardinality(Sold(t, d, j)) + data'[x].num
    BY <2>1, OneMoreTickets, SoldTickets DEF BalancedAt
  <2>3. SeatsNow(t, d)'[j] = SeatsNow(t, d)[j] - data'[x].num
    BY <1>4 DEF Rides
  <2>4. Cardinality(Sold(t, d, j)) \in Nat
    BY FS_CardinalityType DEF BalancedAt
  <2>. QED
    BY <1>2, <1>3, <2>2, <2>3, <2>4 DEF BalancedAt
<1>5. CASE ~Rides(data'[x], t, d, j)
  <2>1. Tickets(data', OrderIdx', t, d, j) = Tickets(data, OrderIdx, t, d, j)
    <3>1. \A i \in OrderIdx : Rides(data[i], t, d, j) =>
            i \in OrderIdx' /\ Rides(data'[i], t, d, j) /\ data'[i].num = data[i].num
      BY <1>1, <1>5 DEF Rides
    <3>2. \A i \in OrderIdx' : Rides(data'[i], t, d, j) =>
            i \in OrderIdx /\ Rides(data[i], t, d, j) /\ data'[i].num = data[i].num
      BY <1>1, <1>5 DEF Rides
    <3>. QED
      BY <3>1, <3>2, SameTickets
  <2>2. SeatsNow(t, d)'[j] = SeatsNow(t, d)[j]
    BY <1>5 DEF Rides
  <2>. QED
    BY <2>1, <2>2, SoldTickets DEF BalancedAt
<1>. QED
  BY <1>4, <1>5

\* A successful order is refunded, and its tickets become free seats again.
LEMMA BalanceGiven ==
  ASSUME TypeInv, [Next]_vars, NEW t, NEW d, <<t, d>> \in DOMAIN seats,
         NEW j \in Segments, BalancedAt(t, d, j), OrderIdx' = OrderIdx,
         NEW x \in OrderIdx, data[x].status = Success, data'[x].status # Success,
         \A i \in OrderIdx \ {x} : data'[i].status = Success <=> data[i].status = Success,
         SeatsNow(t, d)'[j] = IF t = data[x].train /\ d = data[x].day /\ j \in Covered(data[x])
                              THEN SeatsNow(t, d)[j] + data[x].num ELSE SeatsNow(t, d)[j],
         UNCHANGED train
  PROVE  BalancedAt(t, d, j)'
<1>1. \A i \in OrderIdx : /\ data'[i].train = data[i].train /\ data'[i].day = data[i].day
                          /\ Covered(data'[i]) = Covered(data[i])
                          /\ data'[i].num = data[i].num
  BY OrdersKept DEF Covered
<1>2. data[x].num \in Nat
  BY DEF TypeInv, TypeOK, OrdersType, OrderType
<1>3. SeatsNow(t, d)[j] \in Nat
  BY SeatsNowType
<1>4. CASE Rides(data[x], t, d, j)
  <2>1. OneMore(data', OrderIdx', data, OrderIdx, x, t, d, j)
    BY <1>1, <1>2, <1>4 DEF OneMore, Rides
  <2>2. /\ IsFiniteSet(Sold(t, d, j)')
        /\ Cardinality(Sold(t, d, j)) = Cardinality(Sold(t, d, j)') + data[x].num
    BY <2>1, OneMoreTickets, SoldTickets DEF BalancedAt
  <2>3. SeatsNow(t, d)'[j] = SeatsNow(t, d)[j] + data[x].num
    BY <1>4 DEF Rides
  <2>4. Cardinality(Sold(t, d, j)') \in Nat
    BY <2>2, FS_CardinalityType
  <2>. QED
    BY <1>2, <1>3, <2>2, <2>3, <2>4 DEF BalancedAt
<1>5. CASE ~Rides(data[x], t, d, j)
  <2>1. Tickets(data', OrderIdx', t, d, j) = Tickets(data, OrderIdx, t, d, j)
    <3>1. \A i \in OrderIdx : Rides(data'[i], t, d, j) <=> Rides(data[i], t, d, j)
      BY <1>1, <1>5 DEF Rides
    <3>. QED
      BY <1>1, <3>1, SameTickets
  <2>2. SeatsNow(t, d)'[j] = SeatsNow(t, d)[j]
    BY <1>5 DEF Rides
  <2>. QED
    BY <2>1, <2>2, SoldTickets DEF BalancedAt
<1>. QED
  BY <1>4, <1>5

-----------------------------------------------------------------------------
(* Every step keeps the balance *)

\* No order begins to be successful, and none ceases to be.
SameSuccess ==
  /\ \A i \in OrderIdx : data'[i].status = Success <=> data[i].status = Success
  /\ \A i \in OrderIdx' \ OrderIdx : data'[i].status # Success

\* Steps that sell nothing and give nothing back leave the balance as it was.
LEMMA BalancedFrame ==
  ASSUME TypeInv, [Next]_vars, Balanced, SameSuccess,
         DOMAIN seats' \subseteq DOMAIN seats,
         \A k \in DOMAIN seats' : /\ SeatsNow(k[1], k[2])' = SeatsNow(k[1], k[2])
                                  /\ train'[k[1]].seatNum = train[k[1]].seatNum
  PROVE  Balanced'
<1>. SUFFICES ASSUME NEW k \in DOMAIN seats', NEW j \in Segments
              PROVE  BalancedAt(k[1], k[2], j)'
  BY DEF Balanced
<1>1. SeatsNow(k[1], k[2])'[j] = SeatsNow(k[1], k[2])[j]
  OBVIOUS
<1>. QED
  BY <1>1, BalanceKept DEF Balanced, SameSuccess

\* Commands about sessions and queues touch neither seats nor tickets.
LEMMA BalancedOther ==
  ASSUME TypeInv, [Next]_vars, Balanced,
         \/ \E u \in Users : Login(u) \/ Logout(u)
         \/ Restart
         \/ \E t \in Trains : ReleaseTrain(t)
         \/ UNCHANGED vars
  PROVE  Balanced'
<1>1. /\ UNCHANGED <<seats, scan, nextIdx>>
      /\ UNCHANGED train \/ \E t \in DOMAIN train : train' = [train EXCEPT ![t].released = TRUE]
      /\ \A i \in DOMAIN data : i # 0 => data'[i] = data[i]
  BY DEF Login, Logout, Restart, ReleaseTrain, vars
<1>2. SameSuccess
  BY <1>1 DEF SameSuccess, OrderIdx, TypeInv, TypeOK, OrdersType
<1>3. \A t, d : SeatsNow(t, d)' = SeatsNow(t, d)
  BY <1>1 DEF SeatsNow, ScanningDay
<1>4. \A t \in DOMAIN train : train'[t].seatNum = train[t].seatNum
  BY <1>1 DEF TypeInv, TypeOK, TrainsType
<1>. QED
  BY <1>1, <1>2, <1>3, <1>4, SeatsKey, BalancedFrame

\* A new train has all its seats free, and nobody has ordered it yet.
LEMMA BalancedAddTrain ==
  ASSUME TypeInv, Balanced, NEW t \in Trains, NEW m \in SeatNums, NEW n \in DayCounts,
         AddTrain(t, m, n)
  PROVE  Balanced'
<1>. DEFINE new == {t} \X (0 .. n - 1)
<1>1. /\ UNCHANGED <<data, nextIdx, scan>> /\ ~scan.on
      /\ t \notin DOMAIN train
      /\ train' = Put(train, t, [seatNum |-> m, days |-> n, released |-> FALSE])
      /\ seats' = [k \in DOMAIN seats \cup new |->
                     IF k \in new THEN [seat |-> [j \in Segments |-> m], max |-> m]
                     ELSE seats[k]]
  BY DEF AddTrain, Ready
<1>2. \A a, d, j : Sold(a, d, j)' = Sold(a, d, j)
  BY <1>1 DEF Sold, OrderIdx
<1>3. ASSUME NEW k \in DOMAIN seats', NEW j \in Segments
      PROVE  BalancedAt(k[1], k[2], j)'
  <2>1. CASE k \in new
    <3>1. k[1] = t /\ k = <<k[1], k[2]>>
      BY <2>1
    <3>2. SeatsNow(k[1], k[2])'[j] = m /\ train'[t].seatNum = m
      BY <1>1, <2>1, <3>1 DEF SeatsNow, ScanningDay, Put
    <3>3. Sold(k[1], k[2], j) = {}
      BY <1>1, <3>1 DEF Sold, TypeInv, OrdersKeepTheirTrain, OrdersHaveTrains
    <3>4. m \in Nat
      BY SeatsAssumption
    <3>. QED
      BY <1>2, <3>1, <3>2, <3>3, <3>4, FS_EmptySet DEF BalancedAt
  <2>2. CASE k \notin new
    <3>1. k \in DOMAIN seats
      BY <1>1, <2>2
    <3>2. k = <<k[1], k[2]>> /\ k[1] \in DOMAIN train /\ k[1] # t
      BY <1>1, <3>1, SeatsKey
    <3>3. SeatsNow(k[1], k[2])' = SeatsNow(k[1], k[2]) /\ train'[k[1]] = train[k[1]]
      BY <1>1, <2>2, <3>1, <3>2 DEF SeatsNow, ScanningDay, Put
    <3>. QED
      BY <1>2, <3>1, <3>3 DEF Balanced, BalancedAt
  <2>. QED
    BY <2>1, <2>2
<1>. QED
  BY <1>3 DEF Balanced

\* delete_train takes the records of its train away and no other.
LEMMA BalancedDeleteTrain ==
  ASSUME TypeInv, TypeInv', [Next]_vars, Balanced, NEW t \in Trains, DeleteTrain(t)
  PROVE  Balanced'
<1>1. /\ UNCHANGED <<data, nextIdx, scan>>
      /\ train' = RemoveKeys(train, {t})
      /\ seats' = RemoveKeys(seats, {t} \X DaysOf(t))
      /\ ~scan.on
  BY DEF DeleteTrain, Ready
<1>2. SameSuccess
  BY <1>1 DEF SameSuccess, OrderIdx
<1>3. ASSUME NEW k \in DOMAIN seats'
      PROVE  /\ k \in DOMAIN seats
             /\ SeatsNow(k[1], k[2])' = SeatsNow(k[1], k[2])
             /\ train'[k[1]].seatNum = train[k[1]].seatNum
  <2>1. k \in DOMAIN seats /\ seats'[k] = seats[k]
    BY <1>1 DEF RemoveKeys
  <2>2. k = <<k[1], k[2]>> /\ k[1] \in DOMAIN train'
    BY SeatsKey DEF TypeInv, OrdersKeepTheirTrain, SeatsMatchTrains
  <2>3. train'[k[1]] = train[k[1]]
    BY <1>1, <2>2 DEF RemoveKeys
  <2>. QED
    BY <1>1, <2>1, <2>2, <2>3 DEF SeatsNow, ScanningDay
<1>. QED
  BY <1>2, <1>3, BalancedFrame

\* buy_ticket takes from the free seats what the order says.
LEMMA BalancedBuySeats ==
  ASSUME TypeInv, TypeInv', [Next]_vars, Balanced,
         NEW u \in Users, NEW o \in Requests(Success), BuySeats(u, o)
  PROVE  Balanced'
<1>1. /\ UNCHANGED <<train, scan>> /\ ~scan.on
      /\ o.train \in DOMAIN train /\ o.day \in DaysOf(o.train) /\ o.from < o.to
      /\ WriteOrder(o) /\ o.status = Success
      /\ seats' = [seats EXCEPT ![<<o.train, o.day>>].seat = Take(@, o)]
  BY DEF BuySeats, CanOrder, OnSale, Ready
<1>2. o \in OrderType
  BY RequestType
<1>3. /\ nextIdx \in OrderIdx' /\ nextIdx \notin OrderIdx
      /\ OrderIdx' = OrderIdx \cup {nextIdx}
      /\ data'[nextIdx] = o /\ \A i \in OrderIdx : data'[i] = data[i]
  BY <1>1, <1>2, WriteOrderType DEF TypeInv, TypeOK
<1>4. /\ <<o.train, o.day>> \in DOMAIN seats
      /\ seats[<<o.train, o.day>>] \in [seat : [Segments -> Nat], max : SeatNums]
  BY <1>1, SeatsForOrder DEF SeatsFor
<1>5. DOMAIN seats' = DOMAIN seats
  BY <1>1
<1>6. ASSUME NEW k \in DOMAIN seats, NEW j \in Segments
      PROVE  BalancedAt(k[1], k[2], j)'
  <2>1. k = <<k[1], k[2]>> /\ BalancedAt(k[1], k[2], j)
    BY SeatsKey DEF Balanced
  <2>2. SeatsNow(k[1], k[2]) = seats[k].seat /\ SeatsNow(k[1], k[2])' = seats'[k].seat
    BY <1>1, <2>1 DEF SeatsNow, ScanningDay
  <2>3. seats'[k].seat[j] = IF k[1] = o.train /\ k[2] = o.day /\ j \in Covered(o)
                            THEN seats[k].seat[j] - o.num ELSE seats[k].seat[j]
    <3>1. CASE k = <<o.train, o.day>>
      <4>1. seats'[k].seat = Take(seats[k].seat, o)
        BY <1>1, <1>4, <3>1
      <4>. QED
        BY <1>4, <3>1, <4>1 DEF Take
    <3>2. CASE k # <<o.train, o.day>>
      BY <1>1, <2>1, <3>2
    <3>. QED
      BY <3>1, <3>2
  <2>. QED
    BY <1>1, <1>3, <2>1, <2>2, <2>3, BalanceTaken
<1>. QED
  BY <1>5, <1>6 DEF Balanced

\* An order that waits takes nothing.
LEMMA BalancedJoinQueue ==
  ASSUME TypeInv, [Next]_vars, Balanced, NEW u \in Users, NEW o \in Requests(Pending),
         JoinQueue(u, o) \/ JoinQueueCrash(u, o)
  PROVE  Balanced'
<1>1. UNCHANGED <<train, seats, scan>> /\ o.from < o.to /\ WriteOrder(o)
  BY DEF JoinQueue, JoinQueueCrash, CanOrder, OnSale
<1>2. o \in OrderType /\ o.status = Pending
  BY RequestType
<1>3. SameSuccess
  BY <1>1, <1>2, WriteOrderType DEF SameSuccess, TypeInv, TypeOK, Pending, Success
<1>4. \A t, d : SeatsNow(t, d)' = SeatsNow(t, d)
  BY <1>1 DEF SeatsNow, ScanningDay
<1>. QED
  BY <1>1, <1>3, <1>4, BalancedFrame

\* A waiting order that is cancelled had taken nothing.
LEMMA BalancedCancelWaiting ==
  ASSUME TypeInv, [Next]_vars, Balanced, NEW u \in Users, NEW n \in 1 .. MaxOrders,
         CancelWaiting(u, n)
  PROVE  Balanced'
<1>. DEFINE x == NthNewest(u, n)
<1>1. /\ UNCHANGED <<train, seats, scan, nextIdx>>
      /\ n \in 1 .. Len(history[u]) /\ data[x].status = Pending /\ SetStatus(x, Refunded)
  BY DEF CancelWaiting, CanRefund
<1>2. SameSuccess
  BY <1>1, NthNewestType, SetStatusType
  DEF SameSuccess, TypeInv, TypeOK, Pending, Success, Refunded
<1>3. \A t, d : SeatsNow(t, d)' = SeatsNow(t, d)
  BY <1>1 DEF SeatsNow, ScanningDay
<1>. QED
  BY <1>1, <1>2, <1>3, BalancedFrame

\* refund_ticket gives back what the order had taken, in the record and in the
\* copy the loop begins with.
LEMMA BalancedRefund ==
  ASSUME TypeInv, [Next]_vars, Balanced, NEW u \in Users, NEW n \in 1 .. MaxOrders,
         RefundSeats(u, n) \/ RefundCrash(u, n)
  PROVE  Balanced'
<1>. DEFINE x == NthNewest(u, n)
            o == data[x]
<1>1. /\ UNCHANGED <<train, nextIdx>> /\ ~scan.on
      /\ n \in 1 .. Len(history[u]) /\ o.status = Success /\ SetStatus(x, Refunded)
      /\ seats' = [seats EXCEPT ![<<o.train, o.day>>].seat = Give(@, o)]
      /\ \/ ~scan'.on
         \/ /\ scan'.on /\ scan'.train = o.train /\ scan'.day = o.day
            /\ scan'.seat = Give(SeatsFor(o).seat, o)
  BY DEF RefundSeats, RefundCrash, CanRefund, Ready
<1>2. x \in OrderIdx /\ x \in DOMAIN data /\ x # 0
  BY <1>1, NthNewestType
<1>3. /\ OrderIdx' = OrderIdx
      /\ \A i \in OrderIdx : data'[i].status = IF i = x THEN Refunded ELSE data[i].status
  BY <1>1, <1>2, SetStatusType DEF TypeInv, TypeOK
<1>4. /\ <<o.train, o.day>> \in DOMAIN seats
      /\ seats[<<o.train, o.day>>] \in [seat : [Segments -> Nat], max : SeatNums]
  BY <1>2, SeatsForOrder DEF SeatsFor, TypeInv, OrdersKeepTheirTrain, OrdersHaveTrains
<1>5. DOMAIN seats' = DOMAIN seats
  BY <1>1
<1>. HIDE DEF x
<1>6. ASSUME NEW k \in DOMAIN seats, NEW j \in Segments
      PROVE  BalancedAt(k[1], k[2], j)'
  <2>1. k = <<k[1], k[2]>> /\ BalancedAt(k[1], k[2], j)
    BY SeatsKey DEF Balanced
  <2>2. SeatsNow(k[1], k[2]) = seats[k].seat
    BY <1>1, <2>1 DEF SeatsNow, ScanningDay
  <2>3. SeatsNow(k[1], k[2])'[j] = IF k[1] = o.train /\ k[2] = o.day /\ j \in Covered(o)
                                   THEN seats[k].seat[j] + o.num ELSE seats[k].seat[j]
    <3>1. CASE k = <<o.train, o.day>>
      <4>1. seats'[k].seat = Give(seats[k].seat, o)
        BY <1>1, <1>4, <3>1
      <4>2. SeatsNow(k[1], k[2])' = Give(seats[k].seat, o)
        BY <1>1, <2>1, <3>1, <4>1 DEF SeatsNow, ScanningDay, SeatsFor
      <4>. QED
        BY <1>4, <3>1, <4>2 DEF Give
    <3>2. CASE k # <<o.train, o.day>>
      <4>1. seats'[k] = seats[k] /\ SeatsNow(k[1], k[2])' = seats'[k].seat
        BY <1>1, <2>1, <3>2 DEF SeatsNow, ScanningDay
      <4>. QED
        BY <2>1, <3>2, <4>1
    <3>. QED
      BY <3>1, <3>2
  <2>4. data'[x].status # Success
    BY <1>2, <1>3 DEF Refunded, Success
  <2>5. \A i \in OrderIdx \ {x} : data'[i].status = Success <=> data[i].status = Success
    BY <1>3
  <2>. QED
    BY <1>1, <1>2, <1>3, <2>1, <2>2, <2>3, <2>4, <2>5, BalanceGiven
<1>. QED
  BY <1>5, <1>6 DEF Balanced

\* The loop takes the seats of the orders it serves from its own copy, and
\* stores that copy when it is over.
LEMMA BalancedScanStep ==
  ASSUME QueueInv, TypeInv', [Next]_vars, Balanced, ScanStep
  PROVE  Balanced'
<1>0. TypeInv
  BY DEF QueueInv, ServeInv
<1>1. ASSUME NEW p, NEW seat, Visiting(p), Advance(p, seat), UNCHANGED <<train, seats>>
      PROVE  \A k \in DOMAIN seats : SeatsNow(k[1], k[2])' =
               IF ScanningDay(k[1], k[2]) THEN seat ELSE SeatsNow(k[1], k[2])
  <2>1. scan \in ScanType /\ scan.on
    BY <1>0, <1>1, EntryType DEF Visiting
  <2>2. scan'.on /\ scan'.train = scan.train /\ scan'.day = scan.day /\ scan'.seat = seat
    BY <1>1, <2>1 DEF Advance, ScanType
  <2>. QED
    BY <1>1, <2>1, <2>2 DEF SeatsNow, ScanningDay
<1>2. CASE \E p : DropEntry(p) \/ SkipEntry(p)
  <2>1. PICK p : /\ Visiting(p) /\ Advance(p, scan.seat)
                 /\ UNCHANGED <<train, seats, data, nextIdx>>
    BY <1>2 DEF DropEntry, SkipEntry
  <2>2. \A k \in DOMAIN seats : SeatsNow(k[1], k[2])' = SeatsNow(k[1], k[2])
    BY <1>1, <2>1 DEF SeatsNow
  <2>3. SameSuccess
    BY <2>1 DEF SameSuccess, OrderIdx
  <2>. QED
    BY <1>0, <2>1, <2>2, <2>3, BalancedFrame
<1>3. CASE \E p : ServeEntry(p)
  <2>1. PICK p : ServeEntry(p)
    BY <1>3
  <2>. DEFINE x == p.idx
  <2>2. /\ Visiting(p) /\ Advance(p, Take(scan.seat, data[x]))
        /\ UNCHANGED <<train, seats, nextIdx>>
        /\ data[x].status = Pending /\ SetStatus(x, Success)
    BY <2>1 DEF ServeEntry
  <2>3. x \in {0} \cup OrderIdx /\ x \in DOMAIN data /\ scan \in ScanType /\ scan.on
    BY <1>0, <2>2, EntryType DEF Visiting
  <2>4. /\ OrderIdx' = OrderIdx
        /\ \A i \in OrderIdx : data'[i].status = IF i = x THEN Success ELSE data[i].status
    BY <1>0, <2>2, <2>3, SetStatusType DEF TypeInv, TypeOK
  <2>5. \A k \in DOMAIN seats : SeatsNow(k[1], k[2])' =
          IF ScanningDay(k[1], k[2]) THEN Take(scan.seat, data[x]) ELSE SeatsNow(k[1], k[2])
    BY <1>1, <2>2
  <2>. HIDE DEF x
  <2>6. CASE x = 0
    <3>1. Covered(data[x]) = {}
      BY <1>0, <2>6 DEF TypeInv, TypeOK, OrdersType, HeaderType, BlankOrder, NewOrder, Covered
    <3>2. scan.seat \in [Segments -> Nat]
      BY <2>3 DEF ScanType
    <3>3. Take(scan.seat, data[x]) = scan.seat
      BY <3>1, <3>2 DEF Take
    <3>4. \A k \in DOMAIN seats : SeatsNow(k[1], k[2])' = SeatsNow(k[1], k[2])
      BY <2>5, <3>3 DEF SeatsNow
    <3>5. 0 \notin OrderIdx
      BY <1>0 DEF TypeInv, TypeOK, OrdersType, OrderIdx
    <3>6. SameSuccess
      BY <2>4, <2>6, <3>5 DEF SameSuccess
    <3>. QED
      BY <1>0, <2>2, <3>4, <3>6, BalancedFrame
  <2>7. CASE x \in OrderIdx /\ x # 0
    <3>1. p \in scan.todo
      BY <2>2, <2>7 DEF Visiting, NextEntries, x
    <3>2. data[x].train = scan.train /\ data[x].day = scan.day
      BY <2>3, <3>1 DEF QueueInv, ScanSound, x
    <3>3. /\ data'[x].train = data[x].train /\ data'[x].day = data[x].day
          /\ Covered(data'[x]) = Covered(data[x]) /\ data'[x].num = data[x].num
      BY <1>0, <2>7, OrdersKept DEF Covered
    <3>4. ASSUME NEW k \in DOMAIN seats, NEW j \in Segments
          PROVE  BalancedAt(k[1], k[2], j)'
      <4>1. k = <<k[1], k[2]>> /\ BalancedAt(k[1], k[2], j)
        BY <1>0, SeatsKey DEF Balanced
      <4>2. SeatsNow(k[1], k[2])'[j] =
              IF k[1] = data'[x].train /\ k[2] = data'[x].day /\ j \in Covered(data'[x])
              THEN SeatsNow(k[1], k[2])[j] - data'[x].num ELSE SeatsNow(k[1], k[2])[j]
        <5>1. CASE ScanningDay(k[1], k[2])
          <6>1. SeatsNow(k[1], k[2]) = scan.seat /\ scan.seat \in [Segments -> Nat]
            BY <2>3, <5>1 DEF SeatsNow, ScanType
          <6>2. k[1] = data'[x].train /\ k[2] = data'[x].day
            BY <3>2, <3>3, <5>1 DEF ScanningDay
          <6>3. SeatsNow(k[1], k[2])' = Take(scan.seat, data[x])
            BY <2>5, <5>1
          <6>. QED
            BY <3>3, <6>1, <6>2, <6>3 DEF Take
        <5>2. CASE ~ScanningDay(k[1], k[2])
          <6>1. ~(k[1] = data'[x].train /\ k[2] = data'[x].day)
            BY <2>3, <3>2, <3>3, <5>2 DEF ScanningDay
          <6>2. SeatsNow(k[1], k[2])' = SeatsNow(k[1], k[2])
            BY <2>5, <5>2
          <6>. QED
            BY <6>1, <6>2
        <5>. QED
          BY <5>1, <5>2
      <4>3. data'[x].status = Success /\ data[x].status # Success
        BY <2>2, <2>4, <2>7 DEF Success, Pending
      <4>4. x \in OrderIdx'
        BY <2>4, <2>7
      <4>5. \A i \in OrderIdx' \ {x} :
              i \in OrderIdx /\ (data'[i].status = Success <=> data[i].status = Success)
        BY <2>4
      <4>6. <<k[1], k[2]>> \in DOMAIN seats
        BY <4>1
      <4>. QED
        BY <1>0, <2>2, <4>1, <4>2, <4>3, <4>4, <4>5, <4>6, BalanceTaken
    <3>. QED
      BY <2>2, <3>4 DEF Balanced
  <2>8. 0 \notin OrderIdx
    BY <1>0 DEF TypeInv, TypeOK, OrdersType, OrderIdx
  <2>. QED
    BY <2>3, <2>6, <2>7, <2>8 DEF x
<1>4. CASE EndScan
  <2>1. /\ scan.on /\ ~scan'.on /\ UNCHANGED <<train, data, nextIdx>>
        /\ seats' = [seats EXCEPT ![<<scan.train, scan.day>>].seat = scan.seat]
    BY <1>4 DEF EndScan, Idle
  <2>2. SameSuccess
    BY <2>1 DEF SameSuccess, OrderIdx
  <2>3. DOMAIN seats' = DOMAIN seats
    BY <2>1
  <2>4. ASSUME NEW k \in DOMAIN seats
        PROVE  SeatsNow(k[1], k[2])' = SeatsNow(k[1], k[2])
    <3>1. k = <<k[1], k[2]>>
      BY <1>0, SeatsKey
    <3>2. SeatsNow(k[1], k[2])' = seats'[k].seat
      BY <2>1, <3>1 DEF SeatsNow, ScanningDay
    <3>3. seats[k] \in [seat : [Segments -> Nat], max : SeatNums]
      BY <1>0 DEF TypeInv, TypeOK, SeatsType
    <3>4. CASE k = <<scan.train, scan.day>>
      <4>1. seats'[k].seat = scan.seat
        BY <2>1, <3>3, <3>4
      <4>. QED
        BY <2>1, <3>2, <3>4, <4>1 DEF SeatsNow, ScanningDay
    <3>5. CASE k # <<scan.train, scan.day>>
      <4>1. seats'[k] = seats[k]
        BY <2>1, <3>5
      <4>. QED
        BY <3>1, <3>2, <3>5, <4>1 DEF SeatsNow, ScanningDay
    <3>. QED
      BY <3>4, <3>5
  <2>. QED
    BY <1>0, <2>1, <2>2, <2>3, <2>4, BalancedFrame
<1>. QED
  BY <1>2, <1>3, <1>4 DEF ScanStep

\* Every step keeps the balance.
LEMMA BalancedNext == QueueInv /\ Balanced /\ [Next]_vars => Balanced'
<1>. SUFFICES ASSUME QueueInv, Balanced, [Next]_vars PROVE Balanced'
  OBVIOUS
<1>1. TypeInv /\ TypeInv'
  BY TypeInvNext DEF QueueInv, ServeInv
<1>2. CASE (\E u \in Users : Login(u) \/ Logout(u)) \/ Restart \/ UNCHANGED vars
  BY <1>1, <1>2, BalancedOther
<1>3. CASE \E t \in Trains, m \in SeatNums, n \in DayCounts : AddTrain(t, m, n)
  BY <1>1, <1>3, BalancedAddTrain
<1>4. CASE \E t \in Trains : DeleteTrain(t) \/ ReleaseTrain(t)
  BY <1>1, <1>4, BalancedDeleteTrain, BalancedOther
<1>5. CASE \E u \in Users, o \in Requests(Success) : BuySeats(u, o)
  BY <1>1, <1>5, BalancedBuySeats
<1>6. CASE \E u \in Users, o \in Requests(Pending) : JoinQueue(u, o) \/ JoinQueueCrash(u, o)
  BY <1>1, <1>6, BalancedJoinQueue
<1>7. CASE \E u \in Users, n \in 1 .. MaxOrders :
             CancelWaiting(u, n) \/ RefundSeats(u, n) \/ RefundCrash(u, n)
  BY <1>1, <1>7, BalancedCancelWaiting, BalancedRefund
<1>8. CASE ScanStep
  BY <1>1, <1>8, BalancedScanStep
<1>. QED
  BY <1>2, <1>3, <1>4, <1>5, <1>6, <1>7, <1>8 DEF Next

\* On every segment the free seats and the tickets of the successful orders
\* make up the seats of the train: none is lost, and none is sold twice.
THEOREM SeatsAreConserved == Spec => []SeatsConserved
<1>1. Init => Balanced
  BY DEF Init, Balanced
<1>2. Balanced => SeatsConserved
  BY DEF Balanced, BalancedAt, SeatsConserved
<1>. QED
  BY <1>1, <1>2, BalancedNext, QueueInvariance, PTL DEF Spec
=============================================================================
