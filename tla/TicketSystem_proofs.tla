------------------------- MODULE TicketSystem_proofs -------------------------
(***************************************************************************)
(* Proofs about TicketSystem, for any number of users, trains, days, stops *)
(* and seats: type correctness (no seat count goes below zero), that no    *)
(* waiting order that fits is left waiting while the counter of its queue  *)
(* is in place, and that every order is filed once.                        *)
(***************************************************************************)
EXTENDS TicketSystem, FiniteSetTheorems, SequenceTheorems, TLAPS

USE TrainsAssumption, StopsAssumption, DaysAssumption, SeatsAssumption, StorageAssumption

-----------------------------------------------------------------------------
(* Operators on seats *)

\* Seats that an order fits into can be taken: none goes below zero.
LEMMA TakeType ==
  ASSUME NEW seat \in [Segments -> Nat], NEW o, o.num \in Nat, Fits(seat, o)
  PROVE  Take(seat, o) \in [Segments -> Nat]
BY DEF Take, Fits

\* Giving seats back yields seat counts.
LEMMA GiveType ==
  ASSUME NEW seat \in [Segments -> Nat], NEW o, o.num \in Nat
  PROVE  Give(seat, o) \in [Segments -> Nat]
BY DEF Give

\* An order that fits once another order has taken its seats also fitted before.
LEMMA TakeShrinks ==
  ASSUME NEW seat \in [Segments -> Nat], NEW o, o.num \in Nat,
         NEW x, {x.from} \cup Covered(x) \subseteq Segments, x.num \in Nat,
         Fits(Take(seat, o), x)
  PROVE  Fits(seat, x)
<1>. SUFFICES ASSUME NEW j \in {x.from} \cup Covered(x)
              PROVE  seat[j] >= x.num
  BY DEF Fits
<1>1. j \in Segments /\ seat[j] \in Nat
  OBVIOUS
<1>2. Take(seat, o)[j] >= x.num
  BY DEF Fits
<1>3. Take(seat, o)[j] <= seat[j]
  BY <1>1 DEF Take
<1>4. Take(seat, o)[j] \in Int
  BY <1>1 DEF Take
<1>. QED
  BY <1>1, <1>2, <1>3, <1>4

\* The segments of an order are segments of its train.
LEMMA CoveredInSegments ==
  ASSUME NEW o \in OrderType, o.from < o.to
  PROVE  {o.from} \cup Covered(o) \subseteq Segments
BY DEF OrderType, Covered, Segments, Stops

-----------------------------------------------------------------------------
(* Type correctness *)

\* A request that is not rejected is an order of the model's type.
LEMMA RequestType ==
  ASSUME NEW s \in {Pending, Success}, NEW o \in Requests(s)
  PROVE  o \in OrderType /\ o.num > 0 /\ o.day \in Nat /\ o.status = s
<1>1. PICK t \in Trains, d \in Days, f \in Stops, g \in Stops, n \in TicketNums :
        o = NewOrder(t, d, f, g, n, s)
  BY DEF Requests
<1>2. d \in Nat
  BY DEF Days
<1>. QED
  BY <1>1, <1>2 DEF NewOrder, OrderType, Pending, Success

\* The initial state satisfies the invariant.
LEMMA TypeInvInit == Init => TypeInv
<1>. SUFFICES ASSUME Init PROVE TypeInv
  OBVIOUS
<1>1. OrderIdx = {}
  BY DEF Init, OrderIdx
<1>2. SessionsType
  BY EmptySeq DEF Init, SessionsType
<1>3. TrainsType /\ SeatsType /\ QueueType
  BY DEF Init, TrainsType, SeatsType, QueueType
<1>4. OrdersType
  BY <1>1 DEF Init, OrdersType, HeaderType
<1>5. OrdersKeepTheirTrain /\ QueueRefs /\ ScanRefs
  BY <1>1 DEF Init, OrdersKeepTheirTrain, SeatsMatchTrains, OrdersHaveTrains, QueueRefs,
                ScanRefs, Idle
<1>. QED
  BY <1>2, <1>3, <1>4, <1>5 DEF TypeInv, TypeOK, Init

\* Sessions: login, logout and restart.
LEMMA TypeInvSession ==
  ASSUME TypeInv,
         (\E u \in Users : Login(u) \/ Logout(u)) \/ Restart
  PROVE  TypeInv'
<1>. USE DEF TypeInv, TypeOK
<1>1. UNCHANGED <<up, train, seats, nextIdx, queue, history, scan>>
  BY DEF Login, Logout, Restart
<1>2. OrderIdx' = OrderIdx
  BY <1>1 DEF OrderIdx
<1>3. SessionsType'
  BY <1>1, <1>2 DEF SessionsType, Login, Logout, Restart
<1>4. /\ OrdersType'
      /\ \A i \in OrderIdx : data'[i] = data[i]
  <2>1. CASE UNCHANGED data
    BY <2>1, <1>1, <1>2 DEF OrdersType
  <2>2. CASE Restart
    BY <2>2, <1>1, <1>2 DEF OrdersType, Restart, HeaderType, OrderIdx
  <2>. QED
    BY <2>1, <2>2 DEF Login, Logout
<1>5. TrainsType' /\ SeatsType' /\ QueueType' /\ (scan \in {Idle} \cup ScanType)'
  BY <1>1 DEF TrainsType, SeatsType, QueueType
<1>6. OrdersKeepTheirTrain'
  BY <1>1, <1>2, <1>4 DEF OrdersKeepTheirTrain, SeatsMatchTrains, OrdersHaveTrains, DaysOf
<1>7. QueueRefs' /\ ScanRefs'
  BY <1>1, <1>2 DEF QueueRefs, ScanRefs, DaysOf
<1>. QED
  BY <1>3, <1>4, <1>5, <1>6, <1>7

\* add_train: the new seat records are those of the new train's days.
LEMMA TypeInvAddTrain ==
  ASSUME TypeInv, NEW t \in Trains, NEW m \in SeatNums, NEW n \in DayCounts, AddTrain(t, m, n)
  PROVE  TypeInv'
<1>. USE DEF TypeInv, TypeOK
<1>1. /\ UNCHANGED <<up, online, data, nextIdx, queue, history, scan>>
      /\ t \notin DOMAIN train
      /\ train' = Put(train, t, [seatNum |-> m, days |-> n, released |-> FALSE])
  BY DEF AddTrain
<1>2. OrderIdx' = OrderIdx
  BY <1>1 DEF OrderIdx
<1>3. SessionsType' /\ OrdersType' /\ QueueType' /\ (scan \in {Idle} \cup ScanType)'
  BY <1>1, <1>2 DEF SessionsType, OrdersType, QueueType
<1>4. TrainsType'
  BY <1>1 DEF TrainsType, Put
<1>5. /\ DOMAIN train' = DOMAIN train \cup {t}
      /\ \A x \in DOMAIN train : train'[x] = train[x]
      /\ train'[t].days = n
  BY <1>1 DEF Put
<1>6. /\ DOMAIN seats' = DOMAIN seats \cup ({t} \X (0 .. n - 1))
      /\ \A k \in DOMAIN seats' : seats'[k] =
            IF k \in {t} \X (0 .. n - 1) THEN [seat |-> [j \in Segments |-> m], max |-> m]
            ELSE seats[k]
      /\ seats' = [k \in DOMAIN seats' |-> seats'[k]]
  BY DEF AddTrain
<1>7. SeatsType'
  <2>1. DOMAIN seats' \subseteq Trains \X Nat
    BY <1>6 DEF SeatsType
  <2>2. ASSUME NEW k \in DOMAIN seats'
        PROVE  seats'[k] \in [seat : [Segments -> Nat], max : SeatNums]
    <3>1. CASE k \in {t} \X (0 .. n - 1)
      BY <1>6, <3>1
    <3>2. CASE k \notin {t} \X (0 .. n - 1)
      BY <1>6, <3>2 DEF SeatsType
    <3>. QED
      BY <3>1, <3>2
  <2>. QED
    BY <1>6, <2>1, <2>2 DEF SeatsType
<1>8. OrdersKeepTheirTrain'
  <2>1. 0 .. n - 1 \subseteq Days
    BY DEF Days
  <2>2. DaysOf(t)' = 0 .. n - 1 /\ \A x \in DOMAIN train : DaysOf(x)' = DaysOf(x)
    BY <1>5 DEF DaysOf
  <2>3. DOMAIN seats = {k \in Trains \X Days : k[1] \in DOMAIN train /\ k[2] \in DaysOf(k[1])}
    BY DEF OrdersKeepTheirTrain, SeatsMatchTrains
  <2>4. SeatsMatchTrains'
    <3>1. ASSUME NEW k \in DOMAIN seats'
          PROVE  k \in Trains \X Days /\ k[1] \in DOMAIN train' /\ k[2] \in DaysOf(k[1])'
      <4>1. CASE k \in {t} \X (0 .. n - 1)
        BY <4>1, <1>5, <2>1, <2>2
      <4>2. CASE k \in DOMAIN seats
        BY <4>2, <1>5, <2>2, <2>3
      <4>. QED
        BY <3>1, <4>1, <4>2, <1>6
    <3>2. ASSUME NEW k \in Trains \X Days, k[1] \in DOMAIN train', k[2] \in DaysOf(k[1])'
          PROVE  k \in DOMAIN seats'
      <4>1. CASE k[1] = t
        BY <3>2, <4>1, <1>6, <2>2
      <4>2. CASE k[1] # t
        BY <3>2, <4>2, <1>5, <1>6, <2>2, <2>3
      <4>. QED
        BY <4>1, <4>2
    <3>. QED
      BY <3>1, <3>2 DEF SeatsMatchTrains
  <2>5. OrdersHaveTrains'
    BY <1>1, <1>2, <1>5 DEF OrdersKeepTheirTrain, OrdersHaveTrains, DaysOf
  <2>. QED
    BY <2>4, <2>5 DEF OrdersKeepTheirTrain
<1>9. QueueRefs'
  BY <1>1, <1>2, <1>5 DEF QueueRefs, DaysOf
<1>10. ScanRefs'
  BY <1>1, <1>2, <1>6 DEF ScanRefs
<1>. QED
  BY <1>3, <1>4, <1>7, <1>8, <1>9, <1>10

\* delete_train: an unreleased train has no orders and no queue.
LEMMA TypeInvDeleteTrain ==
  ASSUME TypeInv, NEW t \in Trains, DeleteTrain(t)
  PROVE  TypeInv'
<1>. USE DEF TypeInv, TypeOK
<1>1. /\ UNCHANGED <<up, online, data, nextIdx, queue, history, scan>>
      /\ t \in DOMAIN train /\ ~train[t].released
      /\ ~scan.on
      /\ train' = RemoveKeys(train, {t})
      /\ seats' = RemoveKeys(seats, {t} \X DaysOf(t))
  BY DEF DeleteTrain, Ready
<1>2. OrderIdx' = OrderIdx
  BY <1>1 DEF OrderIdx
<1>3. SessionsType' /\ OrdersType' /\ QueueType' /\ (scan \in {Idle} \cup ScanType)'
  BY <1>1, <1>2 DEF SessionsType, OrdersType, QueueType
<1>4. /\ DOMAIN train' = DOMAIN train \ {t}
      /\ \A x \in DOMAIN train' : train'[x] = train[x]
  BY <1>1 DEF RemoveKeys
<1>5. TrainsType' /\ SeatsType'
  BY <1>1 DEF TrainsType, SeatsType, RemoveKeys
<1>6. OrdersKeepTheirTrain'
  <2>1. DOMAIN seats' = DOMAIN seats \ ({t} \X DaysOf(t))
    BY <1>1 DEF RemoveKeys
  <2>2. SeatsMatchTrains'
    BY <1>1, <1>4, <2>1 DEF OrdersKeepTheirTrain, SeatsMatchTrains, DaysOf
  <2>3. OrdersHaveTrains'
    BY <1>1, <1>2, <1>4 DEF OrdersKeepTheirTrain, OrdersHaveTrains, DaysOf
  <2>. QED
    BY <2>2, <2>3 DEF OrdersKeepTheirTrain
<1>7. QueueRefs'
  BY <1>1, <1>2, <1>4 DEF QueueRefs, DaysOf
<1>8. ScanRefs'
  BY <1>1 DEF ScanRefs
<1>. QED
  BY <1>3, <1>5, <1>6, <1>7, <1>8

\* release_train: the sentinels are keys of the train's days.
LEMMA TypeInvReleaseTrain ==
  ASSUME TypeInv, NEW t \in Trains, ReleaseTrain(t)
  PROVE  TypeInv'
<1>. USE DEF TypeInv, TypeOK
<1>. DEFINE sentinels == {Sentinel(t, d) : d \in DaysOf(t)}
<1>1. /\ UNCHANGED <<up, online, seats, data, nextIdx, history, scan>>
      /\ t \in DOMAIN train
      /\ train' = [train EXCEPT ![t].released = TRUE]
      /\ queue' = [k \in DOMAIN queue \cup sentinels |->
                     IF k \in sentinels THEN 0 ELSE queue[k]]
  BY DEF ReleaseTrain
<1>2. OrderIdx' = OrderIdx
  BY <1>1 DEF OrderIdx
<1>3. SessionsType' /\ OrdersType' /\ SeatsType' /\ (scan \in {Idle} \cup ScanType)'
  BY <1>1, <1>2 DEF SessionsType, OrdersType, SeatsType
<1>4. TrainsType'
  BY <1>1 DEF TrainsType
<1>5. /\ DOMAIN train' = DOMAIN train
      /\ train'[t].released
      /\ \A x \in DOMAIN train : /\ train'[x].days = train[x].days
                                 /\ train[x].released => train'[x].released
  BY <1>1 DEF TrainsType
<1>6. \A k \in sentinels : k \in Trains \X Nat \X Nat /\ k[1] = t /\ k[2] \in DaysOf(t) /\ k[3] = 0
  BY <1>1 DEF Sentinel, DaysOf, TrainsType
<1>7. QueueType'
  <2>1. DOMAIN queue' \subseteq Trains \X Nat \X Nat
    BY <1>1, <1>6 DEF QueueType
  <2>. QED
    BY <1>1, <2>1 DEF QueueType
<1>8. OrdersKeepTheirTrain'
  BY <1>1, <1>2, <1>5 DEF OrdersKeepTheirTrain, SeatsMatchTrains, OrdersHaveTrains, DaysOf
<1>9. QueueRefs'
  <2>. SUFFICES ASSUME NEW k \in DOMAIN queue'
                PROVE  /\ k[1] \in DOMAIN train' /\ train'[k[1]].released /\ k[2] \in 0 .. train'[k[1]].days - 1
                       /\ k[3] # 0 => queue'[k] \in OrderIdx'
    BY DEF QueueRefs, DaysOf
  <2>1. CASE k \in sentinels
    BY <1>1, <1>5, <1>6, <2>1 DEF DaysOf
  <2>2. CASE k \in DOMAIN queue /\ k \notin sentinels
    BY <1>1, <1>2, <1>5, <2>2 DEF QueueRefs, DaysOf
  <2>. QED
    BY <1>1, <2>1, <2>2
<1>10. ScanRefs'
  BY <1>1, <1>2 DEF ScanRefs
<1>. QED
  BY <1>3, <1>4, <1>7, <1>8, <1>9, <1>10

-----------------------------------------------------------------------------
(* Type correctness: orders and the waiting queue *)

\* data_storage->write adds the order at the next index and keeps the others.
LEMMA WriteOrderType ==
  ASSUME OrdersType, NEW o \in OrderType, o.from < o.to, WriteOrder(o)
  PROVE  /\ OrdersType'
         /\ nextIdx \in OrderIdx'
         /\ OrderIdx' = OrderIdx \cup {nextIdx}
         /\ nextIdx \notin OrderIdx
         /\ data'[nextIdx] = o
         /\ \A i \in OrderIdx : data'[i] = data[i]
<1>1. /\ OrderIdx' = OrderIdx \cup {nextIdx}
      /\ nextIdx \notin OrderIdx /\ nextIdx # 0 /\ 0 \notin OrderIdx
      /\ nextIdx' \in Nat /\ nextIdx' >= FirstIdx
  BY DEF OrdersType, OrderIdx, WriteOrder
<1>2. /\ DOMAIN data' = DOMAIN data \cup {nextIdx}
      /\ data'[nextIdx] = o
      /\ \A i \in DOMAIN data : i # nextIdx => data'[i] = data[i]
  BY DEF WriteOrder, Put
<1>3. \A i \in OrderIdx : data'[i] = data[i]
  BY <1>1, <1>2 DEF OrdersType
<1>4. data'[0] = data[0]
  BY <1>1, <1>2 DEF OrdersType
<1>5. OrdersType'
  BY <1>1, <1>2, <1>3, <1>4 DEF OrdersType
<1>. QED
  BY <1>1, <1>2, <1>3, <1>5

\* Histories stay sequences of orders as orders are added.
LEMMA HistoryType ==
  ASSUME SessionsType, OrderIdx \subseteq OrderIdx', UNCHANGED history
  PROVE  (history \in [Users -> Seq(OrderIdx)])'
<1>1. \A u \in Users : history[u] \in Seq(OrderIdx')
  BY SeqMonotonic DEF SessionsType
<1>. QED
  BY <1>1 DEF SessionsType

\* The user's history grows by the order just written and stays well typed.
LEMMA EnterHistoryType ==
  ASSUME SessionsType, OrderIdx \subseteq OrderIdx', nextIdx \in OrderIdx',
         NEW u \in Users, EnterHistory(u)
  PROVE  (history \in [Users -> Seq(OrderIdx)])'
<1>1. \A v \in Users : history[v] \in Seq(OrderIdx')
  BY SeqMonotonic DEF SessionsType
<1>2. Append(history[u], nextIdx) \in Seq(OrderIdx')
  BY <1>1
<1>. QED
  BY <1>1, <1>2 DEF SessionsType, EnterHistory

\* A change of status leaves everything else an order says, and the header
\* element is only ever marked as successful.
LEMMA SetStatusType ==
  ASSUME OrdersType, UNCHANGED nextIdx, NEW s \in {Success, Refunded},
         NEW i \in DOMAIN data, i = 0 => s = Success, SetStatus(i, s)
  PROVE  /\ OrdersType'
         /\ OrderIdx' = OrderIdx
         /\ \A j \in OrderIdx :
              /\ data'[j].train = data[j].train /\ data'[j].day = data[j].day
              /\ data'[j].from = data[j].from /\ data'[j].to = data[j].to
              /\ data'[j].num = data[j].num
              /\ data'[j].status = IF j = i THEN s ELSE data[j].status
<1>1. OrderIdx' = OrderIdx /\ 0 \notin OrderIdx
  BY DEF OrdersType, OrderIdx
<1>2. /\ DOMAIN data' = DOMAIN data
      /\ \A j \in DOMAIN data : j # i => data'[j] = data[j]
      /\ data'[i] = [data[i] EXCEPT !.status = s]
  BY DEF SetStatus
<1>3. \A j \in OrderIdx : data'[j] \in OrderType /\ data'[j].from < data'[j].to
  BY <1>2 DEF OrdersType, OrderType, Success, Refunded
<1>4. data'[0] \in HeaderType
  BY <1>2 DEF OrdersType, HeaderType, BlankOrder, NewOrder
<1>5. OrdersType'
  BY <1>1, <1>2, <1>3, <1>4 DEF OrdersType
<1>6. \A j \in OrderIdx :
        /\ data'[j].train = data[j].train /\ data'[j].day = data[j].day
        /\ data'[j].from = data[j].from /\ data'[j].to = data[j].to
        /\ data'[j].num = data[j].num
        /\ data'[j].status = IF j = i THEN s ELSE data[j].status
  BY <1>2 DEF OrdersType, OrderType
<1>. QED
  BY <1>1, <1>5, <1>6

\* The seat record an order asks for exists.
LEMMA SeatsForOrder ==
  ASSUME TypeInv, NEW o, o.train \in DOMAIN train, o.day \in DaysOf(o.train)
  PROVE  /\ <<o.train, o.day>> \in DOMAIN seats
         /\ SeatsFor(o) \in [seat : [Segments -> Nat], max : SeatNums]
<1>1. o.day \in Days
  BY DEF TypeInv, TypeOK, TrainsType, DaysOf, Days
<1>2. <<o.train, o.day>> \in DOMAIN seats
  BY <1>1 DEF TypeInv, TypeOK, TrainsType, OrdersKeepTheirTrain, SeatsMatchTrains
<1>. QED
  BY <1>2 DEF TypeInv, TypeOK, SeatsType, SeatsFor

\* buy_ticket with seats enough: none of the counts goes below zero.
LEMMA TypeInvBuySeats ==
  ASSUME TypeInv, NEW u \in Users, NEW o \in Requests(Success), BuySeats(u, o)
  PROVE  TypeInv'
<1>. USE DEF TypeInv, TypeOK
<1>1. /\ UNCHANGED <<up, online, train, queue, scan>>
      /\ o.train \in DOMAIN train /\ train[o.train].released
      /\ o.day \in DaysOf(o.train) /\ o.from < o.to
      /\ ~scan.on
      /\ Fits(SeatsFor(o).seat, o)
      /\ WriteOrder(o) /\ EnterHistory(u)
      /\ seats' = [seats EXCEPT ![<<o.train, o.day>>].seat = Take(@, o)]
  BY DEF BuySeats, CanOrder, OnSale, Ready
<1>2. o \in OrderType
  BY RequestType
<1>3. /\ OrdersType' /\ nextIdx \in OrderIdx'
      /\ OrderIdx' = OrderIdx \cup {nextIdx}
      /\ data'[nextIdx] = o /\ \A i \in OrderIdx : data'[i] = data[i]
  BY <1>1, <1>2, WriteOrderType
<1>4. SessionsType'
  BY <1>1, <1>3, EnterHistoryType DEF SessionsType
<1>5. Take(SeatsFor(o).seat, o) \in [Segments -> Nat]
  BY <1>1, <1>2, TakeType, SeatsForOrder DEF OrderType
<1>6. SeatsType' /\ DOMAIN seats' = DOMAIN seats
  BY <1>1, <1>5 DEF SeatsType, SeatsFor
<1>7. TrainsType' /\ QueueType' /\ (scan \in {Idle} \cup ScanType)'
  BY <1>1 DEF TrainsType, QueueType
<1>8. OrdersKeepTheirTrain'
  BY <1>1, <1>3, <1>6 DEF OrdersKeepTheirTrain, SeatsMatchTrains, OrdersHaveTrains, DaysOf
<1>9. QueueRefs' /\ ScanRefs'
  BY <1>1, <1>3 DEF QueueRefs, ScanRefs, DaysOf
<1>. QED
  BY <1>3, <1>4, <1>6, <1>7, <1>8, <1>9

\* Counting a new entry at c keeps the queue well formed, wherever c lies.
LEMMA EnqueueType ==
  ASSUME TypeInv, NEW o \in OrderType, WriteOrder(o), o.from < o.to, UNCHANGED train,
         o.train \in DOMAIN train, train[o.train].released, o.day \in DaysOf(o.train),
         NEW c \in DOMAIN queue, EnqueueAt(c, o)
  PROVE  QueueType' /\ QueueRefs'
<1>. USE DEF TypeInv, TypeOK
<1>. DEFINE key == <<o.train, o.day, queue[c] + 1>>
<1>1. /\ OrderIdx' = OrderIdx \cup {nextIdx} /\ nextIdx \in OrderIdx'
      /\ \A v \in OrderIdx : v + 1 \in OrderIdx'
  BY WriteOrderType DEF OrderIdx, OrdersType
<1>2. queue[c] \in Nat /\ key \in Trains \X Nat \X Nat /\ key[3] # 0
  BY DEF QueueType, OrderType
<1>3. /\ DOMAIN queue' = DOMAIN queue \cup {key}
      /\ queue' = [k \in DOMAIN queue' |-> queue'[k]]
      /\ \A k \in DOMAIN queue' : queue'[k] = IF k = key THEN nextIdx
                                              ELSE IF k = c THEN queue[c] + 1 ELSE queue[k]
  BY DEF EnqueueAt, Put
<1>4. QueueType'
  <2>1. \A k \in DOMAIN queue' : queue'[k] \in Nat
    BY <1>2, <1>3 DEF QueueType, OrdersType
  <2>. QED
    BY <1>2, <1>3, <2>1 DEF QueueType
<1>5. ASSUME NEW k \in DOMAIN queue'
      PROVE  /\ k[1] \in DOMAIN train' /\ train'[k[1]].released
             /\ k[2] \in 0 .. train'[k[1]].days - 1
             /\ k[3] # 0 => queue'[k] \in OrderIdx'
  <2>1. CASE k = key
    BY <1>1, <1>2, <1>3, <2>1 DEF DaysOf
  <2>2. CASE k # key /\ k = c
    BY <1>1, <1>3, <2>2 DEF QueueRefs, DaysOf
  <2>3. CASE k # key /\ k # c
    BY <1>1, <1>3, <2>3 DEF QueueRefs, DaysOf
  <2>. QED
    BY <2>1, <2>2, <2>3
<1>. QED
  BY <1>4, <1>5 DEF QueueRefs, DaysOf

\* buy_ticket that waits, and the one that ends the process.
LEMMA TypeInvJoinQueue ==
  ASSUME TypeInv, NEW u \in Users, NEW o \in Requests(Pending),
         JoinQueue(u, o) \/ JoinQueueCrash(u, o)
  PROVE  TypeInv'
<1>. USE DEF TypeInv, TypeOK
<1>1. /\ UNCHANGED <<online, train, seats, scan>> /\ up' \in BOOLEAN
      /\ o.train \in DOMAIN train /\ train[o.train].released
      /\ o.day \in DaysOf(o.train) /\ o.from < o.to
      /\ ~scan.on
      /\ WriteOrder(o)
  BY DEF JoinQueue, JoinQueueCrash, CanOrder, OnSale, Ready, SessionsType
<1>2. o \in OrderType
  BY RequestType
<1>3. /\ OrdersType' /\ nextIdx \in OrderIdx'
      /\ OrderIdx' = OrderIdx \cup {nextIdx}
      /\ data'[nextIdx] = o /\ \A i \in OrderIdx : data'[i] = data[i]
  BY <1>1, <1>2, WriteOrderType
<1>4. (history \in [Users -> Seq(OrderIdx)])'
  <2>1. CASE EnterHistory(u)
    BY <1>3, <2>1, EnterHistoryType
  <2>2. CASE UNCHANGED history
    BY <1>3, <2>2, HistoryType
  <2>. QED
    BY <2>1, <2>2 DEF JoinQueue, JoinQueueCrash
<1>5. SessionsType'
  BY <1>1, <1>4 DEF SessionsType
<1>6. TrainsType' /\ SeatsType' /\ (scan \in {Idle} \cup ScanType)'
  BY <1>1 DEF TrainsType, SeatsType
<1>7. OrdersKeepTheirTrain'
  BY <1>1, <1>3 DEF OrdersKeepTheirTrain, SeatsMatchTrains, OrdersHaveTrains, DaysOf
<1>8. QueueType' /\ QueueRefs'
  <2>1. CASE \E c \in DOMAIN queue : EnqueueAt(c, o)
    BY <1>1, <1>2, <2>1, EnqueueType
  <2>2. CASE UNCHANGED queue
    BY <1>1, <1>3, <2>2 DEF QueueType, QueueRefs, DaysOf
  <2>. QED
    BY <2>1, <2>2 DEF JoinQueue, JoinQueueCrash
<1>9. ScanRefs'
  BY <1>1 DEF ScanRefs
<1>. QED
  BY <1>3, <1>5, <1>6, <1>7, <1>8, <1>9

\* A user's n-th newest order is an order.
LEMMA NthNewestType ==
  ASSUME TypeInv, NEW u \in Users, NEW n \in 1 .. Len(history[u])
  PROVE  NthNewest(u, n) \in OrderIdx /\ NthNewest(u, n) # 0 /\ NthNewest(u, n) \in DOMAIN data
<1>1. history[u] \in Seq(OrderIdx)
  BY DEF TypeInv, TypeOK, SessionsType
<1>2. Len(history[u]) - n + 1 \in 1 .. Len(history[u])
  BY <1>1, LenProperties
<1>3. NthNewest(u, n) \in OrderIdx
  BY <1>1, <1>2, ElementOfSeq DEF NthNewest
<1>. QED
  BY <1>3 DEF TypeInv, TypeOK, OrdersType, OrderIdx

\* What a change of one status leaves in place, when trains and histories stay.
LEMMA StatusFrame ==
  ASSUME TypeInv, UNCHANGED <<online, train, nextIdx, history>>, up' \in BOOLEAN,
         DOMAIN seats' = DOMAIN seats,
         NEW s \in {Success, Refunded}, NEW i \in DOMAIN data, i = 0 => s = Success,
         SetStatus(i, s)
  PROVE  SessionsType' /\ TrainsType' /\ OrdersType' /\ OrdersKeepTheirTrain'
<1>. USE DEF TypeInv, TypeOK
<1>1. /\ OrdersType' /\ OrderIdx' = OrderIdx
      /\ \A j \in OrderIdx : data'[j].train = data[j].train /\ data'[j].day = data[j].day
  BY SetStatusType
<1>2. SessionsType' /\ TrainsType'
  BY <1>1 DEF SessionsType, TrainsType
<1>3. OrdersKeepTheirTrain'
  BY <1>1 DEF OrdersKeepTheirTrain, SeatsMatchTrains, OrdersHaveTrains, DaysOf
<1>. QED
  BY <1>1, <1>2, <1>3

\* refund_ticket of a waiting order.
LEMMA TypeInvCancelWaiting ==
  ASSUME TypeInv, NEW u \in Users, NEW n \in 1 .. MaxOrders, CancelWaiting(u, n)
  PROVE  TypeInv'
<1>. USE DEF TypeInv, TypeOK
<1>1. /\ UNCHANGED <<up, online, train, seats, nextIdx, queue, history, scan>>
      /\ n \in 1 .. Len(history[u])
      /\ SetStatus(NthNewest(u, n), Refunded)
  BY DEF CancelWaiting, CanRefund
<1>2. NthNewest(u, n) # 0 /\ NthNewest(u, n) \in DOMAIN data
  BY <1>1, NthNewestType
<1>3. SessionsType' /\ TrainsType' /\ OrdersType' /\ OrdersKeepTheirTrain'
  BY <1>1, <1>2, StatusFrame DEF SessionsType
<1>4. SeatsType' /\ QueueType' /\ (scan \in {Idle} \cup ScanType)'
  BY <1>1 DEF SeatsType, QueueType
<1>5. QueueRefs' /\ ScanRefs'
  BY <1>1 DEF QueueRefs, ScanRefs, OrderIdx, DaysOf
<1>. QED
  BY <1>3, <1>4, <1>5

\* refund_ticket of a successful order, up to its loop over the queue.
LEMMA TypeInvRefund ==
  ASSUME TypeInv, NEW u \in Users, NEW n \in 1 .. MaxOrders,
         RefundSeats(u, n) \/ RefundCrash(u, n)
  PROVE  TypeInv'
<1>. USE DEF TypeInv, TypeOK
<1>. DEFINE i == NthNewest(u, n)
            o == data[i]
<1>1. /\ UNCHANGED <<online, train, nextIdx, queue, history>> /\ up' \in BOOLEAN
      /\ n \in 1 .. Len(history[u])
      /\ ~scan.on
      /\ SetStatus(i, Refunded)
      /\ seats' = [seats EXCEPT ![<<o.train, o.day>>].seat = Give(@, o)]
  BY DEF RefundSeats, RefundCrash, CanRefund, Ready, SessionsType
<1>2. i \in OrderIdx /\ i # 0 /\ i \in DOMAIN data
  BY <1>1, NthNewestType
<1>3. o \in OrderType /\ o.train \in DOMAIN train /\ o.day \in DaysOf(o.train)
  BY <1>2 DEF OrdersType, OrdersKeepTheirTrain, OrdersHaveTrains
<1>4. <<o.train, o.day>> \in DOMAIN seats /\ SeatsFor(o).seat \in [Segments -> Nat]
  BY <1>3, SeatsForOrder
<1>5. Give(SeatsFor(o).seat, o) \in [Segments -> Nat]
  BY <1>3, <1>4, GiveType DEF OrderType
<1>6. SeatsType' /\ DOMAIN seats' = DOMAIN seats
  BY <1>1, <1>4, <1>5 DEF SeatsType, SeatsFor
<1>7. SessionsType' /\ TrainsType' /\ OrdersType' /\ OrdersKeepTheirTrain'
  BY <1>1, <1>2, <1>6, StatusFrame DEF SessionsType
<1>8. QueueType' /\ QueueRefs' /\ OrderIdx' = OrderIdx
  BY <1>1 DEF QueueType, QueueRefs, OrderIdx, DaysOf
<1>9. (scan \in {Idle} \cup ScanType)' /\ ScanRefs'
  <2>1. CASE RefundCrash(u, n)
    BY <1>1, <2>1 DEF RefundCrash, ScanRefs
  <2>2. CASE RefundSeats(u, n)
    <3>1. PICK c \in DOMAIN queue :
            /\ IsLowerBound(c, Sentinel(o.train, o.day))
            /\ scan' = [on |-> TRUE, train |-> o.train, day |-> o.day,
                        todo |-> FetchQueue(o.train, o.day, c).todo,
                        left |-> FetchQueue(o.train, o.day, c).left,
                        seat |-> Give(SeatsFor(o).seat, o)]
      BY <2>2 DEF RefundSeats
    <3>2. queue[c] \in Nat /\ FetchQueue(o.train, o.day, c).left = queue[c]
      BY DEF QueueType, FetchQueue
    <3>3. ASSUME NEW p \in FetchQueue(o.train, o.day, c).todo
          PROVE  p \in [idx : Nat, id : Nat] /\ p.id # 0 /\ p.idx \in OrderIdx
      <4>1. PICK k \in DOMAIN queue : /\ k[1] = o.train /\ k[2] = o.day /\ Before(c, k)
                                      /\ p = [idx |-> queue[k], id |-> k[3]]
        BY <3>3 DEF FetchQueue
      <4>2. k[3] \in Nat /\ queue[k] \in Nat
        BY DEF QueueType
      <4>3. k[3] # 0
        BY <3>1, <4>1 DEF IsLowerBound, Before, Sentinel
      <4>. QED
        BY <4>1, <4>2, <4>3 DEF QueueRefs
    <3>4. o.train \in Trains /\ o.day \in Nat
      BY <1>3 DEF OrderType
    <3>5. FetchQueue(o.train, o.day, c).todo \in SUBSET [idx : Nat, id : Nat]
      BY <3>3
    <3>6. scan' \in ScanType
      BY <1>5, <3>1, <3>2, <3>4, <3>5 DEF ScanType
    <3>7. ScanRefs'
      BY <1>4, <1>6, <1>8, <3>1, <3>3 DEF ScanRefs
    <3>. QED
      BY <3>6, <3>7
  <2>. QED
    BY <2>1, <2>2 DEF RefundSeats, RefundCrash
<1>. QED
  BY <1>1, <1>6, <1>7, <1>8, <1>9

\* The element the running loop looks at names an order, or element 0.
LEMMA EntryType ==
  ASSUME TypeInv, NEW p, Visiting(p)
  PROVE  /\ scan \in ScanType /\ scan.left > 0
         /\ <<scan.train, scan.day>> \in DOMAIN seats
         /\ p.idx \in {0} \cup OrderIdx /\ p.idx \in DOMAIN data /\ data[p.idx].num \in Nat
<1>. USE DEF TypeInv, TypeOK
<1>1. scan \in ScanType /\ scan.on /\ scan.left > 0 /\ p \in NextEntries
  BY DEF Visiting, Idle
<1>2. /\ <<scan.train, scan.day>> \in DOMAIN seats
      /\ \A q \in scan.todo : q.idx \in OrderIdx
  BY <1>1 DEF ScanRefs
<1>3. p.idx \in {0} \cup OrderIdx
  <2>1. p \in scan.todo \/ p = [idx |-> 0, id |-> 0]
    BY <1>1 DEF NextEntries
  <2>. QED
    BY <2>1, <1>2
<1>4. \A i \in {0} \cup OrderIdx : i \in DOMAIN data /\ data[i].num \in Nat
  BY DEF OrdersType, OrderType, HeaderType, BlankOrder, NewOrder
<1>. QED
  BY <1>1, <1>2, <1>3, <1>4

\* The loop moves on with seat counts of the right type.
LEMMA AdvanceType ==
  ASSUME scan \in ScanType, scan.left > 0, ScanRefs, NEW p,
         NEW seat \in [Segments -> Nat], Advance(p, seat),
         UNCHANGED nextIdx, DOMAIN seats' = DOMAIN seats
  PROVE  scan' \in ScanType /\ ScanRefs' /\ scan'.seat = seat
<1>1. /\ scan'.on = scan.on /\ scan'.train = scan.train /\ scan'.day = scan.day
      /\ scan'.todo = scan.todo \ {p} /\ scan'.left = scan.left - 1 /\ scan'.seat = seat
  BY DEF Advance, ScanType
<1>2. scan' \in ScanType
  <2>1. /\ scan.left - 1 \in Nat
        /\ scan.todo \ {p} \in SUBSET [idx : Nat, id : Nat]
    BY DEF ScanType
  <2>. QED
    BY <2>1 DEF Advance, ScanType
<1>3. ScanRefs'
  BY <1>1 DEF ScanRefs, ScanType, OrderIdx
<1>. QED
  BY <1>1, <1>2, <1>3

\* Taking an entry out of the queue keeps the queue well formed.
LEMMA DequeueType ==
  ASSUME QueueType, QueueRefs, UNCHANGED <<train, nextIdx>>, NEW p, Dequeue(p)
  PROVE  QueueType' /\ QueueRefs'
<1>1. /\ DOMAIN queue' \subseteq DOMAIN queue
      /\ \A k \in DOMAIN queue' : queue'[k] = queue[k]
      /\ queue' = [k \in DOMAIN queue' |-> queue'[k]]
  BY DEF Dequeue, RemoveKeys
<1>2. QueueType'
  <2>1. \A k \in DOMAIN queue' : queue'[k] \in Nat
    BY <1>1 DEF QueueType
  <2>. QED
    BY <1>1, <2>1 DEF QueueType
<1>3. QueueRefs'
  BY <1>1 DEF QueueRefs, OrderIdx, DaysOf
<1>. QED
  BY <1>2, <1>3

\* The loop over the waiting queue.
LEMMA TypeInvScanStep ==
  ASSUME TypeInv, ScanStep
  PROVE  TypeInv'
<1>. USE DEF TypeInv, TypeOK
<1>1. ASSUME NEW p \in NextEntries, DropEntry(p)
      PROVE  TypeInv'
  <2>1. /\ Visiting(p) /\ Dequeue(p) /\ Advance(p, scan.seat)
        /\ UNCHANGED <<up, online, train, seats, data, nextIdx, history>>
    BY <1>1 DEF DropEntry
  <2>2. scan \in ScanType /\ scan.left > 0
    BY <2>1, EntryType
  <2>3. scan' \in ScanType /\ ScanRefs'
    BY <2>1, <2>2, AdvanceType DEF ScanType
  <2>4. QueueType' /\ QueueRefs'
    BY <2>1, DequeueType
  <2>5. SessionsType' /\ TrainsType' /\ SeatsType' /\ OrdersType'
    BY <2>1 DEF SessionsType, TrainsType, SeatsType, OrdersType, OrderIdx
  <2>6. OrdersKeepTheirTrain'
    BY <2>1 DEF OrdersKeepTheirTrain, SeatsMatchTrains, OrdersHaveTrains, OrderIdx, DaysOf
  <2>. QED
    BY <2>3, <2>4, <2>5, <2>6
<1>2. ASSUME NEW p \in NextEntries, ServeEntry(p)
      PROVE  TypeInv'
  <2>1. /\ Visiting(p) /\ Dequeue(p) /\ Advance(p, Take(scan.seat, data[p.idx]))
        /\ Fits(scan.seat, data[p.idx]) /\ SetStatus(p.idx, Success)
        /\ UNCHANGED <<up, online, train, seats, nextIdx, history>>
    BY <1>2 DEF ServeEntry
  <2>2. /\ scan \in ScanType /\ scan.left > 0
        /\ p.idx \in DOMAIN data /\ data[p.idx].num \in Nat
    BY <2>1, EntryType
  <2>3. Take(scan.seat, data[p.idx]) \in [Segments -> Nat]
    BY <2>1, <2>2, TakeType DEF ScanType
  <2>4. scan' \in ScanType /\ ScanRefs'
    BY <2>1, <2>2, <2>3, AdvanceType
  <2>5. QueueType' /\ QueueRefs'
    BY <2>1, DequeueType
  <2>6. SessionsType' /\ TrainsType' /\ OrdersType' /\ OrdersKeepTheirTrain'
    BY <2>1, <2>2, StatusFrame DEF SessionsType
  <2>7. SeatsType'
    BY <2>1 DEF SeatsType
  <2>. QED
    BY <2>4, <2>5, <2>6, <2>7
<1>3. ASSUME NEW p \in NextEntries, SkipEntry(p)
      PROVE  TypeInv'
  <2>1. /\ Visiting(p) /\ Advance(p, scan.seat)
        /\ UNCHANGED <<up, online, train, seats, data, nextIdx, queue, history>>
    BY <1>3 DEF SkipEntry
  <2>2. scan \in ScanType /\ scan.left > 0
    BY <2>1, EntryType
  <2>3. scan' \in ScanType /\ ScanRefs'
    BY <2>1, <2>2, AdvanceType DEF ScanType
  <2>4. SessionsType' /\ TrainsType' /\ SeatsType' /\ OrdersType' /\ QueueType'
    BY <2>1 DEF SessionsType, TrainsType, SeatsType, OrdersType, QueueType, OrderIdx
  <2>5. OrdersKeepTheirTrain' /\ QueueRefs'
    BY <2>1 DEF OrdersKeepTheirTrain, SeatsMatchTrains, OrdersHaveTrains, QueueRefs,
                OrderIdx, DaysOf
  <2>. QED
    BY <2>3, <2>4, <2>5
<1>4. ASSUME EndScan
      PROVE  TypeInv'
  <2>1. /\ scan.on /\ scan' = Idle
        /\ seats' = [seats EXCEPT ![<<scan.train, scan.day>>].seat = scan.seat]
        /\ UNCHANGED <<up, online, train, data, nextIdx, queue, history>>
    BY <1>4 DEF EndScan
  <2>2. scan \in ScanType
    BY <2>1 DEF Idle
  <2>3. scan.seat \in [Segments -> Nat] /\ DOMAIN seats' = DOMAIN seats
    BY <2>1, <2>2 DEF ScanType
  <2>4. SeatsType'
    BY <2>1, <2>3 DEF SeatsType
  <2>5. SessionsType' /\ TrainsType' /\ OrdersType' /\ QueueType'
    BY <2>1 DEF SessionsType, TrainsType, OrdersType, QueueType, OrderIdx
  <2>6. OrdersKeepTheirTrain' /\ QueueRefs' /\ ScanRefs'
    BY <2>1, <2>3 DEF OrdersKeepTheirTrain, SeatsMatchTrains, OrdersHaveTrains, QueueRefs,
                      ScanRefs, OrderIdx, DaysOf, Idle
  <2>. QED
    BY <2>1, <2>4, <2>5, <2>6
<1>. QED
  BY <1>1, <1>2, <1>3, <1>4 DEF ScanStep

\* Every step keeps the invariant.
LEMMA TypeInvNext == TypeInv /\ [Next]_vars => TypeInv'
<1>. SUFFICES ASSUME TypeInv, [Next]_vars PROVE TypeInv'
  OBVIOUS
<1>1. CASE (\E u \in Users : Login(u) \/ Logout(u)) \/ Restart
  BY <1>1, TypeInvSession
<1>2. CASE \E t \in Trains, m \in SeatNums, n \in DayCounts : AddTrain(t, m, n)
  BY <1>2, TypeInvAddTrain
<1>3. CASE \E t \in Trains : DeleteTrain(t) \/ ReleaseTrain(t)
  BY <1>3, TypeInvDeleteTrain, TypeInvReleaseTrain
<1>4. CASE \E u \in Users, o \in Requests(Success) : BuySeats(u, o)
  BY <1>4, TypeInvBuySeats
<1>5. CASE \E u \in Users, o \in Requests(Pending) : JoinQueue(u, o) \/ JoinQueueCrash(u, o)
  BY <1>5, TypeInvJoinQueue
<1>6. CASE \E u \in Users, n \in 1 .. MaxOrders :
             CancelWaiting(u, n) \/ RefundSeats(u, n) \/ RefundCrash(u, n)
  BY <1>6, TypeInvCancelWaiting, TypeInvRefund
<1>7. CASE ScanStep
  BY <1>7, TypeInvScanStep
<1>8. CASE UNCHANGED vars
  BY <1>8 DEF vars, TypeInv, TypeOK, SessionsType, TrainsType, SeatsType, OrdersType,
              QueueType, OrdersKeepTheirTrain, SeatsMatchTrains, OrdersHaveTrains,
              QueueRefs, ScanRefs, OrderIdx, DaysOf
<1>. QED
  BY <1>1, <1>2, <1>3, <1>4, <1>5, <1>6, <1>7, <1>8 DEF Next

\* The typing invariant, with the references between trains, seats, orders and
\* queues that it needs, holds in every reachable state.
THEOREM TypeInvariance == Spec => []TypeInv
BY TypeInvInit, TypeInvNext, PTL DEF Spec

\* Every variable keeps its type: no number of free seats goes below zero.
THEOREM TypeCorrect == Spec => []TypeOK
<1>1. TypeInv => TypeOK
  BY DEF TypeInv
<1>. QED
  BY <1>1, TypeInvariance, PTL

\* delete_train never takes away a train that has orders, and there is a seat
\* record for exactly the days of the trains there are.
THEOREM OrderedTrainsStay == Spec => []OrdersKeepTheirTrain
<1>1. TypeInv => OrdersKeepTheirTrain
  BY DEF TypeInv
<1>. QED
  BY <1>1, TypeInvariance, PTL

-----------------------------------------------------------------------------
(* No servable order waits: what ServeInv adds to TypeInv *)

Served == CounterCovers /\ WaitingHaveEntries /\ ScanCovers /\ NoneServable

\* A triple is made of its three parts.
LEMMA TripleParts ==
  ASSUME NEW A, NEW B, NEW C, NEW k \in A \X B \X C
  PROVE  k = <<k[1], k[2], k[3]>> /\ k[1] \in A /\ k[2] \in B /\ k[3] \in C
OBVIOUS

\* A key of the queue is the triple of its parts, and these are numbers.
LEMMA KeyType ==
  ASSUME QueueType, NEW k \in DOMAIN queue
  PROVE  /\ k = <<k[1], k[2], k[3]>>
         /\ k[1] \in Nat /\ k[2] \in Nat /\ k[3] \in Nat /\ queue[k] \in Nat
<1>1. queue[k] \in Nat
  BY DEF QueueType
<1>2. k \in Trains \X Nat \X Nat
  BY DEF QueueType
<1>3. /\ k = <<k[1], k[2], k[3]>>
      /\ k[1] \in Trains /\ k[2] \in Nat /\ k[3] \in Nat
  BY <1>2, TripleParts
<1>. QED
  BY <1>1, <1>3, TrainsAssumption

\* While the counter is there, lower_bound(sentinel) finds it.
LEMMA LowerBoundIsCounter ==
  ASSUME QueueType, NEW t \in Nat, NEW d \in Nat, Intact(t, d),
         NEW c, IsLowerBound(c, Sentinel(t, d))
  PROVE  c = Sentinel(t, d)
<1>1. /\ c \in DOMAIN queue /\ ~Before(c, Sentinel(t, d))
      /\ ~Before(Sentinel(t, d), c)
  BY DEF IsLowerBound, Intact, Before, Sentinel
<1>2. c = <<c[1], c[2], c[3]>> /\ c[1] \in Nat /\ c[2] \in Nat /\ c[3] \in Nat
  BY <1>1, KeyType
<1>3. c[1] = t /\ c[2] = d /\ c[3] = 0
  BY <1>1, <1>2 DEF Before, Sentinel
<1>. QED
  BY <1>2, <1>3 DEF Sentinel

\* While the counter is there, lower_bound(sentinel) is not end().
LEMMA CounterIsFound ==
  ASSUME NEW t \in Nat, NEW d \in Nat, PastTheEnd(Sentinel(t, d))
  PROVE  ~Intact(t, d)
BY DEF PastTheEnd, Intact, Before, Sentinel

\* When lower_bound(sentinel) stops at an entry that is no counter, the queue
\* of that entry has lost its own.
LEMMA EntryFoundMeansLost ==
  ASSUME QueueType, NEW t \in Nat, NEW d \in Nat,
         NEW c, IsLowerBound(c, Sentinel(t, d)), c[3] # 0
  PROVE  ~Intact(c[1], c[2])
<1>. SUFFICES ASSUME Intact(c[1], c[2]) PROVE FALSE
  OBVIOUS
<1>. DEFINE s == <<c[1], c[2], 0>>
<1>1. /\ c \in DOMAIN queue /\ ~Before(c, <<t, d, 0>>)
      /\ s \in DOMAIN queue
      /\ ~Before(s, <<t, d, 0>>) => ~Before(s, c)
  BY DEF IsLowerBound, Intact, Sentinel
<1>2. c[1] \in Nat /\ c[2] \in Nat /\ c[3] \in Nat
  BY <1>1, KeyType
<1>3. Before(s, c)
  BY <1>2 DEF Before
<1>4. Before(s, <<t, d, 0>>)
  BY <1>1, <1>3
<1>. QED
  BY <1>1, <1>2, <1>4 DEF Before

\* The initial state.
LEMMA ServedInit == Init => Served
<1>. SUFFICES ASSUME Init PROVE Served
  OBVIOUS
<1>1. OrderIdx = {} /\ DOMAIN queue = {}
  BY DEF Init, OrderIdx
<1>2. ~scan.on
  BY DEF Init, Idle
<1>. QED
  BY <1>1, <1>2 DEF Served, CounterCovers, WaitingHaveEntries, ScanCovers, NoneServable

\* Steps that touch neither the orders, nor the queues, nor the seats of a
\* train that has been ordered.
LEMMA ServedFrame ==
  ASSUME Served, UNCHANGED <<nextIdx, queue, scan>>,
         \A i \in OrderIdx : /\ data'[i] = data[i]
                             /\ SeatsFor(data[i])' = SeatsFor(data[i])
  PROVE  Served'
<1>1. OrderIdx' = OrderIdx
  BY DEF OrderIdx
<1>2. CounterCovers'
  BY DEF Served, CounterCovers, Intact
<1>3. WaitingHaveEntries'
  BY <1>1 DEF Served, WaitingHaveEntries, Intact, EntriesOf
<1>4. ScanCovers'
  BY <1>1 DEF Served, ScanCovers, Intact
<1>5. NoneServable'
  BY <1>1 DEF Served, NoneServable, Intact, ScanningDay
<1>. QED
  BY <1>2, <1>3, <1>4, <1>5 DEF Served

\* login, logout, restart, add_train and delete_train are such steps: the last
\* two are about a train that nobody can have ordered.
LEMMA ServedOther ==
  ASSUME TypeInv, Served,
         \/ \E u \in Users : Login(u) \/ Logout(u)
         \/ Restart
         \/ \E t \in Trains, m \in SeatNums, n \in DayCounts : AddTrain(t, m, n)
         \/ \E t \in Trains : DeleteTrain(t)
  PROVE  Served'
<1>1. UNCHANGED <<nextIdx, queue, scan>>
  BY DEF Login, Logout, Restart, AddTrain, DeleteTrain
<1>2. ASSUME NEW i \in OrderIdx PROVE data'[i] = data[i]
  <2>1. i # 0
    BY DEF TypeInv, TypeOK, OrdersType, OrderIdx
  <2>. QED
    BY <2>1, <1>2 DEF Login, Logout, Restart, AddTrain, DeleteTrain, TypeInv, TypeOK, OrdersType
<1>3. ASSUME NEW i \in OrderIdx PROVE SeatsFor(data[i])' = SeatsFor(data[i])
  <2>. DEFINE k == <<data[i].train, data[i].day>>
  <2>1. /\ data[i].train \in DOMAIN train /\ train[data[i].train].released
        /\ data[i].day \in DaysOf(data[i].train)
    BY DEF TypeInv, OrdersKeepTheirTrain, OrdersHaveTrains
  <2>2. k \in DOMAIN seats
    BY <2>1, SeatsForOrder
  <2>3. seats'[k] = seats[k]
    <3>1. CASE UNCHANGED seats
      BY <3>1
    <3>2. ASSUME NEW t \in Trains, NEW m \in SeatNums, NEW n \in DayCounts, AddTrain(t, m, n)
          PROVE  seats'[k] = seats[k]
      BY <2>1, <2>2, <3>2 DEF AddTrain
    <3>3. ASSUME NEW t \in Trains, DeleteTrain(t)
          PROVE  seats'[k] = seats[k]
      BY <2>1, <2>2, <3>3 DEF DeleteTrain, RemoveKeys
    <3>. QED
      BY <3>1, <3>2, <3>3 DEF Login, Logout, Restart
  <2>. QED
    BY <1>2, <2>3 DEF SeatsFor
<1>. QED
  BY <1>1, <1>2, <1>3, ServedFrame

\* release_train opens queues that have no entries yet.
LEMMA ServedReleaseTrain ==
  ASSUME TypeInv, Served, NEW t \in Trains, ReleaseTrain(t)
  PROVE  Served'
<1>. DEFINE sentinels == {Sentinel(t, d) : d \in DaysOf(t)}
<1>1. /\ UNCHANGED <<seats, data, nextIdx, scan>> /\ ~scan.on
      /\ t \in DOMAIN train /\ ~train[t].released
      /\ queue' = [k \in DOMAIN queue \cup sentinels |->
                     IF k \in sentinels THEN 0 ELSE queue[k]]
  BY DEF ReleaseTrain, Ready
<1>2. OrderIdx' = OrderIdx
  BY <1>1 DEF OrderIdx
<1>3. \A k \in sentinels : k[1] = t /\ k[3] = 0
  BY DEF Sentinel
<1>4. \A k \in DOMAIN queue : k[1] # t /\ k \notin sentinels /\ k \in DOMAIN queue' /\ queue'[k] = queue[k]
  BY <1>1, <1>3 DEF TypeInv, QueueRefs
<1>5. \A k \in DOMAIN queue' : k[3] # 0 => k \in DOMAIN queue
  BY <1>1, <1>3
<1>6. ASSUME NEW x, x # t, NEW d
      PROVE  /\ Sentinel(x, d) \in DOMAIN queue' <=> Intact(x, d)
             /\ Intact(x, d) => queue'[Sentinel(x, d)] = queue[Sentinel(x, d)]
  <2>1. Sentinel(x, d) \notin sentinels
    BY <1>3, <1>6 DEF Sentinel
  <2>. QED
    BY <1>1, <1>4, <2>1 DEF Intact
<1>7. \A i \in OrderIdx : data[i].train # t
  BY <1>1 DEF TypeInv, OrdersKeepTheirTrain, OrdersHaveTrains
<1>8. CounterCovers'
  <2>. SUFFICES ASSUME NEW k \in DOMAIN queue', k[3] # 0, Intact(k[1], k[2])'
                PROVE  k[3] <= queue'[Sentinel(k[1], k[2])]
    BY DEF CounterCovers, Sentinel
  <2>1. k \in DOMAIN queue /\ k[1] # t /\ queue'[k] = queue[k]
    BY <1>4, <1>5
  <2>. QED
    BY <1>6, <2>1 DEF Served, CounterCovers, Intact
<1>9. WaitingHaveEntries'
  <2>. SUFFICES ASSUME NEW i \in OrderIdx, data[i].status = Pending,
                       Sentinel(data[i].train, data[i].day) \in DOMAIN queue'
                PROVE  \E k \in DOMAIN queue' : /\ k[1] = data[i].train /\ k[2] = data[i].day
                                               /\ k[3] # 0 /\ queue'[k] = i
    BY <1>1, <1>2 DEF WaitingHaveEntries, Intact, EntriesOf
  <2>1. PICK k \in EntriesOf(data[i].train, data[i].day) : queue[k] = i
    BY <1>6, <1>7 DEF Served, WaitingHaveEntries
  <2>. QED
    BY <1>4, <2>1 DEF EntriesOf
<1>10. ScanCovers'
  BY <1>1 DEF ScanCovers
<1>11. NoneServable'
  <2>. SUFFICES ASSUME NEW i \in OrderIdx, data[i].status = Pending,
                       Sentinel(data[i].train, data[i].day) \in DOMAIN queue',
                       ~ScanningDay(data[i].train, data[i].day)
                PROVE  ~Fits(SeatsFor(data[i]).seat, data[i])
    BY <1>1, <1>2 DEF NoneServable, Intact, ScanningDay, SeatsFor
  <2>. QED
    BY <1>6, <1>7 DEF Served, NoneServable
<1>. QED
  BY <1>8, <1>9, <1>10, <1>11 DEF Served

\* A purchase takes seats: an order that did not fit does not fit now.
LEMMA ServedBuySeats ==
  ASSUME TypeInv, Served, NEW u \in Users, NEW o \in Requests(Success), BuySeats(u, o)
  PROVE  Served'
<1>. DEFINE key == <<o.train, o.day>>
<1>1. /\ UNCHANGED <<train, queue, scan>> /\ ~scan.on
      /\ o.train \in DOMAIN train /\ o.day \in DaysOf(o.train) /\ o.from < o.to
      /\ o.status = Success
      /\ WriteOrder(o)
      /\ seats' = [seats EXCEPT ![key].seat = Take(@, o)]
  BY DEF BuySeats, CanOrder, OnSale, Ready
<1>2. o \in OrderType /\ Success # Pending
  BY RequestType DEF Success, Pending
<1>3. /\ OrderIdx' = OrderIdx \cup {nextIdx}
      /\ data'[nextIdx] = o /\ \A i \in OrderIdx : data'[i] = data[i]
  BY <1>1, <1>2, WriteOrderType DEF TypeInv, TypeOK
<1>4. /\ key \in DOMAIN seats
      /\ seats[key] \in [seat : [Segments -> Nat], max : SeatNums]
      /\ seats'[key].seat = Take(seats[key].seat, o)
  <2>1. /\ key \in DOMAIN seats
        /\ seats[key] \in [seat : [Segments -> Nat], max : SeatNums]
    BY <1>1, SeatsForOrder DEF SeatsFor
  <2>2. seats'[key] = [seats[key] EXCEPT !.seat = Take(@, o)]
    BY <1>1, <2>1
  <2>. QED
    BY <2>1, <2>2
<1>5. CounterCovers' /\ ScanCovers'
  BY <1>1 DEF Served, CounterCovers, Intact, ScanCovers
<1>6. WaitingHaveEntries'
  BY <1>1, <1>2, <1>3 DEF Served, WaitingHaveEntries, Intact, EntriesOf
<1>7. NoneServable'
  <2>. SUFFICES ASSUME NEW i \in OrderIdx', data'[i].status = Pending,
                       Intact(data'[i].train, data'[i].day),
                       ~ScanningDay(data'[i].train, data'[i].day),
                       Fits(SeatsFor(data[i])'.seat, data'[i])
                PROVE  FALSE
    BY <1>1 DEF NoneServable, Intact, ScanningDay, SeatsFor
  <2>1. i \in OrderIdx /\ data'[i] = data[i]
    BY <1>1, <1>2, <1>3
  <2>2. ~Fits(SeatsFor(data[i]).seat, data[i])
    BY <2>1 DEF Served, NoneServable
  <2>3. /\ data[i] \in OrderType /\ data[i].from < data[i].to
        /\ data[i].train \in DOMAIN train /\ data[i].day \in DaysOf(data[i].train)
    BY <2>1 DEF TypeInv, TypeOK, OrdersType, OrdersKeepTheirTrain, OrdersHaveTrains
  <2>4. /\ SeatsFor(data[i]).seat \in [Segments -> Nat]
        /\ <<data[i].train, data[i].day>> \in DOMAIN seats
    BY <2>3, SeatsForOrder
  <2>5. CASE <<data[i].train, data[i].day>> = key
    <3>1. SeatsFor(data[i])'.seat = Take(SeatsFor(data[i]).seat, o)
      BY <1>4, <2>1, <2>5 DEF SeatsFor
    <3>2. Fits(SeatsFor(data[i]).seat, data[i])
      BY <1>2, <2>1, <2>3, <2>4, <3>1, CoveredInSegments, TakeShrinks DEF OrderType
    <3>. QED
      BY <2>2, <3>2
  <2>6. CASE <<data[i].train, data[i].day>> # key
    BY <1>1, <2>1, <2>2, <2>4, <2>6 DEF SeatsFor
  <2>. QED
    BY <2>5, <2>6
<1>. QED
  BY <1>5, <1>6, <1>7 DEF Served

\* A new waiting order gets the next id of its queue; when the counter of its
\* queue is lost the ids of no queue that has one are touched.
LEMMA ServedJoinQueue ==
  ASSUME TypeInv, Served, NEW u \in Users, NEW o \in Requests(Pending), JoinQueue(u, o)
  PROVE  Served'
<1>. USE DEF TypeInv, TypeOK
<1>1. /\ UNCHANGED <<train, seats, scan>> /\ ~scan.on
      /\ o.from < o.to
      /\ ~Fits(SeatsFor(o).seat, o)
      /\ WriteOrder(o)
  BY DEF JoinQueue, CanOrder, OnSale, Ready, MustWait
<1>2. o \in OrderType /\ o.train \in Nat /\ o.day \in Nat
  BY RequestType DEF OrderType
<1>3. /\ OrderIdx' = OrderIdx \cup {nextIdx}
      /\ data'[nextIdx] = o /\ \A i \in OrderIdx : data'[i] = data[i]
  BY <1>1, <1>2, WriteOrderType
<1>4. PICK c \in DOMAIN queue : IsLowerBound(c, Sentinel(o.train, o.day)) /\ EnqueueAt(c, o)
  BY DEF JoinQueue
<1>. DEFINE key == <<o.train, o.day, queue[c] + 1>>
<1>5. /\ queue[c] \in Nat /\ key[3] # 0
      /\ c[3] # 0 => ~Intact(c[1], c[2])
      /\ Intact(o.train, o.day) => c = Sentinel(o.train, o.day)
  BY <1>2, <1>4, KeyType, EntryFoundMeansLost, LowerBoundIsCounter
<1>6. /\ DOMAIN queue' = DOMAIN queue \cup {key}
      /\ \A k \in DOMAIN queue' : queue'[k] = IF k = key THEN nextIdx
                                              ELSE IF k = c THEN queue[c] + 1 ELSE queue[k]
  BY <1>4 DEF EnqueueAt, Put
<1>7. \A t, d : Sentinel(t, d) \in DOMAIN queue' <=> Intact(t, d)
  BY <1>5, <1>6 DEF Intact, Sentinel
<1>8. \A k \in DOMAIN queue : k[3] # 0 /\ Intact(k[1], k[2]) =>
                                k # key /\ k # c /\ queue'[k] = queue[k]
  <2>. SUFFICES ASSUME NEW k \in DOMAIN queue, k[3] # 0, Intact(k[1], k[2])
                PROVE  k # key /\ k # c /\ queue'[k] = queue[k]
    OBVIOUS
  <2>1. k # c
    BY <1>5
  <2>2. k # key
    <3>. SUFFICES ASSUME k = key PROVE FALSE
      OBVIOUS
    <3>1. c = Sentinel(k[1], k[2])
      BY <1>5
    <3>2. k[3] <= queue[c]
      BY <3>1 DEF Served, CounterCovers
    <3>. QED
      BY <1>5, <3>2
  <2>. QED
    BY <1>6, <2>1, <2>2
<1>9. CounterCovers'
  <2>. SUFFICES ASSUME NEW k \in DOMAIN queue', k[3] # 0, Intact(k[1], k[2])
                PROVE  k[3] <= queue'[Sentinel(k[1], k[2])]
    BY <1>7 DEF CounterCovers, Intact, Sentinel
  <2>. DEFINE s == Sentinel(k[1], k[2])
  <2>1. s \in DOMAIN queue /\ s # key /\ queue[s] \in Nat
    BY <1>5, KeyType DEF Intact, Sentinel
  <2>2. queue'[s] = IF s = c THEN queue[c] + 1 ELSE queue[s]
    BY <1>6, <2>1
  <2>3. CASE k = key
    BY <1>5, <2>2, <2>3
  <2>4. CASE k # key
    <3>1. k \in DOMAIN queue /\ k[3] \in Nat
      BY <1>6, <2>4, KeyType
    <3>2. k[3] <= queue[s]
      BY <3>1 DEF Served, CounterCovers
    <3>. QED
      BY <2>1, <2>2, <3>1, <3>2
  <2>. QED
    BY <2>3, <2>4
<1>10. WaitingHaveEntries'
  <2>. SUFFICES ASSUME NEW i \in OrderIdx', data'[i].status = Pending,
                       Intact(data'[i].train, data'[i].day)
                PROVE  \E k \in DOMAIN queue' : /\ k[1] = data'[i].train /\ k[2] = data'[i].day
                                               /\ k[3] # 0 /\ queue'[k] = i
    BY <1>7 DEF WaitingHaveEntries, Intact, EntriesOf
  <2>1. CASE i = nextIdx
    BY <1>3, <1>5, <1>6, <2>1
  <2>2. CASE i \in OrderIdx
    <3>1. PICK k \in EntriesOf(data[i].train, data[i].day) : queue[k] = i
      BY <1>3, <2>2 DEF Served, WaitingHaveEntries
    <3>2. k \in DOMAIN queue' /\ queue'[k] = i
      BY <1>3, <1>6, <1>8, <2>2, <3>1 DEF EntriesOf
    <3>. QED
      BY <1>3, <2>2, <3>1, <3>2 DEF EntriesOf
  <2>. QED
    BY <1>3, <2>1, <2>2
<1>11. ScanCovers'
  BY <1>1 DEF ScanCovers
<1>12. NoneServable'
  <2>. SUFFICES ASSUME NEW i \in OrderIdx', data'[i].status = Pending,
                       Intact(data'[i].train, data'[i].day),
                       ~ScanningDay(data'[i].train, data'[i].day)
                PROVE  ~Fits(seats[<<data'[i].train, data'[i].day>>].seat, data'[i])
    BY <1>1, <1>7 DEF NoneServable, Intact, ScanningDay, SeatsFor
  <2>1. CASE i = nextIdx
    BY <1>1, <1>3, <2>1 DEF SeatsFor
  <2>2. CASE i \in OrderIdx
    BY <1>3, <2>2 DEF Served, NoneServable, SeatsFor
  <2>. QED
    BY <1>3, <2>1, <2>2
<1>. QED
  BY <1>9, <1>10, <1>11, <1>12 DEF Served

\* The process dies only where the counter of the order's queue is lost.
LEMMA ServedJoinQueueCrash ==
  ASSUME TypeInv, Served, NEW u \in Users, NEW o \in Requests(Pending), JoinQueueCrash(u, o)
  PROVE  Served'
<1>1. /\ UNCHANGED <<train, seats, queue, scan>> /\ ~scan.on
      /\ o.from < o.to
      /\ WriteOrder(o)
      /\ PastTheEnd(Sentinel(o.train, o.day))
  BY DEF JoinQueueCrash, CanOrder, OnSale, Ready
<1>2. o \in OrderType /\ o.train \in Nat /\ o.day \in Nat
  BY RequestType DEF OrderType
<1>3. /\ OrderIdx' = OrderIdx \cup {nextIdx}
      /\ data'[nextIdx] = o /\ \A i \in OrderIdx : data'[i] = data[i]
  BY <1>1, <1>2, WriteOrderType DEF TypeInv, TypeOK
<1>4. ~Intact(o.train, o.day)
  BY <1>1, <1>2, CounterIsFound
<1>5. CounterCovers' /\ ScanCovers'
  BY <1>1 DEF Served, CounterCovers, Intact, ScanCovers
<1>6. WaitingHaveEntries'
  BY <1>1, <1>3, <1>4 DEF Served, WaitingHaveEntries, Intact, EntriesOf
<1>7. NoneServable'
  BY <1>1, <1>3, <1>4 DEF Served, NoneServable, Intact, ScanningDay, SeatsFor
<1>. QED
  BY <1>5, <1>6, <1>7 DEF Served

\* A cancelled order waits no longer.
LEMMA ServedCancelWaiting ==
  ASSUME TypeInv, Served, NEW u \in Users, NEW n \in 1 .. MaxOrders, CancelWaiting(u, n)
  PROVE  Served'
<1>. USE DEF TypeInv, TypeOK
<1>1. /\ UNCHANGED <<up, online, train, seats, nextIdx, queue, history, scan>> /\ ~scan.on
      /\ n \in 1 .. Len(history[u])
      /\ SetStatus(NthNewest(u, n), Refunded)
  BY DEF CancelWaiting, CanRefund, Ready
<1>2. NthNewest(u, n) # 0 /\ NthNewest(u, n) \in DOMAIN data
  BY <1>1, NthNewestType
<1>3. /\ OrderIdx' = OrderIdx
      /\ \A j \in OrderIdx :
           /\ data'[j].train = data[j].train /\ data'[j].day = data[j].day
           /\ data'[j].from = data[j].from /\ data'[j].to = data[j].to
           /\ data'[j].num = data[j].num
           /\ data'[j].status = Pending => data[j].status = Pending
  BY <1>1, <1>2, SetStatusType DEF Pending, Refunded
<1>4. CounterCovers' /\ ScanCovers'
  BY <1>1 DEF Served, CounterCovers, Intact, ScanCovers
<1>5. WaitingHaveEntries'
  BY <1>1, <1>3 DEF Served, WaitingHaveEntries, Intact, EntriesOf
<1>6. NoneServable'
  BY <1>1, <1>3 DEF Served, NoneServable, Intact, ScanningDay, SeatsFor, Fits, Covered
<1>. QED
  BY <1>4, <1>5, <1>6 DEF Served

\* The ids of one queue are distinct numbers up to its counter, so the vector
\* FetchQueue sizes by the counter has room for all entries.
LEMMA EntriesFit ==
  ASSUME NEW n \in Nat, NEW S \in SUBSET [idx : Nat, id : Nat],
         \A p \in S : p.id \in 1 .. n,
         \A p, q \in S : p.id = q.id => p = q
  PROVE  IsFiniteSet(S) /\ Cardinality(S) <= n
<1>. DEFINE f == [p \in S |-> p.id]
<1>1. f \in Injection(S, 1 .. n)
  BY DEF Injection, IsInjective
<1>2. IsFiniteSet(1 .. n) /\ Cardinality(1 .. n) = n
  BY FS_Interval
<1>. QED
  BY ONLY <1>1, <1>2, FS_Injection

\* Orders keep all but their status when a successful order is refunded, and
\* no order begins to wait.
LEMMA RefundOrders ==
  ASSUME TypeInv, NEW u \in Users, NEW n \in 1 .. MaxOrders,
         RefundSeats(u, n) \/ RefundCrash(u, n)
  PROVE  /\ UNCHANGED queue /\ ~scan.on /\ OrderIdx' = OrderIdx
         /\ NthNewest(u, n) \in OrderIdx
         /\ \A k \in DOMAIN seats :
              k # <<data[NthNewest(u, n)].train, data[NthNewest(u, n)].day>> => seats'[k] = seats[k]
         /\ \A j \in OrderIdx :
              /\ data'[j].train = data[j].train /\ data'[j].day = data[j].day
              /\ data'[j].from = data[j].from /\ data'[j].to = data[j].to
              /\ data'[j].num = data[j].num
              /\ data'[j].status = Pending => data[j].status = Pending
<1>. DEFINE i == NthNewest(u, n)
<1>1. /\ UNCHANGED <<nextIdx, queue>> /\ ~scan.on
      /\ n \in 1 .. Len(history[u])
      /\ SetStatus(i, Refunded)
      /\ seats' = [seats EXCEPT ![<<data[i].train, data[i].day>>].seat = Give(@, data[i])]
  BY DEF RefundSeats, RefundCrash, CanRefund, Ready
<1>2. i \in OrderIdx /\ i # 0 /\ i \in DOMAIN data
  BY <1>1, NthNewestType
<1>3. OrderIdx' = OrderIdx
  BY <1>1 DEF OrderIdx
<1>4. \A j \in OrderIdx :
        /\ data'[j].train = data[j].train /\ data'[j].day = data[j].day
        /\ data'[j].from = data[j].from /\ data'[j].to = data[j].to
        /\ data'[j].num = data[j].num
        /\ data'[j].status = Pending => data[j].status = Pending
  BY <1>1, <1>2, SetStatusType DEF TypeInv, TypeOK, Pending, Refunded
<1>5. \A k \in DOMAIN seats : k # <<data[i].train, data[i].day>> => seats'[k] = seats[k]
  BY <1>1
<1>. QED
  BY <1>1, <1>2, <1>3, <1>4, <1>5

\* A refund: the loop that begins has every waiting order of its queue before
\* it; the queues of other days have got no seats back.
LEMMA ServedRefund ==
  ASSUME TypeInv, Served, NEW u \in Users, NEW n \in 1 .. MaxOrders,
         RefundSeats(u, n) \/ RefundCrash(u, n)
  PROVE  Served'
<1>. USE DEF TypeInv, TypeOK
<1>. DEFINE o == data[NthNewest(u, n)]
            t == o.train
            d == o.day
<1>1. /\ UNCHANGED queue /\ ~scan.on /\ OrderIdx' = OrderIdx
      /\ NthNewest(u, n) \in OrderIdx
      /\ \A k \in DOMAIN seats : k # <<t, d>> => seats'[k] = seats[k]
      /\ \A j \in OrderIdx :
           /\ data'[j].train = data[j].train /\ data'[j].day = data[j].day
           /\ data'[j].from = data[j].from /\ data'[j].to = data[j].to
           /\ data'[j].num = data[j].num
           /\ data'[j].status = Pending => data[j].status = Pending
  BY RefundOrders
<1>2. t \in Nat /\ d \in Nat
  BY <1>1 DEF OrdersType, OrderType
<1>3. CounterCovers'
  BY <1>1 DEF Served, CounterCovers, Intact
<1>4. WaitingHaveEntries'
  BY <1>1 DEF Served, WaitingHaveEntries, Intact, EntriesOf
<1>5. CASE RefundCrash(u, n)
  <2>1. ~Intact(t, d) /\ UNCHANGED scan
    BY <1>2, <1>5, CounterIsFound DEF RefundCrash
  <2>2. ScanCovers'
    BY <1>1, <2>1 DEF ScanCovers
  <2>3. NoneServable'
    <3>. SUFFICES ASSUME NEW i \in OrderIdx, data[i].status = Pending,
                         Intact(data[i].train, data[i].day)
                  PROVE  ~Fits(seats'[<<data[i].train, data[i].day>>].seat, data'[i])
      BY <1>1 DEF NoneServable, Intact, SeatsFor
    <3>1. <<data[i].train, data[i].day>> \in DOMAIN seats
      BY SeatsForOrder DEF OrdersKeepTheirTrain, OrdersHaveTrains
    <3>2. SeatsFor(data[i]).seat = seats'[<<data[i].train, data[i].day>>].seat
      BY <1>1, <2>1, <3>1 DEF SeatsFor
    <3>3. ~Fits(SeatsFor(data[i]).seat, data[i])
      BY <1>1 DEF Served, NoneServable, ScanningDay
    <3>. QED
      BY <1>1, <3>2, <3>3 DEF Fits, Covered
  <2>. QED
    BY <1>3, <1>4, <2>2, <2>3 DEF Served
<1>6. CASE RefundSeats(u, n)
  <2>1. PICK c \in DOMAIN queue :
          /\ IsLowerBound(c, Sentinel(t, d))
          /\ scan' = [on |-> TRUE, train |-> t, day |-> d,
                      todo |-> FetchQueue(t, d, c).todo,
                      left |-> FetchQueue(t, d, c).left,
                      seat |-> Give(SeatsFor(o).seat, o)]
    BY <1>6 DEF RefundSeats
  <2>2. /\ scan'.on /\ scan'.train = t /\ scan'.day = d
        /\ scan'.todo = {[idx |-> queue[k], id |-> k[3]] :
                           k \in {x \in DOMAIN queue : x[1] = t /\ x[2] = d /\ Before(c, x)}}
        /\ scan'.left = queue[c]
    BY <2>1 DEF FetchQueue
  <2>3. ScanCovers'
    <3>. SUFFICES ASSUME Intact(t, d) PROVE ScanCovers'
      BY <1>1, <2>2 DEF ScanCovers, Intact
    <3>1. c = Sentinel(t, d) /\ queue[c] \in Nat
      BY <1>2, <2>1, LowerBoundIsCounter, KeyType
    <3>2. \A k \in DOMAIN queue : k[1] = t /\ k[2] = d => (Before(c, k) <=> k[3] # 0)
      <4>. SUFFICES ASSUME NEW k \in DOMAIN queue, k[1] = t, k[2] = d
                    PROVE  Before(c, k) <=> k[3] # 0
        OBVIOUS
      <4>. QED
        BY <1>2, <3>1, KeyType DEF Before, Sentinel
    <3>3. ASSUME NEW p \in scan'.todo
          PROVE  /\ p \in [idx : Nat, id : Nat]
                 /\ <<t, d, p.id>> \in DOMAIN queue
                 /\ queue[<<t, d, p.id>>] = p.idx
                 /\ p.id \in 1 .. queue[c]
      <4>1. PICK k \in DOMAIN queue : /\ k[1] = t /\ k[2] = d /\ Before(c, k)
                                      /\ p = [idx |-> queue[k], id |-> k[3]]
        BY <2>2
      <4>2. k = <<t, d, k[3]>> /\ k[3] \in Nat /\ queue[k] \in Nat /\ k[3] # 0
        BY <3>2, <4>1, KeyType
      <4>3. k[3] <= queue[c]
        BY <3>1, <4>1, <4>2 DEF Served, CounterCovers
      <4>. QED
        BY <3>1, <4>1, <4>2, <4>3
    <3>4. IsFiniteSet(scan'.todo) /\ Cardinality(scan'.todo) <= scan'.left
      <4>1. scan'.todo \in SUBSET [idx : Nat, id : Nat]
        BY <3>3
      <4>2. ASSUME NEW p \in scan'.todo, NEW q \in scan'.todo, p.id = q.id
            PROVE  p = q
        <5>1. p \in [idx : Nat, id : Nat] /\ q \in [idx : Nat, id : Nat] /\ p.idx = q.idx
          BY <3>3, <4>2
        <5>. QED
          BY <4>2, <5>1
      <4>. QED
        BY <2>2, <3>1, <3>3, <4>1, <4>2, EntriesFit
    <3>5. ASSUME NEW i \in OrderIdx, data[i].status = Pending, data[i].train = t, data[i].day = d
          PROVE  \E p \in scan'.todo : p.idx = i
      <4>1. PICK k \in EntriesOf(t, d) : queue[k] = i
        BY <3>5 DEF Served, WaitingHaveEntries
      <4>2. k \in DOMAIN queue /\ k[1] = t /\ k[2] = d /\ Before(c, k)
        BY <3>2, <4>1 DEF EntriesOf
      <4>3. [idx |-> queue[k], id |-> k[3]] \in scan'.todo
        BY <2>2, <4>2
      <4>. QED
        BY <4>1, <4>3
    <3>. QED
      BY <1>1, <2>2, <3>3, <3>4, <3>5 DEF ScanCovers
  <2>4. NoneServable'
    <3>. SUFFICES ASSUME NEW i \in OrderIdx, data[i].status = Pending,
                         Intact(data[i].train, data[i].day),
                         <<data[i].train, data[i].day>> # <<t, d>>
                  PROVE  ~Fits(seats'[<<data[i].train, data[i].day>>].seat, data'[i])
      BY <1>1, <2>2 DEF NoneServable, Intact, SeatsFor, ScanningDay
    <3>1. <<data[i].train, data[i].day>> \in DOMAIN seats
      BY SeatsForOrder DEF OrdersKeepTheirTrain, OrdersHaveTrains
    <3>2. SeatsFor(data[i]).seat = seats'[<<data[i].train, data[i].day>>].seat
      BY <1>1, <3>1 DEF SeatsFor
    <3>3. ~Fits(SeatsFor(data[i]).seat, data[i])
      BY <1>1 DEF Served, NoneServable, ScanningDay
    <3>. QED
      BY <1>1, <3>2, <3>3 DEF Fits, Covered
  <2>. QED
    BY <1>3, <1>4, <2>3, <2>4 DEF Served
<1>. QED
  BY <1>5, <1>6

\* One turn of the loop takes entry p out of the queue (or the counter, when p
\* is an unused element of the vector): what is left of the queue.
LEMMA DequeueLeaves ==
  ASSUME TypeInv, Served, NEW p, Visiting(p), Dequeue(p)
  PROVE  /\ DOMAIN queue' \subseteq DOMAIN queue
         /\ \A k \in DOMAIN queue' : queue'[k] = queue[k]
         /\ \A k \in DOMAIN queue : k # <<scan.train, scan.day, p.id>> => k \in DOMAIN queue'
         /\ \A x, d : Sentinel(x, d) \in DOMAIN queue' => Intact(x, d)
         /\ Sentinel(scan.train, scan.day) \in DOMAIN queue' => p \in scan.todo
         /\ CounterCovers'
<1>1. /\ DOMAIN queue' = DOMAIN queue \ {<<scan.train, scan.day, p.id>>}
      /\ \A k \in DOMAIN queue' : queue'[k] = queue[k]
  BY DEF Dequeue, RemoveKeys
<1>2. \A x, d : Sentinel(x, d) \in DOMAIN queue' => Intact(x, d)
  BY <1>1 DEF Intact
<1>3. p \in scan.todo \/ p.id = 0
  BY DEF Visiting, NextEntries
<1>4. Sentinel(scan.train, scan.day) \in DOMAIN queue' => p \in scan.todo
  BY <1>1, <1>3 DEF Sentinel
<1>5. CounterCovers'
  BY <1>1, <1>2 DEF Served, CounterCovers, Intact
<1>. QED
  BY <1>1, <1>2, <1>4, <1>5

\* One turn of the loop: if the entry it looks at does not fit the seats it
\* leaves, or waits no longer, then the entries before it are still enough.
LEMMA ScanTurn ==
  ASSUME TypeInv, Served, NEW p, Visiting(p), NEW seat, Advance(p, seat),
         DOMAIN queue' \subseteq DOMAIN queue,
         \A k \in DOMAIN queue' : queue'[k] = queue[k],
         \A k \in DOMAIN queue :
           p \in scan.todo /\ k # <<scan.train, scan.day, p.id>> => k \in DOMAIN queue',
         OrderIdx' = OrderIdx,
         \A i \in OrderIdx : /\ data'[i].train = data[i].train
                             /\ data'[i].day = data[i].day
                             /\ data'[i].status = Pending => data[i].status = Pending
                             /\ data'[i].status = Pending /\ Fits(seat, data'[i]) =>
                                  Fits(scan.seat, data[i]) /\ i # p.idx
  PROVE  ScanCovers'
<1>1. /\ scan'.train = scan.train /\ scan'.day = scan.day /\ scan'.seat = seat
      /\ scan'.todo = scan.todo \ {p} /\ scan'.left = scan.left - 1
      /\ scan.on /\ scan.left \in Nat /\ scan.left > 0
      /\ scan.todo \subseteq [idx : Nat, id : Nat]
      /\ p \in scan.todo \/ (scan.todo = {} /\ p = [idx |-> 0, id |-> 0])
  BY EntryType DEF Advance, Visiting, NextEntries, ScanType
<1>. SUFFICES ASSUME Sentinel(scan.train, scan.day) \in DOMAIN queue'
              PROVE  ScanCovers'
  BY <1>1 DEF ScanCovers, Intact
<1>2. /\ \A q \in scan.todo : /\ <<scan.train, scan.day, q.id>> \in DOMAIN queue
                              /\ queue[<<scan.train, scan.day, q.id>>] = q.idx
      /\ IsFiniteSet(scan.todo) /\ Cardinality(scan.todo) <= scan.left
      /\ \A i \in OrderIdx :
           /\ data[i].status = Pending
           /\ data[i].train = scan.train /\ data[i].day = scan.day
           /\ Fits(scan.seat, data[i])
           => \E q \in scan.todo : q.idx = i
  <2>1. Intact(scan.train, scan.day)
    BY DEF Intact
  <2>. QED
    BY <1>1, <2>1 DEF Served, ScanCovers
<1>3. ASSUME NEW q \in scan'.todo
      PROVE  /\ <<scan.train, scan.day, q.id>> \in DOMAIN queue'
             /\ queue'[<<scan.train, scan.day, q.id>>] = q.idx
  <2>1. q \in scan.todo /\ q # p /\ p \in scan.todo
    BY <1>1
  <2>2. q.id # p.id
    <3>. SUFFICES ASSUME q.id = p.id PROVE FALSE
      OBVIOUS
    <3>1. /\ queue[<<scan.train, scan.day, q.id>>] = q.idx
          /\ queue[<<scan.train, scan.day, p.id>>] = p.idx
      BY <1>2, <2>1
    <3>2. q.idx = p.idx
      BY <3>1
    <3>3. q \in [idx : Nat, id : Nat] /\ p \in [idx : Nat, id : Nat]
      BY <1>1, <2>1
    <3>. QED
      BY <2>1, <3>2, <3>3
  <2>3. <<scan.train, scan.day, q.id>> # <<scan.train, scan.day, p.id>>
    BY <2>2
  <2>. QED
    BY <1>2, <2>1, <2>3
<1>4. IsFiniteSet(scan'.todo) /\ Cardinality(scan'.todo) <= scan'.left
  <2>1. Cardinality(scan.todo) \in Nat
    BY <1>2, FS_CardinalityType
  <2>2. CASE p \in scan.todo
    <3>1. /\ IsFiniteSet(scan.todo \ {p})
          /\ Cardinality(scan.todo \ {p}) = Cardinality(scan.todo) - 1
      BY <1>2, <2>2, FS_RemoveElement
    <3>. QED
      BY <1>1, <1>2, <2>1, <3>1
  <2>3. CASE scan.todo = {}
    BY <1>1, <2>3, FS_EmptySet
  <2>. QED
    BY <1>1, <2>2, <2>3
<1>5. ASSUME NEW i \in OrderIdx, data'[i].status = Pending,
             data'[i].train = scan.train, data'[i].day = scan.day, Fits(seat, data'[i])
      PROVE  \E q \in scan'.todo : q.idx = i
  <2>1. PICK q \in scan.todo : q.idx = i
    BY <1>2, <1>5
  <2>2. q # p
    BY <1>5, <2>1
  <2>. QED
    BY <1>1, <2>1, <2>2
<1>. QED
  BY <1>1, <1>3, <1>4, <1>5 DEF ScanCovers

\* A turn of the loop that takes an entry out of the queue, whose order waits
\* no longer.
LEMMA ServedEntryTaken ==
  ASSUME TypeInv, Served, NEW p, Visiting(p), Dequeue(p), NEW seat, Advance(p, seat),
         UNCHANGED seats, OrderIdx' = OrderIdx,
         \A i \in OrderIdx :
           /\ data'[i].train = data[i].train /\ data'[i].day = data[i].day
           /\ data'[i].from = data[i].from /\ data'[i].to = data[i].to
           /\ data'[i].num = data[i].num
           /\ data'[i].status = Pending => data[i].status = Pending /\ i # p.idx
           /\ data'[i].status = Pending /\ Fits(seat, data'[i]) => Fits(scan.seat, data[i])
  PROVE  Served'
<1>1. /\ DOMAIN queue' \subseteq DOMAIN queue
      /\ \A k \in DOMAIN queue' : queue'[k] = queue[k]
      /\ \A k \in DOMAIN queue : k # <<scan.train, scan.day, p.id>> => k \in DOMAIN queue'
      /\ \A x, d : Sentinel(x, d) \in DOMAIN queue' => Intact(x, d)
      /\ Sentinel(scan.train, scan.day) \in DOMAIN queue' => p \in scan.todo
      /\ CounterCovers'
  BY DequeueLeaves
<1>2. ScanCovers'
  BY <1>1, ScanTurn
<1>3. /\ scan.on /\ scan'.on = scan.on
      /\ scan'.train = scan.train /\ scan'.day = scan.day
  BY EntryType DEF Advance, Visiting, ScanType
<1>4. WaitingHaveEntries'
  <2>. SUFFICES ASSUME NEW i \in OrderIdx, data'[i].status = Pending,
                       Sentinel(data[i].train, data[i].day) \in DOMAIN queue'
                PROVE  \E k \in DOMAIN queue' : /\ k[1] = data[i].train /\ k[2] = data[i].day
                                               /\ k[3] # 0 /\ queue'[k] = i
    BY DEF WaitingHaveEntries, Intact, EntriesOf
  <2>1. data[i].status = Pending /\ i # p.idx /\ Intact(data[i].train, data[i].day)
    BY <1>1
  <2>2. PICK k \in EntriesOf(data[i].train, data[i].day) : queue[k] = i
    BY <2>1 DEF Served, WaitingHaveEntries
  <2>3. k # <<scan.train, scan.day, p.id>>
    <3>. SUFFICES ASSUME k = <<scan.train, scan.day, p.id>> PROVE FALSE
      OBVIOUS
    <3>1. data[i].train = scan.train /\ data[i].day = scan.day
      BY <2>2 DEF EntriesOf
    <3>2. p \in scan.todo /\ Intact(scan.train, scan.day)
      BY <1>1, <2>1, <3>1
    <3>3. queue[<<scan.train, scan.day, p.id>>] = p.idx
      BY <1>3, <3>2 DEF Served, ScanCovers
    <3>. QED
      BY <2>1, <2>2, <3>3
  <2>. QED
    BY <1>1, <2>2, <2>3 DEF EntriesOf
<1>5. NoneServable'
  <2>. SUFFICES ASSUME NEW i \in OrderIdx, data'[i].status = Pending,
                       Sentinel(data[i].train, data[i].day) \in DOMAIN queue',
                       ~ScanningDay(data[i].train, data[i].day)
                PROVE  ~Fits(SeatsFor(data[i]).seat, data'[i])
    BY <1>3 DEF NoneServable, Intact, SeatsFor, ScanningDay
  <2>1. ~Fits(SeatsFor(data[i]).seat, data[i])
    BY <1>1 DEF Served, NoneServable
  <2>. QED
    BY <2>1 DEF Fits, Covered
<1>. QED
  BY <1>1, <1>2, <1>4, <1>5 DEF Served

\* The loop over the waiting queue and its end.
LEMMA ServedScanStep ==
  ASSUME TypeInv, Served, ScanStep
  PROVE  Served'
<1>. USE DEF TypeInv, TypeOK
<1>1. ASSUME NEW p \in NextEntries, DropEntry(p)
      PROVE  Served'
  <2>1. /\ Visiting(p) /\ Dequeue(p) /\ Advance(p, scan.seat)
        /\ UNCHANGED <<seats, data, nextIdx>>
        /\ data[p.idx].status # Pending
    BY <1>1 DEF DropEntry
  <2>2. OrderIdx' = OrderIdx
    BY <2>1 DEF OrderIdx
  <2>. QED
    BY <2>1, <2>2, ServedEntryTaken
<1>2. ASSUME NEW p \in NextEntries, ServeEntry(p)
      PROVE  Served'
  <2>1. /\ Visiting(p) /\ Dequeue(p) /\ Advance(p, Take(scan.seat, data[p.idx]))
        /\ SetStatus(p.idx, Success)
        /\ UNCHANGED <<seats, nextIdx>>
    BY <1>2 DEF ServeEntry
  <2>2. /\ scan \in ScanType /\ p.idx \in DOMAIN data /\ data[p.idx].num \in Nat
    BY <2>1, EntryType
  <2>3. /\ OrderIdx' = OrderIdx
        /\ \A j \in OrderIdx :
             /\ data'[j].train = data[j].train /\ data'[j].day = data[j].day
             /\ data'[j].from = data[j].from /\ data'[j].to = data[j].to
             /\ data'[j].num = data[j].num
             /\ data'[j].status = IF j = p.idx THEN Success ELSE data[j].status
    BY <2>1, <2>2, SetStatusType
  <2>4. ASSUME NEW i \in OrderIdx, Fits(Take(scan.seat, data[p.idx]), data'[i])
        PROVE  Fits(scan.seat, data[i])
    <3>1. /\ data[i].num \in Nat
          /\ {data[i].from} \cup Covered(data[i]) \subseteq Segments
          /\ scan.seat \in [Segments -> Nat]
      BY <2>2, CoveredInSegments DEF OrdersType, OrderType, ScanType
    <3>2. Fits(Take(scan.seat, data[p.idx]), data[i])
      BY <2>3, <2>4 DEF Fits, Covered
    <3>. QED
      BY <2>2, <3>1, <3>2, TakeShrinks
  <2>. QED
    BY <2>1, <2>3, <2>4, ServedEntryTaken DEF Pending, Success
<1>3. ASSUME NEW p \in NextEntries, SkipEntry(p)
      PROVE  Served'
  <2>1. /\ Visiting(p) /\ Advance(p, scan.seat)
        /\ UNCHANGED <<seats, data, nextIdx, queue>>
        /\ ~Fits(scan.seat, data[p.idx])
    BY <1>3 DEF SkipEntry
  <2>2. OrderIdx' = OrderIdx
    BY <2>1 DEF OrderIdx
  <2>3. ScanCovers'
    BY <2>1, <2>2, ScanTurn
  <2>4. CounterCovers' /\ WaitingHaveEntries'
    BY <2>1, <2>2 DEF Served, CounterCovers, WaitingHaveEntries, Intact, EntriesOf
  <2>5. scan'.on = scan.on /\ scan'.train = scan.train /\ scan'.day = scan.day
    BY <2>1, EntryType DEF Advance, ScanType
  <2>6. NoneServable'
    BY <2>1, <2>2, <2>5 DEF Served, NoneServable, Intact, SeatsFor, ScanningDay
  <2>. QED
    BY <2>3, <2>4, <2>6 DEF Served
<1>4. ASSUME EndScan
      PROVE  Served'
  <2>1. /\ scan.on /\ scan.left = 0 /\ ~scan'.on
        /\ seats' = [seats EXCEPT ![<<scan.train, scan.day>>].seat = scan.seat]
        /\ UNCHANGED <<data, nextIdx, queue>>
    BY <1>4 DEF EndScan, Idle
  <2>2. OrderIdx' = OrderIdx
    BY <2>1 DEF OrderIdx
  <2>3. CounterCovers' /\ WaitingHaveEntries' /\ ScanCovers'
    BY <2>1, <2>2 DEF Served, CounterCovers, WaitingHaveEntries, ScanCovers, Intact, EntriesOf
  <2>4. NoneServable'
    <3>. SUFFICES ASSUME NEW i \in OrderIdx, data[i].status = Pending,
                         Intact(data[i].train, data[i].day)
                  PROVE  ~Fits(seats'[<<data[i].train, data[i].day>>].seat, data[i])
      BY <2>1, <2>2 DEF NoneServable, Intact, SeatsFor
    <3>1. <<data[i].train, data[i].day>> \in DOMAIN seats
      BY SeatsForOrder DEF OrdersKeepTheirTrain, OrdersHaveTrains
    <3>2. CASE ScanningDay(data[i].train, data[i].day)
      <4>1. /\ IsFiniteSet(scan.todo) /\ Cardinality(scan.todo) <= 0
            /\ Fits(scan.seat, data[i]) => scan.todo # {}
        BY <2>1, <3>2 DEF Served, ScanCovers, ScanningDay
      <4>2. scan.todo = {}
        BY <4>1, FS_EmptySet, FS_CardinalityType
      <4>3. seats'[<<scan.train, scan.day>>].seat = scan.seat
        BY <2>1, <3>1, <3>2 DEF ScanningDay, SeatsType
      <4>. QED
        BY <3>2, <4>1, <4>2, <4>3 DEF ScanningDay
    <3>3. CASE ~ScanningDay(data[i].train, data[i].day)
      <4>1. seats'[<<data[i].train, data[i].day>>] = seats[<<data[i].train, data[i].day>>]
        BY <2>1, <3>1, <3>3 DEF ScanningDay
      <4>. QED
        BY <3>3, <4>1 DEF Served, NoneServable, SeatsFor
    <3>. QED
      BY <3>2, <3>3
  <2>. QED
    BY <2>3, <2>4 DEF Served
<1>. QED
  BY <1>1, <1>2, <1>3, <1>4 DEF ScanStep

\* Every step keeps the invariant.
LEMMA ServeInvNext == ServeInv /\ [Next]_vars => ServeInv'
<1>. SUFFICES ASSUME TypeInv, Served, [Next]_vars PROVE ServeInv'
  BY DEF ServeInv, Served
<1>. USE DEF ServeInv
<1>1. TypeInv'
  BY TypeInvNext
<1>2. Served'
  <2>1. CASE \/ \E u \in Users : Login(u) \/ Logout(u)
             \/ Restart
             \/ \E t \in Trains, m \in SeatNums, n \in DayCounts : AddTrain(t, m, n)
             \/ \E t \in Trains : DeleteTrain(t)
    BY <2>1, ServedOther
  <2>2. CASE \E t \in Trains : ReleaseTrain(t)
    BY <2>2, ServedReleaseTrain
  <2>3. CASE \E u \in Users, o \in Requests(Success) : BuySeats(u, o)
    BY <2>3, ServedBuySeats
  <2>4. CASE \E u \in Users, o \in Requests(Pending) : JoinQueue(u, o) \/ JoinQueueCrash(u, o)
    BY <2>4, ServedJoinQueue, ServedJoinQueueCrash
  <2>5. CASE \E u \in Users, n \in 1 .. MaxOrders :
               CancelWaiting(u, n) \/ RefundSeats(u, n) \/ RefundCrash(u, n)
    BY <2>5, ServedCancelWaiting, ServedRefund
  <2>6. CASE ScanStep
    BY <2>6, ServedScanStep
  <2>7. CASE UNCHANGED vars
    BY <2>7, ServedFrame DEF vars, SeatsFor
  <2>. QED
    BY <2>1, <2>2, <2>3, <2>4, <2>5, <2>6, <2>7 DEF Next
<1>. QED
  BY <1>1, <1>2 DEF Served

\* The inductive invariant behind the serving of waiting orders.
THEOREM ServeInvariance == Spec => []ServeInv
<1>1. Init => ServeInv
  BY TypeInvInit, ServedInit DEF ServeInv, Served
<1>. QED
  BY <1>1, ServeInvNext, PTL DEF Spec

\* Between commands no waiting order fits into the free seats of its train and
\* day, as long as the counter of its queue has not been removed.
THEOREM WaitingOrdersAreServed == Spec => []NoServableOrderWaits
<1>1. ServeInv => NoServableOrderWaits
  BY DEF ServeInv, NoneServable, NoServableOrderWaits, Ready, ScanningDay
<1>. QED
  BY <1>1, ServeInvariance, PTL

-----------------------------------------------------------------------------
(* How orders change *)

\* What an order says, and that its status only moves on.
MoveOn(i) ==
  /\ [data'[i] EXCEPT !.status = data[i].status] = data[i]
  /\ data[i].status = Refunded => data'[i].status = Refunded
  /\ data[i].status = Success => data'[i].status # Pending

\* Every step keeps what an order says but for its status, which only moves on.
LEMMA OrderMovesOn ==
  ASSUME TypeInv, [Next]_vars, NEW i \in OrderIdx
  PROVE  MoveOn(i)
<1>. USE DEF TypeInv, TypeOK, MoveOn
<1>1. data[i] \in OrderType /\ i # 0 /\ i # nextIdx /\ i \in DOMAIN data
  BY DEF OrdersType, OrderIdx
<1>2. ASSUME data'[i] = data[i]
      PROVE  MoveOn(i)
  BY <1>1, <1>2 DEF OrderType, Refunded, Success, Pending
<1>3. ASSUME NEW x \in DOMAIN data, NEW s \in {Success, Refunded}, SetStatus(x, s),
             data[x].status = Pending \/ (data[x].status = Success /\ s = Refunded)
      PROVE  MoveOn(i)
  <2>1. CASE x # i
    BY <1>1, <1>2, <1>3, <2>1 DEF SetStatus
  <2>2. CASE x = i
    <3>1. data'[i] = [data[i] EXCEPT !.status = s]
      BY <1>1, <1>3, <2>2 DEF SetStatus
    <3>2. [data'[i] EXCEPT !.status = data[i].status] = data[i]
      BY <1>1, <3>1 DEF OrderType
    <3>3. data'[i].status = s
      BY <1>1, <3>1 DEF OrderType
    <3>. QED
      BY <1>3, <2>2, <3>2, <3>3 DEF Refunded, Success, Pending
  <2>. QED
    BY <2>1, <2>2
<1>4. CASE \E o : WriteOrder(o)
  BY <1>1, <1>2, <1>4 DEF WriteOrder, Put
<1>5. CASE \E u \in Users, n \in 1 .. MaxOrders :
             CancelWaiting(u, n) \/ RefundSeats(u, n) \/ RefundCrash(u, n)
  <2>1. PICK u \in Users, n \in 1 .. MaxOrders :
               CancelWaiting(u, n) \/ RefundSeats(u, n) \/ RefundCrash(u, n)
    BY <1>5
  <2>2. /\ n \in 1 .. Len(history[u])
        /\ SetStatus(NthNewest(u, n), Refunded)
        /\ data[NthNewest(u, n)].status \in {Pending, Success}
    BY <2>1 DEF CancelWaiting, RefundSeats, RefundCrash, CanRefund
  <2>3. NthNewest(u, n) \in DOMAIN data
    BY <2>2, NthNewestType
  <2>. QED
    BY <1>3, <2>2, <2>3
<1>6. CASE \E p \in NextEntries : ServeEntry(p)
  <2>1. PICK p : Visiting(p) /\ data[p.idx].status = Pending /\ SetStatus(p.idx, Success)
    BY <1>6 DEF ServeEntry
  <2>2. p.idx \in DOMAIN data
    BY <2>1, EntryType
  <2>. QED
    BY <1>3, <2>1, <2>2
<1>7. CASE Restart
  BY <1>1, <1>2, <1>7 DEF Restart
<1>8. CASE UNCHANGED data
  BY <1>2, <1>8
<1>. QED
  BY <1>4, <1>5, <1>6, <1>7, <1>8
  DEF Next, vars, Login, Logout, AddTrain, DeleteTrain, ReleaseTrain, BuySeats, JoinQueue,
      JoinQueueCrash, ScanStep, DropEntry, SkipEntry, EndScan

\* No order is lost, and every order stays one for the same journey.
LEMMA OrdersKept ==
  ASSUME TypeInv, [Next]_vars
  PROVE  /\ nextIdx \in Nat /\ nextIdx' \in {nextIdx, nextIdx + 1}
         /\ OrderIdx \subseteq OrderIdx'
         /\ \A i \in OrderIdx :
              /\ data'[i].train = data[i].train /\ data'[i].day = data[i].day
              /\ data'[i].from = data[i].from /\ data'[i].to = data[i].to
              /\ data'[i].num = data[i].num
<1>1. nextIdx \in Nat
  BY DEF TypeInv, TypeOK, OrdersType
<1>2. nextIdx' \in {nextIdx, nextIdx + 1}
  BY DEF Next, vars, Login, Logout, Restart, AddTrain, DeleteTrain, ReleaseTrain, BuySeats,
         JoinQueue, JoinQueueCrash, WriteOrder, CancelWaiting, RefundSeats, RefundCrash,
         ScanStep, DropEntry, ServeEntry, SkipEntry, EndScan
<1>3. OrderIdx \subseteq OrderIdx'
  <2>1. nextIdx' \in Nat /\ nextIdx' >= nextIdx
    BY <1>1, <1>2
  <2>2. OrderIdx = FirstIdx .. nextIdx - 1 /\ OrderIdx' = FirstIdx .. nextIdx' - 1
    BY DEF OrderIdx
  <2>3. \A m, k \in Nat : m <= k => FirstIdx .. m - 1 \subseteq FirstIdx .. k - 1
    OBVIOUS
  <2>. QED
    BY ONLY <1>1, <2>1, <2>2, <2>3
<1>4. ASSUME NEW i \in OrderIdx
      PROVE  /\ data'[i].train = data[i].train /\ data'[i].day = data[i].day
             /\ data'[i].from = data[i].from /\ data'[i].to = data[i].to
             /\ data'[i].num = data[i].num
  <2>1. TypeInv'
    BY TypeInvNext
  <2>2. data'[i] \in OrderType
    BY <1>3, <2>1 DEF TypeInv, TypeOK, OrdersType
  <2>3. data[i] = [data'[i] EXCEPT !.status = data[i].status]
    BY OrderMovesOn DEF MoveOn
  <2>4. ASSUME NEW x \in OrderType, NEW s, NEW y, y = [x EXCEPT !.status = s]
        PROVE  /\ x.train = y.train /\ x.day = y.day /\ x.from = y.from
               /\ x.to = y.to /\ x.num = y.num
    BY ONLY <2>4 DEF OrderType
  <2>. QED
    BY <2>2, <2>3, <2>4
<1>. QED
  BY <1>1, <1>2, <1>3, <1>4

\* What an order says never changes but for its status, and the status only
\* moves on from waiting to successful to refunded.
THEOREM OrdersMoveOn == Spec => OrdersOnlyMoveOn
<1>1. TypeInv /\ [Next]_vars => \A i \in OrderIdx : MoveOn(i)
  BY OrderMovesOn
<1>. QED
  BY <1>1, TypeInvariance, PTL DEF Spec, OrdersOnlyMoveOn, MoveOn

-----------------------------------------------------------------------------
(* Every order has one place in one history *)

\* An order written and entered at the end of a history has its place there,
\* and every other order keeps the place it has.
LEMMA FiledNew ==
  ASSUME history \in [Users -> Seq(OrderIdx)], nextIdx \notin OrderIdx, up,
         EveryOrderFiledOnce, NEW u \in Users, EnterHistory(u),
         OrderIdx' = OrderIdx \cup {nextIdx}
  PROVE  EveryOrderFiledOnce'
<1>. DEFINE end == Len(history[u]) + 1
<1>1. /\ \A v \in Users : history[v] \in Seq(OrderIdx) /\ Len(history[v]) \in Nat
      /\ history' = [history EXCEPT ![u] = Append(history[u], nextIdx)]
  BY DEF EnterHistory
<1>2. /\ history'[u] = Append(history[u], nextIdx)
      /\ Len(history'[u]) = end /\ history'[u][end] = nextIdx
      /\ \A n \in 1 .. Len(history[u]) : history'[u][n] = history[u][n]
  BY <1>1
<1>3. \A v \in Users : v # u => history'[v] = history[v]
  BY <1>1
<1>4. \A v \in Users : \A n \in 1 .. Len(history[v]) :
        /\ n \in 1 .. Len(history'[v])
        /\ history'[v][n] = history[v][n]
        /\ history'[v][n] \in OrderIdx
  BY <1>1, <1>2, <1>3
<1>5. \A v \in Users : \A n \in 1 .. Len(history'[v]) :
        n \in 1 .. Len(history[v]) \/ (v = u /\ n = end)
  BY <1>1, <1>2, <1>3
<1>6. end \in 1 .. Len(history'[u])
  BY <1>1, <1>2
<1>7. ASSUME NEW i \in OrderIdx'
      PROVE  \E w \in Users : \E n \in 1 .. Len(history'[w]) :
               /\ history'[w][n] = i
               /\ \A v \in Users : \A m \in 1 .. Len(history'[v]) :
                    history'[v][m] = i => v = w /\ m = n
  <2>1. CASE i = nextIdx
    <3>1. \A v \in Users : \A m \in 1 .. Len(history'[v]) :
            history'[v][m] = i => v = u /\ m = end
      BY <1>4, <1>5, <2>1
    <3>. QED
      BY <1>2, <1>6, <2>1, <3>1
  <2>2. CASE i \in OrderIdx
    <3>0. PICK w \in Users : \E n \in 1 .. Len(history[w]) :
            /\ history[w][n] = i
            /\ \A v \in Users : \A m \in 1 .. Len(history[v]) :
                 history[v][m] = i => v = w /\ m = n
      BY <2>2 DEF EveryOrderFiledOnce
    <3>1. PICK n \in 1 .. Len(history[w]) :
            /\ history[w][n] = i
            /\ \A v \in Users : \A m \in 1 .. Len(history[v]) :
                 history[v][m] = i => v = w /\ m = n
      BY <3>0
    <3>2. \A v \in Users : \A m \in 1 .. Len(history'[v]) :
            history'[v][m] = i => v = w /\ m = n
      BY <1>2, <1>4, <1>5, <2>2, <3>1
    <3>. QED
      BY <1>4, <3>1, <3>2
  <2>. QED
    BY <1>7, <2>1, <2>2
<1>. QED
  BY <1>7 DEF EveryOrderFiledOnce

\* A step that adds no order leaves every order where it is filed.
LEMMA FiledFrame ==
  ASSUME EveryOrderFiledOnce, up' => up, UNCHANGED <<nextIdx, history>>
  PROVE  EveryOrderFiledOnce'
BY DEF EveryOrderFiledOnce, OrderIdx

\* Every step keeps the orders filed.
LEMMA FiledNext == TypeInv /\ EveryOrderFiledOnce /\ [Next]_vars => EveryOrderFiledOnce'
<1>. SUFFICES ASSUME TypeInv, EveryOrderFiledOnce, [Next]_vars PROVE EveryOrderFiledOnce'
  OBVIOUS
<1>1. history \in [Users -> Seq(OrderIdx)] /\ OrdersType
  BY DEF TypeInv, TypeOK, SessionsType
<1>2. ASSUME NEW u \in Users, NEW s \in {Pending, Success}, NEW o \in Requests(s),
             CanOrder(u, o), WriteOrder(o), EnterHistory(u)
      PROVE  EveryOrderFiledOnce'
  <2>1. up /\ o.from < o.to /\ o \in OrderType
    BY <1>2, RequestType DEF CanOrder, Ready, OnSale
  <2>2. OrderIdx' = OrderIdx \cup {nextIdx} /\ nextIdx \notin OrderIdx
    BY <1>1, <1>2, <2>1, WriteOrderType
  <2>. QED
    BY <1>1, <1>2, <2>1, <2>2, FiledNew
<1>3. CASE \E u \in Users, o \in Requests(Success) : BuySeats(u, o)
  BY <1>2, <1>3 DEF BuySeats
<1>4. CASE \E u \in Users, o \in Requests(Pending) : JoinQueue(u, o)
  BY <1>2, <1>4 DEF JoinQueue
<1>5. CASE \E u \in Users, o \in Requests(Pending) : JoinQueueCrash(u, o)
  BY <1>5 DEF JoinQueueCrash, EveryOrderFiledOnce
<1>6. CASE \E u \in Users : Login(u) \/ Logout(u)
  BY <1>6, FiledFrame DEF Login, Logout
<1>7. CASE Restart
  BY <1>7, FiledFrame DEF Restart
<1>8. CASE \E t \in Trains, m \in SeatNums, n \in DayCounts : AddTrain(t, m, n)
  BY <1>8, FiledFrame DEF AddTrain
<1>9. CASE \E t \in Trains : DeleteTrain(t) \/ ReleaseTrain(t)
  BY <1>9, FiledFrame DEF DeleteTrain, ReleaseTrain
<1>10. CASE \E u \in Users, n \in 1 .. MaxOrders :
              CancelWaiting(u, n) \/ RefundSeats(u, n) \/ RefundCrash(u, n)
  BY <1>10, FiledFrame DEF CancelWaiting, RefundSeats, RefundCrash
<1>11. CASE ScanStep
  BY <1>11, FiledFrame DEF ScanStep, DropEntry, ServeEntry, SkipEntry, EndScan
<1>12. CASE UNCHANGED vars
  BY <1>12, FiledFrame DEF vars
<1>. QED
  BY <1>3, <1>4, <1>5, <1>6, <1>7, <1>8, <1>9, <1>10, <1>11, <1>12 DEF Next

\* Every order is in one place of one user's history, as long as the process
\* has not died between writing an order and filing it.
THEOREM OrdersFiledOnce == Spec => []EveryOrderFiledOnce
<1>1. Init => EveryOrderFiledOnce
  BY DEF Init, EveryOrderFiledOnce, OrderIdx
<1>. QED
  BY <1>1, TypeInvariance, FiledNext, PTL DEF Spec
=============================================================================
