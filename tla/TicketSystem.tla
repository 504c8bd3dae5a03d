---------------------------- MODULE TicketSystem ----------------------------
(***************************************************************************)
(* The ticket core of the engine as one session drives it: trains, the     *)
(* seats of every train and day, orders, the waiting queue of every train  *)
(* and day, and every user's order history (train_system.cpp,              *)
(* transaction_system.cpp, transaction_mainenance.hpp).                    *)
(*                                                                         *)
(* A command that the code answers with -1 changes nothing and is a        *)
(* stuttering step here.  A command is one step, except refund_ticket: its *)
(* loop over the waiting queue is one step per loop iteration, and no      *)
(* other command runs until the loop is over.                              *)
(***************************************************************************)
EXTENDS Integers, Sequences, FiniteSets

CONSTANTS
  Users,       \* registered accounts
  Trains,      \* train identifiers; as hashes they are ordered
  NumStops,    \* stops of every train
  DayCounts,   \* lengths of a sale period that add_train is called with
  SeatNums,    \* -m of add_train
  TicketNums,  \* -n of buy_ticket
  FirstIdx,    \* storage index of the first order ever written
  MaxOrders    \* bound of the model: orders ever written

ASSUME TrainsAssumption == Trains \subseteq Nat \ {0}
ASSUME StopsAssumption == NumStops \in Nat /\ NumStops >= 2
ASSUME DaysAssumption == DayCounts \subseteq Nat \ {0}
ASSUME SeatsAssumption == SeatNums \subseteq Nat /\ TicketNums \subseteq Nat \ {0}
ASSUME StorageAssumption == FirstIdx \in Nat \ {0} /\ MaxOrders \in Nat

VARIABLES
  up,       \* the process is alive
  online,   \* online_users
  train,    \* core_train_data_storage: train -> record
  seats,    \* seats_data_storage: <<train, day>> -> [seat, max]
  data,     \* data_storage: index -> order; index 0 lies in the header page
  nextIdx,  \* the index the next data_storage->write returns
  queue,    \* queue_indexer: <<train, day, id>> -> value
  history,  \* order_history_indexer: user -> indices, oldest first
  scan      \* refund_ticket's loop over the waiting queue

vars == <<up, online, train, seats, data, nextIdx, queue, history, scan>>

-----------------------------------------------------------------------------
(* Data *)

Stops == 0 .. NumStops - 1
Segments == 0 .. NumStops - 2

Pending == 0
Success == 1
Refunded == 2

NewOrder(t, d, f, g, n, s) ==
  [train |-> t, day |-> d, from |-> f, to |-> g, num |-> n, status |-> s]

\* The bytes of the header page that element 0 would occupy are all zero.
BlankOrder == NewOrder(0, 0, 0, 0, 0, Pending)

\* Put and Remove of the indexers and of the maps on disk.
Put(f, k, v) == [x \in DOMAIN f \cup {k} |-> IF x = k THEN v ELSE f[x]]
RemoveKeys(f, ks) == [x \in DOMAIN f \ ks |-> f[x]]

\* The segments a journey occupies.
Covered(o) == o.from .. o.to - 1

\* A bug: only the first segment of the journey is looked at.
FitsFirstSegment(seat, o) == seat[o.from] >= o.num

\* available_seats >= num: the minimum starts from the boarding stop's entry.
Fits(seat, o) == \A j \in {o.from} \cup Covered(o) : seat[j] >= o.num

Take(seat, o) ==
  [j \in DOMAIN seat |-> IF j \in Covered(o) THEN seat[j] - o.num ELSE seat[j]]

\* A bug: the last segment of the journey is not given back.
GiveShort(seat, o) ==
  [j \in DOMAIN seat |-> IF j \in o.from .. o.to - 2 THEN seat[j] + o.num ELSE seat[j]]

Give(seat, o) ==
  [j \in DOMAIN seat |-> IF j \in Covered(o) THEN seat[j] + o.num ELSE seat[j]]

\* queue_index_t::operator<
Before(a, b) ==
  \/ a[1] < b[1]
  \/ a[1] = b[1] /\ a[2] < b[2]
  \/ a[1] = b[1] /\ a[2] = b[2] /\ a[3] < b[3]

\* The entry that counts the orders ever queued for a train and a day.
Sentinel(t, d) == <<t, d, 0>>

\* lower_bound stops at c; when no such c exists it returns end().
IsLowerBound(c, k) ==
  /\ c \in DOMAIN queue
  /\ ~Before(c, k)
  /\ \A x \in DOMAIN queue : ~Before(x, k) => ~Before(x, c)

\* GetValue on end() reads through a null page.
PastTheEnd(k) == \A x \in DOMAIN queue : Before(x, k)

Idle == [on |-> FALSE]
Ready == up /\ ~scan.on

Init ==
  /\ up = TRUE
  /\ online = {}
  /\ train = [t \in {} |-> 0]
  /\ seats = [k \in {} |-> 0]
  /\ data = [i \in {0} |-> BlankOrder]
  /\ nextIdx = FirstIdx
  /\ queue = [k \in {} |-> 0]
  /\ history = [u \in Users |-> <<>>]
  /\ scan = Idle

-----------------------------------------------------------------------------
(* Sessions.  Every user in Users has been added; the password is right.   *)

Login(u) ==
  /\ Ready
  /\ u \notin online
  /\ online' = online \cup {u}
  /\ UNCHANGED <<up, train, seats, data, nextIdx, queue, history, scan>>

Logout(u) ==
  /\ Ready
  /\ u \in online
  /\ online' = online \ {u}
  /\ UNCHANGED <<up, train, seats, data, nextIdx, queue, history, scan>>

\* exit, then a new process on the same files: the storages are flushed, the
\* sessions are lost, and the header page is written over whatever element 0
\* had become.
Restart ==
  /\ Ready
  /\ online' = {}
  /\ data' = [data EXCEPT ![0] = BlankOrder]
  /\ UNCHANGED <<up, train, seats, nextIdx, queue, history, scan>>

-----------------------------------------------------------------------------
(* Trains *)

DaysOf(t) == 0 .. train[t].days - 1

AddTrain(t, m, n) ==
  /\ Ready
  /\ t \notin DOMAIN train
  /\ train' = Put(train, t, [seatNum |-> m, days |-> n, released |-> FALSE])
  /\ seats' = [k \in DOMAIN seats \cup ({t} \X (0 .. n - 1)) |->
                 IF k \in {t} \X (0 .. n - 1)
                 THEN [seat |-> [j \in Segments |-> m], max |-> m]
                 ELSE seats[k]]
  /\ UNCHANGED <<up, online, data, nextIdx, queue, history, scan>>

\* A bug: the guard on is_released is forgotten.
DeleteAnyTrain(t) ==
  /\ Ready
  /\ t \in DOMAIN train
  /\ train' = RemoveKeys(train, {t})
  /\ seats' = RemoveKeys(seats, {t} \X DaysOf(t))
  /\ UNCHANGED <<up, online, data, nextIdx, queue, history, scan>>

DeleteTrain(t) ==
  /\ Ready
  /\ t \in DOMAIN train
  /\ ~train[t].released
  /\ train' = RemoveKeys(train, {t})
  /\ seats' = RemoveKeys(seats, {t} \X DaysOf(t))
  /\ UNCHANGED <<up, online, data, nextIdx, queue, history, scan>>

\* AddStopInfo for every stop, then PrepareTrainInfo: a sentinel 0 per day.
ReleaseTrain(t) ==
  /\ Ready
  /\ t \in DOMAIN train
  /\ ~train[t].released
  /\ train' = [train EXCEPT ![t].released = TRUE]
  /\ LET sentinels == {Sentinel(t, d) : d \in DaysOf(t)}
     IN  queue' = [k \in DOMAIN queue \cup sentinels |->
                     IF k \in sentinels THEN 0 ELSE queue[k]]
  /\ UNCHANGED <<up, online, seats, data, nextIdx, history, scan>>

-----------------------------------------------------------------------------
(* buy_ticket *)

\* RequestSingleTrain finds the journey: the stops of a train are registered
\* when it is released, and the day is in its sale period.  Rides take at least
\* a minute here; what is sold where one takes no time is in Queries.
OnSale(o) ==
  /\ o.train \in DOMAIN train
  /\ train[o.train].released
  /\ o.day \in DaysOf(o.train)
  /\ o.from < o.to

CanOrder(u, o) ==
  /\ Ready
  /\ u \in online
  /\ OnSale(o)
  /\ nextIdx < FirstIdx + MaxOrders

SeatsFor(o) == seats[<<o.train, o.day>>]

WriteOrder(o) ==
  /\ data' = Put(data, nextIdx, o)
  /\ nextIdx' = nextIdx + 1

\* A bug: the history's counter is not incremented.
EnterHistoryOverLast(u) ==
  history' = [history EXCEPT ![u] =
                IF @ = <<>> THEN <<nextIdx>> ELSE [@ EXCEPT ![Len(@)] = nextIdx]]

EnterHistory(u) ==
  history' = [history EXCEPT ![u] = Append(@, nextIdx)]

BuySeats(u, o) ==
  /\ CanOrder(u, o)
  /\ o.status = Success
  /\ Fits(SeatsFor(o).seat, o)
  /\ WriteOrder(o)
  /\ EnterHistory(u)
  /\ seats' = [seats EXCEPT ![<<o.train, o.day>>].seat = Take(@, o)]
  /\ UNCHANGED <<up, online, train, queue, scan>>

MustWait(o) ==
  /\ o.status = Pending
  /\ ~Fits(SeatsFor(o).seat, o)
  /\ o.num <= SeatsFor(o).max

\* A bug: the counter is read but not written back.
EnqueueAtKeepCounter(c, o) ==
  queue' = Put(queue, <<o.train, o.day, queue[c] + 1>>, nextIdx)

\* lower_bound(sentinel) stopped at c: its value is incremented in place and
\* names the new entry.
EnqueueAt(c, o) ==
  queue' = Put(Put(queue, c, queue[c] + 1),
               <<o.train, o.day, queue[c] + 1>>, nextIdx)

JoinQueue(u, o) ==
  /\ CanOrder(u, o)
  /\ MustWait(o)
  /\ WriteOrder(o)
  /\ EnterHistory(u)
  /\ \E c \in DOMAIN queue :
       IsLowerBound(c, Sentinel(o.train, o.day)) /\ EnqueueAt(c, o)
  /\ UNCHANGED <<up, online, train, seats, scan>>

JoinQueueCrash(u, o) ==
  /\ CanOrder(u, o)
  /\ MustWait(o)
  /\ WriteOrder(o)
  /\ PastTheEnd(Sentinel(o.train, o.day))
  /\ up' = FALSE
  /\ UNCHANGED <<online, train, seats, queue, history, scan>>

-----------------------------------------------------------------------------
(* refund_ticket *)

\* FetchSingleUserOrderHistory: the n-th newest order of u.
NthNewest(u, n) == history[u][Len(history[u]) - n + 1]

\* u is online, has an n-th newest order, and its status is s.
CanRefund(u, n, s) ==
  /\ Ready
  /\ u \in online
  /\ n \in 1 .. Len(history[u])
  /\ data[NthNewest(u, n)].status = s

SetStatus(i, s) == data' = [data EXCEPT ![i].status = s]

\* A waiting order is only marked: its entry stays in the queue.
CancelWaiting(u, n) ==
  /\ CanRefund(u, n, Pending)
  /\ SetStatus(NthNewest(u, n), Refunded)
  /\ UNCHANGED <<up, online, train, seats, nextIdx, queue, history, scan>>

\* A bug: the scan starts one entry short.
FetchQueueShort(t, d, c) ==
  [todo |-> {[idx |-> queue[k], id |-> k[3]] :
               k \in {x \in DOMAIN queue : x[1] = t /\ x[2] = d /\ Before(c, x)}},
   left |-> IF queue[c] = 0 THEN 0 ELSE queue[c] - 1]

\* FetchQueue, when lower_bound(sentinel) stopped at c: the entries of this
\* train and day after c, in a vector of queue[c] elements whose unused tail
\* is value-initialised.
FetchQueue(t, d, c) ==
  [todo |-> {[idx |-> queue[k], id |-> k[3]] :
               k \in {x \in DOMAIN queue : x[1] = t /\ x[2] = d /\ Before(c, x)}},
   left |-> queue[c]]

\* The seats go back, the queue is fetched, the loop begins.
RefundSeats(u, n) ==
  /\ CanRefund(u, n, Success)
  /\ LET i == NthNewest(u, n)
         o == data[i]
     IN  /\ SetStatus(i, Refunded)
         /\ seats' = [seats EXCEPT ![<<o.train, o.day>>].seat = Give(@, o)]
         /\ \E c \in DOMAIN queue :
              /\ IsLowerBound(c, Sentinel(o.train, o.day))
              /\ LET q == FetchQueue(o.train, o.day, c)
                 IN  scan' = [on |-> TRUE, train |-> o.train, day |-> o.day,
                              todo |-> q.todo, left |-> q.left,
                              seat |-> Give(SeatsFor(o).seat, o)]
  /\ UNCHANGED <<up, online, train, nextIdx, queue, history>>

RefundCrash(u, n) ==
  /\ CanRefund(u, n, Success)
  /\ LET i == NthNewest(u, n)
         o == data[i]
     IN  /\ SetStatus(i, Refunded)
         /\ seats' = [seats EXCEPT ![<<o.train, o.day>>].seat = Give(@, o)]
         /\ PastTheEnd(Sentinel(o.train, o.day))
  /\ up' = FALSE
  /\ UNCHANGED <<online, train, nextIdx, queue, history, scan>>

\* A bug: the newest waiting order is served first.
NextEntriesNewestFirst ==
  IF scan.todo = {} THEN {[idx |-> 0, id |-> 0]}
  ELSE {p \in scan.todo : \A q \in scan.todo : p.id >= q.id}

\* The vector's next element: the entries in key order, then the unused tail.
NextEntries ==
  IF scan.todo = {} THEN {[idx |-> 0, id |-> 0]}
  ELSE {p \in scan.todo : \A q \in scan.todo : p.id <= q.id}

Visiting(p) ==
  /\ up /\ scan.on /\ scan.left > 0
  /\ p \in NextEntries

\* RemoveOrderFromQueue
Dequeue(p) == queue' = RemoveKeys(queue, {<<scan.train, scan.day, p.id>>})

Advance(p, seat) ==
  scan' = [scan EXCEPT !.todo = @ \ {p}, !.left = @ - 1, !.seat = seat]

\* The order was cancelled while it waited (or is the used-up element 0).
DropEntry(p) ==
  /\ Visiting(p)
  /\ data[p.idx].status # Pending
  /\ Dequeue(p)
  /\ Advance(p, scan.seat)
  /\ UNCHANGED <<up, online, train, seats, data, nextIdx, history>>

\* A bug: whether the order still waits is not looked at.
ServeAnyEntry(p) ==
  /\ Visiting(p)
  /\ Fits(scan.seat, data[p.idx])
  /\ SetStatus(p.idx, Success)
  /\ Dequeue(p)
  /\ Advance(p, Take(scan.seat, data[p.idx]))
  /\ UNCHANGED <<up, online, train, seats, nextIdx, history>>

ServeEntry(p) ==
  /\ Visiting(p)
  /\ data[p.idx].status = Pending
  /\ Fits(scan.seat, data[p.idx])
  /\ SetStatus(p.idx, Success)
  /\ Dequeue(p)
  /\ Advance(p, Take(scan.seat, data[p.idx]))
  /\ UNCHANGED <<up, online, train, seats, nextIdx, history>>

\* A bug: the loop ends at the first order that does not fit.
StopAtEntry(p) ==
  /\ Visiting(p)
  /\ data[p.idx].status = Pending
  /\ ~Fits(scan.seat, data[p.idx])
  /\ scan' = [scan EXCEPT !.left = 0]
  /\ UNCHANGED <<up, online, train, seats, data, nextIdx, queue, history>>

SkipEntry(p) ==
  /\ Visiting(p)
  /\ data[p.idx].status = Pending
  /\ ~Fits(scan.seat, data[p.idx])
  /\ Advance(p, scan.seat)
  /\ UNCHANGED <<up, online, train, seats, data, nextIdx, queue, history>>

\* A bug: the seats taken by the served orders are not stored.
EndScanUnstored ==
  /\ up /\ scan.on /\ scan.left = 0
  /\ scan' = Idle
  /\ UNCHANGED <<up, online, train, seats, data, nextIdx, queue, history>>

\* The loop is over: the local seats are stored and the command answers.
EndScan ==
  /\ up /\ scan.on /\ scan.left = 0
  /\ seats' = [seats EXCEPT ![<<scan.train, scan.day>>].seat = scan.seat]
  /\ scan' = Idle
  /\ UNCHANGED <<up, online, train, data, nextIdx, queue, history>>

ScanStep ==
  \/ scan.on /\ \E p \in NextEntries : DropEntry(p) \/ ServeEntry(p) \/ SkipEntry(p)
  \/ EndScan

-----------------------------------------------------------------------------

\* The sale period is 2 months at most; Days is every day a train may have.
Days == UNION {0 .. n - 1 : n \in DayCounts}

Requests(s) ==
  {NewOrder(t, d, f, g, n, s) :
     t \in Trains, d \in Days, f \in Stops, g \in Stops, n \in TicketNums}

Next ==
  \/ \E u \in Users : Login(u) \/ Logout(u)
  \/ Restart
  \/ \E t \in Trains, m \in SeatNums, n \in DayCounts : AddTrain(t, m, n)
  \/ \E t \in Trains : DeleteTrain(t) \/ ReleaseTrain(t)
  \/ \E u \in Users, o \in Requests(Success) : BuySeats(u, o)
  \/ \E u \in Users, o \in Requests(Pending) : JoinQueue(u, o) \/ JoinQueueCrash(u, o)
  \/ \E u \in Users, n \in 1 .. MaxOrders :
       CancelWaiting(u, n) \/ RefundSeats(u, n) \/ RefundCrash(u, n)
  \/ ScanStep

Spec == Init /\ [][Next]_vars

\* Execute runs a command to its end before it reads the next one.
FairSpec == Spec /\ WF_vars(ScanStep)

-----------------------------------------------------------------------------
(* Properties *)

OrderIdx == FirstIdx .. nextIdx - 1

\* The counter of the waiting queue of train t and day d is still there.
Intact(t, d) == Sentinel(t, d) \in DOMAIN queue

EntriesOf(t, d) == {k \in DOMAIN queue : k[1] = t /\ k[2] = d /\ k[3] # 0}

ScanningDay(t, d) == scan.on /\ scan.train = t /\ scan.day = d

\* The seats as the running command sees them.
SeatsNow(t, d) == IF ScanningDay(t, d) THEN scan.seat ELSE seats[<<t, d>>].seat

OrderType ==
  [train : Trains, day : Nat, from : Stops, to : Stops, num : Nat, status : 0 .. 2]

HeaderType == {BlankOrder, [BlankOrder EXCEPT !.status = Success]}

ScanType ==
  [on : {TRUE}, train : Trains, day : Nat, todo : SUBSET [idx : Nat, id : Nat],
   left : Nat, seat : [Segments -> Nat]]

SessionsType ==
  /\ up \in BOOLEAN
  /\ online \subseteq Users
  /\ history \in [Users -> Seq(OrderIdx)]

TrainsType ==
  /\ DOMAIN train \subseteq Trains
  /\ train \in [DOMAIN train -> [seatNum : SeatNums, days : DayCounts, released : BOOLEAN]]

SeatsType ==
  /\ DOMAIN seats \subseteq Trains \X Nat
  /\ seats \in [DOMAIN seats -> [seat : [Segments -> Nat], max : SeatNums]]

OrdersType ==
  /\ nextIdx \in Nat /\ nextIdx >= FirstIdx
  /\ DOMAIN data = {0} \cup OrderIdx
  /\ \A i \in OrderIdx : data[i] \in OrderType /\ data[i].from < data[i].to
  /\ data[0] \in HeaderType

QueueType ==
  /\ DOMAIN queue \subseteq Trains \X Nat \X Nat
  /\ queue \in [DOMAIN queue -> Nat]

\* Every variable holds a value of its type; in particular no number of free
\* seats, in the store or in the running loop, ever goes below zero.
TypeOK ==
  /\ SessionsType
  /\ TrainsType
  /\ SeatsType
  /\ OrdersType
  /\ QueueType
  /\ scan \in {Idle} \cup ScanType

\* The tickets sold for segment j of train t on day d.
Sold(t, d, j) ==
  UNION {{i} \X (1 .. data[i].num) :
           i \in {x \in OrderIdx : /\ data[x].status = Success
                                   /\ data[x].train = t /\ data[x].day = d
                                   /\ j \in Covered(data[x])}}

\* buy_ticket, refund_ticket and the serving of the queue move seats between
\* seats_data and the orders and lose none: on every segment the free seats
\* and the tickets of the successful orders make up the train's seats.
SeatsConserved ==
  \A k \in DOMAIN seats : \A j \in Segments :
    SeatsNow(k[1], k[2])[j] + Cardinality(Sold(k[1], k[2], j)) = train[k[1]].seatNum

SeatsMatchTrains ==
  DOMAIN seats = {k \in Trains \X Days : k[1] \in DOMAIN train /\ k[2] \in DaysOf(k[1])}

OrdersHaveTrains ==
  \A i \in OrderIdx :
    /\ data[i].train \in DOMAIN train
    /\ train[data[i].train].released
    /\ data[i].day \in DaysOf(data[i].train)

\* delete_train never takes away a train that somebody has ordered, and the
\* seat records are those of the trains there are, one for each day on sale.
OrdersKeepTheirTrain == SeatsMatchTrains /\ OrdersHaveTrains

\* AddOrder files every order in one place of one user's history, in the order
\* of purchase (a process that dies in between has filed nothing).
EveryOrderFiledOnce ==
  up => \A i \in OrderIdx :
          \E u \in Users : \E n \in 1 .. Len(history[u]) :
            /\ history[u][n] = i
            /\ \A v \in Users : \A m \in 1 .. Len(history[v]) :
                 history[v][m] = i => v = u /\ m = n

\* As long as the counter of its train and day is there, a waiting order has an
\* entry in that queue, and one only: it can be found when seats come back.
WaitingOrdersQueued ==
  up => \A i \in OrderIdx :
          data[i].status = Pending /\ Intact(data[i].train, data[i].day) =>
            \E k \in EntriesOf(data[i].train, data[i].day) :
              /\ queue[k] = i
              /\ \A x \in EntriesOf(data[i].train, data[i].day) : queue[x] = i => x = k

\* "when there are tickets again the user at once counts as having bought":
\* between commands no waiting order fits into the free seats, as long as the
\* counter of its queue is there.
NoServableOrderWaits ==
  Ready => \A i \in OrderIdx :
             data[i].status = Pending /\ Intact(data[i].train, data[i].day) =>
               ~Fits(SeatsFor(data[i]).seat, data[i])

\* The same without the proviso, as management_system.md promises it.
NoServableOrderWaitsEver ==
  Ready => \A i \in OrderIdx :
             data[i].status = Pending => ~Fits(SeatsFor(data[i]).seat, data[i])

\* A served order overtakes no older order of the same queue that would fit
\* now, as long as the counter of the queue is there.
NoOvertaking ==
  [][\A i, j \in OrderIdx :
       /\ data[j].status = Pending /\ data'[j].status = Success
       /\ i < j /\ data[i].status = Pending
       /\ data[i].train = data[j].train /\ data[i].day = data[j].day
       /\ Intact(data[j].train, data[j].day)
       => ~Fits(scan.seat, data[i])]_vars

\* What an order says never changes but for its status; a refunded order stays
\* refunded, and a successful one never waits again.
OrdersOnlyMoveOn ==
  [][\A i \in OrderIdx :
       /\ [data'[i] EXCEPT !.status = data[i].status] = data[i]
       /\ data[i].status = Refunded => data'[i].status = Refunded
       /\ data[i].status = Success => data'[i].status # Pending]_vars

\* An order as the waiting list has it.
Listed(o) ==
  [on |-> <<o.train, o.day>>, legs |-> Covered(o), num |-> o.num, status |-> o.status]

ListedOrders == [i \in OrderIdx |-> Listed(data[i])]
FreeSeats == [k \in DOMAIN seats |-> SeatsNow(k[1], k[2])]
Serving == IF scan.on THEN {<<scan.train, scan.day>>} ELSE {}
Void == {k \in DOMAIN seats : train[k[1]].released /\ ~Intact(k[1], k[2])}

List == INSTANCE WaitingList WITH
  Lists <- Trains \X Days,
  Legs <- Segments,
  Numbers <- FirstIdx .. FirstIdx + MaxOrders - 1,
  orders <- ListedOrders,
  free <- FreeSeats,
  serving <- Serving,
  void <- Void

\* Orders, queue, counters and the loop of a refund are a waiting list for each
\* train and day: seats that come back go to the oldest orders that fit, and
\* the loop stops when no order fits.  The promise is void once the loop has
\* taken the counter for an order, and at that moment it has served everybody.
ImplementsWaitingList == List!Spec

\* A waiting order that fits into the free seats, in a queue with its counter.
Servable(i) ==
  /\ i \in OrderIdx
  /\ data[i].status = Pending
  /\ Intact(data[i].train, data[i].day)
  /\ Fits(SeatsNow(data[i].train, data[i].day), data[i])

\* Seats that come back are taken: a waiting order that fits is served in the
\* end, unless older ones take the seats, however many of its queue were
\* cancelled or do not fit.
FreedSeatsAreTaken ==
  \A i \in FirstIdx .. FirstIdx + MaxOrders - 1 : Servable(i) ~> ~Servable(i)

-----------------------------------------------------------------------------
(* The inductive invariant behind TypeOK and NoServableOrderWaits *)

\* The queue belongs to released trains, and its entries point to orders.
QueueRefs ==
  \A k \in DOMAIN queue :
    /\ k[1] \in DOMAIN train /\ train[k[1]].released /\ k[2] \in DaysOf(k[1])
    /\ k[3] # 0 => queue[k] \in OrderIdx

ScanRefs ==
  scan.on =>
    /\ <<scan.train, scan.day>> \in DOMAIN seats
    /\ \A p \in scan.todo : p.id # 0 /\ p.idx \in OrderIdx

TypeInv == TypeOK /\ OrdersKeepTheirTrain /\ QueueRefs /\ ScanRefs

\* While it is there, the counter is an upper bound of the ids in its queue.
CounterCovers ==
  \A k \in DOMAIN queue :
    k[3] # 0 /\ Intact(k[1], k[2]) => k[3] <= queue[Sentinel(k[1], k[2])]

WaitingHaveEntries ==
  \A i \in OrderIdx :
    data[i].status = Pending /\ Intact(data[i].train, data[i].day) =>
      \E k \in EntriesOf(data[i].train, data[i].day) : queue[k] = i

\* The running loop still has before it every waiting order of its queue that
\* fits into the seats it has left, and iterations enough to reach them all.
ScanCovers ==
  scan.on /\ Intact(scan.train, scan.day) =>
    /\ \A p \in scan.todo :
         /\ <<scan.train, scan.day, p.id>> \in DOMAIN queue
         /\ queue[<<scan.train, scan.day, p.id>>] = p.idx
    /\ IsFiniteSet(scan.todo) /\ Cardinality(scan.todo) <= scan.left
    /\ \A i \in OrderIdx :
         /\ data[i].status = Pending
         /\ data[i].train = scan.train /\ data[i].day = scan.day
         /\ Fits(scan.seat, data[i])
         => \E p \in scan.todo : p.idx = i

NoneServable ==
  \A i \in OrderIdx :
    /\ data[i].status = Pending
    /\ Intact(data[i].train, data[i].day)
    /\ ~ScanningDay(data[i].train, data[i].day)
    => ~Fits(SeatsFor(data[i]).seat, data[i])

\* What makes a refund serve the queue: the conjunction is inductive.
ServeInv ==
  TypeInv /\ CounterCovers /\ WaitingHaveEntries /\ ScanCovers /\ NoneServable

-----------------------------------------------------------------------------
(* The inductive invariant behind WaitingOrdersQueued, NoOvertaking and     *)
(* SeatsConserved                                                           *)

\* k is not the first entry of its queue.  The first one of a queue that has
\* lost its counter serves as one, and its value is overwritten.
Behind(k) == \E x \in DOMAIN queue : x[1] = k[1] /\ x[2] = k[2] /\ x[3] < k[3]

\* A value is less than the index of the next order and not less than its id,
\* so the id made from it lies behind it.
QueueValues == \A k \in DOMAIN queue : k[3] <= queue[k] /\ queue[k] < nextIdx

\* An entry behind another one is that of an order of this train and day.
EntriesSound ==
  \A k \in DOMAIN queue :
    Behind(k) => data[queue[k]].train = k[1] /\ data[queue[k]].day = k[2]

\* A queue with its counter is in the order of purchase.
EntriesOrdered ==
  \A k, x \in DOMAIN queue :
    /\ k[1] = x[1] /\ k[2] = x[2] /\ k[3] # 0 /\ k[3] < x[3]
    /\ Intact(k[1], k[2])
    => queue[k] < queue[x]

\* What the running loop serves are orders of the train and day it is about.
ScanSound ==
  scan.on => \A p \in scan.todo :
               data[p.idx].train = scan.train /\ data[p.idx].day = scan.day

QueueInv == ServeInv /\ QueueValues /\ EntriesSound /\ EntriesOrdered /\ ScanSound

=============================================================================
